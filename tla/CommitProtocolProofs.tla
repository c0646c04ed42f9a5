----------------------- MODULE CommitProtocolProofs ------------------------
(* Proofs about CommitProtocol, for any participants, partitions, pages and   *)
(* workload and all bounds: first committer wins, the write-ahead rule, pins  *)
(* that keep the log, a commit.state that never moves back, and the           *)
(* refinement of SnapshotStore.                                               *)
EXTENDS CommitProtocol, TLAPS
LOCAL INSTANCE WellFoundedInduction

-----------------------------------------------------------------------------
(* The inductive invariant.                                                   *)

Phases == {"idle", "begin", "gap", "redo", "ready", "appended", "apply", "freeze", "sync",
           "closed"}
Jobs == {"none", "commit", "checkpoint", "finish", "recover"}
Inside == {"gap", "redo", "ready", "appended", "apply", "freeze"}
Caches == UNION {[S -> Page] : S \in SUBSET Pages}

\* The watermarks of log, barrier, publication, checkpoint and recycling are
\* ordered, and at most one batch is beyond the barrier.
Watermarks ==
    /\ pub \in State /\ durable \in Nat /\ first \in Nat
    /\ Len(log) <= MaxLsn
    /\ pub.ckpt <= pub.last /\ pub.last <= durable
    /\ durable <= Len(log) /\ Len(log) <= durable + 1
    /\ 1 <= first /\ first <= pub.ckpt + 1

\* A batch declares what it writes, comes from a snapshot that was published, and
\* stamps its page images with its own LSN.
LogWellFormed ==
    /\ log \in Seq(Batch)
    /\ \A n \in 1 .. Len(log) :
          /\ log[n].writes \subseteq log[n].interest
          /\ log[n].snap <= pub.last
          /\ \A g \in DOMAIN log[n].img : log[n].img[g].lsn = n

\* Whoever works on log, pages or commit.state owns COMMIT_SECTION, and how far
\* it is says where the watermarks are.
SectionHeld ==
    /\ section \in Participants \cup {NoOwner}
    /\ pc \in [Participants -> Phases]
    /\ job \in [Participants -> Jobs]
    /\ \A p \in Participants :
          /\ pc[p] \in Inside => section = p
          /\ pc[p] \in {"ready", "freeze"} => Len(log) = pub.last
          /\ pc[p] \in {"redo", "apply"} => durable = Len(log)
          /\ pc[p] = "appended" => Len(log) = durable + 1

\* A registration that stands is no later than the snapshot it protects, also
\* while begin has read a floor and not yet taken the snapshot.
PinOK(p) ==
    /\ regPin[p] # NoPin => regPin[p] <= pub.last
    /\ regPin[p] # NoPin /\ p \notin lapsed => pin[p] = regPin[p]
    /\ snap[p] # NoSnap => regPin[p] # NoPin /\ regPin[p] <= snap[p] /\ snap[p] <= pub.last
    /\ snap[p] # NoSnap /\ p \notin lapsed => first <= snap[p] + 1
    /\ job[p] = "commit" => snap[p] # NoSnap
    /\ pc[p] = "begin" => /\ floor[p].last <= pub.last
                          /\ regPin[p] # NoPin => regPin[p] <= floor[p].last
                          /\ regPin[p] # NoPin /\ p \notin lapsed => first <= floor[p].last + 1

PinsProtect ==
    /\ pin \in [Participants -> 0 .. NoPin]
    /\ regPin \in [Participants -> 0 .. NoPin]
    /\ snap \in [Participants -> 0 .. NoSnap]
    /\ floor \in [Participants -> State]
    /\ \A p \in Participants : PinOK(p)

\* Every page is behind the barrier, and a page that is still owed has an image.
PagesBehind ==
    /\ os \in [Pages -> Page] /\ disk \in [Pages -> Page]
    /\ cache \in [Participants -> Caches]
    /\ todo \in [Participants -> SUBSET Pages]
    /\ \A g \in Pages : os[g].lsn <= durable /\ disk[g].lsn <= durable
    /\ \A p \in Participants : pc[p] \in {"redo", "apply", "freeze"} =>
          \A g \in todo[p] : WritersOf(g, Len(log)) # {}

CommitInvariant ==
    /\ Watermarks /\ LogWellFormed /\ SectionHeld /\ PinsProtect /\ PagesBehind
    /\ FirstCommitterWins

-----------------------------------------------------------------------------
(* Least and greatest elements.                                               *)

LessThan == {ss \in Nat \X Nat : ss[1] < ss[2]}

\* The horizon of recyclable_horizon is one of the positions it is taken over, and
\* none of them is below it.
LEMMA LowestIsLeast ==
    ASSUME NEW S \in SUBSET Nat, S # {}
    PROVE  Lowest(S) \in S /\ \A y \in S : Lowest(S) <= y
<1>1. OpToRel(<, Nat) = LessThan
  BY Zenon DEF OpToRel, LessThan
<1>2. IsWellFoundedOn(LessThan, Nat)
  BY <1>1, NatLessThanWellFounded, Zenon
<1>3. PICK x \in S : \A y \in S : ~(<<y, x>> \in LessThan)
  BY <1>2, WFMin, Zenon
<1>4. \A y \in S : x <= y
  <2> SUFFICES ASSUME NEW y \in S, y < x  PROVE  FALSE
    OBVIOUS
  <2>1. <<y, x>> \in LessThan
    BY Zenon DEF LessThan
  <2> QED  BY <2>1, <1>3, Zenon
<1> QED  BY <1>4, Zenon DEF Lowest

\* A bounded set of positions has a greatest one.
LEMMA GreatestExists ==
    ASSUME NEW n \in Nat, NEW S \in SUBSET (1 .. n), S # {}
    PROVE  \E m \in S : \A k \in S : k <= m
<1> DEFINE D == {n - k : k \in S}
<1>1. D \in SUBSET Nat /\ D # {}
  <2>1. D \in SUBSET Nat
    OBVIOUS
  <2>2. PICK k \in S : TRUE
    BY Zenon
  <2>3. n - k \in D
    BY Zenon
  <2> QED  BY <2>1, <2>3, Zenon
<1>2. PICK m \in S : n - m = Lowest(D)
  BY <1>1, LowestIsLeast, Zenon
<1>3. \A k \in S : n - m <= n - k
  BY <1>1, <1>2, LowestIsLeast
<1> QED  BY <1>3

-----------------------------------------------------------------------------
(* Sequences.                                                                 *)

\* An element of a sequence is in its set.
LEMMA SeqElement ==
    ASSUME NEW S, NEW s \in Seq(S), NEW i \in 1 .. Len(s)
    PROVE  s[i] \in S
OBVIOUS

\* What truncating the log leaves.
LEMMA SubSeqFacts ==
    ASSUME NEW S, NEW s \in Seq(S), NEW m \in 1 .. Len(s) + 1, NEW n \in 0 .. Len(s)
    PROVE  /\ SubSeq(s, m, n) \in Seq(S)
           /\ Len(SubSeq(s, m, n)) = IF m <= n THEN n - m + 1 ELSE 0
           /\ \A i \in 1 .. n - m + 1 : SubSeq(s, m, n)[i] = s[m + i - 1]
OBVIOUS

\* What appending to the log leaves.
LEMMA AppendFacts ==
    ASSUME NEW S, NEW s \in Seq(S), NEW e \in S
    PROVE  /\ Append(s, e) \in Seq(S) /\ Len(Append(s, e)) = Len(s) + 1
           /\ \A i \in 1 .. Len(s) : Append(s, e)[i] = s[i]
           /\ Append(s, e)[Len(s) + 1] = e
OBVIOUS

\* What redo installs for a page somebody wrote is a page image, stamped with an
\* LSN of the log.
LEMMA NewestImageInLog ==
    ASSUME LogWellFormed, NEW g \in Pages, WritersOf(g, Len(log)) # {}
    PROVE  NewestImage(g) \in Page /\ NewestImage(g).lsn <= Len(log)
<1> DEFINE W == WritersOf(g, Len(log))
<1>1. Len(log) \in Nat /\ W \in SUBSET (1 .. Len(log))
  BY DEF LogWellFormed, WritersOf
<1>2. PICK m \in W : \A k \in W : k <= m
  BY <1>1, GreatestExists, Zenon
<1> DEFINE n == CHOOSE x \in W : \A k \in W : k <= x
<1>3. n \in W
  BY <1>2, Zenon
<1>4. n \in 1 .. Len(log) /\ g \in DOMAIN log[n].img
  BY <1>3, Zenon DEF WritersOf
<1>5. log[n] \in Batch
  BY <1>4, SeqElement, Zenon DEF LogWellFormed
<1>6. log[n].img \in Caches
  BY <1>5, Zenon DEF Batch, Caches
<1>7. log[n].img[g] \in Page
  BY <1>4, <1>6, Zenon DEF Caches
<1>8. log[n].img[g].lsn = n
  BY <1>4, Zenon DEF LogWellFormed
<1> QED  BY <1>4, <1>7, <1>8 DEF NewestImage

\* The bound on log positions is a number.
LEMMA BoundIsNatural == MaxLsn \in Nat
BY CommitAssumption, Zenon

-----------------------------------------------------------------------------
(* What a step does to the log and to the watermarks.                         *)

Still == UNCHANGED <<log, first, durable, pub>>

\* ForceTail, Barrier: the barrier reaches the end of the log.
Forces(p) ==
    /\ pc[p] \in {"gap", "appended"} /\ durable' = Len(log)
    /\ UNCHANGED <<log, first, pub>>

\* PublishGap, PublishCommit, FinishRecovery: the end of a forced log is published.
Publishes(p) ==
    /\ pc[p] \in {"redo", "apply"} /\ pub' = [last |-> Len(log), ckpt |-> pub.ckpt]
    /\ UNCHANGED <<log, first, durable>>

\* Either checkpoint: a position up to the watermark, and a log cut below it.
Recycles(p) ==
    /\ pc[p] \in {"ready", "freeze"}
    /\ \E ckpt \in 0 .. MaxLsn, pruned \in SUBSET (Participants \ {p}), cut \in Nat :
          /\ pub.ckpt <= ckpt /\ ckpt <= pub.last /\ first <= cut
          /\ PublishCheckpoint(p, ckpt, pruned, cut)

Appends(p) ==
    /\ Len(log) < MaxLsn /\ Within(2)
    /\ \E t \in Workload[Len(log) + 1] : AppendBatch(p, t)

\* Every step forces, publishes, recycles, appends, loses power or leaves log and
\* watermarks alone.
LEMMA StepKinds ==
    ASSUME CommitInvariant, Next
    PROVE  \/ Still \/ PowerLoss
           \/ \E p \in Participants : Forces(p) \/ Publishes(p) \/ Recycles(p) \/ Appends(p)
<1>1. ASSUME NEW p \in Participants,
             \/ BeginFloor(p) \/ Rollback(p) \/ GiveUpFinish(p)
             \/ RecoverPostBarrier(p) \/ Freeze(p) \/ EndFreeze(p) \/ EnterRecovery(p) \/ Fail(p)
             \/ RefuseCommit(p) \/ \E due \in BOOLEAN : Begin(p, due)
      PROVE  Still
  BY <1>1, Zenon DEF Still, device, BeginFloor, Rollback, GiveUpFinish, RecoverPostBarrier, Freeze,
     EndFreeze, EnterRecovery, Fail, RefuseCommit, Begin
<1>2. ASSUME NEW p \in Participants,
             \/ StartCommit(p) \/ StartCheckpoint(p) \/ StartFinish(p)
             \/ \E g \in Pages : LoadPage(p, g) \/ WritePage(p, g) \/ SyncPage(p, g)
      PROVE  Still
  BY <1>2, Zenon
     DEF Still, device, StartCommit, StartCheckpoint, StartFinish, EnterSection, LoadPage,
     WritePage, SyncPage
<1>3. ASSUME NEW p \in Participants, ForceTail(p) \/ Barrier(p)
      PROVE  Forces(p)
  BY <1>3, Zenon DEF Forces, ForceTail, Barrier
<1>4. ASSUME NEW p \in Participants, PublishGap(p) \/ PublishCommit(p) \/ FinishRecovery(p)
      PROVE  Still \/ Publishes(p)
  BY <1>4, Zenon DEF Still, Publishes, PublishGap, PublishCommit, FinishRecovery
<1>5. ASSUME NEW p \in Participants, NEW pruned \in SUBSET (Participants \ {p}),
             NEW cut \in first .. MaxLsn,
             FinishCheckpoint(p, pruned, cut) \/ CheckpointInSection(p, pruned, cut)
      PROVE  Recycles(p)
  <2>1. /\ cut \in Nat /\ first <= cut
        /\ pub.ckpt \in 0 .. MaxLsn /\ pub.last \in 0 .. MaxLsn /\ pub.ckpt <= pub.last
    BY BoundIsNatural DEF CommitInvariant, Watermarks, State
  <2>2. floor[p].last \in 0 .. MaxLsn
    BY Zenon DEF CommitInvariant, PinsProtect, State
  <2>3. CASE FinishCheckpoint(p, pruned, cut)
    <3>1. /\ CheckpointTarget(p) \in 0 .. MaxLsn
          /\ pub.ckpt <= CheckpointTarget(p) /\ CheckpointTarget(p) <= pub.last
      BY <2>1, <2>2, <2>3 DEF FinishCheckpoint, CheckpointTarget, Larger
    <3> QED  BY <2>1, <2>3, <3>1, Zenon DEF FinishCheckpoint, Recycles
  <2>4. CASE CheckpointInSection(p, pruned, cut)
    BY <2>1, <2>4 DEF CheckpointInSection, Recycles
  <2> QED  BY <1>5, <2>3, <2>4, Zenon
<1> QED  BY <1>1, <1>2, <1>3, <1>4, <1>5, Zenon DEF Next, Appends

\* The log is cut below the checkpoint and below every registration that stands
\* (recyclable_horizon).
LEMMA RecycleKeeps ==
    ASSUME CommitInvariant, NEW p \in Participants, NEW ckpt \in 0 .. MaxLsn,
           NEW pruned \in SUBSET (Participants \ {p}), NEW cut \in Nat,
           PublishCheckpoint(p, ckpt, pruned, cut)
    PROVE  /\ first' <= first \/ first' <= ckpt
           /\ \A q \in Participants : first' <= first \/ first' <= pin'[q]
           /\ pin' \in [Participants -> 0 .. NoPin]
<1> DEFINE own == IF regPin[p] = NoPin THEN NoPin
                  ELSE Larger(regPin[p], IF snap[p] # NoSnap THEN snap[p] ELSE ckpt)
           pins == [q \in Participants |-> IF q = p THEN IF own = NoPin THEN pin[p] ELSE own
                                           ELSE IF q \in pruned THEN NoPin ELSE pin[q]]
           All == {ckpt} \cup {pins[q] : q \in Participants}
<1>1. own \in 0 .. NoPin
  BY BoundIsNatural DEF CommitInvariant, PinsProtect, Larger, NoPin, NoSnap
<1>2. pins \in [Participants -> 0 .. NoPin]
  BY <1>1, BoundIsNatural DEF CommitInvariant, PinsProtect, NoPin
<1>3. All \in SUBSET Nat /\ All # {}
  BY <1>2, BoundIsNatural DEF NoPin
<1>4. \A y \in All : Lowest(All) <= y
  BY <1>3, LowestIsLeast, Zenon
<1>5. Lowest(All) \in Nat
  BY <1>3, LowestIsLeast, Zenon
<1>6. /\ pin' = pins /\ first' = cut
      /\ cut <= Larger(first, Lowest(All))
  BY Zenon DEF PublishCheckpoint, Horizon
<1>7. first \in Nat
  BY ZenonT(60) DEF CommitInvariant, Watermarks
<1>8. cut <= first \/ \A y \in All : cut <= y
  BY <1>3, <1>4, <1>5, <1>6, <1>7 DEF Larger
<1> QED  BY <1>2, <1>6, <1>8, Zenon

\* The watermarks stay in order.
LEMMA WatermarksKept ==
    ASSUME CommitInvariant, Next
    PROVE  Watermarks'
<1> USE BoundIsNatural
<1>1. /\ pub \in State /\ durable \in Nat /\ first \in Nat /\ Len(log) \in Nat
      /\ pub.last \in 0 .. MaxLsn /\ pub.ckpt \in 0 .. MaxLsn
  BY DEF CommitInvariant, Watermarks, LogWellFormed, State
<1>2. CASE Still
  BY <1>2, Zenon DEF Still, CommitInvariant, Watermarks
<1>3. ASSUME NEW p \in Participants, Forces(p)  PROVE Watermarks'
  BY <1>1, <1>3 DEF Forces, CommitInvariant, Watermarks
<1>4. ASSUME NEW p \in Participants, Publishes(p)  PROVE Watermarks'
  BY <1>1, <1>4 DEF Publishes, CommitInvariant, Watermarks, SectionHeld, State
<1>5. ASSUME NEW p \in Participants, Recycles(p)  PROVE Watermarks'
  <2>1. PICK ckpt \in 0 .. MaxLsn, pruned \in SUBSET (Participants \ {p}), cut \in Nat :
            /\ pub.ckpt <= ckpt /\ ckpt <= pub.last /\ first <= cut
            /\ PublishCheckpoint(p, ckpt, pruned, cut)
    BY <1>5, Zenon DEF Recycles
  <2>2. /\ pub' = [last |-> pub.last, ckpt |-> ckpt] /\ first' = cut
        /\ log' = log /\ durable' = durable
    BY <2>1, Zenon DEF PublishCheckpoint
  <2>3. first' <= first \/ first' <= ckpt
    BY <2>1, RecycleKeeps, Zenon
  <2> QED  BY <1>1, <2>1, <2>2, <2>3 DEF CommitInvariant, Watermarks, State
<1>6. ASSUME NEW p \in Participants, Appends(p)  PROVE Watermarks'
  <2>1. pc[p] = "ready" /\ UNCHANGED <<first, durable, pub>> /\ Len(log') = Len(log) + 1
    BY <1>6 DEF Appends, AppendBatch, CommitInvariant, LogWellFormed
  <2>2. Len(log) = pub.last /\ Len(log) < MaxLsn
    BY <1>6, <2>1, Zenon DEF Appends, CommitInvariant, SectionHeld
  <2> QED  BY <1>1, <2>1, <2>2 DEF CommitInvariant, Watermarks
<1>7. CASE PowerLoss
  <2>1. PICK n \in durable .. Len(log) : log' = SubSeq(log, 1, n) /\ durable' = n
    BY <1>7, Zenon DEF PowerLoss
  <2>2. Len(log') = n
    BY <1>1, <2>1 DEF CommitInvariant, LogWellFormed
  <2>3. UNCHANGED <<first, pub>>
    BY <1>7, Zenon DEF PowerLoss
  <2> QED  BY <1>1, <2>1, <2>2, <2>3 DEF CommitInvariant, Watermarks
<1> QED  BY <1>2, <1>3, <1>4, <1>5, <1>6, <1>7, StepKinds, Zenon

\* An empty pool is a cache.
LEMMA EmptyPool == NoCache \in Caches
<1>1. NoCache \in [{} -> Page]
  BY DEF NoCache
<1> QED  BY <1>1, Zenon DEF Caches

\* What a pool answers is a page, and what a read view leaves in it is a cache.
LEMMA PinnedIsPage ==
    ASSUME os \in [Pages -> Page], NEW p, NEW c \in Caches, NEW g \in Pages
    PROVE  Pinned(p, c, g) \in Page
BY Zenon DEF Pinned, Caches

\* Dropping cached pages leaves a cache.
LEMMA RefreshedIsCache ==
    ASSUME CommitInvariant, NEW p \in Participants, NEW s
    PROVE  Refreshed(p, s) \in Caches
<1>1. cache[p] \in Caches
  BY Zenon DEF CommitInvariant, PagesBehind
<1>2. \A gs : Keep(cache[p], gs) \in Caches
  <2> TAKE gs
  <2>1. PICK S \in SUBSET Pages : cache[p] \in [S -> Page]
    BY <1>1, Zenon DEF Caches
  <2>2. Keep(cache[p], gs) \in [S \cap gs -> Page]
    BY <2>1, Zenon DEF Keep
  <2> QED  BY <2>2, Zenon DEF Caches
<1>3. NoCache \in Caches
  BY EmptyPool
<1> QED  BY <1>1, <1>2, <1>3, Zenon DEF Refreshed

\* The batch a commit appends: what AppendBatch puts behind the log.
NewBatch(p, t) ==
    [snap |-> snap[p], writes |-> t.writes, interest |-> t.writes \cup t.reads,
     img |-> [g \in PagesOf(t.writes) |->
                [lsn |-> Len(log) + 1,
                 has |-> Pinned(p, Refreshed(p, pub), g).has \cup {Len(log) + 1}]]]

\* The batch of a commit is well formed and is validated against every commit
\* above its snapshot: those that were recycled would have refused it.
LEMMA AppendedBatch ==
    ASSUME CommitInvariant, NEW p \in Participants, NEW t \in Workload[Len(log) + 1],
           Len(log) < MaxLsn, AppendBatch(p, t)
    PROVE  LET b == NewBatch(p, t)
           IN  /\ log' = Append(log, b) /\ b \in Batch
               /\ b.writes \subseteq b.interest /\ b.snap <= pub.last
               /\ \A g \in DOMAIN b.img : b.img[g].lsn = Len(log) + 1
               /\ \A m \in 1 .. Len(log) : m > b.snap => log[m].writes \cap b.interest = {}
<1> USE BoundIsNatural
<1> DEFINE b == NewBatch(p, t)
           c == Refreshed(p, pub)
<1>1. Len(log) \in Nat /\ first \in Nat /\ Len(log) + 1 \in Lsns
  BY DEF CommitInvariant, Watermarks, LogWellFormed, Lsns
<1>2. t.writes \in SUBSET Keys /\ t.reads \in SUBSET Keys
  BY <1>1, CommitAssumption DEF Lsns
<1>3. PagesOf(t.writes) \in SUBSET Pages
  BY <1>2, CommitAssumption, Zenon DEF PagesOf
<1>4. \A g \in PagesOf(t.writes) : Pinned(p, c, g) \in Page
  BY <1>3, PinnedIsPage, RefreshedIsCache, Zenon DEF CommitInvariant, PagesBehind
<1>5. \A g \in PagesOf(t.writes) :
          [lsn |-> Len(log) + 1, has |-> Pinned(p, c, g).has \cup {Len(log) + 1}] \in Page
  BY <1>1, <1>4 DEF Page, Lsns
<1>6. b.img \in [PagesOf(t.writes) -> Page]
  BY <1>5, Zenon DEF NewBatch
<1>7. b.img \in Caches
  BY <1>3, <1>6, Zenon DEF Caches
<1>8. snap[p] \in 0 .. MaxLsn /\ snap[p] <= pub.last
  <2>1. job[p] = "commit"
    BY Zenon DEF AppendBatch
  <2>2. snap[p] # NoSnap /\ snap[p] \in 0 .. NoSnap
    BY <2>1, Zenon DEF CommitInvariant, PinsProtect, PinOK
  <2>3. snap[p] <= pub.last
    BY <2>2, Zenon DEF CommitInvariant, PinsProtect, PinOK
  <2> QED  BY <2>2, <2>3 DEF NoSnap
<1>9. b \in Batch
  BY <1>2, <1>7, <1>8, Zenon DEF Batch, Caches, NewBatch
<1>10. \A m \in 1 .. Len(log) : m > snap[p] => log[m].writes \cap (t.writes \cup t.reads) = {}
  <2> SUFFICES ASSUME NEW m \in 1 .. Len(log), m > snap[p]
               PROVE  log[m].writes \cap (t.writes \cup t.reads) = {}
    BY Zenon
  <2>1. first <= snap[p] + 1
    BY <1>1, <1>8 DEF AppendBatch, RetentionLost
  <2>2. m \in first .. Len(log)
    BY <1>1, <1>8, <2>1
  <2> QED  BY <2>2, Zenon DEF AppendBatch, Conflicts
<1>11. log' = Append(log, b)
  BY Zenon DEF AppendBatch, NewBatch
<1>12. /\ b.writes \subseteq b.interest /\ b.snap = snap[p]
       /\ b.interest = t.writes \cup t.reads
       /\ \A g \in DOMAIN b.img : b.img[g].lsn = Len(log) + 1
  BY Zenon DEF NewBatch
<1> HIDE DEF b
<1> QED  BY <1>8, <1>9, <1>10, <1>11, <1>12, Zenon DEF b

\* Log entries keep their shape.
LEMMA LogKept ==
    ASSUME CommitInvariant, Next
    PROVE  LogWellFormed'
<1> USE BoundIsNatural
<1>1. /\ log \in Seq(Batch) /\ Len(log) \in Nat /\ pub.last \in 0 .. MaxLsn
      /\ pub.last <= Len(log)
      /\ \A n \in 1 .. Len(log) : log[n].snap \in 0 .. MaxLsn
  <2>1. \A n \in 1 .. Len(log) : log[n] \in Batch
    BY SeqElement, Zenon DEF CommitInvariant, LogWellFormed
  <2> QED  BY <2>1 DEF CommitInvariant, Watermarks, LogWellFormed, State, Batch
<1>2. ASSUME log' = log, pub'.last >= pub.last, pub'.last \in Nat  PROVE LogWellFormed'
  BY <1>1, <1>2 DEF CommitInvariant, LogWellFormed
<1>3. CASE Still \/ \E p \in Participants : Forces(p) \/ Publishes(p) \/ Recycles(p)
  <2>1. log' = log /\ pub'.last >= pub.last /\ pub'.last \in Nat
    <3>1. CASE Still
      BY <1>1, <3>1 DEF Still
    <3>2. ASSUME NEW p \in Participants, Forces(p) \/ Publishes(p)
          PROVE  log' = log /\ pub'.last >= pub.last /\ pub'.last \in Nat
      BY <1>1, <3>2 DEF Forces, Publishes
    <3>3. ASSUME NEW p \in Participants, Recycles(p)
          PROVE  log' = log /\ pub'.last >= pub.last /\ pub'.last \in Nat
      <4>1. log' = log /\ pub'.last = pub.last
        BY <3>3 DEF Recycles, PublishCheckpoint
      <4> QED  BY <4>1, <1>1
    <3> QED  BY <1>3, <3>1, <3>2, <3>3, Zenon
  <2> QED  BY <2>1, <1>2, Zenon
<1>4. ASSUME NEW p \in Participants, Appends(p)  PROVE LogWellFormed'
  <2>1. PICK t \in Workload[Len(log) + 1] : AppendBatch(p, t)
    BY <1>4, Zenon DEF Appends
  <2> DEFINE b == NewBatch(p, t)
  <2>2. /\ log' = Append(log, b) /\ b \in Batch
        /\ b.writes \subseteq b.interest /\ b.snap <= pub.last
        /\ \A g \in DOMAIN b.img : b.img[g].lsn = Len(log) + 1
    BY <1>4, <2>1, AppendedBatch, Zenon DEF Appends
  <2>3. pub' = pub
    BY <2>1, Zenon DEF AppendBatch
  <2> HIDE DEF b
  <2>4. /\ log' \in Seq(Batch) /\ Len(log') = Len(log) + 1 /\ log'[Len(log) + 1] = b
        /\ \A i \in 1 .. Len(log) : log'[i] = log[i]
    BY <1>1, <2>2, AppendFacts
  <2> QED  BY <1>1, <2>2, <2>3, <2>4 DEF CommitInvariant, LogWellFormed
<1>5. CASE PowerLoss
  <2>1. PICK n \in durable .. Len(log) : log' = SubSeq(log, 1, n)
    BY <1>5, Zenon DEF PowerLoss
  <2>2. n \in Nat /\ n <= Len(log)
    BY <1>1, <2>1 DEF CommitInvariant, Watermarks
  <2>3. /\ log' \in Seq(Batch) /\ Len(log') = n /\ \A i \in 1 .. n : log'[i] = log[i]
    BY <1>1, <2>1, <2>2, SubSeqFacts
  <2>4. pub' = pub
    BY <1>5, Zenon DEF PowerLoss
  <2>5. \A i \in 1 .. n : i \in 1 .. Len(log)
    BY <1>1, <2>2
  <2> QED  BY <2>3, <2>4, <2>5, Zenon DEF CommitInvariant, LogWellFormed
<1> QED  BY <1>3, <1>4, <1>5, StepKinds, Zenon

\* First committer wins, for the batch that is appended and for the prefix a
\* power loss leaves.
LEMMA FirstCommitterKept ==
    ASSUME CommitInvariant, Next
    PROVE  FirstCommitterWins'
<1>1. log \in Seq(Batch) /\ Len(log) \in Nat
  BY DEF CommitInvariant, LogWellFormed
<1>2. CASE Still \/ \E p \in Participants : Forces(p) \/ Publishes(p) \/ Recycles(p)
  <2>1. log' = log
    <3>1. CASE Still
      BY <3>1, Zenon DEF Still
    <3>2. ASSUME NEW p \in Participants, Forces(p) \/ Publishes(p)  PROVE log' = log
      BY <3>2, Zenon DEF Forces, Publishes
    <3>3. ASSUME NEW p \in Participants, Recycles(p)  PROVE log' = log
      BY <3>3, Zenon DEF Recycles, PublishCheckpoint
    <3> QED  BY <1>2, <3>1, <3>2, <3>3, Zenon
  <2> QED  BY <2>1, Zenon DEF CommitInvariant, FirstCommitterWins
<1>3. ASSUME NEW p \in Participants, Appends(p)  PROVE FirstCommitterWins'
  <2>1. PICK t \in Workload[Len(log) + 1] : AppendBatch(p, t)
    BY <1>3, Zenon DEF Appends
  <2> DEFINE b == NewBatch(p, t)
  <2>2. /\ log' = Append(log, b) /\ b \in Batch
        /\ \A m \in 1 .. Len(log) : m > b.snap => log[m].writes \cap b.interest = {}
    BY <1>3, <2>1, AppendedBatch, Zenon DEF Appends
  <2> HIDE DEF b
  <2>3. /\ Len(log') = Len(log) + 1 /\ log'[Len(log) + 1] = b
        /\ \A i \in 1 .. Len(log) : log'[i] = log[i]
    BY <1>1, <2>2, AppendFacts
  <2>4. ASSUME NEW n \in 1 .. Len(log'), NEW m \in 1 .. n - 1
        PROVE  m \in 1 .. Len(log) /\ (n \in 1 .. Len(log) \/ n = Len(log) + 1)
    BY <1>1, <2>3, <2>4
  <2> QED  BY <2>2, <2>3, <2>4, ZenonT(60) DEF CommitInvariant, FirstCommitterWins
<1>4. CASE PowerLoss
  <2>1. PICK n \in durable .. Len(log) : log' = SubSeq(log, 1, n)
    BY <1>4, Zenon DEF PowerLoss
  <2>2. n \in Nat /\ n <= Len(log)
    BY <1>1, <2>1 DEF CommitInvariant, Watermarks
  <2>3. Len(log') = n /\ \A i \in 1 .. n : log'[i] = log[i]
    BY <1>1, <2>1, <2>2, SubSeqFacts
  <2> QED  BY <1>1, <2>2, <2>3 DEF CommitInvariant, FirstCommitterWins
<1> QED  BY <1>2, <1>3, <1>4, StepKinds, Zenon

\* COMMIT_SECTION keeps one owner, and its phases keep what they say about the
\* watermarks.
LEMMA SectionKept ==
    ASSUME CommitInvariant, Next
    PROVE  SectionHeld'
<1> USE BoundIsNatural
<1>0. /\ section \in Participants \cup {NoOwner} /\ pc \in [Participants -> Phases]
      /\ job \in [Participants -> Jobs] /\ Len(log) \in Nat /\ durable \in Nat
      /\ pub.last \in Nat /\ pub.last <= durable /\ durable <= Len(log)
  BY DEF CommitInvariant, Watermarks, LogWellFormed, SectionHeld, State
<1>1. ASSUME NEW p \in Participants,
             \/ Rollback(p) \/ RecoverPostBarrier(p)
             \/ \E g \in Pages : LoadPage(p, g) \/ WritePage(p, g)
      PROVE  SectionHeld'
  <2>1. UNCHANGED <<section, pc, job, log, durable, pub>>
    BY <1>1, Zenon DEF device, Rollback, RecoverPostBarrier, LoadPage, WritePage
  <2> QED  BY <2>1, Zenon DEF CommitInvariant, SectionHeld
<1>2. ASSUME NEW p \in Participants, NEW x \in Phases \ Inside, NEW j \in Jobs,
             pc' = [pc EXCEPT ![p] = x], job' = [job EXCEPT ![p] = j],
             section' = section, Still
      PROVE  SectionHeld'
  BY <1>0, <1>2, Zenon DEF CommitInvariant, SectionHeld, Phases, Jobs, Inside, Still
<1>3. ASSUME NEW p \in Participants, BeginFloor(p) \/ \E due \in BOOLEAN : Begin(p, due)
      PROVE  SectionHeld'
  <2>1. \E x \in {"begin", "idle"} :
            /\ pc' = [pc EXCEPT ![p] = x] /\ UNCHANGED <<job, section>> /\ Still
    BY <1>3, Zenon DEF BeginFloor, Begin, Still, device
  <2>2. job' = [job EXCEPT ![p] = job[p]] /\ job[p] \in Jobs
    BY <1>0, <2>1, Zenon
  <2> QED  BY <1>2, <2>1, <2>2, Zenon DEF Phases, Inside
<1>4. ASSUME NEW p \in Participants, GiveUpFinish(p) \/ \E g \in Pages : SyncPage(p, g)
      PROVE  SectionHeld'
  <2>1. CASE GiveUpFinish(p)
    <3>1. /\ pc' = [pc EXCEPT ![p] = pc[p]] /\ pc[p] = "idle" /\ job' = [job EXCEPT ![p] = "none"]
          /\ section' = section /\ Still
      BY <1>0, <2>1, Zenon DEF GiveUpFinish, Still, device
    <3> QED  BY <1>2, <3>1, Zenon DEF Phases, Inside, Jobs
  <2>2. ASSUME NEW g \in Pages, SyncPage(p, g)  PROVE SectionHeld'
    <3>1. /\ \E x \in {"idle", "sync"} : pc' = [pc EXCEPT ![p] = x]
          /\ \E j \in {"finish", "checkpoint"} : job' = [job EXCEPT ![p] = j]
          /\ section' = section /\ Still
      BY <2>2, Zenon DEF SyncPage, Still
    <3> QED  BY <1>2, <3>1, Zenon DEF Phases, Inside, Jobs
  <2> QED  BY <1>4, <2>1, <2>2, Zenon
<1>5. ASSUME NEW p \in Participants, NEW j \in Jobs, section = NoOwner, section' = p,
             job' = [job EXCEPT ![p] = j], Still,
             \/ pc' = [pc EXCEPT ![p] = "gap"]
             \/ pc' = [pc EXCEPT ![p] = "ready"] /\ ~GapOpen
      PROVE  SectionHeld'
  BY <1>0, <1>5, CommitAssumption
     DEF CommitInvariant, SectionHeld, Phases, Jobs, Inside, Still, GapOpen
<1>6. ASSUME NEW p \in Participants,
             StartCommit(p) \/ StartCheckpoint(p) \/ StartFinish(p) \/ EnterRecovery(p)
      PROVE  SectionHeld'
  <2>1. /\ section = NoOwner /\ section' = p /\ Still
        /\ \E j \in Jobs : job' = [job EXCEPT ![p] = j]
        /\ \/ pc' = [pc EXCEPT ![p] = "gap"]
           \/ pc' = [pc EXCEPT ![p] = "ready"] /\ ~GapOpen
    BY <1>6, Zenon
       DEF StartCommit, StartCheckpoint, StartFinish, EnterRecovery, EnterSection, Still,
       device, Jobs
  <2> QED  BY <1>5, <2>1, Zenon
<1>7. ASSUME NEW p \in Participants, NEW x \in Inside, pc[p] \in Inside,
             pc' = [pc EXCEPT ![p] = x], UNCHANGED <<section, job>>,
             x \in {"ready", "freeze"} => Len(log') = pub'.last,
             x \in {"redo", "apply"} => durable' = Len(log'),
             x = "appended" => Len(log') = durable' + 1
      PROVE  SectionHeld'
  BY <1>0, <1>7, Zenon DEF CommitInvariant, SectionHeld, Phases, Inside
<1>8. ASSUME NEW p \in Participants, ForceTail(p) \/ Barrier(p) \/ PublishGap(p) \/ Freeze(p)
      PROVE  SectionHeld'
  <2>1. CASE ForceTail(p)
    BY <1>7, <2>1, Zenon DEF ForceTail, Inside
  <2>2. CASE Barrier(p)
    BY <1>7, <2>2, Zenon DEF Barrier, Inside
  <2>3. CASE PublishGap(p)
    BY <1>7, <2>3, Zenon DEF PublishGap, Inside
  <2>4. CASE Freeze(p)
    <3>1. Len(log) = pub.last /\ UNCHANGED <<log, pub>>
      BY <2>4, Zenon DEF Freeze, CommitInvariant, SectionHeld, device
    <3> QED  BY <1>7, <2>4, <3>1, Zenon DEF Freeze, Inside
  <2> QED  BY <1>8, <2>1, <2>2, <2>3, <2>4, Zenon
<1>9. ASSUME NEW p \in Participants, Appends(p)  PROVE SectionHeld'
  <2>1. /\ pc[p] = "ready" /\ pc' = [pc EXCEPT ![p] = "appended"]
        /\ UNCHANGED <<section, job, durable>> /\ Len(log') = Len(log) + 1
    BY <1>9 DEF Appends, AppendBatch, CommitInvariant, LogWellFormed
  <2>2. Len(log) = durable
    BY <1>0, <2>1 DEF CommitInvariant, SectionHeld
  <2> QED  BY <1>7, <2>1, <2>2, Zenon DEF Inside
<1>10. ASSUME NEW p \in Participants, NEW x \in {"idle", "sync"}, NEW j \in Jobs,
              pc[p] \in Inside, section' = NoOwner,
              pc' = [pc EXCEPT ![p] = x], job' = [job EXCEPT ![p] = j]
       PROVE  SectionHeld'
  <2>1. \A q \in Participants : q # p => pc[q] \notin Inside
    BY <1>10, Zenon DEF CommitInvariant, SectionHeld
  <2> QED  BY <1>0, <1>10, <2>1, Zenon DEF SectionHeld, Phases, Inside
<1>11. ASSUME NEW p \in Participants,
              RefuseCommit(p) \/ PublishCommit(p) \/ FinishRecovery(p)
       PROVE  SectionHeld'
  <2>1. pc[p] \in Inside /\ LeaveSection(p)
    BY <1>11, Zenon DEF RefuseCommit, PublishCommit, FinishRecovery, Inside
  <2> QED  BY <1>10, <2>1, Zenon DEF LeaveSection, Jobs
<1>12. ASSUME NEW p \in Participants, EndFreeze(p)  PROVE SectionHeld'
  <2>1. /\ pc[p] \in Inside /\ section' = NoOwner /\ pc' = [pc EXCEPT ![p] = "sync"]
        /\ job' = [job EXCEPT ![p] = job[p]] /\ job[p] \in Jobs
    BY <1>0, <1>12, Zenon DEF EndFreeze, Inside
  <2> QED  BY <1>10, <2>1, Zenon
<1>13. ASSUME NEW p \in Participants, Fail(p)  PROVE SectionHeld'
  <2>1. /\ pc' = [q \in Participants |-> IF q \in {p} THEN "closed" ELSE pc[q]]
        /\ job' = [q \in Participants |-> IF q \in {p} THEN "none" ELSE job[q]]
        /\ section' = IF section \in {p} THEN NoOwner ELSE section
        /\ Still
    BY <1>13, Zenon DEF Fail, Forget, Still, device
  <2> QED  BY <1>0, <2>1, Zenon DEF CommitInvariant, SectionHeld, Phases, Jobs, Inside, Still
<1>14. CASE PowerLoss
  <2>1. /\ pc' = [q \in Participants |-> "closed"]
        /\ job' = [q \in Participants |-> "none"]
        /\ section' = NoOwner
    BY <1>0, <1>14, Zenon DEF PowerLoss, Forget
  <2> QED  BY <2>1, Zenon DEF SectionHeld, Phases, Jobs, Inside
<1>15. ASSUME NEW p \in Participants, NEW pruned \in SUBSET (Participants \ {p}),
              NEW cut \in first .. MaxLsn,
              FinishCheckpoint(p, pruned, cut) \/ CheckpointInSection(p, pruned, cut)
       PROVE  SectionHeld'
  <2>1. pc[p] \in Inside /\ LeaveSection(p)
    BY <1>15, ZenonT(60) DEF FinishCheckpoint, CheckpointInSection, PublishCheckpoint, Inside
  <2> QED  BY <1>10, <2>1, Zenon DEF LeaveSection, Jobs
<1> QED  BY <1>1, <1>3, <1>4, <1>6, <1>8, <1>9, <1>11, <1>12, <1>13, <1>14, <1>15, Zenon
         DEF Next, Appends

\* What PinsProtect types.
PinTypes ==
    /\ pin \in [Participants -> 0 .. NoPin]
    /\ regPin \in [Participants -> 0 .. NoPin]
    /\ snap \in [Participants -> 0 .. NoSnap]
    /\ floor \in [Participants -> State]

\* Nothing that protects q is weakened by a step that leaves it alone.
LEMMA PinUntouched ==
    ASSUME CommitInvariant, pub'.last >= pub.last, pub'.last \in Nat, first' = first,
           NEW q \in Participants,
           regPin'[q] = regPin[q], pin'[q] = pin[q], snap'[q] = snap[q], floor'[q] = floor[q],
           q \in lapsed' <=> q \in lapsed,
           job'[q] = "commit" => snap[q] # NoSnap,
           pc'[q] = "begin" => pc[q] = "begin"
    PROVE  PinOK(q)'
<1>1. PinOK(q) /\ floor[q].last \in Nat /\ pub.last \in Nat /\ regPin[q] \in Nat /\ snap[q] \in Nat
  BY BoundIsNatural DEF CommitInvariant, PinsProtect, Watermarks, State, NoPin, NoSnap
<1> QED  BY <1>1, SMTT(30) DEF PinOK, NoPin, NoSnap

\* Checkpoints: the own pin moves to the open snapshot or the checkpoint, others
\* stay or are pruned, and the log is cut below all that stand.
LEMMA PinsRecycled ==
    ASSUME CommitInvariant, NEW p \in Participants, NEW ckpt \in 0 .. MaxLsn,
           NEW pruned \in SUBSET (Participants \ {p}), NEW cut \in first .. MaxLsn,
           ckpt <= pub.last, PublishCheckpoint(p, ckpt, pruned, cut), pc[p] # "begin",
           floor' \in [Participants -> State],
           \A q \in Participants : q # p => floor'[q] = floor[q]
    PROVE  PinsProtect'
<1> USE BoundIsNatural
<1> DEFINE own == IF regPin[p] = NoPin THEN NoPin
                  ELSE Larger(regPin[p], IF snap[p] # NoSnap THEN snap[p] ELSE ckpt)
           pins == [q \in Participants |-> IF q = p THEN IF own = NoPin THEN pin[p] ELSE own
                                           ELSE IF q \in pruned THEN NoPin ELSE pin[q]]
<1>1. /\ pub' = [last |-> pub.last, ckpt |-> ckpt] /\ pin' = pins /\ snap' = snap
      /\ lapsed' = lapsed \cup {q \in pruned : pin[q] # NoPin}
      /\ regPin' = [regPin EXCEPT ![p] = own] /\ first' = cut
      /\ pc' = [pc EXCEPT ![p] = "idle"] /\ job' = [job EXCEPT ![p] = "none"]
  BY Zenon DEF PublishCheckpoint, LeaveSection
<1>0. first \in Nat /\ cut \in Nat
  BY DEF CommitInvariant, Watermarks
<1>2. /\ \A q \in Participants : first' <= first \/ first' <= pin'[q]
      /\ pin' \in [Participants -> 0 .. NoPin]
  BY <1>0, RecycleKeeps, Zenon
<1>3. /\ PinTypes /\ \A q \in Participants : PinOK(q)
      /\ pub.last \in 0 .. MaxLsn
      /\ pc \in [Participants -> Phases] /\ job \in [Participants -> Jobs]
  BY ZenonT(60) DEF CommitInvariant, PinsProtect, PinTypes, SectionHeld, Watermarks, State
<1>4. /\ regPin[p] = NoPin => own = NoPin
      /\ regPin[p] # NoPin => own \in 0 .. MaxLsn /\ own <= pub.last
      /\ snap[p] # NoSnap => own = snap[p]
  <2>1. PinOK(p) /\ regPin[p] \in 0 .. NoPin /\ snap[p] \in 0 .. NoSnap
    BY <1>3, Zenon DEF PinTypes
  <2> QED  BY <1>3, <2>1 DEF PinOK, Larger, NoPin, NoSnap
<1> HIDE DEF own
<1>5. PinTypes'
  BY <1>1, <1>2, <1>3, <1>4 DEF PinTypes, NoPin
<1>6. PinOK(p)'
  <2>1. regPin'[p] = own /\ pin'[p] = IF own = NoPin THEN pin[p] ELSE own
    BY <1>1, <1>3, Zenon DEF PinTypes
  <2>2. pc'[p] = "idle" /\ job'[p] = "none" /\ snap'[p] = snap[p] /\ pub'.last = pub.last
    BY <1>1, <1>3, Zenon
  <2>3. own # NoPin => own <= pub'.last
    BY <1>4, <2>2, ZenonT(60)
  <2>4. snap[p] # NoSnap => /\ own # NoPin /\ own <= snap[p] /\ snap[p] <= pub.last
                            /\ p \notin lapsed' => first' <= snap[p] + 1
    <3> SUFFICES ASSUME snap[p] # NoSnap
                 PROVE  /\ own # NoPin /\ own <= snap[p] /\ snap[p] <= pub.last
                        /\ p \notin lapsed' => first' <= snap[p] + 1
      BY Zenon
    <3>1. regPin[p] # NoPin /\ snap[p] <= pub.last /\ snap[p] \in Nat
      BY <1>3 DEF PinOK, PinTypes, NoSnap
    <3>2. own = snap[p] /\ own \in 0 .. MaxLsn /\ own # NoPin
      BY <1>4, <3>1 DEF NoPin
    <3>3. p \notin lapsed' => first <= snap[p] + 1
      BY <1>1, <1>3, Zenon DEF PinOK
    <3>4. first' <= first \/ first' <= snap[p]
      BY <1>2, <2>1, <3>2, Zenon
    <3> QED  BY <1>0, <1>1, <3>1, <3>2, <3>3, <3>4
  <2> QED  BY <2>1, <2>2, <2>3, <2>4, Zenon DEF PinOK, NoPin, NoSnap
<1>7. ASSUME NEW q \in Participants, q # p  PROVE PinOK(q)'
  <2>1. /\ PinOK(q) /\ regPin'[q] = regPin[q] /\ snap'[q] = snap[q] /\ floor'[q] = floor[q]
        /\ pc'[q] = pc[q] /\ job'[q] = job[q] /\ pub'.last = pub.last
    BY <1>1, <1>3, <1>7, Zenon DEF PinTypes
  <2>2. q \notin lapsed' => q \notin lapsed
    BY <1>1, Zenon
  <2>3. regPin[q] # NoPin /\ q \notin lapsed' => pin'[q] = regPin[q]
    <3> SUFFICES ASSUME regPin[q] # NoPin, q \notin lapsed'  PROVE pin'[q] = regPin[q]
      BY Zenon
    <3>1. pin[q] = regPin[q]
      BY <2>1, <2>2, Zenon DEF PinOK
    <3>2. q \notin pruned
      BY <1>1, <3>1, Zenon
    <3> QED  BY <1>1, <1>7, <3>1, <3>2, Zenon
  <2>4. /\ regPin[q] \in Nat /\ snap[q] \in Nat /\ floor[q].last \in Nat /\ pub.last \in Nat
        /\ first' \in Nat
    BY <1>0, <1>1, <1>3 DEF PinTypes, NoPin, NoSnap, State
  <2>5. first' <= first \/ first' <= pin'[q]
    BY <1>2, Zenon
  <2>6. snap[q] # NoSnap /\ q \notin lapsed' => first' <= snap[q] + 1
    BY <1>0, <2>1, <2>2, <2>3, <2>4, <2>5 DEF PinOK
  <2>7. pc[q] = "begin" /\ regPin[q] # NoPin /\ q \notin lapsed' => first' <= floor[q].last + 1
    BY <1>0, <2>1, <2>2, <2>3, <2>4, <2>5 DEF PinOK
  <2> QED  BY <2>1, <2>3, <2>6, <2>7, Zenon DEF PinOK, NoPin, NoSnap
<1> QED  BY <1>5, <1>6, <1>7, Zenon DEF PinsProtect, PinTypes

\* begin pins before it takes a snapshot, and its snapshot is no earlier than its
\* pin: the floor under a standing pin, the watermark behind a new one.
LEMMA PinsBegun ==
    ASSUME CommitInvariant, NEW p \in Participants, NEW due \in BOOLEAN, Begin(p, due)
    PROVE  PinsProtect'
<1> USE BoundIsNatural
<1> DEFINE fresh == regPin[p] = NoPin
           moved == IF fresh THEN floor[p].last ELSE Larger(regPin[p], floor[p].last)
           s == IF fresh \/ due THEN pub ELSE floor[p]
<1>1. /\ pc[p] = "begin" /\ pc' = [pc EXCEPT ![p] = "idle"]
      /\ snap' = [snap EXCEPT ![p] = s.last]
      /\ floor' = [floor EXCEPT ![p] = [last |-> 0, ckpt |-> 0]]
      /\ UNCHANGED <<first, pub, job>>
  BY Zenon DEF Begin
<1>2. IF fresh \/ due
      THEN /\ pin' = [pin EXCEPT ![p] = moved] /\ regPin' = [regPin EXCEPT ![p] = moved]
           /\ lapsed' = lapsed \ {p}
      ELSE UNCHANGED <<pin, regPin, lapsed>>
  BY Zenon DEF Begin
<1>3. /\ PinTypes /\ PinOK(p) /\ pc \in [Participants -> Phases]
      /\ pub \in State /\ pub.last \in 0 .. MaxLsn /\ first \in Nat /\ first <= pub.last + 1
  <2>1. PinTypes /\ PinOK(p) /\ pc \in [Participants -> Phases]
    BY Zenon DEF CommitInvariant, PinsProtect, PinTypes, SectionHeld
  <2> QED  BY <2>1 DEF CommitInvariant, Watermarks, State
<1>4. regPin[p] \in 0 .. NoPin /\ floor[p].last \in 0 .. MaxLsn /\ snap[p] \in 0 .. NoSnap
  BY <1>3, ZenonT(60) DEF PinTypes, State
<1>5. moved = floor[p].last /\ floor[p].last <= pub.last
  BY <1>1, <1>3, <1>4, SMTT(30) DEF PinOK, Larger
<1>6. s.last \in 0 .. MaxLsn /\ floor[p].last <= s.last /\ s.last <= pub.last
  BY <1>3, <1>4, <1>5
<1>7. PinTypes'
  <2>1. snap' \in [Participants -> 0 .. NoSnap]
    BY <1>1, <1>3, <1>6 DEF PinTypes, NoSnap
  <2>2. floor' \in [Participants -> State]
    BY <1>1, <1>3 DEF PinTypes, State
  <2>3. moved \in 0 .. NoPin
    BY <1>4, <1>5 DEF NoPin
  <2>4. pin' \in [Participants -> 0 .. NoPin] /\ regPin' \in [Participants -> 0 .. NoPin]
    BY <1>2, <1>3, <2>3, Zenon DEF PinTypes
  <2> QED  BY <2>1, <2>2, <2>4, Zenon DEF PinTypes
<1>8. PinOK(p)'
  <2>1. snap'[p] = s.last /\ snap'[p] # NoSnap /\ pc'[p] = "idle" /\ pub' = pub /\ first' = first
    BY <1>1, <1>3, <1>6, SMTT(30) DEF PinTypes, NoSnap
  <2>2. CASE fresh \/ due
    <3>1. regPin'[p] = floor[p].last /\ pin'[p] = floor[p].last /\ s = pub
      BY <1>2, <1>3, <1>5, <2>2, Zenon DEF PinTypes
    <3> QED  BY <1>3, <1>4, <1>5, <2>1, <3>1 DEF PinOK, NoPin, NoSnap
  <2>3. CASE ~(fresh \/ due)
    <3>1. UNCHANGED <<pin, regPin, lapsed>> /\ s = floor[p]
      BY <1>2, <2>3, Zenon
    <3> QED  BY <1>1, <1>3, <1>4, <2>1, <2>3, <3>1, Zenon DEF PinOK, NoPin, NoSnap
  <2> QED  BY <2>2, <2>3, Zenon
<1>9. ASSUME NEW q \in Participants, q # p  PROVE PinOK(q)'
  <2>1. regPin'[q] = regPin[q] /\ pin'[q] = pin[q] /\ (q \in lapsed' <=> q \in lapsed)
    BY <1>2, <1>3, <1>9, Zenon DEF PinTypes
  <2>2. snap'[q] = snap[q] /\ floor'[q] = floor[q] /\ pc'[q] = pc[q]
    BY <1>1, <1>3, <1>9, Zenon DEF PinTypes
  <2>3. job[q] = "commit" => snap[q] # NoSnap
    BY ZenonT(60) DEF CommitInvariant, PinsProtect, PinOK
  <2>4. first' = first /\ job'[q] = job[q] /\ pub'.last >= pub.last /\ pub'.last \in Nat
    BY <1>1, <1>3
  <2> QED  BY <2>1, <2>2, <2>3, <2>4, PinUntouched, Zenon
<1> QED  BY <1>7, <1>8, <1>9, Zenon DEF PinsProtect, PinTypes

\* The pins keep protecting the snapshots.
LEMMA PinsKept ==
    ASSUME CommitInvariant, Next
    PROVE  PinsProtect'
<1> USE BoundIsNatural
<1>0. /\ PinTypes /\ pub \in State /\ pub.last \in 0 .. MaxLsn /\ Len(log) \in Nat
      /\ pub.last <= Len(log) /\ first <= pub.last + 1 /\ first \in Nat
      /\ pc \in [Participants -> Phases] /\ job \in [Participants -> Jobs]
  <2>1. /\ PinTypes /\ pub \in State /\ durable \in Nat /\ Len(log) <= MaxLsn /\ first \in Nat
        /\ pub.ckpt <= pub.last /\ pub.last <= durable /\ durable <= Len(log)
        /\ first <= pub.ckpt + 1 /\ log \in Seq(Batch)
        /\ pc \in [Participants -> Phases] /\ job \in [Participants -> Jobs]
    BY Zenon DEF CommitInvariant, PinsProtect, PinTypes, SectionHeld, Watermarks, LogWellFormed
  <2>2. pub.last \in Nat /\ pub.ckpt \in Nat
    BY <2>1 DEF State
  <2>3. Len(log) \in Nat
    BY <2>1
  <2> QED  BY <2>1, <2>2, <2>3
<1>b. \A q \in Participants : PinOK(q) /\ (job[q] = "commit" => snap[q] # NoSnap)
  BY Zenon DEF CommitInvariant, PinsProtect, PinOK
<1>c. pub' = pub \/ pub' = [last |-> Len(log), ckpt |-> pub.ckpt] =>
          pub'.last \in Nat /\ pub'.last >= pub.last
  BY <1>0
<1>1. ASSUME UNCHANGED <<first, pin, regPin, lapsed, snap, floor>>,
             pub'.last \in Nat, pub'.last >= pub.last,
             \A q \in Participants : pc'[q] = "begin" => pc[q] = "begin",
             \A q \in Participants : job'[q] = "commit" => job[q] = "commit" \/ snap[q] # NoSnap
      PROVE  PinsProtect'
  <2>1. ASSUME NEW q \in Participants  PROVE PinOK(q)'
    <3>1. (job'[q] = "commit" => snap[q] # NoSnap) /\ (pc'[q] = "begin" => pc[q] = "begin")
      BY <1>b, <1>1, Zenon
    <3> QED  BY <1>1, <3>1, PinUntouched, Zenon
  <2> QED  BY <1>0, <1>1, <2>1, Zenon DEF PinsProtect, PinTypes
<1>2. ASSUME NEW p \in Participants,
             \/ RecoverPostBarrier(p) \/ Freeze(p) \/ ForceTail(p) \/ Barrier(p) \/ PublishGap(p)
             \/ \E g \in Pages : LoadPage(p, g) \/ WritePage(p, g)
      PROVE  PinsProtect'
  <2>1. /\ UNCHANGED <<first, pin, regPin, lapsed, snap, floor, job>>
        /\ pub' = pub \/ pub' = [last |-> Len(log), ckpt |-> pub.ckpt]
    BY <1>2, Zenon DEF device, memory, counters, RecoverPostBarrier, Freeze, ForceTail, Barrier,
       PublishGap, LoadPage, WritePage
  <2>2. \A q \in Participants : pc'[q] = "begin" => pc[q] = "begin"
    BY <1>0, <1>2, Zenon DEF RecoverPostBarrier, Freeze, ForceTail, Barrier, PublishGap, LoadPage,
       WritePage
  <2> QED  BY <1>c, <1>1, <2>1, <2>2, Zenon
<1>3. ASSUME NEW p \in Participants, Appends(p)  PROVE PinsProtect'
  <2>1. /\ UNCHANGED <<first, pin, regPin, lapsed, snap, floor, job, pub>>
        /\ pc' = [pc EXCEPT ![p] = "appended"]
    BY <1>3, Zenon DEF Appends, AppendBatch, counters
  <2> QED  BY <1>0, <1>c, <1>1, <2>1, Zenon
<1>4. ASSUME NEW p \in Participants,
             StartCommit(p) \/ StartCheckpoint(p) \/ StartFinish(p) \/ EnterRecovery(p)
      PROVE  PinsProtect'
  <2>1. UNCHANGED <<first, pin, regPin, lapsed, snap, floor, pub>>
    BY <1>4, Zenon
       DEF StartCommit, StartCheckpoint, StartFinish, EnterRecovery, EnterSection, device,
       memory, counters
  <2>2. \A q \in Participants : pc'[q] = "begin" => pc[q] = "begin"
    BY <1>0, <1>4, Zenon DEF StartCommit, StartCheckpoint, StartFinish, EnterRecovery, EnterSection
  <2>3. \A q \in Participants : job'[q] = "commit" => job[q] = "commit" \/ snap[q] # NoSnap
    BY <1>0, <1>4, Zenon DEF StartCommit, StartCheckpoint, StartFinish, EnterRecovery, EnterSection
  <2> QED  BY <1>c, <1>1, <2>1, <2>2, <2>3, Zenon
<1>5. ASSUME NEW p \in Participants,
             \/ RefuseCommit(p) \/ FinishRecovery(p) \/ \E g \in Pages : SyncPage(p, g)
      PROVE  PinsProtect'
  <2>1. /\ UNCHANGED <<first, pin, regPin, lapsed, snap, floor>>
        /\ pub' = pub \/ pub' = [last |-> Len(log), ckpt |-> pub.ckpt]
    BY <1>5, Zenon DEF RefuseCommit, FinishRecovery, SyncPage, device, memory, counters
  <2>2. \A q \in Participants : pc'[q] = "begin" => pc[q] = "begin"
    BY <1>0, <1>5, Zenon DEF RefuseCommit, FinishRecovery, SyncPage, LeaveSection
  <2>3. \A q \in Participants : job'[q] = "commit" => job[q] = "commit" \/ snap[q] # NoSnap
    BY <1>0, <1>5, Zenon DEF RefuseCommit, FinishRecovery, SyncPage, LeaveSection
  <2> QED  BY <1>c, <1>1, <2>1, <2>2, <2>3, Zenon
<1>6. ASSUME NEW p \in Participants, NEW j \in Jobs, j # "commit",
             UNCHANGED <<first, pin, regPin, lapsed, floor>>,
             pub'.last \in Nat, pub'.last >= pub.last, snap' = [snap EXCEPT ![p] = NoSnap],
             pc' = [pc EXCEPT ![p] = "idle"], job' = [job EXCEPT ![p] = j]
      PROVE  PinsProtect'
  <2>1. PinTypes'
    BY <1>0, <1>6, SMTT(30) DEF PinTypes, NoSnap
  <2>2. PinOK(p)'
    <3>1. snap'[p] = NoSnap /\ pc'[p] = "idle" /\ job'[p] = j /\ regPin[p] \in Nat
      BY <1>0, <1>6 DEF PinTypes, NoPin
    <3> QED  BY <1>0, <1>b, <1>6, <3>1 DEF PinOK, NoPin, NoSnap
  <2>3. ASSUME NEW q \in Participants, q # p  PROVE PinOK(q)'
    <3>1. snap'[q] = snap[q] /\ pc'[q] = pc[q] /\ job'[q] = job[q]
      BY <1>0, <1>6, <2>3, Zenon DEF PinTypes
    <3> QED  BY <1>b, <1>6, <3>1, PinUntouched, Zenon
  <2> QED  BY <2>1, <2>2, <2>3, Zenon DEF PinsProtect, PinTypes
<1>7. ASSUME NEW p \in Participants, Rollback(p) \/ PublishCommit(p)  PROVE PinsProtect'
  <2>1. /\ UNCHANGED <<first, pin, regPin, lapsed, floor>>
        /\ pub' = pub \/ pub' = [last |-> Len(log), ckpt |-> pub.ckpt]
        /\ snap' = [snap EXCEPT ![p] = NoSnap] /\ pc' = [pc EXCEPT ![p] = "idle"]
        /\ job' = [job EXCEPT ![p] = "none"]
    BY <1>0, <1>7, Zenon DEF Rollback, PublishCommit, LeaveSection, device, counters
  <2> QED  BY <1>c, <1>6, <2>1, Zenon DEF Jobs
<1>8. ASSUME NEW p \in Participants, NEW f \in State, NEW x \in Phases, NEW j \in Jobs,
             UNCHANGED <<first, pub, pin, regPin, lapsed, snap>>,
             j = "commit" => job[p] = "commit", job' = [job EXCEPT ![p] = j],
             floor' = [floor EXCEPT ![p] = f], pc' = [pc EXCEPT ![p] = x],
             x = "begin" => f = pub
      PROVE  PinsProtect'
  <2>1. PinTypes'
    BY <1>0, <1>8, ZenonT(60) DEF PinTypes
  <2>2. PinOK(p)'
    <3>1. floor'[p] = f /\ pc'[p] = x /\ job'[p] = j /\ PinOK(p)
      BY <1>0, <1>b, <1>8, Zenon DEF PinTypes
    <3> QED  BY <1>0, <1>8, <3>1 DEF PinOK, NoPin, NoSnap
  <2>3. ASSUME NEW q \in Participants, q # p  PROVE PinOK(q)'
    <3>1. floor'[q] = floor[q] /\ pc'[q] = pc[q] /\ job'[q] = job[q]
      BY <1>0, <1>8, <2>3, Zenon DEF PinTypes
    <3> QED  BY <1>b, <1>c, <1>8, <3>1, PinUntouched, Zenon
  <2> QED  BY <2>1, <2>2, <2>3, Zenon DEF PinsProtect, PinTypes
<1>9. ASSUME NEW p \in Participants, BeginFloor(p) \/ GiveUpFinish(p) \/ EndFreeze(p)
      PROVE  PinsProtect'
  <2>1. /\ UNCHANGED <<first, pub, pin, regPin, lapsed, snap>>
        /\ \E f \in {pub, [last |-> 0, ckpt |-> 0]}, x \in {"begin", "idle", "sync"} :
              /\ floor' = [floor EXCEPT ![p] = f] /\ pc' = [pc EXCEPT ![p] = x]
              /\ x = "begin" => f = pub
        /\ \E j \in {job[p], "none"} : job' = [job EXCEPT ![p] = j]
    BY <1>0, <1>9, Zenon DEF BeginFloor, GiveUpFinish, EndFreeze, device, counters
  <2>2. [last |-> 0, ckpt |-> 0] \in State /\ job[p] \in Jobs
    BY <1>0 DEF State
  <2>3. PICK f \in State, x \in Phases, j \in Jobs :
            /\ floor' = [floor EXCEPT ![p] = f] /\ pc' = [pc EXCEPT ![p] = x]
            /\ job' = [job EXCEPT ![p] = j] /\ (x = "begin" => f = pub)
            /\ j = "commit" => job[p] = "commit"
    <3>1. PICK f \in {pub, [last |-> 0, ckpt |-> 0]}, x \in {"begin", "idle", "sync"} :
              /\ floor' = [floor EXCEPT ![p] = f] /\ pc' = [pc EXCEPT ![p] = x]
              /\ x = "begin" => f = pub
      BY <2>1, Zenon
    <3>2. PICK j \in {job[p], "none"} : job' = [job EXCEPT ![p] = j]
      BY <2>1, Zenon
    <3>3. f \in State /\ x \in Phases /\ j \in Jobs /\ (j = "commit" => job[p] = "commit")
      BY <1>0, <2>2, Zenon DEF Phases, Jobs
    <3> QED  BY <3>1, <3>2, <3>3, Zenon
  <2> QED  BY <1>8, <2>1, <2>3, Zenon
<1>10. ASSUME NEW ps \in SUBSET Participants, Forget(ps), UNCHANGED <<first, pub, pin, lapsed>>
       PROVE  PinsProtect'
  <2>1. [last |-> 0, ckpt |-> 0] \in State /\ NoPin \in 0 .. NoPin /\ NoSnap \in 0 .. NoSnap
    BY DEF State, NoPin, NoSnap
  <2>2. PinTypes'
    BY <1>0, <1>10, <2>1, Zenon DEF PinTypes, Forget
  <2>3. ASSUME NEW q \in ps  PROVE PinOK(q)'
    <3>1. pc'[q] = "closed" /\ job'[q] = "none" /\ snap'[q] = NoSnap /\ regPin'[q] = NoPin
      BY <1>10, Zenon DEF Forget
    <3> QED  BY <3>1, Zenon DEF PinOK, NoPin, NoSnap
  <2>4. ASSUME NEW q \in Participants \ ps  PROVE PinOK(q)'
    <3>1. /\ pc'[q] = pc[q] /\ job'[q] = job[q] /\ snap'[q] = snap[q] /\ regPin'[q] = regPin[q]
          /\ floor'[q] = floor[q]
      BY <1>10, Zenon DEF Forget
    <3> QED  BY <1>b, <1>c, <1>10, <3>1, PinUntouched, Zenon
  <2> QED  BY <2>2, <2>3, <2>4, Zenon DEF PinsProtect, PinTypes
<1>11. ASSUME NEW p \in Participants, Fail(p)  PROVE PinsProtect'
  BY <1>10, <1>11, Zenon DEF Fail, device
<1>12. CASE PowerLoss
  BY <1>10, <1>12, Zenon DEF PowerLoss
<1>13. ASSUME NEW p \in Participants, NEW pruned \in SUBSET (Participants \ {p}),
              NEW cut \in first .. MaxLsn, FinishCheckpoint(p, pruned, cut)
       PROVE  PinsProtect'
  <2>1. /\ pc[p] = "ready" /\ PublishCheckpoint(p, CheckpointTarget(p), pruned, cut)
        /\ floor' = [floor EXCEPT ![p] = [last |-> 0, ckpt |-> 0]]
        /\ pub.last >= floor[p].last
    BY <1>13, Zenon DEF FinishCheckpoint
  <2>2. CheckpointTarget(p) \in 0 .. MaxLsn /\ CheckpointTarget(p) <= pub.last
    BY <1>0, <2>1, Zenon DEF CommitInvariant, Watermarks, PinTypes, CheckpointTarget, Larger, State
  <2>3. floor' \in [Participants -> State] /\ \A q \in Participants : q # p => floor'[q] = floor[q]
    BY <1>0, <2>1 DEF PinTypes, State
  <2> QED  BY <2>1, <2>2, <2>3, PinsRecycled, Zenon
<1>14. ASSUME NEW p \in Participants, NEW pruned \in SUBSET (Participants \ {p}),
              NEW cut \in first .. MaxLsn, CheckpointInSection(p, pruned, cut)
       PROVE  PinsProtect'
  <2>1. pc[p] = "freeze" /\ PublishCheckpoint(p, pub.last, pruned, cut) /\ floor' = floor
    BY <1>14, Zenon DEF CheckpointInSection
  <2>2. floor' \in [Participants -> State] /\ \A q \in Participants : q # p => floor'[q] = floor[q]
    BY <1>0, <2>1, Zenon DEF PinTypes
  <2> QED  BY <1>0, <2>1, <2>2, PinsRecycled
<1> QED  BY <1>2, <1>3, <1>4, <1>5, <1>7, <1>9, <1>11, <1>12, <1>13, <1>14, PinsBegun, ZenonT(60)
         DEF Next, Appends

-----------------------------------------------------------------------------
(* The pages.                                                                 *)

\* A cache into which pages were read or installed is a cache.
LEMMA CacheExtended ==
    ASSUME NEW c \in Caches, NEW gs \in SUBSET Pages, NEW d,
           DOMAIN d = DOMAIN c \cup gs, d = [g \in DOMAIN d |-> d[g]],
           \A g \in DOMAIN d : d[g] \in Page
    PROVE  d \in Caches
<1>1. PICK S \in SUBSET Pages : c \in [S -> Page]
  BY Zenon DEF Caches
<1>2. d \in [S \cup gs -> Page] /\ S \cup gs \in SUBSET Pages
  BY <1>1, Zenon
<1> QED  BY <1>2, Zenon DEF Caches

\* Every page the log names was written by some commit of the log.
LEMMA TouchedHasWriters ==
    ASSUME CommitInvariant, NEW from, NEW to \in 0 .. Len(log)
    PROVE  /\ Touched(from, to) \in SUBSET Pages
           /\ \A g \in Touched(from, to) : WritersOf(g, Len(log)) # {}
<1>1. Len(log) \in Nat /\ log \in Seq(Batch)
  BY DEF CommitInvariant, LogWellFormed
<1> SUFFICES ASSUME NEW g \in Touched(from, to)
             PROVE  g \in Pages /\ WritersOf(g, Len(log)) # {}
  BY Zenon
<1>2. PICK n \in Lsns : n <= to /\ g \in DOMAIN log[n].img
  BY Zenon DEF Touched
<1>3. n \in 1 .. Len(log)
  BY <1>1, <1>2, BoundIsNatural DEF Lsns
<1>4. n \in WritersOf(g, Len(log))
  BY <1>1, <1>2, <1>3 DEF WritersOf
<1>5. log[n] \in Batch
  BY <1>1, <1>3, SeqElement, Zenon
<1>6. PICK S \in SUBSET Pages : log[n].img \in [S -> Page]
  BY <1>5, Zenon DEF Batch
<1> QED  BY <1>2, <1>4, <1>6, Zenon

\* Redo, apply and the freeze of a checkpoint write a page from the forced log.
LEMMA WrittenPage ==
    ASSUME CommitInvariant, NEW p \in Participants, NEW g \in Pages, WritePage(p, g)
    PROVE  PagesBehind'
<1> USE BoundIsNatural
<1> DEFINE img == NewestImage(g)
           base == Pinned(p, cache[p], g)
<1>1. /\ pc[p] \in {"redo", "apply", "freeze"} /\ g \in todo[p]
      /\ todo' = [todo EXCEPT ![p] = todo[p] \ {g}]
      /\ os' = IF base.lsn < img.lsn THEN [os EXCEPT ![g] = img] ELSE os
      /\ cache' = [cache EXCEPT ![p] =
                      [h \in DOMAIN cache[p] \cup {g} |->
                          IF h # g THEN cache[p][h] ELSE IF base.lsn < img.lsn THEN img ELSE base]]
      /\ UNCHANGED <<log, durable, disk, pc>>
  BY Zenon DEF WritePage
<1>2. /\ os \in [Pages -> Page] /\ disk \in [Pages -> Page] /\ cache \in [Participants -> Caches]
      /\ todo \in [Participants -> SUBSET Pages]
      /\ \A h \in Pages : os[h].lsn <= durable /\ disk[h].lsn <= durable
      /\ \A q \in Participants : pc[q] \in {"redo", "apply", "freeze"} =>
            \A h \in todo[q] : WritersOf(h, Len(log)) # {}
  BY Zenon DEF CommitInvariant, PagesBehind
<1>3. img \in Page /\ img.lsn <= Len(log)
  BY <1>1, <1>2, NewestImageInLog, Zenon DEF CommitInvariant
<1>4. Len(log) = durable
  BY <1>1 DEF CommitInvariant, SectionHeld, Watermarks, LogWellFormed, State
<1>5. base \in Page
  BY <1>2, PinnedIsPage, Zenon
<1> HIDE DEF img, base
<1>6. cache' \in [Participants -> Caches]
  <2> DEFINE d == [h \in DOMAIN cache[p] \cup {g} |->
                     IF h # g THEN cache[p][h] ELSE IF base.lsn < img.lsn THEN img ELSE base]
  <2>1. cache[p] \in Caches
    BY <1>2, Zenon
  <2>2. \A h \in DOMAIN cache[p] : cache[p][h] \in Page
    BY <2>1, Zenon DEF Caches
  <2>3. DOMAIN d = DOMAIN cache[p] \cup {g} /\ \A h \in DOMAIN d : d[h] \in Page
    BY <1>3, <1>5, <2>2, Zenon
  <2>4. d \in Caches
    BY <2>1, <2>3, CacheExtended, Zenon
  <2> QED  BY <1>1, <1>2, <2>4, Zenon
<1>7. /\ os' \in [Pages -> Page] /\ \A h \in Pages : os'[h].lsn <= durable
  BY <1>1, <1>2, <1>3, <1>4, Zenon
<1>8. todo' \in [Participants -> SUBSET Pages] /\ \A q \in Participants : todo'[q] \subseteq todo[q]
  BY <1>1, <1>2, Zenon
<1>9. \A q \in Participants : pc'[q] \in {"redo", "apply", "freeze"} =>
          \A h \in todo'[q] : WritersOf(h, Len(log))' # {}
  BY <1>1, <1>2, <1>8 DEF WritersOf
<1> QED  BY <1>1, <1>2, <1>6, <1>7, <1>8, <1>9, Zenon DEF PagesBehind

\* A power loss leaves of each page an image some barrier covered.
LEMMA SurvivingPages ==
    ASSUME CommitInvariant, PowerLoss
    PROVE  PagesBehind'
<1>1. /\ os \in [Pages -> Page] /\ disk \in [Pages -> Page]
      /\ \A h \in Pages : os[h].lsn <= durable /\ disk[h].lsn <= durable
      /\ durable \in Nat /\ Len(log) \in Nat /\ log \in Seq(Batch) /\ durable <= Len(log)
      /\ MaxLsn \in Nat
  BY BoundIsNatural DEF CommitInvariant, PagesBehind, Watermarks, LogWellFormed
<1>2. PICK after \in [Pages -> UNION {Survivors(g) : g \in Pages}] :
          (\A g \in Pages : after[g] \in Survivors(g)) /\ os' = after /\ disk' = after
  BY Zenon DEF PowerLoss
<1>3. ASSUME NEW g \in Pages, NEW s \in Survivors(g)  PROVE s \in Page /\ s.lsn <= durable
  <2>1. CASE s = disk[g]
    BY <1>1, <2>1, Zenon
  <2>2. ASSUME NEW m \in WritersOf(g, Len(log)), m <= os[g].lsn, s = log[m].img[g]
        PROVE  s \in Page /\ s.lsn <= durable
    <3>1. m \in 1 .. Len(log) /\ g \in DOMAIN log[m].img
      BY <2>2, Zenon DEF WritersOf
    <3>2. log[m] \in Batch
      BY <1>1, <3>1, SeqElement, Zenon
    <3>3. log[m].img \in Caches
      BY <3>2, Zenon DEF Batch, Caches
    <3>4. s \in Page
      BY <2>2, <3>1, <3>3 DEF Caches
    <3>5. s.lsn = m
      BY <2>2, <3>1, Zenon DEF CommitInvariant, LogWellFormed
    <3>6. os[g].lsn \in Nat /\ os[g].lsn <= durable
      BY <1>1 DEF Page
    <3> QED  BY <1>1, <2>2, <3>1, <3>4, <3>5, <3>6
  <2> QED  BY <1>3, <2>1, <2>2, Zenon DEF Survivors
<1>4. PICK n \in durable .. Len(log) : durable' = n
  BY Zenon DEF PowerLoss
<1>5. /\ os' \in [Pages -> Page] /\ disk' \in [Pages -> Page]
      /\ \A g \in Pages : os'[g].lsn <= durable /\ disk'[g].lsn <= durable
  BY <1>2, <1>3, Zenon
<1>6. \A g \in Pages : os'[g].lsn <= durable' /\ disk'[g].lsn <= durable'
  <2> TAKE g \in Pages
  <2>1. os'[g].lsn \in Nat /\ disk'[g].lsn \in Nat
    BY <1>1, <1>5 DEF Page
  <2> QED  BY <1>1, <1>4, <1>5, <2>1
<1>7. /\ todo' = [p \in Participants |-> {}] /\ cache' = [p \in Participants |-> NoCache]
      /\ pc' = [p \in Participants |-> "closed"]
  BY Zenon DEF PowerLoss, Forget
<1>8. NoCache \in Caches
  BY EmptyPool
<1> QED  BY <1>5, <1>6, <1>7, <1>8, Zenon DEF PagesBehind

Writing == {"redo", "apply", "freeze"}

\* Pages stay behind the barrier, and what is owed stays in the log.
LEMMA PagesKept ==
    ASSUME CommitInvariant, Next
    PROVE  PagesBehind'
<1> USE BoundIsNatural
<1>0. /\ os \in [Pages -> Page] /\ disk \in [Pages -> Page] /\ cache \in [Participants -> Caches]
      /\ todo \in [Participants -> SUBSET Pages] /\ pc \in [Participants -> Phases]
      /\ \A h \in Pages : os[h].lsn <= durable /\ disk[h].lsn <= durable
      /\ \A q \in Participants : pc[q] \in Writing =>
            \A h \in todo[q] : WritersOf(h, Len(log)) # {}
  BY Zenon DEF CommitInvariant, PagesBehind, SectionHeld, Writing
<1>a. /\ durable \in Nat /\ Len(log) \in Nat /\ durable <= Len(log) /\ log \in Seq(Batch)
      /\ pub.last \in Nat /\ pub.last <= Len(log)
  BY DEF CommitInvariant, Watermarks, LogWellFormed, State
<1>b. NoCache \in Caches
  BY EmptyPool
<1>1. ASSUME log' = log, durable' = durable \/ durable' = Len(log), os' = os,
             disk' \in [Pages -> Page], \A h \in Pages : disk'[h] \in {disk[h], os[h]},
             cache' \in [Participants -> Caches], todo' \in [Participants -> SUBSET Pages],
             \A q \in Participants : pc'[q] \in Writing =>
                 \A h \in todo'[q] : WritersOf(h, Len(log)) # {}
      PROVE  PagesBehind'
  <2>1. \A h \in Pages : os'[h].lsn <= durable' /\ disk'[h].lsn <= durable'
    <3> TAKE h \in Pages
    <3>1. os[h].lsn \in Nat /\ disk[h].lsn \in Nat
      BY <1>0 DEF Page
    <3> QED  BY <1>0, <1>a, <1>1, <3>1
  <2>2. \A h : WritersOf(h, Len(log))' = WritersOf(h, Len(log))
    BY <1>1, Zenon DEF WritersOf
  <2> QED  BY <1>0, <1>1, <2>1, <2>2, Zenon DEF PagesBehind, Writing
<1>2. ASSUME log' = log, durable' = durable, os' = os, disk' = disk, todo' = todo,
             cache' \in [Participants -> Caches],
             \A q \in Participants : pc'[q] \in Writing => pc[q] \in Writing
      PROVE  PagesBehind'
  BY <1>0, <1>1, <1>2, Zenon
<1>3. ASSUME NEW p \in Participants,
             \/ BeginFloor(p) \/ Rollback(p) \/ GiveUpFinish(p) \/ PublishGap(p)
             \/ PublishCommit(p) \/ EnterRecovery(p)
      PROVE  PagesBehind'
  <2>1. UNCHANGED <<log, durable, os, disk, todo, cache>>
    BY <1>3, Zenon
       DEF device, memory, BeginFloor, Rollback, GiveUpFinish, PublishGap, PublishCommit,
       EnterRecovery
  <2>2. \A q \in Participants : pc'[q] \in Writing => pc[q] \in Writing
    BY <1>0, <1>3, Zenon DEF BeginFloor, Rollback, GiveUpFinish, PublishGap, PublishCommit,
       EnterRecovery, LeaveSection, Writing
  <2> QED  BY <1>0, <1>2, <2>1, <2>2, Zenon
<1>4. ASSUME NEW p \in Participants, StartCommit(p) \/ StartCheckpoint(p) \/ StartFinish(p)
      PROVE  PagesBehind'
  <2>1. UNCHANGED <<log, durable, os, disk, todo, cache>>
    BY <1>4, Zenon DEF StartCommit, StartCheckpoint, StartFinish, EnterSection, device, memory
  <2>2. \A q \in Participants : pc'[q] \in Writing => pc[q] \in Writing
    BY <1>0, <1>4, Zenon DEF StartCommit, StartCheckpoint, StartFinish, EnterSection, Writing
  <2> QED  BY <1>0, <1>2, <2>1, <2>2, Zenon
<1>5. ASSUME NEW p \in Participants, RefuseCommit(p) \/ \E due \in BOOLEAN : Begin(p, due)
      PROVE  PagesBehind'
  <2>1. PICK s : BeginView(p, s)
    BY <1>5, Zenon DEF RefuseCommit, Begin
  <2>2. Refreshed(p, s) \in Caches
    BY RefreshedIsCache, Zenon
  <2>3. cache' \in [Participants -> Caches]
    BY <1>0, <2>1, <2>2, Zenon DEF BeginView
  <2>4. UNCHANGED <<log, durable, os, disk, todo>> /\ pc' = [pc EXCEPT ![p] = "idle"]
    BY <1>5, Zenon DEF RefuseCommit, Begin, LeaveSection, device
  <2> QED  BY <1>0, <1>2, <2>3, <2>4, Zenon DEF Writing
<1>6. ASSUME NEW p \in Participants, NEW g \in Pages, LoadPage(p, g)  PROVE PagesBehind'
  <2> DEFINE d == [h \in DOMAIN cache[p] \cup {g} |-> Pinned(p, cache[p], h)]
  <2>1. UNCHANGED <<log, durable, os, disk, todo, pc>> /\ cache' = [cache EXCEPT ![p] = d]
    BY <1>6, Zenon DEF LoadPage, device
  <2>2. PICK S \in SUBSET Pages : cache[p] \in [S -> Page]
    BY <1>0 DEF Caches
  <2>3. \A h \in DOMAIN d : d[h] \in Page
    BY <1>0, <2>2, Zenon DEF Pinned
  <2>4. d \in Caches
    BY <1>0, <2>3, CacheExtended, Zenon
  <2> QED  BY <1>0, <1>2, <2>1, <2>4, Zenon
<1>7. ASSUME NEW p \in Participants, NEW x \in Phases, NEW T \in SUBSET Pages,
             UNCHANGED <<log, os, disk>>, durable' = durable \/ durable' = Len(log),
             cache' = cache \/ cache' = [cache EXCEPT ![p] = NoCache],
             pc' = [pc EXCEPT ![p] = x], todo' = [todo EXCEPT ![p] = T],
             x \in Writing => \A h \in T : WritersOf(h, Len(log)) # {}
      PROVE  PagesBehind'
  <2>1. cache' \in [Participants -> Caches] /\ todo' \in [Participants -> SUBSET Pages]
    BY <1>0, <1>b, <1>7, Zenon
  <2>2. \A q \in Participants : pc'[q] \in Writing =>
            \A h \in todo'[q] : WritersOf(h, Len(log)) # {}
    BY <1>0, <1>7, Zenon
  <2> QED  BY <1>0, <1>1, <1>7, <2>1, <2>2, Zenon
<1>8. ASSUME NEW p \in Participants, ForceTail(p)  PROVE PagesBehind'
  <2>1. /\ UNCHANGED <<log, os, disk, cache>> /\ durable' = Len(log)
        /\ todo' = [todo EXCEPT ![p] = Touched(pub.ckpt, Len(log))]
        /\ pc' = [pc EXCEPT ![p] = "redo"]
    BY <1>8, Zenon DEF ForceTail, RedoFloor, memory
  <2>2. /\ Touched(pub.ckpt, Len(log)) \in SUBSET Pages
        /\ \A g \in Touched(pub.ckpt, Len(log)) : WritersOf(g, Len(log)) # {}
    BY <1>a, TouchedHasWriters, SMTT(30)
  <2> QED  BY <1>7, <2>1, <2>2, Zenon DEF Phases
<1>9. ASSUME NEW p \in Participants, RecoverPostBarrier(p)  PROVE PagesBehind'
  <2>1. /\ UNCHANGED <<log, os, disk, cache, durable>> /\ pc[p] = "apply"
        /\ todo' = [todo EXCEPT ![p] = Touched(pub.last, Len(log))]
        /\ pc' = [pc EXCEPT ![p] = "apply"]
    BY <1>0, <1>9, Zenon DEF RecoverPostBarrier, memory, device
  <2>2. /\ Touched(pub.last, Len(log)) \in SUBSET Pages
        /\ \A g \in Touched(pub.last, Len(log)) : WritersOf(g, Len(log)) # {}
    BY <1>a, TouchedHasWriters, SMTT(30)
  <2> QED  BY <1>7, <2>1, <2>2, Zenon DEF Phases
<1>10. ASSUME NEW p \in Participants, Freeze(p)  PROVE PagesBehind'
  <2>1. /\ UNCHANGED <<log, os, disk, durable>> /\ cache' = [cache EXCEPT ![p] = NoCache]
        /\ todo' = [todo EXCEPT ![p] = Touched(pub.ckpt, pub.last)]
        /\ pc' = [pc EXCEPT ![p] = "freeze"]
    BY <1>10, Zenon DEF Freeze, device
  <2>2. /\ Touched(pub.ckpt, pub.last) \in SUBSET Pages
        /\ \A g \in Touched(pub.ckpt, pub.last) : WritersOf(g, Len(log)) # {}
    BY <1>a, TouchedHasWriters
  <2> QED  BY <1>7, <2>1, <2>2, Zenon DEF Phases
<1>11. ASSUME NEW p \in Participants, Barrier(p)  PROVE PagesBehind'
  <2>1. /\ pc[p] = "appended" /\ UNCHANGED <<log, os, disk, cache>> /\ durable' = Len(log)
        /\ todo' = [todo EXCEPT ![p] = DOMAIN log[Len(log)].img]
        /\ pc' = [pc EXCEPT ![p] = "apply"]
    BY <1>11, Zenon DEF Barrier, memory
  <2>2. Len(log) \in 1 .. Len(log)
    BY <1>a, <2>1 DEF CommitInvariant, SectionHeld
  <2>3. log[Len(log)] \in Batch
    BY <1>a, <2>2, SeqElement, Zenon
  <2>4. PICK S \in SUBSET Pages : log[Len(log)].img \in [S -> Page]
    BY <2>3, Zenon DEF Batch
  <2>5. \A g \in DOMAIN log[Len(log)].img : Len(log) \in WritersOf(g, Len(log))
    BY <1>a, <2>2 DEF WritersOf
  <2>6. \A g \in DOMAIN log[Len(log)].img : WritersOf(g, Len(log)) # {}
    BY <2>5, SMTT(30)
  <2> QED  BY <1>7, <2>1, <2>4, <2>6, Zenon DEF Phases
<1>12. ASSUME NEW p \in Participants, EndFreeze(p)  PROVE PagesBehind'
  <2>1. /\ UNCHANGED <<log, os, disk, cache, durable>>
        /\ todo' = [todo EXCEPT ![p] = Pages] /\ pc' = [pc EXCEPT ![p] = "sync"]
    BY <1>12, Zenon DEF EndFreeze, device
  <2> QED  BY <1>7, <2>1, Zenon DEF Phases, Writing
<1>13. ASSUME NEW p \in Participants, NEW g \in Pages, SyncPage(p, g)  PROVE PagesBehind'
  <2>1. /\ UNCHANGED <<log, os, cache, durable>> /\ disk' = [disk EXCEPT ![g] = os[g]]
        /\ todo' = [todo EXCEPT ![p] = todo[p] \ {g}]
        /\ pc' = [pc EXCEPT ![p] = IF todo[p] = {g} THEN "idle" ELSE "sync"]
    BY <1>13, Zenon DEF SyncPage, memory
  <2>2. disk' \in [Pages -> Page] /\ \A h \in Pages : disk'[h] \in {disk[h], os[h]}
    BY <1>0, <2>1, Zenon
  <2>3. todo' \in [Participants -> SUBSET Pages]
    BY <1>0, <2>1, Zenon
  <2>4. \A q \in Participants : pc'[q] \in Writing =>
            \A h \in todo'[q] : WritersOf(h, Len(log)) # {}
    BY <1>0, <2>1, Zenon DEF Writing
  <2> QED  BY <1>0, <1>1, <2>1, <2>2, <2>3, <2>4, Zenon
<1>14. ASSUME NEW p \in Participants, FinishRecovery(p)  PROVE PagesBehind'
  <2>1. /\ UNCHANGED <<log, os, cache, durable, todo>> /\ pc' = [pc EXCEPT ![p] = "idle"]
        /\ \/ disk' = disk
           \/ disk' = [g \in Pages |-> IF g \in Touched(pub.ckpt, Len(log)) THEN os[g] ELSE disk[g]]
    BY <1>14, Zenon DEF FinishRecovery, LeaveSection, memory
  <2>2. disk' \in [Pages -> Page] /\ \A h \in Pages : disk'[h] \in {disk[h], os[h]}
    BY <1>0, <2>1, Zenon
  <2> QED  BY <1>0, <1>1, <2>1, <2>2, Zenon DEF Writing
<1>15. ASSUME NEW p \in Participants, NEW pruned \in SUBSET (Participants \ {p}),
              NEW cut \in first .. MaxLsn,
              FinishCheckpoint(p, pruned, cut) \/ CheckpointInSection(p, pruned, cut)
       PROVE  PagesBehind'
  <2>1. UNCHANGED <<log, os, durable, todo>> /\ pc' = [pc EXCEPT ![p] = "idle"]
    BY <1>15, Zenon DEF FinishCheckpoint, CheckpointInSection, PublishCheckpoint, LeaveSection
  <2>2. disk' \in {disk, os} /\ cache' \in {cache, [cache EXCEPT ![p] = NoCache]}
    BY <1>15, Zenon DEF FinishCheckpoint, CheckpointInSection
  <2>3. /\ disk' \in [Pages -> Page] /\ \A h \in Pages : disk'[h] \in {disk[h], os[h]}
        /\ cache' \in [Participants -> Caches]
    BY <1>0, <1>b, <2>2, Zenon
  <2> QED  BY <1>0, <1>1, <2>1, <2>3, Zenon DEF Writing
<1>16. ASSUME NEW p \in Participants, Fail(p)  PROVE PagesBehind'
  <2>1. /\ UNCHANGED <<log, os, disk, durable>>
        /\ pc' = [q \in Participants |-> IF q \in {p} THEN "closed" ELSE pc[q]]
        /\ todo' = [q \in Participants |-> IF q \in {p} THEN {} ELSE todo[q]]
        /\ cache' = [q \in Participants |-> IF q \in {p} THEN NoCache ELSE cache[q]]
    BY <1>16, Zenon DEF Fail, Forget, device
  <2>2. cache' \in [Participants -> Caches] /\ todo' \in [Participants -> SUBSET Pages]
    BY <1>0, <1>b, <2>1, Zenon
  <2> QED  BY <1>0, <1>1, <2>1, <2>2, Zenon DEF Writing
<1>17. ASSUME NEW p \in Participants, Appends(p)  PROVE PagesBehind'
  <2>1. PICK t \in Workload[Len(log) + 1] : AppendBatch(p, t)
    BY <1>17, Zenon DEF Appends
  <2> DEFINE c == Refreshed(p, pub)
             gs == PagesOf(t.writes)
             d == [g \in DOMAIN c \cup gs |-> Pinned(p, c, g)]
  <2>2. /\ UNCHANGED <<durable, os, disk, todo>> /\ pc' = [pc EXCEPT ![p] = "appended"]
        /\ cache' = [cache EXCEPT ![p] = d]
    BY <2>1, Zenon DEF AppendBatch
  <2>3. c \in Caches /\ gs \in SUBSET Pages
    <3>1. Len(log) + 1 \in 1 .. MaxLsn
      BY <1>17, <1>a DEF Appends
    <3>2. t.writes \in SUBSET Keys
      BY <3>1, CommitAssumption
    <3> QED  BY <3>2, CommitAssumption, RefreshedIsCache, Zenon DEF PagesOf
  <2> HIDE DEF c, gs
  <2>4. PICK S \in SUBSET Pages : c \in [S -> Page]
    BY <2>3, Zenon DEF Caches
  <2>5. \A g \in DOMAIN d : d[g] \in Page
    BY <1>0, <2>3, <2>4, Zenon DEF Pinned
  <2>6. d \in Caches
    BY <2>3, <2>5, CacheExtended, Zenon
  <2>7. cache' \in [Participants -> Caches]
    BY <1>0, <2>2, <2>6, Zenon
  <2>8. Len(log') = Len(log) + 1 /\ \A m \in 1 .. Len(log) : log'[m] = log[m]
    <3>1. \E b \in Batch : log' = Append(log, b)
      BY <1>17, <2>1, AppendedBatch, Zenon DEF Appends
    <3> QED  BY <1>a, <3>1, AppendFacts
  <2>9. \A h : WritersOf(h, Len(log)) \subseteq WritersOf(h, Len(log))'
    BY <1>a, <2>8 DEF WritersOf
  <2>10. \A q \in Participants : pc'[q] \in Writing => pc[q] \in Writing
    BY <1>0, <2>2, Zenon DEF Writing
  <2>11. \A q \in Participants : pc'[q] \in Writing =>
             \A h \in todo'[q] : WritersOf(h, Len(log))' # {}
    BY <1>0, <2>2, <2>9, <2>10, Zenon
  <2> QED  BY <1>0, <2>2, <2>7, <2>11, Zenon DEF PagesBehind, Writing
<1> QED  BY <1>3, <1>4, <1>5, <1>6, <1>8, <1>9, <1>10, <1>11, <1>12, <1>13, <1>14, <1>15, <1>16,
            <1>17, WrittenPage, SurvivingPages, Zenon
         DEF Next, Appends

\* The invariant holds initially.
LEMMA InvariantInitially ==
    ASSUME Init
    PROVE  CommitInvariant
<1> USE BoundIsNatural
<1>1. Watermarks
  BY DEF Init, Watermarks, State
<1>2. LogWellFormed /\ FirstCommitterWins
  BY DEF Init, LogWellFormed, FirstCommitterWins
<1>3. SectionHeld
  BY ZenonT(60) DEF Init, SectionHeld, Phases, Jobs, Inside
<1>4. PinsProtect
  BY DEF Init, PinsProtect, PinOK, NoPin, NoSnap, State
<1>5. PagesBehind
  <2>1. NoCache \in Caches /\ NoPage \in Page
    <3>1. NoCache \in Caches
      BY EmptyPool
    <3>2. NoPage \in Page
      BY DEF NoPage, Page, Lsns
    <3> QED  BY <3>1, <3>2, Zenon
  <2> QED  BY <2>1 DEF Init, PagesBehind, NoPage
<1> QED  BY <1>1, <1>2, <1>3, <1>4, <1>5, Zenon DEF CommitInvariant

\* The invariant is inductive.
LEMMA InvariantKept ==
    ASSUME CommitInvariant, [Next]_vars
    PROVE  CommitInvariant'
<1>1. CASE Next
  BY <1>1, WatermarksKept, LogKept, SectionKept, PinsKept, PagesKept, FirstCommitterKept, Zenon
     DEF CommitInvariant
<1>2. CASE UNCHANGED vars
  <2>1. /\ UNCHANGED <<log, first, durable, pub, os, disk, pin, section, pc, job, todo>>
        /\ UNCHANGED <<snap, floor, regPin, cache, lapsed>>
    BY <1>2, Zenon DEF vars, device, memory, counters
  <2>2. Watermarks' /\ LogWellFormed'
    BY <2>1, Zenon DEF CommitInvariant, Watermarks, LogWellFormed
  <2>3. SectionHeld'
    BY <2>1, Zenon DEF CommitInvariant, SectionHeld
  <2>4. PinsProtect'
    BY <2>1, SMT DEF CommitInvariant, PinsProtect, PinOK
  <2>5. PagesBehind'
    BY <2>1, ZenonT(60) DEF CommitInvariant, PagesBehind, WritersOf
  <2>6. FirstCommitterWins'
    BY <2>1, Zenon DEF CommitInvariant, FirstCommitterWins
  <2> QED  BY <2>2, <2>3, <2>4, <2>5, <2>6, Zenon DEF CommitInvariant
<1> QED  BY <1>1, <1>2, Zenon

-----------------------------------------------------------------------------
(* Theorems. *)

\* The watermarks, the owner of COMMIT_SECTION, the pins and the pages stay in the
\* relations every operation of TransactionManager relies on.
THEOREM CommitInvariantHolds == Spec => []CommitInvariant
<1>1. Init => CommitInvariant
  BY InvariantInitially, Zenon
<1>2. CommitInvariant /\ [Next]_vars => CommitInvariant'
  BY InvariantKept, Zenon
<1> QED  BY <1>1, <1>2, PTL DEF Spec

\* First committer wins for any participants, partitions and workload, also for a
\* transaction whose registration was pruned and whose log was recycled
\* (_find_conflict, _require_log_retains_from).
THEOREM SerialisedCommits == Spec => []FirstCommitterWins
<1>1. CommitInvariant => FirstCommitterWins
  BY Zenon DEF CommitInvariant
<1> QED  BY <1>1, CommitInvariantHolds, PTL

\* No page that any process reads is ahead of the WAL barrier, whoever wrote it
\* (commit, gap completion, post-barrier redo, checkpoint, recovery).
THEOREM PagesFollowLog == Spec => []WriteAhead
<1>1. CommitInvariant => WriteAhead
  BY Zenon DEF CommitInvariant, PagesBehind, WriteAhead
<1> QED  BY <1>1, CommitInvariantHolds, PTL

\* A participant whose registration stands is never refused for a hole in the log.
THEOREM PinsRetainLog == Spec => []PinKeepsLog
<1>1. CommitInvariant => PinKeepsLog
  <2> SUFFICES ASSUME CommitInvariant, NEW p \in Participants, snap[p] # NoSnap, p \notin lapsed
               PROVE  ~RetentionLost(snap[p])
    BY Zenon DEF PinKeepsLog
  <2>1. first <= snap[p] + 1 /\ snap[p] \in Nat /\ first \in Nat
    BY BoundIsNatural DEF CommitInvariant, PinsProtect, PinOK, Watermarks, NoSnap
  <2> QED  BY <2>1 DEF RetentionLost
<1> QED  BY <1>1, CommitInvariantHolds, PTL

\* commit.state never moves back, whichever checkpoints overlap and whoever dies.
THEOREM StateNeverRetreats == Spec => NeverRetreats
<1>1. ASSUME CommitInvariant, Next  PROVE pub'.last >= pub.last /\ pub'.ckpt >= pub.ckpt
  <2>1. /\ pub.last \in Nat /\ pub.ckpt \in Nat /\ Len(log) \in Nat /\ pub.last <= Len(log)
    BY <1>1, BoundIsNatural DEF CommitInvariant, Watermarks, LogWellFormed, State
  <2>2. CASE Still \/ PowerLoss
    BY <2>1, <2>2 DEF Still, PowerLoss
  <2>3. ASSUME NEW p \in Participants, Forces(p) \/ Publishes(p)
        PROVE  pub'.last >= pub.last /\ pub'.ckpt >= pub.ckpt
    BY <2>1, <2>3 DEF Forces, Publishes
  <2>4. ASSUME NEW p \in Participants, Recycles(p)
        PROVE  pub'.last >= pub.last /\ pub'.ckpt >= pub.ckpt
    <3>1. PICK ckpt \in 0 .. MaxLsn, pruned \in SUBSET (Participants \ {p}), cut \in Nat :
              pub.ckpt <= ckpt /\ PublishCheckpoint(p, ckpt, pruned, cut)
      BY <2>4, Zenon DEF Recycles
    <3>2. pub' = [last |-> pub.last, ckpt |-> ckpt]
      BY <3>1, Zenon DEF PublishCheckpoint
    <3> QED  BY <2>1, <3>1, <3>2
  <2>5. ASSUME NEW p \in Participants, Appends(p)
        PROVE  pub'.last >= pub.last /\ pub'.ckpt >= pub.ckpt
    <3>1. pub' = pub
      BY <2>5, Zenon DEF Appends, AppendBatch
    <3> QED  BY <2>1, <3>1
  <2> QED  BY <1>1, <2>2, <2>3, <2>4, <2>5, StepKinds, ZenonT(60)
<1>2. CommitInvariant /\ [Next]_vars => [pub'.last >= pub.last /\ pub'.ckpt >= pub.ckpt]_pub
  BY <1>1, Zenon DEF vars, device
<1> QED  BY <1>2, CommitInvariantHolds, PTL DEF Spec, NeverRetreats

\* The history an observer may rely on: the forced prefix of the log.
Entry(n) == [snap |-> log[n].snap, writes |-> log[n].writes, interest |-> log[n].interest]
History == [n \in 1 .. durable |-> Entry(n)]

\* A step that forces one more batch, and changes no earlier one, is a commit of the
\* store.
LEMMA ForcedIsCommit ==
    ASSUME CommitInvariant, Len(log) = durable + 1, durable' = durable + 1,
           \A n \in 1 .. durable + 1 : log'[n] = log[n], pub' = pub,
           acked' \in {acked, acked \cup {durable + 1}}
    PROVE  Store!Commit
<1> DEFINE n == durable + 1
           e == Entry(n)
<1>1. durable \in Nat /\ log \in Seq(Batch) /\ n \in 1 .. Len(log)
  BY DEF CommitInvariant, Watermarks, LogWellFormed
<1>2. log[n] \in Batch
  BY <1>1, SeqElement, Zenon
<1>3. History' = [m \in 1 .. n |-> Entry(m)]
  BY <1>1, Zenon DEF History, Entry
<1>4. Len(History) = durable /\ Len(History') = n
  BY <1>1, <1>3 DEF History
<1>5. History' = Append(History, e) /\ History'[Len(History')] = e /\ History' # << >>
  <2>1. History' = Append(History, e)
    BY <1>1, <1>3, <1>4 DEF History
  <2> QED  BY <1>1, <1>3, <1>4, <2>1
<1>6. /\ e.snap <= pub.last /\ e.writes \subseteq e.interest /\ e.interest \subseteq Keys
      /\ \A m \in 1 .. durable : m > e.snap => Entry(m).writes \cap e.interest = {}
  <2>1. e.snap = log[n].snap /\ e.writes = log[n].writes /\ e.interest = log[n].interest
    BY Zenon DEF Entry
  <2>2. e.snap <= pub.last /\ e.writes \subseteq e.interest
    BY <1>1, <2>1, Zenon DEF CommitInvariant, LogWellFormed
  <2>3. e.interest \subseteq Keys
    BY <1>2, <2>1, Zenon DEF Batch
  <2>4. \A m \in 1 .. durable : m > e.snap => log[m].writes \cap e.interest = {}
    BY <1>1, <2>1 DEF CommitInvariant, FirstCommitterWins
  <2> QED  BY <2>2, <2>3, <2>4, Zenon DEF Entry
<1>7. \A m \in 1 .. Len(History) : m > e.snap => History[m].writes \cap e.interest = {}
  BY <1>1, <1>4, <1>6, Zenon DEF History
<1> HIDE DEF e, n
<1>8. Store!Admissible(e)
  BY <1>6, <1>7, Zenon DEF Store!Admissible, History, Entry
<1> QED  BY <1>4, <1>5, <1>8, Zenon DEF Store!Commit, History, Entry, n

\* Only the barrier of a commit reports an outcome.
LEMMA ReportedAtBarrier ==
    ASSUME Next
    PROVE  acked' = acked \/ \E p \in Participants : Barrier(p)
<1>1. ASSUME NEW p \in Participants,
             \/ BeginFloor(p) \/ Rollback(p) \/ GiveUpFinish(p) \/ PublishGap(p)
             \/ RecoverPostBarrier(p) \/ Freeze(p) \/ EndFreeze(p) \/ EnterRecovery(p) \/ Fail(p)
             \/ RefuseCommit(p) \/ ForceTail(p) \/ PublishCommit(p) \/ FinishRecovery(p)
             \/ \E due \in BOOLEAN : Begin(p, due)
      PROVE  acked' = acked
  BY <1>1, Zenon DEF BeginFloor, Rollback, GiveUpFinish, PublishGap, RecoverPostBarrier, Freeze,
     EndFreeze, EnterRecovery, Fail, RefuseCommit, ForceTail, PublishCommit, FinishRecovery, Begin
<1>2. ASSUME NEW p \in Participants,
             \/ StartCommit(p) \/ StartCheckpoint(p) \/ StartFinish(p)
             \/ \E g \in Pages : LoadPage(p, g) \/ WritePage(p, g) \/ SyncPage(p, g)
             \/ \E t \in Workload[Len(log) + 1] : AppendBatch(p, t)
      PROVE  acked' = acked
  BY <1>2, Zenon DEF StartCommit, StartCheckpoint, StartFinish, EnterSection, LoadPage, WritePage,
     SyncPage, AppendBatch
<1>3. ASSUME NEW p \in Participants, NEW pruned, NEW cut,
             FinishCheckpoint(p, pruned, cut) \/ CheckpointInSection(p, pruned, cut)
      PROVE  acked' = acked
  BY <1>3, Zenon DEF FinishCheckpoint, CheckpointInSection, PublishCheckpoint
<1>4. CASE PowerLoss
  BY <1>4, Zenon DEF PowerLoss
<1> QED  BY <1>1, <1>2, <1>3, <1>4, Zenon DEF Next

\* Every step of the protocol is a commit of the store, a publication of a longer
\* prefix, or invisible.
LEMMA StepImplements ==
    ASSUME CommitInvariant, Next
    PROVE  Store!StoreNext \/ UNCHANGED Store!storeVars
<1> USE BoundIsNatural
<1>1. /\ durable \in Nat /\ log \in Seq(Batch) /\ Len(log) \in Nat /\ pub.last \in Nat
      /\ pub.last <= durable /\ durable <= Len(log) /\ Len(log) <= durable + 1
  BY DEF CommitInvariant, Watermarks, LogWellFormed, State
<1>2. ASSUME durable' = durable, \A n \in 1 .. durable : log'[n] = log[n],
             pub'.last = pub.last, acked' = acked
      PROVE  UNCHANGED Store!storeVars
  BY <1>2, Zenon DEF Store!storeVars
<1>3. ASSUME NEW p \in Participants, Barrier(p)  PROVE Store!StoreNext
  <2>1. Len(log) = durable + 1
    BY <1>3, Zenon DEF Barrier, CommitInvariant, SectionHeld
  <2>2. /\ durable' = durable + 1 /\ log' = log /\ pub' = pub
        /\ acked' = acked \cup {durable + 1}
    BY <1>3, <2>1, Zenon DEF Barrier
  <2> QED  BY <2>1, <2>2, ForcedIsCommit, Zenon DEF Store!StoreNext
<1>4. ASSUME acked' = acked, pub' = pub, durable' = durable \/ durable' = durable + 1,
             durable' <= Len(log), \A n \in 1 .. durable' : log'[n] = log[n]
      PROVE  Store!StoreNext \/ UNCHANGED Store!storeVars
  <2>1. CASE durable' = durable
    BY <1>2, <1>4, <2>1, Zenon
  <2>2. CASE durable' = durable + 1
    <3>1. Len(log) = durable + 1
      BY <1>1, <1>4, <2>2
    <3>2. Store!Commit
      BY <1>4, <2>2, <3>1, ForcedIsCommit, Zenon
    <3> QED  BY <3>2, Zenon DEF Store!StoreNext
  <2> QED  BY <1>4, <2>1, <2>2, Zenon
<1>5. ASSUME NEW p \in Participants, Forces(p), acked' = acked
      PROVE  Store!StoreNext \/ UNCHANGED Store!storeVars
  <2>1. durable' = Len(log) /\ log' = log /\ pub' = pub
    BY <1>5, Zenon DEF Forces
  <2>2. durable' = durable \/ durable' = durable + 1
    BY <1>1, <2>1
  <2> QED  BY <1>1, <1>4, <1>5, <2>1, <2>2, Zenon
<1>6. CASE PowerLoss
  <2>1. PICK n \in durable .. Len(log) : log' = SubSeq(log, 1, n) /\ durable' = n
    BY <1>6, Zenon DEF PowerLoss
  <2>2. acked' = acked /\ pub' = pub
    BY <1>6, Zenon DEF PowerLoss
  <2>3. \A m \in 1 .. n : log'[m] = log[m]
    BY <1>1, <2>1, SubSeqFacts
  <2>4. (durable' = durable \/ durable' = durable + 1) /\ durable' <= Len(log)
    BY <1>1, <2>1
  <2> QED  BY <1>4, <2>1, <2>2, <2>3, <2>4, Zenon
<1>7. ASSUME NEW p \in Participants, Publishes(p), acked' = acked
      PROVE  Store!StoreNext \/ UNCHANGED Store!storeVars
  <2>1. /\ durable = Len(log) /\ pub'.last = Len(log) /\ UNCHANGED <<log, durable>>
    BY <1>7, Zenon DEF Publishes, CommitInvariant, SectionHeld
  <2>2. CASE pub.last = Len(log)
    BY <1>2, <1>7, <2>1, <2>2, Zenon
  <2>3. CASE pub.last # Len(log)
    <3>1. Len(History) = durable
      BY <1>1 DEF History
    <3>2. pub'.last \in pub.last + 1 .. Len(History)
      BY <1>1, <2>1, <2>3, <3>1
    <3>3. Store!Show
      BY <1>7, <2>1, <3>2, Zenon DEF Store!Show, History, Entry
    <3> QED  BY <3>3, Zenon DEF Store!StoreNext
  <2> QED  BY <2>2, <2>3, Zenon
<1>8. ASSUME NEW p \in Participants, Recycles(p), acked' = acked
      PROVE  UNCHANGED Store!storeVars
  <2>1. UNCHANGED <<log, durable>> /\ pub'.last = pub.last
    BY <1>8 DEF Recycles, PublishCheckpoint
  <2> QED  BY <1>2, <1>8, <2>1, Zenon
<1>9. ASSUME NEW p \in Participants, Appends(p), acked' = acked
      PROVE  UNCHANGED Store!storeVars
  <2>1. PICK t \in Workload[Len(log) + 1] : AppendBatch(p, t)
    BY <1>9, Zenon DEF Appends
  <2>2. \E b \in Batch : log' = Append(log, b)
    BY <1>9, <2>1, AppendedBatch, Zenon DEF Appends
  <2>3. \A m \in 1 .. Len(log) : log'[m] = log[m]
    BY <1>1, <2>2, AppendFacts
  <2>4. durable' = durable /\ pub' = pub
    BY <2>1, Zenon DEF AppendBatch
  <2> QED  BY <1>1, <1>2, <1>9, <2>3, <2>4
<1>10. ASSUME Still, acked' = acked  PROVE UNCHANGED Store!storeVars
  BY <1>2, <1>10, Zenon DEF Still
<1> QED  BY <1>3, <1>5, <1>6, <1>7, <1>8, <1>9, <1>10, StepKinds, ReportedAtBarrier, ZenonT(60)

\* The protocol implements SnapshotStore for any participants, partitions, pages
\* and workload: one growing history under first committer wins, shown in prefixes
\* that are never retracted, and no reported outcome is taken back, by whatever
\* dies and whatever a power loss leaves.
THEOREM CommitRefinesStore == Spec => ImplementsStore
<1>1. Init => Store!StoreInit
  BY DEF Init, Store!StoreInit
<1>2. CommitInvariant /\ [Next]_vars => [Store!StoreNext]_Store!storeVars
  <2>1. CommitInvariant /\ Next => [Store!StoreNext]_Store!storeVars
    BY StepImplements, Zenon
  <2>2. UNCHANGED vars => UNCHANGED Store!storeVars
    BY Zenon DEF vars, device, Store!storeVars
  <2> QED  BY <2>1, <2>2, Zenon
<1> QED  BY <1>1, <1>2, CommitInvariantHolds, PTL DEF Spec, ImplementsStore, Store!StoreSpec

=============================================================================
