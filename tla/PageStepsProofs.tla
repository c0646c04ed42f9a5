------------------------- MODULE PageStepsProofs ---------------------------
(* The contents of a page of CommitProtocol and the steps that leave the pages *)
(* alone: the inductive invariant about what log, disk, caches and views hold,  *)
(* what a step of one participant leaves to the others, and the steps that     *)
(* only read.                                                                  *)
EXTENDS CommitProtocolProofs

-----------------------------------------------------------------------------
(* Contents of a page, over a given log l.                                    *)

\* The commits through n that wrote page g.
Writers(l, g, n) == {m \in 1 .. Len(l) : m <= n /\ g \in DOMAIN l[m].img}

\* Page g, as pg, is not older than any commit through n.
Covers(l, pg, g, n) == \A m \in Writers(l, g, n) : m <= pg.lsn

\* pg is what the commit it is stamped with made of page g: it holds that commit and
\* every earlier one.
Exact(l, pg, g) ==
    /\ pg.has = Writers(l, g, pg.lsn)
    /\ pg.lsn = 0 \/ pg.lsn \in Writers(l, g, pg.lsn)

-----------------------------------------------------------------------------
(* The inductive invariant.                                                   *)

\* Images, pages and caches are exact, nothing is forced or cached that is newer
\* than the page any process reads, and what is forced holds every commit up to the
\* checkpoint.
Contents ==
    /\ \A n \in 1 .. Len(log) : \A g \in DOMAIN log[n].img : Exact(log, log[n].img[g], g)
    /\ \A g \in Pages : /\ Exact(log, os[g], g) /\ Exact(log, disk[g], g)
                        /\ disk[g].lsn <= os[g].lsn
                        /\ Covers(log, disk[g], g, pub.ckpt)
    /\ \A p \in Participants : \A g \in DOMAIN cache[p] :
          Exact(log, cache[p][g], g) /\ cache[p][g].lsn <= os[g].lsn

\* Published commits are in the pages.
PublishedIn ==
    (\E p \in Participants : Reopened(p)) => \A g \in Pages : Covers(log, os[g], g, pub.last)

\* Which operation is where.
JobOK(p) ==
    /\ job[p] = "recover" => pc[p] \in {"gap", "redo"}
    /\ job[p] = "finish" => pc[p] \in {"idle", "gap", "redo", "ready"}
    /\ pc[p] = "begin" => job[p] = "none"
    /\ pc[p] \in {"appended", "apply"} =>
          job[p] = "commit" /\ Len(log) = pub.last + 1 /\ view[p] = pub

\* A redo or an apply has only the pages left that it still owes.
AppliedOK(p) ==
    /\ pc[p] \in Writing => \A g \in Pages \ todo[p] : Covers(log, os[g], g, Len(log))
    /\ pc[p] = "apply" =>
          \A g \in DOMAIN cache[p] \ todo[p] : Covers(log, cache[p][g], g, Len(log))

\* A checkpoint outside the section has forced what it will publish.
TargetOK(p) ==
    /\ pc[p] = "sync" \/ job[p] = "finish" => floor[p].last <= pub.last
    /\ pc[p] = "sync" =>
          \A g \in Pages \ todo[p] : Covers(log, disk[g], g, floor[p].last)
    /\ job[p] = "finish" => \A g \in Pages : Covers(log, disk[g], g, floor[p].last)

\* What a participant has cached is as new as its read view, its own publication and
\* its snapshot.
ViewOK(p) ==
    /\ floor[p].ckpt <= floor[p].last
    /\ view[p] # NoView => view[p].ckpt <= view[p].last /\ view[p].last <= pub.last
    /\ ownPub[p] <= pub.last
    /\ \A g \in DOMAIN cache[p] :
          /\ view[p] # NoView => Covers(log, cache[p][g], g, view[p].last)
          /\ Covers(log, cache[p][g], g, ownPub[p])
          /\ snap[p] # NoSnap => Covers(log, cache[p][g], g, snap[p])

LocalOK(p) == JobOK(p) /\ AppliedOK(p) /\ TargetOK(p) /\ ViewOK(p)

PageInvariant ==
    /\ Contents /\ PublishedIn
    /\ view \in [Participants -> State \cup {NoView}]
    /\ ownPub \in [Participants -> 0 .. MaxLsn]
    /\ acked \subseteq 1 .. durable
    /\ \A p \in Participants : LocalOK(p)

-----------------------------------------------------------------------------
(* Contents of a page.                                                        *)

\* A page that covers a position covers every earlier one, and so does a newer page.
LEMMA CoversLess ==
    ASSUME NEW l, NEW pg, NEW qg, NEW g, NEW n \in Nat, NEW k \in Nat, n <= k, Len(l) \in Nat,
           pg.lsn \in Nat, qg.lsn \in Nat, pg.lsn <= qg.lsn, Covers(l, pg, g, k)
    PROVE  Covers(l, qg, g, n)
<1> SUFFICES ASSUME NEW m \in Writers(l, g, n)  PROVE m <= qg.lsn
  BY Zenon DEF Covers
<1>1. m \in Writers(l, g, k) /\ m \in Nat
  BY DEF Writers
<1> QED  BY <1>1 DEF Covers

\* A page that is exact and covers n holds every commit through n.
LEMMA CoveredIsHeld ==
    ASSUME NEW l, NEW pg, NEW g, NEW n, Exact(l, pg, g), Covers(l, pg, g, n)
    PROVE  Writers(l, g, n) \subseteq pg.has
BY Zenon DEF Exact, Covers, Writers

\* l and k have the same first n batches.
Agree(l, k, n) ==
    /\ Len(l) \in Nat /\ Len(k) \in Nat /\ n <= Len(l) /\ n <= Len(k)
    /\ \A m \in 1 .. n : l[m] = k[m]

\* Logs that agree up to a position have the same writers of a page up to it.
LEMMA AgreedWriters ==
    ASSUME NEW l, NEW k, NEW g, NEW n \in Nat, NEW i \in Nat, Agree(l, k, n), i <= n
    PROVE  Writers(l, g, i) = Writers(k, g, i)
<1>1. \A m \in Nat : m <= i => m <= n /\ m <= Len(l) /\ m <= Len(k)
  BY DEF Agree
<1>2. \A m \in 1 .. Len(l) : m <= i => m \in 1 .. n /\ m \in 1 .. Len(k)
  BY <1>1 DEF Agree
<1>3. \A m \in 1 .. Len(k) : m <= i => m \in 1 .. n /\ m \in 1 .. Len(l)
  BY <1>1 DEF Agree
<1> QED  BY <1>2, <1>3, Zenon DEF Agree, Writers

\* ... so a page covers the one as far as it covers the other,
LEMMA AgreedCovers ==
    ASSUME NEW l, NEW k, NEW pg, NEW g, NEW n \in Nat, NEW i \in Nat, Agree(l, k, n), i <= n
    PROVE  Covers(l, pg, g, i) <=> Covers(k, pg, g, i)
BY AgreedWriters DEF Covers

\* ... and is exact for the one if it is for the other.
LEMMA AgreedExact ==
    ASSUME NEW l, NEW k, NEW pg, NEW g, NEW n \in Nat, Agree(l, k, n), pg.lsn \in Nat,
           pg.lsn <= n, Exact(l, pg, g)
    PROVE  Exact(k, pg, g)
<1>1. Writers(l, g, pg.lsn) = Writers(k, g, pg.lsn)
  BY AgreedWriters
<1> QED  BY <1>1, Zenon DEF Exact

\* A page the log does not name between two positions covers the second as soon as
\* it covers the first.
LEMMA UntouchedCovers ==
    ASSUME NEW pg, NEW g, NEW from \in Nat, NEW to \in Nat, Len(log) \in Nat, Len(log) <= MaxLsn,
           Covers(log, pg, g, from), g \notin Touched(from, to)
    PROVE  Covers(log, pg, g, to)
<1> SUFFICES ASSUME NEW m \in Writers(log, g, to)  PROVE m <= pg.lsn
  BY Zenon DEF Covers
<1>1. m \in 1 .. Len(log) /\ m <= to /\ g \in DOMAIN log[m].img
  BY Zenon DEF Writers
<1>2. m \in Lsns
  BY <1>1, BoundIsNatural DEF Lsns
<1>3. ~(from < m)
  BY <1>1, <1>2, Zenon DEF Touched
<1>4. m \in Writers(log, g, from)
  BY <1>1, <1>3 DEF Writers
<1> QED  BY <1>4, Zenon DEF Covers

\* The newest image of a page is exact, covers the whole log, and no exact page is
\* newer.
LEMMA NewestIsNewest ==
    ASSUME CommitInvariant, Contents, NEW g \in Pages, WritersOf(g, Len(log)) # {}
    PROVE  /\ NewestImage(g) \in Page /\ NewestImage(g).lsn <= Len(log)
           /\ Exact(log, NewestImage(g), g)
           /\ Covers(log, NewestImage(g), g, Len(log))
           /\ \A pg \in Page : Exact(log, pg, g) => pg.lsn <= NewestImage(g).lsn
<1> DEFINE W == WritersOf(g, Len(log))
<1>1. Len(log) \in Nat /\ W \in SUBSET (1 .. Len(log)) /\ W = Writers(log, g, Len(log))
  BY DEF CommitInvariant, LogWellFormed, WritersOf, Writers
<1>2. PICK m \in W : \A k \in W : k <= m
  BY <1>1, GreatestExists, Zenon
<1> DEFINE n == CHOOSE x \in W : \A k \in W : k <= x
<1>3. n \in W /\ \A k \in W : k <= n
  BY <1>2, Zenon
<1>4. NewestImage(g) = log[n].img[g]
  BY Zenon DEF NewestImage
<1> HIDE DEF n
<1>5. n \in 1 .. Len(log) /\ g \in DOMAIN log[n].img
  BY <1>1, <1>3, Zenon DEF WritersOf
<1>6. log[n].img[g].lsn = n /\ Exact(log, log[n].img[g], g)
  BY <1>5, Zenon DEF CommitInvariant, LogWellFormed, Contents
<1>7. Covers(log, log[n].img[g], g, Len(log))
  BY <1>1, <1>3, <1>6, Zenon DEF Covers
<1>8. ASSUME NEW pg \in Page, Exact(log, pg, g)  PROVE pg.lsn <= n
  <2>1. pg.lsn = 0 \/ pg.lsn \in W
    BY <1>1, <1>8 DEF Exact, Writers
  <2> QED  BY <1>1, <1>3, <1>5, <2>1
<1> HIDE DEF W
<1> QED  BY <1>4, <1>6, <1>7, <1>8, NewestImageInLog, Zenon DEF CommitInvariant, W

-----------------------------------------------------------------------------
(* What a step of one participant leaves to the others.                       *)

\* The types and the order of the watermarks, from the invariant of the log.
LEMMA PageTypes ==
    ASSUME CommitInvariant
    PROVE  /\ Len(log) \in Nat /\ Len(log) <= MaxLsn /\ log \in Seq(Batch)
           /\ pub \in State /\ pub.last \in Nat /\ pub.ckpt \in Nat /\ durable \in Nat
           /\ pub.ckpt <= pub.last /\ pub.last <= durable /\ durable <= Len(log)
           /\ os \in [Pages -> Page] /\ disk \in [Pages -> Page]
           /\ cache \in [Participants -> Caches]
           /\ todo \in [Participants -> SUBSET Pages] /\ floor \in [Participants -> State]
           /\ pc \in [Participants -> Phases] /\ job \in [Participants -> Jobs]
           /\ snap \in [Participants -> 0 .. NoSnap]
<1>1. /\ Len(log) <= MaxLsn /\ log \in Seq(Batch) /\ pub \in State /\ durable \in Nat
      /\ pub.ckpt <= pub.last /\ pub.last <= durable /\ durable <= Len(log)
      /\ os \in [Pages -> Page] /\ disk \in [Pages -> Page]
      /\ cache \in [Participants -> Caches]
      /\ todo \in [Participants -> SUBSET Pages] /\ floor \in [Participants -> State]
      /\ pc \in [Participants -> Phases] /\ job \in [Participants -> Jobs]
      /\ snap \in [Participants -> 0 .. NoSnap]
  BY Zenon DEF CommitInvariant, Watermarks, LogWellFormed, PagesBehind, PinsProtect, SectionHeld
<1>2. Len(log) \in Nat
  BY <1>1
<1>3. pub.last \in Nat /\ pub.ckpt \in Nat
  BY <1>1, BoundIsNatural DEF State
<1> QED  BY <1>1, <1>2, <1>3, Zenon

\* The positions pages and participants carry are numbers.
LEMMA LsnTypes ==
    ASSUME CommitInvariant
    PROVE  /\ \A g \in Pages : os[g].lsn \in Nat /\ disk[g].lsn \in Nat
           /\ \A p \in Participants : \A g \in DOMAIN cache[p] :
                 g \in Pages /\ cache[p][g] \in Page /\ cache[p][g].lsn \in Nat
           /\ \A p \in Participants : floor[p].last \in Nat /\ floor[p].ckpt \in Nat
           /\ \A p \in Participants : snap[p] # NoSnap => snap[p] \in Nat /\ snap[p] <= pub.last
<1>1. \A g \in Pages : os[g].lsn \in Nat /\ disk[g].lsn \in Nat
  BY PageTypes, BoundIsNatural DEF Page
<1>2. ASSUME NEW p \in Participants, NEW g \in DOMAIN cache[p]
      PROVE  g \in Pages /\ cache[p][g] \in Page /\ cache[p][g].lsn \in Nat
  <2>1. PICK S \in SUBSET Pages : cache[p] \in [S -> Page]
    BY PageTypes DEF Caches
  <2>2. g \in Pages /\ cache[p][g] \in Page
    BY <2>1, Zenon
  <2> QED  BY <2>2, BoundIsNatural DEF Page
<1>3. \A p \in Participants : floor[p].last \in Nat /\ floor[p].ckpt \in Nat
  BY PageTypes, BoundIsNatural DEF State
<1>4. \A p \in Participants : snap[p] # NoSnap => snap[p] \in Nat /\ snap[p] <= pub.last
  BY BoundIsNatural DEF CommitInvariant, PinsProtect, PinOK, NoSnap
<1> QED  BY <1>1, <1>2, <1>3, <1>4, Zenon

\* Only one participant is inside COMMIT_SECTION.
LEMMA Alone ==
    ASSUME CommitInvariant, NEW p \in Participants, NEW q \in Participants, p # q,
           pc[p] \in Inside
    PROVE  pc[q] \notin Inside
BY Zenon DEF CommitInvariant, SectionHeld

\* The memory of the others is not touched.
Frame(p) ==
    \A q \in Participants \ {p} :
        /\ pc'[q] = pc[q] /\ job'[q] = job[q] /\ todo'[q] = todo[q] /\ snap'[q] = snap[q]
        /\ floor'[q] = floor[q] /\ view'[q] = view[q] /\ cache'[q] = cache[q]
        /\ ownPub'[q] = ownPub[q]

\* Log, pages and publication only grow, and log and publication only inside the
\* section.
Grows(p) ==
    /\ Agree(log, log', Len(log))
    /\ pub'.last \in Nat /\ pub.last <= pub'.last
    /\ \A g \in Pages : /\ os'[g].lsn \in Nat /\ os[g].lsn <= os'[g].lsn
                        /\ disk'[g].lsn \in Nat /\ disk[g].lsn <= disk'[g].lsn
    /\ pc[p] \in Inside \/ UNCHANGED <<log, pub>>

\* A step of p keeps what the invariant says of another participant.
LEMMA OthersKept ==
    ASSUME CommitInvariant, PageInvariant, NEW p \in Participants, NEW q \in Participants, q # p,
           Frame(p), Grows(p)
    PROVE  LocalOK(q)'
<1>0. LocalOK(q)
  BY Zenon DEF PageInvariant
<1>1. /\ pc'[q] = pc[q] /\ job'[q] = job[q] /\ todo'[q] = todo[q] /\ snap'[q] = snap[q]
      /\ floor'[q] = floor[q] /\ view'[q] = view[q] /\ cache'[q] = cache[q]
      /\ ownPub'[q] = ownPub[q]
  BY Zenon DEF Frame
<1>2. /\ Len(log) \in Nat /\ pub.last \in Nat /\ pub'.last \in Nat /\ pub.last <= pub'.last
      /\ pub.last <= Len(log) /\ Agree(log, log', Len(log))
  BY PageTypes DEF Grows
<1>3. pc[q] \in Inside => UNCHANGED <<log, pub>>
  BY Alone, Zenon DEF Grows
<1>4. Writing \subseteq Inside /\ {"appended", "apply"} \subseteq Inside
  BY Zenon DEF Writing, Inside
<1>5. \A n \in Nat : \A g, pg : n <= Len(log) =>
          (Covers(log, pg, g, n) <=> Covers(log', pg, g, n))
  BY <1>2, AgreedCovers, Zenon
<1>6. JobOK(q)'
  BY <1>0, <1>1, <1>3, <1>4, Zenon DEF LocalOK, JobOK
<1>7. AppliedOK(q)'
  <2>1. ASSUME pc[q] \in Writing, NEW g \in Pages \ todo[q]
        PROVE  Covers(log', os'[g], g, Len(log'))
    <3>1. log' = log /\ Covers(log, os[g], g, Len(log))
      BY <1>0, <1>3, <1>4, <2>1, Zenon DEF LocalOK, AppliedOK
    <3>2. os[g].lsn \in Nat /\ os'[g].lsn \in Nat /\ os[g].lsn <= os'[g].lsn
      BY LsnTypes, Zenon DEF Grows
    <3> QED  BY <1>2, <3>1, <3>2, CoversLess
  <2>2. ASSUME pc[q] = "apply", NEW g \in DOMAIN cache[q] \ todo[q]
        PROVE  Covers(log', cache'[q][g], g, Len(log'))
    BY <1>0, <1>1, <1>3, <1>4, <2>2, Zenon DEF LocalOK, AppliedOK
  <2> QED  BY <1>1, <2>1, <2>2, Zenon DEF AppliedOK
<1>8. TargetOK(q)'
  <2>1. floor[q].last \in Nat
    BY LsnTypes, Zenon
  <2>2. ASSUME pc[q] = "sync" \/ job[q] = "finish"
        PROVE  floor[q].last <= pub.last /\ floor[q].last <= pub'.last /\ floor[q].last <= Len(log)
    BY <1>0, <1>2, <2>1, <2>2 DEF LocalOK, TargetOK
  <2>3. ASSUME NEW g \in Pages, Covers(log, disk[g], g, floor[q].last),
               floor[q].last <= Len(log)
        PROVE  Covers(log', disk'[g], g, floor[q].last)
    <3>1. disk[g].lsn \in Nat /\ disk'[g].lsn \in Nat /\ disk[g].lsn <= disk'[g].lsn
      BY LsnTypes, Zenon DEF Grows
    <3>2. Covers(log, disk'[g], g, floor[q].last)
      BY <1>2, <2>1, <2>3, <3>1, CoversLess
    <3> QED  BY <1>5, <2>1, <2>3, <3>2, Zenon
  <2> QED  BY <1>0, <1>1, <2>2, <2>3, Zenon DEF LocalOK, TargetOK
<1>9. ViewOK(q)'
  <2>1. /\ ownPub[q] \in Nat /\ view[q].last \in Nat
        /\ snap[q] # NoSnap => snap[q] \in Nat /\ snap[q] <= pub.last
    BY LsnTypes, BoundIsNatural DEF PageInvariant, State, NoView
  <2>2. ViewOK(q)
    BY <1>0, Zenon DEF LocalOK
  <2>3. /\ floor'[q].ckpt <= floor'[q].last
        /\ view'[q] # NoView => view'[q].ckpt <= view'[q].last /\ view'[q].last <= pub'.last
        /\ ownPub'[q] <= pub'.last
    BY <1>1, <1>2, <2>1, <2>2 DEF ViewOK
  <2>4. ASSUME NEW g \in DOMAIN cache[q]
        PROVE  /\ view[q] # NoView => Covers(log', cache[q][g], g, view[q].last)
               /\ Covers(log', cache[q][g], g, ownPub[q])
               /\ snap[q] # NoSnap => Covers(log', cache[q][g], g, snap[q])
    <3>1. /\ view[q] # NoView => view[q].last <= Len(log)
          /\ ownPub[q] <= Len(log) /\ (snap[q] # NoSnap => snap[q] <= Len(log))
      BY <1>2, <2>1, <2>2 DEF ViewOK
    <3> QED  BY <1>5, <2>1, <2>2, <3>1, Zenon DEF ViewOK
  <2> QED  BY <1>1, <2>3, <2>4, Zenon DEF ViewOK, NoView, NoSnap
<1> QED  BY <1>6, <1>7, <1>8, <1>9, Zenon DEF LocalOK

\* So for a step of p only p and what is shared have to be looked at.
LEMMA StepOf ==
    ASSUME CommitInvariant, PageInvariant, NEW p \in Participants, Frame(p), Grows(p),
           LocalOK(p)', Contents', PublishedIn', acked' \subseteq 1 .. durable',
           view' \in [Participants -> State \cup {NoView}],
           ownPub' \in [Participants -> 0 .. MaxLsn]
    PROVE  PageInvariant'
<1>1. \A q \in Participants : LocalOK(q)'
  BY OthersKept, Zenon
<1> QED  BY <1>1, Zenon DEF PageInvariant

-----------------------------------------------------------------------------
(* Steps that leave log, pages, publication, views and caches alone.          *)

Quiet(p) ==
    /\ UNCHANGED <<log, pub, os, disk, view, cache, ownPub>>
    /\ \A q \in Participants \ {p} :
          /\ pc'[q] = pc[q] /\ job'[q] = job[q] /\ todo'[q] = todo[q]
          /\ snap'[q] = snap[q] /\ floor'[q] = floor[q]

\* A step that leaves log and pages alone keeps the invariant, if it keeps what its own
\* participant is in the middle of.
LEMMA QuietStep ==
    ASSUME CommitInvariant, PageInvariant, NEW p \in Participants, Quiet(p),
           JobOK(p)', AppliedOK(p)', TargetOK(p)', Reopened(p)' => Reopened(p),
           snap'[p] \in {snap[p], NoSnap}, floor'[p] \in {floor[p], pub, [last |-> 0, ckpt |-> 0]},
           acked' \subseteq 1 .. durable'
    PROVE  PageInvariant'
<1>1. Frame(p)
  BY Zenon DEF Quiet, Frame
<1>2. Grows(p)
  <2>1. \A g \in Pages : os[g].lsn <= os[g].lsn /\ disk[g].lsn <= disk[g].lsn
    BY LsnTypes
  <2>2. /\ UNCHANGED <<log, pub, os, disk>> /\ Len(log) \in Nat
        /\ pub.last \in Nat /\ pub.last <= pub.last /\ Len(log) <= Len(log)
    BY PageTypes DEF Quiet
  <2> QED  BY <2>1, <2>2, LsnTypes, Zenon DEF Grows, Agree
<1>3. Contents'
  BY Zenon DEF PageInvariant, Contents, Quiet
<1>4. PublishedIn'
  <2>1. (\E q \in Participants : Reopened(q)') => \E q \in Participants : Reopened(q)
    BY Zenon DEF Quiet, Reopened
  <2> QED  BY <2>1, Zenon DEF PageInvariant, PublishedIn, Quiet
<1>5. ViewOK(p)'
  <2>1. ViewOK(p) /\ pub.ckpt <= pub.last
    BY PageTypes, Zenon DEF PageInvariant, LocalOK
  <2>2. floor'[p].ckpt <= floor'[p].last
    BY <2>1 DEF ViewOK
  <2> QED  BY <2>1, <2>2, Zenon DEF ViewOK, Quiet, NoSnap, NoView
<1> QED  BY <1>1, <1>2, <1>3, <1>4, <1>5, StepOf, ZenonT(60) DEF PageInvariant, LocalOK, Quiet

\* begin's first half, rollback, entering the section, giving up.
LEMMA EnteringKept ==
    ASSUME CommitInvariant, PageInvariant, NEW p \in Participants,
           \/ BeginFloor(p) \/ Rollback(p) \/ GiveUpFinish(p) \/ EnterRecovery(p)
           \/ StartCommit(p) \/ StartCheckpoint(p) \/ StartFinish(p)
    PROVE  PageInvariant'
<1>0. /\ pc \in [Participants -> Phases] /\ job \in [Participants -> Jobs]
      /\ snap \in [Participants -> 0 .. NoSnap] /\ floor \in [Participants -> State]
  BY PageTypes, Zenon
<1>1. UNCHANGED <<log, pub, os, disk, view, cache, ownPub, durable, acked, todo>>
  BY Zenon DEF BeginFloor, Rollback, GiveUpFinish, EnterRecovery, StartCommit, StartCheckpoint,
     StartFinish, EnterSection, device, memory
<1>2. Quiet(p)
  BY <1>0, <1>1, Zenon DEF BeginFloor, Rollback, GiveUpFinish, EnterRecovery, StartCommit,
     StartCheckpoint, StartFinish, EnterSection, memory, Quiet
<1>3. /\ snap'[p] \in {snap[p], NoSnap}
      /\ floor'[p] \in {floor[p], pub, [last |-> 0, ckpt |-> 0]}
  BY <1>0, Zenon DEF BeginFloor, Rollback, GiveUpFinish, EnterRecovery, StartCommit,
     StartCheckpoint, StartFinish, EnterSection, memory
<1>4. LocalOK(p)
  BY Zenon DEF PageInvariant
<1>5. \/ pc'[p] = "begin" /\ job'[p] = "none"
      \/ pc'[p] = "idle" /\ job'[p] = "none"
      \/ pc'[p] = "gap" /\ job'[p] = "recover"
      \/ pc'[p] \in {"gap", "ready"} /\ job'[p] \in {"commit", "checkpoint"}
      \/ pc'[p] \in {"gap", "ready"} /\ job'[p] = "finish" /\ job[p] = "finish" /\ floor' = floor
  BY <1>0, <1>4, Zenon DEF BeginFloor, Rollback, GiveUpFinish, EnterRecovery, StartCommit,
     StartCheckpoint, StartFinish, EnterSection, memory, LocalOK, JobOK, Phases
<1>6. JobOK(p)'
  BY <1>5, Zenon DEF JobOK
<1>7. AppliedOK(p)'
  BY <1>5, Zenon DEF AppliedOK, Writing
<1>8. TargetOK(p)'
  BY <1>1, <1>4, <1>5, Zenon DEF LocalOK, TargetOK
<1>9. Reopened(p)' => Reopened(p)
  BY <1>0, <1>4, Zenon DEF BeginFloor, Rollback, GiveUpFinish, EnterRecovery, StartCommit,
     StartCheckpoint, StartFinish, EnterSection, Reopened, LocalOK, JobOK
<1>10. acked' \subseteq 1 .. durable'
  BY <1>1, Zenon DEF PageInvariant
<1> QED  BY <1>2, <1>3, <1>6, <1>7, <1>8, <1>9, <1>10, QuietStep, SMTT(30)

\* Redo owes the pages the log names above the checkpoint; all others are complete.
LEMMA ForceTailKept ==
    ASSUME CommitInvariant, PageInvariant, NEW p \in Participants, ForceTail(p)
    PROVE  PageInvariant'
<1>0. /\ pc \in [Participants -> Phases] /\ todo \in [Participants -> SUBSET Pages]
      /\ Len(log) \in Nat /\ durable <= Len(log) /\ durable \in Nat /\ pub.ckpt \in Nat
  BY PageTypes, Zenon
<1>1. /\ pc[p] = "gap" /\ pc'[p] = "redo" /\ todo'[p] = Touched(pub.ckpt, Len(log))
      /\ UNCHANGED <<log, pub, os, disk, job, snap, floor, acked>> /\ durable' = Len(log)
  BY <1>0, Zenon DEF ForceTail, RedoFloor, memory
<1>2. Quiet(p)
  BY <1>0, Zenon DEF ForceTail, memory, Quiet
<1>3. LocalOK(p)
  BY Zenon DEF PageInvariant
<1>4. JobOK(p)'
  BY <1>1, <1>3, Zenon DEF LocalOK, JobOK
<1>5. AppliedOK(p)'
  <2>1. ASSUME NEW g \in Pages, g \notin Touched(pub.ckpt, Len(log))
        PROVE  Covers(log, os[g], g, Len(log))
    <3>1. /\ disk[g].lsn \in Nat /\ os[g].lsn \in Nat /\ disk[g].lsn <= os[g].lsn
          /\ Covers(log, disk[g], g, pub.ckpt)
      BY LsnTypes, Zenon DEF PageInvariant, Contents
    <3>2. Covers(log, os[g], g, pub.ckpt)
      BY <1>0, <3>1, CoversLess
    <3> QED  BY <1>0, <2>1, <3>2, UntouchedCovers, PageTypes, Zenon
  <2> QED  BY <1>1, <2>1, Zenon DEF AppliedOK
<1>6. TargetOK(p)'
  BY <1>1, <1>3, Zenon DEF LocalOK, TargetOK
<1>7. Reopened(p)' => Reopened(p)
  BY <1>1, Zenon DEF Reopened
<1>8. acked' \subseteq 1 .. durable'
  BY <1>0, <1>1 DEF PageInvariant
<1> QED  BY <1>1, <1>2, <1>4, <1>5, <1>6, <1>7, <1>8, QuietStep

\* The apply of a commit, and its redo, owe the pages of the last batch; the others
\* are complete, in the page files and in the cache.
LEMMA ApplyingKept ==
    ASSUME CommitInvariant, PageInvariant, NEW p \in Participants,
           Barrier(p) \/ RecoverPostBarrier(p)
    PROVE  PageInvariant'
<1> DEFINE n == Len(log)
<1>0. /\ pc \in [Participants -> Phases] /\ todo \in [Participants -> SUBSET Pages]
      /\ n \in Nat /\ durable <= n /\ durable \in Nat /\ pub.last \in Nat /\ n <= MaxLsn
  BY PageTypes, Zenon
<1>1. LocalOK(p)
  BY Zenon DEF PageInvariant
<1>2. /\ pc[p] \in {"appended", "apply"} /\ pc'[p] = "apply"
      /\ UNCHANGED <<log, pub, os, disk, job, snap, floor, view, cache, ownPub>>
  BY <1>0, Zenon DEF Barrier, RecoverPostBarrier, device, memory
<1>3. job[p] = "commit" /\ n = pub.last + 1 /\ view[p] = pub /\ n \in Lsns
  BY <1>0, <1>1, <1>2, BoundIsNatural DEF LocalOK, JobOK, Lsns
<1>4. todo'[p] = Touched(pub.last, n)
  <2>1. {m \in Lsns : pub.last < m /\ m <= n} = {n}
    BY <1>0, <1>3, BoundIsNatural DEF Lsns
  <2>2. Touched(pub.last, n) = DOMAIN log[n].img
    BY <2>1, Zenon DEF Touched
  <2> QED  BY <1>0, <2>2, Zenon DEF Barrier, RecoverPostBarrier
<1>5. Quiet(p)
  BY <1>0, <1>2, Zenon DEF Barrier, RecoverPostBarrier, Quiet
<1>6. JobOK(p)'
  BY <1>2, <1>3, Zenon DEF JobOK
<1>7. AppliedOK(p)'
  <2>1. ASSUME NEW g \in Pages, g \notin todo'[p]
        PROVE  Covers(log, os[g], g, n)
    <3>1. Reopened(p)
      BY <1>2, <1>3, Zenon DEF Reopened
    <3>2. Covers(log, os[g], g, pub.last)
      BY <3>1, Zenon DEF PageInvariant, PublishedIn
    <3> QED  BY <1>0, <1>4, <2>1, <3>2, UntouchedCovers, Zenon
  <2>2. ASSUME NEW g \in DOMAIN cache[p], g \notin todo'[p]
        PROVE  Covers(log, cache[p][g], g, n)
    <3>1. view[p] # NoView
      BY <1>3, PageTypes DEF NoView
    <3>2. Covers(log, cache[p][g], g, pub.last)
      BY <1>1, <1>3, <3>1, Zenon DEF LocalOK, ViewOK
    <3> QED  BY <1>0, <1>4, <2>2, <3>2, UntouchedCovers, ZenonT(60)
  <2> QED  BY <1>2, <2>1, <2>2, Zenon DEF AppliedOK
<1>8. TargetOK(p)'
  BY <1>2, <1>3, Zenon DEF TargetOK
<1>9. Reopened(p)' => Reopened(p)
  BY <1>2, <1>3, Zenon DEF Reopened
<1>10. acked' \subseteq 1 .. durable'
  <2>1. CASE Barrier(p)
    <3>1. acked' = acked \cup {n} /\ durable' = n /\ acked \subseteq 1 .. durable
      BY <2>1, Zenon DEF Barrier, PageInvariant
    <3>2. 1 .. durable \subseteq 1 .. n /\ n \in 1 .. n
      BY <1>0, <1>3
    <3> HIDE DEF n
    <3> QED  BY <3>1, <3>2, Zenon
  <2>2. CASE RecoverPostBarrier(p)
    BY <2>2, Zenon DEF RecoverPostBarrier, PageInvariant, device
  <2> QED  BY <2>1, <2>2, Zenon
<1> QED  BY <1>2, <1>5, <1>6, <1>7, <1>8, <1>9, <1>10, QuietStep, ZenonT(60)

\* The end of a freeze owes every page to the device.
LEMMA EndFreezeKept ==
    ASSUME CommitInvariant, PageInvariant, NEW p \in Participants, EndFreeze(p)
    PROVE  PageInvariant'
<1>0. /\ pc \in [Participants -> Phases] /\ todo \in [Participants -> SUBSET Pages]
      /\ floor \in [Participants -> State] /\ pub.last \in Nat
  BY PageTypes, Zenon
<1>1. /\ pc[p] = "freeze" /\ pc'[p] = "sync" /\ todo'[p] = Pages /\ floor'[p] = pub
      /\ UNCHANGED <<log, pub, os, disk, job, snap, view, cache, ownPub, durable, acked>>
  BY <1>0, Zenon DEF EndFreeze, device
<1>2. Quiet(p)
  BY <1>0, <1>1, Zenon DEF EndFreeze, Quiet
<1>3. JobOK(p)
  BY Zenon DEF PageInvariant, LocalOK
<1>4. job[p] \notin {"recover", "finish"}
  BY <1>1, <1>3, Zenon DEF JobOK
<1>5. JobOK(p)' /\ AppliedOK(p)' /\ TargetOK(p)'
  BY <1>0, <1>1, <1>4 DEF JobOK, AppliedOK, TargetOK, Writing
<1>6. Reopened(p)' => Reopened(p)
  BY <1>1, <1>4, Zenon DEF Reopened
<1> QED  BY <1>1, <1>2, <1>5, <1>6, QuietStep DEF PageInvariant

-----------------------------------------------------------------------------
(* Steps that move a read view or load a page.                                *)

\* What _establish_read_view keeps covers the state the view moves to: for the token
\* in force, for the own publication, and for pages a log interval does not name.
LEMMA RefreshedCovers ==
    ASSUME CommitInvariant, PageInvariant, NEW p \in Participants, NEW s \in State,
           s.ckpt <= s.last, s.last <= pub.last
    PROVE  \A g \in DOMAIN Refreshed(p, s) :
               /\ g \in DOMAIN cache[p] /\ Refreshed(p, s)[g] = cache[p][g]
               /\ Covers(log, Refreshed(p, s)[g], g, s.last)
<1>0. /\ s.last \in Nat /\ Len(log) \in Nat /\ Len(log) <= MaxLsn /\ s # NoView
  BY PageTypes, BoundIsNatural DEF State, NoView
<1>1. ViewOK(p) /\ view[p].last \in Nat /\ ownPub[p] \in Nat
  BY BoundIsNatural DEF PageInvariant, LocalOK, State, NoView
<1>2. CASE view[p] = s
  <2>1. Refreshed(p, s) = cache[p]
    BY <1>2, Zenon DEF Refreshed
  <2> QED  BY <1>0, <1>1, <1>2, <2>1, Zenon DEF ViewOK
<1>3. CASE ownPub[p] = s.last /\ s.last > 0 /\ view[p] # NoView /\ view[p].ckpt = s.ckpt
  <2>1. Refreshed(p, s) = cache[p]
    BY <1>3, Zenon DEF Refreshed
  <2> QED  BY <1>1, <1>3, <2>1, Zenon DEF ViewOK
<1>4. CASE Refreshed(p, s) = Keep(cache[p], Pages \ Touched(view[p].last, s.last))
           /\ view[p] # NoView
  <2> SUFFICES ASSUME NEW g \in DOMAIN Keep(cache[p], Pages \ Touched(view[p].last, s.last))
               PROVE  /\ g \in DOMAIN cache[p] /\ Refreshed(p, s)[g] = cache[p][g]
                      /\ Covers(log, Refreshed(p, s)[g], g, s.last)
    BY <1>4, Zenon
  <2>1. /\ g \in DOMAIN cache[p] /\ g \notin Touched(view[p].last, s.last)
        /\ Refreshed(p, s)[g] = cache[p][g]
    BY <1>4, Zenon DEF Keep
  <2>2. Covers(log, cache[p][g], g, view[p].last)
    BY <1>1, <1>4, <2>1, Zenon DEF ViewOK
  <2>3. Covers(log, cache[p][g], g, s.last)
    BY <1>0, <1>1, <2>1, <2>2, UntouchedCovers, Zenon
  <2> QED  BY <2>1, <2>3, Zenon
<1>5. CASE Refreshed(p, s) = NoCache
  BY <1>5, Zenon DEF NoCache
<1> QED  BY <1>2, <1>3, <1>4, <1>5, ZenonT(60) DEF Refreshed

\* Every page covers the empty prefix of the log.
LEMMA CoversNothing == \A l, pg, g : Len(l) \in Nat => Covers(l, pg, g, 0)
BY DEF Covers, Writers

\* A page that covers the publication suits every view, publication and snapshot.
LEMMA FreshPage ==
    ASSUME CommitInvariant, PageInvariant, NEW p \in Participants, NEW pg, NEW g,
           pg.lsn \in Nat, NEW k \in Nat, pub.last <= k, Covers(log, pg, g, k)
    PROVE  /\ view[p] # NoView => Covers(log, pg, g, view[p].last)
           /\ Covers(log, pg, g, ownPub[p])
           /\ snap[p] # NoSnap => Covers(log, pg, g, snap[p])
<1>1. /\ Len(log) \in Nat /\ pub.last \in Nat /\ ownPub[p] \in Nat /\ view[p].last \in Nat
      /\ snap[p] # NoSnap => snap[p] \in Nat /\ snap[p] <= pub.last
  BY PageTypes, LsnTypes, BoundIsNatural, SMTT(30) DEF PageInvariant, State, NoView
<1>2. /\ view[p] # NoView => view[p].last <= pub.last
      /\ ownPub[p] <= pub.last
  BY Zenon DEF PageInvariant, LocalOK, ViewOK
<1>3. \A n \in Nat : n <= pub.last => Covers(log, pg, g, n)
  BY <1>1, CoversLess
<1> QED  BY <1>1, <1>2, <1>3, Zenon

\* A view that moves to s, with a snapshot no later than s.
LEMMA ViewMoved ==
    ASSUME CommitInvariant, PageInvariant, NEW p \in Participants, NEW s \in State,
           s.ckpt <= s.last, s.last <= pub.last, BeginView(p, s),
           UNCHANGED <<log, pub, os, disk>>,
           snap'[p] # NoSnap => snap'[p] \in Nat /\ snap'[p] <= s.last,
           floor'[p].ckpt <= floor'[p].last
    PROVE  /\ ViewOK(p)' /\ Contents'
           /\ view' \in [Participants -> State \cup {NoView}]
           /\ ownPub' \in [Participants -> 0 .. MaxLsn]
           /\ \A q \in Participants \ {p} : /\ view'[q] = view[q] /\ cache'[q] = cache[q]
                                            /\ ownPub'[q] = ownPub[q]
<1> DEFINE c == Refreshed(p, s)
<1>0. /\ view \in [Participants -> State \cup {NoView}]
      /\ ownPub \in [Participants -> 0 .. MaxLsn] /\ cache \in [Participants -> Caches]
      /\ Len(log) \in Nat /\ s.last \in Nat /\ ownPub[p] <= pub.last
  BY PageTypes, BoundIsNatural DEF PageInvariant, State, LocalOK, ViewOK
<1>1. /\ view' = [view EXCEPT ![p] = s] /\ cache' = [cache EXCEPT ![p] = c]
      /\ ownPub' = [ownPub EXCEPT ![p] = OwnAfter(p, s)]
  BY Zenon DEF BeginView
<1>2. \A g \in DOMAIN c : /\ g \in DOMAIN cache[p] /\ c[g] = cache[p][g]
                          /\ Covers(log, c[g], g, s.last)
  BY RefreshedCovers, ZenonT(60)
<1>3. OwnAfter(p, s) \in {0, s.last} /\ OwnAfter(p, s) \in 0 .. MaxLsn
  BY <1>0, BoundIsNatural DEF OwnAfter
<1> HIDE DEF c
<1>4. /\ view'[p] = s /\ cache'[p] = c /\ ownPub'[p] = OwnAfter(p, s)
      /\ \A q \in Participants \ {p} : /\ view'[q] = view[q] /\ cache'[q] = cache[q]
                                       /\ ownPub'[q] = ownPub[q]
      /\ view' \in [Participants -> State \cup {NoView}]
      /\ ownPub' \in [Participants -> 0 .. MaxLsn]
  BY <1>0, <1>1, <1>3, Zenon
<1>5. Contents'
  <2>1. ASSUME NEW q \in Participants, NEW g \in DOMAIN cache'[q]
        PROVE  Exact(log, cache'[q][g], g) /\ cache'[q][g].lsn <= os[g].lsn
    BY <1>2, <1>4, <2>1 DEF PageInvariant, Contents
  <2> QED  BY <2>1, ZenonT(60) DEF PageInvariant, Contents
<1>6. ViewOK(p)'
  <2>1. ASSUME NEW g \in DOMAIN c
        PROVE  /\ Covers(log, c[g], g, OwnAfter(p, s))
               /\ snap'[p] # NoSnap => Covers(log, c[g], g, snap'[p])
    <3>1. c[g].lsn \in Nat /\ Covers(log, c[g], g, s.last)
      BY <1>2, LsnTypes, ZenonT(60)
    <3>2. c[g].lsn <= c[g].lsn
      BY <3>1
    <3>3. \A n \in Nat : n <= s.last => Covers(log, c[g], g, n)
      BY <1>0, <3>1, <3>2, CoversLess, ZenonT(60)
    <3> QED  BY <1>0, <1>3, <3>3
  <2>2. OwnAfter(p, s) <= pub.last
    BY <1>0, <1>3, PageTypes
  <2> QED  BY <1>2, <1>4, <2>1, <2>2, ZenonT(60) DEF ViewOK, NoSnap, NoView
<1> QED  BY <1>4, <1>5, <1>6, ZenonT(60)

\* A step that leaves log, publication and pages alone.
LEMMA SharedStanding ==
    ASSUME CommitInvariant, PageInvariant, NEW p \in Participants, Frame(p),
           UNCHANGED <<log, pub, os, disk>>, Reopened(p)' => Reopened(p)
    PROVE  Grows(p) /\ PublishedIn'
<1>1. Grows(p)
  <2>1. \A g \in Pages : os[g].lsn <= os[g].lsn /\ disk[g].lsn <= disk[g].lsn
    BY LsnTypes
  <2>2. /\ Len(log) \in Nat /\ pub.last \in Nat /\ pub.last <= pub.last /\ Len(log) <= Len(log)
    BY PageTypes
  <2> QED  BY <2>1, <2>2, LsnTypes, ZenonT(60) DEF Grows, Agree
<1>2. (\E q \in Participants : Reopened(q)') => \E q \in Participants : Reopened(q)
  BY Zenon DEF Frame, Reopened
<1> QED  BY <1>1, <1>2, Zenon DEF PageInvariant, PublishedIn

\* The rest of begin, and a commit that is refused.
LEMMA BegunKept ==
    ASSUME CommitInvariant, PageInvariant, NEW p \in Participants,
           RefuseCommit(p) \/ \E due \in BOOLEAN : Begin(p, due)
    PROVE  PageInvariant'
<1>0. /\ pc \in [Participants -> Phases] /\ job \in [Participants -> Jobs]
      /\ snap \in [Participants -> 0 .. NoSnap] /\ floor \in [Participants -> State]
      /\ pub \in State /\ pub.last \in Nat /\ pub.ckpt <= pub.last
  BY PageTypes, Zenon
<1>1. LocalOK(p)
  BY Zenon DEF PageInvariant
<1>2. /\ UNCHANGED <<log, pub, os, disk, todo, acked, durable>>
      /\ pc'[p] = "idle" /\ job'[p] = "none" /\ Reopened(p)
  <2>1. CASE RefuseCommit(p)
    BY <1>0, <2>1, Zenon DEF RefuseCommit, LeaveSection, device, Reopened
  <2>2. CASE \E due \in BOOLEAN : Begin(p, due)
    BY <1>0, <1>1, <2>2, ZenonT(60) DEF Begin, LocalOK, JobOK, Reopened
  <2> QED  BY <2>1, <2>2, Zenon
<1>3. PICK s \in State : /\ BeginView(p, s) /\ s.ckpt <= s.last /\ s.last <= pub.last
                         /\ snap'[p] # NoSnap => snap'[p] \in Nat /\ snap'[p] <= s.last
                         /\ floor'[p].ckpt <= floor'[p].last
  <2>1. CASE RefuseCommit(p)
    <3>1. BeginView(p, pub) /\ snap' = snap /\ floor' = floor /\ pub.last <= pub.last
      BY <1>0, <2>1 DEF RefuseCommit
    <3>2. snap[p] # NoSnap => snap[p] \in Nat /\ snap[p] <= pub.last
      BY LsnTypes, Zenon
    <3>3. floor[p].ckpt <= floor[p].last
      BY <1>1, Zenon DEF LocalOK, ViewOK
    <3> QED  BY <1>0, <3>1, <3>2, <3>3, ZenonT(60) DEF NoSnap
  <2>2. ASSUME NEW due \in BOOLEAN, Begin(p, due)
        PROVE  \E s \in State : /\ BeginView(p, s) /\ s.ckpt <= s.last /\ s.last <= pub.last
                                /\ snap'[p] # NoSnap => snap'[p] \in Nat /\ snap'[p] <= s.last
                                /\ floor'[p].ckpt <= floor'[p].last
    <3>1. PICK s \in {pub, floor[p]} : BeginView(p, s) /\ snap' = [snap EXCEPT ![p] = s.last]
      BY <2>2, Zenon DEF Begin
    <3>2. floor' = [floor EXCEPT ![p] = [last |-> 0, ckpt |-> 0]] /\ pc[p] = "begin"
      BY <2>2, ZenonT(60) DEF Begin
    <3>3. floor[p].ckpt <= floor[p].last /\ floor[p].last <= pub.last
      BY <1>1, <3>2 DEF LocalOK, ViewOK, CommitInvariant, PinsProtect, PinOK
    <3>4. s \in State /\ s.ckpt <= s.last /\ s.last <= pub.last /\ s.last \in Nat
      BY <1>0, <3>3, BoundIsNatural DEF State
    <3>5. snap'[p] = s.last /\ floor'[p] = [last |-> 0, ckpt |-> 0]
      BY <1>0, <3>1, <3>2, Zenon
    <3> QED  BY <3>1, <3>4, <3>5
  <2> QED  BY <2>1, <2>2, Zenon
<1>4. /\ ViewOK(p)' /\ Contents'
      /\ view' \in [Participants -> State \cup {NoView}]
      /\ ownPub' \in [Participants -> 0 .. MaxLsn]
      /\ \A q \in Participants \ {p} : /\ view'[q] = view[q] /\ cache'[q] = cache[q]
                                       /\ ownPub'[q] = ownPub[q]
  BY <1>2, <1>3, ViewMoved, Zenon
<1>5. \A q \in Participants \ {p} : /\ pc'[q] = pc[q] /\ job'[q] = job[q]
                                    /\ snap'[q] = snap[q] /\ floor'[q] = floor[q]
  <2>1. CASE RefuseCommit(p)
    BY <1>0, <2>1, SMTT(30) DEF RefuseCommit, LeaveSection
  <2>2. CASE \E due \in BOOLEAN : Begin(p, due)
    BY <1>0, <2>2 DEF Begin
  <2> QED  BY <2>1, <2>2, Zenon
<1>6. Frame(p)
  BY <1>2, <1>4, <1>5, Zenon DEF Frame
<1>7. Grows(p) /\ PublishedIn'
  BY <1>2, <1>6, SharedStanding, Zenon
<1>8. JobOK(p)' /\ AppliedOK(p)' /\ TargetOK(p)'
  BY <1>2, Zenon DEF JobOK, AppliedOK, TargetOK, Writing
<1>9. acked' \subseteq 1 .. durable'
  BY <1>2, Zenon DEF PageInvariant
<1> QED  BY <1>4, <1>6, <1>7, <1>8, <1>9, StepOf DEF LocalOK

\* A page that is read into the pool of an open transaction is complete.
LEMMA LoadKept ==
    ASSUME CommitInvariant, PageInvariant, NEW p \in Participants, NEW g \in Pages, LoadPage(p, g)
    PROVE  PageInvariant'
<1>0. LocalOK(p) /\ cache \in [Participants -> Caches]
  BY PageTypes, Zenon DEF PageInvariant
<1>1. /\ UNCHANGED <<log, pub, os, disk, pc, job, todo, snap, floor, view, ownPub, acked, durable>>
      /\ pc[p] = "idle"
  BY Zenon DEF LoadPage, device
<1>2. /\ \A q \in Participants \ {p} : cache'[q] = cache[q]
      /\ DOMAIN cache'[p] = DOMAIN cache[p] \cup {g}
      /\ cache'[p][g] = os[g]
      /\ \A h \in DOMAIN cache[p] : cache'[p][h] = cache[p][h]
  BY <1>0, Zenon DEF LoadPage, Pinned
<1>3. Frame(p) /\ Reopened(p)
  BY <1>0, <1>1, <1>2, Zenon DEF Frame, Reopened, LocalOK, JobOK
<1>4. Grows(p) /\ PublishedIn'
  BY <1>1, <1>3, SharedStanding, Zenon
<1>5. Contents'
  <2>1. Exact(log, os[g], g) /\ os[g].lsn <= os[g].lsn
    BY LsnTypes, SMTT(30) DEF PageInvariant, Contents
  <2>2. ASSUME NEW q \in Participants, NEW h \in DOMAIN cache'[q]
        PROVE  Exact(log, cache'[q][h], h) /\ cache'[q][h].lsn <= os[h].lsn
    BY <1>2, <2>1, <2>2 DEF PageInvariant, Contents
  <2> QED  BY <1>1, <2>2, ZenonT(60) DEF PageInvariant, Contents
<1>6. ViewOK(p)'
  <2>1. Covers(log, os[g], g, pub.last) /\ os[g].lsn \in Nat /\ pub.last \in Nat
        /\ pub.last <= pub.last
    BY <1>3, LsnTypes, PageTypes DEF PageInvariant, PublishedIn
  <2>2. /\ view[p] # NoView => Covers(log, os[g], g, view[p].last)
        /\ Covers(log, os[g], g, ownPub[p])
        /\ snap[p] # NoSnap => Covers(log, os[g], g, snap[p])
    BY <2>1, FreshPage, Zenon
  <2> QED  BY <1>0, <1>1, <1>2, <2>2, ZenonT(60) DEF LocalOK, ViewOK, NoView, NoSnap
<1>7. JobOK(p)' /\ AppliedOK(p)' /\ TargetOK(p)'
  BY <1>0, <1>1, Zenon DEF JobOK, AppliedOK, TargetOK, Writing, LocalOK
<1> QED  BY <1>1, <1>3, <1>4, <1>5, <1>6, <1>7, StepOf, SMTT(30) DEF LocalOK, PageInvariant

\* A cache that is dropped is no longer stale: the freeze of a checkpoint.
LEMMA FreezeKept ==
    ASSUME CommitInvariant, PageInvariant, NEW p \in Participants, Freeze(p)
    PROVE  PageInvariant'
<1>0. /\ LocalOK(p) /\ cache \in [Participants -> Caches] /\ pc \in [Participants -> Phases]
      /\ view \in [Participants -> State \cup {NoView}] /\ todo \in [Participants -> SUBSET Pages]
      /\ Len(log) \in Nat /\ pub.last \in Nat /\ pub.ckpt \in Nat /\ Len(log) <= MaxLsn
  BY PageTypes, Zenon DEF PageInvariant
<1>1. /\ UNCHANGED <<log, pub, os, disk, job, snap, floor, ownPub, acked, durable>>
      /\ pc[p] = "ready" /\ job[p] = "checkpoint" /\ pc'[p] = "freeze"
      /\ todo'[p] = Touched(pub.ckpt, pub.last) /\ cache'[p] = NoCache /\ view'[p] = NoView
  BY <1>0, Zenon DEF Freeze, device
<1>2. /\ view' \in [Participants -> State \cup {NoView}]
      /\ Frame(p)
  BY <1>0, <1>1, Zenon DEF Freeze, Frame
<1>3. Reopened(p)
  BY <1>1, Zenon DEF Reopened
<1>4. Grows(p) /\ PublishedIn'
  BY <1>1, <1>2, <1>3, SharedStanding, Zenon
<1>5. DOMAIN cache'[p] = {}
  BY <1>1, Zenon DEF NoCache
<1>6. Contents'
  <2>1. ASSUME NEW q \in Participants, NEW h \in DOMAIN cache'[q]
        PROVE  Exact(log, cache'[q][h], h) /\ cache'[q][h].lsn <= os[h].lsn
    BY <1>2, <1>5, <2>1, Zenon DEF Frame, PageInvariant, Contents
  <2> QED  BY <1>1, <2>1, Zenon DEF PageInvariant, Contents
<1>7. ViewOK(p)'
  BY <1>0, <1>1, <1>5, Zenon DEF LocalOK, ViewOK, NoView
<1>8. JobOK(p)' /\ TargetOK(p)'
  BY <1>1, Zenon DEF JobOK, TargetOK
<1>9. AppliedOK(p)'
  <2>1. Len(log) = pub.last
    BY <1>1, Zenon DEF CommitInvariant, SectionHeld
  <2>2. \A g \in Pages : Covers(log, os[g], g, Len(log))
    BY <1>3, <2>1, Zenon DEF PageInvariant, PublishedIn
  <2> QED  BY <1>1, <2>2, Zenon DEF AppliedOK
<1> QED  BY <1>1, <1>2, <1>4, <1>6, <1>7, <1>8, <1>9, StepOf, ZenonT(60) DEF LocalOK, PageInvariant

\* A process that dies leaves what it wrote.
LEMMA FailKept ==
    ASSUME CommitInvariant, PageInvariant, NEW p \in Participants, Fail(p)
    PROVE  PageInvariant'
<1>1. /\ UNCHANGED <<log, pub, os, disk, acked, durable>>
      /\ pc'[p] = "closed" /\ job'[p] = "none" /\ snap'[p] = NoSnap
      /\ floor'[p] = [last |-> 0, ckpt |-> 0] /\ view'[p] = NoView /\ cache'[p] = NoCache
      /\ ownPub'[p] = 0 /\ Frame(p)
  BY ZenonT(60) DEF Fail, Forget, device, Frame
<1>2. /\ view' \in [Participants -> State \cup {NoView}]
      /\ ownPub' \in [Participants -> 0 .. MaxLsn]
  BY BoundIsNatural DEF Fail, Forget, PageInvariant
<1>3. ~Reopened(p)'
  BY <1>1, Zenon DEF Reopened
<1>4. Grows(p) /\ PublishedIn'
  BY <1>1, <1>3, SharedStanding, Zenon
<1>5. DOMAIN cache'[p] = {}
  BY <1>1, Zenon DEF NoCache
<1>6. Contents'
  <2>1. ASSUME NEW q \in Participants, NEW h \in DOMAIN cache'[q]
        PROVE  Exact(log, cache'[q][h], h) /\ cache'[q][h].lsn <= os[h].lsn
    BY <1>1, <1>5, <2>1, ZenonT(60) DEF Frame, PageInvariant, Contents
  <2> QED  BY <1>1, <2>1, Zenon DEF PageInvariant, Contents
<1>7. LocalOK(p)'
  <2>1. 0 <= pub.last
    BY PageTypes
  <2> QED  BY <1>1, <1>5, <2>1 DEF LocalOK, JobOK, AppliedOK, TargetOK, ViewOK, Writing, NoView
<1> QED  BY <1>1, <1>2, <1>4, <1>6, <1>7, StepOf, ZenonT(60) DEF PageInvariant

==============================================================================
