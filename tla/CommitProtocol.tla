--------------------------- MODULE CommitProtocol ---------------------------
(* The commit, checkpoint and reopen protocols of TransactionManager over one *)
(* write-ahead log, one commit.state and the data pages, run by several       *)
(* participants (processes) on one directory.                                 *)
(*                                                                            *)
(* A commit batch is one entry of the log, numbered by the LSN of its COMMIT. *)
(* A page is its page LSN and the set of commits its bytes incorporate, so a  *)
(* page written from a stale base shows as a commit that is missing.          *)
(*                                                                            *)
(* commit.state is replaced atomically and durably (ControlRecord does that). *)
(* The writer lease (WriterLease) is left out: all it does here is refuse an  *)
(* operation, before COMMIT_SECTION is entered, in it before the append, or   *)
(* between two phases of a checkpoint, and every operation below may be       *)
(* refused at those points.  The properties hold whoever has the lease.       *)
EXTENDS Naturals, Sequences

CONSTANTS
    Participants,
    NoOwner,
    Keys,            \* partitions a transaction reads and writes
    Pages,
    PageOf,          \* PageOf[k]: the page the rows of partition k land on
    Workload,        \* Workload[n]: what callers may have as commit n, the partitions
                     \* a transaction writes and those it reads
    MaxLsn,          \* bound: commits
    MaxFailures,     \* bound: processes that die or latch recovery_required
    MaxOutages,      \* bound: power losses
    MaxCheckpoints,  \* bound: checkpoints started
    MaxLoad          \* bound: all of them together, where a checkpoint counts one
                     \* and anything else two

ASSUME CommitAssumption ==
    /\ NoOwner \notin Participants
    /\ PageOf \in [Keys -> Pages]
    /\ Workload \in [1 .. MaxLsn ->
                      SUBSET [writes : (SUBSET Keys) \ {{}}, reads : SUBSET Keys]]
    /\ {MaxLsn, MaxFailures, MaxOutages, MaxCheckpoints, MaxLoad} \subseteq Nat

VARIABLES
    \* on the device
    log,             \* log[n]: commit batch n
    first,           \* lowest retained LSN
    durable,         \* newest LSN a WAL barrier covers
    pub,             \* commit.state
    os,              \* os[g]: page g as any process reads it
    disk,            \* disk[g]: page g as a power loss would leave it
    pin,             \* pin[p]: published reader registration, or NoPin
    section,         \* who is inside COMMIT_SECTION
    \* in the memory of each participant
    pc, job, todo,   \* the operation under way and the pages it still owes
    snap,            \* snap[p]: read LSN of the open transaction, or NoSnap
    floor,           \* floor[p]: the state begin read first; the checkpoint target
    regPin,          \* regPin[p]: the pin its ReaderRegistration holds, or NoPin
    view, cache,     \* read-view token and resident pages of the buffer pool
    ownPub,          \* _own_published_lsn, 0 for None
    \* ghosts
    acked,           \* commits reported to a caller as durable
    lapsed,          \* participants whose standing registration was pruned
    failures, outages, checkpoints

device == <<log, first, durable, pub, os, disk, pin>>
memory == <<snap, floor, regPin, view, cache, ownPub>>
counters == <<lapsed, failures, outages, checkpoints>>
vars == <<device, section, pc, job, todo, memory, acked, counters>>

-----------------------------------------------------------------------------
(* Pages, batches and tokens. *)

Lsns == 1 .. MaxLsn
Within(more) == 2 * (Len(log) + failures + outages) + checkpoints + more <= MaxLoad
NoPin == MaxLsn + 1
NoSnap == MaxLsn + 1
Page == [lsn : 0 .. MaxLsn, has : SUBSET Lsns]
State == [last : 0 .. MaxLsn, ckpt : 0 .. MaxLsn]

NoPage == [lsn |-> 0, has |-> {}]
NoView == [last |-> 0, ckpt |-> 1]

Batch == [snap : 0 .. MaxLsn, writes : SUBSET Keys, interest : SUBSET Keys,
          img : UNION {[S -> Page] : S \in SUBSET Pages}]

PagesOf(ks) == {PageOf[k] : k \in ks}

Touched(from, to) == UNION {DOMAIN log[n].img : n \in {m \in Lsns : from < m /\ m <= to}}

\* The commits through n that wrote page g.
WritersOf(g, n) == {m \in 1 .. Len(log) : m <= n /\ g \in DOMAIN log[m].img}

\* The newest image of page g in the log: what a coalesced redo installs.
NewestImage(g) ==
    LET n == CHOOSE m \in WritersOf(g, Len(log)) : \A k \in WritersOf(g, Len(log)) : k <= m
    IN  log[n].img[g]

\* What pinning page g in p's pool returns.
Pinned(p, c, g) == IF g \in DOMAIN c THEN c[g] ELSE os[g]

Keep(c, gs) == [g \in DOMAIN c \cap gs |-> c[g]]
NoCache == [g \in {} |-> NoPage]

-----------------------------------------------------------------------------
(* Read views. *)

\* Mutant: own pages are kept whatever happened to the checkpoint or the token.
RefreshedIgnoringToken(p, s) == cache[p]

\* _establish_read_view: keep everything for the token in force or for the own
\* publication under the same checkpoint, drop the pages a retained interval of
\* the log names, or drop everything.
Refreshed(p, s) ==
    LET own == ownPub[p] = s.last /\ s.last > 0 /\ view[p] # NoView /\ view[p].ckpt = s.ckpt
        provable == /\ view[p] # NoView
                    /\ view[p].ckpt = s.ckpt
                    /\ s.last > view[p].last
                    /\ first <= view[p].last + 1
    IN  IF view[p] = s \/ own THEN cache[p]
        ELSE IF provable THEN Keep(cache[p], Pages \ Touched(view[p].last, s.last))
        ELSE NoCache

OwnAfter(p, s) ==
    IF ownPub[p] = s.last /\ view[p] # NoView /\ view[p].ckpt = s.ckpt THEN ownPub[p] ELSE 0

-----------------------------------------------------------------------------
Init ==
    /\ log = << >>
    /\ first = 1
    /\ durable = 0
    /\ pub = [last |-> 0, ckpt |-> 0]
    /\ os = [g \in Pages |-> NoPage]
    /\ disk = [g \in Pages |-> NoPage]
    /\ pin = [p \in Participants |-> NoPin]
    /\ section = NoOwner
    /\ pc = [p \in Participants |-> "idle"]
    /\ job = [p \in Participants |-> "none"]
    /\ todo = [p \in Participants |-> {}]
    /\ snap = [p \in Participants |-> NoSnap]
    /\ floor = [p \in Participants |-> pub]
    /\ regPin = [p \in Participants |-> NoPin]
    /\ view = [p \in Participants |-> NoView]
    /\ cache = [p \in Participants |-> NoCache]
    /\ ownPub = [p \in Participants |-> 0]
    /\ acked = {}
    /\ lapsed = {}
    /\ failures = 0
    /\ outages = 0
    /\ checkpoints = 0

-----------------------------------------------------------------------------
(* begin, rollback and page reads. *)

Larger(a, b) == IF a >= b THEN a ELSE b

\* _begin_in_section reads the published state before it touches the pin.
BeginFloor(p) ==
    /\ pc[p] = "idle" /\ job[p] = "none" /\ snap[p] = NoSnap
    /\ pc' = [pc EXCEPT ![p] = "begin"]
    /\ floor' = [floor EXCEPT ![p] = pub]
    /\ UNCHANGED <<device, section, job, todo, snap, regPin, view, cache,
                   ownPub, acked, counters>>

\* Mutant: the snapshot is handed out over whatever the pool holds.
BeginViewUnrefreshed(p, s) ==
    /\ view' = [view EXCEPT ![p] = s]
    /\ UNCHANGED <<cache, ownPub>>

BeginView(p, s) ==
    /\ view' = [view EXCEPT ![p] = s]
    /\ cache' = [cache EXCEPT ![p] = Refreshed(p, s)]
    /\ ownPub' = [ownPub EXCEPT ![p] = OwnAfter(p, s)]

\* The rest of begin.  A first registration and a due refresh publish a pin and
\* read the published state again; a standing pin keeps the first reading.
Begin(p, due) ==
    LET fresh == regPin[p] = NoPin
        moved == IF fresh THEN floor[p].last ELSE Larger(regPin[p], floor[p].last)
        s == IF fresh \/ due THEN pub ELSE floor[p]
    IN  /\ pc[p] = "begin"
        /\ pc' = [pc EXCEPT ![p] = "idle"]
        /\ IF fresh \/ due
           THEN /\ pin' = [pin EXCEPT ![p] = moved]
                /\ regPin' = [regPin EXCEPT ![p] = moved]
                /\ lapsed' = lapsed \ {p}
           ELSE UNCHANGED <<pin, regPin, lapsed>>
        /\ BeginView(p, s)
        /\ snap' = [snap EXCEPT ![p] = s.last]
        /\ floor' = [floor EXCEPT ![p] = [last |-> 0, ckpt |-> 0]]
        /\ UNCHANGED <<log, first, durable, pub, os, disk, section, job, todo,
                       acked, failures, outages, checkpoints>>

Rollback(p) ==
    /\ pc[p] = "idle" /\ job[p] = "none" /\ snap[p] # NoSnap
    /\ snap' = [snap EXCEPT ![p] = NoSnap]
    /\ UNCHANGED <<device, section, pc, job, todo, floor, regPin, view,
                   cache, ownPub, acked, counters>>

\* A read of a page that is not resident.
LoadPage(p, g) ==
    /\ pc[p] = "idle" /\ snap[p] # NoSnap
    /\ g \notin DOMAIN cache[p]
    /\ cache' = [cache EXCEPT ![p] = [h \in DOMAIN @ \cup {g} |-> Pinned(p, @, h)]]
    /\ UNCHANGED <<device, section, pc, job, todo, snap, floor, regPin,
                   view, ownPub, acked, counters>>

-----------------------------------------------------------------------------
(* COMMIT_SECTION around every operation that writes. *)

\* _complete_committed_gap finds a COMMIT above the published watermark.
GapOpen == Len(log) > pub.last

EnterSection(p, j) ==
    /\ pc[p] = "idle" /\ section = NoOwner
    /\ section' = p
    /\ job' = [job EXCEPT ![p] = j]
    /\ pc' = [pc EXCEPT ![p] = IF GapOpen THEN "gap" ELSE "ready"]
    /\ UNCHANGED <<device, todo, memory, acked, lapsed, failures, outages>>

LeaveSection(p) ==
    /\ section' = NoOwner
    /\ pc' = [pc EXCEPT ![p] = "idle"]
    /\ job' = [job EXCEPT ![p] = "none"]

StartCommit(p) ==
    /\ job[p] = "none" /\ snap[p] # NoSnap
    /\ EnterSection(p, "commit")
    /\ UNCHANGED checkpoints

StartCheckpoint(p) ==
    /\ job[p] = "none" /\ checkpoints < MaxCheckpoints /\ Within(1)
    /\ EnterSection(p, "checkpoint")
    /\ checkpoints' = checkpoints + 1

StartFinish(p) ==
    /\ job[p] = "finish"
    /\ EnterSection(p, "finish")
    /\ UNCHANGED checkpoints

\* No fresh lease could be had: the checkpoint is given up unpublished.
GiveUpFinish(p) ==
    /\ pc[p] = "idle" /\ job[p] = "finish"
    /\ job' = [job EXCEPT ![p] = "none"]
    /\ floor' = [floor EXCEPT ![p] = [last |-> 0, ckpt |-> 0]]
    /\ UNCHANGED <<device, section, pc, todo, snap, regPin, view, cache, ownPub, acked, counters>>

-----------------------------------------------------------------------------
(* Completing commits that are in the log and not yet published. *)

\* Mutant: redo starts above the published watermark instead of the checkpoint.
RedoFloorAtLast == pub.last

RedoFloor == pub.ckpt

\* Mutant: redo relies on whoever appended the tail to have forced it.
ForceTailTrusting(p) ==
    /\ pc[p] = "gap"
    /\ todo' = [todo EXCEPT ![p] = Touched(RedoFloor, Len(log))]
    /\ pc' = [pc EXCEPT ![p] = "redo"]
    /\ UNCHANGED <<device, section, job, memory, acked, counters>>

\* force_barrier_range, before redo may move a page.
ForceTail(p) ==
    /\ pc[p] = "gap"
    /\ durable' = Len(log)
    /\ todo' = [todo EXCEPT ![p] = Touched(RedoFloor, Len(log))]
    /\ pc' = [pc EXCEPT ![p] = "redo"]
    /\ UNCHANGED <<log, first, pub, os, disk, pin, section, job, memory, acked,
                   counters>>

\* apply_page_image through p's pool, then the flush of that page: the image is
\* installed unless the resident page is as new.
WritePage(p, g) ==
    LET img == NewestImage(g)
        base == Pinned(p, cache[p], g)
    IN  /\ pc[p] \in {"redo", "apply", "freeze"} /\ g \in todo[p]
        /\ todo' = [todo EXCEPT ![p] = @ \ {g}]
        /\ os' = IF base.lsn < img.lsn THEN [os EXCEPT ![g] = img] ELSE os
        /\ cache' = [cache EXCEPT ![p] =
                        [h \in DOMAIN @ \cup {g} |->
                            IF h # g THEN @[h] ELSE IF base.lsn < img.lsn THEN img ELSE base]]
        /\ UNCHANGED <<log, first, durable, pub, disk, pin, section, pc, job,
                       snap, floor, regPin, view, ownPub, acked, counters>>

PublishGap(p) ==
    /\ pc[p] = "redo" /\ todo[p] = {} /\ job[p] # "recover"
    /\ pub' = [last |-> Len(log), ckpt |-> pub.ckpt]
    /\ ownPub' = [ownPub EXCEPT ![p] = 0]
    /\ pc' = [pc EXCEPT ![p] = "ready"]
    /\ UNCHANGED <<log, first, durable, os, disk, pin, section, job, todo, snap,
                   floor, regPin, view, cache, acked, counters>>

-----------------------------------------------------------------------------
(* Commit. *)

\* Mutant: a log with a hole below the snapshot is searched all the same.
RetentionLostIgnored(s) == FALSE

\* _require_log_retains_from(snapshot + 1)
RetentionLost(s) == first > s + 1 /\ Len(log) >= s + 1

\* _find_conflict over the retained commits above the snapshot
Conflicts(s, interest) ==
    \E n \in first .. Len(log) : n > s /\ interest \cap log[n].writes # {}

\* The read view moves to the published state, the transaction is validated
\* against the retained log, its rows are written from the current pages and the
\* batch is appended.  Until the append nothing leaves the memory of p.
AppendBatch(p, t) ==
    LET n == Len(log) + 1
        c == Refreshed(p, pub)
        interest == t.writes \cup t.reads
        image(g) == [lsn |-> n, has |-> Pinned(p, c, g).has \cup {n}]
    IN  /\ pc[p] = "ready" /\ job[p] = "commit"
        /\ ~RetentionLost(snap[p])
        /\ ~Conflicts(snap[p], interest)
        /\ log' = Append(log, [snap |-> snap[p], writes |-> t.writes, interest |-> interest,
                               img |-> [g \in PagesOf(t.writes) |-> image(g)]])
        /\ view' = [view EXCEPT ![p] = pub]
        /\ ownPub' = [ownPub EXCEPT ![p] = OwnAfter(p, pub)]
        /\ cache' = [cache EXCEPT ![p] = [g \in DOMAIN c \cup PagesOf(t.writes) |->
                                            Pinned(p, c, g)]]
        /\ pc' = [pc EXCEPT ![p] = "appended"]
        /\ UNCHANGED <<first, durable, pub, os, disk, pin, section, job, todo, snap, floor,
                       regPin, acked, counters>>

\* A conflict, a hole in the log, a lost lease or an error before the append:
\* the transaction stays open for its caller to roll back.
RefuseCommit(p) ==
    /\ pc[p] = "ready" /\ job[p] = "commit"
    /\ BeginView(p, pub)
    /\ LeaveSection(p)
    /\ UNCHANGED <<device, todo, snap, floor, regPin, acked, counters>>

\* Mutant: the outcome is settled before the log is forced.
BarrierSkipped(p) ==
    /\ pc[p] = "appended"
    /\ acked' = acked \cup {Len(log)}
    /\ todo' = [todo EXCEPT ![p] = DOMAIN log[Len(log)].img]
    /\ pc' = [pc EXCEPT ![p] = "apply"]
    /\ UNCHANGED <<device, section, job, memory, counters>>

\* The barrier settles the outcome: from here on every exit reports a commit.
Barrier(p) ==
    /\ pc[p] = "appended"
    /\ durable' = Len(log)
    /\ acked' = acked \cup {Len(log)}
    /\ todo' = [todo EXCEPT ![p] = DOMAIN log[Len(log)].img]
    /\ pc' = [pc EXCEPT ![p] = "apply"]
    /\ UNCHANGED <<log, first, pub, os, disk, pin, section, job, memory,
                   counters>>

\* Applying failed with a typed error: _recover_post_barrier redoes the batch.
RecoverPostBarrier(p) ==
    /\ pc[p] = "apply"
    /\ todo' = [todo EXCEPT ![p] = Touched(pub.last, Len(log))]
    /\ UNCHANGED <<device, section, pc, job, memory, acked, counters>>

PublishCommit(p) ==
    /\ pc[p] = "apply" /\ todo[p] = {}
    /\ pub' = [last |-> Len(log), ckpt |-> pub.ckpt]
    /\ ownPub' = [ownPub EXCEPT ![p] = Len(log)]
    /\ snap' = [snap EXCEPT ![p] = NoSnap]
    /\ LeaveSection(p)
    /\ UNCHANGED <<log, first, durable, os, disk, pin, todo, floor, regPin, view, cache, acked,
                   counters>>

-----------------------------------------------------------------------------
(* Checkpoint: freeze a target in the section, force the pages outside it,    *)
(* publish the target in the section again; or all of it in one section.      *)

\* begin_read_view with a bare number, then redo through the published commit.
Freeze(p) ==
    /\ pc[p] = "ready" /\ job[p] = "checkpoint"
    /\ view' = [view EXCEPT ![p] = NoView]
    /\ cache' = [cache EXCEPT ![p] = NoCache]
    /\ todo' = [todo EXCEPT ![p] = Touched(pub.ckpt, pub.last)]
    /\ pc' = [pc EXCEPT ![p] = "freeze"]
    /\ UNCHANGED <<device, section, job, snap, floor, regPin, ownPub, acked,
                   counters>>

\* End of phase A, only without an open transaction: lease and section are given up.
EndFreeze(p) ==
    /\ pc[p] = "freeze" /\ todo[p] = {} /\ snap[p] = NoSnap
    /\ floor' = [floor EXCEPT ![p] = pub]
    /\ todo' = [todo EXCEPT ![p] = Pages]
    /\ pc' = [pc EXCEPT ![p] = "sync"]
    /\ section' = NoOwner
    /\ UNCHANGED <<device, job, snap, regPin, view, cache, ownPub, acked, counters>>

\* Phase B: one durability barrier per file.
SyncPage(p, g) ==
    /\ pc[p] = "sync" /\ g \in todo[p]
    /\ disk' = [disk EXCEPT ![g] = os[g]]
    /\ todo' = [todo EXCEPT ![p] = @ \ {g}]
    /\ pc' = [pc EXCEPT ![p] = IF todo[p] = {g} THEN "idle" ELSE "sync"]
    /\ job' = [job EXCEPT ![p] = IF todo[p] = {g} THEN "finish" ELSE "checkpoint"]
    /\ UNCHANGED <<log, first, durable, pub, os, pin, section, memory, acked,
                   counters>>

Lowest(S) == CHOOSE x \in S : \A y \in S : x <= y

\* Mutant: segments are freed up to the checkpoint whatever is pinned.
HorizonIgnoringPins(pins, ckpt) == ckpt

\* recyclable_horizon
Horizon(pins, ckpt) == Lowest({ckpt} \cup {pins[q] : q \in Participants})

\* Publication of the checkpoint, the own pin, and recycling.  Registrations in
\* pruned are found stalled; whole segments below the horizon go, so the cut is
\* anywhere up to it.
PublishCheckpoint(p, ckpt, pruned, cut) ==
    LET own == IF regPin[p] = NoPin THEN NoPin
               ELSE Larger(regPin[p], IF snap[p] # NoSnap THEN snap[p] ELSE ckpt)
        pins == [q \in Participants |-> IF q = p THEN IF own = NoPin THEN pin[p] ELSE own
                                        ELSE IF q \in pruned THEN NoPin ELSE pin[q]]
    IN  /\ pub' = [last |-> pub.last, ckpt |-> ckpt]
        /\ pin' = pins
        /\ lapsed' = lapsed \cup {q \in pruned : pin[q] # NoPin}
        /\ regPin' = [regPin EXCEPT ![p] = own]
        /\ cut <= Larger(first, Horizon(pins, ckpt))
        /\ first' = cut
        /\ ownPub' = [ownPub EXCEPT ![p] = 0]
        /\ LeaveSection(p)
        /\ UNCHANGED <<log, durable, os, todo, snap, acked, failures, outages, checkpoints>>

\* Mutant: phase C publishes its own target over a newer checkpoint.
CheckpointOfTarget(p) == floor[p].last

CheckpointTarget(p) == Larger(pub.ckpt, floor[p].last)

\* Phase C.
FinishCheckpoint(p, pruned, cut) ==
    /\ pc[p] = "ready" /\ job[p] = "finish"
    /\ pub.last >= floor[p].last /\ pub.ckpt >= floor[p].ckpt
    /\ PublishCheckpoint(p, CheckpointTarget(p), pruned, cut)
    /\ view' = [view EXCEPT ![p] = pub]
    /\ cache' = [cache EXCEPT ![p] = NoCache]
    /\ floor' = [floor EXCEPT ![p] = [last |-> 0, ckpt |-> 0]]
    /\ UNCHANGED disk

\* _checkpoint_in_section: the pages are forced without leaving the section.
CheckpointInSection(p, pruned, cut) ==
    /\ pc[p] = "freeze" /\ todo[p] = {}
    /\ PublishCheckpoint(p, pub.last, pruned, cut)
    /\ disk' = os
    /\ UNCHANGED <<view, cache, floor>>

-----------------------------------------------------------------------------
(* Failures and reopening. *)

Forget(ps) ==
    /\ pc' = [p \in Participants |-> IF p \in ps THEN "closed" ELSE pc[p]]
    /\ job' = [p \in Participants |-> IF p \in ps THEN "none" ELSE job[p]]
    /\ todo' = [p \in Participants |-> IF p \in ps THEN {} ELSE todo[p]]
    /\ snap' = [p \in Participants |-> IF p \in ps THEN NoSnap ELSE snap[p]]
    /\ floor' = [p \in Participants |-> IF p \in ps THEN [last |-> 0, ckpt |-> 0] ELSE floor[p]]
    /\ regPin' = [p \in Participants |-> IF p \in ps THEN NoPin ELSE regPin[p]]
    /\ view' = [p \in Participants |-> IF p \in ps THEN NoView ELSE view[p]]
    /\ cache' = [p \in Participants |-> IF p \in ps THEN NoCache ELSE cache[p]]
    /\ ownPub' = [p \in Participants |-> IF p \in ps THEN 0 ELSE ownPub[p]]
    /\ section' = IF section \in ps THEN NoOwner ELSE section

\* The process dies, or an error latches recovery_required and the handle is
\* closed.  What it wrote stays in the page cache, its pin stays registered.
Fail(p) ==
    /\ pc[p] # "closed" /\ failures < MaxFailures /\ Within(2)
    /\ failures' = failures + 1
    /\ Forget({p})
    /\ UNCHANGED <<device, acked, lapsed, outages, checkpoints>>

\* What a page may be after a power loss: the forced content or any image that
\* was written since.
Survivors(g) ==
    {disk[g]} \cup {log[m].img[g] : m \in {n \in WritersOf(g, Len(log)) :
                                              disk[g].lsn < n /\ n <= os[g].lsn}}

PowerLoss ==
    /\ outages < MaxOutages /\ Within(2)
    /\ outages' = outages + 1
    /\ Forget(Participants)
    /\ \E n \in durable .. Len(log) : log' = SubSeq(log, 1, n) /\ durable' = n
    /\ \E after \in [Pages -> UNION {Survivors(g) : g \in Pages}] :
          /\ \A g \in Pages : after[g] \in Survivors(g)
          /\ os' = after
          /\ disk' = after
    /\ UNCHANGED <<first, pub, pin, acked, lapsed, failures, checkpoints>>

\* RecoveryManager.run on open: no lease, the same section, every commit above
\* the checkpoint again.
EnterRecovery(p) ==
    /\ pc[p] = "closed" /\ section = NoOwner
    /\ section' = p
    /\ job' = [job EXCEPT ![p] = "recover"]
    /\ pc' = [pc EXCEPT ![p] = "gap"]
    /\ UNCHANGED <<device, todo, memory, acked, counters>>

\* A publication, if one is owed, only after the replayed files are forced.
FinishRecovery(p) ==
    /\ pc[p] = "redo" /\ todo[p] = {} /\ job[p] = "recover"
    /\ IF GapOpen
       THEN /\ disk' = [g \in Pages |-> IF g \in Touched(pub.ckpt, Len(log)) THEN os[g]
                                        ELSE disk[g]]
            /\ pub' = [last |-> Len(log), ckpt |-> pub.ckpt]
       ELSE UNCHANGED <<disk, pub>>
    /\ LeaveSection(p)
    /\ UNCHANGED <<log, first, durable, os, pin, todo, memory, acked, counters>>

-----------------------------------------------------------------------------
Next ==
    \/ \E p \in Participants :
        \/ BeginFloor(p)
        \/ \E due \in BOOLEAN : Begin(p, due)
        \/ Rollback(p)
        \/ \E g \in Pages : LoadPage(p, g) \/ WritePage(p, g) \/ SyncPage(p, g)
        \/ StartCommit(p) \/ StartCheckpoint(p) \/ StartFinish(p) \/ GiveUpFinish(p)
        \/ Len(log) < MaxLsn /\ Within(2) /\ \E t \in Workload[Len(log) + 1] : AppendBatch(p, t)
        \/ ForceTail(p) \/ PublishGap(p)
        \/ RefuseCommit(p) \/ Barrier(p) \/ RecoverPostBarrier(p) \/ PublishCommit(p)
        \/ Freeze(p) \/ EndFreeze(p)
        \/ \E pruned \in SUBSET (Participants \ {p}), cut \in first .. MaxLsn :
              FinishCheckpoint(p, pruned, cut) \/ CheckpointInSection(p, pruned, cut)
        \/ Fail(p) \/ EnterRecovery(p) \/ FinishRecovery(p)
    \/ PowerLoss

Spec == Init /\ [][Next]_vars

-----------------------------------------------------------------------------
(* Properties. *)

\* A commit never overlaps, in what it read or wrote, a commit between its
\* snapshot and itself: also when the commits in between were recycled from the
\* log before it was validated (_find_conflict, _require_log_retains_from).
FirstCommitterWins ==
    \A n \in 1 .. Len(log) : \A m \in 1 .. n - 1 :
        m > log[n].snap => log[m].writes \cap log[n].interest = {}

\* Every page image in the log was built over all earlier commits to that page:
\* no commit is lost to a stale cached page, an unpublished predecessor or a
\* lease that changed hands (_commit_with_writing materialises from the current
\* view inside COMMIT_SECTION).
NoLostUpdate ==
    \A n \in 1 .. Len(log) : \A g \in DOMAIN log[n].img : log[n].img[g].has = WritersOf(g, n)

\* A page is written only from a batch a WAL barrier covers, whoever writes it
\* (commit, gap completion, post-barrier redo, recovery).
WriteAhead == \A g \in Pages : os[g].lsn <= durable

Reopened(p) == pc[p] # "closed" /\ job[p] # "recover"

\* As soon as some participant is past recovery, every published commit is in
\* the pages any process reads: nobody can take a snapshot of a commit whose
\* pages are still missing (apply before publish; recovery redoes from the
\* checkpoint, not from the watermark).
PublishedApplied ==
    (\E p \in Participants : Reopened(p)) =>
        \A g \in Pages : WritersOf(g, pub.last) \subseteq os[g].has

\* A resident page of a participant with an open transaction holds every commit
\* its snapshot covers, however the page came to be kept: own publication,
\* unchanged token, page not named by the log interval (_establish_read_view).
SnapshotComplete ==
    \A p \in Participants : pc[p] = "idle" /\ snap[p] # NoSnap =>
        \A g \in DOMAIN cache[p] : WritersOf(g, snap[p]) \subseteq cache[p][g].has

\* A commit that was reported survives any power loss: it is in the forced page
\* or in the forced, retained part of the log that recovery replays.
AckedRecoverable ==
    \A n \in acked : /\ n <= durable
                     /\ \A g \in DOMAIN log[n].img :
                            n \in disk[g].has \/ (n > pub.ckpt /\ n >= first)

\* A transaction keeps the log above its snapshot, so it is never refused for a
\* hole in the log, as long as no checkpoint took its participant for dead: begin
\* pins before it takes a snapshot, and a pin only moves to an open snapshot or to
\* a published state.  A registration that was pruned and published again does not
\* bring the log back; then FirstCommitterWins rests on the refusal.
PinKeepsLog ==
    \A p \in Participants : snap[p] # NoSnap /\ p \notin lapsed => ~RetentionLost(snap[p])

\* commit.state never moves back, neither the watermark nor the checkpoint, with
\* two checkpoints overlapping and across failures.
NeverRetreats == [][pub'.last >= pub.last /\ pub'.ckpt >= pub.ckpt]_pub

Store == INSTANCE SnapshotStore WITH
    hist <- [n \in 1 .. durable |-> [snap |-> log[n].snap, writes |-> log[n].writes,
                                     interest |-> log[n].interest]],
    visible <- pub.last,
    told <- acked

\* The protocol implements the store: one growing history under first committer
\* wins, visible in prefixes, and no outcome that was reported is taken back.
ImplementsStore == Store!StoreSpec

=============================================================================
