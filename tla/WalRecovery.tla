---------------------------- MODULE WalRecovery ----------------------------
(* Recovery of one database directory at the granularity of WAL records: what *)
(* RecoveryManager.run decides from a damaged log, how it preserves and cuts  *)
(* the tail, and what a crash between any two of its steps leaves behind.     *)
(*                                                                            *)
(* One process commits; the interplay of several is CommitProtocol's subject. *)
(* A batch is a number of effects and a COMMIT.  Sizes are counted in records *)
(* and a torn record is shorter than a whole one.  The log is never recycled  *)
(* here and index effects are effects like any other.                         *)
EXTENDS Naturals, Sequences, FiniteSets, FiniteSetsExt, Functions

CONSTANTS
    MayRoll,      \* whether a batch may start a new segment when there is one
    MaxLsn,       \* bound: log sequence numbers
    MaxTxns,      \* bound: transactions
    MaxCrashes,   \* bound: process deaths, power losses, refused releases
    MaxRots,      \* bound: records that decay on the device
    MaxLosses,    \* bound: times both slots of commit.state are lost
    MaxFaults     \* bound: failures of all three kinds together

ASSUME RecoveryAssumption ==
    /\ MayRoll \in BOOLEAN
    /\ {MaxLsn, MaxTxns, MaxCrashes, MaxRots, MaxLosses, MaxFaults} \subseteq Nat

VARIABLES
    \* on the device
    files,        \* numbers of the segment files in the directory
    wal,          \* the records of all segments, in scan order: segment, offset, LSN,
                  \* transaction, kind, state ("ok", "torn", "rot"), forced or not
    unlinked,     \* segments removed since the last barrier: a power loss may bring them back
    pub, pubOk,   \* commit.state, and whether one of its slots can be read
    pages, hard,  \* effects in the data files as read, and as forced
    quarantine,   \* captured byte ranges
    ledger,       \* places of the ledger's discard entries, in order
    \* in memory
    phase,        \* what the process is doing
    plan,         \* what recovery still owes
    txns,         \* transactions begun so far
    \* ghosts
    acked,        \* transactions reported as committed
    dropped,      \* transactions whose records a cut removed
    cut,          \* records a cut removed
    decided,      \* what the first accepted recovery since the database went down decided,
                  \* until it is open, the power fails, a record decays or commit.state is lost
    crashes, rots, losses

device == <<files, wal, unlinked, pub, pubOk, pages, hard, quarantine, ledger>>
ghosts == <<acked, dropped, cut, decided>>
counters == <<crashes, rots, losses>>
MayFail == crashes + rots + losses < MaxFaults
vars == <<device, phase, plan, txns, ghosts, counters>>

-----------------------------------------------------------------------------
(* Segments and records. *)

Lsns == 1 .. MaxLsn
Txns == 1 .. MaxTxns
Numbers == 1 .. 2 * (MaxTxns + MaxCrashes) + 2   \* bound: segment numbers

Effect(r) == [txn |-> r.txn, lsn |-> r.lsn]
Effects == [txn : Txns, lsn : Lsns]

\* What a record says, wherever it lies.
Id(r) == [txn |-> r.txn, lsn |-> r.lsn, kind |-> r.kind]

InSegment(n) == {r \in Range(wal) : r.seg = n}
Without(n) == SelectSeq(wal, LAMBDA r : r.seg # n)
Forced(s) == [i \in DOMAIN s |-> [s[i] EXCEPT !.forced = TRUE]]

\* The next name is derived from the names in the directory; recovery keeps the
\* one it derived when it scanned until the cut is done.
NextNumber == IF files = {} THEN 1 ELSE Max(files) + 1

\* Segments that hold bytes; an empty file is no part of the log.
Registered == {r.seg : r \in Range(wal)}

LastLsn == IF wal = << >> THEN 0 ELSE wal[Len(wal)].lsn

-----------------------------------------------------------------------------
(* The scan and the plan. *)

\* A record the walk accepts: it decodes and continues the sequence.
Intact(i) == wal[i].st = "ok" /\ (i = 1 \/ wal[i].lsn = wal[i - 1].lsn + 1)

GoodLength ==
    CHOOSE n \in 0 .. Len(wal) : /\ \A i \in 1 .. n : Intact(i)
                                 /\ n = Len(wal) \/ ~Intact(n + 1)

Good == {wal[i] : i \in 1 .. GoodLength}
Damaged == GoodLength < Len(wal)
LastGood == IF GoodLength = 0 THEN 0 ELSE wal[GoodLength].lsn

\* A damaged range reaches to the next record that decodes, or to the end of
\* its segment.
RangeStart(i) == wal[i].st # "ok" /\ (i = 1 \/ wal[i - 1].st = "ok" \/ wal[i - 1].seg # wal[i].seg)
RangeEnd(i) ==
    Max({j \in i .. Len(wal) : \A k \in i .. j : wal[k].st # "ok" /\ wal[k].seg = wal[i].seg})

\* The bytes from record i to record j, and where they are.
Item(i, j) ==
    [place |-> [seg |-> wal[i].seg, off |-> wal[i].off, len |-> j - i + 1,
                torn |-> wal[j].st = "torn"],
     body  |-> [k \in 1 .. j - i + 1 |-> [txn |-> wal[i + k - 1].txn, lsn |-> wal[i + k - 1].lsn,
                                          st |-> wal[i + k - 1].st]]]

Above == [k \in 1 .. Len(wal) - GoodLength |-> GoodLength + k]
RangeStarts == SelectSeq(Above, RangeStart)
Discarded == SelectSeq(Above, LAMBDA i : wal[i].st = "ok")

\* What _preserve works through: the damaged ranges, then the intact records
\* above the first damage.
Discards == [k \in DOMAIN RangeStarts |-> Item(RangeStarts[k], RangeEnd(RangeStarts[k]))]
            \o [k \in DOMAIN Discarded |-> Item(Discarded[k], Discarded[k])]

\* What _read_recovery_state returns: a lost state is rebuilt from nothing.
NoState == [last |-> 0, ckpt |-> 0]
ReadState == IF pubOk THEN pub ELSE NoState

Replayable == {r \in Good : r.lsn > ReadState.ckpt}
Committed == {r \in Replayable : r.kind = "commit"}
CommittedTxns == {r.txn : r \in Committed}
LastCommitted == IF Committed = {} THEN 0 ELSE Max({r.lsn : r \in Committed})

\* Mutant: what is under the watermark is taken to be in the data files.
ReplayedAboveLast ==
    {Effect(r) : r \in {x \in Replayable : /\ x.kind = "effect" /\ x.txn \in CommittedTxns
                                          /\ x.lsn > ReadState.last}}

Replayed == {Effect(r) : r \in {x \in Replayable : x.kind = "effect" /\ x.txn \in CommittedTxns}}

\* Mutant: only effects that lost their outcome are looked at, not what lies above the damage.
AmbiguousTailNever == FALSE

\* Mutant: records that are already published count as well.
AmbiguousTailAnyLsn ==
    \E k \in DOMAIN Discarded :
        \/ wal[Discarded[k]].kind = "commit"
        \/ /\ wal[Discarded[k]].kind = "effect"
           /\ \E m \in DOMAIN RangeStarts : RangeStarts[m] > Discarded[k]

\* An intact COMMIT above the damage and above the watermark, or an effect
\* there with more damage behind it, may belong to a batch that was applied.
AmbiguousTail ==
    \E k \in DOMAIN Discarded :
        LET i == Discarded[k]
        IN  /\ wal[i].lsn > ReadState.last
            /\ \/ wal[i].kind = "commit"
               \/ wal[i].kind = "effect" /\ \E m \in DOMAIN RangeStarts : RangeStarts[m] > i

IncompleteEffects == \E r \in Replayable : r.kind = "effect" /\ r.txn \notin CommittedTxns

\* The remaining refusals of _validate_publication_lineage.
LineageUnproved ==
    LET floor == IF pubOk THEN ReadState.ckpt ELSE 0
        needed == ~pubOk \/ ReadState.last > ReadState.ckpt
    IN  \/ LastGood < ReadState.ckpt
        \/ Replayable # {} /\ \A r \in Replayable : r.lsn # floor + 1
        \/ needed /\ Replayable = {}
        \/ ReadState.last > ReadState.ckpt /\ LastCommitted < ReadState.last
        \/ ~pubOk /\ LastCommitted = 0

Refused == AmbiguousTail \/ IncompleteEffects \/ LineageUnproved

NoPlan == [items |-> << >>, redo |-> {}, target |-> 0, state |-> NoState, seg |-> 0,
           next |-> 0]
Target == IF ReadState.last >= LastCommitted THEN ReadState.last ELSE LastCommitted

-----------------------------------------------------------------------------
Init ==
    /\ files = {} /\ wal = << >> /\ unlinked = {}
    /\ pub = NoState /\ pubOk = TRUE
    /\ pages = {} /\ hard = {}
    /\ quarantine = {} /\ ledger = << >>
    /\ phase = "open" /\ plan = NoPlan /\ txns = 0
    /\ acked = {} /\ dropped = {} /\ cut = {} /\ decided = {}
    /\ crashes = 0 /\ rots = 0 /\ losses = 0

-----------------------------------------------------------------------------
(* Commits. *)

\* The records append_many lays down for a batch of n effects.
BatchRecords(n, roll) ==
    LET seg == IF roll THEN NextNumber ELSE Max(Registered)
        off == IF roll THEN 0 ELSE Cardinality(InSegment(seg))
        kinds == (IF roll THEN <<"header">> ELSE << >>)
                 \o [i \in 1 .. n |-> "effect"] \o <<"commit">>
    IN  [i \in DOMAIN kinds |->
            [seg |-> seg, off |-> off + i - 1, lsn |-> LastLsn + i,
             txn |-> IF kinds[i] = "header" THEN 0 ELSE txns + 1, kind |-> kinds[i],
             st |-> "ok", forced |-> FALSE]]

\* A new segment is started when the batch does not fit, and for the first batch.
MustRoll == Registered = {}
CanAppend(n, roll) ==
    /\ phase = "open" /\ txns < MaxTxns
    /\ MustRoll => roll
    /\ roll => MustRoll \/ MayRoll
    /\ LastLsn + Len(BatchRecords(n, roll)) <= MaxLsn

CreateSegment(roll) ==
    /\ files' = IF roll THEN files \cup {NextNumber} ELSE files
    /\ unlinked' = {u \in unlinked : ~roll \/ u.num # NextNumber}

AppendBatch(n, roll) ==
    /\ CanAppend(n, roll)
    /\ CreateSegment(roll)
    /\ wal' = wal \o BatchRecords(n, roll)
    /\ txns' = txns + 1
    /\ phase' = "appended"
    /\ UNCHANGED <<pub, pubOk, pages, hard, quarantine, ledger, plan, acked, dropped, cut, decided,
                   counters>>

\* The first i records of s, and a torn record i + 1.
Torn(s, i) ==
    [k \in 1 .. i + 1 |-> IF k <= i THEN s[k] ELSE [s[k] EXCEPT !.st = "torn"]]

\* What an interrupted write of s can have left, the first from records being safe.
Remains(s, from) ==
    {SubSeq(s, 1, i) : i \in from .. Len(s)} \cup {Torn(s, i) : i \in from .. Len(s) - 1}

\* The process dies in append_log.
DieInAppend(n, roll) ==
    /\ CanAppend(n, roll) /\ crashes < MaxCrashes /\ MayFail
    /\ CreateSegment(roll)
    /\ \E rest \in Remains(BatchRecords(n, roll), 0) : wal' = wal \o rest
    /\ txns' = txns + 1
    /\ crashes' = crashes + 1
    /\ phase' = "down"
    /\ UNCHANGED <<pub, pubOk, pages, hard, quarantine, ledger, plan, acked, dropped, cut,
                   decided, rots, losses>>

BatchEffects == {Effect(r) : r \in {x \in Range(wal) : x.txn = txns /\ x.kind = "effect"}}

\* A WAL barrier forces the directory with the segments.
Barrier ==
    /\ phase = "appended"
    /\ wal' = Forced(wal) /\ unlinked' = {}
    /\ acked' = acked \cup {txns}
    /\ phase' = "apply"
    /\ UNCHANGED <<files, pub, pubOk, pages, hard, quarantine, ledger, plan, txns, dropped, cut,
                   decided, counters>>

ApplyEffect(e) ==
    /\ phase = "apply" /\ e \in BatchEffects \ pages
    /\ pages' = pages \cup {e}
    /\ UNCHANGED <<files, wal, unlinked, pub, pubOk, hard, quarantine, ledger, phase, plan, txns,
                   ghosts, counters>>

PublishCommit ==
    /\ phase = "apply" /\ BatchEffects \subseteq pages
    /\ pub' = [last |-> LastLsn, ckpt |-> pub.ckpt]
    /\ phase' = "open"
    /\ UNCHANGED <<files, wal, unlinked, pubOk, pages, hard, quarantine, ledger, plan, txns,
                   ghosts, counters>>

Checkpoint ==
    /\ phase = "open"
    /\ hard' = pages
    /\ pub' = [last |-> pub.last, ckpt |-> pub.last]
    /\ UNCHANGED <<files, wal, unlinked, pubOk, pages, quarantine, ledger, phase, plan, txns,
                   ghosts, counters>>

-----------------------------------------------------------------------------
(* Failures. *)

Die ==
    /\ phase \notin {"down", "refused", "blocked"} /\ crashes < MaxCrashes /\ MayFail
    /\ crashes' = crashes + 1
    /\ phase' = "down" /\ plan' = NoPlan
    /\ UNCHANGED <<device, txns, ghosts, rots, losses>>

\* What segment n may be after a power loss.
SegmentRemains(n) ==
    LET s == IF n \in Registered THEN SelectSeq(wal, LAMBDA r : r.seg = n)
             ELSE (CHOOSE u \in unlinked : u.num = n).recs
    IN  Remains(s, Cardinality({i \in DOMAIN s : s[i].forced}))

\* Unforced tails are cut anywhere, unforced pages are there or not, and a
\* removed segment whose directory entry was not forced may be back.
PowerLoss ==
    /\ crashes < MaxCrashes /\ MayFail
    /\ crashes' = crashes + 1
    /\ phase' = "down" /\ plan' = NoPlan
    /\ \E back \in SUBSET {u.num : u \in unlinked} :
         LET there == Registered \cup back
         IN  \E left \in [there -> UNION {SegmentRemains(n) : n \in there}] :
                LET upTo[n \in {0} \cup Numbers] ==
                        IF n = 0 THEN << >>
                        ELSE upTo[n - 1] \o IF n \in there THEN left[n] ELSE << >>
                IN  /\ \A n \in there : left[n] \in SegmentRemains(n)
                    /\ wal' = Forced(upTo[Max(Numbers)])
                    /\ files' = files \cup back
    /\ unlinked' = {}
    /\ \E kept \in SUBSET (pages \ hard) : pages' = hard \cup kept /\ hard' = hard \cup kept
    /\ decided' = {}
    /\ UNCHANGED <<pub, pubOk, quarantine, ledger, txns, acked, dropped, cut, rots, losses>>

\* A record decays.  Nothing reads it before the next recovery.
Rot(i) ==
    /\ phase = "down" /\ rots < MaxRots /\ MayFail
    /\ wal[i].st = "ok"
    /\ wal' = [wal EXCEPT ![i].st = "rot"]
    /\ rots' = rots + 1
    /\ decided' = {}
    /\ UNCHANGED <<files, unlinked, pub, pubOk, pages, hard, quarantine, ledger, phase, plan, txns,
                   acked, dropped, cut, crashes, losses>>

LoseState ==
    /\ phase = "down" /\ pubOk /\ losses < MaxLosses /\ MayFail
    /\ pubOk' = FALSE
    /\ losses' = losses + 1
    /\ decided' = {}
    /\ UNCHANGED <<files, wal, unlinked, pub, pages, hard, quarantine, ledger, phase, plan, txns,
                   acked, dropped, cut, crashes, rots>>

-----------------------------------------------------------------------------
(* Recovery. *)

\* Scan and validation: nothing is changed before they agree.  A refusal ends
\* the open; the next open decides anew.
StartRecovery ==
    /\ phase = "down"
    /\ IF Refused
       THEN phase' = "refused" /\ plan' = NoPlan
       ELSE /\ phase' = IF Damaged THEN "capture" ELSE "force"
            /\ plan' = [items |-> IF Damaged THEN Discards ELSE << >>, redo |-> Replayed,
                        target |-> Target, state |-> ReadState, seg |-> 0,
                        next |-> NextNumber]
    /\ decided' = IF Refused \/ decided # {} THEN decided
                  ELSE {[keep |-> {Id(r) : r \in Good}, target |-> Target]}
    /\ UNCHANGED <<device, txns, acked, dropped, cut, counters>>

Retry ==
    /\ phase \in {"refused", "blocked"}
    /\ phase' = "down" /\ plan' = NoPlan
    /\ UNCHANGED <<device, txns, ghosts, counters>>

Held(place) == {q \in quarantine : q.place = place}

\* QuarantineStore.capture of the next item: a copy of the same bytes is
\* recognised, another copy under the same name stops recovery.
Capture ==
    /\ phase = "capture" /\ plan.items # << >>
    /\ LET item == Head(plan.items)
       IN  IF Held(item.place) \subseteq {item}
           THEN quarantine' = quarantine \cup {item} /\ phase' = "record"
           ELSE phase' = "blocked" /\ UNCHANGED quarantine
    /\ UNCHANGED <<files, wal, unlinked, pub, pubOk, pages, hard, ledger, plan, txns, ghosts,
                   counters>>

\* LedgerStore._record_once
Recorded(place) == IF place \in Range(ledger) THEN ledger ELSE Append(ledger, place)

RecordDiscard ==
    /\ phase = "record"
    /\ ledger' = Recorded(Head(plan.items).place)
    /\ plan' = [plan EXCEPT !.items = Tail(@)]
    /\ phase' = "capture"
    /\ UNCHANGED <<files, wal, unlinked, pub, pubOk, pages, hard, quarantine, txns, ghosts, counters>>

\* Mutant: the tail is cut before it is preserved.
PreservedUnchecked == phase = "capture"

Preserved == phase = "capture" /\ plan.items = << >>

StartCut ==
    /\ Preserved
    /\ phase' = "cut"
    /\ UNCHANGED <<device, plan, txns, ghosts, counters>>

\* _find_cut: the segment that holds the last record to keep.
CutSegment == IF GoodLength = 0 THEN 0 ELSE wal[GoodLength].seg

\* Mutant: the segment of the cut goes with the ones above it.
DoomedFromCut == {n \in Registered : n >= CutSegment}

\* Mutant: segments above the cut stay.
DoomedNone == {}

Doomed == {n \in Registered : n > CutSegment}

\* The ledger of what a removal takes from the log for good.
Removes(s) ==
    LET gone == {r \in Range(wal) : ~\E x \in Range(s) : Id(x) = Id(r)}
    IN  /\ wal' = s
        /\ cut' = cut \cup {[seg |-> r.seg, off |-> r.off, txn |-> r.txn, lsn |-> r.lsn] : r \in gone}
        /\ dropped' = dropped \cup ({r.txn : r \in gone} \ {0})

Release(n) ==
    /\ Removes(Without(n))
    /\ files' = files \ {n}
    /\ unlinked' = unlinked \cup {[num |-> n, recs |-> SelectSeq(wal, LAMBDA r : r.seg = n)]}

\* _reserve_empty_segment: a cut that keeps nothing burns a number first.
Burn ==
    /\ phase = "cut" /\ CutSegment = 0 /\ Cardinality(Doomed) = 1 /\ plan.seg = 0
    /\ files' = files \cup {plan.next}
    /\ plan' = [plan EXCEPT !.seg = plan.next]
    /\ unlinked' = {}
    /\ UNCHANGED <<wal, pub, pubOk, pages, hard, quarantine, ledger, phase, txns, acked, dropped,
                   cut, decided, counters>>

\* The segments above the cut go, newest first.
ReleaseNewest ==
    /\ phase = "cut" /\ Doomed # {}
    /\ CutSegment = 0 /\ Cardinality(Doomed) = 1 => plan.seg # 0
    /\ Release(Max(Doomed))
    /\ UNCHANGED <<pub, pubOk, pages, hard, quarantine, ledger, phase, plan, txns, acked, decided,
                   counters>>

\* _roll_cut_segment: the surviving records of the cut segment in a new one.
RollCopy ==
    LET kept == SelectSeq(SubSeq(wal, 1, GoodLength), LAMBDA r : r.seg = CutSegment)
        copy == [i \in DOMAIN kept |-> [kept[i] EXCEPT !.seg = plan.next, !.forced = FALSE]]
    IN  /\ phase = "cut" /\ Doomed = {} /\ Damaged
        /\ wal' = wal \o copy
        /\ files' = files \cup {plan.next}
        /\ plan' = [plan EXCEPT !.seg = CutSegment]
        /\ phase' = "copied"
        /\ unlinked' = {u \in unlinked : u.num # plan.next}
        /\ UNCHANGED <<pub, pubOk, pages, hard, quarantine, ledger, txns, acked, dropped,
                       cut, decided, counters>>

RollFlush ==
    /\ phase = "copied"
    /\ wal' = [i \in DOMAIN wal |-> IF wal[i].seg # wal[Len(wal)].seg THEN wal[i]
                                    ELSE Forced(wal)[i]]
    /\ unlinked' = {}
    /\ phase' = "release"
    /\ UNCHANGED <<files, pub, pubOk, pages, hard, quarantine, ledger, plan, txns, ghosts, counters>>

RollRelease ==
    /\ phase = "release"
    /\ Release(plan.seg)
    /\ phase' = "force"
    /\ UNCHANGED <<pub, pubOk, pages, hard, quarantine, ledger, plan, txns, acked, decided,
                   counters>>

\* The platform does not give up a segment: recovery is refused, to be retried.
DeferCut ==
    /\ (phase = "cut" /\ Doomed # {}) \/ phase = "release"
    /\ crashes < MaxCrashes /\ MayFail /\ crashes' = crashes + 1
    /\ phase' = "down" /\ plan' = NoPlan
    /\ UNCHANGED <<device, txns, ghosts, rots, losses>>

EndCut ==
    /\ phase = "cut" /\ Doomed = {} /\ ~Damaged
    /\ phase' = "force"
    /\ UNCHANGED <<device, plan, txns, ghosts, counters>>

\* Mutant: the scan is taken as proof that the records are on the device.
ForceSkipped ==
    /\ phase = "force"
    /\ phase' = "redo"
    /\ UNCHANGED <<device, plan, txns, ghosts, counters>>

\* force_barrier_range, when anything lies above the checkpoint.
Force ==
    /\ phase = "force"
    /\ IF plan.target > plan.state.ckpt THEN wal' = Forced(wal) /\ unlinked' = {}
       ELSE UNCHANGED <<wal, unlinked>>
    /\ phase' = "redo"
    /\ UNCHANGED <<files, pub, pubOk, pages, hard, quarantine, ledger, plan, txns, ghosts, counters>>

Redo(e) ==
    /\ phase = "redo" /\ e \in plan.redo \ pages
    /\ pages' = pages \cup {e}
    /\ UNCHANGED <<files, wal, unlinked, pub, pubOk, hard, quarantine, ledger, phase, plan, txns,
                   ghosts, counters>>

\* The files are forced before a publication, if one is owed.
FinishRecovery ==
    /\ phase = "redo" /\ plan.redo \subseteq pages
    /\ IF plan.target > plan.state.last \/ ~pubOk
       THEN /\ hard' = hard \cup plan.redo
            /\ pub' = [last |-> plan.target, ckpt |-> plan.state.ckpt]
            /\ pubOk' = TRUE
       ELSE UNCHANGED <<hard, pub, pubOk>>
    /\ phase' = "open" /\ plan' = NoPlan
    /\ decided' = {}
    /\ UNCHANGED <<files, wal, unlinked, pages, quarantine, ledger, txns, acked, dropped, cut,
                   counters>>

-----------------------------------------------------------------------------
Next ==
    \/ \E n \in 1 .. 2, roll \in BOOLEAN : AppendBatch(n, roll) \/ DieInAppend(n, roll)
    \/ Barrier \/ PublishCommit \/ Checkpoint
    \/ \E e \in Effects : ApplyEffect(e) \/ Redo(e)
    \/ Die \/ PowerLoss \/ LoseState
    \/ \E i \in DOMAIN wal : Rot(i)
    \/ StartRecovery \/ Retry
    \/ Capture \/ RecordDiscard \/ StartCut
    \/ Burn \/ ReleaseNewest \/ RollCopy \/ RollFlush \/ RollRelease \/ DeferCut \/ EndCut
    \/ Force \/ FinishRecovery

Spec == Init /\ [][Next]_vars

-----------------------------------------------------------------------------
(* Properties. *)

\* Every effect in the data files of an open database belongs to a transaction
\* whose COMMIT the log holds: there is no undo, so any other row would become
\* visible under a later watermark (_validate_publication_lineage refuses what
\* may have been applied, force_barrier_range comes before redo).
NoGhost ==
    phase = "open" =>
        \A e \in pages : \E r \in Range(wal) : r.kind = "commit" /\ r.txn = e.txn

\* A commit that was reported is never cut out of the log, although one record
\* of it may have decayed and commit.state may be gone: recovery refuses instead.
AckedNeverCut == acked \cap dropped = {}

\* While the database is open every reported commit is in the log, in the data
\* files and under the published watermark, whatever sequence of crashes and
\* half-finished recoveries came before (_redo from the checkpoint, then publish).
AckedServed ==
    phase = "open" =>
        /\ \A t \in acked : \E r \in Range(wal) : r.kind = "commit" /\ r.txn = t
        /\ \A r \in Range(wal) : r.txn \in acked =>
              r.lsn <= pub.last /\ (r.kind = "effect" => Effect(r) \in pages)

\* Every record a cut removed had been copied to the quarantine, whole, and is
\* named by a ledger entry (_preserve before _truncate).
DiscardedPreserved ==
    \A c \in cut : \E q \in quarantine :
        /\ q.place.seg = c.seg /\ c.off \in q.place.off .. q.place.off + q.place.len - 1
        /\ q.body[c.off - q.place.off + 1].txn = c.txn
        /\ q.body[c.off - q.place.off + 1].lsn = c.lsn
        /\ q.place \in Range(ledger)

\* Whatever number of passes it takes, as long as only processes die or releases are
\* refused, recovery ends with the log and the watermark its first pass decided on:
\* each record of the good prefix once, nothing else, and the same target.  A pass
\* that meets a doomed segment gone, a copy without its original's release or a
\* burnt number must come to the same cut (run, truncate_after).
RerunConverges ==
    phase = "redo" =>
        \A d \in decided :
            /\ {Id(r) : r \in Range(wal)} = d.keep /\ Len(wal) = Cardinality(d.keep)
            /\ plan.target = d.target

\* A finished recovery leaves a log every later scan accepts whole: no damage,
\* no record twice, no gap, also when it completes a cut that was interrupted
\* between the copy of a segment and its release (_roll_cut_segment).
RecoveredLogIsClean == phase \in {"open", "force", "redo"} => ~Damaged

\* The watermark never goes back, not even when commit.state is rebuilt from
\* the log (_redo publishes the larger of the two).
PublishedNeverLowered == [][pub'.last >= pub.last]_pub

\* A recovery that was accepted, and whose process then died or was denied a
\* release at any of its steps, is accepted again as long as commit.state can be
\* read: the duplicates of a half-finished cut are known to be published
\* (_validate_publication_lineage).  A power loss, a decayed record or a lost
\* commit.state in between may change what the next pass finds.
InterruptedIsRerun == phase = "refused" /\ pubOk => decided = {}

-----------------------------------------------------------------------------
(* What the documentation says, and the code does not do. *)

\* engine/wal_manager.py: an interruption at any point of a cut leaves a valid log
\* that a re-run finishes off.
InterruptedCutIsRerun == phase = "refused" => decided = {}

=============================================================================
