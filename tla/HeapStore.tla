------------------------------ MODULE HeapStore ------------------------------
(***************************************************************************)
(* The heap file of one table under commits, refusals, deaths and vacuum:  *)
(* engine/heap_store.py with the parts of engine/txn_manager.py that drive *)
(* it.  Page 0 is the directory; the data pages of the table form a chain  *)
(* of next_page links; a version too large for a page keeps its payload on *)
(* an overflow page.                                                       *)
(*                                                                         *)
(* mem is what the pool of the participant in the commit section answers,  *)
(* disk what the device holds.  They differ only while a participant is in *)
(* the section: a dirty page reaches the device when a pin evicts it       *)
(* (Evict), when the commit flushes it (FlushPage) or when the undo writes *)
(* it back.  A reader of another process reads the device at any time.     *)
(***************************************************************************)
EXTENDS Integers, Sequences, SequencesExt, FiniteSets, FiniteSetsExt

CONSTANTS
    Participants,   \* the processes that commit, each with its identity lease
    MaxPage,        \* highest page of the file
    PageSlots,      \* live versions a data page holds
    MaxId,          \* highest record identity
    Named,          \* identities a caller may name
    LeaseSize,      \* identity_lease_size
    MaxCsn, MaxAttempts, MaxOps, MaxOpen,
    MaxDeaths, MaxFaults,   \* deaths; deaths and early write-backs together
    Big             \* payload sizes the writers use: TRUE needs an overflow page

VARIABLES
    disk, mem,      \* page images, page 0 included
    grown,          \* pages the device has been asked for
    last,           \* last_committed_lsn
    phase,          \* idle, work, flush or undo
    who,            \* the participant in the commit section
    txn,            \* the attempt: its identity, its rows, how it is undone
    step,           \* the row being placed
    written,        \* pages the attempt changed that reached the device early
    todo,           \* pages still to flush or to take back
    lease,          \* per participant, the identities [next, stop) it may hand out
    open,           \* read_lsn of the open transactions
    hist,           \* what each commit left in the table (history variable)
    torn,           \* an attempt ended with part of its pages on the device
    attempts, deaths, faults

store == <<disk, mem, grown>>
section == <<phase, who, txn, step, written, todo>>
bounds == <<attempts, deaths, faults>>
vars == <<store, section, last, lease, open, hist, torn, bounds>>

Pages == 1..MaxPage
Ids == 1..MaxId
NO_CSN == 0
PROVISIONAL_CSN == MaxCsn + 1
NO_PAGE == 0
NoRef == <<NO_PAGE, 0>>
Idle == [on |-> FALSE]
Nobody == "nobody"
NoLease == [next |-> 0, stop |-> 0]
NoTxn == [ident |-> 0, rows |-> <<>>, back |-> FALSE]

------------------------------------------------------------------------------
(* Stamps, versions and page images. *)

\* is_committed_csn.
is_committed_csn(c) == NO_CSN < c /\ c < PROVISIONAL_CSN

\* is_open_end_csn: never ended, or ended by an attempt that did not commit.
is_open_end_csn(c) == c \in {NO_CSN, PROVISIONAL_CSN}

\* Snapshot.visible.
visible(v, s) ==
    /\ is_committed_csn(v.xmin) /\ v.xmin <= s
    /\ is_open_end_csn(v.xmax) \/ v.xmax > s

\* A page the device was asked for and nobody wrote; PageType.FREE with no bytes.
Unwritten == [kind |-> "unwritten", lsn |-> 0, slots |-> <<>>, next |-> NO_PAGE, val |-> 0]

\* A data page: versions by slot, and the next page of the chain.
HeapPage(slots) ==
    [kind |-> "heap", lsn |-> 0, slots |-> slots, next |-> NO_PAGE, val |-> 0]

\* A freed slot; its number is never given out again.
Freed == [live |-> FALSE]

Live(image) == {k \in DOMAIN image.slots : image.slots[k].live}

\* can_fit, after compaction: only live versions take room.
Fits(image) == Cardinality(Live(image)) < PageSlots

\* The pages the walk of a table meets from first_page on; it ends in NO_PAGE when
\* it meets a page that is not a data page, or a page twice: corruption_detected.
RECURSIVE WalkFrom(_, _, _)
WalkFrom(images, p, seen) ==
    IF p \in seen \/ images[p].kind # "heap" THEN <<NO_PAGE>>
    ELSE IF images[p].next = NO_PAGE THEN <<p>>
    ELSE <<p>> \o WalkFrom(images, images[p].next, seen \cup {p})

Walk(images) ==
    IF images[0].first = NO_PAGE THEN <<>> ELSE WalkFrom(images, images[0].first, {})

Walkable(images) == ~Contains(Walk(images), NO_PAGE)

\* The versions a walk meets, as references.
Refs(images) ==
    UNION {{<<p, k>> : k \in Live(images[p])} : p \in ToSet(Walk(images)) \ {NO_PAGE}}

At(images, ref) == images[ref[1]].slots[ref[2]]

\* The value a version carries, inline or on its overflow page.
Payload(images, v) ==
    IF v.ov = NO_PAGE THEN v.val
    ELSE IF images[v.ov].kind = "over" THEN images[v.ov].val ELSE 0

\* What a scan at snapshot s answers: the values of each record.
Rows(images, s) ==
    LET seen == {r \in Refs(images) : visible(At(images, r), s)} IN
    [id \in Ids |-> {Payload(images, At(images, r)) :
                        r \in {q \in seen : At(images, q).id = id}}]

\* _restamp_page: one version's stamps rewritten.
Restamped(images, ref, xmin, xmax) ==
    [images EXCEPT ![ref[1]].slots[ref[2]].xmin = xmin,
                   ![ref[1]].slots[ref[2]].xmax = xmax]

------------------------------------------------------------------------------
Init ==
    /\ disk = [p \in 0..MaxPage |->
                 IF p = 0 THEN [kind |-> "dir", lsn |-> 0, first |-> NO_PAGE,
                                last |-> NO_PAGE, nextId |-> 1, floor |-> 0]
                 ELSE Unwritten]
    /\ mem = disk
    /\ grown = 0 /\ last = 0
    /\ phase = "idle" /\ who = Nobody
    /\ txn = NoTxn /\ step = Idle
    /\ written = {} /\ todo = {}
    /\ lease = [p \in Participants |-> NoLease]
    /\ open = {} /\ torn = FALSE
    /\ hist = <<[id \in Ids |-> {}]>>
    /\ attempts = 0 /\ deaths = 0 /\ faults = 0

\* What the attempt changed: the pages its rows are on (_pages_touched_by), and
\* those the pool holds dirty or has written back (_attempt_pages).
Touched ==
    LET rows == ToSet(txn.rows)
        held == {r.born[1] : r \in rows} \cup {r.ended[1] : r \in rows}
    IN  written \cup {p \in 0..MaxPage : mem[p] # disk[p]} \cup (held \ {NO_PAGE})

\* Mutant: a snapshot is handed out however old the read of it is.
RetainsAny(s) == TRUE

\* _require_snapshot_retained: the heap still has the history the snapshot needs.
Retains(s) == mem[0].floor <= s

\* begin (_begin_in_section): the published commit is read, the view is pinned, and
\* only then the reclaim floor is compared.  Commits and vacuums may fall in between,
\* so the snapshot is any commit that was once the published one.
Begin ==
    /\ Cardinality(open) < MaxOpen
    /\ \E s \in 0..last : Retains(s) /\ open' = open \cup {s}
    /\ UNCHANGED <<store, section, last, lease, hist, torn, bounds>>

End(s) ==
    /\ open' = open \ {s}
    /\ UNCHANGED <<store, section, last, lease, hist, torn, bounds>>

------------------------------------------------------------------------------
(* Identities, planned before a row is written. *)

Enter(p, ident) ==
    /\ phase = "idle" /\ attempts < MaxAttempts /\ Walkable(mem)
    /\ attempts' = attempts + 1
    /\ who' = p
    /\ txn' = [NoTxn EXCEPT !.ident = ident]
    /\ written' = {} /\ step' = Idle
    /\ UNCHANGED <<disk, grown, last, open, hist, torn, deaths, faults>>

\* An attempt that inserts nothing.
EnterPlain(p) ==
    /\ Enter(p, 0)
    /\ phase' = "work"
    /\ UNCHANGED <<mem, todo, lease>>

\* No extent yet: the first identity is 1, or the one the caller names; the floor is
\* installed with the extent by the user's own commit (initial_floors).
EnterInitial(p, id) ==
    /\ mem[0].first = NO_PAGE
    /\ Enter(p, id)
    /\ phase' = "work"
    /\ lease' = [lease EXCEPT ![p] = NoLease]
    /\ UNCHANGED <<mem, todo>>

\* Mutant: the identity goes to the row writer and the lease keeps it.
LeaseKept(l) == l

\* The lease after one identity is burned, before the row writer has it.
Burned(l) == [l EXCEPT !.next = @ + 1]

\* _prepare_identity_plan: a cached identity.
EnterLeased(p) ==
    /\ mem[0].first # NO_PAGE
    /\ lease[p].next < lease[p].stop
    /\ Enter(p, lease[p].next)
    /\ phase' = "work"
    /\ lease' = [lease EXCEPT ![p] = Burned(@)]
    /\ UNCHANGED <<mem, todo>>

\* Mutant: a named identity is taken at its word.
NamedAny(id) == TRUE

\* A named identity is at or above the durable floor, and no row carries it.
MayName(id) == id >= mem[0].nextId /\ \A r \in Refs(mem) : At(mem, r).id # id

\* _reserve_identity_plan and _commit_identity_floor_plan: the attempt needs a new
\* range; page 0 with the raised floor is committed on its own before any identity
\* of the range is used.  stop is capped at the exhausted marker (MAX_U64).
EnterReserve(p, id, named) ==
    /\ mem[0].first # NO_PAGE /\ last < MaxCsn
    /\ id \in Ids
    /\ IF named THEN MayName(id) ELSE lease[p].next >= lease[p].stop
    /\ Enter(p, id)
    /\ LET stop == Min({(IF named THEN id + 1 ELSE id) + LeaseSize, MaxId + 1}) IN
        /\ mem' = [mem EXCEPT ![0].nextId = stop, ![0].lsn = last + 1]
        /\ lease' = [lease EXCEPT ![p] = [next |-> id + 1, stop |-> stop]]
    /\ phase' = "reserve" /\ todo' = {0}

------------------------------------------------------------------------------
(* Rows, written with the provisional stamp. *)

working == phase = "work" /\ ~step.on /\ Len(txn.rows) < MaxOps
Quiet == UNCHANGED <<disk, last, phase, who, written, todo, lease, open, hist, torn, bounds>>

\* A version an attempt may end: born by a commit, not ended by one, and not ended
\* by this attempt already (the intents of a transaction are reduced first).
Endable(ref) ==
    /\ is_committed_csn(At(mem, ref).xmin) /\ is_open_end_csn(At(mem, ref).xmax)
    /\ \A i \in DOMAIN txn.rows : txn.rows[i].ended # ref

Targets == IF working THEN {ref \in Refs(mem) : Endable(ref)} ELSE {}

Placing(id, ref, big) ==
    [on |-> TRUE, id |-> id, prev |-> ref, big |-> big, ov |-> NO_PAGE, fresh |-> NO_PAGE]

\* insert, insert_reserved and insert_initial_reserved, up to the placement of the
\* version; the first row of a table creates its extent (_create_extent).
Insert(big) ==
    /\ working /\ txn.ident # 0
    /\ step' = Placing(txn.ident, NoRef, big)
    /\ txn' = [txn EXCEPT !.ident = 0]
    /\ IF mem[0].first # NO_PAGE THEN UNCHANGED <<mem, grown>>
       ELSE /\ grown < MaxPage
            /\ grown' = grown + 1
            /\ mem' = [mem EXCEPT ![grown'] = HeapPage(<<>>),
                                  ![0].first = grown', ![0].last = grown',
                                  ![0].nextId = txn.ident + 1]
    /\ Quiet

\* update, up to the placement of the new version.
Update(ref, big) ==
    /\ step' = Placing(At(mem, ref).id, ref, big)
    /\ UNCHANGED <<mem, grown, txn>> /\ Quiet

\* delete (_end_version).
Delete(ref) ==
    /\ mem' = Restamped(mem, ref, At(mem, ref).xmin, PROVISIONAL_CSN)
    /\ txn' = [txn EXCEPT !.rows = Append(@,
                  [id |-> At(mem, ref).id, born |-> NoRef, ended |-> ref])]
    /\ UNCHANGED <<grown, step>> /\ Quiet

\* Mutant: the page type of a candidate is not looked at again.
RetiredOnce(p) == mem[p].kind \in {"free", "over"} /\ is_committed_csn(mem[p].lsn)

\* A page _retired_overflow_candidates may offer: FREE by a committed vacuum.
Retired(p) == mem[p].kind = "free" /\ is_committed_csn(mem[p].lsn)

\* write_chain: a payload that does not fit goes to a retired page or to a new one.
\* The candidate cursor is a hint that may pass over any page.
WriteChain ==
    /\ step.on /\ step.big /\ step.ov = NO_PAGE
    /\ \E p \in Pages :
        /\ \/ Retired(p) /\ UNCHANGED grown
           \/ p = grown + 1 /\ grown' = p
        /\ mem' = [mem EXCEPT ![p] = [@ EXCEPT !.kind = "over", !.val = attempts]]
        /\ step' = [step EXCEPT !.ov = p]
    /\ UNCHANGED txn /\ Quiet

NewVersion ==
    [live |-> TRUE, id |-> step.id, xmin |-> PROVISIONAL_CSN, xmax |-> NO_CSN,
     prev |-> step.prev, ov |-> step.ov, val |-> IF step.big THEN 0 ELSE attempts]

\* The old version of an update ends once the new one is reachable.
EndPrevious(images) ==
    IF step.prev = NoRef THEN images
    ELSE Restamped(images, step.prev, At(images, step.prev).xmin, PROVISIONAL_CSN)

Placed(ref) ==
    /\ txn' = [txn EXCEPT !.rows = Append(@, [id |-> step.id, born |-> ref,
                                               ended |-> step.prev])]
    /\ step' = Idle

CanAppend == step.on /\ (step.big => step.ov # NO_PAGE) /\ step.fresh = NO_PAGE

\* _append on a tail page with room; a stale last_page hint is repaired first.
AppendFits ==
    /\ CanAppend
    /\ LET tail == Last(Walk(mem)) IN
        /\ Fits(mem[tail])
        /\ mem' = EndPrevious([mem EXCEPT ![tail].slots = Append(@, NewVersion),
                                          ![0].last = tail])
        /\ Placed(<<tail, Len(mem[tail].slots) + 1>>)
    /\ UNCHANGED grown /\ Quiet

\* _append on a full tail page: the row goes to a new page nothing points at, and
\* the directory hint moves to it ...
AppendGrow ==
    /\ CanAppend /\ grown < MaxPage
    /\ ~Fits(mem[Last(Walk(mem))])
    /\ grown' = grown + 1
    /\ mem' = [mem EXCEPT ![grown'] = HeapPage(<<NewVersion>>), ![0].last = grown']
    /\ step' = [step EXCEPT !.fresh = grown']
    /\ UNCHANGED txn /\ Quiet

\* ... then the old tail is linked to it and, in an update, the old version ends.
Link ==
    /\ step.on /\ step.fresh # NO_PAGE
    /\ mem' = EndPrevious([mem EXCEPT ![Last(Walk(mem))].next = step.fresh])
    /\ Placed(<<step.fresh, 1>>)
    /\ UNCHANGED grown /\ Quiet

------------------------------------------------------------------------------
(* The way to the device. *)

\* A pin takes a frame and writes its dirty page back (_evict_dirty_frame).  The
\* page of the version an update is replacing is pinned.  A reader of the same
\* process can do it while the undo drops pages one by one.
Evict(p) ==
    /\ phase \in {"work", "undo"} /\ mem[p] # disk[p]
    /\ ~(step.on /\ p = step.prev[1])
    /\ disk' = [disk EXCEPT ![p] = mem[p]]
    /\ written' = written \cup {p}
    /\ torn' = (torn \/ (phase = "undo" /\ ~txn.back))
    /\ faults < MaxFaults /\ faults' = faults + 1
    /\ UNCHANGED <<mem, grown, last, phase, who, txn, step, todo, lease, open, hist,
                   attempts, deaths>>

\* The stamps of one row as the commit writes them (_stamp_page).
Stamped(images, row) ==
    LET born == IF row.born = NoRef THEN images
                ELSE Restamped(images, row.born, last + 1, At(images, row.born).xmax)
    IN  IF row.ended = NoRef THEN born
        ELSE Restamped(born, row.ended, At(born, row.ended).xmin, last + 1)

\* The batch is in the log and the barrier has returned: the pages take their
\* committed images and are still to be flushed (_build_records, _apply_images).
Commit ==
    /\ phase = "work" /\ ~step.on /\ txn.rows # <<>> /\ last < MaxCsn
    /\ phase' = "flush" /\ todo' = Touched
    /\ LET stamped == FoldLeft(Stamped, mem, txn.rows) IN
        mem' = [p \in 0..MaxPage |->
                  IF p \in todo' THEN [stamped[p] EXCEPT !.lsn = last + 1] ELSE mem[p]]
    /\ UNCHANGED <<disk, grown, last, who, txn, step, written, lease, open, hist, torn,
                   bounds>>

\* flush: the pages in any order, the header page after all the others.
FlushPage(p) ==
    /\ phase \in {"flush", "reserve"} /\ p \in todo
    /\ p = 0 => todo = {0}
    /\ disk' = [disk EXCEPT ![p] = mem[p]]
    /\ todo' = todo \ {p}
    /\ UNCHANGED <<mem, grown, last, phase, who, txn, step, written, lease, open, hist,
                   torn, bounds>>

\* What the table holds after the rows of the attempt.
Effect(rows, row) == [rows EXCEPT ![row.id] = IF row.born = NoRef THEN {} ELSE {attempts}]

\* The commit becomes the published one.
Publishes ==
    /\ last' = last + 1
    /\ hist' = Append(hist, IF phase = "reserve" THEN hist[last + 1]
                            ELSE FoldLeft(Effect, hist[last + 1], txn.rows))

\* _publish_commit_state; after a reservation the user's attempt goes on.
Publish ==
    /\ phase \in {"flush", "reserve"} /\ todo = {}
    /\ Publishes
    /\ phase' = IF phase = "reserve" THEN "work" ELSE "idle"
    /\ written' = {}
    /\ IF phase = "reserve" THEN UNCHANGED <<who, txn>> ELSE who' = Nobody /\ txn' = NoTxn
    /\ UNCHANGED <<store, step, todo, lease, open, torn, bounds>>

\* The stamps of one row as _abandon_rows leaves them.
Abandoned(images, row) ==
    LET born == IF row.born = NoRef THEN images
                ELSE Restamped(images, row.born, NO_CSN, At(images, row.born).xmax)
    IN  IF row.ended = NoRef THEN born
        ELSE Restamped(born, row.ended, At(born, row.ended).xmin, NO_CSN)

\* Mutant: the frames are dropped whatever reached the device.
NeverBack == FALSE

\* _undo_pages: one page of the attempt reached the device, so all of them go.
WritesBack == written # {}

\* A refusal before the log has the batch: a conflict, a full device, a budget.
Refuse ==
    /\ phase = "work"
    /\ mem' = FoldLeft(Abandoned, mem, txn.rows)
    /\ phase' = "undo" /\ todo' = Touched
    /\ txn' = [NoTxn EXCEPT !.back = WritesBack]
    /\ step' = Idle
    /\ UNCHANGED <<disk, grown, last, who, written, lease, open, hist, torn, bounds>>

\* One page of the undo, in page order: written back or dropped.
UndoPage ==
    /\ phase = "undo" /\ todo # {}
    /\ LET p == Min(todo) IN
        /\ IF txn.back THEN disk' = [disk EXCEPT ![p] = mem[p]] /\ UNCHANGED mem
           ELSE mem' = [mem EXCEPT ![p] = disk[p]] /\ UNCHANGED disk
        /\ todo' = todo \ {p}
    /\ UNCHANGED <<grown, last, phase, who, txn, step, written, lease, open, hist, torn,
                   bounds>>

Undone ==
    /\ phase = "undo" /\ todo = {}
    /\ phase' = "idle" /\ written' = {} /\ who' = Nobody /\ txn' = NoTxn
    /\ UNCHANGED <<store, last, step, todo, lease, open, hist, torn, bounds>>

\* The redo rule (apply_page_image): a page never written, freed, or older than the
\* image takes it.  Images of earlier commits meet pages that are not older.
Redone(p) ==
    IF p \in todo /\ (disk[p].kind \in {"unwritten", "free"} \/ disk[p].lsn < mem[p].lsn)
    THEN mem[p] ELSE disk[p]

\* The participant in the section dies, and the next one to open recovers: a batch
\* the log has is redone, anything else is what the device happens to hold.
Die ==
    /\ deaths < MaxDeaths /\ faults < MaxFaults /\ phase # "idle"
    /\ deaths' = deaths + 1 /\ faults' = faults + 1
    /\ lease' = [p \in Participants |-> IF p = who THEN NoLease ELSE lease[p]]
    /\ IF phase \in {"flush", "reserve"}
       THEN /\ disk' = [p \in 0..MaxPage |-> Redone(p)]
            /\ Publishes /\ UNCHANGED torn
       ELSE /\ torn' = (torn \/ written # {})
            /\ UNCHANGED <<disk, last, hist>>
    /\ mem' = disk'
    /\ phase' = "idle" /\ written' = {} /\ todo' = {} /\ step' = Idle
    /\ who' = Nobody /\ txn' = NoTxn
    /\ UNCHANGED <<grown, open, attempts>>

------------------------------------------------------------------------------
(* Vacuum. *)

\* The versions no retained snapshot can see, in the order of the walk.
Candidates ==
    LET chain == Walk(mem)
        of(p) == [i \in DOMAIN mem[p].slots |-> <<p, i>>]
        met == FlattenSeq([i \in DOMAIN chain |-> of(chain[i])])
        dead(r) == /\ At(mem, r).live
                   /\ is_committed_csn(At(mem, r).xmin)
                   /\ is_committed_csn(At(mem, r).xmax)
                   /\ At(mem, r).xmin <= At(mem, r).xmax /\ At(mem, r).xmax <= last
    IN  IF Walkable(mem) THEN SelectSeq(met, dead) ELSE <<>>

\* Mutant: the link of a retained version is left where it was.
NoRelink(selected, ref) == ref

\* The first version at or behind ref that stays.
RECURSIVE Retained(_, _)
Retained(selected, ref) ==
    IF ref \in selected THEN Retained(selected, At(mem, ref).prev) ELSE ref

\* Every overflow page belongs to one version of the table, and holds a payload.
OverflowOwned(images) ==
    LET owners == {r \in Refs(images) : At(images, r).ov # NO_PAGE} IN
    /\ \A r \in owners : images[At(images, r).ov].kind = "over"
    /\ \A q, r \in owners : At(images, q).ov = At(images, r).ov => q = r

\* The page image the plan leaves: selected slots freed, links moved past them,
\* the overflow pages of the selected versions FREE, the floor at the horizon.
Reclaimed(selected) ==
    LET chain == ToSet(Walk(mem))
        freed == {At(mem, r).ov : r \in selected} \ {NO_PAGE}
        slot(p, k) == LET v == mem[p].slots[k] IN
                      IF <<p, k>> \in selected THEN Freed
                      ELSE IF v.live THEN [v EXCEPT !.prev = Retained(selected, @)] ELSE v
        image(p) == IF p = 0 THEN [mem[0] EXCEPT !.floor = last]
                    ELSE IF p \in freed THEN [Unwritten EXCEPT !.kind = "free"]
                    ELSE IF p \in chain
                         THEN [mem[p] EXCEPT !.slots = [k \in DOMAIN mem[p].slots |-> slot(p, k)]]
                         ELSE mem[p]
    IN  [p \in 0..MaxPage |->
            IF image(p) = mem[p] /\ p # 0 THEN mem[p]
            ELSE [image(p) EXCEPT !.lsn = last + 1]]

\* quiescent_maintenance_section: no transaction is open.  The code looks at the open
\* transactions of its own process; that no other process has one is an assumption on
\* the operator, who confirms it (confirm_quiescent).
Quiescent == open = {}

\* prepare_vacuum: up to n versions (max_versions), in one commit with the floor.
Vacuum(n) ==
    /\ phase = "idle" /\ last < MaxCsn /\ Quiescent
    /\ LET selected == ToSet(SubSeq(Candidates, 1, n)) IN
        /\ (\E r \in selected : At(mem, r).ov # NO_PAGE) => OverflowOwned(mem)
        /\ mem' = Reclaimed(selected)
    /\ phase' = "flush" /\ todo' = {p \in 0..MaxPage : mem'[p] # disk[p]}
    /\ UNCHANGED <<disk, grown, last, who, txn, step, written, lease, open, hist, torn, bounds>>

------------------------------------------------------------------------------
Next ==
    \/ Begin \/ \E s \in open : End(s)
    \/ \E p \in Participants :
        \/ EnterPlain(p) \/ EnterLeased(p)
        \/ \E id \in {1} \cup Named : EnterInitial(p, id)
        \/ EnterReserve(p, mem[0].nextId, FALSE)
        \/ \E id \in Named : EnterReserve(p, id, TRUE)
    \/ \E big \in Big : Insert(big) \/ \E ref \in Targets : Update(ref, big)
    \/ \E ref \in Targets : Delete(ref)
    \/ WriteChain \/ AppendFits \/ AppendGrow \/ Link
    \/ \E p \in 0..MaxPage : Evict(p) \/ FlushPage(p)
    \/ Commit \/ Publish \/ Refuse \/ UndoPage \/ Undone \/ Die
    \/ \E n \in IF phase = "idle" THEN DOMAIN Candidates ELSE {} : Vacuum(n)

Spec == Init /\ [][Next]_vars

------------------------------------------------------------------------------
(* Properties. *)

\* A scan that meets no damage answers exactly what the commits up to its snapshot
\* left: for every open transaction and for the published commit, in the process
\* that is writing and, page by page on the device, in any other one; whatever was
\* evicted, refused, interrupted or reclaimed in between.
SnapshotReads ==
    \A s \in open \cup {last} : \A images \in {disk, mem} :
        Walkable(images) => Rows(images, s) = hist[s + 1]

\* The link of a committed version leads to an older committed version of the same
\* record, or nowhere: vacuum moves links past what it frees, and slots are never
\* given out again.
LinksIntact ==
    \A r \in Refs(mem) :
        LET v == At(mem, r) IN
        is_committed_csn(v.xmin) /\ v.prev # NoRef =>
            /\ v.prev[2] \in Live(mem[v.prev[1]])
            /\ At(mem, v.prev).id = v.id
            /\ At(mem, v.prev).xmax <= v.xmin

\* Between attempts the device holds a chain that can be walked from first_page to
\* its end: a commit, a refusal undone in either way and a redo all leave one.  The
\* exceptions are attempts whose pages reached the device in part.
WalkableAtRest == phase = "idle" /\ ~torn => Walkable(disk)

\* Between attempts every overflow page a version of the table points at, committed
\* or abandoned, holds a payload and is its own: what _plan_overflow_reclaim asks
\* for before it frees anything.  The same exceptions.
OverflowAtRest == phase = "idle" /\ ~torn => OverflowOwned(disk)

\* A record that was deleted never comes back: gaps are fine, reuse is never.
IdentityNeverReused ==
    \A id \in Ids : \A t \in 1..last :
        hist[t][id] # {} /\ hist[t + 1][id] = {} =>
            \A u \in t + 2..Len(hist) : hist[u][id] = {}

\* The identities a participant may still hand out are below the durable floor, are
\* its alone, and are carried by no committed row.
LeasesDisjoint ==
    \A p \in Participants : \A id \in lease[p].next..lease[p].stop - 1 :
        /\ id < mem[0].nextId
        /\ \A q \in Participants \ {p} : id \notin lease[q].next..lease[q].stop - 1
        /\ \A s \in DOMAIN hist : hist[s][id] = {}

\* "... which is the state a crash between allocating a page and writing it leaves;
\* replaying the log covers it" (_require_data_page): between attempts, after any
\* recovery, the chain can be walked.
CrashLeavesWalkable == phase = "idle" => Walkable(disk)

\* A reader of another process never meets a page nobody wrote: the chain on the
\* device can be walked at every moment of a commit.
DeviceWalkable == Walkable(disk)

=============================================================================
