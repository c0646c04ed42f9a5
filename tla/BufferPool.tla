----------------------------- MODULE BufferPool -----------------------------
(***************************************************************************)
(* The buffer pool of one participant (engine/buffer_pool.py), used by     *)
(* several threads: reading threads pin and release pages whenever they    *)
(* like, one thread at a time is inside the participant section and writes *)
(* pages for a commit that is then made or refused.                        *)
(*                                                                         *)
(* The pool guard makes every guarded method one step.  A cold miss is not *)
(* one step: it reserves a frame slot (a load ticket), possibly publishes  *)
(* a dirty victim (an eviction ticket), and reads the page, the device     *)
(* work outside the guard.                                                 *)
(*                                                                         *)
(* A page image is the set of the commits its bytes hold: a positive       *)
(* number is an attempt of this participant, a negative one a commit of    *)
(* another participant.  A page whose image is empty was allocated and     *)
(* never written.  The least recently used victim is abstracted to any     *)
(* unpinned one.                                                           *)
(***************************************************************************)
EXTENDS Integers, FiniteSets

CONSTANTS
    Threads,       \* threads of the participant
    Writer,        \* the one that commits
    NoThread,      \* nobody
    Stranded,      \* threads that may start with a frame a discard forgot
    Capacity,      \* capacity_pages of the budget
    InitPages,     \* length of the file at the start
    MaxPages,      \* bound on the length of the file
    MaxAttempts,   \* bound on the commit attempts of this participant
    MaxForeign,    \* bound on the commits of other participants
    MaxFaults,     \* bound on device refusals
    WriterPins,    \* bound on the pins the writer holds at a time
    ReaderPins     \* bound on the pins a reading thread holds at a time

ASSUME PoolAssumption ==
    /\ Writer \in Threads
    /\ NoThread \notin Threads
    /\ Stranded \subseteq Threads \ {Writer}
    /\ Capacity \in Nat \ {0}
    /\ InitPages \in Nat \ {0}
    /\ MaxPages \in Nat
    /\ MaxPages >= InitPages
    /\ {MaxAttempts, MaxForeign, MaxFaults, WriterPins, ReaderPins} \subseteq Nat

Pages == 0 .. MaxPages - 1
Header == 0
\* 0 stands for what the file held at the start
Commits == (0 .. MaxAttempts) \cup {0 - k : k \in 1 .. MaxForeign}
\* identities of the Page objects of one page; 0 is no object
Objects == 0 .. Cardinality(Threads) + 2

VARIABLES
    frames,     \* _frames: the resident frame of a page
    doomed,     \* _doomed: frames taken out of the table while held
    loads,      \* _loads: the load ticket of a page
    evictions,  \* _evictions: the eviction ticket of a page
    modified,   \* _modified: pages written back since forget_modified; empty
                \* between attempts, where nothing reads it
    grown,      \* _grown: pages this pool grew the file for
    abandoned,  \* _abandoned: grown pages free for reuse
    device,     \* what read_page returns
    length,     \* page_count of the file
    guard,      \* the thread that keeps the pool guard over several steps
    section,    \* the holder of the page-write section of the file
    view,       \* how the published commit stands to the read-view token
    changed,    \* pages committed since the read-view token
    pc,         \* where a thread is in its pin
    want,       \* the page it pins
    waits,      \* the ticket it waits for
    got,        \* the image it read
    held,       \* the Page objects it holds
    phase,      \* the commit attempt: idle, writing, restamp, undo, fence
    attempt,    \* its number
    touched,    \* the pages it changed
    todo,       \* pages the restamp or the undo has still to visit
    escaped,    \* the answer of pages_written_back at the undo
    faults,     \* device refusals so far
    outcome,    \* ghost: attempt -> the pages it changed, and how it ended
    orphaned,   \* ghost: pages whose held frame a discard forgot
    raced       \* ghost: attempts whose undo met a reader

pool == <<frames, doomed, loads, evictions>>
claims == <<modified, grown, abandoned>>
disk == <<device, length>>
locks == <<guard, section>>
freshness == <<view, changed>>
pinning == <<pc, want, waits, got>>
work == <<phase, attempt, touched, todo, escaped>>
ghosts == <<outcome, orphaned, raced>>
vars == <<pool, claims, disk, locks, freshness, pinning, held, work, faults, ghosts>>

NoFrame == [obj |-> 0, pins |-> 0, img |-> {}, dirty |-> FALSE]
NoLoad == [owner |-> NoThread, valid |-> FALSE, current |-> FALSE]
NoEviction == [owner |-> NoThread, frame |-> NoFrame]
NoWait == [on |-> "none", page |-> Header, owner |-> NoThread]

Resident == {p \in Pages : frames[p].obj # 0}
Loading == {p \in Pages : loads[p].owner # NoThread}
Evicting == {p \in Pages : evictions[p].owner # NoThread}
\* Mutant: reservations are not counted against the budget.
occupied_slots_resident == Cardinality(Resident)

occupied_slots == Cardinality(Resident) + Cardinality(Loading)

Free(t) == guard \in {NoThread, t}

Init ==
    /\ frames = [p \in Pages |-> NoFrame]
    /\ doomed = {}
    /\ loads = [p \in Pages |-> NoLoad]
    /\ evictions = [p \in Pages |-> NoEviction]
    /\ modified = {} /\ grown = {}
    /\ device = [p \in Pages |-> IF p < InitPages THEN {0} ELSE {}]
    /\ \/ length = InitPages /\ abandoned = {}
       \/ /\ InitPages < MaxPages    \* after a refused attempt that grew the file
          /\ length = InitPages + 1 /\ abandoned = {InitPages}
    /\ guard = NoThread /\ section = NoThread
    /\ view = "same" /\ changed = {}
    /\ pc = [t \in Threads |-> "idle"]
    /\ want = [t \in Threads |-> Header]
    /\ waits = [t \in Threads |-> NoWait]
    /\ got = [t \in Threads |-> {}]
    /\ \/ held = [t \in Threads |-> {}] /\ orphaned = {} /\ faults = 0
       \/ \E r \in Stranded :    \* after one whose discard forgot a held frame
             /\ held = [t \in Threads |-> IF t = r THEN {[page |-> Header, obj |-> 1]} ELSE {}]
             /\ orphaned = {Header} /\ faults = MaxFaults
    /\ phase = "idle" /\ attempt = 0 /\ touched = {} /\ todo = {} /\ escaped = FALSE
    /\ outcome = {} /\ raced = {}

-----------------------------------------------------------------------------
(* Waiting and waking.                                                     *)

\* a new Page object for a page: one nobody refers to
NewObject(p) ==
    CHOOSE o \in Objects \ {0} :
        /\ frames[p].obj # o /\ evictions[p].frame.obj # o
        /\ \A d \in doomed : d.page = p => d.obj # o
        /\ \A t \in Threads : [page |-> p, obj |-> o] \notin held[t]

\* _signal_flight_state: every waiter whose predicate came true goes on
Woken(w, l, e) ==
    CASE w.on = "slot"  -> TRUE
      [] w.on = "load"  -> l[w.page].owner # w.owner
      [] w.on = "evict" -> e[w.page].owner # w.owner
      [] OTHER          -> FALSE

\* Mutant: only waiters for a free slot are woken.
SignalSlots(pcs, l, e) ==
    LET go == {t \in Threads : waits[t].on = "slot"}
    IN  /\ pc' = [t \in Threads |-> IF t \in go THEN "retry" ELSE pcs[t]]
        /\ waits' = [t \in Threads |-> IF t \in go THEN NoWait ELSE waits[t]]

Signal(pcs, l, e) ==
    LET go == {t \in Threads : Woken(waits[t], l, e)}
    IN  /\ pc' = [t \in Threads |-> IF t \in go THEN "retry" ELSE pcs[t]]
        /\ waits' = [t \in Threads |-> IF t \in go THEN NoWait ELSE waits[t]]

Wait(t, w) ==
    /\ pc' = [pc EXCEPT ![t] = "wait"]
    /\ waits' = [waits EXCEPT ![t] = w]

\* _bump_drop_epoch: a load taken before it no longer matches the epoch
Outdated(l) == [p \in Pages |-> [l[p] EXCEPT !.current = FALSE]]
Revoked(l) == [p \in Pages |-> [l[p] EXCEPT !.valid = FALSE]]

\* _remember_write_back
RememberWriteBack(ps) ==
    /\ modified' = modified \cup ps
    /\ grown' = grown \ ps
    /\ abandoned' = abandoned \ ps

-----------------------------------------------------------------------------
(* Pinning (_pin_single_flight).                                           *)

CanRead(p) == p < length /\ (device[p] # {} \/ p \in Resident)

\* a reader pins what it likes; the writer pins what its attempt changes
MayPin(t, p) ==
    /\ pc[t] = "idle"
    /\ \A h \in held[t] : h.page # p
    /\ Cardinality(held[t]) < IF t = Writer THEN WriterPins ELSE ReaderPins
    /\ IF t = Writer /\ phase = "restamp" THEN p \in todo ELSE CanRead(p)
    /\ t = Writer => phase \in {"writing", "restamp"}

Pinning(t, p) == Free(t) /\ (MayPin(t, p) \/ (pc[t] = "retry" /\ want[t] = p))

ColdMiss(t, p) ==
    /\ Pinning(t, p)
    /\ p \notin Resident \cup Loading \cup Evicting

\* Mutant: a frame in use is taken as a victim.
UnpinnedAny == Resident

Unpinned == {p \in Resident : frames[p].pins = 0}

NewLoad(t) == [owner |-> t, valid |-> TRUE, current |-> TRUE]

\* the pin is refused: a commit attempt is over, a restamp goes on without it
PinRaises(t, p) ==
    IF t # Writer THEN UNCHANGED work
    ELSE /\ phase' = "restamp"
         /\ todo' = IF phase = "writing" THEN touched ELSE todo \ {p}
         /\ UNCHANGED <<attempt, touched, escaped>>

PinHit(t, p) ==
    /\ Pinning(t, p)
    /\ p \in Resident
    /\ frames' = [frames EXCEPT ![p].pins = @ + 1]
    /\ held' = [held EXCEPT ![t] = @ \cup {[page |-> p, obj |-> frames[p].obj]}]
    /\ pc' = [pc EXCEPT ![t] = "idle"]
    /\ want' = [want EXCEPT ![t] = Header]
    /\ UNCHANGED <<doomed, loads, evictions, claims, disk, locks, freshness,
                   waits, got, work, faults, ghosts>>

\* another thread loads or evicts this page: wait for that ticket to go
PinJoin(t, p) ==
    /\ Pinning(t, p)
    /\ p \notin Resident
    /\ \/ p \in Loading /\ Wait(t, [on |-> "load", page |-> p, owner |-> loads[p].owner])
       \/ /\ p \in Evicting \ Loading
          /\ Wait(t, [on |-> "evict", page |-> p, owner |-> evictions[p].owner])
    /\ want' = [want EXCEPT ![t] = p]
    /\ UNCHANGED <<pool, claims, disk, locks, freshness, got, held, work, faults, ghosts>>

\* a slot is free, or a clean victim gives up its own
PinReserve(t, p) ==
    /\ ColdMiss(t, p)
    /\ \/ occupied_slots < Capacity /\ UNCHANGED frames
       \/ /\ occupied_slots >= Capacity
          /\ \E v \in Unpinned : /\ ~frames[v].dirty
                                 /\ frames' = [frames EXCEPT ![v] = NoFrame]
    /\ loads' = [loads EXCEPT ![p] = NewLoad(t)]
    /\ pc' = [pc EXCEPT ![t] = "read"]
    /\ want' = [want EXCEPT ![t] = p]
    /\ UNCHANGED <<doomed, evictions, claims, disk, locks, freshness, waits, got,
                   held, work, faults, ghosts>>

\* a dirty victim leaves the table under an eviction ticket
PinEvict(t, p) ==
    /\ ColdMiss(t, p)
    /\ occupied_slots >= Capacity
    /\ \E v \in Unpinned :
          /\ frames[v].dirty
          /\ modified' = modified \cup {v}
          /\ evictions' = [evictions EXCEPT ![v] = [owner |-> t, frame |-> frames[v]]]
          /\ frames' = [frames EXCEPT ![v] = NoFrame]
          /\ raced' = IF phase = "undo" /\ ~escaped /\ v \in touched
                      THEN raced \cup {attempt} ELSE raced
    /\ loads' = [loads EXCEPT ![p] = NewLoad(t)]
    /\ pc' = [pc EXCEPT ![t] = "evict"]
    /\ want' = [want EXCEPT ![t] = p]
    /\ UNCHANGED <<doomed, grown, abandoned, disk, locks, freshness, waits, got,
                   held, work, faults, outcome, orphaned>>

\* every frame is pinned: wait for a flight to land, or refuse when none is up
PinNoVictim(t, p) ==
    /\ ColdMiss(t, p)
    /\ occupied_slots >= Capacity
    /\ Unpinned = {}
    /\ IF Loading \cup Evicting # {}
       THEN /\ Wait(t, [on |-> "slot", page |-> p, owner |-> NoThread])
            /\ want' = [want EXCEPT ![t] = p]
            /\ UNCHANGED work
       ELSE /\ pc' = [pc EXCEPT ![t] = "idle"]
            /\ want' = [want EXCEPT ![t] = Header]
            /\ PinRaises(t, p)
            /\ UNCHANGED waits
    /\ UNCHANGED <<pool, claims, disk, locks, freshness, got, held, faults, ghosts>>

Pin(t) == \E p \in Pages : \/ PinHit(t, p) \/ PinJoin(t, p) \/ PinReserve(t, p)
                           \/ PinEvict(t, p) \/ PinNoVictim(t, p)

\* _publish_page of a detached victim, outside the guard; page 0 takes the section
EvictPublish(t, v) ==
    /\ pc[t] = "evict"
    /\ evictions[v].owner = t
    /\ v = Header => section = NoThread
    /\ device' = [device EXCEPT ![v] = evictions[v].frame.img]
    /\ pc' = [pc EXCEPT ![t] = "settle"]
    /\ UNCHANGED <<pool, claims, length, locks, freshness, want,
                   waits, got, held, work, faults, ghosts>>

\* the settlement of _evict_dirty_frame
EvictSettle(t, v) ==
    /\ pc[t] = "settle"
    /\ evictions[v].owner = t
    /\ Free(t)
    /\ RememberWriteBack({v})
    /\ evictions' = [evictions EXCEPT ![v] = NoEviction]
    /\ loads' = [loads EXCEPT ![want[t]].current = TRUE]
    /\ Signal([pc EXCEPT ![t] = "read"], loads', evictions')
    /\ UNCHANGED <<frames, doomed, disk, locks, freshness, want, got, held, work,
                   faults, ghosts>>

\* the device refuses the victim: it is resident again and the pin raises
EvictRestore(t, v) ==
    /\ pc[t] = "evict"
    /\ evictions[v].owner = t
    /\ Free(t)
    /\ faults < MaxFaults /\ faults' = faults + 1
    /\ evictions' = [evictions EXCEPT ![v] = NoEviction]
    /\ loads' = [loads EXCEPT ![want[t]] = NoLoad]
    /\ frames' = [frames EXCEPT ![v] = evictions[v].frame]
    /\ Signal([pc EXCEPT ![t] = "idle"], loads', evictions')
    /\ want' = [want EXCEPT ![t] = Header]
    /\ PinRaises(t, want[t])
    /\ UNCHANGED <<doomed, claims, disk, locks, freshness, got, held, ghosts>>

\* _read_page outside the guard
ReadPage(t) ==
    /\ pc[t] = "read"
    /\ got' = [got EXCEPT ![t] = device[want[t]]]
    /\ pc' = [pc EXCEPT ![t] = "admit"]
    /\ UNCHANGED <<pool, claims, disk, locks, freshness, want, waits, held, work,
                   faults, ghosts>>

ReadFails(t) ==
    /\ pc[t] = "read"
    /\ Free(t)
    /\ faults < MaxFaults /\ faults' = faults + 1
    /\ loads' = [loads EXCEPT ![want[t]] = NoLoad]
    /\ Signal([pc EXCEPT ![t] = "idle"], loads', evictions)
    /\ want' = [want EXCEPT ![t] = Header]
    /\ PinRaises(t, want[t])
    /\ UNCHANGED <<frames, doomed, evictions, claims, disk, locks, freshness, got, held,
                   ghosts>>

\* the loader is back: pin what stands there, publish what it read, or try again
Admit(t) ==
    LET p == want[t]
        fresh == [obj |-> NewObject(p), pins |-> 1, img |-> got[t], dirty |-> FALSE]
        usable == loads[p].valid /\ loads[p].current
    IN  /\ pc[t] = "admit"
        /\ Free(t)
        /\ frames' = CASE p \in Resident -> [frames EXCEPT ![p].pins = @ + 1]
                       [] p \notin Resident /\ usable -> [frames EXCEPT ![p] = fresh]
                       [] OTHER -> frames
        /\ held' = IF p \in Resident \/ usable
                   THEN [held EXCEPT ![t] = @ \cup {[page |-> p, obj |-> frames'[p].obj]}]
                   ELSE held
        /\ loads' = [loads EXCEPT ![p] = NoLoad]
        /\ got' = [got EXCEPT ![t] = {}]
        /\ want' = [want EXCEPT ![t] = IF p \in Resident \/ usable THEN Header ELSE p]
        /\ Signal([pc EXCEPT ![t] = IF p \in Resident \/ usable THEN "idle" ELSE "retry"],
                  loads', evictions)
        /\ UNCHANGED <<doomed, evictions, claims, disk, locks, freshness, work, faults,
                       ghosts>>

-----------------------------------------------------------------------------
(* Releasing (unpin).                                                      *)

DropPin(p, soil) ==
    /\ frames' = [frames EXCEPT ![p].pins = @ - 1, ![p].dirty = @ \/ soil]
    /\ IF frames[p].pins = 1 THEN Signal(pc, loads, evictions) ELSE UNCHANGED <<pc, waits>>
    /\ UNCHANGED <<doomed, loads, claims, device>>

\* the last release of a doomed frame drops it, written only if it is local work
DropDoomed(d) ==
    /\ doomed' = (doomed \ {d}) \cup (IF d.pins > 1 THEN {[d EXCEPT !.pins = @ - 1]} ELSE {})
    /\ IF d.pins = 1
       THEN /\ loads' = Outdated(loads)
            /\ Signal(pc, loads', evictions)
            /\ IF d.dirty /\ ~d.unwritten
               THEN device' = [device EXCEPT ![d.page] = d.img] /\ RememberWriteBack({d.page})
               ELSE UNCHANGED <<device, claims>>
       ELSE UNCHANGED <<loads, pc, waits, device, claims>>
    /\ UNCHANGED frames

IsOf(h, d) == d.page = h.page /\ d.obj = h.obj

\* the mark an object the pool forgot puts on the frame that is released for it
SoilOf(t, h) == t = Writer /\ h.page \in touched /\ frames[h.page].obj # h.obj

Attempts == phase \in {"writing", "restamp"}

\* an object that is not doomed is released by the name of its page, whatever stands
\* there; nothing there, or nothing pinned, raises
Unpin(t, h) ==
    /\ pc[t] = "idle" /\ Free(t)
    /\ h \in held[t]
    /\ t = Writer /\ phase = "writing" => h.page \in touched
    /\ held' = [held EXCEPT ![t] = @ \ {h}]
    /\ \/ (\E d \in doomed : IsOf(h, d) /\ DropDoomed(d)) /\ UNCHANGED work
       \/ /\ \A d \in doomed : ~IsOf(h, d)
          /\ frames[h.page].pins > 0
          /\ \E soil \in {FALSE, Attempts /\ SoilOf(t, h)} : DropPin(h.page, soil)
          /\ UNCHANGED work
       \/ /\ \A d \in doomed : ~IsOf(h, d)
          /\ frames[h.page].pins = 0
          /\ IF Attempts THEN PinRaises(t, h.page) ELSE UNCHANGED work
          /\ UNCHANGED <<frames, doomed, loads, claims, device, pc, waits>>
    /\ UNCHANGED <<evictions, length, locks, freshness, want, got, faults, ghosts>>

-----------------------------------------------------------------------------
(* Read views (begin_read_view), taken inside the participant section.     *)

\* Mutant: a page that a reader holds is not written by a flush.
DirtyUnpinned == {p \in Resident : frames[p].dirty /\ frames[p].pins = 0}

Dirty == {p \in Resident : frames[p].dirty}

\* frames taken out of the table; a held one is doomed for its holder alone
Dooms(ps) ==
    {[page |-> p, obj |-> frames[p].obj, pins |-> frames[p].pins, img |-> frames[p].img,
      dirty |-> frames[p].dirty, unwritten |-> ~frames[p].dirty] :
        p \in {q \in ps : frames[q].pins > 0}}
Without(ps) == [p \in Pages |-> IF p \in ps THEN NoFrame ELSE frames[p]]

\* the published commit is this participant's own: only detached reads are stale
ViewOwn ==
    /\ view = "own" /\ Dirty = {}
    /\ loads' = Revoked(loads)
    /\ UNCHANGED <<frames, doomed, claims, device, pc, waits>>

\* Mutant: a changed page that is held stays in the table.
ViewChangesUnpinned ==
    LET gone == changed \cap Unpinned
    IN  /\ view = "foreign" /\ Dirty \cap changed = {}
        /\ frames' = Without(gone)
        /\ loads' = Outdated(Revoked(loads))
        /\ IF gone # {} THEN Signal(pc, loads', evictions) ELSE UNCHANGED <<pc, waits>>
        /\ UNCHANGED <<doomed, claims, device>>

\* _discard_clean_changes over the pages the log names, refused when one is dirty
ViewChanges ==
    LET gone == changed \cap Resident
    IN  /\ view = "foreign" /\ Dirty \cap changed = {}
        /\ frames' = Without(gone)
        /\ doomed' = doomed \cup Dooms(gone)
        /\ loads' = Outdated(Revoked(loads))
        /\ IF gone # {} THEN Signal(pc, loads', evictions) ELSE UNCHANGED <<pc, waits>>
        /\ UNCHANGED <<claims, device>>

\* _invalidate(None, doom_pinned=True): local work is written, everything is dropped
ViewDrop ==
    LET local == {p \in Dirty : frames[p].pins = 0}
    IN  /\ view = "foreign" \/ (view = "own" /\ Dirty # {})
        /\ device' = [p \in Pages |-> IF p \in local THEN frames[p].img ELSE device[p]]
        /\ RememberWriteBack(local)
        /\ frames' = Without(Resident)
        /\ doomed' = doomed \cup Dooms(Resident)
        /\ loads' = Outdated(Revoked(loads))
        /\ Signal(pc, loads', evictions)

begin_read_view(t) ==
    /\ phase = "idle" /\ pc[t] = "idle" /\ Free(t)
    /\ Evicting = {}
    /\ ViewOwn \/ ViewChanges \/ ViewDrop
    /\ view' = "same" /\ changed' = {}
    /\ UNCHANGED <<evictions, length, locks, want, got, held, work, faults, ghosts>>

\* another participant commits a page, or a page it appends to the file
ForeignCommit ==
    /\ phase \in {"idle", "fence"}
    /\ \E k \in 1 .. MaxForeign, p \in Pages :
          /\ \A q \in Pages : 0 - k \notin device[q]
          /\ \A j \in 1 .. k - 1 : \E q \in Pages : 0 - j \in device[q]
          /\ \/ p < length /\ device[p] # {} /\ UNCHANGED length
             \/ p = length /\ length' = length + 1
          /\ device' = [device EXCEPT ![p] = @ \cup {0 - k}]
          /\ changed' = changed \cup {p}
    /\ view' = "foreign"
    /\ UNCHANGED <<pool, claims, locks, pinning, held, work, faults, ghosts>>

-----------------------------------------------------------------------------
(* One commit attempt, inside the participant and the commit section.      *)

WriterAt(ph) == phase = ph /\ pc[Writer] = "idle" /\ Free(Writer)

BeginAttempt ==
    /\ WriterAt("idle") /\ held[Writer] = {}
    /\ attempt < MaxAttempts
    /\ view = "same" /\ Evicting = {}
    /\ phase' = "writing" /\ attempt' = attempt + 1 /\ touched' = {}
    /\ UNCHANGED <<pool, claims, disk, locks, freshness, pinning, held, todo, escaped,
                   faults, ghosts>>

\* the writer changes a page it holds: new bytes, or the restamp of a refused row; an
\* object the pool forgot is not the frame
Mutate(h) ==
    /\ h \in held[Writer]
    /\ \/ WriterAt("writing") /\ h.page \notin touched
       \/ WriterAt("restamp") /\ h.page \in todo
    /\ frames' = IF frames[h.page].obj # h.obj THEN frames
                 ELSE [frames EXCEPT ![h.page].img = @ \cup {attempt}, ![h.page].dirty = TRUE]
    /\ touched' = touched \cup {h.page}
    /\ todo' = todo \ {h.page}
    /\ UNCHANGED <<doomed, loads, evictions, claims, disk, locks, freshness, pinning,
                   held, phase, attempt, escaped, faults, ghosts>>

\* _make_room, _reusable_index or a longer file, _install_fresh_frame
Allocate ==
    /\ WriterAt("writing")
    /\ Cardinality(held[Writer]) < WriterPins
    /\ Evicting = {}
    /\ \E p \in abandoned \cup {length}, v \in Unpinned \cup {Header} :
          LET full == occupied_slots >= Capacity
              victim == IF full THEN {v} ELSE {}
              written == {q \in victim : frames[q].dirty}
              usable == {q \in abandoned : frames[q].pins = 0 /\ device[q] = {}}
          IN  /\ p < MaxPages
              /\ p \in usable \/ (p = length /\ usable = {})
              /\ IF full THEN v \in Unpinned ELSE v = Header
              /\ device' = [q \in Pages |-> IF q \in written THEN frames[q].img ELSE device[q]]
              /\ length' = IF p = length THEN length + 1 ELSE length
              /\ frames' = [Without(victim) EXCEPT
                               ![p] = [obj |-> NewObject(p), pins |-> 1,
                                       img |-> {attempt}, dirty |-> TRUE]]
              /\ held' = [held EXCEPT ![Writer] = @ \cup {[page |-> p, obj |-> NewObject(p)]}]
              /\ loads' = [loads EXCEPT ![p].valid = FALSE]
              /\ modified' = modified \cup written
              /\ grown' = (grown \ written) \cup {p}
              /\ abandoned' = (abandoned \ written) \ {p}
              /\ touched' = touched \cup {p}
    /\ UNCHANGED <<doomed, evictions, locks, freshness, pinning, phase, attempt, todo,
                   escaped, faults, ghosts>>

\* the images are in the log: flush writes every dirty page
Commit ==
    /\ WriterAt("writing") /\ held[Writer] = {} /\ touched # {}
    /\ Evicting = {}
    /\ device' = [p \in Pages |-> IF p \in Dirty THEN frames[p].img ELSE device[p]]
    /\ frames' = [p \in Pages |-> [frames[p] EXCEPT !.dirty = FALSE]]
    /\ modified' = {} /\ grown' = grown \ Dirty /\ abandoned' = abandoned \ Dirty
    /\ view' = "own" /\ changed' = changed \cup touched
    /\ outcome' = outcome \cup {[of |-> attempt, pages |-> touched, made |-> TRUE]}
    /\ phase' = "idle" /\ touched' = {}
    /\ UNCHANGED <<doomed, loads, evictions, length, locks, pinning, held, attempt, todo,
                   escaped, faults, orphaned, raced>>

\* the commit is refused before the log has it (_abandon_rows)
Refuse ==
    /\ WriterAt("writing") /\ held[Writer] = {}
    /\ phase' = "restamp" /\ todo' = touched
    /\ UNCHANGED <<pool, claims, disk, locks, freshness, pinning, held, attempt, touched,
                   escaped, faults, ghosts>>

\* Mutant: only an attempt that reached the device as a whole is written back.
EscapedWhole == touched \subseteq modified

\* pages_written_back since the attempt began
Escaped == touched \cap modified # {}

\* _undo_pages asks once whether the device has seen any page of the attempt
CheckEscaped ==
    /\ WriterAt("restamp") /\ held[Writer] = {} /\ todo = {}
    /\ Evicting = {}
    /\ escaped' = Escaped
    /\ phase' = IF touched = {} THEN "idle" ELSE "undo"
    /\ modified' = IF touched = {} THEN {} ELSE modified
    /\ todo' = touched
    /\ UNCHANGED <<pool, grown, abandoned, disk, locks, freshness, pinning, held, attempt, touched,
                   faults, ghosts>>

\* write_back of one page of the attempt
WriteBack(p) ==
    /\ escaped
    /\ IF p \in Resident
       THEN /\ device' = [device EXCEPT ![p] = frames[p].img]
            /\ frames' = [frames EXCEPT ![p].dirty = FALSE]
            /\ grown' = grown \ {p} /\ abandoned' = abandoned \ {p}
       ELSE UNCHANGED <<device, frames, grown, abandoned>>
    /\ UNCHANGED <<doomed, loads, pc, waits, orphaned, raced>>

\* _reclaim: a page this pool grew the file for, and nothing has written since
Reclaims(p) == p \in grown /\ p # Header

\* discard of one page of the attempt: held frames lose their dirt, or their record
discard(p) ==
    LET popped == {d \in doomed : d.page = p}
        drop == p \in Unpinned
    IN  /\ ~escaped
        /\ doomed' = doomed \ popped
        /\ orphaned' = IF popped = {} THEN orphaned ELSE orphaned \cup {p}
        /\ frames' = IF drop THEN Without({p}) ELSE [frames EXCEPT ![p].dirty = FALSE]
        /\ loads' = IF drop THEN Outdated([loads EXCEPT ![p].valid = FALSE])
                            ELSE [loads EXCEPT ![p].valid = FALSE]
        /\ grown' = IF drop THEN grown \ {p} ELSE grown
        /\ abandoned' = IF drop /\ Reclaims(p)
                        THEN abandoned \cup {p} ELSE abandoned
        /\ IF drop THEN Signal(pc, loads', evictions) ELSE UNCHANGED <<pc, waits>>
        /\ raced' = IF frames[p].pins > 0 THEN raced \cup {attempt} ELSE raced
        /\ UNCHANGED device

\* the pages in order; the attempt is over after the last one
Undo ==
    /\ WriterAt("undo")
    /\ \E p \in todo :
          /\ \A q \in todo : p <= q
          /\ p \notin Evicting
          /\ WriteBack(p) \/ discard(p)
          /\ todo' = todo \ {p}
          /\ phase' = IF todo' = {} THEN "idle" ELSE "undo"
          /\ escaped' = (escaped /\ todo' # {})
    /\ outcome' = IF todo' = {}
                  THEN outcome \cup {[of |-> attempt, pages |-> touched, made |-> FALSE]}
                  ELSE outcome
    /\ touched' = IF todo' = {} THEN {} ELSE touched
    /\ modified' = IF todo' = {} THEN {} ELSE modified
    /\ UNCHANGED <<evictions, length, locks, freshness, want, got, held, attempt, faults>>

-----------------------------------------------------------------------------
(* page_write_fence: the guard and the section of page 0 over several      *)
(* steps, entered when no flight is up.                                    *)

FenceEnter ==
    /\ WriterAt("idle") /\ held[Writer] = {} /\ guard = NoThread
    /\ Evicting = {} /\ Loading = {}
    /\ guard' = Writer /\ phase' = "fence"
    /\ UNCHANGED <<pool, claims, disk, section, freshness, pinning, held, attempt, touched,
                   todo, escaped, faults, ghosts>>

FenceSection ==
    /\ WriterAt("fence") /\ guard = Writer /\ section = NoThread
    /\ section' = Writer
    /\ UNCHANGED <<pool, claims, disk, guard, freshness, pinning, held, work, faults, ghosts>>

FenceLeave ==
    /\ WriterAt("fence") /\ section = Writer
    /\ section' = NoThread /\ guard' = NoThread /\ phase' = "idle"
    /\ UNCHANGED <<pool, claims, disk, freshness, pinning, held, attempt, touched, todo,
                   escaped, faults, ghosts>>

-----------------------------------------------------------------------------

Flight(t) ==
    \/ \E v \in Pages : EvictPublish(t, v) \/ EvictSettle(t, v) \/ EvictRestore(t, v)
    \/ ReadPage(t) \/ ReadFails(t) \/ Admit(t)

WriterStep ==
    \/ BeginAttempt \/ (\E h \in held[Writer] : Mutate(h)) \/ Allocate
    \/ Commit \/ Refuse \/ CheckEscaped \/ Undo
    \/ FenceEnter \/ FenceSection \/ FenceLeave

Next ==
    \/ \E t \in Threads : \/ Pin(t) \/ Flight(t) \/ begin_read_view(t)
                          \/ \E h \in held[t] : Unpin(t, h)
    \/ WriterStep
    \/ ForeignCommit

Spec == Init /\ [][Next]_vars

-----------------------------------------------------------------------------
(* Properties.                                                             *)

\* Resident frames and reserved slots never exceed the budget, and every detached
\* dirty victim rides on one load reservation of the same thread, so that a pool
\* without loads has no flight at all (_occupied_slots, page_write_fence).
SlotsAccounted ==
    /\ occupied_slots <= Capacity
    /\ \A v \in Evicting : /\ loads[want[evictions[v].owner]].owner = evictions[v].owner
                           /\ v \notin Resident
                           /\ \A w \in Evicting : evictions[w].owner = evictions[v].owner => v = w

Holders(p, o) == {t \in Threads : [page |-> p, obj |-> o] \in held[t]}

\* No pin outlives its holder: a frame, resident or doomed, never has more pins than
\* holders, so a page nobody holds can always be evicted.  And until a discard forgets
\* a doomed frame of the page, it has no fewer: a page in use is not evicted, and an
\* object that is not the resident one is known to be doomed (pin, unpin,
\* begin_read_view, discard).
PinsAreHolders ==
    /\ \A p \in Resident : frames[p].pins <= Cardinality(Holders(p, frames[p].obj))
    /\ \A d \in doomed : d.pins <= Cardinality(Holders(d.page, d.obj))
    /\ \A p \in Resident \ orphaned :
          /\ frames[p].pins >= Cardinality(Holders(p, frames[p].obj))
          /\ \A t \in Threads : \A h \in held[t] :
                h.page = p => h.obj = frames[p].obj \/ \E d \in doomed : IsOf(h, d)

\* A pin is given back by the thread that took it: "The holder releases the doomed one"
\* (unpin), whatever a discard did to the page in the meantime.
HoldersKeepTheirPins ==
    \A p \in Resident : frames[p].pins = Cardinality(Holders(p, frames[p].obj))

\* Bytes on the device are only ever replaced by an image that contains them: no
\* stale frame, detached read or late release overwrites another commit (the
\* discard_unwritten mark, the epochs of a load, _undo_pages).
NoStaleWrite == [][\A p \in Pages : device[p] \subseteq device'[p]]_vars

\* With the newest commit in view, every resident frame holds all of it, whatever
\* detached reads were under way when the view was taken (begin_read_view, Admit).
ViewIsFresh ==
    view = "same" => \A p \in Resident : device[p] \subseteq frames[p].img

\* A commit is on the device with all its pages when its section is left, also the
\* pages that readers evicted in the middle of it (flush, _evict_dirty_frame).  A page
\* with a held frame that a discard forgot is left out: there HoldersKeepTheirPins
\* fails, and with it the pin that keeps the writer's page in the pool.
CommitWritten ==
    \A o \in outcome : o.made => \A p \in o.pages \ orphaned : o.of \in device[p]

UndoneOrWhole(o) ==
    LET seen == {p \in o.pages : o.of \in device[p]} IN seen = {} \/ seen = o.pages

\* A refused attempt whose undo found no page held or being evicted by a reader is on
\* the device as a whole or not at all: "If NO page reached the device, every frame is
\* dropped and the device never learns the attempt existed" (_undo_pages).  The pages a
\* discard left short of a pin are out of this, too.
UndoAloneIsAllOrNothing ==
    \A o \in outcome : ~o.made /\ o.of \notin raced /\ o.pages \cap orphaned = {}
                            => UndoneOrWhole(o)

\* Every refused attempt is on the device as a whole or not at all, also one whose undo
\* met a reader: "if ANY page of the attempt reached the device, EVERY page of it is
\* written there in its restamped form" (_undo_pages).
UndoIsAllOrNothing == \A o \in outcome : ~o.made => UndoneOrWhole(o)

\* Nobody waits for nothing: a ticket belongs to a thread that is bringing it home, a
\* waiting thread waits for a ticket that is still up, and while a fence keeps the
\* guard no ticket is up that needs it.  No landing, failure or drop forgets to signal,
\* and the fence and a flight never wait for each other (_signal_flight_state,
\* page_write_fence).
NobodyWaitsForNothing ==
    /\ \A p \in Loading : LET t == loads[p].owner
                          IN  want[t] = p /\ pc[t] \in {"evict", "settle", "read", "admit"}
    /\ \A v \in Evicting : pc[evictions[v].owner] \in {"evict", "settle"}
    /\ \A t \in Threads : pc[t] = "wait" => ~Woken(waits[t], loads, evictions)
                                            \/ (waits[t].on = "slot" /\ Loading # {})
    /\ guard # NoThread => Loading \cup Evicting = {}

=============================================================================
