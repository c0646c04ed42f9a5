-------------------------- MODULE BufferPoolProofs --------------------------
(* Proofs about the flights of BufferPool, for any threads, capacity, file     *)
(* length and all bounds: resident frames and reserved slots stay within the   *)
(* budget, a detached victim rides on a reservation, and nobody waits for a    *)
(* ticket that is gone.                                                        *)
EXTENDS BufferPool, FiniteSetTheorems, TLAPS

-----------------------------------------------------------------------------
(* The inductive invariant.                                                   *)

InFlight == {"evict", "settle", "read", "admit"}
Detached == {"evict", "settle"}
Places == InFlight \cup {"idle", "retry", "wait"}
Owners == Threads \cup {NoThread}
Ticket == [owner : Owners, valid : BOOLEAN, current : BOOLEAN]

IsFrame(f) == f = [obj |-> f.obj, pins |-> f.pins, img |-> f.img, dirty |-> f.dirty]
IsTable(f) == f = [p \in Pages |-> f[p]] /\ \A p \in Pages : IsFrame(f[p])

Shapes ==
    /\ IsTable(frames)
    /\ loads \in [Pages -> Ticket]
    /\ evictions = [p \in Pages |-> evictions[p]]
    /\ \A p \in Pages : evictions[p].owner \in Owners /\ IsFrame(evictions[p].frame)
    /\ pc \in [Threads -> Places]
    /\ want \in [Threads -> Pages]
    /\ waits = [t \in Threads |-> waits[t]]

\* A thread in flight and its load ticket name each other, a victim belongs to a
\* thread that has it in hand, and a page that came back during its load, by an
\* allocation, made that load invalid.
Flights ==
    /\ \A p \in Loading : want[loads[p].owner] = p /\ pc[loads[p].owner] \in InFlight
    /\ \A t \in Threads : pc[t] \in InFlight => loads[want[t]].owner = t
    /\ \A v \in Evicting : pc[evictions[v].owner] \in Detached /\ v \notin Resident
    /\ \A v, w \in Evicting : evictions[v].owner = evictions[w].owner => v = w
    /\ \A p \in Loading : p \in Resident \cup Evicting => ~loads[p].valid

\* What a thread waits for is still to come.
WaitOK(t) ==
    /\ waits[t].on \in {"none", "slot", "load", "evict"} /\ waits[t].page \in Pages
    /\ (pc[t] = "wait") <=> (waits[t].on # "none")
    /\ waits[t].on = "slot" => Loading # {}
    /\ waits[t].on = "load" => /\ waits[t].owner # NoThread
                               /\ loads[waits[t].page].owner = waits[t].owner
    /\ waits[t].on = "evict" => /\ waits[t].owner # NoThread
                                /\ evictions[waits[t].page].owner = waits[t].owner

\* A fence holds the guard of a pool in which nothing is in flight.
Fenced ==
    /\ guard \in {NoThread, Writer}
    /\ guard = Writer => /\ phase = "fence" /\ pc[Writer] = "idle"
                         /\ Loading = {} /\ Evicting = {}

PoolInvariant ==
    /\ Shapes /\ Flights /\ Fenced
    /\ \A t \in Threads : WaitOK(t)
    /\ occupied_slots <= Capacity

-----------------------------------------------------------------------------
(* Counting.                                                                  *)

\* Sets of pages are finite, and a smaller set has fewer pages.
LEMMA PageSets ==
    ASSUME NEW S, S \subseteq Pages
    PROVE  /\ IsFiniteSet(S) /\ Cardinality(S) \in Nat
           /\ \A T : T \subseteq S => IsFiniteSet(T) /\ Cardinality(T) \in Nat
                                      /\ Cardinality(T) <= Cardinality(S)
<1>1. 0 \in Int /\ MaxPages - 1 \in Int
  BY PoolAssumption
<1>2. IsFiniteSet(Pages)
  BY <1>1, FS_Interval, Zenon DEF Pages
<1>3. IsFiniteSet(S)
  BY <1>2, FS_Subset, Zenon
<1>4. ASSUME NEW T, T \subseteq S
      PROVE  IsFiniteSet(T) /\ Cardinality(T) \in Nat /\ Cardinality(T) <= Cardinality(S)
  <2>1. T \in SUBSET S
    BY <1>4, Zenon
  <2>2. IsFiniteSet(T) /\ Cardinality(T) <= Cardinality(S)
    BY <1>3, <2>1, FS_Subset, Zenon
  <2> QED
    BY <2>2, FS_CardinalityType, Zenon
<1> QED
  BY <1>3, <1>4, FS_CardinalityType, Zenon

\* One page more or less.
LEMMA PageAdded ==
    ASSUME NEW S, S \subseteq Pages, NEW T, NEW p, T \subseteq S \cup {p}
    PROVE  Cardinality(T) \in Nat /\ Cardinality(T) <= Cardinality(S) + 1
<1>1. IsFiniteSet(S) /\ Cardinality(S) \in Nat
  BY PageSets, Zenon
<1>2. /\ IsFiniteSet(S \cup {p})
      /\ Cardinality(S \cup {p}) = IF p \in S THEN Cardinality(S) ELSE Cardinality(S) + 1
  BY <1>1, FS_AddElement, Zenon
<1>3. T \in SUBSET (S \cup {p})
  BY Zenon
<1>4. Cardinality(T) <= Cardinality(S \cup {p}) /\ IsFiniteSet(T)
  BY <1>2, <1>3, FS_Subset, Zenon
<1>5. Cardinality(T) \in Nat
  BY <1>4, FS_CardinalityType, Zenon
<1> QED
  BY <1>1, <1>2, <1>4, <1>5

\* A set of pages that lost one has fewer.
LEMMA PageRemoved ==
    ASSUME NEW S, S \subseteq Pages, NEW T, NEW p, p \in S, T \subseteq S \ {p}
    PROVE  Cardinality(T) \in Nat /\ Cardinality(T) + 1 <= Cardinality(S)
<1>1. IsFiniteSet(S) /\ Cardinality(S) \in Nat
  BY PageSets, Zenon
<1>2. /\ IsFiniteSet(S \ {p})
      /\ Cardinality(S \ {p}) = IF p \in S THEN Cardinality(S) - 1 ELSE Cardinality(S)
  BY <1>1, FS_RemoveElement, Zenon
<1>3. T \in SUBSET (S \ {p})
  BY Zenon
<1>4. Cardinality(T) <= Cardinality(S \ {p}) /\ IsFiniteSet(T)
  BY <1>2, <1>3, FS_Subset, Zenon
<1>5. Cardinality(T) \in Nat
  BY <1>4, FS_CardinalityType, Zenon
<1> QED
  BY <1>1, <1>2, <1>4, <1>5

\* Trading one page for another adds none.
LEMMA PageReplaced ==
    ASSUME NEW S, S \subseteq Pages, NEW T, NEW p, NEW q,
           p \in S, T \subseteq (S \ {p}) \cup {q}
    PROVE  Cardinality(T) \in Nat /\ Cardinality(T) <= Cardinality(S)
<1>1. S \ {p} \subseteq Pages
  BY Zenon
<1>2. Cardinality(T) \in Nat /\ Cardinality(T) <= Cardinality(S \ {p}) + 1
  BY <1>1, PageAdded, Zenon
<1>3. Cardinality(S \ {p}) \in Nat /\ Cardinality(S \ {p}) + 1 <= Cardinality(S)
  BY PageRemoved, Zenon
<1>4. Cardinality(S) \in Nat
  BY PageSets, Zenon
<1> QED
  BY <1>2, <1>3, <1>4

\* The three tables of the pool are sets of pages, so they can be counted.
LEMMA TableSets ==
    /\ Resident \subseteq Pages /\ Loading \subseteq Pages /\ Evicting \subseteq Pages
    /\ Cardinality(Resident) \in Nat /\ Cardinality(Loading) \in Nat
<1>1. Resident \subseteq Pages /\ Loading \subseteq Pages /\ Evicting \subseteq Pages
  BY Zenon DEF Resident, Loading, Evicting
<1> QED
  BY <1>1, PageSets, Zenon

\* What a step may do to the table and the reservations, by its effect on the budget.
LEMMA BudgetShrinks ==
    ASSUME occupied_slots <= Capacity, Resident' \subseteq Resident, Loading' \subseteq Loading
    PROVE  (occupied_slots <= Capacity)'
<1>1. /\ Cardinality(Resident') \in Nat /\ Cardinality(Resident') <= Cardinality(Resident)
      /\ Cardinality(Loading') \in Nat /\ Cardinality(Loading') <= Cardinality(Loading)
  BY TableSets, PageSets, Zenon
<1>2. Cardinality(Resident) + Cardinality(Loading) <= Capacity
  BY Zenon DEF occupied_slots
<1>3. Cardinality(Resident') + Cardinality(Loading') <= Capacity
  BY <1>1, <1>2, TableSets, PoolAssumption
<1> QED
  BY <1>3, Zenon DEF occupied_slots

\* _admission_slot: a reservation made below the capacity stays within it.
LEMMA BudgetReserves ==
    ASSUME occupied_slots < Capacity, NEW p, Resident' \subseteq Resident,
           Loading' \subseteq Loading \cup {p}
    PROVE  (occupied_slots <= Capacity)'
<1>1. /\ Cardinality(Resident') \in Nat /\ Cardinality(Resident') <= Cardinality(Resident)
      /\ Cardinality(Loading') \in Nat /\ Cardinality(Loading') <= Cardinality(Loading) + 1
  BY TableSets, PageSets, PageAdded, Zenon
<1>2. Cardinality(Resident) + Cardinality(Loading) < Capacity
  BY Zenon DEF occupied_slots
<1>3. Cardinality(Resident') + Cardinality(Loading') <= Capacity
  BY <1>1, <1>2, TableSets, PoolAssumption
<1> QED
  BY <1>3, Zenon DEF occupied_slots

\* A victim that leaves the table makes room for the reservation it was evicted for.
LEMMA BudgetHandsOver ==
    ASSUME occupied_slots <= Capacity, NEW v, NEW p, v \in Resident,
           Resident' \subseteq Resident \ {v}, Loading' \subseteq Loading \cup {p}
    PROVE  (occupied_slots <= Capacity)'
<1>1. /\ Cardinality(Resident') \in Nat /\ Cardinality(Resident') + 1 <= Cardinality(Resident)
      /\ Cardinality(Loading') \in Nat /\ Cardinality(Loading') <= Cardinality(Loading) + 1
  BY TableSets, PageRemoved, PageAdded, Zenon
<1>2. Cardinality(Resident) + Cardinality(Loading) <= Capacity
  BY Zenon DEF occupied_slots
<1>3. Cardinality(Resident') + Cardinality(Loading') <= Capacity
  BY <1>1, <1>2, TableSets, PoolAssumption
<1> QED
  BY <1>3, Zenon DEF occupied_slots

\* A load that ends gives up its reservation for the frame it admits or puts back.
LEMMA BudgetLands ==
    ASSUME occupied_slots <= Capacity, NEW v, NEW q, q \in Loading,
           Resident' \subseteq Resident \cup {v}, Loading' \subseteq Loading \ {q}
    PROVE  (occupied_slots <= Capacity)'
<1>1. /\ Cardinality(Resident') \in Nat /\ Cardinality(Resident') <= Cardinality(Resident) + 1
      /\ Cardinality(Loading') \in Nat /\ Cardinality(Loading') + 1 <= Cardinality(Loading)
  BY TableSets, PageRemoved, PageAdded, Zenon
<1>2. Cardinality(Resident) + Cardinality(Loading) <= Capacity
  BY Zenon DEF occupied_slots
<1>3. Cardinality(Resident') + Cardinality(Loading') <= Capacity
  BY <1>1, <1>2, TableSets, PoolAssumption
<1> QED
  BY <1>3, Zenon DEF occupied_slots

\* allocate takes a free slot, or the slot of the frame it evicts.
LEMMA BudgetAllocates ==
    ASSUME occupied_slots <= Capacity, NEW v, NEW p, Loading' \subseteq Loading,
           \/ occupied_slots < Capacity /\ Resident' \subseteq Resident \cup {p}
           \/ v \in Resident /\ Resident' \subseteq (Resident \ {v}) \cup {p}
    PROVE  (occupied_slots <= Capacity)'
<1>1. Cardinality(Loading') \in Nat /\ Cardinality(Loading') <= Cardinality(Loading)
  BY TableSets, PageSets, Zenon
<1>2. \/ /\ Cardinality(Resident) + Cardinality(Loading) < Capacity
         /\ Cardinality(Resident') \in Nat /\ Cardinality(Resident') <= Cardinality(Resident) + 1
      \/ /\ Cardinality(Resident) + Cardinality(Loading) <= Capacity
         /\ Cardinality(Resident') \in Nat /\ Cardinality(Resident') <= Cardinality(Resident)
  BY TableSets, PageAdded, PageReplaced, Zenon DEF occupied_slots
<1>3. Cardinality(Resident') + Cardinality(Loading') <= Capacity
  BY <1>1, <1>2, TableSets, PoolAssumption
<1> QED
  BY <1>3, Zenon DEF occupied_slots

-----------------------------------------------------------------------------
(* Edits of the frame table and of the tickets.                               *)

\* g is the table f with frames edited or dropped.
Thinned(f, g) == IsTable(g) /\ \A p \in Pages : g[p].obj # 0 => f[p].obj # 0

\* g is the frame f with one field changed, other than its object.
Edited(f, g) == \E x : \/ g = [f EXCEPT !.pins = x]
                       \/ g = [f EXCEPT !.dirty = x]
                       \/ g = [f EXCEPT !.img = x]

\* g is the ticket k with one mark changed, and never to valid.
Restamped(k, g) == \/ g = [k EXCEPT !.valid = FALSE]
                   \/ g = [k EXCEPT !.current = FALSE]
                   \/ g = [k EXCEPT !.current = TRUE]

\* g is the tickets l with some of them marked invalid, outdated or current.
Marked(l, g) ==
    /\ g \in [Pages -> Ticket]
    /\ \A p \in Pages : g[p].owner = l[p].owner /\ (g[p].valid => l[p].valid)

\* NoFrame is a frame, of no object.
LEMMA NoFrameIsFrame == IsFrame(NoFrame) /\ NoFrame.obj = 0
BY Zenon DEF IsFrame, NoFrame

\* A frame has its four fields, whatever they are.
LEMMA FrameOf ==
    ASSUME NEW o, NEW n, NEW i, NEW d
    PROVE  LET f == [obj |-> o, pins |-> n, img |-> i, dirty |-> d] IN IsFrame(f) /\ f.obj = o
BY Zenon DEF IsFrame

\* Pinning, releasing and changing a page leave its object.
LEMMA FrameEdits ==
    ASSUME NEW f, IsFrame(f), NEW g, Edited(f, g)
    PROVE  IsFrame(g) /\ g.obj = f.obj
<1>0. PICK x : \/ g = [f EXCEPT !.pins = x]
               \/ g = [f EXCEPT !.dirty = x]
               \/ g = [f EXCEPT !.img = x]
  BY Zenon DEF Edited
<1> DEFINE F(o, n, i, d) == [obj |-> o, pins |-> n, img |-> i, dirty |-> d]
<1>1. f = F(f.obj, f.pins, f.img, f.dirty)
  BY Zenon DEF IsFrame
<1>2. /\ [F(f.obj, f.pins, f.img, f.dirty) EXCEPT !.pins = x] = F(f.obj, x, f.img, f.dirty)
      /\ [F(f.obj, f.pins, f.img, f.dirty) EXCEPT !.dirty = x] = F(f.obj, f.pins, f.img, x)
      /\ [F(f.obj, f.pins, f.img, f.dirty) EXCEPT !.img = x] = F(f.obj, f.pins, x, f.dirty)
  BY SMT
<1>3. \/ g = F(f.obj, x, f.img, f.dirty)
      \/ g = F(f.obj, f.pins, f.img, x)
      \/ g = F(f.obj, f.pins, x, f.dirty)
  BY <1>0, <1>1, <1>2, Zenon
<1> HIDE DEF F
<1>4. \A o, n, i, d : IsFrame(F(o, n, i, d)) /\ F(o, n, i, d).obj = o
  BY FrameOf, Zenon DEF F
<1> QED
  BY <1>3, <1>4, SMT

\* One entry of a function on the pages replaced.
LEMMA EntrySet ==
    ASSUME NEW f, f = [q \in Pages |-> f[q]], NEW p, NEW x, NEW g, g = [f EXCEPT ![p] = x]
    PROVE  /\ g = [q \in Pages |-> g[q]]
           /\ \A q \in Pages : g[q] = IF q = p THEN x ELSE f[q]
           /\ p \notin Pages => g = f
<1>1. g = [q \in Pages |-> IF q = p THEN x ELSE f[q]]
  BY Zenon
<1>2. \A q \in Pages : g[q] = IF q = p THEN x ELSE f[q]
  BY <1>1, Zenon
<1>3. g = [q \in Pages |-> g[q]]
  BY <1>1, Zenon
<1>4. ASSUME p \notin Pages PROVE g = f
  <2>1. \A q \in Pages : g[q] = f[q]
    BY <1>2, <1>4, Zenon
  <2> QED
    BY <1>3, <2>1, Zenon
<1> QED
  BY <1>2, <1>3, <1>4, Zenon

\* The edits of the model.
LEMMA TableKept == ASSUME NEW f, IsTable(f) PROVE Thinned(f, f)
BY Zenon DEF Thinned

\* Changing the pins, image or dirty mark of a frame, or dropping it, adds no frame.
LEMMA TableEdits ==
    ASSUME NEW f, IsTable(f), NEW p, NEW y, Edited(f[p], y), NEW g, g = [f EXCEPT ![p] = y]
    PROVE  Thinned(f, g)
<1>2. f = [q \in Pages |-> f[q]] /\ \A q \in Pages : IsFrame(f[q])
  BY Zenon DEF IsTable
<1>3. CASE p \in Pages
  <2>1. IsFrame(y) /\ y.obj = f[p].obj
    BY <1>2, <1>3, FrameEdits, Zenon
  <2>2. /\ g = [q \in Pages |-> g[q]]
        /\ \A q \in Pages : g[q] = IF q = p THEN y ELSE f[q]
    BY <1>2, EntrySet, Zenon
  <2> QED
    BY <1>2, <2>1, <2>2, Zenon DEF Thinned, IsTable
<1>4. CASE p \notin Pages
  <2>1. g = f
    BY <1>2, <1>4, EntrySet, Zenon
  <2> QED
    BY <2>1, TableKept, Zenon
<1> QED
  BY <1>3, <1>4, Zenon

\* Dropping frames leaves a table with those frames gone and the others as they were.
LEMMA TableWithout ==
    ASSUME IsTable(frames), NEW ps
    PROVE  /\ Thinned(frames, Without(ps))
           /\ \A p \in Pages : Without(ps)[p] = IF p \in ps THEN NoFrame ELSE frames[p]
<1> DEFINE g == Without(ps)
<1>1. \A p \in Pages : g[p] = IF p \in ps THEN NoFrame ELSE frames[p]
  BY Zenon DEF Without
<1>2. g = [p \in Pages |-> g[p]]
  BY Zenon DEF Without
<1>3. \A p \in Pages : IsFrame(g[p]) /\ (g[p].obj # 0 => frames[p].obj # 0)
  BY <1>1, NoFrameIsFrame, Zenon DEF IsTable
<1> QED
  BY <1>1, <1>2, <1>3, Zenon DEF Thinned, IsTable

\* Cleaning every frame adds none.
LEMMA TableFlushed ==
    ASSUME NEW f, IsTable(f), NEW g, g = [p \in Pages |-> [f[p] EXCEPT !.dirty = FALSE]]
    PROVE  Thinned(f, g)
<1>1. \A p \in Pages : g[p] = [f[p] EXCEPT !.dirty = FALSE]
  BY Zenon
<1>2. g = [p \in Pages |-> g[p]]
  BY Zenon
<1>3. \A p \in Pages : IsFrame(g[p]) /\ g[p].obj = f[p].obj
  <2> SUFFICES ASSUME NEW p \in Pages
               PROVE  IsFrame(g[p]) /\ g[p].obj = f[p].obj
    BY Zenon
  <2>1. Edited(f[p], g[p])
    BY <1>1, Zenon DEF Edited
  <2>2. IsFrame(f[p])
    BY Zenon DEF IsTable
  <2> QED
    BY <2>1, <2>2, FrameEdits, Zenon
<1> QED
  BY <1>2, <1>3, Zenon DEF Thinned, IsTable

\* The marks on the tickets.
LEMMA TicketEdits ==
    ASSUME NEW k \in Ticket, NEW g, Restamped(k, g)
    PROVE  g \in Ticket /\ g.owner = k.owner /\ (g.valid => k.valid)
<1> DEFINE K(o, v, c) == [owner |-> o, valid |-> v, current |-> c]
<1>1. k = K(k.owner, k.valid, k.current) /\ k.owner \in Owners
      /\ k.valid \in BOOLEAN /\ k.current \in BOOLEAN
  BY SMT DEF Ticket
<1>2. \A o, v, c, x : /\ [K(o, v, c) EXCEPT !.valid = x] = K(o, x, c)
                      /\ [K(o, v, c) EXCEPT !.current = x] = K(o, v, x)
  BY SMT
<1>3. \/ g = K(k.owner, FALSE, k.current)
      \/ g = K(k.owner, k.valid, FALSE)
      \/ g = K(k.owner, k.valid, TRUE)
  BY <1>1, <1>2, Zenon DEF Restamped
<1>4. \A o, v, c : g = K(o, v, c) => g.owner = o /\ g.valid = v
  BY SMT
<1>5. \A o \in Owners, v, c \in BOOLEAN : K(o, v, c) \in Ticket
  BY Zenon DEF Ticket
<1> HIDE DEF K
<1>6. /\ K(k.owner, FALSE, k.current) \in Ticket /\ K(k.owner, k.valid, FALSE) \in Ticket
      /\ K(k.owner, k.valid, TRUE) \in Ticket
  <2>1. FALSE \in BOOLEAN /\ TRUE \in BOOLEAN
    OBVIOUS
  <2> QED
    BY <1>1, <1>5, <2>1, Zenon
<1>7. g \in Ticket
  BY <1>3, <1>6, Zenon
<1>8. g.owner = k.owner
  BY <1>3, <1>4, Zenon
<1>9. g.valid = FALSE \/ g.valid = k.valid
  BY <1>3, <1>4, Zenon
<1> QED
  BY <1>7, <1>8, <1>9, Zenon

\* Spoiling one load ticket keeps who owns it.
LEMMA TicketMark ==
    ASSUME NEW l \in [Pages -> Ticket], NEW p, NEW y, Restamped(l[p], y),
           NEW g, g = [l EXCEPT ![p] = y]
    PROVE  Marked(l, g)
<1>2. l = [q \in Pages |-> l[q]] /\ \A q \in Pages : l[q] \in Ticket
  BY Zenon
<1>3. p \in Pages => y \in Ticket /\ y.owner = l[p].owner /\ (y.valid => l[p].valid)
  BY <1>2, TicketEdits, Zenon
<1>4. /\ g = [q \in Pages |-> g[q]]
      /\ \A q \in Pages : g[q] = IF q = p THEN y ELSE l[q]
  BY <1>2, EntrySet, Zenon
<1>5. \A q \in Pages : g[q] \in Ticket /\ g[q].owner = l[q].owner /\ (g[q].valid => l[q].valid)
  BY <1>2, <1>3, <1>4, Zenon
<1>6. g \in [Pages -> Ticket]
  BY <1>4, <1>5, Zenon
<1> QED
  BY <1>5, <1>6, Zenon DEF Marked

\* Outdating or revoking every load ticket keeps who owns it.
LEMMA TicketMarks ==
    ASSUME NEW l \in [Pages -> Ticket]
    PROVE  Marked(l, l) /\ Marked(l, Outdated(l)) /\ Marked(l, Revoked(l))
<1>1. Marked(l, l)
  BY Zenon DEF Marked
<1>2. ASSUME NEW g, g = Outdated(l) \/ g = Revoked(l)
      PROVE  Marked(l, g)
  <2>1. g = [q \in Pages |-> g[q]]
    BY <1>2, Zenon DEF Outdated, Revoked
  <2>2. \A q \in Pages : Restamped(l[q], g[q])
    BY <1>2, Zenon DEF Outdated, Revoked, Restamped
  <2>3. \A q \in Pages : g[q] \in Ticket /\ g[q].owner = l[q].owner /\ (g[q].valid => l[q].valid)
    BY <2>2, TicketEdits, Zenon
  <2>4. g \in [Pages -> Ticket]
    BY <2>1, <2>3, Zenon
  <2> QED
    BY <2>3, <2>4, Zenon DEF Marked
<1> QED
  BY <1>1, <1>2, Zenon

\* Spoiling load tickets twice is spoiling them.
LEMMA MarkedTwice ==
    ASSUME NEW l, NEW g, NEW h, Marked(l, g), Marked(g, h)
    PROVE  Marked(l, h)
BY Zenon DEF Marked

-----------------------------------------------------------------------------
(* Waiting and waking.                                                        *)

\* When a waiter goes on.
LEMMA WokenWhen ==
    ASSUME NEW x, NEW l, NEW e, x.on \in {"none", "slot", "load", "evict"}
    PROVE  Woken(x, l, e) <=> \/ x.on = "slot"
                              \/ x.on = "load" /\ l[x.page].owner # x.owner
                              \/ x.on = "evict" /\ e[x.page].owner # x.owner
<1>1. CASE x.on = "none"
  BY <1>1, SMT DEF Woken
<1>2. CASE x.on = "slot"
  BY <1>2, SMT DEF Woken
<1>3. CASE x.on = "load"
  BY <1>3, SMT DEF Woken
<1>4. CASE x.on = "evict"
  BY <1>4, SMT DEF Woken
<1> QED
  BY <1>1, <1>2, <1>3, <1>4, Zenon

\* What a signal does to each thread.
LEMMA Signalled ==
    ASSUME NEW pcs, NEW l, NEW e, Signal(pcs, l, e)
    PROVE  /\ pc' = [t \in Threads |-> pc'[t]] /\ waits' = [t \in Threads |-> waits'[t]]
           /\ \A t \in Threads : IF Woken(waits[t], l, e)
                                 THEN pc'[t] = "retry" /\ waits'[t] = NoWait
                                 ELSE pc'[t] = pcs[t] /\ waits'[t] = waits[t]
<1>1. PICK go : /\ go = {t \in Threads : Woken(waits[t], l, e)}
                /\ pc' = [t \in Threads |-> IF t \in go THEN "retry" ELSE pcs[t]]
                /\ waits' = [t \in Threads |-> IF t \in go THEN NoWait ELSE waits[t]]
  BY Zenon DEF Signal
<1>2. \A t \in Threads : t \in go <=> Woken(waits[t], l, e)
  BY <1>1, Zenon
<1>3. \A t \in Threads : /\ pc'[t] = IF t \in go THEN "retry" ELSE pcs[t]
                         /\ waits'[t] = IF t \in go THEN NoWait ELSE waits[t]
  BY <1>1, Zenon
<1>4. pc' = [t \in Threads |-> pc'[t]] /\ waits' = [t \in Threads |-> waits'[t]]
  BY <1>1, Zenon
<1> QED
  BY <1>2, <1>3, <1>4, Zenon

\* What a thread that waits for nothing has in its record.
LEMMA NoWaitIs == NoWait.on = "none" /\ NoWait.page = Header /\ Header \in Pages
<1>1. Header \in Pages
  BY PoolAssumption DEF Header, Pages
<1> QED
  BY <1>1, Zenon DEF NoWait

\* A signal leaves every waiter with something to wait for, and moves no other thread.
LEMMA SignalledWaits ==
    ASSUME NEW t \in Threads, WaitOK(t), NEW pcs, Signal(pcs, loads', evictions'),
           (pcs[t] = "wait") <=> (pc[t] = "wait")
    PROVE  /\ WaitOK(t)'
           /\ pc[t] # "wait" => pc'[t] = pcs[t]
           /\ pc[t] = "wait" => pc'[t] \in {"wait", "retry"}
<1>1. /\ waits[t].on \in {"none", "slot", "load", "evict"} /\ waits[t].page \in Pages
      /\ (pc[t] = "wait") <=> (waits[t].on # "none")
      /\ waits[t].on = "load" => waits[t].owner # NoThread
      /\ waits[t].on = "evict" => waits[t].owner # NoThread
  BY Zenon DEF WaitOK
<1>2. Woken(waits[t], loads', evictions') <=>
         \/ waits[t].on = "slot"
         \/ waits[t].on = "load" /\ loads'[waits[t].page].owner # waits[t].owner
         \/ waits[t].on = "evict" /\ evictions'[waits[t].page].owner # waits[t].owner
  BY <1>1, WokenWhen, SMT
<1>3. IF Woken(waits[t], loads', evictions')
      THEN pc'[t] = "retry" /\ waits'[t] = NoWait
      ELSE pc'[t] = pcs[t] /\ waits'[t] = waits[t]
  BY Signalled, SMT
<1>4. CASE Woken(waits[t], loads', evictions')
  <2>1. pc'[t] = "retry" /\ waits'[t] = NoWait
    BY <1>3, <1>4, Zenon
  <2>2. waits'[t].on = "none" /\ waits'[t].page \in Pages
    BY <2>1, NoWaitIs, Zenon
  <2>3. pc[t] = "wait"
    BY <1>1, <1>2, <1>4, Zenon
  <2> QED
    BY <2>1, <2>2, <2>3, Zenon DEF WaitOK
<1>5. CASE ~Woken(waits[t], loads', evictions')
  <2>1. pc'[t] = pcs[t] /\ waits'[t] = waits[t]
    BY <1>3, <1>5, Zenon
  <2>2. /\ waits[t].on # "slot"
        /\ waits[t].on = "load" => loads'[waits[t].page].owner = waits[t].owner
        /\ waits[t].on = "evict" => evictions'[waits[t].page].owner = waits[t].owner
    BY <1>2, <1>5, Zenon
  <2> QED
    BY <1>1, <2>1, <2>2, Zenon DEF WaitOK
<1> QED
  BY <1>4, <1>5, Zenon

\* A waiter keeps waiting for a ticket that stays up.
LEMMA StandingWaits ==
    ASSUME NEW t \in Threads, WaitOK(t), waits'[t] = waits[t],
           (pc'[t] = "wait") <=> (pc[t] = "wait"), Loading \subseteq Loading',
           \A p \in Pages : loads[p].owner # NoThread => loads'[p].owner = loads[p].owner,
           \A p \in Pages : evictions[p].owner # NoThread
                                => evictions'[p].owner = evictions[p].owner
    PROVE  WaitOK(t)'
BY Zenon DEF WaitOK

-----------------------------------------------------------------------------
(* Steps that start and end no flight.                                        *)

\* Every ticket stays with its owner, and every flight with its thread.
Still ==
    /\ evictions' = evictions /\ Marked(loads, loads')
    /\ \A t \in Threads : /\ pc'[t] \in InFlight <=> pc[t] \in InFlight
                          /\ pc'[t] \in Detached <=> pc[t] \in Detached
                          /\ pc[t] \in InFlight => want'[t] = want[t]

\* Who has a ticket is a thread.
LEMMA TicketOwners ==
    ASSUME Shapes
    PROVE  /\ \A p \in Loading : loads[p].owner \in Threads
           /\ \A v \in Evicting : evictions[v].owner \in Threads
<1>1. \A p \in Pages : loads[p].owner \in Owners
  BY SMT DEF Shapes, Ticket
<1>2. \A p \in Pages : evictions[p].owner \in Owners
  BY Zenon DEF Shapes
<1> QED
  BY <1>1, <1>2, Zenon DEF Owners, Loading, Evicting

\* A step that starts and ends no flight keeps them, if what it brings back is neither
\* detached nor the page of a valid load.
LEMMA StillFlights ==
    ASSUME Shapes, Flights, Still,
           \A p \in Resident' : p \in Resident \/ (p \notin Evicting /\ ~loads'[p].valid)
    PROVE  Flights' /\ Loading' = Loading /\ Evicting' = Evicting
<1>1. /\ \A p \in Pages : loads'[p].owner = loads[p].owner /\ (loads'[p].valid => loads[p].valid)
      /\ evictions' = evictions
  BY Zenon DEF Still, Marked
<1>2. \A t \in Threads : /\ pc'[t] \in InFlight <=> pc[t] \in InFlight
                         /\ pc'[t] \in Detached <=> pc[t] \in Detached
                         /\ pc[t] \in InFlight => want'[t] = want[t]
  BY Zenon DEF Still
<1>3. Loading' = Loading /\ Evicting' = Evicting
  BY <1>1, Zenon DEF Loading, Evicting
<1>4. Loading \subseteq Pages /\ Evicting \subseteq Pages
  BY TableSets, Zenon
<1>5. /\ \A p \in Loading : loads[p].owner \in Threads
      /\ \A v \in Evicting : evictions[v].owner \in Threads
      /\ \A t \in Threads : want[t] \in Pages
  BY TicketOwners, Zenon DEF Shapes
<1>6. \A p \in Loading' : want'[loads'[p].owner] = p /\ pc'[loads'[p].owner] \in InFlight
  <2> SUFFICES ASSUME NEW p \in Loading
               PROVE  want'[loads'[p].owner] = p /\ pc'[loads'[p].owner] \in InFlight
    BY <1>3, Zenon
  <2>1. loads'[p].owner = loads[p].owner /\ loads[p].owner \in Threads
    BY <1>1, <1>4, <1>5, Zenon
  <2>2. want[loads[p].owner] = p /\ pc[loads[p].owner] \in InFlight
    BY Zenon DEF Flights
  <2> QED
    BY <1>2, <2>1, <2>2, Zenon
<1>7. \A t \in Threads : pc'[t] \in InFlight => loads'[want'[t]].owner = t
  <2> SUFFICES ASSUME NEW t \in Threads, pc'[t] \in InFlight
               PROVE  loads'[want'[t]].owner = t
    BY Zenon
  <2>1. pc[t] \in InFlight /\ want'[t] = want[t] /\ want[t] \in Pages
    BY <1>2, <1>5, Zenon
  <2>2. loads[want[t]].owner = t
    BY <2>1, Zenon DEF Flights
  <2> QED
    BY <1>1, <2>1, <2>2, Zenon
<1>8. \A v \in Evicting' : pc'[evictions'[v].owner] \in Detached /\ v \notin Resident'
  BY <1>1, <1>2, <1>3, <1>5, Zenon DEF Flights
<1>9. \A v, u \in Evicting' : evictions'[v].owner = evictions'[u].owner => v = u
  BY <1>1, <1>3, Zenon DEF Flights
<1>10. \A p \in Loading' : p \in Resident' \cup Evicting' => ~loads'[p].valid
  BY <1>1, <1>3, <1>4, Zenon DEF Flights
<1> QED
  BY <1>3, <1>6, <1>7, <1>8, <1>9, <1>10, Zenon DEF Flights

\* The waiters are signalled, or nothing is done to a thread.
Roused == Signal(pc, loads', evictions') \/ UNCHANGED <<pc, waits>>

\* A step that edits or drops frames and marks tickets, under the guard.
Calm ==
    /\ Thinned(frames, frames') /\ Marked(loads, loads')
    /\ evictions' = evictions /\ want' = want /\ Roused
    /\ guard' = guard /\ (guard = Writer => phase' = phase)

\* A table that gained no frame has no new resident page.
LEMMA ThinnedResident ==
    ASSUME Thinned(frames, frames') PROVE Resident' \subseteq Resident /\ IsTable(frames')
BY Zenon DEF Thinned, Resident

\* The broadcast of the slot condition: a thread that stays asleep still has what it
\* waits for, one that was asleep retries, and no other moves.
LEMMA RousedThreads ==
    ASSUME PoolInvariant, Roused, Marked(loads, loads'), evictions' = evictions
    PROVE  /\ \A t \in Threads : /\ WaitOK(t)'
                                 /\ pc[t] # "wait" => pc'[t] = pc[t]
                                 /\ pc[t] = "wait" => pc'[t] \in {"wait", "retry"}
           /\ pc' = [t \in Threads |-> pc'[t]] /\ waits' = [t \in Threads |-> waits'[t]]
<1>1. /\ pc \in [Threads -> Places] /\ waits = [t \in Threads |-> waits[t]]
      /\ \A t \in Threads : WaitOK(t)
  BY Zenon DEF PoolInvariant, Shapes
<1>2. CASE Signal(pc, loads', evictions')
  <2>1. \A t \in Threads : /\ WaitOK(t)'
                           /\ pc[t] # "wait" => pc'[t] = pc[t]
                           /\ pc[t] = "wait" => pc'[t] \in {"wait", "retry"}
    BY <1>1, <1>2, SignalledWaits, Zenon
  <2>2. pc' = [t \in Threads |-> pc'[t]] /\ waits' = [t \in Threads |-> waits'[t]]
    BY <1>2, Signalled, Zenon
  <2> QED
    BY <2>1, <2>2, Zenon
<1>3. CASE UNCHANGED <<pc, waits>>
  <2>1. pc' = pc /\ waits' = waits
    BY <1>3, Zenon
  <2>2. \A p \in Pages : loads'[p].owner = loads[p].owner
    BY Zenon DEF Marked
  <2>3. Loading \subseteq Loading'
    BY <2>2, Zenon DEF Loading
  <2>4. \A t \in Threads : WaitOK(t)'
    BY <1>1, <2>1, <2>2, <2>3, StandingWaits, Zenon
  <2>5. pc = [t \in Threads |-> pc[t]]
    BY <1>1, Zenon
  <2> QED
    BY <1>1, <2>1, <2>4, <2>5, Zenon
<1> QED
  BY <1>2, <1>3, Zenon DEF Roused

\* A calm step keeps the invariant.
LEMMA CalmKept ==
    ASSUME PoolInvariant, Calm
    PROVE  PoolInvariant'
<1>1. /\ Thinned(frames, frames') /\ Marked(loads, loads')
      /\ evictions' = evictions /\ want' = want /\ Roused
      /\ guard' = guard /\ (guard = Writer => phase' = phase)
  BY Zenon DEF Calm
<1>2. /\ Shapes /\ Flights /\ Fenced /\ occupied_slots <= Capacity
  BY Zenon DEF PoolInvariant
<1>3. /\ \A t \in Threads : /\ WaitOK(t)'
                            /\ pc[t] # "wait" => pc'[t] = pc[t]
                            /\ pc[t] = "wait" => pc'[t] \in {"wait", "retry"}
      /\ pc' = [t \in Threads |-> pc'[t]] /\ waits' = [t \in Threads |-> waits'[t]]
  BY <1>1, RousedThreads, Zenon
<1>4. Resident' \subseteq Resident /\ IsTable(frames')
  BY <1>1, ThinnedResident, Zenon
<1>5. \A t \in Threads : pc[t] \in Places
  BY <1>2, Zenon DEF Shapes
<1>6. Still
  <2>1. \A t \in Threads : /\ pc'[t] \in InFlight <=> pc[t] \in InFlight
                           /\ pc'[t] \in Detached <=> pc[t] \in Detached
    <3>1. ~("wait" \in InFlight) /\ ~("retry" \in InFlight)
          /\ ~("wait" \in Detached) /\ ~("retry" \in Detached)
      BY Zenon DEF InFlight, Detached
    <3> QED
      BY <1>3, <3>1, SMT
  <2> QED
    BY <1>1, <2>1, Zenon DEF Still
<1>7. Flights' /\ Loading' = Loading /\ Evicting' = Evicting
  BY <1>2, <1>4, <1>6, StillFlights, Zenon
<1>8. (occupied_slots <= Capacity)'
  BY <1>2, <1>4, <1>7, BudgetShrinks, Zenon
<1>9. Shapes'
  <2>1. pc' \in [Threads -> Places]
    <3>1. \A t \in Threads : pc'[t] \in Places
      BY <1>3, <1>5, SMT DEF Places
    <3> QED
      BY <1>3, <3>1, Zenon
  <2>2. loads' \in [Pages -> Ticket]
    BY <1>1, Zenon DEF Marked
  <2> QED
    BY <1>1, <1>2, <1>3, <1>4, <2>1, <2>2, Zenon DEF Shapes
<1>10. Fenced'
  <2>1. Writer \in Threads
    BY PoolAssumption, Zenon
  <2>2. pc[Writer] = "idle" => pc'[Writer] = "idle"
    BY <1>3, <2>1, SMT
  <2> QED
    BY <1>1, <1>2, <1>7, <2>2, Zenon DEF Fenced
<1> QED
  BY <1>3, <1>7, <1>8, <1>9, <1>10, Zenon DEF PoolInvariant

-----------------------------------------------------------------------------
(* The calm actions.                                                          *)

\* A fence owns the guard: of the other steps only a release by the fencing thread
\* and the commits of other participants go on.
LEMMA OutsideFence ==
    ASSUME PoolInvariant, guard = Writer
    PROVE  phase = "fence"
BY Zenon DEF PoolInvariant, Fenced

\* The frame table and the load tickets are well formed.
LEMMA Tables ==
    ASSUME PoolInvariant
    PROVE  IsTable(frames) /\ loads \in [Pages -> Ticket]
BY Zenon DEF PoolInvariant, Shapes

\* Two edits that add no frame add none together.
LEMMA ThinnedTwice ==
    ASSUME NEW f, NEW g, NEW h, Thinned(f, g), Thinned(g, h)
    PROVE  Thinned(f, h)
BY Zenon DEF Thinned

\* unpin starts and ends no flight.
LEMMA UnpinCalm ==
    ASSUME PoolInvariant, NEW t \in Threads, NEW h, Unpin(t, h)
    PROVE  Calm
<1>1. /\ evictions' = evictions /\ want' = want /\ guard' = guard
      /\ guard = Writer => phase' = phase
  <2>1. phase' = phase \/ Attempts
    BY Zenon DEF Unpin, work
  <2>2. Attempts => phase # "fence"
    BY SMT DEF Attempts
  <2>3. evictions' = evictions /\ want' = want /\ guard' = guard
    BY Zenon DEF Unpin, locks
  <2> QED
    BY <2>1, <2>2, <2>3, OutsideFence, Zenon
<1>2. IsTable(frames) /\ loads \in [Pages -> Ticket]
  BY Tables, Zenon
<1>3. Thinned(frames, frames) /\ Marked(loads, loads) /\ Marked(loads, Outdated(loads))
  BY <1>2, TableKept, TicketMarks, Zenon
<1>4. Thinned(frames, frames') /\ Marked(loads, loads') /\ Roused
  <2>1. ASSUME NEW d, DropDoomed(d)
        PROVE  Thinned(frames, frames') /\ Marked(loads, loads') /\ Roused
    <3>1. frames' = frames
      BY <2>1, Zenon DEF DropDoomed
    <3>2. \/ loads' = Outdated(loads) /\ Signal(pc, loads', evictions)
          \/ loads' = loads /\ UNCHANGED <<pc, waits>>
      BY <2>1, Zenon DEF DropDoomed
    <3> QED
      BY <1>1, <1>3, <3>1, <3>2, Zenon DEF Roused
  <2>2. ASSUME NEW p, NEW soil, DropPin(p, soil)
        PROVE  Thinned(frames, frames') /\ Marked(loads, loads') /\ Roused
    <3>1. loads' = loads
      BY <2>2, Zenon DEF DropPin
    <3>2. Signal(pc, loads, evictions) \/ UNCHANGED <<pc, waits>>
      BY <2>2, Zenon DEF DropPin
    <3>3. PICK y : y = [frames[p] EXCEPT !.pins = frames[p].pins - 1]
      BY Zenon
    <3>4. PICK f : f = [frames EXCEPT ![p] = y]
      BY Zenon
    <3>5. PICK z : z = [f[p] EXCEPT !.dirty = f[p].dirty \/ soil]
      BY Zenon
    <3>6. frames' = [f EXCEPT ![p] = z]
      BY <2>2, <3>3, <3>4, <3>5, Zenon DEF DropPin
    <3>7. Edited(frames[p], y) /\ Edited(f[p], z)
      BY <3>3, <3>5, Zenon DEF Edited
    <3>8. Thinned(frames, f)
      BY <1>2, <3>4, <3>7, TableEdits, Zenon
    <3>9. IsTable(f)
      BY <3>8, Zenon DEF Thinned
    <3>10. Thinned(f, frames')
      BY <3>6, <3>7, <3>9, TableEdits, Zenon
    <3>11. Thinned(frames, frames')
      BY <3>8, <3>10, ThinnedTwice, Zenon
    <3> QED
      BY <1>1, <1>3, <3>1, <3>2, <3>11, Zenon DEF Roused
  <2>3. CASE UNCHANGED <<frames, doomed, loads, claims, device, pc, waits>>
    <3>1. frames' = frames /\ loads' = loads /\ UNCHANGED <<pc, waits>>
      BY <2>3, Zenon
    <3> QED
      BY <1>3, <3>1, Zenon DEF Roused
  <2>4. \/ \E d \in doomed : DropDoomed(d)
        \/ \E soil : DropPin(h.page, soil)
        \/ UNCHANGED <<frames, doomed, loads, claims, device, pc, waits>>
    BY Zenon DEF Unpin
  <2> QED
    BY <2>1, <2>2, <2>3, <2>4, Zenon
<1> QED
  BY <1>1, <1>4, Zenon DEF Calm

\* begin_read_view drops frames and spoils loads, and starts and ends no flight.
LEMMA ViewCalm ==
    ASSUME PoolInvariant, NEW t \in Threads, begin_read_view(t)
    PROVE  Calm
<1>1. evictions' = evictions /\ want' = want /\ guard' = guard /\ phase' = phase
  BY Zenon DEF begin_read_view, locks, work
<1>2. IsTable(frames) /\ loads \in [Pages -> Ticket]
  BY Tables, Zenon
<1>3. /\ Thinned(frames, frames) /\ Marked(loads, Revoked(loads))
      /\ \A ps : Thinned(frames, Without(ps))
  BY <1>2, TableKept, TableWithout, TicketMarks, Zenon
<1>4. Revoked(loads) \in [Pages -> Ticket]
  BY <1>3, Zenon DEF Marked
<1>5. Marked(loads, Outdated(Revoked(loads)))
  BY <1>3, <1>4, TicketMarks, MarkedTwice, Zenon
<1>6. CASE ViewOwn
  <2>1. frames' = frames /\ loads' = Revoked(loads) /\ UNCHANGED <<pc, waits>>
    BY <1>6, Zenon DEF ViewOwn
  <2> QED
    BY <1>1, <1>3, <2>1, Zenon DEF Calm, Roused
<1>7. CASE ViewChanges
  <2>1. /\ \E ps : frames' = Without(ps)
        /\ loads' = Outdated(Revoked(loads))
        /\ Signal(pc, loads', evictions) \/ UNCHANGED <<pc, waits>>
    BY <1>7, Zenon DEF ViewChanges
  <2> QED
    BY <1>1, <1>3, <1>5, <2>1, Zenon DEF Calm, Roused
<1>8. CASE ViewDrop
  <2>1. /\ frames' = Without(Resident)
        /\ loads' = Outdated(Revoked(loads))
        /\ Signal(pc, loads', evictions)
    BY <1>8, Zenon DEF ViewDrop
  <2> QED
    BY <1>1, <1>3, <1>5, <2>1, Zenon DEF Calm, Roused
<1> QED
  BY <1>6, <1>7, <1>8, Zenon DEF begin_read_view

\* The steps that leave the pool alone.
LEMMA IdleCalm ==
    ASSUME PoolInvariant, ForeignCommit \/ BeginAttempt \/ Refuse \/ CheckEscaped
    PROVE  Calm
<1>1. /\ frames' = frames /\ loads' = loads /\ evictions' = evictions
      /\ want' = want /\ guard' = guard /\ UNCHANGED <<pc, waits>>
  <2>1. CASE ForeignCommit
    BY <2>1, Zenon DEF ForeignCommit, pool, locks, pinning
  <2>2. CASE BeginAttempt
    BY <2>2, Zenon DEF BeginAttempt, pool, locks, pinning
  <2>3. CASE Refuse
    BY <2>3, Zenon DEF Refuse, pool, locks, pinning
  <2>4. CASE CheckEscaped
    BY <2>4, Zenon DEF CheckEscaped, pool, locks, pinning
  <2> QED
    BY <2>1, <2>2, <2>3, <2>4, Zenon
<1>2. guard = Writer => phase' = phase
  <2>1. ForeignCommit => phase' = phase
    BY Zenon DEF ForeignCommit, work
  <2>2. BeginAttempt \/ Refuse \/ CheckEscaped => phase \in {"idle", "writing", "restamp"}
    BY Zenon DEF BeginAttempt, Refuse, CheckEscaped, WriterAt
  <2> QED
    BY <2>1, <2>2, OutsideFence, Zenon
<1>3. Thinned(frames, frames) /\ Marked(loads, loads)
  BY Tables, TableKept, TicketMarks, Zenon
<1> QED
  BY <1>1, <1>2, <1>3, Zenon DEF Calm, Roused

\* Changing a pinned page starts and ends no flight.
LEMMA MutateCalm ==
    ASSUME PoolInvariant, NEW h, Mutate(h)
    PROVE  Calm
<1>1. /\ loads' = loads /\ evictions' = evictions /\ want' = want /\ guard' = guard
      /\ phase' = phase /\ UNCHANGED <<pc, waits>>
  BY Zenon DEF Mutate, locks, pinning
<1>2. IsTable(frames) /\ Marked(loads, loads)
  BY Tables, TicketMarks, Zenon
<1> DEFINE p == h.page
<1>3. ASSUME frames[p].obj = h.obj PROVE Thinned(frames, frames')
  <2>1. PICK y : y = [frames[p] EXCEPT !.img = frames[p].img \cup {attempt}]
    BY Zenon
  <2>2. PICK f : f = [frames EXCEPT ![p] = y]
    BY Zenon
  <2>3. PICK z : z = [f[p] EXCEPT !.dirty = TRUE]
    BY Zenon
  <2>4. frames' = [f EXCEPT ![p] = z]
    BY <1>3, <2>1, <2>2, <2>3, Zenon DEF Mutate
  <2>5. Edited(frames[p], y) /\ Edited(f[p], z)
    BY <2>1, <2>3, Zenon DEF Edited
  <2> HIDE DEF p
  <2>6. Thinned(frames, f)
    BY <1>2, <2>2, <2>5, TableEdits, Zenon
  <2>7. IsTable(f)
    BY <2>6, Zenon DEF Thinned
  <2>8. Thinned(f, frames')
    BY <2>4, <2>5, <2>7, TableEdits, Zenon
  <2> QED
    BY <2>6, <2>8, ThinnedTwice, Zenon
<1>4. ASSUME frames[p].obj # h.obj PROVE Thinned(frames, frames')
  <2>1. frames' = frames
    BY <1>4, Zenon DEF Mutate
  <2> QED
    BY <1>2, <2>1, TableKept, Zenon
<1>5. Thinned(frames, frames')
  BY <1>3, <1>4, Zenon
<1> QED
  BY <1>1, <1>2, <1>5, Zenon DEF Calm, Roused

\* A commit that flushes the pool starts and ends no flight.
LEMMA CommitCalm ==
    ASSUME PoolInvariant, Commit
    PROVE  Calm
<1>1. /\ loads' = loads /\ evictions' = evictions /\ want' = want /\ guard' = guard
      /\ UNCHANGED <<pc, waits>>
  BY Zenon DEF Commit, locks, pinning
<1>2. IsTable(frames) /\ Marked(loads, loads)
  BY Tables, TicketMarks, Zenon
<1>3. frames' = [p \in Pages |-> [frames[p] EXCEPT !.dirty = FALSE]]
  BY Zenon DEF Commit
<1>4. Thinned(frames, frames')
  BY <1>2, <1>3, TableFlushed, Zenon
<1>5. guard # Writer
  BY OutsideFence, Zenon DEF Commit, WriterAt
<1> QED
  BY <1>1, <1>2, <1>4, <1>5, Zenon DEF Calm, Roused

\* An undo that drops or restores frames starts and ends no flight.
LEMMA UndoCalm ==
    ASSUME PoolInvariant, Undo
    PROVE  Calm
<1>1. evictions' = evictions /\ want' = want /\ guard' = guard
  BY Zenon DEF Undo, locks
<1>2. IsTable(frames) /\ loads \in [Pages -> Ticket]
  BY Tables, Zenon
<1>3. /\ Thinned(frames, frames) /\ Marked(loads, loads)
      /\ \A ps : Thinned(frames, Without(ps))
  BY <1>2, TableKept, TableWithout, TicketMarks, Zenon
<1>4. guard # Writer
  BY OutsideFence, Zenon DEF Undo, WriterAt
<1>5. PICK p : WriteBack(p) \/ discard(p)
  BY Zenon DEF Undo
<1>6. PICK y : y = [frames[p] EXCEPT !.dirty = FALSE]
  BY Zenon
<1>7. ASSUME frames' = [frames EXCEPT ![p].dirty = FALSE]
      PROVE  Thinned(frames, frames')
  <2>1. frames' = [frames EXCEPT ![p] = y]
    BY <1>6, <1>7, Zenon
  <2>2. Edited(frames[p], y)
    BY <1>6, Zenon DEF Edited
  <2> QED
    BY <1>2, <2>1, <2>2, TableEdits, Zenon
<1>8. CASE WriteBack(p)
  <2>1. /\ frames' = frames \/ frames' = [frames EXCEPT ![p].dirty = FALSE]
        /\ loads' = loads /\ UNCHANGED <<pc, waits>>
    BY <1>8, Zenon DEF WriteBack
  <2> QED
    BY <1>1, <1>3, <1>4, <1>7, <2>1, Zenon DEF Calm, Roused
<1>9. CASE discard(p)
  <2>1. PICK l : l = [loads EXCEPT ![p].valid = FALSE]
    BY Zenon
  <2>2. /\ frames' = Without({p}) \/ frames' = [frames EXCEPT ![p].dirty = FALSE]
        /\ loads' = Outdated(l) \/ loads' = l
        /\ Signal(pc, loads', evictions) \/ UNCHANGED <<pc, waits>>
    BY <1>9, <2>1, Zenon DEF discard
  <2>3. PICK k : k = [loads[p] EXCEPT !.valid = FALSE]
    BY Zenon
  <2>4. l = [loads EXCEPT ![p] = k] /\ Restamped(loads[p], k)
    BY <2>1, <2>3, Zenon DEF Restamped
  <2>5. Marked(loads, l)
    BY <1>2, <2>4, TicketMark, Zenon
  <2>6. l \in [Pages -> Ticket]
    BY <2>5, Zenon DEF Marked
  <2>7. Marked(loads, Outdated(l))
    BY <2>5, <2>6, TicketMarks, MarkedTwice, Zenon
  <2>8. Thinned(frames, frames') /\ Marked(loads, loads')
    BY <1>3, <1>7, <2>2, <2>5, <2>7, Zenon
  <2> QED
    BY <1>1, <1>4, <2>2, <2>8, Zenon DEF Calm, Roused
<1> QED
  BY <1>5, <1>8, <1>9, Zenon

\* Taking the section under the fence starts and ends no flight.
LEMMA FenceSectionCalm ==
    ASSUME PoolInvariant, FenceSection
    PROVE  Calm
<1>1. /\ frames' = frames /\ loads' = loads /\ evictions' = evictions /\ want' = want
      /\ guard' = guard /\ phase' = phase /\ UNCHANGED <<pc, waits>>
  BY Zenon DEF FenceSection, pool, pinning, work
<1>2. Thinned(frames, frames) /\ Marked(loads, loads)
  BY Tables, TableKept, TicketMarks, Zenon
<1> QED
  BY <1>1, <1>2, Zenon DEF Calm, Roused

\* Taking and leaving the fence touch the guard alone.
LEMMA FenceKept ==
    ASSUME PoolInvariant, FenceEnter \/ FenceLeave
    PROVE  PoolInvariant'
<1>1. /\ frames' = frames /\ loads' = loads /\ evictions' = evictions /\ want' = want
      /\ pc' = pc /\ waits' = waits
  BY Zenon DEF FenceEnter, FenceLeave, pool, pinning
<1>2. Loading' = Loading /\ Evicting' = Evicting /\ Resident' = Resident
  BY <1>1, Zenon DEF Loading, Evicting, Resident
<1>3. Shapes /\ Flights /\ (\A t \in Threads : WaitOK(t)) /\ occupied_slots <= Capacity
  BY Zenon DEF PoolInvariant
<1>4. Shapes'
  BY <1>1, <1>3, Zenon DEF Shapes
<1>5. Flights'
  BY <1>1, <1>2, <1>3, SMT DEF Flights
<1>6. \A t \in Threads : WaitOK(t)'
  BY <1>1, <1>2, <1>3, Zenon DEF WaitOK
<1>7. (occupied_slots <= Capacity)'
  BY <1>2, <1>3, Zenon DEF occupied_slots
<1>8. Fenced'
  <2>1. CASE FenceEnter
    <3>1. guard' = Writer /\ phase' = "fence" /\ pc[Writer] = "idle"
          /\ Loading = {} /\ Evicting = {}
      BY <2>1, Zenon DEF FenceEnter, WriterAt
    <3> QED
      BY <1>1, <1>2, <3>1, Zenon DEF Fenced
  <2>2. CASE FenceLeave
    <3>1. guard' = NoThread /\ NoThread # Writer
      BY <2>2, PoolAssumption, Zenon DEF FenceLeave
    <3> QED
      BY <3>1, Zenon DEF Fenced
  <2> QED
    BY <2>1, <2>2, Zenon
<1> QED
  BY <1>4, <1>5, <1>6, <1>7, <1>8, Zenon DEF PoolInvariant

-----------------------------------------------------------------------------
(* Allocation.                                                                *)

\* A load made invalid is invalid.
LEMMA Invalidated ==
    ASSUME NEW l \in [Pages -> Ticket], NEW p \in Pages, NEW g,
           g = [l EXCEPT ![p].valid = FALSE]
    PROVE  ~g[p].valid
<1> DEFINE K(o, v, c) == [owner |-> o, valid |-> v, current |-> c]
<1>1. PICK y : y = [l[p] EXCEPT !.valid = FALSE] /\ g = [l EXCEPT ![p] = y]
  BY Zenon
<1>2. l[p] = K(l[p].owner, l[p].valid, l[p].current)
  <2>1. l[p] \in Ticket
    BY Zenon
  <2> QED
    BY <2>1, SMT DEF Ticket
<1>3. \A o, v, c, x : [K(o, v, c) EXCEPT !.valid = x] = K(o, x, c)
  BY SMT
<1>4. y = K(l[p].owner, FALSE, l[p].current)
  BY <1>1, <1>2, <1>3, Zenon
<1>5. y.valid = FALSE
  BY <1>4, Zenon
<1>6. g[p] = y
  BY <1>1, Zenon
<1> QED
  BY <1>5, <1>6, Zenon

\* An allocation installs one page at most, in a free slot or in the place of a victim,
\* and calls back the load that is under way for it.
LEMMA AllocateEffect ==
    ASSUME PoolInvariant, Allocate
    PROVE  /\ evictions' = evictions /\ Evicting = {} /\ guard' = guard /\ guard # Writer
           /\ pc' = pc /\ want' = want /\ waits' = waits
           /\ IsTable(frames') /\ Marked(loads, loads')
           /\ \E p, v : /\ \/ occupied_slots < Capacity /\ Resident' \subseteq Resident \cup {p}
                           \/ v \in Resident /\ Resident' \subseteq (Resident \ {v}) \cup {p}
                        /\ p \in Pages => ~loads'[p].valid
<1>1. /\ evictions' = evictions /\ Evicting = {} /\ guard' = guard
      /\ pc' = pc /\ want' = want /\ waits' = waits
  BY Zenon DEF Allocate, locks, pinning
<1>2. guard # Writer
  BY OutsideFence, Zenon DEF Allocate, WriterAt
<1>3. PICK p, v, victim, frame :
        /\ \/ ~(occupied_slots >= Capacity)
           \/ victim = {v} /\ v \in Unpinned
        /\ IsFrame(frame)
        /\ frames' = [Without(victim) EXCEPT ![p] = frame]
        /\ loads' = [loads EXCEPT ![p].valid = FALSE]
  <2>1. PICK p, v :
          /\ IF occupied_slots >= Capacity THEN v \in Unpinned ELSE v = Header
          /\ frames' = [Without(IF occupied_slots >= Capacity THEN {v} ELSE {}) EXCEPT
                           ![p] = [obj |-> NewObject(p), pins |-> 1,
                                   img |-> {attempt}, dirty |-> TRUE]]
          /\ loads' = [loads EXCEPT ![p].valid = FALSE]
    BY Zenon DEF Allocate
  <2>2. PICK frame : /\ frame = [obj |-> NewObject(p), pins |-> 1,
                                 img |-> {attempt}, dirty |-> TRUE]
                     /\ IsFrame(frame)
    BY FrameOf, Zenon
  <2>3. PICK victim : victim = IF occupied_slots >= Capacity THEN {v} ELSE {}
    BY Zenon
  <2>4. frames' = [Without(victim) EXCEPT ![p] = frame]
    BY <2>1, <2>2, <2>3, Zenon
  <2> QED
    BY <2>1, <2>2, <2>3, <2>4, Zenon
<1>4. IsTable(frames) /\ loads \in [Pages -> Ticket]
  BY Tables, Zenon
<1>5. PICK f : /\ f = Without(victim) /\ IsTable(f)
               /\ \A q \in Pages : f[q] = IF q \in victim THEN NoFrame ELSE frames[q]
  BY <1>4, TableWithout, ZenonT(60) DEF Thinned
<1>6. frames' = [f EXCEPT ![p] = frame]
  BY <1>3, <1>5, Zenon
<1>7. /\ IsTable(frames')
      /\ \A q \in Pages : frames'[q] = IF q = p THEN frame ELSE f[q]
  <2>1. f = [q \in Pages |-> f[q]] /\ \A q \in Pages : IsFrame(f[q])
    BY <1>5, Zenon DEF IsTable
  <2>2. /\ frames' = [q \in Pages |-> frames'[q]]
        /\ \A q \in Pages : frames'[q] = IF q = p THEN frame ELSE f[q]
    BY <1>6, <2>1, EntrySet, Zenon
  <2>3. IsFrame(frame)
    BY <1>3, Zenon
  <2> QED
    BY <2>1, <2>2, <2>3, Zenon DEF IsTable
<1>8. \A q \in Resident' : q = p \/ (q \in Resident /\ q \notin victim)
  BY <1>5, <1>7, NoFrameIsFrame, Zenon DEF Resident
<1>9. \/ occupied_slots < Capacity /\ Resident' \subseteq Resident \cup {p}
      \/ v \in Resident /\ Resident' \subseteq (Resident \ {v}) \cup {p}
  <2>1. ~(occupied_slots >= Capacity) => occupied_slots < Capacity
    BY TableSets, PoolAssumption, SMT DEF occupied_slots
  <2>2. v \in Unpinned => v \in Resident
    BY Zenon DEF Unpinned
  <2> QED
    BY <1>3, <1>8, <2>1, <2>2, Zenon
<1>10. Marked(loads, loads')
  <2>1. PICK k : k = [loads[p] EXCEPT !.valid = FALSE]
    BY Zenon
  <2>2. loads' = [loads EXCEPT ![p] = k] /\ Restamped(loads[p], k)
    BY <1>3, <2>1, Zenon DEF Restamped
  <2> QED
    BY <1>4, <2>2, TicketMark, Zenon
<1>11. p \in Pages => ~loads'[p].valid
  BY <1>3, <1>4, Invalidated, Zenon
<1> QED
  BY <1>1, <1>2, <1>7, <1>9, <1>10, <1>11, Zenon

\* allocate keeps the invariant: the page it brings in has no valid load.
LEMMA AllocateKept ==
    ASSUME PoolInvariant, Allocate
    PROVE  PoolInvariant'
<1>1. /\ evictions' = evictions /\ Evicting = {} /\ guard' = guard /\ guard # Writer
      /\ pc' = pc /\ want' = want /\ waits' = waits
      /\ IsTable(frames') /\ Marked(loads, loads')
  BY AllocateEffect, Zenon
<1>2. PICK p, v : /\ \/ occupied_slots < Capacity /\ Resident' \subseteq Resident \cup {p}
                     \/ v \in Resident /\ Resident' \subseteq (Resident \ {v}) \cup {p}
                  /\ p \in Pages => ~loads'[p].valid
  BY AllocateEffect, Zenon
<1>3. Shapes /\ Flights /\ Fenced /\ occupied_slots <= Capacity
  BY Zenon DEF PoolInvariant
<1>4. Still
  BY <1>1, Zenon DEF Still
<1>5. \A q \in Resident' : q \in Resident \/ (q \notin Evicting /\ ~loads'[q].valid)
  <2>1. \A q \in Resident' : q \in Pages
    BY Zenon DEF Resident
  <2> QED
    BY <1>1, <1>2, <2>1, Zenon
<1>6. Flights' /\ Loading' = Loading /\ Evicting' = Evicting
  BY <1>3, <1>4, <1>5, StillFlights, Zenon
<1>7. (occupied_slots <= Capacity)'
  BY <1>2, <1>3, <1>6, BudgetAllocates, Zenon
<1>8. \A t \in Threads : WaitOK(t)'
  BY <1>1, RousedThreads, Zenon DEF Roused
<1>9. Shapes'
  <2>1. loads' \in [Pages -> Ticket]
    BY <1>1, Zenon DEF Marked
  <2> QED
    BY <1>1, <1>3, <2>1, Zenon DEF Shapes
<1>10. Fenced'
  BY <1>1, <1>3, Zenon DEF Fenced
<1> QED
  BY <1>6, <1>7, <1>8, <1>9, <1>10, Zenon DEF PoolInvariant

-----------------------------------------------------------------------------
(* Pins that take off or stay on the ground.                                  *)

\* A thread that pins is not in flight, and nobody keeps the guard.
LEMMA PinningThread ==
    ASSUME PoolInvariant, NEW t \in Threads, NEW p, Pinning(t, p)
    PROVE  pc[t] \in {"idle", "retry"} /\ guard # Writer
<1>1. pc[t] \in {"idle", "retry"}
  BY Zenon DEF Pinning, MayPin
<1>2. ASSUME guard = Writer PROVE FALSE
  <2>1. phase = "fence" /\ pc[Writer] = "idle"
    BY <1>2, Zenon DEF PoolInvariant, Fenced
  <2>2. t = Writer
    BY <1>2, PoolAssumption, Zenon DEF Pinning, Free
  <2>3. MayPin(t, p)
    BY <2>1, <2>2, Zenon DEF Pinning
  <2> QED
    BY <2>1, <2>2, <2>3, Zenon DEF MayPin
<1> QED
  BY <1>1, <1>2, Zenon

\* The pin of a thread ends, or has to wait.
LEMMA GroundKept ==
    ASSUME PoolInvariant, NEW t \in Threads, pc[t] \in {"idle", "retry"}, guard # Writer,
           guard' = guard, Thinned(frames, frames'), loads' = loads, evictions' = evictions,
           NEW x \in {"idle", "wait"}, pc' = [pc EXCEPT ![t] = x],
           NEW q \in Pages, want' = [want EXCEPT ![t] = q],
           waits' = [u \in Threads |-> waits'[u]],
           \A u \in Threads : u # t => waits'[u] = waits[u],
           WaitOK(t)'
    PROVE  PoolInvariant'
<1>1. Shapes /\ Flights /\ Fenced /\ occupied_slots <= Capacity
  BY Zenon DEF PoolInvariant
<1>2. pc \in [Threads -> Places] /\ want \in [Threads -> Pages]
  BY <1>1, Zenon DEF Shapes
<1>3. \A u \in Threads : /\ pc'[u] = IF u = t THEN x ELSE pc[u]
                         /\ want'[u] = IF u = t THEN q ELSE want[u]
  BY <1>2, Zenon
<1>4. /\ pc[t] \notin InFlight /\ pc[t] \notin Detached
      /\ x \notin InFlight /\ x \notin Detached /\ x \in Places
  BY Zenon DEF InFlight, Detached, Places
<1>5. Resident' \subseteq Resident /\ IsTable(frames')
  BY ThinnedResident, Zenon
<1>6. loads \in [Pages -> Ticket]
  BY Tables, Zenon
<1>7. Marked(loads, loads')
  BY <1>6, TicketMarks, Zenon
<1>8. Still
  BY <1>3, <1>4, <1>7, Zenon DEF Still
<1>9. Flights' /\ Loading' = Loading /\ Evicting' = Evicting
  BY <1>1, <1>5, <1>8, StillFlights, Zenon
<1>10. (occupied_slots <= Capacity)'
  BY <1>1, <1>5, <1>9, BudgetShrinks, Zenon
<1>11. \A u \in Threads : WaitOK(u)'
  <2>1. \A u \in Threads : WaitOK(u)
    BY Zenon DEF PoolInvariant
  <2>2. ASSUME NEW u \in Threads, u # t PROVE WaitOK(u)'
    <3>1. pc'[u] = pc[u] /\ waits'[u] = waits[u]
      BY <1>3, <2>2, Zenon
    <3> QED
      BY <1>9, <2>1, <3>1, StandingWaits, Zenon
  <2> QED
    BY <2>2, Zenon
<1>12. Shapes'
  <2>1. pc' \in [Threads -> Places] /\ want' \in [Threads -> Pages]
    BY <1>2, <1>4, Zenon
  <2> QED
    BY <1>1, <1>5, <1>6, <2>1, Zenon DEF Shapes
<1>13. Fenced'
  BY <1>1, Zenon DEF Fenced
<1> QED
  BY <1>9, <1>10, <1>11, <1>12, <1>13, Zenon DEF PoolInvariant

\* A pin of a resident page keeps the invariant.
LEMMA PinHitKept ==
    ASSUME PoolInvariant, NEW t \in Threads, NEW p \in Pages, PinHit(t, p)
    PROVE  PoolInvariant'
<1>1. /\ loads' = loads /\ evictions' = evictions /\ guard' = guard /\ waits' = waits
      /\ pc' = [pc EXCEPT ![t] = "idle"] /\ want' = [want EXCEPT ![t] = Header]
      /\ Pinning(t, p)
  BY Zenon DEF PinHit, locks
<1>2. pc[t] \in {"idle", "retry"} /\ guard # Writer
  BY <1>1, PinningThread, Zenon
<1>3. PICK y : y = [frames[p] EXCEPT !.pins = frames[p].pins + 1]
  BY Zenon
<1>4. frames' = [frames EXCEPT ![p] = y] /\ Edited(frames[p], y)
  BY <1>3, Zenon DEF PinHit, Edited
<1>5. Thinned(frames, frames')
  BY <1>4, Tables, TableEdits, Zenon
<1>6. waits = [u \in Threads |-> waits[u]] /\ pc \in [Threads -> Places] /\ WaitOK(t)
  BY Zenon DEF PoolInvariant, Shapes
<1>7. WaitOK(t)'
  <2>1. pc'[t] = "idle"
    BY <1>1, <1>6, Zenon
  <2>2. (pc'[t] = "wait") <=> (pc[t] = "wait")
    BY <1>2, <2>1, Zenon
  <2>3. Loading' = Loading
    BY <1>1, Zenon DEF Loading
  <2> QED
    BY <1>1, <1>6, <2>2, <2>3, StandingWaits, Zenon
<1> QED
  BY <1>1, <1>2, <1>5, <1>6, <1>7, NoWaitIs, GroundKept, Zenon

\* Waiting for a ticket that is up.
LEMMA WaitKept ==
    ASSUME PoolInvariant, NEW t \in Threads, NEW p \in Pages, Pinning(t, p), guard' = guard,
           frames' = frames, loads' = loads, evictions' = evictions,
           want' = [want EXCEPT ![t] = p], NEW n, NEW o,
           Wait(t, [on |-> n, page |-> p, owner |-> o]),
           \/ n = "slot" /\ Loading # {}
           \/ n = "load" /\ o # NoThread /\ loads[p].owner = o
           \/ n = "evict" /\ o # NoThread /\ evictions[p].owner = o
    PROVE  PoolInvariant'
<1>1. pc[t] \in {"idle", "retry"} /\ guard # Writer
  BY PinningThread, Zenon
<1>2. PICK x : x = [on |-> n, page |-> p, owner |-> o]
  BY Zenon
<1>3. x.on = n /\ x.page = p /\ x.owner = o
  BY <1>2, Zenon
<1>4. pc' = [pc EXCEPT ![t] = "wait"] /\ waits' = [waits EXCEPT ![t] = x]
  BY <1>2, Zenon DEF Wait
<1>5. waits = [u \in Threads |-> waits[u]] /\ pc \in [Threads -> Places]
  BY Zenon DEF PoolInvariant, Shapes
<1>6. waits' = [u \in Threads |-> IF u = t THEN x ELSE waits[u]]
  BY <1>4, <1>5, Zenon
<1>7. /\ waits' = [u \in Threads |-> waits'[u]] /\ waits'[t] = x
      /\ \A u \in Threads : u # t => waits'[u] = waits[u]
  BY <1>6, Zenon
<1>8. pc'[t] = "wait"
  BY <1>4, <1>5, Zenon
<1>9. Loading' = Loading
  BY Zenon DEF Loading
<1>10. WaitOK(t)'
  <2>1. waits'[t].on = n /\ waits'[t].page = p /\ waits'[t].owner = o
    BY <1>3, <1>7, Zenon
  <2> QED
    BY <1>8, <1>9, <2>1, SMT DEF WaitOK
<1>11. Thinned(frames, frames')
  BY Tables, TableKept, Zenon
<1> QED
  BY <1>1, <1>4, <1>7, <1>10, <1>11, GroundKept, Zenon

\* A pin that joins a load or an eviction in flight waits for something that is there.
LEMMA PinJoinKept ==
    ASSUME PoolInvariant, NEW t \in Threads, NEW p \in Pages, PinJoin(t, p)
    PROVE  PoolInvariant'
<1>1. /\ frames' = frames /\ loads' = loads /\ evictions' = evictions /\ guard' = guard
      /\ want' = [want EXCEPT ![t] = p] /\ Pinning(t, p)
  BY Zenon DEF PinJoin, pool, locks
<1>2. CASE p \in Loading /\ Wait(t, [on |-> "load", page |-> p, owner |-> loads[p].owner])
  <2>1. loads[p].owner # NoThread
    BY <1>2, Zenon DEF Loading
  <2> QED
    BY <1>1, <1>2, <2>1, WaitKept, Zenon
<1>3. CASE p \in Evicting /\ Wait(t, [on |-> "evict", page |-> p, owner |-> evictions[p].owner])
  <2>1. evictions[p].owner # NoThread
    BY <1>3, Zenon DEF Evicting
  <2> QED
    BY <1>1, <1>3, <2>1, WaitKept, Zenon
<1> QED
  BY <1>2, <1>3, Zenon DEF PinJoin

\* A detached victim rides on the reservation of its thread.
LEMMA NoFlightWithoutLoad ==
    ASSUME PoolInvariant, Loading = {}
    PROVE  Evicting = {}
<1> SUFFICES ASSUME NEW v \in Evicting PROVE FALSE
  BY Zenon
<1>1. evictions[v].owner \in Threads /\ pc[evictions[v].owner] \in InFlight
  BY TicketOwners, Zenon DEF PoolInvariant, Flights, Detached, InFlight
<1>2. PICK t \in Threads : pc[t] \in InFlight /\ want[t] \in Pages /\ loads[want[t]].owner = t
  BY <1>1, Zenon DEF PoolInvariant, Flights, Shapes
<1>3. t # NoThread
  BY PoolAssumption, Zenon
<1> QED
  BY <1>2, <1>3, Zenon DEF Loading

\* A pin that finds no victim waits only while a reservation is out.
LEMMA PinNoVictimKept ==
    ASSUME PoolInvariant, NEW t \in Threads, NEW p \in Pages, PinNoVictim(t, p)
    PROVE  PoolInvariant'
<1>1. /\ frames' = frames /\ loads' = loads /\ evictions' = evictions /\ guard' = guard
      /\ Pinning(t, p)
  BY Zenon DEF PinNoVictim, ColdMiss, pool, locks
<1>2. CASE Loading \cup Evicting # {}
  <2>1. Wait(t, [on |-> "slot", page |-> p, owner |-> NoThread]) /\ want' = [want EXCEPT ![t] = p]
    BY <1>2, Zenon DEF PinNoVictim
  <2>2. Loading # {}
    BY <1>2, NoFlightWithoutLoad, Zenon
  <2> QED
    BY <1>1, <2>1, <2>2, WaitKept, Zenon
<1>3. CASE ~(Loading \cup Evicting # {})
  <2>1. pc' = [pc EXCEPT ![t] = "idle"] /\ want' = [want EXCEPT ![t] = Header] /\ waits' = waits
    BY <1>3, Zenon DEF PinNoVictim
  <2>2. pc[t] \in {"idle", "retry"} /\ guard # Writer
    BY <1>1, PinningThread, Zenon
  <2>3. waits = [u \in Threads |-> waits[u]] /\ pc \in [Threads -> Places] /\ WaitOK(t)
    BY Zenon DEF PoolInvariant, Shapes
  <2>4. WaitOK(t)'
    <3>1. pc'[t] = "idle"
      BY <2>1, <2>3, Zenon
    <3>2. (pc'[t] = "wait") <=> (pc[t] = "wait")
      BY <2>2, <3>1, Zenon
    <3>3. Loading' = Loading
      BY <1>1, Zenon DEF Loading
    <3> QED
      BY <1>1, <2>1, <2>3, <3>2, <3>3, StandingWaits, Zenon
  <2>5. Thinned(frames, frames')
    BY <1>1, Tables, TableKept, Zenon
  <2> QED
    BY <1>1, <2>1, <2>2, <2>3, <2>4, <2>5, NoWaitIs, GroundKept, ZenonT(60)
<1> QED
  BY <1>2, <1>3, Zenon

-----------------------------------------------------------------------------
(* Departures: a slot is reserved, and a dirty victim may be detached.        *)

\* A new load ticket names its owner.
LEMMA NewLoadIs ==
    ASSUME NEW t \in Threads
    PROVE  NewLoad(t) \in Ticket /\ NewLoad(t).owner = t /\ t # NoThread
<1>1. NewLoad(t).owner = t /\ t \in Owners
  BY Zenon DEF NewLoad, Owners
<1>2. NewLoad(t) \in Ticket
  BY <1>1, SMT DEF NewLoad, Ticket
<1> QED
  BY <1>1, <1>2, PoolAssumption, Zenon

\* The thread t takes off for page p, and E is the victim it takes along, if any.
Departs(t, p, x, E) ==
    /\ pc[t] \notin InFlight /\ x \in InFlight /\ (E # {} => x \in Detached)
    /\ p \notin Resident /\ p \notin Loading /\ p \notin Evicting
    /\ Resident' \subseteq Resident
    /\ \A u \in Threads : /\ u = t => pc'[u] = x /\ want'[u] = p
                          /\ u # t => pc'[u] = pc[u] /\ want'[u] = want[u]
    /\ \A q \in Pages : /\ q = p => loads'[q].owner = t
                        /\ q # p => loads'[q] = loads[q]
    /\ \A v \in Pages : /\ v \in E => evictions'[v].owner = t
                        /\ v \notin E => evictions'[v].owner = evictions[v].owner
    /\ \A v \in E : v \in Resident /\ v \notin Resident'
    /\ \A v, u \in E : v = u

\* A miss that departs adds its own flight and leaves the others alone.
LEMMA DepartFlights ==
    ASSUME Shapes, Flights, NEW t \in Threads, NEW p \in Pages, NEW x, NEW E, Departs(t, p, x, E)
    PROVE  Flights' /\ Loading' = Loading \cup {p} /\ Evicting' = Evicting \cup E
<1>1. /\ pc[t] \notin InFlight /\ x \in InFlight /\ (E # {} => x \in Detached)
      /\ p \notin Resident /\ p \notin Loading /\ p \notin Evicting
      /\ Resident' \subseteq Resident
      /\ t # NoThread /\ Detached \subseteq InFlight
  BY PoolAssumption, Zenon DEF Departs, Detached, InFlight
<1>2. \A u \in Threads : /\ u = t => pc'[u] = x /\ want'[u] = p
                         /\ u # t => pc'[u] = pc[u] /\ want'[u] = want[u]
  BY Zenon DEF Departs
<1>3. \A q \in Pages : /\ q = p => loads'[q].owner = t
                       /\ q # p => loads'[q] = loads[q]
  BY Zenon DEF Departs
<1>4. \A v \in Pages : /\ v \in E => evictions'[v].owner = t
                       /\ v \notin E => evictions'[v].owner = evictions[v].owner
  BY Zenon DEF Departs
<1>5. (\A v \in E : v \in Resident /\ v \notin Resident') /\ \A v, u \in E : v = u
  BY Zenon DEF Departs
<1>6. Loading \subseteq Pages /\ Evicting \subseteq Pages /\ Resident \subseteq Pages
  BY TableSets, Zenon
<1>7. /\ \A q \in Loading : loads[q].owner \in Threads /\ loads[q].owner # t
      /\ \A v \in Evicting : evictions[v].owner \in Threads /\ evictions[v].owner # t
      /\ \A u \in Threads : want[u] \in Pages /\ u # NoThread
  <2>1. \A q \in Loading : loads[q].owner \in Threads /\ loads[q].owner # t
    BY <1>1, TicketOwners, Zenon DEF Flights
  <2>2. \A v \in Evicting : evictions[v].owner \in Threads /\ evictions[v].owner # t
    BY <1>1, TicketOwners, Zenon DEF Flights
  <2>3. \A u \in Threads : want[u] \in Pages /\ u # NoThread
    BY PoolAssumption, Zenon DEF Shapes
  <2> QED
    BY <2>1, <2>2, <2>3, Zenon
<1>8. Loading' = Loading \cup {p}
  <2>1. \A q \in Pages : q # p => (q \in Loading' <=> q \in Loading)
    BY <1>3, Zenon DEF Loading
  <2>2. p \in Loading' /\ Loading' \subseteq Pages
    BY <1>1, <1>3, Zenon DEF Loading
  <2> QED
    BY <1>6, <2>1, <2>2, Zenon
<1>9. Evicting' = Evicting \cup E
  <2>1. \A v \in Pages : v \in Evicting' <=> v \in Evicting \/ v \in E
    BY <1>1, <1>4, Zenon DEF Evicting
  <2>2. Evicting' \subseteq Pages /\ E \subseteq Pages
    BY <1>5, <1>6, Zenon DEF Evicting
  <2> QED
    BY <1>6, <2>1, <2>2, Zenon
<1>10. \A q \in Loading' : want'[loads'[q].owner] = q /\ pc'[loads'[q].owner] \in InFlight
  <2>1. ASSUME NEW q \in Loading, q # p
        PROVE  want'[loads'[q].owner] = q /\ pc'[loads'[q].owner] \in InFlight
    <3>1. loads'[q].owner = loads[q].owner /\ loads[q].owner \in Threads /\ loads[q].owner # t
      BY <1>3, <1>6, <1>7, <2>1, Zenon
    <3>2. want[loads[q].owner] = q /\ pc[loads[q].owner] \in InFlight
      BY Zenon DEF Flights
    <3> QED
      BY <1>2, <3>1, <3>2, Zenon
  <2>2. loads'[p].owner = t /\ want'[t] = p /\ pc'[t] \in InFlight
    BY <1>1, <1>2, <1>3, Zenon
  <2> QED
    BY <1>8, <2>1, <2>2, Zenon
<1>11. \A u \in Threads : pc'[u] \in InFlight => loads'[want'[u]].owner = u
  <2>1. ASSUME NEW u \in Threads, u # t, pc'[u] \in InFlight
        PROVE  loads'[want'[u]].owner = u
    <3>1. pc[u] \in InFlight /\ want'[u] = want[u] /\ want[u] \in Pages /\ u # NoThread
      BY <1>2, <1>7, <2>1, Zenon
    <3>2. loads[want[u]].owner = u
      BY <3>1, Zenon DEF Flights
    <3>3. want[u] # p
      BY <1>1, <3>1, <3>2, Zenon DEF Loading
    <3> QED
      BY <1>3, <3>1, <3>2, <3>3, Zenon
  <2>2. loads'[want'[t]].owner = t
    BY <1>2, <1>3, Zenon
  <2> QED
    BY <2>1, <2>2, Zenon
<1>12. \A v \in Evicting' : pc'[evictions'[v].owner] \in Detached /\ v \notin Resident'
  <2>1. ASSUME NEW v \in E
        PROVE  pc'[evictions'[v].owner] \in Detached /\ v \notin Resident'
    <3>1. evictions'[v].owner = t /\ x \in Detached /\ pc'[t] = x /\ v \notin Resident'
      BY <1>1, <1>2, <1>4, <1>5, <1>6, Zenon
    <3> QED
      BY <3>1, Zenon
  <2>2. ASSUME NEW v \in Evicting, v \notin E
        PROVE  pc'[evictions'[v].owner] \in Detached /\ v \notin Resident'
    <3>1. evictions'[v].owner = evictions[v].owner /\ evictions[v].owner \in Threads
          /\ evictions[v].owner # t
      BY <1>4, <1>6, <1>7, <2>2, Zenon
    <3>2. pc[evictions[v].owner] \in Detached /\ v \notin Resident
      BY Zenon DEF Flights
    <3>3. pc'[evictions[v].owner] = pc[evictions[v].owner]
      BY <1>2, <3>1, Zenon
    <3> QED
      BY <1>1, <3>1, <3>2, <3>3, Zenon
  <2> QED
    BY <1>9, <2>1, <2>2, Zenon
<1>13. \A v, u \in Evicting' : evictions'[v].owner = evictions'[u].owner => v = u
  <2>1. \A v \in Evicting' : /\ v \in E => evictions'[v].owner = t
                             /\ v \notin E => /\ v \in Evicting /\ evictions[v].owner # t
                                              /\ evictions'[v].owner = evictions[v].owner
    BY <1>4, <1>5, <1>6, <1>7, <1>9, Zenon
  <2> SUFFICES ASSUME NEW v \in Evicting', NEW u \in Evicting',
                      evictions'[v].owner = evictions'[u].owner
               PROVE  v = u
    BY Zenon
  <2>2. CASE v \in E
    BY <1>5, <2>1, <2>2, Zenon
  <2>3. CASE v \notin E
    <3>1. u \notin E /\ u \in Evicting /\ v \in Evicting
          /\ evictions[v].owner = evictions[u].owner
      BY <2>1, <2>3, Zenon
    <3> QED
      BY <3>1, Zenon DEF Flights
  <2> QED
    BY <2>2, <2>3, Zenon
<1>14. \A q \in Loading' : q \in Resident' \cup Evicting' => ~loads'[q].valid
  <2> SUFFICES ASSUME NEW q \in Loading', q \in Resident' \cup Evicting'
               PROVE  ~loads'[q].valid
    BY Zenon
  <2>1. q \in Resident \cup Evicting
    BY <1>1, <1>5, <1>9, Zenon
  <2>2. q # p /\ q \in Loading
    BY <1>1, <1>8, <2>1, Zenon
  <2>3. ~loads[q].valid /\ loads'[q] = loads[q]
    BY <1>3, <1>6, <2>1, <2>2, Zenon DEF Flights
  <2> QED
    BY <2>3, Zenon
<1> QED
  BY <1>8, <1>9, <1>10, <1>11, <1>12, <1>13, <1>14, ZenonT(60) DEF Flights

\* A miss that departs within the budget keeps the invariant.
LEMMA DepartKept ==
    ASSUME PoolInvariant, NEW t \in Threads, NEW p \in Pages, NEW x \in InFlight, NEW E,
           ColdMiss(t, p), guard' = guard, Thinned(frames, frames'),
           loads' = [loads EXCEPT ![p] = NewLoad(t)],
           pc' = [pc EXCEPT ![t] = x], want' = [want EXCEPT ![t] = p], waits' = waits,
           E # {} => x \in Detached,
           evictions' = [u \in Pages |-> evictions'[u]],
           \A u \in Pages : /\ IsFrame(evictions'[u].frame)
                            /\ evictions'[u].owner = IF u \in E THEN t ELSE evictions[u].owner,
           \A u \in E : u \in Resident /\ u \notin Resident',
           \A u, v \in E : u = v,
           (occupied_slots <= Capacity)'
    PROVE  PoolInvariant'
<1>1. Shapes /\ Flights /\ Fenced /\ \A u \in Threads : WaitOK(u)
  BY Zenon DEF PoolInvariant
<1>2. /\ pc \in [Threads -> Places] /\ want \in [Threads -> Pages]
      /\ loads \in [Pages -> Ticket]
      /\ \A u \in Pages : evictions[u].owner \in Owners
  BY <1>1, Zenon DEF Shapes
<1>3. Pinning(t, p) /\ p \notin Resident /\ p \notin Loading /\ p \notin Evicting
  BY Zenon DEF ColdMiss
<1>4. pc[t] \in {"idle", "retry"} /\ guard # Writer
  BY <1>3, PinningThread, Zenon
<1>5. NewLoad(t) \in Ticket /\ NewLoad(t).owner = t /\ t # NoThread /\ t \in Owners
  BY NewLoadIs, Zenon DEF Owners
<1>6. \A u \in Threads : /\ pc'[u] = IF u = t THEN x ELSE pc[u]
                         /\ want'[u] = IF u = t THEN p ELSE want[u]
  BY <1>2, Zenon
<1>7. \A q \in Pages : loads'[q] = IF q = p THEN NewLoad(t) ELSE loads[q]
  BY <1>2, Zenon
<1>8. \A q \in Pages : /\ q = p => loads'[q].owner = t
                       /\ q # p => loads'[q] = loads[q]
  BY <1>5, <1>7, Zenon
<1>9. pc[t] \notin InFlight /\ pc[t] # "wait" /\ x # "wait" /\ x \in Places
  BY <1>4, Zenon DEF InFlight, Places
<1>10. Resident' \subseteq Resident /\ IsTable(frames')
  BY ThinnedResident, Zenon
<1>11. Flights' /\ Loading' = Loading \cup {p} /\ Evicting' = Evicting \cup E
  <2>1. Departs(t, p, x, E)
    BY <1>3, <1>6, <1>8, <1>9, <1>10, Zenon DEF Departs
  <2> QED
    BY <1>1, <2>1, DepartFlights, Zenon
<1>12. \A u \in Threads : WaitOK(u)'
  <2> SUFFICES ASSUME NEW u \in Threads PROVE WaitOK(u)'
    BY Zenon
  <2>1. WaitOK(u) /\ waits'[u] = waits[u] /\ Loading \subseteq Loading'
    BY <1>1, <1>11, Zenon
  <2>2. (pc'[u] = "wait") <=> (pc[u] = "wait")
    BY <1>6, <1>9, Zenon
  <2>3. \A q \in Pages : loads[q].owner # NoThread => loads'[q].owner = loads[q].owner
    BY <1>3, <1>8, Zenon DEF Loading
  <2>4. \A v \in E : v \notin Evicting
    BY <1>1, Zenon DEF Flights
  <2>5. \A v \in Pages : evictions[v].owner # NoThread => evictions'[v].owner = evictions[v].owner
    BY <2>4, Zenon DEF Evicting
  <2> QED
    BY <2>1, <2>2, <2>3, <2>5, StandingWaits, Zenon
<1>13. Shapes'
  <2>1. pc' \in [Threads -> Places] /\ want' \in [Threads -> Pages]
    BY <1>2, <1>9, Zenon
  <2>2. loads' \in [Pages -> Ticket]
    BY <1>2, <1>5, Zenon
  <2>3. \A u \in Pages : evictions'[u].owner \in Owners /\ IsFrame(evictions'[u].frame)
    BY <1>2, <1>5, Zenon
  <2>4. waits' = [u \in Threads |-> waits'[u]]
    BY <1>1, Zenon DEF Shapes
  <2> QED
    BY <1>10, <2>1, <2>2, <2>3, <2>4, Zenon DEF Shapes
<1>14. Fenced'
  BY <1>1, <1>4, Zenon DEF Fenced
<1> QED
  BY <1>11, <1>12, <1>13, <1>14, Zenon DEF PoolInvariant

\* Dropping a victim from the table.
LEMMA VictimDropped ==
    ASSUME IsTable(frames), NEW v \in Pages, frames' = [frames EXCEPT ![v] = NoFrame]
    PROVE  Thinned(frames, frames') /\ Resident' \subseteq Resident \ {v}
<1>1. frames = [q \in Pages |-> frames[q]] /\ \A q \in Pages : IsFrame(frames[q])
  BY Zenon DEF IsTable
<1>2. /\ frames' = [q \in Pages |-> frames'[q]]
      /\ \A q \in Pages : frames'[q] = IF q = v THEN NoFrame ELSE frames[q]
  BY <1>1, EntrySet, Zenon
<1>3. Thinned(frames, frames')
  BY <1>1, <1>2, NoFrameIsFrame, Zenon DEF Thinned, IsTable
<1>4. Resident' \subseteq Resident \ {v}
  BY <1>2, NoFrameIsFrame, Zenon DEF Resident
<1> QED
  BY <1>3, <1>4, Zenon

\* A new ticket reserves a slot for one page.
LEMMA ReservedLoading ==
    ASSUME PoolInvariant, NEW t \in Threads, NEW p \in Pages,
           loads' = [loads EXCEPT ![p] = NewLoad(t)]
    PROVE  Loading' \subseteq Loading \cup {p}
<1>1. loads \in [Pages -> Ticket]
  BY Tables, Zenon
<1>2. \A q \in Pages : q # p => loads'[q] = loads[q]
  BY <1>1, Zenon
<1> QED
  BY <1>2, Zenon DEF Loading

\* A miss that finds a free slot keeps the invariant.
LEMMA PinReserveKept ==
    ASSUME PoolInvariant, NEW t \in Threads, NEW p \in Pages, PinReserve(t, p)
    PROVE  PoolInvariant'
<1>1. /\ evictions' = evictions /\ guard' = guard /\ waits' = waits /\ ColdMiss(t, p)
      /\ loads' = [loads EXCEPT ![p] = NewLoad(t)] /\ pc' = [pc EXCEPT ![t] = "read"]
      /\ want' = [want EXCEPT ![t] = p]
  BY Zenon DEF PinReserve, locks
<1>2. /\ evictions = [u \in Pages |-> evictions[u]]
      /\ \A u \in Pages : IsFrame(evictions[u].frame)
      /\ IsTable(frames) /\ occupied_slots <= Capacity
  BY Zenon DEF PoolInvariant, Shapes
<1>3. Loading' \subseteq Loading \cup {p}
  BY <1>1, ReservedLoading, Zenon
<1>4. Thinned(frames, frames') /\ (occupied_slots <= Capacity)'
  <2>1. CASE occupied_slots < Capacity /\ UNCHANGED frames
    <3>1. Thinned(frames, frames')
      BY <1>2, <2>1, TableKept, Zenon
    <3>2. Resident' \subseteq Resident
      BY <3>1, ThinnedResident, Zenon
    <3> QED
      BY <1>3, <2>1, <3>1, <3>2, BudgetReserves, Zenon
  <2>2. ASSUME NEW v \in Unpinned, frames' = [frames EXCEPT ![v] = NoFrame]
        PROVE  Thinned(frames, frames') /\ (occupied_slots <= Capacity)'
    <3>1. v \in Resident /\ v \in Pages
      BY <2>2, Zenon DEF Unpinned, Resident
    <3>2. Thinned(frames, frames') /\ Resident' \subseteq Resident \ {v}
      BY <1>2, <2>2, <3>1, VictimDropped, Zenon
    <3> QED
      BY <1>2, <1>3, <3>1, <3>2, BudgetHandsOver, Zenon
  <2> QED
    BY <2>1, <2>2, Zenon DEF PinReserve
<1>5. "read" \in InFlight
  BY Zenon DEF InFlight
<1>6. PICK E : E = {}
  BY Zenon
<1>7. \A u \in Pages : evictions'[u].owner = IF u \in E THEN t ELSE evictions[u].owner
  BY <1>1, <1>6, Zenon
<1> QED
  BY <1>1, <1>2, <1>4, <1>5, <1>6, <1>7, DepartKept, ZenonT(60)

\* A miss that detaches a victim keeps the invariant.
LEMMA PinEvictKept ==
    ASSUME PoolInvariant, NEW t \in Threads, NEW p \in Pages, PinEvict(t, p)
    PROVE  PoolInvariant'
<1>1. /\ guard' = guard /\ waits' = waits /\ ColdMiss(t, p)
      /\ loads' = [loads EXCEPT ![p] = NewLoad(t)] /\ pc' = [pc EXCEPT ![t] = "evict"]
      /\ want' = [want EXCEPT ![t] = p]
  BY Zenon DEF PinEvict, locks
<1>2. /\ evictions = [u \in Pages |-> evictions[u]]
      /\ \A u \in Pages : IsFrame(evictions[u].frame)
      /\ IsTable(frames) /\ occupied_slots <= Capacity
  BY Zenon DEF PoolInvariant, Shapes
<1>3. PICK v \in Unpinned :
        /\ evictions' = [evictions EXCEPT ![v] = [owner |-> t, frame |-> frames[v]]]
        /\ frames' = [frames EXCEPT ![v] = NoFrame]
  BY Zenon DEF PinEvict
<1>4. v \in Resident /\ v \in Pages
  BY Zenon DEF Unpinned, Resident
<1>5. Thinned(frames, frames') /\ Resident' \subseteq Resident \ {v}
  BY <1>2, <1>3, <1>4, VictimDropped, Zenon
<1>6. (occupied_slots <= Capacity)'
  <2>1. Loading' \subseteq Loading \cup {p}
    BY <1>1, ReservedLoading, Zenon
  <2> QED
    BY <1>2, <1>4, <1>5, <2>1, BudgetHandsOver, Zenon
<1>7. PICK y : y = [owner |-> t, frame |-> frames[v]]
  BY Zenon
<1>8. /\ evictions' = [u \in Pages |-> evictions'[u]]
      /\ \A u \in Pages : evictions'[u] = IF u = v THEN y ELSE evictions[u]
  BY <1>2, <1>3, <1>7, EntrySet, Zenon
<1>9. PICK E : E = {v}
  BY Zenon
<1>10. \A u \in Pages : /\ IsFrame(evictions'[u].frame)
                        /\ evictions'[u].owner = IF u \in E THEN t ELSE evictions[u].owner
  <2>1. IsFrame(frames[v])
    BY <1>2, <1>4, Zenon DEF IsTable
  <2>2. \A u \in Pages : u \in E <=> u = v
    BY <1>9, Zenon
  <2>3. y.owner = t /\ y.frame = frames[v]
    BY <1>7, Zenon
  <2> QED
    BY <1>2, <1>8, <2>1, <2>2, <2>3, Zenon
<1>11. /\ \A u \in E : u \in Resident /\ u \notin Resident'
       /\ \A u, q \in E : u = q
  BY <1>4, <1>5, <1>9, Zenon
<1>12. "evict" \in InFlight /\ "evict" \in Detached
  BY Zenon DEF InFlight, Detached
<1> QED
  BY <1>1, <1>5, <1>6, <1>8, <1>10, <1>11, <1>12, DepartKept, ZenonT(60)

-----------------------------------------------------------------------------
(* Flights and landings.                                                      *)

\* The device work of a flight.
LEMMA AirborneKept ==
    ASSUME PoolInvariant, NEW t \in Threads, NEW x, pc' = [pc EXCEPT ![t] = x],
           \/ pc[t] = "evict" /\ x = "settle"
           \/ pc[t] = "read" /\ x = "admit",
           frames' = frames, loads' = loads, evictions' = evictions, want' = want,
           waits' = waits, guard' = guard
    PROVE  PoolInvariant'
<1>1. Shapes /\ Flights /\ Fenced /\ occupied_slots <= Capacity /\ \A u \in Threads : WaitOK(u)
  BY Zenon DEF PoolInvariant
<1>2. pc \in [Threads -> Places] /\ loads \in [Pages -> Ticket] /\ want \in [Threads -> Pages]
  BY <1>1, Zenon DEF Shapes
<1>3. \A u \in Threads : pc'[u] = IF u = t THEN x ELSE pc[u]
  BY <1>2, Zenon
<1>4. /\ x \in Places /\ x \in InFlight /\ pc[t] \in InFlight
      /\ x \in Detached <=> pc[t] \in Detached
      /\ x # "wait" /\ pc[t] # "wait"
  BY Zenon DEF Places, InFlight, Detached
<1>5. Still
  <2>1. Marked(loads, loads')
    BY <1>2, TicketMarks, Zenon
  <2> QED
    BY <1>3, <1>4, <2>1, Zenon DEF Still
<1>6. Resident' = Resident
  BY Zenon DEF Resident
<1>7. Flights' /\ Loading' = Loading /\ Evicting' = Evicting
  BY <1>1, <1>5, <1>6, StillFlights, Zenon
<1>8. (occupied_slots <= Capacity)'
  BY <1>1, <1>6, <1>7, BudgetShrinks, Zenon
<1>9. \A u \in Threads : WaitOK(u)'
  <2> SUFFICES ASSUME NEW u \in Threads PROVE WaitOK(u)'
    BY Zenon
  <2>1. (pc'[u] = "wait") <=> (pc[u] = "wait")
    BY <1>3, <1>4, Zenon
  <2> QED
    BY <1>1, <1>7, <2>1, StandingWaits, Zenon
<1>10. Shapes'
  <2>1. pc' \in [Threads -> Places]
    BY <1>2, <1>4, Zenon
  <2> QED
    BY <1>1, <2>1, Zenon DEF Shapes
<1>11. Fenced'
  <2>1. want[t] \in Pages /\ loads[want[t]].owner = t /\ t # NoThread
    BY <1>1, <1>2, <1>4, PoolAssumption, Zenon DEF Flights
  <2>2. Loading # {}
    BY <2>1, Zenon DEF Loading
  <2> QED
    BY <1>1, <2>2, Zenon DEF Fenced
<1> QED
  BY <1>7, <1>8, <1>9, <1>10, <1>11, ZenonT(60) DEF PoolInvariant

\* Writing the victim out and reading the page happen outside the guard and leave the
\* tables alone.
LEMMA AirborneSteps ==
    ASSUME PoolInvariant, NEW t \in Threads, NEW v, EvictPublish(t, v) \/ ReadPage(t)
    PROVE  PoolInvariant'
<1>1. CASE EvictPublish(t, v)
  BY <1>1, AirborneKept, Zenon DEF EvictPublish, pool, locks
<1>2. CASE ReadPage(t)
  BY <1>2, AirborneKept, Zenon DEF ReadPage, pool, locks
<1> QED
  BY <1>1, <1>2, Zenon

\* The thread of a flight reports: the waiters are signalled and no other thread moves.
Reported(t, x) ==
    /\ \A u \in Threads : WaitOK(u)'
    /\ pc' \in [Threads -> Places] /\ waits' = [u \in Threads |-> waits'[u]]
    /\ pc'[t] = x
    /\ \A u \in Threads : u # t => /\ pc'[u] \in InFlight <=> pc[u] \in InFlight
                                   /\ pc'[u] \in Detached <=> pc[u] \in Detached

\* A flight that reports wakes whoever waits for it and moves its own thread.
LEMMA ReportedThreads ==
    ASSUME PoolInvariant, NEW t \in Threads, pc[t] \in InFlight,
           NEW x \in {"read", "idle", "retry"},
           Signal([pc EXCEPT ![t] = x], loads', evictions')
    PROVE  Reported(t, x)
<1>1. pc \in [Threads -> Places] /\ \A u \in Threads : WaitOK(u)
  BY Zenon DEF PoolInvariant, Shapes
<1>2. PICK pcs : pcs = [pc EXCEPT ![t] = x]
  BY Zenon
<1>3. \A u \in Threads : pcs[u] = IF u = t THEN x ELSE pc[u]
  BY <1>1, <1>2, Zenon
<1>4. pc[t] # "wait" /\ x # "wait" /\ x \in Places
  BY Zenon DEF InFlight, Places
<1>5. Signal(pcs, loads', evictions')
  BY <1>2, Zenon
<1>6. \A u \in Threads : (pcs[u] = "wait") <=> (pc[u] = "wait")
  BY <1>3, <1>4, Zenon
<1>7. \A u \in Threads : /\ WaitOK(u)'
                         /\ pc[u] # "wait" => pc'[u] = pcs[u]
                         /\ pc[u] = "wait" => pc'[u] \in {"wait", "retry"}
  BY <1>1, <1>5, <1>6, SignalledWaits, Zenon
<1>8. pc'[t] = x
  BY <1>3, <1>4, <1>7, Zenon
<1>9. ASSUME NEW u \in Threads, u # t
      PROVE  /\ pc'[u] \in InFlight <=> pc[u] \in InFlight
             /\ pc'[u] \in Detached <=> pc[u] \in Detached
             /\ pc'[u] \in Places
  <2>1. CASE pc[u] # "wait"
    BY <1>1, <1>3, <1>7, <1>9, <2>1, Zenon
  <2>2. CASE pc[u] = "wait"
    <3>1. pc'[u] \in {"wait", "retry"}
      BY <1>7, <2>2, Zenon
    <3> QED
      BY <2>2, <3>1, Zenon DEF InFlight, Detached, Places
  <2> QED
    BY <2>1, <2>2, Zenon
<1>10. pc' = [u \in Threads |-> pc'[u]] /\ waits' = [u \in Threads |-> waits'[u]]
  BY <1>5, Signalled, Zenon
<1>11. \A u \in Threads : pc'[u] \in Places
  BY <1>4, <1>8, <1>9, Zenon
<1>12. pc' \in [Threads -> Places]
  BY <1>10, <1>11, Zenon
<1> QED
  BY <1>7, <1>8, <1>9, <1>10, <1>12, ZenonT(60) DEF Reported

\* A thread in flight has a reservation and nobody keeps the guard.
LEMMA ThreadInFlight ==
    ASSUME PoolInvariant, NEW t \in Threads, pc[t] \in InFlight
    PROVE  /\ want[t] \in Pages /\ loads[want[t]].owner = t /\ t # NoThread
           /\ want[t] \in Loading /\ guard # Writer
<1>1. want[t] \in Pages /\ loads[want[t]].owner = t /\ t # NoThread
  BY PoolAssumption, ZenonT(60) DEF PoolInvariant, Shapes, Flights
<1>2. want[t] \in Loading
  BY <1>1, Zenon DEF Loading
<1> QED
  BY <1>1, <1>2, Zenon DEF PoolInvariant, Fenced

\* Settling a written victim ends its eviction and goes on to the load.
LEMMA EvictSettleKept ==
    ASSUME PoolInvariant, NEW t \in Threads, NEW v \in Pages, EvictSettle(t, v)
    PROVE  PoolInvariant'
<1>1. /\ frames' = frames /\ guard' = guard /\ want' = want
      /\ evictions' = [evictions EXCEPT ![v] = NoEviction]
      /\ loads' = [loads EXCEPT ![want[t]].current = TRUE]
      /\ pc[t] = "settle" /\ evictions[v].owner = t
  BY Zenon DEF EvictSettle, locks
<1>2. pc[t] \in InFlight /\ pc[t] \in Detached /\ "read" \in InFlight /\ "read" \notin Detached
  BY <1>1, Zenon DEF InFlight, Detached
<1>3. Signal([pc EXCEPT ![t] = "read"], loads', evictions')
  BY Zenon DEF EvictSettle
<1>4. Reported(t, "read")
  BY <1>2, <1>3, ReportedThreads, Zenon
<1>5. Shapes /\ Flights /\ Fenced /\ occupied_slots <= Capacity
  BY Zenon DEF PoolInvariant
<1>6. /\ guard # Writer /\ t # NoThread
      /\ \A q \in Loading : loads[q].owner \in Threads
      /\ \A u \in Evicting : evictions[u].owner \in Threads
      /\ \A u \in Threads : want[u] \in Pages
  BY <1>2, <1>5, ThreadInFlight, TicketOwners, Zenon DEF Shapes
<1>7. Marked(loads, loads')
  <2>1. loads \in [Pages -> Ticket]
    BY Tables, Zenon
  <2>2. PICK p, k : /\ k = [loads[p] EXCEPT !.current = TRUE]
                    /\ loads' = [loads EXCEPT ![p] = k]
    BY <1>1, Zenon
  <2>3. Restamped(loads[p], k)
    BY <2>2, Zenon DEF Restamped
  <2> QED
    BY <2>1, <2>2, <2>3, TicketMark, Zenon
<1>8. \A q \in Pages : loads'[q].owner = loads[q].owner /\ (loads'[q].valid => loads[q].valid)
  BY <1>7, Zenon DEF Marked
<1>9. /\ evictions' = [u \in Pages |-> evictions'[u]]
      /\ \A u \in Pages : evictions'[u] = IF u = v THEN NoEviction ELSE evictions[u]
  BY <1>1, <1>5, EntrySet, Zenon DEF Shapes
<1>10. NoEviction.owner = NoThread /\ NoEviction.frame = NoFrame
  BY Zenon DEF NoEviction
<1>11. Loading' = Loading /\ Resident' = Resident
  BY <1>1, <1>8, Zenon DEF Loading, Resident
<1>12. \A u \in Evicting' : u \in Evicting /\ u # v /\ evictions'[u] = evictions[u]
  BY <1>9, <1>10, Zenon DEF Evicting
<1>13. v \in Evicting
  BY <1>1, <1>6, Zenon DEF Evicting
<1>14. \A u \in Evicting' : evictions[u].owner # t
  BY <1>1, <1>5, <1>12, <1>13, Zenon DEF Flights
<1>15. Flights'
  <2>1. \A q \in Loading' : want'[loads'[q].owner] = q /\ pc'[loads'[q].owner] \in InFlight
    <3> SUFFICES ASSUME NEW q \in Loading
                 PROVE  want'[loads'[q].owner] = q /\ pc'[loads'[q].owner] \in InFlight
      BY <1>11, Zenon
    <3>1. loads'[q].owner = loads[q].owner /\ loads[q].owner \in Threads
      BY <1>6, <1>8, TableSets, Zenon
    <3>2. want[loads[q].owner] = q /\ pc[loads[q].owner] \in InFlight
      BY <1>5, Zenon DEF Flights
    <3>3. pc'[loads[q].owner] \in InFlight
      BY <1>2, <1>4, <3>1, <3>2, Zenon DEF Reported
    <3> QED
      BY <1>1, <3>1, <3>2, <3>3, Zenon
  <2>2. \A u \in Threads : pc'[u] \in InFlight => loads'[want'[u]].owner = u
    <3> SUFFICES ASSUME NEW u \in Threads, pc'[u] \in InFlight
                 PROVE  loads'[want'[u]].owner = u
      BY Zenon
    <3>1. pc[u] \in InFlight
      BY <1>2, <1>4, Zenon DEF Reported
    <3>2. loads[want[u]].owner = u
      BY <1>5, <3>1, Zenon DEF Flights
    <3> QED
      BY <1>1, <1>6, <1>8, <3>2, Zenon
  <2>3. \A u \in Evicting' : pc'[evictions'[u].owner] \in Detached /\ u \notin Resident'
    <3> SUFFICES ASSUME NEW u \in Evicting'
                 PROVE  pc'[evictions'[u].owner] \in Detached /\ u \notin Resident'
      BY Zenon
    <3>1. evictions'[u] = evictions[u] /\ evictions[u].owner \in Threads
          /\ evictions[u].owner # t /\ u \in Evicting
      BY <1>6, <1>12, <1>14, Zenon
    <3>2. pc[evictions[u].owner] \in Detached /\ u \notin Resident
      BY <1>5, <3>1, Zenon DEF Flights
    <3> QED
      BY <1>4, <1>11, <3>1, <3>2, Zenon DEF Reported
  <2>4. \A a, b \in Evicting' : evictions'[a].owner = evictions'[b].owner => a = b
    <3> SUFFICES ASSUME NEW a \in Evicting', NEW b \in Evicting',
                        evictions'[a].owner = evictions'[b].owner
                 PROVE  a = b
      BY Zenon
    <3>1. a \in Evicting /\ b \in Evicting /\ evictions[a].owner = evictions[b].owner
      BY <1>12, Zenon
    <3> QED
      BY <1>5, <3>1, Zenon DEF Flights
  <2>5. \A q \in Loading' : q \in Resident' \cup Evicting' => ~loads'[q].valid
    BY <1>5, <1>8, <1>11, <1>12, TableSets, Zenon DEF Flights
  <2> QED
    BY <2>1, <2>2, <2>3, <2>4, <2>5, ZenonT(60) DEF Flights
<1>16. (occupied_slots <= Capacity)'
  BY <1>5, <1>11, BudgetShrinks, Zenon
<1>17. Shapes'
  <2>1. \A u \in Pages : evictions'[u].owner \in Owners /\ IsFrame(evictions'[u].frame)
    BY <1>5, <1>9, <1>10, NoFrameIsFrame, Zenon DEF Shapes, Owners
  <2>2. loads' \in [Pages -> Ticket]
    BY <1>7, Zenon DEF Marked
  <2>3. pc' \in [Threads -> Places] /\ waits' = [u \in Threads |-> waits'[u]]
    BY <1>4, Zenon DEF Reported
  <2> QED
    BY <1>1, <1>5, <1>9, <2>1, <2>2, <2>3, ZenonT(60) DEF Shapes
<1>18. Fenced'
  BY <1>1, <1>5, <1>6, Zenon DEF Fenced
<1> QED
  BY <1>4, <1>15, <1>16, <1>17, <1>18, ZenonT(60) DEF PoolInvariant, Reported

\* The flight of t lands: its tickets go, and the page r may be resident now.
Lands(t, q, r) ==
    /\ guard' = guard /\ q \in Pages /\ want' = [want EXCEPT ![t] = q]
    /\ loads' = [loads EXCEPT ![want[t]] = NoLoad]
    /\ evictions' = [u \in Pages |-> evictions'[u]]
    /\ \A u \in Pages : /\ evictions[u].owner = t => evictions'[u] = NoEviction
                        /\ evictions[u].owner # t => evictions'[u] = evictions[u]
    /\ IsTable(frames') /\ Resident' \subseteq Resident \cup {r}
    /\ r \notin Evicting' /\ (r \in Loading' => ~loads[r].valid)

\* A flight that ends, with or without a frame, keeps the invariant.
LEMMA LandKept ==
    ASSUME PoolInvariant, NEW t \in Threads, pc[t] \in InFlight, NEW x \in {"idle", "retry"},
           NEW q, NEW r, Lands(t, q, r), Reported(t, x)
    PROVE  PoolInvariant'
<1>1. Shapes /\ Flights /\ Fenced /\ occupied_slots <= Capacity
  BY Zenon DEF PoolInvariant
<1>2. /\ guard' = guard /\ q \in Pages /\ want' = [want EXCEPT ![t] = q]
      /\ loads' = [loads EXCEPT ![want[t]] = NoLoad]
      /\ IsTable(frames') /\ Resident' \subseteq Resident \cup {r}
      /\ r \notin Evicting' /\ (r \in Loading' => ~loads[r].valid)
  BY Zenon DEF Lands
<1>3. /\ evictions' = [u \in Pages |-> evictions'[u]]
      /\ \A u \in Pages : /\ evictions[u].owner = t => evictions'[u] = NoEviction
                          /\ evictions[u].owner # t => evictions'[u] = evictions[u]
  BY Zenon DEF Lands
<1>4. /\ want[t] \in Pages /\ loads[want[t]].owner = t /\ t # NoThread
      /\ want[t] \in Loading /\ guard # Writer
  BY ThreadInFlight, Zenon
<1>5. loads \in [Pages -> Ticket] /\ want \in [Threads -> Pages]
  BY <1>1, Zenon DEF Shapes
<1>6. NoLoad \in Ticket /\ NoLoad.owner = NoThread
  <2>1. NoThread \in Owners
    BY Zenon DEF Owners
  <2>2. NoLoad \in Ticket
    BY <2>1, SMT DEF NoLoad, Ticket
  <2>3. NoLoad.owner = NoThread
    BY Zenon DEF NoLoad
  <2> QED
    BY <2>2, <2>3, Zenon
<1>7. NoEviction.owner = NoThread /\ NoEviction.frame = NoFrame
  BY Zenon DEF NoEviction
<1>8. \A p \in Pages : /\ p = want[t] => loads'[p].owner = NoThread
                       /\ p # want[t] => loads'[p] = loads[p]
  BY <1>2, <1>5, <1>6, Zenon
<1>9. \A u \in Threads : u # t => want'[u] = want[u]
  BY <1>2, <1>5, Zenon
<1>10. \A p \in Loading' : /\ p \in Pages /\ p \in Loading /\ p # want[t]
                           /\ loads'[p] = loads[p]
  BY <1>8, Zenon DEF Loading
<1>11. \A u \in Evicting' : /\ u \in Evicting /\ evictions[u].owner # t
                            /\ evictions'[u] = evictions[u]
  BY <1>3, <1>7, Zenon DEF Evicting
<1>12. /\ \A p \in Loading : loads[p].owner \in Threads
       /\ \A u \in Evicting : evictions[u].owner \in Threads
       /\ \A u \in Threads : want[u] \in Pages /\ u # NoThread
  BY <1>1, <1>5, TicketOwners, PoolAssumption, Zenon
<1>13. /\ pc'[t] \notin InFlight
       /\ \A u \in Threads : u # t => /\ pc'[u] \in InFlight <=> pc[u] \in InFlight
                                      /\ pc'[u] \in Detached <=> pc[u] \in Detached
  <2>1. x \notin InFlight
    BY Zenon DEF InFlight
  <2> QED
    BY <2>1, Zenon DEF Reported
<1>14. \A p \in Loading' : want'[loads'[p].owner] = p /\ pc'[loads'[p].owner] \in InFlight
  <2> SUFFICES ASSUME NEW p \in Loading'
               PROVE  want'[loads'[p].owner] = p /\ pc'[loads'[p].owner] \in InFlight
    BY Zenon
  <2>1. p \in Loading /\ p # want[t] /\ loads'[p] = loads[p] /\ loads[p].owner \in Threads
    BY <1>10, <1>12, Zenon
  <2>2. want[loads[p].owner] = p /\ pc[loads[p].owner] \in InFlight
    BY <1>1, <2>1, Zenon DEF Flights
  <2>3. loads[p].owner # t
    BY <2>1, <2>2, Zenon
  <2>4. want'[loads[p].owner] = p /\ pc'[loads[p].owner] \in InFlight
    BY <1>9, <1>13, <2>1, <2>2, <2>3, ZenonT(60)
  <2> QED
    BY <2>1, <2>4, Zenon
<1>15. \A u \in Threads : pc'[u] \in InFlight => loads'[want'[u]].owner = u
  <2> SUFFICES ASSUME NEW u \in Threads, pc'[u] \in InFlight
               PROVE  loads'[want'[u]].owner = u
    BY Zenon
  <2>1. u # t /\ pc[u] \in InFlight /\ want'[u] = want[u] /\ want[u] \in Pages
    BY <1>9, <1>12, <1>13, Zenon
  <2>2. loads[want[u]].owner = u
    BY <1>1, <2>1, Zenon DEF Flights
  <2>3. want[u] # want[t]
    BY <1>4, <2>1, <2>2, Zenon
  <2> QED
    BY <1>8, <2>1, <2>2, <2>3, Zenon
<1>16. \A u \in Evicting' : pc'[evictions'[u].owner] \in Detached /\ u \notin Resident'
  <2> SUFFICES ASSUME NEW u \in Evicting'
               PROVE  pc'[evictions'[u].owner] \in Detached /\ u \notin Resident'
    BY Zenon
  <2>1. /\ u \in Evicting /\ evictions[u].owner # t /\ evictions'[u] = evictions[u]
        /\ evictions[u].owner \in Threads /\ u # r
    BY <1>2, <1>11, <1>12, Zenon
  <2>2. pc[evictions[u].owner] \in Detached /\ u \notin Resident
    BY <1>1, <2>1, Zenon DEF Flights
  <2>3. pc'[evictions[u].owner] \in Detached
    BY <1>13, <2>1, <2>2, Zenon
  <2> QED
    BY <1>2, <2>1, <2>2, <2>3, Zenon
<1>17. \A a, b \in Evicting' : evictions'[a].owner = evictions'[b].owner => a = b
  <2> SUFFICES ASSUME NEW a \in Evicting', NEW b \in Evicting',
                      evictions'[a].owner = evictions'[b].owner
               PROVE  a = b
    BY Zenon
  <2>1. a \in Evicting /\ b \in Evicting /\ evictions[a].owner = evictions[b].owner
    BY <1>11, Zenon
  <2> QED
    BY <1>1, <2>1, Zenon DEF Flights
<1>18. \A p \in Loading' : p \in Resident' \cup Evicting' => ~loads'[p].valid
  <2> SUFFICES ASSUME NEW p \in Loading', p \in Resident' \cup Evicting'
               PROVE  ~loads'[p].valid
    BY Zenon
  <2>1. p \in Loading /\ loads'[p] = loads[p]
    BY <1>10, Zenon
  <2>2. p = r \/ p \in Resident \cup Evicting
    BY <1>2, <1>11, Zenon
  <2>3. ~loads[p].valid
    BY <1>1, <1>2, <2>1, <2>2, Zenon DEF Flights
  <2> QED
    BY <2>1, <2>3, Zenon
<1>19. Flights'
  BY <1>14, <1>15, <1>16, <1>17, <1>18, Zenon DEF Flights
<1>20. (occupied_slots <= Capacity)'
  <2>1. Loading' \subseteq Loading \ {want[t]}
    BY <1>10, Zenon
  <2> QED
    BY <1>1, <1>2, <1>4, <2>1, BudgetLands, ZenonT(60)
<1>21. Shapes'
  <2>1. \A u \in Pages : evictions'[u].owner \in Owners /\ IsFrame(evictions'[u].frame)
    BY <1>1, <1>3, <1>7, NoFrameIsFrame, Zenon DEF Shapes, Owners
  <2>2. loads' \in [Pages -> Ticket] /\ want' \in [Threads -> Pages]
    BY <1>2, <1>5, <1>6, Zenon
  <2>3. pc' \in [Threads -> Places] /\ waits' = [u \in Threads |-> waits'[u]]
    BY Zenon DEF Reported
  <2> QED
    BY <1>2, <1>3, <2>1, <2>2, <2>3, Zenon DEF Shapes
<1>22. Fenced'
  BY <1>1, <1>2, <1>4, Zenon DEF Fenced
<1>23. \A u \in Threads : WaitOK(u)'
  BY Zenon DEF Reported
<1> QED
  BY <1>19, <1>20, <1>21, <1>22, <1>23, Zenon DEF PoolInvariant

\* A victim that could not be written goes back and the load is given up.
LEMMA EvictRestoreKept ==
    ASSUME PoolInvariant, NEW t \in Threads, NEW v \in Pages, EvictRestore(t, v)
    PROVE  PoolInvariant'
<1>1. /\ guard' = guard /\ want' = [want EXCEPT ![t] = Header]
      /\ loads' = [loads EXCEPT ![want[t]] = NoLoad]
      /\ evictions' = [evictions EXCEPT ![v] = NoEviction]
      /\ frames' = [frames EXCEPT ![v] = evictions[v].frame]
      /\ pc[t] = "evict" /\ evictions[v].owner = t
  BY Zenon DEF EvictRestore, locks
<1>2. pc[t] \in InFlight
  BY <1>1, Zenon DEF InFlight
<1>3. Signal([pc EXCEPT ![t] = "idle"], loads', evictions')
  BY Zenon DEF EvictRestore
<1>4. Reported(t, "idle")
  BY <1>2, <1>3, ReportedThreads, Zenon
<1>5. Shapes /\ Flights
  BY Zenon DEF PoolInvariant
<1>6. t # NoThread
  BY <1>2, ThreadInFlight, Zenon
<1>7. v \in Evicting
  BY <1>1, <1>6, Zenon DEF Evicting
<1>8. \A u \in Pages : evictions[u].owner = t => u = v
  BY <1>1, <1>5, <1>6, <1>7, Zenon DEF Flights, Evicting
<1>9. /\ evictions' = [u \in Pages |-> evictions'[u]]
      /\ \A u \in Pages : evictions'[u] = IF u = v THEN NoEviction ELSE evictions[u]
  BY <1>1, <1>5, EntrySet, Zenon DEF Shapes
<1>10. \A u \in Pages : /\ evictions[u].owner = t => evictions'[u] = NoEviction
                        /\ evictions[u].owner # t => evictions'[u] = evictions[u]
  BY <1>1, <1>8, <1>9, Zenon
<1>11. NoEviction.owner = NoThread
  BY Zenon DEF NoEviction
<1>12. v \notin Evicting'
  BY <1>9, <1>11, Zenon DEF Evicting
<1>13. IsTable(frames') /\ Resident' \subseteq Resident \cup {v}
  <2>1. frames = [q \in Pages |-> frames[q]] /\ \A q \in Pages : IsFrame(frames[q])
    BY <1>5, Zenon DEF Shapes, IsTable
  <2>2. PICK y : y = evictions[v].frame /\ IsFrame(y)
    BY <1>5, Zenon DEF Shapes
  <2>3. frames' = [frames EXCEPT ![v] = y]
    BY <1>1, <2>2, Zenon
  <2>4. /\ frames' = [q \in Pages |-> frames'[q]]
        /\ \A q \in Pages : frames'[q] = IF q = v THEN y ELSE frames[q]
    BY <2>1, <2>3, EntrySet, Zenon
  <2>5. IsTable(frames')
    BY <2>1, <2>2, <2>4, Zenon DEF IsTable
  <2>6. Resident' \subseteq Resident \cup {v}
    BY <2>4, Zenon DEF Resident
  <2> QED
    BY <2>5, <2>6, Zenon
<1>14. v \in Loading' => ~loads[v].valid
  <2>1. loads \in [Pages -> Ticket] /\ NoLoad.owner = NoThread
    BY <1>5, Zenon DEF Shapes, NoLoad
  <2>2. v \in Loading' => v \in Loading
    BY <1>1, <2>1, Zenon DEF Loading
  <2> QED
    BY <1>5, <1>7, <2>2, Zenon DEF Flights
<1>15. Lands(t, Header, v)
  BY <1>1, <1>9, <1>10, <1>12, <1>13, <1>14, NoWaitIs, ZenonT(60) DEF Lands
<1> QED
  BY <1>2, <1>4, <1>15, LandKept, Zenon

\* A thread without a victim has no eviction ticket.
LEMMA NoVictimInHand ==
    ASSUME PoolInvariant, NEW t \in Threads, pc[t] \notin Detached
    PROVE  \A u \in Pages : evictions[u].owner # t
<1>1. t # NoThread
  BY PoolAssumption, Zenon
<1> QED
  BY <1>1, Zenon DEF PoolInvariant, Flights, Evicting

\* A load whose read fails gives up its reservation.
LEMMA ReadFailsKept ==
    ASSUME PoolInvariant, NEW t \in Threads, ReadFails(t)
    PROVE  PoolInvariant'
<1>1. /\ guard' = guard /\ want' = [want EXCEPT ![t] = Header] /\ frames' = frames
      /\ loads' = [loads EXCEPT ![want[t]] = NoLoad] /\ evictions' = evictions
      /\ pc[t] = "read"
  BY Zenon DEF ReadFails, locks
<1>2. pc[t] \in InFlight /\ pc[t] \notin Detached
  BY <1>1, Zenon DEF InFlight, Detached
<1>3. Signal([pc EXCEPT ![t] = "idle"], loads', evictions')
  BY <1>1, Zenon DEF ReadFails
<1>4. Reported(t, "idle")
  BY <1>2, <1>3, ReportedThreads, Zenon
<1>5. \A u \in Pages : evictions[u].owner # t
  BY <1>2, NoVictimInHand, Zenon
<1>6. want[t] \in Pages
  BY <1>2, ThreadInFlight, Zenon
<1>7. PICK r : r \notin Pages
  <2>1. MaxPages \notin Pages
    BY PoolAssumption, SMT DEF Pages
  <2> QED
    BY <2>1, Zenon
<1>8. r \notin Evicting' /\ r \notin Loading'
  BY <1>7, Zenon DEF Evicting, Loading
<1>9. /\ IsTable(frames') /\ Resident' = Resident
      /\ evictions' = [u \in Pages |-> evictions'[u]]
  BY <1>1, Zenon DEF PoolInvariant, Shapes, Resident
<1>10. Lands(t, Header, r)
  BY <1>1, <1>5, <1>8, <1>9, NoWaitIs, ZenonT(60) DEF Lands
<1> QED
  BY <1>2, <1>4, <1>10, LandKept, Zenon

\* A load that ends admits its frame, or finds itself spoilt and retries.
LEMMA AdmitKept ==
    ASSUME PoolInvariant, NEW t \in Threads, Admit(t)
    PROVE  PoolInvariant'
<1> DEFINE p == want[t]
           usable == loads[p].valid /\ loads[p].current
           there == p \in Resident \/ usable
<1>1. /\ guard' = guard /\ pc[t] = "admit" /\ evictions' = evictions
      /\ loads' = [loads EXCEPT ![want[t]] = NoLoad]
      /\ want' = [want EXCEPT ![t] = IF there THEN Header ELSE p]
  BY Zenon DEF Admit, locks
<1>2. pc[t] \in InFlight /\ pc[t] \notin Detached
  BY <1>1, Zenon DEF InFlight, Detached
<1>3. p \in Pages /\ p \in Loading
  BY <1>2, ThreadInFlight, Zenon
<1>4. PICK x \in {"idle", "retry"} : Reported(t, x)
  <2>1. PICK x \in {"idle", "retry"} : x = IF there THEN "idle" ELSE "retry"
    BY Zenon
  <2>2. Signal([pc EXCEPT ![t] = x], loads', evictions')
    BY <1>1, <2>1, Zenon DEF Admit
  <2> QED
    BY <1>2, <2>2, ReportedThreads, Zenon
<1>5. PICK q \in Pages : want' = [want EXCEPT ![t] = q]
  BY <1>1, <1>3, NoWaitIs, Zenon
<1>6. PICK o : frames' = CASE p \in Resident -> [frames EXCEPT ![p].pins = @ + 1]
                           [] p \notin Resident /\ usable ->
                                 [frames EXCEPT ![p] = [obj |-> o, pins |-> 1, img |-> got[t],
                                                        dirty |-> FALSE]]
                           [] OTHER -> frames
  BY Zenon DEF Admit
<1>7. \/ p \in Resident /\ frames' = [frames EXCEPT ![p].pins = @ + 1]
      \/ usable /\ frames' = [frames EXCEPT ![p] = [obj |-> o, pins |-> 1, img |-> got[t],
                                                     dirty |-> FALSE]]
      \/ frames' = frames
  BY <1>6, Zenon
<1>8. \A u \in Pages : evictions[u].owner # t
  BY <1>2, NoVictimInHand, Zenon
<1>9. /\ IsTable(frames) /\ loads \in [Pages -> Ticket]
      /\ evictions = [u \in Pages |-> evictions[u]]
  BY Zenon DEF PoolInvariant, Shapes
<1>10. NoLoad.owner = NoThread
  BY Zenon DEF NoLoad
<1>11. p \notin Loading'
  BY <1>1, <1>9, <1>10, Zenon DEF Loading
<1>12. Evicting' = Evicting
  BY <1>1, Zenon DEF Evicting
<1>13. PICK r : /\ IsTable(frames') /\ Resident' \subseteq Resident \cup {r}
                /\ r \notin Evicting /\ r \notin Loading'
  <2>0. PICK z : z \notin Pages
    <3>1. MaxPages \notin Pages
      BY PoolAssumption, SMT DEF Pages
    <3> QED
      BY <3>1, Zenon
  <2>1. z \notin Evicting /\ z \notin Loading'
    BY <2>0, Zenon DEF Evicting, Loading
  <2>2. ASSUME Thinned(frames, frames') PROVE IsTable(frames') /\ Resident' \subseteq Resident
    BY <2>2, ThinnedResident, Zenon
  <2>3. CASE frames' = frames
    BY <1>9, <2>1, <2>2, <2>3, TableKept, Zenon
  <2>4. CASE frames' = [frames EXCEPT ![p].pins = @ + 1]
    <3>1. PICK y : y = [frames[p] EXCEPT !.pins = frames[p].pins + 1]
      BY Zenon
    <3>2. frames' = [frames EXCEPT ![p] = y] /\ Edited(frames[p], y)
      BY <2>4, <3>1, Zenon DEF Edited
    <3>3. Thinned(frames, frames')
      BY <1>9, <3>2, TableEdits, Zenon
    <3> QED
      BY <2>1, <2>2, <3>3, Zenon
  <2>5. CASE usable /\ frames' = [frames EXCEPT ![p] = [obj |-> o, pins |-> 1, img |-> got[t],
                                                         dirty |-> FALSE]]
    <3>1. p \notin Evicting
      BY <1>3, <2>5, Zenon DEF PoolInvariant, Flights
    <3>2. PICK y : /\ y = [obj |-> o, pins |-> 1, img |-> got[t], dirty |-> FALSE]
                   /\ IsFrame(y)
      BY FrameOf, Zenon
    <3>3. frames' = [frames EXCEPT ![p] = y]
      BY <2>5, <3>2, Zenon
    <3>4. frames = [u \in Pages |-> frames[u]] /\ \A u \in Pages : IsFrame(frames[u])
      BY <1>9, Zenon DEF IsTable
    <3>5. /\ frames' = [u \in Pages |-> frames'[u]]
          /\ \A u \in Pages : frames'[u] = IF u = p THEN y ELSE frames[u]
      BY <3>3, <3>4, EntrySet, Zenon
    <3>6. IsTable(frames')
      BY <3>2, <3>4, <3>5, Zenon DEF IsTable
    <3>7. Resident' \subseteq Resident \cup {p}
      BY <3>5, Zenon DEF Resident
    <3> QED
      BY <1>11, <3>1, <3>6, <3>7, ZenonT(60)
  <2> QED
    BY <1>7, <2>3, <2>4, <2>5, Zenon
<1>14. Lands(t, q, r)
  BY <1>1, <1>5, <1>8, <1>9, <1>12, <1>13, ZenonT(60) DEF Lands
<1> QED
  BY <1>2, <1>4, <1>14, LandKept, ZenonT(60)

-----------------------------------------------------------------------------
(* The theorems.                                                              *)

\* The empty pool satisfies the invariant.
LEMMA InitPool ==
    ASSUME Init
    PROVE  PoolInvariant
<1>1. /\ frames = [p \in Pages |-> NoFrame] /\ loads = [p \in Pages |-> NoLoad]
      /\ evictions = [p \in Pages |-> NoEviction] /\ guard = NoThread
      /\ pc = [t \in Threads |-> "idle"] /\ want = [t \in Threads |-> Header]
      /\ waits = [t \in Threads |-> NoWait]
  BY Zenon DEF Init
<1>2. /\ NoLoad.owner = NoThread /\ NoEviction.owner = NoThread /\ NoEviction.frame = NoFrame
      /\ NoThread \in Owners /\ IsFrame(NoFrame) /\ NoFrame.obj = 0
      /\ Header \in Pages /\ NoWait.on = "none" /\ NoWait.page = Header
  BY NoFrameIsFrame, NoWaitIs, Zenon DEF NoLoad, NoEviction, Owners
<1>3. NoLoad \in Ticket
  BY <1>2, SMT DEF NoLoad, Ticket
<1>4. Resident = {} /\ Loading = {} /\ Evicting = {}
  BY <1>1, <1>2, Zenon DEF Resident, Loading, Evicting
<1>5. "idle" \in Places /\ "idle" \notin InFlight
  BY Zenon DEF Places, InFlight
<1>6. Shapes
  <2>1. IsTable(frames)
    BY <1>1, <1>2, Zenon DEF IsTable
  <2>2. loads \in [Pages -> Ticket] /\ pc \in [Threads -> Places] /\ want \in [Threads -> Pages]
    BY <1>1, <1>2, <1>3, <1>5, Zenon
  <2>3. evictions = [p \in Pages |-> evictions[p]] /\ waits = [t \in Threads |-> waits[t]]
    BY <1>1, Zenon
  <2>4. \A p \in Pages : evictions[p].owner \in Owners /\ IsFrame(evictions[p].frame)
    BY <1>1, <1>2, Zenon
  <2> QED
    BY <2>1, <2>2, <2>3, <2>4, Zenon DEF Shapes
<1>7. Flights
  BY <1>1, <1>4, <1>5, Zenon DEF Flights
<1>8. \A t \in Threads : WaitOK(t)
  BY <1>1, <1>2, Zenon DEF WaitOK
<1>9. Fenced
  BY <1>1, PoolAssumption, Zenon DEF Fenced
<1>10. occupied_slots <= Capacity
  <2>1. Cardinality({}) = 0
    BY FS_EmptySet, Zenon
  <2>2. 0 + 0 <= Capacity
    BY PoolAssumption
  <2> QED
    BY <1>4, <2>1, <2>2, Zenon DEF occupied_slots
<1> QED
  BY <1>6, <1>7, <1>8, <1>9, <1>10, ZenonT(60) DEF PoolInvariant

\* Every step of the pool keeps the invariant.
LEMMA NextPool ==
    ASSUME PoolInvariant, [Next]_vars
    PROVE  PoolInvariant'
<1>1. ASSUME NEW t \in Threads, Pin(t) PROVE PoolInvariant'
  <2>1. PICK p \in Pages : \/ PinHit(t, p) \/ PinJoin(t, p) \/ PinReserve(t, p)
                           \/ PinEvict(t, p) \/ PinNoVictim(t, p)
    BY <1>1, Zenon DEF Pin
  <2> QED
    BY <2>1, PinHitKept, PinJoinKept, PinReserveKept, PinEvictKept, PinNoVictimKept, ZenonT(60)
<1>2. ASSUME NEW t \in Threads, Flight(t) PROVE PoolInvariant'
  <2>1. \/ \E v \in Pages : EvictPublish(t, v) \/ EvictSettle(t, v) \/ EvictRestore(t, v)
        \/ ReadPage(t) \/ ReadFails(t) \/ Admit(t)
    BY <1>2, Zenon DEF Flight
  <2> QED
    BY <2>1, AirborneSteps, EvictSettleKept, EvictRestoreKept, ReadFailsKept, AdmitKept, Zenon
<1>3. ASSUME NEW t \in Threads, begin_read_view(t) \/ \E h \in held[t] : Unpin(t, h)
      PROVE  PoolInvariant'
  BY <1>3, ViewCalm, UnpinCalm, CalmKept, Zenon
<1>4. CASE WriterStep
  <2>1. \/ BeginAttempt \/ Refuse \/ CheckEscaped \/ (\E h \in held[Writer] : Mutate(h))
        \/ Allocate \/ Commit \/ Undo \/ FenceEnter \/ FenceSection \/ FenceLeave
    BY <1>4, Zenon DEF WriterStep
  <2>2. CASE BeginAttempt \/ Refuse \/ CheckEscaped
    BY <2>2, IdleCalm, CalmKept, Zenon
  <2>3. CASE (\E h \in held[Writer] : Mutate(h)) \/ Commit \/ Undo \/ FenceSection
    BY <2>3, MutateCalm, CommitCalm, UndoCalm, FenceSectionCalm, CalmKept, ZenonT(60)
  <2>4. CASE Allocate
    BY <2>4, AllocateKept, Zenon
  <2>5. CASE FenceEnter \/ FenceLeave
    BY <2>5, FenceKept, Zenon
  <2> QED
    BY <2>1, <2>2, <2>3, <2>4, <2>5, Zenon
<1>5. CASE ForeignCommit
  BY <1>5, IdleCalm, CalmKept, Zenon
<1>6. CASE UNCHANGED vars
  <2>1. /\ frames' = frames /\ loads' = loads /\ evictions' = evictions /\ want' = want
        /\ guard' = guard /\ phase' = phase /\ UNCHANGED <<pc, waits>>
    BY <1>6, ZenonT(60) DEF vars, pool, locks, pinning, work
  <2>2. Thinned(frames, frames) /\ Marked(loads, loads)
    BY Tables, TableKept, TicketMarks, Zenon
  <2>3. Calm
    BY <2>1, <2>2, Zenon DEF Calm, Roused
  <2> QED
    BY <2>3, CalmKept, Zenon
<1> QED
  BY <1>1, <1>2, <1>3, <1>4, <1>5, <1>6, ZenonT(60) DEF Next

\* The pool invariant holds in every reachable state.
THEOREM PoolInvariantHolds == Spec => []PoolInvariant
<1>1. Init => PoolInvariant
  BY InitPool, Zenon
<1>2. PoolInvariant /\ [Next]_vars => PoolInvariant'
  BY NextPool, Zenon
<1> QED
  BY <1>1, <1>2, PTL DEF Spec

\* Resident frames and reserved slots stay within the budget, and every detached dirty
\* victim rides on one reservation of its thread, for any number of threads and pages and
\* any capacity (_occupied_slots, page_write_fence).
THEOREM SlotsStayAccounted == Spec => []SlotsAccounted
<1>1. PoolInvariant => SlotsAccounted
  <2> SUFFICES ASSUME PoolInvariant PROVE SlotsAccounted
    BY Zenon
  <2>1. Flights /\ Shapes /\ occupied_slots <= Capacity
    BY Zenon DEF PoolInvariant
  <2>2. ASSUME NEW v \in Evicting
        PROVE  loads[want[evictions[v].owner]].owner = evictions[v].owner
    <3>1. evictions[v].owner \in Threads /\ pc[evictions[v].owner] \in Detached
      BY <2>1, TicketOwners, Zenon DEF Flights
    <3>2. pc[evictions[v].owner] \in InFlight
      BY <3>1, Zenon DEF Detached, InFlight
    <3> QED
      BY <2>1, <3>1, <3>2, Zenon DEF Flights
  <2>3. /\ \A v \in Evicting : v \notin Resident
        /\ \A v, u \in Evicting : evictions[v].owner = evictions[u].owner => v = u
    BY <2>1, Zenon DEF Flights
  <2> QED
    BY <2>1, <2>2, <2>3, Zenon DEF SlotsAccounted
<1> QED
  BY <1>1, PoolInvariantHolds, PTL

\* Nobody waits for nothing, however many threads pin, evict, fail and fence: a ticket
\* belongs to a thread that brings it home, a waiter waits for a ticket that is up, and a
\* fence and a flight never wait for each other (_signal_flight_state, page_write_fence).
THEOREM NobodyIsForgotten == Spec => []NobodyWaitsForNothing
<1>1. PoolInvariant => NobodyWaitsForNothing
  <2> SUFFICES ASSUME PoolInvariant PROVE NobodyWaitsForNothing
    BY Zenon
  <2>1. /\ \A p \in Loading : /\ want[loads[p].owner] = p
                              /\ pc[loads[p].owner] \in {"evict", "settle", "read", "admit"}
        /\ \A v \in Evicting : pc[evictions[v].owner] \in {"evict", "settle"}
    BY Zenon DEF PoolInvariant, Flights, InFlight, Detached
  <2>2. ASSUME NEW t \in Threads, pc[t] = "wait"
        PROVE  ~Woken(waits[t], loads, evictions) \/ (waits[t].on = "slot" /\ Loading # {})
    <3>1. WaitOK(t)
      BY Zenon DEF PoolInvariant
    <3>2. /\ waits[t].on \in {"none", "slot", "load", "evict"}
          /\ waits[t].on = "slot" => Loading # {}
          /\ waits[t].on = "load" => loads[waits[t].page].owner = waits[t].owner
          /\ waits[t].on = "evict" => evictions[waits[t].page].owner = waits[t].owner
      BY <3>1, Zenon DEF WaitOK
    <3>3. Woken(waits[t], loads, evictions) <=>
             \/ waits[t].on = "slot"
             \/ waits[t].on = "load" /\ loads[waits[t].page].owner # waits[t].owner
             \/ waits[t].on = "evict" /\ evictions[waits[t].page].owner # waits[t].owner
      BY <3>2, WokenWhen, SMT
    <3> QED
      BY <3>2, <3>3, Zenon
  <2>3. guard # NoThread => Loading \cup Evicting = {}
    BY Zenon DEF PoolInvariant, Fenced
  <2> QED
    BY <2>1, <2>2, <2>3, Zenon DEF NobodyWaitsForNothing
<1> QED
  BY <1>1, PoolInvariantHolds, PTL

=============================================================================
