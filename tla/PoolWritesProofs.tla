-------------------------- MODULE PoolWritesProofs --------------------------
(* The bytes BufferPool moves, continued: the steps that write, publish, undo  *)
(* and allocate keep the invariant of PoolImagesProofs, and with it what a view *)
(* reads and what the device is given.                                         *)
EXTENDS PoolImagesProofs

-----------------------------------------------------------------------------
(* The other steps: the publications, the views and the commit attempt.       *)

\* The device only gains bytes, and every image stays in order.
ImagesKept ==
    /\ Fresh' /\ Dirt' /\ FileEnd' /\ Fallow'
    /\ \A p \in Pages : device[p] \subseteq device'[p]

\* The pages of the file are pages.
LEMMA BelowPages ==
    ASSUME FileEnd
    PROVE  Below \subseteq Pages
<1>1. length \in Nat /\ length <= MaxPages /\ MaxPages \in Nat
  BY PoolAssumption, Zenon DEF FileEnd
<1> QED
  BY <1>1, SMT DEF Below, Pages

\* A gentle step keeps all of it.
LEMMA GentleKept ==
    ASSUME ImageInvariant, Gentle, Tame
    PROVE  ImagesKept
<1>1. Fresh /\ Dirt /\ FileEnd /\ Fallow
  BY Zenon DEF ImageInvariant
<1>2. device' = device
  BY Zenon DEF Gentle
<1> QED
  BY <1>1, <1>2, GentleFresh, GentleDirt, GentleFile, GentleFallow, Zenon DEF ImagesKept

\* Nothing but the course of the attempt changes.
SameImages ==
    /\ frames' = frames /\ doomed' = doomed /\ loads' = loads /\ evictions' = evictions
    /\ device' = device /\ length' = length /\ view' = view /\ changed' = changed
    /\ grown' = grown /\ abandoned' = abandoned
    /\ pc' = pc /\ want' = want /\ got' = got /\ held' = held

\* The writer goes from one phase of its attempt to another.
LEMMA PhaseKept ==
    ASSUME ImageInvariant, SameImages, pc[Writer] = "idle",
           touched' \subseteq Below, todo' \subseteq Below,
           phase' \in {"idle", "fence", "writing", "restamp", "undo"},
           phase' \in {"idle", "fence"} => Soiled = {},
           phase' \in {"writing", "restamp", "undo"} => view = "same" /\ Soiled \subseteq touched',
           phase' = "undo" => Soiled \subseteq todo' /\ held[Writer] = {},
           phase' \in {"writing", "restamp"} => \A q \in abandoned : q \notin touched',
           phase' \in {"restamp", "undo"} => todo' \subseteq touched'
    PROVE  ImagesKept
<1>1. Fresh /\ Dirt /\ FileEnd /\ Fallow
  BY Zenon DEF ImageInvariant
<1>2. /\ Resident' = Resident /\ Evicting' = Evicting /\ Dirty' = Dirty /\ Soiled' = Soiled
  BY Zenon DEF SameImages, Resident, Evicting, Dirty, Soiled
<1>3. \A p : InView(p)' <=> InView(p)
  BY Zenon DEF SameImages, InView
<1>4. Fresh'
  BY <1>1, <1>2, <1>3, Zenon DEF SameImages, Fresh
<1>5. Dirt'
  BY <1>1, <1>2, Zenon DEF SameImages, Dirt, Attempting
<1>6. Below' = Below
  BY Zenon DEF SameImages, Below
<1>7. FileEnd'
  BY <1>1, <1>6, Zenon DEF SameImages, FileEnd
<1>8. \A t \in Threads : pc[t] # "idle" => Known(t, want[t])'
  BY <1>1, Zenon DEF SameImages, Fallow, Known
<1>9. Fallow'
  BY <1>1, <1>2, <1>6, <1>8, Zenon DEF SameImages, Fallow
<1>10. \A p \in Pages : device[p] \subseteq device'[p]
  BY Zenon DEF SameImages
<1> QED
  BY <1>4, <1>5, <1>7, <1>9, <1>10, Zenon DEF ImagesKept

\* An attempt begins on a clean pool.
LEMMA BeginImages ==
    ASSUME ImageInvariant, BeginAttempt
    PROVE  ImagesKept
<1>1. /\ SameImages /\ pc[Writer] = "idle" /\ phase = "idle" /\ phase' = "writing"
      /\ touched' = {} /\ todo' = todo /\ view = "same"
  BY Zenon DEF BeginAttempt, WriterAt, SameImages, pool, claims, disk, freshness, pinning
<1>2. Soiled = {} /\ todo \subseteq Below
  BY <1>1, Zenon DEF ImageInvariant, Dirt, FileEnd
<1>3. phase' # "undo" /\ phase' \notin {"restamp", "undo"}
      /\ phase' \in {"idle", "fence", "writing", "restamp", "undo"}
  BY <1>1, SMT
<1> QED
  BY <1>1, <1>2, <1>3, PhaseKept, Zenon

\* A refused attempt visits the pages it touched.
LEMMA RefuseImages ==
    ASSUME ImageInvariant, Refuse
    PROVE  ImagesKept
<1>1. /\ SameImages /\ pc[Writer] = "idle" /\ phase = "writing" /\ phase' = "restamp"
      /\ touched' = touched /\ todo' = touched
  BY Zenon DEF Refuse, WriterAt, SameImages, pool, claims, disk, freshness, pinning
<1>2. touched \subseteq Below /\ view = "same" /\ Soiled \subseteq touched
      /\ \A q \in abandoned : q \notin touched
  BY <1>1, Zenon DEF ImageInvariant, Dirt, FileEnd, Attempting, Fallow
<1>3. phase' # "undo" /\ phase' \notin {"idle", "fence"}
      /\ phase' \in {"idle", "fence", "writing", "restamp", "undo"}
  BY <1>1, SMT
<1> QED
  BY <1>1, <1>2, <1>3, PhaseKept, Zenon

\* The undo visits every page the device may lack.
LEMMA CheckEscapedImages ==
    ASSUME ImageInvariant, CheckEscaped
    PROVE  ImagesKept
<1>1. /\ SameImages /\ pc[Writer] = "idle" /\ phase = "restamp" /\ held[Writer] = {}
      /\ touched' = touched /\ todo' = touched
      /\ phase' = IF touched = {} THEN "idle" ELSE "undo"
  BY Zenon DEF CheckEscaped, WriterAt, SameImages, pool, disk, freshness, pinning
<1>2. touched \subseteq Below /\ view = "same" /\ Soiled \subseteq touched
  BY <1>1, Zenon DEF ImageInvariant, Dirt, FileEnd, Attempting
<1>3. CASE touched = {}
  <2>1. phase' = "idle" /\ Soiled = {}
    BY <1>1, <1>2, <1>3, Zenon
  <2>2. /\ phase' # "undo" /\ phase' \notin {"writing", "restamp", "undo"}
        /\ phase' \notin {"writing", "restamp"} /\ phase' \notin {"restamp", "undo"}
        /\ phase' \in {"idle", "fence", "writing", "restamp", "undo"}
    BY <2>1, SMT
  <2> QED
    BY <1>1, <1>2, <2>1, <2>2, PhaseKept, Zenon
<1>4. CASE touched # {}
  <2>1. phase' = "undo"
    BY <1>1, <1>4, Zenon
  <2>2. /\ phase' \notin {"idle", "fence"} /\ phase' \notin {"writing", "restamp"}
        /\ phase' \in {"idle", "fence", "writing", "restamp", "undo"}
    BY <2>1, SMT
  <2> QED
    BY <1>1, <1>2, <2>1, <2>2, PhaseKept, Zenon
<1> QED
  BY <1>3, <1>4, Zenon

\* The fence is taken and left between attempts.
LEMMA FenceImages ==
    ASSUME ImageInvariant, FenceEnter \/ FenceLeave
    PROVE  ImagesKept
<1>1. /\ SameImages /\ pc[Writer] = "idle" /\ phase \in {"idle", "fence"}
      /\ phase' \in {"idle", "fence"} /\ touched' = touched /\ todo' = todo
  <2>1. CASE FenceEnter
    BY <2>1, Zenon DEF FenceEnter, WriterAt, SameImages, pool, claims, disk, freshness, pinning
  <2>2. CASE FenceLeave
    BY <2>2, Zenon DEF FenceLeave, WriterAt, SameImages, pool, claims, disk, freshness, pinning
  <2> QED
    BY <2>1, <2>2, Zenon
<1>2. touched \subseteq Below /\ todo \subseteq Below /\ Soiled = {}
  BY <1>1, Zenon DEF ImageInvariant, Dirt, FileEnd
<1>3. /\ phase' # "undo" /\ phase' \notin {"writing", "restamp", "undo"}
      /\ phase' \notin {"writing", "restamp"} /\ phase' \notin {"restamp", "undo"}
      /\ phase' \in {"idle", "fence", "writing", "restamp", "undo"}
  BY <1>1, SMT
<1> QED
  BY <1>1, <1>2, <1>3, PhaseKept, Zenon

\* A device that has gained bytes has a page that is known.
LEMMA KnownGrows ==
    ASSUME NEW t, NEW p, Known(t, p), device[p] \subseteq device'[p], touched \subseteq touched'
    PROVE  Known(t, p)'
BY Zenon DEF Known

\* A victim contains what it replaces, and its page is neither in the table nor the page
\* of a valid load.
LEMMA EvictPublishImages ==
    ASSUME ImageInvariant, NEW t \in Threads, NEW v \in Pages, EvictPublish(t, v)
    PROVE  ImagesKept
<1>1. /\ frames' = frames /\ doomed' = doomed /\ loads' = loads /\ evictions' = evictions
      /\ length' = length /\ view' = view /\ changed' = changed
      /\ grown' = grown /\ abandoned' = abandoned
      /\ want' = want /\ got' = got /\ held' = held
      /\ phase' = phase /\ touched' = touched /\ todo' = todo
      /\ pc' = [pc EXCEPT ![t] = "settle"] /\ pc[t] = "evict" /\ evictions[v].owner = t
      /\ device' = [device EXCEPT ![v] = evictions[v].frame.img]
  BY Zenon DEF EvictPublish, pool, claims, freshness, work
<1>2. Fresh /\ Dirt /\ FileEnd /\ Fallow /\ PoolInvariant /\ Shapes /\ Flights
      /\ device = [p \in Pages |-> device[p]] /\ want \in [Threads -> Pages]
  BY Zenon DEF ImageInvariant, PoolInvariant, Shaped, Shapes
<1>3. PICK x : x = evictions[v].frame.img
  BY Zenon
<1>4. \A p \in Pages : device'[p] = IF p = v THEN x ELSE device[p]
  BY <1>1, <1>2, <1>3, EntrySet, Zenon
<1>5. v \in Evicting /\ v \notin Resident
  <2>1. v \in Evicting
    BY <1>1, PoolAssumption, Zenon DEF Evicting
  <2> QED
    BY <1>2, <2>1, Zenon DEF Flights
<1>6. device'[v] = evictions[v].frame.img /\ \A p \in Pages : p # v => device'[p] = device[p]
  BY <1>3, <1>4, Zenon
<1>7. \A p \in Pages : device[p] \subseteq device'[p]
  BY <1>2, <1>5, <1>6, Zenon DEF Fresh
<1>8. Moves(t, "settle") /\ "settle" # "admit" /\ "settle" # "idle" /\ pc[t] # "idle"
      /\ pc[t] # "settle" /\ "retry" # "admit" /\ "wait" # "idle" /\ "settle" # "wait"
  <2>1. "settle" # "admit" /\ "settle" # "idle" /\ pc[t] # "idle" /\ pc[t] # "settle"
        /\ "retry" # "admit" /\ "wait" # "idle" /\ "settle" # "wait"
    BY <1>1, SMT
  <2> QED
    BY <1>1, <1>2, <2>1, OneMoves, Zenon
<1>9. /\ Resident' = Resident /\ Evicting' = Evicting /\ Soiled' = Soiled
      /\ \A p : InView(p)' <=> InView(p)
  BY <1>1, Zenon DEF Resident, Evicting, Dirty, Soiled, InView
<1>10. \A u \in Threads : pc'[u] = "admit" =>
           pc[u] = "admit" /\ (loads[want[u]].valid => want[u] # v)
  <2> SUFFICES ASSUME NEW u \in Threads, pc'[u] = "admit"
               PROVE  pc[u] = "admit" /\ (loads[want[u]].valid => want[u] # v)
    BY Zenon
  <2>1. pc[u] = "admit"
    BY <1>8, Zenon DEF Moves
  <2>2. pc[u] \in InFlight
    BY <2>1, Zenon DEF InFlight
  <2>3. want[u] \in Loading
    BY <1>2, <2>2, ThreadInFlight, Zenon
  <2> QED
    BY <1>2, <1>5, <2>1, <2>3, ZenonT(60) DEF Flights
<1>11. Fresh'
  <2>1. \A p \in Resident : p \in Pages /\ p # v
    BY <1>5, Zenon DEF Resident
  <2>2. \A p \in Resident : InView(p) => device'[p] \subseteq frames[p].img
    BY <1>2, <1>6, <2>1, Zenon DEF Fresh
  <2>3. \A p \in Evicting : device'[p] \subseteq evictions[p].frame.img
    <3>1. \A p \in Evicting : p \in Pages
      BY Zenon DEF Evicting
    <3> QED
      BY <1>2, <1>6, <3>1, Zenon DEF Fresh
  <2>4. \A u \in Threads : pc'[u] = "admit" /\ loads[want[u]].valid /\ InView(want[u])
                               => device'[want[u]] \subseteq got[u]
    BY <1>2, <1>6, <1>10, Zenon DEF Fresh
  <2> QED
    BY <1>1, <1>9, <2>2, <2>3, <2>4, Zenon DEF Fresh
<1>12. pc'[Writer] # "idle" => pc[Writer] # "idle"
  BY <1>8, PoolAssumption, Zenon DEF Moves
<1>13. Dirt'
  BY <1>1, <1>2, <1>9, <1>12, Zenon DEF Dirt, Attempting
<1>14. Below' = Below
  BY <1>1, Zenon DEF Below
<1>15. v \in Below
  <2>1. v \in Soiled
    BY <1>5, Zenon DEF Soiled
  <2>2. v \in touched
    BY <1>2, <2>1, SoiledInView, Zenon
  <2> QED
    BY <1>2, <2>2, Zenon DEF FileEnd
<1>16. FileEnd'
  BY <1>1, <1>2, <1>6, <1>14, <1>15, Zenon DEF FileEnd
<1>17. \A q \in grown : device'[q] = {} \/ (q \in Evicting /\ pc'[evictions[q].owner] = "settle")
  <2> SUFFICES ASSUME NEW q \in grown
               PROVE  device'[q] = {} \/ (q \in Evicting /\ pc'[evictions[q].owner] = "settle")
    BY Zenon
  <2>1. CASE q = v
    BY <1>1, <1>5, <1>8, <2>1, Zenon DEF Moves
  <2>2. CASE q # v /\ device[q] = {}
    <3>1. q \in Pages
      BY <1>2, BelowPages, Zenon DEF Fallow
    <3> QED
      BY <1>6, <2>2, <3>1, Zenon
  <2>3. CASE q \in Evicting /\ pc[evictions[q].owner] = "settle"
    <3>1. evictions[q].owner \in Threads /\ evictions[q].owner # t
      BY <1>2, <1>8, <2>3, TicketOwners, Zenon
    <3> QED
      BY <1>8, <2>3, <3>1, Zenon DEF Moves
  <2> QED
    BY <1>2, <2>1, <2>2, <2>3, Zenon DEF Fallow
<1>18. \A q \in abandoned : device'[q] = {}
  <2>1. \A q \in abandoned : q \in Pages /\ q # v /\ device[q] = {}
    BY <1>2, <1>5, BelowPages, Zenon DEF Fallow, FileEnd
  <2> QED
    BY <1>6, <2>1, Zenon
<1>19. \A u \in Threads : pc'[u] # "idle" => Known(u, want[u])'
  <2> SUFFICES ASSUME NEW u \in Threads, pc'[u] # "idle" PROVE Known(u, want[u])'
    BY Zenon
  <2>1. Known(u, want[u])
    BY <1>2, <1>8, Zenon DEF Moves, Fallow
  <2>2. device[want[u]] \subseteq device'[want[u]]
    BY <1>2, <1>7, Zenon
  <2> QED
    BY <1>1, <2>1, <2>2, KnownGrows, Zenon
<1>20. Fallow'
  BY <1>1, <1>2, <1>9, <1>14, <1>17, <1>18, <1>19, Zenon DEF Fallow
<1> QED
  BY <1>7, <1>11, <1>13, <1>16, <1>20, Zenon DEF ImagesKept

\* g is the ticket k, spoilt.
Spoilt(k, g) == g = [k EXCEPT !.valid = FALSE]

\* A spoilt ticket is not valid.
LEMMA SpoiltTicket ==
    ASSUME NEW k \in Ticket, NEW g, Spoilt(k, g)
    PROVE  ~g.valid
<1> DEFINE K(o, v, c) == [owner |-> o, valid |-> v, current |-> c]
<1>1. k = K(k.owner, k.valid, k.current)
  BY SMT DEF Ticket
<1>2. \A o, v, c, x : [K(o, v, c) EXCEPT !.valid = x] = K(o, x, c)
  BY SMT
<1>3. g = K(k.owner, FALSE, k.current)
  BY <1>1, <1>2, Zenon DEF Spoilt
<1>4. K(k.owner, FALSE, k.current).valid = FALSE
  BY SMT
<1> HIDE DEF K
<1> QED
  BY <1>3, <1>4, Zenon

\* A new view spoils every load.
LEMMA RevokedLoads ==
    ASSUME NEW l \in [Pages -> Ticket]
    PROVE  \A p \in Pages : ~Revoked(l)[p].valid /\ ~Outdated(Revoked(l))[p].valid
<1>1. \A p \in Pages : Spoilt(l[p], Revoked(l)[p]) /\ l[p] \in Ticket
  BY Zenon DEF Revoked, Spoilt
<1>2. \A p \in Pages : ~Revoked(l)[p].valid
  BY <1>1, SpoiltTicket, Zenon
<1>3. Marked(l, Revoked(l))
  BY TicketMarks, Zenon
<1>4. Revoked(l) \in [Pages -> Ticket]
  BY <1>3, Zenon DEF Marked
<1>5. Marked(Revoked(l), Outdated(Revoked(l)))
  BY <1>4, TicketMarks, Zenon
<1> QED
  BY <1>2, <1>5, Zenon DEF Marked

\* What is doomed for its holder has the mark of the frame.
LEMMA DoomsClean ==
    ASSUME NEW ps, \A p \in ps : ~frames[p].dirty
    PROVE  \A d \in Dooms(ps) : ~d.dirty /\ IsDoomed(d)
<1> SUFFICES ASSUME NEW d \in Dooms(ps) PROVE ~d.dirty /\ IsDoomed(d)
  BY Zenon
<1>1. PICK p \in ps :
         d = [page |-> p, obj |-> frames[p].obj, pins |-> frames[p].pins, img |-> frames[p].img,
              dirty |-> frames[p].dirty, unwritten |-> ~frames[p].dirty]
  BY Zenon DEF Dooms
<1>2. d.dirty = frames[p].dirty
  BY <1>1, Zenon
<1>3. IsDoomed(d)
  BY <1>1, Zenon DEF IsDoomed
<1> QED
  BY <1>2, <1>3, Zenon

\* What a new view does between attempts: it writes nothing, for nothing is dirty, spoils
\* every load, and leaves no frame in the table that another commit has changed.
LEMMA ViewEffect ==
    ASSUME ImageInvariant, NEW t \in Threads, begin_read_view(t)
    PROVE  /\ device' = device /\ abandoned' = abandoned /\ grown' = grown
           /\ \A p \in Pages : ~loads'[p].valid
           /\ \A p \in Resident' : p \in Resident /\ InView(p) /\ frames'[p] = frames[p]
           /\ \A d \in doomed' : ~d.dirty /\ IsDoomed(d)
<1>1. /\ phase = "idle" /\ IsTable(frames) /\ loads \in [Pages -> Ticket]
      /\ device = [p \in Pages |-> device[p]]
  BY Zenon DEF ImageInvariant, PoolInvariant, Shapes, Shaped, begin_read_view
<1>2. Soiled = {} /\ \A d \in doomed : ~d.dirty /\ IsDoomed(d)
  BY <1>1, Zenon DEF ImageInvariant, Dirt, Shaped
<1>3. Dirty = {} /\ \A p \in Resident : ~frames[p].dirty
  BY <1>2, Zenon DEF Soiled, Dirty
<1>4. \A p \in Pages : ~Revoked(loads)[p].valid /\ ~Outdated(Revoked(loads))[p].valid
  BY <1>1, RevokedLoads, Zenon
<1>5. CASE ViewOwn
  <2>1. /\ device' = device /\ abandoned' = abandoned /\ grown' = grown /\ frames' = frames
        /\ doomed' = doomed /\ loads' = Revoked(loads) /\ view = "own"
    BY <1>5, Zenon DEF ViewOwn, claims
  <2>2. view # "foreign"
    BY <2>1, SMT
  <2> QED
    BY <1>2, <1>4, <2>1, <2>2, Zenon DEF Resident, InView
<1>6. CASE ViewChanges
  <2>1. PICK gone : gone = changed \cap Resident
    BY Zenon
  <2>2. /\ device' = device /\ abandoned' = abandoned /\ grown' = grown
        /\ frames' = Without(gone) /\ doomed' = doomed \cup Dooms(gone)
        /\ loads' = Outdated(Revoked(loads))
    BY <1>6, <2>1, Zenon DEF ViewChanges, claims
  <2>3. \A p \in Pages : frames'[p] = IF p \in gone THEN NoFrame ELSE frames[p]
    BY <1>1, <2>2, TableWithout, Zenon
  <2>4. \A p \in Resident' : p \in Resident /\ p \notin changed /\ frames'[p] = frames[p]
    BY <2>1, <2>3, NoFrameIsFrame, Zenon DEF Resident
  <2>5. \A d \in Dooms(gone) : ~d.dirty /\ IsDoomed(d)
    BY <1>3, <2>1, DoomsClean, Zenon
  <2> QED
    BY <1>2, <1>4, <2>2, <2>4, <2>5, Zenon DEF InView
<1>7. CASE ViewDrop
  <2>1. PICK local : local = {p \in Dirty : frames[p].pins = 0}
    BY Zenon
  <2>2. local = {}
    BY <1>3, <2>1, Zenon
  <2>3. /\ device' = [p \in Pages |-> IF p \in local THEN frames[p].img ELSE device[p]]
        /\ abandoned' = abandoned \ local /\ grown' = grown \ local
        /\ frames' = Without(Resident) /\ doomed' = doomed \cup Dooms(Resident)
        /\ loads' = Outdated(Revoked(loads))
    BY <1>7, <2>1, Zenon DEF ViewDrop, RememberWriteBack
  <2>4. device' = [p \in Pages |-> device[p]]
    BY <2>2, <2>3, Zenon
  <2>5. abandoned' = abandoned /\ grown' = grown /\ device' = device
    BY <1>1, <2>2, <2>3, <2>4, Zenon
  <2>6. \A p \in Pages : frames'[p] = IF p \in Resident THEN NoFrame ELSE frames[p]
    BY <1>1, <2>3, TableWithout, Zenon
  <2>7. Resident' = {}
    BY <2>6, NoFrameIsFrame, Zenon DEF Resident
  <2>8. \A d \in Dooms(Resident) : ~d.dirty /\ IsDoomed(d)
    BY <1>3, DoomsClean, Zenon
  <2> QED
    BY <1>2, <1>4, <2>3, <2>5, <2>7, <2>8, Zenon
<1> QED
  BY <1>5, <1>6, <1>7, Zenon DEF begin_read_view

\* A new view shows the newest commit in every frame it keeps.
LEMMA ViewImages ==
    ASSUME ImageInvariant, NEW t \in Threads, begin_read_view(t)
    PROVE  ImagesKept
<1>1. /\ device' = device /\ abandoned' = abandoned /\ grown' = grown
      /\ \A p \in Pages : ~loads'[p].valid
      /\ \A p \in Resident' : p \in Resident /\ InView(p) /\ frames'[p] = frames[p]
      /\ \A d \in doomed' : ~d.dirty
  BY ViewEffect, Zenon
<1>2. /\ evictions' = evictions /\ length' = length /\ want' = want /\ got' = got
      /\ held' = held /\ phase' = phase /\ touched' = touched /\ todo' = todo
      /\ phase = "idle" /\ Evicting = {}
  BY Zenon DEF begin_read_view, work
<1>3. Fresh /\ Dirt /\ FileEnd /\ Fallow /\ PoolInvariant
  BY Zenon DEF ImageInvariant
<1>4. Calm
  BY <1>3, ViewCalm, Zenon
<1>5. Roused /\ Marked(loads, loads')
  BY <1>4, Zenon DEF Calm
<1>6. /\ pc'[Writer] # "idle" => pc[Writer] # "idle"
      /\ \A u \in Threads : want'[u] \in Below
      /\ \A u \in Threads : pc'[u] # "idle" => Known(u, want'[u])
      /\ \A v \in Evicting : pc[evictions[v].owner] = "settle" =>
             v \in Evicting' /\ pc'[evictions'[v].owner] = "settle"
  BY <1>2, <1>5, RousedGentle, Zenon
<1>7. Evicting' = {}
  BY <1>2, Zenon DEF Evicting
<1>8. Soiled = {}
  BY <1>2, <1>3, Zenon DEF Dirt
<1>9. Soiled' = {}
  BY <1>1, <1>7, <1>8, Zenon DEF Soiled, Dirty
<1>10. \A u \in Threads : want'[u] \in Pages
  BY <1>2, <1>3, Zenon DEF PoolInvariant, Shapes
<1>11. Fresh'
  <2>1. \A p \in Resident' : device'[p] \subseteq frames'[p].img
    BY <1>1, <1>3, Zenon DEF Fresh
  <2> QED
    BY <1>1, <1>7, <1>10, <2>1, Zenon DEF Fresh
<1>12. Dirt'
  <2>1. phase' \notin {"writing", "restamp", "undo"} /\ phase' # "undo"
    BY <1>2, SMT
  <2> QED
    BY <1>1, <1>2, <1>3, <1>6, <1>9, <2>1, Zenon DEF Dirt, Attempting
<1>13. Below' = Below
  BY <1>2, Zenon DEF Below
<1>14. FileEnd'
  BY <1>1, <1>2, <1>3, <1>13, Zenon DEF FileEnd
<1>15. \A u \in Threads : pc'[u] # "idle" => Known(u, want[u])'
  BY <1>1, <1>2, <1>6, Zenon DEF Known
<1>16. Fallow'
  BY <1>1, <1>2, <1>3, <1>6, <1>7, <1>13, <1>15, Zenon DEF Fallow
<1> QED
  BY <1>1, <1>11, <1>12, <1>14, <1>16, Zenon DEF ImagesKept

\* A commit of another participant changes a page with bytes, or one that it appends; the
\* page is out of view from then on, and nothing of the pool is dirty.
LEMMA ForeignImages ==
    ASSUME ImageInvariant, ForeignCommit
    PROVE  ImagesKept
<1>1. /\ frames' = frames /\ doomed' = doomed /\ loads' = loads /\ evictions' = evictions
      /\ grown' = grown /\ abandoned' = abandoned
      /\ pc' = pc /\ want' = want /\ got' = got /\ held' = held
      /\ phase' = phase /\ touched' = touched /\ todo' = todo /\ view' = "foreign"
      /\ phase \in {"idle", "fence"}
  BY Zenon DEF ForeignCommit, pool, claims, pinning, work
<1>2. PICK k \in 1 .. MaxForeign, p \in Pages :
        /\ \/ p < length /\ device[p] # {} /\ UNCHANGED length
           \/ p = length /\ length' = length + 1
        /\ device' = [device EXCEPT ![p] = @ \cup {0 - k}]
        /\ changed' = changed \cup {p}
  BY Zenon DEF ForeignCommit
<1>3. /\ Fresh /\ Dirt /\ FileEnd /\ Fallow /\ want \in [Threads -> Pages]
      /\ device = [q \in Pages |-> device[q]]
  BY Zenon DEF ImageInvariant, Shaped, PoolInvariant, Shapes
<1>4. PICK x : x = device[p] \cup {0 - k} /\ device[p] \subseteq x
  BY Zenon
<1>5. device' = [device EXCEPT ![p] = x]
  BY <1>2, <1>4, Zenon
<1>6. \A q \in Pages : device'[q] = IF q = p THEN x ELSE device[q]
  BY <1>3, <1>5, EntrySet, Zenon
<1>7. device[p] \subseteq device'[p] /\ \A q \in Pages : q # p => device'[q] = device[q]
  BY <1>4, <1>6, Zenon
<1>8. \A q \in Pages : device[q] \subseteq device'[q]
  BY <1>7, Zenon
<1>9. Soiled = {} /\ Evicting = {} /\ Resident' = Resident /\ Evicting' = Evicting
      /\ Soiled' = Soiled
  BY <1>1, <1>3, Zenon DEF Soiled, Dirt, Dirty, Evicting, Resident
<1>10. \A q : InView(q)' => q # p /\ InView(q)
  BY <1>1, <1>2, Zenon DEF InView
<1>11. Fresh'
  <2>1. \A q \in Resident : InView(q)' => device'[q] \subseteq frames[q].img
    BY <1>3, <1>7, <1>10, Zenon DEF Fresh, Resident
  <2>2. \A u \in Threads : pc[u] = "admit" /\ loads[want[u]].valid /\ InView(want[u])'
                               => device'[want[u]] \subseteq got[u]
    BY <1>1, <1>3, <1>7, <1>10, Zenon DEF Fresh
  <2> QED
    BY <1>1, <1>9, <2>1, <2>2, Zenon DEF Fresh
<1>12. Dirt'
  <2>1. phase' \notin {"writing", "restamp", "undo"} /\ phase' # "undo"
    BY <1>1, SMT
  <2> QED
    BY <1>1, <1>3, <1>9, <2>1, Zenon DEF Dirt, Attempting
<1>13. /\ length' \in Nat /\ length' <= MaxPages /\ Below \subseteq Below' /\ p \in Below'
       /\ p \in Below => device[p] # {}
  <2>1. length \in Nat /\ length <= MaxPages /\ MaxPages \in Nat /\ p \in 0 .. MaxPages - 1
    BY <1>3, PoolAssumption, Zenon DEF FileEnd, Pages
  <2> QED
    BY <1>2, <2>1, SMT DEF Below
<1>14. FileEnd'
  <2>1. \A q \in Pages : q \notin Below' => device'[q] = {}
    BY <1>3, <1>7, <1>13, Zenon DEF FileEnd
  <2> QED
    BY <1>1, <1>3, <1>13, <2>1, Zenon DEF FileEnd
<1>15. \A q \in grown \cup abandoned : q \in Below /\ q \in Pages /\ device[q] = {}
  BY <1>3, <1>9, BelowPages, Zenon DEF Fallow, FileEnd
<1>16. \A q \in grown \cup abandoned : device'[q] = {}
  BY <1>7, <1>13, <1>15, Zenon
<1>17. \A u \in Threads : pc[u] # "idle" => Known(u, want[u])'
  <2> SUFFICES ASSUME NEW u \in Threads, pc[u] # "idle" PROVE Known(u, want[u])'
    BY Zenon
  <2>1. Known(u, want[u]) /\ device[want[u]] \subseteq device'[want[u]]
    BY <1>3, <1>8, Zenon DEF Fallow
  <2> QED
    BY <1>1, <2>1, KnownGrows, Zenon
<1>18. Fallow'
  <2>1. grown' \subseteq Below'
    BY <1>1, <1>3, <1>13, Zenon DEF Fallow
  <2> QED
    BY <1>1, <1>3, <1>9, <1>16, <1>17, <2>1, Zenon DEF Fallow
<1> QED
  BY <1>8, <1>11, <1>12, <1>14, <1>18, Zenon DEF ImagesKept

\* A step that leaves the threads where they are leaves what they know.
LEMMA KnownStays ==
    ASSUME ImageInvariant, pc' = pc, want' = want, touched \subseteq touched',
           \A p \in Pages : device[p] \subseteq device'[p]
    PROVE  \A u \in Threads : pc'[u] # "idle" => Known(u, want[u])'
<1> SUFFICES ASSUME NEW u \in Threads, pc'[u] # "idle" PROVE Known(u, want[u])'
  BY Zenon
<1>1. Known(u, want[u]) /\ want[u] \in Pages
  BY Zenon DEF ImageInvariant, Fallow, PoolInvariant, Shapes
<1>2. device[want[u]] \subseteq device'[want[u]]
  BY <1>1, Zenon
<1> QED
  BY <1>1, <1>2, KnownGrows, Zenon

\* The writer adds bytes to a page that its attempt has from then on.
LEMMA MutateImages ==
    ASSUME ImageInvariant, NEW h \in held[Writer], Mutate(h)
    PROVE  ImagesKept
<1>1. /\ doomed' = doomed /\ loads' = loads /\ evictions' = evictions
      /\ device' = device /\ length' = length /\ view' = view /\ changed' = changed
      /\ grown' = grown /\ abandoned' = abandoned
      /\ pc' = pc /\ want' = want /\ got' = got /\ held' = held /\ phase' = phase
      /\ phase \in {"writing", "restamp"} /\ pc[Writer] = "idle"
      /\ touched' = touched \cup {h.page} /\ todo' = todo \ {h.page}
  BY Zenon DEF Mutate, WriterAt, claims, disk, freshness, pinning
<1>2. /\ Fresh /\ Dirt /\ FileEnd /\ Fallow /\ IsTable(frames)
  BY Zenon DEF ImageInvariant, PoolInvariant, Shapes
<1>3. h.page \in Below /\ h.page \in Pages
  BY <1>2, BelowPages, PoolAssumption, Zenon DEF FileEnd
<1>7. PICK p : p = h.page
  BY Zenon
<1> DEFINE Kept ==
        \A q \in Pages : /\ frames'[q].obj = frames[q].obj /\ frames[q].img \subseteq frames'[q].img
                         /\ q # p => frames'[q].dirty = frames[q].dirty
<1>8. ASSUME frames[p].obj = h.obj
      PROVE  Kept
  <2>1. PICK i, y, f : /\ i = frames[p].img \cup {attempt}
                       /\ Rewritten(frames[p], i, y) /\ Placed(frames, p, y, f)
    BY Zenon DEF Rewritten, Placed
  <2>2. PICK z : Resoiled(f[p], TRUE, z)
    BY Zenon DEF Resoiled
  <2>3. Placed(f, p, z, frames')
    BY <1>7, <1>8, <2>1, <2>2, Zenon DEF Mutate, Rewritten, Placed, Resoiled
  <2>4. ImageOnly(frames, f, p, i)
    BY <1>2, <1>3, <1>7, <2>1, TableImage, Zenon
  <2>5. IsTable(f)
    BY <2>4, Zenon DEF ImageOnly
  <2>6. DirtOnly(f, frames', p, TRUE)
    BY <1>3, <1>7, <2>2, <2>3, <2>5, TableDirt, Zenon
  <2> QED
    BY <2>1, <2>4, <2>6, Zenon DEF ImageOnly, DirtOnly
<1>9. ASSUME frames[p].obj # h.obj
      PROVE  Kept
  <2>1. frames' = frames
    BY <1>7, <1>9, Zenon DEF Mutate
  <2> QED
    BY <2>1, Zenon
<1>10. Kept
  <2> HIDE DEF Kept
  <2> QED
    BY <1>8, <1>9, Zenon
<1>12. /\ Resident' = Resident /\ Evicting' = Evicting /\ Soiled' \subseteq Soiled \cup {p}
       /\ \A q : InView(q)' <=> InView(q)
  BY <1>1, <1>10, Zenon DEF Resident, Evicting, Dirty, Soiled, InView
<1>13. Fresh'
  <2>1. \A q \in Resident : InView(q) => device[q] \subseteq frames'[q].img
    BY <1>2, <1>10, Zenon DEF Fresh, Resident
  <2> QED
    BY <1>1, <1>2, <1>12, <2>1, Zenon DEF Fresh
<1>14. phase \notin {"idle", "fence"} /\ phase # "undo" /\ phase \in {"writing", "restamp", "undo"}
  BY <1>1, SMT
<1>15. Dirt'
  BY <1>1, <1>2, <1>7, <1>12, <1>14, Zenon DEF Dirt, Attempting
<1>16. Below' = Below
  BY <1>1, Zenon DEF Below
<1>17. FileEnd'
  BY <1>1, <1>2, <1>3, <1>16, Zenon DEF FileEnd
<1>18. \A u \in Threads : pc'[u] # "idle" => Known(u, want[u])'
  BY <1>1, KnownStays, Zenon
<1>19. Fallow'
  BY <1>1, <1>2, <1>12, <1>14, <1>16, <1>18, Zenon DEF Fallow
<1> QED
  BY <1>1, <1>13, <1>15, <1>17, <1>19, Zenon DEF ImagesKept

\* A flush writes what the frames hold, and a frame contains what it replaces.
LEMMA CommitImages ==
    ASSUME ImageInvariant, Commit
    PROVE  ImagesKept
<1>1. /\ doomed' = doomed /\ loads' = loads /\ evictions' = evictions
      /\ length' = length /\ view' = "own" /\ Evicting = {}
      /\ grown' = grown \ Dirty /\ abandoned' = abandoned \ Dirty
      /\ pc' = pc /\ want' = want /\ got' = got /\ held' = held /\ held[Writer] = {}
      /\ phase = "writing" /\ phase' = "idle" /\ pc[Writer] = "idle"
      /\ touched' = {} /\ todo' = todo
  BY Zenon DEF Commit, WriterAt, pinning
<1>2. /\ Fresh /\ Dirt /\ FileEnd /\ Fallow /\ IsTable(frames) /\ Flights
      /\ device = [q \in Pages |-> device[q]] /\ want \in [Threads -> Pages]
  BY Zenon DEF ImageInvariant, PoolInvariant, Shapes, Shaped
<1>3. /\ device' = [p \in Pages |-> IF p \in Dirty THEN frames[p].img ELSE device[p]]
      /\ frames' = [p \in Pages |-> [frames[p] EXCEPT !.dirty = FALSE]]
  BY Zenon DEF Commit
<1>4. \A p \in Pages : /\ p \in Dirty => device'[p] = frames[p].img
                       /\ p \notin Dirty => device'[p] = device[p]
  BY <1>3, Zenon
<1>5. \A p \in Pages : /\ frames'[p].obj = frames[p].obj /\ frames'[p].img = frames[p].img
                       /\ ~frames'[p].dirty
  <2> SUFFICES ASSUME NEW p \in Pages
               PROVE  /\ frames'[p].obj = frames[p].obj /\ frames'[p].img = frames[p].img
                      /\ ~frames'[p].dirty
    BY Zenon
  <2>1. PICK y, x : y = frames'[p] /\ x = FALSE
    BY Zenon
  <2>2. Resoiled(frames[p], x, y)
    BY <1>3, <2>1, Zenon DEF Resoiled
  <2>3. IsFrame(frames[p])
    BY <1>2, Zenon DEF IsTable
  <2>4. y.obj = frames[p].obj /\ y.img = frames[p].img /\ y.dirty = x
    BY <2>2, <2>3, FieldSet, SMT
  <2> QED
    BY <2>1, <2>4, Zenon
<1>6. \A p \in Dirty : p \in Resident /\ p \in Pages /\ InView(p) /\ p \in touched
  BY <1>2, SoiledInView, Zenon DEF Soiled, Dirty, Resident
<1>7. \A p \in Pages : device[p] \subseteq device'[p]
  BY <1>2, <1>4, <1>6, Zenon DEF Fresh
<1>8. Resident' = Resident /\ Evicting' = {} /\ Dirty' = {} /\ Soiled' = {}
  <2>1. Resident' = Resident /\ Evicting' = {}
    BY <1>1, <1>5, Zenon DEF Resident, Evicting
  <2>2. Dirty' = {}
    BY <1>5, Zenon DEF Resident, Dirty
  <2> QED
    BY <2>1, <2>2, Zenon DEF Soiled
<1>9. view = "same" /\ \A q : InView(q)
  <2>1. phase \in {"writing", "restamp", "undo"}
    BY <1>1, Zenon
  <2>2. view = "same"
    BY <1>2, <2>1, Zenon DEF Dirt, Attempting
  <2>3. view # "foreign"
    BY <2>2, SMT
  <2> QED
    BY <2>2, <2>3, Zenon DEF InView
<1>10. \A u \in Threads : pc[u] = "admit" /\ loads[want[u]].valid => want[u] \notin Dirty
  <2> SUFFICES ASSUME NEW u \in Threads, pc[u] = "admit", loads[want[u]].valid
               PROVE  want[u] \notin Resident
    BY Zenon DEF Dirty
  <2>1. pc[u] \in InFlight
    BY Zenon DEF InFlight
  <2>2. want[u] \in Loading
    BY <1>2, <2>1, ThreadInFlight, Zenon DEF ImageInvariant
  <2> QED
    BY <1>2, <2>2, Zenon DEF Flights
<1>11. Fresh'
  <2>1. \A q \in Resident : device'[q] \subseteq frames'[q].img
    BY <1>2, <1>4, <1>5, <1>9, Zenon DEF Fresh, Resident
  <2>2. \A u \in Threads : pc[u] = "admit" /\ loads[want[u]].valid
                               => device'[want[u]] \subseteq got[u]
    BY <1>2, <1>4, <1>9, <1>10, Zenon DEF Fresh
  <2> QED
    BY <1>1, <1>8, <2>1, <2>2, Zenon DEF Fresh
<1>12. Dirt'
  <2>1. phase' \notin {"writing", "restamp", "undo"} /\ phase' # "undo"
    BY <1>1, SMT
  <2> QED
    BY <1>1, <1>2, <1>8, <2>1, Zenon DEF Dirt, Attempting
<1>13. Below' = Below
  BY <1>1, Zenon DEF Below
<1>14. FileEnd'
  <2>1. \A q \in Dirty : q \in Below
    BY <1>2, <1>6, Zenon DEF FileEnd
  <2>2. \A q \in Pages : q \notin Below => device'[q] = {}
    BY <1>2, <1>4, <2>1, Zenon DEF FileEnd
  <2> QED
    BY <1>1, <1>2, <1>13, <2>2, Zenon DEF FileEnd
<1>15. \A u \in Threads : pc[u] # "idle" => Known(u, want[u])'
  <2> SUFFICES ASSUME NEW u \in Threads, pc[u] # "idle" PROVE Known(u, want[u])'
    BY Zenon
  <2>1. Known(u, want[u]) /\ want[u] \in Pages /\ u # Writer
    BY <1>1, <1>2, Zenon DEF Fallow
  <2>2. device[want[u]] # {} /\ device[want[u]] \subseteq device'[want[u]]
    BY <1>7, <2>1, Zenon DEF Known
  <2> QED
    BY <1>1, <2>2, Zenon DEF Known
<1>16. Fallow'
  <2>1. \A q \in grown' \cup abandoned' : q \in Pages /\ q \notin Dirty /\ device[q] = {}
    BY <1>1, <1>2, BelowPages, Zenon DEF Fallow, FileEnd
  <2>2. \A q \in grown' \cup abandoned' : device'[q] = {}
    BY <1>4, <2>1, Zenon
  <2>3. phase' \notin {"writing", "restamp"} /\ phase' # "undo" /\ phase' \notin {"restamp", "undo"}
    BY <1>1, SMT
  <2>4. grown' \subseteq Below' /\ abandoned' \subseteq abandoned
    BY <1>1, <1>2, <1>13, Zenon DEF Fallow
  <2> QED
    BY <1>1, <1>2, <1>8, <1>15, <2>2, <2>3, <2>4, Zenon DEF Fallow
<1> QED
  BY <1>7, <1>11, <1>12, <1>14, <1>16, Zenon DEF ImagesKept

\* A page with a valid load that has been read is not in the table.
LEMMA ReadNotResident ==
    ASSUME ImageInvariant, NEW u \in Threads, pc[u] = "admit", loads[want[u]].valid
    PROVE  want[u] \notin Resident
<1>1. pc[u] \in InFlight
  BY Zenon DEF InFlight
<1>2. want[u] \in Loading
  BY <1>1, ThreadInFlight, Zenon DEF ImageInvariant
<1> QED
  BY <1>2, Zenon DEF ImageInvariant, PoolInvariant, Flights

\* What an allocation of page p does: a victim that is dirty is written, and the page has
\* no bytes and no frame, or is behind the end of the file.
Allocates(p, victim) ==
    /\ p \in Pages /\ (p \in abandoned \/ p = length)
    /\ length' = IF p = length THEN length + 1 ELSE length
    /\ \A q \in Pages : IF q \in victim /\ frames[q].dirty THEN device'[q] = frames[q].img
                                                          ELSE device'[q] = device[q]
    /\ \A q \in Pages : q # p => frames'[q] = IF q \in victim THEN NoFrame ELSE frames[q]
    /\ \A q \in victim : q \in Resident
    /\ \A t \in Threads : \A h \in held'[t] : h \in held[t] \/ h.page = p
    /\ p \in grown' /\ \A q \in grown' : q = p \/ (q \in grown /\ ~(q \in victim /\ frames[q].dirty))
    /\ p \notin abandoned' /\ abandoned' \subseteq abandoned
    /\ touched' = touched \cup {p}

\* An allocation is one of some page.
LEMMA AllocateVisits ==
    ASSUME ImageInvariant, Allocate
    PROVE  \E p, victim : Allocates(p, victim)
<1>1. PICK p \in abandoned \cup {length}, v \in Unpinned \cup {Header} :
          LET full == occupied_slots >= Capacity
              victim == IF full THEN {v} ELSE {}
              written == {q \in victim : frames[q].dirty}
              usable == {q \in abandoned : frames[q].pins = 0 /\ device[q] = {}}
          IN  /\ p < MaxPages
              /\ p \in usable \/ (p = length /\ usable = {})
              /\ IF full THEN v \in Unpinned ELSE v = Header
              /\ device' = [q \in Pages |-> IF q \in written THEN frames[q].img ELSE device[q]]
              /\ length' = IF p = length THEN length + 1 ELSE length
              /\ frames' = [Without(victim) EXCEPT
                               ![p] = [obj |-> NewObject(p), pins |-> 1,
                                       img |-> {attempt}, dirty |-> TRUE]]
              /\ held' = [held EXCEPT ![Writer] = @ \cup {[page |-> p, obj |-> NewObject(p)]}]
              /\ grown' = (grown \ written) \cup {p}
              /\ abandoned' = (abandoned \ written) \ {p}
              /\ touched' = touched \cup {p}
  BY Zenon DEF Allocate
<1>2. PICK victim : victim = IF occupied_slots >= Capacity THEN {v} ELSE {}
  BY Zenon
<1>3. PICK written : written = {q \in victim : frames[q].dirty}
  BY Zenon
<1>4. PICK frame : frame = [obj |-> NewObject(p), pins |-> 1, img |-> {attempt}, dirty |-> TRUE]
  BY Zenon
<1>5. PICK h : h = [page |-> p, obj |-> NewObject(p)]
  BY Zenon
<1>6. /\ p < MaxPages /\ (p \in abandoned \/ p = length)
      /\ occupied_slots >= Capacity => v \in Unpinned
      /\ device' = [q \in Pages |-> IF q \in written THEN frames[q].img ELSE device[q]]
      /\ length' = IF p = length THEN length + 1 ELSE length
      /\ frames' = [Without(victim) EXCEPT ![p] = frame]
      /\ held' = [held EXCEPT ![Writer] = @ \cup {h}]
      /\ grown' = (grown \ written) \cup {p}
      /\ abandoned' = (abandoned \ written) \ {p}
      /\ touched' = touched \cup {p}
  BY <1>1, <1>2, <1>3, <1>4, <1>5, Zenon
<1>7. h.page = p
  BY <1>5, Zenon
<1>8. /\ IsTable(frames) /\ FileEnd /\ held = [t \in Threads |-> held[t]]
  BY Zenon DEF ImageInvariant, PoolInvariant, Shapes, Shaped
<1>9. p \in Pages
  <2>1. /\ length \in Nat /\ MaxPages \in Nat
        /\ p \in abandoned => p \in Below
    BY <1>8, PoolAssumption, Zenon DEF FileEnd
  <2>2. p \in Nat
    BY <1>6, <2>1, SMT DEF Below
  <2> QED
    BY <1>6, <2>1, <2>2, SMT DEF Pages
<1>10. PICK f : /\ f = Without(victim) /\ f = [q \in Pages |-> f[q]]
                /\ \A q \in Pages : f[q] = IF q \in victim THEN NoFrame ELSE frames[q]
  BY <1>8, TableWithout, ZenonT(60) DEF Thinned, IsTable
<1>11. frames' = [f EXCEPT ![p] = frame]
  BY <1>6, <1>10, Zenon
<1>12. \A q \in Pages : frames'[q] = IF q = p THEN frame ELSE f[q]
  BY <1>10, <1>11, EntrySet, Zenon
<1>13. \A q \in Pages : q # p => frames'[q] = IF q \in victim THEN NoFrame ELSE frames[q]
  BY <1>10, <1>12, Zenon
<1>14. \A q \in Pages : IF q \in victim /\ frames[q].dirty THEN device'[q] = frames[q].img
                                                        ELSE device'[q] = device[q]
  BY <1>3, <1>6, Zenon
<1>15. \A q \in victim : q \in Resident
  BY <1>2, <1>6, Zenon DEF Unpinned
<1>16. PICK x : x = held[Writer] \cup {h}
  BY Zenon
<1>17. held' = [held EXCEPT ![Writer] = x]
  BY <1>6, <1>16, Zenon
<1>18. \A t \in Threads : held'[t] = IF t = Writer THEN x ELSE held[t]
  BY <1>8, <1>17, EntrySet, Zenon
<1>19. \A t \in Threads : \A g \in held'[t] : g \in held[t] \/ g.page = p
  BY <1>7, <1>16, <1>18, Zenon
<1>20. p \in grown' /\ \A q \in grown' : q = p \/ (q \in grown /\ ~(q \in victim /\ frames[q].dirty))
  BY <1>3, <1>6, Zenon
<1>21. p \notin abandoned' /\ abandoned' \subseteq abandoned
  BY <1>6, Zenon
<1>22. Allocates(p, victim)
  BY <1>6, <1>9, <1>13, <1>14, <1>15, <1>19, <1>20, <1>21, Zenon DEF Allocates
<1> QED
  BY <1>22, Zenon

\* An allocation writes its victim and starts a page that has no bytes.
LEMMA AllocateImages ==
    ASSUME ImageInvariant, Allocate
    PROVE  ImagesKept
<1>1. /\ doomed' = doomed /\ evictions' = evictions /\ Evicting = {}
      /\ view' = view /\ changed' = changed
      /\ pc' = pc /\ want' = want /\ got' = got
      /\ phase = "writing" /\ phase' = phase /\ pc[Writer] = "idle" /\ todo' = todo
  BY Zenon DEF Allocate, WriterAt, pinning, freshness
<1>2. /\ Fresh /\ Dirt /\ FileEnd /\ Fallow /\ PoolInvariant /\ want \in [Threads -> Pages]
  BY Zenon DEF ImageInvariant, PoolInvariant, Shapes
<1>3. PICK p, victim : Allocates(p, victim)
  BY AllocateVisits, Zenon
<1> DEFINE Written(q) == q \in victim /\ frames[q].dirty
<1>4. /\ p \in Pages /\ (p \in abandoned \/ p = length)
      /\ length' = IF p = length THEN length + 1 ELSE length
      /\ \A q \in Pages : Written(q) => device'[q] = frames[q].img
      /\ \A q \in Pages : ~Written(q) => device'[q] = device[q]
      /\ \A q \in Pages : q # p => frames'[q] = IF q \in victim THEN NoFrame ELSE frames[q]
      /\ \A t \in Threads : \A h \in held'[t] : h \in held[t] \/ h.page = p
      /\ p \in grown' /\ \A q \in grown' : q = p \/ (q \in grown /\ ~Written(q))
      /\ p \notin abandoned' /\ abandoned' \subseteq abandoned
      /\ touched' = touched \cup {p}
  BY <1>3, Zenon DEF Allocates
<1>5. \A q : Written(q) => q \in Dirty
  BY <1>3, Zenon DEF Allocates, Dirty
<1> HIDE DEF Written
<1>6. Marked(loads, loads')
  BY <1>2, AllocateEffect, Zenon
<1>7. \A q \in Dirty : q \in Resident /\ q \in Pages /\ InView(q) /\ q \in touched /\ q \in Below
  BY <1>2, SoiledInView, Zenon DEF Soiled, Dirty, Resident, FileEnd
<1>8. length \in Nat /\ MaxPages \in Nat /\ p \in 0 .. MaxPages - 1 /\ length <= MaxPages
  BY <1>2, <1>4, PoolAssumption, Zenon DEF FileEnd, Pages
<1>9. length \notin Below /\ Below \subseteq Below' /\ p \in Below' /\ length' \in Nat
      /\ length' <= MaxPages
  <2>1. p \in Below \/ p = length
    BY <1>2, <1>4, Zenon DEF FileEnd
  <2> QED
    BY <1>4, <1>8, <2>1, SMT DEF Below
<1>10. device[p] = {} /\ ~Written(p)
  <2>1. CASE p \in abandoned
    <3>1. device[p] = {} /\ p \notin Resident
      BY <1>2, <2>1, Zenon DEF Fallow
    <3> QED
      BY <1>5, <1>7, <3>1, Zenon
  <2>2. CASE p = length
    <3>1. device[p] = {}
      BY <1>2, <1>4, <1>9, <2>2, Zenon DEF FileEnd
    <3> QED
      BY <1>5, <1>7, <1>9, <2>2, <3>1, Zenon
  <2> QED
    BY <1>4, <2>1, <2>2, Zenon
<1>11. device'[p] = {}
  BY <1>4, <1>10, Zenon
<1>12. \A q \in Pages : device[q] \subseteq device'[q]
  BY <1>2, <1>4, <1>5, <1>7, Zenon DEF Fresh
<1>13. /\ \A q \in Resident' : q = p \/ (q \in Resident /\ ~Written(q) /\ frames'[q] = frames[q])
       /\ Evicting' = {}
  BY <1>1, <1>4, NoFrameIsFrame, Zenon DEF Resident, Evicting, Written
<1>14. Soiled' \subseteq Soiled \cup {p}
  BY <1>13, Zenon DEF Soiled, Dirty
<1>15. \A q : InView(q)' <=> InView(q)
  BY <1>1, Zenon DEF InView
<1>16. Fresh'
  <2>1. \A q \in Resident' : InView(q) => device'[q] \subseteq frames'[q].img
    <3> SUFFICES ASSUME NEW q \in Resident', InView(q) PROVE device'[q] \subseteq frames'[q].img
      BY Zenon
    <3>1. CASE q = p
      BY <1>11, <3>1, Zenon
    <3>2. CASE q # p
      <4>1. q \in Resident /\ q \in Pages /\ ~Written(q) /\ frames'[q] = frames[q]
        BY <1>13, <3>2, Zenon DEF Resident
      <4> QED
        BY <1>2, <1>4, <4>1, Zenon DEF Fresh
    <3> QED
      BY <3>1, <3>2, Zenon
  <2>2. ASSUME NEW u \in Threads, pc[u] = "admit", loads'[want[u]].valid, InView(want[u])
        PROVE  device'[want[u]] \subseteq got[u]
    <3>1. want[u] \in Pages /\ loads[want[u]].valid
      BY <1>2, <1>6, <2>2, Zenon DEF Marked
    <3>2. want[u] \notin Resident
      BY <2>2, <3>1, ReadNotResident, Zenon
    <3>3. device'[want[u]] = device[want[u]]
      BY <1>4, <1>5, <1>7, <3>1, <3>2, Zenon
    <3> QED
      BY <1>2, <2>2, <3>1, <3>3, Zenon DEF Fresh
  <2> QED
    BY <1>1, <1>13, <1>15, <2>1, <2>2, Zenon DEF Fresh
<1>17. phase \notin {"idle", "fence"} /\ phase # "undo" /\ phase \in {"writing", "restamp", "undo"}
       /\ phase \notin {"restamp", "undo"}
  BY <1>1, SMT
<1>18. Dirt'
  BY <1>1, <1>2, <1>4, <1>14, <1>17, Zenon DEF Dirt, Attempting
<1>19. FileEnd'
  <2>1. \A q \in Pages : q \notin Below' => device'[q] = {}
    BY <1>2, <1>4, <1>5, <1>7, <1>9, Zenon DEF FileEnd
  <2> QED
    BY <1>1, <1>2, <1>4, <1>9, <2>1, ZenonT(60) DEF FileEnd
<1>20. \A u \in Threads : pc'[u] # "idle" => Known(u, want[u])'
  BY <1>1, <1>4, <1>12, KnownStays, Zenon
<1>21. \A q \in grown' : q \in Below' /\ device'[q] = {}
  <2> SUFFICES ASSUME NEW q \in grown' PROVE q \in Below' /\ device'[q] = {}
    BY Zenon
  <2>1. CASE q = p
    BY <1>9, <1>11, <2>1, Zenon
  <2>2. CASE q # p
    <3>1. q \in grown /\ ~Written(q)
      BY <1>4, <2>2, Zenon
    <3>2. q \in Below /\ q \in Pages /\ device[q] = {}
      BY <1>1, <1>2, <3>1, BelowPages, Zenon DEF Fallow
    <3> QED
      BY <1>4, <1>9, <3>1, <3>2, Zenon
  <2> QED
    BY <2>1, <2>2, Zenon
<1>22. \A q \in abandoned' : /\ q # p /\ device'[q] = {} /\ q \notin Resident' /\ q \notin touched'
                             /\ \A h \in held'[Writer] : h.page # q
  <2> SUFFICES ASSUME NEW q \in abandoned'
               PROVE  /\ q # p /\ device'[q] = {} /\ q \notin Resident' /\ q \notin touched'
                      /\ \A h \in held'[Writer] : h.page # q
    BY Zenon
  <2>1. q \in abandoned /\ q # p
    BY <1>4, Zenon
  <2>2. /\ q \in Pages /\ device[q] = {} /\ q \notin Resident /\ q \notin touched
        /\ \A h \in held[Writer] : h.page # q
    BY <1>1, <1>2, <2>1, BelowPages, Zenon DEF Fallow, FileEnd
  <2>3. ~Written(q)
    BY <1>5, <1>7, <2>2, Zenon
  <2> QED
    BY <1>4, <1>13, <2>1, <2>2, <2>3, PoolAssumption, Zenon
<1>23. Fallow'
  BY <1>1, <1>2, <1>13, <1>17, <1>20, <1>21, <1>22, Zenon DEF Fallow
<1> QED
  BY <1>12, <1>16, <1>18, <1>19, <1>23, Zenon DEF ImagesKept

\* What a visit of the undo to page p does: the frame is written and clean, dropped, or
\* clean in the hands of its readers, and only a dropped page that has no bytes is free.
UndoVisits(p) ==
    /\ p \in todo /\ p \notin Evicting /\ todo' = todo \ {p}
    /\ phase' = IF todo' = {} THEN "idle" ELSE "undo"
    /\ touched' = IF todo' = {} THEN {} ELSE touched
    /\ device' = device \/ (p \in Resident /\ device' = [device EXCEPT ![p] = frames[p].img]
                            /\ p \notin grown' /\ p \notin abandoned')
    /\ \A q \in Pages : q # p => frames'[q] = frames[q]
    /\ p \in Resident' => p \in Resident /\ frames'[p].img = frames[p].img
    /\ ~frames'[p].dirty \/ p \notin Resident'
    /\ doomed' \subseteq doomed /\ grown' \subseteq grown
    /\ \A q \in abandoned' : q \in abandoned \/ (q = p /\ q \in grown /\ q \notin Resident')

\* The undo visits one page at a time.
LEMMA UndoStep ==
    ASSUME ImageInvariant, Undo
    PROVE  \E p : UndoVisits(p)
<1>1. IsTable(frames) /\ FileEnd
  BY Zenon DEF ImageInvariant, PoolInvariant, Shapes
<1>2. PICK p \in todo :
         /\ p \notin Evicting /\ (WriteBack(p) \/ discard(p))
         /\ todo' = todo \ {p} /\ phase' = IF todo' = {} THEN "idle" ELSE "undo"
  BY Zenon DEF Undo
<1>3. touched' = IF todo' = {} THEN {} ELSE touched
  BY Zenon DEF Undo
<1>4. p \in Pages
  BY <1>1, BelowPages, Zenon DEF FileEnd
<1>5. ASSUME frames' = [frames EXCEPT ![p].dirty = FALSE]
      PROVE  /\ \A q \in Pages : q # p => frames'[q] = frames[q]
             /\ p \in Resident' => p \in Resident /\ frames'[p].img = frames[p].img
             /\ ~frames'[p].dirty
  <2>1. PICK y : Resoiled(frames[p], FALSE, y)
    BY Zenon DEF Resoiled
  <2>2. Placed(frames, p, y, frames')
    BY <1>5, <2>1, Zenon DEF Resoiled, Placed
  <2>3. DirtOnly(frames, frames', p, FALSE)
    BY <1>1, <1>4, <2>1, <2>2, TableDirt, Zenon
  <2>4. /\ frames'[p].obj = frames[p].obj /\ frames'[p].img = frames[p].img
        /\ ~frames'[p].dirty
    BY <1>4, <2>3, Zenon DEF DirtOnly
  <2>5. IsFrame(frames[p]) /\ IsFrame(y)
    BY <1>1, <1>4, <2>1, StillFrame, Zenon DEF IsTable
  <2>6. Swapped(frames, frames', p, y)
    BY <1>1, <1>4, <2>2, <2>5, OnePlaced, Zenon
  <2>7. \A q \in Pages : q # p => frames'[q] = frames[q]
    BY <2>6, Zenon DEF Swapped
  <2> QED
    BY <1>4, <2>4, <2>7, Zenon DEF Resident
<1>6. ASSUME frames' = frames, p \notin Resident
      PROVE  p \notin Resident'
  BY <1>6, Zenon DEF Resident
<1>7. ASSUME frames' = Without({p})
      PROVE  /\ \A q \in Pages : q # p => frames'[q] = frames[q]
             /\ p \notin Resident'
  <2>1. \A q \in Pages : frames'[q] = IF q \in {p} THEN NoFrame ELSE frames[q]
    BY <1>7, Zenon DEF Without
  <2>2. frames'[p] = NoFrame
    BY <1>4, <2>1, Zenon
  <2> QED
    BY <2>1, <2>2, NoFrameIsFrame, Zenon DEF Resident
<1>8. CASE WriteBack(p)
  <2>1. CASE p \in Resident
    <3>1. /\ device' = [device EXCEPT ![p] = frames[p].img]
          /\ frames' = [frames EXCEPT ![p].dirty = FALSE]
          /\ grown' = grown \ {p} /\ abandoned' = abandoned \ {p} /\ doomed' = doomed
      BY <1>8, <2>1, Zenon DEF WriteBack
    <3> QED
      BY <1>2, <1>3, <1>5, <2>1, <3>1, Zenon DEF UndoVisits
  <2>2. CASE p \notin Resident
    <3>1. /\ device' = device /\ frames' = frames /\ grown' = grown
          /\ abandoned' = abandoned /\ doomed' = doomed
      BY <1>8, <2>2, Zenon DEF WriteBack
    <3> QED
      BY <1>2, <1>3, <1>6, <2>2, <3>1, Zenon DEF UndoVisits
  <2> QED
    BY <2>1, <2>2, Zenon
<1>9. CASE discard(p)
  <2>1. device' = device /\ doomed' \subseteq doomed
    BY <1>9, Zenon DEF discard
  <2>2. CASE p \in Unpinned
    <3>1. /\ frames' = Without({p}) /\ grown' = grown \ {p}
          /\ abandoned' = IF Reclaims(p) THEN abandoned \cup {p} ELSE abandoned
      BY <1>9, <2>2, Zenon DEF discard
    <3>2. \A q \in abandoned' : q \in abandoned \/ (q = p /\ q \in grown)
      BY <3>1, Zenon DEF Reclaims
    <3> QED
      BY <1>2, <1>3, <1>7, <2>1, <3>1, <3>2, ZenonT(60) DEF UndoVisits
  <2>3. CASE p \notin Unpinned
    <3>1. /\ frames' = [frames EXCEPT ![p].dirty = FALSE] /\ grown' = grown
          /\ abandoned' = abandoned
      BY <1>9, <2>3, Zenon DEF discard
    <3> QED
      BY <1>2, <1>3, <1>5, <2>1, <3>1, Zenon DEF UndoVisits
  <2> QED
    BY <2>2, <2>3, Zenon
<1> QED
  BY <1>2, <1>8, <1>9, Zenon

\* The undo writes only images that contain what they replace, and frees only pages
\* without bytes.
LEMMA UndoImages ==
    ASSUME ImageInvariant, Undo
    PROVE  ImagesKept
<1>1. /\ evictions' = evictions /\ length' = length /\ view' = view /\ changed' = changed
      /\ want' = want /\ got' = got /\ held' = held /\ phase = "undo" /\ pc[Writer] = "idle"
  BY Zenon DEF Undo, WriterAt, freshness
<1>2. /\ Fresh /\ Dirt /\ FileEnd /\ Fallow /\ PoolInvariant /\ want \in [Threads -> Pages]
      /\ device = [q \in Pages |-> device[q]]
  BY Zenon DEF ImageInvariant, PoolInvariant, Shapes, Shaped
<1>3. PICK p : UndoVisits(p)
  BY UndoStep, Zenon
<1>4. /\ p \in todo /\ p \notin Evicting /\ todo' = todo \ {p}
      /\ phase' = IF todo' = {} THEN "idle" ELSE "undo"
      /\ touched' = IF todo' = {} THEN {} ELSE touched
      /\ \A q \in Pages : q # p => frames'[q] = frames[q]
      /\ p \in Resident' => p \in Resident /\ frames'[p].img = frames[p].img
      /\ ~frames'[p].dirty \/ p \notin Resident'
      /\ doomed' \subseteq doomed /\ grown' \subseteq grown
      /\ \A q \in abandoned' : q \in abandoned \/ (q = p /\ q \in grown /\ q \notin Resident')
  BY <1>3, Zenon DEF UndoVisits
<1>5. p \in Below /\ p \in Pages /\ p \in touched /\ held[Writer] = {} /\ todo \subseteq touched
  BY <1>1, <1>2, <1>4, BelowPages, Zenon DEF FileEnd, Fallow
<1>6. view = "same" /\ \A q : InView(q) /\ InView(q)'
  <2>1. phase \in {"writing", "restamp", "undo"}
    BY <1>1, Zenon
  <2>2. view = "same"
    BY <1>2, <2>1, Zenon DEF Dirt, Attempting
  <2>3. view # "foreign"
    BY <2>2, SMT
  <2> QED
    BY <1>1, <2>2, <2>3, Zenon DEF InView
<1>7. /\ \A q \in Pages : q # p => device'[q] = device[q]
      /\ \/ device'[p] = device[p]
         \/ p \in Resident /\ device'[p] = frames[p].img /\ p \notin grown' /\ p \notin abandoned'
  <2>1. CASE device' = device
    BY <2>1, Zenon
  <2>2. CASE /\ p \in Resident /\ device' = [device EXCEPT ![p] = frames[p].img]
             /\ p \notin grown' /\ p \notin abandoned'
    <3>1. PICK x : x = frames[p].img
      BY Zenon
    <3>2. \A q \in Pages : device'[q] = IF q = p THEN x ELSE device[q]
      BY <1>2, <2>2, <3>1, EntrySet, Zenon
    <3> QED
      BY <1>5, <2>2, <3>1, <3>2, Zenon
  <2> QED
    BY <1>3, <2>1, <2>2, Zenon DEF UndoVisits
<1>8. \A q \in Pages : device[q] \subseteq device'[q]
  BY <1>2, <1>5, <1>6, <1>7, Zenon DEF Fresh
<1>9. Roused /\ Marked(loads, loads')
  BY <1>2, UndoCalm, Zenon DEF Calm
<1>10. /\ pc'[Writer] # "idle" => pc[Writer] # "idle"
       /\ \A u \in Threads : pc'[u] = "admit" /\ loads'[want'[u]].valid =>
             /\ pc[u] = "admit" /\ want'[u] = want[u] /\ loads[want[u]].valid
             /\ got'[u] = got[u]
       /\ \A u \in Threads : pc'[u] # "idle" => Known(u, want'[u])
       /\ \A v \in Evicting : pc[evictions[v].owner] = "settle" =>
              v \in Evicting' /\ pc'[evictions'[v].owner] = "settle"
  BY <1>1, <1>9, RousedGentle, Zenon
<1>11. /\ Resident' \subseteq Resident /\ Evicting' = Evicting
       /\ \A q \in Resident' : frames'[q].img = frames[q].img
       /\ Soiled' \subseteq Soiled \ {p}
  <2>1. /\ Resident' \subseteq Resident /\ Evicting' = Evicting
        /\ \A q \in Resident' : frames'[q].img = frames[q].img
    BY <1>1, <1>4, Zenon DEF Resident, Evicting
  <2>2. \A q \in Dirty' : q \in Dirty /\ q # p
    BY <1>4, <2>1, Zenon DEF Dirty, Resident
  <2> QED
    BY <1>4, <2>1, <2>2, Zenon DEF Soiled
<1>12. Fresh'
  <2>1. \A q \in Resident' : device'[q] \subseteq frames'[q].img
    <3> SUFFICES ASSUME NEW q \in Resident' PROVE device'[q] \subseteq frames'[q].img
      BY Zenon
    <3>1. q \in Resident /\ q \in Pages /\ frames'[q].img = frames[q].img
      BY <1>11, Zenon DEF Resident
    <3>2. device[q] \subseteq frames[q].img
      BY <1>2, <1>6, <3>1, Zenon DEF Fresh
    <3> QED
      BY <1>7, <3>1, <3>2, Zenon
  <2>2. \A v \in Evicting : device'[v] \subseteq evictions'[v].frame.img
    BY <1>1, <1>2, <1>4, <1>7, Zenon DEF Fresh, Evicting
  <2>3. ASSUME NEW u \in Threads, pc'[u] = "admit", loads'[want'[u]].valid
        PROVE  device'[want'[u]] \subseteq got'[u]
    <3>1. pc[u] = "admit" /\ want'[u] = want[u] /\ loads[want[u]].valid /\ got'[u] = got[u]
      BY <1>10, <2>3, Zenon
    <3>2. want[u] \notin Resident /\ want[u] \in Pages
      BY <1>2, <3>1, ReadNotResident, Zenon
    <3>3. device'[want[u]] = device[want[u]]
      <4>1. CASE want[u] = p
        BY <1>7, <3>2, <4>1, Zenon
      <4>2. CASE want[u] # p
        BY <1>7, <3>2, <4>2, Zenon
      <4> QED
        BY <4>1, <4>2, Zenon
    <3> QED
      BY <1>2, <1>6, <3>1, <3>3, Zenon DEF Fresh
  <2> QED
    BY <1>11, <2>1, <2>2, <2>3, Zenon DEF Fresh
<1>13. Soiled' \subseteq todo'
  BY <1>1, <1>2, <1>4, <1>11, Zenon DEF Dirt
<1>14. Below' = Below
  BY <1>1, Zenon DEF Below
<1>15. FileEnd'
  <2>1. \A q \in Pages : q \notin Below => device'[q] = {}
    BY <1>2, <1>5, <1>7, Zenon DEF FileEnd
  <2>2. touched' \subseteq Below /\ todo' \subseteq Below
    BY <1>2, <1>4, Zenon DEF FileEnd
  <2>3. abandoned' \subseteq Below
    BY <1>2, <1>4, <1>5, Zenon DEF FileEnd
  <2> QED
    BY <1>1, <1>2, <1>14, <2>1, <2>2, <2>3, Zenon DEF FileEnd
<1>16. \A u \in Threads : pc'[u] # "idle" => Known(u, want[u])'
  <2> SUFFICES ASSUME NEW u \in Threads, pc'[u] # "idle" PROVE Known(u, want[u])'
    BY Zenon
  <2>1. Known(u, want[u]) /\ want[u] \in Pages /\ u # Writer
    BY <1>1, <1>2, <1>10, Zenon
  <2>2. device[want[u]] # {} /\ device[want[u]] \subseteq device'[want[u]]
    BY <1>8, <2>1, Zenon DEF Known
  <2> QED
    BY <1>1, <2>2, Zenon DEF Known
<1>17. \A q \in grown' : /\ q \in Below
                         /\ \/ device'[q] = {}
                            \/ q \in Evicting' /\ pc'[evictions'[q].owner] = "settle"
  <2> SUFFICES ASSUME NEW q \in grown'
               PROVE  /\ q \in Below
                      /\ \/ device'[q] = {}
                         \/ q \in Evicting' /\ pc'[evictions'[q].owner] = "settle"
    BY Zenon
  <2>1. q \in grown /\ q \in Below /\ q \in Pages
    BY <1>2, <1>4, BelowPages, Zenon DEF Fallow
  <2>2. device'[q] = device[q]
    BY <1>7, <2>1, Zenon
  <2> QED
    BY <1>2, <1>10, <2>1, <2>2, Zenon DEF Fallow
<1>18. \A q \in abandoned' : device'[q] = {} /\ q \notin Resident' /\ q \notin Evicting'
  <2> SUFFICES ASSUME NEW q \in abandoned'
               PROVE  device'[q] = {} /\ q \notin Resident' /\ q \notin Evicting'
    BY Zenon
  <2>1. CASE q \in abandoned
    <3>1. device[q] = {} /\ q \notin Resident /\ q \notin Evicting /\ q \in Pages
      BY <1>2, <2>1, BelowPages, Zenon DEF Fallow, FileEnd
    <3>2. device'[q] = device[q]
      BY <1>7, <3>1, Zenon
    <3> QED
      BY <1>11, <3>1, <3>2, Zenon
  <2>2. CASE q = p /\ q \in grown /\ q \notin Resident'
    <3>1. device[q] = {}
      BY <1>2, <1>4, <2>2, Zenon DEF Fallow
    <3>2. device'[q] = device[q]
      BY <1>7, <2>2, Zenon
    <3> QED
      BY <1>4, <1>11, <2>2, <3>1, <3>2, Zenon
  <2> QED
    BY <1>4, <2>1, <2>2, Zenon
<1>19. CASE todo' = {}
  <2>1. phase' = "idle" /\ touched' = {} /\ Soiled' = {}
    BY <1>4, <1>13, <1>19, Zenon
  <2>2. /\ phase' \notin {"writing", "restamp", "undo"} /\ phase' # "undo"
        /\ phase' \notin {"writing", "restamp"} /\ phase' \notin {"restamp", "undo"}
    BY <2>1, SMT
  <2>3. Dirt'
    BY <1>1, <1>2, <1>4, <1>10, <2>1, <2>2, Zenon DEF Dirt, Attempting
  <2>4. Fallow'
    BY <1>1, <1>5, <1>14, <1>16, <1>17, <1>18, <2>2, Zenon DEF Fallow
  <2> QED
    BY <1>8, <1>12, <1>15, <2>3, <2>4, Zenon DEF ImagesKept
<1>20. CASE todo' # {}
  <2>1. phase' = "undo" /\ touched' = touched
    BY <1>4, <1>20, Zenon
  <2>2. /\ phase' \notin {"idle", "fence"} /\ phase' \notin {"writing", "restamp"}
        /\ phase' \in {"writing", "restamp", "undo"}
    BY <2>1, SMT
  <2>3. todo' \subseteq touched' /\ Soiled' \subseteq touched'
    BY <1>4, <1>5, <1>13, <2>1, Zenon
  <2>4. Dirt'
    BY <1>1, <1>2, <1>4, <1>6, <1>10, <1>13, <2>1, <2>2, <2>3, Zenon DEF Dirt, Attempting
  <2>5. Fallow'
    BY <1>1, <1>5, <1>14, <1>16, <1>17, <1>18, <2>2, <2>3, Zenon DEF Fallow
  <2> QED
    BY <1>8, <1>12, <1>15, <2>4, <2>5, Zenon DEF ImagesKept
<1> QED
  BY <1>19, <1>20, Zenon

-----------------------------------------------------------------------------
(* Every step.                                                                *)

\* g is f with one entry replaced, or f itself.
Reset(f, g) == g = f \/ \E x, y : g = [f EXCEPT ![x] = y]

Reshaped ==
    /\ Reset(held, held') /\ Reset(got, got')
    /\ Reset(device, device') \/ device' = [p \in Pages |-> device'[p]]
    /\ \A d \in doomed' : IsDoomed(d)

\* A function with one entry replaced is a function over the same set.
LEMMA ResetShape ==
    ASSUME NEW S, NEW f, f = [x \in S |-> f[x]], NEW g, Reset(f, g)
    PROVE  g = [x \in S |-> g[x]]
<1>1. ASSUME NEW x, NEW y, g = [f EXCEPT ![x] = y]
      PROVE  g = [z \in S |-> g[z]]
  <2>1. g = [z \in S |-> IF z = x THEN y ELSE f[z]]
    BY <1>1, Zenon
  <2> QED
    BY <2>1, Zenon
<1> QED
  BY <1>1, Zenon DEF Reset

\* So the shapes stay.
LEMMA ReshapedKept ==
    ASSUME Shaped, Reshaped
    PROVE  Shaped'
<1>1. held' = [t \in Threads |-> held'[t]] /\ got' = [t \in Threads |-> got'[t]]
  BY ResetShape, Zenon DEF Shaped, Reshaped
<1>2. device' = [p \in Pages |-> device'[p]]
  BY ResetShape, Zenon DEF Shaped, Reshaped
<1> QED
  BY <1>1, <1>2, Zenon DEF Shaped, Reshaped

\* The steps of a pin and of its flight.
LEMMA ThreadReshapes ==
    ASSUME Shaped, NEW t \in Threads, Pin(t) \/ Flight(t)
    PROVE  Reshaped
<1>1. \A d \in doomed : IsDoomed(d)
  BY Zenon DEF Shaped
<1>2. CASE Pin(t)
  <2>1. PICK p \in Pages : \/ PinHit(t, p) \/ PinJoin(t, p) \/ PinReserve(t, p)
                           \/ PinEvict(t, p) \/ PinNoVictim(t, p)
    BY <1>2, Zenon DEF Pin
  <2>2. CASE PinHit(t, p)
    <3>1. PICK y : held' = [held EXCEPT ![t] = y]
      BY <2>2, Zenon DEF PinHit
    <3>2. device' = device /\ got' = got /\ doomed' = doomed
      BY <2>2, Zenon DEF PinHit, disk
    <3> QED
      BY <1>1, <3>1, <3>2, Zenon DEF Reshaped, Reset
  <2>3. CASE PinJoin(t, p) \/ PinReserve(t, p) \/ PinEvict(t, p) \/ PinNoVictim(t, p)
    <3>1. device' = device /\ got' = got /\ doomed' = doomed /\ held' = held
      BY <2>3, Zenon DEF PinJoin, PinReserve, PinEvict, PinNoVictim, disk, pool
    <3> QED
      BY <1>1, <3>1, Zenon DEF Reshaped, Reset
  <2> QED
    BY <2>1, <2>2, <2>3, Zenon
<1>3. CASE Flight(t)
  <2>1. \/ \E v \in Pages : EvictPublish(t, v) \/ EvictSettle(t, v) \/ EvictRestore(t, v)
        \/ ReadPage(t) \/ ReadFails(t) \/ Admit(t)
    BY <1>3, Zenon DEF Flight
  <2>2. ASSUME NEW v \in Pages, EvictPublish(t, v) PROVE Reshaped
    <3>1. PICK y : device' = [device EXCEPT ![v] = y]
      BY <2>2, Zenon DEF EvictPublish
    <3>2. got' = got /\ doomed' = doomed /\ held' = held
      BY <2>2, Zenon DEF EvictPublish, pool
    <3> QED
      BY <1>1, <3>1, <3>2, Zenon DEF Reshaped, Reset
  <2>3. ASSUME NEW v \in Pages, EvictSettle(t, v) \/ EvictRestore(t, v) \/ ReadFails(t)
        PROVE  Reshaped
    <3>1. device' = device /\ got' = got /\ doomed' = doomed /\ held' = held
      BY <2>3, Zenon DEF EvictSettle, EvictRestore, ReadFails, disk
    <3> QED
      BY <1>1, <3>1, Zenon DEF Reshaped, Reset
  <2>4. CASE ReadFails(t)
    <3>1. device' = device /\ got' = got /\ doomed' = doomed /\ held' = held
      BY <2>4, Zenon DEF ReadFails, disk
    <3> QED
      BY <1>1, <3>1, Zenon DEF Reshaped, Reset
  <2>5. CASE ReadPage(t)
    <3>1. PICK y : got' = [got EXCEPT ![t] = y]
      BY <2>5, Zenon DEF ReadPage
    <3>2. device' = device /\ doomed' = doomed /\ held' = held
      BY <2>5, Zenon DEF ReadPage, pool, disk
    <3> QED
      BY <1>1, <3>1, <3>2, Zenon DEF Reshaped, Reset
  <2>6. CASE Admit(t)
    <3>1. PICK y : got' = [got EXCEPT ![t] = y]
      BY <2>6, Zenon DEF Admit
    <3>2. PICK z : held' = held \/ held' = [held EXCEPT ![t] = z]
      BY <2>6, Zenon DEF Admit
    <3>3. device' = device /\ doomed' = doomed
      BY <2>6, Zenon DEF Admit, disk
    <3> QED
      BY <1>1, <3>1, <3>2, <3>3, Zenon DEF Reshaped, Reset
  <2> QED
    BY <2>1, <2>2, <2>3, <2>4, <2>5, <2>6, Zenon
<1> QED
  BY <1>2, <1>3, Zenon

\* Releases and views.
LEMMA ReleaseReshapes ==
    ASSUME ImageInvariant, NEW t \in Threads,
           begin_read_view(t) \/ \E h \in held[t] : Unpin(t, h)
    PROVE  Reshaped
<1>1. \A d \in doomed : IsDoomed(d)
  BY Zenon DEF ImageInvariant, Shaped
<1>2. CASE begin_read_view(t)
  <2>1. device' = device /\ \A d \in doomed' : IsDoomed(d)
    BY <1>2, ViewEffect, Zenon
  <2>2. held' = held /\ got' = got
    BY <1>2, Zenon DEF begin_read_view
  <2> QED
    BY <2>1, <2>2, Zenon DEF Reshaped, Reset
<1>3. ASSUME NEW h \in held[t], Unpin(t, h) PROVE Reshaped
  <2>1. PICK y : held' = [held EXCEPT ![t] = y]
    BY <1>3, Zenon DEF Unpin
  <2>2. got' = got
    BY <1>3, Zenon DEF Unpin
  <2>3. device' = device
    BY <1>3, UnpinGentle, Zenon DEF Gentle
  <2>4. \A e \in doomed' : IsDoomed(e)
    <3>1. ASSUME NEW d \in doomed, DropDoomed(d)
          PROVE  \A e \in doomed' : IsDoomed(e)
      <4>1. PICK n, e : Released(d, n, e) /\ doomed' \subseteq doomed \cup {e}
        BY <3>1, Zenon DEF DropDoomed, Released
      <4>2. IsDoomed(d)
        BY <1>1, Zenon
      <4>3. IsDoomed(e)
        BY <4>1, <4>2, DoomedEdit, SMT
      <4> QED
        BY <1>1, <4>1, <4>3, Zenon
    <3>2. \/ \E d \in doomed : DropDoomed(d)
          \/ doomed' = doomed
      BY <1>3, Zenon DEF Unpin, DropPin
    <3> QED
      BY <1>1, <3>1, <3>2, Zenon
  <2> QED
    BY <2>1, <2>2, <2>3, <2>4, Zenon DEF Reshaped, Reset
<1> QED
  BY <1>2, <1>3, Zenon

\* The steps of a commit attempt, and the commits of others.
LEMMA WriterReshapes ==
    ASSUME ImageInvariant, WriterStep \/ ForeignCommit \/ UNCHANGED vars
    PROVE  Reshaped
<1>1. \A d \in doomed : IsDoomed(d)
  BY Zenon DEF ImageInvariant, Shaped
<1>2. CASE BeginAttempt \/ Refuse \/ FenceEnter \/ FenceSection \/ FenceLeave
  <2>1. device' = device /\ got' = got /\ doomed' = doomed /\ held' = held
    BY <1>2, Zenon DEF BeginAttempt, Refuse, FenceEnter, FenceSection, FenceLeave,
                       disk, pool, pinning
  <2> QED
    BY <1>1, <2>1, Zenon DEF Reshaped, Reset
<1>3. CASE CheckEscaped \/ UNCHANGED vars
  <2>1. device' = device /\ got' = got /\ doomed' = doomed /\ held' = held
    BY <1>3, ZenonT(60) DEF CheckEscaped, vars, disk, pool, pinning
  <2> QED
    BY <1>1, <2>1, Zenon DEF Reshaped, Reset
<1>4. ASSUME NEW h, Mutate(h) PROVE Reshaped
  <2>1. device' = device /\ got' = got /\ doomed' = doomed /\ held' = held
    BY <1>4, Zenon DEF Mutate, disk, pinning
  <2> QED
    BY <1>1, <2>1, Zenon DEF Reshaped, Reset
<1>5. CASE Commit
  <2>1. /\ device' = [p \in Pages |-> IF p \in Dirty THEN frames[p].img ELSE device[p]]
        /\ got' = got /\ doomed' = doomed /\ held' = held
    BY <1>5, Zenon DEF Commit, pinning
  <2>2. device' = [p \in Pages |-> device'[p]]
    BY <2>1, Zenon
  <2> QED
    BY <1>1, <2>1, <2>2, Zenon DEF Reshaped, Reset
<1>6. CASE Allocate
  <2>1. /\ \E y : held' = [held EXCEPT ![Writer] = y]
        /\ \E ps : device' = [q \in Pages |-> IF q \in ps THEN frames[q].img ELSE device[q]]
    <3>1. PICK p \in abandoned \cup {length}, v \in Unpinned \cup {Header} :
             LET victim == IF occupied_slots >= Capacity THEN {v} ELSE {}
                 written == {q \in victim : frames[q].dirty}
             IN  /\ device' = [q \in Pages |-> IF q \in written THEN frames[q].img ELSE device[q]]
                 /\ held' = [held EXCEPT ![Writer] = @ \cup {[page |-> p, obj |-> NewObject(p)]}]
      BY <1>6, Zenon DEF Allocate
    <3> QED
      BY <3>1, Zenon
  <2>2. device' = [p \in Pages |-> device'[p]]
    BY <2>1, Zenon
  <2>3. got' = got /\ doomed' = doomed
    BY <1>6, Zenon DEF Allocate, pinning
  <2> QED
    BY <1>1, <2>1, <2>2, <2>3, Zenon DEF Reshaped, Reset
<1>7. CASE Undo
  <2>1. PICK p : UndoVisits(p)
    BY <1>7, UndoStep, Zenon
  <2>2. doomed' \subseteq doomed /\ Reset(device, device')
    BY <2>1, Zenon DEF UndoVisits, Reset
  <2>3. held' = held /\ got' = got
    BY <1>7, Zenon DEF Undo
  <2> QED
    BY <1>1, <2>2, <2>3, Zenon DEF Reshaped, Reset
<1>8. CASE ForeignCommit
  <2>1. PICK p, y : device' = [device EXCEPT ![p] = y]
    BY <1>8, Zenon DEF ForeignCommit
  <2>2. got' = got /\ doomed' = doomed /\ held' = held
    BY <1>8, Zenon DEF ForeignCommit, pool, pinning
  <2> QED
    BY <1>1, <2>1, <2>2, Zenon DEF Reshaped, Reset
<1> QED
  BY <1>2, <1>3, <1>4, <1>5, <1>6, <1>7, <1>8, Zenon DEF WriterStep

\* Every step keeps the images.
LEMMA NextImages ==
    ASSUME ImageInvariant, [Next]_vars
    PROVE  ImagesKept
<1>1. ASSUME NEW t \in Threads, Pin(t) PROVE ImagesKept
  <2>1. PICK p \in Pages : \/ PinHit(t, p) \/ PinJoin(t, p) \/ PinReserve(t, p)
                           \/ PinEvict(t, p) \/ PinNoVictim(t, p)
    BY <1>1, Zenon DEF Pin
  <2>2. Gentle
    BY <2>1, PinHitGentle, PinGroundedGentle, PinReserveGentle, PinEvictGentle, Zenon
  <2>3. Tame
    BY <2>1, PinHitTame, PinMissTame, Zenon
  <2> QED
    BY <2>2, <2>3, GentleKept, Zenon
<1>2. ASSUME NEW t \in Threads, Flight(t) PROVE ImagesKept
  <2>1. \/ \E v \in Pages : EvictPublish(t, v) \/ EvictSettle(t, v) \/ EvictRestore(t, v)
        \/ ReadPage(t) \/ ReadFails(t) \/ Admit(t)
    BY <1>2, Zenon DEF Flight
  <2>2. Header \in Pages
    BY NoWaitIs, Zenon
  <2>3. CASE ReadFails(t)
    BY <2>2, <2>3, ReadFailsGentle, FailedFlightTame, GentleKept, Zenon
  <2>4. ASSUME NEW v \in Pages, EvictRestore(t, v) PROVE ImagesKept
    BY <2>4, EvictRestoreGentle, FailedFlightTame, GentleKept, Zenon
  <2> QED
    BY <2>1, <2>3, <2>4, EvictPublishImages, EvictSettleGentle, ReadPageGentle, AdmitGentle,
       GentleKept, Zenon
<1>3. ASSUME NEW t \in Threads, begin_read_view(t) \/ \E h \in held[t] : Unpin(t, h)
      PROVE  ImagesKept
  BY <1>3, ViewImages, UnpinGentle, GentleKept, Zenon
<1>4. CASE WriterStep
  <2>1. \/ BeginAttempt \/ Refuse \/ CheckEscaped \/ (\E h \in held[Writer] : Mutate(h))
        \/ Allocate \/ Commit \/ Undo \/ FenceEnter \/ FenceSection \/ FenceLeave
    BY <1>4, Zenon DEF WriterStep
  <2>2. CASE FenceSection
    BY <2>2, FenceSectionGentle, GentleKept, Zenon
  <2> QED
    BY <2>1, <2>2, BeginImages, RefuseImages, CheckEscapedImages, MutateImages, AllocateImages,
       CommitImages, UndoImages, FenceImages, Zenon
<1>5. CASE ForeignCommit
  BY <1>5, ForeignImages, Zenon
<1>6. CASE UNCHANGED vars
  <2>1. SameImages /\ phase' = phase /\ touched' = touched /\ todo' = todo
    BY <1>6, ZenonT(60) DEF vars, SameImages, pool, claims, disk, freshness, pinning, work
  <2>2. /\ Fresh /\ Dirt /\ FileEnd /\ Fallow
    BY Zenon DEF ImageInvariant
  <2>3. /\ Resident' = Resident /\ Evicting' = Evicting /\ Dirty' = Dirty /\ Soiled' = Soiled
        /\ Below' = Below /\ \A p : InView(p)' <=> InView(p)
    BY <2>1, Zenon DEF SameImages, Resident, Evicting, Dirty, Soiled, Below, InView
  <2>4. Fresh' /\ Dirt' /\ FileEnd'
    BY <2>1, <2>2, <2>3, Zenon DEF SameImages, Fresh, Dirt, FileEnd, Attempting
  <2>5. Fallow'
    BY <2>1, <2>2, <2>3, Zenon DEF SameImages, Fallow, Known
  <2>6. \A p \in Pages : device[p] \subseteq device'[p]
    BY <2>1, Zenon DEF SameImages
  <2> QED
    BY <2>4, <2>5, <2>6, Zenon DEF ImagesKept
<1> QED
  BY <1>1, <1>2, <1>3, <1>4, <1>5, <1>6, Zenon DEF Next

\* Every step keeps the invariant.
LEMMA NextImageInvariant ==
    ASSUME ImageInvariant, [Next]_vars
    PROVE  ImageInvariant'
<1>1. PoolInvariant /\ Shaped
  BY Zenon DEF ImageInvariant
<1>2. PoolInvariant'
  BY <1>1, NextPool, Zenon
<1>3. Fresh' /\ Dirt' /\ FileEnd' /\ Fallow'
  BY NextImages, Zenon DEF ImagesKept
<1>4. Reshaped
  BY <1>1, ThreadReshapes, ReleaseReshapes, WriterReshapes, Zenon DEF Next
<1>5. Shaped'
  BY <1>1, <1>4, ReshapedKept, Zenon
<1> QED
  BY <1>2, <1>3, <1>5, Zenon DEF ImageInvariant

\* The empty pool satisfies it.
LEMMA InitImages ==
    ASSUME Init
    PROVE  ImageInvariant
<1>1. PoolInvariant
  BY InitPool, Zenon
<1>2. /\ frames = [p \in Pages |-> NoFrame] /\ evictions = [p \in Pages |-> NoEviction]
      /\ device = [p \in Pages |-> IF p < InitPages THEN {0} ELSE {}]
      /\ \/ length = InitPages /\ abandoned = {}
         \/ /\ InitPages < MaxPages
            /\ length = InitPages + 1 /\ abandoned = {InitPages}
      /\ doomed = {} /\ grown = {} /\ touched = {} /\ todo = {} /\ phase = "idle"
      /\ pc = [t \in Threads |-> "idle"] /\ want = [t \in Threads |-> Header]
      /\ got = [t \in Threads |-> {}]
  BY Zenon DEF Init
<1>12. /\ held = [t \in Threads |-> held[t]] /\ held[Writer] = {}
       /\ \A t \in Threads : \A h \in held[t] : h.page = Header
  <2>1. CASE held = [t \in Threads |-> {}]
    BY <2>1, PoolAssumption, Zenon
  <2>2. ASSUME NEW r \in Stranded,
               held = [t \in Threads |-> IF t = r THEN {[page |-> Header, obj |-> 1]} ELSE {}]
        PROVE  /\ held = [t \in Threads |-> held[t]] /\ held[Writer] = {}
               /\ \A t \in Threads : \A h \in held[t] : h.page = Header
    <3>1. \A t \in Threads : held[t] = IF t = r THEN {[page |-> Header, obj |-> 1]} ELSE {}
      BY <2>2, Zenon
    <3>2. [page |-> Header, obj |-> 1].page = Header
      BY SMT
    <3>3. Writer \in Threads /\ r # Writer
      BY PoolAssumption, Zenon
    <3>4. held = [t \in Threads |-> held[t]]
      BY <2>2, Zenon
    <3> QED
      BY <3>1, <3>2, <3>3, <3>4, Zenon
  <2>3. \/ held = [t \in Threads |-> {}]
        \/ \E r \in Stranded :
              held = [t \in Threads |-> IF t = r THEN {[page |-> Header, obj |-> 1]} ELSE {}]
    BY Zenon DEF Init
  <2> QED
    BY <2>1, <2>2, <2>3, Zenon
<1>3. Resident = {} /\ Evicting = {} /\ Soiled = {}
  <2>1. NoFrame.obj = 0 /\ NoEviction.owner = NoThread
    BY NoFrameIsFrame, Zenon DEF NoEviction
  <2>2. Resident = {} /\ Evicting = {}
    BY <1>2, <2>1, Zenon DEF Resident, Evicting
  <2> QED
    BY <2>2, Zenon DEF Soiled, Dirty
<1>4. \A t \in Threads : pc[t] = "idle" /\ want[t] = Header
  BY <1>2, Zenon
<1>5. /\ phase \in {"idle", "fence", "writing", "restamp", "undo"} /\ phase # "undo"
      /\ phase \notin {"writing", "restamp", "undo"} /\ "idle" # "admit"
      /\ phase \notin {"writing", "restamp"} /\ phase \notin {"restamp", "undo"}
  BY <1>2, SMT
<1>6. Fresh
  BY <1>3, <1>4, <1>5, Zenon DEF Fresh
<1>7. Dirt
  BY <1>2, <1>3, <1>4, <1>5, PoolAssumption, Zenon DEF Dirt, Attempting
<1>8. /\ length \in Nat /\ length <= MaxPages /\ Header \in Below
      /\ abandoned \subseteq Below
      /\ \A q \in abandoned : q \in Pages /\ ~(q < InitPages)
      /\ \A q \in Pages : q \notin Below => ~(q < InitPages)
  <2>1. InitPages \in Nat \ {0} /\ MaxPages \in Nat /\ MaxPages >= InitPages
    BY PoolAssumption, Zenon
  <2> QED
    BY <1>2, <2>1, SMT DEF Below, Pages, Header
<1>9. FileEnd
  <2>1. \A q \in Pages : q \notin Below => device[q] = {}
    BY <1>2, <1>8, Zenon
  <2> QED
    BY <1>2, <1>4, <1>8, <1>12, <2>1, Zenon DEF FileEnd
<1>10. Fallow
  <2>1. \A q \in abandoned : device[q] = {}
    BY <1>2, <1>8, Zenon
  <2> QED
    BY <1>2, <1>3, <1>4, <1>5, <1>12, <2>1, PoolAssumption, Zenon DEF Fallow
<1>11. Shaped
  BY <1>2, <1>12, Zenon DEF Shaped
<1> QED
  BY <1>1, <1>6, <1>7, <1>9, <1>10, <1>11, Zenon DEF ImageInvariant

\* The image invariant holds in every reachable state.
THEOREM ImagesHold == Spec => []ImageInvariant
<1>1. Init => ImageInvariant
  BY InitImages, Zenon
<1>2. ImageInvariant /\ [Next]_vars => ImageInvariant'
  BY NextImageInvariant, Zenon
<1> QED
  BY <1>1, <1>2, PTL DEF Spec

\* With the newest commit in view every resident frame holds all of it, for any number of
\* threads, pages and commits and any capacity: a read that was under way when the view was
\* taken never brings an older page into the table (begin_read_view, Admit).
THEOREM ViewsStayFresh == Spec => []ViewIsFresh
<1>1. ImageInvariant => ViewIsFresh
  <2> SUFFICES ASSUME ImageInvariant, view = "same" PROVE \A p \in Resident : device[p] \subseteq frames[p].img
    BY Zenon DEF ViewIsFresh
  <2>1. "same" # "foreign"
    OBVIOUS
  <2> QED
    BY <2>1, Zenon DEF ImageInvariant, Fresh, InView
<1> QED
  BY <1>1, ImagesHold, PTL

\* Bytes on the device are only replaced by an image that contains them, for any number of
\* threads, pages, attempts and commits of others: no stale frame, detached victim or late
\* release overwrites a commit (EvictPublish, flush, _undo_pages, unpin).
THEOREM NothingStaleIsWritten == Spec => NoStaleWrite
<1>1. ImageInvariant /\ [Next]_vars => [\A p \in Pages : device[p] \subseteq device'[p]]_vars
  BY NextImages, Zenon DEF ImagesKept
<1> QED
  BY <1>1, ImagesHold, PTL DEF Spec, NoStaleWrite

=============================================================================
