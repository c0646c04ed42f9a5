-------------------------- MODULE PoolImagesProofs --------------------------
(* Proofs about the bytes BufferPool moves, for any threads, capacity, file    *)
(* length and all bounds: what is on the device is only replaced by an image   *)
(* that contains it, and a frame in the table is never behind the device once  *)
(* the newest commit is in view.                                               *)
EXTENDS BufferPoolProofs

-----------------------------------------------------------------------------
(* The inductive invariant.                                                   *)

Attempting == phase \in {"writing", "restamp", "undo"}

\* The pages of the file, and those with bytes the device does not have.
Below == 0 .. length - 1
Soiled == Dirty \cup Evicting

\* No commit of another participant has changed the page since the view was taken.
InView(p) == view # "foreign" \/ p \notin changed

\* A frame, a detached victim and an image a valid load has read are not behind the
\* device, other than by a commit the view does not show yet.
Fresh ==
    /\ \A p \in Resident : InView(p) => device[p] \subseteq frames[p].img
    /\ \A v \in Evicting : device[v] \subseteq evictions[v].frame.img
    /\ \A t \in Threads : pc[t] = "admit" /\ loads[want[t]].valid /\ InView(want[t])
                              => device[want[t]] \subseteq got[t]

\* Bytes the device does not have belong to the attempt that is under way, which alone
\* keeps other commits out, and to the part of it the undo has still to visit.
Dirt ==
    /\ phase \in {"idle", "fence", "writing", "restamp", "undo"}
    /\ phase \in {"idle", "fence"} => Soiled = {}
    /\ Attempting => view = "same" /\ Soiled \subseteq touched
    /\ phase = "undo" => Soiled \subseteq todo
    /\ \A d \in doomed : ~d.dirty
    /\ pc[Writer] # "idle" => phase \in {"writing", "restamp"}

\* Nothing is behind the end of the file.
FileEnd ==
    /\ length \in Nat /\ length <= MaxPages /\ Header \in Below
    /\ \A q \in Pages : q \notin Below => device[q] = {}
    /\ touched \subseteq Below /\ todo \subseteq Below /\ abandoned \subseteq Below
    /\ \A t \in Threads : want[t] \in Below /\ \A h \in held[t] : h.page \in Below

\* The page thread t is after: it has bytes, or it is a page of the attempt under way.
Known(t, p) == device[p] # {} \/ (t = Writer /\ p \in touched)

\* A page free for reuse has no bytes, and nobody has it or is after it.
Fallow ==
    /\ grown \subseteq Below
    /\ \A q \in grown : device[q] = {} \/ (q \in Evicting /\ pc[evictions[q].owner] = "settle")
    /\ \A q \in abandoned : /\ device[q] = {} /\ q \notin Resident /\ q \notin Evicting
                            /\ phase \in {"writing", "restamp"} => q \notin touched
                            /\ \A h \in held[Writer] : h.page # q
    /\ phase = "undo" => held[Writer] = {}
    /\ phase \in {"restamp", "undo"} => todo \subseteq touched
    /\ \A t \in Threads : pc[t] # "idle" => Known(t, want[t])

IsDoomed(d) == d = [page |-> d.page, obj |-> d.obj, pins |-> d.pins, img |-> d.img,
                    dirty |-> d.dirty, unwritten |-> d.unwritten]

Shaped ==
    /\ held = [t \in Threads |-> held[t]] /\ got = [t \in Threads |-> got[t]]
    /\ device = [p \in Pages |-> device[p]] /\ \A d \in doomed : IsDoomed(d)

ImageInvariant == PoolInvariant /\ Fresh /\ Dirt /\ FileEnd /\ Fallow /\ Shaped

-----------------------------------------------------------------------------
(* Edits of one frame.                                                        *)

\* g is the frame f with one field replaced.
Repinned(f, x, g) == g = [f EXCEPT !.pins = x]
Resoiled(f, x, g) == g = [f EXCEPT !.dirty = x]
Rewritten(f, x, g) == g = [f EXCEPT !.img = x]

\* g is the table f with one frame replaced.
Placed(f, p, y, g) == g = [f EXCEPT ![p] = y]

\* g is the table f with frame y for p.
Swapped(f, g, p, y) == IsTable(g) /\ g[p] = y /\ \A q \in Pages : q # p => g[q] = f[q]

\* g is the table f with the pins, the dirty mark or the image of one frame replaced.
PinsOnly(f, g, p, n) ==
    /\ IsTable(g)
    /\ \A q \in Pages : g[q].obj = f[q].obj /\ g[q].img = f[q].img /\ g[q].dirty = f[q].dirty
    /\ g[p].pins = n /\ \A q \in Pages : q # p => g[q].pins = f[q].pins
DirtOnly(f, g, p, x) ==
    /\ IsTable(g)
    /\ \A q \in Pages : g[q].obj = f[q].obj /\ g[q].img = f[q].img /\ g[q].pins = f[q].pins
    /\ g[p].dirty = x /\ \A q \in Pages : q # p => g[q].dirty = f[q].dirty
ImageOnly(f, g, p, i) ==
    /\ IsTable(g)
    /\ \A q \in Pages : g[q].obj = f[q].obj /\ g[q].dirty = f[q].dirty /\ g[q].pins = f[q].pins
    /\ g[p].img = i /\ \A q \in Pages : q # p => g[q].img = f[q].img

\* One field of a frame replaced.
LEMMA FieldSet ==
    ASSUME NEW f, IsFrame(f), NEW x, NEW g
    PROVE  /\ Repinned(f, x, g) =>
                  g.obj = f.obj /\ g.pins = x /\ g.img = f.img /\ g.dirty = f.dirty
           /\ Resoiled(f, x, g) =>
                  g.obj = f.obj /\ g.pins = f.pins /\ g.img = f.img /\ g.dirty = x
           /\ Rewritten(f, x, g) =>
                  g.obj = f.obj /\ g.pins = f.pins /\ g.img = x /\ g.dirty = f.dirty
<1> DEFINE F(o, n, i, d) == [obj |-> o, pins |-> n, img |-> i, dirty |-> d]
<1>1. f = F(f.obj, f.pins, f.img, f.dirty)
  BY Zenon DEF IsFrame
<1>2. /\ [F(f.obj, f.pins, f.img, f.dirty) EXCEPT !.pins = x] = F(f.obj, x, f.img, f.dirty)
      /\ [F(f.obj, f.pins, f.img, f.dirty) EXCEPT !.dirty = x] = F(f.obj, f.pins, f.img, x)
      /\ [F(f.obj, f.pins, f.img, f.dirty) EXCEPT !.img = x] = F(f.obj, f.pins, x, f.dirty)
  BY SMT
<1>3. /\ Repinned(f, x, g) => g = F(f.obj, x, f.img, f.dirty)
      /\ Resoiled(f, x, g) => g = F(f.obj, f.pins, f.img, x)
      /\ Rewritten(f, x, g) => g = F(f.obj, f.pins, x, f.dirty)
  BY <1>1, <1>2, Zenon DEF Repinned, Resoiled, Rewritten
<1>4. \A o, n, i, d : g = F(o, n, i, d) =>
          g.obj = o /\ g.pins = n /\ g.img = i /\ g.dirty = d
  BY SMT
<1> HIDE DEF F
<1> QED
  BY <1>3, <1>4, Zenon

\* One frame of a table replaced.
LEMMA OnePlaced ==
    ASSUME NEW f, IsTable(f), NEW p \in Pages, NEW y, IsFrame(y), NEW g, Placed(f, p, y, g)
    PROVE  Swapped(f, g, p, y)
<1>1. f = [q \in Pages |-> f[q]] /\ \A q \in Pages : IsFrame(f[q])
  BY Zenon DEF IsTable
<1>2. g = [f EXCEPT ![p] = y]
  BY Zenon DEF Placed
<1>3. g = [q \in Pages |-> g[q]] /\ \A q \in Pages : g[q] = IF q = p THEN y ELSE f[q]
  BY <1>1, <1>2, EntrySet, Zenon
<1>4. g[p] = y /\ \A q \in Pages : q # p => g[q] = f[q]
  BY <1>3, Zenon
<1>5. \A q \in Pages : IsFrame(g[q])
  BY <1>1, <1>4, Zenon
<1> QED
  BY <1>3, <1>4, <1>5, Zenon DEF IsTable, Swapped

\* A frame with one field replaced is a frame.
LEMMA StillFrame ==
    ASSUME NEW f, IsFrame(f), NEW x, NEW g,
           Repinned(f, x, g) \/ Resoiled(f, x, g) \/ Rewritten(f, x, g)
    PROVE  IsFrame(g)
<1>1. Edited(f, g)
  BY Zenon DEF Edited, Repinned, Resoiled, Rewritten
<1> QED
  BY <1>1, FrameEdits, Zenon

\* The pins of one frame of a table replaced.
LEMMA TablePins ==
    ASSUME NEW f, IsTable(f), NEW p \in Pages, NEW n, NEW y, Repinned(f[p], n, y),
           NEW g, Placed(f, p, y, g)
    PROVE  PinsOnly(f, g, p, n)
<1>1. IsFrame(f[p])
  BY Zenon DEF IsTable
<1>2. IsFrame(y)
  BY <1>1, StillFrame, Zenon
<1>3. IsTable(g) /\ g[p] = y /\ \A q \in Pages : q # p => g[q] = f[q]
  <2>1. Swapped(f, g, p, y)
    BY <1>2, OnePlaced, Zenon
  <2> QED
    BY <2>1, Zenon DEF Swapped
<1>4. y.obj = f[p].obj /\ y.pins = n /\ y.img = f[p].img /\ y.dirty = f[p].dirty
  BY <1>1, FieldSet, SMT
<1>5. ASSUME NEW q \in Pages
      PROVE  /\ g[q].obj = f[q].obj /\ g[q].img = f[q].img /\ g[q].dirty = f[q].dirty
             /\ q # p => g[q].pins = f[q].pins
  <2>1. CASE q = p
    BY <1>3, <1>4, <2>1, Zenon
  <2>2. CASE q # p
    BY <1>3, <2>2, Zenon
  <2> QED
    BY <2>1, <2>2, Zenon
<1>6. g[p].pins = n
  BY <1>3, <1>4, Zenon
<1> QED
  BY <1>3, <1>5, <1>6, Zenon DEF PinsOnly

\* The dirty mark of one frame of a table replaced.
LEMMA TableDirt ==
    ASSUME NEW f, IsTable(f), NEW p \in Pages, NEW x, NEW y, Resoiled(f[p], x, y),
           NEW g, Placed(f, p, y, g)
    PROVE  DirtOnly(f, g, p, x)
<1>1. IsFrame(f[p])
  BY Zenon DEF IsTable
<1>2. IsFrame(y)
  BY <1>1, StillFrame, Zenon
<1>3. IsTable(g) /\ g[p] = y /\ \A q \in Pages : q # p => g[q] = f[q]
  <2>1. Swapped(f, g, p, y)
    BY <1>2, OnePlaced, Zenon
  <2> QED
    BY <2>1, Zenon DEF Swapped
<1>4. y.obj = f[p].obj /\ y.dirty = x /\ y.img = f[p].img /\ y.pins = f[p].pins
  BY <1>1, FieldSet, SMT
<1>5. ASSUME NEW q \in Pages
      PROVE  /\ g[q].obj = f[q].obj /\ g[q].img = f[q].img /\ g[q].pins = f[q].pins
             /\ q # p => g[q].dirty = f[q].dirty
  <2>1. CASE q = p
    BY <1>3, <1>4, <2>1, Zenon
  <2>2. CASE q # p
    BY <1>3, <2>2, Zenon
  <2> QED
    BY <2>1, <2>2, Zenon
<1>6. g[p].dirty = x
  BY <1>3, <1>4, Zenon
<1> QED
  BY <1>3, <1>5, <1>6, Zenon DEF DirtOnly

\* The image of one frame of a table replaced.
LEMMA TableImage ==
    ASSUME NEW f, IsTable(f), NEW p \in Pages, NEW i, NEW y, Rewritten(f[p], i, y),
           NEW g, Placed(f, p, y, g)
    PROVE  ImageOnly(f, g, p, i)
<1>1. IsFrame(f[p])
  BY Zenon DEF IsTable
<1>2. IsFrame(y)
  BY <1>1, StillFrame, Zenon
<1>3. IsTable(g) /\ g[p] = y /\ \A q \in Pages : q # p => g[q] = f[q]
  <2>1. Swapped(f, g, p, y)
    BY <1>2, OnePlaced, Zenon
  <2> QED
    BY <2>1, Zenon DEF Swapped
<1>4. y.obj = f[p].obj /\ y.img = i /\ y.dirty = f[p].dirty /\ y.pins = f[p].pins
  BY <1>1, FieldSet, SMT
<1>5. ASSUME NEW q \in Pages
      PROVE  /\ g[q].obj = f[q].obj /\ g[q].dirty = f[q].dirty /\ g[q].pins = f[q].pins
             /\ q # p => g[q].img = f[q].img
  <2>1. CASE q = p
    BY <1>3, <1>4, <2>1, Zenon
  <2>2. CASE q # p
    BY <1>3, <2>2, Zenon
  <2> QED
    BY <2>1, <2>2, Zenon
<1>6. g[p].img = i
  BY <1>3, <1>4, Zenon
<1> QED
  BY <1>3, <1>5, <1>6, Zenon DEF ImageOnly

-----------------------------------------------------------------------------
(* Steps that move images between the table, the victims and the loads.       *)

\* A step that writes nothing to the device and moves no view: a frame comes from the
\* frame before, from a victim or from a valid load, a victim from a dirty frame, an
\* image in a load from the device, and no page gets dirty that the attempt does not have.
Gentle ==
    /\ device' = device /\ length' = length /\ view' = view /\ changed' = changed
    /\ touched' = touched /\ abandoned' \subseteq abandoned
    /\ \A p \in Resident' :
          \/ p \in Resident /\ frames[p].img \subseteq frames'[p].img
          \/ p \in Evicting /\ frames'[p].img = evictions[p].frame.img
          \/ \E t \in Threads : /\ pc[t] = "admit" /\ want[t] = p /\ loads[p].valid
                                /\ frames'[p].img = got[t]
    /\ \A v \in Evicting' :
          \/ v \in Evicting /\ evictions'[v] = evictions[v]
          \/ v \in Dirty /\ evictions'[v].frame.img = frames[v].img
    /\ \A t \in Threads : pc'[t] = "admit" /\ loads'[want'[t]].valid =>
          \/ pc[t] = "admit" /\ want'[t] = want[t] /\ loads[want[t]].valid /\ got'[t] = got[t]
          \/ got'[t] = device[want'[t]]
    /\ Soiled' \subseteq Soiled \/ (Attempts /\ Soiled' \subseteq Soiled \cup touched)
    /\ \A d \in doomed' : ~d.dirty
    /\ \/ phase' = phase /\ todo' = todo
       \/ /\ phase \in {"writing", "restamp"} /\ phase' = "restamp"
          /\ todo' \subseteq todo \cup touched
    /\ pc'[Writer] # "idle" => pc[Writer] # "idle" \/ phase' \in {"writing", "restamp"}
    /\ \A t \in Threads : want'[t] \in Below
    /\ \A t \in Threads : \A h \in held'[t] : h \in held[t] \/ h.page \in Below

\* The same step as the pages free for reuse see it.
Tame ==
    /\ grown' \subseteq grown
    /\ \A q \in grown' : q \in Evicting /\ pc[evictions[q].owner] = "settle" =>
          q \in Evicting' /\ pc'[evictions'[q].owner] = "settle"
    /\ \A h \in held'[Writer] :
          \/ h \in held[Writer] \/ h.page \in Resident
          \/ phase \in {"writing", "restamp"} /\ Known(Writer, h.page)
    /\ phase = "undo" => held'[Writer] \subseteq held[Writer]
    /\ phase' = "restamp" => todo' \subseteq touched \/ (phase = "restamp" /\ todo' \subseteq todo)
    /\ \A t \in Threads : pc'[t] # "idle" => Known(t, want'[t])

\* A dirty page is in view: other participants cannot commit under the attempt.
LEMMA SoiledInView ==
    ASSUME Dirt
    PROVE  \A p \in Soiled : Attempting /\ view = "same" /\ InView(p) /\ p \in touched
<1>1. ASSUME NEW p \in Soiled PROVE Attempting
  BY Zenon DEF Dirt, Attempting
<1>2. "same" # "foreign"
  OBVIOUS
<1> QED
  BY <1>1, <1>2, Zenon DEF Dirt, InView

\* A gentle step keeps the images fresh.
LEMMA GentleFresh ==
    ASSUME Fresh, Dirt, Gentle
    PROVE  Fresh'
<1>1. device' = device /\ view' = view /\ changed' = changed
  BY Zenon DEF Gentle
<1>2. \A p : InView(p)' = InView(p)
  BY <1>1, Zenon DEF InView
<1>3. ASSUME NEW p \in Resident', InView(p)
      PROVE  device[p] \subseteq frames'[p].img
  <2>1. CASE p \in Resident /\ frames[p].img \subseteq frames'[p].img
    BY <1>3, <2>1, Zenon DEF Fresh
  <2>2. CASE p \in Evicting /\ frames'[p].img = evictions[p].frame.img
    BY <2>2, Zenon DEF Fresh
  <2>3. ASSUME NEW t \in Threads, pc[t] = "admit", want[t] = p, loads[p].valid,
               frames'[p].img = got[t]
        PROVE  device[p] \subseteq frames'[p].img
    BY <1>3, <2>3, Zenon DEF Fresh
  <2> QED
    BY <2>1, <2>2, <2>3, Zenon DEF Gentle
<1>4. ASSUME NEW v \in Evicting'
      PROVE  device[v] \subseteq evictions'[v].frame.img
  <2>1. CASE v \in Evicting /\ evictions'[v] = evictions[v]
    BY <2>1, Zenon DEF Fresh
  <2>2. CASE v \in Dirty /\ evictions'[v].frame.img = frames[v].img
    <3>1. v \in Soiled /\ v \in Resident
      BY <2>2, Zenon DEF Soiled, Dirty
    <3>2. InView(v)
      BY <3>1, SoiledInView, Zenon
    <3> QED
      BY <2>2, <3>1, <3>2, Zenon DEF Fresh
  <2> QED
    BY <2>1, <2>2, Zenon DEF Gentle
<1>5. ASSUME NEW t \in Threads, pc'[t] = "admit", loads'[want'[t]].valid, InView(want'[t])
      PROVE  device[want'[t]] \subseteq got'[t]
  <2>1. CASE /\ pc[t] = "admit" /\ want'[t] = want[t] /\ loads[want[t]].valid
             /\ got'[t] = got[t]
    BY <1>5, <2>1, Zenon DEF Fresh
  <2>2. CASE got'[t] = device[want'[t]]
    BY <2>2, Zenon
  <2> QED
    BY <1>5, <2>1, <2>2, Zenon DEF Gentle
<1> QED
  BY <1>1, <1>2, <1>3, <1>4, <1>5, Zenon DEF Fresh

\* A gentle step leaves every page the device lacks to the attempt.
LEMMA GentleDirt ==
    ASSUME Dirt, Gentle
    PROVE  Dirt'
<1>0. /\ phase \in {"idle", "fence"} => Soiled' \subseteq Soiled
      /\ phase = "undo" => Soiled' \subseteq Soiled
      /\ Soiled' \subseteq Soiled \cup touched
  <2>1. Attempts => phase \notin {"idle", "fence"} /\ phase # "undo"
    BY SMT DEF Attempts
  <2> QED
    BY <2>1, Zenon DEF Gentle
<1>1. /\ view' = view /\ touched' = touched
      /\ \A d \in doomed' : ~d.dirty
      /\ pc'[Writer] # "idle" => pc[Writer] # "idle" \/ phase' \in {"writing", "restamp"}
  BY Zenon DEF Gentle
<1>2. CASE phase' = phase /\ todo' = todo
  BY <1>0, <1>1, <1>2, Zenon DEF Dirt, Attempting
<1>3. CASE phase \in {"writing", "restamp"} /\ phase' = "restamp"
  <2>1. Attempting /\ phase' # "undo" /\ phase' # "idle" /\ phase' # "fence"
    BY <1>3, SMT DEF Attempting
  <2>2. view = "same" /\ Soiled \subseteq touched
    BY <2>1, Zenon DEF Dirt
  <2>3. phase' \in {"idle", "fence", "writing", "restamp", "undo"}
        /\ phase' \in {"writing", "restamp"}
    BY <1>3, Zenon
  <2> QED
    BY <1>0, <1>1, <2>1, <2>2, <2>3, Zenon DEF Dirt, Attempting
<1> QED
  BY <1>2, <1>3, Zenon DEF Gentle

\* A gentle step stays within the file.
LEMMA GentleFile ==
    ASSUME FileEnd, Gentle
    PROVE  FileEnd'
<1>1. Below' = Below
  BY Zenon DEF Gentle, Below
<1>2. todo' \subseteq todo \cup touched
  BY Zenon DEF Gentle
<1> QED
  BY <1>1, <1>2, Zenon DEF FileEnd, Gentle

\* A gentle step finds nothing on a page free for reuse, and brings nothing there.
LEMMA GentleFallow ==
    ASSUME Fallow, Dirt, Gentle, Tame
    PROVE  Fallow'
<1>1. /\ device' = device /\ length' = length /\ touched' = touched
      /\ abandoned' \subseteq abandoned
  BY Zenon DEF Gentle
<1>2. Below' = Below /\ \A t, p : Known(t, p)' <=> Known(t, p)
  BY <1>1, Zenon DEF Below, Known
<1>3. grown' \subseteq Below
  BY Zenon DEF Fallow, Tame
<1>4. \A q \in grown' : device[q] = {} \/ (q \in Evicting' /\ pc'[evictions'[q].owner] = "settle")
  BY Zenon DEF Fallow, Tame
<1>5. ASSUME NEW q \in abandoned'
      PROVE  /\ device[q] = {} /\ q \notin Resident' /\ q \notin Evicting'
             /\ phase' \in {"writing", "restamp"} => q \notin touched
             /\ \A h \in held'[Writer] : h.page # q
  <2>1. /\ device[q] = {} /\ q \notin Resident /\ q \notin Evicting
        /\ phase \in {"writing", "restamp"} => q \notin touched
        /\ \A h \in held[Writer] : h.page # q
    BY <1>1, Zenon DEF Fallow
  <2>2. phase' \in {"writing", "restamp"} => phase \in {"writing", "restamp"}
    BY Zenon DEF Gentle
  <2>3. ASSUME NEW t \in Threads, pc[t] = "admit", want[t] = q PROVE FALSE
    <3>1. pc[t] # "idle"
      BY <2>3, SMT
    <3>2. t = Writer /\ q \in touched
      BY <2>1, <2>3, <3>1, Zenon DEF Fallow, Known
    <3> QED
      BY <2>1, <3>1, <3>2, Zenon DEF Dirt
  <2>4. q \notin Resident'
    BY <2>1, <2>3, Zenon DEF Gentle
  <2>5. q \notin Evicting'
    <3>1. q \notin Dirty
      BY <2>1, Zenon DEF Dirty
    <3> QED
      BY <2>1, <3>1, Zenon DEF Gentle
  <2>6. \A h \in held'[Writer] : h.page # q
    BY <2>1, Zenon DEF Tame, Known
  <2> QED
    BY <2>1, <2>2, <2>4, <2>5, <2>6, Zenon
<1>6. phase' = "undo" => held'[Writer] = {}
  <2>1. "restamp" # "undo"
    OBVIOUS
  <2>2. phase' = "undo" => phase = "undo"
    BY <2>1, Zenon DEF Gentle
  <2> QED
    BY <2>2, Zenon DEF Tame, Fallow
<1>7. phase' \in {"restamp", "undo"} => todo' \subseteq touched
  <2>1. phase' = "restamp" => todo' \subseteq touched
    BY Zenon DEF Tame, Fallow
  <2>2. phase' = "undo" => phase = "undo" /\ todo' = todo
    <3>1. "restamp" # "undo"
      OBVIOUS
    <3> QED
      BY <3>1, Zenon DEF Gentle
  <2> QED
    BY <2>1, <2>2, Zenon DEF Fallow
<1>8. \A t \in Threads : pc'[t] # "idle" => Known(t, want'[t])
  BY Zenon DEF Tame
<1> QED
  BY <1>1, <1>2, <1>3, <1>4, <1>5, <1>6, <1>7, <1>8, Zenon DEF Fallow

\* One entry of a function on the threads replaced.
LEMMA ThreadSet ==
    ASSUME NEW f, f = [u \in Threads |-> f[u]], NEW t \in Threads, NEW x, NEW g,
           g = [f EXCEPT ![t] = x]
    PROVE  /\ g = [u \in Threads |-> g[u]]
           /\ g[t] = x /\ \A u \in Threads : u # t => g[u] = f[u]
<1>1. g = [u \in Threads |-> IF u = t THEN x ELSE f[u]]
  BY Zenon
<1>2. \A u \in Threads : g[u] = IF u = t THEN x ELSE f[u]
  BY <1>1, Zenon
<1>3. g = [u \in Threads |-> g[u]]
  BY <1>1, Zenon
<1> QED
  BY <1>2, <1>3, Zenon

\* What a pin starts from: a page of the file, and an attempt when it is the writer.
LEMMA PinStarts ==
    ASSUME ImageInvariant, NEW t \in Threads, NEW p \in Pages, Pinning(t, p)
    PROVE  /\ p \in Below /\ (t = Writer => phase \in {"writing", "restamp"})
           /\ pc[t] \in {"idle", "retry"}
<1>1. FileEnd /\ Dirt /\ PoolInvariant
  BY Zenon DEF ImageInvariant
<1>2. CASE MayPin(t, p)
  <2>1. t = Writer => phase \in {"writing", "restamp"}
    BY <1>2, Zenon DEF MayPin
  <2>2. CASE CanRead(p)
    <3>1. p \in Int /\ 0 <= p /\ p < length /\ length \in Nat
      BY <1>1, <2>2, PoolAssumption DEF CanRead, Pages, FileEnd
    <3> QED
      BY <1>2, <2>1, <3>1 DEF Below, MayPin
  <2>3. CASE p \in todo
    BY <1>1, <1>2, <2>1, <2>3, Zenon DEF FileEnd, MayPin
  <2> QED
    BY <1>2, <2>2, <2>3, Zenon DEF MayPin
<1>3. CASE pc[t] = "retry" /\ want[t] = p
  <2>1. "retry" # "idle"
    OBVIOUS
  <2> QED
    BY <1>1, <1>3, <2>1, Zenon DEF FileEnd, Dirt
<1> QED
  BY <1>2, <1>3, Zenon DEF Pinning

\* A step that touches neither objects nor dirty marks nor victims has the same pages
\* in the table and the same dirty pages.
LEMMA SameTable ==
    ASSUME evictions' = evictions,
           \A q \in Pages : frames'[q].obj = frames[q].obj /\ frames'[q].dirty = frames[q].dirty
    PROVE  Resident' = Resident /\ Dirty' = Dirty /\ Evicting' = Evicting /\ Soiled' = Soiled
<1>1. Resident' = Resident /\ Evicting' = Evicting
  BY Zenon DEF Resident, Evicting
<1>2. \A q \in Resident : q \in Pages
  BY Zenon DEF Resident
<1>3. Dirty' = Dirty
  BY <1>1, <1>2, Zenon DEF Dirty
<1> QED
  BY <1>1, <1>3, Zenon DEF Soiled

\* A pin that hits changes pins alone.
LEMMA PinHitGentle ==
    ASSUME ImageInvariant, NEW t \in Threads, NEW p \in Pages, PinHit(t, p)
    PROVE  Gentle
<1>1. /\ device' = device /\ length' = length /\ view' = view /\ changed' = changed
      /\ touched' = touched /\ abandoned' = abandoned /\ evictions' = evictions
      /\ loads' = loads /\ got' = got /\ doomed' = doomed /\ phase' = phase /\ todo' = todo
  BY Zenon DEF PinHit, claims, disk, freshness, work
<1>2. Pinning(t, p) /\ FileEnd /\ Dirt /\ PoolInvariant
  BY Zenon DEF PinHit, ImageInvariant
<1>3. p \in Below /\ pc[t] \in {"idle", "retry"}
  BY <1>2, PinStarts, Zenon
<1>4. pc \in [Threads -> Places] /\ want \in [Threads -> Pages]
  BY <1>2, Zenon DEF PoolInvariant, Shapes
<1>0. IsTable(frames)
  BY <1>2, Zenon DEF PoolInvariant, Shapes
<1>5. PICK n, y : Repinned(frames[p], n, y) /\ Placed(frames, p, y, frames')
  BY Zenon DEF PinHit, Repinned, Placed
<1>6. \A q \in Pages : /\ frames'[q].obj = frames[q].obj /\ frames'[q].img = frames[q].img
                       /\ frames'[q].dirty = frames[q].dirty
  <2>1. PinsOnly(frames, frames', p, n)
    BY <1>0, <1>5, TablePins, Zenon
  <2> QED
    BY <2>1, Zenon DEF PinsOnly
<1>7. Resident' = Resident /\ Evicting' = Evicting /\ Soiled' = Soiled
  BY <1>1, <1>6, SameTable, Zenon
<1>8. \A q \in Resident : q \in Pages
  BY Zenon DEF Resident
<1>9. \A u \in Threads : /\ u # t => pc'[u] = pc[u] /\ want'[u] = want[u]
                         /\ pc'[t] = "idle" /\ want'[t] = Header
  BY <1>4, Zenon DEF PinHit
<1>10. \A u \in Threads : \A h \in held'[u] : h \in held[u] \/ h.page = p
  <2>0. PICK h : h = [page |-> p, obj |-> frames[p].obj]
    BY Zenon
  <2>1. h.page = p
    BY <2>0, SMT
  <2>2. held' = [held EXCEPT ![t] = held[t] \cup {h}]
    BY <2>0, Zenon DEF PinHit
  <2>3. /\ held'[t] = held[t] \cup {h}
        /\ \A u \in Threads : u # t => held'[u] = held[u]
    BY <2>2, ThreadSet, Zenon DEF ImageInvariant, Shaped
  <2> QED
    BY <2>1, <2>3, Zenon
<1>11. pc'[Writer] # "idle" => pc[Writer] # "idle"
  BY <1>9, PoolAssumption, SMT
<1>12. \A u \in Threads : pc'[u] = "admit" => u # t
  BY <1>9, SMT
<1>13. \A u \in Threads : want'[u] \in Below
  BY <1>2, <1>9, SMT DEF FileEnd
<1> QED
  BY <1>1, <1>2, <1>3, <1>6, <1>7, <1>8, <1>9, <1>10, <1>11, <1>12, <1>13, Zenon DEF Gentle, Dirt

\* Thread t gets to x, and whoever waited may be told to retry; no other thread moves.
Moves(t, x) == \A u \in Threads : \/ u = t /\ pc'[u] = x
                                  \/ u # t /\ pc'[u] = pc[u]
                                  \/ u # t /\ pc[u] = "wait" /\ pc'[u] = "retry"

\* Nobody but t moves.
LEMMA OneMoves ==
    ASSUME PoolInvariant, NEW t \in Threads, NEW x, pc' = [pc EXCEPT ![t] = x]
    PROVE  Moves(t, x)
<1>1. pc \in [Threads -> Places]
  BY Zenon DEF PoolInvariant, Shapes
<1> QED
  BY <1>1, Zenon DEF Moves

\* A signal moves waiters only, besides the thread that reports.
LEMMA SignalMoves ==
    ASSUME PoolInvariant, NEW t \in Threads, pc[t] # "wait", NEW x, NEW l, NEW e,
           Signal([pc EXCEPT ![t] = x], l, e)
    PROVE  Moves(t, x)
<1>1. pc \in [Threads -> Places] /\ \A u \in Threads : WaitOK(u)
  BY Zenon DEF PoolInvariant, Shapes
<1>2. PICK pcs : pcs = [pc EXCEPT ![t] = x]
  BY Zenon
<1>3. pcs[t] = x /\ \A u \in Threads : u # t => pcs[u] = pc[u]
  BY <1>1, <1>2, Zenon
<1>4. Signal(pcs, l, e)
  BY <1>2, Zenon
<1>5. \A u \in Threads : IF Woken(waits[u], l, e)
                         THEN pc'[u] = "retry" /\ waits'[u] = NoWait
                         ELSE pc'[u] = pcs[u] /\ waits'[u] = waits[u]
  BY <1>4, Signalled, SMT
<1>6. ASSUME NEW u \in Threads, Woken(waits[u], l, e)
      PROVE  pc[u] = "wait"
  <2>1. waits[u].on \in {"none", "slot", "load", "evict"} /\ (pc[u] = "wait" <=> waits[u].on # "none")
    BY <1>1, Zenon DEF WaitOK
  <2>2. \/ waits[u].on = "slot" \/ waits[u].on = "load" \/ waits[u].on = "evict"
    BY <1>6, <2>1, WokenWhen, SMT
  <2> QED
    BY <2>1, <2>2, SMT
<1> QED
  BY <1>3, <1>5, <1>6, Zenon DEF Moves

\* The images that other threads have read stay with valid loads.
LEMMA AdmitsKept ==
    ASSUME PoolInvariant, NEW t \in Threads, NEW x, x # "admit", Moves(t, x),
           \A u \in Threads : u # t => want'[u] = want[u] /\ got'[u] = got[u],
           \A q \in Loading : loads'[q].valid => loads[q].valid
    PROVE  \A u \in Threads : pc'[u] = "admit" /\ loads'[want'[u]].valid =>
               pc[u] = "admit" /\ want'[u] = want[u] /\ loads[want[u]].valid /\ got'[u] = got[u]
<1> SUFFICES ASSUME NEW u \in Threads, pc'[u] = "admit", loads'[want'[u]].valid
             PROVE  /\ pc[u] = "admit" /\ want'[u] = want[u] /\ loads[want[u]].valid
                    /\ got'[u] = got[u]
  BY Zenon
<1>1. "retry" # "admit"
  OBVIOUS
<1>2. u # t /\ pc[u] = "admit"
  BY <1>1, Zenon DEF Moves
<1>3. pc[u] \in InFlight
  BY <1>2, Zenon DEF InFlight
<1>4. want[u] \in Loading
  BY <1>3, ThreadInFlight, Zenon
<1> QED
  BY <1>2, <1>4, Zenon

\* The writer leaves idle only to pin for its attempt.
LEMMA WriterMoves ==
    ASSUME NEW t \in Threads, NEW x, Moves(t, x),
           x = "idle" \/ (t = Writer => phase' \in {"writing", "restamp"})
    PROVE  pc'[Writer] # "idle" => pc[Writer] # "idle" \/ phase' \in {"writing", "restamp"}
<1>1. Writer \in Threads /\ "wait" # "idle"
  BY PoolAssumption
<1> QED
  BY <1>1, Zenon DEF Moves

\* A pin that has to wait, or is refused, moves its thread alone.
LEMMA PinGroundedGentle ==
    ASSUME ImageInvariant, NEW t \in Threads, NEW p \in Pages,
           PinJoin(t, p) \/ PinNoVictim(t, p)
    PROVE  Gentle
<1>1. /\ device' = device /\ length' = length /\ view' = view /\ changed' = changed
      /\ abandoned' = abandoned /\ evictions' = evictions /\ frames' = frames
      /\ loads' = loads /\ got' = got /\ doomed' = doomed /\ held' = held
  <2>1. CASE PinJoin(t, p)
    BY <2>1, Zenon DEF PinJoin, pool, claims, disk, freshness
  <2>2. CASE PinNoVictim(t, p)
    BY <2>2, Zenon DEF PinNoVictim, pool, claims, disk, freshness
  <2> QED
    BY <2>1, <2>2, Zenon
<1>2. FileEnd /\ Dirt /\ PoolInvariant
  BY Zenon DEF ImageInvariant
<1>3. Pinning(t, p)
  BY Zenon DEF PinJoin, PinNoVictim, ColdMiss
<1>4. p \in Below /\ pc[t] \in {"idle", "retry"} /\ (t = Writer => phase \in {"writing", "restamp"})
  BY <1>3, PinStarts, Zenon
<1>5. want \in [Threads -> Pages]
  BY <1>2, Zenon DEF PoolInvariant, Shapes
<1>6. \E x, q : /\ pc' = [pc EXCEPT ![t] = x] /\ want' = [want EXCEPT ![t] = q]
                /\ x \in {"idle", "wait"} /\ q \in {p, Header}
  <2>1. CASE PinJoin(t, p)
    BY <2>1, Zenon DEF PinJoin, Wait
  <2>2. CASE PinNoVictim(t, p)
    BY <2>2, Zenon DEF PinNoVictim, Wait
  <2> QED
    BY <2>1, <2>2, Zenon
<1>7. PICK x, q : /\ pc' = [pc EXCEPT ![t] = x] /\ want' = [want EXCEPT ![t] = q]
                  /\ x \in {"idle", "wait"} /\ q \in {p, Header}
  BY <1>6, Zenon
<1>8. Moves(t, x) /\ x # "admit"
  <2>1. x # "admit"
    BY <1>7, SMT
  <2> QED
    BY <1>2, <1>7, <2>1, OneMoves, Zenon
<1>9. want'[t] = q /\ \A u \in Threads : u # t => want'[u] = want[u]
  BY <1>5, <1>7, Zenon
<1>10. /\ touched' = touched
       /\ \/ phase' = phase /\ todo' = todo
          \/ /\ phase \in {"writing", "restamp"} /\ phase' = "restamp"
             /\ todo' \subseteq todo \cup touched
  <2>1. CASE PinJoin(t, p)
    BY <2>1, Zenon DEF PinJoin, work
  <2>2. CASE PinNoVictim(t, p)
    BY <1>4, <2>2, Zenon DEF PinNoVictim, PinRaises, work
  <2> QED
    BY <2>1, <2>2, Zenon
<1>11. t = Writer => phase' \in {"writing", "restamp"}
  BY <1>4, <1>10, Zenon
<1>12. pc'[Writer] # "idle" => pc[Writer] # "idle" \/ phase' \in {"writing", "restamp"}
  BY <1>8, <1>11, WriterMoves, Zenon
<1>13. \A u \in Threads : pc'[u] = "admit" /\ loads'[want'[u]].valid =>
          pc[u] = "admit" /\ want'[u] = want[u] /\ loads[want[u]].valid /\ got'[u] = got[u]
  BY <1>1, <1>2, <1>8, <1>9, AdmitsKept, Zenon
<1>14. Resident' = Resident /\ Evicting' = Evicting /\ Soiled' = Soiled
  BY <1>1, SameTable, Zenon
<1>15. \A u \in Threads : want'[u] \in Below
  BY <1>2, <1>4, <1>7, <1>9, Zenon DEF FileEnd
<1> QED
  BY <1>1, <1>2, <1>10, <1>12, <1>13, <1>14, <1>15, Zenon DEF Gentle, Dirt

\* A frame taken out of the table.
LEMMA OneDropped ==
    ASSUME IsTable(frames), NEW v \in Pages, frames' = [frames EXCEPT ![v] = NoFrame]
    PROVE  /\ v \notin Resident'
           /\ \A q \in Pages : q # v => frames'[q] = frames[q]
           /\ Resident' = Resident \ {v} /\ Dirty' = Dirty \ {v}
<1>1. Placed(frames, v, NoFrame, frames') /\ IsFrame(NoFrame) /\ NoFrame.obj = 0
  BY NoFrameIsFrame, Zenon DEF Placed
<1>2. frames'[v] = NoFrame /\ \A q \in Pages : q # v => frames'[q] = frames[q]
  <2>1. Swapped(frames, frames', v, NoFrame)
    BY <1>1, OnePlaced, Zenon
  <2> QED
    BY <2>1, Zenon DEF Swapped
<1>3. Resident' = Resident \ {v}
  BY <1>1, <1>2, Zenon DEF Resident
<1>4. Dirty' = Dirty \ {v}
  BY <1>2, <1>3, Zenon DEF Dirty, Resident
<1> QED
  BY <1>2, <1>3, <1>4, Zenon

\* A miss reserves a slot, and takes at most one frame out of the table.
LEMMA Reserved ==
    ASSUME ImageInvariant, NEW t \in Threads, NEW p \in Pages, ColdMiss(t, p), NEW x,
           x # "admit", pc' = [pc EXCEPT ![t] = x], want' = [want EXCEPT ![t] = p],
           loads' = [loads EXCEPT ![p] = NewLoad(t)], got' = got, phase' = phase
    PROVE  /\ pc'[Writer] # "idle" => pc[Writer] # "idle" \/ phase' \in {"writing", "restamp"}
           /\ \A u \in Threads : pc'[u] = "admit" /\ loads'[want'[u]].valid =>
                 /\ pc[u] = "admit" /\ want'[u] = want[u] /\ loads[want[u]].valid
                 /\ got'[u] = got[u]
           /\ \A u \in Threads : want'[u] \in Below
<1>1. Pinning(t, p) /\ p \notin Loading /\ FileEnd /\ PoolInvariant
  BY Zenon DEF ColdMiss, ImageInvariant
<1>2. p \in Below /\ (t = Writer => phase \in {"writing", "restamp"})
  BY <1>1, PinStarts, Zenon
<1>3. want \in [Threads -> Pages] /\ loads \in [Pages -> Ticket]
  BY <1>1, Zenon DEF PoolInvariant, Shapes
<1>4. want'[t] = p /\ \A u \in Threads : u # t => want'[u] = want[u]
  BY <1>3, Zenon
<1>5. \A q \in Loading : loads'[q].valid => loads[q].valid
  BY <1>1, <1>3, Zenon DEF Loading
<1>6. Moves(t, x)
  BY <1>1, OneMoves, Zenon
<1>7. \A u \in Threads : want'[u] \in Below
  BY <1>1, <1>2, <1>4, Zenon DEF FileEnd
<1>8. pc'[Writer] # "idle" => pc[Writer] # "idle" \/ phase' \in {"writing", "restamp"}
  BY <1>2, <1>6, WriterMoves, Zenon
<1>9. \A u \in Threads : pc'[u] = "admit" /\ loads'[want'[u]].valid =>
          pc[u] = "admit" /\ want'[u] = want[u] /\ loads[want[u]].valid /\ got'[u] = got[u]
  BY <1>1, <1>4, <1>5, <1>6, AdmitsKept, Zenon
<1> QED
  BY <1>7, <1>8, <1>9, Zenon

\* A miss that finds a slot takes a clean frame out of the table at most.
LEMMA PinReserveGentle ==
    ASSUME ImageInvariant, NEW t \in Threads, NEW p \in Pages, PinReserve(t, p)
    PROVE  Gentle
<1>1. /\ device' = device /\ length' = length /\ view' = view /\ changed' = changed
      /\ touched' = touched /\ abandoned' = abandoned /\ evictions' = evictions
      /\ got' = got /\ doomed' = doomed /\ held' = held /\ phase' = phase /\ todo' = todo
  BY Zenon DEF PinReserve, claims, disk, freshness, work
<1>2. Dirt /\ IsTable(frames)
  BY Zenon DEF ImageInvariant, PoolInvariant, Shapes
<1>3. "read" # "admit"
  OBVIOUS
<1>4. /\ pc'[Writer] # "idle" => pc[Writer] # "idle" \/ phase' \in {"writing", "restamp"}
      /\ \A u \in Threads : pc'[u] = "admit" /\ loads'[want'[u]].valid =>
            /\ pc[u] = "admit" /\ want'[u] = want[u] /\ loads[want[u]].valid
            /\ got'[u] = got[u]
      /\ \A u \in Threads : want'[u] \in Below
  BY <1>1, <1>3, Reserved, Zenon DEF PinReserve
<1>5. \A q \in Resident' : q \in Resident /\ frames'[q] = frames[q]
  <2>1. CASE frames' = frames
    BY <2>1, Zenon DEF Resident
  <2>2. ASSUME NEW v \in Unpinned, frames' = [frames EXCEPT ![v] = NoFrame]
        PROVE  \A q \in Resident' : q \in Resident /\ frames'[q] = frames[q]
    <3>1. v \in Pages
      BY <2>2, Zenon DEF Unpinned, Resident
    <3> QED
      BY <1>2, <2>2, <3>1, OneDropped, Zenon DEF Resident
  <2> QED
    BY <2>1, <2>2, Zenon DEF PinReserve
<1>6. Evicting' = Evicting
  BY <1>1, Zenon DEF Evicting
<1>7. Soiled' \subseteq Soiled
  BY <1>5, <1>6, Zenon DEF Soiled, Dirty
<1> QED
  BY <1>1, <1>2, <1>4, <1>5, <1>6, <1>7, Zenon DEF Gentle, Dirt

\* A miss that takes a dirty frame out of the table keeps it with the eviction.
LEMMA PinEvictGentle ==
    ASSUME ImageInvariant, NEW t \in Threads, NEW p \in Pages, PinEvict(t, p)
    PROVE  Gentle
<1>1. /\ device' = device /\ length' = length /\ view' = view /\ changed' = changed
      /\ touched' = touched /\ abandoned' = abandoned
      /\ got' = got /\ doomed' = doomed /\ held' = held /\ phase' = phase /\ todo' = todo
  BY Zenon DEF PinEvict, disk, freshness, work
<1>2. Dirt /\ IsTable(frames) /\ evictions = [u \in Pages |-> evictions[u]]
  BY Zenon DEF ImageInvariant, PoolInvariant, Shapes
<1>3. "evict" # "admit"
  OBVIOUS
<1>4. /\ pc'[Writer] # "idle" => pc[Writer] # "idle" \/ phase' \in {"writing", "restamp"}
      /\ \A u \in Threads : pc'[u] = "admit" /\ loads'[want'[u]].valid =>
            /\ pc[u] = "admit" /\ want'[u] = want[u] /\ loads[want[u]].valid
            /\ got'[u] = got[u]
      /\ \A u \in Threads : want'[u] \in Below
  BY <1>1, <1>3, Reserved, Zenon DEF PinEvict
<1>5. PICK v \in Unpinned :
        /\ evictions' = [evictions EXCEPT ![v] = [owner |-> t, frame |-> frames[v]]]
        /\ frames' = [frames EXCEPT ![v] = NoFrame] /\ frames[v].dirty
  BY Zenon DEF PinEvict
<1>6. v \in Pages /\ v \in Resident /\ v \in Dirty
  BY <1>5, Zenon DEF Unpinned, Resident, Dirty
<1>7. /\ \A q \in Pages : q # v => frames'[q] = frames[q]
      /\ Resident' = Resident \ {v} /\ Dirty' = Dirty \ {v}
  BY <1>2, <1>5, <1>6, OneDropped, Zenon
<1>8. PICK y : y = [owner |-> t, frame |-> frames[v]]
  BY Zenon
<1>9. \A u \in Pages : evictions'[u] = IF u = v THEN y ELSE evictions[u]
  BY <1>2, <1>5, <1>8, EntrySet, Zenon
<1>10. /\ \A u \in Evicting' : u = v \/ (u \in Evicting /\ evictions'[u] = evictions[u])
       /\ evictions'[v].frame.img = frames[v].img
  <2>1. y.frame = frames[v]
    BY <1>8, Zenon
  <2> QED
    BY <1>6, <1>9, <2>1, Zenon DEF Evicting
<1>11. Soiled' \subseteq Soiled
  BY <1>6, <1>7, <1>10, Zenon DEF Soiled
<1>12. \A q \in Resident' : q \in Resident /\ frames'[q] = frames[q]
  BY <1>7, Zenon DEF Resident
<1> QED
  BY <1>1, <1>2, <1>4, <1>6, <1>10, <1>11, <1>12, Zenon DEF Gentle, Dirt

\* A load given up or taken home is no valid load.
LEMMA LoadGone ==
    ASSUME NEW l \in [Pages -> Ticket], NEW p, NEW g, g = [l EXCEPT ![p] = NoLoad]
    PROVE  \A q \in Pages : g[q].valid => l[q].valid
<1>1. NoLoad.valid = FALSE
  BY Zenon DEF NoLoad
<1>2. \A q \in Pages : g[q] = IF q = p THEN NoLoad ELSE l[q]
  BY Zenon
<1> QED
  BY <1>1, <1>2, Zenon

\* The end of a flight moves its thread, gives up its load, and lets no other image go.
LEMMA LandedGentle ==
    ASSUME ImageInvariant, NEW t \in Threads, pc[t] \in InFlight, NEW x \in {"idle", "retry", "read"},
           NEW l, NEW e, Signal([pc EXCEPT ![t] = x], l, e),
           NEW q \in Below, want' = [want EXCEPT ![t] = q],
           \A u \in Threads : u # t => got'[u] = got[u],
           \A h \in Pages : loads'[h].valid => loads[h].valid
    PROVE  /\ pc'[Writer] # "idle" => pc[Writer] # "idle"
           /\ \A u \in Threads : pc'[u] = "admit" /\ loads'[want'[u]].valid =>
                 /\ pc[u] = "admit" /\ want'[u] = want[u] /\ loads[want[u]].valid
                 /\ got'[u] = got[u]
           /\ \A u \in Threads : want'[u] \in Below
<1>1. PoolInvariant /\ FileEnd /\ Writer \in Threads
  BY PoolAssumption, Zenon DEF ImageInvariant
<1>2. want \in [Threads -> Pages]
  BY <1>1, Zenon DEF PoolInvariant, Shapes
<1>3. pc[t] # "wait" /\ pc[t] # "idle" /\ x # "admit"
  BY SMT DEF InFlight
<1>4. Moves(t, x)
  BY <1>1, <1>3, SignalMoves, Zenon
<1>5. want'[t] = q /\ \A u \in Threads : u # t => want'[u] = want[u]
  BY <1>2, Zenon
<1>6. \A h \in Loading : loads'[h].valid => loads[h].valid
  BY Zenon DEF Loading
<1>7. \A u \in Threads : pc'[u] = "admit" /\ loads'[want'[u]].valid =>
          pc[u] = "admit" /\ want'[u] = want[u] /\ loads[want[u]].valid /\ got'[u] = got[u]
  BY <1>1, <1>3, <1>4, <1>5, <1>6, AdmitsKept, Zenon
<1>8. pc'[Writer] # "idle" => pc[Writer] # "idle"
  <2>1. "wait" # "idle"
    OBVIOUS
  <2> QED
    BY <1>1, <1>3, <1>4, <2>1, Zenon DEF Moves
<1>9. \A u \in Threads : want'[u] \in Below
  BY <1>1, <1>5, Zenon DEF FileEnd
<1> QED
  BY <1>7, <1>8, <1>9, Zenon

\* A refused pin of a thread in flight.
LEMMA RaisedInFlight ==
    ASSUME ImageInvariant, NEW t \in Threads, pc[t] \in InFlight, NEW p, PinRaises(t, p)
    PROVE  /\ touched' = touched
           /\ \/ phase' = phase /\ todo' = todo
              \/ /\ phase \in {"writing", "restamp"} /\ phase' = "restamp"
                 /\ todo' \subseteq todo \cup touched
<1>1. pc[t] # "idle"
  BY SMT DEF InFlight
<1>2. t = Writer => phase \in {"writing", "restamp"}
  BY <1>1, Zenon DEF ImageInvariant, Dirt
<1> QED
  BY <1>2, Zenon DEF PinRaises, work

\* A failed read gives up its load.
LEMMA ReadFailsGentle ==
    ASSUME ImageInvariant, NEW t \in Threads, ReadFails(t)
    PROVE  Gentle
<1>1. /\ device' = device /\ length' = length /\ view' = view /\ changed' = changed
      /\ abandoned' = abandoned /\ evictions' = evictions /\ frames' = frames
      /\ got' = got /\ doomed' = doomed /\ held' = held
      /\ loads' = [loads EXCEPT ![want[t]] = NoLoad] /\ want' = [want EXCEPT ![t] = Header]
      /\ pc[t] = "read"
  BY Zenon DEF ReadFails, claims, disk, freshness
<1>2. Dirt /\ Header \in Below /\ loads \in [Pages -> Ticket]
  BY Zenon DEF ImageInvariant, PoolInvariant, Shapes, FileEnd
<1>3. pc[t] \in InFlight /\ "idle" \in {"idle", "retry", "read"}
  BY <1>1, Zenon DEF InFlight
<1>4. /\ touched' = touched
      /\ \/ phase' = phase /\ todo' = todo
         \/ /\ phase \in {"writing", "restamp"} /\ phase' = "restamp"
            /\ todo' \subseteq todo \cup touched
  BY <1>3, RaisedInFlight, Zenon DEF ReadFails
<1>5. \A h \in Pages : loads'[h].valid => loads[h].valid
  BY <1>1, <1>2, LoadGone, Zenon
<1>6. Signal([pc EXCEPT ![t] = "idle"], loads', evictions)
  BY Zenon DEF ReadFails
<1>7. /\ pc'[Writer] # "idle" => pc[Writer] # "idle"
      /\ \A u \in Threads : pc'[u] = "admit" /\ loads'[want'[u]].valid =>
            /\ pc[u] = "admit" /\ want'[u] = want[u] /\ loads[want[u]].valid
            /\ got'[u] = got[u]
      /\ \A u \in Threads : want'[u] \in Below
  BY <1>1, <1>2, <1>3, <1>5, <1>6, LandedGentle, Zenon
<1>8. Resident' = Resident /\ Evicting' = Evicting /\ Soiled' = Soiled
  BY <1>1, SameTable, Zenon
<1> QED
  BY <1>1, <1>2, <1>4, <1>7, <1>8, Zenon DEF Gentle, Dirt

\* A victim the device refuses is the frame it was.
LEMMA EvictRestoreGentle ==
    ASSUME ImageInvariant, NEW t \in Threads, NEW v \in Pages, EvictRestore(t, v)
    PROVE  Gentle
<1>1. /\ device' = device /\ length' = length /\ view' = view /\ changed' = changed
      /\ abandoned' = abandoned /\ got' = got /\ doomed' = doomed /\ held' = held
      /\ loads' = [loads EXCEPT ![want[t]] = NoLoad] /\ want' = [want EXCEPT ![t] = Header]
      /\ evictions' = [evictions EXCEPT ![v] = NoEviction]
      /\ frames' = [frames EXCEPT ![v] = evictions[v].frame]
      /\ pc[t] = "evict" /\ evictions[v].owner = t
  BY Zenon DEF EvictRestore, claims, disk, freshness
<1>2. /\ Dirt /\ Header \in Below /\ loads \in [Pages -> Ticket] /\ IsTable(frames)
      /\ evictions = [u \in Pages |-> evictions[u]] /\ IsFrame(evictions[v].frame)
  BY Zenon DEF ImageInvariant, PoolInvariant, Shapes, FileEnd
<1>3. pc[t] \in InFlight /\ "idle" \in {"idle", "retry", "read"}
  BY <1>1, Zenon DEF InFlight
<1>4. /\ touched' = touched
      /\ \/ phase' = phase /\ todo' = todo
         \/ /\ phase \in {"writing", "restamp"} /\ phase' = "restamp"
            /\ todo' \subseteq todo \cup touched
  BY <1>3, RaisedInFlight, Zenon DEF EvictRestore
<1>5. \A h \in Pages : loads'[h].valid => loads[h].valid
  BY <1>1, <1>2, LoadGone, Zenon
<1>6. Signal([pc EXCEPT ![t] = "idle"], loads', evictions')
  BY Zenon DEF EvictRestore
<1>7. /\ pc'[Writer] # "idle" => pc[Writer] # "idle"
      /\ \A u \in Threads : pc'[u] = "admit" /\ loads'[want'[u]].valid =>
            /\ pc[u] = "admit" /\ want'[u] = want[u] /\ loads[want[u]].valid
            /\ got'[u] = got[u]
      /\ \A u \in Threads : want'[u] \in Below
  BY <1>1, <1>2, <1>3, <1>5, <1>6, LandedGentle, Zenon
<1>8. v \in Evicting
  BY <1>1, PoolAssumption, Zenon DEF Evicting
<1>9. PICK y : y = evictions[v].frame /\ IsFrame(y)
  BY <1>2, Zenon
<1>10. Swapped(frames, frames', v, y)
  BY <1>1, <1>2, <1>9, OnePlaced, Zenon DEF Placed
<1>11. frames'[v] = y /\ \A q \in Pages : q # v => frames'[q] = frames[q]
  BY <1>10, Zenon DEF Swapped
<1>12. \A u \in Pages : evictions'[u] = IF u = v THEN NoEviction ELSE evictions[u]
  BY <1>1, <1>2, EntrySet, Zenon
<1>13. \A u \in Evicting' : u \in Evicting /\ evictions'[u] = evictions[u]
  <2>1. NoEviction.owner = NoThread
    BY Zenon DEF NoEviction
  <2> QED
    BY <1>12, <2>1, Zenon DEF Evicting
<1>14. \A q \in Resident' : \/ q \in Resident /\ frames'[q] = frames[q]
                            \/ q \in Evicting /\ frames'[q].img = evictions[q].frame.img
  BY <1>8, <1>9, <1>11, Zenon DEF Resident
<1>15. Soiled' \subseteq Soiled
  <2>1. \A q \in Dirty' : q = v \/ q \in Dirty
    BY <1>11, Zenon DEF Dirty, Resident
  <2> QED
    BY <1>8, <1>13, <2>1, Zenon DEF Soiled
<1> QED
  BY <1>1, <1>2, <1>4, <1>7, <1>13, <1>14, <1>15, Zenon DEF Gentle, Dirt

\* The pages the threads are after stay known, if the one that moves is after such a page.
LEMMA KnownKept ==
    ASSUME Fallow, NEW t \in Threads, NEW x, Moves(t, x),
           \A u \in Threads : u # t => want'[u] = want[u],
           x = "idle" \/ Known(t, want'[t])
    PROVE  \A u \in Threads : pc'[u] # "idle" => Known(u, want'[u])
<1>1. "wait" # "idle"
  OBVIOUS
<1> QED
  BY <1>1, Zenon DEF Moves, Fallow

\* A victim that is written stays one until its thread has the guard.
LEMMA SettleKept ==
    ASSUME NEW t \in Threads, NEW x, Moves(t, x), Shapes,
           \A q \in Evicting : \/ evictions'[q].owner = evictions[q].owner
                               \/ evictions[q].owner = t
    PROVE  \A q \in Evicting : pc[evictions[q].owner] = "settle" /\ evictions[q].owner # t =>
               q \in Evicting' /\ pc'[evictions'[q].owner] = "settle"
<1>1. "settle" # "wait"
  OBVIOUS
<1>2. \A q \in Evicting : evictions[q].owner \in Threads
  BY TicketOwners, Zenon
<1> QED
  BY <1>1, <1>2, Zenon DEF Moves, Evicting

\* A pin that misses is after a page with bytes, or one of the attempt.
LEMMA PinKnown ==
    ASSUME ImageInvariant, NEW t \in Threads, NEW p \in Pages, Pinning(t, p), p \notin Resident
    PROVE  Known(t, p)
<1>1. Fallow
  BY Zenon DEF ImageInvariant
<1>2. CASE MayPin(t, p)
  <2>1. CASE t = Writer /\ phase = "restamp"
    BY <1>1, <1>2, <2>1, Zenon DEF MayPin, Fallow, Known
  <2>2. CASE ~(t = Writer /\ phase = "restamp")
    BY <1>2, <2>2, Zenon DEF MayPin, CanRead, Known
  <2> QED
    BY <2>1, <2>2, Zenon
<1>3. CASE pc[t] = "retry" /\ want[t] = p
  <2>1. "retry" # "idle"
    OBVIOUS
  <2> QED
    BY <1>1, <1>3, <2>1, Zenon DEF Fallow
<1> QED
  BY <1>2, <1>3, Zenon DEF Pinning

\* A pin that hits brings no page.
LEMMA PinHitTame ==
    ASSUME ImageInvariant, NEW t \in Threads, NEW p \in Pages, PinHit(t, p)
    PROVE  Tame
<1>1. /\ touched' = touched /\ grown' = grown /\ evictions' = evictions
      /\ phase' = phase /\ todo' = todo /\ Pinning(t, p) /\ p \in Resident
      /\ want' = [want EXCEPT ![t] = Header]
      /\ pc' = [pc EXCEPT ![t] = "idle"]
  BY Zenon DEF PinHit, claims, work
<1>2. PoolInvariant /\ Fallow /\ Shapes
  BY Zenon DEF ImageInvariant, PoolInvariant
<1>3. IsTable(frames) /\ want \in [Threads -> Pages]
  BY <1>2, Zenon DEF Shapes
<1>4. Moves(t, "idle")
  BY <1>1, <1>2, OneMoves, Zenon
<1>5. \A u \in Threads : u # t => want'[u] = want[u]
  BY <1>1, <1>3, Zenon
<1>6. \A u \in Threads : pc'[u] # "idle" => Known(u, want'[u])
  BY <1>2, <1>4, <1>5, KnownKept, Zenon
<1>7. pc[t] \in {"idle", "retry"} /\ (t = Writer => phase \in {"writing", "restamp"})
  BY <1>1, PinStarts, Zenon
<1>8. pc[t] # "settle" /\ phase \in {"writing", "restamp"} => phase # "undo"
  BY <1>7, SMT
<1>9. pc[t] # "settle"
  BY <1>7, SMT
<1>10. \A q \in Evicting : pc[evictions[q].owner] = "settle" =>
           q \in Evicting' /\ pc'[evictions'[q].owner] = "settle"
  BY <1>1, <1>2, <1>4, <1>9, SettleKept, Zenon
<1>14. PICK h : h = [page |-> p, obj |-> frames[p].obj]
  BY Zenon
<1>15. h.page = p
  BY <1>14, SMT
<1>16. held' = [held EXCEPT ![t] = held[t] \cup {h}]
  BY <1>14, Zenon DEF PinHit
<1>17. /\ held'[t] = held[t] \cup {h}
       /\ \A u \in Threads : u # t => held'[u] = held[u]
  BY <1>16, ThreadSet, Zenon DEF ImageInvariant, Shaped
<1>18. \A u \in Threads : \A g \in held'[u] : g \in held[u] \/ g.page \in Resident
  BY <1>1, <1>15, <1>17, Zenon
<1>19. phase = "undo" => held'[Writer] \subseteq held[Writer]
  BY <1>7, <1>8, <1>9, <1>17, PoolAssumption, Zenon
<1> QED
  BY <1>1, <1>6, <1>10, <1>18, <1>19, PoolAssumption, Zenon DEF Tame

\* A pin that misses brings no page either.
LEMMA PinMissTame ==
    ASSUME ImageInvariant, NEW t \in Threads, NEW p \in Pages,
           PinJoin(t, p) \/ PinReserve(t, p) \/ PinEvict(t, p) \/ PinNoVictim(t, p)
    PROVE  Tame
<1>1. /\ touched' = touched /\ grown' = grown /\ held' = held /\ Pinning(t, p)
      /\ p \notin Resident
  <2>1. CASE PinJoin(t, p)
    BY <2>1, Zenon DEF PinJoin, claims, work
  <2>2. CASE PinReserve(t, p)
    BY <2>2, Zenon DEF PinReserve, claims, work, ColdMiss
  <2>3. CASE PinEvict(t, p)
    BY <2>3, Zenon DEF PinEvict, work, ColdMiss
  <2>4. CASE PinNoVictim(t, p)
    BY <2>4, Zenon DEF PinNoVictim, claims, work, PinRaises, ColdMiss
  <2> QED
    BY <2>1, <2>2, <2>3, <2>4, Zenon
<1>2. PoolInvariant /\ Fallow /\ Shapes /\ want \in [Threads -> Pages] /\ Flights
      /\ evictions = [q \in Pages |-> evictions[q]]
  BY Zenon DEF ImageInvariant, PoolInvariant, Shapes
<1>3. Known(t, p)
  BY <1>1, PinKnown, Zenon
<1>4. pc[t] \in {"idle", "retry"} /\ (t = Writer => phase \in {"writing", "restamp"})
  BY <1>1, PinStarts, Zenon
<1>5. PICK x, q : /\ pc' = [pc EXCEPT ![t] = x] /\ want' = [want EXCEPT ![t] = q]
                  /\ x = "idle" \/ q = p
  <2>1. CASE PinJoin(t, p)
    BY <2>1, Zenon DEF PinJoin, Wait
  <2>2. CASE PinReserve(t, p)
    BY <2>2, Zenon DEF PinReserve
  <2>3. CASE PinEvict(t, p)
    BY <2>3, Zenon DEF PinEvict
  <2>4. CASE PinNoVictim(t, p)
    BY <2>4, Zenon DEF PinNoVictim, Wait
  <2> QED
    BY <2>1, <2>2, <2>3, <2>4, Zenon
<1>6. Moves(t, x)
  BY <1>2, <1>5, OneMoves, Zenon
<1>7. want'[t] = q /\ \A u \in Threads : u # t => want'[u] = want[u]
  BY <1>2, <1>5, Zenon
<1>8. \A u \in Threads : pc'[u] # "idle" => Known(u, want'[u])
  BY <1>2, <1>3, <1>5, <1>6, <1>7, KnownKept, Zenon
<1>9. pc[t] # "settle"
  BY <1>4, SMT
<1>10. \A v \in Evicting : evictions'[v].owner = evictions[v].owner
  <2>1. CASE evictions' = evictions
    BY <2>1, Zenon
  <2>2. CASE PinEvict(t, p)
    <3>1. PICK v \in Unpinned :
            evictions' = [evictions EXCEPT ![v] = [owner |-> t, frame |-> frames[v]]]
      BY <2>2, Zenon DEF PinEvict
    <3>2. v \notin Evicting
      BY <1>2, <3>1, Zenon DEF Unpinned, Flights
    <3>3. PICK y : y = [owner |-> t, frame |-> frames[v]]
      BY Zenon
    <3>4. \A u \in Pages : evictions'[u] = IF u = v THEN y ELSE evictions[u]
      BY <1>2, <3>1, <3>3, EntrySet, Zenon
    <3> QED
      BY <3>2, <3>4, Zenon DEF Evicting
  <2> QED
    BY <2>1, <2>2, Zenon DEF PinJoin, PinReserve, PinNoVictim, pool
<1>11. \A v \in Evicting : pc[evictions[v].owner] = "settle" =>
           v \in Evicting' /\ pc'[evictions'[v].owner] = "settle"
  BY <1>2, <1>6, <1>9, <1>10, SettleKept, Zenon
<1>12. phase' = "restamp" => todo' \subseteq touched \/ (phase = "restamp" /\ todo' \subseteq todo)
  <2>1. CASE phase' = phase /\ todo' = todo
    BY <2>1, Zenon
  <2>2. CASE PinRaises(t, p)
    <3>1. CASE t # Writer
      BY <2>1, <2>2, <3>1, Zenon DEF PinRaises, work
    <3>2. CASE t = Writer
      BY <1>4, <2>2, <3>2, Zenon DEF PinRaises
    <3> QED
      BY <3>1, <3>2, Zenon
  <2> QED
    BY <2>1, <2>2, Zenon DEF PinJoin, PinReserve, PinEvict, PinNoVictim, work
<1> QED
  BY <1>1, <1>8, <1>11, <1>12, Zenon DEF Tame

\* A thread whose flight ends or goes on is after the page it was after, or after none,
\* and no other victim is settled.
LEMMA LandedTame ==
    ASSUME ImageInvariant, NEW t \in Threads, pc[t] \in InFlight, NEW x \in {"idle", "retry", "read"},
           NEW l, NEW e, Signal([pc EXCEPT ![t] = x], l, e),
           NEW q, want' = [want EXCEPT ![t] = q], x = "idle" \/ q = want[t],
           \A v \in Evicting : \/ evictions'[v].owner = evictions[v].owner
                               \/ evictions[v].owner = t
    PROVE  /\ \A u \in Threads : pc'[u] # "idle" => Known(u, want'[u])
           /\ \A v \in Evicting : pc[evictions[v].owner] = "settle" /\ evictions[v].owner # t =>
                  v \in Evicting' /\ pc'[evictions'[v].owner] = "settle"
<1>1. PoolInvariant /\ Fallow /\ Shapes
  BY Zenon DEF ImageInvariant, PoolInvariant
<1>2. want \in [Threads -> Pages]
  BY <1>1, Zenon DEF Shapes
<1>3. pc[t] # "wait" /\ pc[t] # "idle"
  BY SMT DEF InFlight
<1>4. Moves(t, x)
  BY <1>1, <1>3, SignalMoves, Zenon
<1>5. want'[t] = q /\ \A u \in Threads : u # t => want'[u] = want[u]
  BY <1>2, Zenon
<1>6. x = "idle" \/ Known(t, want'[t])
  BY <1>1, <1>3, <1>5, Zenon DEF Fallow
<1>7. \A u \in Threads : pc'[u] # "idle" => Known(u, want'[u])
  BY <1>1, <1>4, <1>5, <1>6, KnownKept, Zenon
<1>8. \A v \in Evicting : pc[evictions[v].owner] = "settle" /\ evictions[v].owner # t =>
           v \in Evicting' /\ pc'[evictions'[v].owner] = "settle"
  BY <1>1, <1>4, SettleKept, Zenon
<1> QED
  BY <1>7, <1>8, Zenon

\* What a refused pin of a thread in flight leaves to restamp.
LEMMA RaisedTodo ==
    ASSUME ImageInvariant, NEW t \in Threads, pc[t] \in InFlight, NEW p, PinRaises(t, p)
    PROVE  phase' = "restamp" => todo' \subseteq touched \/ (phase = "restamp" /\ todo' \subseteq todo)
<1>1. pc[t] # "idle"
  BY SMT DEF InFlight
<1>2. t = Writer => phase \in {"writing", "restamp"}
  BY <1>1, Zenon DEF ImageInvariant, Dirt
<1>3. CASE t = Writer
  BY <1>2, <1>3, Zenon DEF PinRaises
<1>4. CASE t # Writer
  BY <1>4, Zenon DEF PinRaises, work
<1> QED
  BY <1>3, <1>4, Zenon

\* A load that fails, or whose victim comes back, leaves the pages free for reuse alone.
LEMMA FailedFlightTame ==
    ASSUME ImageInvariant, NEW t \in Threads, NEW v \in Pages, ReadFails(t) \/ EvictRestore(t, v)
    PROVE  Tame
<1>1. /\ touched' = touched /\ grown' = grown /\ held' = held
      /\ want' = [want EXCEPT ![t] = Header] /\ pc[t] \in {"read", "evict"}
      /\ PinRaises(t, want[t])
      /\ \E l, e : Signal([pc EXCEPT ![t] = "idle"], l, e)
  <2>1. CASE ReadFails(t)
    BY <2>1, Zenon DEF ReadFails, claims, work, PinRaises
  <2>2. CASE EvictRestore(t, v)
    BY <2>2, Zenon DEF EvictRestore, claims, work, PinRaises
  <2> QED
    BY <2>1, <2>2, Zenon
<1>2. pc[t] \in InFlight /\ pc[t] # "settle" /\ "idle" \in {"idle", "retry", "read"}
  BY <1>1, SMT DEF InFlight
<1>3. \A u \in Evicting : \/ evictions'[u].owner = evictions[u].owner
                          \/ evictions[u].owner = t
  <2>1. CASE ReadFails(t)
    BY <2>1, Zenon DEF ReadFails
  <2>2. CASE EvictRestore(t, v)
    <3>1. evictions' = [evictions EXCEPT ![v] = NoEviction] /\ evictions[v].owner = t
      BY <2>2, Zenon DEF EvictRestore
    <3>2. evictions = [u \in Pages |-> evictions[u]]
      BY Zenon DEF ImageInvariant, PoolInvariant, Shapes
    <3>3. \A u \in Pages : evictions'[u] = IF u = v THEN NoEviction ELSE evictions[u]
      BY <3>1, <3>2, EntrySet, Zenon
    <3> QED
      BY <3>1, <3>3, Zenon DEF Evicting
  <2> QED
    BY <2>1, <2>2, Zenon
<1>4. /\ \A u \in Threads : pc'[u] # "idle" => Known(u, want'[u])
      /\ \A u \in Evicting : pc[evictions[u].owner] = "settle" /\ evictions[u].owner # t =>
             u \in Evicting' /\ pc'[evictions'[u].owner] = "settle"
  BY <1>1, <1>2, <1>3, LandedTame, Zenon
<1>5. phase' = "restamp" => todo' \subseteq touched \/ (phase = "restamp" /\ todo' \subseteq todo)
  BY <1>1, <1>2, RaisedTodo, Zenon
<1> QED
  BY <1>1, <1>2, <1>4, <1>5, Zenon DEF Tame

\* The settlement lets the victim go and the load stand.
LEMMA EvictSettleGentle ==
    ASSUME ImageInvariant, NEW t \in Threads, NEW v \in Pages, EvictSettle(t, v)
    PROVE  Gentle /\ Tame
<1>1. /\ device' = device /\ length' = length /\ view' = view /\ changed' = changed
      /\ abandoned' = abandoned \ {v} /\ grown' = grown \ {v}
      /\ got' = got /\ doomed' = doomed /\ held' = held /\ frames' = frames /\ want' = want
      /\ touched' = touched /\ phase' = phase /\ todo' = todo
      /\ loads' = [loads EXCEPT ![want[t]].current = TRUE]
      /\ evictions' = [evictions EXCEPT ![v] = NoEviction]
      /\ pc[t] = "settle" /\ evictions[v].owner = t
      /\ Signal([pc EXCEPT ![t] = "read"], loads', evictions')
  BY Zenon DEF EvictSettle, RememberWriteBack, disk, freshness, work
<1>2. /\ Dirt /\ PoolInvariant /\ loads \in [Pages -> Ticket] /\ want \in [Threads -> Pages]
      /\ evictions = [u \in Pages |-> evictions[u]] /\ FileEnd /\ Flights
  BY Zenon DEF ImageInvariant, PoolInvariant, Shapes
<1>3. pc[t] \in InFlight /\ "read" \in {"idle", "retry", "read"}
  BY <1>1, Zenon DEF InFlight
<1>4. \A h \in Pages : loads'[h].valid => loads[h].valid
  <2>1. PICK p, k : /\ k = [loads[p] EXCEPT !.current = TRUE]
                    /\ loads' = [loads EXCEPT ![p] = k]
    BY <1>1, Zenon
  <2>2. Restamped(loads[p], k)
    BY <2>1, Zenon DEF Restamped
  <2>3. Marked(loads, loads')
    BY <1>2, <2>1, <2>2, TicketMark, Zenon
  <2> QED
    BY <2>3, Zenon DEF Marked
<1>5. want' = [want EXCEPT ![t] = want[t]] /\ want[t] \in Below
  BY <1>1, <1>2, Zenon DEF FileEnd
<1>6. /\ pc'[Writer] # "idle" => pc[Writer] # "idle"
      /\ \A u \in Threads : pc'[u] = "admit" /\ loads'[want'[u]].valid =>
            /\ pc[u] = "admit" /\ want'[u] = want[u] /\ loads[want[u]].valid
            /\ got'[u] = got[u]
      /\ \A u \in Threads : want'[u] \in Below
  BY <1>1, <1>3, <1>4, <1>5, LandedGentle, Zenon
<1>7. \A u \in Pages : evictions'[u] = IF u = v THEN NoEviction ELSE evictions[u]
  BY <1>1, <1>2, EntrySet, Zenon
<1>8. \A u \in Evicting' : u \in Evicting /\ evictions'[u] = evictions[u]
  <2>1. NoEviction.owner = NoThread
    BY Zenon DEF NoEviction
  <2> QED
    BY <1>7, <2>1, Zenon DEF Evicting
<1>9. Resident' = Resident /\ Dirty' = Dirty
  BY <1>1, Zenon DEF Resident, Dirty
<1>10. Soiled' \subseteq Soiled
  BY <1>8, <1>9, Zenon DEF Soiled
<1>11. Gentle
  BY <1>1, <1>2, <1>6, <1>8, <1>9, <1>10, Zenon DEF Gentle, Dirt
<1>12. \A u \in Evicting : \/ evictions'[u].owner = evictions[u].owner
                           \/ evictions[u].owner = t
  BY <1>1, <1>7, Zenon DEF Evicting
<1>13. /\ \A u \in Threads : pc'[u] # "idle" => Known(u, want'[u])
       /\ \A u \in Evicting : pc[evictions[u].owner] = "settle" /\ evictions[u].owner # t =>
              u \in Evicting' /\ pc'[evictions'[u].owner] = "settle"
  BY <1>1, <1>3, <1>5, <1>12, LandedTame, Zenon
<1>14. \A u \in Evicting : u # v => evictions[u].owner # t
  <2>1. v \in Evicting
    BY <1>1, PoolAssumption, Zenon DEF Evicting
  <2> QED
    BY <1>1, <1>2, <2>1, Zenon DEF Flights
<1>15. Tame
  <2>1. phase' = "restamp" => todo' \subseteq touched \/ (phase = "restamp" /\ todo' \subseteq todo)
    BY <1>1, Zenon
  <2> QED
    BY <1>1, <1>13, <1>14, <2>1, Zenon DEF Tame
<1> QED
  BY <1>11, <1>15, Zenon

\* A read takes what the device has.
LEMMA ReadPageGentle ==
    ASSUME ImageInvariant, NEW t \in Threads, ReadPage(t)
    PROVE  Gentle /\ Tame
<1>1. /\ device' = device /\ length' = length /\ view' = view /\ changed' = changed
      /\ abandoned' = abandoned /\ grown' = grown /\ loads' = loads /\ evictions' = evictions
      /\ doomed' = doomed /\ held' = held /\ frames' = frames /\ want' = want
      /\ touched' = touched /\ phase' = phase /\ todo' = todo
      /\ got' = [got EXCEPT ![t] = device[want[t]]]
      /\ pc' = [pc EXCEPT ![t] = "admit"] /\ pc[t] = "read"
  BY Zenon DEF ReadPage, pool, claims, disk, freshness, work
<1>2. Dirt /\ PoolInvariant /\ Fallow /\ FileEnd /\ Shapes
  BY Zenon DEF ImageInvariant, PoolInvariant
<1>3. Moves(t, "admit")
  BY <1>1, <1>2, OneMoves, Zenon
<1>4. pc[t] # "idle" /\ pc[t] # "settle" /\ "retry" # "admit" /\ "wait" # "idle"
  BY <1>1, SMT
<1>5. /\ got'[t] = device[want[t]]
      /\ \A u \in Threads : u # t => got'[u] = got[u]
  <2>1. PICK x : x = device[want[t]]
    BY Zenon
  <2>2. got' = [got EXCEPT ![t] = x]
    BY <1>1, <2>1, Zenon
  <2>3. got'[t] = x /\ \A u \in Threads : u # t => got'[u] = got[u]
    BY <2>2, ThreadSet, Zenon DEF ImageInvariant, Shaped
  <2> QED
    BY <2>1, <2>3, Zenon
<1>6. \A u \in Threads : pc'[u] = "admit" /\ loads'[want'[u]].valid =>
          \/ pc[u] = "admit" /\ want'[u] = want[u] /\ loads[want[u]].valid /\ got'[u] = got[u]
          \/ got'[u] = device[want'[u]]
  BY <1>1, <1>3, <1>4, <1>5, Zenon DEF Moves
<1>7. pc'[Writer] # "idle" => pc[Writer] # "idle"
  BY <1>3, <1>4, PoolAssumption, Zenon DEF Moves
<1>8. Resident' = Resident /\ Evicting' = Evicting /\ Soiled' = Soiled
  BY <1>1, SameTable, Zenon
<1>9. Gentle
  BY <1>1, <1>2, <1>6, <1>7, <1>8, Zenon DEF Gentle, Dirt, FileEnd
<1>10. \A u \in Threads : pc'[u] # "idle" => Known(u, want'[u])
  <2>1. Known(t, want'[t])
    BY <1>1, <1>2, <1>4, Zenon DEF Fallow
  <2> QED
    BY <1>1, <1>2, <1>3, <2>1, KnownKept, Zenon
<1>11. \A u \in Evicting : pc[evictions[u].owner] = "settle" =>
           u \in Evicting' /\ pc'[evictions'[u].owner] = "settle"
  BY <1>1, <1>2, <1>3, <1>4, SettleKept, Zenon
<1>12. Tame
  <2>1. phase' = "restamp" => todo' \subseteq touched \/ (phase = "restamp" /\ todo' \subseteq todo)
    BY <1>1, Zenon
  <2> QED
    BY <1>1, <1>10, <1>11, <2>1, Zenon DEF Tame
<1> QED
  BY <1>9, <1>12, Zenon

\* The loader is back: it pins the frame there is, or brings the image it read.
LEMMA AdmitGentle ==
    ASSUME ImageInvariant, NEW t \in Threads, Admit(t)
    PROVE  Gentle /\ Tame
<1> DEFINE p == want[t]
           usable == loads[p].valid /\ loads[p].current
           there == p \in Resident \/ usable
<1>1. /\ device' = device /\ length' = length /\ view' = view /\ changed' = changed
      /\ abandoned' = abandoned /\ grown' = grown /\ evictions' = evictions /\ doomed' = doomed
      /\ touched' = touched /\ phase' = phase /\ todo' = todo
      /\ loads' = [loads EXCEPT ![p] = NoLoad] /\ got' = [got EXCEPT ![t] = {}]
      /\ pc[t] = "admit"
  BY Zenon DEF Admit, claims, disk, freshness, work
<1>2. /\ Dirt /\ PoolInvariant /\ Fallow /\ FileEnd /\ IsTable(frames)
      /\ loads \in [Pages -> Ticket] /\ Header \in Below
  BY Zenon DEF ImageInvariant, PoolInvariant, Shapes, FileEnd
<1>3. pc[t] \in InFlight /\ pc[t] # "idle" /\ pc[t] # "settle"
  BY <1>1, SMT DEF InFlight
<1>4. p \in Pages /\ p \in Below
  BY <1>2, <1>3, ThreadInFlight, Zenon DEF FileEnd
<1>5. PICK x \in {"idle", "retry", "read"}, q \in Below :
         /\ Signal([pc EXCEPT ![t] = x], loads', evictions')
         /\ want' = [want EXCEPT ![t] = q]
         /\ x = "idle" \/ q = want[t]
  <2>1. CASE there
    <3>1. Signal([pc EXCEPT ![t] = "idle"], loads', evictions') /\ want' = [want EXCEPT ![t] = Header]
      BY <1>1, <2>1, Zenon DEF Admit
    <3> QED
      BY <1>2, <3>1, Zenon
  <2>2. CASE ~there
    <3>1. Signal([pc EXCEPT ![t] = "retry"], loads', evictions') /\ want' = [want EXCEPT ![t] = p]
      BY <1>1, <2>2, Zenon DEF Admit
    <3> QED
      BY <1>4, <3>1, Zenon
  <2> QED
    BY <2>1, <2>2, Zenon
<1>6. \A u \in Threads : u # t => got'[u] = got[u]
  BY <1>1, ThreadSet, Zenon DEF ImageInvariant, Shaped
<1>7. \A h \in Pages : loads'[h].valid => loads[h].valid
  BY <1>1, <1>2, LoadGone, Zenon
<1>8. /\ pc'[Writer] # "idle" => pc[Writer] # "idle"
      /\ \A u \in Threads : pc'[u] = "admit" /\ loads'[want'[u]].valid =>
            /\ pc[u] = "admit" /\ want'[u] = want[u] /\ loads[want[u]].valid
            /\ got'[u] = got[u]
      /\ \A u \in Threads : want'[u] \in Below
  BY <1>3, <1>5, <1>6, <1>7, LandedGentle, Zenon
<1>9. /\ \A u \in Threads : pc'[u] # "idle" => Known(u, want'[u])
      /\ \A v \in Evicting : pc[evictions[v].owner] = "settle" /\ evictions[v].owner # t =>
             v \in Evicting' /\ pc'[evictions'[v].owner] = "settle"
  BY <1>1, <1>3, <1>5, LandedTame, Zenon
<1>10. PICK o : frames' = CASE p \in Resident -> [frames EXCEPT ![p].pins = @ + 1]
                            [] p \notin Resident /\ usable ->
                                  [frames EXCEPT ![p] = [obj |-> o, pins |-> 1, img |-> got[t],
                                                         dirty |-> FALSE]]
                            [] OTHER -> frames
  BY Zenon DEF Admit
<1>11. \/ p \in Resident /\ frames' = [frames EXCEPT ![p].pins = @ + 1]
       \/ usable /\ frames' = [frames EXCEPT ![p] = [obj |-> o, pins |-> 1, img |-> got[t],
                                                      dirty |-> FALSE]]
       \/ frames' = frames
  BY <1>10, Zenon
<1>12. /\ \A r \in Resident' : \/ r \in Resident /\ frames'[r].img = frames[r].img
                               \/ /\ pc[t] = "admit" /\ want[t] = r /\ loads[r].valid
                                  /\ frames'[r].img = got[t]
       /\ Dirty' \subseteq Dirty
  <2>1. CASE frames' = frames
    BY <2>1, Zenon DEF Resident, Dirty
  <2>2. CASE frames' = [frames EXCEPT ![p].pins = @ + 1]
    <3>1. PICK n, y : Repinned(frames[p], n, y) /\ Placed(frames, p, y, frames')
      BY <2>2, Zenon DEF Repinned, Placed
    <3>2. PinsOnly(frames, frames', p, n)
      BY <1>2, <1>4, <3>1, TablePins, Zenon
    <3> QED
      BY <3>2, Zenon DEF PinsOnly, Resident, Dirty
  <2>3. CASE usable /\ frames' = [frames EXCEPT ![p] = [obj |-> o, pins |-> 1, img |-> got[t],
                                                         dirty |-> FALSE]]
    <3>1. PICK y : /\ y = [obj |-> o, pins |-> 1, img |-> got[t], dirty |-> FALSE]
                   /\ IsFrame(y)
      BY FrameOf, Zenon
    <3>2. y.img = got[t] /\ ~y.dirty
      BY <3>1, Zenon
    <3>3. Placed(frames, p, y, frames')
      BY <2>3, <3>1, Zenon DEF Placed
    <3>4. Swapped(frames, frames', p, y)
      BY <1>2, <1>4, <3>1, <3>3, OnePlaced, Zenon
    <3>5. frames'[p] = y /\ \A r \in Pages : r # p => frames'[r] = frames[r]
      BY <3>4, Zenon DEF Swapped
    <3> QED
      BY <1>1, <2>3, <3>2, <3>5, Zenon DEF Resident, Dirty
  <2> QED
    BY <1>11, <2>1, <2>2, <2>3, Zenon
<1>13. Evicting' = Evicting
  BY <1>1, Zenon DEF Evicting
<1>14. Soiled' \subseteq Soiled
  BY <1>12, <1>13, Zenon DEF Soiled
<1>15. /\ \A u \in Threads : \A h \in held'[u] : h \in held[u] \/ (u = t /\ h.page = p)
       /\ \A u \in Threads : u # t => held'[u] = held[u]
  <2>1. PICK h : h = [page |-> p, obj |-> frames'[p].obj]
    BY Zenon
  <2>2. h.page = p
    BY <2>1, SMT
  <2>3. held' = held \/ held' = [held EXCEPT ![t] = held[t] \cup {h}]
    BY <2>1, Zenon DEF Admit
  <2>4. CASE held' = [held EXCEPT ![t] = held[t] \cup {h}]
    <3>1. /\ held'[t] = held[t] \cup {h}
          /\ \A u \in Threads : u # t => held'[u] = held[u]
      BY <2>4, ThreadSet, Zenon DEF ImageInvariant, Shaped
    <3> QED
      BY <2>2, <3>1, Zenon
  <2> QED
    BY <2>3, <2>4, Zenon
<1>16. Gentle
  <2>1. \A r \in Resident' :
          \/ r \in Resident /\ frames[r].img \subseteq frames'[r].img
          \/ \E u \in Threads : /\ pc[u] = "admit" /\ want[u] = r /\ loads[r].valid
                                /\ frames'[r].img = got[u]
    BY <1>12, Zenon
  <2>2. \A u \in Threads : \A h \in held'[u] : h \in held[u] \/ h.page \in Below
    BY <1>4, <1>15, Zenon
  <2> HIDE DEF p
  <2> QED
    BY <1>1, <1>2, <1>8, <1>13, <1>14, <2>1, <2>2, Zenon DEF Gentle, Dirt
<1>17. t = Writer => phase \in {"writing", "restamp"}
  BY <1>2, <1>3, Zenon DEF Dirt
<1>18. Tame
  <2>1. phase' = "restamp" => todo' \subseteq touched \/ (phase = "restamp" /\ todo' \subseteq todo)
    BY <1>1, Zenon
  <2>2. \A h \in held'[Writer] :
           \/ h \in held[Writer]
           \/ phase \in {"writing", "restamp"} /\ Known(Writer, h.page)
    <3>1. Known(t, p)
      BY <1>2, <1>3, Zenon DEF Fallow
    <3> HIDE DEF p
    <3> QED
      BY <1>15, <1>17, <3>1, PoolAssumption, Zenon
  <2>3. phase = "undo" => held'[Writer] \subseteq held[Writer]
    <3>1. phase \in {"writing", "restamp"} => phase # "undo"
      BY SMT
    <3> QED
      BY <1>15, <1>17, <3>1, PoolAssumption, Zenon
  <2>4. \A v \in Evicting : pc[evictions[v].owner] = "settle" =>
           v \in Evicting' /\ pc'[evictions'[v].owner] = "settle"
    BY <1>3, <1>9, Zenon
  <2> QED
    BY <1>1, <1>9, <2>1, <2>2, <2>3, <2>4, Zenon DEF Tame
<1> QED
  BY <1>16, <1>18, Zenon

\* A signal without a flight of one's own.
LEMMA RousedGentle ==
    ASSUME ImageInvariant, Roused, Marked(loads, loads'), evictions' = evictions,
           want' = want, got' = got
    PROVE  /\ pc'[Writer] # "idle" => pc[Writer] # "idle"
           /\ \A u \in Threads : pc'[u] = "admit" /\ loads'[want'[u]].valid =>
                 /\ pc[u] = "admit" /\ want'[u] = want[u] /\ loads[want[u]].valid
                 /\ got'[u] = got[u]
           /\ \A u \in Threads : want'[u] \in Below
           /\ \A u \in Threads : pc'[u] # "idle" => Known(u, want'[u])
           /\ \A v \in Evicting : pc[evictions[v].owner] = "settle" =>
                  v \in Evicting' /\ pc'[evictions'[v].owner] = "settle"
<1>1. PoolInvariant /\ Fallow /\ FileEnd /\ Shapes
  BY Zenon DEF ImageInvariant, PoolInvariant
<1>2. \A u \in Threads : /\ pc[u] # "wait" => pc'[u] = pc[u]
                         /\ pc[u] = "wait" => pc'[u] \in {"wait", "retry"}
  BY <1>1, RousedThreads, Zenon
<1>3. \A u \in Threads : pc'[u] # "idle" => pc[u] # "idle"
  BY <1>2, SMT
<1>4. \A u \in Threads : pc'[u] = "admit" => pc[u] = "admit"
  BY <1>2, SMT
<1>5. \A u \in Threads : pc[u] = "settle" => pc'[u] = "settle"
  BY <1>2, SMT
<1>6. \A q \in Pages : loads'[q].valid => loads[q].valid
  BY Zenon DEF Marked
<1>7. \A u \in Threads : want[u] \in Pages
  BY <1>1, Zenon DEF Shapes
<1>8. \A u \in Threads : pc'[u] = "admit" /\ loads'[want'[u]].valid =>
         pc[u] = "admit" /\ want'[u] = want[u] /\ loads[want[u]].valid /\ got'[u] = got[u]
  BY <1>4, <1>6, <1>7, Zenon
<1>9. \A u \in Threads : pc'[u] # "idle" => Known(u, want'[u])
  BY <1>1, <1>3, Zenon DEF Fallow
<1>10. \A v \in Evicting : pc[evictions[v].owner] = "settle" =>
           v \in Evicting' /\ pc'[evictions'[v].owner] = "settle"
  <2>1. \A v \in Evicting : evictions[v].owner \in Threads
    BY <1>1, TicketOwners, Zenon
  <2> QED
    BY <1>5, <2>1, Zenon DEF Evicting
<1> QED
  BY <1>1, <1>3, <1>8, <1>9, <1>10, PoolAssumption, Zenon DEF FileEnd

\* e is the doomed frame d with its pins replaced.
Released(d, n, e) == e = [d EXCEPT !.pins = n]

\* A release leaves a doomed frame as it is, but for its pins.
LEMMA DoomedEdit ==
    ASSUME NEW d, IsDoomed(d), NEW n, NEW e, Released(d, n, e)
    PROVE  /\ IsDoomed(e) /\ e.page = d.page /\ e.obj = d.obj /\ e.pins = n
           /\ e.dirty = d.dirty
<1> DEFINE D(p, o, k, i, x, u) == [page |-> p, obj |-> o, pins |-> k, img |-> i, dirty |-> x,
                                   unwritten |-> u]
<1>1. d = D(d.page, d.obj, d.pins, d.img, d.dirty, d.unwritten)
  BY Zenon DEF IsDoomed
<1>2. \A p, o, k, i, x, u : [D(p, o, k, i, x, u) EXCEPT !.pins = n] = D(p, o, n, i, x, u)
  BY SMT
<1>3. e = D(d.page, d.obj, n, d.img, d.dirty, d.unwritten)
  BY <1>1, <1>2, Zenon DEF Released
<1>5. /\ e.page = d.page /\ e.obj = d.obj /\ e.pins = n /\ e.img = d.img
      /\ e.dirty = d.dirty /\ e.unwritten = d.unwritten
  BY <1>3, SMT
<1>6. IsDoomed(e)
  BY <1>3, <1>5, Zenon DEF IsDoomed
<1> QED
  BY <1>5, <1>6, Zenon

\* A release that raises ends the attempt like a refused pin.
LEMMA UnpinWork ==
    ASSUME NEW t, NEW h, Unpin(t, h)
    PROVE  /\ touched' = touched
           /\ \/ phase' = phase /\ todo' = todo
              \/ /\ phase \in {"writing", "restamp"} /\ phase' = "restamp"
                 /\ todo' \subseteq todo \cup touched
           /\ phase' = "restamp" =>
                 todo' \subseteq touched \/ (phase = "restamp" /\ todo' \subseteq todo)
<1>1. UNCHANGED work \/ (Attempts /\ PinRaises(t, h.page))
  BY Zenon DEF Unpin
<1>2. CASE UNCHANGED work
  BY <1>2, Zenon DEF work
<1>3. CASE Attempts /\ PinRaises(t, h.page)
  <2>1. \/ UNCHANGED work
        \/ /\ phase' = "restamp" /\ touched' = touched
           /\ todo' = IF phase = "writing" THEN touched ELSE todo \ {h.page}
    BY <1>3, Zenon DEF PinRaises
  <2>2. phase \in {"writing", "restamp"}
    BY <1>3, Zenon DEF Attempts
  <2> QED
    BY <1>2, <2>1, <2>2, Zenon
<1> QED
  BY <1>1, <1>2, <1>3, Zenon

\* What a release by the name of the page does to the table: a pin less, and the dirty
\* mark of a changed object.
LEMMA DropPinTable ==
    ASSUME IsTable(frames), NEW p \in Pages, NEW soil \in BOOLEAN, DropPin(p, soil)
    PROVE  \A q \in Pages : /\ frames'[q].obj = frames[q].obj /\ frames'[q].img = frames[q].img
                            /\ frames'[q].dirty => frames[q].dirty \/ (soil /\ q = p)
<1>1. PICK n, y, f : Repinned(frames[p], n, y) /\ Placed(frames, p, y, f) /\ n = frames[p].pins - 1
  BY Zenon DEF Repinned, Placed
<1>2. PICK x, z : Resoiled(f[p], x, z) /\ x = (f[p].dirty \/ soil)
  BY Zenon DEF Resoiled
<1>3. Placed(f, p, z, frames')
  BY <1>1, <1>2, Zenon DEF DropPin, Repinned, Placed, Resoiled
<1>4. PinsOnly(frames, f, p, n)
  BY <1>1, TablePins, Zenon
<1>5. IsTable(f)
  BY <1>4, Zenon DEF PinsOnly
<1>6. DirtOnly(f, frames', p, x)
  BY <1>2, <1>3, <1>5, TableDirt, Zenon
<1>7. \A q \in Pages : f[q].obj = frames[q].obj /\ f[q].img = frames[q].img /\ f[q].dirty = frames[q].dirty
  BY <1>4, Zenon DEF PinsOnly
<1>8. /\ \A q \in Pages : frames'[q].obj = f[q].obj /\ frames'[q].img = f[q].img
      /\ frames'[p].dirty = x /\ \A q \in Pages : q # p => frames'[q].dirty = f[q].dirty
  BY <1>6, Zenon DEF DirtOnly
<1>9. frames'[p].dirty => frames[p].dirty \/ soil
  BY <1>2, <1>7, <1>8, Zenon
<1> QED
  BY <1>7, <1>8, <1>9, Zenon

\* A release changes pins, and dirty marks of the attempt: nothing doomed is dirty, so
\* nothing is written.
LEMMA UnpinGentle ==
    ASSUME ImageInvariant, NEW t \in Threads, NEW h, Unpin(t, h)
    PROVE  Gentle /\ Tame
<1>1. /\ length' = length /\ view' = view /\ changed' = changed /\ evictions' = evictions
      /\ want' = want /\ got' = got
      /\ held' = [held EXCEPT ![t] = held[t] \ {h}] /\ h \in held[t]
  BY Zenon DEF Unpin, freshness
<1>2. Dirt /\ PoolInvariant /\ FileEnd /\ IsTable(frames) /\ Shaped
  BY Zenon DEF ImageInvariant, PoolInvariant, Shapes
<1>3. Calm
  BY <1>2, UnpinCalm, Zenon
<1>4. Roused /\ Marked(loads, loads')
  BY <1>3, Zenon DEF Calm
<1>5. /\ pc'[Writer] # "idle" => pc[Writer] # "idle"
      /\ \A u \in Threads : pc'[u] = "admit" /\ loads'[want'[u]].valid =>
            /\ pc[u] = "admit" /\ want'[u] = want[u] /\ loads[want[u]].valid
            /\ got'[u] = got[u]
      /\ \A u \in Threads : want'[u] \in Below
      /\ \A u \in Threads : pc'[u] # "idle" => Known(u, want'[u])
      /\ \A v \in Evicting : pc[evictions[v].owner] = "settle" =>
             v \in Evicting' /\ pc'[evictions'[v].owner] = "settle"
  BY <1>1, <1>4, RousedGentle, Zenon
<1>6. h.page \in Pages
  <2>1. h.page \in Below
    BY <1>1, <1>2, Zenon DEF FileEnd
  <2>2. length \in Nat /\ length <= MaxPages /\ MaxPages \in Nat
    BY <1>2, PoolAssumption, Zenon DEF FileEnd
  <2> QED
    BY <2>1, <2>2, SMT DEF Below, Pages
<1>7. /\ device' = device /\ abandoned' = abandoned /\ grown' = grown
      /\ \A d \in doomed' : ~d.dirty
      /\ \A q \in Pages : /\ frames'[q].obj = frames[q].obj /\ frames'[q].img = frames[q].img
                          /\ frames'[q].dirty => frames[q].dirty \/ (Attempts /\ q \in touched)
  <2>1. ASSUME NEW d \in doomed, DropDoomed(d)
        PROVE  /\ device' = device /\ abandoned' = abandoned /\ grown' = grown
               /\ \A e \in doomed' : ~e.dirty
               /\ frames' = frames
    <3>1. ~d.dirty /\ IsDoomed(d)
      BY <1>2, Zenon DEF Dirt, Shaped
    <3>2. device' = device /\ abandoned' = abandoned /\ grown' = grown /\ frames' = frames
      BY <2>1, <3>1, Zenon DEF DropDoomed, claims
    <3>3. PICK n, e : Released(d, n, e) /\ doomed' \subseteq doomed \cup {e}
      BY <2>1, Zenon DEF DropDoomed, Released
    <3>4. e.dirty = d.dirty
      BY <3>1, <3>3, DoomedEdit, SMT
    <3> QED
      BY <1>2, <3>1, <3>2, <3>3, <3>4, Zenon DEF Dirt
  <2>2. ASSUME NEW soil \in {FALSE, Attempts /\ SoilOf(t, h)}, DropPin(h.page, soil)
        PROVE  /\ device' = device /\ abandoned' = abandoned /\ grown' = grown
               /\ doomed' = doomed
               /\ \A q \in Pages :
                     /\ frames'[q].obj = frames[q].obj /\ frames'[q].img = frames[q].img
                     /\ frames'[q].dirty => frames[q].dirty \/ (Attempts /\ q \in touched)
    <3>1. device' = device /\ abandoned' = abandoned /\ grown' = grown /\ doomed' = doomed
      BY <2>2, Zenon DEF DropPin, claims
    <3>2. soil \in BOOLEAN /\ (soil => Attempts /\ h.page \in touched)
      BY <2>2, Zenon DEF SoilOf, Attempts
    <3>3. \A q \in Pages : /\ frames'[q].obj = frames[q].obj /\ frames'[q].img = frames[q].img
                           /\ frames'[q].dirty => frames[q].dirty \/ (soil /\ q = h.page)
      BY <1>2, <1>6, <2>2, <3>2, DropPinTable, Zenon
    <3> QED
      BY <3>1, <3>2, <3>3, Zenon
  <2>3. CASE UNCHANGED <<frames, doomed, loads, claims, device, pc, waits>>
    BY <1>2, <2>3, Zenon DEF claims, Dirt
  <2>4. \/ \E d \in doomed : DropDoomed(d)
        \/ \E soil \in {FALSE, Attempts /\ SoilOf(t, h)} : DropPin(h.page, soil)
        \/ UNCHANGED <<frames, doomed, loads, claims, device, pc, waits>>
    BY Zenon DEF Unpin
  <2>5. CASE \E d \in doomed : DropDoomed(d)
    BY <2>1, <2>5, Zenon
  <2>6. CASE \E soil \in {FALSE, Attempts /\ SoilOf(t, h)} : DropPin(h.page, soil)
    BY <1>2, <2>2, <2>6, Zenon DEF Dirt
  <2> QED
    BY <2>3, <2>4, <2>5, <2>6, Zenon
<1>8. /\ Resident' = Resident /\ Evicting' = Evicting
      /\ Soiled' \subseteq Soiled \/ (Attempts /\ Soiled' \subseteq Soiled \cup touched)
  <2>1. Resident' = Resident /\ Evicting' = Evicting
    BY <1>1, <1>7, Zenon DEF Resident, Evicting
  <2>2. \A q \in Dirty' : q \in Dirty \/ (Attempts /\ q \in touched)
    BY <1>7, <2>1, Zenon DEF Dirty, Resident
  <2> QED
    BY <2>1, <2>2, Zenon DEF Soiled
<1>9. \A u \in Threads : held'[u] \subseteq held[u]
  <2>1. PICK x : x = held[t] \ {h} /\ x \subseteq held[t]
    BY Zenon
  <2>2. held' = [held EXCEPT ![t] = x]
    BY <1>1, <2>1, Zenon
  <2>3. held'[t] = x /\ \A u \in Threads : u # t => held'[u] = held[u]
    BY <1>2, <2>2, ThreadSet, Zenon DEF Shaped
  <2> QED
    BY <2>1, <2>3, Zenon
<1>10. \A q \in Resident : q \in Pages
  BY Zenon DEF Resident
<1>11. Gentle
  BY <1>1, <1>5, <1>7, <1>8, <1>9, <1>10, UnpinWork, Zenon DEF Gentle
<1>12. Tame
  <2>1. phase' = "restamp" => todo' \subseteq touched \/ (phase = "restamp" /\ todo' \subseteq todo)
    BY UnpinWork, Zenon
  <2> QED
    BY <1>5, <1>7, <1>9, <2>1, PoolAssumption, Zenon DEF Tame
<1> QED
  BY <1>11, <1>12, Zenon

\* The section of the fence moves nothing.
LEMMA FenceSectionGentle ==
    ASSUME ImageInvariant, FenceSection
    PROVE  Gentle /\ Tame
<1>1. /\ device' = device /\ length' = length /\ view' = view /\ changed' = changed
      /\ abandoned' = abandoned /\ grown' = grown /\ loads' = loads /\ evictions' = evictions
      /\ doomed' = doomed /\ held' = held /\ frames' = frames /\ want' = want /\ got' = got
      /\ touched' = touched /\ phase' = phase /\ todo' = todo /\ pc' = pc /\ waits' = waits
  BY Zenon DEF FenceSection, pool, claims, disk, freshness, work, pinning
<1>2. Dirt /\ loads \in [Pages -> Ticket]
  BY Zenon DEF ImageInvariant, PoolInvariant, Shapes
<1>3. Marked(loads, loads') /\ Roused
  BY <1>1, <1>2, Zenon DEF Marked, Roused
<1>4. /\ pc'[Writer] # "idle" => pc[Writer] # "idle"
      /\ \A u \in Threads : pc'[u] = "admit" /\ loads'[want'[u]].valid =>
            /\ pc[u] = "admit" /\ want'[u] = want[u] /\ loads[want[u]].valid
            /\ got'[u] = got[u]
      /\ \A u \in Threads : want'[u] \in Below
      /\ \A u \in Threads : pc'[u] # "idle" => Known(u, want'[u])
      /\ \A v \in Evicting : pc[evictions[v].owner] = "settle" =>
             v \in Evicting' /\ pc'[evictions'[v].owner] = "settle"
  BY <1>1, <1>3, RousedGentle, Zenon
<1>5. Resident' = Resident /\ Evicting' = Evicting /\ Soiled' = Soiled
  BY <1>1, SameTable, Zenon
<1>6. Gentle
  BY <1>1, <1>2, <1>4, <1>5, Zenon DEF Gentle, Dirt
<1>7. Tame
  <2>1. phase' = "restamp" => todo' \subseteq touched \/ (phase = "restamp" /\ todo' \subseteq todo)
    BY <1>1, Zenon
  <2> QED
    BY <1>1, <1>4, <2>1, Zenon DEF Tame
<1> QED
  BY <1>6, <1>7, Zenon

=============================================================================
