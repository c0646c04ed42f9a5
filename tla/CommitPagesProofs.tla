------------------------ MODULE CommitPagesProofs --------------------------
(* Proofs about what the pages of CommitProtocol hold, for any participants,  *)
(* partitions, pages and workload and all bounds: no commit is missing from a *)
(* page image, a snapshot reads every commit it covers, a published commit is *)
(* in the pages, and an acknowledged one survives a power loss.               *)
EXTENDS PageStepsProofs

-----------------------------------------------------------------------------
(* Steps that write, force or publish pages.                                  *)

\* Redo, apply and freeze: whatever base the page is written over, it is complete
\* afterwards, in the page file and in the cache of the writer.
LEMMA PageWritten ==
    ASSUME CommitInvariant, PageInvariant, NEW p \in Participants, NEW g \in Pages,
           WritePage(p, g)
    PROVE  /\ \A h \in Pages : h # g => os'[h] = os[h]
           /\ os'[g].lsn \in Nat /\ os[g].lsn <= os'[g].lsn
           /\ Exact(log, os'[g], g) /\ Covers(log, os'[g], g, Len(log))
           /\ \A q \in Participants \ {p} : cache'[q] = cache[q]
           /\ DOMAIN cache'[p] = DOMAIN cache[p] \cup {g}
           /\ \A h \in DOMAIN cache[p] : h # g => cache'[p][h] = cache[p][h]
           /\ cache'[p][g].lsn \in Nat /\ cache'[p][g].lsn <= os'[g].lsn
           /\ Exact(log, cache'[p][g], g) /\ Covers(log, cache'[p][g], g, Len(log))
<1> DEFINE img == NewestImage(g)
           base == Pinned(p, cache[p], g)
<1>1. /\ pc[p] \in {"redo", "apply", "freeze"} /\ g \in todo[p]
      /\ os' = IF base.lsn < img.lsn THEN [os EXCEPT ![g] = img] ELSE os
      /\ cache' = [cache EXCEPT ![p] =
                      [h \in DOMAIN cache[p] \cup {g} |->
                          IF h # g THEN cache[p][h] ELSE IF base.lsn < img.lsn THEN img ELSE base]]
  BY Zenon DEF WritePage
<1>2. WritersOf(g, Len(log)) # {} /\ Contents
  BY <1>1, Zenon DEF CommitInvariant, PagesBehind, PageInvariant
<1>3. /\ img \in Page /\ Exact(log, img, g) /\ Covers(log, img, g, Len(log))
      /\ \A pg \in Page : Exact(log, pg, g) => pg.lsn <= img.lsn
  BY <1>2, NewestIsNewest, Zenon
<1>4. base \in {os[g]} \cup {cache[p][h] : h \in DOMAIN cache[p] \cap {g}}
  BY Zenon DEF Pinned
<1>5. /\ os[g] \in Page /\ os[g].lsn \in Nat /\ Exact(log, os[g], g) /\ os[g].lsn <= os[g].lsn
      /\ Len(log) \in Nat /\ os \in [Pages -> Page] /\ cache \in [Participants -> Caches]
  BY PageTypes, LsnTypes DEF PageInvariant, Contents
<1>6. /\ base.lsn \in Nat /\ Exact(log, base, g) /\ base.lsn <= os[g].lsn
  BY <1>4, <1>5, LsnTypes, Zenon DEF PageInvariant, Contents
<1>7. img.lsn \in Nat
  BY <1>3, BoundIsNatural DEF Page
<1> HIDE DEF img, base
<1>8. CASE base.lsn < img.lsn
  <2>1. os' = [os EXCEPT ![g] = img] /\ os'[g] = img /\ cache'[p][g] = img
    BY <1>1, <1>5, <1>8, Zenon
  <2>2. img.lsn <= img.lsn /\ os[g].lsn <= img.lsn
    BY <1>3, <1>5, <1>7, Zenon
  <2> QED  BY <1>1, <1>3, <1>5, <1>7, <2>1, <2>2, Zenon
<1>9. CASE ~(base.lsn < img.lsn)
  <2>1. os' = os /\ cache'[p][g] = base
    BY <1>1, <1>5, <1>9, Zenon
  <2>2. img.lsn <= base.lsn /\ img.lsn <= os[g].lsn /\ Len(log) <= Len(log)
    BY <1>5, <1>6, <1>7, <1>9
  <2>3. Covers(log, base, g, Len(log)) /\ Covers(log, os[g], g, Len(log))
    BY <1>3, <1>5, <1>6, <1>7, <2>2, CoversLess, ZenonT(60)
  <2> QED  BY <1>1, <1>5, <1>6, <2>1, <2>3
<1> QED  BY <1>8, <1>9, Zenon

\* Writing a page in place keeps the invariant.
LEMMA WriteKept ==
    ASSUME CommitInvariant, PageInvariant, NEW p \in Participants, NEW g \in Pages,
           WritePage(p, g)
    PROVE  PageInvariant'
<1>0. /\ LocalOK(p) /\ todo \in [Participants -> SUBSET Pages] /\ Len(log) \in Nat
      /\ pub.last \in Nat /\ pub.last <= Len(log) /\ Len(log) <= Len(log) /\ pub.last <= pub.last
  BY PageTypes DEF PageInvariant
<1>1. /\ UNCHANGED <<log, pub, disk, pc, job, snap, floor, view, ownPub, acked, durable>>
      /\ pc[p] \in Writing /\ pc[p] \in Inside
      /\ todo'[p] = todo[p] \ {g} /\ \A q \in Participants \ {p} : todo'[q] = todo[q]
  BY <1>0, Zenon DEF WritePage, Writing, Inside
<1>2. /\ \A h \in Pages : h # g => os'[h] = os[h]
      /\ os'[g].lsn \in Nat /\ os[g].lsn <= os'[g].lsn
      /\ Exact(log, os'[g], g) /\ Covers(log, os'[g], g, Len(log))
      /\ \A q \in Participants \ {p} : cache'[q] = cache[q]
      /\ DOMAIN cache'[p] = DOMAIN cache[p] \cup {g}
      /\ \A h \in DOMAIN cache[p] : h # g => cache'[p][h] = cache[p][h]
      /\ cache'[p][g].lsn \in Nat /\ cache'[p][g].lsn <= os'[g].lsn
      /\ Exact(log, cache'[p][g], g) /\ Covers(log, cache'[p][g], g, Len(log))
  BY PageWritten, Zenon
<1>3. \A h \in Pages : /\ os[h].lsn \in Nat /\ os'[h].lsn \in Nat /\ os[h].lsn <= os'[h].lsn
                       /\ disk[h].lsn \in Nat /\ disk[h].lsn <= disk[h].lsn
  BY <1>2, LsnTypes
<1>4. Frame(p) /\ Grows(p)
  BY <1>0, <1>1, <1>2, <1>3, ZenonT(60) DEF Frame, Grows, Agree
<1>5. Contents'
  <2>1. ASSUME NEW h \in Pages
        PROVE  Exact(log, os'[h], h) /\ disk[h].lsn <= os'[h].lsn
    <3>1. Exact(log, os[h], h) /\ disk[h].lsn <= os[h].lsn
      BY Zenon DEF PageInvariant, Contents
    <3> QED  BY <1>2, <1>3, <3>1
  <2>2. ASSUME NEW q \in Participants, NEW h \in DOMAIN cache'[q], q = p => h # g
        PROVE  Exact(log, cache'[q][h], h) /\ cache'[q][h].lsn <= os'[h].lsn
    <3>1. h \in DOMAIN cache[q] /\ cache'[q][h] = cache[q][h]
      BY <1>2, <2>2, Zenon
    <3>2. Exact(log, cache[q][h], h) /\ cache[q][h].lsn <= os[h].lsn
      BY <3>1, Zenon DEF PageInvariant, Contents
    <3>3. h \in Pages /\ cache[q][h].lsn \in Nat
      BY <3>1, LsnTypes, Zenon
    <3> QED  BY <1>3, <3>1, <3>2, <3>3
  <2>3. \A q \in Participants : \A h \in DOMAIN cache'[q] :
            Exact(log, cache'[q][h], h) /\ cache'[q][h].lsn <= os'[h].lsn
    BY <1>2, <2>2, Zenon
  <2> QED  BY <1>1, <2>1, <2>3 DEF PageInvariant, Contents
<1>6. PublishedIn'
  <2>1. ASSUME NEW q \in Participants, Reopened(q)', NEW h \in Pages
        PROVE  Covers(log, os'[h], h, pub.last)
    <3>1. Reopened(q)
      BY <1>1, <2>1, Zenon DEF Reopened
    <3>2. Covers(log, os[h], h, pub.last)
      BY <3>1, Zenon DEF PageInvariant, PublishedIn
    <3> QED  BY <1>0, <1>3, <3>2, CoversLess, Zenon
  <2> QED  BY <1>1, <2>1, Zenon DEF PublishedIn
<1>7. AppliedOK(p)'
  <2>1. ASSUME NEW h \in Pages \ todo'[p]  PROVE Covers(log, os'[h], h, Len(log))
    BY <1>0, <1>1, <1>2, Zenon DEF LocalOK, AppliedOK
  <2>2. ASSUME NEW h \in DOMAIN cache'[p] \ todo'[p], pc[p] = "apply"
        PROVE  Covers(log, cache'[p][h], h, Len(log))
    BY <1>0, <1>1, <1>2, <2>2, ZenonT(60) DEF LocalOK, AppliedOK
  <2> QED  BY <1>1, <2>1, <2>2, Zenon DEF AppliedOK
<1>8. JobOK(p)' /\ TargetOK(p)'
  BY <1>0, <1>1, SMTT(30) DEF LocalOK, JobOK, TargetOK, Writing
<1>9. ViewOK(p)'
  <2> DEFINE np == cache'[p][g]
  <2>1. /\ view[p] # NoView => Covers(log, np, g, view[p].last)
        /\ Covers(log, np, g, ownPub[p])
        /\ snap[p] # NoSnap => Covers(log, np, g, snap[p])
    BY <1>0, <1>2, FreshPage, SMTT(30)
  <2> QED  BY <1>0, <1>1, <1>2, <2>1, SMTT(30) DEF LocalOK, ViewOK, NoView, NoSnap
<1> QED  BY <1>1, <1>4, <1>5, <1>6, <1>7, <1>8, <1>9, StepOf, SMTT(30) DEF LocalOK, PageInvariant

\* A step that forces pages or publishes.
LEMMA PagesForced ==
    ASSUME CommitInvariant, PageInvariant, NEW p \in Participants, Frame(p),
           UNCHANGED <<log, os>>, \A g \in Pages : disk'[g] \in {disk[g], os[g]},
           pub'.last \in Nat, pub.last <= pub'.last, pc[p] \in Inside \/ pub' = pub,
           cache'[p] \in {cache[p], NoCache},
           \A g \in Pages : Covers(log, disk'[g], g, pub'.ckpt)
    PROVE  Grows(p) /\ Contents'
<1>1. \A g \in Pages : /\ os[g].lsn \in Nat /\ disk[g].lsn \in Nat /\ disk[g].lsn <= os[g].lsn
                       /\ os[g].lsn <= os[g].lsn /\ disk[g].lsn <= disk[g].lsn
  BY LsnTypes DEF PageInvariant, Contents
<1>2. Len(log) \in Nat /\ Len(log) <= Len(log)
  BY PageTypes
<1>3. Grows(p)
  BY <1>1, <1>2, ZenonT(60) DEF Grows, Agree
<1>4. \A q \in Participants : \A g \in DOMAIN cache'[q] :
          Exact(log, cache'[q][g], g) /\ cache'[q][g].lsn <= os[g].lsn
  BY DEF Frame, NoCache, PageInvariant, Contents
<1>5. \A g \in Pages : Exact(log, disk'[g], g) /\ disk'[g].lsn <= os[g].lsn
  BY <1>1, Zenon DEF PageInvariant, Contents
<1> QED  BY <1>3, <1>4, <1>5, ZenonT(60) DEF PageInvariant, Contents

\* The end of the log is published once no page of it is owed any more.
LEMMA PublicationKept ==
    ASSUME CommitInvariant, PageInvariant, NEW p \in Participants,
           PublishGap(p) \/ PublishCommit(p) \/ FinishRecovery(p)
    PROVE  PageInvariant'
<1>0. /\ LocalOK(p) /\ Len(log) \in Nat /\ pub.last \in Nat /\ pub.last <= Len(log)
      /\ pub.ckpt \in Nat /\ pub.ckpt <= pub.last
      /\ pc \in [Participants -> Phases] /\ job \in [Participants -> Jobs]
      /\ snap \in [Participants -> 0 .. NoSnap] /\ ownPub \in [Participants -> 0 .. MaxLsn]
      /\ Len(log) \in 0 .. MaxLsn /\ 0 \in 0 .. MaxLsn
  BY PageTypes, BoundIsNatural DEF PageInvariant
<1>1. /\ UNCHANGED <<log, os, floor, view, cache, acked, durable, todo>>
      /\ todo[p] = {} /\ pc[p] \in {"redo", "apply"}
      /\ pub'.last = Len(log) /\ pub'.ckpt = pub.ckpt
      /\ \A g \in Pages : disk'[g] \in {disk[g], os[g]}
  BY <1>0 DEF PublishGap, PublishCommit, FinishRecovery, LeaveSection, GapOpen, memory
<1>2. Frame(p)
  BY <1>0, <1>1 DEF PublishGap, PublishCommit, FinishRecovery, LeaveSection, Frame, memory
<1>3. \A g \in Pages : Covers(log, disk'[g], g, pub.ckpt)
  <2> TAKE g \in Pages
  <2>1. /\ os[g].lsn \in Nat /\ disk[g].lsn \in Nat /\ disk[g].lsn <= os[g].lsn
        /\ disk[g].lsn <= disk[g].lsn /\ Covers(log, disk[g], g, pub.ckpt)
    BY LsnTypes DEF PageInvariant, Contents
  <2>2. Covers(log, os[g], g, pub.ckpt)
    BY <1>0, <2>1, CoversLess
  <2> QED  BY <1>1, <2>1, <2>2, Zenon
<1>4. pc[p] \in Inside /\ pc[p] \in Writing
  BY <1>1, Zenon DEF Inside, Writing
<1>5. Grows(p) /\ Contents'
  BY <1>0, <1>1, <1>2, <1>3, <1>4, PagesForced, ZenonT(60)
<1>6. PublishedIn'
  <2>1. \A g \in Pages : Covers(log, os[g], g, Len(log))
    BY <1>0, <1>1, <1>4, ZenonT(60) DEF LocalOK, AppliedOK
  <2> QED  BY <1>1, <2>1, Zenon DEF PublishedIn
<1>7. \/ pc'[p] = "ready" /\ job'[p] = job[p] /\ job[p] # "recover" /\ pc[p] = "redo"
      \/ pc'[p] = "idle" /\ job'[p] = "none"
  BY <1>0, Zenon DEF PublishGap, PublishCommit, FinishRecovery, LeaveSection
<1>8. JobOK(p)' /\ AppliedOK(p)'
  BY <1>7, Zenon DEF JobOK, AppliedOK, Writing
<1>9. TargetOK(p)'
  <2>1. ASSUME job'[p] = "finish"
        PROVE  /\ floor[p].last <= pub'.last
               /\ \A g \in Pages : disk'[g] = disk[g] /\ Covers(log, disk[g], g, floor[p].last)
    <3>1. job[p] = "finish" /\ floor[p].last <= pub.last /\ floor[p].last \in Nat
      BY <1>0, <1>7, <2>1, LsnTypes, ZenonT(60) DEF LocalOK, TargetOK
    <3>2. disk' = disk
      BY <1>0, <2>1, <3>1, ZenonT(60) DEF PublishGap, PublishCommit, FinishRecovery, LeaveSection
    <3> QED  BY <1>0, <1>1, <3>1, <3>2, SMTT(30) DEF LocalOK, TargetOK
  <2> QED  BY <1>1, <1>7, <2>1, ZenonT(60) DEF TargetOK
<1>10. /\ ownPub' \in [Participants -> 0 .. MaxLsn]
       /\ ownPub'[p] \in {0, ownPub[p]} \/ (ownPub'[p] = Len(log) /\ pc[p] = "apply")
       /\ snap'[p] \in {snap[p], NoSnap}
  BY <1>0, Zenon DEF PublishGap, PublishCommit, FinishRecovery, memory
<1>11. ViewOK(p)'
  <2>1. ViewOK(p) /\ ownPub[p] \in Nat /\ view[p].last \in Nat
    BY <1>0, BoundIsNatural, SMTT(30) DEF PageInvariant, LocalOK, State, NoView
  <2>2. /\ view'[p] # NoView => view'[p].ckpt <= view'[p].last /\ view'[p].last <= pub'.last
        /\ ownPub'[p] <= pub'.last
        /\ floor'[p].ckpt <= floor'[p].last
    BY <1>0, <1>1, <1>10, <2>1 DEF ViewOK
  <2>3. ASSUME NEW g \in DOMAIN cache[p]
        PROVE  Covers(log, cache[p][g], g, ownPub'[p])
    <3>1. pc[p] = "apply" => Covers(log, cache[p][g], g, Len(log))
      BY <1>0, <1>1, ZenonT(60) DEF LocalOK, AppliedOK
    <3> QED  BY <1>0, <1>10, <2>1, <3>1, CoversNothing, ZenonT(60) DEF ViewOK
  <2> QED  BY <1>1, <1>10, <2>1, <2>2, <2>3, ZenonT(60) DEF ViewOK, NoView, NoSnap
<1> QED  BY <1>0, <1>1, <1>2, <1>5, <1>6, <1>8, <1>9, <1>10, <1>11, StepOf, ZenonT(60)
         DEF LocalOK, PageInvariant

\* One durability barrier of a checkpoint outside the section.
LEMMA SyncKept ==
    ASSUME CommitInvariant, PageInvariant, NEW p \in Participants, NEW g \in Pages, SyncPage(p, g)
    PROVE  PageInvariant'
<1>0. /\ LocalOK(p) /\ pub.last \in Nat /\ pub.last <= pub.last /\ Len(log) \in Nat
      /\ pub.ckpt \in Nat /\ pub.ckpt <= pub.last /\ floor[p].last \in Nat
      /\ pc \in [Participants -> Phases] /\ job \in [Participants -> Jobs]
      /\ todo \in [Participants -> SUBSET Pages] /\ disk \in [Pages -> Page]
  BY PageTypes, LsnTypes DEF PageInvariant
<1>1. /\ UNCHANGED <<log, pub, os, snap, floor, view, cache, ownPub, acked, durable>>
      /\ pc[p] = "sync" /\ g \in todo[p] /\ todo'[p] = todo[p] \ {g}
      /\ disk'[g] = os[g] /\ \A h \in Pages : h # g => disk'[h] = disk[h]
      /\ \/ todo[p] = {g} /\ pc'[p] = "idle" /\ job'[p] = "finish"
         \/ todo[p] # {g} /\ pc'[p] = "sync" /\ job'[p] = "checkpoint"
  BY <1>0, Zenon DEF SyncPage, memory
<1>2. Frame(p)
  BY <1>0, <1>1, Zenon DEF SyncPage, Frame
<1>3. Reopened(p) /\ floor[p].last <= pub.last
  BY <1>0, <1>1, Zenon DEF Reopened, LocalOK, JobOK, TargetOK
<1>4. \A h \in Pages : Covers(log, os[h], h, pub.last)
  BY <1>3, Zenon DEF PageInvariant, PublishedIn
<1>5. Covers(log, os[g], g, pub.ckpt) /\ Covers(log, os[g], g, floor[p].last)
  <2>1. os[g].lsn \in Nat /\ os[g].lsn <= os[g].lsn
    BY LsnTypes
  <2> QED  BY <1>0, <1>3, <1>4, <2>1, CoversLess, SMTT(30)
<1>6. \A h \in Pages : disk'[h] \in {disk[h], os[h]} /\ Covers(log, disk'[h], h, pub.ckpt)
  BY <1>1, <1>5, ZenonT(60) DEF PageInvariant, Contents
<1>7. Grows(p) /\ Contents'
  BY <1>0, <1>1, <1>2, <1>6, PagesForced
<1>8. PublishedIn'
  BY <1>1, <1>4, Zenon DEF PublishedIn
<1>9. JobOK(p)' /\ AppliedOK(p)'
  BY <1>1, Zenon DEF JobOK, AppliedOK, Writing
<1>10. TargetOK(p)'
  <2>1. \A h \in Pages \ todo'[p] : Covers(log, disk'[h], h, floor[p].last)
    BY <1>0, <1>1, <1>5, Zenon DEF LocalOK, TargetOK
  <2> QED  BY <1>1, <1>3, <2>1, Zenon DEF TargetOK
<1>11. ViewOK(p)'
  BY <1>0, <1>1, ZenonT(60) DEF LocalOK, ViewOK, NoView, NoSnap
<1> QED  BY <1>1, <1>2, <1>7, <1>8, <1>9, <1>10, <1>11, StepOf, SMTT(30) DEF LocalOK, PageInvariant

\* A checkpoint publishes a position every forced page has reached.
LEMMA CheckpointKept ==
    ASSUME CommitInvariant, PageInvariant, NEW p \in Participants,
           NEW pruned \in SUBSET (Participants \ {p}), NEW cut \in first .. MaxLsn,
           FinishCheckpoint(p, pruned, cut) \/ CheckpointInSection(p, pruned, cut)
    PROVE  PageInvariant'
<1>0. /\ LocalOK(p) /\ pub.last \in Nat /\ pub.last <= pub.last /\ Len(log) \in Nat
      /\ pub.ckpt \in Nat /\ pub.ckpt <= pub.last /\ floor[p].last \in Nat /\ pub \in State
      /\ pc \in [Participants -> Phases] /\ job \in [Participants -> Jobs]
      /\ floor \in [Participants -> State] /\ cache \in [Participants -> Caches]
      /\ view \in [Participants -> State \cup {NoView}]
      /\ ownPub \in [Participants -> 0 .. MaxLsn] /\ 0 \in 0 .. MaxLsn
  BY PageTypes, LsnTypes, BoundIsNatural DEF PageInvariant
<1>1. /\ UNCHANGED <<log, os, snap, acked, durable, todo>> /\ pub'.last = pub.last
      /\ pc'[p] = "idle" /\ job'[p] = "none" /\ pc[p] \in {"ready", "freeze"}
      /\ ownPub' = [ownPub EXCEPT ![p] = 0]
      /\ \A q \in Participants \ {p} : pc'[q] = pc[q] /\ job'[q] = job[q]
  <2>1. /\ UNCHANGED <<log, os, snap, acked, durable, todo>> /\ pc[p] \in {"ready", "freeze"}
        /\ \E c \in {CheckpointTarget(p), pub.last} : pub' = [last |-> pub.last, ckpt |-> c]
        /\ ownPub' = [ownPub EXCEPT ![p] = 0] /\ LeaveSection(p)
    BY Zenon DEF FinishCheckpoint, CheckpointInSection, PublishCheckpoint
  <2>2. pub'.last = pub.last
    <3>1. PICK c : pub' = [last |-> pub.last, ckpt |-> c]
      BY <2>1, Zenon
    <3> QED  BY <3>1
  <2>3. pc' = [pc EXCEPT ![p] = "idle"] /\ job' = [job EXCEPT ![p] = "none"]
    BY <2>1, Zenon DEF LeaveSection
  <2> QED  BY <1>0, <2>1, <2>2, <2>3, ZenonT(60)
<1>2. /\ view'[p] \in {view[p], pub} /\ cache'[p] \in {cache[p], NoCache}
      /\ floor'[p] \in {floor[p], [last |-> 0, ckpt |-> 0]}
      /\ view' \in [Participants -> State \cup {NoView}]
      /\ view'[p] # view[p] => cache'[p] = NoCache
      /\ \A q \in Participants \ {p} : /\ view'[q] = view[q] /\ cache'[q] = cache[q]
                                       /\ floor'[q] = floor[q]
  BY <1>0, ZenonT(40) DEF FinishCheckpoint, CheckpointInSection
<1>3. Frame(p) /\ pc[p] \in Inside
  BY <1>0, <1>1, <1>2, Zenon DEF Frame, Inside
<1>4. Reopened(p)
  BY <1>0, <1>1, Zenon DEF Reopened, LocalOK, JobOK
<1>5. \A h \in Pages : Covers(log, os[h], h, pub.last)
  BY <1>4, Zenon DEF PageInvariant, PublishedIn
<1>6. \A h \in Pages : disk'[h] \in {disk[h], os[h]} /\ Covers(log, disk'[h], h, pub'.ckpt)
  <2>1. CASE FinishCheckpoint(p, pruned, cut)
    <3>0. /\ disk' = disk /\ job[p] = "finish"
          /\ pub' = [last |-> pub.last, ckpt |-> CheckpointTarget(p)]
      BY <2>1, Zenon DEF FinishCheckpoint, PublishCheckpoint
    <3>1. disk' = disk /\ job[p] = "finish" /\ pub'.ckpt \in {pub.ckpt, floor[p].last}
      BY <3>0, Zenon DEF CheckpointTarget, Larger
    <3>2. \A h \in Pages : /\ Covers(log, disk[h], h, floor[p].last)
                           /\ Covers(log, disk[h], h, pub.ckpt)
      BY <1>0, <3>1, Zenon DEF LocalOK, TargetOK, PageInvariant, Contents
    <3> QED  BY <3>1, <3>2, Zenon
  <2>2. CASE CheckpointInSection(p, pruned, cut)
    <3>1. disk' = os /\ pub' = [last |-> pub.last, ckpt |-> pub.last]
      BY <2>2, Zenon DEF CheckpointInSection, PublishCheckpoint
    <3> QED  BY <1>5, <3>1, Zenon
  <2> QED  BY <2>1, <2>2, Zenon
<1>7. Grows(p) /\ Contents'
  BY <1>0, <1>1, <1>2, <1>3, <1>6, PagesForced, ZenonT(40)
<1>8. PublishedIn'
  BY <1>1, <1>5, Zenon DEF PublishedIn
<1>9. JobOK(p)' /\ AppliedOK(p)' /\ TargetOK(p)'
  BY <1>1, Zenon DEF JobOK, AppliedOK, TargetOK, Writing
<1>10. ownPub'[p] = 0 /\ ownPub' \in [Participants -> 0 .. MaxLsn]
       /\ \A q \in Participants \ {p} : ownPub'[q] = ownPub[q]
  BY <1>0, <1>1, Zenon
<1>11. ViewOK(p)'
  <2>1. ViewOK(p) /\ DOMAIN NoCache = {}
    BY <1>0 DEF LocalOK, NoCache
  <2>2. /\ floor'[p].ckpt <= floor'[p].last /\ ownPub'[p] <= pub'.last
        /\ view'[p] # NoView => view'[p].ckpt <= view'[p].last /\ view'[p].last <= pub'.last
    <3>1. floor'[p].ckpt <= floor'[p].last
      <4>1. CASE floor'[p] = floor[p]
        BY <2>1, <4>1, Zenon DEF ViewOK
      <4>2. CASE floor'[p] = [last |-> 0, ckpt |-> 0]
        BY <4>2
      <4> QED  BY <1>2, <4>1, <4>2, Zenon
    <3>2. view'[p] # NoView => view'[p].ckpt <= view'[p].last /\ view'[p].last <= pub'.last
      BY <1>0, <1>1, <1>2, <2>1, ZenonT(60) DEF ViewOK
    <3>3. ownPub'[p] <= pub'.last
      BY <1>0, <1>1, <1>10, SMTT(30)
    <3> QED  BY <3>1, <3>2, <3>3, Zenon
  <2>3. ASSUME NEW h \in DOMAIN cache'[p]
        PROVE  /\ view'[p] # NoView => Covers(log, cache'[p][h], h, view'[p].last)
               /\ Covers(log, cache'[p][h], h, ownPub'[p])
               /\ snap[p] # NoSnap => Covers(log, cache'[p][h], h, snap[p])
    BY <1>0, <1>2, <1>10, <2>1, CoversNothing DEF ViewOK
  <2> QED  BY <1>1, <2>2, <2>3, Zenon DEF ViewOK, NoView, NoSnap
<1> QED  BY <1>1, <1>2, <1>3, <1>7, <1>8, <1>9, <1>10, <1>11, StepOf, SMTT(30) DEF LocalOK, PageInvariant

-----------------------------------------------------------------------------
(* The append of a batch and the loss of power.                               *)

\* The base a commit writes a row over, after its read view has moved to the
\* published state, is the newest version of the page.
LEMMA BaseIsNewest ==
    ASSUME CommitInvariant, PageInvariant, NEW p \in Participants, Reopened(p),
           Len(log) = pub.last, NEW g, g \in Pages \/ g \in DOMAIN Refreshed(p, pub)
    PROVE  LET pg == Pinned(p, Refreshed(p, pub), g)
           IN  /\ pg \in Page /\ pg.lsn \in Nat /\ Exact(log, pg, g) /\ pg.lsn <= os[g].lsn
               /\ g \in Pages /\ Covers(log, pg, g, Len(log))
<1>1. /\ pub \in State /\ pub.ckpt <= pub.last /\ pub.last <= pub.last
      /\ os \in [Pages -> Page]
  BY PageTypes
<1>2. \A h \in DOMAIN Refreshed(p, pub) :
          /\ h \in DOMAIN cache[p] /\ Refreshed(p, pub)[h] = cache[p][h]
          /\ Covers(log, Refreshed(p, pub)[h], h, pub.last)
  BY <1>1, RefreshedCovers, Zenon
<1>3. \A h \in Pages : Covers(log, os[h], h, pub.last)
  BY Zenon DEF PageInvariant, PublishedIn
<1>4. CASE g \in DOMAIN Refreshed(p, pub)
  <2>1. g \in DOMAIN cache[p] /\ Pinned(p, Refreshed(p, pub), g) = cache[p][g]
    BY <1>2, <1>4, Zenon DEF Pinned
  <2>2. Covers(log, cache[p][g], g, Len(log))
    BY <1>2, <1>4, Zenon
  <2> QED  BY <2>1, <2>2, LsnTypes DEF PageInvariant, Contents
<1>5. CASE g \notin DOMAIN Refreshed(p, pub)
  <2>1. g \in Pages /\ Pinned(p, Refreshed(p, pub), g) = os[g]
    BY <1>5, Zenon DEF Pinned
  <2>2. os[g].lsn \in Nat /\ os[g].lsn <= os[g].lsn
    BY <2>1, LsnTypes
  <2> QED  BY <1>1, <1>3, <2>1, <2>2 DEF PageInvariant, Contents
<1> QED  BY <1>4, <1>5, Zenon

\* The images of the new batch hold every earlier commit to their page.
LEMMA ImageExact ==
    ASSUME NEW l, NEW pg, NEW b, NEW g, Len(log) \in Nat, Agree(log, l, Len(log)),
           Len(l) = Len(log) + 1, l[Len(log) + 1] = b, g \in DOMAIN b.img,
           pg.lsn \in Nat, pg.lsn <= Len(log), Exact(log, pg, g), Covers(log, pg, g, Len(log)),
           b.img[g] = [lsn |-> Len(log) + 1, has |-> pg.has \cup {Len(log) + 1}]
    PROVE  Exact(l, b.img[g], g)
<1> DEFINE n == Len(log) + 1
<1>1. pg.has = Writers(log, g, Len(log))
  BY DEF Exact, Covers, Writers
<1>2. Writers(log, g, Len(log)) = Writers(l, g, Len(log))
  BY AgreedWriters
<1>3. Writers(l, g, n) = Writers(l, g, Len(log)) \cup {n}
  BY DEF Writers
<1> QED  BY <1>1, <1>2, <1>3 DEF Exact

\* Appending a batch to the log keeps the invariant: no page covers it yet.
LEMMA AppendKept ==
    ASSUME CommitInvariant, PageInvariant, NEW p \in Participants, Appends(p)
    PROVE  PageInvariant'
<1>1. PICK t \in Workload[Len(log) + 1] : AppendBatch(p, t)
  BY Zenon DEF Appends
<1> DEFINE b == NewBatch(p, t)
           c == Refreshed(p, pub)
           gs == PagesOf(t.writes)
<1>0. /\ Len(log) \in Nat /\ pub.last \in Nat /\ log \in Seq(Batch) /\ durable <= Len(log)
      /\ durable \in Nat /\ pub \in State /\ pub.ckpt <= pub.last /\ pub.last <= pub.last
      /\ pc \in [Participants -> Phases] /\ cache \in [Participants -> Caches]
      /\ view \in [Participants -> State \cup {NoView}]
      /\ ownPub \in [Participants -> 0 .. MaxLsn]
  BY PageTypes DEF PageInvariant
<1>2. /\ pc[p] = "ready" /\ job[p] = "commit" /\ pc'[p] = "appended"
      /\ UNCHANGED <<pub, os, disk, job, todo, snap, floor, acked, durable>>
      /\ view' = [view EXCEPT ![p] = pub]
      /\ ownPub' = [ownPub EXCEPT ![p] = OwnAfter(p, pub)]
      /\ cache' = [cache EXCEPT ![p] = [g \in DOMAIN c \cup gs |-> Pinned(p, c, g)]]
      /\ \A q \in Participants \ {p} : pc'[q] = pc[q]
  BY <1>0, <1>1, Zenon DEF AppendBatch
<1>3. Len(log) = pub.last /\ Reopened(p) /\ pc[p] \in Inside
  BY <1>2, Zenon DEF CommitInvariant, SectionHeld, Reopened, Inside
<1>4. gs \in SUBSET Pages
  <2>1. Len(log) + 1 \in 1 .. MaxLsn
    BY <1>0, BoundIsNatural DEF Appends
  <2>2. t.writes \in SUBSET Keys
    BY <2>1, CommitAssumption
  <2> QED  BY <2>2, CommitAssumption, Zenon DEF PagesOf
<1>5. \A g \in DOMAIN c \cup gs :
          /\ Pinned(p, c, g).lsn \in Nat /\ Exact(log, Pinned(p, c, g), g)
          /\ Pinned(p, c, g).lsn <= os[g].lsn /\ g \in Pages
          /\ Covers(log, Pinned(p, c, g), g, Len(log))
  BY <1>3, <1>4, BaseIsNewest, Zenon
<1>6. log' = Append(log, b) /\ b \in Batch /\ b.img = [g \in gs |->
         [lsn |-> Len(log) + 1, has |-> Pinned(p, c, g).has \cup {Len(log) + 1}]]
  BY <1>1, AppendedBatch, Zenon DEF Appends, NewBatch
<1>7. OwnAfter(p, pub) \in {0, pub.last} /\ OwnAfter(p, pub) \in 0 .. MaxLsn
  BY <1>0, BoundIsNatural DEF OwnAfter
<1> HIDE DEF b, c, gs
<1>8. /\ Len(log') = Len(log) + 1 /\ log'[Len(log) + 1] = b
      /\ \A m \in 1 .. Len(log) : log'[m] = log[m]
  BY <1>0, <1>6, AppendFacts
<1>9. Agree(log, log', Len(log))
  BY <1>0, <1>8 DEF Agree
<1>10. /\ view'[p] = pub /\ ownPub'[p] = OwnAfter(p, pub)
       /\ DOMAIN cache'[p] = DOMAIN c \cup gs
       /\ \A g \in DOMAIN cache'[p] : cache'[p][g] = Pinned(p, c, g)
       /\ view' \in [Participants -> State \cup {NoView}]
       /\ ownPub' \in [Participants -> 0 .. MaxLsn]
  BY <1>0, <1>2, <1>7, Zenon
<1>11. Frame(p)
  BY <1>0, <1>2, Zenon DEF Frame
<1>12. Grows(p)
  <2>1. \A g \in Pages : os[g].lsn <= os[g].lsn /\ disk[g].lsn <= disk[g].lsn
    BY LsnTypes
  <2> QED  BY <1>0, <1>2, <1>3, <1>9, <2>1, LsnTypes, SMTT(30) DEF Grows
<1>13. \A n \in Nat : \A g, pg : n <= Len(log) =>
           (Covers(log, pg, g, n) <=> Covers(log', pg, g, n))
  BY <1>0, <1>9, AgreedCovers, Zenon
<1>14. \A g, pg : pg.lsn \in Nat /\ pg.lsn <= Len(log) /\ Exact(log, pg, g) => Exact(log', pg, g)
  BY <1>0, <1>9, AgreedExact, Zenon
<1>15. \A g \in Pages : /\ os[g].lsn \in Nat /\ os[g].lsn <= Len(log)
                        /\ disk[g].lsn \in Nat /\ disk[g].lsn <= Len(log)
  <2> TAKE g \in Pages
  <2>1. os[g].lsn <= durable /\ disk[g].lsn <= durable
    BY Zenon DEF CommitInvariant, PagesBehind
  <2> QED  BY <1>0, <2>1, LsnTypes
<1>16. Contents'
  <2>1. ASSUME NEW n \in 1 .. Len(log'), NEW g \in DOMAIN log'[n].img
        PROVE  Exact(log', log'[n].img[g], g)
    <3>1. CASE n \in 1 .. Len(log)
      <4>1. log'[n] = log[n] /\ g \in DOMAIN log[n].img
        BY <1>8, <3>1, Zenon
      <4>2. Exact(log, log[n].img[g], g) /\ log[n].img[g].lsn = n
        BY <3>1, <4>1, Zenon DEF PageInvariant, Contents, CommitInvariant, LogWellFormed
      <4> DEFINE pg == log[n].img[g]
      <4>3. pg.lsn \in Nat /\ pg.lsn <= Len(log) /\ Exact(log, pg, g)
        BY <1>0, <3>1, <4>2
      <4> HIDE DEF pg
      <4>4. Exact(log', pg, g)
        BY <1>14, <4>3, Zenon
      <4> QED  BY <4>1, <4>4, Zenon DEF pg
    <3>2. CASE n = Len(log) + 1
      <4>1. log'[n] = b /\ g \in DOMAIN b.img /\ g \in gs
        BY <1>6, <1>8, <3>2, Zenon
      <4> DEFINE pg == Pinned(p, c, g)
      <4>2. /\ b.img[g] = [lsn |-> Len(log) + 1, has |-> pg.has \cup {Len(log) + 1}]
            /\ pg.lsn \in Nat /\ Exact(log, pg, g) /\ Covers(log, pg, g, Len(log))
            /\ pg.lsn <= os[g].lsn /\ g \in Pages
        BY <1>5, <1>6, <4>1, ZenonT(60)
      <4> HIDE DEF pg
      <4>3. pg.lsn <= Len(log)
        BY <1>0, <1>15, <4>2
      <4> QED  BY <1>0, <1>8, <1>9, <4>1, <4>2, <4>3, ImageExact, ZenonT(60)
    <3> QED  BY <1>0, <1>8, <3>1, <3>2
  <2>2. ASSUME NEW g \in Pages
        PROVE  /\ Exact(log', os[g], g) /\ Exact(log', disk[g], g) /\ disk[g].lsn <= os[g].lsn
               /\ Covers(log', disk[g], g, pub.ckpt)
    <3>1. /\ Exact(log, os[g], g) /\ Exact(log, disk[g], g) /\ disk[g].lsn <= os[g].lsn
          /\ Covers(log, disk[g], g, pub.ckpt)
      BY Zenon DEF PageInvariant, Contents
    <3>2. pub.ckpt \in Nat /\ pub.ckpt <= Len(log)
      BY PageTypes
    <3> QED  BY <1>13, <1>14, <1>15, <3>1, <3>2, ZenonT(60)
  <2>3. ASSUME NEW q \in Participants, NEW g \in DOMAIN cache'[q]
        PROVE  Exact(log', cache'[q][g], g) /\ cache'[q][g].lsn <= os[g].lsn
    <3>1. /\ g \in Pages /\ cache'[q][g].lsn \in Nat /\ Exact(log, cache'[q][g], g)
          /\ cache'[q][g].lsn <= os[g].lsn
      <4>1. CASE q = p
        BY <1>5, <1>10, <2>3, <4>1, ZenonT(60)
      <4>2. CASE q # p
        BY <1>11, <2>3, <4>2, LsnTypes, SMTT(30) DEF Frame, PageInvariant, Contents
      <4> QED  BY <4>1, <4>2, Zenon
    <3>2. cache'[q][g].lsn <= Len(log)
      BY <1>0, <1>15, <3>1
    <3> QED  BY <1>14, <3>1, <3>2, Zenon
  <2> QED  BY <1>2, <2>1, <2>2, <2>3, ZenonT(60) DEF Contents
<1>17. PublishedIn'
  <2>1. \A g \in Pages : Covers(log', os[g], g, pub.last)
    BY <1>0, <1>3, <1>13, Zenon DEF PageInvariant, PublishedIn
  <2> QED  BY <1>2, <2>1, Zenon DEF PublishedIn
<1>18. JobOK(p)' /\ AppliedOK(p)' /\ TargetOK(p)'
  BY <1>2, <1>3, <1>8, <1>10, ZenonT(60) DEF JobOK, AppliedOK, TargetOK, Writing
<1>19. ViewOK(p)'
  <2>1. floor[p].ckpt <= floor[p].last /\ OwnAfter(p, pub) <= pub.last
    BY <1>0, <1>7 DEF PageInvariant, LocalOK, ViewOK
  <2>2. ASSUME NEW g \in DOMAIN cache'[p], NEW n \in Nat, n <= pub.last
        PROVE  Covers(log', cache'[p][g], g, n)
    <3>1. /\ cache'[p][g].lsn \in Nat /\ cache'[p][g].lsn <= cache'[p][g].lsn
          /\ Covers(log, cache'[p][g], g, Len(log))
      BY <1>5, <1>10
    <3>2. Covers(log, cache'[p][g], g, n)
      BY <1>0, <1>3, <2>2, <3>1, CoversLess, SMTT(30)
    <3> QED  BY <1>0, <1>3, <1>13, <2>2, <3>2, SMTT(30)
  <2>3. OwnAfter(p, pub) \in Nat /\ (snap[p] # NoSnap => snap[p] \in Nat /\ snap[p] <= pub.last)
    BY <1>0, <1>7, LsnTypes
  <2> QED  BY <1>0, <1>2, <1>10, <2>1, <2>2, <2>3, ZenonT(40) DEF ViewOK, NoView, NoSnap
<1> QED  BY <1>2, <1>10, <1>11, <1>12, <1>16, <1>17, <1>18, <1>19, StepOf, ZenonT(60)
            DEF LocalOK, PageInvariant

\* A power loss leaves of each page a version that is exact and has reached the
\* checkpoint, and of the log a prefix that still holds those versions' commits.
LEMMA PowerLossKept ==
    ASSUME CommitInvariant, PageInvariant, PowerLoss
    PROVE  PageInvariant'
<1>0. /\ Len(log) \in Nat /\ durable \in Nat /\ durable <= Len(log) /\ log \in Seq(Batch)
      /\ pub.last \in Nat /\ pub.last <= durable /\ pub.ckpt \in Nat /\ pub.ckpt <= pub.last
  BY PageTypes, Zenon
<1>1. PICK n \in durable .. Len(log) : log' = SubSeq(log, 1, n) /\ durable' = n
  BY Zenon DEF PowerLoss
<1>2. Len(log') = n /\ \A m \in 1 .. n : log'[m] = log[m]
  BY <1>0, <1>1
<1>3. n \in Nat /\ durable <= n /\ n <= Len(log) /\ Agree(log, log', n)
  BY <1>0, <1>1, <1>2 DEF Agree
<1>4. \A g \in Pages : os'[g] \in Survivors(g) /\ disk'[g] = os'[g]
  BY Zenon DEF PowerLoss
<1>5. ASSUME NEW g \in Pages
      PROVE  /\ os'[g].lsn \in Nat /\ os'[g].lsn <= n /\ disk[g].lsn <= os'[g].lsn
             /\ Exact(log, os'[g], g)
  <2>1. /\ disk[g].lsn \in Nat /\ disk[g].lsn <= durable /\ os[g].lsn <= durable
        /\ os[g].lsn \in Nat /\ Exact(log, disk[g], g) /\ disk[g].lsn <= disk[g].lsn
    BY LsnTypes DEF CommitInvariant, PagesBehind, PageInvariant, Contents
  <2>2. CASE os'[g] = disk[g]
    BY <1>0, <1>3, <2>1, <2>2, SMTT(30)
  <2>3. ASSUME NEW m \in WritersOf(g, Len(log)), disk[g].lsn < m, m <= os[g].lsn,
               os'[g] = log[m].img[g]
        PROVE  /\ os'[g].lsn \in Nat /\ os'[g].lsn <= n /\ disk[g].lsn <= os'[g].lsn
               /\ Exact(log, os'[g], g)
    <3>1. m \in 1 .. Len(log) /\ g \in DOMAIN log[m].img
      BY Zenon DEF WritersOf
    <3>2. log[m].img[g].lsn = m /\ Exact(log, log[m].img[g], g)
      BY <3>1, Zenon DEF CommitInvariant, LogWellFormed, PageInvariant, Contents
    <3> QED  BY <1>0, <1>3, <2>1, <2>3, <3>1, <3>2, SMTT(30)
  <2>4. os'[g] \in Survivors(g)
    BY <1>4, Zenon
  <2> QED  BY <2>2, <2>3, <2>4, ZenonT(60) DEF Survivors
<1>6. /\ pub' = pub /\ acked' = acked
      /\ pc' = [p \in Participants |-> "closed"] /\ job' = [p \in Participants |-> "none"]
      /\ snap' = [p \in Participants |-> NoSnap] /\ view' = [p \in Participants |-> NoView]
      /\ floor' = [p \in Participants |-> [last |-> 0, ckpt |-> 0]]
      /\ cache' = [p \in Participants |-> NoCache] /\ ownPub' = [p \in Participants |-> 0]
  BY Zenon DEF PowerLoss, Forget
<1>7. \A p \in Participants : DOMAIN cache'[p] = {}
  BY <1>6, Zenon DEF NoCache
<1>8. Contents'
  <2>1. ASSUME NEW m \in 1 .. Len(log'), NEW g \in DOMAIN log'[m].img
        PROVE  Exact(log', log'[m].img[g], g)
    <3>1. m \in 1 .. Len(log) /\ log'[m] = log[m] /\ m <= n /\ m \in Nat
      BY <1>0, <1>2, <1>3
    <3>2. Exact(log, log[m].img[g], g) /\ log[m].img[g].lsn = m
      BY <3>1, Zenon DEF PageInvariant, Contents, CommitInvariant, LogWellFormed
    <3> QED  BY <1>3, <3>1, <3>2, AgreedExact, ZenonT(60)
  <2>2. ASSUME NEW g \in Pages
        PROVE  /\ Exact(log', os'[g], g) /\ Exact(log', disk'[g], g)
               /\ disk'[g].lsn <= os'[g].lsn /\ Covers(log', disk'[g], g, pub.ckpt)
    <3>1. /\ os'[g].lsn \in Nat /\ os'[g].lsn <= n /\ disk[g].lsn <= os'[g].lsn
          /\ Exact(log, os'[g], g) /\ disk[g].lsn \in Nat
      BY <1>5, LsnTypes, Zenon
    <3>2. Exact(log', os'[g], g)
      BY <1>3, <3>1, AgreedExact, ZenonT(60)
    <3>3. Covers(log, disk[g], g, pub.ckpt) /\ pub.ckpt <= pub.ckpt /\ pub.ckpt <= n
      BY <1>0, <1>3 DEF PageInvariant, Contents
    <3>4. Covers(log, os'[g], g, pub.ckpt)
      BY <1>0, <3>1, <3>3, CoversLess, ZenonT(60)
    <3>5. Covers(log', os'[g], g, pub.ckpt)
      BY <1>0, <1>3, <3>3, <3>4, AgreedCovers, ZenonT(60)
    <3> QED  BY <1>4, <3>1, <3>2, <3>5
  <2> QED  BY <1>6, <1>7, <2>1, <2>2, ZenonT(60) DEF Contents
<1>9. PublishedIn'
  BY <1>6, ZenonT(60) DEF PublishedIn, Reopened
<1>10. \A p \in Participants : LocalOK(p)'
  <2> TAKE p \in Participants
  <2>1. /\ pc'[p] = "closed" /\ job'[p] = "none" /\ snap'[p] = NoSnap /\ view'[p] = NoView
        /\ floor'[p] = [last |-> 0, ckpt |-> 0] /\ ownPub'[p] = 0 /\ 0 <= pub'.last
    BY <1>0, <1>6
  <2> QED  BY <1>7, <2>1 DEF LocalOK, JobOK, AppliedOK, TargetOK, ViewOK, Writing, NoView, NoSnap
<1>11. acked' \subseteq 1 .. durable'
  <2>1. 1 .. durable \subseteq 1 .. n
    BY <1>0, <1>3
  <2> QED  BY <1>1, <1>6, <2>1, Zenon DEF PageInvariant
<1> QED  BY <1>6, <1>8, <1>9, <1>10, <1>11, BoundIsNatural, SMTT(30) DEF PageInvariant

-----------------------------------------------------------------------------
(* Theorems. *)

\* Empty pages and an empty log satisfy the invariant.
LEMMA PagesInitially ==
    ASSUME Init
    PROVE  PageInvariant
<1>0. log = << >> /\ Len(log) = 0 /\ pub = [last |-> 0, ckpt |-> 0]
  BY Zenon DEF Init
<1>1. \A g, n : Writers(log, g, n) = {}
  BY <1>0 DEF Writers
<1>2. \A pg, g, n : Covers(log, pg, g, n)
  BY <1>1, Zenon DEF Covers
<1>3. \A g : Exact(log, NoPage, g)
  BY <1>1, Zenon DEF Exact, NoPage
<1>4. \A p \in Participants : DOMAIN cache[p] = {}
  BY Zenon DEF Init, NoCache
<1>5. Contents
  BY <1>0, <1>2, <1>3, <1>4 DEF Init, Contents, NoPage
<1>6. PublishedIn
  BY <1>2, Zenon DEF PublishedIn
<1>7. \A p \in Participants : LocalOK(p)
  <2> TAKE p \in Participants
  <2>1. /\ pc[p] = "idle" /\ job[p] = "none" /\ view[p] = NoView /\ ownPub[p] = 0
        /\ floor[p] = [last |-> 0, ckpt |-> 0]
    BY <1>0, Zenon DEF Init
  <2>2. JobOK(p) /\ AppliedOK(p) /\ TargetOK(p)
    BY <2>1, Zenon DEF JobOK, AppliedOK, TargetOK, Writing
  <2>3. ViewOK(p)
    BY <1>0, <1>4, <2>1 DEF ViewOK
  <2> QED  BY <2>2, <2>3, Zenon DEF LocalOK
<1> QED  BY <1>5, <1>6, <1>7, BoundIsNatural DEF Init, PageInvariant

\* The invariant is inductive, relative to CommitInvariant.
LEMMA PagesStep ==
    ASSUME CommitInvariant, PageInvariant, [Next]_vars
    PROVE  PageInvariant'
<1>1. CASE Next
  BY <1>1, EnteringKept, ForceTailKept, ApplyingKept, EndFreezeKept, BegunKept, LoadKept,
     FreezeKept, FailKept, WriteKept, PublicationKept, SyncKept, CheckpointKept, AppendKept,
     PowerLossKept, ZenonT(60)
     DEF Next, Appends
<1>2. CASE UNCHANGED vars
  BY <1>2, ZenonT(60)
     DEF vars, device, memory, counters, PageInvariant, Contents, PublishedIn, Reopened,
         LocalOK, JobOK, AppliedOK, TargetOK, ViewOK
<1> QED  BY <1>1, <1>2, Zenon

\* What the log, the page files, the device and the caches hold stays in the relations
\* commit, redo, checkpoint and read views rely on.
THEOREM PageInvariantHolds == Spec => [](CommitInvariant /\ PageInvariant)
<1>1. Init => PageInvariant
  BY PagesInitially, Zenon
<1>2. CommitInvariant /\ PageInvariant /\ [Next]_vars => PageInvariant'
  BY PagesStep, Zenon
<1> QED  BY <1>1, <1>2, CommitInvariantHolds, PTL DEF Spec

\* No commit is lost: every page image of the log holds all earlier commits to its
\* page, whatever was cached when it was built (_commit_with_writing).
THEOREM NoUpdateIsLost == Spec => []NoLostUpdate
<1>1. CommitInvariant /\ PageInvariant => NoLostUpdate
  <2> SUFFICES ASSUME CommitInvariant, PageInvariant, NEW n \in 1 .. Len(log),
                      NEW g \in DOMAIN log[n].img
               PROVE  log[n].img[g].has = WritersOf(g, n)
    BY Zenon DEF NoLostUpdate
  <2>1. log[n].img[g].lsn = n /\ Exact(log, log[n].img[g], g)
    BY Zenon DEF CommitInvariant, LogWellFormed, PageInvariant, Contents
  <2> QED  BY <2>1, Zenon DEF Exact, Writers, WritersOf
<1> QED  BY <1>1, PageInvariantHolds, PTL

\* A published commit is in the pages every process reads (apply before publish, redo
\* from the checkpoint).
THEOREM PublishedIsApplied == Spec => []PublishedApplied
<1>1. CommitInvariant /\ PageInvariant => PublishedApplied
  <2> SUFFICES ASSUME CommitInvariant, PageInvariant, NEW p \in Participants, Reopened(p),
                      NEW g \in Pages
               PROVE  WritersOf(g, pub.last) \subseteq os[g].has
    BY Zenon DEF PublishedApplied
  <2>1. Exact(log, os[g], g) /\ Covers(log, os[g], g, pub.last)
    BY Zenon DEF PageInvariant, Contents, PublishedIn
  <2>2. Writers(log, g, pub.last) \subseteq os[g].has
    BY <2>1, CoveredIsHeld, ZenonT(60)
  <2> QED  BY <2>2, Zenon DEF Writers, WritersOf
<1> QED  BY <1>1, PageInvariantHolds, PTL

\* Whatever page of an open transaction is resident holds every commit its snapshot
\* covers, however _establish_read_view came to keep it.
THEOREM SnapshotsAreComplete == Spec => []SnapshotComplete
<1>1. CommitInvariant /\ PageInvariant => SnapshotComplete
  <2> SUFFICES ASSUME CommitInvariant, PageInvariant, NEW p \in Participants, snap[p] # NoSnap,
                      NEW g \in DOMAIN cache[p]
               PROVE  WritersOf(g, snap[p]) \subseteq cache[p][g].has
    BY Zenon DEF SnapshotComplete
  <2>1. Exact(log, cache[p][g], g) /\ Covers(log, cache[p][g], g, snap[p])
    BY Zenon DEF PageInvariant, Contents, LocalOK, ViewOK
  <2>2. Writers(log, g, snap[p]) \subseteq cache[p][g].has
    BY <2>1, CoveredIsHeld, ZenonT(60)
  <2> QED  BY <2>2, Zenon DEF Writers, WritersOf
<1> QED  BY <1>1, PageInvariantHolds, PTL

\* A reported commit survives a power loss: below the checkpoint it is in the forced
\* pages, above it in the forced and retained log.
THEOREM AckedSurvives == Spec => []AckedRecoverable
<1>1. CommitInvariant /\ PageInvariant => AckedRecoverable
  <2> SUFFICES ASSUME CommitInvariant, PageInvariant, NEW n \in acked
               PROVE  /\ n <= durable
                      /\ \A g \in DOMAIN log[n].img :
                            n \in disk[g].has \/ (n > pub.ckpt /\ n >= first)
    BY Zenon DEF AckedRecoverable
  <2>1. /\ n \in 1 .. durable /\ durable \in Nat /\ durable <= Len(log) /\ Len(log) \in Nat
        /\ pub.ckpt \in Nat /\ first \in Nat /\ first <= pub.ckpt + 1
    BY PageTypes, Zenon DEF PageInvariant, CommitInvariant, Watermarks
  <2>2. ASSUME NEW g \in DOMAIN log[n].img, n <= pub.ckpt  PROVE n \in disk[g].has
    <3>1. n \in 1 .. Len(log) /\ log \in Seq(Batch)
      <4>1. log \in Seq(Batch)
        BY Zenon DEF CommitInvariant, LogWellFormed
      <4> QED  BY <2>1, <4>1
    <3>2. n \in Writers(log, g, pub.ckpt)
      BY <2>2, <3>1, Zenon DEF Writers
    <3>3. log[n] \in Batch
      BY <3>1, SeqElement, Zenon
    <3>4. PICK S \in SUBSET Pages : log[n].img \in [S -> Page]
      BY <3>3, Zenon DEF Batch
    <3>5. g \in Pages
      BY <3>4, Zenon
    <3>6. Exact(log, disk[g], g) /\ Covers(log, disk[g], g, pub.ckpt)
      BY <3>5, Zenon DEF PageInvariant, Contents
    <3> QED  BY <3>2, <3>6, CoveredIsHeld
  <2>3. n <= durable /\ (n > pub.ckpt => n >= first) /\ (n <= pub.ckpt \/ n > pub.ckpt)
    BY <2>1
  <2> QED  BY <2>2, <2>3, Zenon
<1> QED  BY <1>1, PageInvariantHolds, PTL

=============================================================================
