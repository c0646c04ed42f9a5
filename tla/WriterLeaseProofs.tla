-------------------------- MODULE WriterLeaseProofs --------------------------
(* The writer lease is safe for any set of participants, any stall threshold  *)
(* and any bounds: LeaseInvariant is inductive, and every step implements the *)
(* abstract fence.                                                            *)
EXTENDS WriterLease, TLAPS

\* Replacing the record by a newer one leaves every observation in its past.
LEMMA NewerIsTransitive ==
    ASSUME NEW r \in LeaseRecord, NEW s \in LeaseRecord, NEW t \in LeaseRecord,
           Newer(r, s), s = t \/ Newer(s, t)
    PROVE  Newer(r, t) /\ r # t /\ LivenessKey(r) # LivenessKey(t)
BY DEF Newer, LeaseRecord, LivenessKey

\* The records a step may publish are well formed and newer.
LEMMA ClaimIsNewer ==
    ASSUME TypeOK, NEW p \in Participants
    PROVE  InstalledRecord(p, record) \in LeaseRecord /\ Newer(InstalledRecord(p, record), record)
BY DEF TypeOK, LeaseRecord, InstalledRecord, Newer

\* A heartbeat and a release replace the record by a newer one of the same owner.
LEMMA BeatIsNewer ==
    ASSUME TypeOK
    PROVE  /\ Beaten \in LeaseRecord /\ Newer(Beaten, record)
           /\ Beaten.owner = record.owner /\ Beaten.epoch = record.epoch
           /\ Released \in LeaseRecord /\ Newer(Released, record)
           /\ Released.owner = record.owner /\ Released.epoch = record.epoch
           /\ ~Released.held
BY DEF TypeOK, LeaseRecord, Beaten, Released, Newer

\* An observation of the current record, dated with any earlier sample, keeps the
\* observations in the past and moves nothing of the other participants.
LEMMA ObserveKeeps ==
    ASSUME LeaseInvariant, NEW p \in Participants, NEW age \in Ages,
           ObserveRecord(p, record, age), UNCHANGED shared
    PROVE  /\ basis' \in [Participants -> LeaseRecord]
           /\ basisSeen' \in [Participants -> BOOLEAN]
           /\ keyAge' \in [Participants -> Ages]
           /\ lag' \in [Participants -> Ages]
           /\ ObservationsArePast'
           /\ \A q \in Participants \ {p} : basis'[q] = basis[q] /\ keyAge'[q] = keyAge[q]
           /\ basis'[p] = record
<1> USE DEF LeaseInvariant, TypeOK
<1>1. /\ basis' \in [Participants -> LeaseRecord]
      /\ basisSeen' \in [Participants -> BOOLEAN]
      /\ keyAge' \in [Participants -> Ages]
      /\ lag' \in [Participants -> Ages]
  BY DEF ObserveRecord
<1>2. \A q \in Participants \ {p} :
         basis'[q] = basis[q] /\ keyAge'[q] = keyAge[q] /\ lag'[q] = lag[q]
  BY DEF ObserveRecord
<1>3. basis'[p] = record
  BY DEF ObserveRecord
<1>4. keyAge'[p] <= quiet + lag'[p]
  <2>1. CASE basis[p] = record
    BY <2>1 DEF ObserveRecord, ObservationsArePast
  <2>2. CASE Newer(record, basis[p])
    <3>1. LivenessKey(record) # LivenessKey(basis[p])
      BY <2>2, NewerIsTransitive
    <3>2. keyAge'[p] = age /\ lag'[p] = age
      BY <3>1 DEF ObserveRecord
    <3> QED  BY <3>2, LeaseAssumption DEF Ages, AgeLimit
  <2> QED  BY <2>1, <2>2 DEF ObservationsArePast
<1>5. record' = record /\ quiet' = quiet
  BY DEF shared
<1>6. ObservationsArePast'
  BY <1>2, <1>3, <1>4, <1>5 DEF ObservationsArePast, Newer
<1> QED  BY <1>1, <1>2, <1>3, <1>6

\* Publishing a newer record, observed or not by its publisher, keeps the
\* observations in the past.
LEMMA PublishKeeps ==
    ASSUME LeaseInvariant, NEW p \in Participants, NEW r \in LeaseRecord, Newer(r, record),
           Publish(p, r) \/ PublishThenRaise(r)
    PROVE  /\ record' = r
           /\ basis' \in [Participants -> LeaseRecord]
           /\ basisSeen' \in [Participants -> BOOLEAN]
           /\ keyAge' \in [Participants -> Ages]
           /\ lag' \in [Participants -> Ages]
           /\ quiet' = 0
           /\ ObservationsArePast'
           /\ \A q \in Participants \ {p} : basis'[q] = basis[q] /\ keyAge'[q] = keyAge[q]
<1> USE DEF LeaseInvariant, TypeOK
<1>1. /\ record' = r
      /\ basis' \in [Participants -> LeaseRecord]
      /\ basisSeen' \in [Participants -> BOOLEAN]
      /\ keyAge' \in [Participants -> Ages]
      /\ lag' \in [Participants -> Ages]
      /\ quiet' = 0
  <2>1. CASE Publish(p, r)
    BY <2>1, LeaseAssumption DEF Publish, ObserveRecord, Ages, AgeLimit
  <2>2. CASE PublishThenRaise(r)
    BY <2>2 DEF PublishThenRaise, observation
  <2> QED  BY <2>1, <2>2
<1>2. \A q \in Participants \ {p} : basis'[q] = basis[q] /\ keyAge'[q] = keyAge[q]
  BY DEF Publish, PublishThenRaise, ObserveRecord, observation
<1>3. \A q \in Participants : Newer(r, basis[q]) /\ r # basis[q]
                              /\ LivenessKey(r) # LivenessKey(basis[q])
  BY NewerIsTransitive DEF ObservationsArePast
<1>4. ASSUME NEW q \in Participants
      PROVE  (basis'[q] = r /\ keyAge'[q] = 0) \/ (Newer(r, basis'[q]) /\ r # basis'[q])
  <2>1. CASE PublishThenRaise(r) \/ q # p
    <3>1. basis'[q] = basis[q]
      BY <2>1, <1>2 DEF PublishThenRaise, observation
    <3> QED  BY <1>3, <3>1
  <2>2. CASE Publish(p, r) /\ q = p
    BY <1>3, <2>2 DEF Publish, ObserveRecord
  <2> QED  BY <2>1, <2>2
<1>5. ObservationsArePast'
  <2> SUFFICES ASSUME NEW q \in Participants
               PROVE  /\ basis'[q] = r \/ Newer(r, basis'[q])
                      /\ basis'[q] = r => keyAge'[q] <= 0 + lag'[q]
    BY <1>1 DEF ObservationsArePast
  <2>1. lag'[q] \in Nat
    BY <1>1, LeaseAssumption DEF Ages, AgeLimit
  <2> QED  BY <1>4, <2>1
<1> QED  BY <1>1, <1>2, <1>5

LEMMA InitInvariant == Init => LeaseInvariant
BY LeaseAssumption DEF Init, LeaseInvariant, TypeOK, LeaseRecord, NoRecord, RecordWellFormed,
   Ages, AgeLimit, Stalled,
   GrantsArePast, EpochGrantedOnce, BeliefsAreGrants, ObservationsArePast, SamplesArePast,
   ClaimsAreJustified

\* Ages only grow with a tick, and stop above the threshold.
LEMMA OlderGrows ==
    ASSUME NEW a \in Ages, NEW b \in Ages, NEW c \in Ages
    PROVE  /\ Older(a) \in Ages
           /\ a > OwnerStall => Older(a) > OwnerStall
           /\ a <= b + c => a <= Older(b) + c
           /\ a <= b + c => Older(a) <= Older(b) + c
BY LeaseAssumption DEF Older, Min2, AgeLimit, Ages

\* What only the lease files and the grants say.
Granted == RecordWellFormed /\ GrantsArePast /\ EpochGrantedOnce /\ BeliefsAreGrants

\* A read of the record, by whichever operation: it may forget the lease of p, end the
\* sample p carries, and start a claim if the record is vacant or has stalled.
LEMMA ReadKeeps ==
    ASSUME LeaseInvariant, NEW p \in Participants, NEW age \in Ages,
           ObserveRecord(p, record, age), UNCHANGED <<shared, installed, alive>>,
           held' = held \/ held' = [held EXCEPT ![p] = 0],
           NEW next \in {"idle", "claim"}, pc' = [pc EXCEPT ![p] = next],
           next = "claim" => Vacant(record) \/ Stalled(p)',
           since' \in [Participants -> Ages],
           stalled' = [stalled EXCEPT ![p] = FALSE]
    PROVE  LeaseInvariant'
<1> USE DEF LeaseInvariant
<1>1. /\ ObservationsArePast'
      /\ basis'[p] = record
      /\ \A q \in Participants \ {p} : basis'[q] = basis[q] /\ keyAge'[q] = keyAge[q]
  BY ObserveKeeps
<1>2. TypeOK'
  BY ObserveKeeps DEF TypeOK, shared
<1>3. Granted'
  BY DEF Granted, RecordWellFormed, GrantsArePast, EpochGrantedOnce, BeliefsAreGrants, TypeOK,
     shared
<1>4. SamplesArePast'
  BY <1>1 DEF SamplesArePast, Stalled, TypeOK
<1>5. ClaimsAreJustified'
  BY <1>1 DEF ClaimsAreJustified, Stalled, Vacant, TypeOK
<1> QED  BY <1>1, <1>2, <1>3, <1>4, <1>5 DEF Granted

LEMMA NextInvariant == LeaseInvariant /\ [Next]_vars => LeaseInvariant'
<1> SUFFICES ASSUME LeaseInvariant, [Next]_vars PROVE LeaseInvariant'
  OBVIOUS
<1> USE LeaseAssumption DEF LeaseInvariant
<1>1. CASE UNCHANGED vars
  BY <1>1 DEF vars, shared, leases, observation, clock, TypeOK, RecordWellFormed, GrantsArePast,
     EpochGrantedOnce, BeliefsAreGrants, ObservationsArePast, SamplesArePast,
     ClaimsAreJustified, Stalled, Vacant, Newer
<1>2. CASE Tick
  <2>1. UNCHANGED <<record, held, installed, basis, basisSeen, lag, stalled, pc, alive>>
    BY <1>2 DEF Tick, leases
  <2>2. /\ quiet' = Older(quiet)
        /\ keyAge' \in [Participants -> Ages] /\ since' \in [Participants -> Ages]
        /\ \A q \in Participants : keyAge'[q] \in {keyAge[q], Older(keyAge[q])}
    BY <1>2, OlderGrows DEF Tick, TypeOK
  <2>3. TypeOK'
    BY <2>1, <2>2, OlderGrows DEF TypeOK
  <2>4. ObservationsArePast'
    <3> SUFFICES ASSUME NEW q \in Participants
                 PROVE  /\ basis[q] = record \/ Newer(record, basis[q])
                        /\ basis[q] = record => keyAge'[q] <= Older(quiet) + lag[q]
      BY <2>1, <2>2 DEF ObservationsArePast, Newer
    <3>1. keyAge[q] \in Ages /\ quiet \in Ages /\ lag[q] \in Ages
      BY DEF TypeOK
    <3> QED  BY <2>2, <3>1, OlderGrows DEF ObservationsArePast
  <2>5. \A q \in Participants : Stalled(q) => Stalled(q)'
    <3> SUFFICES ASSUME NEW q \in Participants, keyAge[q] > OwnerStall
                 PROVE  keyAge'[q] > OwnerStall
      BY DEF Stalled
    <3>1. keyAge[q] \in Ages
      BY DEF TypeOK
    <3> QED  BY <2>2, <3>1, OlderGrows
  <2>6. SamplesArePast' /\ ClaimsAreJustified'
    BY <2>1, <2>5 DEF SamplesArePast, ClaimsAreJustified, Vacant
  <2>7. Granted'
    BY <2>1 DEF Granted, RecordWellFormed, GrantsArePast, EpochGrantedOnce, BeliefsAreGrants
  <2> QED  BY <2>3, <2>4, <2>6, <2>7 DEF Granted
<1>3. ASSUME NEW p \in Participants, Step(p) PROVE LeaseInvariant'
  <2>1. CASE Sample(p)
    <3>1. UNCHANGED <<record, held, installed, basis, basisSeen, keyAge, lag, alive, quiet>>
      BY <2>1 DEF Sample, shared, leases, observation
    <3>2. TypeOK'
      BY <2>1, <3>1 DEF Sample, TypeOK, Stalled, Ages, AgeLimit
    <3>3. SamplesArePast'
      BY <2>1, <3>1 DEF Sample, SamplesArePast, TypeOK, Stalled
    <3>4. ClaimsAreJustified'
      BY <2>1, <3>1 DEF Sample, ClaimsAreJustified, TypeOK, Stalled, Vacant
    <3>5. ObservationsArePast' /\ Granted'
      BY <3>1 DEF Granted, RecordWellFormed, GrantsArePast, EpochGrantedOnce, BeliefsAreGrants,
         ObservationsArePast, Newer
    <3> QED  BY <3>2, <3>3, <3>4, <3>5 DEF Granted
  <2>2. since[p] \in Ages /\ 0 \in Ages /\ basis[p] \in LeaseRecord
    BY DEF TypeOK, Ages, AgeLimit
  <2>3. ASSUME NEW next \in {"idle", "claim"}, Uses(p, next)
        PROVE  /\ UNCHANGED <<shared, installed, alive, held>>
               /\ pc' = [pc EXCEPT ![p] = next]
               /\ since' \in [Participants -> Ages]
               /\ stalled' = [stalled EXCEPT ![p] = FALSE]
    BY <2>2, <2>3 DEF Uses, leases, TypeOK
  <2>4. CASE Acquire(p)
    <3> DEFINE own == held[p] # 0 /\ Publishes(p, held[p])
               same == LivenessKey(record) = LivenessKey(basis[p])
               next == IF ~own /\ (Vacant(record) \/ (same /\ stalled[p])) THEN "claim" ELSE "idle"
    <3>1. Uses(p, next) /\ ObserveRecord(p, record, since[p])
      BY <2>4 DEF Acquire
    <3>2. ASSUME same, stalled[p] PROVE Stalled(p)'
      BY <3>1, <3>2 DEF SamplesArePast, Stalled, ObserveRecord, TypeOK
    <3>3. next \in {"idle", "claim"} /\ (next = "claim" => Vacant(record) \/ Stalled(p)')
      BY <3>2
    <3> HIDE DEF next
    <3> QED  BY <2>2, <2>3, <3>1, <3>3, ReadKeeps
  <2>5. CASE Takeover(p)
    <3>1. Uses(p, "claim")
      BY <2>5 DEF Takeover
    <3>2. CASE basisSeen[p]
      <4>1. /\ UNCHANGED observation
            /\ Vacant(basis[p]) \/ stalled[p]
        BY <2>5, <3>2 DEF Takeover, observation
      <4>2. TypeOK'
        BY <2>3, <3>1, <4>1 DEF TypeOK, observation, shared
      <4>3. SamplesArePast' /\ ClaimsAreJustified'
        BY <2>3, <3>1, <4>1 DEF SamplesArePast, ClaimsAreJustified, TypeOK, observation, Stalled,
           Vacant
      <4>4. ObservationsArePast' /\ Granted'
        BY <2>3, <3>1, <4>1 DEF Granted, RecordWellFormed, GrantsArePast, EpochGrantedOnce,
           BeliefsAreGrants, ObservationsArePast, Newer, observation, shared
      <4> QED  BY <4>2, <4>3, <4>4 DEF Granted
    <3>3. CASE ~basisSeen[p]
      <4>1. ObserveRecord(p, record, since[p]) /\ Vacant(basis'[p])
        BY <2>5, <3>3 DEF Takeover
      <4>2. Vacant(record)
        BY <4>1 DEF ObserveRecord, TypeOK
      <4> QED  BY <2>2, <2>3, <3>1, <4>1, <4>2, ReadKeeps
    <3> QED  BY <3>2, <3>3
  <2>6. CASE Observe(p)
    <3>1. Uses(p, "idle") /\ ObserveRecord(p, record, since[p])
      BY <2>6 DEF Observe
    <3> QED  BY <2>2, <2>3, <3>1, ReadKeeps
  \* Outside the sampled phase there is no sample to end.
  <2>7. ASSUME pc[p] # "sampled", UNCHANGED clock
        PROVE  since' \in [Participants -> Ages] /\ stalled' = [stalled EXCEPT ![p] = FALSE]
    BY <2>7 DEF SamplesArePast, TypeOK, clock
  <2>8. pc[p] = "idle" => pc = [pc EXCEPT ![p] = "idle"]
    BY DEF TypeOK
  <2>9. CASE ReadPublished(p)
    <3>1. /\ pc[p] = "idle" /\ ObserveRecord(p, record, 0)
          /\ UNCHANGED <<shared, installed, held, clock, pc, alive>>
      BY <2>9 DEF ReadPublished, Running, leases
    <3> QED  BY <2>2, <2>7, <2>8, <3>1, ReadKeeps
  <2>10. CASE ClaimLost(p)
    <3>1. /\ pc[p] = "claim" /\ pc' = [pc EXCEPT ![p] = "idle"]
          /\ ObserveRecord(p, record, 0)
          /\ UNCHANGED <<shared, installed, held, clock, alive>>
      BY <2>10 DEF ClaimLost, leases
    <3> QED  BY <2>2, <2>7, <3>1, ReadKeeps
  <2>11. ASSUME NEW e \in 1 .. MaxEpoch, RenewStolen(p, e) \/ ReleaseLost(p, e)
         PROVE  LeaseInvariant'
    <3>1. /\ pc[p] = "idle" /\ ObserveRecord(p, record, 0)
          /\ UNCHANGED <<shared, installed, clock, pc, alive>>
      BY <2>11 DEF RenewStolen, ReleaseLost, Running
    <3>2. held' = held \/ held' = [held EXCEPT ![p] = 0]
      BY <2>11 DEF RenewStolen, ReleaseLost, TypeOK
    <3> QED  BY <2>2, <2>7, <2>8, <3>1, <3>2, ReadKeeps
  <2>12. CASE Install(p) \/ InstallThenRaise(p)
    <3> DEFINE r == InstalledRecord(p, record)
    <3>1. r \in LeaseRecord /\ Newer(r, record) /\ (Publish(p, r) \/ PublishThenRaise(r))
      BY <2>12, ClaimIsNewer DEF Install, InstallThenRaise
    <3>2. /\ record' = r
          /\ ObservationsArePast'
          /\ \A q \in Participants \ {p} : basis'[q] = basis[q] /\ keyAge'[q] = keyAge[q]
      BY <3>1, PublishKeeps
    <3>3. /\ installed' = installed \/ installed' = [installed EXCEPT ![p] = @ \cup {record.epoch + 1}]
          /\ \/ held' = held
             \/ /\ held' = [held EXCEPT ![p] = record.epoch + 1]
                /\ installed' = [installed EXCEPT ![p] = @ \cup {record.epoch + 1}]
          /\ pc[p] = "claim" /\ pc' = [pc EXCEPT ![p] = "idle"]
          /\ UNCHANGED <<clock, alive>>
      BY <2>12 DEF Install, InstallThenRaise, PublishThenRaise, leases
    <3>4. TypeOK'
      <4>1. record.epoch + 1 \in Nat
        BY DEF TypeOK, LeaseRecord
      <4>2. /\ record' \in LeaseRecord
            /\ basis' \in [Participants -> LeaseRecord]
            /\ basisSeen' \in [Participants -> BOOLEAN]
            /\ keyAge' \in [Participants -> Ages]
            /\ lag' \in [Participants -> Ages]
            /\ quiet' \in Ages
        BY <2>2, <3>1, PublishKeeps
      <4>3. installed' \in [Participants -> SUBSET Nat] /\ held' \in [Participants -> Nat]
        BY <3>3, <4>1 DEF TypeOK
      <4>4. /\ pc' \in [Participants -> {"idle", "sampled", "claim"}]
            /\ alive' \in SUBSET Participants
            /\ since' \in [Participants -> Ages] /\ stalled' \in [Participants -> BOOLEAN]
        BY <3>3 DEF TypeOK, clock
      <4> QED  BY <4>2, <4>3, <4>4 DEF TypeOK
    <3>5. RecordWellFormed'
      BY <3>2 DEF RecordWellFormed, InstalledRecord, TypeOK, LeaseRecord
    <3>6. GrantsArePast'
      BY <3>2, <3>3 DEF GrantsArePast, InstalledRecord, TypeOK, LeaseRecord
    <3>7. EpochGrantedOnce'
      BY <3>3 DEF EpochGrantedOnce, GrantsArePast, TypeOK, LeaseRecord
    <3>8. BeliefsAreGrants'
      BY <3>3 DEF BeliefsAreGrants, TypeOK, LeaseRecord
    <3>9. SamplesArePast' /\ ClaimsAreJustified'
      BY <2>7, <3>2, <3>3 DEF SamplesArePast, ClaimsAreJustified, Stalled, Vacant, TypeOK
    <3> QED  BY <3>2, <3>4, <3>5, <3>6, <3>7, <3>8, <3>9
  <2>13. CASE ClaimFails(p)
    <3>1. /\ UNCHANGED <<record, held, installed, basis, basisSeen, keyAge, lag, alive, quiet>>
          /\ pc[p] = "claim" /\ pc' = [pc EXCEPT ![p] = "idle"]
          /\ UNCHANGED <<since, stalled>>
      BY <2>13 DEF ClaimFails, shared, leases, observation, clock
    <3>2. TypeOK'
      BY <3>1 DEF TypeOK
    <3>3. SamplesArePast' /\ ClaimsAreJustified'
      BY <3>1 DEF SamplesArePast, ClaimsAreJustified, Stalled, Vacant, TypeOK
    <3>4. ObservationsArePast' /\ Granted'
      BY <3>1 DEF Granted, RecordWellFormed, GrantsArePast, EpochGrantedOnce, BeliefsAreGrants,
         ObservationsArePast, Newer
    <3> QED  BY <3>2, <3>3, <3>4 DEF Granted
  <2>14. ASSUME NEW e \in 1 .. MaxEpoch, NEW raised \in BOOLEAN,
                Renew(p, e, raised) \/ Release(p, e, raised)
         PROVE  LeaseInvariant'
    <3>1. PICK r \in {Beaten, Released} : Publish(p, r) \/ PublishThenRaise(r)
      BY <2>14 DEF Renew, Release
    <3> record.held
      BY <2>14 DEF Renew, Release, Publishes
    <3>2. /\ r \in LeaseRecord /\ Newer(r, record)
          /\ r.owner = record.owner /\ r.epoch = record.epoch
      BY <3>1, BeatIsNewer
    <3>3. /\ record' = r
          /\ ObservationsArePast'
          /\ \A q \in Participants \ {p} : basis'[q] = basis[q] /\ keyAge'[q] = keyAge[q]
      BY <3>1, <3>2, PublishKeeps
    <3>4. /\ installed' = installed
          /\ held' = held \/ held' = [held EXCEPT ![p] = 0]
          /\ pc[p] = "idle"
          /\ UNCHANGED <<pc, alive, since, stalled>>
      BY <2>14 DEF Renew, Release, Running, PublishThenRaise, leases, clock, TypeOK
    <3>5. TypeOK'
      BY <2>2, <3>1, <3>2, <3>4, PublishKeeps DEF TypeOK
    <3>6. RecordWellFormed' /\ GrantsArePast' /\ EpochGrantedOnce'
      BY <3>2, <3>3, <3>4 DEF RecordWellFormed, GrantsArePast, EpochGrantedOnce
    <3>7. BeliefsAreGrants'
      BY <3>4 DEF BeliefsAreGrants, TypeOK
    <3>8. SamplesArePast' /\ ClaimsAreJustified'
      BY <3>3, <3>4 DEF SamplesArePast, ClaimsAreJustified, Stalled, Vacant, TypeOK
    <3> QED  BY <3>3, <3>5, <3>6, <3>7, <3>8
  <2>15. CASE Crash(p)
    <3>1. /\ UNCHANGED <<record, held, installed, basis, basisSeen, quiet>>
          /\ alive' = alive \ {p}
          /\ pc' = [pc EXCEPT ![p] = "idle"]
          /\ keyAge' = [keyAge EXCEPT ![p] = 0]
          /\ since' = [since EXCEPT ![p] = 0]
          /\ stalled' = [stalled EXCEPT ![p] = FALSE]
          /\ lag' = [lag EXCEPT ![p] = 0]
      BY <2>15 DEF Crash, shared, leases
    <3>2. TypeOK'
      BY <2>2, <3>1 DEF TypeOK
    <3>3. SamplesArePast' /\ ClaimsAreJustified'
      BY <3>1 DEF SamplesArePast, ClaimsAreJustified, Stalled, Vacant, TypeOK
    <3>4. ObservationsArePast'
      BY <3>1 DEF ObservationsArePast, Newer, TypeOK, Ages
    <3>5. Granted'
      BY <3>1 DEF Granted, RecordWellFormed, GrantsArePast, EpochGrantedOnce, BeliefsAreGrants
    <3> QED  BY <3>2, <3>3, <3>4, <3>5 DEF Granted
  <2> QED
    BY <1>3, <2>1, <2>4, <2>5, <2>6, <2>9, <2>10, <2>11, <2>12, <2>13, <2>14, <2>15 DEF Step
<1> QED
  BY <1>1, <1>2, <1>3 DEF Next

\* The inductive invariant holds of every reachable state.
THEOREM LeaseInvariantHolds == Spec => []LeaseInvariant
BY InitInvariant, NextInvariant, PTL DEF Spec

\* No epoch is granted to two participants, and whoever believes in the
\* published epoch is the owner acquire_writer_lease recorded.
THEOREM LeaseSafety == Spec => [](EpochGrantedOnce /\ BelieverIsOwner)
<1>1. LeaseInvariant => EpochGrantedOnce /\ BelieverIsOwner
  BY DEF LeaseInvariant, BelieverIsOwner, BeliefsAreGrants, GrantsArePast
<1> QED  BY <1>1, LeaseInvariantHolds, PTL

\* How a step of Next may change the record, the one fact the action properties
\* and the refinement share.
LEMMA RecordSteps ==
    ASSUME LeaseInvariant, [Next]_vars
    PROVE  \/ record' = record
           \/ \E p \in Participants :
                /\ record' = InstalledRecord(p, record)
                /\ record = basis[p]
                /\ pc[p] = "claim"
           \/ record' = Beaten /\ record.held
           \/ record' = Released /\ record.held
BY DEF Next, Step, vars, shared, Tick, Sample, Uses, Acquire, Takeover, Observe, ReadPublished,
   Install, ClaimLost, ClaimFails, InstallThenRaise, Renew, RenewStolen, Release, ReleaseLost,
   Crash, Publish, PublishThenRaise, Publishes

\* The record only ever moves to a newer (epoch, heartbeat), so the comparison
\* _try_claim makes before it installs is sound.
THEOREM RecordNeverRepeats == Spec => NeverRepeats
<1>1. LeaseInvariant /\ [Next]_vars => [record' # record => Newer(record', record)]_vars
  BY RecordSteps, ClaimIsNewer, BeatIsNewer DEF LeaseInvariant
<1> QED  BY <1>1, LeaseInvariantHolds, PTL DEF Spec, NeverRepeats

\* A held lease changes epoch only after its record stood still for longer than the
\* stall threshold, less what the claimant's first read of it came late: whoever reads
\* promptly never displaces an owner that beats in time.
THEOREM LiveOwnerKeepsLease == Spec => OnlyStalledDisplaced
<1>1. LeaseInvariant /\ [Next]_vars
        => [record.held /\ record'.epoch # record.epoch
              => quiet + lag[record'.owner] > OwnerStall]_vars
  <2> SUFFICES ASSUME LeaseInvariant, [Next]_vars, record.held, record'.epoch # record.epoch
               PROVE  quiet + lag[record'.owner] > OwnerStall
    OBVIOUS
  <2>1. PICK p \in Participants :
           record' = InstalledRecord(p, record) /\ record = basis[p] /\ pc[p] = "claim"
    BY RecordSteps, ClaimIsNewer, BeatIsNewer DEF LeaseInvariant
  <2>2. record'.owner = p
    BY <2>1 DEF InstalledRecord
  <2>3. keyAge[p] > OwnerStall /\ keyAge[p] <= quiet + lag[p]
    BY <2>1 DEF LeaseInvariant, ClaimsAreJustified, ObservationsArePast, Vacant, Stalled
  <2>4. keyAge[p] \in Ages /\ quiet \in Ages /\ lag[p] \in Ages
    BY DEF LeaseInvariant, TypeOK
  <2> QED  BY <2>2, <2>3, <2>4, LeaseAssumption DEF Ages, AgeLimit
<1> QED  BY <1>1, LeaseInvariantHolds, PTL DEF Spec, OnlyStalledDisplaced

\* Every step of the lease file is a grant, a vacation or a stutter of the
\* abstract fence the commit protocol relies on.
THEOREM LeaseImplementsFencing == Spec => ImplementsFencing
<1>1. Init => Fence!FencingInit
  BY DEF Init, NoRecord, Fence!FencingInit
<1>2. LeaseInvariant /\ [Next]_vars => [Fence!FencingNext]_(Fence!fencingVars)
  <2> SUFFICES ASSUME LeaseInvariant, [Next]_vars
               PROVE  [Fence!FencingNext]_(Fence!fencingVars)
    OBVIOUS
  <2> USE DEF Fence!FencingNext, Fence!fencingVars, Fence!Grant, Fence!Vacate
  <2>1. CASE record' = record
    BY <2>1
  <2>2. CASE \E p \in Participants : record' = InstalledRecord(p, record)
    BY <2>2 DEF InstalledRecord
  <2>3. CASE record' = Beaten /\ record.held
    BY <2>3, LeaseAssumption DEF LeaseInvariant, TypeOK, LeaseRecord, Beaten
  <2>4. CASE record' = Released /\ record.held
    BY <2>4, LeaseAssumption DEF LeaseInvariant, TypeOK, LeaseRecord, Released, RecordWellFormed
  <2> QED  BY <2>1, <2>2, <2>3, <2>4, RecordSteps
<1> QED  BY <1>1, <1>2, LeaseInvariantHolds, PTL DEF Spec, ImplementsFencing, Fence!FencingSpec

=============================================================================
