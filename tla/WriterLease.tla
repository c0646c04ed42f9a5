----------------------------- MODULE WriterLease -----------------------------
(* The writer lease of LocalProcessCoordinator: one record in a shared file,  *)
(* read by anybody, replaced atomically under the exclusive lease section.    *)
(* Nobody reads a clock out of the record: a participant calls an owner dead  *)
(* after it has itself watched the same (owner, epoch, heartbeat) for longer  *)
(* than OwnerStall on its own monotonic clock.                                *)
(*                                                                            *)
(* An owner name carries a random nonce per coordinator instance, so a        *)
(* process that comes back after a crash is another member of Participants.   *)
(* Outside the section a participant samples its clock, then reads the        *)
(* record, then acts on it, in three steps: the owner may beat and time may   *)
(* pass between any two of them.  Inside the section nobody else replaces the *)
(* record.  A publication may fail after its replacement is already visible.  *)
EXTENDS Naturals, FiniteSets

CONSTANTS
    Participants,
    NoOwner,
    OwnerStall,     \* ticks an unchanged record may be watched before takeover
    MaxEpoch,       \* bound: epochs the model issues
    MaxBeat         \* bound: heartbeats of one epoch

ASSUME LeaseAssumption ==
    /\ NoOwner \notin Participants
    /\ OwnerStall \in Nat
    /\ MaxEpoch \in Nat
    /\ MaxBeat \in Nat

VARIABLES
    record,         \* the published LeaseRecord
    held,           \* held[p]: epoch of _held, 0 for None
    installed,      \* installed[p]: _installed_epochs, the leases p was ever given
    basis,          \* basis[p]: _basis, the record p observed last
    basisSeen,      \* basisSeen[p]: _basis_seen
    keyAge,         \* keyAge[p]: ticks since _owner_key_at
    pc,             \* "sampled" between the clock and the read, "claim" between the
                    \* decision and the section
    since,          \* since[p]: ticks since the sample `now` that p carries
    stalled,        \* stalled[p]: now - _owner_key_at > OwnerStall, for that sample
    alive,          \* the participants that have not crashed
    quiet,          \* history: ticks since the record was last replaced
    lag             \* history: lag[p], ticks by which _owner_key_at precedes the
                    \* read that first returned the key to p

shared == <<record, quiet>>
leases == <<held, installed>>
observation == <<basis, basisSeen, keyAge, lag>>
clock == <<since, stalled>>
vars == <<shared, leases, observation, clock, pc, alive>>

-----------------------------------------------------------------------------
LeaseRecord == [owner : Participants \cup {NoOwner}, epoch : Nat, beat : Nat, held : BOOLEAN]

\* No lease file yet.  It reads as a vacant lease of epoch 0.
NoRecord == [owner |-> NoOwner, epoch |-> 0, beat |-> 0, held |-> FALSE]

\* Mutant: a vacant lease is claimed again under the epoch it was released with.
InstalledRecordReusingEpoch(p, old) ==
    [owner |-> p, epoch |-> IF old.held \/ old.epoch = 0 THEN old.epoch + 1 ELSE old.epoch,
     beat |-> old.beat + 1, held |-> TRUE]

\* A claim of a vacant or abandoned lease, on top of the record it replaces.
InstalledRecord(p, old) ==
    [owner |-> p, epoch |-> old.epoch + 1, beat |-> 1, held |-> TRUE]

LivenessKey(r) == <<r.owner, r.epoch, r.beat>>

Min2(a, b) == IF a < b THEN a ELSE b

\* Ages are counted up to the first one above the threshold.
AgeLimit == OwnerStall + 1
Ages == 0 .. AgeLimit

\* The record says that p is the owner and e its epoch.
Publishes(p, e) == record.held /\ record.owner = p /\ record.epoch = e

\* Mutant: the age is kept although the owner moved its heartbeat.
ObserveRecordKeepingAge(p, r, age) ==
    /\ basis' = [basis EXCEPT ![p] = r]
    /\ basisSeen' = [basisSeen EXCEPT ![p] = TRUE]
    /\ UNCHANGED <<keyAge, lag>>

\* Mutant: every observation restarts the age.
ObserveRecordResettingAge(p, r, age) ==
    /\ basis' = [basis EXCEPT ![p] = r]
    /\ basisSeen' = [basisSeen EXCEPT ![p] = TRUE]
    /\ keyAge' = [keyAge EXCEPT ![p] = age]
    /\ lag' = [lag EXCEPT ![p] = age]

\* _observe_lease(r, now), now sampled age ticks ago: remember the record, and date
\* its key with that sample only if the key moved.
ObserveRecord(p, r, age) ==
    LET date(f) == [f EXCEPT ![p] = IF LivenessKey(r) = LivenessKey(basis[p]) THEN @ ELSE age]
    IN  /\ basis' = [basis EXCEPT ![p] = r]
        /\ basisSeen' = [basisSeen EXCEPT ![p] = TRUE]
        /\ keyAge' = date(keyAge)
        /\ lag' = date(lag)

\* _publish_lease: replace the shared record, then observe what was published.
Publish(p, r) ==
    /\ record' = r
    /\ quiet' = 0
    /\ ObserveRecord(p, r, 0)

\* A publication that raised after its replacement became visible: the caller
\* learns nothing, so neither its observation nor its lease moves.
PublishThenRaise(r) ==
    /\ record' = r
    /\ quiet' = 0
    /\ UNCHANGED <<leases, observation>>

Stalled(p) == keyAge[p] > OwnerStall

Vacant(r) == ~r.held

-----------------------------------------------------------------------------
Init ==
    /\ record = NoRecord
    /\ held = [p \in Participants |-> 0]
    /\ installed = [p \in Participants |-> {}]
    /\ basis = [p \in Participants |-> NoRecord]
    /\ basisSeen = [p \in Participants |-> FALSE]
    /\ keyAge = [p \in Participants |-> 0]
    /\ lag = [p \in Participants |-> 0]
    /\ pc = [p \in Participants |-> "idle"]
    /\ since = [p \in Participants |-> 0]
    /\ stalled = [p \in Participants |-> FALSE]
    /\ alive = Participants
    /\ quiet = 0

Running(p) == p \in alive /\ pc[p] = "idle"

\* now = clock.monotonic(): what acquire_writer_lease, takeover and detect_dead_owner
\* do before they read the record.
Sample(p) ==
    /\ Running(p)
    /\ pc' = [pc EXCEPT ![p] = "sampled"]
    /\ since' = [since EXCEPT ![p] = 0]
    /\ stalled' = [stalled EXCEPT ![p] = Stalled(p)]
    /\ UNCHANGED <<shared, leases, observation, alive>>

\* The read that uses the sample of p is over, and p goes on with next.
Uses(p, next) ==
    /\ p \in alive
    /\ pc[p] = "sampled"
    /\ pc' = [pc EXCEPT ![p] = next]
    /\ since' = [since EXCEPT ![p] = 0]
    /\ stalled' = [stalled EXCEPT ![p] = FALSE]
    /\ UNCHANGED <<shared, leases, alive>>

\* One iteration of acquire_writer_lease outside the section.  A lease p
\* already holds is returned as it is; a live owner means another poll, or the
\* timeout, neither of which leaves more than the observation behind.  A key seen
\* for the first time is as old as the sample, so it has not stalled.
Acquire(p) ==
    LET own == held[p] # 0 /\ Publishes(p, held[p])
        same == LivenessKey(record) = LivenessKey(basis[p])
    IN  /\ Uses(p, IF ~own /\ (Vacant(record) \/ (same /\ stalled[p]))
                   THEN "claim" ELSE "idle")
        /\ ObserveRecord(p, record, since[p])

\* takeover: decides on the observation it already has, and reads the record
\* first only if it never did; then it has seen no stall.
Takeover(p) ==
    /\ Uses(p, "claim")
    /\ IF basisSeen[p] THEN UNCHANGED observation
                       ELSE ObserveRecord(p, record, since[p])
    /\ Vacant(basis'[p]) \/ (basisSeen[p] /\ stalled[p])

\* detect_dead_owner, and a takeover that is refused: the observation is all
\* they leave.
Observe(p) ==
    /\ Uses(p, "idle")
    /\ ObserveRecord(p, record, since[p])

\* _published_record, the read validate_epoch makes: the record first, the clock after
\* it.  The key is dated at the read, at the latest; the code's date is no earlier, and
\* what it then finds stalled the model finds stalled too.
ReadPublished(p) ==
    /\ Running(p)
    /\ ObserveRecord(p, record, 0)
    /\ UNCHANGED <<shared, leases, clock, pc, alive>>

\* Mutant: the section trusts the observation made before it.
InstallWithoutCompare(p) ==
    /\ p \in alive
    /\ pc[p] = "claim"
    /\ basis[p].epoch < MaxEpoch
    /\ Publish(p, InstalledRecord(p, basis[p]))
    /\ held' = [held EXCEPT ![p] = basis[p].epoch + 1]
    /\ installed' = [installed EXCEPT ![p] = @ \cup {basis[p].epoch + 1}]
    /\ pc' = [pc EXCEPT ![p] = "idle"]
    /\ UNCHANGED <<clock, alive>>

\* Mutant: the section compares the epoch but not the heartbeat.
InstallComparingEpoch(p) ==
    /\ p \in alive
    /\ pc[p] = "claim"
    /\ record.epoch = basis[p].epoch
    /\ record.epoch < MaxEpoch
    /\ Publish(p, InstalledRecord(p, record))
    /\ held' = [held EXCEPT ![p] = record.epoch + 1]
    /\ installed' = [installed EXCEPT ![p] = @ \cup {record.epoch + 1}]
    /\ pc' = [pc EXCEPT ![p] = "idle"]
    /\ UNCHANGED <<clock, alive>>

\* The section of a claim whose record is the one that was observed: _install.
Install(p) ==
    /\ p \in alive
    /\ pc[p] = "claim"
    /\ record = basis[p]
    /\ record.epoch < MaxEpoch
    /\ Publish(p, InstalledRecord(p, record))
    /\ held' = [held EXCEPT ![p] = record.epoch + 1]
    /\ installed' = [installed EXCEPT ![p] = @ \cup {record.epoch + 1}]
    /\ pc' = [pc EXCEPT ![p] = "idle"]
    /\ UNCHANGED <<clock, alive>>

\* The section of a claim that lost: somebody replaced the record in between.
ClaimLost(p) ==
    /\ p \in alive
    /\ pc[p] = "claim"
    /\ record # basis[p]
    /\ ObserveRecord(p, record, 0)
    /\ pc' = [pc EXCEPT ![p] = "idle"]
    /\ UNCHANGED <<shared, leases, clock, alive>>

\* The section was not entered in time, or nothing of the publication is visible.
ClaimFails(p) ==
    /\ p \in alive
    /\ pc[p] = "claim"
    /\ pc' = [pc EXCEPT ![p] = "idle"]
    /\ UNCHANGED <<shared, leases, observation, clock, alive>>

\* _install raised out of _publish with the claim already in the shared file:
\* the file names p as owner of an epoch p does not know it was given.
InstallThenRaise(p) ==
    /\ p \in alive
    /\ pc[p] = "claim"
    /\ record = basis[p]
    /\ record.epoch < MaxEpoch
    /\ PublishThenRaise(InstalledRecord(p, record))
    /\ pc' = [pc EXCEPT ![p] = "idle"]
    /\ UNCHANGED <<clock, alive>>

Beaten ==
    [owner |-> record.owner, epoch |-> record.epoch, beat |-> record.beat + 1, held |-> TRUE]

\* renew_lease of a lease p was once given.  raised: the publication failed
\* visibly.  (A publication that fails invisibly changes what Observe changes.)
Renew(p, e, raised) ==
    /\ Running(p)
    /\ e \in installed[p]
    /\ held[p] = e
    /\ Publishes(p, e)
    /\ record.beat < MaxBeat
    /\ IF raised THEN PublishThenRaise(Beaten)
                 ELSE Publish(p, Beaten) /\ UNCHANGED leases
    /\ UNCHANGED <<clock, pc, alive>>

\* renew_lease that finds its lease gone forgets it.
RenewStolen(p, e) ==
    /\ Running(p)
    /\ e \in installed[p]
    /\ held[p] = e
    /\ ~Publishes(p, e)
    /\ ObserveRecord(p, record, 0)
    /\ held' = [held EXCEPT ![p] = 0]
    /\ UNCHANGED <<shared, installed, clock, pc, alive>>

\* Mutant: a release leaves the heartbeat as it was.
ReleasedSameBeat ==
    [owner |-> record.owner, epoch |-> record.epoch, beat |-> record.beat, held |-> FALSE]

Released ==
    [owner |-> record.owner, epoch |-> record.epoch, beat |-> record.beat + 1, held |-> FALSE]

\* release_lease of any lease p was ever given, the current one or an old one.
Release(p, e, raised) ==
    /\ Running(p)
    /\ e \in installed[p]
    /\ Publishes(p, e)
    /\ IF raised
         THEN PublishThenRaise(Released)
         ELSE /\ Publish(p, Released)
              /\ held' = [held EXCEPT ![p] = IF @ = e THEN 0 ELSE @]
              /\ UNCHANGED installed
    /\ UNCHANGED <<clock, pc, alive>>

\* release_lease of a lease that was already lost leaves the record alone.
ReleaseLost(p, e) ==
    /\ Running(p)
    /\ e \in installed[p]
    /\ ~Publishes(p, e)
    /\ ObserveRecord(p, record, 0)
    /\ held' = [held EXCEPT ![p] = IF @ = e THEN 0 ELSE @]
    /\ UNCHANGED <<shared, installed, clock, pc, alive>>

\* A process dies wherever it is, and its clock with it; the last one, and an owner
\* of the last epoch the bound allows, stay.
Crash(p) ==
    /\ p \in alive
    /\ Cardinality(alive) > 1
    /\ record.epoch < MaxEpoch
    /\ alive' = alive \ {p}
    /\ pc' = [pc EXCEPT ![p] = "idle"]
    /\ keyAge' = [keyAge EXCEPT ![p] = 0]
    /\ since' = [since EXCEPT ![p] = 0]
    /\ stalled' = [stalled EXCEPT ![p] = FALSE]
    /\ lag' = [lag EXCEPT ![p] = 0]
    /\ UNCHANGED <<shared, leases, basis, basisSeen>>

Older(age) == Min2(age + 1, AgeLimit)

Tick ==
    /\ keyAge' = [p \in Participants |-> IF p \in alive THEN Older(keyAge[p]) ELSE keyAge[p]]
    /\ since' = [p \in Participants |->
                   IF pc[p] = "sampled" THEN Older(since[p]) ELSE since[p]]
    /\ quiet' = Older(quiet)
    /\ UNCHANGED <<record, leases, basis, basisSeen, lag, stalled, pc, alive>>

Step(p) ==
    \/ Sample(p)
    \/ Acquire(p)
    \/ Takeover(p)
    \/ Observe(p)
    \/ ReadPublished(p)
    \/ Install(p)
    \/ ClaimLost(p)
    \/ ClaimFails(p)
    \/ InstallThenRaise(p)
    \/ \E e \in 1 .. MaxEpoch, raised \in BOOLEAN : Renew(p, e, raised) \/ Release(p, e, raised)
    \/ \E e \in 1 .. MaxEpoch : RenewStolen(p, e) \/ ReleaseLost(p, e)
    \/ Crash(p)

Next == Tick \/ \E p \in Participants : Step(p)

Spec == Init /\ [][Next]_vars

\* The clock advances, a caller of acquire_writer_lease polls, between whatever other
\* reads of the record its process makes, and a read comes back.  A claim that is made
\* again and again is not shut out of its section, or failed by the device, every time.
FairSpec ==
    /\ Spec
    /\ WF_vars(Tick)
    /\ \A p \in Participants :
         /\ WF_vars(Sample(p))
         /\ SF_vars(Acquire(p))
         /\ SF_vars(Install(p) \/ ClaimLost(p))

-----------------------------------------------------------------------------
TypeOK ==
    /\ record \in LeaseRecord
    /\ held \in [Participants -> Nat]
    /\ installed \in [Participants -> SUBSET Nat]
    /\ basis \in [Participants -> LeaseRecord]
    /\ basisSeen \in [Participants -> BOOLEAN]
    /\ keyAge \in [Participants -> Ages]
    /\ lag \in [Participants -> Ages]
    /\ pc \in [Participants -> {"idle", "sampled", "claim"}]
    /\ since \in [Participants -> Ages]
    /\ stalled \in [Participants -> BOOLEAN]
    /\ alive \in SUBSET Participants
    /\ quiet \in Ages

\* No epoch is ever granted to two participants, whatever claims race, fail
\* half way or come back late: the fence of every write rests on it.
EpochGrantedOnce ==
    \A p, q \in Participants : p # q => installed[p] \cap installed[q] = {}

\* A participant that believes in a lease of the published epoch is the owner
\* the record names, also when that record was published by a claim that raised.
BelieverIsOwner ==
    \A p \in Participants :
        held[p] # 0 /\ held[p] = record.epoch => record.owner = p

Newer(r, s) == r.epoch > s.epoch \/ (r.epoch = s.epoch /\ r.beat > s.beat)

\* The record never returns to a value it had: the compare-and-replace of
\* _try_claim, made on (owner, epoch, heartbeat, held), cannot be fooled by a
\* record that changed and changed back.
NeverRepeats == [][record' # record => Newer(record', record)]_vars

\* A held lease changes hands only after its record stood still for longer than the
\* threshold, less the time its claimant spent between the clock sample that dates the
\* key and the read that returned it: an owner that beats in time is displaced by no
\* claimant whose reads are prompt.
OnlyStalledDisplaced ==
    [][record.held /\ record'.epoch # record.epoch
         => quiet + lag[record'.owner] > OwnerStall]_vars

\* The lease of a crashed owner does not block the others for ever.
DeadOwnerReplaced ==
    (record.held /\ record.owner \notin alive)
        ~> ~(record.held /\ record.owner \notin alive)

-----------------------------------------------------------------------------
\* What makes the properties above inductive.

\* A held record has an owner; epochs start at 1.
RecordWellFormed == record.held => record.owner \in Participants /\ record.epoch > 0

\* Grants lie in the past of the record, the newest one with the record's owner.
GrantsArePast ==
    \A p \in Participants : \A e \in installed[p] :
        /\ 0 < e
        /\ e <= record.epoch
        /\ e = record.epoch => record.owner = p

\* A participant believes only in leases it was given.
BeliefsAreGrants ==
    \A p \in Participants : held[p] # 0 => held[p] \in installed[p]

\* An observation is the record or an older one, and an observation that has the
\* record's key is the record itself, dated no earlier than it was published, but for
\* the time that passed between the sample and the read.
ObservationsArePast ==
    \A p \in Participants :
        /\ basis[p] = record \/ Newer(record, basis[p])
        /\ basis[p] = record => keyAge[p] <= quiet + lag[p]

\* A key that had stalled at the sample in hand has stalled.
SamplesArePast ==
    \A p \in Participants : stalled[p] => pc[p] = "sampled" /\ Stalled(p)

\* A claim is made only on a vacant record or one that was watched to stall.
ClaimsAreJustified ==
    \A p \in Participants : pc[p] = "claim" => Vacant(basis[p]) \/ Stalled(p)

LeaseInvariant ==
    /\ TypeOK
    /\ RecordWellFormed
    /\ GrantsArePast
    /\ EpochGrantedOnce
    /\ BeliefsAreGrants
    /\ ObservationsArePast
    /\ SamplesArePast
    /\ ClaimsAreJustified

Fence == INSTANCE Fencing WITH
    epoch <- record.epoch,
    holder <- IF record.held THEN record.owner ELSE NoOwner

\* The lease implements the abstract fence.
ImplementsFencing == Fence!FencingSpec

=============================================================================
