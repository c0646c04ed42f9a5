# Okto Grafx: a TLA+ model of the storage protocols

This directory holds TLA+ modules for the protocols that keep an Okto Grafx
database correct when several processes share one directory, several threads
share one buffer pool, and any of them may die: the writer lease, the two-slot
control record, commit and checkpoint, recovery of a damaged log, the buffer
pool, and the heap file with its versions, vacuum and identity ranges. TLC
checks the modules on small instances; TLAPS proves the main properties of the
lease, the control record, the commit protocol and the flights of the buffer pool
for every instance. Paths below are relative to the repository; `engine/...`,
`adapters/...` and `domain/...` are under `src/okto_grafx/`.

## The system

Okto Grafx is an embedded graph database. There is no server: every process
that opens the directory is a *participant*, and participants meet only in
files.

| Part | Code | Here |
|---|---|---|
| Writer lease, fencing epochs (C3) | `adapters/coordination_local.py` | `WriterLease`, `Fencing` |
| Reader registrations (C3) | `adapters/coordination_local.py`, `engine/coordination.py` | the pin, the horizon, pruning and re-registration in `CommitProtocol` |
| Exclusive sections (C3) | `adapters/coordination_local.py` | an atomic lock in `CommitProtocol` |
| Two-slot control record (CE-1) | `domain/control_record.py`, `engine/commit_state_store.py` | `ControlRecord` |
| Transaction manager (C5) | `engine/txn_manager.py` | `CommitProtocol`, `SnapshotStore`; row placement, undo and identity ranges in `HeapStore` |
| Checkpoint, log recycling | `engine/txn_manager.py`, `engine/coordination.py` | `CommitProtocol` |
| Commit redo | `engine/commit_redo.py` | `CommitProtocol`, `WalRecovery` |
| Write-ahead log (C4) | `engine/wal_manager.py`, `domain/wal/` | `WalRecovery`, without epoch check, append undo and tail refresh |
| Recovery (C6) | `engine/recovery_manager.py`, `domain/recovery/` | `WalRecovery`, and the reopening in `CommitProtocol` |
| Quarantine, ledger | `engine/quarantine.py`, `engine/ledger_store.py` | what recovery uses of them, in `WalRecovery` |
| Buffer pool (C1) | `engine/buffer_pool.py` | `BufferPool`; a cache per participant in `CommitProtocol` |
| Heap store, vacuum (C1) | `engine/heap_store.py`, `engine/txn_manager.py` | `HeapStore` |
| Identity ranges (CN-1) | `engine/txn_manager.py`, `engine/heap_store.py` | `HeapStore` |
| Storage adapters (C2) | `adapters/storage_*.py` | visible before durable, barriers, torn writes, removed names that come back |
| Catalog, commit catalog, system history | `engine/catalog_store.py`, `engine/commit_catalog_store.py`, `engine/system_history_*.py` | no |
| Index framework (C7), full text, hybrid | `engine/index_manager.py`, `engine/ordered_index.py`, `engine/fulltext*.py` | no |
| Vector engine (C9) | `engine/vector_engine.py`, `domain/vector/` | no |
| Query engine (C10), values | `engine/query_engine.py`, `domain/query/`, `domain/model/`, `domain/temporal*.py` | no |
| Backup, transfer, import and export | `backup.py`, `transfer*.py`, `catalog_copy.py`, `arrow.py`, ... | no |
| API, runtime, metrics, verifier, CLI (C0, C8, C11-C13) | `api/`, `runtime/`, `adapters/metrics_*.py`, `engine/verifier.py`, `cli/` | no |

`PROJECT.json` gives the reason for each "no", maps every definition to the
lines it models, and lists the hazards of the code with the properties that
watch them.

How the parts interact, for one commit: the participant takes the writer lease,
enters `COMMIT_SECTION`, first completes whatever a dead predecessor left
durable but unpublished (*the gap*), validates its read and write partitions
against the commits above its snapshot, places its rows in heap pages through
its buffer pool, appends a batch with the images of those pages to the log,
forces it (the commit point), flushes the pages, publishes the new watermark in
`commit.state`, and leaves. A refusal before the append takes the placed rows
back. A checkpoint forces the data files and raises the checkpoint position in
`commit.state`, after which the log is recycled up to the oldest position a
reader or a recovery needs. Vacuum is a commit that frees versions nobody can
see. Opening a database runs recovery: scan, decide what the trustworthy prefix
is, preserve and cut the rest, redo from the checkpoint, publish.

The modules meet at these points. `ControlRecord` shows that `commit.state` and
`writer.lease` are replaced atomically, which `CommitProtocol` and `WriterLease`
assume. `CommitProtocol` has one atomic image per page and commit; `HeapStore`
opens that step up into rows, evictions and flushes, and `BufferPool` into pins,
loads and evictions of several threads. `WalRecovery` opens up the log into
records and segments. `Fencing` and `SnapshotStore` are the promises the lease
and the commit protocol are shown to keep.

One thing the model made plain: the safety of commits rests on
`COMMIT_SECTION`. The lease only ever refuses an operation; no property of
`CommitProtocol` needs it.

## Modules

### `WriterLease` (and `Fencing`, `WriterLeaseProofs`)

`record` is `control/writer.lease`: owner, epoch, heartbeat. Every participant
has what it last observed and for how long (`_observe_lease`), a pending claim
between its decision and its publication, and the lease it believes to hold.
Outside `LEASE_SECTION` the code samples its clock, reads the record, and then
dates what it read with that sample. These are steps of their own (`Sample`, then
`Acquire`, `Takeover` or `Observe`), and time may pass and the owner may beat
between them: `since` is the age of the sample a participant carries, `stalled`
whether the key had stalled at it, and the history variable `lag` how much earlier
than the read a key was dated. `_published_record` reads first and samples after
(`ReadPublished`), and inside the section nobody replaces the record.
The other actions are `Install` (with `ClaimLost`, `ClaimFails` and `InstallThenRaise` for
the ways `_try_claim` ends), `Renew`, `RenewStolen`, `Release`, `ReleaseLost`,
`Crash`, and `Tick` for the clock. A publication that raises after its bytes
became visible is an outcome of its own, because `_publish` replaces the file
and then calls `durable_barrier`.

`Fencing` is what the lease promises: epochs are granted in increasing order,
one holder each.

### `ControlRecord` (and `ControlRecordProofs`)

`control/commit.state` and `control/writer.lease` are files of a header and two
slots. `slots` is what a process reads, `disk` what a power loss leaves. A
publication writes the slot that is not the newest valid one and then forces it
(`WriteSlot`, `WriteDone`, `Barrier`); `Abandon` is a publisher that dies in
between. A reader takes no lock, so its two slots may be of different moments
(`ReadStart`, `ReadLate`), and it reads again when what it got is damaged or
older than what it has seen (`ReadDecode`).

### `CommitProtocol` (and `SnapshotStore`, and five proof modules)

Several participants over one log, one `commit.state` and the data pages. A
page is its page LSN and the set of commits its bytes hold, so a page written
from a stale base shows as a missing commit. A batch is one log entry. `os` is
the page cache all processes see, `disk` what was forced; `durable` is the
forced length of the log.

The actions follow `TransactionManager`: `Begin` (floor, pin, read view),
`Rollback`, `LoadPage`; `StartCommit`, `EnterSection`, `ForceTail`,
`WritePage`, `PublishGap`, `AppendBatch`, `RefuseCommit`, `Barrier`,
`RecoverPostBarrier`, `PublishCommit`, `LeaveSection`; the checkpoint with its
barrier inside the section (`CheckpointInSection`) and the one whose barriers
run outside it (`Freeze`, `EndFreeze`, `SyncPage`, `StartFinish`,
`FinishCheckpoint`); `Fail` for a process that dies or latches
`recovery_required`, `PowerLoss`, `EnterRecovery`, `FinishRecovery`.

A checkpoint may take any other participant for dead and prune its registration
(the set `pruned`; `lapsed` remembers it until the participant registers again).
The participant keeps its pin in memory (`regPin`), and its open transaction may
then find the log above its snapshot recycled: `_require_log_retains_from`
(`RetentionLost`) refuses the commit.

`SnapshotStore` is what the protocol promises to callers: one growing history
under first-committer-wins, visible in prefixes, and no reported outcome is
taken back. `ImplementsStore` states the refinement.

### `WalRecovery`

One process and one directory, at the granularity of log records and segment
files. A record is intact, torn or decayed, forced or not. Commits append, force,
apply effect by effect and publish; a process dies in the middle of an append
(`DieInAppend`) or anywhere else (`Die`); a power loss cuts unforced tails
anywhere, keeps any subset of unforced pages and brings back segments whose
removal was not forced; a record may decay (`Rot`) and both slots of
`commit.state` may be lost (`LoseState`). `decided` remembers what the first
accepted recovery since the database went down meant to keep, until the database
is open again or something other than a process failed.

Recovery is `StartRecovery` (scan, plan, and the refusals of
`_validate_publication_lineage`), `Capture` and `RecordDiscard` for each
discarded item, the cut of `truncate_after` step by step (`Burn`,
`ReleaseNewest`, `RollCopy`, `RollFlush`, `RollRelease`, `DeferCut`, `EndCut`),
`Force`, `Redo`, `FinishRecovery`. Phase `refused` is `GrafxRecoveryRefused`,
phase `blocked` a capture refused because the quarantine holds other bytes
under the same name.

### `BufferPool` (and `BufferPoolProofs`, `PoolImagesProofs`, `PoolWritesProofs`)

The pool of one participant under several threads. A method that runs under the
pool guard is one step; a cold miss is several, because the device work happens
outside the guard: the thread reserves a slot with a load ticket, publishes a
dirty victim under an eviction ticket if the budget is full, reads the page, and
is admitted or told to start again when the read view changed meanwhile. `loads`
and `evictions` are the ticket tables, `waits` what a waiting thread waits for,
`doomed` the frames taken out of the table while somebody holds them, `grown`
and `abandoned` the pages the participant asked the device for.

The writing thread allocates and changes pages (an *attempt*), then stamps and
flushes them, or is refused and takes them back as `_undo_pages` does: it asks
once whether any page of the attempt reached the device, then drops every frame
or writes every page back. `page_write_fence` stops all flights around the
flush. Another participant commits by changing the device (`ForeignCommit`),
which the next read view notices (`begin_read_view`). The device may refuse a
read or a write.

A release names the page and the object (`Unpin`). An object that is neither
resident nor doomed is released from whatever frame stands under the name of its
page, marks it dirty if its holder had changed the object, and raises if nothing is
pinned there; a change made to such an object does not reach the pool (`Mutate`).
Only a `discard` makes such objects: it forgets the doomed frames of a page,
held or not, and `orphaned` collects those pages. The threads in `Stranded` may start
with one, so that the run sees what follows without first building up to it;
`pool_discard` starts from an empty pool and gets there by itself.

### `HeapStore`

The heap file of one table: page 0 is the directory with the extent of the table
and its identity floor, data pages are linked by `next_page`, versions carry
`xmin`, `xmax` and a link to the version they replace, and a payload too large
for a page is on an overflow page. `mem` is what the pool of the participant in
the section answers, `disk` the device.

An attempt enters with its identities (`EnterLeased`, `EnterInitial`,
`EnterReserve` for the refill that is a commit of its own, `EnterPlain` when it
needs none), places rows (`Insert`, `Update`, `Delete`, and under them
`WriteChain`, `AppendFits`, `AppendGrow`, `Link`, in the code's order), and
commits (`Commit`, `FlushPage` in any order, `Publish`) or is refused and undone
(`Refuse`, `UndoPage`, `Undone`). `Evict` writes a dirty page of a running
attempt back; `Die` ends the process at any point, with redo of whatever the log
holds. `Vacuum` frees up to a bounded number of versions below the oldest
snapshot, moves the links of those it keeps, and frees overflow pages.
`Begin` and `End` are the open transactions: a begin takes the published commit and
compares the reclaim floor afterwards, so its snapshot may be any earlier commit by
then, and the floor decides (`Retains`, `_require_snapshot_retained`). Vacuum runs
under `quiescent_maintenance_section`, which knows the transactions of its own
process only; that no other process has one open is the operator's part, and
`Quiescent` assumes it.

## Runs

Each cfg is checked with TLC on the MC module of its specification.

| Run | Shows | Bounds | States |
|---|---|---|---|
| `lease` | belief and record agree, the record never repeats, refinement of `Fencing`, a dead owner is replaced and only a stalled one is | 2 participants, 2 epochs, 2 heartbeats, threshold 1 | 0.5 M |
| `control_record` | readers against publishers that die, or against power losses | 1 reader, 4 records, 2 dead publishers, 2 power losses | 0.8 M |
| `commit` | first committer wins, pins keep the log, snapshots are complete, nothing acknowledged is lost, `commit.state` never retreats | 2 participants, 1 page, 3 commits, 2 checkpoints that may prune, a power loss | 2.9 M |
| `commit_crash` | no lost update, write-ahead, published is applied, refinement of `SnapshotStore` | 2 pages, 2 commits of which one reads what the other wrote, a failure and a power loss | 0.7 M |
| `recovery` | no ghost rows, acknowledged commits served and never cut, clean log, the watermark never falls, everything cut was preserved and entered in the ledger, a recovery whose process dies can be run again and ends with the log the first pass decided on | 3 transactions, 3 failures among crashes, one decayed record and the loss of `commit.state`; segments may roll | 1.0 M |
| `recovery_rerun` | **violation**: with `commit.state` lost, an interrupted cut cannot be run again | 3 transactions, 2 crashes, 1 loss | |
| `pool` | slots, pins, waits and freshness of the pool; a commit is written; an undo nobody interferes with is all or nothing; no write loses a commit | a writer and a reader, 2 frames over 3 pages, 1 attempt, 1 foreign commit, 1 device refusal (none in the start with a forgotten frame) | 1.2 M |
| `pool_discard` | **violation**: a release is taken from another holder's frame | a writer and a reader, 1 frame over 2 pages, 2 attempts, 1 foreign commit, no refusal | |
| `pool_undo` | **violation**: a reader evicts a page in the middle of an undo | a writer and a reader, 2 frames over 3 pages, 1 attempt, no refusal | |
| `heap` | a scan answers what the commits left, links and overflow pages stay intact, an identity is used once, ranges are disjoint | 2 participants, 3 pages of 2 versions, 3 identities of which one is named by callers, ranges of 2, 4 commits from 3 attempts and a vacuum, 2 rows per attempt, 1 open transaction, 1 death, 2 deaths and early write-backs together | 2.1 M |
| `heap_reader` | **violation**: a reader of another process meets a page nobody wrote | 4 pages, 2 attempts, no failure at all | |
| `heap_crash` | **violation**: a death while rows are placed leaves a broken chain | 4 pages, 2 attempts, 1 death, 1 early write-back | |

Why the bounds are enough to be interesting: two epochs are an owner and the one that
displaces it, each of which may come back late, renew, release or find its lease
gone. Four records overwrite each slot twice while one
read is going on, which is what it takes to refuse it. Three commits
are the fewest with one below the checkpoint, one above it and one that is being
validated against both; two checkpoints overlap. Two pages make a commit that is
half written. Three failures are a crash, a crash in the recovery from it, and
one that makes a preserved tail disappear and come back different. Batches of one
and two effects let the tear fall before, between and after the effects. Two
frames for three pages force every kind of eviction, and a writer that holds two
of them while a reader wants the third is a pool with no free slot. Three pages
hold a chain with a middle, two rows per attempt make one that grows the table
and links twice, and four commits let a record be inserted, updated, deleted and
reclaimed under an open snapshot.

`Workload` fixes, for each commit number, the reads and writes callers may have:
in `commit` the commits alternate over two partitions, in `commit_crash` the
second depends on the first. `MaxLoad` bounds commits, failures, power losses
(two each) and checkpoints (one each) together, and `MaxFaults` does the same for
crashes and losses: the corner where every bound is reached at once is cut off,
every pair of them is not. In `heap` the only reason to stop is a bound, so
deadlock is not checked there; everywhere else it is.

Fairness is assumed only in `lease`: the clock advances, a live participant
without the lease keeps polling (`acquire_writer_lease` is a loop: weak fairness of
`Sample`, and strong fairness of `Acquire`, because the same process may use a sample
for `takeover` or `detect_dead_owner` in between), and one that
is ready to publish again and again eventually enters `LEASE_SECTION` and either
installs its claim or finds it lost (strong fairness of `Install` with
`ClaimLost`, because a claim may fail and be made again).
The section is a file lock held for the replacement of one file. Nothing is
assumed of an owner: it may stop renewing at any time.

## Findings

All five are stated in `PROJECT.json` with the lines on both sides.

1. `HeapStore`, `heap_reader`: a commit that grows a table flushes its pages in the
   order of a set. The old tail, which already links to the new page, may be on
   the device before the new page is, and a reader of another process that scans
   the table at that moment is told the database is corrupt. Two processes on one
   directory reproduce it.
2. `HeapStore`, `heap_crash`: while rows are being placed, a pool smaller than the
   attempt may write the old tail back before the page it links to. If the process
   dies then, the log has no record of the attempt, so no replay repairs the chain,
   and every later scan of the table is refused. Killing a process at that
   point reproduces it. `WalkableAtRest` is what holds without such a death.
3. `BufferPool`, `pool_discard`: `discard` forgets the doomed frames of a page even
   while a thread holds one. When the page comes back, the late release of that
   thread is taken from the new frame, whose holder then has no pin: its page may be
   evicted while it is in use, and its own release raises. With one frame and two
   attempts TLC also finds a commit that is not on the device in this way. Calling
   `BufferPool` on the memory device reproduces the short count. `PinsAreHolders`
   says what holds on such a page (never more pins than holders) and elsewhere;
   `CommitWritten` and `UndoAloneIsAllOrNothing` leave those pages out.
4. `BufferPool`, `pool_undo`: `_undo_pages` asks once whether a page of the attempt
   reached the device and then drops the frames one by one. A reader of the same
   process can evict one in between, so part of a refused attempt reaches the device
   although the docstring promises all or nothing. The rows of it carry no commit
   number, but a chain may link to a page nobody wrote. `UndoAloneIsAllOrNothing` is
   what holds of undos that met no reader (`raced` has the others).
5. `WalRecovery`, `recovery_rerun`: the comments of `truncate_after` say an
   interrupted cut can always be run again. With `commit.state` intact it can
   (`InterruptedIsRerun` in `recovery`); with it lost the duplicates of the
   half-finished cut are taken for commits of unknown outcome. Opening a directory
   prepared that way reproduces it.

Observations the modules led to that have no run of their own:

* The two-slot design note (`docs/architecture/CE1_TWO_SLOT_CONTROL_RECORD.md:56`)
  says there is always a slot with a valid record. A publisher that dies between
  `write_page` and `durable_barrier` (`domain/control_record.py:650`), the next
  publication and a power loss during it leave none. Each kind of failure alone is
  harmless, which is what `OneKindOfFailure` in the properties of `control_record`
  says. Under both, `ReadIsRecent` and `RefusedOnlyWhenOvertaken` fail as well: the
  slots may then be of distant generations, or both be damaged.
* `domain/wal/segment.py:3-6` says a segment number is never reused. A cut on a segment
  boundary releases the segments above it and rolls nothing, and the next number is
  derived from the directory (`engine/wal_manager.py:580`), so a released number is
  issued again. `WalManager` on the memory device does so.
* A cut that is interrupted between the copy of a segment and the release of the
  original leaves copies of committed records. The next recovery preserves them like
  any other intact record above the damage, and the ledger then has reapplicable
  entries for transactions that are being served.
* `takeover` (`adapters/coordination_local.py:1280`) says a held lease is taken over
  only when the participant "has itself observed the heartbeat stall beyond its
  configured threshold". The clock is sampled before the record is read, so a
  participant that is held up between the two counts that time as well.
  `OnlyStalledDisplaced` has the exact bound.
* After a death an abandoned version may point at an overflow page that is free or
  was never written, and `_plan_overflow_reclaim` then refuses vacuum for the
  table. `OverflowAtRest` excludes attempts that ended half on the device (`torn`).
* The architecture document says a torn tail is truncated, and the code refuses if
  an intact effect without its COMMIT precedes the tear; this is deliberate, and
  `NoGhost` and `AckedNeverCut` are why.
* `WalRecovery` reaches `blocked` after three failures: an unforced tail is
  captured, lost in a power failure, and replaced by other bytes of the same place
  and length. `capture` documents that refusal.

## Proofs

TLC checks an instance; the theorems below hold for every value of the constants
that satisfies the module's named assumption. Each rests on an inductive
invariant, and each of those was checked with TLC on the instance of the
corresponding run before it was proved (`LeaseInvariant` is a property of
`lease`; the others are larger than what a reader wants from a run).
`LeaseInvariantHolds`, `CommitInvariantHolds`, `PageInvariantHolds`,
`RecordInvariantHolds` and `PoolInvariantHolds` state the five, and the theorems of
the table follow.

| Theorem | Module | States |
|---|---|---|
| `LeaseSafety` | `WriterLeaseProofs` | `EpochGrantedOnce`, `BelieverIsOwner` |
| `RecordNeverRepeats`, `LiveOwnerKeepsLease` | `WriterLeaseProofs` | every change makes the record newer; `OnlyStalledDisplaced`, with the time between sample and read as the only allowance |
| `LeaseImplementsFencing` | `WriterLeaseProofs` | the lease refines `Fencing` |
| `SerialisedCommits` | `CommitProtocolProofs` | `FirstCommitterWins` |
| `PagesFollowLog` | `CommitProtocolProofs` | `WriteAhead` |
| `PinsRetainLog` | `CommitProtocolProofs` | `PinKeepsLog` |
| `StateNeverRetreats` | `CommitProtocolProofs` | `NeverRetreats` |
| `CommitRefinesStore` | `CommitProtocolProofs` | the protocol refines `SnapshotStore` |
| `NoUpdateIsLost` | `CommitPagesProofs` | `NoLostUpdate` |
| `PublishedIsApplied` | `CommitPagesProofs` | `PublishedApplied` |
| `SnapshotsAreComplete` | `CommitPagesProofs` | `SnapshotComplete` |
| `AckedSurvives` | `CommitPagesProofs` | `AckedRecoverable` |
| `PublishedRecordStays` | `ControlRecordProofs` | `AckedRecordStays` |
| `ReadsAreRecent` | `ControlRecordProofs` | `ReadIsRecent` |
| `RefusedWhenOvertaken` | `ControlRecordProofs` | `RefusedOnlyWhenOvertaken` |
| `VisibleNeverRegresses` | `ControlRecordProofs` | `GenerationNeverRegresses` |
| `SlotsStayAccounted` | `BufferPoolProofs` | `SlotsAccounted` |
| `NobodyIsForgotten` | `BufferPoolProofs` | `NobodyWaitsForNothing` |
| `ViewsStayFresh` | `PoolWritesProofs` | `ViewIsFresh` |
| `NothingStaleIsWritten` | `PoolWritesProofs` | `NoStaleWrite` |

**The lease** (`LeaseAssumption`: threshold and bounds are naturals, the absent
owner is no participant). Records are ordered by epoch and heartbeat, and every
publication makes the record strictly newer (`ClaimIsNewer`, `BeatIsNewer`). What
a participant observed, what it claims and what it believes are all records of the
past, hence not newer than the current one; a claim is published only if the
record still equals what the claim was based on. So an epoch is minted at most
once, and a belief whose epoch is current is the record itself. `EpochGrantedOnce`
alone is not inductive: it needs `GrantsArePast`, or a claim could be given an epoch
that was granted already. That only a stalled owner is displaced needs
`ClaimsAreJustified` (a claim rests on a vacant record or on one watched beyond the
threshold), `ObservationsArePast` (a key is dated no earlier than its record was
published, but for the time between sample and read) and `SamplesArePast` (what had
stalled at a sample has stalled).

**Log and watermarks** (`CommitProtocolProofs`; `CommitAssumption` says how keys
lie in pages and what callers may write).
`CommitInvariant` orders the four watermarks (checkpoint, published, forced,
length of the log), ties the phase of whoever is in `COMMIT_SECTION` to where
they stand, keeps every standing registration at or below the snapshot it
protects, also between the floor and the snapshot of a `Begin`, and keeps every
page at or below the barrier. First committer wins because the section is held
from the validation to the append, so nothing is published in between; what
`_require_log_retains_from` refuses is exactly the case in which validation would
have looked at a recycled log. `StepKinds` sorts the actions by what they do to
the log, and the refinement maps each kind to a step of `SnapshotStore` or to a
stutter. The batches a power loss drops were never reported.

**Pages** (`PageStepsProofs`, `CommitPagesProofs`). A page
is *exact* if it holds all commits up to its LSN that wrote it, and *covers* a
position if no later commit up to that position wrote it. `PageInvariant`: every
image in the log, every page the processes see, every forced page and every cached
page is exact; a forced or cached page is not newer than the one the processes see;
forced pages cover the checkpoint, cached ones cover the read view, the own
publication and the snapshot of their participant; a redo or an apply has covered
the log except for the pages it still owes, a checkpoint outside the section the
target it will publish. `NoLostUpdate` is not inductive alone: whether an image
built on a cached page is complete depends on whether the cache covered what was
published, which depends on what `_establish_read_view` kept and why
(`Refreshed`: nothing another participant wrote above the old view survives in
the cache). `Exact` is stated relative to a log, and `Agree` transports it to a
longer or shorter one.

**The control record** (`ControlAssumption`: one attempt at least, bounds are
naturals). The newest record is in one slot, the publisher writes only the other
one and with the next generation, so until the write is complete the old record
leads. What a reader has in hand is behind the slots by at most the publications
that became visible since, and the generation rises with every attempt that
fails. That is what lets a refusal happen only after `ReadAttempts`
publications. As in the run, the first three properties are stated for histories
with `OneKindOfFailure` (either publishers die before their barrier or power
fails; see the findings for why), and the last for steps that are no power
loss.

**The buffer pool** (`PoolAssumption`: the writer is a thread, capacity and file
length are positive, bounds are naturals). `PoolInvariant`: a thread in flight and
the load ticket of the page it wants name each other; a detached victim has one
owner, which is in flight, and is not resident; a page that came back during its
load, through an allocation or a restored victim, made that load invalid; a
sleeping thread waits for a ticket that is still there, under the owner it
saw; the fence is up only in a pool without flights; resident frames and
reservations are within the capacity. The budget alone is not inductive: admitting
a frame stays within it only because the reservation it ends was for that page and
that thread. `Calm` collects the steps that start and end no flight, `Departs` and
`Lands` are the two ends of one, and the broadcast on the slot condition is dealt
with once (`SignalledWaits`, `StandingWaits`).

**The pool's images** (`PoolImagesProofs`, `PoolWritesProofs`; the same
assumption). `ImageInvariant` adds to `PoolInvariant` what the bytes are. `Fresh`:
a resident frame of a page in view, a detached victim, and the image a valid load
has read all contain what is on the device. `Dirt`: bytes the device does not have
belong to the attempt under way, whose view is the newest, and during an undo to
the pages it has still to visit. `FileEnd` and `Fallow`: nothing lies behind the
end of the file, and a page free for reuse is empty on the device, not resident,
not being evicted and nobody is after it. `NoStaleWrite` is not inductive alone:
that an evicted or late-released image contains the device's needs that no other
participant published while the page was dirty, which is what `Dirt` says; and an
allocation may hand out an abandoned page only because of `Fallow`.

Only model-checked:

* `DeadOwnerReplaced`: liveness under fairness.
* `PinsAreHolders`, `CommitWritten` and `UndoAloneIsAllOrNothing` of `BufferPool`.
  The first counts holders across the resident and the doomed frames of a page and
  needs that a fresh frame object is in nobody's hands; the other two relate the
  recorded outcomes to every page of an attempt and need history beyond
  `ImageInvariant`.
* Everything about `WalRecovery`: what a scan, a cut or a redo computes from the
  log is a fold over it, and showing it for logs of any length is an induction over
  data.
* Everything about `HeapStore`, for the same reason: chains of pages and versions
  are walked by recursive operators.

## Not modelled, and limits

* Byte layouts, checksums and codecs: a record, slot or page is intact, torn or
  decayed, and a checksum never accepts a damaged one.
* At most one log record decays. Decay of a whole applied but unpublished batch
  looks like a torn append, and no log of this format could tell them apart.
* A power loss cuts an unforced file at a record or inside one; blocks of zeros
  behind the cut are not modelled.
* `WalRecovery` never recycles the log and has one participant; `CommitProtocol`
  has several but a log without records and segments. Each leaves to the other
  what it abstracts.
* The log manager's epoch check, undo of a failed append and tail refresh.
* `BufferPool` has no log, one file and one writing thread, and its device work is atomic
  per page. Its readers never change a page, and the run has one of them; what is
  proved holds for any number. `HeapStore` has one table and no concurrent participants inside an
  attempt, which `COMMIT_SECTION` excludes, and its four commits allow one bounded pass of
  vacuum over a chain of three versions. `WalkableAtRest` and `OverflowAtRest` leave out
  the attempts a death left half on the device; `heap_crash` and `pool_undo` show what
  these are.
* Replacement of a control record both of whose slots are damaged, retirement of
  control records and read-only opening.
* The catalog, index, vector, query and interchange layers, which change state
  only through the modelled commit.
