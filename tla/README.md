# Ferrosa: a TLA+ verification of the transactional core

Ferrosa is a Cassandra-compatible database in Rust. Its nodes replicate rows,
agree on conditional statements with an implementation of the Accord protocol,
keep cluster metadata in a raft group, and store data in commit logs, memtables
and sstables. This directory models the parts whose correctness depends on the
order in which threads and nodes act: the path of one conditional statement
(`INSERT ... IF NOT EXISTS`) from its timestamp to its row, the hints that carry
missed writes to a replica, the commit log from the acknowledgement of a write
to its replay after a crash, and the authority to write in a pair of nodes.

All paths below are relative to `src/`.

## 1. The system and its parts

| part | state | operations | what is hard |
|---|---|---|---|
| hybrid logical clock, `ferrosa-common/src/accord.rs` | mutex-guarded (time, seq), poison flag | `now`, `witness` (`merge`, then `now`) | two critical sections per witness; wall clock steps back; sequence overflow |
| Accord protocol, `ferrosa-cluster/src/accord/{coordinator,handlers,state_machine}.rs` | coordinator rounds; per-replica `TxnState`s | PreAccept, Accept, Commit, Apply, read vote, no-write finalize | contention, requests in any order, late or lost; time-outs that race answers |
| conflict index, `ferrosa-storage/src/accord/conflict_index.rs` | entries and high-water mark per key | register, `set_commit_ts`, `deps_before_t0`, `gc_applied` | a bumped transaction known by two timestamps |
| apply engine, `accord/{apply,dep_wait,state_machine}.rs` | dep-wait graph, parked write-sets, reservations | begin, register, park, persist, cascade, finish, release, prune, reclaim | two locks, and neither covers the durable write |
| decided-transaction tombstones, `accord/finalized.rs` | exact tombstones, floor | record, `advance_horizon`, `enforce_capacity`, restart | bounded memory of an unbounded past |
| row merge and read at t, `accord/apply.rs` | cells with a timestamp | `restamp_row`, `read_row_at` | what part of a timestamp a cell keeps |
| hinted handoff, `ferrosa-cluster/src/hints`, `controller/peer_events.rs` | segment files, counters, a delivery task | store, drain, replay, cleanup, recover | stores during a delivery; restart; partial sync |
| Accord recovery, electorate and epochs, cross-shard commit, protocol log | ballots, epochs, shard sets, log frames | recover, drain, commit, replay | a coordinator that dies; a membership change during a round |
| consistency-level coordinator, batch log, repair | response sets, hints, Merkle trees | read, write, batch, repair | partial success |
| pair mode, `ferrosa-cluster/src/pair`, `controller/{pair,operator,peer_events}.rs` | role, durable authority record, challenge, handoff gate | pair, fence, Prepare, Grant, promote, catch-up, write, forward | a lost grant; a crash between persist and role; writes and handoffs that wait on each other |
| raft group, election guard, quarantine | log, state machine, suppression windows | append, vote, snapshot, suppress | (openraft does the consensus) liveness of the guard |
| controller, membership, ring, streaming, rebalance | membership state, ranges | join, leave, move | long orchestration with restarts |
| commit log, `ferrosa-storage/src/commitlog`, write and flush paths of `engine.rs` | segments, `SyncHealth`, dirty marks, checkpoint file | append, sync, rotate, flush, discard, replay | lock-free accounting of what is durable; a flush position read beside running writers; a crash during replay |
| storage engine, flush, compaction, upload, eviction | memtables, sstable sets, intents | write, flush, compact, upload, evict | crash between publishing and retiring |
| `ferrosa-sched` | run queues, permits | admit, run, release | starvation, lost permits |
| `ferrosa-net` | lanes, connections, pending requests | send, condemn, redial | a stale failure drops a fresh connection |
| query front ends and formats (CQL, PostgreSQL, graph, SPARQL, SQL, Flight, sstable, JSONB) | sessions, plans, bytes | parse, plan, encode | data more than control |

`PROJECT.json` lists every part with its sources and status and, under
`hazards`, where in the code each hard behaviour bites and which property would
catch it going wrong.

How they interact: a front end routes a conditional statement to the Accord
coordinator. The coordinator takes t0 from the clock and sends its rounds over
`ferrosa-net` to the key's replicas. A replica's handler consults the
tombstones, votes from its conflict index and its `TxnState`s, logs and
answers. A committed transaction's write-set goes through the apply engine into
the storage engine, and the maintenance loop prunes it into the tombstones.
Ordinary writes that miss a replica become hints on the coordinator. Every
write of a node's storage engine goes through its commit log first. A cluster of
two nodes runs in pair mode, in which the node that is primary applies a write
and replicates it, and the other forwards to it.

## 2. Modules

| module | models | state kept |
|---|---|---|
| `HLC` | one node's clock, several callers | the pair, the poison flag, each caller's place in `witness` |
| `ApplyEngine` | one replica's apply path under its locks | `TxnState`s, graph, parked write-sets, each worker's place |
| `AccordTxn` | coordinators and replicas on one key | rounds, votes, `TxnState`s, index, rows |
| `Decisions` | the promise of a decision record: a set of decided transactions that only grows | the set |
| `FinalizedTxns` | the bounded record that keeps that promise | floor, tombstones, clock |
| `Hints` | store and delivery for one peer | segment files, counters, mark, delivery task |
| `CommitLogSync` | one commit log's `SyncHealth`, its writers and its sync thread | the atomics, each writer's and the thread's place |
| `CommitLog` | segments, memtables, flushes, checkpoint, crash and replay | entries in buffers and files, marks, positions, each client's place |
| `PairAuthority` | two nodes in pair mode with their clients and operator | authority records, roles, gate, messages, writes |
| `ApplyInvariants`, `AccordInvariants`, `AccordOrderInvariants` | the inductive invariants of the longer proofs | |
| `HLCProofs`, `ApplyEngineProofs`, `AccordTxnProofs`, `AccordOrderProofs`, `FinalizedProofs`, `HintsProofs`, `CommitLogSyncProofs`, `PairAuthorityProofs` | theorems about these, except `CommitLog` | |
| `MC*` | the instances TLC runs | |

Where a property leaves something out because the code does not provide it, the
comment on the property says so, and section 5 gives the source lines.

The modules meet at their boundaries. `AccordTxn`'s `clock` is the monotone
clock `HLC` establishes, its `tomb` is the promise `Decisions` states and
`FinalizedTxns` is shown to keep (a refinement, checked and proved), and its
`Apply` is the outcome whose locking and ordering `ApplyEngine` models.
`CommitLog`'s `SyncThread` and `Covered` are one step each; `CommitLogSync` takes
them apart into the loads and stores of the code and shows that what
`durable_seq` covers is on disk. `PairAuthority`'s `store` is what an acknowledged
local write of `CommitLog` leaves.

Operators named `Mut...` are deliberately wrong variants of a definition of the
model, each a plausible slip in the code. They are not used by any
specification; they document that the property named with them in
`PROJECT.json` notices the slip.

### HLC

`Now` is `now` in one critical section. `witness` is three steps
(`MergeCheck`: the drift check against a wall clock read before the mutex;
`MergeAdopt`; `WitnessMint`) between which other callers run. Sequence overflow
panics while the mutex is held and poisons it until a restart. The wall
clock is the environment's: it stands still, advances or steps back. A restart
of the process takes longer than the clock's greatest lead, `MaxDrift`, over
the wall clock; without that assumption a restarted clock can repeat a stamp.
The epoch is 0 in all of the code's calls and is left out.

### ApplyEngine

A worker is a thread inside the engine. `Task` are inbound Applies, which hold
the state lock only to begin and to finish; `Handler` is whoever works in the
engine while holding the state lock (a Commit that releases waiters, a no-write
finalize, the coordinator's own apply). Each acquisition and release of a lock
that another thread can observe is a step of its own: `BeginApply`,
`RegisterWaits`, `Park` or `Persist`, one cascade step at a time (`ApplyUnblocked`),
`LeaveGate`, `FinishApply`. The reclaim of stale parks is three steps
because the code takes three critical sections, none of them under the gate.

Abstractions: a transaction's write-set is present or not and its storage write
succeeds or fails; the Accept phase is folded into `PreAccepted` (the engine
does not tell them apart); the failure of a marker's own fsync and panics
inside `run_blocking` are left out; `waited_by` is the inverse of `waitingOn`; a
handler that waits for the gate while it holds the state lock is one step with
its acquisition, which loses nothing because nobody else can take the state
lock meanwhile.

### AccordTxn

One partition key, any set of transactions, plain writes or conditional
inserts, each with its coordinator on any node, replica or not. Which nodes are
replicas and where each transaction is coordinated is fixed at the start by one
of the constant `Setups`. Coordinator:
`Begin`, `SendPreAccept`, `FastPath`, `NeedAccept`, `SlowPath`,
`CommitQuorum`, `GatePassed`, `ConditionNotMet`, `ApplyQuorum`, `LocalDone`,
`RoundFails`, `ApplyFails`. Replica: `PreAccept`, `Accept`, `Commit`,
`DepWait`, `ReadRow`, `AbstainRead`, `Apply`, `NoWrite`, `Prune`.

A reply is recorded when it is sent, and a decision ranges over every subset of
the replies the coordinator can have heard, which covers all orders, delays and
losses of replies. A request is handled at most once per replica, at any time
after it was sent. That any order is possible follows from
`ferrosa-net/src/rpc/server.rs`, which spawns one task per received frame.
`Env` says what else may happen: `fail` (a round times out or fails, a
read vote abstains), `late` (a PreAccept is overtaken by the later rounds or never
arrives), `fsync` (a
replica's log write fails), `prune` (the maintenance loop runs).

Abstractions: the coordinator's decision and the handling of its own local
Accept or Commit are one step (nothing observes the state between); a failed
fsync of the local Commit is `RoundFails`; `tomb` stands for an exact tombstone
or the floor; cells are `Value`s with the timestamp the code gives a cell, that
is, without the sequence number and node. Out of scope: ballots above 1
(nothing in the node's wiring starts a recovery), the leaseholder's implicit
vote, several keys, the snapshot barrier and the PostgreSQL snapshot checks, and
a replication factor of 1, which has no remote votes. With two replicas the
fast quorum is one vote and the coordinator skips its own, as in the code.

### FinalizedTxns and Decisions

The calls `handle_preaccept`, `prune_applied`, the no-write finalize and the
maintenance loop make on the record, with time. A transaction is its t0.
Records at the same time differ by node (`Width`). Coordinators lead this
replica's clock by at most `Drift`. A restart loses every tombstone and starts
with the floor at the clock; the model lets it take at least `Drift`, which the
code's comments name as the residual risk. The epoch is constant.

### Hints

One peer, since the peers' states are independent. A record has unit size, so
bytes and records are one counter, and a segment's size counts records. A drain
fixes a mark and then reads segments lazily; segments up to the mark are no longer
written. Batching of a delivery is left out: the code stops at the first
failure in either case. Left out: a failing write of an append (only the sync
fails), and a single record larger than a segment, whose second `SegmentFull`
the code ignores (`hints/mod.rs:270`).

### CommitLogSync

A writer is one call of `CommitLog::append_record` and then of `on_write`:
`Append`, the two halves of `note_write` (`NoteWrite`, `NoteStamp`), and then
either the Group strategy's wait under the `flush_complete` mutex (`Lock`,
`CheckDeadline`) or `admit`, whose three loads are three steps (`AdmitDead`,
`AdmitFailing`, `AdmitAge`). The sync thread: `Take`, the two reads of
`begin_sync` (`Take`, `Ticket`), `Flushed` or `FlushFails`, the three stores of
`sync_succeeded` (`Advance`, `Store`, `Settle`), `Wake`. Around it: a `Panic` in
the flush loses the count the thread took and marks it dead, the supervisor
replaces it (`Restart`), `stop_inner` raises the flag and syncs once more (`Stop`,
`FinalSync`).

Abstractions: sequentially consistent atomics (the code uses `SeqCst` or
acquire/release pairs on these counters); one segment; condition variables are
waited on with a timeout, so a waiter may look again at any time; the batch
window and the poll interval are any amount of time. Batch sync waits for no
counter and is in `CommitLog`.

### CommitLog

A client makes a single write, a batch logged mutation by mutation, or a batch
logged as one transaction record. The write path is `AppendRecord` (up to
`writer_done`), `NeedRotation`, `Swap`, `Seal`, `FinishRotation` (`force_rotate`),
`Mark` (`mark_table_dirty`), `OnWrite` and `Covered` (the strategy), `ForceSync`,
`Apply` and `StorePosition` (memtable, then `last_commit_log_position`). A table
flush is `BeginFlush`, `SwapMemtable`, `WriteSSTable`, `CheckSegments`,
`RemoveMarks`, `SaveCheckpoint` (`flush_under_recovery_gate`, `finish_flush`,
`discard_completed`); `CollectSegments` is the maintenance pass. `Crash` keeps
files, SSTables and the checkpoint; `OpenLog`, `ReplayEntry`, `ReplayRotate`,
`ReplayBarrier`, `Unlink`, `ReplayDone` are `open_and_replay_streaming`.

Three history variables collect the mutations that a window in the code leaves
without a guarantee, from the step that opens the window to the one that closes
it:

- `raced` (window 1): a table flush reads its position while a writer at or below
  it has not reached the memtable, also a writer delayed into a segment that was
  just swapped out. Ends when that flush fails.
- `stranded` (window 2): a sync that flushes only the active segment reports an
  entry durable that lies in one a rotation has not flushed yet. Ends when that
  segment is flushed.
- `unmarked` (windows 3 and 4): a dirty mark set between the two halves of
  `discard_completed` is removed, or a segment is deleted before its writer marked
  it.

A restart that finds the mutation ends all three. Each property exempts only the
windows it must: `CheckpointCovers` `raced`, `RecoverableIsKept` `raced` and
`unmarked`, `AckedIsRecoverable` and `RecordIsAtomic` all three (a record is exempt
when one of its members is). Section 5 gives the source lines.

A flush of an empty memtable writes no SSTable and advances the checkpoint all
the same (`BeginFlush`).

Abstractions: an entry has unit size, a segment `SegSize` entries, an offset is
an index; a flush of a segment covers whole entries because the code waits for
writers and checks a CRC per entry; SSTables are a set of mutations, published
atomically; archiving is off; all tables are registered.

### PairAuthority

Nodes 1 and 2 in the order of their host ids. `Connect`, `Disconnect`
(`on_peer_connected`, `transition_to_pair`, peer loss), `ReplayLog` (catch-up of a
peer by a promoted node), `PromotePair`, `PromoteStandalone` (`force_promote`),
`Switchover`, `Prepare`, `Withdraw`, `HandoffEnds` (`initiate_switchover`),
`HandlePrepare`, `HandleGrant` (`RoleSwapHandler`), `Submit`, `Admit`,
`ApplyLocally`, `ApplyFails`, `Answered` (`coordinate_write_with`), `HandleWrite`,
`HandleWriteFails`, `ServeEnds` (`PairWriteForwardHandler`), and `Crash`, `Restart`, `Lose`. The authority record
is replaced by an atomic rename; when that fails, the old file or (directory fsync
failed) the new one is in place. A request may be lost, its answer may come too
late and is then ignored, and the answer to a caller that has given up is
dropped. A local write or its fsync may fail, with or without the mutation in the
log. A catch-up begins when a promoted node enters its pair (`BeginCatchUp`): what
its log then holds, which may be less than its store, is `owed` to the peer until a
replay of it is acknowledged. `OperatorPromotes` is the operator's word that the peer is dead, which
`force_promote` asks for and cannot check.

Abstractions: both nodes have the `PAIR_AUTHORITY` capability; a challenge is
the number of the request that asked for it, where the code draws a random one;
a request that is issued once more because its pool was replaced is one request;
reads, removal of a peer and growth to three nodes are left out. Two history
variables name what the code does not prevent. `contested`: a node without a
record made itself primary beside a record of the peer that claims the same.
`OnePrimary`, `OneWriterAtATime` and `NeverStuck` are about behaviours before that.
`lone`: the writes that a fenced node forwarded to a node that is fenced too, which
confirms them alone. `AckedIsOnBoth` is about all others.

## 3. Runs

`tlc -workers 2 -config <cfg> <module>`. A run checks the properties of its cfg.

| run | instance | checks | shows |
|---|---|---|---|
| `hlc` | two concurrent `witness` callers, a peer that wins ties, `MaxDrift` 1, `MaxSeq` 2, wall clock up to 3, restarts | `ClockLeadBounded`, `MintsIncrease`, `WitnessReturnsAbove` | stamps of a node strictly increase, also over a restart and a wall clock that steps back; the clock never leads the highest wall reading by more than the drift; an admitted witness returns a stamp above the remote |
| `ApplyOrder` | three transactions (see below), one abandoned, two inbound Applies, each delivered up to twice; 20,255 states | `DurableIsReported`, `NoWaitOnLater`, `ApplyOrder`, `EventuallyApplied` | rows become durable in dependency order; no wait behind a later transaction survives; durable rows are reported; waits, cascade and releases leave nobody behind |
| `ApplyDurable` | the same transactions with every environment behaviour | `AppliedImpliesDurable` | what is reported applied is durable, whatever happens |
| `TxnContend` | two inserts, on three replicas or on two, coordinated by replicas or from outside (`TwoAnywhere`); a replica handles a transaction's PreAccept before its later requests, otherwise any order; 313,094 states | `OneInsertWins`, `ExecutionTimesDiffer`, `RealTimeOrder`, `CommitsAgree`, `NeverStuck` | one insert wins, the order is agreed and respects real time, nobody waits forever |
| `TxnFaults` | one insert in the same places (`OneAnywhere`), failures, late requests, failed fsyncs, pruning; 50,317 states | `AcknowledgedOnQuorum`, `NotAppliedWritesNothing`, `FinalizedNeverPending`, `PendingOnlyIfMissed` | an acknowledged write is on a quorum; one that was refused or failed before its Apply round is nowhere, then and later; finalized means never pending again; in the end a transaction is pending only where neither its Apply nor its no-write finalize was handled |
| `TxnDoubleInsert` | the two inserts on three replicas, requests overtake each other (`late`) | `OneInsertWins`, **violated** | two inserts of one row are both acknowledged (section 5) |
| `Finalized` | three transactions at times 1, 2 and 4, capacity 1, retention 3, clock up to 6; 131,086 states | `KeepsPromise` (refinement of `Decisions`), `TypeOK`, `AckableWasApplied`, `UsableIsAccepted` | a decision is never forgotten, nothing is acknowledged that was not applied, and no coordinator that still listens is refused for retention alone |
| `Hints` | three hints, segments of two, budget three, two failures of any kind; 29,555 states | `AcceptedIsKept`, `DeliveredInOrder`, `PendingCovers`, `HintsReachPeer` | until a restart or a failed sync, a hint is on file or delivered unless its segment was skipped as unreadable, first deliveries keep the order and every other hint arrives; the sweep sees what is left, always |
| `LogSync` | two writers, Periodic and Group, deadline 1, clock up to 2, two failures, panics or stops | `UnsyncedHasAge`, `DurableIsOnDisk`, `AckedWithinDeadline` | the age of an unsynced write is never lost; what `durable_seq` covers is on disk; a periodic write is admitted only while the backlog is young |
| `LogLive` | one writer, the same | `EveryWriterAnswered`, `BacklogSynced` | nobody waits for a sync that never comes; what a dead thread left is synced by its successor |
| `Log` | three clients, two tables, every sync mode, segments of two entries, two flushes, two crashes or failed fsyncs; 1,103,718 states, about 2 minutes | `AckedIsRecoverable`, `CheckpointCovers`, `RecordIsAtomic`, `RecoverableIsKept` | what was acknowledged survives every restart; the checkpoint covers only what an SSTable holds; a transaction record is found whole or not at all; no flush, deletion or replay step loses what a restart would have found; mutations in one of the log's windows excepted |
| `Pair` | two writes, four calls, two generations, two crashes, losses, failed stores or failed writes; 1,997,387 states, about 2 minutes | `OnePrimary`, `OneWriterAtATime`, `PrimaryIsRecorded`, `NeverStuck`, `AckedIsOnBoth`, `CaughtUpFirst` | a primary is on record; a write at ALL is on both nodes, `lone` ones excepted; a handoff does not overtake a catch-up that was begun; and until an election is `contested`, never two primaries or two writers, and nobody waits on everybody |

**Bounds.** The apply instance has transaction 1 bumped past 2 and 3 (execution
times 4, 2, 3) while both depend on it and 3 also depends on 2: the smallest
graph with a chain, a dependency that is dropped because it executes later, and
a waiter with two reasons to wait. Two inbound Applies and the state-lock holder
are one more thread than any pair of critical sections needs. In the protocol
two transactions with the same key and different coordinators are the smallest
contention, three replicas the smallest group in which the fast quorum (3), the
slow quorum (2) and a silent replica differ. In the record, capacity 1 makes the
second decision evict, and the clock runs past the retention of the first
transaction. In the hints, three hints fill one segment and begin another, and
the budget is reached. In `LogSync` two writers are the smallest backlog that
one sync can cover in part, and two faults are a failure during the recovery
from a failure. In `Log` a segment of two entries is filled by one client and
overflowed by the next, a batch spans two segments, and the second crash can
fall into the replay of the first. In `Pair` two faults let a crash meet a lost
grant, and generation 2 is reached by one handoff after a pairing.

Larger instances were run once. They finished without a violation for
`TxnContend`'s transactions with `fail` (4.1 million states), for two inserts at
fixed replicas with `late` (1.06 million; `ExecutionTimesDiffer` and
`RealTimeOrder`), for four transactions in the record (5.4 million) and for four
hints with three failures (1.9 million). Two were stopped unfinished without a
violation: two inserts with `fail` and `fsync` after 24 million states, with
`fail` and `prune` after 17 million.

**Deadlock** is checked for `hlc` and `Finalized`, whose systems always have a
step. In the others a finite set of transactions, hints or writes is worked off
and the system then rests, so `CHECK_DEADLOCK FALSE`; that it does not rest early
is what `NeverStuck`, `EventuallyApplied`, `HintsReachPeer` and
`EveryWriterAnswered` say.

**Fairness.** Weak fairness of steps that the tokio runtime or the operating
system schedules (handlers, coordinator tasks, workers at a free lock, the sync
thread and its supervisor). In `ApplyEngine` each message is also delivered
once. In `AccordTxn` only the coordinator's task is fair, and its rounds end by a
timeout if not otherwise; no request has to arrive, since Accept, Commit and Apply
are sent once and the no-write finalize a bounded number of times. In `Hints` the
sweep interval comes round, the peer returns, and failures are finite (`MaxFaults`). In `CommitLogSync` time passes, and taking the
`flush_complete` mutex is strongly fair: it is released again and again, and a
thread that asks for it gets it some time.

**Symmetry** is used only for interchangeable threads (`Caller`, `Task`) and
only in runs without a liveness property.

## 4. Proofs

TLAPS checks these for every value of the constants that satisfies the named
assumptions of the module. Each invariant was checked by TLC first, on the
instances of the runs or on those named here.

- **`HLCProofs`**: `LeadBounded`, `MintedStampsIncrease`, `WitnessAbove`, from the
  inductive invariant `ClockInv`. The bound on the lead alone is not inductive:
  a caller between the drift check and the adoption holds a remote stamp that
  the wall clock may have stepped back from, so the invariant bounds it by the
  highest wall reading, and says that the clock is at or ahead of every stamp
  minted and of every remote adopted.
- **`ApplyEngineProofs`**: `AppliedIsDurable` for every environment, from
  `DurableInv` (whatever a worker is about to report has rows).
  `DurableReported`, when no Commit arrives after the transaction was decided
  and forgotten, from `ReportInv` (what the engine holds belongs to a known
  transaction, a tombstone ends a state, only a worker in or after its cascade
  has something to report). `NoWaitLeftOnLater`, when Commits precede their
  Applies and none arrives late, from `LaterInv`: a wait that is out of order is
  still owned by somebody who will release it, the handler that committed the
  dependency or the worker that is registering it. `AppliesInOrder`, for
  environments of `prune`, `fault` and `late`, from `TurnInv`: who is about to
  persist has every dependency it counts durable or forgotten, and whoever
  waits is parked. The conditions are needed: TLC violates `NoWaitOnLater` with
  `overtake` or `late` beside `prune`, and `ApplyOrder` with `overtake`, `unknown`
  or `reclaim` beside `prune`.
- **`AccordTxnProofs`**, for any number of transactions, any sets of replicas and
  all faults: `TxnTypes`; `AcknowledgedIsHeld`, `FailedWritesNothing`,
  `NoZombieConflict`; `CommitIsAgreed`. Every step is first reduced to what it can
  do to one transaction at its coordinator and on one replica (`Effects` in
  `AccordInvariants`, lemma `StepEffects`); the invariants are then proved against
  these few effects rather than against twenty-one actions. `RoundInv` says which
  requests a coordinator has broadcast in each phase. `HoldInv` says that what a
  replica holds was decided by those rounds, that rows and finalized states have
  a request that explains them, and that the acknowledgements a coordinator
  counts stand for rows. `ProposedInv` adds that until the Accept or Commit round
  a replica holds its own proposal and that this is what it voted.
- **`AccordOrderProofs`**: `TimesDiffer`, while no sequence number saturates
  (`SeqFits`) and nothing is pruned, from `StampInv`: an agreed timestamp is t0 or
  carries the number of a replica that still holds it, and no replica gives the
  same one out twice. `RealTimeIsKept`, when a PreAccept is handled before the
  later rounds, no fsync fails, and pruning has more than two replicas
  (`InOrder`), from `OrderInv`: a slow quorum has marked an acknowledged
  transaction's timestamp and votes above it from then on, and the quorums of a
  later transaction meet it. `OneWins`, for any number of inserts and no faults
  (`OnlyInserts`), from `InsertInv`: of two inserts that get to write, the one
  ordered first is held by a quorum the other's read must meet, where the read
  waits for it or its vote comes later. The conditions are needed: TLC violates
  `ExecutionTimesDiffer` with `prune` (three replicas, coordinators 0, 0 and 1),
  `RealTimeOrder` with `late` and with `fsync`, `OneInsertWins` with `late`, and
  with a plain write that replaces an insert's row. TLC checked `InsertInv` also
  for three inserts on two replicas and with a row that was there before.
- **`FinalizedProofs`**: `TypeCorrect`, `AckNeedsApply`, `LiveCoordinatorHeard`, and
  `ImplementsDecisions`, the refinement of `Decisions`. The invariant: tombstones
  lie above the floor, what was recorded is covered by a tombstone or the floor,
  nothing is known of a transaction before it was minted (which is why a restart
  may raise the floor to its clock), and the floor has one of three reasons, a
  restart, an eviction or the retention. `LiveCoordinatorHeard` uses the
  assumption `RetentionCovers` (60 s against 10 s and 500 ms in the code).
- **`HintsProofs`**: `StoreTyped`, `KeptUnlessUnreadable` (`AcceptedIsKept`, and that
  nothing is skipped where files can be read), `DeliversInOrder` and
  `CountCoversPending`, for any number of hints, segment size, budget and
  failures. The invariant accounts for a delivery in progress (every hint of a
  covered segment was replayed, is in the reader, or in a segment still to be
  read), says that as long as there was no restart and no failed sync the next
  segment to be created is a new file, that the files hold the hints in the order
  they were accepted, and that the counters cover the files whatever a cleanup
  subtracts beside a store.
- **`CommitLogSyncProofs`**: `OnlyOnDiskIsDurable`, `AgeIsKept` and `LossIsBounded`
  from `SyncInv`, for any number of writers and faults. The counters are read and
  written one at a time, so the invariant follows the numbers through the
  thread's registers: the ticket it holds covers only what the flush took, so
  `durable_seq` covers only what is on disk, and an age that is cleared while a
  write is registered is put back by `Settle`.
- **`PairAuthorityProofs`**: `PairTypeHolds`, and from `AuthorityInv`
  `PairHasOnePrimary`, `PrimaryHasRecord` and `WritersAlternate` (the first and the last
  until an election is `contested`): of the two records the one of the higher
  generation names the owner, a grant in flight
  belongs to a challenge that its target still holds, and a node that withdrew
  admits nothing until the handoff ends. `HandoffAfterCatchUp` from `CatchUpInv` (the
  peer of a node whose catch-up is done holds all it owed, and only such a node
  holds the gate or grants)
  and `AckedHasBothCopies` from `CopyInv` (a request id carries one write; whoever
  waits for the other copy has its own; an answer says that its sender has one, and
  to the client of a forwarded write that both nodes do, or that it is `lone`).

Only model-checked: everything about `CommitLog`; all liveness properties and
`NeverStuck`, which uses ENABLED (the prover has no rules for fairness or
ENABLED).

## 5. Where the code and its comments disagree

Each row is a definition of the module named; checking it on the instance given,
a change of an existing cfg, refutes it. The first is kept as a run.

| definition | source | what happens | instance |
|---|---|---|---|
| `OneInsertWins` (`AccordTxn`) | `state_machine.rs:908`, against `state_machine.rs:502` and `handlers.rs:821` | a replica that handles Accept, Commit or a read vote without the PreAccept has no index entry, so a contender's dep-wait passes and two `INSERT IF NOT EXISTS` are acknowledged | run `TxnDoubleInsert` |
| `OneInsertWins` | `coordinator.rs:2289`, `conflict_index.rs:365` | two replicas: the local index entry comes after `set_commit_ts`, so pruning loses the high-water mark | `TxnContend.cfg` with `Setups <- Three`, three transactions, `Env` with `late` and `prune` |
| `AbandonedWritesNothing` | `coordinator.rs:2900` ("NO replica has applied") | a replica that was sent the Apply may have applied it; the row stays | `TxnFaults.cfg` |
| `CountedCommitsAreHeld` | `handlers.rs:586`, `state_machine.rs:1006` | CommitOk is sent although the fsync failed | `TxnFaults.cfg` |
| `DecidedStaysForgotten` | `state_machine.rs:908`, `1629` | a late Accept or Commit recreates a finalized transaction's state | `TxnFaults.cfg` |
| `NewestRowIsServed` | `apply.rs:850` | a bumped transaction ties on the cell timestamp and the greater value wins | `TxnContend.cfg`, `Insert = {}` |
| `AbsentMeansAbsentAtT` | `apply.rs:506`, `633` | a newer cell replaced the older one, so a read below it finds nothing | `TxnContend.cfg` with `Setups <- Three`, three transactions, `Insert = {2}` |
| `RowsAtAgreedTimestamp` (`ApplyEngine`) | `state_machine.rs:283`, `1166` | an Apply that overtakes its Commit writes rows at this replica's proposal | `ApplyDurable.cfg`, `NoWrite = {}`, `Env` with `overtake` |
| `GraphAppliedIsExecuted` | `apply.rs:1513`, `1840` | reclaim drops a park that a cascade already holds, and the graph marks it applied | `ApplyDurable.cfg`, `Env` with `reclaim` |
| `WaitersNameLiveTxns` | `dep_wait.rs:331` | prune falls between the dependency filter and the registration of the waits | `ApplyDurable.cfg`, `Env` with `prune` |
| `OneMarkerPerTxn` | `state_machine.rs:1321` | an Apply retried during another thread's cascade persists again | `ApplyDurable.cfg`, `MaxApplies` 2 |
| `SkippedDepNeverApplies` | `state_machine.rs:1187` | a dependency unknown when it was skipped arrives later and applies | `ApplyDurable.cfg`, `Env` with `unknown` |
| `BumpedWaits` | `state_machine.rs:1186` | a bumped dependency does not list, and so does not await, the one that dropped it | `ApplyDurable.cfg`, `NoWrite = {}`, `Env` empty |
| `AckableWasWritten` (`FinalizedTxns`) | `finalized.rs:35`, `101`, `state_machine.rs:1595` | a no-write finalize becomes Applied and is pruned as an applied one | `Finalized.cfg` |
| `UndeliveredStayOnDisk` (`Hints`) | `hints/mod.rs:239`, against `peer_events.rs:432` ("undelivered hints stay on disk") | after a restart the first store creates, and so truncates, the newest recovered segment; a failed sync has the same effect | `Hints.cfg` |
| `AcceptedIsKept` and `HintsReachPeer` without `skipped` (`Hints`) | `hints/mod.rs:432`-`441`, `364`, against `mod.rs:350` and `peer_events.rs:432` | a segment that cannot be opened is skipped with a warning, and the cleanup of the same delivery deletes it with its hints undelivered | `Hints.cfg` |
| `GroupOkIsOnDisk` (`CommitLogSync`) | `sync.rs:1294` ("Every exit other than that one refuses the write") | a group writer that finds the thread dead asks `admit`; once the supervisor has replaced the thread, `admit` says Ok and no sync has covered the write | `LogSync.cfg` |

**Commit log.** Four windows of the code, named by `CommitLog`'s history variables.
Without the exemption named here, `Log.cfg` refutes the property.

| window | source | what happens | refutes |
|---|---|---|---|
| `raced` | `engine.rs:12376`-`12378`, `12406`; `mod.rs:1608`, `1651` | a flush reads `last_commit_log_position` before it swaps the memtable; a writer that has appended below it and not applied yet, or is delayed into a segment just swapped out, is covered by the checkpoint and in no SSTable; a crash loses it | `CheckpointCovers`, `AckedIsRecoverable`, `RecordIsAtomic`, `RecoverableIsKept` |
| `stranded` | `mod.rs:1455`, `1608`; `engine.rs:10552` | `force_sync` and the sync thread flush the active segment while a rotation has not flushed the one before; an entry there is acknowledged as durable and is not on disk | `AckedIsRecoverable`, `RecordIsAtomic` |
| `unmarked` | `segment.rs:1107`-`1112` | `discard_completed` compares a dirty mark and removes it in two steps; a mark that was raised between them is removed, and the segment deleted with a live entry | `RecoverableIsKept`, `AckedIsRecoverable`; with segments of three entries, two writes and a record also `RecordIsAtomic` |
| `unmarked` | `mod.rs:1049`-`1076` | `mark_table_dirty` follows `writer_done`; a collection in between sees no mark and deletes the segment | `RecoverableIsKept`, `AckedIsRecoverable` |

Also met there: a batch logged mutation by mutation is torn by a crash
(`engine.rs:10486`, `10561`); two flushes that save the checkpoint at once can lose
one update (`mod.rs:1265`), which costs replay work and no data.

**Pair mode.** Without the exemption named here, `Pair.cfg` refutes the property.

| exemption | source | what happens | refutes |
|---|---|---|---|
| `contested` | `controller/pair.rs:104`, against `pair.rs:209`-`218` and `controller/mod.rs:20` | a node without a record elects itself by host id without asking the peer; if the peer's record names the peer, both are primary | `OnePrimary`, `OneWriterAtATime`, `NeverStuck` |
| `lone` | `pair/handler.rs:55`-`58`, against `pair/coordinator.rs:206` ("the ACK still means two copies") | a fenced node forwards a client's write; the peer, fenced too, handles it as a secondary, stores it and answers, and the client is told it is done with one copy | `AckedIsOnBoth` |
| nothing `owed` | `operator.rs:55`-`99`, `peer_plan.rs:138`-`142`, against `operator.rs:493`-`497` and `switchover.rs:23`-`25` | a node promoted within its pair keeps its context; when the peer returns it is only tracked, no catch-up begins, and a switchover may hand the authority to a peer that missed writes. A catch-up also replays only what the commit log still holds | a `CaughtUpFirst` over the whole store |

Also met there: a pair that lost its peer stays `DegradedPair` after a reconnect
(`peer_plan.rs:157` against `operator.rs:540`); two nodes fenced by each other's
lost grant leave no writer until an operator promotes one (`operator.rs:145`); the
gate that `coordinator.rs:97` says every write takes is not taken by the forward
handler.

## 6. Not modelled

Section 1 and `PROJECT.json` list every part. Formats, query languages, wiring
and telemetry are left out because their difficulty is data, not order; raft
consensus itself is the openraft library's. Parts with behaviour that a model
would reach, in the order in which they would be added:

1. the compaction intent record against crashes (`intent.rs:118`);
2. Accord recovery, ballots and the choice among a recovery quorum's replies
   (`recovery.rs:118`), which nothing in the node's wiring starts;
3. the lanes of `ferrosa-net` (one redial per failure) and the admission of
   `ferrosa-sched` (no lost permit, no starved group);
4. the election guard, the consistency-level coordinator with its hints, and the
   electorate's change of epoch.
