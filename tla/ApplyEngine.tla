----------------------------- MODULE ApplyEngine -----------------------------
(***************************************************************************)
(* How one replica applies Accord transactions in dependency order         *)
(* (ferrosa-cluster/src/accord: state_machine.rs, apply.rs, dep_wait.rs,   *)
(* handlers.rs).                                                           *)
(*                                                                         *)
(* Three locks matter.  The state lock guards the transaction states; the  *)
(* apply gate guards an apply's register / park / persist / cascade        *)
(* sequence; the graph and the parked write-sets have small mutexes of     *)
(* their own.  An inbound Apply takes the state lock to begin, releases it *)
(* for the durable write (which it runs under the gate), and takes it      *)
(* again to finish.  Commit, a no-write finalize and the coordinator's own *)
(* apply hold the state lock and take the gate inside it.  The maintenance *)
(* loop's prune and reclaim hold the state lock and NOT the gate, so their *)
(* accesses to the graph interleave with a durable write in progress.      *)
(*                                                                         *)
(* A worker is a thread inside the engine: one of Task (inbound Applies)   *)
(* or Handler, whoever holds the state lock while inside the engine.  The  *)
(* gate is held by the worker whose pc is in GatePc, the state lock by     *)
(* Handler or by the reclaim while they are not idle.                      *)
(***************************************************************************)
EXTENDS Naturals, FiniteSets

CONSTANTS Txn,          \* transactions: a TxnId is its t0, so ids are ordered
          Task,         \* concurrent inbound Apply requests
          Handler,      \* the worker that holds the state lock
          AgreedT,      \* AgreedT[x]: the execution timestamp agreed for x
          AgreedDeps,   \* AgreedDeps[x]: the dependency set agreed for x
          ProposedT,    \* ProposedT[x]: this replica's PreAccept proposal
          NoWrite,      \* transactions that commit and write no row (IF not met)
          Abandoned,    \* write transactions the coordinator finalizes as no-write
          Env,          \* which environment behaviours occur, see below
          MaxApplies    \* bound: Apply deliveries per transaction

\* Env may contain "prune" and "reclaim" (the maintenance loop runs), "fault"
\* (a storage write fails), "overtake" (an Apply arrives although the Commit
\* did not, or its fsync failed), "unknown" (a Commit arrives at a replica that
\* has not heard of all of its dependencies) and "late" (a Commit arrives after
\* the transaction was decided and forgotten here).
ASSUME EnvAssumption == Env \subseteq {"prune", "reclaim", "fault", "overtake", "unknown", "late"}
\* Dependencies are computed by deps_before_t0, so they have smaller ids, and
\* an execution timestamp is the transaction's t0 or bumped past it.
ASSUME TxnAssumption ==
  /\ Txn \subseteq Nat \ {0} /\ NoWrite \subseteq Txn /\ Abandoned \subseteq Txn \ NoWrite
  /\ AgreedT \in [Txn -> Nat \ {0}] /\ ProposedT \in [Txn -> Nat \ {0}]
  /\ AgreedDeps \in [Txn -> SUBSET Txn]
  /\ \A x \in Txn : /\ x <= ProposedT[x] /\ ProposedT[x] <= AgreedT[x]
                    /\ \A d \in AgreedDeps[x] : d < x
ASSUME WorkerAssumption == Handler \notin Task
ASSUME BoundAssumption == MaxApplies \in Nat

VARIABLES
  phase,      \* phase[x]: TxnState::phase, or "none" when there is no TxnState
  at,         \* at[x]: TxnState::t (0 when there is no TxnState)
  deps,       \* deps[x]: TxnState::deps
  applying,   \* transactions reserved by an inbound Apply
  tomb,       \* tomb[x]: the FinalizedTxns tombstone of x
  waitingOn,  \* the dep-wait graph: waitingOn[x]
  applied,    \* the dep-wait graph: transactions marked applied
  parked,     \* parked[x]: the timestamp of x's parked write-set, 0 if none
  rows,       \* rows[x]: timestamps x's rows were made durable at
  markers,    \* markers[x]: Applied markers in the protocol log, up to 2
  pc,         \* pc[k]: where worker k is inside the engine
  work,       \* work[k]: the write-set k was started with (ApplyDurableWork)
  queue,      \* queue[k]: the unblocked transactions k has yet to apply
  waives,     \* waives[k]: the waits <<waiter, dep>> k has yet to drop
  done,       \* done[k]: the transactions k persisted and has yet to report
  reclaim,    \* the reclaim sweep: its step and the parks it selected
  sent        \* sent[x]: Apply deliveries so far

states == <<phase, at, deps>>
graph == <<waitingOn, applied>>
inside == <<pc, work, queue, waives, done>>
vars == <<phase, at, deps, applying, tomb, waitingOn, applied, parked, rows,
          markers, pc, work, queue, waives, done, reclaim, sent>>

Phases == {"none", "PreAccepted", "Committed", "Applied"}
GatePc == {"persist", "park", "cascade"}
NoWork == [txn |-> {}, t |-> 0, deps |-> {}]
NoReclaim == [pc |-> "idle", ids |-> {}]
Worker == Task \cup {Handler}

GateFree == \A k \in Worker : pc[k] \notin GatePc
StateLockFree == pc[Handler] = "idle" /\ reclaim.pc = "idle"

Init ==
  /\ phase = [x \in Txn |-> "none"]
  /\ at = [x \in Txn |-> 0]
  /\ deps = [x \in Txn |-> {}]
  /\ applying = {}
  /\ tomb = [x \in Txn |-> "none"]
  /\ waitingOn = [x \in Txn |-> {}]
  /\ applied = {}
  /\ parked = [x \in Txn |-> 0]
  /\ rows = [x \in Txn |-> {}]
  /\ markers = [x \in Txn |-> 0]
  /\ pc = [k \in Worker |-> "idle"]
  /\ work = [k \in Worker |-> NoWork]
  /\ queue = [k \in Worker |-> {}]
  /\ waives = [k \in Worker |-> {}]
  /\ done = [k \in Worker |-> {}]
  /\ reclaim = NoReclaim
  /\ sent = [x \in Txn |-> 0]
-----------------------------------------------------------------------------
(* The dep-wait graph *)

\* dep reaches x along the waits already registered (detect_cycle).
Reaches(dep, x) ==
  \A C \in SUBSET Txn : (dep \in C /\ \A y \in C : waitingOn[y] \subseteq C) => x \in C

\* mark_applied: x leaves every waiter's set and waits for nothing itself.
Unwaited(x) == [y \in Txn |-> IF y = x THEN {} ELSE waitingOn[y] \ {x}]

\* mark_applied: the waiters whose last wait was on x.
Woken(x) == {y \in Txn \ {x} : waitingOn[y] = {x}}

\* clear_waits
Cleared(X) == [y \in Txn |-> IF y \in X THEN {} ELSE waitingOn[y]]
-----------------------------------------------------------------------------
(* Transaction states *)

\* executes_after: dep is committed with a later execution timestamp.
ExecutesAfter(dep, t) == phase[dep] = "Committed" /\ at[dep] > t

\* Mutant of OrderedDeps: only committed dependencies are waited for.
MutOrderedDepsCommitted(x) == {d \in deps[x] : phase[d] = "Committed" /\ ~(at[d] > at[x])}

\* ordered_deps: what an apply of x must wait for.
OrderedDeps(x) == {d \in deps[x] : ~ExecutesAfter(d, at[x]) /\ phase[d] # "none"}

\* bookkeep_applied_dedup for a set of transactions the engine persisted.
Bookkeep(X) ==
  /\ phase' = [x \in Txn |-> IF x \in X /\ phase[x] # "none" THEN "Applied" ELSE phase[x]]
  /\ markers' = [x \in Txn |-> IF x \in X /\ markers[x] < 2 THEN markers[x] + 1 ELSE markers[x]]
  /\ UNCHANGED <<at, deps>>

\* A handler that holds the state lock enters the engine, holding the gate.
HandlerCascades(woken, drops) ==
  /\ pc' = [pc EXCEPT ![Handler] = "cascade"]
  /\ queue' = [queue EXCEPT ![Handler] = woken]
  /\ waives' = [waives EXCEPT ![Handler] = drops]
  /\ UNCHANGED <<work, done>>

\* handle_preaccept registers the transaction; a decided one is refused.
PreAccept(x) ==
  /\ StateLockFree
  /\ phase[x] = "none"
  /\ tomb[x] = "none"
  /\ phase' = [phase EXCEPT ![x] = "PreAccepted"]
  /\ at' = [at EXCEPT ![x] = ProposedT[x]]
  /\ deps' = [deps EXCEPT ![x] = {d \in AgreedDeps[x] : phase[d] # "none"}]
  /\ UNCHANGED <<applying, tomb, graph, parked, rows, markers, inside, reclaim, sent>>

\* Every dependency of x is registered here or was decided here.
DepsKnown(x) == \A d \in AgreedDeps[x] : phase[d] # "none" \/ tomb[d] # "none"

\* handle_commit, its release_waiters_ordered_before included: waiters that
\* execute before x are released from their wait on x.
Commit(x) ==
  /\ StateLockFree /\ GateFree
  /\ phase[x] \in {"none", "PreAccepted"}
  /\ "unknown" \in Env \/ DepsKnown(x)
  /\ "late" \in Env \/ tomb[x] = "none"
  /\ phase' = [phase EXCEPT ![x] = "Committed"]
  /\ at' = [at EXCEPT ![x] = AgreedT[x]]
  /\ deps' = [deps EXCEPT ![x] = AgreedDeps[x]]
  /\ HandlerCascades({}, {<<y, x>> : y \in {z \in Txn : /\ x \in waitingOn[z]
                                                        /\ phase[z] = "Committed"
                                                        /\ at[z] < AgreedT[x]}})
  /\ UNCHANGED <<applying, tomb, graph, parked, rows, markers, reclaim, sent>>

\* handle_commit when the protocol log's fsync fails: a state created for the
\* message stays behind with t0 and no dependencies, uncommitted.
CommitFails(x) ==
  /\ "overtake" \in Env
  /\ StateLockFree
  /\ phase[x] = "none"
  /\ "late" \in Env \/ tomb[x] = "none"
  /\ phase' = [phase EXCEPT ![x] = "PreAccepted"]
  /\ at' = [at EXCEPT ![x] = x]
  /\ UNCHANGED <<deps, applying, tomb, graph, parked, rows, markers, inside, reclaim, sent>>
-----------------------------------------------------------------------------
(* One apply, from the decision to the bookkeeping *)

\* plan_apply decides to persist: there is a state and it is not Applied.
Persistable(x) ==
  /\ x \notin NoWrite
  /\ phase[x] \in {"PreAccepted", "Committed"}
  /\ "overtake" \in Env \/ phase[x] = "Committed"
  /\ x \notin applying
  /\ sent[x] < MaxApplies

Started(k, x) ==
  /\ pc' = [pc EXCEPT ![k] = "begun"]
  /\ work' = [work EXCEPT ![k] = [txn |-> {x}, t |-> at[x], deps |-> OrderedDeps(x)]]
  /\ sent' = [sent EXCEPT ![x] = @ + 1]
  /\ UNCHANGED <<queue, waives, done>>

\* begin_apply_owned: the inbound Apply reserves x and leaves the state lock.
BeginApply(k, x) ==
  /\ StateLockFree
  /\ pc[k] = "idle"
  /\ Persistable(x)
  /\ applying' = applying \cup {x}
  /\ Started(k, x)
  /\ UNCHANGED <<states, tomb, graph, parked, rows, markers, reclaim>>

\* handle_apply_writeset_borrowed: the coordinator's own apply keeps the state
\* lock throughout.
LocalApply(x) ==
  /\ StateLockFree
  /\ Persistable(x)
  /\ Started(Handler, x)
  /\ UNCHANGED <<states, applying, tomb, graph, parked, rows, markers, reclaim>>

Goto(k, next) ==
  pc' = [pc EXCEPT ![k] = next] /\ UNCHANGED <<work, queue, waives, done>>

\* k leaves the engine with nothing left to report.
Leave(k) ==
  /\ pc' = [pc EXCEPT ![k] = "idle"]
  /\ work' = [work EXCEPT ![k] = NoWork]
  /\ done' = [done EXCEPT ![k] = {}]
  /\ UNCHANGED <<queue, waives>>

\* Under the gate: register_waits_or_refuse, one critical section of the graph.
RegisterWaits(k) ==
  LET unmet == work[k].deps \ applied
      x == CHOOSE y \in Txn : work[k].txn = {y}
      cycle == \E d \in unmet : Reaches(d, x)
  IN
  /\ pc[k] = "begun"
  /\ GateFree
  /\ Goto(k, IF unmet = {} THEN "persist" ELSE IF cycle THEN "failed" ELSE "park")
  /\ waitingOn' = IF cycle THEN Cleared({x}) ELSE [waitingOn EXCEPT ![x] = @ \cup unmet]
  /\ UNCHANGED <<states, applying, tomb, applied, parked, rows, markers, reclaim, sent>>

\* park: the write-set is kept until its last dependency applies.
Park(k) ==
  /\ pc[k] = "park"
  /\ parked' = [x \in Txn |-> IF x \in work[k].txn THEN work[k].t ELSE parked[x]]
  /\ Goto(k, "parked")
  /\ UNCHANGED <<states, applying, tomb, graph, rows, markers, reclaim, sent>>

\* Staging the parked payload fails: the waits are cleared.
ParkFails(k) ==
  /\ "fault" \in Env
  /\ pc[k] = "park"
  /\ waitingOn' = Cleared(work[k].txn)
  /\ Goto(k, "failed")
  /\ UNCHANGED <<states, applying, tomb, applied, parked, rows, markers, reclaim, sent>>

\* The storage applier makes x's rows durable at t and the graph marks x.
Persisted(x, t) ==
  /\ rows' = [rows EXCEPT ![x] = @ \cup {t}]
  /\ applied' = applied \cup {x}
  /\ waitingOn' = Unwaited(x)

Persist(k) ==
  /\ pc[k] = "persist"
  /\ \E x \in work[k].txn :
       /\ Persisted(x, work[k].t)
       /\ pc' = [pc EXCEPT ![k] = "cascade"]
       /\ queue' = [queue EXCEPT ![k] = Woken(x)]
       /\ done' = [done EXCEPT ![k] = {x}]
  /\ UNCHANGED <<states, applying, tomb, parked, markers, work, waives, reclaim, sent>>

PersistFails(k) ==
  /\ "fault" \in Env
  /\ pc[k] = "persist"
  /\ Goto(k, "failed")
  /\ UNCHANGED <<states, applying, tomb, graph, parked, rows, markers, reclaim, sent>>

\* Mutant of ApplyUnblocked: the waiter is missing from the reported list.
MutApplyUnblockedUnreported(k, x) ==
  /\ pc[k] = "cascade"
  /\ x \in queue[k]
  /\ parked[x] # 0
  /\ parked' = [parked EXCEPT ![x] = 0]
  /\ Persisted(x, parked[x])
  /\ queue' = [queue EXCEPT ![k] = (@ \ {x}) \cup Woken(x)]
  /\ UNCHANGED <<states, applying, tomb, markers, pc, work, waives, done, reclaim, sent>>

\* apply_unblocked takes a waiter whose write-set is parked and persists it.
ApplyUnblocked(k, x) ==
  /\ pc[k] = "cascade"
  /\ x \in queue[k]
  /\ parked[x] # 0
  /\ parked' = [parked EXCEPT ![x] = 0]
  /\ Persisted(x, parked[x])
  /\ queue' = [queue EXCEPT ![k] = (@ \ {x}) \cup Woken(x)]
  /\ done' = [done EXCEPT ![k] = @ \cup {x}]
  /\ UNCHANGED <<states, applying, tomb, markers, pc, work, waives, reclaim, sent>>

\* apply_unblocked takes a waiter with nothing parked: it is only marked.
MarkUnblocked(k, x) ==
  /\ pc[k] = "cascade"
  /\ x \in queue[k]
  /\ parked[x] = 0
  /\ applied' = applied \cup {x}
  /\ waitingOn' = Unwaited(x)
  /\ queue' = [queue EXCEPT ![k] = (@ \ {x}) \cup Woken(x)]
  /\ UNCHANGED <<states, applying, tomb, parked, rows, markers, pc, work, waives, done, reclaim, sent>>

\* Mutant of UnblockedFails: the failed waiter is reported as persisted.
MutUnblockedFailsReported(k, x) ==
  /\ "fault" \in Env
  /\ pc[k] = "cascade"
  /\ x \in queue[k]
  /\ parked[x] # 0
  /\ parked' = [parked EXCEPT ![x] = 0]
  /\ queue' = [queue EXCEPT ![k] = @ \ {x}]
  /\ done' = [done EXCEPT ![k] = @ \cup {x}]
  /\ UNCHANGED <<states, applying, tomb, graph, rows, markers, pc, work, waives, reclaim, sent>>

\* The storage applier fails for a parked waiter: it stays unapplied.
UnblockedFails(k, x) ==
  /\ "fault" \in Env
  /\ pc[k] = "cascade"
  /\ x \in queue[k]
  /\ parked[x] # 0
  /\ parked' = [parked EXCEPT ![x] = 0]
  /\ queue' = [queue EXCEPT ![k] = @ \ {x}]
  /\ UNCHANGED <<states, applying, tomb, graph, rows, markers, pc, work, waives, done, reclaim, sent>>

\* Mutant of Waive: dropping the last wait does not wake the waiter.
MutWaiveNoWake(k, x, d) ==
  /\ pc[k] = "cascade"
  /\ queue[k] = {}
  /\ <<x, d>> \in waives[k]
  /\ waitingOn' = [waitingOn EXCEPT ![x] = @ \ {d}]
  /\ waives' = [waives EXCEPT ![k] = @ \ {<<x, d>>}]
  /\ UNCHANGED <<states, applying, tomb, applied, parked, rows, markers, pc, work, queue, done, reclaim, sent>>

\* waive_dependency, one turn of a release loop.
Waive(k, x, d) ==
  /\ pc[k] = "cascade"
  /\ queue[k] = {}
  /\ <<x, d>> \in waives[k]
  /\ waitingOn' = [waitingOn EXCEPT ![x] = @ \ {d}]
  /\ waives' = [waives EXCEPT ![k] = @ \ {<<x, d>>}]
  /\ queue' = [queue EXCEPT ![k] = IF waitingOn[x] = {d} THEN {x} ELSE {}]
  /\ UNCHANGED <<states, applying, tomb, applied, parked, rows, markers, pc, work, done, reclaim, sent>>

CascadeOver(k) ==
  /\ pc[k] = "cascade"
  /\ queue[k] = {}
  /\ waives[k] = {}

\* An inbound Apply leaves the gate; its outcome waits for the state lock.
LeaveGate(k) ==
  /\ CascadeOver(k)
  /\ Goto(k, "persisted")
  /\ UNCHANGED <<states, applying, tomb, graph, parked, rows, markers, reclaim, sent>>

\* The state-lock holder's cascade is over: it does the bookkeeping and returns.
HandlerDone ==
  /\ CascadeOver(Handler) \/ pc[Handler] \in {"parked", "failed"}
  /\ Bookkeep(done[Handler])
  /\ Leave(Handler)
  /\ UNCHANGED <<applying, tomb, graph, parked, rows, reclaim, sent>>

\* finish_apply of a write-set that persisted or failed.
FinishApply(k) ==
  /\ StateLockFree
  /\ pc[k] \in {"persisted", "failed"}
  /\ applying' = applying \ (work[k].txn \cup done[k])
  /\ Bookkeep(done[k])
  /\ Leave(k)
  /\ UNCHANGED <<tomb, graph, parked, rows, reclaim, sent>>

\* Mutant of LaterWaits: the park is not checked again.
MutLaterWaitsNone(x) == {}

\* The waits release_parked_from_deps_ordered_after drops for x.
LaterWaits(x) ==
  {<<x, d>> : d \in {e \in waitingOn[x] : phase[x] = "Committed" /\ ExecutesAfter(e, at[x])}}

\* finish_apply of a write-set that parked: the waits that were overtaken by a
\* commit between begin_apply_owned and the park are dropped now.
FinishParked(k) ==
  /\ StateLockFree /\ GateFree
  /\ pc[k] = "parked"
  /\ applying' = applying \ work[k].txn
  /\ pc' = [pc EXCEPT ![k] = "idle", ![Handler] = "cascade"]
  /\ work' = [work EXCEPT ![k] = NoWork]
  /\ waives' = [waives EXCEPT ![Handler] = UNION {LaterWaits(x) : x \in work[k].txn}]
  /\ UNCHANGED <<states, tomb, graph, parked, rows, markers, queue, done, reclaim, sent>>
-----------------------------------------------------------------------------
(* The no-write finalize and the maintenance loop *)

\* An empty Apply.  With a state: the marker is written, the phase advances and
\* the waiters cascade.  Without one: a tombstone remembers the decision.  A
\* repeat that finds both in place changes nothing and is left out.
FinalizeNoWrite(x) ==
  /\ StateLockFree /\ GateFree
  /\ x \in NoWrite \cup Abandoned
  /\ phase[x] # "Applied"
  /\ phase[x] # "none" \/ tomb[x] = "none" \/ x \notin applied
  /\ IF phase[x] = "none"
       THEN /\ tomb' = [tomb EXCEPT ![x] = IF @ = "none" THEN "nowrite" ELSE @]
            /\ UNCHANGED <<phase, markers>>
       ELSE /\ phase' = [phase EXCEPT ![x] = "Applied"]
            /\ markers' = [markers EXCEPT ![x] = IF @ < 2 THEN @ + 1 ELSE @]
            /\ UNCHANGED tomb
  /\ applied' = applied \cup {x}
  /\ waitingOn' = Unwaited(x)
  /\ HandlerCascades(Woken(x), {})
  /\ UNCHANGED <<at, deps, applying, parked, rows, reclaim, sent>>

\* prune_applied: applied states are forgotten, here and in the graph.
PruneApplied ==
  LET gone == {x \in Txn : phase[x] = "Applied"} IN
  /\ "prune" \in Env
  /\ StateLockFree
  /\ gone # {}
  /\ phase' = [x \in Txn |-> IF x \in gone THEN "none" ELSE phase[x]]
  /\ at' = [x \in Txn |-> IF x \in gone THEN 0 ELSE at[x]]
  /\ deps' = [x \in Txn |-> IF x \in gone THEN {} ELSE deps[x]]
  /\ tomb' = [x \in Txn |-> IF x \in gone THEN "applied" ELSE tomb[x]]
  /\ applied' = applied \ gone
  /\ UNCHANGED <<applying, waitingOn, parked, rows, markers, inside, reclaim, sent>>

\* reclaim_stale, three critical sections: select the stale parks ...
ReclaimSelect ==
  /\ "reclaim" \in Env
  /\ StateLockFree
  /\ \E ids \in SUBSET {x \in Txn : parked[x] # 0} \ {{}} :
       reclaim' = [pc |-> "clear", ids |-> ids]
  /\ UNCHANGED <<states, applying, tomb, graph, parked, rows, markers, inside, sent>>

\* ... clear their waits in the graph ...
ReclaimClear ==
  /\ reclaim.pc = "clear"
  /\ waitingOn' = Cleared(reclaim.ids)
  /\ reclaim' = [reclaim EXCEPT !.pc = "drop"]
  /\ UNCHANGED <<states, applying, tomb, applied, parked, rows, markers, inside, sent>>

\* ... and drop the write-sets.
ReclaimDrop ==
  /\ reclaim.pc = "drop"
  /\ parked' = [x \in Txn |-> IF x \in reclaim.ids THEN 0 ELSE parked[x]]
  /\ reclaim' = NoReclaim
  /\ UNCHANGED <<states, applying, tomb, graph, rows, markers, inside, sent>>
-----------------------------------------------------------------------------
Inside(k) ==
  \/ RegisterWaits(k) \/ Park(k) \/ ParkFails(k) \/ Persist(k) \/ PersistFails(k)
  \/ \E x \in Txn : ApplyUnblocked(k, x) \/ MarkUnblocked(k, x) \/ UnblockedFails(k, x)
  \/ \E x, d \in Txn : Waive(k, x, d)

Next ==
  \/ \E x \in Txn : PreAccept(x) \/ Commit(x) \/ CommitFails(x) \/ LocalApply(x) \/ FinalizeNoWrite(x)
  \/ \E k \in Task, x \in Txn : BeginApply(k, x)
  \/ \E k \in Worker : Inside(k)
  \/ \E k \in Task : LeaveGate(k) \/ FinishApply(k) \/ FinishParked(k)
  \/ HandlerDone
  \/ PruneApplied \/ ReclaimSelect \/ ReclaimClear \/ ReclaimDrop

Spec == Init /\ [][Next]_vars

\* The scheduler runs every thread, a lock that is free is granted, and each
\* message of the protocol is delivered once; nothing else is assumed.
FairSpec ==
  /\ Spec
  /\ \A x \in Txn : WF_vars(PreAccept(x)) /\ WF_vars(Commit(x)) /\ WF_vars(FinalizeNoWrite(x))
  /\ \A x \in Txn : WF_vars(LocalApply(x) \/ \E k \in Task : BeginApply(k, x))
  /\ \A k \in Worker : WF_vars(Inside(k))
  /\ \A k \in Task : WF_vars(LeaveGate(k)) /\ WF_vars(FinishApply(k)) /\ WF_vars(FinishParked(k))
  /\ WF_vars(HandlerDone)
-----------------------------------------------------------------------------
(* Properties *)

Pcs == {"idle", "begun", "persist", "park", "parked", "cascade", "persisted", "failed"}

\* Every variable has its type.
TypeOK ==
  /\ phase \in [Txn -> Phases]
  /\ at \in [Txn -> Nat]
  /\ deps \in [Txn -> SUBSET Txn]
  /\ applying \subseteq Txn
  /\ tomb \in [Txn -> {"none", "nowrite", "applied"}]
  /\ waitingOn \in [Txn -> SUBSET Txn]
  /\ applied \subseteq Txn
  /\ parked \in [Txn -> Nat]
  /\ rows \in [Txn -> SUBSET Nat]
  /\ markers \in [Txn -> 0..2]
  /\ pc \in [Worker -> Pcs]
  /\ work \in [Worker -> [txn : SUBSET Txn, t : Nat, deps : SUBSET Txn]]
  /\ queue \in [Worker -> SUBSET Txn]
  /\ waives \in [Worker -> SUBSET (Txn \X Txn)]
  /\ done \in [Worker -> SUBSET Txn]
  /\ reclaim \in [pc : {"idle", "clear", "drop"}, ids : SUBSET Txn]
  /\ sent \in [Txn -> 0..MaxApplies]

\* What the Apply ack rests on (await_txn_applied reads the Applied phase or the
\* applied tombstone): a replica reports a write transaction applied only when
\* its rows are durable, unless the coordinator finalized it as no-write.
AppliedImpliesDurable ==
  \A x \in Txn \ (NoWrite \cup Abandoned) :
    phase[x] = "Applied" \/ tomb[x] = "applied" => rows[x] # {}

\* A transaction whose rows are durable is not forgotten by the lock-free apply:
\* it is reported applied already, or the thread that persisted it will do so in
\* finish_apply.
DurableIsReported ==
  \A x \in Txn :
    rows[x] # {} /\ phase[x] \in {"PreAccepted", "Committed"} =>
      \E k \in Worker : x \in done[k]

\* The inductive invariant behind AppliedImpliesDurable.
DurableInv ==
  /\ TypeOK
  /\ \A k \in Worker : \A x \in done[k] : rows[x] # {}
  /\ AppliedImpliesDurable

Known(x) == phase[x] # "none" \/ tomb[x] # "none"

\* The inductive invariant behind DurableIsReported: a worker has something to
\* report only while it cascades or after; a write-set in the engine belongs to
\* a transaction with a state or a tombstone; a tombstone ends the state.
ReportInv ==
  /\ TypeOK
  /\ \A k \in Worker : pc[k] \notin {"cascade", "persisted"} => done[k] = {}
  /\ \A k \in Worker : \A x \in work[k].txn : Known(x)
  /\ \A x \in Txn : parked[x] # 0 \/ rows[x] # {} => Known(x)
  /\ \A x \in Txn : tomb[x] # "none" => phase[x] = "none"
  /\ DurableIsReported

\* x is executed here: its rows are durable or it ended without a write.
Executed(x) == rows[x] # {} \/ phase[x] = "Applied" \/ tomb[x] # "none"

\* Dependency order at the replica: when the rows of x become durable, every
\* dependency of x that executes before it has been executed here.
ApplyOrder ==
  [][\A x \in Txn : rows[x] = {} /\ rows'[x] # {} =>
       \A d \in AgreedDeps[x] : AgreedT[d] < AgreedT[x] => Executed(d)]_vars

\* A transaction that is waiting has its write-set parked whenever no thread is
\* inside the engine (clear_waits: "no half-registered waiter is later woken
\* with nothing parked to apply").
WaitingIsParked ==
  GateFree => \A x \in Txn : waitingOn[x] # {} => parked[x] # 0

\* The two releases leave no window (release_parked_from_deps_ordered_after):
\* once its apply has finished parking, no committed transaction waits for one
\* that is committed with a later execution timestamp.
NoWaitOnLater ==
  GateFree /\ StateLockFree =>
    \A x \in Txn \ applying : phase[x] = "Committed" =>
      \A d \in waitingOn[x] : ~ExecutesAfter(d, at[x])

\* Every committed transaction is applied in the end when each Apply is
\* delivered once: no wait in the graph is left over.
EventuallyApplied ==
  \A x \in Txn : phase[x] = "Committed" ~> phase[x] = "Applied"

(* Statements of the source that do not hold; the README tells what refutes each *)

\* "The agreed execution t" (ApplyDecision::Persist): rows are written at the
\* timestamp the transaction was agreed to execute at.
RowsAtAgreedTimestamp == \A x \in Txn : rows[x] \subseteq {AgreedT[x]}

\* "Exactly one Applied marker per txn" (begin_apply_owned).
OneMarkerPerTxn == \A x \in Txn : markers[x] < 2

\* A reclaimed transaction is never woken "into a false Applied with nothing
\* left to persist" (reclaim_stale): the graph marks a transaction applied only
\* when it was executed.
GraphAppliedIsExecuted == \A x \in applied : Executed(x)

\* "Once a transaction's TxnState is gone no live waiter can name it"
\* (DepWaitGraph::forget).
WaitersNameLiveTxns == \A x \in Txn : \A d \in waitingOn[x] : phase[d] # "none"

\* "A dependency this replica holds no live state for can never become applied
\* here" (ordered_deps): nothing is executed after a transaction that was to
\* wait for it.
SkippedDepNeverApplies ==
  [][\A d \in Txn : rows[d] = {} /\ rows'[d] # {} =>
       \A x \in Txn : rows[x] # {} /\ d \in AgreedDeps[x] => AgreedT[x] < AgreedT[d]]_vars

\* A transaction whose execution timestamp was bumped past that of one that
\* depends on it "waits for us instead" (ordered_deps).
BumpedWaits ==
  [][\A d \in Txn : rows[d] = {} /\ rows'[d] # {} =>
       \A x \in Txn : phase[x] = "Committed" /\ d \in deps[x] /\ AgreedT[x] < AgreedT[d] =>
         Executed(x)]_vars
=============================================================================
