--------------------------- MODULE ApplyInvariants ---------------------------
(***************************************************************************)
(* What the proofs about ApplyEngine rest on beside the invariants that    *)
(* the module itself states: LaterInv, behind NoWaitOnLater, and TurnInv,  *)
(* behind ApplyOrder.                                                      *)
(***************************************************************************)
EXTENDS ApplyEngine

\* x was applied here, or decided and forgotten.
Ended(x) == phase[x] = "Applied" \/ tomb[x] # "none"

Going(x) == phase[x] = "Committed" \/ Ended(x)

\* x waits for a dependency that executes after it.
Overtaken(x, d) == phase[x] = "Committed" /\ d \in waitingOn[x] /\ ExecutesAfter(d, at[x])

\* Task k has x reserved and has registered its waits: finish_apply will look at them.
Parking(k, x) == x \in work[k].txn /\ pc[k] \in {"park", "parked"} /\ x \in applying

\* The invariant behind NoWaitOnLater.  A transaction waits, or is in the engine,
\* only after its Commit; its reservation keeps other tasks away until it has
\* ended; the coordinator's own apply registers the waits it computed, because it
\* keeps the state lock; and a wait on a later transaction is one the state-lock
\* holder is about to drop or one of a task still to finish parking.
WaivesHeld == pc[Handler] # "cascade" => waives[Handler] = {}

OneWork == \A k \in Worker : pc[k] = "begun" => \E x \in Txn : work[k].txn = {x}

FreshDeps == pc[Handler] = "begun" => \A x \in work[Handler].txn : work[Handler].deps = OrderedDeps(x)

WorkGoing == \A k \in Worker : \A x \in work[k].txn : Going(x)

WaitGoing == \A x \in Txn : waitingOn[x] # {} => Going(x)

Reserved == \A k \in Task : \A x \in work[k].txn : x \in applying \/ Ended(x)

Alone == \A j, k \in Task : \A x \in work[j].txn \cap work[k].txn : j = k \/ Ended(x)

Covered ==
  \A x, d \in Txn : Overtaken(x, d) =>
    <<x, d>> \in waives[Handler] \/ \E k \in Task : Parking(k, x)

LaterInv == WaivesHeld /\ OneWork /\ FreshDeps /\ WorkGoing /\ WaitGoing /\ Reserved /\ Alone /\ Covered

\* The dependencies of x that execute before it, and that all of them were executed here.
Before(x) == {d \in AgreedDeps[x] : AgreedT[d] < AgreedT[x]}

Met(x) == \A d \in Before(x) : Executed(d)

\* A worker: only a cascade has waiters to apply or waits to drop, and those waits
\* are on later transactions; a write-set carries the timestamp of one transaction;
\* what it is to wait for are the earlier dependencies not executed yet.
WorkerAt(k) ==
  /\ queue[k] # {} \/ waives[k] # {} => pc[k] = "cascade"
  /\ \A x, d \in Txn : <<x, d>> \in waives[k] => d \notin Before(x)
  /\ pc[k] \in {"begun", "park", "persist"} => work[k].t # 0 /\ \E x \in Txn : work[k].txn = {x}
  /\ pc[k] = "begun" => \A x \in work[k].txn : \A d \in Before(x) : d \in work[k].deps \/ Executed(d)
  /\ pc[k] = "persist" => \A x \in work[k].txn : Met(x)

\* The invariant behind ApplyOrder.  A committed transaction has its agreed
\* timestamp and dependencies, each registered or decided here; one worker at a
\* time holds the gate; a woken waiter has its write-set parked and its earlier
\* dependencies executed; the graph marks only executed transactions applied; and
\* one that waits, waits for every earlier dependency not executed yet and has its
\* write-set parked, or about to be.
GateAlone == \A j, k \in Worker : pc[j] \in GatePc /\ pc[k] \in GatePc => j = k

AsAgreed ==
  \A x \in Txn : phase[x] = "Committed" =>
    at[x] = AgreedT[x] /\ deps[x] = AgreedDeps[x] /\ \A d \in AgreedDeps[x] : Known(d)

QueueMet == \A k \in Worker : \A x \in queue[k] : Met(x) /\ parked[x] # 0 /\ waitingOn[x] = {}

AppliedExecuted == \A x \in applied : Executed(x)

WaitsHold ==
  \A x \in Txn : waitingOn[x] # {} =>
    /\ \A d \in Before(x) : d \in waitingOn[x] \/ Executed(d)
    /\ parked[x] # 0 \/ \E k \in Worker : pc[k] = "park" /\ x \in work[k].txn

NoSweep == reclaim.pc = "idle"

TurnInv ==
  /\ NoSweep
  /\ \A k \in Worker : WorkerAt(k)
  /\ GateAlone /\ AsAgreed /\ QueueMet /\ AppliedExecuted /\ WaitsHold

\* A step leaves worker j where it is.
Untouched(j) == pc'[j] = pc[j] /\ work'[j] = work[j] /\ queue'[j] = queue[j] /\ waives'[j] = waives[j]
==============================================================================
