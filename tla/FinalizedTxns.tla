---------------------------- MODULE FinalizedTxns ----------------------------
(***************************************************************************)
(* The bounded memory of decided transactions (ferrosa-cluster/src/accord/ *)
(* finalized.rs) with the calls the state machine makes on it.  Exact      *)
(* tombstones answer for the recent past, a floor for everything below it; *)
(* the floor rises by retention, by eviction and at a restart.             *)
(*                                                                         *)
(* A transaction is its t0: Width * time + node.  now is this replica's    *)
(* hybrid logical clock; coordinators lead it by at most Drift.            *)
(***************************************************************************)
EXTENDS Integers, FiniteSets

CONSTANTS
    Txn,        \* the transactions, as timestamps
    Width,      \* how many timestamps share a time
    Capacity,   \* FINALIZED_CAPACITY
    Retention,  \* FINALIZED_RETENTION
    Timeout,    \* how long a coordinator listens for a PreAccept reply
    Drift,      \* the clock drift between nodes; a restart takes longer
    MaxTime     \* bound on the clock

ASSUME Bounds == /\ Txn \subseteq Nat /\ IsFiniteSet(Txn)
                 /\ Width \in Nat \ {0} /\ Capacity \in Nat \ {0}
                 /\ Retention \in Nat /\ Timeout \in Nat /\ Drift \in Nat
                 /\ MaxTime \in Nat
\* 60 s against 10 s and 500 ms.
ASSUME RetentionCovers == Retention > Timeout + Drift

VARIABLES
    now,        \* the clock
    floor,      \* every transaction at or below it is decided
    tombs,      \* exact tombstones
    ackable,    \* those of kind Applied
    live,       \* transactions with a TxnState
    done,       \* those among them in phase Applied
    recorded,   \* history: transactions this replica has decided and forgotten
    applied,    \* history: transactions that reached phase Applied here
    written,    \* history: those whose rows it made durable
    evicted,    \* history: the last tombstone evicted for capacity
    boot        \* history: the clock at the last restart

vars == <<now, floor, tombs, ackable, live, done, recorded, applied, written,
          evicted, boot>>

None == -1
Time(x) == x \div Width
Top(time) == Width * time + Width - 1

\* FinalizedTxns::decided
Decided(x) == x <= floor \/ x \in tombs

\* Mutant: the horizon is the clock itself.
MutHorizonNow == Top(now)

\* The retention horizon of advance_horizon (saturating_sub).
Horizon == Top(IF now > Retention THEN now - Retention ELSE 0)

\* Where enforce_capacity leaves the floor when the tombstones are S: it evicts
\* the oldest into the floor until the rest fit.
FloorFor(S) ==
    IF Cardinality(S) <= Capacity
    THEN {floor}
    ELSE {f \in S : Cardinality({x \in S : x > f}) = Capacity}

Above(S, f) == {x \in S : x > f}

Init ==
    /\ now = 0
    /\ floor = Top(0)
    /\ boot = 0
    /\ evicted = None
    /\ tombs = {} /\ ackable = {} /\ live = {} /\ done = {}
    /\ recorded = {} /\ applied = {} /\ written = {}

\* Its coordinator minted x by now.
Minted(x) == x <= Top(now + Drift)

\* handle_preaccept registers what is not decided.
PreAccept(x) ==
    /\ Minted(x)
    /\ x \notin live
    /\ ~Decided(x)
    /\ live' = live \cup {x}
    /\ UNCHANGED <<now, floor, tombs, ackable, done, recorded, applied, written,
                   evicted, boot>>

\* handle_accept and handle_commit create the state they need.
Create(x) ==
    /\ Minted(x)
    /\ x \notin live
    /\ live' = live \cup {x}
    /\ UNCHANGED <<now, floor, tombs, ackable, done, recorded, applied, written,
                   evicted, boot>>

\* bookkeep_applied after the rows of x were made durable.
Apply(x) ==
    /\ x \in live \ done
    /\ done' = done \cup {x}
    /\ applied' = applied \cup {x}
    /\ written' = written \cup {x}
    /\ UNCHANGED <<now, floor, tombs, ackable, live, recorded, evicted, boot>>

\* A no-write finalize of a transaction with a state: Applied, without rows.
NoWriteFinalize(x) ==
    /\ x \in live \ done
    /\ done' = done \cup {x}
    /\ applied' = applied \cup {x}
    /\ UNCHANGED <<now, floor, tombs, ackable, live, recorded, written, evicted,
                   boot>>

\* Mutant: the tombstone counts as an apply.
MutRecordAsApplied(x) ==
    /\ Minted(x)
    /\ x \notin live
    /\ \E f \in FloorFor(tombs \cup Above({x}, floor)) :
          /\ floor' = f
          /\ evicted' = IF f = floor THEN evicted ELSE f
          /\ tombs' = Above(tombs \cup {x}, f)
          /\ ackable' = Above(ackable \cup {x}, f)
    /\ recorded' = recorded \cup {x}
    /\ UNCHANGED <<now, live, done, applied, written, boot>>

\* A no-write finalize of a transaction without a state: record.
Record(x) ==
    /\ Minted(x)
    /\ x \notin live
    /\ \E f \in FloorFor(tombs \cup Above({x}, floor)) :
          /\ floor' = f
          /\ evicted' = IF f = floor THEN evicted ELSE f
          /\ tombs' = Above(tombs \cup {x}, f)
          /\ ackable' = Above(ackable, f)
    /\ recorded' = recorded \cup {x}
    /\ UNCHANGED <<now, live, done, applied, written, boot>>

\* Mutant: evicted tombstones do not raise the floor.
MutPruneNoFloor ==
    /\ \E f \in FloorFor(tombs \cup Above(done, floor)) :
          LET g == IF f > Horizon THEN f ELSE Horizon
          IN  /\ floor' = IF floor > Horizon THEN floor ELSE Horizon
              /\ evicted' = IF f = floor THEN evicted ELSE f
              /\ tombs' = Above(tombs \cup done, g)
              /\ ackable' = Above(ackable \cup done, g)
    /\ live' = live \ done
    /\ done' = {}
    /\ recorded' = recorded \cup done
    /\ UNCHANGED <<now, applied, written, boot>>

\* Mutant: the capacity is not enforced.
MutPruneUnbounded ==
    /\ LET g == IF floor > Horizon THEN floor ELSE Horizon
       IN  /\ floor' = g
           /\ tombs' = Above(tombs \cup done, g)
           /\ ackable' = Above(ackable \cup done, g)
    /\ live' = live \ done
    /\ done' = {}
    /\ recorded' = recorded \cup done
    /\ UNCHANGED <<now, applied, written, evicted, boot>>

\* prune_applied: record_applied of every applied transaction, then
\* advance_horizon.  The order of the records does not matter: the newest
\* Capacity of them stay.
PruneApplied ==
    /\ \E f \in FloorFor(tombs \cup Above(done, floor)) :
          LET g == IF f > Horizon THEN f ELSE Horizon
          IN  /\ floor' = g
              /\ evicted' = IF f = floor THEN evicted ELSE f
              /\ tombs' = Above(tombs \cup done, g)
              /\ ackable' = Above(ackable \cup done, g)
    /\ live' = live \ done
    /\ done' = {}
    /\ recorded' = recorded \cup done
    /\ UNCHANGED <<now, applied, written, boot>>

Tick ==
    /\ now < MaxTime
    /\ now' = now + 1
    /\ UNCHANGED <<floor, tombs, ackable, live, done, recorded, applied, written,
                   evicted, boot>>

\* with_clock: nothing is remembered, the floor covers all that was minted.
Restart ==
    /\ \E t \in now + Drift .. MaxTime :
          now' = t /\ boot' = t /\ floor' = Top(t)
    /\ tombs' = {} /\ ackable' = {} /\ live' = {} /\ done' = {}
    /\ UNCHANGED <<recorded, applied, written, evicted>>

Next ==
    \/ \E x \in Txn : \/ PreAccept(x) \/ Create(x) \/ Apply(x)
                      \/ NoWriteFinalize(x) \/ Record(x)
    \/ PruneApplied \/ Tick \/ Restart

Spec == Init /\ [][Next]_vars

------------------------------------------------------------------------------
\* Properties

\* Every variable keeps its type and the record its capacity
\* (FinalizedTxns, enforce_capacity).
TypeOK ==
    /\ now \in Nat /\ boot \in Nat
    /\ floor \in Nat
    /\ evicted \in Nat \cup {None}
    /\ tombs \in SUBSET Txn /\ ackable \in SUBSET tombs
    /\ Cardinality(tombs) <= Capacity
    /\ live \in SUBSET Txn /\ done \in SUBSET live
    /\ recorded \in SUBSET Txn /\ applied \in SUBSET Txn
    /\ written \in SUBSET applied

Promise == INSTANCE Decisions WITH decided <- recorded,
                                   refused <- {x \in Txn : Decided(x)}

\* The record implements its promise: a decided transaction is refused and no
\* refusal is taken back, by pruning, by eviction or by a restart (decided).
KeepsPromise == Promise!Spec

\* A retried Apply is acked from the record only if the transaction reached
\* Applied here: neither the floor nor the tombstone of a transaction that was
\* never registered answers for it (was_applied).
AckableWasApplied == ackable \subseteq applied

\* A PreAccept its coordinator still listens for is refused only if it was
\* decided, was minted before the restart or lost its place to the capacity:
\* retention costs nothing (FINALIZED_RETENTION).
UsableIsAccepted ==
    \A x \in Txn \ recorded :
        /\ Time(x) + Timeout + Drift >= now
        /\ Time(x) > boot
        /\ x > evicted
        => ~Decided(x)

(* A statement of the source that does not hold; the README tells why *)

\* A tombstone of kind Applied stands for rows this replica wrote: a no-write
\* finalize is never read as an apply (TombstoneKind).
AckableWasWritten == ackable \subseteq written
==============================================================================
