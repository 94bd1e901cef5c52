------------------------------ MODULE AccordTxn ------------------------------
(***************************************************************************)
(* The Accord transaction protocol of ferrosa-cluster/src/accord on one    *)
(* partition key, end to end: a coordinator mints t0, collects PreAccept   *)
(* votes, takes the fast path or an Accept round, commits on a slow        *)
(* quorum, lets every replica vote on the row at the agreed t when the     *)
(* statement is an INSERT IF NOT EXISTS, and applies.  Every conflict is   *)
(* on the one key, which is the case the conflict index exists for.        *)
(*                                                                         *)
(* A reply that a replica sent is recorded at once (votes, acks, reads);   *)
(* the coordinator's decisions then range over the subsets of them it can  *)
(* have heard so far, which covers every order, delay and loss of replies. *)
(* A request is handled at most once by each replica, at any time after it *)
(* was sent, also when the coordinator has long moved on, or never.        *)
(* The storage half of Apply is the subject of module ApplyEngine.         *)
(***************************************************************************)
EXTENDS Integers, FiniteSets, FiniteSetsExt

CONSTANTS
    Setups,     \* the key's replicas, and the node that coordinates each transaction
    Node,       \* all nodes; one that is no replica can still coordinate
    Txn,        \* transactions, each named by the physical time of its t0
    Insert,     \* those that are INSERT IF NOT EXISTS; the others are plain writes
    Prior,      \* those already applied and pruned everywhere before the start
    Value,      \* Txn -> Nat: the order of the cell values they write
    Env         \* what may happen in this instance

\* The values of a timestamp's seq and of its node (Stamp).
D == 1000
ASSUME StampDigits == Node \subseteq 0 .. D - 1 /\ Txn \subseteq 1 .. D - 1
ASSUME Copies == \A s \in Setups : /\ s.replicas \subseteq Node /\ Cardinality(s.replicas) > 1
                                   /\ s.home \in [Txn -> Node]
ASSUME Statements == Insert \subseteq Txn /\ Prior \subseteq Txn /\ Value \in [Txn -> Nat]
ASSUME Faults == Env \subseteq {"fail", "late", "fsync", "prune"}

VARIABLES
    Replica, Home,      \* the setup, fixed at the start
    clock,      \* per node: <time, seq> of its hybrid logical clock, as a number
    pc,         \* the coordinator's phase, and in the end what the client is told
    sent,       \* the kinds of request a coordinator has broadcast
    got,        \* <<kind, replica>>: the requests that replicas have handled
    voteT, voteDeps,    \* PreAcceptOK replies: proposed t (0: none) and deps
    ct, ad, cd, \* the execution timestamp, the deps of Accept, the deps of Commit
    acks,       \* replicas that acknowledged the current broadcast
    reads,      \* read votes
    phase, tt, deps,    \* per replica: TxnState.phase, .t and .deps
    index,      \* per replica: transactions with a conflict-index entry on the key
    hwm,        \* per replica: execution-timestamp high-water mark of the key
    tomb,       \* per replica: decided transactions without a state (FinalizedTxns)
    rowT,       \* per replica: the t a transaction's row was written at (0: not)
    earlier     \* history: the transactions acknowledged before this one began

stateVars == <<phase, tt, deps, index, hwm, tomb>>
vars == <<Replica, Home, clock, pc, sent, got, voteT, voteDeps, ct, ad, cd, acks, reads,
          phase, tt, deps, index, hwm, tomb, rowT, earlier>>

Kind == {"PreAccept", "Accept", "Commit", "Apply", "NoWrite"}
Terminal == {"ok", "refused", "failed", "abandoned", "unknown"}
Phase == {"none", "PreAccepted", "Accepted", "Committed", "Applied"}

\* Read votes: none yet, dep-wait passed, abstained; otherwise the row's bytes.
NoRead == -1
Ready == -2
Abstain == -3
Absent == 0

------------------------------------------------------------------------------
\* Timestamps and quorums

Stamp(time, seq, n) == D * (D * time + seq) + n
T0(x) == Stamp(x, 0, Home[x])

\* Mutant: keeps the other's seq.
MutBumpPastSameSeq(t, n) == D * (t \div D) + n

SeqOf(t) == (t \div D) % D

\* Timestamp::bump_past: the other's time, the next seq, which saturates, this
\* node.
BumpPast(t, n) == D * (t \div D + (IF SeqOf(t) < D - 1 THEN 1 ELSE 0)) + n

\* accord_cell_timestamp keeps the physical time and drops seq and node.
CellTs(t) == t \div (D * D)

RF == Cardinality(Replica)
SlowQuorum == RF \div 2 + 1
FastQuorum == (3 * (RF - SlowQuorum) + 1) \div 2 + 1

\* The coordinator's own PreAccept vote counts unless it alone would be a
\* fast quorum.
SelfVotes == FastQuorum > 1
IsReplica(x) == Home[x] \in Replica

\* The HLC after witnessing t.
Witness(n, t) == [clock EXCEPT ![n] = Max({@, t \div D})]

------------------------------------------------------------------------------
\* The conflict index of replica r

\* max_conflicting_timestamp (0: no conflict)
MaxConflict(r) == Max({tt[r][y] : y \in index[r]} \cup {hwm[r]})

\* deps_before_t0 and deps_before_t
DepsBefore(r, t) == {y \in index[r] : T0(y) < t}

\* The high-water mark after set_commit_ts: only a live entry raises it.
RaisedHwm(r, x, t) ==
    IF x \in index[r] THEN [hwm EXCEPT ![r] = Max({@, t})] ELSE hwm

\* Mutant: only committed conflicts are waited for.
MutUnappliedCommittedOnly(r, t) ==
    {y \in DepsBefore(r, t) : phase[r][y] = "Committed" /\ tt[r][y] < t}

\* Mutant: a committed conflict is waited for even if it executes after t.
MutUnappliedAnyT(r, t) ==
    {y \in DepsBefore(r, t) : phase[r][y] \in {"PreAccepted", "Accepted", "Committed"}}

\* unapplied_conflicts_before: what a read at t must wait for.
Unapplied(r, t) ==
    {y \in DepsBefore(r, t) : \/ phase[r][y] \in {"PreAccepted", "Accepted"}
                              \/ phase[r][y] = "Committed" /\ tt[r][y] < t}

------------------------------------------------------------------------------
\* The replica's handlers.  Each says what becomes of the replica's state.

\* Mutant: no tombstone is consulted.
MutPreAcceptRefusedByPhase(r, x) == phase[r][x] \in {"Accepted", "Committed", "Applied"}

\* handle_preaccept: a decided or further advanced transaction gets no vote,
\* a repeated one its cached vote, a new one is bumped past every conflict
\* and registered.
PreAcceptRefused(r, x) ==
    x \in tomb[r] \/ phase[r][x] \in {"Accepted", "Committed", "Applied"}

ProposedT(r, x) ==
    IF MaxConflict(r) >= T0(x) THEN BumpPast(MaxConflict(r), r) ELSE T0(x)

Register(r, x) ==
    /\ phase' = [phase EXCEPT ![r][x] = "PreAccepted"]
    /\ tt' = [tt EXCEPT ![r][x] = ProposedT(r, x)]
    /\ deps' = [deps EXCEPT ![r][x] = DepsBefore(r, T0(x))]
    /\ index' = [index EXCEPT ![r] = @ \cup {x}]
    /\ clock' = Witness(r, ProposedT(r, x))
    /\ UNCHANGED <<hwm, tomb>>

\* A vote counts while the coordinator is still collecting.
Vote(r, x, t, d) ==
    IF pc[x] \in {"mint", "preaccept"}
    THEN /\ voteT' = [voteT EXCEPT ![x][r] = t]
         /\ voteDeps' = [voteDeps EXCEPT ![x][r] = d]
    ELSE UNCHANGED <<voteT, voteDeps>>

HandlePreAccept(r, x) ==
    \/ /\ ~PreAcceptRefused(r, x) /\ phase[r][x] = "PreAccepted"
       /\ Vote(r, x, tt[r][x], deps[r][x])
       /\ UNCHANGED <<stateVars, clock>>
    \/ /\ ~PreAcceptRefused(r, x) /\ phase[r][x] = "none"
       /\ Register(r, x)
       /\ Vote(r, x, ProposedT(r, x), DepsBefore(r, T0(x)))
    \* The fsync failed: the registration is rolled back, the clock is not.
    \/ /\ "fsync" \in Env
       /\ ~PreAcceptRefused(r, x) /\ phase[r][x] = "none"
       /\ clock' = Witness(r, ProposedT(r, x))
       /\ UNCHANGED <<stateVars, voteT, voteDeps>>

\* An Accept or Commit creates the TxnState it needs; a failed fsync leaves
\* it as created, PreAccepted at t0.
Create(r, x) ==
    /\ phase[r][x] \notin {"Committed", "Applied"}
    /\ phase' = [phase EXCEPT ![r][x] = IF @ = "none" THEN "PreAccepted" ELSE @]
    /\ tt' = [tt EXCEPT ![r][x] = IF phase[r][x] = "none" THEN T0(x) ELSE @]
    /\ UNCHANGED <<deps, index, hwm, tomb, clock>>

HandleAccept(r, x, t, d) ==
    /\ phase[r][x] \notin {"Committed", "Applied"}
    /\ phase' = [phase EXCEPT ![r][x] = "Accepted"]
    /\ tt' = [tt EXCEPT ![r][x] = t]
    /\ deps' = [deps EXCEPT ![r][x] = @ \cup d]
    /\ hwm' = RaisedHwm(r, x, t)
    /\ clock' = Witness(r, t)
    /\ UNCHANGED <<index, tomb>>

\* Mutant: the local dependencies are kept.
MutHandleCommitUnion(r, x, t, d) ==
    /\ phase[r][x] \notin {"Committed", "Applied"}
    /\ phase' = [phase EXCEPT ![r][x] = "Committed"]
    /\ tt' = [tt EXCEPT ![r][x] = t]
    /\ deps' = [deps EXCEPT ![r][x] = @ \cup d]
    /\ hwm' = RaisedHwm(r, x, t)
    /\ clock' = Witness(r, t)
    /\ UNCHANGED tomb

HandleCommit(r, x, t, d) ==
    /\ phase[r][x] \notin {"Committed", "Applied"}
    /\ phase' = [phase EXCEPT ![r][x] = "Committed"]
    /\ tt' = [tt EXCEPT ![r][x] = t]
    /\ deps' = [deps EXCEPT ![r][x] = d]
    /\ hwm' = RaisedHwm(r, x, t)
    /\ clock' = Witness(r, t)
    /\ UNCHANGED tomb

\* handle_apply with an empty payload: Applied without a row, or a tombstone
\* when this replica never heard of the transaction.
FinalizeNoWrite(r, x) ==
    /\ phase' = [phase EXCEPT ![r][x] = IF @ = "none" THEN @ ELSE "Applied"]
    /\ tomb' = IF phase[r][x] = "none" THEN [tomb EXCEPT ![r] = @ \cup {x}] ELSE tomb
    /\ UNCHANGED <<tt, deps, index, hwm>>

\* ordered_deps: live dependencies that do not execute after x.
OrderedDeps(r, x) ==
    {y \in deps[r][x] : /\ phase[r][y] # "none"
                        /\ ~(phase[r][y] \in {"Committed", "Applied"}
                             /\ tt[r][y] > tt[r][x])}
DepsApplied(r, x) == \A y \in OrderedDeps(r, x) : phase[r][y] = "Applied"

\* The row the storage engine returns for a read at t.  Cells merge by
\* timestamp, then by value; the merged cell is then dropped if it is newer
\* than t.  Its bytes carry its timestamp.
Supersedes(r, x, y) ==
    \/ CellTs(rowT[r][x]) > CellTs(rowT[r][y])
    \/ CellTs(rowT[r][x]) = CellTs(rowT[r][y]) /\ Value[x] >= Value[y]

Written(r) == {x \in Txn : rowT[r][x] # 0}
Current(r) == CHOOSE x \in Written(r) : \A y \in Written(r) : Supersedes(r, x, y)

RowAt(r, t) ==
    IF Written(r) # {} /\ CellTs(rowT[r][Current(r)]) <= CellTs(t)
    THEN D * CellTs(rowT[r][Current(r)]) + Current(r)
    ELSE Absent

------------------------------------------------------------------------------
Init ==
    /\ \E s \in Setups : Replica = s.replicas /\ Home = s.home
    /\ clock = [n \in Node |-> Max({0} \cup {D * x : x \in Prior})]
    /\ pc = [x \in Txn |-> IF x \in Prior THEN "ok" ELSE "idle"]
    /\ sent = [x \in Txn |-> {}]
    /\ got = [x \in Txn |-> {}]
    /\ voteT = [x \in Txn |-> [r \in Replica |-> 0]]
    /\ voteDeps = [x \in Txn |-> [r \in Replica |-> {}]]
    /\ ct = [x \in Txn |-> IF x \in Prior THEN T0(x) ELSE 0]
    /\ ad = [x \in Txn |-> {}]
    /\ cd = [x \in Txn |-> {}]
    /\ acks = [x \in Txn |-> {}]
    /\ reads = [x \in Txn |-> [r \in Replica |-> NoRead]]
    /\ phase = [r \in Replica |-> [x \in Txn |-> "none"]]
    /\ tt = [r \in Replica |-> [x \in Txn |-> 0]]
    /\ deps = [r \in Replica |-> [x \in Txn |-> {}]]
    /\ index = [r \in Replica |-> {}]
    /\ hwm = [r \in Replica |-> Max({0} \cup {T0(x) : x \in Prior})]
    /\ tomb = [r \in Replica |-> Prior]
    /\ rowT = [r \in Replica |-> [x \in Txn |-> ct[x]]]
    /\ earlier = [x \in Txn |-> {}]

------------------------------------------------------------------------------
\* The coordinator

\* A transaction begins: t0 is minted above everything its node witnessed.
Begin(x) ==
    /\ pc[x] = "idle"
    /\ D * x > clock[Home[x]]
    /\ clock' = [clock EXCEPT ![Home[x]] = D * x]
    /\ pc' = [pc EXCEPT ![x] = "mint"]
    /\ earlier' = [earlier EXCEPT ![x] = {y \in Txn : pc[y] = "ok"}]
    /\ UNCHANGED <<sent, got, voteT, voteDeps, ct, ad, cd, acks, reads, stateVars, rowT>>

Broadcast(x, kind) == sent' = [sent EXCEPT ![x] = @ \cup {kind}]
Handled(x, kind, r) == got' = [got EXCEPT ![x] = @ \cup {<<kind, r>>}]

\* Requests to one replica share a lane but run as one task each, and any of
\* them can fail: "late" lets a PreAccept be overtaken, or never arrive.
InTurn(x, r) == "late" \in Env \/ <<"PreAccept", r>> \in got[x]

\* A request that its handler would answer without changing anything is left
\* undelivered: no state tells the two apart.
Deliverable(x, kind, r) ==
    /\ kind \in sent[x]
    /\ <<kind, r>> \notin got[x]
    /\ kind # "PreAccept" => InTurn(x, r)

\* order_and_gate, phase 1: the local vote first, then the fan-out.
SendPreAccept(x) ==
    /\ pc[x] = "mint"
    /\ pc' = [pc EXCEPT ![x] = "preaccept"]
    /\ Broadcast(x, "PreAccept")
    /\ IF IsReplica(x)
       THEN /\ Handled(x, "PreAccept", Home[x])
            /\ IF SelfVotes
               THEN HandlePreAccept(Home[x], x)
               ELSE UNCHANGED <<stateVars, clock, voteT, voteDeps>>
       ELSE UNCHANGED <<stateVars, clock, voteT, voteDeps, got>>
    /\ UNCHANGED <<ct, ad, cd, acks, reads, rowT, earlier>>

PreAccept(r, x) ==
    /\ Deliverable(x, "PreAccept", r)
    /\ Handled(x, "PreAccept", r)
    /\ HandlePreAccept(r, x)
    /\ UNCHANGED <<pc, sent, ct, ad, cd, acks, reads, rowT, earlier>>

\* Sets of replies the coordinator can have processed: its own is first.
Heard(x, replies) ==
    {Q \in SUBSET replies : Home[x] \in replies => Home[x] \in Q}
Voters(x) == {r \in Replica : voteT[x][r] # 0}

Agree(x, Q) ==
    \A r, q \in Q : voteT[x][r] = T0(x) /\ voteDeps[x][r] = voteDeps[x][q]

FastDecided(x, Q) == Cardinality(Q) >= FastQuorum /\ Agree(x, Q)
SlowDecided(x, Q) == Cardinality(Q) >= SlowQuorum /\ ~Agree(x, Q)

\* handle_preaccept_ok stops at the first reply that decides; finalize_preaccept
\* falls back to Accept with any slow quorum once the fast-path window closed.
FastPathOf(x) == {Q \in Heard(x, Voters(x)) : FastDecided(x, Q)}
NeedAcceptOf(x) ==
    {Q \in Heard(x, Voters(x)) :
        /\ Cardinality(Q) >= SlowQuorum
        /\ ~FastDecided(x, Q)
        /\ \E last \in Q \ {Home[x]} : /\ ~FastDecided(x, Q \ {last})
                                         /\ ~SlowDecided(x, Q \ {last})}

\* Mutant: the earliest proposal wins.
MutMergedTMin(x, Q) == Min({voteT[x][r] : r \in Q})

MergedT(x, Q) == Max({voteT[x][r] : r \in Q})
MergedDeps(x, Q) == UNION {voteDeps[x][r] : r \in Q}
ForgetVotes(x) ==
    /\ voteT' = [voteT EXCEPT ![x] = [r \in Replica |-> 0]]
    /\ voteDeps' = [voteDeps EXCEPT ![x] = [r \in Replica |-> {}]]

\* Phase 3 begins with the coordinator's own Commit and, where its PreAccept
\* vote was skipped, its own index entry.
StartCommit(x, t, d) ==
    /\ ct' = [ct EXCEPT ![x] = t]
    /\ cd' = [cd EXCEPT ![x] = d]
    /\ pc' = [pc EXCEPT ![x] = "commit"]
    /\ Broadcast(x, "Commit")
    /\ IF IsReplica(x)
       THEN /\ HandleCommit(Home[x], x, t, d)
            /\ index' = [index EXCEPT ![Home[x]] = @ \cup {x}]
            /\ acks' = [acks EXCEPT ![x] = {Home[x]}]
            /\ Handled(x, "Commit", Home[x])
       ELSE /\ acks' = [acks EXCEPT ![x] = {}]
            /\ UNCHANGED <<stateVars, clock, got>>
    /\ UNCHANGED <<ad, reads, rowT, earlier>>

FastPath(x) ==
    /\ pc[x] = "preaccept"
    /\ \E Q \in FastPathOf(x) : StartCommit(x, T0(x), MergedDeps(x, Q))
    /\ ForgetVotes(x)

\* Phase 2: the coordinator accepts its own proposal, then asks the others.
StartAccept(x, t, d) ==
    /\ ct' = [ct EXCEPT ![x] = t]
    /\ ad' = [ad EXCEPT ![x] = d]
    /\ pc' = [pc EXCEPT ![x] = "accept"]
    /\ Broadcast(x, "Accept")
    /\ \/ /\ IsReplica(x)
          /\ HandleAccept(Home[x], x, t, d)
          /\ acks' = [acks EXCEPT ![x] = {Home[x]}]
          /\ Handled(x, "Accept", Home[x])
       \/ /\ IsReplica(x) /\ "fsync" \in Env
          /\ Create(Home[x], x)
          /\ Handled(x, "Accept", Home[x])
          /\ UNCHANGED acks
       \/ /\ ~IsReplica(x)
          /\ UNCHANGED <<stateVars, clock, acks, got>>
    /\ UNCHANGED <<cd, reads, rowT, earlier>>

NeedAccept(x) ==
    /\ pc[x] = "preaccept"
    /\ \E Q \in NeedAcceptOf(x) : StartAccept(x, MergedT(x, Q), MergedDeps(x, Q))
    /\ ForgetVotes(x)

\* An acknowledgement counts while the coordinator waits for this broadcast.
Ack(r, x, waiting) ==
    acks' = IF pc[x] = waiting THEN [acks EXCEPT ![x] = @ \cup {r}] ELSE acks

Accept(r, x) ==
    /\ Deliverable(x, "Accept", r)
    /\ Handled(x, "Accept", r)
    /\ \/ HandleAccept(r, x, ct[x], ad[x]) /\ Ack(r, x, "accept")
       \/ "fsync" \in Env /\ Create(r, x) /\ UNCHANGED acks
    /\ UNCHANGED <<pc, sent, voteT, voteDeps, ct, ad, cd, reads, rowT, earlier>>

\* handle_accept_ok: the first slow quorum commits with the deps it reported.
SlowPath(x) ==
    /\ pc[x] = "accept"
    /\ \E Q \in Heard(x, acks[x]) :
          /\ Cardinality(Q) = SlowQuorum
          /\ StartCommit(x, ct[x], ad[x] \cup UNION {deps[r][x] : r \in Q})
    /\ UNCHANGED <<voteT, voteDeps>>

\* A replica answers CommitOk also when its fsync failed and nothing was
\* committed.
Commit(r, x) ==
    /\ Deliverable(x, "Commit", r)
    /\ Handled(x, "Commit", r)
    /\ \/ HandleCommit(r, x, ct[x], cd[x]) /\ UNCHANGED index
       \/ "fsync" \in Env /\ Create(r, x)
    /\ Ack(r, x, "commit")
    /\ UNCHANGED <<pc, sent, voteT, voteDeps, ct, ad, cd, reads, rowT, earlier>>

\* Mutant: Apply is broadcast before the condition is evaluated.
MutCommitQuorumApplies(x) ==
    /\ pc[x] = "commit"
    /\ Cardinality(acks[x]) >= SlowQuorum
    /\ acks' = [acks EXCEPT ![x] = {}]
    /\ pc' = [pc EXCEPT ![x] = IF x \in Insert THEN "read" ELSE "apply"]
    /\ Broadcast(x, "Apply")
    /\ UNCHANGED <<clock, got, voteT, voteDeps, ct, ad, cd, reads, stateVars,
                   rowT, earlier>>

CommitQuorum(x) ==
    /\ pc[x] = "commit"
    /\ Cardinality(acks[x]) >= SlowQuorum
    /\ acks' = [acks EXCEPT ![x] = {}]
    /\ IF x \in Insert
       THEN pc' = [pc EXCEPT ![x] = "read"] /\ UNCHANGED sent
       ELSE pc' = [pc EXCEPT ![x] = "apply"] /\ Broadcast(x, "Apply")
    /\ UNCHANGED <<clock, got, voteT, voteDeps, ct, ad, cd, reads, stateVars,
                   rowT, earlier>>

\* Phase 4.  The coordinator's own replica reads first; the others are asked
\* once it has read or given up.  The dep-wait and the read are two visits to
\* the state machine.
MayRead(r, x) ==
    /\ pc[x] = "read"
    /\ InTurn(x, r)
    /\ r # Home[x] /\ IsReplica(x) => reads[x][Home[x]] \notin {NoRead, Ready}

DepWait(r, x) ==
    /\ MayRead(r, x)
    /\ reads[x][r] = NoRead
    /\ Unapplied(r, ct[x]) = {}
    /\ reads' = [reads EXCEPT ![x][r] = Ready]
    /\ UNCHANGED <<clock, pc, sent, got, voteT, voteDeps, ct, ad, cd, acks,
                   stateVars, rowT, earlier>>

ReadRow(r, x) ==
    /\ MayRead(r, x)
    /\ reads[x][r] = Ready
    /\ reads' = [reads EXCEPT ![x][r] = RowAt(r, ct[x])]
    /\ UNCHANGED <<clock, pc, sent, got, voteT, voteDeps, ct, ad, cd, acks,
                   stateVars, rowT, earlier>>

\* The dep-wait made no progress for its whole bound.
AbstainRead(r, x) ==
    /\ "fail" \in Env
    /\ MayRead(r, x)
    /\ reads[x][r] = NoRead
    /\ reads' = [reads EXCEPT ![x][r] = Abstain]
    /\ UNCHANGED <<clock, pc, sent, got, voteT, voteDeps, ct, ad, cd, acks,
                   stateVars, rowT, earlier>>

\* agreed_row: F+1 identical reads.
Agreed(x, row) == Cardinality({r \in Replica : reads[x][r] = row}) >= SlowQuorum
ForgetReads(x) == reads' = [reads EXCEPT ![x] = [r \in Replica |-> NoRead]]

GatePassed(x) ==
    /\ pc[x] = "read"
    /\ Agreed(x, Absent)
    /\ pc' = [pc EXCEPT ![x] = "apply"]
    /\ Broadcast(x, "Apply")
    /\ ForgetReads(x)
    /\ UNCHANGED <<clock, got, voteT, voteDeps, ct, ad, cd, acks, stateVars,
                   rowT, earlier>>

\* Mutant: only the local replica is told.
MutGiveUpLocally(x, outcome) ==
    /\ pc' = [pc EXCEPT ![x] = outcome]
    /\ UNCHANGED sent
    /\ IF IsReplica(x)
       THEN FinalizeNoWrite(Home[x], x) /\ Handled(x, "NoWrite", Home[x])
       ELSE UNCHANGED <<stateVars, got>>
    /\ acks' = [acks EXCEPT ![x] = {}]
    /\ ForgetVotes(x)
    /\ ForgetReads(x)
    /\ UNCHANGED <<clock, ct, ad, cd, rowT, earlier>>

\* finalize_no_write: the local replica at once, the others by a fan-out that
\* runs detached from the transaction.
GiveUp(x, outcome) ==
    /\ pc' = [pc EXCEPT ![x] = outcome]
    /\ Broadcast(x, "NoWrite")
    /\ IF IsReplica(x)
       THEN FinalizeNoWrite(Home[x], x) /\ Handled(x, "NoWrite", Home[x])
       ELSE UNCHANGED <<stateVars, got>>
    /\ acks' = [acks EXCEPT ![x] = {}]
    /\ ForgetVotes(x)
    /\ ForgetReads(x)
    /\ UNCHANGED <<clock, ct, ad, cd, rowT, earlier>>

ConditionNotMet(x) ==
    /\ pc[x] = "read"
    /\ \E r \in Replica : reads[x][r] > Absent /\ Agreed(x, reads[x][r])
    /\ GiveUp(x, "refused")

\* Every answer is in and no phase decision follows from them.
AllAnswered(x) ==
    \/ /\ pc[x] = "preaccept"
       /\ \A r \in Replica : <<"PreAccept", r>> \in got[x]
       /\ FastPathOf(x) = {} /\ NeedAcceptOf(x) = {}
    \/ /\ pc[x] = "read"
       /\ \A r \in Replica : reads[x][r] \notin {NoRead, Ready}
       /\ \A r \in Replica : reads[x][r] # Abstain => ~Agreed(x, reads[x][r])

\* A round ends short of its quorum: RPCs fail or time out, or the answers
\* decide nothing.
RoundFails(x) ==
    /\ pc[x] \in {"preaccept", "accept", "commit", "read"}
    /\ "fail" \in Env \/ AllAnswered(x)
    /\ GiveUp(x, "failed")

\* Phase 5: a replica applies once its ordered dependencies have.
Apply(r, x) ==
    /\ Deliverable(x, "Apply", r)
    /\ r = Home[x] => pc[x] \in {"local", "unknown"}
    /\ Handled(x, "Apply", r)
    /\ phase[r][x] \in {"PreAccepted", "Accepted", "Committed"}
    /\ DepsApplied(r, x)
    /\ phase' = [phase EXCEPT ![r][x] = "Applied"]
    /\ rowT' = [rowT EXCEPT ![r][x] = tt[r][x]]
    /\ Ack(r, x, "apply")
    /\ UNCHANGED <<clock, pc, sent, voteT, voteDeps, ct, ad, cd, reads, tt, deps,
                   index, hwm, tomb, earlier>>

\* The coordinator's own replica is an implicit ack of the Apply quorum.
ApplyAcks(x, Q) == Cardinality(Q) + (IF IsReplica(x) THEN 1 ELSE 0)

ApplyQuorum(x) ==
    /\ pc[x] = "apply"
    /\ ApplyAcks(x, acks[x]) >= SlowQuorum
    /\ pc' = [pc EXCEPT ![x] = IF IsReplica(x) THEN "local" ELSE "ok"]
    /\ acks' = [acks EXCEPT ![x] = {}]
    /\ UNCHANGED <<clock, sent, got, voteT, voteDeps, ct, ad, cd, reads,
                   stateVars, rowT, earlier>>

\* Mutant: the client is answered before the local apply.
MutLocalDoneAtOnce(x) ==
    /\ pc[x] = "local"
    /\ pc' = [pc EXCEPT ![x] = "ok"]
    /\ UNCHANGED <<clock, sent, got, voteT, voteDeps, ct, ad, cd, acks, reads,
                   stateVars, rowT, earlier>>

\* The quorum is secured: the local write decides only what is reported.
LocalDone(x) ==
    /\ pc[x] = "local"
    /\ \/ phase[Home[x]][x] = "Applied" /\ pc' = [pc EXCEPT ![x] = "ok"]
       \/ "fail" \in Env /\ pc' = [pc EXCEPT ![x] = "unknown"]
    /\ UNCHANGED <<clock, sent, got, voteT, voteDeps, ct, ad, cd, acks, reads,
                   stateVars, rowT, earlier>>

\* No quorum in time: with some ack the transaction is committed and the local
\* replica converges; with none it is abandoned as not committed.
ApplyFails(x) ==
    /\ "fail" \in Env
    /\ pc[x] = "apply"
    /\ \/ /\ \E Q \in SUBSET acks[x] : Q # {} /\ ApplyAcks(x, Q) < SlowQuorum
          /\ pc' = [pc EXCEPT ![x] = "unknown"]
          /\ acks' = [acks EXCEPT ![x] = {}]
          /\ UNCHANGED <<clock, sent, got, voteT, voteDeps, ct, ad, cd, reads,
                         stateVars, rowT, earlier>>
       \/ GiveUp(x, "abandoned")

NoWrite(r, x) ==
    /\ Deliverable(x, "NoWrite", r)
    /\ phase[r][x] # "Applied" /\ x \notin tomb[r]
    /\ Handled(x, "NoWrite", r)
    /\ FinalizeNoWrite(r, x)
    /\ UNCHANGED <<clock, pc, sent, voteT, voteDeps, ct, ad, cd, acks, reads,
                   rowT, earlier>>

\* prune_applied: applied transactions become tombstones and leave the index.
Prune(r) ==
    LET gone == {x \in Txn : phase[r][x] = "Applied"}
    IN  /\ "prune" \in Env
        /\ gone # {}
        /\ phase' = [phase EXCEPT ![r] = [x \in Txn |-> IF x \in gone THEN "none" ELSE @[x]]]
        /\ tt' = [tt EXCEPT ![r] = [x \in Txn |-> IF x \in gone THEN 0 ELSE @[x]]]
        /\ deps' = [deps EXCEPT ![r] = [x \in Txn |-> IF x \in gone THEN {} ELSE @[x]]]
        /\ index' = [index EXCEPT ![r] = @ \ gone]
        /\ tomb' = [tomb EXCEPT ![r] = @ \cup gone]
        /\ UNCHANGED <<clock, pc, sent, got, voteT, voteDeps, ct, ad, cd, acks,
                       reads, hwm, rowT, earlier>>

Coordinate(x) ==
    \/ Begin(x)
    \/ SendPreAccept(x)
    \/ FastPath(x) \/ NeedAccept(x) \/ SlowPath(x) \/ CommitQuorum(x)
    \/ GatePassed(x) \/ ConditionNotMet(x)
    \/ ApplyQuorum(x) \/ LocalDone(x)
    \/ RoundFails(x) \/ ApplyFails(x)

Serve(r, x) ==
    \/ PreAccept(r, x) \/ Accept(r, x) \/ Commit(r, x)
    \/ DepWait(r, x) \/ ReadRow(r, x) \/ AbstainRead(r, x)
    \/ Apply(r, x) \/ NoWrite(r, x)

Next ==
    /\ \/ \E x \in Txn : Coordinate(x)
       \/ \E r \in Replica, x \in Txn : Serve(r, x)
       \/ \E r \in Replica : Prune(r)
    /\ UNCHANGED <<Replica, Home>>

Spec == Init /\ [][Next]_vars

\* The task of a transaction that began is scheduled, and each of its rounds
\* ends by a timeout if not otherwise ("fail").  No request has to arrive:
\* Accept, Commit and Apply are sent once, the no-write finalize eight times.
Fairness ==
    \A x \in Txn : WF_vars(pc[x] # "idle" /\ Coordinate(x) /\ UNCHANGED <<Replica, Home>>)

LiveSpec == Spec /\ Fairness

------------------------------------------------------------------------------
\* Properties

\* Every variable keeps its type: coordinator rounds, replica transaction
\* states, which have a timestamp as soon as they exist, the conflict index
\* and the rows (TxnState, ConflictIndex).
TypeOK ==
    /\ \E s \in Setups : Replica = s.replicas /\ Home = s.home
    /\ clock \in [Node -> Nat]
    /\ pc \in [Txn -> {"idle", "mint", "preaccept", "accept", "commit", "read",
                       "apply", "local"} \cup Terminal]
    /\ sent \in [Txn -> SUBSET Kind]
    /\ got \in [Txn -> SUBSET (Kind \X Replica)]
    /\ voteT \in [Txn -> [Replica -> Nat]]
    /\ voteDeps \in [Txn -> [Replica -> SUBSET Txn]]
    /\ ct \in [Txn -> Nat]
    /\ ad \in [Txn -> SUBSET Txn]
    /\ cd \in [Txn -> SUBSET Txn]
    /\ acks \in [Txn -> SUBSET Replica]
    /\ reads \in [Txn -> [Replica -> Int]]
    /\ phase \in [Replica -> [Txn -> Phase]]
    /\ tt \in [Replica -> [Txn -> Nat]]
    /\ deps \in [Replica -> [Txn -> SUBSET Txn]]
    /\ index \in [Replica -> SUBSET Txn]
    /\ hwm \in [Replica -> Nat]
    /\ tomb \in [Replica -> SUBSET Txn]
    /\ rowT \in [Replica -> [Txn -> Nat]]
    /\ earlier \in [Txn -> SUBSET Txn]
    /\ \A r \in Replica, x \in Txn : (phase[r][x] = "none") = (tt[r][x] = 0)

Holders(x) == {r \in Replica : rowT[r][x] # 0}
Decided(x) == "Commit" \in sent[x]

\* At most one INSERT IF NOT EXISTS on the key is acknowledged, and none when
\* the row already exists (the read vote's dep-wait, unapplied_conflicts_before).
\* It holds where every replica handles a transaction's PreAccept before its
\* later requests; the run with "late" shows that it fails otherwise.
OneInsertWins ==
    /\ \A x, y \in Insert \ Prior : pc[x] = "ok" /\ pc[y] = "ok" => x = y
    /\ Prior # {} => \A x \in Insert \ Prior : pc[x] # "ok"

\* Two decided transactions on the key never share an execution timestamp
\* (bump_past and the coordinator's own vote).
ExecutionTimesDiffer ==
    \A x, y \in Txn : Decided(x) /\ Decided(y) /\ ct[x] = ct[y] => x = y

\* A transaction that begins after another was acknowledged executes after it
\* (max_conflicting_timestamp and its high-water mark: no real-time inversion).
RealTimeOrder ==
    \A x \in Txn : \A y \in earlier[x] : Decided(x) => ct[y] < ct[x]

\* An acknowledged write is on a slow quorum of replicas, the coordinator's
\* own included: the implicit ack is made good before the client hears.
AcknowledgedOnQuorum ==
    \A x \in Txn : pc[x] = "ok" => Cardinality(Holders(x)) >= SlowQuorum

\* A transaction that failed before Apply, or whose condition did not hold,
\* writes nothing anywhere, then or later (finalize_no_write).
NotAppliedWritesNothing ==
    \A x \in Txn : pc[x] \in {"failed", "refused"} => Holders(x) = {}

\* A replica that handled the no-write finalize never again holds the
\* transaction as a pending conflict, whatever arrives late (CL-36).
FinalizedNeverPending ==
    \A r \in Replica, x \in Txn :
        <<"NoWrite", r>> \in got[x] /\ x \in index[r] => phase[r][x] = "Applied"

\* Replicas that committed a transaction agree on when and after what it runs.
CommitsAgree ==
    \A r \in Replica, x \in Txn :
        phase[r][x] = "Committed" => tt[r][x] = ct[x] /\ deps[r][x] = cd[x]

\* No transaction waits forever, without any timeout to break a cycle of
\* contenders (run_transaction, ordered_deps, unapplied_conflicts_before): since
\* no step can be undone or repeated, one does exactly if the system comes to
\* rest before it is answered.
NeverStuck ==
    (\A x \in Txn : pc[x] \in Terminal \cup {"idle"}) \/ ENABLED Next

\* The coordinator has sent what decides x and replica r has not handled it: it
\* was lost, or it was an Apply that came before r had heard of x.
Missed(r, x) ==
    /\ sent[x] \cap {"Apply", "NoWrite"} # {}
    /\ <<"Apply", r>> \notin got[x] /\ <<"NoWrite", r>> \notin got[x]

\* However a transaction ends, the conflict indexes drain where its end is
\* heard: in the end a replica has it as a pending conflict, which later reads
\* would wait for and abstain on (CL-20), only if it missed the Apply or the
\* no-write finalize (finalize_no_write on every early end; recovery, which
\* would clear the rest, is started by nothing).
PendingOnlyIfMissed ==
    <>[](\A r \in Replica : \A x \in index[r] : phase[r][x] = "Applied" \/ Missed(r, x))

(* Statements of the source that do not hold; the README tells what refutes each *)

\* An abandoned transaction left nothing behind on any replica: what the
\* client is told when no ApplyOK arrived in time (apply_phase_within).
AbandonedWritesNothing ==
    \A x \in Txn : pc[x] = "abandoned" => Holders(x) = {}

\* A replica whose CommitOk was counted holds the transaction as committed
\* (handle_commit persists before it advances, and answers nothing otherwise).
CountedCommitsAreHeld ==
    \A x \in Txn : pc[x] = "commit" =>
        \A r \in acks[x] : phase[r][x] \in {"Committed", "Applied"}

\* A decided transaction, once it is only a tombstone, never has a TxnState
\* again (FinalizedTxns and prune_applied_idempotency).
DecidedStaysForgotten ==
    \A r \in Replica : \A x \in tomb[r] : phase[r][x] = "none"

\* The row a replica serves is that of the applied transaction with the latest
\* execution timestamp: last-write-wins follows the agreed order (restamp_row).
NewestRowIsServed ==
    \A r \in Replica : \A x \in Written(r) : rowT[r][x] <= rowT[r][Current(r)]

\* A replica that passed the dep-wait answers "no row" at t only if it holds no
\* row written before t: its current state is the state as of t (read_row_at).
AbsentMeansAbsentAtT ==
    \A r \in Replica, x \in Txn :
        reads[x][r] = Ready /\ RowAt(r, ct[x]) = Absent =>
            \A y \in Written(r) : rowT[r][y] > ct[x]

==============================================================================
