-------------------------- MODULE ApplyEngineProofs --------------------------
(***************************************************************************)
(* What an Apply ack rests on, for every set of transactions, timestamps,  *)
(* dependencies and concurrent Applies, and for every environment.         *)
(***************************************************************************)
EXTENDS ApplyInvariants, TLAPS

\* A step that names no other prover is Zenon's.
USE ZenonT(30)

\* The initial state has its type.
LEMMA InitTyped == Init => TypeOK
<1> SUFFICES ASSUME Init PROVE TypeOK
  OBVIOUS
<1>1. work \in [Worker -> [txn : SUBSET Txn, t : Nat, deps : SUBSET Txn]]
  BY DEF Init, NoWork
<1>2. reclaim \in [pc : {"idle", "clear", "drop"}, ids : SUBSET Txn]
  BY DEF Init, NoReclaim
<1>3. sent \in [Txn -> 0..MaxApplies]
  BY SMT, BoundAssumption DEF Init
<1>4. QED
  BY SMT, <1>1, <1>2, <1>3 DEF Init, TypeOK, Phases, Pcs

\* Every step keeps the types.
LEMMA TypeInductive ==
  ASSUME TypeOK, [Next]_vars
  PROVE  TypeOK'
<1> USE TxnAssumption, BoundAssumption DEF TypeOK, Worker
<1>1. ASSUME NEW x \in Txn, PreAccept(x) PROVE TypeOK'
  BY <1>1 DEF PreAccept, Phases, graph, inside
<1>2. ASSUME NEW x \in Txn, Commit(x) PROVE TypeOK'
  <2>1. waives' \in [Worker -> SUBSET (Txn \X Txn)]
    BY SMT, <1>2 DEF Commit, HandlerCascades
  <2>2. queue' \in [Worker -> SUBSET Txn] /\ pc' \in [Worker -> Pcs]
    BY <1>2 DEF Commit, HandlerCascades, Pcs
  <2>3. phase' \in [Txn -> Phases] /\ at' \in [Txn -> Nat] /\ deps' \in [Txn -> SUBSET Txn]
    BY <1>2 DEF Commit, Phases
  <2>4. QED
    BY <1>2, <2>1, <2>2, <2>3 DEF Commit, HandlerCascades, graph
<1>3. ASSUME NEW x \in Txn, CommitFails(x) PROVE TypeOK'
  BY <1>3 DEF CommitFails, Phases, graph, inside
<1>4. ASSUME NEW k \in Worker, NEW x \in Txn, Persistable(x), Started(k, x),
             applying' \in SUBSET Txn,
             UNCHANGED <<states, tomb, graph, parked, rows, markers, reclaim>>
      PROVE TypeOK'
  <2>1. work' \in [Worker -> [txn : SUBSET Txn, t : Nat, deps : SUBSET Txn]]
    <3>1. [txn |-> {x}, t |-> at[x], deps |-> OrderedDeps(x)] \in [txn : SUBSET Txn, t : Nat, deps : SUBSET Txn]
      BY DEF OrderedDeps
    <3>2. QED
      BY <1>4, <3>1 DEF Started
  <2>2. pc' \in [Worker -> Pcs] /\ sent' \in [Txn -> 0..MaxApplies]
    BY SMT, <1>4 DEF Started, Persistable, Pcs
  <2>3. QED
    BY <1>4, <2>1, <2>2 DEF Started, states, graph
<1>5. ASSUME NEW k \in Task, NEW x \in Txn, BeginApply(k, x) PROVE TypeOK'
  BY <1>4, <1>5 DEF BeginApply
<1>6. ASSUME NEW x \in Txn, LocalApply(x) PROVE TypeOK'
  BY <1>4, <1>6 DEF LocalApply
<1>7. ASSUME NEW k \in Worker, RegisterWaits(k) PROVE TypeOK'
  <2> DEFINE unmet == work[k].deps \ applied
             x == CHOOSE y \in Txn : work[k].txn = {y}
             cycle == \E d \in unmet : Reaches(d, x)
  <2>1. unmet \in SUBSET Txn
    OBVIOUS
  <2>2. waitingOn' = IF cycle THEN Cleared({x}) ELSE [waitingOn EXCEPT ![x] = @ \cup unmet]
    BY <1>7 DEF RegisterWaits
  <2>3. waitingOn' \in [Txn -> SUBSET Txn]
    <3> HIDE DEF cycle, x, unmet
    <3>1. CASE cycle
      BY <2>2, <3>1 DEF Cleared
    <3>2. CASE ~cycle
      BY <2>1, <2>2, <3>2
    <3>3. QED
      BY <3>1, <3>2
  <2>4. pc' \in [Worker -> Pcs]
    BY <1>7 DEF RegisterWaits, Goto, Pcs
  <2>5. QED
    BY <1>7, <2>3, <2>4 DEF RegisterWaits, Goto, states
<1>8. ASSUME NEW k \in Worker, Park(k) PROVE TypeOK'
  BY <1>8 DEF Park, Goto, Pcs, states, graph
<1>9. ASSUME NEW k \in Worker, ParkFails(k) PROVE TypeOK'
  BY <1>9 DEF ParkFails, Goto, Pcs, states, Cleared
<1>10. ASSUME NEW x \in Txn, NEW t \in Nat, Persisted(x, t)
       PROVE  /\ rows' \in [Txn -> SUBSET Nat] /\ applied' \subseteq Txn
              /\ waitingOn' \in [Txn -> SUBSET Txn]
  BY <1>10 DEF Persisted, Unwaited
<1>11. ASSUME NEW k \in Worker, Persist(k) PROVE TypeOK'
  <2>1. PICK x \in work[k].txn :
          /\ Persisted(x, work[k].t)
          /\ pc' = [pc EXCEPT ![k] = "cascade"]
          /\ queue' = [queue EXCEPT ![k] = Woken(x)]
          /\ done' = [done EXCEPT ![k] = {x}]
    BY <1>11 DEF Persist
  <2>2. x \in Txn /\ work[k].t \in Nat
    OBVIOUS
  <2>3. /\ rows' \in [Txn -> SUBSET Nat] /\ applied' \subseteq Txn
        /\ waitingOn' \in [Txn -> SUBSET Txn]
    BY <1>10, <2>1, <2>2
  <2>4. QED
    BY <1>11, <2>1, <2>2, <2>3 DEF Persist, Woken, Pcs, states
<1>12. ASSUME NEW k \in Worker, PersistFails(k) PROVE TypeOK'
  BY <1>12 DEF PersistFails, Goto, Pcs, states, graph
<1>13. ASSUME NEW k \in Worker, NEW x \in Txn, ApplyUnblocked(k, x) PROVE TypeOK'
  <2>1. /\ rows' \in [Txn -> SUBSET Nat] /\ applied' \subseteq Txn
        /\ waitingOn' \in [Txn -> SUBSET Txn]
    BY <1>10, <1>13 DEF ApplyUnblocked
  <2>2. QED
    BY <1>13, <2>1 DEF ApplyUnblocked, Woken, states
<1>14. ASSUME NEW k \in Worker, NEW x \in Txn, MarkUnblocked(k, x) PROVE TypeOK'
  BY <1>14 DEF MarkUnblocked, Woken, Unwaited, states
<1>15. ASSUME NEW k \in Worker, NEW x \in Txn, UnblockedFails(k, x) PROVE TypeOK'
  BY <1>15 DEF UnblockedFails, states, graph
<1>16. ASSUME NEW k \in Worker, NEW x \in Txn, NEW d \in Txn, Waive(k, x, d) PROVE TypeOK'
  BY <1>16 DEF Waive, states
<1>17. ASSUME NEW k \in Task, LeaveGate(k) PROVE TypeOK'
  BY <1>17 DEF LeaveGate, Goto, Pcs, states, graph
<1>18. ASSUME NEW X \in SUBSET Txn, Bookkeep(X)
       PROVE  /\ phase' \in [Txn -> Phases] /\ markers' \in [Txn -> 0..2]
              /\ UNCHANGED <<at, deps>>
  <2>1. phase' \in [Txn -> Phases]
    BY <1>18 DEF Bookkeep, Phases
  <2>2. QED
    BY SMT, <1>18, <2>1 DEF Bookkeep
<1>19. ASSUME NEW k \in Worker, Leave(k)
       PROVE  /\ pc' \in [Worker -> Pcs] /\ done' \in [Worker -> SUBSET Txn]
              /\ work' \in [Worker -> [txn : SUBSET Txn, t : Nat, deps : SUBSET Txn]]
              /\ UNCHANGED <<queue, waives>>
  BY <1>19 DEF Leave, NoWork, Pcs
<1>20. CASE HandlerDone
  BY <1>18, <1>19, <1>20 DEF HandlerDone, graph
<1>21. ASSUME NEW k \in Task, FinishApply(k) PROVE TypeOK'
  BY <1>18, <1>19, <1>21 DEF FinishApply, graph
<1>22. ASSUME NEW k \in Task, FinishParked(k) PROVE TypeOK'
  <2>1. UNION {LaterWaits(x) : x \in work[k].txn} \in SUBSET (Txn \X Txn)
    <3>1. work[k].txn \subseteq Txn
      OBVIOUS
    <3>2. ASSUME NEW x \in Txn, NEW p \in LaterWaits(x) PROVE p \in Txn \X Txn
      <4>1. PICK d \in waitingOn[x] : p = <<x, d>>
        BY DEF LaterWaits
      <4>2. d \in Txn
        OBVIOUS
      <4>3. QED
        BY <4>1, <4>2
    <3>3. ASSUME NEW p \in UNION {LaterWaits(x) : x \in work[k].txn} PROVE p \in Txn \X Txn
      <4>1. PICK x \in work[k].txn : p \in LaterWaits(x)
        BY SMT
      <4>2. x \in Txn
        BY <3>1
      <4>3. QED
        BY <3>2, <4>1, <4>2
    <3>4. QED
      BY <3>3
  <2>2. waives' \in [Worker -> SUBSET (Txn \X Txn)]
    BY <1>22, <2>1 DEF FinishParked
  <2>3. /\ pc' \in [Worker -> Pcs]
        /\ work' \in [Worker -> [txn : SUBSET Txn, t : Nat, deps : SUBSET Txn]]
    BY <1>22 DEF FinishParked, NoWork, Pcs
  <2>4. QED
    BY <1>22, <2>2, <2>3 DEF FinishParked, states, graph
<1>23. ASSUME NEW x \in Txn, FinalizeNoWrite(x) PROVE TypeOK'
  <2>1. waitingOn' \in [Txn -> SUBSET Txn] /\ applied' \subseteq Txn
    BY <1>23 DEF FinalizeNoWrite, Unwaited
  <2>2. /\ queue' \in [Worker -> SUBSET Txn] /\ pc' \in [Worker -> Pcs]
        /\ waives' \in [Worker -> SUBSET (Txn \X Txn)]
    BY <1>23 DEF FinalizeNoWrite, HandlerCascades, Woken, Pcs
  <2>3. phase' \in [Txn -> Phases] /\ tomb' \in [Txn -> {"none", "nowrite", "applied"}]
    BY SMT, <1>23 DEF FinalizeNoWrite, Phases
  <2>4. markers' \in [Txn -> 0..2]
    BY SMT, <1>23 DEF FinalizeNoWrite
  <2>5. QED
    BY <1>23, <2>1, <2>2, <2>3, <2>4 DEF FinalizeNoWrite, HandlerCascades
<1>24. CASE PruneApplied
  BY <1>24 DEF PruneApplied, Phases, inside
<1>25. CASE ReclaimSelect
  BY SMT, <1>25 DEF ReclaimSelect, states, graph, inside
<1>26. CASE ReclaimClear
  BY <1>26 DEF ReclaimClear, Cleared, states, inside
<1>27. CASE ReclaimDrop
  BY <1>27 DEF ReclaimDrop, NoReclaim, states, graph, inside
<1>28. CASE UNCHANGED vars
  BY <1>28 DEF vars
<1>29. QED
  BY <1>1, <1>2, <1>3, <1>5, <1>6, <1>7, <1>8, <1>9, <1>11, <1>12, <1>13, <1>14, <1>15, <1>16,
     <1>17, <1>20, <1>21, <1>22, <1>23, <1>24, <1>25, <1>26, <1>27, <1>28 DEF Next, Inside

\* Every step keeps DurableInv: what a worker reports is durable, and only what
\* is reported, or finalized without a write, becomes Applied.
LEMMA DurableInductive ==
  ASSUME DurableInv, [Next]_vars
  PROVE  DurableInv'
<1> DEFINE Reported == \A k \in Worker : \A x \in done[k] : rows[x] # {}
<1>1. TypeOK /\ TypeOK' /\ Reported /\ AppliedImpliesDurable
  BY TypeInductive DEF DurableInv
<1> USE <1>1 DEF TypeOK, Worker, AppliedImpliesDurable
<1>2. ASSUME UNCHANGED <<done, rows, phase, tomb>> PROVE Reported' /\ AppliedImpliesDurable'
  BY <1>2
<1>3. ASSUME NEW x \in Txn, PreAccept(x) \/ CommitFails(x)
      PROVE  Reported' /\ AppliedImpliesDurable'
  BY SMTT(30), <1>3 DEF PreAccept, CommitFails, inside
<1>4. ASSUME NEW x \in Txn, Commit(x) PROVE Reported' /\ AppliedImpliesDurable'
  BY SMT, <1>4 DEF Commit, HandlerCascades
<1>5. ASSUME NEW x \in Txn, LocalApply(x) \/ \E k \in Task : BeginApply(k, x)
      PROVE  Reported' /\ AppliedImpliesDurable'
  BY <1>2, <1>5 DEF LocalApply, BeginApply, Started, states
<1>6. ASSUME NEW k \in Worker,
             \/ RegisterWaits(k) \/ Park(k) \/ ParkFails(k) \/ PersistFails(k)
             \/ \E x \in Txn : MarkUnblocked(k, x) \/ UnblockedFails(k, x)
             \/ \E x, d \in Txn : Waive(k, x, d)
             \/ LeaveGate(k) \/ FinishParked(k)
      PROVE  Reported' /\ AppliedImpliesDurable'
  BY <1>2, <1>6 DEF RegisterWaits, Park, ParkFails, PersistFails, MarkUnblocked, UnblockedFails,
                    Waive, LeaveGate, FinishParked, Goto, states
<1>7. ASSUME NEW k \in Worker, NEW x \in Txn, NEW t \in Nat, Persisted(x, t),
             UNCHANGED <<phase, tomb>>,
             done' \in [Worker -> SUBSET Txn],
             \A j \in Worker : done'[j] \subseteq done[j] \cup {x}
      PROVE  Reported' /\ AppliedImpliesDurable'
  <2>1. rows'[x] # {} /\ \A y \in Txn : rows[y] # {} => rows'[y] # {}
    BY SMT, <1>7 DEF Persisted
  <2>2. QED
    BY <1>7, <2>1
<1>8. ASSUME NEW k \in Worker, Persist(k) PROVE Reported' /\ AppliedImpliesDurable'
  <2>1. PICK x \in work[k].txn : Persisted(x, work[k].t) /\ done' = [done EXCEPT ![k] = {x}]
    BY <1>8 DEF Persist
  <2>2. x \in Txn /\ work[k].t \in Nat
    OBVIOUS
  <2>3. UNCHANGED <<phase, tomb>> /\ \A j \in Worker : done'[j] \subseteq done[j] \cup {x}
    BY <1>8, <2>1 DEF Persist, states
  <2>4. QED
    BY <1>7, <2>1, <2>2, <2>3
<1>9. ASSUME NEW k \in Worker, NEW x \in Txn, ApplyUnblocked(k, x)
      PROVE  Reported' /\ AppliedImpliesDurable'
  <2>1. Persisted(x, parked[x]) /\ UNCHANGED <<phase, tomb>> /\ parked[x] \in Nat
    BY <1>9 DEF ApplyUnblocked, states
  <2>2. \A j \in Worker : done'[j] \subseteq done[j] \cup {x}
    BY <1>9 DEF ApplyUnblocked
  <2>3. QED
    BY <1>7, <2>1, <2>2
<1>10. ASSUME NEW k \in Worker, Bookkeep(done[k]), Leave(k), UNCHANGED <<tomb, rows>>
       PROVE  Reported' /\ AppliedImpliesDurable'
  BY <1>10 DEF Bookkeep, Leave
<1>11. ASSUME HandlerDone \/ \E k \in Task : FinishApply(k)
       PROVE  Reported' /\ AppliedImpliesDurable'
  BY <1>10, <1>11 DEF HandlerDone, FinishApply
<1>12. ASSUME NEW x \in Txn, FinalizeNoWrite(x) PROVE Reported' /\ AppliedImpliesDurable'
  BY SMT, <1>12 DEF FinalizeNoWrite, HandlerCascades
<1>13. CASE PruneApplied
  BY <1>13 DEF PruneApplied, inside, DurableInv
<1>14. CASE ReclaimSelect \/ ReclaimClear \/ ReclaimDrop
  BY <1>2, <1>14 DEF ReclaimSelect, ReclaimClear, ReclaimDrop, states, inside, DurableInv
<1>15. CASE UNCHANGED vars
  BY <1>2, <1>15 DEF vars, DurableInv
<1>16. QED
  BY <1>3, <1>4, <1>5, <1>6, <1>8, <1>9, <1>11, <1>12, <1>13, <1>14, <1>15 DEF Next, Inside, DurableInv

LEMMA DurableInit == Init => DurableInv
<1> SUFFICES ASSUME Init PROVE DurableInv
  OBVIOUS
<1> QED
  BY InitTyped DEF Init, DurableInv, AppliedImpliesDurable

\* An Apply ack is backed by durable rows: in every environment, a replica that
\* reports a write transaction applied (phase Applied, or an applied tombstone
\* after prune_applied) has made its rows durable, unless the coordinator
\* finalized the transaction as no-write.
THEOREM AppliedIsDurable == Spec => []AppliedImpliesDurable
<1>1. Init => DurableInv
  BY DurableInit
<1>2. DurableInv /\ [Next]_vars => DurableInv'
  BY DurableInductive
<1>3. DurableInv => AppliedImpliesDurable
  BY DEF DurableInv
<1>4. QED
  BY <1>1, <1>2, <1>3, PTL DEF Spec

\* Every step keeps ReportInv, when no Commit arrives after the transaction was
\* decided and forgotten.
LEMMA ReportInductive ==
  ASSUME "late" \notin Env, ReportInv, [Next]_vars
  PROVE  ReportInv'
<1> DEFINE Quiet == \A k \in Worker : pc[k] \notin {"cascade", "persisted"} => done[k] = {}
           WorkKnown == \A k \in Worker : \A x \in work[k].txn : Known(x)
           DataKnown == \A x \in Txn : parked[x] # 0 \/ rows[x] # {} => Known(x)
           TombEnds == \A x \in Txn : tomb[x] # "none" => phase[x] = "none"
           Rest == Quiet /\ WorkKnown /\ DataKnown /\ TombEnds /\ DurableIsReported
<1>1. TypeOK /\ TypeOK' /\ Rest
  BY TypeInductive DEF ReportInv
<1>2. Rest' => ReportInv'
  BY <1>1 DEF ReportInv
<1> DEFINE Open == {"PreAccepted", "Committed"}
           Kept == \A y \in Txn : Known(y) => Known(y)'
           Same == \A k \in Worker : \A y \in work'[k].txn : y \in work[k].txn \/ Known(y)
           Data == \A y \in Txn : parked'[y] # 0 \/ rows'[y] # {} => parked[y] # 0 \/ rows[y] # {} \/ Known(y)
           Kind(y) == rows[y] # {} /\ phase[y] \in Open /\ \A k \in Worker : y \in done[k] => y \in done'[k]
           Reports == \A y \in Txn : rows'[y] # {} /\ phase'[y] \in Open =>
                        Kind(y) \/ \E k \in Worker : y \in done'[k]
<1>3. ASSUME Kept, Same, Data, Reports, TombEnds', Quiet' PROVE Rest'
  <2>1. WorkKnown'
    <3> SUFFICES ASSUME NEW k \in Worker, NEW y \in work'[k].txn PROVE Known(y)'
      OBVIOUS
    <3>1. work'[k].txn \subseteq Txn
      BY <1>1 DEF TypeOK
    <3>2. QED
      BY <1>1, <1>3, <3>1
  <2>2. DataKnown'
    BY <1>1, <1>3
  <2>3. DurableIsReported'
    BY <1>1, <1>3 DEF DurableIsReported
  <2>4. QED
    BY <1>3, <2>1, <2>2, <2>3
<1> HIDE DEF Rest
<1>4. Quiet /\ WorkKnown /\ DataKnown /\ TombEnds
  BY <1>1 DEF Rest
<1> USE <1>1, <1>4, WorkerAssumption DEF TypeOK, Worker, Known
<1>5. ASSUME UNCHANGED <<work, rows, done>>, \A y \in Txn : parked'[y] # 0 => parked[y] # 0
      PROVE  /\ Same /\ Data
             /\ (\A y \in Txn : phase'[y] \in Open => phase[y] \in Open \/ rows[y] = {}) => Reports
  BY <1>5
<1>6. ASSUME NEW x \in Txn, PreAccept(x) \/ CommitFails(x) PROVE Rest'
  <2>1. /\ \A y \in Txn : tomb'[y] = tomb[y] /\ (y # x => phase'[y] = phase[y])
        /\ phase[x] = "none" /\ phase'[x] = "PreAccepted" /\ tomb[x] = "none"
    BY SMTT(30), <1>6 DEF PreAccept, CommitFails
  <2>2. UNCHANGED <<pc, done, work, rows, parked>>
    BY <1>6 DEF PreAccept, CommitFails, inside
  <2>3. Kept /\ TombEnds' /\ Quiet' /\ \A y \in Txn : phase'[y] \in Open => phase[y] \in Open \/ rows[y] = {}
    BY <2>1, <2>2
  <2>4. QED
    BY <1>3, <1>5, <2>2, <2>3
<1>7. ASSUME NEW x \in Txn, Commit(x) PROVE Rest'
  <2>1. /\ \A y \in Txn : tomb'[y] = tomb[y] /\ (y # x => phase'[y] = phase[y])
        /\ phase[x] \in {"none", "PreAccepted"} /\ phase'[x] = "Committed" /\ tomb[x] = "none"
    BY SMT, <1>7 DEF Commit
  <2>2. UNCHANGED <<done, work, rows, parked>>
    BY <1>7 DEF Commit, HandlerCascades
  <2>3. Quiet'
    BY <1>7 DEF Commit, HandlerCascades
  <2>4. Kept /\ TombEnds' /\ \A y \in Txn : phase'[y] \in Open => phase[y] \in Open \/ rows[y] = {}
    BY <2>1, <2>2
  <2>5. QED
    BY <1>3, <1>5, <2>2, <2>3, <2>4
\* Steps that touch neither a state nor a row and report nothing.
<1>8. ASSUME UNCHANGED <<phase, tomb, rows, done>>, Same, Data, Quiet' PROVE Rest'
  <2>1. Kept /\ TombEnds' /\ Reports
    BY <1>8
  <2>2. QED
    BY <1>3, <1>8, <2>1
<1>9. ASSUME NEW k \in Worker, NEW x \in Txn, Persistable(x), Started(k, x), pc[k] = "idle",
             UNCHANGED <<states, tomb, graph, parked, rows>>
      PROVE  Rest'
  <2>1. Same
    BY <1>9 DEF Started, Persistable
  <2>2. Quiet' /\ Data /\ UNCHANGED <<phase, done>>
    BY <1>9 DEF Started, states
  <2>3. QED
    BY <1>8, <1>9, <2>1, <2>2
<1>10. ASSUME NEW x \in Txn, LocalApply(x) \/ \E k \in Task : BeginApply(k, x) PROVE Rest'
  BY <1>9, <1>10 DEF LocalApply, BeginApply, StateLockFree
<1>11. ASSUME NEW k \in Worker, NEW next \in Pcs, Goto(k, next), UNCHANGED <<states, tomb, rows>>, Data,
              next = "persisted" \/ pc[k] \notin {"cascade", "persisted"}
       PROVE  Rest'
  <2>1. Same /\ Quiet' /\ UNCHANGED <<phase, done>>
    BY <1>11 DEF Goto, states
  <2>2. QED
    BY <1>8, <1>11, <2>1
<1>12. ASSUME NEW k \in Worker, RegisterWaits(k) \/ ParkFails(k) \/ PersistFails(k) \/ LeaveGate(k)
       PROVE  Rest'
  <2>1. Data /\ UNCHANGED <<states, tomb, rows>>
    BY <1>12 DEF RegisterWaits, ParkFails, PersistFails, LeaveGate
  <2>2. CASE RegisterWaits(k)
    BY <1>11, <2>1, <2>2 DEF RegisterWaits, Pcs
  <2>3. CASE ParkFails(k) \/ PersistFails(k) \/ LeaveGate(k)
    BY <1>11, <2>1, <2>3 DEF ParkFails, PersistFails, LeaveGate, Pcs
  <2>4. QED
    BY <1>12, <2>2, <2>3
<1>13. ASSUME NEW k \in Worker, Park(k) PROVE Rest'
  <2>1. Data
    BY <1>13 DEF Park
  <2>2. QED
    BY <1>11, <1>13, <2>1 DEF Park, Pcs
<1>14. ASSUME NEW k \in Worker, NEW x \in Txn, Known(x), NEW t \in Nat, Persisted(x, t),
              UNCHANGED <<states, tomb, work>>,
              \A y \in Txn : parked'[y] # 0 => parked[y] # 0,
              pc' = [pc EXCEPT ![k] = "cascade"],
              done' = [done EXCEPT ![k] = @ \cup {x}]
       PROVE  Rest'
  <2>1. \A y \in Txn \ {x} : rows'[y] = rows[y]
    BY <1>14 DEF Persisted
  <2>2. x \in done'[k] /\ \A j \in Worker : done[j] \subseteq done'[j]
    BY <1>14
  <2>3. Kept /\ Same /\ TombEnds' /\ Quiet'
    BY <1>14 DEF states
  <2>4. Data
    BY <1>14, <2>1
  <2>5. Reports
    BY <1>14, <2>1, <2>2 DEF states
  <2>6. QED
    BY <1>3, <2>3, <2>4, <2>5
<1>15. ASSUME NEW k \in Worker, Persist(k) PROVE Rest'
  <2>1. PICK x \in work[k].txn :
          /\ Persisted(x, work[k].t)
          /\ pc' = [pc EXCEPT ![k] = "cascade"]
          /\ done' = [done EXCEPT ![k] = {x}]
    BY <1>15 DEF Persist
  <2>2. x \in Txn /\ work[k].t \in Nat /\ Known(x) /\ done[k] = {}
    BY <1>15 DEF Persist
  <2>3. done' = [done EXCEPT ![k] = @ \cup {x}]
    BY <2>1, <2>2
  <2>4. UNCHANGED <<states, tomb, work, parked>>
    BY <1>15 DEF Persist
  <2>5. QED
    BY <1>14, <2>1, <2>2, <2>3, <2>4
<1>16. ASSUME NEW k \in Worker, NEW x \in Txn, ApplyUnblocked(k, x) PROVE Rest'
  <2>1. Persisted(x, parked[x]) /\ UNCHANGED <<states, tomb, work>> /\ Known(x)
    BY <1>16 DEF ApplyUnblocked
  <2>2. parked[x] \in Nat /\ \A y \in Txn : parked'[y] # 0 => parked[y] # 0
    BY <1>16 DEF ApplyUnblocked
  <2>3. pc' = [pc EXCEPT ![k] = "cascade"] /\ done' = [done EXCEPT ![k] = @ \cup {x}]
    BY SMT, <1>16 DEF ApplyUnblocked
  <2>4. QED
    BY <1>14, <2>1, <2>2, <2>3
<1>17. ASSUME NEW k \in Worker,
              \/ \E x \in Txn : MarkUnblocked(k, x) \/ UnblockedFails(k, x)
              \/ \E x, d \in Txn : Waive(k, x, d)
       PROVE  Rest'
  <2>1. /\ UNCHANGED <<phase, tomb, rows, done, pc, work>>
        /\ \A y \in Txn : parked'[y] # 0 => parked[y] # 0
    BY <1>17 DEF MarkUnblocked, UnblockedFails, Waive, states
  <2>2. QED
    BY <1>5, <1>8, <2>1
<1>18. ASSUME NEW k \in Worker, Bookkeep(done[k]), Leave(k), UNCHANGED <<tomb, rows, parked>>
       PROVE  Rest'
  <2>1. \A x \in Txn : /\ phase'[x] = "none" <=> phase[x] = "none"
                       /\ x \in done[k] => phase'[x] \in {"none", "Applied"}
                       /\ x \notin done[k] => phase'[x] = phase[x]
    BY <1>18 DEF Bookkeep
  <2>2. /\ done'[k] = {} /\ \A j \in Worker \ {k} : done'[j] = done[j] /\ pc'[j] = pc[j]
        /\ work'[k].txn = {} /\ \A j \in Worker \ {k} : work'[j] = work[j]
    BY <1>18 DEF Leave, NoWork
  <2>3. Kept /\ TombEnds' /\ Data
    BY <1>18, <2>1
  <2>4. Same /\ Quiet'
    BY <2>2
  <2>5. Reports
    BY <1>18, <2>1, <2>2
  <2>6. QED
    BY <1>3, <2>3, <2>4, <2>5
<1>19. ASSUME HandlerDone \/ \E k \in Task : FinishApply(k) PROVE Rest'
  BY <1>18, <1>19 DEF HandlerDone, FinishApply
<1>20. ASSUME NEW k \in Task, FinishParked(k) PROVE Rest'
  <2>1. work'[k].txn = {} /\ \A j \in Worker \ {k} : work'[j] = work[j]
    BY <1>20 DEF FinishParked, NoWork
  <2>2. UNCHANGED <<phase, tomb, rows, parked, done>>
    BY <1>20 DEF FinishParked, states
  <2>3. Quiet'
    BY <1>20 DEF FinishParked
  <2>4. Same /\ Data
    BY <2>1, <2>2
  <2>5. QED
    BY <1>8, <2>2, <2>3, <2>4
<1>21. ASSUME NEW x \in Txn, FinalizeNoWrite(x) PROVE Rest'
  <2>1. UNCHANGED <<rows, parked, work, done>>
    BY <1>21 DEF FinalizeNoWrite, HandlerCascades
  <2>2. /\ \A y \in Txn \ {x} : phase'[y] = phase[y] /\ tomb'[y] = tomb[y]
        /\ phase'[x] \in {"none", "Applied"} /\ (phase'[x] # "none" \/ tomb'[x] # "none")
        /\ tomb'[x] # "none" => phase'[x] = "none"
    BY SMTT(30), <1>21 DEF FinalizeNoWrite
  <2>3. Quiet'
    BY <1>21 DEF FinalizeNoWrite, HandlerCascades
  <2>4. Kept /\ TombEnds' /\ \A y \in Txn : phase'[y] \in Open => phase[y] \in Open \/ rows[y] = {}
    BY <2>1, <2>2
  <2>5. QED
    BY <1>3, <1>5, <2>1, <2>3, <2>4
<1>22. ASSUME PruneApplied PROVE Rest'
  <2>1. \A y \in Txn : \/ phase[y] = "Applied" /\ phase'[y] = "none" /\ tomb'[y] = "applied"
                       \/ phase'[y] = phase[y] /\ tomb'[y] = tomb[y]
    BY <1>22 DEF PruneApplied
  <2>2. UNCHANGED <<pc, done, work, rows, parked>>
    BY <1>22 DEF PruneApplied, inside
  <2>3. Kept /\ TombEnds' /\ Quiet' /\ \A y \in Txn : phase'[y] \in Open => phase[y] \in Open \/ rows[y] = {}
    BY <2>1, <2>2
  <2>4. QED
    BY <1>3, <1>5, <2>2, <2>3
<1>23. ASSUME ReclaimSelect \/ ReclaimClear \/ ReclaimDrop \/ UNCHANGED vars PROVE Rest'
  <2>1. UNCHANGED <<phase, tomb, pc, done, work, rows>>
    BY <1>23 DEF ReclaimSelect, ReclaimClear, ReclaimDrop, states, inside, vars
  <2>2. \A y \in Txn : parked'[y] # 0 => parked[y] # 0
    BY <1>23 DEF ReclaimSelect, ReclaimClear, ReclaimDrop, vars
  <2>3. QED
    BY <1>5, <1>8, <2>1, <2>2
<1>24. QED
  BY <1>2, <1>6, <1>7, <1>10, <1>12, <1>13, <1>15, <1>16, <1>17, <1>19, <1>20, <1>21, <1>22, <1>23
     DEF Next, Inside

LEMMA ReportInit == Init => ReportInv
<1> SUFFICES ASSUME Init PROVE ReportInv
  OBVIOUS
<1> QED
  BY InitTyped DEF Init, NoWork, ReportInv, DurableIsReported

\* The lock-free apply forgets nothing it made durable: a transaction with rows
\* is reported Applied, or the worker that wrote them still holds it in the list
\* finish_apply will report.  Only a Commit that arrives after prune_applied
\* forgot the transaction could break this.
THEOREM DurableReported ==
  ASSUME "late" \notin Env
  PROVE  Spec => []DurableIsReported
<1>1. Init => ReportInv
  BY ReportInit
<1>2. ReportInv /\ [Next]_vars => ReportInv'
  BY ReportInductive
<1>3. ReportInv => DurableIsReported
  BY DEF ReportInv
<1>4. QED
  BY <1>1, <1>2, <1>3, PTL DEF Spec

\* Every step keeps LaterInv, when no Commit arrives late and no Apply overtakes
\* the Commit.
LEMMA LaterInductive ==
  ASSUME "late" \notin Env, "overtake" \notin Env, ReportInv, DurableInv, LaterInv, [Next]_vars
  PROVE  LaterInv'
<1>1. TypeOK /\ TypeOK'
  BY TypeInductive DEF ReportInv
<1>2. \A y \in Txn : tomb[y] # "none" => phase[y] = "none"
  BY DEF ReportInv
<1>3. \A k \in Worker : \A y \in done[k] : Known(y)
  BY <1>1 DEF ReportInv, DurableInv, TypeOK
<1>4. Handler \in Worker /\ Handler \notin Task /\ Task \subseteq Worker
  BY WorkerAssumption DEF Worker
<1>Shrinks.
      ASSUME \A k \in Task : work'[k].txn \subseteq work[k].txn, \A y \in Txn : Ended(y) => Ended(y)'
      PROVE  Alone'
  <2>1. \A k \in Task : work[k].txn \subseteq Txn
    BY <1>1, <1>4 DEF TypeOK
  <2> QED
    BY <1>Shrinks, <2>1 DEF LaterInv, Alone
<1>5. ASSUME UNCHANGED <<phase, at, deps, tomb, work, applying>>,
             \A j \in Worker : pc'[j] = "begun" => pc[j] = "begun"
      PROVE  OneWork' /\ FreshDeps' /\ WorkGoing' /\ Reserved' /\ Alone'
  <2>1. OneWork' /\ FreshDeps'
    BY <1>4, <1>5 DEF LaterInv, OneWork, FreshDeps, OrderedDeps, ExecutesAfter
  <2>2. WorkGoing' /\ Reserved'
    BY <1>5 DEF LaterInv, WorkGoing, Reserved, Going, Ended
  <2>3. Alone'
    BY <1>5 DEF LaterInv, Alone, Ended
  <2> QED
    BY <2>1, <2>2, <2>3
<1>6. ASSUME UNCHANGED <<phase, at, tomb, work, applying, waives>>,
             pc[Handler] = "cascade" => pc'[Handler] = "cascade",
             \A y \in Txn : waitingOn'[y] \subseteq waitingOn[y],
             \A j \in Task : \A y \in work[j].txn :
                pc[j] \in {"park", "parked"} => pc'[j] \in {"park", "parked"} \/ waitingOn'[y] = {}
      PROVE  WaivesHeld' /\ WaitGoing' /\ Covered'
  <2>1. WaivesHeld'
    BY <1>6 DEF LaterInv, WaivesHeld
  <2>2. WaitGoing'
    BY <1>6 DEF LaterInv, WaitGoing, Going, Ended
  <2>3. Covered'
    <3> SUFFICES ASSUME NEW y \in Txn, NEW e \in Txn, Overtaken(y, e)'
                 PROVE  <<y, e>> \in waives'[Handler] \/ \E j \in Task : Parking(j, y)'
      BY DEF Covered
    <3>1. Overtaken(y, e) /\ waitingOn'[y] # {}
      BY <1>6 DEF Overtaken, ExecutesAfter
    <3>2. ASSUME NEW j \in Task, Parking(j, y) PROVE Parking(j, y)'
      BY <1>6, <3>1, <3>2 DEF Parking
    <3> QED
      BY <1>6, <3>1, <3>2 DEF LaterInv, Covered
  <2> QED
    BY <2>1, <2>2, <2>3
<1>7. ASSUME NEW x \in Txn, PreAccept(x) PROVE LaterInv'
  <2>1. WaivesHeld'
    BY <1>7 DEF LaterInv, WaivesHeld, PreAccept, inside
  <2>2. OneWork'
    BY SMT, <1>7 DEF LaterInv, OneWork, PreAccept, inside
  <2>3. FreshDeps'
    BY <1>7 DEF LaterInv, FreshDeps, OrderedDeps, ExecutesAfter, PreAccept, StateLockFree, inside
  <2>4. WorkGoing'
    BY SMT, <1>7 DEF LaterInv, WorkGoing, Going, Ended, PreAccept, inside
  <2>5. WaitGoing'
    BY SMT, <1>7 DEF LaterInv, WaitGoing, Going, Ended, PreAccept, graph, inside
  <2>6. Reserved'
    BY SMT, <1>7 DEF LaterInv, Reserved, Ended, PreAccept, inside
  <2>7. Alone'
    BY SMT, <1>7 DEF LaterInv, Alone, Ended, PreAccept, inside
  <2>8. Covered'
    BY SMT, <1>7 DEF LaterInv, Covered, Overtaken, ExecutesAfter, Parking, PreAccept, graph, inside
  <2> QED
    BY <2>1, <2>2, <2>3, <2>4, <2>5, <2>6, <2>7, <2>8 DEF LaterInv
<1>8. ASSUME NEW x \in Txn, Commit(x) PROVE LaterInv'
  <2>1. WaivesHeld'
    BY SMT, <1>1, <1>8 DEF TypeOK, LaterInv, WaivesHeld, Commit, HandlerCascades, graph
  <2>2. OneWork'
    BY SMT, <1>8 DEF LaterInv, OneWork, Commit, HandlerCascades, graph
  <2>3. FreshDeps'
    BY SMT, <1>8 DEF LaterInv, FreshDeps, OrderedDeps, ExecutesAfter, Commit, StateLockFree, HandlerCascades, graph
  <2>4. WorkGoing'
    BY SMT, <1>8 DEF LaterInv, WorkGoing, Going, Ended, Commit, HandlerCascades, graph
  <2>5. WaitGoing'
    BY SMT, <1>8 DEF LaterInv, WaitGoing, Going, Ended, Commit, HandlerCascades, graph
  <2>6. Reserved'
    BY SMT, <1>8 DEF LaterInv, Reserved, Ended, Commit, HandlerCascades, graph
  <2>7. Alone'
    BY SMT, <1>8 DEF LaterInv, Alone, Ended, Commit, HandlerCascades, graph
  <2>8. Covered'
    <3> SUFFICES ASSUME NEW y \in Txn, NEW e \in Txn, Overtaken(y, e)'
                 PROVE  <<y, e>> \in waives'[Handler] \/ \E j \in Task : Parking(j, y)'
      BY DEF Covered
    <3>1. waitingOn'[y] # {} /\ waitingOn' = waitingOn /\ ~Ended(x) /\ phase[x] # "Committed"
      BY <1>8 DEF Overtaken, Commit, graph, Ended
    <3>2. y # x
      BY <3>1 DEF LaterInv, WaitGoing, Going
    <3>3. CASE e = x
      BY SMT, <1>1, <1>8, <3>1, <3>2, <3>3 DEF TypeOK, Overtaken, ExecutesAfter, Commit, HandlerCascades
    <3>4. CASE e # x
      <4>1. Overtaken(y, e) /\ <<y, e>> \notin waives[Handler]
        BY SMT, <1>8, <3>1, <3>2, <3>4 DEF Overtaken, ExecutesAfter, Commit, StateLockFree, LaterInv, WaivesHeld
      <4>2. PICK j \in Task : Parking(j, y)
        BY <4>1 DEF LaterInv, Covered
      <4> QED
        BY SMT, <1>4, <1>8, <4>2 DEF Parking, Commit, HandlerCascades
    <3> QED
      BY <3>3, <3>4
  <2> QED
    BY <2>1, <2>2, <2>3, <2>4, <2>5, <2>6, <2>7, <2>8 DEF LaterInv
<1>9. ASSUME NEW k \in Task, NEW x \in Txn, BeginApply(k, x) PROVE LaterInv'
  <2>1. WaivesHeld'
    BY <1>9 DEF LaterInv, WaivesHeld, BeginApply, StateLockFree, Persistable, Started, graph
  <2>2. OneWork'
    BY <1>1, <1>9 DEF TypeOK, LaterInv, OneWork, BeginApply, Persistable, Started, graph
  <2>3. FreshDeps'
    <3>1. pc'[Handler] = "idle"
      BY <1>1, <1>4, <1>9 DEF TypeOK, BeginApply, Started, StateLockFree
    <3> QED
      BY SMT, <3>1 DEF FreshDeps
  <2>4. WorkGoing'
    BY <1>1, <1>9 DEF TypeOK, LaterInv, WorkGoing, Going, Ended, BeginApply, Persistable, Started, states, graph
  <2>5. WaitGoing'
    BY <1>9 DEF LaterInv, WaitGoing, Going, Ended, BeginApply, Persistable, Started, states, graph
  <2>6. Reserved'
    BY <1>1, <1>4, <1>9 DEF TypeOK, LaterInv, Reserved, Ended, BeginApply, Persistable, Started, states, graph
  <2>7. Alone'
    <3>1. ~Ended(x) /\ x \notin applying
      BY <1>2, <1>9 DEF BeginApply, Persistable, Ended
    <3>2. \A j \in Task : x \notin work[j].txn
      BY <3>1 DEF LaterInv, Reserved
    <3>3. \A j \in Task : work'[j].txn \subseteq work[j].txn \/ (j = k /\ work'[j].txn = {x})
      BY <1>1, <1>4, <1>9 DEF TypeOK, BeginApply, Started
    <3>4. UNCHANGED <<phase, tomb>>
      BY <1>9 DEF BeginApply, states
    <3> QED
      BY SMTT(30), <3>2, <3>3, <3>4 DEF LaterInv, Alone, Ended
  <2>8. Covered'
    <3> SUFFICES ASSUME NEW y \in Txn, NEW e \in Txn, Overtaken(y, e)'
                 PROVE  <<y, e>> \in waives'[Handler] \/ \E j \in Task : Parking(j, y)'
      BY DEF Covered
    <3>1. Overtaken(y, e) /\ <<y, e>> \notin waives[Handler]
      BY <1>9 DEF BeginApply, states, graph, Overtaken, ExecutesAfter, StateLockFree, LaterInv, WaivesHeld
    <3>2. PICK j \in Task : Parking(j, y)
      BY <3>1 DEF LaterInv, Covered
    <3>3. j # k
      BY <1>9, <3>2 DEF BeginApply, Parking
    <3> QED
      BY <1>1, <1>4, <1>9, <3>2, <3>3 DEF TypeOK, BeginApply, Started, Parking
  <2> QED
    BY <2>1, <2>2, <2>3, <2>4, <2>5, <2>6, <2>7, <2>8 DEF LaterInv
<1>10. ASSUME NEW x \in Txn, LocalApply(x) PROVE LaterInv'
  <2>1. WaivesHeld'
    BY <1>10 DEF LaterInv, WaivesHeld, LocalApply, StateLockFree, Persistable, Started, graph
  <2>2. OneWork'
    BY <1>1, <1>10 DEF TypeOK, LaterInv, OneWork, LocalApply, Persistable, Started, graph
  <2>3. FreshDeps'
    BY SMT, <1>1, <1>10 DEF TypeOK, LaterInv, FreshDeps, OrderedDeps, ExecutesAfter, LocalApply, Persistable, Started, states, graph
  <2>4. WorkGoing'
    BY <1>1, <1>10 DEF TypeOK, LaterInv, WorkGoing, Going, Ended, LocalApply, Persistable, Started, states, graph
  <2>5. WaitGoing'
    BY <1>10 DEF LaterInv, WaitGoing, Going, Ended, LocalApply, Persistable, Started, states, graph
  <2>6. Reserved'
    BY <1>1, <1>4, <1>10 DEF TypeOK, LaterInv, Reserved, Ended, LocalApply, Persistable, Started, states, graph
  <2>7. Alone'
    <3>1. \A k \in Task : work'[k] = work[k]
      BY <1>1, <1>4, <1>10 DEF TypeOK, LocalApply, Started
    <3>2. UNCHANGED <<phase, tomb>>
      BY <1>10 DEF LocalApply, states
    <3> QED
      BY <1>Shrinks, <3>1, <3>2 DEF Ended
  <2>8. Covered'
    <3>1. UNCHANGED <<phase, at, waitingOn, waives, applying>>
      BY <1>10 DEF LocalApply, Started, states, graph
    <3>2. \A j \in Task : pc'[j] = pc[j] /\ work'[j] = work[j]
      BY <1>1, <1>4, <1>10 DEF TypeOK, LocalApply, Started
    <3> QED
      BY <3>1, <3>2 DEF LaterInv, Covered, Overtaken, ExecutesAfter, Parking
  <2> QED
    BY <2>1, <2>2, <2>3, <2>4, <2>5, <2>6, <2>7, <2>8 DEF LaterInv
<1>11. ASSUME NEW k \in Worker, RegisterWaits(k) PROVE LaterInv'
  <2>1. WaivesHeld'
    <3>1. waives' = waives /\ pc[k] = "begun" /\ \A j \in Worker : j # k => pc'[j] = pc[j]
      <4>1. pc[k] = "begun" /\ \E next : Goto(k, next)
        BY <1>11 DEF RegisterWaits
      <4> QED
        BY <1>1, <4>1 DEF TypeOK, Goto
    <3> QED
      BY <1>4, <3>1 DEF LaterInv, WaivesHeld
  <2>2. OneWork'
    BY SMT, <1>11 DEF LaterInv, OneWork, RegisterWaits, Goto, Cleared, states
  <2>3. FreshDeps'
    BY SMT, <1>11 DEF LaterInv, FreshDeps, OrderedDeps, ExecutesAfter, RegisterWaits, Goto, Cleared, states
  <2>4. WorkGoing'
    BY <1>11 DEF LaterInv, WorkGoing, Going, Ended, RegisterWaits, Goto, Cleared, states
  <2>5. WaitGoing'
    <3> DEFINE X == CHOOSE z \in Txn : work[k].txn = {z}
    <3>1. X \in Txn /\ work[k].txn = {X}
      BY <1>11 DEF RegisterWaits, LaterInv, OneWork
    <3> HIDE DEF X
    <3>2. \A y \in Txn : y # X => waitingOn'[y] = waitingOn[y]
      BY SMT, <1>11 DEF RegisterWaits, Cleared, X
    <3>3. UNCHANGED <<phase, tomb>>
      BY <1>11 DEF RegisterWaits, states
    <3>4. Going(X)
      BY <3>1 DEF LaterInv, WorkGoing
    <3> QED
      BY <3>2, <3>3, <3>4 DEF LaterInv, WaitGoing, Going, Ended
  <2>6. Reserved'
    BY <1>11 DEF LaterInv, Reserved, Ended, RegisterWaits, Goto, Cleared, states
  <2>7. Alone'
    <3>1. UNCHANGED <<work, phase, tomb>>
      BY <1>11 DEF RegisterWaits, Goto, states
    <3> QED
      BY <3>1, <1>Shrinks DEF Ended
  <2>8. Covered'
    <3> SUFFICES ASSUME NEW y \in Txn, NEW e \in Txn, Overtaken(y, e)'
                 PROVE  <<y, e>> \in waives'[Handler] \/ \E j \in Task : Parking(j, y)'
      BY DEF Covered
    <3> DEFINE X == CHOOSE z \in Txn : work[k].txn = {z}
    <3>1. X \in Txn /\ work[k].txn = {X}
      BY <1>11 DEF RegisterWaits, LaterInv, OneWork
    <3> HIDE DEF X
    <3>2. UNCHANGED <<phase, at, tomb, waives, work, applying>> /\ pc' \in [Worker -> Pcs]
      BY <1>1, <1>11 DEF TypeOK, RegisterWaits, states, Goto
    <3>3. \A j \in Worker : j # k => pc'[j] = pc[j]
      BY SMT, <1>11 DEF RegisterWaits, Goto
    <3>4. CASE e \in waitingOn[y]
      <4>1. Overtaken(y, e)
        BY <3>2, <3>4 DEF Overtaken, ExecutesAfter
      <4>2. ASSUME NEW j \in Task, Parking(j, y) PROVE Parking(j, y)'
        <5>1. j # k
          BY <1>11, <4>2 DEF RegisterWaits, Parking
        <5> QED
          BY <1>4, <3>2, <3>3, <4>2, <5>1 DEF Parking
      <4> QED
        BY <3>2, <4>1, <4>2 DEF LaterInv, Covered
    <3>5. CASE e \notin waitingOn[y]
      <4>1. y = X /\ e \in work[k].deps /\ pc'[k] = "park"
        <5> DEFINE unmet == work[k].deps \ applied
                   cycle == \E d \in unmet : Reaches(d, X)
        <5>1. /\ pc' = [pc EXCEPT ![k] = IF unmet = {} THEN "persist" ELSE IF cycle THEN "failed" ELSE "park"]
              /\ waitingOn' = IF cycle THEN Cleared({X}) ELSE [waitingOn EXCEPT ![X] = @ \cup unmet]
          BY <1>11 DEF RegisterWaits, Goto, X
        <5>2. e \in waitingOn'[y] \ waitingOn[y]
          BY <3>5 DEF Overtaken
        <5> HIDE DEF cycle, unmet
        <5>3. ~cycle
          BY <5>1, <5>2 DEF Cleared
        <5>4. y = X /\ e \in unmet
          BY SMT, <3>1, <5>1, <5>2, <5>3 DEF TypeOK
        <5>5. pc'[k] = "park"
          BY SMT, <1>1, <5>1, <5>3, <5>4 DEF TypeOK
        <5> QED
          BY <5>4, <5>5 DEF unmet
      <4>2. phase[y] = "Committed" /\ ExecutesAfter(e, at[y])
        BY <3>2 DEF Overtaken, ExecutesAfter
      <4>3. k # Handler
        BY <1>11, <3>1, <4>1, <4>2 DEF RegisterWaits, LaterInv, FreshDeps, OrderedDeps
      <4>4. k \in Task /\ y \in applying
        BY <1>2, <3>1, <4>1, <4>2, <4>3 DEF Worker, LaterInv, Reserved, Ended
      <4> QED
        BY <3>1, <3>2, <4>1, <4>4 DEF Parking
    <3> QED
      BY <3>4, <3>5
  <2> QED
    BY <2>1, <2>2, <2>3, <2>4, <2>5, <2>6, <2>7, <2>8 DEF LaterInv
<1>12. ASSUME NEW k \in Worker, Park(k) PROVE LaterInv'
  <2>1. UNCHANGED <<phase, at, deps, tomb, work, applying, waives>>
    BY <1>12 DEF Park, Goto, states, graph
  <2>2. /\ \A j \in Worker : pc'[j] = "begun" => pc[j] = "begun"
        /\ pc[Handler] = "cascade" => pc'[Handler] = "cascade"
    BY <1>1, <1>4, <1>12 DEF TypeOK, Park, Goto, graph
  <2>3. \A y \in Txn : waitingOn'[y] \subseteq waitingOn[y]
    BY <1>12 DEF Park, Goto, graph
  <2>4. \A j \in Task : \A y \in work[j].txn :
          pc[j] \in {"park", "parked"} => pc'[j] \in {"park", "parked"} \/ waitingOn'[y] = {}
    BY <1>1, <1>4, <1>12 DEF TypeOK, Park, Goto, graph
  <2> QED
    BY <1>5, <1>6, <2>1, <2>2, <2>3, <2>4 DEF LaterInv
<1>13. ASSUME NEW k \in Worker, ParkFails(k) PROVE LaterInv'
  <2>1. UNCHANGED <<phase, at, deps, tomb, work, applying, waives>>
    BY <1>13 DEF ParkFails, Goto, Cleared, states
  <2>2. /\ \A j \in Worker : pc'[j] = "begun" => pc[j] = "begun"
        /\ pc[Handler] = "cascade" => pc'[Handler] = "cascade"
    BY <1>1, <1>4, <1>13 DEF TypeOK, ParkFails, Goto, Cleared, states
  <2>3. \A y \in Txn : waitingOn'[y] \subseteq waitingOn[y]
    BY <1>13 DEF ParkFails, Goto, Cleared, states
  <2>4. \A j \in Task : \A y \in work[j].txn :
          pc[j] \in {"park", "parked"} => pc'[j] \in {"park", "parked"} \/ waitingOn'[y] = {}
    BY <1>1, <1>4, <1>13 DEF TypeOK, ParkFails, Goto, Cleared, states
  <2> QED
    BY <1>5, <1>6, <2>1, <2>2, <2>3, <2>4 DEF LaterInv
<1>14. ASSUME NEW k \in Worker, Persist(k) PROVE LaterInv'
  <2>1. UNCHANGED <<phase, at, deps, tomb, work, applying, waives>>
    BY <1>14 DEF Persist, Persisted, Unwaited, states
  <2>2. /\ \A j \in Worker : pc'[j] = "begun" => pc[j] = "begun"
        /\ pc[Handler] = "cascade" => pc'[Handler] = "cascade"
    BY SMT, <1>14 DEF Persist, Persisted, Unwaited, states
  <2>3. \A y \in Txn : waitingOn'[y] \subseteq waitingOn[y]
    BY SMT, <1>14 DEF Persist, Persisted, Unwaited, states
  <2>4. \A j \in Task : \A y \in work[j].txn :
          pc[j] \in {"park", "parked"} => pc'[j] \in {"park", "parked"} \/ waitingOn'[y] = {}
    BY <1>1, <1>4, <1>14 DEF TypeOK, Persist, Persisted, Unwaited, states
  <2> QED
    BY <1>5, <1>6, <2>1, <2>2, <2>3, <2>4 DEF LaterInv
<1>15. ASSUME NEW k \in Worker, PersistFails(k) PROVE LaterInv'
  <2>1. UNCHANGED <<phase, at, deps, tomb, work, applying, waives>>
    BY <1>15 DEF PersistFails, Goto, states, graph
  <2>2. /\ \A j \in Worker : pc'[j] = "begun" => pc[j] = "begun"
        /\ pc[Handler] = "cascade" => pc'[Handler] = "cascade"
    BY <1>1, <1>4, <1>15 DEF TypeOK, PersistFails, Goto, graph
  <2>3. \A y \in Txn : waitingOn'[y] \subseteq waitingOn[y]
    BY <1>15 DEF PersistFails, Goto, graph
  <2>4. \A j \in Task : \A y \in work[j].txn :
          pc[j] \in {"park", "parked"} => pc'[j] \in {"park", "parked"} \/ waitingOn'[y] = {}
    BY <1>1, <1>4, <1>15 DEF TypeOK, PersistFails, Goto, graph
  <2> QED
    BY <1>5, <1>6, <2>1, <2>2, <2>3, <2>4 DEF LaterInv
<1>16. ASSUME NEW k \in Worker, NEW x \in Txn, ApplyUnblocked(k, x) PROVE LaterInv'
  <2>1. UNCHANGED <<phase, at, deps, tomb, work, applying, waives>>
    BY <1>16 DEF ApplyUnblocked, Persisted, Unwaited, states
  <2>2. /\ \A j \in Worker : pc'[j] = "begun" => pc[j] = "begun"
        /\ pc[Handler] = "cascade" => pc'[Handler] = "cascade"
    BY <1>16 DEF ApplyUnblocked, Persisted, Unwaited, states
  <2>3. \A y \in Txn : waitingOn'[y] \subseteq waitingOn[y]
    BY <1>16 DEF ApplyUnblocked, Persisted, Unwaited, states
  <2>4. \A j \in Task : \A y \in work[j].txn :
          pc[j] \in {"park", "parked"} => pc'[j] \in {"park", "parked"} \/ waitingOn'[y] = {}
    BY <1>16 DEF ApplyUnblocked, Persisted, Unwaited, states
  <2> QED
    BY <1>5, <1>6, <2>1, <2>2, <2>3, <2>4 DEF LaterInv
<1>17. ASSUME NEW k \in Worker, NEW x \in Txn, MarkUnblocked(k, x) PROVE LaterInv'
  <2>1. UNCHANGED <<phase, at, deps, tomb, work, applying, waives>>
    BY <1>17 DEF MarkUnblocked, Unwaited, states
  <2>2. /\ \A j \in Worker : pc'[j] = "begun" => pc[j] = "begun"
        /\ pc[Handler] = "cascade" => pc'[Handler] = "cascade"
    BY <1>17 DEF MarkUnblocked, Unwaited, states
  <2>3. \A y \in Txn : waitingOn'[y] \subseteq waitingOn[y]
    BY <1>17 DEF MarkUnblocked, Unwaited, states
  <2>4. \A j \in Task : \A y \in work[j].txn :
          pc[j] \in {"park", "parked"} => pc'[j] \in {"park", "parked"} \/ waitingOn'[y] = {}
    BY <1>17 DEF MarkUnblocked, Unwaited, states
  <2> QED
    BY <1>5, <1>6, <2>1, <2>2, <2>3, <2>4 DEF LaterInv
<1>18. ASSUME NEW k \in Worker, NEW x \in Txn, UnblockedFails(k, x) PROVE LaterInv'
  <2>1. UNCHANGED <<phase, at, deps, tomb, work, applying, waives>>
    BY <1>18 DEF UnblockedFails, states, graph
  <2>2. /\ \A j \in Worker : pc'[j] = "begun" => pc[j] = "begun"
        /\ pc[Handler] = "cascade" => pc'[Handler] = "cascade"
    BY <1>18 DEF UnblockedFails, graph
  <2>3. \A y \in Txn : waitingOn'[y] \subseteq waitingOn[y]
    BY <1>18 DEF UnblockedFails, graph
  <2>4. \A j \in Task : \A y \in work[j].txn :
          pc[j] \in {"park", "parked"} => pc'[j] \in {"park", "parked"} \/ waitingOn'[y] = {}
    BY <1>18 DEF UnblockedFails, graph
  <2> QED
    BY <1>5, <1>6, <2>1, <2>2, <2>3, <2>4 DEF LaterInv
<1>19. ASSUME NEW k \in Worker, NEW x \in Txn, NEW d \in Txn, Waive(k, x, d) PROVE LaterInv'
  <2>1. WaivesHeld'
    BY SMT, <1>19 DEF LaterInv, WaivesHeld, Waive, states
  <2>2. OneWork'
    BY SMT, <1>19 DEF LaterInv, OneWork, Waive, states
  <2>3. FreshDeps'
    BY SMT, <1>19 DEF LaterInv, FreshDeps, OrderedDeps, ExecutesAfter, Waive, states
  <2>4. WorkGoing'
    BY <1>3, <1>19 DEF LaterInv, WorkGoing, Going, Ended, Waive, states
  <2>5. WaitGoing'
    BY SMT, <1>19 DEF LaterInv, WaitGoing, Going, Ended, Waive, states
  <2>6. Reserved'
    BY SMT, <1>19 DEF LaterInv, Reserved, Ended, Waive, states
  <2>7. Alone'
    BY SMT, <1>19 DEF LaterInv, Alone, Ended, Waive, states
  <2>8. Covered'
    <3> SUFFICES ASSUME NEW y \in Txn, NEW e \in Txn, Overtaken(y, e)'
                 PROVE  <<y, e>> \in waives'[Handler] \/ \E j \in Task : Parking(j, y)'
      BY DEF Covered
    <3>1. UNCHANGED <<phase, at, pc, work, applying>>
      BY <1>19 DEF Waive, states
    <3>2. waitingOn'[y] \subseteq waitingOn[y] /\ (y = x => d \notin waitingOn'[y])
      <4>1. waitingOn \in [Txn -> SUBSET Txn] /\ waitingOn' = [waitingOn EXCEPT ![x] = @ \ {d}]
        BY <1>1, <1>19 DEF TypeOK, Waive
      <4> QED
        BY SMT, <4>1
    <3>3. Overtaken(y, e) /\ <<y, e>> # <<x, d>>
      BY <3>1, <3>2 DEF Overtaken, ExecutesAfter
    <3>4. waives[Handler] \ {<<x, d>>} \subseteq waives'[Handler]
      <4>1. waives \in [Worker -> SUBSET (Txn \X Txn)] /\ waives' = [waives EXCEPT ![k] = @ \ {<<x, d>>}]
        BY <1>1, <1>19 DEF TypeOK, Waive
      <4> QED
        BY SMT, <1>4, <4>1
    <3> QED
      BY <3>1, <3>3, <3>4 DEF LaterInv, Covered, Parking
  <2> QED
    BY <2>1, <2>2, <2>3, <2>4, <2>5, <2>6, <2>7, <2>8 DEF LaterInv
<1>20. ASSUME NEW k \in Task, LeaveGate(k) PROVE LaterInv'
  <2>1. UNCHANGED <<phase, at, deps, tomb, work, applying, waives>>
    BY <1>20 DEF LeaveGate, CascadeOver, Goto, states, graph
  <2>2. /\ \A j \in Worker : pc'[j] = "begun" => pc[j] = "begun"
        /\ pc[Handler] = "cascade" => pc'[Handler] = "cascade"
    BY <1>1, <1>4, <1>20 DEF TypeOK, LeaveGate, CascadeOver, Goto, graph
  <2>3. \A y \in Txn : waitingOn'[y] \subseteq waitingOn[y]
    BY <1>20 DEF LeaveGate, CascadeOver, Goto, graph
  <2>4. \A j \in Task : \A y \in work[j].txn :
          pc[j] \in {"park", "parked"} => pc'[j] \in {"park", "parked"} \/ waitingOn'[y] = {}
    BY <1>1, <1>4, <1>20 DEF TypeOK, LeaveGate, CascadeOver, Goto, graph
  <2> QED
    BY <1>5, <1>6, <2>1, <2>2, <2>3, <2>4 DEF LaterInv
<1>21. ASSUME NEW k \in Task, FinishApply(k) PROVE LaterInv'
  <2>1. WaivesHeld'
    BY <1>21 DEF LaterInv, WaivesHeld, FinishApply, StateLockFree, Bookkeep, Leave, graph
  <2>2. OneWork'
    BY <1>1, <1>21 DEF TypeOK, LaterInv, OneWork, FinishApply, Bookkeep, Leave, graph
  <2>3. FreshDeps'
    BY <1>1, <1>4, <1>21 DEF TypeOK, LaterInv, FreshDeps, OrderedDeps, ExecutesAfter, FinishApply, StateLockFree, Bookkeep, Leave, graph
  <2>4. WorkGoing'
    <3>1. \A j \in Worker : work'[j].txn \subseteq work[j].txn
      BY SMT, <1>1, <1>21 DEF TypeOK, FinishApply, Leave, NoWork
    <3>2. \A y \in Txn : Going(y) => Going(y)'
      BY <1>1, <1>21 DEF TypeOK, FinishApply, Bookkeep, Going, Ended
    <3>3. \A j \in Worker : work[j].txn \subseteq Txn
      BY <1>1 DEF TypeOK
    <3> QED
      BY <3>1, <3>2, <3>3 DEF LaterInv, WorkGoing
  <2>5. WaitGoing'
    BY <1>21 DEF LaterInv, WaitGoing, Going, Ended, FinishApply, Bookkeep, Leave, graph
  <2>6. Reserved'
    <3>1. \A z \in Txn : z \in done[k] => Ended(z)'
      BY <1>3, <1>4, <1>21 DEF FinishApply, Bookkeep, Known, Ended
    <3>2. \A z \in Txn : Ended(z) => Ended(z)'
      BY <1>21 DEF FinishApply, Bookkeep, Ended
    <3>3. work'[k].txn = {} /\ \A j \in Worker : j # k => work'[j] = work[j] /\ pc'[j] = pc[j]
      BY <1>1, <1>4, <1>21 DEF TypeOK, FinishApply, Leave, NoWork
    <3>4. applying' = applying \ (work[k].txn \cup done[k])
      BY <1>21 DEF FinishApply
    <3> SUFFICES ASSUME NEW j \in Task, NEW y \in work'[j].txn PROVE y \in applying' \/ Ended(y)'
      BY DEF Reserved
    <3>5. j # k /\ y \in work[j].txn /\ y \in Txn
      BY <1>1, <1>4, <3>3 DEF TypeOK
    <3>6. y \in work[k].txn => Ended(y)
      BY <3>5 DEF LaterInv, Alone
    <3>7. y \in applying \/ Ended(y)
      BY <3>5 DEF LaterInv, Reserved
    <3> QED
      BY <3>1, <3>2, <3>4, <3>5, <3>6, <3>7
  <2>7. Alone'
    <3>1. NoWork.txn = {}
      BY DEF NoWork
    <3>2. work' = [work EXCEPT ![k] = NoWork] /\ tomb' = tomb
      BY <1>21 DEF FinishApply, Leave
    <3>3. \A j \in Task : work'[j].txn \subseteq work[j].txn
      BY <1>1, <1>4, <3>1, <3>2 DEF TypeOK
    <3>4. \A y \in Txn : phase[y] = "Applied" => phase'[y] = "Applied"
      BY <1>21 DEF FinishApply, Bookkeep
    <3> QED
      BY <1>Shrinks, <3>2, <3>3, <3>4 DEF Ended
  <2>8. Covered'
    <3> SUFFICES ASSUME NEW y \in Txn, NEW e \in Txn, Overtaken(y, e)'
                 PROVE  <<y, e>> \in waives'[Handler] \/ \E j \in Task : Parking(j, y)'
      BY DEF Covered
    <3>1. \A z \in Txn : z \in done[k] => Ended(z)'
      BY <1>3, <1>4, <1>21 DEF FinishApply, Bookkeep, Known, Ended
    <3>2. \A z \in Txn : Ended(z) => Ended(z)'
      BY <1>21 DEF FinishApply, Bookkeep, Ended
    <3>3. work'[k].txn = {} /\ \A j \in Worker : j # k => work'[j] = work[j] /\ pc'[j] = pc[j]
      BY <1>1, <1>4, <1>21 DEF TypeOK, FinishApply, Leave, NoWork
    <3>4. applying' = applying \ (work[k].txn \cup done[k])
      BY <1>21 DEF FinishApply
    <3>5. Overtaken(y, e) /\ ~Ended(y)' /\ <<y, e>> \notin waives[Handler]
      <4>1. phase[y] = "Committed" /\ phase[e] = "Committed" /\ UNCHANGED <<at, waitingOn, tomb>> /\ phase'[y] = "Committed"
        BY <1>21 DEF FinishApply, Bookkeep, graph, Overtaken, ExecutesAfter
      <4> QED
        BY <1>2, <1>21, <4>1 DEF Overtaken, ExecutesAfter, Ended, FinishApply, StateLockFree, LaterInv, WaivesHeld
    <3>6. PICK j \in Task : Parking(j, y)
      BY <3>5 DEF LaterInv, Covered
    <3>7. j # k
      BY <1>21, <3>6 DEF Parking, FinishApply
    <3>8. y \notin work[k].txn /\ y \notin done[k]
      BY <3>1, <3>2, <3>5, <3>6, <3>7 DEF LaterInv, Alone, Parking
    <3> QED
      BY <1>4, <3>3, <3>4, <3>6, <3>7, <3>8 DEF Parking
  <2> QED
    BY <2>1, <2>2, <2>3, <2>4, <2>5, <2>6, <2>7, <2>8 DEF LaterInv
<1>22. ASSUME NEW k \in Task, FinishParked(k) PROVE LaterInv'
  <2>1. WaivesHeld'
    BY <1>1, <1>4, <1>22 DEF TypeOK, LaterInv, WaivesHeld, FinishParked, LaterWaits, graph
  <2>2. OneWork'
    BY <1>1, <1>22 DEF TypeOK, LaterInv, OneWork, FinishParked, LaterWaits, graph
  <2>3. FreshDeps'
    BY <1>1, <1>4, <1>22 DEF TypeOK, LaterInv, FreshDeps, OrderedDeps, ExecutesAfter, FinishParked, LaterWaits, graph
  <2>4. WorkGoing'
    <3>1. \A y : y \notin NoWork.txn
      BY DEF NoWork
    <3>2. \A j \in Worker : work'[j] = IF j = k THEN NoWork ELSE work[j]
      BY <1>1, <1>4, <1>22 DEF TypeOK, FinishParked
    <3>3. phase' = phase /\ tomb' = tomb
      BY <1>22 DEF FinishParked, states
    <3>4. \A y : Going(y) => Going(y)'
      BY <3>3 DEF Going, Ended
    <3> QED
      BY <3>1, <3>2, <3>4 DEF LaterInv, WorkGoing
  <2>5. WaitGoing'
    BY <1>22 DEF LaterInv, WaitGoing, Going, Ended, FinishParked, LaterWaits, states, graph
  <2>6. Reserved'
    <3>1. work'[k].txn = {} /\ \A j \in Task : j # k => work'[j] = work[j] /\ pc'[j] = pc[j]
      BY <1>1, <1>4, <1>22 DEF TypeOK, FinishParked, NoWork
    <3>2. applying' = applying \ work[k].txn /\ UNCHANGED <<phase, at, tomb, waitingOn>>
      BY <1>22 DEF FinishParked, states, graph
    <3> SUFFICES ASSUME NEW j \in Task, NEW y \in work'[j].txn PROVE y \in applying' \/ Ended(y)'
      BY DEF Reserved
    <3>3. j # k /\ y \in work[j].txn
      BY <3>1
    <3>4. y \in work[k].txn => Ended(y)
      BY <3>3 DEF LaterInv, Alone
    <3>5. y \in applying \/ Ended(y)
      BY <3>3 DEF LaterInv, Reserved
    <3> QED
      BY <3>2, <3>4, <3>5 DEF Ended
  <2>7. Alone'
    <3>1. NoWork.txn = {}
      BY DEF NoWork
    <3>2. work' = [work EXCEPT ![k] = NoWork] /\ UNCHANGED <<phase, tomb>>
      BY <1>22 DEF FinishParked, states
    <3>3. \A j \in Task : work'[j].txn \subseteq work[j].txn
      BY <1>1, <1>4, <3>1, <3>2 DEF TypeOK
    <3> QED
      BY <1>Shrinks, <3>2, <3>3 DEF Ended
  <2>8. Covered'
    <3> SUFFICES ASSUME NEW y \in Txn, NEW e \in Txn, Overtaken(y, e)'
                 PROVE  <<y, e>> \in waives'[Handler] \/ \E j \in Task : Parking(j, y)'
      BY DEF Covered
    <3>1. work'[k].txn = {} /\ \A j \in Task : j # k => work'[j] = work[j] /\ pc'[j] = pc[j]
      BY <1>1, <1>4, <1>22 DEF TypeOK, FinishParked, NoWork
    <3>2. applying' = applying \ work[k].txn /\ UNCHANGED <<phase, at, tomb, waitingOn>>
      BY <1>22 DEF FinishParked, states, graph
    <3>3. Overtaken(y, e) /\ <<y, e>> \notin waives[Handler] /\ ~Ended(y)
      BY <1>2, <1>22, <3>2 DEF Overtaken, ExecutesAfter, Ended, FinishParked, StateLockFree, LaterInv, WaivesHeld
    <3>4. CASE y \in work[k].txn
      <4>1. <<y, e>> \in LaterWaits(y)
        BY <3>3 DEF LaterWaits, Overtaken
      <4>2. waives'[Handler] = UNION {LaterWaits(z) : z \in work[k].txn}
        BY <1>1, <1>4, <1>22 DEF TypeOK, FinishParked
      <4> QED
        BY <3>4, <4>1, <4>2
    <3>5. CASE y \notin work[k].txn
      <4>1. PICK j \in Task : Parking(j, y)
        BY <3>3 DEF LaterInv, Covered
      <4> QED
        BY <3>1, <3>2, <3>5, <4>1 DEF Parking
    <3> QED
      BY <3>4, <3>5
  <2> QED
    BY <2>1, <2>2, <2>3, <2>4, <2>5, <2>6, <2>7, <2>8 DEF LaterInv
<1>23. CASE HandlerDone
  <2>1. WaivesHeld'
    BY <1>23 DEF LaterInv, WaivesHeld, HandlerDone, Bookkeep, Leave, CascadeOver, graph
  <2>2. OneWork'
    BY <1>1, <1>23 DEF TypeOK, LaterInv, OneWork, HandlerDone, Bookkeep, Leave, CascadeOver, graph
  <2>3. FreshDeps'
    BY <1>1, <1>4, <1>23 DEF TypeOK, LaterInv, FreshDeps, OrderedDeps, ExecutesAfter, HandlerDone, Bookkeep, Leave, CascadeOver, graph
  <2>4. WorkGoing'
    <3>1. \A j \in Worker : work'[j].txn \subseteq work[j].txn
      BY SMT, <1>1, <1>23 DEF TypeOK, HandlerDone, Leave, NoWork
    <3>2. \A y \in Txn : Going(y) => Going(y)'
      BY <1>1, <1>23 DEF TypeOK, HandlerDone, Bookkeep, Going, Ended
    <3>3. \A j \in Worker : work[j].txn \subseteq Txn
      BY <1>1 DEF TypeOK
    <3> QED
      BY <3>1, <3>2, <3>3 DEF LaterInv, WorkGoing
  <2>5. WaitGoing'
    BY <1>23 DEF LaterInv, WaitGoing, Going, Ended, HandlerDone, Bookkeep, Leave, CascadeOver, graph
  <2>6. Reserved'
    <3>1. applying' = applying /\ \A j \in Task : work'[j] = work[j] /\ work[j].txn \subseteq Txn
      BY <1>1, <1>4, <1>23 DEF TypeOK, HandlerDone, Leave
    <3>2. \A y \in Txn : Ended(y) => Ended(y)'
      BY <1>1, <1>23 DEF TypeOK, HandlerDone, Bookkeep, Ended
    <3> QED
      BY <3>1, <3>2 DEF LaterInv, Reserved
  <2>7. Alone'
    <3>1. \A j \in Task : work'[j] = work[j]
      BY <1>1, <1>4, <1>23 DEF TypeOK, HandlerDone, Leave
    <3>2. \A y \in Txn : Ended(y) => Ended(y)'
      BY <1>1, <1>23 DEF TypeOK, HandlerDone, Bookkeep, Ended
    <3> QED
      BY <1>Shrinks, <3>1, <3>2
  <2>8. Covered'
    BY SMT, <1>4, <1>23 DEF LaterInv, Covered, Overtaken, ExecutesAfter, Parking, HandlerDone, Bookkeep, Leave, CascadeOver, graph
  <2> QED
    BY <2>1, <2>2, <2>3, <2>4, <2>5, <2>6, <2>7, <2>8 DEF LaterInv
<1>24. ASSUME NEW x \in Txn, FinalizeNoWrite(x) PROVE LaterInv'
  <2>0. /\ UNCHANGED <<work, applying>>
        /\ \A y \in Txn : (Going(y) => Going(y)') /\ (Ended(y) => Ended(y)')
    <3>1. UNCHANGED <<work, applying>>
      BY <1>24 DEF FinalizeNoWrite, HandlerCascades
    <3>2. phase \in [Txn -> Phases] /\ DOMAIN tomb = Txn
      BY <1>1 DEF TypeOK
    <3>3. CASE phase[x] = "none"
      <4>1. phase' = phase /\ tomb' = [tomb EXCEPT ![x] = IF @ = "none" THEN "nowrite" ELSE @]
        BY <1>24, <3>3 DEF FinalizeNoWrite
      <4>2. \A y \in Txn : tomb[y] # "none" => tomb'[y] # "none"
        BY <3>2, <4>1
      <4> QED
        BY <3>1, <4>1, <4>2 DEF Going, Ended
    <3>4. CASE phase[x] # "none"
      <4>1. tomb' = tomb /\ phase' = [phase EXCEPT ![x] = "Applied"]
        BY <1>24, <3>4 DEF FinalizeNoWrite
      <4>2. \A y \in Txn : phase'[y] = phase[y] \/ phase'[y] = "Applied"
        BY <3>2, <4>1
      <4> QED
        BY <3>1, <4>1, <4>2 DEF Going, Ended
    <3> QED
      BY <3>3, <3>4
  <2>1. WaivesHeld'
    BY <1>1, <1>4, <1>24 DEF TypeOK, LaterInv, WaivesHeld, FinalizeNoWrite, HandlerCascades, Unwaited
  <2>2. OneWork'
    BY <1>1, <1>24 DEF TypeOK, LaterInv, OneWork, FinalizeNoWrite, HandlerCascades, Unwaited
  <2>3. FreshDeps'
    BY <1>1, <1>4, <1>24 DEF TypeOK, LaterInv, FreshDeps, OrderedDeps, ExecutesAfter, FinalizeNoWrite, HandlerCascades, Unwaited
  <2>4. WorkGoing'
    <3>1. \A k \in Worker : work[k].txn \subseteq Txn
      BY <1>1 DEF TypeOK
    <3> QED
      BY <2>0, <3>1 DEF LaterInv, WorkGoing
  <2>5. WaitGoing'
    <3>1. \A y \in Txn : waitingOn'[y] # {} => waitingOn[y] # {}
      BY <1>24 DEF FinalizeNoWrite, Unwaited
    <3> QED
      BY <2>0, <3>1 DEF LaterInv, WaitGoing
  <2>6. Reserved'
    <3>1. \A k \in Task : work[k].txn \subseteq Txn
      BY <1>1, <1>4 DEF TypeOK
    <3> QED
      BY <2>0, <3>1 DEF LaterInv, Reserved
  <2>7. Alone'
    BY <1>Shrinks, <2>0
  <2>8. Covered'
    <3> SUFFICES ASSUME NEW y \in Txn, NEW e \in Txn, Overtaken(y, e)'
                 PROVE  <<y, e>> \in waives'[Handler] \/ \E j \in Task : Parking(j, y)'
      BY DEF Covered
    <3>1. Overtaken(y, e) /\ <<y, e>> \notin waives[Handler]
      <4>1. phase[y] = "Committed" /\ phase[e] = "Committed" /\ UNCHANGED at /\ waitingOn'[y] \subseteq waitingOn[y]
        BY <1>1, <1>24 DEF TypeOK, FinalizeNoWrite, Unwaited, Overtaken, ExecutesAfter
      <4> QED
        BY <1>24, <4>1 DEF Overtaken, ExecutesAfter, FinalizeNoWrite, StateLockFree, LaterInv, WaivesHeld
    <3>2. PICK j \in Task : Parking(j, y)
      BY <3>1 DEF LaterInv, Covered
    <3> QED
      BY <1>1, <1>4, <1>24, <3>2 DEF TypeOK, Parking, FinalizeNoWrite, HandlerCascades
  <2> QED
    BY <2>1, <2>2, <2>3, <2>4, <2>5, <2>6, <2>7, <2>8 DEF LaterInv
<1>25. CASE PruneApplied
  <2>1. WaivesHeld'
    BY <1>25 DEF LaterInv, WaivesHeld, PruneApplied, inside
  <2>2. OneWork'
    BY <1>25 DEF LaterInv, OneWork, PruneApplied, inside
  <2>3. FreshDeps'
    BY <1>25 DEF LaterInv, FreshDeps, OrderedDeps, ExecutesAfter, PruneApplied, StateLockFree, inside
  <2>4. WorkGoing'
    BY <1>1, <1>25 DEF TypeOK, LaterInv, WorkGoing, Going, Ended, PruneApplied, inside
  <2>5. WaitGoing'
    BY <1>25 DEF LaterInv, WaitGoing, Going, Ended, PruneApplied, inside
  <2>6. Reserved'
    BY <1>1, <1>4, <1>25 DEF TypeOK, LaterInv, Reserved, Ended, PruneApplied, inside
  <2>7. Alone'
    BY SMT, <1>1, <1>4, <1>25 DEF TypeOK, LaterInv, Alone, Ended, PruneApplied, inside
  <2>8. Covered'
    BY <1>25 DEF LaterInv, Covered, Overtaken, ExecutesAfter, Parking, PruneApplied, inside
  <2> QED
    BY <2>1, <2>2, <2>3, <2>4, <2>5, <2>6, <2>7, <2>8 DEF LaterInv
<1>26. CASE ReclaimSelect
  <2>1. UNCHANGED <<phase, at, deps, tomb, work, applying, waives>>
    BY <1>26 DEF ReclaimSelect, states, inside
  <2>2. /\ \A j \in Worker : pc'[j] = "begun" => pc[j] = "begun"
        /\ pc[Handler] = "cascade" => pc'[Handler] = "cascade"
    BY <1>26 DEF ReclaimSelect, inside
  <2>3. \A y \in Txn : waitingOn'[y] \subseteq waitingOn[y]
    BY <1>26 DEF ReclaimSelect, graph, inside
  <2>4. \A j \in Task : \A y \in work[j].txn :
          pc[j] \in {"park", "parked"} => pc'[j] \in {"park", "parked"} \/ waitingOn'[y] = {}
    BY <1>26 DEF ReclaimSelect, inside
  <2> QED
    BY <1>5, <1>6, <2>1, <2>2, <2>3, <2>4 DEF LaterInv
<1>27. CASE ReclaimClear
  <2>1. UNCHANGED <<phase, at, deps, tomb, work, applying, waives>>
    BY <1>27 DEF ReclaimClear, Cleared, states, inside
  <2>2. /\ \A j \in Worker : pc'[j] = "begun" => pc[j] = "begun"
        /\ pc[Handler] = "cascade" => pc'[Handler] = "cascade"
    BY <1>27 DEF ReclaimClear, Cleared, inside
  <2>3. \A y \in Txn : waitingOn'[y] \subseteq waitingOn[y]
    BY <1>27 DEF ReclaimClear, Cleared, inside
  <2>4. \A j \in Task : \A y \in work[j].txn :
          pc[j] \in {"park", "parked"} => pc'[j] \in {"park", "parked"} \/ waitingOn'[y] = {}
    BY <1>27 DEF ReclaimClear, Cleared, inside
  <2> QED
    BY <1>5, <1>6, <2>1, <2>2, <2>3, <2>4 DEF LaterInv
<1>28. CASE ReclaimDrop
  <2>1. UNCHANGED <<phase, at, deps, tomb, work, applying, waives>>
    BY <1>28 DEF ReclaimDrop, states, inside
  <2>2. /\ \A j \in Worker : pc'[j] = "begun" => pc[j] = "begun"
        /\ pc[Handler] = "cascade" => pc'[Handler] = "cascade"
    BY <1>28 DEF ReclaimDrop, inside
  <2>3. \A y \in Txn : waitingOn'[y] \subseteq waitingOn[y]
    BY <1>28 DEF ReclaimDrop, graph, inside
  <2>4. \A j \in Task : \A y \in work[j].txn :
          pc[j] \in {"park", "parked"} => pc'[j] \in {"park", "parked"} \/ waitingOn'[y] = {}
    BY <1>28 DEF ReclaimDrop, inside
  <2> QED
    BY <1>5, <1>6, <2>1, <2>2, <2>3, <2>4 DEF LaterInv
<1>29. CASE UNCHANGED vars
  <2>1. UNCHANGED <<phase, at, deps, tomb, work, applying, waives>>
    BY <1>29 DEF vars
  <2>2. /\ \A j \in Worker : pc'[j] = "begun" => pc[j] = "begun"
        /\ pc[Handler] = "cascade" => pc'[Handler] = "cascade"
    BY <1>29 DEF vars
  <2>3. \A y \in Txn : waitingOn'[y] \subseteq waitingOn[y]
    BY <1>29 DEF vars
  <2>4. \A j \in Task : \A y \in work[j].txn :
          pc[j] \in {"park", "parked"} => pc'[j] \in {"park", "parked"} \/ waitingOn'[y] = {}
    BY <1>29 DEF vars
  <2> QED
    BY <1>5, <1>6, <2>1, <2>2, <2>3, <2>4 DEF LaterInv
<1> QED
  BY <1>7, <1>8, <1>9, <1>10, <1>11, <1>12, <1>13, <1>14, <1>15, <1>16, <1>17, <1>18, <1>19, <1>20, <1>21, <1>22, <1>23, <1>24, <1>25, <1>26, <1>27, <1>28, <1>29 DEF Next, Inside, CommitFails

\* The two releases leave no window (release_waiters_ordered_before in Commit,
\* release_parked_from_deps_ordered_after in finish_apply): no committed transaction
\* whose apply has finished parking waits for one that executes after it, when no
\* Commit arrives after the decision was forgotten and no Apply before its Commit.
THEOREM NoWaitLeftOnLater ==
  ASSUME "late" \notin Env, "overtake" \notin Env
  PROVE  Spec => []NoWaitOnLater
<1>1. Init => ReportInv /\ DurableInv /\ LaterInv
  <2> SUFFICES ASSUME Init PROVE ReportInv /\ DurableInv /\ LaterInv
    OBVIOUS
  <2>1. ReportInv /\ DurableInv
    BY ReportInit, DurableInit
  <2>2. \A k \in Worker : work[k].txn = {} /\ pc[k] = "idle" /\ waives[k] = {}
    BY DEF Init, NoWork
  <2>3. \A x \in Txn : waitingOn[x] = {}
    BY DEF Init
  <2>4. WaivesHeld /\ OneWork /\ FreshDeps
    BY <2>2 DEF Worker, WaivesHeld, OneWork, FreshDeps
  <2>5. WorkGoing /\ WaitGoing
    BY <2>2, <2>3 DEF WorkGoing, WaitGoing
  <2>6. Reserved /\ Alone /\ Covered
    BY <2>2, <2>3 DEF Worker, Reserved, Alone, Covered, Overtaken
  <2> QED
    BY <2>1, <2>4, <2>5, <2>6 DEF LaterInv
<1>2. (ReportInv /\ DurableInv /\ LaterInv) /\ [Next]_vars => (ReportInv /\ DurableInv /\ LaterInv)'
  BY ReportInductive, DurableInductive, LaterInductive
<1>3. ReportInv /\ LaterInv => NoWaitOnLater
  <2> SUFFICES ASSUME ReportInv, LaterInv, StateLockFree, NEW x \in Txn \ applying, phase[x] = "Committed",
                      NEW d \in waitingOn[x], ExecutesAfter(d, at[x])
               PROVE  FALSE
    BY DEF NoWaitOnLater
  <2>1. waives[Handler] = {}
    BY DEF StateLockFree, LaterInv, WaivesHeld
  <2>2. d \in Txn
    BY DEF ReportInv, TypeOK
  <2> QED
    BY <2>1, <2>2 DEF LaterInv, Covered, Overtaken, Parking
<1> QED
  BY <1>1, <1>2, <1>3, PTL DEF Spec

\* What is registered, decided or executed here stays so: prune_applied leaves a
\* tombstone behind.
LEMMA ExecutedStays ==
  ASSUME TypeOK, [Next]_vars
  PROVE  \A y \in Txn : (Known(y) => Known(y)') /\ (Executed(y) => Executed(y)')
<1>1. ASSUME UNCHANGED <<phase, tomb>>, \A y \in Txn : rows[y] # {} => rows'[y] # {}
      PROVE  \A y \in Txn : (Known(y) => Known(y)') /\ (Executed(y) => Executed(y)')
  BY <1>1 DEF Known, Executed
<1>2. ASSUME NEW x \in Txn, PreAccept(x) \/ Commit(x) \/ CommitFails(x)
      PROVE  \A y \in Txn : (Known(y) => Known(y)') /\ (Executed(y) => Executed(y)')
  BY <1>2 DEF TypeOK, Known, Executed, PreAccept, Commit, CommitFails
<1>3. ASSUME NEW x \in Txn, LocalApply(x) \/ \E k \in Task : BeginApply(k, x)
      PROVE  \A y \in Txn : (Known(y) => Known(y)') /\ (Executed(y) => Executed(y)')
  BY <1>1, <1>3 DEF LocalApply, BeginApply, states
<1>4. ASSUME NEW k \in Worker,
             \/ RegisterWaits(k) \/ Park(k) \/ ParkFails(k) \/ PersistFails(k)
             \/ \E x \in Txn : MarkUnblocked(k, x) \/ UnblockedFails(k, x)
             \/ \E x, d \in Txn : Waive(k, x, d)
             \/ LeaveGate(k) \/ FinishParked(k)
      PROVE  \A y \in Txn : (Known(y) => Known(y)') /\ (Executed(y) => Executed(y)')
  BY <1>1, <1>4 DEF RegisterWaits, Park, ParkFails, PersistFails, MarkUnblocked, UnblockedFails,
                    Waive, LeaveGate, FinishParked, states
<1>5. ASSUME NEW k \in Worker, Persist(k) \/ \E x \in Txn : ApplyUnblocked(k, x)
      PROVE  \A y \in Txn : (Known(y) => Known(y)') /\ (Executed(y) => Executed(y)')
  <2>1. UNCHANGED <<phase, tomb>>
    BY <1>5 DEF Persist, ApplyUnblocked, states
  <2>2. PICK x \in Txn, t \in Nat : Persisted(x, t)
    BY <1>5 DEF TypeOK, Persist, ApplyUnblocked
  <2>3. \A y \in Txn : rows[y] # {} => rows'[y] # {}
    BY <2>2 DEF TypeOK, Persisted
  <2> QED
    BY <1>1, <2>1, <2>3
<1>6. ASSUME NEW k \in Worker, Bookkeep(done[k]), UNCHANGED <<tomb, rows>>
      PROVE  \A y \in Txn : (Known(y) => Known(y)') /\ (Executed(y) => Executed(y)')
  BY <1>6 DEF Bookkeep, Known, Executed
<1>7. CASE HandlerDone \/ \E k \in Task : FinishApply(k)
  BY <1>6, <1>7 DEF HandlerDone, FinishApply, Worker
<1>8. ASSUME NEW x \in Txn, FinalizeNoWrite(x)
      PROVE  \A y \in Txn : (Known(y) => Known(y)') /\ (Executed(y) => Executed(y)')
  BY SMT, <1>8 DEF TypeOK, FinalizeNoWrite, Known, Executed
<1>9. CASE PruneApplied
  BY <1>9 DEF PruneApplied, Known, Executed
<1>10. CASE ReclaimSelect \/ ReclaimClear \/ ReclaimDrop
  BY <1>1, <1>10 DEF ReclaimSelect, ReclaimClear, ReclaimDrop, states
<1>11. CASE UNCHANGED vars
  BY <1>1, <1>11 DEF vars
<1> QED
  BY <1>2, <1>3, <1>4, <1>5, <1>7, <1>8, <1>9, <1>10, <1>11 DEF Next, Inside, Worker

\* Every step keeps TurnInv, when the maintenance loop reclaims no park, an Apply
\* follows its Commit and a Commit follows the dependencies it names.
LEMMA TurnInductive ==
  ASSUME Env \subseteq {"prune", "fault", "late"}, TypeOK, TurnInv, [Next]_vars
  PROVE  TurnInv'
<1>1. TypeOK /\ TypeOK'
  BY TypeInductive
<1>2. \A y \in Txn : (Known(y) => Known(y)') /\ (Executed(y) => Executed(y)')
  BY ExecutedStays
<1>3. \A y \in Txn : Before(y) \subseteq AgreedDeps[y] /\ AgreedDeps[y] \subseteq Txn /\ AgreedT[y] # 0
  BY TxnAssumption DEF Before
<1>4. Handler \in Worker /\ Handler \notin Task /\ Task \subseteq Worker
  BY WorkerAssumption DEF Worker
<1>Workers.
      /\ pc \in [Worker -> Pcs] /\ work \in [Worker -> [txn : SUBSET Txn, t : Nat, deps : SUBSET Txn]]
      /\ queue \in [Worker -> SUBSET Txn] /\ waives \in [Worker -> SUBSET (Txn \X Txn)]
  BY <1>1 DEF TypeOK
<1>Waiters. waitingOn \in [Txn -> SUBSET Txn] /\ phase \in [Txn -> Phases]
  BY <1>1 DEF TypeOK
<1>5. \A y \in Txn : Met(y) => Met(y)'
  BY <1>2, <1>3 DEF Met
<1> DEFINE Rest == (\A k \in Worker : WorkerAt(k)) /\ GateAlone /\ AsAgreed /\ QueueMet /\ AppliedExecuted /\ WaitsHold
\* A worker that stays where it is.
<1>6. ASSUME NEW j \in Worker, Untouched(j) PROVE WorkerAt(j)'
  <2>1. work[j].txn \subseteq Txn /\ WorkerAt(j)
    BY <1>1 DEF TypeOK, TurnInv
  <2>2. pc'[j] = pc[j] /\ work'[j] = work[j] /\ queue'[j] = queue[j] /\ waives'[j] = waives[j]
    BY <1>6 DEF Untouched
  <2>3. \A x \in Txn : \A d \in Before(x) : Executed(d) => Executed(d)'
    BY <1>2, <1>3
  <2>4. pc'[j] = "begun" => \A x \in work'[j].txn : \A d \in Before(x) : d \in work'[j].deps \/ Executed(d)'
    BY <2>1, <2>2, <2>3 DEF WorkerAt
  <2>5. pc'[j] = "persist" => \A x \in work'[j].txn : Met(x)'
    BY <1>5, <2>1, <2>2 DEF WorkerAt
  <2> QED
    BY <2>1, <2>2, <2>4, <2>5 DEF WorkerAt
<1>7. ASSUME NEW k \in Worker, \A j \in Worker : j # k => Untouched(j),
             pc'[k] \in GatePc => pc[k] \in GatePc \/ GateFree
      PROVE  GateAlone'
  BY <1>7 DEF TurnInv, GateAlone, GateFree, Untouched
<1>8. ASSUME UNCHANGED <<phase, at, deps>> PROVE AsAgreed'
  BY <1>2, <1>3, <1>8 DEF TurnInv, AsAgreed
\* No wait is registered or dropped.
<1>9. ASSUME UNCHANGED waitingOn, applied' \subseteq applied,
             \A j \in Worker : queue'[j] \subseteq queue[j],
             \A y \in Txn : parked[y] # 0 =>
                parked'[y] # 0 \/ (waitingOn[y] = {} /\ \A j \in Worker : y \notin queue'[j]),
             \A j \in Worker : pc[j] = "park" =>
                (pc'[j] = "park" /\ work'[j] = work[j]) \/ \A y \in work[j].txn : parked'[y] # 0
      PROVE  QueueMet' /\ AppliedExecuted' /\ WaitsHold'
  <2>1. QueueMet'
    <3> SUFFICES ASSUME NEW j \in Worker, NEW y \in queue'[j] PROVE Met(y)' /\ parked'[y] # 0 /\ waitingOn'[y] = {}
      BY DEF QueueMet
    <3>1. y \in queue[j] /\ y \in Txn
      BY <1>1, <1>9 DEF TypeOK
    <3>2. Met(y) /\ parked[y] # 0 /\ waitingOn[y] = {}
      BY <3>1 DEF TurnInv, QueueMet
    <3> QED
      BY <1>5, <1>9, <3>1, <3>2
  <2>2. AppliedExecuted'
    BY <1>1, <1>2, <1>9 DEF TurnInv, AppliedExecuted, TypeOK
  <2>3. WaitsHold'
    <3> SUFFICES ASSUME NEW y \in Txn, waitingOn'[y] # {}
                 PROVE  /\ \A d \in Before(y) : d \in waitingOn'[y] \/ Executed(d)'
                        /\ parked'[y] # 0 \/ \E j \in Worker : pc'[j] = "park" /\ y \in work'[j].txn
      BY DEF WaitsHold
    <3>1. /\ \A d \in Before(y) : d \in waitingOn[y] \/ Executed(d)
          /\ parked[y] # 0 \/ \E j \in Worker : pc[j] = "park" /\ y \in work[j].txn
      BY <1>9 DEF TurnInv, WaitsHold
    <3>2. \A d \in Before(y) : d \in waitingOn'[y] \/ Executed(d)'
      BY <1>2, <1>3, <1>9, <3>1
    <3>3. parked'[y] # 0 \/ \E j \in Worker : pc'[j] = "park" /\ y \in work'[j].txn
      BY <1>9, <3>1
    <3> QED
      BY <3>2, <3>3
  <2> QED
    BY <2>1, <2>2, <2>3
\* x was executed, and the waiters whose last wait was on x are woken.
<1>10. ASSUME NEW k \in Worker, NEW x \in Txn, waitingOn' = Unwaited(x), applied' \subseteq applied \cup {x},
              Executed(x)', queue'[k] \subseteq (queue[k] \ {x}) \cup Woken(x),
              \A j \in Worker : j # k => queue'[j] = {},
              \A j \in Worker : pc[j] # "park",
              \A y \in Txn : y # x => parked'[y] = parked[y]
       PROVE  QueueMet' /\ AppliedExecuted' /\ WaitsHold'
  <2>1. \A y \in Txn : waitingOn'[y] = IF y = x THEN {} ELSE waitingOn[y] \ {x}
    BY <1>10 DEF Unwaited
  <2>2. \A y \in Txn : waitingOn[y] # {} =>
           (\A d \in Before(y) : d \in waitingOn[y] \/ Executed(d)) /\ parked[y] # 0
    BY <1>10 DEF TurnInv, WaitsHold
  <2>3. QueueMet'
    <3> SUFFICES ASSUME NEW y \in queue'[k] PROVE Met(y)' /\ parked'[y] # 0 /\ waitingOn'[y] = {}
      BY <1>10 DEF QueueMet
    <3>1. CASE y \in queue[k] \ {x}
      <4>1. y \in Txn /\ Met(y) /\ parked[y] # 0 /\ waitingOn[y] = {}
        BY <1>1, <3>1 DEF TypeOK, TurnInv, QueueMet
      <4> QED
        BY <1>5, <1>10, <2>1, <3>1, <4>1
    <3>2. CASE y \in Woken(x)
      <4>1. y \in Txn /\ y # x /\ waitingOn[y] = {x}
        BY <3>2 DEF Woken
      <4>2. Met(y)'
        BY <1>2, <1>3, <1>10, <2>2, <4>1 DEF Met
      <4> QED
        BY <1>10, <2>1, <2>2, <4>1, <4>2
    <3> QED
      BY <1>10, <3>1, <3>2
  <2>4. AppliedExecuted'
    BY <1>1, <1>2, <1>10 DEF TurnInv, AppliedExecuted, TypeOK
  <2>5. WaitsHold'
    <3> SUFFICES ASSUME NEW y \in Txn, waitingOn'[y] # {}
                 PROVE  (\A d \in Before(y) : d \in waitingOn'[y] \/ Executed(d)') /\ parked'[y] # 0
      BY DEF WaitsHold
    <3>1. y # x /\ waitingOn[y] # {} /\ waitingOn'[y] = waitingOn[y] \ {x}
      BY <2>1
    <3>2. \A d \in Before(y) : d \in waitingOn'[y] \/ Executed(d)'
      BY <1>2, <1>3, <1>10, <2>2, <3>1
    <3> QED
      BY <1>10, <2>2, <3>1, <3>2
  <2> QED
    BY <2>3, <2>4, <2>5
<1>11. ASSUME NEW x \in Txn, PreAccept(x) PROVE Rest'
  <2>1. \A j \in Worker : Untouched(j)
    BY <1>11 DEF PreAccept, inside, Untouched
  <2>2. GateAlone'
    BY <1>4, <1>7, <2>1 DEF Untouched
  <2>3. AsAgreed'
    BY <1>1, <1>2, <1>3, <1>11 DEF TypeOK, PreAccept, TurnInv, AsAgreed
  <2>4. QueueMet' /\ AppliedExecuted' /\ WaitsHold'
    BY <1>9, <1>11 DEF PreAccept, graph, inside
  <2> QED
    BY <1>6, <2>1, <2>2, <2>3, <2>4
<1>12. ASSUME NEW x \in Txn, Commit(x) PROVE Rest'
  <2> DEFINE drops == {<<y, x>> : y \in {z \in Txn : /\ x \in waitingOn[z]
                                                    /\ phase[z] = "Committed"
                                                    /\ at[z] < AgreedT[x]}}
  <2>0. /\ pc' = [pc EXCEPT ![Handler] = "cascade"] /\ queue' = [queue EXCEPT ![Handler] = {}]
        /\ waives' = [waives EXCEPT ![Handler] = drops] /\ work' = work
    BY <1>12 DEF Commit, HandlerCascades
  <2> HIDE DEF drops
  <2>1. \A j \in Worker : j # Handler => Untouched(j)
    BY <1>Workers, <2>0 DEF Untouched
  <2>2. GateAlone'
    BY <1>4, <1>7, <2>1, <1>12 DEF Commit
  <2>3. AsAgreed'
    <3> SUFFICES ASSUME NEW y \in Txn, phase'[y] = "Committed"
                 PROVE  at'[y] = AgreedT[y] /\ deps'[y] = AgreedDeps[y] /\ \A d \in AgreedDeps[y] : Known(d)'
      BY DEF AsAgreed
    <3>1. CASE y = x
      <4>1. \A d \in AgreedDeps[y] : Known(d)
        BY <3>1, <1>12 DEF Commit, DepsKnown, Known
      <4> QED
        BY <1>1, <1>2, <1>3, <3>1, <4>1, <1>12 DEF TypeOK, Commit
    <3>2. CASE y # x
      <4>1. phase[y] = "Committed" /\ at'[y] = at[y] /\ deps'[y] = deps[y]
        BY <1>1, <3>2, <1>12 DEF TypeOK, Commit
      <4> QED
        BY <1>2, <1>3, <4>1 DEF TurnInv, AsAgreed
    <3> QED
      BY <3>1, <3>2
  <2>4. WorkerAt(Handler)'
    <3>1. pc'[Handler] = "cascade"
      BY <1>4, <1>Workers, <2>0
    <3>2. ASSUME NEW y \in Txn, NEW d \in Txn, <<y, d>> \in waives'[Handler] PROVE d \notin Before(y)
      <4>1. d = x /\ phase[y] = "Committed" /\ at[y] < AgreedT[x]
        <5>1. <<y, d>> \in drops
          BY <1>4, <1>Workers, <2>0, <3>2
        <5> QED
          BY <5>1 DEF drops
      <4>2. AgreedT[y] < AgreedT[d]
        BY <4>1 DEF TurnInv, AsAgreed
      <4> QED
        BY SMT, <4>2, TxnAssumption DEF Before
    <3> QED
      BY <3>1, <3>2 DEF WorkerAt
  <2>5. QueueMet' /\ AppliedExecuted' /\ WaitsHold'
    <3>1. UNCHANGED <<waitingOn, applied, parked, work>>
      BY <1>12 DEF Commit, HandlerCascades, graph
    <3>2. \A j \in Worker : pc[j] # "park" /\ queue'[j] \subseteq queue[j]
      <4>1. queue'[Handler] = {} /\ \A j \in Worker : pc[j] # "park"
        <5>1. \A j \in Worker : pc[j] # "park"
          BY <1>12 DEF Commit, GateFree, GatePc
        <5> QED
          BY <1>4, <1>Workers, <2>0, <5>1
      <4> QED
        BY <2>1, <4>1 DEF Untouched
    <3> QED
      BY <1>9, <3>1, <3>2
  <2> QED
    BY <1>6, <2>1, <2>2, <2>3, <2>4, <2>5
\* begin_apply_owned and the coordinator's own apply compute the waits the same way.
<1>13. ASSUME NEW k \in Worker, NEW x \in Txn, pc[k] = "idle", Persistable(x), Started(k, x),
              UNCHANGED <<states, tomb, graph, parked>>
       PROVE  Rest'
  <2>1. phase[x] = "Committed"
    BY <1>13 DEF Persistable
  <2>2. at[x] # 0 /\ \A d \in Before(x) : d \in OrderedDeps(x) \/ Executed(d)
    <3>1. at[x] = AgreedT[x] /\ deps[x] = AgreedDeps[x] /\ \A d \in AgreedDeps[x] : Known(d)
      BY <2>1 DEF TurnInv, AsAgreed
    <3>2. ASSUME NEW d \in Before(x) PROVE d \in OrderedDeps(x) \/ Executed(d)
      <4>1. d \in Txn /\ d \in deps[x] /\ Known(d) /\ AgreedT[d] < AgreedT[x]
        BY <1>3, <3>1, <3>2 DEF Before
      <4>2. ~ExecutesAfter(d, at[x])
        <5>1. phase[d] = "Committed" => at[d] = AgreedT[d]
          BY <4>1 DEF TurnInv, AsAgreed
        <5> QED
          BY SMT, <3>1, <4>1, <5>1, TxnAssumption DEF ExecutesAfter
      <4> QED
        BY <4>1, <4>2 DEF OrderedDeps, Known, Executed
    <3> QED
      BY <1>3, <3>1, <3>2
  <2>3. \A j \in Worker : j # k => Untouched(j)
    BY <1>1, <1>13 DEF TypeOK, Started, Untouched
  <2>4. pc'[k] = "begun" /\ work'[k] = [txn |-> {x}, t |-> at[x], deps |-> OrderedDeps(x)] /\ UNCHANGED <<queue, waives>>
    BY <1>1, <1>13 DEF TypeOK, Started
  <2>5. GateAlone' /\ AsAgreed'
    BY <1>7, <1>8, <1>13, <2>3, <2>4 DEF GatePc, states
  <2>6. WorkerAt(k)'
    <3>1. queue'[k] = {} /\ waives'[k] = {}
      BY <1>13, <2>4 DEF TurnInv, WorkerAt
    <3>2. work'[k].t # 0 /\ work'[k].txn = {x} /\ work'[k].deps = OrderedDeps(x)
      BY SMT, <2>2, <2>4
    <3>3. \A d \in Before(x) : d \in work'[k].deps \/ Executed(d)'
      BY <1>2, <1>3, <2>2, <3>2
    <3> QED
      BY <2>4, <3>1, <3>2, <3>3 DEF WorkerAt
  <2>7. QueueMet' /\ AppliedExecuted' /\ WaitsHold'
    <3>1. \A j \in Worker : pc[j] = "park" => pc'[j] = "park" /\ work'[j] = work[j]
      BY <1>13, <2>3 DEF Untouched
    <3> QED
      BY <1>9, <1>13, <2>4, <3>1 DEF graph
  <2> QED
    BY <1>6, <2>3, <2>5, <2>6, <2>7
<1>14. ASSUME NEW k \in Task, NEW x \in Txn, BeginApply(k, x) PROVE Rest'
  BY <1>4, <1>13, <1>14 DEF BeginApply
<1>15. ASSUME NEW x \in Txn, LocalApply(x) PROVE Rest'
  BY <1>4, <1>13, <1>15 DEF LocalApply, StateLockFree
<1>16. ASSUME NEW k \in Worker, RegisterWaits(k) PROVE Rest'
  <2> DEFINE X == CHOOSE z \in Txn : work[k].txn = {z}
             unmet == work[k].deps \ applied
             cycle == \E d \in unmet : Reaches(d, X)
  <2>1. /\ pc[k] = "begun" /\ GateFree
        /\ pc' = [pc EXCEPT ![k] = IF unmet = {} THEN "persist" ELSE IF cycle THEN "failed" ELSE "park"]
        /\ waitingOn' = IF cycle THEN Cleared({X}) ELSE [waitingOn EXCEPT ![X] = waitingOn[X] \cup unmet]
        /\ UNCHANGED <<phase, at, deps, applied, parked, work, queue, waives>>
    BY <1>16 DEF RegisterWaits, Goto, states
  <2>2. X \in Txn /\ work[k].txn = {X} /\ work[k].t # 0 /\ WorkerAt(k)
    BY <2>1 DEF TurnInv, WorkerAt
  <2>3. \A d \in Before(X) : d \in unmet \/ Executed(d)
    <3>1. \A d \in Before(X) : d \in work[k].deps \/ Executed(d)
      BY <2>1, <2>2 DEF WorkerAt
    <3> QED
      BY <3>1 DEF TurnInv, AppliedExecuted
  <2>4. (unmet = {} => ~cycle) /\ unmet \subseteq Txn
    BY <1>1 DEF TypeOK
  <2> HIDE DEF X, unmet, cycle
  <2>5. \A j \in Worker : j # k => Untouched(j)
    BY <1>1, <2>1 DEF TypeOK, Untouched
  <2>6. GateAlone' /\ AsAgreed'
    BY <1>7, <1>8, <2>1, <2>5
  <2>7. pc'[k] = IF unmet = {} THEN "persist" ELSE IF cycle THEN "failed" ELSE "park"
    BY <1>1, <2>1 DEF TypeOK
  <2>8. WorkerAt(k)'
    <3>1. queue'[k] = {} /\ waives'[k] = {}
      BY <2>1, <2>2 DEF WorkerAt
    <3>2. ASSUME NEW y \in work'[k].txn, unmet = {} PROVE Met(y)'
      <4>1. y = X
        BY <2>1, <2>2
      <4>2. Met(y)
        BY <2>3, <3>2, <4>1 DEF Met
      <4> QED
        BY <1>5, <2>2, <4>1, <4>2
    <3>3. (pc'[k] = "persist" => unmet = {}) /\ pc'[k] # "begun"
      BY <2>7
    <3>4. work'[k].t # 0 /\ \E y \in Txn : work'[k].txn = {y}
      BY <2>1, <2>2
    <3> QED
      BY <3>1, <3>2, <3>3, <3>4 DEF WorkerAt
  <2>9. QueueMet' /\ AppliedExecuted'
    <3>1. \A j \in Worker : queue'[j] = {}
      BY <2>1 DEF TurnInv, WorkerAt, GateFree, GatePc
    <3> QED
      BY <1>1, <1>2, <2>1, <3>1 DEF QueueMet, TurnInv, AppliedExecuted, TypeOK
  <2>10. WaitsHold'
    <3> SUFFICES ASSUME NEW y \in Txn, waitingOn'[y] # {}
                 PROVE  /\ \A d \in Before(y) : d \in waitingOn'[y] \/ Executed(d)'
                        /\ parked'[y] # 0 \/ \E j \in Worker : pc'[j] = "park" /\ y \in work'[j].txn
      BY DEF WaitsHold
    <3>1. waitingOn[y] # {} => (\A d \in Before(y) : d \in waitingOn[y] \/ Executed(d)) /\ parked[y] # 0
      BY <2>1 DEF TurnInv, WaitsHold, GateFree, GatePc
    <3>2. CASE y # X
      <4>1. waitingOn'[y] = waitingOn[y]
        BY <1>1, <2>1, <3>2 DEF TypeOK, Cleared
      <4> QED
        BY <1>2, <1>3, <2>1, <3>1, <4>1
    <3>3. CASE y = X
      <4>1. ~cycle
        BY <2>1, <3>3 DEF Cleared
      <4>2. waitingOn'[y] = waitingOn[y] \cup unmet
        <5>1. waitingOn' = [waitingOn EXCEPT ![X] = waitingOn[X] \cup unmet]
          BY <2>1, <4>1
        <5> HIDE DEF X, unmet
        <5> QED
          BY <1>Waiters, <2>2, <3>3, <5>1
      <4>3. \A d \in Before(y) : d \in waitingOn'[y] \/ Executed(d)'
        BY <1>2, <1>3, <2>3, <3>3, <4>2
      <4>4. parked'[y] # 0 \/ (pc'[k] = "park" /\ y \in work'[k].txn)
        BY <2>1, <2>2, <2>7, <3>1, <3>3, <4>1, <4>2
      <4> QED
        BY <4>3, <4>4
    <3> QED
      BY <3>2, <3>3
  <2> QED
    BY <1>6, <2>5, <2>6, <2>8, <2>9, <2>10
<1>17. ASSUME NEW k \in Worker, Park(k) PROVE Rest'
  <2>1. \A j \in Worker : j # k => Untouched(j)
    BY <1>1, <1>17 DEF TypeOK, Park, Goto, Untouched
  <2>2. GateAlone' /\ AsAgreed'
    <3>1. pc[k] \in GatePc
      BY <1>17 DEF Park, Goto, GatePc
    <3>2. UNCHANGED <<phase, at, deps>>
      BY <1>17 DEF Park, Goto, states
    <3> QED
      BY <1>7, <1>8, <2>1, <3>1, <3>2
  <2>3. WorkerAt(k)'
    <3>1. pc'[k] = "parked" /\ queue'[k] = queue[k] /\ waives'[k] = waives[k] /\ pc[k] = "park"
      BY <1>1, <1>17 DEF TypeOK, Park, Goto
    <3> QED
      BY <3>1 DEF TurnInv, WorkerAt
  <2>4. QueueMet' /\ AppliedExecuted' /\ WaitsHold'
    <3>1. work[k].t # 0 /\ pc[k] = "park" /\ work[k].txn \subseteq Txn
      BY <1>1, <1>17 DEF TypeOK, Park, TurnInv, WorkerAt
    <3>2. \A y \in Txn : (parked[y] # 0 => parked'[y] # 0) /\ (y \in work[k].txn => parked'[y] # 0)
      BY <3>1, <1>17 DEF Park
    <3>3. UNCHANGED <<waitingOn, applied, queue, work>>
      BY <1>17 DEF Park, Goto, graph
    <3>4. \A j \in Worker : pc[j] = "park" =>
             (pc'[j] = "park" /\ work'[j] = work[j]) \/ \A y \in work[j].txn : parked'[y] # 0
      BY <2>1, <3>1, <3>2 DEF Untouched
    <3> QED
      BY <1>9, <3>2, <3>3, <3>4
  <2> QED
    BY <1>6, <2>1, <2>2, <2>3, <2>4
<1>18. ASSUME NEW k \in Worker, ParkFails(k) PROVE Rest'
  <2>1. \A j \in Worker : j # k => Untouched(j)
    BY <1>1, <1>18 DEF TypeOK, ParkFails, Goto, Untouched
  <2>2. GateAlone' /\ AsAgreed'
    <3>1. pc[k] \in GatePc
      BY <1>18 DEF ParkFails, Goto, GatePc
    <3>2. UNCHANGED <<phase, at, deps>>
      BY <1>18 DEF ParkFails, Goto, states
    <3> QED
      BY <1>7, <1>8, <2>1, <3>1, <3>2
  <2>3. WorkerAt(k)'
    <3>1. pc'[k] = "failed" /\ queue'[k] = queue[k] /\ waives'[k] = waives[k] /\ pc[k] = "park"
      BY <1>1, <1>18 DEF TypeOK, ParkFails, Goto
    <3> QED
      BY <3>1 DEF TurnInv, WorkerAt
  <2>4. \A y \in Txn : waitingOn'[y] = IF y \in work[k].txn THEN {} ELSE waitingOn[y]
    BY <1>18 DEF ParkFails, Cleared
  <2>5. QueueMet' /\ AppliedExecuted'
    <3>1. UNCHANGED <<queue, applied, parked>>
      BY <1>18 DEF ParkFails, Goto
    <3> QED
      BY <1>1, <1>2, <1>5, <2>4, <3>1 DEF TurnInv, QueueMet, AppliedExecuted, TypeOK
  <2>6. WaitsHold'
    <3> SUFFICES ASSUME NEW y \in Txn, waitingOn'[y] # {}
                 PROVE  /\ \A d \in Before(y) : d \in waitingOn'[y] \/ Executed(d)'
                        /\ parked'[y] # 0 \/ \E j \in Worker : pc'[j] = "park" /\ y \in work'[j].txn
      BY DEF WaitsHold
    <3>1. y \notin work[k].txn /\ waitingOn'[y] = waitingOn[y]
      BY <2>4
    <3>2. /\ \A d \in Before(y) : d \in waitingOn[y] \/ Executed(d)
          /\ parked[y] # 0 \/ \E j \in Worker : pc[j] = "park" /\ y \in work[j].txn
      BY <3>1 DEF TurnInv, WaitsHold
    <3>3. \A d \in Before(y) : d \in waitingOn'[y] \/ Executed(d)'
      BY <1>2, <1>3, <3>1, <3>2
    <3>4. parked' = parked
      BY <1>18 DEF ParkFails
    <3> QED
      BY <2>1, <3>1, <3>2, <3>3, <3>4 DEF Untouched
  <2> QED
    BY <1>6, <2>1, <2>2, <2>3, <2>5, <2>6
<1>19. ASSUME NEW k \in Worker, PersistFails(k) PROVE Rest'
  <2>1. \A j \in Worker : j # k => Untouched(j)
    BY <1>1, <1>19 DEF TypeOK, PersistFails, Goto, Untouched
  <2>2. GateAlone' /\ AsAgreed'
    <3>1. pc[k] \in GatePc
      BY <1>19 DEF PersistFails, Goto, GatePc
    <3>2. UNCHANGED <<phase, at, deps>>
      BY <1>19 DEF PersistFails, Goto, states
    <3> QED
      BY <1>7, <1>8, <2>1, <3>1, <3>2
  <2>3. WorkerAt(k)'
    <3>1. pc'[k] = "failed" /\ queue'[k] = queue[k] /\ waives'[k] = waives[k] /\ pc[k] = "persist"
      BY <1>1, <1>19 DEF TypeOK, PersistFails, Goto
    <3> QED
      BY <3>1 DEF TurnInv, WorkerAt
  <2>4. QueueMet' /\ AppliedExecuted' /\ WaitsHold'
    <3>1. UNCHANGED <<waitingOn, applied, queue, work, parked>> /\ pc[k] # "park"
      BY <1>19 DEF PersistFails, Goto, graph
    <3>2. \A j \in Worker : pc[j] = "park" => pc'[j] = "park" /\ work'[j] = work[j]
      BY <2>1, <3>1 DEF Untouched
    <3> QED
      BY <1>9, <3>1, <3>2
  <2> QED
    BY <1>6, <2>1, <2>2, <2>3, <2>4
<1>20. ASSUME NEW k \in Worker, Persist(k) PROVE Rest'
  <2>0. PICK x \in work[k].txn : /\ Persisted(x, work[k].t)
                                /\ pc' = [pc EXCEPT ![k] = "cascade"]
                                /\ queue' = [queue EXCEPT ![k] = Woken(x)]
                                /\ UNCHANGED <<phase, at, deps, parked, work, waives>> /\ pc[k] = "persist"
    BY <1>20 DEF Persist, states
  <2>1. \A j \in Worker : j # k => Untouched(j)
    BY <1>1, <2>0 DEF TypeOK, Untouched
  <2>2. GateAlone' /\ AsAgreed'
    BY <1>7, <1>8, <2>0, <2>1 DEF GatePc
  <2>3. WorkerAt(k)' /\ queue'[k] = Woken(x)
    <3>1. pc'[k] = "cascade" /\ waives'[k] = {} /\ queue'[k] = Woken(x)
      BY <1>1, <2>0 DEF TypeOK, TurnInv, WorkerAt
    <3> QED
      BY <3>1 DEF WorkerAt
  <2>4. QueueMet' /\ AppliedExecuted' /\ WaitsHold'
    <3>1. \A j \in Worker : pc[j] # "park" /\ (j # k => queue'[j] = {})
      BY <2>1, <1>20 DEF Persist, TurnInv, GateAlone, GatePc, WorkerAt, Untouched
    <3>2. x \in Txn /\ rows'[x] # {} /\ applied' = applied \cup {x} /\ waitingOn' = Unwaited(x)
      BY <1>1, <2>0 DEF TypeOK, Persisted
    <3>3. Executed(x)'
      BY <3>2 DEF Executed
    <3> QED
      BY <1>10, <2>0, <2>3, <3>1, <3>2, <3>3
  <2> QED
    BY <1>6, <2>1, <2>2, <2>3, <2>4
<1>21. ASSUME NEW k \in Worker, NEW x \in Txn, ApplyUnblocked(k, x) PROVE Rest'
  <2>0. /\ pc[k] = "cascade" /\ UNCHANGED <<pc, work, waives>>
        /\ queue' = [queue EXCEPT ![k] = (@ \ {x}) \cup Woken(x)]
    BY <1>21 DEF ApplyUnblocked
  <2>1. \A j \in Worker : j # k => Untouched(j)
    BY <1>Workers, <2>0 DEF Untouched
  <2>2. GateAlone' /\ AsAgreed'
    <3>1. pc[k] \in GatePc /\ UNCHANGED <<phase, at, deps>>
      BY <1>21 DEF ApplyUnblocked, GatePc, states
    <3> QED
      BY <1>7, <1>8, <2>1, <3>1
  <2>3. WorkerAt(k)'
    <3>1. pc'[k] = "cascade" /\ waives'[k] \subseteq waives[k]
      BY <2>0
    <3> QED
      BY <3>1 DEF TurnInv, WorkerAt
  <2>4. QueueMet' /\ AppliedExecuted' /\ WaitsHold'
    <3>1. \A j \in Worker : pc[j] # "park" /\ (j # k => queue'[j] = {})
      BY <2>1, <1>21 DEF ApplyUnblocked, TurnInv, GateAlone, GatePc, WorkerAt, Untouched
    <3>2. rows'[x] # {} /\ applied' = applied \cup {x} /\ waitingOn' = Unwaited(x)
      BY <1>1, <1>21 DEF TypeOK, ApplyUnblocked, Persisted
    <3>3. Executed(x)'
      BY <3>2 DEF Executed
    <3>4. queue'[k] = (queue[k] \ {x}) \cup Woken(x) /\ \A y \in Txn : y # x => parked'[y] = parked[y]
      BY <1>1, <1>21 DEF TypeOK, ApplyUnblocked
    <3> QED
      BY <1>10, <3>1, <3>2, <3>3, <3>4
  <2> QED
    BY <1>6, <2>1, <2>2, <2>3, <2>4
<1>22. ASSUME NEW k \in Worker, NEW x \in Txn, MarkUnblocked(k, x) PROVE Rest'
  BY <1>22 DEF MarkUnblocked, TurnInv, QueueMet
<1>23. ASSUME NEW k \in Worker, NEW x \in Txn, UnblockedFails(k, x) PROVE Rest'
  <2>0. /\ pc[k] = "cascade" /\ UNCHANGED <<pc, work, waives>>
        /\ queue' = [queue EXCEPT ![k] = @ \ {x}]
    BY <1>23 DEF UnblockedFails
  <2>1. \A j \in Worker : j # k => Untouched(j)
    BY <1>Workers, <2>0 DEF Untouched
  <2>2. GateAlone' /\ AsAgreed'
    <3>1. pc[k] \in GatePc /\ UNCHANGED <<phase, at, deps>>
      BY <1>23 DEF UnblockedFails, GatePc, states
    <3> QED
      BY <1>7, <1>8, <2>1, <3>1
  <2>3. WorkerAt(k)'
    <3>1. pc'[k] = "cascade" /\ waives'[k] \subseteq waives[k]
      BY <2>0
    <3> QED
      BY <3>1 DEF TurnInv, WorkerAt
  <2>4. QueueMet' /\ AppliedExecuted' /\ WaitsHold'
    <3>1. \A j \in Worker : pc[j] # "park" /\ (j # k => queue'[j] = {})
      BY <2>1, <1>23 DEF UnblockedFails, TurnInv, GateAlone, GatePc, WorkerAt, Untouched
    <3>2. queue'[k] = queue[k] \ {x} /\ (\A y \in Txn : y # x => parked'[y] = parked[y]) /\ UNCHANGED <<waitingOn, applied>>
      BY <1>1, <1>23 DEF TypeOK, UnblockedFails, graph
    <3>3. waitingOn[x] = {}
      BY <1>23 DEF UnblockedFails, TurnInv, QueueMet
    <3>4. \A j \in Worker : queue'[j] \subseteq queue[j] /\ x \notin queue'[j]
      BY <3>1, <3>2
    <3>5. \A y \in Txn : parked[y] # 0 =>
             parked'[y] # 0 \/ (waitingOn[y] = {} /\ \A j \in Worker : y \notin queue'[j])
      BY <3>2, <3>3, <3>4
    <3> QED
      BY <1>9, <3>1, <3>2, <3>4, <3>5
  <2> QED
    BY <1>6, <2>1, <2>2, <2>3, <2>4
<1>24. ASSUME NEW k \in Worker, NEW x \in Txn, NEW d \in Txn, Waive(k, x, d) PROVE Rest'
  <2>0. /\ pc[k] = "cascade" /\ UNCHANGED <<pc, work, applied, parked>>
        /\ waitingOn' = [waitingOn EXCEPT ![x] = @ \ {d}] /\ waives' = [waives EXCEPT ![k] = @ \ {<<x, d>>}]
        /\ queue' = [queue EXCEPT ![k] = IF waitingOn[x] = {d} THEN {x} ELSE {}]
    BY <1>24 DEF Waive
  <2>1. \A j \in Worker : j # k => Untouched(j)
    BY <1>Workers, <2>0 DEF Untouched
  <2>2. GateAlone' /\ AsAgreed'
    <3>1. pc[k] \in GatePc /\ UNCHANGED <<phase, at, deps>>
      BY <1>24 DEF Waive, GatePc, states
    <3> QED
      BY <1>7, <1>8, <2>1, <3>1
  <2>3. WorkerAt(k)'
    <3>1. pc'[k] = "cascade" /\ waives'[k] \subseteq waives[k]
      BY <1>Workers, <2>0
    <3> QED
      BY <3>1 DEF TurnInv, WorkerAt
  <2>4. /\ waitingOn'[x] = waitingOn[x] \ {d} /\ \A y \in Txn : y # x => waitingOn'[y] = waitingOn[y]
        /\ queue'[k] = IF waitingOn[x] = {d} THEN {x} ELSE {}
        /\ UNCHANGED <<applied, parked>>
    BY SMT, <1>Workers, <1>Waiters, <2>0
  <2>5. d \notin Before(x)
    BY <1>24 DEF Waive, TurnInv, WorkerAt
  <2>6. \A j \in Worker : pc[j] # "park" /\ (j # k => queue'[j] = {})
    BY <2>1, <1>24 DEF Waive, TurnInv, GateAlone, GatePc, WorkerAt, Untouched
  <2>7. \A y \in Txn : waitingOn[y] # {} =>
           (\A e \in Before(y) : e \in waitingOn[y] \/ Executed(e)) /\ parked[y] # 0
    BY <2>6 DEF TurnInv, WaitsHold
  <2>8. QueueMet' /\ AppliedExecuted'
    <3>1. waitingOn[x] = {d} => Met(x) /\ parked[x] # 0 /\ waitingOn'[x] = {}
      BY <2>4, <2>5, <2>7 DEF Met
    <3>2. QueueMet'
      BY <1>5, <2>4, <2>6, <3>1 DEF QueueMet
    <3> QED
      BY <1>1, <1>2, <2>4, <3>2 DEF TurnInv, AppliedExecuted, TypeOK
  <2>9. WaitsHold'
    <3> SUFFICES ASSUME NEW y \in Txn, waitingOn'[y] # {}
                 PROVE  (\A e \in Before(y) : e \in waitingOn'[y] \/ Executed(e)') /\ parked'[y] # 0
      BY DEF WaitsHold
    <3>1. waitingOn[y] # {} /\ waitingOn[y] \ {d} \subseteq waitingOn'[y] /\ (y # x => waitingOn'[y] = waitingOn[y])
      BY <2>4
    <3>2. \A e \in Before(y) : e \in waitingOn'[y] \/ Executed(e)'
      BY <1>2, <1>3, <2>5, <2>7, <3>1
    <3> QED
      BY <2>4, <2>7, <3>1, <3>2
  <2> QED
    BY <1>6, <2>1, <2>2, <2>3, <2>8, <2>9
<1>25. ASSUME NEW k \in Task, LeaveGate(k) PROVE Rest'
  <2>1. \A j \in Worker : j # k => Untouched(j)
    BY <1>1, <1>4, <1>25 DEF TypeOK, LeaveGate, Goto, Untouched
  <2>2. GateAlone' /\ AsAgreed'
    <3>1. pc'[k] \notin GatePc /\ UNCHANGED <<phase, at, deps>>
      BY <1>1, <1>4, <1>25 DEF TypeOK, LeaveGate, Goto, GatePc, states
    <3> QED
      BY <1>4, <1>7, <1>8, <2>1, <3>1
  <2>3. WorkerAt(k)'
    <3>1. pc'[k] = "persisted" /\ queue'[k] = {} /\ waives'[k] = {}
      BY <1>1, <1>4, <1>25 DEF TypeOK, LeaveGate, CascadeOver, Goto, TurnInv, WorkerAt
    <3> QED
      BY <3>1 DEF WorkerAt
  <2>4. QueueMet' /\ AppliedExecuted' /\ WaitsHold'
    <3>1. UNCHANGED <<waitingOn, applied, queue, parked>> /\ pc[k] # "park"
      BY <1>25 DEF LeaveGate, CascadeOver, Goto, graph
    <3>2. \A j \in Worker : pc[j] = "park" => pc'[j] = "park" /\ work'[j] = work[j]
      BY <2>1, <3>1 DEF Untouched
    <3> QED
      BY <1>9, <3>1, <3>2
  <2> QED
    BY <1>6, <2>1, <2>2, <2>3, <2>4
<1>26. ASSUME NEW k \in Task, FinishApply(k) PROVE Rest'
  <2>1. \A j \in Worker : j # k => Untouched(j)
    BY <1>1, <1>4, <1>26 DEF TypeOK, FinishApply, Leave, Untouched
  <2>2. GateAlone' /\ AsAgreed'
    <3>1. pc'[k] \notin GatePc
      BY <1>1, <1>4, <1>26 DEF TypeOK, FinishApply, Leave, GatePc
    <3>2. AsAgreed'
      <4>1. (\A y \in Txn : phase'[y] = "Committed" => phase[y] = "Committed") /\ UNCHANGED <<at, deps>>
        BY <1>1, <1>26 DEF TypeOK, FinishApply, Bookkeep
      <4> QED
        BY <1>2, <1>3, <4>1 DEF TurnInv, AsAgreed
    <3> QED
      BY <1>4, <1>7, <2>1, <3>1, <3>2
  <2>3. WorkerAt(k)'
    <3>1. pc'[k] = "idle" /\ queue'[k] = {} /\ waives'[k] = {}
      BY <1>1, <1>4, <1>26 DEF TypeOK, FinishApply, Leave, TurnInv, WorkerAt
    <3> QED
      BY <3>1 DEF WorkerAt
  <2>4. QueueMet' /\ AppliedExecuted' /\ WaitsHold'
    <3>1. UNCHANGED <<waitingOn, applied, queue, parked>> /\ pc[k] # "park"
      BY <1>26 DEF FinishApply, Leave, graph
    <3>2. \A j \in Worker : pc[j] = "park" => pc'[j] = "park" /\ work'[j] = work[j]
      BY <2>1, <3>1 DEF Untouched
    <3> QED
      BY <1>9, <3>1, <3>2
  <2> QED
    BY <1>6, <2>1, <2>2, <2>3, <2>4
<1>27. ASSUME HandlerDone PROVE Rest'
  <2>1. \A j \in Worker : j # Handler => Untouched(j)
    BY <1>1, <1>4, <1>27 DEF TypeOK, HandlerDone, Leave, Untouched
  <2>2. GateAlone' /\ AsAgreed'
    <3>1. pc'[Handler] \notin GatePc
      BY <1>1, <1>4, <1>27 DEF TypeOK, HandlerDone, Leave, GatePc
    <3>2. AsAgreed'
      <4>1. (\A y \in Txn : phase'[y] = "Committed" => phase[y] = "Committed") /\ UNCHANGED <<at, deps>>
        BY <1>1, <1>27 DEF TypeOK, HandlerDone, Bookkeep
      <4> QED
        BY <1>2, <1>3, <4>1 DEF TurnInv, AsAgreed
    <3> QED
      BY <1>4, <1>7, <2>1, <3>1, <3>2
  <2>3. WorkerAt(Handler)'
    <3>1. pc'[Handler] = "idle" /\ queue'[Handler] = {} /\ waives'[Handler] = {}
      BY <1>1, <1>4, <1>27 DEF TypeOK, HandlerDone, CascadeOver, Leave, TurnInv, WorkerAt
    <3> QED
      BY <3>1 DEF WorkerAt
  <2>4. QueueMet' /\ AppliedExecuted' /\ WaitsHold'
    <3>1. UNCHANGED <<waitingOn, applied, queue, parked>> /\ pc[Handler] # "park"
      BY <1>27 DEF HandlerDone, CascadeOver, Leave, graph
    <3>2. \A j \in Worker : pc[j] = "park" => pc'[j] = "park" /\ work'[j] = work[j]
      BY <2>1, <3>1 DEF Untouched
    <3> QED
      BY <1>9, <3>1, <3>2
  <2> QED
    BY <1>6, <2>1, <2>2, <2>3, <2>4
<1>28. ASSUME NEW k \in Task, FinishParked(k) PROVE Rest'
  <2>1. \A j \in Worker : j # k /\ j # Handler => Untouched(j)
    BY <1>1, <1>28 DEF TypeOK, FinishParked, Untouched
  <2>2. pc'[k] = "idle" /\ pc'[Handler] = "cascade" /\ UNCHANGED <<phase, at, deps, waitingOn, applied, queue, parked>>
    BY <1>1, <1>4, <1>28 DEF TypeOK, FinishParked, states, graph
  <2>3. GateAlone' /\ AsAgreed'
    BY <1>8, <2>1, <2>2, <1>28 DEF FinishParked, GateFree, GateAlone, GatePc, Untouched
  <2>4. waives'[k] = {} /\ queue'[k] = {} /\ pc[k] = "parked"
    <3>1. pc[k] = "parked" /\ k # Handler /\ k \in Worker /\ UNCHANGED queue
      BY <1>4, <1>28 DEF FinishParked
    <3>2. queue[k] = {} /\ waives[k] = {}
      BY <3>1 DEF TurnInv, WorkerAt
    <3> QED
      BY <1>1, <3>1, <3>2, <1>28 DEF TypeOK, FinishParked
  <2>5. WorkerAt(k)'
    BY <2>2, <2>4 DEF WorkerAt
  <2>6. WorkerAt(Handler)'
    <3> SUFFICES ASSUME NEW y \in Txn, NEW d \in Txn, <<y, d>> \in waives'[Handler] PROVE d \notin Before(y)
      BY <2>2 DEF WorkerAt
    <3>1. phase[y] = "Committed" /\ ExecutesAfter(d, at[y])
      <4>1. waives'[Handler] = UNION {LaterWaits(z) : z \in work[k].txn}
        BY <1>4, <1>Workers, <1>28 DEF FinishParked
      <4>2. PICK z \in work[k].txn : <<y, d>> \in LaterWaits(z)
        BY <4>1
      <4> QED
        BY <4>2 DEF LaterWaits
    <3>2. AgreedT[d] > AgreedT[y]
      BY <3>1 DEF ExecutesAfter, TurnInv, AsAgreed
    <3> QED
      BY SMT, <3>2, TxnAssumption DEF Before
  <2>7. QueueMet' /\ AppliedExecuted' /\ WaitsHold'
    <3>1. \A j \in Worker : pc[j] # "park"
      BY <1>28 DEF FinishParked, GateFree, GatePc
    <3> QED
      BY <1>9, <2>2, <3>1
  <2> QED
    BY <1>6, <2>1, <2>3, <2>5, <2>6, <2>7
<1>29. ASSUME NEW x \in Txn, FinalizeNoWrite(x) PROVE Rest'
  <2>1. \A j \in Worker : j # Handler => Untouched(j)
    BY <1>1, <1>29 DEF TypeOK, FinalizeNoWrite, HandlerCascades, Untouched
  <2>2. GateAlone' /\ AsAgreed'
    <3>1. (\A y \in Txn : phase'[y] = "Committed" => phase[y] = "Committed") /\ UNCHANGED <<at, deps>>
      <4>1. (phase' = phase \/ phase' = [phase EXCEPT ![x] = "Applied"]) /\ UNCHANGED <<at, deps>>
        BY <1>29 DEF FinalizeNoWrite
      <4> QED
        BY <1>Waiters, <4>1
    <3>2. AsAgreed'
      BY <1>2, <1>3, <3>1 DEF TurnInv, AsAgreed
    <3> QED
      BY <1>4, <1>7, <2>1, <3>2, <1>29 DEF FinalizeNoWrite
  <2>3. pc'[Handler] = "cascade" /\ waives'[Handler] = {} /\ queue'[Handler] = Woken(x)
    BY <1>1, <1>4, <1>29 DEF TypeOK, FinalizeNoWrite, HandlerCascades
  <2>4. QueueMet' /\ AppliedExecuted' /\ WaitsHold'
    <3>1. \A j \in Worker : pc[j] # "park" /\ (j # Handler => queue'[j] = {})
      BY <2>1, <1>29 DEF FinalizeNoWrite, TurnInv, GateFree, GatePc, WorkerAt, Untouched
    <3>2. applied' = applied \cup {x} /\ waitingOn' = Unwaited(x) /\ UNCHANGED parked
      BY <1>29 DEF FinalizeNoWrite
    <3>3. Executed(x)'
      <4>1. tomb \in [Txn -> {"none", "nowrite", "applied"}]
        BY <1>1 DEF TypeOK
      <4>2. CASE phase[x] = "none"
        <5>1. tomb' = [tomb EXCEPT ![x] = IF @ = "none" THEN "nowrite" ELSE @]
          BY <1>29, <4>2 DEF FinalizeNoWrite
        <5>2. tomb'[x] # "none"
          BY <4>1, <5>1
        <5> QED
          BY <5>2 DEF Executed
      <4>3. CASE phase[x] # "none"
        <5>1. phase' = [phase EXCEPT ![x] = "Applied"]
          BY <1>29, <4>3 DEF FinalizeNoWrite
        <5>2. phase'[x] = "Applied"
          BY <1>Waiters, <5>1
        <5> QED
          BY <5>2 DEF Executed
      <4> QED
        BY <4>2, <4>3
    <3> QED
      BY <1>4, <1>10, <2>3, <3>1, <3>2, <3>3
  <2> QED
    BY <1>6, <2>1, <2>2, <2>3, <2>4 DEF WorkerAt
<1>30. ASSUME PruneApplied PROVE Rest'
  <2>1. \A j \in Worker : Untouched(j)
    BY <1>30 DEF PruneApplied, inside, Untouched
  <2>2. GateAlone'
    BY <1>4, <1>7, <2>1 DEF Untouched
  <2>3. AsAgreed'
    BY <1>2, <1>3, <1>30 DEF PruneApplied, TurnInv, AsAgreed
  <2>4. QueueMet' /\ AppliedExecuted' /\ WaitsHold'
    BY <1>9, <1>30 DEF PruneApplied, inside
  <2> QED
    BY <1>6, <2>1, <2>2, <2>3, <2>4
<1>31. ASSUME UNCHANGED vars PROVE Rest'
  <2>1. \A j \in Worker : Untouched(j)
    BY <1>31 DEF vars, Untouched
  <2>2. GateAlone' /\ AsAgreed'
    BY <1>4, <1>7, <1>8, <2>1, <1>31 DEF vars, Untouched
  <2>3. QueueMet' /\ AppliedExecuted' /\ WaitsHold'
    BY <1>9, <1>31 DEF vars
  <2> QED
    BY <1>6, <2>1, <2>2, <2>3
<1>32. ~(ReclaimSelect \/ ReclaimClear \/ ReclaimDrop) /\ ~\E x \in Txn : CommitFails(x)
  BY DEF ReclaimSelect, ReclaimClear, ReclaimDrop, CommitFails, TurnInv, NoSweep
<1>33. Rest'
  BY <1>11, <1>12, <1>14, <1>15, <1>16, <1>17, <1>18, <1>19, <1>20, <1>21, <1>22, <1>23, <1>24, <1>25, <1>26, <1>27, <1>28, <1>29, <1>30, <1>31, <1>32 DEF Next, Inside
<1>34. NoSweep'
  <2>1. UNCHANGED reclaim
    BY <1>32 DEF Next, Inside, PreAccept, Commit, BeginApply, LocalApply, RegisterWaits, Park, ParkFails, Persist,
              PersistFails, ApplyUnblocked, MarkUnblocked, UnblockedFails, Waive, LeaveGate, FinishApply,
              FinishParked, HandlerDone, FinalizeNoWrite, PruneApplied, vars
  <2> QED
    BY <2>1 DEF TurnInv, NoSweep
<1> QED
  BY <1>33, <1>34 DEF TurnInv

\* Dependency order at the replica (state_machine.rs ordered_deps, dep_wait.rs): a
\* transaction's rows become durable only when every dependency that executes before
\* it has been executed here.  The maintenance loop may prune, storage may fail and a
\* Commit may come late; a reclaimed park, an Apply before its Commit or a Commit
\* before its dependencies are known would each break it.
THEOREM AppliesInOrder ==
  ASSUME Env \subseteq {"prune", "fault", "late"}
  PROVE  Spec => ApplyOrder
<1>1. Init => TypeOK /\ TurnInv
  <2> SUFFICES ASSUME Init PROVE TypeOK /\ TurnInv
    OBVIOUS
  <2>1. \A k \in Worker : pc[k] = "idle" /\ queue[k] = {} /\ waives[k] = {}
    BY DEF Init
  <2>2. \A x \in Txn : waitingOn[x] = {} /\ phase[x] = "none"
    BY DEF Init
  <2>3. applied = {} /\ NoSweep
    BY DEF Init, NoSweep, NoReclaim
  <2>4. \A k \in Worker : WorkerAt(k)
    BY <2>1 DEF WorkerAt
  <2>5. GateAlone /\ AsAgreed /\ QueueMet
    BY <2>1, <2>2 DEF GateAlone, GatePc, AsAgreed, QueueMet
  <2> QED
    BY InitTyped, <2>2, <2>3, <2>4, <2>5 DEF TurnInv, AppliedExecuted, WaitsHold
<1>2. TypeOK /\ TurnInv /\ [Next]_vars => (TypeOK /\ TurnInv)'
  BY TypeInductive, TurnInductive
<1> DEFINE Ordered == \A x \in Txn : rows[x] = {} /\ rows'[x] # {} =>
                        \A d \in AgreedDeps[x] : AgreedT[d] < AgreedT[x] => Executed(d)
<1>3. TypeOK /\ TurnInv /\ [Next]_vars => [Ordered]_vars
  <2> SUFFICES ASSUME TypeOK, TurnInv, [Next]_vars, NEW x \in Txn, rows[x] = {}, rows'[x] # {}
               PROVE  Met(x)
    BY DEF Met, Before
  <2>1. ASSUME NEW y \in Txn, NEW t \in Nat, Persisted(y, t) PROVE y = x
    BY <2>1 DEF TypeOK, Persisted
  <2>2. ASSUME NEW k \in Worker, Persist(k) PROVE Met(x)
    <3>1. PICK y \in work[k].txn : Persisted(y, work[k].t) /\ pc[k] = "persist"
      BY <2>2 DEF Persist
    <3>2. y \in Txn /\ work[k].t \in Nat
      BY DEF TypeOK
    <3> QED
      BY <2>1, <3>1, <3>2 DEF TurnInv, WorkerAt
  <2>3. ASSUME NEW k \in Worker, NEW y \in Txn, ApplyUnblocked(k, y) PROVE Met(x)
    <3>1. Persisted(y, parked[y]) /\ parked[y] \in Nat /\ y \in queue[k]
      BY <2>3 DEF ApplyUnblocked, TypeOK
    <3> QED
      BY <2>1, <3>1 DEF TurnInv, QueueMet
  <2>4. ASSUME UNCHANGED rows PROVE FALSE
    BY <2>4
  <2> QED
    BY <2>2, <2>3, <2>4 DEF Next, Inside, PreAccept, Commit, CommitFails, BeginApply, LocalApply, RegisterWaits,
         Park, ParkFails, PersistFails, MarkUnblocked, UnblockedFails, Waive, LeaveGate, FinishApply, FinishParked,
         HandlerDone, FinalizeNoWrite, PruneApplied, ReclaimSelect, ReclaimClear, ReclaimDrop, vars
<1> QED
  BY <1>1, <1>2, <1>3, PTL DEF Spec, ApplyOrder
=============================================================================
