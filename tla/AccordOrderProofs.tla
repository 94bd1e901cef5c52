-------------------------- MODULE AccordOrderProofs --------------------------
EXTENDS AccordOrderInvariants, AccordTxnProofs

\* Most steps are first-order: Zenon proves them. A step that needs arithmetic, or
\* what an update does to a function, cites SMTT or Z3.
USE ZenonT(30)

------------------------------------------------------------------------------
\* Execution timestamps differ

\* t0 has sequence number 0 and tells its transaction.
LEMMA T0Facts ==
    ASSUME TypeOK
    PROVE  /\ \A x \in Txn : SeqOf(T0(x)) = 0
           /\ \A x, y \in Txn : T0(x) = T0(y) => x = y
           /\ \A x, y \in Txn : x < y => T0(x) < T0(y)
<1>1. ASSUME NEW x \in Txn
      PROVE  /\ x \in Nat /\ Home[x] \in Nat /\ Home[x] < D /\ T0(x) = D * (D * x) + Home[x]
             /\ T0(x) \div D = D * x /\ SeqOf(T0(x)) = 0
  <2>1. x \in 1 .. D - 1 /\ Home[x] \in 0 .. D - 1 /\ T0(x) = D * (D * x) + Home[x] /\ D \in Nat
    BY SetupFacts, DInt
  <2>2. x \in Nat /\ Home[x] \in Nat /\ Home[x] < D
    BY SMTT(30), <2>1
  <2>3. (D * (D * x) + Home[x]) \div D = D * x
    BY <2>2, Z3 DEF D
  <2>4. (D * x) % D = 0
    BY <2>2, Z3 DEF D
  <2> QED
    BY <2>1, <2>2, <2>3, <2>4 DEF SeqOf
<1>2. ASSUME NEW x \in Txn, NEW y \in Txn, T0(x) = T0(y) PROVE x = y
  <2>1. D * x = D * y /\ x \in Nat /\ y \in Nat
    BY <1>1, <1>2
  <2> QED
    BY <2>1, Z3 DEF D
<1>3. ASSUME NEW x \in Txn, NEW y \in Txn, x < y PROVE T0(x) < T0(y)
  <2>1. /\ x \in Nat /\ y \in Nat /\ Home[x] \in Nat /\ Home[y] \in Nat /\ Home[x] < D
    BY <1>1
  <2>2. D * (D * x) + Home[x] < D * (D * y) + Home[y]
    BY <1>3, <2>1, Z3 DEF D
  <2> QED
    BY <1>1, <2>2
<1> QED
  BY <1>1, <1>2, <1>3

LEMMA StampInit == Init => StampInv
<1>1. ASSUME Init PROVE /\ \A x \in Txn : Owned(x)
                        /\ \A r \in Replica : OwnStamps(r)
  BY <1>1 DEF Init, Owned, OwnStamps
<1> QED
  BY <1>1, ProposedInit DEF StampInv

LEMMA StampStep == "prune" \notin Env /\ StampInv /\ SeqFits /\ [Next]_vars => StampInv'
\* Where the new execution timestamp comes from, in the state before the step.
<1>Origin.
      ASSUME ProposedInv, NEW y \in Txn, Owned(y), CoordStays(y) \/ CoordMoves(y),
             sent'[y] \cap {"Accept", "Commit"} # {}
      PROVE  \/ ct'[y] = T0(y)
             \/ \E r \in Replica : /\ ct'[y] % D = r /\ SeqOf(ct'[y]) # 0
                                   /\ y \in index[r] /\ tt[r][y] = ct'[y]
  <2> USE <1>Origin
  <2>1. TypeOK /\ Rounds(y)
    BY DEF ProposedInv, HoldInv, RoundInv
  <2>2. CASE ct'[y] = ct[y] /\ sent[y] \cap {"Accept", "Commit"} # {}
    BY <2>2 DEF Owned
  <2>3. CASE pc[y] = "preaccept" /\ \E Q \in NeedAcceptOf(y) : ct'[y] = MergedT(y, Q)
    <3>1. PICK Q \in NeedAcceptOf(y) : ct'[y] = MergedT(y, Q)
      BY <2>3
    <3>2. Q \in SUBSET Voters(y) /\ Q # {}
      BY <2>1, SlowFacts
    <3>3. PICK r \in Q : MergedT(y, Q) = voteT[y][r]
      BY <2>1, <3>2, MergedFacts
    <3>4. r \in Replica /\ voteT[y][r] # 0
      BY <3>2, <3>3 DEF Voters
    <3>5. Proposed(r, y)
      BY <3>4 DEF ProposedInv
    <3> QED
      BY <3>1, <3>3, <3>4, <3>5 DEF Proposed
  <2>4. CASE \E Q \in FastPathOf(y) : ct'[y] = T0(y)
    BY <2>4
  <2> QED
    BY <2>1, <2>2, <2>3, <2>4 DEF CoordStays, CoordMoves, Rounds
\* A transaction's timestamp on a replica changes only by its registration, or to a
\* timestamp that is not the replica's own.
<1>StampMoves.
      ASSUME ProposedInv, "prune" \notin Env, NEW q \in Replica, NEW y \in Txn, Owned(y), Effects(q, y),
             y \in index'[q]
      PROVE  \/ y \in index[q] /\ tt'[q][y] = tt[q][y]
             \/ RegisteredAt(q, y)
             \/ tt'[q][y] % D # q \/ SeqOf(tt'[q][y]) = 0
  <2> USE <1>StampMoves
  <2>1. TypeOK /\ Justified(q, y) /\ (CoordStays(y) \/ CoordMoves(y))
    BY DEF ProposedInv, HoldInv, RoundInv, Effects
  <2>2. CASE Same(q, y) \/ RegisteredAt(q, y) \/ AppliedAt(q, y) \/ FinalizedAt(q, y)
    BY <2>2 DEF Same, AppliedAt, FinalizedAt
  <2>3. CASE CreatedAt(q, y)
    BY <2>1, <2>3, T0Facts DEF CreatedAt, Justified
  <2>4. CASE AcceptedAt(q, y) \/ CommittedAt(q, y)
    <3>1. tt'[q][y] = ct'[y] /\ sent'[y] \cap {"Accept", "Commit"} # {}
      BY <2>4 DEF AcceptedAt, CommittedAt
    <3>2. \/ ct'[y] = T0(y)
          \/ \E r \in Replica : /\ ct'[y] % D = r /\ SeqOf(ct'[y]) # 0
                                /\ y \in index[r] /\ tt[r][y] = ct'[y]
      BY <2>1, <3>1, <1>Origin
    <3> QED
      BY <2>1, <3>1, <3>2, T0Facts
  <2> QED
    BY <2>2, <2>3, <2>4 DEF Effects, PrunedAt
<1>OwnedStep.
      ASSUME ProposedInv, "prune" \notin Env, NEW y \in Txn, Owned(y), Replica' = Replica, Home' = Home,
             \A q \in Replica : Effects(q, y)
      PROVE  Owned(y)'
  <2> USE <1>OwnedStep
  <2>1. TypeOK /\ T0(y)' = T0(y)
    BY DEF ProposedInv, HoldInv, RoundInv, T0, Stamp
  <2>2. SUFFICES ASSUME sent'[y] \cap {"Accept", "Commit"} # {}, ct'[y] # T0(y)
                 PROVE  \E r \in Replica : /\ ct'[y] % D = r /\ SeqOf(ct'[y]) # 0
                                           /\ y \in index'[r] /\ tt'[r][y] = ct'[y]
    BY <2>1 DEF Owned, SeqOf
  <2>3. CoordStays(y) \/ CoordMoves(y)
    <3>1. PICK q \in Replica : TRUE
      <4>1. Replica # {}
        BY SMTT(30), <2>1, SetupFacts, FS_EmptySet
      <4> QED
        BY <4>1
    <3> QED
      BY <3>1 DEF Effects
  <2>4. PICK r \in Replica : /\ ct'[y] % D = r /\ SeqOf(ct'[y]) # 0
                             /\ y \in index[r] /\ tt[r][y] = ct'[y]
    BY <2>2, <2>3, <1>Origin
  <2>5. phase[r][y] # "none"
    BY <2>4 DEF ProposedInv, HoldInv, Justified
  <2>6. y \in index'[r] /\ tt'[r][y] = ct'[y]
    <3>1. Effects(r, y)
      BY <2>4
    <3> QED
      BY <2>4, <2>5, <3>1 DEF Effects, Same, RegisteredAt, CreatedAt, AcceptedAt, CommittedAt, AppliedAt,
                              FinalizedAt, PrunedAt
  <2> QED
    BY <2>4, <2>6
<1>OneRegisters.
      ASSUME RoundInv, Next, NEW q \in Replica, NEW y \in Txn, NEW z \in Txn,
             RegisteredAt(q, y), RegisteredAt(q, z)
      PROVE  y = z
  <2> USE <1>OneRegisters
  <2>1. PICK x \in Txn : \A w \in Txn : w # x => got'[w] = got[w] /\ pc'[w] = pc[w]
    BY OneActs
  <2> QED
    BY SMTT(30), <2>1 DEF RegisteredAt
<1>OwnStampsStep.
      ASSUME StampInv, SeqFits, Next, "prune" \notin Env, NEW q \in Replica, TypeOK', Replica' = Replica,
             \A y \in Txn : Effects(q, y)
      PROVE  OwnStamps(q)'
  <2> USE <1>OwnStampsStep
  <2>1. TypeOK /\ RoundInv /\ ProposedInv
    BY DEF StampInv, ProposedInv, HoldInv, RoundInv
  <2>2. index'[q] \subseteq Txn /\ index[q] \subseteq Txn
    BY <2>1, Types DEF TypeOK
  <2> DEFINE Moved(y) == \/ y \in index[q] /\ tt'[q][y] = tt[q][y]
                         \/ RegisteredAt(q, y)
                         \/ tt'[q][y] % D # q \/ SeqOf(tt'[q][y]) = 0
  <2>3. ASSUME NEW y \in index'[q] PROVE Moved(y)
    BY <2>1, <2>2, <2>3, <1>StampMoves DEF StampInv
  <2>4. ASSUME NEW y \in index'[q], NEW z \in index'[q], RegisteredAt(q, y),
               z \in index[q], tt'[q][z] = tt[q][z]
        PROVE  tt'[q][y] # tt'[q][z]
    <3>1. tt'[q][y] = ProposedT(q, y) /\ y \in Txn
      BY <2>2, <2>4 DEF RegisteredAt
    <3>2. ProposedT(q, y) > MaxConflict(q) /\ ProposedT(q, y) \in Nat
      BY <2>1, <3>1, ProposalFacts DEF SeqFits
    <3>3. MaxConflict(q) >= tt[q][z] /\ MaxConflict(q) \in Nat /\ tt[q][z] \in Nat
      BY <2>1, <2>2, <2>4, MaxConflictFacts, Types
    <3> QED
      BY SMTT(30), <2>4, <3>1, <3>2, <3>3
  <2>5. ASSUME NEW y \in index'[q], NEW z \in index'[q], y # z, tt'[q][y] = tt'[q][z]
        PROVE  tt'[q][y] % D # q \/ SeqOf(tt'[q][y]) = 0
    <3>1. Moved(y) /\ Moved(z) /\ y \in Txn /\ z \in Txn
      BY <2>2, <2>3
    <3>2. CASE y \in index[q] /\ tt'[q][y] = tt[q][y] /\ z \in index[q] /\ tt'[q][z] = tt[q][z]
      BY <2>5, <3>2 DEF StampInv, OwnStamps
    <3>3. CASE RegisteredAt(q, y) /\ RegisteredAt(q, z)
      BY <2>1, <2>5, <3>1, <3>3, <1>OneRegisters
    <3> QED
      BY <2>4, <2>5, <3>1, <3>2, <3>3
  <2> QED
    BY <2>5 DEF OwnStamps, SeqOf
<1>1. ASSUME "prune" \notin Env, StampInv, SeqFits, Next PROVE StampInv'
  <2>1. ProposedInv' /\ RoundInv /\ ProposedInv
    BY <1>1, ProposedNext DEF StampInv, ProposedInv, HoldInv
  <2>2. TypeOK' /\ Replica' = Replica /\ Home' = Home /\ \A q \in Replica, y \in Txn : Effects(q, y)
    BY <1>1, <2>1, StepEffects
  <2>3. \A y \in Txn : Owned(y)'
    BY <1>1, <2>1, <2>2, <1>OwnedStep DEF StampInv
  <2>4. \A q \in Replica : OwnStamps(q)'
    BY <1>1, <2>2, <1>OwnStampsStep
  <2> QED
    BY <2>1, <2>2, <2>3, <2>4 DEF StampInv
<1>2. ASSUME StampInv, UNCHANGED vars PROVE StampInv'
  <2>1. ProposedInv'
    BY <1>2, ProposedNext DEF StampInv
  <2>2. UNCHANGED <<Replica, Home, sent, ct, tt, index>>
    BY <1>2 DEF vars
  <2>3. /\ \A x \in Txn : Owned(x)'
        /\ \A r \in Replica : OwnStamps(r)'
    BY <1>2, <2>2 DEF StampInv, Owned, OwnStamps, T0, Stamp, SeqOf
  <2> QED
    BY <2>1, <2>2, <2>3 DEF StampInv
<1> QED
  BY <1>1, <1>2

LEMMA StampsApart == StampInv => Apart
<1> SUFFICES ASSUME StampInv, NEW x \in Txn, NEW y \in Txn, ct[x] = ct[y], x # y,
                    sent[x] \cap {"Accept", "Commit"} # {}, sent[y] \cap {"Accept", "Commit"} # {}
             PROVE  FALSE
  BY DEF Apart
<1>1. TypeOK /\ Owned(x) /\ Owned(y)
  BY DEF StampInv, ProposedInv, HoldInv, RoundInv
<1>2. ct[x] # T0(x) /\ ct[y] # T0(y)
  BY <1>1, T0Facts DEF Owned
<1>3. PICK r \in Replica : /\ ct[x] % D = r /\ SeqOf(ct[x]) # 0
                           /\ x \in index[r] /\ tt[r][x] = ct[x]
  BY <1>1, <1>2 DEF Owned
<1>4. y \in index[r] /\ tt[r][y] = ct[y]
  BY <1>1, <1>2, <1>3 DEF Owned
<1>5. OwnStamps(r)
  BY <1>3 DEF StampInv
<1> QED
  BY <1>3, <1>4, <1>5 DEF OwnStamps

\* As long as no sequence number saturates and nothing is pruned, two decided
\* transactions on the key never share an execution timestamp: bump_past carries
\* the proposing replica's number, and that replica remembers what it gave out.
THEOREM TimesDiffer == "prune" \notin Env => (Spec /\ []SeqFits => []ExecutionTimesDiffer)
<1> SUFFICES ASSUME "prune" \notin Env PROVE Spec /\ []SeqFits => []ExecutionTimesDiffer
  OBVIOUS
<1>1. StampInv /\ SeqFits /\ [Next]_vars => StampInv'
  BY StampStep
<1>2. StampInv => ExecutionTimesDiffer
  BY StampsApart DEF Apart, ExecutionTimesDiffer, Decided
<1> QED
  BY <1>1, <1>2, StampInit, PTL DEF Spec

------------------------------------------------------------------------------
\* Real-time order

LEMMA OrderInit == Init => OrderInv
<1> SUFFICES ASSUME Init PROVE OrderInv
  OBVIOUS
<1>1. TypeOK /\ ProposedInv
  BY ProposedInit DEF ProposedInv, HoldInv, RoundInv
<1>2. \A r \in Replica, x \in Txn : Voted(r, x)
  BY DEF Init, Voted
<1>3. ASSUME NEW x \in Txn PROVE Spread(x) /\ Follows(x)
  <2>1. earlier[x] = {} /\ pc[x] = (IF x \in Prior THEN "ok" ELSE "idle")
    BY DEF Init
  <2>2. ASSUME x \in Prior PROVE Cardinality(Marked(x)) >= SlowQuorum
    <3> DEFINE f == [z \in Prior |-> T0(z)]
               m == Max({0} \cup {f[z] : z \in Prior})
    <3>1. ct[x] = T0(x) /\ f[x] = T0(x) /\ \A r \in Replica : hwm[r] = m
      <4>1. {f[z] : z \in Prior} = {T0(z) : z \in Prior}
        OBVIOUS
      <4> QED
        BY <2>2, <4>1 DEF Init
    <3>2. f \in [Prior -> Nat]
      BY <1>1, SetupFacts, Statements
    <3>3. m >= f[x] /\ m \in Nat /\ f[x] \in Nat
      <4> HIDE DEF f
      <4> QED
        BY <2>2, <3>2, PriorMax
    <3> HIDE DEF f, m
    <3>4. Marked(x) = Replica
      BY <3>1, <3>3 DEF Marked, Mark
    <3> QED
      BY <1>1, <3>4, QuorumFacts DEF RF
  <2> QED
    BY <2>1, <2>2 DEF Spread, Follows
<1> QED
  BY <1>1, <1>2, <1>3 DEF OrderInv

LEMMA OrderStep == InOrder /\ OrderInv /\ SeqFits /\ [Next]_vars => OrderInv'
<1>SelfVotesFacts.
      ASSUME TypeOK, InOrder, "prune" \in Env
      PROVE  SelfVotes
  <2> USE <1>SelfVotesFacts
  <2> DEFINE n == Cardinality(Replica)
  <2>1. n \in Nat /\ n > 2
    BY SetupFacts DEF TypeOK, InOrder
  <2> HIDE DEF n
  <2>2. (3 * (n - (n \div 2 + 1)) + 1) \div 2 > 0
    BY <2>1, Z3
  <2> QED
    BY <2>1, <2>2, Z3 DEF SelfVotes, FastQuorum, SlowQuorum, RF, n
<1>VotedStep.
      ASSUME ProposedInv, RoundInv', InOrder, NEW q \in Replica, NEW y \in Txn, Voted(q, y), Effects(q, y),
             Replica' = Replica, Home' = Home, \A r \in Replica : GotStep(r, y)
      PROVE  Voted(q, y)'
  <2> USE <1>VotedStep
  <2>1. /\ Rounds(y) /\ Rounds(y)' /\ Proposed(q, y) /\ Justified(q, y)
        /\ CoordStays(y) \/ CoordMoves(y)
        /\ "PreAccept" \in Kind
    BY KindFacts DEF ProposedInv, HoldInv, RoundInv, Effects
  <2>2. \A r \in Replica : <<"PreAccept", r>> \in got[y] => <<"PreAccept", r>> \in got'[y]
    BY <2>1 DEF GotStep
  <2>3. IsReplica(y)' = IsReplica(y) /\ SelfVotes' = SelfVotes
    BY DEF IsReplica, SelfVotes, FastQuorum, SlowQuorum, RF
  <2>4. IsReplica(y) /\ "PreAccept" \in sent'[y] => <<"PreAccept", Home[y]>> \in got'[y]
    BY SMTT(30), <2>1, <2>2 DEF Voted, CoordStays, CoordMoves, IsReplica
  <2>5. ASSUME <<"PreAccept", q>> \notin got'[y] PROVE phase'[q][y] = "none"
    <3>1. phase[q][y] = "none"
      BY <2>2, <2>5 DEF Voted
    <3>2. ASSUME "PreAccept" \in sent'[y], q = Home[y] \/ InTurn(y, q) PROVE FALSE
      BY <2>2, <2>4, <2>5, <3>2 DEF InTurn, InOrder, IsReplica
    <3>3. ~AcceptedAt(q, y) /\ ~CommittedAt(q, y)
      <4>1. "Accept" \in sent'[y] \/ "Commit" \in sent'[y] => "PreAccept" \in sent'[y]
        BY <2>1 DEF Rounds
      <4> QED
        BY <3>2, <4>1 DEF AcceptedAt, CommittedAt
    <3> QED
      BY <2>5, <3>1, <3>3 DEF Effects, Same, RegisteredAt, CreatedAt, AppliedAt, FinalizedAt, PrunedAt, InOrder
  <2>6. ASSUME pc'[y] \in {"preaccept", "accept", "commit", "read"}, y \in index[q] PROVE y \in index'[q]
    <3>1. "Apply" \notin sent[y] /\ "NoWrite" \notin sent[y] /\ y \notin Prior
      BY <2>1, <2>6 DEF CoordStays, CoordMoves, Rounds
    <3>2. ~PrunedAt(q, y)
      BY <2>1, <3>1 DEF PrunedAt, Justified
    <3> QED
      BY <2>6, <3>2 DEF Effects, Same, RegisteredAt, CreatedAt, AcceptedAt, CommittedAt, AppliedAt, FinalizedAt
  <2>7. ASSUME pc'[y] \in {"preaccept", "accept", "commit", "read"}, <<"PreAccept", q>> \in got'[y],
               q # Home[y] \/ SelfVotes
        PROVE  y \in index'[q]
    <3>1. CASE <<"PreAccept", q>> \in got[y] /\ pc[y] \in {"preaccept", "accept", "commit", "read"}
      BY <2>6, <2>7, <3>1 DEF Voted
    <3>2. CASE <<"PreAccept", q>> \notin got[y]
      <4>1. RegisteredAt(q, y)
        BY <2>7, <3>2 DEF Effects, GotStep, Voted, InOrder
      <4> QED
        BY <4>1 DEF RegisteredAt
    <3>3. <<"PreAccept", q>> \in got[y] => pc[y] \in {"preaccept", "accept", "commit", "read"}
      <4>1. <<"PreAccept", q>> \in got[y] => "PreAccept" \in sent[y]
        BY <2>1 DEF ProposedInv, HoldInv, RoundInv, Broadcasted
      <4> QED
        BY <2>1, <2>7, <4>1 DEF Rounds, CoordStays, CoordMoves
    <3> QED
      BY <3>1, <3>2, <3>3
  <2>8. ASSUME pc'[y] \in {"commit", "read"}, q = Home[y] PROVE y \in index'[q]
    BY <2>1, <2>6, <2>8 DEF Voted, CoordStays, CoordMoves, IsReplica
  <2> QED
    BY <2>3, <2>4, <2>5, <2>7, <2>8 DEF Voted
\* A mark stays once its transaction is decided.
<1>MarkStays.
      ASSUME TypeOK, TypeOK', Replica' = Replica, NEW r \in Replica, NEW y \in Txn, Effects(r, y),
             Mark(r, y), ct'[y] = ct[y]
      PROVE  Mark(r, y)'
  <2> USE <1>MarkStays
  <2>1. hwm[r] \in Nat /\ hwm'[r] >= hwm[r] /\ ct[y] \in Nat
    BY Types DEF Effects
  <2>2. CASE hwm[r] >= ct[y]
    <3>1. hwm'[r] >= ct'[y]
      <4>1. hwm'[r] \in Nat
        BY DEF TypeOK
      <4> QED
        BY SMTT(30), <2>1, <2>2, <4>1
    <3> QED
      BY <3>1 DEF Mark
  <2>3. CASE /\ "prune" \notin Env
             /\ y \in index[r] /\ phase[r][y] \in {"Committed", "Applied"} /\ tt[r][y] = ct[y]
    BY <2>3 DEF Mark, Effects, Same, RegisteredAt, CreatedAt, AcceptedAt, CommittedAt, AppliedAt,
                FinalizedAt, PrunedAt
  <2> QED
    BY <2>2, <2>3 DEF Mark
<1>SpreadStep.
      ASSUME ProposedInv, TypeOK', InOrder, NEW y \in Txn, Spread(y), \A q \in Replica : Voted(q, y) /\ Voted(q, y)',
             Replica' = Replica, Home' = Home, \A q \in Replica : Effects(q, y)
      PROVE  Spread(y)'
  <2> USE <1>SpreadStep
  <2>1. /\ TypeOK /\ Rounds(y) /\ acks[y] \in SUBSET Replica /\ acks'[y] \in SUBSET Replica
        /\ SlowQuorum \in Nat /\ SlowQuorum' = SlowQuorum
        /\ Marked(y) \subseteq Replica /\ Marked(y)' \subseteq Replica
    <3>1. TypeOK /\ Rounds(y)
      BY DEF ProposedInv, HoldInv, RoundInv
    <3>2. acks[y] \in SUBSET Replica /\ acks'[y] \in SUBSET Replica
      BY <3>1 DEF TypeOK
    <3>3. SlowQuorum \in Nat /\ SlowQuorum' = SlowQuorum
      BY <3>1, QuorumFacts DEF SlowQuorum, RF
    <3> QED
      BY <3>1, <3>2, <3>3 DEF Marked
  <2>2. CoordStays(y) \/ CoordMoves(y)
    <3>1. PICK q \in Replica : TRUE
      <4>1. Replica # {}
        BY SMTT(30), <2>1, SetupFacts, FS_EmptySet
      <4> QED
        BY <4>1
    <3> QED
      BY <3>1 DEF Effects
  <2>3. ct'[y] = ct[y] => Marked(y) \subseteq Marked(y)'
    BY <2>1, <1>MarkStays DEF Marked
  <2>4. ASSUME pc'[y] = "commit", NEW q \in acks'[y] PROVE Mark(q, y)'
    <3>1. q \in Replica /\ AckStep(q, y) /\ Voted(q, y) /\ Voted(q, y)'
      BY <2>1, <2>4 DEF Effects
    <3>2. CASE q \in acks[y] /\ pc[y] = "commit"
      <4>1. ct'[y] = ct[y] /\ q \in Marked(y)
        BY <2>2, <2>4, <3>2 DEF CoordStays, CoordMoves, Spread
      <4> QED
        BY <2>3, <4>1 DEF Marked
    <3>3. CASE CommittedAt(q, y)
      <4>1. pc[y] \in {"preaccept", "accept", "commit"} /\ "PreAccept" \in sent[y]
        BY <2>1, <2>2, <2>4 DEF CoordStays, CoordMoves, Rounds
      <4>2. q # Home[y] => y \in index[q]
        BY <3>1, <3>3, <4>1 DEF CommittedAt, InTurn, InOrder, Voted
      <4>3. ASSUME q = Home[y], "prune" \in Env PROVE y \in index[q]
        BY <2>1, <3>1, <4>1, <4>3, <1>SelfVotesFacts DEF Voted, IsReplica
      <4>4. q = Home[y] => y \in index'[q]
        BY <2>4, <3>1 DEF Voted
      <4>5. CASE y \in index[q]
        BY <3>3, <4>5 DEF CommittedAt, Mark
      <4>6. CASE "prune" \notin Env /\ y \in index'[q]
        BY <3>3, <4>6 DEF CommittedAt, Mark
      <4> QED
        BY <4>2, <4>3, <4>4, <4>5, <4>6
    <3>4. pc[y] # "read"
      BY <2>2, <2>4 DEF CoordStays, CoordMoves
    <3> QED
      BY <2>4, <3>1, <3>2, <3>3, <3>4 DEF AckStep, InOrder
  <2>5. ASSUME pc'[y] \in {"read", "apply", "local", "ok", "unknown"} PROVE Cardinality(Marked(y)') >= SlowQuorum
    <3>1. ct'[y] = ct[y]
      BY <2>2, <2>5 DEF CoordStays, CoordMoves
    <3>2. \E S \in SUBSET Replica : Cardinality(S) >= SlowQuorum /\ S \subseteq Marked(y)
      <4>1. CASE pc[y] \in {"read", "apply", "local", "ok", "unknown"}
        BY <2>1, <4>1 DEF Spread
      <4>2. CASE pc[y] = "commit" /\ Cardinality(acks[y]) >= SlowQuorum
        BY <2>1, <4>2 DEF Spread
      <4> QED
        BY <2>2, <2>5, <4>1, <4>2 DEF CoordStays, CoordMoves
    <3>3. PICK S \in SUBSET Replica : Cardinality(S) >= SlowQuorum /\ S \subseteq Marked(y)'
      BY <2>3, <3>1, <3>2
    <3>4. /\ Cardinality(S) \in Nat /\ Cardinality(Marked(y)') \in Nat
          /\ Cardinality(S) <= Cardinality(Marked(y)')
      BY <2>1, <3>3, LargerSet
    <3> QED
      BY SMTT(30), <2>1, <3>3, <3>4
  <2>6. acks'[y] \subseteq Marked(y)' <=> \A q \in acks'[y] : Mark(q, y)'
    BY <2>1 DEF Marked
  <2>7. Spread(y)' <=> /\ pc'[y] = "commit" => acks'[y] \subseteq Marked(y)'
                       /\ pc'[y] \in {"read", "apply", "local", "ok", "unknown"} =>
                             Cardinality(Marked(y)') >= SlowQuorum
    BY <2>1 DEF Spread
  <2> QED
    BY <2>4, <2>5, <2>6, <2>7
\* What was acknowledged before x began stays behind it: the replicas that x hears
\* from in its PreAccept round meet those that will propose above.
<1>FollowsStep.
      ASSUME OrderInv, InOrder, SeqFits, TypeOK', ProposedInv', NEW x \in Txn, NEW y \in earlier'[x],
             Replica' = Replica, Home' = Home, \A q \in Replica, z \in Txn : Effects(q, z)
      PROVE  /\ pc'[y] = "ok"
             /\ Cardinality(Ahead(x, y)') >= SlowQuorum
             /\ sent'[x] \cap {"Accept", "Commit"} # {} => ct'[y] < ct'[x]
  <2> USE <1>FollowsStep
  <2>1. /\ TypeOK /\ Rounds(x) /\ Rounds(x)' /\ y \in Txn
        /\ SlowQuorum \in Nat /\ Ahead(x, y) \subseteq Replica /\ Ahead(x, y)' \subseteq Replica
        /\ Marked(y) \subseteq Replica
    <3>1. TypeOK /\ Rounds(x) /\ Rounds(x)'
      BY DEF OrderInv, ProposedInv, HoldInv, RoundInv
    <3>2. y \in Txn
      BY DEF TypeOK
    <3> QED
      BY <3>1, <3>2, QuorumFacts DEF Ahead, Marked
  <2>2. \A z \in Txn : CoordStays(z) \/ CoordMoves(z)
    <3>1. PICK q \in Replica : TRUE
      <4>1. Replica # {}
        BY SMTT(30), <2>1, SetupFacts, FS_EmptySet
      <4> QED
        BY <4>1
    <3> QED
      BY <3>1 DEF Effects
  <2>3. \/ /\ pc[x] = "idle" /\ pc'[x] = "mint" /\ pc[y] = "ok"
        \/ y \in earlier[x]
    BY <2>2 DEF CoordStays, CoordMoves
  <2>4. pc[y] = "ok"
    BY <2>3 DEF OrderInv, Follows
  <2>5. pc'[y] = "ok" /\ ct'[y] = ct[y]
    BY <2>1, <2>2, <2>4 DEF CoordStays, CoordMoves
  <2>6. ASSUME NEW r \in Replica, Mark(r, y) PROVE Mark(r, y)'
    BY <2>1, <2>5, <2>6, <1>MarkStays
  <2>7. CASE pc[x] = "idle" /\ pc'[x] = "mint"
    <3>1. Cardinality(Marked(y)) >= SlowQuorum
      BY <2>1, <2>4 DEF OrderInv, Spread
    <3>2. \A r \in Replica : voteT'[x][r] = 0
      BY <2>7 DEF ProposedInv, Proposed
    <3>3. Marked(y) \subseteq Ahead(x, y)'
      BY <2>6, <3>2 DEF Marked, Ahead
    <3>4. /\ Cardinality(Marked(y)) \in Nat /\ Cardinality(Ahead(x, y)') \in Nat
          /\ Cardinality(Marked(y)) <= Cardinality(Ahead(x, y)')
      BY <2>1, <3>3, LargerSet
    <3>5. sent'[x] = {}
      BY <2>1, <2>7 DEF Rounds
    <3> QED
      BY SMTT(30), <2>1, <2>5, <3>1, <3>4, <3>5
  <2>8. CASE y \in earlier[x]
    <3>1. Cardinality(Ahead(x, y)) >= SlowQuorum
      BY <2>8 DEF OrderInv, Follows
    <3>2. ASSUME NEW r \in Ahead(x, y) PROVE r \in Ahead(x, y)'
      <4>1. r \in Replica /\ Mark(r, y) /\ (voteT[x][r] # 0 => voteT[x][r] > ct[y])
        BY DEF Ahead, Marked
      <4>2. ASSUME voteT'[x][r] # 0, voteT'[x][r] # voteT[x][r] PROVE voteT'[x][r] > ct[y]
        <5>1. /\ voteT'[x][r] = tt'[r][x] /\ phase'[r][x] = "PreAccepted" /\ <<"PreAccept", r>> \notin got[x]
          BY <4>1, <4>2 DEF Effects, VoteStep
        <5>2. phase[r][x] = "none"
          BY <4>1, <5>1 DEF OrderInv, Voted
        <5>3. RegisteredAt(r, x)
          BY <4>1, <5>1, <5>2 DEF Effects, Same, CreatedAt, AcceptedAt, CommittedAt, AppliedAt, FinalizedAt,
                                  PrunedAt, InOrder
        <5>4. voteT'[x][r] = ProposedT(r, x)
          BY <5>1, <5>3 DEF RegisteredAt
        <5>5. ProposedT(r, x) \in Nat /\ ProposedT(r, x) > MaxConflict(r) /\ MaxConflict(r) \in Nat
          BY <2>1, <4>1, ProposalFacts, MaxConflictFacts DEF SeqFits
        <5>6. MaxConflict(r) >= ct[y]
          <6>1. /\ MaxConflict(r) >= hwm[r]
                /\ \A z \in index[r] : MaxConflict(r) >= tt[r][z]
                /\ hwm[r] \in Nat /\ ct[y] \in Nat
            BY <2>1, <4>1, MaxConflictFacts, Types
          <6> QED
            BY SMTT(30), <4>1, <5>5, <6>1 DEF Mark
        <5> QED
          BY SMTT(30), <2>1, <5>4, <5>5, <5>6, Types
      <4> QED
        BY <2>5, <2>6, <4>1, <4>2 DEF Ahead, Marked
    <3>3. Cardinality(Ahead(x, y)') >= SlowQuorum
      <4>1. /\ Cardinality(Ahead(x, y)) \in Nat /\ Cardinality(Ahead(x, y)') \in Nat
            /\ Cardinality(Ahead(x, y)) <= Cardinality(Ahead(x, y)')
        <5>1. Ahead(x, y) \subseteq Ahead(x, y)'
          BY <3>2
        <5> QED
          BY <2>1, <5>1, LargerSet
      <4> QED
        BY SMTT(30), <2>1, <3>1, <4>1
    <3>4. ASSUME sent'[x] \cap {"Accept", "Commit"} # {} PROVE ct[y] < ct'[x]
      <4>1. CASE sent[x] \cap {"Accept", "Commit"} # {}
        <5>1. ct[y] < ct[x]
          BY <2>8, <4>1 DEF OrderInv, Follows
        <5>2. ct'[x] = ct[x]
          BY <2>1, <2>2, <4>1 DEF CoordStays, CoordMoves, Rounds
        <5> QED
          BY <5>1, <5>2
      <4>2. CASE \E Q \in FastPathOf(x) : ct'[x] = T0(x)
        <5>1. PICK Q \in FastPathOf(x) : ct'[x] = T0(x)
          BY <4>2
        <5>2. /\ Q \in SUBSET Replica /\ Cardinality(Q) >= FastQuorum
              /\ \A r \in Q : voteT[x][r] = T0(x) /\ voteT[x][r] # 0
          BY <2>1, <5>1, FastFacts DEF Voters
        <5>3. PICK r \in Ahead(x, y) : r \in Q
          BY <2>1, <3>1, <5>2, QuorumsMeet
        <5>4. voteT[x][r] > ct[y] /\ voteT[x][r] = ct'[x]
          BY <5>1, <5>2, <5>3 DEF Ahead
        <5>5. r \in Replica /\ voteT[x][r] \in Nat /\ ct[y] \in Nat
          BY <2>1, <5>3, Types
        <5> QED
          BY <5>4, <5>5
      <4>3. CASE \E Q \in NeedAcceptOf(x) : ct'[x] = MergedT(x, Q)
        <5>1. PICK Q \in NeedAcceptOf(x) : ct'[x] = MergedT(x, Q)
          BY <4>3
        <5>2. /\ Q \in SUBSET Replica /\ Cardinality(Q) >= SlowQuorum
              /\ Q \in SUBSET Voters(x) /\ Q # {} /\ \A r \in Q : voteT[x][r] # 0
          BY <2>1, <5>1, SlowFacts DEF Voters
        <5>3. MergedT(x, Q) \in Nat /\ \A r \in Q : voteT[x][r] <= MergedT(x, Q)
          BY <2>1, <5>2, MergedFacts
        <5>4. PICK r \in Ahead(x, y) : r \in Q
          BY <2>1, <3>1, <5>2, QuorumsMeet
        <5>5. voteT[x][r] > ct[y] /\ voteT[x][r] <= ct'[x] /\ ct'[x] \in Nat
          BY <5>1, <5>2, <5>3, <5>4 DEF Ahead
        <5>6. r \in Replica /\ voteT[x][r] \in Nat /\ ct[y] \in Nat
          BY <2>1, <5>4, Types
        <5> QED
          BY SMTT(30), <5>5, <5>6
      <4> QED
        BY <2>1, <2>2, <3>4, <4>1, <4>2, <4>3 DEF CoordStays, CoordMoves, Rounds
    <3> QED
      BY <2>5, <3>3, <3>4
  <2> QED
    BY <2>3, <2>7, <2>8
<1>1. ASSUME InOrder, OrderInv, SeqFits, Next PROVE OrderInv'
  <2>1. ProposedInv /\ ProposedInv' /\ RoundInv /\ RoundInv'
    BY <1>1, ProposedNext DEF OrderInv, ProposedInv, HoldInv
  <2>2. TypeOK' /\ Replica' = Replica /\ Home' = Home /\ \A q \in Replica, y \in Txn : Effects(q, y)
    BY <1>1, <2>1, StepEffects
  <2>3. \A q \in Replica, y \in Txn : Voted(q, y)'
    <3>1. \A q \in Replica, y \in Txn : GotStep(q, y)
      BY <2>2 DEF Effects
    <3> QED
      BY <1>1, <2>1, <2>2, <3>1, <1>VotedStep DEF OrderInv
  <2>4. ASSUME NEW y \in Txn PROVE Spread(y)'
    BY <1>1, <2>1, <2>2, <2>3, <1>SpreadStep DEF OrderInv
  <2>5. ASSUME NEW x \in Txn PROVE Follows(x)'
    <3>1. ASSUME NEW y \in earlier'[x]
          PROVE  /\ pc'[y] = "ok"
                 /\ Cardinality(Ahead(x, y)') >= SlowQuorum
                 /\ sent'[x] \cap {"Accept", "Commit"} # {} => ct'[y] < ct'[x]
      BY <1>1, <2>1, <2>2, <1>FollowsStep
    <3>2. SlowQuorum' = SlowQuorum
      BY <2>2 DEF SlowQuorum, RF
    <3> QED
      BY <3>1, <3>2 DEF Follows
  <2> QED
    BY <2>1, <2>2, <2>3, <2>4, <2>5 DEF OrderInv
<1>2. ASSUME OrderInv, UNCHANGED vars PROVE OrderInv'
  <2>1. ProposedInv'
    BY <1>2, ProposedNext DEF OrderInv
  <2>2. UNCHANGED <<Replica, Home, pc, sent, got, voteT, ct, acks, phase, tt, index, hwm, earlier>>
    BY <1>2 DEF vars
  <2>3. \A r \in Replica, x \in Txn : Voted(r, x)' = Voted(r, x)
    BY <2>2 DEF Voted, IsReplica, SelfVotes, FastQuorum, SlowQuorum, RF
  <2>4. \A x \in Txn : Marked(x)' = Marked(x)
    BY <2>2 DEF Marked, Mark
  <2>5. \A x, y \in Txn : Ahead(x, y)' = Ahead(x, y)
    BY <2>2, <2>4 DEF Ahead
  <2>6. ASSUME NEW x \in Txn PROVE Spread(x)' /\ Follows(x)'
    <3>1. earlier[x] \in SUBSET Txn
      BY <1>2 DEF OrderInv, ProposedInv, HoldInv, RoundInv, TypeOK
    <3> QED
      BY <1>2, <2>2, <2>4, <2>5, <3>1 DEF OrderInv, Spread, Follows, SlowQuorum, RF
  <2> QED
    BY <1>2, <2>1, <2>2, <2>3, <2>6 DEF OrderInv
<1> QED
  BY <1>1, <1>2

\* With requests in order and a log that can be synced, and as long as no sequence
\* number saturates, a transaction that begins after another was acknowledged
\* executes after it: a Commit quorum raised the high-water mark or holds the
\* conflict, and every PreAccept quorum meets it (max_conflicting_timestamp).
THEOREM RealTimeIsKept == InOrder => (Spec /\ []SeqFits => []RealTimeOrder)
<1> SUFFICES ASSUME InOrder PROVE Spec /\ []SeqFits => []RealTimeOrder
  OBVIOUS
<1>1. OrderInv /\ SeqFits /\ [Next]_vars => OrderInv'
  BY OrderStep
<1>2. OrderInv => RealTimeOrder
  BY DEF OrderInv, Follows, RealTimeOrder, Decided
<1> QED
  BY <1>1, <1>2, OrderInit, PTL DEF Spec

------------------------------------------------------------------------------
\* What a step does to the read votes and the clocks

LEMMA ReadEffects ==
    ASSUME TypeOK, Next
    PROVE  \A q \in Replica, y \in Txn : ReadStep(q, y)
<1>1. CoordTyped /\ \A y \in Txn : reads[y] \in [Replica -> Int]
  BY Types DEF CoordTyped
<1>2. ASSUME UNCHANGED reads, NEW x \in Txn, pc[x] # "read" \/ pc'[x] = "read",
             \A y \in Txn : y # x => pc'[y] = pc[y]
      PROVE  \A q \in Replica, y \in Txn : ReadStep(q, y)
  BY <1>2 DEF ReadStep
<1>3. ASSUME NEW x \in Txn, ForgetReads(x), \A y \in Txn : y # x => pc'[y] = pc[y]
      PROVE  \A q \in Replica, y \in Txn : ReadStep(q, y)
  BY <1>1, <1>3 DEF ReadStep, ForgetReads, CoordTyped
<1>4. ASSUME NEW x \in Txn, pc' = pc \/ \E e : pc' = [pc EXCEPT ![x] = e]
      PROVE  /\ \A y \in Txn : y # x => pc'[y] = pc[y]
             /\ \A e : pc' = [pc EXCEPT ![x] = e] => pc'[x] = e
  BY <1>1, <1>4 DEF CoordTyped
<1>5. ASSUME NEW x \in Txn, Coordinate(x) PROVE \A q \in Replica, y \in Txn : ReadStep(q, y)
  <2>1. CASE Begin(x) \/ CommitQuorum(x) \/ ApplyQuorum(x) \/ LocalDone(x)
    BY <1>2, <1>4, <2>1 DEF Begin, CommitQuorum, ApplyQuorum, LocalDone
  <2>2. CASE GatePassed(x)
    BY <1>3, <1>4, <2>2 DEF GatePassed
  <2>3. CASE SendPreAccept(x)
    BY <1>2, <1>4, <2>3 DEF SendPreAccept
  <2>4. CASE FastPath(x) \/ SlowPath(x)
    BY <1>2, <1>4, <2>4 DEF FastPath, SlowPath, StartCommit
  <2>5. CASE NeedAccept(x)
    BY <1>2, <1>4, <2>5 DEF NeedAccept, StartAccept
  <2>6. CASE GiveUp(x, "refused") \/ GiveUp(x, "failed") \/ GiveUp(x, "abandoned")
    BY <1>3, <1>4, <2>6 DEF GiveUp
  <2>7. CASE ApplyFails(x)
    BY <1>2, <1>4, <2>6, <2>7 DEF ApplyFails
  <2> QED
    BY <1>5, <2>1, <2>2, <2>3, <2>4, <2>5, <2>6, <2>7 DEF Coordinate, ConditionNotMet, RoundFails
<1>6. ASSUME NEW r \in Replica, NEW x \in Txn, Serve(r, x) PROVE \A q \in Replica, y \in Txn : ReadStep(q, y)
  <2>1. CASE PreAccept(r, x) \/ Accept(r, x) \/ Commit(r, x) \/ Apply(r, x) \/ NoWrite(r, x)
    <3>1. UNCHANGED <<reads, pc>>
      BY <2>1 DEF PreAccept, Accept, Commit, Apply, NoWrite
    <3> QED
      BY <3>1 DEF ReadStep
  <2>2. CASE DepWait(r, x) \/ ReadRow(r, x) \/ AbstainRead(r, x)
    <3>1. /\ pc' = pc /\ ct' = ct /\ sent' = sent /\ phase' = phase /\ tt' = tt /\ index' = index
          /\ pc[x] = "read" /\ InTurn(x, r)
      BY <2>2 DEF DepWait, ReadRow, AbstainRead, MayRead, stateVars
    <3>2. \E e : /\ reads' = [reads EXCEPT ![x][r] = e]
                 /\ \/ reads[x][r] = NoRead /\ e = Ready /\ Unapplied(r, ct[x]) = {}
                    \/ reads[x][r] = Ready /\ e = RowAt(r, ct[x])
                    \/ "fail" \in Env
      BY <2>2 DEF DepWait, ReadRow, AbstainRead
    <3>3. PICK e : /\ reads' = [reads EXCEPT ![x][r] = e]
                   /\ \/ reads[x][r] = NoRead /\ e = Ready /\ Unapplied(r, ct[x]) = {}
                      \/ reads[x][r] = Ready /\ e = RowAt(r, ct[x])
                      \/ "fail" \in Env
      BY <3>2
    <3>4. reads'[x][r] = e /\ \A q \in Replica, y \in Txn : y # x \/ q # r => reads'[y][q] = reads[y][q]
      BY <1>1, <3>3 DEF CoordTyped
    <3> QED
      BY <3>1, <3>3, <3>4 DEF ReadStep
  <2> QED
    BY <1>6, <2>1, <2>2 DEF Serve
<1>7. ASSUME NEW r \in Replica, Prune(r) PROVE \A q \in Replica, y \in Txn : ReadStep(q, y)
  BY <1>7 DEF Prune, ReadStep
<1> QED
  BY <1>5, <1>6, <1>7 DEF Next

\* Witnessing and minting only move a clock forward.
LEMMA ClockGrows ==
    ASSUME RoundInv, Next, NEW n \in Node
    PROVE  clock'[n] >= clock[n]
<1>1. TypeOK /\ clock \in [Node -> Nat] /\ clock[n] \in Nat /\ Replica \subseteq Node
  BY SetupFacts DEF RoundInv, TypeOK
<1>2. ASSUME NEW m \in Node, NEW t \in Nat, clock' = Witness(m, t) PROVE clock'[n] >= clock[n]
  <2>1. t \div D \in Nat
    BY Z3 DEF D
  <2>2. Max({clock[m], t \div D}) >= clock[m] /\ Max({clock[m], t \div D}) \in Nat
    BY <1>1, <2>1, MaxPair
  <2>3. clock' = [clock EXCEPT ![m] = Max({clock[m], t \div D})]
    BY <1>2 DEF Witness
  <2> QED
    BY SMTT(30), <1>1, <2>2, <2>3
<1>3. ASSUME UNCHANGED clock PROVE clock'[n] >= clock[n]
  BY SMTT(30), <1>1, <1>3
<1>4. ASSUME NEW m \in Replica, NEW x \in Txn, HandlePreAccept(m, x) PROVE clock'[n] >= clock[n]
  <2>1. ProposedT(m, x) \in Nat /\ m \in Node
    BY <1>1, ProposalFacts
  <2> QED
    BY <1>2, <1>3, <1>4, <2>1 DEF HandlePreAccept, Register
<1>5. ASSUME NEW m \in Replica, NEW x \in Txn, NEW t \in Nat, NEW d, HandleAccept(m, x, t, d) \/ HandleCommit(m, x, t, d)
      PROVE  clock'[n] >= clock[n]
  BY <1>1, <1>2, <1>5 DEF HandleAccept, HandleCommit
<1>6. ASSUME NEW x \in Txn, Coordinate(x) PROVE clock'[n] >= clock[n]
  <2>1. ct[x] \in Nat /\ T0(x) \in Nat /\ Home[x] \in Node /\ x \in Nat
    BY SMTT(30), <1>1, Types, SetupFacts, DInt
  <2>2. CASE Begin(x)
    <3>1. D * x \in Nat /\ clock[Home[x]] \in Nat
      BY SMTT(30), <1>1, <2>1, DInt
    <3> QED
      BY SMTT(30), <1>1, <2>1, <2>2, <3>1 DEF Begin
  <2>3. CASE CommitQuorum(x) \/ GatePassed(x) \/ ApplyQuorum(x) \/ LocalDone(x) \/ ConditionNotMet(x)
             \/ RoundFails(x) \/ ApplyFails(x)
    BY <1>3, <2>3 DEF CommitQuorum, GatePassed, ApplyQuorum, LocalDone, ConditionNotMet, RoundFails,
                      ApplyFails, GiveUp
  <2>4. CASE SendPreAccept(x)
    BY <1>3, <1>4, <2>4 DEF SendPreAccept, IsReplica
  <2>5. ASSUME NEW t \in Nat, NEW d, StartCommit(x, t, d) PROVE clock'[n] >= clock[n]
    BY <1>3, <1>5, <2>5 DEF StartCommit, IsReplica
  <2>6. ASSUME NEW t \in Nat, NEW d, StartAccept(x, t, d) PROVE clock'[n] >= clock[n]
    BY <1>3, <1>5, <2>6 DEF StartAccept, IsReplica, Create
  <2>7. CASE FastPath(x) \/ SlowPath(x)
    BY <2>1, <2>5, <2>7 DEF FastPath, SlowPath
  <2>8. CASE NeedAccept(x)
    <3>1. PICK Q \in NeedAcceptOf(x) : StartAccept(x, MergedT(x, Q), MergedDeps(x, Q))
      BY <2>8 DEF NeedAccept
    <3>2. MergedT(x, Q) \in Nat
      BY <1>1, SlowFacts, MergedFacts
    <3> QED
      BY <2>6, <3>1, <3>2
  <2> QED
    BY <1>6, <2>2, <2>3, <2>4, <2>7, <2>8 DEF Coordinate
<1>7. ASSUME NEW r \in Replica, NEW x \in Txn, Serve(r, x) PROVE clock'[n] >= clock[n]
  <2>1. CASE PreAccept(r, x)
    BY <1>4, <2>1 DEF PreAccept
  <2>2. CASE Accept(r, x) \/ Commit(r, x)
    <3>1. ct[x] \in Nat
      BY <1>1, Types
    <3> QED
      BY <1>3, <1>5, <2>2, <3>1 DEF Accept, Commit, Create
  <2>3. CASE DepWait(r, x) \/ ReadRow(r, x) \/ AbstainRead(r, x) \/ Apply(r, x) \/ NoWrite(r, x)
    BY <1>3, <2>3 DEF DepWait, ReadRow, AbstainRead, Apply, NoWrite
  <2> QED
    BY <1>7, <2>1, <2>2, <2>3 DEF Serve
<1>8. ASSUME NEW r \in Replica, Prune(r) PROVE clock'[n] >= clock[n]
  BY <1>3, <1>8 DEF Prune
<1> QED
  BY <1>6, <1>7, <1>8 DEF Next

------------------------------------------------------------------------------
\* One insert wins

\* The facts about one transaction on one replica, and before and after a step,
\* that the lemmas below use.
LEMMA InsertFacts ==
    ASSUME InsertInv, NEW r \in Replica, NEW x \in Txn
    PROVE  /\ TypeOK /\ Rounds(x) /\ Agreeing(r, x) /\ Justified(r, x) /\ Proposed(r, x) /\ Voted(r, x)
           /\ Reader(r, x) /\ Stamped(r, x)
           /\ tt[r][x] \in Nat /\ ct[x] \in Nat /\ T0(x) \in Nat /\ index[r] \in SUBSET Txn
           /\ phase[r][x] \in Phase /\ voteT[x][r] \in Nat /\ rowT[r][x] \in Nat
<1>1. TypeOK /\ Rounds(x) /\ Agreeing(r, x) /\ Justified(r, x) /\ Proposed(r, x)
  BY DEF InsertInv, StampInv, ProposedInv, HoldInv, RoundInv
<1>2. Voted(r, x) /\ Reader(r, x) /\ Stamped(r, x)
  BY DEF InsertInv, OrderInv
<1>3. phase[r][x] \in Phase
  BY SMTT(30), <1>1, Types DEF ReplicaTyped
<1> QED
  BY <1>1, <1>2, <1>3, Types, SetupFacts

\* On a replica, a transaction's timestamp changes by its registration, or to the
\* execution timestamp; its entry stays.
LEMMA Moves ==
    ASSUME OnlyInserts, TypeOK, NEW r \in Replica, NEW x \in Txn, Effects(r, x), Justified(r, x)
    PROVE  /\ x \in index[r] => /\ x \in index'[r] /\ phase[r][x] # "none"
                                /\ tt'[r][x] = tt[r][x] \/ (tt'[r][x] = ct'[x] /\ sent'[x] \cap {"Accept", "Commit"} # {})
           /\ RegisteredAt(r, x) => phase[r][x] = "none" /\ tt'[r][x] = ProposedT(r, x)
           /\ x \in index'[r] => x \in index[r] \/ RegisteredAt(r, x) \/ (CommittedAt(r, x) /\ pc[x] \in {"preaccept", "accept"})
           /\ phase[r][x] = "Applied" => phase'[r][x] = "Applied" /\ tt'[r][x] = tt[r][x] /\ rowT'[r][x] = rowT[r][x]
<1>1. x \in index[r] => phase[r][x] # "none"
  BY DEF Justified
<1>2. \/ Same(r, x) \/ RegisteredAt(r, x) \/ AcceptedAt(r, x)
      \/ CommittedAt(r, x) \/ AppliedAt(r, x) \/ FinalizedAt(r, x)
  BY DEF Effects, CreatedAt, PrunedAt, OnlyInserts
<1> QED
  BY <1>1, <1>2 DEF Same, RegisteredAt, AcceptedAt, CommittedAt, AppliedAt, FinalizedAt

\* A proposal is above what the replica holds.
LEMMA ProposesAbove ==
    ASSUME TypeOK, SeqFits, NEW r \in Replica, NEW x \in Txn, NEW z \in index[r]
    PROVE  ProposedT(r, x) \in Nat /\ ProposedT(r, x) > tt[r][z] /\ ProposedT(r, x) >= T0(x)
<1>1. ProposedT(r, x) \in Nat /\ ProposedT(r, x) > MaxConflict(r) /\ ProposedT(r, x) >= T0(x)
  BY ProposalFacts DEF SeqFits
<1>2. MaxConflict(r) \in Nat /\ MaxConflict(r) >= tt[r][z] /\ z \in Txn /\ tt[r][z] \in Nat
  BY MaxConflictFacts, Types
<1> QED
  BY SMTT(30), <1>1, <1>2

LEMMA StampedStep ==
    ASSUME InsertInv, OnlyInserts, SeqFits, NEW q \in Replica, NEW x \in Txn, Effects(q, x),
           Home' = Home, Replica' = Replica
    PROVE  Stamped(q, x)'
<1> USE InsertFacts
<1>1. T0(x)' = T0(x) /\ (CoordStays(x) \/ CoordMoves(x))
  BY DEF T0, Stamp, Effects
<1>2. ASSUME sent'[x] \cap {"Accept", "Commit"} # {} PROVE ct'[x] >= T0(x)
  <2>1. CASE sent[x] \cap {"Accept", "Commit"} # {}
    BY <1>1, <2>1 DEF CoordStays, CoordMoves, Rounds, Stamped
  <2>2. CASE \E Q \in FastPathOf(x) : ct'[x] = T0(x)
    BY SMTT(30), <2>2
  <2>3. CASE pc[x] = "preaccept" /\ \E Q \in NeedAcceptOf(x) : ct'[x] = MergedT(x, Q)
    <3>1. PICK Q \in NeedAcceptOf(x) : ct'[x] = MergedT(x, Q)
      BY <2>3
    <3>2. Q \in SUBSET Voters(x) /\ Q # {}
      BY SlowFacts
    <3>3. PICK r \in Q : ct'[x] = voteT[x][r]
      BY <3>1, <3>2, MergedFacts
    <3>4. r \in Replica /\ voteT[x][r] # 0
      BY <3>2, <3>3 DEF Voters
    <3>5. Proposed(r, x) /\ Stamped(r, x)
      BY <3>4
    <3> QED
      BY <3>3, <3>4, <3>5 DEF Proposed, Stamped
  <2> QED
    BY <1>1, <1>2, <2>1, <2>2, <2>3 DEF CoordStays, CoordMoves, Rounds
<1>3. ASSUME phase'[q][x] # "none" PROVE tt'[q][x] >= T0(x)
  <2>1. ProposedT(q, x) >= T0(x)
    BY ProposalFacts DEF SeqFits
  <2>2. CASE Same(q, x) \/ AppliedAt(q, x) \/ FinalizedAt(q, x)
    BY <1>3, <2>2 DEF Same, AppliedAt, FinalizedAt, Stamped
  <2>3. CASE RegisteredAt(q, x)
    BY <2>1, <2>3 DEF RegisteredAt
  <2>4. CASE AcceptedAt(q, x) \/ CommittedAt(q, x)
    BY <1>2, <2>4 DEF AcceptedAt, CommittedAt
  <2> QED
    BY <2>2, <2>3, <2>4 DEF Effects, CreatedAt, PrunedAt, OnlyInserts
<1>4. pc'[x] # "abandoned"
  BY <1>1 DEF Stamped, CoordStays, CoordMoves, OnlyInserts
<1>5. ASSUME x \notin Prior, rowT'[q][x] # 0 PROVE phase'[q][x] = "Applied" /\ rowT'[q][x] = tt'[q][x]
  BY <1>5 DEF Effects, Same, RegisteredAt, CreatedAt, AcceptedAt, CommittedAt, AppliedAt, FinalizedAt, PrunedAt,
              OnlyInserts, Stamped
<1>6. ASSUME x \in Prior PROVE ct'[x] = T0(x) /\ rowT'[q][x] = T0(x)
  <2>1. pc[x] = "ok" /\ sent[x] = {} /\ ct[x] = T0(x) /\ rowT[q][x] = T0(x)
    BY <1>6 DEF Rounds, Stamped
  <2>2. ct'[x] = ct[x]
    BY <1>1, <2>1 DEF CoordStays, CoordMoves
  <2>3. rowT'[q][x] = rowT[q][x]
    BY <2>1 DEF Effects, Same, RegisteredAt, CreatedAt, AcceptedAt, CommittedAt, AppliedAt, FinalizedAt, PrunedAt
  <2> QED
    BY <2>1, <2>2, <2>3
<1> QED
  BY <1>1, <1>2, <1>3, <1>4, <1>5, <1>6 DEF Stamped

\* Until it is decided a transaction is registered by a replica, or left alone.
LEMMA Registers ==
    ASSUME InsertInv, NEW q \in Replica, NEW x \in Txn, Effects(q, x), pc'[x] \in {"idle", "mint", "preaccept"}
    PROVE  /\ pc[x] \in {"idle", "mint", "preaccept"}
           /\ Same(q, x) \/ RegisteredAt(q, x)
           /\ x \in index[q] => pc[x] = "preaccept" /\ phase[q][x] = "PreAccepted"
<1>1. Rounds(x) /\ Proposed(q, x) /\ Justified(q, x)
  BY InsertFacts
<1>2. pc[x] \in {"idle", "mint", "preaccept"} /\ sent[x] \subseteq {"PreAccept"} /\ sent'[x] \subseteq {"PreAccept"}
  BY <1>1 DEF Effects, CoordStays, CoordMoves, Rounds
<1>3. phase[q][x] \in {"none", "PreAccepted"} /\ (x \in index[q] => pc[x] = "preaccept" /\ phase[q][x] = "PreAccepted")
  BY <1>1, <1>2 DEF Proposed, Justified
<1> QED
  BY <1>2, <1>3 DEF Effects, CreatedAt, AcceptedAt, CommittedAt, AppliedAt, FinalizedAt, PrunedAt

LEMMA ReaderStep ==
    ASSUME InsertInv, OnlyInserts, SeqFits, TypeOK', NEW q \in Replica, NEW y \in Txn, ReadStep(q, y),
           Home' = Home, Replica' = Replica, \A x \in Txn : Effects(q, x)
    PROVE  Reader(q, y)'
<1>1. /\ TypeOK /\ Rounds(y) /\ Justified(q, y) /\ Proposed(q, y) /\ Voted(q, y) /\ Reader(q, y) /\ Stamped(q, y)
      /\ tt[q][y] \in Nat /\ ct[y] \in Nat /\ T0(y) \in Nat /\ index[q] \in SUBSET Txn
      /\ Agreeing(q, y) /\ phase[q][y] \in Phase /\ index'[q] \in SUBSET Txn
  BY InsertFacts DEF TypeOK
<1>2. CoordStays(y) \/ CoordMoves(y)
  BY DEF Effects
<1>3. ASSUME pc'[y] # "read" PROVE reads'[y][q] = NoRead
  BY <1>1, <1>2, <1>3 DEF ReadStep, Reader, CoordStays, CoordMoves
<1>4. ASSUME Passed(y, q)'
      PROVE  /\ pc[y] = "read" /\ ct'[y] = ct[y]
             /\ \/ Passed(y, q)
                \/ /\ pc' = pc /\ sent' = sent /\ phase' = phase /\ tt' = tt /\ index' = index
                   /\ InTurn(y, q) /\ Unapplied(q, ct[y]) = {}
  <2>1. pc'[y] = "read" /\ reads'[y][q] # NoRead
    BY <1>4 DEF Passed
  <2>2. pc[y] = "read"
    BY <1>1, <2>1 DEF ReadStep, Reader
  <2>3. ct'[y] = ct[y]
    BY <1>2, <2>1, <2>2 DEF CoordStays, CoordMoves
  <2> QED
    BY SMTT(30), <2>1, <2>2, <2>3 DEF ReadStep, Passed, OnlyInserts, Ready, NoRead
<1>5. ASSUME Passed(y, q)' PROVE y \in index'[q] /\ tt'[q][y] >= ct'[y]
  <2>1. CASE Passed(y, q)
    <3>1. y \in index[q] /\ tt[q][y] >= ct[y]
      BY <1>1, <2>1 DEF Reader
    <3>2. y \in index'[q] /\ (tt'[q][y] = tt[q][y] \/ tt'[q][y] = ct'[y])
      BY <1>1, <3>1, Moves
    <3> QED
      BY SMTT(30), <1>1, <1>4, <1>5, <3>1, <3>2
  <2>2. CASE /\ pc' = pc /\ sent' = sent /\ phase' = phase /\ tt' = tt /\ index' = index
             /\ InTurn(y, q) /\ Unapplied(q, ct[y]) = {}
    <3>1. pc[y] = "read" /\ ct'[y] = ct[y]
      BY <1>4, <1>5
    <3>2. y \in index[q]
      BY <1>1, <2>2, <3>1 DEF Voted, InTurn, OnlyInserts
    <3>3. phase[q][y] # "none" /\ phase[q][y] # "Applied"
      BY <1>1, <3>1, <3>2 DEF Justified, Rounds
    <3>4. tt[q][y] >= ct[y]
      <4>1. tt[q][y] >= T0(y)
        BY <1>1, <3>3 DEF Stamped
      <4>2. CASE T0(y) < ct[y]
        <5>1. y \in DepsBefore(q, ct[y])
          BY <3>2, <4>2 DEF DepsBefore
        <5>2. phase[q][y] \notin {"PreAccepted", "Accepted"}
          BY <2>2, <5>1 DEF Unapplied
        <5>3. phase[q][y] = "Committed"
          BY <1>1, <3>3, <5>2 DEF Phase
        <5> QED
          BY SMTT(30), <1>1, <5>3 DEF Agreeing
      <4> QED
        BY SMTT(30), <1>1, <4>1, <4>2
    <3> QED
      BY <2>2, <3>1, <3>2, <3>4
  <2> QED
    BY <1>4, <1>5, <2>1, <2>2
<1>6. ASSUME Passed(y, q)', NEW x \in index'[q], pc'[x] = "preaccept" PROVE tt'[q][x] >= ct'[y]
  <2>0. x \in Txn
    BY <1>1
  <2>1. /\ Stamped(q, x) /\ tt[q][x] \in Nat /\ T0(x) \in Nat
        /\ Same(q, x) \/ RegisteredAt(q, x)
        /\ x \in index[q] => pc[x] = "preaccept" /\ phase[q][x] = "PreAccepted"
    BY <1>6, <2>0, InsertFacts, Registers
  <2>2. CASE Passed(y, q)
    <3>1. y \in index[q] /\ tt[q][y] >= ct[y]
      BY <1>1, <2>2 DEF Reader
    <3>2. CASE RegisteredAt(q, x)
      <4>1. tt'[q][x] = ProposedT(q, x)
        BY <3>2 DEF RegisteredAt
      <4>2. ProposedT(q, x) \in Nat /\ ProposedT(q, x) > tt[q][y]
        BY <1>1, <2>0, <3>1, ProposesAbove
      <4> QED
        BY SMTT(30), <1>1, <1>4, <1>6, <3>1, <4>1, <4>2
    <3>3. CASE Same(q, x)
      <4>1. x \in index[q] /\ tt'[q][x] = tt[q][x]
        BY <1>6, <3>3 DEF Same
      <4>2. tt[q][x] >= ct[y]
        BY <1>1, <2>1, <2>2, <4>1 DEF Reader
      <4> QED
        BY <1>4, <1>6, <4>1, <4>2
    <3> QED
      BY <2>1, <3>2, <3>3
  <2>3. CASE /\ pc' = pc /\ sent' = sent /\ phase' = phase /\ tt' = tt /\ index' = index
             /\ InTurn(y, q) /\ Unapplied(q, ct[y]) = {}
    <3>1. x \in index[q] /\ phase[q][x] = "PreAccepted"
      BY <1>6, <2>1, <2>3
    <3>2. T0(x) >= ct[y]
      <4>1. x \notin DepsBefore(q, ct[y])
        BY <2>3, <3>1 DEF Unapplied
      <4> QED
        BY SMTT(30), <1>1, <2>1, <3>1, <4>1 DEF DepsBefore
    <3>3. tt[q][x] >= T0(x)
      BY <2>1, <3>1 DEF Stamped
    <3>4. ct'[y] = ct[y]
      BY <1>4, <1>6
    <3> QED
      BY SMTT(30), <1>1, <2>1, <2>3, <3>2, <3>3, <3>4
  <2> QED
    BY <1>4, <1>6, <2>2, <2>3
<1> QED
  BY <1>3, <1>5, <1>6 DEF Reader

\* A read at y's timestamp sees the row of an earlier insert that was applied: no
\* other row is there to hide it.
LEMMA RowIsSeen ==
    ASSUME InsertInv, NEW r \in Replica, NEW x \in Txn, NEW y \in Txn, Live(x), phase[r][x] = "Applied",
           tt[r][x] <= ct[x], ct[x] < ct[y]
    PROVE  RowAt(r, ct[y]) # Absent
<1>1. /\ TypeOK /\ Rounds(x) /\ Justified(r, x) /\ Stamped(r, x) /\ tt[r][x] \in Nat /\ ct[x] \in Nat /\ ct[y] \in Nat
  BY InsertFacts
<1>2. rowT[r][x] # 0 /\ x \notin Prior
  BY <1>1 DEF Justified, Rounds, Live
<1>3. "Apply" \in sent[x] /\ rowT[r][x] = tt[r][x]
  BY <1>1, <1>2 DEF Justified, Stamped
<1>4. Written(r) # {} /\ Current(r) \in Written(r)
  <2>1. x \in Written(r)
    BY <1>2 DEF Written
  <2> QED
    BY <1>1, <2>1, CurrentIsWritten
<1>5. Current(r) = x
  <2>1. Current(r) \in Txn /\ rowT[r][Current(r)] # 0
    BY <1>4 DEF Written
  <2>2. Prior = {}
    BY <1>3 DEF InsertInv, Existed
  <2>3. "Apply" \in sent[Current(r)]
    BY <2>1, <2>2, InsertFacts DEF Justified
  <2> QED
    BY <1>3, <2>1, <2>3 DEF InsertInv, Waited
<1>6. CellTs(tt[r][x]) <= CellTs(ct[y])
  BY SMTT(30), <1>1, CellTsFacts
<1> QED
  BY <1>1, <1>3, <1>4, <1>5, <1>6, RowAtFacts

\* The votes a coordinator goes on with, and the timestamp it makes of them.
LEMMA QuorumDecides ==
    ASSUME InsertInv, NEW x \in Txn, CoordMoves(x), pc[x] = "preaccept", pc'[x] \in {"accept", "commit"}
    PROVE  \E Q \in SUBSET Replica :
              IsQuorum(Q) /\ \A r \in Q : x \in index[r] /\ tt[r][x] <= ct'[x]
<1>1. TypeOK
  BY DEF InsertInv, StampInv, ProposedInv, HoldInv, RoundInv
<1>2. ASSUME NEW Q \in SUBSET Voters(x), \A r \in Q : voteT[x][r] <= ct'[x]
      PROVE  Q \in SUBSET Replica /\ \A r \in Q : x \in index[r] /\ tt[r][x] <= ct'[x]
  <2>1. \A r \in Q : r \in Replica /\ voteT[x][r] # 0
    BY DEF Voters
  <2>2. \A r \in Q : Proposed(r, x)
    BY <2>1, InsertFacts
  <2> QED
    BY <1>2, <2>1, <2>2 DEF Proposed
<1>3. CASE \E Q \in FastPathOf(x) : ct'[x] = T0(x)
  <2>1. PICK Q \in FastPathOf(x) : ct'[x] = T0(x)
    BY <1>3
  <2>2. Q \in SUBSET Voters(x) /\ Cardinality(Q) >= FastQuorum /\ \A r \in Q : voteT[x][r] = ct'[x]
    BY <1>1, <2>1, FastFacts
  <2>3. \A r \in Q : voteT[x][r] <= ct'[x]
    <3>1. ct'[x] \in Nat
      BY <1>1, <2>1, SetupFacts
    <3> QED
      BY SMTT(30), <2>2, <3>1
  <2> QED
    BY <1>2, <2>2, <2>3 DEF IsQuorum
<1>4. CASE \E Q \in NeedAcceptOf(x) : ct'[x] = MergedT(x, Q)
  <2>1. PICK Q \in NeedAcceptOf(x) : ct'[x] = MergedT(x, Q)
    BY <1>4
  <2>2. Q \in SUBSET Voters(x) /\ Q # {} /\ Cardinality(Q) >= SlowQuorum
    BY <1>1, SlowFacts
  <2>3. \A r \in Q : voteT[x][r] <= ct'[x]
    BY <1>1, <2>1, <2>2, MergedFacts
  <2> QED
    BY <1>2, <2>2, <2>3 DEF IsQuorum
<1> QED
  BY <1>3, <1>4 DEF CoordMoves

\* How a transaction comes to be decided, and to be applied.
LEMMA Turns ==
    ASSUME InsertInv, OnlyInserts, NEW x \in Txn, CoordStays(x) \/ CoordMoves(x)
    PROVE  /\ sent'[x] \cap {"Accept", "Commit"} # {} =>
                 \/ sent[x] \cap {"Accept", "Commit"} # {} /\ ct'[x] = ct[x]
                 \/ CoordMoves(x) /\ pc[x] = "preaccept" /\ pc'[x] \in {"accept", "commit"}
           /\ "NoWrite" \notin sent'[x] => "NoWrite" \notin sent[x]
           /\ "Apply" \in sent[x] => sent[x] \cap {"Accept", "Commit"} # {} /\ "NoWrite" \notin sent[x] /\ ct'[x] = ct[x]
           /\ "Apply" \in sent'[x] => \/ "Apply" \in sent[x]
                                      \/ pc[x] = "read" /\ pc'[x] = "apply" /\ Agreed(x, Absent) /\ ct'[x] = ct[x]
           /\ pc'[x] \in {"accept", "commit", "read"} =>
                 \/ pc[x] \in {"accept", "commit", "read"} /\ ct'[x] = ct[x]
                 \/ CoordMoves(x) /\ pc[x] = "preaccept" /\ pc'[x] \in {"accept", "commit"}
<1>1. PICK r \in Replica : TRUE
  <2>1. TypeOK
    BY DEF InsertInv, StampInv, ProposedInv, HoldInv, RoundInv
  <2>2. Replica # {}
    BY SMTT(30), <2>1, SetupFacts, FS_EmptySet
  <2> QED
    BY <2>2
<1>2. Rounds(x) /\ Stamped(r, x) /\ TypeOK
  BY InsertFacts
<1>3. x \notin Prior => x \in Insert
  BY DEF OnlyInserts
<1>4. pc[x] \in {"idle", "mint", "preaccept", "accept", "commit", "read", "apply", "local",
                 "ok", "refused", "failed", "unknown"}
  BY <1>2 DEF Stamped, TypeOK, Terminal
<1>5. "Apply" \in sent[x] => /\ sent[x] \cap {"Accept", "Commit"} # {} /\ "NoWrite" \notin sent[x]
                             /\ pc[x] \in {"apply", "local", "ok", "unknown"}
  BY SMTT(30), <1>2, <1>4 DEF Rounds
<1> QED
  BY <1>2, <1>3, <1>5 DEF CoordStays, CoordMoves, Rounds

LEMMA LargerQuorum ==
    ASSUME TypeOK, NEW A, NEW B \in SUBSET Replica, A \subseteq B, IsQuorum(A)
    PROVE  IsQuorum(B)
<1>1. Cardinality(A) \in Nat /\ Cardinality(B) \in Nat /\ Cardinality(A) <= Cardinality(B)
  BY LargerSet
<1>2. SlowQuorum \in Nat /\ FastQuorum \in Nat
  BY QuorumFacts
<1> QED
  BY SMTT(30), <1>1, <1>2 DEF IsQuorum

\* Replicas keep supporting a decided transaction, and its guards propose above it.
LEMMA SuppStays ==
    ASSUME InsertInv, OnlyInserts, TypeOK', NEW r \in Replica, NEW x \in Txn, Effects(r, x), x \in index[r],
           tt[r][x] <= ct'[x]
    PROVE  x \in index'[r] /\ tt'[r][x] <= ct'[x]
<1>1. x \in index'[r] /\ (tt'[r][x] = tt[r][x] \/ tt'[r][x] = ct'[x])
  BY InsertFacts, Moves
<1>2. ct'[x] \in Nat
  BY DEF TypeOK
<1> QED
  BY SMTT(30), <1>1, <1>2

LEMMA GuardStays ==
    ASSUME InsertInv, OnlyInserts, SeqFits, TypeOK', NEW r \in Replica, NEW x \in Txn, NEW y \in Txn,
           Effects(r, x), Effects(r, y), pc'[y] \in {"idle", "mint", "preaccept"}, ct'[x] = ct[x],
           x \in index[r], tt[r][x] >= ct[x], y \in index[r] => tt[r][y] >= ct[x]
    PROVE  x \in index'[r] /\ tt'[r][x] >= ct'[x] /\ (y \in index'[r] => tt'[r][y] >= ct'[x])
<1>1. TypeOK /\ tt[r][x] \in Nat /\ ct[x] \in Nat /\ tt[r][y] \in Nat
  BY InsertFacts
<1>2. x \in index'[r] /\ tt'[r][x] >= ct'[x]
  <2>1. x \in index'[r] /\ (tt'[r][x] = tt[r][x] \/ tt'[r][x] = ct'[x])
    BY InsertFacts, Moves
  <2> QED
    BY SMTT(30), <1>1, <2>1
<1>3. ASSUME y \in index'[r] PROVE tt'[r][y] >= ct'[x]
  <2>1. CASE Same(r, y)
    <3>1. y \in index[r] /\ tt'[r][y] = tt[r][y]
      BY <1>3, <2>1 DEF Same
    <3> QED
      BY <3>1
  <2>2. CASE RegisteredAt(r, y)
    <3>1. tt'[r][y] = ProposedT(r, y)
      BY <2>2 DEF RegisteredAt
    <3>2. ProposedT(r, y) \in Nat /\ ProposedT(r, y) > tt[r][x]
      BY <1>1, ProposesAbove
    <3> QED
      BY SMTT(30), <1>1, <3>1, <3>2
  <2> QED
    BY <2>1, <2>2, Registers
<1> QED
  BY <1>2, <1>3

LEMMA SuppStep ==
    ASSUME InsertInv, OnlyInserts, TypeOK', NEW x \in Txn, Replica' = Replica, Live(x)',
           CoordStays(x) \/ CoordMoves(x), \A q \in Replica : Effects(q, x)
    PROVE  /\ IsQuorum(Supp(x)')
           /\ Live(x) => ct'[x] = ct[x]
           /\ ~Live(x) => /\ CoordMoves(x) /\ pc[x] = "preaccept" /\ pc'[x] \in {"accept", "commit"}
<1>1. TypeOK /\ Supp(x)' \in SUBSET Replica
  BY DEF InsertInv, StampInv, ProposedInv, HoldInv, RoundInv, Supp
<1>2. \/ Live(x) /\ ct'[x] = ct[x]
      \/ ~Live(x) /\ CoordMoves(x) /\ pc[x] = "preaccept" /\ pc'[x] \in {"accept", "commit"}
  <2>1. Rounds(x)
    BY DEF InsertInv, StampInv, ProposedInv, HoldInv, RoundInv
  <2>2. pc[x] = "preaccept" => ~Live(x)
    BY <2>1 DEF Rounds, Live
  <2> QED
    BY <2>2, Turns DEF Live
<1>3. \E Q \in SUBSET Replica : IsQuorum(Q) /\ \A r \in Q : x \in index[r] /\ tt[r][x] <= ct'[x]
  <2>1. CASE Live(x) /\ ct'[x] = ct[x]
    <3>1. IsQuorum(Supp(x)) /\ Supp(x) \in SUBSET Replica
      BY <2>1 DEF InsertInv, Waited, Supp
    <3>2. \A r \in Supp(x) : x \in index[r] /\ tt[r][x] <= ct'[x]
      BY <2>1 DEF Supp
    <3> QED
      BY <3>1, <3>2
  <2> QED
    BY <1>2, <2>1, QuorumDecides
<1>4. PICK Q \in SUBSET Replica : IsQuorum(Q) /\ \A r \in Q : x \in index[r] /\ tt[r][x] <= ct'[x]
  BY <1>3
<1>5. Q \subseteq Supp(x)'
  BY <1>4, SuppStays DEF Supp
<1>6. IsQuorum(Supp(x)') 
  BY <1>1, <1>4, <1>5, LargerQuorum
<1> QED
  BY <1>2, <1>6

\* An insert that is to be ordered before y is applied where y was read.
LEMMA CleanStep ==
    ASSUME InsertInv, OnlyInserts, TypeOK', RoundInv, Next, NEW x \in Txn, NEW y \in Txn, Replica' = Replica,
           Live(x)', pc'[y] = "read", ct'[x] < ct'[y],
           \A q \in Replica : Reader(q, y)',
           \A q \in Replica, z \in Txn : Effects(q, z) /\ ReadStep(q, z)
    PROVE  IsQuorum(Clean(x, y)')
<1>1. TypeOK /\ Clean(x, y)' \in SUBSET Replica /\ \A z \in Txn : CoordStays(z) \/ CoordMoves(z)
  <2>1. TypeOK
    BY DEF InsertInv, StampInv, ProposedInv, HoldInv, RoundInv
  <2>2. PICK q \in Replica : TRUE
    <3>1. Replica # {}
      BY SMTT(30), <2>1, SetupFacts, FS_EmptySet
    <3> QED
      BY <3>1
  <2> QED
    BY <2>1, <2>2 DEF Effects, Clean, Supp
<1>2. /\ IsQuorum(Supp(x)')
      /\ Live(x) => ct'[x] = ct[x]
      /\ ~Live(x) => /\ CoordMoves(x) /\ pc[x] = "preaccept" /\ pc'[x] \in {"accept", "commit"}
  BY <1>1, SuppStep
<1>3. CASE pc[y] # "read"
  <2>1. \A r \in Replica : reads'[y][r] = NoRead
    <3>1. ASSUME NEW r \in Replica PROVE reads'[y][r] = NoRead
      <4>1. reads[y][r] = NoRead
        BY <1>3, InsertFacts DEF Reader
      <4> QED
        BY <1>3, <4>1 DEF ReadStep
    <3> QED
      BY <3>1
  <2>2. Clean(x, y)' = Supp(x)'
    BY <2>1 DEF Clean, Passed, Supp
  <2> QED
    BY <1>2, <2>2
<1>4. CASE pc[y] = "read" /\ ~Live(x)
  <2>1. PICK Q \in SUBSET Replica : IsQuorum(Q) /\ \A r \in Q : x \in index[r] /\ tt[r][x] <= ct'[x]
    BY <1>2, <1>4, QuorumDecides
  <2>2. ct'[y] = ct[y]
    BY <1>1, <1>4 DEF CoordStays, CoordMoves
  <2>3. ASSUME NEW r \in Q PROVE ~Passed(y, r)'
    <3>1. ~Passed(y, r)
      <4>1. /\ Reader(r, y) /\ tt[r][x] \in Nat /\ ct[y] \in Nat
        BY InsertFacts
      <4>2. ct'[x] \in Nat
        BY DEF TypeOK
      <4>3. ASSUME Passed(y, r) PROVE FALSE
        <5>1. tt[r][x] >= ct[y]
          BY <1>2, <1>4, <2>1, <4>1, <4>3 DEF Reader
        <5> QED
          BY SMTT(30), <2>1, <2>2, <4>1, <4>2, <5>1
      <4> QED
        BY <4>3
    <3>2. pc' # pc
      BY <1>2, <1>4
    <3> QED
      BY <1>4, <3>1, <3>2 DEF ReadStep, Passed
  <2>4. Q \subseteq Clean(x, y)'
    BY <2>1, <2>3, SuppStays DEF Clean, Supp
  <2> QED
    BY <1>1, <2>1, <2>4, LargerQuorum
<1>5. CASE pc[y] = "read" /\ Live(x)
  <2>1. ct'[y] = ct[y] /\ ct'[x] = ct[x] /\ ct[x] < ct[y]
    BY <1>1, <1>2, <1>5 DEF CoordStays, CoordMoves
  <2>2. IsQuorum(Clean(x, y))
    BY <1>5, <2>1 DEF InsertInv, Waited
  <2>3. ASSUME NEW r \in Clean(x, y) PROVE r \in Clean(x, y)'
    <3>1. /\ r \in Replica /\ x \in index[r] /\ tt[r][x] <= ct[x]
          /\ Passed(y, r) => phase[r][x] = "Applied" /\ reads[y][r] # Absent
      BY DEF Clean, Supp
    <3>2. x \in index'[r] /\ tt'[r][x] <= ct'[x]
      BY <2>1, <3>1, SuppStays
    <3>3. ASSUME Passed(y, r)' PROVE phase'[r][x] = "Applied" /\ reads'[y][r] # Absent
      <4>1. reads'[y][r] # NoRead /\ Effects(r, x) /\ ReadStep(r, y)
        BY <3>1, <3>3 DEF Passed
      <4>2. CASE reads'[y][r] = reads[y][r]
        BY <1>5, <3>1, <4>1, <4>2, InsertFacts, Moves DEF Passed
      <4>3. CASE phase' = phase /\ reads[y][r] = NoRead /\ reads'[y][r] = Ready /\ Unapplied(r, ct[y]) = {}
        <5>1. /\ T0(x) <= ct[x] /\ T0(x) \in Nat /\ ct[x] \in Nat /\ ct[y] \in Nat /\ phase[r][x] \in Phase
              /\ Agreeing(r, x) /\ phase[r][x] # "none"
          BY <1>5, <3>1, InsertFacts DEF Stamped, Live, Justified
        <5>2. x \in DepsBefore(r, ct[y])
          BY SMTT(30), <2>1, <3>1, <5>1 DEF DepsBefore
        <5>3. phase[r][x] = "Applied"
          <6>1. phase[r][x] = "Committed" => tt[r][x] = ct[x]
            BY <5>1 DEF Agreeing
          <6> QED
            BY <2>1, <4>3, <5>1, <5>2, <6>1 DEF Unapplied, Phase
        <5> QED
          BY SMTT(30), <4>3, <5>3 DEF Ready, Absent
      <4>4. CASE phase' = phase /\ reads[y][r] = Ready /\ reads'[y][r] = RowAt(r, ct[y])
        <5>1. phase[r][x] = "Applied"
          BY SMTT(30), <1>5, <3>1, <4>4 DEF Passed, Ready, NoRead
        <5>2. RowAt(r, ct[y]) # Absent
          BY <1>5, <2>1, <3>1, <5>1, RowIsSeen
        <5> QED
          BY <4>4, <5>1, <5>2
      <4> QED
        BY <4>1, <4>2, <4>3, <4>4 DEF ReadStep, OnlyInserts
    <3> QED
      BY <3>1, <3>2, <3>3 DEF Clean, Supp
  <2>4. Clean(x, y) \subseteq Clean(x, y)'
    BY <2>3
  <2> QED
    BY <1>1, <2>2, <2>4, LargerQuorum
<1> QED
  BY <1>3, <1>4, <1>5

\* Nobody's read of no row by a quorum is compatible with a live earlier insert.
LEMMA GateIsLast ==
    ASSUME InsertInv, NEW x \in Txn, NEW y \in Txn, Live(x), pc[y] = "read", ct[x] < ct[y], Agreed(y, Absent)
    PROVE  FALSE
<1> DEFINE A == {r \in Replica : reads[y][r] = Absent}
<1>1. TypeOK /\ A \in SUBSET Replica /\ Clean(x, y) \in SUBSET Replica
  BY DEF InsertInv, StampInv, ProposedInv, HoldInv, RoundInv, Clean, Supp
<1>2. Cardinality(A) >= SlowQuorum
  BY DEF Agreed
<1>3. Cardinality(Clean(x, y)) >= SlowQuorum \/ Cardinality(Clean(x, y)) >= FastQuorum
  BY DEF InsertInv, Waited, IsQuorum
<1> HIDE DEF A
<1>4. PICK r \in A : r \in Clean(x, y)
  BY <1>1, <1>2, <1>3, QuorumsMeet
<1> QED
  BY SMTT(30), <1>4 DEF A, Clean, Passed, Absent, NoRead

LEMMA WaitedStep ==
    ASSUME InsertInv, OnlyInserts, SeqFits, TypeOK', RoundInv, StampInv', Apart', Next, NEW x \in Txn, NEW y \in Txn,
           Replica' = Replica, Home' = Home,
           \A q \in Replica : Reader(q, y)',
           \A q \in Replica, z \in Txn : Effects(q, z) /\ ReadStep(q, z)
    PROVE  Waited(x, y)'
<1>1. TypeOK /\ \A z \in Txn : (CoordStays(z) \/ CoordMoves(z)) /\ Rounds(z) /\ Rounds(z)'
  <2>1. TypeOK /\ \A z \in Txn : Rounds(z) /\ Rounds(z)'
    BY DEF InsertInv, StampInv, ProposedInv, HoldInv, RoundInv
  <2>2. PICK q \in Replica : TRUE
    <3>1. Replica # {}
      BY SMTT(30), <2>1, SetupFacts, FS_EmptySet
    <3> QED
      BY <3>1
  <2> QED
    BY <2>1, <2>2 DEF Effects
<1>2. SlowQuorum' = SlowQuorum /\ FastQuorum' = FastQuorum /\ SlowQuorum \in Nat
  BY <1>1, QuorumFacts DEF SlowQuorum, FastQuorum, RF
<1>3. PICK w \in Txn : \A z \in Txn : z # w => got'[z] = got[z] /\ pc'[z] = pc[z]
  BY OneActs
<1>4. ASSUME Live(x)' PROVE IsQuorum(Supp(x)')
  BY <1>1, <1>4, SuppStep
<1>5. ASSUME Live(x)', pc'[y] = "read", ct'[x] < ct'[y] PROVE IsQuorum(Clean(x, y)')
  BY <1>5, CleanStep
<1>6. ASSUME "Apply" \in sent'[x], pc'[y] \in {"idle", "mint", "preaccept"}
      PROVE  Cardinality(Guard(x, y)') >= SlowQuorum
  <2>1. \E S \in SUBSET Replica :
           /\ Cardinality(S) >= SlowQuorum
           /\ \A r \in S : x \in index[r] /\ tt[r][x] >= ct[x] /\ (y \in index[r] => tt[r][y] >= ct[x])
    <3>0. pc[y] \in {"idle", "mint", "preaccept"}
      BY <1>1, <1>6 DEF CoordStays, CoordMoves
    <3>1. CASE "Apply" \in sent[x]
      <4>1. Cardinality(Guard(x, y)) >= SlowQuorum
        BY <3>0, <3>1 DEF InsertInv, Waited
      <4> QED
        BY SMTT(30), <4>1 DEF Guard
    <3>2. CASE pc[x] = "read" /\ Agreed(x, Absent)
      <4> DEFINE A == {r \in Replica : reads[x][r] = Absent}
      <4>1. Cardinality(A) >= SlowQuorum
        BY <3>2 DEF Agreed
      <4>2. ASSUME NEW r \in A
            PROVE  x \in index[r] /\ tt[r][x] >= ct[x] /\ (y \in index[r] => tt[r][y] >= ct[x])
        <5>1. r \in Replica /\ Reader(r, x) /\ Passed(x, r)
          BY SMTT(30), <3>2, InsertFacts DEF Passed, Absent, NoRead
        <5>2. y \in index[r] => pc[y] = "preaccept"
          BY <1>6, <5>1, Registers
        <5> QED
          BY <5>1, <5>2 DEF Reader
      <4> QED
        BY <4>1, <4>2
    <3> QED
      BY <1>1, <1>6, <3>1, <3>2, Turns
  <2>2. PICK S \in SUBSET Replica :
           /\ Cardinality(S) >= SlowQuorum
           /\ \A r \in S : x \in index[r] /\ tt[r][x] >= ct[x] /\ (y \in index[r] => tt[r][y] >= ct[x])
    BY <2>1
  <2>3. ct'[x] = ct[x]
    BY <1>1, <1>6, Turns
  <2>4. ASSUME NEW r \in S PROVE r \in Guard(x, y)'
    <3>1. x \in index'[r] /\ tt'[r][x] >= ct'[x] /\ (y \in index'[r] => tt'[r][y] >= ct'[x])
      BY <1>6, <2>2, <2>3, GuardStays
    <3> QED
      BY <3>1 DEF Guard
  <2>5. /\ Cardinality(S) \in Nat /\ Cardinality(Guard(x, y)') \in Nat
        /\ Cardinality(S) <= Cardinality(Guard(x, y)')
    <3>1. S \subseteq Guard(x, y)' /\ Guard(x, y)' \in SUBSET Replica
      BY <2>4 DEF Guard
    <3> QED
      BY <1>1, <3>1, LargerSet
  <2> QED
    BY SMTT(30), <1>2, <2>2, <2>5
<1>7. ASSUME "Apply" \in sent'[x], pc'[y] \in {"accept", "commit", "read"} PROVE ct'[x] < ct'[y]
  <2>1. ct'[x] = ct[x] /\ ct[x] \in Nat /\ ct'[y] \in Nat
    BY <1>1, <1>7, Turns, Types DEF TypeOK
  <2>2. x # y
    BY SMTT(30), <1>1, <1>7 DEF Rounds
  <2>3. ct'[x] # ct'[y]
    <3>1. sent'[x] \cap {"Accept", "Commit"} # {} /\ sent'[y] \cap {"Accept", "Commit"} # {}
      <4>1. sent'[y] \cap {"Accept", "Commit"} # {}
        BY <1>1, <1>7 DEF Rounds
      <4>2. sent'[x] \cap {"Accept", "Commit"} # {}
        <5>1. sent[x] \cap {"Accept", "Commit"} # {} /\ sent[x] \subseteq sent'[x]
          <6>1. "Apply" \in sent[x] \/ pc[x] = "read"
            BY <1>1, <1>7, Turns
          <6>2. sent[x] \cap {"Accept", "Commit"} # {}
            <7>1. pc[x] = "read" => "Commit" \in sent[x]
              BY <1>1 DEF Rounds
            <7> QED
              BY <1>1, <6>1, <7>1, Turns
          <6>3. sent[x] \subseteq sent'[x]
            BY <1>1 DEF CoordStays, CoordMoves
          <6> QED
            BY <6>2, <6>3
        <5> QED
          BY <5>1
      <4> QED
        BY <4>1, <4>2
    <3> QED
      BY <2>2, <3>1 DEF Apart
  <2>4. CASE "Apply" \in sent[x] /\ pc[y] \in {"accept", "commit", "read"} /\ ct'[y] = ct[y]
    BY <2>1, <2>4 DEF InsertInv, Waited
  <2>5. CASE "Apply" \in sent[x] /\ CoordMoves(y) /\ pc[y] = "preaccept" /\ pc'[y] \in {"accept", "commit"}
    <3>1. PICK Q \in SUBSET Replica : IsQuorum(Q) /\ \A r \in Q : y \in index[r] /\ tt[r][y] <= ct'[y]
      BY <2>5, QuorumDecides
    <3>2. Cardinality(Guard(x, y)) >= SlowQuorum /\ Guard(x, y) \in SUBSET Replica
      BY <2>5 DEF InsertInv, Waited, Guard
    <3>3. PICK r \in Guard(x, y) : r \in Q
      BY <1>1, <3>1, <3>2, QuorumsMeet DEF IsQuorum
    <3>4. tt[r][y] <= ct'[y] /\ tt[r][y] >= ct[x] /\ r \in Replica
      BY <3>1, <3>3 DEF Guard
    <3>5. tt[r][y] \in Nat
      BY <3>4, InsertFacts
    <3> QED
      BY SMTT(30), <2>1, <2>3, <3>4, <3>5
  <2>6. CASE "Apply" \notin sent[x]
    <3>1. pc[x] = "read" /\ pc'[x] = "apply" /\ Agreed(x, Absent)
      BY <1>1, <1>7, <2>6, Turns
    <3>2. pc'[y] = pc[y] /\ ct'[y] = ct[y]
      <4>1. pc'[y] = pc[y]
        BY <1>3, <2>2, <3>1
      <4> QED
        BY <1>1, <1>7, <4>1 DEF CoordStays, CoordMoves
    <3>3. Live(y)
      BY SMTT(30), <1>1, <1>7, <3>2 DEF Rounds, Live
    <3>4. ~(ct[y] < ct[x])
      BY <3>1, <3>3, GateIsLast
    <3> QED
      BY SMTT(30), <2>1, <2>3, <3>2, <3>4
  <2> QED
    BY <1>1, <1>7, <2>4, <2>5, <2>6, Turns
<1>8. ASSUME "Apply" \in sent'[x], "Apply" \in sent'[y], x # y PROVE FALSE
  <2>1. ASSUME NEW u \in Txn, NEW v \in Txn, u # v, "Apply" \in sent[u], "Apply" \notin sent[v], "Apply" \in sent'[v]
        PROVE  FALSE
    <3>1. pc[v] = "read" /\ Agreed(v, Absent) /\ Live(u)
      BY <1>1, <2>1, Turns DEF Live
    <3>2. ct[u] < ct[v]
      BY <2>1, <3>1 DEF InsertInv, Waited
    <3> QED
      BY <3>1, <3>2, GateIsLast
  <2>2. ~("Apply" \in sent[x] /\ "Apply" \in sent[y])
    BY <1>8 DEF InsertInv, Waited
  <2>3. ~("Apply" \notin sent[x] /\ "Apply" \notin sent[y])
    BY <1>1, <1>3, <1>8, Turns
  <2> QED
    BY <1>8, <2>1, <2>2, <2>3
<1> QED
  BY <1>2, <1>4, <1>5, <1>6, <1>7, <1>8 DEF Waited, IsQuorum

LEMMA ExistedStep ==
    ASSUME InsertInv, OnlyInserts, RoundInv, Next, Prior # {}, Replica' = Replica, TypeOK',
           \A q \in Replica, z \in Txn : Effects(q, z) /\ ReadStep(q, z)
    PROVE  Existed'
<1>1. TypeOK /\ \A z \in Txn : CoordStays(z) \/ CoordMoves(z)
  <2>1. TypeOK
    BY DEF RoundInv
  <2>2. PICK q \in Replica : TRUE
    <3>1. Replica # {}
      BY SMTT(30), <2>1, SetupFacts, FS_EmptySet
    <3> QED
      BY <3>1
  <2> QED
    BY <2>1, <2>2 DEF Effects
<1>2. /\ \A x \in Txn : "Apply" \notin sent[x]
      /\ \A r \in Replica, y \in Txn : reads[y][r] # Absent
      /\ \A z \in Prior : /\ \A n \in Node : clock[n] >= D * z
                          /\ \A y \in Txn \ Prior : pc[y] # "idle" => y > z
  BY DEF InsertInv, Existed
<1>3. \A z \in Txn : z \in Nat /\ D * z \in Nat
  BY SMTT(30), <1>1, SetupFacts, DInt
<1>4. ASSUME NEW x \in Txn PROVE "Apply" \notin sent'[x]
  <2>1. ASSUME Agreed(x, Absent) PROVE FALSE
    <3> DEFINE A == {r \in Replica : reads[x][r] = Absent}
    <3>1. Cardinality(A) >= SlowQuorum
      BY <2>1 DEF Agreed
    <3>2. A # {}
      <4> HIDE DEF A
      <4> QED
        BY <1>1, <3>1, QuorumNotEmpty
    <3> QED
      BY <1>2, <3>2
  <2> QED
    BY <1>1, <1>2, <2>1, Turns
<1>5. ASSUME NEW z \in Prior, NEW n \in Node PROVE clock'[n] >= D * z
  <2>1. clock'[n] >= clock[n] /\ clock[n] >= D * z
    BY <1>2, ClockGrows
  <2>2. clock'[n] \in Nat /\ clock[n] \in Nat /\ D * z \in Nat
    BY <1>1, <1>3, Statements DEF TypeOK
  <2> QED
    BY SMTT(30), <2>1, <2>2
<1>6. ASSUME NEW z \in Prior, NEW y \in Txn \ Prior, pc'[y] # "idle" PROVE y > z
  <2>1. CASE pc[y] # "idle"
    BY <1>2, <2>1
  <2>2. CASE pc[y] = "idle"
    <3>1. D * y > clock[Home[y]]
      BY <1>1, <1>6, <2>2 DEF CoordStays, CoordMoves
    <3>2. clock[Home[y]] >= D * z /\ clock[Home[y]] \in Nat
      BY <1>1, <1>2, SetupFacts DEF TypeOK
    <3>3. y \in Nat /\ z \in Nat
      BY <1>3, Statements
    <3>4. D * y > D * z
      BY SMTT(30), <1>3, <3>1, <3>2, Statements
    <3> QED
      BY <3>3, <3>4, Z3 DEF D
  <2> QED
    BY <2>1, <2>2
<1>7. ASSUME NEW r \in Replica, NEW y \in Txn, pc[y] = "read" PROVE RowAt(r, ct[y]) # Absent
  <2>1. /\ y \notin Prior /\ ct[y] >= T0(y) /\ ct[y] \in Nat /\ T0(y) \in Nat
    BY <1>7, InsertFacts DEF Rounds, Stamped
  <2>2. PICK z \in Prior : TRUE
    OBVIOUS
  <2>3. Written(r) # {}
    <3>1. z \in Txn /\ T0(z) > 0 /\ T0(z) \in Nat
      BY <1>1, SetupFacts, Statements
    <3>2. rowT[r][z] = T0(z)
      BY <3>1, InsertFacts DEF Stamped
    <3> QED
      BY SMTT(30), <3>1, <3>2 DEF Written
  <2>4. Current(r) \in Written(r)
    BY <1>1, <2>3, CurrentIsWritten
  <2> DEFINE c == Current(r)
  <2>5. c \in Prior /\ c \in Txn
    <3>1. c \in Txn /\ rowT[r][c] # 0
      BY <2>4 DEF Written
    <3> QED
      BY <1>2, <3>1, InsertFacts DEF Justified
  <2>6. rowT[r][c] = T0(c)
    BY <2>5, InsertFacts DEF Stamped
  <2>7. y > c
    BY <1>2, <1>7, <2>1, <2>5
  <2>8. T0(c) <= T0(y) /\ T0(c) \in Nat
    <3>1. c \in Nat /\ y \in Nat /\ T0(c) \in Nat /\ T0(y) \in Nat
      BY <1>1, <1>3, <2>5, SetupFacts
    <3>2. T0(c) < T0(y)
      BY <1>1, <2>5, <2>7, <3>1, T0Facts
    <3> QED
      BY SMTT(30), <3>1, <3>2
  <2>9. CellTs(T0(c)) <= CellTs(ct[y])
    <3>1. T0(c) <= ct[y]
      BY SMTT(30), <2>1, <2>8
    <3> HIDE DEF c
    <3> QED
      BY <2>1, <2>8, <3>1, CellTsFacts
  <2> QED
    BY <1>1, <2>1, <2>3, <2>6, <2>9, RowAtFacts
<1>8. ASSUME NEW r \in Replica, NEW y \in Txn PROVE reads'[y][r] # Absent
  BY SMTT(30), <1>2, <1>7 DEF ReadStep, OnlyInserts, NoRead, Ready, Absent
<1> QED
  BY <1>4, <1>5, <1>6, <1>8 DEF Existed

LEMMA InsertInit == Init => InsertInv
<1> SUFFICES ASSUME Init PROVE InsertInv
  OBVIOUS
<1>1. TypeOK /\ OrderInv /\ StampInv /\ \A x \in Txn : Rounds(x)
  BY OrderInit, StampInit DEF OrderInv, ProposedInv, HoldInv, RoundInv
<1>2. /\ \A x \in Txn : sent[x] = {} /\ pc[x] = (IF x \in Prior THEN "ok" ELSE "idle")
      /\ \A x \in Txn, r \in Replica : reads[x][r] = NoRead /\ phase[r][x] = "none" /\ rowT[r][x] = ct[x]
      /\ \A x \in Txn : ct[x] = (IF x \in Prior THEN T0(x) ELSE 0)
  BY DEF Init
<1>3. \A r \in Replica, x \in Txn : Reader(r, x) /\ Stamped(r, x)
  BY <1>2 DEF Reader, Passed, Stamped
<1>4. \A x, y \in Txn : Waited(x, y)
  BY <1>2 DEF Waited, Live
<1>5. Existed
  <2>1. ASSUME NEW z \in Prior, NEW n \in Node PROVE clock[n] >= D * z
    <3> DEFINE f == [x \in Prior |-> D * x]
               m == Max({0} \cup {f[x] : x \in Prior})
    <3>1. clock[n] = m /\ f[z] = D * z
      <4>1. {f[x] : x \in Prior} = {D * x : x \in Prior}
        OBVIOUS
      <4> QED
        BY <4>1 DEF Init
    <3>2. f \in [Prior -> Nat]
      BY SMTT(30), <1>1, SetupFacts, Statements, DInt
    <3>3. m >= f[z]
      <4> HIDE DEF f
      <4> QED
        BY <3>2, PriorMax
    <3> QED
      BY <3>1, <3>3
  <2>2. Prior \subseteq Txn
    BY Statements
  <2> QED
    BY SMTT(30), <1>2, <2>1, <2>2 DEF Existed, NoRead, Absent
<1> QED
  BY <1>1, <1>3, <1>4, <1>5 DEF InsertInv

LEMMA InsertStep == OnlyInserts /\ InsertInv /\ SeqFits /\ [Next]_vars => InsertInv'
<1>1. ASSUME OnlyInserts, InsertInv, SeqFits, Next PROVE InsertInv'
  <2>1. OrderInv' /\ StampInv' /\ RoundInv /\ "prune" \notin Env /\ InOrder
    <3>1. InOrder /\ "prune" \notin Env
      BY <1>1 DEF OnlyInserts, InOrder
    <3>2. OrderInv /\ StampInv /\ RoundInv
      BY <1>1 DEF InsertInv, StampInv, ProposedInv, HoldInv
    <3> QED
      BY <1>1, <3>1, <3>2, OrderStep, StampStep
  <2>2. TypeOK' /\ Replica' = Replica /\ Home' = Home /\ \A q \in Replica, y \in Txn : Effects(q, y)
    BY <1>1, <2>1, StepEffects
  <2>3. \A q \in Replica, y \in Txn : Effects(q, y) /\ ReadStep(q, y)
    BY <1>1, <2>1, <2>2, ReadEffects DEF RoundInv
  <2>4. \A q \in Replica, x \in Txn : Reader(q, x)' /\ Stamped(q, x)'
    BY <1>1, <2>2, <2>3, ReaderStep, StampedStep
  <2>5. Apart'
    BY <2>1, StampsApart, PTL
  <2>6. \A x, y \in Txn : Waited(x, y)'
    BY <1>1, <2>1, <2>2, <2>3, <2>4, <2>5, WaitedStep
  <2>7. Existed'
    BY <1>1, <2>1, <2>2, <2>3, ExistedStep DEF Existed
  <2> QED
    BY <2>1, <2>2, <2>4, <2>6, <2>7 DEF InsertInv
<1>2. ASSUME OnlyInserts, InsertInv, SeqFits, UNCHANGED vars PROVE InsertInv'
  <2>1. OrderInv' /\ StampInv'
    <3>1. OrderInv /\ StampInv /\ InOrder /\ "prune" \notin Env
      BY <1>2 DEF InsertInv, OnlyInserts, InOrder
    <3> QED
      BY <1>2, <3>1, OrderStep, StampStep
  <2>2. UNCHANGED <<Replica, Home, clock, pc, sent, ct, reads, phase, tt, index, rowT>>
    BY <1>2 DEF vars
  <2>3. \A r \in Replica, x \in Txn : Reader(r, x)' /\ Stamped(r, x)'
    BY <1>2, <2>2 DEF InsertInv, Reader, Passed, Stamped, T0, Stamp
  <2>4. ASSUME NEW x \in Txn, NEW y \in Txn PROVE Waited(x, y)'
    <3>1. Waited(x, y)
      BY <1>2 DEF InsertInv
    <3>2. /\ Supp(x)' = Supp(x) /\ Clean(x, y)' = Clean(x, y) /\ Guard(x, y)' = Guard(x, y)
          /\ SlowQuorum' = SlowQuorum /\ FastQuorum' = FastQuorum
      BY <2>2 DEF Supp, Clean, Guard, Passed, SlowQuorum, FastQuorum, RF
    <3> QED
      BY <2>2, <3>1, <3>2 DEF Waited, Live, IsQuorum
  <2>5. Existed'
    BY <1>2, <2>2 DEF InsertInv, Existed
  <2> QED
    BY <2>1, <2>2, <2>3, <2>4, <2>5 DEF InsertInv
<1> QED
  BY <1>1, <1>2

\* Without failures, among any number of INSERT IF NOT EXISTS on the key one at most
\* is acknowledged, and none where a row was there before: a read vote waits for every
\* conflict before t, and of two inserts the earlier is seen by a replica in each
\* quorum the later reads from (unapplied_conflicts_before, agreed_row).
THEOREM OneWins == OnlyInserts => (Spec /\ []SeqFits => []OneInsertWins)
<1> SUFFICES ASSUME OnlyInserts PROVE Spec /\ []SeqFits => []OneInsertWins
  OBVIOUS
<1>1. InsertInv /\ SeqFits /\ [Next]_vars => InsertInv'
  BY InsertStep
<1>2. ASSUME InsertInv PROVE OneInsertWins
  <2>1. ASSUME NEW x \in Txn \ Prior, pc[x] = "ok" PROVE "Apply" \in sent[x]
    BY <1>2, <2>1 DEF InsertInv, StampInv, ProposedInv, HoldInv, RoundInv, Rounds
  <2> QED
    BY <1>2, <2>1, Statements DEF InsertInv, Waited, Existed, OneInsertWins
<1> QED
  BY <1>1, <1>2, InsertInit, PTL DEF Spec
==============================================================================
