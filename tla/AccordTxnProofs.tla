--------------------------- MODULE AccordTxnProofs ---------------------------
EXTENDS AccordInvariants, FiniteSetTheorems, TLAPS

\* Most steps are first-order: Zenon proves them. A step that needs arithmetic, or
\* what an update does to a function, cites SMTT or Z3.
USE ZenonT(30)

\* A finite nonempty set of numbers has a greatest element, which Max chooses.
LEMMA MaxOfFinite ==
    ASSUME NEW S \in SUBSET Int, IsFiniteSet(S), S # {}
    PROVE  Max(S) \in S /\ \A y \in S : y <= Max(S)
<1> DEFINE NoMax == {A \in SUBSET S : A # {} /\ ~ \E x \in A : \A y \in A : x >= y}
<1>1. NoMax = {}
  <2> SUFFICES ASSUME NoMax # {} PROVE FALSE
    OBVIOUS
  <2> HIDE DEF NoMax
  <2>1. PICK A \in NoMax : \A B \in NoMax : ~ (<<B, A>> \in StrictSubsetOrdering(S))
    <3>1. NoMax \subseteq SUBSET S
      BY DEF NoMax
    <3>2. IsWellFoundedOn(StrictSubsetOrdering(S), FiniteSubsetsOf(S))
      BY FS_StrictSubsetOrderingWellFounded
    <3> QED
      BY <3>1, <3>2, WFMin, FS_FiniteSubsetsOfFinite
  <2>2. A \in SUBSET S /\ A # {} /\ ~ \E x \in A : \A y \in A : x >= y
    BY DEF NoMax
  <2>3. PICK x \in A : TRUE
    BY <2>2
  <2>4. A \ {x} \notin NoMax
    BY <2>1, <2>2, <2>3 DEF StrictSubsetOrdering
  <2>5. CASE A \ {x} = {}
    BY SMTT(30), <2>2, <2>3, <2>5
  <2>6. CASE A \ {x} # {}
    <3>1. PICK m \in A \ {x} : \A y \in A \ {x} : m >= y
      BY <2>2, <2>4, <2>6 DEF NoMax
    <3> QED
      BY SMTT(30), <2>2, <2>3, <3>1
  <2> QED
    BY <2>5, <2>6
<1>2. \E x \in S : \A y \in S : x >= y
  BY <1>1
<1> QED
  BY <1>2 DEF Max

\* The image of a finite set under a function is finite.
LEMMA ImageOfFinite ==
    ASSUME NEW S, IsFiniteSet(S), NEW f
    PROVE  IsFiniteSet({f[x] : x \in S})
<1> DEFINE g == [x \in S |-> f[x]]
<1>1. g \in Surjection(S, {f[x] : x \in S})
  BY DEF Surjection
<1> QED
  BY <1>1, FS_Surjection

------------------------------------------------------------------------------
\* The setup and its quorums

LEMMA DInt == D \in Nat /\ D > 1 /\ D - 1 \in Nat
BY Z3 DEF D

LEMMA KindFacts == {"PreAccept", "Accept", "Commit", "Apply", "NoWrite"} \subseteq Kind
BY DEF Kind

\* What the setup says of replicas and homes: at least two replicas, all of them
\* nodes, and t0 is a number with sequence number 0.
LEMMA SetupFacts ==
    ASSUME TypeOK
    PROVE  /\ Replica \subseteq Node /\ Replica \subseteq 0 .. D - 1
           /\ IsFiniteSet(Replica) /\ Cardinality(Replica) \in Nat /\ Cardinality(Replica) > 1
           /\ Home \in [Txn -> Node]
           /\ Txn \subseteq 1 .. D - 1 /\ IsFiniteSet(Txn)
           /\ \A x \in Txn : /\ Home[x] \in 0 .. D - 1 /\ T0(x) \in Nat /\ T0(x) > 0
                           /\ T0(x) = D * (D * x) + Home[x]
<1>1. PICK s \in Setups : Replica = s.replicas /\ Home = s.home
  BY DEF TypeOK
<1>2. Replica \subseteq Node /\ Cardinality(Replica) > 1 /\ Home \in [Txn -> Node]
  BY <1>1, Copies
<1>3. Node \subseteq 0 .. D - 1 /\ Txn \subseteq 1 .. D - 1
  BY StampDigits
<1>4. IsFiniteSet(0 .. D - 1) /\ IsFiniteSet(1 .. D - 1)
  BY SMTT(30), DInt, FS_Interval
<1>5. IsFiniteSet(Replica) /\ IsFiniteSet(Txn)
  BY <1>2, <1>3, <1>4, FS_Subset
<1>6. Cardinality(Replica) \in Nat
  BY <1>5, FS_CardinalityType
<1>7. ASSUME NEW x \in Txn
      PROVE  /\ Home[x] \in 0 .. D - 1 /\ T0(x) \in Nat /\ T0(x) > 0
             /\ T0(x) = D * (D * x) + Home[x]
  <2>1. Home[x] \in 0 .. D - 1 /\ x \in 1 .. D - 1
    BY <1>2, <1>3
  <2>2. Home[x] \in Nat /\ x \in Nat /\ x > 0
    BY SMTT(30), <2>1, DInt
  <2>3. T0(x) = D * (D * x) + Home[x]
    BY <2>2, Z3 DEF T0, Stamp, D
  <2>4. T0(x) \in Nat /\ T0(x) > 0
    BY <2>2, <2>3, Z3 DEF D
  <2> QED
    BY <2>1, <2>3, <2>4
<1> QED
  BY <1>2, <1>3, <1>5, <1>6, <1>7

\* A slow quorum meets every slow and every fast quorum, and is not empty.
LEMMA QuorumFacts ==
    ASSUME TypeOK
    PROVE  /\ SlowQuorum \in Nat /\ SlowQuorum > 1 /\ 2 * SlowQuorum > RF /\ SlowQuorum <= RF
           /\ FastQuorum \in Nat /\ FastQuorum > 0 /\ FastQuorum + SlowQuorum > RF
           /\ RF \in Nat
<1> DEFINE n == Cardinality(Replica)
<1>1. n \in Nat /\ n > 1
  BY SetupFacts
<1> HIDE DEF n
<1>2. n \div 2 \in Nat /\ 2 * (n \div 2) <= n /\ n <= 2 * (n \div 2) + 1
  BY <1>1, Z3
<1>3. (3 * (n - (n \div 2 + 1)) + 1) \div 2 >= n - (n \div 2 + 1)
  BY <1>1, <1>2, Z3
<1>4. (3 * (n - (n \div 2 + 1)) + 1) \div 2 \in Nat
  BY <1>1, <1>2, Z3
<1> QED
  BY SMTT(30), <1>1, <1>2, <1>3, <1>4 DEF RF, SlowQuorum, FastQuorum, n

LEMMA LargerSet ==
    ASSUME TypeOK, NEW A, NEW B \in SUBSET Replica, A \subseteq B
    PROVE  Cardinality(A) \in Nat /\ Cardinality(B) \in Nat /\ Cardinality(A) <= Cardinality(B)
<1>1. IsFiniteSet(B)
  BY SetupFacts, FS_Subset
<1> QED
  BY <1>1, FS_Subset, FS_CardinalityType

LEMMA QuorumsMeet ==
    ASSUME TypeOK, NEW A \in SUBSET Replica, NEW B \in SUBSET Replica,
           Cardinality(A) >= SlowQuorum,
           Cardinality(B) >= SlowQuorum \/ Cardinality(B) >= FastQuorum
    PROVE  \E r \in A : r \in B
<1>1. IsFiniteSet(Replica)
  BY SetupFacts
<1>2. Cardinality(A) \in Nat /\ Cardinality(B) \in Nat
  BY <1>1, FS_Subset, FS_CardinalityType
<1>3. Cardinality(A) + Cardinality(B) > Cardinality(Replica)
  BY SMTT(30), <1>2, QuorumFacts DEF RF
<1>4. A \cap B # {}
  BY <1>1, <1>3, FS_MajoritiesIntersect
<1> QED
  BY <1>4

------------------------------------------------------------------------------
\* Timestamps

\* max_conflicting_timestamp is at least the timestamp of every live entry and the
\* high-water mark.
LEMMA MaxConflictFacts ==
    ASSUME TypeOK, NEW r \in Replica
    PROVE  /\ MaxConflict(r) \in Nat
           /\ MaxConflict(r) >= hwm[r]
           /\ \A y \in index[r] : MaxConflict(r) >= tt[r][y]
<1> DEFINE S == {tt[r][y] : y \in index[r]} \cup {hwm[r]}
<1>1. index[r] \subseteq Txn /\ hwm[r] \in Nat /\ \A y \in index[r] : tt[r][y] \in Nat
  BY SMTT(30) DEF TypeOK
<1>2. IsFiniteSet(S)
  <2>1. IsFiniteSet(index[r])
    BY <1>1, SetupFacts, FS_Subset
  <2> DEFINE f == tt[r]
  <2>2. IsFiniteSet({f[y] : y \in index[r]})
    BY <2>1, ImageOfFinite
  <2> QED
    BY <2>2, FS_AddElement
<1>3. S \in SUBSET Int /\ S # {}
  BY SMTT(30), <1>1
<1>4. Max(S) \in S /\ \A z \in S : z <= Max(S)
  <2> HIDE DEF S
  <2> QED
    BY <1>2, <1>3, MaxOfFinite
<1> QED
  BY <1>1, <1>4 DEF MaxConflict

\* The proposal is t0, or a bump that keeps the replica's number and has a sequence
\* number; unless the sequence number saturates it is above every conflict.
LEMMA ProposalFacts ==
    ASSUME TypeOK, NEW r \in Replica, NEW x \in Txn
    PROVE  /\ ProposedT(r, x) \in Nat /\ ProposedT(r, x) # 0
           /\ \/ ProposedT(r, x) = T0(x)
              \/ ProposedT(r, x) % D = r /\ SeqOf(ProposedT(r, x)) # 0
           /\ SeqOf(MaxConflict(r)) < D - 1 =>
                 ProposedT(r, x) > MaxConflict(r) /\ ProposedT(r, x) >= T0(x)
<1> DEFINE m == MaxConflict(r)
           p == ProposedT(r, x)
<1>1. m \in Nat /\ r \in 0 .. D - 1 /\ T0(x) \in Nat /\ T0(x) > 0
  BY SetupFacts, MaxConflictFacts
<1>2. p = IF m >= T0(x) THEN D * (m \div D + (IF SeqOf(m) < D - 1 THEN 1 ELSE 0)) + r ELSE T0(x)
  BY DEF ProposedT, BumpPast
<1> HIDE DEF m, p
<1>3. CASE m < T0(x)
  BY SMTT(30), <1>1, <1>2, <1>3 DEF m, p
<1>4. CASE m >= T0(x)
  <2> DEFINE q == m \div D
  <2>1. q \in Nat /\ D * q <= m /\ m < D * q + D
    BY <1>1, Z3 DEF D
  <2>2. SeqOf(m) = q % D
    BY DEF SeqOf
  <2> HIDE DEF q
  <2>3. CASE q % D < D - 1
    <3>1. p = D * (q + 1) + r
      BY <1>1, <1>2, <1>4, <2>2, <2>3 DEF q
    <3>2. p \in Nat /\ p > m /\ p # 0 /\ p % D = r /\ p \div D = q + 1
      BY <3>1, <2>1, <1>1, Z3 DEF D
    <3>3. (q + 1) % D # 0
      BY <2>1, <2>3, Z3 DEF D
    <3>4. SeqOf(p) # 0
      BY <3>2, <3>3 DEF SeqOf
    <3> QED
      BY SMTT(30), <3>2, <3>4, <1>1, <1>4 DEF p, m
  <2>4. CASE ~(q % D < D - 1)
    <3>1. p = D * (q + 0) + r
      BY <1>1, <1>2, <1>4, <2>2, <2>4 DEF q
    <3>2. p \in Nat /\ p % D = r /\ p \div D = q
      BY <3>1, <2>1, <1>1, Z3 DEF D
    <3>3. q % D # 0
      BY <2>1, <2>4, Z3 DEF D
    <3>4. SeqOf(p) # 0 /\ p # 0
      <4>1. SeqOf(p) # 0
        BY <3>2, <3>3 DEF SeqOf
      <4>2. q # 0
        BY <3>3, Z3 DEF D
      <4>3. p # 0
        BY <3>1, <4>2, <2>1, <1>1, Z3 DEF D
      <4> QED
        BY <4>1, <4>3
    <3> QED
      BY <3>2, <3>4, <2>2, <2>4 DEF p, m
  <2> QED
    BY <2>3, <2>4
<1> QED
  BY SMTT(30), <1>1, <1>3, <1>4

LEMMA MaxPair ==
    ASSUME NEW a \in Nat, NEW b \in Nat
    PROVE  /\ Max({a, b}) \in Nat /\ Max({a, b}) \in {a, b}
           /\ Max({a, b}) >= a /\ Max({a, b}) >= b
<1> DEFINE S == {a, b}
<1>1. IsFiniteSet({a}) /\ IsFiniteSet(S)
  <2>1. IsFiniteSet({} \cup {a})
    BY FS_EmptySet, FS_AddElement
  <2>2. IsFiniteSet({a} \cup {b})
    BY <2>1, FS_AddElement, {} \cup {a} = {a}
  <2> QED
    BY <2>1, <2>2, {} \cup {a} = {a}, {a} \cup {b} = {a, b}
<1>a. S \in SUBSET Int /\ S # {}
  BY SMTT(30)
<1> HIDE DEF S
<1>2. Max(S) \in S /\ \A y \in S : y <= Max(S)
  BY <1>1, <1>a, MaxOfFinite
<1> QED
  BY <1>2 DEF S

\* set_commit_ts only raises the mark, and to at least t for a live entry.
LEMMA RaisedHwmFacts ==
    ASSUME TypeOK, NEW r \in Replica, NEW x \in Txn, NEW t \in Nat
    PROVE  /\ RaisedHwm(r, x, t) \in [Replica -> Nat]
           /\ \A q \in Replica : RaisedHwm(r, x, t)[q] >= hwm[q]
           /\ x \in index[r] => RaisedHwm(r, x, t)[r] >= t
<1>1. hwm \in [Replica -> Nat] /\ hwm[r] \in Nat
  BY DEF TypeOK
<1>2. Max({hwm[r], t}) \in Nat /\ Max({hwm[r], t}) >= hwm[r] /\ Max({hwm[r], t}) >= t
  BY <1>1, MaxPair
<1> QED
  BY SMTT(30), <1>1, <1>2 DEF RaisedHwm

------------------------------------------------------------------------------
\* Types

LEMMA TypeParts ==
    TypeOK <=> /\ \E s \in Setups : Replica = s.replicas /\ Home = s.home
               /\ CoordTyped /\ ReplicaTyped /\ rowT \in [Replica -> [Txn -> Nat]]
BY DEF TypeOK, CoordTyped, ReplicaTyped

\* The parts of TypeOK, one by one.
LEMMA Types ==
    ASSUME TypeOK
    PROVE  /\ CoordTyped /\ ReplicaTyped /\ rowT \in [Replica -> [Txn -> Nat]]
           /\ \A x \in Txn : /\ ct[x] \in Nat /\ ad[x] \in SUBSET Txn /\ cd[x] \in SUBSET Txn
                             /\ acks[x] \in SUBSET Replica
                             /\ \A r \in Replica : voteT[x][r] \in Nat
           /\ \A r \in Replica, x \in Txn : /\ tt[r][x] \in Nat /\ rowT[r][x] \in Nat
                                            /\ deps[r][x] \in SUBSET Txn
           /\ \A r \in Replica : hwm[r] \in Nat /\ index[r] \in SUBSET Txn
<1>1. CoordTyped /\ ReplicaTyped /\ rowT \in [Replica -> [Txn -> Nat]]
  BY TypeParts
<1>2. ASSUME NEW x \in Txn
      PROVE  /\ ct[x] \in Nat /\ ad[x] \in SUBSET Txn /\ cd[x] \in SUBSET Txn
             /\ acks[x] \in SUBSET Replica
             /\ \A r \in Replica : voteT[x][r] \in Nat
  BY <1>1 DEF CoordTyped
<1>3. ASSUME NEW r \in Replica, NEW x \in Txn
      PROVE  tt[r][x] \in Nat /\ rowT[r][x] \in Nat /\ deps[r][x] \in SUBSET Txn
  BY SMTT(30), <1>1 DEF ReplicaTyped
<1>4. ASSUME NEW r \in Replica PROVE hwm[r] \in Nat /\ index[r] \in SUBSET Txn
  BY <1>1 DEF ReplicaTyped
<1> QED
  BY <1>1, <1>2, <1>3, <1>4

------------------------------------------------------------------------------
\* The coordinators' rounds

\* The largest vote of a quorum is one of them.
LEMMA MergedFacts ==
    ASSUME TypeOK, NEW x \in Txn, NEW Q \in SUBSET Voters(x), Q # {}
    PROVE  /\ MergedT(x, Q) \in Nat /\ MergedT(x, Q) # 0
           /\ \E r \in Q : MergedT(x, Q) = voteT[x][r]
           /\ \A r \in Q : voteT[x][r] <= MergedT(x, Q)
<1> DEFINE f == voteT[x]
           S == {f[r] : r \in Q}
<1>1. Q \subseteq Replica /\ \A r \in Q : f[r] \in Nat /\ f[r] # 0
  BY SMTT(30) DEF Voters, TypeOK
<1>2. IsFiniteSet(S)
  <2>1. IsFiniteSet(Q)
    BY <1>1, SetupFacts, FS_Subset
  <2> QED
    BY <2>1, ImageOfFinite
<1>3. S \in SUBSET Int /\ S # {}
  BY SMTT(30), <1>1
<1>4. Max(S) \in S /\ \A y \in S : y <= Max(S)
  <2> HIDE DEF S
  <2> QED
    BY <1>2, <1>3, MaxOfFinite
<1> QED
  BY <1>1, <1>4 DEF MergedT

LEMMA QuorumNotEmpty ==
    ASSUME TypeOK, NEW Q, Cardinality(Q) >= SlowQuorum \/ Cardinality(Q) >= FastQuorum
    PROVE  Q # {}
<1>1. SlowQuorum \in Nat /\ SlowQuorum > 0 /\ FastQuorum \in Nat /\ FastQuorum > 0
  BY SMTT(30), QuorumFacts
<1>2. Cardinality({}) = 0
  BY FS_EmptySet
<1> QED
  BY SMTT(30), <1>1, <1>2

\* What the two ways out of the PreAccept round use: a quorum of votes.
LEMMA FastFacts ==
    ASSUME TypeOK, NEW x \in Txn, NEW Q \in FastPathOf(x)
    PROVE  /\ Q \in SUBSET Voters(x) /\ Q # {} /\ Cardinality(Q) >= FastQuorum
           /\ \A r \in Q : voteT[x][r] = T0(x)
           /\ MergedDeps(x, Q) \in SUBSET Txn
<1>1. Q \in SUBSET Voters(x) /\ Cardinality(Q) >= FastQuorum /\ Agree(x, Q)
  BY DEF FastPathOf, Heard, FastDecided
<1>2. Q # {}
  BY <1>1, QuorumNotEmpty
<1>3. MergedDeps(x, Q) \in SUBSET Txn
  BY SMTT(30), <1>1 DEF MergedDeps, Voters, TypeOK
<1> QED
  BY <1>1, <1>2, <1>3 DEF Agree

LEMMA SlowFacts ==
    ASSUME TypeOK, NEW x \in Txn, NEW Q \in NeedAcceptOf(x)
    PROVE  /\ Q \in SUBSET Voters(x) /\ Q # {} /\ Cardinality(Q) >= SlowQuorum
           /\ MergedDeps(x, Q) \in SUBSET Txn
<1>1. Q \in SUBSET Voters(x) /\ Cardinality(Q) >= SlowQuorum
  BY DEF NeedAcceptOf, Heard
<1>2. Q # {}
  BY <1>1, QuorumNotEmpty
<1>3. MergedDeps(x, Q) \in SUBSET Txn
  BY SMTT(30), <1>1 DEF MergedDeps, Voters, TypeOK
<1> QED
  BY <1>1, <1>2, <1>3

------------------------------------------------------------------------------
\* Rows

LEMMA CellTsFacts ==
    /\ \A t \in Nat : CellTs(t) \in Nat
    /\ \A t, u \in Nat : t <= u => CellTs(t) <= CellTs(u)
<1>1. ASSUME NEW t \in Nat PROVE CellTs(t) \in Nat
  BY Z3 DEF CellTs, D
<1>2. ASSUME NEW t \in Nat, NEW u \in Nat, t <= u PROVE CellTs(t) <= CellTs(u)
  BY <1>2, Z3 DEF CellTs, D
<1> QED
  BY <1>1, <1>2

\* The merged cell exists: a latest one with the largest value.
LEMMA CurrentIsWritten ==
    ASSUME TypeOK, NEW r \in Replica, Written(r) # {}
    PROVE  Current(r) \in Written(r)
<1> DEFINE W == Written(r)
           c == [x \in Txn |-> CellTs(rowT[r][x])]
           M == Max({c[x] : x \in W})
           L == {x \in W : c[x] = M}
           V == Max({Value[x] : x \in L})
<1>1. W \subseteq Txn /\ IsFiniteSet(W) /\ \A x \in W : c[x] \in Nat
  <2>1. W \subseteq Txn
    BY DEF Written
  <2> QED
    BY SMTT(30), <2>1, SetupFacts, FS_Subset, CellTsFacts DEF TypeOK
<1>2. M \in {c[x] : x \in W} /\ \A y \in W : c[y] <= M
  <2> DEFINE S == {c[x] : x \in W}
  <2>1. IsFiniteSet(S)
    <3> HIDE DEF c, W
    <3> QED
      BY <1>1, ImageOfFinite
  <2>2. S \in SUBSET Int /\ S # {}
    <3> HIDE DEF c
    <3> QED
      BY SMTT(30), <1>1
  <2>3. Max(S) \in S /\ \A y \in S : y <= Max(S)
    <3> HIDE DEF S
    <3> QED
      BY <2>1, <2>2, MaxOfFinite
  <2> QED
    BY <2>3
<1> HIDE DEF M
<1>3. L # {} /\ L \subseteq W /\ IsFiniteSet(L)
  <2>1. L \subseteq W
    OBVIOUS
  <2> QED
    BY <1>1, <1>2, <2>1, FS_Subset
<1>4. V \in {Value[x] : x \in L} /\ \A y \in L : Value[y] <= V
  <2> DEFINE S == {Value[x] : x \in L}
  <2>1. IsFiniteSet(S)
    <3> HIDE DEF L
    <3> QED
      BY <1>3, ImageOfFinite
  <2>2. S \in SUBSET Int /\ S # {}
    <3> HIDE DEF L
    <3> QED
      BY SMTT(30), <1>1, <1>3, Statements
  <2>3. Max(S) \in S /\ \A y \in S : y <= Max(S)
    <3> HIDE DEF S
    <3> QED
      BY <2>1, <2>2, MaxOfFinite
  <2> QED
    BY <2>3
<1> HIDE DEF V
<1>5. PICK x \in L : Value[x] = V
  BY <1>4
<1>6. ASSUME NEW y \in W PROVE Supersedes(r, x, y)
  <2>1. c[x] = M /\ c[y] <= M /\ c[x] \in Nat /\ c[y] \in Nat /\ x \in Txn /\ y \in Txn
    BY <1>1, <1>2, <1>5
  <2>2. Value[x] \in Nat /\ Value[y] \in Nat
    BY <2>1, Statements
  <2>3. CASE c[y] < M
    BY <2>1, <2>3 DEF Supersedes
  <2>4. CASE c[y] = M
    BY <1>4, <1>5, <2>1, <2>2, <2>4 DEF Supersedes
  <2> QED
    BY SMTT(30), <2>1, <2>3, <2>4
<1>7. x \in Written(r) /\ \A y \in Written(r) : Supersedes(r, x, y)
  BY <1>5, <1>6
<1> QED
  BY <1>7 DEF Current

\* A read returns a number; it is not Absent when the merged cell is not newer.
LEMMA RowAtFacts ==
    ASSUME TypeOK, NEW r \in Replica, NEW t \in Nat
    PROVE  /\ RowAt(r, t) \in Nat
           /\ Written(r) # {} /\ CellTs(rowT[r][Current(r)]) <= CellTs(t) => RowAt(r, t) # Absent
<1>1. CASE Written(r) # {} /\ CellTs(rowT[r][Current(r)]) <= CellTs(t)
  <2>1. Current(r) \in Written(r) /\ Written(r) \subseteq Txn /\ Txn \subseteq 1 .. D - 1
    BY <1>1, CurrentIsWritten, SetupFacts DEF Written
  <2>2. Current(r) \in Nat /\ Current(r) > 0
    <3>1. Current(r) \in 1 .. D - 1
      BY <2>1
    <3> QED
      BY SMTT(30), <3>1, DInt
  <2>3. CellTs(rowT[r][Current(r)]) \in Nat
    <3>1. rowT \in [Replica -> [Txn -> Nat]]
      BY DEF TypeOK
    <3>2. rowT[r][Current(r)] \in Nat
      BY <2>1, <3>1
    <3> QED
      BY <3>2, CellTsFacts
  <2>4. D * CellTs(rowT[r][Current(r)]) \in Nat
    BY <2>3, Z3 DEF D
  <2>5. RowAt(r, t) = D * CellTs(rowT[r][Current(r)]) + Current(r)
    BY <1>1 DEF RowAt
  <2> QED
    BY SMTT(30), <2>2, <2>4, <2>5 DEF Absent
<1>2. CASE ~(Written(r) # {} /\ CellTs(rowT[r][Current(r)]) <= CellTs(t))
  BY <1>2 DEF RowAt, Absent
<1> QED
  BY <1>1, <1>2

------------------------------------------------------------------------------
\* Every action keeps the types.
LEMMA StepTypes == TypeOK /\ (\A x \in Txn : Rounds(x)) /\ Next => TypeOK'
<1>WitnessTyped.
      ASSUME TypeOK, NEW n \in Node, NEW t \in Nat
      PROVE  Witness(n, t) \in [Node -> Nat]
  <2> USE <1>WitnessTyped
  <2>1. clock \in [Node -> Nat] /\ clock[n] \in Nat
    BY DEF TypeOK
  <2>2. t \div D \in Nat
    BY Z3 DEF D
  <2>3. Max({clock[n], t \div D}) \in Nat
    BY <2>1, <2>2, MaxPair
  <2> QED
    BY <2>1, <2>3 DEF Witness
\* The handlers keep the types of the replica they run on.
<1>PreAcceptTyped.
      ASSUME TypeOK, NEW r \in Replica, NEW x \in Txn, HandlePreAccept(r, x), UNCHANGED Replica
      PROVE  /\ ReplicaTyped'
             /\ voteT' \in [Txn -> [Replica -> Nat]]
             /\ voteDeps' \in [Txn -> [Replica -> SUBSET Txn]]
  <2> USE <1>PreAcceptTyped
  <2>1. r \in Node /\ ProposedT(r, x) \in Nat /\ ProposedT(r, x) # 0
    BY SetupFacts, ProposalFacts
  <2>2. DepsBefore(r, T0(x)) \in SUBSET Txn
    BY DEF DepsBefore, TypeOK
  <2>3. Witness(r, ProposedT(r, x)) \in [Node -> Nat]
    BY <2>1, <1>WitnessTyped
  <2>4. ASSUME NEW t \in Nat, NEW d \in SUBSET Txn, Vote(r, x, t, d)
        PROVE  /\ voteT' \in [Txn -> [Replica -> Nat]]
               /\ voteDeps' \in [Txn -> [Replica -> SUBSET Txn]]
    <3>1. voteT \in [Txn -> [Replica -> Nat]] /\ voteDeps \in [Txn -> [Replica -> SUBSET Txn]]
      BY DEF TypeOK
    <3>2. CASE UNCHANGED <<voteT, voteDeps>>
      BY <3>1, <3>2
    <3>3. CASE /\ voteT' = [voteT EXCEPT ![x][r] = t]
               /\ voteDeps' = [voteDeps EXCEPT ![x][r] = d]
      BY <3>1, <3>3
    <3> QED
      BY <2>4, <3>2, <3>3 DEF Vote
  <2>5. CASE Register(r, x) /\ Vote(r, x, ProposedT(r, x), DepsBefore(r, T0(x)))
    <3>1. voteT' \in [Txn -> [Replica -> Nat]] /\ voteDeps' \in [Txn -> [Replica -> SUBSET Txn]]
      BY <2>1, <2>2, <2>4, <2>5
    <3>2. phase' \in [Replica -> [Txn -> Phase]] /\ tt' \in [Replica -> [Txn -> Nat]]
      BY <2>1, <2>5 DEF Register, TypeOK, Phase
    <3>3. deps' \in [Replica -> [Txn -> SUBSET Txn]] /\ index' \in [Replica -> SUBSET Txn]
      BY <2>2, <2>5 DEF Register, TypeOK
    <3>4. ASSUME NEW q \in Replica, NEW y \in Txn
          PROVE  (phase'[q][y] = "none") = (tt'[q][y] = 0)
      BY <2>1, <2>5 DEF Register, TypeOK
    <3>5. clock' \in [Node -> Nat] /\ hwm' \in [Replica -> Nat] /\ tomb' \in [Replica -> SUBSET Txn]
      BY <2>3, <2>5 DEF Register, TypeOK
    <3> QED
      BY <3>1, <3>2, <3>3, <3>4, <3>5 DEF ReplicaTyped
  <2>6. CASE UNCHANGED <<stateVars, clock>> /\ Vote(r, x, tt[r][x], deps[r][x])
    <3>1. tt[r][x] \in Nat /\ deps[r][x] \in SUBSET Txn
      BY SMTT(30) DEF TypeOK
    <3> QED
      BY <2>4, <2>6, <3>1 DEF TypeOK, ReplicaTyped, stateVars
  <2>7. CASE clock' = Witness(r, ProposedT(r, x)) /\ UNCHANGED <<stateVars, voteT, voteDeps>>
    BY <2>3, <2>7 DEF TypeOK, ReplicaTyped, stateVars
  <2> QED
    BY <2>5, <2>6, <2>7 DEF HandlePreAccept
<1>CreateTyped.
      ASSUME TypeOK, NEW r \in Replica, NEW x \in Txn, Create(r, x), UNCHANGED Replica
      PROVE  ReplicaTyped'
  <2> USE <1>CreateTyped
  <2>1. T0(x) \in Nat /\ T0(x) # 0
    BY SMTT(30), SetupFacts
  <2>2. phase' \in [Replica -> [Txn -> Phase]] /\ tt' \in [Replica -> [Txn -> Nat]]
    BY <2>1 DEF Create, TypeOK, Phase
  <2>3. ASSUME NEW q \in Replica, NEW y \in Txn
        PROVE  (phase'[q][y] = "none") = (tt'[q][y] = 0)
    BY <2>1 DEF Create, TypeOK
  <2> QED
    BY <2>2, <2>3 DEF Create, TypeOK, ReplicaTyped
\* What Accept and Commit have in common: a new phase, t, deps and mark.
<1>AdvanceTyped.
      ASSUME TypeOK, NEW r \in Replica, NEW x \in Txn, NEW t \in Nat, t # 0,
             NEW d \in SUBSET Txn, UNCHANGED Replica,
             \/ HandleAccept(r, x, t, d)
             \/ HandleCommit(r, x, t, d) /\ (index' = [index EXCEPT ![r] = @ \cup {x}] \/ UNCHANGED index)
      PROVE  ReplicaTyped'
  <2> USE <1>AdvanceTyped
  <2>1. r \in Node
    BY SetupFacts
  <2>2. clock' \in [Node -> Nat] /\ hwm' \in [Replica -> Nat]
    BY SMTT(30), <2>1, <1>WitnessTyped, RaisedHwmFacts DEF HandleAccept, HandleCommit
  <2>3. /\ tt' = [tt EXCEPT ![r][x] = t]
        /\ \E p \in {"Accepted", "Committed"} : phase' = [phase EXCEPT ![r][x] = p]
    BY DEF HandleAccept, HandleCommit
  <2>4. phase' \in [Replica -> [Txn -> Phase]] /\ tt' \in [Replica -> [Txn -> Nat]]
    BY SMTT(30), <2>3 DEF TypeOK, Phase
  <2>5. ASSUME NEW q \in Replica, NEW y \in Txn
        PROVE  (phase'[q][y] = "none") = (tt'[q][y] = 0)
    BY SMTT(30), <2>3 DEF TypeOK
  <2>6. deps' \in [Replica -> [Txn -> SUBSET Txn]]
    <3>1. deps \in [Replica -> [Txn -> SUBSET Txn]] /\ deps[r][x] \cup d \in SUBSET Txn
      BY SMTT(30) DEF TypeOK
    <3>2. \/ deps' = [deps EXCEPT ![r][x] = deps[r][x] \cup d]
          \/ deps' = [deps EXCEPT ![r][x] = d]
      BY <3>1 DEF HandleAccept, HandleCommit
    <3> QED
      BY SMTT(30), <3>1, <3>2
  <2>7. index' \in [Replica -> SUBSET Txn] /\ tomb' \in [Replica -> SUBSET Txn]
    <3>1. index \in [Replica -> SUBSET Txn] /\ tomb \in [Replica -> SUBSET Txn]
      BY DEF TypeOK
    <3>2. index' = [index EXCEPT ![r] = @ \cup {x}] \/ index' = index
      BY DEF HandleAccept
    <3>3. tomb' = tomb
      BY DEF HandleAccept, HandleCommit
    <3> QED
      BY <3>1, <3>2, <3>3
  <2> QED
    BY <2>2, <2>4, <2>5, <2>6, <2>7 DEF ReplicaTyped
<1>FinalizeTyped.
      ASSUME TypeOK, NEW r \in Replica, NEW x \in Txn, FinalizeNoWrite(r, x), UNCHANGED <<Replica, clock>>
      PROVE  ReplicaTyped'
  <2> USE <1>FinalizeTyped
  <2>1. phase' \in [Replica -> [Txn -> Phase]] /\ tomb' \in [Replica -> SUBSET Txn]
    BY DEF FinalizeNoWrite, TypeOK, Phase
  <2>2. ASSUME NEW q \in Replica, NEW y \in Txn
        PROVE  (phase'[q][y] = "none") = (tt'[q][y] = 0)
    BY SMTT(30) DEF FinalizeNoWrite, TypeOK
  <2> QED
    BY <2>1, <2>2 DEF FinalizeNoWrite, TypeOK, ReplicaTyped
<1>CoordStepTyped.
      ASSUME TypeOK, NEW x \in Txn, Rounds(x), UNCHANGED <<Replica, Home>>,
             \/ Begin(x) \/ CommitQuorum(x) \/ GatePassed(x) \/ ApplyQuorum(x) \/ LocalDone(x)
             \/ \E r \in Replica : DepWait(r, x) \/ ReadRow(r, x) \/ AbstainRead(r, x)
      PROVE  TypeOK'
  <2> USE <1>CoordStepTyped
  <2>1. Home[x] \in Node /\ D * x \in Nat
    BY SMTT(30), SetupFacts, DInt
  <2>2. ASSUME stateVars' = stateVars, clock' \in [Node -> Nat], rowT' = rowT, CoordTyped'
        PROVE  TypeOK'
    <3>1. ReplicaTyped'
      BY SMTT(30), <2>2, TypeParts DEF ReplicaTyped, stateVars
    <3>2. \E s \in Setups : Replica' = s.replicas /\ Home' = s.home
      BY DEF TypeOK
    <3>3. rowT' \in [Replica' -> [Txn -> Nat]]
      BY <2>2 DEF TypeOK
    <3> QED
      BY <2>2, <3>1, <3>2, <3>3 DEF TypeOK, CoordTyped, ReplicaTyped
  <2>3. CASE Begin(x)
    <3>1. clock' \in [Node -> Nat]
      BY <2>1, <2>3 DEF Begin, TypeOK
    <3>2. CoordTyped'
      BY <2>3 DEF Begin, TypeOK, CoordTyped
    <3> QED
      BY <2>2, <2>3, <3>1, <3>2 DEF Begin
  <2>4. CASE CommitQuorum(x)
    <3>1. CoordTyped'
      <4>1. sent' \in [Txn -> SUBSET Kind]
        <5>1. sent \in [Txn -> SUBSET Kind] /\ "Apply" \in Kind
          BY DEF TypeOK, Kind
        <5>2. sent' = sent \/ sent' = [sent EXCEPT ![x] = @ \cup {"Apply"}]
          BY <2>4 DEF CommitQuorum, Broadcast
        <5> QED
          BY <5>1, <5>2
      <4>2. /\ acks' = [acks EXCEPT ![x] = {}]
            /\ pc' = [pc EXCEPT ![x] = "read"] \/ pc' = [pc EXCEPT ![x] = "apply"]
        BY <2>4 DEF CommitQuorum
      <4> QED
        BY <2>4, <4>1, <4>2 DEF CommitQuorum, TypeOK, CoordTyped
    <3> QED
      BY <2>2, <2>4, <3>1 DEF CommitQuorum, TypeOK
  <2>5. CASE GatePassed(x)
    <3>1. CoordTyped'
      <4>1. sent' \in [Txn -> SUBSET Kind]
        <5>1. sent \in [Txn -> SUBSET Kind] /\ "Apply" \in Kind
          BY DEF TypeOK, Kind
        <5>2. sent' = [sent EXCEPT ![x] = @ \cup {"Apply"}]
          BY <2>5 DEF GatePassed, Broadcast
        <5> QED
          BY <5>1, <5>2
      <4>2. reads' \in [Txn -> [Replica -> Int]]
        <5>1. reads \in [Txn -> [Replica -> Int]] /\ reads' = [reads EXCEPT ![x] = [r \in Replica |-> NoRead]]
          BY <2>5 DEF GatePassed, ForgetReads, TypeOK
        <5>2. NoRead \in Int
          BY ONLY SMT DEF NoRead
        <5> QED
          BY <5>1, <5>2
      <4>3. pc' = [pc EXCEPT ![x] = "apply"] /\ UNCHANGED <<got, voteT, voteDeps, ct, ad, cd, acks, earlier>>
        BY <2>5 DEF GatePassed
      <4> QED
        BY <4>1, <4>2, <4>3 DEF TypeOK, CoordTyped
    <3> QED
      BY <2>2, <2>5, <3>1 DEF GatePassed, TypeOK
  <2>6. CASE ApplyQuorum(x)
    <3>1. CoordTyped'
      BY <2>6 DEF ApplyQuorum, TypeOK, CoordTyped, Terminal
    <3> QED
      BY <2>2, <2>6, <3>1 DEF ApplyQuorum, TypeOK
  <2>7. CASE LocalDone(x)
    <3>1. CoordTyped'
      BY <2>7 DEF LocalDone, TypeOK, CoordTyped, Terminal
    <3> QED
      BY <2>2, <2>7, <3>1 DEF LocalDone, TypeOK
  <2>8. CASE \E r \in Replica : DepWait(r, x) \/ ReadRow(r, x) \/ AbstainRead(r, x)
    <3>1. PICK r \in Replica : DepWait(r, x) \/ ReadRow(r, x) \/ AbstainRead(r, x)
      BY <2>8
    <3>2. RowAt(r, ct[x]) \in Int
      <4>1. ct[x] \in Nat
        BY DEF TypeOK
      <4> QED
        BY SMTT(30), <4>1, RowAtFacts
    <3>3. \E v \in Int : reads' = [reads EXCEPT ![x][r] = v]
      <4>1. Ready \in Int /\ Abstain \in Int
        BY ONLY SMT DEF Ready, Abstain
      <4> QED
        BY <3>1, <3>2, <4>1 DEF DepWait, ReadRow, AbstainRead
    <3>4. CoordTyped'
      <4>1. reads' \in [Txn -> [Replica -> Int]]
        <5>1. reads \in [Txn -> [Replica -> Int]]
          BY Zenon DEF TypeOK
        <5> QED
          BY SMTT(30), <3>3, <5>1
      <4> QED
        BY <3>1, <4>1 DEF DepWait, ReadRow, AbstainRead, TypeOK, CoordTyped
    <3> QED
      BY <2>2, <3>1, <3>4 DEF DepWait, ReadRow, AbstainRead, TypeOK
  <2> QED
    BY <2>3, <2>4, <2>5, <2>6, <2>7, <2>8
<1>TypesPrimed.
      ASSUME TypeOK, UNCHANGED <<Replica, Home>>, CoordTyped', ReplicaTyped',
             rowT' \in [Replica -> [Txn -> Nat]]
      PROVE  TypeOK'
  <2> USE <1>TypesPrimed
  <2>1. \E s \in Setups : Replica' = s.replicas /\ Home' = s.home
    BY DEF TypeOK
  <2> QED
    BY <2>1 DEF TypeOK, CoordTyped, ReplicaTyped
<1>HandledTyped.
      ASSUME TypeOK, UNCHANGED Replica, NEW x \in Txn, NEW r \in Replica, NEW k \in Kind,
             Handled(x, k, r)
      PROVE  got' \in [Txn -> SUBSET (Kind \X Replica)]
  <2> USE <1>HandledTyped
  <2>1. got \in [Txn -> SUBSET (Kind \X Replica)] /\ <<k, r>> \in Kind \X Replica
    BY DEF TypeOK
  <2> QED
    BY <2>1 DEF Handled
<1>BroadcastTyped.
      ASSUME TypeOK, NEW x \in Txn, NEW k \in Kind, Broadcast(x, k)
      PROVE  sent' \in [Txn -> SUBSET Kind]
  <2> USE <1>BroadcastTyped
  <2>1. sent \in [Txn -> SUBSET Kind]
    BY DEF TypeOK
  <2> QED
    BY <2>1 DEF Broadcast
<1>ForgetTyped.
      ASSUME TypeOK, UNCHANGED Replica, NEW x \in Txn
      PROVE  /\ ForgetVotes(x) => /\ voteT' \in [Txn -> [Replica -> Nat]]
                                  /\ voteDeps' \in [Txn -> [Replica -> SUBSET Txn]]
             /\ ForgetReads(x) => reads' \in [Txn -> [Replica -> Int]]
  <2> USE <1>ForgetTyped
  <2>1. /\ voteT \in [Txn -> [Replica -> Nat]] /\ voteDeps \in [Txn -> [Replica -> SUBSET Txn]]
        /\ reads \in [Txn -> [Replica -> Int]]
    BY DEF TypeOK
  <2>2. ASSUME ForgetVotes(x)
        PROVE  voteT' \in [Txn -> [Replica -> Nat]] /\ voteDeps' \in [Txn -> [Replica -> SUBSET Txn]]
    BY <2>1, <2>2 DEF ForgetVotes
  <2>3. ASSUME ForgetReads(x) PROVE reads' \in [Txn -> [Replica -> Int]]
    BY SMTT(30), <2>1, <2>3 DEF ForgetReads, NoRead
  <2> QED
    BY <2>2, <2>3
<1>SendPreAcceptTyped.
      ASSUME TypeOK, UNCHANGED <<Replica, Home>>, NEW x \in Txn, SendPreAccept(x)
      PROVE  TypeOK'
  <2> USE <1>SendPreAcceptTyped
  <2>1. "PreAccept" \in Kind /\ CoordTyped /\ ReplicaTyped
    BY Types DEF Kind
  <2>2. sent' \in [Txn -> SUBSET Kind]
    BY <2>1, <1>BroadcastTyped DEF SendPreAccept
  <2>3. got' \in [Txn -> SUBSET (Kind \X Replica)]
    <3>1. CASE IsReplica(x)
      BY <2>1, <3>1, <1>HandledTyped DEF SendPreAccept, IsReplica
    <3>2. CASE ~IsReplica(x)
      BY <2>1, <3>2 DEF SendPreAccept, CoordTyped
    <3> QED
      BY <3>1, <3>2
  <2>4. /\ ReplicaTyped'
        /\ voteT' \in [Txn -> [Replica -> Nat]]
        /\ voteDeps' \in [Txn -> [Replica -> SUBSET Txn]]
    <3>1. CASE IsReplica(x) /\ SelfVotes
      <4>1. Home[x] \in Replica /\ HandlePreAccept(Home[x], x)
        BY <3>1 DEF SendPreAccept, IsReplica
      <4> QED
        BY <4>1, <1>PreAcceptTyped
    <3>2. CASE ~(IsReplica(x) /\ SelfVotes)
      <4>1. UNCHANGED <<stateVars, clock, voteT, voteDeps>>
        BY <3>2 DEF SendPreAccept
      <4> QED
        BY <2>1, <4>1 DEF CoordTyped, ReplicaTyped, stateVars
    <3> QED
      BY <3>1, <3>2
  <2>5. pc' \in [Txn -> {"idle", "mint", "preaccept", "accept", "commit", "read",
                         "apply", "local"} \cup Terminal]
    BY <2>1 DEF SendPreAccept, CoordTyped
  <2>6. CoordTyped' /\ rowT' = rowT
    BY <2>1, <2>2, <2>3, <2>4, <2>5 DEF SendPreAccept, CoordTyped
  <2> QED
    BY <2>4, <2>6, Types, <1>TypesPrimed
<1>PreAcceptStepTyped.
      ASSUME TypeOK, UNCHANGED <<Replica, Home>>, NEW r \in Replica, NEW x \in Txn, PreAccept(r, x)
      PROVE  TypeOK'
  <2> USE <1>PreAcceptStepTyped
  <2>1. "PreAccept" \in Kind /\ CoordTyped
    BY Types DEF Kind
  <2>2. got' \in [Txn -> SUBSET (Kind \X Replica)]
    BY <2>1, <1>HandledTyped DEF PreAccept
  <2>3. /\ ReplicaTyped'
        /\ voteT' \in [Txn -> [Replica -> Nat]]
        /\ voteDeps' \in [Txn -> [Replica -> SUBSET Txn]]
    BY <1>PreAcceptTyped DEF PreAccept
  <2>4. CoordTyped' /\ rowT' = rowT
    BY <2>1, <2>2, <2>3 DEF PreAccept, CoordTyped
  <2> QED
    BY <2>3, <2>4, Types, <1>TypesPrimed
<1>AckTyped.
      ASSUME TypeOK, UNCHANGED Replica, NEW x \in Txn, NEW r \in Replica, NEW w, Ack(r, x, w)
      PROVE  acks' \in [Txn -> SUBSET Replica]
  <2> USE <1>AckTyped
  <2>1. acks \in [Txn -> SUBSET Replica]
    BY DEF TypeOK
  <2> QED
    BY <2>1 DEF Ack
<1>StartCommitTyped.
      ASSUME TypeOK, UNCHANGED <<Replica, Home>>, NEW x \in Txn, NEW t \in Nat, t # 0,
             NEW d \in SUBSET Txn, StartCommit(x, t, d),
             voteT' \in [Txn -> [Replica -> Nat]], voteDeps' \in [Txn -> [Replica -> SUBSET Txn]]
      PROVE  TypeOK'
  <2> USE <1>StartCommitTyped
  <2>1. "Commit" \in Kind /\ CoordTyped /\ ReplicaTyped
    BY Types DEF Kind
  <2>2. sent' \in [Txn -> SUBSET Kind]
    BY <2>1, <1>BroadcastTyped DEF StartCommit
  <2>3. /\ got' \in [Txn -> SUBSET (Kind \X Replica)]
        /\ acks' \in [Txn -> SUBSET Replica]
        /\ ReplicaTyped'
    <3>1. CASE IsReplica(x)
      <4>1. /\ Home[x] \in Replica /\ Handled(x, "Commit", Home[x])
            /\ acks' = [acks EXCEPT ![x] = {Home[x]}]
            /\ HandleCommit(Home[x], x, t, d)
            /\ index' = [index EXCEPT ![Home[x]] = @ \cup {x}]
        BY <3>1 DEF StartCommit, IsReplica
      <4>2. ReplicaTyped'
        BY <4>1, <1>AdvanceTyped
      <4>3. acks' \in [Txn -> SUBSET Replica]
        BY <2>1, <4>1 DEF CoordTyped
      <4> QED
        BY <2>1, <4>1, <4>2, <4>3, <1>HandledTyped
    <3>2. CASE ~IsReplica(x)
      <4>1. UNCHANGED <<stateVars, clock, got>> /\ acks' = [acks EXCEPT ![x] = {}]
        BY <3>2 DEF StartCommit
      <4>2. ReplicaTyped'
        BY <2>1, <4>1 DEF ReplicaTyped, stateVars
      <4> QED
        BY <2>1, <4>1, <4>2 DEF CoordTyped
    <3> QED
      BY <3>1, <3>2
  <2>4. /\ pc' \in [Txn -> {"idle", "mint", "preaccept", "accept", "commit", "read",
                            "apply", "local"} \cup Terminal]
        /\ ct' \in [Txn -> Nat] /\ cd' \in [Txn -> SUBSET Txn]
    BY <2>1 DEF StartCommit, CoordTyped
  <2>5. UNCHANGED <<ad, reads, rowT, earlier>>
    BY DEF StartCommit
  <2>6. CoordTyped'
    BY <2>1, <2>2, <2>3, <2>4, <2>5 DEF CoordTyped
  <2> QED
    BY <2>3, <2>5, <2>6, Types, <1>TypesPrimed
<1>StartAcceptTyped.
      ASSUME TypeOK, UNCHANGED <<Replica, Home>>, NEW x \in Txn, NEW t \in Nat, t # 0,
             NEW d \in SUBSET Txn, StartAccept(x, t, d),
             voteT' \in [Txn -> [Replica -> Nat]], voteDeps' \in [Txn -> [Replica -> SUBSET Txn]]
      PROVE  TypeOK'
  <2> USE <1>StartAcceptTyped
  <2>1. "Accept" \in Kind /\ CoordTyped /\ ReplicaTyped
    BY Types DEF Kind
  <2>2. sent' \in [Txn -> SUBSET Kind]
    BY <2>1, <1>BroadcastTyped DEF StartAccept
  <2>3. /\ got' \in [Txn -> SUBSET (Kind \X Replica)]
        /\ acks' \in [Txn -> SUBSET Replica]
        /\ ReplicaTyped'
    <3>1. CASE /\ IsReplica(x) /\ HandleAccept(Home[x], x, t, d)
               /\ acks' = [acks EXCEPT ![x] = {Home[x]}] /\ Handled(x, "Accept", Home[x])
      <4>1. Home[x] \in Replica
        BY <3>1 DEF IsReplica
      <4>2. ReplicaTyped'
        BY <3>1, <4>1, <1>AdvanceTyped
      <4>3. acks' \in [Txn -> SUBSET Replica]
        BY <2>1, <3>1, <4>1 DEF CoordTyped
      <4> QED
        BY <2>1, <3>1, <4>1, <4>2, <4>3, <1>HandledTyped
    <3>2. CASE /\ IsReplica(x) /\ Create(Home[x], x) /\ acks' = acks
               /\ Handled(x, "Accept", Home[x])
      <4>1. Home[x] \in Replica
        BY <3>2 DEF IsReplica
      <4>2. ReplicaTyped'
        BY <3>2, <4>1, <1>CreateTyped
      <4> QED
        BY <2>1, <3>2, <4>1, <4>2, <1>HandledTyped DEF CoordTyped
    <3>3. CASE UNCHANGED <<stateVars, clock, acks, got>>
      <4>1. ReplicaTyped'
        BY <2>1, <3>3 DEF ReplicaTyped, stateVars
      <4> QED
        BY <2>1, <3>3, <4>1 DEF CoordTyped
    <3> QED
      BY <3>1, <3>2, <3>3 DEF StartAccept
  <2>4. /\ pc' \in [Txn -> {"idle", "mint", "preaccept", "accept", "commit", "read",
                            "apply", "local"} \cup Terminal]
        /\ ct' \in [Txn -> Nat] /\ ad' \in [Txn -> SUBSET Txn]
    BY <2>1 DEF StartAccept, CoordTyped
  <2>5. UNCHANGED <<cd, reads, rowT, earlier>>
    BY DEF StartAccept
  <2>6. CoordTyped'
    BY <2>1, <2>2, <2>3, <2>4, <2>5 DEF CoordTyped
  <2> QED
    BY <2>3, <2>5, <2>6, Types, <1>TypesPrimed
<1>DecideTyped.
      ASSUME TypeOK, UNCHANGED <<Replica, Home>>, NEW x \in Txn, Rounds(x),
             FastPath(x) \/ NeedAccept(x) \/ SlowPath(x)
      PROVE  TypeOK'
  <2> USE <1>DecideTyped
  <2>1. CASE FastPath(x)
    <3>1. PICK Q \in FastPathOf(x) : StartCommit(x, T0(x), MergedDeps(x, Q))
      BY <2>1 DEF FastPath
    <3>2. /\ voteT' \in [Txn -> [Replica -> Nat]]
          /\ voteDeps' \in [Txn -> [Replica -> SUBSET Txn]]
      BY <2>1, <1>ForgetTyped DEF FastPath
    <3>3. T0(x) \in Nat /\ T0(x) # 0
      BY SMTT(30), SetupFacts
    <3>4. MergedDeps(x, Q) \in SUBSET Txn
      BY FastFacts
    <3> QED
      BY <3>1, <3>2, <3>3, <3>4, <1>StartCommitTyped
  <2>2. CASE NeedAccept(x)
    <3>1. PICK Q \in NeedAcceptOf(x) : StartAccept(x, MergedT(x, Q), MergedDeps(x, Q))
      BY <2>2 DEF NeedAccept
    <3>2. /\ voteT' \in [Txn -> [Replica -> Nat]]
          /\ voteDeps' \in [Txn -> [Replica -> SUBSET Txn]]
      BY <2>2, <1>ForgetTyped DEF NeedAccept
    <3>3. MergedDeps(x, Q) \in SUBSET Txn /\ Q \in SUBSET Voters(x) /\ Q # {}
      BY SlowFacts
    <3>4. MergedT(x, Q) \in Nat /\ MergedT(x, Q) # 0
      BY <3>3, MergedFacts
    <3> QED
      BY <3>1, <3>2, <3>3, <3>4, <1>StartAcceptTyped
  <2>3. CASE SlowPath(x)
    <3>1. PICK Q \in Heard(x, acks[x]) :
              StartCommit(x, ct[x], ad[x] \cup UNION {deps[r][x] : r \in Q})
      BY <2>3 DEF SlowPath
    <3>2. Q \subseteq Replica
      BY Types DEF Heard
    <3>3. ad[x] \cup UNION {deps[r][x] : r \in Q} \in SUBSET Txn
      BY SMTT(30), <3>2, Types
    <3>4. ct[x] \in Nat /\ ct[x] # 0
      BY <2>3, Types DEF SlowPath, Rounds
    <3>5. /\ voteT' \in [Txn -> [Replica -> Nat]]
          /\ voteDeps' \in [Txn -> [Replica -> SUBSET Txn]]
      BY <2>3, Types DEF SlowPath, CoordTyped
    <3> QED
      BY <3>1, <3>3, <3>4, <3>5, <1>StartCommitTyped
  <2> QED
    BY <2>1, <2>2, <2>3
<1>ServeTyped.
      ASSUME TypeOK, UNCHANGED <<Replica, Home>>, NEW r \in Replica, NEW x \in Txn, Rounds(x),
             Accept(r, x) \/ Commit(r, x) \/ Apply(r, x) \/ NoWrite(r, x)
      PROVE  TypeOK'
  <2> USE <1>ServeTyped
  <2>1. CoordTyped /\ ReplicaTyped /\ rowT \in [Replica -> [Txn -> Nat]]
    BY Types
  <2>2. {"Accept", "Commit", "Apply", "NoWrite"} \subseteq Kind
    BY DEF Kind
  <2>3. CASE Accept(r, x)
    <3>1. ct[x] \in Nat /\ ct[x] # 0 /\ ad[x] \in SUBSET Txn
      BY <2>3, Types DEF Accept, Deliverable, Rounds
    <3>2. got' \in [Txn -> SUBSET (Kind \X Replica)]
      BY <2>2, <2>3, <1>HandledTyped DEF Accept
    <3>3. ReplicaTyped'
      BY <2>3, <3>1, <1>AdvanceTyped, <1>CreateTyped DEF Accept
    <3>4. acks' \in [Txn -> SUBSET Replica]
      BY <2>1, <2>3, <1>AckTyped DEF Accept, CoordTyped
    <3>5. UNCHANGED <<pc, sent, voteT, voteDeps, ct, ad, cd, reads, rowT, earlier>>
      BY <2>3 DEF Accept
    <3>6. CoordTyped'
      BY <2>1, <3>2, <3>4, <3>5 DEF CoordTyped
    <3> QED
      BY <2>1, <3>3, <3>5, <3>6, <1>TypesPrimed
  <2>4. CASE Commit(r, x)
    <3>1. ct[x] \in Nat /\ ct[x] # 0 /\ cd[x] \in SUBSET Txn
      BY <2>4, Types DEF Commit, Deliverable, Rounds
    <3>2. got' \in [Txn -> SUBSET (Kind \X Replica)]
      BY <2>2, <2>4, <1>HandledTyped DEF Commit
    <3>3. ReplicaTyped'
      BY <2>4, <3>1, <1>AdvanceTyped, <1>CreateTyped DEF Commit
    <3>4. acks' \in [Txn -> SUBSET Replica]
      BY <2>4, <1>AckTyped DEF Commit
    <3>5. UNCHANGED <<pc, sent, voteT, voteDeps, ct, ad, cd, reads, rowT, earlier>>
      BY <2>4 DEF Commit
    <3>6. CoordTyped'
      BY <2>1, <3>2, <3>4, <3>5 DEF CoordTyped
    <3> QED
      BY <2>1, <3>3, <3>5, <3>6, <1>TypesPrimed
  <2>5. CASE Apply(r, x)
    <3>1. got' \in [Txn -> SUBSET (Kind \X Replica)] /\ acks' \in [Txn -> SUBSET Replica]
      BY <2>2, <2>5, <1>HandledTyped, <1>AckTyped DEF Apply
    <3>2. /\ phase[r][x] # "none"
          /\ phase' = [phase EXCEPT ![r][x] = "Applied"]
          /\ rowT' = [rowT EXCEPT ![r][x] = tt[r][x]]
          /\ UNCHANGED <<clock, tt, deps, index, hwm, tomb>>
      BY <2>5 DEF Apply
    <3>3. phase' \in [Replica -> [Txn -> Phase]] /\ rowT' \in [Replica -> [Txn -> Nat]]
      BY <2>1, <3>2 DEF ReplicaTyped, Phase
    <3>4. ASSUME NEW q \in Replica, NEW y \in Txn
          PROVE  (phase'[q][y] = "none") = (tt'[q][y] = 0)
      BY SMTT(30), <2>1, <3>2 DEF ReplicaTyped
    <3>5. ReplicaTyped'
      BY <2>1, <3>2, <3>3, <3>4 DEF ReplicaTyped
    <3>6. UNCHANGED <<pc, sent, voteT, voteDeps, ct, ad, cd, reads, earlier>>
      BY <2>5 DEF Apply
    <3>7. CoordTyped'
      BY <2>1, <3>1, <3>6 DEF CoordTyped
    <3> QED
      BY <3>3, <3>5, <3>7, <1>TypesPrimed
  <2>6. CASE NoWrite(r, x)
    <3>1. got' \in [Txn -> SUBSET (Kind \X Replica)]
      BY <2>2, <2>6, <1>HandledTyped DEF NoWrite
    <3>2. ReplicaTyped'
      BY <2>6, <1>FinalizeTyped DEF NoWrite
    <3>3. UNCHANGED <<pc, sent, voteT, voteDeps, ct, ad, cd, acks, reads, rowT, earlier>>
      BY <2>6 DEF NoWrite
    <3>4. CoordTyped'
      BY <2>1, <3>1, <3>3 DEF CoordTyped
    <3> QED
      BY <2>1, <3>2, <3>3, <3>4, <1>TypesPrimed
  <2> QED
    BY <2>3, <2>4, <2>5, <2>6
<1>EndTyped.
      ASSUME TypeOK, UNCHANGED <<Replica, Home>>, NEW x \in Txn,
             ConditionNotMet(x) \/ RoundFails(x) \/ ApplyFails(x)
      PROVE  TypeOK'
  <2> USE <1>EndTyped
  <2>1. CoordTyped /\ ReplicaTyped /\ rowT \in [Replica -> [Txn -> Nat]] /\ "NoWrite" \in Kind
    BY Types DEF Kind
  <2>2. ASSUME NEW o \in {"refused", "failed", "abandoned"}, GiveUp(x, o) PROVE TypeOK'
    <3>1. sent' \in [Txn -> SUBSET Kind]
      BY <2>1, <2>2, <1>BroadcastTyped DEF GiveUp
    <3>2. got' \in [Txn -> SUBSET (Kind \X Replica)] /\ ReplicaTyped'
      <4>1. CASE IsReplica(x)
        <5>1. Home[x] \in Replica /\ FinalizeNoWrite(Home[x], x) /\ Handled(x, "NoWrite", Home[x]) /\ clock' = clock
          BY <2>2, <4>1 DEF GiveUp, IsReplica
        <5> QED
          BY <2>1, <5>1, <1>FinalizeTyped, <1>HandledTyped
      <4>2. CASE ~IsReplica(x)
        <5>1. UNCHANGED <<stateVars, got, clock>>
          BY <2>2, <4>2 DEF GiveUp
        <5> QED
          BY <2>1, <5>1 DEF CoordTyped, ReplicaTyped, stateVars
      <4> QED
        BY <4>1, <4>2
    <3>3. /\ voteT' \in [Txn -> [Replica -> Nat]]
          /\ voteDeps' \in [Txn -> [Replica -> SUBSET Txn]]
          /\ reads' \in [Txn -> [Replica -> Int]]
      BY <2>2, <1>ForgetTyped DEF GiveUp
    <3>4. pc' \in [Txn -> {"idle", "mint", "preaccept", "accept", "commit", "read",
                           "apply", "local"} \cup Terminal]
      BY <2>1, <2>2 DEF GiveUp, CoordTyped, Terminal
    <3>5. acks' \in [Txn -> SUBSET Replica]
      BY <2>1, <2>2 DEF GiveUp, CoordTyped
    <3>6. UNCHANGED <<ct, ad, cd, rowT, earlier>>
      BY <2>2 DEF GiveUp
    <3>7. CoordTyped'
      BY <2>1, <3>1, <3>2, <3>3, <3>4, <3>5, <3>6 DEF CoordTyped
    <3> QED
      BY <2>1, <3>2, <3>6, <3>7, <1>TypesPrimed
  <2>3. ASSUME ApplyFails(x), ~GiveUp(x, "abandoned") PROVE TypeOK'
    <3>1. /\ pc' = [pc EXCEPT ![x] = "unknown"] /\ acks' = [acks EXCEPT ![x] = {}]
          /\ UNCHANGED <<clock, sent, got, voteT, voteDeps, ct, ad, cd, reads, stateVars, rowT, earlier>>
      BY <2>3 DEF ApplyFails
    <3>2. /\ pc' \in [Txn -> {"idle", "mint", "preaccept", "accept", "commit", "read",
                              "apply", "local"} \cup Terminal]
          /\ acks' \in [Txn -> SUBSET Replica]
      BY <2>1, <3>1 DEF CoordTyped, Terminal
    <3>3. CoordTyped'
      BY <2>1, <3>1, <3>2 DEF CoordTyped
    <3>4. ReplicaTyped'
      BY <2>1, <3>1 DEF ReplicaTyped, stateVars
    <3> QED
      BY <2>1, <3>1, <3>3, <3>4, <1>TypesPrimed
  <2> QED
    BY <2>2, <2>3 DEF ConditionNotMet, RoundFails, ApplyFails
<1>PruneTyped.
      ASSUME TypeOK, UNCHANGED <<Replica, Home>>, NEW r \in Replica, Prune(r)
      PROVE  TypeOK'
  <2> USE <1>PruneTyped
  <2> DEFINE gone == {x \in Txn : phase[r][x] = "Applied"}
  <2>1. CoordTyped /\ ReplicaTyped /\ rowT \in [Replica -> [Txn -> Nat]]
    BY Types
  <2>2. /\ phase' = [phase EXCEPT ![r] = [x \in Txn |-> IF x \in gone THEN "none" ELSE phase[r][x]]]
        /\ tt' = [tt EXCEPT ![r] = [x \in Txn |-> IF x \in gone THEN 0 ELSE tt[r][x]]]
        /\ deps' = [deps EXCEPT ![r] = [x \in Txn |-> IF x \in gone THEN {} ELSE deps[r][x]]]
        /\ index' = [index EXCEPT ![r] = @ \ gone]
        /\ tomb' = [tomb EXCEPT ![r] = @ \cup gone]
        /\ UNCHANGED <<clock, pc, sent, got, voteT, voteDeps, ct, ad, cd, acks,
                       reads, hwm, rowT, earlier>>
    BY <2>1 DEF Prune, ReplicaTyped
  <2>3. CoordTyped'
    BY <2>1, <2>2 DEF CoordTyped
  <2>4. phase' \in [Replica -> [Txn -> Phase]] /\ tt' \in [Replica -> [Txn -> Nat]]
    BY <2>1, <2>2 DEF ReplicaTyped, Phase
  <2>5. deps' \in [Replica -> [Txn -> SUBSET Txn]]
    BY <2>1, <2>2 DEF ReplicaTyped
  <2>6. index' \in [Replica -> SUBSET Txn] /\ tomb' \in [Replica -> SUBSET Txn]
    BY <2>1, <2>2 DEF ReplicaTyped
  <2>7. ASSUME NEW q \in Replica, NEW y \in Txn
        PROVE  (phase'[q][y] = "none") = (tt'[q][y] = 0)
    BY <2>1, <2>2 DEF ReplicaTyped
  <2>8. ReplicaTyped'
    BY <2>1, <2>2, <2>4, <2>5, <2>6, <2>7 DEF ReplicaTyped
  <2> QED
    BY <2>1, <2>2, <2>3, <2>8, <1>TypesPrimed
<1> SUFFICES ASSUME TypeOK, \A x \in Txn : Rounds(x), Next PROVE TypeOK'
  OBVIOUS
<1>1. UNCHANGED <<Replica, Home>>
  BY DEF Next
<1>2. ASSUME NEW x \in Txn, Coordinate(x) PROVE TypeOK'
  <2>1. CASE Begin(x) \/ CommitQuorum(x) \/ GatePassed(x) \/ ApplyQuorum(x) \/ LocalDone(x)
    BY <1>1, <2>1, <1>CoordStepTyped
  <2>2. CASE SendPreAccept(x)
    BY <1>1, <2>2, <1>SendPreAcceptTyped
  <2>3. CASE FastPath(x) \/ NeedAccept(x) \/ SlowPath(x)
    BY <1>1, <2>3, <1>DecideTyped
  <2>4. CASE ConditionNotMet(x) \/ RoundFails(x) \/ ApplyFails(x)
    BY <1>1, <2>4, <1>EndTyped
  <2> QED
    BY <1>2, <2>1, <2>2, <2>3, <2>4 DEF Coordinate
<1>3. ASSUME NEW r \in Replica, NEW x \in Txn, Serve(r, x) PROVE TypeOK'
  <2>1. CASE PreAccept(r, x)
    BY <1>1, <2>1, <1>PreAcceptStepTyped
  <2>2. CASE Accept(r, x) \/ Commit(r, x) \/ Apply(r, x) \/ NoWrite(r, x)
    BY <1>1, <2>2, <1>ServeTyped
  <2>3. CASE DepWait(r, x) \/ ReadRow(r, x) \/ AbstainRead(r, x)
    BY <1>1, <2>3, <1>CoordStepTyped
  <2> QED
    BY <1>3, <2>1, <2>2, <2>3 DEF Serve
<1>4. ASSUME NEW r \in Replica, Prune(r) PROVE TypeOK'
  BY <1>1, <1>4, <1>PruneTyped
<1> QED
  BY <1>1, <1>2, <1>3, <1>4 DEF Next

------------------------------------------------------------------------------
\* What one step can do to one transaction: at its coordinator, and on a replica

LEMMA NotSmaller == \A n \in Nat : n >= n
BY SMT

\* A step that leaves the replicas and the requests handled alone.
LEMMA ReplicasStay ==
    ASSUME TypeOK, NEW q \in Replica, NEW y \in Txn, UNCHANGED <<stateVars, rowT, got>>
    PROVE  Same(q, y) /\ hwm'[q] >= hwm[q] /\ GotStep(q, y)
<1>1. /\ phase' = phase /\ tt' = tt /\ deps' = deps /\ index' = index /\ hwm' = hwm /\ tomb' = tomb
      /\ rowT' = rowT /\ got' = got
  BY DEF stateVars
<1>2. Same(q, y)
  BY <1>1 DEF Same
<1>3. hwm'[q] >= hwm[q]
  <2>1. hwm[q] \in Nat
    BY Types
  <2> QED
    BY <1>1, <2>1, NotSmaller
<1>4. GotStep(q, y)
  BY <1>1 DEF GotStep
<1> QED
  BY <1>2, <1>3, <1>4

\* Every step keeps the types, and is to each transaction on each replica one of
\* the effects above.
LEMMA StepEffects ==
    RoundInv /\ Next => /\ TypeOK' /\ Replica' = Replica /\ Home' = Home
                        /\ \A q \in Replica, y \in Txn : Effects(q, y)
\* Steps that leave the replicas alone.
<1>CoordEffects.
      ASSUME TypeOK, NEW x \in Txn, Rounds(x), UNCHANGED <<Replica, Home>>,
             \/ Begin(x) \/ CommitQuorum(x) \/ GatePassed(x) \/ ApplyQuorum(x) \/ LocalDone(x)
             \/ \E r \in Replica : DepWait(r, x) \/ ReadRow(r, x) \/ AbstainRead(r, x),
             NEW q \in Replica, NEW y \in Txn
      PROVE  Effects(q, y)
  <2> USE <1>CoordEffects
  <2>1. CoordTyped /\ hwm[q] \in Nat
    BY Types
  <2>2. UNCHANGED <<stateVars, rowT, got, voteT>>
    BY DEF Begin, CommitQuorum, GatePassed, ApplyQuorum, LocalDone, DepWait, ReadRow, AbstainRead
  <2>3. Same(q, y) /\ GotStep(q, y) /\ hwm'[q] >= hwm[q]
    BY <2>2, ReplicasStay
  <2>4. CASE CoordStays(y) /\ acks'[y] = acks[y]
    <3>1. VoteStep(q, y) /\ AckStep(q, y)
      BY <2>2, <2>4 DEF VoteStep, AckStep, CoordStays
    <3> QED
      BY <2>3, <2>4, <3>1 DEF Effects
  <2>5. CASE Begin(x)
    <3>1. /\ pc' = [pc EXCEPT ![x] = "mint"] /\ pc[x] = "idle"
          /\ earlier' = [earlier EXCEPT ![x] = {z \in Txn : pc[z] = "ok"}]
          /\ UNCHANGED <<sent, ct, cd, acks>>
      BY <2>5 DEF Begin, Broadcast
    <3>2. CASE y = x
      <4>1. CoordMoves(y)
        BY <2>1, <2>5, <3>1, <3>2 DEF Begin, CoordMoves, CoordTyped
      <4>2. VoteStep(q, y) /\ AckStep(q, y)
        BY <2>1, <2>2, <3>1, <3>2 DEF VoteStep, AckStep, CoordTyped
      <4> QED
        BY <2>3, <4>1, <4>2 DEF Effects
    <3>3. CASE y # x
      BY <2>1, <2>4, <3>1, <3>3 DEF CoordStays, CoordTyped
    <3> QED
      BY <3>2, <3>3
  <2>6. CASE CommitQuorum(x)
    <3>1. /\ pc[x] = "commit" /\ acks' = [acks EXCEPT ![x] = {}]
          /\ \/ pc' = [pc EXCEPT ![x] = "read"] /\ sent' = sent /\ x \in Insert
             \/ /\ pc' = [pc EXCEPT ![x] = "apply"] /\ x \notin Insert
                /\ sent' = [sent EXCEPT ![x] = @ \cup {"Apply"}]
          /\ UNCHANGED <<ct, cd, earlier>>
      BY <2>6 DEF CommitQuorum, Broadcast
    <3>2. CASE y = x
      <4>1. CoordMoves(y)
        <5>1. DOMAIN pc = Txn /\ sent \in [Txn -> SUBSET Kind] /\ acks \in [Txn -> SUBSET Replica]
          BY <2>1 DEF CoordTyped
        <5>2. /\ acks'[y] = {}
              /\ \/ pc'[y] = "read" /\ sent'[y] = sent[y] /\ y \in Insert
                 \/ pc'[y] = "apply" /\ sent'[y] = sent[y] \cup {"Apply"} /\ y \notin Insert
          BY <3>1, <3>2, <5>1
        <5>3. Cardinality(acks[y]) >= SlowQuorum
          BY <2>6, <3>2 DEF CommitQuorum
        <5> QED
          BY <3>1, <3>2, <5>2, <5>3 DEF CoordMoves
      <4>2. VoteStep(q, y) /\ AckStep(q, y)
        BY <2>1, <2>2, <3>1, <3>2 DEF VoteStep, AckStep, CoordTyped
      <4> QED
        BY <2>3, <4>1, <4>2 DEF Effects
    <3>3. CASE y # x
      BY <2>1, <2>4, <3>1, <3>3 DEF CoordStays, CoordTyped
    <3> QED
      BY <3>2, <3>3
  <2>7. CASE GatePassed(x)
    <3>1. /\ pc[x] = "read" /\ pc' = [pc EXCEPT ![x] = "apply"]
          /\ sent' = [sent EXCEPT ![x] = @ \cup {"Apply"}]
          /\ UNCHANGED <<ct, cd, earlier, acks>>
      BY <2>7 DEF GatePassed, Broadcast
    <3>2. CASE y = x
      <4>1. CoordMoves(y)
        BY <2>1, <2>7, <3>1, <3>2 DEF GatePassed, CoordMoves, CoordTyped
      <4>2. VoteStep(q, y) /\ AckStep(q, y)
        BY <2>1, <2>2, <3>1, <3>2 DEF VoteStep, AckStep, CoordTyped
      <4> QED
        BY <2>3, <4>1, <4>2 DEF Effects
    <3>3. CASE y # x
      BY <2>1, <2>4, <3>1, <3>3 DEF CoordStays, CoordTyped
    <3> QED
      BY <3>2, <3>3
  <2>8. CASE ApplyQuorum(x)
    <3>1. /\ pc[x] = "apply" /\ acks' = [acks EXCEPT ![x] = {}]
          /\ \/ IsReplica(x) /\ pc' = [pc EXCEPT ![x] = "local"]
             \/ ~IsReplica(x) /\ pc' = [pc EXCEPT ![x] = "ok"]
          /\ UNCHANGED <<sent, ct, cd, earlier>>
      BY <2>8 DEF ApplyQuorum, Broadcast
    <3>2. CASE y = x
      <4>1. CoordMoves(y)
        <5>1. /\ pc[x] = "apply" /\ ApplyAcks(x, acks[x]) >= SlowQuorum
              /\ sent'[x] = sent[x] /\ ct'[x] = ct[x] /\ cd'[x] = cd[x] /\ earlier'[x] = earlier[x]
          BY <2>8, <3>1 DEF ApplyQuorum
        <5>2. (IsReplica(x) /\ pc'[x] = "local") \/ (~IsReplica(x) /\ pc'[x] = "ok")
          BY <2>1, <3>1 DEF CoordTyped, IsReplica
        <5> QED
          BY <3>2, <5>1, <5>2 DEF CoordMoves
      <4>2. VoteStep(q, y) /\ AckStep(q, y)
        BY <2>1, <2>2, <3>1, <3>2 DEF VoteStep, AckStep, CoordTyped
      <4> QED
        BY <2>3, <4>1, <4>2 DEF Effects
    <3>3. CASE y # x
      BY <2>1, <2>4, <3>1, <3>3 DEF CoordStays, CoordTyped
    <3> QED
      BY <3>2, <3>3
  <2>9. CASE LocalDone(x)
    <3>1. /\ pc[x] = "local"
          /\ pc' = [pc EXCEPT ![x] = "ok"] \/ pc' = [pc EXCEPT ![x] = "unknown"]
          /\ UNCHANGED <<sent, ct, cd, earlier, acks>>
      BY <2>9 DEF LocalDone, Broadcast
    <3>2. CASE y = x
      <4>1. CoordMoves(y)
        BY <2>1, <2>9, <3>1, <3>2 DEF LocalDone, CoordMoves, CoordTyped
      <4>2. VoteStep(q, y) /\ AckStep(q, y)
        BY <2>1, <2>2, <3>1, <3>2 DEF VoteStep, AckStep, CoordTyped
      <4> QED
        BY <2>3, <4>1, <4>2 DEF Effects
    <3>3. CASE y # x
      BY <2>1, <2>4, <3>1, <3>3 DEF CoordStays, CoordTyped
    <3> QED
      BY <3>2, <3>3
  <2>10. CASE \E r \in Replica : DepWait(r, x) \/ ReadRow(r, x) \/ AbstainRead(r, x)
    <3>1. UNCHANGED <<pc, sent, ct, cd, earlier, acks>>
      BY <2>10 DEF DepWait, ReadRow, AbstainRead
    <3> QED
      BY <2>4, <3>1 DEF CoordStays
  <2> QED
    BY <2>5, <2>6, <2>7, <2>8, <2>9, <2>10
\* handle_preaccept: a registration, or nothing; and the vote.
<1>HandlePreAcceptEffects.
      ASSUME TypeOK, UNCHANGED <<Replica, Home, rowT>>, NEW r \in Replica, NEW x \in Txn,
             HandlePreAccept(r, x), "PreAccept" \in sent'[x],
             <<"PreAccept", r>> \in got'[x], <<"PreAccept", r>> \notin got[x],
             NEW q \in Replica, NEW y \in Txn
      PROVE  /\ Same(q, y) \/ RegisteredAt(q, y)
             /\ hwm'[q] >= hwm[q]
             /\ \/ voteT'[y][q] = voteT[y][q]
                \/ /\ y = x /\ q = r /\ pc[y] \in {"mint", "preaccept"}
                   /\ voteT'[y][q] = tt'[q][y] /\ phase'[q][y] = "PreAccepted"
             /\ q = r /\ y = x => RegisteredAt(q, y) \/ "fsync" \in Env \/ phase[q][y] # "none"
  <2> USE <1>HandlePreAcceptEffects
  <2>1. ReplicaTyped /\ voteT \in [Txn -> [Replica -> Nat]] /\ hwm'[q] >= hwm[q]
    <3>1. ReplicaTyped /\ voteT \in [Txn -> [Replica -> Nat]] /\ hwm[q] \in Nat /\ hwm' = hwm
      BY Types DEF CoordTyped, HandlePreAccept, Register, stateVars
    <3> QED
      BY <3>1, NotSmaller
  <2>2. CASE /\ phase[r][x] = "PreAccepted" /\ Vote(r, x, tt[r][x], deps[r][x])
             /\ UNCHANGED <<stateVars, clock>>
    <3>1. Same(q, y)
      BY <2>2 DEF Same, stateVars
    <3>2. \/ voteT'[y][q] = voteT[y][q]
          \/ /\ y = x /\ q = r /\ pc[y] \in {"mint", "preaccept"}
             /\ voteT'[y][q] = tt'[q][y] /\ phase'[q][y] = "PreAccepted"
      BY SMTT(30), <2>1, <2>2 DEF Vote, stateVars
    <3> QED
      BY <2>1, <2>2, <3>1, <3>2
  <2>3. CASE /\ ~PreAcceptRefused(r, x) /\ phase[r][x] = "none" /\ Register(r, x)
             /\ Vote(r, x, ProposedT(r, x), DepsBefore(r, T0(x)))
    <3>1. ASSUME q = r, y = x PROVE RegisteredAt(q, y)
      BY <2>1, <2>3, <3>1 DEF RegisteredAt, Register, ReplicaTyped, PreAcceptRefused
    <3>2. ASSUME q # r \/ y # x PROVE Same(q, y)
      BY <2>1, <2>3, <3>2 DEF Same, Register, ReplicaTyped
    <3>3. tt'[r][x] = ProposedT(r, x) /\ phase'[r][x] = "PreAccepted"
      BY <2>1, <2>3 DEF Register, ReplicaTyped
    <3>4. \/ voteT'[y][q] = voteT[y][q]
          \/ /\ y = x /\ q = r /\ pc[y] \in {"mint", "preaccept"}
             /\ voteT'[y][q] = tt'[q][y] /\ phase'[q][y] = "PreAccepted"
      BY SMTT(30), <2>1, <2>3, <3>3 DEF Vote
    <3> QED
      BY <2>1, <3>1, <3>2, <3>4
  <2>4. CASE "fsync" \in Env /\ UNCHANGED <<stateVars, voteT, voteDeps>>
    <3>1. Same(q, y)
      BY <2>4 DEF Same, stateVars
    <3> QED
      BY <2>1, <2>4, <3>1
  <2> QED
    BY <2>2, <2>3, <2>4 DEF HandlePreAccept
<1>PreAcceptEffects.
      ASSUME TypeOK, NEW x \in Txn, Rounds(x), UNCHANGED <<Replica, Home>>,
             NEW r \in Replica, PreAccept(r, x), NEW q \in Replica, NEW y \in Txn
      PROVE  Effects(q, y)
  <2> USE <1>PreAcceptEffects
  <2>1. CoordTyped /\ ReplicaTyped
    BY Types
  <2>2. /\ "PreAccept" \in sent[x] /\ <<"PreAccept", r>> \notin got[x]
        /\ got' = [got EXCEPT ![x] = @ \cup {<<"PreAccept", r>>}]
        /\ HandlePreAccept(r, x)
        /\ UNCHANGED <<pc, sent, ct, ad, cd, acks, reads, rowT, earlier>>
    BY DEF PreAccept, Deliverable, Handled
  <2>3. <<"PreAccept", r>> \in got'[x]
    BY <2>1, <2>2 DEF CoordTyped
  <2>4. /\ Same(q, y) \/ RegisteredAt(q, y)
        /\ hwm'[q] >= hwm[q]
        /\ \/ voteT'[y][q] = voteT[y][q]
           \/ /\ y = x /\ q = r /\ pc[y] \in {"mint", "preaccept"}
              /\ voteT'[y][q] = tt'[q][y] /\ phase'[q][y] = "PreAccepted"
        /\ q = r /\ y = x => RegisteredAt(q, y) \/ "fsync" \in Env \/ phase[q][y] # "none"
    BY SMTT(30), <2>2, <2>3, <1>HandlePreAcceptEffects
  <2>5. CoordStays(y) /\ AckStep(q, y)
    BY <2>2 DEF CoordStays, AckStep
  <2>6. VoteStep(q, y)
    <3>1. pc[x] # "mint"
      BY <2>2 DEF Rounds
    <3> QED
      BY <2>2, <2>4, <3>1 DEF VoteStep
  <2>7. GotStep(q, y)
    <3>1. \A k \in Kind : <<k, q>> \in got'[y] <=> <<k, q>> \in got[y] \/ (y = x /\ q = r /\ k = "PreAccept")
      BY <2>1, <2>2 DEF CoordTyped
    <3>2. {"PreAccept", "NoWrite"} \subseteq Kind
      BY DEF Kind
    <3> QED
      BY <2>2, <2>4, <3>1, <3>2 DEF GotStep
  <2> QED
    BY <2>4, <2>5, <2>6, <2>7 DEF Effects
<1>SendPreAcceptEffects.
      ASSUME TypeOK, NEW x \in Txn, Rounds(x), UNCHANGED <<Replica, Home>>,
             SendPreAccept(x), \A r \in Replica : <<"PreAccept", r>> \notin got[x],
             NEW q \in Replica, NEW y \in Txn
      PROVE  Effects(q, y)
  <2> USE <1>SendPreAcceptEffects
  <2>1. CoordTyped /\ ReplicaTyped /\ hwm[q] \in Nat
    BY Types
  <2>2. /\ pc[x] = "mint" /\ pc' = [pc EXCEPT ![x] = "preaccept"]
        /\ sent' = [sent EXCEPT ![x] = @ \cup {"PreAccept"}]
        /\ UNCHANGED <<ct, ad, cd, acks, reads, rowT, earlier>>
    BY DEF SendPreAccept, Broadcast
  <2>3. "PreAccept" \in sent'[x] /\ {"PreAccept", "NoWrite"} \subseteq Kind
    BY <2>1, <2>2 DEF CoordTyped, Kind
  <2>4. \/ /\ IsReplica(x) /\ got' = [got EXCEPT ![x] = @ \cup {<<"PreAccept", Home[x]>>}]
        \/ ~IsReplica(x) /\ got' = got
    BY DEF SendPreAccept, Handled
  <2>5. AckStep(q, y)
    BY <2>1, <2>2 DEF AckStep, CoordTyped
  <2>6. CoordStays(y) \/ CoordMoves(y)
    <3>1. CASE y = x
      <4>1. IsReplica(x) => <<"PreAccept", Home[x]>> \in got'[x]
        BY SMTT(30), <2>1, <2>4 DEF CoordTyped
      <4> QED
        BY <2>1, <2>2, <3>1, <4>1 DEF CoordMoves, CoordTyped
    <3>2. CASE y # x
      BY <2>1, <2>2, <3>2 DEF CoordStays, CoordTyped
    <3> QED
      BY <3>1, <3>2
  <2>7. CASE IsReplica(x) /\ SelfVotes
    <3>1. HandlePreAccept(Home[x], x) /\ Home[x] \in Replica
      BY <2>7 DEF SendPreAccept, IsReplica
    <3>2. <<"PreAccept", Home[x]>> \in got'[x]
      BY SMTT(30), <2>1, <2>4, <2>7 DEF CoordTyped
    <3>3. /\ Same(q, y) \/ RegisteredAt(q, y)
          /\ hwm'[q] >= hwm[q]
          /\ \/ voteT'[y][q] = voteT[y][q]
             \/ /\ y = x /\ q = Home[x] /\ pc[y] \in {"mint", "preaccept"}
                /\ voteT'[y][q] = tt'[q][y] /\ phase'[q][y] = "PreAccepted"
          /\ q = Home[x] /\ y = x => RegisteredAt(q, y) \/ "fsync" \in Env \/ phase[q][y] # "none"
      BY SMTT(30), <2>2, <2>3, <3>1, <3>2, <1>HandlePreAcceptEffects
    <3>4. VoteStep(q, y)
      BY <2>1, <2>2, <3>3 DEF VoteStep, CoordTyped
    <3>5. GotStep(q, y)
      <4>1. \A k \in Kind : <<k, q>> \in got'[y] <=> <<k, q>> \in got[y] \/ (y = x /\ q = Home[x] /\ k = "PreAccept")
        BY SMTT(30), <2>1, <2>4, <2>7, <3>1 DEF CoordTyped
      <4> QED
        BY <2>3, <3>3, <4>1 DEF GotStep
    <3> QED
      BY <2>6, <2>5, <3>3, <3>4, <3>5 DEF Effects
  <2>8. CASE ~(IsReplica(x) /\ SelfVotes)
    <3>1. UNCHANGED <<stateVars, voteT>>
      BY <2>8 DEF SendPreAccept
    <3>2. Same(q, y) /\ hwm'[q] >= hwm[q]
      BY <2>1, <2>2, <3>1, NotSmaller DEF Same, stateVars
    <3>3. VoteStep(q, y)
      BY <2>1, <2>2, <3>1 DEF VoteStep, CoordTyped
    <3>4. GotStep(q, y)
      <4>1. \A k \in Kind : <<k, q>> \in got'[y] <=>
                <<k, q>> \in got[y] \/ (IsReplica(x) /\ y = x /\ q = Home[x] /\ k = "PreAccept")
        BY SMTT(30), <2>1, <2>4 DEF CoordTyped, IsReplica
      <4> QED
        BY <2>3, <2>8, <4>1 DEF GotStep
    <3> QED
      BY <2>6, <2>5, <3>2, <3>3, <3>4 DEF Effects
  <2> QED
    BY <2>7, <2>8
\* The other handlers on replica r touch transaction x there, and nothing else.
<1>HandleAcceptEffects.
      ASSUME TypeOK, UNCHANGED <<Replica, Home, rowT>>, NEW r \in Replica, NEW x \in Txn,
             NEW t \in Nat, NEW d \in SUBSET Txn, HandleAccept(r, x, t, d)
      PROVE  OnlyAt(r, x) /\ AcceptMade(r, x, t)
  <2> USE <1>HandleAcceptEffects
  <2>1. ReplicaTyped
    BY Types
  <2>2. hwm' = RaisedHwm(r, x, t) /\ index' = index /\ tomb' = tomb
    BY DEF HandleAccept
  <2>3. ASSUME NEW q \in Replica, NEW y \in Txn, q # r \/ y # x PROVE Same(q, y)
    BY <2>1, <2>3 DEF HandleAccept, Same, ReplicaTyped
  <2>4. phase'[r][x] = "Accepted" /\ tt'[r][x] = t
    BY <2>1 DEF HandleAccept, ReplicaTyped
  <2> QED
    BY <2>2, <2>3, <2>4, RaisedHwmFacts DEF OnlyAt, AcceptMade
<1>HandleCommitEffects.
      ASSUME TypeOK, UNCHANGED <<Replica, Home, rowT>>, NEW r \in Replica, NEW x \in Txn,
             NEW t \in Nat, NEW d \in SUBSET Txn, HandleCommit(r, x, t, d),
             UNCHANGED index \/ index' = [index EXCEPT ![r] = @ \cup {x}]
      PROVE  OnlyAt(r, x) /\ CommitMade(r, x, t, d)
  <2> USE <1>HandleCommitEffects
  <2>1. ReplicaTyped
    BY Types
  <2>2. hwm' = RaisedHwm(r, x, t) /\ tomb' = tomb
    BY DEF HandleCommit
  <2>3. ASSUME NEW q \in Replica, NEW y \in Txn, q # r \/ y # x PROVE Same(q, y)
    <3>1. y \in index'[q] <=> y \in index[q]
      BY SMTT(30), <2>1, <2>3 DEF ReplicaTyped
    <3>2. phase'[q][y] = phase[q][y] /\ tt'[q][y] = tt[q][y] /\ deps'[q][y] = deps[q][y]
      BY <2>1, <2>3 DEF HandleCommit, ReplicaTyped
    <3> QED
      BY <2>2, <3>1, <3>2 DEF Same
  <2>4. phase'[r][x] = "Committed" /\ tt'[r][x] = t /\ deps'[r][x] = d
    BY <2>1 DEF HandleCommit, ReplicaTyped
  <2>5. index' = [index EXCEPT ![r] = @ \cup {x}] => x \in index'[r]
    BY <2>1 DEF ReplicaTyped
  <2> QED
    BY <2>2, <2>3, <2>4, <2>5, RaisedHwmFacts DEF OnlyAt, CommitMade
<1>FinalizeEffects.
      ASSUME TypeOK, UNCHANGED <<Replica, Home, rowT>>, NEW r \in Replica, NEW x \in Txn,
             FinalizeNoWrite(r, x), "NoWrite" \in sent'[x]
      PROVE  /\ \A q \in Replica : hwm'[q] >= hwm[q]
             /\ \A q \in Replica, y \in Txn : q # r \/ y # x => Same(q, y)
             /\ FinalizedAt(r, x)
  <2> USE <1>FinalizeEffects
  <2>1. ReplicaTyped /\ \A q \in Replica : hwm[q] \in Nat
    BY Types
  <2>2. UNCHANGED <<tt, deps, index, hwm>>
    BY DEF FinalizeNoWrite
  <2>3. ASSUME NEW q \in Replica, NEW y \in Txn, q # r \/ y # x PROVE Same(q, y)
    BY <2>1, <2>3 DEF FinalizeNoWrite, Same, ReplicaTyped
  <2>4. \/ phase[r][x] = "none" /\ phase'[r][x] = "none" /\ x \in tomb'[r]
        \/ phase[r][x] # "none" /\ phase'[r][x] = "Applied" /\ (x \in tomb'[r] <=> x \in tomb[r])
    BY <2>1 DEF FinalizeNoWrite, ReplicaTyped
  <2>5. \A q \in Replica : hwm'[q] >= hwm[q]
    BY SMTT(30), <2>1, <2>2
  <2>6. FinalizedAt(r, x)
    BY <2>2, <2>4, Zenon DEF FinalizedAt
  <2> QED
    BY <2>3, <2>5, <2>6, Zenon
<1>CreateEffects.
      ASSUME TypeOK, UNCHANGED <<Replica, Home, rowT>>, NEW r \in Replica, NEW x \in Txn,
             Create(r, x), "fsync" \in Env, sent'[x] \cap {"Accept", "Commit"} # {}
      PROVE  OnlyAt(r, x) /\ (Same(r, x) \/ CreatedAt(r, x))
  <2> USE <1>CreateEffects
  <2>1. ReplicaTyped /\ \A q \in Replica : hwm[q] \in Nat
    BY Types
  <2>2. UNCHANGED <<deps, index, hwm, tomb>>
    BY DEF Create
  <2>3. ASSUME NEW q \in Replica, NEW y \in Txn, q # r \/ y # x PROVE Same(q, y)
    BY <2>1, <2>3 DEF Create, Same, ReplicaTyped
  <2>4. ASSUME phase[r][x] # "none" PROVE Same(r, x)
    BY <2>1, <2>4 DEF Create, Same, ReplicaTyped
  <2>5. ASSUME phase[r][x] = "none" PROVE CreatedAt(r, x)
    <3>1. phase'[r][x] = "PreAccepted" /\ tt'[r][x] = T0(x)
      BY <2>1, <2>5 DEF Create, ReplicaTyped
    <3> QED
      BY <2>2, <2>5, <3>1 DEF CreatedAt
  <2> QED
    BY SMTT(30), <2>1, <2>2, <2>3, <2>4, <2>5 DEF OnlyAt
\* Requests handled by one step.
<1>GotPoint.
      ASSUME TypeOK, NEW x \in Txn, NEW r, NEW k \in Kind, Handled(x, k, r),
             NEW q \in Replica, NEW y \in Txn
      PROVE  \A j \in Kind : <<j, q>> \in got'[y] <=> <<j, q>> \in got[y] \/ (y = x /\ q = r /\ j = k)
  <2> USE <1>GotPoint
  <2>1. got \in [Txn -> SUBSET (Kind \X Replica)]
    BY DEF TypeOK
  <2> QED
    BY <2>1 DEF Handled
<1>RoundGot.
      ASSUME TypeOK, NEW x \in Txn, NEW r, NEW k \in {"Accept", "Commit", "Apply"}, Handled(x, k, r),
             k \in sent'[x], NEW q \in Replica, NEW y \in Txn
      PROVE  GotStep(q, y)
  <2> USE <1>RoundGot
  <2>1. k \in Kind /\ "PreAccept" \in Kind /\ "NoWrite" \in Kind
    BY KindFacts
  <2>2. \A j \in Kind : <<j, q>> \in got'[y] <=> <<j, q>> \in got[y] \/ (y = x /\ q = r /\ j = k)
    BY <2>1, <1>GotPoint
  <2>3. k # "PreAccept" /\ k # "NoWrite"
    OBVIOUS
  <2> QED
    BY <2>1, <2>2, <2>3 DEF GotStep
<1>AcceptEffects.
      ASSUME TypeOK, NEW x \in Txn, Rounds(x), UNCHANGED <<Replica, Home>>,
             NEW r \in Replica, Accept(r, x), NEW q \in Replica, NEW y \in Txn
      PROVE  Effects(q, y)
  <2> USE <1>AcceptEffects
  <2>1. CoordTyped /\ ct[x] \in Nat /\ ad[x] \in SUBSET Txn /\ hwm[q] \in Nat
    BY Types
  <2>2. /\ "Accept" \in sent[x] /\ InTurn(x, r) /\ Handled(x, "Accept", r)
        /\ \/ HandleAccept(r, x, ct[x], ad[x]) /\ Ack(r, x, "accept")
           \/ "fsync" \in Env /\ Create(r, x) /\ UNCHANGED acks
        /\ UNCHANGED <<pc, sent, voteT, ct, cd, rowT, earlier>>
    BY DEF Accept, Deliverable
  <2>3. CoordStays(y) /\ VoteStep(q, y)
    BY <2>2 DEF CoordStays, VoteStep
  <2>4. AckStep(q, y)
    BY <2>1, <2>2 DEF AckStep, Ack, CoordTyped
  <2>5. GotStep(q, y)
    BY <2>2, <1>RoundGot
  <2>6. hwm'[q] >= hwm[q] /\ (Same(q, y) \/ AcceptedAt(q, y) \/ CreatedAt(q, y))
    <3>1. CASE HandleAccept(r, x, ct[x], ad[x])
      <4>1. /\ hwm'[q] >= hwm[q]
            /\ q # r \/ y # x => Same(q, y)
            /\ phase'[r][x] = "Accepted" /\ tt'[r][x] = ct[x]
            /\ x \in index'[r] <=> x \in index[r]
            /\ x \in tomb'[r] <=> x \in tomb[r]
            /\ x \in index[r] => hwm'[r] >= ct[x]
        <5>1. OnlyAt(r, x) /\ AcceptMade(r, x, ct[x])
          BY <2>1, <2>2, <3>1, <1>HandleAcceptEffects
        <5> QED
          BY <5>1 DEF OnlyAt, AcceptMade
      <4>2. phase[r][x] \notin {"Committed", "Applied"}
        BY <3>1 DEF HandleAccept
      <4>3. AcceptedAt(r, x)
        BY <2>2, <4>1, <4>2 DEF AcceptedAt
      <4> QED
        BY <4>1, <4>3
    <3>2. CASE "fsync" \in Env /\ Create(r, x)
      <4>1. OnlyAt(r, x) /\ (Same(r, x) \/ CreatedAt(r, x))
        BY <2>2, <3>2, <1>CreateEffects
      <4> QED
        BY <4>1 DEF OnlyAt
    <3> QED
      BY <2>2, <3>1, <3>2
  <2> QED
    BY <2>3, <2>4, <2>5, <2>6 DEF Effects
<1>CommitEffects.
      ASSUME TypeOK, NEW x \in Txn, Rounds(x), UNCHANGED <<Replica, Home>>,
             NEW r \in Replica, Commit(r, x), NEW q \in Replica, NEW y \in Txn
      PROVE  Effects(q, y)
  <2> USE <1>CommitEffects
  <2>1. CoordTyped /\ ct[x] \in Nat /\ cd[x] \in SUBSET Txn /\ hwm[q] \in Nat
    BY Types
  <2>2. /\ "Commit" \in sent[x] /\ InTurn(x, r) /\ Handled(x, "Commit", r)
        /\ \/ HandleCommit(r, x, ct[x], cd[x]) /\ UNCHANGED index
           \/ "fsync" \in Env /\ Create(r, x)
        /\ Ack(r, x, "commit")
        /\ UNCHANGED <<pc, sent, voteT, ct, cd, rowT, earlier>>
    BY DEF Commit, Deliverable
  <2>3. CoordStays(y) /\ VoteStep(q, y)
    BY <2>2 DEF CoordStays, VoteStep
  <2>4. GotStep(q, y)
    BY <2>2, <1>RoundGot
  <2>5. CASE HandleCommit(r, x, ct[x], cd[x]) /\ UNCHANGED index
    <3>1. /\ hwm'[q] >= hwm[q]
          /\ q # r \/ y # x => Same(q, y)
          /\ phase'[r][x] = "Committed" /\ tt'[r][x] = ct[x] /\ deps'[r][x] = cd[x]
          /\ x \in index'[r] <=> x \in index[r]
          /\ x \in tomb'[r] <=> x \in tomb[r]
          /\ x \in index[r] => hwm'[r] >= ct[x]
      <4>1. OnlyAt(r, x) /\ CommitMade(r, x, ct[x], cd[x]) /\ UNCHANGED index
        BY <2>1, <2>2, <2>5, <1>HandleCommitEffects
      <4> QED
        BY <4>1 DEF OnlyAt, CommitMade
    <3>2. phase[r][x] \notin {"Committed", "Applied"}
      BY <2>5 DEF HandleCommit
    <3>3. pc[x] \notin {"preaccept", "accept"}
      <4>1. /\ pc[x] = "preaccept" => sent[x] = {"PreAccept"}
            /\ pc[x] = "accept" => sent[x] = {"PreAccept", "Accept"}
        BY DEF Rounds
      <4>2. "Commit" \in sent[x]
        BY <2>2
      <4> QED
        BY ONLY SMT, <4>1, <4>2
    <3>4. CommittedAt(r, x)
      BY <2>2, <3>1, <3>2, <3>3 DEF CommittedAt
    <3>5. q \in acks'[y] => q \in acks[y] \/ (q = r /\ y = x /\ pc[x] = "commit")
      BY <2>1, <2>2 DEF Ack, CoordTyped
    <3>6. AckStep(q, y)
      BY <2>2, <3>4, <3>5 DEF AckStep
    <3> QED
      BY <2>3, <2>4, <3>1, <3>4, <3>6 DEF Effects
  <2>6. CASE "fsync" \in Env /\ Create(r, x)
    <3>1. /\ hwm'[q] >= hwm[q]
          /\ q # r \/ y # x => Same(q, y)
          /\ Same(r, x) \/ CreatedAt(r, x)
      <4>1. OnlyAt(r, x) /\ (Same(r, x) \/ CreatedAt(r, x))
        BY <2>2, <2>6, <1>CreateEffects
      <4> QED
        BY <4>1 DEF OnlyAt
    <3>2. q \in acks'[y] => q \in acks[y] \/ (y = x /\ pc[x] = "commit")
      BY <2>1, <2>2 DEF Ack, CoordTyped
    <3>3. AckStep(q, y)
      BY <2>2, <2>6, <3>2 DEF AckStep
    <3> QED
      BY <2>3, <2>4, <3>1, <3>3 DEF Effects
  <2> QED
    BY <2>2, <2>5, <2>6
<1>ApplyEffects.
      ASSUME TypeOK, NEW x \in Txn, Rounds(x), UNCHANGED <<Replica, Home>>,
             NEW r \in Replica, Apply(r, x), NEW q \in Replica, NEW y \in Txn
      PROVE  Effects(q, y)
  <2> USE <1>ApplyEffects
  <2>1. CoordTyped /\ ReplicaTyped /\ hwm[q] \in Nat /\ rowT \in [Replica -> [Txn -> Nat]]
    BY Types
  <2>2. /\ "Apply" \in sent[x] /\ Handled(x, "Apply", r) /\ Ack(r, x, "apply")
        /\ r = Home[x] => pc[x] \in {"local", "unknown"}
        /\ phase[r][x] \in {"PreAccepted", "Accepted", "Committed"}
        /\ phase' = [phase EXCEPT ![r][x] = "Applied"]
        /\ rowT' = [rowT EXCEPT ![r][x] = tt[r][x]]
        /\ UNCHANGED <<pc, sent, voteT, ct, cd, earlier, tt, deps, index, hwm, tomb>>
    BY DEF Apply, Deliverable
  <2>3. CoordStays(y) /\ VoteStep(q, y) /\ hwm'[q] >= hwm[q]
    BY SMTT(30), <2>1, <2>2 DEF CoordStays, VoteStep
  <2>4. GotStep(q, y)
    BY <2>2, <1>RoundGot
  <2>5. q # r \/ y # x => Same(q, y)
    BY <2>1, <2>2 DEF Same, ReplicaTyped
  <2>6. AppliedAt(r, x)
    BY <2>1, <2>2 DEF AppliedAt, ReplicaTyped
  <2>7. AckStep(q, y)
    <3>1. q \in acks'[y] => q \in acks[y] \/ (q = r /\ y = x /\ pc[x] = "apply")
      BY <2>1, <2>2 DEF Ack, CoordTyped
    <3> QED
      BY <2>2, <2>6, <3>1 DEF AckStep
  <2> QED
    BY <2>3, <2>4, <2>5, <2>6, <2>7 DEF Effects
<1>NoWriteEffects.
      ASSUME TypeOK, NEW x \in Txn, Rounds(x), UNCHANGED <<Replica, Home>>,
             NEW r \in Replica, NoWrite(r, x), NEW q \in Replica, NEW y \in Txn
      PROVE  Effects(q, y)
  <2> USE <1>NoWriteEffects
  <2>2. /\ "NoWrite" \in sent[x] /\ Handled(x, "NoWrite", r) /\ FinalizeNoWrite(r, x)
        /\ UNCHANGED <<pc, sent, voteT, ct, cd, acks, rowT, earlier>>
    BY DEF NoWrite, Deliverable
  <2>3. CoordStays(y) /\ VoteStep(q, y) /\ AckStep(q, y)
    BY <2>2 DEF CoordStays, VoteStep, AckStep
  <2>4. /\ hwm'[q] >= hwm[q]
        /\ q # r \/ y # x => Same(q, y)
        /\ FinalizedAt(r, x)
    BY <2>2, <1>FinalizeEffects
  <2>5. GotStep(q, y)
    <3>1. "NoWrite" \in Kind /\ "PreAccept" \in Kind /\ "NoWrite" # "PreAccept"
      BY KindFacts
    <3>2. \A k \in Kind : <<k, q>> \in got'[y] <=> <<k, q>> \in got[y] \/ (y = x /\ q = r /\ k = "NoWrite")
      BY <2>2, <3>1, <1>GotPoint
    <3> QED
      BY <2>2, <2>4, <3>1, <3>2 DEF GotStep
  <2> QED
    BY <2>3, <2>4, <2>5 DEF Effects
<1>StartCommitEffects.
      ASSUME TypeOK, NEW x \in Txn, UNCHANGED <<Replica, Home>>,
             NEW t \in Nat, NEW d \in SUBSET Txn, StartCommit(x, t, d),
             pc[x] \in {"preaccept", "accept"}, CoordMoves(x),
             NEW q \in Replica, NEW y \in Txn,
             \/ voteT'[y][q] = voteT[y][q] /\ pc[x] = "accept"
             \/ voteT'[y][q] = IF y = x THEN 0 ELSE voteT[y][q]
      PROVE  Effects(q, y)
  <2> USE <1>StartCommitEffects
  <2>1. CoordTyped /\ hwm[q] \in Nat
    BY Types
  <2>2. /\ ct' = [ct EXCEPT ![x] = t] /\ cd' = [cd EXCEPT ![x] = d]
        /\ pc' = [pc EXCEPT ![x] = "commit"]
        /\ sent' = [sent EXCEPT ![x] = @ \cup {"Commit"}]
        /\ UNCHANGED <<rowT, earlier>>
    BY DEF StartCommit, Broadcast
  <2>3. ct'[x] = t /\ cd'[x] = d /\ pc'[x] = "commit" /\ "Commit" \in sent'[x]
    BY <2>1, <2>2 DEF CoordTyped
  <2>4. y # x => CoordStays(y)
    BY <2>1, <2>2 DEF CoordStays, CoordTyped
  <2>5. CoordStays(y) \/ CoordMoves(y)
    BY <2>4
  <2>6. VoteStep(q, y)
    <3>1. y # x => pc'[y] = pc[y]
      BY <2>4 DEF CoordStays
    <3> QED
      BY <3>1 DEF VoteStep
  <2>7. CASE IsReplica(x)
    <3>1. /\ Home[x] \in Replica /\ HandleCommit(Home[x], x, t, d)
          /\ index' = [index EXCEPT ![Home[x]] = @ \cup {x}]
          /\ acks' = [acks EXCEPT ![x] = {Home[x]}]
          /\ Handled(x, "Commit", Home[x])
      BY <2>7 DEF StartCommit, IsReplica
    <3>2. /\ hwm'[q] >= hwm[q]
          /\ q # Home[x] \/ y # x => Same(q, y)
          /\ phase'[Home[x]][x] = "Committed" /\ tt'[Home[x]][x] = t /\ deps'[Home[x]][x] = d
          /\ x \in index'[Home[x]]
          /\ x \in tomb'[Home[x]] <=> x \in tomb[Home[x]]
          /\ x \in index[Home[x]] => hwm'[Home[x]] >= t
      <4> DEFINE r == Home[x]
      <4>1. /\ r \in Replica /\ HandleCommit(r, x, t, d)
            /\ UNCHANGED index \/ index' = [index EXCEPT ![r] = @ \cup {x}]
            /\ UNCHANGED <<Replica, Home, rowT>>
        BY <2>2, <3>1
      <4>2. index' = [index EXCEPT ![r] = @ \cup {x}]
        BY <3>1
      <4> HIDE DEF r
      <4>3. OnlyAt(r, x) /\ CommitMade(r, x, t, d)
        BY <4>1, <1>HandleCommitEffects
      <4> QED
        BY <4>2, <4>3 DEF r, OnlyAt, CommitMade
    <3>3. phase[Home[x]][x] \notin {"Committed", "Applied"}
      BY <3>1 DEF HandleCommit
    <3>4. CommittedAt(Home[x], x)
      BY <2>2, <2>3, <3>2, <3>3 DEF CommittedAt
    <3>5. q \in acks'[y] => (q \in acks[y] /\ y # x) \/ (q = Home[x] /\ y = x)
      BY <2>1, <3>1 DEF CoordTyped
    <3>6. AckStep(q, y)
      BY <2>3, <2>4, <3>4, <3>5 DEF AckStep, CoordStays
    <3>7. GotStep(q, y)
      <4>1. "Commit" \in Kind /\ "Commit" # "PreAccept" /\ "Commit" # "NoWrite"
            /\ "PreAccept" \in Kind /\ "NoWrite" \in Kind
        BY KindFacts
      <4>2. \A k \in Kind : <<k, q>> \in got'[y] <=>
                <<k, q>> \in got[y] \/ (y = x /\ q = Home[x] /\ k = "Commit")
        BY <3>1, <4>1, <1>GotPoint
      <4> QED
        BY <2>3, <4>1, <4>2 DEF GotStep
    <3> QED
      BY <2>5, <2>6, <3>2, <3>4, <3>6, <3>7 DEF Effects
  <2>8. CASE ~IsReplica(x)
    <3>1. UNCHANGED <<stateVars, got>> /\ acks' = [acks EXCEPT ![x] = {}]
      BY <2>8 DEF StartCommit
    <3>2. Same(q, y) /\ hwm'[q] >= hwm[q] /\ GotStep(q, y)
      BY <2>2, <3>1, ReplicasStay
    <3>3. q \in acks'[y] => q \in acks[y] /\ y # x
      BY <2>1, <3>1 DEF CoordTyped
    <3>4. AckStep(q, y)
      BY <2>4, <3>3 DEF AckStep, CoordStays
    <3> QED
      BY <2>5, <2>6, <3>2, <3>4 DEF Effects
  <2> QED
    BY <2>7, <2>8
<1>StartAcceptEffects.
      ASSUME TypeOK, NEW x \in Txn, UNCHANGED <<Replica, Home>>,
             NEW t \in Nat, NEW d \in SUBSET Txn, StartAccept(x, t, d),
             pc[x] = "preaccept", CoordMoves(x),
             NEW q \in Replica, NEW y \in Txn,
             voteT'[y][q] = IF y = x THEN 0 ELSE voteT[y][q]
      PROVE  Effects(q, y)
  <2> USE <1>StartAcceptEffects
  <2>1. CoordTyped /\ hwm[q] \in Nat
    BY Types
  <2>2. /\ ct' = [ct EXCEPT ![x] = t]
        /\ pc' = [pc EXCEPT ![x] = "accept"]
        /\ sent' = [sent EXCEPT ![x] = @ \cup {"Accept"}]
        /\ UNCHANGED <<cd, rowT, earlier>>
    BY DEF StartAccept, Broadcast
  <2>3. ct'[x] = t /\ pc'[x] = "accept" /\ "Accept" \in sent'[x]
    BY <2>1, <2>2 DEF CoordTyped
  <2>4. y # x => CoordStays(y)
    BY <2>1, <2>2 DEF CoordStays, CoordTyped
  <2>5. CoordStays(y) \/ CoordMoves(y)
    BY <2>4
  <2>6. VoteStep(q, y)
    <3>1. y # x => pc'[y] = pc[y]
      BY <2>4 DEF CoordStays
    <3> QED
      BY <3>1 DEF VoteStep
  <2>7. AckStep(q, y)
    <3>1. y # x => acks'[y] = acks[y]
      BY <2>1 DEF StartAccept, CoordTyped
    <3> QED
      BY <2>3, <2>4, <3>1 DEF AckStep, CoordStays
  <2>8. CASE IsReplica(x) /\ HandleAccept(Home[x], x, t, d) /\ Handled(x, "Accept", Home[x])
    <3>1. Home[x] \in Replica
      BY <2>8 DEF IsReplica
    <3>2. /\ hwm'[q] >= hwm[q]
          /\ q # Home[x] \/ y # x => Same(q, y)
          /\ phase'[Home[x]][x] = "Accepted" /\ tt'[Home[x]][x] = t
          /\ x \in index'[Home[x]] <=> x \in index[Home[x]]
          /\ x \in tomb'[Home[x]] <=> x \in tomb[Home[x]]
          /\ x \in index[Home[x]] => hwm'[Home[x]] >= t
      <4>1. HandleAccept(Home[x], x, t, d) /\ UNCHANGED <<Replica, Home, rowT>>
        BY <2>2, <2>8
      <4>2. OnlyAt(Home[x], x) /\ AcceptMade(Home[x], x, t)
        BY <3>1, <4>1, <1>HandleAcceptEffects
      <4> QED
        BY <4>2 DEF OnlyAt, AcceptMade
    <3>3. phase[Home[x]][x] \notin {"Committed", "Applied"}
      BY <2>8 DEF HandleAccept
    <3>4. AcceptedAt(Home[x], x)
      BY <2>2, <2>3, <3>2, <3>3 DEF AcceptedAt
    <3>5. GotStep(q, y)
      BY <2>3, <2>8, <1>RoundGot
    <3> QED
      BY <2>5, <2>6, <2>7, <3>2, <3>4, <3>5 DEF Effects
  <2>9. CASE IsReplica(x) /\ "fsync" \in Env /\ Create(Home[x], x) /\ Handled(x, "Accept", Home[x])
    <3>1. Home[x] \in Replica
      BY <2>9 DEF IsReplica
    <3>2. /\ hwm'[q] >= hwm[q]
          /\ q # Home[x] \/ y # x => Same(q, y)
          /\ Same(Home[x], x) \/ CreatedAt(Home[x], x)
      <4>1. sent'[x] \cap {"Accept", "Commit"} # {}
        BY <2>2, <2>3
      <4>2. Create(Home[x], x) /\ "fsync" \in Env /\ UNCHANGED <<Replica, Home, rowT>>
        BY <2>2, <2>9
      <4>3. OnlyAt(Home[x], x) /\ (Same(Home[x], x) \/ CreatedAt(Home[x], x))
        BY <3>1, <4>1, <4>2, <1>CreateEffects
      <4> QED
        BY <4>3 DEF OnlyAt
    <3>3. GotStep(q, y)
      BY <2>3, <2>9, <1>RoundGot
    <3> QED
      BY <2>5, <2>6, <2>7, <3>2, <3>3 DEF Effects
  <2>10. CASE UNCHANGED <<stateVars, got>>
    <3>1. Same(q, y) /\ hwm'[q] >= hwm[q] /\ GotStep(q, y)
      BY <2>2, <2>10, ReplicasStay
    <3> QED
      BY <2>5, <2>6, <2>7, <3>1 DEF Effects
  <2> QED
    BY <2>8, <2>9, <2>10 DEF StartAccept
<1>ForgetPoint.
      ASSUME TypeOK, NEW x \in Txn, ForgetVotes(x), NEW q \in Replica, NEW y \in Txn
      PROVE  voteT'[y][q] = IF y = x THEN 0 ELSE voteT[y][q]
  <2> USE <1>ForgetPoint
  <2>1. voteT \in [Txn -> [Replica -> Nat]]
    BY DEF TypeOK
  <2> QED
    BY <2>1 DEF ForgetVotes
<1>DecideEffects.
      ASSUME TypeOK, NEW x \in Txn, Rounds(x), UNCHANGED <<Replica, Home>>,
             FastPath(x) \/ NeedAccept(x) \/ SlowPath(x), NEW q \in Replica, NEW y \in Txn
      PROVE  Effects(q, y)
  <2> USE <1>DecideEffects
  <2>1. CoordTyped /\ ReplicaTyped
    BY Types
  <2>2. CASE FastPath(x)
    <3>1. PICK Q \in FastPathOf(x) : StartCommit(x, T0(x), MergedDeps(x, Q))
      BY <2>2 DEF FastPath
    <3>2. T0(x) \in Nat /\ MergedDeps(x, Q) \in SUBSET Txn
      BY SetupFacts, FastFacts
    <3>3. pc[x] = "preaccept" /\ ForgetVotes(x)
      BY <2>2 DEF FastPath
    <3>4. /\ pc'[x] = "commit" /\ sent'[x] = sent[x] \cup {"Commit"}
          /\ ct'[x] = T0(x) /\ earlier'[x] = earlier[x]
          /\ IsReplica(x) => x \in index'[Home[x]]
      BY SMTT(30), <2>1, <3>1 DEF StartCommit, Broadcast, CoordTyped, IsReplica, ReplicaTyped
    <3>5. CoordMoves(x)
      BY <3>3, <3>4 DEF CoordMoves
    <3>6. voteT'[y][q] = IF y = x THEN 0 ELSE voteT[y][q]
      BY <3>3, <1>ForgetPoint
    <3> QED
      BY <3>1, <3>2, <3>3, <3>5, <3>6, <1>StartCommitEffects
  <2>3. CASE NeedAccept(x)
    <3>1. PICK Q \in NeedAcceptOf(x) : StartAccept(x, MergedT(x, Q), MergedDeps(x, Q))
      BY <2>3 DEF NeedAccept
    <3>2. MergedDeps(x, Q) \in SUBSET Txn /\ Q \in SUBSET Voters(x) /\ Q # {}
      BY SlowFacts
    <3>3. MergedT(x, Q) \in Nat
      BY <3>2, MergedFacts
    <3>4. pc[x] = "preaccept" /\ ForgetVotes(x)
      BY <2>3 DEF NeedAccept
    <3>5. /\ pc'[x] = "accept" /\ sent'[x] = sent[x] \cup {"Accept"} /\ cd'[x] = cd[x]
          /\ ct'[x] = MergedT(x, Q) /\ earlier'[x] = earlier[x]
      BY <2>1, <3>1 DEF StartAccept, Broadcast, CoordTyped
    <3>6. CoordMoves(x)
      BY <3>4, <3>5 DEF CoordMoves
    <3>7. voteT'[y][q] = IF y = x THEN 0 ELSE voteT[y][q]
      BY <3>4, <1>ForgetPoint
    <3> QED
      BY <3>1, <3>2, <3>3, <3>4, <3>6, <3>7, <1>StartAcceptEffects
  <2>4. CASE SlowPath(x)
    <3>1. PICK Q \in Heard(x, acks[x]) :
              StartCommit(x, ct[x], ad[x] \cup UNION {deps[r][x] : r \in Q})
      BY <2>4 DEF SlowPath
    <3> DEFINE d == ad[x] \cup UNION {deps[r][x] : r \in Q}
    <3>2. Q \subseteq Replica
      BY Types DEF Heard
    <3>3. d \in SUBSET Txn /\ ct[x] \in Nat
      <4>1. ct[x] \in Nat /\ ad[x] \subseteq Txn /\ \A r \in Replica : deps[r][x] \subseteq Txn
        BY Types
      <4> QED
        BY <3>2, <4>1
    <3>4. pc[x] = "accept" /\ voteT' = voteT
      BY <2>4 DEF SlowPath
    <3>5. StartCommit(x, ct[x], d)
      BY <3>1
    <3> HIDE DEF d
    <3>6. /\ pc'[x] = "commit" /\ sent'[x] = sent[x] \cup {"Commit"}
          /\ ct'[x] = ct[x] /\ earlier'[x] = earlier[x]
          /\ IsReplica(x) => x \in index'[Home[x]]
      BY SMTT(30), <2>1, <3>5 DEF StartCommit, Broadcast, CoordTyped, IsReplica, ReplicaTyped
    <3>7. CoordMoves(x)
      BY <3>4, <3>6 DEF CoordMoves
    <3> QED
      BY <3>3, <3>4, <3>5, <3>7, <1>StartCommitEffects
  <2> QED
    BY <2>2, <2>3, <2>4
<1>EndEffects.
      ASSUME TypeOK, NEW x \in Txn, Rounds(x), UNCHANGED <<Replica, Home>>,
             ConditionNotMet(x) \/ RoundFails(x) \/ ApplyFails(x), NEW q \in Replica, NEW y \in Txn
      PROVE  Effects(q, y)
  <2> USE <1>EndEffects
  <2>1. CoordTyped /\ hwm[q] \in Nat
    BY Types
  <2>2. ASSUME NEW o \in {"refused", "failed", "abandoned"}, GiveUp(x, o),
               \/ pc[x] \in {"preaccept", "accept", "commit", "read"} /\ o \in {"failed", "refused"}
               \/ pc[x] = "apply" /\ o = "abandoned" /\ "fail" \in Env
        PROVE  Effects(q, y)
    <3>1. /\ pc' = [pc EXCEPT ![x] = o] /\ sent' = [sent EXCEPT ![x] = @ \cup {"NoWrite"}]
          /\ acks' = [acks EXCEPT ![x] = {}]
          /\ ForgetVotes(x) /\ UNCHANGED <<ct, cd, rowT, earlier>>
      BY <2>2 DEF GiveUp, Broadcast
    <3>2. pc'[x] = o /\ sent'[x] = sent[x] \cup {"NoWrite"}
      BY <2>1, <3>1 DEF CoordTyped
    <3>3. CoordMoves(x)
      BY <2>2, <3>1, <3>2 DEF CoordMoves
    <3>4. y # x => CoordStays(y)
      BY <2>1, <3>1 DEF CoordStays, CoordTyped
    <3>5. VoteStep(q, y)
      <4>1. voteT'[y][q] = IF y = x THEN 0 ELSE voteT[y][q]
        BY <3>1, <1>ForgetPoint
      <4> QED
        BY <3>4, <4>1 DEF VoteStep, CoordStays
    <3>6. AckStep(q, y)
      <4>1. q \in acks'[y] => q \in acks[y] /\ y # x
        BY <2>1, <3>1 DEF CoordTyped
      <4> QED
        BY <3>4, <4>1 DEF AckStep, CoordStays
    <3>7. CASE IsReplica(x)
      <4>1. /\ Home[x] \in Replica /\ FinalizeNoWrite(Home[x], x)
            /\ Handled(x, "NoWrite", Home[x])
        BY <2>2, <3>7 DEF GiveUp, IsReplica
      <4>2. /\ hwm'[q] >= hwm[q]
            /\ q # Home[x] \/ y # x => Same(q, y)
            /\ FinalizedAt(Home[x], x)
        BY <3>1, <3>2, <4>1, <1>FinalizeEffects
      <4>3. GotStep(q, y)
        <5>1. "NoWrite" \in Kind /\ "PreAccept" \in Kind /\ "NoWrite" # "PreAccept"
          BY KindFacts
        <5>2. \A k \in Kind : <<k, q>> \in got'[y] <=>
                  <<k, q>> \in got[y] \/ (y = x /\ q = Home[x] /\ k = "NoWrite")
          BY <4>1, <5>1, <1>GotPoint
        <5> QED
          BY <3>2, <4>1, <4>2, <5>1, <5>2 DEF GotStep
      <4> QED
        BY <3>3, <3>4, <3>5, <3>6, <4>2, <4>3 DEF Effects
    <3>8. CASE ~IsReplica(x)
      <4>1. UNCHANGED <<stateVars, got>>
        BY <2>2, <3>8 DEF GiveUp
      <4>2. Same(q, y) /\ hwm'[q] >= hwm[q] /\ GotStep(q, y)
        BY <3>1, <4>1, ReplicasStay
      <4> QED
        BY <3>3, <3>4, <3>5, <3>6, <4>2 DEF Effects
    <3> QED
      BY <3>7, <3>8
  <2>3. ASSUME ApplyFails(x), ~GiveUp(x, "abandoned") PROVE Effects(q, y)
    <3>1. /\ pc[x] = "apply" /\ "fail" \in Env
          /\ pc' = [pc EXCEPT ![x] = "unknown"] /\ acks' = [acks EXCEPT ![x] = {}]
          /\ UNCHANGED <<sent, got, voteT, ct, cd, stateVars, rowT, earlier>>
      BY <2>3 DEF ApplyFails
    <3>2. y = x => CoordMoves(y)
      BY <2>1, <3>1 DEF CoordMoves, CoordTyped
    <3>3. y # x => CoordStays(y)
      BY <2>1, <3>1 DEF CoordStays, CoordTyped
    <3>4. VoteStep(q, y) /\ AckStep(q, y)
      BY <2>1, <3>1 DEF VoteStep, AckStep, CoordTyped
    <3>5. Same(q, y) /\ hwm'[q] >= hwm[q] /\ GotStep(q, y)
      BY <3>1, ReplicasStay
    <3> QED
      BY <3>2, <3>3, <3>4, <3>5 DEF Effects
  <2> QED
    BY <2>2, <2>3 DEF ConditionNotMet, RoundFails, ApplyFails
<1>PruneEffects.
      ASSUME TypeOK, UNCHANGED <<Replica, Home>>, NEW r \in Replica, Prune(r),
             NEW q \in Replica, NEW y \in Txn
      PROVE  Effects(q, y)
  <2> USE <1>PruneEffects
  <2> DEFINE gone == {x \in Txn : phase[r][x] = "Applied"}
  <2>1. ReplicaTyped /\ hwm[q] \in Nat
    BY Types
  <2>2. /\ "prune" \in Env
        /\ phase' = [phase EXCEPT ![r] = [x \in Txn |-> IF x \in gone THEN "none" ELSE phase[r][x]]]
        /\ tt' = [tt EXCEPT ![r] = [x \in Txn |-> IF x \in gone THEN 0 ELSE tt[r][x]]]
        /\ deps' = [deps EXCEPT ![r] = [x \in Txn |-> IF x \in gone THEN {} ELSE deps[r][x]]]
        /\ index' = [index EXCEPT ![r] = @ \ gone]
        /\ tomb' = [tomb EXCEPT ![r] = @ \cup gone]
        /\ UNCHANGED <<pc, sent, got, voteT, ct, cd, acks, hwm, rowT, earlier>>
    BY <2>1 DEF Prune, ReplicaTyped
  <2>3. CASE q = r /\ y \in gone
    <3>1. PrunedAt(q, y)
      BY <2>1, <2>2, <2>3 DEF PrunedAt, ReplicaTyped
    <3>2. CoordStays(y) /\ VoteStep(q, y) /\ AckStep(q, y) /\ GotStep(q, y) /\ hwm'[q] >= hwm[q]
      BY <2>1, <2>2, NotSmaller DEF CoordStays, VoteStep, AckStep, GotStep
    <3> QED
      BY <3>1, <3>2 DEF Effects
  <2>4. CASE ~(q = r /\ y \in gone)
    <3>1. Same(q, y)
      BY <2>1, <2>2, <2>4 DEF Same, ReplicaTyped
    <3>2. CoordStays(y) /\ VoteStep(q, y) /\ AckStep(q, y) /\ GotStep(q, y) /\ hwm'[q] >= hwm[q]
      BY <2>1, <2>2, NotSmaller DEF CoordStays, VoteStep, AckStep, GotStep
    <3> QED
      BY <3>1, <3>2 DEF Effects
  <2> QED
    BY <2>3, <2>4
<1> SUFFICES ASSUME RoundInv, Next
             PROVE  /\ TypeOK' /\ Replica' = Replica /\ Home' = Home
                    /\ \A q \in Replica, y \in Txn : Effects(q, y)
  OBVIOUS
<1>1. UNCHANGED <<Replica, Home>> /\ TypeOK /\ Replica' = Replica /\ Home' = Home
  BY DEF Next, RoundInv
<1> DEFINE Good == \A q \in Replica, y \in Txn : Effects(q, y)
<1>2. ASSUME NEW x \in Txn, Coordinate(x) PROVE Good
  <2>1. Rounds(x)
    BY DEF RoundInv
  <2>2. CASE Begin(x) \/ CommitQuorum(x) \/ GatePassed(x) \/ ApplyQuorum(x) \/ LocalDone(x)
    BY <1>1, <2>1, <2>2, <1>CoordEffects
  <2>3. CASE SendPreAccept(x)
    <3>1. \A r \in Replica : <<"PreAccept", r>> \notin got[x]
      <4>1. sent[x] = {}
        BY <2>1, <2>3 DEF Rounds, SendPreAccept
      <4> QED
        BY <4>1, KindFacts DEF RoundInv, Broadcasted
    <3> QED
      BY <1>1, <2>1, <2>3, <3>1, <1>SendPreAcceptEffects
  <2>4. CASE FastPath(x) \/ NeedAccept(x) \/ SlowPath(x)
    BY <1>1, <2>1, <2>4, <1>DecideEffects
  <2>5. CASE ConditionNotMet(x) \/ RoundFails(x) \/ ApplyFails(x)
    BY <1>1, <2>1, <2>5, <1>EndEffects
  <2> QED
    BY <1>2, <2>2, <2>3, <2>4, <2>5 DEF Coordinate
<1>3. ASSUME NEW r \in Replica, NEW x \in Txn, Serve(r, x) PROVE Good
  <2>1. Rounds(x)
    BY DEF RoundInv
  <2>2. CASE PreAccept(r, x)
    BY <1>1, <2>1, <2>2, <1>PreAcceptEffects
  <2>3. CASE Accept(r, x)
    BY <1>1, <2>1, <2>3, <1>AcceptEffects
  <2>4. CASE Commit(r, x)
    BY <1>1, <2>1, <2>4, <1>CommitEffects
  <2>5. CASE Apply(r, x)
    BY <1>1, <2>1, <2>5, <1>ApplyEffects
  <2>6. CASE NoWrite(r, x)
    BY <1>1, <2>1, <2>6, <1>NoWriteEffects
  <2>7. CASE DepWait(r, x) \/ ReadRow(r, x) \/ AbstainRead(r, x)
    BY <1>1, <2>1, <2>7, <1>CoordEffects
  <2> QED
    BY <1>3, <2>2, <2>3, <2>4, <2>5, <2>6, <2>7 DEF Serve
<1>4. ASSUME NEW r \in Replica, Prune(r) PROVE Good
  BY <1>1, <1>4, <1>PruneEffects
<1> QED
  BY <1>1, <1>2, <1>3, <1>4, StepTypes DEF Next, RoundInv

LEMMA PriorMax ==
    ASSUME NEW f \in [Prior -> Nat]
    PROVE  /\ Max({0} \cup {f[x] : x \in Prior}) \in Nat
           /\ \A x \in Prior : f[x] <= Max({0} \cup {f[z] : z \in Prior})
<1> DEFINE S == {f[x] : x \in Prior} \cup {0}
<1>1. IsFiniteSet(Prior)
  <2>1. IsFiniteSet(1 .. D - 1)
    BY SMTT(30), DInt, FS_Interval
  <2> QED
    BY <2>1, StampDigits, Statements, FS_Subset
<1>2. IsFiniteSet(S)
  <2>1. IsFiniteSet({f[x] : x \in Prior})
    BY <1>1, ImageOfFinite
  <2> QED
    BY <2>1, FS_AddElement
<1>3. S \in SUBSET Nat /\ S # {} /\ \A x \in Prior : f[x] \in S
  BY SMTT(30)
<1>4. {0} \cup {f[x] : x \in Prior} = S
  OBVIOUS
<1> HIDE DEF S
<1>5. Max(S) \in S /\ \A t \in S : t <= Max(S)
  BY SMTT(30), <1>2, <1>3, MaxOfFinite
<1> QED
  BY <1>3, <1>4, <1>5

LEMMA RoundInit == Init => RoundInv
<1> SUFFICES ASSUME Init PROVE RoundInv
  OBVIOUS
<1>1. PICK s \in Setups : Replica = s.replicas /\ Home = s.home
  BY DEF Init
<1>2. Home \in [Txn -> Node] /\ Node \subseteq 0 .. D - 1 /\ Txn \subseteq 1 .. D - 1
  BY <1>1, Copies, StampDigits
<1>3. ASSUME NEW x \in Txn PROVE T0(x) \in Nat /\ T0(x) > 0 /\ D * x \in Nat
  <2>1. Home[x] \in 0 .. D - 1 /\ x \in 1 .. D - 1
    BY <1>2
  <2>2. Home[x] \in Nat /\ x \in Nat /\ x > 0
    BY SMTT(30), <2>1, DInt
  <2> QED
    BY <2>2, Z3 DEF T0, Stamp, D
<1>4. Prior \subseteq Txn
  BY Statements
<1>5. Max({0} \cup {D * x : x \in Prior}) \in Nat
  <2> DEFINE f == [x \in Prior |-> D * x]
  <2>1. f \in [Prior -> Nat]
    BY <1>3, <1>4
  <2>2. {0} \cup {D * x : x \in Prior} = {0} \cup {f[x] : x \in Prior}
    OBVIOUS
  <2> HIDE DEF f
  <2> QED
    BY <2>1, <2>2, PriorMax
<1>6. Max({0} \cup {T0(x) : x \in Prior}) \in Nat
  <2> DEFINE f == [x \in Prior |-> T0(x)]
  <2>1. f \in [Prior -> Nat]
    BY <1>3, <1>4
  <2>2. {0} \cup {T0(x) : x \in Prior} = {0} \cup {f[x] : x \in Prior}
    OBVIOUS
  <2> HIDE DEF f
  <2> QED
    BY <2>1, <2>2, PriorMax
<1>7. CoordTyped
  <2>1. /\ pc = [x \in Txn |-> IF x \in Prior THEN "ok" ELSE "idle"]
        /\ sent = [x \in Txn |-> {}] /\ got = [x \in Txn |-> {}]
        /\ voteT = [x \in Txn |-> [r \in Replica |-> 0]]
        /\ voteDeps = [x \in Txn |-> [r \in Replica |-> {}]]
        /\ ct = [x \in Txn |-> IF x \in Prior THEN T0(x) ELSE 0]
        /\ ad = [x \in Txn |-> {}] /\ cd = [x \in Txn |-> {}] /\ acks = [x \in Txn |-> {}]
        /\ reads = [x \in Txn |-> [r \in Replica |-> -1]]
        /\ earlier = [x \in Txn |-> {}]
    BY DEF Init, NoRead
  <2>2. ct \in [Txn -> Nat]
    BY SMTT(30), <1>3, <2>1
  <2>3. voteT \in [Txn -> [Replica -> Nat]] /\ reads \in [Txn -> [Replica -> Int]]
    BY SMTT(30), <2>1
  <2> QED
    BY <2>1, <2>2, <2>3 DEF CoordTyped, Terminal
<1>8. rowT \in [Replica -> [Txn -> Nat]]
  BY <1>7 DEF Init, CoordTyped
<1>9. ReplicaTyped
  <2>1. clock \in [Node -> Nat] /\ hwm \in [Replica -> Nat]
    <3> DEFINE a == Max({0} \cup {D * x : x \in Prior})
               b == Max({0} \cup {T0(x) : x \in Prior})
    <3>1. clock = [n \in Node |-> a] /\ hwm = [r \in Replica |-> b]
      BY DEF Init
    <3> HIDE DEF a, b
    <3> QED
      BY <1>5, <1>6, <3>1 DEF a, b
  <2> QED
    BY <1>4, <2>1 DEF Init, ReplicaTyped, Phase
<1>10. TypeOK
  BY <1>1, <1>7, <1>8, <1>9, TypeParts
<1>11. ASSUME NEW x \in Txn PROVE Rounds(x) /\ Broadcasted(x)
  BY <1>3 DEF Init, Rounds, Broadcasted
<1> QED
  BY <1>10, <1>11 DEF RoundInv

LEMMA RoundStep == RoundInv /\ [Next]_vars => RoundInv'
<1>1. ASSUME RoundInv, Next PROVE RoundInv'
  <2>1. /\ TypeOK /\ TypeOK' /\ Replica' = Replica /\ Home' = Home
        /\ \A q \in Replica, y \in Txn : Effects(q, y)
    BY <1>1, StepEffects DEF RoundInv
  <2>2. ASSUME NEW y \in Txn PROVE Rounds(y)' /\ Broadcasted(y)'
    <3>1. PICK q \in Replica : TRUE
      <4>1. Replica # {}
        BY SMTT(30), <2>1, SetupFacts, FS_EmptySet
      <4> QED
        BY <4>1
    <3>2. CoordStays(y) \/ CoordMoves(y)
      BY <2>1, <3>1 DEF Effects
    <3>3. Rounds(y) /\ sent[y] \in SUBSET Kind
      BY <1>1, Types DEF RoundInv, CoordTyped
    <3>4. \A k \in Kind : k \in sent[y] => k \in sent'[y]
      BY <3>2 DEF CoordStays, CoordMoves
    <3>5. Broadcasted(y)'
      <4>1. ASSUME NEW k \in Kind, NEW r \in Replica, <<k, r>> \in got'[y] PROVE k \in sent'[y]
        <5>1. GotStep(r, y)
          BY <2>1 DEF Effects
        <5> QED
          BY <1>1, <3>4, <4>1, <5>1 DEF GotStep, RoundInv, Broadcasted
      <4> QED
        BY <2>1, <4>1 DEF Broadcasted
    <3>6. CASE CoordStays(y)
      BY <3>3, <3>5, <3>6 DEF CoordStays, Rounds
    <3>7. CASE CoordMoves(y)
      <4>1. \A Q \in NeedAcceptOf(y) : MergedT(y, Q) # 0
        BY <2>1, SlowFacts, MergedFacts
      <4>2. T0(y) # 0
        BY SMTT(30), <2>1, SetupFacts
      <4>3. Rounds(y)'
        BY <3>3, <3>7, <4>1, <4>2 DEF CoordMoves, Rounds
      <4> QED
        BY <3>5, <4>3
    <3> QED
      BY <3>2, <3>6, <3>7
  <2> QED
    BY <2>1, <2>2 DEF RoundInv
<1>2. ASSUME RoundInv, UNCHANGED vars PROVE RoundInv'
  <2>1. TypeOK'
    BY <1>2 DEF RoundInv, TypeOK, vars
  <2> QED
    BY <1>2, <2>1 DEF RoundInv, Rounds, Broadcasted, vars
<1> QED
  BY <1>1, <1>2

\* Every variable keeps its type, whatever the replicas, the transactions and the
\* failures: a TxnState always has a timestamp, and every request is typed.
THEOREM TxnTypes == Spec => []TypeOK
<1>1. RoundInv => TypeOK
  BY DEF RoundInv
<1> QED
  BY <1>1, RoundInit, RoundStep, PTL DEF Spec

------------------------------------------------------------------------------
\* What a replica's state of a transaction says of its coordinator's rounds

LEMMA HoldInit == Init => HoldInv
<1> SUFFICES ASSUME Init PROVE HoldInv
  OBVIOUS
<1>1. RoundInv /\ TypeOK
  BY RoundInit DEF RoundInv
<1>2. \A x \in Txn : T0(x) # 0
  BY SMTT(30), <1>1, SetupFacts
<1>3. ASSUME NEW r \in Replica, NEW x \in Txn PROVE Agreeing(r, x) /\ Justified(r, x)
  BY <1>2 DEF Init, Agreeing, Justified
<1>4. ASSUME NEW x \in Txn PROVE Counted(x)
  <2>1. CASE x \in Prior
    <3>1. Holders(x) = Replica /\ pc[x] = "ok"
      BY <1>2, <2>1 DEF Init, Holders
    <3>2. Cardinality(Replica) >= SlowQuorum
      <4> DEFINE n == Cardinality(Replica)
      <4>1. n \in Nat /\ n > 1
        BY <1>1, SetupFacts
      <4> HIDE DEF n
      <4>2. n >= n \div 2 + 1
        BY <4>1, Z3
      <4> QED
        BY <4>2 DEF n, SlowQuorum, RF
    <3> QED
      BY <3>1, <3>2 DEF Counted
  <2>2. CASE x \notin Prior
    BY <2>2 DEF Init, Counted
  <2> QED
    BY <2>1, <2>2
<1> QED
  BY <1>1, <1>3, <1>4 DEF HoldInv

LEMMA HoldStep == HoldInv /\ [Next]_vars => HoldInv'
<1>AgreeingStep.
      ASSUME RoundInv, NEW q \in Replica, NEW y \in Txn, Agreeing(q, y), Effects(q, y)
      PROVE  Agreeing(q, y)'
  <2> USE <1>AgreeingStep
  <2>1. Rounds(y) /\ CoordTyped
    BY Types DEF RoundInv
  <2>2. \A k \in {"Accept", "Commit"} : k \in sent[y] => k \in sent'[y]
    BY DEF Effects, CoordStays, CoordMoves
  <2>3. CASE Same(q, y)
    <3>0. CoordStays(y) \/ CoordMoves(y)
      BY DEF Effects
    <3>1. ASSUME "Commit" \in sent[y] PROVE ct'[y] = ct[y] /\ cd'[y] = cd[y]
      <4>1. pc[y] \notin {"idle", "mint", "preaccept", "accept"}
        BY SMTT(30), <2>1, <3>1 DEF Rounds
      <4> QED
        BY <3>0, <4>1 DEF CoordStays, CoordMoves
    <3>2. ASSUME "Accept" \in sent[y] PROVE ct'[y] = ct[y]
      <4>1. pc[y] \notin {"idle", "mint", "preaccept"}
        BY SMTT(30), <2>1, <3>2 DEF Rounds
      <4> QED
        BY <3>0, <4>1 DEF CoordStays, CoordMoves
    <3> QED
      BY <2>2, <2>3, <3>1, <3>2 DEF Same, Agreeing
  <2>4. CASE AcceptedAt(q, y) \/ CommittedAt(q, y)
    BY <2>4 DEF AcceptedAt, CommittedAt, Agreeing
  <2>5. CASE RegisteredAt(q, y) \/ CreatedAt(q, y) \/ AppliedAt(q, y) \/ FinalizedAt(q, y) \/ PrunedAt(q, y)
    BY <2>5 DEF RegisteredAt, CreatedAt, AppliedAt, FinalizedAt, PrunedAt, Agreeing
  <2> QED
    BY <2>3, <2>4, <2>5 DEF Effects
<1>JustifiedStep.
      ASSUME RoundInv, NEW q \in Replica, NEW y \in Txn, Justified(q, y), Effects(q, y)
      PROVE  Justified(q, y)'
  <2> USE <1>JustifiedStep
  <2>1. Rounds(y) /\ Broadcasted(y) /\ {"NoWrite"} \subseteq Kind
    BY KindFacts DEF RoundInv
  <2>2. /\ \A k \in {"Apply", "NoWrite"} : k \in sent[y] => k \in sent'[y]
        /\ <<"NoWrite", q>> \in got'[y] => <<"NoWrite", q>> \in got[y] \/ FinalizedAt(q, y)
        /\ <<"NoWrite", q>> \in got[y] => "NoWrite" \in sent[y]
    BY <2>1 DEF Effects, CoordStays, CoordMoves, GotStep, Broadcasted
  <2>3. phase[q][y] # "none" => tt[q][y] # 0
    BY Types DEF ReplicaTyped, RoundInv
  <2>4. CASE Same(q, y)
    BY <2>2, <2>4 DEF Same, Justified, FinalizedAt
  <2>5. CASE RegisteredAt(q, y)
    BY <2>2, <2>5 DEF RegisteredAt, Justified, FinalizedAt
  <2>6. CASE CreatedAt(q, y) \/ AcceptedAt(q, y)
    BY <2>2, <2>6 DEF CreatedAt, AcceptedAt, Justified, FinalizedAt
  <2>7. CASE CommittedAt(q, y)
    <3>1. pc[y] \in {"preaccept", "accept"} => "NoWrite" \notin sent[y]
      BY SMTT(30), <2>1 DEF Rounds
    <3> QED
      BY <2>2, <2>7, <3>1 DEF CommittedAt, Justified, FinalizedAt
  <2>8. CASE AppliedAt(q, y)
    BY <2>2, <2>3, <2>8 DEF AppliedAt, Justified, FinalizedAt
  <2>9. CASE FinalizedAt(q, y) \/ PrunedAt(q, y)
    BY <2>2, <2>9 DEF FinalizedAt, PrunedAt, Justified
  <2> QED
    BY <2>4, <2>5, <2>6, <2>7, <2>8, <2>9 DEF Effects
\* A row is never taken back.
<1>HoldersGrow.
      ASSUME TypeOK, NEW y \in Txn, Replica' = Replica, \A q \in Replica : Effects(q, y)
      PROVE  Holders(y) \subseteq Holders(y)'
  <2> USE <1>HoldersGrow
  <2>1. ASSUME NEW q \in Replica, rowT[q][y] # 0 PROVE rowT'[q][y] # 0
    <3>1. phase[q][y] # "none" => tt[q][y] # 0
      BY Types DEF ReplicaTyped
    <3> QED
      BY <2>1, <3>1 DEF Effects, Same, RegisteredAt, CreatedAt, AcceptedAt, CommittedAt, AppliedAt,
                        FinalizedAt, PrunedAt
  <2> QED
    BY <2>1 DEF Holders
<1>CountedStep.
      ASSUME HoldInv, NEW y \in Txn, TypeOK', Replica' = Replica, Home' = Home,
             \A q \in Replica : Effects(q, y)
      PROVE  Counted(y)'
  <2> USE <1>CountedStep
  <2>1. /\ TypeOK /\ Rounds(y) /\ Counted(y) /\ acks[y] \in SUBSET Replica /\ acks'[y] \in SUBSET Replica
        /\ Holders(y) \subseteq Holders(y)' /\ Holders(y)' \subseteq Replica /\ Holders(y) \subseteq Replica
        /\ SlowQuorum \in Nat /\ SlowQuorum' = SlowQuorum
        /\ \A q \in Replica : AckStep(q, y)
    <3>1. TypeOK /\ Rounds(y) /\ Counted(y) /\ \A q \in Replica : AckStep(q, y)
      BY DEF HoldInv, RoundInv, Effects
    <3>2. acks[y] \in SUBSET Replica /\ acks'[y] \in SUBSET Replica
      BY <3>1 DEF TypeOK
    <3>3. Holders(y) \subseteq Holders(y)'
      BY <3>1, <1>HoldersGrow
    <3>4. SlowQuorum \in Nat /\ SlowQuorum' = SlowQuorum
      BY <3>1, QuorumFacts DEF SlowQuorum, RF
    <3> QED
      BY <3>1, <3>2, <3>3, <3>4 DEF Holders
  <2>2. CoordStays(y) \/ CoordMoves(y)
    <3>1. PICK q \in Replica : TRUE
      <4>1. Replica # {}
        BY SMTT(30), <2>1, SetupFacts, FS_EmptySet
      <4> QED
        BY <4>1
    <3> QED
      BY <3>1 DEF Effects
  <2>3. ASSUME pc'[y] = "read" PROVE acks'[y] = {}
    BY <2>1, <2>2, <2>3 DEF CoordStays, CoordMoves, AckStep, Counted
  <2>4. ASSUME pc'[y] = "apply", NEW q \in acks'[y] PROVE q # Home[y] /\ rowT'[q][y] # 0
    <3>1. q \in Replica /\ AckStep(q, y) /\ Effects(q, y)
      BY <2>1, <2>4
    <3>2. CASE q \in acks[y] /\ pc[y] \in {"apply", "read"}
      BY <2>1, <3>1, <3>2 DEF Counted, Holders
    <3>3. CASE q # Home[y] /\ AppliedAt(q, y)
      <4>1. tt[q][y] # 0
        BY <2>1, <3>1, <3>3, Types DEF ReplicaTyped, AppliedAt
      <4> QED
        BY <3>3, <4>1 DEF AppliedAt
    <3> QED
      BY <2>4, <3>1, <3>2, <3>3 DEF AckStep
  <2>5. ASSUME pc[y] = "apply" PROVE acks[y] \subseteq Holders(y) \ {Home[y]}
    BY <2>1, <2>5 DEF Counted, Holders
  <2>6. ASSUME pc'[y] = "local"
        PROVE  Home[y] \in Replica /\ Cardinality(Holders(y)' \ {Home[y]}) + 1 >= SlowQuorum
    <3> DEFINE H == Holders(y) \ {Home[y]}
               K == Holders(y)' \ {Home[y]}
    <3>1. /\ Cardinality(H) \in Nat /\ Cardinality(K) \in Nat
          /\ Cardinality(H) <= Cardinality(K)
      <4>1. H \subseteq K /\ K \subseteq Replica
        BY <2>1
      <4> QED
        BY <2>1, <4>1, LargerSet
    <3>2. CASE pc[y] = "local"
      <4>1. Home[y] \in Replica /\ Cardinality(H) + 1 >= SlowQuorum
        BY <2>1, <3>2 DEF Counted
      <4> HIDE DEF H, K
      <4>2. Cardinality(K) + 1 >= SlowQuorum
        <5>1. SlowQuorum \in Nat
          BY <2>1
        <5> QED
          BY ONLY SMT, <3>1, <4>1, <5>1
      <4> QED
        BY <4>1, <4>2 DEF K
    <3>3. CASE pc[y] # "local"
      <4>1. pc[y] = "apply" /\ IsReplica(y) /\ ApplyAcks(y, acks[y]) >= SlowQuorum
        BY <2>2, <2>6, <3>3 DEF CoordStays, CoordMoves
      <4>2. Cardinality(acks[y]) + 1 >= SlowQuorum /\ Home[y] \in Replica
        BY <4>1 DEF ApplyAcks, IsReplica
      <4>3. Cardinality(acks[y]) \in Nat /\ Cardinality(acks[y]) <= Cardinality(H)
        <5>1. acks[y] \subseteq H /\ H \subseteq Replica
          BY <2>1, <2>5, <4>1
        <5> QED
          BY <2>1, <5>1, LargerSet
      <4> HIDE DEF H, K
      <4>4. Cardinality(K) + 1 >= SlowQuorum
        BY SMTT(30), <2>1, <3>1, <4>2, <4>3
      <4> QED
        BY <4>2, <4>4 DEF K
    <3> QED
      BY <3>2, <3>3
  <2>7. ASSUME pc'[y] = "ok" PROVE Cardinality(Holders(y)') >= SlowQuorum
    <3>1. /\ Cardinality(Holders(y)) \in Nat /\ Cardinality(Holders(y)') \in Nat
          /\ Cardinality(Holders(y)) <= Cardinality(Holders(y)')
      BY <2>1, LargerSet
    <3>2. CASE pc[y] = "ok"
      <4>1. Cardinality(Holders(y)) >= SlowQuorum
        BY <2>1, <3>2 DEF Counted
      <4> QED
        BY SMTT(30), <2>1, <3>1, <4>1
    <3>3. CASE pc[y] = "apply" /\ ~IsReplica(y) /\ ApplyAcks(y, acks[y]) >= SlowQuorum
      <4>1. Cardinality(acks[y]) \in Nat
        BY <2>1, LargerSet
      <4>2. Cardinality(acks[y]) >= SlowQuorum
        BY SMTT(30), <3>3, <4>1 DEF ApplyAcks
      <4>3. Cardinality(acks[y]) <= Cardinality(Holders(y))
        <5>1. acks[y] \subseteq Holders(y)
          BY <2>5, <3>3
        <5> QED
          BY <2>1, <5>1, LargerSet
      <4> QED
        BY SMTT(30), <2>1, <3>1, <4>1, <4>2, <4>3
    <3>4. CASE pc[y] = "local" /\ phase[Home[y]][y] = "Applied"
      <4>1. Home[y] \in Replica /\ Cardinality(Holders(y) \ {Home[y]}) + 1 >= SlowQuorum
        BY <2>1, <3>4 DEF Counted
      <4>2. Home[y] \in Holders(y)
        BY <2>1, <3>4, <4>1 DEF HoldInv, Justified, Rounds, Holders
      <4>3. IsFiniteSet(Holders(y))
        BY <2>1, SetupFacts, FS_Subset
      <4>4. Cardinality(Holders(y) \ {Home[y]}) = Cardinality(Holders(y)) - 1
        BY <4>2, <4>3, FS_RemoveElement
      <4> HIDE DEF Holders
      <4> QED
        BY SMTT(30), <2>1, <3>1, <4>1, <4>4
    <3> QED
      BY <2>2, <2>7, <3>2, <3>3, <3>4 DEF CoordStays, CoordMoves
  <2>8. Counted(y)' = /\ pc'[y] = "read" => acks'[y] = {}
                      /\ pc'[y] = "apply" => \A r \in acks'[y] : r # Home[y] /\ rowT'[r][y] # 0
                      /\ pc'[y] = "local" => Home[y] \in Replica /\ Cardinality(Holders(y)' \ {Home[y]}) + 1 >= SlowQuorum
                      /\ pc'[y] = "ok" => Cardinality(Holders(y)') >= SlowQuorum
    BY <2>1 DEF Counted
  <2> QED
    BY <2>3, <2>4, <2>6, <2>7, <2>8
<1>1. ASSUME HoldInv, Next PROVE HoldInv'
  <2>1. RoundInv /\ RoundInv'
    BY <1>1, RoundStep DEF HoldInv
  <2>2. /\ TypeOK' /\ Replica' = Replica /\ Home' = Home
        /\ \A q \in Replica, y \in Txn : Effects(q, y)
    BY <1>1, <2>1, StepEffects
  <2>3. \A r \in Replica, x \in Txn : Agreeing(r, x)' /\ Justified(r, x)'
    BY <1>1, <2>1, <2>2, <1>AgreeingStep, <1>JustifiedStep DEF HoldInv
  <2>4. \A x \in Txn : Counted(x)'
    BY <1>1, <2>2, <1>CountedStep
  <2> QED
    BY <2>1, <2>2, <2>3, <2>4 DEF HoldInv
<1>2. ASSUME HoldInv, UNCHANGED vars PROVE HoldInv'
  <2>1. RoundInv'
    BY <1>2, RoundStep DEF HoldInv
  <2>2. UNCHANGED <<Replica, Home, pc, sent, got, ct, cd, acks, phase, tt, deps, index, tomb, rowT>>
    BY <1>2 DEF vars
  <2>3. \A x \in Txn : Counted(x)'
    BY <1>2, <2>2 DEF HoldInv, Counted, Holders, SlowQuorum, RF
  <2> QED
    BY SMTT(30), <1>2, <2>1, <2>2, <2>3 DEF HoldInv, Agreeing, Justified
<1> QED
  BY <1>1, <1>2

\* An acknowledged write is on a slow quorum of replicas, its coordinator's own
\* included: every ack counted in run_transaction's Apply phase stands for a row.
THEOREM AcknowledgedIsHeld == Spec => []AcknowledgedOnQuorum
<1>1. HoldInv => AcknowledgedOnQuorum
  BY DEF HoldInv, Counted, AcknowledgedOnQuorum
<1> QED
  BY <1>1, HoldInit, HoldStep, PTL DEF Spec

\* A transaction reported as failed or refused has no row on any replica, then or
\* later: finalize_no_write and Apply exclude each other.
THEOREM FailedWritesNothing == Spec => []NotAppliedWritesNothing
<1>1. HoldInv => NotAppliedWritesNothing
  <2> SUFFICES ASSUME HoldInv, NEW x \in Txn, pc[x] \in {"failed", "refused"} PROVE Holders(x) = {}
    BY DEF NotAppliedWritesNothing
  <2>1. Rounds(x)
    BY DEF HoldInv, RoundInv
  <2> QED
    BY <2>1 DEF HoldInv, Justified, Rounds, Holders
<1> QED
  BY <1>1, HoldInit, HoldStep, PTL DEF Spec

\* A replica that finalized a transaction without a write never again holds it as
\* a pending conflict, whichever of its requests arrive late (FinalizedTxns).
THEOREM NoZombieConflict == Spec => []FinalizedNeverPending
<1>1. HoldInv => FinalizedNeverPending
  BY DEF HoldInv, Justified, FinalizedNeverPending
<1> QED
  BY <1>1, HoldInit, HoldStep, PTL DEF Spec

\* Replicas that committed a transaction agree on its timestamp and dependencies,
\* although Accept merges dependencies and a late PreAccept recomputes them.
THEOREM CommitIsAgreed == Spec => []CommitsAgree
<1>1. HoldInv => CommitsAgree
  BY DEF HoldInv, Agreeing, CommitsAgree
<1> QED
  BY <1>1, HoldInit, HoldStep, PTL DEF Spec

------------------------------------------------------------------------------
\* Proposals and votes

\* One transaction at a time: a step moves one coordinator, or hands one request of
\* one transaction to one replica.
LEMMA OneActs ==
    ASSUME RoundInv, Next
    PROVE  \E x \in Txn : \A y \in Txn : y # x => got'[y] = got[y] /\ pc'[y] = pc[y]
<1> DEFINE Only(x) == \A y \in Txn : y # x => got'[y] = got[y] /\ pc'[y] = pc[y]
<1>1. CoordTyped
  BY Types DEF RoundInv
<1>2. ASSUME NEW x \in Txn, got' = got \/ \E e : got' = [got EXCEPT ![x] = e],
             pc' = pc \/ \E e : pc' = [pc EXCEPT ![x] = e]
      PROVE  Only(x)
  BY <1>1, <1>2 DEF CoordTyped
<1> HIDE DEF Only
<1>3. ASSUME NEW x \in Txn, Coordinate(x) PROVE Only(x)
  <2>1. CASE Begin(x) \/ CommitQuorum(x) \/ GatePassed(x) \/ ApplyQuorum(x) \/ LocalDone(x)
    BY <1>2, <2>1 DEF Begin, CommitQuorum, GatePassed, ApplyQuorum, LocalDone
  <2>2. CASE SendPreAccept(x)
    BY <1>2, <2>2 DEF SendPreAccept, Handled
  <2>3. CASE FastPath(x) \/ SlowPath(x)
    BY <1>2, <2>3 DEF FastPath, SlowPath, StartCommit, Handled
  <2>4. CASE NeedAccept(x)
    BY <1>2, <2>4 DEF NeedAccept, StartAccept, Handled
  <2>5. CASE ConditionNotMet(x) \/ RoundFails(x) \/ ApplyFails(x)
    BY <1>2, <2>5 DEF ConditionNotMet, RoundFails, ApplyFails, GiveUp, Handled
  <2> QED
    BY <1>3, <2>1, <2>2, <2>3, <2>4, <2>5 DEF Coordinate
<1>4. ASSUME NEW r \in Replica, NEW x \in Txn, Serve(r, x) PROVE Only(x)
  BY <1>2, <1>4 DEF Serve, PreAccept, Accept, Commit, DepWait, ReadRow, AbstainRead, Apply, NoWrite,
                    Handled
<1>5. ASSUME NEW r \in Replica, Prune(r) PROVE \E x \in Txn : Only(x)
  BY <1>2, <1>5 DEF Prune
<1> QED
  BY <1>3, <1>4, <1>5 DEF Next, Only

LEMMA ProposedInit == Init => ProposedInv
<1>1. ASSUME Init, NEW r \in Replica, NEW x \in Txn PROVE Proposed(r, x)
  BY <1>1 DEF Init, Proposed
<1> QED
  BY <1>1, HoldInit DEF ProposedInv

LEMMA ProposedNext == ProposedInv /\ [Next]_vars => ProposedInv'
<1>ProposedStep.
      ASSUME RoundInv, RoundInv', NEW q \in Replica, NEW y \in Txn, Home' = Home,
             Proposed(q, y), Effects(q, y)
      PROVE  Proposed(q, y)'
  <2> USE <1>ProposedStep
  <2>1. Rounds(y) /\ Rounds(y)' /\ TypeOK
    BY DEF RoundInv
  <2>2. T0(y)' = T0(y)
    BY DEF T0, Stamp
  <2>3. CoordStays(y) \/ CoordMoves(y)
    BY DEF Effects
  <2>4. pc'[y] \in {"idle", "mint"} => pc[y] \in {"idle", "mint"} /\ sent'[y] = {} /\ sent[y] = {}
    BY <2>1, <2>3 DEF CoordStays, CoordMoves, Rounds
  <2>5. pc'[y] = "preaccept" => /\ pc[y] \in {"mint", "preaccept"} /\ sent'[y] = {"PreAccept"}
                                /\ sent[y] \subseteq {"PreAccept"}
    BY <2>1, <2>3 DEF CoordStays, CoordMoves, Rounds
  <2>6. pc'[y] \in {"idle", "mint", "preaccept"} => phase[q][y] \in {"none", "PreAccepted"}
    BY <2>4, <2>5 DEF Proposed
  <2>7. pc'[y] \in {"idle", "mint", "preaccept"} =>
            Same(q, y) \/ (pc'[y] = "preaccept" /\ RegisteredAt(q, y))
    <3>1. \/ Same(q, y) \/ RegisteredAt(q, y) \/ CreatedAt(q, y) \/ AcceptedAt(q, y)
          \/ CommittedAt(q, y) \/ AppliedAt(q, y) \/ FinalizedAt(q, y) \/ PrunedAt(q, y)
      BY DEF Effects
    <3>2. ASSUME pc'[y] \in {"idle", "mint"} PROVE Same(q, y)
      BY <2>4, <2>6, <3>1, <3>2 DEF RegisteredAt, CreatedAt, AcceptedAt, CommittedAt, AppliedAt,
                                    FinalizedAt, PrunedAt
    <3>3. ASSUME pc'[y] = "preaccept" PROVE Same(q, y) \/ RegisteredAt(q, y)
      BY <2>5, <2>6, <3>1, <3>3 DEF CreatedAt, AcceptedAt, CommittedAt, AppliedAt,
                                    FinalizedAt, PrunedAt
    <3> QED
      BY <3>2, <3>3
  <2>8. ASSUME pc'[y] \in {"idle", "mint"} PROVE phase'[q][y] = "none" /\ voteT'[y][q] = 0
    <3>1. Same(q, y) /\ VoteStep(q, y)
      BY <2>7, <2>8 DEF Effects
    <3> QED
      BY <2>4, <2>8, <3>1 DEF Same, VoteStep, Proposed
  <2>9. ASSUME pc'[y] = "preaccept", phase'[q][y] # "none"
        PROVE  /\ phase'[q][y] = "PreAccepted" /\ y \in index'[q]
               /\ tt'[q][y] = T0(y) \/ (tt'[q][y] % D = q /\ SeqOf(tt'[q][y]) # 0)
    <3>1. CASE Same(q, y)
      BY <2>5, <2>9, <3>1 DEF Same, Proposed
    <3>2. CASE RegisteredAt(q, y)
      BY <2>1, <3>2, ProposalFacts DEF RegisteredAt
    <3> QED
      BY <2>7, <2>9, <3>1, <3>2
  <2>10. ASSUME voteT'[y][q] # 0
         PROVE  pc'[y] = "preaccept" /\ phase'[q][y] # "none" /\ voteT'[y][q] = tt'[q][y]
    <3>1. CASE voteT'[y][q] = voteT[y][q] /\ (pc[y] = "preaccept" => pc'[y] = "preaccept")
      <4>1. pc[y] = "preaccept" /\ pc'[y] = "preaccept" /\ phase[q][y] # "none" /\ voteT[y][q] = tt[q][y]
        BY <2>10, <3>1 DEF Proposed
      <4>2. Same(q, y)
        BY <2>7, <4>1 DEF RegisteredAt
      <4> QED
        BY <3>1, <4>1, <4>2 DEF Same
    <3>2. CASE pc'[y] = "preaccept" /\ voteT'[y][q] = tt'[q][y] /\ phase'[q][y] = "PreAccepted"
      BY <3>2
    <3> QED
      BY <2>10, <3>1, <3>2 DEF Effects, VoteStep
  <2> QED
    BY <2>2, <2>8, <2>9, <2>10 DEF Proposed, SeqOf
<1>1. ASSUME ProposedInv, Next PROVE ProposedInv'
  <2>1. HoldInv' /\ RoundInv /\ RoundInv'
    BY <1>1, HoldStep DEF ProposedInv, HoldInv
  <2>2. Replica' = Replica /\ Home' = Home /\ \A q \in Replica, y \in Txn : Effects(q, y)
    BY <1>1, <2>1, StepEffects
  <2>3. \A q \in Replica, y \in Txn : Proposed(q, y)'
    BY <1>1, <2>1, <2>2, <1>ProposedStep DEF ProposedInv
  <2> QED
    BY <2>1, <2>2, <2>3 DEF ProposedInv
<1>2. ASSUME ProposedInv, UNCHANGED vars PROVE ProposedInv'
  <2>1. HoldInv'
    BY <1>2, HoldStep DEF ProposedInv
  <2>2. UNCHANGED <<Replica, Home, pc, voteT, phase, tt, index>>
    BY <1>2 DEF vars
  <2>3. \A r \in Replica, x \in Txn : Proposed(r, x)'
    BY <1>2, <2>2 DEF ProposedInv, Proposed, T0, Stamp, SeqOf
  <2> QED
    BY <2>1, <2>2, <2>3 DEF ProposedInv
<1> QED
  BY <1>1, <1>2
==============================================================================
