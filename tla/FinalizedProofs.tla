--------------------------- MODULE FinalizedProofs ---------------------------
(***************************************************************************)
(* The record of decided transactions keeps its promise for every          *)
(* capacity, retention, drift and set of transactions.                     *)
(***************************************************************************)
EXTENDS FinalizedTxns, FiniteSetTheorems, TLAPS

\* A later time has a later last timestamp.
LEMMA TopMonotone ==
  ASSUME NEW m \in Nat, NEW n \in Nat, m <= n
  PROVE  Top(m) \in Nat /\ Top(m) <= Top(n)
<1>1. Width * n = Width * m + Width * (n - m) /\ n - m \in Nat
  BY Bounds
<1>2. Width * (n - m) \in Nat /\ Width * m \in Nat
  BY <1>1, Bounds
<1>3. QED
  BY <1>1, <1>2, Bounds DEF Top

\* What is at or below the last timestamp of a time was minted by that time.
LEMMA TimeOfTop ==
  ASSUME NEW x \in Nat, NEW b \in Nat, x <= Top(b)
  PROVE  Time(x) <= b
<1> DEFINE q == Time(x)
<1>1. q \in Nat /\ Width * q <= x
  BY Bounds DEF Time
<1> HIDE DEF q
<1>2. SUFFICES ASSUME b + 1 <= q PROVE FALSE
  BY <1>1 DEF q
<1>3. Top(b + 1) <= Top(q)
  BY <1>1, <1>2, TopMonotone
<1>4. Width * (b + 1) = Width * b + Width
  BY Bounds
<1>5. QED
  BY <1>1, <1>3, <1>4, Bounds DEF Top

------------------------------------------------------------------------------
\* The inductive invariant.  Tombstones lie above the floor and were decided
\* here; what was decided is covered by one or the other; nothing is known of
\* a transaction before it was minted, which is what lets a restart cover all
\* of it; and the floor has one of its three reasons.
TombsAboveFloor == \A x \in tombs : x > floor /\ x \in recorded
RecordedIsDecided == \A x \in recorded : Decided(x)
KnownIsMinted == floor <= Top(now + Drift) /\ \A x \in tombs \cup live : Minted(x)
FloorReason ==
  \/ floor <= Top(boot)
  \/ floor <= evicted
  \/ now > Retention /\ floor <= Top(now - Retention)
Inv == /\ TypeOK
       /\ TombsAboveFloor
       /\ RecordedIsDecided
       /\ KnownIsMinted
       /\ FloorReason
       /\ AckableWasApplied
       /\ done \subseteq applied

\* The initial state has it.
LEMMA InvInit == Init => Inv
<1> SUFFICES ASSUME Init PROVE Inv
  OBVIOUS
<1>1. Top(0) \in Nat /\ Top(0) <= Top(0 + Drift)
  BY TopMonotone, Bounds
<1>2. Cardinality({}) = 0
  BY FS_EmptySet
<1>3. TypeOK
  BY <1>1, <1>2, Bounds DEF Init, TypeOK, None
<1>4. QED
  BY <1>1, <1>3 DEF Init, Inv, TombsAboveFloor, RecordedIsDecided, KnownIsMinted,
                    FloorReason, AckableWasApplied

\* A floor is at least itself: the g of Recording when nothing raises it further.
LEMMA FloorIsEnough == \A k \in Nat : k >= k
OBVIOUS

\* Recording a set of transactions: enforce_capacity never lowers the floor,
\* leaves at most Capacity tombstones and forgets none above the floor.
LEMMA Recording ==
  ASSUME Inv, NEW S \in SUBSET Txn, \A x \in S : Minted(x),
         NEW f \in FloorFor(tombs \cup Above(S, floor)),
         NEW g \in Nat, g >= f
  PROVE  /\ f \in Nat /\ floor <= f
         /\ f = floor \/ (f \in Txn /\ Minted(f))
         /\ Above(tombs \cup S, g) \in SUBSET Txn
         /\ Cardinality(Above(tombs \cup S, g)) <= Capacity
<1> DEFINE U == tombs \cup Above(S, floor)
           K == Above(tombs \cup S, g)
<1>1. U \in SUBSET Txn /\ IsFiniteSet(U) /\ Txn \subseteq Nat /\ floor \in Nat
  BY Bounds, FS_Subset DEF Inv, TypeOK, Above
<1>2. \A x \in U : x > floor /\ Minted(x)
  BY DEF Inv, TombsAboveFloor, KnownIsMinted, Above
<1>3. f = floor \/ f \in U
  BY DEF FloorFor, U
<1> HIDE DEF U
<1>4. f \in Nat /\ floor <= f
  <2>1. CASE f = floor
    BY <1>1, <2>1
  <2>2. CASE f \in U
    <3>1. f \in Nat /\ f > floor
      BY <1>1, <1>2, <2>2
    <3>2. QED
      BY <1>1, <3>1
  <2>3. QED
    BY <1>3, <2>1, <2>2
<1>5. K \subseteq Above(U, f)
  <2>1. ASSUME NEW x \in K PROVE x \in U /\ x > f
    <3>1. x \in Nat /\ x > g /\ x \in tombs \cup S
      BY <1>1, <2>1 DEF Above, Inv, TypeOK
    <3>2. x > f /\ x > floor
      BY <1>1, <1>4, <3>1
    <3>3. QED
      BY <3>1, <3>2 DEF U, Above
  <2>2. QED
    BY <2>1 DEF Above
<1>6. Cardinality(K) <= Capacity
  <2>1. IsFiniteSet(Above(U, f)) /\ Cardinality(Above(U, f)) <= Cardinality(U)
    BY <1>1, FS_Subset DEF Above
  <2>2. Cardinality(K) <= Cardinality(Above(U, f)) /\ IsFiniteSet(K)
    BY <1>5, <2>1, FS_Subset
  <2>3. Cardinality(K) \in Nat /\ Cardinality(U) \in Nat /\ Cardinality(Above(U, f)) \in Nat
    BY <1>1, <2>1, <2>2, FS_CardinalityType
  <2>4. Cardinality(U) <= Capacity \/ Cardinality(Above(U, f)) = Capacity
    BY DEF FloorFor, Above, U
  <2>5. QED
    BY <2>1, <2>2, <2>3, <2>4, Bounds
<1>7. QED
  BY <1>1, <1>2, <1>3, <1>4, <1>6 DEF Inv, TypeOK, Above

\* Every step keeps the invariant.
LEMMA InvInductive ==
  ASSUME Inv, [Next]_vars
  PROVE  Inv'
<1>1. Top(now) \in Nat /\ Top(now) <= Top(now + Drift) /\ now \in Nat /\ now + Drift \in Nat
  BY TopMonotone, Bounds DEF Inv, TypeOK
\* Recording S with the floor ending at g.
<1>2. ASSUME NEW S \in SUBSET Txn, \A x \in S : Minted(x),
             NEW f \in FloorFor(tombs \cup Above(S, floor)),
             NEW g \in Nat, g >= f,
             g = f \/ (g = Top(0) \/ (now > Retention /\ g = Top(now - Retention))),
             floor' = g,
             evicted' = (IF f = floor THEN evicted ELSE f),
             tombs' = Above(tombs \cup S, g),
             recorded' = recorded \cup S,
             live' \in SUBSET live,
             UNCHANGED <<now, boot>>
      PROVE  /\ floor' \in Nat /\ evicted' \in Nat \cup {None}
             /\ tombs' \in SUBSET Txn /\ Cardinality(tombs') <= Capacity
             /\ recorded' \in SUBSET Txn
             /\ TombsAboveFloor' /\ RecordedIsDecided' /\ KnownIsMinted' /\ FloorReason'
  <2>1. /\ f \in Nat /\ floor <= f
        /\ f = floor \/ (f \in Txn /\ Minted(f))
        /\ tombs' \in SUBSET Txn /\ Cardinality(tombs') <= Capacity
    BY <1>2, Recording
  <2>2. floor \in Nat /\ evicted \in Nat \cup {None} /\ boot \in Nat
    BY DEF Inv, TypeOK
  <2>3. floor <= g
    BY <1>2, <2>1, <2>2
  <2>4. floor' \in Nat /\ evicted' \in Nat \cup {None} /\ recorded' \in SUBSET Txn
    BY <1>2, <2>1, <2>2 DEF Inv, TypeOK
  <2>5. TombsAboveFloor'
    BY <1>2 DEF Inv, TombsAboveFloor, Above
  <2>6. RecordedIsDecided'
    <3>1. ASSUME NEW x \in recorded \cup S PROVE x <= g \/ x \in Above(tombs \cup S, g)
      <4>1. x \in Nat
        BY Bounds DEF Inv, TypeOK
      <4>2. x <= floor \/ x \in tombs \cup S
        BY <3>1 DEF Inv, RecordedIsDecided, Decided
      <4>3. QED
        BY <1>2, <2>2, <2>3, <4>1, <4>2 DEF Above
    <3>2. QED
      BY <1>2, <3>1 DEF RecordedIsDecided, Decided
  <2>7. KnownIsMinted'
    <3>1. f <= Top(now + Drift)
      BY <2>1 DEF Inv, KnownIsMinted, Minted
    <3>2. g <= Top(now + Drift)
      <4>1. CASE g = f
        BY <3>1, <4>1
      <4>2. CASE g = Top(0)
        BY <1>1, <4>2, TopMonotone
      <4>3. CASE now > Retention /\ g = Top(now - Retention)
        <5>1. now - Retention \in Nat /\ now - Retention <= now + Drift
          BY <1>1, <4>3, Bounds
        <5>2. QED
          BY <1>1, <4>3, <5>1, TopMonotone
      <4>4. QED
        BY <1>2, <4>1, <4>2, <4>3
    <3>3. \A x \in tombs' \cup live' : x <= Top(now + Drift)
      BY <1>2 DEF Inv, KnownIsMinted, Minted, Above
    <3>4. QED
      BY <1>2, <3>2, <3>3 DEF KnownIsMinted, Minted, Top
  <2>8. FloorReason'
    <3>1. CASE g = f /\ f = floor
      BY <1>2, <3>1 DEF Inv, FloorReason, Top
    <3>2. CASE g = f /\ f # floor
      BY <1>2, <2>1, <3>2 DEF FloorReason
    <3>3. CASE g = Top(0)
      <4>1. Top(0) <= Top(boot)
        BY <2>2, TopMonotone
      <4>2. QED
        BY <1>2, <3>3, <4>1 DEF FloorReason, Top
    <3>4. CASE now > Retention /\ g = Top(now - Retention)
      BY <1>2, <2>4, <3>4 DEF FloorReason, Top
    <3>5. QED
      BY <1>2, <3>1, <3>2, <3>3, <3>4
  <2>9. QED
    BY <2>1, <2>4, <2>5, <2>6, <2>7, <2>8
<1>3. ASSUME NEW x \in Txn, PreAccept(x) \/ Create(x)
      PROVE  Inv'
  <2>1. /\ Minted(x) /\ live' = live \cup {x}
        /\ UNCHANGED <<now, floor, tombs, ackable, done, recorded, applied, written, evicted, boot>>
    BY <1>3 DEF PreAccept, Create
  <2>2. TypeOK' /\ AckableWasApplied' /\ (done \subseteq applied)'
    BY <2>1 DEF Inv, TypeOK, AckableWasApplied
  <2>3. KnownIsMinted'
    BY <2>1 DEF Inv, KnownIsMinted, Minted, Top
  <2>4. TombsAboveFloor' /\ RecordedIsDecided' /\ FloorReason'
    BY <2>1 DEF Inv, TombsAboveFloor, RecordedIsDecided, Decided, FloorReason, Top
  <2>5. QED
    BY <2>2, <2>3, <2>4 DEF Inv
<1>4. ASSUME NEW x \in Txn, Apply(x) \/ NoWriteFinalize(x)
      PROVE  Inv'
  <2>1. /\ x \in live /\ done' = done \cup {x} /\ applied' = applied \cup {x}
        /\ written' = written \cup {x} \/ written' = written
        /\ UNCHANGED <<now, floor, tombs, ackable, live, recorded, evicted, boot>>
    BY <1>4 DEF Apply, NoWriteFinalize
  <2>2. TypeOK' /\ AckableWasApplied' /\ (done \subseteq applied)'
    BY <2>1 DEF Inv, TypeOK, AckableWasApplied
  <2>3. KnownIsMinted' /\ TombsAboveFloor' /\ RecordedIsDecided' /\ FloorReason'
    BY <2>1 DEF Inv, KnownIsMinted, Minted, TombsAboveFloor, RecordedIsDecided,
                Decided, FloorReason, Top
  <2>4. QED
    BY <2>2, <2>3 DEF Inv
<1>5. ASSUME NEW x \in Txn, Record(x)
      PROVE  Inv'
  <2>1. PICK f \in FloorFor(tombs \cup Above({x}, floor)) :
          /\ floor' = f
          /\ evicted' = (IF f = floor THEN evicted ELSE f)
          /\ tombs' = Above(tombs \cup {x}, f)
          /\ ackable' = Above(ackable, f)
    BY <1>5 DEF Record
  <2>2. /\ Minted(x) /\ recorded' = recorded \cup {x}
        /\ UNCHANGED <<now, live, done, applied, written, boot>>
    BY <1>5 DEF Record
  <2>3. f \in Nat
    <3>1. floor \in Nat /\ tombs \in SUBSET Nat /\ x \in Nat
      BY Bounds DEF Inv, TypeOK
    <3>2. QED
      BY <3>1 DEF FloorFor, Above
  <2>4. /\ floor' \in Nat /\ evicted' \in Nat \cup {None}
        /\ tombs' \in SUBSET Txn /\ Cardinality(tombs') <= Capacity
        /\ recorded' \in SUBSET Txn
        /\ TombsAboveFloor' /\ RecordedIsDecided' /\ KnownIsMinted' /\ FloorReason'
    <3>1. {x} \in SUBSET Txn /\ (\A y \in {x} : Minted(y)) /\ f >= f
          /\ live' \in SUBSET live
      BY <2>2, <2>3
    <3>2. QED
      BY <1>2, <2>1, <2>2, <2>3, <3>1
  <2>5. ackable' \in SUBSET tombs' /\ AckableWasApplied'
    BY <2>1, <2>2 DEF Inv, TypeOK, AckableWasApplied, Above
  <2>6. TypeOK'
    BY <2>2, <2>4, <2>5 DEF Inv, TypeOK
  <2>7. QED
    BY <2>2, <2>4, <2>5, <2>6 DEF Inv
<1>6. CASE PruneApplied
  <2>1. PICK f \in FloorFor(tombs \cup Above(done, floor)) :
          LET g == IF f > Horizon THEN f ELSE Horizon
          IN  /\ floor' = g
              /\ evicted' = (IF f = floor THEN evicted ELSE f)
              /\ tombs' = Above(tombs \cup done, g)
              /\ ackable' = Above(ackable \cup done, g)
    BY <1>6 DEF PruneApplied
  <2> DEFINE g == IF f > Horizon THEN f ELSE Horizon
  <2>2. /\ live' = live \ done /\ done' = {} /\ recorded' = recorded \cup done
        /\ UNCHANGED <<now, applied, written, boot>>
    BY <1>6 DEF PruneApplied
  <2>3. f \in Nat /\ done \in SUBSET Txn /\ \A x \in done : Minted(x)
    <3>1. floor \in Nat /\ tombs \in SUBSET Nat /\ done \in SUBSET Nat
      BY Bounds DEF Inv, TypeOK
    <3>2. f \in Nat
      BY <3>1 DEF FloorFor, Above
    <3>3. QED
      BY <3>2 DEF Inv, TypeOK, KnownIsMinted
  <2>4. Horizon \in Nat /\ (Horizon = Top(0) \/ (now > Retention /\ Horizon = Top(now - Retention)))
    <3>1. CASE now > Retention
      <4>1. now - Retention \in Nat
        BY <1>1, <3>1, Bounds
      <4>2. QED
        BY <3>1, <4>1, TopMonotone DEF Horizon
    <3>2. CASE ~(now > Retention)
      BY <3>2, TopMonotone DEF Horizon
    <3>3. QED
      BY <3>1, <3>2
  <2>5. g \in Nat /\ g >= f
        /\ (g = f \/ (g = Top(0) \/ (now > Retention /\ g = Top(now - Retention))))
    BY <2>3, <2>4
  <2>6. /\ floor' = g
        /\ evicted' = (IF f = floor THEN evicted ELSE f)
        /\ tombs' = Above(tombs \cup done, g)
        /\ ackable' = Above(ackable \cup done, g)
    BY <2>1
  <2> HIDE DEF g
  <2>7. /\ floor' \in Nat /\ evicted' \in Nat \cup {None}
        /\ tombs' \in SUBSET Txn /\ Cardinality(tombs') <= Capacity
        /\ recorded' \in SUBSET Txn
        /\ TombsAboveFloor' /\ RecordedIsDecided' /\ KnownIsMinted' /\ FloorReason'
    BY <1>2, <2>2, <2>3, <2>5, <2>6
  <2>8. ackable' \in SUBSET tombs' /\ AckableWasApplied'
    BY <2>2, <2>6 DEF Inv, TypeOK, AckableWasApplied, Above
  <2>9. TypeOK'
    BY <2>2, <2>3, <2>7, <2>8 DEF Inv, TypeOK
  <2>10. QED
    BY <2>2, <2>7, <2>8, <2>9 DEF Inv
<1>7. CASE Tick
  <2>1. /\ now' = now + 1
        /\ UNCHANGED <<floor, tombs, ackable, live, done, recorded, applied, written, evicted, boot>>
    BY <1>7 DEF Tick
  <2>2. TypeOK' /\ AckableWasApplied' /\ (done \subseteq applied)'
    BY <2>1, <1>1 DEF Inv, TypeOK, AckableWasApplied
  <2>3. TombsAboveFloor' /\ RecordedIsDecided'
    BY <2>1 DEF Inv, TombsAboveFloor, RecordedIsDecided, Decided
  <2>4. KnownIsMinted'
    <3>1. Top(now + Drift) \in Nat /\ Top(now + Drift) <= Top(now + 1 + Drift)
          /\ Top(now + 1 + Drift) \in Nat
      BY <1>1, Bounds, TopMonotone
    <3>2. floor <= Top(now + 1 + Drift)
      BY <3>1 DEF Inv, TypeOK, KnownIsMinted
    <3>3. ASSUME NEW x \in tombs \cup live PROVE x <= Top(now + 1 + Drift)
      <4>1. x \in Nat /\ x <= Top(now + Drift)
        BY Bounds DEF Inv, TypeOK, KnownIsMinted, Minted
      <4>2. QED
        BY <3>1, <4>1
    <3>4. QED
      BY <2>1, <3>2, <3>3 DEF KnownIsMinted, Minted, Top
  <2>5. FloorReason'
    <3>1. CASE floor <= Top(boot) \/ floor <= evicted
      BY <2>1, <3>1 DEF FloorReason, Top
    <3>2. CASE now > Retention /\ floor <= Top(now - Retention)
      <4>1. /\ now - Retention \in Nat /\ (now + 1) - Retention \in Nat
            /\ now - Retention <= (now + 1) - Retention /\ now + 1 > Retention
        BY <1>1, <3>2, Bounds
      <4>2. floor \in Nat /\ Top(now - Retention) \in Nat /\ Top((now + 1) - Retention) \in Nat
            /\ Top(now - Retention) <= Top((now + 1) - Retention)
        BY <4>1, TopMonotone DEF Inv, TypeOK
      <4>3. floor <= Top((now + 1) - Retention)
        BY <3>2, <4>2
      <4>4. Top(now - Retention)' = Top((now + 1) - Retention)
        BY <2>1 DEF Top
      <4>5. (now > Retention /\ floor <= Top(now - Retention))'
        BY <2>1, <4>1, <4>3, <4>4
      <4>6. QED
        BY <4>5 DEF FloorReason
    <3>3. QED
      BY <3>1, <3>2 DEF Inv, FloorReason
  <2>6. QED
    BY <2>2, <2>3, <2>4, <2>5 DEF Inv
<1>8. CASE Restart
  <2>1. PICK t \in now + Drift .. MaxTime : now' = t /\ boot' = t /\ floor' = Top(t)
    BY <1>8 DEF Restart
  <2>2. /\ tombs' = {} /\ ackable' = {} /\ live' = {} /\ done' = {}
        /\ UNCHANGED <<recorded, applied, written, evicted>>
    BY <1>8 DEF Restart
  <2>3. t \in Nat /\ Top(t) \in Nat /\ Top(now + Drift) \in Nat /\ Top(now + Drift) <= Top(t)
        /\ t + Drift \in Nat /\ Top(t) <= Top(t + Drift)
    BY <1>1, <2>1, Bounds, TopMonotone
  <2>4. TypeOK' /\ AckableWasApplied' /\ (done \subseteq applied)'
    <3>1. Cardinality({}) = 0
      BY FS_EmptySet
    <3>2. QED
      BY <2>1, <2>2, <2>3, <3>1, Bounds DEF Inv, TypeOK, AckableWasApplied
  <2>5. RecordedIsDecided'
    <3>1. ASSUME NEW x \in recorded PROVE x <= Top(t)
      <4>1. x \in Nat /\ floor \in Nat
        BY Bounds DEF Inv, TypeOK
      <4>2. x <= Top(now + Drift)
        BY <2>3, <4>1 DEF Inv, RecordedIsDecided, Decided, KnownIsMinted, Minted
      <4>3. QED
        BY <2>3, <4>1, <4>2
    <3>2. QED
      BY <2>1, <2>2, <3>1 DEF RecordedIsDecided, Decided
  <2>6. TombsAboveFloor' /\ KnownIsMinted'
    BY <2>1, <2>2, <2>3 DEF TombsAboveFloor, KnownIsMinted, Minted, Top
  <2>7. FloorReason'
    <3>1. floor' <= Top(t)
      BY <2>1, <2>3
    <3>2. (floor <= Top(boot))'
      BY <2>1, <3>1 DEF Top
    <3>3. QED
      BY <3>2 DEF FloorReason
  <2>8. QED
    BY <2>4, <2>5, <2>6, <2>7 DEF Inv
<1>9. CASE UNCHANGED vars
  BY <1>9 DEF vars, Inv, TypeOK, TombsAboveFloor, RecordedIsDecided, Decided,
              KnownIsMinted, Minted, FloorReason, Top, AckableWasApplied
<1>10. QED
  BY <1>3, <1>4, <1>5, <1>6, <1>7, <1>8, <1>9 DEF Next

\* The record's sets stay within their types: no more than Capacity tombstones
\* are kept (enforce_capacity) and an ackable tombstone is a tombstone.
THEOREM TypeCorrect == Spec => []TypeOK
<1>1. Inv => TypeOK
  BY DEF Inv
<1>2. QED
  BY <1>1, InvInit, InvInductive, PTL DEF Spec

\* was_applied answers yes only for a transaction this replica advanced to
\* Applied, through any sequence of records, prunes, evictions and restarts.
THEOREM AckNeedsApply == Spec => []AckableWasApplied
<1>1. Inv => AckableWasApplied
  BY DEF Inv
<1>2. QED
  BY <1>1, InvInit, InvInductive, PTL DEF Spec

\* A transaction whose coordinator may still be waiting for it is not refused by
\* the floor, unless the floor was raised over it by an eviction or a restart.
THEOREM LiveCoordinatorHeard == Spec => []UsableIsAccepted
<1>1. Inv => UsableIsAccepted
  <2> SUFFICES ASSUME Inv, NEW x \in Txn \ recorded,
                      Time(x) + Timeout + Drift >= now, Time(x) > boot, x > evicted,
                      Decided(x)
               PROVE  FALSE
    BY DEF UsableIsAccepted
  <2>1. /\ x \in Nat /\ floor \in Nat /\ boot \in Nat /\ now \in Nat
        /\ evicted \in Nat \cup {None} /\ Time(x) \in Nat
    <3>1. x \in Nat
      BY Bounds
    <3>2. Time(x) \in Nat
      BY <3>1, Bounds DEF Time
    <3>3. QED
      BY <3>1, <3>2 DEF Inv, TypeOK
  <2>2. x <= floor
    BY DEF Inv, TombsAboveFloor, Decided
  <2>3. CASE floor <= Top(boot)
    <3>1. Top(boot) \in Nat
      BY <2>1, TopMonotone
    <3>2. x <= Top(boot)
      BY <2>1, <2>2, <2>3, <3>1
    <3>3. QED
      BY <2>1, <3>2, TimeOfTop
  <2>4. CASE floor <= evicted
    BY <2>1, <2>2, <2>4 DEF None
  <2>5. CASE now > Retention /\ floor <= Top(now - Retention)
    <3>1. now - Retention \in Nat /\ Top(now - Retention) \in Nat
      BY <2>1, <2>5, Bounds, TopMonotone
    <3>2. x <= Top(now - Retention)
      BY <2>1, <2>2, <2>5, <3>1
    <3>3. Time(x) <= now - Retention
      BY <2>1, <3>1, <3>2, TimeOfTop
    <3>4. QED
      BY <2>1, <3>3, Bounds, RetentionCovers
  <2>6. QED
    BY <2>3, <2>4, <2>5 DEF Inv, FloorReason
<1>2. QED
  BY <1>1, InvInit, InvInductive, PTL DEF Spec

\* No step lowers the floor or forgets that a decision was recorded.
LEMMA FloorRises ==
  ASSUME Inv, [Next]_vars
  PROVE  floor <= floor' /\ recorded \subseteq recorded'
<1>1. floor \in Nat /\ now \in Nat
  BY DEF Inv, TypeOK
<1>2. ASSUME NEW x \in Txn, Record(x) PROVE floor <= floor' /\ recorded \subseteq recorded'
  <2>1. PICK f \in FloorFor(tombs \cup Above({x}, floor)) : floor' = f
    BY <1>2 DEF Record
  <2>2. {x} \in SUBSET Txn /\ (\A y \in {x} : Minted(y)) /\ recorded \subseteq recorded'
    BY <1>2 DEF Record
  <2>3. f \in Nat
    <3>1. floor \in Nat /\ tombs \in SUBSET Nat /\ x \in Nat
      BY Bounds DEF Inv, TypeOK
    <3>2. QED
      BY <3>1 DEF FloorFor, Above
  <2>4. f >= f
    BY <2>3, FloorIsEnough, Zenon
  <2>5. QED
    BY <2>1, <2>2, <2>3, <2>4, Recording
<1>3. CASE PruneApplied
  <2>1. PICK f \in FloorFor(tombs \cup Above(done, floor)) :
          floor' = IF f > Horizon THEN f ELSE Horizon
    BY <1>3 DEF PruneApplied
  <2>2. recorded \subseteq recorded'
    BY <1>3 DEF PruneApplied
  <2>3. done \in SUBSET Txn /\ (\A y \in done : Minted(y))
    BY DEF Inv, TypeOK, KnownIsMinted
  <2>4. f \in Nat
    <3>1. floor \in Nat /\ tombs \in SUBSET Nat /\ done \in SUBSET Nat
      BY Bounds DEF Inv, TypeOK
    <3>2. QED
      BY <3>1 DEF FloorFor, Above
  <2>5. f >= f
    BY <2>4, FloorIsEnough, Zenon
  <2>6. floor <= f
    BY <2>3, <2>4, <2>5, Recording
  <2>7. Horizon \in Nat
    <3>1. CASE now > Retention
      <4>1. now - Retention \in Nat
        BY <1>1, <3>1, Bounds
      <4>2. QED
        BY <3>1, <4>1, TopMonotone DEF Horizon
    <3>2. CASE ~(now > Retention)
      BY <3>2, TopMonotone DEF Horizon
    <3>3. QED
      BY <3>1, <3>2
  <2>8. QED
    BY <1>1, <2>1, <2>2, <2>4, <2>6, <2>7
<1>4. CASE Restart
  <2>1. PICK t \in now + Drift .. MaxTime : floor' = Top(t) /\ recorded' = recorded
    BY <1>4 DEF Restart
  <2>2. Top(t) \in Nat /\ Top(now + Drift) \in Nat /\ Top(now + Drift) <= Top(t)
    BY <1>1, <2>1, Bounds, TopMonotone
  <2>3. QED
    BY <1>1, <2>1, <2>2 DEF Inv, KnownIsMinted
<1>5. CASE UNCHANGED <<floor, recorded>>
  BY <1>1, <1>5
<1>6. QED
  BY <1>2, <1>3, <1>4, <1>5 DEF Next, vars, PreAccept, Create, Apply, NoWriteFinalize, Tick

\* Once the state machine has recorded a decision for a transaction it never
\* takes the transaction as new again: the bounded record (exact tombstones,
\* a floor over everything older, a floor at every restart) implements a set
\* of decided transactions that only grows.
THEOREM ImplementsDecisions == Spec => KeepsPromise
<1>1. Init => Promise!Init
  BY DEF Init, Promise!Init
<1>2. ASSUME Inv, Inv', [Next]_vars
      PROVE  [Promise!Next]_<<recorded, {x \in Txn : Decided(x)}>>
  <2>1. recorded' \in SUBSET Txn /\ floor \in Nat /\ floor' \in Nat /\ Txn \subseteq Nat
    BY <1>2, Bounds DEF Inv, TypeOK
  <2>2. floor <= floor' /\ recorded \subseteq recorded'
    BY <1>2, FloorRises
  <2>3. \A x \in recorded' : x \in Txn /\ Decided(x)'
    BY <1>2, <2>1 DEF Inv, RecordedIsDecided
  <2>4. ASSUME NEW x \in Txn, Decided(x) PROVE Decided(x)'
    <3>1. CASE x <= floor
      <4>1. x <= floor'
        BY <2>1, <2>2, <3>1
      <4>2. QED
        BY <4>1 DEF Decided
    <3>2. CASE x \in tombs
      BY <1>2, <2>2, <2>3, <3>2 DEF Inv, TombsAboveFloor
    <3>3. QED
      BY <2>4, <3>1, <3>2 DEF Decided
  <2>5. QED
    BY <2>1, <2>2, <2>3, <2>4 DEF Promise!Next
<1>3. QED
  BY <1>1, <1>2, InvInit, InvInductive, PTL DEF Spec, KeepsPromise, Promise!Spec
==============================================================================
