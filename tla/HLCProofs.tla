---------------------------- MODULE HLCProofs ----------------------------
(***************************************************************************)
(* The clock's properties for every drift bound, sequence width, set of    *)
(* callers and set of peers.                                               *)
(***************************************************************************)
EXTENDS HLC, TLAPS

\* What one successful now() returns is ahead of the pair it found.
LEMMA AdvancedIsAhead ==
  ASSUME TypeOK, ~Exhausted
  PROVE  Advanced \in Pair /\ Ahead(Advanced, clock)
BY BoundAssumption DEF TypeOK, Exhausted, Advanced, Pair, Ahead

\* Every step keeps the clock's inductive invariant.
LEMMA ClockInvInductive ==
  ASSUME ClockInv, [Next]_vars
  PROVE  ClockInv'
<1> USE NodeAssumption, BoundAssumption
<1>1. ASSUME Mint, UNCHANGED <<wall, peak>>,
             \A c \in Caller : at'[c] \in {"checked", "adopted"}
               => at'[c] = at[c] /\ remote'[c] = remote[c],
             at' \in [Caller -> {"idle", "checked", "rejected", "adopted"}],
             remote' \in [Caller -> Stamp]
      PROVE  ClockInv'
  <2>1. CASE Exhausted
    BY <1>1, <2>1 DEF ClockInv, Mint, TypeOK, ClockLeadBounded
  <2>2. CASE ~Exhausted
    <3>1. Advanced \in Pair /\ Ahead(Advanced, clock)
      BY <2>2, AdvancedIsAhead DEF ClockInv
    <3>2. clock' = Advanced /\ minted' = minted \cup {Mine(Advanced)} /\ poisoned' = FALSE
      BY <1>1, <2>2 DEF Mint
    <3>3. TypeOK'
      <4>1. minted' \subseteq Stamp
        BY <3>1, <3>2 DEF ClockInv, TypeOK, Pair, Stamp, Mine
      <4>2. QED
        BY <1>1, <3>1, <3>2, <4>1 DEF ClockInv, TypeOK
    <3>4. wall' <= peak' /\ ClockLeadBounded'
      BY <1>1, <3>2 DEF ClockInv, TypeOK, ClockLeadBounded, Advanced, Pair
    <3>5. \A m \in minted' : m.node = Me /\ ~Ahead(m, clock')
      BY <3>1, <3>2 DEF ClockInv, TypeOK, Ahead, Mine, Pair, Stamp
    <3>6. \A c \in Caller : at'[c] \in {"checked", "adopted"} => remote'[c].time <= peak' + MaxDrift
      BY <1>1 DEF ClockInv
    <3>7. \A c \in Caller : at'[c] = "adopted" => ~Ahead(remote'[c], clock')
      BY <1>1, <3>1, <3>2 DEF ClockInv, TypeOK, Ahead, Pair, Stamp
    <3>8. QED
      BY <3>3, <3>4, <3>5, <3>6, <3>7 DEF ClockInv
  <2>3. QED
    BY <2>1, <2>2
<1>2. CASE Now
  BY <1>1, <1>2 DEF Now, ClockInv, TypeOK
<1>3. CASE Restart
  <2>1. PICK w \in peak + MaxDrift + 1 .. MaxWall :
          /\ wall' = w /\ peak' = w /\ clock' = [time |-> w, seq |-> 0]
          /\ minted' = minted \cup {Mine(clock')} /\ poisoned' = FALSE
          /\ at' = [c \in Caller |-> "idle"] /\ remote' = [c \in Caller |-> Nothing]
    BY <1>3 DEF Restart
  <2>2. w \in Nat /\ w > peak + MaxDrift
    BY <2>1 DEF ClockInv, TypeOK
  <2>3. TypeOK'
    <3>1. clock' \in Pair /\ Mine(clock') \in Stamp /\ Nothing \in Stamp
      BY <2>1, <2>2 DEF Pair, Stamp, Mine, Nothing
    <3>2. QED
      BY <2>1, <2>2, <3>1 DEF ClockInv, TypeOK
  <2>4. \A m \in minted' : m.node = Me /\ ~Ahead(m, clock')
    BY <2>1, <2>2 DEF ClockInv, TypeOK, ClockLeadBounded, Ahead, Mine, Pair, Stamp
  <2>5. QED
    BY <2>1, <2>2, <2>3, <2>4 DEF ClockInv, ClockLeadBounded
<1>4. CASE WallMoves
  BY <1>4 DEF WallMoves, ClockInv, TypeOK, ClockLeadBounded, Pair, Stamp
<1>5. ASSUME NEW c \in Caller, MergeAdopt(c)
      PROVE  ClockInv'
  <2>1. remote[c] \in Stamp /\ clock \in Pair
    BY DEF ClockInv, TypeOK
  <2>2. clock' \in Pair /\ ~Ahead(clock, clock') /\ ~Ahead(remote[c], clock')
    BY <1>5, <2>1 DEF MergeAdopt, Ahead, Pair, Stamp
  <2>3. TypeOK'
    BY <1>5, <2>2 DEF MergeAdopt, ClockInv, TypeOK
  <2>4. ClockLeadBounded' /\ wall' <= peak'
    BY <1>5, <2>1 DEF MergeAdopt, ClockInv, TypeOK, ClockLeadBounded, Pair, Stamp
  <2>5. \A m \in minted' : m.node = Me /\ ~Ahead(m, clock')
    BY <1>5, <2>1, <2>2 DEF MergeAdopt, ClockInv, TypeOK, Ahead, Pair, Stamp
  <2>6. \A d \in Caller : at'[d] \in {"checked", "adopted"} => remote'[d].time <= peak' + MaxDrift
    BY <1>5 DEF MergeAdopt, ClockInv, TypeOK
  <2>7. \A d \in Caller : at'[d] = "adopted" => ~Ahead(remote'[d], clock')
    BY <1>5, <2>1, <2>2 DEF MergeAdopt, ClockInv, TypeOK, Ahead, Pair, Stamp
  <2>8. QED
    BY <2>3, <2>4, <2>5, <2>6, <2>7 DEF ClockInv
<1>6. ASSUME NEW c \in Caller, WitnessMint(c)
      PROVE  ClockInv'
  <2>1. \A d \in Caller : at'[d] \in {"checked", "adopted"} => at'[d] = at[d] /\ remote'[d] = remote[d]
    BY <1>6 DEF WitnessMint, ClockInv, TypeOK
  <2>2. /\ at' \in [Caller -> {"idle", "checked", "rejected", "adopted"}]
        /\ remote' \in [Caller -> Stamp]
    BY <1>6 DEF WitnessMint, ClockInv, TypeOK, Nothing, Stamp
  <2>3. QED
    BY <1>1, <1>6, <2>1, <2>2 DEF WitnessMint
<1>7. ASSUME NEW c \in Caller, NEW r \in Received, MergeCheck(c, r)
      PROVE  ClockInv'
  <2>1. r \in Stamp /\ r.time \in Nat
    BY DEF Received, Stamp
  <2>2. TypeOK'
    BY <1>7, <2>1 DEF MergeCheck, ClockInv, TypeOK
  <2>3. \A d \in Caller : at'[d] \in {"checked", "adopted"} => remote'[d].time <= peak' + MaxDrift
    BY <1>7, <2>1 DEF MergeCheck, ClockInv, TypeOK
  <2>4. \A d \in Caller : at'[d] = "adopted" => ~Ahead(remote'[d], clock')
    BY <1>7 DEF MergeCheck, ClockInv, TypeOK
  <2>5. QED
    BY <1>7, <2>2, <2>3, <2>4 DEF MergeCheck, ClockInv, ClockLeadBounded
<1>8. CASE UNCHANGED vars
  BY <1>8 DEF vars, ClockInv, TypeOK, ClockLeadBounded
<1>9. QED
  BY <1>2, <1>3, <1>4, <1>5, <1>6, <1>7, <1>8 DEF Next

\* The inductive invariant holds of every behaviour of the clock.
THEOREM ClockInvariant == Spec => []ClockInv
<1>1. Init => ClockInv
  <2>1. Init => clock \in Pair /\ Nothing \in Stamp
    BY NodeAssumption, BoundAssumption DEF Init, Pair, Stamp, Nothing
  <2>2. Init => TypeOK
    <3>1. Init => at \in [Caller -> {"idle", "checked", "rejected", "adopted"}]
      BY DEF Init
    <3>2. Init => remote \in [Caller -> Stamp]
      BY <2>1 DEF Init
    <3>3. Init => wall \in Nat /\ peak \in Nat
      BY DEF Init
    <3>4. Init => poisoned \in BOOLEAN /\ minted \subseteq Stamp
      BY Zenon DEF Init
    <3>5. QED
      BY <2>1, <3>1, <3>2, <3>3, <3>4, Zenon DEF TypeOK
  <2>3. QED
    BY <2>2, BoundAssumption DEF Init, ClockInv, ClockLeadBounded
<1>2. QED
  BY <1>1, ClockInvInductive, PTL DEF Spec

\* Whatever the peers send, the drift guard of merge() bounds the clock's lead
\* over the wall clock by max_drift_ns.
THEOREM LeadBounded == Spec => []ClockLeadBounded
BY ClockInvariant, PTL DEF ClockInv

\* now(), witness() and the boot stamp of a restart only ever return stamps
\* above every stamp this node has returned before.
THEOREM MintedStampsIncrease == Spec => MintsIncrease
<1>1. ASSUME ClockInv, [Next]_vars
      PROVE  [\A s \in minted' \ minted, o \in minted : Above(s, o)]_vars
  <2>1. ASSUME Mint
        PROVE  \A s \in minted' \ minted, o \in minted : Above(s, o)
    <3>1. CASE Exhausted
      BY <2>1, <3>1 DEF Mint
    <3>2. CASE ~Exhausted
      <4>1. Advanced \in Pair /\ Ahead(Advanced, clock)
        BY <1>1, <3>2, AdvancedIsAhead DEF ClockInv
      <4>2. minted' = minted \cup {Mine(Advanced)}
        BY <2>1, <3>2 DEF Mint
      <4>3. QED
        BY <1>1, <4>1, <4>2, BoundAssumption
        DEF ClockInv, TypeOK, Above, Ahead, Mine, Pair, Stamp
    <3>3. QED
      BY <3>1, <3>2
  <2>2. ASSUME Restart
        PROVE  \A s \in minted' \ minted, o \in minted : Above(s, o)
    <3>1. PICK w \in peak + MaxDrift + 1 .. MaxWall :
            clock' = [time |-> w, seq |-> 0] /\ minted' = minted \cup {Mine(clock')}
      BY <2>2 DEF Restart
    <3>2. w > peak + MaxDrift
      BY <1>1, <3>1, BoundAssumption DEF ClockInv, TypeOK
    <3>3. QED
      BY <1>1, <3>1, <3>2, BoundAssumption
      DEF ClockInv, TypeOK, ClockLeadBounded, Above, Ahead, Mine, Pair, Stamp
  <2>3. QED
    BY <1>1, <2>1, <2>2
    DEF Next, Now, WallMoves, MergeAdopt, WitnessMint, MergeCheck, vars
<1>2. QED
  BY <1>1, ClockInvariant, PTL DEF Spec, MintsIncrease

\* An admitted witness() returns a new stamp above the remote it was given.
THEOREM WitnessAbove == Spec => WitnessReturnsAbove
<1>1. ASSUME ClockInv, [Next]_vars, NEW c \in Caller,
             at[c] = "adopted", at'[c] = "idle", ~poisoned'
      PROVE  \E s \in minted' \ minted : Above(s, remote[c])
  <2>1. CASE Restart
    <3>1. PICK w \in peak + MaxDrift + 1 .. MaxWall :
            clock' = [time |-> w, seq |-> 0] /\ minted' = minted \cup {Mine(clock')}
      BY <2>1 DEF Restart
    <3>2. w > peak + MaxDrift
      BY <1>1, <3>1, BoundAssumption DEF ClockInv, TypeOK
    <3>3. Mine(clock') \notin minted /\ Above(Mine(clock'), remote[c])
      BY <1>1, <3>1, <3>2, BoundAssumption
      DEF ClockInv, TypeOK, ClockLeadBounded, Above, Ahead, Mine, Pair, Stamp
    <3>4. QED
      BY <3>1, <3>3
  <2>2. CASE WitnessMint(c)
    <3>1. ~Exhausted
      BY <1>1, <2>2 DEF WitnessMint, Mint
    <3>2. Advanced \in Pair /\ Ahead(Advanced, clock)
      BY <1>1, <3>1, AdvancedIsAhead DEF ClockInv
    <3>3. minted' = minted \cup {Mine(Advanced)}
      BY <2>2, <3>1 DEF WitnessMint, Mint
    <3>4. Mine(Advanced) \notin minted /\ Above(Mine(Advanced), remote[c])
      BY <1>1, <3>2, BoundAssumption
      DEF ClockInv, TypeOK, Above, Ahead, Mine, Pair, Stamp
    <3>5. QED
      BY <3>3, <3>4
  <2>3. QED
    BY <1>1, <2>1, <2>2
    DEF ClockInv, TypeOK, Next, Now, WallMoves, MergeAdopt, WitnessMint, MergeCheck, vars
<1>2. ASSUME ClockInv, [Next]_vars
      PROVE  [\A c \in Caller : (at[c] = "adopted" /\ at'[c] = "idle" /\ ~poisoned')
                => \E s \in minted' \ minted : Above(s, remote[c])]_vars
  BY <1>1, <1>2
<1>3. QED
  BY <1>2, ClockInvariant, PTL DEF Spec, WitnessReturnsAbove
===========================================================================
