------------------------------- MODULE HLC -------------------------------
(***************************************************************************)
(* The hybrid logical clock every transaction timestamp comes from         *)
(* (ferrosa-common/src/accord.rs), on one node.  The clock is one          *)
(* mutex-protected pair (time, seq).  `now` mints a stamp from it;         *)
(* `witness` merges a stamp seen from another node and then mints.  A      *)
(* caller inside `witness` reads the wall clock before it takes the mutex, *)
(* and takes the mutex twice, so other callers interleave with it.         *)
(*                                                                         *)
(* The wall clock is the environment's: it may stand still or step back.   *)
(* Other nodes' clocks are unconstrained, so a remote stamp is any stamp   *)
(* with their node number.  The epoch of a stamp is always 0 in the code.  *)
(***************************************************************************)
EXTENDS Integers

CONSTANTS Me,        \* this node's number
          Peer,      \* the other nodes' numbers
          Caller,    \* the threads that call witness() on this clock
          MaxDrift,  \* max_drift_ns
          MaxSeq,    \* u32::MAX, the width of Timestamp::seq
          MaxWall    \* bound: no wall clock reads more than this

ASSUME NodeAssumption == Me \in Nat /\ Peer \subseteq Nat /\ Me \notin Peer
ASSUME BoundAssumption == MaxDrift \in Nat /\ MaxSeq \in Nat /\ MaxWall \in Nat

VARIABLES wall,      \* what SystemTime::now() reads
          peak,      \* the highest value of wall so far (history)
          clock,     \* the pair under the mutex
          poisoned,  \* a thread panicked while it held the mutex
          minted,    \* every stamp this node's clocks have returned (history)
          at,        \* at[c]: where caller c is inside witness()
          remote     \* remote[c]: the stamp c is witnessing

vars == <<wall, peak, clock, poisoned, minted, at, remote>>

Pair == [time : Nat, seq : 0..MaxSeq]
Stamp == [time : Nat, seq : 0..MaxSeq, node : Peer \cup {Me}]

\* The order of the tuple (time, seq) in merge.
Ahead(a, b) == a.time > b.time \/ (a.time = b.time /\ a.seq > b.seq)

\* The derived Ord of Timestamp: fields compared in declaration order.
Above(a, b) == Ahead(a, b) \/ (a.time = b.time /\ a.seq = b.seq /\ a.node > b.node)

Mine(p) == [time |-> p.time, seq |-> p.seq, node |-> Me]

\* The value of remote[c] while c is not inside witness().
Nothing == [time |-> 0, seq |-> 0, node |-> Me]

Init ==
  /\ wall = 1
  /\ peak = 1
  /\ clock = [time |-> 0, seq |-> 0]
  /\ poisoned = FALSE
  /\ minted = {}
  /\ at = [c \in Caller |-> "idle"]
  /\ remote = [c \in Caller |-> Nothing]

\* Mutant of Advanced: an equal wall clock also resets the sequence.
MutAdvancedOnEqual ==
  IF wall >= clock.time THEN [time |-> wall, seq |-> 0]
  ELSE [time |-> clock.time, seq |-> clock.seq + 1]

\* The pair after `now`, when the sequence is not exhausted.
Advanced ==
  IF wall > clock.time THEN [time |-> wall, seq |-> 0]
  ELSE [time |-> clock.time, seq |-> clock.seq + 1]

\* checked_add(1) on the sequence panics: "HLC logical sequence exhausted".
Exhausted == wall <= clock.time /\ clock.seq = MaxSeq

\* The body of now(): one critical section, the wall clock read inside it.
Mint ==
  /\ ~poisoned
  /\ poisoned' = Exhausted
  /\ clock' = IF Exhausted THEN clock ELSE Advanced
  /\ minted' = IF Exhausted THEN minted ELSE minted \cup {Mine(Advanced)}

Now == Mint /\ UNCHANGED <<wall, peak, at, remote>>

\* Mutant of MergeCheck: no drift guard.
MutMergeCheckNoGuard(c, r) ==
  /\ at[c] = "idle"
  /\ at' = [at EXCEPT ![c] = "checked"]
  /\ remote' = [remote EXCEPT ![c] = r]
  /\ UNCHANGED <<wall, peak, clock, poisoned, minted>>

\* witness -> merge: the wall clock is read, and the drift guard decided,
\* before the mutex is taken.  A rejected remote goes straight to now().
MergeCheck(c, r) ==
  /\ at[c] = "idle"
  /\ at' = [at EXCEPT ![c] = IF r.time > wall + MaxDrift THEN "rejected" ELSE "checked"]
  /\ remote' = [remote EXCEPT ![c] = r]
  /\ UNCHANGED <<wall, peak, clock, poisoned, minted>>

\* Mutant of MergeAdopt: only the times are compared, not (time, seq).
MutMergeAdoptTimeOnly(c) ==
  /\ at[c] = "checked"
  /\ ~poisoned
  /\ clock' = IF remote[c].time > clock.time THEN [time |-> remote[c].time, seq |-> remote[c].seq]
              ELSE clock
  /\ at' = [at EXCEPT ![c] = "adopted"]
  /\ UNCHANGED <<wall, peak, poisoned, minted, remote>>

\* merge's critical section.
MergeAdopt(c) ==
  /\ at[c] = "checked"
  /\ ~poisoned
  /\ clock' = IF Ahead(remote[c], clock) THEN [time |-> remote[c].time, seq |-> remote[c].seq]
              ELSE clock
  /\ at' = [at EXCEPT ![c] = "adopted"]
  /\ UNCHANGED <<wall, peak, poisoned, minted, remote>>

\* The now() at the end of witness.
WitnessMint(c) ==
  /\ at[c] \in {"adopted", "rejected"}
  /\ Mint
  /\ at' = [at EXCEPT ![c] = "idle"]
  /\ remote' = [remote EXCEPT ![c] = Nothing]
  /\ UNCHANGED <<wall, peak>>

\* The node restarts.  The pair is not persisted; the new process mints
\* boot_now for the restart floor before it serves anything.  The restart is
\* assumed to take longer than the lead the drift guard allows.
Restart ==
  \E w \in peak + MaxDrift + 1 .. MaxWall :
    /\ wall' = w
    /\ peak' = w
    /\ clock' = [time |-> w, seq |-> 0]
    /\ minted' = minted \cup {Mine(clock')}
    /\ poisoned' = FALSE
    /\ at' = [c \in Caller |-> "idle"]
    /\ remote' = [c \in Caller |-> Nothing]

\* The wall clock moves, in either direction.
WallMoves ==
  \E w \in 1..MaxWall :
    /\ wall' = w
    /\ peak' = IF w > peak THEN w ELSE peak
    /\ UNCHANGED <<clock, poisoned, minted, at, remote>>

Received == [time : 1..MaxWall, seq : 0..MaxSeq, node : Peer]

Next ==
  \/ Now \/ Restart \/ WallMoves
  \/ \E c \in Caller : MergeAdopt(c) \/ WitnessMint(c) \/ \E r \in Received : MergeCheck(c, r)

Spec == Init /\ [][Next]_vars
---------------------------------------------------------------------------
\* Every variable has its type; the sequence fits its width.
TypeOK ==
  /\ wall \in Nat
  /\ peak \in Nat
  /\ clock \in Pair
  /\ poisoned \in BOOLEAN
  /\ minted \subseteq Stamp
  /\ at \in [Caller -> {"idle", "checked", "rejected", "adopted"}]
  /\ remote \in [Caller -> Stamp]

\* "timestamps never regress, even under wall-clock jitter": a stamp the node
\* mints is above every stamp it has minted before, concurrent callers and
\* restarts included.  TxnIds are minted stamps, so they are unique.
MintsIncrease ==
  [][\A s \in minted' \ minted, o \in minted : Above(s, o)]_vars

\* The drift guard bounds how far the clock leads the wall clock, whatever the
\* other nodes send and however callers of witness() interleave between the
\* guard's clock read and merge's critical section.
ClockLeadBounded == clock.time <= peak + MaxDrift

\* A witness() call whose remote the drift guard admits returns a new stamp,
\* above the remote, even when other callers minted or merged in between
\* ("a subsequently minted now is >= remote").
WitnessReturnsAbove ==
  [][\A c \in Caller :
       (at[c] = "adopted" /\ at'[c] = "idle" /\ ~poisoned')
         => \E s \in minted' \ minted : Above(s, remote[c])]_vars
---------------------------------------------------------------------------
\* What the proofs carry from step to step: the pair bounds every stamp minted
\* from it and every remote already merged into it, and everything it may
\* still merge was within the drift guard of a wall clock already read.
ClockInv ==
  /\ TypeOK
  /\ wall <= peak
  /\ ClockLeadBounded
  /\ \A m \in minted : m.node = Me /\ ~Ahead(m, clock)
  /\ \A c \in Caller : at[c] \in {"checked", "adopted"} => remote[c].time <= peak + MaxDrift
  /\ \A c \in Caller : at[c] = "adopted" => ~Ahead(remote[c], clock)
===========================================================================
