------------------------ MODULE PairAuthorityProofs ------------------------
(***************************************************************************)
(* Proofs about PairAuthority for any writes, levels and bounds: authority *)
(* moves between the two nodes and is never doubled by a handoff, a new    *)
(* primary is caught up, and a write acknowledged at ALL has both copies.  *)
(***************************************************************************)
EXTENDS PairAuthority, TLAPS

\* A step that names no other prover is Zenon's.
USE ZenonT(30)

LEMMA PeerFacts == \A n \in Node : Peer(n) \in Node /\ Peer(n) # n /\ Peer(Peer(n)) = n
BY SMT DEF Node, Peer

LEMMA SetType ==
    ASSUME NEW S, NEW f \in [Node -> S], NEW n \in Node, NEW v \in S
    PROVE  Set(f, n, v) \in [Node -> S]
BY DEF Set

LEMMA TypeInit == Init => TypeOK
<1> SUFFICES ASSUME Init PROVE TypeOK
  OBVIOUS
<1>1. PICK p \in Plan : /\ wr = [w \in Write |-> IF w \in p.writes THEN NewWrite ELSE NoClient]
                        /\ faults = p.faults /\ calls = p.calls
  BY DEF Init
<1>2. wr \in [Write -> ClientWrites] /\ faults \in Nat /\ calls \in Nat
  BY <1>1, Plans DEF NewWrite, NoClient, Steps, ClientWrites, Node
<1>3. handoff \in [Node -> Handoffs] /\ marker \in [Node -> Markers]
  BY DEF Init, Idle, Handoffs, Markers
<1>4. /\ up \in [Node -> BOOLEAN] /\ promoted \in [Node -> BOOLEAN]
      /\ connected \in [Node -> BOOLEAN] /\ contested \in BOOLEAN
  BY DEF Init
<1> QED
  BY <1>2, <1>3, <1>4 DEF Init, TypeOK, Paths, Roles, CatchUps

\* The members of the record types that steps build and read.
LEMMA MarkerFacts ==
    ASSUME TypeOK, NEW n \in Node
    PROVE  marker[n].generation \in Nat /\ marker[n].primary \in Node \cup {0}
BY SMT DEF TypeOK, NoMarker, Markers

LEMMA MessageFacts ==
    ASSUME TypeOK, NEW m \in net
    PROVE  /\ m.id \in Nat /\ m.to \in Node /\ m.challenge \in Nat /\ m.generation \in Nat
           /\ m.write \in Write \cup {NoWrite}
BY DEF TypeOK, Messages

LEMMA StoredType ==
    ASSUME marker \in [Node -> Markers], NEW n \in Node, NEW p \in Node, NEW g \in Nat, g # 0,
           UNCHANGED marker \/ Stored(n, p, g)
    PROVE  marker' \in [Node -> Markers]
BY SMT DEF Stored, Set, Markers

LEMMA WritesType ==
    ASSUME NEW f \in [Node -> SUBSET Write], NEW n \in Node, NEW ws \in SUBSET Write
    PROVE  Set(f, n, ws) \in [Node -> SUBSET Write]
BY DEF Set

LEMMA MessageType ==
    ASSUME NEW k \in Kinds, NEW id \in Nat, NEW to \in Node, NEW c \in Nat, NEW g \in Nat,
           NEW w \in Write \cup {NoWrite}
    PROVE  /\ Message(k, id, to, c, g, w) \in Messages
           /\ Message(k, id, to, c, g, w).to = to /\ Message(k, id, to, c, g, w).kind = k
           /\ Message(k, id, to, c, g, w).generation = g
BY DEF Messages, Message

LEMMA RequestType ==
    ASSUME net \in SUBSET Messages, calls \in Nat, NEW m \in Messages, NEW consumed, Request(m, consumed)
    PROVE  /\ net' \in SUBSET Messages /\ calls' \in Nat
           /\ net' \subseteq net \cup {m}
           /\ m \in net' => m \in net \/ up[m.to]
BY SMT DEF Request

LEMMA ReplyType ==
    ASSUME net \in SUBSET Messages, NEW m, NEW r \in Messages, Reply(m, r)
    PROVE  /\ net' \in SUBSET Messages /\ net' \subseteq net \cup {r}
           /\ r \in net' => r \in net \/ up[r.to]
BY DEF Reply, Awaited

LEMMA UpdateType ==
    ASSUME wr \in [Write -> ClientWrites], NEW w \in Write, NEW step \in Steps, NEW n \in Node,
           NEW id \in Nat, Update(w, step, n, id)
    PROVE  wr' \in [Write -> ClientWrites]
BY DEF Update, ClientWrites

LEMMA TypeStep == TypeOK /\ [Next]_vars => TypeOK'
<1> SUFFICES ASSUME TypeOK, [Next]_vars PROVE TypeOK'
  OBVIOUS
<1>t. /\ \A m \in net : m.kind = "write" => m.write \in Write
      /\ up \in [Node -> BOOLEAN]
      /\ marker \in [Node -> Markers]
      /\ path \in [Node -> Paths]
      /\ role \in [Node -> Roles]
      /\ promoted \in [Node -> BOOLEAN]
      /\ catchUp \in [Node -> CatchUps]
      /\ owed \in [Node -> SUBSET Write]
      /\ connected \in [Node -> BOOLEAN]
      /\ challenge \in [Node -> Nat]
      /\ handoff \in [Node -> Handoffs]
      /\ net \in SUBSET Messages
      /\ calls \in Nat
      /\ wr \in [Write -> ClientWrites]
      /\ serving \in SUBSET Servings
      /\ store \in [Node -> SUBSET Write]
      /\ contested \in BOOLEAN
      /\ lone \in SUBSET Write
      /\ faults \in Nat
  BY DEF TypeOK
<1>1. ASSUME NEW n \in Node, Connect(n) PROVE TypeOK'
  <2>1. UNCHANGED <<up, challenge, handoff, net, calls, wr, serving, store, lone>>
    BY <1>1 DEF Connect, control, messages, data
  <2>2. connected' \in [Node -> BOOLEAN]
    BY <1>t, <1>1 DEF Connect, Set
  <2>3. promoted' \in [Node -> BOOLEAN]
    BY <1>t, <1>1 DEF Connect, Set
  <2>4. marker' \in [Node -> Markers]
    <3>1. Chosen(n) \in Node /\ (marker[n].generation + 1) \in Nat /\ ((marker[n].generation + 1) # 0)
      BY SMT, PeerFacts, MarkerFacts DEF Chosen
    <3>2. \/ UNCHANGED marker
          \/ Stored(n, Chosen(n), (marker[n].generation + 1))
      BY <1>1 DEF Connect, NotStored
    <3> QED
      BY <1>t, <3>1, <3>2, StoredType
  <2>5. path' \in [Node -> Paths]
    BY <1>t, <1>1 DEF Connect, Installed, Set, Paths
  <2>6. role' \in [Node -> Roles]
    BY SMT, <1>t, <1>1 DEF Connect, Installed, ChosenRole, Set, Roles
  <2>7. catchUp' \in [Node -> CatchUps]
    BY <1>t, <1>1 DEF Connect, Installed, BeginCatchUp, Set, CatchUps
  <2>8. owed' \in [Node -> SUBSET Write]
    <3>1. owed' = owed \/ \E ws \in SUBSET Write : owed' = Set(owed, n, ws)
      <4>1. UNCHANGED owed \/ BeginCatchUp(n)
        BY <1>1 DEF Connect, Installed
      <4>2. ASSUME BeginCatchUp(n) PROVE \E ws \in SUBSET Write : owed' = Set(owed, n, ws)
        <5>1. PICK logged \in SUBSET store[n] : owed' = Set(owed, n, IF promoted[n] THEN logged ELSE {})
          BY <4>2 DEF BeginCatchUp
        <5>2. (IF promoted[n] THEN logged ELSE {}) \in SUBSET Write
          BY <1>t
        <5> QED
          BY <5>1, <5>2
      <4> QED
        BY <4>1, <4>2
    <3>2. owed \in [Node -> SUBSET Write]
      BY <1>t
    <3>3. \A ws \in SUBSET Write : Set(owed, n, ws) \in [Node -> SUBSET Write]
      BY <3>2, WritesType
    <3> QED
      BY Zenon, <3>1, <3>2, <3>3
  <2>9. contested' \in BOOLEAN
    BY <1>t, <1>1 DEF Connect, ElectsBesideClaim
  <2>10. faults' \in Nat
    <3>1. UNCHANGED faults \/ Fault
      BY <1>1 DEF Connect, NotStored
    <3> QED
      BY SMT, <1>t, <3>1 DEF Fault
  <2> QED
    BY <1>t, <2>1, <2>2, <2>3, <2>4, <2>5, <2>6, <2>7, <2>8, <2>9, <2>10 DEF TypeOK
<1>2. ASSUME NEW n \in Node, Disconnect(n) PROVE TypeOK'
  <2>1. UNCHANGED <<up, marker, role, promoted, catchUp, owed, challenge, handoff, net, calls, wr, serving, store, contested, lone>>
    BY <1>2 DEF Disconnect, control, messages, data
  <2>2. connected' \in [Node -> BOOLEAN]
    BY <1>t, <1>2 DEF Disconnect, Set
  <2>3. path' \in [Node -> Paths]
    BY <1>t, <1>2 DEF Disconnect, Set, Paths
  <2>4. faults' \in Nat
    BY SMT, <1>t, <1>2 DEF Disconnect, Fault
  <2> QED
    BY <1>t, <2>1, <2>2, <2>3, <2>4 DEF TypeOK
<1>3. ASSUME NEW n \in Node, ReplayLog(n) PROVE TypeOK'
  <2>1. UNCHANGED <<up, marker, path, role, promoted, connected, challenge, handoff, net, calls, wr, serving, contested, lone>>
    BY <1>3 DEF ReplayLog, control, messages, data
  <2>2. owed' \in [Node -> SUBSET Write]
    <3>1. PICK logged \in SUBSET store[n] : owed' = Set(owed, n, logged)
      BY <1>3 DEF ReplayLog
    <3> QED
      BY <1>t, <3>1 DEF Set
  <2>3. store' \in [Node -> SUBSET Write]
    <3>1. PICK sent \in SUBSET store[n] : store' = Set(store, Peer(n), store[Peer(n)] \cup sent)
      BY <1>3 DEF ReplayLog
    <3>2. Peer(n) \in Node
      BY PeerFacts
    <3> QED
      BY <1>t, <3>1, <3>2 DEF Set
  <2>4. catchUp' \in [Node -> CatchUps]
    <3>1. \/ catchUp' = Set(catchUp, n, "ready")
          \/ catchUp' = Set(catchUp, n, "failed")
      BY <1>3 DEF ReplayLog
    <3> QED
      BY <1>t, <3>1 DEF Set, CatchUps
  <2>5. faults' \in Nat
    <3>1. UNCHANGED faults \/ Fault
      BY <1>3 DEF ReplayLog
    <3> QED
      BY SMT, <1>t, <3>1 DEF Fault
  <2> QED
    BY <1>t, <2>1, <2>2, <2>3, <2>4, <2>5 DEF TypeOK
<1>4. ASSUME NEW n \in Node, PromotePair(n) PROVE TypeOK'
  <2>1. UNCHANGED <<up, connected, challenge, handoff, net, calls, wr, serving, store, contested, lone>>
    BY <1>4 DEF PromotePair, control, messages, data
  <2>2. marker' \in [Node -> Markers]
    <3>1. n \in Node /\ (marker[n].generation + 1) \in Nat /\ ((marker[n].generation + 1) # 0)
      BY SMT, PeerFacts, MarkerFacts DEF Chosen
    <3>2. \/ UNCHANGED marker
          \/ Stored(n, n, (marker[n].generation + 1))
      BY <1>4 DEF PromotePair, NotStored
    <3> QED
      BY <1>t, <3>1, <3>2, StoredType
  <2>3. promoted' \in [Node -> BOOLEAN]
    BY <1>t, <1>4 DEF PromotePair, Set
  <2>4. path' \in [Node -> Paths]
    BY <1>t, <1>4 DEF PromotePair, Set, Paths
  <2>5. role' \in [Node -> Roles]
    BY SMT, <1>t, <1>4 DEF PromotePair, ChosenRole, Set, Roles
  <2>6. catchUp' \in [Node -> CatchUps]
    BY <1>t, <1>4 DEF PromotePair, BeginCatchUp, Set, CatchUps
  <2>7. owed' \in [Node -> SUBSET Write]
    <3>1. owed' = owed \/ \E ws \in SUBSET Write : owed' = Set(owed, n, ws)
      <4>1. UNCHANGED owed \/ BeginCatchUp(n)
        BY <1>4 DEF PromotePair
      <4>2. ASSUME BeginCatchUp(n) PROVE \E ws \in SUBSET Write : owed' = Set(owed, n, ws)
        <5>1. PICK logged \in SUBSET store[n] : owed' = Set(owed, n, IF promoted[n] THEN logged ELSE {})
          BY <4>2 DEF BeginCatchUp
        <5>2. (IF promoted[n] THEN logged ELSE {}) \in SUBSET Write
          BY <1>t
        <5> QED
          BY <5>1, <5>2
      <4> QED
        BY <4>1, <4>2
    <3>2. owed \in [Node -> SUBSET Write]
      BY <1>t
    <3>3. \A ws \in SUBSET Write : Set(owed, n, ws) \in [Node -> SUBSET Write]
      BY <3>2, WritesType
    <3> QED
      BY Zenon, <3>1, <3>2, <3>3
  <2>8. faults' \in Nat
    <3>1. UNCHANGED faults \/ Fault
      BY <1>4 DEF PromotePair, NotStored
    <3> QED
      BY SMT, <1>t, <3>1 DEF Fault
  <2> QED
    BY <1>t, <2>1, <2>2, <2>3, <2>4, <2>5, <2>6, <2>7, <2>8 DEF TypeOK
<1>5. ASSUME NEW n \in Node, PromoteStandalone(n) PROVE TypeOK'
  <2>1. UNCHANGED <<up, marker, role, catchUp, owed, challenge, handoff, net, calls, wr, serving, store, contested, lone, faults>>
    BY <1>5 DEF PromoteStandalone, control, messages, data
  <2>2. promoted' \in [Node -> BOOLEAN]
    BY <1>t, <1>5 DEF PromoteStandalone, Set
  <2>3. connected' \in [Node -> BOOLEAN]
    BY <1>t, <1>5 DEF PromoteStandalone, Set
  <2>4. path' \in [Node -> Paths]
    BY <1>t, <1>5 DEF PromoteStandalone, Set, Paths
  <2> QED
    BY <1>t, <2>1, <2>2, <2>3, <2>4 DEF TypeOK
<1>6. ASSUME NEW n \in Node, Switchover(n) PROVE TypeOK'
  <2>1. UNCHANGED <<up, marker, path, role, promoted, catchUp, owed, connected, challenge, net, calls, wr, serving, store, contested, lone, faults>>
    BY <1>6 DEF Switchover, control, messages, data
  <2>2. handoff' \in [Node -> Handoffs]
    BY <1>t, <1>6 DEF Switchover, Idle, Set, Handoffs
  <2> QED
    BY <1>t, <2>1, <2>2 DEF TypeOK
<1>7. ASSUME NEW n \in Node, Prepare(n) PROVE TypeOK'
  <2>1. UNCHANGED <<up, marker, path, role, promoted, catchUp, owed, connected, challenge, wr, serving, store, contested, lone, faults>>
    BY <1>7 DEF Prepare, control, messages, data
  <2>2. handoff' \in [Node -> Handoffs]
    <3>1. \/ handoff' = Set(handoff, n, Idle)
          \/ handoff' = Set(handoff, n, [step |-> "prepare", id |-> calls + 1])
      BY <1>7 DEF Prepare
    <3> QED
      BY SMT, <1>t, <3>1 DEF Set, Idle, Handoffs
  <2>3. net' \in SUBSET Messages /\ calls' \in Nat
    <3> DEFINE prepare == Message("prepare", calls + 1, Peer(n), 0, 0, NoWrite)
    <3>1. prepare \in Messages
      <4>1. calls + 1 \in Nat /\ Peer(n) \in Node /\ 0 \in Nat /\ NoWrite \in Write \cup {NoWrite}
        BY SMT, PeerFacts, MessageFacts, <1>t, <1>7
      <4>2. {"prepare", "ready", "grant", "accepted", "write", "ack"} = Kinds
        BY DEF Kinds
      <4> QED
        BY <4>1, <4>2, MessageType
    <3>2. UNCHANGED <<net, calls>> \/ Request(prepare, {})
      BY <1>7 DEF Prepare, messages
    <3> HIDE DEF prepare
    <3> QED
      BY <1>t, <3>1, <3>2, RequestType, ReplyType
  <2>4. \A x \in net' : x.kind = "write" => x.write \in Write
    BY SMT, <1>t, <1>7 DEF Prepare, messages, Request, Reply, Message
  <2> QED
    BY <1>t, <2>1, <2>2, <2>3, <2>4 DEF TypeOK
<1>8. ASSUME NEW n \in Node, NEW m \in net, Withdraw(n, m) PROVE TypeOK'
  <2>1. UNCHANGED <<up, path, promoted, catchUp, owed, connected, challenge, wr, serving, store, contested, lone>>
    BY <1>8 DEF Withdraw, control, messages, data
  <2>2. marker' \in [Node -> Markers]
    <3>1. Peer(n) \in Node /\ NextGeneration(n, m) \in Nat /\ (NextGeneration(n, m) # 0)
      BY SMT, PeerFacts, MarkerFacts, MessageFacts DEF NextGeneration
    <3>2. \/ UNCHANGED marker
          \/ Stored(n, Peer(n), NextGeneration(n, m))
      BY <1>8 DEF Withdraw, NotStored
    <3> QED
      BY <1>t, <3>1, <3>2, StoredType
  <2>3. role' \in [Node -> Roles]
    BY <1>t, <1>8 DEF Withdraw, Set, Roles
  <2>4. handoff' \in [Node -> Handoffs]
    BY SMT, <1>t, <1>8 DEF Withdraw, Idle, Set, Handoffs
  <2>5. faults' \in Nat
    BY SMT, <1>t, <1>8 DEF Withdraw, NotStored, Fault
  <2>6. net' \in SUBSET Messages /\ calls' \in Nat
    <3> DEFINE grant == Message("grant", calls + 1, Peer(n), m.challenge, NextGeneration(n, m), NoWrite)
    <3>1. grant \in Messages
      <4>1. calls + 1 \in Nat /\ Peer(n) \in Node /\ m.challenge \in Nat /\ NextGeneration(n, m) \in Nat /\ NoWrite \in Write \cup {NoWrite}
        BY SMT, PeerFacts, MarkerFacts, MessageFacts, <1>t, <1>8 DEF NextGeneration
      <4>2. {"prepare", "ready", "grant", "accepted", "write", "ack"} = Kinds
        BY DEF Kinds
      <4> QED
        BY <4>1, <4>2, MessageType
    <3>2. (net' = net \ {m} /\ UNCHANGED calls) \/ Request(grant, {m})
      BY <1>8 DEF Withdraw, messages
    <3> HIDE DEF grant
    <3> QED
      BY <1>t, <3>1, <3>2, RequestType, ReplyType
  <2>7. \A x \in net' : x.kind = "write" => x.write \in Write
    BY SMT, <1>t, <1>8 DEF Withdraw, messages, Request, Reply, Message
  <2> QED
    BY <1>t, <2>1, <2>2, <2>3, <2>4, <2>5, <2>6, <2>7 DEF TypeOK
<1>9. ASSUME NEW n \in Node, HandoffEnds(n) PROVE TypeOK'
  <2>1. UNCHANGED <<up, marker, path, role, promoted, catchUp, owed, connected, challenge, calls, wr, serving, store, contested, lone>>
    BY <1>9 DEF HandoffEnds, control, messages, data
  <2>2. handoff' \in [Node -> Handoffs]
    BY <1>t, <1>9 DEF HandoffEnds, Idle, Set, Handoffs
  <2>3. net' \in SUBSET Messages
    BY <1>t, <1>9 DEF HandoffEnds, TimedOut
  <2>4. faults' \in Nat
    BY SMT, <1>t, <1>9 DEF HandoffEnds, TimedOut, Fault
  <2>5. \A x \in net' : x.kind = "write" => x.write \in Write
    BY <1>t, <1>9 DEF HandoffEnds, TimedOut
  <2> QED
    BY <1>t, <2>1, <2>2, <2>3, <2>4, <2>5 DEF TypeOK
<1>10. ASSUME NEW n \in Node, NEW m \in net, HandlePrepare(n, m) PROVE TypeOK'
  <2>1. UNCHANGED <<up, marker, path, role, promoted, catchUp, owed, connected, handoff, calls, wr, serving, store, contested, lone, faults>>
    BY <1>10 DEF HandlePrepare, control, messages, data
  <2>2. challenge' \in [Node -> Nat]
    BY <1>t, <1>10, MessageFacts DEF HandlePrepare, Set
  <2>3. net' \in SUBSET Messages
    <3> DEFINE ready == Message("ready", m.id, Peer(n), m.id, marker[n].generation, NoWrite)
    <3>1. ready \in Messages
      <4>1. m.id \in Nat /\ Peer(n) \in Node /\ marker[n].generation \in Nat /\ NoWrite \in Write \cup {NoWrite}
        BY PeerFacts, MarkerFacts, MessageFacts, <1>t, <1>10
      <4>2. {"prepare", "ready", "grant", "accepted", "write", "ack"} = Kinds
        BY DEF Kinds
      <4> QED
        BY <4>1, <4>2, MessageType
    <3>2. net' = net \ {m} \/ Reply(m, ready)
      BY <1>10 DEF HandlePrepare, messages
    <3> HIDE DEF ready
    <3> QED
      BY <1>t, <3>1, <3>2, RequestType, ReplyType
  <2>4. \A x \in net' : x.kind = "write" => x.write \in Write
    BY SMT, <1>t, <1>10 DEF HandlePrepare, messages, Request, Reply, Message
  <2> QED
    BY <1>t, <2>1, <2>2, <2>3, <2>4 DEF TypeOK
<1>11. ASSUME NEW n \in Node, NEW m \in net, HandleGrant(n, m) PROVE TypeOK'
  <2>1. UNCHANGED <<up, path, promoted, catchUp, owed, connected, handoff, calls, wr, serving, store, contested, lone>>
    BY <1>11 DEF HandleGrant, control, messages, data
  <2>2. marker' \in [Node -> Markers]
    <3>1. n \in Node /\ m.generation \in Nat /\ (Grantable(n, m) => m.generation # 0)
      BY SMT, MarkerFacts, MessageFacts DEF Grantable
    <3>2. \/ UNCHANGED marker
          \/ Grantable(n, m) /\ Stored(n, n, m.generation)
      BY <1>11 DEF HandleGrant, NotStored
    <3> QED
      BY <1>t, <3>1, <3>2, StoredType
  <2>3. role' \in [Node -> Roles]
    BY <1>t, <1>11 DEF HandleGrant, Set, Roles
  <2>4. challenge' \in [Node -> Nat]
    BY <1>t, <1>11 DEF HandleGrant, Set
  <2>5. faults' \in Nat
    BY SMT, <1>t, <1>11 DEF HandleGrant, NotStored, Fault
  <2>6. net' \in SUBSET Messages
    <3> DEFINE accepted == Message("accepted", m.id, Peer(n), 0, m.generation, NoWrite)
    <3>1. accepted \in Messages
      <4>1. m.id \in Nat /\ Peer(n) \in Node /\ m.generation \in Nat /\ 0 \in Nat /\ NoWrite \in Write \cup {NoWrite}
        BY PeerFacts, MessageFacts, <1>t, <1>11
      <4>2. {"prepare", "ready", "grant", "accepted", "write", "ack"} = Kinds
        BY DEF Kinds
      <4> QED
        BY <4>1, <4>2, MessageType
    <3>2. net' = net \ {m} \/ Reply(m, accepted)
      BY <1>11 DEF HandleGrant, messages
    <3> HIDE DEF accepted
    <3> QED
      BY <1>t, <3>1, <3>2, RequestType, ReplyType
  <2>7. \A x \in net' : x.kind = "write" => x.write \in Write
    BY SMT, <1>t, <1>11 DEF HandleGrant, messages, Request, Reply, Message
  <2> QED
    BY <1>t, <2>1, <2>2, <2>3, <2>4, <2>5, <2>6, <2>7 DEF TypeOK
<1>12. ASSUME NEW n \in Node, NEW m \in net, HandleWrite(n, m) PROVE TypeOK'
  <2>1. UNCHANGED <<up, marker, path, role, promoted, catchUp, owed, connected, challenge, handoff, wr, contested, faults>>
    BY <1>12 DEF HandleWrite, control, messages, data
  <2>2. store' \in [Node -> SUBSET Write]
    <3>1. store' = Set(store, n, store[n] \cup {m.write}) /\ m.write \in Write
      BY <1>t, <1>12 DEF HandleWrite
    <3> QED
      BY <1>t, <3>1 DEF Set
  <2>3. lone' \in SUBSET Write
    <3>1. m.write \in Write /\ (UNCHANGED lone \/ lone' = lone \cup {m.write})
      BY <1>t, <1>12 DEF HandleWrite
    <3> QED
      BY <1>t, <3>1
  <2>4. serving' \in SUBSET Servings
    BY SMT, <1>t, <1>12, MessageFacts DEF HandleWrite, Servings
  <2>5. net' \in SUBSET Messages /\ calls' \in Nat
    <3> DEFINE forward == Message("write", calls + 1, Peer(n), 0, 0, m.write)
               ack == Message("ack", m.id, Peer(n), 0, 0, NoWrite)
    <3>1. forward \in Messages /\ ack \in Messages
      <4>1. calls + 1 \in Nat /\ m.id \in Nat /\ Peer(n) \in Node /\ 0 \in Nat /\ m.write \in Write \cup {NoWrite} /\ NoWrite \in Write \cup {NoWrite}
        BY SMT, PeerFacts, MessageFacts, <1>t, <1>12
      <4>2. {"prepare", "ready", "grant", "accepted", "write", "ack"} = Kinds
        BY DEF Kinds
      <4> QED
        BY <4>1, <4>2, MessageType
    <3>2. Request(forward, {m}) \/ (Reply(m, ack) /\ UNCHANGED calls)
      BY <1>12 DEF HandleWrite, messages
    <3> HIDE DEF forward, ack
    <3> QED
      BY <1>t, <3>1, <3>2, RequestType, ReplyType
  <2>6. \A x \in net' : x.kind = "write" => x.write \in Write
    BY SMT, <1>t, <1>12 DEF HandleWrite, messages, Request, Reply, Message
  <2> QED
    BY <1>t, <2>1, <2>2, <2>3, <2>4, <2>5, <2>6 DEF TypeOK
<1>13. ASSUME NEW n \in Node, ServeEnds(n) PROVE TypeOK'
  <2>1. UNCHANGED <<up, marker, path, role, promoted, catchUp, owed, connected, challenge, handoff, calls, wr, store, contested, lone>>
    BY <1>13 DEF ServeEnds, control, messages, data
  <2>2. serving' \in SUBSET Servings
    <3>1. serving' \subseteq serving
      BY <1>13 DEF ServeEnds
    <3> QED
      BY <1>t, <3>1
  <2>3. faults' \in Nat
    <3>1. UNCHANGED faults \/ Fault
      BY <1>13 DEF ServeEnds, TimedOut
    <3> QED
      BY SMT, <1>t, <3>1 DEF Fault
  <2>4. net' \in SUBSET Messages
    <3>1. PICK s \in serving :
             \/ /\ \E m \in net : /\ m.kind = "ack" /\ m.to = n /\ m.id = s.id
                                  /\ Reply(m, Message("ack", s.reply, Peer(n), 0, 0, NoWrite))
                /\ UNCHANGED faults
             \/ TimedOut(s.id, n)
      BY <1>13 DEF ServeEnds
    <3> DEFINE ack == Message("ack", s.reply, Peer(n), 0, 0, NoWrite)
    <3>2. ack \in Messages
      <4>1. s.reply \in Nat /\ Peer(n) \in Node /\ 0 \in Nat /\ NoWrite \in Write \cup {NoWrite}
        BY <1>t, PeerFacts DEF Servings
      <4>2. "ack" \in Kinds
        BY DEF Kinds
      <4> QED
        BY <4>1, <4>2, MessageType
    <3>3. (\E m \in net : Reply(m, ack)) \/ net' \subseteq net
      BY <3>1 DEF TimedOut
    <3> HIDE DEF ack
    <3> QED
      BY <1>t, <3>2, <3>3, ReplyType
  <2>5. \A x \in net' : x.kind = "write" => x.write \in Write
    BY SMT, <1>t, <1>13 DEF ServeEnds, TimedOut, Reply, Message
  <2> QED
    BY <1>t, <2>1, <2>2, <2>3, <2>4, <2>5 DEF TypeOK
<1>14. ASSUME NEW n \in Node, Crash(n) PROVE TypeOK'
  <2>1. UNCHANGED <<marker, calls, store, contested, lone>>
    BY <1>14 DEF Crash, control, messages, data
  <2>2. up' \in [Node -> BOOLEAN]
    BY <1>t, <1>14 DEF Crash, Set
  <2>3. promoted' \in [Node -> BOOLEAN]
    BY <1>t, <1>14 DEF Crash, Set
  <2>4. connected' \in [Node -> BOOLEAN]
    BY <1>t, <1>14 DEF Crash, Set
  <2>5. role' \in [Node -> Roles]
    BY <1>t, <1>14 DEF Crash, Set, Roles
  <2>6. path' \in [Node -> Paths]
    BY <1>t, <1>14 DEF Crash, Set, Paths
  <2>7. catchUp' \in [Node -> CatchUps]
    BY <1>t, <1>14 DEF Crash, Set, CatchUps
  <2>8. owed' \in [Node -> SUBSET Write]
    BY <1>t, <1>14 DEF Crash, Set
  <2>9. challenge' \in [Node -> Nat]
    BY <1>t, <1>14 DEF Crash, Set
  <2>10. handoff' \in [Node -> Handoffs]
    BY <1>t, <1>14 DEF Crash, Idle, Set, Handoffs
  <2>11. wr' \in [Write -> ClientWrites]
    BY <1>t, <1>14 DEF Crash, ClientWrites, Steps
  <2>12. serving' \in SUBSET Servings
    BY <1>t, <1>14 DEF Crash
  <2>13. net' \in SUBSET Messages
    BY <1>t, <1>14 DEF Crash
  <2>14. faults' \in Nat
    BY SMT, <1>t, <1>14 DEF Crash, Fault
  <2>15. \A x \in net' : x.kind = "write" => x.write \in Write
    BY <1>t, <1>14 DEF Crash
  <2> QED
    BY <1>t, <2>1, <2>2, <2>3, <2>4, <2>5, <2>6, <2>7, <2>8, <2>9, <2>10, <2>11, <2>12, <2>13, <2>14, <2>15 DEF TypeOK
<1>15. ASSUME NEW n \in Node, Restart(n) PROVE TypeOK'
  <2>1. UNCHANGED <<marker, role, promoted, catchUp, owed, connected, challenge, handoff, net, calls, wr, serving, store, contested, lone, faults>>
    BY <1>15 DEF Restart, control, messages, data
  <2>2. up' \in [Node -> BOOLEAN]
    BY <1>t, <1>15 DEF Restart, Set
  <2>3. path' \in [Node -> Paths]
    BY <1>t, <1>15 DEF Restart, Set, Paths
  <2> QED
    BY <1>t, <2>1, <2>2, <2>3 DEF TypeOK
<1>16. ASSUME NEW w \in Write, Admit(w) PROVE TypeOK'
  <2>1. UNCHANGED <<up, marker, path, role, promoted, catchUp, owed, connected, challenge, handoff, serving, store, contested, lone, faults>>
    BY <1>16 DEF Admit, control, messages, data
  <2>2. wr' \in [Write -> ClientWrites]
    <3>1. \/ Update(w, "forwarding", wr[w].at, calls + 1) \/ Update(w, "failed", wr[w].at, 0)
          \/ Update(w, "applying", wr[w].at, 0)
      BY <1>16 DEF Admit
    <3>2. {"forwarding", "failed", "applying"} \subseteq Steps /\ wr[w].at \in Node /\ 0 \in Nat /\ calls + 1 \in Nat
      BY SMT, <1>t DEF ClientWrites, Steps
    <3> QED
      BY <1>t, <3>1, <3>2, UpdateType
  <2>3. net' \in SUBSET Messages /\ calls' \in Nat
    <3> DEFINE forward == Message("write", calls + 1, Peer(wr[w].at), 0, 0, w)
    <3>1. forward \in Messages
      <4>1. calls + 1 \in Nat /\ Peer(wr[w].at) \in Node /\ 0 \in Nat /\ w \in Write \cup {NoWrite}
        BY SMT, PeerFacts, <1>t, <1>16 DEF ClientWrites
      <4>2. {"prepare", "ready", "grant", "accepted", "write", "ack"} = Kinds
        BY DEF Kinds
      <4> QED
        BY <4>1, <4>2, MessageType
    <3>2. UNCHANGED <<net, calls>> \/ Request(forward, {})
      BY <1>16 DEF Admit, messages
    <3> HIDE DEF forward
    <3> QED
      BY <1>t, <3>1, <3>2, RequestType, ReplyType
  <2>4. \A x \in net' : x.kind = "write" => x.write \in Write
    BY SMT, <1>t, <1>16 DEF Admit, messages, Request, Reply, Message
  <2> QED
    BY <1>t, <2>1, <2>2, <2>3, <2>4 DEF TypeOK
<1>17. ASSUME NEW w \in Write, ApplyLocally(w) PROVE TypeOK'
  <2>1. UNCHANGED <<up, marker, path, role, promoted, catchUp, owed, connected, challenge, handoff, serving, contested, lone, faults>>
    BY <1>17 DEF ApplyLocally, control, messages, data
  <2>2. wr' \in [Write -> ClientWrites]
    <3>1. \/ Update(w, "replicating", wr[w].at, calls + 1) \/ Update(w, "acked", wr[w].at, 0)
      BY <1>17 DEF ApplyLocally
    <3>2. {"replicating", "acked"} \subseteq Steps /\ wr[w].at \in Node /\ 0 \in Nat /\ calls + 1 \in Nat
      BY SMT, <1>t DEF ClientWrites, Steps
    <3> QED
      BY <1>t, <3>1, <3>2, UpdateType
  <2>3. net' \in SUBSET Messages /\ calls' \in Nat
    <3> DEFINE forward == Message("write", calls + 1, Peer(wr[w].at), 0, 0, w)
    <3>1. forward \in Messages
      <4>1. calls + 1 \in Nat /\ Peer(wr[w].at) \in Node /\ 0 \in Nat /\ w \in Write \cup {NoWrite}
        BY SMT, PeerFacts, <1>t, <1>17 DEF ClientWrites
      <4>2. {"prepare", "ready", "grant", "accepted", "write", "ack"} = Kinds
        BY DEF Kinds
      <4> QED
        BY <4>1, <4>2, MessageType
    <3>2. UNCHANGED <<net, calls>> \/ Request(forward, {})
      BY <1>17 DEF ApplyLocally, messages
    <3> HIDE DEF forward
    <3> QED
      BY <1>t, <3>1, <3>2, RequestType, ReplyType
  <2>4. store' \in [Node -> SUBSET Write]
    <3>1. wr[w].at \in Node /\ store' = Set(store, wr[w].at, store[wr[w].at] \cup {w})
      BY <1>t, <1>17 DEF ApplyLocally, ClientWrites
    <3> QED
      BY <1>t, <3>1 DEF Set
  <2>5. \A x \in net' : x.kind = "write" => x.write \in Write
    BY SMT, <1>t, <1>17 DEF ApplyLocally, messages, Request, Reply, Message
  <2> QED
    BY <1>t, <2>1, <2>2, <2>3, <2>4, <2>5 DEF TypeOK
<1>18. ASSUME NEW w \in Write, Answered(w) PROVE TypeOK'
  <2>1. UNCHANGED <<up, marker, path, role, promoted, catchUp, owed, connected, challenge, handoff, calls, serving, store, contested, lone>>
    BY <1>18 DEF Answered, control, messages, data
  <2>2. wr' \in [Write -> ClientWrites]
    <3>1. \/ Update(w, "acked", wr[w].at, 0)
          \/ Update(w, IF wr[w].step = "replicating" /\ Required(w) = 1 THEN "acked" ELSE "failed", wr[w].at, 0)
      BY <1>18 DEF Answered
    <3>2. {"acked", "failed"} \subseteq Steps /\ wr[w].at \in Node /\ 0 \in Nat /\ calls + 1 \in Nat
      BY SMT, <1>t DEF ClientWrites, Steps
    <3> QED
      BY <1>t, <3>1, <3>2, UpdateType
  <2>3. net' \in SUBSET Messages
    BY <1>t, <1>18 DEF Answered, TimedOut
  <2>4. faults' \in Nat
    BY SMT, <1>t, <1>18 DEF Answered, TimedOut, Fault
  <2>5. \A x \in net' : x.kind = "write" => x.write \in Write
    <3>1. net' \subseteq net
      BY <1>18 DEF Answered, TimedOut
    <3> QED
      BY <1>t, <3>1
  <2> QED
    BY <1>t, <2>1, <2>2, <2>3, <2>4, <2>5 DEF TypeOK
<1>19. ASSUME NEW w \in Write, NEW n \in Node, Submit(w, n) PROVE TypeOK'
  <2>1. UNCHANGED <<up, marker, path, role, promoted, catchUp, owed, connected, challenge, handoff, net, calls, serving, contested, lone, faults>>
    BY <1>19 DEF Submit, control, messages, data
  <2>2. wr' \in [Write -> ClientWrites]
    <3>1. Update(w, "admitting", n, 0) \/ Update(w, "direct", n, 0)
      BY <1>19 DEF Submit
    <3>2. {"admitting", "direct"} \subseteq Steps /\ n \in Node
      BY DEF Steps, Node
    <3> QED
      BY <1>t, <3>1, <3>2, UpdateType
  <2>3. store' \in [Node -> SUBSET Write]
    BY SMT, <1>t, <1>19 DEF Submit, Set
  <2> QED
    BY <1>t, <2>1, <2>2, <2>3 DEF TypeOK
<1>20. CASE Lose
  <2>1. UNCHANGED <<up, marker, path, role, promoted, catchUp, owed, connected, challenge, handoff, calls, wr, serving, store, contested, lone>>
    BY <1>20 DEF Lose, control, messages, data
  <2>2. net' \in SUBSET Messages
    BY <1>t, <1>20 DEF Lose
  <2>3. faults' \in Nat
    BY SMT, <1>t, <1>20 DEF Lose, Fault
  <2>4. \A x \in net' : x.kind = "write" => x.write \in Write
    BY <1>t, <1>20 DEF Lose
  <2> QED
    BY <1>t, <2>1, <2>2, <2>3, <2>4 DEF TypeOK
<1>21. CASE UNCHANGED vars
  BY <1>t, <1>21 DEF vars, control, messages, data, TypeOK
<1>22. ASSUME NEW w \in Write, ApplyFails(w) PROVE TypeOK'
  <2>1. UNCHANGED <<up, marker, path, role, promoted, catchUp, owed, connected, challenge, handoff, net, calls, serving, contested, lone>>
    BY <1>22 DEF ApplyFails, control, messages, data
  <2>2. wr' \in [Write -> ClientWrites]
    <3>1. Update(w, "failed", wr[w].at, 0) /\ "failed" \in Steps /\ wr[w].at \in Node /\ 0 \in Nat
      BY SMT, <1>t, <1>22 DEF ApplyFails, ClientWrites, Steps
    <3> QED
      BY <1>t, <3>1, UpdateType
  <2>3. store' \in [Node -> SUBSET Write]
    <3>1. wr[w].at \in Node /\ (store' = store \/ store' = Set(store, wr[w].at, store[wr[w].at] \cup {w}))
      BY <1>t, <1>22 DEF ApplyFails, ClientWrites
    <3>2. store \in [Node -> SUBSET Write] /\ store[wr[w].at] \cup {w} \in SUBSET Write
      BY <1>t, <3>1
    <3>3. Set(store, wr[w].at, store[wr[w].at] \cup {w}) \in [Node -> SUBSET Write]
      BY <3>1, <3>2, WritesType
    <3> QED
      BY Zenon, <3>1, <3>2, <3>3
  <2>4. faults' \in Nat
    BY SMT, <1>t, <1>22 DEF ApplyFails, Fault
  <2> QED
    BY <1>t, <2>1, <2>2, <2>3, <2>4 DEF TypeOK
<1>23. ASSUME NEW n \in Node, NEW m \in net, HandleWriteFails(n, m) PROVE TypeOK'
  <2>1. UNCHANGED <<up, marker, path, role, promoted, catchUp, owed, connected, challenge, handoff, calls, wr, serving, contested, lone>>
    BY <1>23 DEF HandleWriteFails, control, messages, data
  <2>2. net' \in SUBSET Messages /\ \A x \in net' : x.kind = "write" => x.write \in Write
    BY <1>t, <1>23 DEF HandleWriteFails
  <2>3. store' \in [Node -> SUBSET Write]
    <3>1. m.write \in Write /\ (store' = store \/ store' = Set(store, n, store[n] \cup {m.write}))
      BY <1>t, <1>23 DEF HandleWriteFails
    <3>2. store \in [Node -> SUBSET Write] /\ store[n] \cup {m.write} \in SUBSET Write
      BY <1>t, <3>1
    <3>3. Set(store, n, store[n] \cup {m.write}) \in [Node -> SUBSET Write]
      BY <3>1, <3>2, WritesType
    <3> QED
      BY Zenon, <3>1, <3>2, <3>3
  <2>4. faults' \in Nat
    BY SMT, <1>t, <1>23 DEF HandleWriteFails, Fault
  <2> QED
    BY <1>t, <2>1, <2>2, <2>3, <2>4 DEF TypeOK
<1> QED
  BY <1>1, <1>2, <1>3, <1>4, <1>5, <1>6, <1>7, <1>8, <1>9, <1>10, <1>11, <1>12, <1>13, <1>14, <1>15, <1>16, <1>17, <1>18, <1>19, <1>20, <1>21, <1>22, <1>23
     DEF Next, Progress, Environment

\* Every value a step of the pair stores, sends or answers is of its type: in
\* particular a record written by authority::store names a node and has a
\* generation, and a forwarded write that is served names a client's write.
THEOREM PairTypeHolds == Spec => []TypeOK
<1>1. Init => TypeOK
  BY TypeInit
<1>2. TypeOK /\ [Next]_vars => TypeOK'
  BY TypeStep
<1> QED
  BY <1>1, <1>2, PTL DEF Spec


\* A node that is down or restarted holds no authority, and no handoff is on
\* its way without a pair context.
ModesAt(n) ==
    /\ ~up[n] => role[n] = "secondary" /\ ~Context(n)
    /\ marker[n].primary # 0 /\ ~Context(n) => ~promoted[n]
    /\ handoff[n].step # "idle" => Context(n)
Modes == \A n \in Node : ModesAt(n)

\* A handoff holds the gate alone, and only a primary has its own writes under way.
Gates == \A n \in Node, w \in Write : HoldsGate(n) /\ Admitted(w) => wr[w].at # n
WriterAt(w) ==
    /\ Admitted(w) \/ wr[w].step = "admitting" => Context(wr[w].at)
    /\ wr[w].step \in {"applying", "replicating"} => role[wr[w].at] = "primary"
Writers == \A w \in Write : WriterAt(w)

\* A grant in flight is no newer than its sender's record; when it is newer than
\* the receiver's, the sender has withdrawn.
GrantAt(m) ==
    /\ up[m.to]
    /\ m.kind = "grant" =>
        /\ marker[Peer(m.to)].primary # 0
        /\ m.generation <= marker[Peer(m.to)].generation
        /\ m.generation > marker[m.to].generation => role[Peer(m.to)] = "secondary"
Grants == \A m \in net : GrantAt(m)

AuthorityInv == TypeOK /\ Modes /\ Gates /\ Writers /\ Grants /\ PrimaryIsRecorded /\ OnePrimary

LEMMA AuthorityInit == Init => AuthorityInv
<1> SUFFICES ASSUME Init PROVE AuthorityInv
  OBVIOUS
<1>1. TypeOK
  BY TypeInit
<1>2. \A w \in Write : wr[w].step \in {"new", "none"}
  BY SMT DEF Init, NewWrite, NoClient
<1>3. Modes /\ Gates /\ Writers
  BY <1>2 DEF Init, Modes, ModesAt, Context, Gates, Writers, WriterAt, HoldsGate, Admitted, Idle, NoMarker
<1>4. \A n \in Node : role[n] = "secondary"
  BY DEF Init
<1>5. Grants /\ PrimaryIsRecorded /\ OnePrimary
  BY <1>4 DEF Init, Grants, PrimaryIsRecorded, OnePrimary, Node
<1> QED
  BY <1>1, <1>3, <1>5 DEF AuthorityInv

LEMMA GrantsKept ==
    ASSUME Grants, UNCHANGED <<up, marker, role>>,
           \A x \in net' : x \in net \/ (x.kind # "grant" /\ up[x.to])
    PROVE  Grants'
BY DEF Grants, GrantAt

LEMMA MarkerFactsAfter == TypeOK' => \A n \in Node : marker'[n].generation \in Nat
BY SMT DEF TypeOK, NoMarker, Markers

\* Records only grow.
MarkersGrow ==
    \A x \in Node : /\ marker'[x].generation \in Nat /\ marker[x].generation <= marker'[x].generation
                    /\ marker[x].primary # 0 => marker'[x].primary # 0

LEMMA StoredGrows ==
    ASSUME marker \in [Node -> Markers], \A x \in Node : marker[x].generation \in Nat,
           NEW n \in Node, NEW p \in Node, NEW g \in Nat, g >= marker[n].generation,
           UNCHANGED marker \/ Stored(n, p, g)
    PROVE  MarkersGrow
<1>1. CASE UNCHANGED marker
  BY SMT, <1>1 DEF MarkersGrow
<1>2. CASE Stored(n, p, g)
  <2>1. /\ marker'[n].generation = g /\ marker'[n].primary = p /\ p # 0
        /\ \A x \in Node : x # n => marker'[x] = marker[x]
    BY SMT, <1>2 DEF Stored, Set, Node
  <2> QED
    BY SMT, <2>1 DEF MarkersGrow
<1> QED
  BY <1>1, <1>2

\* An old grant stays harmless while records grow, unless its sender becomes
\* primary before its receiver's record has passed it.
LEMMA GrantMoves ==
    ASSUME NEW m, m.to \in Node, m.generation \in Nat, GrantAt(m), UNCHANGED up, MarkersGrow,
           \A x \in Node : marker[x].generation \in Nat,
           role \in [Node -> Roles], role' \in [Node -> Roles],
           m.kind = "grant" /\ role'[Peer(m.to)] = "primary" /\ role[Peer(m.to)] = "secondary"
              => m.generation <= marker'[m.to].generation
    PROVE  GrantAt(m)'
<1>1. Peer(m.to) \in Node
  BY PeerFacts
<1>2. role[Peer(m.to)] \in Roles /\ role'[Peer(m.to)] \in Roles
  BY <1>1
<1> QED
  BY SMT, <1>1, <1>2 DEF GrantAt, MarkersGrow, Roles

LEMMA GrantsMove ==
    ASSUME Grants, UNCHANGED up, MarkersGrow,
           \A x \in net : x.to \in Node /\ x.generation \in Nat,
           \A x \in Node : marker[x].generation \in Nat,
           role \in [Node -> Roles], role' \in [Node -> Roles],
           \A x \in net' : x \in net \/ (x.kind # "grant" /\ up[x.to]),
           \A x \in Node : role'[x] = "primary" /\ role[x] = "secondary" =>
              \A m \in net : m.kind = "grant" /\ Peer(m.to) = x => m.generation <= marker'[m.to].generation
    PROVE  Grants'
<1> SUFFICES ASSUME NEW m \in net' PROVE GrantAt(m)'
  BY DEF Grants
<1>1. CASE m \in net
  BY <1>1, GrantMoves, PeerFacts DEF Grants
<1>2. CASE m.kind # "grant" /\ up[m.to]
  BY <1>2 DEF GrantAt
<1> QED
  BY <1>1, <1>2

LEMMA ModesStep == AuthorityInv /\ [Next]_vars => Modes'
<1> SUFFICES ASSUME AuthorityInv, [Next]_vars PROVE Modes'
  OBVIOUS
<1>t. /\ Modes /\ up \in [Node -> BOOLEAN] /\ role \in [Node -> Roles] /\ path \in [Node -> Paths]
      /\ promoted \in [Node -> BOOLEAN] /\ marker \in [Node -> Markers] /\ handoff \in [Node -> Handoffs]
  BY MarkerFacts, MessageFacts DEF AuthorityInv, TypeOK, ClientWrites
<1>1. ASSUME NEW n \in Node, Connect(n) PROVE Modes'
  <2> SUFFICES ASSUME NEW x \in Node PROVE ModesAt(x)'
    BY DEF Modes
  <2>m. ModesAt(x)
    BY <1>t DEF Modes
  <2>1. CASE x # n
    <3>1. /\ up'[x] = up[x] /\ role'[x] = role[x] /\ path'[x] = path[x] /\ promoted'[x] = promoted[x]
          /\ marker'[x] = marker[x] /\ handoff'[x] = handoff[x]
      BY <1>t, <1>1, <2>1 DEF Connect, Set, control, Installed, Stored, NotStored
    <3> QED
      BY <2>m, <3>1 DEF ModesAt, Context
  <2>2. CASE x = n
    <3>1. up'[n] /\ handoff'[n] = handoff[n]
      BY <1>t, <1>1 DEF Connect
    <3>2. CASE Context(n)
      <4>1. path'[n] = path[n] /\ promoted'[n] = promoted[n] /\ marker'[n] = marker[n]
        BY <1>1, <3>2 DEF Connect
      <4> QED
        BY <2>m, <2>2, <3>1, <4>1 DEF ModesAt, Context
    <3>3. CASE ~Context(n)
      <4>1. promoted'[n] = FALSE
        BY <1>t, <1>1, <3>3 DEF Connect, Set
      <4> QED
        BY <2>m, <2>2, <3>1, <3>3, <4>1 DEF ModesAt
    <3> QED
      BY <3>2, <3>3
  <2> QED
    BY <2>1, <2>2
<1>2. ASSUME NEW n \in Node, Disconnect(n) PROVE Modes'
  BY <1>t, <1>2 DEF Disconnect, Modes, ModesAt, Context, control, messages, data, Set
<1>3. ASSUME NEW n \in Node, ReplayLog(n) PROVE Modes'
  <2>1. UNCHANGED <<up, role, path, promoted, marker, handoff>>
    BY <1>3 DEF ReplayLog, control, messages, data
  <2> QED
    BY <1>t, <2>1 DEF Modes, ModesAt, Context
<1>4. ASSUME NEW n \in Node, PromotePair(n) PROVE Modes'
  <2> SUFFICES ASSUME NEW x \in Node PROVE ModesAt(x)'
    BY DEF Modes
  <2>m. ModesAt(x)
    BY <1>t DEF Modes
  <2>1. CASE x # n
    <3>1. /\ up'[x] = up[x] /\ role'[x] = role[x] /\ path'[x] = path[x] /\ promoted'[x] = promoted[x]
          /\ marker'[x] = marker[x] /\ handoff'[x] = handoff[x]
      BY <1>t, <1>4, <2>1 DEF PromotePair, Set, control, Stored, NotStored
    <3> QED
      BY <2>m, <3>1 DEF ModesAt, Context
  <2>2. CASE x = n
    <3>1. up'[n] /\ handoff'[n] = handoff[n]
      BY <1>t, <1>4 DEF PromotePair, OperatorPromotes
    <3>2. path'[n] \in {"pair", path[n]}
      BY <1>t, <1>4 DEF PromotePair, Set
    <3>3. Context(n) \/ path'[n] = "pair"
      BY <1>t, <1>4 DEF PromotePair, Set
    <3> QED
      BY <2>2, <3>1, <3>2, <3>3 DEF ModesAt, Context
  <2> QED
    BY <2>1, <2>2
<1>5. ASSUME NEW n \in Node, PromoteStandalone(n) PROVE Modes'
  <2> SUFFICES ASSUME NEW x \in Node PROVE ModesAt(x)'
    BY DEF Modes
  <2>m. ModesAt(x)
    BY <1>t DEF Modes
  <2>1. CASE x # n
    <3>1. /\ up'[x] = up[x] /\ role'[x] = role[x] /\ path'[x] = path[x] /\ promoted'[x] = promoted[x]
          /\ marker'[x] = marker[x] /\ handoff'[x] = handoff[x]
      BY <1>t, <1>5, <2>1 DEF PromoteStandalone, Set, control
    <3> QED
      BY <2>m, <3>1 DEF ModesAt, Context
  <2>2. CASE x = n
    <3>1. up'[n] /\ handoff'[n] = handoff[n] /\ marker'[n] = marker[n] /\ marker[n].primary = 0 /\ ~Context(n)
      BY <1>t, <1>5 DEF PromoteStandalone, OperatorPromotes, Known, control
    <3> QED
      BY <2>m, <2>2, <3>1 DEF ModesAt
  <2> QED
    BY <2>1, <2>2
<1>6. ASSUME NEW n \in Node, Switchover(n) PROVE Modes'
  BY <1>t, <1>6 DEF Switchover, Modes, ModesAt, Context, control, messages, data, Set
<1>7. ASSUME NEW n \in Node, Prepare(n) PROVE Modes'
  BY <1>t, <1>7 DEF Prepare, Modes, ModesAt, Context, control, messages, data, Set
<1>8. ASSUME NEW n \in Node, NEW m \in net, Withdraw(n, m) PROVE Modes'
  <2> SUFFICES ASSUME NEW x \in Node PROVE ModesAt(x)'
    BY DEF Modes
  <2>m. ModesAt(x)
    BY <1>t DEF Modes
  <2>1. CASE x # n
    <3>1. /\ up'[x] = up[x] /\ role'[x] = role[x] /\ path'[x] = path[x] /\ promoted'[x] = promoted[x]
          /\ marker'[x] = marker[x] /\ handoff'[x] = handoff[x]
      BY <1>t, <1>8, <2>1 DEF Withdraw, Set, control, Stored, NotStored
    <3> QED
      BY <2>m, <3>1 DEF ModesAt, Context
  <2>2. CASE x = n
    <3>1. up'[n] = up[n] /\ path'[n] = path[n] /\ up[n] /\ handoff[n].step = "prepare"
      BY <1>8 DEF Withdraw
    <3> QED
      BY <2>m, <2>2, <3>1 DEF ModesAt, Context
  <2> QED
    BY <2>1, <2>2
<1>9. ASSUME NEW n \in Node, HandoffEnds(n) PROVE Modes'
  <2> SUFFICES ASSUME NEW x \in Node PROVE ModesAt(x)'
    BY DEF Modes
  <2>m. ModesAt(x)
    BY <1>t DEF Modes
  <2>1. CASE x # n
    <3>1. /\ up'[x] = up[x] /\ role'[x] = role[x] /\ path'[x] = path[x] /\ promoted'[x] = promoted[x]
          /\ marker'[x] = marker[x] /\ handoff'[x] = handoff[x]
      BY <1>t, <1>9, <2>1 DEF HandoffEnds, Set, control
    <3> QED
      BY <2>m, <3>1 DEF ModesAt, Context
  <2>2. CASE x = n
    <3>1. up'[n] /\ path'[n] = path[n] /\ handoff[n].step # "idle"
      BY <1>t, <1>9 DEF HandoffEnds, HoldsGate, control
    <3> QED
      BY <2>m, <2>2, <3>1 DEF ModesAt, Context
  <2> QED
    BY <2>1, <2>2
<1>10. ASSUME NEW n \in Node, NEW m \in net, HandlePrepare(n, m) PROVE Modes'
  <2>1. UNCHANGED <<up, role, path, promoted, marker, handoff>>
    BY <1>10 DEF HandlePrepare, control, messages, data
  <2> QED
    BY <1>t, <2>1 DEF Modes, ModesAt, Context
<1>11. ASSUME NEW n \in Node, NEW m \in net, HandleGrant(n, m) PROVE Modes'
  <2> SUFFICES ASSUME NEW x \in Node PROVE ModesAt(x)'
    BY DEF Modes
  <2>m. ModesAt(x)
    BY <1>t DEF Modes
  <2>1. CASE x # n
    <3>1. /\ up'[x] = up[x] /\ role'[x] = role[x] /\ path'[x] = path[x] /\ promoted'[x] = promoted[x]
          /\ marker'[x] = marker[x] /\ handoff'[x] = handoff[x]
      BY <1>t, <1>11, <2>1 DEF HandleGrant, Set, control, Stored, NotStored
    <3> QED
      BY <2>m, <3>1 DEF ModesAt, Context
  <2>2. CASE x = n
    <3>1. up'[n] /\ path'[n] = path[n] /\ Context(n)
      BY <1>11 DEF HandleGrant, Handles
    <3> QED
      BY <2>2, <3>1 DEF ModesAt, Context
  <2> QED
    BY <2>1, <2>2
<1>12. ASSUME NEW n \in Node, NEW m \in net, HandleWrite(n, m) PROVE Modes'
  <2>1. UNCHANGED <<up, role, path, promoted, marker, handoff>>
    BY <1>12 DEF HandleWrite, control, messages, data
  <2> QED
    BY <1>t, <2>1 DEF Modes, ModesAt, Context
<1>13. ASSUME NEW n \in Node, ServeEnds(n) PROVE Modes'
  <2>1. UNCHANGED <<up, role, path, promoted, marker, handoff>>
    BY <1>13 DEF ServeEnds, control, messages, data
  <2> QED
    BY <1>t, <2>1 DEF Modes, ModesAt, Context
<1>14. ASSUME NEW n \in Node, Crash(n) PROVE Modes'
  <2> SUFFICES ASSUME NEW x \in Node PROVE ModesAt(x)'
    BY DEF Modes
  <2>m. ModesAt(x)
    BY <1>t DEF Modes
  <2>1. CASE x # n
    <3>1. /\ up'[x] = up[x] /\ role'[x] = role[x] /\ path'[x] = path[x] /\ promoted'[x] = promoted[x]
          /\ marker'[x] = marker[x] /\ handoff'[x] = handoff[x]
      BY <1>t, <1>14, <2>1 DEF Crash, Set, control
    <3> QED
      BY <2>m, <3>1 DEF ModesAt, Context
  <2>2. CASE x = n
    <3>1. role'[n] = "secondary" /\ path'[n] = "unavailable" /\ promoted'[n] = FALSE /\ handoff'[n] = Idle
      BY <1>t, <1>14 DEF Crash, Set
    <3> QED
      BY SMT, <2>2, <3>1 DEF ModesAt, Context, Idle
  <2> QED
    BY <2>1, <2>2
<1>15. ASSUME NEW n \in Node, Restart(n) PROVE Modes'
  <2> SUFFICES ASSUME NEW x \in Node PROVE ModesAt(x)'
    BY DEF Modes
  <2>m. ModesAt(x)
    BY <1>t DEF Modes
  <2>1. CASE x # n
    <3>1. /\ up'[x] = up[x] /\ role'[x] = role[x] /\ path'[x] = path[x] /\ promoted'[x] = promoted[x]
          /\ marker'[x] = marker[x] /\ handoff'[x] = handoff[x]
      BY <1>t, <1>15, <2>1 DEF Restart, Set, control
    <3> QED
      BY <2>m, <3>1 DEF ModesAt, Context
  <2>2. CASE x = n
    <3>1. up'[n] /\ path'[n] \in {"direct", "unavailable"} /\ ~Context(n)
      BY <1>t, <1>15, <2>m, <2>2 DEF Restart, Set, ModesAt
    <3>2. handoff'[n] = handoff[n] /\ marker'[n] = marker[n] /\ promoted'[n] = promoted[n]
      BY <1>15 DEF Restart
    <3> QED
      BY <2>m, <2>2, <3>1, <3>2 DEF ModesAt, Context
  <2> QED
    BY <2>1, <2>2
<1>16. ASSUME NEW w \in Write, Admit(w) PROVE Modes'
  <2>1. UNCHANGED <<up, role, path, promoted, marker, handoff>>
    BY <1>16 DEF Admit, control, messages, data
  <2> QED
    BY <1>t, <2>1 DEF Modes, ModesAt, Context
<1>17. ASSUME NEW w \in Write, ApplyLocally(w) PROVE Modes'
  <2>1. UNCHANGED <<up, role, path, promoted, marker, handoff>>
    BY <1>17 DEF ApplyLocally, control, messages, data
  <2> QED
    BY <1>t, <2>1 DEF Modes, ModesAt, Context
<1>18. ASSUME NEW w \in Write, Answered(w) PROVE Modes'
  <2>1. UNCHANGED <<up, role, path, promoted, marker, handoff>>
    BY <1>18 DEF Answered, control, messages, data
  <2> QED
    BY <1>t, <2>1 DEF Modes, ModesAt, Context
<1>19. ASSUME NEW w \in Write, NEW n \in Node, Submit(w, n) PROVE Modes'
  <2>1. UNCHANGED <<up, role, path, promoted, marker, handoff>>
    BY <1>19 DEF Submit, control, messages, data
  <2> QED
    BY <1>t, <2>1 DEF Modes, ModesAt, Context
<1>20. CASE Lose
  <2>1. UNCHANGED <<up, role, path, promoted, marker, handoff>>
    BY <1>20 DEF Lose, control, messages, data
  <2> QED
    BY <1>t, <2>1 DEF Modes, ModesAt, Context
<1>21. CASE UNCHANGED vars
  <2>1. UNCHANGED <<up, role, path, promoted, marker, handoff>>
    BY <1>21 DEF vars, control, messages, data
  <2> QED
    BY <1>t, <2>1 DEF Modes, ModesAt, Context
<1>22. ASSUME NEW w \in Write, ApplyFails(w) PROVE Modes'
  <2>1. UNCHANGED <<up, role, path, promoted, marker, handoff>>
    BY <1>22 DEF ApplyFails, control, messages, data
  <2> QED
    BY <1>t, <2>1 DEF Modes, ModesAt, Context
<1>23. ASSUME NEW n \in Node, NEW m \in net, HandleWriteFails(n, m) PROVE Modes'
  <2>1. UNCHANGED <<up, role, path, promoted, marker, handoff>>
    BY <1>23 DEF HandleWriteFails, control, messages, data
  <2> QED
    BY <1>t, <2>1 DEF Modes, ModesAt, Context
<1> QED
  BY <1>1, <1>2, <1>3, <1>4, <1>5, <1>6, <1>7, <1>8, <1>9, <1>10, <1>11, <1>12, <1>13, <1>14, <1>15, <1>16, <1>17, <1>18, <1>19, <1>20, <1>21, <1>22, <1>23
     DEF Next, Progress, Environment

LEMMA GatesStep == AuthorityInv /\ [Next]_vars => Gates'
<1> SUFFICES ASSUME AuthorityInv, [Next]_vars PROVE Gates'
  OBVIOUS
<1>t. /\ Gates /\ wr \in [Write -> ClientWrites] /\ handoff \in [Node -> Handoffs]
  BY MarkerFacts, MessageFacts DEF AuthorityInv, TypeOK, ClientWrites
<1>1. ASSUME NEW n \in Node, Connect(n) PROVE Gates'
  <2>1. UNCHANGED <<wr, handoff>>
    BY <1>1 DEF Connect, control, messages, data
  <2> QED
    BY <1>t, <2>1 DEF Gates, HoldsGate, Admitted
<1>2. ASSUME NEW n \in Node, Disconnect(n) PROVE Gates'
  <2>1. UNCHANGED <<wr, handoff>>
    BY <1>2 DEF Disconnect, control, messages, data
  <2> QED
    BY <1>t, <2>1 DEF Gates, HoldsGate, Admitted
<1>3. ASSUME NEW n \in Node, ReplayLog(n) PROVE Gates'
  <2>1. UNCHANGED <<wr, handoff>>
    BY <1>3 DEF ReplayLog, control, messages, data
  <2> QED
    BY <1>t, <2>1 DEF Gates, HoldsGate, Admitted
<1>4. ASSUME NEW n \in Node, PromotePair(n) PROVE Gates'
  <2>1. UNCHANGED <<wr, handoff>>
    BY <1>4 DEF PromotePair, control, messages, data
  <2> QED
    BY <1>t, <2>1 DEF Gates, HoldsGate, Admitted
<1>5. ASSUME NEW n \in Node, PromoteStandalone(n) PROVE Gates'
  <2>1. UNCHANGED <<wr, handoff>>
    BY <1>5 DEF PromoteStandalone, control, messages, data
  <2> QED
    BY <1>t, <2>1 DEF Gates, HoldsGate, Admitted
<1>6. ASSUME NEW n \in Node, Switchover(n) PROVE Gates'
  <2> SUFFICES ASSUME NEW x \in Node, NEW y \in Write, HoldsGate(x)', Admitted(y)' PROVE wr'[y].at # x
    BY DEF Gates
  <2>1. wr'[y] = wr[y]
    BY <1>6 DEF Switchover, data
  <2>2. CASE x # n
    <3>1. handoff'[x] = handoff[x]
      BY <1>t, <1>6, <2>2 DEF Switchover, Set
    <3> QED
      BY <1>t, <2>1, <3>1 DEF Gates, HoldsGate, Admitted
  <2>3. CASE x = n
    <3>1. handoff'[n].step \in {"idle", "queued"}
      BY <1>t, <1>6 DEF Switchover, Set, Idle
    <3> QED
      BY <2>3, <3>1 DEF HoldsGate
  <2> QED
    BY <2>2, <2>3
<1>7. ASSUME NEW n \in Node, Prepare(n) PROVE Gates'
  <2> SUFFICES ASSUME NEW x \in Node, NEW y \in Write, HoldsGate(x)', Admitted(y)' PROVE wr'[y].at # x
    BY DEF Gates
  <2>1. wr'[y] = wr[y]
    BY <1>7 DEF Prepare, data
  <2>2. CASE x # n
    <3>1. handoff'[x] = handoff[x]
      BY <1>t, <1>7, <2>2 DEF Prepare, Set
    <3> QED
      BY <1>t, <2>1, <3>1 DEF Gates, HoldsGate, Admitted
  <2>3. CASE x = n
    <3>1. Drained(n)
      BY <1>7 DEF Prepare, GateFree
    <3> QED
      BY <2>1, <2>3, <3>1 DEF Drained, Admitted
  <2> QED
    BY <2>2, <2>3
<1>8. ASSUME NEW n \in Node, NEW m \in net, Withdraw(n, m) PROVE Gates'
  <2> SUFFICES ASSUME NEW x \in Node, NEW y \in Write, HoldsGate(x)', Admitted(y)' PROVE wr'[y].at # x
    BY DEF Gates
  <2>1. wr'[y] = wr[y]
    BY <1>8 DEF Withdraw, data
  <2>2. CASE x # n
    <3>1. handoff'[x] = handoff[x]
      BY <1>t, <1>8, <2>2 DEF Withdraw, Set
    <3> QED
      BY <1>t, <2>1, <3>1 DEF Gates, HoldsGate, Admitted
  <2>3. CASE x = n
    <3>1. HoldsGate(n)
      BY <1>8 DEF Withdraw, HoldsGate
    <3> QED
      BY <1>t, <2>1, <2>3, <3>1 DEF Gates, Admitted
  <2> QED
    BY <2>2, <2>3
<1>9. ASSUME NEW n \in Node, HandoffEnds(n) PROVE Gates'
  <2> SUFFICES ASSUME NEW x \in Node, NEW y \in Write, HoldsGate(x)', Admitted(y)' PROVE wr'[y].at # x
    BY DEF Gates
  <2>1. wr'[y] = wr[y]
    BY <1>9 DEF HandoffEnds, data
  <2>2. CASE x # n
    <3>1. handoff'[x] = handoff[x]
      BY <1>t, <1>9, <2>2 DEF HandoffEnds, Set
    <3> QED
      BY <1>t, <2>1, <3>1 DEF Gates, HoldsGate, Admitted
  <2>3. CASE x = n
    <3>1. handoff'[n].step \in {"idle", "queued"}
      BY <1>t, <1>9 DEF HandoffEnds, Set, Idle
    <3> QED
      BY <2>3, <3>1 DEF HoldsGate
  <2> QED
    BY <2>2, <2>3
<1>10. ASSUME NEW n \in Node, NEW m \in net, HandlePrepare(n, m) PROVE Gates'
  <2>1. UNCHANGED <<wr, handoff>>
    BY <1>10 DEF HandlePrepare, control, messages, data
  <2> QED
    BY <1>t, <2>1 DEF Gates, HoldsGate, Admitted
<1>11. ASSUME NEW n \in Node, NEW m \in net, HandleGrant(n, m) PROVE Gates'
  <2>1. UNCHANGED <<wr, handoff>>
    BY <1>11 DEF HandleGrant, control, messages, data
  <2> QED
    BY <1>t, <2>1 DEF Gates, HoldsGate, Admitted
<1>12. ASSUME NEW n \in Node, NEW m \in net, HandleWrite(n, m) PROVE Gates'
  <2>1. UNCHANGED <<wr, handoff>>
    BY <1>12 DEF HandleWrite, control, messages, data
  <2> QED
    BY <1>t, <2>1 DEF Gates, HoldsGate, Admitted
<1>13. ASSUME NEW n \in Node, ServeEnds(n) PROVE Gates'
  <2>1. UNCHANGED <<wr, handoff>>
    BY <1>13 DEF ServeEnds, control, messages, data
  <2> QED
    BY <1>t, <2>1 DEF Gates, HoldsGate, Admitted
<1>14. ASSUME NEW n \in Node, Crash(n) PROVE Gates'
  <2> SUFFICES ASSUME NEW x \in Node, NEW y \in Write, HoldsGate(x)', Admitted(y)' PROVE wr'[y].at # x
    BY DEF Gates
  <2>1. x # n /\ handoff'[x] = handoff[x]
    BY <1>t, <1>14 DEF Crash, Set, HoldsGate, Idle
  <2>2. wr'[y] = wr[y]
    BY <1>t, <1>14 DEF Crash, Admitted
  <2> QED
    BY <1>t, <2>1, <2>2 DEF Gates, HoldsGate, Admitted
<1>15. ASSUME NEW n \in Node, Restart(n) PROVE Gates'
  <2>1. UNCHANGED <<wr, handoff>>
    BY <1>15 DEF Restart, control, messages, data
  <2> QED
    BY <1>t, <2>1 DEF Gates, HoldsGate, Admitted
<1>16. ASSUME NEW w \in Write, Admit(w) PROVE Gates'
  <2> SUFFICES ASSUME NEW x \in Node, NEW y \in Write, HoldsGate(x)', Admitted(y)' PROVE wr'[y].at # x
    BY DEF Gates
  <2>1. handoff'[x] = handoff[x]
    BY <1>16 DEF Admit
  <2>2. CASE y # w
    <3>1. wr'[y] = wr[y]
      BY <1>t, <1>16, <2>2 DEF Admit, Update
    <3> QED
      BY <1>t, <2>1, <3>1 DEF Gates, HoldsGate, Admitted
  <2>3. CASE y = w
    <3>1. wr'[w].at = wr[w].at /\ ~HoldsGate(wr[w].at)
      BY SMT, <1>t, <1>16 DEF Admit, Update
    <3> QED
      BY <2>1, <2>3, <3>1 DEF HoldsGate
  <2> QED
    BY <2>2, <2>3
<1>17. ASSUME NEW w \in Write, ApplyLocally(w) PROVE Gates'
  <2> SUFFICES ASSUME NEW x \in Node, NEW y \in Write, HoldsGate(x)', Admitted(y)' PROVE wr'[y].at # x
    BY DEF Gates
  <2>1. handoff'[x] = handoff[x]
    BY <1>17 DEF ApplyLocally
  <2>2. CASE y # w
    <3>1. wr'[y] = wr[y]
      BY <1>t, <1>17, <2>2 DEF ApplyLocally, Update
    <3> QED
      BY <1>t, <2>1, <3>1 DEF Gates, HoldsGate, Admitted
  <2>3. CASE y = w
    <3>1. wr'[w].at = wr[w].at /\ Admitted(w)
      BY SMT, <1>t, <1>17 DEF ApplyLocally, Update, Admitted
    <3> QED
      BY <1>t, <2>1, <2>3, <3>1 DEF Gates, HoldsGate
  <2> QED
    BY <2>2, <2>3
<1>18. ASSUME NEW w \in Write, Answered(w) PROVE Gates'
  <2> SUFFICES ASSUME NEW x \in Node, NEW y \in Write, HoldsGate(x)', Admitted(y)' PROVE wr'[y].at # x
    BY DEF Gates
  <2>1. handoff'[x] = handoff[x]
    BY <1>18 DEF Answered
  <2>2. CASE y # w
    <3>1. wr'[y] = wr[y]
      BY <1>t, <1>18, <2>2 DEF Answered, Update
    <3> QED
      BY <1>t, <2>1, <3>1 DEF Gates, HoldsGate, Admitted
  <2>3. CASE y = w
    <3>1. wr'[w].step \in {"acked", "failed"}
      <4>1. \/ Update(w, "acked", wr[w].at, 0)
            \/ Update(w, IF wr[w].step = "replicating" /\ Required(w) = 1 THEN "acked" ELSE "failed", wr[w].at, 0)
        BY <1>18 DEF Answered
      <4> QED
        BY SMT, <1>t, <4>1 DEF Update
    <3> QED
      BY <2>3, <3>1 DEF Admitted
  <2> QED
    BY <2>2, <2>3
<1>19. ASSUME NEW w \in Write, NEW n \in Node, Submit(w, n) PROVE Gates'
  <2> SUFFICES ASSUME NEW x \in Node, NEW y \in Write, HoldsGate(x)', Admitted(y)' PROVE wr'[y].at # x
    BY DEF Gates
  <2>1. handoff'[x] = handoff[x]
    BY <1>19 DEF Submit
  <2>2. CASE y # w
    <3>1. wr'[y] = wr[y]
      BY <1>t, <1>19, <2>2 DEF Submit, Update
    <3> QED
      BY <1>t, <2>1, <3>1 DEF Gates, HoldsGate, Admitted
  <2>3. CASE y = w
    <3>1. wr'[w].step \in {"admitting", "direct"}
      BY SMT, <1>t, <1>19 DEF Submit, Update
    <3> QED
      BY <2>3, <3>1 DEF Admitted
  <2> QED
    BY <2>2, <2>3
<1>20. CASE Lose
  <2>1. UNCHANGED <<wr, handoff>>
    BY <1>20 DEF Lose, control, messages, data
  <2> QED
    BY <1>t, <2>1 DEF Gates, HoldsGate, Admitted
<1>21. CASE UNCHANGED vars
  <2>1. UNCHANGED <<wr, handoff>>
    BY <1>21 DEF vars, control, messages, data
  <2> QED
    BY <1>t, <2>1 DEF Gates, HoldsGate, Admitted
<1>22. ASSUME NEW w \in Write, ApplyFails(w) PROVE Gates'
  <2> SUFFICES ASSUME NEW x \in Node, NEW y \in Write, HoldsGate(x)', Admitted(y)' PROVE wr'[y].at # x
    BY DEF Gates
  <2>1. handoff'[x] = handoff[x]
    BY <1>22 DEF ApplyFails
  <2>2. CASE y # w
    <3>1. wr'[y] = wr[y]
      BY <1>t, <1>22, <2>2 DEF ApplyFails, Update
    <3> QED
      BY <1>t, <2>1, <3>1 DEF Gates, HoldsGate, Admitted
  <2>3. CASE y = w
    <3>1. wr'[w].step = "failed"
      BY SMT, <1>t, <1>22 DEF ApplyFails, Update
    <3> QED
      BY <2>3, <3>1 DEF Admitted
  <2> QED
    BY <2>2, <2>3
<1>23. ASSUME NEW n \in Node, NEW m \in net, HandleWriteFails(n, m) PROVE Gates'
  <2>1. UNCHANGED <<wr, handoff>>
    BY <1>23 DEF HandleWriteFails, control, messages, data
  <2> QED
    BY <1>t, <2>1 DEF Gates, HoldsGate, Admitted
<1> QED
  BY <1>1, <1>2, <1>3, <1>4, <1>5, <1>6, <1>7, <1>8, <1>9, <1>10, <1>11, <1>12, <1>13, <1>14, <1>15, <1>16, <1>17, <1>18, <1>19, <1>20, <1>21, <1>22, <1>23
     DEF Next, Progress, Environment

LEMMA WritersStep == AuthorityInv /\ [Next]_vars => Writers'
<1> SUFFICES ASSUME AuthorityInv, [Next]_vars PROVE Writers'
  OBVIOUS
<1>t. /\ Writers /\ Modes /\ Gates /\ wr \in [Write -> ClientWrites] /\ role \in [Node -> Roles] /\ path \in [Node -> Paths]
      /\ \A w \in Write : wr[w].at \in Node
  BY MarkerFacts, MessageFacts DEF AuthorityInv, TypeOK, ClientWrites
<1>1. ASSUME NEW n \in Node, Connect(n) PROVE Writers'
  <2> SUFFICES ASSUME NEW y \in Write PROVE WriterAt(y)'
    BY DEF Writers
  <2>1. wr'[y] = wr[y] /\ WriterAt(y) /\ wr[y].at \in Node
    BY <1>t, <1>1 DEF Connect, data, Writers
  <2>x. ASSUME NEW x \in Node, x # n PROVE path'[x] = path[x] /\ role'[x] = role[x]
    BY <1>t, <1>1, <2>x DEF Connect, Set, control, Installed
  <2>2. CASE wr[y].at # n
    BY <2>1, <2>2, <2>x DEF WriterAt, Admitted, Context
  <2>3. CASE wr[y].at = n
    <3>1. CASE Context(n)
      <4>1. path'[n] = path[n] /\ role'[n] = role[n]
        BY <1>1, <3>1 DEF Connect
      <4> QED
        BY <2>1, <2>3, <4>1 DEF WriterAt, Admitted, Context
    <3>2. CASE ~Context(n)
      BY <2>1, <2>3, <3>2 DEF WriterAt, Admitted
    <3> QED
      BY <3>1, <3>2
  <2> QED
    BY <2>2, <2>3
<1>2. ASSUME NEW n \in Node, Disconnect(n) PROVE Writers'
  <2> SUFFICES ASSUME NEW y \in Write PROVE WriterAt(y)'
    BY DEF Writers
  <2>1. wr'[y] = wr[y] /\ WriterAt(y) /\ wr[y].at \in Node
    BY <1>t, <1>2 DEF Disconnect, data, Writers
  <2>x. ASSUME NEW x \in Node, x # n PROVE path'[x] = path[x] /\ role'[x] = role[x]
    BY <1>t, <1>2, <2>x DEF Disconnect, Set, control
  <2>2. CASE wr[y].at # n
    BY <2>1, <2>2, <2>x DEF WriterAt, Admitted, Context
  <2>3. CASE wr[y].at = n
    <3>1. role'[n] = role[n] /\ (Context(n) => path'[n] \in {"pair", "degraded"})
      BY <1>t, <1>2 DEF Disconnect, Set, Context
    <3> QED
      BY <2>1, <2>3, <3>1 DEF WriterAt, Admitted, Context
  <2> QED
    BY <2>2, <2>3
<1>3. ASSUME NEW n \in Node, ReplayLog(n) PROVE Writers'
  <2>1. UNCHANGED <<role, path, wr>>
    BY <1>3 DEF ReplayLog, control, messages, data
  <2> QED
    BY <1>t, <2>1 DEF Writers, WriterAt, Admitted, Context
<1>4. ASSUME NEW n \in Node, PromotePair(n) PROVE Writers'
  <2> SUFFICES ASSUME NEW y \in Write PROVE WriterAt(y)'
    BY DEF Writers
  <2>1. wr'[y] = wr[y] /\ WriterAt(y) /\ wr[y].at \in Node
    BY <1>t, <1>4 DEF PromotePair, data, Writers
  <2>x. ASSUME NEW x \in Node, x # n PROVE path'[x] = path[x] /\ role'[x] = role[x]
    BY <1>t, <1>4, <2>x DEF PromotePair, Set, control
  <2>2. CASE wr[y].at # n
    BY <2>1, <2>2, <2>x DEF WriterAt, Admitted, Context
  <2>3. CASE wr[y].at = n
    <3>1. CASE Context(n)
      <4>1. path'[n] \in {"pair", path[n]} /\ role'[n] \in {"primary", role[n]}
        BY <1>t, <1>4, <3>1 DEF PromotePair, Set
      <4> QED
        BY <2>1, <2>3, <3>1, <4>1 DEF WriterAt, Admitted, Context
    <3>2. CASE ~Context(n)
      BY <2>1, <2>3, <3>2 DEF WriterAt, Admitted
    <3> QED
      BY <3>1, <3>2
  <2> QED
    BY <2>2, <2>3
<1>5. ASSUME NEW n \in Node, PromoteStandalone(n) PROVE Writers'
  <2> SUFFICES ASSUME NEW y \in Write PROVE WriterAt(y)'
    BY DEF Writers
  <2>1. wr'[y] = wr[y] /\ WriterAt(y) /\ wr[y].at \in Node
    BY <1>t, <1>5 DEF PromoteStandalone, data, Writers
  <2>x. ASSUME NEW x \in Node, x # n PROVE path'[x] = path[x] /\ role'[x] = role[x]
    BY <1>t, <1>5, <2>x DEF PromoteStandalone, Set, control
  <2>2. CASE wr[y].at # n
    BY <2>1, <2>2, <2>x DEF WriterAt, Admitted, Context
  <2>3. CASE wr[y].at = n
    <3>1. ~Context(n)
      BY <1>5 DEF PromoteStandalone, Known
    <3> QED
      BY <2>1, <2>3, <3>1 DEF WriterAt, Admitted
  <2> QED
    BY <2>2, <2>3
<1>6. ASSUME NEW n \in Node, Switchover(n) PROVE Writers'
  <2>1. UNCHANGED <<role, path, wr>>
    BY <1>6 DEF Switchover, control, messages, data
  <2> QED
    BY <1>t, <2>1 DEF Writers, WriterAt, Admitted, Context
<1>7. ASSUME NEW n \in Node, Prepare(n) PROVE Writers'
  <2>1. UNCHANGED <<role, path, wr>>
    BY <1>7 DEF Prepare, control, messages, data
  <2> QED
    BY <1>t, <2>1 DEF Writers, WriterAt, Admitted, Context
<1>8. ASSUME NEW n \in Node, NEW m \in net, Withdraw(n, m) PROVE Writers'
  <2> SUFFICES ASSUME NEW y \in Write PROVE WriterAt(y)'
    BY DEF Writers
  <2>1. wr'[y] = wr[y] /\ WriterAt(y) /\ wr[y].at \in Node
    BY <1>t, <1>8 DEF Withdraw, data, Writers
  <2>x. ASSUME NEW x \in Node, x # n PROVE path'[x] = path[x] /\ role'[x] = role[x]
    BY <1>t, <1>8, <2>x DEF Withdraw, Set, control
  <2>2. CASE wr[y].at # n
    BY <2>1, <2>2, <2>x DEF WriterAt, Admitted, Context
  <2>3. CASE wr[y].at = n
    <3>1. path'[n] = path[n] /\ ~Admitted(y)
      BY <1>t, <1>8, <2>3 DEF Withdraw, Gates, HoldsGate
    <3> QED
      BY <2>1, <2>3, <3>1 DEF WriterAt, Admitted, Context
  <2> QED
    BY <2>2, <2>3
<1>9. ASSUME NEW n \in Node, HandoffEnds(n) PROVE Writers'
  <2>1. UNCHANGED <<role, path, wr>>
    BY <1>9 DEF HandoffEnds, control, messages, data
  <2> QED
    BY <1>t, <2>1 DEF Writers, WriterAt, Admitted, Context
<1>10. ASSUME NEW n \in Node, NEW m \in net, HandlePrepare(n, m) PROVE Writers'
  <2>1. UNCHANGED <<role, path, wr>>
    BY <1>10 DEF HandlePrepare, control, messages, data
  <2> QED
    BY <1>t, <2>1 DEF Writers, WriterAt, Admitted, Context
<1>11. ASSUME NEW n \in Node, NEW m \in net, HandleGrant(n, m) PROVE Writers'
  <2> SUFFICES ASSUME NEW y \in Write PROVE WriterAt(y)'
    BY DEF Writers
  <2>1. wr'[y] = wr[y] /\ WriterAt(y) /\ wr[y].at \in Node
    BY <1>t, <1>11 DEF HandleGrant, data, Writers
  <2>x. ASSUME NEW x \in Node, x # n PROVE path'[x] = path[x] /\ role'[x] = role[x]
    BY <1>t, <1>11, <2>x DEF HandleGrant, Set, control
  <2>2. CASE wr[y].at # n
    BY <2>1, <2>2, <2>x DEF WriterAt, Admitted, Context
  <2>3. CASE wr[y].at = n
    <3>1. path'[n] = path[n] /\ ~Admitted(y)
      BY <1>11, <2>3 DEF HandleGrant, Handles, GateFree, Drained
    <3> QED
      BY <2>1, <2>3, <3>1 DEF WriterAt, Admitted, Context
  <2> QED
    BY <2>2, <2>3
<1>12. ASSUME NEW n \in Node, NEW m \in net, HandleWrite(n, m) PROVE Writers'
  <2>1. UNCHANGED <<role, path, wr>>
    BY <1>12 DEF HandleWrite, control, messages, data
  <2> QED
    BY <1>t, <2>1 DEF Writers, WriterAt, Admitted, Context
<1>13. ASSUME NEW n \in Node, ServeEnds(n) PROVE Writers'
  <2>1. UNCHANGED <<role, path, wr>>
    BY <1>13 DEF ServeEnds, control, messages, data
  <2> QED
    BY <1>t, <2>1 DEF Writers, WriterAt, Admitted, Context
<1>14. ASSUME NEW n \in Node, Crash(n) PROVE Writers'
  <2> SUFFICES ASSUME NEW y \in Write PROVE WriterAt(y)'
    BY DEF Writers
  <2>1. WriterAt(y) /\ wr[y].at \in Node
    BY <1>t DEF Writers
  <2>2. CASE wr[y].at # n
    <3>1. path'[wr[y].at] = path[wr[y].at] /\ role'[wr[y].at] = role[wr[y].at]
      BY <1>t, <1>14, <2>1, <2>2 DEF Crash, Set
    <3>2. wr'[y] = wr[y]
      BY <1>t, <1>14, <2>2 DEF Crash
    <3> QED
      BY <2>1, <3>1, <3>2 DEF WriterAt, Admitted, Context
  <2>3. CASE wr[y].at = n
    <3>1. wr'[y].step \notin {"admitting", "applying", "replicating", "forwarding"}
      BY <1>t, <1>14, <2>3 DEF Crash, Admitted, ClientWrites
    <3> QED
      BY <3>1 DEF WriterAt, Admitted
  <2> QED
    BY <2>2, <2>3
<1>15. ASSUME NEW n \in Node, Restart(n) PROVE Writers'
  <2> SUFFICES ASSUME NEW y \in Write PROVE WriterAt(y)'
    BY DEF Writers
  <2>1. wr'[y] = wr[y] /\ WriterAt(y) /\ wr[y].at \in Node
    BY <1>t, <1>15 DEF Restart, data, Writers
  <2>x. ASSUME NEW x \in Node, x # n PROVE path'[x] = path[x] /\ role'[x] = role[x]
    BY <1>t, <1>15, <2>x DEF Restart, Set, control
  <2>2. CASE wr[y].at # n
    BY <2>1, <2>2, <2>x DEF WriterAt, Admitted, Context
  <2>3. CASE wr[y].at = n
    <3>1. ~Context(n)
      BY <1>t, <1>15 DEF Restart, Modes, ModesAt
    <3> QED
      BY <2>1, <2>3, <3>1 DEF WriterAt, Admitted
  <2> QED
    BY <2>2, <2>3
<1>16. ASSUME NEW w \in Write, Admit(w) PROVE Writers'
  <2> SUFFICES ASSUME NEW y \in Write PROVE WriterAt(y)'
    BY DEF Writers
  <2>1. path' = path /\ role' = role /\ WriterAt(y)
    BY <1>t, <1>16 DEF Admit, control, Writers
  <2>2. CASE y # w
    <3>1. wr'[y] = wr[y]
      BY <1>t, <1>16, <2>2 DEF Admit, Update
    <3> QED
      BY <2>1, <3>1 DEF WriterAt, Admitted, Context
  <2>3. CASE y = w
    <3>1. wr'[w].at = wr[w].at /\ (wr'[w].step = "applying" => role[wr[w].at] = "primary")
      BY SMT, <1>t, <1>16 DEF Admit, Update
    <3>2. wr'[w].step \in {"applying", "forwarding", "failed"} /\ wr[w].step = "admitting"
      BY SMT, <1>t, <1>16 DEF Admit, Update
    <3> QED
      BY <2>1, <2>3, <3>1, <3>2 DEF WriterAt, Admitted, Context
  <2> QED
    BY <2>2, <2>3
<1>17. ASSUME NEW w \in Write, ApplyLocally(w) PROVE Writers'
  <2> SUFFICES ASSUME NEW y \in Write PROVE WriterAt(y)'
    BY DEF Writers
  <2>1. path' = path /\ role' = role /\ WriterAt(y)
    BY <1>t, <1>17 DEF ApplyLocally, control, Writers
  <2>2. CASE y # w
    <3>1. wr'[y] = wr[y]
      BY <1>t, <1>17, <2>2 DEF ApplyLocally, Update
    <3> QED
      BY <2>1, <3>1 DEF WriterAt, Admitted, Context
  <2>3. CASE y = w
    <3>1. wr'[w].at = wr[w].at /\ wr[w].step = "applying"
      BY SMT, <1>t, <1>17 DEF ApplyLocally, Update
    <3> QED
      BY <2>1, <2>3, <3>1 DEF WriterAt, Admitted, Context
  <2> QED
    BY <2>2, <2>3
<1>18. ASSUME NEW w \in Write, Answered(w) PROVE Writers'
  <2> SUFFICES ASSUME NEW y \in Write PROVE WriterAt(y)'
    BY DEF Writers
  <2>1. path' = path /\ role' = role /\ WriterAt(y)
    BY <1>t, <1>18 DEF Answered, control, Writers
  <2>2. CASE y # w
    <3>1. wr'[y] = wr[y]
      BY <1>t, <1>18, <2>2 DEF Answered, Update
    <3> QED
      BY <2>1, <3>1 DEF WriterAt, Admitted, Context
  <2>3. CASE y = w
    <3>1. wr'[w].step \in {"acked", "failed"}
      <4>1. \/ Update(w, "acked", wr[w].at, 0)
            \/ Update(w, IF wr[w].step = "replicating" /\ Required(w) = 1 THEN "acked" ELSE "failed", wr[w].at, 0)
        BY <1>18 DEF Answered
      <4> QED
        BY SMT, <1>t, <4>1 DEF Update
    <3> QED
      BY <2>3, <3>1 DEF WriterAt, Admitted
  <2> QED
    BY <2>2, <2>3
<1>19. ASSUME NEW w \in Write, NEW n \in Node, Submit(w, n) PROVE Writers'
  <2> SUFFICES ASSUME NEW y \in Write PROVE WriterAt(y)'
    BY DEF Writers
  <2>1. path' = path /\ role' = role /\ WriterAt(y)
    BY <1>t, <1>19 DEF Submit, control, Writers
  <2>2. CASE y # w
    <3>1. wr'[y] = wr[y]
      BY <1>t, <1>19, <2>2 DEF Submit, Update
    <3> QED
      BY <2>1, <3>1 DEF WriterAt, Admitted, Context
  <2>3. CASE y = w
    <3>1. wr'[w].at = n /\ wr'[w].step \in {"admitting", "direct"} /\ (wr'[w].step = "admitting" => path[n] = "pair")
      BY SMT, <1>t, <1>19 DEF Submit, Update
    <3> QED
      BY <2>1, <2>3, <3>1 DEF WriterAt, Admitted, Context
  <2> QED
    BY <2>2, <2>3
<1>20. CASE Lose
  <2>1. UNCHANGED <<role, path, wr>>
    BY <1>20 DEF Lose, control, messages, data
  <2> QED
    BY <1>t, <2>1 DEF Writers, WriterAt, Admitted, Context
<1>21. CASE UNCHANGED vars
  <2>1. UNCHANGED <<role, path, wr>>
    BY <1>21 DEF vars, control, messages, data
  <2> QED
    BY <1>t, <2>1 DEF Writers, WriterAt, Admitted, Context
<1>22. ASSUME NEW w \in Write, ApplyFails(w) PROVE Writers'
  <2> SUFFICES ASSUME NEW y \in Write PROVE WriterAt(y)'
    BY DEF Writers
  <2>1. path' = path /\ role' = role /\ WriterAt(y)
    BY <1>t, <1>22 DEF ApplyFails, control, Writers
  <2>2. CASE y # w
    <3>1. wr'[y] = wr[y]
      BY <1>t, <1>22, <2>2 DEF ApplyFails, Update
    <3> QED
      BY <2>1, <3>1 DEF WriterAt, Admitted, Context
  <2>3. CASE y = w
    <3>1. wr'[w].step = "failed"
      BY SMT, <1>t, <1>22 DEF ApplyFails, Update
    <3> QED
      BY <2>3, <3>1 DEF WriterAt, Admitted
  <2> QED
    BY <2>2, <2>3
<1>23. ASSUME NEW n \in Node, NEW m \in net, HandleWriteFails(n, m) PROVE Writers'
  <2>1. UNCHANGED <<role, path, wr>>
    BY <1>23 DEF HandleWriteFails, control, messages, data
  <2> QED
    BY <1>t, <2>1 DEF Writers, WriterAt, Admitted, Context
<1> QED
  BY <1>1, <1>2, <1>3, <1>4, <1>5, <1>6, <1>7, <1>8, <1>9, <1>10, <1>11, <1>12, <1>13, <1>14, <1>15, <1>16, <1>17, <1>18, <1>19, <1>20, <1>21, <1>22, <1>23
     DEF Next, Progress, Environment

LEMMA RecordedStep == AuthorityInv /\ [Next]_vars => PrimaryIsRecorded'
<1> SUFFICES ASSUME AuthorityInv, [Next]_vars PROVE PrimaryIsRecorded'
  OBVIOUS
<1>t. /\ PrimaryIsRecorded /\ Modes /\ marker \in [Node -> Markers] /\ role \in [Node -> Roles]
  BY MarkerFacts, MessageFacts DEF AuthorityInv, TypeOK, ClientWrites
<1>1. ASSUME NEW n \in Node, Connect(n) PROVE PrimaryIsRecorded'
  <2> SUFFICES ASSUME NEW x \in Node PROVE role'[x] = "primary" => marker'[x].primary = x
    BY DEF PrimaryIsRecorded
  <2>m. role[x] = "primary" => marker[x].primary = x
    BY <1>t DEF PrimaryIsRecorded
  <2>1. CASE x # n
    <3>1. role'[x] = role[x]
      BY <1>t, <1>1, <2>1 DEF Connect, Set, Installed, Stored, NotStored
    <3>2. marker'[x] = marker[x]
      BY <1>t, <1>1, <2>1 DEF Connect, Set, Installed, Stored, NotStored
    <3> QED
      BY <2>m, <3>1, <3>2
  <2>2. CASE x = n
    <3>1. CASE Context(n)
      <4>1. role'[n] = role[n] /\ marker'[n] = marker[n]
        BY <1>1, <3>1 DEF Connect
      <4> QED
        BY <2>m, <2>2, <4>1
    <3>2. CASE ~Context(n) /\ marker[n].primary # 0
      <4>1. ChosenRole(n) = "secondary" /\ role'[n] = ChosenRole(n)
        BY <1>t, <1>1, <3>2 DEF Connect, ChosenRole, Installed, Set, Modes, ModesAt
      <4> QED
        BY <2>2, <4>1
    <3>3. CASE ~Context(n) /\ marker[n].primary = 0
      <4>1. CASE Stored(n, Chosen(n), marker[n].generation + 1) /\ Installed(n)
        <5>1. role'[n] = ChosenRole(n) /\ marker'[n].primary = Chosen(n)
          BY <1>t, <4>1 DEF Stored, Installed, Set
        <5> QED
          BY <2>2, <5>1 DEF Chosen
      <4>2. CASE UNCHANGED role
        BY SMT, <2>m, <2>2, <3>3, <4>2 DEF Node
      <4> QED
        BY <1>1, <3>3, <4>1, <4>2 DEF Connect
    <3> QED
      BY <3>1, <3>2, <3>3
  <2> QED
    BY <2>1, <2>2
<1>2. ASSUME NEW n \in Node, Disconnect(n) PROVE PrimaryIsRecorded'
  <2>1. UNCHANGED <<role, marker>>
    BY <1>2 DEF Disconnect, control, messages, data
  <2> QED
    BY <1>t, <2>1 DEF PrimaryIsRecorded
<1>3. ASSUME NEW n \in Node, ReplayLog(n) PROVE PrimaryIsRecorded'
  <2>1. UNCHANGED <<role, marker>>
    BY <1>3 DEF ReplayLog, control, messages, data
  <2> QED
    BY <1>t, <2>1 DEF PrimaryIsRecorded
<1>4. ASSUME NEW n \in Node, PromotePair(n) PROVE PrimaryIsRecorded'
  <2> SUFFICES ASSUME NEW x \in Node PROVE role'[x] = "primary" => marker'[x].primary = x
    BY DEF PrimaryIsRecorded
  <2>m. role[x] = "primary" => marker[x].primary = x
    BY <1>t DEF PrimaryIsRecorded
  <2>1. CASE x # n
    <3>1. role'[x] = role[x]
      BY <1>t, <1>4, <2>1 DEF PromotePair, Set, Stored, NotStored
    <3>2. marker'[x] = marker[x]
      BY <1>t, <1>4, <2>1 DEF PromotePair, Set, Stored, NotStored
    <3> QED
      BY <2>m, <3>1, <3>2
  <2>2. CASE x = n
    <3>1. CASE Stored(n, n, marker[n].generation + 1)
      BY <1>t, <2>2, <3>1 DEF Stored, Set
    <3>2. CASE UNCHANGED <<marker, role>>
      BY <2>m, <2>2, <3>2
    <3>3. CASE ~Context(n) /\ role' = Set(role, n, ChosenRole(n))
      <4>1. marker[n].primary # 0 /\ ~promoted[n]
        BY <1>t, <1>4, <3>3 DEF PromotePair, Known, Modes, ModesAt
      <4>2. role'[n] = "secondary"
        BY <1>t, <3>3, <4>1 DEF ChosenRole, Set
      <4> QED
        BY <2>2, <4>2
    <3> QED
      BY <1>4, <3>1, <3>2, <3>3 DEF PromotePair, NotStored
  <2> QED
    BY <2>1, <2>2
<1>5. ASSUME NEW n \in Node, PromoteStandalone(n) PROVE PrimaryIsRecorded'
  <2>1. UNCHANGED <<role, marker>>
    BY <1>5 DEF PromoteStandalone, control, messages, data
  <2> QED
    BY <1>t, <2>1 DEF PrimaryIsRecorded
<1>6. ASSUME NEW n \in Node, Switchover(n) PROVE PrimaryIsRecorded'
  <2>1. UNCHANGED <<role, marker>>
    BY <1>6 DEF Switchover, control, messages, data
  <2> QED
    BY <1>t, <2>1 DEF PrimaryIsRecorded
<1>7. ASSUME NEW n \in Node, Prepare(n) PROVE PrimaryIsRecorded'
  <2>1. UNCHANGED <<role, marker>>
    BY <1>7 DEF Prepare, control, messages, data
  <2> QED
    BY <1>t, <2>1 DEF PrimaryIsRecorded
<1>8. ASSUME NEW n \in Node, NEW m \in net, Withdraw(n, m) PROVE PrimaryIsRecorded'
  <2> SUFFICES ASSUME NEW x \in Node PROVE role'[x] = "primary" => marker'[x].primary = x
    BY DEF PrimaryIsRecorded
  <2>m. role[x] = "primary" => marker[x].primary = x
    BY <1>t DEF PrimaryIsRecorded
  <2>1. CASE x # n
    <3>1. role'[x] = role[x]
      BY <1>t, <1>8, <2>1 DEF Withdraw, Set, Stored, NotStored
    <3>2. marker'[x] = marker[x]
      BY <1>t, <1>8, <2>1 DEF Withdraw, Set, Stored, NotStored
    <3> QED
      BY <2>m, <3>1, <3>2
  <2>2. CASE x = n
    <3>1. role'[n] = "secondary"
      BY <1>t, <1>8 DEF Withdraw, Set
    <3> QED
      BY <2>2, <3>1
  <2> QED
    BY <2>1, <2>2
<1>9. ASSUME NEW n \in Node, HandoffEnds(n) PROVE PrimaryIsRecorded'
  <2>1. UNCHANGED <<role, marker>>
    BY <1>9 DEF HandoffEnds, control, messages, data
  <2> QED
    BY <1>t, <2>1 DEF PrimaryIsRecorded
<1>10. ASSUME NEW n \in Node, NEW m \in net, HandlePrepare(n, m) PROVE PrimaryIsRecorded'
  <2>1. UNCHANGED <<role, marker>>
    BY <1>10 DEF HandlePrepare, control, messages, data
  <2> QED
    BY <1>t, <2>1 DEF PrimaryIsRecorded
<1>11. ASSUME NEW n \in Node, NEW m \in net, HandleGrant(n, m) PROVE PrimaryIsRecorded'
  <2> SUFFICES ASSUME NEW x \in Node PROVE role'[x] = "primary" => marker'[x].primary = x
    BY DEF PrimaryIsRecorded
  <2>m. role[x] = "primary" => marker[x].primary = x
    BY <1>t DEF PrimaryIsRecorded
  <2>1. CASE x # n
    <3>1. role'[x] = role[x]
      BY <1>t, <1>11, <2>1 DEF HandleGrant, Set, Stored, NotStored
    <3>2. marker'[x] = marker[x]
      BY <1>t, <1>11, <2>1 DEF HandleGrant, Set, Stored, NotStored
    <3> QED
      BY <2>m, <3>1, <3>2
  <2>2. CASE x = n
    <3>1. CASE Stored(n, n, m.generation)
      BY <1>t, <2>2, <3>1 DEF Stored, Set
    <3>2. CASE UNCHANGED <<marker, role>>
      BY <2>m, <2>2, <3>2
    <3> QED
      BY <1>11, <3>1, <3>2 DEF HandleGrant, NotStored
  <2> QED
    BY <2>1, <2>2
<1>12. ASSUME NEW n \in Node, NEW m \in net, HandleWrite(n, m) PROVE PrimaryIsRecorded'
  <2>1. UNCHANGED <<role, marker>>
    BY <1>12 DEF HandleWrite, control, messages, data
  <2> QED
    BY <1>t, <2>1 DEF PrimaryIsRecorded
<1>13. ASSUME NEW n \in Node, ServeEnds(n) PROVE PrimaryIsRecorded'
  <2>1. UNCHANGED <<role, marker>>
    BY <1>13 DEF ServeEnds, control, messages, data
  <2> QED
    BY <1>t, <2>1 DEF PrimaryIsRecorded
<1>14. ASSUME NEW n \in Node, Crash(n) PROVE PrimaryIsRecorded'
  <2> SUFFICES ASSUME NEW x \in Node PROVE role'[x] = "primary" => marker'[x].primary = x
    BY DEF PrimaryIsRecorded
  <2>m. role[x] = "primary" => marker[x].primary = x
    BY <1>t DEF PrimaryIsRecorded
  <2>1. CASE x # n
    <3>1. role'[x] = role[x]
      BY <1>t, <1>14, <2>1 DEF Crash, Set
    <3>2. marker'[x] = marker[x]
      BY <1>t, <1>14, <2>1 DEF Crash, Set
    <3> QED
      BY <2>m, <3>1, <3>2
  <2>2. CASE x = n
    <3>1. role'[n] = "secondary"
      BY <1>t, <1>14 DEF Crash, Set
    <3> QED
      BY <2>2, <3>1
  <2> QED
    BY <2>1, <2>2
<1>15. ASSUME NEW n \in Node, Restart(n) PROVE PrimaryIsRecorded'
  <2>1. UNCHANGED <<role, marker>>
    BY <1>15 DEF Restart, control, messages, data
  <2> QED
    BY <1>t, <2>1 DEF PrimaryIsRecorded
<1>16. ASSUME NEW w \in Write, Admit(w) PROVE PrimaryIsRecorded'
  <2>1. UNCHANGED <<role, marker>>
    BY <1>16 DEF Admit, control, messages, data
  <2> QED
    BY <1>t, <2>1 DEF PrimaryIsRecorded
<1>17. ASSUME NEW w \in Write, ApplyLocally(w) PROVE PrimaryIsRecorded'
  <2>1. UNCHANGED <<role, marker>>
    BY <1>17 DEF ApplyLocally, control, messages, data
  <2> QED
    BY <1>t, <2>1 DEF PrimaryIsRecorded
<1>18. ASSUME NEW w \in Write, Answered(w) PROVE PrimaryIsRecorded'
  <2>1. UNCHANGED <<role, marker>>
    BY <1>18 DEF Answered, control, messages, data
  <2> QED
    BY <1>t, <2>1 DEF PrimaryIsRecorded
<1>19. ASSUME NEW w \in Write, NEW n \in Node, Submit(w, n) PROVE PrimaryIsRecorded'
  <2>1. UNCHANGED <<role, marker>>
    BY <1>19 DEF Submit, control, messages, data
  <2> QED
    BY <1>t, <2>1 DEF PrimaryIsRecorded
<1>20. CASE Lose
  <2>1. UNCHANGED <<role, marker>>
    BY <1>20 DEF Lose, control, messages, data
  <2> QED
    BY <1>t, <2>1 DEF PrimaryIsRecorded
<1>21. CASE UNCHANGED vars
  <2>1. UNCHANGED <<role, marker>>
    BY <1>21 DEF vars, control, messages, data
  <2> QED
    BY <1>t, <2>1 DEF PrimaryIsRecorded
<1>22. ASSUME NEW w \in Write, ApplyFails(w) PROVE PrimaryIsRecorded'
  <2>1. UNCHANGED <<role, marker>>
    BY <1>22 DEF ApplyFails, control, messages, data
  <2> QED
    BY <1>t, <2>1 DEF PrimaryIsRecorded
<1>23. ASSUME NEW n \in Node, NEW m \in net, HandleWriteFails(n, m) PROVE PrimaryIsRecorded'
  <2>1. UNCHANGED <<role, marker>>
    BY <1>23 DEF HandleWriteFails, control, messages, data
  <2> QED
    BY <1>t, <2>1 DEF PrimaryIsRecorded
<1> QED
  BY <1>1, <1>2, <1>3, <1>4, <1>5, <1>6, <1>7, <1>8, <1>9, <1>10, <1>11, <1>12, <1>13, <1>14, <1>15, <1>16, <1>17, <1>18, <1>19, <1>20, <1>21, <1>22, <1>23
     DEF Next, Progress, Environment

LEMMA OnePrimaryStep == AuthorityInv /\ [Next]_vars => OnePrimary'
<1> SUFFICES ASSUME AuthorityInv, [Next]_vars PROVE OnePrimary'
  OBVIOUS
<1>t. /\ OnePrimary /\ PrimaryIsRecorded /\ Modes /\ Grants /\ role \in [Node -> Roles] /\ marker \in [Node -> Markers]
  BY MarkerFacts, MessageFacts DEF AuthorityInv, TypeOK, ClientWrites
<1>1. ASSUME NEW n \in Node, Connect(n) PROVE OnePrimary'
  <2> SUFFICES ASSUME role'[1] = "primary", role'[2] = "primary" PROVE contested'
    BY DEF OnePrimary
  <2>1. role'[Peer(n)] = role[Peer(n)]
    BY PeerFacts, <1>t, <1>1 DEF Connect, Set, Installed
  <2>2. role[Peer(n)] = "primary"
    BY SMT, <2>1 DEF Node, Peer
  <2>3. CASE UNCHANGED role
    <3>1. contested
      BY <1>t, <2>3 DEF OnePrimary
    <3>2. contested' = contested \/ contested' = (contested \/ ElectsBesideClaim(n))
      BY <1>1 DEF Connect
    <3> QED
      BY <3>1, <3>2
  <2>4. CASE Installed(n) /\ ~Context(n) /\ contested' = (contested \/ ElectsBesideClaim(n))
    <3>1. role'[n] = "primary" /\ role'[n] = ChosenRole(n)
      BY <1>t, <2>4 DEF Installed, Set, Node
    <3>2. marker[n].primary = 0
      BY <1>t, <2>4, <3>1 DEF ChosenRole, Modes, ModesAt
    <3>3. ElectsBesideClaim(n)
      BY PeerFacts, <1>t, <2>2, <3>1, <3>2 DEF ElectsBesideClaim, PrimaryIsRecorded
    <3> QED
      BY <2>4, <3>3
  <2> QED
    BY <1>1, <2>3, <2>4 DEF Connect
<1>2. ASSUME NEW n \in Node, Disconnect(n) PROVE OnePrimary'
  <2>1. UNCHANGED <<role, contested>>
    BY <1>2 DEF Disconnect, control, messages, data
  <2> QED
    BY <1>t, <2>1 DEF OnePrimary
<1>3. ASSUME NEW n \in Node, ReplayLog(n) PROVE OnePrimary'
  <2>1. UNCHANGED <<role, contested>>
    BY <1>3 DEF ReplayLog, control, messages, data
  <2> QED
    BY <1>t, <2>1 DEF OnePrimary
<1>4. ASSUME NEW n \in Node, PromotePair(n) PROVE OnePrimary'
  <2> SUFFICES ASSUME role'[1] = "primary", role'[2] = "primary" PROVE contested'
    BY DEF OnePrimary
  <2>1. role'[Peer(n)] = role[Peer(n)]
    BY PeerFacts, <1>t, <1>4 DEF PromotePair, Set, Installed
  <2>2. role[Peer(n)] = "primary"
    BY SMT, <2>1 DEF Node, Peer
  <2> QED
    BY PeerFacts, <1>t, <1>4, <2>2 DEF PromotePair, OperatorPromotes, Modes, ModesAt
<1>5. ASSUME NEW n \in Node, PromoteStandalone(n) PROVE OnePrimary'
  <2>1. UNCHANGED <<role, contested>>
    BY <1>5 DEF PromoteStandalone, control, messages, data
  <2> QED
    BY <1>t, <2>1 DEF OnePrimary
<1>6. ASSUME NEW n \in Node, Switchover(n) PROVE OnePrimary'
  <2>1. UNCHANGED <<role, contested>>
    BY <1>6 DEF Switchover, control, messages, data
  <2> QED
    BY <1>t, <2>1 DEF OnePrimary
<1>7. ASSUME NEW n \in Node, Prepare(n) PROVE OnePrimary'
  <2>1. UNCHANGED <<role, contested>>
    BY <1>7 DEF Prepare, control, messages, data
  <2> QED
    BY <1>t, <2>1 DEF OnePrimary
<1>8. ASSUME NEW n \in Node, NEW m \in net, Withdraw(n, m) PROVE OnePrimary'
  <2> SUFFICES ASSUME role'[1] = "primary", role'[2] = "primary" PROVE contested'
    BY DEF OnePrimary
  <2>1. role'[n] = "secondary"
    BY <1>t, <1>8 DEF Withdraw, Set
  <2> QED
    BY <2>1 DEF Node
<1>9. ASSUME NEW n \in Node, HandoffEnds(n) PROVE OnePrimary'
  <2>1. UNCHANGED <<role, contested>>
    BY <1>9 DEF HandoffEnds, control, messages, data
  <2> QED
    BY <1>t, <2>1 DEF OnePrimary
<1>10. ASSUME NEW n \in Node, NEW m \in net, HandlePrepare(n, m) PROVE OnePrimary'
  <2>1. UNCHANGED <<role, contested>>
    BY <1>10 DEF HandlePrepare, control, messages, data
  <2> QED
    BY <1>t, <2>1 DEF OnePrimary
<1>11. ASSUME NEW n \in Node, NEW m \in net, HandleGrant(n, m) PROVE OnePrimary'
  <2> SUFFICES ASSUME role'[1] = "primary", role'[2] = "primary" PROVE contested'
    BY DEF OnePrimary
  <2>1. UNCHANGED contested
    BY <1>11 DEF HandleGrant
  <2>2. CASE UNCHANGED role
    BY <1>t, <2>1, <2>2 DEF OnePrimary
  <2>3. CASE Grantable(n, m)
    <3>1. role'[Peer(n)] = role[Peer(n)]
      BY PeerFacts, <1>t, <1>11 DEF HandleGrant, Set
    <3>2. role[Peer(n)] = "secondary"
      BY <1>t, <1>11, <2>3 DEF Grants, GrantAt, Grantable, HandleGrant
    <3> QED
      BY SMT, <3>1, <3>2 DEF Node, Peer
  <2> QED
    BY <1>11, <2>2, <2>3 DEF HandleGrant
<1>12. ASSUME NEW n \in Node, NEW m \in net, HandleWrite(n, m) PROVE OnePrimary'
  <2>1. UNCHANGED <<role, contested>>
    BY <1>12 DEF HandleWrite, control, messages, data
  <2> QED
    BY <1>t, <2>1 DEF OnePrimary
<1>13. ASSUME NEW n \in Node, ServeEnds(n) PROVE OnePrimary'
  <2>1. UNCHANGED <<role, contested>>
    BY <1>13 DEF ServeEnds, control, messages, data
  <2> QED
    BY <1>t, <2>1 DEF OnePrimary
<1>14. ASSUME NEW n \in Node, Crash(n) PROVE OnePrimary'
  <2> SUFFICES ASSUME role'[1] = "primary", role'[2] = "primary" PROVE contested'
    BY DEF OnePrimary
  <2>1. role'[n] = "secondary"
    BY <1>t, <1>14 DEF Crash, Set
  <2> QED
    BY <2>1 DEF Node
<1>15. ASSUME NEW n \in Node, Restart(n) PROVE OnePrimary'
  <2>1. UNCHANGED <<role, contested>>
    BY <1>15 DEF Restart, control, messages, data
  <2> QED
    BY <1>t, <2>1 DEF OnePrimary
<1>16. ASSUME NEW w \in Write, Admit(w) PROVE OnePrimary'
  <2>1. UNCHANGED <<role, contested>>
    BY <1>16 DEF Admit, control, messages, data
  <2> QED
    BY <1>t, <2>1 DEF OnePrimary
<1>17. ASSUME NEW w \in Write, ApplyLocally(w) PROVE OnePrimary'
  <2>1. UNCHANGED <<role, contested>>
    BY <1>17 DEF ApplyLocally, control, messages, data
  <2> QED
    BY <1>t, <2>1 DEF OnePrimary
<1>18. ASSUME NEW w \in Write, Answered(w) PROVE OnePrimary'
  <2>1. UNCHANGED <<role, contested>>
    BY <1>18 DEF Answered, control, messages, data
  <2> QED
    BY <1>t, <2>1 DEF OnePrimary
<1>19. ASSUME NEW w \in Write, NEW n \in Node, Submit(w, n) PROVE OnePrimary'
  <2>1. UNCHANGED <<role, contested>>
    BY <1>19 DEF Submit, control, messages, data
  <2> QED
    BY <1>t, <2>1 DEF OnePrimary
<1>20. CASE Lose
  <2>1. UNCHANGED <<role, contested>>
    BY <1>20 DEF Lose, control, messages, data
  <2> QED
    BY <1>t, <2>1 DEF OnePrimary
<1>21. CASE UNCHANGED vars
  <2>1. UNCHANGED <<role, contested>>
    BY <1>21 DEF vars, control, messages, data
  <2> QED
    BY <1>t, <2>1 DEF OnePrimary
<1>22. ASSUME NEW w \in Write, ApplyFails(w) PROVE OnePrimary'
  <2>1. UNCHANGED <<role, contested>>
    BY <1>22 DEF ApplyFails, control, messages, data
  <2> QED
    BY <1>t, <2>1 DEF OnePrimary
<1>23. ASSUME NEW n \in Node, NEW m \in net, HandleWriteFails(n, m) PROVE OnePrimary'
  <2>1. UNCHANGED <<role, contested>>
    BY <1>23 DEF HandleWriteFails, control, messages, data
  <2> QED
    BY <1>t, <2>1 DEF OnePrimary
<1> QED
  BY <1>1, <1>2, <1>3, <1>4, <1>5, <1>6, <1>7, <1>8, <1>9, <1>10, <1>11, <1>12, <1>13, <1>14, <1>15, <1>16, <1>17, <1>18, <1>19, <1>20, <1>21, <1>22, <1>23
     DEF Next, Progress, Environment

LEMMA GrantsStep == AuthorityInv /\ [Next]_vars => Grants'
<1> SUFFICES ASSUME AuthorityInv, [Next]_vars PROVE Grants'
  OBVIOUS
<1>t. /\ Grants /\ Modes /\ role \in [Node -> Roles] /\ marker \in [Node -> Markers] /\ up \in [Node -> BOOLEAN]
      /\ \A x \in net : x.to \in Node /\ x.generation \in Nat
      /\ \A x \in Node : marker[x].generation \in Nat
  BY MarkerFacts, MessageFacts DEF AuthorityInv, TypeOK, ClientWrites
<1>s. /\ role' \in [Node -> Roles]
      /\ \A x \in Node : marker'[x].generation \in Nat
  <2>1. TypeOK'
    BY TypeStep DEF AuthorityInv
  <2> QED
    BY <2>1, MarkerFactsAfter DEF TypeOK
<1>1. ASSUME NEW n \in Node, Connect(n) PROVE Grants'
  <2>1. UNCHANGED <<up, net>>
    BY <1>1 DEF Connect, messages
  <2>2. MarkersGrow
    <3>1. UNCHANGED marker \/ Stored(n, Chosen(n), marker[n].generation + 1)
      BY <1>1 DEF Connect, NotStored
    <3>2. Chosen(n) \in Node
      BY PeerFacts DEF Chosen
    <3> QED
      BY SMT, <1>t, <3>1, <3>2, StoredGrows
  <2>3. ASSUME NEW x \in Node, role'[x] = "primary", role[x] = "secondary"
        PROVE  x = n /\ marker[n].primary = 0
    <3>1. x = n
      BY <1>t, <1>1, <2>3 DEF Connect, Installed, Set
    <3>2. ~Context(n) /\ role'[n] = ChosenRole(n)
      BY <1>t, <1>1, <2>3, <3>1 DEF Connect, Installed, Set
    <3> QED
      BY <1>t, <2>3, <3>1, <3>2 DEF ChosenRole, Modes, ModesAt
  <2>4. role' \in [Node -> Roles]
    BY <1>s
  <2> QED
    <3>1. \A g \in net : g.kind = "grant" => Peer(g.to) # n \/ role'[n] # "primary" \/ role[n] # "secondary"
      BY <1>t, <2>3 DEF Grants, GrantAt
    <3>2. \A g \in net, x \in Node : g.kind = "grant" /\ Peer(g.to) = x => role'[x] # "primary" \/ role[x] # "secondary"
      BY SMT, <2>3, <3>1
    <3> QED
      BY <1>t, <2>1, <2>2, <3>2, <2>4, GrantsMove
<1>2. ASSUME NEW n \in Node, Disconnect(n) PROVE Grants'
  <2>1. UNCHANGED <<net, up, marker, role>>
    BY <1>2 DEF Disconnect, control, messages, data
  <2> QED
    BY <1>t, <2>1 DEF Grants, GrantAt
<1>3. ASSUME NEW n \in Node, ReplayLog(n) PROVE Grants'
  <2>1. UNCHANGED <<net, up, marker, role>>
    BY <1>3 DEF ReplayLog, control, messages, data
  <2> QED
    BY <1>t, <2>1 DEF Grants, GrantAt
<1>4. ASSUME NEW n \in Node, PromotePair(n) PROVE Grants'
  <2>1. UNCHANGED <<up, net>>
    BY <1>4 DEF PromotePair, messages
  <2>2. MarkersGrow
    <3>1. UNCHANGED marker \/ Stored(n, n, marker[n].generation + 1)
      BY <1>4 DEF PromotePair, NotStored
    <3> QED
      BY SMT, <1>t, <3>1, StoredGrows
  <2>3. ASSUME NEW x \in Node, role'[x] = "primary", role[x] = "secondary"
        PROVE  x = n /\ ~up[Peer(n)]
    BY <1>t, <1>4, <2>3 DEF PromotePair, OperatorPromotes, Set
  <2>4. role' \in [Node -> Roles]
    BY <1>s
  <2> QED
    <3>1. \A g \in net : g.kind = "grant" => Peer(g.to) # n \/ role'[n] # "primary" \/ role[n] # "secondary"
      BY PeerFacts, <1>t, <2>3 DEF Grants, GrantAt
    <3>2. \A g \in net, x \in Node : g.kind = "grant" /\ Peer(g.to) = x => role'[x] # "primary" \/ role[x] # "secondary"
      BY SMT, <2>3, <3>1
    <3> QED
      BY <1>t, <2>1, <2>2, <3>2, <2>4, GrantsMove
<1>5. ASSUME NEW n \in Node, PromoteStandalone(n) PROVE Grants'
  <2>1. UNCHANGED <<net, up, marker, role>>
    BY <1>5 DEF PromoteStandalone, control, messages, data
  <2> QED
    BY <1>t, <2>1 DEF Grants, GrantAt
<1>6. ASSUME NEW n \in Node, Switchover(n) PROVE Grants'
  <2>1. UNCHANGED <<net, up, marker, role>>
    BY <1>6 DEF Switchover, control, messages, data
  <2> QED
    BY <1>t, <2>1 DEF Grants, GrantAt
<1>7. ASSUME NEW n \in Node, Prepare(n) PROVE Grants'
  <2>1. \A x \in net' : x \in net \/ (x.kind # "grant" /\ up[x.to])
    <3> DEFINE prepare == Message("prepare", calls + 1, Peer(n), 0, 0, NoWrite)
    <3>1. prepare.kind # "grant"
      BY DEF Message
    <3>2. UNCHANGED net \/ Request(prepare, {})
      BY <1>7 DEF Prepare, messages
    <3> HIDE DEF prepare
    <3> QED
      BY <3>1, <3>2 DEF Request, Reply, Awaited
  <2>2. UNCHANGED <<up, marker, role>>
    BY <1>7 DEF Prepare, control
  <2> QED
    BY <1>t, <2>1, <2>2, GrantsKept
<1>8. ASSUME NEW n \in Node, NEW m \in net, Withdraw(n, m) PROVE Grants'
  <2> DEFINE grant == Message("grant", calls + 1, Peer(n), m.challenge, NextGeneration(n, m), NoWrite)
  <2>1. UNCHANGED up
    BY <1>8 DEF Withdraw
  <2>2. NextGeneration(n, m) \in Nat /\ NextGeneration(n, m) >= marker[n].generation
    BY SMT, <1>t DEF NextGeneration
  <2>3. MarkersGrow
    <3>1. UNCHANGED marker \/ Stored(n, Peer(n), NextGeneration(n, m))
      BY <1>8 DEF Withdraw, NotStored
    <3> QED
      BY PeerFacts, <1>t, <2>2, <3>1, StoredGrows
  <2>4. role'[n] = "secondary" /\ \A x \in Node : x # n => role'[x] = role[x]
    BY <1>t, <1>8 DEF Withdraw, Set
  <2>5. role' \in [Node -> Roles]
    BY <1>s
  <2>6. grant.to = Peer(n) /\ grant.generation = NextGeneration(n, m)
    BY DEF Message
  <2>7. CASE net' = net \ {m}
    BY <1>t, <2>1, <2>3, <2>4, <2>5, <2>7, GrantsMove
  <2>8. CASE Stored(n, Peer(n), NextGeneration(n, m)) /\ Request(grant, {m})
    <3>1. marker'[n].generation = NextGeneration(n, m) /\ marker'[n].primary = Peer(n)
      BY <1>t, <2>8 DEF Stored, Set
    <3>2. \A x \in net' : x \in net \/ (x = grant /\ up[grant.to])
      <4> HIDE DEF grant
      <4> QED
        BY <2>8 DEF Request
    <3> HIDE DEF grant
    <3>3. ASSUME NEW x \in net' PROVE GrantAt(x)'
      <4>1. CASE x \in net
        <5>1. x.to \in Node /\ x.generation \in Nat /\ GrantAt(x) /\ Peer(x.to) \in Node
          BY PeerFacts, <1>t, <4>1 DEF Grants
        <5>2. role'[Peer(x.to)] = "primary" => role[Peer(x.to)] # "secondary"
          BY <2>4, <5>1
        <5> QED
          BY <1>t, <2>1, <2>3, <2>5, <5>1, <5>2, GrantMoves
      <4>2. CASE x = grant /\ up[grant.to]
        BY SMT, <2>1, <2>2, <2>4, <2>6, <3>1, <4>2 DEF GrantAt, Node, Peer
      <4> QED
        BY <3>2, <4>1, <4>2
    <3> QED
      BY <3>3 DEF Grants
  <2> QED
    BY <1>8, <2>7, <2>8 DEF Withdraw
<1>9. ASSUME NEW n \in Node, HandoffEnds(n) PROVE Grants'
  <2>1. \A x \in net' : x \in net \/ (x.kind # "grant" /\ up[x.to])
    <3>1. net' \subseteq net
      BY <1>9 DEF HandoffEnds, TimedOut
    <3> QED
      BY <3>1
  <2>2. UNCHANGED <<up, marker, role>>
    BY <1>9 DEF HandoffEnds, control
  <2> QED
    BY <1>t, <2>1, <2>2, GrantsKept
<1>10. ASSUME NEW n \in Node, NEW m \in net, HandlePrepare(n, m) PROVE Grants'
  <2>1. \A x \in net' : x \in net \/ (x.kind # "grant" /\ up[x.to])
    <3> DEFINE ready == Message("ready", m.id, Peer(n), m.id, marker[n].generation, NoWrite)
    <3>1. ready.kind # "grant"
      BY DEF Message
    <3>2. net' = net \ {m} \/ Reply(m, ready)
      BY <1>10 DEF HandlePrepare, messages
    <3> HIDE DEF ready
    <3> QED
      BY <3>1, <3>2 DEF Request, Reply, Awaited
  <2>2. UNCHANGED <<up, marker, role>>
    BY <1>10 DEF HandlePrepare, control
  <2> QED
    BY <1>t, <2>1, <2>2, GrantsKept
<1>11. ASSUME NEW n \in Node, NEW m \in net, HandleGrant(n, m) PROVE Grants'
  <2>1. UNCHANGED up /\ m.kind = "grant" /\ m.to = n
    BY <1>11 DEF HandleGrant
  <2>2. MarkersGrow
    <3>1. UNCHANGED marker \/ (Stored(n, n, m.generation) /\ m.generation > marker[n].generation)
      BY <1>11 DEF HandleGrant, NotStored, Grantable
    <3> QED
      BY SMT, <1>t, <3>1, StoredGrows
  <2>3. ASSUME NEW x \in Node, role'[x] = "primary", role[x] = "secondary"
        PROVE  /\ x = n
               /\ \A g \in net : g.kind = "grant" /\ Peer(g.to) = n => g.generation <= marker'[g.to].generation
    <3>1. x = n
      BY <1>t, <1>11, <2>3 DEF HandleGrant, Set
    <3>2. m.generation > marker[n].generation
      BY <1>11, <2>3 DEF HandleGrant, Grantable
    <3>3. marker[Peer(n)].generation <= marker'[Peer(n)].generation
      BY PeerFacts, <2>2 DEF MarkersGrow
    <3>4. m.generation <= marker[Peer(n)].generation
      BY <1>t, <2>1 DEF Grants, GrantAt
    <3>5. ASSUME NEW g \in net, g.kind = "grant", Peer(g.to) = n PROVE g.generation <= marker'[g.to].generation
      <4>1. g.to = Peer(n) /\ g.generation <= marker[n].generation
        BY PeerFacts, <1>t, <3>5 DEF Grants, GrantAt
      <4>2. marker'[Peer(n)].generation \in Nat
        BY PeerFacts, <1>s
      <4> QED
        BY SMT, <1>t, <3>2, <3>3, <3>4, <4>1, <4>2
    <3> QED
      BY <3>1, <3>5
  <2>4. role' \in [Node -> Roles]
    BY <1>s
  <2>5. \A x \in net' : x \in net \/ (x.kind # "grant" /\ up[x.to])
    <3> DEFINE accepted == Message("accepted", m.id, Peer(n), 0, m.generation, NoWrite)
    <3>1. accepted.kind # "grant"
      BY DEF Message
    <3>2. net' = net \ {m} \/ Reply(m, accepted)
      BY <1>11 DEF HandleGrant
    <3> HIDE DEF accepted
    <3> QED
      BY <3>1, <3>2 DEF Reply, Awaited
  <2> QED
    BY <1>t, <2>1, <2>2, <2>3, <2>4, <2>5, GrantsMove
<1>12. ASSUME NEW n \in Node, NEW m \in net, HandleWrite(n, m) PROVE Grants'
  <2>1. \A x \in net' : x \in net \/ (x.kind # "grant" /\ up[x.to])
    <3> DEFINE forward == Message("write", calls + 1, Peer(n), 0, 0, m.write)
               ack == Message("ack", m.id, Peer(n), 0, 0, NoWrite)
    <3>1. forward.kind # "grant" /\ ack.kind # "grant"
      BY DEF Message
    <3>2. Request(forward, {m}) \/ Reply(m, ack)
      BY <1>12 DEF HandleWrite, messages
    <3> HIDE DEF forward, ack
    <3> QED
      BY <3>1, <3>2 DEF Request, Reply, Awaited
  <2>2. UNCHANGED <<up, marker, role>>
    BY <1>12 DEF HandleWrite, control
  <2> QED
    BY <1>t, <2>1, <2>2, GrantsKept
<1>13. ASSUME NEW n \in Node, ServeEnds(n) PROVE Grants'
  <2>1. \A x \in net' : x \in net \/ (x.kind # "grant" /\ up[x.to])
    <3>1. PICK s \in serving :
             \/ /\ \E m \in net : /\ m.kind = "ack" /\ m.to = n /\ m.id = s.id
                                  /\ Reply(m, Message("ack", s.reply, Peer(n), 0, 0, NoWrite))
                /\ UNCHANGED faults
             \/ TimedOut(s.id, n)
      BY <1>13 DEF ServeEnds
    <3> DEFINE ack == Message("ack", s.reply, Peer(n), 0, 0, NoWrite)
    <3>2. ack.kind # "grant"
      BY DEF Message
    <3>3. (\E m \in net : Reply(m, ack)) \/ net' \subseteq net
      BY <3>1 DEF TimedOut
    <3> HIDE DEF ack
    <3> QED
      BY <3>2, <3>3 DEF Reply, Awaited
  <2>2. UNCHANGED <<up, marker, role>>
    BY <1>13 DEF ServeEnds, control
  <2> QED
    BY <1>t, <2>1, <2>2, GrantsKept
<1>14. ASSUME NEW n \in Node, Crash(n) PROVE Grants'
  <2>1. /\ net' \subseteq net /\ UNCHANGED marker
        /\ \A x \in net' : x.to # n
    BY <1>14 DEF Crash
  <2>2. /\ \A x \in Node : x # n => up'[x] = up[x] /\ role'[x] = role[x]
        /\ role'[n] = "secondary"
    BY <1>t, <1>14 DEF Crash, Set
  <2>3. ASSUME NEW x \in net' PROVE GrantAt(x)'
    <3>1. x.to \in Node /\ x.to # n /\ Peer(x.to) \in Node /\ GrantAt(x)
      BY <1>t, <2>1, PeerFacts DEF Grants
    <3> QED
      BY <2>1, <2>2, <3>1 DEF GrantAt
  <2> QED
    BY <2>3 DEF Grants
<1>15. ASSUME NEW n \in Node, Restart(n) PROVE Grants'
  <2>1. UNCHANGED <<net, marker, role>>
    BY <1>15 DEF Restart, messages
  <2>2. \A x \in Node : up[x] => up'[x]
    BY <1>t, <1>15 DEF Restart, Set
  <2> QED
    BY <1>t, <2>1, <2>2 DEF Grants, GrantAt
<1>16. ASSUME NEW w \in Write, Admit(w) PROVE Grants'
  <2>1. \A x \in net' : x \in net \/ (x.kind # "grant" /\ up[x.to])
    <3> DEFINE forward == Message("write", calls + 1, Peer(wr[w].at), 0, 0, w)
    <3>1. forward.kind # "grant"
      BY DEF Message
    <3>2. UNCHANGED net \/ Request(forward, {})
      BY <1>16 DEF Admit, messages
    <3> HIDE DEF forward
    <3> QED
      BY <3>1, <3>2 DEF Request, Reply, Awaited
  <2>2. UNCHANGED <<up, marker, role>>
    BY <1>16 DEF Admit, control
  <2> QED
    BY <1>t, <2>1, <2>2, GrantsKept
<1>17. ASSUME NEW w \in Write, ApplyLocally(w) PROVE Grants'
  <2>1. \A x \in net' : x \in net \/ (x.kind # "grant" /\ up[x.to])
    <3> DEFINE forward == Message("write", calls + 1, Peer(wr[w].at), 0, 0, w)
    <3>1. forward.kind # "grant"
      BY DEF Message
    <3>2. UNCHANGED net \/ Request(forward, {})
      BY <1>17 DEF ApplyLocally, messages
    <3> HIDE DEF forward
    <3> QED
      BY <3>1, <3>2 DEF Request, Reply, Awaited
  <2>2. UNCHANGED <<up, marker, role>>
    BY <1>17 DEF ApplyLocally, control
  <2> QED
    BY <1>t, <2>1, <2>2, GrantsKept
<1>18. ASSUME NEW w \in Write, Answered(w) PROVE Grants'
  <2>1. \A x \in net' : x \in net \/ (x.kind # "grant" /\ up[x.to])
    <3>1. net' \subseteq net
      BY <1>18 DEF Answered, TimedOut
    <3> QED
      BY <3>1
  <2>2. UNCHANGED <<up, marker, role>>
    BY <1>18 DEF Answered, control
  <2> QED
    BY <1>t, <2>1, <2>2, GrantsKept
<1>19. ASSUME NEW w \in Write, NEW n \in Node, Submit(w, n) PROVE Grants'
  <2>1. UNCHANGED <<net, up, marker, role>>
    BY <1>19 DEF Submit, control, messages, data
  <2> QED
    BY <1>t, <2>1 DEF Grants, GrantAt
<1>20. CASE Lose
  <2>1. \A x \in net' : x \in net \/ (x.kind # "grant" /\ up[x.to])
    <3>1. net' \subseteq net
      BY <1>20 DEF Lose, TimedOut
    <3> QED
      BY <3>1
  <2>2. UNCHANGED <<up, marker, role>>
    BY <1>20 DEF Lose, control
  <2> QED
    BY <1>t, <2>1, <2>2, GrantsKept
<1>21. CASE UNCHANGED vars
  <2>1. UNCHANGED <<net, up, marker, role>>
    BY <1>21 DEF vars, control, messages, data
  <2> QED
    BY <1>t, <2>1 DEF Grants, GrantAt
<1>22. ASSUME NEW w \in Write, ApplyFails(w) PROVE Grants'
  <2>1. UNCHANGED <<net, up, marker, role>>
    BY <1>22 DEF ApplyFails, control, messages, data
  <2> QED
    BY <1>t, <2>1 DEF Grants, GrantAt
<1>23. ASSUME NEW n \in Node, NEW m \in net, HandleWriteFails(n, m) PROVE Grants'
  <2>1. \A x \in net' : x \in net \/ (x.kind # "grant" /\ up[x.to])
    BY <1>23 DEF HandleWriteFails
  <2>2. UNCHANGED <<up, marker, role>>
    BY <1>23 DEF HandleWriteFails, control
  <2> QED
    BY <1>t, <2>1, <2>2, GrantsKept
<1> QED
  BY <1>1, <1>2, <1>3, <1>4, <1>5, <1>6, <1>7, <1>8, <1>9, <1>10, <1>11, <1>12, <1>13, <1>14, <1>15, <1>16, <1>17, <1>18, <1>19, <1>20, <1>21, <1>22, <1>23
     DEF Next, Progress, Environment

LEMMA AuthorityStep == AuthorityInv /\ [Next]_vars => AuthorityInv'
BY TypeStep, ModesStep, GatesStep, WritersStep, RecordedStep, OnePrimaryStep, GrantsStep DEF AuthorityInv

\* The inductive invariant of the pair's authority holds: a grant in flight is
\* no newer than its sender's record, its sender has withdrawn while it can be
\* accepted, and a handoff holds the gate alone.
THEOREM AuthorityInvHolds == Spec => []AuthorityInv
<1>1. Init => AuthorityInv
  BY AuthorityInit
<1>2. AuthorityInv /\ [Next]_vars => AuthorityInv'
  BY AuthorityStep
<1> QED
  BY <1>1, <1>2, PTL DEF Spec

\* However handoffs, promotions, restarts, lost messages and failed stores
\* interleave, the pair has two primaries only after a contested election: a
\* node without a record made itself primary beside the peer's claim
\* (choose_pair_role does not ask the peer).
THEOREM PairHasOnePrimary == Spec => []OnePrimary
<1>1. AuthorityInv => OnePrimary
  BY DEF AuthorityInv
<1> QED
  BY <1>1, AuthorityInvHolds, PTL

\* A primary's record names it: initiate_switchover, the handler, the operator
\* and the election store the record no later than they change the role.
THEOREM PrimaryHasRecord == Spec => []PrimaryIsRecorded
<1>1. AuthorityInv => PrimaryIsRecorded
  BY DEF AuthorityInv
<1> QED
  BY <1>1, AuthorityInvHolds, PTL

\* Until an election is contested, the handoff gate drains the old primary's
\* writes before the new one admits any, for any number of writes, requests and
\* faults (coordinate_write_with, initiate_switchover).
THEOREM WritersAlternate == Spec => []OneWriterAtATime
<1>1. AuthorityInv => OneWriterAtATime
  <2> SUFFICES ASSUME AuthorityInv, Writing(1), Writing(2) PROVE contested
    BY DEF OneWriterAtATime
  <2>1. role[1] = "primary" /\ role[2] = "primary"
    BY DEF AuthorityInv, Writers, WriterAt, Writing
  <2> QED
    BY <2>1 DEF AuthorityInv, OnePrimary
<1> QED
  BY <1>1, AuthorityInvHolds, PTL

------------------------------------------------------------------------------
\* The catch-up

\* A node whose catch-up is done owes its peer nothing, and only such a node is
\* in a handoff or has a grant on its way.
CaughtUp(n) == catchUp[n] = "ready"
OwedHeld == \A n \in Node : CaughtUp(n) => owed[n] \subseteq store[Peer(n)]
GateCaughtUp == \A n \in Node : HoldsGate(n) => CaughtUp(n)
GrantorCaughtUp(m) ==
    m.kind = "grant" =>
        CaughtUp(Peer(m.to)) /\ (Context(Peer(m.to)) \/ ~promoted[Peer(m.to)])
GrantsCaughtUp == \A m \in net : GrantorCaughtUp(m)
CatchUpInv == OwedHeld /\ GateCaughtUp /\ GrantsCaughtUp

\* No node owes anything at the start.
LEMMA CatchUpInit == Init => CatchUpInv
BY DEF Init, CatchUpInv, OwedHeld, GateCaughtUp, GrantsCaughtUp, HoldsGate, CaughtUp, Idle

\* Steps that leave the catch-up alone and send no grant.
LEMMA CatchUpKept ==
    ASSUME CatchUpInv, UNCHANGED <<catchUp, owed>>,
           \A n \in Node : store[n] \subseteq store'[n],
           \A n \in Node : HoldsGate(n)' => HoldsGate(n) \/ CaughtUp(n),
           \A m \in net : m.to \in Node,
           \A x \in net' : x \in net \/ x.kind # "grant",
           \A n \in Node : (Context(n) => Context(n)') /\ (promoted'[n] => promoted[n])
    PROVE  CatchUpInv'
<1>1. OwedHeld'
  BY PeerFacts DEF CatchUpInv, OwedHeld, CaughtUp
<1>2. GateCaughtUp'
  <2> SUFFICES ASSUME NEW n \in Node, HoldsGate(n)' PROVE CaughtUp(n)'
    BY DEF GateCaughtUp
  <2>1. CaughtUp(n)
    BY DEF CatchUpInv, GateCaughtUp
  <2> QED
    BY <2>1 DEF CaughtUp
<1>3. GrantsCaughtUp'
  <2> SUFFICES ASSUME NEW m \in net', m.kind = "grant" PROVE GrantorCaughtUp(m)'
    BY DEF GrantsCaughtUp, GrantorCaughtUp
  <2>1. m \in net /\ Peer(m.to) \in Node
    BY PeerFacts
  <2>2. CaughtUp(Peer(m.to)) /\ (Context(Peer(m.to)) \/ ~promoted[Peer(m.to)])
    BY <2>1 DEF CatchUpInv, GrantsCaughtUp, GrantorCaughtUp
  <2>3. CaughtUp(Peer(m.to))'
    BY <2>2 DEF CaughtUp
  <2>4. (Context(Peer(m.to)) \/ ~promoted[Peer(m.to)])'
    BY <2>1, <2>2
  <2> QED
    BY <2>3, <2>4 DEF GrantorCaughtUp
<1> QED
  BY <1>1, <1>2, <1>3 DEF CatchUpInv

\* A step of a node that enters its pair or leaves it restarts its catch-up.
LEMMA CatchUpMoved ==
    ASSUME AuthorityInv, CatchUpInv, NEW n \in Node, store' = store, UNCHANGED handoff,
           net' \subseteq net,
           \A x \in Node : x # n => /\ catchUp'[x] = catchUp[x] /\ owed'[x] = owed[x]
                                    /\ path'[x] = path[x] /\ promoted'[x] = promoted[x],
           CaughtUp(n)' => owed'[n] \subseteq store[Peer(n)], ~HoldsGate(n),
           \A m \in net : m.kind = "grant" /\ Peer(m.to) = n =>
              CaughtUp(n)' /\ (Context(n)' \/ ~promoted'[n])
    PROVE  CatchUpInv'
<1>1. OwedHeld'
  <2> SUFFICES ASSUME NEW x \in Node, CaughtUp(x)' PROVE owed'[x] \subseteq store[Peer(x)]
    BY DEF OwedHeld
  <2>1. CASE x = n
    BY <2>1
  <2>2. CASE x # n
    <3>1. CaughtUp(x) /\ owed'[x] = owed[x]
      BY <2>2 DEF CaughtUp
    <3> QED
      BY <3>1 DEF CatchUpInv, OwedHeld
  <2> QED
    BY <2>1, <2>2
<1>2. GateCaughtUp'
  <2> SUFFICES ASSUME NEW x \in Node, HoldsGate(x)' PROVE CaughtUp(x)'
    BY DEF GateCaughtUp
  <2>1. HoldsGate(x)
    BY DEF HoldsGate
  <2>2. x # n /\ CaughtUp(x)
    BY <2>1 DEF CatchUpInv, GateCaughtUp
  <2> QED
    BY <2>2 DEF CaughtUp
<1>3. GrantsCaughtUp'
  <2> SUFFICES ASSUME NEW m \in net', m.kind = "grant" PROVE GrantorCaughtUp(m)'
    BY DEF GrantsCaughtUp, GrantorCaughtUp
  <2>1. m \in net /\ Peer(m.to) \in Node
    BY PeerFacts, MessageFacts DEF AuthorityInv
  <2>2. CASE Peer(m.to) = n
    BY <2>1, <2>2 DEF GrantorCaughtUp
  <2>3. CASE Peer(m.to) # n
    <3>1. CaughtUp(Peer(m.to)) /\ (Context(Peer(m.to)) \/ ~promoted[Peer(m.to)])
      BY <2>1 DEF CatchUpInv, GrantsCaughtUp, GrantorCaughtUp
    <3> QED
      BY <2>1, <2>3, <3>1 DEF GrantorCaughtUp, CaughtUp, Context
  <2> QED
    BY <2>2, <2>3
<1> QED
  BY <1>1, <1>2, <1>3 DEF CatchUpInv

\* Every step keeps the catch-up's account.
LEMMA CatchUpStep == AuthorityInv /\ CatchUpInv /\ [Next]_vars => CatchUpInv'
<1> SUFFICES ASSUME AuthorityInv, CatchUpInv, [Next]_vars PROVE CatchUpInv'
  OBVIOUS
<1>t. /\ path \in [Node -> Paths] /\ promoted \in [Node -> BOOLEAN] /\ catchUp \in [Node -> CatchUps]
      /\ owed \in [Node -> SUBSET Write] /\ handoff \in [Node -> Handoffs] /\ store \in [Node -> SUBSET Write]
      /\ wr \in [Write -> ClientWrites]
      /\ \A m \in net : m.to \in Node
  BY MessageFacts DEF AuthorityInv, TypeOK
<1>n. \A n \in Node : HoldsGate(n) => Context(n)
  BY DEF AuthorityInv, Modes, ModesAt, HoldsGate
<1>g. \A n \in Node : ~up[Peer(n)] => \A m \in net : Peer(m.to) # n
  BY PeerFacts, <1>t DEF AuthorityInv, Grants, GrantAt
<1>u. ASSUME NEW n \in Node, NEW S
      PROVE  \A x \in Node : store[x] \subseteq Set(store, n, store[n] \cup S)[x]
  BY <1>t DEF Set
<1>1. ASSUME NEW n \in Node, Connect(n) PROVE CatchUpInv'
  <2>1. CASE Context(n)
    <3>1. UNCHANGED <<catchUp, owed, store, handoff, net, path, promoted>>
      BY <1>1, <2>1 DEF Connect, messages, data
    <3> QED
      BY <1>t, <3>1, CatchUpKept DEF HoldsGate, Context
  <2>2. CASE ~Context(n)
    <3>1. store' = store /\ UNCHANGED handoff /\ net' \subseteq net
      BY <1>1 DEF Connect, messages, data
    <3>2. \A x \in Node : x # n => /\ catchUp'[x] = catchUp[x] /\ owed'[x] = owed[x]
                                   /\ path'[x] = path[x] /\ promoted'[x] = promoted[x]
      BY <1>t, <1>1, <2>2 DEF Connect, Installed, BeginCatchUp, Set
    <3>3. promoted'[n] = FALSE
      BY <1>t, <1>1, <2>2 DEF Connect, Set
    <3>4. \/ UNCHANGED <<catchUp, owed>>
          \/ promoted[n] /\ catchUp'[n] = "running"
          \/ catchUp'[n] = "ready" /\ owed'[n] = {}
      BY <1>t, <1>1, <2>2 DEF Connect, Installed, BeginCatchUp, Set
    <3>5. \A m \in net : m.kind = "grant" /\ Peer(m.to) = n => CaughtUp(n) /\ ~promoted[n]
      BY <2>2 DEF CatchUpInv, GrantsCaughtUp, GrantorCaughtUp
    <3>6. \A m \in net : m.kind = "grant" /\ Peer(m.to) = n => CaughtUp(n)' /\ ~promoted'[n]
      BY <3>3, <3>4, <3>5 DEF CaughtUp
    <3>7. CASE CaughtUp(n)' => owed'[n] \subseteq store[Peer(n)]
      BY <1>n, <2>2, <3>1, <3>2, <3>6, <3>7, CatchUpMoved
    <3>8. CASE UNCHANGED <<catchUp, owed>>
      <4>1. \A x \in Node : (Context(x) => Context(x)') /\ (promoted'[x] => promoted[x])
        BY <2>2, <3>2, <3>3 DEF Context
      <4> QED
        BY <1>t, <3>1, <3>8, <4>1, CatchUpKept DEF HoldsGate
    <3> QED
      BY <3>4, <3>7, <3>8 DEF CaughtUp
  <2> QED
    BY <2>1, <2>2
<1>2. ASSUME NEW n \in Node, Disconnect(n) PROVE CatchUpInv'
  <2>1. UNCHANGED <<catchUp, owed, store, handoff, net, promoted>>
    BY <1>2 DEF Disconnect, messages, data
  <2>2. \A x \in Node : Context(x) => Context(x)'
    BY <1>t, <1>2 DEF Disconnect, Set, Context
  <2> QED
    BY <1>t, <2>1, <2>2, CatchUpKept DEF HoldsGate
<1>3. ASSUME NEW n \in Node, ReplayLog(n) PROVE CatchUpInv'
  <2>1. UNCHANGED <<handoff, net, path, promoted>> /\ catchUp[n] = "running"
    BY <1>3 DEF ReplayLog, messages
  <2>2. PICK logged \in SUBSET store[n] : \E sent \in SUBSET logged :
          /\ owed' = Set(owed, n, logged)
          /\ store' = Set(store, Peer(n), store[Peer(n)] \cup sent)
          /\ \/ sent = logged /\ catchUp' = Set(catchUp, n, "ready")
             \/ catchUp' = Set(catchUp, n, "failed")
    BY <1>3 DEF ReplayLog
  <2>3. PICK sent \in SUBSET logged :
          /\ owed' = Set(owed, n, logged)
          /\ store' = Set(store, Peer(n), store[Peer(n)] \cup sent)
          /\ \/ sent = logged /\ catchUp' = Set(catchUp, n, "ready")
             \/ catchUp' = Set(catchUp, n, "failed")
    BY <2>2
  <2>4. \A x \in Node : store[x] \subseteq store'[x]
    BY <1>u, <2>3, PeerFacts
  <2>5. \A x \in Node : x # n => catchUp'[x] = catchUp[x] /\ owed'[x] = owed[x]
    BY <1>t, <2>3 DEF Set
  <2>6. catchUp'[n] = "ready" => owed'[n] \subseteq store'[Peer(n)]
    <3>1. owed'[n] = logged /\ store'[Peer(n)] = store[Peer(n)] \cup sent
      BY <1>t, <2>3, PeerFacts DEF Set
    <3>2. catchUp'[n] = "ready" => sent = logged
      BY <1>t, <2>3 DEF Set
    <3> QED
      BY <3>1, <3>2
  <2>7. OwedHeld'
    <3> SUFFICES ASSUME NEW x \in Node, catchUp'[x] = "ready" PROVE owed'[x] \subseteq store'[Peer(x)]
      BY DEF OwedHeld, CaughtUp
    <3>1. CASE x # n
      <4>1. owed[x] \subseteq store[Peer(x)]
        BY <2>5, <3>1 DEF CatchUpInv, OwedHeld, CaughtUp
      <4> QED
        BY <2>4, <2>5, <3>1, <4>1, PeerFacts
    <3> QED
      BY <2>6, <3>1
  <2>8. ~CaughtUp(n)
    BY <2>1 DEF CaughtUp
  <2>9. GateCaughtUp'
    BY <2>1, <2>5, <2>8 DEF CatchUpInv, GateCaughtUp, HoldsGate, CaughtUp
  <2>10. GrantsCaughtUp'
    <3> SUFFICES ASSUME NEW m \in net, m.kind = "grant" PROVE GrantorCaughtUp(m)'
      BY <2>1 DEF GrantsCaughtUp, GrantorCaughtUp
    <3>1. CaughtUp(Peer(m.to)) /\ (Context(Peer(m.to)) \/ ~promoted[Peer(m.to)])
      BY DEF CatchUpInv, GrantsCaughtUp, GrantorCaughtUp
    <3>2. Peer(m.to) \in Node /\ Peer(m.to) # n
      BY <1>t, <2>8, <3>1, PeerFacts
    <3> QED
      BY <2>1, <2>5, <3>1, <3>2 DEF GrantorCaughtUp, CaughtUp, Context
  <2> QED
    BY <2>7, <2>9, <2>10 DEF CatchUpInv
<1>4. ASSUME NEW n \in Node, PromotePair(n) PROVE CatchUpInv'
  <2>1. store' = store /\ UNCHANGED handoff /\ net' \subseteq net /\ ~up[Peer(n)]
    BY <1>4 DEF PromotePair, OperatorPromotes, messages, data
  <2>2. \A x \in Node : x # n => /\ catchUp'[x] = catchUp[x] /\ owed'[x] = owed[x]
                                 /\ path'[x] = path[x] /\ promoted'[x] = promoted[x]
    BY <1>t, <1>4 DEF PromotePair, BeginCatchUp, Set
  <2>3. \A m \in net : Peer(m.to) # n
    BY <1>g, <2>1
  <2>4. ~HoldsGate(n)
    BY <1>4, <1>n DEF PromotePair, GateFree
  <2>5. CASE CaughtUp(n)' => owed'[n] \subseteq store[Peer(n)]
    BY <2>1, <2>2, <2>3, <2>4, <2>5, CatchUpMoved
  <2>6. CASE UNCHANGED <<catchUp, owed>>
    <3>1. OwedHeld'
      BY <2>1, <2>6 DEF CatchUpInv, OwedHeld, CaughtUp
    <3>2. GateCaughtUp'
      BY <2>1, <2>6 DEF CatchUpInv, GateCaughtUp, HoldsGate, CaughtUp
    <3>3. GrantsCaughtUp'
      <4> SUFFICES ASSUME NEW m \in net, m.kind = "grant" PROVE GrantorCaughtUp(m)'
        BY <2>1 DEF GrantsCaughtUp, GrantorCaughtUp
      <4>1. CaughtUp(Peer(m.to)) /\ (Context(Peer(m.to)) \/ ~promoted[Peer(m.to)])
        BY DEF CatchUpInv, GrantsCaughtUp, GrantorCaughtUp
      <4>2. Peer(m.to) \in Node /\ Peer(m.to) # n
        BY <1>t, <2>3, PeerFacts
      <4> QED
        BY <2>2, <4>1, <4>2 DEF GrantorCaughtUp, CaughtUp, Context
    <3> QED
      BY <3>1, <3>2, <3>3 DEF CatchUpInv
  <2>7. UNCHANGED <<catchUp, owed>> \/ catchUp'[n] = "running" \/ owed'[n] = {}
    BY <1>t, <1>4 DEF PromotePair, BeginCatchUp, Set
  <2> QED
    BY <2>5, <2>6, <2>7 DEF CaughtUp
<1>5. ASSUME NEW n \in Node, PromoteStandalone(n) PROVE CatchUpInv'
  <2>1. /\ store' = store /\ UNCHANGED <<handoff, catchUp, owed>> /\ net' = net /\ ~up[Peer(n)]
        /\ ~Context(n)
    BY <1>5 DEF PromoteStandalone, OperatorPromotes, Known, messages, data
  <2>2. \A x \in Node : x # n => path'[x] = path[x] /\ promoted'[x] = promoted[x]
    BY <1>t, <1>5 DEF PromoteStandalone, Set
  <2>3. OwedHeld'
    BY <2>1 DEF CatchUpInv, OwedHeld, CaughtUp
  <2>4. GateCaughtUp'
    BY <2>1 DEF CatchUpInv, GateCaughtUp, HoldsGate, CaughtUp
  <2>5. GrantsCaughtUp'
    <3> SUFFICES ASSUME NEW m \in net, m.kind = "grant" PROVE GrantorCaughtUp(m)'
      BY <2>1 DEF GrantsCaughtUp, GrantorCaughtUp
    <3>1. CaughtUp(Peer(m.to)) /\ (Context(Peer(m.to)) \/ ~promoted[Peer(m.to)])
      BY DEF CatchUpInv, GrantsCaughtUp, GrantorCaughtUp
    <3>2. Peer(m.to) \in Node /\ Peer(m.to) # n
      BY <1>g, <1>t, <2>1, PeerFacts
    <3> QED
      BY <2>1, <2>2, <3>1, <3>2 DEF GrantorCaughtUp, CaughtUp, Context
  <2> QED
    BY <2>3, <2>4, <2>5 DEF CatchUpInv
<1>6. ASSUME NEW n \in Node, Switchover(n) PROVE CatchUpInv'
  <2>1. UNCHANGED <<catchUp, owed, store, net, path, promoted>>
    BY <1>6 DEF Switchover, control, messages, data
  <2>2. \A x \in Node : HoldsGate(x)' => HoldsGate(x)
    BY <1>t, <1>6 DEF Switchover, Set, Idle, HoldsGate
  <2> QED
    BY <1>t, <2>1, <2>2, CatchUpKept DEF Context
<1>7. ASSUME NEW n \in Node, Prepare(n) PROVE CatchUpInv'
  <2>1. UNCHANGED <<catchUp, owed, store, path, promoted>>
    BY <1>7 DEF Prepare, control, data
  <2>2. \A x \in Node : HoldsGate(x)' => HoldsGate(x) \/ CaughtUp(x)
    BY SMT, <1>t, <1>7 DEF Prepare, Set, Idle, HoldsGate, CaughtUp
  <2>3. \A x \in net' : x \in net \/ x.kind # "grant"
    BY SMT, <1>7 DEF Prepare, Request, Message, messages
  <2> QED
    BY <1>t, <2>1, <2>2, <2>3, CatchUpKept DEF Context
<1>8. ASSUME NEW n \in Node, NEW m \in net, Withdraw(n, m) PROVE CatchUpInv'
  <2>1. UNCHANGED <<catchUp, owed, store, path, promoted>> /\ handoff[n].step = "prepare"
    BY <1>8 DEF Withdraw, data
  <2>2. HoldsGate(n) /\ CaughtUp(n) /\ Context(n)
    BY <1>n, <2>1 DEF HoldsGate, CatchUpInv, GateCaughtUp
  <2>3. \A x \in net' : x \in net \/ x.to = Peer(n)
    BY SMT, <1>8 DEF Withdraw, Request, Message
  <2>4. OwedHeld'
    BY <2>1 DEF CatchUpInv, OwedHeld, CaughtUp
  <2>5. GateCaughtUp'
    <3>1. \A x \in Node : x # n => handoff'[x] = handoff[x]
      BY <1>t, <1>8 DEF Withdraw, Set
    <3> QED
      BY <2>1, <2>2, <3>1 DEF CatchUpInv, GateCaughtUp, HoldsGate, CaughtUp
  <2>6. GrantsCaughtUp'
    <3> SUFFICES ASSUME NEW x \in net', x.kind = "grant" PROVE GrantorCaughtUp(x)'
      BY DEF GrantsCaughtUp, GrantorCaughtUp
    <3>1. CaughtUp(Peer(x.to)) /\ (Context(Peer(x.to)) \/ ~promoted[Peer(x.to)])
      BY <2>2, <2>3, PeerFacts DEF CatchUpInv, GrantsCaughtUp, GrantorCaughtUp
    <3> QED
      BY <2>1, <3>1 DEF GrantorCaughtUp, CaughtUp, Context
  <2> QED
    BY <2>4, <2>5, <2>6 DEF CatchUpInv
<1>9. ASSUME NEW n \in Node, HandoffEnds(n) PROVE CatchUpInv'
  <2>1. UNCHANGED <<catchUp, owed, store, path, promoted>> /\ net' \subseteq net
    BY <1>9 DEF HandoffEnds, TimedOut, control, data
  <2>2. \A x \in Node : HoldsGate(x)' => HoldsGate(x)
    BY <1>t, <1>9 DEF HandoffEnds, Set, Idle, HoldsGate
  <2> QED
    BY <1>t, <2>1, <2>2, CatchUpKept DEF Context
<1>10. ASSUME NEW n \in Node, NEW m \in net, HandlePrepare(n, m) PROVE CatchUpInv'
  <2>1. UNCHANGED <<catchUp, owed, store, path, promoted, handoff>>
    BY <1>10 DEF HandlePrepare, control, data
  <2>2. \A x \in net' : x \in net \/ x.kind # "grant"
    BY SMT, <1>10 DEF HandlePrepare, Reply, Message
  <2> QED
    BY <1>t, <2>1, <2>2, CatchUpKept DEF Context, HoldsGate
<1>11. ASSUME NEW n \in Node, NEW m \in net, HandleGrant(n, m) PROVE CatchUpInv'
  <2>1. UNCHANGED <<catchUp, owed, store, path, promoted, handoff>>
    BY <1>11 DEF HandleGrant, data
  <2>2. \A x \in net' : x \in net \/ x.kind # "grant"
    BY SMT, <1>11 DEF HandleGrant, Reply, Message
  <2> QED
    BY <1>t, <2>1, <2>2, CatchUpKept DEF Context, HoldsGate
<1>12. ASSUME NEW n \in Node, NEW m \in net, HandleWrite(n, m) PROVE CatchUpInv'
  <2>1. /\ UNCHANGED <<catchUp, owed, path, promoted, handoff>>
        /\ store' = Set(store, n, store[n] \cup {m.write})
    BY <1>12 DEF HandleWrite, control
  <2>2. \A x \in net' : x \in net \/ x.kind # "grant"
    BY SMT, <1>12 DEF HandleWrite, Request, Reply, Message
  <2>3. \A x \in Node : store[x] \subseteq store'[x]
    BY <1>u, <2>1
  <2> QED
    BY <1>t, <2>1, <2>2, <2>3, CatchUpKept DEF Context, HoldsGate
<1>13. ASSUME NEW n \in Node, ServeEnds(n) PROVE CatchUpInv'
  <2>1. UNCHANGED <<catchUp, owed, store, path, promoted, handoff>>
    BY <1>13 DEF ServeEnds, control
  <2>2. \A x \in net' : x \in net \/ x.kind # "grant"
    BY SMT, <1>13 DEF ServeEnds, Reply, Message, TimedOut
  <2> QED
    BY <1>t, <2>1, <2>2, CatchUpKept DEF Context, HoldsGate
<1>14. ASSUME NEW n \in Node, Crash(n) PROVE CatchUpInv'
  <2>1. store' = store /\ net' \subseteq net
    BY <1>14 DEF Crash
  <2>2. /\ catchUp'[n] = "ready" /\ owed'[n] = {} /\ promoted'[n] = FALSE /\ handoff'[n] = Idle
        /\ \A x \in Node : x # n => /\ catchUp'[x] = catchUp[x] /\ owed'[x] = owed[x] /\ path'[x] = path[x]
                                    /\ promoted'[x] = promoted[x] /\ handoff'[x] = handoff[x]
    BY <1>t, <1>14 DEF Crash, Set
  <2>3. OwedHeld'
    BY <2>1, <2>2 DEF CatchUpInv, OwedHeld, CaughtUp
  <2>4. GateCaughtUp'
    BY <2>2 DEF CatchUpInv, GateCaughtUp, HoldsGate, CaughtUp, Idle
  <2>5. GrantsCaughtUp'
    <3> SUFFICES ASSUME NEW x \in net', x.kind = "grant" PROVE GrantorCaughtUp(x)'
      BY DEF GrantsCaughtUp, GrantorCaughtUp
    <3>1. CaughtUp(Peer(x.to)) /\ (Context(Peer(x.to)) \/ ~promoted[Peer(x.to)]) /\ Peer(x.to) \in Node
      BY <1>t, <2>1, PeerFacts DEF CatchUpInv, GrantsCaughtUp, GrantorCaughtUp
    <3>2. CASE Peer(x.to) = n
      BY <2>2, <3>2 DEF GrantorCaughtUp, CaughtUp
    <3>3. CASE Peer(x.to) # n
      BY <2>2, <3>1, <3>3 DEF GrantorCaughtUp, CaughtUp, Context
    <3> QED
      BY <3>2, <3>3
  <2> QED
    BY <2>3, <2>4, <2>5 DEF CatchUpInv
<1>15. ASSUME NEW n \in Node, Restart(n) PROVE CatchUpInv'
  <2>1. UNCHANGED <<catchUp, owed, store, promoted, handoff, net>> /\ ~up[n]
    BY <1>15 DEF Restart, messages, data
  <2>2. \A x \in Node : Context(x) => Context(x)'
    <3>1. ~Context(n)
      BY <2>1 DEF AuthorityInv, Modes, ModesAt
    <3>2. \A x \in Node : x # n => path'[x] = path[x]
      BY <1>t, <1>15 DEF Restart, Set
    <3> QED
      BY <3>1, <3>2 DEF Context
  <2> QED
    BY <1>t, <2>1, <2>2, CatchUpKept DEF HoldsGate
<1>16. ASSUME NEW w \in Write, Admit(w) PROVE CatchUpInv'
  <2>1. UNCHANGED <<catchUp, owed, store, path, promoted, handoff>>
    BY <1>16 DEF Admit, control
  <2>2. \A x \in net' : x \in net \/ x.kind # "grant"
    BY SMT, <1>16 DEF Admit, Request, Message, messages
  <2> QED
    BY <1>t, <2>1, <2>2, CatchUpKept DEF Context, HoldsGate
<1>17. ASSUME NEW w \in Write, ApplyLocally(w) PROVE CatchUpInv'
  <2>1. /\ UNCHANGED <<catchUp, owed, path, promoted, handoff>>
        /\ store' = Set(store, wr[w].at, store[wr[w].at] \cup {w})
    BY <1>17 DEF ApplyLocally, control
  <2>2. \A x \in net' : x \in net \/ x.kind # "grant"
    BY SMT, <1>17 DEF ApplyLocally, Request, Message, messages
  <2>3. wr[w].at \in Node
    BY <1>t DEF ClientWrites
  <2>4. \A x \in Node : store[x] \subseteq store'[x]
    BY <1>u, <2>1, <2>3
  <2> QED
    BY <1>t, <2>1, <2>2, <2>4, CatchUpKept DEF Context, HoldsGate
<1>18. ASSUME NEW w \in Write, Answered(w) PROVE CatchUpInv'
  <2>1. UNCHANGED <<catchUp, owed, store, path, promoted, handoff>> /\ net' \subseteq net
    BY <1>18 DEF Answered, TimedOut, control
  <2> QED
    BY <1>t, <2>1, CatchUpKept DEF Context, HoldsGate
<1>19. ASSUME NEW w \in Write, NEW n \in Node, Submit(w, n) PROVE CatchUpInv'
  <2>1. UNCHANGED <<catchUp, owed, path, promoted, handoff, net>>
    BY <1>19 DEF Submit, control, messages
  <2>2. \A x \in Node : store[x] \subseteq store'[x]
    BY <1>u, <1>19 DEF Submit
  <2> QED
    BY <1>t, <2>1, <2>2, CatchUpKept DEF Context, HoldsGate
<1>20. CASE Lose
  <2>1. UNCHANGED <<catchUp, owed, store, path, promoted, handoff>> /\ net' \subseteq net
    BY <1>20 DEF Lose, control, data
  <2> QED
    BY <1>t, <2>1, CatchUpKept DEF Context, HoldsGate
<1>21. CASE UNCHANGED vars
  <2>1. UNCHANGED <<catchUp, owed, store, path, promoted, handoff, net>>
    BY <1>21 DEF vars, control, messages, data
  <2> QED
    BY <1>t, <2>1, CatchUpKept DEF Context, HoldsGate
<1>22. ASSUME NEW w \in Write, ApplyFails(w) PROVE CatchUpInv'
  <2>1. /\ UNCHANGED <<catchUp, owed, path, promoted, handoff, net>>
        /\ store' = store \/ store' = Set(store, wr[w].at, store[wr[w].at] \cup {w})
    BY <1>22 DEF ApplyFails, control, messages
  <2>2. wr[w].at \in Node
    BY <1>t DEF ClientWrites
  <2>3. \A x \in Node : store[x] \subseteq store'[x]
    BY <1>u, <2>1, <2>2
  <2> QED
    BY <1>t, <2>1, <2>3, CatchUpKept DEF Context, HoldsGate
<1>23. ASSUME NEW n \in Node, NEW m \in net, HandleWriteFails(n, m) PROVE CatchUpInv'
  <2>1. /\ UNCHANGED <<catchUp, owed, path, promoted, handoff>> /\ net' \subseteq net
        /\ store' = store \/ store' = Set(store, n, store[n] \cup {m.write})
    BY <1>23 DEF HandleWriteFails, control
  <2>2. \A x \in Node : store[x] \subseteq store'[x]
    BY <1>u, <2>1
  <2> QED
    BY <1>t, <2>1, <2>2, CatchUpKept DEF Context, HoldsGate
<1> QED
  BY <1>1, <1>2, <1>3, <1>4, <1>5, <1>6, <1>7, <1>8, <1>9, <1>10, <1>11, <1>12, <1>13, <1>14, <1>15, <1>16, <1>17, <1>18, <1>19, <1>20, <1>21, <1>22, <1>23
     DEF Next, Progress, Environment

\* However promotions, crashes, failed replays and delayed grants interleave, a
\* handoff makes a node primary only when it holds every mutation that the old
\* primary's catch-up owed it (CatchUpGate, initiate_switchover).  Where no
\* catch-up was begun nothing is owed, whatever the peer missed.
THEOREM HandoffAfterCatchUp == Spec => CaughtUpFirst
<1>1. CatchUpInv /\ AuthorityInv /\ [Next]_vars =>
        [\A n \in Node : role[n] = "secondary" /\ (\E m \in net : HandleGrant(n, m)) /\ role'[n] = "primary" =>
           owed[Peer(n)] \subseteq store[n]]_vars
  <2> SUFFICES ASSUME CatchUpInv, NEW n \in Node, NEW m \in net, HandleGrant(n, m)
               PROVE  owed[Peer(n)] \subseteq store[n]
    OBVIOUS
  <2>1. m.kind = "grant" /\ m.to = n
    BY DEF HandleGrant
  <2>2. CaughtUp(Peer(n))
    BY <2>1 DEF CatchUpInv, GrantsCaughtUp, GrantorCaughtUp
  <2> QED
    BY <2>2, PeerFacts DEF CatchUpInv, OwedHeld
<1> QED
  BY <1>1, AuthorityInvHolds, CatchUpInit, CatchUpStep, PTL DEF Spec, CaughtUpFirst

------------------------------------------------------------------------------
\* The copies of a write

\* Every request carries one write, F[id] for request id.  A write request holds
\* that write; whoever waits for another node's copy has its own; an answer says
\* that its sender has a copy, and to a client that forwarded the write that both
\* nodes have one, unless a fenced peer confirmed it alone.
Waits(w) == wr[w].step \in {"replicating", "forwarding"}
OnBoth(w) == \A n \in Node : w \in store[n]
ClientCarries(F, w) ==
    /\ Waits(w) => F[wr[w].id] = w /\ wr[w].id <= calls
    /\ wr[w].step = "replicating" => w \in store[wr[w].at]
MessageCarries(F, m) ==
    /\ m.id <= calls
    /\ m.kind = "write" => F[m.id] = m.write
    /\ m.kind = "ack" => F[m.id] \in store[Peer(m.to)]
ServerCarries(F, s) ==
    s.id <= calls /\ s.reply <= calls /\ F[s.id] = F[s.reply] /\ F[s.id] \in store[s.at]
Confirmed(m, w) ==
    m.kind = "ack" /\ wr[w].step = "forwarding" /\ wr[w].id = m.id => w \in lone \/ OnBoth(w)
Carried(F) ==
    /\ \A w \in Write : ClientCarries(F, w)
    /\ \A m \in net : MessageCarries(F, m)
    /\ \A s \in serving : ServerCarries(F, s)
    /\ \A m \in net, w \in Write : Confirmed(m, w)
CopyInv == (\E F \in [Nat -> Write \cup {NoWrite}] : Carried(F)) /\ AckedIsOnBoth

\* No write is under way at the start.
LEMMA CopyInit == Init => CopyInv
<1> SUFFICES ASSUME Init PROVE CopyInv
  OBVIOUS
<1>1. \A w \in Write : wr[w].step \in {"new", "none"}
  BY SMT DEF Init, NewWrite, NoClient
<1>2. net = {} /\ serving = {}
  BY DEF Init
<1>3. Carried([i \in Nat |-> NoWrite])
  BY <1>1, <1>2 DEF Carried, ClientCarries, Waits
<1>4. AckedIsOnBoth
  BY <1>1 DEF AckedIsOnBoth
<1> QED
  BY <1>3, <1>4 DEF CopyInv

\* The stores, the count of requests and the history of lone copies only grow.
CopiesGrow ==
    /\ \A n \in Node : store[n] \subseteq store'[n]
    /\ lone \subseteq lone' /\ calls \in Nat /\ calls' \in Nat /\ calls <= calls'

\* What a client's write, a message and a server say stays true while the copies
\* grow and old requests keep their writes.
LEMMA ClientKept ==
    ASSUME NEW F, NEW G, NEW w \in Write, CopiesGrow, wr \in [Write -> ClientWrites],
           \A i \in Nat : i <= calls => G[i] = F[i],
           wr'[w] = wr[w] \/ wr'[w].step \notin {"replicating", "forwarding"},
           ClientCarries(F, w)
    PROVE  ClientCarries(G, w)'
<1>1. CASE wr'[w] = wr[w]
  <2>1. wr[w].id \in Nat /\ wr[w].at \in Node
    BY DEF ClientWrites
  <2>2. wr[w].id <= calls => wr[w].id <= calls'
    BY SMT, <2>1 DEF CopiesGrow
  <2> QED
    BY <1>1, <2>1, <2>2 DEF ClientCarries, Waits, CopiesGrow
<1>2. CASE wr'[w].step \notin {"replicating", "forwarding"}
  BY <1>2 DEF ClientCarries, Waits
<1> QED
  BY <1>1, <1>2

LEMMA MessageKept ==
    ASSUME NEW F, NEW G, NEW m \in Messages, CopiesGrow,
           \A i \in Nat : i <= calls => G[i] = F[i],
           MessageCarries(F, m)
    PROVE  MessageCarries(G, m)'
<1>1. m.id \in Nat /\ m.to \in Node /\ Peer(m.to) \in Node
  BY PeerFacts DEF Messages
<1>2. m.id <= calls => m.id <= calls'
  BY SMT, <1>1 DEF CopiesGrow
<1> QED
  BY <1>1, <1>2 DEF MessageCarries, CopiesGrow

LEMMA ServerKept ==
    ASSUME NEW F, NEW G, NEW s \in Servings, CopiesGrow,
           \A i \in Nat : i <= calls => G[i] = F[i],
           ServerCarries(F, s)
    PROVE  ServerCarries(G, s)'
<1>1. s.id \in Nat /\ s.reply \in Nat /\ s.at \in Node
  BY DEF Servings
<1>2. (s.id <= calls => s.id <= calls') /\ (s.reply <= calls => s.reply <= calls')
  BY SMT, <1>1 DEF CopiesGrow
<1> QED
  BY <1>1, <1>2 DEF ServerCarries, CopiesGrow

LEMMA ConfirmedKept ==
    ASSUME NEW m, NEW w \in Write, CopiesGrow, Confirmed(m, w),
           wr'[w] = wr[w] \/ wr'[w].step \notin {"replicating", "forwarding"}
    PROVE  Confirmed(m, w)'
BY DEF Confirmed, OnBoth, CopiesGrow

LEMMA AckedKept ==
    ASSUME AckedIsOnBoth, CopiesGrow,
           \A w \in Write : wr'[w].step = "acked" => wr[w].step = "acked" \/ Level[w] # "all" \/ w \in lone \/ OnBoth(w)
    PROVE  AckedIsOnBoth'
BY DEF AckedIsOnBoth, OnBoth, CopiesGrow

\* Steps that send neither a write nor an answer to one, and let no client wait.
LEMMA CarriedKept ==
    ASSUME TypeOK, CopyInv, CopiesGrow, serving' \subseteq serving,
           \A x \in net' : x \in net \/ (x.id <= calls' /\ x.kind \notin {"write", "ack"}),
           \A w \in Write : wr'[w] = wr[w] \/ wr'[w].step \notin {"replicating", "forwarding", "acked"}
    PROVE  CopyInv'
<1>1. PICK F \in [Nat -> Write \cup {NoWrite}] : Carried(F)
  BY DEF CopyInv
<1>2. wr \in [Write -> ClientWrites] /\ net \subseteq Messages /\ serving \subseteq Servings
  BY DEF TypeOK
<1>3. Carried(F)'
  <2>1. ASSUME NEW w \in Write PROVE ClientCarries(F, w)'
    BY <1>1, <1>2, ClientKept DEF Carried
  <2>2. ASSUME NEW m \in net' PROVE MessageCarries(F, m)'
    <3>1. CASE m \in net
      BY <1>1, <1>2, <3>1, MessageKept DEF Carried
    <3>2. CASE m.id <= calls' /\ m.kind \notin {"write", "ack"}
      BY <3>2 DEF MessageCarries
    <3> QED
      BY <3>1, <3>2
  <2>3. ASSUME NEW s \in serving' PROVE ServerCarries(F, s)'
    BY <1>1, <1>2, ServerKept DEF Carried
  <2>4. ASSUME NEW m \in net', NEW w \in Write PROVE Confirmed(m, w)'
    <3>1. CASE m \in net
      BY <1>1, <3>1, ConfirmedKept DEF Carried
    <3>2. CASE m.kind # "ack"
      BY <3>2 DEF Confirmed
    <3> QED
      BY <3>1, <3>2
  <2> QED
    BY <2>1, <2>2, <2>3, <2>4 DEF Carried
<1>4. AckedIsOnBoth'
  BY AckedKept DEF CopyInv
<1> QED
  BY <1>1, <1>3, <1>4 DEF CopyInv

\* A step that sends the write request calls + 1 carrying w.
LEMMA RequestCarried ==
    ASSUME TypeOK, TypeOK', CopyInv, CopiesGrow, NEW w \in Write, NEW consumed, NEW to \in Node,
           Request(Message("write", calls + 1, to, 0, 0, w), consumed),
           \A s \in serving' : s \in serving \/
              (s.id = calls + 1 /\ s.at \in Node /\ w \in store'[s.at] /\
               \E m \in net : m.kind = "write" /\ m.write = w /\ s.reply = m.id),
           \A v \in Write : \/ wr'[v] = wr[v]
                            \/ /\ v = w /\ wr'[v].id = calls + 1
                               /\ wr'[v].step \in {"replicating", "forwarding"}
                               /\ wr'[v].step = "replicating" => w \in store'[wr'[v].at]
    PROVE  CopyInv'
<1>1. PICK F \in [Nat -> Write \cup {NoWrite}] : Carried(F)
  BY DEF CopyInv
<1>2. /\ wr \in [Write -> ClientWrites] /\ net \subseteq Messages /\ serving \subseteq Servings
      /\ calls \in Nat
  BY DEF TypeOK
<1>3. PICK G \in [Nat -> Write \cup {NoWrite}] : G[calls + 1] = w /\ \A i \in Nat : i <= calls => G[i] = F[i]
  <2> DEFINE H == [i \in Nat |-> IF i = calls + 1 THEN w ELSE F[i]]
  <2>1. H \in [Nat -> Write \cup {NoWrite}]
    OBVIOUS
  <2>2. H[calls + 1] = w /\ \A i \in Nat : i <= calls => H[i] = F[i]
    BY SMT, <1>2
  <2> QED
    BY <2>1, <2>2
<1>4. calls' = calls + 1 /\ calls + 1 \in Nat
  BY SMT, <1>2 DEF Request
<1>5. \A x \in net' : x \in net \/ (x.kind = "write" /\ x.id = calls + 1 /\ x.write = w)
  BY SMT DEF Request, Message
<1>6. Carried(G)'
  <2>1. ASSUME NEW v \in Write PROVE ClientCarries(G, v)'
    <3>1. CASE wr'[v] = wr[v]
      BY <1>1, <1>2, <1>3, <3>1, ClientKept DEF Carried
    <3>2. CASE /\ v = w /\ wr'[v].id = calls + 1
               /\ wr'[v].step = "replicating" => w \in store'[wr'[v].at]
      <4>1. wr'[v].id <= calls'
        BY SMT, <1>4, <3>2
      <4> QED
        BY <1>3, <3>2, <4>1 DEF ClientCarries
    <3> QED
      BY <3>1, <3>2
  <2>2. ASSUME NEW m \in net' PROVE MessageCarries(G, m)'
    <3>1. CASE m \in net
      BY <1>1, <1>2, <1>3, <3>1, MessageKept DEF Carried
    <3>2. CASE m.kind = "write" /\ m.id = calls + 1 /\ m.write = w
      <4>1. m.id <= calls'
        BY SMT, <1>4, <3>2
      <4> QED
        BY <1>3, <3>2, <4>1 DEF MessageCarries
    <3> QED
      BY <1>5, <3>1, <3>2
  <2>3. ASSUME NEW s \in serving' PROVE ServerCarries(G, s)'
    <3>1. CASE s \in serving
      BY <1>1, <1>2, <1>3, <3>1, ServerKept DEF Carried
    <3>2. CASE s.id = calls + 1 /\ s.at \in Node /\ w \in store'[s.at] /\
               \E m \in net : m.kind = "write" /\ m.write = w /\ s.reply = m.id
      <4>1. PICK m \in net : m.kind = "write" /\ m.write = w /\ s.reply = m.id
        BY <3>2
      <4>2. m.id \in Nat /\ m.id <= calls /\ F[m.id] = w
        BY <1>1, <1>2, <4>1 DEF Carried, MessageCarries, Messages
      <4>3. s.id <= calls' /\ s.reply <= calls'
        BY SMT, <1>2, <1>4, <3>2, <4>1, <4>2
      <4> QED
        BY <1>3, <3>2, <4>1, <4>2, <4>3 DEF ServerCarries
    <3> QED
      BY <3>1, <3>2
  <2>4. ASSUME NEW m \in net', NEW v \in Write PROVE Confirmed(m, v)'
    <3>1. CASE m \in net /\ wr'[v] = wr[v]
      BY <1>1, <3>1, ConfirmedKept DEF Carried
    <3>2. CASE m \in net /\ wr'[v].id = calls + 1
      <4>1. m.id <= calls /\ m.id \in Nat
        BY <1>1, <1>2, <3>2 DEF Carried, MessageCarries, Messages
      <4>2. m.id # calls + 1
        BY SMT, <1>2, <4>1
      <4> QED
        BY <3>2, <4>2 DEF Confirmed
    <3>3. CASE m.kind = "write"
      BY <3>3 DEF Confirmed
    <3> QED
      BY <1>5, <3>1, <3>2, <3>3
  <2> QED
    BY <2>1, <2>2, <2>3, <2>4 DEF Carried
<1>7. AckedIsOnBoth'
  <2>1. \A v \in Write : wr'[v].step = "acked" => wr[v].step = "acked"
    OBVIOUS
  <2> QED
    BY <2>1, AckedKept DEF CopyInv
<1> QED
  BY <1>3, <1>6, <1>7 DEF CopyInv

\* A step of a node that answers request id: it has a copy, and so has the client
\* that forwarded the write, or the copy is alone.
LEMMA AnswerCarried ==
    ASSUME TypeOK, CopyInv, NEW F, F \in [Nat -> Write \cup {NoWrite}], Carried(F),
           CopiesGrow, calls' = calls, wr' = wr, serving' \subseteq serving,
           NEW id \in Nat, NEW n \in Node, id <= calls, F[id] \in store'[n],
           \A x \in net' : x \in net \/ x = Message("ack", id, Peer(n), 0, 0, NoWrite),
           \A w \in Write : wr[w].step = "forwarding" /\ wr[w].id = id => w \in lone' \/ OnBoth(w)'
    PROVE  CopyInv'
<1>2. wr \in [Write -> ClientWrites] /\ net \subseteq Messages /\ serving \subseteq Servings
  BY DEF TypeOK
<1>3. Carried(F)'
  <2> DEFINE a == Message("ack", id, Peer(n), 0, 0, NoWrite)
  <2>a. a.kind = "ack" /\ a.id = id /\ a.to = Peer(n)
    BY SMT DEF Message
  <2> HIDE DEF a
  <2>1. ASSUME NEW w \in Write PROVE ClientCarries(F, w)'
    BY <1>2, ClientKept DEF Carried
  <2>2. ASSUME NEW m \in net' PROVE MessageCarries(F, m)'
    <3>1. CASE m \in net
      BY <1>2, <3>1, MessageKept DEF Carried
    <3>2. CASE m = a
      BY <2>a, <3>2, PeerFacts DEF MessageCarries
    <3> QED
      BY <3>1, <3>2 DEF a
  <2>3. ASSUME NEW s \in serving' PROVE ServerCarries(F, s)'
    BY <1>2, ServerKept DEF Carried
  <2>4. ASSUME NEW m \in net', NEW w \in Write PROVE Confirmed(m, w)'
    <3>1. CASE m \in net
      BY <3>1, ConfirmedKept DEF Carried
    <3>2. CASE m = a
      BY <2>a, <3>2 DEF Confirmed
    <3> QED
      BY <3>1, <3>2 DEF a
  <2> QED
    BY <2>1, <2>2, <2>3, <2>4 DEF Carried
<1>4. AckedIsOnBoth'
  BY AckedKept DEF CopyInv
<1> QED
  BY <1>3, <1>4 DEF CopyInv

\* Every step keeps the copies' account.
LEMMA CopyStep == TypeOK /\ CopyInv /\ [Next]_vars => CopyInv'
<1> SUFFICES ASSUME TypeOK, CopyInv, [Next]_vars PROVE CopyInv'
  OBVIOUS
<1>t. /\ store \in [Node -> SUBSET Write] /\ wr \in [Write -> ClientWrites] /\ calls \in Nat /\ calls <= calls
      /\ net \subseteq Messages /\ serving \subseteq Servings
      /\ \A m \in net : m.kind = "write" => m.write \in Write
  BY SMT DEF TypeOK
<1>i. \A m \in net : m.id <= calls
  BY DEF CopyInv, Carried, MessageCarries
<1>s. TypeOK'
  BY TypeStep
<1>u. ASSUME NEW n \in Node, NEW S
      PROVE  \A x \in Node : store[x] \subseteq Set(store, n, store[n] \cup S)[x]
  BY <1>t DEF Set
<1>v. UNCHANGED <<calls, store, lone>> => CopiesGrow
  BY <1>t DEF CopiesGrow
<1>w. ASSUME NEW w \in Write, NEW step, NEW n, NEW id, Update(w, step, n, id)
      PROVE  /\ \A v \in Write : v # w => wr'[v] = wr[v]
             /\ wr'[w].step = step /\ wr'[w].at = n /\ wr'[w].id = id
  BY SMT, <1>t, <1>w DEF Update
<1>r. ASSUME NEW m, NEW consumed, Request(m, consumed) PROVE calls' \in Nat /\ calls <= calls'
  BY SMT, <1>t, <1>r DEF Request
<1>1. ASSUME NEW n \in Node, Connect(n) \/ Disconnect(n) \/ PromotePair(n) \/ PromoteStandalone(n)
                             \/ Switchover(n) \/ Restart(n)
      PROVE  CopyInv'
  <2>1. UNCHANGED <<calls, store, lone, net, wr, serving>>
    BY <1>1 DEF Connect, Disconnect, PromotePair, PromoteStandalone, Switchover, Restart, messages, data
  <2> QED
    BY <1>v, <2>1, CarriedKept
<1>3. ASSUME NEW n \in Node, ReplayLog(n) PROVE CopyInv'
  <2>1. UNCHANGED <<calls, lone, net, wr, serving>>
    BY <1>3 DEF ReplayLog, messages
  <2>2. \A x \in Node : store[x] \subseteq store'[x]
    BY <1>3, <1>u, PeerFacts DEF ReplayLog
  <2>3. CopiesGrow
    BY <1>t, <2>1, <2>2 DEF CopiesGrow
  <2> QED
    BY <2>1, <2>3, CarriedKept
<1>7. ASSUME NEW n \in Node, Prepare(n) PROVE CopyInv'
  <2>1. UNCHANGED <<store, lone, wr, serving>>
    BY <1>7 DEF Prepare, data
  <2>2. calls' \in Nat /\ calls <= calls'
    BY <1>7, <1>r, <1>t DEF Prepare, messages
  <2>3. \A x \in net' : x \in net \/ (x.id <= calls' /\ x.kind \notin {"write", "ack"})
    BY SMT, <1>t, <1>7 DEF Prepare, Request, Message, messages
  <2>4. CopiesGrow
    BY <1>t, <2>1, <2>2 DEF CopiesGrow
  <2> QED
    BY <2>1, <2>3, <2>4, CarriedKept
<1>8. ASSUME NEW n \in Node, NEW m \in net, Withdraw(n, m) PROVE CopyInv'
  <2>1. UNCHANGED <<store, lone, wr, serving>>
    BY <1>8 DEF Withdraw, data
  <2>2. calls' \in Nat /\ calls <= calls'
    BY <1>8, <1>r, <1>t DEF Withdraw
  <2>3. \A x \in net' : x \in net \/ (x.id <= calls' /\ x.kind \notin {"write", "ack"})
    BY SMT, <1>t, <1>8 DEF Withdraw, Request, Message
  <2>4. CopiesGrow
    BY <1>t, <2>1, <2>2 DEF CopiesGrow
  <2> QED
    BY <2>1, <2>3, <2>4, CarriedKept
<1>9. ASSUME NEW n \in Node, HandoffEnds(n) PROVE CopyInv'
  <2>1. UNCHANGED <<calls, store, lone, wr, serving>> /\ net' \subseteq net
    BY <1>9 DEF HandoffEnds, TimedOut, data
  <2> QED
    BY <1>v, <2>1, CarriedKept
<1>10. ASSUME NEW n \in Node, NEW m \in net, HandlePrepare(n, m) PROVE CopyInv'
  <2>1. UNCHANGED <<calls, store, lone, wr, serving>>
    BY <1>10 DEF HandlePrepare, data
  <2>2. \A x \in net' : x \in net \/ (x.id <= calls' /\ x.kind \notin {"write", "ack"})
    BY SMT, <1>i, <1>10 DEF HandlePrepare, Reply, Message
  <2> QED
    BY <1>v, <2>1, <2>2, CarriedKept
<1>11. ASSUME NEW n \in Node, NEW m \in net, HandleGrant(n, m) PROVE CopyInv'
  <2>1. UNCHANGED <<calls, store, lone, wr, serving>>
    BY <1>11 DEF HandleGrant, data
  <2>2. \A x \in net' : x \in net \/ (x.id <= calls' /\ x.kind \notin {"write", "ack"})
    BY SMT, <1>i, <1>11 DEF HandleGrant, Reply, Message
  <2> QED
    BY <1>v, <2>1, <2>2, CarriedKept
<1>12. ASSUME NEW n \in Node, NEW m \in net, HandleWrite(n, m) PROVE CopyInv'
  <2>1. /\ store' = Set(store, n, store[n] \cup {m.write}) /\ wr' = wr
        /\ m.kind = "write" /\ m.write \in Write
    BY <1>t, <1>12 DEF HandleWrite
  <2>2. (\A x \in Node : store[x] \subseteq store'[x]) /\ m.write \in store'[n]
    BY <1>t, <1>u, <2>1 DEF Set
  <2>3. CASE /\ Request(Message("write", calls + 1, Peer(n), 0, 0, m.write), {m})
             /\ serving' = serving \cup {[at |-> n, reply |-> m.id, id |-> calls + 1]}
             /\ UNCHANGED lone
    <3>1. CopiesGrow
      BY <1>r, <1>t, <2>2, <2>3 DEF CopiesGrow
    <3>2. \A s \in serving' : s \in serving \/
            (s.id = calls + 1 /\ s.at \in Node /\ m.write \in store'[s.at] /\
             \E x \in net : x.kind = "write" /\ x.write = m.write /\ s.reply = x.id)
      <4> DEFINE a == [at |-> n, reply |-> m.id, id |-> calls + 1]
      <4>1. a.id = calls + 1 /\ a.at = n /\ a.reply = m.id
        OBVIOUS
      <4> HIDE DEF a
      <4>2. \A s \in serving' : s \in serving \/ s = a
        BY <2>3 DEF a
      <4> QED
        BY <2>1, <2>2, <4>1, <4>2
    <3> QED
      BY <1>s, <2>1, <2>3, <3>1, <3>2, PeerFacts, RequestCarried
  <2>4. CASE /\ Reply(m, Message("ack", m.id, Peer(n), 0, 0, NoWrite))
             /\ lone' = IF FromClient(m) THEN lone \cup {m.write} ELSE lone
             /\ UNCHANGED <<calls, serving>>
    <3>1. PICK F \in [Nat -> Write \cup {NoWrite}] : Carried(F)
      BY DEF CopyInv
    <3>2. F[m.id] = m.write /\ m.id <= calls /\ m.id \in Nat
      BY <1>t, <2>1, <3>1 DEF Carried, MessageCarries, Messages
    <3>3. CopiesGrow
      BY <1>t, <2>2, <2>4 DEF CopiesGrow
    <3>4. ASSUME NEW w \in Write, wr[w].step = "forwarding", wr[w].id = m.id PROVE w \in lone'
      <4>1. FromClient(m)
        BY <3>4 DEF FromClient
      <4>2. F[wr[w].id] = w
        BY <3>1, <3>4 DEF Carried, ClientCarries, Waits
      <4> QED
        BY <2>4, <3>2, <3>4, <4>1, <4>2
    <3>5. \A x \in net' : x \in net \/ x = Message("ack", m.id, Peer(n), 0, 0, NoWrite)
      BY <2>4 DEF Reply
    <3>6. F[m.id] \in store'[n] /\ calls' = calls /\ serving' \subseteq serving
      BY <2>2, <2>4, <3>2
    <3> QED
      BY <2>1, <3>1, <3>2, <3>3, <3>4, <3>5, <3>6, AnswerCarried
  <2> QED
    BY <1>12, <2>3, <2>4 DEF HandleWrite
<1>13. ASSUME NEW n \in Node, ServeEnds(n) PROVE CopyInv'
  <2>1. UNCHANGED <<calls, store, lone, wr>>
    BY <1>13 DEF ServeEnds
  <2>2. PICK s \in serving :
          /\ s.at = n /\ serving' = serving \ {s}
          /\ \/ \E m \in net : /\ m.kind = "ack" /\ m.to = n /\ m.id = s.id
                               /\ Reply(m, Message("ack", s.reply, Peer(n), 0, 0, NoWrite))
             \/ TimedOut(s.id, n)
    BY <1>13 DEF ServeEnds
  <2>3. CASE TimedOut(s.id, n)
    BY <1>v, <2>1, <2>2, <2>3, CarriedKept DEF TimedOut
  <2>4. ASSUME NEW m \in net, m.kind = "ack", m.to = n, m.id = s.id,
               Reply(m, Message("ack", s.reply, Peer(n), 0, 0, NoWrite))
        PROVE  CopyInv'
    <3>1. PICK F \in [Nat -> Write \cup {NoWrite}] : Carried(F)
      BY DEF CopyInv
    <3>2. /\ s.reply <= calls /\ s.reply \in Nat /\ F[s.id] = F[s.reply] /\ F[s.id] \in store[n]
          /\ F[s.id] \in store[Peer(n)]
      BY <1>t, <2>2, <2>4, <3>1 DEF Carried, ServerCarries, MessageCarries, Servings
    <3>3. ASSUME NEW w \in Write, wr[w].step = "forwarding", wr[w].id = s.reply PROVE OnBoth(w)'
      <4>1. F[wr[w].id] = w
        BY <3>1, <3>3 DEF Carried, ClientCarries, Waits
      <4>2. w \in store[n] /\ w \in store[Peer(n)]
        BY <3>2, <3>3, <4>1
      <4>3. \A x \in Node : x = n \/ x = Peer(n)
        BY SMT DEF Node, Peer
      <4> QED
        BY <2>1, <4>2, <4>3 DEF OnBoth
    <3>4. \A x \in net' : x \in net \/ x = Message("ack", s.reply, Peer(n), 0, 0, NoWrite)
      BY <2>4 DEF Reply
    <3> QED
      BY <1>v, <2>1, <2>2, <3>1, <3>2, <3>3, <3>4, AnswerCarried
  <2> QED
    BY <2>2, <2>3, <2>4
<1>14. ASSUME NEW n \in Node, Crash(n) PROVE CopyInv'
  <2>1. UNCHANGED <<calls, store, lone>> /\ net' \subseteq net /\ serving' \subseteq serving
    BY <1>14 DEF Crash
  <2>2. \A w \in Write : wr'[w] = wr[w] \/ wr'[w] = [step |-> "failed", at |-> n, id |-> 0]
    BY <1>14 DEF Crash
  <2>3. \A w \in Write : wr'[w] = wr[w] \/ wr'[w].step \notin {"replicating", "forwarding", "acked"}
    BY SMT, <2>2
  <2> QED
    BY <1>v, <2>1, <2>3, CarriedKept
<1>16. ASSUME NEW w \in Write, Admit(w) PROVE CopyInv'
  <2>1. UNCHANGED <<store, lone, serving>>
    BY <1>16 DEF Admit
  <2>2. CASE /\ Request(Message("write", calls + 1, Peer(wr[w].at), 0, 0, w), {})
             /\ Update(w, "forwarding", wr[w].at, calls + 1)
    <3>1. wr'[w].step = "forwarding" /\ wr'[w].id = calls + 1 /\ \A v \in Write : v # w => wr'[v] = wr[v]
      BY <1>w, <2>2
    <3>2. CopiesGrow
      BY <1>r, <1>t, <2>1, <2>2 DEF CopiesGrow
    <3>3. Peer(wr[w].at) \in Node
      BY <1>t, PeerFacts DEF ClientWrites
    <3> QED
      BY <1>s, <2>1, <2>2, <3>1, <3>2, <3>3, RequestCarried
  <2>3. CASE UNCHANGED messages /\ \E st \in {"failed", "applying"} : Update(w, st, wr[w].at, 0)
    <3>1. UNCHANGED <<net, calls>>
      BY <2>3 DEF messages
    <3>2. \A v \in Write : wr'[v] = wr[v] \/ wr'[v].step \in {"failed", "applying"}
      BY <1>w, <2>3
    <3> QED
      BY <1>v, <2>1, <3>1, <3>2, CarriedKept
  <2> QED
    BY <1>16, <2>2, <2>3 DEF Admit
<1>17. ASSUME NEW w \in Write, ApplyLocally(w) PROVE CopyInv'
  <2>1. UNCHANGED <<lone, serving>> /\ store' = Set(store, wr[w].at, store[wr[w].at] \cup {w})
    BY <1>17 DEF ApplyLocally
  <2>2. wr[w].at \in Node /\ Peer(wr[w].at) \in Node
    BY <1>t, PeerFacts DEF ClientWrites
  <2>3. (\A x \in Node : store[x] \subseteq store'[x]) /\ w \in store'[wr[w].at]
    BY <1>t, <1>u, <2>1, <2>2 DEF Set
  <2>4. CASE /\ Request(Message("write", calls + 1, Peer(wr[w].at), 0, 0, w), {})
             /\ Update(w, "replicating", wr[w].at, calls + 1)
    <3>1. /\ wr'[w].step = "replicating" /\ wr'[w].id = calls + 1 /\ wr'[w].at = wr[w].at
          /\ \A v \in Write : v # w => wr'[v] = wr[v]
      BY <1>w, <2>4
    <3>2. CopiesGrow
      BY <1>r, <1>t, <2>1, <2>3, <2>4 DEF CopiesGrow
    <3>3. \A v \in Write : \/ wr'[v] = wr[v]
                           \/ /\ v = w /\ wr'[v].id = calls + 1
                              /\ wr'[v].step \in {"replicating", "forwarding"}
                              /\ wr'[v].step = "replicating" => w \in store'[wr'[v].at]
      BY <2>3, <3>1
    <3> QED
      BY <1>s, <2>1, <2>2, <2>4, <3>2, <3>3, RequestCarried
  <2>5. CASE Required(w) = 1 /\ Update(w, "acked", wr[w].at, 0) /\ UNCHANGED messages
    <3>1. UNCHANGED <<net, calls>>
      BY <2>5 DEF messages
    <3>2. CopiesGrow
      BY <1>t, <2>1, <2>3, <3>1 DEF CopiesGrow
    <3>3. Level[w] # "all"
      BY SMT, <2>5 DEF Required
    <3>4. wr'[w].step = "acked" /\ \A v \in Write : v # w => wr'[v] = wr[v]
      BY <1>w, <2>5
    <3>5. AckedIsOnBoth'
      BY <3>2, <3>3, <3>4, AckedKept DEF CopyInv
    <3>6. PICK F \in [Nat -> Write \cup {NoWrite}] : Carried(F)
      BY DEF CopyInv
    <3>7. \A v \in Write : wr'[v] = wr[v] \/ wr'[v].step \notin {"replicating", "forwarding"}
      BY <3>4
    <3>8. Carried(F)'
      <4>1. \A v \in Write : ClientCarries(F, v)'
        BY <1>t, <3>2, <3>6, <3>7, ClientKept DEF Carried
      <4>2. \A m \in net' : MessageCarries(F, m)'
        BY <1>t, <3>1, <3>2, <3>6, MessageKept DEF Carried
      <4>3. \A s \in serving' : ServerCarries(F, s)'
        BY <1>t, <2>1, <3>2, <3>6, ServerKept DEF Carried
      <4>4. \A m \in net', v \in Write : Confirmed(m, v)'
        BY <3>1, <3>2, <3>6, <3>7, ConfirmedKept DEF Carried
      <4> QED
        BY <4>1, <4>2, <4>3, <4>4 DEF Carried
    <3> QED
      BY <3>5, <3>8 DEF CopyInv
  <2> QED
    BY <1>17, <2>4, <2>5 DEF ApplyLocally
<1>18. ASSUME NEW w \in Write, Answered(w) PROVE CopyInv'
  <2>1. UNCHANGED <<calls, store, lone, serving>> /\ net' \subseteq net
    BY <1>18 DEF Answered, TimedOut
  <2>2. CopiesGrow
    BY <1>v, <2>1
  <2>3. PICK st \in {"acked", "failed"} : Update(w, st, wr[w].at, 0)
    BY <1>18 DEF Answered
  <2>4. wr'[w].step = st /\ \A v \in Write : v # w => wr'[v] = wr[v]
    BY <1>w, <2>3
  <2>5. PICK F \in [Nat -> Write \cup {NoWrite}] : Carried(F)
    BY DEF CopyInv
  <2>6. \A v \in Write : wr'[v] = wr[v] \/ wr'[v].step \notin {"replicating", "forwarding"}
    BY <2>4
  <2>7. Carried(F)'
    <3>1. \A v \in Write : ClientCarries(F, v)'
      BY <1>t, <2>2, <2>5, <2>6, ClientKept DEF Carried
    <3>2. \A m \in net' : MessageCarries(F, m)'
      BY <1>t, <2>1, <2>2, <2>5, MessageKept DEF Carried
    <3>3. \A s \in serving' : ServerCarries(F, s)'
      BY <1>t, <2>1, <2>2, <2>5, ServerKept DEF Carried
    <3>4. \A m \in net', v \in Write : Confirmed(m, v)'
      BY <2>1, <2>2, <2>5, <2>6, ConfirmedKept DEF Carried
    <3> QED
      BY <3>1, <3>2, <3>3, <3>4 DEF Carried
  <2>8. wr'[w].step = "acked" => Level[w] # "all" \/ w \in lone \/ OnBoth(w)
    <3>1. CASE \E m \in net : m.kind = "ack" /\ m.to = wr[w].at /\ m.id = wr[w].id
      <4>1. PICK m \in net : m.kind = "ack" /\ m.to = wr[w].at /\ m.id = wr[w].id
        BY <3>1
      <4>2. wr[w].step \in {"replicating", "forwarding"}
        BY <1>18 DEF Answered
      <4>3. CASE wr[w].step = "forwarding"
        BY <2>5, <4>1, <4>3 DEF Carried, Confirmed
      <4>4. CASE wr[w].step = "replicating"
        <5>1. w \in store[wr[w].at] /\ F[wr[w].id] = w
          BY <2>5, <4>4 DEF Carried, ClientCarries, Waits
        <5>2. F[m.id] \in store[Peer(m.to)]
          BY <2>5, <4>1 DEF Carried, MessageCarries
        <5>3. w \in store[Peer(wr[w].at)]
          BY <4>1, <5>1, <5>2
        <5>4. wr[w].at \in Node
          BY <1>t DEF ClientWrites
        <5>5. \A x \in Node : x = wr[w].at \/ x = Peer(wr[w].at)
          BY SMT, <5>4 DEF Node, Peer
        <5> QED
          BY <5>1, <5>3, <5>5 DEF OnBoth
      <4> QED
        BY <4>2, <4>3, <4>4
    <3>2. CASE Update(w, IF wr[w].step = "replicating" /\ Required(w) = 1 THEN "acked" ELSE "failed", wr[w].at, 0)
      <4>1. wr'[w].step = IF wr[w].step = "replicating" /\ Required(w) = 1 THEN "acked" ELSE "failed"
        BY <1>w, <3>2
      <4>2. Required(w) = 1 => Level[w] # "all"
        BY SMT DEF Required
      <4> QED
        BY <4>1, <4>2
    <3> QED
      BY <1>18, <3>1, <3>2 DEF Answered
  <2>9. AckedIsOnBoth'
    BY <2>2, <2>4, <2>8, AckedKept DEF CopyInv
  <2> QED
    BY <2>5, <2>7, <2>9 DEF CopyInv
<1>19. ASSUME NEW w \in Write, NEW n \in Node, Submit(w, n) PROVE CopyInv'
  <2>1. UNCHANGED <<calls, lone, net, serving>>
    BY <1>19 DEF Submit, messages
  <2>2. \A x \in Node : store[x] \subseteq store'[x]
    BY <1>u, <1>19 DEF Submit
  <2>3. CopiesGrow
    BY <1>t, <2>1, <2>2 DEF CopiesGrow
  <2>4. \A v \in Write : wr'[v] = wr[v] \/ wr'[v].step \in {"admitting", "direct"}
    BY <1>w, <1>19 DEF Submit
  <2> QED
    BY <2>1, <2>3, <2>4, CarriedKept
<1>20. CASE Lose
  <2>1. UNCHANGED <<calls, store, lone, wr, serving>> /\ net' \subseteq net
    BY <1>20 DEF Lose, data
  <2> QED
    BY <1>v, <2>1, CarriedKept
<1>21. CASE UNCHANGED vars
  <2>1. UNCHANGED <<calls, store, lone, wr, serving, net>>
    BY <1>21 DEF vars, messages, data
  <2> QED
    BY <1>v, <2>1, CarriedKept
<1>22. ASSUME NEW w \in Write, ApplyFails(w) PROVE CopyInv'
  <2>1. /\ UNCHANGED <<calls, lone, net, serving>> /\ wr[w].at \in Node
        /\ store' = store \/ store' = Set(store, wr[w].at, store[wr[w].at] \cup {w})
    BY <1>t, <1>22 DEF ApplyFails, messages, ClientWrites
  <2>2. \A x \in Node : store[x] \subseteq store'[x]
    BY <1>u, <2>1
  <2>3. CopiesGrow
    BY <1>t, <2>1, <2>2 DEF CopiesGrow
  <2>4. \A v \in Write : wr'[v] = wr[v] \/ wr'[v].step = "failed"
    BY <1>w, <1>22 DEF ApplyFails
  <2> QED
    BY <2>1, <2>3, <2>4, CarriedKept
<1>23. ASSUME NEW n \in Node, NEW m \in net, HandleWriteFails(n, m) PROVE CopyInv'
  <2>1. /\ UNCHANGED <<calls, lone, wr, serving>> /\ net' \subseteq net
        /\ store' = store \/ store' = Set(store, n, store[n] \cup {m.write})
    BY <1>23 DEF HandleWriteFails
  <2>2. \A x \in Node : store[x] \subseteq store'[x]
    BY <1>u, <2>1
  <2>3. CopiesGrow
    BY <1>t, <2>1, <2>2 DEF CopiesGrow
  <2> QED
    BY <2>1, <2>3, CarriedKept
<1> QED
  BY <1>1, <1>3, <1>7, <1>8, <1>9, <1>10, <1>11, <1>12, <1>13, <1>14, <1>16, <1>17, <1>18, <1>19, <1>20, <1>21, <1>22, <1>23
     DEF Next, Progress, Environment

\* A write acknowledged at ALL is in both stores, unless a fenced peer of a fenced
\* forwarder confirmed it alone, for any number of writes, requests and faults
\* (coordinate_write_with, PairWriteForwardHandler).
THEOREM AckedHasBothCopies == Spec => []AckedIsOnBoth
<1>1. CopyInv => AckedIsOnBoth
  BY DEF CopyInv
<1> QED
  BY <1>1, PairTypeHolds, CopyInit, CopyStep, PTL DEF Spec
=============================================================================
