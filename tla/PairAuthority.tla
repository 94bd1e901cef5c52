---------------------------- MODULE PairAuthority ----------------------------
(***************************************************************************)
(* Who may write in a pair of nodes: the durable authority record          *)
(* (pair/authority.rs), pairing and fencing (controller/pair.rs,           *)
(* peer_events.rs), the handoff and the operator's promotion               *)
(* (pair/switchover.rs, controller/operator.rs), and the writes that the   *)
(* handoff gate admits (pair/coordinator.rs, pair/handler.rs).             *)
(*                                                                         *)
(* The nodes are 1 and 2, in the order of their host ids.  The write path  *)
(* tells the deployment mode: "direct" and "unavailable" are Standalone,   *)
(* "pair" is Pair and "degraded" is DegradedPair; a pair context exists in *)
(* the last two.  Both nodes have the PAIR_AUTHORITY capability.           *)
(***************************************************************************)
EXTENDS Integers, FiniteSets

CONSTANTS
    Write,
    Level,          \* [Write -> {"all", "quorum"}]
    Plan,           \* what clients submit, how many faults there are, and where calls starts
    MaxCalls,       \* bound on calls, which numbers the requests sent
    MaxGeneration   \* the operator promotes below this generation

ASSUME Levels == Level \in [Write -> {"all", "quorum"}]
ASSUME Plans == \A p \in Plan : p.writes \subseteq Write /\ p.faults \in Nat /\ p.calls \in Nat
ASSUME PairBounds == MaxCalls \in Nat /\ MaxGeneration \in Nat

Node == {1, 2}
Peer(n) == 3 - n

VARIABLES
    up,
    marker,         \* pair-authority.json: the primary, 0 when there is no file, and the generation
    path, role,     \* WritePath; PairRole of the context
    promoted,       \* force_promoted
    catchUp, owed,  \* CatchUpGate; the mutations in the log that the replay owes the peer
    connected,      \* the peer is in connected_peers
    challenge,      \* RoleSwapHandler.challenge: the request that asked for it, 0 for none
    handoff,        \* ModeController::switchover: step, pending request
    net, calls,     \* messages in flight; the number of the last request
    wr,             \* client writes: step, node, pending request
    serving,        \* PairWriteForwardHandler as primary, waiting for the peer
    store,          \* mutations in each node's storage, fsynced
    contested,      \* history: an election made a primary beside a claim of the peer
    lone,           \* history: forwarded writes that a fenced peer confirmed
    faults          \* crashes, losses, late answers, failed stores and disconnects to come

control == <<marker, path, role, promoted, catchUp, owed, connected>>
messages == <<net, calls>>
data == <<wr, serving, store, lone>>
vars == <<up, control, challenge, handoff, messages, data, contested, faults>>

NoMarker == [primary |-> 0, generation |-> 0]
Idle == [step |-> "idle", id |-> 0]
NewWrite == [step |-> "new", at |-> 1, id |-> 0]   \* no node yet
NoClient == [NewWrite EXCEPT !.step = "none"]

Init ==
    /\ up = [n \in Node |-> TRUE]
    /\ marker = [n \in Node |-> NoMarker]
    /\ path = [n \in Node |-> "direct"]
    /\ role = [n \in Node |-> "secondary"]
    /\ promoted = [n \in Node |-> FALSE]
    /\ catchUp = [n \in Node |-> "ready"]
    /\ owed = [n \in Node |-> {}]
    /\ connected = [n \in Node |-> FALSE]
    /\ challenge = [n \in Node |-> 0]
    /\ handoff = [n \in Node |-> Idle]
    /\ net = {}
    /\ serving = {}
    /\ store = [n \in Node |-> {}]
    /\ contested = FALSE /\ lone = {}
    /\ \E p \in Plan :
        /\ wr = [w \in Write |-> IF w \in p.writes THEN NewWrite ELSE NoClient]
        /\ faults = p.faults /\ calls = p.calls

Fault == faults > 0 /\ faults' = faults - 1

Context(n) == path[n] \in {"pair", "degraded"}
Set(f, n, v) == [f EXCEPT ![n] = v]

------------------------------------------------------------------------------
\* The authority record

\* store_generation: an atomic rename.  When it fails the old file is in place,
\* or the new one if only the directory's fsync failed.
Stored(n, p, g) == marker' = Set(marker, n, [primary |-> p, generation |-> g])
NotStored(n, p, g) == Fault /\ (UNCHANGED marker \/ Stored(n, p, g))

------------------------------------------------------------------------------
\* The handoff gate: client writes hold it shared until they are answered, a
\* handoff and the authority handler exclusively.

Admitted(w) == wr[w].step \in {"applying", "replicating", "forwarding"}
HoldsGate(n) == handoff[n].step \in {"prepare", "grant"}
Drained(n) == \A w \in Write : Admitted(w) => wr[w].at # n
\* Mutant: the gate does not wait for admitted writes.
MutGateFreeUndrained(n) == ~HoldsGate(n)
GateFree(n) == ~HoldsGate(n) /\ Drained(n)

\* A request takes the place of the message it answers to, if any; one to a node
\* that is down goes nowhere.  Its one re-issue, when the pool is replaced before
\* it is sent, is the same request.
Message(kind, id, to, c, g, w) ==
    [kind |-> kind, id |-> id, to |-> to, challenge |-> c, generation |-> g, write |-> w]
Request(m, consumed) ==
    /\ calls < MaxCalls
    /\ calls' = calls + 1
    /\ net' = (net \ consumed) \cup (IF up[m.to] THEN {m} ELSE {})
NoWrite == 0

\* Nothing of request id can reach its caller n any more.
Lost(id, n) ==
    \/ ~up[Peer(n)] \/ ~Context(Peer(n))
    \/ (\A m \in net : m.id # id) /\ (\A s \in serving : s.reply # id)

\* A request of n ends without an answer: nothing can come any more, or too
\* late, when it is ignored.
TimedOut(id, n) ==
    /\ (Lost(id, n) /\ UNCHANGED faults) \/ Fault
    /\ net' = {m \in net : m.id # id \/ m.to # n}

\* Answers reach only a caller that still waits.
Awaited(id, n) ==
    /\ up[n]
    /\ \/ handoff[n].id = id
       \/ \E w \in Write : wr[w].at = n /\ wr[w].id = id
       \/ \E s \in serving : s.at = n /\ s.id = id
Reply(m, r) == net' = (net \ {m}) \cup (IF Awaited(r.id, r.to) THEN {r} ELSE {})

------------------------------------------------------------------------------
\* Connections: on_peer_connected, on_inbound_peer, on_peer_disconnected

\* choose_pair_role: with a record, primary only if it says so and this process
\* was promoted; without one, the lower host id or a promoted node.
ChosenRole(n) ==
    IF marker[n].primary # 0
    THEN IF marker[n].primary = n /\ promoted[n] THEN "primary" ELSE "secondary"
    ELSE IF promoted[n] \/ n < Peer(n) THEN "primary" ELSE "secondary"
Chosen(n) == IF ChosenRole(n) = "primary" THEN n ELSE Peer(n)

\* A promoted node owes the peer that it pairs with what its log holds, which may
\* be less than its store: flushes delete segments.
BeginCatchUp(n) ==
    \E logged \in SUBSET store[n] :
        /\ catchUp' = Set(catchUp, n, IF promoted[n] THEN "running" ELSE "ready")
        /\ owed' = Set(owed, n, IF promoted[n] THEN logged ELSE {})

\* transition_to_pair of a node that has no context.
Installed(n) ==
    /\ path' = Set(path, n, "pair")
    /\ role' = Set(role, n, ChosenRole(n))
    /\ BeginCatchUp(n)

ElectsBesideClaim(n) ==
    marker[n].primary = 0 /\ ChosenRole(n) = "primary" /\ marker[Peer(n)].primary = Peer(n)

\* A Standalone node pairs with a peer that connects; other modes only track it.
Connect(n) ==
    /\ up[n] /\ up[Peer(n)]
    /\ ~connected[n] \/ ~Context(n)
    /\ connected' = Set(connected, n, TRUE)
    /\ \/ /\ Context(n)
          /\ UNCHANGED <<marker, path, role, promoted, catchUp, owed, contested, faults>>
       \/ /\ ~Context(n)
          /\ promoted' = Set(promoted, n, FALSE)
          /\ \/ /\ IF marker[n].primary = 0 THEN Stored(n, Chosen(n), marker[n].generation + 1)
                   ELSE UNCHANGED marker
                /\ Installed(n)
                /\ contested' = (contested \/ ElectsBesideClaim(n))
                /\ UNCHANGED faults
             \/ /\ marker[n].primary = 0
                /\ NotStored(n, Chosen(n), marker[n].generation + 1)
                /\ path' = Set(path, n, "unavailable")
                /\ UNCHANGED <<role, catchUp, owed, contested>>
    /\ UNCHANGED <<up, challenge, handoff, messages, data>>

\* Peer loss: the context stays, writes are refused.
Disconnect(n) ==
    /\ up[n] /\ connected[n]
    /\ IF up[Peer(n)] THEN Fault ELSE UNCHANGED faults
    /\ connected' = Set(connected, n, FALSE)
    /\ path' = IF path[n] = "pair" THEN Set(path, n, "degraded") ELSE path
    /\ UNCHANGED <<up, marker, role, promoted, catchUp, owed, challenge, handoff, messages, data, contested>>

\* The catch-up of a peer by a promoted node: every mutation its log holds, those
\* written since it began too, is sent as a forwarded write, and all of them must
\* be acknowledged.
ReplayLog(n) ==
    /\ up[n] /\ catchUp[n] = "running"
    /\ \E logged \in SUBSET store[n] : \E sent \in SUBSET logged :
        /\ owed[n] \subseteq logged
        /\ owed' = Set(owed, n, logged)
        /\ sent # {} => up[Peer(n)] /\ Context(Peer(n))
        /\ store' = Set(store, Peer(n), store[Peer(n)] \cup sent)
        /\ \/ sent = logged /\ catchUp' = Set(catchUp, n, "ready") /\ UNCHANGED faults
           \/ Fault /\ catchUp' = Set(catchUp, n, "failed")
    /\ UNCHANGED <<up, marker, path, role, promoted, connected, challenge, handoff, messages,
                   wr, serving, lone, contested>>

------------------------------------------------------------------------------
\* The operator

\* force_promote.  The operator's word, which the code cannot check, is that
\* the peer is dead; the code refuses while it sees a known peer connected.
Known(n) == Context(n) \/ marker[n].primary # 0
OperatorPromotes(n) == up[n] /\ ~up[Peer(n)]

\* A restarted node enters the pair of its record first, as transition_to_pair
\* does; then the record is stored and the role taken.  A node that kept its
\* context only tracks the peer when it comes back: no catch-up follows.
PromotePair(n) ==
    /\ OperatorPromotes(n)
    /\ Known(n) /\ ~connected[n]
    /\ marker[n].generation < MaxGeneration
    /\ Context(n) => GateFree(n)
    /\ IF Context(n) THEN UNCHANGED <<catchUp, owed>> ELSE BeginCatchUp(n)
    /\ \/ /\ Stored(n, n, marker[n].generation + 1)
          /\ role' = Set(role, n, "primary")
          /\ path' = Set(path, n, "pair")
          /\ promoted' = Set(promoted, n, TRUE)
          /\ UNCHANGED faults
       \/ /\ NotStored(n, n, marker[n].generation + 1)
          /\ IF Context(n) THEN UNCHANGED <<role, path, promoted>>
             ELSE /\ role' = Set(role, n, ChosenRole(n))
                  /\ path' = Set(path, n, "pair")
                  /\ promoted' = Set(promoted, n, FALSE)
    /\ UNCHANGED <<up, connected, challenge, handoff, messages, data, contested>>

PromoteStandalone(n) ==
    /\ OperatorPromotes(n)
    /\ ~Known(n)
    /\ path' = Set(path, n, "direct")
    /\ promoted' = Set(promoted, n, TRUE)
    /\ connected' = Set(connected, n, FALSE)
    /\ UNCHANGED <<up, marker, role, catchUp, owed, challenge, handoff, messages, data, contested, faults>>

------------------------------------------------------------------------------
\* ModeController::switchover and initiate_switchover

\* The write path is read, then the gate is awaited.
Switchover(n) ==
    /\ up[n] /\ path[n] = "pair"
    /\ handoff[n].step = "idle"
    /\ calls < MaxCalls
    /\ handoff' = Set(handoff, n, [Idle EXCEPT !.step = "queued"])
    /\ UNCHANGED <<up, control, challenge, messages, data, contested, faults>>

\* Mutant: the catch-up is not awaited.
MutPrepareBehind(n) ==
    /\ up[n] /\ handoff[n].step = "queued"
    /\ GateFree(n)
    /\ \/ /\ role[n] = "primary"
          /\ Request(Message("prepare", calls + 1, Peer(n), 0, 0, NoWrite), {})
          /\ handoff' = Set(handoff, n, [step |-> "prepare", id |-> calls + 1])
       \/ /\ role[n] # "primary"
          /\ handoff' = Set(handoff, n, Idle)
          /\ UNCHANGED messages
    /\ UNCHANGED <<up, control, challenge, data, contested, faults>>

\* Under the gate: a primary whose peer is caught up asks it to prepare.
Prepare(n) ==
    /\ up[n] /\ handoff[n].step = "queued"
    /\ GateFree(n)
    /\ \/ /\ role[n] = "primary" /\ catchUp[n] = "ready"
          /\ Request(Message("prepare", calls + 1, Peer(n), 0, 0, NoWrite), {})
          /\ handoff' = Set(handoff, n, [step |-> "prepare", id |-> calls + 1])
       \/ /\ role[n] # "primary" \/ catchUp[n] # "ready"
          /\ handoff' = Set(handoff, n, Idle)
          /\ UNCHANGED messages
    /\ UNCHANGED <<up, control, challenge, data, contested, faults>>

NextGeneration(n, m) ==
    IF marker[n].generation > m.generation THEN marker[n].generation + 1 ELSE m.generation + 1

\* On Ready: withdraw, persist, grant.  A failed store leaves the node fenced.
Withdraw(n, m) ==
    /\ up[n] /\ handoff[n].step = "prepare"
    /\ m.kind = "ready" /\ m.to = n /\ m.id = handoff[n].id
    /\ role' = Set(role, n, "secondary")
    /\ \/ /\ Stored(n, Peer(n), NextGeneration(n, m))
          /\ Request(Message("grant", calls + 1, Peer(n), m.challenge, NextGeneration(n, m), NoWrite), {m})
          /\ handoff' = Set(handoff, n, [step |-> "grant", id |-> calls + 1])
          /\ UNCHANGED faults
       \/ /\ NotStored(n, Peer(n), NextGeneration(n, m))
          /\ net' = net \ {m}
          /\ handoff' = Set(handoff, n, Idle)
          /\ UNCHANGED calls
    /\ UNCHANGED <<up, path, promoted, catchUp, owed, connected, challenge, data, contested>>

\* Accepted, or an error or a timeout of either request: the gate is released,
\* and a withdrawn node stays fenced.
HandoffEnds(n) ==
    /\ up[n] /\ HoldsGate(n)
    /\ \/ /\ handoff[n].step = "grant"
          /\ \E m \in net : /\ m.kind = "accepted" /\ m.to = n /\ m.id = handoff[n].id
                            /\ net' = net \ {m}
          /\ UNCHANGED faults
       \/ TimedOut(handoff[n].id, n)
    /\ handoff' = Set(handoff, n, Idle)
    /\ UNCHANGED <<up, control, challenge, calls, data, contested>>

------------------------------------------------------------------------------
\* RoleSwapHandler::handle, under the receiver's gate

Handles(n) == up[n] /\ Context(n) /\ GateFree(n)

HandlePrepare(n, m) ==
    /\ Handles(n)
    /\ m.kind = "prepare" /\ m.to = n
    /\ \/ /\ role[n] = "secondary"
          /\ challenge' = Set(challenge, n, m.id)
          /\ Reply(m, Message("ready", m.id, Peer(n), m.id, marker[n].generation, NoWrite))
       \/ /\ role[n] # "secondary"
          /\ net' = net \ {m}
          /\ UNCHANGED challenge
    /\ UNCHANGED <<up, control, handoff, calls, data, contested, faults>>

\* Mutant: an old grant passes.
MutNoGeneration(n, m) == challenge[n] = m.challenge /\ role[n] = "secondary"
\* A grant needs a higher generation, the fresh challenge, and a secondary.
Grantable(n, m) ==
    /\ m.generation > marker[n].generation
    /\ challenge[n] = m.challenge
    /\ role[n] = "secondary"

\* Mutant: the role is taken although the record was not stored.
MutHandleGrantUnstored(n, m) ==
    /\ Handles(n)
    /\ m.kind = "grant" /\ m.to = n
    /\ challenge' = IF m.generation > marker[n].generation THEN Set(challenge, n, 0) ELSE challenge
    /\ \/ /\ Grantable(n, m)
          /\ Stored(n, n, m.generation)
          /\ role' = Set(role, n, "primary")
          /\ Reply(m, Message("accepted", m.id, Peer(n), 0, m.generation, NoWrite))
          /\ UNCHANGED faults
       \/ /\ Grantable(n, m)
          /\ NotStored(n, n, m.generation)
          /\ net' = net \ {m}
          /\ role' = Set(role, n, "primary")
       \/ /\ ~Grantable(n, m)
          /\ net' = net \ {m}
          /\ UNCHANGED <<marker, role, faults>>
    /\ UNCHANGED <<up, path, promoted, catchUp, owed, connected, handoff, calls, data, contested>>

HandleGrant(n, m) ==
    /\ Handles(n)
    /\ m.kind = "grant" /\ m.to = n
    /\ challenge' = IF m.generation > marker[n].generation THEN Set(challenge, n, 0) ELSE challenge
    /\ \/ /\ Grantable(n, m)
          /\ Stored(n, n, m.generation)
          /\ role' = Set(role, n, "primary")
          /\ Reply(m, Message("accepted", m.id, Peer(n), 0, m.generation, NoWrite))
          /\ UNCHANGED faults
       \/ /\ Grantable(n, m)
          /\ NotStored(n, n, m.generation)
          /\ net' = net \ {m}
          /\ UNCHANGED role
       \/ /\ ~Grantable(n, m)
          /\ net' = net \ {m}
          /\ UNCHANGED <<marker, role, faults>>
    /\ UNCHANGED <<up, path, promoted, catchUp, owed, connected, handoff, calls, data, contested>>

------------------------------------------------------------------------------
\* Client writes: WritePath::write and coordinate_write_with

Update(w, step, n, id) == wr' = [wr EXCEPT ![w] = [step |-> step, at |-> n, id |-> id]]

\* The write path is read; a Direct write is the storage engine's alone.
Submit(w, n) ==
    /\ up[n] /\ wr[w].step = "new"
    /\ \/ path[n] = "pair" /\ Update(w, "admitting", n, 0) /\ UNCHANGED store
       \/ /\ path[n] = "direct"
          /\ Update(w, "direct", n, 0)
          /\ store' = Set(store, n, store[n] \cup {w})
    /\ UNCHANGED <<up, control, challenge, handoff, messages, serving, lone, contested, faults>>

Required(w) == IF Level[w] = "all" THEN 2 ELSE 1

\* The gate is taken shared and the role read: a secondary forwards, a primary
\* needs enough replicas (has_peer may say no at any time).
Admit(w) ==
    LET n == wr[w].at IN
    /\ wr[w].step = "admitting" /\ up[n]
    /\ ~HoldsGate(n)
    /\ \/ /\ role[n] # "primary"
          /\ Request(Message("write", calls + 1, Peer(n), 0, 0, w), {})
          /\ Update(w, "forwarding", n, calls + 1)
       \/ /\ role[n] = "primary"
          /\ Required(w) = 2
          /\ Update(w, "failed", n, 0)
          /\ UNCHANGED messages
       \/ /\ role[n] = "primary"
          /\ Update(w, "applying", n, 0)
          /\ UNCHANGED messages
    /\ UNCHANGED <<up, control, challenge, handoff, serving, store, lone, contested, faults>>

\* apply_locally_async, then the peer's copy when the peer is known.
ApplyLocally(w) ==
    LET n == wr[w].at IN
    /\ wr[w].step = "applying" /\ up[n]
    /\ store' = Set(store, n, store[n] \cup {w})
    /\ \/ /\ Request(Message("write", calls + 1, Peer(n), 0, 0, w), {})
          /\ Update(w, "replicating", n, calls + 1)
       \/ /\ Required(w) = 1
          /\ Update(w, "acked", n, 0)
          /\ UNCHANGED messages
    /\ UNCHANGED <<up, control, challenge, handoff, serving, lone, contested, faults>>

\* The local write or its fsync fails: the client gets the error, the mutation may
\* be in the log all the same.
ApplyFails(w) ==
    LET n == wr[w].at IN
    /\ wr[w].step = "applying" /\ up[n]
    /\ Fault
    /\ store' \in {store, Set(store, n, store[n] \cup {w})}
    /\ Update(w, "failed", n, 0)
    /\ UNCHANGED <<up, control, challenge, handoff, messages, serving, lone, contested>>

\* The peer's answer to a replicated or a forwarded write, or none in time: a
\* QUORUM write is then acknowledged with one copy.
Answered(w) ==
    LET n == wr[w].at IN
    /\ wr[w].step \in {"replicating", "forwarding"} /\ up[n]
    /\ \/ /\ \E m \in net : m.kind = "ack" /\ m.to = n /\ m.id = wr[w].id /\ net' = net \ {m}
          /\ Update(w, "acked", n, 0)
          /\ UNCHANGED faults
       \/ /\ TimedOut(wr[w].id, n)
          /\ Update(w, IF wr[w].step = "replicating" /\ Required(w) = 1 THEN "acked" ELSE "failed", n, 0)
    /\ UNCHANGED <<up, control, challenge, handoff, calls, serving, store, lone, contested>>

------------------------------------------------------------------------------
\* PairWriteForwardHandler: no gate.  As primary it applies and replicates back
\* before it answers; as secondary it applies and answers.

FromClient(m) == \E w \in Write : wr[w].step = "forwarding" /\ wr[w].id = m.id

\* Mutant: the handler waits for the gate.
MutHandleWriteGated(n, m) ==
    /\ up[n] /\ Context(n) /\ ~HoldsGate(n)
    /\ m.kind = "write" /\ m.to = n
    /\ store' = Set(store, n, store[n] \cup {m.write})
    /\ \/ /\ role[n] = "primary"
          /\ Request(Message("write", calls + 1, Peer(n), 0, 0, m.write), {m})
          /\ serving' = serving \cup {[at |-> n, reply |-> m.id, id |-> calls + 1]}
          /\ UNCHANGED lone
       \/ /\ role[n] = "secondary"
          /\ Reply(m, Message("ack", m.id, Peer(n), 0, 0, NoWrite))
          /\ lone' = IF FromClient(m) THEN lone \cup {m.write} ELSE lone
          /\ UNCHANGED <<calls, serving>>
    /\ UNCHANGED <<up, control, challenge, handoff, wr, contested, faults>>

\* Mutant: a primary answers a forwarded write before the forwarder has it.
MutHandleWriteAlone(n, m) ==
    /\ up[n] /\ Context(n)
    /\ m.kind = "write" /\ m.to = n
    /\ store' = Set(store, n, store[n] \cup {m.write})
    /\ Reply(m, Message("ack", m.id, Peer(n), 0, 0, NoWrite))
    /\ lone' = IF role[n] = "secondary" /\ FromClient(m) THEN lone \cup {m.write} ELSE lone
    /\ UNCHANGED <<up, control, challenge, handoff, calls, serving, wr, contested, faults>>

HandleWrite(n, m) ==
    /\ up[n] /\ Context(n)
    /\ m.kind = "write" /\ m.to = n
    /\ store' = Set(store, n, store[n] \cup {m.write})
    /\ \/ /\ role[n] = "primary"
          /\ Request(Message("write", calls + 1, Peer(n), 0, 0, m.write), {m})
          /\ serving' = serving \cup {[at |-> n, reply |-> m.id, id |-> calls + 1]}
          /\ UNCHANGED lone
       \/ /\ role[n] = "secondary"
          /\ Reply(m, Message("ack", m.id, Peer(n), 0, 0, NoWrite))
          /\ lone' = IF FromClient(m) THEN lone \cup {m.write} ELSE lone
          /\ UNCHANGED <<calls, serving>>
    /\ UNCHANGED <<up, control, challenge, handoff, wr, contested, faults>>

\* Its local write or fsync fails: it does not answer.
HandleWriteFails(n, m) ==
    /\ up[n] /\ Context(n)
    /\ m.kind = "write" /\ m.to = n
    /\ Fault
    /\ store' \in {store, Set(store, n, store[n] \cup {m.write})}
    /\ net' = net \ {m}
    /\ UNCHANGED <<up, control, challenge, handoff, calls, wr, serving, lone, contested>>

\* The copy it replicated back is confirmed and it answers, or it does not.
ServeEnds(n) ==
    /\ up[n]
    /\ \E s \in serving :
        /\ s.at = n
        /\ serving' = serving \ {s}
        /\ \/ /\ \E m \in net : /\ m.kind = "ack" /\ m.to = n /\ m.id = s.id
                                /\ Reply(m, Message("ack", s.reply, Peer(n), 0, 0, NoWrite))
              /\ UNCHANGED faults
           \/ TimedOut(s.id, n)
    /\ UNCHANGED <<up, control, challenge, handoff, calls, wr, store, lone, contested>>

------------------------------------------------------------------------------
\* Faults

\* Memory is lost, and with it what the node's clients waited for and what is
\* on the way to it.
Crash(n) ==
    /\ up[n]
    /\ Fault
    /\ up' = Set(up, n, FALSE)
    /\ role' = Set(role, n, "secondary")
    /\ path' = Set(path, n, "unavailable")
    /\ promoted' = Set(promoted, n, FALSE)
    /\ catchUp' = Set(catchUp, n, "ready")
    /\ owed' = Set(owed, n, {})
    /\ connected' = Set(connected, n, FALSE)
    /\ challenge' = Set(challenge, n, 0)
    /\ handoff' = Set(handoff, n, Idle)
    /\ wr' = [w \in Write |-> IF wr[w].at = n /\ (Admitted(w) \/ wr[w].step = "admitting")
                              THEN [step |-> "failed", at |-> n, id |-> 0]
                              ELSE wr[w]]
    /\ serving' = {s \in serving : s.at # n}
    /\ net' = {m \in net : m.to # n}
    /\ UNCHANGED <<marker, calls, store, lone, contested>>

\* ModeController::new: a node with a record starts fenced.
Restart(n) ==
    /\ ~up[n]
    /\ up' = Set(up, n, TRUE)
    /\ path' = Set(path, n, IF marker[n].primary = 0 THEN "direct" ELSE "unavailable")
    /\ UNCHANGED <<marker, role, promoted, catchUp, owed, connected, challenge, handoff, messages, data,
                   contested, faults>>

Lose ==
    /\ Fault
    /\ \E m \in net : net' = net \ {m}
    /\ UNCHANGED <<up, control, challenge, handoff, calls, data, contested>>

------------------------------------------------------------------------------
\* Steps that nodes take by themselves.
Progress ==
    \/ \E n \in Node : Prepare(n) \/ HandoffEnds(n) \/ ServeEnds(n) \/ ReplayLog(n)
    \/ \E n \in Node, m \in net :
        Withdraw(n, m) \/ HandlePrepare(n, m) \/ HandleGrant(n, m) \/ HandleWrite(n, m)
    \/ \E w \in Write : Admit(w) \/ ApplyLocally(w) \/ Answered(w)

\* Steps of peers' connections, of operators, of clients and of failures.
Environment ==
    \/ \E n \in Node : \/ Connect(n) \/ Disconnect(n) \/ PromotePair(n) \/ PromoteStandalone(n)
                       \/ Switchover(n) \/ Crash(n) \/ Restart(n)
    \/ \E w \in Write, n \in Node : Submit(w, n)
    \/ \E w \in Write : ApplyFails(w)
    \/ \E n \in Node, m \in net : HandleWriteFails(n, m)
    \/ Lose

Next == Progress \/ Environment

Spec == Init /\ [][Next]_vars

------------------------------------------------------------------------------
\* Properties

Markers == {NoMarker} \cup [primary : Node, generation : Nat \ {0}]
Paths == {"direct", "unavailable", "pair", "degraded"}
Roles == {"primary", "secondary"}
CatchUps == {"ready", "running", "failed"}
Handoffs == [step : {"idle", "queued", "prepare", "grant"}, id : Nat]
Kinds == {"prepare", "ready", "grant", "accepted", "write", "ack"}
Messages == [kind : Kinds, id : Nat, to : Node, challenge : Nat, generation : Nat, write : Write \cup {NoWrite}]
Steps == {"none", "new", "direct", "admitting", "applying", "replicating", "forwarding", "acked", "failed"}
ClientWrites == [step : Steps, at : Node, id : Nat]
Servings == [at : Node, reply : Nat, id : Nat]

\* Every variable stays in its type: an authority record that exists names one of
\* the two nodes at a generation above 0.
TypeOK ==
    /\ up \in [Node -> BOOLEAN] /\ marker \in [Node -> Markers]
    /\ path \in [Node -> Paths] /\ role \in [Node -> Roles] /\ promoted \in [Node -> BOOLEAN]
    /\ catchUp \in [Node -> CatchUps] /\ owed \in [Node -> SUBSET Write]
    /\ connected \in [Node -> BOOLEAN]
    /\ challenge \in [Node -> Nat] /\ handoff \in [Node -> Handoffs]
    /\ net \in SUBSET Messages /\ calls \in Nat
    /\ \A m \in net : m.kind = "write" => m.write \in Write
    /\ wr \in [Write -> ClientWrites] /\ serving \in SUBSET Servings
    /\ store \in [Node -> SUBSET Write]
    /\ contested \in BOOLEAN /\ lone \in SUBSET Write
    /\ faults \in Nat

\* Until an election is contested, a pair never has two primaries, whatever
\* handoffs, promotions, restarts and re-pairings follow each other.  An election
\* is contested when a node that has no record makes itself primary beside a
\* record of the peer that claims the same: choose_pair_role does not ask the peer.
OnePrimary == role[1] = "primary" /\ role[2] = "primary" => contested

\* Until an election is contested (see OnePrimary), client writes that a node
\* admitted as primary are all answered before the peer admits one as primary:
\* the handoff gate drains them and the withdrawal precedes the grant.
Writing(n) == \E w \in Write : wr[w].at = n /\ wr[w].step \in {"applying", "replicating"}
OneWriterAtATime == Writing(1) /\ Writing(2) => contested

\* A node that takes writes as primary has said so in its own durable record
\* before (store then role in the handler, promotion and election), so that a
\* restart of either node finds who wrote last.
PrimaryIsRecorded == \A n \in Node : role[n] = "primary" => marker[n].primary = n

\* A write acknowledged at ALL is in both stores whatever handoffs, crashes,
\* losses and failed writes happen on its way.  Exempt is a write (in lone) that a
\* fenced node forwarded to a node that is fenced too: the handler of a secondary
\* takes it for a replica's copy and confirms it alone, although the forwarder
\* counts on "two copies".
AckedIsOnBoth ==
    \A w \in Write \ lone : wr[w].step = "acked" /\ Level[w] = "all" => \A n \in Node : w \in store[n]

\* A handoff never overtakes a catch-up that is running or has failed: the node
\* that it makes primary holds every mutation that the old primary's catch-up owed
\* it when it began or when it read the log (CatchUpGate).  It says nothing of a
\* peer that no catch-up is begun for: a node promoted within its pair owes it
\* nothing (see PromotePair), although the peer missed what was written since.
CaughtUpFirst ==
    [][\A n \in Node : role[n] = "secondary" /\ (\E m \in net : HandleGrant(n, m)) /\ role'[n] = "primary" =>
          owed[Peer(n)] \subseteq store[n]]_vars

\* Two nodes that hand off, forward and replicate to each other never all wait
\* on each other, while no election is contested (see OnePrimary): whoever waits,
\* some node has a step to take (the handlers of forwarded writes take no gate).
\* Every such step brings a handoff, a write or a message nearer to its end.
Waiting ==
    \/ \E n \in Node : up[n] /\ handoff[n].step # "idle"
    \/ \E w \in Write : wr[w].step \in {"admitting", "applying", "replicating", "forwarding"}
NeverStuck == Waiting /\ calls < MaxCalls /\ ~contested => ENABLED Progress
==============================================================================
