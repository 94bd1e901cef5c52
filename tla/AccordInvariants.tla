-------------------------- MODULE AccordInvariants ---------------------------
(***************************************************************************)
(* What the proofs about AccordTxn rest on: the types in two parts, the    *)
(* rounds of a coordinator, what one step can do to one transaction (at    *)
(* its coordinator, and on a replica), and the invariants RoundInv,        *)
(* HoldInv and ProposedInv.                                                *)
(***************************************************************************)
EXTENDS AccordTxn

------------------------------------------------------------------------------
\* Types

\* TypeOK in two parts: the coordinators' state, and that of the replicas.
CoordTyped ==
    /\ pc \in [Txn -> {"idle", "mint", "preaccept", "accept", "commit", "read",
                       "apply", "local"} \cup Terminal]
    /\ sent \in [Txn -> SUBSET Kind]
    /\ got \in [Txn -> SUBSET (Kind \X Replica)]
    /\ voteT \in [Txn -> [Replica -> Nat]]
    /\ voteDeps \in [Txn -> [Replica -> SUBSET Txn]]
    /\ ct \in [Txn -> Nat]
    /\ ad \in [Txn -> SUBSET Txn]
    /\ cd \in [Txn -> SUBSET Txn]
    /\ acks \in [Txn -> SUBSET Replica]
    /\ reads \in [Txn -> [Replica -> Int]]
    /\ earlier \in [Txn -> SUBSET Txn]

ReplicaTyped ==
    /\ clock \in [Node -> Nat]
    /\ phase \in [Replica -> [Txn -> Phase]]
    /\ tt \in [Replica -> [Txn -> Nat]]
    /\ deps \in [Replica -> [Txn -> SUBSET Txn]]
    /\ index \in [Replica -> SUBSET Txn]
    /\ hwm \in [Replica -> Nat]
    /\ tomb \in [Replica -> SUBSET Txn]
    /\ \A r \in Replica, x \in Txn : (phase[r][x] = "none") = (tt[r][x] = 0)

------------------------------------------------------------------------------
\* The coordinators' rounds

\* Which requests a coordinator has broadcast in each phase, and that a proposal
\* has a timestamp.  A prior transaction takes no step.
Rounds(x) ==
    /\ x \in Prior => pc[x] = "ok" /\ sent[x] = {}
    /\ pc[x] \in {"idle", "mint"} => sent[x] = {}
    /\ pc[x] = "preaccept" => sent[x] = {"PreAccept"}
    /\ pc[x] = "accept" => sent[x] = {"PreAccept", "Accept"}
    /\ pc[x] \in {"commit", "read"} => sent[x] \in {{"PreAccept", "Commit"}, {"PreAccept", "Accept", "Commit"}}
    /\ pc[x] \in {"apply", "local", "unknown"} \/ (pc[x] = "ok" /\ x \notin Prior) =>
           {"PreAccept", "Commit", "Apply"} \subseteq sent[x] /\ "NoWrite" \notin sent[x]
    /\ pc[x] \in {"failed", "refused"} => "Apply" \notin sent[x] /\ "NoWrite" \in sent[x]
    /\ pc[x] = "abandoned" => {"Commit", "Apply", "NoWrite"} \subseteq sent[x]
    /\ sent[x] \cap {"Accept", "Commit"} # {} => ct[x] # 0 /\ "PreAccept" \in sent[x]

------------------------------------------------------------------------------
\* What one step can do to one transaction: at its coordinator, and on a replica

\* Its coordinator does nothing that shows, or goes on to its next round.
CoordStays(y) ==
    pc'[y] = pc[y] /\ sent'[y] = sent[y] /\ ct'[y] = ct[y] /\ cd'[y] = cd[y] /\ earlier'[y] = earlier[y]

CoordMoves(y) ==
    \/ /\ pc[y] = "idle" /\ pc'[y] = "mint" /\ D * y > clock[Home[y]]
       /\ sent'[y] = sent[y] /\ ct'[y] = ct[y] /\ cd'[y] = cd[y]
       /\ earlier'[y] = {z \in Txn : pc[z] = "ok"}
    \/ /\ earlier'[y] = earlier[y]
       /\ \/ /\ pc[y] = "mint" /\ pc'[y] = "preaccept"
             /\ sent'[y] = sent[y] \cup {"PreAccept"} /\ ct'[y] = ct[y] /\ cd'[y] = cd[y]
             /\ IsReplica(y) => <<"PreAccept", Home[y]>> \in got'[y]
          \/ /\ pc[y] = "preaccept" /\ pc'[y] = "commit"
             /\ sent'[y] = sent[y] \cup {"Commit"}
             /\ \E Q \in FastPathOf(y) : ct'[y] = T0(y)
             /\ IsReplica(y) => y \in index'[Home[y]]
          \/ /\ pc[y] = "preaccept" /\ pc'[y] = "accept"
             /\ sent'[y] = sent[y] \cup {"Accept"} /\ cd'[y] = cd[y]
             /\ \E Q \in NeedAcceptOf(y) : ct'[y] = MergedT(y, Q)
          \/ /\ pc[y] = "accept" /\ pc'[y] = "commit"
             /\ sent'[y] = sent[y] \cup {"Commit"} /\ ct'[y] = ct[y]
             /\ IsReplica(y) => y \in index'[Home[y]]
          \/ /\ ct'[y] = ct[y] /\ cd'[y] = cd[y]
             /\ \/ /\ pc[y] = "commit" /\ pc'[y] = "read" /\ sent'[y] = sent[y] /\ y \in Insert
                   /\ acks'[y] = {} /\ Cardinality(acks[y]) >= SlowQuorum
                \/ /\ pc[y] = "commit" /\ pc'[y] = "apply" /\ sent'[y] = sent[y] \cup {"Apply"}
                   /\ y \notin Insert /\ acks'[y] = {} /\ Cardinality(acks[y]) >= SlowQuorum
                \/ /\ pc[y] = "read" /\ pc'[y] = "apply" /\ sent'[y] = sent[y] \cup {"Apply"}
                   /\ Agreed(y, Absent)
                \/ /\ pc[y] = "apply" /\ sent'[y] = sent[y]
                   /\ (IsReplica(y) /\ pc'[y] = "local") \/ (~IsReplica(y) /\ pc'[y] = "ok")
                   /\ ApplyAcks(y, acks[y]) >= SlowQuorum
                \/ /\ pc[y] \in {"apply", "local"} /\ pc'[y] = "unknown" /\ sent'[y] = sent[y]
                   /\ "fail" \in Env
                \/ /\ pc[y] = "local" /\ pc'[y] = "ok" /\ sent'[y] = sent[y]
                   /\ phase[Home[y]][y] = "Applied"
                \/ /\ sent'[y] = sent[y] \cup {"NoWrite"}
                   /\ \/ pc[y] \in {"preaccept", "accept", "commit", "read"} /\ pc'[y] \in {"failed", "refused"}
                      \/ pc[y] = "apply" /\ pc'[y] = "abandoned" /\ "fail" \in Env

\* The replica's state of the transaction is not touched, or one handler's work.
Same(q, y) ==
    /\ phase'[q][y] = phase[q][y] /\ tt'[q][y] = tt[q][y] /\ deps'[q][y] = deps[q][y]
    /\ rowT'[q][y] = rowT[q][y]
    /\ y \in index'[q] <=> y \in index[q]
    /\ y \in tomb'[q] <=> y \in tomb[q]

RegisteredAt(q, y) ==
    /\ phase[q][y] = "none" /\ y \notin tomb[q]
    /\ phase'[q][y] = "PreAccepted" /\ tt'[q][y] = ProposedT(q, y)
    /\ rowT'[q][y] = rowT[q][y] /\ y \in index'[q] /\ y \notin tomb'[q]
    /\ "PreAccept" \in sent'[y] /\ <<"PreAccept", q>> \in got'[y]
    /\ <<"PreAccept", q>> \notin got[y]

CreatedAt(q, y) ==
    /\ "fsync" \in Env /\ phase[q][y] = "none"
    /\ phase'[q][y] = "PreAccepted" /\ tt'[q][y] = T0(y)
    /\ rowT'[q][y] = rowT[q][y]
    /\ y \in index'[q] <=> y \in index[q]
    /\ y \in tomb'[q] <=> y \in tomb[q]
    /\ sent'[y] \cap {"Accept", "Commit"} # {}

AcceptedAt(q, y) ==
    /\ phase[q][y] \notin {"Committed", "Applied"}
    /\ phase'[q][y] = "Accepted" /\ tt'[q][y] = ct'[y] /\ rowT'[q][y] = rowT[q][y]
    /\ y \in index'[q] <=> y \in index[q]
    /\ y \in tomb'[q] <=> y \in tomb[q]
    /\ y \in index[q] => hwm'[q] >= ct'[y]
    /\ "Accept" \in sent'[y] /\ (q = Home[y] \/ InTurn(y, q))

CommittedAt(q, y) ==
    /\ phase[q][y] \notin {"Committed", "Applied"}
    /\ phase'[q][y] = "Committed" /\ tt'[q][y] = ct'[y] /\ deps'[q][y] = cd'[y]
    /\ rowT'[q][y] = rowT[q][y]
    /\ \/ y \in index'[q] <=> y \in index[q]
       \/ q = Home[y] /\ pc[y] \in {"preaccept", "accept"} /\ y \in index'[q]
    /\ q = Home[y] /\ pc[y] \in {"preaccept", "accept"} => y \in index'[q]
    /\ y \in tomb'[q] <=> y \in tomb[q]
    /\ y \in index[q] => hwm'[q] >= ct'[y]
    /\ "Commit" \in sent'[y] /\ (q = Home[y] \/ InTurn(y, q))

AppliedAt(q, y) ==
    /\ phase[q][y] \in {"PreAccepted", "Accepted", "Committed"}
    /\ phase'[q][y] = "Applied" /\ tt'[q][y] = tt[q][y] /\ rowT'[q][y] = tt[q][y]
    /\ y \in index'[q] <=> y \in index[q]
    /\ y \in tomb'[q] <=> y \in tomb[q]
    /\ "Apply" \in sent[y]

FinalizedAt(q, y) ==
    /\ \/ phase[q][y] = "none" /\ phase'[q][y] = "none" /\ y \in tomb'[q]
       \/ phase[q][y] # "none" /\ phase'[q][y] = "Applied" /\ (y \in tomb'[q] <=> y \in tomb[q])
    /\ tt'[q][y] = tt[q][y] /\ rowT'[q][y] = rowT[q][y]
    /\ y \in index'[q] <=> y \in index[q]
    /\ "NoWrite" \in sent'[y]

PrunedAt(q, y) ==
    /\ "prune" \in Env /\ phase[q][y] = "Applied"
    /\ phase'[q][y] = "none" /\ tt'[q][y] = 0 /\ rowT'[q][y] = rowT[q][y]
    /\ y \notin index'[q] /\ y \in tomb'[q]

\* A vote is kept, forgotten, or the replica's t as it stands after the handler.
VoteStep(q, y) ==
    \/ voteT'[y][q] = voteT[y][q] /\ (pc[y] = "preaccept" => pc'[y] = "preaccept")
    \/ voteT'[y][q] = 0
    \/ /\ pc[y] \in {"mint", "preaccept"} /\ pc'[y] = "preaccept"
       /\ voteT'[y][q] = tt'[q][y] /\ phase'[q][y] = "PreAccepted"
       /\ <<"PreAccept", q>> \notin got[y]

\* An acknowledgement follows from the handler that sends it.
AckStep(q, y) ==
    q \in acks'[y] /\ pc'[y] \in {"commit", "read", "apply"} =>
       \/ q \in acks[y] /\ (pc'[y] = pc[y] \/ pc[y] = "read")
       \/ pc'[y] = "commit" /\ (CommittedAt(q, y) \/ "fsync" \in Env)
       \/ pc[y] = "apply" /\ pc'[y] = "apply" /\ q # Home[y] /\ AppliedAt(q, y)

\* Requests are handled once sent, and what handling them leaves.
GotStep(q, y) ==
    /\ \A k \in Kind : <<k, q>> \in got[y] => <<k, q>> \in got'[y]
    /\ \A k \in Kind : <<k, q>> \in got'[y] => <<k, q>> \in got[y] \/ k \in sent'[y]
    /\ <<"NoWrite", q>> \in got'[y] => <<"NoWrite", q>> \in got[y] \/ FinalizedAt(q, y)
    /\ <<"PreAccept", q>> \in got'[y] =>
          \/ <<"PreAccept", q>> \in got[y]
          \/ RegisteredAt(q, y) \/ "fsync" \in Env
          \/ q = Home[y] /\ ~SelfVotes
          \/ phase[q][y] # "none"

Effects(q, y) ==
    /\ CoordStays(y) \/ CoordMoves(y)
    /\ \/ Same(q, y) \/ RegisteredAt(q, y) \/ CreatedAt(q, y) \/ AcceptedAt(q, y)
       \/ CommittedAt(q, y) \/ AppliedAt(q, y) \/ FinalizedAt(q, y) \/ PrunedAt(q, y)
    /\ VoteStep(q, y) /\ AckStep(q, y) /\ GotStep(q, y)
    /\ hwm'[q] >= hwm[q]

\* What handling a request of x on replica r does, there and elsewhere.
OnlyAt(r, x) ==
    /\ \A q \in Replica : hwm'[q] >= hwm[q]
    /\ \A q \in Replica, y \in Txn : q # r \/ y # x => Same(q, y)

AcceptMade(r, x, t) ==
    /\ phase'[r][x] = "Accepted" /\ tt'[r][x] = t
    /\ x \in index'[r] <=> x \in index[r]
    /\ x \in tomb'[r] <=> x \in tomb[r]
    /\ x \in index[r] => hwm'[r] >= t

CommitMade(r, x, t, d) ==
    /\ phase'[r][x] = "Committed" /\ tt'[r][x] = t /\ deps'[r][x] = d
    /\ UNCHANGED index => (x \in index'[r] <=> x \in index[r])
    /\ index' = [index EXCEPT ![r] = @ \cup {x}] => x \in index'[r]
    /\ x \in tomb'[r] <=> x \in tomb[r]
    /\ x \in index[r] => hwm'[r] >= t

------------------------------------------------------------------------------
\* The rounds are run in order, and only what was broadcast is handled

Broadcasted(x) == \A k \in Kind, r \in Replica : <<k, r>> \in got[x] => k \in sent[x]

RoundInv == TypeOK /\ \A x \in Txn : Rounds(x) /\ Broadcasted(x)

------------------------------------------------------------------------------
\* What a replica's state of a transaction says of its coordinator's rounds

Agreeing(r, x) ==
    /\ phase[r][x] = "Accepted" => "Accept" \in sent[x] /\ tt[r][x] = ct[x]
    /\ phase[r][x] = "Committed" => "Commit" \in sent[x] /\ tt[r][x] = ct[x] /\ deps[r][x] = cd[x]

Justified(r, x) ==
    /\ rowT[r][x] # 0 => x \in Prior \/ "Apply" \in sent[x]
    /\ x \in Prior => rowT[r][x] # 0
    /\ phase[r][x] = "Applied" => rowT[r][x] # 0 \/ "NoWrite" \in sent[x]
    /\ x \in index[r] => phase[r][x] # "none"
    /\ <<"NoWrite", r>> \in got[x] => phase[r][x] = "Applied" \/ (x \in tomb[r] /\ x \notin index[r])

\* The acknowledgements a coordinator counts stand for rows: of other replicas
\* while it waits for them, of all but its own once it has a quorum.
Counted(x) ==
    /\ pc[x] = "read" => acks[x] = {}
    /\ pc[x] = "apply" => \A r \in acks[x] : r # Home[x] /\ rowT[r][x] # 0
    /\ pc[x] = "local" => Home[x] \in Replica /\ Cardinality(Holders(x) \ {Home[x]}) + 1 >= SlowQuorum
    /\ pc[x] = "ok" => Cardinality(Holders(x)) >= SlowQuorum

HoldInv ==
    /\ RoundInv
    /\ \A r \in Replica, x \in Txn : Agreeing(r, x) /\ Justified(r, x)
    /\ \A x \in Txn : Counted(x)

------------------------------------------------------------------------------
\* Proposals and votes

\* Until the Accept or Commit round a replica holds a transaction with its own
\* proposal, as a live conflict, and that is what it voted.
Proposed(r, x) ==
    /\ pc[x] \in {"idle", "mint"} => phase[r][x] = "none" /\ voteT[x][r] = 0
    /\ pc[x] = "preaccept" /\ phase[r][x] # "none" =>
          /\ phase[r][x] = "PreAccepted" /\ x \in index[r]
          /\ tt[r][x] = T0(x) \/ (tt[r][x] % D = r /\ SeqOf(tt[r][x]) # 0)
    /\ voteT[x][r] # 0 => pc[x] = "preaccept" /\ phase[r][x] # "none" /\ voteT[x][r] = tt[r][x]

ProposedInv == HoldInv /\ \A r \in Replica, x \in Txn : Proposed(r, x)
==============================================================================
