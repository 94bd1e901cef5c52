------------------------ MODULE AccordOrderInvariants ------------------------
(***************************************************************************)
(* What the proofs about the order of transactions rest on: StampInv,      *)
(* behind ExecutionTimesDiffer; OrderInv, behind RealTimeOrder; InsertInv, *)
(* behind OneInsertWins; and the conditions each of them needs.            *)
(***************************************************************************)
EXTENDS AccordInvariants

------------------------------------------------------------------------------
\* Execution timestamps differ

\* No replica's sequence number saturates: bump_past is strict.
SeqFits == \A r \in Replica : SeqOf(MaxConflict(r)) < D - 1

\* An agreed timestamp is t0, or the proposal of the replica whose number it
\* carries, which still holds it as a conflict.
Owned(x) ==
    sent[x] \cap {"Accept", "Commit"} # {} /\ ct[x] # T0(x) =>
        \E r \in Replica : /\ ct[x] % D = r /\ SeqOf(ct[x]) # 0
                           /\ x \in index[r] /\ tt[r][x] = ct[x]

\* A replica never gives the same bumped timestamp out twice.
OwnStamps(r) ==
    \A x, y \in index[r] : x # y /\ tt[r][x] = tt[r][y] => tt[r][x] % D # r \/ SeqOf(tt[r][x]) = 0

StampInv ==
    /\ ProposedInv
    /\ \A x \in Txn : Owned(x)
    /\ \A r \in Replica : OwnStamps(r)

\* Decided timestamps, accepted ones included, are apart.
Apart ==
    \A x, y \in Txn : /\ sent[x] \cap {"Accept", "Commit"} # {} /\ sent[y] \cap {"Accept", "Commit"} # {}
                      /\ ct[x] = ct[y]
                      => x = y

------------------------------------------------------------------------------
\* Real-time order

\* What the order of acknowledged transactions rests on: requests reach a replica
\* in the order they were sent to it and its log can be synced; where applied
\* transactions are pruned, the coordinator's own replica votes.
InOrder ==
    /\ "late" \notin Env /\ "fsync" \notin Env
    /\ "prune" \in Env => \A s \in Setups : Cardinality(s.replicas) > 2

\* A replica holds a transaction only after its PreAccept, its own node's from the
\* start; it is a live conflict there from then on, until it can be applied.
Voted(r, x) ==
    /\ IsReplica(x) /\ "PreAccept" \in sent[x] => <<"PreAccept", Home[x]>> \in got[x]
    /\ <<"PreAccept", r>> \notin got[x] => phase[r][x] = "none"
    /\ /\ pc[x] \in {"preaccept", "accept", "commit", "read"}
       /\ <<"PreAccept", r>> \in got[x]
       /\ r # Home[x] \/ SelfVotes
       => x \in index[r]
    /\ pc[x] \in {"commit", "read"} /\ r = Home[x] => x \in index[r]

\* Replica r will propose above y's execution timestamp.
Mark(r, y) ==
    \/ hwm[r] >= ct[y]
    \/ /\ "prune" \notin Env
       /\ y \in index[r] /\ phase[r][y] \in {"Committed", "Applied"} /\ tt[r][y] = ct[y]

Marked(y) == {r \in Replica : Mark(r, y)}

Ahead(x, y) == {r \in Marked(y) : voteT[x][r] # 0 => voteT[x][r] > ct[y]}

Spread(x) ==
    /\ pc[x] = "commit" => acks[x] \subseteq Marked(x)
    /\ pc[x] \in {"read", "apply", "local", "ok", "unknown"} => Cardinality(Marked(x)) >= SlowQuorum

Follows(x) ==
    \A y \in earlier[x] :
        /\ pc[y] = "ok"
        /\ Cardinality(Ahead(x, y)) >= SlowQuorum
        /\ sent[x] \cap {"Accept", "Commit"} # {} => ct[y] < ct[x]

OrderInv ==
    /\ ProposedInv
    /\ \A r \in Replica, x \in Txn : Voted(r, x)
    /\ \A x \in Txn : Spread(x) /\ Follows(x)

------------------------------------------------------------------------------
\* What a step does to the read votes and the clocks

\* A read vote is kept, forgotten with the round, or one handler's answer: the
\* dep-wait passed, or the row at t; the replicas' states are not touched by it.
ReadStep(q, y) ==
    \/ /\ reads'[y][q] = reads[y][q] /\ (pc[y] = "read" => pc'[y] = "read")
    \/ reads'[y][q] = NoRead
    \/ /\ pc' = pc /\ ct' = ct /\ sent' = sent /\ phase' = phase /\ tt' = tt /\ index' = index
       /\ pc[y] = "read"
       /\ \/ /\ reads[y][q] = NoRead /\ reads'[y][q] = Ready
             /\ InTurn(y, q) /\ Unapplied(q, ct[y]) = {}
          \/ reads[y][q] = Ready /\ reads'[y][q] = RowAt(q, ct[y])
          \/ "fail" \in Env

------------------------------------------------------------------------------
\* One insert wins

\* No failures, and only conditional inserts beside the rows that were there before.
OnlyInserts == Env = {} /\ Txn \subseteq Insert \cup Prior

\* Replica r's dep-wait for the read of y is over.
Passed(y, r) == pc[y] = "read" /\ reads[y][r] # NoRead

\* From then on r holds y at its execution timestamp or above, and no proposal of
\* r that a coordinator may still count is below.
Reader(r, y) ==
    /\ pc[y] # "read" => reads[y][r] = NoRead
    /\ Passed(y, r) => y \in index[r] /\ tt[r][y] >= ct[y]
    /\ Passed(y, r) => \A x \in index[r] : pc[x] = "preaccept" => tt[r][x] >= ct[y]

\* A timestamp is never below t0; a row has the timestamp its replica applied at.
Stamped(r, x) ==
    /\ phase[r][x] # "none" => tt[r][x] >= T0(x)
    /\ sent[x] \cap {"Accept", "Commit"} # {} => ct[x] >= T0(x)
    /\ pc[x] # "abandoned"
    /\ x \notin Prior /\ rowT[r][x] # 0 => phase[r][x] = "Applied" /\ rowT[r][x] = tt[r][x]
    /\ x \in Prior => ct[x] = T0(x) /\ rowT[r][x] = T0(x)

Live(x) == sent[x] \cap {"Accept", "Commit"} # {} /\ "NoWrite" \notin sent[x]

IsQuorum(S) == Cardinality(S) >= SlowQuorum \/ Cardinality(S) >= FastQuorum

\* The replicas that hold x at or below its execution timestamp; those of them whose
\* answer to y's read, if any, saw x's row; those that propose nothing below x.
Supp(x) == {r \in Replica : x \in index[r] /\ tt[r][x] <= ct[x]}

Clean(x, y) == {r \in Supp(x) : Passed(y, r) => phase[r][x] = "Applied" /\ reads[y][r] # Absent}

Guard(x, y) == {r \in Replica : /\ x \in index[r] /\ tt[r][x] >= ct[x]
                                /\ y \in index[r] => tt[r][y] >= ct[x]}

Waited(x, y) ==
    /\ Live(x) => IsQuorum(Supp(x))
    /\ Live(x) /\ pc[y] = "read" /\ ct[x] < ct[y] => IsQuorum(Clean(x, y))
    /\ "Apply" \in sent[x] /\ pc[y] \in {"idle", "mint", "preaccept"} => Cardinality(Guard(x, y)) >= SlowQuorum
    /\ "Apply" \in sent[x] /\ pc[y] \in {"accept", "commit", "read"} => ct[x] < ct[y]
    /\ "Apply" \in sent[x] /\ "Apply" \in sent[y] => x = y

\* Where the row was there from the start, every read sees it.
Existed ==
    Prior # {} =>
      /\ \A x \in Txn : "Apply" \notin sent[x]
      /\ \A r \in Replica, y \in Txn : reads[y][r] # Absent
      /\ \A z \in Prior : /\ \A n \in Node : clock[n] >= D * z
                          /\ \A y \in Txn \ Prior : pc[y] # "idle" => y > z

InsertInv ==
    /\ OrderInv /\ StampInv
    /\ \A r \in Replica, x \in Txn : Reader(r, x) /\ Stamped(r, x)
    /\ \A x, y \in Txn : Waited(x, y)
    /\ Existed
==============================================================================
