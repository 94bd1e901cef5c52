-------------------------------- MODULE Hints --------------------------------
(***************************************************************************)
(* Hinted handoff for one peer (ferrosa-cluster/src/hints): the store of   *)
(* mutations the peer missed, in numbered append-only segment files, and   *)
(* the delivery task that replays them and then removes what it replayed.  *)
(* Coordinators keep storing while a delivery runs.                        *)
(*                                                                         *)
(* A hint is a number, its encoded size one unit.  Each operation of the   *)
(* store runs under its mutex; the peers' states are independent.          *)
(***************************************************************************)
EXTENDS Integers, Sequences, FiniteSets

CONSTANTS
    Hint,          \* mutations the peer misses
    SegmentSize,   \* segment_size_mb
    Cap,           \* max_per_peer_mb, 0 for no limit
    Env,           \* which failures occur
    MaxFaults      \* bound on them

\* "crash": the process restarts.  "fsync": a sync fails.  "io": a segment
\* cannot be opened or removed.  "peer": the peer fails or an ack is lost.
ASSUME Bounds == /\ Hint \subseteq Nat /\ IsFiniteSet(Hint)
                 /\ SegmentSize \in Nat \ {0} /\ Cap \in Nat
                 /\ Env \subseteq {"crash", "fsync", "io", "peer"}
                 /\ MaxFaults \in Nat

VARIABLES
    segs,       \* the segment files by number; the open one with its buffer
    counter,    \* segment_counter
    writer,     \* whether the segment counter is open for writing
    count,      \* record_count and total_bytes
    markSeg,    \* DrainMark: through_segment, None without a mark
    markCount,  \* DrainMark: records and bytes
    pc,         \* the peer's delivery task, "idle" if none is in flight
    todo,       \* HintDrain: segments not opened yet
    reader,     \* HintDrain: what is left of the current segment
    up,         \* has_live_peer
    accepted,   \* history: hints for which store returned Ok, in order
    got,        \* history: hints the peer has applied
    skipped,    \* history: hints of segments that could not be opened
    intact,     \* history: no restart and no failed sync so far
    faults      \* failures so far

disk == <<segs, counter, writer, count>>
mark == <<markSeg, markCount>>
task == <<pc, todo, reader>>
hist == <<accepted, got, skipped, intact, faults>>
vars == <<disk, mark, task, up, hist>>

None == -1
Fault(kind) == kind \in Env /\ faults < MaxFaults /\ faults' = faults + 1

RangeOf(s) == {s[i] : i \in DOMAIN s}
Greatest(S) == CHOOSE n \in S : \A m \in S : m <= n
Least(S) == CHOOSE n \in S : \A m \in S : n <= m
Records(files) == UNION {{n} \X DOMAIN files[n] : n \in DOMAIN files}

\* SegmentWriter::create truncates.
Created(n, s) == [m \in DOMAIN segs \cup {n} |-> IF m = n THEN s ELSE segs[m]]
Opened == IF writer THEN segs ELSE Created(counter, <<>>)
Fits == Len(Opened[counter]) < SegmentSize

\* A file of which the process or a failed sync wrote only a part.
Torn(n) == {[segs EXCEPT ![n] = SubSeq(@, 1, k)] : k \in 0 .. Len(segs[n])}

Init ==
    /\ segs = [n \in {} |-> <<>>] /\ counter = 0 /\ writer = FALSE /\ count = 0
    /\ markSeg = None /\ markCount = 0
    /\ pc = "idle" /\ todo = {} /\ reader = <<>>
    /\ up = TRUE
    /\ accepted = <<>> /\ got = {} /\ skipped = {} /\ intact = TRUE /\ faults = 0

InBudget == Cap > 0 => count < Cap

\* The part of store common to its outcomes: the budget check before anything
\* is written, the totals after the append.
Accept(h) ==
    /\ h \notin RangeOf(accepted)
    /\ InBudget
    /\ count' = count + 1
    /\ accepted' = Append(accepted, h)
    /\ UNCHANGED <<mark, task, up, got, skipped, intact, faults>>

\* store into the current segment, which is created if it is not open.
StoreAppend(h) ==
    /\ Accept(h)
    /\ Fits
    /\ segs' = [Opened EXCEPT ![counter] = Append(@, h)]
    /\ writer' = TRUE
    /\ UNCHANGED counter

\* store when the current segment is full: sync it and open the next.
StoreRollover(h) ==
    /\ Accept(h)
    /\ writer /\ ~Fits
    /\ counter' = counter + 1
    /\ segs' = Created(counter + 1, <<h>>)
    /\ UNCHANGED writer

\* The sync of a rollover or of a drain fails: the writer is gone, the counter
\* is not advanced, the hint is refused or the delivery ends.
SyncFails ==
    /\ Fault("fsync")
    /\ writer
    /\ (~Fits /\ InBudget) \/ (pc = "idle" /\ up /\ count > 0)
    /\ segs' \in Torn(counter)
    /\ writer' = FALSE
    /\ intact' = FALSE
    /\ UNCHANGED <<counter, count, mark, task, up, accepted, got, skipped>>

Covered == IF DOMAIN segs = {} THEN counter ELSE Greatest(DOMAIN segs)

\* Mutant: no drain over the mark of a delivery that failed.
MutDrainUnmarked ==
    /\ pc = "idle" /\ up /\ count > 0 /\ markSeg = None
    /\ writer' = FALSE
    /\ counter' = Covered + 1
    /\ markSeg' = Covered /\ markCount' = count
    /\ pc' = "replay" /\ todo' = DOMAIN segs /\ reader' = <<>>
    /\ UNCHANGED <<segs, count, up, hist>>

\* The sweep, or the peer's recovery, starts a delivery: drain closes the
\* current segment, marks what it covers and moves later stores to a fresh one.
Drain ==
    /\ pc = "idle" /\ up /\ count > 0
    /\ writer' = FALSE
    /\ counter' = (IF Covered > counter THEN Covered ELSE counter) + 1
    /\ markSeg' = Covered /\ markCount' = count
    /\ pc' = "replay" /\ todo' = DOMAIN segs /\ reader' = <<>>
    /\ UNCHANGED <<segs, count, up, hist>>

\* Mutant: the newest segment first.
MutOpenSegmentNewest ==
    /\ pc = "replay" /\ reader = <<>> /\ todo # {}
    /\ LET n == Greatest(todo)
       IN  reader' = segs[n] /\ todo' = todo \ {n}
    /\ UNCHANGED <<disk, mark, pc, up, hist>>

\* HintDrain::next moves to the oldest segment that is left.
OpenSegment ==
    /\ pc = "replay" /\ reader = <<>> /\ todo # {}
    /\ LET n == Least(todo)
       IN  reader' = segs[n] /\ todo' = todo \ {n}
    /\ UNCHANGED <<disk, mark, pc, up, hist>>

\* ... and skips one that it cannot open.
SkipSegment ==
    /\ Fault("io")
    /\ pc = "replay" /\ reader = <<>> /\ todo # {}
    /\ LET n == Least(todo)
       IN  todo' = todo \ {n} /\ skipped' = skipped \cup RangeOf(segs[n])
    /\ UNCHANGED <<disk, mark, pc, reader, up, accepted, got, intact>>

\* The next hint is sent and acked.
Send ==
    /\ pc = "replay" /\ reader # <<>> /\ up
    /\ got' = got \cup {Head(reader)}
    /\ reader' = Tail(reader)
    /\ UNCHANGED <<disk, mark, pc, todo, up, accepted, skipped, intact, faults>>

\* A send fails, applied or not: the delivery ends, the hints stay.
SendFails ==
    /\ pc = "replay" /\ reader # <<>>
    /\ \/ ~up /\ UNCHANGED <<got, faults>>
       \/ up /\ Fault("peer") /\ got' \in {got, got \cup {Head(reader)}}
    /\ pc' = "idle" /\ todo' = {} /\ reader' = <<>>
    /\ UNCHANGED <<disk, mark, up, accepted, skipped, intact>>

Without(files) == [n \in DOMAIN segs \ files |-> segs[n]]
Replayed == {n \in DOMAIN segs : n <= markSeg}

\* Mutant: the peer's directory is removed.
MutCleanupAll ==
    /\ pc = "replay" /\ reader = <<>> /\ todo = {}
    /\ segs' = Without(DOMAIN segs)
    /\ writer' = FALSE
    /\ count' = count - markCount
    /\ markSeg' = None /\ markCount' = 0
    /\ pc' = "idle"
    /\ UNCHANGED <<counter, todo, reader, up, hist>>

\* Mutant: the totals are reset.
MutCleanupResets ==
    /\ pc = "replay" /\ reader = <<>> /\ todo = {}
    /\ segs' = Without(Replayed)
    /\ count' = 0
    /\ markSeg' = None /\ markCount' = 0
    /\ pc' = "idle"
    /\ UNCHANGED <<counter, writer, todo, reader, up, hist>>

\* Everything was replayed: cleanup removes what the drain covered.  A file
\* that cannot be removed stays.
Cleanup ==
    /\ pc = "replay" /\ reader = <<>> /\ todo = {}
    /\ \/ segs' = Without(Replayed) /\ UNCHANGED hist
       \/ /\ Fault("io")
          /\ \E files \in SUBSET Replayed \ {Replayed} : segs' = Without(files)
          /\ UNCHANGED <<accepted, got, skipped, intact>>
    /\ count' = count - markCount
    /\ markSeg' = None /\ markCount' = 0
    /\ pc' = "idle"
    /\ UNCHANGED <<counter, writer, todo, reader, up>>

\* The process dies and HintStore::new recovers what the files hold.
Restart ==
    /\ Fault("crash")
    /\ segs' \in IF writer THEN Torn(counter) ELSE {segs}
    /\ counter' = IF DOMAIN segs = {} THEN 0 ELSE Greatest(DOMAIN segs)
    /\ writer' = FALSE
    /\ count' = Cardinality(Records(segs'))
    /\ markSeg' = None /\ markCount' = 0
    /\ pc' = "idle" /\ todo' = {} /\ reader' = <<>>
    /\ intact' = FALSE
    /\ UNCHANGED <<up, accepted, got, skipped>>

PeerDown == up /\ Fault("peer") /\ up' = FALSE
            /\ UNCHANGED <<disk, mark, task, accepted, got, skipped, intact>>
PeerUp == ~up /\ up' = TRUE /\ UNCHANGED <<disk, mark, task, hist>>

Next ==
    \/ \E h \in Hint : StoreAppend(h) \/ StoreRollover(h)
    \/ SyncFails
    \/ Drain \/ OpenSegment \/ SkipSegment \/ Send \/ SendFails \/ Cleanup
    \/ Restart \/ PeerDown \/ PeerUp

Spec == Init /\ [][Next]_vars

\* The sweep comes round, the delivery task is scheduled and a peer that went
\* down comes back.
Fairness ==
    /\ WF_vars(Drain) /\ WF_vars(OpenSegment) /\ WF_vars(Send)
    /\ WF_vars(Cleanup) /\ WF_vars(PeerUp)

LiveSpec == Spec /\ Fairness

------------------------------------------------------------------------------
\* Properties

\* Every variable keeps its type; no segment outgrows its size (append).
TypeOK ==
    /\ DOMAIN segs \subseteq Nat
    /\ \A n \in DOMAIN segs : segs[n] \in Seq(Hint) /\ Len(segs[n]) <= SegmentSize
    /\ counter \in Nat /\ writer \in BOOLEAN /\ count \in Nat
    /\ writer => counter \in DOMAIN segs
    /\ markSeg \in Nat \cup {None} /\ markCount \in Nat
    /\ pc \in {"idle", "replay"} /\ todo \in SUBSET DOMAIN segs
    /\ reader \in Seq(Hint)
    /\ up \in BOOLEAN /\ intact \in BOOLEAN
    /\ accepted \in Seq(Hint) /\ got \in SUBSET Hint /\ skipped \in SUBSET Hint
    /\ faults \in Nat

OnFile(h) == \E n \in DOMAIN segs : h \in RangeOf(segs[n])

\* Before any restart or failed sync an accepted hint is lost in one way only:
\* its segment could not be opened, is skipped (HintDrain::next) and deleted by
\* the cleanup of the same delivery with the hints undelivered.  Every other is
\* with the peer or on file, however stores and deliveries interleave and
\* wherever deliveries fail: one stored while a delivery runs survives its
\* cleanup (DrainMark).
AcceptedIsKept ==
    intact => \A h \in RangeOf(accepted) : h \in got \cup skipped \/ OnFile(h)

\* Before any restart or failed sync hints reach the peer in the order they were
\* stored, over segments and repeated deliveries (drain: "in FIFO order"); only
\* hints of a segment that could not be opened are passed over.
DeliveredInOrder ==
    intact => \A i, j \in DOMAIN accepted :
        i < j /\ accepted[j] \in got => accepted[i] \in got \cup skipped

\* The pending count the sweep goes by covers every hint that is left on file
\* and was not skipped, so none is stranded on disk, also after restarts and
\* failed syncs (peers_with_pending_hints).
PendingCovers ==
    Cardinality({h \in Hint \ (got \cup skipped) : OnFile(h)}) <= count

\* Every accepted hint reaches the peer once the failures end, unless its segment
\* was skipped as unreadable, or a restart or a failed sync came before (the
\* next store may then truncate its file): a failed delivery is taken up again
\* by the periodic sweep.
HintsReachPeer ==
    \A h \in Hint : h \in RangeOf(accepted) ~> h \in got \cup skipped \/ ~intact

OnDisk(h) == \E n \in DOMAIN segs : h \in RangeOf(segs[n]) /\ ~(writer /\ n = counter)

(* A statement of the source that does not hold; the README tells what refutes it *)

\* "Undelivered hints stay on disk" (the sweep's comment; HintStore::new
\* recovers the state of a previous run).
UndeliveredStayOnDisk ==
    [][\A h \in Hint : OnDisk(h) => OnDisk(h)' \/ h \in got]_vars
==============================================================================
