---------------------------- MODULE CommitLogSync ----------------------------
(***************************************************************************)
(* When a commit-log write may be acknowledged (commitlog/sync.rs): the    *)
(* counters of SyncHealth, the writers that register with them, and the    *)
(* Periodic or Group sync thread, which can fail, panic, be replaced by    *)
(* the supervisor and be stopped.  Every load, store and compare-exchange  *)
(* of a shared counter is a step of its own where another thread can tell. *)
(*                                                                         *)
(* One segment takes every write here; what rotation adds is the subject   *)
(* of module CommitLog, and so are Batch sync and the callers that sync    *)
(* themselves (AckPolicy::CallerSyncs), which wait for no counter.         *)
(* Condition variables are waited on with a timeout throughout, so a       *)
(* waiting thread may look again at any time.                              *)
(***************************************************************************)
EXTENDS Integers, FiniteSets

CONSTANTS
    Writer,         \* one write each, numbered in the order they are appended
    Modes,          \* the sync strategies this instance may be configured with
    Deadline,       \* sync_stall_deadline
    MaxTime,        \* bound on the clock
    MaxFaults       \* bound on failed fsyncs, panics and stops

ASSUME Strategies == Modes \subseteq {"periodic", "group"} /\ Modes # {}
ASSUME Writers == Writer \subseteq Nat
ASSUME Bounds == Deadline \in Nat \ {0} /\ MaxTime \in Nat /\ MaxFaults \in Nat

VARIABLES
    mode,           \* config.sync_strategy
    now,            \* Instant::now
    written, durable, since, dead, failing,     \* SyncHealth
    pending,        \* writes counted since the last sync took them
    stop,           \* stop_flag: "no", "raised", then "final" once the thread is joined
    buffer, disk,   \* entries complete in the segment buffer; entries fsynced
    wpc, seq, start, noted,     \* the writers: step, sequence number, when on_write
                                \* began and when note_write returned
    spc, taken, at, target, clean,      \* the sync thread and its locals
    settled,        \* history: when a cleared age was last put back
    faults          \* failures and stops so far

health == <<written, durable, since, dead, failing>>
writers == <<wpc, seq, start, noted>>
thread == <<spc, taken, at, target, clean, settled>>
vars == <<mode, now, health, pending, stop, buffer, disk, writers, thread, faults>>

Answers == {"acked", "admitted", "refused"}
\* The writer's steps under the flush_complete mutex.
Locked == {"covered", "dead", "failing", "age"}
WriterPcs == {"idle", "note", "stamp", "queue"} \cup Locked \cup Answers
ThreadPcs == {"top", "ticket", "flush", "advance", "store", "settle", "wake", "panicked", "gone", "final"}

Init ==
    /\ mode \in Modes
    /\ now = 0
    /\ written = 0 /\ durable = 0 /\ since = 0 /\ dead = FALSE /\ failing = FALSE
    /\ pending = 0 /\ stop = "no" /\ buffer = {} /\ disk = {}
    /\ wpc = [w \in Writer |-> "idle"]
    /\ seq = [w \in Writer |-> 0]
    /\ start = [w \in Writer |-> 0]
    /\ noted = [w \in Writer |-> 0]
    /\ spc = "top" /\ taken = 0 /\ at = 0 /\ target = 0 /\ clean = FALSE
    /\ settled = 0
    /\ faults = 0

\* stamp: 0 is kept for "nothing unsynced".
Stamp(t) == t + 1

------------------------------------------------------------------------------
\* Writers: CommitLog::append_record, then on_write of the strategy

Goto(w, step) == wpc' = [wpc EXCEPT ![w] = step]

\* on_write or force_sync returns, its locals go out of scope.
Answer(w, a) == Goto(w, a) /\ start' = [start EXCEPT ![w] = 0]

\* The flush_complete mutex is free.
Unlocked == mode = "group" => \A w \in Writer : wpc[w] \notin Locked

\* The entry is complete in the buffer before on_write reads the clock.  The
\* last begins early enough for its deadline to pass within MaxTime.
Append(w) ==
    /\ wpc[w] = "idle"
    /\ \A v \in Writer : v < w => wpc[v] # "idle"
    /\ now + Deadline <= MaxTime
    /\ buffer' = buffer \cup {w}
    /\ start' = [start EXCEPT ![w] = now]
    /\ Goto(w, "note")
    /\ UNCHANGED <<mode, now, health, pending, stop, disk, seq, noted, thread, faults>>

\* note_write: take the next sequence number ...
NoteWrite(w) ==
    /\ wpc[w] = "note"
    /\ written' = written + 1
    /\ seq' = [seq EXCEPT ![w] = written + 1]
    /\ Goto(w, "stamp")
    /\ UNCHANGED <<mode, now, durable, since, dead, failing, pending, stop, buffer, disk,
                   start, noted, thread, faults>>

\* ... then set the age unless an older one stands.  The write is counted and
\* the sync thread notified.
NoteStamp(w) ==
    /\ wpc[w] = "stamp"
    /\ since' = IF since = 0 THEN Stamp(start[w]) ELSE since
    /\ noted' = [noted EXCEPT ![w] = now]
    /\ pending' = pending + 1
    /\ Goto(w, IF mode = "group" THEN "queue" ELSE "dead")
    /\ UNCHANGED <<mode, now, written, durable, dead, failing, stop, buffer, disk,
                   seq, start, thread, faults>>

\* The group writer takes the mutex, at first or when its wait ends, and is done
\* when a sync covers its write ...
Lock(w) ==
    /\ wpc[w] = "queue"
    /\ Unlocked
    /\ IF durable >= seq[w] THEN Answer(w, "acked")
       ELSE Goto(w, "covered") /\ UNCHANGED start
    /\ UNCHANGED <<mode, now, health, pending, stop, buffer, disk, seq, noted, thread, faults>>

\* Mutant: only a dead thread ends the wait.
MutCheckDeadlineNever(w) ==
    /\ wpc[w] = "covered"
    /\ \/ dead /\ Goto(w, "dead") /\ start' = [start EXCEPT ![w] = now]
       \/ ~dead /\ Goto(w, "queue") /\ UNCHANGED start
    /\ UNCHANGED <<mode, now, health, pending, stop, buffer, disk, seq, noted, thread, faults>>

\* ... a dead thread sends it on to admit, with an instant of its own, a passed
\* deadline refuses it, and otherwise it waits again.
CheckDeadline(w) ==
    /\ wpc[w] = "covered"
    /\ \/ dead /\ Goto(w, "dead") /\ start' = [start EXCEPT ![w] = now]
       \/ ~dead /\ now - start[w] >= Deadline /\ Answer(w, "refused")
       \/ ~dead /\ now - start[w] < Deadline /\ Goto(w, "queue") /\ UNCHANGED start
    /\ UNCHANGED <<mode, now, health, pending, stop, buffer, disk, seq, noted, thread, faults>>

\* admit, three loads: the thread lives ...
AdmitDead(w) ==
    /\ wpc[w] = "dead"
    /\ IF dead THEN Answer(w, "refused") ELSE Goto(w, "failing") /\ UNCHANGED start
    /\ UNCHANGED <<mode, now, health, pending, stop, buffer, disk, seq, noted, thread, faults>>

\* ... its last fsync succeeded ...
AdmitFailing(w) ==
    /\ wpc[w] = "failing"
    /\ IF failing THEN Answer(w, "refused") ELSE Goto(w, "age") /\ UNCHANGED start
    /\ UNCHANGED <<mode, now, health, pending, stop, buffer, disk, seq, noted, thread, faults>>

\* Mutant: off by one at the deadline.
MutTooOldLater(w) == since # 0 /\ Stamp(start[w]) - since > Deadline

\* unsynced_for(now) >= stall_deadline
TooOld(w) == since # 0 /\ Stamp(start[w]) - since >= Deadline

\* ... and the oldest unsynced write is younger than the deadline.
AdmitAge(w) ==
    /\ wpc[w] = "age"
    /\ Answer(w, IF TooOld(w) THEN "refused" ELSE "admitted")
    /\ UNCHANGED <<mode, now, health, pending, stop, buffer, disk, seq, noted, thread, faults>>

------------------------------------------------------------------------------
\* The sync thread: PeriodicShared::run, GroupShared::run and SyncHealth

Step(step) == spc' = step

\* The locals of an attempt go out of scope.
Forget == taken' = 0 /\ at' = 0 /\ target' = 0 /\ clean' = FALSE

AllDurable == durable >= written

\* Mutant: a write that a dead thread took is not looked for.
MutIsCleanPendingOnly == pending = 0

\* Nothing to sync: no pending writes and every write covered.
IsClean == pending = 0 /\ AllDurable

\* Where an attempt leaves the thread: before wake_writers, or done.
Attempted == IF mode = "group" THEN "wake" ELSE IF stop = "final" THEN "final" ELSE "top"

\* The loop: wait while clean, let the batch window pass, take the pending
\* count; begin_sync reads the instant ...
Take ==
    /\ spc = "top" /\ stop = "no"
    /\ ~IsClean
    /\ taken' = pending /\ pending' = 0
    /\ at' = now
    /\ Step("ticket")
    /\ UNCHANGED <<mode, now, health, stop, buffer, disk, writers, target, clean, settled, faults>>

\* ... and then the target.
Ticket ==
    /\ spc = "ticket"
    /\ target' = written
    /\ Step("flush")
    /\ UNCHANGED <<mode, now, health, pending, stop, buffer, disk, writers,
                   taken, at, clean, settled, faults>>

\* flush_callback: Segment::flush_to_disk writes and fsyncs every entry that is
\* complete in the buffer ...
Flushed ==
    /\ spc = "flush"
    /\ disk' = buffer
    /\ taken' = 0
    /\ Step("advance")
    /\ UNCHANGED <<mode, now, health, pending, stop, buffer, writers, at, target, clean, settled, faults>>

\* ... or fails, which gives the pending count back; sync_failed.
FlushFails ==
    /\ spc = "flush"
    /\ faults < MaxFaults
    /\ faults' = faults + 1
    /\ pending' = pending + taken
    /\ failing' = TRUE
    /\ Step(Attempted)
    /\ Forget
    /\ UNCHANGED <<settled, mode, now, written, durable, since, dead, stop, buffer, disk, writers>>

\* A panic in the flush, before or after the fsync: the count it took is lost,
\* the thread marks itself dead.
Panic ==
    /\ spc = "flush"
    /\ stop # "final"
    /\ faults < MaxFaults
    /\ faults' = faults + 1
    /\ disk' \in {disk, buffer}
    /\ dead' = TRUE
    /\ Step("panicked")
    /\ Forget
    /\ UNCHANGED <<settled, mode, now, written, durable, since, failing, pending, stop, buffer, writers>>

\* Mutant: everything written so far counts as synced.
MutAdvanceToWritten ==
    /\ spc = "advance"
    /\ durable' = written
    /\ clean' = TRUE
    /\ Step("store")
    /\ UNCHANGED <<mode, now, written, since, dead, failing, pending, stop, buffer, disk, writers,
                   taken, at, target, settled, faults>>

\* sync_succeeded: durable_seq rises to the ticket's target; is anything written
\* since? ...
Advance ==
    /\ spc = "advance"
    /\ durable' = IF target > durable THEN target ELSE durable
    /\ clean' = (written = target)
    /\ Step("store")
    /\ UNCHANGED <<mode, now, written, since, dead, failing, pending, stop, buffer, disk, writers,
                   taken, at, target, settled, faults>>

\* ... the age is cleared, or becomes the ticket's instant ...
Store ==
    /\ spc = "store"
    /\ since' = IF clean THEN 0 ELSE Stamp(at)
    /\ Step("settle")
    /\ UNCHANGED <<mode, now, written, durable, dead, failing, pending, stop, buffer, disk, writers,
                   taken, at, target, clean, settled, faults>>

\* Mutant: a cleared age is not looked at again.
MutSettleNever ==
    /\ spc = "settle"
    /\ failing' = FALSE
    /\ Step(Attempted)
    /\ Forget
    /\ UNCHANGED <<mode, now, written, durable, since, dead, pending, stop, buffer, disk, writers, settled, faults>>

\* ... a cleared one is put back for a write that came in between, unless that
\* write set its own; the thread is healthy again.
Settle ==
    /\ spc = "settle"
    /\ IF clean /\ written # target
       THEN since' = (IF since = 0 THEN Stamp(at) ELSE since) /\ settled' = now
       ELSE UNCHANGED <<since, settled>>
    /\ failing' = FALSE
    /\ Step(Attempted)
    /\ Forget
    /\ UNCHANGED <<mode, now, written, durable, dead, pending, stop, buffer, disk, writers, faults>>

\* wake_writers takes the mutex; a dead thread does so too before it can be
\* joined, and the final flush of a stop before stop_inner returns.
Wake ==
    /\ spc \in {"wake", "panicked"}
    /\ Unlocked
    /\ Step(IF spc = "panicked" THEN "gone" ELSE IF stop = "final" THEN "final" ELSE "top")
    /\ UNCHANGED <<mode, now, health, pending, stop, buffer, disk, writers,
                   taken, at, target, clean, settled, faults>>

\* The supervisor replaces a dead thread; the new one clears dead first.
Restart ==
    /\ spc = "gone" /\ dead /\ stop = "no"
    /\ dead' = FALSE
    /\ Step("top")
    /\ UNCHANGED <<mode, now, written, durable, since, failing, pending, stop, buffer, disk, writers,
                   taken, at, target, clean, settled, faults>>

\* stop_inner: raise the flag, join the thread, sync once more.
Stop ==
    /\ stop = "no"
    /\ faults < MaxFaults
    /\ faults' = faults + 1
    /\ stop' = "raised"
    /\ UNCHANGED <<mode, now, health, pending, buffer, disk, writers, thread>>

FinalSync ==
    /\ stop = "raised"
    /\ spc \in {"top", "gone"}
    /\ stop' = "final"
    /\ at' = now
    /\ Step("ticket")
    /\ UNCHANGED <<mode, now, health, pending, buffer, disk, writers, taken, target, clean, settled, faults>>

Tick ==
    /\ now < MaxTime
    /\ now' = now + 1
    /\ UNCHANGED <<mode, health, pending, stop, buffer, disk, writers, thread, faults>>

------------------------------------------------------------------------------
Write(w) == \/ Append(w) \/ NoteWrite(w) \/ NoteStamp(w)
            \/ Lock(w) \/ CheckDeadline(w)
            \/ AdmitDead(w) \/ AdmitFailing(w) \/ AdmitAge(w)

\* sync_succeeded
Succeed == Advance \/ Store \/ Settle

Sync == \/ Take \/ Ticket \/ Flushed \/ FlushFails \/ Panic
        \/ Succeed \/ Wake \/ Restart \/ FinalSync

Next == (\E w \in Writer : Write(w)) \/ Sync \/ Stop \/ Tick

Spec == Init /\ [][Next]_vars

\* Every thread is scheduled, time passes, the supervisor looks after the
\* thread, stop_inner goes on once it began, and a mutex is granted in turn.
\* No write has to come, nobody has to stop the log.
Fairness ==
    /\ \A w \in Writer : WF_vars(Write(w) /\ wpc[w] # "idle") /\ SF_vars(Lock(w))
    /\ WF_vars(Sync) /\ SF_vars(Wake)
    /\ WF_vars(Tick)

LiveSpec == Spec /\ Fairness

------------------------------------------------------------------------------
\* Properties

\* Every variable keeps its type: the atomics of SyncHealth, the writers' and
\* the sync thread's locals.
TypeOK ==
    /\ mode \in Modes /\ now \in Nat
    /\ written \in Nat /\ durable \in Nat /\ since \in Nat /\ pending \in Nat
    /\ dead \in BOOLEAN /\ failing \in BOOLEAN /\ clean \in BOOLEAN
    /\ stop \in {"no", "raised", "final"}
    /\ buffer \subseteq Writer /\ disk \subseteq Writer
    /\ wpc \in [Writer -> WriterPcs]
    /\ seq \in [Writer -> Nat] /\ start \in [Writer -> Nat] /\ noted \in [Writer -> Nat]
    /\ spc \in ThreadPcs
    /\ taken \in Nat /\ at \in Nat /\ target \in Nat /\ settled \in Nat /\ faults \in Nat

\* note_write has returned for w, and no completed sync covers it.
Unsynced(w) == wpc[w] \notin {"idle", "note", "stamp"} /\ seq[w] > durable

\* durable_seq never claims an entry that is not on disk: whatever numbers are
\* handed out while a sync runs, fails, panics or is restarted, the fsync it
\* reports covers every write up to its ticket (begin_sync before the flush, the
\* entry in the buffer before note_write).  This is what a group write that sees
\* itself covered relies on; one that leaves the wait through a dead thread is
\* not covered by it (GroupOkIsOnDisk below).
DurableIsOnDisk == \A w \in Writer : seq[w] \in 1 .. durable => w \in disk

\* sync_succeeded between the store that clears the age and the second check.
Clearing == spc = "settle" /\ clean

\* The latest moment that unsynced_since may name for w: when note_write returned
\* or, later, when sync_succeeded put an age back that it had cleared.
AgeBound(w) == IF noted[w] > settled THEN noted[w] ELSE settled

\* A write no sync covers always has an age, and one that is old enough: no
\* interleaving of note_write with sync_succeeded loses it, except between the
\* store that clears it and the second check that puts it back.
UnsyncedHasAge ==
    \A w \in Writer : Unsynced(w) /\ ~Clearing => since \in 1 .. Stamp(AgeBound(w))

\* The periodic bound: whatever is acknowledged before its fsync began less
\* than sync_stall_deadline after every write that is still unsynced, so a
\* crash takes no more than that window of acknowledged writes.
AckedWithinDeadline ==
    [][\A w, v \in Writer :
        wpc[w] = "age" /\ wpc'[w] = "admitted" /\ Unsynced(v) /\ ~Clearing
            => start[w] < AgeBound(v) + Deadline]_vars

\* Every writer is answered: under the deadline a group writer does not wait
\* for a thread that is dead, stalled or failing.
EveryWriterAnswered == \A w \in Writer : wpc[w] = "note" ~> wpc[w] \in Answers

\* What was registered before the log is stopped reaches the disk, also when
\* the thread that had taken it died ("the new thread first fsyncs everything
\* the dead one left behind"); only the last sync of a stop may fail for good.
BacklogSynced ==
    \A w \in Writer :
        (Unsynced(w) /\ stop = "no") ~> (w \in disk \/ (stop = "final" /\ failing))

\* Statement of the source that does not hold, and no run checks: "Wait until a
\* successful fsync covers this write.  Every exit other than that one refuses
\* the write" (GroupSync::on_write).  A writer that finds the thread dead returns
\* what admit says; when the supervisor replaces the thread before admit looks,
\* that is Ok, and nothing has synced the write.
GroupOkIsOnDisk ==
    mode = "group" => \A w \in Writer : wpc[w] \in {"acked", "admitted"} => w \in disk
==============================================================================
