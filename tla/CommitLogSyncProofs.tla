------------------------- MODULE CommitLogSyncProofs -------------------------
(***************************************************************************)
(* Proofs about CommitLogSync for any number of writes and any deadline.   *)
(***************************************************************************)
EXTENDS CommitLogSync, TLAPS

Noted(w) == wpc[w] \notin {"idle", "note", "stamp"}

\* Entries are numbered once they are in the buffer; a number is at most
\* written_seq, and the numbers a flush has on disk reach its ticket's target.
Numbers ==
    /\ disk \subseteq buffer
    /\ durable <= written
    /\ \A w \in Writer :
        /\ wpc[w] # "idle" => w \in buffer
        /\ seq[w] \in 0 .. written
        /\ wpc[w] \in {"idle", "note"} => seq[w] = 0
        /\ seq[w] \in 1 .. durable => w \in disk
        /\ spc = "advance" /\ seq[w] \in 1 .. target => w \in disk
    /\ spc \in {"flush", "advance", "store", "settle"} => target <= written
    /\ spc \in {"store", "settle"} => target <= durable

\* No clock reading lies in the future; a write numbered past the ticket was
\* noted after the ticket's instant.
Ages ==
    /\ at <= now /\ settled <= now /\ since <= Stamp(now)
    /\ \A w \in Writer :
        /\ start[w] <= now
        /\ noted[w] <= now
        /\ spc \in {"flush", "advance", "store", "settle"} /\ Noted(w) /\ seq[w] > target
              => at <= noted[w]

SyncInv == TypeOK /\ Numbers /\ Ages /\ UnsyncedHasAge

USE DEF Stamp

LEMMA InitInv == Init => SyncInv
<1> SUFFICES ASSUME Init PROVE SyncInv
  OBVIOUS
<1>1. TypeOK
  BY Strategies DEF Init, TypeOK, WriterPcs, ThreadPcs, Locked
<1>2. Numbers /\ Ages /\ UnsyncedHasAge
  BY DEF Init, Numbers, Ages, UnsyncedHasAge, Unsynced
<1> QED
  BY <1>1, <1>2 DEF SyncInv

LEMMA TypeStep == TypeOK /\ [Next]_vars => TypeOK'
<1> SUFFICES ASSUME TypeOK, [Next]_vars PROVE TypeOK'
  OBVIOUS
<1> USE DEF TypeOK, Goto, Answer, Step, Forget, health, writers, thread, Attempted, WriterPcs, Locked, Answers, ThreadPcs
<1> DEFINE Flags == dead \in BOOLEAN /\ failing \in BOOLEAN /\ clean \in BOOLEAN
           Rest == /\ mode \in Modes /\ now \in Nat
                   /\ written \in Nat /\ durable \in Nat /\ since \in Nat /\ pending \in Nat
                   /\ stop \in {"no", "raised", "final"}
                   /\ buffer \subseteq Writer /\ disk \subseteq Writer
                   /\ wpc \in [Writer -> WriterPcs]
                   /\ seq \in [Writer -> Nat] /\ start \in [Writer -> Nat] /\ noted \in [Writer -> Nat]
                   /\ spc \in ThreadPcs
                   /\ taken \in Nat /\ at \in Nat /\ target \in Nat /\ settled \in Nat /\ faults \in Nat
<1>1. ASSUME NEW w \in Writer, Append(w) PROVE TypeOK'
  BY <1>1 DEF Append
<1>2. ASSUME NEW w \in Writer, NoteWrite(w) PROVE TypeOK'
  BY <1>2 DEF NoteWrite
<1>3. ASSUME NEW w \in Writer, NoteStamp(w) PROVE TypeOK'
  BY <1>3 DEF NoteStamp
<1>4. ASSUME NEW w \in Writer, Lock(w) PROVE TypeOK'
  BY <1>4 DEF Lock
<1>5. ASSUME NEW w \in Writer, CheckDeadline(w) PROVE TypeOK'
  BY <1>5 DEF CheckDeadline
<1>6. ASSUME NEW w \in Writer, AdmitDead(w) PROVE TypeOK'
  BY <1>6 DEF AdmitDead
<1>7. ASSUME NEW w \in Writer, AdmitFailing(w) PROVE TypeOK'
  BY <1>7 DEF AdmitFailing
<1>8. ASSUME NEW w \in Writer, AdmitAge(w) PROVE TypeOK'
  BY <1>8 DEF AdmitAge
<1>9. CASE Take
  BY <1>9 DEF Take
<1>10. CASE Ticket
  BY <1>10 DEF Ticket
<1>11. CASE Flushed
  BY <1>11 DEF Flushed
<1>12. CASE FlushFails
  <2>1. Flags'
    BY <1>12, Zenon DEF FlushFails
  <2>2. Rest'
    BY <1>12, Bounds, SMT DEF FlushFails
  <2> QED
    BY <2>1, <2>2
<1>13. CASE Panic
  <2>1. Flags'
    BY <1>13, Zenon DEF Panic
  <2>2. Rest'
    BY <1>13, Bounds, SMT DEF Panic
  <2> QED
    BY <2>1, <2>2
<1>14. CASE Advance
  BY <1>14 DEF Advance
<1>15. CASE Store
  BY <1>15 DEF Store
<1>16. CASE Settle
  <2>1. Flags'
    BY <1>16, Zenon DEF Settle
  <2>2. Rest'
    BY <1>16, SMT DEF Settle
  <2> QED
    BY <2>1, <2>2
<1>17. CASE Wake
  BY <1>17 DEF Wake
<1>18. CASE Restart
  BY <1>18 DEF Restart
<1>19. CASE FinalSync
  BY <1>19 DEF FinalSync
<1>20. CASE Stop
  BY <1>20, Bounds DEF Stop
<1>21. CASE Tick
  BY <1>21, Bounds DEF Tick
<1>22. CASE UNCHANGED vars
  BY <1>22 DEF vars
<1> QED
  BY <1>1, <1>2, <1>3, <1>4, <1>5, <1>6, <1>7, <1>8, <1>9, <1>10, <1>11, <1>12, <1>13, <1>14,
     <1>15, <1>16, <1>17, <1>18, <1>19, <1>20, <1>21, <1>22 DEF Next, Write, Sync, Succeed

LEMMA NumbersStep == TypeOK /\ Numbers /\ [Next]_vars => Numbers'
<1> SUFFICES ASSUME TypeOK, Numbers, [Next]_vars PROVE Numbers'
  OBVIOUS
<1> USE DEF TypeOK, Goto, Answer, Step, Forget, health, writers, thread, Attempted, Numbers
<1>1. ASSUME NEW w \in Writer, Append(w) PROVE Numbers'
  BY <1>1 DEF Append
<1>2. ASSUME NEW w \in Writer, NoteWrite(w) PROVE Numbers'
  BY <1>2 DEF NoteWrite
<1>3. ASSUME NEW w \in Writer, NoteStamp(w) PROVE Numbers'
  BY <1>3 DEF NoteStamp
<1>4. ASSUME NEW w \in Writer, Lock(w) PROVE Numbers'
  BY <1>4 DEF Lock
<1>5. ASSUME NEW w \in Writer, CheckDeadline(w) PROVE Numbers'
  BY <1>5 DEF CheckDeadline
<1>6. ASSUME NEW w \in Writer, AdmitDead(w) PROVE Numbers'
  BY <1>6 DEF AdmitDead
<1>7. ASSUME NEW w \in Writer, AdmitFailing(w) PROVE Numbers'
  BY <1>7 DEF AdmitFailing
<1>8. ASSUME NEW w \in Writer, AdmitAge(w) PROVE Numbers'
  BY <1>8 DEF AdmitAge, TooOld
<1>9. CASE Take
  BY <1>9 DEF Take
<1>10. CASE Ticket
  BY <1>10 DEF Ticket
<1>11. CASE Flushed
  BY <1>11 DEF Flushed
<1>12. CASE FlushFails
  BY <1>12 DEF FlushFails
<1>13. CASE Panic
  BY <1>13 DEF Panic
<1>14. CASE Advance
  BY <1>14 DEF Advance
<1>15. CASE Store
  BY <1>15 DEF Store
<1>16. CASE Settle
  BY <1>16 DEF Settle
<1>17. CASE Wake
  BY <1>17 DEF Wake
<1>18. CASE Restart
  BY <1>18 DEF Restart
<1>19. CASE FinalSync
  BY <1>19 DEF FinalSync
<1>20. CASE Stop
  BY <1>20 DEF Stop
<1>21. CASE Tick
  BY <1>21 DEF Tick
<1>22. CASE UNCHANGED vars
  BY <1>22 DEF vars
<1> QED
  BY <1>1, <1>2, <1>3, <1>4, <1>5, <1>6, <1>7, <1>8, <1>9, <1>10, <1>11, <1>12, <1>13, <1>14, <1>15, <1>16, <1>17, <1>18, <1>19, <1>20, <1>21, <1>22
     DEF Next, Write, Sync, Succeed

LEMMA AgesStep == TypeOK /\ Numbers /\ Ages /\ [Next]_vars => Ages'
<1> SUFFICES ASSUME TypeOK, Numbers, Ages, [Next]_vars PROVE Ages'
  OBVIOUS
<1> USE DEF TypeOK, Goto, Answer, Step, Forget, health, writers, thread, Attempted, Numbers, Ages, Noted
<1>1. ASSUME NEW w \in Writer, Append(w) PROVE Ages'
  BY <1>1 DEF Append
<1>2. ASSUME NEW w \in Writer, NoteWrite(w) PROVE Ages'
  BY <1>2 DEF NoteWrite
<1>3. ASSUME NEW w \in Writer, NoteStamp(w) PROVE Ages'
  BY <1>3 DEF NoteStamp
<1>4. ASSUME NEW w \in Writer, Lock(w) PROVE Ages'
  BY <1>4 DEF Lock
<1>5. ASSUME NEW w \in Writer, CheckDeadline(w) PROVE Ages'
  BY <1>5 DEF CheckDeadline
<1>6. ASSUME NEW w \in Writer, AdmitDead(w) PROVE Ages'
  BY <1>6 DEF AdmitDead
<1>7. ASSUME NEW w \in Writer, AdmitFailing(w) PROVE Ages'
  BY <1>7 DEF AdmitFailing
<1>8. ASSUME NEW w \in Writer, AdmitAge(w) PROVE Ages'
  BY <1>8 DEF AdmitAge, TooOld
<1>9. CASE Take
  BY <1>9 DEF Take
<1>10. CASE Ticket
  BY <1>10 DEF Ticket
<1>11. CASE Flushed
  BY <1>11 DEF Flushed
<1>12. CASE FlushFails
  BY <1>12 DEF FlushFails
<1>13. CASE Panic
  BY <1>13 DEF Panic
<1>14. CASE Advance
  BY <1>14 DEF Advance
<1>15. CASE Store
  BY <1>15 DEF Store
<1>16. CASE Settle
  BY <1>16 DEF Settle
<1>17. CASE Wake
  BY <1>17 DEF Wake
<1>18. CASE Restart
  BY <1>18 DEF Restart
<1>19. CASE FinalSync
  BY <1>19 DEF FinalSync
<1>20. CASE Stop
  BY <1>20 DEF Stop
<1>21. CASE Tick
  BY <1>21 DEF Tick
<1>22. CASE UNCHANGED vars
  BY <1>22 DEF vars
<1> QED
  BY <1>1, <1>2, <1>3, <1>4, <1>5, <1>6, <1>7, <1>8, <1>9, <1>10, <1>11, <1>12, <1>13, <1>14, <1>15, <1>16, <1>17, <1>18, <1>19, <1>20, <1>21, <1>22
     DEF Next, Write, Sync, Succeed

LEMMA HasAgeStep == TypeOK /\ Numbers /\ Ages /\ UnsyncedHasAge /\ [Next]_vars => UnsyncedHasAge'
<1> SUFFICES ASSUME TypeOK, Numbers, Ages, UnsyncedHasAge, [Next]_vars PROVE UnsyncedHasAge'
  OBVIOUS
<1> USE DEF TypeOK, Goto, Answer, Step, Forget, health, writers, thread, Attempted, Numbers, Ages, Noted, UnsyncedHasAge, Unsynced, AgeBound, Clearing
<1>1. ASSUME NEW w \in Writer, Append(w) PROVE UnsyncedHasAge'
  BY <1>1 DEF Append
<1>2. ASSUME NEW w \in Writer, NoteWrite(w) PROVE UnsyncedHasAge'
  BY <1>2 DEF NoteWrite
<1>3. ASSUME NEW w \in Writer, NoteStamp(w) PROVE UnsyncedHasAge'
  BY <1>3 DEF NoteStamp
<1>4. ASSUME NEW w \in Writer, Lock(w) PROVE UnsyncedHasAge'
  BY <1>4 DEF Lock
<1>5. ASSUME NEW w \in Writer, CheckDeadline(w) PROVE UnsyncedHasAge'
  BY <1>5 DEF CheckDeadline
<1>6. ASSUME NEW w \in Writer, AdmitDead(w) PROVE UnsyncedHasAge'
  BY <1>6 DEF AdmitDead
<1>7. ASSUME NEW w \in Writer, AdmitFailing(w) PROVE UnsyncedHasAge'
  BY <1>7 DEF AdmitFailing
<1>8. ASSUME NEW w \in Writer, AdmitAge(w) PROVE UnsyncedHasAge'
  BY <1>8 DEF AdmitAge, TooOld
<1>9. CASE Take
  BY <1>9 DEF Take
<1>10. CASE Ticket
  BY <1>10 DEF Ticket
<1>11. CASE Flushed
  BY <1>11 DEF Flushed
<1>12. CASE FlushFails
  BY <1>12 DEF FlushFails
<1>13. CASE Panic
  BY <1>13 DEF Panic
<1>14. CASE Advance
  BY <1>14 DEF Advance
<1>15. CASE Store
  BY <1>15 DEF Store
<1>16. CASE Settle
  BY <1>16 DEF Settle
<1>17. CASE Wake
  BY <1>17 DEF Wake
<1>18. CASE Restart
  BY <1>18 DEF Restart
<1>19. CASE FinalSync
  BY <1>19 DEF FinalSync
<1>20. CASE Stop
  BY <1>20 DEF Stop
<1>21. CASE Tick
  BY <1>21 DEF Tick
<1>22. CASE UNCHANGED vars
  BY <1>22 DEF vars
<1> QED
  BY <1>1, <1>2, <1>3, <1>4, <1>5, <1>6, <1>7, <1>8, <1>9, <1>10, <1>11, <1>12, <1>13, <1>14, <1>15, <1>16, <1>17, <1>18, <1>19, <1>20, <1>21, <1>22
     DEF Next, Write, Sync, Succeed

\* SyncInv is inductive: every reachable state satisfies it.
THEOREM SyncInvHolds == Spec => []SyncInv
<1>1. SyncInv /\ [Next]_vars => SyncInv'
  BY TypeStep, NumbersStep, AgesStep, HasAgeStep DEF SyncInv
<1> QED
  BY InitInv, <1>1, PTL DEF Spec

\* durable_seq claims only what is on disk: begin_sync reads its target before
\* the flush, and a writer takes its number after its entry is in the buffer.
THEOREM OnlyOnDiskIsDurable == Spec => []DurableIsOnDisk
<1>1. SyncInv => DurableIsOnDisk
  BY DEF SyncInv, Numbers, DurableIsOnDisk
<1> QED
  BY <1>1, SyncInvHolds, PTL

\* No interleaving of note_write with sync_succeeded leaves an unsynced write
\* without an age, or with one that is too young.
THEOREM AgeIsKept == Spec => []UnsyncedHasAge
<1>1. SyncInv => UnsyncedHasAge
  BY DEF SyncInv
<1> QED
  BY <1>1, SyncInvHolds, PTL

\* What admit lets through began within sync_stall_deadline of every write that
\* no sync covers yet.
THEOREM LossIsBounded == Spec => AckedWithinDeadline
<1>1. ASSUME SyncInv, [Next]_vars, NEW w \in Writer, NEW v \in Writer,
             wpc[w] = "age", wpc'[w] = "admitted", Unsynced(v), ~Clearing
      PROVE  start[w] < AgeBound(v) + Deadline
  <2>1. AdmitAge(w)
    <3>1. Sync \/ Stop \/ Tick \/ UNCHANGED vars => wpc' = wpc
      BY DEF vars, writers, Sync, Succeed, Take, Ticket, Flushed, FlushFails, Panic,
          Advance, Store, Settle, Wake, Restart, FinalSync, Stop, Tick
    <3>2. PICK u \in Writer : Write(u)
      BY <3>1, <1>1 DEF Next
    <3>3. wpc \in [Writer -> WriterPcs]
      BY <1>1 DEF SyncInv, TypeOK
    <3>4. u = w
      BY <3>2, <3>3, <1>1 DEF Write, Append, NoteWrite, NoteStamp, Lock, CheckDeadline, AdmitDead,
          AdmitFailing, AdmitAge, Goto, Answer
    <3> QED
      BY <3>2, <3>4, <1>1 DEF Write, Append, NoteWrite, NoteStamp, Lock, CheckDeadline, AdmitDead,
          AdmitFailing
  <2>2. ~TooOld(w)
    BY <2>1, <1>1 DEF AdmitAge, Answer, Goto, SyncInv, TypeOK
  <2>3. since \in 1 .. Stamp(AgeBound(v))
    BY <1>1 DEF SyncInv, UnsyncedHasAge
  <2> QED
    BY <2>2, <2>3, Bounds, <1>1 DEF TooOld, SyncInv, TypeOK, AgeBound
<1>2. SyncInv /\ [Next]_vars =>
        [\A w, v \in Writer :
            wpc[w] = "age" /\ wpc'[w] = "admitted" /\ Unsynced(v) /\ ~Clearing
                => start[w] < AgeBound(v) + Deadline]_vars
  BY <1>1
<1> QED
  BY <1>2, SyncInvHolds, PTL DEF Spec, AckedWithinDeadline
==============================================================================
