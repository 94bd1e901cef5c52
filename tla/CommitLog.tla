------------------------------ MODULE CommitLog ------------------------------
(***************************************************************************)
(* What a restart brings back: the commit log's segments, their rotation,  *)
(* the sync strategy, the table flushes that advance the checkpoint and    *)
(* delete segments, and the replay of a crashed node into a new generation *)
(* of the log (commitlog/mod.rs, commitlog/segment.rs, and the write and   *)
(* flush paths of engine.rs).                                              *)
(*                                                                         *)
(* A mutation is <<c, t>>: client c writes one row to table t.  A client   *)
(* makes a single write, an atomic batch whose mutations are logged one by *)
(* one, or a batch logged as one transaction record.  A segment holds      *)
(* SegSize entries; an entry's offset is its index.                        *)
(*                                                                         *)
(* The steps of the sync thread are the subject of CommitLogSync and are   *)
(* one step here.  Archiving is off; every table is registered.            *)
(***************************************************************************)
EXTENDS Integers, Sequences, FiniteSetsExt, Functions

CONSTANTS
    Client,
    Tables,         \* 1 .. number of tables
    Setups,         \* sync strategy, what each client writes, first segment, and how
                    \* many of the bounded flushes and faults are spent already
    SegSize,        \* entries a segment has room for
    MaxSegment,     \* bound on segment ids
    MaxFlushes,     \* bound on table flushes
    MaxFaults       \* bound on crashes and failed fsyncs

ASSUME TableNumbers == Tables # {} /\ Max(Tables) \in Nat \ {0} /\ Tables = 1 .. Max(Tables)
ASSUME Configured ==
    Setups \subseteq [mode : {"batch", "group", "periodic"},
                      kind : [Client -> {"write", "batch", "record", "none"}],
                      first : 1 .. MaxSegment, flushes : 0 .. MaxFlushes, faults : 0 .. MaxFaults]
ASSUME Room == SegSize \in Nat /\ SegSize >= Max(Tables)
ASSUME Bounds == MaxSegment \in Nat /\ MaxFlushes \in Nat /\ MaxFaults \in Nat

VARIABLES
    mode, kind,             \* the sync strategy; what each client writes
    up,                     \* "up", "down", or "replay"
    active, nextId, closed, \* the active segment, next_segment_id, closed_segments
    log, files,             \* entries in a segment's buffer, and in its file
    dirty,                  \* dirty_tables: highest offset per segment and table, 0 for none
    rot,                    \* the rotation under way: who, which segment, which step
    noted, covered,         \* mutations registered with SyncHealth, and those it calls durable
    cpc, pos,               \* each client's step and the positions of its mutations
    mem, flushing, sst,     \* active and sealed memtables, SSTables on disk
    lastPos, checkpoint,    \* last_commit_log_position; the checkpoint file
    flush,                  \* the flush of each table: step and locals
    replay,                 \* open_and_replay: segments left, entry, mutations seen, to unlink
    raced, stranded, unmarked, \* history: mutations that a window below leaves without a
                            \* guarantee (see Exposures)
    flushes, faults

segments == <<active, nextId, closed, log, files, dirty>>
sync == <<noted, covered>>
clients == <<cpc, pos>>
tables == <<mem, flushing, sst, lastPos>>
windows == <<raced, stranded, unmarked>>
budget == <<flushes, faults>>
vars == <<mode, kind, up, segments, rot, sync, clients, tables, checkpoint, flush, replay, windows, budget>>

Segment == 1 .. MaxSegment
Mutation == Client \X Tables
TableOf(m) == m[2]

\* CommitLogPosition, ordered by segment and then offset; 0 is none.
Position(s, o) == s * (SegSize + 1) + o
SegmentOf(p) == p \div (SegSize + 1)

NoRotation == [by |-> 0, old |-> 0, step |-> "none"]
IdleFlush == [step |-> "idle", pos |-> 0, stale |-> {}, closed |-> {}, saved |-> [t \in Tables |-> 0]]
NoReplay == [left |-> {}, next |-> 1, seen |-> {}, unlink |-> {}]

Init ==
    /\ \E x \in Setups :
        /\ mode = x.mode /\ kind = x.kind
        /\ active = x.first
        /\ flushes = x.flushes /\ faults = x.faults
    /\ up = "up"
    /\ nextId = active + 1 /\ closed = {}
    /\ log = [s \in Segment |-> <<>>]
    /\ files = [s \in Segment |-> <<>>]
    /\ dirty = [s \in Segment |-> [t \in Tables |-> 0]]
    /\ rot = NoRotation
    /\ noted = {} /\ covered = {}
    /\ cpc = [c \in Client |-> <<IF kind[c] = "none" THEN "gone" ELSE "append", 1>>]
    /\ pos = [m \in Mutation |-> 0]
    /\ mem = [t \in Tables |-> {}]
    /\ flushing = [t \in Tables |-> {}]
    /\ sst = {}
    /\ lastPos = [t \in Tables |-> 0]
    /\ checkpoint = [t \in Tables |-> 0]
    /\ flush = [t \in Tables |-> IdleFlush]
    /\ replay = NoReplay
    /\ raced = {} /\ stranded = {} /\ unmarked = {}

------------------------------------------------------------------------------
\* Exposures: four windows of the code in which a mutation loses its guarantee.
\* Three histories record which mutations, and until when.
\*   raced     1. a flush covers the mutation's position before the mutation is in
\*                the memtable (until that flush fails)
\*   stranded  2. a sync that flushes the active segment alone reports it durable
\*                while it is in the segment being rotated out (until that one is
\*                flushed)
\*   unmarked  3. a flush removes a mark set since it compared it, or
\*             4. a segment is deleted before the mutation's table is marked in it
\* A restart that finds the mutation ends each of them.
Exposed == raced \cup stranded \cup unmarked

------------------------------------------------------------------------------
\* Segments

\* Every entry of segment s that has reached its buffer is on disk.
Flush(s) == files' = [files EXCEPT ![s] = log[s]]

OnDisk(m) == \E s \in Segment : m \in Range(files[s])

\* The entries a restart would deliver, and what it finds in SSTables.
Dominated(s, o) == Position(s, o) <= checkpoint[TableOf(files[s][o])]
Recoverable ==
    sst \cup {m \in Mutation : \E s \in Segment : \E o \in DOMAIN files[s] :
                                  files[s][o] = m /\ ~Dominated(s, o)}

Fail == faults < MaxFaults /\ faults' = faults + 1 /\ UNCHANGED flushes

------------------------------------------------------------------------------
\* Clients: StorageEngine::write and write_atomic_batch_inner

\* The tables client c writes to, and what it still has to do after table t.
LastTable(c) == IF kind[c] = "write" THEN 1 ELSE Max(Tables)
Goto(c, step, t) == cpc' = [cpc EXCEPT ![c] = <<step, t>>]
At(c, step) == up = "up" /\ cpc[c][1] = step
Item(c) == <<c, cpc[c][2]>>
Items(c) == {<<c, t>> : t \in 1 .. LastTable(c)}
Explicit(c) == kind[c] # "write"

\* What one append logs: a mutation, or all of a transaction record.
Payload(c) == IF kind[c] = "record" THEN [t \in Tables |-> <<c, t>>] ELSE <<Item(c)>>

\* A segment that a writer may have loaded and that is not sealed yet.
Open == {active} \cup (IF rot.step = "swapped" THEN {rot.old} ELSE {})

HasRoom(s, n) == Len(log[s]) + n <= SegSize

\* Clients that do the same are interchangeable: they are numbered in the order
\* of their first attempt.
Appending(c) ==
    \/ At(c, "retry")
    \/ At(c, "append") /\ \A b \in Client : b < c /\ kind[b] = kind[c] => cpc[b] # <<"append", 1>>

\* A checkpoint of t that is saved, or loaded by a flush that will save it again,
\* has passed position p ...
Passed(t, p) == p <= checkpoint[t] \/ \E u \in Tables : p <= flush[u].saved[t]

\* ... or will pass it: the memtable is sealed up to p.
Sealed(t, p) ==
    \/ Passed(t, p)
    \/ flush[t].step \in {"write", "check", "remove", "save"} /\ p <= flush[t].pos

\* append_record up to writer_done: a flush waits for writers in between.
\* Window 1: a writer delayed into a segment that a rotation has swapped out but
\* not sealed may append below a position that is already being flushed.
AppendRecord(c) ==
    /\ Appending(c)
    /\ \E s \in Open :
        /\ HasRoom(s, Len(Payload(c)))
        /\ log' = [log EXCEPT ![s] = @ \o Payload(c)]
        /\ pos' = [m \in Mutation |->
                     IF \E i \in DOMAIN Payload(c) : Payload(c)[i] = m
                     THEN Position(s, Len(log[s]) + CHOOSE i \in DOMAIN Payload(c) : Payload(c)[i] = m)
                     ELSE pos[m]]
    /\ raced' = raced \cup {m \in Range(Payload(c)) :
                              /\ SegmentOf(pos'[m]) # active
                              /\ Sealed(TableOf(m), pos'[m])}
    /\ Goto(c, "mark", cpc[c][2])
    /\ UNCHANGED <<mode, kind, up, active, nextId, closed, files, dirty, rot, sync, tables,
                   checkpoint, flush, replay, stranded, unmarked, budget>>

\* No room: rotate, then try again.
NeedRotation(c) ==
    /\ Appending(c)
    /\ ~HasRoom(active, Len(Payload(c)))
    /\ Goto(c, "rotate", cpc[c][2])
    /\ UNCHANGED <<mode, kind, up, segments, rot, sync, pos, tables, checkpoint, flush, replay, windows, budget>>

\* force_rotate, under its mutex: the new segment takes the writes ...
Swap(c) ==
    /\ At(c, "rotate")
    /\ rot.step = "none"
    /\ nextId <= MaxSegment
    /\ rot' = [by |-> c, old |-> active, step |-> "swapped"]
    /\ active' = nextId
    /\ nextId' = nextId + 1
    /\ UNCHANGED <<mode, kind, up, closed, log, files, dirty, sync, clients, tables, checkpoint, flush,
                   replay, windows, budget>>

\* ... the old one is sealed, its writers have drained ...
Seal ==
    /\ up = "up"
    /\ rot.step = "swapped"
    /\ rot' = [rot EXCEPT !.step = "sealed"]
    /\ UNCHANGED <<mode, kind, up, segments, sync, clients, tables, checkpoint, flush, replay, windows, budget>>

\* ... flushed and closed.  A failed flush closes it too and fails the append.
FinishRotation ==
    /\ up = "up"
    /\ rot.step = "sealed"
    /\ closed' = closed \cup {rot.old}
    /\ rot' = NoRotation
    /\ \/ /\ Flush(rot.old)
          /\ stranded' = stranded \ Range(log[rot.old])
          /\ Goto(rot.by, "retry", cpc[rot.by][2])
          /\ UNCHANGED budget
       \/ Fail /\ Goto(rot.by, "refused", 1) /\ UNCHANGED <<files, stranded>>
    /\ UNCHANGED <<mode, kind, up, active, nextId, log, dirty, sync, pos, tables, checkpoint, flush,
                   replay, raced, unmarked>>

\* mark_table_dirty, for every table of a record.
Mark(c) ==
    /\ At(c, "mark")
    /\ LET ms == Range(Payload(c)) IN
       dirty' = [s \in Segment |-> [t \in Tables |->
                   LET o == {pos[m] - Position(s, 0) : m \in {x \in ms : TableOf(x) = t /\ SegmentOf(pos[x]) = s}}
                   IN Max({dirty[s][t]} \cup o)]]
    /\ Goto(c, "sync", cpc[c][2])
    /\ UNCHANGED <<mode, kind, up, active, nextId, closed, log, files, rot, sync, pos, tables, checkpoint,
                   flush, replay, windows, budget>>

\* note_write; Batch registers nothing.
Note(ms) == noted' = IF mode = "batch" THEN noted ELSE noted \cup ms

\* SyncStrategy::on_write.  Batch flushes the segment of the write; Group waits
\* until a sync covers it; Periodic lets it go; a caller that syncs itself goes
\* on to its next mutation.
OnWrite(c) ==
    /\ At(c, "sync")
    /\ \/ /\ Explicit(c)
          /\ Note(Range(Payload(c)))
          /\ IF kind[c] = "record" \/ cpc[c][2] = LastTable(c) THEN Goto(c, "force", 1)
             ELSE Goto(c, "append", cpc[c][2] + 1)
          /\ UNCHANGED <<files, stranded, budget>>
       \/ /\ ~Explicit(c) /\ mode = "batch"
          /\ \/ /\ Flush(SegmentOf(pos[Item(c)]))
                /\ stranded' = stranded \ Range(log[SegmentOf(pos[Item(c)])])
                /\ Goto(c, "apply", 1)
                /\ UNCHANGED budget
             \/ Fail /\ Goto(c, "refused", 1) /\ UNCHANGED <<files, stranded>>
          /\ UNCHANGED noted
       \/ /\ ~Explicit(c) /\ mode # "batch"
          /\ Note({Item(c)})
          /\ \/ Goto(c, IF mode = "group" THEN "wait" ELSE "apply", 1) /\ UNCHANGED budget
             \/ Fail /\ Goto(c, "refused", 1)
          /\ UNCHANGED <<files, stranded>>
    /\ UNCHANGED <<mode, kind, up, active, nextId, closed, log, dirty, rot, covered, pos, tables, checkpoint,
                   flush, replay, raced, unmarked>>

Covered(c) ==
    /\ At(c, "wait")
    /\ Item(c) \in covered
    /\ Goto(c, "apply", 1)
    /\ UNCHANGED <<mode, kind, up, segments, rot, sync, pos, tables, checkpoint, flush, replay, windows, budget>>

\* Window 2: mutations that a flush of the active segment alone does not reach.
Elsewhere(ms) == {m \in ms : pos[m] # 0 /\ SegmentOf(pos[m]) # active /\ ~OnDisk(m)}

\* The sync thread's flush_callback flushes the active segment, and durable_seq
\* then covers everything noted.  It runs during a replay too.
SyncThread ==
    /\ up # "down"
    /\ mode # "batch"
    /\ noted \ covered # {}
    /\ Flush(active)
    /\ covered' = noted
    /\ stranded' = stranded \cup Elsewhere(noted \ covered)
    /\ UNCHANGED <<mode, kind, up, active, nextId, closed, log, dirty, rot, noted, clients, tables,
                   checkpoint, flush, replay, raced, unmarked, budget>>

\* force_sync flushes the active segment before anything becomes visible.
ForceSync(c) ==
    /\ At(c, "force")
    /\ \/ /\ Flush(active)
          /\ stranded' = stranded \cup Elsewhere(Items(c))
          /\ Goto(c, "apply", 1)
          /\ UNCHANGED budget
       \/ Fail /\ Goto(c, "refused", 1) /\ UNCHANGED <<files, stranded>>
    /\ UNCHANGED <<mode, kind, up, active, nextId, closed, log, dirty, rot, sync, pos, tables, checkpoint,
                   flush, replay, raced, unmarked>>

\* The memtable is written, then the table's position.
Apply(c) ==
    /\ At(c, "apply")
    /\ mem' = [mem EXCEPT ![TableOf(Item(c))] = @ \cup {Item(c)}]
    /\ Goto(c, "position", cpc[c][2])
    /\ UNCHANGED <<mode, kind, up, segments, rot, sync, pos, flushing, sst, lastPos, checkpoint, flush,
                   replay, windows, budget>>

StorePosition(c) ==
    /\ At(c, "position")
    /\ lastPos' = [lastPos EXCEPT ![TableOf(Item(c))] = pos[Item(c)]]
    /\ IF cpc[c][2] < LastTable(c) THEN Goto(c, "apply", cpc[c][2] + 1) ELSE Goto(c, "acked", 1)
    /\ UNCHANGED <<mode, kind, up, segments, rot, sync, pos, mem, flushing, sst, checkpoint, flush,
                   replay, windows, budget>>

------------------------------------------------------------------------------
\* Table flushes: flush_under_recovery_gate, finish_flush, discard_completed

Flusher(t, step) == up = "up" /\ flush[t].step = step

\* The position is read before the store flushes.  A flush that finds no
\* memtable to write still advances the checkpoint to it.
BeginFlush(t) ==
    /\ Flusher(t, "idle")
    /\ lastPos[t] # 0 \/ mem[t] \cup flushing[t] # {}
    /\ flushes < MaxFlushes
    /\ flushes' = flushes + 1
    /\ flush' = [flush EXCEPT ![t].step = "swap", ![t].pos = lastPos[t]]
    /\ UNCHANGED <<mode, kind, up, segments, rot, sync, clients, tables, checkpoint, replay, windows, faults>>

\* Mutations of t up to position p that no memtable and no SSTable holds.
Missing(t, p) ==
    {m \in Mutation : TableOf(m) = t /\ pos[m] \in 1 .. p} \ (mem[t] \cup flushing[t] \cup sst)

\* The memtable is swapped and sealed.  Window 1 again: a writer that has
\* appended at or below the position but has not reached the memtable.
SwapMemtable(t) ==
    /\ Flusher(t, "swap")
    /\ flushing' = [flushing EXCEPT ![t] = @ \cup mem[t]]
    /\ mem' = [mem EXCEPT ![t] = {}]
    /\ raced' = raced \cup Missing(t, flush[t].pos)
    /\ flush' = [flush EXCEPT ![t].step = "write"]
    /\ UNCHANGED <<mode, kind, up, segments, rot, sync, clients, sst, lastPos, checkpoint, replay,
                   stranded, unmarked, budget>>

\* Mutant: the position is read after the flush.
MutWriteSSTableLate(t) ==
    /\ Flusher(t, "write")
    /\ sst' = sst \cup flushing[t]
    /\ flushing' = [flushing EXCEPT ![t] = {}]
    /\ flush' = [flush EXCEPT ![t] = IF @.pos = 0 THEN IdleFlush
                                     ELSE [@ EXCEPT !.step = "check", !.pos = lastPos[t]]]
    /\ UNCHANGED <<mode, kind, up, segments, rot, sync, clients, mem, lastPos, checkpoint, replay, windows, budget>>

\* Every sealed memtable becomes an fsynced SSTable, or the flush fails and
\* leaves them sealed.
WriteSSTable(t) ==
    /\ Flusher(t, "write")
    /\ \/ /\ sst' = sst \cup flushing[t]
          /\ flushing' = [flushing EXCEPT ![t] = {}]
          /\ flush' = [flush EXCEPT ![t] = IF @.pos = 0 THEN IdleFlush ELSE [@ EXCEPT !.step = "check"]]
          /\ UNCHANGED <<raced, budget>>
       \/ /\ Fail
          /\ flush' = [flush EXCEPT ![t] = IdleFlush]
          /\ raced' = {m \in raced : TableOf(m) = t => Passed(t, pos[m])}
          /\ UNCHANGED <<sst, flushing>>
    /\ UNCHANGED <<mode, kind, up, segments, rot, sync, clients, mem, lastPos, checkpoint, replay,
                   stranded, unmarked>>

\* discard_completed looks through the active and the closed segments: is what
\* the table has in them flushed?  In segments before the position's it is. ...
CheckSegments(t) ==
    /\ Flusher(t, "check")
    /\ flush' = [flush EXCEPT
         ![t].step = "remove",
         ![t].closed = closed,
         ![t].stale = {s \in closed \cup {active} :
                         \/ s < SegmentOf(flush[t].pos)
                         \/ dirty[s][t] # 0 /\ Position(s, dirty[s][t]) <= flush[t].pos}]
    /\ UNCHANGED <<mode, kind, up, segments, rot, sync, clients, tables, checkpoint, replay, windows, budget>>

\* Mutations in segments ss whose writer has not marked its table dirty yet.
Unmarked(ss) ==
    {m \in Mutation : /\ cpc[m[1]][1] = "mark" /\ m \in Range(Payload(m[1]))
                      /\ SegmentOf(pos[m]) \in ss}

Delete(ss) ==
    /\ closed' = closed \ ss
    /\ files' = [s \in Segment |-> IF s \in ss THEN <<>> ELSE files[s]]
    /\ log' = [s \in Segment |-> IF s \in ss THEN <<>> ELSE log[s]]

\* ... its marks are removed, and closed segments without marks are deleted.
\* Window 3: a mark set since the check goes too.  Window 4: a writer that has
\* not marked yet.  The checkpoint file is then loaded ...
RemoveMarks(t) ==
    LET f == flush[t]
        cleared == [s \in Segment |-> IF s \in f.stale THEN [dirty[s] EXCEPT ![t] = 0] ELSE dirty[s]]
        empty == {s \in f.closed : s <= SegmentOf(f.pos) /\ \A u \in Tables : cleared[s][u] = 0}
        late == {m \in Mutation \ Unmarked(f.stale) :
                   TableOf(m) = t /\ SegmentOf(pos[m]) \in f.stale /\ pos[m] > f.pos}
    IN
    /\ Flusher(t, "remove")
    /\ dirty' = cleared
    /\ Delete(empty)
    /\ unmarked' = unmarked \cup late \cup Unmarked(empty)
    /\ flush' = [flush EXCEPT ![t].step = "save", ![t].saved = checkpoint]
    /\ UNCHANGED <<mode, kind, up, active, nextId, rot, sync, clients, tables, checkpoint, replay,
                   raced, stranded, budget>>

\* ... and saved with the table's position.
SaveCheckpoint(t) ==
    /\ Flusher(t, "save")
    /\ checkpoint' = [flush[t].saved EXCEPT ![t] = Max({@, flush[t].pos})]
    /\ flush' = [flush EXCEPT ![t] = IdleFlush]
    /\ UNCHANGED <<mode, kind, up, segments, rot, sync, clients, tables, replay, windows, budget>>

\* discard_completed_segments, the maintenance loop's pass over closed segments.
CollectSegments ==
    LET empty == {s \in closed : \A t \in Tables : dirty[s][t] = 0} IN
    /\ up = "up"
    /\ empty # {}
    /\ Delete(empty)
    /\ unmarked' = unmarked \cup Unmarked(empty)
    /\ UNCHANGED <<mode, kind, up, active, nextId, dirty, rot, sync, clients, tables, checkpoint,
                   flush, replay, raced, stranded, budget>>

------------------------------------------------------------------------------
\* Crash and open_and_replay_streaming

OnDiskSegments == {s \in Segment : files[s] # <<>>}

\* The process ends: memory is lost; a client that waits for an answer never
\* gets one.
LoseMemory ==
    /\ up' = "down"
    /\ log' = files'
    /\ closed' = {} /\ dirty' = [s \in Segment |-> [t \in Tables |-> 0]]
    /\ rot' = NoRotation /\ noted' = {} /\ covered' = {}
    /\ cpc' = [c \in Client |-> IF cpc[c] \in {<<"append", 1>>, <<"acked", 1>>} THEN cpc[c] ELSE <<"gone", 1>>]
    /\ pos' = [m \in Mutation |-> 0]
    /\ mem' = [t \in Tables |-> {}] /\ flushing' = mem'
    /\ lastPos' = [t \in Tables |-> 0]
    /\ flush' = [t \in Tables |-> IdleFlush]
    /\ replay' = NoReplay
    /\ UNCHANGED <<mode, kind, active, nextId, sst, checkpoint>>
    /\ LET lost == Mutation \ Recoverable' IN
       raced' = raced \cap lost /\ stranded' = stranded \cap lost /\ unmarked' = unmarked \cap lost

Crash == up # "down" /\ Fail /\ UNCHANGED files /\ LoseMemory

\* Mutant: only the ids on disk count.
MutFirstOnDisk ==
    Max({0} \cup OnDiskSegments) + 1

\* The new generation starts above every id on disk or in the checkpoint.
FirstSegment ==
    Max({0} \cup OnDiskSegments \cup {SegmentOf(checkpoint[t]) : t \in Tables}) + 1

OpenLog ==
    /\ up = "down"
    /\ FirstSegment <= MaxSegment
    /\ up' = "replay"
    /\ active' = FirstSegment /\ nextId' = FirstSegment + 1
    /\ log' = [log EXCEPT ![FirstSegment] = <<>>]
    /\ replay' = [NoReplay EXCEPT !.left = OnDiskSegments]
    /\ UNCHANGED <<mode, kind, closed, files, dirty, rot, sync, clients, tables, checkpoint, flush,
                   windows, budget>>

Source == Min(replay.left)
Replaying == up = "replay" /\ replay.left # {}

\* Mutant: the members of a record count as one.
MutSeenRecord(m) == \E x \in replay.seen : x[1] = m[1]

\* The dedup set is keyed by the mutation's own id, not by its record's.
Seen(m) == m \in replay.seen

\* The next entry of the oldest segment: dropped when the checkpoint dominates
\* it or its id was seen; otherwise logged again, applied, and the candidate
\* for the next checkpoint.
ReplayEntry ==
    LET m == files[Source][replay.next]
        t == TableOf(m)
        o == Len(log[active]) + 1
        again == ~Seen(m) /\ ~Dominated(Source, replay.next)
    IN
    /\ Replaying /\ replay.next <= Len(files[Source])
    /\ IF again
       THEN /\ HasRoom(active, 1)
            /\ log' = [log EXCEPT ![active] = @ \o <<m>>]
            /\ dirty' = [dirty EXCEPT ![active][t] = o]
            /\ mem' = [mem EXCEPT ![t] = @ \cup {m}]
            /\ lastPos' = [lastPos EXCEPT ![t] = Position(active, o)]
            /\ pos' = [pos EXCEPT ![m] = Position(active, o)]
            /\ Note({m})
       ELSE UNCHANGED <<log, dirty, mem, lastPos, pos, noted>>
    /\ replay' = [replay EXCEPT !.next = @ + 1,
                                !.seen = IF again THEN @ \cup {m} ELSE @]
    /\ UNCHANGED <<mode, kind, up, active, nextId, closed, files, rot, covered, cpc, flushing, sst, checkpoint,
                   flush, windows, budget>>

\* A rotation of the new generation while it is written by the replay alone.
ReplayRotate ==
    /\ Replaying /\ replay.next <= Len(files[Source])
    /\ ~HasRoom(active, 1)
    /\ nextId <= MaxSegment
    /\ Flush(active)
    /\ closed' = closed \cup {active}
    /\ active' = nextId /\ nextId' = nextId + 1
    /\ UNCHANGED <<mode, kind, up, log, dirty, rot, sync, clients, tables, checkpoint, flush, replay, windows, budget>>

\* Mutant: the source may go without an fsync of the new generation.
MutReplayBarrierLazy ==
    /\ Replaying /\ replay.next > Len(files[Source])
    /\ replay' = [replay EXCEPT !.left = @ \ {Source}, !.next = 1, !.unlink = @ \cup {Source}]
    /\ UNCHANGED <<mode, kind, up, segments, rot, sync, clients, tables, checkpoint, flush, windows, budget>>

\* The barrier: the new generation is fsynced before the source may go.  A
\* failure ends the start; the new log is shut down, which syncs it if it can.
ReplayBarrier ==
    /\ Replaying /\ replay.next > Len(files[Source])
    /\ \/ /\ Flush(active)
          /\ replay' = [replay EXCEPT !.left = @ \ {Source}, !.next = 1, !.unlink = @ \cup {Source}]
          /\ UNCHANGED <<mode, kind, up, active, nextId, closed, log, dirty, rot, sync, clients, tables,
                         checkpoint, flush, windows, budget>>
       \/ Fail /\ (Flush(active) \/ UNCHANGED files) /\ LoseMemory

\* The retire thread unlinks what was handed to it.
Unlink ==
    /\ up = "replay"
    /\ \E s \in replay.unlink :
        /\ files' = [files EXCEPT ![s] = <<>>]
        /\ log' = [log EXCEPT ![s] = <<>>]
        /\ replay' = [replay EXCEPT !.unlink = @ \ {s}]
    /\ UNCHANGED <<mode, kind, up, active, nextId, closed, dirty, rot, sync, clients, tables, checkpoint,
                   flush, windows, budget>>

ReplayDone ==
    /\ up = "replay" /\ replay.left = {} /\ replay.unlink = {}
    /\ up' = "up"
    /\ replay' = NoReplay
    /\ UNCHANGED <<mode, kind, segments, rot, sync, clients, tables, checkpoint, flush, windows, budget>>

------------------------------------------------------------------------------
Write(c) == \/ AppendRecord(c) \/ NeedRotation(c) \/ Swap(c) \/ Mark(c) \/ OnWrite(c) \/ Covered(c)
            \/ ForceSync(c) \/ Apply(c) \/ StorePosition(c)

FlushTable(t) == \/ BeginFlush(t) \/ SwapMemtable(t) \/ WriteSSTable(t) \/ CheckSegments(t)
                 \/ RemoveMarks(t) \/ SaveCheckpoint(t)

Restart == OpenLog \/ ReplayEntry \/ ReplayRotate \/ ReplayBarrier \/ Unlink \/ ReplayDone

Next == \/ \E c \in Client : Write(c)
        \/ Seal \/ FinishRotation \/ SyncThread
        \/ \E t \in Tables : FlushTable(t)
        \/ CollectSegments \/ Crash \/ Restart

Spec == Init /\ [][Next]_vars

------------------------------------------------------------------------------
\* Properties

\* Every variable stays in its type: a mark is an offset of its segment.
TypeOK ==
    /\ \E x \in Setups : mode = x.mode /\ kind = x.kind
    /\ up \in {"up", "down", "replay"}
    /\ active \in Segment /\ nextId \in 1 .. MaxSegment + 1 /\ closed \subseteq Segment
    /\ log \in [Segment -> Seq(Mutation)] /\ files \in [Segment -> Seq(Mutation)]
    /\ dirty \in [Segment -> [Tables -> 0 .. SegSize]]
    /\ noted \subseteq Mutation /\ covered \subseteq Mutation
    /\ pos \in [Mutation -> Nat]
    /\ mem \in [Tables -> SUBSET Mutation] /\ flushing \in [Tables -> SUBSET Mutation]
    /\ sst \subseteq Mutation
    /\ raced \subseteq Mutation /\ stranded \subseteq Mutation /\ unmarked \subseteq Mutation
    /\ lastPos \in [Tables -> Nat] /\ checkpoint \in [Tables -> Nat]

Promised(c) == cpc[c][1] = "acked" /\ (mode # "periodic" \/ Explicit(c))

\* Durability: whatever a client was told is written is found by every later
\* restart, in an SSTable or in an entry that the checkpoint does not dominate,
\* through rotations, flushes, segment deletion, crashes and repeated replays.
\* Mutations that are in one of the four windows are exempt: there the engine's
\* statements ("all mutations up to this position are in the memtable we're
\* about to flush", and that force_sync makes a batch durable) do not hold.
AckedIsRecoverable ==
    \A c \in Client : Promised(c) => Items(c) \subseteq Recoverable \cup Exposed

\* No step of a flush, of a deletion or of a replay loses what a restart would
\* have found, acknowledged or not, synced by chance or on purpose: SSTables
\* before the checkpoint, the new generation before the unlink.  Exempt are the
\* mutations a flush raced (window 1) and those whose mark was missing or removed
\* (windows 3 and 4).
RecoverableIsKept == [][Recoverable \ Recoverable' \subseteq raced' \cup unmarked']_vars

\* The checkpoint dominates an entry only when an SSTable holds it: replay may
\* skip what it dominates.  The entries of later generations are included.
\* Exempt are only the mutations that a flush raced (window 1): it read a
\* position that a slower writer's entry lies below.
CheckpointCovers ==
    \A s \in Segment : \A o \in DOMAIN log[s] :
        Position(s, o) <= checkpoint[TableOf(log[s][o])] => log[s][o] \in sst \cup raced

\* A batch logged as one transaction record is found whole or not at all,
\* although its tables are flushed and checkpointed one by one and a replay
\* may crash between the members that it logs again.  Exempt are records with a
\* member in one of the four windows.
RecordIsAtomic ==
    \A c \in Client : kind[c] = "record" =>
        \/ Items(c) \cap Exposed # {}
        \/ Items(c) \subseteq Recoverable
        \/ Items(c) \cap Recoverable = {}
==============================================================================
