----------------------------- MODULE HintsProofs -----------------------------
(***************************************************************************)
(* For any number of hints, segment size and budget: before a restart or a *)
(* failed sync no accepted hint is lost and the peer gets them in order,   *)
(* and the pending count always covers what is left.                       *)
(***************************************************************************)
EXTENDS Hints, FiniteSetTheorems, WellFoundedInduction, TLAPS

\* A step that names no other prover is Zenon's.
USE ZenonT(30)

\* Where the hints of a delivery's segments are: every hint of a segment the
\* mark covers was replayed, is in the reader or in a segment still to be read.
Accounted ==
  pc = "replay" =>
    \A n \in DOMAIN segs : n <= markSeg =>
      RangeOf(segs[n]) \subseteq got \cup skipped \cup RangeOf(reader) \cup
                                 UNION {RangeOf(segs[m]) : m \in todo}

\* The counter is never behind the files, and a delivery covers only segments
\* that are no longer written.
CounterAhead ==
  /\ \A n \in DOMAIN segs : n <= counter
  /\ pc = "replay" => markSeg < counter /\ \A m \in todo : m <= markSeg
  /\ markCount <= count

\* A segment number is not used twice: the next one to be created is fresh.
FreshSegment == intact /\ ~writer => counter \notin DOMAIN segs

Inv == TypeOK /\ CounterAhead /\ Accounted /\ FreshSegment /\ AcceptedIsKept

------------------------------------------------------------------------------
\* The helpers

\* A non-empty set of numbers has a least member: the segment a drain reads next.
LEMMA LeastOf ==
  ASSUME NEW S, S \subseteq Nat, S # {}
  PROVE  Least(S) \in S /\ \A m \in S : Least(S) <= m
<1>1. PICK n \in S : \A m \in S : ~(<<m, n>> \in OpToRel(<, Nat))
  BY NatLessThanWellFounded, WFMin
<1>2. \A m \in S : n <= m
  <2>. SUFFICES ASSUME NEW m \in S
                PROVE  n <= m
    OBVIOUS
  <2>1. m \in Nat /\ n \in Nat
    OBVIOUS
  <2>2. m < n => <<m, n>> \in OpToRel(<, Nat)
    BY <2>1 DEF OpToRel
  <2>3. ~(m < n)
    BY <2>2, <1>1
  <2>. QED  BY SMT, <2>1, <2>3
<1>. QED  BY <1>2 DEF Least

\* A bounded set has a greatest member: the one at the least distance from the
\* bound.
LEMMA GreatestOf ==
  ASSUME NEW S, S \subseteq Nat, S # {}, NEW b \in Nat, \A m \in S : m <= b
  PROVE  Greatest(S) \in S /\ \A m \in S : m <= Greatest(S)
<1>. DEFINE Gap == {b - m : m \in S}
<1>1. Gap \subseteq Nat /\ Gap # {}
  <2>1. \A m \in S : b - m \in Nat
    BY SMT
  <2>2. PICK m \in S : TRUE
    OBVIOUS
  <2>3. b - m \in Gap
    OBVIOUS
  <2>. QED  BY <2>1, <2>3
<1>2. Least(Gap) \in Gap /\ \A g \in Gap : Least(Gap) <= g
  BY <1>1, LeastOf
<1>3. PICK n \in S : Least(Gap) = b - n
  BY <1>2
<1>4. \A m \in S : m <= n
  <2>. SUFFICES ASSUME NEW m \in S
                PROVE  m <= n
    OBVIOUS
  <2>1. b - n <= b - m
    BY <1>2, <1>3
  <2>. m \in Nat /\ n \in Nat
    OBVIOUS
  <2>. QED  BY SMT, <2>1
<1>. QED  BY <1>4 DEF Greatest

\* A segment holds what it held before an append, and the appended record.
LEMMA RangeOfAppend ==
  ASSUME NEW s \in Seq(Hint), NEW h \in Hint
  PROVE  RangeOf(Append(s, h)) = RangeOf(s) \cup {h}
<1>. DEFINE t == Append(s, h)
<1>1. /\ DOMAIN s = 1 .. Len(s) /\ DOMAIN t = 1 .. Len(s) + 1
      /\ t[Len(s) + 1] = h /\ \A i \in 1 .. Len(s) : t[i] = s[i]
  BY SMT
<1>. HIDE DEF t
<1>2. Len(s) \in Nat
  BY SMT
<1>3. RangeOf(t) \subseteq RangeOf(s) \cup {h}
  BY SMT, <1>1, <1>2 DEF RangeOf
<1>4. RangeOf(s) \cup {h} \subseteq RangeOf(t)
  BY SMT, <1>1, <1>2 DEF RangeOf
<1>. QED  BY <1>3, <1>4 DEF t

\* Reading a segment's first record leaves the others.
LEMMA RangeOfTail ==
  ASSUME NEW s \in Seq(Hint), s # <<>>
  PROVE  RangeOf(s) = {Head(s)} \cup RangeOf(Tail(s))
<1>1. RangeOf(s) \subseteq {Head(s)} \cup RangeOf(Tail(s))
  <2>. SUFFICES ASSUME NEW i \in DOMAIN s, i # 1
                PROVE  s[i] \in RangeOf(Tail(s))
    BY SMT DEF RangeOf
  <2>1. i - 1 \in DOMAIN Tail(s) /\ Tail(s)[i - 1] = s[i]
    BY SMT
  <2>. QED  BY <2>1 DEF RangeOf
<1>2. {Head(s)} \cup RangeOf(Tail(s)) \subseteq RangeOf(s)
  BY SMT DEF RangeOf
<1>. QED  BY <1>1, <1>2

\* A torn file is a prefix of what was written.
LEMMA TornFiles ==
  ASSUME TypeOK, NEW n \in DOMAIN segs, NEW f \in Torn(n)
  PROVE  /\ DOMAIN f = DOMAIN segs
         /\ \A m \in DOMAIN f : f[m] \in Seq(Hint) /\ Len(f[m]) <= SegmentSize
<1>. PICK k \in 0 .. Len(segs[n]) : f = [segs EXCEPT ![n] = SubSeq(@, 1, k)]
  BY DEF Torn
<1>1. segs[n] \in Seq(Hint) /\ Len(segs[n]) <= SegmentSize
  BY DEF TypeOK
<1>2. SubSeq(segs[n], 1, k) \in Seq(Hint) /\ Len(SubSeq(segs[n], 1, k)) = k
  BY SMT, <1>1
<1>3. Len(SubSeq(segs[n], 1, k)) <= SegmentSize
  BY SMT, <1>1, <1>2, Bounds
<1>4. /\ DOMAIN f = DOMAIN segs /\ f[n] = SubSeq(segs[n], 1, k)
      /\ \A m \in DOMAIN f : m # n => f[m] = segs[m]
  OBVIOUS
<1>. QED  BY <1>2, <1>3, <1>4 DEF TypeOK

------------------------------------------------------------------------------
\* Initialisation and the steps

\* An empty hint directory (HintStore::new) satisfies the invariant.
LEMMA InvInit == Init => Inv
<1>. SUFFICES ASSUME Init PROVE Inv
  OBVIOUS
<1>1. DOMAIN segs = {}
  BY DEF Init
<1>2. TypeOK
  <2>1. <<>> \in Seq(Hint)
    BY SMT
  <2>2. counter = 0 /\ count = 0 /\ markSeg = None /\ markCount = 0 /\ faults = 0
    BY DEF Init
  <2>3. writer = FALSE /\ up = TRUE /\ intact = TRUE /\ pc = "idle"
    BY DEF Init
  <2>4. /\ todo = {} /\ got = {} /\ skipped = {}
        /\ reader = <<>> /\ accepted = <<>>
    BY DEF Init
  <2>. QED  BY <1>1, <2>1, <2>2, <2>3, <2>4 DEF TypeOK
<1>3. RangeOf(accepted) = {}
  BY SMT DEF Init, RangeOf
<1>. QED
  BY SMT, <1>1, <1>2, <1>3
  DEF Init, Inv, CounterAhead, Accounted, FreshSegment, AcceptedIsKept

\* What opening the current segment for a store does to the files.
LEMMA OpenedFiles ==
  ASSUME Inv
  PROVE  /\ DOMAIN Opened = DOMAIN segs \cup {counter}
         /\ \A n \in DOMAIN Opened :
              Opened[n] \in Seq(Hint) /\ Len(Opened[n]) <= SegmentSize
         /\ \A n \in DOMAIN segs : n # counter => Opened[n] = segs[n]
         /\ intact => \A n \in DOMAIN segs : Opened[n] = segs[n]
<1>. USE DEF Inv
<1>1. CASE writer
  BY <1>1 DEF Opened, TypeOK
<1>2. CASE ~writer
  <2>1. Opened = [m \in DOMAIN segs \cup {counter} |->
                    IF m = counter THEN <<>> ELSE segs[m]]
    BY <1>2 DEF Opened, Created
  <2>2. <<>> \in Seq(Hint) /\ Len(<<>>) = 0 /\ 0 <= SegmentSize
    BY SMT, Bounds
  <2>3. intact => counter \notin DOMAIN segs
    BY <1>2 DEF FreshSegment
  <2>. QED  BY <2>1, <2>2, <2>3 DEF TypeOK
<1>. QED  BY <1>1, <1>2 DEF TypeOK

\* A store adds one hint to the newest segment and leaves the others alone.
LEMMA Storing ==
  ASSUME Inv, NEW h \in Hint, Accept(h), NEW k \in Nat, counter <= k,
         counter' = k, writer',
         writer' \in BOOLEAN,
         DOMAIN segs' = DOMAIN segs \cup {k},
         \A n \in DOMAIN segs' :
           segs'[n] \in Seq(Hint) /\ Len(segs'[n]) <= SegmentSize,
         \A n \in DOMAIN segs : n < counter => segs'[n] = segs[n],
         intact => \A n \in DOMAIN segs : RangeOf(segs[n]) \subseteq RangeOf(segs'[n]),
         h \in RangeOf(segs'[k])
  PROVE  Inv'
<1>. USE DEF Inv
<1>0. /\ count' = count + 1 /\ accepted' = Append(accepted, h)
      /\ markSeg' = markSeg /\ markCount' = markCount
      /\ pc' = pc /\ todo' = todo /\ reader' = reader /\ up' = up
      /\ got' = got /\ skipped' = skipped /\ intact' = intact /\ faults' = faults
  BY DEF Accept, mark, task
<1>1. TypeOK'
  BY SMT, <1>0 DEF TypeOK
<1>2. CounterAhead'
  BY SMT, <1>0 DEF CounterAhead, TypeOK
<1>3. Accounted'
  <2>. SUFFICES ASSUME pc = "replay", NEW n \in DOMAIN segs', n <= markSeg
                PROVE  RangeOf(segs'[n]) \subseteq
                         got \cup skipped \cup RangeOf(reader) \cup
                           UNION {RangeOf(segs'[m]) : m \in todo}
    BY <1>0 DEF Accounted
  <2>1. markSeg < counter /\ \A m \in todo : m <= markSeg
    BY DEF CounterAhead
  <2>2. n \in DOMAIN segs /\ n < counter
    BY SMT, <2>1 DEF TypeOK, None
  <2>3. \A m \in todo : m \in DOMAIN segs /\ m < counter
    BY SMT, <2>1 DEF TypeOK, None
  <2>4. {RangeOf(segs'[m]) : m \in todo} = {RangeOf(segs[m]) : m \in todo}
    BY <2>3
  <2>. QED  BY <2>2, <2>4 DEF Accounted
<1>4. FreshSegment'
  BY DEF FreshSegment
<1>5. AcceptedIsKept'
  <2>. SUFFICES ASSUME intact, NEW g \in RangeOf(accepted')
                PROVE  g \in got \cup skipped
                       \/ \E n \in DOMAIN segs' : g \in RangeOf(segs'[n])
    BY <1>0 DEF AcceptedIsKept, OnFile
  <2>1. RangeOf(accepted') = RangeOf(accepted) \cup {h}
    BY <1>0, RangeOfAppend DEF TypeOK
  <2>2. CASE g = h
    BY <2>2
  <2>3. CASE g \in RangeOf(accepted)
    BY <2>3 DEF AcceptedIsKept, OnFile
  <2>. QED  BY <2>1, <2>2, <2>3
<1>. QED  BY <1>1, <1>2, <1>3, <1>4, <1>5

\* Steps of the delivery leave the files and what was accepted alone: they keep
\* the invariant if they keep the delivery's account.
LEMMA Delivering ==
  ASSUME Inv, UNCHANGED <<disk, mark, up, accepted, intact>>,
         faults' \in Nat,
         pc' \in {"idle", "replay"}, todo' \in SUBSET todo, reader' \in Seq(Hint),
         got' \in SUBSET Hint, skipped' \in SUBSET Hint,
         got \subseteq got', skipped \subseteq skipped',
         pc' = "replay" =>
           /\ pc = "replay"
           /\ RangeOf(reader) \cup UNION {RangeOf(segs[m]) : m \in todo}
                \subseteq got' \cup skipped' \cup RangeOf(reader')
                          \cup UNION {RangeOf(segs[m]) : m \in todo'}
  PROVE  Inv'
<1>. USE DEF Inv
<1>0. /\ segs' = segs /\ counter' = counter /\ writer' = writer /\ count' = count
      /\ markSeg' = markSeg /\ markCount' = markCount /\ up' = up
      /\ accepted' = accepted /\ intact' = intact
  BY DEF disk, mark
<1>1. TypeOK'
  BY <1>0 DEF TypeOK
<1>2. CounterAhead'
  BY <1>0 DEF CounterAhead
<1>3. Accounted'
  <2>. SUFFICES ASSUME pc' = "replay", NEW n \in DOMAIN segs, n <= markSeg
                PROVE  RangeOf(segs[n]) \subseteq
                         got' \cup skipped' \cup RangeOf(reader') \cup
                           UNION {RangeOf(segs[m]) : m \in todo'}
    BY <1>0 DEF Accounted
  <2>1. RangeOf(segs[n]) \subseteq got \cup skipped \cup
          (RangeOf(reader) \cup UNION {RangeOf(segs[m]) : m \in todo})
    BY DEF Accounted
  <2>. QED  BY <2>1
<1>4. FreshSegment'
  BY SMT, <1>0 DEF FreshSegment
<1>5. AcceptedIsKept'
  BY SMT, <1>0 DEF AcceptedIsKept, OnFile
<1>. QED  BY <1>1, <1>2, <1>3, <1>4, <1>5

\* A restart or a failed sync forfeits the claim: the types and the counter are
\* left to be shown.
LEMMA Tearing ==
  ASSUME Inv, NEW f, segs' = f, DOMAIN f = DOMAIN segs,
         \A n \in DOMAIN f : f[n] \in Seq(Hint) /\ Len(f[n]) <= SegmentSize,
         intact' = FALSE, writer' = FALSE,
         counter' \in Nat, \A n \in DOMAIN segs : n <= counter',
         count' \in Nat, markSeg' \in Nat \cup {None}, markCount' \in Nat,
         markCount' <= count',
         pc' \in {"idle", "replay"}, todo' \in SUBSET DOMAIN segs,
         reader' \in Seq(Hint),
         UNCHANGED <<up, accepted, got, skipped>>, faults' \in Nat,
         pc' = "replay" =>
           /\ UNCHANGED <<counter, mark, task>>
           /\ \A n \in DOMAIN segs : n < counter => f[n] = segs[n]
  PROVE  Inv'
<1>. USE DEF Inv
<1>1. TypeOK'
  BY DEF TypeOK
<1>2. CounterAhead'
  BY DEF CounterAhead, mark, task
<1>3. Accounted'
  <2>u. segs' = f /\ DOMAIN segs' = DOMAIN segs /\ got' = got /\ skipped' = skipped
    OBVIOUS
  <2>a. ASSUME pc' = "replay", NEW n \in DOMAIN segs, n <= markSeg'
        PROVE  RangeOf(segs'[n]) \subseteq got' \cup skipped' \cup RangeOf(reader') \cup
                                           UNION {RangeOf(segs'[m]) : m \in todo'}
    <3>0. /\ pc = "replay" /\ markSeg' = markSeg /\ todo' = todo /\ reader' = reader
          /\ \A m \in DOMAIN segs : m < counter => f[m] = segs[m]
      BY <2>a DEF mark, task
    <3>1. markSeg < counter /\ \A m \in todo : m <= markSeg
      BY <3>0 DEF CounterAhead
    <3>2. f[n] = segs[n] /\ n <= markSeg
      BY SMT, <2>a, <3>0, <3>1 DEF TypeOK, None
    <3>3. \A m \in todo : f[m] = segs[m]
      BY SMT, <3>0, <3>1 DEF TypeOK, None
    <3>4. {RangeOf(f[m]) : m \in todo} = {RangeOf(segs[m]) : m \in todo}
      BY <3>3
    <3>. QED  BY <2>u, <2>a, <3>0, <3>2, <3>4 DEF Accounted
  <2>. QED  BY <2>u, <2>a DEF Accounted
<1>4. FreshSegment' /\ AcceptedIsKept'
  BY DEF FreshSegment, AcceptedIsKept
<1>. QED  BY <1>1, <1>2, <1>3, <1>4

\* The records of the recovered files can be counted.
LEMMA RecordsFinite ==
  ASSUME Inv, NEW f, DOMAIN f = DOMAIN segs,
         \A n \in DOMAIN f : f[n] \in Seq(Hint) /\ Len(f[n]) <= SegmentSize
  PROVE  IsFiniteSet(Records(f)) /\ Cardinality(Records(f)) \in Nat
<1>1. counter \in Nat /\ SegmentSize \in Nat
  BY Bounds DEF Inv, TypeOK
<1>2. Records(f) \subseteq (0 .. counter) \X (1 .. SegmentSize)
  <2>. SUFFICES ASSUME NEW n \in DOMAIN f, NEW i \in DOMAIN f[n]
                PROVE  n \in 0 .. counter /\ i \in 1 .. SegmentSize
    BY SMT DEF Records
  <2>1. n \in 0 .. counter
    BY SMT, <1>1 DEF Inv, TypeOK, CounterAhead
  <2>2. i \in 1 .. Len(f[n]) /\ Len(f[n]) \in Nat /\ Len(f[n]) <= SegmentSize
    BY SMT
  <2>. QED  BY SMT, <1>1, <2>1, <2>2
<1>3. IsFiniteSet((0 .. counter) \X (1 .. SegmentSize))
  <2>1. 0 \in Int /\ 1 \in Int /\ counter \in Int /\ SegmentSize \in Int
    BY SMT, <1>1
  <2>2. IsFiniteSet(0 .. counter) /\ IsFiniteSet(1 .. SegmentSize)
    BY <2>1, FS_Interval
  <2>. QED  BY <2>2, FS_Product
<1>. QED  BY <1>2, <1>3, FS_Subset, FS_CardinalityType

\* Every store, delivery step, cleanup, failure and restart keeps the invariant.
LEMMA InvInductive == Inv /\ [Next]_vars => Inv'
<1>. SUFFICES ASSUME Inv, [Next]_vars PROVE Inv'
  OBVIOUS
<1>. USE DEF Inv
<1>1. ASSUME NEW h \in Hint, StoreAppend(h) PROVE Inv'
  <2>1. /\ DOMAIN Opened = DOMAIN segs \cup {counter}
        /\ Opened[counter] \in Seq(Hint)
        /\ Len(Opened[counter]) < SegmentSize
    BY <1>1, OpenedFiles DEF StoreAppend, Fits
  <2>2. segs' = [Opened EXCEPT ![counter] = Append(Opened[counter], h)]
    BY <1>1 DEF StoreAppend
  <2>3. /\ Append(Opened[counter], h) \in Seq(Hint)
        /\ Len(Append(Opened[counter], h)) <= SegmentSize
    BY SMT, <2>1, Bounds
  <2>4. RangeOf(Append(Opened[counter], h)) = RangeOf(Opened[counter]) \cup {h}
    BY <2>1, RangeOfAppend
  <2>5. /\ DOMAIN segs' = DOMAIN segs \cup {counter}
        /\ segs'[counter] = Append(Opened[counter], h)
        /\ \A n \in DOMAIN segs : n # counter => segs'[n] = segs[n]
    BY <2>1, <2>2, OpenedFiles
  <2>6. \A n \in DOMAIN segs' :
          segs'[n] \in Seq(Hint) /\ Len(segs'[n]) <= SegmentSize
    BY <2>3, <2>5 DEF TypeOK
  <2>7. \A n \in DOMAIN segs : n < counter => segs'[n] = segs[n]
    BY SMT, <2>5 DEF TypeOK
  <2>8. ASSUME intact, NEW n \in DOMAIN segs
        PROVE  RangeOf(segs[n]) \subseteq RangeOf(segs'[n])
    BY <2>8, <2>4, <2>5, OpenedFiles
  <2>9. Accept(h) /\ counter' = counter /\ writer' = TRUE
    BY <1>1 DEF StoreAppend
  <2>10. counter \in Nat /\ counter <= counter
    BY SMT DEF TypeOK
  <2>11. h \in RangeOf(segs'[counter])
    BY <2>4, <2>5
  <2>. QED  BY <2>5, <2>6, <2>7, <2>8, <2>9, <2>10, <2>11, Storing
<1>2. ASSUME NEW h \in Hint, StoreRollover(h) PROVE Inv'
  <2>1. counter \in Nat /\ counter + 1 \in Nat /\ counter <= counter + 1
    BY SMT DEF TypeOK
  <2>2. counter + 1 \notin DOMAIN segs
    BY SMT, <2>1 DEF CounterAhead
  <2>3. segs' = [m \in DOMAIN segs \cup {counter + 1} |->
                   IF m = counter + 1 THEN <<h>> ELSE segs[m]]
    BY <1>2 DEF StoreRollover, Created
  <2>4. /\ DOMAIN segs' = DOMAIN segs \cup {counter + 1}
        /\ segs'[counter + 1] = <<h>>
        /\ \A n \in DOMAIN segs : segs'[n] = segs[n]
    BY <2>2, <2>3
  <2>5. <<h>> \in Seq(Hint) /\ Len(<<h>>) <= SegmentSize /\ h \in RangeOf(<<h>>)
    BY SMT, Bounds DEF RangeOf
  <2>6. \A n \in DOMAIN segs' :
          segs'[n] \in Seq(Hint) /\ Len(segs'[n]) <= SegmentSize
    BY <2>4, <2>5 DEF TypeOK
  <2>7. /\ Accept(h) /\ counter' = counter + 1
        /\ writer' = writer /\ writer
    BY <1>2 DEF StoreRollover
  <2>. QED  BY <2>1, <2>4, <2>5, <2>6, <2>7, Storing DEF TypeOK
<1>3. CASE SyncFails
  <2>1. PICK f \in Torn(counter) : segs' = f
    BY <1>3 DEF SyncFails
  <2>2. counter \in DOMAIN segs
    BY <1>3 DEF SyncFails, TypeOK
  <2>3. /\ DOMAIN f = DOMAIN segs
        /\ \A n \in DOMAIN f : f[n] \in Seq(Hint) /\ Len(f[n]) <= SegmentSize
    BY <2>2, TornFiles
  <2>4. \A n \in DOMAIN segs : n # counter => f[n] = segs[n]
    BY DEF Torn
  <2>5. \A n \in DOMAIN segs : n < counter => f[n] = segs[n]
    BY SMT, <2>4 DEF TypeOK
  <2>6. /\ intact' = FALSE /\ writer' = FALSE /\ counter' = counter /\ count' = count
        /\ UNCHANGED <<mark, task, up, accepted, got, skipped>>
        /\ faults' = faults + 1
    BY <1>3 DEF SyncFails, Fault
  <2>7. /\ markSeg' = markSeg /\ markCount' = markCount
        /\ pc' = pc /\ todo' = todo /\ reader' = reader
    BY <2>6 DEF mark, task
  <2>8. /\ counter' \in Nat /\ count' \in Nat /\ markSeg' \in Nat \cup {None}
        /\ markCount' \in Nat /\ pc' \in {"idle", "replay"}
        /\ todo' \in SUBSET DOMAIN segs /\ reader' \in Seq(Hint)
        /\ faults' \in Nat
    BY SMT, <2>6, <2>7 DEF TypeOK
  <2>9. (\A n \in DOMAIN segs : n <= counter') /\ markCount' <= count'
    BY <2>6, <2>7 DEF CounterAhead
  <2>. HIDE DEF Inv
  <2>. QED  BY <2>1, <2>3, <2>5, <2>6, <2>8, <2>9, Tearing
<1>4. CASE Drain
  <2>1. Covered \in Nat /\ \A n \in DOMAIN segs : n <= Covered
    BY GreatestOf DEF Covered, TypeOK, CounterAhead
  <2>2. /\ counter' \in Nat /\ counter < counter' /\ Covered < counter'
        /\ markSeg' = Covered
    BY SMT, <1>4, <2>1 DEF Drain, TypeOK
  <2>3. /\ segs' = segs /\ writer' = FALSE /\ count' = count /\ markCount' = count
        /\ pc' = "replay" /\ todo' = DOMAIN segs /\ reader' = <<>> /\ up' = up
        /\ accepted' = accepted /\ got' = got /\ skipped' = skipped
        /\ intact' = intact /\ faults' = faults
    BY <1>4 DEF Drain, hist
  <2>4. TypeOK'
    <3>. <<>> \in Seq(Hint)
      BY SMT
    <3>. QED  BY <2>1, <2>2, <2>3 DEF TypeOK
  <2>5. CounterAhead'
    BY SMT, <2>1, <2>2, <2>3 DEF CounterAhead, TypeOK
  <2>6. Accounted'
    BY <2>3 DEF Accounted
  <2>7. FreshSegment'
    <3>. counter' \notin DOMAIN segs
      BY SMT, <2>2 DEF CounterAhead, TypeOK
    <3>. QED  BY <2>3 DEF FreshSegment
  <2>8. AcceptedIsKept'
    BY <2>3 DEF AcceptedIsKept, OnFile
  <2>. QED  BY <2>4, <2>5, <2>6, <2>7, <2>8
<1>5. CASE OpenSegment
  <2>. DEFINE n == Least(todo)
  <2>1. n \in todo /\ n \in DOMAIN segs
    BY <1>5, LeastOf DEF OpenSegment, TypeOK
  <2>2. /\ pc = "replay" /\ pc' = pc /\ reader = <<>>
        /\ reader' = segs[n] /\ todo' = todo \ {n}
        /\ UNCHANGED <<disk, mark, up, accepted, intact>>
        /\ got' = got /\ skipped' = skipped /\ faults' = faults
    BY <1>5 DEF OpenSegment, hist
  <2>. HIDE DEF n
  <2>3. RangeOf(reader) = {}
    BY SMT, <2>2 DEF RangeOf
  <2>4. UNION {RangeOf(segs[m]) : m \in todo}
          \subseteq RangeOf(reader') \cup UNION {RangeOf(segs[m]) : m \in todo'}
    BY <2>2
  <2>. QED  BY <2>1, <2>2, <2>3, <2>4, Delivering DEF TypeOK
<1>6. CASE SkipSegment
  <2>. DEFINE n == Least(todo)
  <2>1. n \in todo /\ n \in DOMAIN segs
    BY <1>6, LeastOf DEF SkipSegment, TypeOK
  <2>2. /\ pc = "replay" /\ pc' = pc /\ reader' = reader
        /\ todo' = todo \ {n} /\ skipped' = skipped \cup RangeOf(segs[n])
        /\ UNCHANGED <<disk, mark, up, accepted, intact>>
        /\ got' = got /\ faults' = faults + 1
    BY <1>6 DEF SkipSegment, Fault
  <2>. HIDE DEF n
  <2>3. RangeOf(segs[n]) \subseteq Hint
    BY SMT, <2>1 DEF TypeOK, RangeOf
  <2>4. UNION {RangeOf(segs[m]) : m \in todo}
          \subseteq skipped' \cup UNION {RangeOf(segs[m]) : m \in todo'}
    BY <2>2
  <2>5. faults' \in Nat
    BY SMT, <2>2 DEF TypeOK
  <2>6. skipped' \in SUBSET Hint /\ skipped \subseteq skipped' /\ todo' \in SUBSET todo
    BY <2>2, <2>3 DEF TypeOK
  <2>. QED  BY <2>2, <2>4, <2>5, <2>6, Delivering DEF TypeOK
<1>7. CASE Send
  <2>1. reader \in Seq(Hint) /\ reader # <<>>
    BY <1>7 DEF Send, TypeOK
  <2>2. /\ Head(reader) \in Hint /\ Tail(reader) \in Seq(Hint)
        /\ RangeOf(reader) = {Head(reader)} \cup RangeOf(Tail(reader))
    BY SMT, <2>1, RangeOfTail
  <2>3. /\ pc = "replay" /\ pc' = pc /\ todo' = todo
        /\ got' = got \cup {Head(reader)} /\ reader' = Tail(reader)
        /\ UNCHANGED <<disk, mark, up, accepted, intact>>
        /\ skipped' = skipped /\ faults' = faults
    BY <1>7 DEF Send
  <2>. QED  BY <2>2, <2>3, Delivering DEF TypeOK
<1>8. CASE SendFails
  <2>1. Head(reader) \in Hint
    BY SMT, <1>8 DEF SendFails, TypeOK
  <2>2. /\ pc' = "idle" /\ todo' = {} /\ reader' = <<>>
        /\ UNCHANGED <<disk, mark, up, accepted, intact>>
        /\ skipped' = skipped
    BY <1>8 DEF SendFails
  <2>3. got' \in {got, got \cup {Head(reader)}} /\ faults' \in {faults, faults + 1}
    BY <1>8 DEF SendFails, Fault
  <2>4. <<>> \in Seq(Hint)
    BY SMT
  <2>. QED  BY SMT, <2>1, <2>2, <2>3, <2>4, Delivering DEF TypeOK
<1>9. CASE Cleanup
  <2>1. PICK files \in SUBSET Replayed : segs' = Without(files)
    BY <1>9 DEF Cleanup
  <2>2. /\ pc = "replay" /\ reader = <<>> /\ todo = {}
        /\ count' = count - markCount /\ markSeg' = None /\ markCount' = 0
        /\ pc' = "idle" /\ counter' = counter /\ writer' = writer
        /\ todo' = todo /\ reader' = reader /\ up' = up
        /\ accepted' = accepted /\ got' = got /\ skipped' = skipped
        /\ intact' = intact /\ faults' \in {faults, faults + 1}
    BY <1>9 DEF Cleanup, hist, Fault
  <2>3. /\ DOMAIN segs' = DOMAIN segs \ files
        /\ \A n \in DOMAIN segs' : segs'[n] = segs[n]
    BY <2>1 DEF Without
  <2>4. \A n \in files : n \in DOMAIN segs /\ n <= markSeg
    BY DEF Replayed
  <2>5. counter \notin files
    BY SMT, <2>2, <2>4 DEF CounterAhead, TypeOK, None
  <2>6. TypeOK'
    <3>. count - markCount \in Nat
      BY SMT DEF TypeOK, CounterAhead
    <3>. QED  BY SMT, <2>2, <2>3, <2>5 DEF TypeOK
  <2>7. CounterAhead'
    BY SMT, <2>2, <2>3 DEF CounterAhead, TypeOK
  <2>8. Accounted' /\ FreshSegment'
    BY <2>2, <2>3 DEF Accounted, FreshSegment
  <2>9. \A n \in files : RangeOf(segs[n]) \subseteq got \cup skipped
    <3>. RangeOf(reader) = {} /\ UNION {RangeOf(segs[m]) : m \in todo} = {}
      BY SMT, <2>2 DEF RangeOf
    <3>. QED  BY <2>2, <2>4 DEF Accounted
  <2>10. AcceptedIsKept'
    BY SMT, <2>2, <2>3, <2>9 DEF AcceptedIsKept, OnFile
  <2>. QED  BY <2>6, <2>7, <2>8, <2>10
<1>10. CASE Restart
  <2>1. PICK f : /\ segs' = f
                 /\ f \in IF writer THEN Torn(counter) ELSE {segs}
    BY <1>10 DEF Restart
  <2>2. /\ DOMAIN f = DOMAIN segs
        /\ \A n \in DOMAIN f : f[n] \in Seq(Hint) /\ Len(f[n]) <= SegmentSize
    <3>1. CASE writer
      BY <2>1, <3>1, TornFiles DEF TypeOK
    <3>2. CASE ~writer
      BY <2>1, <3>2 DEF TypeOK
    <3>. QED  BY <3>1, <3>2
  <2>3. /\ intact' = FALSE /\ writer' = FALSE
        /\ count' = Cardinality(Records(f))
        /\ markSeg' = None /\ markCount' = 0
        /\ pc' = "idle" /\ todo' = {} /\ reader' = <<>>
        /\ UNCHANGED <<up, accepted, got, skipped>> /\ faults' = faults + 1
    BY <1>10, <2>1 DEF Restart, Fault
  <2>4. count' \in Nat
    BY <2>2, <2>3, RecordsFinite
  <2>5. counter' \in Nat /\ \A n \in DOMAIN segs : n <= counter'
    BY <1>10, GreatestOf DEF Restart, TypeOK, CounterAhead
  <2>6. /\ todo' \in SUBSET DOMAIN segs /\ reader' \in Seq(Hint)
        /\ markSeg' \in Nat \cup {None} /\ markCount' \in Nat
        /\ markCount' <= count' /\ faults' \in Nat
    BY SMT, <2>3, <2>4 DEF TypeOK
  <2>7. pc' \in {"idle", "replay"} /\ pc' # "replay"
    BY <2>3
  <2>. HIDE DEF Inv
  <2>. QED  BY <2>1, <2>2, <2>3, <2>4, <2>5, <2>6, <2>7, Tearing
<1>11. CASE PeerDown \/ PeerUp \/ UNCHANGED vars
  <2>1. /\ UNCHANGED <<disk, mark, task, accepted, got, skipped, intact>>
        /\ up' \in BOOLEAN /\ faults' \in Nat
    <3>1. CASE PeerDown
      <4>1. up' \in BOOLEAN
        BY <3>1 DEF PeerDown
      <4>. QED  BY SMT, <3>1, <4>1 DEF PeerDown, Fault, TypeOK
    <3>2. CASE PeerUp
      <4>1. up' \in BOOLEAN
        BY <3>2 DEF PeerUp
      <4>. QED  BY <3>2, <4>1 DEF PeerUp, hist, TypeOK
    <3>3. CASE UNCHANGED vars
      BY <3>3 DEF vars, hist, TypeOK
    <3>. QED  BY <1>11, <3>1, <3>2, <3>3
  <2>2. /\ segs' = segs /\ counter' = counter /\ writer' = writer /\ count' = count
        /\ markSeg' = markSeg /\ markCount' = markCount
        /\ pc' = pc /\ todo' = todo /\ reader' = reader
        /\ accepted' = accepted /\ got' = got /\ skipped' = skipped
        /\ intact' = intact
    BY <2>1 DEF disk, mark, task
  <2>3. TypeOK'
    BY <2>1, <2>2 DEF TypeOK
  <2>. QED
    BY <2>2, <2>3
    DEF CounterAhead, Accounted, FreshSegment, AcceptedIsKept, OnFile
<1>. QED
  BY <1>1, <1>2, <1>3, <1>4, <1>5, <1>6, <1>7, <1>8, <1>9, <1>10, <1>11 DEF Next

------------------------------------------------------------------------------
\* The order of the hints

\* g was accepted before h.
Older(g, h) ==
  \E a, b \in DOMAIN accepted : a < b /\ accepted[a] = g /\ accepted[b] = h

Distinct == \A a, b \in DOMAIN accepted : accepted[a] = accepted[b] => a = b

\* Nothing but accepted hints is on file, being read or with the peer.
OnlyAccepted ==
  intact =>
    /\ got \subseteq RangeOf(accepted) /\ RangeOf(reader) \subseteq RangeOf(accepted)
    /\ \A n \in DOMAIN segs : RangeOf(segs[n]) \subseteq RangeOf(accepted)

\* The records of a segment, and the segments by number, are in the order in
\* which the hints were accepted.
FilesOrdered ==
  intact =>
    /\ \A n \in DOMAIN segs : \A a, b \in DOMAIN segs[n] :
         a < b => Older(segs[n][a], segs[n][b])
    /\ \A n, m \in DOMAIN segs : n < m =>
         \A g \in RangeOf(segs[n]), h \in RangeOf(segs[m]) : Older(g, h)

\* What is being read is older than what the delivery reads next and than what
\* is stored meanwhile.
ReaderOrdered ==
  intact /\ pc = "replay" =>
    /\ \A a, b \in DOMAIN reader : a < b => Older(reader[a], reader[b])
    /\ \A g \in RangeOf(reader), m \in DOMAIN segs :
         m \in todo \/ m > markSeg => \A h \in RangeOf(segs[m]) : Older(g, h)

Order ==
  Distinct /\ OnlyAccepted /\ FilesOrdered /\ ReaderOrdered /\ DeliveredInOrder

\* Nothing is on file yet.
LEMMA OrderInit == Init => Order
<1>. SUFFICES ASSUME Init PROVE Order
  OBVIOUS
<1>1. DOMAIN segs = {} /\ got = {} /\ pc = "idle"
  BY DEF Init
<1>2. RangeOf(reader) = {} /\ DOMAIN accepted = {}
  BY SMT DEF Init, RangeOf
<1>. QED
  BY <1>1, <1>2
  DEF Order, Distinct, OnlyAccepted, FilesOrdered, ReaderOrdered, DeliveredInOrder

\* A newly accepted hint is younger than those accepted before it.
LEMMA OlderKept ==
  ASSUME accepted \in Seq(Hint), NEW x \in Hint, accepted' = Append(accepted, x)
  PROVE  /\ \A g, h : Older(g, h) => Older(g, h)'
         /\ \A g \in RangeOf(accepted) : Older(g, x)'
         /\ RangeOf(accepted') = RangeOf(accepted) \cup {x}
<1>1. /\ Len(accepted) \in Nat /\ DOMAIN accepted = 1 .. Len(accepted)
      /\ DOMAIN accepted' = 1 .. Len(accepted) + 1
      /\ accepted'[Len(accepted) + 1] = x
      /\ \A i \in 1 .. Len(accepted) : accepted'[i] = accepted[i]
  BY SMT
<1>2. DOMAIN accepted \subseteq DOMAIN accepted'
  BY SMT, <1>1
<1>3. ASSUME NEW g, NEW h, Older(g, h) PROVE Older(g, h)'
  BY <1>1, <1>2, <1>3 DEF Older
<1>4. ASSUME NEW g \in RangeOf(accepted) PROVE Older(g, x)'
  <2>1. PICK a \in DOMAIN accepted : accepted[a] = g
    BY DEF RangeOf
  <2>2. a < Len(accepted) + 1 /\ Len(accepted) + 1 \in DOMAIN accepted'
    BY SMT, <1>1
  <2>. QED  BY <1>1, <1>2, <2>1, <2>2 DEF Older
<1>. QED  BY <1>3, <1>4, RangeOfAppend

\* A store appends to the newest segment, so the files stay ordered.
LEMMA StoreKeepsOrder ==
  ASSUME Inv, Order, NEW x \in Hint, Accept(x), NEW k \in Nat,
         NEW s \in Seq(Hint),
         counter <= k, intact',
         DOMAIN segs' = DOMAIN segs \cup {k},
         \A n \in DOMAIN segs : n # k => segs'[n] = segs[n],
         segs'[k] = Append(s, x),
         k \in DOMAIN segs => s = segs[k],
         k \notin DOMAIN segs => s = <<>>
  PROVE  OnlyAccepted' /\ FilesOrdered' /\ ReaderOrdered' /\ DeliveredInOrder'
<1>0. /\ accepted' = Append(accepted, x) /\ x \notin RangeOf(accepted)
      /\ markSeg' = markSeg /\ pc' = pc /\ todo' = todo /\ reader' = reader
      /\ got' = got /\ skipped' = skipped /\ intact
  BY DEF Accept, mark, task
<1>1. /\ \A g, h : Older(g, h) => Older(g, h)'
      /\ \A g \in RangeOf(accepted) : Older(g, x)'
      /\ RangeOf(accepted') = RangeOf(accepted) \cup {x}
  BY <1>0, OlderKept DEF Inv, TypeOK
<1>2. /\ got \subseteq RangeOf(accepted) /\ RangeOf(reader) \subseteq RangeOf(accepted)
      /\ \A n \in DOMAIN segs : RangeOf(segs[n]) \subseteq RangeOf(accepted)
  BY <1>0 DEF Order, OnlyAccepted
<1>3. RangeOf(segs'[k]) = RangeOf(s) \cup {x}
  BY RangeOfAppend
<1>4. k \notin DOMAIN segs => RangeOf(s) = {} /\ DOMAIN s = {}
  BY SMT DEF RangeOf
<1>5. RangeOf(s) \subseteq RangeOf(accepted)
  BY <1>2, <1>4
<1>6. \A n \in DOMAIN segs : n <= k
  BY SMT DEF Inv, TypeOK, CounterAhead
<1>7. OnlyAccepted'
  <2>. SUFFICES ASSUME NEW n \in DOMAIN segs'
                PROVE  RangeOf(segs'[n]) \subseteq RangeOf(accepted) \cup {x}
    BY <1>0, <1>1, <1>2 DEF OnlyAccepted
  <2>. QED  BY <1>2, <1>3, <1>5
<1>8. ASSUME NEW n \in DOMAIN segs', NEW a \in DOMAIN segs'[n],
             NEW b \in DOMAIN segs'[n], a < b,
             NEW g, g = segs'[n][a], NEW h, h = segs'[n][b]
      PROVE  Older(g, h)'
  <2>1. CASE n # k
    <3>1. n \in DOMAIN segs /\ segs'[n] = segs[n]
      BY <2>1
    <3>2. Older(g, h)
      BY <1>0, <1>8, <3>1 DEF Order, FilesOrdered
    <3>. QED  BY <1>1, <3>2
  <2>2. CASE n = k
    <3>1. /\ a \in DOMAIN s /\ segs'[k][a] = s[a]
          /\ b \in DOMAIN s => segs'[k][b] = s[b]
          /\ b \notin DOMAIN s => segs'[k][b] = x
      BY SMT, <1>8, <2>2
    <3>2. CASE b \in DOMAIN s
      <4>1. s = segs[k] /\ k \in DOMAIN segs
        BY <1>4, <3>2
      <4>2. Older(s[a], s[b])
        BY <1>0, <1>8, <3>1, <3>2, <4>1 DEF Order, FilesOrdered
      <4>. QED  BY <1>1, <1>8, <2>2, <3>1, <3>2, <4>2
    <3>3. CASE b \notin DOMAIN s
      <4>1. s[a] \in RangeOf(accepted)
        BY <1>5, <3>1 DEF RangeOf
      <4>. QED  BY <1>1, <1>8, <2>2, <3>1, <3>3, <4>1
    <3>. QED  BY <3>2, <3>3
  <2>. QED  BY <2>1, <2>2
<1>9. ASSUME NEW n \in DOMAIN segs', NEW m \in DOMAIN segs', n < m,
             NEW g \in RangeOf(segs'[n]), NEW h \in RangeOf(segs'[m])
      PROVE  Older(g, h)'
  <2>1. n # k /\ n \in DOMAIN segs /\ g \in RangeOf(segs[n])
    <3>1. n # k
      BY SMT, <1>6, <1>9 DEF Inv, TypeOK
    <3>. QED  BY <3>1
  <2>2. CASE m # k
    BY <1>0, <1>1, <1>9, <2>1, <2>2 DEF Order, FilesOrdered
  <2>3. CASE m = k /\ h = x
    BY <1>1, <1>2, <2>1, <2>3
  <2>4. CASE m = k /\ h \in RangeOf(s)
    <3>1. k \in DOMAIN segs /\ s = segs[k]
      BY <1>4, <2>4
    <3>2. Older(g, h)
      BY <1>0, <1>9, <2>1, <2>4, <3>1 DEF Order, FilesOrdered
    <3>. QED  BY <1>1, <3>2
  <2>. QED  BY <1>3, <2>2, <2>3, <2>4
<1>10. FilesOrdered'
  BY <1>8, <1>9 DEF FilesOrdered
<1>11. ReaderOrdered'
  <2>. SUFFICES ASSUME pc = "replay"
                PROVE  /\ \A a, b \in DOMAIN reader : a < b => Older(reader[a], reader[b])'
                       /\ \A g \in RangeOf(reader), m \in DOMAIN segs' :
                            m \in todo \/ m > markSeg =>
                              \A h \in RangeOf(segs'[m]) : Older(g, h)'
    BY <1>0 DEF ReaderOrdered
  <2>1. \A a, b \in DOMAIN reader : a < b => Older(reader[a], reader[b])'
    BY <1>0, <1>1 DEF Order, ReaderOrdered
  <2>2. ASSUME NEW g \in RangeOf(reader), NEW m \in DOMAIN segs',
               m \in todo \/ m > markSeg, NEW h \in RangeOf(segs'[m])
        PROVE  Older(g, h)'
    <3>1. CASE m # k
      BY <1>0, <1>1, <2>2, <3>1 DEF Order, ReaderOrdered
    <3>2. CASE m = k /\ h = x
      BY <1>1, <1>2, <3>2
    <3>3. CASE m = k /\ h \in RangeOf(s)
      <4>1. k \in DOMAIN segs /\ s = segs[k]
        BY <1>4, <3>3
      <4>2. Older(g, h)
        BY <1>0, <2>2, <3>3, <4>1 DEF Order, ReaderOrdered
      <4>. QED  BY <1>1, <4>2
    <3>. QED  BY <1>3, <2>2, <3>1, <3>2, <3>3
  <2>. QED  BY <2>1, <2>2
<1>12. DeliveredInOrder'
  <2>. SUFFICES ASSUME NEW i \in DOMAIN accepted', NEW j \in DOMAIN accepted',
                       i < j, accepted'[j] \in got
                PROVE  accepted'[i] \in got \cup skipped
    BY <1>0 DEF DeliveredInOrder
  <2>1. accepted'[j] # x
    BY <1>0, <1>2
  <2>2. /\ i \in DOMAIN accepted /\ j \in DOMAIN accepted
        /\ accepted'[i] = accepted[i] /\ accepted'[j] = accepted[j]
    BY SMT, <1>0, <2>1 DEF Inv, TypeOK
  <2>. QED  BY <1>0, <2>2 DEF Order, DeliveredInOrder
<1>. QED  BY <1>7, <1>10, <1>11, <1>12

\* The hint that is sent next is the oldest the peer still misses: one that was
\* accepted before it is with the peer or was in a segment that was skipped.
LEMMA OldestIsNext ==
  ASSUME Inv, Order, intact, pc = "replay", reader # <<>>,
         NEW i \in DOMAIN accepted, NEW j \in DOMAIN accepted, i < j,
         accepted[j] = Head(reader)
  PROVE  accepted[i] \in got \cup skipped
<1>. SUFFICES ASSUME accepted[i] \notin got \cup skipped PROVE FALSE
  OBVIOUS
<1>1. 1 \in DOMAIN reader /\ reader[1] = Head(reader) /\ Head(reader) \in RangeOf(reader)
  BY SMT DEF Inv, TypeOK, RangeOf
<1>2. i \in Nat /\ j \in Nat
  BY SMT DEF Inv, TypeOK
<1>3. ~Older(Head(reader), accepted[i])
  <2>. SUFFICES ASSUME NEW a \in DOMAIN accepted, NEW b \in DOMAIN accepted, a < b,
                       accepted[a] = accepted[j], accepted[b] = accepted[i]
                PROVE  FALSE
    BY DEF Older
  <2>1. a = j /\ b = i
    BY DEF Order, Distinct
  <2>. QED  BY SMT, <1>2, <2>1
<1>4. accepted[i] # Head(reader)
  <2>1. i # j
    BY SMT, <1>2
  <2>. QED  BY <2>1 DEF Order, Distinct
<1>5. PICK n \in DOMAIN segs : accepted[i] \in RangeOf(segs[n])
  BY DEF Inv, AcceptedIsKept, OnFile, RangeOf
<1>6. CASE n > markSeg
  BY <1>1, <1>3, <1>5, <1>6 DEF Order, ReaderOrdered
<1>7. CASE n <= markSeg
  <2>1. \/ accepted[i] \in RangeOf(reader)
        \/ \E m \in todo : accepted[i] \in RangeOf(segs[m])
    BY <1>5, <1>7 DEF Inv, Accounted
  <2>2. ASSUME NEW b \in DOMAIN reader, reader[b] = accepted[i] PROVE FALSE
    <3>1. b > 1
      BY SMT, <1>1, <1>4, <2>2 DEF Inv, TypeOK
    <3>2. 1 < b
      BY SMT, <3>1 DEF Inv, TypeOK
    <3>3. Older(reader[1], reader[b])
      BY <1>1, <3>2 DEF Order, ReaderOrdered
    <3>. QED  BY <1>1, <1>3, <2>2, <3>3
  <2>3. ASSUME NEW m \in todo, accepted[i] \in RangeOf(segs[m]) PROVE FALSE
    BY <1>1, <1>3, <2>3 DEF Order, ReaderOrdered, Inv, TypeOK
  <2>. QED  BY <2>1, <2>2, <2>3 DEF RangeOf
<1>8. n \in Int /\ markSeg \in Int
  BY SMT DEF Inv, TypeOK, None
<1>9. n > markSeg \/ n <= markSeg
  BY SMT, <1>8
<1>. QED  BY <1>6, <1>7, <1>9

\* A step of the delivery that reads no further than the next hint.
LEMMA DeliveryKeepsOrder ==
  ASSUME Inv, Order, UNCHANGED <<segs, markSeg, accepted, intact>>,
         intact => got' \subseteq RangeOf(accepted),
         RangeOf(reader') \subseteq RangeOf(accepted) \/ ~intact,
         skipped \subseteq skipped',
         intact => DeliveredInOrder',
         intact => ReaderOrdered'
  PROVE  Order'
<1>1. Distinct'
  BY DEF Order, Distinct
<1>2. OnlyAccepted'
  BY DEF Order, OnlyAccepted
<1>3. FilesOrdered'
  BY SMT DEF Order, FilesOrdered, Older
<1>4. ReaderOrdered' /\ DeliveredInOrder'
  BY DEF ReaderOrdered, DeliveredInOrder
<1>. QED  BY <1>1, <1>2, <1>3, <1>4 DEF Order

\* Every step keeps the files, the delivery and the peer in the hints' order.
LEMMA OrderInductive == Inv /\ Order /\ [Next]_vars => Order'
<1>. SUFFICES ASSUME Inv, Order, [Next]_vars PROVE Order'
  OBVIOUS
<1>0. ASSUME NEW x \in Hint, Accept(x) PROVE Distinct'
  <2>1. accepted' = Append(accepted, x) /\ x \notin RangeOf(accepted)
    BY <1>0 DEF Accept
  <2>2. \A a, b \in DOMAIN accepted : accepted[a] = accepted[b] => a = b
    BY DEF Order, Distinct
  <2>3. /\ Len(accepted) \in Nat /\ DOMAIN accepted = 1 .. Len(accepted)
        /\ DOMAIN accepted' = 1 .. Len(accepted) + 1
        /\ accepted'[Len(accepted) + 1] = x
        /\ \A i \in 1 .. Len(accepted) : accepted'[i] = accepted[i]
    BY SMT, <2>1 DEF Inv, TypeOK
  <2>4. \A i \in 1 .. Len(accepted) : accepted[i] # x
    BY <2>1, <2>3 DEF RangeOf
  <2>. QED  BY SMT, <2>2, <2>3, <2>4 DEF Distinct
<1>1. ASSUME ~intact', Distinct' PROVE Order'
  BY <1>1
  DEF Order, OnlyAccepted, FilesOrdered, ReaderOrdered, DeliveredInOrder
<1>2. ASSUME NEW x \in Hint, StoreAppend(x), intact' PROVE Order'
  <2>1. Accept(x) /\ intact
    BY <1>2 DEF StoreAppend, Accept
  <2>2. /\ DOMAIN Opened = DOMAIN segs \cup {counter} /\ Opened[counter] \in Seq(Hint)
        /\ \A n \in DOMAIN segs : Opened[n] = segs[n]
    BY <2>1, OpenedFiles
  <2>3. counter \notin DOMAIN segs => Opened[counter] = <<>>
    BY DEF Opened, Created, Inv, TypeOK
  <2>4. segs' = [Opened EXCEPT ![counter] = Append(Opened[counter], x)]
    BY <1>2 DEF StoreAppend
  <2>5. /\ DOMAIN segs' = DOMAIN segs \cup {counter}
        /\ \A n \in DOMAIN segs : n # counter => segs'[n] = segs[n]
        /\ segs'[counter] = Append(Opened[counter], x)
    BY <2>2, <2>4
  <2>6. counter \in Nat /\ counter <= counter
    BY SMT DEF Inv, TypeOK
  <2>7. OnlyAccepted' /\ FilesOrdered' /\ ReaderOrdered' /\ DeliveredInOrder'
    BY <1>2, <2>1, <2>2, <2>3, <2>5, <2>6, StoreKeepsOrder
  <2>. QED  BY <1>0, <2>1, <2>7 DEF Order
<1>3. ASSUME NEW x \in Hint, StoreRollover(x), intact' PROVE Order'
  <2>1. Accept(x)
    BY <1>3 DEF StoreRollover
  <2>2. counter + 1 \in Nat /\ counter <= counter + 1 /\ counter + 1 \notin DOMAIN segs
    BY SMT DEF Inv, TypeOK, CounterAhead
  <2>3. segs' = [m \in DOMAIN segs \cup {counter + 1} |->
                   IF m = counter + 1 THEN <<x>> ELSE segs[m]]
    BY <1>3 DEF StoreRollover, Created
  <2>4. <<>> \in Seq(Hint) /\ Append(<<>>, x) = <<x>>
    BY SMT
  <2>5. /\ DOMAIN segs' = DOMAIN segs \cup {counter + 1}
        /\ \A n \in DOMAIN segs : segs'[n] = segs[n]
        /\ segs'[counter + 1] = Append(<<>>, x)
    BY <2>2, <2>3, <2>4
  <2>6. OnlyAccepted' /\ FilesOrdered' /\ ReaderOrdered' /\ DeliveredInOrder'
    BY <1>3, <2>1, <2>2, <2>4, <2>5, StoreKeepsOrder
  <2>. QED  BY <1>0, <2>1, <2>6 DEF Order
<1>4. CASE \E x \in Hint : StoreAppend(x) \/ StoreRollover(x)
  <2>1. PICK x \in Hint : StoreAppend(x) \/ StoreRollover(x)
    BY <1>4
  <2>2. Distinct'
    BY <1>0, <2>1 DEF StoreAppend, StoreRollover
  <2>. QED  BY <1>1, <1>2, <1>3, <2>1, <2>2
<1>5. CASE SyncFails \/ Restart
  <2>1. ~intact' /\ accepted' = accepted
    BY <1>5 DEF SyncFails, Restart
  <2>2. Distinct'
    BY <2>1 DEF Order, Distinct
  <2>. QED  BY <1>1, <2>1, <2>2
<1>6. CASE Drain
  <2>1. /\ segs' = segs /\ accepted' = accepted /\ intact' = intact
        /\ got' = got /\ skipped' = skipped /\ reader' = <<>>
    BY <1>6 DEF Drain, hist
  <2>2. DOMAIN reader' = {} /\ RangeOf(reader') = {}
    BY SMT, <2>1 DEF RangeOf
  <2>3. Distinct' /\ DeliveredInOrder'
    BY <2>1 DEF Order, Distinct, DeliveredInOrder
  <2>4. FilesOrdered'
    BY SMT, <2>1 DEF Order, FilesOrdered, Older
  <2>5. OnlyAccepted'
    BY <2>1, <2>2 DEF Order, OnlyAccepted
  <2>6. ReaderOrdered'
    BY <2>2 DEF ReaderOrdered
  <2>. QED  BY <2>3, <2>4, <2>5, <2>6 DEF Order
<1>7. CASE OpenSegment
  <2>. DEFINE n == Least(todo)
  <2>1. n \in todo /\ n \in DOMAIN segs /\ \A m \in todo : n <= m
    BY <1>7, LeastOf DEF OpenSegment, Inv, TypeOK
  <2>2. /\ pc = "replay" /\ reader' = segs[n] /\ todo' = todo \ {n}
        /\ segs' = segs /\ markSeg' = markSeg /\ accepted' = accepted
        /\ intact' = intact /\ got' = got /\ skipped' = skipped
    BY <1>7 DEF OpenSegment, hist, disk, mark
  <2>. HIDE DEF n
  <2>3. ASSUME NEW m \in DOMAIN segs, m \in todo' \/ m > markSeg PROVE n < m
    <3>1. n \in Nat /\ m \in Nat /\ markSeg \in Int /\ n <= markSeg
      BY SMT, <2>1, <2>2 DEF Inv, TypeOK, CounterAhead, None
    <3>2. CASE m > markSeg
      BY SMT, <3>1, <3>2
    <3>3. CASE m \in todo'
      <4>1. n # m /\ n <= m
        BY <2>1, <2>2, <3>3
      <4>. QED  BY SMT, <3>1, <4>1
    <3>. QED  BY <2>3, <3>2, <3>3
  <2>4. ASSUME intact PROVE ReaderOrdered'
    <3>1. \A a, b \in DOMAIN segs[n] : a < b => Older(segs[n][a], segs[n][b])
      BY <2>1, <2>4 DEF Order, FilesOrdered
    <3>2. \A m \in DOMAIN segs : n < m =>
            \A g \in RangeOf(segs[n]), h \in RangeOf(segs[m]) : Older(g, h)
      BY <2>1, <2>4 DEF Order, FilesOrdered
    <3>3. \A g, h : Older(g, h) => Older(g, h)'
      BY <2>2 DEF Older
    <3>. QED  BY <2>2, <2>3, <3>1, <3>2, <3>3 DEF ReaderOrdered
  <2>5. intact => got' \subseteq RangeOf(accepted) /\ RangeOf(reader') \subseteq RangeOf(accepted)
    BY <2>1, <2>2 DEF Order, OnlyAccepted
  <2>6. DeliveredInOrder'
    BY <2>2 DEF Order, DeliveredInOrder
  <2>. QED  BY <2>2, <2>4, <2>5, <2>6, DeliveryKeepsOrder
<1>8. CASE SkipSegment
  <2>1. /\ reader' = reader /\ todo' \subseteq todo /\ pc' = pc
        /\ segs' = segs /\ markSeg' = markSeg /\ accepted' = accepted
        /\ intact' = intact /\ got' = got /\ skipped \subseteq skipped'
    BY <1>8 DEF SkipSegment, disk, mark
  <2>2. DeliveredInOrder'
    BY <2>1 DEF Order, DeliveredInOrder
  <2>3. ReaderOrdered'
    BY SMT, <2>1 DEF Order, ReaderOrdered, Older
  <2>4. intact => got' \subseteq RangeOf(accepted) /\ RangeOf(reader') \subseteq RangeOf(accepted)
    BY <2>1 DEF Order, OnlyAccepted
  <2>. QED  BY <2>1, <2>2, <2>3, <2>4, DeliveryKeepsOrder
<1>9. CASE Send \/ SendFails
  <2>1. /\ pc = "replay" /\ reader # <<>> /\ todo' \in {todo, {}}
        /\ segs' = segs /\ markSeg' = markSeg /\ accepted' = accepted
        /\ intact' = intact /\ skipped' = skipped
        /\ got' \in {got, got \cup {Head(reader)}}
        /\ pc' = "replay" => pc' = pc /\ todo' = todo /\ reader' = Tail(reader)
        /\ reader' \in {Tail(reader), <<>>}
    <3>1. CASE Send
      BY <3>1 DEF Send, disk, mark
    <3>2. CASE SendFails
      BY <3>2 DEF SendFails, disk, mark
    <3>. QED  BY <1>9, <3>1, <3>2
  <2>2. /\ RangeOf(reader) = {Head(reader)} \cup RangeOf(Tail(reader))
        /\ RangeOf(<<>>) = {}
    BY SMT, <2>1, RangeOfTail DEF Inv, TypeOK, RangeOf
  <2>3. ASSUME intact PROVE DeliveredInOrder'
    <3>. SUFFICES ASSUME NEW i \in DOMAIN accepted, NEW j \in DOMAIN accepted,
                         i < j, accepted[j] \in got'
                  PROVE  accepted[i] \in got' \cup skipped
      BY <2>1 DEF DeliveredInOrder
    <3>1. CASE accepted[j] \in got
      BY <2>1, <2>3, <3>1 DEF Order, DeliveredInOrder
    <3>2. CASE accepted[j] = Head(reader)
      BY <2>1, <2>3, <3>2, OldestIsNext
    <3>. QED  BY <2>1, <3>1, <3>2
  <2>4. ASSUME intact PROVE ReaderOrdered'
    <3>. SUFFICES ASSUME pc' = "replay" PROVE ReaderOrdered'
      BY DEF ReaderOrdered
    <3>1. \A a \in DOMAIN Tail(reader) :
            a + 1 \in DOMAIN reader /\ Tail(reader)[a] = reader[a + 1]
      BY SMT, <2>1 DEF Inv, TypeOK
    <3>2. \A a, b \in DOMAIN Tail(reader) : a < b => a + 1 < b + 1
      BY SMT DEF Inv, TypeOK
    <3>3. \A a, b \in DOMAIN Tail(reader) :
            a < b => Older(Tail(reader)[a], Tail(reader)[b])
      BY <2>1, <2>4, <3>1, <3>2 DEF Order, ReaderOrdered
    <3>4. \A g \in RangeOf(Tail(reader)), m \in DOMAIN segs :
            m \in todo \/ m > markSeg => \A h \in RangeOf(segs[m]) : Older(g, h)
      BY <2>1, <2>2, <2>4 DEF Order, ReaderOrdered
    <3>5. \A g, h : Older(g, h) => Older(g, h)'
      BY <2>1 DEF Older
    <3>. QED  BY <2>1, <3>3, <3>4, <3>5 DEF ReaderOrdered
  <2>5. intact => got' \subseteq RangeOf(accepted) /\ RangeOf(reader') \subseteq RangeOf(accepted)
    BY <2>1, <2>2 DEF Order, OnlyAccepted
  <2>. QED  BY <2>1, <2>3, <2>4, <2>5, DeliveryKeepsOrder
<1>10. CASE Cleanup
  <2>1. /\ DOMAIN segs' \subseteq DOMAIN segs
        /\ \A n \in DOMAIN segs' : segs'[n] = segs[n]
    BY <1>10 DEF Cleanup, Without
  <2>2. /\ pc' = "idle" /\ reader' = reader /\ accepted' = accepted
        /\ intact' = intact /\ got' = got /\ skipped' = skipped
    BY <1>10 DEF Cleanup, hist
  <2>3. Distinct' /\ DeliveredInOrder'
    BY <2>2 DEF Order, Distinct, DeliveredInOrder
  <2>4. FilesOrdered'
    BY SMT, <2>1, <2>2 DEF Order, FilesOrdered, Older
  <2>5. OnlyAccepted'
    BY <2>1, <2>2 DEF Order, OnlyAccepted
  <2>6. ReaderOrdered'
    BY <2>2 DEF ReaderOrdered
  <2>. QED  BY <2>3, <2>4, <2>5, <2>6 DEF Order
<1>11. CASE PeerDown \/ PeerUp \/ UNCHANGED vars
  <2>1. /\ segs' = segs /\ markSeg' = markSeg /\ accepted' = accepted
        /\ intact' = intact /\ got' = got /\ skipped' = skipped
        /\ pc' = pc /\ todo' = todo /\ reader' = reader
    BY <1>11 DEF PeerDown, PeerUp, vars, disk, mark, task, hist
  <2>2. ReaderOrdered' /\ DeliveredInOrder'
    BY SMT, <2>1 DEF Order, ReaderOrdered, DeliveredInOrder, Older
  <2>3. intact => got' \subseteq RangeOf(accepted) /\ RangeOf(reader') \subseteq RangeOf(accepted)
    BY <2>1 DEF Order, OnlyAccepted
  <2>. QED  BY <2>1, <2>2, <2>3, DeliveryKeepsOrder
<1>. QED
  BY <1>4, <1>5, <1>6, <1>7, <1>8, <1>9, <1>10, <1>11 DEF Next

------------------------------------------------------------------------------
\* The pending count

\* Hints on file that the peer still misses, and those of them that the running
\* delivery does not cover.
Left == {h \in Hint \ (got \cup skipped) : OnFile(h)}
Beyond ==
  {h \in Hint \ (got \cup skipped) :
     \E n \in DOMAIN segs : n > markSeg /\ h \in RangeOf(segs[n])}

\* What cleanup will leave in the count covers what it will leave on file.
Counted ==
  PendingCovers /\ (pc = "replay" => Cardinality(Beyond) <= count - markCount)

\* Sets of hints are finite, and a smaller one has no more of them.
LEMMA HintSets ==
  ASSUME NEW S \in SUBSET Hint, NEW T \in SUBSET S
  PROVE  /\ Cardinality(S) \in Nat /\ Cardinality(T) \in Nat
         /\ Cardinality(T) <= Cardinality(S)
<1>1. IsFiniteSet(S)
  BY Bounds, FS_Subset
<1>2. IsFiniteSet(T) /\ Cardinality(T) <= Cardinality(S)
  BY <1>1, FS_Subset
<1>. QED  BY <1>1, <1>2, FS_CardinalityType

\* Adding one hint adds at most one.
LEMMA OneMoreHint ==
  ASSUME NEW S \in SUBSET Hint, NEW h \in Hint, NEW T \in SUBSET (S \cup {h})
  PROVE  Cardinality(T) <= Cardinality(S) + 1
<1>1. IsFiniteSet(S)
  BY Bounds, FS_Subset
<1>2. Cardinality(S \cup {h}) = IF h \in S THEN Cardinality(S) ELSE Cardinality(S) + 1
  BY <1>1, FS_AddElement
<1>3. /\ Cardinality(S) \in Nat /\ Cardinality(T) \in Nat
      /\ Cardinality(T) <= Cardinality(S \cup {h})
  BY HintSets
<1>. QED  BY SMT, <1>2, <1>3

\* A step that leaves no more hints on file and the count alone.
LEMMA NoMoreLeft ==
  ASSUME Inv, Counted, Left' \subseteq Left, count' = count,
         pc' = "replay" =>
           Beyond' \subseteq Beyond /\ markCount' = markCount /\ pc = "replay"
  PROVE  Counted'
<1>1. /\ Left \in SUBSET Hint /\ Beyond \in SUBSET Hint
      /\ Left' \in SUBSET Left /\ (pc' = "replay" => Beyond' \in SUBSET Beyond)
  BY DEF Left, Beyond
<1>2. /\ Cardinality(Left) \in Nat /\ Cardinality(Left') \in Nat
      /\ Cardinality(Left') <= Cardinality(Left)
  BY <1>1, HintSets
<1>3. Cardinality(Left) <= count /\ count \in Nat
  BY DEF Counted, PendingCovers, Left, Inv, TypeOK
<1>4. Cardinality(Left') <= count'
  BY SMT, <1>2, <1>3
<1>5. PendingCovers'
  BY <1>4 DEF PendingCovers, Left
<1>6. ASSUME pc' = "replay" PROVE Cardinality(Beyond') <= count' - markCount'
  <2>1. /\ Cardinality(Beyond) \in Nat /\ Cardinality(Beyond') \in Nat
        /\ Cardinality(Beyond') <= Cardinality(Beyond)
    BY <1>1, <1>6, HintSets
  <2>2. Cardinality(Beyond) <= count - markCount /\ markCount \in Nat
    BY <1>6 DEF Counted, Inv, TypeOK
  <2>3. markCount' = markCount
    BY <1>6
  <2>. QED  BY SMT, <1>3, <2>1, <2>2, <2>3
<1>. QED  BY <1>5, <1>6 DEF Counted

\* A store adds one to the count and at most one hint to the files.
LEMMA StoreCounts ==
  ASSUME Inv, Counted, NEW x \in Hint, Accept(x),
         \A n \in DOMAIN segs' : \A h \in RangeOf(segs'[n]) :
           h = x \/ (n \in DOMAIN segs /\ h \in RangeOf(segs[n]))
  PROVE  Counted'
<1>0. /\ count' = count + 1 /\ markSeg' = markSeg /\ markCount' = markCount
      /\ pc' = pc /\ got' = got /\ skipped' = skipped
  BY DEF Accept, mark, task
<1>1. /\ Left \in SUBSET Hint /\ Beyond \in SUBSET Hint
      /\ Left' \in SUBSET (Left \cup {x}) /\ Beyond' \in SUBSET (Beyond \cup {x})
  <2>1. Left' \in SUBSET (Left \cup {x})
    BY <1>0 DEF Left, OnFile
  <2>2. Beyond' \in SUBSET (Beyond \cup {x})
    BY <1>0 DEF Beyond
  <2>. QED  BY <2>1, <2>2 DEF Left, Beyond
<1>2. /\ Cardinality(Left') <= Cardinality(Left) + 1
      /\ Cardinality(Beyond') <= Cardinality(Beyond) + 1
  BY <1>1, OneMoreHint
<1>3. /\ Cardinality(Left) \in Nat /\ Cardinality(Beyond) \in Nat
      /\ Cardinality(Left') \in Nat /\ Cardinality(Beyond') \in Nat
  <2>1. Left' \in SUBSET Hint /\ Beyond' \in SUBSET Hint
    BY <1>1
  <2>. QED  BY <1>1, <2>1, HintSets
<1>4. /\ Cardinality(Left) <= count /\ count \in Nat /\ markCount \in Nat
      /\ pc = "replay" => Cardinality(Beyond) <= count - markCount
  BY DEF Counted, PendingCovers, Left, Inv, TypeOK
<1>5. Cardinality(Left') <= count'
  BY SMT, <1>0, <1>2, <1>3, <1>4
<1>6. ASSUME pc' = "replay" PROVE Cardinality(Beyond') <= count' - markCount'
  <2>1. Cardinality(Beyond) <= count - markCount
    BY <1>0, <1>4, <1>6
  <2>. QED  BY SMT, <1>0, <1>2, <1>3, <1>4, <2>1
<1>. QED  BY <1>5, <1>6 DEF Counted, PendingCovers, Left

\* The records that a restart finds are at least as many as the hints in them.
LEMMA RecordsCover ==
  ASSUME Inv, NEW f, DOMAIN f = DOMAIN segs,
         \A n \in DOMAIN f : f[n] \in Seq(Hint) /\ Len(f[n]) <= SegmentSize,
         NEW S \in SUBSET Hint, \A h \in S : \E n \in DOMAIN f : h \in RangeOf(f[n])
  PROVE  Cardinality(S) <= Cardinality(Records(f))
<1>. DEFINE R == {r \in Records(f) : f[r[1]][r[2]] \in S}
<1>. DEFINE F == [r \in R |-> f[r[1]][r[2]]]
<1>1. F \in Surjection(R, S)
  <2>1. F \in [R -> S]
    OBVIOUS
  <2>2. ASSUME NEW h \in S PROVE \E r \in R : F[r] = h
    <3>1. PICK n \in DOMAIN f : h \in RangeOf(f[n])
      OBVIOUS
    <3>2. PICK i \in DOMAIN f[n] : f[n][i] = h
      BY <3>1 DEF RangeOf
    <3>3. <<n, i>> \in Records(f)
      BY SMT, <3>2 DEF Records
    <3>4. <<n, i>>[1] = n /\ <<n, i>>[2] = i
      OBVIOUS
    <3>. QED  BY <3>2, <3>3, <3>4
  <2>. QED  BY <2>1, <2>2 DEF Surjection
<1>2. IsFiniteSet(Records(f))
  BY RecordsFinite
<1>3. IsFiniteSet(R) /\ Cardinality(R) <= Cardinality(Records(f))
  BY <1>2, FS_Subset
<1>. HIDE DEF R, F
<1>4. IsFiniteSet(S) /\ Cardinality(S) <= Cardinality(R)
  BY <1>1, <1>3, FS_Surjection
<1>5. /\ Cardinality(S) \in Nat /\ Cardinality(R) \in Nat
      /\ Cardinality(Records(f)) \in Nat
  BY <1>2, <1>3, <1>4, FS_CardinalityType
<1>. QED  BY SMT, <1>3, <1>4, <1>5

\* Nothing is on file and nothing is pending.
LEMMA CountedInit == Init => Counted
<1>. SUFFICES ASSUME Init PROVE Counted
  OBVIOUS
<1>1. {h \in Hint \ (got \cup skipped) : OnFile(h)} = {} /\ count = 0 /\ pc = "idle"
  BY DEF Init, OnFile
<1>2. Cardinality({}) <= 0
  BY SMT, FS_EmptySet
<1>. QED  BY <1>1, <1>2 DEF Counted, PendingCovers

\* Every step keeps the count at or above the hints that are left.
LEMMA CountedInductive == Inv /\ Counted /\ [Next]_vars => Counted'
<1>. SUFFICES ASSUME Inv, Counted, [Next]_vars PROVE Counted'
  OBVIOUS
<1>1. ASSUME NEW x \in Hint, StoreAppend(x) PROVE Counted'
  <2>1. /\ DOMAIN Opened = DOMAIN segs \cup {counter} /\ Opened[counter] \in Seq(Hint)
        /\ \A n \in DOMAIN segs : n # counter => Opened[n] = segs[n]
    BY OpenedFiles
  <2>2. segs' = [Opened EXCEPT ![counter] = Append(Opened[counter], x)]
    BY <1>1 DEF StoreAppend
  <2>3. RangeOf(Append(Opened[counter], x)) = RangeOf(Opened[counter]) \cup {x}
    BY <2>1, RangeOfAppend
  <2>4. RangeOf(<<>>) = {}
    BY SMT DEF RangeOf
  <2>5. \A h \in RangeOf(Opened[counter]) :
          counter \in DOMAIN segs /\ h \in RangeOf(segs[counter])
    BY <2>4 DEF Opened, Created, Inv, TypeOK
  <2>6. ASSUME NEW n \in DOMAIN segs', NEW h \in RangeOf(segs'[n])
        PROVE  h = x \/ (n \in DOMAIN segs /\ h \in RangeOf(segs[n]))
    <3>1. CASE n = counter
      <4>1. segs'[n] = Append(Opened[counter], x)
        BY <2>1, <2>2, <3>1
      <4>. QED  BY SMT, <2>3, <2>5, <3>1, <4>1
    <3>2. CASE n # counter
      BY <2>1, <2>2, <3>2
    <3>. QED  BY <3>1, <3>2
  <2>. QED  BY <1>1, <2>6, StoreCounts DEF StoreAppend
<1>2. ASSUME NEW x \in Hint, StoreRollover(x) PROVE Counted'
  <2>1. segs' = [m \in DOMAIN segs \cup {counter + 1} |->
                   IF m = counter + 1 THEN <<x>> ELSE segs[m]]
    BY <1>2 DEF StoreRollover, Created
  <2>2. RangeOf(<<x>>) = {x}
    BY SMT DEF RangeOf
  <2>3. \A n \in DOMAIN segs' : \A h \in RangeOf(segs'[n]) :
          h = x \/ (n \in DOMAIN segs /\ h \in RangeOf(segs[n]))
    BY <2>1, <2>2
  <2>. QED  BY <1>2, <2>3, StoreCounts DEF StoreRollover
<1>3. CASE SyncFails
  <2>1. PICK f \in Torn(counter) : segs' = f
    BY <1>3 DEF SyncFails
  <2>2. PICK k \in 0 .. Len(segs[counter]) :
          f = [segs EXCEPT ![counter] = SubSeq(segs[counter], 1, k)]
    BY DEF Torn
  <2>3. counter \in DOMAIN segs /\ segs[counter] \in Seq(Hint)
    BY <1>3 DEF SyncFails, Inv, TypeOK
  <2>4. RangeOf(SubSeq(segs[counter], 1, k)) \subseteq RangeOf(segs[counter])
    BY SMT, <2>3 DEF RangeOf
  <2>5. /\ DOMAIN segs' = DOMAIN segs
        /\ \A n \in DOMAIN segs : RangeOf(segs'[n]) \subseteq RangeOf(segs[n])
    BY <2>1, <2>2, <2>3, <2>4
  <2>6. /\ count' = count /\ markSeg' = markSeg /\ markCount' = markCount /\ pc' = pc
        /\ got' = got /\ skipped' = skipped
    BY <1>3 DEF SyncFails, mark, task
  <2>7. Left' \subseteq Left
    BY <2>5, <2>6 DEF Left, OnFile
  <2>8. Beyond' \subseteq Beyond
    BY <2>5, <2>6 DEF Beyond
  <2>. QED  BY <2>6, <2>7, <2>8, NoMoreLeft
<1>4. CASE Drain
  <2>1. /\ segs' = segs /\ count' = count /\ markCount' = count /\ markSeg' = Covered
        /\ got' = got /\ skipped' = skipped
    BY <1>4 DEF Drain, hist
  <2>2. Covered \in Nat /\ \A n \in DOMAIN segs : n <= Covered
    BY GreatestOf DEF Covered, Inv, TypeOK, CounterAhead
  <2>3. \A n \in DOMAIN segs : ~(n > Covered)
    BY SMT, <2>2 DEF Inv, TypeOK
  <2>4. Beyond' = {}
    BY <2>1, <2>3 DEF Beyond
  <2>5. Cardinality(Beyond') <= count' - markCount'
    <3>1. count \in Nat
      BY DEF Inv, TypeOK
    <3>2. Cardinality(Beyond') = 0
      BY <2>4, FS_EmptySet
    <3>. QED  BY SMT, <2>1, <3>1, <3>2
  <2>6. PendingCovers'
    BY <2>1 DEF Counted, PendingCovers, OnFile
  <2>. QED  BY <2>5, <2>6 DEF Counted
<1>5. CASE OpenSegment \/ SkipSegment \/ Send \/ SendFails \/ PeerDown \/ PeerUp
           \/ UNCHANGED vars
  <2>1. /\ segs' = segs /\ count' = count /\ markSeg' = markSeg /\ markCount' = markCount
        /\ got \subseteq got' /\ skipped \subseteq skipped'
        /\ pc' = "replay" => pc = "replay"
    BY <1>5
    DEF OpenSegment, SkipSegment, Send, SendFails, PeerDown, PeerUp, vars, disk,
        mark, task, hist
  <2>2. Left' \subseteq Left
    BY <2>1 DEF Left, OnFile
  <2>3. Beyond' \subseteq Beyond
    BY <2>1 DEF Beyond
  <2>. QED  BY <2>1, <2>2, <2>3, NoMoreLeft
<1>6. CASE Cleanup
  <2>1. /\ DOMAIN segs' \subseteq DOMAIN segs
        /\ \A n \in DOMAIN segs' : segs'[n] = segs[n]
    BY <1>6 DEF Cleanup, Without
  <2>2. /\ pc = "replay" /\ pc' = "idle" /\ count' = count - markCount
        /\ got' = got /\ skipped' = skipped /\ reader = <<>> /\ todo = {}
    BY <1>6 DEF Cleanup, hist
  <2>3. RangeOf(reader) = {} /\ UNION {RangeOf(segs[m]) : m \in todo} = {}
    BY SMT, <2>2 DEF RangeOf
  <2>4. \A n \in DOMAIN segs : n <= markSeg => RangeOf(segs[n]) \subseteq got \cup skipped
    BY <2>2, <2>3 DEF Inv, Accounted
  <2>5. \A n \in DOMAIN segs : n <= markSeg \/ n > markSeg
    BY SMT DEF Inv, TypeOK, None
  <2>6. Left' \subseteq Beyond
    BY <2>1, <2>2, <2>4, <2>5 DEF Left, Beyond, OnFile
  <2>7. /\ Cardinality(Beyond) \in Nat /\ Cardinality(Left') \in Nat
        /\ Cardinality(Left') <= Cardinality(Beyond)
    <3>1. Beyond \in SUBSET Hint /\ Left' \in SUBSET Beyond
      BY <2>6 DEF Beyond
    <3>. QED  BY <3>1, HintSets
  <2>8. /\ Cardinality(Beyond) <= count - markCount
        /\ count \in Nat /\ markCount \in Nat
    BY <2>2 DEF Counted, Inv, TypeOK
  <2>9. Cardinality(Left') <= count'
    BY SMT, <2>2, <2>7, <2>8
  <2>. QED  BY <2>2, <2>9 DEF Counted, PendingCovers, Left
<1>7. CASE Restart
  <2>1. PICK f : segs' = f /\ f \in IF writer THEN Torn(counter) ELSE {segs}
    BY <1>7 DEF Restart
  <2>2. /\ DOMAIN f = DOMAIN segs
        /\ \A n \in DOMAIN f : f[n] \in Seq(Hint) /\ Len(f[n]) <= SegmentSize
    <3>1. CASE writer
      BY <2>1, <3>1, TornFiles DEF Inv, TypeOK
    <3>2. CASE ~writer
      BY <2>1, <3>2 DEF Inv, TypeOK
    <3>. QED  BY <3>1, <3>2
  <2>3. count' = Cardinality(Records(f)) /\ pc' = "idle"
    BY <1>7, <2>1 DEF Restart
  <2>4. Left' \in SUBSET Hint /\ \A h \in Left' : \E n \in DOMAIN f : h \in RangeOf(f[n])
    BY <2>1 DEF Left, OnFile
  <2>5. Cardinality(Left') <= count'
    BY <2>2, <2>3, <2>4, RecordsCover
  <2>. QED  BY <2>3, <2>5 DEF Counted, PendingCovers, Left
<1>. QED  BY <1>1, <1>2, <1>3, <1>4, <1>5, <1>6, <1>7 DEF Next

------------------------------------------------------------------------------
\* The theorems

\* The store keeps its types: no segment outgrows its size and the open segment
\* exists (append, store, drain, cleanup, HintStore::new).
THEOREM StoreTyped == Spec => []TypeOK
<1>1. Inv => TypeOK
  BY DEF Inv
<1>. QED  BY <1>1, InvInit, InvInductive, PTL DEF Spec

\* A hint is passed over only where a segment cannot be opened.
NothingSkipped == "io" \notin Env => skipped = {}

\* Before any restart or failed sync every accepted hint has reached the peer,
\* was in a segment that could not be opened, or is on file, whatever stores,
\* failed deliveries and cleanups interleave (DrainMark); and where no segment is
\* unreadable none is skipped, so that each is with the peer or on file.
THEOREM KeptUnlessUnreadable == Spec => [](AcceptedIsKept /\ NothingSkipped)
<1>1. Inv => AcceptedIsKept
  BY DEF Inv
<1>2. Init => NothingSkipped
  BY DEF Init, NothingSkipped
<1>3. NothingSkipped /\ [Next]_vars => NothingSkipped'
  <2>. SUFFICES ASSUME "io" \notin Env, skipped = {}, [Next]_vars
                PROVE  skipped' = {}
    BY DEF NothingSkipped
  <2>. QED
    BY DEF Next, vars, hist, Accept, StoreAppend, StoreRollover, SyncFails, Drain, OpenSegment,
           SkipSegment, Send, SendFails, Cleanup, Restart, PeerDown, PeerUp, Fault
<1>. QED  BY <1>1, <1>2, <1>3, InvInit, InvInductive, PTL DEF Spec

\* Before any restart or failed sync the peer gets the hints in the order in
\* which they were accepted, over segments, repeated deliveries and stores that
\* interleave with them (drain: "in FIFO order"); only hints of a segment that
\* could not be opened are passed over.
THEOREM DeliversInOrder == Spec => []DeliveredInOrder
<1>1. Order => DeliveredInOrder
  BY DEF Order
<1>. QED  BY <1>1, InvInit, InvInductive, OrderInit, OrderInductive, PTL DEF Spec

\* The pending count never falls below the hints that are on file and not with
\* the peer, over stores during a delivery, cleanups that cannot remove a file,
\* failed syncs and restarts: the sweep never takes a peer with hints for one
\* without (peers_with_pending_hints).
THEOREM CountCoversPending == Spec => []PendingCovers
<1>1. Counted => PendingCovers
  BY DEF Counted
<1>. QED
  BY <1>1, InvInit, InvInductive, CountedInit, CountedInductive, PTL DEF Spec
==============================================================================
