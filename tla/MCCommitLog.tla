---------------------------- MODULE MCCommitLog ----------------------------
(* Three clients, two tables, segments of two entries.  The last setup has two *)
(* segments and one flush left and no faults, so that three clients of several *)
(* mutations each fit: a rotation, a flush and a delayed writer meet in it.    *)
EXTENDS CommitLog

Setup(m, k) == [mode |-> m, kind |-> k, first |-> 1, flushes |-> 0, faults |-> 0]

MCSetups == {Setup("batch", <<"write", "write", "write">>),
             [Setup("group", <<"write", "write", "write">>) EXCEPT !.faults = MaxFaults - 1],
             [Setup("periodic", <<"write", "batch", "none">>) EXCEPT !.faults = MaxFaults - 1],
             Setup("group", <<"write", "record", "none">>),
             [Setup("batch", <<"batch", "batch", "record">>) EXCEPT
                !.first = MaxSegment - 1, !.flushes = MaxFlushes - 1, !.faults = MaxFaults]}
============================================================================
