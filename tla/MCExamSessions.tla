---------------------------- MODULE MCExamSessions ----------------------------
(* A small instance of ExamSessions for TLC.                                   *)
EXTENDS ExamSessions

\* Five servers in a row, the last with the file; a circle without it; a second server
\* without it.
SomeLayouts ==
  {[next |-> <<2, 3, 4, 5, 0>>, holds |-> {5}],
   [next |-> <<2, 3, 1, 0, 0>>, holds |-> {}],
   [next |-> <<2, 0, 0, 0, 0>>, holds |-> {3}]}

\* Three clients where one can wait for two processes that die: with the client of
\* 2014-06-23 each does, and those of exams/sample with a client that is killed.
SomeRuns   == [x \in Programs |-> IF x \in {"encode", "get"} THEN 3 ELSE 2]
SomeKilled == [x \in Programs |-> IF x = "get" THEN 2 ELSE 1]

TwoChunks == <<"a", "b">>
===============================================================================
