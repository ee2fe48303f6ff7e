----------------------------- MODULE MCSchedOS -----------------------------
(* SchedOS for TLC: the arguments of the calls at the head of start(), and *)
(* the calls themselves: none, or the one of the exercise in which the     *)
(* algorithm is written.                                                   *)
EXTENDS SchedOS

MCNoSetup == [p \in Procs |-> 0]
MCOneTwo  == [p \in Procs |-> IF p = 1 THEN 1 ELSE 2]
MCTwoOne  == [p \in Procs |-> IF p = 1 THEN 2 ELSE 1]

MCNoCall == [a \in Algorithms |-> {"none"}]
MCCallOfExercise ==
  [a \in Algorithms |-> CASE a = 42 -> {"share"}
                         [] a = 7  -> {"lottery"}
                         [] OTHER  -> {"priority"}]
MCCallOrNot == [a \in Algorithms |-> MCCallOfExercise[a] \cup {"none"}]
=============================================================================
