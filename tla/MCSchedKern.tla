---------------------------- MODULE MCSchedKern ----------------------------
(* SchedKern for TLC: register contents and screen cells as strings.       *)
EXTENDS SchedKern

MCInitContext == [p \in Pids |-> "ctx"]
MCContext     == {"ctx"}
MCTwoContexts == {"ctx", "other"}

(* Processes that make only the call that matters to the algorithm: the    *)
(* other attributes of a process are not looked at.  Processes 1 and 2     *)
(* change their share, the others keep the 1 they begin with.              *)
RelevantCalls ==
  /\ p_priority' # p_priority => scheduling_algorithm = 41
  /\ p_lottery_amt' # p_lottery_amt => scheduling_algorithm = 7
  /\ p_share_amt' # p_share_amt => scheduling_algorithm = 42 /\ current \in {1, 2}

MCNext        == Next /\ RelevantCalls
MCFairDrawSpec == Init /\ [][MCNext]_vars /\ Fairness /\ DrawFairness
=============================================================================
