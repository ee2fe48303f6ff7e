---------------------------- MODULE SchedPolicy ----------------------------
(***************************************************************************)
(* What schedule() promises, without its loops: "it picks a runnable       *)
(* process, then context-switches to that process", the process being the  *)
(* one the algorithm in force prefers.  SchedKern implements this.         *)
(***************************************************************************)
EXTENDS Integers

CONSTANTS NPROCS, Algorithms, Priorities, Shares

Procs == 1 .. NPROCS - 1

VARIABLES
  algorithm,
  phase,      \* "user", "kernel", or "scan": looking beyond the caller
  current,    \* the process that runs, or ran last
  runnable,   \* the processes that have not exited
  priority,   \* a smaller number is more urgent
  share,      \* time slices of a process in a round
  used        \* the ones it has had in this round

vars == <<algorithm, phase, current, runnable, priority, share, used>>

Init ==
  /\ algorithm \in Algorithms
  /\ phase = "user"
  /\ current = 1
  /\ runnable = Procs
  /\ priority = [p \in Procs |-> 0]
  /\ share = [p \in Procs |-> 1]
  /\ used = [p \in Procs |-> 0]

(* A trap changes at most the descriptor of the process that runs.         *)
Enter == phase = "user" /\ phase' = "kernel" /\ UNCHANGED <<algorithm, current>>

Call == Enter /\ UNCHANGED <<runnable, priority, share, used>>

Exit ==
  /\ Enter
  /\ runnable' = runnable \ {current}
  /\ UNCHANGED <<priority, share, used>>

SetPriority(n) ==
  /\ Enter
  /\ priority' = [priority EXCEPT ![current] = n]
  /\ UNCHANGED <<runnable, share, used>>

SetShare(n) ==
  /\ Enter
  /\ share' = [share EXCEPT ![current] = n]
  /\ used' = [used EXCEPT ![current] = 0]
  /\ UNCHANGED <<runnable, priority>>

(* How far p is ahead of the caller, going round: the caller comes last.   *)
Ahead(p) == IF p > current THEN p - current ELSE p - current + NPROCS

InBudget == {p \in runnable : used[p] < share[p]}

Chosen(p) ==
  \/ algorithm = 0  /\ \A q \in runnable : Ahead(p) <= Ahead(q)
  \/ algorithm = 2  /\ \A q \in runnable : p <= q
  \/ algorithm = 41 /\ \A q \in runnable : priority[p] <= priority[q]
  \/ /\ algorithm = 42
     /\ p \in InBudget
     /\ IF phase = "scan" THEN \A q \in InBudget : share[q] <= share[p]
                          ELSE p = current
  \/ algorithm = 7

Dispatch(p) ==
  /\ phase # "user"
  /\ p \in runnable
  /\ Chosen(p)
  /\ phase' = "user"
  /\ current' = p
  /\ used' = [used EXCEPT ![p] = IF algorithm = 42 THEN @ + 1 ELSE @]
  /\ UNCHANGED <<algorithm, runnable, priority, share>>

(* Shares: the caller's are used up, so any process may be next.           *)
Scan ==
  /\ algorithm = 42
  /\ phase = "kernel"
  /\ current \notin InBudget
  /\ phase' = "scan"
  /\ UNCHANGED <<algorithm, current, runnable, priority, share, used>>

(* A round ends only when no runnable process has any of its share left.   *)
NewRound ==
  /\ phase = "scan"
  /\ InBudget = {}
  /\ used' = [p \in Procs |-> 0]
  /\ UNCHANGED <<algorithm, phase, current, runnable, priority, share>>

DispatchAny == \E p \in Procs : Dispatch(p)

Next ==
  \/ Call
  \/ Exit
  \/ \E n \in Priorities : SetPriority(n)
  \/ \E n \in Shares : SetShare(n)
  \/ DispatchAny
  \/ Scan
  \/ NewRound

Spec == Init /\ [][Next]_vars

(* As long as there is a process to choose, schedule() finds it.           *)
FairSpec == Spec /\ WF_vars(DispatchAny)
=============================================================================
