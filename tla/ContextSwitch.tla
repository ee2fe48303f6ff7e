--------------------------- MODULE ContextSwitch ---------------------------
(***************************************************************************)
(* What a switch between processes promises: each process owns a context,  *)
(* its registers, and finds it again as it left it, however often the      *)
(* kernel has run in between.  Only the process that runs changes its      *)
(* context.  When the machine stops, the context of the process that made  *)
(* it stop may be lost, the others are not.                                *)
(***************************************************************************)
CONSTANTS Procs, Contexts

VARIABLES
  running,   \* the process that runs, or that entered the kernel last
  context,   \* the registers of every process, wherever they are kept
  mode       \* "user", "kernel" or "stopped"

vars == <<running, context, mode>>

OthersKept == context' = [context EXCEPT ![running] = context'[running]]

Init ==
  /\ running \in Procs
  /\ context \in [Procs -> Contexts]
  /\ mode \in {"user", "kernel"}

(* An instruction of the process; it may be one that enters the kernel.    *)
Compute ==
  /\ mode = "user"
  /\ mode' \in {"user", "kernel"}
  /\ OthersKept
  /\ UNCHANGED running

(* The kernel, and the code that leaves it, touch no context.              *)
Switch(p) ==
  /\ mode = "kernel"
  /\ mode' \in {"user", "kernel"}
  /\ running' = p
  /\ UNCHANGED context

Stop ==
  /\ mode' = "stopped"
  /\ OthersKept
  /\ UNCHANGED running

Next == Compute \/ (\E p \in Procs : Switch(p)) \/ Stop

Spec == Init /\ [][Next]_vars
=============================================================================
