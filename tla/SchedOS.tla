------------------------------ MODULE SchedOS ------------------------------
(***************************************************************************)
(* The whole system: the kernel of SchedKern under the programs schedos-1  *)
(* to schedos-4, which are one start() function (schedos-1.c) compiled     *)
(* with different PRINTCHARs.                                              *)
(*                                                                         *)
(* A program is modelled by its registers and its private stack, which the *)
(* kernel saves and restores as one value: where it is (at), the loop      *)
(* counter i, and, inside "*cursorpos++ = PRINTCHAR", the cell it took     *)
(* (cell) and whether the store to that cell has been done (stored).       *)
(* Steps on private state are merged with the step that follows them.      *)
(***************************************************************************)
EXTENDS Console, FiniteSets

CONSTANTS
  NPROCS, Algorithms, ClockChoices, Word, VideoCells, Blank, KernelText,
  RUNCOUNT,     \* characters a program prints (320)
  Builds,       \* values of EXERCISE_8
  SetupCalls,   \* the calls at the head of start() a program may be built
                \* with, for each algorithm
  SetupArg      \* its argument in each program

Pids  == 0 .. NPROCS - 1
Procs == 1 .. NPROCS - 1
Cells == 0 .. VideoCells - 1

(* Every character has a cell on the screen: 4 * 320 characters, 80 * 25   *)
(* cells.  A blank is no PRINTCHAR.                                        *)
ASSUME OSAssumption ==
  /\ NPROCS \in Nat /\ NPROCS >= 2
  /\ Algorithms \subseteq Nat /\ ClockChoices \subseteq BOOLEAN
  /\ Word \in Nat /\ Word >= 2
  /\ VideoCells \in Nat /\ VideoCells >= CONSOLE_END
  /\ RUNCOUNT \in Nat /\ Builds \subseteq BOOLEAN
  /\ RUNCOUNT * (NPROCS - 1) <= CONSOLE_END
  /\ Blank \notin Procs
  /\ SetupCalls \in [Algorithms ->
                       SUBSET {"none", "priority", "share", "lottery"}]
  /\ SetupArg \in [Procs -> 0 .. Word - 1]

Places == {"setup", "loop", "load", "bump", "unlock", "yield", "exited"}

AppContext == [at : Places, i : 0 .. RUNCOUNT, cell : 0 .. VideoCells,
               stored : BOOLEAN]

(* What special_registers_init() and program_loader() leave in p_registers: *)
(* the entry point of the program.                                         *)
AppStart ==
  [p \in Pids |-> [at |-> "setup", i |-> 0, cell |-> 0, stored |-> FALSE]]

VARIABLES
  EXERCISE_8,        \* is __EXERCISE_8__ defined: sys_print, or the lock?
  cursorposLock,     \* 0: the lock is available
  scheduling_algorithm, allow_clock_interrupt, current, cpu,
  p_state, p_priority, p_share_amt, p_share_left, p_lottery_amt,
  p_exit_status, p_registers, cursorpos, console,
  kpc, pid, i, firstPid, firstPriority

SetupArgs == {SetupArg[p] : p \in Procs}

Kern == INSTANCE SchedKern WITH
  Context <- AppContext, InitContext <- AppStart, Chars <- Procs,
  Priorities <- SetupArgs, Shares <- SetupArgs, Tickets <- SetupArgs,
  Statuses <- {0}, Unhandled <- {}

apps == <<EXERCISE_8, cursorposLock>>
vars == <<apps, Kern!vars>>

Init == Kern!Init /\ EXERCISE_8 \in Builds /\ cursorposLock = 0

-----------------------------------------------------------------------------
(* start() of schedos-1.c *)

Go(place) == [cpu EXCEPT !.at = place]
(* A process goes on after the trap. *)
Mutant_AtAnyTime(place) == cpu.at = place

At(place) == Kern!UserMode /\ cpu.at = place

(* An instruction that enters no kernel code: the new registers are regs.  *)
Instruction(regs) ==
  /\ cpu' = regs
  /\ UNCHANGED <<scheduling_algorithm, allow_clock_interrupt, current,
                 p_state, p_priority, p_share_amt, p_share_left,
                 p_lottery_amt, p_exit_status, p_registers, kpc, pid, i,
                 firstPid, firstPriority>>

(* The call at the head of start(), commented out or not.                  *)
Setup ==
  LET n     == SetupArg[current]
      calls == SetupCalls[scheduling_algorithm]
  IN
  /\ At("setup")
  /\ \/ "priority" \in calls /\ Kern!SysPriority(Go("loop"), n)
     \/ "share"    \in calls /\ Kern!SysShare(Go("loop"), n)
     \/ "lottery"  \in calls /\ Kern!SysLottery(Go("loop"), n)
     \/ "none" \in calls /\ Instruction(Go("loop"))
                         /\ UNCHANGED <<cursorpos, console>>
  /\ UNCHANGED apps

(* Exercise 8: the kernel prints. *)
PrintChar ==
  /\ EXERCISE_8
  /\ At("loop") /\ cpu.i < RUNCOUNT
  /\ Kern!SysPrint([Go("yield") EXCEPT !.stored = TRUE], current)
  /\ UNCHANGED apps

(* The result of the swap is not looked at. *)
Mutant_SwapOnce ==
  /\ ~EXERCISE_8
  /\ At("loop") /\ cpu.i < RUNCOUNT
  /\ cursorposLock' = 1
  /\ Instruction(Go("load"))
  /\ UNCHANGED <<EXERCISE_8, cursorpos, console>>

(* fetch_and_add in the place of atomic_swap. *)
Mutant_FetchAndAdd ==
  /\ ~EXERCISE_8
  /\ At("loop") /\ cpu.i < RUNCOUNT
  /\ cursorposLock' = cursorposLock + 1
  /\ Instruction(IF cursorposLock = 0 THEN Go("load") ELSE cpu)
  /\ UNCHANGED <<EXERCISE_8, cursorpos, console>>

(* Exercise 6: while (atomic_swap(&cursorposLock, 1)); a swap that returns *)
(* 1 changes nothing.                                                      *)
Acquire ==
  /\ ~EXERCISE_8
  /\ At("loop") /\ cpu.i < RUNCOUNT
  /\ cursorposLock' = 1
  /\ Instruction(IF cursorposLock = 0 THEN Go("load") ELSE cpu)
  /\ UNCHANGED <<EXERCISE_8, cursorpos, console>>

(* cursorpos is volatile: one load, then one store of its increment.       *)
Load ==
  /\ At("load")
  /\ Instruction([Go("bump") EXCEPT !.cell = cursorpos])
  /\ UNCHANGED <<apps, cursorpos, console>>

Bump ==
  /\ At("bump")
  /\ cursorpos' = cpu.cell + 1
  /\ Instruction(Go("unlock"))
  /\ UNCHANGED <<apps, console>>

(* The store of the character is not volatile, and atomic_swap() declares  *)
(* no memory clobber: a compiler may put it anywhere between the load of   *)
(* cursorpos and the int instruction of sys_yield(), which does.           *)
Store ==
  /\ At("bump") \/ At("unlock") \/ At("yield")
  /\ ~cpu.stored
  /\ console' = [console EXCEPT ![cpu.cell] = current]
  /\ Instruction([cpu EXCEPT !.stored = TRUE])
  /\ UNCHANGED <<apps, cursorpos>>

(* The swap that should release the lock stores 1. *)
Mutant_KeepsLock ==
  /\ At("unlock")
  /\ cursorposLock' = 1
  /\ Instruction(Go("yield"))
  /\ UNCHANGED <<EXERCISE_8, cursorpos, console>>

Release ==
  /\ At("unlock")
  /\ cursorposLock' = 0
  /\ Instruction(Go("yield"))
  /\ UNCHANGED <<EXERCISE_8, cursorpos, console>>

Yield ==
  /\ At("yield") /\ cpu.stored
  /\ Kern!SysYield([at |-> "loop", i |-> cpu.i + 1, cell |-> 0,
                    stored |-> FALSE])
  /\ UNCHANGED apps

(* "while (1) sys_yield();", as in the comment before sys_exit(0). *)
Mutant_YieldForever ==
  /\ At("loop") /\ cpu.i = RUNCOUNT
  /\ Kern!SysYield(cpu)
  /\ UNCHANGED apps

Exit ==
  /\ At("loop") /\ cpu.i = RUNCOUNT
  /\ Kern!SysExit(Go("exited"), 0)
  /\ UNCHANGED apps

AppStep(p) ==
  /\ current = p
  /\ Setup \/ PrintChar \/ Acquire \/ Load \/ Bump \/ Store \/ Release
           \/ Yield \/ Exit

Tick       == Kern!Tick /\ UNCHANGED apps
KernelStep == Kern!KernelStep /\ UNCHANGED apps

Next == (\E p \in Procs : AppStep(p)) \/ Tick \/ KernelStep

Spec == Init /\ [][Next]_vars

(* The CPU executes instructions.  A time quantum (1 ms) is longer than an *)
(* instruction, so a process that is run again and again gets on, even if  *)
(* a tick could come before any one of its instructions.                   *)
Fairness ==
  WF_vars(KernelStep) /\ WF_vars(Tick) /\ \A p \in Procs : SF_vars(AppStep(p))

FairSpec == Spec /\ Fairness

(* For algorithm 7: the draws do not pass over a ticket holder for ever.   *)
Drawn(p) == KernelStep /\ kpc = "lottery" /\ kpc' = "user" /\ current' = p
FairDrawSpec == FairSpec /\ \A p \in Procs : SF_vars(Drawn(p))

-----------------------------------------------------------------------------
(* Properties *)

(* The registers of p, wherever they are.  A kernel that stops, because no *)
(* process has a ticket or because it does not know the algorithm, spoils  *)
(* them or the screen.                                                     *)
Regs(p) == IF Kern!UserMode /\ current = p THEN cpu ELSE p_registers[p]

(* The shared lock is a bit, and the kernel keeps its types with the       *)
(* programs' registers as contexts.                                        *)
TypeOK == cursorposLock \in {0, 1} /\ Kern!TypeOK

(* No character is lost or printed twice: the screen has as many of p's    *)
(* characters as p's loop has printed, however p was interrupted.          *)
Printed(p) == Regs(p).i + (IF Regs(p).stored THEN 1 ELSE 0)
NothingLost ==
  kpc # "halted" =>
    \A p \in Procs : Cardinality({c \in Cells : console[c] = p}) = Printed(p)

(* Neither sys_print nor the programs wrap the cursor at the end of the    *)
(* screen, and both write where it points: it does not leave the screen,   *)
(* as long as the characters of all programs fit on it.                    *)
StaysOnScreen ==
  /\ cursorpos <= CONSOLE_END
  /\ \A c \in Cells : c >= CONSOLE_END => console[c] = Blank

(* Between a swap that returned 0 and the swap that writes 0 back, the     *)
(* cursor belongs to one process.                                          *)
Holds(p) == Regs(p).at \in {"load", "bump", "unlock"}
MutualExclusion ==
  kpc # "halted" => \A p, q \in Procs : Holds(p) /\ Holds(q) => p = q

(* Every program ends, whatever the algorithm, so nobody waits for ever    *)
(* for the lock, the CPU or its share of it.                               *)
AllExit == <>(\A p \in Procs : p_state[p] = "ZOMBIE")

(* Algorithm 0 without the clock: "Hence the output of 123412341234..."    *)
(* (answers.txt, exercise 1).                                              *)
CooperativeOutput ==
  scheduling_algorithm = 0 /\ ~allow_clock_interrupt =>
    \A c \in 0 .. cursorpos - 1 : console[c] = (c % (NPROCS - 1)) + 1

(* Algorithm 2: schedos-p has printed its last character, and nobody but   *)
(* schedos-1 to schedos-p has printed, after p * RUNCOUNT characters (the  *)
(* turnaround times of answers.txt, exercise 3), with the clock or without.*)
StrictOutput ==
  scheduling_algorithm = 2 =>
    \A c \in 0 .. cursorpos - 1 : console[c] = (c \div RUNCOUNT) + 1

(* Algorithm 41: although all programs start with priority 0, and set      *)
(* their own one after the other, they print in the order of priorities.   *)
PriorityOutput ==
  scheduling_algorithm = 41 =>
    \A c, d \in 0 .. cursorpos - 1 :
      c < d => p_priority[console[c]] <= p_priority[console[d]]

(* With the programs on top, the kernel behaves as SchedKern says.         *)
ImplementsKern == Kern!Spec
=============================================================================
