----------------------------- MODULE SchedKern -----------------------------
(***************************************************************************)
(* The SchedOS kernel (schedos-kern.c, with the parts of schedos-x86.c and *)
(* schedos-int.S that enter and leave it), under processes that may make   *)
(* any system call at any time.                                            *)
(*                                                                         *)
(* There is one CPU.  It runs a process (kpc = "user") or the kernel, and  *)
(* the kernel is never interrupted: every gate is an interrupt gate, so    *)
(* the interrupt flag is clear from the trap to the iret.  A trap saves    *)
(* the registers, does the work of its case in interrupt(), and calls      *)
(* schedule(), which does not return: it leaves the kernel through run()   *)
(* or it loops.  The loops of schedule() are modelled iteration by         *)
(* iteration, because whether they end is a question about this code.      *)
(* Locals of schedule() are dead in user mode and are 0 there.             *)
(*                                                                         *)
(* A definition named Mutant_... is a plausible bug in the code of the     *)
(* definition that follows it.  Nothing uses it: it takes the place of     *)
(* that definition to show that a property would notice.                   *)
(***************************************************************************)
EXTENDS Console, FiniteSets, Functions

CONSTANTS
  NPROCS,        \* entries of proc_array (5); entry 0 is never a process
  Algorithms,    \* values start() may give scheduling_algorithm
  ClockChoices,  \* values start() may give interrupt_controller_init()
  Word,          \* modulus of unsigned arithmetic (2^32)
  Priorities,    \* arguments of sys_priority
  Shares,        \* arguments of sys_share
  Tickets,       \* arguments of sys_lottery
  Statuses,      \* arguments of sys_exit
  Chars,         \* arguments of sys_print: 16-bit screen cells
  Unhandled,     \* interrupt numbers without a case in interrupt() that occur
  Context,       \* register contents of a process
  InitContext,   \* the registers start() and program_loader() prepare
  Blank,         \* the cell console_clear() writes
  KernelText,    \* a cell written by console_printf() in the kernel
  VideoCells     \* cells from 0xB8000 to the end of video memory (16384)

Pids  == 0 .. NPROCS - 1
Procs == 1 .. NPROCS - 1
Cells == 0 .. VideoCells - 1

ASSUME KernAssumption ==
  /\ NPROCS \in Nat /\ NPROCS >= 2
  /\ Algorithms \subseteq Nat
  /\ ClockChoices \subseteq BOOLEAN
  /\ Word \in Nat /\ Word >= 2
  /\ Priorities \cup Shares \cup Tickets \subseteq 0 .. Word - 1
  /\ InitContext \in [Pids -> Context]
  /\ VideoCells \in Nat /\ VideoCells >= CONSOLE_END

VARIABLES
  scheduling_algorithm,
  allow_clock_interrupt,  \* what the interrupt controller was told
  current,          \* pid of the process run() last switched to
  cpu,              \* the registers of the CPU in user mode
  p_state, p_priority, p_share_amt, p_share_left, p_lottery_amt,
  p_exit_status, p_registers,      \* the fields of proc_array
  cursorpos,        \* the shared cursor, as a cell index
  console,          \* video memory
  kpc,              \* "user", a loop of schedule(), or "halted"
  pid, i, firstPid, firstPriority  \* locals of schedule()

config == <<scheduling_algorithm, allow_clock_interrupt>>
locals == <<pid, i, firstPid, firstPriority>>
screen == <<cursorpos, console>>
attrs  == <<p_priority, p_share_amt, p_share_left, p_lottery_amt>>
table  == <<p_state, p_exit_status, p_registers, attrs>>
vars   == <<config, current, cpu, table, screen, kpc, locals>>

UserMode == kpc = "user"

(* Any entry in use may be run. *)
Mutant_NotEmpty(p) == p_state[p] # "EMPTY"

Runnable(p) == p_state[p] = "RUNNABLE"

(* Off by one: the last entry is never reached. *)
Mutant_SkipsLast(p) == (p + 1) % (NPROCS - 1)

NextPid(p) == (p + 1) % NPROCS

-----------------------------------------------------------------------------
(* start(): the descriptors are cleared and set up, every process gets one *)
(* share and one ticket, and process 1 is run.                             *)
Init ==
  /\ scheduling_algorithm \in Algorithms
  /\ allow_clock_interrupt \in ClockChoices
  /\ current = 1
  /\ cpu = InitContext[1]
  /\ p_state = [p \in Pids |-> IF p = 0 THEN "EMPTY" ELSE "RUNNABLE"]
  /\ p_priority = [p \in Pids |-> 0]
  /\ p_share_amt = [p \in Pids |-> IF p = 0 THEN 0 ELSE 1]
  /\ p_share_left = p_share_amt
  /\ p_lottery_amt = p_share_amt
  /\ p_exit_status = [p \in Pids |-> 0]
  /\ p_registers = InitContext
  /\ cursorpos = 0
  /\ console = [c \in Cells |-> Blank]
  /\ kpc = "user"
  /\ pid = 0 /\ i = 0 /\ firstPid = 0 /\ firstPriority = 0

-----------------------------------------------------------------------------
(* interrupt() *)

(* Entering the kernel from user mode: the handler stub has pushed reg,    *)
(* and interrupt() stores it in the current descriptor.                    *)
Trap(reg) ==
  /\ UserMode
  /\ p_registers' = [p_registers EXCEPT ![current] = reg]
  /\ UNCHANGED <<config, current, cpu>>

(* The search of algorithm 2 starts behind the caller. *)
Mutant_StrictFromNext ==
  /\ kpc' = CASE scheduling_algorithm = 0  -> "round_robin"
              [] scheduling_algorithm = 2  -> "strict"
              [] scheduling_algorithm = 41 -> "prio_do"
              [] scheduling_algorithm = 42 -> "share"
              [] scheduling_algorithm = 7  -> "lottery"
              [] OTHER                     -> "unknown"
  /\ pid' = IF scheduling_algorithm = 2 THEN NextPid(current) ELSE current
  /\ UNCHANGED <<i, firstPid, firstPriority>>

(* The call of schedule() that ends a case: select the loop to run.        *)
CallSchedule ==
  /\ kpc' = CASE scheduling_algorithm = 0  -> "round_robin"
              [] scheduling_algorithm = 2  -> "strict"
              [] scheduling_algorithm = 41 -> "prio_do"
              [] scheduling_algorithm = 42 -> "share"
              [] scheduling_algorithm = 7  -> "lottery"
              [] OTHER                     -> "unknown"
  /\ pid' = IF scheduling_algorithm = 2 THEN 1 ELSE current
  /\ UNCHANGED <<i, firstPid, firstPriority>>

SysYield(reg) ==
  /\ Trap(reg)
  /\ CallSchedule
  /\ UNCHANGED <<p_state, p_exit_status, attrs, screen>>

SysExit(reg, status) ==
  /\ Trap(reg)
  /\ p_state' = [p_state EXCEPT ![current] = "ZOMBIE"]
  /\ p_exit_status' = [p_exit_status EXCEPT ![current] = status]
  /\ CallSchedule
  /\ UNCHANGED <<attrs, screen>>

SysPriority(reg, priority) ==
  /\ Trap(reg)
  /\ p_priority' = [p_priority EXCEPT ![current] = priority]
  /\ CallSchedule
  /\ UNCHANGED <<p_state, p_exit_status, p_share_amt, p_share_left,
                 p_lottery_amt, screen>>

(* The new amount is added to what is left. *)
Mutant_ShareAdds(reg, amt) ==
  /\ Trap(reg)
  /\ p_share_amt' = [p_share_amt EXCEPT ![current] = amt]
  /\ p_share_left' = [p_share_left EXCEPT ![current] = @ + amt]
  /\ CallSchedule
  /\ UNCHANGED <<p_state, p_exit_status, p_priority, p_lottery_amt, screen>>

(* The second assignment of the case is forgotten. *)
Mutant_ShareKeepsLeft(reg, amt) ==
  /\ Trap(reg)
  /\ p_share_amt' = [p_share_amt EXCEPT ![current] = amt]
  /\ CallSchedule
  /\ UNCHANGED <<p_state, p_exit_status, p_priority, p_share_left,
                 p_lottery_amt, screen>>

SysShare(reg, amt) ==
  /\ Trap(reg)
  /\ p_share_amt' = [p_share_amt EXCEPT ![current] = amt]
  /\ p_share_left' = [p_share_left EXCEPT ![current] = amt]
  /\ CallSchedule
  /\ UNCHANGED <<p_state, p_exit_status, p_priority, p_lottery_amt, screen>>

SysLottery(reg, amt) ==
  /\ Trap(reg)
  /\ p_lottery_amt' = [p_lottery_amt EXCEPT ![current] = amt]
  /\ CallSchedule
  /\ UNCHANGED <<p_state, p_exit_status, p_priority, p_share_amt,
                 p_share_left, screen>>

(* The increment comes first. *)
Mutant_PreIncrement(reg, c) ==
  /\ cursorpos < VideoCells
  /\ Trap(reg)
  /\ console' = [console EXCEPT ![cursorpos + 1] = c]
  /\ cursorpos' = cursorpos + 1
  /\ CallSchedule
  /\ UNCHANGED <<p_state, p_exit_status, attrs>>

(* No wrap-around at CONSOLE_END.  The guard is the model's bound: video   *)
(* memory is not left.                                                     *)
SysPrint(reg, c) ==
  /\ cursorpos < VideoCells
  /\ Trap(reg)
  /\ console' = [console EXCEPT ![cursorpos] = c]
  /\ cursorpos' = cursorpos + 1
  /\ CallSchedule
  /\ UNCHANGED <<p_state, p_exit_status, attrs>>

(* Delivered only in user mode, and only when the interrupt controller was *)
(* told to allow it.                                                       *)
ClockInterrupt(reg) ==
  /\ allow_clock_interrupt
  /\ Trap(reg)
  /\ CallSchedule
  /\ UNCHANGED <<p_state, p_exit_status, attrs, screen>>

(* The default case: system calls 54 to 57, whose handlers have no case,   *)
(* and processor exceptions, which default_int_handler delivers.           *)
UnhandledInterrupt(reg, n) ==
  /\ n \in Unhandled
  /\ Trap(reg)
  /\ kpc' = "halted"
  /\ UNCHANGED <<p_state, p_exit_status, attrs, screen, locals>>

-----------------------------------------------------------------------------
(* run() and schedule() *)

(* The registers are those of the process that entered the kernel. *)
Mutant_RunLoadsOld(p) ==
  /\ current' = p
  /\ cpu' = p_registers[current]
  /\ kpc' = "user"
  /\ pid' = 0 /\ i' = 0 /\ firstPid' = 0 /\ firstPriority' = 0

(* run(): switch to process p.  It does not return.                        *)
Run(p) ==
  /\ current' = p
  /\ cpu' = p_registers[p]
  /\ kpc' = "user"
  /\ pid' = 0 /\ i' = 0 /\ firstPid' = 0 /\ firstPriority' = 0

Stay(label) == kpc' = label /\ UNCHANGED <<current, cpu>>

(* Algorithm 0: the next runnable process, cyclically.                     *)
RoundRobin ==
  /\ kpc = "round_robin"
  /\ IF Runnable(NextPid(pid))
     THEN Run(NextPid(pid))
     ELSE /\ Stay("round_robin")
          /\ pid' = NextPid(pid)
          /\ UNCHANGED <<i, firstPid, firstPriority>>
  /\ UNCHANGED attrs

(* Algorithm 2: from process 1 upwards.                                    *)
Strict ==
  /\ kpc = "strict"
  /\ IF Runnable(pid)
     THEN Run(pid)
     ELSE /\ Stay("strict")
          /\ pid' = NextPid(pid)
          /\ UNCHANGED <<i, firstPid, firstPriority>>
  /\ UNCHANGED attrs

(* Algorithm 41: the head of the do loop.                                  *)
PriorityDo ==
  /\ kpc = "prio_do"
  /\ Stay("prio_for")
  /\ firstPid' = pid
  /\ firstPriority' = p_priority[pid]
  /\ i' = 0
  /\ UNCHANGED <<pid, attrs>>

(* An equal priority does not displace the caller. *)
Mutant_MoreUrgent(p) == Runnable(p) /\ p_priority[p] < firstPriority

(* A process that has exited is a candidate. *)
Mutant_UrgentZombie(p) == p_priority[p] <= firstPriority

(* The largest number is the most urgent. *)
Mutant_LeastUrgent(p) == Runnable(p) /\ p_priority[p] >= firstPriority

AtLeastAsUrgent(p) == Runnable(p) /\ p_priority[p] <= firstPriority

(* One iteration of its for loop.                                          *)
PriorityFor ==
  LET p == NextPid(pid) IN
  /\ kpc = "prio_for" /\ i < NPROCS - 1
  /\ Stay("prio_for")
  /\ pid' = p
  /\ i' = i + 1
  /\ IF AtLeastAsUrgent(p)
     THEN firstPid' = p /\ firstPriority' = p_priority[p]
     ELSE UNCHANGED <<firstPid, firstPriority>>
  /\ UNCHANGED attrs

(* The search is not repeated when it ends on the process that exited. *)
Mutant_NoTest ==
  /\ kpc = "prio_for" /\ i = NPROCS - 1
  /\ Run(firstPid)
  /\ UNCHANGED attrs

(* The test of the do loop.                                                *)
PriorityWhile ==
  /\ kpc = "prio_for" /\ i = NPROCS - 1
  /\ IF Runnable(firstPid)
     THEN Run(firstPid)
     ELSE Stay("prio_do") /\ UNCHANGED locals
  /\ UNCHANGED attrs

(* Algorithm 42. *)
HasShare(p) == Runnable(p) /\ p_share_left[p] > 0

(* p_share_left-- on an unsigned int.                                      *)
UnsignedDec(n) == IF n = 0 THEN Word - 1 ELSE n - 1

UseShare(p) ==
  /\ p_share_left' = [p_share_left EXCEPT ![p] = UnsignedDec(@)]
  /\ Run(p)
  /\ UNCHANGED <<p_priority, p_share_amt, p_lottery_amt>>

(* The caller goes on as long as it has share left.                        *)
ShareKeep ==
  /\ kpc = "share"
  /\ IF HasShare(pid)
     THEN UseShare(pid)
     ELSE /\ Stay("share_find")
          /\ i' = 0
          /\ UNCHANGED <<pid, firstPid, firstPriority, attrs>>

(* One iteration of the search for any process with share left, with the   *)
(* assignments that follow the break.                                      *)
ShareFind ==
  LET p == NextPid(pid) IN
  /\ kpc = "share_find" /\ i < NPROCS - 1
  /\ pid' = p
  /\ IF HasShare(p)
     THEN /\ Stay("share_max")
          /\ firstPid' = p
          /\ firstPriority' = p_share_amt[p]
          /\ i' = 0
     ELSE /\ Stay("share_find")
          /\ i' = i + 1
          /\ UNCHANGED <<firstPid, firstPriority>>
  /\ UNCHANGED attrs

(* Off by one: the last process gets no new share. *)
Mutant_ResetSkipsLast ==
  /\ kpc = "share_find" /\ i = NPROCS - 1
  /\ Stay("share_find")
  /\ p_share_left' = [p \in Pids |-> IF p \in {0, NPROCS - 1}
                                     THEN p_share_left[p] ELSE p_share_amt[p]]
  /\ i' = 0
  /\ UNCHANGED <<pid, firstPid, firstPriority, p_priority, p_share_amt,
                 p_lottery_amt>>

(* The search failed: every process gets its share again.                  *)
ShareReset ==
  /\ kpc = "share_find" /\ i = NPROCS - 1
  /\ Stay("share_find")
  /\ p_share_left' = [p \in Pids |-> IF p = 0 THEN p_share_left[p]
                                              ELSE p_share_amt[p]]
  /\ i' = 0
  /\ UNCHANGED <<pid, firstPid, firstPriority, p_priority, p_share_amt,
                 p_lottery_amt>>

(* The largest share wins even when it has been used up. *)
Mutant_MaxIgnoresLeft ==
  LET p == NextPid(pid) IN
  /\ kpc = "share_max" /\ i < NPROCS - 1
  /\ Stay("share_max")
  /\ pid' = p
  /\ i' = i + 1
  /\ IF Runnable(p) /\ p_share_amt[p] > firstPriority
     THEN firstPid' = p /\ firstPriority' = p_share_amt[p]
     ELSE UNCHANGED <<firstPid, firstPriority>>
  /\ UNCHANGED attrs

(* One iteration of the search for the largest share.                      *)
ShareMax ==
  LET p == NextPid(pid) IN
  /\ kpc = "share_max" /\ i < NPROCS - 1
  /\ Stay("share_max")
  /\ pid' = p
  /\ i' = i + 1
  /\ IF HasShare(p) /\ p_share_amt[p] > firstPriority
     THEN firstPid' = p /\ firstPriority' = p_share_amt[p]
     ELSE UNCHANGED <<firstPid, firstPriority>>
  /\ UNCHANGED attrs

ShareRun ==
  /\ kpc = "share_max" /\ i = NPROCS - 1
  /\ UseShare(firstPid)

(* Algorithm 7.  CumTickets[p] is proc_lottery[1] + ... + proc_lottery[p]. *)
CumTickets[p \in Pids] ==
  IF p = 0 THEN 0 ELSE (CumTickets[p - 1] + p_lottery_amt[p]) % Word

(* Only the tickets of runnable processes are in the draw. *)
Mutant_RunnableTotal ==
  SumFunctionOnSet(p_lottery_amt, {p \in Procs : Runnable(p)}) % Word

LotteryTotal == (CumTickets[NPROCS - 1] + p_lottery_amt[0]) % Word

(* "<=": a process wins with a ticket of the next one. *)
Mutant_TriedInclusive(n, p) == p = NPROCS - 1 \/ n <= CumTickets[p]

(* The table is indexed from 0. *)
Mutant_TriedShifted(n, p) == p = NPROCS - 1 \/ n < CumTickets[p - 1]

(* The chain of ifs stops at p for ticket n; the last process is tried     *)
(* whatever n is.                                                          *)
Tried(n, p) == p = NPROCS - 1 \/ n < CumTickets[p]
Wins(n, p) ==
  /\ Runnable(p) /\ Tried(n, p)
  /\ \A q \in 1 .. p - 1 : ~(Runnable(q) /\ Tried(n, q))

(* One iteration: the cycle counter draws any ticket; if nobody wins, the  *)
(* loop draws again.                                                       *)
Lottery ==
  /\ kpc = "lottery"
  /\ \E n \in 0 .. LotteryTotal - 1 :
       \/ \E p \in Procs : Wins(n, p) /\ Run(p)
       \/ /\ \A p \in Procs : ~Wins(n, p)
          /\ Stay("lottery") /\ UNCHANGED locals
  /\ UNCHANGED attrs

(* Dividing by a total of 0 raises an exception in the kernel, which       *)
(* enters interrupt() again: it overwrites the registers saved for the     *)
(* caller and ends in the default case.                                    *)
DivideError ==
  /\ kpc = "lottery"
  /\ LotteryTotal = 0
  /\ Stay("halted")
  /\ \E reg \in Context : p_registers' = [p_registers EXCEPT ![current] = reg]
  /\ UNCHANGED <<attrs, locals>>

(* Any other algorithm: print a line between two newlines and loop.        *)
UnknownAlgorithm ==
  LET next == EndOfRow(cursorpos) IN
  /\ kpc = "unknown"
  /\ Stay("halted")
  /\ console' = [c \in Cells |->
                   IF c \in RowCells(cursorpos) \cup RowCells(next)
                   THEN KernelText ELSE console[c]]
  /\ cursorpos' = EndOfRow(next)
  /\ UNCHANGED <<attrs, locals>>

(* while (1) with nothing in it. *)
Spin == kpc = "halted" /\ UNCHANGED vars

-----------------------------------------------------------------------------
(* An instruction of the process that runs: it works on the registers and  *)
(* on what the process shares with the kernel, the cursor and the screen.  *)
(* (Nothing stops a process from writing to any other memory; that the     *)
(* programs do not is an assumption of this model.)                        *)
UserInstruction ==
  /\ UserMode
  /\ cpu' \in Context
  /\ \/ UNCHANGED screen
     \/ cursorpos' \in 0 .. VideoCells /\ UNCHANGED console
     \/ /\ \E cell \in Cells, c \in Chars :
             console' = [console EXCEPT ![cell] = c]
        /\ UNCHANGED cursorpos
  /\ UNCHANGED <<config, current, table, kpc, locals>>

SystemCall(reg) ==
  \/ SysYield(reg)
  \/ \E status \in Statuses   : SysExit(reg, status)
  \/ \E n      \in Priorities : SysPriority(reg, n)
  \/ \E n      \in Shares     : SysShare(reg, n)
  \/ \E n      \in Tickets    : SysLottery(reg, n)
  \/ \E c      \in Chars      : SysPrint(reg, c)
  \/ \E n      \in Unhandled  : UnhandledInterrupt(reg, n)

(* The loops that pick a process leave everything else alone.              *)
PickStep ==
  /\ \/ RoundRobin \/ Strict
     \/ PriorityDo \/ PriorityFor \/ PriorityWhile
     \/ ShareKeep \/ ShareFind \/ ShareReset \/ ShareMax \/ ShareRun
     \/ Lottery
  /\ UNCHANGED <<config, p_state, p_exit_status, p_registers,
                 screen>>

KernelStep ==
  \/ PickStep
  \/ /\ DivideError
     /\ UNCHANGED <<config, p_state, p_exit_status, screen>>
  \/ /\ UnknownAlgorithm
     /\ UNCHANGED <<config, p_state, p_exit_status,
                    p_registers>>
  \/ Spin

UserTrap == \E reg \in Context : SystemCall(reg)
Tick     == ClockInterrupt(cpu)

Next == UserInstruction \/ UserTrap \/ Tick \/ KernelStep

Spec == Init /\ [][Next]_vars

(* The CPU goes on executing kernel code, and the timer goes on ticking;   *)
(* nothing is assumed of the processes.                                    *)
Fairness == WF_vars(KernelStep) /\ WF_vars(Tick)

FairSpec == Spec /\ Fairness

(* For algorithm 7, that a loop which draws from the cycle counter again   *)
(* and again does not miss the winning tickets for ever.                   *)
DrawFairness == WF_vars(PickStep /\ kpc = "lottery" /\ kpc' = "user")

FairDrawSpec == FairSpec /\ DrawFairness

-----------------------------------------------------------------------------
(* Properties *)

Labels == {"user", "round_robin", "strict", "prio_do", "prio_for", "share",
           "share_find", "share_max", "lottery", "unknown", "halted"}

(* The descriptors, the screen and the locals of schedule() keep their C   *)
(* types; unsigned fields stay below the word size.                        *)
TypeOK ==
  /\ scheduling_algorithm \in Algorithms
  /\ allow_clock_interrupt \in BOOLEAN
  /\ current \in Procs
  /\ cpu \in Context
  /\ p_state \in [Pids -> {"EMPTY", "RUNNABLE", "BLOCKED", "ZOMBIE"}]
  /\ p_priority \in [Pids -> 0 .. Word - 1]
  /\ p_share_amt \in [Pids -> 0 .. Word - 1]
  /\ p_share_left \in [Pids -> 0 .. Word - 1]
  /\ p_lottery_amt \in [Pids -> 0 .. Word - 1]
  /\ p_exit_status \in [Pids -> Statuses \cup {0}]
  /\ p_registers \in [Pids -> Context]
  /\ cursorpos \in 0 .. VideoCells
  /\ console \in [Cells -> Chars \cup {Blank, KernelText}]
  /\ kpc \in Labels
  /\ pid \in Pids
  /\ i \in 0 .. NPROCS - 1
  /\ firstPid \in Pids
  /\ firstPriority \in 0 .. Word - 1

(* Whatever schedule() went through, the process it returns to has not     *)
(* exited and is not the unused entry 0.                                   *)
RunsRunnable == UserMode => Runnable(current) /\ current # 0

(* sys_exit() is final: no later call, of any process, makes a zombie      *)
(* runnable again or changes the status it left.                           *)
ExitIsFinal ==
  [][\A p \in Procs : p_state[p] = "ZOMBIE" =>
       p_state'[p] = "ZOMBIE" /\ p_exit_status'[p] = p_exit_status[p]]_vars

(* p_share_left is an unsigned field that schedule() decrements in two     *)
(* places: it never wraps, and no process has more than its share.         *)
ShareWithinAmount == \A p \in Procs : p_share_left[p] <= p_share_amt[p]

(* The tickets of all processes, in mathematics.                           *)
AllTickets == SumFunctionOnSet(p_lottery_amt, Procs)

(* Once entered through a gate that has a case, the kernel stops for good  *)
(* only where the code says so: an unknown algorithm, or a division by     *)
(* zero when the tickets of all processes, those that exited included, add *)
(* up to 0 in an unsigned int.                                             *)
HaltsForAReason ==
  [][kpc \notin {"user", "halted"} /\ kpc' = "halted" =>
       \/ scheduling_algorithm \notin {0, 2, 41, 42, 7}
       \/ scheduling_algorithm = 7 /\ AllTickets % Word = 0]_vars

(* "If there are no runnable processes, it spins forever" (and only then): *)
(* when schedule() is called with a runnable process, one is run.          *)
PicksARunnable ==
  (kpc # "user" /\ \E p \in Procs : Runnable(p)) ~> UserMode

(* Round robin starves nobody, whatever the others call.                   *)
RoundRobinFair ==
  scheduling_algorithm = 0 =>
    \A p \in Procs : Runnable(p) ~> (UserMode /\ current = p)

(* Algorithm 41 alternates between the most urgent processes: one that     *)
(* stays among them runs again and again.                                  *)
MostUrgent(p) ==
  Runnable(p) /\ \A q \in Procs : Runnable(q) => p_priority[p] <= p_priority[q]
EqualPriorityFair ==
  scheduling_algorithm = 41 =>
    \A p \in Procs : <>[]MostUrgent(p) => []<>(UserMode /\ current = p)

(* Algorithm 42 runs every process that has a share in every round, once   *)
(* the processes stop resetting their share by calling sys_share.          *)
ShareFair ==
  scheduling_algorithm = 42
  /\ <>[][~\E reg \in Context, n \in Shares : SysShare(reg, n)]_vars =>
    \A p \in Procs :
      <>[](Runnable(p) /\ p_share_amt[p] > 0) => []<>(UserMode /\ current = p)

(* As long as nobody has exited and the total fits in a word, a process    *)
(* wins with exactly as many tickets as it holds.                          *)
WinningTickets(p) == {n \in 0 .. LotteryTotal - 1 : Wins(n, p)}
LotteryExact ==
  (\A p \in Procs : Runnable(p)) /\ AllTickets < Word =>
    \A p \in Procs : Cardinality(WinningTickets(p)) = p_lottery_amt[p]

(* "The greater the number, the more likely that the thread gets picked to *)
(* run" (answers.txt, exercise 7).                                         *)
LotteryMonotone ==
  kpc = "lottery" =>
    \A p, q \in {r \in Procs : Runnable(r)} :
      p_lottery_amt[p] > p_lottery_amt[q] =>
        Cardinality(WinningTickets(p)) > Cardinality(WinningTickets(q))

(* Whatever is called in between, by whom, and however schedule() goes     *)
(* about it, a process finds its registers as it left them.                *)
Contexts == INSTANCE ContextSwitch WITH
  Contexts <- Context,
  running  <- current,
  context  <- [p \in Procs |-> IF UserMode /\ p = current THEN cpu
                               ELSE p_registers[p]],
  mode     <- CASE kpc = "user"   -> "user"
                [] kpc = "halted" -> "stopped"
                [] OTHER          -> "kernel"

KeepsContexts == Contexts!Spec

(* The loops of schedule() implement the promise of SchedPolicy.           *)
Policy == INSTANCE SchedPolicy WITH
  algorithm <- scheduling_algorithm,
  phase     <- CASE kpc = "user" -> "user"
                 [] kpc \in {"share_find", "share_max"} -> "scan"
                 [] OTHER -> "kernel",
  runnable  <- {p \in Procs : Runnable(p)},
  priority  <- [p \in Procs |-> p_priority[p]],
  share     <- [p \in Procs |-> p_share_amt[p]],
  used      <- [p \in Procs |-> p_share_amt[p] - p_share_left[p]]

ImplementsPolicy     == Policy!Spec
ImplementsFairPolicy == Policy!FairSpec
=============================================================================
