-------------------------- MODULE SchedKernProofs --------------------------
(***************************************************************************)
(* Theorems about SchedKern, for every number of processes, every set of   *)
(* algorithms and every argument of every system call.                     *)
(***************************************************************************)
EXTENDS SchedKern, Foundations

(* The inductive invariant.  TypeOK alone is not inductive: that run() gets *)
(* a process, and not entry 0, rests on entry 0 never being runnable, and   *)
(* for algorithm 42 on the candidate of the second search still being one.  *)
EntryZeroEmpty == p_state[0] = "EMPTY"
Candidate      == kpc = "share_max" => HasShare(firstPid)
IInv == TypeOK /\ EntryZeroEmpty /\ Candidate /\ RunsRunnable

-----------------------------------------------------------------------------
(* Lemmas about the operators *)

(* The successor of an index of proc_array is an index of proc_array.      *)
LEMMA NextPidType == \A p \in Pids : NextPid(p) \in Pids
  BY KernAssumption DEF Pids, NextPid

(* p_share_left-- stays in an unsigned int, and is a decrement above 0.    *)
LEMMA UnsignedDecType ==
  \A n \in 0 .. Word - 1 :
    UnsignedDec(n) \in 0 .. Word - 1 /\ (n > 0 => UnsignedDec(n) = n - 1)
  BY KernAssumption DEF UnsignedDec

(* A newline leaves the cursor on the screen or on CONSOLE_END, and fills  *)
(* only cells of the screen.                                               *)
LEMMA EndOfRowBound ==
  \A c \in Nat : /\ EndOfRow(c) \in 0 .. CONSOLE_END
                 /\ RowCells(c) \subseteq 0 .. CONSOLE_END - 1
<1>. TAKE c \in Nat
<1>1. CONSOLE_END \in Nat /\ CONSOLE_END > 0
  BY ScreenAssumption DEF CONSOLE_END
<1>2. WrapCursor(c) \in Nat /\ WrapCursor(c) < CONSOLE_END
  BY <1>1 DEF WrapCursor
<1>3. EndOfRow(c) \in Nat /\ EndOfRow(c) <= CONSOLE_END
  BY <1>2, ScreenAssumption, NextRow DEF EndOfRow, CONSOLE_END
<1>. QED  BY <1>1, <1>2, <1>3 DEF RowCells

(* run() of a runnable process re-establishes the part of the invariant    *)
(* about the control state.                                                *)
LEMMA RunInv ==
  ASSUME TypeOK, EntryZeroEmpty, NEW p \in Pids, Runnable(p), Run(p),
         UNCHANGED <<p_state, p_registers>>
  PROVE  /\ current' \in Procs /\ cpu' \in Context /\ kpc' = "user"
         /\ pid' \in Pids /\ i' \in 0 .. NPROCS - 1 /\ firstPid' \in Pids
         /\ firstPriority' \in 0 .. Word - 1
         /\ EntryZeroEmpty' /\ Candidate' /\ RunsRunnable'
<1>1. p \in Procs
  BY DEF Runnable, EntryZeroEmpty, Pids, Procs
<1>2. 0 \in Pids /\ 0 \in 0 .. NPROCS - 1 /\ 0 \in 0 .. Word - 1
  BY KernAssumption DEF Pids
<1>3. p # 0
  BY <1>1 DEF Procs
<1> QED
  BY <1>1, <1>2, <1>3 DEF TypeOK, Run, Runnable, EntryZeroEmpty, Candidate,
     RunsRunnable, UserMode

-----------------------------------------------------------------------------
LEMMA InitInv == Init => IInv
<1> SUFFICES ASSUME Init PROVE IInv
  OBVIOUS
<1>1. 1 \in Procs /\ 0 \in Pids /\ 1 \in Pids /\ Procs \subseteq Pids
  BY KernAssumption DEF Procs, Pids
<1>2. cpu \in Context
  BY <1>1, KernAssumption DEF Init
<1>3. p_share_amt \in [Pids -> 0 .. Word - 1]
  BY KernAssumption DEF Init
<1>4. cursorpos \in 0 .. VideoCells
  BY KernAssumption DEF Init
<1>5. console \in [Cells -> Chars \cup {Blank, KernelText}]
  BY DEF Init
<1>6. 0 \in 0 .. Word - 1 /\ 0 \in 0 .. NPROCS - 1
  BY KernAssumption
<1>7. TypeOK
  BY <1>1, <1>2, <1>3, <1>4, <1>5, <1>6, KernAssumption
     DEF Init, TypeOK, Labels
<1>8. EntryZeroEmpty /\ Candidate /\ RunsRunnable
  BY <1>1 DEF Init, EntryZeroEmpty, Candidate, RunsRunnable, Runnable,
     UserMode
<1> QED
  BY <1>7, <1>8 DEF IInv

(* A trap and the call of schedule() at its end.                           *)
LEMMA TrapInv ==
  ASSUME IInv, NEW reg \in Context, Trap(reg)
  PROVE  /\ current' = current /\ current \in Procs /\ current \in Pids
         /\ Runnable(current)
         /\ scheduling_algorithm' \in Algorithms
         /\ allow_clock_interrupt' \in BOOLEAN /\ cpu' \in Context
         /\ p_registers' \in [Pids -> Context]
         /\ CallSchedule =>
              /\ kpc' \in Labels /\ kpc' # "user" /\ kpc' # "share_max"
              /\ pid' \in Pids /\ i' \in 0 .. NPROCS - 1
              /\ firstPid' \in Pids /\ firstPriority' \in 0 .. Word - 1
<1>1. Procs \subseteq Pids /\ 1 \in Pids
  BY KernAssumption DEF Procs, Pids
<1>2. current \in Procs /\ current \in Pids /\ Runnable(current)
  BY <1>1 DEF IInv, TypeOK, RunsRunnable, Trap, UserMode
<1>3. p_registers' \in [Pids -> Context]
  BY <1>2 DEF IInv, TypeOK, Trap
<1>4. ASSUME CallSchedule
      PROVE  kpc' \in Labels /\ kpc' # "user" /\ kpc' # "share_max"
  BY <1>4 DEF CallSchedule, Labels
<1>5. ASSUME CallSchedule
      PROVE  /\ pid' \in Pids /\ i' \in 0 .. NPROCS - 1
             /\ firstPid' \in Pids /\ firstPriority' \in 0 .. Word - 1
  BY <1>1, <1>2, <1>5 DEF CallSchedule, IInv, TypeOK
<1> QED
  BY <1>2, <1>3, <1>4, <1>5 DEF IInv, TypeOK, Trap, config

(* A system call or an interrupt preserves the invariant.  What a case of  *)
(* interrupt() changes beyond Trap and CallSchedule is one field of the    *)
(* current descriptor, or the screen.                                      *)
LEMMA SystemCallInv ==
  ASSUME IInv, NEW reg \in Context, SystemCall(reg) \/ ClockInterrupt(reg)
  PROVE  IInv'
<1>1. CASE SysYield(reg) \/ ClockInterrupt(reg)
  <2>1. Trap(reg) /\ CallSchedule
    BY <1>1 DEF SysYield, ClockInterrupt
  <2>2. UNCHANGED <<p_state, p_exit_status, attrs, screen>>
    BY <1>1 DEF SysYield, ClockInterrupt
  <2> QED
    BY <2>1, <2>2, TrapInv DEF IInv, TypeOK, attrs, screen, EntryZeroEmpty,
       Candidate, RunsRunnable, UserMode
<1>2. ASSUME NEW status \in Statuses, SysExit(reg, status)
      PROVE  IInv'
  <2>1. Trap(reg) /\ CallSchedule /\ UNCHANGED <<attrs, screen>>
    BY <1>2 DEF SysExit
  <2>2. /\ p_state' = [p_state EXCEPT ![current] = "ZOMBIE"]
        /\ p_exit_status' = [p_exit_status EXCEPT ![current] = status]
    BY <1>2 DEF SysExit
  <2>3. current # 0
    BY <2>1, TrapInv DEF Procs
  <2>4. p_exit_status' \in [Pids -> Statuses \cup {0}]
    BY <1>2, <2>2 DEF IInv, TypeOK
  <2>5. p_state' \in [Pids -> {"EMPTY", "RUNNABLE", "BLOCKED", "ZOMBIE"}]
    BY <2>2 DEF IInv, TypeOK
  <2>6. 0 \in Pids
    BY KernAssumption DEF Pids
  <2>7. p_state'[0] = "EMPTY"
    BY <2>2, <2>3, <2>6 DEF IInv, TypeOK, EntryZeroEmpty
  <2> QED
    BY <2>1, <2>4, <2>5, <2>7, TrapInv DEF IInv, TypeOK, attrs, screen, EntryZeroEmpty,
       Candidate, RunsRunnable, UserMode
<1>3. ASSUME NEW n \in Priorities, SysPriority(reg, n)
      PROVE  IInv'
  <2>1. /\ Trap(reg) /\ CallSchedule
        /\ UNCHANGED <<p_state, p_exit_status, p_share_amt, p_share_left,
                       p_lottery_amt, screen>>
    BY <1>3 DEF SysPriority
  <2>2. p_priority' \in [Pids -> 0 .. Word - 1]
    BY <1>3, KernAssumption DEF SysPriority, IInv, TypeOK
  <2> QED
    BY <2>1, <2>2, TrapInv DEF IInv, TypeOK, screen, EntryZeroEmpty,
       Candidate, RunsRunnable, UserMode
<1>4. ASSUME NEW n \in Shares, SysShare(reg, n)
      PROVE  IInv'
  <2>1. /\ Trap(reg) /\ CallSchedule
        /\ UNCHANGED <<p_state, p_exit_status, p_priority, p_lottery_amt,
                       screen>>
    BY <1>4 DEF SysShare
  <2>2. /\ p_share_amt' \in [Pids -> 0 .. Word - 1]
        /\ p_share_left' \in [Pids -> 0 .. Word - 1]
    BY <1>4, KernAssumption DEF SysShare, IInv, TypeOK
  <2> QED
    BY <2>1, <2>2, TrapInv DEF IInv, TypeOK, screen, EntryZeroEmpty,
       Candidate, RunsRunnable, UserMode
<1>5. ASSUME NEW n \in Tickets, SysLottery(reg, n)
      PROVE  IInv'
  <2>1. /\ Trap(reg) /\ CallSchedule
        /\ UNCHANGED <<p_state, p_exit_status, p_priority, p_share_amt,
                       p_share_left, screen>>
    BY <1>5 DEF SysLottery
  <2>2. p_lottery_amt' \in [Pids -> 0 .. Word - 1]
    BY <1>5, KernAssumption DEF SysLottery, IInv, TypeOK
  <2> QED
    BY <2>1, <2>2, TrapInv DEF IInv, TypeOK, screen, EntryZeroEmpty,
       Candidate, RunsRunnable, UserMode
<1>6. ASSUME NEW c \in Chars, SysPrint(reg, c)
      PROVE  IInv'
  <2>1. /\ Trap(reg) /\ CallSchedule
        /\ UNCHANGED <<p_state, p_exit_status, attrs>>
    BY <1>6 DEF SysPrint
  <2>2. cursorpos' \in 0 .. VideoCells
    BY <1>6, KernAssumption, ScreenAssumption DEF SysPrint, IInv, TypeOK
  <2>3. console' \in [Cells -> Chars \cup {Blank, KernelText}]
    BY <1>6 DEF SysPrint, IInv, TypeOK
  <2> QED
    BY <2>1, <2>2, <2>3, TrapInv DEF IInv, TypeOK, attrs, EntryZeroEmpty,
       Candidate, RunsRunnable, UserMode
<1>7. ASSUME NEW n \in Unhandled, UnhandledInterrupt(reg, n)
      PROVE  IInv'
  <2>1. /\ Trap(reg) /\ kpc' = "halted"
        /\ UNCHANGED <<p_state, p_exit_status, attrs, screen, locals>>
    BY <1>7 DEF UnhandledInterrupt
  <2> QED
    BY <2>1, TrapInv DEF IInv, TypeOK, attrs, screen, locals, Labels,
       EntryZeroEmpty, Candidate, RunsRunnable, UserMode
<1> QED
  BY <1>1, <1>2, <1>3, <1>4, <1>5, <1>6, <1>7 DEF SystemCall

(* An iteration of a loop of schedule() preserves the invariant: it keeps  *)
(* looking, with an index of proc_array, or it runs a runnable process.    *)
Kept == UNCHANGED <<config, p_state, p_exit_status,
                    p_registers, screen>>

(* It goes on looking. *)
LEMMA StayInv ==
  ASSUME IInv, Kept, UNCHANGED attrs, NEW label, Stay(label),
         label \in Labels, label # "user", label # "share_max",
         pid' \in Pids, i' \in 0 .. NPROCS - 1, firstPid' \in Pids,
         firstPriority' \in 0 .. Word - 1
  PROVE  IInv'
  BY DEF IInv, Kept, config, Stay, TypeOK, attrs, screen, EntryZeroEmpty, Candidate,
     RunsRunnable, UserMode

(* It runs p, having changed no attribute.                                 *)
LEMMA RunKeptInv ==
  ASSUME IInv, Kept, UNCHANGED attrs, NEW p \in Pids, Runnable(p), Run(p)
  PROVE  IInv'
<1>1. UNCHANGED <<p_state, p_registers>>
  BY DEF Kept
<1>2. TypeOK /\ EntryZeroEmpty
  BY DEF IInv
<1>3. "user" \in Labels
  BY DEF Labels
<1> QED
  BY <1>1, <1>2, <1>3, RunInv DEF IInv, TypeOK, Kept, config, attrs,
     screen

(* It runs p and takes one of the shares p has left.                       *)
LEMMA UseShareInv ==
  ASSUME IInv, Kept, NEW p \in Pids, HasShare(p), UseShare(p)
  PROVE  IInv'
<1>1. UNCHANGED <<p_state, p_registers>>
  BY DEF Kept
<1>2. TypeOK /\ EntryZeroEmpty
  BY DEF IInv
<1>3. "user" \in Labels
  BY DEF Labels
<1>4. p_share_left' \in [Pids -> 0 .. Word - 1]
  BY UnsignedDecType DEF IInv, TypeOK, UseShare
<1>5. Runnable(p) /\ Run(p)
  BY DEF HasShare, UseShare
<1>6. UNCHANGED <<p_priority, p_share_amt, p_lottery_amt>>
  BY DEF UseShare
<1> QED
  BY <1>1, <1>2, <1>3, <1>4, <1>5, <1>6, RunInv DEF IInv, TypeOK, Kept,
     config, screen

LEMMA PickInv == ASSUME IInv, PickStep PROVE IInv'
<1> USE DEF Labels
<1>1. Kept
  BY DEF PickStep, Kept
<1>2. /\ pid \in Pids /\ NextPid(pid) \in Pids /\ firstPid \in Pids
      /\ i \in 0 .. NPROCS - 1 /\ 0 \in 0 .. NPROCS - 1
      /\ firstPriority \in 0 .. Word - 1
      /\ i < NPROCS - 1 => i + 1 \in 0 .. NPROCS - 1
  BY NextPidType, KernAssumption DEF IInv, TypeOK
<1>3. \A p \in Pids : /\ p_priority[p] \in 0 .. Word - 1
                      /\ p_share_amt[p] \in 0 .. Word - 1
  BY DEF IInv, TypeOK
<1>4. CASE RoundRobin
  BY <1>1, <1>2, <1>4, RunKeptInv, StayInv DEF RoundRobin
<1>5. CASE Strict
  BY <1>1, <1>2, <1>5, RunKeptInv, StayInv DEF Strict
<1>6. CASE PriorityDo
  BY <1>1, <1>2, <1>3, <1>6, StayInv DEF PriorityDo
<1>7. CASE PriorityFor
  BY <1>1, <1>2, <1>3, <1>7, StayInv DEF PriorityFor
<1>8. CASE PriorityWhile
  BY <1>1, <1>2, <1>8, RunKeptInv, StayInv DEF PriorityWhile, locals
<1>9. CASE ShareKeep
  BY <1>1, <1>2, <1>9, UseShareInv, StayInv DEF ShareKeep
<1>10. CASE ShareFind
  <2>1. CASE HasShare(NextPid(pid))
    <3>1. /\ Stay("share_max") /\ firstPid' = NextPid(pid)
          /\ firstPriority' = p_share_amt[NextPid(pid)] /\ i' = 0
          /\ pid' = NextPid(pid) /\ UNCHANGED attrs
      BY <1>10, <2>1 DEF ShareFind
    <3>2. HasShare(firstPid)'
      BY <1>1, <2>1, <3>1 DEF Kept, HasShare, Runnable, attrs
    <3> QED
      BY <1>1, <1>2, <1>3, <3>1, <3>2 DEF IInv, Kept, config, Stay, TypeOK, attrs,
         screen, EntryZeroEmpty, Candidate, RunsRunnable, UserMode
  <2>2. CASE ~HasShare(NextPid(pid))
    BY <1>1, <1>2, <1>10, <2>2, StayInv DEF ShareFind
  <2> QED
    BY <2>1, <2>2
<1>11. CASE ShareReset
  <2>1. p_share_left' \in [Pids -> 0 .. Word - 1]
    BY <1>11 DEF ShareReset, IInv, TypeOK
  <2> QED
    BY <1>1, <1>2, <1>11, <2>1 DEF ShareReset, IInv, Kept, config, Stay, TypeOK,
       screen, EntryZeroEmpty, Candidate, RunsRunnable, UserMode
<1>12. CASE ShareMax
  <2>1. /\ kpc = "share_max" /\ i < NPROCS - 1 /\ Stay("share_max")
        /\ pid' = NextPid(pid) /\ i' = i + 1 /\ UNCHANGED attrs
    BY <1>12 DEF ShareMax
  <2>2. \/ /\ HasShare(NextPid(pid)) /\ firstPid' = NextPid(pid)
           /\ firstPriority' = p_share_amt[NextPid(pid)]
        \/ UNCHANGED <<firstPid, firstPriority>>
    BY <1>12 DEF ShareMax
  <2>3. firstPid' \in Pids /\ firstPriority' \in 0 .. Word - 1
    BY <1>2, <1>3, <2>2
  <2>4. HasShare(firstPid')
    BY <2>1, <2>2 DEF IInv, Candidate
  <2>5. HasShare(firstPid)'
    BY <1>1, <2>1, <2>4 DEF Kept, HasShare, Runnable, attrs
  <2> QED
    BY <1>1, <1>2, <2>1, <2>3, <2>5 DEF IInv, Kept, config, Stay, TypeOK, attrs,
       screen, EntryZeroEmpty, Candidate, RunsRunnable, UserMode
<1>13. CASE ShareRun
  <2>1. HasShare(firstPid) /\ UseShare(firstPid)
    BY <1>13 DEF ShareRun, IInv, Candidate
  <2> QED
    BY <1>1, <1>2, <2>1, UseShareInv
<1>14. CASE Lottery
  <2>1. UNCHANGED attrs
    BY <1>14 DEF Lottery
  <2>2. CASE Stay("lottery") /\ UNCHANGED locals
    BY <1>1, <1>2, <2>1, <2>2, StayInv DEF locals
  <2>3. ASSUME NEW n, NEW p \in Procs, Wins(n, p), Run(p) PROVE IInv'
    <3>1. p \in Pids /\ Runnable(p)
      BY <2>3 DEF Wins, Procs, Pids
    <3> QED
      BY <1>1, <2>1, <2>3, <3>1, RunKeptInv
  <2> QED
    BY <1>14, <2>2, <2>3 DEF Lottery
<1> QED
  BY <1>4, <1>5, <1>6, <1>7, <1>8, <1>9, <1>10, <1>11, <1>12, <1>13, <1>14
     DEF PickStep

LEMMA NextInv == ASSUME IInv, [Next]_vars PROVE IInv'
<1>1. CASE UserTrap \/ Tick
  BY <1>1, SystemCallInv DEF UserTrap, Tick, IInv, TypeOK
<1>0. CASE UserInstruction
  <2>1. /\ cursorpos' \in 0 .. VideoCells
        /\ console' \in [Cells -> Chars \cup {Blank, KernelText}]
    BY <1>0 DEF UserInstruction, IInv, TypeOK, screen
  <2> QED
    BY <1>0, <2>1 DEF UserInstruction, IInv, TypeOK, config, table, attrs, locals,
       EntryZeroEmpty, Candidate, RunsRunnable, UserMode, Runnable, HasShare
<1>2. CASE PickStep
  BY <1>2, PickInv
<1>3. CASE DivideError /\ UNCHANGED <<config, p_state,
                                     p_exit_status, screen>>
  <2>1. p_registers' \in [Pids -> Context]
    BY <1>3 DEF DivideError, IInv, TypeOK
  <2> QED
    BY <1>3, <2>1 DEF DivideError, IInv, TypeOK, Stay, config, attrs, screen,
       locals, Labels, EntryZeroEmpty, Candidate, RunsRunnable, UserMode
<1>4. CASE UnknownAlgorithm /\ UNCHANGED <<config, p_state,
                                          p_exit_status, p_registers>>
  <2>1. CONSOLE_END \in Nat /\ CONSOLE_END <= VideoCells
    BY ScreenAssumption, KernAssumption DEF CONSOLE_END
  <2>2. cursorpos' \in 0 .. VideoCells
    <3>1. EndOfRow(cursorpos) \in 0 .. VideoCells
      BY <2>1, EndOfRowBound, KernAssumption DEF IInv, TypeOK
    <3>2. EndOfRow(EndOfRow(cursorpos)) \in 0 .. VideoCells
      BY <2>1, <3>1, EndOfRowBound, KernAssumption
    <3> QED
      BY <1>4, <3>2 DEF UnknownAlgorithm
  <2>3. console' \in [Cells -> Chars \cup {Blank, KernelText}]
    BY <1>4 DEF UnknownAlgorithm, IInv, TypeOK
  <2> QED
    BY <1>4, <2>2, <2>3 DEF UnknownAlgorithm, IInv, TypeOK, Stay, config, attrs,
       locals, Labels, EntryZeroEmpty, Candidate, RunsRunnable, UserMode
<1>5. CASE UNCHANGED vars
  BY <1>5 DEF vars, config, table, attrs, screen, locals, IInv, TypeOK,
     EntryZeroEmpty, Candidate, RunsRunnable, UserMode, Runnable, HasShare
<1> QED
  BY <1>0, <1>1, <1>2, <1>3, <1>4, <1>5 DEF Next, KernelStep, Spin

-----------------------------------------------------------------------------
(* The descriptors, the screen and the locals of schedule() keep their C   *)
(* types, and every loop of schedule() keeps its invariant.                *)
THEOREM TypeCorrect == Spec => []IInv
<1> QED
  BY InitInv, NextInv, PTL DEF Spec

(* Every field of the descriptors, the screen and the locals stay in type. *)
THEOREM TypeSafety == Spec => []TypeOK
<1>1. IInv => TypeOK
  BY DEF IInv
<1> QED
  BY <1>1, TypeCorrect, PTL

(* schedule() never returns to a zombie, or to the unused entry 0.         *)
THEOREM OnlyRunnableRun == Spec => []RunsRunnable
<1>1. IInv => RunsRunnable
  BY DEF IInv
<1> QED
  BY <1>1, TypeCorrect, PTL

-----------------------------------------------------------------------------
(* sys_exit() is final: the only case that writes p_state or p_exit_status *)
(* writes those of the current process, which is not a zombie.             *)
THEOREM ExitTheorem == Spec => ExitIsFinal
<1> DEFINE Final == \A p \in Procs : p_state[p] = "ZOMBIE" =>
              p_state'[p] = "ZOMBIE" /\ p_exit_status'[p] = p_exit_status[p]
<1>1. ASSUME IInv, Next PROVE Final
  <2>1. CASE UNCHANGED <<p_state, p_exit_status>>
    BY <2>1
  <2>2. ASSUME NEW reg \in Context, NEW status \in Statuses,
               SysExit(reg, status)
        PROVE  Final
    <3>1. p_state[current] = "RUNNABLE"
      BY <1>1, <2>2 DEF IInv, RunsRunnable, Runnable, SysExit, Trap
    <3>2. /\ p_state' = [p_state EXCEPT ![current] = "ZOMBIE"]
          /\ p_exit_status' = [p_exit_status EXCEPT ![current] = status]
      BY <2>2 DEF SysExit
    <3> QED
      BY <3>1, <3>2 DEF IInv, TypeOK
  <2>3. ASSUME NEW reg \in Context, SystemCall(reg) \/ ClockInterrupt(reg),
               ~\E status \in Statuses : SysExit(reg, status)
        PROVE  UNCHANGED <<p_state, p_exit_status>>
    BY <2>3 DEF SystemCall, ClockInterrupt, SysYield, SysPriority, SysShare,
       SysLottery, SysPrint, UnhandledInterrupt
  <2>4. KernelStep \/ UserInstruction => UNCHANGED <<p_state, p_exit_status>>
    BY DEF UserInstruction, KernelStep, PickStep, Spin, vars, table
  <2> QED
    BY <1>1, <2>1, <2>2, <2>3, <2>4 DEF Next, UserTrap, Tick, IInv, TypeOK
<1>2. ASSUME IInv, [Next]_vars PROVE [Final]_vars
  BY <1>1, <1>2
<1> QED
  BY <1>2, TypeCorrect, PTL DEF Spec, ExitIsFinal

-----------------------------------------------------------------------------
(* The unsigned p_share_left never wraps: both places that decrement it     *)
(* have checked that it is above 0, the second of them on a candidate found *)
(* by an earlier iteration.                                                 *)
THEOREM ShareTheorem == Spec => []ShareWithinAmount
<1>1. Init => ShareWithinAmount
  <2> SUFFICES ASSUME Init PROVE p_share_left = p_share_amt
                          /\ \A p \in Pids : p_share_amt[p] \in Int
    BY KernAssumption DEF ShareWithinAmount, Procs, Pids
  <2> QED
    BY DEF Init
<1>2. ASSUME IInv, ShareWithinAmount, [Next]_vars PROVE ShareWithinAmount'
  <2>1. CASE UNCHANGED <<p_share_amt, p_share_left>>
    BY <1>2, <2>1 DEF ShareWithinAmount
  <2>2. ASSUME NEW p \in Pids, HasShare(p), UseShare(p)
        PROVE  ShareWithinAmount'
    <3>1. UnsignedDec(p_share_left[p]) = p_share_left[p] - 1
      BY <1>2, <2>2, UnsignedDecType DEF IInv, TypeOK, HasShare
    <3>2. /\ p_share_left' = [p_share_left EXCEPT ![p] = p_share_left[p] - 1]
          /\ p_share_amt' = p_share_amt
      BY <2>2, <3>1 DEF UseShare
    <3>3. /\ p_share_left \in [Pids -> 0 .. Word - 1]
          /\ p_share_amt \in [Pids -> 0 .. Word - 1]
      BY <1>2 DEF IInv, TypeOK
    <3>4. \A q \in Procs : /\ q \in Pids
                           /\ p_share_left[q] \in Int /\ p_share_amt[q] \in Int
      BY <3>3, KernAssumption DEF Procs, Pids
    <3> QED
      BY <1>2, <3>2, <3>3, <3>4 DEF ShareWithinAmount
  <2>3. ASSUME ShareReset PROVE ShareWithinAmount'
    <3>1. \A q \in Procs : /\ q \in Pids /\ q # 0 /\ p_share_amt[q] \in Int
      BY <1>2 DEF IInv, TypeOK, Procs, Pids
    <3> QED
      BY <2>3, <3>1 DEF ShareReset, ShareWithinAmount
  <2>4. ASSUME NEW reg \in Context, NEW n \in Shares, SysShare(reg, n)
        PROVE  ShareWithinAmount'
    <3>1. /\ p_share_amt' = [p_share_amt EXCEPT ![current] = n]
          /\ p_share_left' = [p_share_left EXCEPT ![current] = n]
      BY <2>4 DEF SysShare
    <3>2. n \in Int /\ \A q \in Procs : q \in Pids
      BY KernAssumption DEF Procs, Pids
    <3>3. /\ p_share_amt \in [Pids -> 0 .. Word - 1]
          /\ p_share_left \in [Pids -> 0 .. Word - 1]
      BY <1>2 DEF IInv, TypeOK
    <3> QED
      BY <1>2, <3>1, <3>2, <3>3 DEF ShareWithinAmount
  <2>5. ASSUME NEW reg \in Context, SystemCall(reg) \/ ClockInterrupt(reg),
               ~\E n \in Shares : SysShare(reg, n)
        PROVE  UNCHANGED <<p_share_amt, p_share_left>>
    BY <2>5 DEF SystemCall, ClockInterrupt, SysYield, SysExit, SysPriority,
       SysLottery, SysPrint, UnhandledInterrupt, attrs
  <2>6. ASSUME PickStep PROVE ShareWithinAmount'
    <3>1. ShareKeep => \/ HasShare(pid) /\ UseShare(pid)
                       \/ UNCHANGED <<p_share_amt, p_share_left>>
      BY DEF ShareKeep, attrs
    <3>2. ShareRun => HasShare(firstPid) /\ UseShare(firstPid)
      BY <1>2 DEF ShareRun, IInv, Candidate
    <3>3. pid \in Pids /\ firstPid \in Pids
      BY <1>2 DEF IInv, TypeOK
    <3>4. \/ RoundRobin \/ Strict \/ PriorityDo \/ PriorityFor
          \/ PriorityWhile \/ ShareFind \/ ShareMax \/ Lottery
          => UNCHANGED <<p_share_amt, p_share_left>>
      BY DEF RoundRobin, Strict, PriorityDo, PriorityFor, PriorityWhile,
         ShareFind, ShareMax, Lottery, attrs
    <3> QED
      BY <2>1, <2>2, <2>3, <2>6, <3>1, <3>2, <3>3, <3>4 DEF PickStep
  <2>7. \/ DivideError \/ UnknownAlgorithm \/ Spin \/ UserInstruction
        \/ UNCHANGED vars
        => UNCHANGED <<p_share_amt, p_share_left>>
    BY DEF DivideError, UnknownAlgorithm, Spin, UserInstruction, vars, table, attrs
  <2> QED
    BY <1>2, <2>1, <2>4, <2>5, <2>6, <2>7 DEF Next, UserTrap, Tick,
       KernelStep, IInv, TypeOK
<1> QED
  BY <1>1, <1>2, TypeCorrect, PTL DEF Spec
-----------------------------------------------------------------------------
(* Every process finds its registers as it left them.  Registers(p) is     *)
(* where they are: in the CPU while p runs, in its descriptor otherwise.   *)
Registers == [p \in Procs |-> IF UserMode /\ p = current THEN cpu
                              ELSE p_registers[p]]
Mode == CASE kpc = "user"   -> "user"
          [] kpc = "halted" -> "stopped"
          [] OTHER          -> "kernel"

(* A step that changes no registers but those of the current process.      *)
LEMMA OthersKeptBy ==
  ASSUME IInv, \A p \in Procs : p # current => Registers'[p] = Registers[p]
  PROVE  Contexts!OthersKept
BY DEF Contexts!OthersKept, Registers

(* A system call or a tick: the stub pushes the registers of the process   *)
(* that runs, and interrupt() puts them into its own descriptor.           *)
LEMMA TrapKeeps ==
  ASSUME IInv, NEW reg \in Context, Trap(reg), kpc' # "user"
  PROVE  /\ kpc = "user" /\ current' = current
         /\ Contexts!OthersKept
<1>1. /\ kpc = "user" /\ current' = current
      /\ p_registers' = [p_registers EXCEPT ![current] = reg]
  BY DEF Trap, UserMode
<1>2. p_registers \in [Pids -> Context] /\ Procs \subseteq Pids
  BY KernAssumption DEF IInv, TypeOK, Procs, Pids
<1>3. \A p \in Procs : p # current => Registers'[p] = Registers[p]
  BY <1>1, <1>2 DEF Registers, UserMode
<1>. QED  BY <1>1, <1>3, OthersKeptBy

(* A loop of schedule() goes on, or calls run() for a process.             *)
LEMMA PickShape ==
  ASSUME IInv, PickStep
  PROVE  /\ kpc \notin {"user", "halted"}
         /\ p_registers' = p_registers
         /\ \/ kpc' \notin {"user", "halted"} /\ current' = current
            \/ \E p \in Procs : Run(p)
<1>1. kpc \notin {"user", "halted"} /\ p_registers' = p_registers
  BY DEF PickStep, RoundRobin, Strict, PriorityDo, PriorityFor, PriorityWhile,
     ShareKeep, ShareFind, ShareReset, ShareMax, ShareRun, Lottery
<1>2. ASSUME NEW p \in Pids, Runnable(p), Run(p)
      PROVE  \E q \in Procs : Run(q)
  <2>1. p \in Procs
    BY <1>2 DEF IInv, EntryZeroEmpty, Runnable, Pids, Procs
  <2>. QED  BY <1>2, <2>1
<1>3. pid \in Pids /\ NextPid(pid) \in Pids /\ firstPid \in Pids
  BY NextPidType DEF IInv, TypeOK
<1>4. ASSUME NEW label \in {"round_robin", "strict", "prio_do", "prio_for",
                            "share_find", "share_max", "lottery"}, Stay(label)
      PROVE  kpc' \notin {"user", "halted"} /\ current' = current
  BY <1>4 DEF Stay
<1>5. CASE RoundRobin \/ Strict
  BY <1>1, <1>2, <1>3, <1>4, <1>5 DEF RoundRobin, Strict
<1>6. CASE PriorityDo \/ PriorityFor \/ PriorityWhile
  BY <1>1, <1>2, <1>3, <1>4, <1>6 DEF PriorityDo, PriorityFor, PriorityWhile
<1>7. CASE ShareKeep \/ ShareFind \/ ShareReset \/ ShareMax
  BY <1>1, <1>2, <1>3, <1>4, <1>7 DEF ShareKeep, ShareFind, ShareReset,
     ShareMax, UseShare, HasShare
<1>8. CASE ShareRun
  BY <1>1, <1>2, <1>3, <1>8 DEF ShareRun, UseShare, HasShare, IInv, Candidate
<1>9. CASE Lottery
  BY <1>1, <1>4, <1>9 DEF Lottery
<1>. QED
  BY <1>5, <1>6, <1>7, <1>8, <1>9 DEF PickStep

(* Every step of the kernel and of the processes is a step of the          *)
(* specification of context switches, or changes no context.               *)
THEOREM ContextTheorem == Spec => KeepsContexts
<1>1. Init => Contexts!Init
  <2>. SUFFICES ASSUME Init PROVE Contexts!Init
    OBVIOUS
  <2>1. TypeOK /\ kpc = "user"
    BY InitInv DEF Init, IInv
  <2>2. Registers \in [Procs -> Context]
    BY <2>1, KernAssumption DEF TypeOK, Registers, Procs, Pids
  <2>. QED  BY <2>1, <2>2 DEF Contexts!Init, TypeOK, Registers
<1>2. ASSUME IInv, IInv', [Next]_vars PROVE [Contexts!Next]_(Contexts!vars)
  <2>1. current \in Procs /\ current' \in Procs
    BY <1>2 DEF IInv, TypeOK
  <2>2. CASE UserInstruction
    <3>1. /\ kpc = "user" /\ kpc' = "user" /\ current' = current
          /\ p_registers' = p_registers
      BY <2>2 DEF UserInstruction, UserMode, config, table
    <3>2. Contexts!OthersKept
      BY <1>2, <3>1, OthersKeptBy DEF Registers, UserMode
    <3>3. Contexts!Compute
      BY <3>1, <3>2 DEF Contexts!Compute
    <3>. QED  BY <3>3 DEF Contexts!Next
  <2>3. ASSUME NEW reg \in Context, SystemCall(reg) \/ ClockInterrupt(reg)
        PROVE  Contexts!Next
    <3>1. Trap(reg) /\ kpc' # "user"
      BY <2>3 DEF SystemCall, SysYield, SysExit, SysPriority, SysShare,
         SysLottery, SysPrint, UnhandledInterrupt, ClockInterrupt, CallSchedule
    <3>2. kpc = "user" /\ current' = current /\ Contexts!OthersKept
      BY <1>2, <3>1, TrapKeeps
    <3>3. CASE kpc' = "halted"
      BY <3>2, <3>3 DEF Contexts!Stop, Contexts!Next
    <3>4. CASE kpc' # "halted"
      BY <3>1, <3>2, <3>4 DEF Contexts!Compute, Contexts!Next
    <3>. QED  BY <3>3, <3>4
  <2>4. CASE PickStep
    <3>1. /\ kpc \notin {"user", "halted"} /\ p_registers' = p_registers
          /\ \/ kpc' \notin {"user", "halted"} /\ current' = current
             \/ \E p \in Procs : Run(p)
      BY <1>2, <2>4, PickShape
    <3>2. Registers' = Registers
      BY <3>1 DEF Registers, UserMode, Run
    <3>3. kpc' # "halted"
      BY <3>1 DEF Run
    <3>4. Contexts!Switch(current')
      BY <3>1, <3>2, <3>3 DEF Contexts!Switch, Registers
    <3>. QED  BY <2>1, <3>4 DEF Contexts!Next
  <2>5. CASE DivideError \/ (UnknownAlgorithm /\ UNCHANGED p_registers)
    <3>1. kpc # "user" /\ kpc' = "halted" /\ current' = current
      BY <2>5 DEF DivideError, UnknownAlgorithm, Stay
    <3>2. \A p \in Procs : p # current => p_registers'[p] = p_registers[p]
      <4>1. p_registers \in [Pids -> Context]
        BY <1>2 DEF IInv, TypeOK
      <4>2. Procs \subseteq Pids
        BY KernAssumption DEF Procs, Pids
      <4>. QED  BY <2>5, <4>1, <4>2 DEF DivideError
    <3>3. Contexts!OthersKept
      BY <1>2, <3>1, <3>2, OthersKeptBy DEF Registers, UserMode
    <3>. QED  BY <3>1, <3>3 DEF Contexts!Stop, Contexts!Next
  <2>6. CASE UNCHANGED vars
    BY <2>6 DEF vars, table, Contexts!vars, UserMode
  <2>7. UserTrap \/ Tick => Contexts!Next
    BY <1>2, <2>3 DEF UserTrap, Tick, IInv, TypeOK
  <2>8. CASE KernelStep
    <3>1. CASE PickStep
      BY <2>4, <3>1
    <3>2. CASE DivideError
      BY <2>5, <3>2
    <3>3. CASE UnknownAlgorithm /\ UNCHANGED p_registers
      BY <2>5, <3>3
    <3>4. CASE UNCHANGED vars
      BY <2>6, <3>4
    <3>. QED  BY <2>8, <3>1, <3>2, <3>3, <3>4 DEF KernelStep, Spin
  <2>. QED
    BY <1>2, <2>2, <2>6, <2>7, <2>8 DEF Next
<1>. QED
  BY <1>1, <1>2, TypeCorrect, PTL DEF Spec, KeepsContexts, Contexts!Spec

-----------------------------------------------------------------------------
(***************************************************************************)
(* That schedule() keeps the promise of SchedPolicy, for every number of   *)
(* processes and whatever they call: the process it runs is the one the    *)
(* algorithm in force prefers.  The searches are loops over proc_array;    *)
(* the proof says, of each, what is known of the entries it has passed.    *)
(***************************************************************************)

(* How many entries back from pid, going round, entry q is; and whether a  *)
(* search that has made i iterations has passed it.                        *)
Behind(q) == IF q <= pid THEN pid - q ELSE pid - q + NPROCS
Seen(q)   == Behind(q) <= i

(* How far round robin has come from the caller.                           *)
Travelled == IF current <= pid THEN pid - current ELSE pid - current + NPROCS

(* Each loop belongs to an algorithm, and algorithm 42 looks at the caller *)
(* first.                                                                  *)
LoopInv ==
  /\ kpc = "round_robin" => scheduling_algorithm = 0
  /\ kpc = "strict" => scheduling_algorithm = 2
  /\ kpc \in {"prio_do", "prio_for"} => scheduling_algorithm = 41
  /\ kpc \in {"share", "share_find", "share_max"} => scheduling_algorithm = 42
  /\ kpc = "lottery" => scheduling_algorithm = 7
  /\ kpc = "share" => pid = current

(* Whoever is runnable is still ahead.                                     *)
RoundRobinInv ==
  kpc = "round_robin" =>
    \A q \in Procs : Runnable(q) => Travelled < Policy!Ahead(q)

StrictInv == kpc = "strict" => \A q \in Procs : Runnable(q) => pid <= q

(* No process that has been passed is more urgent than firstPid, which may *)
(* itself have exited.                                                     *)
PriorityInv ==
  kpc = "prio_for" =>
    /\ firstPriority = p_priority[firstPid]
    /\ \A q \in Procs : Runnable(q) /\ Seen(q) => firstPriority <= p_priority[q]

(* The search for share skips the entry it starts from: when it has just   *)
(* reset the shares, that may be the only process with a share, and it     *)
(* resets them once more.                                                  *)
Fresh   == \A q \in Procs : p_share_left[q] = p_share_amt[q]
FindInv ==
  kpc = "share_find" => Fresh \/ \A q \in Procs : Seen(q) => ~HasShare(q)

MaxInv ==
  kpc = "share_max" =>
    /\ firstPriority = p_share_amt[firstPid]
    /\ \A q \in Procs : HasShare(q) /\ Seen(q) => p_share_amt[q] <= firstPriority

SearchInv ==
  LoopInv /\ RoundRobinInv /\ StrictInv /\ PriorityInv /\ FindInv /\ MaxInv

-----------------------------------------------------------------------------
(* The successor of an entry, without the remainder.                       *)
LEMMA NextPidIs ==
  \A p \in Pids : NextPid(p) = IF p = NPROCS - 1 THEN 0 ELSE p + 1
<1> TAKE p \in Pids
<1>1. CASE p = NPROCS - 1
  BY <1>1, KernAssumption DEF Pids, NextPid
<1>2. CASE p # NPROCS - 1
  <2>1. p + 1 \in 0 .. NPROCS - 1
    BY <1>2, KernAssumption DEF Pids
  <2>. QED  BY <1>2, <2>1, KernAssumption DEF Pids, NextPid
<1>. QED  BY <1>1, <1>2

(* Distances: after a step, every other entry is one further back; after   *)
(* NPROCS - 1 steps, all entries have been passed.                         *)
LEMMA SeenStep ==
  ASSUME pid \in Pids, i \in 0 .. NPROCS - 1, pid' = NextPid(pid), i' = i + 1,
         NEW q \in Procs, Seen(q)'
  PROVE  q = pid' \/ Seen(q)
BY NextPidIs, KernAssumption DEF Seen, Behind, Pids, Procs

LEMMA SeenOne ==
  ASSUME pid \in Pids, i = 0, NEW q \in Procs, Seen(q)
  PROVE  q = pid
BY KernAssumption DEF Seen, Behind, Pids, Procs

LEMMA SeenAll ==
  ASSUME pid \in Pids, i = NPROCS - 1, NEW q \in Procs
  PROVE  Seen(q)
BY KernAssumption DEF Seen, Behind, Pids, Procs

LEMMA AheadType ==
  ASSUME current \in Procs, NEW q \in Procs
  PROVE  Policy!Ahead(q) \in 1 .. NPROCS
BY KernAssumption DEF Policy!Ahead, Procs

(* Round robin comes to its processes in the order of Ahead.               *)
LEMMA NextIsAhead ==
  ASSUME current \in Procs, pid \in Pids, NextPid(pid) \in Procs
  PROVE  Policy!Ahead(NextPid(pid)) = Travelled + 1
<1>1. NextPid(pid) = pid + 1
  BY NextPidIs DEF Procs
<1>2. Policy!Ahead(pid + 1) = Travelled + 1
  BY KernAssumption DEF Policy!Ahead, Travelled, Procs, Pids
<1>. QED  BY <1>1, <1>2

LEMMA TravelledStep ==
  ASSUME current \in Procs, current' = current, pid \in Pids,
         pid' = NextPid(pid), NEW q \in Procs, q # pid',
         Travelled < Policy!Ahead(q)
  PROVE  Travelled' < Policy!Ahead(q)
<1>1. CASE pid = NPROCS - 1
  <2>1. pid' = 0
    BY <1>1, NextPidIs
  <2>. QED  BY <1>1, <2>1, KernAssumption DEF Policy!Ahead, Travelled, Procs
<1>2. CASE pid # NPROCS - 1
  <2>1. pid' = pid + 1
    BY <1>2, NextPidIs
  <2>. QED  BY <1>2, <2>1, KernAssumption
            DEF Policy!Ahead, Travelled, Procs, Pids
<1>. QED  BY <1>1, <1>2

-----------------------------------------------------------------------------
(* SearchInv is an invariant. *)

LEMMA InitSearch == Init => SearchInv
BY DEF Init, SearchInv, LoopInv, RoundRobinInv, StrictInv, PriorityInv,
   FindInv, MaxInv

(* A trap starts the search of its algorithm.                              *)
LEMMA TrapSearch ==
  ASSUME IInv, NEW reg, Trap(reg), CallSchedule
  PROVE  SearchInv'
<1>1. /\ current \in Procs /\ current' = current
      /\ scheduling_algorithm' = scheduling_algorithm
      /\ \A q \in Procs : q \in Int
  BY DEF IInv, TypeOK, Trap, config, Procs
<1>2. LoopInv'
  BY <1>1 DEF LoopInv, CallSchedule
<1>3. RoundRobinInv'
  <2>. SUFFICES ASSUME kpc' = "round_robin", NEW q \in Procs
                PROVE  Travelled' < Policy!Ahead(q)'
    BY DEF RoundRobinInv
  <2>1. pid' = current
    BY DEF CallSchedule
  <2>. QED  BY <1>1, <2>1, KernAssumption DEF Travelled, Policy!Ahead, Procs
<1>4. StrictInv'
  BY <1>1 DEF StrictInv, CallSchedule, Procs
<1>5. PriorityInv' /\ FindInv' /\ MaxInv'
  BY DEF PriorityInv, FindInv, MaxInv, CallSchedule
<1>. QED  BY <1>2, <1>3, <1>4, <1>5 DEF SearchInv

(* In user mode, and in a kernel that has stopped, there is nothing to say. *)
LEMMA IdleSearch ==
  ASSUME kpc \in {"user", "halted", "unknown"}
  PROVE  SearchInv
BY DEF SearchInv, LoopInv, RoundRobinInv, StrictInv, PriorityInv, FindInv,
   MaxInv

(* What an iteration of any loop may rely on.                              *)
LEMMA PickTypes ==
  ASSUME IInv, PickStep
  PROVE  /\ UNCHANGED <<scheduling_algorithm, p_state>>
         /\ pid \in Pids /\ NextPid(pid) \in Pids /\ firstPid \in Pids
         /\ i \in 0 .. NPROCS - 1 /\ current \in Procs
         /\ \A q \in Procs : q \in Pids
         /\ \A q \in Pids : Runnable(q) => q \in Procs
<1>1. UNCHANGED <<scheduling_algorithm, p_state>>
  BY DEF PickStep, config
<1>2. /\ pid \in Pids /\ firstPid \in Pids /\ i \in 0 .. NPROCS - 1
      /\ current \in Procs
  BY DEF IInv, TypeOK
<1>3. NextPid(pid) \in Pids
  BY <1>2, NextPidType
<1>4. \A q \in Procs : q \in Pids
  BY KernAssumption DEF Procs, Pids
<1>5. ASSUME NEW q \in Pids, Runnable(q) PROVE q \in Procs
  BY <1>5 DEF IInv, EntryZeroEmpty, Runnable, Procs, Pids
<1>. QED  BY <1>1, <1>2, <1>3, <1>4, <1>5

LEMMA PickSearch == ASSUME IInv, SearchInv, PickStep PROVE SearchInv'
<1>. USE DEF Stay
<1>1. /\ UNCHANGED <<scheduling_algorithm, p_state>>
      /\ pid \in Pids /\ NextPid(pid) \in Pids /\ firstPid \in Pids
      /\ i \in 0 .. NPROCS - 1 /\ current \in Procs
      /\ \A q \in Procs : q \in Pids
      /\ \A q \in Pids : Runnable(q) => q \in Procs
  BY PickTypes
<1>2. /\ \A q \in Pids : /\ p_priority[q] \in Int /\ p_share_amt[q] \in Int
                         /\ p_share_left[q] \in Int
      /\ firstPriority \in Int
  BY KernAssumption DEF IInv, TypeOK
<1>3. ASSUME NEW p, Run(p) PROVE SearchInv'
  BY <1>3, IdleSearch DEF Run, SearchInv, LoopInv, RoundRobinInv, StrictInv, PriorityInv, FindInv,
   MaxInv
<1>4. LoopInv
  BY DEF SearchInv
<1>5. CASE RoundRobin
  <2>1. CASE Runnable(NextPid(pid))
    BY <1>3, <1>5, <2>1 DEF RoundRobin
  <2>2. CASE ~Runnable(NextPid(pid))
    <3>1. /\ kpc = "round_robin" /\ kpc' = kpc /\ current' = current
          /\ pid' = NextPid(pid)
      BY <1>5, <2>2 DEF RoundRobin
    <3>2. ASSUME NEW q \in Procs, Runnable(q)'
          PROVE  Travelled' < Policy!Ahead(q)'
      <4>1. Runnable(q) /\ q # pid'
        BY <1>1, <2>2, <3>1, <3>2 DEF Runnable
      <4>2. Travelled < Policy!Ahead(q)
        BY <3>1, <4>1 DEF SearchInv, RoundRobinInv
      <4>3. Policy!Ahead(q)' = Policy!Ahead(q)
        BY <3>1 DEF Policy!Ahead
      <4>. QED  BY <1>1, <3>1, <4>1, <4>2, <4>3, TravelledStep
    <3>. QED  BY <1>1, <1>4, <3>1, <3>2 DEF SearchInv, LoopInv, RoundRobinInv,
                 StrictInv, PriorityInv, FindInv, MaxInv
  <2>. QED  BY <2>1, <2>2
<1>6. CASE Strict
  <2>1. CASE Runnable(pid)
    BY <1>3, <1>6, <2>1 DEF Strict
  <2>2. CASE ~Runnable(pid)
    <3>1. /\ kpc = "strict" /\ kpc' = kpc /\ pid' = NextPid(pid)
      BY <1>6, <2>2 DEF Strict
    <3>2. ASSUME NEW q \in Procs, Runnable(q)' PROVE pid' <= q
      <4>1. Runnable(q) /\ q # pid
        BY <1>1, <2>2, <3>2 DEF Runnable
      <4>2. pid <= q
        BY <3>1, <4>1 DEF SearchInv, StrictInv
      <4>. QED  BY <1>1, <3>1, <4>1, <4>2, NextPidIs, KernAssumption
                DEF Procs, Pids
    <3>. QED  BY <1>1, <1>4, <3>1, <3>2 DEF SearchInv, LoopInv, RoundRobinInv,
                 StrictInv, PriorityInv, FindInv, MaxInv
  <2>. QED  BY <2>1, <2>2
<1>7. CASE PriorityDo
  <2>1. /\ kpc = "prio_do" /\ kpc' = "prio_for" /\ firstPid' = pid
        /\ firstPriority' = p_priority[pid] /\ i' = 0 /\ pid' = pid
        /\ p_priority' = p_priority
    BY <1>7 DEF PriorityDo, attrs
  <2>2. ASSUME NEW q \in Procs, Seen(q)' PROVE q = pid
    BY <1>1, <2>1, <2>2, KernAssumption DEF Seen, Behind, Pids, Procs
  <2>3. PriorityInv'
    BY <1>1, <1>2, <2>1, <2>2 DEF PriorityInv
  <2>. QED  BY <1>1, <1>4, <2>1, <2>3 DEF SearchInv, LoopInv, RoundRobinInv,
               StrictInv, FindInv, MaxInv
<1>8. CASE PriorityFor
  <2>1. /\ kpc = "prio_for" /\ kpc' = kpc /\ pid' = NextPid(pid) /\ i' = i + 1
        /\ p_priority' = p_priority
        /\ IF AtLeastAsUrgent(pid')
           THEN firstPid' = pid' /\ firstPriority' = p_priority[pid']
           ELSE firstPid' = firstPid /\ firstPriority' = firstPriority
    BY <1>8 DEF PriorityFor, attrs
  <2>2. firstPriority' = p_priority'[firstPid']
    BY <2>1 DEF SearchInv, PriorityInv
  <2>3. ASSUME NEW q \in Procs, Runnable(q)', Seen(q)'
        PROVE  firstPriority' <= p_priority'[q]
    <3>1. q = pid' \/ Seen(q)
      BY <1>1, <2>1, <2>3, SeenStep
    <3>2. Runnable(q)
      BY <1>1, <2>3 DEF Runnable
    <3>3. firstPriority' <= firstPriority
      BY <1>1, <1>2, <2>1 DEF AtLeastAsUrgent
    <3>4. CASE q = pid'
      BY <1>1, <1>2, <2>1, <3>2, <3>4 DEF AtLeastAsUrgent
    <3>5. CASE Seen(q)
      <4>1. firstPriority <= p_priority[q]
        BY <2>1, <3>2, <3>5 DEF SearchInv, PriorityInv
      <4>. QED  BY <1>1, <1>2, <2>1, <3>3, <4>1
    <3>. QED  BY <3>1, <3>4, <3>5
  <2>. QED  BY <1>1, <1>4, <2>1, <2>2, <2>3 DEF SearchInv, LoopInv,
               RoundRobinInv, StrictInv, PriorityInv, FindInv, MaxInv
<1>9. CASE PriorityWhile
  <2>1. \/ Run(firstPid)
        \/ kpc = "prio_for" /\ kpc' = "prio_do"
    BY <1>9 DEF PriorityWhile
  <2>2. CASE kpc = "prio_for" /\ kpc' = "prio_do"
    BY <1>1, <1>4, <2>2 DEF SearchInv, LoopInv, RoundRobinInv,
               StrictInv, PriorityInv, FindInv, MaxInv
  <2>. QED  BY <1>3, <2>1, <2>2
<1>10. CASE ShareKeep
  <2>1. CASE HasShare(pid)
    BY <1>3, <1>10, <2>1 DEF ShareKeep, UseShare
  <2>2. CASE ~HasShare(pid)
    <3>1. /\ kpc = "share" /\ kpc' = "share_find" /\ i' = 0 /\ pid' = pid
          /\ p_share_left' = p_share_left
      BY <1>10, <2>2 DEF ShareKeep, attrs
    <3>2. ASSUME NEW q \in Procs, Seen(q)' PROVE q = pid
      BY <1>1, <3>1, <3>2, KernAssumption DEF Seen, Behind, Pids, Procs
    <3>3. FindInv'
      BY <1>1, <2>2, <3>1, <3>2 DEF FindInv, HasShare, Runnable
    <3>. QED  BY <1>1, <1>4, <3>1, <3>3 DEF SearchInv, LoopInv, RoundRobinInv,
                 StrictInv, PriorityInv, MaxInv
  <2>. QED  BY <2>1, <2>2
<1>11. CASE ShareFind
  <2>1. /\ kpc = "share_find" /\ pid' = NextPid(pid)
        /\ p_share_left' = p_share_left /\ p_share_amt' = p_share_amt
    BY <1>11 DEF ShareFind, attrs
  <2>2. CASE HasShare(pid')
    <3>1. /\ kpc' = "share_max" /\ firstPid' = pid' /\ i' = 0
          /\ firstPriority' = p_share_amt[pid']
      BY <1>11, <2>1, <2>2 DEF ShareFind
    <3>2. ASSUME NEW q \in Procs, Seen(q)' PROVE q = pid'
      BY <1>1, <2>1, <3>1, <3>2, KernAssumption DEF Seen, Behind, Pids, Procs
    <3>3. MaxInv'
      BY <1>1, <1>2, <2>1, <3>1, <3>2 DEF MaxInv
    <3>. QED  BY <1>1, <1>4, <2>1, <3>1, <3>3 DEF SearchInv, LoopInv,
                 RoundRobinInv, StrictInv, PriorityInv, FindInv
  <2>3. CASE ~HasShare(pid')
    <3>1. kpc' = kpc /\ i' = i + 1
      BY <1>11, <2>1, <2>3 DEF ShareFind
    <3>2. CASE Fresh
      BY <1>1, <1>4, <2>1, <3>1, <3>2 DEF SearchInv, LoopInv, RoundRobinInv,
         StrictInv, PriorityInv, FindInv, MaxInv, Fresh
    <3>3. CASE ~Fresh
      <4>1. ASSUME NEW q \in Procs, Seen(q)' PROVE ~HasShare(q)
        <5>1. q = pid' \/ Seen(q)
          BY <1>1, <2>1, <3>1, <4>1, SeenStep
        <5>. QED  BY <2>1, <2>3, <3>3, <5>1 DEF SearchInv, FindInv
      <4>2. FindInv'
        BY <1>1, <2>1, <4>1 DEF FindInv, HasShare, Runnable
      <4>. QED  BY <1>1, <1>4, <2>1, <3>1, <4>2 DEF SearchInv, LoopInv,
                   RoundRobinInv, StrictInv, PriorityInv, MaxInv
    <3>. QED  BY <3>2, <3>3
  <2>. QED  BY <2>2, <2>3
<1>12. CASE ShareReset
  <2>1. /\ kpc = "share_find" /\ kpc' = kpc /\ p_share_amt' = p_share_amt
        /\ p_share_left' = [p \in Pids |-> IF p = 0 THEN p_share_left[p]
                                                    ELSE p_share_amt[p]]
    BY <1>12 DEF ShareReset
  <2>2. Fresh'
    BY <1>1, <2>1 DEF Fresh, Procs
  <2>. QED  BY <1>1, <1>4, <2>1, <2>2 DEF SearchInv, LoopInv, RoundRobinInv,
               StrictInv, PriorityInv, FindInv, MaxInv
<1>13. CASE ShareMax
  <2>1. /\ kpc = "share_max" /\ kpc' = kpc /\ pid' = NextPid(pid) /\ i' = i + 1
        /\ p_share_amt' = p_share_amt /\ p_share_left' = p_share_left
        /\ IF HasShare(pid') /\ p_share_amt[pid'] > firstPriority
           THEN firstPid' = pid' /\ firstPriority' = p_share_amt[pid']
           ELSE firstPid' = firstPid /\ firstPriority' = firstPriority
    BY <1>13 DEF ShareMax, attrs
  <2>2. firstPriority' = p_share_amt'[firstPid']
    BY <2>1 DEF SearchInv, MaxInv
  <2>3. ASSUME NEW q \in Procs, HasShare(q)', Seen(q)'
        PROVE  p_share_amt'[q] <= firstPriority'
    <3>1. q = pid' \/ Seen(q)
      BY <1>1, <2>1, <2>3, SeenStep
    <3>2. HasShare(q)
      BY <1>1, <2>1, <2>3 DEF HasShare, Runnable
    <3>3. firstPriority <= firstPriority'
      BY <1>1, <1>2, <2>1
    <3>4. CASE q = pid'
      BY <1>1, <1>2, <2>1, <3>2, <3>4
    <3>5. CASE Seen(q)
      <4>1. p_share_amt[q] <= firstPriority
        BY <2>1, <3>2, <3>5 DEF SearchInv, MaxInv
      <4>2. firstPriority' \in Int
        BY <1>1, <1>2, <2>1
      <4>. QED  BY <1>1, <1>2, <2>1, <3>3, <4>1, <4>2
    <3>. QED  BY <3>1, <3>4, <3>5
  <2>. QED  BY <1>1, <1>4, <2>1, <2>2, <2>3 DEF SearchInv, LoopInv,
               RoundRobinInv, StrictInv, PriorityInv, FindInv, MaxInv
<1>14. CASE ShareRun
  BY <1>3, <1>14 DEF ShareRun, UseShare
<1>15. CASE Lottery
  <2>1. \/ \E p \in Procs : Run(p)
        \/ kpc = "lottery" /\ kpc' = kpc
    BY <1>15 DEF Lottery
  <2>2. CASE kpc = "lottery" /\ kpc' = kpc
    BY <1>1, <1>4, <2>2 DEF SearchInv, LoopInv, RoundRobinInv, StrictInv,
       PriorityInv, FindInv, MaxInv
  <2>. QED  BY <1>3, <2>1, <2>2
<1>. QED
  BY <1>5, <1>6, <1>7, <1>8, <1>9, <1>10, <1>11, <1>12, <1>13, <1>14, <1>15
     DEF PickStep

LEMMA NextSearch == ASSUME IInv, SearchInv, [Next]_vars PROVE SearchInv'
<1>1. CASE UserInstruction
  <2>1. kpc' = "user"
    BY <1>1 DEF UserInstruction, UserMode
  <2>. QED  BY <2>1, IdleSearch DEF SearchInv, LoopInv, RoundRobinInv,
               StrictInv, PriorityInv, FindInv, MaxInv
<1>2. ASSUME NEW reg, SystemCall(reg) \/ ClockInterrupt(reg) PROVE SearchInv'
  <2>1. Trap(reg) /\ (CallSchedule \/ kpc' = "halted")
    BY <1>2 DEF SystemCall, SysYield, SysExit, SysPriority, SysShare,
       SysLottery, SysPrint, UnhandledInterrupt, ClockInterrupt
  <2>2. CASE CallSchedule
    BY <2>1, <2>2, TrapSearch
  <2>3. CASE kpc' = "halted"
    BY <2>3 DEF SearchInv, LoopInv, RoundRobinInv, StrictInv, PriorityInv,
       FindInv, MaxInv
  <2>. QED  BY <2>1, <2>2, <2>3
<1>3. CASE PickStep
  BY <1>3, PickSearch
<1>4. CASE DivideError \/ UnknownAlgorithm
  <2>1. kpc' = "halted"
    BY <1>4 DEF DivideError, UnknownAlgorithm, Stay
  <2>. QED  BY <2>1 DEF SearchInv, LoopInv, RoundRobinInv, StrictInv,
               PriorityInv, FindInv, MaxInv
<1>5. CASE UNCHANGED vars
  BY <1>5 DEF vars, config, table, attrs, locals, SearchInv, LoopInv,
     RoundRobinInv, StrictInv, PriorityInv, FindInv, MaxInv, Travelled,
     Policy!Ahead, Seen, Behind, Fresh, HasShare, Runnable
<1>. QED
  BY <1>1, <1>2, <1>3, <1>4, <1>5
     DEF Next, UserTrap, Tick, KernelStep, Spin

(* In every reachable state, the searches of schedule() have passed over   *)
(* only the processes that their policy lets them pass over.               *)
THEOREM SearchTheorem == Spec => []SearchInv
<1>. QED
  BY InitSearch, NextSearch, TypeCorrect, PTL DEF Spec

-----------------------------------------------------------------------------
(* The refinement mapping of SchedKern, by name.                           *)
Phase == CASE kpc = "user" -> "user"
           [] kpc \in {"share_find", "share_max"} -> "scan"
           [] OTHER -> "kernel"
Alive == {p \in Procs : Runnable(p)}
Used  == [p \in Procs |-> p_share_amt[p] - p_share_left[p]]

(* A step that changes neither the phase nor a descriptor.                 *)
LEMMA Stutter ==
  ASSUME UNCHANGED <<scheduling_algorithm, current, p_state, p_priority,
                     p_share_amt, p_share_left>>,
         Phase' = Phase
  PROVE  UNCHANGED Policy!vars
BY DEF Policy!vars, Phase, Runnable

(* A trap is one of the four ways of entering the kernel.                  *)
LEMMA TrapEnters ==
  ASSUME IInv, NEW reg \in Context, SystemCall(reg) \/ ClockInterrupt(reg)
  PROVE  Policy!Next
<1>1. Trap(reg) /\ (CallSchedule \/ kpc' = "halted")
  BY DEF SystemCall, SysYield, SysExit, SysPriority, SysShare,
     SysLottery, SysPrint, UnhandledInterrupt, ClockInterrupt
<1>2. Policy!Enter
  BY <1>1 DEF Policy!Enter, Trap, UserMode, CallSchedule, config
<1>3. current \in Procs /\ \A p \in Procs : p \in Pids
  BY KernAssumption DEF IInv, TypeOK, Procs, Pids
<1>4. ASSUME UNCHANGED <<p_state, p_priority, p_share_amt, p_share_left>>
      PROVE  Policy!Next
  BY <1>2, <1>4 DEF Policy!Call, Policy!Next, Runnable
<1>5. ASSUME NEW status, SysExit(reg, status) PROVE Policy!Next
  <2>1. /\ p_state' = [p_state EXCEPT ![current] = "ZOMBIE"]
        /\ UNCHANGED <<p_priority, p_share_amt, p_share_left>>
    BY <1>5 DEF SysExit, attrs
  <2>2. Alive' = Alive \ {current}
    BY <1>3, <2>1 DEF Alive, Runnable, IInv, TypeOK
  <2>. QED  BY <1>2, <2>1, <2>2 DEF Policy!Exit, Policy!Next, Alive
<1>6. ASSUME NEW n \in Priorities, SysPriority(reg, n) PROVE Policy!Next
  <2>1. /\ p_priority' = [p_priority EXCEPT ![current] = n]
        /\ UNCHANGED <<p_state, p_share_amt, p_share_left>>
    BY <1>6 DEF SysPriority
  <2>2. [p \in Procs |-> p_priority'[p]]
        = [[p \in Procs |-> p_priority[p]] EXCEPT ![current] = n]
    BY <1>3, <2>1 DEF IInv, TypeOK
  <2>3. Policy!SetPriority(n)
    BY <1>2, <2>1, <2>2 DEF Policy!SetPriority, Runnable
  <2>. QED  BY <2>3 DEF Policy!Next
<1>7. ASSUME NEW n \in Shares, SysShare(reg, n) PROVE Policy!Next
  <2>1. /\ p_share_amt' = [p_share_amt EXCEPT ![current] = n]
        /\ p_share_left' = [p_share_left EXCEPT ![current] = n]
        /\ UNCHANGED <<p_state, p_priority>>
    BY <1>7 DEF SysShare
  <2>2. [p \in Procs |-> p_share_amt'[p]]
        = [[p \in Procs |-> p_share_amt[p]] EXCEPT ![current] = n]
    BY <1>3, <2>1 DEF IInv, TypeOK
  <2>3. Used' = [Used EXCEPT ![current] = 0]
    <3>1. n - n = 0
      BY KernAssumption
    <3>. QED  BY <1>3, <2>1, <3>1 DEF Used, IInv, TypeOK
  <2>4. Policy!SetShare(n)
    BY <1>2, <2>1, <2>2, <2>3 DEF Policy!SetShare, Runnable, Used
  <2>. QED  BY <2>4 DEF Policy!Next
<1>. QED
  BY <1>4, <1>5, <1>6, <1>7 DEF SystemCall, SysYield, SysLottery, SysPrint,
     UnhandledInterrupt, ClockInterrupt, attrs

(* run() is called for the process that the policy chooses.                *)
LEMMA RunDispatches ==
  ASSUME IInv, kpc # "user", scheduling_algorithm # 42,
         NEW p \in Pids, Runnable(p), Run(p), Policy!Chosen(p),
         UNCHANGED <<scheduling_algorithm, p_state, attrs>>
  PROVE  Policy!Next
<1>1. p \in Procs
  BY DEF IInv, EntryZeroEmpty, Runnable, Procs, Pids
<1>2. Used' = Used /\ Used = [Used EXCEPT ![p] = Used[p]]
  BY DEF Used, attrs
<1>3. Policy!Dispatch(p)
  BY <1>1, <1>2 DEF Policy!Dispatch, Used, Run, attrs, Runnable
<1>. QED  BY <1>1, <1>3 DEF Policy!DispatchAny, Policy!Next,
          Policy!Procs, Procs

LEMMA UseShareDispatches ==
  ASSUME IInv, kpc # "user", scheduling_algorithm = 42,
         NEW p \in Pids, HasShare(p), UseShare(p), Policy!Chosen(p),
         UNCHANGED <<scheduling_algorithm, p_state>>
  PROVE  Policy!Next
<1>1. p \in Procs /\ \A q \in Procs : q \in Pids
  BY KernAssumption DEF IInv, EntryZeroEmpty, HasShare, Runnable, Procs, Pids
<1>2. /\ p_share_left' = [p_share_left EXCEPT ![p] = p_share_left[p] - 1]
      /\ p_share_left \in [Pids -> Int] /\ p_share_amt \in [Pids -> Int]
      /\ UNCHANGED <<p_priority, p_share_amt>>
  <2>1. /\ p_share_left \in [Pids -> 0 .. Word - 1]
        /\ p_share_amt \in [Pids -> 0 .. Word - 1]
        /\ 0 .. Word - 1 \subseteq Int
    BY KernAssumption DEF IInv, TypeOK
  <2>2. UnsignedDec(p_share_left[p]) = p_share_left[p] - 1
    BY <2>1, UnsignedDecType DEF HasShare
  <2>. QED  BY <2>1, <2>2 DEF UseShare
<1>3. Used' = [Used EXCEPT ![p] = Used[p] + 1]
  <2>1. ASSUME NEW q \in Procs
        PROVE  Used'[q] = IF q = p THEN Used[p] + 1 ELSE Used[q]
    <3>1. p_share_left[q] \in Int /\ p_share_amt[q] \in Int
      BY <1>1, <1>2
    <3>. QED  BY <1>1, <1>2, <3>1 DEF Used
  <2>. QED  BY <1>1, <2>1 DEF Used
<1>4. Policy!Dispatch(p)
  BY <1>1, <1>2, <1>3 DEF Policy!Dispatch, Used, Run, UseShare, HasShare,
     Runnable
<1>. QED  BY <1>1, <1>4 DEF Policy!DispatchAny, Policy!Next,
          Policy!Procs, Procs

(* Having some of the share left is being in the budget.                   *)
LEMMA BudgetIs ==
  ASSUME IInv, NEW p \in Procs
  PROVE  p \in Policy!InBudget <=> HasShare(p)
<1>1. p_share_left[p] \in Nat /\ p_share_amt[p] \in Nat
  BY KernAssumption DEF IInv, TypeOK, Procs, Pids
<1>. QED  BY <1>1 DEF Policy!InBudget, HasShare

(* Each iteration of a search is a step of the policy or no step of it.    *)
LEMMA PickImplements ==
  ASSUME IInv, SearchInv, PickStep
  PROVE  Policy!Next \/ UNCHANGED Policy!vars
<1>1. /\ UNCHANGED <<scheduling_algorithm, p_state>>
      /\ pid \in Pids /\ NextPid(pid) \in Pids /\ firstPid \in Pids
      /\ i \in 0 .. NPROCS - 1 /\ current \in Procs
      /\ \A q \in Procs : q \in Pids
      /\ \A q \in Pids : Runnable(q) => q \in Procs
  BY PickTypes
<1>2. ASSUME NEW label, Stay(label), UNCHANGED attrs, Phase' = Phase
      PROVE  UNCHANGED Policy!vars
  BY <1>1, <1>2, Stutter DEF Stay, attrs
<1>3. CASE RoundRobin
  <2>1. kpc = "round_robin" /\ UNCHANGED attrs /\ scheduling_algorithm = 0
    BY <1>3 DEF RoundRobin, SearchInv, LoopInv
  <2>2. CASE Runnable(NextPid(pid))
    <3>1. ASSUME NEW q \in Alive
          PROVE  Policy!Ahead(NextPid(pid)) <= Policy!Ahead(q)
      <4>1. Travelled < Policy!Ahead(q)
        BY <2>1, <3>1 DEF SearchInv, RoundRobinInv, Alive
      <4>2. Policy!Ahead(NextPid(pid)) = Travelled + 1
        BY <1>1, <2>2, NextIsAhead
      <4>3. Policy!Ahead(q) \in Int /\ Travelled \in Int
        BY <1>1, <3>1, AheadType, KernAssumption
           DEF Alive, Travelled, Procs, Pids
      <4>. QED  BY <4>1, <4>2, <4>3
    <3>2. Policy!Chosen(NextPid(pid))
      BY <2>1, <3>1 DEF Policy!Chosen, Alive
    <3>. QED  BY <1>1, <1>3, <2>1, <2>2, <3>2, RunDispatches DEF RoundRobin
  <2>3. CASE ~Runnable(NextPid(pid))
    BY <1>2, <1>3, <2>1, <2>3 DEF RoundRobin, Stay, Phase
  <2>. QED  BY <2>2, <2>3
<1>4. CASE Strict
  <2>1. kpc = "strict" /\ UNCHANGED attrs /\ scheduling_algorithm = 2
    BY <1>4 DEF Strict, SearchInv, LoopInv
  <2>2. CASE Runnable(pid)
    <3>1. Policy!Chosen(pid)
      BY <2>1 DEF Policy!Chosen, SearchInv, StrictInv
    <3>. QED  BY <1>1, <1>4, <2>1, <2>2, <3>1, RunDispatches DEF Strict
  <2>3. CASE ~Runnable(pid)
    BY <1>2, <1>4, <2>1, <2>3 DEF Strict, Stay, Phase
  <2>. QED  BY <2>2, <2>3
<1>5. CASE PriorityDo \/ PriorityFor
  BY <1>2, <1>5 DEF PriorityDo, PriorityFor, Stay, Phase
<1>6. CASE PriorityWhile
  <2>1. /\ kpc = "prio_for" /\ i = NPROCS - 1 /\ UNCHANGED attrs
        /\ scheduling_algorithm = 41
    BY <1>6 DEF PriorityWhile, SearchInv, LoopInv
  <2>2. CASE Runnable(firstPid)
    <3>1. ASSUME NEW q \in Alive PROVE p_priority[firstPid] <= p_priority[q]
      BY <1>1, <2>1, <3>1, SeenAll DEF Alive, SearchInv, PriorityInv
    <3>2. Policy!Chosen(firstPid)
      BY <1>1, <2>1, <2>2, <3>1 DEF Policy!Chosen, Alive
    <3>. QED  BY <1>1, <1>6, <2>1, <2>2, <3>2, RunDispatches
              DEF PriorityWhile
  <2>3. CASE ~Runnable(firstPid)
    BY <1>2, <1>6, <2>1, <2>3 DEF PriorityWhile, Stay, Phase
  <2>. QED  BY <2>2, <2>3
<1>7. CASE ShareKeep
  <2>1. /\ kpc = "share" /\ pid = current /\ scheduling_algorithm = 42
        /\ Phase = "kernel"
    BY <1>7 DEF ShareKeep, SearchInv, LoopInv, Phase
  <2>2. CASE HasShare(pid)
    <3>1. current \in Policy!InBudget
      BY <1>1, <2>1, <2>2, BudgetIs
    <3>2. Policy!Chosen(pid)
      BY <2>1, <3>1 DEF Policy!Chosen
    <3>. QED  BY <1>1, <1>7, <2>1, <2>2, <3>2, UseShareDispatches
              DEF ShareKeep
  <2>3. CASE ~HasShare(pid)
    <3>1. /\ UNCHANGED <<current, attrs>> /\ kpc' = "share_find"
      BY <1>7, <2>3 DEF ShareKeep, Stay
    <3>2. current \notin Policy!InBudget
      BY <1>1, <2>1, <2>3, BudgetIs
    <3>3. Policy!Scan
      BY <1>1, <2>1, <3>1, <3>2 DEF Policy!Scan, attrs, Runnable
    <3>. QED  BY <3>3 DEF Policy!Next
  <2>. QED  BY <2>2, <2>3
<1>8. CASE ShareFind
  BY <1>2, <1>8 DEF ShareFind, Stay, Phase
<1>9. CASE ShareReset
  <2>1. /\ kpc = "share_find" /\ kpc' = "share_find" /\ i = NPROCS - 1
        /\ UNCHANGED <<current, p_priority, p_share_amt>>
        /\ p_share_left' = [p \in Pids |-> IF p = 0 THEN p_share_left[p]
                                                    ELSE p_share_amt[p]]
    BY <1>9 DEF ShareReset, Stay
  <2>2. Used' = [p \in Procs |-> 0]
    <3>1. ASSUME NEW p \in Procs PROVE p_share_amt'[p] - p_share_left'[p] = 0
      <4>1. p # 0 /\ p \in Pids /\ p_share_amt[p] \in Int
        BY <3>1, KernAssumption DEF IInv, TypeOK, Procs, Pids
      <4>. QED  BY <2>1, <4>1
    <3>. QED  BY <3>1 DEF Used
  <2>3. CASE Fresh
    <3>1. Used = [p \in Procs |-> 0]
      <4>1. ASSUME NEW p \in Procs PROVE p_share_amt[p] - p_share_left[p] = 0
        <5>1. p_share_amt[p] \in Int
          BY <1>1 , KernAssumption DEF IInv, TypeOK
        <5>. QED  BY <2>3, <5>1 DEF Fresh
      <4>. QED  BY <4>1 DEF Used
    <3>2. Used' = Used /\ Phase' = Phase
      BY <2>1, <2>2, <3>1 DEF Phase
    <3>. QED  BY <1>1, <2>1, <3>2 DEF Policy!vars, Used, Phase, Runnable
  <2>4. CASE ~Fresh
    <3>1. \A q \in Procs : ~HasShare(q)
      BY <1>1, <2>1, <2>4, SeenAll DEF SearchInv, FindInv
    <3>2. Policy!InBudget = {}
      <4>1. \A q \in Policy!InBudget : q \in Procs
        BY DEF Policy!InBudget
      <4>. QED  BY <3>1, <4>1, BudgetIs
    <3>3. Policy!NewRound
      BY <1>1, <2>1, <2>2, <3>2 DEF Policy!NewRound, Policy!Procs, Procs,
         Used, Runnable
    <3>. QED  BY <3>3 DEF Policy!Next
  <2>. QED  BY <2>3, <2>4
<1>10. CASE ShareMax
  BY <1>2, <1>10 DEF ShareMax, Stay, Phase
<1>11. CASE ShareRun
  <2>1. /\ kpc = "share_max" /\ i = NPROCS - 1 /\ Phase = "scan"
        /\ scheduling_algorithm = 42 /\ HasShare(firstPid)
    BY <1>11 DEF ShareRun, SearchInv, LoopInv, Phase, IInv, Candidate
  <2>2. firstPid \in Procs
    BY <1>1, <2>1 DEF HasShare
  <2>3. ASSUME NEW q \in Policy!InBudget
        PROVE  p_share_amt[q] <= p_share_amt[firstPid]
    <3>1. q \in Procs
      BY <2>3 DEF Policy!InBudget
    <3>2. HasShare(q) /\ Seen(q)
      BY <1>1, <2>1, <2>3, <3>1, BudgetIs, SeenAll
    <3>. QED  BY <2>1, <3>1, <3>2 DEF SearchInv, MaxInv
  <2>4. ASSUME NEW q \in Policy!InBudget PROVE q \in Procs
    BY DEF Policy!InBudget
  <2>5. Policy!Chosen(firstPid)
    BY <2>1, <2>2, <2>3, <2>4, BudgetIs DEF Policy!Chosen, Phase
  <2>. QED  BY <1>1, <1>11, <2>1, <2>5, UseShareDispatches DEF ShareRun
<1>12. CASE Lottery
  <2>1. kpc = "lottery" /\ UNCHANGED attrs /\ scheduling_algorithm = 7
    BY <1>12 DEF Lottery, SearchInv, LoopInv
  <2>2. CASE Stay("lottery")
    BY <1>2, <2>1, <2>2 DEF Stay, Phase
  <2>3. ASSUME NEW n, NEW p \in Procs, Wins(n, p), Run(p) PROVE Policy!Next
    <3>1. Runnable(p) /\ Policy!Chosen(p)
      BY <2>1, <2>3 DEF Wins, Policy!Chosen
    <3>. QED  BY <1>1, <2>1, <2>3, <3>1, RunDispatches
  <2>. QED  BY <1>12, <2>2, <2>3 DEF Lottery
<1>. QED
  BY <1>3, <1>4, <1>5, <1>6, <1>7, <1>8, <1>9, <1>10, <1>11, <1>12
     DEF PickStep

(* "It picks a runnable process, then context-switches to that process":   *)
(* under every algorithm schedule() takes only the decisions SchedPolicy   *)
(* allows, and a system call changes nothing but what it should.           *)
THEOREM PolicyTheorem == Spec => ImplementsPolicy
<1>1. Init => Policy!Init
  <2>. SUFFICES ASSUME Init PROVE Policy!Init
    OBVIOUS
  <2>1. \A p \in Procs : p \in Pids /\ p # 0
    BY KernAssumption DEF Procs, Pids
  <2>2. /\ Alive = Procs
        /\ [p \in Procs |-> p_priority[p]] = [p \in Procs |-> 0]
        /\ [p \in Procs |-> p_share_amt[p]] = [p \in Procs |-> 1]
        /\ Used = [p \in Procs |-> 0]
    BY <2>1 DEF Init, Alive, Used, Runnable
  <2>. QED  BY <2>2 DEF Init, Policy!Init, Policy!Procs, Procs, Alive, Used
<1>2. ASSUME IInv, SearchInv, [Next]_vars
      PROVE  [Policy!Next]_(Policy!vars)
  <2>1. CASE UserInstruction
    BY <2>1, Stutter DEF UserInstruction, UserMode, config, table, attrs, Phase
  <2>2. CASE UserTrap \/ Tick
    BY <1>2, <2>2, TrapEnters DEF UserTrap, Tick, IInv, TypeOK
  <2>3. CASE PickStep
    BY <1>2, <2>3, PickImplements
  <2>4. CASE /\ DivideError
             /\ UNCHANGED <<config, p_state, p_exit_status, screen>>
    BY <2>4, Stutter DEF DivideError, Stay, config, attrs, Phase
  <2>5. CASE /\ UnknownAlgorithm
             /\ UNCHANGED <<config, p_state, p_exit_status, p_registers>>
    BY <2>5, Stutter DEF UnknownAlgorithm, Stay, config, attrs, Phase
  <2>6. CASE UNCHANGED vars
    BY <2>6, Stutter DEF vars, config, table, attrs, Phase
  <2>. QED
    BY <1>2, <2>1, <2>2, <2>3, <2>4, <2>5, <2>6 DEF Next, KernelStep, Spin
<1>. QED
  BY <1>1, <1>2, TypeCorrect, SearchTheorem, PTL
     DEF Spec, ImplementsPolicy, Policy!Spec

-----------------------------------------------------------------------------
(* The draw of algorithm 7.  Entry 0 of proc_array holds no tickets.       *)
TicketsInv ==
  /\ p_lottery_amt[0] = 0
  /\ kpc = "unknown" => scheduling_algorithm \notin {0, 2, 41, 42, 7}

LEMMA InitTickets == Init => TicketsInv
BY KernAssumption DEF Init, TicketsInv, Pids

LEMMA NextTickets == ASSUME IInv, TicketsInv, [Next]_vars PROVE TicketsInv'
<1>1. current \in Procs /\ current # 0 /\ p_lottery_amt \in [Pids -> 0 .. Word - 1]
  BY DEF IInv, TypeOK, Procs
<1>2. ASSUME NEW reg, NEW n, SysLottery(reg, n) PROVE p_lottery_amt'[0] = 0
  BY <1>1, <1>2 DEF SysLottery, TicketsInv
<1>3. ASSUME NEW reg, SystemCall(reg) \/ ClockInterrupt(reg) PROVE TicketsInv'
  <2>1. Trap(reg) /\ (CallSchedule \/ kpc' = "halted")
    BY <1>3 DEF SystemCall, SysYield, SysExit, SysPriority, SysShare,
       SysLottery, SysPrint, UnhandledInterrupt, ClockInterrupt
  <2>2. kpc' = "unknown" => scheduling_algorithm' \notin {0, 2, 41, 42, 7}
    BY <2>1 DEF Trap, CallSchedule, config
  <2>3. p_lottery_amt'[0] = 0
    <3>1. p_lottery_amt' = p_lottery_amt \/ \E n : SysLottery(reg, n)
      BY <1>3 DEF SystemCall, SysYield, SysExit, SysPriority, SysShare,
         SysPrint, UnhandledInterrupt, ClockInterrupt, attrs
    <3>. QED  BY <1>2, <3>1 DEF TicketsInv
  <2>. QED  BY <2>2, <2>3 DEF TicketsInv
<1>4. CASE UserInstruction \/ UNCHANGED vars
  BY <1>4 DEF UserInstruction, vars, config, table, attrs, TicketsInv
<1>5. CASE PickStep
  <2>1. p_lottery_amt' = p_lottery_amt /\ kpc' # "unknown"
    BY <1>5 DEF PickStep, RoundRobin, Strict, PriorityDo, PriorityFor,
       PriorityWhile, ShareKeep, ShareFind, ShareReset, ShareMax, ShareRun,
       UseShare, Lottery, Run, Stay, attrs
  <2>. QED  BY <2>1 DEF TicketsInv
<1>6. CASE DivideError \/ UnknownAlgorithm
  BY <1>6 DEF DivideError, UnknownAlgorithm, Stay, attrs, TicketsInv
<1>. QED
  BY <1>3, <1>4, <1>5, <1>6 DEF Next, UserTrap, Tick, KernelStep, Spin

(* The table of the draw: each entry adds the tickets of one process to    *)
(* the one before, in an unsigned int.                                     *)
LEMMA CumTicketsIs ==
  ASSUME TypeOK
  PROVE  /\ CumTickets \in [Pids -> 0 .. Word - 1]
         /\ CumTickets[0] = 0
         /\ \A p \in Procs :
              CumTickets[p] = (CumTickets[p - 1] + p_lottery_amt[p]) % Word
<1>. DEFINE Table(f) == f = [p \in Pids |-> IF p = 0 THEN 0
                               ELSE (f[p - 1] + p_lottery_amt[p]) % Word]
            add == [p \in Procs |->
                      [n \in 0 .. Word - 1 |-> (n + p_lottery_amt[p]) % Word]]
            zero == 0
            W == 0 .. Word - 1
            last == NPROCS - 1
<1>1. ASSUME NEW p \in Procs, NEW n \in W
      PROVE  /\ add[p][n] = (n + p_lottery_amt[p]) % Word
             /\ add[p][n] \in W
  <2>1. p_lottery_amt[p] \in Int
    BY KernAssumption DEF TypeOK, Procs, Pids
  <2>2. n + p_lottery_amt[p] \in Int
    BY <2>1, KernAssumption
  <2>3. Word \in Nat \ {0}
    BY KernAssumption
  <2>4. (n + p_lottery_amt[p]) % Word \in W
    <3>. DEFINE m == n + p_lottery_amt[p]
    <3>. HIDE DEF m
    <3>1. m % Word \in 0 .. Word - 1
      BY <2>2, <2>3, Division DEF m
    <3>. QED  BY <3>1 DEF m
  <2>. QED  BY <2>4
<1>2. /\ last \in Nat /\ zero \in W
      /\ Procs = 1 .. last /\ Pids = 0 .. last
  BY KernAssumption DEF Procs, Pids
<1>. HIDE DEF add, zero, last, W
<1>3. PICK f \in [0 .. last -> W] : RecursFrom(f, last, zero, add)
  <2>1. StepsUpTo(last, W, add)
    BY <1>1, <1>2 DEF StepsUpTo
  <2>. QED  BY <1>2, <2>1, PrimitiveRecursion
<1>4. Table(f)
  <2>1. ASSUME NEW p \in Pids
        PROVE  f[p] = IF p = 0 THEN 0 ELSE (f[p - 1] + p_lottery_amt[p]) % Word
    <3>1. p # 0 => p \in Procs /\ p - 1 \in Pids
      BY <1>2, KernAssumption DEF Procs, Pids
    <3>2. p # 0 => f[p - 1] \in W
      BY <1>2, <1>3, <3>1
    <3>. QED  BY <1>1, <1>2, <1>3, <3>1, <3>2 DEF RecursFrom, zero
  <2>. QED  BY <1>2, <1>3, <2>1
<1>5. Table(CumTickets)
  <2>1. CumTickets = CHOOSE g : Table(g)
    BY DEF CumTickets
  <2>. HIDE DEF Table
  <2>. QED  BY <1>4, <2>1
<1>6. /\ CumTickets[0] = 0
      /\ \A p \in Procs :
           CumTickets[p] = (CumTickets[p - 1] + p_lottery_amt[p]) % Word
  <2>1. 0 \in Pids /\ \A p \in Procs : p \in Pids /\ p # 0
    BY KernAssumption DEF Procs, Pids
  <2>. QED  BY <1>5, <2>1
<1>7. ASSUME NEW p \in Pids PROVE CumTickets[p] \in W
  <2>. DEFINE T == {k \in Pids : CumTickets[k] \in W}
  <2>1. 0 \in T
    BY <1>2, <1>6, KernAssumption DEF zero, Pids
  <2>2. ASSUME NEW k \in 0 .. last - 1, k \in T PROVE k + 1 \in T
    <3>1. k + 1 \in Procs /\ k + 1 \in Pids /\ (k + 1) - 1 = k
      BY <1>2
    <3>2. CumTickets[k + 1] = (CumTickets[k] + p_lottery_amt[k + 1]) % Word
      BY <1>6, <3>1
    <3>3. CumTickets[k] \in W
      BY <2>2
    <3>. QED  BY <1>1, <3>1, <3>2, <3>3
  <2>3. 0 .. last \subseteq T
    <3>. HIDE DEF T
    <3>. QED  BY <1>2, <2>1, <2>2, IntervalInduction
  <2>. QED  BY <1>2, <2>3
<1>8. CumTickets \in [Pids -> W]
  BY <1>5, <1>7
<1>. QED  BY <1>6, <1>8 DEF W

-----------------------------------------------------------------------------
(* The tickets of processes 1 to p, in mathematics.                        *)
Tickets1To(p) == SumFunctionOnSet(p_lottery_amt, 1 .. p)

LEMMA TicketsAdd ==
  ASSUME TypeOK
  PROVE  /\ \A p \in Pids : Tickets1To(p) \in Int
         /\ Tickets1To(0) = 0
         /\ \A p \in Procs : Tickets1To(p) = Tickets1To(p - 1) + p_lottery_amt[p]
<1>1. ASSUME NEW p \in Pids
      PROVE  /\ IsFiniteSet(1 .. p)
             /\ \A q \in 1 .. p : p_lottery_amt[q] \in Int
             /\ p \in Int
  <2>1. p \in Int /\ 1 \in Int /\ \A q \in 1 .. p : q \in Pids
    BY KernAssumption DEF Pids
  <2>2. IsFiniteSet(1 .. p)
    BY <2>1, FS_Interval
  <2>3. ASSUME NEW q \in 1 .. p PROVE p_lottery_amt[q] \in Int
    BY <2>1, KernAssumption DEF TypeOK
  <2>. QED  BY <2>1, <2>2, <2>3
<1>2. ASSUME NEW p \in Pids
      PROVE  /\ SumFunctionOnSet(p_lottery_amt, {}) = 0
             /\ SumFunctionOnSet(p_lottery_amt, 1 .. p) \in Int
             /\ \A q \in 1 .. p :
                  SumFunctionOnSet(p_lottery_amt, 1 .. p)
                  = p_lottery_amt[q]
                    + SumFunctionOnSet(p_lottery_amt, (1 .. p) \ {q})
  BY <1>1, SumFacts
<1>3. 0 \in Pids /\ 1 .. 0 = {}
  BY KernAssumption DEF Pids
<1>4. ASSUME NEW p \in Procs
      PROVE  Tickets1To(p) = Tickets1To(p - 1) + p_lottery_amt[p]
  <2>1. p \in Pids /\ p - 1 \in Pids /\ p \in 1 .. p /\ (1 .. p) \ {p} = 1 .. p - 1
    BY KernAssumption DEF Procs, Pids
  <2>2. /\ Tickets1To(p) = p_lottery_amt[p] + Tickets1To(p - 1)
        /\ Tickets1To(p - 1) \in Int /\ p_lottery_amt[p] \in Int
    BY <1>1, <1>2, <2>1 DEF Tickets1To
  <2>. QED  BY <2>2
<1>. QED  BY <1>2, <1>3, <1>4 DEF Tickets1To

(* The table is right as far as an unsigned int can tell.                  *)
LEMMA CumTicketsAdd ==
  ASSUME TypeOK, NEW p \in Pids
  PROVE  CumTickets[p] = Tickets1To(p) % Word
<1>. DEFINE T == {k \in Pids : CumTickets[k] = Tickets1To(k) % Word}
            last == NPROCS - 1
<1>1. Word \in Nat \ {0} /\ last \in Nat
  BY KernAssumption
<1>2. 0 \in T
  <2>1. 0 % Word = 0
    BY <1>1, RemainderOfLess
  <2>. QED  BY <2>1, CumTicketsIs, TicketsAdd, KernAssumption DEF Pids
<1>3. ASSUME NEW k \in 0 .. last - 1, k \in T PROVE k + 1 \in T
  <2>1. k \in Pids /\ k + 1 \in Procs /\ k + 1 \in Pids /\ (k + 1) - 1 = k
    BY KernAssumption DEF Procs, Pids
  <2>2. CumTickets[k + 1] = (CumTickets[k] + p_lottery_amt[k + 1]) % Word
    BY <2>1, CumTicketsIs
  <2>3. Tickets1To(k + 1) = Tickets1To(k) + p_lottery_amt[k + 1]
    BY <2>1, TicketsAdd
  <2>4. Tickets1To(k) \in Int /\ p_lottery_amt[k + 1] \in Int
    BY <2>1, TicketsAdd, KernAssumption DEF TypeOK
  <2>5. ((Tickets1To(k) % Word) + p_lottery_amt[k + 1]) % Word
        = (Tickets1To(k) + p_lottery_amt[k + 1]) % Word
    BY <1>1, <2>4, RemainderOfSum
  <2>. QED  BY <1>3, <2>1, <2>2, <2>3, <2>5
<1>4. 0 .. last \subseteq T
  <2>. HIDE DEF T, last
  <2>. QED  BY <1>1, <1>2, <1>3, IntervalInduction
<1>. QED  BY <1>4 DEF Pids

LEMMA LotteryTotalIs ==
  ASSUME TypeOK, TicketsInv
  PROVE  LotteryTotal = AllTickets % Word
<1>1. NPROCS - 1 \in Pids /\ Word \in Nat \ {0}
  BY KernAssumption DEF Pids
<1>2. CumTickets[NPROCS - 1] = AllTickets % Word
  BY <1>1, CumTicketsAdd DEF Tickets1To, AllTickets, Procs
<1>3. CumTickets[NPROCS - 1] \in 0 .. Word - 1
  BY <1>1, CumTicketsIs
<1>4. CumTickets[NPROCS - 1] + p_lottery_amt[0] = CumTickets[NPROCS - 1]
  BY <1>3 DEF TicketsInv
<1>. QED  BY <1>1, <1>2, <1>3, <1>4, RemainderOfLess DEF LotteryTotal

(* The kernel, once entered through a gate that has a case, stops only for *)
(* an algorithm it does not know or a division by zero, which raises an    *)
(* exception in schedule() when the tickets of all processes add up to 0   *)
(* in an unsigned int.                                                     *)
THEOREM HaltTheorem == Spec => HaltsForAReason
<1>. DEFINE Reason == \/ scheduling_algorithm \notin {0, 2, 41, 42, 7}
                      \/ scheduling_algorithm = 7 /\ AllTickets % Word = 0
<1>1. ASSUME IInv, SearchInv, TicketsInv, [Next]_vars,
             kpc \notin {"user", "halted"}, kpc' = "halted"
      PROVE  Reason
  <2>. HIDE DEF Reason
  <2>1. CASE DivideError
    <3>1. kpc = "lottery" /\ LotteryTotal = 0
      BY <2>1 DEF DivideError
    <3>2. AllTickets % Word = 0
      BY <1>1, <3>1, LotteryTotalIs DEF IInv
    <3>. QED  BY <1>1, <3>1, <3>2 DEF Reason, SearchInv, LoopInv
  <2>2. CASE UnknownAlgorithm
    BY <1>1, <2>2 DEF UnknownAlgorithm, TicketsInv, Reason
  <2>3. CASE PickStep
    BY <1>1, <2>3 DEF PickStep, RoundRobin, Strict, PriorityDo, PriorityFor,
       PriorityWhile, ShareKeep, ShareFind, ShareReset, ShareMax, ShareRun,
       UseShare, Lottery, Run, Stay
  <2>4. ASSUME NEW reg, SystemCall(reg) \/ ClockInterrupt(reg) PROVE UserMode
    BY <2>4 DEF SystemCall, SysYield, SysExit, SysPriority, SysShare,
       SysLottery, SysPrint, UnhandledInterrupt, ClockInterrupt, Trap
  <2>5. CASE UNCHANGED vars
    BY <1>1, <2>5 DEF vars
  <2>. QED
    BY <1>1, <2>1, <2>2, <2>3, <2>4, <2>5
       DEF Next, UserInstruction, UserTrap, Tick, KernelStep, Spin, UserMode
<1>2. IInv /\ SearchInv /\ TicketsInv /\ [Next]_vars =>
        [kpc \notin {"user", "halted"} /\ kpc' = "halted" => Reason]_vars
  <2>. HIDE DEF Reason
  <2>. QED  BY <1>1
<1>3. Spec => []TicketsInv
  BY InitTickets, NextTickets, TypeCorrect, PTL DEF Spec
<1>. QED
  BY <1>2, <1>3, TypeCorrect, SearchTheorem, PTL DEF Spec, HaltsForAReason

-----------------------------------------------------------------------------
(* While the total fits in a word, the table grows and is exact.           *)
LEMMA TicketsGrow ==
  ASSUME TypeOK, NEW p \in Pids, NEW q \in p .. NPROCS - 1
  PROVE  0 <= Tickets1To(p) /\ Tickets1To(p) <= Tickets1To(q)
<1>. DEFINE last == NPROCS - 1
<1>1. last \in Nat /\ Pids = 0 .. last /\ Procs = 1 .. last
  BY KernAssumption DEF Pids, Procs
<1>2. ASSUME NEW k \in 0 .. last - 1
      PROVE  /\ Tickets1To(k + 1) = Tickets1To(k) + p_lottery_amt[k + 1]
             /\ p_lottery_amt[k + 1] \in Nat
             /\ Tickets1To(k) \in Int /\ Tickets1To(k + 1) \in Int
  <2>1. k \in Pids /\ k + 1 \in Procs /\ k + 1 \in Pids /\ (k + 1) - 1 = k
    BY <1>1
  <2>2. p_lottery_amt[k + 1] \in Nat
    BY <2>1, KernAssumption DEF TypeOK
  <2>3. Tickets1To(k + 1) = Tickets1To((k + 1) - 1) + p_lottery_amt[k + 1]
    BY <2>1, TicketsAdd
  <2>. QED  BY <2>1, <2>2, <2>3, TicketsAdd
<1>. HIDE DEF last
<1>3. ASSUME NEW a \in Pids, NEW b \in a .. last
      PROVE  Tickets1To(a) <= Tickets1To(b)
  <2>. DEFINE T == {k \in a .. last : Tickets1To(a) <= Tickets1To(k)}
  <2>0. a \in 0 .. last /\ Tickets1To(a) \in Int
    BY <1>1, TicketsAdd
  <2>1. a \in T
    BY <1>1, <2>0
  <2>2. ASSUME NEW k \in a .. last - 1, k \in T PROVE k + 1 \in T
    <3>1. k \in 0 .. last - 1 /\ k + 1 \in a .. last
      BY <1>1, <2>0
    <3>2. Tickets1To(a) <= Tickets1To(k)
      BY <2>2
    <3>. QED  BY <1>2, <2>0, <3>1, <3>2
  <2>3. a .. last \subseteq T
    <3>. HIDE DEF T
    <3>. QED  BY <1>1, <2>0, <2>1, <2>2, IntervalInduction
  <2>. QED  BY <2>3
<1>4. Tickets1To(0) = 0 /\ 0 \in Pids /\ p \in 0 .. last
  BY <1>1, TicketsAdd
<1>. QED  BY <1>3, <1>4 DEF last

LEMMA TableExact ==
  ASSUME TypeOK, TicketsInv, AllTickets < Word
  PROVE  /\ LotteryTotal = AllTickets /\ AllTickets = Tickets1To(NPROCS - 1)
         /\ \A p \in Pids : CumTickets[p] = Tickets1To(p)
<1>1. AllTickets = Tickets1To(NPROCS - 1) /\ NPROCS - 1 \in Pids
  BY KernAssumption DEF AllTickets, Tickets1To, Procs, Pids
<1>2. ASSUME NEW p \in Pids
      PROVE  Tickets1To(p) % Word = Tickets1To(p)
  <2>1. NPROCS - 1 \in p .. NPROCS - 1
    BY KernAssumption DEF Pids
  <2>2. 0 <= Tickets1To(p) /\ Tickets1To(p) <= Tickets1To(NPROCS - 1)
    BY <2>1, TicketsGrow
  <2>3. Tickets1To(p) \in Int /\ Tickets1To(NPROCS - 1) \in Int
    BY <1>1, TicketsAdd
  <2>4. Word \in Nat \ {0} /\ Tickets1To(p) \in 0 .. Word - 1
    BY <1>1, <2>2, <2>3, KernAssumption
  <2>. HIDE DEF Tickets1To
  <2>. QED  BY <2>4, RemainderOfLess
<1>. QED  BY <1>1, <1>2, LotteryTotalIs, CumTicketsAdd

(* With everybody runnable, the chain of ifs stops at the process in whose *)
(* part of the table the ticket is.                                        *)
LEMMA WinsIs ==
  ASSUME TypeOK, TicketsInv, AllTickets < Word, \A p \in Procs : Runnable(p),
         NEW p \in Procs
  PROVE  WinningTickets(p) = Tickets1To(p - 1) .. Tickets1To(p) - 1
<1>. DEFINE Total == Tickets1To(NPROCS - 1)
<1>1. /\ LotteryTotal = Total /\ Total \in Int
      /\ \A q \in Pids : CumTickets[q] = Tickets1To(q) /\ Tickets1To(q) \in Int
      /\ \A q \in Procs : q \in Pids /\ q - 1 \in Pids
      /\ Tickets1To(0) = 0
  <2>1. NPROCS - 1 \in Pids /\ \A q \in Procs : q \in Pids /\ q - 1 \in Pids
    BY KernAssumption DEF Procs, Pids
  <2>. QED  BY <2>1, TableExact, TicketsAdd
<1>2. /\ 0 <= Tickets1To(p - 1) /\ Tickets1To(p) <= Total
  <2>1. NPROCS - 1 \in p .. NPROCS - 1 /\ p - 1 \in p - 1 .. NPROCS - 1
    BY KernAssumption DEF Procs
  <2>. QED  BY <1>1, <2>1, TicketsGrow
<1>3. ASSUME NEW n \in 0 .. Total - 1, NEW q \in Procs
      PROVE  Tried(n, q) <=> n < Tickets1To(q)
  BY <1>1 DEF Tried
<1>4. ASSUME NEW n \in 0 .. Total - 1
      PROVE  (\A q \in 1 .. p - 1 : ~Tried(n, q)) <=> Tickets1To(p - 1) <= n
  <2>1. ASSUME \A q \in 1 .. p - 1 : ~Tried(n, q)
        PROVE  Tickets1To(p - 1) <= n
    <3>1. CASE p = 1
      BY <1>1, <3>1
    <3>2. CASE p # 1
      <4>1. p - 1 \in 1 .. p - 1 /\ p - 1 \in Procs
        BY <3>2, KernAssumption DEF Procs
      <4>. QED  BY <1>1, <1>3, <2>1, <4>1
    <3>. QED  BY <3>1, <3>2
  <2>2. ASSUME Tickets1To(p - 1) <= n, NEW q \in 1 .. p - 1
        PROVE  ~Tried(n, q)
    <3>1. q \in Procs /\ p - 1 \in q .. NPROCS - 1 /\ p - 1 \in Pids
      BY KernAssumption DEF Procs, Pids
    <3>2. Tickets1To(q) <= Tickets1To(p - 1)
      BY <1>1, <3>1, TicketsGrow
    <3>3. Tickets1To(q) \in Int /\ Tickets1To(p - 1) \in Int
      BY <1>1, <3>1
    <3>. QED  BY <1>3, <2>2, <3>1, <3>2, <3>3
  <2>. QED  BY <2>1, <2>2
<1>5. \A q \in 1 .. p - 1 : Runnable(q)
  BY KernAssumption DEF Procs
<1>6. ASSUME NEW n \in 0 .. Total - 1
      PROVE  Wins(n, p) <=> n \in Tickets1To(p - 1) .. Tickets1To(p) - 1
  <2>1. Tickets1To(p - 1) \in Int /\ Tickets1To(p) \in Int
    BY <1>1
  <2>. QED  BY <1>3, <1>4, <1>5, <2>1 DEF Wins
<1>7. Tickets1To(p - 1) .. Tickets1To(p) - 1 \subseteq 0 .. Total - 1
  <2>1. Tickets1To(p - 1) \in Int /\ Tickets1To(p) \in Int
    BY <1>1
  <2>. QED  BY <1>1, <1>2, <2>1
<1>. QED  BY <1>1, <1>6, <1>7 DEF WinningTickets

(* "Each process wins with exactly as many tickets as it holds": what the  *)
(* cumulative table and the chain of ifs are for, as long as nobody has    *)
(* exited and the unsigned total has not wrapped.                          *)
THEOREM LotteryTheorem == Spec => []LotteryExact
<1>1. ASSUME TypeOK, TicketsInv PROVE LotteryExact
  <2>. SUFFICES ASSUME \A p \in Procs : Runnable(p), AllTickets < Word,
                       NEW p \in Procs
                PROVE  Cardinality(WinningTickets(p)) = p_lottery_amt[p]
    BY DEF LotteryExact
  <2>. DEFINE a == Tickets1To(p - 1)
              b == Tickets1To(p)
  <2>1. WinningTickets(p) = a .. b - 1
    BY <1>1, WinsIs
  <2>2. a \in Int /\ b \in Int /\ b - 1 \in Int /\ b = a + p_lottery_amt[p]
        /\ p_lottery_amt[p] \in Nat
    <3>1. p \in Pids /\ p - 1 \in Pids
      BY KernAssumption DEF Procs, Pids
    <3>2. a \in Int /\ b \in Int /\ b = a + p_lottery_amt[p]
      BY <1>1, <3>1, TicketsAdd
    <3>3. p_lottery_amt[p] \in Nat
      BY <1>1, <3>1, KernAssumption DEF TypeOK
    <3>. QED  BY <3>2, <3>3
  <2>. HIDE DEF a, b
  <2>3. Cardinality(a .. b - 1) = IF a > b - 1 THEN 0 ELSE (b - 1) - a + 1
    BY <2>2, FS_Interval
  <2>. QED  BY <2>1, <2>2, <2>3
<1>2. Spec => []TicketsInv
  BY InitTickets, NextTickets, TypeCorrect, PTL DEF Spec
<1>3. IInv => TypeOK
  BY DEF IInv
<1>. QED  BY <1>1, <1>2, <1>3, TypeCorrect, PTL
=============================================================================
