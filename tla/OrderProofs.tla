----------------------------- MODULE OrderProofs ---------------------------
(***************************************************************************)
(* In which order the programs of exercise 8 print, for any number of      *)
(* programs and characters: what answers.txt says of the algorithms, of    *)
(* the whole system, with every search of schedule() in between.           *)
(***************************************************************************)
EXTENDS SchedOSProofs

(* What SchedKern assumes of its constants is so.                           *)
LEMMA KernConstants ==
  /\ NPROCS \in Nat /\ NPROCS >= 2
  /\ Algorithms \subseteq Nat /\ ClockChoices \subseteq BOOLEAN
  /\ Word \in Nat /\ Word >= 2
  /\ SetupArgs \subseteq 0 .. Word - 1
  /\ AppStart \in [Kern!Pids -> AppContext]
  /\ VideoCells \in Nat /\ VideoCells >= Kern!CONSOLE_END
<1>1. AppStart \in [Kern!Pids -> AppContext]
  <2>1. [at |-> "setup", i |-> 0, cell |-> 0, stored |-> FALSE] \in AppContext
    BY OSAssumption DEF AppContext, Places
  <2>. QED  BY <2>1 DEF AppStart, Kern!Pids, Pids
<1>. QED BY <1>1, OSAssumption DEF SetupArgs, Kern!CONSOLE_END, CONSOLE_END

(* The kernel's cursor arithmetic is that of the screen.                   *)
LEMMA KernelNewline ==
  \A c \in Nat : Kern!EndOfRow(c) \in 0 .. Kern!CONSOLE_END
BY EndOfRowBound DEF Kern!EndOfRow, EndOfRow, Kern!WrapCursor, WrapCursor,
   Kern!CONSOLE_END, CONSOLE_END

-----------------------------------------------------------------------------
(* The kernel's inductive invariant, the same as in SchedKernProofs.  What *)
(* is proved of a module cannot be cited of an instance of it, so the      *)
(* argument is repeated here for Kern, with the programs' registers as     *)
(* contexts.                                                               *)
EntryZeroEmpty == p_state[0] = "EMPTY"
Candidate      == kpc = "share_max" => Kern!HasShare(firstPid)
KInv == Kern!TypeOK /\ EntryZeroEmpty /\ Candidate /\ Kern!RunsRunnable

(* The successor of an index of proc_array is an index of proc_array.      *)
LEMMA NextPidType == \A p \in Kern!Pids : Kern!NextPid(p) \in Kern!Pids
  BY KernConstants DEF Kern!Pids, Kern!NextPid

(* p_share_left-- stays in an unsigned int.                                *)
LEMMA UnsignedDecType ==
  \A n \in 0 .. Word - 1 : Kern!UnsignedDec(n) \in 0 .. Word - 1
  BY KernConstants DEF Kern!UnsignedDec

(* run() of a runnable process re-establishes the part of the invariant    *)
(* about the control state.                                                *)
LEMMA RunInv ==
  ASSUME Kern!TypeOK, EntryZeroEmpty, NEW p \in Kern!Pids,
         Kern!Runnable(p), Kern!Run(p), UNCHANGED <<p_state, p_registers>>
  PROVE  /\ current' \in Kern!Procs /\ cpu' \in AppContext /\ kpc' = "user"
         /\ pid' \in Kern!Pids /\ firstPid' \in Kern!Pids
         /\ i' \in 0 .. NPROCS - 1 /\ firstPriority' \in 0 .. Word - 1
         /\ EntryZeroEmpty' /\ Candidate' /\ Kern!RunsRunnable'
<1>1. p \in Kern!Procs
  BY DEF Kern!Runnable, EntryZeroEmpty, Kern!Pids, Kern!Procs
<1>2. 0 \in Kern!Pids /\ 0 \in 0 .. NPROCS - 1 /\ 0 \in 0 .. Word - 1
  BY KernConstants DEF Kern!Pids
<1>3. p # 0
  BY <1>1 DEF Kern!Procs
<1>. QED
  BY <1>1, <1>2, <1>3 DEF Kern!TypeOK, Kern!Run, Kern!Runnable, EntryZeroEmpty,
     Candidate, Kern!RunsRunnable, Kern!UserMode

LEMMA InitKern == Kern!Init => KInv
<1> SUFFICES ASSUME Kern!Init PROVE KInv
  OBVIOUS
<1>1. /\ 1 \in Kern!Procs /\ 0 \in Kern!Pids /\ 1 \in Kern!Pids
      /\ Kern!Procs \subseteq Kern!Pids
  BY KernConstants DEF Kern!Procs, Kern!Pids
<1>2. cpu \in AppContext
  BY <1>1, KernConstants DEF Kern!Init
<1>3. p_share_amt \in [Kern!Pids -> 0 .. Word - 1]
  BY KernConstants DEF Kern!Init
<1>4. cursorpos \in 0 .. VideoCells
  BY KernConstants DEF Kern!Init
<1>5. console \in [Kern!Cells -> Procs \cup {Blank, KernelText}]
  BY DEF Kern!Init
<1>6. 0 \in 0 .. Word - 1 /\ 0 \in 0 .. NPROCS - 1
  BY KernConstants
<1>7. Kern!TypeOK
  BY <1>1, <1>2, <1>3, <1>4, <1>5, <1>6, KernConstants DEF Kern!Init,
     Kern!TypeOK, Kern!Labels
<1>8. EntryZeroEmpty /\ Candidate /\ Kern!RunsRunnable
  BY <1>1 DEF Kern!Init, EntryZeroEmpty, Candidate, Kern!RunsRunnable,
     Kern!Runnable, Kern!UserMode
<1>. QED
  BY <1>7, <1>8 DEF KInv

(* A trap and the call of schedule() at its end.                           *)
LEMMA TrapInv ==
  ASSUME KInv, NEW reg \in AppContext, Kern!Trap(reg)
  PROVE  /\ current' = current
         /\ current \in Kern!Procs /\ current \in Kern!Pids
         /\ Kern!Runnable(current)
         /\ scheduling_algorithm' \in Algorithms
         /\ allow_clock_interrupt' \in BOOLEAN /\ cpu' \in AppContext
         /\ p_registers' \in [Kern!Pids -> AppContext]
         /\ Kern!CallSchedule =>
              /\ kpc' \in Kern!Labels /\ kpc' # "user" /\ kpc' # "share_max"
              /\ pid' \in Kern!Pids /\ i' \in 0 .. NPROCS - 1
              /\ firstPid' \in Kern!Pids /\ firstPriority' \in 0 .. Word - 1
<1>1. Kern!Procs \subseteq Kern!Pids /\ 1 \in Kern!Pids
  BY KernConstants DEF Kern!Procs, Kern!Pids
<1>2. current \in Kern!Procs /\ current \in Kern!Pids /\ Kern!Runnable(current)
  BY <1>1 DEF KInv, Kern!TypeOK, Kern!RunsRunnable, Kern!Trap, Kern!UserMode
<1>3. p_registers' \in [Kern!Pids -> AppContext]
  BY <1>2 DEF KInv, Kern!TypeOK, Kern!Trap
<1>4. ASSUME Kern!CallSchedule
      PROVE  kpc' \in Kern!Labels /\ kpc' # "user" /\ kpc' # "share_max"
  BY <1>4 DEF Kern!CallSchedule, Kern!Labels
<1>5. ASSUME Kern!CallSchedule
      PROVE  /\ pid' \in Kern!Pids /\ i' \in 0 .. NPROCS - 1
             /\ firstPid' \in Kern!Pids /\ firstPriority' \in 0 .. Word - 1
  BY <1>1, <1>2, <1>5 DEF Kern!CallSchedule, KInv, Kern!TypeOK
<1>. QED
  BY <1>2, <1>3, <1>4, <1>5 DEF KInv, Kern!TypeOK, Kern!Trap, Kern!config

(* A system call or an interrupt preserves the invariant.                  *)
LEMMA SystemCallInv ==
  ASSUME KInv, NEW reg \in AppContext,
         Kern!SystemCall(reg) \/ Kern!ClockInterrupt(reg)
  PROVE  KInv'
<1>1. CASE Kern!SysYield(reg) \/ Kern!ClockInterrupt(reg)
  <2>1. Kern!Trap(reg) /\ Kern!CallSchedule
    BY <1>1 DEF Kern!SysYield, Kern!ClockInterrupt
  <2>2. UNCHANGED <<p_state, p_exit_status, Kern!attrs, Kern!screen>>
    BY <1>1 DEF Kern!SysYield, Kern!ClockInterrupt
  <2>. QED
    BY <2>1, <2>2, TrapInv DEF KInv, Kern!TypeOK, Kern!attrs, Kern!screen,
       EntryZeroEmpty, Candidate, Kern!RunsRunnable, Kern!UserMode
<1>2. ASSUME NEW status \in {0}, Kern!SysExit(reg, status)
      PROVE  KInv'
  <2>1. /\ Kern!Trap(reg) /\ Kern!CallSchedule
        /\ UNCHANGED <<Kern!attrs, Kern!screen>>
    BY <1>2 DEF Kern!SysExit
  <2>2. /\ p_state' = [p_state EXCEPT ![current] = "ZOMBIE"]
        /\ p_exit_status' = [p_exit_status EXCEPT ![current] = status]
    BY <1>2 DEF Kern!SysExit
  <2>3. current # 0
    BY <2>1, TrapInv DEF Kern!Procs
  <2>4. p_exit_status' \in [Kern!Pids -> {0} \cup {0}]
    BY <1>2, <2>2 DEF KInv, Kern!TypeOK
  <2>5. p_state' \in [Kern!Pids -> {"EMPTY", "RUNNABLE", "BLOCKED", "ZOMBIE"}]
    BY <2>2 DEF KInv, Kern!TypeOK
  <2>6. 0 \in Kern!Pids
    BY KernConstants DEF Kern!Pids
  <2>7. p_state'[0] = "EMPTY"
    BY <2>2, <2>3, <2>6 DEF KInv, Kern!TypeOK, EntryZeroEmpty
  <2>. QED
    BY <2>1, <2>4, <2>5, <2>7, TrapInv DEF KInv, Kern!TypeOK, Kern!attrs,
       Kern!screen, EntryZeroEmpty, Candidate, Kern!RunsRunnable, Kern!UserMode
<1>3. ASSUME NEW n \in SetupArgs, Kern!SysPriority(reg, n)
      PROVE  KInv'
  <2>1. /\ Kern!Trap(reg) /\ Kern!CallSchedule
        /\ UNCHANGED <<p_state, p_exit_status, p_share_amt, p_share_left,
                       p_lottery_amt, Kern!screen>>
    BY <1>3 DEF Kern!SysPriority
  <2>2. p_priority' \in [Kern!Pids -> 0 .. Word - 1]
    BY <1>3, KernConstants DEF Kern!SysPriority, KInv, Kern!TypeOK
  <2>. QED
    BY <2>1, <2>2, TrapInv DEF KInv, Kern!TypeOK, Kern!screen, EntryZeroEmpty,
       Candidate, Kern!RunsRunnable, Kern!UserMode
<1>4. ASSUME NEW n \in SetupArgs, Kern!SysShare(reg, n)
      PROVE  KInv'
  <2>1. /\ Kern!Trap(reg) /\ Kern!CallSchedule
        /\ UNCHANGED <<p_state, p_exit_status, p_priority, p_lottery_amt,
                       Kern!screen>>
    BY <1>4 DEF Kern!SysShare
  <2>2. /\ p_share_amt' \in [Kern!Pids -> 0 .. Word - 1]
        /\ p_share_left' \in [Kern!Pids -> 0 .. Word - 1]
    BY <1>4, KernConstants DEF Kern!SysShare, KInv, Kern!TypeOK
  <2>. QED
    BY <2>1, <2>2, TrapInv DEF KInv, Kern!TypeOK, Kern!screen, EntryZeroEmpty,
       Candidate, Kern!RunsRunnable, Kern!UserMode
<1>5. ASSUME NEW n \in SetupArgs, Kern!SysLottery(reg, n)
      PROVE  KInv'
  <2>1. /\ Kern!Trap(reg) /\ Kern!CallSchedule
        /\ UNCHANGED <<p_state, p_exit_status, p_priority, p_share_amt,
                       p_share_left, Kern!screen>>
    BY <1>5 DEF Kern!SysLottery
  <2>2. p_lottery_amt' \in [Kern!Pids -> 0 .. Word - 1]
    BY <1>5, KernConstants DEF Kern!SysLottery, KInv, Kern!TypeOK
  <2>. QED
    BY <2>1, <2>2, TrapInv DEF KInv, Kern!TypeOK, Kern!screen, EntryZeroEmpty,
       Candidate, Kern!RunsRunnable, Kern!UserMode
<1>6. ASSUME NEW c \in Procs, Kern!SysPrint(reg, c)
      PROVE  KInv'
  <2>1. /\ Kern!Trap(reg) /\ Kern!CallSchedule
        /\ UNCHANGED <<p_state, p_exit_status, Kern!attrs>>
    BY <1>6 DEF Kern!SysPrint
  <2>2. cursorpos' \in 0 .. VideoCells
    BY <1>6, KernConstants, ScreenAssumption DEF Kern!SysPrint, KInv,
       Kern!TypeOK
  <2>3. console' \in [Kern!Cells -> Procs \cup {Blank, KernelText}]
    BY <1>6 DEF Kern!SysPrint, KInv, Kern!TypeOK
  <2>. QED
    BY <2>1, <2>2, <2>3, TrapInv DEF KInv, Kern!TypeOK, Kern!attrs,
       EntryZeroEmpty, Candidate, Kern!RunsRunnable, Kern!UserMode
<1>. QED
  BY <1>1, <1>2, <1>3, <1>4, <1>5, <1>6 DEF Kern!SystemCall

(* An iteration of a loop of schedule() preserves the invariant: it keeps  *)
(* looking, with an index of proc_array, or it runs a runnable process.    *)
Kept == UNCHANGED <<Kern!config, p_state, p_exit_status,
                    p_registers, Kern!screen>>

(* It goes on looking. *)
LEMMA StayInv ==
  ASSUME KInv, Kept, UNCHANGED Kern!attrs, NEW label, Kern!Stay(label),
         label \in Kern!Labels, label # "user", label # "share_max",
         pid' \in Kern!Pids, i' \in 0 .. NPROCS - 1, firstPid' \in Kern!Pids,
         firstPriority' \in 0 .. Word - 1
  PROVE  KInv'
  BY DEF KInv, Kept, Kern!config, Kern!Stay, Kern!TypeOK, Kern!attrs,
     Kern!screen, EntryZeroEmpty, Candidate, Kern!RunsRunnable, Kern!UserMode

(* It runs p, having changed no attribute.                                 *)
LEMMA RunKeptInv ==
  ASSUME KInv, Kept, UNCHANGED Kern!attrs,
         NEW p \in Kern!Pids, Kern!Runnable(p), Kern!Run(p)
  PROVE  KInv'
<1>1. UNCHANGED <<p_state, p_registers>>
  BY DEF Kept
<1>2. Kern!TypeOK /\ EntryZeroEmpty
  BY DEF KInv
<1>3. "user" \in Kern!Labels
  BY DEF Kern!Labels
<1>. QED
  BY <1>1, <1>2, <1>3, RunInv DEF KInv, Kern!TypeOK, Kept, Kern!config,
     Kern!attrs, Kern!screen

(* It runs p and takes one of the shares p has left.                       *)
LEMMA UseShareInv ==
  ASSUME KInv, Kept, NEW p \in Kern!Pids, Kern!HasShare(p), Kern!UseShare(p)
  PROVE  KInv'
<1>1. UNCHANGED <<p_state, p_registers>>
  BY DEF Kept
<1>2. Kern!TypeOK /\ EntryZeroEmpty
  BY DEF KInv
<1>3. "user" \in Kern!Labels
  BY DEF Kern!Labels
<1>4. p_share_left' \in [Kern!Pids -> 0 .. Word - 1]
  BY UnsignedDecType DEF KInv, Kern!TypeOK, Kern!UseShare
<1>5. Kern!Runnable(p) /\ Kern!Run(p)
  BY DEF Kern!HasShare, Kern!UseShare
<1>6. UNCHANGED <<p_priority, p_share_amt, p_lottery_amt>>
  BY DEF Kern!UseShare
<1>. QED
  BY <1>1, <1>2, <1>3, <1>4, <1>5, <1>6, RunInv DEF KInv, Kern!TypeOK, Kept,
     Kern!config, Kern!screen

LEMMA PickInv == ASSUME KInv, Kern!PickStep PROVE KInv'
<1> USE DEF Kern!Labels
<1>1. Kept
  BY DEF Kern!PickStep, Kept
<1>2. /\ pid \in Kern!Pids /\ Kern!NextPid(pid) \in Kern!Pids
      /\ firstPid \in Kern!Pids
      /\ i \in 0 .. NPROCS - 1 /\ 0 \in 0 .. NPROCS - 1
      /\ firstPriority \in 0 .. Word - 1
      /\ i < NPROCS - 1 => i + 1 \in 0 .. NPROCS - 1
  BY NextPidType, KernConstants DEF KInv, Kern!TypeOK
<1>3. \A p \in Kern!Pids : /\ p_priority[p] \in 0 .. Word - 1
                      /\ p_share_amt[p] \in 0 .. Word - 1
  BY DEF KInv, Kern!TypeOK
<1>4. CASE Kern!RoundRobin
  BY <1>1, <1>2, <1>4, RunKeptInv, StayInv DEF Kern!RoundRobin
<1>5. CASE Kern!Strict
  BY <1>1, <1>2, <1>5, RunKeptInv, StayInv DEF Kern!Strict
<1>6. CASE Kern!PriorityDo
  BY <1>1, <1>2, <1>3, <1>6, StayInv DEF Kern!PriorityDo
<1>7. CASE Kern!PriorityFor
  BY <1>1, <1>2, <1>3, <1>7, StayInv DEF Kern!PriorityFor
<1>8. CASE Kern!PriorityWhile
  BY <1>1, <1>2, <1>8, RunKeptInv, StayInv DEF Kern!PriorityWhile, Kern!locals
<1>9. CASE Kern!ShareKeep
  BY <1>1, <1>2, <1>9, UseShareInv, StayInv DEF Kern!ShareKeep
<1>10. CASE Kern!ShareFind
  <2>1. CASE Kern!HasShare(Kern!NextPid(pid))
    <3>1. /\ Kern!Stay("share_max") /\ firstPid' = Kern!NextPid(pid)
          /\ firstPriority' = p_share_amt[Kern!NextPid(pid)] /\ i' = 0
          /\ pid' = Kern!NextPid(pid) /\ UNCHANGED Kern!attrs
      BY <1>10, <2>1 DEF Kern!ShareFind
    <3>2. Kern!HasShare(firstPid)'
      BY <1>1, <2>1, <3>1 DEF Kept, Kern!HasShare, Kern!Runnable, Kern!attrs
    <3>. QED
      BY <1>1, <1>2, <1>3, <3>1, <3>2 DEF KInv, Kept, Kern!config, Kern!Stay,
         Kern!TypeOK, Kern!attrs, Kern!screen, EntryZeroEmpty, Candidate,
         Kern!RunsRunnable, Kern!UserMode
  <2>2. CASE ~Kern!HasShare(Kern!NextPid(pid))
    BY <1>1, <1>2, <1>10, <2>2, StayInv DEF Kern!ShareFind
  <2>. QED
    BY <2>1, <2>2
<1>11. CASE Kern!ShareReset
  <2>1. p_share_left' \in [Kern!Pids -> 0 .. Word - 1]
    BY <1>11 DEF Kern!ShareReset, KInv, Kern!TypeOK
  <2>. QED
    BY <1>1, <1>2, <1>11, <2>1 DEF Kern!ShareReset, KInv, Kept, Kern!config,
       Kern!Stay, Kern!TypeOK, Kern!screen, EntryZeroEmpty, Candidate,
       Kern!RunsRunnable, Kern!UserMode
<1>12. CASE Kern!ShareMax
  <2>1. /\ kpc = "share_max" /\ i < NPROCS - 1 /\ Kern!Stay("share_max")
        /\ pid' = Kern!NextPid(pid) /\ i' = i + 1 /\ UNCHANGED Kern!attrs
    BY <1>12 DEF Kern!ShareMax
  <2>2. \/ /\ Kern!HasShare(Kern!NextPid(pid)) /\ firstPid' = Kern!NextPid(pid)
           /\ firstPriority' = p_share_amt[Kern!NextPid(pid)]
        \/ UNCHANGED <<firstPid, firstPriority>>
    BY <1>12 DEF Kern!ShareMax
  <2>3. firstPid' \in Kern!Pids /\ firstPriority' \in 0 .. Word - 1
    BY <1>2, <1>3, <2>2
  <2>4. Kern!HasShare(firstPid')
    BY <2>1, <2>2 DEF KInv, Candidate
  <2>5. Kern!HasShare(firstPid)'
    BY <1>1, <2>1, <2>4 DEF Kept, Kern!HasShare, Kern!Runnable, Kern!attrs
  <2>. QED
    BY <1>1, <1>2, <2>1, <2>3, <2>5 DEF KInv, Kept, Kern!config, Kern!Stay,
       Kern!TypeOK, Kern!attrs, Kern!screen, EntryZeroEmpty, Candidate,
       Kern!RunsRunnable, Kern!UserMode
<1>13. CASE Kern!ShareRun
  <2>1. Kern!HasShare(firstPid) /\ Kern!UseShare(firstPid)
    BY <1>13 DEF Kern!ShareRun, KInv, Candidate
  <2>. QED
    BY <1>1, <1>2, <2>1, UseShareInv
<1>14. CASE Kern!Lottery
  <2>1. UNCHANGED Kern!attrs
    BY <1>14 DEF Kern!Lottery
  <2>2. CASE Kern!Stay("lottery") /\ UNCHANGED Kern!locals
    BY <1>1, <1>2, <2>1, <2>2, StayInv DEF Kern!locals
  <2>3. ASSUME NEW n, NEW p \in Kern!Procs, Kern!Wins(n, p), Kern!Run(p)
        PROVE  KInv'
    <3>1. p \in Kern!Pids /\ Kern!Runnable(p)
      BY <2>3 DEF Kern!Wins, Kern!Procs, Kern!Pids
    <3>. QED
      BY <1>1, <2>1, <2>3, <3>1, RunKeptInv
  <2>. QED
    BY <1>14, <2>2, <2>3 DEF Kern!Lottery
<1>. QED
  BY <1>4, <1>5, <1>6, <1>7, <1>8, <1>9, <1>10, <1>11, <1>12, <1>13, <1>14 DEF
     Kern!PickStep

LEMMA NextKern == ASSUME KInv, [Kern!Next]_(Kern!vars) PROVE KInv'
<1>1. CASE Kern!UserTrap \/ Kern!Tick
  BY <1>1, SystemCallInv DEF Kern!UserTrap, Kern!Tick, KInv, Kern!TypeOK
<1>0. CASE Kern!UserInstruction
  <2>1. /\ cursorpos' \in 0 .. VideoCells
        /\ console' \in [Kern!Cells -> Procs \cup {Blank, KernelText}]
    BY <1>0 DEF Kern!UserInstruction, KInv, Kern!TypeOK, Kern!screen
  <2>. QED
    BY <1>0, <2>1 DEF Kern!UserInstruction, KInv, Kern!TypeOK, Kern!config,
       Kern!table, Kern!attrs, Kern!locals, EntryZeroEmpty, Candidate,
       Kern!RunsRunnable, Kern!UserMode, Kern!Runnable, Kern!HasShare
<1>2. CASE Kern!PickStep
  BY <1>2, PickInv
<1>3. CASE Kern!DivideError /\ UNCHANGED <<Kern!config, p_state,
                                     p_exit_status, Kern!screen>>
  <2>1. p_registers' \in [Kern!Pids -> AppContext]
    BY <1>3 DEF Kern!DivideError, KInv, Kern!TypeOK
  <2>. QED
    BY <1>3, <2>1 DEF Kern!DivideError, KInv, Kern!TypeOK, Kern!Stay,
       Kern!config, Kern!attrs, Kern!screen, Kern!locals, Kern!Labels,
       EntryZeroEmpty, Candidate, Kern!RunsRunnable, Kern!UserMode
<1>4. CASE Kern!UnknownAlgorithm /\ UNCHANGED <<Kern!config, p_state,
                                          p_exit_status, p_registers>>
  <2>1. Kern!CONSOLE_END \in Nat /\ Kern!CONSOLE_END <= VideoCells
    BY ScreenAssumption, KernConstants DEF Kern!CONSOLE_END
  <2>2. cursorpos' \in 0 .. VideoCells
    <3>1. Kern!EndOfRow(cursorpos) \in 0 .. VideoCells
      BY <2>1, KernelNewline, KernConstants DEF KInv, Kern!TypeOK
    <3>2. Kern!EndOfRow(Kern!EndOfRow(cursorpos)) \in 0 .. VideoCells
      BY <2>1, <3>1, KernelNewline, KernConstants
    <3>. QED
      BY <1>4, <3>2 DEF Kern!UnknownAlgorithm
  <2>3. console' \in [Kern!Cells -> Procs \cup {Blank, KernelText}]
    BY <1>4 DEF Kern!UnknownAlgorithm, KInv, Kern!TypeOK
  <2>. QED
    BY <1>4, <2>2, <2>3 DEF Kern!UnknownAlgorithm, KInv, Kern!TypeOK,
       Kern!Stay, Kern!config, Kern!attrs, Kern!locals, Kern!Labels,
       EntryZeroEmpty, Candidate, Kern!RunsRunnable, Kern!UserMode
<1>5. CASE UNCHANGED Kern!vars
  BY <1>5 DEF Kern!vars, Kern!config, Kern!table, Kern!attrs, Kern!screen,
     Kern!locals, KInv, Kern!TypeOK, EntryZeroEmpty, Candidate,
     Kern!RunsRunnable, Kern!UserMode, Kern!Runnable, Kern!HasShare
<1>. QED
  BY <1>0, <1>1, <1>2, <1>3, <1>4, <1>5 DEF Kern!Next, Kern!KernelStep,
     Kern!Spin

LEMMA KernInvariance == Spec => []KInv
<1>1. Init => KInv
  BY InitKern DEF Init
<1>2. ASSUME OSInv, KInv, [Next]_vars PROVE KInv'
  BY <1>2, StepImplements, NextKern
<1>. QED  BY <1>1, <1>2, Invariance, PTL DEF Spec

LockBit == cursorposLock \in {0, 1}

(* The lock is a bit and the kernel keeps its types, for every program the *)
(* system can be built with.                                               *)
THEOREM SystemTypes == Spec => []TypeOK
<1>1. Init => LockBit
  BY DEF Init, LockBit
<1>2. ASSUME LockBit, [Next]_vars PROVE LockBit'
  BY <1>2 DEF Next, AppStep, Setup, PrintChar, Acquire, Load, Bump, Store,
     Release, Yield, Exit, Tick, KernelStep, apps, vars, LockBit
<1>3. KInv /\ LockBit => TypeOK
  BY DEF KInv, LockBit, TypeOK
<1>. QED  BY <1>1, <1>2, <1>3, KernInvariance, PTL DEF Spec

-----------------------------------------------------------------------------
(* The steps of exercise 8, as what they do to the place and the loop      *)
(* counter of the program that runs.                                       *)

(* No program is in the lock, and sys_print has stored the character.      *)
Stored ==
  \A p \in Procs : /\ Regs(p).at \in {"setup", "loop", "yield", "exited"}
                   /\ Regs(p).stored <=> Regs(p).at = "yield"

Base == EXERCISE_8 /\ KInv /\ AppInv /\ Stored

Moves(from, to, n) ==
  /\ Kern!UserMode /\ current' = current
  /\ Regs(current).at = from /\ Regs(current)'.at = to
  /\ Regs(current)'.i = n /\ (Regs(current)'.stored <=> to = "yield")
  /\ \A q \in Procs : q # current => Regs(q)' = Regs(q)

SameConfig == UNCHANGED <<scheduling_algorithm, allow_clock_interrupt>>
SameScreen == UNCHANGED <<cursorpos, console>>

SetsUp ==
  LET calls == SetupCalls[scheduling_algorithm] IN
  /\ Moves("setup", "loop", Regs(current).i)
  /\ SameScreen /\ p_state' = p_state
  /\ \/ "none" \in calls /\ kpc' = "user" /\ p_priority' = p_priority
     \/ /\ calls # {"none"} /\ Kern!CallSchedule
        /\ \/ p_priority' = p_priority
           \/ p_priority' = [p_priority EXCEPT ![current] = SetupArg[current]]

Prints ==
  /\ Moves("loop", "yield", Regs(current).i) /\ Regs(current).i < RUNCOUNT
  /\ cursorpos \in Cells /\ cursorpos' = cursorpos + 1
  /\ console' = [console EXCEPT ![cursorpos] = current]
  /\ UNCHANGED <<p_state, p_priority>> /\ Kern!CallSchedule

Yields ==
  /\ Moves("yield", "loop", Regs(current).i + 1)
  /\ SameScreen /\ UNCHANGED <<p_state, p_priority>> /\ Kern!CallSchedule

Leaves ==
  /\ Moves("loop", "exited", Regs(current).i) /\ Regs(current).i = RUNCOUNT
  /\ p_state' = [p_state EXCEPT ![current] = "ZOMBIE"]
  /\ SameScreen /\ UNCHANGED p_priority /\ Kern!CallSchedule

Ticks ==
  /\ allow_clock_interrupt /\ Kern!UserMode /\ current' = current
  /\ RegsKept /\ SameScreen /\ UNCHANGED <<p_state, p_priority>>
  /\ Kern!CallSchedule

Searches ==
  /\ Kern!PickStep
  /\ RegsKept /\ SameScreen /\ p_state' = p_state

LEMMA ConfigKept ==
  ASSUME [Next]_vars PROVE SameConfig /\ EXERCISE_8' = EXERCISE_8
BY DEF SameConfig, Next, AppStep, Setup, PrintChar, Acquire, Load, Bump,
   Store, Release, Yield, Exit, Instruction, Tick, KernelStep, apps, vars,
   Kern!SysPriority, Kern!SysShare, Kern!SysLottery, Kern!SysPrint,
   Kern!SysYield, Kern!SysExit, Kern!Trap, Kern!config, Kern!Tick,
   Kern!ClockInterrupt, Kern!KernelStep, Kern!PickStep, Kern!Spin, Kern!vars

(* Only two loops can stop the kernel.                                     *)
LEMMA NoHalt ==
  ASSUME [Next]_vars, kpc \notin {"lottery", "unknown", "halted"}
  PROVE  kpc' # "halted"
<1>1. ASSUME NEW p \in Procs, AppStep(p) PROVE kpc' # "halted"
  <2>1. Kern!UserMode /\ (kpc' = kpc \/ Kern!CallSchedule)
    BY <1>1 DEF AppStep, Setup, PrintChar, Acquire, Load, Bump, Store,
       Release, Yield, Exit, At, Instruction, Kern!SysPriority, Kern!SysShare,
       Kern!SysLottery, Kern!SysPrint, Kern!SysYield, Kern!SysExit
  <2>. QED  BY <2>1, CallScheduleLabel DEF Kern!UserMode
<1>2. CASE Tick
  BY <1>2, CallScheduleLabel DEF Tick, Kern!Tick, Kern!ClockInterrupt
<1>3. CASE KernelStep
  BY <1>3 DEF KernelStep, Kern!KernelStep, Kern!PickStep, Kern!Stay,
     Kern!Run, Kern!UseShare, Kern!RoundRobin, Kern!Strict, Kern!PriorityDo,
     Kern!PriorityFor, Kern!PriorityWhile, Kern!ShareKeep, Kern!ShareFind,
     Kern!ShareReset, Kern!ShareMax, Kern!ShareRun, Kern!Lottery,
     Kern!DivideError, Kern!UnknownAlgorithm, Kern!Spin
<1>4. CASE UNCHANGED vars
  BY <1>4 DEF vars, Kern!vars
<1>. QED  BY <1>1, <1>2, <1>3, <1>4 DEF Next

LEMMA StepIs ==
  ASSUME Base, [Next]_vars, kpc' # "halted"
  PROVE  /\ SameConfig /\ EXERCISE_8' = EXERCISE_8
         /\ SetsUp \/ Prints \/ Yields \/ Leaves \/ Ticks \/ Searches
            \/ UNCHANGED vars
<1>1. SameConfig /\ EXERCISE_8' = EXERCISE_8
  BY ConfigKept
<1>2. ASSUME NEW p \in Procs, AppStep(p)
      PROVE  SetsUp \/ Prints \/ Yields \/ Leaves
  <2>1. current = p /\ current \in Procs /\ Kern!UserMode
    BY <1>2 DEF AppStep, Setup, PrintChar, Acquire, Load, Bump, Store,
       Release, Yield, Exit, At
  <2>2. Regs(current) = cpu /\ cpu \in AppContext /\ cpu.i \in 0 .. RUNCOUNT
    BY <2>1, ActorFacts DEF Base
  <2>3. DOMAIN p_registers = Pids /\ EXERCISE_8
    BY DEF Base, AppInv
  <2>4. ASSUME NEW r, Kern!Trap(r), Kern!CallSchedule
        PROVE  Becomes(r) /\ current' = current
    BY <2>3, <2>4, TrapRegs, CallScheduleLabel DEF Kern!Trap
  <2>5. ASSUME NEW r, Becomes(r), current' = current,
               NEW from, cpu.at = from, r.stored <=> r.at = "yield"
        PROVE  Moves(from, r.at, r.i)
    BY <2>1, <2>2, <2>5 DEF Moves, Becomes
  <2>6. Go("loop").at = "loop" /\ Go("loop").i = cpu.i
        /\ Go("exited").at = "exited" /\ Go("exited").i = cpu.i
        /\ Go("loop").stored = cpu.stored /\ Go("exited").stored = cpu.stored
    BY <2>2 DEF Go, AppContext
  <2>12. cpu.stored <=> cpu.at = "yield"
    BY <2>1, <2>2 DEF Base, Stored
  <2>7. CASE Setup
    <3>1. cpu.at = "setup"
      BY <2>7 DEF Setup, At
    <3>2. CASE Instruction(Go("loop")) /\ UNCHANGED <<cursorpos, console>>
               /\ "none" \in SetupCalls[scheduling_algorithm]
      BY <2>1, <2>2, <2>5, <2>6, <2>12, <3>1, <3>2, InstructionRegs
         DEF Instruction, SetsUp, SameScreen
    <3>3. CASE /\ SetupCalls[scheduling_algorithm] # {"none"}
               /\ Kern!Trap(Go("loop")) /\ Kern!CallSchedule
               /\ UNCHANGED <<p_state, cursorpos, console>>
               /\ \/ p_priority' = p_priority
                  \/ p_priority' = [p_priority EXCEPT
                                      ![current] = SetupArg[current]]
      BY <2>2, <2>4, <2>5, <2>6, <2>12, <3>1, <3>3 DEF SetsUp, SameScreen
    <3>. QED  BY <2>7, <3>2, <3>3 DEF Setup, Kern!SysPriority, Kern!SysShare,
                 Kern!SysLottery, Kern!screen
  <2>8. CASE PrintChar
    <3>. DEFINE r == [Go("yield") EXCEPT !.stored = TRUE]
    <3>1. cpu.at = "loop" /\ cpu.i < RUNCOUNT /\ Kern!Trap(r)
          /\ Kern!CallSchedule /\ cursorpos' = cursorpos + 1
          /\ console' = [console EXCEPT ![cursorpos] = current]
          /\ UNCHANGED <<p_state, p_priority>>
      BY <2>8 DEF PrintChar, At, Kern!SysPrint, Kern!attrs
    <3>2. r.at = "yield" /\ r.i = cpu.i /\ r.stored = TRUE
      BY <2>2 DEF Go, AppContext
    <3>3. cursorpos \in Cells
      BY <2>1, <2>2, <3>1, CursorOnScreen DEF Base, AppInv, Moved
    <3>. HIDE DEF r
    <3>. QED  BY <2>2, <2>4, <2>5, <3>1, <3>2, <3>3 DEF Prints
  <2>9. CASE Yield
    <3>. DEFINE r == [at |-> "loop", i |-> cpu.i + 1, cell |-> 0,
                      stored |-> FALSE]
    <3>1. cpu.at = "yield" /\ Kern!Trap(r) /\ Kern!CallSchedule
          /\ UNCHANGED <<p_state, p_priority, cursorpos, console>>
      BY <2>9 DEF Yield, At, Kern!SysYield, Kern!attrs, Kern!screen
    <3>2. r.at = "loop" /\ r.i = cpu.i + 1 /\ r.stored = FALSE
      OBVIOUS
    <3>. HIDE DEF r
    <3>. QED  BY <2>2, <2>4, <2>5, <3>1, <3>2 DEF Yields, SameScreen
  <2>10. CASE Exit
    BY <2>2, <2>4, <2>5, <2>6, <2>10, <2>12 DEF Exit, At, Kern!SysExit, Leaves,
       SameScreen, Kern!attrs, Kern!screen
  <2>11. CASE Acquire \/ Load \/ Bump \/ Release \/ Store
    BY <2>1, <2>2, <2>3, <2>11 DEF Acquire, Load, Bump, Release, Store, At,
       Base, Stored
  <2>. QED  BY <1>2, <2>7, <2>8, <2>9, <2>10, <2>11 DEF AppStep
<1>3. CASE Tick
  <2>1. RegsKept /\ UNCHANGED <<cursorpos, console>>
    BY <1>3, TickRegs DEF Tick, Base, AppInv
  <2>2. /\ allow_clock_interrupt /\ Kern!UserMode /\ current' = current
        /\ p_state' = p_state /\ p_priority' = p_priority
        /\ Kern!CallSchedule
    BY <1>3 DEF Tick, Kern!Tick, Kern!ClockInterrupt, Kern!Trap, Kern!attrs
  <2>3. Ticks
    BY <2>1, <2>2 DEF Ticks, SameScreen
  <2>. QED  BY <1>1, <2>3
<1>4. CASE KernelStep
  <2>1. Kern!PickStep /\ RegsKept /\ UNCHANGED <<cursorpos, console>>
    BY <1>4, KernelRegs DEF KernelStep, Kern!KernelStep, Kern!DivideError,
       Kern!UnknownAlgorithm, Kern!Spin, Kern!Stay, Kern!vars
  <2>2. p_state' = p_state
    BY <2>1 DEF Kern!PickStep
  <2>3. Searches
    BY <2>1, <2>2 DEF Searches, SameScreen
  <2>. QED  BY <1>1, <2>3
<1>. QED  BY <1>1, <1>2, <1>3, <1>4 DEF Next

LEMMA InitStored == Init => Stored
<1>1. ASSUME Init, NEW p \in Procs
      PROVE  Regs(p) = [at |-> "setup", i |-> 0, cell |-> 0, stored |-> FALSE]
  BY <1>1, ProcsArePids DEF Init, Kern!Init, Regs, AppStart, Kern!UserMode
<1>. QED  BY <1>1 DEF Stored

LEMMA NextStored ==
  ASSUME Base, [Next]_vars, kpc' # "halted" PROVE Stored'
<1>1. CASE SetsUp \/ Prints \/ Yields \/ Leaves
  BY <1>1 DEF Base, Stored, SetsUp, Prints, Yields, Leaves, Moves
<1>2. CASE Ticks \/ Searches
  BY <1>2 DEF Base, Stored, Ticks, Searches, RegsKept
<1>3. CASE UNCHANGED vars
  BY <1>3 DEF Base, Stored, vars, Kern!vars, Kern!table, Regs, Kern!UserMode
<1>. QED  BY <1>1, <1>2, <1>3, StepIs

-----------------------------------------------------------------------------
(* What the three arguments share. *)

Live(p) == Kern!Runnable(p)

(* The characters p has printed, in the build of exercise 8.               *)
Sent(p) == Regs(p).i + (IF Regs(p).at = "yield" THEN 1 ELSE 0)

LEMMA SentType ==
  ASSUME AppInv, NEW p \in Procs
  PROVE  /\ Regs(p).i \in 0 .. RUNCOUNT /\ Sent(p) \in 0 .. RUNCOUNT
         /\ Regs(p).at = "yield" => Regs(p).i < RUNCOUNT
<1>1. Regs(p) \in AppContext /\ RUNCOUNT \in Nat
  BY OSAssumption DEF AppInv, RegsInv
<1>. QED  BY <1>1, AppContextType DEF AppInv, RegsInv, Sent

(* Whom a step makes run is runnable.                                      *)
LEMMA UserLive ==
  ASSUME KInv, kpc = "user" PROVE current \in Procs /\ Live(current)
BY DEF KInv, Kern!TypeOK, Kern!RunsRunnable, Kern!UserMode, Live, Kern!Procs,
   Procs

LEMMA LiveIsProcess ==
  ASSUME KInv, NEW p \in Kern!Pids, Live(p) PROVE p \in Procs
BY DEF KInv, EntryZeroEmpty, Live, Kern!Runnable, Kern!Pids, Procs

(* sys_exit takes the caller out; nothing else changes who is runnable.    *)
LEMMA LeavesLive ==
  ASSUME KInv, Leaves
  PROVE  \A p \in Procs : Live(p)' <=> (Live(p) /\ p # current)
<1>1. DOMAIN p_state = Kern!Pids /\ current \in Kern!Pids
  BY UserLive DEF KInv, Kern!TypeOK, Leaves, Moves, Kern!UserMode, Procs,
     Kern!Pids
<1>. QED  BY <1>1 DEF Leaves, Live, Kern!Runnable, Moves

-----------------------------------------------------------------------------
(* Algorithm 2 *)

First(p) == Live(p) /\ \A q \in Procs : Live(q) => p <= q

(* The programs run one after the other: behind a runnable one nobody has  *)
(* begun, and the cursor is where the first runnable one has got to.  Only *)
(* that one runs, and the search for it never passes it.                   *)
StrictOrder ==
  /\ kpc \in {"user", "strict"}
  /\ \A p, q \in Procs : p < q /\ Live(p) => Live(q) /\ Sent(q) = 0
  /\ \A p \in Procs : First(p) => cursorpos = (p - 1) * RUNCOUNT + Sent(p)
  /\ \A c \in 0 .. cursorpos - 1 : console[c] = (c \div RUNCOUNT) + 1
  /\ kpc = "user" => First(current)
  /\ kpc = "strict" => \A q \in Procs : Live(q) => pid <= q

StrictInv ==
  EXERCISE_8 /\ scheduling_algorithm = 2 => Stored /\ StrictOrder

(* A step after which everybody has sent as much and is as live as before  *)
(* leaves only the control state to look at.                               *)
LEMMA StrictQuiet ==
  ASSUME StrictOrder, SameScreen, p_state' = p_state,
         \A p \in Procs : Sent(p)' = Sent(p),
         \/ kpc' = "user" /\ First(current)'
         \/ kpc' = "strict" /\ \A q \in Procs : Live(q)' => pid' <= q
  PROVE  StrictOrder'
<1>1. \A p \in Procs : Live(p)' <=> Live(p)
  BY DEF Live, Kern!Runnable
<1>2. \A p \in Procs : First(p)' <=> First(p)
  BY <1>1 DEF First
<1>. QED  BY <1>1, <1>2 DEF StrictOrder, SameScreen

LEMMA SearchFromOne ==
  ASSUME Kern!CallSchedule, scheduling_algorithm = 2
  PROVE  kpc' = "strict" /\ \A q \in Procs : Live(q)' => pid' <= q
BY DEF Kern!CallSchedule, Procs

LEMMA StrictSetsUp ==
  ASSUME Base, StrictOrder, scheduling_algorithm = 2, SetsUp PROVE StrictOrder'
<1>1. \A p \in Procs : Sent(p)' = Sent(p)
  BY DEF SetsUp, Moves, Sent
<1>2. kpc' = "user" => First(current)'
  BY SearchFromOne DEF SetsUp, Moves, StrictOrder, First, Live,
     Kern!Runnable, Kern!UserMode
<1>. QED  BY <1>1, <1>2, SearchFromOne, StrictQuiet DEF SetsUp

LEMMA StrictYields ==
  ASSUME Base, StrictOrder, scheduling_algorithm = 2, Yields PROVE StrictOrder'
<1>1. \A p \in Procs : Sent(p)' = Sent(p)
  BY SentType, UserLive DEF Yields, Moves, Sent, Base, Kern!UserMode
<1>. QED  BY <1>1, SearchFromOne, StrictQuiet DEF Yields

LEMMA StrictTicks ==
  ASSUME Base, StrictOrder, scheduling_algorithm = 2, Ticks PROVE StrictOrder'
<1>1. \A p \in Procs : Sent(p)' = Sent(p)
  BY DEF Ticks, RegsKept, Sent
<1>. QED  BY <1>1, SearchFromOne, StrictQuiet DEF Ticks

LEMMA StrictSearches ==
  ASSUME Base, StrictOrder, scheduling_algorithm = 2, Searches
  PROVE  StrictOrder'
<1>1. \A p \in Procs : Sent(p)' = Sent(p)
  BY DEF Searches, RegsKept, Sent
<1>2. Kern!Strict
  BY DEF Searches, StrictOrder, Kern!PickStep, Kern!RoundRobin,
     Kern!PriorityDo, Kern!PriorityFor, Kern!PriorityWhile, Kern!ShareKeep,
     Kern!ShareFind, Kern!ShareReset, Kern!ShareMax, Kern!ShareRun,
     Kern!Lottery
<1>3. kpc = "strict" /\ pid \in Kern!Pids
  BY <1>2 DEF Kern!Strict, Base, KInv, Kern!TypeOK
<1>4. \A q \in Procs : Live(q)' <=> Live(q)
  BY DEF Searches, Live, Kern!Runnable
<1>5. CASE Live(pid)
  <2>1. pid \in Procs /\ current' = pid /\ kpc' = "user"
    BY <1>2, <1>3, <1>5, LiveIsProcess DEF Base, Kern!Strict, Kern!Run, Live
  <2>2. First(pid)
    BY <1>3, <1>5 DEF StrictOrder, First
  <2>3. First(current)'
    BY <1>4, <2>1, <2>2 DEF First
  <2>. QED  BY <1>1, <2>1, <2>3, StrictQuiet DEF Searches
<1>6. CASE ~Live(pid)
  <2>1. kpc' = "strict" /\ pid' = Kern!NextPid(pid)
    BY <1>2, <1>6 DEF Kern!Strict, Kern!Stay, Live
  <2>2. Kern!NextPid(pid) = pid + 1 \/ Kern!NextPid(pid) = 0
    BY <1>3, KernConstants DEF Kern!NextPid, Kern!Pids
  <2>3. ASSUME NEW q \in Procs, Live(q)' PROVE pid' <= q
    <3>1. pid <= q /\ pid # q
      BY <1>3, <1>4, <1>6, <2>3 DEF StrictOrder
    <3>. QED  BY <1>3, <2>1, <2>2, <3>1 DEF Procs, Kern!Pids
  <2>. QED  BY <1>1, <2>1, <2>3, StrictQuiet DEF Searches
<1>. QED  BY <1>5, <1>6

(* The first runnable program prints in its own part of the screen.        *)
LEMMA StrictPrints ==
  ASSUME Base, StrictOrder, scheduling_algorithm = 2, Prints
  PROVE  StrictOrder'
<1>. DEFINE k == Regs(current).i
<1>1. /\ current \in Procs /\ First(current) /\ Sent(current) = k
      /\ k \in 0 .. RUNCOUNT /\ k < RUNCOUNT /\ RUNCOUNT \in Nat
  BY SentType, UserLive, OSAssumption
     DEF Prints, Moves, Base, StrictOrder, Kern!UserMode, Sent
<1>2. cursorpos = (current - 1) * RUNCOUNT + k
  BY <1>1 DEF StrictOrder
<1>3. \A p \in Procs : Sent(p)' = IF p = current THEN k + 1 ELSE Sent(p)
  BY <1>1 DEF Prints, Moves, Sent
<1>4. \A p \in Procs : Live(p)' <=> Live(p)
  BY DEF Prints, Live, Kern!Runnable
<1>5. \A p \in Procs : First(p)' <=> First(p)
  BY <1>4 DEF First
<1>6. \A p \in Procs : First(p) => p = current
  BY <1>1 DEF First, Procs
<1>7. ASSUME NEW p \in Procs, NEW q \in Procs, p < q, Live(p)'
      PROVE  Live(q)' /\ Sent(q)' = 0
  <2>1. current <= p
    BY <1>1, <1>4, <1>7 DEF First
  <2>2. q # current
    BY <1>1, <1>7, <2>1 DEF Procs
  <2>. QED  BY <1>3, <1>4, <1>7, <2>2 DEF StrictOrder
<1>8. ASSUME NEW p \in Procs, First(p)'
      PROVE  cursorpos' = (p - 1) * RUNCOUNT + Sent(p)'
  <2>1. p = current
    BY <1>5, <1>6, <1>8
  <2>2. (current - 1) * RUNCOUNT \in Int /\ cursorpos' = cursorpos + 1
    BY <1>1 DEF Procs, Prints
  <2>. QED  BY <1>1, <1>2, <1>3, <2>1, <2>2
<1>9. ASSUME NEW c \in 0 .. cursorpos' - 1
      PROVE  console'[c] = (c \div RUNCOUNT) + 1
  <2>1. /\ cursorpos \in Cells /\ cursorpos' = cursorpos + 1
        /\ console' = [console EXCEPT ![cursorpos] = current]
        /\ DOMAIN console = Cells
    BY DEF Prints, Base, AppInv
  <2>2. CASE c = cursorpos
    <3>1. RUNCOUNT \in Nat \ {0} /\ current - 1 \in Int
          /\ k \in 0 .. RUNCOUNT - 1
      BY <1>1 DEF Procs
    <3>2. (RUNCOUNT * (current - 1) + k) \div RUNCOUNT = current - 1
      BY <3>1, DivisionUnique
    <3>3. cursorpos = RUNCOUNT * (current - 1) + k
      BY <1>2, <3>1
    <3>4. cursorpos \div RUNCOUNT = current - 1
      BY <3>2, <3>3
    <3>. QED  BY <1>1, <2>1, <2>2, <3>4 DEF Procs
  <2>3. CASE c # cursorpos
    <3>1. c \in 0 .. cursorpos - 1
      BY <2>1, <2>3 DEF Cells
    <3>. QED  BY <2>1, <2>3, <3>1 DEF StrictOrder
  <2>. QED  BY <2>2, <2>3
<1>10. kpc' = "strict" /\ \A q \in Procs : Live(q)' => pid' <= q
  BY SearchFromOne DEF Prints
<1>. QED  BY <1>7, <1>8, <1>9, <1>10 DEF StrictOrder

(* It leaves the screen with its last character, to the next program.      *)
LEMMA StrictLeaves ==
  ASSUME Base, StrictOrder, scheduling_algorithm = 2, Leaves
  PROVE  StrictOrder'
<1>1. /\ current \in Procs /\ First(current) /\ RUNCOUNT \in Nat
      /\ Sent(current) = RUNCOUNT
  BY UserLive, OSAssumption
     DEF Leaves, Moves, Base, StrictOrder, Kern!UserMode, Sent
<1>2. cursorpos = (current - 1) * RUNCOUNT + RUNCOUNT
  BY <1>1 DEF StrictOrder
<1>3. \A p \in Procs : p # current => Sent(p)' = Sent(p)
  BY DEF Leaves, Moves, Sent
<1>4. \A p \in Procs : Live(p)' <=> (Live(p) /\ p # current)
  BY LeavesLive DEF Base
<1>5. ASSUME NEW p \in Procs, NEW q \in Procs, p < q, Live(p)'
      PROVE  Live(q)' /\ Sent(q)' = 0
  <2>1. current < p /\ Live(p)
    BY <1>1, <1>4, <1>5 DEF First, Procs
  <2>2. q # current
    BY <1>5, <2>1, <1>1 DEF Procs
  <2>. QED  BY <1>3, <1>4, <1>5, <2>1, <2>2 DEF StrictOrder
<1>6. ASSUME NEW p \in Procs, First(p)'
      PROVE  cursorpos' = (p - 1) * RUNCOUNT + Sent(p)'
  <2>1. p # current /\ Live(p)
    BY <1>4, <1>6 DEF First
  <2>2. current < p
    BY <1>1, <2>1 DEF First, Procs
  <2>3. Sent(p)' = 0
    BY <1>1, <1>3, <2>1, <2>2 DEF StrictOrder, First
  <2>4. p = current + 1
    <3>1. SUFFICES ASSUME current + 1 < p PROVE FALSE
      BY <1>1, <2>2 DEF Procs
    <3>2. PICK n \in Procs : n = current + 1
      BY <1>1, <3>1, OSAssumption DEF Procs
    <3>3. Live(n) /\ n # current /\ n < p
      BY <1>1, <3>1, <3>2 DEF StrictOrder, First, Procs
    <3>4. Live(n)'
      BY <1>4, <3>3
    <3>5. p <= n
      BY <1>6, <3>4 DEF First
    <3>. QED  BY <3>3, <3>5 DEF Procs
  <2>5. (current - 1) * RUNCOUNT + RUNCOUNT = current * RUNCOUNT
    BY <1>1 DEF Procs
  <2>6. (p - 1) * RUNCOUNT + 0 = current * RUNCOUNT
    BY <1>1, <2>4 DEF Procs
  <2>. QED  BY <1>2, <2>3, <2>5, <2>6 DEF Leaves, SameScreen
<1>7. kpc' = "strict" /\ \A q \in Procs : Live(q)' => pid' <= q
  BY SearchFromOne DEF Leaves
<1>. QED
  BY <1>5, <1>6, <1>7 DEF StrictOrder, Leaves, SameScreen

LEMMA InitStrict == Init => StrictInv
<1> SUFFICES ASSUME Init, scheduling_algorithm = 2 PROVE Stored /\ StrictOrder
  BY DEF StrictInv
<1>1. /\ current = 1 /\ kpc = "user" /\ cursorpos = 0 /\ RUNCOUNT \in Nat
      /\ \A p \in Procs : Live(p) /\ 1 <= p
  BY OSAssumption DEF Init, Kern!Init, Live, Kern!Runnable, Kern!Pids, Procs
<1>2. \A p \in Procs : Sent(p) = 0
  <2>1. ASSUME NEW p \in Procs
        PROVE  Regs(p) = [at |-> "setup", i |-> 0, cell |-> 0,
                          stored |-> FALSE]
    BY <2>1, ProcsArePids DEF Init, Kern!Init, Regs, AppStart, Kern!UserMode
  <2>. QED  BY <2>1 DEF Sent
<1>3. 1 \in Procs
  BY OSAssumption DEF Procs
<1>4. \A p \in Procs : First(p) <=> p = 1
  BY <1>1, <1>3 DEF First, Procs
<1>. QED  BY <1>1, <1>2, <1>3, <1>4, InitStored DEF StrictOrder

LEMMA NextStrict ==
  ASSUME OSInv, KInv, StrictInv, [Next]_vars PROVE StrictInv'
<1>1. SUFFICES ASSUME EXERCISE_8', scheduling_algorithm' = 2
               PROVE  Stored' /\ StrictOrder'
  BY DEF StrictInv
<1>2. EXERCISE_8 /\ scheduling_algorithm = 2
  BY <1>1, ConfigKept DEF SameConfig
<1>3. Stored /\ StrictOrder
  BY <1>2 DEF StrictInv
<1>4. Base /\ kpc' # "halted"
  BY <1>2, <1>3, NoHalt DEF Base, OSInv, Running, StrictOrder
<1>5. Stored'
  BY <1>4, NextStored
<1>6. CASE UNCHANGED vars
  <2>1. /\ SameScreen /\ p_state' = p_state /\ kpc' = kpc /\ pid' = pid
        /\ current' = current /\ \A p \in Procs : Sent(p)' = Sent(p)
    BY <1>6 DEF vars, Kern!vars, Kern!table, Kern!screen, Kern!locals,
       SameScreen, Sent, Regs, Kern!UserMode
  <2>. QED  BY <1>3, <1>5, <2>1 DEF StrictOrder, SameScreen, First, Live,
               Kern!Runnable
<1>. QED
  BY <1>2, <1>3, <1>4, <1>5, <1>6, StepIs, StrictSetsUp, StrictPrints,
     StrictYields, StrictLeaves, StrictTicks, StrictSearches

(* Algorithm 2, exercise 8: the programs print one after the other, each   *)
(* its last character before the next one its first, whatever calls the    *)
(* programs begin with, with the clock or without.                         *)
THEOREM StrictTheorem == Spec => [](EXERCISE_8 => StrictOutput)
<1>1. StrictInv => (EXERCISE_8 => StrictOutput)
  BY DEF StrictInv, StrictOrder, StrictOutput
<1>. QED
  BY <1>1, InitStrict, NextStrict, Invariance, KernInvariance, PTL DEF Spec

-----------------------------------------------------------------------------
(* Algorithm 41 *)

(* How many entries back from pid, going round, entry q is; and whether a  *)
(* search that has made i iterations has passed it.                        *)
Behind(q) == IF q <= pid THEN pid - q ELSE pid - q + NPROCS
Seen(q)   == Behind(q) <= i

Begun == {p \in Procs : Regs(p).at # "setup"}

(* Every program starts with priority 0 and gets its own before it prints, *)
(* so that whoever has printed is at least as urgent as whoever may still. *)
(* The most urgent one runs; in the search for it, firstPid is the most    *)
(* urgent of those passed, or has exited.                                  *)
PriorityOrder ==
  /\ kpc \in {"user", "prio_do", "prio_for"}
  /\ \A p \in Procs : p \notin Begun => p_priority[p] = 0
  /\ \A c \in 0 .. cursorpos - 1 : console[c] \in Begun
  /\ \A c \in 0 .. cursorpos - 1, q \in Procs :
       Live(q) => p_priority[console[c]] <= p_priority[q]
  /\ \A c, d \in 0 .. cursorpos - 1 :
       c < d => p_priority[console[c]] <= p_priority[console[d]]
  /\ kpc = "user" => Kern!MostUrgent(current)
  /\ kpc = "prio_for" =>
       /\ firstPriority = p_priority[firstPid]
       /\ \A q \in Procs :
            Live(q) /\ Seen(q) => firstPriority <= p_priority[q]

PriorityInv ==
  EXERCISE_8 /\ scheduling_algorithm = 41 => Stored /\ PriorityOrder

LEMMA NextPidIs ==
  \A p \in Kern!Pids :
    Kern!NextPid(p) = IF p = NPROCS - 1 THEN 0 ELSE p + 1
<1> TAKE p \in Kern!Pids
<1>1. CASE p = NPROCS - 1
  BY <1>1, KernConstants DEF Kern!Pids, Kern!NextPid
<1>2. CASE p # NPROCS - 1
  <2>1. p + 1 \in 0 .. NPROCS - 1
    BY <1>2, KernConstants DEF Kern!Pids
  <2>. QED  BY <1>2, <2>1, KernConstants DEF Kern!Pids, Kern!NextPid
<1>. QED  BY <1>1, <1>2

(* Priorities are numbers.                                                 *)
LEMMA PriorityType ==
  ASSUME KInv
  PROVE  /\ DOMAIN p_priority = Kern!Pids
         /\ \A p \in Kern!Pids : p_priority[p] \in Nat
         /\ Procs \subseteq Kern!Pids
BY KernConstants DEF KInv, Kern!TypeOK, Procs, Kern!Pids

LEMMA PriorityQuiet ==
  ASSUME PriorityOrder, SameScreen, UNCHANGED <<p_state, p_priority>>,
         Begun \subseteq Begun',
         \/ kpc' = "user" /\ Kern!MostUrgent(current)'
         \/ kpc' = "prio_do"
         \/ /\ kpc' = "prio_for"
            /\ firstPriority' = p_priority[firstPid']
            /\ \A q \in Procs :
                 Live(q) /\ Seen(q)' => firstPriority' <= p_priority[q]
  PROVE  PriorityOrder'
<1>1. \A p \in Procs : Live(p)' <=> Live(p)
  BY DEF Live, Kern!Runnable
<1>. QED  BY <1>1 DEF PriorityOrder, SameScreen

LEMMA SearchFromCaller ==
  ASSUME Kern!CallSchedule, scheduling_algorithm = 41
  PROVE  kpc' = "prio_do"
BY DEF Kern!CallSchedule

LEMMA UrgentKept ==
  ASSUME UNCHANGED <<p_state, p_priority, current>>, Kern!MostUrgent(current)
  PROVE  Kern!MostUrgent(current)'
BY DEF Kern!MostUrgent, Kern!Runnable

(* The call at the head of start() is made before the caller has printed.  *)
LEMMA PrioritySetsUp ==
  ASSUME Base, PriorityOrder, scheduling_algorithm = 41, SetsUp
  PROVE  PriorityOrder'
<1>1. /\ current \in Procs /\ current \notin Begun
      /\ Begun' = Begun \cup {current}
  BY UserLive DEF SetsUp, Moves, Begun, Base, Kern!UserMode
<1>2. CASE p_priority' = p_priority
  <2>1. \/ kpc' = "user" /\ Kern!MostUrgent(current)'
        \/ kpc' = "prio_do"
    BY <1>2, SearchFromCaller, UrgentKept
       DEF SetsUp, Moves, PriorityOrder, Kern!UserMode
  <2>. QED  BY <1>1, <1>2, <2>1, PriorityQuiet DEF SetsUp
<1>3. CASE p_priority' # p_priority
  <2>1. /\ p_priority' = [p_priority EXCEPT ![current] = SetupArg[current]]
        /\ kpc' = "prio_do"
    BY <1>3, SearchFromCaller DEF SetsUp
  <2>2. SetupArg[current] \in Nat
    BY <1>1, OSAssumption
  <2>3. p_priority[current] = 0
    BY <1>1 DEF PriorityOrder
  <2>4. /\ \A p \in Procs : p # current => p_priority'[p] = p_priority[p]
        /\ \A p \in Procs : p_priority[p] <= p_priority'[p]
    BY <1>1, <2>1, <2>2, <2>3, PriorityType DEF Base
  <2>5. \A c \in 0 .. cursorpos - 1 :
          /\ console[c] \in Begun
          /\ p_priority'[console[c]] = p_priority[console[c]]
    BY <1>1, <2>4 DEF PriorityOrder, Begun
  <2>6. \A p \in Procs : Live(p)' <=> Live(p)
    BY DEF SetsUp, Live, Kern!Runnable
  <2>7. \A p \in Procs : p_priority[p] \in Int /\ p_priority'[p] \in Int
    BY <1>1, <2>1, <2>2, PriorityType DEF Base
  <2>8. \A c \in 0 .. cursorpos - 1, q \in Procs :
          Live(q) => p_priority'[console[c]] <= p_priority'[q]
    BY <2>4, <2>5, <2>7 DEF PriorityOrder, Begun
  <2>9. \A p \in Procs : p \notin Begun' => p_priority'[p] = 0
    BY <1>1, <2>4 DEF PriorityOrder
  <2>. QED  BY <1>1, <2>1, <2>5, <2>6, <2>8, <2>9
               DEF PriorityOrder, SetsUp, SameScreen
<1>. QED  BY <1>2, <1>3

LEMMA PriorityTraps ==
  ASSUME Base, PriorityOrder, scheduling_algorithm = 41, Yields \/ Ticks
  PROVE  PriorityOrder'
<1>1. Begun \subseteq Begun'
  BY DEF Yields, Ticks, Moves, RegsKept, Begun
<1>. QED  BY <1>1, SearchFromCaller, PriorityQuiet DEF Yields, Ticks

LEMMA PriorityLeaves ==
  ASSUME Base, PriorityOrder, scheduling_algorithm = 41, Leaves
  PROVE  PriorityOrder'
<1>1. Begun \subseteq Begun'
  BY DEF Leaves, Moves, Begun
<1>2. \A p \in Procs : Live(p)' => Live(p)
  BY LeavesLive DEF Base
<1>. QED  BY <1>1, <1>2, SearchFromCaller
          DEF PriorityOrder, Leaves, SameScreen

(* Who prints is the most urgent process, but no more urgent than those    *)
(* that have printed.                                                      *)
LEMMA PriorityPrints ==
  ASSUME Base, PriorityOrder, scheduling_algorithm = 41, Prints
  PROVE  PriorityOrder'
<1>1. /\ current \in Procs /\ Live(current) /\ Kern!MostUrgent(current)
      /\ current \in Begun /\ Begun \subseteq Begun'
  BY UserLive DEF Prints, Moves, Base, PriorityOrder, Kern!UserMode, Begun
<1>2. /\ cursorpos \in Nat /\ cursorpos' = cursorpos + 1
      /\ console'[cursorpos] = current
      /\ \A c \in 0 .. cursorpos - 1 : console'[c] = console[c]
  BY DEF Prints, Base, AppInv, Cells
<1>3. \A c \in 0 .. cursorpos' - 1 : c \in 0 .. cursorpos - 1 \/ c = cursorpos
  BY <1>2
<1>4. \A p \in Procs : Live(p)' <=> Live(p)
  BY DEF Prints, Live, Kern!Runnable
<1>5. \A q \in Procs : Live(q) => p_priority[current] <= p_priority[q]
  BY <1>1 DEF Kern!MostUrgent, Live, Kern!Procs, Procs
<1>6. p_priority' = p_priority /\ kpc' = "prio_do"
  BY SearchFromCaller DEF Prints
<1>7. \A p \in Procs : p \notin Begun' => p_priority'[p] = 0
  BY <1>1, <1>6 DEF PriorityOrder
<1>8. \A c \in 0 .. cursorpos' - 1 : console'[c] \in Begun'
  BY <1>1, <1>2, <1>3 DEF PriorityOrder
<1>9. \A c \in 0 .. cursorpos' - 1, q \in Procs :
        Live(q)' => p_priority'[console'[c]] <= p_priority'[q]
  BY <1>2, <1>3, <1>4, <1>5, <1>6 DEF PriorityOrder
<1>10. ASSUME NEW c \in 0 .. cursorpos' - 1, NEW d \in 0 .. cursorpos' - 1,
              c < d
       PROVE  p_priority'[console'[c]] <= p_priority'[console'[d]]
  <2>1. c \in 0 .. cursorpos - 1
    BY <1>2, <1>10
  <2>2. CASE d = cursorpos
    BY <1>1, <1>2, <1>6, <2>1, <2>2 DEF PriorityOrder
  <2>3. CASE d # cursorpos
    BY <1>2, <1>3, <1>6, <1>10, <2>1, <2>3 DEF PriorityOrder
  <2>. QED  BY <2>2, <2>3
<1>. QED  BY <1>6, <1>7, <1>8, <1>9, <1>10 DEF PriorityOrder

LEMMA PrioritySearches ==
  ASSUME Base, PriorityOrder, scheduling_algorithm = 41, Searches
  PROVE  PriorityOrder'
<1>1. Begun \subseteq Begun'
  BY DEF Searches, RegsKept, Begun
<1>2. Kern!PriorityDo \/ Kern!PriorityFor \/ Kern!PriorityWhile
  BY DEF Searches, PriorityOrder, Kern!PickStep, Kern!RoundRobin,
     Kern!Strict, Kern!ShareKeep, Kern!ShareFind, Kern!ShareReset,
     Kern!ShareMax, Kern!ShareRun, Kern!Lottery
<1>3. UNCHANGED <<p_state, p_priority>>
  BY <1>2 DEF Searches, Kern!PriorityDo, Kern!PriorityFor,
     Kern!PriorityWhile, Kern!attrs
<1>4. /\ pid \in Kern!Pids /\ firstPid \in Kern!Pids /\ i \in 0 .. NPROCS - 1
      /\ firstPriority \in Int
  BY DEF Base, KInv, Kern!TypeOK
<1>5. CASE Kern!PriorityDo
  <2>1. /\ kpc' = "prio_for" /\ pid' = pid /\ i' = 0
        /\ firstPid' = pid /\ firstPriority' = p_priority[pid]
    BY <1>5 DEF Kern!PriorityDo, Kern!Stay
  <2>2. ASSUME NEW q \in Procs, Seen(q)' PROVE q = pid
    BY <1>4, <2>1, <2>2, KernConstants DEF Seen, Behind, Kern!Pids, Procs
  <2>3. \A q \in Procs : Live(q) /\ Seen(q)' => firstPriority' <= p_priority[q]
    BY <1>4, <2>1, <2>2, PriorityType DEF Base
  <2>. QED  BY <1>1, <1>3, <2>1, <2>3, PriorityQuiet DEF Searches
<1>6. CASE Kern!PriorityFor
  <2>1. /\ kpc = "prio_for" /\ kpc' = "prio_for" /\ i' = i + 1
        /\ pid' = Kern!NextPid(pid) /\ pid' \in Kern!Pids
        /\ IF Live(pid') /\ p_priority[pid'] <= firstPriority
           THEN firstPid' = pid' /\ firstPriority' = p_priority[pid']
           ELSE UNCHANGED <<firstPid, firstPriority>>
    BY <1>4, <1>6, NextPidType DEF Kern!PriorityFor, Kern!Stay,
       Kern!AtLeastAsUrgent, Live
  <2>2. /\ firstPriority = p_priority[firstPid]
        /\ \A q \in Procs :
             Live(q) /\ Seen(q) => firstPriority <= p_priority[q]
    BY <2>1 DEF PriorityOrder
  <2>3. /\ firstPriority' = p_priority[firstPid']
        /\ firstPriority' <= firstPriority
    BY <1>4, <2>1, <2>2
  <2>4. ASSUME NEW q \in Procs, Live(q), Seen(q)'
        PROVE  firstPriority' <= p_priority[q]
    <3>1. q = pid' \/ Seen(q)
      <4>1. /\ NPROCS \in Nat /\ pid \in 0 .. NPROCS - 1
            /\ q \in 1 .. NPROCS - 1
            /\ i \in 0 .. NPROCS - 1 /\ i' = i + 1
        BY <1>4, <2>1, KernConstants DEF Kern!Pids, Procs
      <4>2. pid' = IF pid = NPROCS - 1 THEN 0 ELSE pid + 1
        BY <1>4, <2>1, NextPidIs
      <4>3. (IF q <= pid' THEN pid' - q ELSE pid' - q + NPROCS) <= i + 1
        BY <2>4, <4>1 DEF Seen, Behind
      <4>4. q = pid' \/ (IF q <= pid THEN pid - q ELSE pid - q + NPROCS) <= i
        BY ONLY <4>1, <4>2, <4>3
      <4>. QED  BY <4>4 DEF Seen, Behind
    <3>2. /\ p_priority[q] \in Int /\ p_priority[pid'] \in Int
          /\ firstPriority' \in Int
      BY <1>4, <2>1, PriorityType DEF Base
    <3>3. CASE q = pid'
      BY <1>4, <2>1, <2>4, <3>2, <3>3
    <3>4. CASE Seen(q)
      BY <1>4, <2>2, <2>3, <2>4, <3>2, <3>4
    <3>. QED  BY <3>1, <3>3, <3>4
  <2>. QED  BY <1>1, <1>3, <2>1, <2>3, <2>4, PriorityQuiet DEF Searches
<1>7. CASE Kern!PriorityWhile
  <2>1. kpc = "prio_for" /\ i = NPROCS - 1
    BY <1>7 DEF Kern!PriorityWhile
  <2>2. CASE ~Live(firstPid)
    <3>1. kpc' = "prio_do"
      BY <1>7, <2>2 DEF Kern!PriorityWhile, Kern!Stay, Live
    <3>. QED  BY <1>1, <1>3, <3>1, PriorityQuiet DEF Searches
  <2>3. CASE Live(firstPid)
    <3>1. kpc' = "user" /\ current' = firstPid
      BY <1>7, <2>3 DEF Kern!PriorityWhile, Kern!Run, Live
    <3>2. \A q \in Procs : Seen(q)
      BY <1>4, <2>1, KernConstants DEF Seen, Behind, Kern!Pids, Procs
    <3>3. \A q \in Procs : Live(q) => p_priority[firstPid] <= p_priority[q]
      BY <2>1, <3>2 DEF PriorityOrder
    <3>4. Kern!MostUrgent(current)'
      BY <1>3, <2>3, <3>1, <3>3 DEF Kern!MostUrgent, Live, Kern!Runnable,
         Kern!Procs, Procs
    <3>. QED  BY <1>1, <1>3, <3>1, <3>4, PriorityQuiet DEF Searches
  <2>. QED  BY <2>2, <2>3
<1>. QED  BY <1>2, <1>5, <1>6, <1>7

LEMMA InitPriority == Init => PriorityInv
<1> SUFFICES ASSUME Init, scheduling_algorithm = 41
             PROVE  Stored /\ PriorityOrder
  BY DEF PriorityInv
<1>1. /\ current = 1 /\ kpc = "user" /\ cursorpos = 0
      /\ p_priority = [p \in Kern!Pids |-> 0]
  BY DEF Init, Kern!Init
<1>2. \A p \in Procs : p_priority[p] = 0
  BY <1>1, KernConstants DEF Procs, Kern!Pids
<1>3. Kern!MostUrgent(current)
  BY <1>1, KernConstants DEF Init, Kern!Init, Kern!MostUrgent, Kern!Runnable,
     Kern!Pids, Kern!Procs
<1>. QED  BY <1>1, <1>2, <1>3, InitStored DEF PriorityOrder

LEMMA NextPriority ==
  ASSUME OSInv, KInv, PriorityInv, [Next]_vars PROVE PriorityInv'
<1>1. SUFFICES ASSUME EXERCISE_8', scheduling_algorithm' = 41
               PROVE  Stored' /\ PriorityOrder'
  BY DEF PriorityInv
<1>2. EXERCISE_8 /\ scheduling_algorithm = 41
  BY <1>1, ConfigKept DEF SameConfig
<1>3. Stored /\ PriorityOrder
  BY <1>2 DEF PriorityInv
<1>4. Base /\ kpc' # "halted"
  BY <1>2, <1>3, NoHalt DEF Base, OSInv, Running, PriorityOrder
<1>5. Stored'
  BY <1>4, NextStored
<1>6. CASE UNCHANGED vars
  <2>1. /\ SameScreen /\ UNCHANGED <<p_state, p_priority, kpc, current>>
        /\ UNCHANGED <<pid, i, firstPid, firstPriority>> /\ Begun' = Begun
    BY <1>6 DEF vars, Kern!vars, Kern!table, Kern!attrs, Kern!screen,
       Kern!locals, SameScreen, Begun, Regs, Kern!UserMode
  <2>2. \A q \in Procs : Seen(q)' <=> Seen(q)
    BY <2>1 DEF Seen, Behind
  <2>. QED  BY <1>3, <1>5, <2>1, <2>2, PriorityQuiet, UrgentKept
               DEF PriorityOrder
<1>. QED
  BY <1>2, <1>3, <1>4, <1>5, <1>6, StepIs, PrioritySetsUp, PriorityPrints,
     PriorityTraps, PriorityLeaves, PrioritySearches

(* Algorithm 41, exercise 8: the programs print in the order of their      *)
(* priorities, although all of them start with priority 0 and set their    *)
(* own one after the other, with the clock or without.                     *)
THEOREM PriorityTheorem == Spec => [](EXERCISE_8 => PriorityOutput)
<1>1. PriorityInv => (EXERCISE_8 => PriorityOutput)
  BY DEF PriorityInv, PriorityOrder, PriorityOutput
<1>. QED
  BY <1>1, InitPriority, NextPriority, Invariance, KernInvariance, PTL
     DEF Spec

-----------------------------------------------------------------------------
(* Algorithm 0 *)

(* The programs are built alike: with a call at the head of start(), or    *)
(* all without.                                                            *)
SameSetup == "none" \notin SetupCalls[0] \/ SetupCalls[0] = {"none"}

Last == NPROCS - 1

(* How many traps p has made since the call at the head of start(), which  *)
(* is trap number -1.                                                      *)
Turn(p) ==
  CASE Regs(p).at = "setup" -> IF SetupCalls[0] = {"none"} THEN 0 ELSE -1
    [] Regs(p).at = "loop"  -> 2 * Regs(p).i
    [] Regs(p).at = "yield" -> 2 * Regs(p).i + 1
    [] OTHER                -> 2 * RUNCOUNT + 1

(* All programs make the same trap in a round, one after the other; Past   *)
(* is the last one that has.                                               *)
Past  == IF kpc = "user" THEN current - 1 ELSE current
Round == IF kpc = "user" THEN Turn(current) ELSE Turn(current) - 1

(* In even rounds they print.                                              *)
InPlace(round, past, cursor) ==
  \A j \in Int :
    /\ round = 2 * j /\ j < RUNCOUNT => cursor = j * Last + past
    /\ round = 2 * j /\ j = RUNCOUNT => cursor = j * Last
    /\ round = 2 * j + 1             => cursor = (j + 1) * Last

RingOrder ==
  /\ kpc \in {"user", "round_robin"}
  /\ \A p \in Procs : Regs(p).at = "setup" => Regs(p).i = 0
  /\ \A p \in Procs : Live(p) <=> Regs(p).at # "exited"
  /\ \A p \in Procs : Turn(p) = IF p <= Past THEN Round + 1 ELSE Round
  /\ InPlace(Round, Past, cursorpos)
  /\ \A c \in 0 .. cursorpos - 1 : console[c] = (c % Last) + 1
  /\ kpc = "round_robin" => \/ pid = current
                            \/ current = Last /\ pid = 0
                            \/ \A p \in Procs : ~Live(p)

RingInv ==
  SameSetup /\ EXERCISE_8
  /\ scheduling_algorithm = 0 /\ ~allow_clock_interrupt =>
    Stored /\ RingOrder

(* Only a program that has exited has had the last turn.                   *)
LEMMA TurnType ==
  ASSUME Base, RingOrder, NEW p \in Procs
  PROVE  /\ Turn(p) \in Int /\ Turn(p) <= 2 * RUNCOUNT + 1
         /\ Turn(p) = 2 * RUNCOUNT + 1 <=> ~Live(p)
<1>1. Regs(p).i \in 0 .. RUNCOUNT /\ RUNCOUNT \in Nat
      /\ (Regs(p).at = "yield" => Regs(p).i < RUNCOUNT)
  BY SentType, OSAssumption DEF Base
<1>2. Regs(p).at \in {"setup", "loop", "yield", "exited"}
      /\ (Live(p) <=> Regs(p).at # "exited")
  BY DEF Base, Stored, RingOrder
<1>. QED  BY <1>1, <1>2 DEF Turn

LEMMA RingTypes ==
  ASSUME Base, RingOrder
  PROVE  /\ Last \in Nat /\ Last >= 1 /\ current \in 1 .. Last
         /\ Procs = 1 .. Last /\ Past \in 0 .. Last /\ Round \in Int
         /\ kpc = "user" => Round = Turn(current) /\ Past = current - 1
<1>1. Last \in Nat /\ Last >= 1 /\ Procs = 1 .. Last /\ current \in 1 .. Last
  BY OSAssumption DEF Last, Procs, Base, KInv, Kern!TypeOK, Kern!Procs
<1>2. Turn(current) \in Int
  BY <1>1, TurnType
<1>. QED  BY <1>1, <1>2 DEF Past, Round

(* In an odd round the cursor does not depend on who has had a turn.       *)
LEMMA OddRound ==
  ASSUME NEW k \in Int, NEW r, r = 2 * k + 1, NEW p, NEW q, NEW c,
         InPlace(r, p, c)
  PROVE  InPlace(r, q, c)
<1>1. \A j \in Int : r # 2 * j
  OBVIOUS
<1>. QED  BY <1>1 DEF InPlace

(* A trap ends the turn of the program that runs.                          *)
LEMMA TrapTurn ==
  ASSUME Base, RingOrder, kpc = "user", scheduling_algorithm = 0,
         Kern!CallSchedule, current' = current,
         \A q \in Procs : Turn(q)' = IF q = current THEN Turn(q) + 1
                                                    ELSE Turn(q)
  PROVE  /\ kpc' = "round_robin" /\ pid' = current
         /\ Past' = current /\ Round' = Round
         /\ \A p \in Procs : Turn(p)' = IF p <= Past' THEN Round' + 1
                                                      ELSE Round'
<1>1. kpc' = "round_robin" /\ pid' = current
  BY DEF Kern!CallSchedule
<1>2. PICK c \in Procs : c = current /\ c = current'
  BY RingTypes
<1>3. Turn(c)' = Turn(c) + 1 /\ Turn(c) \in Int /\ Past' = c
  BY <1>1, <1>2, TurnType DEF Past
<1>4. Turn(current)' = Turn(c)' /\ Turn(current) = Turn(c)
  BY <1>2
<1>5. Round' = Round /\ Round = Turn(c)
  BY <1>1, <1>3, <1>4 DEF Round
<1>6. ASSUME NEW p \in Procs
      PROVE  Turn(p)' = IF p <= Past' THEN Round' + 1 ELSE Round'
  <2>1. Turn(p) = IF p <= c - 1 THEN Round + 1 ELSE Round
    BY <1>2, RingTypes DEF RingOrder
  <2>2. Turn(p)' = IF p = c THEN Turn(p) + 1 ELSE Turn(p)
    BY <1>2
  <2>3. p \in Int /\ c \in Int /\ Round \in Int
    BY RingTypes DEF Procs
  <2>. QED  BY <1>3, <1>5, <2>1, <2>2, <2>3
<1>. QED  BY <1>1, <1>2, <1>3, <1>5, <1>6

LEMMA MovesTurn ==
  ASSUME Base, RingOrder, NEW from, NEW to, NEW n, Moves(from, to, n)
  PROVE  /\ kpc = "user" /\ current' = current /\ current \in Procs
         /\ Live(current) /\ Regs(current).at = from
         /\ Regs(current).i \in 0 .. RUNCOUNT /\ RUNCOUNT \in Nat
         /\ \A q \in Procs : q # current => Turn(q)' = Turn(q)
         /\ \A q \in Procs : q = current =>
              /\ Regs(q)'.at = to /\ Regs(q)'.i = n
              /\ Turn(q) = CASE from = "setup" ->
                                  IF SetupCalls[0] = {"none"} THEN 0 ELSE -1
                             [] from = "loop"  -> 2 * Regs(q).i
                             [] from = "yield" -> 2 * Regs(q).i + 1
                             [] OTHER          -> 2 * RUNCOUNT + 1
              /\ Turn(q)' = CASE to = "setup" ->
                                  IF SetupCalls[0] = {"none"} THEN 0 ELSE -1
                             [] to = "loop"  -> 2 * n
                             [] to = "yield" -> 2 * n + 1
                             [] OTHER        -> 2 * RUNCOUNT + 1
<1>1. kpc = "user" /\ current' = current /\ current \in Procs /\ Live(current)
  BY UserLive DEF Moves, Kern!UserMode, Base
<1>2. Regs(current).i \in 0 .. RUNCOUNT /\ RUNCOUNT \in Nat
  BY <1>1, SentType, OSAssumption DEF Base
<1>. QED  BY <1>1, <1>2 DEF Moves, Turn

LEMMA RingSetsUp ==
  ASSUME Base, RingOrder, SameSetup, scheduling_algorithm = 0, SetsUp
  PROVE  RingOrder'
<1>. DEFINE k == Regs(current).i
<1>1. /\ kpc = "user" /\ current' = current /\ current \in Procs
      /\ k = 0 /\ Live(current)
      /\ \A q \in Procs : q # current => Turn(q)' = Turn(q)
      /\ \A q \in Procs : q = current =>
           /\ Turn(q) = IF SetupCalls[0] = {"none"} THEN 0 ELSE -1
           /\ Turn(q)' = 0
  BY MovesTurn DEF SetsUp, RingOrder
<1>2. \A p \in Procs : Live(p)' <=> Regs(p)'.at # "exited"
  BY <1>1 DEF SetsUp, Moves, RingOrder, Live, Kern!Runnable
<1>3. \A p \in Procs : Regs(p)'.at = "setup" => Regs(p)'.i = 0
  BY DEF SetsUp, Moves, RingOrder
<1>4. CASE SetupCalls[0] = {"none"}
  <2>1. kpc' = "user" /\ \A q \in Procs : Turn(q)' = Turn(q)
    BY <1>1, <1>4 DEF SetsUp
  <2>2. Past' = Past /\ Round' = Round
    BY <1>1, <2>1 DEF Past, Round
  <2>. QED  BY <1>2, <1>3, <2>1, <2>2 DEF RingOrder, SetsUp, SameScreen
<1>5. CASE SetupCalls[0] # {"none"}
  <2>1. Kern!CallSchedule /\ Turn(current) = -1
        /\ \A q \in Procs : Turn(q)' = IF q = current THEN Turn(q) + 1
                                                      ELSE Turn(q)
    BY <1>1, <1>5 DEF SetsUp, SameSetup
  <2>2. /\ kpc' = "round_robin" /\ pid' = current
        /\ Past' = current /\ Round' = Round
        /\ \A p \in Procs : Turn(p)' = IF p <= Past' THEN Round' + 1
                                                     ELSE Round'
    BY <1>1, <2>1, TrapTurn
  <2>3. Round = -1
    BY <1>1, <2>1 DEF Round
  <2>4. InPlace(Round', Past', cursorpos')
    <3>1. InPlace(Round, Past, cursorpos) /\ -1 = 2 * (-1) + 1
      BY DEF RingOrder
    <3>. QED  BY <2>2, <2>3, <3>1, OddRound DEF SetsUp, SameScreen
  <2>. QED  BY <1>1, <1>2, <1>3, <2>2, <2>4 DEF RingOrder, SetsUp, SameScreen
<1>. QED  BY <1>4, <1>5

LEMMA RingYields ==
  ASSUME Base, RingOrder, scheduling_algorithm = 0, Yields
  PROVE  RingOrder'
<1>. DEFINE k == Regs(current).i
<1>1. /\ kpc = "user" /\ current' = current /\ current \in Procs
      /\ k \in 0 .. RUNCOUNT /\ RUNCOUNT \in Nat
      /\ \A q \in Procs : q # current => Turn(q)' = Turn(q)
      /\ \A q \in Procs : q = current =>
           Turn(q) = 2 * k + 1 /\ Turn(q)' = 2 * (k + 1)
  BY MovesTurn DEF Yields
<1>2. \A q \in Procs : Turn(q)' = IF q = current THEN Turn(q) + 1 ELSE Turn(q)
  BY <1>1
<1>3. /\ kpc' = "round_robin" /\ pid' = current
      /\ Past' = current /\ Round' = Round
      /\ \A p \in Procs : Turn(p)' = IF p <= Past' THEN Round' + 1 ELSE Round'
  BY <1>1, <1>2, TrapTurn DEF Yields
<1>4. Round = 2 * k + 1
  BY <1>1 DEF Round
<1>5. InPlace(Round', Past', cursorpos')
  <2>1. InPlace(Round, Past, cursorpos) /\ k \in Int
    BY <1>1 DEF RingOrder
  <2>. HIDE DEF k
  <2>. QED  BY <1>3, <1>4, <2>1, OddRound DEF Yields, SameScreen
<1>6. \A p \in Procs : Live(p)' <=> Regs(p)'.at # "exited"
  BY <1>1 DEF Yields, Moves, RingOrder, Live, Kern!Runnable
<1>7. \A p \in Procs : Regs(p)'.at = "setup" => Regs(p)'.i = 0
  BY DEF Yields, Moves, RingOrder
<1>. QED  BY <1>1, <1>3, <1>5, <1>6, <1>7 DEF RingOrder, Yields, SameScreen

LEMMA RingLeaves ==
  ASSUME Base, RingOrder, scheduling_algorithm = 0, Leaves
  PROVE  RingOrder'
<1>1. /\ kpc = "user" /\ current' = current /\ current \in Procs
      /\ RUNCOUNT \in Nat
      /\ \A q \in Procs : q # current => Turn(q)' = Turn(q)
      /\ \A q \in Procs : q = current =>
           Turn(q) = 2 * RUNCOUNT /\ Turn(q)' = 2 * RUNCOUNT + 1
  BY MovesTurn DEF Leaves
<1>2. \A q \in Procs : Turn(q)' = IF q = current THEN Turn(q) + 1 ELSE Turn(q)
  BY <1>1
<1>3. /\ kpc' = "round_robin" /\ pid' = current
      /\ Past' = current /\ Round' = Round
      /\ \A p \in Procs : Turn(p)' = IF p <= Past' THEN Round' + 1 ELSE Round'
  BY <1>1, <1>2, TrapTurn DEF Leaves
<1>4. Round = 2 * RUNCOUNT
  BY <1>1 DEF Round
<1>5. InPlace(Round', Past', cursorpos')
  BY <1>1, <1>3, <1>4 DEF InPlace, RingOrder, Leaves, SameScreen
<1>6. \A p \in Procs : Live(p)' <=> Regs(p)'.at # "exited"
  BY LeavesLive DEF Base, Leaves, Moves, RingOrder
<1>7. \A p \in Procs : Regs(p)'.at = "setup" => Regs(p)'.i = 0
  BY DEF Leaves, Moves, RingOrder
<1>. QED  BY <1>1, <1>3, <1>5, <1>6, <1>7 DEF RingOrder, Leaves, SameScreen

(* In an even round, program p prints in column p.                         *)
LEMMA RingPrints ==
  ASSUME Base, RingOrder, scheduling_algorithm = 0, Prints
  PROVE  RingOrder'
<1>. DEFINE k == Regs(current).i
<1>1. /\ kpc = "user" /\ current' = current /\ current \in Procs
      /\ k \in 0 .. RUNCOUNT /\ RUNCOUNT \in Nat /\ k < RUNCOUNT
      /\ \A q \in Procs : q # current => Turn(q)' = Turn(q)
      /\ \A q \in Procs : q = current =>
           Turn(q) = 2 * k /\ Turn(q)' = 2 * k + 1
  BY MovesTurn DEF Prints
<1>2. \A q \in Procs : Turn(q)' = IF q = current THEN Turn(q) + 1 ELSE Turn(q)
  BY <1>1
<1>3. /\ kpc' = "round_robin" /\ pid' = current
      /\ Past' = current /\ Round' = Round
      /\ \A p \in Procs : Turn(p)' = IF p <= Past' THEN Round' + 1 ELSE Round'
  BY <1>1, <1>2, TrapTurn DEF Prints
<1>4. Round = 2 * k /\ Past = current - 1
  BY <1>1 DEF Round, Past
<1>5. cursorpos = k * Last + (current - 1)
  BY <1>1, <1>4 DEF InPlace, RingOrder
<1>6. /\ Last \in Nat \ {0} /\ k * Last \in Int
      /\ current - 1 \in 0 .. Last - 1
      /\ cursorpos \in Nat /\ cursorpos' = cursorpos + 1
      /\ DOMAIN console = Cells /\ cursorpos \in Cells
      /\ console' = [console EXCEPT ![cursorpos] = current]
  BY <1>1, RingTypes DEF Prints, Base, AppInv, Cells
<1>7. cursorpos' = k * Last + current
  <2>. HIDE DEF k
  <2>1. current \in Int
    BY <1>1, RingTypes
  <2>. QED  BY <1>5, <1>6, <2>1
<1>8. InPlace(Round', Past', cursorpos')
  <2>. HIDE DEF k
  <2>1. ASSUME NEW j \in Int, Round' = 2 * j PROVE j = k
    BY <1>1, <1>3, <1>4, <2>1
  <2>2. ASSUME NEW j \in Int PROVE Round' # 2 * j + 1
    BY <1>1, <1>3, <1>4
  <2>. QED  BY <1>1, <1>3, <1>7, <2>1, <2>2 DEF InPlace
<1>9. ASSUME NEW c \in 0 .. cursorpos' - 1
      PROVE  console'[c] = (c % Last) + 1
  <2>1. CASE c = cursorpos
    <3>. HIDE DEF k
    <3>0. k \in Int /\ current \in Int
      BY <1>1, RingTypes
    <3>1. (Last * k + (current - 1)) % Last = current - 1
      BY <1>6, <3>0, DivisionUnique
    <3>2. cursorpos = Last * k + (current - 1)
      BY <1>5, <1>6, <3>0
    <3>3. cursorpos % Last = current - 1
      BY <3>1, <3>2
    <3>. QED  BY <1>6, <2>1, <3>0, <3>3
  <2>2. CASE c # cursorpos
    <3>1. c \in 0 .. cursorpos - 1
      BY <1>6, <2>2
    <3>. QED  BY <1>6, <2>2, <3>1 DEF RingOrder
  <2>. QED  BY <2>1, <2>2
<1>10. \A p \in Procs : Live(p)' <=> Regs(p)'.at # "exited"
  BY <1>1 DEF Prints, Moves, RingOrder, Live, Kern!Runnable
<1>11. \A p \in Procs : Regs(p)'.at = "setup" => Regs(p)'.i = 0
  BY DEF Prints, Moves, RingOrder
<1>. QED  BY <1>1, <1>3, <1>8, <1>9, <1>10, <1>11 DEF RingOrder

(* The kernel goes on to the next program, whose turn it is, or from the   *)
(* last to the first, which begins a round, unless all have exited.        *)
LEMMA RingSearches ==
  ASSUME Base, RingOrder, Searches PROVE RingOrder'
<1>1. Kern!RoundRobin /\ kpc = "round_robin" /\ pid \in Kern!Pids
  BY DEF Searches, RingOrder, Kern!PickStep, Kern!RoundRobin, Kern!Strict,
     Kern!PriorityDo, Kern!PriorityFor, Kern!PriorityWhile, Kern!ShareKeep,
     Kern!ShareFind, Kern!ShareReset, Kern!ShareMax, Kern!ShareRun,
     Kern!Lottery, Base, KInv, Kern!TypeOK
<1>2. /\ \A p \in Procs : Live(p)' <=> Live(p)
      /\ \A p \in Procs : Regs(p)' = Regs(p)
      /\ \A p \in Procs : Turn(p)' = Turn(p)
  BY DEF Searches, RegsKept, Live, Kern!Runnable, Turn
<1>3. /\ Last \in Nat /\ Last >= 1 /\ current \in 1 .. Last
      /\ Procs = 1 .. Last /\ Past = current /\ Round \in Int
      /\ \A p \in Procs : /\ Turn(p) \in Int /\ Turn(p) <= 2 * RUNCOUNT + 1
                          /\ Turn(p) = 2 * RUNCOUNT + 1 <=> ~Live(p)
                          /\ Turn(p) = IF p <= current THEN Round + 1
                                                       ELSE Round
      /\ RUNCOUNT \in Nat
  BY <1>1, RingTypes, TurnType, OSAssumption DEF RingOrder, Past
<1>4. \/ current < Last /\ pid = current /\ Live(current + 1)
         /\ Kern!NextPid(pid) = current + 1
      \/ current = Last /\ pid = Last /\ Kern!NextPid(pid) = 0 /\ ~Live(0)
      \/ current = Last /\ pid = 0 /\ Kern!NextPid(pid) = 1
      \/ \A p \in Procs : ~Live(p)
  <2>1. \/ pid = current
        \/ current = Last /\ pid = 0
        \/ \A p \in Procs : ~Live(p)
    BY <1>1 DEF RingOrder
  <2>2. ~Live(0)
    BY DEF Base, KInv, EntryZeroEmpty, Live, Kern!Runnable
  <2>3. Kern!NextPid(pid) = IF pid = Last THEN 0 ELSE pid + 1
    BY <1>1, NextPidIs DEF Last
  <2>4. ASSUME current < Last PROVE Live(current + 1)
    <3>1. current + 1 \in Procs /\ current \in Procs
      BY <1>3, <2>4
    <3>2. Turn(current + 1) = Round /\ Turn(current) = Round + 1
          /\ Turn(current) <= 2 * RUNCOUNT + 1
      BY <1>3, <3>1
    <3>3. Turn(current + 1) # 2 * RUNCOUNT + 1
      BY <1>3, <3>2
    <3>. QED  BY <1>3, <3>1, <3>3
  <2>. QED  BY <1>3, <2>1, <2>2, <2>3, <2>4
<1>5. CASE \A p \in Procs : ~Live(p)
  <2>1. ~Live(Kern!NextPid(pid))
    BY <1>1, <1>5, NextPidType, LiveIsProcess DEF Base
  <2>2. kpc' = "round_robin" /\ current' = current
    BY <1>1, <2>1 DEF Kern!RoundRobin, Kern!Stay, Live
  <2>3. Past' = Past /\ Round' = Round
    BY <1>1, <1>2, <1>3, <2>2 DEF Past, Round
  <2>. QED  BY <1>2, <1>5, <2>2, <2>3 DEF RingOrder, Searches, SameScreen
<1>6. CASE current = Last /\ pid = Last /\ Kern!NextPid(pid) = 0 /\ ~Live(0)
  <2>1. kpc' = "round_robin" /\ current' = current /\ pid' = 0
    BY <1>1, <1>6 DEF Kern!RoundRobin, Kern!Stay, Live
  <2>2. Past' = Past /\ Round' = Round
    BY <1>1, <1>2, <1>3, <2>1 DEF Past, Round
  <2>. QED  BY <1>2, <1>6, <2>1, <2>2 DEF RingOrder, Searches, SameScreen
<1>7. CASE current < Last /\ pid = current /\ Live(current + 1)
           /\ Kern!NextPid(pid) = current + 1
  <2>1. PICK n \in Procs : n = current + 1
    BY <1>3, <1>7
  <2>2. kpc' = "user" /\ current' = n
    BY <1>1, <1>7, <2>1 DEF Kern!RoundRobin, Kern!Run, Live
  <2>3. Past' = Past /\ Round' = Round
    <3>1. Turn(current)' = Turn(n)'
      BY <2>2
    <3>2. Turn(n)' = Round
      BY <1>2, <1>3, <2>1
    <3>. QED  BY <1>3, <2>1, <2>2, <3>1, <3>2 DEF Past, Round
  <2>. QED  BY <1>2, <2>2, <2>3 DEF RingOrder, Searches, SameScreen
<1>8. CASE current = Last /\ pid = 0 /\ Kern!NextPid(pid) = 1
  <2>1. PICK n \in Procs : n = 1
    BY <1>3
  <2>2. CASE ~Live(n)
    <3>1. Round + 1 = 2 * RUNCOUNT + 1
      BY <1>3, <2>1, <2>2
    <3>2. \A p \in Procs : ~Live(p)
      BY <1>3, <1>8, <3>1
    <3>. QED  BY <1>5, <3>2
  <2>3. CASE Live(n)
    <3>1. kpc' = "user" /\ current' = n
      BY <1>1, <1>8, <2>1, <2>3 DEF Kern!RoundRobin, Kern!Run, Live
    <3>2. Past' = 0 /\ Round' = Round + 1
      <4>1. Turn(current)' = Turn(n)'
        BY <3>1
      <4>2. Turn(n)' = Round + 1
        BY <1>2, <1>3, <2>1
      <4>. QED  BY <2>1, <3>1, <4>1, <4>2 DEF Past, Round
    <3>3. Round # 2 * RUNCOUNT
      BY <1>3, <2>1, <2>3
    <3>4. InPlace(Round + 1, 0, cursorpos)
      <4>1. ASSUME NEW j \in Int, Round + 1 = 2 * j + 1
            PROVE  cursorpos = (j + 1) * Last
        <5>1. Round = 2 * j
          BY <1>3, <4>1
        <5>2. InPlace(Round, Last, cursorpos)
          BY <1>3, <1>8 DEF RingOrder
        <5>3. j < RUNCOUNT \/ j = RUNCOUNT \/ j > RUNCOUNT
          BY <1>3
        <5>4. j <= RUNCOUNT
          BY <1>3, <2>1, <5>1
        <5>5. cursorpos = j * Last + Last
          BY <1>3, <3>3, <5>1, <5>2, <5>4 DEF InPlace
        <5>. QED  BY <1>3, <5>5
      <4>2. ASSUME NEW j \in Int, Round + 1 = 2 * j
            PROVE  cursorpos = j * Last /\ j * Last \in Int
        <5>1. Round = 2 * (j - 1) + 1 /\ j - 1 \in Int /\ (j - 1) + 1 = j
          BY <1>3, <4>2
        <5>. QED  BY <1>3, <5>1 DEF RingOrder, InPlace
      <4>. QED  BY <1>3, <4>1, <4>2 DEF InPlace
    <3>5. \A p \in Procs : Turn(p)' = IF p <= Past' THEN Round' + 1 ELSE Round'
      BY <1>2, <1>3, <1>8, <3>2
    <3>. QED  BY <1>2, <3>1, <3>2, <3>4, <3>5
              DEF RingOrder, Searches, SameScreen
  <2>. QED  BY <2>2, <2>3
<1>. QED  BY <1>4, <1>5, <1>6, <1>7, <1>8

LEMMA InitRing == Init => RingInv
<1> SUFFICES ASSUME Init, scheduling_algorithm = 0 PROVE Stored /\ RingOrder
  BY DEF RingInv
<1>1. /\ current = 1 /\ kpc = "user" /\ cursorpos = 0 /\ RUNCOUNT \in Nat
      /\ \A p \in Procs : Live(p) /\ 1 <= p
      /\ 1 \in Procs /\ Last \in Nat
  BY OSAssumption
     DEF Init, Kern!Init, Live, Kern!Runnable, Kern!Pids, Procs, Last
<1>2. \A p \in Procs : Regs(p).at = "setup" /\ Regs(p).i = 0
  <2>1. ASSUME NEW p \in Procs
        PROVE  Regs(p) = [at |-> "setup", i |-> 0, cell |-> 0,
                          stored |-> FALSE]
    BY <2>1, ProcsArePids DEF Init, Kern!Init, Regs, AppStart, Kern!UserMode
  <2>. QED  BY <2>1
<1>3. /\ \A p \in Procs : Turn(p) = Round
      /\ Round = 0 \/ Round = -1
      /\ Past = 0
  BY <1>1, <1>2 DEF Turn, Round, Past
<1>4. InPlace(Round, Past, cursorpos)
  BY <1>1, <1>3 DEF InPlace
<1>5. \A p \in Procs : Turn(p) = IF p <= Past THEN Round + 1 ELSE Round
  BY <1>1, <1>3 DEF Procs
<1>. QED  BY <1>1, <1>2, <1>4, <1>5, InitStored DEF RingOrder

LEMMA NextRing ==
  ASSUME OSInv, KInv, RingInv, [Next]_vars PROVE RingInv'
<1>1. SUFFICES ASSUME SameSetup, EXERCISE_8', scheduling_algorithm' = 0,
                      ~allow_clock_interrupt'
               PROVE  Stored' /\ RingOrder'
  BY DEF RingInv
<1>2. EXERCISE_8 /\ scheduling_algorithm = 0 /\ ~allow_clock_interrupt
  <2>1. /\ EXERCISE_8' = EXERCISE_8
        /\ scheduling_algorithm' = scheduling_algorithm
        /\ allow_clock_interrupt' = allow_clock_interrupt
    BY ConfigKept DEF SameConfig
  <2>. QED  BY <1>1, <2>1, Zenon
<1>3. Stored /\ RingOrder
  BY <1>1, <1>2 DEF RingInv
<1>4. Base /\ kpc' # "halted"
  BY <1>2, <1>3, NoHalt DEF Base, OSInv, Running, RingOrder
<1>5. Stored'
  BY <1>4, NextStored
<1>6. CASE UNCHANGED vars
  <2>1. /\ SameScreen /\ UNCHANGED <<p_state, kpc, pid, current>>
        /\ \A p \in Procs : Regs(p)' = Regs(p)
    BY <1>6 DEF vars, Kern!vars, Kern!table, Kern!screen, Kern!locals,
       SameScreen, Regs, Kern!UserMode
  <2>2. /\ \A p \in Procs : Turn(p)' = Turn(p) /\ (Live(p)' <=> Live(p))
        /\ current \in Procs
    BY <1>3, <1>4, <2>1, RingTypes DEF Turn, Live, Kern!Runnable
  <2>3. Past' = Past /\ Round' = Round
    BY <2>1, <2>2 DEF Past, Round
  <2>. QED  BY <1>3, <1>5, <2>1, <2>2, <2>3 DEF RingOrder, SameScreen
<1>7. ~Ticks
  BY <1>2 DEF Ticks
<1>. QED
  BY <1>1, <1>2, <1>3, <1>4, <1>5, <1>6, <1>7, StepIs, RingSetsUp, RingPrints,
     RingYields, RingLeaves, RingSearches

(* Algorithm 0 without the clock, exercise 8: the characters of programs   *)
(* that are built alike follow each other as in "123412341234...", up to   *)
(* the last one, although a character takes two system calls.              *)
THEOREM CooperativeTheorem ==
  Spec => [](SameSetup /\ EXERCISE_8 => CooperativeOutput)
<1>1. RingInv => (SameSetup /\ EXERCISE_8 => CooperativeOutput)
  BY DEF RingInv, RingOrder, CooperativeOutput, Last
<1>. QED
  BY <1>1, InitRing, NextRing, Invariance, KernInvariance, PTL DEF Spec

=============================================================================
