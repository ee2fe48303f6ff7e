---------------------------- MODULE SchedOSProofs ---------------------------
(***************************************************************************)
(* Theorems about SchedOS, for any number of programs that print any       *)
(* number of characters, in both builds, under every algorithm, a clock    *)
(* that ticks between any two instructions, and every place at which a     *)
(* compiler may store the character: the spin lock excludes, no character  *)
(* is lost or overwritten, none leaves the screen, and the programs do to  *)
(* the kernel only what SchedKern expects of processes.                    *)
(***************************************************************************)
EXTENDS SchedOS, Foundations

Running == kpc # "halted"

(* The registers of every program are of its type, and tell where it is.   *)
RegsInv ==
  \A p \in Procs :
    /\ Regs(p) \in AppContext
    /\ Regs(p).at \in {"load", "bump", "unlock", "yield"} =>
         Regs(p).i < RUNCOUNT
    /\ Regs(p).at \in {"setup", "loop", "load", "exited"} => ~Regs(p).stored

LockInv ==
  /\ \A p \in Procs : Holds(p) => cursorposLock = 1 /\ ~EXERCISE_8
  /\ \A p, q \in Procs : Holds(p) /\ Holds(q) => p = q

(* What the holder of the lock has loaded is still the cursor.             *)
LoadedInv ==
  \A p \in Procs : Regs(p).at = "bump" => Regs(p).cell = cursorpos

(* The characters for which the cursor has been moved, <<program, number>>: *)
(* there are as many as cells before the cursor.                           *)
Moved(p)  == Regs(p).at \in {"unlock", "yield"}
Done ==
  {x \in Procs \X (0 .. RUNCOUNT - 1) :
     x[2] < Regs(x[1]).i \/ (x[2] = Regs(x[1]).i /\ Moved(x[1]))}
CursorInv == cursorpos = Cardinality(Done)

(* From the cursor on, the screen is blank, except for a character that    *)
(* was stored before the cursor was moved.                                 *)
BlankInv ==
  \A c \in Cells : c >= cursorpos =>
    \/ console[c] = Blank
    \/ \E p \in Procs : /\ Regs(p).at = "bump" /\ Regs(p).stored
                        /\ c = cursorpos

(* Whose character is still to be stored has a blank cell of its own.      *)
Owes(p) == Regs(p).at \in {"bump", "unlock", "yield"} /\ ~Regs(p).stored
OwedInv ==
  /\ \A p \in Procs : Owes(p) =>
       /\ console[Regs(p).cell] = Blank
       /\ Moved(p) => Regs(p).cell < cursorpos
  /\ \A p, q \in Procs :
       Owes(p) /\ Owes(q) /\ Regs(p).cell = Regs(q).cell => p = q

(* The cells with the character of p.                                      *)
Own(p)   == {c \in Cells : console[c] = p}
CountInv == \A p \in Procs : Cardinality(Own(p)) = Printed(p)

AppInv ==
  /\ DOMAIN p_registers = Pids /\ DOMAIN console = Cells
  /\ RegsInv /\ LockInv /\ LoadedInv /\ CursorInv
  /\ BlankInv /\ OwedInv /\ CountInv

OSInv == Running => AppInv

-----------------------------------------------------------------------------
(* Steps, as what they do to the registers of the programs. *)

(* The program that runs gets registers r, the others keep theirs.         *)
Becomes(r) ==
  \A q \in Procs : Regs(q)' = IF q = current THEN r ELSE Regs(q)

RegsKept == \A q \in Procs : Regs(q)' = Regs(q)

LEMMA ProcsArePids == Procs \subseteq Pids
BY OSAssumption DEF Procs, Pids

(* An instruction of the program that runs changes the CPU's registers.    *)
LEMMA InstructionRegs ==
  ASSUME Kern!UserMode, NEW r, Instruction(r)
  PROVE  Becomes(r) /\ p_registers' = p_registers /\ kpc' = "user"
BY DEF Kern!UserMode, Instruction, Becomes, Regs

(* A trap leaves them in the descriptor.                                   *)
LEMMA TrapRegs ==
  ASSUME DOMAIN p_registers = Pids, NEW r, Kern!Trap(r), kpc' # "user"
  PROVE  Becomes(r) /\ DOMAIN p_registers' = Pids
<1>1. /\ kpc = "user" /\ current' = current
      /\ p_registers' = [p_registers EXCEPT ![current] = r]
  BY DEF Kern!Trap, Kern!UserMode
<1>2. ASSUME NEW q \in Procs
      PROVE  Regs(q)' = IF q = current THEN r ELSE Regs(q)
  BY <1>1, <1>2, ProcsArePids DEF Regs, Kern!UserMode
<1>. QED  BY <1>1, <1>2 DEF Becomes

LEMMA CallScheduleLabel == Kern!CallSchedule => kpc' \notin {"user", "halted"}
BY DEF Kern!CallSchedule

(* The clock interrupt and the kernel change no registers, nor the screen, *)
(* as long as the kernel does not stop.                                    *)
LEMMA TickRegs ==
  ASSUME DOMAIN p_registers = Pids, Kern!Tick
  PROVE  /\ RegsKept /\ DOMAIN p_registers' = Pids
         /\ UNCHANGED <<cursorpos, console>>
<1>1. Kern!Trap(cpu) /\ kpc' # "user" /\ UNCHANGED <<cursorpos, console>>
  BY CallScheduleLabel DEF Kern!Tick, Kern!ClockInterrupt, Kern!screen
<1>2. Becomes(cpu) /\ DOMAIN p_registers' = Pids
  BY <1>1, TrapRegs
<1>. QED  BY <1>1, <1>2 DEF Becomes, RegsKept, Regs, Kern!Trap

LEMMA KernelRegs ==
  ASSUME Kern!KernelStep, kpc' # "halted"
  PROVE  RegsKept /\ UNCHANGED <<p_registers, cursorpos, console>>
<1>1. Kern!PickStep
  BY DEF Kern!KernelStep, Kern!DivideError, Kern!UnknownAlgorithm, Kern!Spin,
     Kern!Stay, Kern!vars
<1>2. kpc # "user" /\ UNCHANGED <<p_registers, cursorpos, console>>
  BY <1>1 DEF Kern!PickStep, Kern!screen, Kern!RoundRobin, Kern!Strict,
     Kern!PriorityDo, Kern!PriorityFor, Kern!PriorityWhile, Kern!ShareKeep,
     Kern!ShareFind, Kern!ShareReset, Kern!ShareMax, Kern!ShareRun,
     Kern!Lottery
<1>3. kpc' # "user" \/ \E p : Kern!Run(p)
  BY <1>1 DEF Kern!PickStep, Kern!Stay, Kern!UseShare, Kern!RoundRobin,
     Kern!Strict, Kern!PriorityDo, Kern!PriorityFor, Kern!PriorityWhile,
     Kern!ShareKeep, Kern!ShareFind, Kern!ShareReset, Kern!ShareMax,
     Kern!ShareRun, Kern!Lottery
<1>. QED  BY <1>2, <1>3 DEF RegsKept, Regs, Kern!UserMode, Kern!Run

-----------------------------------------------------------------------------
(* The cursor *)

LEMMA AppContextType ==
  ASSUME NEW r \in AppContext
  PROVE  /\ r.at \in Places /\ r.i \in 0 .. RUNCOUNT
         /\ r.cell \in 0 .. VideoCells /\ r.stored \in BOOLEAN
BY DEF AppContext

LEMMA AllCharacters ==
  /\ IsFiniteSet(Procs \X (0 .. RUNCOUNT - 1))
  /\ Cardinality(Procs \X (0 .. RUNCOUNT - 1)) = (NPROCS - 1) * RUNCOUNT
<1>1. IsFiniteSet(Procs) /\ Cardinality(Procs) = NPROCS - 1
  BY FS_Interval, OSAssumption DEF Procs
<1>2. /\ IsFiniteSet(0 .. RUNCOUNT - 1)
      /\ Cardinality(0 .. RUNCOUNT - 1) = RUNCOUNT
  BY FS_Interval, OSAssumption
<1>. QED  BY <1>1, <1>2, FS_Product

LEMMA DoneFinite ==
  /\ IsFiniteSet(Done) /\ Cardinality(Done) \in Nat
  /\ Cardinality(Done) <= (NPROCS - 1) * RUNCOUNT
<1>1. Done \in SUBSET (Procs \X (0 .. RUNCOUNT - 1))
  BY DEF Done
<1>2. IsFiniteSet(Done)
      /\ Cardinality(Done) <= Cardinality(Procs \X (0 .. RUNCOUNT - 1))
  BY <1>1, AllCharacters, FS_Subset
<1>3. Cardinality(Done) \in Nat
  BY <1>2, FS_CardinalityType
<1>. QED  BY <1>2, <1>3, AllCharacters

(* There is a cell for whoever has still to print.                         *)
LEMMA CursorOnScreen ==
  ASSUME RegsInv, CursorInv
  PROVE  /\ cursorpos \in Nat /\ cursorpos <= CONSOLE_END
         /\ \A p \in Procs : Regs(p).i < RUNCOUNT /\ ~Moved(p) =>
              cursorpos < CONSOLE_END /\ cursorpos \in Cells
<1>1. (NPROCS - 1) * RUNCOUNT <= CONSOLE_END /\ (NPROCS - 1) * RUNCOUNT \in Nat
      /\ CONSOLE_END \in Nat
  BY OSAssumption, ScreenAssumption DEF CONSOLE_END
<1>2. cursorpos \in Nat /\ cursorpos <= (NPROCS - 1) * RUNCOUNT
  BY DoneFinite DEF CursorInv
<1>3. ASSUME NEW p \in Procs, Regs(p).i < RUNCOUNT, ~Moved(p)
      PROVE  cursorpos < (NPROCS - 1) * RUNCOUNT
  <2>. DEFINE x == <<p, Regs(p).i>>
  <2>1. Regs(p).i \in 0 .. RUNCOUNT
    BY AppContextType DEF RegsInv
  <2>2. x \in Procs \X (0 .. RUNCOUNT - 1) /\ x \notin Done
    BY <1>3, <2>1, OSAssumption DEF Done
  <2>3. Done \cup {x} \in SUBSET (Procs \X (0 .. RUNCOUNT - 1))
    BY <2>2 DEF Done
  <2>4. Cardinality(Done \cup {x}) <= (NPROCS - 1) * RUNCOUNT
    BY <2>3, AllCharacters, FS_Subset
  <2>5. Cardinality(Done \cup {x}) = Cardinality(Done) + 1
    BY <2>2, DoneFinite, FS_AddElement
  <2>. QED  BY <1>1, <1>2, <2>4, <2>5, DoneFinite DEF CursorInv
<1>4. ASSUME NEW p \in Procs, Regs(p).i < RUNCOUNT, ~Moved(p)
      PROVE  cursorpos < CONSOLE_END /\ cursorpos \in Cells
  <2>1. cursorpos < (NPROCS - 1) * RUNCOUNT
    BY <1>3, <1>4
  <2>. QED  BY <1>1, <1>2, <2>1, OSAssumption DEF Cells
<1>. QED  BY <1>1, <1>2, <1>4

(* Steps that leave the cursor do not change what is done; the others do   *)
(* one character more.                                                     *)
LEMMA CursorKept ==
  ASSUME RegsInv, CursorInv, current \in Procs, NEW r, Becomes(r),
         \A k \in 0 .. RUNCOUNT - 1 :
           (k < r.i \/ (k = r.i /\ r.at \in {"unlock", "yield"})) <=>
           (k < Regs(current).i \/ (k = Regs(current).i /\ Moved(current))),
         cursorpos' = cursorpos
  PROVE  CursorInv'
<1>1. ASSUME NEW x \in Procs \X (0 .. RUNCOUNT - 1)
      PROVE  (x \in Done') <=> (x \in Done)
  BY DEF Done, Becomes, Moved
<1>2. Done' = Done
  BY <1>1 DEF Done
<1>. QED  BY <1>2 DEF CursorInv

LEMMA CursorMoved ==
  ASSUME RegsInv, CursorInv, current \in Procs, NEW r, Becomes(r),
         r.i = Regs(current).i, r.i < RUNCOUNT, ~Moved(current),
         r.at \in {"unlock", "yield"}, cursorpos' = cursorpos + 1
  PROVE  CursorInv'
<1>. DEFINE x == <<current, r.i>>
<1>1. r.i \in 0 .. RUNCOUNT - 1
  BY AppContextType, OSAssumption DEF RegsInv
<1>2. x \in Procs \X (0 .. RUNCOUNT - 1) /\ x \notin Done
  BY <1>1 DEF Done
<1>3. ASSUME NEW y \in Procs \X (0 .. RUNCOUNT - 1)
      PROVE  (y \in Done') <=> (y \in Done \/ y = x)
  BY <1>1 DEF Done, Becomes, Moved
<1>4. Done' = Done \cup {x}
  BY <1>2, <1>3 DEF Done
<1>5. Cardinality(Done') = Cardinality(Done) + 1
  BY <1>2, <1>4, DoneFinite, FS_AddElement
<1>. QED  BY <1>5 DEF CursorInv

-----------------------------------------------------------------------------
(* The screen *)

LEMMA OwnFinite == \A p : IsFiniteSet(Own(p)) /\ Cardinality(Own(p)) \in Nat
<1> TAKE p
<1>1. IsFiniteSet(Cells)
  BY FS_Interval, OSAssumption DEF Cells
<1>2. Own(p) \in SUBSET Cells
  BY DEF Own
<1>. QED  BY <1>1, <1>2, FS_Subset, FS_CardinalityType

(* Nothing is written.                                                     *)
LEMMA ScreenKept ==
  ASSUME CountInv, BlankInv, current \in Procs, NEW r, Becomes(r),
         UNCHANGED <<cursorpos, console>>,
         r.i + (IF r.stored THEN 1 ELSE 0) = Printed(current),
         Regs(current).at = "bump" =>
           r.at = "bump" /\ r.stored = Regs(current).stored
  PROVE  CountInv' /\ BlankInv'
<1>1. \A p : Own(p)' = Own(p)
  BY DEF Own
<1>2. CountInv'
  BY <1>1 DEF CountInv, Becomes, Printed
<1>3. BlankInv'
  BY DEF BlankInv, Becomes
<1>. QED  BY <1>2, <1>3

(* A program writes its character to a blank cell.                         *)
LEMMA CellWritten ==
  ASSUME CountInv, DOMAIN console = Cells, current \in Procs,
         current' = current, NEW r, Becomes(r), NEW cell \in Cells,
         console[cell] = Blank,
         console' = [console EXCEPT ![cell] = current],
         Regs(current) \in AppContext,
         ~Regs(current).stored, r.i = Regs(current).i, r.stored = TRUE
  PROVE  CountInv'
<1>1. \A p \in Procs : Blank # p
  BY OSAssumption
<1>2. Own(current)' = Own(current) \cup {cell} /\ cell \notin Own(current)
  BY <1>1 DEF Own
<1>3. Cardinality(Own(current)') = Cardinality(Own(current)) + 1
  BY <1>2, OwnFinite, FS_AddElement
<1>4. ASSUME NEW p \in Procs, p # current PROVE Own(p)' = Own(p)
  BY <1>1, <1>4 DEF Own
<1>5. Printed(current)' = Printed(current) + 1
  BY AppContextType, OSAssumption DEF Printed, Becomes
<1>6. ASSUME NEW p \in Procs, p # current PROVE Printed(p)' = Printed(p)
  BY <1>6 DEF Printed, Becomes
<1>. QED  BY <1>3, <1>4, <1>5, <1>6 DEF CountInv

-----------------------------------------------------------------------------
(* The invariant *)

LEMMA InitOS == Init => OSInv
<1> SUFFICES ASSUME Init PROVE AppInv
  BY DEF OSInv
<1>1. /\ current = 1 /\ kpc = "user" /\ cpu = AppStart[1]
      /\ p_registers = AppStart /\ cursorpos = 0
      /\ console = [c \in Cells |-> Blank]
  BY DEF Init, Kern!Init, Kern!Cells, Cells
<1>2. ASSUME NEW p \in Procs
      PROVE  Regs(p) = [at |-> "setup", i |-> 0, cell |-> 0, stored |-> FALSE]
  BY <1>1, <1>2, ProcsArePids DEF Regs, AppStart, Kern!UserMode
<1>3. RegsInv
  <2>1. [at |-> "setup", i |-> 0, cell |-> 0, stored |-> FALSE] \in AppContext
    BY OSAssumption DEF AppContext, Places
  <2>2. ASSUME NEW p \in Procs
        PROVE  /\ Regs(p) \in AppContext
               /\ Regs(p).at = "setup" /\ ~Regs(p).stored
    <3>. DEFINE r0 == [at |-> "setup", i |-> 0, cell |-> 0, stored |-> FALSE]
    <3>1. Regs(p) = r0
      BY <1>2
    <3>2. r0.at = "setup" /\ r0.stored = FALSE
      OBVIOUS
    <3>. HIDE DEF r0
    <3>. QED  BY <2>1, <3>1, <3>2 DEF r0
  <2>. QED  BY <2>2 DEF RegsInv
<1>4. LockInv /\ LoadedInv /\ OwedInv
  BY <1>2 DEF LockInv, LoadedInv, OwedInv, Holds, Owes
<1>5. CursorInv
  <2>1. ASSUME NEW x \in Done PROVE FALSE
    BY <1>2 DEF Done, Moved
  <2>. QED  BY <1>1, <2>1, FS_EmptySet DEF CursorInv
<1>6. BlankInv
  BY <1>1 DEF BlankInv
<1>7. CountInv
  <2>1. ASSUME NEW p \in Procs PROVE Own(p) = {}
    BY <1>1, OSAssumption DEF Own
  <2>. QED  BY <1>2, <2>1, FS_EmptySet DEF CountInv, Printed
<1>. QED  BY <1>1, <1>3, <1>4, <1>5, <1>6, <1>7 DEF AppInv, AppStart

(* What every step of a program has in common.                             *)
LEMMA ActorFacts ==
  ASSUME AppInv, current \in Procs, Kern!UserMode
  PROVE  /\ Regs(current) = cpu /\ cpu \in AppContext
         /\ cpu.at \in Places /\ cpu.i \in 0 .. RUNCOUNT
         /\ cpu.cell \in 0 .. VideoCells /\ cpu.stored \in BOOLEAN
         /\ cpu.at \in {"load", "bump", "unlock", "yield"} => cpu.i < RUNCOUNT
         /\ cpu.at \in {"setup", "loop", "load", "exited"} => ~cpu.stored
BY AppContextType DEF AppInv, RegsInv, Regs

(* A step that prints nothing, outside "*cursorpos++".                     *)
LEMMA QuietStep ==
  ASSUME AppInv, current \in Procs, current' = current,
         DOMAIN p_registers' = Pids, UNCHANGED <<cursorpos, console>>,
         NEW r \in AppContext, Becomes(r),
         Regs(current).at \notin {"bump"}, r.at # "bump",
         r.at \in {"load", "unlock", "yield"} => r.i < RUNCOUNT,
         r.at \in {"setup", "loop", "load", "exited"} => ~r.stored,
         r.i + (IF r.stored THEN 1 ELSE 0) = Printed(current),
         \A k \in 0 .. RUNCOUNT - 1 :
           (k < r.i \/ (k = r.i /\ r.at \in {"unlock", "yield"})) <=>
           (k < Regs(current).i \/ (k = Regs(current).i /\ Moved(current))),
         r.at \in {"unlock", "yield"} /\ ~r.stored =>
           Owes(current) /\ Moved(current) /\ r.cell = Regs(current).cell,
         LockInv'
  PROVE  AppInv'
<1>1. RegsInv'
  BY DEF AppInv, RegsInv, Becomes
<1>2. LoadedInv'
  BY DEF AppInv, LoadedInv, Becomes
<1>3. CursorInv'
  BY CursorKept DEF AppInv
<1>4. CountInv' /\ BlankInv'
  BY ScreenKept DEF AppInv
<1>5. OwedInv'
  BY DEF AppInv, OwedInv, Owes, Moved, Becomes
<1>6. DOMAIN console' = Cells
  BY DEF AppInv
<1>. QED  BY <1>1, <1>2, <1>3, <1>4, <1>5, <1>6 DEF AppInv

LEMMA SetupStep ==
  ASSUME AppInv, current \in Procs, Setup PROVE AppInv'
<1>. DEFINE r == Go("loop")
<1>1. Kern!UserMode /\ cpu.at = "setup"
  BY DEF Setup, At
<1>2. /\ r \in AppContext /\ r.at = "loop" /\ r.i = cpu.i
      /\ r.stored = cpu.stored
  BY <1>1, ActorFacts DEF Go, AppContext, Places
<1>3. /\ Becomes(r) /\ DOMAIN p_registers' = Pids /\ current' = current
      /\ UNCHANGED <<cursorpos, console, apps>>
  <2>1. CASE Instruction(r) /\ UNCHANGED <<cursorpos, console>>
    BY <1>1, <2>1, InstructionRegs DEF Instruction, Setup, AppInv
  <2>2. CASE Kern!Trap(r) /\ Kern!CallSchedule /\ UNCHANGED Kern!screen
    BY <2>2, TrapRegs, CallScheduleLabel DEF AppInv, Kern!Trap, Kern!screen,
       Setup
  <2>. QED  BY <2>1, <2>2 DEF Setup, Kern!SysPriority, Kern!SysShare,
               Kern!SysLottery
<1>4. LockInv'
  BY <1>2, <1>3 DEF AppInv, LockInv, Holds, Becomes, apps
<1>. QED
  BY <1>1, <1>2, <1>3, <1>4, ActorFacts, QuietStep DEF Printed, Moved

LEMMA AcquireStep ==
  ASSUME AppInv, current \in Procs, Acquire PROVE AppInv'
<1>. DEFINE r == IF cursorposLock = 0 THEN Go("load") ELSE cpu
<1>1. /\ Kern!UserMode /\ cpu.at = "loop" /\ cpu.i < RUNCOUNT
      /\ ~EXERCISE_8 /\ cursorposLock' = 1 /\ EXERCISE_8' = EXERCISE_8
  BY DEF Acquire, At
<1>2. /\ r \in AppContext
      /\ r.at = IF cursorposLock = 0 THEN "load" ELSE "loop"
      /\ r.i = cpu.i /\ r.stored = cpu.stored
  BY <1>1, ActorFacts DEF Go, AppContext, Places
<1>3. /\ Becomes(r) /\ DOMAIN p_registers' = Pids /\ current' = current
      /\ UNCHANGED <<cursorpos, console>>
  BY <1>1, InstructionRegs DEF Instruction, Acquire, AppInv
<1>4. LockInv'
  <2>1. ASSUME NEW q \in Procs, Holds(q)'
        PROVE  IF cursorposLock = 0 THEN q = current ELSE Holds(q)
    BY <1>1, <1>2, <1>3, <2>1 DEF AppInv, LockInv, Holds, Becomes
  <2>. QED  BY <1>1, <2>1 DEF AppInv, LockInv
<1>. QED
  BY <1>1, <1>2, <1>3, <1>4, ActorFacts, QuietStep DEF Printed, Moved

LEMMA LoadStep ==
  ASSUME AppInv, current \in Procs, Load PROVE AppInv'
<1>. DEFINE r == [Go("bump") EXCEPT !.cell = cursorpos]
<1>1. /\ Kern!UserMode /\ cpu.at = "load"
      /\ UNCHANGED <<apps, cursorpos, console>>
  BY DEF Load, At
<1>2. cursorpos \in Cells /\ cursorpos \in 0 .. VideoCells
  BY <1>1, ActorFacts, CursorOnScreen, OSAssumption DEF AppInv, Moved, Cells
<1>3. /\ r \in AppContext /\ r.at = "bump" /\ r.i = cpu.i /\ r.cell = cursorpos
      /\ r.stored = cpu.stored
  BY <1>1, <1>2, ActorFacts DEF Go, AppContext, Places
<1>4. /\ Becomes(r) /\ DOMAIN p_registers' = Pids /\ current' = current
  BY <1>1, InstructionRegs DEF Instruction, Load, AppInv
<1>5. /\ cpu.i < RUNCOUNT /\ ~cpu.stored /\ Regs(current) = cpu
  BY <1>1, ActorFacts
<1>6. Holds(current) /\ \A q \in Procs : Holds(q) => q = current
  BY <1>1, <1>5 DEF Holds, AppInv, LockInv
<1>7. RegsInv'
  BY <1>3, <1>4, <1>5 DEF AppInv, RegsInv, Becomes
<1>8. LockInv'
  BY <1>1, <1>3, <1>4, <1>6 DEF AppInv, LockInv, Holds, Becomes, apps
<1>9. LoadedInv'
  BY <1>1, <1>3, <1>4 DEF AppInv, LoadedInv, Becomes
<1>10. CursorInv'
  BY <1>1, <1>3, <1>4, <1>5, CursorKept DEF AppInv, Moved
<1>11. CountInv' /\ BlankInv'
  BY <1>1, <1>3, <1>4, <1>5, ScreenKept DEF AppInv, Printed
<1>12. OwedInv'
  <2>1. console[cursorpos] = Blank
    <3>1. \A p \in Procs : Regs(p).at # "bump"
      BY <1>1, <1>5, <1>6 DEF Holds
    <3>2. cursorpos >= cursorpos
      BY <1>2 DEF Cells
    <3>. QED  BY <1>2, <3>1, <3>2 DEF AppInv, BlankInv
  <2>2. ASSUME NEW q \in Procs, Owes(q)', q # current
        PROVE  /\ Owes(q) /\ Regs(q)' = Regs(q) /\ Moved(q)
               /\ Regs(q).cell < cursorpos /\ console[Regs(q).cell] = Blank
    <3>1. Owes(q) /\ Regs(q)' = Regs(q)
      BY <1>4, <2>2 DEF Owes, Becomes
    <3>2. Moved(q)
      BY <1>6, <2>2, <3>1 DEF Owes, Moved, Holds
    <3>. QED  BY <3>1, <3>2 DEF AppInv, OwedInv
  <2>3. ASSUME NEW p \in Procs, Owes(p)'
        PROVE  /\ console[Regs(p)'.cell] = Blank
               /\ Moved(p)' => Regs(p)'.cell < cursorpos
    <3>1. CASE p = current
      BY <1>3, <1>4, <2>1, <3>1 DEF Moved, Becomes
    <3>2. CASE p # current
      BY <2>2, <2>3, <3>2
    <3>. QED  BY <3>1, <3>2
  <2>4. ASSUME NEW p \in Procs, NEW q \in Procs, Owes(p)', Owes(q)',
               Regs(p)'.cell = Regs(q)'.cell, p # q
        PROVE  FALSE
    <3>1. CASE p # current /\ q # current
      BY <2>2, <2>4, <3>1 DEF AppInv, OwedInv
    <3>2. CASE p = current
      <4>1. Regs(q).cell < cursorpos /\ Regs(q).cell = cursorpos
        BY <1>3, <1>4, <2>2, <2>4, <3>2 DEF Becomes
      <4>. QED  BY <1>2, <4>1
    <3>3. CASE q = current
      <4>1. Regs(p).cell < cursorpos /\ Regs(p).cell = cursorpos
        BY <1>3, <1>4, <2>2, <2>4, <3>3 DEF Becomes
      <4>. QED  BY <1>2, <4>1
    <3>. QED  BY <3>1, <3>2, <3>3
  <2>. QED  BY <1>1, <2>3, <2>4 DEF OwedInv
<1>. QED
  BY <1>1, <1>4, <1>7, <1>8, <1>9, <1>10, <1>11, <1>12 DEF AppInv

LEMMA BumpStep ==
  ASSUME AppInv, current \in Procs, Bump PROVE AppInv'
<1>. DEFINE r == Go("unlock")
<1>1. Kern!UserMode /\ cpu.at = "bump" /\ UNCHANGED <<apps, console>>
  BY DEF Bump, At
<1>2. /\ r \in AppContext /\ r.at = "unlock" /\ r.i = cpu.i
      /\ r.cell = cpu.cell /\ r.stored = cpu.stored
  BY <1>1, ActorFacts DEF Go, AppContext, Places
<1>3. /\ Becomes(r) /\ DOMAIN p_registers' = Pids /\ current' = current
  BY <1>1, InstructionRegs DEF Instruction, Bump, AppInv
<1>4. cpu.i < RUNCOUNT /\ Regs(current) = cpu
  BY <1>1, ActorFacts
<1>5. Holds(current) /\ \A q \in Procs : Holds(q) => q = current
  BY <1>1, <1>4 DEF Holds, AppInv, LockInv
<1>6. cpu.cell = cursorpos /\ cursorpos' = cursorpos + 1 /\ cursorpos \in Nat
  BY <1>1, <1>4, CursorOnScreen DEF Bump, AppInv, LoadedInv
<1>7. RegsInv'
  BY <1>2, <1>3, <1>4 DEF AppInv, RegsInv, Becomes
<1>8. LockInv'
  BY <1>1, <1>2, <1>3, <1>5 DEF AppInv, LockInv, Holds, Becomes, apps
<1>9. LoadedInv'
  BY <1>1, <1>2, <1>3, <1>5 DEF AppInv, LoadedInv, Becomes, Holds
<1>10. CursorInv'
  BY <1>1, <1>2, <1>3, <1>4, <1>6, CursorMoved DEF AppInv, Moved
<1>11. BlankInv'
  <2>1. ASSUME NEW c \in Cells, c >= cursorpos' PROVE console[c] = Blank
    <3>1. c >= cursorpos /\ c # cursorpos
      BY <1>6, <2>1 DEF Cells
    <3>. QED  BY <3>1 DEF AppInv, BlankInv
  <2>. QED  BY <1>1, <2>1 DEF BlankInv
<1>12. CountInv'
  <2>1. \A p : Own(p)' = Own(p)
    BY <1>1 DEF Own
  <2>2. ASSUME NEW p \in Procs PROVE Printed(p)' = Printed(p)
    BY <1>2, <1>3, <1>4 DEF Printed, Becomes
  <2>. QED  BY <2>1, <2>2 DEF AppInv, CountInv
<1>13. OwedInv'
  <2>1. ASSUME NEW q \in Procs, Owes(q)'
        PROVE  Owes(q) /\ Regs(q)'.cell = Regs(q).cell
    BY <1>1, <1>2, <1>3, <1>4, <2>1 DEF Owes, Becomes
  <2>2. ASSUME NEW q \in Procs, Owes(q)' PROVE Regs(q).cell < cursorpos'
    <3>1. CASE q = current
      BY <1>4, <1>6, <3>1
    <3>2. CASE q # current
      <4>1. Owes(q) /\ Moved(q)
        BY <1>5, <2>1, <2>2, <3>2 DEF Owes, Moved, Holds
      <4>2. Regs(q).cell < cursorpos /\ Regs(q).cell \in Int
        BY <4>1, AppContextType DEF AppInv, OwedInv, RegsInv
      <4>. QED  BY <1>6, <4>2
    <3>. QED  BY <3>1, <3>2
  <2>. QED  BY <1>1, <2>1, <2>2 DEF AppInv, OwedInv
<1>. QED
  BY <1>1, <1>3, <1>7, <1>8, <1>9, <1>10, <1>11, <1>12, <1>13 DEF AppInv

(* The cell in which a character is still to be stored is on the screen.   *)
LEMMA OwedCell ==
  ASSUME AppInv, NEW p \in Procs, Owes(p)
  PROVE  Regs(p).cell \in Cells
<1>1. Regs(p).i < RUNCOUNT /\ Regs(p).cell \in 0 .. VideoCells
  BY AppContextType DEF AppInv, RegsInv, Owes
<1>2. cursorpos \in Nat /\ cursorpos <= CONSOLE_END
  BY CursorOnScreen DEF AppInv
<1>3. CASE Regs(p).at = "bump"
  BY <1>1, <1>3, CursorOnScreen DEF AppInv, LoadedInv, Moved
<1>4. CASE Regs(p).at # "bump"
  <2>1. Regs(p).cell < cursorpos
    BY <1>4 DEF AppInv, OwedInv, Owes, Moved
  <2>2. CONSOLE_END \in Nat
    BY ScreenAssumption DEF CONSOLE_END
  <2>. QED  BY <1>1, <1>2, <2>1, <2>2, OSAssumption DEF Cells
<1>. QED  BY <1>3, <1>4

LEMMA StoreStep ==
  ASSUME AppInv, current \in Procs, Store PROVE AppInv'
<1>. DEFINE r == [cpu EXCEPT !.stored = TRUE]
<1>1. /\ Kern!UserMode /\ cpu.at \in {"bump", "unlock", "yield"}
      /\ ~cpu.stored /\ UNCHANGED <<apps, cursorpos>>
      /\ console' = [console EXCEPT ![cpu.cell] = current]
  BY DEF Store, At
<1>2. /\ r \in AppContext /\ r.at = cpu.at /\ r.i = cpu.i
      /\ r.cell = cpu.cell /\ r.stored = TRUE
  BY <1>1, ActorFacts DEF AppContext
<1>3. /\ Becomes(r) /\ DOMAIN p_registers' = Pids /\ current' = current
  BY <1>1, InstructionRegs DEF Instruction, Store, AppInv
<1>4. cpu.i < RUNCOUNT /\ Regs(current) = cpu /\ cpu \in AppContext
  BY <1>1, ActorFacts
<1>5. Owes(current) /\ console[cpu.cell] = Blank
  BY <1>1, <1>4 DEF Owes, AppInv, OwedInv
<1>6. cpu.cell \in Cells
  BY <1>1, <1>4, <1>5, OwedCell DEF AppInv
<1>7. RegsInv'
  BY <1>1, <1>2, <1>3, <1>4 DEF AppInv, RegsInv, Becomes
<1>8. LockInv'
  BY <1>1, <1>2, <1>3, <1>4 DEF AppInv, LockInv, Holds, Becomes, apps
<1>9. LoadedInv'
  BY <1>1, <1>2, <1>3, <1>4 DEF AppInv, LoadedInv, Becomes
<1>10. CursorInv'
  BY <1>1, <1>2, <1>3, <1>4, CursorKept DEF AppInv, Moved
<1>11. CountInv'
  BY <1>1, <1>2, <1>3, <1>4, <1>5, <1>6, CellWritten DEF AppInv
<1>12. BlankInv'
  <2>. SUFFICES ASSUME NEW c \in Cells, c >= cursorpos
                PROVE  \/ console'[c] = Blank
                       \/ \E p \in Procs : /\ Regs(p)'.at = "bump"
                                           /\ Regs(p)'.stored
                                           /\ c = cursorpos
    BY <1>1 DEF BlankInv
  <2>1. CASE c = cpu.cell
    <3>1. cpu.at = "bump"
      <4>1. cursorpos \in Int /\ c \in Int
        BY CursorOnScreen DEF AppInv, Cells
      <4>. QED  BY <1>1, <1>4, <1>5, <2>1, <4>1 DEF AppInv, OwedInv, Moved
    <3>2. c = cursorpos
      BY <1>4, <2>1, <3>1 DEF AppInv, LoadedInv
    <3>3. Regs(current)'.at = "bump" /\ Regs(current)'.stored
      BY <1>2, <1>3, <3>1 DEF Becomes
    <3>. QED  BY <1>3, <3>2, <3>3
  <2>2. CASE c # cpu.cell
    <3>1. console'[c] = console[c]
      BY <1>1, <2>2 DEF AppInv
    <3>2. ASSUME NEW p \in Procs, Regs(p).at = "bump", Regs(p).stored
          PROVE  Regs(p)'.at = "bump" /\ Regs(p)'.stored
      BY <1>1, <1>3, <1>4, <3>2 DEF Becomes
    <3>. QED  BY <3>1, <3>2 DEF AppInv, BlankInv
  <2>. QED  BY <2>1, <2>2
<1>13. OwedInv'
  <2>1. ASSUME NEW q \in Procs, Owes(q)'
        PROVE  q # current /\ Owes(q) /\ Regs(q)' = Regs(q)
    BY <1>2, <1>3, <2>1 DEF Owes, Becomes
  <2>2. ASSUME NEW q \in Procs, Owes(q)'
        PROVE  console'[Regs(q).cell] = console[Regs(q).cell]
    <3>1. Regs(q).cell # cpu.cell
      BY <1>4, <1>5, <2>1, <2>2 DEF AppInv, OwedInv
    <3>. QED  BY <1>1, <3>1
  <2>. QED  BY <1>1, <2>1, <2>2 DEF AppInv, OwedInv, Moved
<1>14. DOMAIN console' = Cells
  BY <1>1 DEF AppInv
<1>. QED
  BY <1>3, <1>7, <1>8, <1>9, <1>10, <1>11, <1>12, <1>13, <1>14 DEF AppInv

LEMMA ReleaseStep ==
  ASSUME AppInv, current \in Procs, Release PROVE AppInv'
<1>. DEFINE r == Go("yield")
<1>1. /\ Kern!UserMode /\ cpu.at = "unlock"
      /\ cursorposLock' = 0 /\ UNCHANGED <<EXERCISE_8, cursorpos, console>>
  BY DEF Release, At
<1>2. /\ r \in AppContext /\ r.at = "yield" /\ r.i = cpu.i
      /\ r.stored = cpu.stored /\ r.cell = cpu.cell
  BY <1>1, ActorFacts DEF Go, AppContext, Places
<1>3. /\ Becomes(r) /\ DOMAIN p_registers' = Pids /\ current' = current
  BY <1>1, InstructionRegs DEF Instruction, Release, AppInv
<1>4. LockInv'
  <2>1. Holds(current)
    BY <1>1, ActorFacts DEF Holds
  <2>2. ASSUME NEW q \in Procs, Holds(q)' PROVE FALSE
    BY <1>2, <1>3, <2>1, <2>2 DEF AppInv, LockInv, Holds, Becomes
  <2>. QED  BY <2>2 DEF LockInv
<1>. QED
  BY <1>1, <1>2, <1>3, <1>4, ActorFacts, QuietStep DEF Printed, Moved, Owes

LEMMA YieldStep ==
  ASSUME AppInv, current \in Procs, Yield PROVE AppInv'
<1>. DEFINE r == [at |-> "loop", i |-> cpu.i + 1, cell |-> 0, stored |-> FALSE]
<1>1. Kern!UserMode /\ cpu.at = "yield" /\ cpu.stored
  BY DEF Yield, At
<1>2. /\ r \in AppContext /\ r.at = "loop" /\ r.i = cpu.i + 1 /\ ~r.stored
      /\ cpu.i \in 0 .. RUNCOUNT
  BY <1>1, ActorFacts, OSAssumption DEF AppContext, Places
<1>3. /\ Becomes(r) /\ DOMAIN p_registers' = Pids /\ current' = current
      /\ UNCHANGED <<cursorpos, console, apps>>
  <2>1. Kern!Trap(r) /\ Kern!CallSchedule /\ UNCHANGED Kern!screen
    BY DEF Yield, Kern!SysYield
  <2>. QED  BY <2>1, TrapRegs, CallScheduleLabel DEF AppInv, Kern!Trap,
               Kern!screen, Yield
<1>4. LockInv'
  BY <1>2, <1>3 DEF AppInv, LockInv, Holds, Becomes, apps
<1>5. \A k \in 0 .. RUNCOUNT - 1 : k < r.i <=> (k < cpu.i \/ k = cpu.i)
  BY <1>2, OSAssumption
<1>. QED
  BY <1>1, <1>2, <1>3, <1>4, <1>5, ActorFacts, QuietStep DEF Printed, Moved

LEMMA ExitStep ==
  ASSUME AppInv, current \in Procs, Exit PROVE AppInv'
<1>. DEFINE r == Go("exited")
<1>1. Kern!UserMode /\ cpu.at = "loop"
  BY DEF Exit, At
<1>2. /\ r \in AppContext /\ r.at = "exited" /\ r.i = cpu.i
      /\ r.stored = cpu.stored
  BY <1>1, ActorFacts DEF Go, AppContext, Places
<1>3. /\ Becomes(r) /\ DOMAIN p_registers' = Pids /\ current' = current
      /\ UNCHANGED <<cursorpos, console, apps>>
  <2>1. Kern!Trap(r) /\ Kern!CallSchedule /\ UNCHANGED Kern!screen
    BY DEF Exit, Kern!SysExit
  <2>. QED  BY <2>1, TrapRegs, CallScheduleLabel DEF AppInv, Kern!Trap,
               Kern!screen, Exit
<1>4. LockInv'
  BY <1>2, <1>3 DEF AppInv, LockInv, Holds, Becomes, apps
<1>. QED
  BY <1>1, <1>2, <1>3, <1>4, ActorFacts, QuietStep DEF Printed, Moved

LEMMA PrintStep ==
  ASSUME AppInv, current \in Procs, PrintChar PROVE AppInv'
<1>. DEFINE r == [Go("yield") EXCEPT !.stored = TRUE]
<1>1. /\ Kern!UserMode /\ cpu.at = "loop" /\ cpu.i < RUNCOUNT /\ EXERCISE_8
      /\ UNCHANGED apps
  BY DEF PrintChar, At
<1>2. /\ r \in AppContext /\ r.at = "yield" /\ r.i = cpu.i /\ r.stored = TRUE
  BY <1>1, ActorFacts DEF Go, AppContext, Places
<1>3. /\ Kern!Trap(r) /\ Kern!CallSchedule /\ cursorpos' = cursorpos + 1
      /\ console' = [console EXCEPT ![cursorpos] = current]
  BY DEF PrintChar, Kern!SysPrint
<1>4. Becomes(r) /\ DOMAIN p_registers' = Pids /\ current' = current
  BY <1>3, TrapRegs, CallScheduleLabel DEF AppInv, Kern!Trap
<1>5. Regs(current) = cpu /\ ~cpu.stored /\ cpu \in AppContext
  BY <1>1, ActorFacts
<1>6. \A p \in Procs : Regs(p).at \notin {"load", "bump", "unlock"}
  BY <1>1 DEF AppInv, LockInv, Holds
<1>7. cursorpos \in Nat /\ cursorpos \in Cells /\ console[cursorpos] = Blank
  <2>1. cursorpos \in Nat /\ cursorpos \in Cells
    BY <1>1, <1>5, CursorOnScreen DEF AppInv, Moved
  <2>2. cursorpos >= cursorpos
    BY <2>1
  <2>. QED  BY <1>6, <2>1, <2>2 DEF AppInv, BlankInv
<1>8. RegsInv'
  BY <1>1, <1>2, <1>4 DEF AppInv, RegsInv, Becomes
<1>9. LockInv' /\ LoadedInv'
  BY <1>1, <1>2, <1>4, <1>6 DEF AppInv, LockInv, LoadedInv, Holds, Becomes,
     apps
<1>10. CursorInv'
  BY <1>1, <1>2, <1>3, <1>4, <1>5, CursorMoved DEF AppInv, Moved
<1>11. CountInv'
  BY <1>2, <1>3, <1>4, <1>5, <1>7, CellWritten DEF AppInv
<1>12. BlankInv'
  <2>1. ASSUME NEW c \in Cells, c >= cursorpos' PROVE console'[c] = Blank
    <3>1. c >= cursorpos /\ c # cursorpos
      BY <1>3, <1>7, <2>1 DEF Cells
    <3>. QED  BY <1>3, <1>6, <3>1 DEF AppInv, BlankInv
  <2>. QED  BY <2>1 DEF BlankInv
<1>13. OwedInv'
  <2>1. ASSUME NEW q \in Procs, Owes(q)'
        PROVE  /\ Owes(q) /\ Regs(q)' = Regs(q) /\ Regs(q).cell < cursorpos
               /\ console[Regs(q).cell] = Blank /\ Regs(q).cell \in Int
    <3>1. Owes(q) /\ Regs(q)' = Regs(q)
      BY <1>2, <1>4, <2>1 DEF Owes, Becomes
    <3>2. Moved(q)
      BY <1>6, <3>1 DEF Owes, Moved
    <3>. QED  BY <3>1, <3>2, AppContextType DEF AppInv, OwedInv, RegsInv
  <2>2. ASSUME NEW q \in Procs, Owes(q)'
        PROVE  /\ console'[Regs(q)'.cell] = Blank
               /\ Regs(q)'.cell < cursorpos'
    BY <1>3, <1>7, <2>1, <2>2
  <2>3. ASSUME NEW p \in Procs, NEW q \in Procs, Owes(p)', Owes(q)',
               Regs(p)'.cell = Regs(q)'.cell
        PROVE  p = q
    BY <2>1, <2>3 DEF AppInv, OwedInv
  <2>. QED  BY <2>2, <2>3 DEF OwedInv
<1>14. DOMAIN console' = Cells
  BY <1>3 DEF AppInv
<1>. QED
  BY <1>4, <1>8, <1>9, <1>10, <1>11, <1>12, <1>13, <1>14 DEF AppInv

(* A step that keeps all registers and the screen.                         *)
LEMMA KeptStep ==
  ASSUME AppInv, RegsKept, DOMAIN p_registers' = Pids,
         UNCHANGED <<apps, cursorpos, console>>
  PROVE  AppInv'
<1>1. RegsInv'
  BY DEF AppInv, RegsInv, RegsKept
<1>2. LockInv' /\ LoadedInv'
  BY DEF AppInv, LockInv, LoadedInv, Holds, RegsKept, apps
<1>3. CursorInv'
  <2>1. ASSUME NEW x \in Procs \X (0 .. RUNCOUNT - 1)
        PROVE  x \in Done' <=> x \in Done
    BY DEF Done, Moved, RegsKept
  <2>2. Done' = Done
    BY <2>1 DEF Done
  <2>. QED  BY <2>2 DEF AppInv, CursorInv
<1>4. BlankInv'
  BY DEF AppInv, BlankInv, RegsKept
<1>5. OwedInv'
  BY DEF AppInv, OwedInv, Owes, Moved, RegsKept
<1>6. CountInv'
  <2>1. \A p : Own(p)' = Own(p)
    BY DEF Own
  <2>. QED  BY <2>1 DEF AppInv, CountInv, Printed, RegsKept
<1>. QED  BY <1>1, <1>2, <1>3, <1>4, <1>5, <1>6 DEF AppInv

LEMMA NextOS == ASSUME OSInv, [Next]_vars PROVE OSInv'
<1>1. ASSUME kpc = "halted" PROVE kpc' = "halted"
  BY <1>1 DEF Next, AppStep, Setup, PrintChar, Acquire, Load, Bump, Store,
     Release, Yield, Exit, At, Kern!UserMode, Tick, Kern!Tick,
     Kern!ClockInterrupt, Kern!Trap, KernelStep, Kern!KernelStep,
     Kern!PickStep, Kern!RoundRobin, Kern!Strict, Kern!PriorityDo,
     Kern!PriorityFor, Kern!PriorityWhile, Kern!ShareKeep, Kern!ShareFind,
     Kern!ShareReset, Kern!ShareMax, Kern!ShareRun, Kern!Lottery,
     Kern!DivideError, Kern!UnknownAlgorithm, Kern!Spin, Kern!Stay, vars,
     Kern!vars
<1>. SUFFICES ASSUME AppInv, kpc' # "halted" PROVE AppInv'
  BY <1>1 DEF OSInv, Running
<1>2. ASSUME NEW p \in Procs, AppStep(p) PROVE AppInv'
  BY <1>2, SetupStep, PrintStep, AcquireStep, LoadStep, BumpStep, StoreStep,
     ReleaseStep, YieldStep, ExitStep DEF AppStep
<1>3. CASE Tick
  BY <1>3, TickRegs, KeptStep DEF Tick, AppInv
<1>4. CASE KernelStep
  BY <1>4, KernelRegs, KeptStep DEF KernelStep, AppInv
<1>5. CASE UNCHANGED vars
  BY <1>5, KeptStep DEF vars, Kern!vars, Kern!table, Kern!screen, AppInv,
     RegsKept, Regs, Kern!UserMode
<1>. QED  BY <1>2, <1>3, <1>4, <1>5 DEF Next

LEMMA Invariance == Spec => []OSInv
<1>. QED  BY InitOS, NextOS, PTL DEF Spec

-----------------------------------------------------------------------------
(* The spin lock excludes: between a swap that returned 0 and the swap     *)
(* that writes 0 back, the cursor belongs to one process.                  *)
THEOREM ExclusionTheorem == Spec => []MutualExclusion
<1>1. OSInv => MutualExclusion
  BY DEF OSInv, Running, AppInv, LockInv, MutualExclusion
<1>. QED  BY <1>1, Invariance, PTL

(* No character is lost or overwritten, whenever the clock ticks and       *)
(* wherever the compiler puts the store, even behind the unlocking swap.   *)
THEOREM OutputTheorem == Spec => []NothingLost
<1>1. OSInv => NothingLost
  BY DEF OSInv, Running, AppInv, CountInv, Own, NothingLost
<1>. QED  BY <1>1, Invariance, PTL

(* A newline leaves the cursor on the screen or on CONSOLE_END, and fills  *)
(* only cells of the screen.                                               *)
LEMMA EndOfRowBound ==
  \A c \in Nat : /\ EndOfRow(c) \in 0 .. CONSOLE_END
                 /\ RowCells(c) \subseteq 0 .. CONSOLE_END - 1
<1>. TAKE c \in Nat
<1>1. CONSOLE_END \in Nat /\ CONSOLE_END > 0
  BY ScreenAssumption DEF CONSOLE_END
<1>2. WrapCursor(c) \in Nat /\ WrapCursor(c) < CONSOLE_END
  BY <1>1 DEF WrapCursor
<1>3. EndOfRow(c) \in Nat /\ EndOfRow(c) <= CONSOLE_END
  BY <1>2, ScreenAssumption, NextRow DEF EndOfRow, CONSOLE_END
<1>. QED  BY <1>1, <1>2, <1>3 DEF RowCells

-----------------------------------------------------------------------------
(* The kernel stops by a division that leaves the screen alone, or with a  *)
(* message that stays on it.                                               *)
LEMMA HaltOnScreen ==
  ASSUME StaysOnScreen, cursorpos \in Nat, [Next]_vars, kpc' = "halted"
  PROVE  StaysOnScreen' /\ cursorpos' \in Nat
<1>1. CASE UNCHANGED <<cursorpos, console>>
  BY <1>1 DEF StaysOnScreen
<1>2. CASE Kern!UnknownAlgorithm
  <2>. DEFINE next == EndOfRow(cursorpos)
              text == RowCells(cursorpos) \cup RowCells(next)
  <2>1. /\ console' = [c \in Cells |-> IF c \in text THEN KernelText
                                       ELSE console[c]]
        /\ cursorpos' = EndOfRow(next)
    BY <1>2 DEF Kern!UnknownAlgorithm, Kern!EndOfRow, EndOfRow, Kern!RowCells,
       RowCells, Kern!WrapCursor, WrapCursor, Kern!CONSOLE_END, CONSOLE_END,
       Kern!Cells, Cells
  <2>2. CONSOLE_END \in Nat
    BY ScreenAssumption DEF CONSOLE_END
  <2>3. next \in Nat /\ text \subseteq 0 .. CONSOLE_END - 1
    BY <2>2, EndOfRowBound
  <2>4. cursorpos' \in Nat /\ cursorpos' <= CONSOLE_END
    BY <2>1, <2>2, <2>3, EndOfRowBound
  <2>. HIDE DEF next, text
  <2>5. ASSUME NEW c \in Cells, c >= CONSOLE_END PROVE console'[c] = Blank
    <3>. c \in Int
      BY <2>5 DEF Cells
    <3>1. c \notin 0 .. CONSOLE_END - 1
      BY <2>2, <2>5
    <3>2. c \notin text
      BY <2>3, <3>1
    <3>. QED  BY <2>1, <2>5, <3>2 DEF StaysOnScreen
  <2>. QED  BY <2>4, <2>5 DEF StaysOnScreen
<1>3. ASSUME NEW p \in Procs, AppStep(p) PROVE FALSE
  <2>1. Kern!UserMode /\ (kpc' = kpc \/ Kern!CallSchedule)
    BY <1>3 DEF AppStep, Setup, PrintChar, Acquire, Load, Bump, Store,
       Release, Yield, Exit, At, Instruction, Kern!SysPriority, Kern!SysShare,
       Kern!SysLottery, Kern!SysPrint, Kern!SysYield, Kern!SysExit
  <2>. QED  BY <2>1, CallScheduleLabel DEF Kern!UserMode
<1>4. CASE Tick
  BY <1>1, <1>4, CallScheduleLabel DEF Tick, Kern!Tick, Kern!ClockInterrupt
<1>5. CASE KernelStep
  BY <1>1, <1>2, <1>5 DEF KernelStep, Kern!KernelStep, Kern!PickStep,
     Kern!screen, Kern!Spin, Kern!vars
<1>6. CASE UNCHANGED vars
  BY <1>1, <1>6 DEF vars, Kern!vars, Kern!screen
<1>. QED  BY <1>3, <1>4, <1>5, <1>6 DEF Next

LEMMA RunningOnScreen ==
  ASSUME AppInv PROVE StaysOnScreen /\ cursorpos \in Nat
<1>1. cursorpos \in Nat /\ cursorpos <= CONSOLE_END /\ CONSOLE_END \in Nat
  BY CursorOnScreen, ScreenAssumption DEF AppInv, CONSOLE_END
<1>2. ASSUME NEW c \in Cells, c >= CONSOLE_END PROVE console[c] = Blank
  <2>1. c \in Int /\ c >= cursorpos
    BY <1>1, <1>2 DEF Cells
  <2>2. ASSUME NEW p \in Procs, Regs(p).at = "bump" PROVE c # cursorpos
    <3>1. cursorpos < CONSOLE_END
      BY <2>2, CursorOnScreen DEF AppInv, RegsInv, Moved
    <3>. QED  BY <1>1, <1>2, <2>1, <3>1
  <2>. QED  BY <2>1, <2>2 DEF AppInv, BlankInv
<1>. QED  BY <1>1, <1>2 DEF StaysOnScreen

(* No character is ever written behind the end of the screen, although     *)
(* neither sys_print nor the programs look for it.                         *)
THEOREM ScreenTheorem == Spec => []StaysOnScreen
<1>. DEFINE Inv == StaysOnScreen /\ cursorpos \in Nat
<1>1. Init => Inv
  BY InitOS, RunningOnScreen DEF OSInv, Running, Init, Kern!Init
<1>2. ASSUME OSInv, OSInv', Inv, [Next]_vars PROVE Inv'
  <2>1. CASE kpc' = "halted"
    BY <1>2, <2>1, HaltOnScreen
  <2>2. CASE kpc' # "halted"
    <3>1. AppInv'
      BY <1>2, <2>2 DEF OSInv, Running
    <3>. QED  BY <3>1, RunningOnScreen, PTL
  <2>. QED  BY <2>1, <2>2
<1>. QED  BY <1>1, <1>2, Invariance, PTL DEF Spec

-----------------------------------------------------------------------------
(* A step of a program is one that SchedKern expects of a process: an      *)
(* instruction that leaves the kernel alone, or a system call.             *)
LEMMA AppImplements ==
  ASSUME AppInv, current \in Procs, AppStep(current)
  PROVE  Kern!Next
<1>1. Kern!UserMode
  BY DEF AppStep, Setup, PrintChar, Acquire, Load, Bump, Store, Release,
     Yield, Exit, At
<1>2. /\ Regs(current) = cpu /\ cpu \in AppContext
      /\ cpu.i \in 0 .. RUNCOUNT
      /\ cpu.at \in {"load", "bump", "unlock", "yield"} => cpu.i < RUNCOUNT
  BY <1>1, ActorFacts
<1>3. \A place \in Places : Go(place) \in AppContext
  BY <1>2 DEF Go, AppContext
<1>4. ASSUME NEW r \in AppContext, Instruction(r),
             \/ UNCHANGED <<cursorpos, console>>
             \/ cursorpos' \in 0 .. VideoCells /\ UNCHANGED console
             \/ /\ \E cell \in Cells, c \in Procs :
                     console' = [console EXCEPT ![cell] = c]
                /\ UNCHANGED cursorpos
      PROVE  Kern!Next
  BY <1>1, <1>4 DEF Instruction, Kern!Next, Kern!UserInstruction, Kern!screen,
     Kern!config, Kern!table, Kern!attrs, Kern!locals, Kern!Cells, Cells
<1>5. ASSUME NEW r \in AppContext, Kern!SystemCall(r) PROVE Kern!Next
  BY <1>5 DEF Kern!Next, Kern!UserTrap
<1>6. CASE Setup
  <2>1. Go("loop") \in AppContext /\ SetupArg[current] \in SetupArgs
    BY <1>3 DEF Places, SetupArgs
  <2>. QED  BY <1>4, <1>5, <1>6, <2>1 DEF Setup, Kern!SystemCall
<1>7. CASE PrintChar
  <2>1. [Go("yield") EXCEPT !.stored = TRUE] \in AppContext
    BY <1>2 DEF Go, AppContext, Places
  <2>. QED  BY <1>5, <1>7, <2>1 DEF PrintChar, Kern!SystemCall
<1>8. CASE Acquire
  BY <1>2, <1>3, <1>4, <1>8 DEF Acquire, Places
<1>9. CASE Load
  <2>1. cursorpos \in 0 .. VideoCells
    BY <1>2, <1>9, CursorOnScreen, OSAssumption
       DEF AppInv, Moved, Cells, Load, At
  <2>2. [Go("bump") EXCEPT !.cell = cursorpos] \in AppContext
    BY <1>2, <2>1 DEF Go, AppContext, Places
  <2>. QED  BY <1>4, <1>9, <2>2 DEF Load
<1>10. CASE Bump
  <2>1. cpu.cell = cursorpos /\ cursorpos \in Cells
    BY <1>2, <1>10, CursorOnScreen DEF AppInv, Moved, LoadedInv, Bump, At
  <2>2. cursorpos' \in 0 .. VideoCells
    BY <1>10, <2>1, OSAssumption DEF Bump, Cells
  <2>. QED  BY <1>3, <1>4, <1>10, <2>2 DEF Bump, Places
<1>11. CASE Store
  <2>1. Owes(current)
    BY <1>2, <1>11 DEF Owes, Store, At
  <2>2. cpu.cell \in Cells
    BY <1>2, <2>1, OwedCell
  <2>3. [cpu EXCEPT !.stored = TRUE] \in AppContext
    BY <1>2 DEF AppContext
  <2>. QED  BY <1>4, <1>11, <2>2, <2>3 DEF Store
<1>12. CASE Release
  BY <1>3, <1>4, <1>12 DEF Release, Places
<1>13. CASE Yield
  <2>1. [at |-> "loop", i |-> cpu.i + 1, cell |-> 0, stored |-> FALSE]
        \in AppContext
    BY <1>2, <1>13, OSAssumption DEF AppContext, Places, Yield, At
  <2>. QED  BY <1>5, <1>13, <2>1 DEF Yield, Kern!SystemCall
<1>14. CASE Exit
  BY <1>3, <1>5, <1>14 DEF Exit, Places, Kern!SystemCall
<1>. QED
  BY <1>6, <1>7, <1>8, <1>9, <1>10, <1>11, <1>12, <1>13, <1>14 DEF AppStep

(* Every step of the system is a step of the kernel, or none.              *)
LEMMA StepImplements ==
  ASSUME OSInv, [Next]_vars PROVE [Kern!Next]_(Kern!vars)
<1>1. ASSUME NEW p \in Procs, AppStep(p) PROVE Kern!Next
  <2>1. current = p /\ kpc = "user"
    BY <1>1 DEF AppStep, Setup, PrintChar, Acquire, Load, Bump, Store,
       Release, Yield, Exit, At, Kern!UserMode
  <2>2. AppInv
    BY <2>1 DEF OSInv, Running
  <2>. QED  BY <1>1, <2>1, <2>2, AppImplements
<1>2. Tick \/ KernelStep => Kern!Next
  BY DEF Tick, KernelStep, Kern!Next
<1>. QED  BY <1>1, <1>2 DEF Next, vars

(* The programs do to the kernel what SchedKern lets processes do: all its *)
(* theorems hold of the whole system.                                      *)
THEOREM KernTheorem == Spec => ImplementsKern
<1>1. Init => Kern!Init
  BY DEF Init
<1>. QED
  BY <1>1, StepImplements, Invariance, PTL DEF Spec, ImplementsKern, Kern!Spec
=============================================================================
