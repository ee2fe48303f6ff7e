------------------------------ MODULE Machine ------------------------------
(***************************************************************************)
(* The machine below SchedKern, one instruction at a time: what start()    *)
(* does to the hardware (segments_init(), interrupt_controller_init()),    *)
(* and the ways into the kernel (the stubs of schedos-int.S) and out of it *)
(* (run() in schedos-x86.c).  There, a trap and a switch are one step      *)
(* each; here they are pushes and pops of words, with devices that request *)
(* service at any time.                                                    *)
(*                                                                         *)
(* The kernel code that is left to execute is a sequence of instructions;  *)
(* when there is none, a process runs.  A word is a pair of what it is     *)
(* (the register it belongs to, a selector, a number) and a value; the     *)
(* registers of a process all have the value of its last instruction.      *)
(***************************************************************************)
EXTENDS Descriptors, InterruptController

CONSTANTS
  Procs,           \* the processes, numbers
  First,           \* the process start() runs
  Values,          \* contents of registers; 0 is what a new process has
  DataSelector,    \* what a process with these contents has in %ds
  ClockChoices,    \* values start() may give interrupt_controller_init()
  Interrupts,      \* the numbers processes name in int instructions
  Exceptions,      \* "divide_error", "protection": what else they may do
  Devices          \* interrupt lines that are in use

AppData == SEGSEL_APP_DATA + 3
AppCode == SEGSEL_APP_CODE + 3

ASSUME MachineAssumption ==
  /\ First \in Procs
  /\ Values \subseteq Nat /\ 0 \in Values
  /\ DataSelector \in [Values -> {sel \in 0 .. 255 : DataLoadable(sel)}]
  /\ DataSelector[0] = AppData
  /\ ClockChoices \subseteq BOOLEAN
  /\ Interrupts \subseteq 0 .. 255
  /\ Exceptions \subseteq {"divide_error", "protection"}
  /\ 0 \in Devices /\ Devices \subseteq 0 .. 15

VARIABLES
  allow_clock_interrupt,
  cpu,           \* the registers
  stack,         \* what %esp points to, upwards
  code,          \* the kernel code still to be executed
  loaded,        \* which of "gdt", "tr", "idt" the CPU has been told
  current,       \* the process run() last switched to
  p_registers,   \* the registers_t of each process
  trap           \* history: the last trap, [n, by]: its vector and cause

machine == <<cpu, stack, code, loaded, current, p_registers, trap>>
vars    == <<allow_clock_interrupt, bus, machine>>

-----------------------------------------------------------------------------
(* Words *)

Selector(n) == <<"selector", n>>
Number(n)   == <<"number", n>>
Flags(n, enabled) == <<"eflags", n, enabled>>
Junk  == 1000            \* what the kernel's code leaves in a register
Above == <<"above", 0>>  \* what lies above the kernel's stack

(* registers_t, from its lowest address on.                                *)
pushal == <<"edi", "esi", "ebp", "original_esp", "ebx", "edx", "ecx", "eax">>
registers_t ==
  pushal \o <<"es", "ds", "intno", "err", "eip", "cs", "eflags", "esp", "ss">>

Offset(field) == CHOOSE k \in DOMAIN registers_t : registers_t[k] = field

Fields == {registers_t[k] : k \in DOMAIN registers_t}

(* What a process owns; the rest of a registers_t is about the trap.       *)
Registers == Fields \ {"original_esp", "intno", "err"}

KindOf(field) ==
  CASE field \in {"es", "ds", "cs", "ss"} -> "selector"
    [] field \in {"intno", "err"}         -> "number"
    [] field = "original_esp"             -> "esp"
    [] OTHER                              -> field

(* The registers in user mode.  A process cannot change the interrupt      *)
(* flag, and needs no code or stack segment but its own.                   *)
UserRegisters(v, enabled) ==
  [r \in Registers |->
     CASE r = "cs"          -> Selector(AppCode)
       [] r = "ds"          -> Selector(DataSelector[v])
       [] r \in {"es","ss"} -> Selector(AppData)
       [] r = "eflags"      -> Flags(v, enabled)
       [] OTHER             -> <<r, v>>]

(* special_registers_init(), the stack and the entry point.                *)
InitialFrame ==
  [k \in DOMAIN registers_t |->
     IF registers_t[k] \in Registers
     THEN UserRegisters(0, TRUE)[registers_t[k]]
     ELSE <<KindOf(registers_t[k]), 0>>]

-----------------------------------------------------------------------------
(* Kernel code, as sequences of instructions <<operation, argument>>.      *)

(* start(). *)
start(allow) ==
  LET writes == interrupt_controller_init(allow) IN
  << <<"lgdt", "global_descriptor_table">>, <<"ltr", SEGSEL_TASKSTATE>>,
     <<"lidt", "interrupt_descriptor_table">> >>
  \o [k \in DOMAIN writes |-> <<"outb", writes[k]>>]
  \o << <<"init_processes", First>> >>

generic_int_handler ==
  << <<"push_register", "ds">>, <<"push_register", "es">>, <<"pushal", "">>,
     <<"load_kernel_data", SEGSEL_KERN_DATA>>, <<"interrupt", "%esp">> >>

(* A stub per gate: n is the vector that led to it.                        *)
Handler(off, n) ==
  (CASE off = "clock_int_handler"   -> << <<"push", 0>>, <<"push", 32>> >>
     [] off = "sys_int_handler"     -> << <<"push", 0>>, <<"push", n>> >>
     [] off = "default_int_handler" -> << <<"push", 0>> >>)
  \o generic_int_handler

(* The two segments change places. *)
Mutant_SwapsSegments(p) ==
  << <<"load_esp", p>>, <<"popal", "">>, <<"pop_register", "ds">>,
     <<"pop_register", "es">>, <<"add_esp", 2>>, <<"iret", "">> >>

RunCode(p) ==
  << <<"load_esp", p>>, <<"popal", "">>, <<"pop_register", "es">>,
     <<"pop_register", "ds">>, <<"add_esp", 2>>, <<"iret", "">> >>

Hang == << <<"jmp", "self">> >>

(* What the CPU does when it cannot deliver an exception.                  *)
Shutdown == << <<"shutdown", "">> >>

(* The cases of interrupt(). *)
Cases == {INT_CLOCK} \cup INT_SYS_YIELD .. INT_SYS_YIELD + 5

UserMode == code = << >>
Enabled  == cpu.eflags[3]
Cpl      == Rpl(cpu.cs[2])

At(operation) == ~UserMode /\ Head(code)[1] = operation
Arg           == Head(code)[2]
Continue      == code' = Tail(code)

-----------------------------------------------------------------------------
(* The CPU takes interrupt or exception n, with an error code or without.  *)

GateUsable(n) ==
  LET gate == interrupt_descriptors(n) IN
  /\ {"gdt", "idt"} \subseteq loaded
  /\ CodeLoadable(gate.gd_ss, 0)
  /\ Cpl > 0 => /\ "tr" \in loaded
                /\ StackLoadable(kernel_task_descriptor.ts_ss0, 0)

Deliver(n, error, by) ==
  LET gate  == interrupt_descriptors(n)
      saved == <<cpu.eip, cpu.cs, cpu.eflags>>
      keepIF == gate.gd_type = STS_TG32 /\ Enabled
  IN
  /\ trap' = [n |-> n, by |-> by]
  /\ UNCHANGED <<allow_clock_interrupt, loaded, current, p_registers>>
  /\ IF GateUsable(n)
     THEN /\ stack' = error \o saved \o IF Cpl > 0
                                        THEN <<cpu.esp, cpu.ss>>
                                        ELSE stack
          /\ cpu' = [cpu EXCEPT !.cs = Selector(gate.gd_ss),
                                !.ss = Selector(kernel_task_descriptor.ts_ss0),
                                !.eip = <<"eip", Junk>>,
                                !.esp = <<"esp", Junk>>,
                                !.eflags = Flags(Junk, keepIF)]
          /\ code' = Handler(gate.gd_off, n)
     ELSE code' = Shutdown /\ UNCHANGED <<cpu, stack>>

(* An interrupt a device asked for; the CPU looks between instructions.    *)
HardwareInterrupt ==
  /\ Enabled
  /\ \E n \in 0 .. 255 : Acknowledge(n) /\ Deliver(n, << >>, <<"irq", n>>)

(* An int instruction of a process: the gate must be open to it.           *)
INT_GP == 13
MaxError == 8 * 255 + 2   \* the error code of the last gate
SoftwareInterrupt(n) ==
  /\ UserMode
  /\ IF interrupt_descriptors(n).gd_dpl >= Cpl
     THEN Deliver(n, << >>, <<"int", n>>)
     ELSE Deliver(INT_GP, <<Number(8 * n + 2)>>, <<"int", n>>)
  /\ UNCHANGED bus

(* An exception a process causes: a division by zero, which comes without  *)
(* an error code, or an instruction it has no privilege for.               *)
UserException(e) ==
  /\ UserMode
  /\ \/ e = "divide_error" /\ Deliver(0, << >>, <<e, 0>>)
     \/ e = "protection"   /\ Deliver(INT_GP, <<Number(0)>>, <<e, 0>>)
  /\ UNCHANGED bus

(* The kernel's own mistake: a selector that cannot be loaded.             *)
KernelException ==
  Deliver(INT_GP, <<Number(0)>>, <<"kernel", 0>>) /\ UNCHANGED bus

-----------------------------------------------------------------------------
Init ==
  /\ allow_clock_interrupt \in ClockChoices
  /\ ControllerInit
  /\ cpu = [UserRegisters(0, FALSE) EXCEPT   \* cli; pushl $0, popfl
              !.cs = Selector(SEGSEL_KERN_CODE), !.ss = Selector(SEGSEL_KERN_DATA),
              !.ds = Selector(SEGSEL_KERN_DATA), !.es = Selector(SEGSEL_KERN_DATA)]
  /\ stack = << >>
  /\ code = start(allow_clock_interrupt)
  /\ loaded = {}
  /\ current = First
  /\ p_registers = [p \in Procs |-> [k \in DOMAIN registers_t |-> Number(0)]]
  /\ trap = [n |-> INT_CLOCK, by |-> <<"boot", 0>>]

(* The instructions that tell the CPU its tables.                          *)
Load(table) ==
  /\ loaded' = loaded \cup {table}
  /\ Continue
  /\ UNCHANGED <<allow_clock_interrupt, bus, cpu, stack, current, p_registers,
                 trap>>

LoadTables ==
  \/ At("lgdt") /\ Load("gdt")
  \/ /\ At("ltr")
     /\ IF "gdt" \in loaded /\ TaskLoadable(Arg) THEN Load("tr")
                                                 ELSE KernelException
  \/ At("lidt") /\ Load("idt")

PortWrite ==
  /\ At("outb")
  /\ outb(Arg[1], Arg[2])
  /\ Continue
  /\ UNCHANGED <<allow_clock_interrupt, cpu, stack, loaded, current,
                 p_registers, trap>>

(* The descriptors are cleared and set up, and the first process is run.   *)
InitProcesses ==
  /\ At("init_processes")
  /\ p_registers' = [p \in Procs |-> InitialFrame]
  /\ current' = Arg
  /\ code' = RunCode(Arg)
  /\ UNCHANGED <<allow_clock_interrupt, bus, cpu, stack, loaded, trap>>

Push(words) ==
  /\ stack' = words \o stack
  /\ Continue
  /\ UNCHANGED <<allow_clock_interrupt, bus, cpu, loaded, current, p_registers,
                 trap>>

(* The stubs save what the CPU has not saved.                              *)
SaveRegisters ==
  \/ At("push") /\ Push(<<Number(Arg)>>)
  \/ At("push_register") /\ Push(<<cpu[Arg]>>)
  \/ /\ At("pushal")
     /\ Push([k \in DOMAIN pushal |->
                IF pushal[k] = "original_esp" THEN cpu.esp ELSE cpu[pushal[k]]])

LoadKernelData ==
  /\ At("load_kernel_data")
  /\ cpu' = [cpu EXCEPT !.eax = Number(Arg),
                        !.ds = Selector(Arg), !.es = Selector(Arg)]
  /\ Continue
  /\ UNCHANGED <<allow_clock_interrupt, bus, stack, loaded, current,
                 p_registers, trap>>

(* *reg, as far as the kernel's stack reaches.                             *)
Frame == [k \in DOMAIN registers_t |->
            IF k \in DOMAIN stack THEN stack[k] ELSE Above]

(* interrupt() saves the frame first and then looks at the number in it.   *)
Interrupt ==
  /\ At("interrupt")
  /\ p_registers' = [p_registers EXCEPT ![current] = Frame]
  /\ cpu' = [r \in Registers |->
               IF r \in {"cs", "ds", "es", "ss", "eflags"} THEN cpu[r]
               ELSE <<r, Junk>>]
  /\ code' = IF Frame[Offset("intno")] \in {Number(n) : n \in Cases}
             THEN << <<"schedule", "">> >> ELSE Hang
  /\ UNCHANGED <<allow_clock_interrupt, bus, stack, loaded, current, trap>>

(* schedule() picks any process (SchedKern says which) and calls run().    *)
Schedule ==
  /\ At("schedule")
  /\ \E p \in Procs : current' = p /\ code' = RunCode(p)
  /\ UNCHANGED <<allow_clock_interrupt, bus, cpu, stack, loaded, p_registers,
                 trap>>

-----------------------------------------------------------------------------
(* run(): the stack pointer is set to the descriptor, whose words are      *)
(* popped where they belong.                                               *)

Unchanged == UNCHANGED <<allow_clock_interrupt, bus, loaded, current,
                         p_registers, trap>>

Drop(n) == stack' = SubSeq(stack, n + 1, Len(stack))

LoadEsp ==
  /\ At("load_esp")
  /\ stack' = p_registers[Arg]
  /\ Continue
  /\ UNCHANGED cpu /\ Unchanged

Popal ==
  /\ At("popal")
  /\ cpu' = [r \in Registers |->
               IF \E k \in DOMAIN pushal : pushal[k] = r
               THEN stack[Offset(r)] ELSE cpu[r]]
  /\ Drop(Len(pushal))
  /\ Continue
  /\ Unchanged

IsSelector(word, Loadable(_)) == word[1] = "selector" /\ Loadable(word[2])

PopSegment ==
  /\ At("pop_register")
  /\ IF IsSelector(Head(stack), DataLoadable)
     THEN /\ cpu' = [cpu EXCEPT ![Arg] = Head(stack)]
          /\ Drop(1)
          /\ Continue
          /\ Unchanged
     ELSE KernelException

AddEsp ==
  /\ At("add_esp")
  /\ Drop(Arg)
  /\ Continue
  /\ UNCHANGED cpu /\ Unchanged

(* Back to privilege level 3, and to the interrupt flag of the process.    *)
ToUser ==
  /\ Len(stack) = 5
  /\ stack[1][1] = "eip" /\ stack[3][1] = "eflags"
  /\ IsSelector(stack[2], LAMBDA sel : CodeLoadable(sel, 3))
  /\ IsSelector(stack[5], LAMBDA sel : StackLoadable(sel, 3))

Iret ==
  /\ At("iret")
  /\ IF ToUser
     THEN /\ cpu' = [cpu EXCEPT !.eip = stack[1], !.cs = stack[2],
                                !.eflags = stack[3], !.esp = stack[4],
                                !.ss = stack[5]]
          /\ Drop(5)
          /\ Continue
          /\ Unchanged
     ELSE KernelException

(* The default case of interrupt(), and a CPU that has shut down.          *)
Spin == (At("jmp") \/ At("shutdown")) /\ UNCHANGED vars

KernelStep ==
  \/ LoadTables \/ PortWrite \/ InitProcesses
  \/ SaveRegisters \/ LoadKernelData \/ Interrupt \/ Schedule
  \/ LoadEsp \/ Popal \/ PopSegment \/ AddEsp \/ Iret
  \/ Spin

-----------------------------------------------------------------------------
(* The processes and the devices *)

(* Any instructions of the process that leave the kernel alone.            *)
UserInstruction ==
  /\ UserMode
  /\ \E v \in Values : cpu' = UserRegisters(v, Enabled)
  /\ UNCHANGED stack /\ UNCHANGED code /\ Unchanged

UserTrap ==
  \/ \E n \in Interrupts : SoftwareInterrupt(n)
  \/ \E e \in Exceptions : UserException(e)

DeviceStep(line) ==
  Raise(line) /\ UNCHANGED <<allow_clock_interrupt, machine>>

Next ==
  \/ KernelStep \/ UserInstruction \/ UserTrap \/ HardwareInterrupt
  \/ \E line \in Devices : DeviceStep(line)

Spec == Init /\ [][Next]_vars

(* The CPU executes kernel code and takes interrupts when it may, and the  *)
(* timer ticks.  Processes may loop for ever without a system call.        *)
Fairness ==
  WF_vars(KernelStep) /\ WF_vars(HardwareInterrupt) /\ WF_vars(DeviceStep(0))

FairSpec == Spec /\ Fairness

-----------------------------------------------------------------------------
(* Properties *)

Words ==
  {<<r, v>> : r \in Registers, v \in Values \cup {Junk}}
  \cup {Flags(v, b) : v \in Values \cup {Junk}, b \in BOOLEAN}
  \cup {Selector(n) : n \in 0 .. 255} \cup {Number(n) : n \in 0 .. MaxError}
  \cup {Above}

(* The kernel's stack never holds more than a registers_t, registers hold  *)
(* what belongs to them, and the chips stay in states they have.           *)
TypeOK ==
  /\ allow_clock_interrupt \in ClockChoices
  /\ master \in Chips /\ slave \in Chips
  /\ timer.phase \in {"counting", "low", "high"}
  /\ timer.reload \in 0 .. MaxCount
  /\ cpu \in [Registers -> Words]
  /\ \A r \in Registers \ {"eax"} : cpu[r][1] = KindOf(r)
  /\ Len(stack) <= Len(registers_t) /\ \A k \in DOMAIN stack : stack[k] \in Words
  /\ loaded \subseteq {"gdt", "tr", "idt"}
  /\ current \in Procs
  /\ p_registers \in [Procs -> [DOMAIN registers_t -> Words]]
  /\ trap.n \in 0 .. 255

(* "Note that we will never receive clock interrupts while in the kernel"  *)
(* (interrupt(), schedos-kern.c): nor any other, from the first            *)
(* instruction of start() on, whatever the devices do.                     *)
KernelUninterrupted == [][HardwareInterrupt => UserMode]_vars

(* What the BIOS had the controllers do, and what the devices asked for    *)
(* while they were being programmed, never reaches a process: the clock    *)
(* does, under its own vector, and only if it was allowed.                 *)
OnlyTheClock ==
  [][HardwareInterrupt => allow_clock_interrupt /\ trap'.n = INT_CLOCK]_vars

(* The CPU never shuts down: every trap finds a gate, a code segment and a *)
(* stack that it can use.  And the kernel loops for ever only when a       *)
(* process has done what interrupt() has no case for: not in any other     *)
(* trap, and never because a selector that the kernel's own code loads or  *)
(* pops has been refused.                                                  *)
StopsForAFault ==
  /\ ~At("shutdown")
  /\ At("jmp") =>
       \/ trap.by[1] \in Exceptions
       \/ trap.by[1] = "int" /\ trap.by[2] \notin Cases \ {INT_CLOCK}

(* A process that never calls the kernel loses the CPU all the same, and   *)
(* again each time it has got it back.                                     *)
Preempted == allow_clock_interrupt /\ UserMode ~> ~UserMode

(* "Now, we complete the 'registers_t' structure" (schedos-int.S): what    *)
(* interrupt() is given is one, word by word.                              *)
FrameIsRegisters ==
  At("interrupt") =>
    \A k \in DOMAIN registers_t : Frame[k][1] = KindOf(registers_t[k])

(* Where the registers of p are: in the CPU; on their way to the kernel's  *)
(* stack, in the order of registers_t from its end; or in the descriptor.  *)
LastOperation == code[Len(code)][1]
OnTheStack(r) ==
  LET k == Len(stack) - (Len(registers_t) - Offset(r)) IN
  IF k >= 1 THEN stack[k] ELSE cpu[r]
ContextOf(p) ==
  [r \in Registers |->
     IF p = current /\ UserMode THEN cpu[r]
     ELSE IF p = current /\ LastOperation = "interrupt" THEN OnTheStack(r)
     ELSE IF ~UserMode /\ LastOperation = "init_processes"
     THEN InitialFrame[Offset(r)]
     ELSE p_registers[p][Offset(r)]]

(* With all its pushes and pops, the kernel loses and mixes no context.    *)
Contexts == INSTANCE ContextSwitch WITH
  Contexts <- {UserRegisters(v, TRUE) : v \in Values},
  running <- current,
  context <- [p \in Procs |-> ContextOf(p)],
  mode    <- IF trap.n \notin Cases THEN "stopped"
             ELSE IF UserMode THEN "user" ELSE "kernel"

KeepsContexts == Contexts!Spec
=============================================================================
