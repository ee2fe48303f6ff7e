--------------------------- MODULE MachineProofs ---------------------------
(***************************************************************************)
(* What holds of the machine for any processes, contents of registers,     *)
(* interrupts, exceptions and devices:                                     *)
(*                                                                         *)
(* UninterruptedTheorem: the kernel is never interrupted, from the first   *)
(* instruction of start() on.  SchedKern rests on this: there, a case of   *)
(* interrupt() with the schedule() that ends it takes steps that no        *)
(* interrupt comes between.  Kernel code runs with the interrupt flag      *)
(* clear.  What keeps it so: only iret may set it, and iret is the last    *)
(* instruction of kernel code; every gate clears it; and a trap cannot     *)
(* fail to pass its gate, because the tables have been loaded before the   *)
(* first process runs.                                                     *)
(*                                                                         *)
(* MachineTypes, FaultTheorem, ClockTheorem, MachineContexts and           *)
(* EntryTheorem: the stack is never deeper than a registers_t, the machine *)
(* stops only by the fault of a process, only the clock interrupts, and no *)
(* context is lost or mixed.  These need more: at every instruction of the *)
(* kernel, what is on the stack, what is in the registers and what is      *)
(* still to be done (MInv).                                                *)
(***************************************************************************)
EXTENDS Machine, SequenceTheorems, TLAPS

Tables == {"gdt", "tr", "idt"}

(* Operations that change neither %eflags nor segment registers.           *)
PlainOperations ==
  {"lgdt", "ltr", "lidt", "outb", "init_processes", "push", "push_register",
   "pushal", "load_kernel_data", "interrupt", "schedule", "load_esp", "popal",
   "add_esp", "jmp", "shutdown"}
Operations == PlainOperations \cup {"pop_register", "iret"}

Names == {"", "self", "ds", "es", "%esp", "global_descriptor_table",
          "interrupt_descriptor_table"}
Arguments == Names \cup Nat \cup (Nat \X Nat) \cup Procs

PlainInstructions == PlainOperations \X Arguments

CodeOK(c) ==
  /\ c \in Seq(Operations \X Arguments)
  /\ \A k \in DOMAIN c : /\ c[k][1] = "iret" => k = Len(c)
                         /\ c[k][1] = "pop_register" =>
                              c[k][2] \in {"ds", "es"}

(* How far start() has got with the tables; Shutdown is where a trap       *)
(* before lidt would end.                                                  *)
TablesInv ==
  \/ loaded = Tables
  \/ code = Shutdown /\ "idt" \notin loaded
  \/ \E allow \in BOOLEAN :
       \/ code = start(allow) /\ loaded = {}
       \/ code = Tail(start(allow)) /\ loaded = {"gdt"}
       \/ code = Tail(Tail(start(allow))) /\ loaded = {"gdt", "tr"}

FlagInv == DOMAIN cpu = Registers /\ (~UserMode => cpu.eflags[3] = FALSE)

Inv == CodeOK(code) /\ TablesInv /\ FlagInv

-----------------------------------------------------------------------------
(* The code of the kernel *)

(* interrupt_controller_init() writes numbers to ports.                    *)
LEMMA PortWrites ==
  ASSUME NEW allow \in BOOLEAN
  PROVE  interrupt_controller_init(allow) \in Seq(Nat \X Nat)
<1>1. /\ 2^IRQ_SLAVE \in Nat
      /\ TIMER_DIV(HZ) % 256 \in Nat /\ TIMER_DIV(HZ) \div 256 \in Nat
  BY DEF IRQ_SLAVE, TIMER_DIV, HZ, TIMER_FREQ
<1>2. MaskAll \in Seq(Nat \X Nat)
  BY DEF MaskAll, IO_PIC1, IO_PIC2
<1>3. SetUpMaster \in Seq(Nat \X Nat)
  BY <1>1 DEF SetUpMaster, IO_PIC1, INT_HARDWARE
<1>4. SetUpSlave \in Seq(Nat \X Nat)
  BY DEF SetUpSlave, IO_PIC2, INT_HARDWARE, IRQ_SLAVE
<1>5. OperationWords \in Seq(Nat \X Nat)
  BY DEF OperationWords, IO_PIC1, IO_PIC2
<1>6. MaskAgain(allow) \in Seq(Nat \X Nat)
  BY DEF MaskAgain, IO_PIC1, IO_PIC2
<1>7. StartClock \in Seq(Nat \X Nat)
  BY <1>1 DEF StartClock, TIMER_MODE, IO_TIMER1, TIMER_SEL0, TIMER_RATEGEN,
     TIMER_16BIT
<1>. QED
  BY <1>2, <1>3, <1>4, <1>5, <1>6, <1>7 DEF interrupt_controller_init

(* Code of plain instructions has nothing to worry about.                  *)
LEMMA PlainCode ==
  ASSUME NEW c \in Seq(PlainInstructions) PROVE CodeOK(c)
<1>1. c \in Seq(Operations \X Arguments)
  <2>1. PlainInstructions \subseteq Operations \X Arguments
    BY DEF PlainInstructions, Operations
  <2>. HIDE DEF PlainInstructions
  <2>. QED  BY <2>1
<1>2. ASSUME NEW k \in DOMAIN c PROVE c[k][1] \notin {"iret", "pop_register"}
  <2>1. c[k] \in PlainInstructions
    OBVIOUS
  <2>2. c[k][1] \in PlainOperations
    BY <2>1 DEF PlainInstructions
  <2>. QED  BY <2>2 DEF PlainOperations
<1>. QED  BY <1>1, <1>2 DEF CodeOK

(* Facts about sequences.                                                  *)
LEMMA Prefix ==
  ASSUME NEW S, NEW t \in Seq(S), NEW u \in Seq(S), Len(t) >= 3
  PROVE  /\ t \o u \in Seq(S) /\ Len(t \o u) >= 3
         /\ \A k \in 1 .. 3 : (t \o u)[k] = t[k]
<1>1. Len(t) \in Nat /\ Len(u) \in Nat
  OBVIOUS
<1>2. /\ t \o u \in Seq(S) /\ Len(t \o u) = Len(t) + Len(u)
      /\ \A k \in 1 .. Len(t) + Len(u) :
           (t \o u)[k] = IF k <= Len(t) THEN t[k] ELSE u[k - Len(t)]
  BY ConcatProperties
<1>. QED  BY <1>1, <1>2

LEMMA TwoTails ==
  ASSUME NEW S, NEW s \in Seq(S), Len(s) >= 3
  PROVE  /\ s # << >> /\ Tail(s) # << >> /\ Tail(Tail(s)) # << >>
         /\ Head(s) = s[1] /\ Head(Tail(s)) = s[2]
         /\ Head(Tail(Tail(s))) = s[3]
<1>1. /\ s # << >> /\ Head(s) = s[1] /\ Tail(s) \in Seq(S)
      /\ Len(Tail(s)) >= 2 /\ Tail(s)[1] = s[2] /\ Tail(s)[2] = s[3]
  OBVIOUS
<1>2. ASSUME NEW t \in Seq(S), Len(t) >= 2
      PROVE  /\ t # << >> /\ Head(t) = t[1]
             /\ Tail(t) # << >> /\ Head(Tail(t)) = t[2]
  BY <1>2
<1>. QED  BY <1>1, <1>2

LEMMA Tuple1 ==
  ASSUME NEW S, NEW a \in S PROVE <<a>> \in Seq(S)
OBVIOUS

(* A sequence of one instruction. *)
LEMMA Singleton ==
  ASSUME NEW op, NEW arg
  PROVE  << <<op, arg>> >> # << >> /\ Head(<< <<op, arg>> >>)[1] = op
OBVIOUS

LEMMA Tuple5 ==
  ASSUME NEW S, NEW a \in S, NEW b \in S, NEW c \in S, NEW d \in S, NEW e \in S
  PROVE  <<a, b, c, d, e>> \in Seq(S)
OBVIOUS

LEMMA Tuple6 ==
  ASSUME NEW S, NEW a \in S, NEW b \in S, NEW c \in S, NEW d \in S,
         NEW e \in S,
         NEW f \in S
  PROVE  <<a, b, c, d, e, f>> \in Seq(S)
OBVIOUS

(* Facts about the sets of instructions.                                   *)
LEMMA ArgumentKinds ==
  /\ Names \subseteq Arguments /\ Nat \subseteq Arguments
  /\ (Nat \X Nat) \subseteq Arguments /\ Procs \subseteq Arguments
BY DEF Arguments

LEMMA PlainKinds ==
  \A op \in PlainOperations, arg \in Arguments :
     <<op, arg>> \in PlainInstructions
BY DEF PlainInstructions

(* start() loads the three tables first and has no iret of its own.        *)
LEMMA StartCode ==
  ASSUME NEW allow \in BOOLEAN
  PROVE  LET s == start(allow) IN
         /\ CodeOK(s) /\ s # << >> /\ Tail(s) # << >> /\ Tail(Tail(s)) # << >>
         /\ Head(s)[1] = "lgdt" /\ Head(Tail(s))[1] = "ltr"
         /\ Head(Tail(Tail(s)))[1] = "lidt"
<1>. DEFINE writes == interrupt_controller_init(allow)
            tables == << <<"lgdt", "global_descriptor_table">>,
                         <<"ltr", SEGSEL_TASKSTATE>>,
                         <<"lidt", "interrupt_descriptor_table">> >>
            ports == [k \in DOMAIN writes |-> <<"outb", writes[k]>>]
            last  == << <<"init_processes", First>> >>
<1>1. start(allow) = tables \o ports \o last
  BY DEF start
<1>2. tables \in Seq(PlainInstructions)
  <2>1. /\ <<"lgdt", "global_descriptor_table">> \in PlainInstructions
        /\ <<"lidt", "interrupt_descriptor_table">> \in PlainInstructions
    BY PlainKinds, ArgumentKinds DEF PlainOperations, Names
  <2>2. <<"ltr", SEGSEL_TASKSTATE>> \in PlainInstructions
    BY PlainKinds, ArgumentKinds DEF PlainOperations, SEGSEL_TASKSTATE
  <2>. QED  BY <2>1, <2>2
<1>3. ports \in Seq(PlainInstructions)
  <2>1. writes \in Seq(Nat \X Nat)
    BY PortWrites
  <2>. HIDE DEF writes
  <2>2. ASSUME NEW k \in DOMAIN writes
        PROVE  <<"outb", writes[k]>> \in PlainInstructions
    <3>1. writes[k] \in Nat \X Nat
      BY <2>1
    <3>2. writes[k] \in Arguments
      BY <3>1, ArgumentKinds
    <3>. QED  BY <3>2, PlainKinds DEF PlainOperations
  <2>. QED  BY <2>1, <2>2
<1>4. last \in Seq(PlainInstructions)
  <2>1. <<"init_processes", First>> \in PlainInstructions
    BY MachineAssumption, PlainKinds, ArgumentKinds DEF PlainOperations
  <2>. QED  BY <2>1
<1>5. /\ Len(tables) = 3 /\ tables[1][1] = "lgdt" /\ tables[2][1] = "ltr"
      /\ tables[3][1] = "lidt"
  OBVIOUS
<1>. HIDE DEF tables, ports, last
<1>6. start(allow) \in Seq(PlainInstructions)
  BY <1>1, <1>2, <1>3, <1>4
<1>7. /\ Len(start(allow)) >= 3
      /\ start(allow)[1] = tables[1] /\ start(allow)[2] = tables[2]
      /\ start(allow)[3] = tables[3]
  <2>1. /\ tables \o ports \in Seq(PlainInstructions)
        /\ Len(tables \o ports) >= 3
        /\ \A k \in 1 .. 3 : (tables \o ports)[k] = tables[k]
    <3>1. Len(tables) >= 3
      BY <1>5
    <3>. QED  BY <1>2, <1>3, <3>1, Prefix
  <2>. HIDE DEF PlainInstructions
  <2>. DEFINE front == tables \o ports
  <2>. HIDE DEF front
  <2>2. /\ Len(front \o last) >= 3
        /\ \A k \in 1 .. 3 : (front \o last)[k] = front[k]
    <3>1. front \in Seq(PlainInstructions) /\ Len(front) >= 3
      BY <2>1 DEF front
    <3>. QED  BY <1>4, <3>1, Prefix
  <2>. QED  BY <1>1, <2>1, <2>2 DEF front
<1>. DEFINE s == start(allow)
<1>. HIDE DEF s
<1>8. /\ s # << >> /\ Tail(s) # << >> /\ Tail(Tail(s)) # << >>
      /\ Head(s) = s[1] /\ Head(Tail(s)) = s[2] /\ Head(Tail(Tail(s))) = s[3]
  <2>1. s \in Seq(PlainInstructions) /\ Len(s) >= 3
    BY <1>6, <1>7 DEF s
  <2>. QED  BY <2>1, TwoTails
<1>. QED  BY <1>5, <1>6, <1>7, <1>8, PlainCode DEF s

(* The stubs of schedos-int.S: they end in the call of interrupt().        *)
LEMMA HandlerCode ==
  ASSUME NEW n \in Nat
  PROVE  LET c == Handler(interrupt_descriptors(n).gd_off, n) IN
         CodeOK(c) /\ c # << >>
<1>. DEFINE off == interrupt_descriptors(n).gd_off
            c   == Handler(off, n)
<1>1. off \in {"clock_int_handler", "sys_int_handler", "default_int_handler"}
  BY DEF interrupt_descriptors, SETGATE
<1>. HIDE DEF off
<1>2. /\ generic_int_handler \in Seq(PlainInstructions)
      /\ generic_int_handler # << >>
  <2>1. /\ <<"push_register", "ds">> \in PlainInstructions
        /\ <<"push_register", "es">> \in PlainInstructions
        /\ <<"pushal", "">> \in PlainInstructions
        /\ <<"interrupt", "%esp">> \in PlainInstructions
    BY PlainKinds, ArgumentKinds DEF PlainOperations, Names
  <2>2. <<"load_kernel_data", SEGSEL_KERN_DATA>> \in PlainInstructions
    BY PlainKinds, ArgumentKinds DEF PlainOperations, SEGSEL_KERN_DATA
  <2>. QED  BY <2>1, <2>2, Tuple5 DEF generic_int_handler
<1>3. /\ << <<"push", 0>>, <<"push", 32>> >> \in Seq(PlainInstructions)
      /\ << <<"push", 0>>, <<"push", n>> >> \in Seq(PlainInstructions)
      /\ << <<"push", 0>> >> \in Seq(PlainInstructions)
  <2>1. \A m \in Nat : <<"push", m>> \in PlainInstructions
    BY PlainKinds, ArgumentKinds DEF PlainOperations, Names
  <2>. QED  BY <2>1
<1>4. c \in Seq(PlainInstructions) /\ c # << >>
  BY <1>1, <1>2, <1>3 DEF Handler
<1>. QED  BY <1>4, PlainCode DEF off

(* run(): its iret is its last instruction.                                *)
LEMMA RunCodeOK ==
  ASSUME NEW p \in Arguments PROVE CodeOK(RunCode(p)) /\ RunCode(p) # << >>
<1>1. RunCode(p) \in Seq(Operations \X Arguments)
  <2>1. /\ <<"popal", "">> \in Operations \X Arguments
        /\ <<"pop_register", "es">> \in Operations \X Arguments
        /\ <<"pop_register", "ds">> \in Operations \X Arguments
        /\ <<"iret", "">> \in Operations \X Arguments
    BY ArgumentKinds DEF Operations, PlainOperations, Names
  <2>2. /\ <<"load_esp", p>> \in Operations \X Arguments
        /\ <<"add_esp", 2>> \in Operations \X Arguments
    BY ArgumentKinds DEF Operations, PlainOperations, Names
  <2>. QED  BY <2>1, <2>2, Tuple6 DEF RunCode
<1>2. Len(RunCode(p)) = 6 /\ RunCode(p) # << >>
  BY DEF RunCode
<1>3. /\ RunCode(p)[1][1] = "load_esp" /\ RunCode(p)[2][1] = "popal"
      /\ RunCode(p)[3] = <<"pop_register", "es">>
      /\ RunCode(p)[4] = <<"pop_register", "ds">>
      /\ RunCode(p)[5][1] = "add_esp" /\ RunCode(p)[6][1] = "iret"
  BY DEF RunCode
<1>. QED  BY <1>1, <1>2, <1>3 DEF CodeOK

LEMMA ShortCode ==
  /\ CodeOK(Hang) /\ Hang # << >>
  /\ CodeOK(Shutdown) /\ Shutdown # << >>
  /\ CodeOK(<< <<"schedule", "">> >>) /\ << <<"schedule", "">> >> # << >>
<1>1. Hang \in Seq(PlainInstructions) /\ Hang # << >>
  <2>1. <<"jmp", "self">> \in PlainInstructions
    BY PlainKinds, ArgumentKinds DEF PlainOperations, Names
  <2>. QED  BY <2>1 DEF Hang
<1>2. << <<"schedule", "">> >> \in Seq(PlainInstructions)
  <2>1. <<"schedule", "">> \in PlainInstructions
    BY PlainKinds, ArgumentKinds DEF PlainOperations, Names
  <2>. QED  BY <2>1, Tuple1
<1>3. Shutdown \in Seq(PlainInstructions) /\ Shutdown # << >>
  <2>1. <<"shutdown", "">> \in PlainInstructions
    BY PlainKinds, ArgumentKinds DEF PlainOperations, Names
  <2>. QED  BY <2>1, Tuple1, Singleton DEF Shutdown
<1>. QED  BY <1>1, <1>2, <1>3, PlainCode

LEMMA TailCode ==
  ASSUME NEW c, CodeOK(c), c # << >>
  PROVE  CodeOK(Tail(c)) /\ (Head(c)[1] = "iret" => Tail(c) = << >>)
<1>1. c \in Seq(Operations \X Arguments) /\ Len(c) >= 1
  BY DEF CodeOK
<1>2. Len(Tail(c)) = Len(c) - 1
  BY <1>1
<1>3. /\ Tail(c) \in Seq(Operations \X Arguments)
      /\ \A k \in DOMAIN Tail(c) : k + 1 \in DOMAIN c /\ Tail(c)[k] = c[k + 1]
  BY <1>1
<1>4. Head(c) = c[1] /\ 1 \in DOMAIN c
  BY <1>1
<1>5. ASSUME NEW k \in DOMAIN Tail(c)
      PROVE  /\ Tail(c)[k][1] = "iret" => k = Len(Tail(c))
             /\ Tail(c)[k][1] = "pop_register" =>
                  Tail(c)[k][2] \in {"ds", "es"}
  <2>1. k \in Nat
    BY <1>3
  <2>2. /\ c[k + 1][1] = "iret" => k + 1 = Len(c)
        /\ c[k + 1][1] = "pop_register" => c[k + 1][2] \in {"ds", "es"}
    BY <1>3 DEF CodeOK
  <2>3. Tail(c)[k] = c[k + 1] /\ Len(c) \in Nat
    BY <1>1, <1>3
  <2>4. k + 1 = Len(c) => k = Len(Tail(c))
    <3>1. \A m \in Nat : k + 1 = m => k = m - 1
      BY <2>1
    <3>. QED  BY <1>2, <2>3, <3>1
  <2>. QED  BY <2>2, <2>3, <2>4
<1>6. Head(c)[1] = "iret" => Tail(c) = << >>
  BY <1>2, <1>1, <1>3, <1>4 DEF CodeOK
<1>. QED  BY <1>3, <1>5, <1>6 DEF CodeOK

-----------------------------------------------------------------------------
(* Traps *)

(* Once the tables are loaded, every gate leads to the kernel's code and   *)
(* stack.                                                                  *)
LEMMA Gates ==
  ASSUME loaded = Tables, NEW n PROVE GateUsable(n)
<1>1. CodeLoadable(SEGSEL_KERN_CODE, 0)
  BY DEF CodeLoadable, IsCode, IsSegment, Desc, segments, SEGSEL_KERN_CODE,
     SEG,
     SEG_NULL, Rpl, STA_X, STA_R, STA_W, STS_T32A
<1>2. StackLoadable(SEGSEL_KERN_DATA, 0)
  BY DEF StackLoadable, RWBit, IsCode, IsSegment, Desc, segments,
     SEGSEL_KERN_DATA, SEG, SEG_NULL, Rpl, STA_X, STA_R, STA_W, STS_T32A
<1>. QED  BY <1>1, <1>2 DEF GateUsable, interrupt_descriptors, SETGATE,
     kernel_task_descriptor, Tables

LEMMA Eflags == "eflags" \in Registers
<1>1. registers_t[15] = "eflags" /\ 15 \in DOMAIN registers_t
  BY DEF registers_t, pushal
<1>. QED  BY <1>1 DEF Registers, Fields

(* A trap, from wherever it comes, leaves the flag clear.                  *)
LEMMA DeliverInv ==
  ASSUME Inv, NEW n \in Nat, NEW error, NEW by, Deliver(n, error, by)
  PROVE  Inv'
<1>1. loaded' = loaded
  BY DEF Deliver
<1>2. CASE GateUsable(n)
  <2>1. code' = Handler(interrupt_descriptors(n).gd_off, n)
    BY <1>2 DEF Deliver
  <2>2. CodeOK(code') /\ code' # << >>
    BY <2>1, HandlerCode
  <2>3. loaded = Tables
    <3>1. "idt" \in loaded
      BY <1>2 DEF GateUsable
    <3>. QED  BY <3>1 DEF Inv, TablesInv
  <2>4. (interrupt_descriptors(n).gd_type = STS_TG32) = FALSE
    BY DEF interrupt_descriptors, SETGATE, STS_TG32, STS_IG32
  <2>5. DOMAIN cpu' = Registers /\ cpu'.eflags[3] = FALSE
    <3>1. cpu' = [cpu EXCEPT !.cs = Selector(interrupt_descriptors(n).gd_ss),
                             !.ss = Selector(kernel_task_descriptor.ts_ss0),
                             !.eip = <<"eip", Junk>>, !.esp = <<"esp", Junk>>,
                             !.eflags = Flags(Junk, FALSE)]
      BY <1>2, <2>4 DEF Deliver
    <3>2. \A a, b, c, d, e :
            LET new == [cpu EXCEPT !.cs = a, !.ss = b, !.eip = c, !.esp = d,
                                   !.eflags = e]
            IN  DOMAIN new = DOMAIN cpu /\ new.eflags = e
      BY Eflags DEF Inv, FlagInv
    <3>3. DOMAIN cpu' = DOMAIN cpu /\ cpu'.eflags = Flags(Junk, FALSE)
      BY <3>1, <3>2
    <3>. QED  BY <3>3 DEF Inv, FlagInv, Flags
  <2>. QED  BY <1>1, <2>2, <2>3, <2>5 DEF Inv, TablesInv, FlagInv
<1>3. CASE ~GateUsable(n)
  <2>1. code' = Shutdown /\ cpu' = cpu
    BY <1>3 DEF Deliver
  <2>2. loaded # Tables
    BY <1>3, Gates
  <2>3. ~UserMode /\ "idt" \notin loaded
    BY <2>2, StartCode, ShortCode DEF Inv, TablesInv, UserMode
  <2>. QED  BY <1>1, <2>1, <2>3, ShortCode
            DEF Inv, TablesInv, FlagInv, UserMode
<1>. QED  BY <1>2, <1>3

-----------------------------------------------------------------------------
(* The steps of the kernel *)

(* Where start() is with its tables, in terms of the next instruction.     *)
LEMMA NotYetLoaded ==
  ASSUME Inv, loaded # Tables, ~UserMode
  PROVE  \/ At("lgdt") /\ loaded = {}
         \/ At("ltr") /\ loaded = {"gdt"}
         \/ At("lidt") /\ loaded = {"gdt", "tr"}
         \/ At("shutdown")
<1>1. Head(Shutdown)[1] = "shutdown"
  BY Singleton DEF Shutdown
<1>. QED  BY <1>1, StartCode DEF Inv, TablesInv, At

(* The instructions that only go on to the next one.                       *)
LEMMA PlainStep ==
  ASSUME Inv, loaded = Tables, loaded' = loaded, ~UserMode, Continue,
         DOMAIN cpu' = Registers, cpu'.eflags = cpu.eflags
  PROVE  Inv'
<1>1. CodeOK(code')
  BY TailCode DEF Inv, Continue, UserMode
<1>. QED  BY <1>1 DEF Inv, TablesInv, FlagInv, UserMode

(* The instructions that begin other kernel code.                          *)
LEMMA JumpStep ==
  ASSUME Inv, loaded = Tables, loaded' = loaded, ~UserMode, CodeOK(code'),
         DOMAIN cpu' = Registers, cpu'.eflags = cpu.eflags
  PROVE  Inv'
BY DEF Inv, TablesInv, FlagInv, UserMode

LEMMA KernelStepInv ==
  ASSUME Inv, KernelStep PROVE Inv'
<1>1. CASE Spin
  BY <1>1 DEF Spin, vars, machine, Inv, CodeOK, TablesInv, FlagInv, UserMode
<1>2. CASE LoadTables
  <2>1. /\ ~UserMode /\ CodeOK(Tail(code))
        /\ DOMAIN cpu = Registers /\ cpu.eflags[3] = FALSE
    BY <1>2, TailCode DEF LoadTables, At, UserMode, Inv, FlagInv
  <2>2. \A t : Load(t) => /\ loaded' = loaded \cup {t}
                          /\ code' = Tail(code) /\ cpu' = cpu
    BY DEF Load, Continue
  <2>3. KernelException => Inv'
    BY DeliverInv DEF KernelException, INT_GP
  <2>4. \A t : Load(t) => CodeOK(code') /\ FlagInv'
    BY <2>1, <2>2 DEF FlagInv
  <2>5. CASE loaded = Tables
    <3>1. \A t \in Tables : Load(t) => Inv'
      BY <2>2, <2>4, <2>5 DEF Inv, TablesInv
    <3>. QED  BY <1>2, <2>3, <3>1 DEF LoadTables, Tables
  <2>6. CASE loaded # Tables
    <3>1. PICK allow \in BOOLEAN :
            \/ code = start(allow) /\ loaded = {}
            \/ code = Tail(start(allow)) /\ loaded = {"gdt"}
            \/ code = Tail(Tail(start(allow))) /\ loaded = {"gdt", "tr"}
      <4>1. code # Shutdown
        BY <1>2, Singleton DEF LoadTables, At, Shutdown
      <4>. QED  BY <2>6, <4>1 DEF Inv, TablesInv
    <3>2. \/ Load("gdt") /\ code = start(allow) /\ loaded = {}
          \/ Load("tr") /\ code = Tail(start(allow)) /\ loaded = {"gdt"}
          \/ /\ Load("idt") /\ code = Tail(Tail(start(allow)))
             /\ loaded = {"gdt", "tr"}
          \/ KernelException
      BY <1>2, <3>1, StartCode DEF LoadTables, At
    <3>3. (Load("gdt") /\ code = start(allow) /\ loaded = {}) => Inv'
      BY <2>2, <2>4 DEF Inv, TablesInv
    <3>4. (Load("tr") /\ code = Tail(start(allow)) /\ loaded = {"gdt"}) => Inv'
      <4>1. {"gdt"} \cup {"tr"} = {"gdt", "tr"}
        OBVIOUS
      <4>. QED  BY <2>2, <2>4, <4>1 DEF Inv, TablesInv
    <3>5. (Load("idt") /\ loaded = {"gdt", "tr"}) => Inv'
      <4>1. {"gdt", "tr"} \cup {"idt"} = Tables
        BY DEF Tables
      <4>. QED  BY <2>2, <2>4, <4>1 DEF Inv, TablesInv
    <3>. QED  BY <2>3, <3>2, <3>3, <3>4, <3>5
  <2>. QED  BY <2>5, <2>6
<1>3. ASSUME \/ PortWrite \/ InitProcesses \/ SaveRegisters \/ LoadKernelData
             \/ Interrupt \/ Schedule \/ LoadEsp \/ Popal \/ PopSegment
             \/ AddEsp \/ Iret
      PROVE  Inv'
  <2>1. ~UserMode
    BY <1>3 DEF PortWrite, InitProcesses, SaveRegisters, LoadKernelData,
       Interrupt, Schedule, LoadEsp, Popal, PopSegment, AddEsp, Iret, At
  <2>2. loaded = Tables
    BY <1>3, <2>1, NotYetLoaded DEF PortWrite, InitProcesses, SaveRegisters,
       LoadKernelData, Interrupt, Schedule, LoadEsp, Popal, PopSegment, AddEsp,
       Iret, At
  <2>3. DOMAIN cpu = Registers
    BY DEF Inv, FlagInv
  <2>4. CASE PortWrite
    BY <2>1, <2>2, <2>3, <2>4, PlainStep DEF PortWrite
  <2>5. CASE InitProcesses
    <3>1. Arg \in Arguments
      BY <2>1 DEF Arg, Inv, CodeOK, UserMode
    <3>. QED  BY <2>1, <2>2, <2>3, <2>5, <3>1, JumpStep, RunCodeOK
              DEF InitProcesses
  <2>6. CASE SaveRegisters
    BY <2>1, <2>2, <2>3, <2>6, PlainStep DEF SaveRegisters, Push
  <2>7. CASE LoadKernelData
    BY <2>1, <2>2, <2>3, <2>7, PlainStep, Eflags DEF LoadKernelData
  <2>8. CASE Interrupt
    <3>1. CodeOK(code') /\ loaded' = loaded
      BY <2>8, ShortCode DEF Interrupt
    <3>2. DOMAIN cpu' = Registers /\ cpu'.eflags = cpu.eflags
      BY <2>8, Eflags DEF Interrupt
    <3>. QED  BY <2>1, <2>2, <3>1, <3>2, JumpStep
  <2>9. CASE Schedule
    BY <2>1, <2>2, <2>3, <2>9, JumpStep, RunCodeOK, ArgumentKinds DEF Schedule
  <2>10. CASE LoadEsp
    BY <2>1, <2>2, <2>3, <2>10, PlainStep DEF LoadEsp, Unchanged
  <2>11. CASE Popal
    <3>1. \A k \in DOMAIN pushal : pushal[k] # "eflags"
      BY DEF pushal
    <3>2. DOMAIN cpu' = Registers /\ cpu'.eflags = cpu.eflags
      BY <2>11, <3>1, Eflags DEF Popal
    <3>. QED  BY <2>1, <2>2, <2>11, <3>2, PlainStep DEF Popal, Unchanged
  <2>12. CASE PopSegment
    <3>1. Arg \in {"ds", "es"}
      <4>1. 1 \in DOMAIN code /\ Head(code) = code[1]
        BY <2>1 DEF Inv, CodeOK, UserMode
      <4>. QED  BY <2>12, <4>1 DEF PopSegment, At, Arg, Inv, CodeOK
    <3>2. CASE KernelException
      BY <3>2, DeliverInv DEF KernelException, INT_GP
    <3>3. CASE /\ cpu' = [cpu EXCEPT ![Arg] = Head(stack)]
               /\ Continue /\ Unchanged
      <4>1. DOMAIN cpu' = Registers /\ cpu'.eflags = cpu.eflags
        BY <2>3, <3>1, <3>3, Eflags
      <4>. QED  BY <2>1, <2>2, <3>3, <4>1, PlainStep DEF Unchanged
    <3>. QED  BY <2>12, <3>2, <3>3 DEF PopSegment
  <2>13. CASE AddEsp
    BY <2>1, <2>2, <2>3, <2>13, PlainStep DEF AddEsp, Unchanged
  <2>14. CASE Iret
    <3>1. CASE KernelException
      BY <3>1, DeliverInv DEF KernelException, INT_GP
    <3>2. CASE ToUser
      <4>1. code' = << >> /\ CodeOK(code')
        BY <2>1, <2>14, <3>2, TailCode DEF Iret, At, Continue, Inv, UserMode
      <4>2. DOMAIN cpu' = Registers /\ loaded' = Tables
        BY <2>2, <2>3, <2>14, <3>2 DEF Iret, Unchanged
      <4>. QED  BY <4>1, <4>2 DEF Inv, TablesInv, FlagInv, UserMode
    <3>. QED  BY <2>14, <3>1, <3>2 DEF Iret
  <2>. QED  BY <1>3, <2>4, <2>5, <2>6, <2>7, <2>8, <2>9, <2>10, <2>11, <2>12,
     <2>13, <2>14
<1>. QED  BY <1>1, <1>2, <1>3 DEF KernelStep

LEMMA InitInv == Init => Inv
<1>. SUFFICES ASSUME Init PROVE Inv
  OBVIOUS
<1>1. /\ allow_clock_interrupt \in BOOLEAN
      /\ code = start(allow_clock_interrupt) /\ loaded = {}
  BY MachineAssumption DEF Init
<1>2. DOMAIN cpu = Registers /\ cpu.eflags[3] = FALSE
  BY Eflags DEF Init, UserRegisters, Flags
<1>. QED  BY <1>1, <1>2, StartCode DEF Inv, TablesInv, FlagInv

LEMMA NextInv ==
  ASSUME Inv, [Next]_vars PROVE Inv'
<1>1. CASE KernelStep
  BY <1>1, KernelStepInv
<1>2. CASE UserInstruction
  <2>1. /\ code' = code /\ loaded' = loaded /\ UserMode
        /\ DOMAIN cpu' = Registers
    BY <1>2 DEF UserInstruction, Unchanged, UserRegisters
  <2>. QED  BY <2>1 DEF Inv, CodeOK, TablesInv, FlagInv, UserMode
<1>3. CASE UserTrap
  <2>1. \E n \in Nat : \E error, by : Deliver(n, error, by)
    <3>1. \A n \in Interrupts : n \in Nat
      BY MachineAssumption
    <3>2. 13 \in Nat /\ 0 \in Nat
      OBVIOUS
    <3>. QED
      BY <1>3, <3>1, <3>2 DEF UserTrap, SoftwareInterrupt, UserException,
         INT_GP
  <2>. QED  BY <2>1, DeliverInv
<1>4. CASE HardwareInterrupt
  BY <1>4, DeliverInv DEF HardwareInterrupt
<1>5. CASE \E line \in Devices : DeviceStep(line)
  BY <1>5 DEF DeviceStep, machine, Inv, CodeOK, TablesInv, FlagInv, UserMode
<1>6. CASE UNCHANGED vars
  BY <1>6 DEF vars, machine, Inv, CodeOK, TablesInv, FlagInv, UserMode
<1>. QED  BY <1>1, <1>2, <1>3, <1>4, <1>5, <1>6 DEF Next

(* "Note that we will never receive clock interrupts while in the kernel": *)
(* nor any other, whatever the devices and the processes do.               *)
THEOREM UninterruptedTheorem == Spec => KernelUninterrupted
<1>1. Inv /\ [Next]_vars => [HardwareInterrupt => UserMode]_vars
  BY DEF Inv, FlagInv, HardwareInterrupt, Enabled
<1>. QED  BY <1>1, InitInv, NextInv, PTL DEF Spec, KernelUninterrupted

(***************************************************************************)
(* Where the kernel is.  Each place is the code that is left with what is  *)
(* known of the stack there.                                               *)
(***************************************************************************)
UserContexts == {UserRegisters(v, TRUE) : v \in Values}

Suffix(s, j) == SubSeq(s, j, Len(s))

(* What the stubs have still to push: a word, the number x, the registers. *)
StubCode(k, x) ==
  CASE k = 0 -> << <<"push", 0>>, <<"push", x>> >> \o generic_int_handler
    [] k = 1 -> << <<"push", x>> >> \o generic_int_handler
    [] OTHER -> Suffix(generic_int_handler, k - 1)

Instructions == Operations \X Arguments

-----------------------------------------------------------------------------
LEMMA NotEmpty == \A s : Len(s) # 0 => s # << >>
OBVIOUS

LEMMA SuffixFacts ==
  ASSUME NEW S, NEW s \in Seq(S), NEW j \in 1 .. Len(s)
  PROVE  /\ Suffix(s, j) # << >> /\ Suffix(s, j) \in Seq(S)
         /\ Head(Suffix(s, j)) = s[j]
         /\ Tail(Suffix(s, j)) = Suffix(s, j + 1)
         /\ Suffix(s, j)[Len(Suffix(s, j))] = s[Len(s)]
<1>1. Len(s) \in Nat /\ j \in Int /\ Len(s) \in j .. Len(s)
  OBVIOUS
<1>2. \A i \in j .. Len(s) : s[i] \in S
  OBVIOUS
<1>3. /\ SubSeq(s, j, Len(s)) \in Seq(S)
      /\ Len(SubSeq(s, j, Len(s))) = Len(s) - j + 1
      /\ \A i \in 1 .. Len(s) - j + 1 : SubSeq(s, j, Len(s))[i] = s[j + i - 1]
  BY <1>1, <1>2, SubSeqProperties
<1>4. /\ Head(SubSeq(s, j, Len(s))) = s[j]
      /\ Tail(SubSeq(s, j, Len(s))) = SubSeq(s, j + 1, Len(s))
  BY <1>1, HeadTailOfSubSeq
<1>5. /\ Len(s) - j + 1 \in 1 .. Len(s) - j + 1
      /\ j + (Len(s) - j + 1) - 1 = Len(s)
  BY <1>1
<1>6. SubSeq(s, j, Len(s)) # << >>
  <2>1. Len(s) - j + 1 # 0
    BY <1>1
  <2>. QED  BY <1>3, <2>1, NotEmpty
<1>7. SubSeq(s, j, Len(s))[Len(s) - j + 1] = s[Len(s)]
  BY <1>3, <1>5
<1>. QED  BY <1>3, <1>4, <1>6, <1>7 DEF Suffix

LEMMA SuffixEnds ==
  ASSUME NEW S, NEW s \in Seq(S)
  PROVE  Suffix(s, 1) = s /\ Suffix(s, Len(s) + 1) = << >>
<1>1. Len(s) \in Int /\ Len(s) + 1 \in Int /\ Len(s) < Len(s) + 1
  OBVIOUS
<1>2. SubSeq(s, Len(s) + 1, Len(s)) = << >>
  BY <1>1, SubSeqEmpty
<1>3. SubSeq(s, 1, Len(s)) = s
  BY SubSeqFull
<1>. QED  BY <1>2, <1>3 DEF Suffix

(* run(). *)
LEMMA RunCodeIs ==
  ASSUME NEW p \in Procs
  PROVE  /\ RunCode(p) \in Seq(Instructions) /\ Len(RunCode(p)) = 6
         /\ RunCode(p)[1] = <<"load_esp", p>>
         /\ RunCode(p)[2] = <<"popal", "">>
         /\ RunCode(p)[3] = <<"pop_register", "es">>
         /\ RunCode(p)[4] = <<"pop_register", "ds">>
         /\ RunCode(p)[5] = <<"add_esp", 2>> /\ RunCode(p)[6] = <<"iret", "">>
<1>1. RunCode(p) \in Seq(Instructions)
  BY RunCodeOK, ArgumentKinds DEF CodeOK, Instructions
<1>. QED  BY <1>1 DEF RunCode

LEMMA RunCodeAt ==
  ASSUME NEW p \in Procs, NEW k \in 1 .. 6
  PROVE  /\ Suffix(RunCode(p), k) # << >>
         /\ Head(Suffix(RunCode(p), k)) = RunCode(p)[k]
         /\ Tail(Suffix(RunCode(p), k)) = Suffix(RunCode(p), k + 1)
         /\ Suffix(RunCode(p), k)[Len(Suffix(RunCode(p), k))][1] = "iret"
<1>1. RunCode(p) \in Seq(Instructions) /\ Len(RunCode(p)) = 6
  BY RunCodeIs
<1>2. RunCode(p)[6][1] = "iret"
  BY DEF RunCode
<1>3. k \in 1 .. Len(RunCode(p))
  BY <1>1
<1>. QED  BY <1>1, <1>2, <1>3, SuffixFacts

LEMMA RunCodeEnds ==
  ASSUME NEW p \in Procs
  PROVE  Suffix(RunCode(p), 1) = RunCode(p) /\ Suffix(RunCode(p), 7) = << >>
<1>1. RunCode(p) \in Seq(Instructions) /\ Len(RunCode(p)) = 6
  BY RunCodeIs
<1>2. Len(RunCode(p)) + 1 = 7
  BY <1>1
<1>. QED  BY <1>1, <1>2, SuffixEnds

(* The stubs. *)
LEMMA GenericCodeIs ==
  /\ generic_int_handler \in Seq(Instructions)
  /\ Len(generic_int_handler) = 5
  /\ generic_int_handler[1] = <<"push_register", "ds">>
  /\ generic_int_handler[2] = <<"push_register", "es">>
  /\ generic_int_handler[3] = <<"pushal", "">>
  /\ generic_int_handler[4] = <<"load_kernel_data", SEGSEL_KERN_DATA>>
  /\ generic_int_handler[5] = <<"interrupt", "%esp">>
<1>1. /\ <<"push_register", "ds">> \in Instructions
      /\ <<"push_register", "es">> \in Instructions
      /\ <<"pushal", "">> \in Instructions
      /\ <<"interrupt", "%esp">> \in Instructions
  BY ArgumentKinds DEF Instructions, Operations, PlainOperations, Names
<1>2. <<"load_kernel_data", SEGSEL_KERN_DATA>> \in Instructions
  BY ArgumentKinds DEF Instructions, Operations, PlainOperations,
     SEGSEL_KERN_DATA
<1>3. generic_int_handler \in Seq(Instructions)
  BY <1>1, <1>2, Tuple5 DEF generic_int_handler
<1>. QED  BY <1>3 DEF generic_int_handler

LEMMA Cons ==
  ASSUME NEW S, NEW a \in S, NEW s \in Seq(S), s # << >>
  PROVE  /\ <<a>> \o s \in Seq(S) /\ <<a>> \o s # << >>
         /\ Head(<<a>> \o s) = a /\ Tail(<<a>> \o s) = s
         /\ (<<a>> \o s)[Len(<<a>> \o s)] = s[Len(s)]
<1>1. /\ <<a>> \o s \in Seq(S) /\ Len(<<a>> \o s) = 1 + Len(s)
      /\ <<a>> \o s # << >> /\ Len(s) \in Nat /\ Len(s) >= 1
      /\ Head(<<a>> \o s) = a
  OBVIOUS
<1>2. Tail(<<a>> \o s) = s
  OBVIOUS
<1>3. (<<a>> \o s)[1 + Len(s)] = s[Len(s)]
  BY <1>1
<1>. QED  BY <1>1, <1>2, <1>3

LEMMA ConsTwo ==
  ASSUME NEW S, NEW a \in S, NEW b \in S, NEW s \in Seq(S)
  PROVE  <<a>> \o (<<b>> \o s) = <<a, b>> \o s
<1>1. <<a>> \in Seq(S) /\ <<b>> \in Seq(S)
  OBVIOUS
<1>2. <<a>> \o <<b>> = <<a, b>>
  <2>. DEFINE t == <<a>> \o <<b>>
              u == <<a, b>>
  <2>1. t \in Seq(S) /\ Len(t) = 2 /\ t[1] = a /\ t[2] = b
    OBVIOUS
  <2>2. u \in Seq(S) /\ Len(u) = 2 /\ u[1] = a /\ u[2] = b
    OBVIOUS
  <2>. HIDE DEF t, u
  <2>3. t = u
    BY <2>1, <2>2, SeqEqual
  <2>. QED  BY <2>3 DEF t, u
<1>3. <<a>> \o (<<b>> \o s) = (<<a>> \o <<b>>) \o s
  BY <1>1, ConcatAssociative
<1>. QED  BY <1>2, <1>3

LEMMA StubCodeAt ==
  ASSUME NEW k \in 0 .. 6, NEW x \in Nat
  PROVE  LET c == StubCode(k, x) IN
         /\ c # << >> /\ c[Len(c)][1] = "interrupt"
         /\ k <= 5 => Tail(c) = StubCode(k + 1, x)
         /\ k = 0 => Head(c) = <<"push", 0>>
         /\ k = 1 => Head(c) = <<"push", x>>
         /\ k >= 2 => Head(c) = generic_int_handler[k - 1]
<1>. DEFINE g == generic_int_handler
<1>1. /\ g \in Seq(Instructions) /\ Len(g) = 5 /\ g # << >>
      /\ g[5][1] = "interrupt"
  <2>1. g \in Seq(Instructions) /\ Len(g) = 5
    BY GenericCodeIs
  <2>2. g[5] = <<"interrupt", "%esp">>
    BY GenericCodeIs
  <2>. HIDE DEF g
  <2>. QED  BY <2>1, <2>2, NotEmpty
<1>2. \A n \in Nat : <<"push", n>> \in Instructions
  BY ArgumentKinds DEF Instructions, Operations, PlainOperations
<1>. HIDE DEF g
<1>3. ASSUME NEW j \in 1 .. 5
      PROVE  /\ Suffix(g, j) # << >> /\ Head(Suffix(g, j)) = g[j]
             /\ Tail(Suffix(g, j)) = Suffix(g, j + 1)
             /\ Suffix(g, j)[Len(Suffix(g, j))] = g[5]
  <2>1. j \in 1 .. Len(g)
    BY <1>1
  <2>. QED  BY <1>1, <2>1, SuffixFacts
<1>4. Suffix(g, 1) = g
  BY <1>1, SuffixEnds
<1>. DEFINE one == << <<"push", x>> >> \o g
            two == << <<"push", 0>> >> \o one
<1>5. /\ one \in Seq(Instructions) /\ one # << >> /\ Head(one) = <<"push", x>>
      /\ Tail(one) = g /\ one[Len(one)] = g[5]
  <2>1. <<"push", x>> \in Instructions
    BY <1>2
  <2>. HIDE DEF Instructions
  <2>. QED  BY <1>1, <2>1, Cons
<1>6. two = << <<"push", 0>>, <<"push", x>> >> \o g
  <2>1. <<"push", 0>> \in Instructions /\ <<"push", x>> \in Instructions
    BY <1>2
  <2>2. two = << <<"push", 0>> >> \o (<< <<"push", x>> >> \o g)
    OBVIOUS
  <2>. HIDE DEF Instructions, two
  <2>. QED  BY <1>1, <2>1, <2>2, ConsTwo
<1>7. /\ two # << >> /\ Head(two) = <<"push", 0>>
      /\ Tail(two) = one /\ two[Len(two)] = g[5]
  <2>1. <<"push", 0>> \in Instructions
    BY <1>2
  <2>. HIDE DEF Instructions, one
  <2>. QED  BY <1>5, <2>1, Cons
<1>. HIDE DEF one, two
<1>8. CASE k = 0
  <2>1. StubCode(0, x) = two /\ StubCode(1, x) = one
    BY <1>6 DEF StubCode, one, g
  <2>. QED  BY <1>1, <1>7, <1>8, <2>1
<1>9. CASE k = 1
  <2>1. StubCode(1, x) = one /\ StubCode(2, x) = g
    BY <1>4 DEF StubCode, one, g
  <2>. QED  BY <1>1, <1>5, <1>9, <2>1
<1>10. CASE k >= 2
  <2>1. k - 1 \in 1 .. 5 /\ (k + 1) - 1 = k /\ k # 0 /\ k # 1
        /\ k + 1 # 0 /\ k + 1 # 1
    BY <1>10
  <2>2. StubCode(k, x) = Suffix(g, k - 1) /\ StubCode(k + 1, x) = Suffix(g, k)
    BY <2>1 DEF StubCode, g
  <2>3. /\ Suffix(g, k - 1) # << >> /\ Head(Suffix(g, k - 1)) = g[k - 1]
        /\ Tail(Suffix(g, k - 1)) = Suffix(g, k)
        /\ Suffix(g, k - 1)[Len(Suffix(g, k - 1))] = g[5]
    <3>1. /\ Suffix(g, k - 1) # << >> /\ Head(Suffix(g, k - 1)) = g[k - 1]
          /\ Tail(Suffix(g, k - 1)) = Suffix(g, (k - 1) + 1)
          /\ Suffix(g, k - 1)[Len(Suffix(g, k - 1))] = g[5]
      BY <1>3, <2>1
    <3>2. (k - 1) + 1 = k
      BY <2>1
    <3>. QED  BY <3>1, <3>2
  <2>. QED  BY <1>1, <2>1, <2>2, <2>3 DEF g
<1>. QED  BY <1>8, <1>9, <1>10

(* start(): what each of its instructions is.                              *)
Joins(u, s, m, t, n) ==
  /\ Len(u) = m + n
  /\ \A k \in 1 .. m : u[k] = s[k]
  /\ \A k \in 1 .. n : u[m + k] = t[k]

LEMMA Join ==
  ASSUME NEW S, NEW s \in Seq(S), NEW t \in Seq(S),
         NEW m \in Nat, NEW n \in Nat, Len(s) = m, Len(t) = n
  PROVE  s \o t \in Seq(S) /\ Joins(s \o t, s, m, t, n)
<1>1. /\ s \o t \in Seq(S) /\ Len(s \o t) = m + n
      /\ \A k \in 1 .. m + n :
           (s \o t)[k] = IF k <= m THEN s[k] ELSE t[k - m]
  BY ConcatProperties
<1>2. ASSUME NEW k \in 1 .. n PROVE (s \o t)[m + k] = t[k]
  <2>1. m + k \in 1 .. m + n /\ ~(m + k <= m) /\ (m + k) - m = k
    OBVIOUS
  <2>. QED  BY <1>1, <2>1
<1>. QED  BY <1>1, <1>2 DEF Joins

Byte == 0 .. 255

TheWrites(w, allow) ==
  /\ w[1] = <<33, 255>> /\ w[2] = <<161, 255>>
  /\ w[3] = <<32, 17>> /\ w[4] = <<33, 32>>
  /\ w[5] = <<33, 4>> /\ w[6] = <<33, 3>>
  /\ w[7] = <<160, 17>> /\ w[8] = <<161, 40>> /\ w[9] = <<161, 2>>
  /\ w[10] = <<161, 1>>
  /\ w[11] = <<32, 104>> /\ w[12] = <<32, 10>> /\ w[13] = <<160, 104>>
  /\ w[14] = <<160, 10>>
  /\ w[15] = <<33, IF allow THEN 254 ELSE 255>> /\ w[16] = <<161, 255>>

TimerWrites(w) == \A k \in 17 .. Len(w) : w[k] \in {64, 67} \X Byte

LEMMA WritesAre ==
  ASSUME NEW allow \in BOOLEAN
  PROVE  LET w == interrupt_controller_init(allow) IN
         /\ w \in Seq(Nat \X Byte) /\ Len(w) \in 16 .. 19
         /\ TheWrites(w, allow) /\ TimerWrites(w)
<1>. DEFINE S == Nat \X Byte
            timer_writes == IF allow THEN StartClock ELSE << >>
<1>0. 2^IRQ_SLAVE = 4
  BY DEF IRQ_SLAVE
<1>1. /\ MaskAll \in Seq(S) /\ Len(MaskAll) = 2
      /\ MaskAll[1] = <<33, 255>> /\ MaskAll[2] = <<161, 255>>
  BY DEF MaskAll, IO_PIC1, IO_PIC2, Byte
<1>2. /\ SetUpMaster \in Seq(S) /\ Len(SetUpMaster) = 4
      /\ SetUpMaster[1] = <<32, 17>> /\ SetUpMaster[2] = <<33, 32>>
      /\ SetUpMaster[3] = <<33, 4>> /\ SetUpMaster[4] = <<33, 3>>
  BY <1>0 DEF SetUpMaster, IO_PIC1, INT_HARDWARE, Byte
<1>3. /\ SetUpSlave \in Seq(S) /\ Len(SetUpSlave) = 4
      /\ SetUpSlave[1] = <<160, 17>> /\ SetUpSlave[2] = <<161, 40>>
      /\ SetUpSlave[3] = <<161, 2>> /\ SetUpSlave[4] = <<161, 1>>
  BY DEF SetUpSlave, IO_PIC2, INT_HARDWARE, IRQ_SLAVE, Byte
<1>4. /\ OperationWords \in Seq(S) /\ Len(OperationWords) = 4
      /\ OperationWords[1] = <<32, 104>> /\ OperationWords[2] = <<32, 10>>
      /\ OperationWords[3] = <<160, 104>> /\ OperationWords[4] = <<160, 10>>
  BY DEF OperationWords, IO_PIC1, IO_PIC2, Byte
<1>5. /\ MaskAgain(allow) \in Seq(S) /\ Len(MaskAgain(allow)) = 2
      /\ MaskAgain(allow)[1] = <<33, IF allow THEN 254 ELSE 255>>
      /\ MaskAgain(allow)[2] = <<161, 255>>
  BY DEF MaskAgain, IO_PIC1, IO_PIC2, Byte
<1>6. /\ timer_writes \in Seq(S) /\ Len(timer_writes) \in 0 .. 3
      /\ \A k \in 1 .. Len(timer_writes) : timer_writes[k] \in {64, 67} \X Byte
  <2>1. TIMER_DIV(HZ) % 256 \in Byte /\ TIMER_DIV(HZ) \div 256 \in Byte
    <3>1. TIMER_DIV(HZ) = 1193
      BY DEF TIMER_DIV, TIMER_FREQ, HZ
    <3>. QED  BY <3>1 DEF Byte
  <2>2. /\ StartClock \in Seq({64, 67} \X Byte) /\ Len(StartClock) = 3
    BY <2>1 DEF StartClock, TIMER_MODE, IO_TIMER1, TIMER_SEL0, TIMER_RATEGEN,
       TIMER_16BIT, Byte
  <2>3. StartClock \in Seq(S)
    BY <2>2
  <2>4. << >> \in Seq(S) /\ Len(<< >>) = 0
    OBVIOUS
  <2>5. CASE allow
    <3>1. timer_writes = StartClock
      BY <2>5
    <3>. DEFINE T == {64, 67} \X Byte
    <3>2. StartClock \in Seq(T)
      BY <2>2
    <3>. HIDE DEF T
    <3>3. \A k \in 1 .. Len(StartClock) : StartClock[k] \in T
      BY <3>2, ElementOfSeq
    <3>4. \A k \in 1 .. Len(StartClock) : StartClock[k] \in {64, 67} \X Byte
      BY <3>3 DEF T
    <3>. HIDE DEF timer_writes
    <3>5. Len(timer_writes) \in 0 .. 3
      <4>1. Len(StartClock) = 3
        BY <2>2
      <4>. QED  BY <3>1, <4>1
    <3>6. timer_writes \in Seq(S)
      BY <2>3, <3>1
    <3>. QED  BY <3>1, <3>4, <3>5, <3>6, Zenon
  <2>6. CASE ~allow
    <3>1. timer_writes = << >>
      BY <2>6
    <3>. HIDE DEF timer_writes
    <3>. QED  BY <2>4, <3>1
  <2>. QED  BY <2>5, <2>6
<1>. HIDE DEF S, timer_writes
<1>. DEFINE w2 == MaskAll \o SetUpMaster
            w3 == w2 \o SetUpSlave
            w4 == w3 \o OperationWords
            w5 == w4 \o MaskAgain(allow)
            w6 == w5 \o timer_writes
<1>. HIDE DEF w2, w3, w4, w5, w6
<1>7. w2 \in Seq(S) /\ Joins(w2, MaskAll, 2, SetUpMaster, 4)
         /\ Len(w2) = 6
  <2>1. MaskAll \in Seq(S) /\ Len(MaskAll) = 2
        /\ SetUpMaster \in Seq(S) /\ Len(SetUpMaster) = 4
        /\ 2 \in Nat /\ 4 \in Nat
    BY <1>1, <1>2
  <2>2. w2 \in Seq(S) /\ Joins(w2, MaskAll, 2, SetUpMaster, 4)
    BY <2>1, Join DEF w2
  <2>. QED  BY <2>1, <2>2 DEF Joins
<1>8. w3 \in Seq(S) /\ Joins(w3, w2, 6, SetUpSlave, 4)
         /\ Len(w3) = 10
  <2>1. w2 \in Seq(S) /\ Len(w2) = 6
        /\ SetUpSlave \in Seq(S) /\ Len(SetUpSlave) = 4
        /\ 6 \in Nat /\ 4 \in Nat
    BY <1>7, <1>3
  <2>2. w3 \in Seq(S) /\ Joins(w3, w2, 6, SetUpSlave, 4)
    BY <2>1, Join DEF w3
  <2>. QED  BY <2>1, <2>2 DEF Joins
<1>9. w4 \in Seq(S) /\ Joins(w4, w3, 10, OperationWords, 4)
         /\ Len(w4) = 14
  <2>1. w3 \in Seq(S) /\ Len(w3) = 10
        /\ OperationWords \in Seq(S) /\ Len(OperationWords) = 4
        /\ 10 \in Nat /\ 4 \in Nat
    BY <1>8, <1>4
  <2>2. w4 \in Seq(S) /\ Joins(w4, w3, 10, OperationWords, 4)
    BY <2>1, Join DEF w4
  <2>. QED  BY <2>1, <2>2 DEF Joins
<1>10. w5 \in Seq(S) /\ Joins(w5, w4, 14, MaskAgain(allow), 2)
         /\ Len(w5) = 16
  <2>1. w4 \in Seq(S) /\ Len(w4) = 14
        /\ MaskAgain(allow) \in Seq(S) /\ Len(MaskAgain(allow)) = 2
        /\ 14 \in Nat /\ 2 \in Nat
    BY <1>9, <1>5
  <2>2. w5 \in Seq(S) /\ Joins(w5, w4, 14, MaskAgain(allow), 2)
    BY <2>1, Join DEF w5
  <2>. QED  BY <2>1, <2>2 DEF Joins
<1>11. w6 \in Seq(S) /\ Joins(w6, w5, 16, timer_writes, Len(timer_writes))
         /\ Len(w6) = 16 + Len(timer_writes)
  <2>1. w5 \in Seq(S) /\ Len(w5) = 16
        /\ timer_writes \in Seq(S) /\ Len(timer_writes) = Len(timer_writes)
        /\ 16 \in Nat /\ Len(timer_writes) \in Nat
    BY <1>10, <1>6
  <2>2. w6 \in Seq(S) /\ Joins(w6, w5, 16, timer_writes, Len(timer_writes))
    BY <2>1, Join DEF w6
  <2>. QED  BY <2>1, <2>2 DEF Joins
<1>12. w6 = interrupt_controller_init(allow)
  BY DEF interrupt_controller_init, w6, w5, w4, w3, w2, timer_writes
<1>13. ASSUME NEW k \in 1 .. 2 PROVE w6[k] = MaskAll[k]
  <2>1. k \in 1 .. 6 /\ k \in 1 .. 10 /\ k \in 1 .. 14 /\ k \in 1 .. 16
    OBVIOUS
  <2>2. w2[k] = MaskAll[k]
    BY <1>7 DEF Joins
  <2>3. w3[k] = w2[k]
    BY <1>8, <2>1 DEF Joins
  <2>4. w4[k] = w3[k]
    BY <1>9, <2>1 DEF Joins
  <2>5. w5[k] = w4[k]
    BY <1>10, <2>1 DEF Joins
  <2>6. w6[k] = w5[k]
    BY <1>11, <2>1 DEF Joins
  <2>. QED  BY <2>2, <2>3, <2>4, <2>5, <2>6
<1>14. ASSUME NEW k \in 1 .. 4 PROVE w6[2 + k] = SetUpMaster[k]
  <2>1. 2 + k \in 1 .. 6 /\ 2 + k \in 1 .. 10 /\ 2 + k \in 1 .. 14
        /\ 2 + k \in 1 .. 16
    OBVIOUS
  <2>2. w2[2 + k] = SetUpMaster[k]
    BY <1>7 DEF Joins
  <2>3. w3[2 + k] = w2[2 + k]
    BY <1>8, <2>1 DEF Joins
  <2>4. w4[2 + k] = w3[2 + k]
    BY <1>9, <2>1 DEF Joins
  <2>5. w5[2 + k] = w4[2 + k]
    BY <1>10, <2>1 DEF Joins
  <2>6. w6[2 + k] = w5[2 + k]
    BY <1>11, <2>1 DEF Joins
  <2>. QED  BY <2>2, <2>3, <2>4, <2>5, <2>6
<1>15. ASSUME NEW k \in 1 .. 4 PROVE w6[6 + k] = SetUpSlave[k]
  <2>1. 6 + k \in 1 .. 10 /\ 6 + k \in 1 .. 14 /\ 6 + k \in 1 .. 16
    OBVIOUS
  <2>2. w3[6 + k] = SetUpSlave[k]
    BY <1>8 DEF Joins
  <2>3. w4[6 + k] = w3[6 + k]
    BY <1>9, <2>1 DEF Joins
  <2>4. w5[6 + k] = w4[6 + k]
    BY <1>10, <2>1 DEF Joins
  <2>5. w6[6 + k] = w5[6 + k]
    BY <1>11, <2>1 DEF Joins
  <2>. QED  BY <2>2, <2>3, <2>4, <2>5
<1>16. ASSUME NEW k \in 1 .. 4 PROVE w6[10 + k] = OperationWords[k]
  <2>1. 10 + k \in 1 .. 14 /\ 10 + k \in 1 .. 16
    OBVIOUS
  <2>2. w4[10 + k] = OperationWords[k]
    BY <1>9 DEF Joins
  <2>3. w5[10 + k] = w4[10 + k]
    BY <1>10, <2>1 DEF Joins
  <2>4. w6[10 + k] = w5[10 + k]
    BY <1>11, <2>1 DEF Joins
  <2>. QED  BY <2>2, <2>3, <2>4
<1>17. ASSUME NEW k \in 1 .. 2 PROVE w6[14 + k] = MaskAgain(allow)[k]
  <2>1. 14 + k \in 1 .. 16
    OBVIOUS
  <2>2. w5[14 + k] = MaskAgain(allow)[k]
    BY <1>10 DEF Joins
  <2>3. w6[14 + k] = w5[14 + k]
    BY <1>11, <2>1 DEF Joins
  <2>. QED  BY <2>2, <2>3
<1>18. TheWrites(w6, allow)
  <2>1. w6[1] = <<33, 255>> /\ w6[2] = <<161, 255>>
    BY <1>1, <1>13
  <2>2. /\ w6[2 + 1] = <<32, 17>> /\ w6[2 + 2] = <<33, 32>>
        /\ w6[2 + 3] = <<33, 4>> /\ w6[2 + 4] = <<33, 3>>
    BY <1>2, <1>14
  <2>3. /\ w6[6 + 1] = <<160, 17>> /\ w6[6 + 2] = <<161, 40>>
        /\ w6[6 + 3] = <<161, 2>> /\ w6[6 + 4] = <<161, 1>>
    BY <1>3, <1>15
  <2>4. /\ w6[10 + 1] = <<32, 104>> /\ w6[10 + 2] = <<32, 10>>
        /\ w6[10 + 3] = <<160, 104>> /\ w6[10 + 4] = <<160, 10>>
    BY <1>4, <1>16
  <2>5. /\ w6[14 + 1] = <<33, IF allow THEN 254 ELSE 255>>
        /\ w6[14 + 2] = <<161, 255>>
    BY <1>5, <1>17
  <2>. QED  BY <2>1, <2>2, <2>3, <2>4, <2>5 DEF TheWrites
<1>19. TimerWrites(w6)
  <2>1. ASSUME NEW k \in 17 .. Len(w6) PROVE w6[k] \in {64, 67} \X Byte
    <3>1. Len(timer_writes) \in Nat
      BY <1>6
    <3>2. k - 16 \in 1 .. Len(timer_writes) /\ 16 + (k - 16) = k
      BY <1>11, <3>1
    <3>3. w6[16 + (k - 16)] = timer_writes[k - 16]
      BY <1>11, <3>2 DEF Joins
    <3>4. timer_writes[k - 16] \in {64, 67} \X Byte
      BY <1>6, <3>2
    <3>. QED  BY <3>2, <3>3, <3>4
  <2>. QED  BY <2>1 DEF TimerWrites
<1>20. Len(w6) \in 16 .. 19
  <2>1. \A n \in 0 .. 3 : 16 + n \in 16 .. 19
    OBVIOUS
  <2>. QED  BY <1>6, <1>11, <2>1
<1>. QED  BY <1>11, <1>12, <1>18, <1>19, <1>20 DEF S

LEMMA StartIs ==
  ASSUME NEW allow \in BOOLEAN
  PROVE  LET s == start(allow)
             w == interrupt_controller_init(allow)
         IN  /\ s \in Seq(Instructions) /\ Len(s) = Len(w) + 4
             /\ s[1] = <<"lgdt", "global_descriptor_table">>
             /\ s[2] = <<"ltr", SEGSEL_TASKSTATE>>
             /\ s[3] = <<"lidt", "interrupt_descriptor_table">>
             /\ \A k \in 1 .. Len(w) : s[3 + k] = <<"outb", w[k]>>
             /\ s[Len(w) + 4] = <<"init_processes", First>>
<1>. DEFINE w == interrupt_controller_init(allow)
            tables == << <<"lgdt", "global_descriptor_table">>,
                         <<"ltr", SEGSEL_TASKSTATE>>,
                         <<"lidt", "interrupt_descriptor_table">> >>
            ports == [k \in DOMAIN w |-> <<"outb", w[k]>>]
            last  == << <<"init_processes", First>> >>
<1>1. start(allow) = tables \o ports \o last
  BY DEF start
<1>2. tables \in Seq(Instructions) /\ Len(tables) = 3
  <2>1. /\ <<"lgdt", "global_descriptor_table">> \in Instructions
        /\ <<"lidt", "interrupt_descriptor_table">> \in Instructions
    BY ArgumentKinds DEF PlainOperations, Operations, Names, Instructions
  <2>2. <<"ltr", SEGSEL_TASKSTATE>> \in Instructions
    BY ArgumentKinds DEF PlainOperations, Operations, SEGSEL_TASKSTATE,
       Instructions
  <2>. QED  BY <2>1, <2>2
<1>3. w \in Seq(Nat \X Byte) /\ Len(w) \in Nat
  BY WritesAre
<1>4. ports \in Seq(Instructions) /\ Len(ports) = Len(w)
      /\ \A k \in 1 .. Len(w) : ports[k] = <<"outb", w[k]>>
  <2>. HIDE DEF w
  <2>1. ASSUME NEW k \in 1 .. Len(w)
        PROVE  <<"outb", w[k]>> \in Instructions
    <3>1. w[k] \in Nat \X Nat
      <4>1. w[k] \in Nat \X Byte /\ Byte \subseteq Nat
        BY <1>3 DEF Byte
      <4>. QED  BY <4>1
    <3>2. w[k] \in Arguments
      BY <3>1, ArgumentKinds
    <3>. QED  BY <3>2 DEF PlainOperations, Operations, Instructions
  <2>2. DOMAIN w = 1 .. Len(w)
    BY <1>3
  <2>. QED  BY <1>3, <2>1, <2>2
<1>5. last \in Seq(Instructions) /\ Len(last) = 1
  <2>1. <<"init_processes", First>> \in Instructions
    BY MachineAssumption, ArgumentKinds DEF PlainOperations, Operations,
       Instructions
  <2>. QED  BY <2>1
<1>6. /\ tables[1] = <<"lgdt", "global_descriptor_table">>
      /\ tables[2] = <<"ltr", SEGSEL_TASKSTATE>>
      /\ tables[3] = <<"lidt", "interrupt_descriptor_table">>
      /\ last[1] = <<"init_processes", First>>
  OBVIOUS
<1>. HIDE DEF tables, ports, last, w, Instructions
<1>. DEFINE front == tables \o ports
<1>7. front \in Seq(Instructions) /\ Joins(front, tables, 3, ports, Len(w))
  BY <1>2, <1>3, <1>4, Join
<1>. HIDE DEF front
<1>. DEFINE s == front \o last
<1>8. /\ s \in Seq(Instructions) /\ Len(front) = 3 + Len(w)
      /\ Joins(s, front, 3 + Len(w), last, 1)
  <2>1. Len(front) = 3 + Len(w) /\ 3 + Len(w) \in Nat /\ 1 \in Nat
    BY <1>3, <1>7 DEF Joins
  <2>. QED  BY <1>5, <1>7, <2>1, Join
<1>9. s = start(allow)
  BY <1>1 DEF front
<1>. HIDE DEF s
<1>10. /\ s[1] = tables[1] /\ s[2] = tables[2] /\ s[3] = tables[3]
       /\ s[Len(w) + 4] = last[1] /\ Len(s) = Len(w) + 4
  <2>1. /\ \A k \in 1 .. 3 : k \in 1 .. 3 + Len(w)
        /\ (3 + Len(w)) + 1 = Len(w) + 4
    BY <1>3
  <2>2. s[(3 + Len(w)) + 1] = last[1] /\ Len(s) = (3 + Len(w)) + 1
    BY <1>8 DEF Joins
  <2>3. \A k \in 1 .. 3 : s[k] = tables[k]
    BY <1>7, <1>8, <2>1 DEF Joins
  <2>. QED  BY <2>1, <2>2, <2>3
<1>11. ASSUME NEW k \in 1 .. Len(w) PROVE s[3 + k] = <<"outb", w[k]>>
  <2>1. 3 + k \in 1 .. 3 + Len(w)
    BY <1>3
  <2>2. s[3 + k] = front[3 + k] /\ front[3 + k] = ports[k]
    BY <1>7, <1>8, <2>1 DEF Joins
  <2>. QED  BY <1>4, <2>2
<1>. QED  BY <1>6, <1>8, <1>9, <1>10, <1>11 DEF w

-----------------------------------------------------------------------------
(***************************************************************************)
(* MInv, the inductive invariant: the places the kernel can be at, each    *)
(* with what the tables, the chips, the stack and the descriptors hold.    *)
(***************************************************************************)
(* start(), with the instruction j next.  What it has made of the tables   *)
(* and of the first controller so far.                                     *)
LoadedAt(j) ==
  CASE j = 1 -> {} [] j = 2 -> {"gdt"} [] j = 3 -> {"gdt", "tr"}
    [] OTHER -> Tables

Masked == IF allow_clock_interrupt THEN 1 .. 7 ELSE 0 .. 7

MasterAt(j) ==
  /\ master.icw = CASE j = 7 -> 2 [] j = 8 -> 3 [] j = 9 -> 4 [] OTHER -> 0
  /\ j >= 8 => master.base = INT_HARDWARE
  /\ j >= 19 => master.imr = Masked

Starting(j) ==
  /\ code = Suffix(start(allow_clock_interrupt), j)
  /\ loaded = LoadedAt(j)
  /\ MasterAt(j)
  /\ stack = << >> /\ trap.n = INT_CLOCK /\ current = First

InStart == \E j \in 1 .. Len(start(allow_clock_interrupt)) : Starting(j)

(* From then on: the tables are there, the controllers programmed, and     *)
(* every process has a context in its descriptor, if only an old one.      *)
Saved(p) ==
  \E c \in UserContexts : \A r \in Registers : p_registers[p][Offset(r)] = c[r]

Settled ==
  /\ loaded = Tables /\ MasterAt(19)
  /\ trap.n \in Cases => \A p \in Procs : Saved(p)

InUser ==
  code = << >> /\ stack = << >> /\ cpu \in UserContexts /\ trap.n \in Cases

(* A stub that has k more or less instructions behind it and saves x as    *)
(* the number of the trap.  The registers are on the stack or still in the *)
(* CPU, unless the stub is one that interrupt() has no case for.           *)
Depth(k) == IF k <= 4 THEN 5 + k ELSE 17
Pushed   == \E c \in UserContexts : \A r \in Registers : OnTheStack(r) = c[r]

InStub(k, x) ==
  /\ code = StubCode(k, x)
  /\ Len(stack) <= Depth(k)
  /\ k >= 2 => Depth(k) - 6 <= Len(stack) /\ stack[Depth(k) - 6] = Number(x)
  /\ trap.n \in Cases => x = trap.n /\ Len(stack) = Depth(k) /\ Pushed
  /\ trap.n \notin Cases => x \notin Cases

InSchedule == code = << <<"schedule", "">> >> /\ trap.n \in Cases

(* run(), with its instruction k next: d words of the descriptor have been *)
(* popped, and the registers among them are in the CPU.                    *)
Dropped(k) ==
  CASE k = 2 -> 0 [] k = 3 -> 8 [] k = 4 -> 9 [] k = 5 -> 10 [] OTHER -> 12
Popped(d) ==
  /\ Len(stack) = 17 - d
  /\ \A i \in 1 .. 17 - d : stack[i] = p_registers[current][i + d]
  /\ \A r \in Registers :
       Offset(r) <= d => cpu[r] = p_registers[current][Offset(r)]

InRun(k) ==
  /\ code = Suffix(RunCode(current), k)
  /\ trap.n \in Cases
  /\ k >= 2 => Popped(Dropped(k))

Stopped == code = Hang /\ trap.n \notin Cases

Kernel ==
  \/ InUser \/ (\E k \in 0 .. 6, x \in 0 .. 255 : InStub(k, x))
  \/ InSchedule \/ (\E k \in 1 .. 6 : InRun(k)) \/ Stopped

Control == InStart \/ (Settled /\ Kernel)

(* TypeOK, in parts.  The bytes of a count of the timer arrive one by one. *)
OtherTypes ==
  /\ allow_clock_interrupt \in ClockChoices /\ loaded \subseteq Tables
  /\ current \in Procs /\ trap.n \in 0 .. 255
ChipTypes ==
  /\ master \in Chips /\ slave \in Chips
  /\ timer.phase \in {"counting", "low", "high"}
  /\ timer.reload \in 0 .. MaxCount
  /\ timer.phase = "high" => timer.reload \in Byte
CpuTypes ==
  /\ cpu \in [Registers -> Words]
  /\ \A r \in Registers \ {"eax"} : cpu[r][1] = KindOf(r)
StackTypes == stack \in Seq(Words) /\ Len(stack) <= 17
DescriptorTypes == p_registers \in [Procs -> [1 .. 17 -> Words]]

Types == OtherTypes /\ ChipTypes /\ CpuTypes /\ StackTypes /\ DescriptorTypes

(* A trap without a case is the doing of a process, and not the kernel's.  *)
BlamesTheProcess ==
  trap.n \notin Cases =>
    \/ trap.by[1] \in Exceptions
    \/ trap.by[1] = "int" /\ trap.by[2] \notin Cases \ {INT_CLOCK}

MInv == Inv /\ Types /\ BlamesTheProcess /\ Control

-----------------------------------------------------------------------------
(* What is next, and last, at each place *)

StartNext(c, allow, j) ==
  LET w == interrupt_controller_init(allow) IN
  /\ c # << >> /\ c[Len(c)][1] = "init_processes"
  /\ Tail(c) = Suffix(start(allow), j + 1)
  /\ j = 1 => Head(c)[1] = "lgdt"
  /\ j = 2 => Head(c)[1] = "ltr" /\ Head(c)[2] = SEGSEL_TASKSTATE
  /\ j = 3 => Head(c)[1] = "lidt"
  /\ j > 3 /\ j < Len(w) + 4 => Head(c)[1] = "outb" /\ Head(c)[2] = w[j - 3]
  /\ j = Len(w) + 4 => Head(c)[1] = "init_processes" /\ Head(c)[2] = First

LEMMA AtStart ==
  ASSUME NEW allow \in BOOLEAN, NEW j \in 1 .. Len(start(allow))
  PROVE  StartNext(Suffix(start(allow), j), allow, j)
<1>. DEFINE s == start(allow)
            w == interrupt_controller_init(allow)
            c == Suffix(s, j)
<1>1. Len(w) \in 16 .. 19
  BY WritesAre
<1>2. /\ s \in Seq(Instructions) /\ Len(s) = Len(w) + 4
      /\ s[1] = <<"lgdt", "global_descriptor_table">>
      /\ s[2] = <<"ltr", SEGSEL_TASKSTATE>>
      /\ s[3] = <<"lidt", "interrupt_descriptor_table">>
      /\ \A k \in 1 .. Len(w) : s[3 + k] = <<"outb", w[k]>>
      /\ s[Len(w) + 4] = <<"init_processes", First>>
  BY StartIs
<1>. HIDE DEF s, w, Instructions
<1>3. /\ c # << >> /\ Head(c) = s[j] /\ Tail(c) = Suffix(s, j + 1)
      /\ c[Len(c)] = s[Len(s)]
  BY <1>2, SuffixFacts DEF s
<1>. HIDE DEF c
<1>4. c[Len(c)][1] = "init_processes"
  BY <1>2, <1>3
<1>5. ASSUME j > 3, j < Len(w) + 4 PROVE Head(c) = <<"outb", w[j - 3]>>
  <2>1. j - 3 \in 1 .. Len(w) /\ 3 + (j - 3) = j
    BY <1>1, <1>2, <1>5 DEF s
  <2>2. s[3 + (j - 3)] = <<"outb", w[j - 3]>>
    BY <1>2, <2>1
  <2>. QED  BY <1>3, <2>1, <2>2
<1>6. j = 1 => Head(c)[1] = "lgdt"
  BY <1>2, <1>3
<1>7. j = 2 => Head(c)[1] = "ltr" /\ Head(c)[2] = SEGSEL_TASKSTATE
  BY <1>2, <1>3
<1>8. j = 3 => Head(c)[1] = "lidt"
  BY <1>2, <1>3
<1>9. j = Len(w) + 4 => Head(c)[1] = "init_processes" /\ Head(c)[2] = First
  BY <1>2, <1>3
<1>10. j > 3 /\ j < Len(w) + 4 => Head(c)[1] = "outb" /\ Head(c)[2] = w[j - 3]
  BY <1>5
<1>. QED
  BY <1>3, <1>4, <1>6, <1>7, <1>8, <1>9, <1>10 DEF StartNext, c, s, w

StubNext(c, k, x) ==
  /\ c # << >> /\ c[Len(c)][1] = "interrupt"
  /\ k <= 5 => Tail(c) = StubCode(k + 1, x)
  /\ k = 0 => Head(c)[1] = "push" /\ Head(c)[2] = 0
  /\ k = 1 => Head(c)[1] = "push" /\ Head(c)[2] = x
  /\ k = 2 => Head(c)[1] = "push_register" /\ Head(c)[2] = "ds"
  /\ k = 3 => Head(c)[1] = "push_register" /\ Head(c)[2] = "es"
  /\ k = 4 => Head(c)[1] = "pushal"
  /\ k = 5 => Head(c)[1] = "load_kernel_data" /\ Head(c)[2] = SEGSEL_KERN_DATA
  /\ k = 6 => Head(c)[1] = "interrupt"

LEMMA AtStub ==
  ASSUME NEW k \in 0 .. 6, NEW x \in Nat
  PROVE  StubNext(StubCode(k, x), k, x)
<1>. DEFINE c == StubCode(k, x)
            g == generic_int_handler
<1>0. /\ c # << >> /\ c[Len(c)][1] = "interrupt"
      /\ k <= 5 => Tail(c) = StubCode(k + 1, x)
  BY StubCodeAt
<1>1. /\ k = 0 => Head(c) = <<"push", 0>>
      /\ k = 1 => Head(c) = <<"push", x>>
      /\ k >= 2 => Head(c) = g[k - 1]
  BY StubCodeAt
<1>. HIDE DEF c
<1>2. k = 0 => Head(c)[1] = "push" /\ Head(c)[2] = 0
  BY <1>1
<1>3. k = 1 => Head(c)[1] = "push" /\ Head(c)[2] = x
  BY <1>1
<1>4. k = 2 => Head(c)[1] = "push_register" /\ Head(c)[2] = "ds"
  <2>1. g[1] = <<"push_register", "ds">>
    BY GenericCodeIs
  <2>. HIDE DEF g
  <2>. QED  BY <1>1, <2>1
<1>5. k = 3 => Head(c)[1] = "push_register" /\ Head(c)[2] = "es"
  <2>1. g[2] = <<"push_register", "es">>
    BY GenericCodeIs
  <2>. HIDE DEF g
  <2>. QED  BY <1>1, <2>1
<1>6. k = 4 => Head(c)[1] = "pushal"
  <2>1. g[3][1] = "pushal"
    BY DEF generic_int_handler
  <2>. HIDE DEF g
  <2>. QED  BY <1>1, <2>1
<1>7. k = 5 => Head(c)[1] = "load_kernel_data" /\ Head(c)[2] = SEGSEL_KERN_DATA
  <2>1. g[4] = <<"load_kernel_data", SEGSEL_KERN_DATA>>
    BY GenericCodeIs
  <2>. HIDE DEF g
  <2>. QED  BY <1>1, <2>1
<1>8. k = 6 => Head(c)[1] = "interrupt"
  <2>1. g[5] = <<"interrupt", "%esp">>
    BY GenericCodeIs
  <2>. HIDE DEF g
  <2>. QED  BY <1>1, <2>1
<1>. QED  BY <1>0, <1>2, <1>3, <1>4, <1>5, <1>6, <1>7, <1>8
     DEF StubNext, c

RunNext(c, p, k) ==
  /\ c # << >> /\ c[Len(c)][1] = "iret"
  /\ Tail(c) = Suffix(RunCode(p), k + 1)
  /\ k = 1 => Head(c)[1] = "load_esp" /\ Head(c)[2] = p
  /\ k = 2 => Head(c)[1] = "popal"
  /\ k = 3 => Head(c)[1] = "pop_register" /\ Head(c)[2] = "es"
  /\ k = 4 => Head(c)[1] = "pop_register" /\ Head(c)[2] = "ds"
  /\ k = 5 => Head(c)[1] = "add_esp" /\ Head(c)[2] = 2
  /\ k = 6 => Head(c)[1] = "iret"

LEMMA AtRun ==
  ASSUME NEW p \in Procs, NEW k \in 1 .. 6
  PROVE  RunNext(Suffix(RunCode(p), k), p, k)
<1>. DEFINE c == Suffix(RunCode(p), k)
            s == RunCode(p)
<1>0. /\ c # << >> /\ c[Len(c)][1] = "iret"
      /\ Tail(c) = Suffix(RunCode(p), k + 1)
  BY RunCodeAt
<1>1. Head(c) = s[k]
  BY RunCodeAt
<1>. HIDE DEF c
<1>2. k = 1 => Head(c)[1] = "load_esp" /\ Head(c)[2] = p
  <2>1. s[1] = <<"load_esp", p>>
    BY RunCodeIs
  <2>. HIDE DEF s
  <2>. QED  BY <1>1, <2>1
<1>3. k = 2 => Head(c)[1] = "popal"
  <2>1. s[2][1] = "popal"
    BY DEF RunCode
  <2>. HIDE DEF s
  <2>. QED  BY <1>1, <2>1
<1>4. k = 3 => Head(c)[1] = "pop_register" /\ Head(c)[2] = "es"
  <2>1. s[3] = <<"pop_register", "es">>
    BY RunCodeIs
  <2>. HIDE DEF s
  <2>. QED  BY <1>1, <2>1
<1>5. k = 4 => Head(c)[1] = "pop_register" /\ Head(c)[2] = "ds"
  <2>1. s[4] = <<"pop_register", "ds">>
    BY RunCodeIs
  <2>. HIDE DEF s
  <2>. QED  BY <1>1, <2>1
<1>6. k = 5 => Head(c)[1] = "add_esp" /\ Head(c)[2] = 2
  <2>1. s[5] = <<"add_esp", 2>>
    BY RunCodeIs
  <2>. HIDE DEF s
  <2>. QED  BY <1>1, <2>1
<1>7. k = 6 => Head(c)[1] = "iret"
  <2>1. s[6][1] = "iret"
    BY DEF RunCode
  <2>. HIDE DEF s
  <2>. QED  BY <1>1, <2>1
<1>. QED  BY <1>2, <1>3, <1>4, <1>5, <1>6, <1>7, <1>0 DEF RunNext, c

Op == Head(code)[1]

LEMMA Layout == Len(registers_t) = 17 /\ DOMAIN registers_t = 1 .. 17
BY DEF registers_t, pushal

LEMMA TypesAreOK == Types => TypeOK
<1>. SUFFICES ASSUME Types PROVE TypeOK
  OBVIOUS
<1>1. Len(stack) <= Len(registers_t)
      /\ \A k \in DOMAIN stack : stack[k] \in Words
  <2>. HIDE DEF Words
  <2>. QED  BY Layout DEF Types, StackTypes
<1>2. p_registers \in [Procs -> [DOMAIN registers_t -> Words]]
  BY Layout DEF Types, DescriptorTypes
<1>3. allow_clock_interrupt \in ClockChoices
      /\ loaded \subseteq {"gdt", "tr", "idt"}
      /\ current \in Procs /\ trap.n \in 0 .. 255
  BY DEF Types, OtherTypes, Tables
<1>4. master \in Chips /\ slave \in Chips
  BY DEF Types, ChipTypes
<1>5. timer.phase \in {"counting", "low", "high"}
      /\ timer.reload \in 0 .. MaxCount
  BY DEF Types, ChipTypes
<1>6. /\ cpu \in [Registers -> Words]
      /\ \A r \in Registers \ {"eax"} : cpu[r][1] = KindOf(r)
  BY DEF Types, CpuTypes
<1>. QED
  BY <1>1, <1>2, <1>3, <1>4, <1>5, <1>6 DEF TypeOK

LEMMA Known ==
  ASSUME MInv
  PROVE  allow_clock_interrupt \in BOOLEAN /\ current \in Procs
BY MachineAssumption DEF MInv, Types, OtherTypes

LEMMA StartingHere ==
  ASSUME NEW j \in 1 .. Len(start(allow_clock_interrupt)), Starting(j),
         allow_clock_interrupt \in BOOLEAN
  PROVE  StartNext(code, allow_clock_interrupt, j)
BY AtStart DEF Starting

LEMMA StubHere ==
  ASSUME NEW k \in 0 .. 6, NEW x \in 0 .. 255, InStub(k, x)
  PROVE  StubNext(code, k, x)
<1>1. x \in Nat /\ code = StubCode(k, x)
  BY DEF InStub
<1>. QED  BY <1>1, AtStub

LEMMA RunHere ==
  ASSUME NEW k \in 1 .. 6, InRun(k), current \in Procs
  PROVE  RunNext(code, current, k)
BY AtRun DEF InRun

LEMMA OneInstruction ==
  ASSUME NEW op, NEW arg, code = << <<op, arg>> >>
  PROVE  code # << >> /\ LastOperation = op /\ Op = op
BY DEF LastOperation, Op

LEMMA ScheduleHere ==
  ASSUME InSchedule
  PROVE  ~UserMode /\ LastOperation = "schedule" /\ Op = "schedule"
BY OneInstruction DEF InSchedule, UserMode

LEMMA StoppedHere ==
  ASSUME Stopped
  PROVE  ~UserMode /\ LastOperation = "jmp" /\ Op = "jmp"
BY OneInstruction DEF Stopped, Hang, UserMode

BootOperations == {"lgdt", "ltr", "lidt", "outb", "init_processes"}
StubOperations ==
  {"push", "push_register", "pushal", "load_kernel_data", "interrupt"}
RunOperations == {"load_esp", "popal", "pop_register", "add_esp", "iret"}

(* Which place it is can be told from the operation that is next.          *)
LEMMA Place ==
  ASSUME MInv, ~UserMode
  PROVE  /\ Op \in BootOperations => InStart
         /\ Op \notin BootOperations => Settled
         /\ Op \in StubOperations =>
                \E k \in 0 .. 6, x \in 0 .. 255 : InStub(k, x)
         /\ Op = "schedule" => InSchedule
         /\ Op \in RunOperations => \E k \in 1 .. 6 : InRun(k)
         /\ Op = "jmp" => Stopped
         /\ Op # "shutdown"
<1>1. CASE InStart
  <2>1. PICK j \in 1 .. Len(start(allow_clock_interrupt)) : Starting(j)
    BY <1>1 DEF InStart
  <2>. DEFINE n == Len(interrupt_controller_init(allow_clock_interrupt)) + 4
  <2>a. Len(start(allow_clock_interrupt)) = n
    BY Known, StartIs
  <2>b. n \in Nat
    BY Known, WritesAre
  <2>c. StartNext(code, allow_clock_interrupt, j)
    BY <2>1, Known, StartingHere
  <2>2. /\ Len(start(allow_clock_interrupt)) = n /\ n \in Nat
        /\ j = 1 => Op = "lgdt"
        /\ j = 2 => Op = "ltr"
        /\ j = 3 => Op = "lidt"
        /\ j > 3 /\ j < n => Op = "outb"
        /\ j = n => Op = "init_processes"
    BY <2>a, <2>b, <2>c DEF StartNext, Op
  <2>3. j \in 1 .. n
    BY <2>2
  <2>. HIDE DEF n
  <2>4. Op \in BootOperations
    BY <2>2, <2>3 DEF BootOperations
  <2>. QED  BY <1>1, <2>4 DEF BootOperations, StubOperations, RunOperations
<1>2. CASE Settled /\ \E k \in 0 .. 6, x \in 0 .. 255 : InStub(k, x)
  <2>1. Op \in StubOperations
    <3>1. PICK k \in 0 .. 6, x \in 0 .. 255 : InStub(k, x)
      BY <1>2
    <3>2. StubNext(code, k, x)
      BY <3>1, StubHere
    <3>. QED  BY <3>2 DEF StubNext, StubOperations, Op
  <2>. QED  BY <1>2, <2>1 DEF BootOperations, StubOperations, RunOperations
<1>3. CASE Settled /\ InSchedule
  BY <1>3, ScheduleHere DEF BootOperations, StubOperations, RunOperations
<1>4. CASE Settled /\ \E k \in 1 .. 6 : InRun(k)
  <2>1. Op \in RunOperations
    <3>1. PICK k \in 1 .. 6 : InRun(k)
      BY <1>4
    <3>2. RunNext(code, current, k)
      BY <3>1, RunHere, Known
    <3>. QED  BY <3>2 DEF RunNext, RunOperations, Op
  <2>. QED  BY <1>4, <2>1 DEF BootOperations, StubOperations, RunOperations
<1>5. CASE Settled /\ Stopped
  BY <1>5, StoppedHere DEF BootOperations, StubOperations, RunOperations
<1>. QED  BY <1>1, <1>2, <1>3, <1>4, <1>5 DEF MInv, Control, Kernel, InUser,
     UserMode

-----------------------------------------------------------------------------
(***************************************************************************)
(* The words of a registers_t and the contexts of processes.               *)
(***************************************************************************)
(* The layout of a registers_t. *)
LEMMA Positions ==
  /\ registers_t[1] = "edi" /\ registers_t[2] = "esi" /\ registers_t[3] = "ebp"
  /\ registers_t[4] = "original_esp" /\ registers_t[5] = "ebx"
  /\ registers_t[6] = "edx" /\ registers_t[7] = "ecx" /\ registers_t[8] = "eax"
  /\ registers_t[9] = "es" /\ registers_t[10] = "ds"
  /\ registers_t[11] = "intno"
  /\ registers_t[12] = "err" /\ registers_t[13] = "eip"
  /\ registers_t[14] = "cs"
  /\ registers_t[15] = "eflags" /\ registers_t[16] = "esp"
  /\ registers_t[17] = "ss"
BY DEF registers_t, pushal

LEMMA DistinctFields ==
  \A j, k \in 1 .. 17 : registers_t[j] = registers_t[k] => j = k
<1>. SUFFICES ASSUME NEW j \in 1 .. 17, NEW k \in 1 .. 17,
                     registers_t[j] = registers_t[k]
              PROVE  j = k
  OBVIOUS
<1>. QED  BY Positions

LEMMA OffsetFacts ==
  /\ \A k \in 1 .. 17 : Offset(registers_t[k]) = k
  /\ \A f \in Fields : Offset(f) \in 1 .. 17 /\ registers_t[Offset(f)] = f
<1>1. ASSUME NEW f \in Fields
      PROVE  Offset(f) \in 1 .. 17 /\ registers_t[Offset(f)] = f
  BY Layout DEF Offset, Fields
<1>2. ASSUME NEW k \in 1 .. 17 PROVE Offset(registers_t[k]) = k
  <2>1. registers_t[k] \in Fields
    BY Layout DEF Fields
  <2>2. /\ Offset(registers_t[k]) \in 1 .. 17
        /\ registers_t[Offset(registers_t[k])] = registers_t[k]
    BY <1>1, <2>1
  <2>. QED  BY <2>2, DistinctFields
<1>. QED  BY <1>1, <1>2

LEMMA Offsets ==
  /\ Offset("edi") = 1 /\ Offset("esi") = 2 /\ Offset("ebp") = 3
  /\ Offset("ebx") = 5 /\ Offset("edx") = 6 /\ Offset("ecx") = 7
  /\ Offset("eax") = 8 /\ Offset("es") = 9 /\ Offset("ds") = 10
  /\ Offset("intno") = 11 /\ Offset("eip") = 13 /\ Offset("cs") = 14
  /\ Offset("eflags") = 15 /\ Offset("esp") = 16 /\ Offset("ss") = 17
<1>1. \A k \in 1 .. 17 : Offset(registers_t[k]) = k
  BY OffsetFacts
<1>2. \A k \in {1, 2, 3, 5, 6, 7, 8, 9, 10, 11, 13, 14, 15, 16, 17} :
        k \in 1 .. 17
  OBVIOUS
<1>. QED  BY <1>1, <1>2, Positions

LEMMA RegistersAre ==
  Registers = {"edi", "esi", "ebp", "ebx", "edx", "ecx", "eax", "es", "ds",
               "eip", "cs", "eflags", "esp", "ss"}
<1>1. Fields = {registers_t[k] : k \in 1 .. 17}
  BY Layout DEF Fields
<1>2. Fields = {"edi", "esi", "ebp", "original_esp", "ebx", "edx",
                "ecx", "eax",
                "es", "ds", "intno", "err", "eip", "cs", "eflags", "esp", "ss"}
  <2>1. ASSUME NEW f \in Fields
        PROVE  f \in {"edi", "esi", "ebp", "original_esp", "ebx", "edx", "ecx",
                      "eax", "es", "ds", "intno", "err", "eip", "cs", "eflags",
                      "esp", "ss"}
    <3>1. PICK k \in 1 .. 17 : f = registers_t[k]
      BY <1>1
    <3>. QED  BY <3>1, Positions
  <2>2. /\ "edi" \in Fields /\ "esi" \in Fields /\ "ebp" \in Fields
        /\ "original_esp" \in Fields /\ "ebx" \in Fields /\ "edx" \in Fields
        /\ "ecx" \in Fields /\ "eax" \in Fields /\ "es" \in Fields
        /\ "ds" \in Fields /\ "intno" \in Fields /\ "err" \in Fields
        /\ "eip" \in Fields /\ "cs" \in Fields /\ "eflags" \in Fields
        /\ "esp" \in Fields /\ "ss" \in Fields
    <3>1. \A k \in 1 .. 17 : registers_t[k] \in Fields
      BY <1>1
    <3>2. \A k \in {1, 2, 3, 4, 5, 6, 7, 8, 9, 10, 11, 12, 13,
                    14, 15, 16, 17} :
            k \in 1 .. 17
      OBVIOUS
    <3>. QED  BY <3>1, <3>2, Positions
  <2>. QED  BY <2>1, <2>2
<1>. QED  BY <1>2 DEF Registers

(* Selectors and the segments they name. *)
LEMMA Loadable ==
  /\ DataLoadable(AppData) /\ CodeLoadable(AppCode, 3)
  /\ StackLoadable(AppData, 3)
  /\ TaskLoadable(SEGSEL_TASKSTATE)
<1>1. DataLoadable(AppData)
  BY DEF DataLoadable, IsNull, IsCode, IsSegment, RWBit, Desc, segments,
     AppData,
     SEGSEL_APP_DATA, SEG, SEG_NULL, Rpl, STA_X, STA_R, STA_W, STS_T32A
<1>2. CodeLoadable(AppCode, 3)
  BY DEF CodeLoadable, IsCode, IsSegment, Desc, segments, AppCode,
     SEGSEL_APP_CODE, SEG, SEG_NULL, Rpl, STA_X, STA_R, STA_W, STS_T32A
<1>3. StackLoadable(AppData, 3)
  BY DEF StackLoadable, RWBit, IsCode, IsSegment, Desc, segments, AppData,
     SEGSEL_APP_DATA, SEG, SEG_NULL, Rpl, STA_X, STA_R, STA_W, STS_T32A
<1>4. TaskLoadable(SEGSEL_TASKSTATE)
  BY DEF TaskLoadable, Desc, segments, SEGSEL_TASKSTATE, SEG, SEG_NULL,
     STA_X, STA_R, STA_W, STS_T32A
<1>. QED  BY <1>1, <1>2, <1>3, <1>4

(* Words. *)
LEMMA WordKinds ==
  /\ \A r \in Registers, v \in Values \cup {Junk} : <<r, v>> \in Words
  /\ \A v \in Values \cup {Junk}, b \in BOOLEAN : Flags(v, b) \in Words
  /\ \A n \in 0 .. 255 : Selector(n) \in Words
  /\ \A n \in 0 .. MaxError : Number(n) \in Words
  /\ Above \in Words
<1>. DEFINE A == {<<r, v>> : r \in Registers, v \in Values \cup {Junk}}
            B == {Flags(v, b) : v \in Values \cup {Junk}, b \in BOOLEAN}
            C == {Selector(n) : n \in 0 .. 255}
            D == {Number(n) : n \in 0 .. MaxError}
<1>1. \A r \in Registers, v \in Values \cup {Junk} : <<r, v>> \in A
  OBVIOUS
<1>2. \A v \in Values \cup {Junk}, b \in BOOLEAN : Flags(v, b) \in B
  OBVIOUS
<1>3. \A n \in 0 .. 255 : Selector(n) \in C
  BY Zenon
<1>4. \A n \in 0 .. MaxError : Number(n) \in D
  BY Zenon
<1>5. Words = A \cup B \cup C \cup D \cup {Above}
  BY DEF Words
<1>. HIDE DEF A, B, C, D
<1>6. /\ A \subseteq Words /\ B \subseteq Words /\ C \subseteq Words
      /\ D \subseteq Words /\ Above \in Words
  BY <1>5
<1>7. \A r \in Registers, v \in Values \cup {Junk} : <<r, v>> \in Words
  BY <1>1, <1>6, Zenon
<1>8. \A v \in Values \cup {Junk}, b \in BOOLEAN : Flags(v, b) \in Words
  BY <1>2, <1>6, Zenon
<1>9. \A n \in 0 .. 255 : Selector(n) \in Words
  BY <1>3, <1>6, Zenon
<1>10. \A n \in 0 .. MaxError : Number(n) \in Words
  BY <1>4, <1>6, Zenon
<1>. QED  BY <1>6, <1>7, <1>8, <1>9, <1>10, Zenon

(* What is in the registers in user mode.                                  *)
LEMMA KindsAre ==
  \A r \in Registers :
    KindOf(r) = IF r \in {"es", "ds", "cs", "ss"} THEN "selector" ELSE r
<1>. SUFFICES ASSUME NEW r \in Registers
              PROVE  KindOf(r) = IF r \in {"es", "ds", "cs", "ss"}
                                 THEN "selector" ELSE r
  OBVIOUS
<1>. QED  BY RegistersAre DEF KindOf

LEMMA UserRegistersAre ==
  ASSUME NEW v \in Values, NEW b \in BOOLEAN
  PROVE  /\ UserRegisters(v, b) \in [Registers -> Words]
         /\ \A r \in Registers : UserRegisters(v, b)[r][1] = KindOf(r)
         /\ UserRegisters(v, b).ds = Selector(DataSelector[v])
         /\ UserRegisters(v, b).cs = Selector(AppCode)
         /\ UserRegisters(v, b).es = Selector(AppData)
         /\ UserRegisters(v, b).ss = Selector(AppData)
         /\ UserRegisters(v, b).eflags = Flags(v, b)
<1>. DEFINE c == UserRegisters(v, b)
<1>1. /\ DOMAIN c = Registers /\ c = [r \in Registers |-> c[r]]
      /\ c.ds = Selector(DataSelector[v]) /\ c.cs = Selector(AppCode)
      /\ c.es = Selector(AppData) /\ c.ss = Selector(AppData)
      /\ c.eflags = Flags(v, b)
      /\ \A r \in Registers \ {"ds", "cs", "es", "ss", "eflags"} :
           c[r] = <<r, v>>
  BY RegistersAre DEF UserRegisters
<1>. HIDE DEF c
<1>2. AppCode \in 0 .. 255 /\ AppData \in 0 .. 255
      /\ DataSelector[v] \in 0 .. 255
  BY MachineAssumption DEF AppCode, AppData, SEGSEL_APP_DATA, SEGSEL_APP_CODE
<1>3. \A r \in Registers : c[r] \in Words
  <2>1. /\ c.ds \in Words /\ c.cs \in Words /\ c.es \in Words /\ c.ss \in Words
        /\ c.eflags \in Words
    BY <1>1, <1>2, WordKinds
  <2>2. ASSUME NEW r \in Registers \ {"ds", "cs", "es", "ss", "eflags"}
        PROVE  c[r] \in Words
    <3>1. c[r] = <<r, v>>
      BY <1>1
    <3>2. <<r, v>> \in Words
      BY WordKinds, Zenon
    <3>. QED  BY <3>1, <3>2
  <2>. QED  BY <2>1, <2>2
<1>4. ASSUME NEW r \in Registers PROVE c[r][1] = KindOf(r)
  <2>1. CASE r \in {"ds", "cs", "es", "ss"}
    <3>1. \A n : Selector(n)[1] = "selector"
      BY DEF Selector
    <3>2. c[r][1] = "selector"
      BY <1>1, <2>1, <3>1
    <3>. QED  BY <2>1, <3>2, KindsAre
  <2>2. CASE r = "eflags"
    <3>1. c[r][1] = "eflags"
      BY <1>1, <2>2 DEF Flags
    <3>. QED  BY <2>2, <3>1, KindsAre
  <2>3. CASE r \notin {"ds", "cs", "es", "ss", "eflags"}
    BY <1>1, <2>3, KindsAre
  <2>. QED  BY <2>1, <2>2, <2>3
<1>5. c \in [Registers -> Words]
  <2>. HIDE DEF Words
  <2>. QED  BY <1>1, <1>3
<1>. QED  BY <1>1, <1>4, <1>5 DEF c

(* A context can be loaded: every selector of it, and the flag is set.     *)
UserLike(c) ==
  /\ c \in [Registers -> Words] /\ \A r \in Registers : c[r][1] = KindOf(r)
  /\ c.ds[1] = "selector" /\ c.ds[2] \in 0 .. 255 /\ DataLoadable(c.ds[2])
  /\ c.cs = Selector(AppCode) /\ c.es = Selector(AppData)
  /\ c.ss = Selector(AppData)
  /\ c.eflags[1] = "eflags" /\ c.eflags[3] = TRUE /\ c.eip[1] = "eip"

LEMMA UserFacts ==
  ASSUME NEW c \in UserContexts PROVE UserLike(c)
<1>1. PICK v \in Values : c = UserRegisters(v, TRUE)
  BY DEF UserContexts
<1>2. DataSelector[v] \in 0 .. 255 /\ DataLoadable(DataSelector[v])
  BY MachineAssumption
<1>3. "eip" \in Registers /\ KindOf("eip") = "eip"
  BY RegistersAre DEF KindOf
<1>4. c.eip[1] = "eip"
  BY <1>1, <1>3, UserRegistersAre
<1>5. c.ds[1] = "selector" /\ c.ds[2] = DataSelector[v]
  <2>1. c.ds = Selector(DataSelector[v])
    BY <1>1, UserRegistersAre
  <2>. QED  BY <2>1 DEF Selector
<1>6. c.eflags[1] = "eflags" /\ c.eflags[3] = TRUE
  <2>1. c.eflags = Flags(v, TRUE)
    BY <1>1, UserRegistersAre
  <2>. QED  BY <2>1 DEF Flags
<1>7. /\ c \in [Registers -> Words] /\ \A r \in Registers : c[r][1] = KindOf(r)
      /\ c.cs = Selector(AppCode) /\ c.es = Selector(AppData)
      /\ c.ss = Selector(AppData)
  BY <1>1, UserRegistersAre
<1>. QED  BY <1>2, <1>4, <1>5, <1>6, <1>7 DEF UserLike

LEMMA InitialFrameIs ==
  /\ InitialFrame \in [1 .. 17 -> Words]
  /\ UserRegisters(0, TRUE) \in UserContexts
  /\ \A r \in Registers : InitialFrame[Offset(r)] = UserRegisters(0, TRUE)[r]
<1>0. 0 \in Values
  BY MachineAssumption
<1>1. UserRegisters(0, TRUE) \in UserContexts
  BY <1>0 DEF UserContexts
<1>2. ASSUME NEW k \in 1 .. 17
      PROVE  InitialFrame[k] =
               IF registers_t[k] \in Registers
               THEN UserRegisters(0, TRUE)[registers_t[k]]
               ELSE <<KindOf(registers_t[k]), 0>>
  BY Layout DEF InitialFrame
<1>3. ASSUME NEW r \in Registers
      PROVE  InitialFrame[Offset(r)] = UserRegisters(0, TRUE)[r]
  <2>1. r \in Fields
    BY DEF Registers
  <2>2. Offset(r) \in 1 .. 17 /\ registers_t[Offset(r)] = r
    BY <2>1, OffsetFacts
  <2>. QED  BY <1>2, <2>2
<1>4. ASSUME NEW k \in 1 .. 17 PROVE InitialFrame[k] \in Words
  <2>1. CASE registers_t[k] \in Registers
    <3>1. UserRegisters(0, TRUE)[registers_t[k]] \in Words
      BY <1>0, <2>1, UserRegistersAre
    <3>. QED  BY <1>2, <2>1, <3>1
  <2>2. CASE registers_t[k] \notin Registers
    <3>1. registers_t[k] \in {"original_esp", "intno", "err"}
      BY <2>2, Layout DEF Registers, Fields
    <3>2. InitialFrame[k] = <<KindOf(registers_t[k]), 0>>
      BY <1>2, <2>2
    <3>3. <<"esp", 0>> \in Words /\ <<"number", 0>> \in Words
      <4>1. "esp" \in Registers /\ 0 \in Values \cup {Junk}
            /\ 0 \in 0 .. MaxError
        BY <1>0, RegistersAre DEF MaxError
      <4>2. <<"esp", 0>> \in Words
        BY <4>1, WordKinds, Zenon
      <4>3. Number(0) \in Words
        BY <4>1, WordKinds, Zenon
      <4>. QED  BY <4>2, <4>3 DEF Number
    <3>. QED  BY <3>1, <3>2, <3>3 DEF KindOf
  <2>. QED  BY <2>1, <2>2
<1>5. InitialFrame = [k \in 1 .. 17 |-> InitialFrame[k]]
  BY Layout DEF InitialFrame
<1>6. InitialFrame \in [1 .. 17 -> Words]
  <2>. HIDE DEF Words, InitialFrame
  <2>. QED  BY <1>4, <1>5
<1>. QED  BY <1>1, <1>3, <1>6

-----------------------------------------------------------------------------
(***************************************************************************)
(* The chips: what each write of interrupt_controller_init() does, and that*)
(* a request or its delivery changes neither vectors nor masks.            *)
(***************************************************************************)
(* The controllers: what the writes of start() make of the first one, and  *)
(* what reaches the CPU after that.                                        *)
LEMMA Powers ==
  /\ 2^0 = 1 /\ 2^1 = 2 /\ 2^2 = 4 /\ 2^3 = 8 /\ 2^4 = 16 /\ 2^5 = 32
  /\ 2^6 = 64 /\ 2^7 = 128
OBVIOUS

LEMMA BitsOf ==
  /\ Lines(255) = 0 .. 7 /\ Lines(254) = 1 .. 7
  /\ Bit(17, 4) /\ ~Bit(104, 4) /\ ~Bit(10, 4) /\ ~Bit(10, 6)
<1>0. \A n \in 0 .. 7 : n \in {0, 1, 2, 3, 4, 5, 6, 7}
  OBVIOUS
<1>a. /\ Bit(255, 0) /\ Bit(255, 1) /\ Bit(255, 2) /\ Bit(255, 3)
      /\ Bit(255, 4) /\ Bit(255, 5) /\ Bit(255, 6) /\ Bit(255, 7)
  BY Powers DEF Bit
<1>b. /\ ~Bit(254, 0) /\ Bit(254, 1) /\ Bit(254, 2) /\ Bit(254, 3)
      /\ Bit(254, 4) /\ Bit(254, 5) /\ Bit(254, 6) /\ Bit(254, 7)
  BY Powers DEF Bit
<1>1. \A n \in 0 .. 7 : Bit(255, n)
  BY <1>0, <1>a
<1>2. \A n \in 0 .. 7 : Bit(254, n) <=> n \in 1 .. 7
  BY <1>0, <1>b
<1>3. Bit(17, 4) /\ ~Bit(104, 4) /\ ~Bit(10, 4) /\ ~Bit(10, 6)
  BY Powers DEF Bit
<1>4. Lines(255) = 0 .. 7
  BY <1>1 DEF Lines
<1>5. Lines(254) = 1 .. 7
  BY <1>2 DEF Lines
<1>. QED  BY <1>3, <1>4, <1>5

LEMMA BiosChipOK ==
  ASSUME NEW b \in Byte PROVE BiosChip(b) \in Chips
BY DEF BiosChip, Chips, Byte

LEMMA CommandOK ==
  ASSUME NEW chip \in Chips, NEW data \in Byte
  PROVE  Command(chip, data) \in Chips
<1>1. Bit(data, 5) \in BOOLEAN
  BY DEF Bit
<1>2. [BiosChip(chip.base) EXCEPT !.icw = 2] \in Chips
  BY DEF BiosChip, Chips, Byte
<1>3. [chip EXCEPT !.smm = Bit(data, 5)] \in Chips
  <2>. DEFINE b == Bit(data, 5)
  <2>. HIDE DEF b
  <2>1. b \in BOOLEAN
    BY <1>1 DEF b
  <2>2. [chip EXCEPT !.smm = b] \in Chips
    BY <2>1, Zenon DEF Chips
  <2>. QED  BY <2>2 DEF b
<1>. QED  BY <1>2, <1>3, Zenon DEF Command

LEMMA DataOK ==
  ASSUME NEW chip \in Chips, NEW data \in Byte
  PROVE  Data(chip, data) \in Chips
<1>1. [chip EXCEPT !.base = data, !.icw = 3] \in Chips
  BY DEF Chips, Byte
<1>2. [chip EXCEPT !.icw = 4] \in Chips
  BY DEF Chips
<1>3. ASSUME NEW b \in BOOLEAN
      PROVE  [chip EXCEPT !.aeoi = b, !.icw = 0] \in Chips
  BY DEF Chips
<1>4. [chip EXCEPT !.imr = Lines(data)] \in Chips
  BY DEF Chips, Lines
<1>5. [chip EXCEPT !.aeoi = Bit(data, 1), !.icw = 0] \in Chips
  <2>1. Bit(data, 1) \in BOOLEAN
    BY DEF Bit
  <2>. QED  BY <1>3, <2>1
<1>. QED  BY <1>1, <1>2, <1>4, <1>5, Zenon DEF Data

TimerOK(t) ==
  /\ t.phase \in {"counting", "low", "high"} /\ t.reload \in 0 .. MaxCount
  /\ t.phase = "high" => t.reload \in Byte

LEMMA SmallCount ==
  \A a, b \in Byte : a \in 0 .. MaxCount /\ a + 256 * b \in 0 .. MaxCount
<1>. SUFFICES ASSUME NEW a \in Byte, NEW b \in Byte
              PROVE  a \in 0 .. MaxCount /\ a + 256 * b \in 0 .. MaxCount
  OBVIOUS
<1>1. a \in Nat /\ b \in Nat /\ a <= 255 /\ b <= 255
  BY DEF Byte
<1>2. MaxCount \in Nat /\ MaxCount >= 255 * 257
  BY DEF MaxCount
<1>3. a + 256 * b \in Nat /\ a + 256 * b <= 255 * 257
  BY <1>1
<1>. QED  BY <1>1, <1>2, <1>3

LEMMA WriteTypes ==
  ASSUME ChipTypes, NEW port \in Nat, NEW data \in Byte, outb(port, data)
  PROVE  ChipTypes'
<1>1. master' \in Chips
  <2>1. Command(master, data) \in Chips /\ Data(master, data) \in Chips
        /\ master \in Chips
    BY CommandOK, DataOK DEF ChipTypes
  <2>2. master' \in {Command(master, data), Data(master, data), master}
    BY DEF outb
  <2>. QED  BY <2>1, <2>2
<1>2. slave' \in Chips
  <2>1. Command(slave, data) \in Chips /\ Data(slave, data) \in Chips
        /\ slave \in Chips
    BY CommandOK, DataOK DEF ChipTypes
  <2>2. slave' \in {Command(slave, data), Data(slave, data), slave}
    BY DEF outb
  <2>. QED  BY <2>1, <2>2
<1>3. TimerOK(timer')
  <2>1. TimerOK(timer)
    BY Zenon DEF ChipTypes, TimerOK
  <2>2. ASSUME NEW p \in {"counting", "low", "high"}, NEW n \in 0 .. MaxCount,
               p = "high" => n \in Byte
        PROVE  TimerOK([phase |-> p, reload |-> n])
    BY <2>2 DEF TimerOK
  <2>3. TimerOK([phase |-> "low", reload |-> 0])
    <3>1. 0 \in 0 .. MaxCount
      BY DEF MaxCount
    <3>. QED  BY <2>2, <3>1
  <2>4. TimerOK([phase |-> "high", reload |-> data])
    <3>1. data \in 0 .. MaxCount
      BY SmallCount
    <3>. QED  BY <2>2, <3>1
  <2>5. timer.phase = "high"
        => TimerOK([phase |-> "counting",
                             reload |-> timer.reload + 256 * data])
    <3>1. timer.phase = "high" => timer.reload \in Byte
      BY Zenon DEF ChipTypes
    <3>2. \A n \in Byte : n + 256 * data \in 0 .. MaxCount
      BY SmallCount
    <3>3. timer.phase = "high" => timer.reload + 256 * data \in 0 .. MaxCount
      BY <3>1, <3>2, Zenon
    <3>4. ASSUME NEW n \in 0 .. MaxCount
          PROVE  TimerOK([phase |-> "counting", reload |-> n])
      BY <2>2
    <3>. QED  BY <3>3, <3>4, Zenon
  <2>6. \/ timer' = [phase |-> "low", reload |-> 0]
        \/ timer' = timer
        \/ timer' = [phase |-> "high", reload |-> data]
        \/ timer.phase = "high"
           /\ timer' = [phase |-> "counting",
                         reload |-> timer.reload + 256 * data]
    <3>1. timer' \in {[phase |-> "low", reload |-> 0], Count(data), timer}
      BY DEF outb
    <3>2. \/ Count(data) = [phase |-> "high", reload |-> data]
          \/ timer.phase = "high"
             /\ Count(data) = [phase |-> "counting",
                               reload |-> timer.reload + 256 * data]
          \/ Count(data) = timer
      BY DEF Count
    <3>. QED  BY <3>1, <3>2, Zenon
  <2>. QED  BY <2>1, <2>3, <2>4, <2>5, <2>6, Zenon
<1>. QED  BY <1>1, <1>2, <1>3, Zenon DEF ChipTypes, TimerOK

OtherPorts(w) ==
  \A k \in {2, 7, 8, 9, 10, 13, 14, 16} : w[k][1] \in {160, 161}

LEMMA WritesOne ==
  ASSUME NEW w, NEW allow, TheWrites(w, allow)
  PROVE  /\ w[1] = <<33, 255>> /\ w[3] = <<32, 17>> /\ w[4] = <<33, 32>>
         /\ w[5] = <<33, 4>> /\ w[6] = <<33, 3>> /\ w[11] = <<32, 104>>
         /\ w[12] = <<32, 10>>
         /\ w[15][1] = 33 /\ w[15][2] = IF allow THEN 254 ELSE 255
         /\ OtherPorts(w)
<1>1. /\ w[15][1] = 33 /\ w[15][2] = IF allow THEN 254 ELSE 255
  <2>1. w[15] = <<33, IF allow THEN 254 ELSE 255>>
    BY DEF TheWrites
  <2>. QED  BY <2>1
<1>2. /\ w[2][1] = 161 /\ w[7][1] = 160 /\ w[8][1] = 161 /\ w[9][1] = 161
      /\ w[10][1] = 161 /\ w[13][1] = 160 /\ w[14][1] = 160 /\ w[16][1] = 161
  <2>1. /\ w[2] = <<161, 255>> /\ w[7] = <<160, 17>> /\ w[8] = <<161, 40>>
        /\ w[9] = <<161, 2>> /\ w[10] = <<161, 1>> /\ w[13] = <<160, 104>>
        /\ w[14] = <<160, 10>> /\ w[16] = <<161, 255>>
    BY DEF TheWrites
  <2>. QED  BY <2>1
<1>3. /\ w[1] = <<33, 255>> /\ w[3] = <<32, 17>> /\ w[4] = <<33, 32>>
      /\ w[5] = <<33, 4>> /\ w[6] = <<33, 3>> /\ w[11] = <<32, 104>>
      /\ w[12] = <<32, 10>>
  BY DEF TheWrites
<1>. QED  BY <1>1, <1>2, <1>3 DEF OtherPorts

(* One write further.                                                      *)
LEMMA MasterStep ==
  ASSUME allow_clock_interrupt \in BOOLEAN, UNCHANGED allow_clock_interrupt,
         master \in Chips, NEW w,
         w = interrupt_controller_init(allow_clock_interrupt),
         NEW j \in 4 .. Len(w) + 3, MasterAt(j), outb(w[j - 3][1], w[j - 3][2])
  PROVE  MasterAt(j + 1)'
<1>1. TheWrites(w, allow_clock_interrupt) /\ TimerWrites(w)
      /\ Len(w) \in 16 .. 19
  BY WritesAre
<1>. DEFINE port == w[j - 3][1]
            data == w[j - 3][2]
            icw(i) == CASE i = 7 -> 2 [] i = 8 -> 3 [] i = 9 -> 4 [] OTHER -> 0
            m == master
            n == master'
<1>2. /\ port = 32 => n = Command(m, data)
      /\ port = 33 => n = Data(m, data)
      /\ port \notin {32, 33} => n = m
  BY DEF outb, IO_PIC1
<1>3. DOMAIN m = {"icw", "base", "imr", "irr", "isr", "aeoi", "smm"}
  BY DEF Chips
<1>4. /\ m.icw = icw(j)
      /\ j >= 8 => m.base = 32
      /\ j >= 19 => m.imr = Masked
  BY DEF MasterAt, INT_HARDWARE
<1>5. SUFFICES /\ n.icw = icw(j + 1)
               /\ j + 1 >= 8 => n.base = 32
               /\ j + 1 >= 19 => n.imr = Masked
  <2>1. Masked' = Masked
    BY DEF Masked
  <2>. QED  BY <2>1 DEF MasterAt, INT_HARDWARE
<1>. HIDE DEF port, data, m, n
<1>6. CASE j \in {5, 10, 11, 12, 13, 16, 17, 19} \/ j >= 20
  <2>1. port \notin {32, 33}
    <3>1. CASE j >= 20
      <4>1. j - 3 \in 17 .. Len(w)
        BY <1>1, <3>1
      <4>2. w[j - 3] \in {64, 67} \X Byte
        BY <1>1, <4>1 DEF TimerWrites
      <4>. QED  BY <4>2 DEF port
    <3>2. CASE j \in {5, 10, 11, 12, 13, 16, 17, 19}
      <4>1. j - 3 \in {2, 7, 8, 9, 10, 13, 14, 16}
        BY <3>2
      <4>2. \A k \in {2, 7, 8, 9, 10, 13, 14, 16} : w[k][1] \in {160, 161}
        <5>1. OtherPorts(w)
          BY <1>1, WritesOne
        <5>. QED  BY <5>1 DEF OtherPorts
      <4>3. port \in {160, 161}
        BY <4>1, <4>2 DEF port
      <4>. QED  BY <4>3
    <3>. QED  BY <1>6, <3>1, <3>2
  <2>2. n = m /\ j \in Nat
    BY <1>2, <2>1
  <2>3. icw(j) = 0 /\ icw(j + 1) = 0
    BY <1>6, <2>2
  <2>4. /\ j + 1 >= 8 => j >= 8
        /\ j + 1 >= 19 => j >= 19
    BY <1>6, <2>2
  <2>. HIDE DEF Masked, icw
  <2>. QED  BY <1>4, <2>2, <2>3, <2>4
<1>7. CASE j = 4
  <2>1. port = 33 /\ data = 255
    BY <1>1, <1>7, WritesOne DEF port, data
  <2>2. n = [m EXCEPT !.imr = Lines(255)]
    BY <1>2, <1>4, <1>7, <2>1 DEF Data
  <2>3. n.icw = m.icw
    BY <1>3, <2>2
  <2>. QED  BY <1>4, <1>7, <2>3
<1>8. CASE j = 6
  <2>1. port = 32 /\ data = 17
    BY <1>1, <1>8, WritesOne DEF port, data
  <2>2. n = [BiosChip(m.base) EXCEPT !.icw = 2]
    BY <1>2, <2>1, BitsOf DEF Command
  <2>3. n.icw = 2
    BY <2>2 DEF BiosChip
  <2>. QED  BY <1>8, <2>3
<1>9. CASE j = 7
  <2>1. port = 33 /\ data = 32
    BY <1>1, <1>9, WritesOne DEF port, data
  <2>2. n = [m EXCEPT !.base = 32, !.icw = 3]
    BY <1>2, <1>4, <1>9, <2>1 DEF Data
  <2>3. n.icw = 3 /\ n.base = 32
    BY <1>3, <2>2
  <2>. QED  BY <1>9, <2>3
<1>10. CASE j = 8
  <2>1. port = 33 /\ data = 4
    BY <1>1, <1>10, WritesOne DEF port, data
  <2>2. n = [m EXCEPT !.icw = 4]
    BY <1>2, <1>4, <1>10, <2>1 DEF Data
  <2>3. n.icw = 4 /\ n.base = m.base
    BY <1>3, <2>2
  <2>. QED  BY <1>4, <1>10, <2>3
<1>11. CASE j = 9
  <2>1. port = 33 /\ data = 3
    BY <1>1, <1>11, WritesOne DEF port, data
  <2>2. n = [m EXCEPT !.aeoi = Bit(3, 1), !.icw = 0]
    BY <1>2, <1>4, <1>11, <2>1 DEF Data
  <2>3. n.icw = 0 /\ n.base = m.base
    BY <1>3, <2>2
  <2>. QED  BY <1>4, <1>11, <2>3
<1>12. CASE j \in {14, 15}
  <2>1. port = 32 /\ data \in {104, 10}
    BY <1>1, <1>12, WritesOne DEF port, data
  <2>2. n = [m EXCEPT !.smm = Bit(data, 5)] \/ n = m
    BY <1>2, <2>1, BitsOf DEF Command
  <2>3. n.icw = m.icw /\ n.base = m.base
    BY <1>3, <2>2
  <2>. QED  BY <1>4, <1>12, <2>3
<1>13. CASE j = 18
  <2>1. port = 33 /\ data = IF allow_clock_interrupt THEN 254 ELSE 255
    BY <1>1, <1>13, WritesOne DEF port, data
  <2>2. n = [m EXCEPT !.imr = Lines(data)]
    BY <1>2, <1>4, <1>13, <2>1 DEF Data
  <2>3. n.icw = m.icw /\ n.base = m.base /\ n.imr = Lines(data)
    BY <1>3, <2>2
  <2>4. Lines(data) = Masked
    BY <2>1, BitsOf DEF Masked
  <2>. QED  BY <1>4, <1>13, <2>3, <2>4
<1>. QED
  <2>1. j \in Nat /\ j >= 4
    OBVIOUS
  <2>2. \/ j \in {5, 10, 11, 12, 13, 16, 17, 19} \/ j >= 20
        \/ j = 4 \/ j = 6 \/ j = 7 \/ j = 8 \/ j = 9 \/ j \in {14, 15}
        \/ j = 18
    BY <2>1
  <2>. HIDE DEF icw
  <2>. QED  BY <2>2, <1>6, <1>7, <1>8, <1>9, <1>10, <1>11, <1>12, <1>13, Zenon

(* Devices ask, and the CPU is told of the clock only.                     *)
LEMMA RaiseKeeps ==
  ASSUME ChipTypes, NEW line \in Devices, Raise(line)
  PROVE  /\ ChipTypes' /\ master'.icw = master.icw
         /\ master'.base = master.base /\ master'.imr = master.imr
<1>1. line \in 0 .. 15
  BY MachineAssumption
<1>2. ASSUME NEW chip \in Chips, NEW r \in 0 .. 7
      PROVE  LET c == [chip EXCEPT !.irr = @ \cup {r}] IN
             c \in Chips /\ c.icw = chip.icw /\ c.base = chip.base
             /\ c.imr = chip.imr
  BY DEF Chips
<1>3. timer' = timer /\ master \in Chips /\ slave \in Chips
  BY DEF Raise, ChipTypes
<1>4. /\ master' \in Chips /\ slave' \in Chips /\ master'.icw = master.icw
      /\ master'.base = master.base /\ master'.imr = master.imr
  <2>1. CASE line < 8
    <3>1. /\ line \in 0 .. 7 /\ slave' = slave
          /\ master' = [master EXCEPT !.irr = @ \cup {line}]
      BY <1>1, <2>1 DEF Raise
    <3>. QED  BY <1>2, <1>3, <3>1
  <2>2. CASE ~(line < 8)
    <3>1. /\ line - 8 \in 0 .. 7 /\ master' = master
          /\ slave' = [slave EXCEPT !.irr = @ \cup {line - 8}]
      BY <1>1, <2>2 DEF Raise
    <3>. QED  BY <1>2, <1>3, <3>1
  <2>. QED  BY <2>1, <2>2
<1>. QED  BY <1>3, <1>4, Zenon DEF ChipTypes

LEMMA MasterKept ==
  ASSUME UNCHANGED allow_clock_interrupt, master'.icw = master.icw,
         master'.base = master.base, master'.imr = master.imr,
         NEW j, MasterAt(j)
  PROVE  MasterAt(j)'
<1>1. Masked' = Masked
  BY DEF Masked
<1>. QED  BY <1>1, Zenon DEF MasterAt

LEMMA MinOne == \A a \in Nat : Min({a}) = a
BY DEF Min

LEMMA OnlyClockReady ==
  ASSUME ChipTypes, MasterAt(19), allow_clock_interrupt \in BOOLEAN, INTR
  PROVE  allow_clock_interrupt /\ MasterReady = {0}
<1>1. master.imr = Masked /\ master.irr \subseteq 0 .. 7
  BY DEF MasterAt, ChipTypes, Chips
<1>2. MasterReady \subseteq (master.irr \cup {2}) \ master.imr
  BY DEF MasterReady, Ready, IRQ_SLAVE
<1>3. MasterReady \subseteq 0 .. 7
  BY <1>1, <1>2
<1>4. MasterReady # {}
  BY DEF INTR
<1>. HIDE DEF MasterReady
<1>5. ASSUME NEW r \in MasterReady PROVE r = 0 /\ allow_clock_interrupt
  <2>1. r \in 0 .. 7 /\ r \notin Masked
    BY <1>1, <1>2, <1>3
  <2>. QED  BY <2>1 DEF Masked
<1>. QED  BY <1>4, <1>5

(* The same as far as the vectors and masks go. *)
Alike(c, chip) ==
  c \in Chips /\ c.icw = chip.icw /\ c.base = chip.base /\ c.imr = chip.imr

LEMMA AcknowledgeClock ==
  ASSUME ChipTypes, MasterAt(19), allow_clock_interrupt \in BOOLEAN,
         UNCHANGED allow_clock_interrupt, NEW n, Acknowledge(n)
  PROVE  /\ allow_clock_interrupt /\ n = INT_CLOCK
         /\ ChipTypes' /\ MasterAt(19)'
<1>1. allow_clock_interrupt /\ MasterReady = {0}
  BY OnlyClockReady DEF Acknowledge
<1>2. Min(MasterReady) = 0
  BY <1>1, MinOne
<1>3. /\ master' = Serve(master, 0) /\ n = master.base + 0
      /\ slave' = slave /\ timer' = timer
  BY <1>2 DEF Acknowledge, IRQ_SLAVE
<1>4. n = INT_CLOCK
  BY <1>3 DEF MasterAt, INT_HARDWARE, INT_CLOCK
<1>5. ASSUME NEW chip \in Chips
      PROVE  Alike(Serve(chip, 0), chip)
  <2>1. ASSUME NEW b \in SUBSET (0 .. 7), NEW d \in SUBSET (0 .. 7)
        PROVE  Alike([chip EXCEPT !.irr = b, !.isr = d], chip)
    BY DEF Chips, Alike
  <2>2. chip.irr \in SUBSET (0 .. 7) /\ chip.isr \in SUBSET (0 .. 7)
    BY DEF Chips
  <2>. DEFINE b == chip.irr \ {0}
              d == IF chip.aeoi THEN chip.isr ELSE chip.isr \cup {0}
  <2>3. b \in SUBSET (0 .. 7) /\ d \in SUBSET (0 .. 7)
    BY <2>2
  <2>4. Serve(chip, 0) = [chip EXCEPT !.irr = b, !.isr = d]
    BY DEF Serve, Chips
  <2>. HIDE DEF b, d
  <2>. QED  BY <2>1, <2>3, <2>4
<1>6. master \in Chips
  BY DEF ChipTypes
<1>7. /\ master' \in Chips /\ master'.icw = master.icw
      /\ master'.base = master.base /\ master'.imr = master.imr
  BY <1>3, <1>5, <1>6 DEF Alike
<1>8. ChipTypes'
  BY <1>3, <1>7, Zenon DEF ChipTypes
<1>. QED  BY <1>1, <1>4, <1>7, <1>8, MasterKept

-----------------------------------------------------------------------------
(***************************************************************************)
(* From the operation that is next to the place; start(), step by step.    *)
(***************************************************************************)
(* From the operation to the place. *)
BootPlace(j, n) ==
  /\ n \in 20 .. 23 /\ Len(start(allow_clock_interrupt)) = n /\ j \in 1 .. n
  /\ n = Len(interrupt_controller_init(allow_clock_interrupt)) + 4
  /\ Starting(j)
  /\ Tail(code) = Suffix(start(allow_clock_interrupt), j + 1)
  /\ Op = "lgdt" => j = 1
  /\ Op = "ltr" => j = 2 /\ Arg = SEGSEL_TASKSTATE
  /\ Op = "lidt" => j = 3
  /\ Op = "outb" =>
       j \in 4 .. n - 1
       /\ Arg = interrupt_controller_init(allow_clock_interrupt)[j - 3]
  /\ Op = "init_processes" => j = n /\ Arg = First

LEMMA Booting ==
  ASSUME MInv, ~UserMode, Op \in BootOperations
  PROVE  \E j, n : BootPlace(j, n)
<1>1. InStart /\ allow_clock_interrupt \in BOOLEAN
  BY Place, Known
<1>2. PICK j \in 1 .. Len(start(allow_clock_interrupt)) : Starting(j)
  BY <1>1 DEF InStart
<1>. DEFINE w == interrupt_controller_init(allow_clock_interrupt)
            n == Len(w) + 4
<1>3. Len(start(allow_clock_interrupt)) = n
  BY <1>1, StartIs
<1>4. Len(w) \in 16 .. 19
  BY <1>1, WritesAre
<1>5. StartNext(code, allow_clock_interrupt, j)
  BY <1>1, <1>2, StartingHere
<1>6. /\ Tail(code) = Suffix(start(allow_clock_interrupt), j + 1)
      /\ j = 1 => Op = "lgdt"
      /\ j = 2 => Op = "ltr" /\ Arg = SEGSEL_TASKSTATE
      /\ j = 3 => Op = "lidt"
      /\ j > 3 /\ j < n => Op = "outb" /\ Arg = w[j - 3]
      /\ j = n => Op = "init_processes" /\ Arg = First
  BY <1>5, Zenon DEF StartNext, Op, Arg
<1>. HIDE DEF w
<1>7. n \in 20 .. 23
  <2>1. \A m \in 16 .. 19 : m + 4 \in 20 .. 23
    OBVIOUS
  <2>. QED  BY <1>4, <2>1
<1>. HIDE DEF n
<1>8. j \in 1 .. n
  BY <1>2, <1>3
<1>9. \/ j = 1 \/ j = 2 \/ j = 3 \/ j = n
      \/ (j > 3 /\ j < n /\ j \in 4 .. n - 1)
  BY <1>7, <1>8
<1>10. /\ Op = "lgdt" => j = 1
       /\ Op = "ltr" => j = 2 /\ Arg = SEGSEL_TASKSTATE
       /\ Op = "lidt" => j = 3
       /\ Op = "outb" => j \in 4 .. n - 1 /\ Arg = w[j - 3]
       /\ Op = "init_processes" => j = n /\ Arg = First
  BY <1>6, <1>9
<1>11. BootPlace(j, n)
  BY <1>2, <1>3, <1>6, <1>7, <1>8, <1>10, Zenon DEF BootPlace, n, w
<1>. QED  BY <1>11

StubPlace(k, x) ==
  /\ k \in 0 .. 6 /\ x \in 0 .. 255 /\ InStub(k, x)
  /\ k <= 5 => Tail(code) = StubCode(k + 1, x)
  /\ LastOperation = "interrupt"
  /\ Op = "push" => (k = 0 /\ Arg = 0) \/ (k = 1 /\ Arg = x)
  /\ Op = "push_register" => (k = 2 /\ Arg = "ds") \/ (k = 3 /\ Arg = "es")
  /\ Op = "pushal" => k = 4
  /\ Op = "load_kernel_data" => k = 5 /\ Arg = SEGSEL_KERN_DATA
  /\ Op = "interrupt" => k = 6

LEMMA Stubbing ==
  ASSUME MInv, ~UserMode, Op \in StubOperations
  PROVE  \E k, x : StubPlace(k, x)
<1>1. PICK k \in 0 .. 6, x \in 0 .. 255 : InStub(k, x)
  BY Place
<1>2. StubNext(code, k, x)
  BY <1>1, StubHere
<1>3. /\ k <= 5 => Tail(code) = StubCode(k + 1, x)
      /\ LastOperation = "interrupt"
      /\ k = 0 => Op = "push" /\ Arg = 0
      /\ k = 1 => Op = "push" /\ Arg = x
      /\ k = 2 => Op = "push_register" /\ Arg = "ds"
      /\ k = 3 => Op = "push_register" /\ Arg = "es"
      /\ k = 4 => Op = "pushal"
      /\ k = 5 => Op = "load_kernel_data" /\ Arg = SEGSEL_KERN_DATA
      /\ k = 6 => Op = "interrupt"
  BY <1>2, Zenon DEF StubNext, Op, Arg, LastOperation
<1>4. k = 0 \/ k = 1 \/ k = 2 \/ k = 3 \/ k = 4 \/ k = 5 \/ k = 6
  BY <1>1
<1>5. /\ Op = "push" => (k = 0 /\ Arg = 0) \/ (k = 1 /\ Arg = x)
      /\ Op = "push_register" => (k = 2 /\ Arg = "ds") \/ (k = 3 /\ Arg = "es")
      /\ Op = "pushal" => k = 4
      /\ Op = "load_kernel_data" => k = 5 /\ Arg = SEGSEL_KERN_DATA
      /\ Op = "interrupt" => k = 6
  BY <1>3, <1>4, Zenon
<1>6. StubPlace(k, x)
  BY <1>1, <1>3, <1>5, Zenon DEF StubPlace
<1>. QED  BY <1>6

RunPlace(k) ==
  /\ k \in 1 .. 6 /\ InRun(k)
  /\ Tail(code) = Suffix(RunCode(current), k + 1)
  /\ LastOperation = "iret"
  /\ Op = "load_esp" => k = 1 /\ Arg = current
  /\ Op = "popal" => k = 2
  /\ Op = "pop_register" => (k = 3 /\ Arg = "es") \/ (k = 4 /\ Arg = "ds")
  /\ Op = "add_esp" => k = 5 /\ Arg = 2
  /\ Op = "iret" => k = 6

LEMMA Running ==
  ASSUME MInv, ~UserMode, Op \in RunOperations
  PROVE  \E k : RunPlace(k)
<1>1. PICK k \in 1 .. 6 : InRun(k)
  BY Place
<1>2. RunNext(code, current, k)
  BY <1>1, RunHere, Known
<1>3. /\ Tail(code) = Suffix(RunCode(current), k + 1)
      /\ LastOperation = "iret"
      /\ k = 1 => Op = "load_esp" /\ Arg = current
      /\ k = 2 => Op = "popal"
      /\ k = 3 => Op = "pop_register" /\ Arg = "es"
      /\ k = 4 => Op = "pop_register" /\ Arg = "ds"
      /\ k = 5 => Op = "add_esp" /\ Arg = 2
      /\ k = 6 => Op = "iret"
  BY <1>2, Zenon DEF RunNext, Op, Arg, LastOperation
<1>4. k = 1 \/ k = 2 \/ k = 3 \/ k = 4 \/ k = 5 \/ k = 6
  BY <1>1
<1>5. /\ Op = "load_esp" => k = 1 /\ Arg = current
      /\ Op = "popal" => k = 2
      /\ Op = "pop_register" => (k = 3 /\ Arg = "es") \/ (k = 4 /\ Arg = "ds")
      /\ Op = "add_esp" => k = 5 /\ Arg = 2
      /\ Op = "iret" => k = 6
  BY <1>3, <1>4, Zenon
<1>6. RunPlace(k)
  BY <1>1, <1>3, <1>5, Zenon DEF RunPlace
<1>. QED  BY <1>6

-----------------------------------------------------------------------------
(* start() *)

LEMMA SameChips ==
  ASSUME UNCHANGED bus, ChipTypes PROVE ChipTypes'
BY Zenon DEF bus, ChipTypes

LEMMA LoadTablesKeeps ==
  ASSUME MInv, LoadTables
  PROVE  /\ Types' /\ Control' /\ trap' = trap
         /\ code' = Tail(code) /\ current' = current
<1>1. ~UserMode /\ Op \in {"lgdt", "ltr", "lidt"}
  BY DEF LoadTables, At, Op
<1>2. PICK j, n : BootPlace(j, n)
  BY <1>1, Booting DEF BootOperations
<1>. DEFINE table == IF j = 1 THEN "gdt" ELSE IF j = 2 THEN "tr" ELSE "idt"
<1>3. j \in 1 .. 3 /\ Load(table) /\ Starting(j) /\ n >= 20
  <2>1. j \in 1 .. 3 /\ Starting(j) /\ n >= 20
    BY <1>1, <1>2 DEF BootPlace
  <2>2. At("lgdt") => j = 1
    BY <1>2 DEF At, Op, BootPlace
  <2>3. At("lidt") => j = 3
    BY <1>2 DEF At, Op, BootPlace
  <2>4. At("ltr") => j = 2 /\ "gdt" \in loaded /\ TaskLoadable(Arg)
    <3>1. At("ltr") => j = 2 /\ Arg = SEGSEL_TASKSTATE
      BY <1>2 DEF At, Op, BootPlace
    <3>2. j = 2 => loaded = {"gdt"}
      BY <2>1 DEF Starting, LoadedAt
    <3>. QED  BY <3>1, <3>2, Loadable
  <2>. QED  BY <2>1, <2>2, <2>3, <2>4 DEF LoadTables
<1>4. /\ loaded' = loaded \cup {table} /\ code' = Tail(code)
      /\ UNCHANGED <<allow_clock_interrupt, bus, cpu, stack, current,
                     p_registers, trap>>
  BY <1>3 DEF Load, Continue
<1>. HIDE DEF table
<1>5. loaded' = LoadedAt(j + 1)
  <2>1. loaded = LoadedAt(j)
    BY <1>3 DEF Starting
  <2>2. LoadedAt(j) \cup {table} = LoadedAt(j + 1)
    <3>1. CASE j = 1
      BY <3>1 DEF LoadedAt, table
    <3>2. CASE j = 2
      BY <3>2 DEF LoadedAt, table
    <3>3. CASE j = 3
      BY <3>3 DEF LoadedAt, table, Tables
    <3>. QED  BY <1>3, <3>1, <3>2, <3>3
  <2>. QED  BY <1>4, <2>1, <2>2
<1>6. MasterAt(j + 1)'
  <2>1. MasterAt(j)
    BY <1>3 DEF Starting
  <2>2. MasterAt(j + 1)
    BY <1>3, <2>1 DEF MasterAt
  <2>3. master' = master /\ allow_clock_interrupt' = allow_clock_interrupt
    BY <1>4 DEF bus
  <2>. QED  BY <2>2, <2>3, MasterKept
<1>7. Starting(j + 1)'
  <2>1. code' = Suffix(start(allow_clock_interrupt), j + 1)
    BY <1>2, <1>4, Zenon DEF BootPlace
  <2>2. stack' = << >> /\ trap'.n = INT_CLOCK /\ current' = First
    BY <1>3, <1>4 DEF Starting
  <2>. QED  BY <1>4, <1>5, <1>6, <2>1, <2>2, Zenon DEF Starting
<1>8. InStart'
  <2>1. Len(start(allow_clock_interrupt))' = n /\ n \in 20 .. 23
    BY <1>2, <1>4, Zenon DEF BootPlace
  <2>2. j + 1 \in 1 .. n
    BY <1>3, <2>1
  <2>. QED  BY <1>7, <2>1, <2>2, Zenon DEF InStart
<1>9. Types'
  <2>1. loaded' \subseteq Tables
    BY <1>5 DEF LoadedAt, Tables
  <2>2. ChipTypes'
    BY <1>4, SameChips DEF MInv, Types
  <2>3. OtherTypes'
    BY <1>4, <2>1 DEF MInv, Types, OtherTypes
  <2>4. CpuTypes' /\ StackTypes' /\ DescriptorTypes'
    BY <1>4, Zenon DEF MInv, Types, CpuTypes, StackTypes, DescriptorTypes
  <2>. QED  BY <2>2, <2>3, <2>4 DEF Types
<1>. QED  BY <1>4, <1>8, <1>9 DEF Control

LEMMA PortWriteKeeps ==
  ASSUME MInv, PortWrite
  PROVE  /\ Types' /\ Control' /\ trap' = trap
         /\ code' = Tail(code) /\ current' = current
<1>1. ~UserMode /\ Op = "outb"
  BY DEF PortWrite, At, Op
<1>2. PICK j, n : BootPlace(j, n)
  BY <1>1, Booting DEF BootOperations
<1>. DEFINE w == interrupt_controller_init(allow_clock_interrupt)
<1>3. j \in 4 .. n - 1 /\ Arg = w[j - 3] /\ Starting(j) /\ n \in 20 .. 23
      /\ n = Len(w) + 4
  BY <1>1, <1>2, Zenon DEF BootPlace
<1>4. /\ outb(Arg[1], Arg[2]) /\ code' = Tail(code)
      /\ UNCHANGED <<allow_clock_interrupt, cpu, stack, loaded, current,
                     p_registers, trap>>
  BY DEF PortWrite, Continue
<1>5. allow_clock_interrupt \in BOOLEAN
  BY Known
<1>6. w \in Seq(Nat \X Byte) /\ Len(w) \in 16 .. 19
  BY <1>5, WritesAre
<1>. HIDE DEF w
<1>7. j \in 4 .. Len(w) + 3 /\ j - 3 \in 1 .. Len(w) /\ j + 1 \in 1 .. n
  BY <1>3, <1>6
<1>8. Arg[1] \in Nat /\ Arg[2] \in Byte
  <2>1. w[j - 3] \in Nat \X Byte
    BY <1>6, <1>7, ElementOfSeq
  <2>. QED  BY <1>3, <2>1
<1>9. ChipTypes /\ ChipTypes'
  BY <1>4, <1>8, WriteTypes DEF MInv, Types
<1>10. MasterAt(j + 1)'
  <2>1. master \in Chips /\ MasterAt(j)
    BY <1>3, <1>9 DEF ChipTypes, Starting
  <2>2. outb(w[j - 3][1], w[j - 3][2])
    BY <1>3, <1>4
  <2>3. w = interrupt_controller_init(allow_clock_interrupt)
    BY DEF w
  <2>4. UNCHANGED allow_clock_interrupt
    BY <1>4
  <2>. QED  BY <1>5, <1>7, <2>1, <2>2, <2>3, <2>4, MasterStep
<1>11. Starting(j + 1)'
  <2>1. code' = Suffix(start(allow_clock_interrupt), j + 1)
    BY <1>2, <1>4, Zenon DEF BootPlace
  <2>2. stack' = << >> /\ trap'.n = INT_CLOCK /\ current' = First
    BY <1>3, <1>4 DEF Starting
  <2>3. loaded' = LoadedAt(j + 1)
    <3>1. loaded = Tables
      BY <1>3 DEF Starting, LoadedAt
    <3>. QED  BY <1>3, <1>4, <3>1 DEF LoadedAt
  <2>. QED  BY <1>4, <1>10, <2>1, <2>2, <2>3, Zenon DEF Starting
<1>12. InStart'
  <2>1. Len(start(allow_clock_interrupt))' = n
    BY <1>2, <1>4, Zenon DEF BootPlace
  <2>. QED  BY <1>7, <1>11, <2>1, Zenon DEF InStart
<1>13. Types'
  <2>1. OtherTypes' /\ CpuTypes' /\ StackTypes' /\ DescriptorTypes'
    BY <1>4, Zenon DEF MInv, Types, OtherTypes, CpuTypes, StackTypes,
       DescriptorTypes
  <2>. QED  BY <1>9, <2>1 DEF Types
<1>. QED  BY <1>4, <1>12, <1>13 DEF Control

LEMMA InitProcessesKeeps ==
  ASSUME MInv, InitProcesses PROVE Types' /\ Control' /\ trap' = trap
<1>1. ~UserMode /\ Op = "init_processes"
  BY DEF InitProcesses, At, Op
<1>2. PICK j, n : BootPlace(j, n)
  BY <1>1, Booting DEF BootOperations
<1>3. j = n /\ Arg = First /\ Starting(j) /\ n >= 20
  BY <1>1, <1>2 DEF BootPlace
<1>4. /\ p_registers' = [p \in Procs |-> InitialFrame] /\ current' = First
      /\ code' = RunCode(First)
      /\ UNCHANGED <<allow_clock_interrupt, bus, cpu, stack, loaded, trap>>
  BY <1>3 DEF InitProcesses
<1>5. First \in Procs
  BY MachineAssumption
<1>6. Settled'
  <2>1. loaded' = Tables
    BY <1>3, <1>4 DEF Starting, LoadedAt
  <2>2. MasterAt(19)'
    <3>1. MasterAt(19)
      <4>1. MasterAt(j) /\ j >= 20 /\ j \in Nat
        BY <1>2, <1>3 DEF Starting, BootPlace
      <4>. QED  BY <4>1 DEF MasterAt
    <3>2. master' = master /\ allow_clock_interrupt' = allow_clock_interrupt
      BY <1>4 DEF bus
    <3>. QED  BY <3>1, <3>2, MasterKept
  <2>3. ASSUME NEW p \in Procs PROVE Saved(p)'
    <3>1. p_registers'[p] = InitialFrame
      BY <1>4
    <3>. QED  BY <3>1, InitialFrameIs DEF Saved
  <2>. QED  BY <2>1, <2>2, <2>3 DEF Settled
<1>7. InRun(1)'
  <2>1. code' = Suffix(RunCode(current'), 1)
    BY <1>4, <1>5, RunCodeEnds
  <2>2. trap'.n \in Cases
    BY <1>3, <1>4 DEF Starting, Cases
  <2>. QED  BY <2>1, <2>2 DEF InRun
<1>8. Kernel'
  <2>1. 1 \in 1 .. 6
    OBVIOUS
  <2>. QED  BY <1>7, <2>1 DEF Kernel
<1>9. Types'
  <2>1. ChipTypes'
    BY <1>4, SameChips DEF MInv, Types
  <2>2. OtherTypes' /\ CpuTypes' /\ StackTypes'
    BY <1>4, <1>5, Zenon DEF MInv, Types, OtherTypes, CpuTypes, StackTypes
  <2>3. DescriptorTypes'
    BY <1>4, InitialFrameIs DEF DescriptorTypes
  <2>. QED  BY <2>1, <2>2, <2>3 DEF Types
<1>. QED  BY <1>4, <1>6, <1>8, <1>9 DEF Control

-----------------------------------------------------------------------------
(***************************************************************************)
(* Into the kernel: what the CPU pushes, and the stub the gate leads to.   *)
(***************************************************************************)
LEMMA UserPlace ==
  ASSUME MInv, UserMode PROVE Settled /\ InUser
<1>1. ~InStart
  <2>1. ASSUME NEW j \in 1 .. Len(start(allow_clock_interrupt)), Starting(j)
        PROVE  FALSE
    <3>1. StartNext(code, allow_clock_interrupt, j)
      BY <2>1, Known, StartingHere
    <3>. QED  BY <3>1, Zenon DEF StartNext, UserMode
  <2>. QED  BY <2>1 DEF InStart
<1>2. ASSUME NEW k \in 0 .. 6, NEW x \in 0 .. 255, InStub(k, x) PROVE FALSE
  <2>1. StubNext(code, k, x)
    BY <1>2, StubHere
  <2>. QED  BY <2>1, Zenon DEF StubNext, UserMode
<1>3. ASSUME NEW k \in 1 .. 6, InRun(k) PROVE FALSE
  <2>1. RunNext(code, current, k)
    BY <1>3, Known, RunHere
  <2>. QED  BY <2>1, Zenon DEF RunNext, UserMode
<1>4. ~InSchedule /\ ~Stopped
  BY ScheduleHere, StoppedHere
<1>. QED  BY <1>1, <1>2, <1>3, <1>4 DEF MInv, Control, Kernel

LEMMA OnTheStackIs ==
  ASSUME NEW r \in Registers
  PROVE  OnTheStack(r) = IF Len(stack) - (17 - Offset(r)) >= 1
                         THEN stack[Len(stack) - (17 - Offset(r))] ELSE cpu[r]
BY Layout DEF OnTheStack

(* What the CPU pushes.                                                    *)
LEMMA FiveWords ==
  ASSUME NEW S, NEW a \in S, NEW b \in S, NEW c \in S, NEW d \in S,
         NEW e \in S,
         NEW error \in Seq(S), NEW n \in Nat, Len(error) = n
  PROVE  LET s == error \o <<a, b, c>> \o <<d, e>> IN
         /\ s \in Seq(S) /\ Len(s) = n + 5
         /\ s[n + 1] = a /\ s[n + 2] = b /\ s[n + 3] = c
         /\ s[n + 4] = d /\ s[n + 5] = e
<1>. DEFINE t == <<a, b, c>>
            u == <<d, e>>
            et == error \o t
            s == et \o u
<1>1. /\ t \in Seq(S) /\ Len(t) = 3 /\ t[1] = a /\ t[2] = b /\ t[3] = c
      /\ u \in Seq(S) /\ Len(u) = 2 /\ u[1] = d /\ u[2] = e
  OBVIOUS
<1>. HIDE DEF t, u, et
<1>2. et \in Seq(S) /\ Joins(et, error, n, t, 3)
  <2>1. 3 \in Nat
    OBVIOUS
  <2>. QED  BY <1>1, <2>1, Join DEF et
<1>. HIDE DEF s
<1>3. s \in Seq(S) /\ Joins(s, et, n + 3, u, 2)
  <2>1. n + 3 \in Nat /\ 2 \in Nat /\ Len(et) = n + 3
    BY <1>2 DEF Joins
  <2>. QED  BY <1>1, <1>2, <2>1, Join DEF s
<1>4. /\ et[n + 1] = a /\ et[n + 2] = b /\ et[n + 3] = c
  BY <1>1, <1>2 DEF Joins
<1>5. /\ s[n + 1] = a /\ s[n + 2] = b /\ s[n + 3] = c
  <2>1. n + 1 \in 1 .. n + 3 /\ n + 2 \in 1 .. n + 3 /\ n + 3 \in 1 .. n + 3
    OBVIOUS
  <2>. QED  BY <1>3, <1>4, <2>1 DEF Joins
<1>6. s[n + 4] = d /\ s[n + 5] = e /\ Len(s) = n + 5
  <2>1. s[(n + 3) + 1] = u[1] /\ s[(n + 3) + 2] = u[2] /\ Len(s) = (n + 3) + 2
    BY <1>3 DEF Joins
  <2>2. (n + 3) + 1 = n + 4 /\ (n + 3) + 2 = n + 5
    OBVIOUS
  <2>. QED  BY <1>1, <2>1, <2>2
<1>. QED  BY <1>3, <1>5, <1>6 DEF s, et, t, u

LEMMA HandlerIs ==
  ASSUME NEW n \in 0 .. 255
  PROVE  LET h == Handler(interrupt_descriptors(n).gd_off, n) IN
         \/ n \in {32} \cup 48 .. 57 /\ h = StubCode(0, n)
         \/ n \notin {32} \cup 48 .. 57 /\ h = StubCode(1, 0)
<1>1. /\ n = 32 => interrupt_descriptors(n).gd_off = "clock_int_handler"
      /\ n \in 48 .. 57 => interrupt_descriptors(n).gd_off = "sys_int_handler"
      /\ n \notin {32} \cup 48 .. 57
         => interrupt_descriptors(n).gd_off = "default_int_handler"
  BY DEF interrupt_descriptors, SETGATE, INT_CLOCK, INT_SYS_YIELD
<1>2. /\ \A m : Handler("sys_int_handler", m) = StubCode(0, m)
      /\ \A m : Handler("clock_int_handler", m) = StubCode(0, 32)
      /\ \A m : Handler("default_int_handler", m) = StubCode(1, 0)
  <2>1. ASSUME NEW m
        PROVE  /\ StubCode(0, m) = << <<"push", 0>>, <<"push", m>> >>
                                     \o generic_int_handler
               /\ StubCode(1, m) = << <<"push", m>> >> \o generic_int_handler
    BY DEF StubCode
  <2>2. ASSUME NEW m
        PROVE  Handler("sys_int_handler", m)
                 = << <<"push", 0>>, <<"push", m>> >> \o generic_int_handler
    BY DEF Handler
  <2>3. ASSUME NEW m
        PROVE  Handler("clock_int_handler", m)
                 = << <<"push", 0>>, <<"push", 32>> >> \o generic_int_handler
    BY DEF Handler
  <2>4. ASSUME NEW m
        PROVE  Handler("default_int_handler", m)
                 = << <<"push", 0>> >> \o generic_int_handler
    BY DEF Handler
  <2>. QED  BY <2>1, <2>2, <2>3, <2>4, Zenon
<1>. QED  BY <1>1, <1>2

(* A process is interrupted, makes a system call or an exception.          *)
EntryOK(n, error) ==
  /\ n \in 0 .. 255
  /\ \/ error = << >>
     \/ n = INT_GP /\ \E e \in 0 .. MaxError : error = <<Number(e)>>

Enters(n) ==
  /\ code' = Handler(interrupt_descriptors(n).gd_off, n)
  /\ cpu'.eip = <<"eip", Junk>> /\ cpu'.esp = <<"esp", Junk>>
  /\ cpu'.cs = Selector(SEGSEL_KERN_CODE)
  /\ cpu'.ss = Selector(SEGSEL_KERN_DATA)
  /\ cpu'.eflags = Flags(Junk, FALSE)
  /\ \A r \in Registers \ {"eip", "esp", "cs", "ss", "eflags"} :
       cpu'[r] = cpu[r]
  /\ DOMAIN cpu' = Registers /\ cpu' = [r \in Registers |-> cpu'[r]]

LEMMA Entering ==
  ASSUME MInv, UserMode, NEW n, NEW error, NEW by, Deliver(n, error, by)
  PROVE  /\ Enters(n)
         /\ stack' = error \o <<cpu.eip, cpu.cs, cpu.eflags>>
                           \o <<cpu.esp, cpu.ss>>
<1>1. Settled /\ InUser
  BY UserPlace
<1>2. GateUsable(n)
  BY <1>1, Gates DEF Settled
<1>3. UserLike(cpu)
  BY <1>1, UserFacts DEF InUser
<1>4. Cpl = 3
  BY <1>3 DEF Cpl, UserLike, Selector, Rpl, AppCode, SEGSEL_APP_CODE
<1>5. stack' = error \o <<cpu.eip, cpu.cs, cpu.eflags>> \o <<cpu.esp, cpu.ss>>
  <2>1. (Cpl > 0) = TRUE
    BY <1>4
  <2>. QED  BY <1>2, <2>1, Zenon DEF Deliver
<1>6. /\ interrupt_descriptors(n).gd_ss = SEGSEL_KERN_CODE
      /\ (interrupt_descriptors(n).gd_type = STS_TG32) = FALSE
      /\ kernel_task_descriptor.ts_ss0 = SEGSEL_KERN_DATA
  BY DEF interrupt_descriptors, SETGATE, STS_TG32, STS_IG32,
     kernel_task_descriptor
<1>7. /\ code' = Handler(interrupt_descriptors(n).gd_off, n)
      /\ cpu' = [cpu EXCEPT !.cs = Selector(SEGSEL_KERN_CODE),
                            !.ss = Selector(SEGSEL_KERN_DATA),
                            !.eip = <<"eip", Junk>>, !.esp = <<"esp", Junk>>,
                            !.eflags = Flags(Junk, FALSE)]
  BY <1>2, <1>6 DEF Deliver
<1>8. DOMAIN cpu = Registers /\ {"eip", "esp", "cs", "ss", "eflags"}
      \subseteq Registers
  BY <1>3, RegistersAre DEF UserLike
<1>. DEFINE a == Selector(SEGSEL_KERN_CODE)
            b == Selector(SEGSEL_KERN_DATA)
            c == <<"eip", Junk>>
            d == <<"esp", Junk>>
            e == Flags(Junk, FALSE)
            m == [cpu EXCEPT !.cs = a, !.ss = b, !.eip = c, !.esp = d,
                             !.eflags = e]
<1>. HIDE DEF a, b, c, d, e
<1>9. /\ m.cs = a /\ m.ss = b /\ m.eip = c /\ m.esp = d /\ m.eflags = e
      /\ \A r \in Registers \ {"eip", "esp", "cs", "ss", "eflags"} :
           m[r] = cpu[r]
      /\ DOMAIN m = Registers /\ m = [r \in Registers |-> m[r]]
  BY <1>8
<1>10. cpu' = m
  BY <1>7 DEF a, b, c, d, e
<1>. HIDE DEF m
<1>11. Enters(n)
  BY <1>7, <1>9, <1>10, Zenon DEF Enters, a, b, c, d, e
<1>. QED  BY <1>5, <1>11

LEMMA CasesAre == Cases = {32} \cup 48 .. 53
BY DEF Cases, INT_CLOCK, INT_SYS_YIELD

LEMMA KernelWords ==
  /\ \A r \in Registers : <<r, Junk>> \in Words
  /\ Flags(Junk, FALSE) \in Words
  /\ Selector(SEGSEL_KERN_CODE) \in Words
  /\ Selector(SEGSEL_KERN_DATA) \in Words
<1>1. Junk \in Values \cup {Junk}
  OBVIOUS
<1>2. SEGSEL_KERN_CODE \in 0 .. 255 /\ SEGSEL_KERN_DATA \in 0 .. 255
  BY DEF SEGSEL_KERN_CODE, SEGSEL_KERN_DATA
<1>3. \A r \in Registers : <<r, Junk>> \in Words
  BY <1>1, WordKinds, Zenon
<1>4. Flags(Junk, FALSE) \in Words
  BY <1>1, WordKinds
<1>5. Selector(SEGSEL_KERN_CODE) \in Words
      /\ Selector(SEGSEL_KERN_DATA) \in Words
  BY <1>2, WordKinds
<1>. QED  BY <1>3, <1>4, <1>5

(* The stack and the registers after the entry.                            *)
LEMMA EntryStack ==
  ASSUME MInv, UserMode, NEW n, NEW error, NEW by, EntryOK(n, error),
         Deliver(n, error, by)
  PROVE  /\ stack' \in Seq(Words) /\ Len(stack') \in {5, 6}
         /\ error = << >> => /\ Len(stack') = 5
                             /\ \A r \in Registers : OnTheStack(r)' = cpu[r]
<1>1. Settled /\ InUser /\ UserLike(cpu)
  BY UserPlace, UserFacts DEF InUser
<1>2. /\ cpu.eip \in Words /\ cpu.cs \in Words /\ cpu.eflags \in Words
      /\ cpu.esp \in Words /\ cpu.ss \in Words
  <2>. HIDE DEF Words
  <2>. QED  BY <1>1, RegistersAre DEF UserLike
<1>3. /\ error \in Seq(Words) /\ Len(error) \in {0, 1}
      /\ error = << >> => Len(error) = 0
  <2>1. \A e \in 0 .. MaxError : Number(e) \in Words
    BY WordKinds
  <2>. HIDE DEF Words
  <2>2. CASE error = << >>
    BY <2>2
  <2>3. CASE \E e \in 0 .. MaxError : error = <<Number(e)>>
    BY <2>1, <2>3
  <2>. QED  BY <2>2, <2>3 DEF EntryOK
<1>4. stack' = error \o <<cpu.eip, cpu.cs, cpu.eflags>> \o <<cpu.esp, cpu.ss>>
  BY Entering
<1>. DEFINE m == Len(error)
<1>5. m \in {0, 1} /\ (error = << >> => m = 0) /\ m \in Nat
  BY <1>3
<1>. HIDE DEF m
<1>6. /\ stack' \in Seq(Words) /\ Len(stack') = m + 5
      /\ stack'[m + 1] = cpu.eip /\ stack'[m + 2] = cpu.cs
      /\ stack'[m + 3] = cpu.eflags /\ stack'[m + 4] = cpu.esp
      /\ stack'[m + 5] = cpu.ss
  <2>1. Len(error) = m
    BY DEF m
  <2>2. error \in Seq(Words)
    BY <1>3
  <2>. HIDE DEF Words
  <2>. QED  BY <1>2, <1>4, <1>5, <2>1, <2>2, FiveWords
<1>7. ASSUME error = << >>, NEW r \in Registers PROVE OnTheStack(r)' = cpu[r]
  <2>1. m = 0
    BY <1>5, <1>7
  <2>2. /\ Len(stack') = 5
        /\ stack'[1] = cpu.eip /\ stack'[2] = cpu.cs /\ stack'[3] = cpu.eflags
        /\ stack'[4] = cpu.esp /\ stack'[5] = cpu.ss
    BY <1>6, <2>1
  <2>3. OnTheStack(r)' = IF Offset(r) - 12 >= 1 THEN stack'[Offset(r) - 12]
                                                ELSE cpu'[r]
    <3>1. OnTheStack(r)' = IF Len(stack') - (17 - Offset(r)) >= 1
                           THEN stack'[Len(stack') - (17 - Offset(r))]
                           ELSE cpu'[r]
      BY Layout DEF OnTheStack
    <3>2. Offset(r) \in 1 .. 17
      BY OffsetFacts DEF Registers
    <3>3. 5 - (17 - Offset(r)) = Offset(r) - 12
      BY <3>2
    <3>. QED  BY <2>2, <3>1, <3>3
  <2>4. CASE r \in {"eip", "cs", "eflags", "esp", "ss"}
    BY <2>2, <2>3, <2>4, Offsets
  <2>5. CASE r \notin {"eip", "cs", "eflags", "esp", "ss"}
    <3>1. Offset(r) \in 1 .. 10
      BY <2>5, RegistersAre, Offsets
    <3>2. cpu'[r] = cpu[r]
      BY <2>5, Entering DEF Enters
    <3>. QED  BY <2>3, <3>1, <3>2
  <2>. QED  BY <2>4, <2>5
<1>8. Len(stack') \in {5, 6} /\ (error = << >> => Len(stack') = 5)
  BY <1>5, <1>6
<1>. QED  BY <1>6, <1>7, <1>8

LEMMA EntryCpu ==
  ASSUME MInv, UserMode, NEW n, NEW error, NEW by, Deliver(n, error, by)
  PROVE  CpuTypes'
<1>1. UserLike(cpu)
  BY UserPlace, UserFacts DEF InUser
<1>2. Enters(n)
  BY Entering
<1>3. ASSUME NEW r \in Registers
      PROVE  cpu'[r] \in Words /\ cpu'[r][1] = KindOf(r)
  <2>1. CASE r \in {"eip", "esp"}
    <3>1. cpu'[r] = <<r, Junk>>
      BY <1>2, <2>1 DEF Enters
    <3>. QED  BY <2>1, <3>1, KernelWords, KindsAre
  <2>2. CASE r \in {"cs", "ss"}
    <3>1. \/ cpu'[r] = Selector(SEGSEL_KERN_CODE)
          \/ cpu'[r] = Selector(SEGSEL_KERN_DATA)
      BY <1>2, <2>2 DEF Enters
    <3>2. \A s : Selector(s)[1] = "selector"
      BY DEF Selector
    <3>3. KindOf(r) = "selector"
      BY <2>2, KindsAre
    <3>. QED  BY <3>1, <3>2, <3>3, KernelWords
  <2>3. CASE r = "eflags"
    <3>1. cpu'[r] = Flags(Junk, FALSE)
      BY <1>2, <2>3 DEF Enters
    <3>2. Flags(Junk, FALSE)[1] = "eflags"
      BY DEF Flags
    <3>3. KindOf(r) = "eflags"
      BY <2>3, KindsAre
    <3>. QED  BY <3>1, <3>2, <3>3, KernelWords
  <2>4. CASE r \notin {"eip", "esp", "cs", "ss", "eflags"}
    <3>1. cpu'[r] = cpu[r]
      BY <1>2, <2>4 DEF Enters
    <3>2. cpu[r] \in Words /\ cpu[r][1] = KindOf(r)
      BY <1>1 DEF UserLike
    <3>. QED  BY <3>1, <3>2
  <2>. QED  BY <2>1, <2>2, <2>3, <2>4
<1>4. cpu' = [r \in Registers |-> cpu'[r]]
  BY <1>2 DEF Enters
<1>5. cpu' \in [Registers -> Words]
  <2>. HIDE DEF Words
  <2>. QED  BY <1>3, <1>4
<1>. QED  BY <1>3, <1>5 DEF CpuTypes

LEMMA LengthsOfEntry == \A m \in {5, 6} : m <= 17 /\ m <= 6 /\ 5 <= 5
OBVIOUS

LEMMA EntryKeeps ==
  ASSUME MInv, UserMode, NEW n, NEW error, NEW by, EntryOK(n, error),
         Deliver(n, error, by), ChipTypes', MasterAt(19)'
  PROVE  /\ Types' /\ Control' /\ trap' = [n |-> n, by |-> by]
         /\ ~UserMode' /\ LastOperation' = "interrupt"
         /\ n \in Cases => \A r \in Registers : OnTheStack(r)' = cpu[r]
<1>1. Settled /\ InUser
  BY UserPlace
<1>2. /\ trap' = [n |-> n, by |-> by] /\ n \in 0 .. 255
      /\ UNCHANGED <<allow_clock_interrupt, loaded, current, p_registers>>
  BY DEF Deliver, EntryOK
<1>3. code' = Handler(interrupt_descriptors(n).gd_off, n)
  BY Entering DEF Enters
<1>4. /\ stack' \in Seq(Words) /\ Len(stack') \in {5, 6}
      /\ error = << >> => /\ Len(stack') = 5
                          /\ \A r \in Registers : OnTheStack(r)' = cpu[r]
  BY EntryStack
<1>a. /\ stack' \in Seq(Words) /\ Len(stack') \in {5, 6} /\ Len(stack') <= 17
      /\ error = << >> => Len(stack') = 5
  BY <1>4, Zenon, LengthsOfEntry
<1>b. Depth(0) = 5 /\ Depth(1) = 6
  BY DEF Depth
<1>5. n \in Cases => error = << >>
  BY CasesAre DEF EntryOK, INT_GP
<1>6. \E k \in {0, 1}, x \in 0 .. 255 :
        /\ code' = StubCode(k, x)
        /\ n \in Cases => x = n /\ k = 0
        /\ n \notin Cases => x \notin Cases
        /\ Len(stack') <= Depth(k)
  <2>1. CASE n \in {32} \cup 48 .. 57
    <3>1. code' = StubCode(0, n)
      BY <1>2, <1>3, <2>1, HandlerIs
    <3>2. error = << >>
      BY <2>1 DEF EntryOK, INT_GP
    <3>3. Len(stack') <= Depth(0)
      BY <1>a, <1>b, <3>2, LengthsOfEntry, Zenon
    <3>. QED  BY <1>2, <3>1, <3>3
  <2>2. CASE n \notin {32} \cup 48 .. 57
    <3>1. code' = StubCode(1, 0)
      BY <1>2, <1>3, <2>2, HandlerIs
    <3>2. Len(stack') <= Depth(1)
      BY <1>a, <1>b, LengthsOfEntry, Zenon
    <3>3. n \notin Cases /\ 0 \notin Cases
      BY <2>2, CasesAre
    <3>. QED  BY <3>1, <3>2, <3>3
  <2>. QED  BY <2>1, <2>2
<1>7. PICK k \in {0, 1}, x \in 0 .. 255 :
        /\ code' = StubCode(k, x)
        /\ n \in Cases => x = n /\ k = 0
        /\ n \notin Cases => x \notin Cases
        /\ Len(stack') <= Depth(k)
  BY <1>6
<1>8. InStub(k, x)'
  <2>1. trap'.n = n
    BY <1>2
  <2>2. ~(k >= 2)
    BY <1>7
  <2>3. n \in Cases => Len(stack') = Depth(k)
    BY <1>a, <1>b, <1>5, <1>7
  <2>4. n \in Cases => Pushed'
    <3>1. cpu \in UserContexts
      BY <1>1 DEF InUser
    <3>. QED  BY <1>4, <1>5, <3>1 DEF Pushed
  <2>. QED  BY <1>7, <2>1, <2>2, <2>3, <2>4 DEF InStub
<1>9. Settled'
  <2>1. \A p \in Procs : Saved(p)
    BY <1>1 DEF Settled, InUser
  <2>2. \A p \in Procs : Saved(p)'
    BY <1>2, <2>1 DEF Saved
  <2>. QED  BY <1>1, <1>2, <2>2 DEF Settled
<1>10. Types'
  <2>1. OtherTypes'
    BY <1>2 DEF MInv, Types, OtherTypes
  <2>2. StackTypes'
    BY <1>a DEF StackTypes
  <2>3. DescriptorTypes'
    BY <1>2, Zenon DEF MInv, Types, DescriptorTypes
  <2>. QED  BY <2>1, <2>2, <2>3, EntryCpu DEF Types
<1>11. k \in 0 .. 6 /\ k \in Nat /\ x \in Nat
  BY <1>7
<1>12. Control'
  BY <1>8, <1>9, <1>11 DEF Control, Kernel
<1>13. ~UserMode' /\ LastOperation' = "interrupt"
  <2>1. StubNext(StubCode(k, x), k, x)
    BY <1>11, AtStub
  <2>. QED  BY <1>7, <2>1 DEF StubNext, UserMode, LastOperation
<1>. QED  BY <1>2, <1>4, <1>5, <1>10, <1>12, <1>13

(* A trap from user mode, as far as contexts go: the one of the process    *)
(* that was interrupted is now on the stack and in the registers.          *)
Trapped ==
  /\ UserMode /\ ~UserMode' /\ LastOperation' = "interrupt"
  /\ current' = current /\ p_registers' = p_registers
  /\ trap'.n \in Cases => \A r \in Registers : OnTheStack(r)' = cpu[r]

LEMMA TrapKeeps ==
  ASSUME MInv, UserMode, NEW n, NEW error, NEW by, EntryOK(n, error),
         Deliver(n, error, by), ChipTypes', MasterAt(19)'
  PROVE  /\ Types' /\ Control' /\ trap' = [n |-> n, by |-> by] /\ Trapped
<1>1. current' = current /\ p_registers' = p_registers
  BY DEF Deliver
<1>2. /\ Types' /\ Control' /\ trap' = [n |-> n, by |-> by]
      /\ ~UserMode' /\ LastOperation' = "interrupt"
      /\ n \in Cases => \A r \in Registers : OnTheStack(r)' = cpu[r]
  BY EntryKeeps
<1>3. trap'.n = n
  BY <1>2
<1>. QED  BY <1>1, <1>2, <1>3, Zenon DEF Trapped

LEMMA HardwareKeeps ==
  ASSUME MInv, HardwareInterrupt
  PROVE  /\ allow_clock_interrupt /\ trap'.n = INT_CLOCK
         /\ Types' /\ Control' /\ Trapped
<1>1. UserMode
  BY DEF MInv, Inv, FlagInv, HardwareInterrupt, Enabled
<1>2. PICK n \in 0 .. 255 :
        Acknowledge(n) /\ Deliver(n, << >>, <<"irq", n>>)
  BY DEF HardwareInterrupt
<1>3. Settled /\ allow_clock_interrupt \in BOOLEAN /\ ChipTypes
  BY <1>1, UserPlace, Known DEF MInv, Types
<1>4. UNCHANGED allow_clock_interrupt
  BY <1>2 DEF Deliver
<1>5. /\ allow_clock_interrupt /\ n = INT_CLOCK
      /\ ChipTypes' /\ MasterAt(19)'
  BY <1>2, <1>3, <1>4, AcknowledgeClock DEF Settled
<1>6. EntryOK(n, << >>)
  BY <1>2 DEF EntryOK
<1>7. /\ Types' /\ Control' /\ trap' = [n |-> n, by |-> <<"irq", n>>]
      /\ Trapped
  BY <1>1, <1>2, <1>5, <1>6, TrapKeeps
<1>. QED  BY <1>5, <1>7

(* A trap of the process's own making, and whether the kernel has a case   *)
(* for it.                                                                 *)
LEMMA OwnTrap ==
  ASSUME MInv, UserMode, NEW n, NEW error, NEW by, EntryOK(n, error),
         Deliver(n, error, by), UNCHANGED bus
  PROVE  /\ Types' /\ Control' /\ trap' = [n |-> n, by |-> by] /\ Trapped
<1>1. ChipTypes /\ MasterAt(19)
  BY UserPlace DEF MInv, Types, Settled
<1>2. UNCHANGED allow_clock_interrupt
  BY DEF Deliver
<1>3. ChipTypes'
  BY <1>1, SameChips
<1>4. MasterAt(19)'
  <2>1. master' = master
    BY DEF bus
  <2>. QED  BY <1>1, <1>2, <2>1, MasterKept
<1>. QED  BY <1>3, <1>4, TrapKeeps

LEMMA ByTheProcess ==
  \A n, a, b : /\ [n |-> n, by |-> <<a, b>>].n = n
               /\ [n |-> n, by |-> <<a, b>>].by[1] = a
               /\ [n |-> n, by |-> <<a, b>>].by[2] = b
OBVIOUS

LEMMA SoftwareKeeps ==
  ASSUME MInv, NEW n \in Interrupts, SoftwareInterrupt(n)
  PROVE  Types' /\ Control' /\ BlamesTheProcess' /\ Trapped
<1>1. UserMode /\ UNCHANGED bus /\ n \in 0 .. 255
  BY MachineAssumption DEF SoftwareInterrupt
<1>2. Cpl = 3
  <2>1. UserLike(cpu)
    BY <1>1, UserPlace, UserFacts DEF InUser
  <2>. QED  BY <2>1 DEF Cpl, UserLike, Selector, Rpl, AppCode, SEGSEL_APP_CODE
<1>3. interrupt_descriptors(n).gd_dpl = IF n \in 48 .. 57 THEN 3 ELSE 0
  BY <1>1 DEF interrupt_descriptors, SETGATE, INT_CLOCK, INT_SYS_YIELD
<1>4. CASE n \in 48 .. 57
  <2>1. Deliver(n, << >>, <<"int", n>>)
    BY <1>2, <1>3, <1>4 DEF SoftwareInterrupt
  <2>2. EntryOK(n, << >>)
    BY <1>1 DEF EntryOK
  <2>3. /\ Types' /\ Control' /\ trap' = [n |-> n, by |-> <<"int", n>>]
        /\ Trapped
    BY <1>1, <2>1, <2>2, OwnTrap
  <2>4. trap'.n = n /\ trap'.by[1] = "int" /\ trap'.by[2] = n
    BY <2>3, ByTheProcess, Zenon
  <2>5. BlamesTheProcess'
    BY <2>4 DEF BlamesTheProcess
  <2>. QED  BY <2>3, <2>5
<1>5. CASE n \notin 48 .. 57
  <2>1. Deliver(INT_GP, <<Number(8 * n + 2)>>, <<"int", n>>)
    BY <1>2, <1>3, <1>5 DEF SoftwareInterrupt
  <2>2. EntryOK(INT_GP, <<Number(8 * n + 2)>>)
    <3>1. 8 * n + 2 \in 0 .. MaxError
      BY <1>1 DEF MaxError
    <3>2. INT_GP \in 0 .. 255
      BY DEF INT_GP
    <3>. QED  BY <3>1, <3>2, Zenon DEF EntryOK
  <2>3. /\ Types' /\ Control' /\ trap' = [n |-> INT_GP, by |-> <<"int", n>>]
        /\ Trapped
    BY <1>1, <2>1, <2>2, OwnTrap
  <2>4. trap'.n = INT_GP /\ trap'.by[1] = "int" /\ trap'.by[2] = n
    BY <2>3, ByTheProcess, Zenon
  <2>5. n \notin Cases \ {INT_CLOCK}
    BY <1>5, CasesAre DEF INT_CLOCK
  <2>6. BlamesTheProcess'
    BY <2>4, <2>5 DEF BlamesTheProcess
  <2>. QED  BY <2>3, <2>6
<1>. QED  BY <1>4, <1>5

LEMMA ExceptionKeeps ==
  ASSUME MInv, NEW e \in Exceptions, UserException(e)
  PROVE  Types' /\ Control' /\ BlamesTheProcess' /\ Trapped
<1>1. UserMode /\ UNCHANGED bus
  BY DEF UserException
<1>2. \/ Deliver(0, << >>, <<e, 0>>)
      \/ Deliver(INT_GP, <<Number(0)>>, <<e, 0>>)
  BY DEF UserException
<1>3. EntryOK(0, << >>) /\ EntryOK(INT_GP, <<Number(0)>>)
  <2>1. 0 \in 0 .. MaxError /\ 0 \in 0 .. 255 /\ INT_GP \in 0 .. 255
    BY DEF MaxError, INT_GP
  <2>. QED  BY <2>1, Zenon DEF EntryOK
<1>4. PICK n : Types' /\ Control' /\ trap' = [n |-> n, by |-> <<e, 0>>]
            /\ Trapped
  BY <1>1, <1>2, <1>3, OwnTrap
<1>5. trap'.by[1] = e
  BY <1>4, ByTheProcess, Zenon
<1>6. BlamesTheProcess'
  BY <1>5 DEF BlamesTheProcess
<1>. QED  BY <1>4, <1>6

-----------------------------------------------------------------------------
(***************************************************************************)
(* The stubs: pushes, until the stack holds a registers_t; interrupt() and *)
(* schedule().                                                             *)
(***************************************************************************)
(* Saving the registers: what is on the stack or still to be put there     *)
(* does not change.                                                        *)
Saving ==
  /\ ~UserMode' /\ LastOperation = "interrupt" /\ LastOperation' = "interrupt"
  /\ current' = current /\ p_registers' = p_registers /\ trap' = trap
  /\ trap.n \in Cases => \A r \in Registers : OnTheStack(r)' = OnTheStack(r)

LEMMA Places ==
  \A l, m \in Nat, o \in 1 .. 17 :
    /\ l - (17 - o) \in Int /\ (m + l) - (17 - o) = m + (l - (17 - o))
    /\ l - (17 - o) <= l /\ (m + l) - (17 - o) = o - (17 - l - m)
    /\ (m + l) - (17 - o) >= 1 => o > 17 - l - m
    /\ ~(l - (17 - o) >= 1) => o <= 17 - l
OBVIOUS

NextRegisters(w, l, m) ==
  \A r \in Registers :
    Offset(r) > 17 - l - m /\ Offset(r) <= 17 - l
    => w[Offset(r) - (17 - l - m)] = cpu[r]

LEMMA PushedMore ==
  ASSUME NEW S, stack \in Seq(S), NEW w \in Seq(S), NEW l \in Nat,
         NEW m \in Nat,
         Len(stack) = l, Len(w) = m, l + m <= 17,
         stack' = w \o stack, cpu' = cpu,
         NextRegisters(w, l, m)
  PROVE  \A r \in Registers : OnTheStack(r)' = OnTheStack(r)
<1>. SUFFICES ASSUME NEW r \in Registers
              PROVE  OnTheStack(r)' = OnTheStack(r)
  OBVIOUS
<1>1. Offset(r) \in 1 .. 17
  BY OffsetFacts DEF Registers
<1>2. Len(stack') = m + l /\ Joins(stack', w, m, stack, l)
  <2>1. Joins(w \o stack, w, m, stack, l)
    BY Join
  <2>. QED  BY <2>1 DEF Joins
<1>. DEFINE k == l - (17 - Offset(r))
            j == (m + l) - (17 - Offset(r))
<1>3. /\ OnTheStack(r) = IF k >= 1 THEN stack[k] ELSE cpu[r]
      /\ OnTheStack(r)' = IF j >= 1 THEN stack'[j] ELSE cpu[r]
  BY <1>2, Layout DEF OnTheStack
<1>4. k \in Int /\ j = m + k /\ k <= l /\ j = Offset(r) - (17 - l - m)
  <2>1. \A o \in 1 .. 17 :
          /\ l - (17 - o) \in Int /\ (m + l) - (17 - o) = m + (l - (17 - o))
          /\ l - (17 - o) <= l /\ (m + l) - (17 - o) = o - (17 - l - m)
    BY Places
  <2>2. /\ k \in Int /\ j = m + (l - (17 - Offset(r)))
        /\ k <= l /\ j = Offset(r) - (17 - l - m)
    BY <1>1, <2>1
  <2>. QED  BY <2>2
<1>5. CASE k >= 1
  <2>1. k \in 1 .. l
    BY <1>4, <1>5
  <2>. HIDE DEF k, j
  <2>2. stack'[m + k] = stack[k] /\ j >= 1
    BY <1>2, <1>4, <1>5, <2>1 DEF Joins
  <2>. QED  BY <1>3, <1>4, <1>5, <2>2
<1>6. CASE ~(k >= 1) /\ j >= 1
  <2>1. Offset(r) > 17 - l - m /\ Offset(r) <= 17 - l
    BY <1>1, <1>6, Places
  <2>2. j \in 1 .. m
    BY <1>4, <1>6
  <2>. HIDE DEF k, j
  <2>3. stack'[j] = w[j]
    BY <1>2, <2>2 DEF Joins
  <2>4. w[j] = cpu[r]
    BY <1>4, <2>1 DEF NextRegisters
  <2>. QED  BY <1>3, <1>6, <2>3, <2>4
<1>7. CASE ~(k >= 1) /\ ~(j >= 1)
  <2>. HIDE DEF k, j
  <2>. QED  BY <1>3, <1>7
<1>. QED  BY <1>5, <1>6, <1>7

(* One instruction of a stub.                                              *)
LEMMA StubStep ==
  ASSUME MInv, Settled, NEW k, NEW x, StubPlace(k, x), k <= 5,
         code' = Tail(code),
         UNCHANGED <<allow_clock_interrupt, bus, loaded, current, p_registers,
                     trap>>,
         CpuTypes', stack' \in Seq(Words), Len(stack') <= Depth(k + 1),
         k + 1 >= 2 => /\ Depth(k + 1) - 6 <= Len(stack')
                       /\ stack'[Depth(k + 1) - 6] = Number(x),
         trap.n \in Cases =>
           /\ Len(stack') = Depth(k + 1)
           /\ \A r \in Registers : OnTheStack(r)' = OnTheStack(r)
  PROVE  Types' /\ Control' /\ Saving
<1>1. k \in 0 .. 6 /\ x \in 0 .. 255 /\ InStub(k, x)
      /\ code' = StubCode(k + 1, x)
  BY DEF StubPlace
<1>2. k + 1 \in 0 .. 6 /\ x \in Nat
  BY <1>1
<1>3. StubNext(code', k + 1, x)
  BY <1>1, <1>2, AtStub
<1>4. ~UserMode' /\ LastOperation' = "interrupt"
  BY <1>3, Zenon DEF StubNext, UserMode, LastOperation
<1>5. Saving
  BY <1>4 DEF Saving, StubPlace
<1>6. InStub(k + 1, x)'
  <2>1. trap.n \in Cases => x = trap.n /\ Pushed
    BY <1>1 DEF InStub
  <2>2. trap.n \in Cases => Pushed'
    BY <2>1 DEF Pushed
  <2>3. trap.n \notin Cases => x \notin Cases
    BY <1>1 DEF InStub
  <2>. QED  BY <1>1, <2>1, <2>2, <2>3, Zenon DEF InStub
<1>7. Settled'
  BY Zenon DEF Settled, Saved, MasterAt, Masked, bus
<1>8. Control'
  BY <1>1, <1>2, <1>6, <1>7 DEF Control, Kernel
<1>9. Types'
  <2>1. Depth(k + 1) <= 17 /\ Depth(k + 1) \in Nat
    BY <1>2 DEF Depth
  <2>2. StackTypes'
    BY <2>1 DEF StackTypes
  <2>3. OtherTypes' /\ DescriptorTypes'
    BY Zenon DEF MInv, Types, OtherTypes, DescriptorTypes
  <2>4. ChipTypes'
    BY SameChips DEF MInv, Types
  <2>. QED  BY <2>2, <2>3, <2>4 DEF Types
<1>. QED  BY <1>5, <1>8, <1>9

LEMMA DepthIs ==
  /\ Depth(0) = 5 /\ Depth(1) = 6 /\ Depth(2) = 7 /\ Depth(3) = 8
  /\ Depth(4) = 9
  /\ Depth(5) = 17 /\ Depth(6) = 17
BY DEF Depth

LEMMA PushKeeps ==
  ASSUME MInv, Settled, NEW k \in 0 .. 4, NEW x, StubPlace(k, x),
         NEW w \in Seq(Words), NEW m \in Nat, Len(w) = m, Push(w),
         m = IF k = 4 THEN 8 ELSE 1,
         k = 1 => w[1] = Number(x),
         \A r \in Registers :
           Offset(r) > 17 - Depth(k + 1) /\ Offset(r) <= 17 - Depth(k)
           => w[Offset(r) - (17 - Depth(k + 1))] = cpu[r]
  PROVE  Types' /\ Control' /\ Saving
<1>. DEFINE l == Len(stack)
<1>1. /\ stack' = w \o stack /\ code' = Tail(code) /\ cpu' = cpu
      /\ UNCHANGED <<allow_clock_interrupt, bus, loaded, current, p_registers,
                     trap>>
  BY DEF Push, Continue
<1>2. stack \in Seq(Words) /\ CpuTypes
  BY DEF MInv, Types, StackTypes
<1>3. /\ l <= Depth(k)
      /\ k >= 2 => Depth(k) - 6 <= l /\ stack[Depth(k) - 6] = Number(x)
      /\ trap.n \in Cases => l = Depth(k)
  BY DEF StubPlace, InStub
<1>4. l \in Nat
  <2>. HIDE DEF Words
  <2>. QED  BY <1>2
<1>5. k + 1 <= 5 /\ Depth(k + 1) = Depth(k) + m /\ Depth(k) \in 5 .. 9
      /\ (k >= 2 => Depth(k) - 6 \in Nat \ {0}) /\ (k = 1 => Depth(k) = 6)
  BY DepthIs
<1>6. Len(stack') = m + l /\ Joins(stack', w, m, stack, l)
      /\ stack' \in Seq(Words)
  <2>1. Len(stack) = l
    OBVIOUS
  <2>. HIDE DEF l, Words
  <2>2. w \o stack \in Seq(Words) /\ Joins(w \o stack, w, m, stack, l)
    BY <1>2, <1>4, <2>1, Join
  <2>. QED  BY <1>1, <2>2 DEF Joins
<1>. HIDE DEF l
<1>7. Len(stack') <= Depth(k + 1)
  <2>1. m + l <= Depth(k) + m
    BY <1>3, <1>4, <1>5
  <2>. QED  BY <1>5, <1>6, <2>1
<1>8. k + 1 >= 2 => /\ Depth(k + 1) - 6 <= Len(stack')
                    /\ stack'[Depth(k + 1) - 6] = Number(x)
  <2>1. CASE k = 1
    <3>1. Depth(k + 1) - 6 = 1 /\ m = 1
      BY <2>1, DepthIs
    <3>2. 1 \in 1 .. m /\ 1 <= m + l
      BY <1>4, <3>1
    <3>. QED  BY <1>6, <2>1, <3>1, <3>2 DEF Joins
  <2>2. CASE k >= 2
    <3>. DEFINE d == Depth(k) - 6
    <3>1. d \in 1 .. l /\ stack[d] = Number(x)
      BY <1>3, <1>4, <1>5, <2>2
    <3>2. Depth(k + 1) - 6 = m + d
      BY <1>5
    <3>. HIDE DEF d
    <3>3. stack'[m + d] = stack[d] /\ m + d <= m + l
      BY <1>4, <1>6, <3>1 DEF Joins
    <3>. QED  BY <1>6, <3>1, <3>2, <3>3
  <2>. QED  BY <2>1, <2>2
<1>9. ASSUME trap.n \in Cases
      PROVE  /\ Len(stack') = Depth(k + 1)
             /\ \A r \in Registers : OnTheStack(r)' = OnTheStack(r)
  <2>1. l = Depth(k)
    BY <1>3, <1>9
  <2>2. m + l = Depth(k + 1) /\ l + m <= 17
    <3>1. Depth(k + 1) <= 17
      BY DepthIs
    <3>. QED  BY <1>4, <1>5, <2>1, <3>1
  <2>3. 17 - l - m = 17 - Depth(k + 1) /\ 17 - l = 17 - Depth(k)
    BY <1>4, <1>5, <2>1, <2>2
  <2>4. NextRegisters(w, l, m)
    BY <2>3 DEF NextRegisters
  <2>5. Len(stack) = l
    BY DEF l
  <2>6. \A r \in Registers : OnTheStack(r)' = OnTheStack(r)
    <3>. HIDE DEF Words
    <3>. QED  BY <1>1, <1>2, <1>4, <2>2, <2>4, <2>5, PushedMore, Zenon
  <2>. QED  BY <1>6, <2>2, <2>6
<1>10. CpuTypes'
  BY <1>1, <1>2, Zenon DEF CpuTypes
<1>11. k <= 5
  OBVIOUS
<1>. QED
  BY <1>1, <1>6, <1>7, <1>8, <1>9, <1>10, <1>11, StubStep, Zenon

LEMMA PushalIs ==
  ASSUME CpuTypes
  PROVE  LET w == [k \in DOMAIN pushal |->
                     IF pushal[k] = "original_esp" THEN cpu.esp
                                                   ELSE cpu[pushal[k]]]
         IN  /\ w \in Seq(Words) /\ Len(w) = 8
             /\ \A r \in Registers : Offset(r) <= 8 => w[Offset(r)] = cpu[r]
<1>1. /\ DOMAIN pushal = 1 .. 8
      /\ \A k \in 1 .. 8 : pushal[k] = registers_t[k]
  BY DEF pushal, registers_t
<1>. DEFINE w == [k \in 1 .. 8 |->
                    IF pushal[k] = "original_esp" THEN cpu.esp
                                              ELSE cpu[pushal[k]]]
<1>2. ASSUME NEW k \in 1 .. 8
      PROVE  /\ w[k] \in Words
             /\ registers_t[k] \in Registers => w[k] = cpu[registers_t[k]]
  <2>1. k = 4 \/ k \in {1, 2, 3, 5, 6, 7, 8}
    OBVIOUS
  <2>2. CASE k = 4
    <3>1. registers_t[k] = "original_esp"
      BY <2>2, Positions
    <3>2. w[k] = cpu.esp /\ registers_t[k] \notin Registers
      BY <1>1, <3>1, RegistersAre
    <3>3. "esp" \in Registers
      BY RegistersAre
    <3>4. cpu.esp \in Words
      <4>. HIDE DEF Words
      <4>. QED  BY <3>3 DEF CpuTypes
    <3>. QED  BY <3>2, <3>4
  <2>3. CASE k \in {1, 2, 3, 5, 6, 7, 8}
    <3>1. registers_t[k] # "original_esp" /\ registers_t[k] \in Registers
      BY <2>3, Positions, RegistersAre
    <3>2. w[k] = cpu[registers_t[k]]
      BY <1>1, <3>1
    <3>3. cpu[registers_t[k]] \in Words
      <4>. HIDE DEF Words
      <4>. QED  BY <3>1 DEF CpuTypes
    <3>. QED  BY <3>2, <3>3
  <2>. QED  BY <2>1, <2>2, <2>3
<1>. DEFINE v == [k \in 1 .. 8 |-> w[k]]
<1>3. w \in Seq(Words) /\ Len(w) = 8
  <2>1. w = [k \in 1 .. 8 |-> w[k]]
    OBVIOUS
  <2>. HIDE DEF Words, w
  <2>2. w \in [1 .. 8 -> Words]
    BY <1>2, <2>1
  <2>. QED  BY <2>1, <2>2
<1>4. ASSUME NEW r \in Registers, Offset(r) <= 8 PROVE w[Offset(r)] = cpu[r]
  <2>1. Offset(r) \in 1 .. 8 /\ registers_t[Offset(r)] = r
    BY <1>4, OffsetFacts DEF Registers
  <2>. HIDE DEF w
  <2>. QED  BY <1>2, <2>1
<1>. QED  BY <1>1, <1>3, <1>4

LEMMA SaveRegistersKeeps ==
  ASSUME MInv, SaveRegisters PROVE Types' /\ Control' /\ Saving
<1>1. ~UserMode /\ Op \in {"push", "push_register", "pushal"}
  BY DEF SaveRegisters, At, Op
<1>2. Settled
  BY <1>1, Place DEF BootOperations
<1>3. PICK k, x : StubPlace(k, x)
  BY <1>1, Stubbing DEF StubOperations
<1>4. x \in 0 .. 255 /\ CpuTypes
  BY <1>3 DEF StubPlace, MInv, Types
<1>5. CASE At("push") /\ Push(<<Number(Arg)>>)
  <2>1. (k = 0 /\ Arg = 0) \/ (k = 1 /\ Arg = x)
    BY <1>3, <1>5 DEF StubPlace, At, Op
  <2>. DEFINE w == <<Number(Arg)>>
  <2>2. Number(Arg) \in Words
    <3>1. Arg \in 0 .. MaxError
      BY <1>4, <2>1 DEF MaxError
    <3>. QED  BY <3>1, WordKinds
  <2>3. w \in Seq(Words) /\ Len(w) = 1 /\ w[1] = Number(Arg)
    <3>. HIDE DEF Words
    <3>. QED  BY <2>2
  <2>4. ASSUME NEW r \in Registers, Offset(r) > 17 - Depth(k + 1),
               Offset(r) <= 17 - Depth(k)
        PROVE  FALSE
    <3>1. Offset(r) \in {11, 12}
      BY <2>1, <2>4, DepthIs, OffsetFacts DEF Registers
    <3>. QED  BY <3>1, RegistersAre, Offsets
  <2>5. Push(w)
    BY <1>5
  <2>6. k \in 0 .. 4 /\ k # 4 /\ (k = 1 => w[1] = Number(x))
    BY <2>1, <2>3
  <2>. HIDE DEF w
  <2>7. 1 \in Nat /\ 1 = IF k = 4 THEN 8 ELSE 1
    BY <2>6
  <2>. QED  BY <1>2, <1>3, <2>3, <2>4, <2>5, <2>6, <2>7, PushKeeps, Zenon
<1>6. CASE At("push_register") /\ Push(<<cpu[Arg]>>)
  <2>1. (k = 2 /\ Arg = "ds") \/ (k = 3 /\ Arg = "es")
    BY <1>3, <1>6 DEF StubPlace, At, Op
  <2>. DEFINE w == <<cpu[Arg]>>
  <2>2. cpu[Arg] \in Words
    <3>. HIDE DEF Words
    <3>. QED  BY <1>4, <2>1, RegistersAre DEF CpuTypes
  <2>3. w \in Seq(Words) /\ Len(w) = 1 /\ w[1] = cpu[Arg]
    <3>. HIDE DEF Words
    <3>. QED  BY <2>2
  <2>. HIDE DEF w
  <2>4. ASSUME NEW r \in Registers, Offset(r) > 17 - Depth(k + 1),
               Offset(r) <= 17 - Depth(k)
        PROVE  w[Offset(r) - (17 - Depth(k + 1))] = cpu[r]
    <3>1. Offset(r) \in 1 .. 17 /\ registers_t[Offset(r)] = r
      BY OffsetFacts DEF Registers
    <3>2. Offset(r) = 12 - k /\ Offset(r) - (17 - Depth(k + 1)) = 1
      BY <2>1, <2>4, <3>1, DepthIs
    <3>3. r = Arg
      BY <2>1, <3>1, <3>2, Positions
    <3>. QED  BY <2>3, <3>2, <3>3
  <2>5. Push(w)
    BY <1>6 DEF w
  <2>6. k \in 0 .. 4 /\ k # 4 /\ k # 1
    BY <2>1
  <2>7. 1 \in Nat /\ 1 = IF k = 4 THEN 8 ELSE 1
    BY <2>6
  <2>. QED  BY <1>2, <1>3, <2>3, <2>4, <2>5, <2>6, <2>7, PushKeeps, Zenon
<1>7. CASE /\ At("pushal")
           /\ Push([i \in DOMAIN pushal |->
                      IF pushal[i] = "original_esp" THEN cpu.esp
                                                    ELSE cpu[pushal[i]]])
  <2>. DEFINE w == [i \in DOMAIN pushal |->
                      IF pushal[i] = "original_esp" THEN cpu.esp
                                                    ELSE cpu[pushal[i]]]
  <2>1. k = 4
    BY <1>3, <1>7 DEF StubPlace, At, Op
  <2>2. /\ w \in Seq(Words) /\ Len(w) = 8
        /\ \A r \in Registers : Offset(r) <= 8 => w[Offset(r)] = cpu[r]
    BY <1>4, PushalIs
  <2>3. Push(w)
    BY <1>7
  <2>. HIDE DEF w
  <2>4. ASSUME NEW r \in Registers, Offset(r) > 17 - Depth(k + 1),
               Offset(r) <= 17 - Depth(k)
        PROVE  w[Offset(r) - (17 - Depth(k + 1))] = cpu[r]
    <3>1. Offset(r) \in 1 .. 17
      BY OffsetFacts DEF Registers
    <3>2. Offset(r) <= 8 /\ Offset(r) - (17 - Depth(k + 1)) = Offset(r)
      BY <2>1, <2>4, <3>1, DepthIs
    <3>. QED  BY <2>2, <3>2
  <2>5. k \in 0 .. 4 /\ k # 1
    BY <2>1
  <2>6. 8 \in Nat /\ 8 = IF k = 4 THEN 8 ELSE 1
    BY <2>1
  <2>. QED  BY <1>2, <1>3, <2>2, <2>3, <2>4, <2>5, <2>6, PushKeeps, Zenon
<1>. QED  BY <1>5, <1>6, <1>7 DEF SaveRegisters

LEMMA DepthsOfFrame ==
  Depth(5) = 17 /\ Depth(5 + 1) = 17 /\ Depth(5) - 6 = 11
  /\ Depth(5 + 1) - 6 = 11
BY DEF Depth

LEMMA LoadKernelDataKeeps ==
  ASSUME MInv, LoadKernelData PROVE Types' /\ Control' /\ Saving
<1>1. ~UserMode /\ Op = "load_kernel_data"
  BY DEF LoadKernelData, At, Op
<1>2. Settled
  BY <1>1, Place DEF BootOperations
<1>3. PICK k, x : StubPlace(k, x)
  BY <1>1, Stubbing DEF StubOperations
<1>4. k = 5 /\ Arg = SEGSEL_KERN_DATA
  BY <1>1, <1>3 DEF StubPlace
<1>5. /\ cpu' = [cpu EXCEPT !.eax = Number(SEGSEL_KERN_DATA),
                            !.ds = Selector(SEGSEL_KERN_DATA),
                            !.es = Selector(SEGSEL_KERN_DATA)]
      /\ code' = Tail(code) /\ stack' = stack
      /\ UNCHANGED <<allow_clock_interrupt, bus, loaded, current, p_registers,
                     trap>>
  BY <1>4 DEF LoadKernelData, Continue
<1>6. CpuTypes /\ stack \in Seq(Words)
  BY DEF MInv, Types, StackTypes
<1>7. CpuTypes'
  <2>. DEFINE a == Number(SEGSEL_KERN_DATA)
              b == Selector(SEGSEL_KERN_DATA)
  <2>1. a \in Words /\ b \in Words /\ b[1] = "selector"
    <3>1. SEGSEL_KERN_DATA \in 0 .. 255 /\ SEGSEL_KERN_DATA \in 0 .. MaxError
      BY DEF SEGSEL_KERN_DATA, MaxError
    <3>2. a \in Words /\ b \in Words
      BY <3>1, WordKinds
    <3>. QED  BY <3>2 DEF Selector
  <2>. HIDE DEF a, b
  <2>2. /\ cpu'.eax = a /\ cpu'.ds = b /\ cpu'.es = b
        /\ \A r \in Registers \ {"eax", "ds", "es"} : cpu'[r] = cpu[r]
        /\ cpu' = [r \in Registers |-> cpu'[r]]
    <3>1. cpu' = [cpu EXCEPT !.eax = a, !.ds = b, !.es = b]
      BY <1>5 DEF a, b
    <3>2. DOMAIN cpu = Registers /\ {"eax", "ds", "es"} \subseteq Registers
      BY <1>6, RegistersAre DEF CpuTypes
    <3>. QED  BY <3>1, <3>2
  <2>3. ASSUME NEW r \in Registers
        PROVE  cpu'[r] \in Words /\ (r # "eax" => cpu'[r][1] = KindOf(r))
    <3>1. CASE r = "eax"
      BY <2>1, <2>2, <3>1
    <3>2. CASE r \in {"ds", "es"}
      <4>1. cpu'[r] = b /\ KindOf(r) = "selector"
        BY <2>2, <3>2, KindsAre
      <4>. QED  BY <2>1, <4>1
    <3>3. CASE r \notin {"eax", "ds", "es"}
      <4>1. cpu'[r] = cpu[r]
        BY <2>2, <3>3
      <4>2. cpu[r] \in Words /\ cpu[r][1] = KindOf(r)
        <5>. HIDE DEF Words
        <5>. QED  BY <1>6, <3>3 DEF CpuTypes
      <4>. QED  BY <4>1, <4>2
    <3>. QED  BY <3>1, <3>2, <3>3
  <2>4. cpu' \in [Registers -> Words]
    <3>. HIDE DEF Words
    <3>. QED  BY <2>2, <2>3
  <2>. QED  BY <2>3, <2>4 DEF CpuTypes
<1>8. StubPlace(5, x)
  BY <1>3, <1>4
<1>9. /\ Len(stack) <= 17 /\ 11 <= Len(stack) /\ stack[11] = Number(x)
      /\ trap.n \in Cases => Len(stack) = 17
  <2>1. InStub(5, x)
    BY <1>8 DEF StubPlace
  <2>2. (5 >= 2) = TRUE
    OBVIOUS
  <2>. QED  BY <2>1, <2>2, DepthsOfFrame, Zenon DEF InStub
<1>10. trap.n \in Cases => \A r \in Registers : OnTheStack(r)' = OnTheStack(r)
  <2>1. ASSUME trap.n \in Cases, NEW r \in Registers
        PROVE  OnTheStack(r)' = OnTheStack(r)
    <3>1. Len(stack) = 17 /\ Len(stack') = 17 /\ stack' = stack
      BY <1>5, <1>9, <2>1
    <3>2. Offset(r) \in 1 .. 17
      BY OffsetFacts DEF Registers
    <3>3. 17 - (17 - Offset(r)) = Offset(r) /\ Offset(r) >= 1
      BY <3>2
    <3>. QED  BY <3>1, <3>3, Layout, Zenon DEF OnTheStack
  <2>. QED  BY <2>1
<1>11. 5 <= 5 /\ 5 + 1 = 6
  OBVIOUS
<1>12. stack' \in Seq(Words) /\ Len(stack') = Len(stack)
  BY <1>5, <1>6
<1>. QED
  BY <1>2, <1>5, <1>7, <1>8, <1>9, <1>10, <1>11, <1>12, DepthsOfFrame,
     StubStep,
     Zenon

-----------------------------------------------------------------------------
(* interrupt() and schedule() *)

(* The descriptor of the process takes over from the stack.                *)
Taken ==
  /\ ~UserMode' /\ LastOperation = "interrupt"
  /\ current' = current /\ trap' = trap
  /\ LastOperation' \in {"schedule", "jmp"}
  /\ \A p \in Procs \ {current} : p_registers'[p] = p_registers[p]
  /\ trap.n \in Cases =>
       \A r \in Registers : p_registers'[current][Offset(r)] = OnTheStack(r)

LEMMA FrameIs ==
  ASSUME StackTypes
  PROVE  /\ Frame \in [1 .. 17 -> Words]
         /\ \A k \in 1 .. Len(stack) : Frame[k] = stack[k]
<1>1. /\ stack \in Seq(Words) /\ Len(stack) \in Nat /\ Len(stack) <= 17
      /\ DOMAIN stack = 1 .. Len(stack)
      /\ \A k \in DOMAIN stack : stack[k] \in Words
  <2>. HIDE DEF Words
  <2>. QED  BY DEF StackTypes
<1>2. Frame = [k \in 1 .. 17 |-> IF k \in DOMAIN stack THEN stack[k]
                              ELSE Above]
  BY Layout DEF Frame
<1>3. Above \in Words
  BY WordKinds
<1>4. Frame \in [1 .. 17 -> Words]
  <2>. HIDE DEF Words
  <2>. QED  BY <1>1, <1>2, <1>3
<1>5. ASSUME NEW k \in 1 .. Len(stack) PROVE Frame[k] = stack[k]
  <2>1. k \in 1 .. 17 /\ k \in DOMAIN stack
    BY <1>1
  <2>. QED  BY <1>2, <2>1
<1>. QED  BY <1>4, <1>5

LEMMA InterruptKeeps ==
  ASSUME MInv, Interrupt PROVE Types' /\ Control' /\ Taken
<1>1. ~UserMode /\ Op = "interrupt"
  BY DEF Interrupt, At, Op
<1>2. Settled
  BY <1>1, Place DEF BootOperations
<1>3. PICK k, x : StubPlace(k, x)
  BY <1>1, Stubbing DEF StubOperations
<1>4. k = 6 /\ x \in 0 .. 255 /\ LastOperation = "interrupt"
  BY <1>1, <1>3 DEF StubPlace
<1>5. /\ p_registers' = [p_registers EXCEPT ![current] = Frame]
      /\ cpu' = [r \in Registers |->
                   IF r \in {"cs", "ds", "es", "ss", "eflags"} THEN cpu[r]
                   ELSE <<r, Junk>>]
      /\ code' = IF Frame[Offset("intno")] \in {Number(n) : n \in Cases}
                 THEN << <<"schedule", "">> >> ELSE Hang
      /\ UNCHANGED <<allow_clock_interrupt, bus, stack, loaded, current, trap>>
  BY DEF Interrupt
<1>6. /\ CpuTypes /\ StackTypes /\ DescriptorTypes /\ current \in Procs
  BY DEF MInv, Types, OtherTypes
<1>7. /\ InStub(6, x) /\ 11 <= Len(stack) /\ stack[11] = Number(x)
      /\ trap.n \in Cases => x = trap.n /\ Len(stack) = 17 /\ Pushed
      /\ trap.n \notin Cases => x \notin Cases
  <2>1. InStub(6, x)
    BY <1>3, <1>4 DEF StubPlace
  <2>2. (6 >= 2) = TRUE /\ Depth(6) = 17 /\ Depth(6) - 6 = 11
    BY DEF Depth
  <2>. QED  BY <2>1, <2>2, Zenon DEF InStub
<1>8. Frame[Offset("intno")] = Number(x)
  <2>1. Len(stack) \in Nat
    <3>. HIDE DEF Words
    <3>. QED  BY <1>6 DEF StackTypes
  <2>2. 11 \in 1 .. Len(stack)
    BY <1>7, <2>1
  <2>. QED  BY <1>6, <1>7, <2>2, FrameIs, Offsets
<1>9. Frame[Offset("intno")] \in {Number(n) : n \in Cases} <=> trap.n \in Cases
  <2>1. \A n : Number(n) = Number(x) => n = x
    BY DEF Number
  <2>2. Number(x) \in {Number(n) : n \in Cases} <=> x \in Cases
    BY <2>1, Zenon
  <2>. QED  BY <1>7, <1>8, <2>2, Zenon
<1>10. /\ DOMAIN p_registers = Procs /\ p_registers'[current] = Frame
       /\ \A p \in Procs \ {current} : p_registers'[p] = p_registers[p]
  BY <1>5, <1>6 DEF DescriptorTypes
<1>11. ASSUME trap.n \in Cases, NEW r \in Registers
       PROVE  p_registers'[current][Offset(r)] = OnTheStack(r)
  <2>1. Offset(r) \in 1 .. 17 /\ Len(stack) = 17
    BY <1>7, <1>11, OffsetFacts DEF Registers
  <2>2. 17 - (17 - Offset(r)) = Offset(r) /\ Offset(r) >= 1
    BY <2>1
  <2>3. OnTheStack(r) = stack[Offset(r)]
    BY <2>1, <2>2, OnTheStackIs
  <2>4. Frame[Offset(r)] = stack[Offset(r)]
    BY <1>6, <2>1, FrameIs
  <2>. QED  BY <1>10, <2>3, <2>4
<1>12. Settled'
  <2>1. loaded' = Tables /\ MasterAt(19)'
    BY <1>2, <1>5, Zenon DEF Settled, MasterAt, Masked, bus
  <2>2. ASSUME trap.n \in Cases, NEW p \in Procs PROVE Saved(p)'
    <3>1. CASE p = current
      <4>1. PICK c \in UserContexts : \A r \in Registers : OnTheStack(r) = c[r]
        BY <1>7, <2>2 DEF Pushed
      <4>2. \A r \in Registers : p_registers'[p][Offset(r)] = c[r]
        BY <1>11, <2>2, <3>1, <4>1
      <4>. QED  BY <4>2 DEF Saved
    <3>2. CASE p # current
      <4>1. p_registers'[p] = p_registers[p] /\ Saved(p)
        BY <1>2, <1>10, <2>2, <3>2 DEF Settled
      <4>. QED  BY <4>1 DEF Saved
    <3>. QED  BY <3>1, <3>2
  <2>. QED  BY <1>5, <2>1, <2>2 DEF Settled
<1>13. Types'
  <2>1. CpuTypes'
    <3>1. ASSUME NEW r \in Registers
          PROVE  cpu'[r] \in Words /\ (r # "eax" => cpu'[r][1] = KindOf(r))
      <4>1. CASE r \in {"cs", "ds", "es", "ss", "eflags"}
        <5>1. cpu'[r] = cpu[r] /\ r # "eax"
          BY <1>5, <4>1
        <5>2. cpu[r] \in Words /\ cpu[r][1] = KindOf(r)
          <6>. HIDE DEF Words
          <6>. QED  BY <1>6, <5>1 DEF CpuTypes
        <5>. QED  BY <5>1, <5>2
      <4>2. CASE r \notin {"cs", "ds", "es", "ss", "eflags"}
        <5>1. cpu'[r] = <<r, Junk>>
          BY <1>5, <4>2
        <5>2. KindOf(r) = r
          BY <4>2, KindsAre
        <5>. QED  BY <5>1, <5>2, KernelWords
      <4>. QED  BY <4>1, <4>2
    <3>2. cpu' = [r \in Registers |-> cpu'[r]]
      BY <1>5
    <3>3. cpu' \in [Registers -> Words]
      <4>. HIDE DEF Words
      <4>. QED  BY <3>1, <3>2
    <3>. QED  BY <3>1, <3>3 DEF CpuTypes
  <2>2. DescriptorTypes'
    <3>1. Frame \in [1 .. 17 -> Words]
      BY <1>6, FrameIs
    <3>. HIDE DEF Words
    <3>. QED  BY <1>5, <1>6, <3>1 DEF DescriptorTypes
  <2>3. OtherTypes' /\ StackTypes'
    BY <1>5, Zenon DEF MInv, Types, OtherTypes, StackTypes
  <2>4. ChipTypes'
    BY <1>5, SameChips DEF MInv, Types
  <2>. QED  BY <2>1, <2>2, <2>3, <2>4 DEF Types
<1>14. CASE trap.n \in Cases
  <2>1. code' = << <<"schedule", "">> >>
    BY <1>5, <1>9, <1>14, Zenon
  <2>2. InSchedule'
    BY <1>5, <1>14, <2>1 DEF InSchedule
  <2>3. Control'
    BY <1>12, <2>2 DEF Control, Kernel
  <2>4. ~UserMode' /\ LastOperation' = "schedule"
    BY <2>1 DEF UserMode, LastOperation
  <2>. QED  BY <1>4, <1>5, <1>10, <1>11, <1>13, <1>14, <2>3, <2>4 DEF Taken
<1>15. CASE trap.n \notin Cases
  <2>1. code' = Hang
    BY <1>5, <1>9, <1>15, Zenon
  <2>2. Stopped'
    BY <1>5, <1>15, <2>1 DEF Stopped
  <2>3. Control'
    BY <1>12, <2>2 DEF Control, Kernel
  <2>4. ~UserMode' /\ LastOperation' = "jmp"
    BY <2>1 DEF UserMode, LastOperation, Hang
  <2>. QED  BY <1>4, <1>5, <1>10, <1>13, <1>15, <2>3, <2>4 DEF Taken
<1>. QED  BY <1>14, <1>15

LEMMA ScheduleKeeps ==
  ASSUME MInv, Schedule
  PROVE  /\ Types' /\ Control'
         /\ ~UserMode' /\ LastOperation = "schedule" /\ LastOperation' = "iret"
         /\ p_registers' = p_registers /\ trap' = trap /\ trap.n \in Cases
         /\ current' \in Procs
<1>1. ~UserMode /\ Op = "schedule"
  BY DEF Schedule, At, Op
<1>2. Settled /\ InSchedule
  BY <1>1, Place DEF BootOperations
<1>3. trap.n \in Cases /\ LastOperation = "schedule"
  BY <1>2, ScheduleHere DEF InSchedule
<1>4. PICK p \in Procs : current' = p /\ code' = RunCode(p)
  BY DEF Schedule
<1>5. UNCHANGED <<allow_clock_interrupt, bus, cpu, stack, loaded, p_registers,
                  trap>>
  BY DEF Schedule
<1>6. code' = Suffix(RunCode(p), 1) /\ 1 \in 1 .. 6
  BY <1>4, RunCodeEnds
<1>7. RunNext(code', p, 1)
  BY <1>6, AtRun
<1>8. ~UserMode' /\ LastOperation' = "iret"
  BY <1>7, Zenon DEF RunNext, UserMode, LastOperation
<1>9. InRun(1)'
  BY <1>3, <1>4, <1>5, <1>6 DEF InRun
<1>10. Settled'
  BY <1>2, <1>5, Zenon DEF Settled, Saved, MasterAt, Masked, bus
<1>11. Control'
  BY <1>6, <1>9, <1>10 DEF Control, Kernel
<1>12. Types'
  <2>1. OtherTypes' /\ CpuTypes' /\ StackTypes' /\ DescriptorTypes'
    BY <1>4, <1>5, Zenon DEF MInv, Types, OtherTypes, CpuTypes, StackTypes,
       DescriptorTypes
  <2>2. ChipTypes'
    BY <1>5, SameChips DEF MInv, Types
  <2>. QED  BY <2>1, <2>2 DEF Types
<1>. QED  BY <1>3, <1>4, <1>5, <1>8, <1>11, <1>12

-----------------------------------------------------------------------------
(***************************************************************************)
(* run(): the words of the descriptor go back where they belong.           *)
(***************************************************************************)
(* run().  What has been popped is in the CPU, and stays there.            *)
Resuming ==
  /\ ~UserMode' /\ LastOperation = "iret" /\ LastOperation' = "iret"
  /\ current' = current /\ p_registers' = p_registers /\ trap' = trap

Descriptor == p_registers[current]

LEMMA DroppedIs ==
  /\ Dropped(2) = 0 /\ Dropped(3) = 8 /\ Dropped(4) = 9 /\ Dropped(5) = 10
  /\ Dropped(6) = 12
BY DEF Dropped

LEMMA DropMore ==
  ASSUME NEW S, stack \in Seq(S), NEW d \in Nat, NEW m \in Nat, d + m <= 17,
         Popped(d), Drop(m)
  PROVE  /\ stack' \in Seq(S) /\ Len(stack') = 17 - (d + m)
         /\ \A i \in 1 .. 17 - (d + m) : stack'[i] = Descriptor[i + (d + m)]
<1>. DEFINE l == Len(stack)
<1>1. /\ l = 17 - d /\ l \in Nat
      /\ \A i \in 1 .. 17 - d : stack[i] = Descriptor[i + d]
  BY DEF Popped, Descriptor
<1>2. stack' = SubSeq(stack, m + 1, l)
  BY DEF Drop
<1>. HIDE DEF l
<1>3. m + 1 \in Nat /\ l \in Nat /\ m + 1 \in 1 .. l + 1
  BY <1>1
<1>4. \A i \in m + 1 .. l : stack[i] \in S
  BY <1>1 DEF l
<1>5. CASE m < l
  <2>1. m + 1 \in Int /\ l \in m + 1 .. l
    BY <1>3, <1>5
  <2>2. /\ SubSeq(stack, m + 1, l) \in Seq(S)
        /\ Len(SubSeq(stack, m + 1, l)) = l - (m + 1) + 1
        /\ \A i \in 1 .. l - (m + 1) + 1 :
             SubSeq(stack, m + 1, l)[i] = stack[(m + 1) + i - 1]
    BY <1>4, <2>1, SubSeqProperties
  <2>3. l - (m + 1) + 1 = 17 - (d + m)
    BY <1>1
  <2>4. ASSUME NEW i \in 1 .. 17 - (d + m)
        PROVE  stack'[i] = Descriptor[i + (d + m)]
    <3>1. (m + 1) + i - 1 = m + i /\ m + i \in 1 .. 17 - d
          /\ (m + i) + d = i + (d + m)
      BY <1>1
    <3>. QED  BY <1>1, <1>2, <2>2, <2>3, <3>1
  <2>. QED  BY <1>2, <2>2, <2>3, <2>4
<1>6. CASE ~(m < l)
  <2>1. l < m + 1 /\ m + 1 \in Int /\ 17 - (d + m) = 0 /\ 1 .. 0 = {}
    BY <1>1, <1>6
  <2>2. SubSeq(stack, m + 1, l) = << >>
    BY <1>1, <2>1, SubSeqEmpty
  <2>3. stack' = << >>
    BY <1>2, <2>2
  <2>4. stack' \in Seq(S) /\ Len(stack') = 0
    BY <2>3
  <2>5. 1 .. 17 - (d + m) = {}
    BY <2>1
  <2>. QED  BY <2>1, <2>4, <2>5, Zenon
<1>. QED  BY <1>5, <1>6

LEMMA FrameSeq ==
  ASSUME NEW S, NEW f \in [1 .. 17 -> S] PROVE f \in Seq(S) /\ Len(f) = 17
<1>1. 17 \in Nat /\ f = [k \in 1 .. 17 |-> f[k]]
      /\ \A k \in 1 .. 17 : f[k] \in S
  OBVIOUS
<1>2. [k \in 1 .. 17 |-> f[k]] \in Seq(S) /\ Len([k \in 1 .. 17 |-> f[k]]) = 17
  BY <1>1
<1>. QED  BY <1>1, <1>2

(* One instruction of run() before the last.                               *)
LEMMA RunStep ==
  ASSUME MInv, Settled, NEW k, RunPlace(k), k <= 5, code' = Tail(code),
         Unchanged, CpuTypes', stack' \in Seq(Words), Popped(Dropped(k + 1))'
  PROVE  Types' /\ Control' /\ Resuming
<1>1. /\ k \in 1 .. 6 /\ InRun(k) /\ code' = Suffix(RunCode(current), k + 1)
      /\ LastOperation = "iret"
  BY DEF RunPlace
<1>2. k + 1 \in 1 .. 6
  BY <1>1
<1>3. UNCHANGED <<allow_clock_interrupt, bus, loaded, current, p_registers,
                 trap>>
  BY DEF Unchanged
<1>4. RunNext(code', current, k + 1)
  BY <1>1, <1>2, Known, AtRun
<1>5. ~UserMode' /\ LastOperation' = "iret"
  BY <1>4, Zenon DEF RunNext, UserMode, LastOperation
<1>6. InRun(k + 1)'
  BY <1>1, <1>3, Zenon DEF InRun
<1>7. Settled'
  BY <1>3, Zenon DEF Settled, Saved, MasterAt, Masked, bus
<1>8. Control'
  BY <1>2, <1>6, <1>7 DEF Control, Kernel
<1>9. Len(stack') <= 17
  <2>1. Dropped(k + 1) \in Nat
    BY <1>2 DEF Dropped
  <2>2. Len(stack') = 17 - Dropped(k + 1)
    BY DEF Popped
  <2>. QED  BY <2>1, <2>2
<1>10. Types'
  <2>1. StackTypes'
    BY <1>9 DEF StackTypes
  <2>2. OtherTypes' /\ DescriptorTypes'
    BY <1>3, Zenon DEF MInv, Types, OtherTypes, DescriptorTypes
  <2>3. ChipTypes'
    BY <1>3, SameChips DEF MInv, Types
  <2>. QED  BY <2>1, <2>2, <2>3 DEF Types
<1>. QED  BY <1>1, <1>3, <1>5, <1>8, <1>10 DEF Resuming

(* What run() needs to know of the descriptor.                             *)
LEMMA DescriptorIs ==
  ASSUME MInv, Settled, trap.n \in Cases
  PROVE  /\ \E c \in UserContexts :
            \A r \in Registers : Descriptor[Offset(r)] = c[r]
         /\ Descriptor \in [1 .. 17 -> Words]
<1>1. current \in Procs /\ DescriptorTypes
  BY DEF MInv, Types, OtherTypes
<1>2. Descriptor \in [1 .. 17 -> Words]
  <2>. HIDE DEF Words
  <2>. QED  BY <1>1 DEF DescriptorTypes, Descriptor
<1>3. Saved(current)
  BY <1>1 DEF Settled
<1>. QED  BY <1>2, <1>3 DEF Saved, Descriptor

LEMMA LoadEspKeeps ==
  ASSUME MInv, LoadEsp PROVE Types' /\ Control' /\ Resuming
<1>1. ~UserMode /\ Op = "load_esp"
  BY DEF LoadEsp, At, Op
<1>2. Settled
  BY <1>1, Place DEF BootOperations
<1>3. PICK k : RunPlace(k)
  BY <1>1, Running DEF RunOperations
<1>4. k = 1 /\ Arg = current /\ trap.n \in Cases
  BY <1>1, <1>3 DEF RunPlace, InRun
<1>5. stack' = Descriptor /\ code' = Tail(code) /\ cpu' = cpu /\ Unchanged
  BY <1>4 DEF LoadEsp, Continue, Descriptor
<1>6. stack' \in Seq(Words) /\ Len(stack') = 17
  <2>1. Descriptor \in [1 .. 17 -> Words]
    BY <1>2, <1>4, DescriptorIs
  <2>. HIDE DEF Words
  <2>2. Descriptor \in Seq(Words) /\ Len(Descriptor) = 17
    BY <2>1, FrameSeq, Zenon
  <2>. QED  BY <1>5, <2>2
<1>7. Popped(0)'
  <2>1. current' = current /\ p_registers' = p_registers
    BY <1>5 DEF Unchanged
  <2>2. \A r \in Registers : ~(Offset(r) <= 0)
    <3>1. \A r \in Registers : Offset(r) \in 1 .. 17
      BY OffsetFacts DEF Registers
    <3>. QED  BY <3>1
  <2>3. \A i \in 1 .. 17 - 0 : stack'[i] = p_registers'[current'][i + 0]
    BY <1>5, <2>1 DEF Descriptor
  <2>4. Len(stack') = 17 - 0
    BY <1>6
  <2>. QED  BY <2>2, <2>3, <2>4 DEF Popped
<1>8. CpuTypes'
  BY <1>5, Zenon DEF MInv, Types, CpuTypes
<1>9. k <= 5 /\ Dropped(k + 1) = 0
  BY <1>4, DroppedIs
<1>. QED  BY <1>2, <1>3, <1>5, <1>6, <1>7, <1>8, <1>9, RunStep

LEMMA PopalKeeps ==
  ASSUME MInv, Popal PROVE Types' /\ Control' /\ Resuming
<1>1. ~UserMode /\ Op = "popal"
  BY DEF Popal, At, Op
<1>2. Settled
  BY <1>1, Place DEF BootOperations
<1>3. PICK k : RunPlace(k)
  BY <1>1, Running DEF RunOperations
<1>4. k = 2 /\ trap.n \in Cases /\ Popped(0)
  BY <1>1, <1>3, DroppedIs DEF RunPlace, InRun
<1>5. /\ cpu' = [r \in Registers |->
                   IF \E i \in DOMAIN pushal : pushal[i] = r
                   THEN stack[Offset(r)] ELSE cpu[r]]
      /\ Drop(8) /\ code' = Tail(code) /\ Unchanged
  <2>1. Len(pushal) = 8
    BY DEF pushal
  <2>. QED  BY <2>1 DEF Popal, Continue
<1>6. PICK c \in UserContexts : \A r \in Registers :
        Descriptor[Offset(r)] = c[r]
  BY <1>2, <1>4, DescriptorIs
<1>7. UserLike(c) /\ CpuTypes /\ stack \in Seq(Words)
  BY <1>6, UserFacts DEF MInv, Types, StackTypes
<1>8. ASSUME NEW r \in Registers
      PROVE  /\ Offset(r) <= 8 => cpu'[r] = c[r]
             /\ ~(Offset(r) <= 8) => cpu'[r] = cpu[r]
  <2>1. Offset(r) \in 1 .. 17 /\ registers_t[Offset(r)] = r
    BY OffsetFacts DEF Registers
  <2>2. /\ DOMAIN pushal = 1 .. 8
        /\ \A i \in 1 .. 8 : pushal[i] = registers_t[i]
    BY DEF pushal, registers_t
  <2>3. CASE Offset(r) <= 8
    <3>1. Offset(r) \in 1 .. 8
      BY <2>1, <2>3
    <3>2. \E i \in DOMAIN pushal : pushal[i] = r
      BY <2>1, <2>2, <3>1
    <3>3. cpu'[r] = stack[Offset(r)]
      BY <1>5, <3>2
    <3>4. stack[Offset(r)] = Descriptor[Offset(r)]
      <4>1. \A i \in 1 .. 17 - 0 : stack[i] = Descriptor[i + 0]
        BY <1>4 DEF Popped, Descriptor
      <4>2. Offset(r) \in 1 .. 17 - 0 /\ Offset(r) + 0 = Offset(r)
        BY <2>1
      <4>. QED  BY <4>1, <4>2
    <3>. QED  BY <1>6, <2>3, <3>3, <3>4
  <2>4. CASE ~(Offset(r) <= 8)
    <3>1. ~ \E i \in DOMAIN pushal : pushal[i] = r
      <4>1. ASSUME NEW i \in 1 .. 8, pushal[i] = r PROVE FALSE
        <5>1. i \in 1 .. 17 /\ registers_t[i] = r
          BY <2>2, <4>1
        <5>2. Offset(r) = i
          BY <5>1, OffsetFacts
        <5>. QED  BY <2>4, <5>2
      <4>. QED  BY <2>2, <4>1
    <3>. QED  BY <1>5, <2>4, <3>1
  <2>. QED  BY <2>3, <2>4
<1>9. CpuTypes'
  <2>1. ASSUME NEW r \in Registers
        PROVE  cpu'[r] \in Words /\ (r # "eax" => cpu'[r][1] = KindOf(r))
    <3>1. c[r] \in Words /\ c[r][1] = KindOf(r)
      <4>. HIDE DEF Words
      <4>. QED  BY <1>7 DEF UserLike
    <3>2. cpu[r] \in Words /\ (r # "eax" => cpu[r][1] = KindOf(r))
      <4>. HIDE DEF Words
      <4>. QED  BY <1>7 DEF CpuTypes
    <3>. QED  BY <1>8, <3>1, <3>2
  <2>2. cpu' = [r \in Registers |-> cpu'[r]]
    BY <1>5
  <2>3. cpu' \in [Registers -> Words]
    <3>. HIDE DEF Words
    <3>. QED  BY <2>1, <2>2
  <2>. QED  BY <2>1, <2>3 DEF CpuTypes
<1>10. /\ stack' \in Seq(Words) /\ Len(stack') = 17 - 8
       /\ \A i \in 1 .. 17 - 8 : stack'[i] = Descriptor[i + 8]
  <2>1. 0 \in Nat /\ 8 \in Nat /\ 0 + 8 <= 17 /\ 0 + 8 = 8
    OBVIOUS
  <2>2. Drop(8)
    BY <1>5
  <2>. HIDE DEF Words
  <2>3. /\ stack' \in Seq(Words) /\ Len(stack') = 17 - (0 + 8)
        /\ \A i \in 1 .. 17 - (0 + 8) : stack'[i] = Descriptor[i + (0 + 8)]
    BY <1>4, <1>7, <2>1, <2>2, DropMore
  <2>. QED  BY <2>3
<1>11. Popped(8)'
  <2>1. current' = current /\ p_registers' = p_registers
    BY <1>5 DEF Unchanged
  <2>2. \A r \in Registers :
          Offset(r) <= 8 => cpu'[r] = p_registers'[current'][Offset(r)]
    BY <1>6, <1>8, <2>1 DEF Descriptor
  <2>. QED  BY <1>10, <2>1, <2>2, Zenon DEF Popped, Descriptor
<1>12. k <= 5 /\ Dropped(k + 1) = 8
  BY <1>4, DroppedIs
<1>. QED  BY <1>2, <1>3, <1>5, <1>9, <1>10, <1>11, <1>12, RunStep

LEMMA NextWord ==
  ASSUME NEW S, stack \in Seq(S), NEW d \in 0 .. 16, Popped(d)
  PROVE  Head(stack) = Descriptor[d + 1] /\ stack[1] = Descriptor[d + 1]
<1>1. 1 \in 1 .. 17 - d /\ 1 + d = d + 1 /\ Len(stack) = 17 - d
  BY DEF Popped
<1>2. \A i \in 1 .. 17 - d : stack[i] = Descriptor[i + d]
  BY DEF Popped, Descriptor
<1>3. stack[1] = Descriptor[d + 1]
  BY <1>1, <1>2
<1>4. Head(stack) = stack[1]
  <2>1. Len(stack) # 0
    BY <1>1
  <2>. QED  BY <2>1
<1>. QED  BY <1>3, <1>4

LEMMA PopSegmentKeeps ==
  ASSUME MInv, PopSegment PROVE Types' /\ Control' /\ Resuming
<1>1. ~UserMode /\ Op = "pop_register"
  BY DEF PopSegment, At, Op
<1>2. Settled
  BY <1>1, Place DEF BootOperations
<1>3. PICK k : RunPlace(k)
  BY <1>1, Running DEF RunOperations
<1>. DEFINE s == IF k = 3 THEN "es" ELSE "ds"
            d == Dropped(k)
<1>4. /\ (k = 3 /\ Arg = "es") \/ (k = 4 /\ Arg = "ds")
      /\ trap.n \in Cases
      /\ k >= 2 => Popped(d)
  BY <1>1, <1>3 DEF RunPlace, InRun
<1>5. /\ Arg = s /\ Popped(d) /\ d \in {8, 9} /\ s \in {"es", "ds"}
      /\ Offset(s) = d + 1 /\ Dropped(k + 1) = d + 1 /\ trap.n \in Cases
      /\ k <= 5
  <2>1. CASE k = 3 /\ Arg = "es"
    <3>1. d = 8 /\ Dropped(k + 1) = 9 /\ s = "es" /\ k >= 2 /\ k <= 5
      BY <2>1, DroppedIs
    <3>2. 8 + 1 = 9
      OBVIOUS
    <3>. HIDE DEF d, s
    <3>. QED  BY <1>4, <2>1, <3>1, <3>2, Offsets
  <2>2. CASE k = 4 /\ Arg = "ds"
    <3>1. d = 9 /\ Dropped(k + 1) = 10 /\ s = "ds" /\ k >= 2 /\ k <= 5
      BY <2>2, DroppedIs
    <3>2. 9 + 1 = 10
      OBVIOUS
    <3>. HIDE DEF d, s
    <3>. QED  BY <1>4, <2>2, <3>1, <3>2, Offsets
  <2>. QED  BY <1>4, <2>1, <2>2
<1>. HIDE DEF s, d
<1>6. PICK c \in UserContexts : \A r \in Registers :
        Descriptor[Offset(r)] = c[r]
  BY <1>2, <1>5, DescriptorIs
<1>7. UserLike(c) /\ CpuTypes /\ stack \in Seq(Words)
  BY <1>6, UserFacts DEF MInv, Types, StackTypes
<1>8. s \in Registers /\ s # "eax" /\ KindOf(s) = "selector"
  BY <1>5, RegistersAre, KindsAre
<1>9. Head(stack) = c[s]
  <2>1. d \in 0 .. 16
    BY <1>5
  <2>. HIDE DEF Words
  <2>. QED  BY <1>5, <1>6, <1>7, <1>8, <2>1, NextWord
<1>10. IsSelector(c[s], DataLoadable)
  <2>1. c.es[1] = "selector" /\ c.es[2] = AppData
    BY <1>7 DEF UserLike, Selector
  <2>. QED  BY <1>5, <1>7, <2>1, Loadable DEF IsSelector, UserLike
<1>11. /\ cpu' = [cpu EXCEPT ![s] = c[s]]
       /\ Drop(1) /\ code' = Tail(code) /\ Unchanged
  BY <1>5, <1>9, <1>10, Zenon DEF PopSegment, Continue
<1>12. /\ cpu'[s] = c[s] /\ \A r \in Registers \ {s} : cpu'[r] = cpu[r]
       /\ cpu' = [r \in Registers |-> cpu'[r]]
  <2>. HIDE DEF Words
  <2>. QED  BY <1>7, <1>8, <1>11 DEF CpuTypes
<1>13. CpuTypes'
  <2>1. ASSUME NEW r \in Registers
        PROVE  cpu'[r] \in Words /\ (r # "eax" => cpu'[r][1] = KindOf(r))
    <3>1. c[s] \in Words /\ c[s][1] = KindOf(s)
      <4>. HIDE DEF Words
      <4>. QED  BY <1>7, <1>8 DEF UserLike
    <3>2. cpu[r] \in Words /\ (r # "eax" => cpu[r][1] = KindOf(r))
      <4>. HIDE DEF Words
      <4>. QED  BY <1>7 DEF CpuTypes
    <3>. QED  BY <1>12, <3>1, <3>2
  <2>2. cpu' \in [Registers -> Words]
    <3>. HIDE DEF Words
    <3>. QED  BY <1>12, <2>1
  <2>. QED  BY <2>1, <2>2 DEF CpuTypes
<1>14. /\ stack' \in Seq(Words) /\ Len(stack') = 17 - (d + 1)
       /\ \A i \in 1 .. 17 - (d + 1) : stack'[i] = Descriptor[i + (d + 1)]
  <2>1. d \in Nat /\ 1 \in Nat /\ d + 1 <= 17
    BY <1>5
  <2>. HIDE DEF Words
  <2>. QED  BY <1>5, <1>7, <1>11, <2>1, DropMore
<1>15. Popped(d + 1)'
  <2>1. current' = current /\ p_registers' = p_registers
    BY <1>11 DEF Unchanged
  <2>2. ASSUME NEW r \in Registers, Offset(r) <= d + 1
        PROVE  cpu'[r] = p_registers'[current'][Offset(r)]
    <3>1. CASE r = s
      BY <1>6, <1>12, <2>1, <3>1 DEF Descriptor
    <3>2. CASE r # s
      <4>1. Offset(r) <= d
        <5>1. /\ Offset(r) \in 1 .. 17 /\ registers_t[Offset(r)] = r
              /\ registers_t[d + 1] = s
          BY <1>5, <1>8, OffsetFacts DEF Registers
        <5>2. Offset(r) # d + 1
          BY <3>2, <5>1
        <5>. QED  BY <1>5, <2>2, <5>1, <5>2
      <4>2. cpu[r] = p_registers[current][Offset(r)]
        BY <1>5, <4>1 DEF Popped
      <4>. QED  BY <1>12, <2>1, <3>2, <4>2
    <3>. QED  BY <3>1, <3>2
  <2>. QED  BY <1>14, <2>1, <2>2, Zenon DEF Popped, Descriptor
<1>. QED
  BY <1>2, <1>3, <1>5, <1>11, <1>13, <1>14, <1>15, RunStep

LEMMA AddEspKeeps ==
  ASSUME MInv, AddEsp PROVE Types' /\ Control' /\ Resuming
<1>1. ~UserMode /\ Op = "add_esp"
  BY DEF AddEsp, At, Op
<1>2. Settled
  BY <1>1, Place DEF BootOperations
<1>3. PICK k : RunPlace(k)
  BY <1>1, Running DEF RunOperations
<1>4. k = 5 /\ Arg = 2 /\ trap.n \in Cases /\ Popped(10)
  BY <1>1, <1>3, DroppedIs DEF RunPlace, InRun
<1>5. Drop(2) /\ code' = Tail(code) /\ cpu' = cpu /\ Unchanged
  BY <1>4 DEF AddEsp, Continue
<1>6. CpuTypes /\ stack \in Seq(Words)
  BY DEF MInv, Types, StackTypes
<1>7. /\ stack' \in Seq(Words) /\ Len(stack') = 17 - (10 + 2)
      /\ \A i \in 1 .. 17 - (10 + 2) : stack'[i] = Descriptor[i + (10 + 2)]
  <2>1. 10 \in Nat /\ 2 \in Nat /\ 10 + 2 <= 17
    OBVIOUS
  <2>. HIDE DEF Words
  <2>. QED  BY <1>4, <1>5, <1>6, <2>1, DropMore
<1>8. Popped(12)'
  <2>1. current' = current /\ p_registers' = p_registers
    BY <1>5 DEF Unchanged
  <2>2. ASSUME NEW r \in Registers, Offset(r) <= 12
        PROVE  cpu'[r] = p_registers'[current'][Offset(r)]
    <3>1. Offset(r) \in 1 .. 17 /\ registers_t[Offset(r)] = r
      BY OffsetFacts DEF Registers
    <3>2. Offset(r) # 11 /\ Offset(r) # 12
      BY <3>1, Positions, RegistersAre
    <3>3. Offset(r) <= 10
      BY <2>2, <3>1, <3>2
    <3>. QED  BY <1>4, <1>5, <2>1, <3>3 DEF Popped
  <2>3. 10 + 2 = 12
    OBVIOUS
  <2>4. /\ Len(stack') = 17 - 12
        /\ \A i \in 1 .. 17 - 12 : stack'[i] = Descriptor[i + 12]
    BY <1>7, <2>3
  <2>. QED  BY <2>1, <2>2, <2>4, Zenon DEF Popped, Descriptor
<1>9. CpuTypes'
  BY <1>5, <1>6, Zenon DEF CpuTypes
<1>10. k <= 5 /\ Dropped(k + 1) = 12
  BY <1>4, DroppedIs
<1>. QED  BY <1>2, <1>3, <1>5, <1>7, <1>8, <1>9, <1>10, RunStep

-----------------------------------------------------------------------------
(* iretl: the process has again what its descriptor holds.                 *)
Returning ==
  /\ UserMode' /\ LastOperation = "iret" /\ trap.n \in Cases
  /\ current' = current /\ p_registers' = p_registers /\ trap' = trap
  /\ \A r \in Registers : cpu'[r] = p_registers[current][Offset(r)]

LEMMA IretKeeps ==
  ASSUME MInv, Iret PROVE Types' /\ Control' /\ Returning
<1>1. ~UserMode /\ Op = "iret"
  BY DEF Iret, At, Op
<1>2. Settled
  BY <1>1, Place DEF BootOperations
<1>3. PICK k : RunPlace(k)
  BY <1>1, Running DEF RunOperations
<1>4. /\ k = 6 /\ trap.n \in Cases /\ Popped(12) /\ LastOperation = "iret"
      /\ Tail(code) = Suffix(RunCode(current), k + 1)
  BY <1>1, <1>3, DroppedIs DEF RunPlace, InRun
<1>5. PICK c \in UserContexts : \A r \in Registers :
        Descriptor[Offset(r)] = c[r]
  BY <1>2, <1>4, DescriptorIs
<1>6. UserLike(c) /\ CpuTypes /\ stack \in Seq(Words)
  BY <1>5, UserFacts DEF MInv, Types, StackTypes
<1>7. /\ Len(stack) = 5 /\ stack[1] = c.eip /\ stack[2] = c.cs
      /\ stack[3] = c.eflags /\ stack[4] = c.esp /\ stack[5] = c.ss
  <2>1. Len(stack) = 5 /\ \A i \in 1 .. 5 : stack[i] = Descriptor[i + 12]
    <3>1. /\ Len(stack) = 17 - 12
          /\ \A i \in 1 .. 17 - 12 : stack[i] = Descriptor[i + 12]
      BY <1>4 DEF Popped, Descriptor
    <3>2. 17 - 12 = 5
      OBVIOUS
    <3>. QED  BY <3>1, <3>2
  <2>2. /\ stack[1] = Descriptor[13] /\ stack[2] = Descriptor[14]
        /\ stack[3] = Descriptor[15] /\ stack[4] = Descriptor[16]
        /\ stack[5] = Descriptor[17]
    BY <2>1
  <2>3. /\ Descriptor[13] = c.eip /\ Descriptor[14] = c.cs
        /\ Descriptor[15] = c.eflags /\ Descriptor[16] = c.esp
        /\ Descriptor[17] = c.ss
    BY <1>5, Offsets, RegistersAre
  <2>. QED  BY <2>1, <2>2, <2>3
<1>8. ToUser
  <2>1. IsSelector(c.cs, LAMBDA sel : CodeLoadable(sel, 3))
    BY <1>6, Loadable DEF UserLike, Selector, IsSelector
  <2>2. IsSelector(c.ss, LAMBDA sel : StackLoadable(sel, 3))
    BY <1>6, Loadable DEF UserLike, Selector, IsSelector
  <2>. QED  BY <1>6, <1>7, <2>1, <2>2 DEF ToUser, UserLike
<1>9. /\ cpu' = [cpu EXCEPT !.eip = c.eip, !.cs = c.cs, !.eflags = c.eflags,
                            !.esp = c.esp, !.ss = c.ss]
      /\ Drop(5) /\ code' = Tail(code) /\ Unchanged
  BY <1>7, <1>8, Zenon DEF Iret, Continue
<1>10. cpu' = c
  <2>1. cpu \in [Registers -> Words] /\ c \in [Registers -> Words]
    BY <1>6 DEF CpuTypes, UserLike
  <2>2. \A r \in Registers \ {"eip", "cs", "eflags", "esp", "ss"} :
          cpu[r] = c[r]
    <3>1. ASSUME NEW r \in Registers \ {"eip", "cs", "eflags", "esp", "ss"}
          PROVE  cpu[r] = c[r]
      <4>1. Offset(r) \in 1 .. 17 /\ registers_t[Offset(r)] = r
        BY OffsetFacts DEF Registers
      <4>2. Offset(r) \notin {13, 14, 15, 16, 17}
        BY <4>1, Positions
      <4>3. Offset(r) <= 12
        BY <4>1, <4>2
      <4>4. cpu[r] = Descriptor[Offset(r)]
        BY <1>4, <4>3 DEF Popped, Descriptor
      <4>. QED  BY <1>5, <4>4
    <3>. QED  BY <3>1
  <2>3. {"eip", "cs", "eflags", "esp", "ss"} \subseteq Registers
    BY RegistersAre
  <2>4. DOMAIN cpu = Registers /\ c = [r \in Registers |-> c[r]]
    <3>. HIDE DEF Words
    <3>. QED  BY <2>1
  <2>5. /\ cpu' = [r \in Registers |-> cpu'[r]]
        /\ cpu'.eip = c.eip /\ cpu'.cs = c.cs /\ cpu'.eflags = c.eflags
        /\ cpu'.esp = c.esp /\ cpu'.ss = c.ss
        /\ \A r \in Registers \ {"eip", "cs", "eflags", "esp", "ss"} :
             cpu'[r] = cpu[r]
    BY <1>9, <2>3, <2>4
  <2>6. \A r \in Registers : cpu'[r] = c[r]
    BY <2>2, <2>5
  <2>. QED  BY <2>4, <2>5, <2>6
<1>11. stack' = << >>
  <2>1. 12 \in Nat /\ 5 \in Nat /\ 12 + 5 <= 17 /\ Drop(5)
    BY <1>9
  <2>2. stack' \in Seq(Words) /\ Len(stack') = 17 - (12 + 5)
    <3>. HIDE DEF Words
    <3>. QED  BY <1>4, <1>6, <2>1, DropMore
  <2>3. 17 - (12 + 5) = 0
    OBVIOUS
  <2>. HIDE DEF Words
  <2>. QED  BY <2>2, <2>3
<1>12. code' = << >>
  <2>1. code' = Suffix(RunCode(current), 7)
    BY <1>4, <1>9
  <2>. QED  BY <2>1, Known, RunCodeEnds
<1>13. UNCHANGED <<allow_clock_interrupt, bus, loaded, current, p_registers,
                  trap>>
  BY <1>9 DEF Unchanged
<1>14. InUser'
  BY <1>4, <1>5, <1>10, <1>11, <1>12, <1>13 DEF InUser, UserContexts
<1>15. Settled'
  BY <1>2, <1>13, Zenon DEF Settled, Saved, MasterAt, Masked, bus
<1>16. Control'
  BY <1>14, <1>15 DEF Control, Kernel
<1>17. Types'
  <2>1. CpuTypes'
    BY <1>6, <1>10, Zenon DEF UserLike, CpuTypes
  <2>2. OtherTypes' /\ DescriptorTypes'
    BY <1>13, Zenon DEF MInv, Types, OtherTypes, DescriptorTypes
  <2>3. ChipTypes'
    BY <1>13, SameChips DEF MInv, Types
  <2>4. StackTypes'
    <3>1. << >> \in Seq(Words) /\ Len(<< >>) = 0
      <4>. HIDE DEF Words
      <4>. QED  OBVIOUS
    <3>. QED  BY <1>11, <3>1 DEF StackTypes
  <2>. QED  BY <2>1, <2>2, <2>3, <2>4 DEF Types
<1>18. UserMode'
  BY <1>12 DEF UserMode
<1>. QED
  BY <1>4, <1>5, <1>10, <1>13, <1>16, <1>17, <1>18 DEF Returning, Descriptor

-----------------------------------------------------------------------------
(***************************************************************************)
(* Processes and devices; every step keeps MInv.                           *)
(***************************************************************************)
(* What the devices ask for changes no place.                              *)
LEMMA KernelSame ==
  ASSUME UNCHANGED machine, Kernel PROVE Kernel'
<1>1. UNCHANGED <<cpu, stack, code, loaded, current, p_registers, trap>>
  BY DEF machine
<1>2. InUser => InUser'
  BY <1>1 DEF InUser
<1>3. ASSUME NEW k \in 0 .. 6, NEW x \in 0 .. 255, InStub(k, x)
      PROVE  InStub(k, x)'
  <2>1. Pushed => Pushed'
    BY <1>1, Zenon DEF Pushed, OnTheStack
  <2>. QED  BY <1>1, <1>3, <2>1, Zenon DEF InStub
<1>4. InSchedule => InSchedule'
  BY <1>1 DEF InSchedule
<1>5. ASSUME NEW k \in 1 .. 6, InRun(k) PROVE InRun(k)'
  <2>1. Popped(Dropped(k)) => Popped(Dropped(k))'
    BY <1>1, Zenon DEF Popped
  <2>. QED  BY <1>1, <1>5, <2>1, Zenon DEF InRun
<1>6. Stopped => Stopped'
  BY <1>1 DEF Stopped
<1>. QED  BY <1>2, <1>3, <1>4, <1>5, <1>6 DEF Kernel

MasterGoesOn == \A j \in Nat : MasterAt(j) => MasterAt(j)'

LEMMA ChipsOnly ==
  ASSUME MInv, UNCHANGED allow_clock_interrupt, UNCHANGED machine, ChipTypes',
         MasterGoesOn
  PROVE  Types' /\ Control'
<1>1. UNCHANGED <<cpu, stack, code, loaded, current, p_registers, trap>>
  BY DEF machine
<1>2. Types'
  <2>1. OtherTypes' /\ CpuTypes' /\ StackTypes' /\ DescriptorTypes'
    BY <1>1, Zenon DEF MInv, Types, OtherTypes, CpuTypes, StackTypes,
       DescriptorTypes
  <2>. QED  BY <2>1 DEF Types
<1>3. InStart => InStart'
  <2>1. ASSUME NEW j \in 1 .. Len(start(allow_clock_interrupt)), Starting(j)
        PROVE  InStart'
    <3>1. Len(start(allow_clock_interrupt)) \in Nat
      BY Known, StartIs
    <3>2. j \in Nat
      BY <3>1
    <3>3. MasterAt(j)'
      BY <2>1, <3>2 DEF Starting, MasterGoesOn
    <3>4. Starting(j)'
      BY <1>1, <2>1, <3>3, Zenon DEF Starting
    <3>. QED  BY <3>4, Zenon DEF InStart
  <2>. QED  BY <2>1 DEF InStart
<1>4. Settled => Settled'
  <2>1. 19 \in Nat
    OBVIOUS
  <2>2. MasterAt(19) => MasterAt(19)'
    BY <2>1 DEF MasterGoesOn
  <2>3. \A p \in Procs : Saved(p) => Saved(p)'
    BY <1>1, Zenon DEF Saved
  <2>. QED  BY <1>1, <2>2, <2>3 DEF Settled
<1>5. Kernel => Kernel'
  BY KernelSame
<1>. QED  BY <1>2, <1>3, <1>4, <1>5 DEF MInv, Control

LEMMA DeviceKeeps ==
  ASSUME MInv, NEW line \in Devices, DeviceStep(line)
  PROVE  Types' /\ Control' /\ UNCHANGED machine
<1>1. Raise(line) /\ UNCHANGED allow_clock_interrupt /\ UNCHANGED machine
  BY DEF DeviceStep
<1>2. /\ ChipTypes' /\ master'.icw = master.icw
      /\ master'.base = master.base /\ master'.imr = master.imr
  BY <1>1, RaiseKeeps DEF MInv, Types
<1>3. MasterGoesOn
  BY <1>1, <1>2, MasterKept DEF MasterGoesOn
<1>. QED  BY <1>1, <1>2, <1>3, ChipsOnly

LEMMA NothingKeeps ==
  ASSUME MInv, UNCHANGED vars
  PROVE  Types' /\ Control' /\ UNCHANGED machine
<1>1. UNCHANGED allow_clock_interrupt /\ UNCHANGED bus /\ UNCHANGED machine
  BY DEF vars
<1>2. ChipTypes'
  BY <1>1, SameChips DEF MInv, Types
<1>3. MasterGoesOn
  <2>1. master' = master
    BY <1>1 DEF bus
  <2>. QED  BY <1>1, <2>1, MasterKept DEF MasterGoesOn
<1>. QED  BY <1>1, <1>2, <1>3, ChipsOnly

(* A process computes. *)
Computing ==
  /\ UserMode /\ UserMode' /\ trap.n \in Cases
  /\ current' = current /\ p_registers' = p_registers /\ trap' = trap

LEMMA InstructionKeeps ==
  ASSUME MInv, UserInstruction PROVE Types' /\ Control' /\ Computing
<1>1. UserMode
  BY DEF UserInstruction
<1>2. Settled /\ InUser
  BY <1>1, UserPlace
<1>3. Enabled = TRUE
  <2>1. UserLike(cpu)
    BY <1>2, UserFacts DEF InUser
  <2>. QED  BY <2>1 DEF UserLike, Enabled
<1>4. PICK v \in Values : cpu' = UserRegisters(v, TRUE)
  BY <1>3 DEF UserInstruction
<1>5. UNCHANGED <<allow_clock_interrupt, bus, stack, code, loaded, current,
                  p_registers, trap>>
  BY DEF UserInstruction, Unchanged
<1>6. cpu' \in UserContexts
  BY <1>4 DEF UserContexts
<1>7. InUser'
  BY <1>2, <1>5, <1>6 DEF InUser
<1>8. Settled'
  BY <1>2, <1>5, Zenon DEF Settled, Saved, MasterAt, Masked, bus
<1>9. Control'
  BY <1>7, <1>8 DEF Control, Kernel
<1>10. Types'
  <2>1. CpuTypes'
    BY <1>6, UserFacts, Zenon DEF UserLike, CpuTypes
  <2>2. OtherTypes' /\ DescriptorTypes' /\ StackTypes'
    BY <1>5, Zenon DEF MInv, Types, OtherTypes, DescriptorTypes, StackTypes
  <2>3. ChipTypes'
    BY <1>5, SameChips DEF MInv, Types
  <2>. QED  BY <2>1, <2>2, <2>3 DEF Types
<1>11. UserMode' /\ trap.n \in Cases
  BY <1>2, <1>7 DEF InUser, UserMode
<1>. QED  BY <1>1, <1>5, <1>9, <1>10, <1>11 DEF Computing

-----------------------------------------------------------------------------
LEMMA KernelKeeps ==
  ASSUME MInv, KernelStep PROVE Types' /\ Control' /\ trap' = trap
<1>1. CASE LoadTables
  BY <1>1, LoadTablesKeeps
<1>2. CASE PortWrite
  BY <1>2, PortWriteKeeps
<1>3. CASE InitProcesses
  BY <1>3, InitProcessesKeeps
<1>4. CASE SaveRegisters
  BY <1>4, SaveRegistersKeeps DEF Saving
<1>5. CASE LoadKernelData
  BY <1>5, LoadKernelDataKeeps DEF Saving
<1>6. CASE Interrupt
  BY <1>6, InterruptKeeps DEF Taken
<1>7. CASE Schedule
  BY <1>7, ScheduleKeeps
<1>8. CASE LoadEsp
  BY <1>8, LoadEspKeeps DEF Resuming
<1>9. CASE Popal
  BY <1>9, PopalKeeps DEF Resuming
<1>10. CASE PopSegment
  BY <1>10, PopSegmentKeeps DEF Resuming
<1>11. CASE AddEsp
  BY <1>11, AddEspKeeps DEF Resuming
<1>12. CASE Iret
  BY <1>12, IretKeeps DEF Returning
<1>13. CASE Spin
  <2>1. UNCHANGED vars
    BY <1>13 DEF Spin
  <2>. QED  BY <2>1, NothingKeeps DEF machine
<1>. QED
  BY <1>1, <1>2, <1>3, <1>4, <1>5, <1>6, <1>7, <1>8, <1>9, <1>10, <1>11, <1>12,
     <1>13 DEF KernelStep

LEMMA SameTrap == ASSUME BlamesTheProcess, trap' = trap PROVE BlamesTheProcess'
BY DEF BlamesTheProcess

LEMMA NextMInv ==
  ASSUME MInv, [Next]_vars PROVE MInv'
<1>1. Inv'
  BY NextInv DEF MInv
<1>2. Types' /\ Control' /\ BlamesTheProcess'
  <2>1. CASE KernelStep
    BY <2>1, KernelKeeps, SameTrap DEF MInv
  <2>2. CASE UserInstruction
    BY <2>2, InstructionKeeps, SameTrap DEF MInv, Computing
  <2>3. ASSUME NEW n \in Interrupts, SoftwareInterrupt(n)
        PROVE  Types' /\ Control' /\ BlamesTheProcess'
    BY <2>3, SoftwareKeeps
  <2>4. ASSUME NEW e \in Exceptions, UserException(e)
        PROVE  Types' /\ Control' /\ BlamesTheProcess'
    BY <2>4, ExceptionKeeps
  <2>5. CASE HardwareInterrupt
    <3>1. Types' /\ Control' /\ trap'.n = INT_CLOCK
      BY <2>5, HardwareKeeps
    <3>. QED  BY <3>1 DEF BlamesTheProcess, Cases
  <2>6. ASSUME NEW line \in Devices, DeviceStep(line)
        PROVE  Types' /\ Control' /\ BlamesTheProcess'
    BY <2>6, DeviceKeeps, SameTrap DEF MInv, machine
  <2>7. CASE UNCHANGED vars
    BY <2>7, NothingKeeps, SameTrap DEF MInv, machine
  <2>. QED  BY <2>1, <2>2, <2>3, <2>4, <2>5, <2>6, <2>7 DEF Next, UserTrap
<1>. QED  BY <1>1, <1>2 DEF MInv

LEMMA InitialCpu ==
  ASSUME Init PROVE CpuTypes
<1>. DEFINE u == UserRegisters(0, FALSE)
            a == Selector(SEGSEL_KERN_CODE)
            b == Selector(SEGSEL_KERN_DATA)
<1>1. /\ u \in [Registers -> Words] /\ \A r \in Registers : u[r][1] = KindOf(r)
  BY MachineAssumption, UserRegistersAre
<1>2. /\ a \in Words /\ b \in Words
      /\ a[1] = "selector" /\ b[1] = "selector"
  <2>1. SEGSEL_KERN_DATA \in 0 .. 255 /\ SEGSEL_KERN_CODE \in 0 .. 255
    BY DEF SEGSEL_KERN_DATA, SEGSEL_KERN_CODE
  <2>2. a \in Words /\ b \in Words
    BY <2>1, WordKinds
  <2>. QED  BY <2>2 DEF Selector
<1>3. cpu = [u EXCEPT !.cs = a, !.ss = b, !.ds = b, !.es = b]
  BY DEF Init
<1>. HIDE DEF u, a, b
<1>4. DOMAIN u = Registers /\ {"cs", "ss", "ds", "es"} \subseteq Registers
  <2>. HIDE DEF Words
  <2>. QED  BY <1>1, RegistersAre
<1>5. /\ cpu.cs = a /\ cpu.ss = b /\ cpu.ds = b /\ cpu.es = b
      /\ \A r \in Registers \ {"cs", "ss", "ds", "es"} : cpu[r] = u[r]
      /\ cpu = [r \in Registers |-> cpu[r]]
  BY <1>3, <1>4
<1>6. ASSUME NEW r \in Registers
      PROVE  cpu[r] \in Words /\ cpu[r][1] = KindOf(r)
  <2>1. CASE r \in {"cs", "ss", "ds", "es"}
    <3>1. cpu[r] = a \/ cpu[r] = b
      BY <1>5, <2>1
    <3>2. KindOf(r) = "selector"
      BY <2>1, KindsAre
    <3>. QED  BY <1>2, <3>1, <3>2
  <2>2. CASE r \notin {"cs", "ss", "ds", "es"}
    <3>1. cpu[r] = u[r]
      BY <1>5, <2>2
    <3>2. u[r] \in Words
      <4>. HIDE DEF Words
      <4>. QED  BY <1>1
    <3>. QED  BY <1>1, <3>1, <3>2
  <2>. QED  BY <2>1, <2>2
<1>7. cpu \in [Registers -> Words]
  <2>. HIDE DEF Words
  <2>. QED  BY <1>5, <1>6
<1>. QED  BY <1>6, <1>7 DEF CpuTypes

LEMMA BiosTypes == \A base \in 0 .. 255 : BiosChip(base) \in Chips
BY DEF BiosChip, Chips

LEMMA InitMInv == Init => MInv
<1>. SUFFICES ASSUME Init PROVE MInv
  OBVIOUS
<1>1. /\ allow_clock_interrupt \in ClockChoices
      /\ allow_clock_interrupt \in BOOLEAN
      /\ code = start(allow_clock_interrupt) /\ stack = << >> /\ loaded = {}
      /\ current = First /\ First \in Procs
      /\ p_registers = [p \in Procs |-> [k \in 1 .. 17 |-> Number(0)]]
  BY MachineAssumption, Layout DEF Init
<1>2. trap.n = INT_CLOCK /\ INT_CLOCK \in Cases /\ INT_CLOCK \in 0 .. 255
  BY DEF Init, Cases, INT_CLOCK
<1>3. BlamesTheProcess
  BY <1>2 DEF BlamesTheProcess
<1>4. master = BiosChip(8) /\ slave = BiosChip(112)
  BY DEF Init, ControllerInit
<1>5. ChipTypes
  <2>1. master \in Chips /\ slave \in Chips
    <3>1. 8 \in 0 .. 255 /\ 112 \in 0 .. 255
      OBVIOUS
    <3>. QED  BY <1>4, <3>1, BiosTypes
  <2>2. timer.phase = "counting" /\ timer.reload = 0
    BY DEF Init, ControllerInit
  <2>3. 0 \in 0 .. MaxCount
    BY DEF MaxCount
  <2>. QED  BY <2>1, <2>2, <2>3 DEF ChipTypes
<1>6. Control
  <2>1. /\ start(allow_clock_interrupt) \in Seq(Instructions)
        /\ Len(start(allow_clock_interrupt))
             = Len(interrupt_controller_init(allow_clock_interrupt)) + 4
    BY <1>1, StartIs
  <2>2. Len(interrupt_controller_init(allow_clock_interrupt)) \in Nat
    BY <1>1, WritesAre
  <2>3. 1 \in 1 .. Len(start(allow_clock_interrupt))
    BY <2>1, <2>2
  <2>4. code = Suffix(start(allow_clock_interrupt), 1)
    <3>. HIDE DEF Instructions
    <3>. QED  BY <1>1, <2>1, SuffixEnds
  <2>5. loaded = LoadedAt(1)
    BY <1>1 DEF LoadedAt
  <2>6. MasterAt(1)
    BY <1>4 DEF MasterAt, BiosChip
  <2>7. Starting(1)
    BY <1>1, <1>2, <2>4, <2>5, <2>6 DEF Starting
  <2>. QED  BY <2>3, <2>7 DEF Control, InStart
<1>7. Types
  <2>1. OtherTypes
    BY <1>1, <1>2 DEF OtherTypes
  <2>2. StackTypes
    <3>1. << >> \in Seq(Words) /\ Len(<< >>) = 0
      <4>. HIDE DEF Words
      <4>. QED  OBVIOUS
    <3>. QED  BY <1>1, <3>1 DEF StackTypes
  <2>3. DescriptorTypes
    <3>1. Number(0) \in Words
      <4>1. 0 \in 0 .. MaxError
        BY DEF MaxError
      <4>. QED  BY <4>1, WordKinds
    <3>. HIDE DEF Words
    <3>. QED  BY <1>1, <3>1 DEF DescriptorTypes
  <2>. QED  BY <1>5, <2>1, <2>2, <2>3, InitialCpu DEF Types
<1>. QED  BY <1>3, <1>6, <1>7, InitInv DEF MInv

-----------------------------------------------------------------------------
(* TypeOK: in particular, the kernel's stack never holds more than one     *)
(* registers_t, at whatever instruction the kernel is.                     *)
THEOREM MachineTypes == Spec => []TypeOK
<1>1. MInv => TypeOK
  BY TypesAreOK DEF MInv
<1>. QED  BY <1>1, InitMInv, NextMInv, PTL DEF Spec

(* StopsForAFault: the CPU never shuts down, because the tables are loaded *)
(* and every gate in them can be used before anything can trap; and the    *)
(* kernel's endless loop is entered only for a trap without a case, which  *)
(* a process has caused.                                                   *)
THEOREM FaultTheorem == Spec => []StopsForAFault
<1>1. ASSUME MInv PROVE StopsForAFault
  <2>1. ASSUME At("shutdown") PROVE FALSE
    <3>1. ~UserMode /\ Op = "shutdown"
      BY <2>1 DEF At, Op
    <3>. QED  BY <1>1, <3>1, Place
  <2>2. ASSUME At("jmp") PROVE trap.n \notin Cases
    <3>1. ~UserMode /\ Op = "jmp"
      BY <2>2 DEF At, Op
    <3>2. Stopped
      BY <1>1, <3>1, Place
    <3>. QED  BY <3>2 DEF Stopped
  <2>3. BlamesTheProcess
    BY <1>1 DEF MInv
  <2>. QED  BY <2>1, <2>2, <2>3 DEF BlamesTheProcess, StopsForAFault
<1>. QED  BY <1>1, InitMInv, NextMInv, PTL DEF Spec

(* OnlyTheClock: no interrupt but that of the clock, if it was allowed,    *)
(* reaches a process, and it comes under its own vector.                   *)
THEOREM ClockTheorem == Spec => OnlyTheClock
<1>1. MInv /\ [Next]_vars =>
        [HardwareInterrupt =>
           allow_clock_interrupt /\ trap'.n = INT_CLOCK]_vars
  BY HardwareKeeps
<1>. QED  BY <1>1, InitMInv, NextMInv, PTL DEF Spec, OnlyTheClock

(***************************************************************************)
(* KeepsContexts: where the registers of a process are, and that every     *)
(* step either moves them or is one of the process itself.                 *)
(***************************************************************************)
View == [p \in Procs |-> ContextOf(p)]
Mode == IF trap.n \notin Cases THEN "stopped"
        ELSE IF UserMode THEN "user" ELSE "kernel"

OfFrame(f) == [r \in Registers |-> f[Offset(r)]]
OfStack    == [r \in Registers |-> OnTheStack(r)]
OfCpu      == [r \in Registers |-> cpu[r]]

(* Where ContextOf finds them.                                             *)
Boots     == ~UserMode /\ LastOperation = "init_processes"
Saves     == ~UserMode /\ LastOperation = "interrupt"
Restores  == ~UserMode /\ LastOperation \notin {"init_processes", "interrupt"}
InFrames  == \A p \in Procs : ContextOf(p) = OfFrame(p_registers[p])
InOthers  == \A p \in Procs \ {current} :
               ContextOf(p) = OfFrame(p_registers[p])

LEMMA WhereContextsAre ==
  /\ Boots => \A p \in Procs : ContextOf(p) = OfFrame(InitialFrame)
  /\ Saves => ContextOf(current) = OfStack /\ InOthers
  /\ UserMode => ContextOf(current) = OfCpu /\ InOthers
  /\ Restores => InFrames
<1>1. Boots => \A p \in Procs : ContextOf(p) = OfFrame(InitialFrame)
  BY Zenon DEF Boots, ContextOf, OfFrame
<1>2. Saves => ContextOf(current) = OfStack /\ InOthers
  BY Zenon DEF Saves, ContextOf, OfFrame, OfStack, InOthers
<1>3. UserMode => ContextOf(current) = OfCpu /\ InOthers
  BY Zenon DEF ContextOf, OfFrame, OfCpu, InOthers
<1>4. Restores => InFrames
  BY Zenon DEF Restores, ContextOf, OfFrame, InFrames
<1>. QED  BY <1>1, <1>2, <1>3, <1>4

LEMMA WhereContextsGo ==
  /\ Boots' => \A p \in Procs : ContextOf(p)' = OfFrame(InitialFrame)
  /\ Saves' => ContextOf(current)' = OfStack' /\ InOthers'
  /\ UserMode' => ContextOf(current)' = OfCpu' /\ InOthers'
  /\ Restores' => InFrames'
<1>1. Boots' => \A p \in Procs : ContextOf(p)' = OfFrame(InitialFrame)
  BY Zenon DEF Boots, ContextOf, OfFrame
<1>2. Saves' => ContextOf(current)' = OfStack' /\ InOthers'
  BY Zenon DEF Saves, ContextOf, OfFrame, OfStack, InOthers
<1>3. UserMode' => ContextOf(current)' = OfCpu' /\ InOthers'
  BY Zenon DEF ContextOf, OfFrame, OfCpu, InOthers
<1>4. Restores' => InFrames'
  BY Zenon DEF Restores, ContextOf, OfFrame, InFrames
<1>. QED  BY <1>1, <1>2, <1>3, <1>4

(* Steps of the kernel: the context of every process stays, or the machine *)
(* has stopped and those of the others stay.                               *)
AllSame    == \A p \in Procs : ContextOf(p)' = ContextOf(p)
OthersSame == \A p \in Procs \ {current} : ContextOf(p)' = ContextOf(p)

Moves ==
  /\ AllSame /\ current' \in Procs
  /\ Mode = "kernel" /\ Mode' \in {"user", "kernel"}
Stays == AllSame /\ current' = current /\ Mode' = Mode
Stops == OthersSame /\ current' = current /\ Mode' = "stopped"
Goes  == OthersSame /\ current' = current /\ Mode = "user"
           /\ Mode' \in {"user", "kernel"}

LEMMA ViewSteps ==
  ASSUME Moves \/ Stays \/ Stops \/ Goes, current \in Procs
  PROVE  [Contexts!Next]_(Contexts!vars)
<1>1. ASSUME AllSame PROVE View' = View
  BY <1>1 DEF AllSame, View
<1>2. ASSUME OthersSame
      PROVE  View' = [View EXCEPT ![current] = View'[current]]
  BY <1>2 DEF OthersSame, View
<1>3. CASE Moves
  <2>1. Contexts!Switch(current')
    BY <1>1, <1>3 DEF Moves, Contexts!Switch, View, Mode
  <2>. QED  BY <1>3, <2>1 DEF Moves, Contexts!Next
<1>4. CASE Stays
  BY <1>1, <1>4 DEF Stays, Contexts!vars, View, Mode
<1>5. CASE Stops
  <2>1. Contexts!OthersKept
    BY <1>2, <1>5 DEF Stops, Contexts!OthersKept, View
  <2>2. Contexts!Stop
    BY <1>5, <2>1 DEF Stops, Contexts!Stop, Mode
  <2>. QED  BY <2>2 DEF Contexts!Next
<1>6. CASE Goes
  <2>1. Contexts!OthersKept
    BY <1>2, <1>6 DEF Goes, Contexts!OthersKept, View
  <2>2. Contexts!Compute
    BY <1>6, <2>1 DEF Goes, Contexts!Compute, Mode
  <2>. QED  BY <2>2 DEF Contexts!Next
<1>. QED  BY <1>3, <1>4, <1>5, <1>6

LEMMA FrameOf ==
  ASSUME NEW f, NEW g, \A r \in Registers : f[Offset(r)] = g[r]
  PROVE  OfFrame(f) = [r \in Registers |-> g[r]]
BY DEF OfFrame

(* start(): until init_processes, a process has what it will begin with.   *)
LEMMA BootViews ==
  ASSUME MInv, LoadTables \/ PortWrite PROVE Stays
<1>1. ~UserMode /\ Op \in {"lgdt", "ltr", "lidt", "outb"}
  BY DEF LoadTables, PortWrite, At, Op
<1>2. PICK j, n : BootPlace(j, n)
  BY <1>1, Booting DEF BootOperations
<1>3. /\ trap' = trap /\ code' = Tail(code) /\ current' = current
      /\ UNCHANGED allow_clock_interrupt
  <2>1. trap' = trap /\ code' = Tail(code) /\ current' = current
    BY LoadTablesKeeps, PortWriteKeeps
  <2>2. UNCHANGED allow_clock_interrupt
    BY DEF LoadTables, PortWrite, Load, KernelException, Deliver
  <2>. QED  BY <2>1, <2>2
<1>4. /\ n \in 20 .. 23 /\ j \in 1 .. n - 1
      /\ Len(start(allow_clock_interrupt)) = n /\ Starting(j)
      /\ code' = Suffix(start(allow_clock_interrupt), j + 1)
  <2>1. /\ n \in 20 .. 23
        /\ Len(start(allow_clock_interrupt)) = n /\ Starting(j)
        /\ code' = Suffix(start(allow_clock_interrupt), j + 1)
    BY <1>2, <1>3, Zenon DEF BootPlace
  <2>2. j = 1 \/ j = 2 \/ j = 3 \/ j \in 4 .. n - 1
    BY <1>1, <1>2 DEF BootPlace
  <2>. QED  BY <2>1, <2>2
<1>5. j \in 1 .. n /\ j + 1 \in 1 .. n
  BY <1>4
<1>6. Boots
  <2>1. StartNext(code, allow_clock_interrupt, j)
    BY <1>4, <1>5, Known, StartingHere
  <2>. QED  BY <1>1, <2>1, Zenon DEF StartNext, Boots, LastOperation
<1>7. Boots'
  <2>1. StartNext(code', allow_clock_interrupt, j + 1)
    BY <1>4, <1>5, Known, AtStart
  <2>. QED  BY <2>1, Zenon DEF StartNext, Boots, UserMode, LastOperation
<1>8. AllSame
  BY <1>6, <1>7, WhereContextsAre, WhereContextsGo DEF AllSame
<1>9. Mode' = Mode
  BY <1>3, <1>6, <1>7 DEF Mode, Boots
<1>. QED  BY <1>3, <1>8, <1>9 DEF Stays

LEMMA InitProcessesViews ==
  ASSUME MInv, InitProcesses PROVE Stays
<1>1. ~UserMode /\ Op = "init_processes"
  BY DEF InitProcesses, At, Op
<1>2. PICK j, n : BootPlace(j, n)
  BY <1>1, Booting DEF BootOperations
<1>3. /\ Arg = First /\ Starting(j)
      /\ j \in 1 .. Len(start(allow_clock_interrupt))
  BY <1>1, <1>2, Zenon DEF BootPlace
<1>4. /\ p_registers' = [p \in Procs |-> InitialFrame] /\ current' = First
      /\ code' = RunCode(First) /\ trap' = trap
  BY <1>3 DEF InitProcesses
<1>5. current' = current
  BY <1>3, <1>4 DEF Starting
<1>6. Boots
  <2>1. StartNext(code, allow_clock_interrupt, j)
    BY <1>3, Known, StartingHere
  <2>. QED  BY <1>1, <2>1, Zenon DEF StartNext, Boots, LastOperation
<1>7. Restores'
  <2>1. First \in Procs /\ 1 \in 1 .. 6
    BY MachineAssumption
  <2>2. RunNext(code', First, 1)
    BY <1>4, <2>1, RunCodeEnds, AtRun
  <2>3. ~UserMode' /\ LastOperation' = "iret"
    BY <2>2, Zenon DEF RunNext, UserMode, LastOperation
  <2>. QED  BY <2>3 DEF Restores
<1>8. AllSame
  <2>1. ASSUME NEW p \in Procs PROVE ContextOf(p)' = ContextOf(p)
    <3>1. ContextOf(p) = OfFrame(InitialFrame)
      BY <1>6, WhereContextsAre
    <3>2. ContextOf(p)' = OfFrame(p_registers'[p])
      BY <1>7, WhereContextsGo DEF InFrames, OfFrame
    <3>3. p_registers'[p] = InitialFrame
      BY <1>4
    <3>. QED  BY <3>1, <3>2, <3>3
  <2>. QED  BY <2>1 DEF AllSame
<1>9. Mode' = Mode
  BY <1>4, <1>6, <1>7 DEF Mode, Boots, Restores
<1>. QED  BY <1>5, <1>8, <1>9 DEF Stays

(* On the way in: from the CPU to the stack, and on to the descriptor.     *)
LEMMA SavingViews ==
  ASSUME MInv, ~UserMode, Saving PROVE Stays \/ Stops
<1>1. /\ Saves /\ Saves' /\ current' = current /\ p_registers' = p_registers
      /\ trap' = trap
  BY DEF Saving, Saves
<1>2. OthersSame
  <2>1. ASSUME NEW p \in Procs \ {current} PROVE ContextOf(p)' = ContextOf(p)
    <3>1. ContextOf(p) = OfFrame(p_registers[p])
      BY <1>1, WhereContextsAre DEF InOthers
    <3>2. ContextOf(p)' = OfFrame(p_registers'[p])
      BY <1>1, WhereContextsGo DEF InOthers, OfFrame
    <3>. QED  BY <1>1, <3>1, <3>2
  <2>. QED  BY <2>1 DEF OthersSame
<1>3. CASE trap.n \notin Cases
  BY <1>1, <1>2, <1>3 DEF Stops, Mode
<1>4. CASE trap.n \in Cases
  <2>1. OfStack' = OfStack
    BY <1>4 DEF Saving, OfStack
  <2>2. ContextOf(current)' = ContextOf(current)
    BY <1>1, <2>1, WhereContextsAre, WhereContextsGo
  <2>3. AllSame
    BY <1>1, <1>2, <2>2 DEF AllSame, OthersSame
  <2>. QED  BY <1>1, <2>3 DEF Stays, Mode, Saves
<1>. QED  BY <1>3, <1>4

LEMMA TakenViews ==
  ASSUME MInv, ~UserMode, Taken PROVE Stays \/ Stops
<1>1. /\ Saves /\ Restores' /\ current' = current /\ trap' = trap
      /\ \A p \in Procs \ {current} : p_registers'[p] = p_registers[p]
  BY DEF Taken, Saves, Restores
<1>2. OthersSame
  <2>1. ASSUME NEW p \in Procs \ {current} PROVE ContextOf(p)' = ContextOf(p)
    <3>1. ContextOf(p) = OfFrame(p_registers[p])
      BY <1>1, WhereContextsAre DEF InOthers
    <3>2. ContextOf(p)' = OfFrame(p_registers'[p])
      BY <1>1, WhereContextsGo DEF InFrames, OfFrame
    <3>. QED  BY <1>1, <3>1, <3>2
  <2>. QED  BY <2>1 DEF OthersSame
<1>3. CASE trap.n \notin Cases
  BY <1>1, <1>2, <1>3 DEF Stops, Mode
<1>4. CASE trap.n \in Cases
  <2>1. current \in Procs
    BY Known
  <2>2. ContextOf(current)' = OfFrame(p_registers'[current])
    BY <1>1, <2>1, WhereContextsGo DEF InFrames, OfFrame
  <2>3. OfFrame(p_registers'[current]) = OfStack
    BY <1>4 DEF Taken, OfFrame, OfStack
  <2>4. ContextOf(current)' = ContextOf(current)
    BY <1>1, <2>2, <2>3, WhereContextsAre
  <2>5. AllSame
    BY <1>1, <1>2, <2>4 DEF AllSame, OthersSame
  <2>. QED  BY <1>1, <2>5 DEF Stays, Mode, Saves, Restores
<1>. QED  BY <1>3, <1>4

(* In schedule() and run(), all contexts are in the descriptors.           *)
LEMMA FramesSame ==
  ASSUME InFrames, Restores', p_registers' = p_registers PROVE AllSame
<1>1. ASSUME NEW p \in Procs PROVE ContextOf(p)' = ContextOf(p)
  <2>1. ContextOf(p) = OfFrame(p_registers[p])
    BY DEF InFrames
  <2>2. ContextOf(p)' = OfFrame(p_registers'[p])
    BY WhereContextsGo DEF InFrames, OfFrame
  <2>. QED  BY <2>1, <2>2
<1>. QED  BY <1>1 DEF AllSame

LEMMA ScheduleViews ==
  ASSUME MInv, Schedule PROVE Moves
<1>1. ~UserMode
  BY DEF Schedule, At
<1>2. /\ ~UserMode' /\ LastOperation = "schedule" /\ LastOperation' = "iret"
      /\ p_registers' = p_registers /\ trap' = trap /\ trap.n \in Cases
      /\ current' \in Procs
  BY ScheduleKeeps
<1>3. Restores /\ Restores'
  BY <1>1, <1>2 DEF Restores
<1>4. AllSame
  BY <1>2, <1>3, WhereContextsAre, FramesSame
<1>. QED  BY <1>1, <1>2, <1>4 DEF Moves, Mode

LEMMA ResumingViews ==
  ASSUME MInv, ~UserMode, Resuming PROVE Stays
<1>1. Restores /\ Restores' /\ p_registers' = p_registers
  BY DEF Resuming, Restores
<1>2. AllSame
  BY <1>1, WhereContextsAre, FramesSame
<1>. QED  BY <1>1, <1>2 DEF Stays, Mode, Resuming, Restores

LEMMA ReturningViews ==
  ASSUME MInv, ~UserMode, Returning PROVE Moves
<1>1. /\ UserMode' /\ trap.n \in Cases
      /\ current' = current /\ p_registers' = p_registers /\ trap' = trap
      /\ \A r \in Registers : cpu'[r] = p_registers[current][Offset(r)]
      /\ Restores /\ current \in Procs
  BY Known DEF Returning, Restores
<1>2. InFrames
  BY <1>1, WhereContextsAre
<1>3. ContextOf(current)' = ContextOf(current)
  <2>1. ContextOf(current)' = OfCpu'
    BY <1>1, WhereContextsGo
  <2>2. OfCpu' = OfFrame(p_registers[current])
    BY <1>1 DEF OfCpu, OfFrame
  <2>. QED  BY <1>1, <1>2, <2>1, <2>2 DEF InFrames
<1>4. ASSUME NEW p \in Procs \ {current} PROVE ContextOf(p)' = ContextOf(p)
  <2>1. ContextOf(p) = OfFrame(p_registers[p])
    BY <1>2 DEF InFrames
  <2>2. ContextOf(p)' = OfFrame(p_registers'[p])
    BY <1>1, WhereContextsGo DEF InOthers, OfFrame
  <2>. QED  BY <1>1, <2>1, <2>2
<1>5. AllSame
  BY <1>1, <1>3, <1>4 DEF AllSame
<1>. QED  BY <1>1, <1>5 DEF Moves, Mode

(* In user mode. *)
LEMMA UserViews ==
  ASSUME MInv, Trapped \/ Computing PROVE Goes \/ Stops
<1>1. /\ UserMode /\ current' = current /\ p_registers' = p_registers
      /\ Saves' \/ UserMode'
  BY DEF Trapped, Computing, Saves
<1>2. InOthers /\ InOthers'
  BY <1>1, WhereContextsAre, WhereContextsGo
<1>3. OthersSame
  <2>1. ASSUME NEW p \in Procs \ {current} PROVE ContextOf(p)' = ContextOf(p)
    <3>1. ContextOf(p) = OfFrame(p_registers[p])
      BY <1>2 DEF InOthers
    <3>2. ContextOf(p)' = OfFrame(p_registers'[p])
      BY <1>1, <1>2 DEF InOthers, OfFrame
    <3>. QED  BY <1>1, <3>1, <3>2
  <2>. QED  BY <2>1 DEF OthersSame
<1>4. trap.n \in Cases
  BY <1>1, UserPlace DEF InUser
<1>. QED  BY <1>1, <1>3, <1>4 DEF Goes, Stops, Mode

LEMMA NothingViews ==
  ASSUME UNCHANGED machine PROVE Stays
<1>1. UNCHANGED <<cpu, stack, code, loaded, current, p_registers, trap>>
  BY DEF machine
<1>2. AllSame
  BY <1>1, Zenon DEF AllSame, ContextOf, UserMode, LastOperation, OnTheStack
<1>. QED  BY <1>1, <1>2 DEF Stays, Mode, UserMode

LEMMA KernelViews ==
  ASSUME MInv, KernelStep PROVE Moves \/ Stays \/ Stops
<1>1. CASE LoadTables \/ PortWrite
  BY <1>1, BootViews
<1>2. CASE InitProcesses
  BY <1>2, InitProcessesViews
<1>3. CASE SaveRegisters
  <2>1. ~UserMode /\ Saving
    BY <1>3, SaveRegistersKeeps DEF SaveRegisters, At
  <2>. QED  BY <2>1, SavingViews
<1>4. CASE LoadKernelData
  <2>1. ~UserMode /\ Saving
    BY <1>4, LoadKernelDataKeeps DEF LoadKernelData, At
  <2>. QED  BY <2>1, SavingViews
<1>5. CASE Interrupt
  <2>1. ~UserMode /\ Taken
    BY <1>5, InterruptKeeps DEF Interrupt, At
  <2>. QED  BY <2>1, TakenViews
<1>6. CASE Schedule
  BY <1>6, ScheduleViews
<1>7. CASE LoadEsp \/ Popal \/ PopSegment \/ AddEsp
  <2>1. ~UserMode
    BY <1>7 DEF LoadEsp, Popal, PopSegment, AddEsp, At
  <2>2. Resuming
    BY <1>7, LoadEspKeeps, PopalKeeps, PopSegmentKeeps, AddEspKeeps
  <2>. QED  BY <2>1, <2>2, ResumingViews
<1>8. CASE Iret
  <2>1. ~UserMode /\ Returning
    BY <1>8, IretKeeps DEF Iret, At
  <2>. QED  BY <2>1, ReturningViews
<1>9. CASE Spin
  BY <1>9, NothingViews DEF Spin, vars
<1>. QED
  BY <1>1, <1>2, <1>3, <1>4, <1>5, <1>6, <1>7, <1>8, <1>9 DEF KernelStep

LEMMA InitViews == Init => Contexts!Init
<1>. SUFFICES ASSUME Init PROVE Contexts!Init
  OBVIOUS
<1>1. /\ MInv /\ trap.n \in Cases /\ current = First /\ First \in Procs
      /\ code = start(allow_clock_interrupt)
  BY InitMInv, MachineAssumption DEF Init, Cases
<1>2. Boots
  <2>1. /\ start(allow_clock_interrupt) \in Seq(Instructions)
        /\ Len(start(allow_clock_interrupt))
             = Len(interrupt_controller_init(allow_clock_interrupt)) + 4
        /\ Len(interrupt_controller_init(allow_clock_interrupt)) \in Nat
    BY <1>1, Known, StartIs, WritesAre
  <2>2. 1 \in 1 .. Len(start(allow_clock_interrupt))
    BY <2>1
  <2>3. code = Suffix(start(allow_clock_interrupt), 1)
    <3>. HIDE DEF Instructions
    <3>. QED  BY <1>1, <2>1, SuffixEnds
  <2>4. StartNext(code, allow_clock_interrupt, 1)
    BY <1>1, <2>2, <2>3, Known, AtStart
  <2>. QED  BY <2>4, Zenon DEF StartNext, Boots, UserMode, LastOperation
<1>3. ASSUME NEW p \in Procs PROVE ContextOf(p) \in UserContexts
  <2>1. ContextOf(p) = OfFrame(InitialFrame)
    BY <1>2, WhereContextsAre
  <2>2. OfFrame(InitialFrame) = [r \in Registers |-> UserRegisters(0, TRUE)[r]]
    BY InitialFrameIs DEF OfFrame
  <2>3. UserRegisters(0, TRUE)
          = [r \in Registers |-> UserRegisters(0, TRUE)[r]]
    BY DEF UserRegisters
  <2>. QED  BY <2>1, <2>2, <2>3, InitialFrameIs
<1>4. View \in [Procs -> UserContexts]
  BY <1>3 DEF View
<1>5. Mode = "kernel"
  BY <1>1, <1>2 DEF Mode, Boots
<1>. QED  BY <1>1, <1>4, <1>5 DEF Contexts!Init, View, Mode, UserContexts

(* KeepsContexts: with all its pushes and pops, and the words the CPU      *)
(* itself pushes and pops, the kernel implements the switch of contexts.   *)
THEOREM MachineContexts == Spec => KeepsContexts
<1>1. ASSUME MInv, [Next]_vars PROVE [Contexts!Next]_(Contexts!vars)
  <2>1. CASE KernelStep
    BY <1>1, <2>1, KernelViews, Known, ViewSteps
  <2>2. CASE UserInstruction
    BY <1>1, <2>2, InstructionKeeps, UserViews, Known, ViewSteps
  <2>3. ASSUME NEW n \in Interrupts, SoftwareInterrupt(n)
        PROVE  [Contexts!Next]_(Contexts!vars)
    BY <1>1, <2>3, SoftwareKeeps, UserViews, Known, ViewSteps
  <2>4. ASSUME NEW e \in Exceptions, UserException(e)
        PROVE  [Contexts!Next]_(Contexts!vars)
    BY <1>1, <2>4, ExceptionKeeps, UserViews, Known, ViewSteps
  <2>5. CASE HardwareInterrupt
    BY <1>1, <2>5, HardwareKeeps, UserViews, Known, ViewSteps
  <2>6. ASSUME NEW line \in Devices, DeviceStep(line)
        PROVE  [Contexts!Next]_(Contexts!vars)
    BY <1>1, <2>6, NothingViews, Known, ViewSteps DEF DeviceStep
  <2>7. CASE UNCHANGED vars
    BY <1>1, <2>7, NothingViews, Known, ViewSteps DEF vars
  <2>. QED
    BY <1>1, <2>1, <2>2, <2>3, <2>4, <2>5, <2>6, <2>7 DEF Next, UserTrap
<1>. QED
  BY <1>1, InitViews, InitMInv, NextMInv, PTL DEF Spec, KeepsContexts,
     Contexts!Spec

(* A trap takes the registers as they are: at the moment a process enters  *)
(* the kernel, with a number interrupt() knows, its context is what was in *)
(* the CPU before.                                                         *)
EntersWhole ==
  [][UserMode /\ ~UserMode' /\ trap'.n \in Cases
     => ContextOf(current)' = [r \in Registers |-> cpu[r]]]_vars

(* Every trap of the machine enters the kernel with the registers whole.   *)
THEOREM EntryTheorem == Spec => EntersWhole
<1>1. ASSUME MInv, [Next]_vars
      PROVE  [UserMode /\ ~UserMode' /\ trap'.n \in Cases
              => ContextOf(current)' = [r \in Registers |-> cpu[r]]]_vars
  <2>. SUFFICES ASSUME Next, UserMode, ~UserMode', trap'.n \in Cases
                PROVE  ContextOf(current)' = OfCpu
    BY <1>1 DEF OfCpu
  <2>1. Trapped
    <3>1. ~KernelStep
      BY DEF KernelStep, LoadTables, PortWrite, InitProcesses, SaveRegisters,
         LoadKernelData, Interrupt, Schedule, LoadEsp, Popal, PopSegment,
         AddEsp, Iret, Spin, At
    <3>2. UserInstruction => UserMode'
      BY <1>1, InstructionKeeps DEF Computing
    <3>3. \A line \in Devices : DeviceStep(line) => UserMode'
      BY DEF DeviceStep, machine, UserMode
    <3>4. HardwareInterrupt => Trapped
      BY <1>1, HardwareKeeps
    <3>5. \A n \in Interrupts : SoftwareInterrupt(n) => Trapped
      BY <1>1, SoftwareKeeps
    <3>6. \A e \in Exceptions : UserException(e) => Trapped
      BY <1>1, ExceptionKeeps
    <3>. QED  BY <3>1, <3>2, <3>3, <3>4, <3>5, <3>6 DEF Next, UserTrap
  <2>2. Saves' /\ \A r \in Registers : OnTheStack(r)' = cpu[r]
    BY <2>1 DEF Trapped, Saves
  <2>3. ContextOf(current)' = OfStack'
    BY <2>2, WhereContextsGo
  <2>4. OfStack' = OfCpu
    BY <2>2 DEF OfStack, OfCpu
  <2>. QED  BY <2>3, <2>4
<1>. QED  BY <1>1, InitMInv, NextMInv, PTL DEF Spec, EntersWhole
=============================================================================
