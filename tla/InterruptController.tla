------------------------ MODULE InterruptController ------------------------
(***************************************************************************)
(* The two 8259A interrupt controllers and the 8253 timer, and how         *)
(* interrupt_controller_init() (schedos-x86.c) programs them by port       *)
(* writes.  The chips are not part of the repository: they are modelled as *)
(* far as the words that are written to them reach, and their state before *)
(* that is what a BIOS leaves behind.                                      *)
(***************************************************************************)
EXTENDS Naturals, Sequences, FiniteSetsExt

VARIABLES
  master, slave,   \* the two controllers
  timer            \* counter 0 of the timer

bus == <<master, slave, timer>>

INT_HARDWARE == 32
HZ           == 1000
IO_PIC1      == 32
IO_PIC2      == 160
IRQ_SLAVE    == 2
IO_TIMER1    == 64
TIMER_MODE   == IO_TIMER1 + 3
TIMER_SEL0 == 0
TIMER_RATEGEN == 4
TIMER_16BIT == 48
TIMER_FREQ   == 1193182
TIMER_DIV(x) == (TIMER_FREQ + x \div 2) \div x

Bit(byte, n) == (byte \div 2^n) % 2 = 1
Lines(byte)  == {n \in 0 .. 7 : Bit(byte, n)}

-----------------------------------------------------------------------------
(* The chips.  icw is the initialisation word that is expected next, 0     *)
(* when there is none; irr, isr, imr are the lines that request service,   *)
(* are in service, are masked.                                             *)

Chips == [icw : {0, 2, 3, 4}, base : 0 .. 255, imr : SUBSET (0 .. 7),
          irr : SUBSET (0 .. 7), isr : SUBSET (0 .. 7),
          aeoi : BOOLEAN, smm : BOOLEAN]

MaxCount == 65535   \* two bytes

BiosChip(base) == [icw |-> 0, base |-> base, imr |-> {}, irr |-> {},
                   isr |-> {}, aeoi |-> FALSE, smm |-> FALSE]

ControllerInit ==
  /\ master = BiosChip(8)
  /\ slave = BiosChip(112)
  /\ timer = [phase |-> "counting", reload |-> 0]

(* The even port: ICW1 begins an initialisation, which forgets the masks   *)
(* and all requests; OCW3 may set or clear the special mask mode.  (Every  *)
(* ICW1 here asks for an ICW3 and an ICW4.)                                *)
Command(chip, data) ==
  IF Bit(data, 4)
  THEN [BiosChip(chip.base) EXCEPT !.icw = 2]
  ELSE IF Bit(data, 3) /\ Bit(data, 6) THEN [chip EXCEPT !.smm = Bit(data, 5)]
  ELSE chip

(* The odd port: the initialisation words in their order, then the mask.   *)
Data(chip, data) ==
  CASE chip.icw = 2 -> [chip EXCEPT !.base = data, !.icw = 3]
    [] chip.icw = 3 -> [chip EXCEPT !.icw = 4]
    [] chip.icw = 4 -> [chip EXCEPT !.aeoi = Bit(data, 1), !.icw = 0]
    [] OTHER        -> [chip EXCEPT !.imr = Lines(data)]

(* The mode word stops the counter until it has got both bytes of a count. *)
Count(data) ==
  CASE timer.phase = "low"  -> [phase |-> "high", reload |-> data]
    [] timer.phase = "high" ->
         [phase |-> "counting", reload |-> timer.reload + 256 * data]
    [] OTHER -> timer

outb(port, data) ==
  /\ master' = CASE port = IO_PIC1     -> Command(master, data)
                 [] port = IO_PIC1 + 1 -> Data(master, data)
                 [] OTHER              -> master
  /\ slave'  = CASE port = IO_PIC2     -> Command(slave, data)
                 [] port = IO_PIC2 + 1 -> Data(slave, data)
                 [] OTHER              -> slave
  /\ timer'  = CASE port = TIMER_MODE  -> [phase |-> "low", reload |-> 0]
                 [] port = IO_TIMER1   -> Count(data)
                 [] OTHER              -> timer

(* A device requests service on a line.                                    *)
Raise(line) ==
  /\ line = 0 => timer.phase = "counting"
  /\ IF line < 8
     THEN master' = [master EXCEPT !.irr = @ \cup {line}] /\ UNCHANGED slave
     ELSE slave' = [slave EXCEPT !.irr = @ \cup {line - 8}] /\ UNCHANGED master
  /\ UNCHANGED timer

(* The requests of a chip that nothing holds back: not masked, and of a    *)
(* higher priority than all that is in service.                            *)
Ready(chip, requests) ==
  LET blocking == IF chip.smm THEN chip.isr \ chip.imr ELSE chip.isr IN
  {r \in requests \ chip.imr : chip.icw = 0 /\ \A s \in blocking : r < s}

SlaveReady  == Ready(slave, slave.irr)
MasterReady == Ready(master, master.irr \cup
                             IF SlaveReady # {} THEN {IRQ_SLAVE} ELSE {})
INTR == MasterReady # {}

Serve(chip, r) ==
  [chip EXCEPT !.irr = @ \ {r}, !.isr = IF chip.aeoi THEN @ ELSE @ \cup {r}]

(* The CPU acknowledges the interrupt and is given vector n.               *)
Acknowledge(n) ==
  LET r == Min(MasterReady) IN
  /\ INTR
  /\ master' = Serve(master, r)
  /\ IF r = IRQ_SLAVE
     THEN LET s == Min(SlaveReady) IN
          n = slave.base + s /\ slave' = Serve(slave, s)
     ELSE n = master.base + r /\ UNCHANGED slave
  /\ UNCHANGED timer

-----------------------------------------------------------------------------
(* interrupt_controller_init(): what it writes, in this order.             *)

MaskAll == << <<IO_PIC1 + 1, 255>>, <<IO_PIC2 + 1, 255>> >>

(* Without automatic end of interrupt, as on the slave. *)
Mutant_NoAutoEoi ==
  << <<IO_PIC1, 17>>, <<IO_PIC1 + 1, INT_HARDWARE>>,
     <<IO_PIC1 + 1, 2^IRQ_SLAVE>>, <<IO_PIC1 + 1, 1>> >>

SetUpMaster ==
  << <<IO_PIC1, 17>>, <<IO_PIC1 + 1, INT_HARDWARE>>,
     <<IO_PIC1 + 1, 2^IRQ_SLAVE>>, <<IO_PIC1 + 1, 3>> >>

SetUpSlave ==
  << <<IO_PIC2, 17>>, <<IO_PIC2 + 1, INT_HARDWARE + 8>>,
     <<IO_PIC2 + 1, IRQ_SLAVE>>, <<IO_PIC2 + 1, 1>> >>

(* 0x68 and 0x0a.  The first is said to clear the special mask mode, and   *)
(* sets it.                                                                *)
OperationWords == << <<IO_PIC1, 104>>, <<IO_PIC1, 10>>,
                     <<IO_PIC2, 104>>, <<IO_PIC2, 10>> >>

(* The masks set at the beginning are taken to last. *)
Mutant_MaskOnce(allow) == << >>

MaskAgain(allow) == << <<IO_PIC1 + 1, IF allow THEN 254 ELSE 255>>,
                       <<IO_PIC2 + 1, 255>> >>

StartClock ==
  << <<TIMER_MODE, TIMER_SEL0 + TIMER_RATEGEN + TIMER_16BIT>>,
     <<IO_TIMER1, TIMER_DIV(HZ) % 256>>, <<IO_TIMER1, TIMER_DIV(HZ) \div 256>> >>

interrupt_controller_init(allow) ==
  MaskAll \o SetUpMaster \o SetUpSlave \o OperationWords \o MaskAgain(allow)
  \o IF allow THEN StartClock ELSE << >>
=============================================================================
