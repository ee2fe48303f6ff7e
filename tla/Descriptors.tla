---------------------------- MODULE Descriptors ----------------------------
(***************************************************************************)
(* The tables the CPU consults when it changes privilege: segment and gate *)
(* descriptors and the task state (x86.h), as segments_init() fills them   *)
(* in (schedos-x86.c).  A descriptor has the fields that the checks of the *)
(* CPU look at; base and limit are those of a flat segment.                *)
(***************************************************************************)
EXTENDS Naturals, Sequences

INT_CLOCK     == 32
INT_SYS_YIELD == 48

SEGSEL_KERN_CODE == 8
SEGSEL_KERN_DATA == 16
SEGSEL_APP_CODE  == 24
SEGSEL_APP_DATA  == 32
SEGSEL_TASKSTATE == 40

STA_X == 8
STA_W == 2
STA_R == 2
STS_T32A == 9
STS_IG32 == 14
STS_TG32 == 15

SEG_NULL       == [type |-> 0, s |-> 0, dpl |-> 0, p |-> 0]
SEG(type, dpl) == [type |-> type, s |-> 1, dpl |-> dpl, p |-> 1]

(* The task state segment is made with SEG16, which makes an application   *)
(* segment, and then turned into a system segment.                         *)
segments ==
  << SEG_NULL,
     SEG(STA_X + STA_R, 0),
     SEG(STA_W, 0),
     SEG(STA_X + STA_R, 3),
     SEG(STA_W, 3),
     [SEG(STS_T32A, 0) EXCEPT !.s = 0] >>

(* The stack that every trap of a process goes to has the wrong segment.   *)
Mutant_StackSegment ==
  [ts_esp0 |-> "KERNEL_STACK_TOP", ts_ss0 |-> SEGSEL_KERN_CODE]

kernel_task_descriptor == [ts_esp0 |-> "KERNEL_STACK_TOP", ts_ss0 |-> SEGSEL_KERN_DATA]

(* istrap decides whether the handler runs with the interrupt flag as it   *)
(* was; dpl, who may name the gate in an int instruction.                  *)
SETGATE(istrap, sel, off, dpl) ==
  [gd_type |-> IF istrap THEN STS_TG32 ELSE STS_IG32,
   gd_ss   |-> sel,
   gd_off  |-> off,
   gd_dpl  |-> dpl]

(* A trap gate for the clock. *)
Mutant_ClockTrapGate(n) ==
  IF n = INT_CLOCK
  THEN SETGATE(TRUE, SEGSEL_KERN_CODE, "clock_int_handler", 0)
  ELSE IF n \in INT_SYS_YIELD .. INT_SYS_YIELD + 9
  THEN SETGATE(FALSE, SEGSEL_KERN_CODE, "sys_int_handler", 3)
  ELSE SETGATE(FALSE, SEGSEL_KERN_CODE, "default_int_handler", 0)

(* One gate too few: the last system call is left to the default handler.  *)
Mutant_FiveSysGates(n) ==
  IF n = INT_CLOCK
  THEN SETGATE(FALSE, SEGSEL_KERN_CODE, "clock_int_handler", 0)
  ELSE IF n \in INT_SYS_YIELD .. INT_SYS_YIELD + 4
  THEN SETGATE(FALSE, SEGSEL_KERN_CODE, "sys_int_handler", 3)
  ELSE SETGATE(FALSE, SEGSEL_KERN_CODE, "default_int_handler", 0)

interrupt_descriptors(n) ==
  IF n = INT_CLOCK
  THEN SETGATE(FALSE, SEGSEL_KERN_CODE, "clock_int_handler", 0)
  ELSE IF n \in INT_SYS_YIELD .. INT_SYS_YIELD + 9
  THEN SETGATE(FALSE, SEGSEL_KERN_CODE, "sys_int_handler", 3)
  ELSE SETGATE(FALSE, SEGSEL_KERN_CODE, "default_int_handler", 0)

-----------------------------------------------------------------------------
(* The CPU's view of a selector: 8 * the index of a descriptor + the       *)
(* privilege requested.                                                    *)

Rpl(sel)  == sel % 4
Desc(sel) == IF sel \div 8 + 1 \in DOMAIN segments
             THEN segments[sel \div 8 + 1] ELSE SEG_NULL

IsNull(sel) == sel \div 4 = 0

IsSegment(sel) == Desc(sel).p = 1 /\ Desc(sel).s = 1
IsCode(sel)    == IsSegment(sel) /\ Desc(sel).type >= STA_X
RWBit(sel)     == (Desc(sel).type \div STA_W) % 2 = 1   \* STA_W = STA_R

(* What the CPU asks of a selector loaded into %ds or %es, into the task   *)
(* register, of a stack and of the target of a return to privilege cpl.    *)
DataLoadable(sel) ==
  \/ IsNull(sel)
  \/ /\ IsSegment(sel)
     /\ IsCode(sel) => RWBit(sel)
     /\ Desc(sel).dpl >= Rpl(sel)
TaskLoadable(sel) ==
  Desc(sel).p = 1 /\ Desc(sel).s = 0 /\ Desc(sel).type = STS_T32A
StackLoadable(sel, cpl) ==
  IsSegment(sel) /\ ~IsCode(sel) /\ RWBit(sel)
  /\ Rpl(sel) = cpl /\ Desc(sel).dpl = cpl
CodeLoadable(sel, cpl) ==
  IsCode(sel) /\ Rpl(sel) = cpl /\ Desc(sel).dpl = cpl
=============================================================================
