------------------------------ MODULE Library ------------------------------
(***************************************************************************)
(* The memory and string functions of lib.c, one turn of a loop per step.  *)
(* The memory they work on is Size bytes long; a pointer is an index into  *)
(* it, or Size, one past its end.  Nothing else runs during a call: in the *)
(* kernel because interrupts are off, in a program because its memory is   *)
(* its own.                                                                *)
(***************************************************************************)
EXTENDS Integers

CONSTANTS
  Size,     \* bytes of memory
  Byte,     \* values of a byte (256)
  Ints      \* values given to memset, whose c is an int

Nul       == 0
Bytes     == 0 .. Byte - 1
Addresses == 0 .. Size - 1
Pointers  == 0 .. Size

ASSUME LibraryAssumption == Size \in Nat /\ Byte \in Nat \ {0} /\ Ints \subseteq Int

VARIABLES
  memory,
  loop,         \* which loop runs; "none" between two calls
  d, s,         \* the local pointers
  n,            \* bytes left to write; in strlen and strnlen, bytes counted
  call,         \* the call in progress, or the last one, with its arguments
  before        \* the memory when it was made (for the properties only)

history == <<call, before>>
vars    == <<memory, loop, d, s, n, history>>

Functions == {"memcpy", "memmove", "memset", "strlen", "strnlen"}
Calls == [function : Functions, dst : Pointers, src : Pointers, n : Pointers,
          c : Ints \cup {Nul}]

Arguments(function, dst, src, len, c) ==
  [function |-> function, dst |-> dst, src |-> src, n |-> len, c |-> c]

Init ==
  /\ memory \in [Addresses -> Bytes]
  /\ loop = "none" /\ d = 0 /\ s = 0 /\ n = 0
  /\ call = Arguments("memcpy", 0, 0, 0, Nul)
  /\ before = memory

-----------------------------------------------------------------------------
(* The calls.  The objects that a call names lie in the memory; those of a *)
(* memcpy do not overlap; and a string ends (C11 7.24).                    *)

Fits(p, size)        == p + size <= Size
Disjoint(p, q, size) == p + size <= q \/ q + size <= p
Terminated(p)        == \E a \in Addresses : p <= a /\ memory[a] = Nul

Enter(arguments, which, dst, src, count) ==
  /\ loop = "none"
  /\ loop' = which /\ d' = dst /\ s' = src /\ n' = count
  /\ call' = arguments
  /\ before' = memory
  /\ UNCHANGED memory

memcpy(dst, src, len) ==
  /\ Fits(dst, len) /\ Fits(src, len) /\ Disjoint(dst, src, len)
  /\ Enter(Arguments("memcpy", dst, src, len, Nul), "forward", dst, src, len)

(* memmove as memcpy. *)
Mutant_AlwaysForward(dst, src, len) ==
  /\ Fits(dst, len) /\ Fits(src, len)
  /\ Enter(Arguments("memmove", dst, src, len, Nul), "forward", dst, src, len)

(* Backwards, from the ends, if the end of src is overwritten first.       *)
memmove(dst, src, len) ==
  /\ Fits(dst, len) /\ Fits(src, len)
  /\ LET arguments == Arguments("memmove", dst, src, len, Nul)
     IN  IF src < dst /\ src + len > dst
         THEN Enter(arguments, "backward", dst + len, src + len, len)
         ELSE Enter(arguments, "forward", dst, src, len)

memset(v, c, len) ==
  /\ Fits(v, len)
  /\ Enter(Arguments("memset", v, 0, len, c), "fill", v, 0, len)

strlen(str) ==
  /\ Terminated(str)
  /\ Enter(Arguments("strlen", 0, str, 0, Nul), "count", 0, str, 0)

strnlen(str, maxlen) ==
  /\ Fits(str, maxlen) \/ Terminated(str)
  /\ Enter(Arguments("strnlen", 0, str, maxlen, Nul), "count", 0, str, 0)

-----------------------------------------------------------------------------
(* The loops *)

(* *d++ = *s++ *)
Forward ==
  /\ loop = "forward" /\ n > 0
  /\ memory' = [memory EXCEPT ![d] = memory[s]]
  /\ d' = d + 1 /\ s' = s + 1 /\ n' = n - 1
  /\ UNCHANGED <<loop, history>>

(* *--d = *--s *)
Backward ==
  /\ loop = "backward" /\ n > 0
  /\ memory' = [memory EXCEPT ![d - 1] = memory[s - 1]]
  /\ d' = d - 1 /\ s' = s - 1 /\ n' = n - 1
  /\ UNCHANGED <<loop, history>>

(* c is stored as it is. *)
Mutant_StoresInt ==
  /\ loop = "fill" /\ n > 0
  /\ memory' = [memory EXCEPT ![d] = call.c]
  /\ d' = d + 1 /\ n' = n - 1
  /\ UNCHANGED <<loop, s, history>>

(* *p++ = c, where p is a char *. *)
Fill ==
  /\ loop = "fill" /\ n > 0
  /\ memory' = [memory EXCEPT ![d] = call.c % Byte]
  /\ d' = d + 1 /\ n' = n - 1
  /\ UNCHANGED <<loop, s, history>>

(* strnlen takes no notice of the end of the string. *)
Mutant_MaxlenOnly ==
  IF call.function = "strnlen" THEN n # call.n ELSE memory[s] # Nul

(* The tests of strlen and of strnlen, in their order.                     *)
More == (call.function = "strnlen" => n # call.n) /\ memory[s] # Nul

Count ==
  /\ loop = "count" /\ More
  /\ s' = s + 1 /\ n' = n + 1
  /\ UNCHANGED <<memory, loop, d, history>>

Return ==
  /\ IF loop = "count" THEN ~More ELSE loop # "none" /\ n = 0
  /\ loop' = "none"
  /\ UNCHANGED <<memory, d, s, n, history>>

Next ==
  \/ \E p, q, len \in Pointers : memcpy(p, q, len) \/ memmove(p, q, len)
  \/ \E p, len \in Pointers, c \in Ints : memset(p, c, len)
  \/ \E p \in Pointers : strlen(p)
  \/ \E p, maxlen \in Pointers : strnlen(p, maxlen)
  \/ Forward \/ Backward \/ Fill \/ Count \/ Return

Spec == Init /\ [][Next]_vars

-----------------------------------------------------------------------------
(* Properties *)

TypeOK ==
  /\ memory \in [Addresses -> Bytes] /\ before \in [Addresses -> Bytes]
  /\ loop \in {"none", "forward", "backward", "fill", "count"}
  /\ d \in Pointers /\ s \in Pointers /\ n \in Pointers
  /\ call \in Calls

(* What a call leaves in the memory: in dst .. dst + n - 1 the bytes that  *)
(* src had when it was called, however the two overlap, or the low byte of *)
(* c; everything else as it was.  The functions on strings write nothing.  *)
Expected(a) ==
  IF \/ call.function \in {"strlen", "strnlen"}
     \/ a < call.dst \/ a >= call.dst + call.n
  THEN before[a]
  ELSE IF call.function = "memset" THEN call.c % Byte
                                   ELSE before[call.src + (a - call.dst)]

MemoryExact ==
  loop = "none" => \A a \in Addresses : memory[a] = Expected(a)

(* strlen returns the length of the string; strnlen the length of the      *)
(* string or maxlen, whichever is less: it stops at the limit although the *)
(* string goes on, and at the end of the string before the limit.          *)
LengthExact ==
  loop = "none" /\ call.function \in {"strlen", "strnlen"} =>
    /\ call.function = "strnlen" => n <= call.n
    /\ \A a \in call.src .. call.src + n - 1 : memory[a] # Nul
    /\ \/ call.function = "strnlen" /\ n = call.n
       \/ memory[call.src + n] = Nul
=============================================================================
