--------------------------- MODULE LibraryProofs ---------------------------
(***************************************************************************)
(* Proofs about Library: for memory of any size, bytes of any width and    *)
(* any arguments, each function writes what it should, and nothing else,   *)
(* and strings are measured right.  The invariant says of each loop what   *)
(* it has done so far, and what makes the rest of it right: that a byte of *)
(* src is read before the loop writes over it.                             *)
(***************************************************************************)
EXTENDS Library, TLAPS

Copied(a) == before[call.src + (a - call.dst)]

ForwardInv ==
  loop = "forward" =>
    /\ call.function \in {"memcpy", "memmove"}
    /\ n <= call.n /\ call.dst + call.n <= Size /\ call.src + call.n <= Size
    /\ d = call.dst + (call.n - n) /\ s = call.src + (call.n - n)
    /\ call.src < call.dst => call.src + call.n <= call.dst
    /\ \A a \in Addresses : memory[a] = IF call.dst <= a /\ a < d
                                        THEN Copied(a) ELSE before[a]

BackwardInv ==
  loop = "backward" =>
    /\ call.function = "memmove"
    /\ n <= call.n /\ call.dst + call.n <= Size /\ call.src + call.n <= Size
    /\ d = call.dst + n /\ s = call.src + n
    /\ call.src < call.dst
    /\ \A a \in Addresses : memory[a] = IF d <= a /\ a < call.dst + call.n
                                        THEN Copied(a) ELSE before[a]

FillInv ==
  loop = "fill" =>
    /\ call.function = "memset"
    /\ n <= call.n /\ call.dst + call.n <= Size
    /\ d = call.dst + (call.n - n)
    /\ \A a \in Addresses : memory[a] = IF call.dst <= a /\ a < d
                                        THEN call.c % Byte ELSE before[a]

(* The string goes on behind s, or maxlen ends the loop inside the memory. *)
CountInv ==
  loop = "count" =>
    /\ call.function \in {"strlen", "strnlen"}
    /\ s = call.src + n
    /\ \A a \in call.src .. s - 1 : memory[a] # Nul
    /\ \/ \E a \in Addresses : s <= a /\ memory[a] = Nul
       \/ call.function = "strnlen" /\ call.src + call.n <= Size
    /\ call.function = "strnlen" => n <= call.n
    /\ \A a \in Addresses : memory[a] = before[a]

IInv ==
  /\ TypeOK /\ ForwardInv /\ BackwardInv /\ FillInv /\ CountInv
  /\ MemoryExact /\ LengthExact

(* A byte is a byte again after the conversion of any int.                 *)
LEMMA LowByte == \A c \in Ints \cup {Nul} : c % Byte \in Bytes
  BY LibraryAssumption DEF Bytes, Nul

(* A call that has not yet done anything has done nothing wrong.           *)
LEMMA EnterInv ==
  ASSUME IInv,
         NEW function \in Functions, NEW p \in Pointers, NEW q \in Pointers,
         NEW len \in Pointers, NEW c \in Ints \cup {Nul},
         NEW which \in {"forward", "backward", "fill", "count"},
         NEW dd \in Pointers, NEW ss \in Pointers, NEW count \in Pointers,
         Enter(Arguments(function, p, q, len, c), which, dd, ss, count)
  PROVE  /\ TypeOK' /\ MemoryExact' /\ LengthExact'
         /\ call'.function = function /\ call'.dst = p /\ call'.src = q
         /\ call'.n = len /\ call'.c = c
         /\ loop' = which /\ d' = dd /\ s' = ss /\ n' = count
         /\ memory' = memory /\ before' = memory
<1>1. call' = Arguments(function, p, q, len, c) /\ call' \in Calls
  BY DEF Enter, Arguments, Calls
<1>2. TypeOK'
  BY <1>1 DEF Enter, IInv, TypeOK
<1>3. loop' = which
  BY DEF Enter
<1>. QED
  BY <1>1, <1>2, <1>3 DEF Enter, Arguments, MemoryExact, LengthExact

(* The initial memory is what no call has changed.                         *)
LEMMA InitInv == Init => IInv
  BY LibraryAssumption DEF Init, IInv, TypeOK, ForwardInv, BackwardInv,
     FillInv, CountInv, MemoryExact, LengthExact, Expected, Arguments, Calls,
     Functions, Pointers, Addresses, Bytes, Nul

(* What a call establishes for the loop it enters. *)
LEMMA EnterForward ==
  ASSUME IInv,
         NEW function \in {"memcpy", "memmove"}, NEW p \in Pointers,
         NEW q \in Pointers, NEW len \in Pointers,
         Fits(p, len), Fits(q, len), q < p => q + len <= p,
         Enter(Arguments(function, p, q, len, Nul), "forward", p, q, len)
  PROVE  IInv'
<1>1. /\ TypeOK' /\ MemoryExact' /\ LengthExact'
      /\ call'.function = function /\ call'.dst = p /\ call'.src = q
      /\ call'.n = len
      /\ loop' = "forward" /\ d' = p /\ s' = q /\ n' = len
      /\ memory' = memory /\ before' = memory
  BY EnterInv DEF Functions
<1>2. /\ p \in Int /\ q \in Int /\ len \in Int
      /\ p + len <= Size /\ q + len <= Size
  BY LibraryAssumption DEF Pointers, Fits
<1>3. ForwardInv'
  BY <1>1, <1>2, LibraryAssumption DEF ForwardInv, Addresses
<1>. QED
  BY <1>1, <1>3 DEF IInv, BackwardInv, FillInv, CountInv

LEMMA EnterBackward ==
  ASSUME IInv,
         NEW p \in Pointers, NEW q \in Pointers, NEW len \in Pointers,
         Fits(p, len), Fits(q, len), q < p,
         Enter(Arguments("memmove", p, q, len, Nul), "backward",
               p + len, q + len, len)
  PROVE  IInv'
<1>2. /\ p \in Int /\ q \in Int /\ len \in Int
      /\ p + len <= Size /\ q + len <= Size
      /\ p + len \in Pointers /\ q + len \in Pointers
  BY LibraryAssumption DEF Pointers, Fits
<1>1. /\ TypeOK' /\ MemoryExact' /\ LengthExact'
      /\ call'.function = "memmove" /\ call'.dst = p /\ call'.src = q
      /\ call'.n = len
      /\ loop' = "backward" /\ d' = p + len /\ s' = q + len /\ n' = len
      /\ memory' = memory /\ before' = memory
  BY <1>2, EnterInv DEF Functions
<1>3. BackwardInv'
  BY <1>1, <1>2, LibraryAssumption DEF BackwardInv, Addresses
<1>. QED
  BY <1>1, <1>3 DEF IInv, ForwardInv, FillInv, CountInv

LEMMA EnterFill ==
  ASSUME IInv, NEW p \in Pointers, NEW len \in Pointers, NEW c \in Ints,
         memset(p, c, len)
  PROVE  IInv'
<1>2. /\ p \in Int /\ len \in Int /\ p + len <= Size /\ 0 \in Pointers
  BY LibraryAssumption DEF Pointers, Fits, memset
<1>1. /\ TypeOK' /\ MemoryExact' /\ LengthExact'
      /\ call'.function = "memset" /\ call'.dst = p /\ call'.n = len
      /\ loop' = "fill" /\ d' = p /\ n' = len
      /\ memory' = memory /\ before' = memory
  BY <1>2, EnterInv DEF Functions, memset
<1>3. FillInv'
  BY <1>1, <1>2, LibraryAssumption DEF FillInv, Addresses
<1>. QED
  BY <1>1, <1>3 DEF IInv, ForwardInv, BackwardInv, CountInv

LEMMA EnterCount ==
  ASSUME IInv, NEW function \in {"strlen", "strnlen"},
         NEW p \in Pointers, NEW maxlen \in Pointers,
         ~Terminated(p) => function = "strnlen" /\ Fits(p, maxlen),
         Enter(Arguments(function, 0, p, maxlen, Nul), "count", 0, p, 0)
  PROVE  IInv'
<1>2. /\ p \in Int /\ maxlen \in Int /\ 0 <= maxlen /\ 0 \in Pointers
  BY LibraryAssumption DEF Pointers
<1>1. /\ TypeOK' /\ MemoryExact' /\ LengthExact'
      /\ call'.function = function /\ call'.src = p /\ call'.n = maxlen
      /\ loop' = "count" /\ s' = p /\ n' = 0
      /\ memory' = memory /\ before' = memory
  BY <1>2, EnterInv DEF Functions
<1>3. CountInv'
  BY <1>1, <1>2, LibraryAssumption DEF CountInv, Terminated, Fits
<1>. QED
  BY <1>1, <1>3 DEF IInv, ForwardInv, BackwardInv, FillInv

LEMMA CallsInv ==
  ASSUME IInv,
         \/ \E p, q, len \in Pointers : memcpy(p, q, len) \/ memmove(p, q, len)
         \/ \E p, len \in Pointers, c \in Ints : memset(p, c, len)
         \/ \E p \in Pointers : strlen(p)
         \/ \E p, maxlen \in Pointers : strnlen(p, maxlen)
  PROVE  IInv'
<1>1. ASSUME NEW p \in Pointers, NEW q \in Pointers, NEW len \in Pointers,
             memcpy(p, q, len)
      PROVE  IInv'
  <2>1. q < p => q + len <= p
    BY <1>1, LibraryAssumption DEF memcpy, Disjoint, Pointers
  <2>. QED  BY <1>1, <2>1, EnterForward DEF memcpy
<1>2. ASSUME NEW p \in Pointers, NEW q \in Pointers, NEW len \in Pointers,
             memmove(p, q, len)
      PROVE  IInv'
  <2>1. CASE q < p /\ q + len > p
    BY <1>2, <2>1, EnterBackward DEF memmove
  <2>2. CASE ~(q < p /\ q + len > p)
    <3>1. q < p => q + len <= p
      BY <2>2, LibraryAssumption DEF Pointers
    <3>. QED  BY <1>2, <2>2, <3>1, EnterForward DEF memmove
  <2>. QED  BY <2>1, <2>2
<1>3. ASSUME NEW p \in Pointers, strlen(p)
      PROVE  IInv'
  <2>1. 0 \in Pointers /\ "strlen" \in {"strlen", "strnlen"}
    BY LibraryAssumption DEF Pointers
  <2>2. /\ Terminated(p)
        /\ Enter(Arguments("strlen", 0, p, 0, Nul), "count", 0, p, 0)
    BY <1>3 DEF strlen
  <2>. QED  BY <2>1, <2>2, EnterCount
<1>4. ASSUME NEW p \in Pointers, NEW maxlen \in Pointers, strnlen(p, maxlen)
      PROVE  IInv'
  <2>1. "strnlen" \in {"strlen", "strnlen"}
    OBVIOUS
  <2>2. /\ Fits(p, maxlen) \/ Terminated(p)
        /\ Enter(Arguments("strnlen", 0, p, maxlen, Nul), "count", 0, p, 0)
    BY <1>4 DEF strnlen
  <2>. QED  BY <2>1, <2>2, EnterCount
<1>. QED
  BY <1>1, <1>2, <1>3, <1>4, EnterFill

LEMMA ForwardStep == IInv /\ Forward => IInv'
<1>. SUFFICES ASSUME IInv, Forward PROVE IInv'
  OBVIOUS
<1>. USE LibraryAssumption DEF Pointers, Addresses, history
<1>0. /\ loop = "forward" /\ n > 0 /\ call \in Calls
      /\ memory \in [Addresses -> Bytes] /\ n \in Pointers
      /\ d \in Pointers /\ s \in Pointers /\ ForwardInv
  BY DEF IInv, Forward, TypeOK
<1>a. /\ call.function \in {"memcpy", "memmove"}
      /\ n <= call.n /\ call.dst + call.n <= Size /\ call.src + call.n <= Size
      /\ d = call.dst + (call.n - n) /\ s = call.src + (call.n - n)
      /\ call.src < call.dst => call.src + call.n <= call.dst
  BY <1>0 DEF ForwardInv
<1>b. call.n \in Nat /\ call.dst \in Nat /\ call.src \in Nat
  BY <1>0 DEF Calls
<1>1. /\ call.n \in Nat /\ call.dst \in Nat /\ call.src \in Nat
      /\ s \in Addresses /\ d \in Addresses /\ memory[s] = before[s]
      /\ s = call.src + (d - call.dst)
  <2>1. s \in Addresses /\ d \in Addresses /\ s = call.src + (d - call.dst)
    <3>1. n \in Nat /\ n > 0 /\ d \in Nat /\ s \in Nat
      BY <1>0
    <3>2. d < call.dst + call.n
      BY <3>1, <1>a, <1>b
    <3>3. s < call.src + call.n
      BY <3>1, <1>a, <1>b
    <3>4. s \in Addresses /\ d \in Addresses
      BY <3>1, <3>2, <3>3, <1>a, <1>b
    <3>5. s = call.src + (d - call.dst)
      BY <3>1, <1>a, <1>b
    <3>. QED  BY <3>4, <3>5
  <2>2. ~(call.dst <= s /\ s < d)
    BY <1>0, <1>a, <1>b
  <2>3. memory[s] = before[s]
    BY <1>0, <2>1, <2>2 DEF ForwardInv
  <2>. QED  BY <1>b, <2>1, <2>3
<1>2. TypeOK'
  BY <1>1 DEF IInv, Forward, TypeOK
<1>3. ForwardInv'
  <2>1. \A a \in Addresses :
          memory'[a] = IF call.dst <= a /\ a < d + 1
                       THEN before[call.src + (a - call.dst)] ELSE before[a]
    <3>. SUFFICES ASSUME NEW a \in Addresses
                  PROVE  memory'[a] = IF call.dst <= a /\ a < d + 1
                                      THEN before[call.src + (a - call.dst)]
                                      ELSE before[a]
      OBVIOUS
    <3>1. call.dst <= d
      BY <1>0, <1>1 DEF ForwardInv
    <3>2. CASE a = d
      BY <1>0, <1>1, <3>1, <3>2 DEF Forward
    <3>3. CASE a # d
      <4>1. memory'[a] = memory[a]
        BY <1>0, <3>3 DEF Forward
      <4>2. memory[a] = IF call.dst <= a /\ a < d
                        THEN before[call.src + (a - call.dst)] ELSE before[a]
        BY <1>0 DEF ForwardInv, Copied
      <4>. QED  BY <1>1, <3>3, <4>1, <4>2
    <3>. QED  BY <3>2, <3>3
  <2>2. /\ loop' = loop /\ call' = call /\ before' = before
        /\ d' = d + 1 /\ s' = s + 1 /\ n' = n - 1
    BY DEF Forward
  <2>3. \A a \in Addresses :
          memory'[a] = IF call'.dst <= a /\ a < d' THEN Copied(a)' ELSE before'[a]
    BY <2>1, <2>2 DEF Copied
  <2>4. /\ n - 1 <= call.n
        /\ d + 1 = call.dst + (call.n - (n - 1))
        /\ s + 1 = call.src + (call.n - (n - 1))
    <3>1. n \in Nat /\ d \in Nat /\ s \in Nat
      BY <1>0
    <3>. QED  BY <3>1, <1>a, <1>b
  <2>. QED
    BY <1>a, <2>2, <2>3, <2>4 DEF ForwardInv
<1>. QED
  BY <1>2, <1>3 DEF IInv, Forward, BackwardInv, FillInv, CountInv,
     MemoryExact, LengthExact

LEMMA BackwardStep == IInv /\ Backward => IInv'
<1>. SUFFICES ASSUME IInv, Backward PROVE IInv'
  OBVIOUS
<1>. USE LibraryAssumption DEF Pointers, Addresses, history
<1>0. /\ loop = "backward" /\ n > 0 /\ call \in Calls
      /\ memory \in [Addresses -> Bytes] /\ n \in Pointers
      /\ d \in Pointers /\ s \in Pointers /\ BackwardInv
  BY DEF IInv, Backward, TypeOK
<1>1. /\ call.n \in Nat /\ call.dst \in Nat /\ call.src \in Nat
      /\ s - 1 \in Addresses /\ d - 1 \in Addresses
      /\ memory[s - 1] = before[s - 1]
      /\ s - 1 = call.src + ((d - 1) - call.dst)
  BY DEF IInv, Backward, TypeOK, Calls, BackwardInv
<1>2. TypeOK'
  BY <1>1 DEF IInv, Backward, TypeOK
<1>3. BackwardInv'
  <2>1. \A a \in Addresses :
          memory'[a] = IF d - 1 <= a /\ a < call.dst + call.n
                       THEN before[call.src + (a - call.dst)] ELSE before[a]
    <3>. SUFFICES ASSUME NEW a \in Addresses
                  PROVE  memory'[a] = IF d - 1 <= a /\ a < call.dst + call.n
                                      THEN before[call.src + (a - call.dst)]
                                      ELSE before[a]
      OBVIOUS
    <3>1. d - 1 < call.dst + call.n
      BY <1>0, <1>1 DEF BackwardInv
    <3>2. CASE a = d - 1
      BY <1>0, <1>1, <3>1, <3>2 DEF Backward
    <3>3. CASE a # d - 1
      <4>1. memory'[a] = memory[a]
        BY <1>0, <3>3 DEF Backward
      <4>2. memory[a] = IF d <= a /\ a < call.dst + call.n
                        THEN before[call.src + (a - call.dst)] ELSE before[a]
        BY <1>0 DEF BackwardInv, Copied
      <4>3. d - 1 <= a <=> d <= a
        BY <1>0, <3>3
      <4>. QED  BY <4>1, <4>2, <4>3
    <3>. QED  BY <3>2, <3>3
  <2>2. /\ loop' = loop /\ call' = call /\ before' = before
        /\ d' = d - 1 /\ s' = s - 1 /\ n' = n - 1
    BY DEF Backward
  <2>3. \A a \in Addresses :
          memory'[a] = IF d' <= a /\ a < call'.dst + call'.n
                       THEN Copied(a)' ELSE before'[a]
    BY <2>1, <2>2 DEF Copied
  <2>4. /\ call.function = "memmove"
        /\ n - 1 <= call.n /\ call.dst + call.n <= Size
        /\ call.src + call.n <= Size
        /\ d - 1 = call.dst + (n - 1) /\ s - 1 = call.src + (n - 1)
        /\ call.src < call.dst
    <3>1. /\ call.function = "memmove"
          /\ n <= call.n /\ call.dst + call.n <= Size
          /\ call.src + call.n <= Size
          /\ d = call.dst + n /\ s = call.src + n
          /\ call.src < call.dst
      BY <1>0 DEF BackwardInv
    <3>2. call.n \in Nat /\ call.dst \in Nat /\ call.src \in Nat /\ n \in Nat
      BY <1>0, <1>1
    <3>. QED  BY <3>1, <3>2
  <2>. QED
    BY <2>2, <2>3, <2>4 DEF BackwardInv
<1>. QED
  BY <1>2, <1>3 DEF IInv, Backward, ForwardInv, FillInv, CountInv,
     MemoryExact, LengthExact

LEMMA FillStep == IInv /\ Fill => IInv'
<1>. SUFFICES ASSUME IInv, Fill PROVE IInv'
  OBVIOUS
<1>. USE LibraryAssumption DEF Pointers, Addresses, history
<1>0. /\ loop = "fill" /\ n > 0 /\ call \in Calls
      /\ memory \in [Addresses -> Bytes] /\ n \in Pointers
      /\ FillInv
  BY DEF IInv, Fill, TypeOK
<1>1. /\ call.n \in Nat /\ call.dst \in Nat /\ d \in Addresses
      /\ call.c % Byte \in Bytes
  <2>1. call.n \in Nat /\ call.dst \in Nat
    BY <1>0 DEF Calls
  <2>2. d \in Addresses
    BY <1>0, <2>1 DEF FillInv
  <2>3. call.c % Byte \in Bytes
    BY <1>0, LowByte DEF Calls
  <2>. QED  BY <2>1, <2>2, <2>3
<1>2. TypeOK'
  BY <1>1 DEF IInv, Fill, TypeOK
<1>3. FillInv'
  <2>1. \A a \in Addresses :
          memory'[a] = IF call.dst <= a /\ a < d + 1
                       THEN call.c % Byte ELSE before[a]
    BY <1>0, <1>1 DEF Fill, FillInv
  <2>2. /\ d' = d + 1 /\ n' = n - 1 /\ call' = call /\ before' = before
        /\ n \in Nat
    BY <1>0 DEF Fill
  <2>3. /\ call.function = "memset"
        /\ n <= call.n /\ call.dst + call.n <= Size
        /\ d = call.dst + call.n - n
    BY <1>0 DEF FillInv
  <2>4. n' <= call.n /\ d' = call.dst + call.n - n'
    BY <1>1, <2>2, <2>3
  <2>. QED
    BY <2>1, <2>2, <2>3, <2>4 DEF FillInv
<1>. QED
  BY <1>2, <1>3 DEF IInv, Fill, ForwardInv, BackwardInv, CountInv,
     MemoryExact, LengthExact

LEMMA CountStep == IInv /\ Count => IInv'
<1>. SUFFICES ASSUME IInv, Count PROVE IInv'
  OBVIOUS
<1>. USE LibraryAssumption DEF Pointers, Addresses, history
<1>1. /\ call.n \in Nat /\ call.src \in Nat /\ s \in 0 .. Size /\ n \in Nat
      /\ memory[s] # Nul
      /\ call.function = "strnlen" => n < call.n
  BY DEF IInv, Count, More, TypeOK, Calls, CountInv
<1>2. s + 1 \in Pointers /\ n + 1 \in Pointers
  BY <1>1 DEF IInv, Count, TypeOK, CountInv
<1>3. TypeOK'
  BY <1>2 DEF IInv, Count, TypeOK
<1>4. CountInv'
  BY <1>1, <1>2 DEF IInv, Count, TypeOK, CountInv
<1>. QED
  BY <1>3, <1>4 DEF IInv, Count, ForwardInv, BackwardInv, FillInv,
     MemoryExact, LengthExact

LEMMA ReturnStep == IInv /\ Return => IInv'
<1>. SUFFICES ASSUME IInv, Return PROVE IInv'
  OBVIOUS
<1>. USE LibraryAssumption DEF Pointers, Addresses, history
<1>1. TypeOK'
  BY DEF IInv, Return, TypeOK
<1>2. /\ call.n \in Nat /\ call.src \in Nat /\ call.dst \in Nat /\ n \in Nat
  BY DEF IInv, TypeOK, Calls
<1>3. \A a \in Addresses : memory[a] = Expected(a)
  <2>0. ForwardInv /\ BackwardInv /\ FillInv /\ (loop # "count" => n = 0)
    BY DEF IInv, Return
  <2>1. CASE loop = "forward"
    <3>1. \A a \in Addresses :
            memory[a] = IF call.dst <= a /\ a < call.dst + call.n
                        THEN Copied(a) ELSE before[a]
      BY <1>2, <2>0, <2>1 DEF ForwardInv
    <3>2. call.function \in {"memcpy", "memmove"}
      BY <2>0, <2>1 DEF ForwardInv
    <3>. QED  BY <1>2, <3>1, <3>2 DEF Copied, Expected
  <2>2. CASE loop = "backward"
    <3>1. \A a \in Addresses :
            memory[a] = IF call.dst <= a /\ a < call.dst + call.n
                        THEN Copied(a) ELSE before[a]
      BY <1>2, <2>0, <2>2 DEF BackwardInv
    <3>2. call.function = "memmove"
      BY <2>0, <2>2 DEF BackwardInv
    <3>. QED  BY <1>2, <3>1, <3>2 DEF Copied, Expected
  <2>3. CASE loop = "fill"
    <3>1. \A a \in Addresses :
            memory[a] = IF call.dst <= a /\ a < call.dst + call.n
                        THEN call.c % Byte ELSE before[a]
      BY <1>2, <2>0, <2>3 DEF FillInv
    <3>2. call.function = "memset"
      BY <2>0, <2>3 DEF FillInv
    <3>. QED  BY <1>2, <3>1, <3>2 DEF Expected
  <2>4. CASE loop = "count"
    BY <1>2, <2>4 DEF IInv, TypeOK, CountInv, Expected
  <2>. QED
    BY <2>1, <2>2, <2>3, <2>4 DEF IInv, Return, TypeOK
<1>4. MemoryExact'
  BY <1>3 DEF MemoryExact, Expected, Return
<1>5. LengthExact'
  <2>1. loop = "count" => LengthExact'
    BY <1>2 DEF IInv, Return, More, TypeOK, CountInv, LengthExact
  <2>2. loop # "count" => LengthExact'
    BY DEF IInv, Return, TypeOK, ForwardInv, BackwardInv, FillInv, LengthExact
  <2>. QED  BY <2>1, <2>2
<1>. QED
  BY <1>1, <1>4, <1>5 DEF IInv, Return, ForwardInv, BackwardInv, FillInv,
     CountInv

(* The invariant of the loops holds throughout. *)
THEOREM Invariance == Spec => []IInv
<1>1. IInv /\ [Next]_vars => IInv'
  <2>. SUFFICES ASSUME IInv, [Next]_vars PROVE IInv'
    OBVIOUS
  <2>1. CASE Next
    BY <2>1, CallsInv, ForwardStep, BackwardStep, FillStep, CountStep,
       ReturnStep DEF Next
  <2>2. CASE UNCHANGED vars
    BY <2>2 DEF vars, history, IInv, TypeOK, ForwardInv, BackwardInv, FillInv,
       CountInv, Copied, MemoryExact, LengthExact, Expected, Terminated
  <2>. QED  BY <2>1, <2>2
<1>. QED
  BY <1>1, InitInv, PTL DEF Spec

(* Pointers and the count stay inside the memory or one past its end, and  *)
(* bytes stay bytes.                                                       *)
THEOREM LibraryTypes == Spec => []TypeOK
  BY Invariance, PTL DEF IInv

(* memcpy, memmove and memset leave in the memory exactly what they should *)
(* and the functions on strings change nothing, for every overlap.         *)
THEOREM MemoryTheorem == Spec => []MemoryExact
  BY Invariance, PTL DEF IInv

(* strlen and strnlen return the length of the string, or maxlen.          *)
THEOREM LengthTheorem == Spec => []LengthExact
  BY Invariance, PTL DEF IInv
=============================================================================
