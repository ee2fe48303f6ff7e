---------------------------- MODULE PrintfProofs ----------------------------
(***************************************************************************)
(* Theorems about Printf.  The format is a concatenation, so a place in it *)
(* is a piece and a place in that piece; the same for the arguments.  The  *)
(* invariant says which piece is being read, and what has been read of it; *)
(* the rest is about the field that is printed for an escape: its digits,  *)
(* and where the sign, the zeros and the blanks come.                      *)
(***************************************************************************)
EXTENDS Printf, Foundations, SequenceTheorems, TLAPS

-----------------------------------------------------------------------------
(* Concatenations *)

Flat(s, g) ==
  g = [k \in 1 .. Len(s) |-> IF k = 1 THEN s[k] ELSE g[k - 1] \o s[k]]

(* A sequence of sequences, named so that the provers do not look at it.   *)
Parts(s, V) == s \in Seq(Seq(V))

(* What Parts says, for the provers. *)
LEMMA PartsAre ==
  ASSUME NEW V, NEW s, Parts(s, V)
  PROVE  /\ Len(s) \in Nat /\ DOMAIN s = 1 .. Len(s)
         /\ \A k \in 1 .. Len(s) : s[k] \in Seq(V)
BY DEF Parts

(* FlattenSeq, as the function that it recurs with. *)
LEMMA FlattenIs ==
  ASSUME NEW s
  PROVE  FlattenSeq(s) = IF Len(s) = 0 THEN s ELSE (CHOOSE g : Flat(s, g))[Len(s)]
BY DEF FlattenSeq, Flat

(* There is such a function. *)
LEMMA FlatExists ==
  ASSUME NEW V, NEW s, Parts(s, V)
  PROVE  \E g : Flat(s, g)
<1>. DEFINE n == Len(s)
            S == Seq(V)
            step == [k \in 1 .. n |-> [v \in S |-> v \o s[k]]]
<1>1. <<>> \in S /\ n \in Nat
  BY PartsAre
<1>0. ASSUME NEW k \in 1 .. n, NEW v \in S
      PROVE  v \o s[k] \in S /\ <<>> \o s[k] = s[k]
  BY PartsAre
<1>. HIDE DEF n, S
<1>2. ASSUME NEW k \in 1 .. n, NEW v \in S
      PROVE  step[k][v] = v \o s[k] /\ step[k][v] \in S
  BY <1>0
<1>3. StepsUpTo(n, S, step)
  <2>. HIDE DEF step
  <2>. QED  BY <1>2 DEF StepsUpTo
<1>4. PICK f \in [0 .. n -> S] : RecursFrom(f, n, <<>>, step)
  <2>. HIDE DEF step
  <2>. QED  BY <1>1, <1>3, PrimitiveRecursion
<1>. HIDE DEF step
<1>. DEFINE g == [k \in 1 .. n |-> f[k]]
<1>5. ASSUME NEW k \in 1 .. n
      PROVE  g[k] = IF k = 1 THEN s[k] ELSE g[k - 1] \o s[k]
  <2>1. k \in 0 .. n /\ k # 0 /\ k - 1 \in 0 .. n /\ f[k - 1] \in S
    BY <1>1
  <2>2. f[k] = f[k - 1] \o s[k]
    BY <1>2, <1>4, <2>1 DEF RecursFrom
  <2>3. CASE k = 1
    <3>1. f[0] = <<>>
      BY <1>1, <1>4 DEF RecursFrom
    <3>2. <<>> \o s[1] = s[1]
      BY <1>0, <1>1, <2>3
    <3>3. g[k] = f[k] /\ k - 1 = 0
      BY <2>3
    <3>. HIDE DEF g
    <3>. QED  BY <2>2, <2>3, <3>1, <3>2, <3>3
  <2>4. CASE k # 1
    <3>1. k - 1 \in 1 .. n
      BY <1>1, <2>4
    <3>. QED  BY <2>2, <2>4, <3>1
  <2>. QED  BY <2>3, <2>4
<1>6. Flat(s, g)
  <2>1. g = [k \in 1 .. n |-> IF k = 1 THEN s[k] ELSE g[k - 1] \o s[k]]
    <3>1. g = [k \in 1 .. n |-> g[k]]
      OBVIOUS
    <3>. HIDE DEF g
    <3>. QED  BY <1>5, <3>1, Zenon
  <2>. QED  BY <2>1 DEF Flat, n
<1>. QED  BY <1>6

(* The values of the recursion are sequences, and do not depend on what    *)
(* comes later.                                                            *)
LEMMA FlatAgree ==
  ASSUME NEW V, NEW s, Parts(s, V), NEW t, Parts(t, V),
         NEW n \in Nat, n <= Len(s), n <= Len(t),
         \A k \in 1 .. n : s[k] = t[k],
         NEW g, Flat(s, g), NEW h, Flat(t, h)
  PROVE  \A k \in 1 .. n : g[k] = h[k] /\ g[k] \in Seq(V)
<1>. DEFINE S == Seq(V)
            T == {k \in 0 .. n : k > 0 => g[k] = h[k] /\ g[k] \in S}
<1>0. \A v, w \in S : v \o w \in S
  OBVIOUS
<1>1. \A k \in 1 .. n : s[k] = t[k] /\ s[k] \in S
  BY PartsAre
<1>2. ASSUME NEW k \in 1 .. n
      PROVE  /\ g[k] = IF k = 1 THEN s[k] ELSE g[k - 1] \o s[k]
             /\ h[k] = IF k = 1 THEN t[k] ELSE h[k - 1] \o t[k]
  <2>1. \A j \in 1 .. Len(s) : g[j] = IF j = 1 THEN s[j] ELSE g[j - 1] \o s[j]
    BY Zenon DEF Flat
  <2>2. \A j \in 1 .. Len(t) : h[j] = IF j = 1 THEN t[j] ELSE h[j - 1] \o t[j]
    BY Zenon DEF Flat
  <2>3. k \in 1 .. Len(s) /\ k \in 1 .. Len(t)
    BY PartsAre
  <2>. QED  BY <2>1, <2>2, <2>3, Zenon
<1>. HIDE DEF S
<1>3. 0 \in T
  OBVIOUS
<1>4. ASSUME NEW k \in 0 .. n - 1, k \in T PROVE k + 1 \in T
  <2>1. k + 1 \in 1 .. n
    OBVIOUS
  <2>2. s[k + 1] = t[k + 1] /\ s[k + 1] \in S
    BY <1>1, <2>1
  <2>3. CASE k = 0
    <3>1. g[k + 1] = s[k + 1] /\ h[k + 1] = t[k + 1]
      BY <1>2, <2>1, <2>3
    <3>. QED  BY <2>1, <2>2, <3>1
  <2>4. CASE k # 0
    <3>1. g[k] = h[k] /\ g[k] \in S
      BY <1>4, <2>4
    <3>2. PICK j \in 1 .. n : j = k + 1 /\ j # 1 /\ j - 1 = k
      BY <2>1, <2>4
    <3>3. g[j] = g[k] \o s[j] /\ h[j] = h[k] \o t[j]
      BY <1>2, <3>2
    <3>4. g[k + 1] = h[k + 1] /\ g[k + 1] \in S
      BY <1>0, <2>2, <3>1, <3>2, <3>3
    <3>. QED  BY <2>1, <3>4
  <2>. QED  BY <2>3, <2>4
<1>5. 0 .. n \subseteq T
  <2>. HIDE DEF T
  <2>1. 0 \in Int /\ n \in Int
    OBVIOUS
  <2>. QED  BY <1>3, <1>4, <2>1, IntervalInduction, Zenon
<1>. QED  BY <1>5 DEF S

(* FlattenSeq is concatenation. *)
LEMMA FlattenAppend ==
  ASSUME NEW V, NEW s, Parts(s, V), NEW t \in Seq(V)
  PROVE  /\ FlattenSeq(s) \in Seq(V)
         /\ FlattenSeq(Append(s, t)) = FlattenSeq(s) \o t
<1>. DEFINE u == Append(s, t)
            n == Len(s)
<1>1. /\ n \in Nat /\ Parts(u, V) /\ Len(u) = n + 1 /\ u[n + 1] = t
      /\ \A k \in 1 .. n : u[k] = s[k]
  BY DEF Parts
<1>. HIDE DEF u
<1>2. PICK g : g = (CHOOSE x : Flat(s, x)) /\ Flat(s, g)
  BY FlatExists
<1>3. PICK h : h = (CHOOSE x : Flat(u, x)) /\ Flat(u, h)
  BY <1>1, FlatExists
<1>. HIDE DEF n
<1>4. \A k \in 1 .. n : g[k] = h[k] /\ g[k] \in Seq(V)
  <2>1. n \in Nat /\ n <= Len(s) /\ n <= Len(u)
    BY <1>1 DEF n
  <2>2. \A k \in 1 .. n : s[k] = u[k]
    BY <1>1
  <2>3. Parts(u, V) /\ Flat(s, g) /\ Flat(u, h)
    BY <1>1, <1>2, <1>3
  <2>. QED  BY <2>1, <2>2, <2>3, FlatAgree
<1>5. FlattenSeq(u) = h[n + 1]
  BY <1>1, <1>3, FlattenIs
<1>6. h[n + 1] = IF n + 1 = 1 THEN t ELSE h[n] \o t
  <2>1. \A k \in 1 .. Len(u) : h[k] = IF k = 1 THEN u[k] ELSE h[k - 1] \o u[k]
    BY <1>3, Zenon DEF Flat
  <2>2. n + 1 \in 1 .. Len(u) /\ n + 1 - 1 = n
    BY <1>1
  <2>. QED  BY <1>1, <2>1, <2>2
<1>7. CASE n = 0
  <2>1. FlattenSeq(s) = <<>>
    <3>1. s = <<>> /\ Len(s) = 0
      BY <1>7 DEF Parts, n
    <3>. QED  BY <3>1, FlattenIs, Zenon
  <2>2. <<>> \o t = t /\ <<>> \in Seq(V)
    BY ConcatEmptySeq
  <2>. QED  BY <1>5, <1>6, <1>7, <2>1, <2>2 DEF u
<1>8. CASE n # 0
  <2>1. FlattenSeq(s) = g[n] /\ n \in 1 .. n
    BY <1>1, <1>2, <1>8, FlattenIs DEF n
  <2>2. g[n] = h[n] /\ g[n] \in Seq(V)
    BY <1>4, <2>1
  <2>3. h[n + 1] = h[n] \o t
    BY <1>1, <1>6, <1>8
  <2>. QED  BY <1>5, <2>1, <2>2, <2>3 DEF u
<1>. QED  BY <1>1, <1>7, <1>8

(* Where part k begins: before its first element come Start(s, k) others.  *)
Start(s, k) == Len(FlattenSeq(SubSeq(s, 1, k - 1)))

(* One more part, and the concatenation is longer by that part. *)
LEMMA PrefixGrows ==
  ASSUME NEW V, NEW s, Parts(s, V), NEW m \in 0 .. Len(s) - 1
  PROVE  /\ FlattenSeq(SubSeq(s, 1, m)) \in Seq(V)
         /\ FlattenSeq(SubSeq(s, 1, m + 1))
              = FlattenSeq(SubSeq(s, 1, m)) \o s[m + 1]
<1>. DEFINE t == SubSeq(s, 1, m)
<1>1. Len(s) \in Nat /\ s \in Seq(Seq(V))
  BY PartsAre DEF Parts
<1>2. m \in Int /\ m + 1 \in 1 .. Len(s) /\ m + 1 - 1 = m /\ 1 \in 1 .. Len(s)
      /\ m + 1 \in 1 .. Len(s)
  BY <1>1
<1>3. \A k \in 1 .. m : s[k] \in Seq(V)
  BY <1>1, <1>2, PartsAre
<1>4. t \in Seq(Seq(V))
  BY <1>2, <1>3, SubSeqProperties
<1>5. SubSeq(s, 1, m + 1) = t \o <<s[m + 1]>>
  <2>1. \A q \in 1 .. Len(s) : SubSeq(s, 1, q) = SubSeq(s, 1, q - 1) \o <<s[q]>>
    BY <1>1, <1>2, SubSeqRecursiveSecond
  <2>. QED  BY <1>2, <2>1
<1>6. s[m + 1] \in Seq(V)
  BY <1>2, PartsAre
<1>7. t \o <<s[m + 1]>> = Append(t, s[m + 1])
  <2>. DEFINE x == s[m + 1]
  <2>1. x \in Seq(V)
    BY <1>6
  <2>. HIDE DEF x, t
  <2>2. t \o <<x>> = Append(t, x)
    BY <1>4, <2>1
  <2>. QED  BY <2>2 DEF x
<1>. QED  BY <1>4, <1>5, <1>6, <1>7, FlattenAppend DEF Parts

(* A place in the whole is a place in a part. *)
LEMMA PartPlaces ==
  ASSUME NEW V, NEW s, Parts(s, V)
  PROVE  /\ FlattenSeq(s) \in Seq(V)
         /\ Start(s, 1) = 0 /\ Start(s, Len(s) + 1) = Len(FlattenSeq(s))
         /\ \A k \in 1 .. Len(s) :
              /\ Start(s, k) \in Nat /\ Start(s, k + 1) = Start(s, k) + Len(s[k])
              /\ Start(s, k + 1) <= Len(FlattenSeq(s))
              /\ \A j \in 1 .. Len(s[k]) : FlattenSeq(s)[Start(s, k) + j] = s[k][j]
<1>. DEFINE n == Len(s)
            F == [m \in 0 .. n |-> FlattenSeq(SubSeq(s, 1, m))]
            S == Seq(V)
<1>1. n \in Nat /\ \A k \in 1 .. n : s[k] \in S
  BY PartsAre
<1>2. SubSeq(s, 1, n) = s
  <2>1. s \in Seq(Seq(V))
    BY DEF Parts
  <2>. QED  BY <2>1, SubSeqFull
<1>3. SubSeq(s, 1, 0) = <<>>
  BY SubSeqEmpty
<1>4. F[0] = <<>> /\ F[0] \in S /\ Len(F[0]) = 0
  <2>1. FlattenSeq(<<>>) = <<>>
    BY FlattenIs
  <2>2. 0 \in 0 .. n
    BY <1>1
  <2>3. F[0] = <<>>
    BY <1>3, <2>1, <2>2
  <2>. HIDE DEF F
  <2>. QED  BY <2>3
<1>5. ASSUME NEW m \in 0 .. n - 1
      PROVE  F[m] \in S /\ F[m + 1] = F[m] \o s[m + 1]
  <2>1. m \in 0 .. n /\ m + 1 \in 0 .. n
    BY <1>1
  <2>. QED  BY <2>1, PrefixGrows
<1>6. ASSUME NEW m \in 0 .. n PROVE F[m] \in S
  <2>1. CASE m = 0
    BY <1>4, <2>1
  <2>2. CASE m # 0
    <3>1. PICK j \in 0 .. n - 1 : m = j + 1
      <4>1. m - 1 \in 0 .. n - 1 /\ m = (m - 1) + 1
        BY <1>1, <2>2
      <4>. QED  BY <4>1
    <3>2. F[j] \in S /\ F[j + 1] = F[j] \o s[j + 1]
      BY <1>5
    <3>3. s[j + 1] \in S
      BY <1>1
    <3>. HIDE DEF F
    <3>4. F[j] \o s[j + 1] \in S
      BY <3>2, <3>3
    <3>. QED  BY <3>1, <3>2, <3>4
  <2>. QED  BY <2>1, <2>2
<1>7. F[n] = FlattenSeq(s)
  <2>1. n \in 0 .. n
    BY <1>1
  <2>. QED  BY <1>2, <2>1
<1>8. ASSUME NEW k \in 1 .. n + 1 PROVE Start(s, k) = Len(F[k - 1])
  <2>1. k - 1 \in 0 .. n
    BY <1>1
  <2>. QED  BY <2>1 DEF Start
<1>. HIDE DEF F
<1>9. ASSUME NEW u \in S, NEW v \in S
      PROVE  /\ u \o v \in S /\ Len(u \o v) = Len(u) + Len(v)
             /\ Len(u) \in Nat /\ Len(v) \in Nat
             /\ \A j \in 1 .. Len(u) : (u \o v)[j] = u[j]
             /\ \A j \in 1 .. Len(v) : (u \o v)[Len(u) + j] = v[j]
  OBVIOUS
<1>. HIDE DEF S, n
<1>10. ASSUME NEW k \in 1 .. n
       PROVE  /\ Start(s, k) \in Nat /\ Start(s, k + 1) = Start(s, k) + Len(s[k])
              /\ Start(s, k + 1) <= Len(F[n])
              /\ \A j \in 1 .. Len(s[k]) : F[n][Start(s, k) + j] = s[k][j]
  <2>. DEFINE b == Start(s, k)
              c == Len(s[k])
              T == {m \in k .. n : /\ b + c <= Len(F[m])
                                   /\ \A j \in 1 .. c : F[m][b + j] = s[k][j]}
  <2>1. PICK p \in 0 .. n - 1 : p = k - 1 /\ p + 1 = k
    BY <1>1
  <2>2. F[p] \in S /\ s[k] \in S /\ F[k] = F[p] \o s[k] /\ b = Len(F[p])
    <3>1. F[p] \in S /\ F[p + 1] = F[p] \o s[p + 1]
      BY <1>5
    <3>2. b = Len(F[k - 1])
      <4>1. k \in 1 .. n + 1
        BY <1>1
      <4>. QED  BY <1>8, <4>1
    <3>. HIDE DEF b
    <3>. QED  BY <1>1, <2>1, <3>1, <3>2
  <2>3. b \in Nat /\ c \in Nat /\ Len(F[k]) = b + c
        /\ \A j \in 1 .. c : F[k][b + j] = s[k][j]
    <3>1. PICK u \in S : u = F[p]
      BY <2>2
    <3>2. PICK v \in S : v = s[k]
      BY <2>2
    <3>3. F[k] = u \o v /\ b = Len(u) /\ c = Len(v)
      BY <2>2, <3>1, <3>2
    <3>4. /\ u \o v \in S /\ Len(u \o v) = Len(u) + Len(v)
          /\ Len(u) \in Nat /\ Len(v) \in Nat
          /\ \A j \in 1 .. Len(u) : (u \o v)[j] = u[j]
          /\ \A j \in 1 .. Len(v) : (u \o v)[Len(u) + j] = v[j]
      BY <1>9, Zenon
    <3>. HIDE DEF b, c
    <3>. QED  BY <3>2, <3>3, <3>4
  <2>4. Start(s, k + 1) = b + c
    <3>1. PICK q \in 1 .. n + 1 : q = k + 1 /\ q - 1 = k
      BY <1>1
    <3>2. Start(s, q) = Len(F[q - 1])
      BY <1>8
    <3>. HIDE DEF b, c
    <3>. QED  BY <2>3, <3>1, <3>2
  <2>. HIDE DEF b, c
  <2>5. k \in T
    BY <1>1, <2>3
  <2>6. ASSUME NEW m \in k .. n - 1, m \in T PROVE m + 1 \in T
    <3>1. m \in 0 .. n - 1 /\ m + 1 \in 1 .. n /\ m + 1 \in k .. n
      BY <1>1
    <3>2. F[m] \in S /\ s[m + 1] \in S /\ F[m + 1] = F[m] \o s[m + 1]
      BY <1>1, <1>5, <3>1
    <3>3. /\ Len(F[m + 1]) = Len(F[m]) + Len(s[m + 1])
          /\ Len(F[m]) \in Nat /\ Len(s[m + 1]) \in Nat
          /\ \A j \in 1 .. Len(F[m]) : F[m + 1][j] = F[m][j]
      <4>1. PICK u \in S : u = F[m]
        BY <3>2
      <4>2. PICK v \in S : v = s[m + 1]
        BY <3>2
      <4>3. F[m + 1] = u \o v
        BY <3>2, <4>1, <4>2
      <4>4. /\ u \o v \in S /\ Len(u \o v) = Len(u) + Len(v)
            /\ Len(u) \in Nat /\ Len(v) \in Nat
            /\ \A j \in 1 .. Len(u) : (u \o v)[j] = u[j]
            /\ \A j \in 1 .. Len(v) : (u \o v)[Len(u) + j] = v[j]
        BY <1>9, Zenon
      <4>. QED  BY <4>1, <4>2, <4>3, <4>4
    <3>4. b + c <= Len(F[m]) /\ \A j \in 1 .. c : F[m][b + j] = s[k][j]
      BY <2>6
    <3>5. ASSUME NEW j \in 1 .. c PROVE F[m + 1][b + j] = s[k][j]
      <4>1. b + j \in 1 .. Len(F[m])
        BY <2>3, <3>3, <3>4
      <4>. QED  BY <3>3, <3>4, <4>1
    <3>6. b + c <= Len(F[m + 1])
      <4>1. PICK x, y \in Nat : /\ x = Len(F[m]) /\ y = Len(s[m + 1])
                                /\ Len(F[m + 1]) = x + y
        BY <3>3, Zenon
      <4>2. b \in Nat /\ c \in Nat /\ b + c <= x
        BY <2>3, <3>4, <4>1
      <4>3. b + c <= x + y
        BY <4>2
      <4>. QED  BY <4>1, <4>3
    <3>. QED  BY <3>1, <3>5, <3>6
  <2>7. k .. n \subseteq T
    <3>1. k \in Int /\ n \in Int
      BY <1>1
    <3>. HIDE DEF T
    <3>. QED  BY <2>5, <2>6, <3>1, IntervalInduction
  <2>8. n \in T
    <3>1. n \in k .. n
      BY <1>1
    <3>. QED  BY <2>7, <3>1
  <2>. QED  BY <2>3, <2>4, <2>8 DEF b, c
<1>11. Start(s, 1) = 0 /\ Start(s, n + 1) = Len(F[n])
  <2>1. PICK q \in 1 .. n + 1 : q = n + 1 /\ q - 1 = n
    BY <1>1
  <2>2. Start(s, q) = Len(F[q - 1])
    BY <1>8
  <2>3. 1 \in 1 .. n + 1 /\ 1 - 1 = 0
    BY <1>1
  <2>4. Start(s, 1) = Len(F[1 - 1])
    BY <1>8, <2>3
  <2>. QED  BY <1>4, <2>1, <2>2, <2>3, <2>4
<1>12. F[n] \in S
  BY <1>1, <1>6
<1>. QED  BY <1>7, <1>10, <1>11, <1>12 DEF S, n

-----------------------------------------------------------------------------
(* Numbers *)

(* The digits of a number, and their values. *)
AllDigits == Range(upper_digits) \cup Range(lower_digits)

(* Each of the 16 digits has its value, in both alphabets. *)
LEMMA DigitValues ==
  ASSUME NEW digits \in {upper_digits, lower_digits}
  PROVE  /\ \A d \in 0 .. 15 : /\ digits[d + 1] \in Range(digits)
                               /\ DigitValue(digits[d + 1]) = d
                               /\ d # 0 => digits[d + 1] # "0"
         /\ digits[1] = "0"
<1>1. \A c, d \in 0 .. 15 :
        /\ upper_digits[c + 1] = upper_digits[d + 1] => c = d
        /\ lower_digits[c + 1] = lower_digits[d + 1] => c = d
        /\ lower_digits[c + 1] = upper_digits[d + 1] => c = d
  BY DEF upper_digits, lower_digits
<1>2. ASSUME NEW d \in 0 .. 15
      PROVE  DigitValue(digits[d + 1]) = d
  <2>1. \A e \in 0 .. 15 :
          digits[d + 1] \in {upper_digits[e + 1], lower_digits[e + 1]} <=> e = d
    BY <1>1
  <2>2. DigitValue(digits[d + 1]) = CHOOSE e \in 0 .. 15 : e = d
    BY <2>1, Zenon DEF DigitValue
  <2>. QED  BY <2>2
<1>3. ASSUME NEW d \in 0 .. 15
      PROVE  digits[d + 1] \in Range(digits) /\ (d # 0 => digits[d + 1] # "0")
  BY DEF upper_digits, lower_digits, Range
<1>4. digits[1] = "0"
  BY DEF upper_digits, lower_digits
<1>. QED  BY <1>2, <1>3, <1>4

(* The value of a digit is a number below 16. *)
LEMMA DigitRange ==
  \A c \in AllDigits : DigitValue(c) \in 0 .. 15
<1>1. ASSUME NEW digits \in {upper_digits, lower_digits}, NEW c \in Range(digits)
      PROVE  DigitValue(c) \in 0 .. 15
  <2>1. PICK j \in 1 .. 16 : c = digits[j]
    BY DEF upper_digits, lower_digits, Range
  <2>2. PICK d \in 0 .. 15 : j = d + 1
    <3>1. j - 1 \in 0 .. 15 /\ j = (j - 1) + 1
      OBVIOUS
    <3>. QED  BY <3>1
  <2>. QED  BY <2>1, <2>2, DigitValues
<1>. QED  BY <1>1 DEF AllDigits

(* The value of a number is what a chain of its prefixes ends in. *)
Chain(v, s, base) ==
  \A k \in 0 .. Len(s) :
    v[k] = IF k = 0 THEN 0 ELSE v[k - 1] * base + DigitValue(s[k])
Horner(v, s, base) ==
  v = [k \in 0 .. Len(s) |->
         IF k = 0 THEN 0 ELSE v[k - 1] * base + DigitValue(s[k])]

(* ValueOf, as the function that it recurs with. *)
LEMMA ValueIs ==
  \A s, base : ValueOf(s, base) = (CHOOSE v : Horner(v, s, base))[Len(s)]
BY DEF ValueOf, Horner

(* Any function that follows the recursion gives the value. *)
LEMMA ValueOfChain ==
  ASSUME NEW s, Len(s) \in Nat, NEW base, NEW v, Chain(v, s, base)
  PROVE  ValueOf(s, base) = v[Len(s)]
<1>. DEFINE n == Len(s)
            w == [k \in 0 .. n |-> v[k]]
<1>1. Horner(w, s, base)
  <2>1. ASSUME NEW k \in 0 .. n
        PROVE  w[k] = IF k = 0 THEN 0 ELSE w[k - 1] * base + DigitValue(s[k])
    <3>1. v[k] = IF k = 0 THEN 0 ELSE v[k - 1] * base + DigitValue(s[k])
      BY DEF Chain
    <3>2. k # 0 => k - 1 \in 0 .. n
      OBVIOUS
    <3>3. k # 0 => w[k - 1] = v[k - 1]
      BY <3>2
    <3>4. w[k] = v[k]
      OBVIOUS
    <3>. HIDE DEF w
    <3>. QED  BY <3>1, <3>3, <3>4
  <2>2. w = [k \in 0 .. n |-> w[k]]
    OBVIOUS
  <2>3. w = [k \in 0 .. n |->
               IF k = 0 THEN 0 ELSE w[k - 1] * base + DigitValue(s[k])]
    <3>. HIDE DEF w
    <3>. QED  BY <2>1, <2>2, Zenon
  <2>. QED  BY <2>3 DEF Horner
<1>. HIDE DEF w
<1>2. PICK u : u = (CHOOSE x : Horner(x, s, base)) /\ Horner(u, s, base)
  BY <1>1
<1>. DEFINE T == {k \in 0 .. n : u[k] = v[k]}
<1>3. ASSUME NEW k \in 0 .. n
      PROVE  u[k] = IF k = 0 THEN 0 ELSE u[k - 1] * base + DigitValue(s[k])
  BY <1>2, Zenon DEF Horner
<1>4. 0 \in T
  BY <1>3 DEF Chain
<1>5. ASSUME NEW k \in 0 .. n - 1, k \in T PROVE k + 1 \in T
  <2>1. PICK j \in 0 .. n : j = k + 1 /\ j # 0 /\ j - 1 = k
    OBVIOUS
  <2>2. u[j] = u[k] * base + DigitValue(s[j])
    BY <1>3, <2>1
  <2>3. v[j] = v[k] * base + DigitValue(s[j])
    BY <2>1 DEF Chain
  <2>. QED  BY <1>5, <2>1, <2>2, <2>3
<1>6. 0 .. n \subseteq T
  <2>1. 0 \in Int /\ n \in Int
    OBVIOUS
  <2>. HIDE DEF T
  <2>. QED  BY <1>4, <1>5, <2>1, IntervalInduction, Zenon
<1>7. u[n] = v[n]
  BY <1>6
<1>. QED  BY <1>2, <1>7, ValueIs

(* There is such a function. *)
LEMMA ChainExists ==
  ASSUME NEW s \in Seq(AllDigits), NEW base \in Nat
  PROVE  \E v : Chain(v, s, base) /\ v[Len(s)] \in Nat /\ v[0] = 0
<1>. DEFINE n == Len(s)
            step == [k \in 1 .. n |-> [v \in Nat |-> v * base + DigitValue(s[k])]]
<1>1. n \in Nat
  OBVIOUS
<1>2. ASSUME NEW k \in 1 .. n PROVE DigitValue(s[k]) \in Nat
  <2>1. s[k] \in AllDigits
    OBVIOUS
  <2>. QED  BY <2>1, DigitRange
<1>3. ASSUME NEW k \in 1 .. n, NEW v \in Nat
      PROVE  step[k][v] = v * base + DigitValue(s[k]) /\ step[k][v] \in Nat
  <2>1. v * base \in Nat
    OBVIOUS
  <2>2. v * base + DigitValue(s[k]) \in Nat
    BY <1>2, <2>1
  <2>3. step[k][v] = v * base + DigitValue(s[k])
    OBVIOUS
  <2>. HIDE DEF step
  <2>. QED  BY <2>2, <2>3
<1>. HIDE DEF step, n
<1>4. PICK f \in [0 .. n -> Nat] : RecursFrom(f, n, 0, step)
  BY <1>1, <1>3, PrimitiveRecursion DEF StepsUpTo
<1>5. ASSUME NEW k \in 0 .. n
      PROVE  f[k] = IF k = 0 THEN 0 ELSE f[k - 1] * base + DigitValue(s[k])
  <2>1. CASE k = 0
    BY <1>4, <2>1 DEF RecursFrom
  <2>2. CASE k # 0
    <3>1. k \in 1 .. n /\ k - 1 \in 0 .. n
      BY <1>1, <2>2
    <3>2. f[k - 1] \in Nat
      BY <3>1
    <3>3. f[k] = step[k][f[k - 1]]
      BY <1>4, <2>2 DEF RecursFrom
    <3>. QED  BY <1>3, <2>2, <3>1, <3>2, <3>3
  <2>. QED  BY <2>1, <2>2
<1>6. Chain(f, s, base) /\ f[n] \in Nat /\ f[0] = 0
  <2>1. n \in 0 .. n /\ 0 \in 0 .. n
    BY <1>1
  <2>. QED  BY <1>5, <2>1 DEF Chain, n
<1>. QED  BY <1>6 DEF n

(* Another digit; and zeros in front add nothing. *)
LEMMA ValueOfDigits ==
  ASSUME NEW s \in Seq(AllDigits), NEW c \in AllDigits, NEW base \in Nat
  PROVE  /\ ValueOf(<<>>, base) = 0
         /\ ValueOf(<<c>>, base) = DigitValue(c)
         /\ ValueOf(Append(s, c), base) = ValueOf(s, base) * base + DigitValue(c)
<1>1. ASSUME NEW t \in Seq(AllDigits)
      PROVE  ValueOf(Append(t, c), base) = ValueOf(t, base) * base + DigitValue(c)
  <2>. DEFINE n == Len(t)
              u == Append(t, c)
  <2>1. n \in Nat /\ Len(u) = n + 1 /\ u[n + 1] = c /\ \A k \in 1 .. n : u[k] = t[k]
    OBVIOUS
  <2>2. PICK v : Chain(v, t, base) /\ v[0] = 0
    BY ChainExists
  <2>. DEFINE w == [k \in 0 .. n + 1 |->
                      IF k = n + 1 THEN v[n] * base + DigitValue(c) ELSE v[k]]
  <2>. HIDE DEF u, n
  <2>3. ASSUME NEW k \in 0 .. n + 1
        PROVE  w[k] = IF k = 0 THEN 0 ELSE w[k - 1] * base + DigitValue(u[k])
    <3>1. CASE k = n + 1
      <4>1. k # 0 /\ k - 1 = n /\ n \in 0 .. n + 1 /\ n # n + 1
        BY <2>1, <3>1
      <4>2. w[n] = v[n] /\ w[k] = v[n] * base + DigitValue(c)
        BY <3>1, <4>1
      <4>. HIDE DEF w
      <4>. QED  BY <2>1, <3>1, <4>1, <4>2
    <3>2. CASE k # n + 1
      <4>1. k \in 0 .. n
        BY <2>1, <3>2
      <4>2. v[k] = IF k = 0 THEN 0 ELSE v[k - 1] * base + DigitValue(t[k])
        BY <2>2, <4>1 DEF Chain, n
      <4>3. k # 0 => k \in 1 .. n /\ k - 1 \in 0 .. n + 1 /\ k - 1 # n + 1
        BY <2>1, <4>1
      <4>4. k # 0 => w[k - 1] = v[k - 1] /\ u[k] = t[k]
        BY <2>1, <4>3
      <4>5. w[k] = v[k]
        BY <3>2
      <4>. HIDE DEF w
      <4>. QED  BY <4>2, <4>4, <4>5
    <3>. QED  BY <3>1, <3>2
  <2>4. w[n + 1] = v[n] * base + DigitValue(c)
    BY <2>1
  <2>. HIDE DEF w
  <2>5. Chain(w, u, base)
    BY <2>1, <2>3 DEF Chain
  <2>6. ValueOf(u, base) = w[n + 1]
    BY <2>1, <2>5, ValueOfChain
  <2>7. ValueOf(t, base) = v[n]
    BY <2>1, <2>2, ValueOfChain DEF n
  <2>. QED  BY <2>4, <2>6, <2>7 DEF u
<1>2. ValueOf(<<>>, base) = 0
  <2>0. <<>> \in Seq(AllDigits)
    OBVIOUS
  <2>1. PICK v : Chain(v, <<>>, base) /\ v[0] = 0
    BY <2>0, ChainExists
  <2>2. Len(<<>>) = 0
    OBVIOUS
  <2>. QED  BY <2>1, <2>2, ValueOfChain
<1>3. ValueOf(<<c>>, base) = DigitValue(c)
  <2>1. <<c>> = Append(<<>>, c) /\ <<>> \in Seq(AllDigits)
    OBVIOUS
  <2>2. ValueOf(<<c>>, base) = 0 * base + DigitValue(c)
    BY <1>1, <1>2, <2>1
  <2>3. DigitValue(c) \in Nat
    BY DigitRange
  <2>. QED  BY <2>2, <2>3
<1>. QED  BY <1>1, <1>2, <1>3

(* Zeros in front do not change the value. *)
LEMMA LeadingZeros ==
  ASSUME NEW s \in Seq(AllDigits), NEW base \in Nat, NEW z \in Int
  PROVE  /\ Copies("0", z) \o s \in Seq(AllDigits)
         /\ Len(Copies("0", z) \o s) = (IF z > 0 THEN z ELSE 0) + Len(s)
         /\ ValueOf(Copies("0", z) \o s, base) = ValueOf(s, base)
<1>. DEFINE m == IF z > 0 THEN z ELSE 0
            n == Len(s)
            o == Copies("0", z)
            u == o \o s
<1>1. m \in Nat /\ n \in Nat /\ 1 .. z = 1 .. m
  OBVIOUS
<1>2. "0" \in AllDigits /\ DigitValue("0") = 0
  <2>1. upper_digits[1] = "0"
    BY DEF upper_digits
  <2>2. 0 \in 0 .. 15 /\ 0 + 1 = 1
    OBVIOUS
  <2>. QED  BY <2>1, <2>2, DigitValues DEF AllDigits
<1>3. o \in Seq(AllDigits) /\ Len(o) = m /\ \A k \in 1 .. m : o[k] = "0"
  <2>1. o = [k \in 1 .. m |-> "0"]
    BY <1>1 DEF Copies
  <2>. HIDE DEF m, o
  <2>. QED  BY <1>1, <1>2, <2>1
<1>. HIDE DEF o, m
<1>4. /\ u \in Seq(AllDigits) /\ Len(u) = m + n
      /\ \A k \in 1 .. m : u[k] = "0"
      /\ \A k \in 1 .. n : u[m + k] = s[k]
  <2>1. \A k \in 1 .. m + n : u[k] = IF k <= m THEN o[k] ELSE s[k - m]
    BY <1>3, ConcatProperties
  <2>2. u \in Seq(AllDigits) /\ Len(u) = m + n
    BY <1>3, ConcatProperties
  <2>3. ASSUME NEW k \in 1 .. n PROVE u[m + k] = s[k]
    <3>1. PICK j \in 1 .. m + n : j = m + k /\ j - m = k /\ ~(j <= m)
      BY <1>1
    <3>. QED  BY <2>1, <3>1
  <2>4. ASSUME NEW k \in 1 .. m PROVE u[k] = "0"
    BY <1>1, <1>3, <2>1
  <2>. QED  BY <2>2, <2>3, <2>4
<1>5. PICK v : Chain(v, s, base) /\ v[0] = 0 /\ v[n] \in Nat
  BY ChainExists
<1>. DEFINE w == [k \in 0 .. m + n |-> IF k <= m THEN 0 ELSE v[k - m]]
<1>. HIDE DEF u, n
<1>6. ASSUME NEW k \in 0 .. m + n
      PROVE  w[k] = IF k = 0 THEN 0 ELSE w[k - 1] * base + DigitValue(u[k])
  <2>1. CASE k = 0
    BY <1>1, <2>1
  <2>2. CASE k # 0 /\ k <= m
    <3>1. k - 1 \in 0 .. m + n /\ k - 1 <= m /\ k \in 1 .. m
      BY <1>1, <2>2
    <3>2. w[k] = 0 /\ w[k - 1] = 0 /\ u[k] = "0"
      BY <1>4, <2>2, <3>1
    <3>. HIDE DEF w
    <3>. QED  BY <1>2, <2>2, <3>2
  <2>3. CASE k > m
    <3>1. PICK j \in 1 .. n : j = k - m /\ k = m + j /\ j \in 0 .. n /\ j # 0
      BY <1>1, <2>3
    <3>2. w[k] = v[j] /\ u[k] = s[j]
      BY <1>1, <1>4, <2>3, <3>1
    <3>3. v[j] = v[j - 1] * base + DigitValue(s[j])
      BY <1>5, <3>1 DEF Chain, n
    <3>4. w[k - 1] = v[j - 1]
      <4>1. k - 1 \in 0 .. m + n /\ k - 1 - m = j - 1
        BY <1>1, <2>3, <3>1
      <4>2. CASE j = 1
        BY <1>1, <1>5, <3>1, <4>1, <4>2
      <4>3. CASE j # 1
        BY <1>1, <3>1, <4>1, <4>3
      <4>. QED  BY <4>2, <4>3
    <3>5. k # 0
      BY <1>1, <2>3
    <3>. HIDE DEF w
    <3>. QED  BY <3>2, <3>3, <3>4, <3>5
  <2>. QED  BY <1>1, <2>1, <2>2, <2>3
<1>7. w[m + n] = v[n]
  <2>1. PICK q \in 0 .. m + n : q = m + n /\ q - m = n /\ (q <= m <=> n = 0)
    BY <1>1 DEF n
  <2>2. w[q] = IF q <= m THEN 0 ELSE v[q - m]
    OBVIOUS
  <2>. HIDE DEF w
  <2>. QED  BY <1>5, <2>1, <2>2
<1>. HIDE DEF w
<1>8. ValueOf(u, base) = w[m + n]
  <2>1. Len(u) \in Nat /\ Chain(w, u, base)
    BY <1>1, <1>4, <1>6 DEF Chain
  <2>. QED  BY <1>4, <2>1, ValueOfChain
<1>9. ValueOf(s, base) = v[n]
  BY <1>1, <1>5, ValueOfChain DEF n
<1>. QED  BY <1>4, <1>7, <1>8, <1>9 DEF u, o, m, n

(* The recursions of fill_numbuf() and of the number of digits.            *)
Filling(d, base, digits) ==
  d = [n \in 0 .. Word - 1 |->
         IF n < base THEN <<digits[n + 1]>>
         ELSE Append(d[n \div base], digits[(n % base) + 1])]
Counting(c, base) ==
  c = [n \in 0 .. Word - 1 |-> IF n < base THEN 1 ELSE c[n \div base] + 1]

(* fill_numbuf(), as the function that it recurs with. *)
LEMMA FillIs ==
  \A x, base, digits, prec :
    FillNumbuf(x, base, digits, prec) =
      IF prec # 0 \/ x # 0 THEN (CHOOSE d : Filling(d, base, digits))[x] ELSE <<>>
BY DEF FillNumbuf, Filling

(* The number of digits, as the function that it recurs with. *)
LEMMA CountIs ==
  \A x, base : NumberOfDigits(x, base) = (CHOOSE c : Counting(c, base))[x]
BY DEF NumberOfDigits, Counting

(* Division by a base leaves a smaller number and a digit. *)
LEMMA Quotients ==
  ASSUME NEW base \in {10, 16}, NEW x \in Nat
  PROVE  /\ x \div base \in Nat /\ x % base \in 0 .. 15
         /\ x = (x \div base) * base + (x % base)
         /\ x < base => x \in 0 .. 15
         /\ x >= base => x \div base \in 1 .. x - 1
         /\ x # 0 => x \div base \in 0 .. x - 1
<1>1. PICK q, r : /\ q = x \div base /\ r = x % base
                  /\ q \in Int /\ r \in 0 .. base - 1 /\ x = base * q + r
  <2>1. base \in Nat \ {0} /\ x \in Int
    OBVIOUS
  <2>2. /\ x \div base \in Int /\ x % base \in 0 .. base - 1
        /\ x = base * (x \div base) + (x % base)
    BY <2>1, Division
  <2>. QED  BY <2>2, Zenon
<1>2. /\ q \in Nat /\ r \in 0 .. 15
      /\ x = q * base + r
      /\ x < base => x \in 0 .. 15
      /\ x >= base => q \in 1 .. x - 1
      /\ x # 0 => q \in 0 .. x - 1
  <2>0. q \in Int /\ r \in 0 .. base - 1 /\ x = base * q + r
    BY <1>1, Zenon
  <2>1. CASE base = 10
    BY <2>0, <2>1
  <2>2. CASE base = 16
    BY <2>0, <2>2
  <2>. QED  BY <2>1, <2>2
<1>. QED  BY <1>1, <1>2, Zenon

(* The recursion of the number of digits has a solution. *)
LEMMA CountingExists ==
  ASSUME NEW base \in {10, 16}
  PROVE  \E c : Counting(c, base)
<1>. DEFINE n == Word - 1
            step == [k \in 1 .. n |-> [v \in Nat |-> IF k < base THEN 1 ELSE v + 1]]
            prev == [k \in 1 .. n |-> k \div base]
<1>1. n \in Nat
  BY WordAssumption
<1>2. StepsUpTo(n, Nat, step) /\ GoesBack(n, prev)
  <2>1. ASSUME NEW k \in 1 .. n PROVE prev[k] \in 0 .. k - 1
    BY Quotients
  <2>2. ASSUME NEW k \in 1 .. n, NEW v \in Nat PROVE step[k][v] \in Nat
    OBVIOUS
  <2>. HIDE DEF step, prev
  <2>. QED  BY <2>1, <2>2 DEF StepsUpTo, GoesBack
<1>. HIDE DEF n
<1>3. PICK f \in [0 .. n -> Nat] : RecursBack(f, n, 1, step, prev)
  <2>. HIDE DEF step, prev
  <2>1. 1 \in Nat
    OBVIOUS
  <2>. QED  BY <1>1, <1>2, <2>1, BackwardRecursion, Zenon
<1>4. ASSUME NEW k \in 0 .. n
      PROVE  f[k] = IF k < base THEN 1 ELSE f[k \div base] + 1
  <2>1. CASE k = 0
    <3>0. 0 \in 0 .. n
      BY <1>1
    <3>1. f[0] = 1
      <4>. HIDE DEF step, prev
      <4>. QED  BY <1>3, <3>0 DEF RecursBack
    <3>. QED  BY <2>1, <3>1
  <2>2. CASE k # 0
    <3>1. k \in 1 .. n /\ k \div base \in 0 .. n
      BY <1>1, <2>2, Quotients
    <3>2. f[k \div base] \in Nat /\ prev[k] = k \div base
      BY <3>1
    <3>3. f[k] = step[k][f[prev[k]]]
      BY <1>3, <2>2 DEF RecursBack
    <3>. QED  BY <3>1, <3>2, <3>3
  <2>. QED  BY <2>1, <2>2
<1>5. f = [k \in 0 .. n |-> f[k]]
  OBVIOUS
<1>6. Counting(f, base)
  BY <1>4, <1>5, Zenon DEF Counting, n
<1>. QED  BY <1>6

(* The recursion of fill_numbuf() has a solution. *)
LEMMA FillingExists ==
  ASSUME NEW base \in {10, 16}, NEW digits \in {upper_digits, lower_digits}
  PROVE  \E d : Filling(d, base, digits)
<1>. DEFINE n == Word - 1
            S == Seq(AllDigits)
            step == [k \in 1 .. n |-> [v \in S |->
                       IF k < base THEN <<digits[k + 1]>>
                       ELSE Append(v, digits[(k % base) + 1])]]
            prev == [k \in 1 .. n |-> k \div base]
<1>1. n \in Nat
  BY WordAssumption
<1>0. \A d \in 0 .. 15 : digits[d + 1] \in AllDigits
  BY DigitValues DEF AllDigits
<1>2. ASSUME NEW k \in 0 .. n
      PROVE  /\ k < base => <<digits[k + 1]>> \in S
             /\ \A v \in S : Append(v, digits[(k % base) + 1]) \in S
  <2>1. k < base => digits[k + 1] \in AllDigits
    BY <1>0, <1>1, Quotients
  <2>2. digits[(k % base) + 1] \in AllDigits
    BY <1>0, <1>1, Quotients
  <2>. DEFINE y == digits[(k % base) + 1]
  <2>3. y \in AllDigits
    BY <2>2
  <2>. HIDE DEF y
  <2>4. \A v \in S : Append(v, y) \in S
    BY <2>3
  <2>. QED  BY <2>1, <2>4 DEF y
<1>. HIDE DEF S
<1>3. StepsUpTo(n, S, step) /\ GoesBack(n, prev)
  <2>1. ASSUME NEW k \in 1 .. n PROVE prev[k] \in 0 .. k - 1
    BY Quotients
  <2>2. ASSUME NEW k \in 1 .. n, NEW v \in S PROVE step[k][v] \in S
    <3>1. k \in 0 .. n
      OBVIOUS
    <3>. QED  BY <1>2, <3>1
  <2>. HIDE DEF step, prev
  <2>. QED  BY <2>1, <2>2 DEF StepsUpTo, GoesBack
<1>. HIDE DEF n
<1>. DEFINE a == <<digits[1]>>
<1>4. a \in S
  <2>1. 0 \in 0 .. n /\ 0 < base /\ 0 + 1 = 1
    BY <1>1
  <2>. QED  BY <1>2, <2>1
<1>5. PICK f \in [0 .. n -> S] : RecursBack(f, n, a, step, prev)
  <2>. HIDE DEF step, prev, a
  <2>. QED  BY <1>1, <1>3, <1>4, BackwardRecursion, Zenon
<1>6. ASSUME NEW k \in 0 .. n
      PROVE  f[k] = IF k < base THEN <<digits[k + 1]>>
                    ELSE Append(f[k \div base], digits[(k % base) + 1])
  <2>1. CASE k = 0
    <3>0. 0 \in 0 .. n
      BY <1>1
    <3>1. f[0] = a
      <4>. HIDE DEF step, prev, a
      <4>. QED  BY <1>5, <3>0 DEF RecursBack
    <3>. QED  BY <2>1, <3>1
  <2>2. CASE k # 0
    <3>1. k \in 1 .. n /\ k \div base \in 0 .. n
      BY <1>1, <2>2, Quotients
    <3>2. f[k \div base] \in S /\ prev[k] = k \div base
      BY <3>1
    <3>3. f[k] = step[k][f[prev[k]]]
      BY <1>5, <2>2 DEF RecursBack
    <3>. QED  BY <3>1, <3>2, <3>3
  <2>. QED  BY <2>1, <2>2
<1>7. f = [k \in 0 .. n |-> f[k]]
  OBVIOUS
<1>8. Filling(f, base, digits)
  BY <1>6, <1>7, Zenon DEF Filling, n
<1>. QED  BY <1>8

(* s is x written in n digits, the first of which is not 0 unless x is.    *)
Numeral(s, n, x, base, digits) ==
  /\ s \in Seq(Range(digits)) /\ Len(s) = n /\ n \in Nat \ {0}
  /\ ValueOf(s, base) = x
  /\ IF x = 0 THEN n = 1 ELSE s[1] # "0"

(* A number below the base is one digit. *)
LEMMA NumeralShort ==
  ASSUME NEW base \in {10, 16}, NEW digits \in {upper_digits, lower_digits},
         NEW x \in Nat, x < base
  PROVE  Numeral(<<digits[x + 1]>>, 1, x, base, digits)
<1>1. x \in 0 .. 15
  BY Quotients
<1>2. PICK y : /\ y = digits[x + 1] /\ y \in Range(digits) /\ y \in AllDigits
               /\ DigitValue(y) = x /\ (x # 0 => y # "0")
  BY <1>1, DigitValues DEF AllDigits
<1>3. ValueOf(<<y>>, base) = x
  <2>1. <<>> \in Seq(AllDigits) /\ base \in Nat
    OBVIOUS
  <2>. QED  BY <1>2, <2>1, ValueOfDigits
<1>4. <<y>> \in Seq(Range(digits)) /\ Len(<<y>>) = 1 /\ <<y>>[1] = y
  BY <1>2
<1>. QED  BY <1>2, <1>3, <1>4 DEF Numeral

(* A larger number is its quotient and one more digit. *)
LEMMA NumeralLonger ==
  ASSUME NEW base \in {10, 16}, NEW digits \in {upper_digits, lower_digits},
         NEW x \in Nat, x >= base, NEW s, NEW n,
         Numeral(s, n, x \div base, base, digits)
  PROVE  Numeral(Append(s, digits[(x % base) + 1]), n + 1, x, base, digits)
<1>. DEFINE q == x \div base
            r == x % base
            D == Range(digits)
<1>1. q \in Nat \ {0} /\ r \in 0 .. 15 /\ x = q * base + r
  BY Quotients
<1>2. Numeral(s, n, q, base, digits)
  OBVIOUS
<1>. HIDE DEF q
<1>3. PICK y : /\ y = digits[r + 1] /\ y \in D /\ y \in AllDigits
               /\ DigitValue(y) = r
  <2>1. PICK d \in 0 .. 15 : d = r
    BY <1>1
  <2>2. digits[d + 1] \in D /\ DigitValue(digits[d + 1]) = d
    BY DigitValues
  <2>. HIDE DEF r
  <2>. QED  BY <2>1, <2>2 DEF AllDigits
<1>. HIDE DEF r
<1>4. s \in Seq(D) /\ Len(s) = n /\ n \in Nat \ {0} /\ s[1] # "0"
      /\ ValueOf(s, base) = q
  BY <1>1, <1>2 DEF Numeral
<1>. HIDE DEF D
<1>5. s \in Seq(AllDigits)
  <2>1. D \subseteq AllDigits
    BY DEF AllDigits, D
  <2>. QED  BY <1>4, <2>1
<1>6. ValueOf(Append(s, y), base) = q * base + r
  <2>1. base \in Nat
    OBVIOUS
  <2>. QED  BY <1>3, <1>4, <1>5, <2>1, ValueOfDigits
<1>7. /\ Append(s, y) \in Seq(D) /\ Len(Append(s, y)) = n + 1
      /\ Append(s, y)[1] = s[1]
  BY <1>3, <1>4
<1>8. x # 0 /\ n + 1 \in Nat \ {0}
  BY <1>4
<1>. QED  BY <1>1, <1>3, <1>4, <1>6, <1>7, <1>8 DEF Numeral, D, r

(* The characters fill_numbuf() produces.                                  *)
LEMMA Numerals ==
  ASSUME NEW base \in {10, 16}, NEW digits \in {upper_digits, lower_digits},
         NEW x \in 0 .. Word - 1, NEW prec, prec # 0 \/ x # 0
  PROVE  Numeral(FillNumbuf(x, base, digits, prec), NumberOfDigits(x, base),
                 x, base, digits)
<1>. DEFINE w == Word - 1
<1>0. w \in Nat
  BY WordAssumption
<1>1. PICK d : d = (CHOOSE e : Filling(e, base, digits)) /\ Filling(d, base, digits)
  BY FillingExists
<1>2. PICK c : c = (CHOOSE e : Counting(e, base)) /\ Counting(c, base)
  BY CountingExists
<1>3. ASSUME NEW n \in 0 .. w
      PROVE  d[n] = IF n < base THEN <<digits[n + 1]>>
                    ELSE Append(d[n \div base], digits[(n % base) + 1])
  BY <1>1, Zenon DEF Filling
<1>4. ASSUME NEW n \in 0 .. w
      PROVE  c[n] = IF n < base THEN 1 ELSE c[n \div base] + 1
  BY <1>2, Zenon DEF Counting
<1>. HIDE DEF w
<1>. DEFINE Right(n) == Numeral(d[n], c[n], n, base, digits)
            T == {m \in 0 .. w : \A n \in 0 .. m : Right(n)}
<1>5. ASSUME NEW n \in 0 .. w, n < base PROVE Right(n)
  <2>1. Numeral(<<digits[n + 1]>>, 1, n, base, digits)
    BY <1>5, NumeralShort
  <2>2. d[n] = <<digits[n + 1]>> /\ c[n] = 1
    BY <1>3, <1>4, <1>5
  <2>. QED  BY <2>1, <2>2
<1>6. ASSUME NEW n \in 0 .. w, n >= base, Right(n \div base) PROVE Right(n)
  <2>1. Numeral(Append(d[n \div base], digits[(n % base) + 1]), c[n \div base] + 1,
                n, base, digits)
    BY <1>6, NumeralLonger
  <2>2. d[n] = Append(d[n \div base], digits[(n % base) + 1])
        /\ c[n] = c[n \div base] + 1
    <3>1. ~(n < base)
      BY <1>6
    <3>. QED  BY <1>3, <1>4, <3>1
  <2>. QED  BY <2>1, <2>2
<1>. HIDE DEF Right
<1>7. 0 \in T
  <2>1. 0 \in 0 .. w /\ 0 < base /\ 0 .. 0 = {0}
    BY <1>0
  <2>. QED  BY <1>5, <2>1
<1>8. ASSUME NEW m \in 0 .. w - 1, m \in T PROVE m + 1 \in T
  <2>1. m + 1 \in 0 .. w
    BY <1>0
  <2>2. Right(m + 1)
    <3>1. CASE m + 1 < base
      BY <1>5, <2>1, <3>1
    <3>2. CASE m + 1 >= base
      <4>1. (m + 1) \div base \in 1 .. (m + 1) - 1
        BY <3>2, Quotients
      <4>2. (m + 1) \div base \in 0 .. m
        BY <4>1
      <4>3. Right((m + 1) \div base)
        BY <1>8, <4>2
      <4>. QED  BY <1>6, <2>1, <3>2, <4>3
    <3>. QED  BY <3>1, <3>2
  <2>3. \A n \in 0 .. m + 1 : n \in 0 .. m \/ n = m + 1
    OBVIOUS
  <2>. QED  BY <1>8, <2>1, <2>2, <2>3
<1>9. 0 .. w \subseteq T
  <2>1. 0 \in Int /\ w \in Int
    BY <1>0
  <2>. HIDE DEF T
  <2>. QED  BY <1>7, <1>8, <2>1, IntervalInduction, Zenon
<1>10. Right(x)
  <2>1. x \in 0 .. w /\ x \in 0 .. x
    BY DEF w
  <2>. QED  BY <1>9, <2>1
<1>11. FillNumbuf(x, base, digits, prec) = d[x] /\ NumberOfDigits(x, base) = c[x]
  BY <1>1, <1>2, FillIs, CountIs
<1>. QED  BY <1>10, <1>11 DEF Right

-----------------------------------------------------------------------------
(* numbuf *)

(* Numbers below l have at most k digits. *)
Within(l, k, base) ==
  \A x \in 0 .. Word - 1 : x < l => NumberOfDigits(x, base) \in 1 .. k

(* The recursion of the number of digits. *)
LEMMA CountSteps ==
  ASSUME NEW base \in {10, 16}, NEW x \in 0 .. Word - 1
  PROVE  NumberOfDigits(x, base) =
           IF x < base THEN 1 ELSE NumberOfDigits(x \div base, base) + 1
<1>1. PICK c : c = (CHOOSE e : Counting(e, base)) /\ Counting(c, base)
  BY CountingExists
<1>2. c[x] = IF x < base THEN 1 ELSE c[x \div base] + 1
  BY <1>1, Zenon DEF Counting
<1>. QED  BY <1>1, <1>2, CountIs

(* Ten times as large a number has one digit more at most. *)
LEMMA WithinTen ==
  ASSUME NEW base \in {10, 16}, NEW l \in Nat \ {0}, NEW k \in Nat \ {0},
         Within(l, k, base), NEW l10, l10 = 10 * l, NEW k1, k1 = k + 1
  PROVE  Within(l10, k1, base)
<1>1. ASSUME NEW x \in 0 .. Word - 1, x < l10 PROVE NumberOfDigits(x, base) \in 1 .. k1
  <2>0. x \in Nat
    OBVIOUS
  <2>1. CASE x < base
    BY <2>1, CountSteps
  <2>2. CASE x >= base
    <3>1. PICK q \in Nat : q = x \div base
      BY <2>0, Quotients
    <3>2. PICK r \in 0 .. 15 : r = x % base
      BY <2>0, Quotients
    <3>3. x = q * base + r /\ q \in 1 .. x - 1
      BY <2>0, <2>2, <3>1, <3>2, Quotients
    <3>4. q < l
      <4>1. CASE base = 10
        BY <1>1, <3>3, <4>1
      <4>2. CASE base = 16
        BY <1>1, <3>3, <4>2
      <4>. QED  BY <4>1, <4>2
    <3>5. q \in 0 .. Word - 1
      BY <3>3, WordAssumption
    <3>6. NumberOfDigits(q, base) \in 1 .. k
      BY <3>4, <3>5 DEF Within
    <3>7. NumberOfDigits(x, base) = NumberOfDigits(q, base) + 1
      BY <2>2, <3>1, CountSteps
    <3>. QED  BY <3>6, <3>7
  <2>. QED  BY <2>0, <2>1, <2>2
<1>. QED  BY <1>1 DEF Within

(* fill_numbuf() writes as many characters as the number has digits, or none. *)
LEMMA FillShort ==
  ASSUME NEW base \in {10, 16}, NEW digits \in {upper_digits, lower_digits},
         NEW x \in 0 .. Word - 1, NEW prec, NEW m \in Nat,
         NumberOfDigits(x, base) \in 1 .. m
  PROVE  Len(FillNumbuf(x, base, digits, prec)) \in 0 .. m
<1>1. CASE prec # 0 \/ x # 0
  <2>1. Numeral(FillNumbuf(x, base, digits, prec), NumberOfDigits(x, base),
                x, base, digits)
    BY <1>1, Numerals
  <2>. QED  BY <2>1 DEF Numeral
<1>2. CASE ~(prec # 0 \/ x # 0)
  <2>1. FillNumbuf(x, base, digits, prec) = <<>>
    BY <1>2, FillIs, Zenon
  <2>. QED  BY <2>1
<1>. QED  BY <1>1, <1>2

(* An unsigned int of 32 bits has at most ten digits, and numbuf has 20    *)
(* characters, so that the code meets NumbufAssumption.                    *)
LEMMA ThirtyTwoBits ==
  ASSUME Word <= 4294967296, NEW base \in {10, 16}, NEW x \in 0 .. Word - 1
  PROVE  NumberOfDigits(x, base) \in 1 .. 10
<1>1. Within(10, 1, base)
  <2>1. ASSUME NEW y \in 0 .. Word - 1, y < 10 PROVE NumberOfDigits(y, base) \in 1 .. 1
    BY <2>1, CountSteps, SMT
  <2>. QED  BY <2>1, SMT DEF Within
<1>2. Within(100, 2, base)
  BY <1>1, WithinTen, SMT
<1>3. Within(1000, 3, base)
  BY <1>2, WithinTen, SMT
<1>4. Within(10000, 4, base)
  BY <1>3, WithinTen, SMT
<1>5. Within(100000, 5, base)
  BY <1>4, WithinTen, SMT
<1>6. Within(1000000, 6, base)
  BY <1>5, WithinTen, SMT
<1>7. Within(10000000, 7, base)
  BY <1>6, WithinTen, SMT
<1>8. Within(100000000, 8, base)
  BY <1>7, WithinTen, SMT
<1>9. Within(1000000000, 9, base)
  BY <1>8, WithinTen, SMT
<1>10. Within(10000000000, 10, base)
  BY <1>9, WithinTen, SMT
<1>11. x < 10000000000
  BY WordAssumption, SMT
<1>. QED  BY <1>10, <1>11, SMT DEF Within

(* A smaller number, or one written to a larger base, has no more digits.  *)
LEMMA FewerDigits ==
  ASSUME NEW base \in {10, 16}, NEW x \in 0 .. Word - 1, NEW y \in 0 .. Word - 1, x <= y
  PROVE  NumberOfDigits(y, 10) \in Nat /\ NumberOfDigits(x, base) \in 1 .. NumberOfDigits(y, 10)
<1>. DEFINE w == Word - 1
            Fewer(a, b) == /\ NumberOfDigits(b, 10) \in Nat
                           /\ NumberOfDigits(a, base) \in 1 .. NumberOfDigits(b, 10)
            T == {m \in 0 .. w : \A b \in 0 .. m : \A a \in 0 .. b : Fewer(a, b)}
<1>0. w \in Nat
  BY WordAssumption
<1>1. ASSUME NEW m \in 0 .. w, \A b \in 0 .. m - 1 : \A a \in 0 .. b : Fewer(a, b),
             NEW a \in 0 .. m
      PROVE  Fewer(a, m)
  <2>1. a \in 0 .. Word - 1 /\ m \in 0 .. Word - 1 /\ a \in Nat /\ m \in Nat
    BY <1>0
  <2>2. NumberOfDigits(a, base) =
          IF a < base THEN 1 ELSE NumberOfDigits(a \div base, base) + 1
    BY <2>1, CountSteps
  <2>3. NumberOfDigits(m, 10) =
          IF m < 10 THEN 1 ELSE NumberOfDigits(m \div 10, 10) + 1
    BY <2>1, CountSteps
  <2>4. CASE m < 10
    <3>1. a < base
      BY <2>4
    <3>. QED  BY <2>2, <2>3, <2>4, <3>1
  <2>5. CASE m >= 10
    <3>1. PICK q \in Nat : q = m \div 10
      BY <2>1, Quotients
    <3>2. PICK r \in 0 .. 15 : r = m % 10
      BY <2>1, Quotients
    <3>3. m = q * 10 + r /\ q \in 1 .. m - 1 /\ r < 10
      BY <2>1, <2>5, <3>1, <3>2, Quotients
    <3>4. NumberOfDigits(m, 10) = NumberOfDigits(q, 10) + 1
      BY <2>3, <2>5, <3>1
    <3>5. CASE a < base
      <4>1. q \in 0 .. m - 1 /\ q \in 0 .. q
        BY <3>3
      <4>2. Fewer(q, q)
        BY <1>1, <4>1
      <4>. QED  BY <2>2, <3>4, <3>5, <4>2
    <3>6. CASE a >= base
      <4>1. PICK p \in Nat : p = a \div base
        BY <2>1, Quotients
      <4>2. PICK s \in 0 .. 15 : s = a % base
        BY <2>1, Quotients
      <4>3. a = p * base + s
        BY <2>1, <4>1, <4>2, Quotients
      <4>4. p <= q
        <5>1. CASE base = 10
          BY <3>3, <4>3, <5>1
        <5>2. CASE base = 16
          BY <3>3, <4>3, <5>2
        <5>. QED  BY <5>1, <5>2
      <4>5. q \in 0 .. m - 1 /\ p \in 0 .. q
        BY <3>3, <4>4
      <4>6. Fewer(p, q)
        BY <1>1, <4>5
      <4>7. NumberOfDigits(a, base) = NumberOfDigits(p, base) + 1
        BY <2>2, <3>6, <4>1
      <4>. QED  BY <3>4, <4>6, <4>7
    <3>. QED  BY <2>1, <3>5, <3>6
  <2>. QED  BY <2>1, <2>4, <2>5
<1>. HIDE DEF Fewer
<1>2. 0 \in T
  <2>1. 0 \in 0 .. w /\ 0 .. 0 = {0} /\ 0 .. 0 - 1 = {}
    BY <1>0
  <2>2. Fewer(0, 0)
    BY <1>1, <2>1
  <2>. QED  BY <2>1, <2>2
<1>3. ASSUME NEW m \in 0 .. w - 1, m \in T PROVE m + 1 \in T
  <2>1. PICK n \in 0 .. w : n = m + 1 /\ n - 1 = m
    BY <1>0
  <2>2. \A b \in 0 .. n - 1 : \A a \in 0 .. b : Fewer(a, b)
    BY <1>3, <2>1
  <2>3. \A a \in 0 .. n : Fewer(a, n)
    BY <1>1, <2>2
  <2>4. \A b \in 0 .. n : b \in 0 .. n - 1 \/ b = n
    BY <2>1
  <2>. QED  BY <2>1, <2>2, <2>3, <2>4
<1>4. 0 .. w \subseteq T
  <2>1. 0 \in Int /\ w \in Int
    BY <1>0
  <2>. HIDE DEF T, w
  <2>. QED  BY <1>2, <1>3, <2>1, IntervalInduction, Zenon
<1>5. Fewer(x, y)
  <2>1. y \in 0 .. w /\ y \in 0 .. y /\ x \in 0 .. y
    OBVIOUS
  <2>. QED  BY <1>4, <2>1
<1>. QED  BY <1>5 DEF Fewer

-----------------------------------------------------------------------------
(* Fields *)

(* A concatenation has its two halves as subsequences. *)
LEMMA Halves ==
  ASSUME NEW V, NEW u \in Seq(V), NEW v \in Seq(V)
  PROVE  /\ u \o v \in Seq(V) /\ Len(u \o v) = Len(u) + Len(v)
         /\ Len(u) \in Nat /\ Len(v) \in Nat
         /\ SubSeq(u \o v, 1, Len(u)) = u
         /\ SubSeq(u \o v, Len(u) + 1, Len(u) + Len(v)) = v
         /\ IsPrefix(u, u \o v)
<1>. DEFINE m == Len(u)
            n == Len(v)
            w == u \o v
<1>1. m \in Nat /\ n \in Nat /\ w \in Seq(V) /\ Len(w) = m + n
      /\ \A i \in 1 .. m + n : w[i] = IF i <= m THEN u[i] ELSE v[i - m]
  BY ConcatProperties
<1>2. ASSUME NEW i \in 1 .. m + n PROVE w[i] \in V
  BY <1>1, ElementOfSeq
<1>. HIDE DEF w
<1>3. SubSeq(w, 1, m) = u
  <2>1. \A i \in 1 .. m : w[i] \in V /\ w[i] = u[i]
    BY <1>1, <1>2
  <2>. HIDE DEF m
  <2>2. /\ SubSeq(w, 1, m) \in Seq(V)
        /\ Len(SubSeq(w, 1, m)) = m
        /\ \A i \in 1 .. m : SubSeq(w, 1, m)[i] = w[i]
    <3>1. 1 \in Int /\ m \in Int
      BY <1>1
    <3>2. /\ SubSeq(w, 1, m) \in Seq(V)
          /\ Len(SubSeq(w, 1, m)) = IF 1 <= m THEN m - 1 + 1 ELSE 0
          /\ \A i \in 1 .. m - 1 + 1 : SubSeq(w, 1, m)[i] = w[1 + i - 1]
      BY <2>1, <3>1, SubSeqProperties
    <3>. QED  BY <1>1, <3>2
  <2>. QED  BY <2>1, <2>2, SeqEqual DEF m
<1>4. SubSeq(w, m + 1, m + n) = v
  <2>1. \A i \in m + 1 .. m + n : w[i] \in V /\ w[i] = v[i - m]
    BY <1>1, <1>2
  <2>. HIDE DEF m, n
  <2>2. /\ SubSeq(w, m + 1, m + n) \in Seq(V)
        /\ Len(SubSeq(w, m + 1, m + n)) = n
        /\ \A i \in 1 .. n : SubSeq(w, m + 1, m + n)[i] = v[i]
    <3>1. PICK a, b \in Int : a = m + 1 /\ b = m + n
      BY <1>1
    <3>2. /\ SubSeq(w, a, b) \in Seq(V)
          /\ Len(SubSeq(w, a, b)) = IF a <= b THEN b - a + 1 ELSE 0
          /\ \A i \in 1 .. b - a + 1 : SubSeq(w, a, b)[i] = w[a + i - 1]
      BY <2>1, <3>1, SubSeqProperties
    <3>3. ASSUME NEW i \in 1 .. n PROVE SubSeq(w, m + 1, m + n)[i] = v[i]
      <4>1. PICK j \in m + 1 .. m + n : j = m + i /\ j - m = i /\ a + i - 1 = j
        BY <1>1, <3>1
      <4>2. i \in 1 .. b - a + 1
        BY <1>1, <3>1
      <4>3. SubSeq(w, a, b)[i] = w[a + i - 1]
        BY <3>2, <4>2
      <4>4. w[j] = v[j - m]
        BY <2>1
      <4>. QED  BY <3>1, <4>1, <4>3, <4>4
    <3>4. Len(SubSeq(w, m + 1, m + n)) = n
      BY <1>1, <3>1, <3>2
    <3>. QED  BY <3>1, <3>2, <3>3, <3>4
  <2>. QED  BY <2>2, SeqEqual DEF n
<1>5. SubSeq(u, 1, m) = u
  BY SubSeqFull
<1>6. IsPrefix(u, w)
  BY <1>1, <1>3, <1>5 DEF IsPrefix
<1>. QED  BY <1>1, <1>3, <1>4, <1>6 DEF m, n, w

(* n copies of a character. *)
LEMMA CopiesAre ==
  ASSUME NEW V, NEW c \in V, NEW n \in Int
  PROVE  /\ Copies(c, n) \in Seq(V)
         /\ Len(Copies(c, n)) = IF n > 0 THEN n ELSE 0
         /\ Copies(c, n) = Copies(c, Len(Copies(c, n)))
         /\ Copies(c, 0) = <<>>
<1>. DEFINE m == IF n > 0 THEN n ELSE 0
<1>1. m \in Nat /\ 1 .. n = 1 .. m
  OBVIOUS
<1>2. Copies(c, n) = [k \in 1 .. m |-> c]
  BY <1>1 DEF Copies
<1>. HIDE DEF m
<1>3. [k \in 1 .. m |-> c] \in Seq(V) /\ Len([k \in 1 .. m |-> c]) = m
  BY <1>1
<1>4. Copies(c, m) = [k \in 1 .. m |-> c]
  BY DEF Copies
<1>5. Copies(c, 0) = <<>>
  BY DEF Copies
<1>. QED  BY <1>2, <1>3, <1>4, <1>5 DEF m

AsAsked(body, p) == IF IsNumber(p) THEN IsBody(body, p) ELSE IsString(body, p)

(* No prefix but the sign: code that does not look at the flag '#' is      *)
(* right about the other escapes.                                          *)
LEMMA PrefixIsSign ==
  ASSUME NEW p, Conventional(p) PROVE Prefix(p) = Sign(p)
BY Zenon DEF Conventional, Prefix

(* Blanks on either side of a prefix and what follows it. *)
LEMMA Padded ==
  ASSUME NEW V, Blank \in V, NEW sign \in Seq(V), NEW body \in Seq(V),
         NEW w \in Int, NEW p, Prefix(p) = sign,
         Given(p.width, 0) = IF w > 0 THEN w ELSE 0,
         AsAsked(body, p),
         NEW pad, pad = Copies(Blank, w - Len(sign \o body))
  PROVE  Field(IF HasFlag(p, "-") THEN (sign \o body) \o pad
               ELSE pad \o (sign \o body), p)
<1>. DEFINE text == sign \o body
            m == Len(text)
            n == Len(pad)
<1>1. /\ text \in Seq(V) /\ m \in Nat /\ m = Len(sign) + Len(body)
      /\ IsPrefix(sign, text) /\ SubSeq(text, Len(sign) + 1, m) = body
  <2>1. m = Len(sign) + Len(body)
    BY Halves
  <2>2. /\ text \in Seq(V) /\ Len(sign) \in Nat /\ Len(body) \in Nat
        /\ SubSeq(text, Len(sign) + 1, Len(sign) + Len(body)) = body
        /\ IsPrefix(sign, text)
    BY Halves
  <2>3. m \in Nat
    BY <2>1, <2>2
  <2>. HIDE DEF m, text
  <2>. QED  BY <2>1, <2>2, <2>3, Zenon
<1>. HIDE DEF text
<1>2. /\ pad \in Seq(V) /\ n = (IF w > m THEN w - m ELSE 0)
      /\ pad = Copies(Blank, n) /\ Copies(Blank, 0) = <<>>
  <2>1. w - m \in Int /\ (w - m > 0 <=> w > m)
    BY <1>1
  <2>2. pad = Copies(Blank, w - m)
    BY DEF text
  <2>. HIDE DEF m
  <2>3. PICK k \in Int : k = w - m
    BY <2>1
  <2>4. /\ Copies(Blank, k) \in Seq(V)
        /\ Len(Copies(Blank, k)) = IF k > 0 THEN k ELSE 0
        /\ Copies(Blank, k) = Copies(Blank, Len(Copies(Blank, k)))
        /\ Copies(Blank, 0) = <<>>
    BY CopiesAre
  <2>. QED  BY <2>1, <2>2, <2>3, <2>4
<1>. HIDE DEF n, m
<1>3. n \in Nat
  BY <1>1, <1>2
<1>0. PICK g \in Nat : /\ g = Given(p.width, 0) /\ g <= n + m
                       /\ n # 0 => n + m = g /\ m + n = g
  <2>1. PICK g : g = Given(p.width, 0) /\ g = IF w > 0 THEN w ELSE 0
    OBVIOUS
  <2>2. n = IF w > m THEN w - m ELSE 0
    BY <1>2
  <2>3. g \in Nat /\ g <= n + m /\ (n # 0 => n + m = g /\ m + n = g)
    <3>1. CASE w > m
      BY <1>1, <1>3, <2>1, <2>2, <3>1
    <3>2. CASE ~(w > m)
      <4>1. n = 0 /\ g \in Nat /\ g <= m
        BY <1>1, <2>1, <2>2, <3>2
      <4>. QED  BY <1>1, <4>1
    <3>. QED  BY <3>1, <3>2
  <2>. QED  BY <2>1, <2>3
<1>4. CASE HasFlag(p, "-")
  <2>. DEFINE f == text \o pad
  <2>1. /\ Len(f) = m + n /\ SubSeq(f, 1, m) = text
        /\ SubSeq(f, m + 1, m + n) = pad
    <3>1. /\ Len(f) = Len(text) + Len(pad) /\ SubSeq(f, 1, Len(text)) = text
          /\ SubSeq(f, Len(text) + 1, Len(text) + Len(pad)) = pad
      BY <1>1, <1>2, Halves
    <3>. QED  BY <3>1, Zenon DEF m, n
  <2>2. SubSeq(f, 1, 0) = <<>>
    BY SubSeqEmpty
  <2>. HIDE DEF f
  <2>3. /\ 0 \in 0 .. Len(f) /\ n \in 0 .. Len(f) /\ 0 + n <= Len(f)
        /\ 0 + 1 = 1 /\ Len(f) - n = m /\ Len(f) - n + 1 = m + 1
    BY <1>1, <1>3, <2>1
  <2>4. m < Len(f) => Len(f) = Given(p.width, 0)
    BY <1>0, <1>1, <1>3, <2>1
  <2>5. Len(f) >= Given(p.width, 0)
    BY <1>0, <1>1, <1>3, <2>1
  <2>6. Field(f, p)
    <3>1. SubSeq(f, 0 + 1, Len(f) - n) = text /\ Len(text) = m
      BY <2>1, <2>3 DEF m
    <3>2. SubSeq(f, Len(f) - n + 1, Len(f)) = Copies(Blank, n)
      BY <1>2, <2>1, <2>3
    <3>3. SubSeq(f, 1, 0) = Copies(Blank, 0)
      BY <1>2, <2>2
    <3>. QED  BY <1>1, <1>4, <2>3, <2>4, <2>5, <3>1, <3>2, <3>3, Zenon DEF Field, AsAsked
  <2>. QED  BY <1>4, <2>6, Zenon DEF f, text
<1>5. CASE ~HasFlag(p, "-")
  <2>. DEFINE f == pad \o text
  <2>1. /\ Len(f) = n + m /\ SubSeq(f, 1, n) = pad
        /\ SubSeq(f, n + 1, n + m) = text
    <3>1. /\ Len(f) = Len(pad) + Len(text) /\ SubSeq(f, 1, Len(pad)) = pad
          /\ SubSeq(f, Len(pad) + 1, Len(pad) + Len(text)) = text
      BY <1>1, <1>2, Halves
    <3>. QED  BY <3>1, Zenon DEF m, n
  <2>2. SubSeq(f, n + m + 1, n + m) = <<>>
    <3>1. n + m + 1 \in Int /\ n + m \in Int /\ n + m < n + m + 1
      BY <1>1, <1>3
    <3>. QED  BY <3>1, SubSeqEmpty
  <2>. HIDE DEF f
  <2>3. /\ 0 \in 0 .. Len(f) /\ n \in 0 .. Len(f) /\ n + 0 <= Len(f)
        /\ Len(f) - 0 = n + m /\ Len(f) - 0 + 1 = n + m + 1
    BY <1>1, <1>3, <2>1
  <2>4. m < Len(f) => Len(f) = Given(p.width, 0)
    BY <1>0, <1>1, <1>3, <2>1
  <2>5. Len(f) >= Given(p.width, 0)
    BY <1>0, <1>1, <1>3, <2>1
  <2>6. Field(f, p)
    <3>1. SubSeq(f, n + 1, Len(f) - 0) = text /\ Len(text) = m
      BY <2>1, <2>3 DEF m
    <3>2. SubSeq(f, Len(f) - 0 + 1, Len(f)) = Copies(Blank, 0)
      BY <1>2, <2>1, <2>2, <2>3
    <3>3. SubSeq(f, 1, n) = Copies(Blank, n)
      BY <1>2, <2>1
    <3>. QED  BY <1>1, <1>5, <2>3, <2>4, <2>5, <3>1, <3>2, <3>3, Zenon DEF Field, AsAsked
  <2>. QED  BY <1>5, <2>6, Zenon DEF f, text
<1>. QED  BY <1>4, <1>5

(* A width or a precision, given or not, as the code represents it. *)
LEMMA GivenIs ==
  ASSUME NEW n, IsPrecision(n), Given(n, 0) >= 0
  PROVE  \E g \in Int :
           /\ g = Given(n, -1) /\ Given(n, 0) = IF g > 0 THEN g ELSE 0
           /\ IF n.form = "none" THEN g = -1 /\ Given(n, 1) = 1
              ELSE g >= 0 /\ Given(n, 1) = g /\ Given(n, 0) = g
<1>1. CASE n.form = "none"
  BY <1>1 DEF Given
<1>2. CASE n.form = "empty"
  BY <1>2 DEF Given
<1>3. CASE n.form \in {"digits", "star"}
  <2>1. Given(n, -1) = n.value /\ Given(n, 0) = n.value /\ Given(n, 1) = n.value
    BY <1>3 DEF Given
  <2>2. n.value \in Int
    <3>1. CASE n.form = "star"
      BY <3>1 DEF IsPrecision, IsWidth
    <3>2. CASE n.form = "digits"
      <4>1. (n.token \in DOMAIN NumOf /\ n.value = NumOf[n.token]) \/ n.value = 0
        BY <3>2 DEF IsPrecision, IsWidth
      <4>. QED  BY <4>1, NumAssumption
    <3>. QED  BY <1>3, <3>1, <3>2
  <2>. QED  BY <1>3, <2>1, <2>2
<1>4. n.form \in {"none", "empty", "digits", "star"}
  BY DEF IsPrecision, IsWidth
<1>. QED  BY <1>1, <1>2, <1>3, <1>4

(* FieldOf, with its parts named.                                          *)
SignOf(negative) ==
  IF negative THEN <<"-">>
  ELSE IF "+" \in flags THEN <<"+">>
  ELSE IF Blank \in flags THEN <<Blank>> ELSE <<>>
ZerosOf(len, numeric, negative) ==
  IF numeric /\ precision > len THEN precision - len
  ELSE IF flags \cap {"0", "-"} = {"0"} /\ numeric /\ precision < 0
    THEN width - len - Len(SignOf(negative))
  ELSE 0
CutOf(data) == IF precision >= 0 /\ precision < Len(data) THEN precision ELSE Len(data)

(* What the escape p asks for is what has been read. *)
Asked(p) ==
  /\ flags = Range(p.flags)
  /\ width = Given(p.width, -1) /\ precision = Given(p.precision, -1)

(* The flags that have been read are those of the escape. *)
LEMMA FlagsAsked ==
  ASSUME NEW p, IsEscape(p), Asked(p)
  PROVE  \A f : f \in flags <=> HasFlag(p, f)
BY DEF Asked, HasFlag, Range

(* The sign, as C asks for it and as the code writes it.                   *)
LEMMA SignAsked ==
  ASSUME NEW p, IsEscape(p), Asked(p), Conventional(p),
         NEW negative \in BOOLEAN, negative <=> p.esc = "d" /\ p.arg[1] < 0
  PROVE  SignOf(negative) = Sign(p)
<1>1. CASE p.esc = "d"
  BY <1>1, FlagsAsked, Zenon DEF SignOf, Sign
<1>2. CASE p.esc # "d"
  <2>1. ~HasFlag(p, "+") /\ ~HasFlag(p, Blank)
    BY <1>2, Zenon DEF Conventional
  <2>. QED  BY <1>2, <2>1, FlagsAsked, Zenon DEF SignOf, Sign
<1>. QED  BY <1>1, <1>2

(* A sign is at most one character. *)
LEMMA SignIs ==
  ASSUME NEW negative \in BOOLEAN
  PROVE  SignOf(negative) \in Seq({"-", "+", Blank}) /\ Len(SignOf(negative)) \in 0 .. 1
<1>1. \A c \in {"-", "+", Blank} :
        <<c>> \in Seq({"-", "+", Blank}) /\ Len(<<c>>) = 1
  OBVIOUS
<1>2. <<>> \in Seq({"-", "+", Blank}) /\ Len(<<>>) = 0
  OBVIOUS
<1>3. SignOf(negative) = <<>> \/ \E c \in {"-", "+", Blank} : SignOf(negative) = <<c>>
  BY Zenon DEF SignOf
<1>4. 0 \in 0 .. 1 /\ 1 \in 0 .. 1
  OBVIOUS
<1>. QED  BY <1>1, <1>2, <1>3, <1>4, Zenon

(* The digits printed for a number that no precision cuts.                 *)
DigitsOf(p) == IF p.esc = "x" THEN lower_digits ELSE upper_digits

(* The negation of a negative int, read as an unsigned int, is its         *)
(* absolute value, also for the smallest int.                              *)
LEMMA AbsoluteIs ==
  ASSUME NEW p, IsEscape(p), IsNumber(p)
  PROVE  /\ Absolute(p) \in 0 .. Word - 1
         /\ Absolute(p) = (IF p.esc = "d" /\ p.arg[1] < 0 THEN -p.arg[1] ELSE p.arg[1]) % Word
<1>. DEFINE x == p.arg[1]
<1>0. Word \in Nat \ {0} /\ Word >= 2 /\ Word \div 2 \in 0 .. Word - 1
  <2>1. Word \in Nat /\ Word # 0 /\ Word % 2 = 0
    BY WordAssumption
  <2>. QED  BY <2>1
<1>1. x \in Int /\ x >= -(Word \div 2)
  <2>1. p.esc = "d" => x \in -(Word \div 2) .. (Word \div 2) - 1
    BY DEF IsEscape, IsArgument
  <2>2. p.esc \in {"u", "x", "X"} => x \in 0 .. Word - 1
    BY DEF IsEscape, IsArgument
  <2>. HIDE DEF x
  <2>3. CASE p.esc = "d"
    BY <1>0, <2>1, <2>3
  <2>4. CASE p.esc \in {"u", "x", "X"}
    BY <1>0, <2>2, <2>4
  <2>. QED  BY <2>3, <2>4 DEF IsNumber
<1>2. CASE p.esc = "d" /\ x < 0
  <2>1. Absolute(p) = -x
    BY <1>2 DEF Absolute
  <2>2. -x \in 0 .. Word - 1
    <3>. HIDE DEF x
    <3>. QED  BY <1>0, <1>1, <1>2
  <2>3. (-x) % Word = -x
    <3>1. PICK y \in 0 .. Word - 1 : y = -x
      BY <2>2
    <3>2. y % Word = y
      BY <1>0, RemainderOfLess
    <3>. QED  BY <3>1, <3>2
  <2>. QED  BY <1>2, <2>1, <2>2, <2>3
<1>3. CASE ~(p.esc = "d" /\ x < 0)
  <2>1. Absolute(p) = x % Word
    BY <1>3 DEF Absolute
  <2>2. x % Word \in 0 .. Word - 1
    BY <1>0, <1>1, Division
  <2>. QED  BY <1>3, <2>1, <2>2
<1>. QED  BY <1>2, <1>3

(* What fill_numbuf() writes for an escape has the value of its            *)
(* argument.                                                               *)
LEMMA DigitsAsked ==
  ASSUME NEW p, IsEscape(p), IsNumber(p), Conventional(p), Asked(p)
  PROVE  LET s == FillNumbuf(Absolute(p), Base(p), DigitsOf(p), precision)
         IN /\ s \in Seq(Range(DigitsOf(p))) /\ s \in Seq(AllDigits)
            /\ Len(s) \in Nat /\ ValueOf(s, Base(p)) = Absolute(p)
            /\ precision >= 0 => Len(s) <= precision
            /\ precision < 0 => Len(s) >= 1 /\ (Len(s) > 1 => s[1] # "0")
<1>. DEFINE x == Absolute(p)
            b == Base(p)
            digits == DigitsOf(p)
            s == FillNumbuf(x, b, digits, precision)
<1>1. /\ x \in 0 .. Word - 1 /\ b \in {10, 16} /\ digits \in {upper_digits, lower_digits}
      /\ Range(digits) \subseteq AllDigits
  <2>1. x \in 0 .. Word - 1
    BY AbsoluteIs
  <2>. QED  BY <2>1 DEF Base, DigitsOf, AllDigits
<1>2. PICK g \in Int :
        /\ precision = g
        /\ IF p.precision.form = "none" THEN g = -1
           ELSE g >= 0 /\ g = Given(p.precision, 0)
  <2>1. IsPrecision(p.precision) /\ Given(p.precision, 0) >= 0
    BY DEF IsEscape, Conventional
  <2>. QED  BY <2>1, GivenIs DEF Asked
<1>3. p.precision.form # "none" => x = 0 \/ NumberOfDigits(x, b) <= g
  BY <1>2 DEF Conventional
<1>. HIDE DEF x, b, digits
<1>4. CASE precision = 0 /\ x = 0
  <2>1. s = <<>>
    BY <1>4 DEF FillNumbuf
  <2>2. /\ <<>> \in Seq(Range(digits)) /\ <<>> \in Seq(AllDigits)
        /\ Len(<<>>) = 0 /\ ValueOf(<<>>, b) = 0
    <3>1. "0" \in AllDigits /\ b \in Nat /\ <<>> \in Seq(AllDigits)
      BY <1>1 DEF AllDigits, upper_digits, Range
    <3>2. ValueOf(<<>>, b) = 0
      BY <3>1, ValueOfDigits
    <3>3. <<>> \in Seq(Range(digits)) /\ Len(<<>>) = 0
      OBVIOUS
    <3>. QED  BY <3>1, <3>2, <3>3
  <2>. HIDE DEF s
  <2>3. /\ s \in Seq(Range(digits)) /\ s \in Seq(AllDigits)
        /\ Len(s) \in Nat /\ ValueOf(s, b) = x
        /\ Len(s) <= precision /\ ~(precision < 0)
    BY <1>4, <2>1, <2>2
  <2>. QED  BY <2>3 DEF s, x, b, digits
<1>5. CASE precision # 0 \/ x # 0
  <2>1. Numeral(s, NumberOfDigits(x, b), x, b, digits)
    BY <1>1, <1>5, Numerals
  <2>. HIDE DEF s
  <2>2. PICK n \in Nat \ {0} :
          /\ n = NumberOfDigits(x, b) /\ Len(s) = n
          /\ s \in Seq(Range(digits)) /\ ValueOf(s, b) = x
          /\ IF x = 0 THEN n = 1 ELSE s[1] # "0"
    BY <2>1 DEF Numeral
  <2>3. s \in Seq(AllDigits)
    BY <1>1, <2>2, SeqMonotonic
  <2>4. precision >= 0 => Len(s) <= precision
    <3>1. CASE x = 0
      BY <1>2, <1>5, <2>2, <3>1
    <3>2. CASE x # 0
      BY <1>2, <1>3, <2>2, <3>2
    <3>. QED  BY <3>1, <3>2
  <2>5. Len(s) >= 1 /\ (Len(s) > 1 => s[1] # "0")
    BY <2>2
  <2>6. Len(s) \in Nat
    BY <2>2
  <2>. QED  BY <2>2, <2>3, <2>4, <2>5, <2>6 DEF s, x, b, digits
<1>. QED  BY <1>2, <1>4, <1>5

(* The zeros in front of a number make it as long as it has to be.         *)
LEMMA BodyAsked ==
  ASSUME NEW p, IsEscape(p), IsNumber(p), Conventional(p), Asked(p),
         NEW negative \in BOOLEAN, negative <=> p.esc = "d" /\ p.arg[1] < 0,
         NEW s, s = FillNumbuf(Absolute(p), Base(p), DigitsOf(p), precision)
  PROVE  /\ CutOf(s) = Len(s) /\ ZerosOf(Len(s), TRUE, negative) \in Int
         /\ IsBody(Copies("0", ZerosOf(Len(s), TRUE, negative)) \o s, p)
<1>. DEFINE len == Len(s)
            D == Range(DigitsOf(p))
            Filled == HasFlag(p, "0") /\ ~HasFlag(p, "-")
            z == ZerosOf(len, TRUE, negative)
            body == Copies("0", z) \o s
<1>1. /\ s \in Seq(D) /\ s \in Seq(AllDigits)
      /\ len \in Nat /\ ValueOf(s, Base(p)) = Absolute(p)
      /\ precision >= 0 => len <= precision
      /\ precision < 0 => len >= 1 /\ (len > 1 => s[1] # "0")
  BY DigitsAsked
<1>2. PICK g \in Int :
        /\ precision = g
        /\ IF p.precision.form = "none" THEN g = -1 /\ Given(p.precision, 1) = 1
           ELSE g >= 0 /\ Given(p.precision, 1) = g
  <2>1. IsPrecision(p.precision) /\ Given(p.precision, 0) >= 0
    BY DEF IsEscape, Conventional
  <2>. QED  BY <2>1, GivenIs DEF Asked
<1>3. PICK w \in Int : width = w /\ Given(p.width, 0) = IF w > 0 THEN w ELSE 0
  <2>1. IsPrecision(p.width) /\ Given(p.width, 0) >= 0
    BY DEF IsEscape, Conventional, IsPrecision
  <2>. QED  BY <2>1, GivenIs DEF Asked
<1>4. PICK sl \in 0 .. 1 : sl = Len(SignOf(negative)) /\ sl = Len(Prefix(p))
  BY SignIs, SignAsked, PrefixIsSign
<1>5. flags \cap {"0", "-"} = {"0"} <=> Filled
  BY FlagsAsked
<1>. HIDE DEF Filled, D
<1>. DEFINE zeros == IF g > len THEN g - len
                     ELSE IF Filled /\ g < 0 THEN w - len - sl ELSE 0
<1>6. z = zeros
  BY <1>2, <1>3, <1>4, <1>5, Zenon DEF ZerosOf
<1>. HIDE DEF z, len
<1>7. zeros \in Int
  BY <1>1, <1>2, <1>3
<1>8. CutOf(s) = len
  <2>1. ~(precision >= 0 /\ precision < Len(s))
    BY <1>1, <1>2 DEF len
  <2>. QED  BY <2>1 DEF CutOf, len
<1>9. /\ Len(body) = (IF z > 0 THEN z ELSE 0) + len
      /\ ValueOf(body, Base(p)) = Absolute(p)
  <2>1. Base(p) \in Nat /\ z \in Int
    BY <1>6, <1>7 DEF Base
  <2>. QED  BY <1>1, <2>1, LeadingZeros DEF len
<1>10. Range(body) \subseteq D
  <2>1. "0" \in D
    BY DEF D, DigitsOf, upper_digits, lower_digits, Range
  <2>2. z \in Int
    BY <1>6, <1>7
  <2>3. Copies("0", z) \in Seq(D)
    BY <2>1, <2>2, CopiesAre
  <2>4. body \in Seq(D)
    BY <1>1, <2>3, ConcatProperties
  <2>. QED  BY <2>4, RangeOfSeq
<1>11. z <= 0 => body = s
  <2>1. ASSUME z <= 0 PROVE Copies("0", z) = <<>>
    <3>1. 1 .. z = {}
      BY <1>6, <1>7, <2>1
    <3>2. Copies("0", z) = [k \in {} |-> "0"]
      BY <3>1, Zenon DEF Copies
    <3>. QED  BY <3>2
  <2>2. <<>> \o s = s
    BY <1>1, ConcatEmptySeq
  <2>. QED  BY <2>1, <2>2
<1>. HIDE DEF body, zeros
<1>. DEFINE prec == Given(p.precision, 1)
            fill == Filled /\ p.precision.form = "none"
            room == Given(p.width, 0) - sl
            enough == IF fill /\ room > prec THEN room ELSE prec
<1>12. Len(body) >= enough /\ (Len(body) > enough => body[1] # "0")
  <2>1. CASE p.precision.form # "none"
    <3>1. g >= 0 /\ enough = g /\ len <= g
      BY <1>1, <1>2, <2>1
    <3>2. zeros = g - len
      BY <1>1, <3>1 DEF zeros
    <3>3. Len(body) = g
      BY <1>1, <1>6, <1>9, <3>1, <3>2
    <3>. QED  BY <3>1, <3>3
  <2>2. CASE p.precision.form = "none" /\ ~Filled
    <3>1. g = -1 /\ enough = 1 /\ len >= 1 /\ (len > 1 => s[1] # "0")
      BY <1>1, <1>2, <2>2
    <3>2. zeros = 0
      BY <1>1, <2>2, <3>1 DEF zeros
    <3>3. Len(body) = len /\ body = s
      BY <1>1, <1>6, <1>9, <1>11, <3>2
    <3>. QED  BY <3>1, <3>3
  <2>3. CASE p.precision.form = "none" /\ Filled
    <3>. DEFINE r == (IF w > 0 THEN w ELSE 0) - sl
    <3>1. /\ g = -1 /\ len >= 1 /\ (len > 1 => s[1] # "0")
          /\ enough = IF r > 1 THEN r ELSE 1
      <4>1. g = -1 /\ prec = 1 /\ fill /\ room = r
        BY <1>2, <1>3, <2>3
      <4>. QED  BY <1>1, <1>2, <4>1
    <3>. HIDE DEF enough
    <3>2. zeros = w - len - sl
      BY <1>1, <2>3, <3>1 DEF zeros
    <3>3. CASE zeros > 0
      <4>1. Len(body) = w - sl /\ w > 0 /\ w - sl >= 1
        BY <1>1, <1>6, <1>9, <3>2, <3>3
      <4>. QED  BY <3>1, <4>1
    <3>4. CASE zeros <= 0
      <4>1. Len(body) = len /\ body = s /\ w - sl <= len
        BY <1>1, <1>6, <1>7, <1>9, <1>11, <3>2, <3>4
      <4>. QED  BY <1>1, <3>1, <4>1
    <3>. QED  BY <1>7, <3>3, <3>4
  <2>. QED  BY <2>1, <2>2, <2>3
<1>13. IsBody(body, p)
  <2>1. /\ Range(body) \subseteq Range(IF p.esc = "x" THEN lower_digits ELSE upper_digits)
        /\ Len(body) >= enough
        /\ Len(body) > enough => body[1] # "0"
        /\ ValueOf(body, Base(p)) = Absolute(p)
    BY <1>9, <1>10, <1>12, Zenon DEF D, DigitsOf
  <2>2. sl = Len(Prefix(p))
    BY <1>4
  <2>. QED  BY <2>1, <2>2, Zenon DEF IsBody, Filled
<1>. QED  BY <1>6, <1>7, <1>8, <1>13 DEF z, body, len

(* The width that has been read is that of the escape. *)
LEMMA WidthAsked ==
  ASSUME NEW p, IsEscape(p), Conventional(p), Asked(p)
  PROVE  width \in Int /\ Given(p.width, 0) = IF width > 0 THEN width ELSE 0
<1>1. IsPrecision(p.width) /\ Given(p.width, 0) >= 0
  BY DEF IsEscape, Conventional, IsPrecision
<1>. QED  BY <1>1, GivenIs DEF Asked

(* The field of a number is the one its escape asks for. *)
LEMMA NumberField ==
  ASSUME NEW p, IsEscape(p), IsNumber(p), Conventional(p), Asked(p),
         NEW negative \in BOOLEAN, negative <=> p.esc = "d" /\ p.arg[1] < 0,
         NEW s, s = FillNumbuf(Absolute(p), Base(p), DigitsOf(p), precision)
  PROVE  Field(FieldOf(s, TRUE, negative), p)
<1>. DEFINE z == ZerosOf(Len(s), TRUE, negative)
            sign == SignOf(negative)
            num == Copies("0", z) \o s
            V == AllDigits \cup {"-", "+", Blank}
            pad == Copies(Blank, width - Len(sign \o num))
<1>1. CutOf(s) = Len(s) /\ z \in Int /\ IsBody(num, p)
  BY BodyAsked
<1>2. s \in Seq(AllDigits)
  BY DigitsAsked
<1>3. sign \in Seq(V) /\ sign = Prefix(p)
  <2>1. sign \in Seq({"-", "+", Blank})
    BY SignIs
  <2>2. sign \in Seq(V)
    BY <2>1, SeqMonotonic
  <2>. QED  BY <2>2, SignAsked, PrefixIsSign
<1>4. s \in Seq(V) /\ Copies("0", z) \in Seq(V) /\ num \in Seq(V)
  <2>1. "0" \in AllDigits
    BY DEF AllDigits, upper_digits, Range
  <2>2. "0" \in V
    BY <2>1
  <2>3. s \in Seq(V)
    BY <1>2, SeqMonotonic
  <2>. HIDE DEF V
  <2>4. Copies("0", z) \in Seq(V)
    BY <1>1, <2>2, CopiesAre
  <2>. QED  BY <2>3, <2>4, ConcatProperties
<1>. HIDE DEF V, z
<1>5. /\ SubSeq(s, 1, Len(s)) = s
      /\ (sign \o Copies("0", z)) \o s = sign \o num
  BY <1>2, <1>3, <1>4, SubSeqFull, ConcatAssociative
<1>. HIDE DEF sign
<1>6. FieldOf(s, TRUE, negative)
        = IF "-" \in flags THEN (sign \o num) \o pad ELSE pad \o (sign \o num)
  <2>1. PICK body : body = SignOf(negative)
                             \o Copies("0", ZerosOf(CutOf(s), TRUE, negative))
                             \o SubSeq(s, 1, CutOf(s))
    OBVIOUS
  <2>2. FieldOf(s, TRUE, negative)
          = IF "-" \in flags THEN body \o Copies(Blank, width - Len(body))
            ELSE Copies(Blank, width - Len(body)) \o body
    BY <2>1, Zenon DEF FieldOf, SignOf, ZerosOf, CutOf
  <2>3. body = sign \o num
    BY <1>1, <1>5, <2>1, Zenon DEF z, sign
  <2>. QED  BY <2>2, <2>3, Zenon
<1>7. Field(IF HasFlag(p, "-") THEN (sign \o num) \o pad ELSE pad \o (sign \o num), p)
  <2>1. Blank \in V
    BY DEF V
  <2>2. AsAsked(num, p)
    BY <1>1, Zenon DEF AsAsked
  <2>. HIDE DEF num
  <2>3. width \in Int /\ Given(p.width, 0) = IF width > 0 THEN width ELSE 0
    BY WidthAsked
  <2>. QED  BY <1>3, <1>4, <2>1, <2>2, <2>3, Padded, Zenon
<1>8. "-" \in flags <=> HasFlag(p, "-")
  BY FlagsAsked
<1>. QED  BY <1>6, <1>7, <1>8, Zenon

(* The field of a string, or of a character, is the one its escape asks    *)
(* for.                                                                    *)
LEMMA StringField ==
  ASSUME NEW p, IsEscape(p), ~IsNumber(p), Conventional(p), Asked(p),
         NEW s, s \in Seq(Range(s)),
         s = IF p.esc \in {"s", "c"} THEN p.arg[1]
             ELSE <<IF p.esc = "NUL" THEN "%" ELSE p.esc>>
  PROVE  Field(FieldOf(s, FALSE, FALSE), p)
<1>. DEFINE V == Range(s) \cup {Blank}
            len == Len(s)
            cut == CutOf(s)
            str == SubSeq(s, 1, cut)
            pad == Copies(Blank, width - Len(<<>> \o str))
<1>1. s \in Seq(V) /\ len \in Nat
  BY SeqMonotonic, LenProperties
<1>2. Prefix(p) = <<>> /\ SignOf(FALSE) = <<>>
  <2>1. p.esc # "d"
    BY DEF IsNumber
  <2>2. Sign(p) = <<>>
    BY <2>1 DEF Sign
  <2>. QED  BY <2>1, <2>2, SignAsked, PrefixIsSign
<1>3. PICK g \in Int :
        /\ precision = g
        /\ IF p.precision.form = "none" THEN g = -1
           ELSE g >= 0 /\ g = Given(p.precision, 0)
  <2>1. IsPrecision(p.precision) /\ Given(p.precision, 0) >= 0
    BY DEF IsEscape, Conventional
  <2>. QED  BY <2>1, GivenIs DEF Asked
<1>4. /\ Given(p.precision, len) = IF p.precision.form = "none" THEN len ELSE g
      /\ p.precision.form = "none" => g = -1
  <2>1. p.precision.form \in {"none", "empty", "digits", "star"}
    BY DEF IsEscape, IsPrecision, IsWidth
  <2>. HIDE DEF len
  <2>. QED  BY <1>3, <2>1 DEF Given
<1>5. /\ cut \in 0 .. len
      /\ cut = IF Given(p.precision, len) < len THEN Given(p.precision, len) ELSE len
  <2>1. cut = IF g >= 0 /\ g < len THEN g ELSE len
    BY <1>3, Zenon DEF CutOf
  <2>. HIDE DEF len, cut
  <2>. QED  BY <1>1, <1>3, <1>4, <2>1
<1>6. str \in Seq(V) /\ Len(str) = cut /\ IsPrefix(str, s)
  <2>. HIDE DEF cut, len, V
  <2>1. 1 \in Int /\ cut \in Int /\ \A i \in 1 .. cut : s[i] \in V
    BY <1>1, <1>5, ElementOfSeq DEF len
  <2>2. str \in Seq(V) /\ Len(str) = IF 1 <= cut THEN cut - 1 + 1 ELSE 0
    BY <2>1, SubSeqProperties
  <2>3. Len(str) = cut
    BY <1>5, <1>1, <2>2
  <2>4. SubSeq(str, 1, Len(str)) = str
    BY <2>2, SubSeqFull
  <2>5. Len(str) <= Len(s)
    BY <1>1, <1>5, <2>3 DEF len
  <2>. QED  BY <2>2, <2>3, <2>4, <2>5, Zenon DEF IsPrefix
<1>7. IsString(str, p)
  BY <1>5, <1>6, Zenon DEF IsString
<1>. HIDE DEF V, str, cut
<1>8. /\ <<>> \in Seq(V) /\ <<>> \o str = str /\ (<<>> \o <<>>) \o str = <<>> \o str
  <2>1. <<>> \in Seq(V) /\ <<>> \o str = str
    BY <1>6, ConcatEmptySeq
  <2>2. <<>> \o <<>> = <<>>
    BY <2>1, ConcatEmptySeq
  <2>. QED  BY <2>1, <2>2, Zenon
<1>9. Copies("0", ZerosOf(cut, FALSE, FALSE)) = <<>>
  <2>1. ZerosOf(cut, FALSE, FALSE) = 0
    BY Zenon DEF ZerosOf
  <2>2. Copies("0", 0) = <<>>
    BY DEF Copies
  <2>. QED  BY <2>1, <2>2
<1>10. FieldOf(s, FALSE, FALSE)
         = IF "-" \in flags THEN (<<>> \o str) \o pad ELSE pad \o (<<>> \o str)
  <2>1. PICK body : body = SignOf(FALSE)
                             \o Copies("0", ZerosOf(CutOf(s), FALSE, FALSE))
                             \o SubSeq(s, 1, CutOf(s))
    OBVIOUS
  <2>2. FieldOf(s, FALSE, FALSE)
          = IF "-" \in flags THEN body \o Copies(Blank, width - Len(body))
            ELSE Copies(Blank, width - Len(body)) \o body
    BY <2>1, Zenon DEF FieldOf, SignOf, ZerosOf, CutOf
  <2>3. body = <<>> \o str
    BY <1>2, <1>8, <1>9, <2>1, Zenon DEF cut, str
  <2>. QED  BY <2>2, <2>3, Zenon
<1>11. Field(IF HasFlag(p, "-") THEN (<<>> \o str) \o pad ELSE pad \o (<<>> \o str), p)
  <2>1. Blank \in V
    BY DEF V
  <2>2. AsAsked(str, p)
    BY <1>7, Zenon DEF AsAsked
  <2>3. width \in Int /\ Given(p.width, 0) = IF width > 0 THEN width ELSE 0
    BY WidthAsked
  <2>. QED  BY <1>2, <1>6, <1>8, <2>1, <2>2, <2>3, Padded, Zenon
<1>12. "-" \in flags <=> HasFlag(p, "-")
  BY FlagsAsked
<1>. QED  BY <1>10, <1>11, <1>12, Zenon

-----------------------------------------------------------------------------
(* Where the parts of an escape are in the format *)

(* w is u and then v.                                                      *)
Joins(w, u, v, V) ==
  /\ w \in Seq(V) /\ Len(w) = Len(u) + Len(v)
  /\ Len(u) \in Nat /\ Len(v) \in Nat
  /\ \A j \in 1 .. Len(u) : w[j] = u[j]
  /\ \A j \in 1 .. Len(v) : w[Len(u) + j] = v[j]

(* What Joins says of a concatenation is so. *)
LEMMA Joined ==
  ASSUME NEW V, NEW u \in Seq(V), NEW v \in Seq(V)
  PROVE  Joins(u \o v, u, v, V)
<1>. DEFINE m == Len(u)
            n == Len(v)
<1>1. /\ u \o v \in Seq(V) /\ Len(u \o v) = m + n
      /\ \A i \in 1 .. m + n : (u \o v)[i] = IF i <= m THEN u[i] ELSE v[i - m]
  BY ConcatProperties
<1>2. m \in Nat /\ n \in Nat
  OBVIOUS
<1>. HIDE DEF m, n
<1>3. ASSUME NEW j \in 1 .. m PROVE (u \o v)[j] = u[j]
  BY <1>1, <1>2
<1>4. ASSUME NEW j \in 1 .. n PROVE (u \o v)[m + j] = v[j]
  <2>1. PICK i \in 1 .. m + n : i = m + j /\ ~(i <= m) /\ i - m = j
    BY <1>2
  <2>. QED  BY <1>1, <2>1
<1>. QED  BY <1>1, <1>2, <1>3, <1>4 DEF m, n, Joins

(* How a width and a precision are written. *)
LEMMA WidthWritten ==
  ASSUME NEW n, IsWidth(n)
  PROVE  \/ n.form = "none" /\ Number(n) = <<>> /\ Starred(n) = <<>>
         \/ /\ n.form = "digits" /\ Number(n) = <<n.token>> /\ Starred(n) = <<>>
            /\ n.token \in DOMAIN NumOf /\ n.value = NumOf[n.token]
         \/ /\ n.form = "star" /\ Number(n) = <<"*">> /\ Starred(n) = <<n.value>>
            /\ n.value \in Int
<1>1. CASE n.form = "none"
  BY <1>1 DEF Number, Starred
<1>2. CASE n.form = "digits"
  BY <1>2 DEF Number, Starred, IsWidth
<1>3. CASE n.form = "star"
  BY <1>3 DEF Number, Starred, IsWidth
<1>. QED  BY <1>1, <1>2, <1>3 DEF IsWidth

(* How a precision is written, and what it takes of the arguments. *)
LEMMA PrecisionWritten ==
  ASSUME NEW n, IsPrecision(n)
  PROVE  \/ n.form = "none" /\ Dotted(n) = <<>> /\ Starred(n) = <<>>
         \/ n.form = "empty" /\ Dotted(n) = <<".">> /\ Starred(n) = <<>>
         \/ /\ n.form = "digits" /\ Dotted(n) = <<".", n.token>> /\ Starred(n) = <<>>
            /\ \/ n.token \in DOMAIN NumOf /\ n.value = NumOf[n.token]
               \/ n.token = "0" /\ n.value = 0
         \/ /\ n.form = "star" /\ Dotted(n) = <<".", "*">> /\ Starred(n) = <<n.value>>
            /\ n.value \in Int
<1>0. ASSUME NEW c PROVE <<".">> \o <<c>> = <<".", c>>
  <2>. DEFINE V == {".", c}
              t == <<".">> \o <<c>>
  <2>1. <<".">> \in Seq(V) /\ <<c>> \in Seq(V) /\ <<".", c>> \in Seq(V)
    OBVIOUS
  <2>2. /\ t \in Seq(V) /\ Len(t) = Len(<<".">>) + Len(<<c>>)
        /\ \A j \in 1 .. Len(<<".">>) : t[j] = <<".">>[j]
        /\ \A j \in 1 .. Len(<<c>>) : t[Len(<<".">>) + j] = <<c>>[j]
    <3>1. Joins(t, <<".">>, <<c>>, V)
      BY <2>1, Joined, Zenon
    <3>. HIDE DEF t
    <3>. QED  BY <3>1 DEF Joins
  <2>. HIDE DEF t, V
  <2>3. Len(t) = 2 /\ t[1] = "." /\ t[2] = c
    BY <2>2
  <2>4. /\ Len(<<".", c>>) = 2 /\ <<".", c>>[1] = "." /\ <<".", c>>[2] = c
        /\ \A i \in 1 .. 2 : i = 1 \/ i = 2
    OBVIOUS
  <2>5. PICK u \in Seq(V) : u = <<".", c>>
    BY <2>1
  <2>6. t = u
    BY <2>2, <2>3, <2>4, <2>5, SeqEqual
  <2>. QED  BY <2>5, <2>6 DEF t
<1>1. CASE n.form = "none"
  BY <1>1 DEF Dotted, Starred
<1>2. CASE n.form = "empty"
  BY <1>2 DEF Dotted, Starred
<1>3. CASE n.form = "digits"
  <2>1. Number(n) = <<n.token>>
    BY <1>3 DEF Number
  <2>2. Dotted(n) = <<".">> \o Number(n)
    BY <1>3 DEF Dotted
  <2>3. Starred(n) = <<>>
    BY <1>3 DEF Starred
  <2>4. \/ n.token \in DOMAIN NumOf /\ n.value = NumOf[n.token]
        \/ n.token = "0" /\ n.value = 0
    BY <1>3 DEF IsPrecision, IsWidth
  <2>. QED  BY <1>0, <1>3, <2>1, <2>2, <2>3, <2>4
<1>4. CASE n.form = "star"
  <2>1. Number(n) = <<"*">>
    BY <1>4 DEF Number
  <2>2. Dotted(n) = <<".">> \o Number(n)
    BY <1>4 DEF Dotted
  <2>3. Starred(n) = <<n.value>> /\ n.value \in Int
    BY <1>4 DEF Starred, IsPrecision, IsWidth
  <2>. QED  BY <1>0, <1>4, <2>1, <2>2, <2>3
<1>. QED  BY <1>1, <1>2, <1>3, <1>4 DEF IsPrecision, IsWidth

(* e is x, the sequences s2, s3 and s4, and y. *)
Spells(e, x, s2, s3, s4, y, a, b, d) ==
  /\ Len(e) = a + b + d + 2
  /\ e[1] = x /\ e[a + b + d + 2] = y
  /\ \A j \in 1 .. a : e[j + 1] = s2[j]
  /\ \A j \in 1 .. b : e[a + j + 1] = s3[j]
  /\ \A j \in 1 .. d : e[a + b + j + 1] = s4[j]

(* The concatenation of a character, three sequences and a character       *)
(* spells them.                                                            *)
LEMMA FiveParts ==
  ASSUME NEW V, NEW x \in V, NEW y \in V, NEW s2 \in Seq(V), NEW s3 \in Seq(V),
         NEW s4 \in Seq(V), NEW a \in Nat, NEW b \in Nat, NEW d \in Nat,
         Len(s2) = a, Len(s3) = b, Len(s4) = d,
         NEW e, e = (((<<x>> \o s2) \o s3) \o s4) \o <<y>>
  PROVE  e \in Seq(V) /\ Spells(e, x, s2, s3, s4, y, a, b, d)
<1>. DEFINE s1 == <<x>>
            s5 == <<y>>
            c2 == s1 \o s2
            c3 == c2 \o s3
            c4 == c3 \o s4
<1>1. s1 \in Seq(V) /\ Len(s1) = 1 /\ s1[1] = x
  OBVIOUS
<1>2. s5 \in Seq(V) /\ Len(s5) = 1 /\ s5[1] = y
  OBVIOUS
<1>3. e = c4 \o s5
  OBVIOUS
<1>. HIDE DEF s1, s5
<1>4. /\ c2 \in Seq(V) /\ Len(c2) = a + 1 /\ c2[1] = x
      /\ \A j \in 1 .. a : c2[j + 1] = s2[j]
  <2>1. /\ c2 \in Seq(V) /\ Len(c2) = Len(s1) + Len(s2)
        /\ \A j \in 1 .. Len(s1) : c2[j] = s1[j]
        /\ \A j \in 1 .. Len(s2) : c2[Len(s1) + j] = s2[j]
    <3>1. Joins(c2, s1, s2, V)
      BY <1>1, Joined, Zenon
    <3>. HIDE DEF c2
    <3>. QED  BY <3>1 DEF Joins
  <2>. HIDE DEF c2
  <2>2. \A j \in 1 .. a : j + 1 = 1 + j
    OBVIOUS
  <2>. QED  BY <1>1, <2>1, <2>2
<1>. HIDE DEF c2
<1>5. /\ c3 \in Seq(V) /\ Len(c3) = a + b + 1 /\ c3[1] = x
      /\ \A j \in 1 .. a : c3[j + 1] = s2[j]
      /\ \A j \in 1 .. b : c3[a + j + 1] = s3[j]
  <2>1. /\ c3 \in Seq(V) /\ Len(c3) = Len(c2) + Len(s3)
        /\ \A j \in 1 .. Len(c2) : c3[j] = c2[j]
        /\ \A j \in 1 .. Len(s3) : c3[Len(c2) + j] = s3[j]
    <3>1. Joins(c3, c2, s3, V)
      BY <1>4, Joined, Zenon
    <3>. HIDE DEF c3
    <3>. QED  BY <3>1 DEF Joins
  <2>. HIDE DEF c3
  <2>2. 1 \in 1 .. Len(c2) /\ \A j \in 1 .. a : j + 1 \in 1 .. Len(c2)
    BY <1>4
  <2>3. ASSUME NEW j \in 1 .. b PROVE a + j + 1 = Len(c2) + j
    BY <1>4
  <2>4. a + 1 + b = a + b + 1
    OBVIOUS
  <2>. QED  BY <1>4, <2>1, <2>2, <2>3, <2>4
<1>. HIDE DEF c3
<1>6. /\ c4 \in Seq(V) /\ Len(c4) = a + b + d + 1 /\ c4[1] = x
      /\ \A j \in 1 .. a : c4[j + 1] = s2[j]
      /\ \A j \in 1 .. b : c4[a + j + 1] = s3[j]
      /\ \A j \in 1 .. d : c4[a + b + j + 1] = s4[j]
  <2>1. /\ c4 \in Seq(V) /\ Len(c4) = Len(c3) + Len(s4)
        /\ \A j \in 1 .. Len(c3) : c4[j] = c3[j]
        /\ \A j \in 1 .. Len(s4) : c4[Len(c3) + j] = s4[j]
    <3>1. Joins(c4, c3, s4, V)
      BY <1>5, Joined, Zenon
    <3>. HIDE DEF c4
    <3>. QED  BY <3>1 DEF Joins
  <2>. HIDE DEF c4
  <2>2. /\ 1 \in 1 .. Len(c3)
        /\ \A j \in 1 .. a : j + 1 \in 1 .. Len(c3)
        /\ \A j \in 1 .. b : a + j + 1 \in 1 .. Len(c3)
    BY <1>5
  <2>3. ASSUME NEW j \in 1 .. d PROVE a + b + j + 1 = Len(c3) + j
    BY <1>5
  <2>4. a + b + 1 + d = a + b + d + 1
    OBVIOUS
  <2>. QED  BY <1>5, <2>1, <2>2, <2>3, <2>4
<1>. HIDE DEF c4
<1>7. /\ e \in Seq(V) /\ Len(e) = Len(c4) + Len(s5)
      /\ \A j \in 1 .. Len(c4) : e[j] = c4[j]
      /\ \A j \in 1 .. Len(s5) : e[Len(c4) + j] = s5[j]
  <2>1. Joins(e, c4, s5, V)
    BY <1>2, <1>3, <1>6, Joined, Zenon
  <2>. QED  BY <2>1 DEF Joins
<1>8. /\ 1 \in 1 .. Len(c4)
      /\ \A j \in 1 .. a : j + 1 \in 1 .. Len(c4)
      /\ \A j \in 1 .. b : a + j + 1 \in 1 .. Len(c4)
      /\ \A j \in 1 .. d : a + b + j + 1 \in 1 .. Len(c4)
  BY <1>6
<1>9. e[a + b + d + 2] = y /\ Len(e) = a + b + d + 2
  <2>1. a + b + d + 2 = Len(c4) + 1 /\ 1 \in 1 .. Len(s5)
    BY <1>2, <1>6
  <2>2. e[Len(c4) + 1] = s5[1]
    BY <1>7, <2>1
  <2>. QED  BY <1>2, <1>7, <2>1, <2>2
<1>. QED  BY <1>6, <1>7, <1>8, <1>9 DEF Spells

(* How an escape is written. *)
LEMMA EncodeLayout ==
  ASSUME NEW p, IsEscape(p), NEW a, a = Len(p.flags), NEW b, b = Len(Number(p.width)),
         NEW d, d = Len(Dotted(p.precision))
  PROVE  /\ a \in Nat /\ b \in 0 .. 1 /\ d \in 0 .. 2
         /\ Encode(p) \in Seq(Range(Encode(p)))
         /\ Spells(Encode(p), "%", p.flags, Number(p.width), Dotted(p.precision),
                   p.esc, a, b, d)
<1>. DEFINE V == {"%", "*", "."} \cup FlagChars \cup DOMAIN NumOf \cup {p.esc}
            s2 == p.flags
            s3 == Number(p.width)
            s4 == Dotted(p.precision)
            e == (((<<"%">> \o s2) \o s3) \o s4) \o <<p.esc>>
<1>1. Encode(p) = e
  <2>1. "text" \notin DOMAIN p
    BY DEF IsEscape
  <2>. QED  BY <2>1, Zenon DEF Encode, IsText
<1>2. s2 \in Seq(V) /\ Len(s2) = a /\ a \in Nat
  <2>1. s2 \in Seq(FlagChars)
    BY DEF IsEscape
  <2>. HIDE DEF FlagChars
  <2>. QED  BY <2>1
<1>. HIDE DEF V
<1>3. s3 \in Seq(V) /\ Len(s3) = b /\ b \in 0 .. 1
  <2>1. IsWidth(p.width)
    BY DEF IsEscape
  <2>2. s3 = <<>> \/ \E t \in V : s3 = <<t>>
    BY <2>1, WidthWritten DEF V
  <2>3. /\ <<>> \in Seq(V) /\ Len(<<>>) \in 0 .. 1
        /\ \A t \in V : <<t>> \in Seq(V) /\ Len(<<t>>) \in 0 .. 1
    OBVIOUS
  <2>. HIDE DEF s3
  <2>4. s3 \in Seq(V) /\ Len(s3) \in 0 .. 1
    BY <2>2, <2>3, Zenon
  <2>. QED  BY <2>4 DEF s3
<1>4. s4 \in Seq(V) /\ Len(s4) = d /\ d \in 0 .. 2
  <2>1. IsPrecision(p.precision)
    BY DEF IsEscape
  <2>2. "0" \in V /\ "." \in V
    BY DEF FlagChars, V
  <2>3. s4 = <<>> \/ s4 = <<".">> \/ \E t \in V : s4 = <<".", t>>
    BY <2>1, <2>2, PrecisionWritten DEF V
  <2>4. /\ <<>> \in Seq(V) /\ Len(<<>>) \in 0 .. 2
        /\ <<".">> \in Seq(V) /\ Len(<<".">>) \in 0 .. 2
        /\ \A t \in V : <<".", t>> \in Seq(V) /\ Len(<<".", t>>) \in 0 .. 2
    BY <2>2
  <2>. HIDE DEF s4
  <2>5. s4 \in Seq(V) /\ Len(s4) \in 0 .. 2
    BY <2>3, <2>4, Zenon
  <2>. QED  BY <2>5 DEF s4
<1>5. "%" \in V /\ p.esc \in V
  BY DEF V
<1>6. b \in Nat /\ d \in Nat
  BY <1>3, <1>4
<1>. HIDE DEF s2, s3, s4
<1>7. e \in Seq(V) /\ Spells(e, "%", s2, s3, s4, p.esc, a, b, d)
  BY <1>2, <1>3, <1>4, <1>5, <1>6, FiveParts, Zenon
<1>. HIDE DEF e
<1>8. Encode(p) \in Seq(Range(Encode(p)))
  BY <1>1, <1>7, SeqOfRange
<1>. QED  BY <1>1, <1>2, <1>3, <1>4, <1>7, <1>8 DEF s2, s3, s4

(* e is the sequences s1, s2 and s3, of at most one element each. *)
Supplies(e, s1, s2, s3, u, v, w) ==
  /\ Len(e) = u + v + w
  /\ u = 1 => e[1] = s1[1]
  /\ v = 1 => e[u + 1] = s2[1]
  /\ w = 1 => e[u + v + 1] = s3[1]

(* The arguments of an escape: for its width, for its precision, its own.  *)
LEMMA ArgumentsLayout ==
  ASSUME NEW p, IsEscape(p), NEW u, u = Len(Starred(p.width)),
         NEW v, v = Len(Starred(p.precision)), NEW w, w = Len(p.arg)
  PROVE  /\ u \in Nat /\ v \in Nat /\ w \in Nat
         /\ Arguments(p) \in Seq(Range(Arguments(p)))
         /\ Supplies(Arguments(p), Starred(p.width), Starred(p.precision), p.arg, u, v, w)
<1>. DEFINE V == {p.width.value, p.precision.value} \cup Range(p.arg)
            s1 == Starred(p.width)
            s2 == Starred(p.precision)
            s3 == p.arg
            c == s1 \o s2
            e == c \o s3
<1>0. Arguments(p) = e
  <2>1. "text" \notin DOMAIN p
    BY DEF IsEscape
  <2>. QED  BY <2>1, Zenon DEF Arguments, IsText
<1>1. \A x \in V : <<x>> \in Seq(V)
  OBVIOUS
<1>2. <<>> \in Seq(V)
  OBVIOUS
<1>3. s1 \in Seq(V) /\ s2 \in Seq(V)
  BY <1>1, <1>2, Zenon DEF Starred
<1>4. s3 \in Seq(V)
  <2>1. s3 \in Seq(Range(s3))
    BY DEF IsEscape
  <2>. QED  BY <2>1, SeqMonotonic
<1>. HIDE DEF V, s1, s2, s3
<1>5. Joins(c, s1, s2, V)
  BY <1>3, Joined, Zenon
<1>. HIDE DEF c
<1>6. c \in Seq(V)
  BY <1>5 DEF Joins
<1>7. Joins(e, c, s3, V)
  BY <1>4, <1>6, Joined, Zenon
<1>. HIDE DEF e
<1>8. u = Len(s1) /\ v = Len(s2) /\ w = Len(s3)
  BY DEF s1, s2, s3
<1>9. u \in Nat /\ v \in Nat /\ w \in Nat /\ Len(c) = u + v /\ Len(e) = u + v + w
      /\ e \in Seq(V)
  BY <1>5, <1>7, <1>8 DEF Joins
<1>10. u = 1 => e[1] = s1[1]
  <2>1. ASSUME u = 1 PROVE 1 \in 1 .. Len(s1) /\ 1 \in 1 .. Len(c)
    BY <1>8, <1>9, <2>1
  <2>. QED  BY <1>5, <1>7, <2>1 DEF Joins
<1>11. v = 1 => e[u + 1] = s2[1]
  <2>1. ASSUME v = 1 PROVE 1 \in 1 .. Len(s2) /\ u + 1 \in 1 .. Len(c)
    BY <1>8, <1>9, <2>1
  <2>2. v = 1 => c[u + 1] = s2[1]
    BY <1>5, <1>8, <2>1 DEF Joins
  <2>. QED  BY <1>7, <2>1, <2>2 DEF Joins
<1>12. w = 1 => e[u + v + 1] = s3[1]
  <2>1. ASSUME w = 1 PROVE 1 \in 1 .. Len(s3)
    BY <1>8, <1>9, <2>1
  <2>2. w = 1 => e[Len(c) + 1] = s3[1]
    BY <1>7, <2>1 DEF Joins
  <2>. QED  BY <1>9, <2>2
<1>13. e \in Seq(Range(e))
  BY <1>9, SeqOfRange
<1>14. Supplies(e, s1, s2, s3, u, v, w)
  BY <1>9, <1>10, <1>11, <1>12, Zenon DEF Supplies
<1>. QED  BY <1>0, <1>9, <1>13, <1>14, Zenon DEF s1, s2, s3

-----------------------------------------------------------------------------
(* Where the pieces of a call are *)

Codes   == [k \in DOMAIN call |-> Encode(call[k])]
Actuals == [k \in DOMAIN call |-> Arguments(call[k])]

At(k)   == Start(Codes, k)      \* characters and
Used(k) == Start(Actuals, k)    \* arguments that come before piece k
Rest(n) == SubSeq(FlattenSeq(Actuals), n + 1, Len(FlattenSeq(Actuals)))

(* A piece is a character or an escape, and only the last has no letter.   *)
LEMMA Pieces ==
  ASSUME call \in Calls
  PROVE  /\ Len(call) \in Nat /\ DOMAIN call = 1 .. Len(call)
         /\ \A k \in 1 .. Len(call) :
              \/ /\ IsText(call[k]) /\ call[k].text \notin {"%", "NUL"}
                 /\ Encode(call[k]) = <<call[k].text>> /\ Arguments(call[k]) = <<>>
              \/ /\ ~IsText(call[k]) /\ IsEscape(call[k])
                 /\ call[k].esc = "NUL" => k = Len(call)
<1>1. /\ call \in Seq(Range(call))
      /\ \A k \in DOMAIN call :
           \/ DOMAIN call[k] = {"text"} /\ call[k].text \notin {"%", "NUL"}
           \/ IsEscape(call[k]) /\ (call[k].esc = "NUL" => k = Len(call))
  BY CallAssumption, Zenon
<1>2. Len(call) \in Nat /\ DOMAIN call = 1 .. Len(call)
  BY <1>1, LenProperties
<1>3. ASSUME NEW p, DOMAIN p = {"text"}
      PROVE  IsText(p) /\ Encode(p) = <<p.text>> /\ Arguments(p) = <<>>
  <2>1. IsText(p)
    BY <1>3 DEF IsText
  <2>. QED  BY <2>1, Zenon DEF Encode, Arguments
<1>4. ASSUME NEW p, IsEscape(p) PROVE ~IsText(p)
  BY <1>4 DEF IsText, IsEscape
<1>. QED  BY <1>1, <1>2, <1>3, <1>4, Zenon

(* If every part is a sequence, the parts are sequences of something.      *)
LEMMA PartsOf ==
  ASSUME NEW n \in Nat, NEW s, s = [k \in 1 .. n |-> s[k]],
         \A k \in 1 .. n : s[k] \in Seq(Range(s[k]))
  PROVE  Len(s) = n /\ \E V : Parts(s, V)
<1>. DEFINE V == UNION {Range(s[k]) : k \in 1 .. n}
            S == Seq(V)
<1>1. ASSUME NEW k \in 1 .. n PROVE s[k] \in S
  <2>1. Range(s[k]) \subseteq V
    OBVIOUS
  <2>2. s[k] \in Seq(Range(s[k]))
    OBVIOUS
  <2>. HIDE DEF V
  <2>. QED  BY <2>1, <2>2, SeqMonotonic
<1>. HIDE DEF S
<1>2. s \in [1 .. n -> S]
  <2>1. \A k \in 1 .. n : s[k] \in S
    BY <1>1
  <2>2. s = [k \in 1 .. n |-> s[k]]
    OBVIOUS
  <2>. QED  BY <2>1, <2>2, Zenon
<1>3. s \in Seq(S) /\ Len(s) = n
  BY <1>2
<1>. QED  BY <1>3 DEF Parts, S

(* Where the characters of each piece are in the format. *)
LEMMA FormatPlaces ==
  ASSUME call \in Calls
  PROVE  /\ At(1) = 0 /\ At(Len(call) + 1) \in Nat
         /\ Char(At(Len(call) + 1) + 1) = "NUL"
         /\ \A k \in 1 .. Len(call) :
              /\ At(k) \in Nat /\ At(k + 1) = At(k) + Len(Encode(call[k]))
              /\ \A j \in 1 .. Len(Encode(call[k])) :
                   Char(At(k) + j) = Encode(call[k])[j]
<1>. DEFINE n == Len(call)
            f == FlattenSeq(Codes)
<1>1. n \in Nat /\ DOMAIN call = 1 .. n
  BY Pieces
<1>2. /\ Codes = [k \in 1 .. n |-> Codes[k]]
      /\ \A k \in 1 .. n : Codes[k] = Encode(call[k])
  BY <1>1 DEF Codes
<1>3. ASSUME NEW k \in 1 .. n PROVE Encode(call[k]) \in Seq(Range(Encode(call[k])))
  <2>1. CASE IsEscape(call[k])
    BY <2>1, EncodeLayout
  <2>2. CASE Encode(call[k]) = <<call[k].text>>
    <3>1. <<call[k].text>> \in Seq({call[k].text})
      OBVIOUS
    <3>. QED  BY <2>2, <3>1, SeqOfRange
  <2>. QED  BY <2>1, <2>2, Pieces
<1>4. PICK V : Parts(Codes, V)
  BY <1>1, <1>2, <1>3, PartsOf
<1>5. Len(Codes) = n
  BY <1>1, <1>2, <1>3, PartsOf
<1>. HIDE DEF n
<1>6. /\ f \in Seq(V) /\ At(1) = 0 /\ At(n + 1) = Len(f)
      /\ \A k \in 1 .. n :
           /\ At(k) \in Nat /\ At(k + 1) = At(k) + Len(Codes[k])
           /\ At(k + 1) <= Len(f)
           /\ \A j \in 1 .. Len(Codes[k]) : f[At(k) + j] = Codes[k][j]
  BY <1>4, <1>5, PartPlaces DEF At
<1>7. Char(Len(f) + 1) = "NUL" /\ Len(f) \in Nat
  <2>1. Len(f) \in Nat
    BY <1>6, LenProperties
  <2>2. f = Format(call)
    BY DEF Format, Codes
  <2>. HIDE DEF f
  <2>3. ~(Len(f) + 1 <= Len(f))
    BY <2>1
  <2>. QED  BY <2>1, <2>2, <2>3, Zenon DEF Char
<1>8. ASSUME NEW k \in 1 .. n, NEW j \in 1 .. Len(Codes[k])
      PROVE  Char(At(k) + j) = Codes[k][j]
  <2>1. f = Format(call)
    BY DEF Format, Codes
  <2>2. Len(Codes[k]) \in Nat
    <3>1. Codes[k] \in Seq(V)
      BY <1>4, <1>5, PartsAre
    <3>. QED  BY <3>1, LenProperties
  <2>3. At(k) \in Nat /\ At(k) + Len(Codes[k]) <= Len(f) /\ Len(f) \in Nat
    BY <1>6, <1>7
  <2>. HIDE DEF f
  <2>4. At(k) + j <= Len(f)
    BY <2>2, <2>3
  <2>5. f[At(k) + j] = Codes[k][j]
    BY <1>6
  <2>. QED  BY <2>1, <2>4, <2>5 DEF Char
<1>. HIDE DEF f
<1>. QED  BY <1>2, <1>6, <1>7, <1>8 DEF n

(* Taking the arguments one at a time. *)
LEMMA ArgumentPlaces ==
  ASSUME call \in Calls
  PROVE  /\ Used(1) = 0 /\ Rest(0) = FlattenSeq(Actuals)
         /\ \A k \in 1 .. Len(call) :
              /\ Used(k) \in Nat /\ Used(k + 1) = Used(k) + Len(Arguments(call[k]))
              /\ \A j \in 0 .. Len(Arguments(call[k])) - 1 :
                   /\ Head(Rest(Used(k) + j)) = Arguments(call[k])[j + 1]
                   /\ Tail(Rest(Used(k) + j)) = Rest(Used(k) + j + 1)
<1>. DEFINE n == Len(call)
            f == FlattenSeq(Actuals)
<1>1. n \in Nat /\ DOMAIN call = 1 .. n
  BY Pieces
<1>2. /\ Actuals = [k \in 1 .. n |-> Actuals[k]]
      /\ \A k \in 1 .. n : Actuals[k] = Arguments(call[k])
  BY <1>1 DEF Actuals
<1>3. ASSUME NEW k \in 1 .. n
      PROVE  Arguments(call[k]) \in Seq(Range(Arguments(call[k])))
  <2>1. CASE IsEscape(call[k])
    BY <2>1, ArgumentsLayout
  <2>2. CASE Arguments(call[k]) = <<>>
    <3>1. <<>> \in Seq({})
      OBVIOUS
    <3>. QED  BY <2>2, <3>1, SeqOfRange
  <2>. QED  BY <2>1, <2>2, Pieces
<1>4. PICK V : Parts(Actuals, V)
  BY <1>1, <1>2, <1>3, PartsOf
<1>5. Len(Actuals) = n
  BY <1>1, <1>2, <1>3, PartsOf
<1>. HIDE DEF n
<1>6. /\ f \in Seq(V) /\ Used(1) = 0
      /\ \A k \in 1 .. n :
           /\ Used(k) \in Nat /\ Used(k + 1) = Used(k) + Len(Actuals[k])
           /\ Used(k + 1) <= Len(f)
           /\ \A j \in 1 .. Len(Actuals[k]) : f[Used(k) + j] = Actuals[k][j]
  BY <1>4, <1>5, PartPlaces DEF Used
<1>7. Rest(0) = f
  <2>1. SubSeq(f, 1, Len(f)) = f
    BY <1>6, SubSeqFull
  <2>2. 0 + 1 = 1
    OBVIOUS
  <2>. QED  BY <2>1, <2>2, Zenon DEF Rest
<1>8. ASSUME NEW k \in 1 .. n, NEW j \in 0 .. Len(Actuals[k]) - 1
      PROVE  /\ Head(Rest(Used(k) + j)) = Actuals[k][j + 1]
             /\ Tail(Rest(Used(k) + j)) = Rest(Used(k) + j + 1)
  <2>. DEFINE l == Len(f)
              c == Len(Actuals[k])
  <2>1. c \in Nat /\ l \in Nat
    <3>1. Actuals[k] \in Seq(V)
      BY <1>4, <1>5, PartsAre
    <3>. QED  BY <1>6, <3>1, LenProperties
  <2>2. Used(k) \in Nat /\ Used(k) + c <= l
    BY <1>6
  <2>3. f[Used(k) + (j + 1)] = Actuals[k][j + 1]
    <3>1. j + 1 \in 1 .. Len(Actuals[k])
      BY <2>1
    <3>. QED  BY <1>6, <3>1
  <2>. HIDE DEF c
  <2>4. PICK m \in 1 .. l : m = Used(k) + j + 1 /\ m = Used(k) + (j + 1)
    BY <2>1, <2>2 DEF c
  <2>. HIDE DEF f
  <2>5. l \in m .. l
    BY <2>1
  <2>6. /\ Head(SubSeq(f, m, l)) = f[m]
        /\ Tail(SubSeq(f, m, l)) = SubSeq(f, m + 1, l)
    BY <1>6, <2>5, HeadTailOfSubSeq
  <2>7. Rest(Used(k) + j) = SubSeq(f, m, l) /\ Rest(Used(k) + j + 1) = SubSeq(f, m + 1, l)
    BY <2>4, Zenon DEF Rest, f
  <2>. QED  BY <2>3, <2>4, <2>6, <2>7
<1>. HIDE DEF f
<1>9. \A k \in 1 .. n :
        /\ Used(k) \in Nat /\ Used(k + 1) = Used(k) + Len(Arguments(call[k]))
        /\ \A j \in 0 .. Len(Arguments(call[k])) - 1 :
             /\ Head(Rest(Used(k) + j)) = Arguments(call[k])[j + 1]
             /\ Tail(Rest(Used(k) + j)) = Rest(Used(k) + j + 1)
  BY <1>2, <1>6, <1>8
<1>. QED  BY <1>6, <1>7, <1>9 DEF n, f

-----------------------------------------------------------------------------
(* The inductive invariant: the pieces before k are printed, and k is the  *)
(* next, or the escape that is being read.                                 *)

Right(k) ==
  /\ out[Place(k)].color = ColorOf(k)
  /\ IF IsText(call[k]) THEN out[Place(k)].chars = <<call[k].text>>
     ELSE Conventional(call[k]) => Field(out[Place(k)].chars, call[k])

Printed(k) ==
  /\ out \in Seq(Range(out)) /\ Len(out) = Cardinality(Printing(k - 1))
  /\ color = ColorOf(k)
  /\ \A j \in Printing(k - 1) : Right(j)

(* After an escape that has no letter the pointer stays where it is.       *)
AtPiece(k) ==
  /\ stage = "text"
  /\ \/ at = At(k) + 1
     \/ k = Len(call) + 1 /\ Char(at) = "NUL"
  /\ val = Rest(Used(k))

InFlags(k, p) ==
  /\ stage = "flags"
  /\ \E m \in 0 .. Len(p.flags) :
       at = At(k) + m + 2 /\ flags = {p.flags[j] : j \in 1 .. m}
  /\ width = -1 /\ precision = -1
  /\ val = Rest(Used(k))

AtPrecision(k, p) ==
  /\ stage = "precision"
  /\ at = At(k) + Len(p.flags) + Len(Number(p.width)) + 2
  /\ flags = Range(p.flags) /\ width = Given(p.width, -1) /\ precision = -1
  /\ val = Rest(Used(k) + Len(Starred(p.width)))

AtLetter(k, p) ==
  /\ stage = "convert"
  /\ at = At(k) + Len(p.flags) + Len(Number(p.width)) + Len(Dotted(p.precision)) + 2
  /\ flags = Range(p.flags) /\ width = Given(p.width, -1)
  /\ Given(p.precision, 0) >= 0 => precision = Given(p.precision, -1)
  /\ val = Rest(Used(k) + Len(Starred(p.width)) + Len(Starred(p.precision)))

Reading(k) ==
  \/ AtPiece(k)
  \/ /\ k <= Len(call) /\ ~IsText(call[k])
     /\ InFlags(k, call[k]) \/ AtPrecision(k, call[k]) \/ AtLetter(k, call[k])
  \/ stage = "done" /\ k = Len(call) + 1

PInv == call \in Calls /\ \E k \in 1 .. Len(call) + 1 : Printed(k) /\ Reading(k)

(* One more piece is one more that is printed, unless it sets the color. *)
LEMMA PrintingIs ==
  /\ Printing(0) = {}
  /\ \A m \in Nat : IsFiniteSet(Printing(m)) /\ Cardinality(Printing(m)) \in Nat
  /\ \A k \in Nat \ {0} :
       /\ SetsColor(call[k]) => Printing(k) = Printing(k - 1)
       /\ ~SetsColor(call[k]) =>
            /\ Printing(k) = Printing(k - 1) \cup {k}
            /\ Cardinality(Printing(k)) = Cardinality(Printing(k - 1)) + 1
  /\ \A m, n \in Nat : m <= n => Cardinality(Printing(m)) <= Cardinality(Printing(n))
<1>1. Printing(0) = {}
  BY DEF Printing
<1>2. ASSUME NEW m \in Nat
      PROVE  IsFiniteSet(Printing(m)) /\ Cardinality(Printing(m)) \in Nat
  <2>1. IsFiniteSet(1 .. m)
    BY FS_Interval
  <2>2. Printing(m) \subseteq 1 .. m
    BY DEF Printing
  <2>. QED  BY <2>1, <2>2, FS_Subset, FS_CardinalityType
<1>3. ASSUME NEW k \in Nat \ {0}
      PROVE  /\ SetsColor(call[k]) => Printing(k) = Printing(k - 1)
             /\ ~SetsColor(call[k]) => Printing(k) = Printing(k - 1) \cup {k}
             /\ k \notin Printing(k - 1) /\ k - 1 \in Nat
  <2>1. 1 .. k = (1 .. k - 1) \cup {k} /\ k \notin 1 .. k - 1 /\ k - 1 \in Nat
    OBVIOUS
  <2>. QED  BY <2>1, Zenon DEF Printing
<1>4. ASSUME NEW k \in Nat \ {0}, ~SetsColor(call[k])
      PROVE  Cardinality(Printing(k)) = Cardinality(Printing(k - 1)) + 1
  <2>1. IsFiniteSet(Printing(k - 1)) /\ k \notin Printing(k - 1)
        /\ Printing(k) = Printing(k - 1) \cup {k}
    BY <1>2, <1>3, <1>4
  <2>. QED  BY <2>1, FS_AddElement
<1>5. ASSUME NEW m \in Nat, NEW n \in Nat, m <= n
      PROVE  Cardinality(Printing(m)) <= Cardinality(Printing(n))
  <2>1. 1 .. m \subseteq 1 .. n
    BY <1>5
  <2>2. Printing(m) \subseteq Printing(n)
    BY <2>1, Zenon DEF Printing
  <2>. QED  BY <1>2, <2>2, FS_Subset
<1>. QED  BY <1>1, <1>2, <1>3, <1>4, <1>5, Zenon

(* Where a piece is in the output: among those of the pieces printed when  *)
(* it is one of them, and beyond them when it is not yet.                  *)
LEMMA PlaceIs ==
  ASSUME NEW m \in Nat, NEW k \in Nat \ {0}
  PROVE  /\ k \in Printing(m) => Place(k) \in 1 .. Cardinality(Printing(m))
         /\ k > m => Place(k) > Cardinality(Printing(m))
         /\ Place(k) = Cardinality(Printing(k - 1)) + 1
<1>1. Place(k) = Cardinality(Printing(k - 1)) + 1
  BY DEF Place
<1>2. PICK j \in Nat : j = k - 1
  OBVIOUS
<1>3. PICK c \in Nat : c = Cardinality(Printing(j))
  BY PrintingIs
<1>4. PICK n \in Nat : n = Cardinality(Printing(m))
  BY PrintingIs
<1>5. ASSUME k \in Printing(m) PROVE c + 1 <= n
  <2>1. k <= m /\ ~SetsColor(call[k])
    BY <1>5 DEF Printing
  <2>2. Cardinality(Printing(k)) = Cardinality(Printing(k - 1)) + 1
    BY <2>1, PrintingIs
  <2>3. Cardinality(Printing(k)) <= Cardinality(Printing(m))
    BY <2>1, PrintingIs
  <2>. QED  BY <1>2, <1>3, <1>4, <2>2, <2>3
<1>6. ASSUME k > m PROVE n <= c
  <2>1. m <= j
    BY <1>2, <1>6
  <2>. QED  BY <1>3, <1>4, <2>1, PrintingIs
<1>7. Place(k) = c + 1
  BY <1>1, <1>2, <1>3
<1>8. k \in Printing(m) => c + 1 \in 1 .. n
  BY <1>5
<1>9. k > m => c + 1 > n
  BY <1>6
<1>. QED  BY <1>1, <1>4, <1>7, <1>8, <1>9

(* The color after a piece is the one it sets, or the one before. *)
LEMMA ColorIs ==
  ASSUME NEW k \in Nat \ {0}
  PROVE  /\ ColorOf(1) = 0
         /\ ColorOf(k + 1) = IF SetsColor(call[k]) THEN call[k].arg[1] ELSE ColorOf(k)
<1>1. ColorOf(1) = 0
  <2>1. 1 .. 1 - 1 = {}
    OBVIOUS
  <2>2. LastColor(1) = {}
    BY <2>1, Zenon DEF LastColor
  <2>. QED  BY <2>2, Zenon DEF ColorOf
<1>2. /\ LastColor(k + 1) = {j \in 1 .. k : /\ SetsColor(call[j])
                                            /\ \A n \in j + 1 .. k : ~SetsColor(call[n])}
  <2>1. PICK m \in Nat : m = k + 1 /\ m - 1 = k
    OBVIOUS
  <2>. QED  BY <2>1, Zenon DEF LastColor
<1>3. CASE SetsColor(call[k])
  <2>1. ASSUME NEW j \in LastColor(k + 1) PROVE j = k
    <3>1. j \in 1 .. k /\ \A n \in j + 1 .. k : ~SetsColor(call[n])
      BY <1>2, <2>1
    <3>2. ~(k \in j + 1 .. k)
      BY <1>3, <3>1
    <3>. QED  BY <3>1, <3>2
  <2>2. k \in LastColor(k + 1)
    <3>1. k \in 1 .. k /\ k + 1 .. k = {}
      OBVIOUS
    <3>. QED  BY <1>2, <1>3, <3>1, Zenon
  <2>3. LastColor(k + 1) = {k}
    BY <2>1, <2>2
  <2>4. (CHOOSE j \in {k} : TRUE) = k
    OBVIOUS
  <2>5. ColorOf(k + 1) = call[k].arg[1]
    <3>1. LastColor(k + 1) # {}
      BY <2>2
    <3>2. (CHOOSE j \in LastColor(k + 1) : TRUE) = k
      BY <2>3, <2>4, Zenon
    <3>. QED  BY <3>1, <3>2, Zenon DEF ColorOf
  <2>. QED  BY <1>1, <1>3, <2>5
<1>4. CASE ~SetsColor(call[k])
  <2>1. ASSUME NEW j \in LastColor(k + 1) PROVE j \in LastColor(k)
    <3>1. /\ j \in 1 .. k /\ SetsColor(call[j])
          /\ \A n \in j + 1 .. k : ~SetsColor(call[n])
      BY <1>2, <2>1
    <3>2. j # k
      BY <1>4, <3>1
    <3>3. j \in 1 .. k - 1 /\ \A n \in j + 1 .. k - 1 : n \in j + 1 .. k
      BY <3>1, <3>2
    <3>. QED  BY <3>1, <3>3, Zenon DEF LastColor
  <2>2. ASSUME NEW j \in LastColor(k) PROVE j \in LastColor(k + 1)
    <3>1. /\ j \in 1 .. k - 1 /\ SetsColor(call[j])
          /\ \A n \in j + 1 .. k - 1 : ~SetsColor(call[n])
      BY <2>2, Zenon DEF LastColor
    <3>2. j \in 1 .. k /\ \A n \in j + 1 .. k : n \in j + 1 .. k - 1 \/ n = k
      BY <3>1
    <3>3. \A n \in j + 1 .. k : ~SetsColor(call[n])
      BY <1>4, <3>1, <3>2, Zenon
    <3>. QED  BY <1>2, <3>1, <3>2, <3>3, Zenon
  <2>3. LastColor(k + 1) = LastColor(k)
    BY <2>1, <2>2
  <2>4. (CHOOSE j \in LastColor(k + 1) : TRUE) = (CHOOSE j \in LastColor(k) : TRUE)
    BY <2>3, Zenon
  <2>5. ColorOf(k + 1) = ColorOf(k)
    BY <2>3, <2>4 DEF ColorOf
  <2>. QED  BY <1>1, <1>4, <2>5
<1>. QED  BY <1>3, <1>4

(* What depends on the call alone does not change. *)
LEMMA Fixed ==
  ASSUME call' = call
  PROVE  /\ \A k : /\ At(k)' = At(k) /\ Used(k)' = Used(k) /\ Rest(k)' = Rest(k)
                   /\ Printing(k)' = Printing(k)
                   /\ Place(k)' = Place(k) /\ ColorOf(k)' = ColorOf(k)
         /\ \A k : (Char(k) = "NUL")' = (Char(k) = "NUL")
<1>1. Codes' = Codes /\ Actuals' = Actuals
  BY DEF Codes, Actuals
<1>2. \A k : At(k)' = At(k) /\ Used(k)' = Used(k) /\ Rest(k)' = Rest(k)
  BY <1>1, Zenon DEF At, Used, Rest
<1>3. \A k : Printing(k)' = Printing(k)
  BY Zenon DEF Printing
<1>4. \A k : Place(k)' = Place(k)
  BY <1>3, Zenon DEF Place
<1>5. \A k : LastColor(k)' = LastColor(k)
  BY Zenon DEF LastColor
<1>6. ASSUME NEW k PROVE ColorOf(k)' = ColorOf(k)
  <2>1. LastColor(k)' = LastColor(k)
    BY <1>5
  <2>2. (CHOOSE j \in LastColor(k)' : TRUE) = (CHOOSE j \in LastColor(k) : TRUE)
    BY <2>1, Zenon
  <2>. QED  BY <2>1, <2>2, Zenon DEF ColorOf
<1>7. \A k : Char(k)' = Char(k)
  BY Zenon DEF Char
<1>. QED  BY <1>2, <1>3, <1>4, <1>6, <1>7, Zenon

(* A piece that is printed stays as it was printed. *)
LEMMA RightStays ==
  ASSUME NEW j, call' = call, out' = out, Right(j)
  PROVE  Right(j)'
<1>1. Place(j)' = Place(j) /\ ColorOf(j)' = ColorOf(j)
  BY Fixed
<1>2. out'[Place(j)'] = out[Place(j)]
  BY <1>1
<1>. QED  BY <1>1, <1>2, Zenon DEF Right

(* A step that prints nothing. *)
LEMMA PrintedStays ==
  ASSUME NEW k, Printed(k), call' = call, out' = out, color' = color
  PROVE  Printed(k)'
<1>1. \A j : Right(j) => Right(j)'
  BY RightStays
<1>2. Printing(k - 1)' = Printing(k - 1) /\ ColorOf(k)' = ColorOf(k)
  BY Fixed
<1>3. /\ out \in Seq(Range(out)) /\ Len(out) = Cardinality(Printing(k - 1))
      /\ color = ColorOf(k) /\ \A j \in Printing(k - 1) : Right(j)
  BY Zenon DEF Printed
<1>4. \A j \in Printing(k - 1)' : Right(j)'
  BY <1>1, <1>2, <1>3, Zenon
<1>. QED  BY <1>2, <1>3, <1>4, Zenon DEF Printed

(* A %C sets the color of the pieces after it. *)
LEMMA PrintedColor ==
  ASSUME NEW k \in Nat \ {0}, Printed(k), call' = call, out' = out,
         SetsColor(call[k]), color' = call[k].arg[1],
         NEW n, n = k + 1
  PROVE  Printed(n)'
<1>1. \A j : Right(j) => Right(j)'
  BY RightStays
<1>2. n - 1 = k
  OBVIOUS
<1>3. Printing(k) = Printing(k - 1) /\ ColorOf(n) = call[k].arg[1]
  BY PrintingIs, ColorIs
<1>4. Printing(n - 1)' = Printing(k - 1) /\ ColorOf(n)' = ColorOf(n)
  BY <1>2, <1>3, Fixed, Zenon
<1>5. out \in Seq(Range(out)) /\ Len(out) = Cardinality(Printing(k - 1))
      /\ \A j \in Printing(k - 1) : Right(j)
  BY DEF Printed
<1>6. \A j \in Printing(n - 1)' : Right(j)'
  BY <1>1, <1>4, <1>5, Zenon
<1>. QED  BY <1>3, <1>4, <1>5, <1>6, Zenon DEF Printed

(* One more piece is printed, and those before it stay. *)
LEMMA PrintedNext ==
  ASSUME NEW k \in Nat \ {0}, Printed(k), call' = call, color' = color,
         ~SetsColor(call[k]),
         NEW f, out' = Append(out, [color |-> color, chars |-> f]),
         IF IsText(call[k]) THEN f = <<call[k].text>>
         ELSE Conventional(call[k]) => Field(f, call[k]),
         NEW n, n = k + 1
  PROVE  Printed(n)'
<1>. DEFINE e == [color |-> color, chars |-> f]
            m == Cardinality(Printing(k - 1))
            V == Range(out) \cup {e}
<1>1. /\ out \in Seq(Range(out)) /\ Len(out) = m /\ color = ColorOf(k)
      /\ \A j \in Printing(k - 1) : Right(j)
  BY Zenon DEF Printed
<1>2. n - 1 = k /\ k - 1 \in Nat /\ k > k - 1
  OBVIOUS
<1>3. /\ Printing(k) = Printing(k - 1) \cup {k} /\ Cardinality(Printing(k)) = m + 1
      /\ m \in Nat /\ ColorOf(n) = ColorOf(k) /\ Place(k) = m + 1
      /\ \A j \in Printing(k - 1) : Place(j) \in 1 .. m
  <2>1. /\ Printing(k) = Printing(k - 1) \cup {k}
        /\ Cardinality(Printing(k)) = Cardinality(Printing(k - 1)) + 1
    BY PrintingIs
  <2>2. m \in Nat
    BY <1>2, PrintingIs
  <2>3. ColorOf(n) = ColorOf(k)
    BY ColorIs
  <2>4. ASSUME NEW j \in Printing(k - 1) PROVE Place(j) \in 1 .. m
    <3>1. j \in Nat \ {0}
      BY DEF Printing
    <3>. QED  BY <1>2, <3>1, PlaceIs
  <2>5. Place(k) = m + 1
    BY <1>2, PlaceIs
  <2>. QED  BY <2>1, <2>2, <2>3, <2>4, <2>5
<1>. HIDE DEF m
<1>4. PICK o \in Seq(V) : o = out
  <2>1. out \in Seq(V)
    BY <1>1, SeqMonotonic
  <2>. QED  BY <2>1
<1>5. /\ out' \in Seq(Range(out')) /\ Len(out') = m + 1
      /\ \A j \in 1 .. m : out'[j] = out[j]
      /\ out'[m + 1] = e
  <2>1. out' = Append(o, e) /\ e \in V /\ Len(o) = m
    BY <1>1, <1>4
  <2>. HIDE DEF e, V
  <2>2. /\ Append(o, e) \in Seq(V) /\ Len(Append(o, e)) = Len(o) + 1
        /\ \A i \in 1 .. Len(o) : Append(o, e)[i] = o[i]
        /\ Append(o, e)[Len(o) + 1] = e
    BY <2>1, AppendProperties
  <2>3. Append(o, e) \in Seq(Range(Append(o, e)))
    BY <2>2, SeqOfRange
  <2>. QED  BY <1>4, <2>1, <2>2, <2>3
<1>6. ASSUME NEW j \in Printing(k - 1) PROVE Right(j)'
  <2>1. out'[Place(j)] = out[Place(j)]
    BY <1>3, <1>5
  <2>2. Right(j)
    BY <1>1
  <2>3. Place(j)' = Place(j) /\ ColorOf(j)' = ColorOf(j)
    BY Fixed
  <2>. QED  BY <2>1, <2>2, <2>3, Zenon DEF Right
<1>7. Right(k)'
  <2>1. Place(k)' = m + 1 /\ ColorOf(k)' = color
    BY <1>1, <1>3, Fixed
  <2>2. out'[m + 1].color = color /\ out'[m + 1].chars = f
    BY <1>5
  <2>. QED  BY <2>1, <2>2, Zenon DEF Right
<1>8. Printing(n - 1)' = Printing(k) /\ ColorOf(n)' = ColorOf(k)
  BY <1>2, <1>3, Fixed, Zenon
<1>9. \A j \in Printing(n - 1)' : Right(j)'
  BY <1>3, <1>6, <1>7, <1>8
<1>. HIDE DEF e
<1>10. Cardinality(Printing(n - 1)') = m + 1
  BY <1>3, <1>8
<1>. QED  BY <1>1, <1>5, <1>8, <1>9, <1>10, Zenon DEF Printed

-----------------------------------------------------------------------------
(* Every step keeps the invariant *)

(* The characters of the escape p, which is piece k: h of them are before, *)
(* and a, b and d are those of its flags, its width and its precision.     *)
EscapeAt(k, p, h, a, b, d) ==
  /\ IsEscape(p) /\ h = At(k) /\ At(k + 1) = h + a + b + d + 2
  /\ a = Len(p.flags) /\ b = Len(Number(p.width)) /\ d = Len(Dotted(p.precision))
  /\ Char(h + 1) = "%"
  /\ \A m \in 1 .. a : Char(h + m + 1) = p.flags[m]
  /\ b = 1 => Char(h + a + 2) = Number(p.width)[1]
  /\ d >= 1 => Char(h + a + b + 2) = Dotted(p.precision)[1]
  /\ d = 2 => Char(h + a + b + 3) = Dotted(p.precision)[2]
  /\ Char(h + a + b + d + 2) = p.esc

(* The characters of an escape are where EscapeAt says. *)
LEMMA EscapeChars ==
  ASSUME call \in Calls, NEW k \in 1 .. Len(call), ~IsText(call[k])
  PROVE  \E h \in Nat, a \in Nat, b \in 0 .. 1, d \in 0 .. 2 : EscapeAt(k, call[k], h, a, b, d)
<1>. DEFINE p == call[k]
            e == Encode(p)
<1>1. IsEscape(p)
  BY Pieces
<1>2. PICK h \in Nat : h = At(k)
  BY FormatPlaces
<1>3. /\ Len(p.flags) \in Nat
      /\ Len(Number(p.width)) \in 0 .. 1
      /\ Len(Dotted(p.precision)) \in 0 .. 2
  BY <1>1, EncodeLayout
<1>4. PICK a \in Nat, b \in 0 .. 1, d \in 0 .. 2 :
        a = Len(p.flags) /\ b = Len(Number(p.width)) /\ d = Len(Dotted(p.precision))
  BY <1>3
<1>5. Spells(e, "%", p.flags, Number(p.width), Dotted(p.precision), p.esc, a, b, d)
  BY <1>1, <1>4, EncodeLayout
<1>6. /\ At(k + 1) = h + Len(e)
      /\ \A j \in 1 .. Len(e) : Char(h + j) = e[j]
  BY <1>2, FormatPlaces
<1>. HIDE DEF e, p
<1>7. Len(e) = a + b + d + 2
  BY <1>5 DEF Spells
<1>8. ASSUME NEW j \in 1 .. a + b + d + 2 PROVE Char(h + j) = e[j]
  BY <1>6, <1>7
<1>9. Char(h + 1) = "%" /\ Char(h + a + b + d + 2) = p.esc
  <2>1. e[1] = "%" /\ e[a + b + d + 2] = p.esc
    BY <1>5 DEF Spells
  <2>2. PICK j \in 1 .. a + b + d + 2 : j = a + b + d + 2 /\ h + j = h + a + b + d + 2
    OBVIOUS
  <2>3. PICK i \in 1 .. a + b + d + 2 : i = 1
    OBVIOUS
  <2>. QED  BY <1>8, <2>1, <2>2, <2>3
<1>10. ASSUME NEW m \in 1 .. a PROVE Char(h + m + 1) = p.flags[m]
  <2>1. e[m + 1] = p.flags[m]
    BY <1>5 DEF Spells
  <2>2. PICK j \in 1 .. a + b + d + 2 : j = m + 1 /\ h + j = h + m + 1
    OBVIOUS
  <2>. QED  BY <1>8, <2>1, <2>2
<1>11. ASSUME b = 1 PROVE Char(h + a + 2) = Number(p.width)[1]
  <2>1. PICK i \in 1 .. b : i = 1
    BY <1>11
  <2>2. e[a + i + 1] = Number(p.width)[i]
    BY <1>5 DEF Spells
  <2>3. PICK j \in 1 .. a + b + d + 2 : j = a + i + 1 /\ h + j = h + a + 2
    BY <2>1
  <2>. QED  BY <1>8, <2>1, <2>2, <2>3
<1>12. ASSUME NEW i \in 1 .. d PROVE Char(h + a + b + i + 1) = Dotted(p.precision)[i]
  <2>1. e[a + b + i + 1] = Dotted(p.precision)[i]
    BY <1>5 DEF Spells
  <2>2. PICK j \in 1 .. a + b + d + 2 : j = a + b + i + 1 /\ h + j = h + a + b + i + 1
    OBVIOUS
  <2>. QED  BY <1>8, <2>1, <2>2
<1>13. ASSUME d >= 1 PROVE Char(h + a + b + 2) = Dotted(p.precision)[1]
  <2>1. PICK i \in 1 .. d : i = 1 /\ h + a + b + i + 1 = h + a + b + 2
    BY <1>13
  <2>. QED  BY <1>12, <2>1
<1>14. ASSUME d = 2 PROVE Char(h + a + b + 3) = Dotted(p.precision)[2]
  <2>1. PICK i \in 1 .. d : i = 2 /\ h + a + b + i + 1 = h + a + b + 3
    BY <1>14
  <2>. QED  BY <1>12, <2>1
<1>15. At(k + 1) = h + a + b + d + 2
  BY <1>6, <1>7
<1>16. EscapeAt(k, p, h, a, b, d)
  BY <1>1, <1>2, <1>4, <1>9, <1>10, <1>11, <1>13, <1>14, <1>15 DEF EscapeAt
<1>. QED  BY <1>16, Zenon DEF p

(* The arguments of the escape p, which is piece k: g of them are before,  *)
(* and u, v and w are those of its width, its precision and its letter.    *)
ArgumentsAt(k, p, g, u, v, w) ==
  /\ g = Used(k) /\ Used(k + 1) = g + u + v + w
  /\ u = Len(Starred(p.width)) /\ v = Len(Starred(p.precision)) /\ w = Len(p.arg)
  /\ u = 1 => Head(Rest(g)) = Starred(p.width)[1] /\ Tail(Rest(g)) = Rest(g + u)
  /\ v = 1 => /\ Head(Rest(g + u)) = Starred(p.precision)[1]
              /\ Tail(Rest(g + u)) = Rest(g + u + v)
  /\ w = 1 => /\ Head(Rest(g + u + v)) = p.arg[1]
              /\ Tail(Rest(g + u + v)) = Rest(g + u + v + w)

(* The arguments of an escape are where ArgumentsAt says. *)
LEMMA EscapeArguments ==
  ASSUME call \in Calls, NEW k \in 1 .. Len(call), ~IsText(call[k])
  PROVE  \E g \in Nat, u \in Nat, v \in Nat, w \in Nat : ArgumentsAt(k, call[k], g, u, v, w)
<1>. DEFINE p == call[k]
            e == Arguments(p)
<1>1. IsEscape(p)
  BY Pieces
<1>2. PICK g \in Nat : g = Used(k)
  BY ArgumentPlaces
<1>3. /\ Len(Starred(p.width)) \in Nat /\ Len(Starred(p.precision)) \in Nat
      /\ Len(p.arg) \in Nat
  BY <1>1, ArgumentsLayout
<1>4. PICK u \in Nat, v \in Nat, w \in Nat :
        u = Len(Starred(p.width)) /\ v = Len(Starred(p.precision)) /\ w = Len(p.arg)
  BY <1>3
<1>5. /\ Len(e) = u + v + w
      /\ u = 1 => e[1] = Starred(p.width)[1]
      /\ v = 1 => e[u + 1] = Starred(p.precision)[1]
      /\ w = 1 => e[u + v + 1] = p.arg[1]
  <2>. HIDE DEF p
  <2>1. Supplies(Arguments(p), Starred(p.width), Starred(p.precision), p.arg, u, v, w)
    BY <1>1, <1>4, ArgumentsLayout, Zenon
  <2>. QED  BY <2>1 DEF Supplies
<1>6. /\ Used(k + 1) = g + Len(e)
      /\ \A j \in 0 .. Len(e) - 1 : /\ Head(Rest(g + j)) = e[j + 1]
                                    /\ Tail(Rest(g + j)) = Rest(g + j + 1)
  BY <1>2, ArgumentPlaces
<1>. HIDE DEF e, p
<1>7. ASSUME u = 1
      PROVE  Head(Rest(g)) = Starred(p.width)[1] /\ Tail(Rest(g)) = Rest(g + u)
  <2>1. PICK j \in 0 .. Len(e) - 1 : j = 0 /\ g + j = g /\ g + j + 1 = g + u /\ j + 1 = 1
    BY <1>5, <1>7
  <2>. QED  BY <1>5, <1>6, <1>7, <2>1
<1>8. ASSUME v = 1
      PROVE  /\ Head(Rest(g + u)) = Starred(p.precision)[1]
             /\ Tail(Rest(g + u)) = Rest(g + u + v)
  <2>1. PICK j \in 0 .. Len(e) - 1 :
          j = u /\ g + j = g + u /\ g + j + 1 = g + u + v /\ j + 1 = u + 1
    BY <1>5, <1>8
  <2>. QED  BY <1>5, <1>6, <1>8, <2>1
<1>9. ASSUME w = 1
      PROVE  /\ Head(Rest(g + u + v)) = p.arg[1]
             /\ Tail(Rest(g + u + v)) = Rest(g + u + v + w)
  <2>1. PICK j \in 0 .. Len(e) - 1 :
          /\ j = u + v /\ g + j = g + u + v
          /\ g + j + 1 = g + u + v + w /\ j + 1 = u + v + 1
    BY <1>5, <1>9
  <2>. QED  BY <1>5, <1>6, <1>9, <2>1
<1>10. Used(k + 1) = g + u + v + w
  BY <1>5, <1>6
<1>11. ArgumentsAt(k, p, g, u, v, w)
  BY <1>2, <1>4, <1>7, <1>8, <1>9, <1>10 DEF ArgumentsAt
<1>. QED  BY <1>11, Zenon DEF p

(* At the start of a piece the code sees its first character.              *)
LEMMA PieceStarts ==
  ASSUME call \in Calls, NEW k \in 1 .. Len(call) + 1, AtPiece(k)
  PROVE  \/ k = Len(call) + 1 /\ Char(at) = "NUL"
         \/ /\ k \in 1 .. Len(call) /\ IsText(call[k]) /\ at = At(k) + 1
            /\ Char(at) = call[k].text /\ call[k].text \notin {"%", "NUL"}
            /\ At(k) \in Nat /\ At(k + 1) = At(k) + 1 /\ Used(k + 1) = Used(k)
         \/ /\ k \in 1 .. Len(call) /\ ~IsText(call[k]) /\ IsEscape(call[k])
            /\ at = At(k) + 1 /\ Char(at) = "%"
<1>0. Len(call) \in Nat
  BY Pieces
<1>1. CASE k = Len(call) + 1
  BY <1>1, FormatPlaces DEF AtPiece
<1>2. CASE k # Len(call) + 1
  <2>1. k \in 1 .. Len(call) /\ at = At(k) + 1
    BY <1>0, <1>2 DEF AtPiece
  <2>2. CASE IsText(call[k])
    <3>1. /\ call[k].text \notin {"%", "NUL"} /\ Encode(call[k]) = <<call[k].text>>
          /\ Arguments(call[k]) = <<>>
      BY <2>1, <2>2, Pieces
    <3>2. /\ Len(Encode(call[k])) = 1 /\ Encode(call[k])[1] = call[k].text
          /\ Len(Arguments(call[k])) = 0
      BY <3>1
    <3>3. /\ At(k) \in Nat /\ At(k + 1) = At(k) + 1
          /\ \A j \in 1 .. 1 : Char(At(k) + j) = Encode(call[k])[j]
      BY <2>1, <3>2, FormatPlaces
    <3>4. Char(At(k) + 1) = call[k].text
      BY <3>2, <3>3
    <3>5. Used(k) \in Nat /\ Used(k + 1) = Used(k) + 0
      BY <2>1, <3>2, ArgumentPlaces
    <3>. QED  BY <2>1, <2>2, <3>1, <3>3, <3>4, <3>5
  <2>3. CASE ~IsText(call[k])
    <3>1. PICK h \in Nat, a \in Nat, b \in 0 .. 1, d \in 0 .. 2 :
            EscapeAt(k, call[k], h, a, b, d)
      BY <2>1, <2>3, EscapeChars
    <3>. QED  BY <2>1, <2>3, <3>1 DEF EscapeAt
  <2>. QED  BY <2>2, <2>3
<1>. QED  BY <1>1, <1>2

(* A step that leads to what the invariant describes. *)
LEMMA Reached ==
  ASSUME call \in Calls, call' = call, NEW n \in 1 .. Len(call) + 1,
         Printed(n)', Reading(n)'
  PROVE  PInv'
BY DEF PInv

(* A step that ends a piece leads to the next. *)
LEMMA ToPiece ==
  ASSUME call' = call, stage' = "text", NEW n, val' = Rest(Used(n)),
         \/ at' = At(n) + 1
         \/ n = Len(call) + 1 /\ Char(at) = "NUL" /\ at' = at
  PROVE  Reading(n)'
<1>1. Codes' = Codes /\ Actuals' = Actuals
  BY DEF Codes, Actuals
<1>2. At(n)' = At(n) /\ Used(n)' = Used(n)
  BY Fixed
<1>3. val' = Rest(Used(n))'
  BY <1>1 DEF Rest, Used
<1>4. \/ at' = At(n)' + 1
      \/ n = Len(call') + 1 /\ Char(at)' = "NUL"
  <2>1. CASE at' = At(n) + 1
    BY <1>2, <2>1
  <2>2. CASE n = Len(call) + 1 /\ Char(at) = "NUL" /\ at' = at
    BY <2>2 DEF Char
  <2>. QED  BY <2>1, <2>2
<1>5. AtPiece(n)'
  BY <1>3, <1>4 DEF AtPiece
<1>. QED  BY <1>5 DEF Reading

(* A step that leads to the flags of an escape. *)
LEMMA ToFlags ==
  ASSUME call' = call, stage' = "flags", NEW k \in 1 .. Len(call), NEW p, p = call[k],
         ~IsText(p), NEW m \in 0 .. Len(p.flags), at' = At(k) + m + 2,
         flags' = {p.flags[j] : j \in 1 .. m}, width' = -1, precision' = -1,
         val' = Rest(Used(k))
  PROVE  Reading(k)'
<1>1. Codes' = Codes /\ Actuals' = Actuals
  BY DEF Codes, Actuals
<1>2. At(k)' = At(k)
  BY Fixed
<1>3. val' = Rest(Used(k))'
  BY <1>1 DEF Rest, Used
<1>4. InFlags(k, call[k])'
  BY <1>2, <1>3 DEF InFlags
<1>. QED  BY <1>4 DEF Reading

(* A step that leads behind the width of an escape. *)
LEMMA ToPrecision ==
  ASSUME call' = call, stage' = "precision", NEW k \in 1 .. Len(call), NEW p, p = call[k],
         ~IsText(p), at' = At(k) + Len(p.flags) + Len(Number(p.width)) + 2,
         flags' = Range(p.flags), width' = Given(p.width, -1), precision' = -1,
         val' = Rest(Used(k) + Len(Starred(p.width)))
  PROVE  Reading(k)'
<1>1. Codes' = Codes /\ Actuals' = Actuals
  BY DEF Codes, Actuals
<1>2. At(k)' = At(k)
  BY Fixed
<1>3. val' = Rest(Used(k) + Len(Starred(call[k].width)))'
  BY <1>1 DEF Rest, Used
<1>4. AtPrecision(k, call[k])'
  BY <1>2, <1>3 DEF AtPrecision
<1>. QED  BY <1>4 DEF Reading

(* A step that leads to the letter of an escape. *)
LEMMA ToLetter ==
  ASSUME call' = call, stage' = "convert", NEW k \in 1 .. Len(call), NEW p, p = call[k],
         ~IsText(p),
         at' = At(k) + Len(p.flags) + Len(Number(p.width)) + Len(Dotted(p.precision)) + 2,
         flags' = Range(p.flags), width' = Given(p.width, -1),
         Given(p.precision, 0) >= 0 => precision' = Given(p.precision, -1),
         val' = Rest(Used(k) + Len(Starred(p.width)) + Len(Starred(p.precision)))
  PROVE  Reading(k)'
<1>1. Codes' = Codes /\ Actuals' = Actuals
  BY DEF Codes, Actuals
<1>2. At(k)' = At(k)
  BY Fixed
<1>3. val' = Rest(Used(k) + Len(Starred(call[k].width)) + Len(Starred(call[k].precision)))'
  BY <1>1 DEF Rest, Used
<1>4. AtLetter(k, call[k])'
  BY <1>2, <1>3 DEF AtLetter
<1>. QED  BY <1>4 DEF Reading

(* The piece or the escape that the code is at. *)
LEMMA TextStage ==
  ASSUME PInv, stage = "text"
  PROVE  \E k \in 1 .. Len(call) + 1 : Printed(k) /\ AtPiece(k)
BY DEF PInv, Reading, InFlags, AtPrecision, AtLetter

(* The stages between "%" and the letter are within an escape. *)
LEMMA EscapeStages ==
  ASSUME PInv, stage # "text", stage # "done"
  PROVE  \E k \in 1 .. Len(call) :
           /\ Printed(k) /\ ~IsText(call[k])
           /\ stage = "flags" => InFlags(k, call[k])
           /\ stage = "precision" => AtPrecision(k, call[k])
           /\ stage = "convert" => AtLetter(k, call[k])
<1>1. PICK k \in 1 .. Len(call) + 1 : Printed(k) /\ Reading(k)
  BY DEF PInv
<1>2. Len(call) \in Nat
  BY Pieces DEF PInv
<1>3. /\ k <= Len(call) /\ ~IsText(call[k])
      /\ InFlags(k, call[k]) \/ AtPrecision(k, call[k]) \/ AtLetter(k, call[k])
  BY <1>1, Zenon DEF Reading, AtPiece
<1>4. k \in 1 .. Len(call)
  BY <1>2, <1>3
<1>5. /\ stage = "flags" => InFlags(k, call[k])
      /\ stage = "precision" => AtPrecision(k, call[k])
      /\ stage = "convert" => AtLetter(k, call[k])
  BY <1>3 DEF InFlags, AtPrecision, AtLetter
<1>. QED  BY <1>1, <1>3, <1>4, <1>5

(* A piece of the call, and the place after it. *)
LEMMA InCall ==
  ASSUME call \in Calls, NEW k \in 1 .. Len(call)
  PROVE  k \in 1 .. Len(call) + 1 /\ k + 1 \in 1 .. Len(call) + 1 /\ k \in Nat \ {0}
<1>1. Len(call) \in Nat
  BY Pieces
<1>. QED  BY <1>1

(* The blank is none of these. *)
LEMMA BlankIs == "*" # Blank /\ "." # Blank
BY Zenon DEF Blank

(* What is after the flags is the width, or the precision, or the letter.  *)
LEMMA AfterFlags ==
  ASSUME NEW k, NEW p, NEW h \in Nat, NEW a \in Nat, NEW b \in 0 .. 1, NEW d \in 0 .. 2,
         EscapeAt(k, p, h, a, b, d)
  PROVE  /\ Char(h + a + 2) \notin FlagChars
         /\ IF b = 1 THEN Char(h + a + 2) = Number(p.width)[1]
            ELSE Char(h + a + 2) \notin DOMAIN NumOf \cup {"*"}
<1>1. IsEscape(p) /\ b = Len(Number(p.width)) /\ d = Len(Dotted(p.precision))
  BY DEF EscapeAt
<1>2. Char(h + a + b + d + 2) = p.esc /\ p.esc \notin FlagChars \cup DOMAIN NumOf \cup {"*", "."}
  BY DEF EscapeAt, IsEscape
<1>3. "*" \notin FlagChars /\ "." \notin FlagChars
  BY BlankIs DEF FlagChars
<1>4. \A t \in DOMAIN NumOf : t \notin FlagChars /\ t # "."
  BY NumAssumption DEF FlagChars
<1>5. CASE b = 1
  <2>1. Char(h + a + 2) = Number(p.width)[1]
    BY <1>5 DEF EscapeAt
  <2>2. Number(p.width)[1] \in DOMAIN NumOf \cup {"*"}
    <3>1. IsWidth(p.width)
      BY <1>1 DEF IsEscape
    <3>2. Number(p.width) # <<>>
      <4>1. Len(<<>>) = 0
        OBVIOUS
      <4>2. Len(Number(p.width)) # 0
        BY <1>1, <1>5
      <4>. QED  BY <4>1, <4>2, Zenon
    <3>3. \/ Number(p.width) = <<p.width.token>> /\ p.width.token \in DOMAIN NumOf
          \/ Number(p.width) = <<"*">>
      BY <3>1, <3>2, WidthWritten
    <3>. QED  BY <3>3
  <2>. QED  BY <1>3, <1>4, <1>5, <2>1, <2>2
<1>6. CASE b = 0 /\ d = 0
  <2>1. h + a + 2 = h + a + b + d + 2
    BY <1>6
  <2>. QED  BY <1>2, <1>6, <2>1
<1>7. CASE b = 0 /\ d >= 1
  <2>1. h + a + 2 = h + a + b + 2
    BY <1>7
  <2>2. Char(h + a + b + 2) = Dotted(p.precision)[1]
    BY <1>7 DEF EscapeAt
  <2>3. Dotted(p.precision)[1] = "."
    <3>1. IsPrecision(p.precision) /\ Dotted(p.precision) # <<>>
      BY <1>1, <1>7 DEF IsEscape
    <3>2. \/ Dotted(p.precision) = <<".">>
          \/ Dotted(p.precision) = <<".", p.precision.token>>
          \/ Dotted(p.precision) = <<".", "*">>
      BY <3>1, PrecisionWritten
    <3>. QED  BY <3>2
  <2>4. "." \notin DOMAIN NumOf /\ "." # "*"
    BY <1>4
  <2>. QED  BY <1>3, <1>7, <2>1, <2>2, <2>3, <2>4
<1>. QED  BY <1>5, <1>6, <1>7

(* Text: the piece is a character. *)
LEMMA TextStep ==
  ASSUME PInv, Text
  PROVE  PInv'
<1>1. /\ call \in Calls /\ stage = "text" /\ Char(at) \notin {"%", "NUL"}
      /\ out' = Append(out, [color |-> color, chars |-> <<Char(at)>>])
      /\ at' = at + 1 /\ call' = call /\ val' = val /\ stage' = stage /\ color' = color
  BY DEF PInv, Text
<1>2. PICK k \in 1 .. Len(call) + 1 : Printed(k) /\ AtPiece(k)
  BY <1>1, TextStage
<1>3. /\ k \in 1 .. Len(call) /\ IsText(call[k]) /\ at = At(k) + 1
      /\ Char(at) = call[k].text
      /\ At(k) \in Nat /\ At(k + 1) = At(k) + 1 /\ Used(k + 1) = Used(k)
  BY <1>1, <1>2, PieceStarts
<1>4. PICK n \in 1 .. Len(call) + 1 : n = k + 1
  <2>1. Len(call) \in Nat
    BY <1>1, Pieces
  <2>. QED  BY <1>3, <2>1
<1>5. Printed(n)'
  <2>1. ~SetsColor(call[k])
    BY <1>3 DEF SetsColor
  <2>2. k \in Nat \ {0}
    BY <1>3
  <2>. QED  BY <1>1, <1>2, <1>3, <1>4, <2>1, <2>2, PrintedNext
<1>6. Reading(n)'
  <2>1. val' = Rest(Used(n))
    BY <1>1, <1>2, <1>3, <1>4 DEF AtPiece
  <2>2. at' = At(n) + 1
    BY <1>1, <1>3, <1>4
  <2>. QED  BY <1>1, <2>1, <2>2, ToPiece
<1>. QED  BY <1>1, <1>5, <1>6, Reached

(* Percent: the piece is an escape. *)
LEMMA PercentStep ==
  ASSUME PInv, Percent
  PROVE  PInv'
<1>1. /\ call \in Calls /\ stage = "text" /\ Char(at) = "%"
      /\ flags' = {} /\ width' = -1 /\ precision' = -1
      /\ at' = at + 1 /\ stage' = "flags"
      /\ call' = call /\ val' = val /\ color' = color /\ out' = out
  BY DEF PInv, Percent
<1>2. PICK k \in 1 .. Len(call) + 1 : Printed(k) /\ AtPiece(k)
  BY <1>1, TextStage
<1>3. /\ k \in 1 .. Len(call) /\ ~IsText(call[k]) /\ IsEscape(call[k])
      /\ at = At(k) + 1
  BY <1>1, <1>2, PieceStarts
<1>4. Printed(k)'
  BY <1>1, <1>2, PrintedStays
<1>5. Reading(k)'
  <2>1. At(k) \in Nat
    BY <1>1, <1>3, FormatPlaces
  <2>2. val' = Rest(Used(k))
    BY <1>1, <1>2 DEF AtPiece
  <2>3. PICK m \in 0 .. Len(call[k].flags) : m = 0
    BY <1>3, EncodeLayout
  <2>4. 1 .. m = {}
    BY <2>3
  <2>5. {call[k].flags[j] : j \in 1 .. m} = {}
    BY <2>4
  <2>6. at' = At(k) + m + 2
    BY <1>1, <1>3, <2>1, <2>3
  <2>. QED  BY <1>1, <1>3, <2>2, <2>5, <2>6, ToFlags
<1>. QED  BY <1>1, <1>2, <1>4, <1>5, Reached

(* Flag: one more flag of the escape. *)
LEMMA FlagStep ==
  ASSUME PInv, Flag
  PROVE  PInv'
<1>1. /\ call \in Calls /\ stage = "flags" /\ Char(at) \in FlagChars
      /\ flags' = flags \cup {Char(at)} /\ at' = at + 1 /\ stage' = stage
      /\ width' = width /\ precision' = precision
      /\ call' = call /\ val' = val /\ color' = color /\ out' = out
  BY DEF PInv, Flag
<1>2. PICK k \in 1 .. Len(call) : Printed(k) /\ ~IsText(call[k]) /\ InFlags(k, call[k])
  BY <1>1, EscapeStages
<1>. DEFINE p == call[k]
<1>3. PICK m \in 0 .. Len(p.flags) :
        at = At(k) + m + 2 /\ flags = {p.flags[j] : j \in 1 .. m}
  BY <1>2 DEF InFlags
<1>4. width = -1 /\ precision = -1 /\ val = Rest(Used(k))
  BY <1>2 DEF InFlags
<1>5. PICK h \in Nat, a \in Nat, b \in 0 .. 1, d \in 0 .. 2 : EscapeAt(k, p, h, a, b, d)
  BY <1>1, <1>2, EscapeChars
<1>. HIDE DEF p
<1>6. /\ h = At(k) /\ a = Len(p.flags) /\ IsEscape(p)
      /\ \A j \in 1 .. a : Char(h + j + 1) = p.flags[j]
  BY <1>5 DEF EscapeAt
<1>7. m # a
  <2>. SUFFICES ASSUME m = a PROVE Char(at) \notin FlagChars
    BY <1>1
  <2>. QED  BY <1>3, <1>5, <1>6, AfterFlags
<1>8. PICK i \in 1 .. a : i = m + 1
  BY <1>3, <1>6, <1>7
<1>9. Char(at) = p.flags[i]
  <2>1. at = h + i + 1
    BY <1>3, <1>6, <1>8
  <2>. QED  BY <1>6, <1>8, <2>1
<1>10. flags' = {p.flags[j] : j \in 1 .. i}
  <2>1. 1 .. i = (1 .. m) \cup {i}
    BY <1>8
  <2>2. {p.flags[j] : j \in 1 .. i} = {p.flags[j] : j \in 1 .. m} \cup {p.flags[i]}
    BY <2>1
  <2>. QED  BY <1>1, <1>3, <1>9, <2>2
<1>11. Printed(k)'
  BY <1>1, <1>2, PrintedStays
<1>12. Reading(k)'
  <2>1. at' = At(k) + i + 2
    BY <1>1, <1>3, <1>6, <1>8
  <2>2. i \in 0 .. Len(p.flags) /\ p = call[k] /\ ~IsText(p)
    BY <1>2, <1>6 DEF p
  <2>3. /\ call' = call /\ stage' = "flags" /\ width' = -1 /\ precision' = -1
        /\ val' = Rest(Used(k))
    BY <1>1, <1>4
  <2>. QED  BY <1>2, <1>10, <2>1, <2>2, <2>3, ToFlags
<1>13. k \in 1 .. Len(call) + 1
  BY <1>1, <1>2, InCall
<1>. QED  BY <1>1, <1>11, <1>12, <1>13, Reached

(* Width: the width of the escape, if it has one. *)
LEMMA WidthStep ==
  ASSUME PInv, Width
  PROVE  PInv'
<1>1. /\ call \in Calls /\ stage = "flags" /\ Char(at) \notin FlagChars
      /\ \/ /\ Char(at) \in DOMAIN NumOf
            /\ width' = NumOf[Char(at)] /\ at' = at + 1 /\ val' = val
         \/ /\ Char(at) = "*"
            /\ width' = Head(val) /\ at' = at + 1 /\ val' = Tail(val)
         \/ /\ Char(at) \notin DOMAIN NumOf \cup {"*"}
            /\ width' = width /\ at' = at /\ val' = val
      /\ stage' = "precision" /\ flags' = flags /\ precision' = precision
      /\ call' = call /\ color' = color /\ out' = out
  BY DEF PInv, Width
<1>2. PICK k \in 1 .. Len(call) : Printed(k) /\ ~IsText(call[k]) /\ InFlags(k, call[k])
  BY <1>1, EscapeStages
<1>. DEFINE p == call[k]
<1>3. PICK m \in 0 .. Len(p.flags) :
        at = At(k) + m + 2 /\ flags = {p.flags[j] : j \in 1 .. m}
  BY <1>2 DEF InFlags
<1>4. width = -1 /\ precision = -1 /\ val = Rest(Used(k))
  BY <1>2 DEF InFlags
<1>5. PICK h \in Nat, a \in Nat, b \in 0 .. 1, d \in 0 .. 2 : EscapeAt(k, p, h, a, b, d)
  BY <1>1, <1>2, EscapeChars
<1>6. PICK g \in Nat, u \in Nat, v \in Nat, w \in Nat : ArgumentsAt(k, p, g, u, v, w)
  BY <1>1, <1>2, EscapeArguments
<1>. HIDE DEF p
<1>7. /\ h = At(k) /\ a = Len(p.flags) /\ b = Len(Number(p.width)) /\ IsEscape(p)
      /\ \A j \in 1 .. a : Char(h + j + 1) = p.flags[j]
  BY <1>5 DEF EscapeAt
<1>8. /\ g = Used(k) /\ u = Len(Starred(p.width))
      /\ u = 1 => Head(Rest(g)) = Starred(p.width)[1] /\ Tail(Rest(g)) = Rest(g + u)
  BY <1>6 DEF ArgumentsAt
<1>9. m = a
  <2>1. \A j \in 1 .. a : p.flags[j] \in FlagChars
    BY <1>7 DEF IsEscape
  <2>2. ASSUME m # a PROVE FALSE
    <3>1. PICK i \in 1 .. a : i = m + 1 /\ h + i + 1 = h + m + 2
      BY <1>3, <1>7, <2>2
    <3>2. Char(h + m + 2) \in FlagChars
      BY <1>7, <2>1, <3>1
    <3>. QED  BY <1>1, <1>3, <1>7, <3>2
  <2>. QED  BY <2>2
<1>10. at = h + a + 2
  BY <1>3, <1>7, <1>9
<1>11. flags' = Range(p.flags)
  <2>1. p.flags \in Seq(FlagChars)
    BY <1>7 DEF IsEscape
  <2>2. DOMAIN p.flags = 1 .. m
    BY <1>7, <1>9, <2>1
  <2>. QED  BY <1>1, <1>3, <2>2, Zenon DEF Range
<1>12. IF b = 1 THEN Char(at) = Number(p.width)[1]
       ELSE Char(at) \notin DOMAIN NumOf \cup {"*"}
  BY <1>5, <1>10, AfterFlags
<1>13. /\ at' = h + a + b + 2 /\ width' = Given(p.width, -1) /\ val' = Rest(g + u)
  <2>1. IsWidth(p.width)
    BY <1>7 DEF IsEscape
  <2>2. CASE p.width.form = "none"
    <3>1. Number(p.width) = <<>> /\ Starred(p.width) = <<>>
      BY <2>1, <2>2, WidthWritten
    <3>2. b = 0 /\ u = 0
      BY <1>7, <1>8, <3>1
    <3>3. Given(p.width, -1) = -1
      BY <2>2 DEF Given
    <3>4. width' = width /\ at' = at /\ val' = val
      BY <1>1, <1>12, <3>2
    <3>5. g + u = g
      BY <3>2
    <3>. QED  BY <1>4, <1>8, <1>10, <3>2, <3>3, <3>4, <3>5
  <2>3. CASE p.width.form = "digits"
    <3>1. /\ Number(p.width) = <<p.width.token>> /\ Starred(p.width) = <<>>
          /\ p.width.token \in DOMAIN NumOf /\ p.width.value = NumOf[p.width.token]
      BY <2>1, <2>3, WidthWritten
    <3>2. b = 1 /\ u = 0 /\ Number(p.width)[1] = p.width.token
      BY <1>7, <1>8, <3>1
    <3>3. Given(p.width, -1) = p.width.value
      BY <2>3 DEF Given
    <3>4. Char(at) = p.width.token /\ Char(at) # "*"
      BY <1>12, <3>1, <3>2, NumAssumption
    <3>5. width' = NumOf[Char(at)] /\ at' = at + 1 /\ val' = val
      BY <1>1, <3>1, <3>4
    <3>6. g + u = g
      BY <3>2
    <3>. QED  BY <1>4, <1>8, <1>10, <3>1, <3>2, <3>3, <3>4, <3>5, <3>6
  <2>4. CASE p.width.form = "star"
    <3>1. Number(p.width) = <<"*">> /\ Starred(p.width) = <<p.width.value>>
      BY <2>1, <2>4, WidthWritten
    <3>2. b = 1 /\ u = 1 /\ Number(p.width)[1] = "*" /\ Starred(p.width)[1] = p.width.value
      BY <1>7, <1>8, <3>1
    <3>3. Given(p.width, -1) = p.width.value
      BY <2>4 DEF Given
    <3>4. Char(at) = "*" /\ Char(at) \notin DOMAIN NumOf
      BY <1>12, <3>2, NumAssumption
    <3>5. width' = Head(val) /\ at' = at + 1 /\ val' = Tail(val)
      BY <1>1, <3>4
    <3>. QED  BY <1>4, <1>8, <1>10, <3>2, <3>3, <3>5
  <2>. QED  BY <2>1, <2>2, <2>3, <2>4 DEF IsWidth
<1>14. Printed(k)'
  BY <1>1, <1>2, PrintedStays
<1>15. Reading(k)'
  <2>1. p = call[k] /\ ~IsText(p)
    BY <1>2 DEF p
  <2>2. at' = At(k) + Len(p.flags) + Len(Number(p.width)) + 2
    BY <1>7, <1>13
  <2>3. val' = Rest(Used(k) + Len(Starred(p.width)))
    BY <1>8, <1>13
  <2>4. /\ call' = call /\ stage' = "precision" /\ precision' = -1
        /\ width' = Given(p.width, -1)
    BY <1>1, <1>4, <1>13
  <2>. QED  BY <1>2, <1>11, <2>1, <2>2, <2>3, <2>4, ToPrecision
<1>16. k \in 1 .. Len(call) + 1
  BY <1>1, <1>2, InCall
<1>. QED  BY <1>1, <1>14, <1>15, <1>16, Reached

(* What is after the width is the precision, or the letter. *)
LEMMA AfterWidth ==
  ASSUME NEW k, NEW p, NEW h \in Nat, NEW a \in Nat, NEW b \in 0 .. 1, NEW d \in 0 .. 2,
         EscapeAt(k, p, h, a, b, d)
  PROVE  /\ d = 0 => Char(h + a + b + 2) # "."
         /\ d >= 1 => Char(h + a + b + 2) = "."
         /\ d = 1 => Char(h + a + b + 3) \notin DOMAIN NumOf \cup {"0", "*"}
         /\ d = 2 => Char(h + a + b + 3) = Dotted(p.precision)[2]
<1>1. IsEscape(p) /\ b = Len(Number(p.width)) /\ d = Len(Dotted(p.precision))
  BY DEF EscapeAt
<1>2. /\ Char(h + a + b + d + 2) = p.esc
      /\ p.esc \notin FlagChars \cup DOMAIN NumOf \cup {"*", "."} /\ "0" \in FlagChars
  BY DEF EscapeAt, IsEscape, FlagChars
<1>3. CASE d = 0
  <2>1. h + a + b + 2 = h + a + b + d + 2
    BY <1>3
  <2>. QED  BY <1>2, <1>3, <2>1
<1>4. ASSUME d >= 1 PROVE Char(h + a + b + 2) = "."
  <2>1. Char(h + a + b + 2) = Dotted(p.precision)[1]
    BY <1>4 DEF EscapeAt
  <2>2. IsPrecision(p.precision) /\ Dotted(p.precision) # <<>>
    BY <1>1, <1>4 DEF IsEscape
  <2>3. \/ Dotted(p.precision) = <<".">>
        \/ Dotted(p.precision) = <<".", p.precision.token>>
        \/ Dotted(p.precision) = <<".", "*">>
    BY <2>2, PrecisionWritten
  <2>. QED  BY <2>1, <2>3
<1>5. CASE d = 1
  <2>1. h + a + b + 3 = h + a + b + d + 2
    BY <1>5
  <2>. QED  BY <1>2, <1>4, <1>5, <2>1
<1>6. CASE d = 2
  <2>1. Char(h + a + b + 3) = Dotted(p.precision)[2]
    BY <1>6 DEF EscapeAt
  <2>. QED  BY <1>4, <1>6, <2>1
<1>. QED  BY <1>3, <1>5, <1>6

(* The precision of p has been read up to the character x, and rest are    *)
(* the arguments that are left.                                            *)
Measured(p, x, rest) ==
  /\ Given(p.precision, 0) >= 0 => precision' = Given(p.precision, -1)
  /\ at' = x /\ val' = rest

(* Precision: the precision of the escape, if it has one. *)
LEMMA PrecisionStep ==
  ASSUME PInv, Precision
  PROVE  PInv'
<1>1. /\ call \in Calls /\ stage = "precision"
      /\ \/ /\ Char(at) # "." /\ precision' = precision /\ at' = at /\ val' = val
         \/ /\ Char(at) = "." /\ Char(at + 1) \in DOMAIN NumOf \cup {"0"}
            /\ precision' = IF Char(at + 1) = "0" THEN 0 ELSE NumOf[Char(at + 1)]
            /\ at' = at + 2 /\ val' = val
         \/ /\ Char(at) = "." /\ Char(at + 1) = "*"
            /\ precision' = IF Head(val) < 0 THEN 0 ELSE Head(val)
            /\ at' = at + 2 /\ val' = Tail(val)
         \/ /\ Char(at) = "." /\ Char(at + 1) \notin DOMAIN NumOf \cup {"0", "*"}
            /\ precision' = 0 /\ at' = at + 1 /\ val' = val
      /\ stage' = "convert" /\ flags' = flags /\ width' = width
      /\ call' = call /\ color' = color /\ out' = out
  BY DEF PInv, Precision
<1>2. PICK k \in 1 .. Len(call) : Printed(k) /\ ~IsText(call[k]) /\ AtPrecision(k, call[k])
  BY <1>1, EscapeStages
<1>. DEFINE p == call[k]
<1>3. /\ at = At(k) + Len(p.flags) + Len(Number(p.width)) + 2
      /\ flags = Range(p.flags) /\ width = Given(p.width, -1) /\ precision = -1
      /\ val = Rest(Used(k) + Len(Starred(p.width)))
  BY <1>2 DEF AtPrecision
<1>4. PICK h \in Nat, a \in Nat, b \in 0 .. 1, d \in 0 .. 2 : EscapeAt(k, p, h, a, b, d)
  BY <1>1, <1>2, EscapeChars
<1>5. PICK g \in Nat, u \in Nat, v \in Nat, w \in Nat : ArgumentsAt(k, p, g, u, v, w)
  BY <1>1, <1>2, EscapeArguments
<1>. HIDE DEF p
<1>6. /\ h = At(k) /\ a = Len(p.flags) /\ b = Len(Number(p.width))
      /\ d = Len(Dotted(p.precision)) /\ IsEscape(p)
  BY <1>4 DEF EscapeAt
<1>7. /\ g = Used(k) /\ u = Len(Starred(p.width)) /\ v = Len(Starred(p.precision))
      /\ v = 1 => /\ Head(Rest(g + u)) = Starred(p.precision)[1]
                  /\ Tail(Rest(g + u)) = Rest(g + u + v)
  BY <1>5 DEF ArgumentsAt
<1>8. at = h + a + b + 2 /\ val = Rest(g + u)
  BY <1>3, <1>6, <1>7
<1>9. /\ d = 0 => Char(at) # "."
      /\ d >= 1 => Char(at) = "."
      /\ d = 1 => Char(at + 1) \notin DOMAIN NumOf \cup {"0", "*"}
      /\ d = 2 => Char(at + 1) = Dotted(p.precision)[2]
  <2>1. at + 1 = h + a + b + 3
    BY <1>8
  <2>. QED  BY <1>4, <1>8, <2>1, AfterWidth
<1>10. IsPrecision(p.precision)
  BY <1>6 DEF IsEscape
<1>11. ASSUME p.precision.form = "none"
       PROVE  Measured(p, h + a + b + d + 2, Rest(g + u + v))
  <2>1. Dotted(p.precision) = <<>> /\ Starred(p.precision) = <<>>
    BY <1>10, <1>11, PrecisionWritten
  <2>2. d = 0 /\ v = 0
    BY <1>6, <1>7, <2>1
  <2>3. precision' = precision /\ at' = at /\ val' = val
    BY <1>1, <1>9, <2>2
  <2>4. Given(p.precision, -1) = -1
    BY <1>11 DEF Given
  <2>5. at' = h + a + b + d + 2 /\ g + u + v = g + u
    BY <1>8, <2>2, <2>3
  <2>. QED  BY <1>3, <1>8, <2>3, <2>4, <2>5 DEF Measured
<1>12. ASSUME p.precision.form = "empty"
       PROVE  Measured(p, h + a + b + d + 2, Rest(g + u + v))
  <2>1. Dotted(p.precision) = <<".">> /\ Starred(p.precision) = <<>>
    BY <1>10, <1>12, PrecisionWritten
  <2>2. d = 1 /\ v = 0
    BY <1>6, <1>7, <2>1
  <2>3. precision' = 0 /\ at' = at + 1 /\ val' = val
    BY <1>1, <1>9, <2>2
  <2>4. Given(p.precision, -1) = 0
    BY <1>12 DEF Given
  <2>5. at' = h + a + b + d + 2 /\ g + u + v = g + u
    BY <1>8, <2>2, <2>3
  <2>. QED  BY <1>8, <2>3, <2>4, <2>5 DEF Measured
<1>13. ASSUME p.precision.form = "digits"
       PROVE  Measured(p, h + a + b + d + 2, Rest(g + u + v))
  <2>1. /\ Dotted(p.precision) = <<".", p.precision.token>> /\ Starred(p.precision) = <<>>
        /\ \/ /\ p.precision.token \in DOMAIN NumOf
              /\ p.precision.value = NumOf[p.precision.token]
           \/ p.precision.token = "0" /\ p.precision.value = 0
    BY <1>10, <1>13, PrecisionWritten
  <2>2. d = 2 /\ v = 0 /\ Dotted(p.precision)[2] = p.precision.token
    BY <1>6, <1>7, <2>1
  <2>3. /\ p.precision.token \in DOMAIN NumOf => p.precision.token # "0"
        /\ p.precision.token # "*"
    BY <2>1, NumAssumption
  <2>4. precision' = p.precision.value /\ at' = at + 2 /\ val' = val
    BY <1>1, <1>9, <2>1, <2>2, <2>3
  <2>5. Given(p.precision, -1) = p.precision.value
    BY <1>13 DEF Given
  <2>6. at' = h + a + b + d + 2 /\ g + u + v = g + u
    BY <1>8, <2>2, <2>4
  <2>. QED  BY <1>8, <2>4, <2>5, <2>6 DEF Measured
<1>14. ASSUME p.precision.form = "star"
       PROVE  Measured(p, h + a + b + d + 2, Rest(g + u + v))
  <2>1. /\ Dotted(p.precision) = <<".", "*">> /\ p.precision.value \in Int
        /\ Starred(p.precision) = <<p.precision.value>>
    BY <1>10, <1>14, PrecisionWritten
  <2>2. d = 2 /\ v = 1 /\ Dotted(p.precision)[2] = "*"
        /\ Starred(p.precision)[1] = p.precision.value
    BY <1>6, <1>7, <2>1
  <2>3. "*" \notin DOMAIN NumOf \cup {"0"}
    BY NumAssumption
  <2>4. /\ precision' = IF Head(val) < 0 THEN 0 ELSE Head(val)
        /\ at' = at + 2 /\ val' = Tail(val)
    BY <1>1, <1>9, <2>2, <2>3
  <2>5. Given(p.precision, -1) = p.precision.value /\ Given(p.precision, 0) = p.precision.value
    BY <1>14 DEF Given
  <2>6. at' = h + a + b + d + 2
    BY <1>8, <2>2, <2>4
  <2>7. Head(val) = p.precision.value /\ Tail(val) = Rest(g + u + v)
    BY <1>7, <1>8, <2>2
  <2>. QED  BY <2>1, <2>4, <2>5, <2>6, <2>7 DEF Measured
<1>15. Measured(p, h + a + b + d + 2, Rest(g + u + v))
  BY <1>10, <1>11, <1>12, <1>13, <1>14 DEF IsPrecision, IsWidth
<1>16. Printed(k)'
  BY <1>1, <1>2, PrintedStays
<1>17. Reading(k)'
  <2>1. p = call[k] /\ ~IsText(p)
    BY <1>2 DEF p
  <2>2. at' = At(k) + Len(p.flags) + Len(Number(p.width)) + Len(Dotted(p.precision)) + 2
    BY <1>6, <1>15 DEF Measured
  <2>3. val' = Rest(Used(k) + Len(Starred(p.width)) + Len(Starred(p.precision)))
    BY <1>7, <1>15 DEF Measured
  <2>4. /\ call' = call /\ stage' = "convert" /\ width' = Given(p.width, -1)
        /\ flags' = Range(p.flags)
        /\ Given(p.precision, 0) >= 0 => precision' = Given(p.precision, -1)
    BY <1>1, <1>3, <1>15 DEF Measured
  <2>. QED  BY <1>2, <2>1, <2>2, <2>3, <2>4, ToLetter
<1>18. k \in 1 .. Len(call) + 1
  BY <1>1, <1>2, InCall
<1>. QED  BY <1>1, <1>16, <1>17, <1>18, Reached

(* At the letter of an escape the code has read what the escape asks for,  *)
(* and its argument is next.                                               *)
LEMMA Letter ==
  ASSUME call \in Calls, NEW k \in 1 .. Len(call), NEW p, p = call[k], ~IsText(p),
         AtLetter(k, p)
  PROVE  /\ IsEscape(p) /\ Char(at) = p.esc
         /\ at = At(k + 1) /\ At(k + 1) \in Nat
         /\ p.esc = "NUL" => k = Len(call)
         /\ Conventional(p) => Asked(p)
         /\ IF p.esc \in {"d", "u", "x", "X", "s", "c", "C"}
              THEN Head(val) = p.arg[1] /\ Tail(val) = Rest(Used(k + 1))
              ELSE val = Rest(Used(k + 1))
<1>1. /\ at = At(k) + Len(p.flags) + Len(Number(p.width)) + Len(Dotted(p.precision)) + 2
      /\ flags = Range(p.flags) /\ width = Given(p.width, -1)
      /\ Given(p.precision, 0) >= 0 => precision = Given(p.precision, -1)
      /\ val = Rest(Used(k) + Len(Starred(p.width)) + Len(Starred(p.precision)))
  BY DEF AtLetter
<1>2. PICK h \in Nat, a \in Nat, b \in 0 .. 1, d \in 0 .. 2 : EscapeAt(k, p, h, a, b, d)
  BY EscapeChars
<1>3. PICK g \in Nat, u \in Nat, v \in Nat, w \in Nat : ArgumentsAt(k, p, g, u, v, w)
  BY EscapeArguments
<1>4. /\ h = At(k) /\ a = Len(p.flags) /\ b = Len(Number(p.width))
      /\ d = Len(Dotted(p.precision)) /\ IsEscape(p)
      /\ At(k + 1) = h + a + b + d + 2 /\ Char(h + a + b + d + 2) = p.esc
  BY <1>2 DEF EscapeAt
<1>5. /\ g = Used(k) /\ u = Len(Starred(p.width)) /\ v = Len(Starred(p.precision))
      /\ w = Len(p.arg) /\ Used(k + 1) = g + u + v + w
      /\ w = 1 => /\ Head(Rest(g + u + v)) = p.arg[1]
                  /\ Tail(Rest(g + u + v)) = Rest(g + u + v + w)
  BY <1>3 DEF ArgumentsAt
<1>6. at = h + a + b + d + 2 /\ val = Rest(g + u + v)
  BY <1>1, <1>4, <1>5
<1>7. w = IF p.esc \in {"d", "u", "x", "X", "s", "c", "C"} THEN 1 ELSE 0
  BY <1>4, <1>5 DEF IsEscape
<1>8. IF p.esc \in {"d", "u", "x", "X", "s", "c", "C"}
        THEN Head(val) = p.arg[1] /\ Tail(val) = Rest(Used(k + 1))
        ELSE val = Rest(Used(k + 1))
  <2>1. CASE p.esc \in {"d", "u", "x", "X", "s", "c", "C"}
    BY <1>5, <1>6, <1>7, <2>1
  <2>2. CASE p.esc \notin {"d", "u", "x", "X", "s", "c", "C"}
    <3>1. w = 0 /\ Used(k + 1) = g + u + v
      BY <1>5, <1>7, <2>2
    <3>. QED  BY <1>6, <2>2, <3>1
  <2>. QED  BY <2>1, <2>2
<1>9. Conventional(p) => Asked(p)
  BY <1>1 DEF Conventional, Asked
<1>10. p.esc = "NUL" => k = Len(call)
  BY Pieces
<1>11. at = At(k + 1) /\ At(k + 1) \in Nat
  <2>1. PICK x \in Nat : x = h + a + b + d + 2
    OBVIOUS
  <2>2. at = x /\ At(k + 1) = x
    BY <1>4, <1>6, <2>1
  <2>. QED  BY <2>2
<1>12. Char(at) = p.esc
  BY <1>4, <1>6
<1>. QED  BY <1>4, <1>8, <1>9, <1>10, <1>11, <1>12

(* A letter that prints a field. *)
LEMMA FieldStep ==
  ASSUME call \in Calls, NEW k \in 1 .. Len(call), NEW p, p = call[k], ~IsText(p),
         Printed(k), AtLetter(k, p), p.esc # "C",
         NEW f, Conventional(p) /\ Asked(p) => Field(f, p),
         out' = Append(out, [color |-> color, chars |-> f]),
         call' = call, color' = color, stage' = "text",
         val' = Rest(Used(k + 1)),
         at' = IF p.esc = "NUL" THEN at ELSE at + 1
  PROVE  PInv'
<1>1. /\ IsEscape(p) /\ Char(at) = p.esc /\ at = At(k + 1)
      /\ p.esc = "NUL" => k = Len(call)
      /\ Conventional(p) => Asked(p)
  BY Letter
<1>2. k \in Nat \ {0} /\ k + 1 \in 1 .. Len(call) + 1
  BY InCall
<1>3. PICK n \in 1 .. Len(call) + 1 : n = k + 1
  BY <1>2
<1>4. Printed(n)'
  <2>1. ~SetsColor(call[k])
    BY DEF SetsColor
  <2>2. IF IsText(call[k]) THEN f = <<call[k].text>>
        ELSE Conventional(call[k]) => Field(f, call[k])
    BY <1>1
  <2>. QED  BY <1>2, <1>3, <2>1, <2>2, PrintedNext
<1>5. Reading(n)'
  <2>1. val' = Rest(Used(n))
    BY <1>3
  <2>2. \/ at' = At(n) + 1
        \/ n = Len(call) + 1 /\ Char(at) = "NUL" /\ at' = at
    BY <1>1, <1>3
  <2>. QED  BY <2>1, <2>2, ToPiece
<1>. QED  BY <1>4, <1>5, Reached

(* The number that is converted is the one the escape stands for. *)
LEMMA NumbufIs ==
  ASSUME NEW p, IsEscape(p), Char(at) = p.esc, p.esc \in {"d", "u", "x", "X"},
         Head(val) = p.arg[1]
  PROVE  /\ Numbuf = FillNumbuf(Absolute(p), Base(p), DigitsOf(p), precision)
         /\ Negative = (p.esc = "d" /\ p.arg[1] < 0)
<1>1. Negative = (p.esc = "d" /\ p.arg[1] < 0)
  BY DEF Negative
<1>2. PICK x : x = Head(val) /\ x = p.arg[1]
  OBVIOUS
<1>3. Numbuf = FillNumbuf((IF Negative THEN -x ELSE x) % Word,
                          IF Char(at) \in {"d", "u"} THEN 10 ELSE 16,
                          IF Char(at) = "x" THEN lower_digits ELSE upper_digits,
                          precision)
  BY <1>2, Zenon DEF Numbuf
<1>4. (IF Negative THEN -x ELSE x) % Word = Absolute(p)
  BY <1>1, <1>2, AbsoluteIs DEF IsNumber
<1>5. (IF Char(at) \in {"d", "u"} THEN 10 ELSE 16) = Base(p)
  BY DEF Base
<1>6. (IF Char(at) = "x" THEN lower_digits ELSE upper_digits) = DigitsOf(p)
  BY DEF DigitsOf
<1>. QED  BY <1>1, <1>3, <1>4, <1>5, <1>6

(* Numeric: the field of a number. *)
LEMMA NumericStep ==
  ASSUME PInv, Numeric
  PROVE  PInv'
<1>1. /\ call \in Calls /\ stage = "convert" /\ Char(at) \in {"d", "u", "x", "X"}
      /\ val' = Tail(val) /\ at' = at + 1 /\ stage' = "text"
      /\ call' = call /\ color' = color
  BY DEF PInv, Numeric
<1>2. PICK k \in 1 .. Len(call) : Printed(k) /\ ~IsText(call[k]) /\ AtLetter(k, call[k])
  BY <1>1, EscapeStages
<1>3. PICK p : p = call[k]
  OBVIOUS
<1>4. /\ IsEscape(p) /\ Char(at) = p.esc /\ p.esc \in {"d", "u", "x", "X"}
      /\ Head(val) = p.arg[1] /\ Tail(val) = Rest(Used(k + 1))
  BY <1>1, <1>2, <1>3, Letter
<1>5. IsNumber(p)
  BY <1>4 DEF IsNumber
<1>6. PICK negative \in BOOLEAN : negative <=> p.esc = "d" /\ p.arg[1] < 0
  OBVIOUS
<1>. DEFINE s == FillNumbuf(Absolute(p), Base(p), DigitsOf(p), precision)
<1>7. out' = Append(out, [color |-> color, chars |-> FieldOf(s, TRUE, negative)])
  <2>1. Numbuf = s /\ Negative = negative
    BY <1>4, <1>6, NumbufIs
  <2>2. PutField(Numbuf, TRUE, Negative)
    BY DEF Numeric
  <2>3. PutField(s, TRUE, negative)
    BY <2>1, <2>2
  <2>. QED  BY <2>3 DEF PutField
<1>8. Conventional(p) /\ Asked(p) => Field(FieldOf(s, TRUE, negative), p)
  BY <1>4, <1>5, <1>6, NumberField
<1>. HIDE DEF s
<1>9. PICK f : f = FieldOf(s, TRUE, negative)
  OBVIOUS
<1>10. at' = (IF p.esc = "NUL" THEN at ELSE at + 1) /\ p.esc # "C"
  BY <1>1, <1>4
<1>. QED  BY <1>1, <1>2, <1>3, <1>4, <1>7, <1>8, <1>9, <1>10, FieldStep

(* String: the characters of a string, or a character. *)
LEMMA StringStep ==
  ASSUME PInv, String
  PROVE  PInv'
<1>1. /\ call \in Calls /\ stage = "convert" /\ Char(at) \in {"s", "c"}
      /\ out' = Append(out, [color |-> color, chars |-> FieldOf(Head(val), FALSE, FALSE)])
      /\ val' = Tail(val) /\ at' = at + 1 /\ stage' = "text"
      /\ call' = call /\ color' = color
  BY DEF PInv, String, PutField
<1>2. PICK k \in 1 .. Len(call) : Printed(k) /\ ~IsText(call[k]) /\ AtLetter(k, call[k])
  BY <1>1, EscapeStages
<1>3. PICK p : p = call[k]
  OBVIOUS
<1>4. /\ IsEscape(p) /\ Char(at) = p.esc /\ p.esc \in {"s", "c"}
      /\ Head(val) = p.arg[1] /\ Tail(val) = Rest(Used(k + 1))
  BY <1>1, <1>2, <1>3, Letter
<1>5. PICK s : s = Head(val)
  OBVIOUS
<1>6. s = p.arg[1] /\ s \in Seq(Range(s))
  BY <1>4, <1>5 DEF IsEscape, IsArgument
<1>7. Conventional(p) /\ Asked(p) => Field(FieldOf(s, FALSE, FALSE), p)
  BY <1>4, <1>6, StringField DEF IsNumber
<1>8. PICK f : f = FieldOf(s, FALSE, FALSE)
  OBVIOUS
<1>9. at' = (IF p.esc = "NUL" THEN at ELSE at + 1) /\ p.esc # "C"
  BY <1>1, <1>4
<1>. QED  BY <1>1, <1>2, <1>3, <1>4, <1>5, <1>7, <1>8, <1>9, FieldStep

(* Other: the character itself, and "%" at the end of the format. *)
LEMMA OtherStep ==
  ASSUME PInv, Other
  PROVE  PInv'
<1>1. /\ call \in Calls /\ stage = "convert"
      /\ Char(at) \notin {"d", "u", "x", "X", "s", "c", "C"}
      /\ out' = Append(out,
                  [color |-> color,
                   chars |-> FieldOf(<<IF Char(at) = "NUL" THEN "%" ELSE Char(at)>>,
                                     FALSE, FALSE)])
      /\ at' = (IF Char(at) = "NUL" THEN at ELSE at + 1)
      /\ val' = val /\ stage' = "text" /\ call' = call /\ color' = color
  BY DEF PInv, Other, PutField
<1>2. PICK k \in 1 .. Len(call) : Printed(k) /\ ~IsText(call[k]) /\ AtLetter(k, call[k])
  BY <1>1, EscapeStages
<1>3. PICK p : p = call[k]
  OBVIOUS
<1>4. /\ IsEscape(p) /\ Char(at) = p.esc
      /\ p.esc \notin {"d", "u", "x", "X", "s", "c", "C"}
      /\ val = Rest(Used(k + 1))
  BY <1>1, <1>2, <1>3, Letter
<1>5. PICK s : s = <<IF p.esc = "NUL" THEN "%" ELSE p.esc>>
  OBVIOUS
<1>6. s \in Seq(Range(s))
  <2>1. PICK c : s = <<c>>
    BY <1>5
  <2>2. s \in Seq({c})
    BY <2>1
  <2>. QED  BY <2>2, SeqOfRange
<1>7. Conventional(p) /\ Asked(p) => Field(FieldOf(s, FALSE, FALSE), p)
  BY <1>4, <1>5, <1>6, StringField DEF IsNumber
<1>8. PICK f : f = FieldOf(s, FALSE, FALSE)
  OBVIOUS
<1>9. out' = Append(out, [color |-> color, chars |-> f])
  BY <1>1, <1>4, <1>5, <1>8
<1>10. at' = (IF p.esc = "NUL" THEN at ELSE at + 1) /\ p.esc # "C"
  BY <1>1, <1>4
<1>11. val' = Rest(Used(k + 1))
  BY <1>1, <1>4
<1>. QED  BY <1>1, <1>2, <1>3, <1>7, <1>8, <1>9, <1>10, <1>11, FieldStep

(* Color: the color of the pieces that follow. *)
LEMMA ColorStep ==
  ASSUME PInv, Color
  PROVE  PInv'
<1>1. /\ call \in Calls /\ stage = "convert" /\ Char(at) = "C"
      /\ color' = Head(val) /\ val' = Tail(val) /\ at' = at + 1 /\ stage' = "text"
      /\ call' = call /\ out' = out
  BY DEF PInv, Color
<1>2. PICK k \in 1 .. Len(call) : Printed(k) /\ ~IsText(call[k]) /\ AtLetter(k, call[k])
  BY <1>1, EscapeStages
<1>3. PICK p : p = call[k]
  OBVIOUS
<1>4. /\ Char(at) = p.esc /\ p.esc = "C" /\ at = At(k + 1)
      /\ Head(val) = p.arg[1] /\ Tail(val) = Rest(Used(k + 1))
  BY <1>1, <1>2, <1>3, Letter
<1>5. k \in Nat \ {0} /\ k + 1 \in 1 .. Len(call) + 1
  BY <1>1, InCall
<1>6. PICK n \in 1 .. Len(call) + 1 : n = k + 1
  BY <1>5
<1>7. Printed(n)'
  <2>1. SetsColor(call[k]) /\ color' = call[k].arg[1]
    BY <1>1, <1>2, <1>3, <1>4 DEF SetsColor
  <2>. QED  BY <1>1, <1>2, <1>5, <1>6, <2>1, PrintedColor
<1>8. Reading(n)'
  BY <1>1, <1>4, <1>6, ToPiece
<1>. QED  BY <1>1, <1>7, <1>8, Reached

(* Finish: all pieces are printed. *)
LEMMA FinishStep ==
  ASSUME PInv, Finish
  PROVE  PInv'
<1>1. /\ call \in Calls /\ stage = "text" /\ Char(at) = "NUL" /\ stage' = "done"
      /\ call' = call /\ color' = color /\ out' = out
  BY DEF PInv, Finish
<1>2. PICK k \in 1 .. Len(call) + 1 : Printed(k) /\ AtPiece(k)
  BY <1>1, TextStage
<1>3. k = Len(call) + 1
  BY <1>1, <1>2, PieceStarts
<1>4. Printed(k)'
  BY <1>1, <1>2, PrintedStays
<1>5. Reading(k)'
  BY <1>1, <1>3 DEF Reading
<1>. QED  BY <1>1, <1>4, <1>5, Reached

-----------------------------------------------------------------------------
(* The theorem *)

(* At first no piece has been read. *)
LEMMA InitPInv == Init => PInv
<1>. SUFFICES ASSUME Init PROVE PInv
  OBVIOUS
<1>1. /\ call \in Calls /\ val = FlattenSeq(Actuals) /\ at = 1 /\ stage = "text"
      /\ color = 0 /\ out = <<>>
  BY DEF Init, Actuals
<1>2. PICK k \in 1 .. Len(call) + 1 : k = 1
  <2>1. Len(call) \in Nat
    BY <1>1, Pieces
  <2>. QED  BY <2>1
<1>3. At(1) = 0 /\ Used(1) = 0 /\ Rest(0) = FlattenSeq(Actuals)
  BY <1>1, FormatPlaces, ArgumentPlaces
<1>4. Printed(k)
  <2>1. k - 1 = 0 /\ Printing(0) = {} /\ ColorOf(1) = 0
    BY <1>2, PrintingIs, ColorIs
  <2>2. Cardinality({}) = 0
    BY FS_EmptySet
  <2>3. out \in Seq(Range(out)) /\ Len(out) = 0
    BY <1>1
  <2>4. Printing(k - 1) = {} /\ color = ColorOf(k)
    BY <1>1, <1>2, <2>1
  <2>. QED  BY <2>2, <2>3, <2>4 DEF Printed
<1>5. AtPiece(k)
  BY <1>1, <1>2, <1>3 DEF AtPiece
<1>. QED  BY <1>1, <1>4, <1>5 DEF PInv, Reading

(* A step that changes nothing keeps the invariant. *)
LEMMA StutterPInv ==
  ASSUME PInv, UNCHANGED vars
  PROVE  PInv'
<1>1. /\ call' = call /\ at' = at /\ val' = val /\ stage' = stage /\ flags' = flags
      /\ width' = width /\ precision' = precision /\ color' = color /\ out' = out
  BY DEF vars
<1>2. PICK k \in 1 .. Len(call) + 1 : Printed(k) /\ Reading(k)
  BY DEF PInv
<1>3. call \in Calls
  BY DEF PInv
<1>6. Len(call) \in Nat
  BY <1>3, Pieces
<1>4. Printed(k)'
  BY <1>1, <1>2, PrintedStays
<1>5. Reading(k)'
  <2>1. CASE AtPiece(k)
    BY <1>1, <2>1, ToPiece DEF AtPiece
  <2>2. CASE k <= Len(call) /\ ~IsText(call[k]) /\ InFlags(k, call[k])
    <3>1. k \in 1 .. Len(call)
      BY <1>6, <2>2
    <3>2. PICK m \in 0 .. Len(call[k].flags) :
            at = At(k) + m + 2 /\ flags = {call[k].flags[j] : j \in 1 .. m}
      BY <2>2 DEF InFlags
    <3>3. stage = "flags" /\ width = -1 /\ precision = -1 /\ val = Rest(Used(k))
      BY <2>2 DEF InFlags
    <3>. QED  BY <1>1, <2>2, <3>1, <3>2, <3>3, ToFlags
  <2>3. CASE k <= Len(call) /\ ~IsText(call[k]) /\ AtPrecision(k, call[k])
    <3>1. k \in 1 .. Len(call)
      BY <1>6, <2>3
    <3>. QED  BY <1>1, <2>3, <3>1, ToPrecision DEF AtPrecision
  <2>4. CASE k <= Len(call) /\ ~IsText(call[k]) /\ AtLetter(k, call[k])
    <3>1. k \in 1 .. Len(call)
      BY <1>6, <2>4
    <3>. QED  BY <1>1, <2>4, <3>1, ToLetter DEF AtLetter
  <2>5. CASE stage = "done" /\ k = Len(call) + 1
    BY <1>1, <2>5 DEF Reading
  <2>. QED  BY <1>2, <2>1, <2>2, <2>3, <2>4, <2>5 DEF Reading
<1>. QED  BY <1>1, <1>3, <1>4, <1>5, Reached

(* The invariant implies the property. *)
LEMMA PInvRendered == PInv => Rendered
<1>. SUFFICES ASSUME PInv PROVE Rendered
  OBVIOUS
<1>0. call \in Calls
  BY DEF PInv
<1>1. PICK k \in 1 .. Len(call) + 1 : Printed(k) /\ Reading(k)
  BY DEF PInv
<1>2. Len(call) \in Nat
  BY <1>0, Pieces
<1>3. /\ Len(out) = Cardinality(Printing(k - 1))
      /\ \A j \in Printing(k - 1) : Right(j)
  BY <1>1 DEF Printed
<1>4. stage = "done" => Len(out) = Cardinality(Printing(Len(call)))
  <2>1. ASSUME stage = "done" PROVE k - 1 = Len(call)
    <3>1. k = Len(call) + 1
      BY <1>1, <2>1 DEF Reading, AtPiece, InFlags, AtPrecision, AtLetter
    <3>. QED  BY <1>2, <3>1
  <2>. QED  BY <1>3, <2>1
<1>5. ASSUME NEW j \in Printing(Len(call)), Place(j) <= Len(out) PROVE Right(j)
  <2>1. j \in Nat \ {0} /\ ~SetsColor(call[j]) /\ k - 1 \in Nat
    BY <1>2 DEF Printing
  <2>2. ~(j > k - 1)
    <3>1. Cardinality(Printing(k - 1)) \in Nat /\ Place(j) \in Int
      <4>1. j - 1 \in Nat
        BY <2>1
      <4>2. Cardinality(Printing(k - 1)) \in Nat /\ Cardinality(Printing(j - 1)) \in Nat
        BY <2>1, <4>1, PrintingIs
      <4>. QED  BY <4>2 DEF Place
    <3>2. j > k - 1 => Place(j) > Cardinality(Printing(k - 1))
      BY <2>1, PlaceIs
    <3>. QED  BY <1>3, <1>5, <3>1, <3>2
  <2>3. j \in Printing(k - 1)
    BY <2>1, <2>2 DEF Printing
  <2>. QED  BY <1>3, <2>3
<1>. QED  BY <1>4, <1>5 DEF Rendered, Right

(* What is converted at a letter is the argument of the escape, as an      *)
(* unsigned int.                                                           *)
LEMMA PInvNumbuf == PInv => NumbufFits
<1>. SUFFICES ASSUME PInv, stage = "convert", Char(at) \in {"d", "u", "x", "X"}
              PROVE  Len(Numbuf) < NUMBUFSIZ
  BY DEF NumbufFits
<1>1. call \in Calls
  BY DEF PInv
<1>2. PICK k \in 1 .. Len(call) : Printed(k) /\ ~IsText(call[k]) /\ AtLetter(k, call[k])
  BY EscapeStages
<1>3. PICK p : p = call[k]
  OBVIOUS
<1>4. /\ IsEscape(p) /\ Char(at) = p.esc /\ p.esc \in {"d", "u", "x", "X"}
      /\ Head(val) = p.arg[1]
  BY <1>1, <1>2, <1>3, Letter
<1>5. Absolute(p) \in 0 .. Word - 1 /\ Base(p) \in {10, 16}
      /\ DigitsOf(p) \in {upper_digits, lower_digits}
  BY <1>4, AbsoluteIs DEF IsNumber, Base, DigitsOf
<1>6. Numbuf = FillNumbuf(Absolute(p), Base(p), DigitsOf(p), precision)
  BY <1>4, NumbufIs
<1>7. PICK m \in Nat : m = NumberOfDigits(Word - 1, 10) /\ m < NUMBUFSIZ
                      /\ NumberOfDigits(Absolute(p), Base(p)) \in 1 .. m
  <2>1. Word - 1 \in 0 .. Word - 1 /\ Absolute(p) <= Word - 1
    BY <1>5, WordAssumption
  <2>. QED  BY <1>5, <2>1, FewerDigits, NumbufAssumption
<1>8. Len(FillNumbuf(Absolute(p), Base(p), DigitsOf(p), precision)) \in 0 .. m
  BY <1>5, <1>7, FillShort
<1>. QED  BY <1>6, <1>7, <1>8, NumbufAssumption

(* Rendered, of console_vprintf(): whatever the format and its arguments,  *)
(* of however many pieces and however large the numbers, each character of *)
(* the format is printed, and each conventional escape is printed as C's   *)
(* printf prints it, in order, in the color of the last %C, and with       *)
(* nothing left over from the escape before.                               *)
THEOREM RenderTheorem == Spec => []Rendered
<1>1. Init => PInv
  BY InitPInv
<1>2. PInv /\ [Next]_vars => PInv'
  BY TextStep, PercentStep, FlagStep, WidthStep, PrecisionStep, NumericStep,
     StringStep, ColorStep, OtherStep, FinishStep, StutterPInv DEF Next
<1>3. PInv => Rendered
  BY PInvRendered
<1>. QED  BY <1>1, <1>2, <1>3, PTL DEF Spec

(* NumbufFits, of console_vprintf() and fill_numbuf(): no number, in       *)
(* either base, negative or not and with any precision, makes              *)
(* fill_numbuf() write in front of numbuf.                                 *)
THEOREM NumbufTheorem == Spec => []NumbufFits
<1>1. Init => PInv
  BY InitPInv
<1>2. PInv /\ [Next]_vars => PInv'
  BY TextStep, PercentStep, FlagStep, WidthStep, PrecisionStep, NumericStep,
     StringStep, ColorStep, OtherStep, FinishStep, StutterPInv DEF Next
<1>3. PInv => NumbufFits
  BY PInvNumbuf
<1>. QED  BY <1>1, <1>2, <1>3, PTL DEF Spec
=============================================================================
