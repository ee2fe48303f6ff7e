----------------------------- MODULE BootProofs -----------------------------
(***************************************************************************)
(* Theorems about the disk image and the loaders, for every size of sector *)
(* and buffer, all files and all command lines.                            *)
(*                                                                         *)
(* The argument has four layers, each an invariant that uses the one       *)
(* before: IInv (mkbootdisk's counting), ImageInv (how much of the image   *)
(* is there), LoaderInv (memory holds bytes of the disk) and LMInv (what   *)
(* has been loaded is whole).                                              *)
(***************************************************************************)
EXTENDS Linking, Foundations, SequenceTheorems, TLAPS

(* A multiple of the sector size divides without a remainder. *)
LEMMA Multiple ==
  ASSUME NEW k \in Nat
  PROVE  (SECTORSIZE * k) \div SECTORSIZE = k
BY DiskAssumption, Z3

(* Remainders of 0, of the sector size, and of anything below it. *)
LEMMA Remainder ==
  ASSUME NEW a \in 0 .. SECTORSIZE
  PROVE  a % SECTORSIZE = (IF a = SECTORSIZE THEN 0 ELSE a)
BY DiskAssumption, Z3

(* What is written for a file is a whole number of sectors. *)
LEMMA WholeSectors ==
  ASSUME NEW n \in Nat
  PROVE  /\ Padding(n) \in Nat
         /\ (n + Padding(n)) \div SECTORSIZE \in Nat
         /\ ((n + Padding(n)) \div SECTORSIZE) * SECTORSIZE = n + Padding(n)
<1> DEFINE q == n \div SECTORSIZE
           r == n % SECTORSIZE
<1>1. /\ SECTORSIZE \in Nat \ {0} /\ q \in Nat /\ r \in 0 .. SECTORSIZE - 1
      /\ n = SECTORSIZE * q + r
  <2>1. SECTORSIZE \in Nat \ {0} /\ n \in Int
    BY DiskAssumption
  <2>2. q \in Int /\ r \in 0 .. SECTORSIZE - 1 /\ n = SECTORSIZE * q + r
    BY <2>1, Division
  <2>3. q \in Nat
    <3>1. SUFFICES ASSUME q <= -1 PROVE FALSE
      BY <2>2
    <3>2. SECTORSIZE * q <= -SECTORSIZE
      BY <2>1, <2>2, <3>1
    <3>. QED  BY <2>1, <2>2, <3>2
  <2>. QED  BY <2>1, <2>2, <2>3
<1>2. Padding(n) = IF r = 0 THEN 0 ELSE SECTORSIZE - r
  <2>1. SECTORSIZE - r \in 0 .. SECTORSIZE
    BY <1>1
  <2>2. (SECTORSIZE - r) % SECTORSIZE
          = IF SECTORSIZE - r = SECTORSIZE THEN 0 ELSE SECTORSIZE - r
    BY <2>1, Remainder
  <2> QED
    BY <1>1, <2>2 DEF Padding
<1>3. PICK k \in Nat : n + Padding(n) = SECTORSIZE * k
  <2>1. CASE r = 0
    <3>1. n + Padding(n) = SECTORSIZE * q
      BY <1>1, <1>2, <2>1
    <3> QED BY <1>1, <3>1
  <2>2. CASE r # 0
    <3>1. n + Padding(n) = SECTORSIZE * q + SECTORSIZE
      BY <1>1, <1>2, <2>2
    <3>2. SECTORSIZE * (q + 1) = SECTORSIZE * q + SECTORSIZE
      BY <1>1, Z3
    <3>3. q + 1 \in Nat
      BY <1>1
    <3> QED BY <3>1, <3>2, <3>3
  <2> QED BY <2>1, <2>2
<1>4. (n + Padding(n)) \div SECTORSIZE = k
  BY <1>3, Multiple
<1>5. k * SECTORSIZE = SECTORSIZE * k
  BY <1>1, Z3
<1>6. Padding(n) \in Nat
  BY <1>1, <1>2
<1> QED
  BY <1>3, <1>4, <1>5, <1>6

-----------------------------------------------------------------------------
(* What the disk lacks is in data, so the two together are as long as      *)
(* nsectors and, inside a file, pos say.                                   *)
TypeInv ==
  /\ argv \in Arguments /\ i \in Nat \ {0}
  /\ pos \in Nat /\ nsectors \in Nat
  /\ data \in Seq(Bytes) /\ disk \in Seq(Bytes)
  /\ mpc \in {"boot", "args", "read", "done", "failed"}
  /\ mpc = "read" => At("file") /\ ~Missing

CountInv ==
  /\ mpc = "boot" => data = <<>> /\ disk = <<>>
  /\ mpc = "args" => Len(disk) + Len(data) = nsectors * SECTORSIZE
  /\ mpc = "read" => Len(disk) + Len(data) = nsectors * SECTORSIZE + pos

IInv == TypeInv /\ CountInv

(* A run of zeros is as long as it should be. *)
LEMMA ZeroBytes ==
  ASSUME NEW n \in Nat
  PROVE  Zeros(n) \in Seq(Bytes) /\ Len(Zeros(n)) = n
<1>1. Zero \in Bytes
  BY DEF Bytes
<1>2. Zeros(n) = [k \in 1 .. n |-> Zero]
  BY DEF Zeros
<1>3. [k \in 1 .. n |-> Zero] \in Seq(Bytes)
  BY <1>1
<1>4. Len([k \in 1 .. n |-> Zero]) = n
  OBVIOUS
<1> QED BY <1>2, <1>3, <1>4

(* A file that exists is a sequence of bytes. *)
LEMMA FileBytes ==
  ASSUME At("file"), ~Missing
  PROVE  InFile \in Seq(Bytes)
BY FileAssumption DEF Missing, Files, InFile

(* A sector has bytes: room for the signature and for some code.           *)
LEMMA SectorNat == SECTORSIZE \in Nat /\ SECTORSIZE > 2
BY DiskAssumption

(* One sector more is SECTORSIZE bytes more. *)
LEMMA NextSector ==
  ASSUME NEW n \in Nat, NEW k \in Nat
  PROVE  /\ (n + 1) * SECTORSIZE = n * SECTORSIZE + SECTORSIZE
         /\ (n + k) * SECTORSIZE = n * SECTORSIZE + k * SECTORSIZE
         /\ n * SECTORSIZE \in Nat
BY SectorNat, Z3

(* Nothing has been written.                                               *)
LEMMA InitInv == Init => IInv
BY DEF Init, MkInit, IInv, TypeInv, CountInv

(* Writing moves bytes from data to the disk. *)
LEMMA WriteInv == IInv /\ Write => IInv'
<1> SUFFICES ASSUME IInv, Write PROVE IInv'
  OBVIOUS
<1> USE DEF IInv, TypeInv
<1>1. PICK w \in 1 .. Len(data) :
        /\ disk' = disk \o SubSeq(data, 1, w)
        /\ data' = SubSeq(data, w + 1, Len(data))
  BY DEF Write
<1>2. /\ SubSeq(data, 1, w) \in Seq(Bytes) /\ Len(SubSeq(data, 1, w)) = w
      /\ data' \in Seq(Bytes) /\ Len(data') = Len(data) - w
  BY <1>1
<1>3. disk' \in Seq(Bytes) /\ Len(disk') = Len(disk) + w
  BY <1>1, <1>2
<1>4. mpc # "boot"
  BY DEF CountInv, Write
<1>5. TypeInv'
  BY <1>2, <1>3 DEF Write, At, Missing
<1>6. Len(disk') + Len(data') = Len(disk) + Len(data)
  BY <1>2, <1>3
<1>7. CountInv'
  BY <1>4, <1>6 DEF Write, CountInv
<1> QED BY <1>5, <1>7

(* The boot sector is a sector: the code, zeros and the signature.         *)
LEMMA BootSectorInv == IInv /\ BootSector => IInv'
<1> SUFFICES ASSUME IInv, BootSector PROVE IInv'
  OBVIOUS
<1> USE DEF IInv, TypeInv
<1>1. InFile \in Seq(Bytes)
  BY FileBytes DEF BootSector
<1>2. PICK n \in 0 .. Least(SECTORSIZE - 2, Len(InFile)) :
        data' = SubSeq(InFile, 1, n) \o Zeros(SECTORSIZE - 2 - n)
                  \o <<Sig, Sig>>
  BY DEF BootSector
<1>3. n \in Nat /\ n <= Len(InFile) /\ SECTORSIZE - 2 - n \in Nat
  BY <1>1, <1>2, SectorNat DEF Least
<1>4. SubSeq(InFile, 1, n) \in Seq(Bytes) /\ Len(SubSeq(InFile, 1, n)) = n
  BY <1>1, <1>3
<1>5. /\ Zeros(SECTORSIZE - 2 - n) \in Seq(Bytes)
      /\ Len(Zeros(SECTORSIZE - 2 - n)) = SECTORSIZE - 2 - n
  BY <1>3, ZeroBytes
<1>6. <<Sig, Sig>> \in Seq(Bytes) /\ Len(<<Sig, Sig>>) = 2
  <2>1. Sig \in Bytes
    BY DEF Bytes
  <2> QED BY <2>1
<1>7. data' \in Seq(Bytes) /\ Len(data') = SECTORSIZE
  BY <1>2, <1>3, <1>4, <1>5, <1>6, SectorNat
<1>8. TypeInv'
  BY <1>7 DEF BootSector, At, Missing
<1>9. CountInv'
  BY <1>7, SectorNat DEF BootSector, CountInv, Ready
<1> QED BY <1>8, <1>9

(* A zero sector, to skip or to fill. *)
LEMMA SectorInv == IInv /\ (SkipSector \/ FillSector) => IInv'
<1> SUFFICES ASSUME IInv, SkipSector \/ FillSector PROVE IInv'
  OBVIOUS
<1> USE DEF IInv, TypeInv
<1>1. /\ mpc = "args" /\ data = <<>> /\ data' = Zeros(SECTORSIZE)
      /\ nsectors' = nsectors + 1 /\ UNCHANGED <<argv, i, mpc, pos, disk>>
  BY DEF SkipSector, FillSector, Ready
<1>2. data' \in Seq(Bytes) /\ Len(data') = SECTORSIZE
  BY <1>1, ZeroBytes, SectorNat
<1>3. (nsectors + 1) * SECTORSIZE = nsectors * SECTORSIZE + SECTORSIZE
  BY NextSector
<1>4. TypeInv'
  BY <1>1, <1>2 DEF At, Missing
<1>5. Len(disk) = nsectors * SECTORSIZE /\ Len(disk) \in Nat
  BY <1>1 DEF CountInv
<1>6. CountInv'
  BY <1>1, <1>2, <1>3, <1>5, SectorNat DEF CountInv
<1> QED BY <1>4, <1>6

(* A buffer is counted in pos when it has been read.                       *)
LEMMA ReadInv == IInv /\ Read => IInv'
<1> SUFFICES ASSUME IInv, Read PROVE IInv'
  OBVIOUS
<1> USE DEF IInv, TypeInv
<1>1. InFile \in Seq(Bytes)
  BY FileBytes DEF Read, Ready
<1>2. PICK n \in 1 .. Least(BUFSIZE, Len(InFile) - pos) :
        data' = SubSeq(InFile, pos + 1, pos + n) /\ pos' = pos + n
  BY DEF Read
<1>3. n \in Nat /\ n > 0 /\ pos + n <= Len(InFile)
  BY <1>1, <1>2, DiskAssumption DEF Least
<1>4. data' \in Seq(Bytes) /\ Len(data') = n
  BY <1>1, <1>2, <1>3
<1>5. TypeInv'
  BY <1>2, <1>3, <1>4 DEF Read, At, Missing
<1>6. Len(disk) = nsectors * SECTORSIZE + pos
  BY DEF CountInv, Read, Ready
<1>7. nsectors * SECTORSIZE \in Nat
  BY NextSector
<1>8. Len(disk) + Len(data') = nsectors * SECTORSIZE + pos'
  BY <1>2, <1>3, <1>4, <1>6, <1>7
<1>9. CountInv'
  BY <1>8 DEF Read, Ready, CountInv
<1> QED BY <1>5, <1>9

(* The padding completes the sectors that are added to the count. *)
LEMMA CloseInv == IInv /\ Close => IInv'
<1> SUFFICES ASSUME IInv, Close PROVE IInv'
  OBVIOUS
<1> USE DEF IInv, TypeInv
<1> DEFINE k == (pos + Padding(pos)) \div SECTORSIZE
<1>1. Padding(pos) \in Nat /\ k \in Nat /\ k * SECTORSIZE = pos + Padding(pos)
  BY WholeSectors
<1>2. data' \in Seq(Bytes) /\ Len(data') = Padding(pos)
  BY <1>1, ZeroBytes DEF Close
<1>3. nsectors' = nsectors + k
  BY DEF Close
<1>4. (nsectors + k) * SECTORSIZE = nsectors * SECTORSIZE + k * SECTORSIZE
  BY <1>1, NextSector
<1>5. Len(disk) = nsectors * SECTORSIZE + pos
  BY DEF CountInv, Close, Ready
<1>6. nsectors * SECTORSIZE \in Nat
  BY NextSector
<1>7. TypeInv'
  BY <1>1, <1>2, <1>3 DEF Close, At, Missing
<1> HIDE DEF k
<1>8. CountInv'
  BY <1>1, <1>2, <1>3, <1>4, <1>5, <1>6 DEF Close, CountInv
<1> QED BY <1>7, <1>8

(* The steps that write nothing. *)
LEMMA QuietInv ==
  IInv /\ (WriteError \/ Skipped \/ Open \/ Finish \/ BadArgument) => IInv'
<1> SUFFICES ASSUME IInv,
                    WriteError \/ Skipped \/ Open \/ Finish \/ BadArgument
             PROVE  IInv'
  OBVIOUS
<1> USE DEF IInv, TypeInv
<1>1. CASE WriteError \/ BadArgument
  BY <1>1 DEF WriteError, BadArgument, Usage, CountInv
<1>2. CASE Skipped
  BY <1>2 DEF Skipped, Ready, CountInv
<1>3. CASE Open
  <2>1. TypeInv'
    BY <1>3 DEF Open, At, Missing
  <2>2. /\ Len(disk) + Len(data) = nsectors * SECTORSIZE
        /\ nsectors * SECTORSIZE \in Nat
    BY <1>3, NextSector DEF Open, Ready, CountInv
  <2>3. CountInv'
    BY <1>3, <2>2 DEF Open, CountInv
  <2> QED BY <2>1, <2>3
<1>4. CASE Finish
  BY <1>4 DEF Finish, Ready, CountInv
<1> QED BY <1>1, <1>2, <1>3, <1>4

(* Every step of mkbootdisk keeps the invariant, and the loaders do not    *)
(* touch its variables.                                                    *)
LEMMA NextInv == IInv /\ [Next]_<<mkvars, ldvars>> => IInv'
<1> SUFFICES ASSUME IInv, [Next]_<<mkvars, ldvars>> PROVE IInv'
  OBVIOUS
<1>1. CASE MkNext
  BY <1>1, WriteInv, BootSectorInv, SectorInv, ReadInv, CloseInv, QuietInv
     DEF MkNext
<1>2. CASE UNCHANGED mkvars
  BY <1>2 DEF mkvars, IInv, TypeInv, CountInv, At, Missing
<1> QED
  BY <1>1, <1>2 DEF Next

(* mkbootdisk's count of sectors and bytes agrees with what it writes.     *)
THEOREM Invariance == Spec => []IInv
<1>1. Init => IInv
  BY InitInv
<1>2. IInv /\ [Next]_<<mkvars, ldvars>> => IInv'
  BY NextInv
<1> QED
  BY <1>1, <1>2, PTL DEF Spec

(* The sector count by which mkbootdisk skips and fills is always that of  *)
(* the disk: every file begins on a sector, at the place the arguments     *)
(* imply, however write() and fread() behave.                              *)
THEOREM SectorTheorem == Spec => []SectorCount
<1>1. IInv => SectorCount
  BY NextSector DEF IInv, TypeInv, CountInv, SectorCount, Ready
<1> QED
  BY <1>1, Invariance, PTL

-----------------------------------------------------------------------------
(* Runs of zeros follow each other; no zeros at all are <<>>.              *)
LEMMA ZerosFollow ==
  ASSUME NEW m \in Nat, NEW n \in Nat
  PROVE  Zeros(m) \o Zeros(n) = Zeros(m + n)
<1>. DEFINE z == Zeros(m) \o Zeros(n)
<1>1. /\ Zeros(m) \in Seq(Bytes) /\ Len(Zeros(m)) = m
      /\ Zeros(n) \in Seq(Bytes) /\ Len(Zeros(n)) = n
      /\ Zeros(m + n) \in Seq(Bytes) /\ Len(Zeros(m + n)) = m + n
  BY ZeroBytes
<1>2. z \in Seq(Bytes) /\ Len(z) = m + n
  BY <1>1
<1>3. ASSUME NEW k \in 1 .. m + n PROVE z[k] = Zeros(m + n)[k]
  <2>1. CASE k <= m
    BY <1>1, <2>1 DEF Zeros
  <2>2. CASE k > m
    BY <1>1, <2>2 DEF Zeros
  <2>3. k <= m \/ k > m
    OBVIOUS
  <2>. HIDE DEF z
  <2>. QED  BY <2>1, <2>2, <2>3
<1>. HIDE DEF z
<1>4. z = Zeros(m + n)
  BY <1>1, <1>2, <1>3, SeqEqual
<1>. QED  BY <1>4 DEF z

(* A negative number of zeros is none.                                     *)
LEMMA NoZeros == ASSUME NEW n \in Int, n <= 0 PROVE Zeros(n) = <<>>
<1>1. Zeros(n) = [k \in {} |-> Zero]
  BY DEF Zeros
<1>2. [k \in {} |-> Zero] \in Seq(Bytes) /\ Len([k \in {} |-> Zero]) = 0
  <2>1. [k \in {} |-> Zero] = [k \in 1 .. 0 |-> Zero]
    OBVIOUS
  <2>2. Zeros(0) = [k \in {} |-> Zero]
    BY <2>1 DEF Zeros
  <2>. QED  BY <2>2, ZeroBytes
<1>. QED  BY <1>1, <1>2, EmptySeq

(* An image of the right size is not filled up.                            *)
LEMMA NothingToFill ==
  \A s \in Seq(Bytes) : s \o Zeros(Len(s) - Len(s)) = s /\ s \o <<>> = s
<1>. SUFFICES ASSUME NEW s \in Seq(Bytes)
              PROVE  s \o Zeros(Len(s) - Len(s)) = s /\ s \o <<>> = s
  OBVIOUS
<1>1. Len(s) - Len(s) = 0
  OBVIOUS
<1>. QED  BY <1>1, NoZeros, ConcatEmptySeq

(* Appending one sequence after the other, in whichever order.             *)
LEMMA Associative ==
  \A s, t, u \in Seq(Bytes) : (s \o t) \o u = s \o (t \o u)
<1>. SUFFICES ASSUME NEW s \in Seq(Bytes), NEW t \in Seq(Bytes),
                     NEW u \in Seq(Bytes)
              PROVE  (s \o t) \o u = s \o (t \o u)
  OBVIOUS
<1>. DEFINE x == (s \o t) \o u
            y == s \o (t \o u)
            n == Len(s) + Len(t) + Len(u)
<1>1. /\ x \in Seq(Bytes) /\ y \in Seq(Bytes)
      /\ Len(x) = n /\ Len(y) = n
  OBVIOUS
<1>2. ASSUME NEW k \in 1 .. n PROVE x[k] = y[k]
  OBVIOUS
<1>. HIDE DEF x, y
<1>3. x = y
  BY <1>1, <1>2, SeqEqual
<1>. QED  BY <1>3 DEF x, y

(* What write() takes from the head of data has its place on the disk.     *)
LEMMA WriteMoves ==
  ASSUME NEW s \in Seq(Bytes), NEW t \in Seq(Bytes), NEW w \in 1 .. Len(t)
  PROVE  (s \o SubSeq(t, 1, w)) \o SubSeq(t, w + 1, Len(t)) = s \o t
<1>1. /\ SubSeq(t, 1, w) \in Seq(Bytes)
      /\ SubSeq(t, w + 1, Len(t)) \in Seq(Bytes)
  BY SubSeqProperties
<1>2. SubSeq(t, 1, w) \o SubSeq(t, w + 1, Len(t)) = t
  <2>1. /\ 1 \in 1 .. Len(t) + 1 /\ w \in 1 - 1 .. Len(t)
        /\ Len(t) \in w .. Len(t)
    OBVIOUS
  <2>2. SubSeq(t, 1, w) \o SubSeq(t, w + 1, Len(t)) = SubSeq(t, 1, Len(t))
    BY <2>1, ConcatAdjacentSubSeq
  <2>. QED  BY <2>2, SubSeqFull
<1>. DEFINE u == SubSeq(t, 1, w)
            v == SubSeq(t, w + 1, Len(t))
<1>3. (s \o u) \o v = s \o (u \o v)
  <2>. HIDE DEF u, v
  <2>. QED  BY <1>1, Associative DEF u, v
<1>. QED  BY <1>2, <1>3

-----------------------------------------------------------------------------
(* The image argument by argument: b[k] is what the boot sector and the    *)
(* first k arguments after it ask for.                                     *)
Absent(a) == "file" \in DOMAIN a /\ a.file \notin Files

BootImage(f) == Content[f] \o Zeros(SECTORSIZE - 2 - Len(Content[f]))
                  \o <<Sig, Sig>>

Chain(args, b, n) ==
  /\ b \in [0 .. n -> Seq(Bytes)]
  /\ "file" \in DOMAIN args[1] /\ ~Absent(args[1])
  /\ Len(Content[args[1].file]) <= SECTORSIZE - 2
  /\ b[0] = BootImage(args[1].file)
  /\ \A k \in 1 .. n : /\ ~Absent(args[k + 1])
                       /\ b[k] = AddArgument(b[k - 1], args[k + 1])

(* How much of it is on the disk, or on its way there: the arguments up to *)
(* i and the sectors skipped or filled since, or the part of a file that   *)
(* has been read.                                                          *)
Whereabouts(b) ==
  /\ mpc \in {"args", "done"} =>
       /\ disk \o data = b \o Zeros(nsectors * SECTORSIZE - Len(b))
       /\ Len(b) <= nsectors * SECTORSIZE
       /\ \/ Len(b) = nsectors * SECTORSIZE
          \/ At("skip")
          \/ i > Len(argv) /\ nsectors <= NSECTORS
  /\ mpc = "read" =>
       /\ disk \o data = b \o SubSeq(InFile, 1, pos)
       /\ Len(b) = nsectors * SECTORSIZE /\ pos <= Len(InFile)

Progress ==
  /\ mpc = "boot" => i = 1
  /\ mpc \in {"args", "read", "done"} =>
       i \in 2 .. Len(argv) + 1
       /\ (~lost => \E b : Chain(argv, b, i - 2) /\ Whereabouts(b[i - 2]))
  /\ mpc = "done" =>
       /\ data = <<>> /\ i > Len(argv) /\ nsectors >= NSECTORS
       /\ Len(disk) = nsectors * SECTORSIZE

(* Every argument is a file or a sector, and not both.                     *)
LEMMA ArgumentKinds ==
  ASSUME IInv
  PROVE  /\ Len(argv) \in Nat
         /\ \A k \in 1 .. Len(argv) :
              argv[k] \in [file : STRING] \cup [skip : Nat]
         /\ \A k \in 1 .. Len(argv) :
              /\ "file" \in DOMAIN argv[k] <=> argv[k] \in [file : STRING]
              /\ "skip" \in DOMAIN argv[k] <=> argv[k] \in [skip : Nat]
              /\ "file" \in DOMAIN argv[k] <=> "skip" \notin DOMAIN argv[k]
<1>1. argv \in Seq([file : STRING] \cup [skip : Nat])
  BY FileAssumption DEF IInv, TypeInv
<1>2. /\ Len(argv) \in Nat
      /\ \A k \in 1 .. Len(argv) :
           argv[k] \in [file : STRING] \cup [skip : Nat]
  BY <1>1
<1>3. ASSUME NEW a \in [file : STRING]
      PROVE  DOMAIN a = {"file"}
  OBVIOUS
<1>4. ASSUME NEW a \in [skip : Nat]
      PROVE  DOMAIN a = {"skip"}
  OBVIOUS
<1>. QED  BY <1>2, <1>3, <1>4

(* A longer chain is made of a chain and the next argument.                *)
LEMMA ChainGrows ==
  ASSUME NEW args, NEW n \in Nat, NEW b, Chain(args, b, n),
         ~Absent(args[n + 2]),
         AddArgument(b[n], args[n + 2]) \in Seq(Bytes)
  PROVE  \E c : /\ Chain(args, c, n + 1)
                /\ c[n + 1] = AddArgument(b[n], args[n + 2])
<1>. DEFINE next == AddArgument(b[n], args[n + 2])
            c == [k \in 0 .. n + 1 |-> IF k = n + 1 THEN next ELSE b[k]]
<1>1. c \in [0 .. n + 1 -> Seq(Bytes)]
  BY DEF Chain
<1>2. c[n + 1] = next /\ \A k \in 0 .. n : c[k] = b[k]
  OBVIOUS
<1>. HIDE DEF c
<1>3. c[0] = BootImage(args[1].file)
  BY <1>2 DEF Chain
<1>4. ASSUME NEW k \in 1 .. n + 1
      PROVE  ~Absent(args[k + 1]) /\ c[k] = AddArgument(c[k - 1], args[k + 1])
  <2>1. CASE k = n + 1
    <3>1. k - 1 = n /\ k + 1 = n + 2
      BY <2>1
    <3>. QED  BY <1>2, <2>1, <3>1
  <2>2. CASE k # n + 1
    <3>1. k \in 1 .. n /\ k - 1 \in 0 .. n /\ k \in 0 .. n
      BY <2>2
    <3>. QED  BY <1>2, <3>1 DEF Chain
  <2>. QED  BY <2>1, <2>2
<1>5. Chain(args, c, n + 1)
  BY <1>1, <1>3, <1>4 DEF Chain
<1>. QED  BY <1>2, <1>5

(* The boot file is the first argument.                                    *)
LEMMA InitProgress == Init => Progress
BY DEF Init, MkInit, Progress

ImageInv == IInv /\ Progress

(* Writing changes neither the argument nor the image.                     *)
LEMMA WriteProgress == ImageInv /\ Write => Progress'
<1>. SUFFICES ASSUME ImageInv, Write PROVE Progress'
  OBVIOUS
<1>. USE DEF ImageInv
<1>1. PICK w \in 1 .. Len(data) :
        /\ disk' = disk \o SubSeq(data, 1, w)
        /\ data' = SubSeq(data, w + 1, Len(data))
  BY DEF Write
<1>2. disk' \o data' = disk \o data
  BY <1>1, WriteMoves DEF IInv, TypeInv
<1>3. UNCHANGED <<argv, i, mpc, pos, lost, nsectors>> /\ mpc # "done"
  BY DEF Write, Progress
<1>4. \A b : Whereabouts(b)' <=> Whereabouts(b)
  BY <1>2, <1>3 DEF Whereabouts, At, InFile
<1>. QED  BY <1>3, <1>4 DEF Progress

(* The whole of the boot file is in the boot sector, or the file is lost.  *)
LEMMA BootSectorProgress == ImageInv /\ BootSector => Progress'
<1>. SUFFICES ASSUME ImageInv, BootSector PROVE Progress'
  OBVIOUS
<1>. USE DEF ImageInv
<1>1. /\ mpc = "boot" /\ data = <<>> /\ disk = <<>> /\ i = 1
      /\ At("file") /\ ~Missing /\ InFile \in Seq(Bytes)
      /\ InFile = Content[argv[1].file]
  <2>1. mpc = "boot" /\ data = <<>> /\ At("file") /\ ~Missing
    BY DEF BootSector, Ready
  <2>2. i = 1 /\ disk = <<>>
    BY <2>1 DEF Progress, IInv, CountInv
  <2>. QED  BY <2>1, <2>2, FileBytes DEF InFile
<1>2. /\ mpc' = "args" /\ nsectors' = 1 /\ i' = 2 /\ disk' = <<>>
      /\ argv' = argv
  BY <1>1 DEF BootSector
<1>3. 1 <= Len(argv) /\ "file" \in DOMAIN argv[1] /\ ~Absent(argv[1])
  BY <1>1 DEF At, Missing, Absent
<1>4. i' \in 2 .. Len(argv)' + 1
  BY <1>2, <1>3, ArgumentKinds
<1>5. ASSUME ~lost'
      PROVE  \E b : Chain(argv, b, 0) /\ Whereabouts(b[0])'
  <2>0. PICK image : image = BootImage(argv[1].file)
    OBVIOUS
  <2>. DEFINE b == [k \in 0 .. 0 |-> image]
  <2>1. PICK n \in 0 .. Least(SECTORSIZE - 2, Len(InFile)) :
          /\ data' = SubSeq(InFile, 1, n) \o Zeros(SECTORSIZE - 2 - n)
                       \o <<Sig, Sig>>
          /\ lost' = (n < Len(InFile))
    BY DEF BootSector
  <2>2. n = Len(InFile) /\ n <= SECTORSIZE - 2
    <3>1. ~(n < Len(InFile))
      BY <1>5, <2>1, Zenon
    <3>2. Len(InFile) \in Nat /\ n \in Int
      BY <1>1, SectorNat DEF Least
    <3>. QED  BY <3>1, <3>2, SectorNat DEF Least
  <2>3. data' = image
    BY <1>1, <2>0, <2>1, <2>2, SubSeqFull DEF BootImage
  <2>4. IInv'
    BY BootSectorInv
  <2>5. image \in Seq(Bytes) /\ Len(image) = 1 * SECTORSIZE
    <3>1. data' \in Seq(Bytes) /\ Len(disk') + Len(data') = 1 * SECTORSIZE
      BY <1>2, <2>4 DEF IInv, TypeInv, CountInv
    <3>. QED  BY <1>2, <2>3, <3>1
  <2>6. Chain(argv, b, 0)
    <3>1. b \in [0 .. 0 -> Seq(Bytes)] /\ b[0] = image
      BY <2>5
    <3>. HIDE DEF b
    <3>. QED  BY <1>1, <1>3, <2>0, <2>2, <3>1 DEF Chain
  <2>7. b[0] = image
    OBVIOUS
  <2>. HIDE DEF b
  <2>8. Whereabouts(image)'
    <3>1. 1 * SECTORSIZE - Len(image) = 0 /\ Zeros(0) = <<>>
      BY <2>5, SectorNat, NoZeros
    <3>2. image \o <<>> = image /\ <<>> \o image = image
      BY <2>5
    <3>3. disk' \o data' = image \o Zeros(1 * SECTORSIZE - Len(image))
      BY <1>2, <2>3, <3>1, <3>2
    <3>4. Len(image) <= 1 * SECTORSIZE
      BY <2>5, SectorNat
    <3>. QED  BY <1>2, <2>5, <3>3, <3>4 DEF Whereabouts
  <2>. QED  BY <2>6, <2>7, <2>8
<1>. QED  BY <1>2, <1>4, <1>5 DEF Progress

(* A zero sector extends the zeros that have been written.                 *)
LEMMA SectorProgress == ImageInv /\ (SkipSector \/ FillSector) => Progress'
<1>. SUFFICES ASSUME ImageInv, SkipSector \/ FillSector PROVE Progress'
  OBVIOUS
<1>. USE DEF ImageInv
<1>1. /\ mpc = "args" /\ data = <<>> /\ data' = Zeros(SECTORSIZE)
      /\ nsectors' = nsectors + 1
      /\ UNCHANGED <<argv, i, mpc, pos, lost, disk>>
      /\ At("skip") \/ (i > Len(argv) /\ nsectors < NSECTORS)
  BY DEF SkipSector, FillSector, Ready
<1>2. nsectors \in Nat /\ NSECTORS \in Nat /\ disk \in Seq(Bytes)
  BY DiskAssumption DEF IInv, TypeInv
<1>3. ASSUME NEW b, b \in Seq(Bytes), Whereabouts(b) PROVE Whereabouts(b)'
  <2>. DEFINE m == nsectors * SECTORSIZE
              n == (nsectors + 1) * SECTORSIZE
  <2>1. m \in Nat /\ n = m + SECTORSIZE
    BY <1>2, NextSector
  <2>2. /\ disk \o data = b \o Zeros(m - Len(b)) /\ Len(b) <= m
        /\ Len(b) \in Nat /\ m - Len(b) \in Nat
    BY <1>1, <1>3, <2>1 DEF Whereabouts
  <2>. HIDE DEF m, n
  <2>3. disk = b \o Zeros(m - Len(b))
    BY <1>1, <1>2, <2>2, ConcatEmptySeq
  <2>4. Zeros(m - Len(b)) \o Zeros(SECTORSIZE) = Zeros(n - Len(b))
    <3>1. (m - Len(b)) + SECTORSIZE = n - Len(b)
      BY <2>1, <2>2, SectorNat
    <3>. QED  BY <2>2, <3>1, SectorNat, ZerosFollow
  <2>5. /\ Zeros(m - Len(b)) \in Seq(Bytes)
        /\ Zeros(SECTORSIZE) \in Seq(Bytes)
    BY <2>2, SectorNat, ZeroBytes
  <2>6. disk' \o data' = b \o Zeros(n - Len(b))
    <3>1. disk' \o data' = (b \o Zeros(m - Len(b))) \o Zeros(SECTORSIZE)
      BY <1>1, <2>3
    <3>2. (b \o Zeros(m - Len(b))) \o Zeros(SECTORSIZE)
            = b \o (Zeros(m - Len(b)) \o Zeros(SECTORSIZE))
      BY <1>3, <2>5, Associative
    <3>. QED  BY <2>4, <3>1, <3>2
  <2>7. Len(b) <= n
    BY <2>1, <2>2, SectorNat
  <2>8. nsectors' * SECTORSIZE = n
    BY <1>1 DEF n
  <2>9. At("skip")' \/ (i' > Len(argv)' /\ nsectors' <= NSECTORS)
    BY <1>1, <1>2 DEF At
  <2>. QED  BY <1>1, <2>6, <2>7, <2>8, <2>9 DEF Whereabouts
<1>4. \A b : Chain(argv, b, i - 2) /\ i >= 2 => b[i - 2] \in Seq(Bytes)
  BY DEF Chain, IInv, TypeInv
<1>. QED  BY <1>1, <1>3, <1>4 DEF Progress

(* At the sector that was asked for, the argument has been dealt with.     *)
LEMMA SkippedProgress == ImageInv /\ Skipped => Progress'
<1>. SUFFICES ASSUME ImageInv, Skipped PROVE Progress'
  OBVIOUS
<1>. USE DEF ImageInv
<1>1. /\ mpc = "args" /\ data = <<>> /\ At("skip")
      /\ nsectors = argv[i].skip /\ i' = i + 1
      /\ UNCHANGED <<argv, mpc, pos, lost, nsectors, data, disk>>
  BY DEF Skipped, Ready
<1>2. i \in 2 .. Len(argv) /\ Len(argv) \in Nat /\ "skip" \in DOMAIN argv[i]
  BY <1>1, ArgumentKinds DEF At, Progress
<1>3. "file" \notin DOMAIN argv[i] /\ nsectors \in Nat
  BY <1>2, ArgumentKinds DEF IInv, TypeInv
<1>4. ASSUME ~lost
      PROVE  \E c, new : /\ Chain(argv, c, i - 1) /\ c[i - 1] = new
                         /\ Whereabouts(new)'
  <2>1. PICK b : Chain(argv, b, i - 2) /\ Whereabouts(b[i - 2])
    BY <1>1, <1>4 DEF Progress
  <2>2. PICK n \in Nat : n = i - 2
    BY <1>2
  <2>3. PICK old : old = b[n]
    OBVIOUS
  <2>4. PICK m \in Nat : m = nsectors * SECTORSIZE
    BY <1>3, NextSector
  <2>5. PICK k : k = m - Len(old)
    OBVIOUS
  <2>6. PICK new : new = AddArgument(old, argv[i])
    OBVIOUS
  <2>7. /\ n + 2 = i /\ n + 1 = i - 1 /\ Chain(argv, b, n)
        /\ old \in Seq(Bytes) /\ Whereabouts(old)
    BY <1>2, <2>1, <2>2, <2>3 DEF Chain
  <2>8. disk \o data = old \o Zeros(k) /\ k \in Nat
    <3>1. disk \o data = old \o Zeros(m - Len(old)) /\ Len(old) <= m
      BY <1>1, <2>4, <2>7, Zenon DEF Whereabouts
    <3>2. Len(old) \in Nat
      BY <2>7
    <3>. QED  BY <2>5, <3>1, <3>2
  <2>9. new = old \o Zeros(k)
    BY <1>1, <1>3, <2>4, <2>5, <2>6 DEF AddArgument
  <2>10. new \in Seq(Bytes) /\ Len(new) = m
    <3>1. Zeros(k) \in Seq(Bytes) /\ Len(Zeros(k)) = k
      BY <2>8, ZeroBytes
    <3>. QED  BY <2>5, <2>7, <2>9, <3>1
  <2>11. PICK c : Chain(argv, c, n + 1) /\ c[n + 1] = new
    <3>1. ~Absent(argv[n + 2]) /\ AddArgument(b[n], argv[n + 2]) = new
      BY <1>3, <2>3, <2>6, <2>7 DEF Absent
    <3>. QED  BY <2>7, <2>10, <3>1, ChainGrows
  <2>12. Whereabouts(new)'
    <3>1. nsectors' * SECTORSIZE = m
      BY <1>1, <2>4
    <3>2. new \o Zeros(m - Len(new)) = new
      BY <2>10, NothingToFill
    <3>3. disk' \o data' = new \o Zeros(m - Len(new))
      BY <1>1, <2>8, <2>9, <3>2
    <3>4. Len(new) <= m /\ mpc' # "read"
      BY <1>1, <2>10
    <3>. QED  BY <2>10, <3>1, <3>3, <3>4, Zenon DEF Whereabouts
  <2>. QED  BY <2>7, <2>11, <2>12
<1>5. i' \in 2 .. Len(argv)' + 1 /\ i' - 2 = i - 1
  BY <1>1, <1>2
<1>6. ~lost' => \E c : Chain(argv, c, i - 2)' /\ Whereabouts(c[i - 2])'
  BY <1>1, <1>4, <1>5
<1>. QED  BY <1>1, <1>5, <1>6 DEF Progress

(* A file begins where the disk ends. *)
LEMMA OpenProgress == ImageInv /\ Open => Progress'
<1>. SUFFICES ASSUME ImageInv, Open PROVE Progress'
  OBVIOUS
<1>. USE DEF ImageInv
<1>1. /\ mpc = "args" /\ data = <<>> /\ At("file") /\ ~Missing
      /\ mpc' = "read" /\ pos' = 0
      /\ UNCHANGED <<argv, i, lost, nsectors, data, disk>>
  BY DEF Open, Ready
<1>2. i \in 2 .. Len(argv) + 1 /\ i <= Len(argv) /\ InFile \in Seq(Bytes)
  BY <1>1, FileBytes DEF At, Progress
<1>3. ~At("skip")
  BY <1>1, <1>2, ArgumentKinds DEF At
<1>4. ASSUME NEW b, b \in Seq(Bytes), Whereabouts(b) PROVE Whereabouts(b)'
  <2>1. PICK m \in Nat : m = nsectors * SECTORSIZE
    BY NextSector DEF IInv, TypeInv
  <2>2. /\ disk \o data = b \o Zeros(m - Len(b))
        /\ Len(b) = m \/ At("skip") \/ i > Len(argv)
    BY <1>1, <1>4, <2>1, Zenon DEF Whereabouts
  <2>3. Len(b) = m
    BY <1>2, <1>3, <2>2, ArgumentKinds
  <2>4. disk \o data = b
    BY <1>4, <2>2, <2>3, NothingToFill
  <2>5. b \o SubSeq(InFile, 1, 0) = b
    <3>1. SubSeq(InFile, 1, 0) = <<>>
      BY <1>2
    <3>. QED  BY <1>4, <3>1, NothingToFill
  <2>6. InFile' = InFile
    BY <1>1 DEF InFile
  <2>7. 0 <= Len(InFile) /\ nsectors' * SECTORSIZE = m
    BY <1>1, <1>2, <2>1
  <2>. QED  BY <1>1, <2>3, <2>4, <2>5, <2>6, <2>7 DEF Whereabouts
<1>5. \A b : Chain(argv, b, i - 2) => b[i - 2] \in Seq(Bytes)
  BY <1>2 DEF Chain, IInv, TypeInv
<1>. QED  BY <1>1, <1>2, <1>4, <1>5 DEF Progress

(* The next buffer continues the file. *)
LEMMA ReadProgress == ImageInv /\ Read => Progress'
<1>. SUFFICES ASSUME ImageInv, Read PROVE Progress'
  OBVIOUS
<1>. USE DEF ImageInv
<1>1. /\ mpc = "read" /\ data = <<>> /\ disk \in Seq(Bytes) /\ pos \in Nat
      /\ InFile \in Seq(Bytes)
      /\ UNCHANGED <<argv, i, mpc, lost, nsectors, disk>>
  BY FileBytes DEF Read, Ready, IInv, TypeInv
<1>2. PICK n \in 1 .. Least(BUFSIZE, Len(InFile) - pos) :
        data' = SubSeq(InFile, pos + 1, pos + n) /\ pos' = pos + n
  BY DEF Read
<1>3. n \in Nat /\ pos + n <= Len(InFile)
  BY <1>1, <1>2, DiskAssumption DEF Least
<1>4. InFile' = InFile
  BY <1>1 DEF InFile
<1>5. PICK file \in Seq(Bytes) : file = InFile
  BY <1>1
<1>6. ASSUME NEW b, b \in Seq(Bytes), Whereabouts(b) PROVE Whereabouts(b)'
  <2>1. PICK m : m = nsectors * SECTORSIZE
    OBVIOUS
  <2>2. disk \o data = b \o SubSeq(file, 1, pos) /\ Len(b) = m
    BY <1>1, <1>5, <1>6, <2>1 DEF Whereabouts
  <2>3. disk = b \o SubSeq(file, 1, pos)
    BY <1>1, <2>2, NothingToFill
  <2>4. SubSeq(file, 1, pos) \o SubSeq(file, pos + 1, pos + n)
          = SubSeq(file, 1, pos + n)
    <3>1. /\ 1 \in 1 .. Len(file) + 1 /\ pos \in 1 - 1 .. Len(file)
          /\ pos + n \in pos .. Len(file)
      BY <1>1, <1>3, <1>5
    <3>. QED  BY <3>1, ConcatAdjacentSubSeq
  <2>5. /\ SubSeq(file, 1, pos) \in Seq(Bytes)
        /\ SubSeq(file, pos + 1, pos + n) \in Seq(Bytes)
    BY <1>1, <1>3, <1>5
  <2>6. disk \o SubSeq(file, pos + 1, pos + n) = b \o SubSeq(file, 1, pos + n)
    <3>1. \A u, v \in Seq(Bytes) : (b \o u) \o v = b \o (u \o v)
      BY <1>6, Associative
    <3>2. (b \o SubSeq(file, 1, pos)) \o SubSeq(file, pos + 1, pos + n)
            = b \o (SubSeq(file, 1, pos) \o SubSeq(file, pos + 1, pos + n))
      BY <2>5, <3>1, Zenon
    <3>. QED  BY <2>3, <2>4, <3>2, Zenon
  <2>7. disk' \o data' = b \o SubSeq(InFile', 1, pos')
    BY <1>1, <1>2, <1>4, <1>5, <2>6
  <2>. QED  BY <1>1, <1>2, <1>3, <1>4, <2>1, <2>2, <2>7 DEF Whereabouts
<1>7. \A b : Chain(argv, b, i - 2) /\ i >= 2 => b[i - 2] \in Seq(Bytes)
  BY DEF Chain, IInv, TypeInv
<1>. QED  BY <1>1, <1>6, <1>7 DEF Progress

(* When it ends where the file ends, the file and its padding have been    *)
(* added; otherwise it is lost.                                            *)
LEMMA CloseProgress == ImageInv /\ Close => Progress'
<1>. SUFFICES ASSUME ImageInv, Close PROVE Progress'
  OBVIOUS
<1>. USE DEF ImageInv
<1>1. /\ mpc = "read" /\ data = <<>> /\ disk \in Seq(Bytes) /\ pos \in Nat
      /\ InFile \in Seq(Bytes) /\ InFile = Content[argv[i].file]
      /\ At("file") /\ ~Missing
      /\ data' = Zeros(Padding(pos)) /\ i' = i + 1 /\ mpc' = "args"
      /\ UNCHANGED <<argv, pos, disk>>
  BY FileBytes DEF Close, Ready, IInv, TypeInv, InFile
<1>2. i \in 2 .. Len(argv) /\ "file" \in DOMAIN argv[i] /\ ~Absent(argv[i])
  BY <1>1, ArgumentKinds DEF At, Progress, Missing, Absent
<1>3. PICK file \in Seq(Bytes) : file = InFile
  BY <1>1
<1>4. ASSUME ~lost'
      PROVE  \E c, new : /\ Chain(argv, c, i - 1) /\ c[i - 1] = new
                         /\ Whereabouts(new)'
  <2>1. ~lost /\ ~(pos < Len(file))
    BY <1>3, <1>4, Zenon DEF Close
  <2>2. PICK b : Chain(argv, b, i - 2) /\ Whereabouts(b[i - 2])
    BY <1>1, <2>1 DEF Progress
  <2>3. PICK n \in Nat : n = i - 2
    BY <1>2
  <2>4. PICK old : old = b[n]
    OBVIOUS
  <2>5. PICK new : new = AddArgument(old, argv[i])
    OBVIOUS
  <2>6. /\ n + 2 = i /\ n + 1 = i - 1 /\ Chain(argv, b, n)
        /\ old \in Seq(Bytes) /\ Whereabouts(old)
    BY <1>2, <2>2, <2>3, <2>4 DEF Chain
  <2>7. disk \o data = old \o SubSeq(file, 1, pos) /\ pos <= Len(file)
    BY <1>1, <1>3, <2>6 DEF Whereabouts
  <2>8. pos = Len(file) /\ SubSeq(file, 1, pos) = file
    BY <1>1, <2>1, <2>7, SubSeqFull
  <2>9. disk = old \o file
    BY <1>1, <2>7, <2>8, NothingToFill
  <2>10. new = (old \o file) \o Zeros(Padding(pos))
    BY <1>1, <1>2, <1>3, <2>5, <2>8 DEF AddArgument
  <2>11. disk' \o data' = new
    BY <1>1, <2>9, <2>10
  <2>12. new \in Seq(Bytes) /\ Len(new) = nsectors' * SECTORSIZE
    <3>1. IInv'
      BY CloseInv
    <3>2. /\ data' \in Seq(Bytes) /\ disk' \in Seq(Bytes)
          /\ Len(disk') + Len(data') = nsectors' * SECTORSIZE
      BY <1>1, <3>1 DEF IInv, TypeInv, CountInv
    <3>3. /\ disk' \o data' \in Seq(Bytes)
          /\ Len(disk' \o data') = Len(disk') + Len(data')
      BY <3>2, ConcatProperties
    <3>. QED  BY <2>11, <3>2, <3>3
  <2>13. PICK c : Chain(argv, c, n + 1) /\ c[n + 1] = new
    <3>1. ~Absent(argv[n + 2]) /\ AddArgument(b[n], argv[n + 2]) = new
      BY <1>2, <2>4, <2>5, <2>6
    <3>. QED  BY <2>6, <2>12, <3>1, ChainGrows
  <2>14. Whereabouts(new)'
    <3>1. PICK m : m = nsectors' * SECTORSIZE
      OBVIOUS
    <3>2. Len(new) = m /\ new \o Zeros(m - Len(new)) = new
      BY <2>12, <3>1, NothingToFill
    <3>3. Len(new) <= m /\ mpc' # "read"
      BY <1>1, <2>12, <3>2
    <3>. QED  BY <2>11, <3>1, <3>2, <3>3, Zenon DEF Whereabouts
  <2>. QED  BY <2>6, <2>13, <2>14
<1>5. i' \in 2 .. Len(argv)' + 1 /\ i' - 2 = i - 1
  BY <1>1, <1>2, ArgumentKinds
<1>6. ~lost' => \E c : Chain(argv, c, i - 2)' /\ Whereabouts(c[i - 2])'
  BY <1>1, <1>4, <1>5
<1>. QED  BY <1>1, <1>5, <1>6 DEF Progress

(* The end is reached with as many sectors as there are to be, or more.    *)
LEMMA FinishProgress == ImageInv /\ Finish => Progress'
<1>. SUFFICES ASSUME ImageInv, Finish PROVE Progress'
  OBVIOUS
<1>. USE DEF ImageInv
<1>1. /\ mpc = "args" /\ mpc' = "done" /\ data = <<>>
      /\ i > Len(argv) /\ nsectors >= NSECTORS
      /\ UNCHANGED <<argv, i, pos, lost, nsectors, data, disk>>
  BY DEF Finish, Ready
<1>2. \A b : Whereabouts(b) => Whereabouts(b)'
  BY <1>1 DEF Whereabouts, At
<1>3. Len(disk) = nsectors * SECTORSIZE
  BY <1>1, NextSector DEF IInv, TypeInv, CountInv
<1>. QED  BY <1>1, <1>2, <1>3 DEF Progress

(* So every step of mkbootdisk adds what its argument asks for.            *)
LEMMA NextProgress == ImageInv /\ [Next]_<<mkvars, ldvars>> => Progress'
<1>. SUFFICES ASSUME ImageInv, [Next]_<<mkvars, ldvars>> PROVE Progress'
  OBVIOUS
<1>1. CASE WriteError \/ BadArgument
  BY <1>1 DEF WriteError, BadArgument, Usage, Progress
<1>2. CASE UNCHANGED mkvars
  <2>1. \A b : Whereabouts(b) => Whereabouts(b)'
    BY <1>2 DEF mkvars, Whereabouts, At, InFile
  <2>. QED  BY <1>2, <2>1 DEF mkvars, ImageInv, Progress
<1>3. CASE MkNext /\ ~(WriteError \/ BadArgument)
  BY <1>3, WriteProgress, BootSectorProgress, SectorProgress,
     SkippedProgress, OpenProgress, ReadProgress, CloseProgress,
     FinishProgress DEF MkNext
<1>. QED  BY <1>1, <1>2, <1>3 DEF Next

(* At every moment the disk, with what is being written, is a prefix of    *)
(* the image that the arguments ask for, unless a file was cut short.      *)
THEOREM ProgressTheorem == Spec => []ImageInv
<1>1. Init => ImageInv
  BY InitInv, InitProgress DEF ImageInv
<1>2. ImageInv /\ [Next]_<<mkvars, ldvars>> => ImageInv'
  BY NextInv, NextProgress DEF ImageInv
<1>. QED  BY <1>1, <1>2, PTL DEF Spec

-----------------------------------------------------------------------------
(* Image(argv) adds the arguments by a fold, which takes them one by one   *)
(* from a function on sets of indices.                                     *)
Folded(s, base, it) ==
  it = [S \in SUBSET DOMAIN s |->
          IF S = {} THEN base
          ELSE AddArgument(it[S \ {Max(S)}], s[Max(S)])]

(* The fold, as the library defines it.                                    *)
LEMMA FoldIs ==
  \A s, base : FoldLeft(AddArgument, base, s)
                = (CHOOSE it : Folded(s, base, it))[DOMAIN s]
BY DEF FoldLeft, MapThenFoldSet, Folded

(* The largest number of an interval is its end.                           *)
LEMMA MaxIs == \A n \in Nat \ {0} : Max(1 .. n) = n
BY DEF Max

(* A set of numbers up to n has a largest one. *)
LEMMA LargestExists ==
  ASSUME NEW n \in Nat, NEW S \in SUBSET (1 .. n), S # {}
  PROVE  Max(S) \in S
<1>. DEFINE T == {m \in Nat : \A R \in SUBSET (1 .. m) :
                      R # {} => \E x \in R : \A y \in R : x >= y}
<1>1. 0 \in T
  <2>1. \A R \in SUBSET (1 .. 0) : R = {}
    OBVIOUS
  <2>. QED  BY <2>1
<1>2. ASSUME NEW m \in Nat, m \in T PROVE m + 1 \in T
  <2>1. ASSUME NEW R \in SUBSET (1 .. m + 1), R # {}
        PROVE  \E x \in R : \A y \in R : x >= y
    <3>1. CASE m + 1 \in R
      BY <3>1
    <3>2. CASE m + 1 \notin R
      <4>1. R \in SUBSET (1 .. m)
        BY <3>2
      <4>. QED  BY <1>2, <2>1, <4>1
    <3>. QED  BY <3>1, <3>2
  <2>. QED  BY <2>1
<1>3. n \in T
  <2>. HIDE DEF T
  <2>. QED  BY <1>1, <1>2, SetInduction
<1>4. \E x \in S : \A y \in S : x >= y
  BY <1>3
<1>. QED  BY <1>4 DEF Max

(* An argument that exists adds bytes. *)
LEMMA ArgumentAdds ==
  ASSUME NEW image \in Seq(Bytes),
         NEW a \in [file : STRING] \cup [skip : Nat], ~Absent(a)
  PROVE  AddArgument(image, a) \in Seq(Bytes)
<1>1. ASSUME NEW n \in Int PROVE Zeros(n) \in Seq(Bytes)
  BY ZeroBytes, NoZeros
<1>2. CASE "file" \in DOMAIN a
  <2>1. Content[a.file] \in Seq(Bytes)
    BY <1>2, FileAssumption DEF Absent, Files
  <2>2. Padding(Len(Content[a.file])) \in Nat
    <3>1. Len(Content[a.file]) \in Nat
      BY <2>1
    <3>. QED  BY <3>1, WholeSectors
  <2>. QED  BY <1>1, <1>2, <2>1, <2>2 DEF AddArgument
<1>3. CASE "file" \notin DOMAIN a
  <2>1. a \in [skip : Nat]
    BY <1>3
  <2>2. a.skip * SECTORSIZE - Len(image) \in Int
    <3>1. a.skip \in Nat
      BY <2>1
    <3>2. a.skip * SECTORSIZE \in Nat
      BY <3>1, NextSector
    <3>. QED  BY <3>2
  <2>. QED  BY <1>1, <1>3, <2>2 DEF AddArgument
<1>. QED  BY <1>2, <1>3

(* The fold of the arguments after the boot file is the end of the chain.  *)
LEMMA FoldOfChain ==
  ASSUME NEW args \in Seq([file : STRING] \cup [skip : Nat]),
         NEW n \in Nat, Len(args) = n + 1,
         NEW b, Chain(args, b, n)
  PROVE  FoldLeft(AddArgument, b[0], Tail(args)) = b[n]
<1>. DEFINE t == Tail(args)
            V == Seq(Bytes)
<1>1. DOMAIN t = 1 .. n /\ \A k \in 1 .. n : t[k] = args[k + 1]
  OBVIOUS
<1>2. /\ b[0] \in V /\ \A k \in 0 .. n : b[k] \in V
      /\ \A k \in 1 .. n : b[k] = AddArgument(b[k - 1], t[k])
  BY <1>1 DEF Chain
<1>3. ASSUME NEW k \in 1 .. n, NEW v \in V PROVE AddArgument(v, t[k]) \in V
  <2>1. args[k + 1] \in [file : STRING] \cup [skip : Nat]
    OBVIOUS
  <2>. QED  BY <1>1, <2>1, ArgumentAdds DEF Chain
<1>. HIDE DEF t, V
<1>4. \E it : Folded(t, b[0], it)
  <2>. DEFINE pick == [S \in SUBSET (1 .. n) |-> Max(S)]
              step == [S \in SUBSET (1 .. n) |->
                         [v \in V |-> AddArgument(v, t[Max(S)])]]
              base == b[0]
  <2>1. Picks(1 .. n, pick)
    BY LargestExists DEF Picks
  <2>2. ASSUME NEW S \in SUBSET (1 .. n), NEW v \in V, S # {}
        PROVE  /\ step[S][v] = AddArgument(v, t[Max(S)])
               /\ step[S][v] \in V
    <3>1. Max(S) \in 1 .. n
      BY <2>2, LargestExists
    <3>. QED  BY <1>3, <3>1
  <2>3. IsFiniteSet(1 .. n) /\ base \in V
    BY <1>2, FS_Interval
  <2>4. \A S \in SUBSET (1 .. n) : pick[S] = Max(S)
    OBVIOUS
  <2>. HIDE DEF pick, step, base
  <2>5. StepsIn(1 .. n, V, step)
    BY <2>2 DEF StepsIn
  <2>6. PICK it \in [SUBSET (1 .. n) -> V] :
          Recurs(it, 1 .. n, base, pick, step)
    BY <2>1, <2>3, <2>5, SubsetRecursion
  <2>7. ASSUME NEW S \in SUBSET (1 .. n)
        PROVE  it[S] = IF S = {} THEN base
                       ELSE AddArgument(it[S \ {Max(S)}], t[Max(S)])
    <3>1. it[S \ {Max(S)}] \in V
      OBVIOUS
    <3>. QED  BY <2>2, <2>4, <2>6, <3>1 DEF Recurs
  <2>. QED  BY <1>1, <2>7 DEF Folded, base
<1>5. ASSUME NEW it, Folded(t, b[0], it) PROVE it[1 .. n] = b[n]
  <2>. DEFINE T == {k \in 0 .. n : it[1 .. k] = b[k]}
  <2>1. ASSUME NEW S \in SUBSET (1 .. n)
        PROVE  it[S] = IF S = {} THEN b[0]
                       ELSE AddArgument(it[S \ {Max(S)}], t[Max(S)])
    BY <1>1, <1>5 DEF Folded
  <2>2. 0 \in T
    <3>1. 1 .. 0 = {} /\ {} \in SUBSET (1 .. n)
      OBVIOUS
    <3>2. it[{}] = b[0]
      BY <2>1
    <3>. QED  BY <3>1, <3>2
  <2>3. ASSUME NEW k \in 0 .. n - 1, k \in T PROVE k + 1 \in T
    <3>1. /\ 1 .. k + 1 \in SUBSET (1 .. n) /\ 1 .. k + 1 # {}
          /\ Max(1 .. k + 1) = k + 1 /\ (1 .. k + 1) \ {k + 1} = 1 .. k
      <4>1. k + 1 \in Nat \ {0} /\ k + 1 <= n
        OBVIOUS
      <4>2. Max(1 .. k + 1) = k + 1
        BY <4>1, MaxIs
      <4>3. 1 .. k + 1 \in SUBSET (1 .. n)
        BY <4>1
      <4>4. k + 1 \in 1 .. k + 1
        BY <4>1
      <4>5. (1 .. k + 1) \ {k + 1} = 1 .. k
        BY <4>1
      <4>. QED  BY <4>2, <4>3, <4>4, <4>5
    <3>2. it[1 .. k + 1] = AddArgument(it[1 .. k], t[k + 1])
      BY <2>1, <3>1
    <3>3. k + 1 \in 1 .. n /\ (k + 1) - 1 = k
      OBVIOUS
    <3>. QED  BY <1>2, <2>3, <3>2, <3>3
  <2>4. n \in T
    <3>1. 0 .. n \subseteq T
      <4>. HIDE DEF T
      <4>1. 0 \in Int /\ n \in Int
        OBVIOUS
      <4>. QED  BY <2>2, <2>3, <4>1, IntervalInduction
    <3>. QED  BY <3>1
  <2>. QED  BY <2>4
<1>6. \A S : (\E it : Folded(t, b[0], it))
             => Folded(t, b[0], CHOOSE it : Folded(t, b[0], it))
  OBVIOUS
<1>. QED  BY <1>1, <1>4, <1>5, <1>6, FoldIs DEF t

(* When mkbootdisk exits with success, the disk holds the image that its   *)
(* arguments ask for, unless a file was closed before its end, however     *)
(* write() cuts up what it is given.                                       *)
THEOREM ImageTheorem == Spec => []ImageLayout
<1>1. ASSUME ImageInv, mpc = "done", ~lost PROVE disk = Image(argv)
  <2>1. /\ data = <<>> /\ disk \in Seq(Bytes) /\ i = Len(argv) + 1
        /\ Len(argv) \in Nat /\ i >= 2 /\ nsectors >= NSECTORS
        /\ nsectors \in Nat /\ NSECTORS \in Nat
    BY <1>1, ArgumentKinds, DiskAssumption
       DEF ImageInv, Progress, IInv, TypeInv
  <2>2. PICK b : Chain(argv, b, i - 2) /\ Whereabouts(b[i - 2])
    BY <1>1 DEF ImageInv, Progress
  <2>3. PICK n \in Nat : n = i - 2
    <3>1. i - 2 \in Nat
      BY <2>1
    <3>. QED  BY <3>1
  <2>4. PICK body : body = b[n]
    OBVIOUS
  <2>5. /\ Chain(argv, b, n) /\ Whereabouts(body) /\ body \in Seq(Bytes)
        /\ Len(argv) = n + 1
    BY <2>1, <2>2, <2>3, <2>4 DEF Chain
  <2>6. FoldLeft(AddArgument, b[0], Tail(argv)) = body
    <3>1. argv \in Seq([file : STRING] \cup [skip : Nat])
      BY <1>1, FileAssumption DEF ImageInv, IInv, TypeInv
    <3>. QED  BY <2>4, <2>5, <3>1, FoldOfChain
  <2>7. Image(argv) = body \o Zeros(NSECTORS * SECTORSIZE - Len(body))
    BY <2>5, <2>6 DEF Image, Chain, BootImage
  <2>8. PICK m \in Nat : m = nsectors * SECTORSIZE
    BY <2>1, NextSector
  <2>9. PICK full \in Nat : full = NSECTORS * SECTORSIZE
    BY <2>1, NextSector
  <2>10. /\ disk \o data = body \o Zeros(m - Len(body)) /\ Len(body) <= m
         /\ Len(body) = m \/ At("skip") \/ nsectors <= NSECTORS
    BY <1>1, <2>5, <2>8, Zenon DEF Whereabouts
  <2>11. ~At("skip")
    BY <2>1 DEF At
  <2>12. disk = body \o Zeros(m - Len(body))
    BY <2>1, <2>10, NothingToFill
  <2>13. CASE nsectors = NSECTORS
    BY <2>7, <2>8, <2>12, <2>13
  <2>14. CASE nsectors > NSECTORS
    <3>1. Len(body) = m
      BY <2>1, <2>10, <2>11, <2>14
    <3>2. full <= m
      BY <2>1, <2>8, <2>9, <2>14, SectorNat, Z3
    <3>3. Zeros(m - Len(body)) = <<>> /\ Zeros(full - Len(body)) = <<>>
      BY <3>1, <3>2, NoZeros
    <3>. QED  BY <2>7, <2>9, <2>12, <3>3
  <2>. QED  BY <2>1, <2>13, <2>14
<1>2. ImageInv => ImageLayout
  BY <1>1 DEF ImageLayout
<1>. QED  BY <1>2, ProgressTheorem, PTL

-----------------------------------------------------------------------------
(* Which file the disk has behind the boot sector *)

Named(f) ==
  \E k \in DOMAIN argv : "file" \in DOMAIN argv[k] /\ argv[k].file = f

Behind(f, s, n) ==
  n + Len(Content[f]) <= Len(s)
  /\ \A k \in 1 .. Len(Content[f]) : s[n + k] = Content[f][k]

Starts(f, s) ==
  /\ Len(s) >= SECTORSIZE
  /\ Len(s) > SECTORSIZE /\ s[SECTORSIZE + 1] = <<f, 0>> =>
       Named(f) /\ Behind(f, s, SECTORSIZE)

(* An ELF file begins with its header, and is none of the special bytes.   *)
LEMMA ElfBytes ==
  ASSUME NEW f \in DOMAIN Elf
  PROVE  /\ f \in Files /\ Content[f] \in Seq(Bytes) /\ Content[f] # <<>>
         /\ Content[f][1] = <<f, 0>>
         /\ \A n \in Nat : <<f, n>> # Zero /\ <<f, n>> # Sig
                           /\ <<f, n>> # <<"junk", 0>> /\ <<f, n>> # NoSector
<1>1. f \in Files /\ f \notin {"zero", "sig", "junk", "nosector"} /\ ElfFile(f)
  BY ElfAssumption
<1>2. Content[f] \in Seq(Bytes)
  BY <1>1, FileAssumption DEF Files
<1>3. Len(Elf[f].ph) \in Nat /\ Len(Elf[f].ph) < Len(Content[f])
  BY <1>1 DEF ElfFile
<1>4. Content[f][0 + 1] = <<f, 0>>
  BY <1>1, <1>3 DEF ElfFile
<1>. QED  BY <1>1, <1>2, <1>3, <1>4 DEF Zero, Sig, NoSector

(* What is appended does not change what is there; if it is the first      *)
(* behind the boot sector, it is the file.                                 *)
LEMMA StartsAppend ==
  ASSUME NEW f \in DOMAIN Elf, NEW s \in Seq(Bytes), NEW t \in Seq(Bytes),
         Starts(f, s),
         t # <<>> /\ t[1] = <<f, 0>> => Named(f) /\ Behind(f, t, 0)
  PROVE  Starts(f, s \o t)
<1>. DEFINE u == s \o t
<1>1. /\ u \in Seq(Bytes) /\ Len(u) = Len(s) + Len(t)
      /\ \A k \in 1 .. Len(s) : u[k] = s[k]
      /\ \A k \in 1 .. Len(t) : u[Len(s) + k] = t[k]
  OBVIOUS
<1>2. Len(s) \in Nat /\ Len(t) \in Nat /\ Len(s) >= SECTORSIZE
      /\ SECTORSIZE \in Nat /\ Len(Content[f]) \in Nat
  BY SectorNat, ElfBytes DEF Starts
<1>. HIDE DEF u
<1>. SUFFICES ASSUME Len(u) > SECTORSIZE, u[SECTORSIZE + 1] = <<f, 0>>
              PROVE  Named(f) /\ Behind(f, u, SECTORSIZE)
  BY <1>1, <1>2 DEF Starts, u
<1>3. CASE Len(s) > SECTORSIZE
  <2>1. s[SECTORSIZE + 1] = <<f, 0>>
    BY <1>1, <1>2, <1>3
  <2>2. Named(f) /\ Behind(f, s, SECTORSIZE)
    BY <1>3, <2>1 DEF Starts
  <2>3. /\ SECTORSIZE + Len(Content[f]) <= Len(s)
        /\ \A k \in 1 .. Len(Content[f]) :
             s[SECTORSIZE + k] = Content[f][k]
    BY <2>2 DEF Behind
  <2>4. \A k \in 1 .. Len(Content[f]) : SECTORSIZE + k \in 1 .. Len(s)
    BY <1>2, <2>3
  <2>5. \A k \in 1 .. Len(Content[f]) : u[SECTORSIZE + k] = Content[f][k]
    BY <1>1, <2>3, <2>4
  <2>6. SECTORSIZE + Len(Content[f]) <= Len(u)
    BY <1>1, <1>2, <2>3
  <2>. QED  BY <2>2, <2>5, <2>6 DEF Behind
<1>4. CASE Len(s) = SECTORSIZE
  <2>1. Len(t) > 0 /\ t # <<>>
    BY <1>1, <1>2, <1>4
  <2>2. t[1] = <<f, 0>>
    BY <1>1, <1>2, <1>4, <2>1
  <2>3. Named(f) /\ Behind(f, t, 0)
    BY <2>1, <2>2
  <2>. QED  BY <1>1, <1>2, <1>4, <2>3 DEF Behind
<1>. QED  BY <1>2, <1>3, <1>4

(* Zeros do not begin like an ELF file.                                    *)
LEMMA ZerosAreNoFile ==
  ASSUME NEW f \in DOMAIN Elf, NEW n \in Int
  PROVE  Zeros(n) # <<>> => Zeros(n)[1] # <<f, 0>>
<1>1. CASE n <= 0
  BY <1>1, NoZeros
<1>2. CASE n > 0
  <2>1. Zeros(n) = [k \in 1 .. n |-> Zero] /\ 1 \in 1 .. n
    BY <1>2 DEF Zeros
  <2>2. Zeros(n)[1] = Zero
    BY <2>1
  <2>3. <<f, 0>> # Zero
    BY ElfBytes
  <2>. QED  BY <2>2, <2>3
<1>. QED  BY <1>1, <1>2

(* An argument that comes first behind the boot sector is the file there.  *)
LEMMA StartsArgument ==
  ASSUME NEW f \in DOMAIN Elf, NEW image \in Seq(Bytes), Starts(f, image),
         ImageInv, NEW k \in DOMAIN argv, ~Absent(argv[k])
  PROVE  Starts(f, AddArgument(image, argv[k]))
<1>0. ASSUME NEW n \in Int PROVE Zeros(n) \in Seq(Bytes)
  BY ZeroBytes, NoZeros
<1>1. CASE "file" \in DOMAIN argv[k]
  <2>1. PICK g : g = argv[k].file
    OBVIOUS
  <2>2. g \in Files /\ Content[g] \in Seq(Bytes)
    BY <1>1, <2>1, FileAssumption DEF Absent, Files
  <2>3. PICK n \in Nat : n = Padding(Len(Content[g]))
    <3>1. Len(Content[g]) \in Nat
      BY <2>2
    <3>. QED  BY <3>1, WholeSectors
  <2>4. AddArgument(image, argv[k]) = (image \o Content[g]) \o Zeros(n)
    BY <1>1, <2>1, <2>3 DEF AddArgument
  <2>5. Content[g] # <<>> /\ Content[g][1] = <<f, 0>>
          => Named(f) /\ Behind(f, Content[g], 0)
    <3>. SUFFICES ASSUME Content[g] # <<>> /\ Content[g][1] = <<f, 0>>
                  PROVE  Named(f) /\ Behind(f, Content[g], 0)
      OBVIOUS
    <3>1. g = f
      BY <2>2, ElfAssumption
    <3>2. Len(Content[f]) \in Nat
      BY ElfBytes
    <3>3. \A m \in 1 .. Len(Content[f]) : 0 + m = m
      OBVIOUS
    <3>4. Behind(f, Content[g], 0)
      BY <3>1, <3>2, <3>3 DEF Behind
    <3>. QED  BY <1>1, <2>1, <3>1, <3>4 DEF Named
  <2>6. Starts(f, image \o Content[g])
    BY <2>2, <2>5, StartsAppend
  <2>7. image \o Content[g] \in Seq(Bytes)
    BY <2>2
  <2>8. n \in Int /\ Zeros(n) \in Seq(Bytes)
    BY <1>0
  <2>9. Zeros(n) # <<>> => Zeros(n)[1] # <<f, 0>>
    BY <2>8, ZerosAreNoFile
  <2>10. Starts(f, (image \o Content[g]) \o Zeros(n))
    BY <2>6, <2>7, <2>8, <2>9, StartsAppend
  <2>. QED  BY <2>4, <2>10
<1>2. CASE "file" \notin DOMAIN argv[k]
  <2>1. PICK n \in Int : n = argv[k].skip * SECTORSIZE - Len(image)
    <3>1. k \in 1 .. Len(argv)
      BY FileAssumption DEF ImageInv, IInv, TypeInv
    <3>2. argv[k].skip \in Nat
      BY <1>2, <3>1, ArgumentKinds DEF ImageInv
    <3>3. argv[k].skip * SECTORSIZE \in Nat
      BY <3>2, NextSector
    <3>. QED  BY <3>3
  <2>2. AddArgument(image, argv[k]) = image \o Zeros(n)
    BY <1>2, <2>1 DEF AddArgument
  <2>. QED  BY <1>0, <2>2, ZerosAreNoFile, StartsAppend
<1>. QED  BY <1>1, <1>2

(* Whatever the arguments are, the file whose header follows the boot      *)
(* sector is one of them, and the disk has the whole of it.                *)
LEMMA KernelOnDisk ==
  ASSUME ImageInv, mpc = "done", ~lost, NEW f \in DOMAIN Elf
  PROVE  Starts(f, disk)
<1>1. /\ data = <<>> /\ disk \in Seq(Bytes) /\ i \in 2 .. Len(argv) + 1
      /\ Len(argv) \in Nat /\ nsectors \in Nat
  BY ArgumentKinds DEF ImageInv, Progress, IInv, TypeInv
<1>2. PICK b : Chain(argv, b, i - 2) /\ Whereabouts(b[i - 2])
  BY DEF ImageInv, Progress
<1>3. PICK n \in Nat : n = i - 2
  <2>1. i - 2 \in Nat
    BY <1>1
  <2>. QED  BY <2>1
<1>4. Chain(argv, b, n) /\ Whereabouts(b[n]) /\ n + 1 <= Len(argv)
  BY <1>1, <1>2, <1>3
<1>5. PICK m \in Nat : m = nsectors * SECTORSIZE
  BY <1>1, NextSector
<1>6. /\ disk \o data = b[n] \o Zeros(m - Len(b[n]))
  BY <1>4, <1>5 DEF Whereabouts
<1>7. disk = b[n] \o Zeros(m - Len(b[n]))
  BY <1>1, <1>6, NothingToFill
<1>8. ASSUME NEW k \in 0 .. n PROVE b[k] \in Seq(Bytes)
  BY <1>4 DEF Chain
<1>9. Starts(f, b[0])
  <2>1. PICK g : g = argv[1].file
    OBVIOUS
  <2>2. /\ g \in Files /\ b[0] = BootImage(g)
        /\ Len(Content[g]) <= SECTORSIZE - 2
    BY <1>4, <2>1 DEF Chain, Absent
  <2>3. Content[g] \in Seq(Bytes)
    BY <2>2, FileAssumption DEF Files
  <2>4. PICK l \in Nat : l = SECTORSIZE - 2 - Len(Content[g])
    <3>1. SECTORSIZE - 2 - Len(Content[g]) \in Nat
      BY <2>2, <2>3, SectorNat
    <3>. QED  BY <3>1
  <2>5. Zeros(l) \in Seq(Bytes) /\ Len(Zeros(l)) = l
    BY ZeroBytes
  <2>6. b[0] = Content[g] \o Zeros(l) \o <<Sig, Sig>>
    BY <2>2, <2>4 DEF BootImage
  <2>7. <<Sig, Sig>> \in Seq(Bytes) /\ Len(<<Sig, Sig>>) = 2
    <3>1. Sig \in Bytes
      BY DEF Bytes
    <3>. QED  BY <3>1
  <2>8. Len(b[0]) = SECTORSIZE
    <3>. DEFINE z == Zeros(l)
                e == <<Sig, Sig>>
    <3>1. /\ z \in Seq(Bytes) /\ Len(z) = l
          /\ e \in Seq(Bytes) /\ Len(e) = 2
          /\ b[0] = Content[g] \o z \o e
      BY <2>5, <2>6, <2>7
    <3>. HIDE DEF z, e
    <3>2. Len(b[0]) = Len(Content[g]) + l + 2
      <4>1. \A c \in Seq(Bytes) : Len(c \o z \o e) = Len(c) + l + 2
        <5>. SUFFICES ASSUME NEW c \in Seq(Bytes)
                      PROVE  Len(c \o z \o e) = Len(c) + l + 2
          OBVIOUS
        <5>1. c \o z \in Seq(Bytes) /\ Len(c \o z) = Len(c) + l
          BY <3>1, ConcatProperties
        <5>2. Len((c \o z) \o e) = Len(c \o z) + Len(e)
          BY <3>1, <5>1, ConcatProperties
        <5>. QED  BY <3>1, <5>1, <5>2
      <4>. QED  BY <2>3, <3>1, <4>1
    <3>. QED  BY <2>3, <2>4, <3>2, SectorNat
  <2>. QED  BY <2>8, SectorNat DEF Starts
<1>10. ASSUME NEW k \in 0 .. n - 1, Starts(f, b[k])
       PROVE  Starts(f, b[k + 1])
  <2>1. k + 1 \in 1 .. n /\ (k + 1) - 1 = k /\ (k + 1) + 1 = k + 2
        /\ k \in 0 .. n
    OBVIOUS
  <2>2. /\ ~Absent(argv[k + 2])
        /\ b[k + 1] = AddArgument(b[k], argv[k + 2])
    BY <1>4, <2>1 DEF Chain
  <2>3. k + 2 \in DOMAIN argv
    <3>1. argv \in Seq([file : STRING] \cup [skip : Nat])
      BY FileAssumption DEF ImageInv, IInv, TypeInv
    <3>. QED  BY <1>4, <3>1
  <2>4. b[k] \in Seq(Bytes)
    BY <1>8, <2>1
  <2>. QED  BY <1>10, <2>2, <2>3, <2>4, StartsArgument
<1>11. Starts(f, b[n])
  <2>. DEFINE T == {k \in 0 .. n : Starts(f, b[k])}
  <2>1. 0 \in T
    BY <1>9
  <2>2. ASSUME NEW k \in 0 .. n - 1, k \in T PROVE k + 1 \in T
    <3>1. k + 1 \in 0 .. n
      OBVIOUS
    <3>. QED  BY <1>10, <2>2, <3>1
  <2>3. 0 .. n \subseteq T
    <3>. HIDE DEF T
    <3>1. 0 \in Int /\ n \in Int
      OBVIOUS
    <3>. QED  BY <2>1, <2>2, <3>1, IntervalInduction
  <2>. QED  BY <2>3
<1>12. m - Len(b[n]) \in Int /\ b[n] \in Seq(Bytes)
  <2>1. b[n] \in Seq(Bytes)
    BY <1>8
  <2>. QED  BY <2>1
<1>13. PICK l \in Int : l = m - Len(b[n])
  BY <1>12
<1>14. Zeros(l) \in Seq(Bytes) /\ (Zeros(l) # <<>> => Zeros(l)[1] # <<f, 0>>)
  BY ZerosAreNoFile, ZeroBytes, NoZeros
<1>. QED  BY <1>7, <1>11, <1>12, <1>13, <1>14, StartsAppend

-----------------------------------------------------------------------------
(* Sectors *)
LEMMA PaddingFills ==
  ASSUME NEW n \in Nat
  PROVE  /\ Padding(n) \in 0 .. SECTORSIZE - 1
         /\ (n + Padding(n)) % SECTORSIZE = 0
         /\ \E k \in Nat : n + Padding(n) = SECTORSIZE * k
<1>1. SECTORSIZE \in Nat \ {0} /\ n % SECTORSIZE \in Int
  <2>1. SECTORSIZE \in Nat \ {0}
    BY SectorNat
  <2>. QED  BY <2>1, Division
<1>2. Padding(n) \in 0 .. SECTORSIZE - 1
  <2>1. SECTORSIZE - (n % SECTORSIZE) \in Int
    BY <1>1
  <2>. QED  BY <1>1, <2>1, Division DEF Padding
<1>3. PICK k \in Nat : k = (n + Padding(n)) \div SECTORSIZE
  BY WholeSectors
<1>4. k * SECTORSIZE = n + Padding(n)
  BY <1>3, WholeSectors
<1>5. n + Padding(n) = SECTORSIZE * k + 0
  BY <1>1, <1>4
<1>6. (SECTORSIZE * k + 0) % SECTORSIZE = 0
  <2>1. 0 \in 0 .. SECTORSIZE - 1 /\ k \in Int
    BY <1>1
  <2>. QED  BY <1>1, <2>1, DivisionUnique
<1>7. n + Padding(n) = SECTORSIZE * k
  BY <1>1, <1>5
<1>. QED  BY <1>2, <1>5, <1>6, <1>7

(* A longer file does not end in an earlier sector.                        *)
LEMMA PaddingGrows ==
  ASSUME NEW m \in Nat, NEW n \in Nat, m <= n
  PROVE  m + Padding(m) <= n + Padding(n)
<1>1. PICK j \in Nat : m + Padding(m) = SECTORSIZE * j
  BY PaddingFills
<1>2. PICK k \in Nat : n + Padding(n) = SECTORSIZE * k
  BY PaddingFills
<1>3. Padding(m) \in 0 .. SECTORSIZE - 1 /\ Padding(n) \in Nat
  BY PaddingFills, SectorNat
<1>. SUFFICES ASSUME SECTORSIZE * j > SECTORSIZE * k PROVE FALSE
  BY <1>1, <1>2, <1>3
<1>4. PICK a \in Nat : a = SECTORSIZE * j
  BY <1>1, <1>3
<1>5. PICK b \in Nat : b = SECTORSIZE * k
  BY <1>2, <1>3
<1>6. j >= k + 1
  BY SectorNat, Z3
<1>7. a >= b + SECTORSIZE
  BY <1>4, <1>5, <1>6, SectorNat, Z3
<1>. QED  BY <1>1, <1>2, <1>3, <1>4, <1>5, <1>7, SectorNat

(* A segment's place in its sectors is that of its bytes in the file's.    *)
LEMMA SectorPlace ==
  ASSUME NEW va \in Nat, NEW offset \in Nat,
         offset % SECTORSIZE = va % SECTORSIZE
  PROVE  /\ RoundDown(va, SECTORSIZE) \in Nat
         /\ RoundDown(va, SECTORSIZE) <= va
         /\ offset - (va - RoundDown(va, SECTORSIZE)) \in Nat
         /\ (1 + (offset \div SECTORSIZE)) * SECTORSIZE
              = SECTORSIZE + offset - (va - RoundDown(va, SECTORSIZE))
         /\ \A size \in Nat : Padding(va + size) = Padding(offset + size)
<1>1. SECTORSIZE \in Nat \ {0}
  BY SectorNat
<1>2. PICK q \in Int, r \in 0 .. SECTORSIZE - 1 :
        /\ q = offset \div SECTORSIZE /\ r = offset % SECTORSIZE
        /\ offset = SECTORSIZE * q + r
  <2>1. offset \in Int
    OBVIOUS
  <2>2. /\ offset \div SECTORSIZE \in Int
        /\ offset % SECTORSIZE \in 0 .. SECTORSIZE - 1
        /\ offset = SECTORSIZE * (offset \div SECTORSIZE)
                      + (offset % SECTORSIZE)
    BY <1>1, <2>1, Division
  <2>. QED  BY <2>2
<1>3. PICK p \in Int : va = SECTORSIZE * p + r
  <2>1. va = SECTORSIZE * (va \div SECTORSIZE) + (va % SECTORSIZE)
        /\ va \div SECTORSIZE \in Int
    BY <1>1, Division
  <2>. QED  BY <1>2, <2>1
<1>4. RoundDown(va, SECTORSIZE) = va - r
  BY <1>2 DEF RoundDown
<1>5. q >= 0 /\ p >= 0
  <2>1. ASSUME NEW x \in Int, SECTORSIZE * x + r \in Nat PROVE x >= 0
    <3>1. SUFFICES ASSUME x <= -1 PROVE FALSE
      OBVIOUS
    <3>2. SECTORSIZE * x <= -SECTORSIZE
      BY <1>1, <2>1, <3>1, Z3
    <3>3. SECTORSIZE * x \in Int
      BY <1>1
    <3>. QED  BY <1>1, <2>1, <3>2, <3>3
  <2>. QED  BY <1>2, <1>3, <2>1
<1>6. SECTORSIZE * q >= 0 /\ SECTORSIZE * p >= 0
      /\ SECTORSIZE * q \in Int /\ SECTORSIZE * p \in Int
  BY <1>1, <1>5, Z3
<1>7. (1 + q) * SECTORSIZE = SECTORSIZE + SECTORSIZE * q
  BY <1>1, Z3
<1>8. ASSUME NEW size \in Nat PROVE Padding(va + size) = Padding(offset + size)
  <2>0. va \in Int /\ offset \in Int /\ size \in Int
    OBVIOUS
  <2>1. (va + size) % SECTORSIZE = ((va % SECTORSIZE) + size) % SECTORSIZE
    BY <1>1, <2>0, RemainderOfSum
  <2>2. (offset + size) % SECTORSIZE
          = ((offset % SECTORSIZE) + size) % SECTORSIZE
    BY <1>1, <2>0, RemainderOfSum
  <2>. QED  BY <2>1, <2>2 DEF Padding
<1>9. PICK x \in Nat : x = SECTORSIZE * q
  BY <1>6
<1>10. PICK y \in Nat : y = SECTORSIZE * p
  BY <1>6
<1>11. offset = x + r /\ va = y + r /\ r \in Nat
  BY <1>1, <1>2, <1>3, <1>9, <1>10
<1>12. (1 + (offset \div SECTORSIZE)) * SECTORSIZE = SECTORSIZE + x
  BY <1>2, <1>7, <1>9
<1>. QED  BY <1>1, <1>4, <1>8, <1>11, <1>12

(* What a loader uses of a program header. *)
Sized(s) == /\ s.offset \in Nat /\ s.va \in Nat
            /\ s.filesz \in Nat /\ s.memsz \in Nat

(* A program header of a file has what a loader uses.                      *)
LEMMA HeadersAreSized == \A s \in ProgramHeaders : Sized(s)
BY DEF ProgramHeaders, Sized

(* What a call of readseg() does to each byte of memory.                   *)
LEMMA SegmentRead ==
  ASSUME NEW s, Sized(s), s.offset % SECTORSIZE = s.va % SECTORSIZE,
         ReadSeg(s.va, s.filesz, s.memsz, 1 + (s.offset \div SECTORSIZE)),
         NEW a \in Addresses
  PROVE  /\ a \notin Sectors(s) \cup Memory(s) => mem'[a] = mem[a]
         /\ s.va + s.filesz <= a /\ a < s.va + s.memsz => mem'[a] = Zero
         /\ a \in Sectors(s) /\ ~(s.va + s.filesz <= a /\ a < s.va + s.memsz)
              => /\ mem'[a] = DiskByte(SECTORSIZE + s.offset + (a - s.va))
                 /\ SECTORSIZE + s.offset + (a - s.va) >= SECTORSIZE
                 /\ SECTORSIZE + s.offset + (a - s.va)
                      < SECTORSIZE + (s.offset + s.filesz)
                          + Padding(s.offset + s.filesz)
<1>. DEFINE first == RoundDown(s.va, SECTORSIZE)
            end   == s.va + s.filesz
            sect  == 1 + (s.offset \div SECTORSIZE)
<1>1. /\ s.va \in Nat /\ s.filesz \in Nat /\ s.memsz \in Nat
      /\ s.offset \in Nat /\ a \in Int
  BY DEF Sized, Addresses
<1>2. /\ first \in Nat /\ first <= s.va
      /\ s.offset - (s.va - first) \in Nat
      /\ sect * SECTORSIZE = SECTORSIZE + s.offset - (s.va - first)
      /\ Padding(end) = Padding(s.offset + s.filesz)
  BY <1>1, SectorPlace
<1>3. Padding(end) \in Nat
  <2>1. end \in Nat
    BY <1>1
  <2>. QED  BY <2>1, PaddingFills, SectorNat
<1>4. mem'[a] = IF end <= a /\ a < s.va + s.memsz THEN Zero
                ELSE IF first <= a /\ a < end + Padding(end)
                  THEN DiskByte(sect * SECTORSIZE + (a - first))
                ELSE mem[a]
  BY DEF ReadSeg
<1>5. a \in Sectors(s) <=> first <= a /\ a < end + Padding(end)
  BY <1>1, <1>2, <1>3 DEF Sectors
<1>6. a \in Memory(s) <=> s.va <= a /\ a < s.va + s.memsz
  BY <1>1 DEF Memory
<1>. HIDE DEF first, end, sect
<1>7. sect * SECTORSIZE + (a - first)
        = SECTORSIZE + s.offset + (a - s.va)
  BY <1>1, <1>2, SectorNat
<1>8. CASE a \notin Sectors(s) \cup Memory(s)
  <2>1. ~(end <= a /\ a < s.va + s.memsz)
    BY <1>1, <1>6, <1>8 DEF end
  <2>. QED  BY <1>4, <1>5, <1>8, <2>1 DEF end
<1>9. CASE a \in Sectors(s) /\ ~(s.va + s.filesz <= a /\ a < s.va + s.memsz)
  <2>1. mem'[a] = DiskByte(SECTORSIZE + s.offset + (a - s.va))
    BY <1>4, <1>5, <1>7, <1>9 DEF end
  <2>2. first <= a /\ a < end + Padding(end)
    BY <1>5, <1>9
  <2>3. SECTORSIZE + s.offset + (a - s.va) >= SECTORSIZE
    BY <1>1, <1>2, <2>2, SectorNat
  <2>4. SECTORSIZE + s.offset + (a - s.va)
          < SECTORSIZE + (s.offset + s.filesz) + Padding(s.offset + s.filesz)
    BY <1>1, <1>2, <1>3, <2>2, SectorNat DEF end
  <2>. QED  BY <1>9, <2>1, <2>3, <2>4
<1>. QED  BY <1>4, <1>8, <1>9 DEF end

-----------------------------------------------------------------------------
(* The memory holds bytes of files and junk, never what is not on the disk *)
Junk == <<"junk", 0>>

LdInv ==
  /\ mem \in [Addresses -> Bytes \cup {Junk}]
  /\ ph \in Nat \ {0} /\ pid \in Nat \ {0}
  /\ eip = [p \in DOMAIN ramimages |-> eip[p]]
  /\ lpc \in {"off", "bootmain", "start", "running", "spin", "panic"}
  /\ lpc = "off" => ph = 1
  /\ lpc # "off" => mpc = "done"

LoaderInv == ImageInv /\ LdInv

(* No file contains what a sector behind the end of the disk reads as.     *)
LEMMA NoSectorIsNoByte == NoSector \notin Bytes \cup {Junk}
<1>1. NoSector # Zero /\ NoSector # Sig /\ NoSector # Junk
  BY DEF NoSector, Zero, Sig, Junk
<1>2. ASSUME NEW g \in Files PROVE NoSector \notin Range(Content[g])
  BY ElfAssumption
<1>. QED  BY <1>1, <1>2 DEF Bytes, Files

(* When mkbootdisk is done, the disk is as large as it should be, and it   *)
(* stays as it is.                                                         *)
LEMMA DiskIsDone ==
  ASSUME ImageInv, mpc = "done"
  PROVE  /\ disk \in Seq(Bytes) /\ NSECTORS * SECTORSIZE <= Len(disk)
         /\ NSECTORS * SECTORSIZE \in Nat
         /\ ~MkNext
<1>1. /\ disk \in Seq(Bytes) /\ data = <<>> /\ nsectors \in Nat
      /\ NSECTORS \in Nat /\ nsectors >= NSECTORS
      /\ Len(disk) = nsectors * SECTORSIZE
  BY DiskAssumption DEF ImageInv, Progress, IInv, TypeInv
<1>2. NSECTORS * SECTORSIZE <= nsectors * SECTORSIZE
  BY <1>1, SectorNat, Z3
<1>3. ~MkNext
  BY <1>1 DEF MkNext, Write, WriteError, BootSector, SkipSector, Skipped,
     Open, Read, Close, FillSector, Finish, BadArgument, Ready
<1>. QED  BY <1>1, <1>2, <1>3, NextSector

(* What readsect() returns for a sector that the disk has.                 *)
LEMMA DiskBytes ==
  ASSUME ImageInv, mpc = "done", NEW k \in Nat, k < NSECTORS * SECTORSIZE
  PROVE  DiskByte(k) = disk[k + 1] /\ DiskByte(k) \in Bytes
<1>1. k < Len(disk) /\ disk \in Seq(Bytes)
  BY DiskIsDone
<1>2. k + 1 \in 1 .. Len(disk)
  BY <1>1
<1>. QED  BY <1>1, <1>2 DEF DiskByte

(* The program header that a loader reads is one of the file, or empty.    *)
LEMMA HeaderRead ==
  ASSUME NEW at, IsElf(at), NEW n \in Nat \ {0}, n <= Len(Header(at).ph)
  PROVE  \E f \in DOMAIN Elf :
           /\ mem[at] = <<f, 0>> /\ Header(at) = Elf[f] /\ ElfFile(f)
           /\ n \in DOMAIN Elf[f].ph
           /\ Elf[f].ph[n] \in ProgramHeaders
           /\ Elf[f].ph[n] \in Range(Elf[f].ph)
           /\ IF mem[at + n] = Zero
                THEN Proghdr(at, n) = [type |-> "NULL", offset |-> 0, va |-> 0,
                                       filesz |-> 0, memsz |-> 0]
                ELSE Proghdr(at, n) = Elf[f].ph[n]
<1>1. PICK f \in DOMAIN Elf : mem[at] = <<f, 0>>
  BY DEF IsElf
<1>2. Header(at) = Elf[f]
  BY <1>1 DEF Header
<1>3. ElfFile(f) /\ Elf[f].ph \in Seq(ProgramHeaders)
  BY ElfAssumption DEF ElfFile
<1>4. n \in DOMAIN Elf[f].ph
  BY <1>2, <1>3
<1>5. Elf[f].ph[n] \in ProgramHeaders /\ Elf[f].ph[n] \in Range(Elf[f].ph)
  BY <1>3, <1>4 DEF Range
<1>. QED  BY <1>1, <1>2, <1>3, <1>4, <1>5 DEF Proghdr

(* What is in a file of the kernel's size is on the disk behind the boot   *)
(* sector, to its last sector.                                             *)
LEMMA SegmentOnDisk ==
  ASSUME NEW f \in DOMAIN Elf, NEW s \in Range(Elf[f].ph)
  PROVE  /\ s \in ProgramHeaders /\ Sized(s) /\ s.filesz <= s.memsz
         /\ s.offset % SECTORSIZE = s.va % SECTORSIZE
         /\ s.offset + s.filesz \in Nat
         /\ s.offset + s.filesz <= Len(Content[f])
         /\ SECTORSIZE + (s.offset + s.filesz) + Padding(s.offset + s.filesz)
              <= NSECTORS * SECTORSIZE
<1>1. ElfFile(f) /\ Elf[f].ph \in Seq(ProgramHeaders)
  BY ElfAssumption DEF ElfFile
<1>2. s \in ProgramHeaders
  BY <1>1 DEF Range
<1>3. /\ s.filesz <= s.memsz /\ s.offset + s.filesz <= Len(Content[f])
      /\ s.offset % SECTORSIZE = s.va % SECTORSIZE
  BY <1>1 DEF ElfFile
<1>4. PICK m \in Nat : m = s.offset + s.filesz
  BY <1>2 DEF ProgramHeaders
<1>5. PICK n \in Nat : n = Len(Content[f])
  BY ElfBytes
<1>6. m + Padding(m) <= n + Padding(n)
  BY <1>3, <1>4, <1>5, PaddingGrows
<1>7. Padding(m) \in Nat /\ Padding(n) \in Nat
  BY PaddingFills, SectorNat
<1>8. SECTORSIZE + n + Padding(n) <= NSECTORS * SECTORSIZE
  BY <1>5, RoomAssumption
<1>9. NSECTORS * SECTORSIZE \in Nat
  BY DiskAssumption, NextSector
<1>10. SECTORSIZE + m + Padding(m) <= NSECTORS * SECTORSIZE
  BY <1>6, <1>7, <1>8, <1>9, SectorNat
<1>. QED  BY <1>2, <1>3, <1>4, <1>10, HeadersAreSized

(* The page of the boot loader's first call. *)
Page == [offset |-> 0, va |-> ELFHDR, filesz |-> PAGESIZE, memsz |-> PAGESIZE]
Null == [type |-> "NULL", offset |-> 0, va |-> 0, filesz |-> 0, memsz |-> 0]

(* The scratch page is whole sectors, and so is what is read into it.      *)
LEMMA PageFacts ==
  /\ Sized(Page) /\ Page.offset % SECTORSIZE = Page.va % SECTORSIZE
  /\ 0 \div SECTORSIZE = 0 /\ 0 % SECTORSIZE = 0
  /\ Padding(PAGESIZE) = 0 /\ Padding(0) = 0
  /\ Padding(ELFHDR + PAGESIZE) = 0
  /\ SECTORSIZE <= PAGESIZE
  /\ ELFHDR \in Nat /\ PAGESIZE \in Nat \ {0}
  /\ RoundDown(ELFHDR, SECTORSIZE) = ELFHDR
<1>1. SECTORSIZE \in Nat \ {0}
  BY SectorNat
<1>2. /\ PAGESIZE \in Nat /\ PAGESIZE > 0 /\ PAGESIZE % SECTORSIZE = 0
      /\ ELFHDR \in Nat /\ ELFHDR % SECTORSIZE = 0
  BY PageAssumption
<1>3. 0 \div SECTORSIZE = 0 /\ 0 % SECTORSIZE = 0
  BY <1>1, DiskAssumption, Z3
<1>4. SECTORSIZE % SECTORSIZE = 0
  <2>1. SECTORSIZE \in 0 .. SECTORSIZE
    BY <1>1
  <2>. QED  BY <2>1, Remainder
<1>5. \A n \in Nat : n % SECTORSIZE = 0 => Padding(n) = 0
  BY <1>1, <1>4 DEF Padding
<1>6. (ELFHDR + PAGESIZE) % SECTORSIZE = 0
  <2>1. (ELFHDR + PAGESIZE) % SECTORSIZE
          = ((ELFHDR % SECTORSIZE) + PAGESIZE) % SECTORSIZE
    <3>1. ELFHDR \in Int /\ PAGESIZE \in Int
      BY <1>2
    <3>. QED  BY <1>1, <3>1, RemainderOfSum
  <2>2. 0 + PAGESIZE = PAGESIZE
    BY <1>2
  <2>. QED  BY <1>2, <2>1, <2>2
<1>7. SECTORSIZE <= PAGESIZE
  <2>1. SUFFICES ASSUME PAGESIZE < SECTORSIZE PROVE FALSE
    BY <1>1, <1>2
  <2>2. PAGESIZE \in 0 .. SECTORSIZE - 1
    BY <1>1, <1>2, <2>1
  <2>3. PAGESIZE % SECTORSIZE = PAGESIZE
    BY <1>1, <2>2, RemainderOfLess
  <2>. QED  BY <1>2, <2>3
<1>8. ELFHDR + PAGESIZE \in Nat
  BY <1>2
<1>9. Sized(Page)
  BY <1>2 DEF Page, Sized
<1>. QED  BY <1>2, <1>3, <1>5, <1>6, <1>7, <1>8, <1>9 DEF Page, RoundDown

(* An empty segment at the start of a sector changes nothing. *)
LEMMA EmptyRead ==
  ASSUME NEW s, Sized(s), s.offset % SECTORSIZE = s.va % SECTORSIZE,
         Empty(s), LdInv,
         ReadSeg(s.va, s.filesz, s.memsz, 1 + (s.offset \div SECTORSIZE))
  PROVE  mem' = mem
<1>1. s.va \in Nat /\ s.filesz = 0 /\ s.memsz = 0 /\ s.va % SECTORSIZE = 0
  BY DEF Sized, Empty
<1>2. SECTORSIZE % SECTORSIZE = 0
  <2>1. SECTORSIZE \in 0 .. SECTORSIZE
    BY SectorNat
  <2>. QED  BY <2>1, Remainder
<1>3. s.va + s.filesz = s.va /\ RoundDown(s.va, SECTORSIZE) = s.va
  BY <1>1 DEF RoundDown
<1>4. Padding(s.va) = 0
  BY <1>1, <1>2, SectorNat DEF Padding
<1>5. Sectors(s) = s.va .. s.va - 1 /\ Memory(s) = s.va .. s.va - 1
  BY <1>1, <1>3, <1>4 DEF Sectors, Memory
<1>6. Sectors(s) \cup Memory(s) = {}
  BY <1>1, <1>5
<1>7. /\ mem' = [a \in Addresses |-> mem'[a]]
      /\ mem = [a \in Addresses |-> mem[a]]
  BY DEF ReadSeg, LdInv
<1>8. \A a \in Addresses : mem'[a] = mem[a]
  BY <1>6, SegmentRead
<1>. QED  BY <1>7, <1>8

(* One call of readseg() for a segment of a file that fits on the disk.    *)
LEMMA ReadKeepsBytes ==
  ASSUME LoaderInv, mpc = "done",
         NEW s, Sized(s), s.offset % SECTORSIZE = s.va % SECTORSIZE,
         SECTORSIZE + (s.offset + s.filesz) + Padding(s.offset + s.filesz)
           <= NSECTORS * SECTORSIZE,
         ReadSeg(s.va, s.filesz, s.memsz, 1 + (s.offset \div SECTORSIZE))
  PROVE  mem' \in [Addresses -> Bytes \cup {Junk}]
<1>1. mem' = [a \in Addresses |-> mem'[a]]
  BY DEF ReadSeg
<1>2. ASSUME NEW a \in Addresses PROVE mem'[a] \in Bytes \cup {Junk}
  <2>1. CASE a \notin Sectors(s) \cup Memory(s)
    BY <2>1, SegmentRead DEF LoaderInv, LdInv
  <2>2. CASE s.va + s.filesz <= a /\ a < s.va + s.memsz
    <3>1. Zero \in Bytes
      BY DEF Bytes
    <3>. QED  BY <2>2, <3>1, SegmentRead
  <2>3. CASE a \in Sectors(s) /\ ~(s.va + s.filesz <= a /\ a < s.va + s.memsz)
    <3>1. PICK k : k = SECTORSIZE + s.offset + (a - s.va)
      OBVIOUS
    <3>2. PICK x : x = SECTORSIZE + (s.offset + s.filesz)
                         + Padding(s.offset + s.filesz)
      OBVIOUS
    <3>3. mem'[a] = DiskByte(k) /\ k >= SECTORSIZE /\ k < x
      BY <2>3, <3>1, <3>2, SegmentRead
    <3>4. s.offset \in Nat /\ s.va \in Nat /\ s.filesz \in Nat /\ a \in Int
      BY DEF Sized, Addresses
    <3>5. s.offset + s.filesz \in Nat
      BY <3>4
    <3>6. x \in Int
      BY <3>2, <3>5, PaddingFills, SectorNat
    <3>7. k \in Nat
      BY <3>1, <3>3, <3>4, SectorNat
    <3>8. NSECTORS * SECTORSIZE \in Nat /\ ImageInv
      BY DiskIsDone DEF LoaderInv
    <3>9. k < NSECTORS * SECTORSIZE
      BY <3>2, <3>3, <3>6, <3>7, <3>8
    <3>. QED  BY <3>3, <3>7, <3>8, <3>9, DiskBytes
  <2>4. /\ s.va \in Nat /\ s.filesz \in Nat /\ s.memsz \in Nat /\ a \in Int
    BY DEF Sized, Addresses
  <2>5. a \in Memory(s) => a \in Sectors(s)
                           \/ (s.va + s.filesz <= a /\ a < s.va + s.memsz)
    <3>1. s.va + s.filesz \in Nat
      BY <2>4
    <3>2. Padding(s.va + s.filesz) \in Nat
      BY <3>1, PaddingFills, SectorNat
    <3>3. RoundDown(s.va, SECTORSIZE) \in Nat
          /\ RoundDown(s.va, SECTORSIZE) <= s.va
      <4>1. s.offset \in Nat
        BY DEF Sized
      <4>. QED  BY <2>4, <4>1, SectorPlace
    <3>. QED  BY <2>4, <3>1, <3>2, <3>3 DEF Memory, Sectors
  <2>. QED  BY <2>1, <2>2, <2>3, <2>5
<1>. QED  BY <1>1, <1>2

-----------------------------------------------------------------------------
(* The first page behind the boot sector is on the disk.                   *)
LEMMA ReadHeaderBytes ==
  LoaderInv /\ ReadHeader /\ UNCHANGED mkvars => LdInv'
<1>. SUFFICES ASSUME LoaderInv, ReadHeader, UNCHANGED mkvars PROVE LdInv'
  OBVIOUS
<1>1. mpc = "done" /\ lpc' = "bootmain" /\ UNCHANGED <<ph, pid, eip>>
  BY DEF ReadHeader
<1>2. ReadSeg(ELFHDR, PAGESIZE, PAGESIZE, 1)
  BY DEF ReadHeader
<1>3. 1 + 0 = 1 /\ 0 + PAGESIZE = PAGESIZE
  BY PageFacts
<1>4. ReadSeg(Page.va, Page.filesz, Page.memsz,
              1 + (Page.offset \div SECTORSIZE))
  BY <1>2, <1>3, PageFacts DEF Page
<1>5. SECTORSIZE + (Page.offset + Page.filesz)
        + Padding(Page.offset + Page.filesz) <= NSECTORS * SECTORSIZE
  <2>1. Page.offset + Page.filesz = PAGESIZE
    BY <1>3 DEF Page
  <2>2. SECTORSIZE + PAGESIZE + 0 = SECTORSIZE + PAGESIZE
    BY PageFacts, SectorNat
  <2>. QED  BY <2>1, <2>2, PageFacts, RoomAssumption
<1>6. mem' \in [Addresses -> Bytes \cup {Junk}]
  BY <1>1, <1>4, <1>5, PageFacts, ReadKeepsBytes
<1>. QED  BY <1>1, <1>6 DEF LoaderInv, LdInv, mkvars

(* So are the sectors of every segment of a file.                          *)
LEMMA ReadSegmentBytes ==
  LoaderInv /\ ReadSegment /\ UNCHANGED mkvars => LdInv'
<1>. SUFFICES ASSUME LoaderInv, ReadSegment, UNCHANGED mkvars PROVE LdInv'
  OBVIOUS
<1>. DEFINE s == Proghdr(ELFHDR, ph)
<1>1. /\ lpc = "bootmain" /\ IsElf(ELFHDR) /\ ph <= Len(Header(ELFHDR).ph)
      /\ ReadSeg(s.va, s.filesz, s.memsz, 1 + (s.offset \div SECTORSIZE))
      /\ ph' = ph + 1 /\ UNCHANGED <<lpc, pid, eip>>
  BY DEF ReadSegment
<1>2. mpc = "done" /\ ph \in Nat \ {0} /\ LdInv
  BY <1>1 DEF LoaderInv, LdInv
<1>3. PICK f \in DOMAIN Elf :
        /\ Elf[f].ph[ph] \in Range(Elf[f].ph)
        /\ s = Null \/ s = Elf[f].ph[ph]
  BY <1>1, <1>2, HeaderRead DEF Null
<1>. HIDE DEF s
<1>4. mem' \in [Addresses -> Bytes \cup {Junk}]
  <2>1. CASE s = Null
    <3>1. Sized(s) /\ Empty(s) /\ s.offset % SECTORSIZE = s.va % SECTORSIZE
      BY <2>1, PageFacts DEF Null, Sized, Empty
    <3>2. mem' = mem
      BY <1>1, <1>2, <3>1, EmptyRead
    <3>. QED  BY <1>2, <3>2 DEF LdInv
  <2>2. CASE s = Elf[f].ph[ph]
    BY <1>1, <1>2, <1>3, <2>2, SegmentOnDisk, ReadKeepsBytes
  <2>. QED  BY <1>3, <2>1, <2>2
<1>. QED  BY <1>1, <1>2, <1>4 DEF LdInv, mkvars

(* copyseg() reads within the memory, whichever page it rounds to. *)
LEMMA CopySegmentBytes ==
  LoaderInv /\ CopySegment /\ UNCHANGED mkvars => LdInv'
<1>. SUFFICES ASSUME LoaderInv, CopySegment, UNCHANGED mkvars PROVE LdInv'
  OBVIOUS
<1>1. PICK at : at = ramimages[pid]
  OBVIOUS
<1>2. PICK s : s = Proghdr(at, ph)
  OBVIOUS
<1>3. /\ lpc = "start" /\ pid \in DOMAIN ramimages /\ IsElf(at)
      /\ ph <= Len(Header(at).ph)
      /\ IF s.type = "LOAD"
           THEN CopySeg(s.va, at + s.offset, s.filesz, s.memsz)
           ELSE UNCHANGED mem
      /\ ph' = ph + 1 /\ UNCHANGED <<lpc, pid, eip>>
  BY <1>1, <1>2, Zenon DEF CopySegment
<1>4. mpc = "done" /\ ph \in Nat \ {0} /\ LdInv
  BY <1>3 DEF LoaderInv, LdInv
<1>5. PICK f \in DOMAIN Elf :
        /\ Elf[f].ph[ph] \in Range(Elf[f].ph)
        /\ s = Null \/ s = Elf[f].ph[ph]
  BY <1>2, <1>3, <1>4, HeaderRead DEF Null
<1>6. mem' \in [Addresses -> Bytes \cup {Junk}]
  <2>1. CASE s.type # "LOAD"
    BY <1>3, <1>4, <2>1 DEF LdInv
  <2>2. CASE s.type = "LOAD"
    <3>1. s = Elf[f].ph[ph]
      BY <1>5, <2>2 DEF Null
    <3>2. Sized(s) /\ s.offset + s.filesz <= Len(Content[f])
      BY <1>5, <3>1, SegmentOnDisk
    <3>3. PICK n \in Nat : n = Len(Content[f])
      BY ElfBytes
    <3>4. at \in Nat /\ at + n + PAGESIZE <= MEMSIZE /\ MEMSIZE \in Nat
      BY <1>1, <1>3, <3>3, RoomAssumption
    <3>5. PICK r \in 0 .. PAGESIZE - 1 : r = s.va % PAGESIZE
      <4>1. s.va \in Int /\ PAGESIZE \in Nat \ {0}
        BY <3>2, PageFacts DEF Sized
      <4>. QED  BY <4>1, Division
    <3>6. mem' = [a \in Addresses |->
            IF s.va + s.filesz <= a /\ a < s.va + s.memsz THEN Zero
            ELSE IF s.va - r <= a /\ a < s.va + s.filesz
              THEN mem[at + s.offset + (a - (s.va - r))]
            ELSE mem[a]]
      BY <1>3, <2>2, <3>5 DEF CopySeg, RoundDown
    <3>7. ASSUME NEW a \in Addresses, s.va - r <= a, a < s.va + s.filesz
          PROVE  at + s.offset + (a - (s.va - r)) \in Addresses
      <4>1. /\ s.offset \in Nat /\ s.va \in Nat /\ s.filesz \in Nat
            /\ s.offset + s.filesz <= n
        BY <3>2, <3>3 DEF Sized
      <4>2. a \in Int /\ r \in Nat /\ r < PAGESIZE /\ PAGESIZE \in Nat
        BY <3>5, PageAssumption DEF Addresses
      <4>. QED  BY <3>4, <3>7, <4>1, <4>2 DEF Addresses
    <3>8. mem \in [Addresses -> Bytes \cup {Junk}] /\ Zero \in Bytes
      BY <1>4 DEF LdInv, Bytes
    <3>. QED  BY <3>6, <3>7, <3>8
  <2>. QED  BY <2>1, <2>2
<1>. QED  BY <1>3, <1>4, <1>6 DEF LdInv, mkvars

(* The other steps of the loaders do not change memory.                    *)
LEMMA OtherBytes ==
  LoaderInv /\ UNCHANGED mkvars /\ (\/ NotAKernel \/ JumpToKernel
      \/ ProgramLoaded \/ LoaderPanic \/ RunFirst) => LdInv'
<1>. SUFFICES ASSUME LoaderInv, UNCHANGED mkvars,
                     \/ NotAKernel \/ JumpToKernel \/ ProgramLoaded
                     \/ LoaderPanic \/ RunFirst
              PROVE  LdInv'
  OBVIOUS
<1>1. LdInv /\ mpc' = mpc
  BY DEF LoaderInv, mkvars
<1>2. CASE NotAKernel
  BY <1>1, <1>2 DEF NotAKernel, LdInv
<1>3. CASE JumpToKernel
  BY <1>1, <1>3 DEF JumpToKernel, LdInv
<1>4. CASE ProgramLoaded
  <2>1. PICK e : eip' = [eip EXCEPT ![pid] = e]
    BY <1>4 DEF ProgramLoaded
  <2>2. eip' = [p \in DOMAIN ramimages |-> eip'[p]]
    BY <1>1, <2>1 DEF LdInv
  <2>. QED  BY <1>1, <1>4, <2>2 DEF ProgramLoaded, LdInv
<1>5. CASE LoaderPanic
  BY <1>1, <1>5 DEF LoaderPanic, LdInv
<1>6. CASE RunFirst
  BY <1>1, <1>6 DEF RunFirst, LdInv
<1>. QED  BY <1>2, <1>3, <1>4, <1>5, <1>6

(* Every step of the loaders keeps memory free of missing sectors.         *)
LEMMA NextBytes == LoaderInv /\ [Next]_<<mkvars, ldvars>> => LdInv'
<1>. SUFFICES ASSUME LoaderInv, [Next]_<<mkvars, ldvars>> PROVE LdInv'
  OBVIOUS
<1>1. CASE LdNext /\ UNCHANGED mkvars
  BY <1>1, ReadHeaderBytes, ReadSegmentBytes, CopySegmentBytes, OtherBytes
     DEF LdNext
<1>2. CASE MkNext /\ UNCHANGED ldvars
  <2>1. mpc # "done"
    BY <1>2, DiskIsDone DEF LoaderInv
  <2>. QED  BY <1>2, <2>1 DEF LoaderInv, LdInv, ldvars
<1>3. CASE UNCHANGED <<mkvars, ldvars>>
  BY <1>3 DEF LoaderInv, LdInv, mkvars, ldvars
<1>. QED  BY <1>1, <1>2, <1>3 DEF Next

(* Before anything is read, memory is junk.                                *)
LEMMA InitBytes == Init => LdInv
<1>. SUFFICES ASSUME Init PROVE LdInv
  OBVIOUS
<1>1. eip = [p \in DOMAIN ramimages |-> 0]
  BY DEF Init, LdInit
<1>2. eip = [p \in DOMAIN ramimages |-> eip[p]]
  BY <1>1
<1>. QED  BY <1>2 DEF Init, LdInit, LdInv, Junk

(* Memory holds bytes of files, zeros and junk, throughout.                *)
THEOREM BytesTheorem == Spec => []LoaderInv
<1>1. Init => LdInv
  BY InitBytes
<1>2. ImageInv /\ LdInv /\ [Next]_<<mkvars, ldvars>> => LdInv'
  BY NextBytes DEF LoaderInv
<1>3. LoaderInv <=> ImageInv /\ LdInv
  BY DEF LoaderInv
<1>. QED  BY <1>1, <1>2, <1>3, ProgressTheorem, PTL DEF Spec

(* The boot loader asks for no sector that the image lacks, whatever the   *)
(* arguments of mkbootdisk were, and even if a file was cut short.         *)
THEOREM ReadsTheorem == Spec => []ReadsWithinDisk
<1>1. LoaderInv => ReadsWithinDisk
  BY NoSectorIsNoByte DEF LoaderInv, LdInv, ReadsWithinDisk
<1>. QED  BY <1>1, BytesTheorem, PTL

-----------------------------------------------------------------------------
(* While the kernel is read, and while it loads the programs: what has     *)
(* been loaded stays as it is in its file.                                 *)
Intact(f) == \A n \in 0 .. Len(Elf[f].ph) : mem[ELFHDR + n] = <<f, n>>

LoadedTo(f, n) ==
  \A k \in DOMAIN Elf[f].ph :
    k < n /\ Elf[f].ph[k].type = "LOAD" => Loaded(f, Elf[f].ph[k])

AllLoaded(f) == \A s \in Segment(f, "LOAD") : Loaded(f, s)

Programs(program) ==
  \A p \in DOMAIN ramimages :
    /\ p < pid => AllLoaded(program[p]) /\ eip[p] = Elf[program[p]].entry
    /\ p = pid => LoadedTo(program[p], ph)

Disked(f, program) ==
  /\ Behind(f, disk, SECTORSIZE)
  /\ KernelLayout(f) /\ ProgramLayout(f, program)

Good(f, program) ==
  /\ Disked(f, program) /\ Intact(f)
  /\ lpc \in {"bootmain", "start", "running"}
  /\ lpc = "bootmain" => LoadedTo(f, ph)
  /\ lpc \in {"start", "running"} => AllLoaded(f) /\ Programs(program)
  /\ lpc = "running" => pid \notin DOMAIN ramimages

WholeInv ==
  ~lost /\ lpc \notin {"off", "spin"} =>
    \/ lpc = "bootmain" /\ ~IsElf(ELFHDR)
    \/ \E f \in DOMAIN Elf, program \in [DOMAIN ramimages -> DOMAIN Elf] :
         Good(f, program)

-----------------------------------------------------------------------------
(* Padding is a number of bytes.                                           *)
LEMMA PaddingNat == ASSUME NEW n \in Nat PROVE Padding(n) \in Nat
<1>1. Padding(n) \in 0 .. SECTORSIZE - 1
  BY PaddingFills
<1>. QED  BY <1>1, SectorNat

(* The sectors of a segment, by their bounds.                              *)
LEMMA SectorRange ==
  ASSUME NEW s, NEW x, x = RoundDown(s.va, SECTORSIZE),
         NEW end \in Nat, end = s.va + s.filesz,
         NEW y, y = end + Padding(end)
  PROVE  Sectors(s) = x .. y - 1
<1>1. Sectors(s) = x .. end + (Padding(end) - 1)
  BY DEF Sectors
<1>2. Padding(end) \in Nat
  BY PaddingNat
<1>3. end + (Padding(end) - 1) = y - 1
  BY <1>2
<1>. QED  BY <1>1, <1>3

(* A segment stays loaded if nothing is written to its memory.             *)
LEMMA StaysLoaded ==
  ASSUME NEW f, NEW s, Sized(s), Loaded(f, s),
         \A a \in Memory(s) : mem'[a] = mem[a]
  PROVE  Loaded(f, s)'
<1>1. \A k \in 0 .. s.memsz - 1 : s.va + k \in Memory(s)
  BY DEF Sized, Memory
<1>. QED  BY <1>1 DEF Loaded

(* The kernel's header and program headers fit on the scratch page.        *)
LEMMA ScratchIsMemory ==
  ASSUME NEW f \in DOMAIN Elf, NEW n \in 0 .. Len(Elf[f].ph)
  PROVE  ELFHDR + n \in Scratch /\ ELFHDR + n \in Addresses
<1>1. Len(Elf[f].ph) < SECTORSIZE /\ Len(Elf[f].ph) \in Nat
  BY ElfAssumption DEF ElfFile
<1>2. SECTORSIZE <= PAGESIZE /\ ELFHDR \in Nat /\ PAGESIZE \in Nat
  BY PageFacts
<1>3. ELFHDR + PAGESIZE <= MEMSIZE /\ MEMSIZE \in Nat
  BY RoomAssumption
<1>. QED  BY <1>1, <1>2, <1>3, SectorNat DEF Scratch, Addresses

(* The segments of a file are its program headers of type LOAD; when all   *)
(* program headers have been seen, all segments are loaded.                *)
LEMMA SegmentsAreHeaders ==
  ASSUME NEW f \in DOMAIN Elf
  PROVE  /\ \A s \in Segment(f, "LOAD") :
              s \in Range(Elf[f].ph) /\ s.type = "LOAD" /\ Sized(s)
         /\ \A n : (\A k \in DOMAIN Elf[f].ph : k < n) =>
              (LoadedTo(f, n) => AllLoaded(f))
<1>1. \A s \in Segment(f, "LOAD") : s \in Range(Elf[f].ph) /\ s.type = "LOAD"
  BY DEF Segment
<1>2. \A s \in Range(Elf[f].ph) : Sized(s)
  BY SegmentOnDisk
<1>3. \A s \in Range(Elf[f].ph) : \E k \in DOMAIN Elf[f].ph : s = Elf[f].ph[k]
  BY DEF Range
<1>4. ASSUME NEW n, \A k \in DOMAIN Elf[f].ph : k < n, LoadedTo(f, n)
      PROVE  AllLoaded(f)
  BY <1>1, <1>3, <1>4 DEF LoadedTo, AllLoaded
<1>. QED  BY <1>1, <1>2, <1>4

(* Reading a segment of the kernel puts the bytes of its file around it.   *)
LEMMA KernelBytes ==
  ASSUME LoaderInv, mpc = "done",
         NEW f \in DOMAIN Elf, Behind(f, disk, SECTORSIZE),
         NEW t \in Range(Elf[f].ph),
         ReadSeg(t.va, t.filesz, t.memsz, 1 + (t.offset \div SECTORSIZE)),
         NEW a \in Addresses, a \in Sectors(t),
         ~(t.va + t.filesz <= a /\ a < t.va + t.memsz),
         t.offset + (a - t.va) < Len(Content[f])
  PROVE  mem'[a] = Content[f][t.offset + (a - t.va) + 1]
<1>1. /\ Sized(t) /\ t.offset % SECTORSIZE = t.va % SECTORSIZE
      /\ SECTORSIZE + (t.offset + t.filesz) + Padding(t.offset + t.filesz)
           <= NSECTORS * SECTORSIZE
  BY SegmentOnDisk
<1>2. t.offset \in Nat /\ t.va \in Nat /\ t.filesz \in Nat /\ a \in Int
  BY <1>1 DEF Sized, Addresses
<1>3. PICK j \in Int : j = t.offset + (a - t.va)
  BY <1>2
<1>4. PICK x : x = SECTORSIZE + (t.offset + t.filesz)
                     + Padding(t.offset + t.filesz)
  OBVIOUS
<1>5. SECTORSIZE + t.offset + (a - t.va) = SECTORSIZE + j
  BY <1>2, <1>3, SectorNat
<1>6. mem'[a] = DiskByte(SECTORSIZE + j) /\ SECTORSIZE + j >= SECTORSIZE
      /\ SECTORSIZE + j < x
  BY <1>1, <1>4, <1>5, SegmentRead
<1>7. j \in Nat
  BY <1>6, SectorNat
<1>8. x \in Nat
  <2>1. t.offset + t.filesz \in Nat
    BY <1>2
  <2>2. PICK y \in Nat : y = t.offset + t.filesz
    BY <2>1
  <2>3. Padding(y) \in Nat
    BY PaddingNat
  <2>. QED  BY <1>4, <2>2, <2>3, SectorNat
<1>9. ImageInv /\ NSECTORS * SECTORSIZE \in Nat
  BY DiskIsDone DEF LoaderInv
<1>10. SECTORSIZE + j < NSECTORS * SECTORSIZE /\ SECTORSIZE + j \in Nat
  BY <1>1, <1>4, <1>6, <1>7, <1>8, <1>9, SectorNat
<1>11. mem'[a] = disk[(SECTORSIZE + j) + 1]
  BY <1>6, <1>9, <1>10, DiskBytes
<1>12. j + 1 \in 1 .. Len(Content[f])
  BY <1>3, <1>7, ElfBytes
<1>13. disk[SECTORSIZE + (j + 1)] = Content[f][j + 1]
  BY <1>12 DEF Behind
<1>14. SECTORSIZE + (j + 1) = (SECTORSIZE + j) + 1
  BY <1>7, SectorNat
<1>. QED  BY <1>3, <1>11, <1>13, <1>14

(* A higher address is not in a lower sector.                              *)
LEMMA RoundDownGrows ==
  ASSUME NEW m \in Nat, NEW n \in Nat, m <= n
  PROVE  /\ RoundDown(m, SECTORSIZE) \in Nat
         /\ RoundDown(m, SECTORSIZE) <= RoundDown(n, SECTORSIZE)
<1>1. SECTORSIZE \in Nat \ {0}
  BY SectorNat
<1>2. PICK p \in Int : /\ RoundDown(m, SECTORSIZE) = SECTORSIZE * p
                       /\ m - SECTORSIZE * p \in 0 .. SECTORSIZE - 1
  <2>1. m \in Int
    OBVIOUS
  <2>2. /\ m \div SECTORSIZE \in Int /\ m % SECTORSIZE \in 0 .. SECTORSIZE - 1
        /\ m = SECTORSIZE * (m \div SECTORSIZE) + (m % SECTORSIZE)
    BY <1>1, <2>1, Division
  <2>3. PICK q \in Int : q = m \div SECTORSIZE
    BY <2>2
  <2>4. SECTORSIZE * q \in Int
    BY <1>1
  <2>. QED  BY <2>2, <2>3, <2>4 DEF RoundDown
<1>3. PICK q \in Int : /\ RoundDown(n, SECTORSIZE) = SECTORSIZE * q
                       /\ n - SECTORSIZE * q \in 0 .. SECTORSIZE - 1
  <2>1. n \in Int
    OBVIOUS
  <2>2. /\ n \div SECTORSIZE \in Int /\ n % SECTORSIZE \in 0 .. SECTORSIZE - 1
        /\ n = SECTORSIZE * (n \div SECTORSIZE) + (n % SECTORSIZE)
    BY <1>1, <2>1, Division
  <2>3. PICK q \in Int : q = n \div SECTORSIZE
    BY <2>2
  <2>4. SECTORSIZE * q \in Int
    BY <1>1
  <2>. QED  BY <2>2, <2>3, <2>4 DEF RoundDown
<1>4. PICK a \in Int : a = SECTORSIZE * p
  BY <1>1
<1>5. PICK b \in Int : b = SECTORSIZE * q
  BY <1>1
<1>6. a <= b
  <2>1. SUFFICES ASSUME a > b PROVE FALSE
    BY <1>4, <1>5
  <2>2. p >= q + 1
    BY <1>1, <1>4, <1>5, <2>1, Z3
  <2>3. a >= b + SECTORSIZE
    BY <1>1, <1>4, <1>5, <2>2, Z3
  <2>. QED  BY <1>1, <1>2, <1>3, <1>4, <1>5, <2>3
<1>7. RoundDown(m, SECTORSIZE) \in Nat
  <2>1. m % SECTORSIZE = m % SECTORSIZE /\ 0 <= m
    OBVIOUS
  <2>. QED  BY SectorPlace
<1>. QED  BY <1>2, <1>3, <1>4, <1>5, <1>6, <1>7

(* Reading any segment of the kernel, a note or an empty one included,     *)
(* loads it and leaves what has been loaded as it is in the file.          *)
LEMMA KernelSegment ==
  ASSUME LoaderInv, mpc = "done",
         NEW f \in DOMAIN Elf, Behind(f, disk, SECTORSIZE), KernelLayout(f),
         NEW t \in Range(Elf[f].ph),
         ReadSeg(t.va, t.filesz, t.memsz, 1 + (t.offset \div SECTORSIZE))
  PROVE  /\ Intact(f) => Intact(f)'
         /\ t.type = "LOAD" => Loaded(f, t)'
         /\ \A s \in Segment(f, "LOAD") : Loaded(f, s) => Loaded(f, s)'
<1>1. /\ Sized(t) /\ t.offset % SECTORSIZE = t.va % SECTORSIZE
      /\ t.filesz <= t.memsz
      /\ t.offset + t.filesz \in Nat
      /\ t.offset + t.filesz <= Len(Content[f])
      /\ Len(Content[f]) \in Nat
  BY SegmentOnDisk, ElfBytes
<1>2. \A a \in Addresses :
        a \notin Sectors(t) \cup Memory(t) => mem'[a] = mem[a]
  BY <1>1, SegmentRead
<1>3. Intact(f) => Intact(f)'
  <2>1. Apart(Sectors(t) \cup Memory(t), Scratch)
    BY DEF KernelLayout
  <2>2. \A a \in Scratch : a \in Addresses => mem'[a] = mem[a]
    BY <1>2, <2>1 DEF Apart
  <2>. QED  BY <2>2, ScratchIsMemory DEF Intact
<1>4. PICK first \in Nat : /\ first = RoundDown(t.va, SECTORSIZE)
                           /\ first <= t.va
  BY <1>1, SectorPlace DEF Sized
<1>5. PICK end \in Nat : end = t.va + t.filesz
  BY <1>1 DEF Sized
<1>6. PICK last \in Nat : last = end + Padding(end)
  BY <1>5, PaddingFills, SectorNat
<1>7. Sectors(t) = first .. last - 1 /\ end <= last
  <2>1. Padding(end) \in Nat
    BY PaddingNat
  <2>2. Sectors(t) = first .. last - 1
    BY <1>4, <1>5, <1>6, SectorRange
  <2>. QED  BY <1>6, <2>1, <2>2
<1>8. CASE t.type = "LOAD"
  <2>1. t \in Segment(f, "LOAD")
    BY <1>8 DEF Segment
  <2>2. Loaded(f, t)'
    <3>1. SUFFICES ASSUME NEW k \in 0 .. t.memsz - 1
          PROVE  mem'[t.va + k] = IF k < t.filesz
                                    THEN Content[f][t.offset + k + 1] ELSE Zero
      BY DEF Loaded
    <3>2. PICK a : a = t.va + k
      OBVIOUS
    <3>3. /\ t.va \in Nat /\ t.filesz \in Nat /\ t.memsz \in Nat
          /\ t.offset \in Nat /\ k \in Nat
      BY <1>1 DEF Sized
    <3>4. a \in Memory(t)
      BY <3>2, <3>3 DEF Memory
    <3>5. a \in Addresses
      BY <2>1, <3>4 DEF KernelLayout
    <3>6. CASE k < t.filesz
      <4>1. a \in Sectors(t)
        BY <1>4, <1>5, <1>7, <3>2, <3>3, <3>6
      <4>2. ~(t.va + t.filesz <= a /\ a < t.va + t.memsz)
        BY <3>2, <3>3, <3>6
      <4>3. t.offset + (a - t.va) = t.offset + k
        BY <3>2, <3>3
      <4>4. t.offset + k < Len(Content[f])
        BY <1>1, <3>3, <3>6
      <4>5. mem'[a] = Content[f][t.offset + (a - t.va) + 1]
        BY <3>5, <4>1, <4>2, <4>3, <4>4, KernelBytes
      <4>. QED  BY <3>2, <3>6, <4>3, <4>5
    <3>7. CASE ~(k < t.filesz)
      <4>1. t.va + t.filesz <= a /\ a < t.va + t.memsz
        BY <3>2, <3>3, <3>7
      <4>2. mem'[a] = Zero
        BY <1>1, <3>5, <4>1, SegmentRead
      <4>. QED  BY <3>2, <3>7, <4>2
    <3>. QED  BY <3>6, <3>7
  <2>3. ASSUME NEW s \in Segment(f, "LOAD"), Loaded(f, s)
        PROVE  Loaded(f, s)'
    <3>1. CASE s = t
      BY <2>2, <3>1
    <3>2. CASE s # t
      <4>1. Apart(Sectors(t) \cup Memory(t), Memory(s))
            /\ Memory(s) \subseteq Addresses
        BY <2>1, <3>2 DEF KernelLayout
      <4>2. \A a \in Memory(s) : mem'[a] = mem[a]
        BY <1>2, <4>1 DEF Apart
      <4>. QED  BY <2>3, <4>2, SegmentsAreHeaders, StaysLoaded
    <3>. QED  BY <3>1, <3>2
  <2>. QED  BY <1>3, <2>2, <2>3
<1>9. CASE t.type # "LOAD"
  <2>1. t \in Range(Elf[f].ph) \ Segment(f, "LOAD")
    BY <1>9 DEF Segment
  <2>2. Empty(t) \/ \E s \in Segment(f, "LOAD") : PartOf(t, s)
    BY <2>1 DEF KernelLayout
  <2>3. CASE Empty(t)
    <3>1. mem' = mem
      BY <1>1, <2>3, EmptyRead DEF LoaderInv
    <3>. QED  BY <1>3, <1>9, <3>1 DEF Loaded
  <2>4. ASSUME NEW u \in Segment(f, "LOAD"), PartOf(t, u),
               NEW s \in Segment(f, "LOAD"), Loaded(f, s)
        PROVE  Loaded(f, s)'
    <3>1. /\ Sized(u) /\ u \in Range(Elf[f].ph)
          /\ u.offset % SECTORSIZE = u.va % SECTORSIZE
          /\ u.offset + u.filesz <= Len(Content[f])
          /\ u.filesz <= u.memsz
      BY SegmentsAreHeaders, SegmentOnDisk
    <3>2. /\ u.va \in Nat /\ u.filesz \in Nat /\ u.offset \in Nat
          /\ t.va \in Nat /\ t.filesz \in Nat /\ t.offset \in Nat
          /\ u.memsz \in Nat /\ t.memsz = t.filesz
      BY <1>1, <2>4, <3>1 DEF Sized, PartOf
    <3>3. PICK stop \in Nat : stop = u.va + u.filesz
      BY <3>2
    <3>4. /\ t.offset - t.va = u.offset - u.va
          /\ u.va <= t.va /\ end <= stop
          /\ u.memsz = u.filesz \/ last <= stop
      BY <1>5, <1>6, <2>4, <3>3 DEF PartOf
    <3>5. \A a \in Addresses : ~(t.va + t.filesz <= a /\ a < t.va + t.memsz)
      BY <3>2 DEF Addresses
    <3>6. \A a \in Addresses : a \notin Sectors(t) => mem'[a] = mem[a]
      <4>1. \A a \in Memory(t) : a \in Sectors(t)
        BY <1>4, <1>5, <1>7, <3>2 DEF Memory
      <4>. QED  BY <1>2, <4>1
    <3>7. Memory(s) \subseteq Addresses /\ Sized(s)
      BY SegmentsAreHeaders DEF KernelLayout
    <3>8. CASE s = u
      <4>1. SUFFICES ASSUME NEW k \in 0 .. s.memsz - 1
            PROVE  mem'[s.va + k] = IF k < s.filesz
                     THEN Content[f][s.offset + k + 1] ELSE Zero
        BY DEF Loaded
      <4>2. PICK a : a = s.va + k
        OBVIOUS
      <4>3. a \in Memory(s) /\ a \in Addresses /\ k \in Nat
        BY <3>2, <3>7, <3>8, <4>2 DEF Memory
      <4>4. mem[a] = IF k < s.filesz THEN Content[f][s.offset + k + 1]
                                     ELSE Zero
        BY <2>4, <4>2 DEF Loaded
      <4>5. CASE a \notin Sectors(t)
        BY <3>6, <4>2, <4>3, <4>4, <4>5
      <4>6. CASE a \in Sectors(t)
        <5>1. first <= a /\ a < last
          BY <1>7, <4>6
        <5>2. k < s.filesz
          BY <3>2, <3>3, <3>4, <3>8, <4>2, <4>3, <5>1
        <5>3. t.offset + (a - t.va) = s.offset + k
          BY <3>2, <3>4, <3>8, <4>2, <4>3
        <5>4. t.offset + (a - t.va) < Len(Content[f])
          BY <1>1, <3>1, <3>2, <3>8, <4>3, <5>2, <5>3
        <5>5. mem'[a] = Content[f][t.offset + (a - t.va) + 1]
          BY <3>5, <4>3, <4>6, <5>4, KernelBytes
        <5>. QED  BY <4>2, <5>2, <5>3, <5>5
      <4>. QED  BY <4>5, <4>6
    <3>9. CASE s # u
      <4>1. Apart(Sectors(u) \cup Memory(u), Memory(s))
        BY <3>9 DEF KernelLayout
      <4>2. Sectors(t) \subseteq Sectors(u)
        <5>1. RoundDown(u.va, SECTORSIZE) <= first
              /\ RoundDown(u.va, SECTORSIZE) \in Nat
          BY <1>1, <1>4, <3>1, <3>2, <3>4, RoundDownGrows
        <5>2. last <= stop + Padding(stop) /\ stop + Padding(stop) \in Nat
          BY <1>6, <3>4, PaddingGrows, PaddingFills, SectorNat
        <5>4. PICK x \in Nat : x = RoundDown(u.va, SECTORSIZE) /\ x <= first
          BY <5>1
        <5>5. PICK y \in Nat : y = stop + Padding(stop) /\ last <= y
          BY <5>2
        <5>6. Sectors(u) = x .. y - 1
          BY <3>3, <5>4, <5>5, SectorRange
        <5>. QED  BY <1>7, <5>4, <5>5, <5>6
      <4>3. \A a \in Memory(s) : mem'[a] = mem[a]
        BY <3>6, <3>7, <4>1, <4>2 DEF Apart
      <4>. QED  BY <2>4, <3>7, <4>3, StaysLoaded
    <3>. QED  BY <3>8, <3>9
  <2>. QED  BY <1>3, <1>9, <2>2, <2>3, <2>4
<1>. QED  BY <1>8, <1>9

(* Where the kernel is, the files of the programs are. *)
LEMMA ProgramInKernel ==
  ASSUME NEW f \in DOMAIN Elf, NEW g \in DOMAIN Elf, NEW at \in Nat,
         LinkedIn(f, g, at), AllLoaded(f)
  PROVE  \A j \in 0 .. Len(Content[g]) - 1 : mem[at + j] = Content[g][j + 1]
<1>1. PICK s \in Segment(f, "LOAD") :
        /\ s.va <= at /\ at + Len(Content[g]) <= s.va + s.filesz
        /\ \A k \in 1 .. Len(Content[g]) :
             Content[f][s.offset + (at - s.va) + k] = Content[g][k]
  BY DEF LinkedIn
<1>2. /\ s.va \in Nat /\ s.filesz \in Nat /\ s.offset \in Nat
      /\ s.memsz \in Nat /\ s.filesz <= s.memsz
  BY SegmentsAreHeaders, SegmentOnDisk DEF Sized
<1>3. Loaded(f, s)
  BY DEF AllLoaded
<1>4. PICK n \in Nat : n = Len(Content[g])
  BY ElfBytes
<1>. SUFFICES ASSUME NEW j \in 0 .. n - 1
              PROVE  mem[at + j] = Content[g][j + 1]
  BY <1>4
<1>5. PICK k \in Nat : k = (at - s.va) + j
  BY <1>1, <1>2
<1>6. k \in 0 .. s.memsz - 1 /\ k < s.filesz
  <2>1. at + n <= s.va + s.filesz /\ j \in Nat /\ j < n
    BY <1>1, <1>4
  <2>2. k < s.filesz
    BY <1>2, <1>5, <2>1
  <2>. QED  BY <1>2, <2>2
<1>7. mem[s.va + k] = Content[f][s.offset + k + 1]
  BY <1>3, <1>6 DEF Loaded
<1>8. j + 1 \in 1 .. n
  OBVIOUS
<1>9. Content[f][s.offset + (at - s.va) + (j + 1)] = Content[g][j + 1]
  BY <1>1, <1>4, <1>8
<1>10. s.va + k = at + j
       /\ s.offset + (at - s.va) + (j + 1) = s.offset + k + 1
  BY <1>1, <1>2, <1>5
<1>. QED  BY <1>7, <1>9, <1>10

(* So the kernel reads the headers of the program it is to load. *)
LEMMA ProgramHeader ==
  ASSUME NEW f \in DOMAIN Elf, NEW g \in DOMAIN Elf, NEW at \in Nat,
         \A j \in 0 .. Len(Content[g]) - 1 : mem[at + j] = Content[g][j + 1]
  PROVE  /\ mem[at] = <<g, 0>> /\ IsElf(at) /\ Header(at) = Elf[g]
         /\ \A n \in DOMAIN Elf[g].ph : Proghdr(at, n) = Elf[g].ph[n]
<1>1. PICK l \in Nat : /\ l = Len(Elf[g].ph) /\ DOMAIN Elf[g].ph = 1 .. l
                       /\ l < Len(Content[g])
                       /\ \A n \in 0 .. l : Content[g][n + 1] = <<g, n>>
  <2>1. ElfFile(g)
    BY ElfAssumption
  <2>2. Elf[g].ph \in Seq(ProgramHeaders)
    BY <2>1 DEF ElfFile
  <2>3. Len(Elf[g].ph) \in Nat /\ DOMAIN Elf[g].ph = 1 .. Len(Elf[g].ph)
    BY <2>2
  <2>. QED  BY <2>1, <2>3 DEF ElfFile
<1>2. Len(Content[g]) \in Nat
  BY ElfBytes
<1>3. ASSUME NEW n \in 0 .. l PROVE mem[at + n] = <<g, n>>
  <2>1. n \in 0 .. Len(Content[g]) - 1
    BY <1>1, <1>2
  <2>. QED  BY <1>1, <2>1
<1>4. mem[at] = <<g, 0>>
  <2>1. mem[at + 0] = <<g, 0>> /\ at + 0 = at
    BY <1>1, <1>3
  <2>. QED  BY <2>1
<1>5. IsElf(at) /\ Header(at) = Elf[g]
  BY <1>4 DEF IsElf, Header
<1>6. ASSUME NEW n \in DOMAIN Elf[g].ph PROVE Proghdr(at, n) = Elf[g].ph[n]
  <2>1. n \in 0 .. l /\ n \in Nat
    BY <1>1
  <2>2. mem[at + n] # Zero
    <3>1. mem[at + n] = <<g, n>>
      BY <1>3, <2>1
    <3>2. <<g, n>> # Zero
      BY <2>1, ElfBytes
    <3>. QED  BY <3>1, <3>2
  <2>. QED  BY <1>5, <2>2 DEF Proghdr
<1>. QED  BY <1>4, <1>5, <1>6

(* The same for the boot loader and the header on the scratch page. *)
LEMMA KernelHeader ==
  ASSUME NEW f \in DOMAIN Elf, Intact(f)
  PROVE  /\ mem[ELFHDR] = <<f, 0>> /\ IsElf(ELFHDR) /\ Header(ELFHDR) = Elf[f]
         /\ \A n \in DOMAIN Elf[f].ph : Proghdr(ELFHDR, n) = Elf[f].ph[n]
<1>1. Elf[f].ph \in Seq(ProgramHeaders)
  BY ElfAssumption DEF ElfFile
<1>2. PICK l \in Nat : l = Len(Elf[f].ph) /\ DOMAIN Elf[f].ph = 1 .. l
  BY <1>1
<1>3. mem[ELFHDR] = <<f, 0>>
  <2>1. ELFHDR + 0 = ELFHDR
    BY PageFacts
  <2>2. 0 \in 0 .. Len(Elf[f].ph)
    BY <1>2
  <2>3. mem[ELFHDR + 0] = <<f, 0>>
    BY <2>2 DEF Intact
  <2>. QED  BY <2>1, <2>3
<1>4. IsElf(ELFHDR) /\ Header(ELFHDR) = Elf[f]
  BY <1>3 DEF IsElf, Header
<1>5. ASSUME NEW n \in DOMAIN Elf[f].ph
      PROVE  Proghdr(ELFHDR, n) = Elf[f].ph[n]
  <2>1. n \in 0 .. Len(Elf[f].ph) /\ n \in Nat
    BY <1>2
  <2>2. mem[ELFHDR + n] = <<f, n>> /\ <<f, n>> # Zero
    BY <2>1, ElfBytes DEF Intact
  <2>. QED  BY <1>4, <2>2 DEF Proghdr
<1>. QED  BY <1>3, <1>4, <1>5

(* Copying a segment of a program puts it in its place, and touches        *)
(* nothing that has been loaded before.                                    *)
LEMMA ProgramSegment ==
  ASSUME NEW f \in DOMAIN Elf,
         NEW program \in [DOMAIN ramimages -> DOMAIN Elf],
         KernelLayout(f), ProgramLayout(f, program),
         AllLoaded(f), NEW p \in DOMAIN ramimages,
         NEW t \in Segment(program[p], "LOAD"),
         CopySeg(t.va, ramimages[p] + t.offset, t.filesz, t.memsz)
  PROVE  /\ Intact(f) => Intact(f)'
         /\ AllLoaded(f)'
         /\ Loaded(program[p], t)'
         /\ \A q \in DOMAIN ramimages : \A s \in Segment(program[q], "LOAD") :
              Loaded(program[q], s) => Loaded(program[q], s)'
<1>1. PICK g \in DOMAIN Elf : g = program[p]
  OBVIOUS
<1>2. PICK at \in Nat : at = ramimages[p]
  BY RoomAssumption
<1>3. /\ t \in Range(Elf[g].ph) /\ Sized(t) /\ t.filesz <= t.memsz
      /\ t.offset + t.filesz <= Len(Content[g]) /\ Len(Content[g]) \in Nat
  BY <1>1, SegmentsAreHeaders, SegmentOnDisk, ElfBytes
<1>4. /\ t.va \in Nat /\ t.filesz \in Nat /\ t.memsz \in Nat
      /\ t.offset \in Nat
  BY <1>3 DEF Sized
<1>5. /\ LinkedIn(f, g, at) /\ t.va % PAGESIZE = 0
      /\ Memory(t) \subseteq Addresses \ Scratch
      /\ \A s \in Segment(f, "LOAD") : Apart(Memory(t), Memory(s))
  BY <1>1, <1>2 DEF ProgramLayout
<1>6. RoundDown(t.va, PAGESIZE) = t.va
  BY <1>4, <1>5 DEF RoundDown
<1>7. mem' = [a \in Addresses |->
        IF t.va + t.filesz <= a /\ a < t.va + t.memsz THEN Zero
        ELSE IF t.va <= a /\ a < t.va + t.filesz
          THEN mem[at + t.offset + (a - t.va)]
        ELSE mem[a]]
  BY <1>2, <1>6 DEF CopySeg
<1>8. \A a \in Addresses : a \notin Memory(t) => mem'[a] = mem[a]
  <2>1. \A a \in Addresses : a \in Int
    BY DEF Addresses
  <2>. QED  BY <1>3, <1>4, <1>7, <2>1 DEF Memory
<1>9. Intact(f) => Intact(f)'
  <2>1. ASSUME NEW n \in 0 .. Len(Elf[f].ph)
        PROVE  mem'[ELFHDR + n] = mem[ELFHDR + n]
    BY <1>5, <1>8, ScratchIsMemory
  <2>. QED  BY <2>1 DEF Intact
<1>10. AllLoaded(f)'
  <2>1. ASSUME NEW s \in Segment(f, "LOAD") PROVE Loaded(f, s)'
    <3>1. Memory(s) \subseteq Addresses /\ Sized(s) /\ Loaded(f, s)
      BY SegmentsAreHeaders DEF KernelLayout, AllLoaded
    <3>2. \A a \in Memory(s) : mem'[a] = mem[a]
      BY <1>5, <1>8, <3>1 DEF Apart
    <3>. QED  BY <3>1, <3>2, StaysLoaded
  <2>. QED  BY <2>1 DEF AllLoaded
<1>11. Loaded(program[p], t)'
  <2>1. SUFFICES ASSUME NEW k \in 0 .. t.memsz - 1
        PROVE  mem'[t.va + k] = IF k < t.filesz
                                  THEN Content[g][t.offset + k + 1] ELSE Zero
    BY <1>1 DEF Loaded
  <2>2. PICK a \in Nat : a = t.va + k
    BY <1>4
  <2>3. a \in Addresses
    BY <1>4, <1>5, <2>2 DEF Memory
  <2>4. CASE k < t.filesz
    <3>1. mem'[a] = mem[at + t.offset + (a - t.va)]
      BY <1>4, <1>7, <2>2, <2>3, <2>4
    <3>2. at + t.offset + (a - t.va) = at + (t.offset + k)
      BY <1>4, <2>2
    <3>3. t.offset + k \in 0 .. Len(Content[g]) - 1
      BY <1>3, <1>4, <2>4
    <3>4. mem[at + (t.offset + k)] = Content[g][(t.offset + k) + 1]
      BY <1>5, <3>3, ProgramInKernel
    <3>. QED  BY <2>2, <2>4, <3>1, <3>2, <3>4
  <2>5. CASE ~(k < t.filesz)
    BY <1>4, <1>7, <2>2, <2>3, <2>5
  <2>. QED  BY <2>4, <2>5
<1>12. ASSUME NEW q \in DOMAIN ramimages,
              NEW s \in Segment(program[q], "LOAD"), Loaded(program[q], s)
       PROVE  Loaded(program[q], s)'
  <2>1. CASE q = p /\ s = t
    BY <1>11, <2>1
  <2>2. CASE q # p \/ s # t
    <3>1. Apart(Memory(t), Memory(s))
      BY <2>2 DEF ProgramLayout
    <3>2. Memory(s) \subseteq Addresses /\ Sized(s)
      BY SegmentsAreHeaders DEF ProgramLayout
    <3>3. \A a \in Memory(s) : mem'[a] = mem[a]
      BY <1>8, <3>1, <3>2 DEF Apart
    <3>. QED  BY <1>12, <3>2, <3>3, StaysLoaded
  <2>. QED  BY <2>1, <2>2
<1>. QED  BY <1>9, <1>10, <1>11, <1>12

LMInv == LoaderInv /\ WholeInv

(* If the page that bootmain() reads begins with a header, the disk has    *)
(* that kernel.                                                            *)
LEMMA ReadHeaderWhole == LMInv /\ ReadHeader /\ UNCHANGED mkvars => WholeInv'
<1>. SUFFICES ASSUME LMInv, ReadHeader, UNCHANGED mkvars PROVE WholeInv'
  OBVIOUS
<1>1. /\ mpc = "done" /\ lpc = "off" /\ lpc' = "bootmain"
      /\ ReadSeg(ELFHDR, PAGESIZE, PAGESIZE, 1)
      /\ UNCHANGED <<ph, pid, eip, disk, lost, argv>>
      /\ ph = 1 /\ ImageInv /\ LoaderInv
  BY DEF ReadHeader, mkvars, LMInv, LoaderInv, LdInv
<1>2. ReadSeg(Page.va, Page.filesz, Page.memsz,
              1 + (Page.offset \div SECTORSIZE))
  <2>1. 1 + 0 = 1
    OBVIOUS
  <2>. QED  BY <1>1, <2>1, PageFacts DEF Page
<1>3. ASSUME NEW n \in 0 .. PAGESIZE - 1
      PROVE  mem'[ELFHDR + n] = disk[SECTORSIZE + (n + 1)]
  <2>1. /\ ELFHDR \in Nat /\ PAGESIZE \in Nat
        /\ MEMSIZE \in Nat /\ ELFHDR + PAGESIZE <= MEMSIZE
    BY PageFacts, RoomAssumption
  <2>2. PICK a \in Nat : a = ELFHDR + n
    BY <2>1
  <2>3. a \in Addresses
    BY <2>1, <2>2 DEF Addresses
  <2>4. Sectors(Page) = ELFHDR .. (ELFHDR + PAGESIZE) - 1
    <3>1. PICK end \in Nat : end = ELFHDR + PAGESIZE
      BY <2>1
    <3>2. end = end + Padding(end)
      BY <3>1, PageFacts
    <3>3. ELFHDR = RoundDown(Page.va, SECTORSIZE)
          /\ end = Page.va + Page.filesz
      BY <3>1, PageFacts DEF Page
    <3>. QED  BY <3>1, <3>2, <3>3, SectorRange
  <2>5. a \in Sectors(Page)
    BY <2>1, <2>2, <2>4
  <2>6. ~(Page.va + Page.filesz <= a /\ a < Page.va + Page.memsz)
    BY <2>1, <2>2 DEF Page
  <2>7. Page.offset + (a - Page.va) = n
    BY <2>1, <2>2 DEF Page
  <2>8. SECTORSIZE + Page.offset + (a - Page.va) = SECTORSIZE + n
    BY <2>1, <2>2, SectorNat DEF Page
  <2>9. mem'[a] = DiskByte(SECTORSIZE + n)
    BY <1>2, <2>3, <2>5, <2>6, <2>8, PageFacts, SegmentRead
  <2>10. SECTORSIZE + n \in Nat /\ SECTORSIZE + n < NSECTORS * SECTORSIZE
    <3>1. SECTORSIZE + PAGESIZE <= NSECTORS * SECTORSIZE
          /\ NSECTORS * SECTORSIZE \in Nat
      BY <1>1, RoomAssumption, DiskIsDone
    <3>. QED  BY <2>1, <3>1, SectorNat
  <2>11. mem'[a] = disk[(SECTORSIZE + n) + 1]
    BY <1>1, <2>9, <2>10, DiskBytes
  <2>12. (SECTORSIZE + n) + 1 = SECTORSIZE + (n + 1)
    BY SectorNat
  <2>. QED  BY <2>2, <2>11, <2>12
<1>4. ASSUME ~lost, NEW f \in DOMAIN Elf, mem'[ELFHDR] = <<f, 0>>
      PROVE  \E program \in [DOMAIN ramimages -> DOMAIN Elf] :
               Good(f, program)'
  <2>1. disk[SECTORSIZE + 1] = <<f, 0>>
    <3>1. 0 \in 0 .. PAGESIZE - 1 /\ ELFHDR + 0 = ELFHDR /\ 0 + 1 = 1
      BY PageFacts
    <3>. QED  BY <1>3, <1>4, <3>1
  <2>2. Named(f) /\ Behind(f, disk, SECTORSIZE)
    <3>1. Starts(f, disk)
      BY <1>1, <1>4, KernelOnDisk
    <3>2. Len(disk) > SECTORSIZE
      <4>1. /\ NSECTORS * SECTORSIZE <= Len(disk) /\ Len(disk) \in Nat
            /\ NSECTORS * SECTORSIZE \in Nat
        BY <1>1, DiskIsDone
      <4>2. SECTORSIZE + PAGESIZE <= NSECTORS * SECTORSIZE
        BY RoomAssumption
      <4>3. PAGESIZE \in Nat \ {0}
        BY PageFacts
      <4>. QED  BY <4>1, <4>2, <4>3, SectorNat
    <3>. QED  BY <2>1, <3>1, <3>2 DEF Starts
  <2>3. Linked(f)
    <3>1. argv \in Arguments
      BY <1>1 DEF ImageInv, IInv, TypeInv
    <3>. QED  BY <2>2, <3>1, LinkAssumption DEF Named
  <2>4. PICK program \in [DOMAIN ramimages -> DOMAIN Elf] :
          ProgramLayout(f, program)
    BY <2>3 DEF Linked
  <2>5. Intact(f)'
    <3>1. SUFFICES ASSUME NEW n \in 0 .. Len(Elf[f].ph)
          PROVE  mem'[ELFHDR + n] = <<f, n>>
      BY DEF Intact
    <3>2. ElfFile(f)
      BY ElfAssumption
    <3>3. /\ Len(Elf[f].ph) \in Nat /\ Len(Elf[f].ph) < SECTORSIZE
          /\ Len(Elf[f].ph) < Len(Content[f])
          /\ Content[f][n + 1] = <<f, n>>
      BY <3>2 DEF ElfFile
    <3>4. SECTORSIZE <= PAGESIZE /\ PAGESIZE \in Nat
      BY PageFacts
    <3>5. n \in 0 .. PAGESIZE - 1
      BY <3>3, <3>4, SectorNat
    <3>6. n + 1 \in 1 .. Len(Content[f])
      BY <3>3, ElfBytes
    <3>7. disk[SECTORSIZE + (n + 1)] = Content[f][n + 1]
      BY <2>2, <3>6 DEF Behind
    <3>. QED  BY <1>3, <3>3, <3>5, <3>7
  <2>6. LoadedTo(f, ph)'
    <3>1. DOMAIN Elf[f].ph \subseteq Nat \ {0}
      <4>1. Elf[f].ph \in Seq(ProgramHeaders)
        BY ElfAssumption DEF ElfFile
      <4>. QED  BY <4>1
    <3>. QED  BY <1>1, <3>1 DEF LoadedTo
  <2>7. Disked(f, program)'
    BY <1>1, <2>2, <2>3, <2>4 DEF Disked, Behind, Linked
  <2>. QED  BY <1>1, <2>5, <2>6, <2>7 DEF Good
<1>5. CASE lost
  BY <1>1, <1>5 DEF WholeInv
<1>6. CASE ~lost /\ ~IsElf(ELFHDR)'
  BY <1>1, <1>6 DEF WholeInv
<1>7. CASE ~lost /\ IsElf(ELFHDR)'
  <2>1. PICK f \in DOMAIN Elf : mem'[ELFHDR] = <<f, 0>>
    BY <1>7 DEF IsElf
  <2>. QED  BY <1>4, <1>7, <2>1 DEF WholeInv
<1>. QED  BY <1>5, <1>6, <1>7

(* The state from which the boot loader and the kernel go on. *)
LEMMA Going ==
  ASSUME LMInv, ~lost, lpc \in {"bootmain", "start", "running", "panic"},
         lpc = "bootmain" => IsElf(ELFHDR)
  PROVE  \E f \in DOMAIN Elf, program \in [DOMAIN ramimages -> DOMAIN Elf] :
           Good(f, program)
BY DEF LMInv, WholeInv

(* bootmain() loads the next segment of the kernel.                        *)
LEMMA ReadSegmentWhole == LMInv /\ ReadSegment /\ UNCHANGED mkvars => WholeInv'
<1>. SUFFICES ASSUME LMInv, ReadSegment, UNCHANGED mkvars, ~lost
              PROVE  WholeInv'
  BY DEF WholeInv, mkvars
<1>0. PICK s : s = Proghdr(ELFHDR, ph)
  OBVIOUS
<1>1. /\ lpc = "bootmain" /\ IsElf(ELFHDR) /\ ph <= Len(Header(ELFHDR).ph)
      /\ ReadSeg(s.va, s.filesz, s.memsz, 1 + (s.offset \div SECTORSIZE))
      /\ ph' = ph + 1 /\ UNCHANGED <<lpc, pid, eip, disk, lost>>
  BY <1>0 DEF ReadSegment, mkvars
<1>2. LoaderInv /\ mpc = "done" /\ ph \in Nat \ {0}
  BY <1>1 DEF LMInv, LoaderInv, LdInv
<1>3. PICK f \in DOMAIN Elf, program \in [DOMAIN ramimages -> DOMAIN Elf] :
        Good(f, program)
  BY <1>1, Going
<1>4. /\ Disked(f, program) /\ Intact(f) /\ LoadedTo(f, ph)
      /\ Behind(f, disk, SECTORSIZE) /\ KernelLayout(f)
  BY <1>1, <1>3 DEF Good, Disked
<1>5. ph \in DOMAIN Elf[f].ph
  <2>1. Header(ELFHDR) = Elf[f]
    BY <1>4, KernelHeader
  <2>2. Elf[f].ph \in Seq(ProgramHeaders)
    BY ElfAssumption DEF ElfFile
  <2>. QED  BY <1>1, <1>2, <2>1, <2>2
<1>6. s = Elf[f].ph[ph] /\ s \in Range(Elf[f].ph)
  BY <1>0, <1>4, <1>5, KernelHeader DEF Range
<1>7. /\ Intact(f)' /\ (s.type = "LOAD" => Loaded(f, s)')
      /\ \A u \in Segment(f, "LOAD") : Loaded(f, u) => Loaded(f, u)'
  BY <1>1, <1>2, <1>4, <1>6, KernelSegment
<1>8. LoadedTo(f, ph)'
  <2>1. ASSUME NEW k \in DOMAIN Elf[f].ph, k < ph + 1,
               Elf[f].ph[k].type = "LOAD"
        PROVE  Loaded(f, Elf[f].ph[k])'
    <3>1. CASE k = ph
      BY <1>6, <1>7, <2>1, <3>1
    <3>2. CASE k # ph
      <4>1. Elf[f].ph \in Seq(ProgramHeaders)
        BY ElfAssumption DEF ElfFile
      <4>2. k < ph
        BY <1>2, <2>1, <3>2, <4>1
      <4>3. Loaded(f, Elf[f].ph[k])
        BY <1>4, <2>1, <4>2 DEF LoadedTo
      <4>4. Elf[f].ph[k] \in Segment(f, "LOAD")
        BY <2>1 DEF Segment, Range
      <4>. QED  BY <1>7, <4>3, <4>4
    <3>. QED  BY <3>1, <3>2
  <2>. QED  BY <1>1, <2>1 DEF LoadedTo
<1>9. Disked(f, program)'
  BY <1>1, <1>4 DEF Disked, Behind
<1>10. Good(f, program)'
  BY <1>1, <1>7, <1>8, <1>9 DEF Good
<1>. QED  BY <1>10 DEF WholeInv

(* bootmain() jumps when the last segment has been read.                   *)
LEMMA JumpWhole == LMInv /\ JumpToKernel /\ UNCHANGED mkvars => WholeInv'
<1>. SUFFICES ASSUME LMInv, JumpToKernel, UNCHANGED mkvars, ~lost
              PROVE  WholeInv'
  BY DEF WholeInv, mkvars
<1>1. /\ lpc = "bootmain" /\ IsElf(ELFHDR) /\ ph > Len(Header(ELFHDR).ph)
      /\ lpc' = "start" /\ ph' = 1 /\ pid' = 1
      /\ UNCHANGED <<mem, eip, disk, lost>>
  BY DEF JumpToKernel, mkvars
<1>2. ph \in Nat
  BY DEF LMInv, LoaderInv, LdInv
<1>3. PICK f \in DOMAIN Elf, program \in [DOMAIN ramimages -> DOMAIN Elf] :
        Good(f, program)
  BY <1>1, Going
<1>4. Disked(f, program) /\ Intact(f) /\ LoadedTo(f, ph)
  BY <1>1, <1>3 DEF Good
<1>5. \A k \in DOMAIN Elf[f].ph : k < ph
  <2>1. Header(ELFHDR) = Elf[f]
    BY <1>4, KernelHeader
  <2>2. Elf[f].ph \in Seq(ProgramHeaders)
    BY ElfAssumption DEF ElfFile
  <2>. QED  BY <1>1, <1>2, <2>1, <2>2
<1>6. AllLoaded(f)
  BY <1>4, <1>5, SegmentsAreHeaders
<1>7. Programs(program)'
  <2>1. ASSUME NEW p \in DOMAIN ramimages
        PROVE  ~(p < 1) /\ \A k \in DOMAIN Elf[program[p]].ph : ~(k < 1)
    <3>1. ramimages \in Seq(Nat)
      BY RoomAssumption
    <3>2. Elf[program[p]].ph \in Seq(ProgramHeaders)
      BY ElfAssumption DEF ElfFile
    <3>. QED  BY <3>1, <3>2
  <2>. QED  BY <1>1, <2>1 DEF Programs, LoadedTo
<1>8. Disked(f, program)' /\ Intact(f)' /\ AllLoaded(f)'
  BY <1>1, <1>4, <1>6 DEF Disked, Behind, Intact, AllLoaded, Loaded
<1>9. Good(f, program)'
  BY <1>1, <1>7, <1>8 DEF Good
<1>. QED  BY <1>9 DEF WholeInv

(* What start() knows of the program it is loading. *)
LEMMA Starting ==
  ASSUME NEW f \in DOMAIN Elf,
         NEW program \in [DOMAIN ramimages -> DOMAIN Elf],
         Good(f, program), lpc \in {"start", "running"},
         NEW p \in DOMAIN ramimages
  PROVE  /\ ramimages[p] \in Nat /\ program[p] \in DOMAIN Elf
         /\ mem[ramimages[p]] = <<program[p], 0>>
         /\ IsElf(ramimages[p]) /\ Header(ramimages[p]) = Elf[program[p]]
         /\ \A n \in DOMAIN Elf[program[p]].ph :
              Proghdr(ramimages[p], n) = Elf[program[p]].ph[n]
<1>1. PICK at \in Nat : at = ramimages[p]
  BY RoomAssumption
<1>2. PICK g \in DOMAIN Elf : g = program[p]
  OBVIOUS
<1>3. LinkedIn(f, g, at) /\ AllLoaded(f)
  BY <1>1, <1>2 DEF Good, Disked, ProgramLayout
<1>4. \A j \in 0 .. Len(Content[g]) - 1 : mem[at + j] = Content[g][j + 1]
  BY <1>3, ProgramInKernel
<1>5. /\ mem[at] = <<g, 0>> /\ IsElf(at) /\ Header(at) = Elf[g]
      /\ \A n \in DOMAIN Elf[g].ph : Proghdr(at, n) = Elf[g].ph[n]
  BY <1>4, ProgramHeader
<1>. QED  BY <1>1, <1>2, <1>5

(* program_loader() loads the next segment of a program.                   *)
LEMMA CopyWhole == LMInv /\ CopySegment /\ UNCHANGED mkvars => WholeInv'
<1>. SUFFICES ASSUME LMInv, CopySegment, UNCHANGED mkvars, ~lost
              PROVE  WholeInv'
  BY DEF WholeInv, mkvars
<1>1. PICK at : at = ramimages[pid]
  OBVIOUS
<1>2. PICK t : t = Proghdr(at, ph)
  OBVIOUS
<1>3. /\ lpc = "start" /\ pid \in DOMAIN ramimages
      /\ ph <= Len(Header(at).ph)
      /\ IF t.type = "LOAD"
           THEN CopySeg(t.va, at + t.offset, t.filesz, t.memsz)
           ELSE UNCHANGED mem
      /\ ph' = ph + 1 /\ UNCHANGED <<lpc, pid, eip, disk, lost>>
  BY <1>1, <1>2 DEF CopySegment, mkvars
<1>4. ph \in Nat \ {0}
  BY DEF LMInv, LoaderInv, LdInv
<1>5. PICK f \in DOMAIN Elf, program \in [DOMAIN ramimages -> DOMAIN Elf] :
        Good(f, program)
  BY <1>3, Going
<1>6. /\ Disked(f, program) /\ Intact(f) /\ AllLoaded(f) /\ Programs(program)
      /\ KernelLayout(f) /\ ProgramLayout(f, program)
  BY <1>3, <1>5 DEF Good, Disked
<1>7. PICK g \in DOMAIN Elf : g = program[pid]
  BY <1>3
<1>8. /\ Header(at) = Elf[g]
      /\ \A n \in DOMAIN Elf[g].ph : Proghdr(at, n) = Elf[g].ph[n]
  BY <1>1, <1>3, <1>5, <1>7, Starting
<1>9. Elf[g].ph \in Seq(ProgramHeaders)
  BY ElfAssumption DEF ElfFile
<1>10. ph \in DOMAIN Elf[g].ph
  BY <1>3, <1>4, <1>8, <1>9
<1>11. t = Elf[g].ph[ph]
  BY <1>2, <1>8, <1>10
<1>12. /\ Intact(f)' /\ AllLoaded(f)'
       /\ t.type = "LOAD" => Loaded(g, t)'
       /\ \A q \in DOMAIN ramimages : \A s \in Segment(program[q], "LOAD") :
            Loaded(program[q], s) => Loaded(program[q], s)'
  <2>1. CASE t.type = "LOAD"
    <3>1. t \in Segment(g, "LOAD")
      BY <1>10, <1>11, <2>1 DEF Segment, Range
    <3>2. CopySeg(t.va, ramimages[pid] + t.offset, t.filesz, t.memsz)
      BY <1>1, <1>3, <2>1
    <3>. QED  BY <1>3, <1>6, <1>7, <3>1, <3>2, ProgramSegment
  <2>2. CASE t.type # "LOAD"
    BY <1>3, <1>6, <2>2 DEF Intact, AllLoaded, Loaded
  <2>. QED  BY <2>1, <2>2
<1>13. Programs(program)'
  <2>1. ASSUME NEW p \in DOMAIN ramimages, p < pid
        PROVE  AllLoaded(program[p])' /\ eip'[p] = Elf[program[p]].entry
    <3>1. AllLoaded(program[p]) /\ eip[p] = Elf[program[p]].entry
      BY <1>6, <2>1 DEF Programs
    <3>. QED  BY <1>3, <1>12, <3>1 DEF AllLoaded
  <2>2. LoadedTo(g, ph)'
    <3>1. LoadedTo(g, ph)
      BY <1>3, <1>6, <1>7 DEF Programs
    <3>2. ASSUME NEW k \in DOMAIN Elf[g].ph, k < ph + 1,
                 Elf[g].ph[k].type = "LOAD"
          PROVE  Loaded(g, Elf[g].ph[k])'
      <4>1. CASE k = ph
        BY <1>11, <1>12, <3>2, <4>1
      <4>2. CASE k # ph
        <5>1. k < ph
          BY <1>4, <1>9, <3>2, <4>2
        <5>2. Loaded(g, Elf[g].ph[k])
          BY <3>1, <3>2, <5>1 DEF LoadedTo
        <5>3. Elf[g].ph[k] \in Segment(g, "LOAD")
          BY <3>2 DEF Segment, Range
        <5>. QED  BY <1>3, <1>7, <1>12, <5>2, <5>3
      <4>. QED  BY <4>1, <4>2
    <3>. QED  BY <1>3, <3>2 DEF LoadedTo
  <2>. QED  BY <1>3, <1>7, <2>1, <2>2 DEF Programs
<1>14. Disked(f, program)'
  BY <1>3, <1>6 DEF Disked, Behind
<1>15. Good(f, program)'
  BY <1>3, <1>12, <1>13, <1>14 DEF Good
<1>. QED  BY <1>15 DEF WholeInv

(* program_loader() returns when the last segment has been copied.         *)
LEMMA ProgramWhole == LMInv /\ ProgramLoaded /\ UNCHANGED mkvars => WholeInv'
<1>. SUFFICES ASSUME LMInv, ProgramLoaded, UNCHANGED mkvars, ~lost
              PROVE  WholeInv'
  BY DEF WholeInv, mkvars
<1>1. PICK at : at = ramimages[pid]
  OBVIOUS
<1>2. /\ lpc = "start" /\ pid \in DOMAIN ramimages
      /\ ph > Len(Header(at).ph)
      /\ eip' = [eip EXCEPT ![pid] = Header(at).entry]
      /\ pid' = pid + 1 /\ ph' = 1
      /\ UNCHANGED <<mem, lpc, disk, lost>>
  BY <1>1 DEF ProgramLoaded, mkvars
<1>3. /\ ph \in Nat \ {0} /\ pid \in Nat \ {0}
      /\ eip = [p \in DOMAIN ramimages |-> eip[p]]
  BY DEF LMInv, LoaderInv, LdInv
<1>4. PICK f \in DOMAIN Elf, program \in [DOMAIN ramimages -> DOMAIN Elf] :
        Good(f, program)
  BY <1>2, Going
<1>5. Disked(f, program) /\ Intact(f) /\ AllLoaded(f) /\ Programs(program)
  BY <1>2, <1>4 DEF Good
<1>6. PICK g \in DOMAIN Elf : g = program[pid]
  BY <1>2
<1>7. Header(at) = Elf[g]
  BY <1>1, <1>2, <1>4, <1>6, Starting
<1>8. AllLoaded(g)
  <2>1. Elf[g].ph \in Seq(ProgramHeaders)
    BY ElfAssumption DEF ElfFile
  <2>2. \A k \in DOMAIN Elf[g].ph : k < ph
    BY <1>2, <1>3, <1>7, <2>1
  <2>3. LoadedTo(g, ph)
    BY <1>2, <1>5, <1>6 DEF Programs
  <2>. QED  BY <2>2, <2>3, SegmentsAreHeaders
<1>9. ASSUME NEW p \in DOMAIN ramimages
      PROVE  /\ p < pid + 1 => /\ AllLoaded(program[p])
                               /\ eip'[p] = Elf[program[p]].entry
             /\ \A k \in DOMAIN Elf[program[p]].ph : ~(k < 1)
  <2>1. \A k \in DOMAIN Elf[program[p]].ph : ~(k < 1)
    <3>1. Elf[program[p]].ph \in Seq(ProgramHeaders)
      BY ElfAssumption DEF ElfFile
    <3>. QED  BY <3>1
  <2>2. p \in Nat
    BY RoomAssumption
  <2>3. CASE p = pid
    BY <1>2, <1>3, <1>6, <1>7, <1>8, <2>1, <2>3
  <2>4. CASE p # pid /\ p < pid + 1
    <3>1. p < pid
      BY <1>3, <2>2, <2>4
    <3>2. eip'[p] = eip[p]
      BY <1>2, <1>3, <2>4
    <3>. QED  BY <1>5, <2>1, <3>1, <3>2 DEF Programs
  <2>. QED  BY <2>1, <2>3, <2>4
<1>10. Programs(program)'
  BY <1>2, <1>9 DEF Programs, AllLoaded, Loaded, LoadedTo
<1>11. Disked(f, program)' /\ Intact(f)' /\ AllLoaded(f)'
  BY <1>2, <1>5 DEF Disked, Behind, Intact, AllLoaded, Loaded
<1>12. Good(f, program)'
  BY <1>2, <1>10, <1>11 DEF Good
<1>. QED  BY <1>12 DEF WholeInv

(* The loaders stop only at a disk without a kernel; program_loader()      *)
(* finds every program.                                                    *)
LEMMA OtherWhole ==
  LMInv /\ UNCHANGED mkvars /\ (NotAKernel \/ LoaderPanic \/ RunFirst)
    => WholeInv'
<1>. SUFFICES ASSUME LMInv, UNCHANGED mkvars, ~lost,
                     NotAKernel \/ LoaderPanic \/ RunFirst
              PROVE  WholeInv'
  BY DEF WholeInv, mkvars
<1>1. UNCHANGED <<mem, ph, pid, eip, disk, lost>>
  BY DEF NotAKernel, LoaderPanic, RunFirst, mkvars
<1>2. CASE NotAKernel
  BY <1>2 DEF NotAKernel, WholeInv
<1>3. CASE LoaderPanic
  <2>1. lpc = "start" /\ pid \in DOMAIN ramimages /\ ~IsElf(ramimages[pid])
    BY <1>3 DEF LoaderPanic
  <2>2. PICK f \in DOMAIN Elf, program \in [DOMAIN ramimages -> DOMAIN Elf] :
          Good(f, program)
    BY <2>1, Going
  <2>. QED  BY <2>1, <2>2, Starting
<1>4. CASE RunFirst
  <2>1. lpc = "start" /\ pid \notin DOMAIN ramimages /\ lpc' = "running"
    BY <1>4 DEF RunFirst
  <2>2. PICK f \in DOMAIN Elf, program \in [DOMAIN ramimages -> DOMAIN Elf] :
          Good(f, program)
    BY <2>1, Going
  <2>3. Good(f, program)'
    BY <1>1, <2>1, <2>2 DEF Good, Disked, Behind, Intact, AllLoaded, Loaded,
       LoadedTo, Programs
  <2>. QED  BY <2>3 DEF WholeInv
<1>. QED  BY <1>2, <1>3, <1>4

(* Every step keeps what has been loaded.                                  *)
LEMMA NextWhole == LMInv /\ [Next]_<<mkvars, ldvars>> => WholeInv'
<1>. SUFFICES ASSUME LMInv, [Next]_<<mkvars, ldvars>> PROVE WholeInv'
  OBVIOUS
<1>1. CASE LdNext /\ UNCHANGED mkvars
  BY <1>1, ReadHeaderWhole, ReadSegmentWhole, JumpWhole, CopyWhole,
     ProgramWhole, OtherWhole DEF LdNext
<1>2. CASE MkNext /\ UNCHANGED ldvars
  <2>1. lpc = "off"
    BY <1>2, DiskIsDone DEF LMInv, LoaderInv, LdInv
  <2>. QED  BY <1>2, <2>1 DEF WholeInv, ldvars
<1>3. CASE UNCHANGED <<mkvars, ldvars>>
  <2>1. UNCHANGED <<mem, lpc, ph, pid, eip, disk, lost>>
    BY <1>3 DEF mkvars, ldvars
  <2>2. \A f, program : Good(f, program) => Good(f, program)'
    BY <2>1 DEF Good, Disked, Behind, Intact, AllLoaded, Loaded, LoadedTo,
       Programs
  <2>. QED  BY <2>1, <2>2 DEF LMInv, WholeInv, IsElf
<1>. QED  BY <1>1, <1>2, <1>3 DEF Next

(* What has been loaded is as it is in its file, at every moment.          *)
THEOREM WholeTheorem == Spec => []LMInv
<1>1. Init => WholeInv
  BY DEF Init, LdInit, WholeInv
<1>2. LoaderInv /\ WholeInv /\ [Next]_<<mkvars, ldvars>> => WholeInv'
  BY NextWhole DEF LMInv
<1>3. LMInv <=> LoaderInv /\ WholeInv
  BY DEF LMInv
<1>. QED  BY <1>1, <1>2, <1>3, BytesTheorem, PTL DEF Spec

(* From the jump on, the kernel is in memory as it is in its file.         *)
THEOREM KernelTheorem == Spec => []KernelLoaded
<1>1. ASSUME LMInv, Whole, lpc \in {"start", "panic", "running"}
      PROVE  \A s \in Segment(mem[ELFHDR][1], "LOAD") :
               Loaded(mem[ELFHDR][1], s)
  <2>1. PICK f \in DOMAIN Elf, program \in [DOMAIN ramimages -> DOMAIN Elf] :
          Good(f, program)
    BY <1>1, Going DEF Whole
  <2>2. mem[ELFHDR] = <<f, 0>>
    BY <2>1, KernelHeader DEF Good
  <2>3. mem[ELFHDR][1] = f
    BY <2>2
  <2>. QED  BY <1>1, <2>1, <2>3 DEF Good, AllLoaded
<1>2. LMInv => KernelLoaded
  BY <1>1 DEF KernelLoaded
<1>. QED  BY <1>2, WholeTheorem, PTL

(* Every program is in memory when the first process runs. *)
THEOREM ProgramsTheorem == Spec => []ProgramsLoaded
<1>1. ASSUME LMInv, Whole PROVE lpc # "panic"
  BY <1>1, Going DEF Whole, Good
<1>2. ASSUME LMInv, Whole, lpc = "running", NEW p \in DOMAIN ramimages
      PROVE  LET f == mem[ramimages[p]][1]
             IN /\ \A s \in Segment(f, "LOAD") : Loaded(f, s)
                /\ eip[p] = Elf[f].entry
  <2>1. PICK f \in DOMAIN Elf, program \in [DOMAIN ramimages -> DOMAIN Elf] :
          Good(f, program)
    BY <1>2, Going DEF Whole
  <2>2. mem[ramimages[p]] = <<program[p], 0>>
    BY <1>2, <2>1, Starting
  <2>3. mem[ramimages[p]][1] = program[p]
    BY <2>2
  <2>4. p < pid
    <3>1. pid \in Nat \ {0} /\ pid \notin DOMAIN ramimages
      BY <1>2, <2>1 DEF Good, LMInv, LoaderInv, LdInv
    <3>2. ramimages \in Seq(Nat)
      BY RoomAssumption
    <3>. QED  BY <3>1, <3>2
  <2>5. AllLoaded(program[p]) /\ eip[p] = Elf[program[p]].entry
    BY <1>2, <2>1, <2>4 DEF Good, Programs
  <2>. QED  BY <2>3, <2>5 DEF AllLoaded
<1>3. LMInv => ProgramsLoaded
  BY <1>1, <1>2 DEF ProgramsLoaded
<1>. QED  BY <1>3, WholeTheorem, PTL
=============================================================================
