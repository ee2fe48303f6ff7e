----------------------------- MODULE MkBootDisk -----------------------------
(***************************************************************************)
(* mkbootdisk (mkbootdisk.c) writes a disk image to its standard output: a *)
(* boot sector with its signature, then the files named by its arguments,  *)
(* each padded to whole sectors, then zero sectors up to a fixed size.     *)
(*                                                                         *)
(* write() may be interrupted, may write less than asked, or may fail;     *)
(* fread() may fail; a file may be missing.  (maxoff is never set, so      *)
(* diskwrite() has no limit.)                                              *)
(***************************************************************************)
EXTENDS Integers, SequencesExt

CONSTANTS
  SECTORSIZE,   \* 512
  BUFSIZE,      \* sizeof(buf), 4096
  NSECTORS,     \* sectors the image is filled up to, 1024
  Content,      \* what is in each file that exists: [name -> sequence]
  Arguments     \* command lines, each a sequence of [file |-> name] and
                \* [skip |-> sector]

ASSUME DiskAssumption ==
  /\ SECTORSIZE \in Nat /\ SECTORSIZE > 2
  /\ BUFSIZE \in Nat /\ BUFSIZE > SECTORSIZE
  /\ NSECTORS \in Nat

(* Zero pads and fills; Sig is a byte of the boot signature.               *)
Zero  == <<"zero", 0>>
Sig   == <<"sig", 0>>
Bytes == (UNION {Range(Content[f]) : f \in DOMAIN Content}) \cup {Zero, Sig}

ASSUME FileAssumption ==
  /\ \A f \in DOMAIN Content : Content[f] \in Seq(Bytes)
  /\ \A args \in Arguments : args \in Seq([file : STRING] \cup [skip : Nat])

VARIABLES
  argv,      \* the command line
  i,         \* the argument it is at
  mpc,       \* "boot", "args", "read", "done" or "failed", which is exit(1)
  pos,       \* bytes read of the file argv[i]
  lost,      \* has a file been closed before its end?
  nsectors,
  data,      \* what diskwrite() still has to write
  disk       \* what has been written

mkvars == <<argv, i, mpc, pos, lost, nsectors, data, disk>>

Zeros(n)    == [k \in 1 .. n |-> Zero]
Least(a, b) == IF a < b THEN a ELSE b
Padding(n)  == (SECTORSIZE - (n % SECTORSIZE)) % SECTORSIZE

Files      == DOMAIN Content
At(kind)   == i <= Len(argv) /\ kind \in DOMAIN argv[i]
InFile     == Content[argv[i].file]
Missing    == At("file") /\ argv[i].file \notin Files
Ready(p)   == mpc = p /\ data = <<>>   \* diskwrite() has returned

MkInit ==
  /\ argv \in Arguments
  /\ i = 1 /\ mpc = "boot" /\ pos = 0 /\ lost = FALSE
  /\ nsectors = 0 /\ data = <<>> /\ disk = <<>>

(* diskwrite(): a call of write() that writes something.  One that is      *)
(* interrupted changes nothing, and is made again.                         *)
Write ==
  /\ data # <<>> /\ mpc # "failed"
  /\ \E w \in 1 .. Len(data) :
       /\ disk' = disk \o SubSeq(data, 1, w)
       /\ data' = SubSeq(data, w + 1, Len(data))
  /\ UNCHANGED <<argv, i, mpc, pos, lost, nsectors>>

Usage == mpc' = "failed" /\ UNCHANGED <<argv, i, pos, lost, nsectors, data, disk>>

(* write() fails, or reaches the end of the device. *)
WriteError == data # <<>> /\ mpc # "failed" /\ Usage

(* The boot sector: at most SECTORSIZE - 2 bytes, zeros, the signature.    *)
BootSector ==
  /\ Ready("boot") /\ At("file") /\ ~Missing
  /\ \E n \in 0 .. Least(SECTORSIZE - 2, Len(InFile)) :
       /\ data' = SubSeq(InFile, 1, n) \o Zeros(SECTORSIZE - 2 - n) \o <<Sig, Sig>>
       /\ lost' = (n < Len(InFile))
  /\ nsectors' = 1
  /\ i' = i + 1
  /\ mpc' = "args"
  /\ UNCHANGED <<argv, pos, disk>>

(* "@X" writes zero sectors up to sector X. *)
SkipSector ==
  /\ Ready("args") /\ At("skip") /\ nsectors < argv[i].skip
  /\ data' = Zeros(SECTORSIZE)
  /\ nsectors' = nsectors + 1
  /\ UNCHANGED <<argv, i, mpc, pos, lost, disk>>

Skipped ==
  /\ Ready("args") /\ At("skip") /\ nsectors = argv[i].skip
  /\ i' = i + 1
  /\ UNCHANGED <<argv, mpc, pos, lost, nsectors, data, disk>>

Open ==
  /\ Ready("args") /\ At("file") /\ ~Missing
  /\ mpc' = "read" /\ pos' = 0
  /\ UNCHANGED <<argv, i, lost, nsectors, data, disk>>

(* fread() returns a full buffer, the rest of the file, or, after an error *)
(* of the medium, less.                                                    *)
Read ==
  /\ Ready("read")
  /\ \E n \in 1 .. Least(BUFSIZE, Len(InFile) - pos) :
       /\ data' = SubSeq(InFile, pos + 1, pos + n)
       /\ pos' = pos + n
  /\ UNCHANGED <<argv, i, mpc, lost, nsectors, disk>>

(* A bug: a file that ends on a sector boundary gets a sector of padding,  *)
(* which is not counted.                                                   *)
Mutant_AlwaysPads ==
  /\ Ready("read")
  /\ data' = Zeros(SECTORSIZE - (pos % SECTORSIZE))
  /\ nsectors' = nsectors + ((pos + Padding(pos)) \div SECTORSIZE)
  /\ lost' = (lost \/ pos < Len(InFile))
  /\ i' = i + 1
  /\ mpc' = "args"
  /\ UNCHANGED <<argv, pos, disk>>

(* A bug: the padding is counted and not written. *)
Mutant_NoPadding ==
  /\ Ready("read")
  /\ nsectors' = nsectors + ((pos + Padding(pos)) \div SECTORSIZE)
  /\ lost' = (lost \/ pos < Len(InFile))
  /\ i' = i + 1
  /\ mpc' = "args"
  /\ UNCHANGED <<argv, pos, data, disk>>

(* fread() returns 0, at the end of the file or because of an error, which *)
(* nobody asks about: pad to a whole sector.                               *)
Close ==
  /\ Ready("read")
  /\ data' = Zeros(Padding(pos))
  /\ nsectors' = nsectors + ((pos + Padding(pos)) \div SECTORSIZE)
  /\ lost' = (lost \/ pos < Len(InFile))
  /\ i' = i + 1
  /\ mpc' = "args"
  /\ UNCHANGED <<argv, pos, disk>>

(* A bug: the image is not filled up. *)
Mutant_NoFill ==
  /\ Ready("args") /\ i > Len(argv)
  /\ mpc' = "done"
  /\ UNCHANGED <<argv, i, pos, lost, nsectors, data, disk>>

FillSector ==
  /\ Ready("args") /\ i > Len(argv) /\ nsectors < NSECTORS
  /\ data' = Zeros(SECTORSIZE)
  /\ nsectors' = nsectors + 1
  /\ UNCHANGED <<argv, i, mpc, pos, lost, disk>>

Finish ==
  /\ Ready("args") /\ i > Len(argv) /\ nsectors >= NSECTORS
  /\ mpc' = "done"
  /\ UNCHANGED <<argv, i, pos, lost, nsectors, data, disk>>

(* usage(): no arguments, a file that does not exist, a boot sector that   *)
(* is too large, a sector that has been passed.                            *)
BadArgument ==
  /\ \/ Ready("boot") /\ argv = <<>>
     \/ Ready("boot") /\ Missing
     \/ Ready("boot") /\ At("file") /\ ~Missing /\ Len(InFile) > SECTORSIZE - 2
     \/ Ready("args") /\ Missing
     \/ Ready("args") /\ At("skip") /\ nsectors > argv[i].skip
  /\ Usage

MkNext ==
  \/ Write \/ WriteError
  \/ BootSector \/ SkipSector \/ Skipped
  \/ Open \/ Read \/ Close
  \/ FillSector \/ Finish \/ BadArgument

-----------------------------------------------------------------------------
(* The image that arguments ask for.                                       *)
AddArgument(image, a) ==
  IF "file" \in DOMAIN a
    THEN image \o Content[a.file] \o Zeros(Padding(Len(Content[a.file])))
    ELSE image \o Zeros(a.skip * SECTORSIZE - Len(image))

Image(args) ==
  LET code == Content[args[1].file]
      boot == code \o Zeros(SECTORSIZE - 2 - Len(code)) \o <<Sig, Sig>>
      body == FoldLeft(AddArgument, boot, Tail(args))
  IN body \o Zeros(NSECTORS * SECTORSIZE - Len(body))

(* When mkbootdisk exits with success, the image is the one its arguments  *)
(* ask for, byte for byte, however the writes were cut up, unless fread()  *)
(* failed.                                                                 *)
ImageLayout == mpc = "done" /\ ~lost => disk = Image(argv)

(* nsectors, by which "@X" and the filling go, is the number of sectors    *)
(* the disk has whenever it is consulted, even after a read error.         *)
SectorCount == Ready("args") => Len(disk) = nsectors * SECTORSIZE
=============================================================================
