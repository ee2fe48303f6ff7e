------------------------------- MODULE Loader -------------------------------
(***************************************************************************)
(* The two loaders, on the disk that mkbootdisk made: schedos-boot.c reads *)
(* the kernel from the disk, sector by sector; the kernel's start() then   *)
(* has schedos-loader.c load each program from the ELF image linked into   *)
(* the kernel's data.  There is one CPU and interrupts are off, so a call  *)
(* of readseg() or copyseg() is one step.                                  *)
(*                                                                         *)
(* A byte of a file is <<file, offset>>.  In an ELF file, byte 0 is the    *)
(* header and byte n is the program header number n.                       *)
(***************************************************************************)
EXTENDS MkBootDisk

CONSTANTS
  PAGESIZE,    \* 4096
  ELFHDR,      \* the scratch page of the boot loader
  MEMSIZE,
  Elf,         \* the headers of the ELF files:
               \*   [file -> [ph : Seq(program headers), entry : address]]
  ramimages    \* where the kernel has been linked to have the programs

ASSUME PageAssumption ==
  /\ PAGESIZE \in Nat /\ PAGESIZE > 0 /\ PAGESIZE % SECTORSIZE = 0
  /\ ELFHDR \in Nat /\ ELFHDR % SECTORSIZE = 0

VARIABLES
  mem,
  lpc,     \* "off", "bootmain", "start", "running"; "spin" or "panic": stopped
  ph,      \* the program header that is next
  pid,     \* the process that start() is loading
  eip      \* where each process will begin

ldvars == <<mem, lpc, ph, pid, eip>>

Addresses == 0 .. MEMSIZE - 1

(* schedos-boot.c and schedos-loader.c look for ELF_MAGIC.                 *)
IsElf(at)   == \E f \in DOMAIN Elf : mem[at] = <<f, 0>>
Header(at)  == Elf[mem[at][1]]

(* A program header that is missing from the disk reads as zeros, which    *)
(* stand for a segment with nothing in it.                                 *)
Proghdr(at, n) ==
  IF mem[at + n] = Zero
    THEN [type |-> "NULL", offset |-> 0, va |-> 0, filesz |-> 0, memsz |-> 0]
    ELSE Header(at).ph[n]

LdInit ==
  /\ mem = [a \in Addresses |-> <<"junk", 0>>]
  /\ lpc = "off" /\ ph = 1 /\ pid = 1
  /\ eip = [p \in DOMAIN ramimages |-> 0]

-----------------------------------------------------------------------------
RoundDown(a, n) == a - (a % n)

NoSector == <<"nosector", 0>>

(* readsect(): there is nothing to read behind the end of the disk.        *)
DiskByte(k) == IF k < Len(disk) THEN disk[k + 1] ELSE NoSector

(* A bug: the address is not rounded to a sector, so that the sectors go   *)
(* to the wrong place.                                                     *)
Mutant_NoRounding(va, filesz, memsz, sect) ==
  mem' = [a \in Addresses |->
    IF va + filesz <= a /\ a < va + memsz THEN Zero
    ELSE IF va <= a /\ a < va + filesz
      THEN DiskByte(sect * SECTORSIZE + (a - va))
    ELSE mem[a]]

(* readseg(): whole sectors, from the one that holds va, while they begin  *)
(* before the end of the segment; then its bss is cleared.                 *)
ReadSeg(va, filesz, memsz, sect) ==
  LET first == RoundDown(va, SECTORSIZE)
      end   == va + filesz
  IN mem' = [a \in Addresses |->
       IF end <= a /\ a < va + memsz THEN Zero
       ELSE IF first <= a /\ a < end + Padding(end)
         THEN DiskByte(sect * SECTORSIZE + (a - first))
       ELSE mem[a]]

(* copyseg(): it rounds the address to a page, but not the source with it. *)
CopySeg(dst, src, filesz, memsz) ==
  LET first == RoundDown(dst, PAGESIZE)
      end   == dst + filesz
  IN mem' = [a \in Addresses |->
       IF end <= a /\ a < dst + memsz THEN Zero
       ELSE IF first <= a /\ a < end THEN mem[src + (a - first)]
       ELSE mem[a]]

-----------------------------------------------------------------------------
(* The BIOS starts a disk whose first sector is signed; bootmain() reads   *)
(* the first page of the kernel's file.                                    *)
ReadHeader ==
  /\ mpc = "done" /\ lpc = "off"
  /\ DiskByte(SECTORSIZE - 1) = Sig
  /\ ReadSeg(ELFHDR, PAGESIZE, PAGESIZE, 1)
  /\ lpc' = "bootmain"
  /\ UNCHANGED <<ph, pid, eip>>

(* Every segment, whatever its type. *)
ReadSegment ==
  /\ lpc = "bootmain" /\ IsElf(ELFHDR) /\ ph <= Len(Header(ELFHDR).ph)
  /\ LET s == Proghdr(ELFHDR, ph)
     IN ReadSeg(s.va, s.filesz, s.memsz, 1 + (s.offset \div SECTORSIZE))
  /\ ph' = ph + 1
  /\ UNCHANGED <<lpc, pid, eip>>

NotAKernel ==
  /\ lpc = "bootmain" /\ ~IsElf(ELFHDR)
  /\ lpc' = "spin"
  /\ UNCHANGED <<mem, ph, pid, eip>>

(* What is between the jump and the loop of start() is modelled as one     *)
(* step; it is taken only if the kernel's code is there.                   *)
JumpToKernel ==
  /\ lpc = "bootmain" /\ IsElf(ELFHDR) /\ ph > Len(Header(ELFHDR).ph)
  /\ mem[Header(ELFHDR).entry] # Zero
  /\ lpc' = "start" /\ ph' = 1 /\ pid' = 1
  /\ UNCHANGED <<mem, eip>>

(* A bug: segments that are not to be loaded are. *)
Mutant_EveryType ==
  /\ lpc = "start" /\ pid \in DOMAIN ramimages
  /\ IsElf(ramimages[pid]) /\ ph <= Len(Header(ramimages[pid]).ph)
  /\ LET s == Proghdr(ramimages[pid], ph)
     IN CopySeg(s.va, ramimages[pid] + s.offset, s.filesz, s.memsz)
  /\ ph' = ph + 1
  /\ UNCHANGED <<lpc, pid, eip>>

(* program_loader(): segments of type ELF_PROG_LOAD only. *)
CopySegment ==
  /\ lpc = "start" /\ pid \in DOMAIN ramimages
  /\ IsElf(ramimages[pid]) /\ ph <= Len(Header(ramimages[pid]).ph)
  /\ LET s == Proghdr(ramimages[pid], ph)
     IN IF s.type = "LOAD"
          THEN CopySeg(s.va, ramimages[pid] + s.offset, s.filesz, s.memsz)
          ELSE UNCHANGED mem
  /\ ph' = ph + 1
  /\ UNCHANGED <<lpc, pid, eip>>

ProgramLoaded ==
  /\ lpc = "start" /\ pid \in DOMAIN ramimages
  /\ IsElf(ramimages[pid]) /\ ph > Len(Header(ramimages[pid]).ph)
  /\ eip' = [eip EXCEPT ![pid] = Header(ramimages[pid]).entry]
  /\ pid' = pid + 1 /\ ph' = 1
  /\ UNCHANGED <<mem, lpc>>

LoaderPanic ==
  /\ lpc = "start" /\ pid \in DOMAIN ramimages /\ ~IsElf(ramimages[pid])
  /\ lpc' = "panic"
  /\ UNCHANGED <<mem, ph, pid, eip>>

RunFirst ==
  /\ lpc = "start" /\ pid \notin DOMAIN ramimages
  /\ lpc' = "running"
  /\ UNCHANGED <<mem, ph, pid, eip>>

LdNext ==
  \/ ReadHeader \/ ReadSegment \/ NotAKernel \/ JumpToKernel
  \/ CopySegment \/ ProgramLoaded \/ LoaderPanic \/ RunFirst

Init == MkInit /\ LdInit
Next == (MkNext /\ UNCHANGED ldvars) \/ (LdNext /\ UNCHANGED mkvars)
Spec == Init /\ [][Next]_<<mkvars, ldvars>>

-----------------------------------------------------------------------------
(* The boot loader never asks for a sector that the image does not have,   *)
(* though it reads a whole page of any file, and whole sectors.            *)
ReadsWithinDisk == \A a \in Addresses : mem[a] # NoSector

Segment(f, type) == {s \in Range(Elf[f].ph) : s.type = type}

Loaded(f, s) ==
  \A k \in 0 .. s.memsz - 1 :
    mem[s.va + k] = IF k < s.filesz THEN Content[f][s.offset + k + 1] ELSE Zero

Whole == ~lost /\ IsElf(ELFHDR)

(* From the jump to the kernel until the first process runs, the kernel's  *)
(* segments are in memory as they are in its file and its bss is zero: no  *)
(* segment has been overwritten by a neighbour's last sector, or by a      *)
(* program.  (What start() itself writes to its variables before it runs   *)
(* the first process is not part of this model.)                           *)
KernelLoaded ==
  Whole /\ lpc \in {"start", "panic", "running"} =>
    LET f == mem[ELFHDR][1]
    IN \A s \in Segment(f, "LOAD") : Loaded(f, s)

(* When the first process runs, every program is in memory as it is in its *)
(* own file, and begins at its entry point.                                *)
ProgramsLoaded ==
  Whole => /\ lpc # "panic"
           /\ lpc = "running" =>
                \A p \in DOMAIN ramimages :
                  LET f == mem[ramimages[p]][1]
                  IN /\ \A s \in Segment(f, "LOAD") : Loaded(f, s)
                     /\ eip[p] = Elf[f].entry
=============================================================================
