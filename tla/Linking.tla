------------------------------ MODULE Linking ------------------------------
(***************************************************************************)
(* What the linker and the makefile make of the files, and the loaders     *)
(* rely on without a test: neither bootmain() nor program_loader() looks   *)
(* at where a segment goes, or what is there already.                      *)
(***************************************************************************)
EXTENDS Loader

(* The header and the program headers are in the first sector; a segment   *)
(* lies in its file, at an offset that agrees with its address.            *)
ProgramHeaders ==
  [type : STRING, offset : Nat, va : Nat, filesz : Nat, memsz : Nat]

ElfFile(f) ==
  LET headers == Elf[f].ph IN
  /\ headers \in Seq(ProgramHeaders)
  /\ Len(headers) < SECTORSIZE /\ Len(headers) < Len(Content[f])
  /\ \A n \in 0 .. Len(headers) : Content[f][n + 1] = <<f, n>>
  /\ \A s \in Range(headers) :
       /\ s.filesz <= s.memsz
       /\ s.offset + s.filesz <= Len(Content[f])
       /\ s.offset % SECTORSIZE = s.va % SECTORSIZE

ASSUME ElfAssumption ==
  /\ DOMAIN Elf \subseteq Files \ {"zero", "sig", "junk", "nosector"}
  /\ \A f \in DOMAIN Elf : ElfFile(f)
  /\ \A f \in DOMAIN Elf, g \in Files :
       Content[g] # <<>> /\ Content[g][1] = <<f, 0>> => g = f
  /\ \A g \in Files : NoSector \notin Range(Content[g])

(* The disk has room for a page and for every file, and the memory for     *)
(* every image.                                                            *)
ASSUME RoomAssumption ==
  /\ MEMSIZE \in Nat /\ ELFHDR + PAGESIZE <= MEMSIZE
  /\ SECTORSIZE + PAGESIZE <= NSECTORS * SECTORSIZE
  /\ \A f \in DOMAIN Elf :
       SECTORSIZE + Len(Content[f]) + Padding(Len(Content[f]))
         <= NSECTORS * SECTORSIZE
  /\ ramimages \in Seq(Nat)
  /\ \A p \in DOMAIN ramimages, f \in DOMAIN Elf :
       ramimages[p] + Len(Content[f]) + PAGESIZE <= MEMSIZE

-----------------------------------------------------------------------------
(* Where a segment is to be, and what else of memory reading its sectors   *)
(* touches.                                                                *)
Memory(s)  == s.va .. s.va + s.memsz - 1
Sectors(s) == LET end == s.va + s.filesz
              IN RoundDown(s.va, SECTORSIZE) .. end + Padding(end) - 1
Scratch    == ELFHDR .. ELFHDR + PAGESIZE - 1

Apart(S, T) == S \cap T = {}

(* A note or the like is empty, or a part of a segment that is read again: *)
(* not from a sector in which the segment's bss begins.                    *)
Empty(t) == t.filesz = 0 /\ t.memsz = 0 /\ t.va % SECTORSIZE = 0
PartOf(t, s) ==
  LET end == t.va + t.filesz IN
  /\ t.offset - t.va = s.offset - s.va
  /\ s.va <= t.va /\ end <= s.va + s.filesz /\ t.memsz = t.filesz
  /\ s.memsz = s.filesz \/ end + Padding(end) <= s.va + s.filesz

(* The kernel is linked at 0x100000, away from the scratch page, and no    *)
(* two of its segments share a sector.                                     *)
KernelLayout(f) ==
  /\ \A s \in Range(Elf[f].ph) : Apart(Sectors(s) \cup Memory(s), Scratch)
  /\ \A s \in Segment(f, "LOAD") :
       /\ Memory(s) \subseteq Addresses
       /\ \A t \in Segment(f, "LOAD") \ {s} :
            Apart(Sectors(t) \cup Memory(t), Memory(s))
  /\ \A t \in Range(Elf[f].ph) \ Segment(f, "LOAD") :
       Empty(t) \/ \E s \in Segment(f, "LOAD") : PartOf(t, s)

(* The file of program p is a part of the kernel's data.                   *)
LinkedIn(f, g, at) ==
  \E s \in Segment(f, "LOAD") :
    /\ s.va <= at /\ at + Len(Content[g]) <= s.va + s.filesz
    /\ \A k \in 1 .. Len(Content[g]) :
         Content[f][s.offset + (at - s.va) + k] = Content[g][k]

(* The programs are linked at 0x200000, 0x300000 and so on, their data     *)
(* 0x10000 behind their text: on pages of their own.                       *)
ProgramLayout(f, program) ==
  \A p \in DOMAIN ramimages :
    /\ LinkedIn(f, program[p], ramimages[p])
    /\ \A s \in Segment(program[p], "LOAD") :
         /\ s.va % PAGESIZE = 0
         /\ Memory(s) \subseteq Addresses \ Scratch
         /\ \A t \in Segment(f, "LOAD") : Apart(Memory(s), Memory(t))
         /\ \A q \in DOMAIN ramimages :
              \A t \in Segment(program[q], "LOAD") :
                p # q \/ s # t => Apart(Memory(s), Memory(t))

Linked(f) ==
  /\ KernelLayout(f)
  /\ \E program \in [DOMAIN ramimages -> DOMAIN Elf] : ProgramLayout(f, program)

(* The only ELF files that command lines name are kernels.                 *)
ASSUME LinkAssumption ==
  \A args \in Arguments : \A k \in DOMAIN args :
    "file" \in DOMAIN args[k] /\ args[k].file \in DOMAIN Elf
      => Linked(args[k].file)
=============================================================================
