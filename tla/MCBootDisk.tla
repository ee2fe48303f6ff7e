----------------------------- MODULE MCBootDisk -----------------------------
(* An instance of Loader: sectors of 4 bytes, pages of 8, a kernel with two *)
(* programs.  Its text is at 8; its data are not on a page boundary, have a *)
(* bss, and end inside a sector, followed in the file by the symbols.       *)
(* The programs have text and data on pages of their own, as the makefile   *)
(* links them, and a note inside their text.                                *)
EXTENDS Linking

FileBytes(f, size) == [k \in 1 .. size |-> <<f, k - 1>>]
Load(offset, va, filesz, memsz) ==
  [type |-> "LOAD", offset |-> offset, va |-> va, filesz |-> filesz, memsz |-> memsz]
Note(offset, va, filesz) ==
  [type |-> "NOTE", offset |-> offset, va |-> va, filesz |-> filesz, memsz |-> filesz]

ProgramElf(text) ==
  [ph |-> <<Load(8, text, 3, 3), Load(16, text + 8, 1, 4), Note(9, text + 1, 2)>>,
   entry |-> text + 1]

MCElf ==
  [kern |-> [ph |-> <<Load(8, 8, 5, 5), Load(13, 21, 36, 39), Note(9, 9, 2)>>,
             entry |-> 9],
   p1   |-> ProgramElf(64),
   p2   |-> ProgramElf(80)]

Kernel == FileBytes("kern", 13) \o FileBytes("p1", 17) \o FileBytes("p2", 17)
          \o [k \in 1 .. 4 |-> <<"kern", 46 + k>>]

MCContent ==
  [boot |-> FileBytes("boot", 1), large |-> FileBytes("large", 3),
   text |-> FileBytes("text", 5), kern |-> Kernel,
   p1 |-> FileBytes("p1", 17), p2 |-> FileBytes("p2", 17)]
MCramimages == <<21, 38>>

File(f) == [file |-> f]
Skip(x) == [skip |-> x]
MCArguments ==
  { <<File("boot"), File("kern")>>,
    <<File("boot"), Skip(3), File("text")>>,
    <<File("boot"), File("text")>>,
    <<File("boot"), File("kern"), Skip(1)>>,
    <<File("boot"), File("none")>>,
    <<File("none")>>, <<File("large")>>, <<>> }
=============================================================================
