# SchedOS in TLA+

SchedOS is a teaching kernel for one x86 CPU: four small programs print
characters on the text screen and give the CPU back by system calls, and
`schedule()` picks the next one by one of five algorithms.  This directory holds
TLA+ models of the hardware set-up, the kernel, the programs, the loaders and the
library, the TLC runs that check them on small instances, and theorems proved with
TLAPS, most of them for any number of processes.  `PROJECT.json` lists the runs, the
mutants, the theorems and, for each definition, the source lines it models.

## 1. Inventory

| Part | Source | State it keeps | Operations | Hard because |
|---|---|---|---|---|
| Kernel: processes and traps | `schedos-kern.c` `start`, `interrupt` | `proc_array`, `current`, `scheduling_algorithm`, `cursorpos` | seven system calls, the clock, the default case | any process, any order of calls; exit, then more calls by others; a trap may come between any two instructions |
| Kernel: `schedule()` | `schedos-kern.c:250-371` | locals `pid`, `i`, `firstPid`, `firstPriority`; `p_share_left` | five algorithms | unbounded loops over a table with dead entries; unsigned decrements; a division; starvation |
| Kernel entry and exit | `schedos-int.S`, `schedos-x86.c` | saved registers, the kernel's only stack | gates, handler stubs, `run` | pushes, pops and `registers_t` must agree in three files; atomicity of the kernel rests on interrupt gates |
| Hardware set-up | `schedos-x86.c`, `x86.h` | descriptor tables, interrupt controllers, timer | `segments_init`, `interrupt_controller_init`, `special_registers_init` | devices request service while the chips are being programmed; an initialisation forgets the masks; nothing ever sends an end of interrupt |
| Programs | `schedos-1.c` ... `schedos-4.c`, `schedos-app.h`, `x86sync.h` | registers and stack, `cursorposLock` | print (by `sys_print`, or under a spin lock), yield, exit | the lock and the cursor are shared under preemption; the compiler may reorder |
| Console | `lib.c`, `lib.h` | the screen | `console_putc`, `console_vprintf` | wrap-around; widths and precisions |
| Program loader | `schedos-loader.c` | memory of the programs | `program_loader`, `copyseg` | rounding to pages |
| Boot loader | `schedos-boot.c`, `bootstart.S` | memory of the kernel | `bootmain`, `readseg`, `readsect` | rounding to sectors, order of segments |
| Disk image | `mkbootdisk.c` | file offset, sector count | `main`, `diskwrite` | partial and interrupted writes, padding |
| Library | `lib.c` | none | `memcpy`, `memmove`, `memset`, `strlen`, `strnlen` | overlap; strings longer and shorter than the limit |
| Keyboard | `schedos-x86.c` | none | `console_read_digit` | no caller |

How they interact: `mkbootdisk` writes the image the boot loader reads; the
kernel's `start()` calls the program loader and runs process 1; from then on the
programs enter the kernel only through interrupts (`int` 48 to 53, the timer, an
exception), the kernel leaves only through `run()`.  Kernel and programs share
`cursorpos`, `cursorposLock` and the screen.

What makes each part correct:

* traps: a process that has exited never runs again and keeps its status; a
  process continues with the registers it had; the kernel stops only where it
  means to;
* entry, exit, set-up: no interrupt arrives in the kernel, and no interrupt but the
  clock's arrives at all; the clock's arrives again and again; the frame that
  `interrupt()` reads is a `registers_t`;
* `schedule()`: the process it runs is runnable and is the one the algorithm
  prefers; if there is a runnable process it finds one; nobody who deserves the
  CPU is starved; unsigned counters do not wrap;
* programs: no character is lost or overwritten, the lock excludes, everybody
  finishes, the output comes in the order the algorithm promises;
* loaders and image: what is in memory is what is in the file;
* library: the bytes that are written are the right ones, and no others are.

The hazards behind these, each at its line, are in `PROJECT.json`.

## 2. Modules

| Module | Models |
|---|---|
| `Console` | cursor arithmetic of `console_putc` |
| `SchedKern` | the kernel under arbitrary processes |
| `SchedPolicy` | the promise of `schedule()`, without its loops |
| `ContextSwitch` | the promise of entry, switch and exit: every process keeps its registers |
| `SchedOS` | `SchedKern` under the four programs |
| `Descriptors` | segment, gate and task descriptors and what the CPU asks of them |
| `InterruptController` | the controllers and the timer, and the writes that program them |
| `Machine` | boot, traps and `run()`, instruction by instruction, on these two |
| `MkBootDisk` | `mkbootdisk.c` |
| `Loader` | `schedos-boot.c` and `schedos-loader.c`, on the disk of `MkBootDisk` |
| `Linking` | what the loaders rely on: the layout of the files as `ld` and the makefile make it |
| `Printf` | `console_vprintf` and `fill_numbuf` |
| `Library` | the memory and string functions of `lib.c` |
| `MCSchedKern`, `MCSchedOS`, `MCMachine`, `MCBootDisk`, `MCPrintf`, `MCLibrary` | constants for TLC |
| `SchedKernProofs`, `SchedOSProofs`, `OrderProofs`, `MachineProofs`, `BootProofs`, `PrintfProofs`, `LibraryProofs` | theorems |
| `Foundations` | the mathematics they share: remainders, induction, sums |

`SchedKern` is the middle.  Below it, `Machine` explains why a case of `interrupt()`
may be one step there (`KernelUninterrupted`) and why saving and restoring registers
may be one assignment each: `Machine`, with all its pushes and pops, and
`SchedKern`, with two assignments, are both shown to implement `ContextSwitch`
(`KeepsContexts` in each).  Above it, `SchedOS` replaces the arbitrary processes by the
programs.  Beside it, `SchedPolicy` says what its loops are for.

### SchedKern

Variables carry the names of the code: `scheduling_algorithm`, `current` (a pid
for the pointer), one function per field of `proc_array`, `cursorpos` (a cell
number for the pointer), `console`, and the locals of `schedule()`.
`allow_clock_interrupt` is the argument of `interrupt_controller_init()`; it and
the algorithm are chosen in `Init` and never change, as in the code, where they
are constants of `start()`.  `kpc` is the control state: `user`, a loop of
`schedule()`, or `halted` (one of the empty endless loops).

There is one action per case of `interrupt()`: it saves the registers (`Trap`),
changes what the case changes, and enters the loop that `schedule()` selects
(`CallSchedule`).  No case falls through, because `schedule()` does not return.
One action is one iteration of a loop of `schedule()`, so a loop that never ends
is a behaviour of the model.  Between traps, `UserInstruction` lets the process
change its registers, and the memory it shares with the kernel, at will.  The
rest of memory is out of its reach in the model; in the code that is good
behaviour, not protection.

Choices that need a word:

* The generator of algorithm 7 is any ticket below the total: it scrambles a
  cycle counter that the kernel does not control.  The total is computed modulo
  `Word`, as an `unsigned int`.
* A division by zero enters `interrupt()` a second time, on the kernel's stack;
  it overwrites the saved registers of the process and ends in the default case
  (`DivideError`).
* `sys_print` is bounded by the end of video memory (`VideoCells`): what lies
  behind is not modelled.
* The chain of tests of algorithm 7 names processes 1 to 4; the model has one
  test per process, the last without a bound, as in the code.

### SchedPolicy

The abstract scheduler knows who runs, who has not exited, the priorities, the
shares and how much of them is used.  `Chosen(p)` says which processes each
algorithm may run: the next one in cyclic order (0), the first (2), one with the
smallest priority (41), the caller while it has share and otherwise one with the
largest share among those that have some left (42), anyone alive (7).
`ImplementsPolicy` says that `SchedKern`, with its loops as stuttering steps,
implements it; `ImplementsFairPolicy` adds that a choice is made whenever there is one.

### ContextSwitch

Each process owns a context; the process that runs may change its own, and the kernel
changes none.  When the machine stops, the context of the process that made it
stop may be lost, and no other.  In `SchedKern` the context of a process is `cpu` or
its descriptor.  In `Machine` it may also be halfway between: in the registers, on the
kernel's stack as far as the stubs have pushed it, and in the descriptor that `run()`
pops.

### Machine, Descriptors, InterruptController

The kernel code that is left to execute is a sequence of instructions (`code`), and a
process runs when there is none.  `start()` loads the three tables, writes the bytes
of `interrupt_controller_init()` to their ports, fills in the descriptors and runs the
first process.  A trap makes the CPU look at the gate, push what it pushes and jump to a
stub (`Deliver`, `Handler`); the stubs push the rest; `interrupt()` copies the frame;
`schedule()` is any choice here; `RunCode` pops word by word.  Every selector is
checked as the CPU checks it (`DataLoadable`, `CodeLoadable`, `StackLoadable`), and what
it refuses is an exception.  If there is no usable gate, code segment or stack for the
exception either, the CPU shuts down (`Shutdown`), which is not the endless loop of
`interrupt()`.  A word carries what it is (`KindOf`), so that a pop of the wrong word is
seen.

The controllers are external: they are modelled as far as the bytes written to them
reach.  A BIOS has left them enabled; an ICW1 clears the masks and requests; a
request is served if nothing of higher priority is in service; the automatic end of
interrupt is a mode.  Devices raise requests at any time, also between two writes.

`special_registers_init()` sets the interrupt flag and four selectors; the process
may then load any data selector that the CPU lets it load, and no other code or stack
segment.

### SchedOS

The programs are one function.  A program is its saved or live registers: a place
in `start()`, the loop counter, and the state of `*cursorpos++ = PRINTCHAR`.
`EXERCISE_8` selects the build and is chosen in `Init`.  In the exercise 6 build, that statement is a
load of `cursorpos`, a store of its increment, and a store of the character.
`cursorpos` is volatile and the character is not, and `atomic_swap()` does not
declare that it touches other memory: so the model lets the store of the character
come anywhere between the load and the `int` instruction of `sys_yield()`, even
after the lock is released.  `Setup` is the call at the head of `start()`, which
the repository has in comments and which each exercise enables; which calls a program
may be built with depends on the algorithm (`SetupCalls`).

`Kern == INSTANCE SchedKern` gives the programs the kernel's actions;
`ImplementsKern` checks that the whole is a behaviour of `SchedKern`, so all that
is checked or proved there holds here.

### MkBootDisk and Loader

`MkBootDisk` is `main()` of `mkbootdisk.c`, one action per argument, buffer or
sector, with `diskwrite()` as a queue (`data`) that `Write` empties by as much as
`write()` accepts.  Reads may fail in the middle of a file; `lost` remembers it, for
the properties, since the code does not notice.  `Image(argv)` is the image that the
arguments ask for.

`Loader` goes on from the finished disk: `bootmain()` reads a page, then each segment
(`ReadSeg`); the kernel is entered; `start()` loads each program from the image that
was linked into the kernel's data (`CopySeg`).  There is nothing to interleave with,
so a call is a step.  Bytes carry the name of their file and their offset, which makes
"what is in memory is what is in the file" a statement about values.  In an ELF file
byte 0 stands for the header and byte n for program header n.  As the makefile links
them, the segments of the programs begin on pages of their own, and the kernel's data
begin and end inside a sector.  What runs on a disk that a read error has cut short is
followed as far as its code is there (`LoaderPanic` is reached that way), and nothing
is claimed about it but that no sector is missing (`ReadsWithinDisk`).

Neither loader looks at where a segment goes, so what they promise depends on how the
files are linked.  `Linking` states it, as assumptions that TLC evaluates for the instance
of the run: the program headers are in the first sector of a file, and offsets agree with
addresses (`ElfAssumption`); disk and memory have room (`RoomAssumption`); the kernel's
segments lie on sectors of their own, away from the scratch page, and other program headers
are empty or parts of a segment (`KernelLayout`); the programs' files are part of the
kernel's data, and their segments begin on pages and share no memory with each other or with
the kernel (`ProgramLayout`).

### Printf

One action per part of an escape: flags, width, precision, conversion.  A run of
digits in the format is one token.  A call is a sequence of characters and escapes,
which `Encode` turns into a format and arguments; `Field` says, from the escape
itself, what C's `printf` prints for `%d %u %x %X %s %c`, all five flags included,
without the parser and without the order of the computations of the code.  `Rendered` puts the pieces together: where in the output each is,
and in the color of which `%C`.

The calls are those that C defines (`CallAssumption`): every escape but the last has a letter,
and the arguments have the types that the escapes ask for.  A run of digits is a token of its own
(`NumAssumption`); it does not begin with 0, because that is a flag.  Which escapes must print what
C prints is `Conventional`, and its comment lists the deviations of the code that it leaves out
(section 3 repeats them); the others are read and printed like the rest, and must not disturb what
is next to them.  `NumbufFits` is about the local array of digits, which
`fill_numbuf()` fills from its end without looking for its beginning.  The word size and the size of
the array are parameters: for TLC an `int` has 12 bits and the array 5 characters, just enough.

### Library

One action per call and one per turn of a loop.  `memmove` goes backwards if the source
begins before the destination and reaches it; `memcpy` never does.  Calls are those
that C defines: the objects lie in memory, those of `memcpy` do not overlap, strings
end, except that `strnlen` needs no end within its limit.  `MemoryExact` compares the
memory with the one before the call, byte by byte, at the end of each call.  `LengthExact`
asks of `strnlen` both ends: the NUL, and the limit although the string goes on.

## 3. Runs

Bounds common to the kernel runs: a screen of one or two cells, so that the cursor
reaches the end, and a single register content except in `kern_safety`.

| Run | Instance | Shows |
|---|---|---|
| `kern_safety` | two processes, two register contents, all algorithms and an unknown one, arguments 0 and 1, word size 2, clock, an unhandled interrupt | `TypeOK`, `RunsRunnable`, `KeepsContexts`, `ExitIsFinal`, `HaltsForAReason` |
| `kern_fair` | four processes, all five algorithms; priorities 0 and 1, shares 0 to 2, tickets 1 or 3; each process makes the call that matters to the algorithm | `LotteryExact`, `ShareWithinAmount`, `RoundRobinFair`, `EqualPriorityFair`, `ShareFair`, `ImplementsFairPolicy` |
| `os_order` | three programs, two characters each, `sys_print`, clock on or off, algorithms 0, 2, 41, a screen two cells larger than the output | `StaysOnScreen`, the order of the output (`CooperativeOutput`, `StrictOutput`, `PriorityOutput`), `AllExit` |
| `os_lock` | two programs, two characters each, both builds, clock, all five algorithms, with and without the call of the exercise | `TypeOK`, `MutualExclusion`, `NothingLost`, `AllExit`, `ImplementsKern` |
| `machine` | two processes, two contents (one with a null `%ds`), the `int`s 32, 53, 54, both exceptions, devices on lines 0, 1 and 14, clock on or off | `TypeOK`, `StopsForAFault`, `KernelUninterrupted`, `OnlyTheClock`, `Preempted`, `KeepsContexts` |
| `boot` | sectors of 4 bytes, pages of 8, a kernel of 51 bytes with two programs, eight command lines | `ImageLayout`, `SectorCount`, `ReadsWithinDisk`, `KernelLoaded`, `ProgramsLoaded` |
| `print` | 1 escape between 2 characters, or 2 escapes, some of them not conventional: 3625 calls | `Rendered`, `NumbufFits` |
| `library` | a memory of 4 bytes with 3 values, every contents and every call, `memset` also with -1 | `TypeOK`, `MemoryExact`, `LengthExact` |
| `kern_share_zero` | two processes, shares 0 and 1 | violates `PicksARunnable` |
| `kern_lottery_odds` | four processes | violates `LotteryMonotone` |
| `print_precision` | precisions 1 and 3, numbers of up to 4 digits | violates `NumberInFull` |
| `machine_frame` | as `machine` | violates `FrameIsRegisters` |

Why these bounds are enough to be of interest.  Two processes are enough for a
process that has exited and one that has not, in both orders; four for all shapes
of the cyclic searches with dead entries in between, and for the whole chain of
algorithm 7.  A word size of 2 makes the sum of tickets wrap; shares up to 2 make a
round take several turns and the largest share differ from the first.  Two
characters per program let a program take the lock again while the other is
between any two of its instructions.  In `os_lock` and `os_order` the screen has a few
cells more than the output, so that a lost or superfluous move of the cursor shows.  In
`machine`, line 0 is the clock, line 1 a device on the same controller with a lower
priority, line 14 one on the slave, which comes in through line 2; 53 is a system call,
54 a number behind the system calls whose gate is open, and 32 one whose gate is closed.
Four bytes are enough for the two objects of `memmove` to lie apart, touch, overlap on
either side and coincide.  In `boot` the file of the kernel takes several
buffers, its segments share sectors with other parts of the file, a note lies inside
the text, and one command line leaves sectors to fill.  In `print` the widths and
precisions lie below, at and above the lengths of the fields.

Every property of a passing run has a mutant, a plausible bug in the definitions
named `Mutant_...` in the modules, that TLC finds to violate it.

### What disagrees with the documentation

* `kern_share_zero`: the comment before `schedule()` says that it picks a runnable
  process and spins only if there is none.  Under algorithm 42 a process with share
  0 is runnable and is never picked; when it is the only one left, the shares are
  reset for ever.  (Algorithm 7 has the same gap: a process without tickets, or
  tickets that add up to 0, which divides by zero; `HaltsForAReason` states when.)
* `kern_lottery_odds`: `answers.txt:70` says that more tickets make a process more
  likely to run.  The tickets of a process that has exited fall to the next
  runnable one, so a process with fewer tickets may be as likely, or likelier.
* `print_precision`: `lib.h:35-39` promises C's `%d` and `%x` "and so forth"; a
  precision below the number of digits cuts the number off, because `strnlen` is
  applied to numbers too.  `Conventional` therefore takes only precisions that are wide
  enough for the number.  It also leaves out five details in which the code differs
  from C and the header, which promises only "some" escapes, says nothing: the flag `#`
  with `%x` and `%X`, which should print `0x` and is read (`FLAG_ALT`, `lib.c:104`) but
  never looked at again; `%c` of the character 0, which prints nothing; `+` and blank with
  conversions other than `%d`; a negative precision by argument (taken for 0); a negative
  width by argument.
* `machine_frame`: the comment in `schedos-int.S:103-105` says that the stubs complete
  the `registers_t`.  `default_int_handler` pushes one word, whether the CPU has pushed an
  error code or not.  After a division by zero the frame that `interrupt()` copies is a
  word short.  It does no harm today, because every such trap ends in the default case,
  which hangs; `KeepsContexts` shows that it reaches no other process.
* `answers.txt:73` says of `atomic_swap` that it "didn't quite work".  That is about an
  attempt at exercise 8 that is not in the repository.  The lock of exercise 6 in
  `schedos-1.c`, which is built on it, does work: `MutualExclusion` and `NothingLost`.
* `answers.txt` calls strict priority `scheduling_algorithm` 1; in the code it is
  2, and 1 is unknown: `HaltsForAReason` covers where that ends.
* `schedos-x86.c:93` says "Most interrupts are effectively ignored".  They are not: the
  default case of `interrupt()` loops for ever.  They are masked, which `OnlyTheClock`
  checks, and so the gates do not matter.
* `schedos-x86.c:198` calls the word 0x68 "clear specific mask"; by the table above it
  (`ef` = 11) it sets the mode.  With automatic end of interrupt the master has nothing in
  service, so the mode has no effect there, and the slave is masked.

The comment before `interrupt()`, "we will never receive clock interrupts while in the
kernel", is right, and proved.

## 4. Fairness

The kernel runs use `WF_vars(KernelStep)`, the CPU executes kernel code, and
`WF_vars(Tick)`, the timer interrupts user code.  Nothing is assumed of the
processes.  `DrawFairness` is added for algorithm 7 only: a loop that draws from a
free-running counter does not miss all winning tickets for ever.

`SchedOS` adds strong fairness of each program's steps: the quantum is a
millisecond (`HZ` is 1000), so a program that is run again and again executes
instructions, although the model lets a tick come before any one of them.  For
algorithm 7 it adds that the draws do not pass over a ticket holder for ever
(`FairDrawSpec`).

`Machine` assumes weak fairness of the kernel's code, of taking an interrupt that is
enabled, and of the timer's ticks (`DeviceStep(0)`), and nothing of the processes or
of the other devices.

## 5. Proofs

Each theorem holds for all values of the constants that satisfy the assumptions of its
module; TLC evaluates these assumptions in every run.

### The kernel: `SchedKernProofs`

| Theorem | Statement |
|---|---|
| `TypeSafety` | `Spec => []TypeOK` |
| `OnlyRunnableRun` | `Spec => []RunsRunnable` |
| `ExitTheorem` | `Spec => ExitIsFinal` |
| `ShareTheorem` | `Spec => []ShareWithinAmount` |
| `ContextTheorem` | `Spec => KeepsContexts` |

for every `NPROCS >= 2`, every set of algorithms, all arguments and any word size,
from `KernAssumption` and `ScreenAssumption` only.  `TypeOK` is not inductive by
itself: that `current` is a process after `run()` needs that entry 0 is never
runnable (`EntryZeroEmpty`), and, for `ShareRun`, which does not look at the state
again, that the candidate found by an earlier iteration is still runnable and has
share left (`Candidate`).  `IInv` is the conjunction of these with `RunsRunnable`.
`TrapInv` is what all cases of `interrupt()` share, `StayInv`, `RunKeptInv` and
`UseShareInv` are what the iterations share; `SystemCallInv`, `PickInv` and
`NextInv` put them together, one step per action.  An exit is final because only the
current process exits and it is runnable; the decrements do not wrap because
`Candidate` says there is something left.  `ContextTheorem` is a refinement: every
step is a step of `ContextSwitch` or a stutter, because a trap stores `cpu` where
`current` points and only `run()` changes `current`.  `EndOfRowBound` is the lemma about
`console_putc` that the others use: from any cell, the cursor comes to rest on the
screen or at its end.

`Foundations` gives what the provers lack.  They cannot use an induction principle that
takes a predicate, so it is stated of sets (`SetInduction`, `IntervalInduction`,
`SubsetInduction`): a set of numbers that holds 0 and every successor holds all of them,
because otherwise there is a smallest one outside.  From this follow recursion over the
numbers and over the subsets of a finite set, and with it what a sum over a set is
(`SumFacts`), however the community modules compute it.

### The promise of `schedule()`: `SchedKernProofs`, second part

| Theorem | Statement |
|---|---|
| `PolicyTheorem` | `Spec => ImplementsPolicy` |
| `HaltTheorem` | `Spec => HaltsForAReason` |
| `LotteryTheorem` | `Spec => []LotteryExact` |

`PolicyTheorem`: the process that a loop of `schedule()`
ends with is one that `SchedPolicy` prefers.  `SearchInv` says of each loop what
is known of the entries it has passed: round robin has come less far than any runnable
process is ahead; strict priority has no runnable process behind it; algorithm 41
has seen nobody more urgent than `firstPid`, who may himself have exited; the search
for the largest share has seen none larger.  The first search of algorithm 42 skips the
entry it starts from, so after a reset of the shares it may find nobody and
reset them again: its invariant needs the case that all shares are fresh (`Fresh`).
The loops that search are stuttering steps of `SchedPolicy`, except the reset, which
is a step.

The other two are about the draw of algorithm 7.  The table of the tickets, a recursion over
`proc_array`, holds at each entry the sum of the tickets of the processes up to it, modulo
the size of a word (`CumTicketsAdd`); so the total is the sum of all tickets modulo `Word`,
which is why a division by zero needs that sum to be a multiple of `Word`
(`HaltTheorem`; that the other loops cannot stop the kernel comes from `SearchInv`).  If
the sum fits in a word, the entries do not decrease, and the chain of tests runs process p
for the tickets from the entry before p's to p's: an interval as long as its number of
tickets (`LotteryTheorem`).

### The system: `SchedOSProofs`

| Theorem | Statement |
|---|---|
| `ExclusionTheorem` | `Spec => []MutualExclusion` |
| `OutputTheorem` | `Spec => []NothingLost` |
| `ScreenTheorem` | `Spec => []StaysOnScreen` |
| `KernTheorem` | `Spec => ImplementsKern` |

for any number of programs, any number of characters that fit on the screen, both
builds, all algorithms and every place of the store of a character.  `OSInv` holds as
long as the kernel has not halted: who is in the critical section has the lock and is
alone (`LockInv`); the cell loaded there is still the cursor (`LoadedInv`); the cursor is
the number of characters for which it has been moved (`CursorInv`, a cardinality, from
which it follows with `OSAssumption` that it stays on the screen); from the cursor on the
screen is blank (`BlankInv`); a program whose character is still to be stored, maybe
after it has released the lock, has a blank cell behind the cursor that no other
program waits for (`OwedInv`); and as many cells carry a program's character as it has
printed (`CountInv`).  `NothingLost` is the last of these; it would not be inductive
without the others, since the late store could hit anyone's cell.  `KernTheorem` carries
the theorems about `SchedKern` over to the system.  When the kernel halts in
`UnknownAlgorithm` it prints a message where the cursor is, so the first two properties
speak of the time before; `StaysOnScreen` holds then too (`HaltOnScreen`).

### The order of the output: `OrderProofs`

| Theorem | Statement |
|---|---|
| `SystemTypes` | `Spec => []TypeOK` |
| `StrictTheorem` | `Spec => [](EXERCISE_8 => StrictOutput)` |
| `PriorityTheorem` | `Spec => [](EXERCISE_8 => PriorityOutput)` |
| `CooperativeTheorem` | `Spec => [](SameSetup /\ EXERCISE_8 => CooperativeOutput)` |

These are statements about the whole system: kernel, searches, clock and programs.  They
are about the build that prints by `sys_print` (`EXERCISE_8`), as the run `os_order` is: in
the other build the cursor moves before the character is there.  The invariants say who
has printed how much while somebody runs and at every iteration of the search between two.

* `StrictOrder`: behind a runnable program nobody has begun, the cursor is where the first
  runnable one has got to, and the search never passes that one.
* `PriorityOrder`: whoever has printed has set its priority and is at least as urgent as
  whoever may still print.  A program that has not begun has priority 0 and so goes first,
  only to set its priority; in the search, `firstPid` is the most urgent of those passed,
  or has exited.
* `RingOrder`: all programs make the same trap in a round, one after the other; a character
  takes two traps, so they print in every second round.  This is so if the programs are
  built alike, all with a call at the head of `start()` or all without (`SameSetup`).  The
  exercises build them so; the model would let the builds differ.

The kernel's invariant is repeated here for the instance `Kern` (`KInv`): a theorem whose
module has assumptions about its constants cannot be cited of an instance of it.

### Entry and exit: `MachineProofs`

| Theorem | Statement |
|---|---|
| `UninterruptedTheorem` | `Spec => KernelUninterrupted` |
| `MachineTypes` | `Spec => []TypeOK` |
| `FaultTheorem` | `Spec => []StopsForAFault` |
| `ClockTheorem` | `Spec => OnlyTheClock` |
| `MachineContexts` | `Spec => KeepsContexts` |
| `EntryTheorem` | `Spec => EntersWhole` |

for any processes, contents of registers, exceptions and devices.

`UninterruptedTheorem` needs little: kernel code runs with the interrupt flag clear
(`FlagInv`).  It is kept because `iret`, the only instruction that sets the flag, is
the last one of any kernel code, and the segments popped are segments (`CodeOK`); and
because every trap passes a gate that clears the flag, which needs that the
tables have been loaded before a process runs (`TablesInv`).

The others need to know, at every instruction, where the kernel is and what is then on the
stack, in the registers and in the descriptors.  `Control` is the list of these places:

* `Starting(j)`, instruction j of `start()`: which tables are loaded, and what the master
  controller has been told so far (`MasterAt`): the words of an initialisation come in
  order, and from the second masking on only line 0 is open, if the clock is allowed;
* `InUser`: nothing is on the stack, and the registers are a user context, that is, one the
  CPU would load again;
* `InStub(k, x)`: k instructions of a stub are done, x is the number it pushes; how
  many words are on the stack, and which user context they and the registers are parts of;
* `InSchedule`: the stack does not matter any more;
* `InRun(k)`: so many words of the descriptor have been popped, the rest are on the stack
  where they were in the descriptor;
* `Stopped`: in the endless loop of `interrupt()`, for a trap without a case.  There is no
  place for a CPU that has shut down.

From `start()` on, `Settled` holds too: the tables are loaded, the master is programmed, and
each descriptor holds some user context.  Of these the theorems are corollaries.  Nothing
`run()` pops is refused by the CPU, because what is in a descriptor is a user context, and so
the kernel does not fault (`BlamesTheProcess`); no place in the list is a shutdown, and the
only loop is `Stopped` (together `FaultTheorem`); the stack holds at most one `registers_t`
(`MachineTypes`); only line 0 can request an interrupt, under the vector the master was told
(`ClockTheorem`).  `MachineContexts` is a refinement: each step of a process is a step of
`ContextSwitch`, and an instruction of a stub or of `run()` moves a word between the three places
where the context may be and is a stutter (`Moves`, `Stays`, `Stops`, `Goes`).
`EntersWhole` says the same of a trap alone: after `interrupt()` has been entered by a trap
with a case, the context of the process is what was in the CPU before.

### From files to memory: `BootProofs`

| Theorem | Statement |
|---|---|
| `SectorTheorem` | `Spec => []SectorCount` |
| `ImageTheorem` | `Spec => []ImageLayout` |
| `ReadsTheorem` | `Spec => []ReadsWithinDisk` |
| `KernelTheorem` | `Spec => []KernelLoaded` |
| `ProgramsTheorem` | `Spec => []ProgramsLoaded` |

for every sector, page and buffer size, all files and all command lines.  The first two need
`DiskAssumption` and `FileAssumption` only (files are sequences of bytes); the third, in
addition, `ElfAssumption` and `RoomAssumption`; the last two need `LinkAssumption`.

The argument has four layers, each an invariant that uses the one before.

* `IInv`: the disk and `data`, what is still to be written, together are `nsectors` sectors
  and, while a file is read, `pos` bytes.  `SectorCount` speaks only of the moments when
  `data` is empty.  `WholeSectors` is the arithmetic: padding makes a multiple of the sector.
* `ImageInv`: the disk and `data` together are the image of the arguments up to `i`, followed
  by the zero sectors skipped or filled since, or by the part of a file that has been read
  (`Whereabouts`).  That image is described by a chain, one sequence for each argument
  (`Chain`), because the fold of `Image` cannot be unfolded step by step; `FoldOfChain` shows
  that the fold is the end of the chain, with the recursion over subsets of `Foundations`.
* `LoaderInv`: memory holds bytes of files, zeros and junk, and no byte of a missing sector.
  A segment's sectors lie, in the file, where its bytes do (`SectorPlace`), so the last
  sector read is not behind the last one that `mkbootdisk` has padded (`PaddingGrows`).  This
  layer makes no use of what the disk contains, and so holds for a disk cut short.
* `LMInv`: the disk has a kernel behind its boot sector, whole (`KernelOnDisk`, by induction
  along the chain); its headers are intact on the scratch page; the segments before `ph`, and
  later the programs before `pid` with their entry points, are in memory as they are in their
  files.  `KernelSegment` and `ProgramSegment` are the steps: one call of `readseg()` or
  `copyseg()` loads its segment and disturbs none before it.  A note is read again, over the
  segment it is part of, and has the same bytes.

### The console: `PrintfProofs`

| Theorem | Statement |
|---|---|
| `RenderTheorem` | `Spec => []Rendered` |
| `NumbufTheorem` | `Spec => []NumbufFits` |

for formats of any length, all flags, widths, precisions, numbers and strings, and any even word
size, from `WordAssumption`, `NumAssumption` and `CallAssumption`; the second also needs
`NumbufAssumption`, which the code meets: a number of 32 bits has at most ten digits
(`ThirtyTwoBits`), and the array has 20 characters.

The argument has three parts that know nothing of each other, and the invariant that joins them.

* Concatenations.  The format is the concatenation of what the pieces are written as, and so are
  the arguments.  `PartPlaces` says where in a concatenation a place of a part is;
  `FormatPlaces` and `ArgumentPlaces` say it of the pointer `format` and of `va_arg()`.
  `EscapeChars` and `EscapeArguments` go on to the parts of one escape.
* Numbers.  `Numerals`: what `fill_numbuf()` writes has the value of the number, as many digits as
  `NumberOfDigits` counts, and no 0 in front.  The recursion goes by division and so needs its own
  principle (`BackwardRecursion` in `Foundations`).  `AbsoluteIs` is the smallest `int`: its
  negation, read as unsigned, is right.  `FewerDigits` says that no number takes more room than the
  largest in decimal.
* Fields.  `NumberField` and `StringField`: the data, cut or filled with zeros and padded by
  `FieldOf`, are a `Field`.  Zeros asked for by the flag 0 and by a precision exclude each other;
  `BodyAsked` is this case distinction, and `Padded` puts the blanks on the right side.
* `PInv` says which piece k is next or being read: everything before it is printed, in its place
  and its color (`Printed`), and, inside an escape, how many flags have been read, that width and
  precision are those of this escape as far as they have been read, and -1 otherwise, and how many
  arguments have been taken (`InFlags`, `AtPrecision`, `AtLetter`).  The last is what `Rendered`
  alone does not have: a precision left over from the escape before would print a wrong field only
  several steps later.  After the escape without a letter that ends the format the pointer stays
  where it is (`AtPiece`).

### Library: `LibraryProofs`

`MemoryTheorem`, `LengthTheorem` and `LibraryTypes` are about memory of any size.  The
invariant has a part per loop, which says what the loop has written and why the bytes it has
still to read are the original ones: going forward, the source does not begin before the
destination or ends before it; going backward, it begins before it.

### Only model-checked

Liveness (`AllExit`, `Preempted`, the fairness of the algorithms, and the part of
`ImplementsFairPolicy` that says a choice is made), which needs `ENABLED` and is out of the
prover's reach.  All invariants and all other properties of the steps that the passing runs check are
stated by a theorem.

## 6. Not modelled

* The mode switch of `bootstart.S`, the wait for the disk and the port writes of
  `readsect`: straight-line code, executed once, with nothing to interleave with.
* `console_clear`: the screen is blank in `Init`.  The port writes that place the blinking
  cursor have no effect on the models.
* `console_read_digit`: nothing calls it and it keeps no state.  (It takes the scan code of
  the keypad's period for a 0 and knows none for the keypad's 0.)
* The parts of `x86.h` that nothing uses.
* The build files.  `conf/rules.mk` has `.DELETE_ON_ERROR`, so the partial image
  of a failing `mkbootdisk` is not kept.
* The generator of algorithm 7: its cycle counter is free, so any ticket may come.
