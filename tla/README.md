# Verification of the operating system

TLA+ models of the kernel in `src/student-distrib` and of its programs in
`src/syscalls` and `src/fish`, the TLC configurations that check them on small
instances, and TLAPS proofs of the main results for every value of the constants. `PROJECT.json` maps each
definition to the lines it models, and lists the runs, the mutants that show
each property can fail, the hazards and the theorems.

## The system

A single-processor x86 kernel with three terminals, at most six processes, a
read-only file system and three interrupting devices.

| part | code | what it does |
|---|---|---|
| processes | `syscall_handler.c` | a pool of pids; `execute` suspends its caller until the program halts; the first program of a terminal, its base shell, is replaced when it halts |
| scheduler | `pit.c`, `schedule` in `syscall_handler.c` | a tick passes the CPU to the next terminal, and launches that terminal's base shell the first time |
| terminals | `terminal.c`, `paging.c` | one terminal is on the monitor, each of the others is drawn in a page of its own; the mapping follows the running terminal |
| text output | `lib.c` | the cursor, scrolling, Backspace, clear |
| keyboard | `keyboard.c` | scan codes, modifiers, a line buffer for each terminal, `terminal_read` |
| clock | `rtc.c` | one signal and one rate register for all programs |
| files | `fs.c`, `open`, `read`, `write`, `close` | descriptors and block-wise reads |
| command line | `parse_args`, `getargs` | splits the line given to `execute` |
| interrupts | `i8259.c`, `idt.c`, the entry stubs | two controllers, interrupt gates, nested handlers |
| library | `lib.c` | `printf`, the memory and string functions |
| programs | `src/syscalls` | shell, grep, cat, ls, syserr (a test of the calls' error returns) and others |
| fish | `src/fish` | an animation of blinking cells, kept in a list by the library `blink.S` |

Every gate of the IDT is an interrupt gate. Handlers and system calls run with
interrupts off, so each is one action, up to the places where the code turns
interrupts on. These are the whole of `syscall_read` (waiting for the keyboard
or the clock), the window between `sti` and `iret` at the end of
`syscall_execute`, and the return path of the handlers. What can go wrong lies
mostly there, and in the global variables that stand for "the" terminal:
`kbd_buf`, `buf_pos`, `screen_x_ptr`, the page-table entries, `tss.esp0`,
`rtc_signal`.

## Modules

| module | models | state and actions |
|---|---|---|
| `Process` | pids, PCBs, `execute`, `halt`, exceptions, `schedule`, boot loop | one variable per global or PCB field; one action per outcome of a system call; `Tick` in each mode with interrupts on. A saved `esp`/`ebp` is a record of what it returns to and the stack it is on; `clobbered` holds the processes whose saved frame later pushes may have overwritten; `exec_ret` is what `execute` returned last |
| `Sessions` | the promise of `Process` | a stack of programs per terminal, whose turn it is, and what the last `execute` answered |
| `ProcessSessions` | the refinement | reads the stacks off the `parent_pid` links |
| `Video` | video pages, `vidmap`, terminal switch, hardware cursor | pages reduced to the last thing drawn; page-table entries and the TLB; a handler or call per action |
| `Screens` | the promise of `Video` | a screen and a cursor per terminal |
| `Keyboard` | line buffers, `terminal_read` | a key, Enter, Backspace or switch is one action; a read is a step per character, or ends the program by a page fault. `owed` is a history variable: the line that a read should return, until a key changes a place of it that is still to be copied, or a character is copied while another terminal is viewed |
| `LineEditor` | the promise of `Keyboard` | a line per terminal and whether it was entered |
| `KeyDecode` | scan codes, modifier flags | codes queue between the keyboard and the handler; each carries what the user held, which the handler does not see. Ctrl and Alt have two keys each; `lapsed` is a history variable: a modifier that is held although its flag was cleared |
| `Console` | `nb_putc`, scrolling, `clear`, echo | one terminal's cells and cursor, with the line being typed |
| `Rtc` | `rtc.c` | `rtc_read` statement by statement; the device's register C; `since` is a history variable |
| `Interrupts` | controllers, gates, handler frames | requests, in-service and mask bits; the handlers on each terminal's stack |
| `Files` | `fs.c`, descriptors | every call of `open`, `read`, `write`, `close`, refused ones included, and `execute` and `halt` as far as descriptors go; a byte is named by its block and place, so a read shows what it copied |
| `Programs`, `MCFiles` | cat, ls, grep's `main`, syserr, over `Files` | each call a program makes and what it does with the result is an action; cat and grep may have been given no argument; syserr's tests are the sequences of calls in its source; `AnyProgram` makes any calls and executes the others. `MCFiles` gives a small image |
| `Blink` | `blink.S`, `mp1_malloc`, `mp1_free` | the array of slots, the list's head, the screen; the tick and the four ioctls |
| `Blinkers` | the promise of `Blink` | a pile of blinking cells, without slots or pointers |
| `Fish`, `MCFish` | `fish.c`, over `Blink` | the opening of the frames, which may fail, `add_frames` a column at a time, `main`'s four loops; or a program that makes any calls |
| `ParseArgs` | `parse_args`, the copy into the PCB, `getargs` | a step per character, with the memory after the line; `getargs` with its refusals and with lengths beyond the array |
| `Grep` | `do_one_file` of grep | a step per read and per line, with the buffer's uninitialised bytes and the file's `'\0'` bytes |
| `LibMemory` | `memset`, `memset_word`, `memset_dword`, `memcpy`, `memmove` | the string instructions they consist of, and the direction flag, which outlives a call |
| `LibPrintf` | `printf`, `itoa`, `strrev` | the walk over format and parameters, digit by digit |
| `Characters`, `MCLibrary` | | the characters that `ParseArgs` and `Grep` tell apart; the four algorithms in one specification, one in each behaviour |
| `Terminals` | | the number of terminals and the running one, for `Video`, `Keyboard`, `Rtc` and `Interrupts` |
| `ProcessInvariant`, `ProcessProofs`, `SessionsProofs` | | the inductive invariant of `Process` with a lemma for each action; the theorems about it; the refinement of `Sessions` |
| `VideoProofs`, `KeyboardProofs`, `ConsoleProofs` | | the theorems about `Video` and `Rtc`, about `Keyboard` and `Interrupts`, about `Console` and `KeyDecode` |
| `FilesProofs`, `ProgramsProofs` | | the theorems about `Files`, whoever calls it, and about the programs of `Programs` |

`Process`, `Video`, `Keyboard`, `Rtc` and `Files` are separate machines that
share the idea of a running terminal. Where one needs another it uses the
other's promise: `Video` and `Files` keep a terminal's programs as a stack, as
`Sessions` states and `ProcessSessions` shows for the code; `Console` gives the
meaning of the characters that `Video` reduces to "something was drawn";
`KeyDecode` produces the keys that `Keyboard` takes. The reader of a
terminal in `Keyboard` and `Rtc` is whichever of its programs is on top of the
stack: one below it waits in `execute`, and one that a page fault ends inside
`terminal_read` (`ReadFaults`; `rtc_read` writes to no buffer) gives way to
another.

Abstractions that matter: a program's instructions are the system calls it
makes; file loading is reduced to whether the program exists; printed messages
are characters drawn on the terminal that prints them, and in `Programs` left
out; the TLB may hold an entry that was used since the last flush.

## Runs

| run | instance | shows |
|---|---|---|
| `Process` | 4 pids, 3 terminals | `TypeOK`; no pid leaked or shared (`ProcessesThreaded`); saved frames are those their reader expects (`SavedFrames`); registers agree with the running process (`MachineFollowsProcess`); frames are overwritten only in the launch window of a base shell (`OnlyLaunchesClobbered`); a terminal never loses its process (`TerminalKeepsProcess`); the CPU is lost in two cases only (`LostOnlyAtLaunch`); every caller of `execute` gets its own child's status (`RefinesSessions`); `EveryTerminalRuns` |
| `Video` | 3 terminals, 2 programs each | `TypeOK`; the mapping is the running terminal's (`MappingFollowsRunning`), the hardware cursor the monitor's (`CursorFollowsMonitor`), the program's page is open only for one that asked (`MappedOnlyWhileAsked`), and no write lands on another terminal's screen (`RefinesScreens`) |
| `Keyboard` | 2 terminals, buffers of 2, one character | `TypeOK`; lines are edited as typed across switches (`RefinesLineEditor`); a read returns the line entered, also if an earlier reader ended inside its read, unless a key changes a place before it is copied or a character is copied while another terminal is viewed (`ReadReturnsLine`); Enter ends the read (`EnterWakesReader`) |
| `KeyboardTypeAhead` | 1 terminal, buffers of 3 | violated: `AlwaysNewline`, see below |
| `KeyDecode` | 3 keys held, 2 codes queued | no modifier is stuck, and none forgotten but in the two cases described below (`FlagsFollowKeys`); codes mean what was held when they were sent (`KeysAsPressed`) |
| `Console` | 4 rows of 2, a line of 3 | `ConTypeOK`; the screen shows the line being typed (`EchoIsLine`); `BarKeptWhileClean` |
| `Rtc` | 3 terminals | the device runs at the frequency accepted (`RateAsAccepted`); no read returns without an interrupt of its own (`ReadSeesInterrupt`); `SomeReadReturns` |
| `RtcStarve` | 2 terminals | violated: `EveryReadReturns`, see below |
| `Interrupts` | 3 terminals, handlers nested 2 deep | no end-of-interrupt lost or misdirected (`InServiceExact`); the timer is never lost (`TimerServed`) |
| `Files` | blocks of 2 bytes, 4 entries, 4 descriptors | reads give the file in order (`ReadsInOrder`); 0 means the end (`ZeroMeansEnd`); a descriptor stays the same file and never goes back until its program closes it (`DescriptorKept`); cat, ls and grep process all they should, or return 3 for want of an argument, and syserr's tests pass whatever was open before (`OutputRight`) |
| `Fish` | 3 slots, 5 cells, shorts of 2 bits, frames of up to 3 characters | the list in the array is the pile of cells it should be (`RefinesBlinkers`); `add_frames` makes one cell for each place of the two frames (`FramesAdded`) |
| `Library` | lines of up to 6, files of up to 5 bytes, a buffer of 3, 10 bytes of memory, words of 2 hexadecimal digits | `ParsedRight`, `GetargsGives`, `PrintsMatchingLines`, `PrintsOnlyParts`, `CallsDoAsPromised`, `PrintsTheFormat` |

`Process`, `Fish` and `Library` are checked without deadlock: a CPU that is
lost stops the model, and fish and the algorithms end.

### Bounds

Three terminals make a round in which the running, the viewed and the next
terminal can all differ. Four pids let one terminal hold a shell and a program
while the others hold shells, and let the pool run out, before or after all
terminals are launched. A key buffer of two places already has the ordinary
place and the place reserved for Enter; read lengths 1 and 3 lie on both sides
of it. The screen of `Console` scrolls within a line and wraps twice. The files
of `Files` end within a block and at a block's end, on blocks out of order.
`MaxNest` in `Interrupts` refuses a third handler on a stack, which is a bound
of the model and not of the code. `KeyDecode` holds three keys, enough for both
keys of one modifier and a letter. Two letters tell strings and screens apart;
`Keyboard` has one besides Enter, where lengths tell lines apart, and
`KeyboardProofs` is about any set of characters. `BUFSIZE`, `CLEARED` and `ARG_LEN` are scaled down so that files and
lines cross them. The frames of `Fish` have rows of different lengths, end one
before the other, fill all slots and reach below the screen; its `HALF` of 2
gives every kind of length the tick tells apart (0, 1, the sign bit alone,
beyond it). Ten bytes hold an unaligned head, a double word and an unaligned
tail; two calls are enough for one to leave the direction flag to the other.
The word of `LibPrintf` has all its values, the smallest negative one included.

### Fairness

* `Process`, `Keyboard`, `Rtc`: the PIT ticks for ever and no code keeps
  interrupts off for good, hence weak fairness of `Tick`. The clock of `Rtc`
  likewise raises its interrupt, and its handler runs.
* `Keyboard`, `Rtc`: strong fairness of a reader's step at its terminal's turn.
  A turn is a whole tick (10 ms), in which a loop that can leave does. A tick
  cannot always fall before the loop's next load. Fairness is not assumed of a
  program's decision to call `read` or to halt.
* `Interrupts`: handlers end, a system call with interrupts off returns, and
  the processor takes a pending timer interrupt between two instructions with
  IF set, hence strong fairness of its acceptance.

## Where the code and its comments disagree

Two disagreements are runs that end in a counterexample.

* `KeyboardTypeAhead`: Enter sets `buf_pos` to 0 (`keyboard.c:202`) and leaves
  the line in the buffer for a reader that copies it only at its turn. A key
  typed before that goes to place 0. In the counterexample Enter ends an empty
  line and an `a` follows: it overwrites the only `'\n'`, and the reader that now
  begins to copy finds none, although the comment at `keyboard.c:271` says there
  is always one. One terminal is enough; no switch takes part.
* `RtcStarve`: `rtc_signal` is shared. A reader that begins or returns clears
  it, so a program whose turns always come after that stays in `rtc_read`,
  which should "block until the interrupt status is changed" (`rtc.c:64`).

Others are visible in the models, which do what the code does, and are not runs.

* `execute` returns 0 when no pid is free (`syscall_handler.c:267`); the
  comment of `execute` and `ece391syscall.h` promise -1. `Sessions` allows 0
  then, and in no other case for a program that never ran.
* A program that halts with 255 gives its parent 256 (`syscall_handler.c:397`),
  the value that the shell takes for an exception (`ece391shell.c:31`).
* `launch_base_shell` can return, if a terminal is first reached when all pids
  are taken; its message says it should not (`syscall_handler.c:658`).
  `LostOnlyAtLaunch` covers this case and the other one in which the CPU is
  lost: a tick between the `sti` and the `iret` of a base shell's launch leaves
  its frame on a stack that others use.
* When a program that called `vidmap` halts, the terminal's page is closed also
  if the program's parent had called `vidmap` (`syscall_handler.c:383`).
* `rtc_close` leaves the rate as it is; its comment says it resets it
  (`rtc.c:141`).
* `read_data` refuses inode 63 (`fs.c:132`).
* After Ctrl+L in the middle of a line, Backspace can rub out the bar in the
  first row. `BarKeptWhileClean` is stated up to that point.
* `mp1_ioctl_sync` means to show the character of the phase it copied, but
  chooses with `cmovl` after a `testb` that leaves no sign (`blink.S:281`): the
  off character is shown in either phase, until the next change.
* A slot of `blink_array` is free if its location is 0 (`fish.c:164`), so a
  cell at location 0 would be allocated again while it is linked. fish asks for
  none, and `BlinkAssumption` excludes it.
* Ctrl+L clears the Ctrl flag, so that its repeat types a letter
  (`keyboard.c:165`). And the two Ctrl keys share a flag, as do the two Alt keys
  (`keyboard.c:307` and `363`): the release of one clears it while the other is
  held. `FlagsFollowKeys` allows these two cases, until a key of the modifier is
  pressed again, and no other.
* The comments of `memset_word` and `memset_dword` give `n` as the "number of
  bytes to set" (`lib.c:502` and `522`), and the next lines but one say that `n`
  "consecutive memory locations" are set. `rep stosw` and `rep stosl` set `n` words and
  double words, which is what `CallsDoAsPromised` takes to be promised. Neither
  function has a caller.
* grep means to "copy from line_start to last down to 0" (`ece391grep.c:34`)
  but does it with `strcpy`, which stops at a `'\0'`. The files it searches
  include programs, which hold such bytes: the buffer's rest is then stale, and
  a matching line is printed only up to its first `'\0'`. `PrintsOnlyParts`
  covers what is printed until a `'\0'` is read, `PrintsMatchingLines` the lines
  before the first that holds one.

## Proofs

TLAPS proves the following for any number of pids, terminals, descriptors and
keys, any characters, any size of screen, buffer, block and file. The only
assumptions are the named `ASSUME`s on the constants in the modules, which TLC
evaluates in the runs. Four of them say more than that a constant is a number:

* `ConsoleAssumption`: a full line buffer fits on the rows below the one that
  `clear` starts at. Otherwise a line scrolls its own beginning away and the
  screen cannot show it. The code has 128 characters and rows of 80.
* `FilesAssumption` and `ProgramsAssumption`: the directory names inodes that
  the image has, as the image builder sees to, and the length of a file and of
  a read add up to less than 2^32 (`NoWrap`).
* `ImageAssumption`, for what the programs process: every inode is one that
  `read_data` accepts and names existing data blocks, up to the block that the
  file ends at; the directory is in itself, under `"."`, no name is there twice
  and there is no other directory but under a name that begins with a dot; a
  process has at least two descriptors to open. `filesys_img` satisfies it
  (17 names, 59 data blocks, inodes up to 55, "." the only directory).
* `RtcAssumption`: the frequencies allowed are those of rates 3 to 15.

**ProcessProofs**: `TypeCorrect`, `Threaded`, `FramesSaved`, `MachineFollows`,
`LaunchesClobbered`, `TerminalKeeps`, `LostAtLaunch`. None of the properties is
inductive alone. The invariant `IInv` says that unless the CPU is lost four
things hold. `Tree`: terminals' processes and parents are live, distinct, and
between them all the live processes. `Machine`: the registers and the mode
agree with `cur_pid`, and a child in its launch window is on its parent's stack
under the parent's frame. `Frames`: a parent's saved frame is `execute`'s, a
waiting terminal's is `schedule`'s, each on the process's own stack but for the
launch window. `Stacks`: two processes whose frames share a stack are ordered
on it, unless one is a base shell in its launch window. `halt` needs all four:
the parent is live by `Tree`, its frame is of the right kind by `Frames`, not
overwritten by `Stacks`, and the registers loaded from its PCB restore
`Machine`. There is one lemma per action, in `ProcessInvariant` for the system
calls and in `ProcessProofs` for the ticks; `Park` states what `schedule`'s
saving achieves for both of its continuations.

**SessionsProofs**: `ProcessIsSessions`, the refinement. `Tree` is not enough for it: parents that
form a circle satisfy it too. `SessionsInv` says that the links are *threads*,
one sequence of pids for each terminal that starts at a process without a parent
and ends at the terminal's, with no pid in two places and every live pid in one.
`ChainIs` shows that `Chain` returns the thread it is started at the end of, so
that the threads are what the refinement mapping reads. After that `execute`,
`halt` and a launch replace one terminal's thread (`Pushed`, `Popped`, `Based`),
a switch none, and a lost CPU leaves the threads as they are.

**VideoProofs**: `TypeCorrect`, `MappingFollows`, `CursorFollows`,
`MappedWhileAsked` and `ImplementsScreens`, the refinement of `Screens`. The
invariant is the conjunction of the properties and `BaseNeverAsked`: a base
shell has not called `vidmap`, so replacing one leaves nothing open. The
refinement rests on `MappingFollowsRunning`: every write lands on the page on
which the writer's terminal is shown.

**KeyboardProofs**: `BuffersTyped` (no index leaves its buffer),
`ReadsReturnLines` and `KeyboardIsLineEditor`, the refinement of `LineEditor`.
The invariant: `kbd_buf` is the viewed terminal's buffer; below its position a
buffer holds typed characters and no `'\n'`; a line that a reader is owed ends
with its only `'\n'`, and the part of it still to be copied lies in its
terminal's buffer; and what the reader has copied so far is the beginning of it. The return of a read then follows from
the three ways in which the copying loop ends.

**ConsoleProofs**: `CursorOnScreen`, `EchoShowsLine`, `BarIsKept`. The invariant
adds to the echo that a line only its own keys have touched begins below the
first row. Most of the work is `nb_putc`: what scrolling and wrapping do to the
cells before the cursor, for a screen of any size.

**FilesProofs**: `ReadsFollowFile`, `ZeroOnlyAtEnd`, `DescriptorsStay`, for any
sequence of calls by any of the programs, refused calls included. The lemmas
first show what the copying loops of `fs.c` compute: `read_data`'s pieces, taken
block by block, join to the bytes from the offset to the end asked for
(`FileRead`), and a directory's names to its contents (`DirRead`). The invariant
`FilesInv` then says that all a descriptor's reads have returned is the part of
its file before its position, and that the first two entries of a table are the
terminal's.

**ProgramsProofs**: `ProgramsEndRight`. `FilesInv` speaks of a descriptor and
not of what the program that reads it does with the bytes. The invariant
`ProgInv` adds that, for each place in a program. Without an argument cat and
grep have done nothing but ask for it. cat and ls: what they have
written is what their descriptor's reads have returned, but for the buffer that
is still to be written; a read that returns 0 is at the end, so the output is
then the whole file. grep: it has two descriptors, the directory's at entry
`pos` and the file's, and what it has read is the files before `pos` and this
one's up to its position; closing the file makes room for the next. syserr:
except in the third test it has nothing open, and the refusals it has counted
are all the calls of the test so far; in the third test the descriptors taken
are exactly `2..call` until none is free, then those not closed again, so the
next test finds none open. The lemmas at the end of `FilesProofs` give what
`open`, `close`, `read` and `write` do as the program sees them (`OpenGoes`,
`CloseGoes`, `ReadGoes`, `WriteGoes`): `read` cannot fail on such an image, and
it returns 0 only at the end.

**ConsoleProofs**, the keyboard's codes: `ModifiersFollowKeys` and
`CodesMeanWhatWasHeld`. Codes wait in a queue, so flags and keys agree only at
its two ends. The invariant is that there is one sequence of flags through the
queue: it starts with the flags the program has, each code makes the next
element as the handler would, each element agrees with what was held when that
code was sent, and the last agrees with the keys that are down and the
modifiers that lapsed. A press or release extends the sequence, the handler drops its first element.

**VideoProofs**, the clock: `ReadsSeeInterrupts` and `RateFollowsCalls`. A set
signal is news to every waiting reader, because beginning a read clears the
signal. The shifts by which `set_frequency` finds the rate are shown to compute
the exponent of a power of two (`Log2OfPow2`), so the rate bits always stand for
the frequency accepted last.

**KeyboardProofs**, the interrupts: `LinesInService`. `InServiceExact` speaks of all handlers
on the running terminal's stack; the invariant says why at most the innermost
counts. Below the top of any stack every handler is past its `sti`, no other
terminal's innermost handler is at work, the running one's is not while
interrupts are on, and the lines in service are those of that handler. So
`send_eoi` of the handler's own line leaves none in service, before `schedule`
changes stacks.

What a recursive function or a loop computes is proved in these modules without
the library's induction theorems: a smallest counterexample exists because the
order of the naturals is well-founded (`WFMin`), and is refuted.

Only model-checked: all liveness (`EveryTerminalRuns`, `EnterWakesReader`,
`SomeReadReturns`, `TimerServed`), which needs `ENABLED`; and what is defined by
`RECURSIVE` operators, namely `RefinesBlinkers` and `FramesAdded` of `Fish` and
the algorithms of `Library`.

## Not modelled

The boot code and the constant descriptor tables run or are set once, as are
the page directory entries that never change after boot and the ports of the
PIT: there is no second state to check them against. Signals are stubs. The
system-call wrappers load registers. The Linux emulation of the system calls is
not part of the running system, and sigtest tests signals. hello, testprint,
counter and pingpong write, and read the keyboard or the clock; their only state
is a loop counter and pingpong's moving character, which no other step can
change. The programs' support functions are modelled only where grep uses them. The cursor keys, around which
a keyboard may send codes of Shift, are left out of `KeyDecode`. The shell is modelled as the program
that executes others and halts; its prompt and messages are not. `strcpy` and
the spin locks of `lib.c` have no caller. How deep handlers nest on an 8 KB
stack depends on the devices' speed, and what lies behind an array on the stack
on the compiler; both are listed as hazards without a property.
