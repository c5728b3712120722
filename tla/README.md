# some-tiny-os in TLA+

A verification project for some-tiny-os, a small x86_64 Unix-like system: its
file system TinyFS, the keyboard driver, tasks and signals, pipes, the kernel
heap, the memory of user programs, the editor `ed`, and the line editor and the
variables of the shell.  Modules are written in TLA+ and checked on small
instances with TLC; every safety property that the runs check is also proved, for
every value of the constants, with TLAPS; where a proof needs a hypothesis beyond the
assumptions on the constants, it is named with the theorem.

## The system and its parts

| part | sources | state | operations | what makes it correct |
|---|---|---|---|---|
| TinyFS calls | `kernel/fs/vfs.c` | `cwd_inum` | mkdir, rmdir, create, delete, rename, copy, write_file, cd, cat, ls | names form a tree, for clients that keep to `RmdirAllowed` and `RenameAllowed`; mkdir, rmdir, create, delete and rename either work or leave no trace (write_file and copy may lose the old file or leave an empty one); other files keep their contents |
| TinyFS on disk | `kernel/fs/tinyfs.c`, `tinyfs.h` | inode and block bitmaps, inode table, blocks | allocate and free inodes and blocks, add and remove entries, mount | what has a name is marked used; no block has two owners; so at every power failure |
| Image tools | `tools/*.c` | the disk image | mkfs, tinyfs-add | the first image satisfies the invariant |
| ATA driver | `kernel/fs/ata.c` | the disk | read and write sectors | writes happen, in order |
| Keyboard | `kernel/keyboard.c` | ring, modifiers, escape state | interrupt handler, keyboard_read, keyboard_data | characters arrive once and in order; a reader is woken |
| Timer, serial | `kernel/timer.c`, `serial.c` | tick count, UART | tick, sleep, read, write | ticks never stop |
| Scheduler, signals | `kernel/scheduler.c`, `isr.asm` | task ring, current task, pending switch | fork, exit, waitpid, kill, tick, deliver | every task resumes where it stopped; nobody waits for ever |
| Pipes | `kernel/pipe.c` | pool of rings, reference counts, blocked tasks | create, read, write, close, dup, fork copy | bytes arrive in order; end of file is seen; nobody sleeps with work to do |
| Memory | `kernel/memory.c` | heap list, page tables, reference counts, regions | alloc, free, map, clone, fault | blocks do not overlap; processes do not share written pages |
| ELF loader, syscalls | `kernel/elf.c`, `syscall.c` | regions, heap break | exec, sbrk, dispatch | a failed exec leaves the caller intact |
| some-libc | `some-libc/` | malloc list, file table | malloc, free, fopen | as the heap |
| Shell | `userspace/shell.c` | line, history, variables, `/env` | keys, tab, enter, export, unset | the screen shows what will be executed; variables survive a restart |
| Editor | `userspace/ed.c` | table of lines, file name, modified | load, save, insert, delete, substitute, quit | lines keep their order and their contents; nothing is lost without a warning |
| Other user programs | `userspace/` | none | cat, grep | not modelled |
| Display | `kernel/vga.c` | the cells, the cursor | putchar, setpos, scroll, clear | as the line editor needs it |
| Boot, clock, descriptor tables | `boot/`, `kernel/{kernel,cmos,gdt,idt}.c` | device registers | straight-line set-up and output | not modelled, but for the interrupt path |

How they interact.  User programs enter the kernel through `int 0x80`, whose gate is
a trap gate: interrupts stay enabled and a tick may switch tasks in the middle
of a system call.  There are no locks.  The interrupt handlers (timer, keyboard)
run with interrupts disabled.  The file system calls run inside a system call
and reach the disk synchronously through the ATA driver.  Only the shell, task 0,
makes system calls in practice: the idle task makes none, and the child of a
fork faults the first time it is scheduled (`ChildNeverRuns`), so no two file
system calls overlap.  `Pipe` and `AddressSpace` look at code that is written
for several tasks as if the child did run: what they show holds for the code of
`pipe.c` and `memory.c`, whatever becomes of `fork`.

What is hard.  Power failures between the disk writes of one call, with no
journal and no fsck; error paths that must undo earlier steps when the disk or
a directory is full; interrupts between any two instructions of
`keyboard_read`; task switches inside pipe and scheduler code.  The full list,
with the line where each bites, is under "hazards" in `PROJECT.json`.

## Modules

| module | what it is |
|---|---|
| `TinyFS` | the file system: state, calls, steps, power failures, properties |
| `TinyFSInd` | its inductive invariant `IndInv`, and those of what its calls promise |
| `TinyFSProofs` | theorems and proofs: the disk stays sound, what the calls promise, the tree |
| `MCTinyFS` | instances for TLC |
| `Keyboard` | the keyboard driver, its reader, the tick and the serial line |
| `KeyQueue` | what the driver promises: a bounded first-in first-out queue |
| `KeyboardProofs` | the proof that the driver keeps that promise |
| `MCKeyboard` | instances for TLC |
| `Tasks` | tasks, switches and signals, with the inductive invariant `TasksInv` |
| `TasksProofs` | theorems and proofs about them |
| `Pipe` | pipes and file descriptors |
| `PipeProofs` | theorems and proofs about them |
| `KernelHeap` | the kernel heap, with its inductive invariant `HeapInv` |
| `KernelHeapProofs` | theorems and proofs about it |
| `AddressSpace` | user memory: page tables, copy-on-write, demand paging, exec, sbrk |
| `AddressSpaceProofs` | theorems and proofs about it |
| `Ed`, `MCEd` | the editor, and the substitutions TLC tries |
| `EdProofs` | theorems and proofs about it |
| `LineEditor`, `MCLineEditor` | the shell's line editor, history and completion; names and lines for TLC |
| `ShellEnv`, `MCShellEnv` | the shell's variables and their file; lengths of names for TLC |
| `ShellProofs` | theorems and proofs about the line editor and the variables |

Definitions followed by the comment "a mutant" are faulty variants of the
definition after them.  They are used by no specification; putting one in the
place of its original makes a run fail, and so shows that the property looks at
that piece of code.  `PROJECT.json` says which one breaks which property.

### TinyFS

State.  `ibm` and `bbm` are the two bitmaps as sets, `itab` the inode table,
`blk` the contents of the blocks, `cwd` is `cwd_inum`.  `pc` and `call` are the
position and the locals of the one running call.  `old`, `crashes` and `torn` are
history variables.

Steps.  A call takes one step per write to the disk: everything it does between
two writes only reads, so the power can fail only between steps as far as the
disk can tell.  `FsMkdir` ... `FsWriteFile` are the calls up to their first
write; the rest is shared, as in the code: `CreateNode`, `InodeClear`
(`tinyfs_inode_alloc`), `MkdirBlock`, `WriteInode`, `WriteDirBlock`,
`AddDirent`, `RemoveDirent`, `FreeBlock`, `FreeInode`, the error paths
`UndoBlock` and `UndoInode`, and `FillBlock`, `WriteData`, `WriteFinal` for
file contents.  `Crash` loses the running call and mounts the disk as it is.

Abstractions.
 - A path is the inode of its directory part and a last component.  A path with an
   empty component always fails without effect and is left out, as are paths of
   256 characters or more.
 - A name is a value; `Clip` says how the 28 bytes of an entry cut it.  A block of
   file data is one value.  Sizes are in blocks.  Directories' sizes, times
   and reference counts are never read by the code and are left out, so the
   trailing `tinyfs_write_inode` of `tinyfs_add_dirent` and
   `tinyfs_remove_dirent` rewrites what is there.
 - A block write is atomic.  The eight sectors of a block are written one by one,
   but an entry lies within one sector, and blocks that change in more than one
   are not yet reachable.
 - Writes reach the disk in the order they are issued; `ata.c` sends no
   cache flush, so a drive that reorders its cache is outside the model.
 - ATA errors and an exhausted kernel heap are not modelled.
 - The branch of `tinyfs_add_dirent` for a directory without a block is
   unreachable (`DirsSound`) and left out.
 - Requests are those of a client that keeps to `RmdirAllowed` and
   `RenameAllowed`: it does not remove the current directory, does not remove or
   rename by `.` or `..`, and does not move a directory into another one.  The
   code checks none of this, and the invariants do not survive a client that
   does any of it.
 - The first image is the one of `mkfs.tinyfs` and `tinyfs-add`, cut down to the
   root with one file; `BigFile` gives the file a second block, which only
   `tinyfs-add` can make.

After a power failure that cuts a rename in two (`torn`) an inode has two
names, and the first delete frees what the other still names: no property
speaks of such a disk.

### Keyboard

`Press`, `Modifier`, `Release` and `PrefixE0` are the interrupt handler for one
scan code, in one step since it runs with interrupts disabled.  A handler that
buffers several characters stores as many as there is room for.  `keyboard_read`
is `Test`, `PollSerial`, `Hlt`, `GetChar`, `Advance`, with interrupts between
any two.  `Tick` switches between the shell and the idle task, both always
runnable; an interrupt ends a `hlt` of the running task.  `hlt` itself is
external and modelled by that.  Keys are those the decoder tells apart and a few
others.  What the scheduler does with the SIGINT that Ctrl-C posts is in `Tasks`.

### Tasks

State.  `state`, `pid`, `parent`, `waited`, `code` are the fields of `task_pool`,
`pend`, `handler`, `insig` those of signals; `cur` is `current_task`, `psw` and
`prsp` are `pending_switch` and `pending_rsp`.  A stack pointer is abstracted to
the frame it points at, and `at` is where the task really stands.  The ring of
`next` pointers is `0 .. ring - 1`, since tasks are linked in the order of their
slots; `half` is the moment between the two stores of fork that link a new one.

Steps.  An interrupt is `Tick` (or `Yield`, the software interrupt of waitpid and of
`task_block`), then `Deliver`, then `SwitchCheck`, and nothing else in between, as `isr.asm` and
`handle_interrupt` run with interrupts disabled.  The system calls of the main task
are `Enter`, `Block`, `Fork`, `Link`, `Exit`, `WaitPid`, `Reap`, `Kill`, `SigAction`,
`Leave`.  `Block` is `task_block` in a read of an empty or a write to a full pipe; what the
pipe holds is left to `Pipe`, and what wakes a sleeper there, `task_wakeup` at the other end
or `sys_kill`, needs a second task that makes system calls.  There is none, so a main task
that is BLOCKED stays so (`BlockedForEver`).  `cpu` tells what becomes of the machine: `gpf`, when it is to resume a
task at something that is not an interrupt frame; `wildframe`, when it resumes a
task at a frame that is not the one it stopped at; `wildring`, when Ctrl-C
follows the null link of a ring that is half linked.

What it shows.  The first switch to a child ends in a general protection fault, which is
the experience `ed.c:7` reports.  A signal that ends the task that the tick has just
chosen replaces the pending switch, and the stack pointer of the task that was
interrupted is lost; that is the only way to a wrong frame.  No handler is ever
entered: the shell is pid 0, which `signal_deliver` skips.

### Pipe

A task is anywhere in a call at any time (`pc`, and its locals `l`), and each step is
one access to what tasks share.  The kernel is compiled without optimisation, so
`count--`, `count += chunk` and the reference counts are a load and a later
store, and updates can be lost: `raced` remembers which kind was, `missed` that a
wakeup came between the test and the sleep, `leaked` the references that forks
took before they failed.  The properties say what holds apart from those three,
and so that these are the only ways in which a pipe goes wrong.  The contents of a
pipe are checked byte by byte against the order of writing (`garbled`).
`OnlyKillWakesAtEof` states what the code does, and no reader would want: the last
close of a write end wakes nobody who reads, and the reader finds the end of the file
only if `sys_kill` wakes it (`Kill`; the rest of a signal is in `Tasks`).

### KernelHeap

`memory_alloc` and `heap_merge` walk along `next`, one step per round of the loop, over
arrays of headers indexed by address.  Nothing in the specification makes the
blocks tile the heap or the links end: both are shown.  `hdr` is a history
variable, the places where headers were written and not merged away.

### AddressSpace

All user memory is in one 2 MB entry that maps it one to one until the first exec; the
module has a page of every kind that the code tells apart (file, bss, stack,
demand-paged region, heap), the page tables of all tasks, the TLB of the
processor, the allocator (which only counts up: `bump`) and its reference counts.
`img` is a history variable: what each task wrote or was started with.
`Write` is a store of a program through the TLB or the page table, `KernelWrite`
one of a system call, which no write protection stops, as CR0.WP is never set.
`Fault` is `page_fault_handler`; where it can do nothing, the machine halts or
faults for ever.  `Exec` and `ExecBad` are the loader up to its return, `Fork` is
`paging_cow_clone_user`, `Sbrk` the system call.  Nothing is ever given back:
`paging_destroy` frees no page.

A fork is not private in this code: what a system call stores for one task, what a
task writes through a translation that the clone left valid (`memory.c:473`, no
`invlpg`), and what is written to the stack page, which all page tables share and no
reference count knows, reach the other task.  The variable `bypass` records the first two;
the third is left out by the property, which speaks of the pages of the allocator only
(`phys \in Frames`).  `PrivateUnlessBypassed` says that there is no fourth.

### Ed

A line is a block from malloc, and of its text only the length matters (0 is the
empty line).  The commands are actions; an insertion is a state of its own in
which lines are typed until the dot.  Files are sequences of texts, and
`save_file` and `load_file` cut them as their buffers do: the first keeps whole lines
below 4096 characters, the second reads 4094.  malloc may fail at any call, since what it has
left depends on the sizes asked for, which the model does not keep (`Blocks` is a bound); a write
may fail and take the old file with it (`WriteFails`).  The history variable
`excuse` records why an unmodified text may not be what the file holds, which ed does
not notice: `cut`, the text did not fit the buffer; `nomem`, malloc or `MAX_LINES`
stopped a load, or malloc failed in an insertion after the last line was pushed out;
`diskfull`.  What a pattern matches is reduced to
lengths of texts.

### LineEditor

A step is a key; Enter includes the command and the next prompt.  The screen is that of
`vga.c`, with wrapping, scrolling and clearing.  A command prints one of `Outputs`, text with
or without a newline at its end (cat shows 255 characters of a file, whatever they end with),
or clears the screen; the prompt follows where that ends, and `pcol` is its `prompt_col`.
Output that moves the cursor back (a carriage return, a backspace) is left out.  A tab that
lists names prints the prompt at column 0 but keeps `prompt_col`: `moved` records that the two
differ, and that the screen then shows the line beside the cursor.  `left` records an arrow
key to a shorter line, `overrun` a line that has left its row since the screen was cleared.
A name is a sequence of a few characters, none of them a space, since completion is about
their common beginnings.  Directories in the word to complete, the limit of 32 matches and
the cut of the listing at 400 bytes are left out.  The history starts from any of the files
in `Saved`.  The shell never writes that file.

### ShellEnv

The table, the file, and a restart at any time.  `Save` may fail or be cut off by a power
failure, which the shell does not notice.  A name has a length (`KeyLen`), a value is its
length; `Stored` and `Cut` are what strncpy leaves of a longer one.  The buffer of
`env_save` has room for two characters less than a full table of the longest entries
(`Room`: 32 entries of up to 128 characters, 4094 of room), so only such a table loses its
last entry; `Kept` is what a new shell then finds.  A name that export cuts is one value,
`CutKey`, whatever was typed.

## What the runs check

| run | instance | distinct states | time |
|---|---|---|---|
| `fs_crash` | 3 inodes, 4 blocks, 4 slots, 2 names, 2 contents, 1 power failure | 785,930 | 2 min |
| `fs_full` | 4 inodes, 6 blocks, 3 slots, files of 2 blocks | 172,312 | 20 s |
| `kbd` | ring of 3, 6 keys, shift and control, a serial byte | 297,664 | 2 min |
| `tasks` | 3 slots, 2 signals, a handler | 591,280 | 1 min |
| `pipe` | ring of 2, a reader and a writer, 3 bytes, 1 fork that fails | 2,738,955 | 2 min |
| `heap` | 22 units, a header of 3, requests of 0, 1 and 5 | 270,740 | 20 s |
| `space` | 2 tasks, 7 pages | 473,074 | 30 s |
| `ed` | up to 3 lines, 3 blocks, a buffer of 7 | 1,729,386 | 3 min |
| `line` | lines of 3, screen of 6 by 2, a history of 2, 1 new command | 128,418 | 1 min |
| `env` | 3 entries, names of 0 and 1 characters and longer ones that are cut, values of 0 to 2 and one that is cut | 2,833 | 1 s |

 - `fs_crash`: at every step, and after a power failure anywhere, no entry leads to
   something free (`LinksSound`) or doubly used (`SingleLink`, `NoSharedBlocks`);
   directories are intact (`DirsSound`) and, for clients that keep to `RmdirAllowed` and
   `RenameAllowed`, their names one tree without duplicates (`NamesFormTree`); no step takes the last name of something by
   accident (`NothingLost`) or changes a file that the call is not about
   (`FilesUntouched`).  Without a power failure nothing leaks (`NoLeak`), and a
   write or copy that succeeds leaves the first block of its data, while a write that
   fails leaves an empty file or none (`WriteOutcome`).
 - `fs_full`: a mkdir, rmdir, create, delete or rename that fails, for want of an inode, a
   block or a slot, gives back what it took (`FailureIsClean`); with one entry per directory, mkdir and rename
   also fail at their last step.
 - `kbd`: the driver implements `KeyQueue` (`IsQueue`); what the escape decoder holds
   back reappears in order as far as there is room, and keystrokes are lost in two places
   only, an Esc in the middle of a sequence and what a Ctrl-C interrupts
   (`KeystrokesAccounted`); a reader
   that waits beside a character returns (`ReadReturns`).
 - `tasks`: one task runs (`TasksInv`), it goes on where it stopped
   (`ContinuesWhereStopped`), the child of a fork never does (`ChildNeverRuns`), no
   handler is entered (`NoHandlerRuns`), an exit status is collected once
   (`StatusOnce`), a main task that blocks on a pipe never runs again
   (`BlockedForEver`), and one that is READY does (`MainRunsAgain`).
 - `pipe`: the ring stays in its bounds (`RingInv`), bytes arrive in order unless an
   update of the count was lost (`InOrder`), a task sleeps beside work only after
   a missed wakeup (`SleepsOnlyIfMissed`), reference counts equal the descriptors
   and what failed forks left (`RefsExact`), and a reader asleep on a pipe whose last
   write end is closed is woken by a signal alone (`OnlyKillWakesAtEof`).
 - `heap`: `Tiling`, `GivenSound`, `NoFreePair`, `Returns`.
 - `space`: a shared page is read-only for all who share it and its count covers
   them (`SharingInv`), `PrivateUnlessBypassed`, and a page fault stops the machine only
   when no page is left or the task's regions were lost, to an exec that ran out of
   pages or a full table of regions (`FaultsResolved`).
 - `ed`: no line is shared or freed twice, also when malloc fails (`LinesInv`), lines
   keep their order (`OrderKept`), an unmodified text can be read back
   (`NothingToLose`).
 - `line`: the line stays in its buffer and the screen shows it (`LineInv`), wherever its
   prompt begins; the arrow keys follow the history (`HistoryInOrder`), a tab keeps what was
   typed and every match (`TabKeepsMatches`).
 - `env`: no variable has two entries (`EnvInv`); after a save that worked the next
   shell finds the same ones (`RestartKeeps`).

Two runs show a disagreement between the code and what the repository says of
it; TLC finds the property violated:

| run | property | what TLC shows |
|---|---|---|
| `space_bss` | `BssStartsZero` | a page of bss is mapped one to one already, is never faulted in and so never cleared |
| `ed_help` | `HelpIsRight` | `s/pat/r/`, as the help of ed writes it, has an empty pattern and does nothing |

Bounds.  Three inodes leave two for the calls beside the root, so that one call can
meet what another made, run out of inodes, and reuse one; four blocks run out
as well.  Four slots are `.`, `..` and two entries, so a rename can succeed and a
directory in the root can hold a file; with three slots one entry fills a directory
while inodes and blocks are left.  One power failure is enough for one cut-off call
followed by any number of complete ones, and the proofs cover any number.
Names that are stored cut off are left to the proofs, which hold for every
`Clip`.  A ring of three holds two characters, and a flush of an escape sequence
is cut in the middle; the view leaves out what the empty slots still hold and
where the others begin.  Three slots are the shell, the idle task and one child, so
a fork succeeds, a second fails, and Ctrl-C finds a child in every state.  In
`Pipe`, reader and writer differ in what else they may call (`Dups`, `Exits`, `DupTo`),
which keeps the run small; both pipe, fork and close.  What follows a lost update of a
reference count is not explored (`NoRefLost`): a pipe in use may then be freed, and
nothing holds of it.  The heap is large enough for two blocks with a split between
them, and the block of the smallest request is left over without room for a header.
Seven pages allow an exec, a fork, both faults of a shared page and a page of sbrk;
an exec after a fork then runs out of pages and fails, and bss is only in
`space_bss`.  The view `UntilBypassed` forgets what pages hold once `bypass` is set:
no step reads it, and no property does any more.  The buffer of ed holds three of the shorter lines and is exceeded by
three of the longer ones.  The history file of
`line` has gone round the ring already, and one more command is added, any number of times
in a row; a shell without a history is left to the proofs.  A prompt begins at column 0 or
behind a character, where the longest line no longer fits its row, so a later prompt meets
what such a line left; the view `Visible` forgets the rows above the cursor, which nothing
reads again.  For a line that has left its row `redraw_line` loses the row, and `LineInv`
does not speak of it.

CHECK_DEADLOCK is off where the system may stop: the machine halts or faults
(`Tasks`, `AddressSpace`), all tasks sleep or have exited (`Pipe`), ed has ended (`Ed`).

Fairness.
 - `kbd`: the timer ticks for ever (weak fairness of `Tick`; the PIT is set up
   periodic and the handler never masks it), and the shell, which is the running
   task in every second time slice, executes an instruction in one of them again
   and again (strong fairness of `Read`; a slice is 10 ms long).  No key has to be
   pressed and no byte has to arrive.
 - `tasks`: weak fairness of the timer interrupt, `Tick \/ Deliver \/ SwitchCheck`,
   for the same reason; the system calls may stop anywhere.
 - `heap`: weak fairness of `Walk`, a round of a loop: the processor goes on.

## What is proved

`TinyFSProofs` proves, for every number of inodes, blocks, slots, names and power
failures, and however names are cut:

 - `TypeCorrect`: `Spec => []TypeOK`
 - `Inductive`: `Spec => []IndInv`
 - `LinksStaySound`, `LinksStaySingle`, `BlocksStayDisjoint`,
   `DirectoriesStaySound`: the first four invariants of `fs_crash`
 - `NothingIsLost`: the action property `NothingLost`

The assumptions are those of `TinyFS`: inodes, blocks and slots for the
initial image, names different from `.`, `..` and the empty name, and
`NoChunk` not a content.

The argument.  The safety invariants are not inductive.  That `AddDirent` keeps
`LinksSound` needs that the inode it links is marked, written and has no other
name; that `FreeBlock` keeps `NoSharedBlocks` needs that no live inode owns the
block it frees; that `RemoveDirent` keeps entries in live directories needs that a
directory found empty at the start of rmdir still is.  `IndInv` therefore adds
to the state of the disk (`DiskInv`) what the running call knows at each of its
steps (`CallInv`): `MakeInv` and `BlockInv` for the inode and the block being
made, `FillInv` for the file being filled, `RemoveInv` for the one being
removed, `RenameInv` for the two names of a rename.  The proof has one lemma per
action; a power failure keeps `DiskInv`, and makes `CallInv` hold vacuously.

The second part of `TinyFSProofs` proves, from `IndInv` and for the same constants, what the
calls promise:

 - `ContentsUntouched`: the action property `FilesUntouched`
 - `FailuresAreClean`: `FailureIsClean`, of all calls but write_file and copy
 - `NothingLeaks`: `NoLeak`
 - `WritesAsAsked`: `WriteOutcome`, of the first block of the data, under `NamesFit`

The argument.  `CleanInv` says, at each point from which a call can still fail, what it
has taken since it began: nothing, or the inode of `Making` and perhaps its block, and
the names are those of the beginning (`SameNames`).  `LeakInv`, as long as the power has
not failed, names an owner for everything marked used: a name, the running call
(`HeldInode`, `HeldBlock`), or the list of the image's big file (`Listed`).
`OutcomeInv` says that no directory holds a name twice, that the name being written is
absent until it is added (`AbsentInv`) and then leads to the inode being filled
(`TargetInv`), and that the block a copy reads is not handed out (`SourceInv`,
`DataInv`).  `WritesAsAsked` has the hypothesis that names fit their entries: a name that
is cut can equal one that is already there, and a lookup then finds the other file.  The
other theorems do without it.

The third part proves that the names form a tree:

 - `NothingCutOff`: what has a name is reached from the root
 - `TreeStays`: `NamesFormTree`, under `NamesFit` since it also says that no directory holds
   a name twice

The argument.  That everything named can be reached is not inductive as it stands, and no
bounded number of steps shows it.  `TreeInv` says that the nodes can be ranked, no two
alike, so that a directory comes before all that is in it.  An entry that is removed
leaves the ranking as it is; a new entry names a file, a directory that was above nothing
yet, or (rename within its directory) what was below that directory already, and a node
with nothing below it can be moved behind all the others (`MovedLast`).  A node with a name
has a directory of lower rank, so by induction over the rank a path of that many components
leads to it (`AllReachable`).  The clients are those that keep to `RmdirAllowed` and
`RenameAllowed`, and no rename was cut in two.

`KernelHeapProofs` proves, for every size of the heap, of a header and of the slack, and
for every set of requests:

 - `HeapInvariant`: `Spec => []HeapInv`
 - `HeapTiled`, `HandsOutDisjoint`, `MergeIsComplete`, `NullOnlyWhenFull`: the
   invariants of the run `heap`
 - `NotHandedOutTwice`: no step hands out a block that a caller still holds

The argument.  `Tiling` says of every header that its block ends where the next one
starts, or at the end of the heap, and is kept by a split and by a join.  It does not
say what a running walk has left behind it, which the results of the walks are about:
`HeapInv` adds that a merge has left no pair of free blocks behind `curr` and a search
no block that fits (`BehindSound`), and that what is handed out is used and large
enough (`UsedEnough`).

`TasksProofs` proves, for every size of the task pool, number of forks, set of signals and
of handlers:

 - `TasksInvariant`: `Spec => []TasksInv`
 - `ResumesWhereStopped`, `NoChildRuns`, `HandlersNeverRun`: `ContinuesWhereStopped`,
   `ChildNeverRuns`, `NoHandlerRuns`
 - `StatusHandedOutOnce`, `BlockedStaysBlocked`: the action properties `StatusOnce`,
   `BlockedForEver`

The argument.  The properties speak of the moments between interrupts; what makes them
hold is what each stage of an interrupt leaves to the next.  `RunSound` says where
`current_task` and a pending switch stand in each stage, `FrameSound` what the saved stack
pointers point at (the child's always at something that is no interrupt frame, the main
task's at a stale one only until `switch_check` has saved it or after a replaced
switch), `HandlerSound` who can have a handler, `StatusSound` that a pid names one
slot and a zombie keeps its status.  That the round of `scheduler_next` ends at the
nearest task that is ready is the lemma about its least distance.

`KeyboardProofs` proves, for every `BUF_SIZE`, keyboard and serial input:

 - `RingIsQueue`: the refinement `IsQueue` of `KeyQueue`
 - `KeystrokesTraced`: the action property `KeystrokesAccounted`

The argument.  `KeyInv` says that a reader that has seen `head # tail` can rely on it in its
later steps, since the handler never fills the ring up, and that the character it has
fetched is still the one at `tail`.  The lemmas compute the contents of the ring without the
modulus, and show that a string buffered is appended as far as there is room and that
advancing `tail` removes the head; each step then is a step of the queue or leaves it alone.

`AddressSpaceProofs` proves, for every number of pages, tasks and regions and every layout of
a program:

 - `SharingSound`: `Spec => []SharingInv`
 - `MemoryIsPrivate`: `PrivateUnlessBypassed`
 - `FaultsAreResolved`: `FaultsResolved`

The argument.  The three are inductive together.  A fault that keeps the page may do so since
the references cover the entries that share it (`RefsCover`): with at most one, no other
entry maps the page, and `SharedIsReadOnly` holds after it.  Fork gives a page as many
references as there are entries after it, by a count of the entries of parent and child.
That a writable page is the task's own needs `EntriesSound` (an entry is writable or
copy-on-write, and maps a page given out) and `TlbSound` (the processor's translation is of
the page in the table); that a fault is resolved needs that an absent page is one of a
region (`RegionsKept`).

`PipeProofs` proves, for every number of tasks, pipes and descriptors and every size of the
buffer:

 - `PipeInvariant`: `Spec => []PipeInv`
 - `ReferencesExact`: `RefsExact`
 - `EndOfFileOnlyByKill`: the action property `OnlyKillWakesAtEof`

and, with one task that reads and one that writes (`OneEach`), whatever the other calls do:

 - `RingStaysBounded`: `RingInv`
 - `BytesReadInOrder`: `InOrder`
 - `OnlyMissedWakeupsSleep`: `SleepsOnlyIfMissed`

The argument.  `RefsExact` speaks of the moments between calls.  In a call a descriptor
and its reference do not change together, so `PipeInv` gives each end the set of the
descriptors that are counted at that moment (`Refs`): a descriptor being closed leaves it
at the store of the reference, the copy of dup2 enters it late, and the slot that a fork
fills is counted one descriptor at a time before its task exists (`Filled`).  Each store
of a reference adds or removes one element of that set, as long as no two updates have met.
A task that reads or writes holds a counted descriptor (`HoldsEnd`), so its end stays
open and its pipe is not created anew.
`CountsInv` adds what the two sides know between their accesses to the count: a write that
a read has overtaken has seen a count that is too high, a read overtaken by a write one
that is too low, and a store from either stays within the bounds.  `BytesOk` says that
while no update is lost the bytes from `tail` on are the ones sent and not yet read, their
number being the count, what a write has put and not counted (`Ahead`) and less what a
read has taken and not discounted (`Behind`).  `SleepOk` says that a task on its way to
sleep has left its name and finds nothing to do, or the other side is before its wakeup.
The hypothesis is needed: with two readers TLC finds a state that violates each of the three,
since both may pass the test of the count for the same byte.

`EdProofs` proves, for every size of the table and of the buffers, every heap, every file on
the disk and every list of substitutions:

 - `EdInvariant`: `Spec => []EdInd`
 - `LinesSound`: `LinesInv`
 - `QuitLosesNothing`: `NothingToLose`
 - `LinesStayInOrder`: the action property `OrderKept`

The argument.  `NothingToLose` compares the table with what `load_file` would make of the file:
that is a statement about every text and both buffers.  `Ends` gives the place where each line
of a file ends, and grows with the lines; so what `save_file` writes is the longest beginning
that fits, and what `load_file` reads of it is all of it, or all but an empty last line, since
its buffer is one character shorter and a newline is the last thing a file holds.  `EdInd`
adds that the disk holds texts (`DiskOK`), that the place an insertion goes on at lies in the
table (`AfterOK`), and that `NothingToLose` holds while lines are typed (`Saved`).  An insertion
shifts and a deletion closes the table, which keeps the order of all other blocks; a substitution
replaces a block in its place by one that was free.

`ShellProofs` proves, for every length of the line, size of the history, of the screen and of the
prompt, every output, set of commands and file names and history file:

 - `LineInvariant`: `Spec => []LineInd`
 - `LineShown`: `LineInv`
 - `ArrowsInOrder`: `HistoryInOrder`
 - `TabSafe`: the action property `TabKeepsMatches`

The argument.  `Put` writes characters one after the other, with wrapping and scrolling.  The lemmas
say what it leaves of a string that fits in its row (the characters at their places, the cursor
behind them, all else as it was) and, of any string, that the cursor stays on the screen.
`LineInd` says that the row of the cursor holds the line from `pcol` on with blanks behind it, as
long as the line was not too long for its row and with the exceptions that `moved`, `left` and
`overrun` record, and that the rows below are blank, which a listing needs and the next prompt:
from a cursor with nothing behind or below it, text leaves nothing behind or below (`PutOpen`).
It also says that slot `n % HistSize` of the ring
holds the command number `n`, for the last `HistSize` commands.  A tab completes to what all matches
have in common: `Begun` keeps exactly the names that begin with the word, and each still does.

and, for every size of the table, of names and of values:

 - `EnvInvariant`: `EnvSpec => []EnvInd`
 - `VariablesUnique`: `EnvInv`
 - `VariablesSurvive`: `RestartKeeps`

The argument.  What a new shell finds is `Parsed` of `Written`.  A table takes at most
`Len * (KeyMax + ValMax)` characters, so one that is not full fits, and of a full one all but the
last entry does; `Named` of a beginning is a beginning of `Named`, and drops only the empty name.
`EnvInd` adds that the file holds no name twice and fits the table, so that reading it back keeps
`EnvInv`.

Induction over data.  The library's induction theorems have an operator as a parameter and cannot be
cited.  `TinyFSProofs`, `EdProofs` and `ShellProofs` use the theorem about minimal elements of a
well-founded relation, which has none: `MinExists` gives every nonempty set of naturals a least
element, `Induction` follows from it with a set in the place of the predicate, and `Recursion` that a
function defined from its value at the argument before exists.  For this, what these modules
compute along a sequence is written as a recursive function of the position.

Only model-checked:

 - `ReadReturns`, `MainRunsAgain` and `Returns`: liveness under fairness is out of the reach of
   the proof system.
 - The two violations, which are counterexamples.

## Not modelled

 - `ata.c`: programmed I/O on device registers.  A block write is one step.
 - Boot, `gdt.c`, the tables of `idt.c`, the clock: straight-line code that runs once, or
   output only.
 - `kernel/shell.c`, the fallback when no shell is on the disk, and `cat` and `grep`: they
   only call what is modelled.
 - `some-libc`: strings, formatting and system call stubs.  Its `malloc` is a first fit without
   merging; `Ed` has what it and `free` return, not their list.  `fopen` always returns NULL.
 - What no running code calls: `keyboard_inject`, `paging_clone_user`, the 2 MB mappings,
   `elf_load`, the spinlock, and `timer_sleep`, which only delays.
 - The page that `signal_deliver` maps for a handler's return code: no handler runs.
 - The shell's parsing of commands and redirections, the limit of 32 completions, and
   directories in the word to complete.
 - The image tools as programs: their result is the initial state of `TinyFS`.

## Observations on the code

Met while modelling, beside the two findings; the repository says little about what its
code should do.

 - A component of 28 characters is stored as 27 and never found again
   (`tinyfs.c:216`).
 - `fs_delete` does not free indirect blocks (`vfs.c:391`).
 - `fs_copy` of a file of more than one block copies the first and records the
   size of the source (`vfs.c:486`).
 - After ESC the key `[` starts a sequence even with shift down
   (`keyboard.c:119`), and `ESC [ C` is the left arrow, `ESC [ D` the right one
   (`keyboard.c:129`).
 - An Esc pressed in the middle of an escape sequence is dropped, since the maps have no
   character for it (`keyboard.c:118`), and Ctrl-C drops what is held back
   (`keyboard.c:105`).
 - Ctrl-C walks the ring of tasks without a test for NULL (`keyboard.c:102`), and fork links a
   task with two stores.
 - The software interrupt of a yield counts as a tick.
 - The last close of a write end wakes a blocked writer, not the blocked reader
   (`pipe.c:106`); a fork that fails keeps the references it has taken
   (`scheduler.c:176`).
 - The heap break is one variable for all programs and survives exec (`syscall.c:196`); an
   exec that runs out of pages has already forgotten the caller's regions (`elf.c:32`).
 - ed writes no more than its buffer holds and says nothing (`ed.c:74`), and asks for 4095
   characters of a file but gets 4094 (`ed.c:48`).
 - Further back than the ring holds, the up arrow shows newer commands (`shell.c:410`).  The
   history is never saved.
 - `unset` never finds a name that export has cut, and `env_save` does not look at the
   result of its write.

## Plan

 1. TinyFS without `RmdirAllowed` and `RenameAllowed`: which invariants survive.
 2. ATA errors in TinyFS; `malloc` of some-libc beside `KernelHeap`.
