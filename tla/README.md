# A model of the kernel in TLA+

The repository is a small 64-bit operating system for one CPU: a boot loader, a
kernel with processes, virtual memory, a FAT16 root directory, a keyboard and a
text screen, and a few user programs with a shell as the first of them. This
directory holds TLA+ modules translated from its sources, TLC configurations
that check them on small instances, and TLAPS proofs of their
safety properties for instances of every size.

Run the checks with `tlc -config X.cfg M.tla` and `tlapm XProofs.tla`.
`PROJECT.json` lists, for every definition, the lines of code it stands for.

## 1. The system

Everything below runs with interrupts off while it is in the kernel (all gates
of `init_idt`, `trap.c`, are interrupt gates). A handler is therefore atomic up
to the point where it calls `schedule()`; there `swap()` parks it on its own
kernel stack and goes on where the next process had been parked. The hard
behaviour of this kernel is not data races. It is what happens at these
switching points, in long sequences of legal calls, when a table or the
memory is used up, and between the devices, which run on while the kernel does
not listen, and the handlers.

| Component | State | Operations | What makes it correct |
| --- | --- | --- | --- |
| Process core: `process.c`, `trap.c`, `trap.asm`, `syscall.c` | `process_table`, `ready_list`, `wait_list`, `kill_list`, `current_process`, `pid_num`, `ticks`; per process a kernel stack on which it may be parked inside a call | timer interrupt, `sleep`, `wake_up`, `yield`, `fork`, `exit`, `wait`, `sys_sleep` | lists agree with the states; no ASSERT on the way fails but that of `fork`; no wakeup is lost; nobody starves; each corpse is collected once |
| Lists: `lib.c` | `next` pointers, head and tail of three lists | append, remove the head, remove by `wait` field | chains end, tails are the last nodes, lists behave as queues |
| Keyboard: `keyboard.c` | ring of 500 characters, flags for shift, caps lock, prefix | interrupt with a scan code, blocking read | keys arrive once, in order, as meant; a blocked reader is woken |
| Memory: `memory.c` | free list, page tables of every process | `init_memory`, `kalloc`, `kfree`, `map_pages`, `setup_kvm`, `setup_uvm`, `copy_uvm`, `free_vm` | each page is in one place; failure gives back what was taken |
| Files: `file.c` | per process 100 descriptors, one table of open files with positions and counts, one FCB per directory entry with a count | `open_file`, `read_file`, `close_file`, `get_file_size`, and `fork`, `exec`, `wait` | counts are the numbers of holders; a path finds its file; a read returns the right bytes |
| Entry: `trap.asm`, `kernel.asm`, `trap.c` | kernel stacks, trap frames, saved contexts, TSS, CR3; the interrupt controller | trap, `TrapReturn`, `swap`, `set_tss`, `system_call`, the copy of a frame in `fork` and its reset in `exec`; `InitPIC`, `eoi`, `read_isr` | every process goes on with its own registers in its own address space; every interrupt that is owed arrives, once |
| Screen: `print.c` | video memory, cursor | `write_screen`, `clear_screen` | the echo shows what the line editor has stored; no old text ahead of the cursor |
| Shell: `user1/main.c` | line, child | read a line, look it up, fork, exec, wait | one process reads the keyboard; every corpse has a collector; a prompt comes back |
| Boot loader | none of its own | reads two files, asks the BIOS for the memory map, switches modes | the files are loaded whole |
| User library, test programs | none | argument passing, formatting | |

They interact by calls and by shared state only. The keyboard handler and the
timer handler call `wake_up`; the blocking system calls call `sleep`; `fork`
takes memory and shares open files; `wait` gives both back for the process it
collects; `exec` opens, reads and closes a file. `config/bochs` is the emulator
the system is run on, third-party code and not part of it; its keyboard, PIT and
PIC are the devices the kernel is driven by, and only their side of the interrupts is modelled.

## 2. The modules

| Module | Models | Uses |
| --- | --- | --- |
| `Process` | the process core | |
| `Lifecycle` | abstract: what fork, exit and wait promise | refined by `Process` |
| `Lists`, `Queues` | the linked lists; abstract: the queues they implement | |
| `Keyboard`, `KeyFifo` | ring and blocking read; abstract: a bounded FIFO | `Process` |
| `Shell` | the shell as the workload of the kernel | `Keyboard` |
| `Scancodes` | scan codes to characters | |
| `PageTables`, `BootMemory` | page allocator and address spaces; the free list at boot | |
| `Memory` | the process core with the memory it owns | `Process`, `PageTables`, `BootMemory` |
| `Context` | entry, switch and return, word by word on the kernel stacks | `Memory` |
| `Interrupts` | from the PIT and the keyboard through the PIC to the handlers | |
| `Files` | the process core with its open files | `Process` |
| `Directory`, `FatRead` | finding a file; reading it, by the kernel and by the loader | |
| `Screen` | the screen under the line editor of the shell | |
| `MCMemory`, `MCFiles`, `MCFatRead` | instances for TLC | |
| `ProcessProofs` | proofs about `Process`, with lemmas about sequences as queues | |
| `ShellProofs` | proofs about `Shell` and the ring under it | `ProcessProofs` |
| `FilesProofs` | proofs about `Files` | `ProcessProofs` |
| `MemoryProofs` | proofs about `Memory`, and about the address spaces of `Context` | `ProcessProofs` |
| `ContextProofs` | proofs about the words on the stacks of `Context` | `MemoryProofs` |
| `FatProofs` | proofs about `FatRead` and `Directory` | |
| `DeviceProofs` | proofs about `Interrupts`, `Scancodes` and `Screen` | |
| `ListProofs` | proofs about `Lists` | |

### How state and actions correspond to the code

**Process.** A slot of `process_table` is a number; the idle process is slot 0,
as in the code. `state`, `pid`, `ready_list`, `kill_list` are the fields and lists of the
same names. `wait_list` is split by event: `remove_list(list, w)` takes the first
element whose `wait` field is `w`, so the order of elements with different fields
is never seen (`Lists` checks that). `kstack[p]` says where a process is parked:
in user mode, or inside one of the three blocking calls with the locals it will
use when it goes on: the tick at which `sys_sleep` began, the `front` that
`read_key_buffer` has read, the pid that `wait` looks for. Each system call is one action
up to its first switch (`SysSleep`, `SysWait`, `SysKeyboardRead`, `SysFork`,
`Exit`); what it does after `sleep()` has returned is another (`ResumeSleep`,
`ResumeKey`, `ResumeWait`); between the two anything may happen that can happen to the
others. `Schedule`, `Yield`, `Sleep` and the `Woken...` operators are the functions of
`process.c`; they take the state their caller has built, because a
handler may call several (the timer wakes the sleepers and then yields, `exit`
wakes the waiters and then schedules). A failed ASSERT sets `panic` and the machine stops.

**Keyboard, Shell, Memory, Files** extend `Process` and conjoin their own part
to its actions, so each of them is the whole kernel seen from one side.
`Keyboard` adds `key_buffer`; `Shell` adds a program counter to every process and replaces the free
choice of system calls by what the shell and its children do; `Memory` adds the
free list, stacks and page maps, and a fork that may run out of pages at any of its
allocations; `Files` adds the descriptor tables and both levels of counts.

**Context** extends `Memory` and replaces the abbreviation `kstack[p]` by the
stack itself. `cpu` holds the registers that matter: `rip` (which stands for the
user's stack pointer too), a result register, one that calls preserve, and the
frame pointer. A trap from ring 3 starts on the stack the TSS names and pushes a
trap frame; a C function pushes a frame; `swap()` pushes and pops what is in
`trap.asm`, in that order; a switch goes on wherever the words on the other
stack say. `mine` is a history variable: the registers each process must find
when it is back in user mode. It includes `exec`, which resets the
frame, and the failing system call number.

**Interrupts** does not extend `Process`: it shows what `Process` assumes of
its two interrupt actions. The devices and the CPU step in any order. The PIC keeps lines,
requests and services apart, as the emulator does (`pic.cc`), because every hazard here is
an edge: a request that is taken back by a falling line, a line that is high already.
The CPU is in user mode, in the kernel, or in one of the handlers up to its `eoi`.

**PageTables** is written as operators on a heap, because the functions of
`memory.c` are called in sequence inside one atomic action. A page table has
one entry for each region it can map, the kernel's and the user's. A page
keeps what it held when it is freed, until somebody clears it.

**Scancodes, FatRead, Directory, BootMemory, Screen** are algorithms; the first,
second and last are small state machines whose environment chooses keys, reads and writers.
The keyboard of `Scancodes` has one shift key and no auto-repeat: `keyboard.c:77`
keeps one flag for two keys and toggles on every repeat of Caps Lock, and
nothing says what should happen then. Its bytes go through `kbd_enQ` of the emulator, which
drops a byte when its 16 places are full; a key of the model moves only when
its bytes fit (`WIRE`), so nobody types faster than the driver reads for that long.

`Screen.old` is a history variable: the screen as the last `clear_screen()` left it, empty
again when it scrolls. `CleanAhead` needs it to tell what that call leaves in the last line
from text that should not be there.

### Slips

Beside many definitions there is a second form marked "Slip": a plausible
mistake in the code it models, such as a dropped test, a swapped order or a missing
reset. No specification uses them. Putting a slip in the place of the
definition must make TLC find the property that is meant to notice it
(`PROJECT.json`, "mutants"); a property that notices no slip says nothing.

## 3. What the runs show

| Run | Instance | Question |
| --- | --- | --- |
| `process` | 4 slots, 4 pids, ticks modulo 6, sleeps of 1 and 2 ticks | Do the lists, the states and the parked calls agree in every order of calls and interrupts (`ListsMatchStates`)? Does no ASSERT fail but the one in `fork` (`OnlyForkAsserts`)? Does nobody sleep beside the corpse he waits for (`NoLostWakeup`)? How late can `sys_sleep` return (`SleepOverrun`)? Does every ready process run, does `sys_sleep` return, and do fork, exit and wait implement `Lifecycle`, its liveness included? |
| `lists` | 3 nodes, 2 events | Is the pointer code well-formed, and does it implement `Queues`? |
| `shell` | shells three deep, lines of up to two keys, ring of 3 cells | Do the programs keep the rule that reads do not overlap (`OneForeground`)? Is the ring then a FIFO (`ImplementsFifo`), does a sleeper never miss a key (`SleeperSeesEmpty`), is every key delivered (`KeyDelivered`)? Has every corpse its collector (`EveryWaitHasItsChild`)? Does a prompt come back (`PromptReturns`)? |
| `memory` | every machine from 12 to 26 pages, 4 slots | Is every usable page in exactly one place, through every failure? Does memory stop a fork only when it is used up, and where are the pages then (`FailedForkLosesNothing`)? Through every trap, fork, exec and switch: does a process return with its own registers (`ReturnsToOwnRegisters`), do the stacks say what `Process` says they do (`StacksTellFrames`), and are TSS and CR3 those of the process that runs, and not freed (`RunsInOwnSpace`)? |
| `fat_read` | all files on 3 clusters of 3 bytes, all paths of up to 5 characters | Does a path find its file and no other; are the bytes right; which reads fail the ASSERT of the seek? |
| `files` | 3 slots, 2 files, 2 descriptors each, 3 open files | Do both counts match the holders through fork, exec, exit and wait; does an open file stay with its holders? |
| `screen` | 4 lines of 2 columns, lines of up to 4 keys | Do the cells behind the prompt hold what `read_cmd` has stored; is there old text ahead of the cursor? |
| `scancodes` | 2 characters, up to 4 bytes unread | Are the characters those that were meant; does no flag get stuck? |
| `interrupts` | a keyboard buffer of 2 bytes, 5 bytes typed | Is every byte read once, in order and in the end; is nothing in service when a program runs; do ticks keep coming, also when long calls lose some of them and others turn into the spurious interrupt? |
| `fat_seek`, `files_fault`, `interrupts_boot` | as `fat_read`, `files`; a key that moves during boot | the three findings below |

The largest are `scancodes` (1.4 million states), `screen` (1 million), `process` and `memory` (218 thousand each).

### Bounds, and why they are enough

* `NUM_PROC` 3 or 4 for 20. One slot is the idle process; with three others there
  are a running, a ready and a sleeping process at once, two sleepers on one
  event, a parent that waits while its child and another run, and a full table.
  For every safety property the bound is lifted by proof (section 5).
* `MAX_PID` bounds `pid_num`; a fork beyond it is not taken. It leaves room for a
  pid that comes after a slot has been used twice.
* `TICK_MOD` is the range of the tick counter, 2^64 in the code. It is small on
  purpose: the counter wraps all the time, which it may, because
  `SleepOverrun` bounds the difference that `sys_sleep` computes. Where nothing
  sleeps on ticks it is 1.
* `E820Maps` (`MCMaps` of `MCMemory`): machines from 12 pages, what the boot
  takes, to 26, what four slots can use (3 + 2 + 3 * 7), so
  that a fork fails at each of its seven allocations on some machine.
* `MAX_BYTES`: five bytes fill the output buffer and the two places behind it
  and leave two that come when something has been read. Pins, requests and
  services have no bound.
* Clusters, columns, rows, ring and tables are as small as they can be with every
  boundary still crossed more than once: a read inside one cluster, over one
  boundary and over two; a line that wraps twice while the screen scrolls; a ring that fills and wraps.
* The assumptions on the constants say what the code takes for granted: 12 pages,
  at most 50 disjoint memory regions (the ASSERT of `memory.c:26`), consistent cluster chains, names in the directory that hold no dot
  and no slash, a screen that holds a line, finitely many processes at addresses of their own.

### Fairness

* `TimerInterrupt` is strongly fair: the PIT (`kernel.asm`) ticks for ever and the
  kernel always gets back to user mode or to the idle loop. It is not weakly
  fair, as a process in a blocking call disables it again and again. That the PIC
  lets enough ticks through is not assumed but checked: `TicksKeepComing` in `interrupts`.
* `Interrupts` assumes that the PIT, the keyboard's clock and the CPU go on, and two facts about
  times: the kernel does not return to programs in the one clock of 11931 in which the pin is low
  every time, and the timer's handler does not take a whole period every
  time.
* A process that has been resumed in the kernel is weakly fair: it runs
  on without waiting for anything, and only its own step can disable it.
* In `Shell` the next instruction of a user process is strongly fair: who gets the CPU
  again and again executes at some time, as a tick leaves time to run.
* Nothing is assumed of keys: nobody has to type. `KeyDelivered` starts from
  a key that is there, `PromptReturns` asks for a prompt, not for a line.

## 4. Findings

* **A read of nothing can stop the machine** (`fat_seek`). `read_raw_data` follows
  `position / cluster_size` links and asserts that it stays in the chain
  (`file.c:227`). At the end of a file that fills its last cluster
  this is one link too many, and a `read_file` of 0 bytes there, which the test
  in `file.c:265` accepts, fails the ASSERT. `SeekFailsOnlyAtEnd` in `fat_read` shows that
  no other read does.
* **A bad descriptor stops the machine** (`files_fault`). `help/Assertion.md` promises
  that an invalid request is answered with an error. `read_file`, `close_file` and
  `get_file_size` dereference `proc->file[fd]` unchecked: a descriptor that is not
  open is NULL, the fault is taken in ring 0, and `handler()` loops for ever.
* **A key that moves during boot disables the keyboard** (`interrupts_boot`). Between the loader's
  `cli` and `InitPIC` (`kernel.asm:134`) a byte may reach the output buffer and raise
  line 1. ICW1 forgets the request but not that the line is high, the PIC reacts
  to edges, and port 0x60 is read only by the handler of the interrupt that never comes.

Behaviour worth knowing that contradicts nothing the repository says: `wait()` of
a pid that is not there sleeps for ever; `fork()` on a full table fails an
ASSERT although a `return -1` stands behind it; two processes that read the keyboard at the same time
break the ring, and only the shell's habit of waiting prevents it; one flag
stands for two shift keys, and auto-repeat of Caps Lock toggles it;
the key that ends an over-long line (`main.c:12`) is echoed but not stored, so a Backspace
there takes a stored character off the screen only; `clear_screen()` leaves the 25th line as it
was, until it scrolls (`CleanAhead` says exactly that);
a fork that fails at the first `kalloc` of `copy_uvm` leaves the child's tables linked, and the machine stops;
a directory or a volume label can be opened like a file.

## 5. What is proved

All proofs are for every value of the constants that the named assumptions of
the modules allow, and from these alone.

**The process core** (`ProcessProofs`, from `ConstantsAssumption`).
`TypeCorrect`, `ListsCorrect`, `AssertsHold` and `WakeupNeverLost` state `TypeOK`,
`ListsMatchStates`, `OnlyForkAsserts` and `NoLostWakeup`. The inductive invariant is
`IInv == TypeOK /\ ListsMatchStates /\ OnlyForkAsserts /\ SlotsOK` (`Invariance`). The
first three are not inductive together: the code tells the idle process by its
pid 0 and takes any slot whose state is UNUSED. So `SlotsOK` adds that pid 0
belongs to the idle process and to unused slots only, that the idle process is
always ready or running and never inside a blocking call, and that a slot that
is dead or unused is not parked in one. Without the first, `Schedule` could not
be shown to keep the idle process off the ready list; without the last, a new
child could come to life inside the `wait` of the slot's former owner. The proof follows the code:
`ScheduleStep` says what `schedule()` does to a state that fits it, `WakeUp` and
`BlockStep` the same for `wake_up()` and for a call that parks and sleeps; there is one lemma for each
action on top of them. `NoLostWakeup` is carried along by `NextWakeup`, where the
only steps that matter are a `wait` that goes to sleep (it has just looked) and an `exit` (it empties the
list of waiters).

`ProcessIsLifecycle` is the safety half of the refinement,
`Spec => Life!Spec`. It needs that no two slots share a pid, that `pid_num` is above them all and that no
slot is left half made (`PidsOK`). Then `exit` removes exactly one live pid, a `wait` that returns takes exactly
the corpse with its pid, and a full table has as many pids as slots, so that `fork` fails only
when `Lifecycle` says it may. The fairness half is checked by the run.

**sys_sleep** (in `ProcessProofs`): `SleepsNotLonger` states `SleepOverrun`. The strengthening says where a
sleeper is: asleep and not yet due, or in the ready list no further from its head
than it has ticks left of the bound. A tick moves everybody in the ready list one
place ahead and costs one tick; whoever is woken comes behind at most `NUM_PROC - 2` others.

**The shells and the ring** (`ShellProofs`, with `KeyboardAssumption`).
`AtMostOneForeground`, `SleepersMissNothing`, `WaitsFindChildren`, `RingTypeCorrect` and `RingIsQueue` state
`OneForeground`, `SleeperSeesEmpty`, `EveryWaitHasItsChild`, `KTypeOK` and `ImplementsFifo`. The
argument is the chain of shells (`Family`): every process but one waits for a child of
its own, so one process at most reads, so the index a blocked reader holds is still `front` when it
goes on (`Readers`), so the ring is a queue. `RingArithmetic` is the one place where the
modulus is reasoned about.

**Open files** (`FilesProofs`, with `FilesAssumption`). `CountsCorrect`, `PositionCorrect` and
`OpenFilesStay` state `CountsMatch`, `PositionInFile` (proved only, no run checks it) and `OpenFileStays`. Every operation replaces
the descriptor table of one process; `TableChange` says what this does to the number of holders of a set
of entries, and three lemmas say that opening, letting go and sharing change the counts of
`file.c` by the same number, on both levels. From the process core the proof
takes that the slot a fork picks has an empty table, and that the one a wait clears is no longer running.

**Memory** (`MemoryProofs`, with `PageAssumption`, `BootAssumption` and `MemoryAssumption`; the memory map is
any set of disjoint regions, the boot included). `NoPageLost`, `NoMemoryAssertFails`, `ForkFailsRightly`,
`NothingLostByFailure`, `FailedProcessGivesBack` and `OwnSpaceRuns` state `PagesPartitioned`, `MemoryAssertsHold`,
`ForkFailsOnlyWhenFull`, `FailedForkLosesNothing`, `FailedAllocGivesBack` and `RunsInOwnSpace`. The inductive invariant is `MInv` (`MemoryInvariance`):
the heap is `Sound` (its free list holds no page twice), nothing was freed or mapped that should
not have been, the free pages and those of every process part the machine (`Parted`), and TSS and CR3 name what the running
process owns (`Running`). An address space is a tree of six different pages (`Space`, `Apart`), of which a
half made one may lack some; that is what `free_vm` has to cope with and what
`FreeSpace` is about. The proof goes up as the code does: `kalloc` and `kfree` on sets of pages, then `find_pdpt_entry`
and `map_pages`, `setup_kvm`, `setup_uvm`, `copy_uvm`; each lemma says which pages went from the free set into
the tree and that the ones left over went back, wherever an allocation failed in between. `ForkFailsOnlyWhenFull` needs a count on top: how
many pages a whole address space has, and so how many are free. At boot the loop of `init_memory` is shown to
free exactly `UsablePages` by looking at the first page at which it would not. What a kernel step does to memory is
one of the five `Kinds`: nothing, a full table, a child, a child half made, a corpse collected.

**Words on the stacks** (`ContextProofs`, from the same assumptions). `RegistersComeBack` and `StacksHoldFrames` state
`ReturnsToOwnRegisters` and `StacksTellFrames`. The inductive invariant is `CInv` (`WordsInvariance`): `MInv`, and the stack of
everybody who does not run has one of two layouts, the one `alloc_new_process` makes by hand (`FreshLayout`) or the one that a
trap, a C call and `swap()` leave (`SwappedLayout`), with the registers of its owner in the trap frame and the call he is in above it.
There is one lemma for each instruction sequence of `trap.asm` (`PushIs`, `CallIs`, `LeaveIs`, `SwapInIs`,
`TrapReturnIs`); from them a handler either returns to the program it came from (`BackStep`) or ends on the stack
of another (`AwayStep`). That it does not disturb a third one's stack needs memory: no two processes share a stack
and no stack in use is free (`StacksApart`), also after the step, since `wait` frees one. `FramesOK` (the locals of
a process in user mode are 0) is what lets the words of a fresh stack stand for a parked call.

**Lists** (`ListProofs`, from `ListsAssumption`). `ChainsWellFormed` and `ListsAreQueues` state `WellFormed` and
`ImplementsQueues`. The model follows pointers, the proof speaks of the sequences behind them: `LInv` says that there are three sequences
without a common node such that every `next` and `tail` field is what they demand (`IsList`, `Hold`), and that a dead process has its own pid in
its `wait` field. `AppendOne` and `RemoveOne` show that the pointer assignments of `append_list_tail` and of the two
removals append to and take out of one sequence; `OtherList` that the others stay, since a node has one
`next` field and is in one of them. `ChainIs` connects this to the recursive `Walk`: the function it
defines is the only one that satisfies its equation (the first number of steps at which another differed
would differ from its predecessor), and the sequence satisfies it. For the refinement the wait list has to be
read as one queue per event: `SleepersAppend` says that a new sleeper is the last of its event,
`SleepersWithoutFirst` that `remove_list` takes the oldest, `SleepersWithoutOther` that the other
events do not notice. These are inductions along the list, done on sets of numbers (`UpTo`).

**Reading files** (`FatProofs`, from `FatAssumption` and `DirectoryAssumption`). `ReadsAreRight`,
`SeeksFailAtEndOnly` and `LookupsAreExact` state `RightBytes`, `SeekFailsOnlyAtEnd` and `LookupIsExact`, for
every cluster size, every chain without repetition and every file. The inductive invariant is `FInv`
(`FatInvariance`): while the chain is followed to the position, the clusters passed and the turns left
add up to `position \div CLUSTER_SIZE` and the index is the cluster reached; while bytes are copied,
either everything has been read or the next byte begins a cluster and the index is the one that holds it.
The bytes are right because the copy leaves the first cluster at the offset of the position and enters every other one
at its beginning. `LookupIsExact` is about `split_path`: what it accepts, and cuts into a name of
eight and an extension of three, are exactly the spellings of such an entry, padding included.

**The screen** (`DeviceProofs`, from `ScreenAssumption`). `CursorStays`, `EchoIsLine` and `NothingAhead` state
`CursorOnScreen`, `EchoMatchesLine` and `CleanAhead`. All three are about the number of the cell under
the cursor; `Written` says what each character does to it, wrap, scroll and erase
included (after a scroll the last line is blank, whatever `clear_screen()` had left there), and the three are inductive together with the bound on the line.

**Scan codes** (`DeviceProofs`, from `ScancodesAssumption`). `TypedIsMeant` and `FlagsAreKeys` state
`TypesWhatIsMeant` and `FlagsFollowKeys`, for any number of characters typed and bytes unread. The
invariant (`KeysInvariance`) looks ahead: reading all the bytes on the wire takes the driver from its flags and characters to the
flags the keys have now and the characters that are meant (`Decodes`). A key adds bytes at the end of that
reading, an interrupt takes one from its beginning, so neither disturbs it.

**Interrupts** (`DeviceProofs`, from `InterruptsAssumption`). `ServiceEnds`, `EveryByteOnce` and, when
no key moves during boot, `NoByteStuck` state `NothingInServiceInUserMode`, `BytesReadInOrder` and
`ByteHasItsInterrupt`. What is in service follows from where the CPU is
(`InService`); the keyboard's line is high only with a byte to read, and a request that has reached the CPU is
never taken back (`KeyLine`). Dropping the condition makes `NoByteStuck` false: that is the third finding.

**Checked by TLC only.** The liveness properties and the fairness half of the refinement of `Lifecycle` (fairness and
ENABLED are out of the prover's reach).

## 6. Not modelled

* Formatting of numbers by `printk`, colours, the user library's argument passing and
  its copy of `printf`: pure functions of their arguments that keep no state.
* The three memory statistics: sums that are made at boot and never updated.
  `read_root_directory`, which copies the directory out and changes nothing.
* Descriptor tables, page tables of the boot, mode switches and BIOS calls of
  `boot.asm`, `loader.asm` and `kernel.asm`: straight-line code without a state
  that a model could distinguish. The copy of the disk image by the loader.
* Of the registers, those `Context` does not name: they are saved and restored
  by the same two sequences as those it names.
* Sizes stay far below 2^32, so the sum in `file.c:265` does not wrap; no caller in the
  repository passes a size that would let it.
* `config/bochs`, which is nearly all of the text of this repository (some 360 thousand
  lines), is the emulator: third-party code that would be another project. What the kernel's
  interrupts depend on is in `Interrupts`; nothing else of it is claimed. The operating
  system itself, without its copies of the same files and its programs, is a few thousand lines, and these are
  covered but for the items above.

## 7. How the project grew, and what is left

In this order: `Process` with `Lifecycle`; `Lists`; `Keyboard`; `Shell`;
`PageTables` and `Memory`; `FatRead`; `Files`; `ProcessProofs`; `Screen`; `Scancodes`;
`BootMemory` and `Directory`; `Interrupts`; `Context`; the other proofs, `ListProofs` last. The
overlapping reads that break the ring stay out of `Shell` because its programs
never do them (`OneForeground`).

Left, and worth doing if the code grows: `Memory` and `Files` at once, on one small instance. Today they
share only `Process`, and no step of one reads the state of the other.
