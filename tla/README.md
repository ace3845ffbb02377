# A TLA+ model of Nachos 3.4

Nachos is an operating system kernel that runs, with the machine it controls, inside one UNIX process. The
machine is simulated: a MIPS CPU, a clock that advances only when code says so, a disk, a console, a network
and a bank of elevators. The kernel on top has threads, semaphores, address spaces, a post office and a small file
system; beside it are the tools that turn object files into user programs, and a second simulator of the CPU. This
directory models them, and proves for every size what the prover can reach. Paths below are relative to
`src/code/`.

## The system

| Part | State | Operations | What is hard about it |
|---|---|---|---|
| Threads, scheduler (`threads/thread.cc`, `scheduler.cc`, `switch.s`) | status, ID, saved user registers, `readyList`, `threadToBeDestroyed`, `threadIDs[]` | constructor, `Fork`, `Yield`, `Sleep`, `Finish`, destructor, `Run` on both sides of `SWITCH` | a thread stops in the middle of `Run` and goes on there much later; a new thread does not pass there |
| Semaphores (`threads/synch.cc`) | `value`, `queue` | `P`, `V` (also from interrupt handlers) | a woken thread is overtaken |
| Locks, conditions (`threads/synch.cc`) | none | stubs: nothing happens, or `ASSERT(FALSE)` | their users rely on them |
| Lists (`threads/list.cc`) | cells, `first`, `last`, `numInList` | `Append`, `Prepend`, `SortedInsert`, `Remove`, `Remove(item)`, destructor | the ends, equal keys, the last cell |
| Clock, interrupts, timer (`machine/interrupt.cc`, `timer.cc`) | four clocks, `pending`, `level`, `status`, `yieldOnReturn` | `SetLevel`, `OneTick`, `Idle`, `CheckIfDue`, `Schedule`, `Halt` | handlers schedule while the list is walked; `OneTick` yields inside itself |
| Disk (`machine/disk.cc`) | `active`, `lastSector`, `bufferInit` | read and write requests, completion | arithmetic of rotation, seek and track buffer |
| Synchronous disk (`filesys/synchdisk.cc`) | semaphore, lock | `ReadSector`, `WriteSector`, `RequestDone` | overlapping calls |
| File system (`filesys/`, `userprog/bitmap.cc`) | bitmap, directory, headers, data; per open file a header copy and a position | `Create`, `Open`, `Remove`, `Read`, `Write`, `Seek`, formatting, boot | space runs out half-way; sectors are reused; partial sectors |
| User programs (`userprog/progtest.cc`, `exception.cc`, `machine/mipssim.cc`) | registers, page table, mode | `StartProcess`, instructions, system call Halt | the machine must hold the state of the thread that runs |
| Address spaces, translation (`userprog/addrspace.cc`, `machine/translate.cc`) | page table, TLB, memory | constructor, `Translate`, `ReadMem`, `WriteMem` | a failed access must leave no trace |
| CPU (`machine/mipssim.cc`) | registers, pc's, the delayed load | `OneInstruction`, `DelayedLoad`, `RaiseException` | delay slots, loads that land one instruction late, exceptions in between |
| Console (`machine/console.cc`, `userprog/progtest.cc`) | one buffered character, busy flag | polling, `PutChar`, `GetChar`, `ConsoleTest` | two semaphores and a device that overwrites |
| Network, post office, synchronized lists (`machine/network.cc`, `network/post.cc`, `nettest.cc`, `threads/synchlist.cc`) | one buffered packet, mailboxes, two semaphores | polling, `Send`, `Receive`, postal worker, `MailTest` | loss, restarts, stub locks |
| Elevators (`machine/elevator.cc`, `elevatortest.cc`) | per elevator position and goal, event lists | buttons, doors, motion, waiting for events | several elevators and one interrupt |
| Object files (`bin/coff2noff.c`, `coff2flat.c`, `disasm.c`, `out.c`, `main.c`) | the file, what is written, memory | section by section, with every error exit | gaps, empty sections, short files |
| Stand-alone interpreter (`bin/execute.c`, `d.c`) | registers, memory, two pc's | decoding, one instruction | a second implementation of the same CPU |

They meet in few places. Every enabling of interrupts and every user instruction runs `OneTick`, which advances
the clock and runs handlers; a handler may `V` a semaphore and so ready a thread; the timer's handler makes
`OneTick` end with `Yield`. A thread that finds nobody to run sits in `Idle`, which moves the clock to the next
interrupt or halts the machine. The devices poll UNIX or count down in interrupts of their own, and their handlers
`V` the semaphores of the test programs and of the post office. The file system calls the synchronous disk for each sector, and that waits on a
semaphore for the disk's interrupt.

`PROJECT.json` lists every part with its status, the hazards at their lines, and the source lines of every
definition.

## Modules

| Module | Models | State and actions |
|---|---|---|
| `Kernel` | threads, scheduler, semaphores, preemption, user state | one variable per field; an action is the code between two points where the CPU can go elsewhere |
| `SemaphoreSpec` | what `P` and `V` promise | abstract: values and who waits |
| `Interrupt` | clock, pending list, timer, idling | one action per call or per interrupt that fires |
| `List` | the linked cells; loops one iteration per step | one action per call or iteration |
| `ListSpec` | what a list promises | abstract: a sequence of items with keys |
| `Disk` | requests, latencies, track buffer | operators and actions used by `SynchDisk` |
| `SynchDisk` | threads on one disk, stub lock | extends `Disk`; call, resumption, clock |
| `OpenFile` | `ReadAt`, `WriteAt`, headers | pure operators on a disk |
| `FileSystem` | the file system for one caller at a time, and the refinement mapping to `FileStore` | extends `OpenFile`; one action per call |
| `FileStore` | what the file system promises | abstract: names, the bytes of each file, and how many sectors are free |
| `Network` | the network device and its socket, per machine | actions used by `PostOffice` |
| `PostOffice` | post office, mailboxes, `MailTest` and a second sender, machines that stop and restart | extends `Network`; one action from one return of `P` to the next `P` |
| `Console` | the console device and `ConsoleTest` | polling, completion, the steps of the echo loop |
| `Elevator` | the bank and its interrupts | actions and operators used by `ElevatorTest` |
| `ElevatorTest` | rider and controller, scripted or free | extends `Elevator`; one action per call or wait |
| `Devices` | a run of Nachos with one of the test programs | extends `PostOffice`, instantiates `Console` and `ElevatorTest`; a step is a step of one of them |
| `Word` | integers of W bits | pure operators |
| `Translate` | page table, TLB, memory accesses | extends `Word`; pure operators on a machine record |
| `Mips` | every instruction | extends `Translate`; one operator per kind of instruction |
| `Machine` | `Machine::Run` and what the kernel does with an exception | extends `Mips`; one action per outcome of an instruction |
| `Interpreter`, `Disasm` | `execute.c`; the printed form of instructions | pure operators |
| `Simulators` | both simulators on one program | extends `Machine`, `Disasm` |
| `Coff` | the object file tools, the loader of an `AddrSpace` and of the interpreter | one action per section or step |
| `MCKernel`, `MCInterrupt`, `MCSynchDisk`, `MCFileSystem`, `MCDevices`, `MCMachine` | instances for TLC | constants and symmetry; the last one puts the machine and the object file tools side by side |
| `*Proofs` | theorems | see below |

### Kernel

Only `currentThread` acts. `pc[t]` says where a thread is, or where it goes on when `SWITCH` returns to it.
Code between `SetLevel(IntOff)` and the next `SetLevel(IntOn)` or `SWITCH` cannot be interrupted and is one
action. `SWITCH` ends an action (`Run`); the thread switched to continues with `ThreadRoot`, `ResumeYield` or
`ResumeP`, the latter two beginning with the second half of `Scheduler::Run` (`AfterSWITCH`), which deletes the
carcass and restores user state. Turning interrupts on puts a thread into `"tick"`, in which device handlers
(`TickDevice`) and the timer's (`TickTimer`) run in any number and order, before `TickReturn` or `TickYield`.
A thread in `Sleep` keeps `currentThread` while it idles (`IdleDevice`, `IdleTimer`, `IdleReturn`, `IdleHalt`).

Time is abstracted: an outstanding interrupt may be due at any tick. A device is a number of outstanding
interrupts per semaphore, each of which will `V` it; the console's and the network's polling, which only keep
`Idle` from halting, are left out here. Thread blocks are reused after deletion, as `new` does. The user state is
*whose* registers are in the machine or in a thread's save area. A thread whose ID is -1, because the table is
full, clears `threadIDs[-1]` when it is deleted; the model takes that write to hit nothing it reads.

### Interrupt

The clock, the sorted list and `CheckIfDue`, step by step: `OneTick` advances the clock, `TickFire` fires the
head of the list while it is due, `TickEnd` puts back the first that is not. `owed` is history: the interrupts that
devices asked for and that have not fired; `DevicesAreServed` says that the list holds just these and the timer's, and
that a machine which halts in `Idle` owes none. Handlers of pollers and of the timer
schedule the next interrupt, the timer with any delay that `TimeOfNextInterrupt` can return. Putting an interrupt
back after a look (`PutBack`) moves it behind others of the same time; the order among equal times is therefore
not the order of scheduling, and no property claims that it is.

### Disk and SynchDisk

`ComputeLatency`, `UpdateLast` and the rest are the code's arithmetic. They are compared with an independent
picture of the disk: sectors pass under the head one per `RotationTime`, for ever; `arrived` records when the arm
reached its track. A request and the first test of `P` have no tick between them and are one action. The lock
is the stub of `synch.cc`, so a second caller can come in whenever the first sleeps.

### OpenFile and FileSystem

A sector holds bytes, or a header whose bytes are junk to somebody who reads them as data. Bitmap and directory
are what their files hold, since each operation fetches and writes both. `Prefix` maps a name to the nine
characters an entry holds, so different names can be the same file. `Create` takes the lowest clear sectors, one
for the header and then the data. `Remove` does not look whether the file is open: its sectors are freed, and the
`OpenFile` is stale from then on, with a copy of a header that is no longer anybody's (`Current` is the opposite).
Reads and writes through it go to the sectors the copy names, whoever has them now. Such a write may hit the data of
another file (`StaleWrite`), which `ImplementsFileStore` has to leave out, or its header (`WriteOverHeader`); after
that, and after an allocation that writes past `dataSectors` (`CreateOverruns`), the bytes read as a header are
undefined and the model stops (`broken`). What the code does promise is checked along stale handles as well: the
bitmap and the directory are out of their reach, and only `Remove` of its own file makes a handle stale. In
`FileStore` a write goes to an interval of a file that the caller gives; that `Write` takes it from `seekPosition` and
advances that is in `FileSystem` only (`Written`).

### List

`SortedInsert` and `Remove(item)` walk the cells with `ptr`; each iteration is a step, so the half-way states are
states of the model. `order` is a history variable, the cells as a sequence, from which the refinement mapping to
`ListSpec` is built. `Remove(item)` of an item that is not there fails its `ASSERT`; on an empty list it reads
through a null pointer. Both end the program (`ok`).

### Network and PostOffice

A machine is a UNIX process with a datagram socket; `sock[n]` is what the host holds for it. A packet may be
dropped by the sending device (`-l`), and one that is sent to a machine that is not running fails the `ASSERT` of
`SendToSocket`, which ends the sender (`SendFails`). What is in a socket is lost when its machine ends. The two interrupts
of the device are scheduled the same time ahead and fire in the order they were scheduled in. Between two calls of
`P` a thread is not interrupted: `SetLevel(IntOn)` at the end of `P` is the only place where the clock moves.
`Lock` is the stub of `synch.cc` and `Condition::Wait` asserts FALSE, so `Receive` from an empty mailbox ends the
machine (`ReceiveEmpty`). A machine may be interrupted by its user at any step (`Quit`) and started again with a new
socket (`Start`); `Budget` says how often. `id`, `put` and `heard` are history.

### Console and elevators

The console's model goes from the keyboard to the screen, with the byte 255 that `char` makes equal to `EOF`.
In `Elevator` times are relative: how long until an interrupt or an arrival. An elevator that is sent elsewhere while
it moves changes `goingTo` only; the step between floors is taken in the direction that `goingTo` has when the
interrupt comes. `ElevatorTest` runs the script of `elevatortest.cc`, or a rider and a controller that make any call
whose assertions hold.

### Machine, Interpreter and Coff

Words have W bits and four bytes of W/4 bits; fields of an instruction scale with them. `Mips` gives the outcome
of an instruction as a record: the machine after it, `pcAfter`, the load to be delayed, and the exception.
`Machine` applies it as `OneInstruction` does: an exception first lets the delayed load land, and the registers of
the instruction that trapped are not written. `Run` calls `OneTick` after each instruction, and an interrupt that fires
there lets a delayed load land early (`CheckIfDue`, `interrupt.cc:329`). The properties compare each step with definitions that do not use those
operators: products and quotients of integers, memory as a function of virtual addresses, and the interpreter.
Where the two simulators are known to differ, `SimulatorsAgree` says so and excludes just that: `LWL` and its kind,
`OR`, logical shifts of negative numbers, logical operations with a negative immediate, division by zero, jumps from
one region of memory to another, a jump in a delay slot, an instruction that links the register it reads, an
instruction that names a register whose load has not landed, and the high word of a product. Both have memory from address
0 on here; the interpreter's own begins at `memoffset` (`int.h:12`). What an instruction sees that does name the register
of a load under way is the subject of `LoadsAreDelayed`, on the kernel's simulator alone. `LinesTellTheOperands` compares
which registers a line names and not their order, and leaves out the five instructions listed below for which it names
another one.

In `Coff` the byte at position p of the object file is p, so that every byte in memory can be traced to its place
in the file. `coff2noff` writes the file that `AddrSpace` loads; `coff2flat` and the interpreter's `load_program`
(both versions of it) do the same in other ways; `disasm` and `out` list what is loaded. `out.c` is modelled for a
host whose `long` has four bytes. `coff2noff` and `coff2flat` place a section by its physical address, `load_program` and
`disasm` by its virtual address in a memory that begins at `memoffset`. A program linked at 0, as those for Nachos are,
is therefore outside the interpreter's memory, and nothing is claimed of the two loaders together: `ImageIsLoaded`
says of each one that succeeds that it did what its own addresses say. What the tools take for granted of an object file is spelled out: `WellFormed`
(initialized sections lie in the file, names are unique, no section overlaps another), and for the stack
`Contiguous` (no gaps), for `coff2flat` also `UninitializedLast`. Where a file is not like that, `ImageIsLoaded` still says that a
NOFF file is left behind only when it is complete.

## What TLC checks

| Run | States | Checks |
|---|---|---|
| `kernel_safety` | 948,107 | a thread is in one place and the place agrees with its status; no wake-up is lost; what `Run` deletes is dead; the machine holds the running thread's mode, registers, page table and interrupt level; the ID table is exact |
| `kernel_liveness` | 102,010 | every ready thread runs; a unit somebody waits for is taken; `Kernel` implements `SemaphoreSpec` |
| `interrupt` | 110,375 | ticks add up; interrupts fire in order and never early; none is overdue with interrupts on; the timer stays set; no device's interrupt is lost or comes twice, and idling halts only when none is owed |
| `synchdisk` | 34,508 | latencies are those of the turning disk; completions match calls; nobody sleeps for an interrupt that will not come |
| `filesys` | 47,108 | the bitmap is exact; files are disjoint, and no open file, stale or not, reaches the bitmap or the directory; only `Remove` makes an open file stale; `ReadAt` returns the file's bytes; `FileSystem` implements `FileStore` |
| `list` | 12,855 | the cells form the chain that `first`, `last` and `numInList` describe; `List` implements `ListSpec` |
| `devices` | 141,584 | the postal worker finds the packet it was woken for; every thread in `Send` is owed an interrupt or a unit, and every one that sleeps an interrupt; mail is in order and at most once; an answer means the "hello" was received; mail settles. What is typed is echoed, in order. Nobody sleeps on an event of the elevators without an interrupt to come, and whoever was woken finds the unit; the self test passes; elevators arrive |
| `machine` | 218,218 | results are those of integer arithmetic; loads land one instruction late; stores change just their bytes; a trap leaves no trace; the two simulators agree; the printed line names the operands used; every loader puts every byte in its place |
| `kernel_carcass` | violation | a finished thread is always deleted |
| `filesys_toobig` | violation | files fit their headers |
| `elevator_turns` | violation | an elevator turns at a floor |
| `mips_or` | violation | `OR` takes both operands |

The four violations are disagreements between the code and its comments or tables:

- **A carcass can be lost.** `Run` deletes `threadToBeDestroyed` after `SWITCH` returns (`scheduler.cc:124`). A
  thread that runs for the first time starts in `ThreadRoot` and does not pass there. If A finishes, B starts and
  finishes at once, B overwrites the pointer: A's block, stack and ID are never freed. `thread.cc:136` says that
  `Run` will call the destructor.
- **Files can be too big.** `FileHeader::Allocate` does not compare the number of sectors with `NumDirect`.
- **An elevator turns between floors.** `elevator.cc:173` says that one that is sent back waits until the next
  floor; `ReachedNextFloor` (`elevator.cc:82`) counts it as one floor down at once. In the run's trace an elevator
  that left floor 0 upwards is sent back to 0 and "reaches" floor -1; one that left floor 1 would reach floor 0.
- **`OR` ignores `rt`.** `mipssim.cc:376` has `rs` twice.

Further differences met while modelling. The models follow the code; no run is devoted to them:

- `synch.cc:94` says that the woken thread is "consuming the V immediately"; the unit is there for whoever calls `P`
  first. The `while` loop in `P` makes this harmless, which `ImplementsSemaphores` and `NoLostWakeup` show.
- `synchdisk.cc:75` says "only one disk I/O at a time", but `Lock::Acquire` (`synch.cc:105`) is empty; a second
  caller makes the disk's assertion fail (`Abort` in `SynchDisk`).
- `sendBusy` of the network is tested (`network.cc:110`) and never set; `SendsMatchInterrupts` holds without it.
- `实验报告/Lab5文件系统.md:327` and `:384` (beside `code/`) describe a `Remove` that refuses while threads have the file
  open. `FileSystem::Remove` (`filesys.cc:257`) has no such test.
- When two elevators reach a floor at one interrupt, the next one is scheduled and `willArrive` advanced for the first
  only (`elevator.cc:302`). The second then moves at whatever interrupt comes next, early. `ElevatorsArrive` says that
  it gets there, not when.
- An answer in `MailTest` does not say which "hello" it answers: after a restart it may be one of the earlier life.
  `AckMeansReceived` says that some "hello" of that machine was put into the mailbox. `MailSettles` counts a machine
  that ended in an assertion as settled; that `MailTest` completes is not claimed.
- `SRL` and `SRLV` shift signed integers, so they are arithmetic shifts.
- The comment on `valid` in `translate.h:35` says the opposite of what `Translate` does with it.
- `coff2noff` means to check that `.bss` and `.sbss` are contiguous (`coff2noff.c:200`), and gives up just when they
  are (`coff2noff.c:204`).
- `d.c` prints the wrong register for `MFLO`, `MTHI`, `JALR`, `BLEZ` and `BGTZ`, and swaps those of `BEQ` and `BNE`.

### Bounds

- `KernelSafety.cfg`: three thread blocks, so that one runs while two sleep or wait; two IDs, so that the table
  is full and -1 is given out; a mutex and a device semaphore; at most two units or outstanding interrupts on
  each, so that two `V`s come before either woken thread runs. Blocks other than the main thread's are symmetric.
- `KernelLiveness.cfg`: the same threads, one semaphore, one unit, no symmetry. With one unit, overtaking,
  starvation and idling still occur.
- `Interrupt.cfg`: a one-shot device of latency 1 or 4, a poller of period 3 and a timer of 1 to 4 ticks, with
  ticks of 2 and 1, over 9 ticks and 3 pending interrupts at a request. Equal due times, interrupts overdue by
  one, and handlers that schedule while others are due all occur.
- `SynchDisk.cfg`: two tracks of three sectors, a rotation of 2 ticks and a seek of 3, so that a seek ends in
  the middle of a sector; three threads, 24 ticks, which are four turns.
- `FileSystem.cfg`: eight sectors of two bytes, four of them the file system's own; two entries; sizes of 0, 3
  and 5 bytes, so that the disk or the directory fills first, headers of two sectors overflow, and reads and writes
  of one and of three bytes at 0, 1 and 3 are aligned at either end, both or neither. A byte is written or not, which is
  enough to tell where each write went. One open file, which is removed and its sectors given away while it is open.

- `List.cfg`: four cells, two items and two keys: an insertion between two pairs of equal keys, and removal
  of the first, a middle and the last cell, with a cell of the same item behind.
- `Devices.cfg`: two machines and losses; both start once and one has a second sender, or one is stopped and
  started again while packets are under way. Three characters, among them 'q' and 255, four of them typed. Two
  elevators and three floors, one rider, a step between floors that is no multiple of a tick, three free calls, so
  that an elevator is redirected while it and the other one move. A behaviour runs one of the three programs.
- `Machine.cfg`: words of 8 bits with bytes of 2, four registers, two pages of four words. Instructions are taken at
  the edges of the signed and unsigned ranges, addresses at every alignment, through tables that are
  straight, swapped, invalid, read-only or out of range, and through a TLB; sequences of four for delay slots and
  delayed loads, at the top of the address space too, with and without an interrupt between two instructions. Object files have up to six sections, some empty, gaps between
  them, a wrong magic number, one byte missing, or more than the tools have room for.

`MaxValue`, `MaxTicks`, `MaxPending`, `MaxTyped`, `MaxCalls` and `Budget` are the bounds on counters. They appear in
guards only.

### Fairness

`FairSpec` of `Kernel` assumes weak fairness of `Next` (the process does not stop), strong fairness of
`TickTimer` (a running thread keeps passing through `OneTick`, and `TimerStaysSet` of `Interrupt` bounds how far
ahead the timer is) and strong fairness of device interrupts in `Idle` (the clock is moved to the next one). The
scheduler itself is given no fairness: that every ready thread runs follows from the FIFO ready list. The timer
must be on (`nachos -rs`); without it a thread may keep the CPU.

`PostOffice` assumes, per machine, weak fairness of the device's interrupts (the clock of an idle machine is moved to
the next one, and polling keeps one pending), of the postal worker and of a sender that has been woken: the ready
list is FIFO. Nothing is assumed of the network: every packet may be lost. A user need never start, stop or send.
`Console` assumes weak fairness of its two interrupts and of `ConsoleTest`; `ElevatorTest`, of the machine and of
the two threads, except for the calls they make of their own free will. Nobody need type or press a button.

## What is proved

TLAPS proves the following for all values of the constants, under the `ASSUME` of each module: finite sets of
threads, positive sizes and times, `NULL` different from everything else, two machines on the network, delays of the
elevators that are whole numbers (`DelaysAreWhole`), sizes and addresses of an object file that are whole numbers, a
page that is not empty and room for a word on the stack of `coff2flat` (`SizesAreNatural`).

| Module | Theorems | Argument |
|---|---|---|
| `KernelProofs` | `TypeCorrect`, `ThreadsStayInPlace`, `CarcassStaysDead` | types together with "a thread in `P` has a semaphore"; then `Structure`, which is `ThreadsInOnePlace`, `CarcassIsDead` and `PlaceFollowsStatus`, inductive only together: to queue or ready a thread one must know it is on no list, which its status says, which its place says |
| | `IDsStayExact`, `MachineAlwaysFollowsThread`, `KernelImplementsSemaphores`, `NoWakeupIsLost` | on top of `Structure`, one argument each. The machine: what a thread will find when `SWITCH` returns to it has to be carried while it is away (`ThreadsKeepModes`: where a thread with an address space can be, the mode `OneTick` puts back, the saved registers), and what the machine holds during its `OneTick` (`MachineKeepsModes`). The refinement: the abstract waiters are those whose place is `P` (`WaitsFor`), and each action is shown to change one value and one waiter at most. `NoLostWakeup`, by counting woken threads and units |
| `InterruptProofs` | `TypeCorrect`, `TicksAlwaysAddUp`, `AlwaysFiredInOrder`, `NeverOverdue`, `TimerAlwaysSet`, `DevicesAlwaysServed` | all properties, that the list is sorted, and that interrupts are off in `OneTick` and `Idle`. `DevicesAlwaysServed` counts the entries of each device through every insertion, removal and putting back |
| `SynchDiskProofs` | `TypeCorrect`, `CompletionsAlwaysMatchCalls`, `SomebodyAlwaysWakesMe`, `LatencyAlwaysExact` | at most one thread is in `P`, in one of three situations (`Somebody`). For the latencies, `BufferFollowsArm`: `bufferInit` is the first sector boundary after the arm came to its track, and that time is past when the disk is idle. With it, both cases of `ComputeLatency` come down to one fact about remainders (`FirstPass`): `ModuloDiff` is the number of sectors until the one sought comes by, and none that has its angle comes before |
| `FileSystemProofs` | `TypeCorrect`, `BitmapStaysExact`, `FilesStayDisjoint`, `HandlesStayCurrent` | the first three together: `Remove` frees the right sectors only if files are disjoint, and writes keep the bitmap and the directory only because no handle, stale or not, reaches them. On top of them the action property `OnlyRemoveMakesStale`, one lemma per kind of step (`CurrentKept`, `CurrentUnmoved`): a write moves no header unless it stops the model, and the sectors of an open file that is there are not given away |
| | `ReadsReturnContents`, `FileSystemImplementsFileStore` | on top of that invariant. First the arithmetic of sectors: byte p of a file is byte p mod `SectorSize` of the sector that `ByteToSector` gives, for `ReadAt` (`ReadAtBytes`) and, whichever of the first and last sectors are read before they are written, for `WriteAt` (`WriteAtBytes`). Then one lemma per operation. Free sectors are counted: the bitmap is exact and files are disjoint, so that `Create` takes and `Remove` gives back exactly the footprint (`FootprintIs`, `SectorsSize`, `ClearCount`), and the names in the directory are as many as its entries in use (`NamesSize`) |
| `ListProofs` | `AlwaysLinked`, `ListImplementsListSpec` | the links, and what each loop knows of the cells it has passed: keys not greater than the new one (`Placing`), items different from the one sought (`Looking`). That makes the step that ends a loop the step of `ListSpec`; the others stutter |
| `PostOfficeProofs` | `PacketAlwaysAnnounced`, `MailAlwaysInOrder`, `AckAlwaysMeansReceived`, `SendsAlwaysMatchInterrupts` | for any number of starts, stops and mails, and any losses. Every packet carries a number its sender has used (`Ordered`, from mailboxes through the buffer to the socket), and one for mailbox 1 exists only after a "hello" was put (`Answers`). `StepKinds` first reduces `Next` to the six kinds of steps that matter to them. `SendsMatchInterrupts` has an invariant of its own, `Matched`: the queue of `messageSent` holds exactly the threads asleep, once each, and while one sleeps there are at least as many woken threads as units |
| `DevicesProofs` | `EchoAlwaysInOrder` | of `Devices`, for any characters and any number of them. `ConsoleInv`: the buffer holds the last character read, unless it was taken (`Buffered`); every character read is announced once, and is written or due (`Announced`); what was written and what is in the buffer is what was read, counted without the byte 255 (`Ordered`, `Others`); a write is pending exactly while `ConsoleTest` sleeps for it (`Writing`); nothing is written after a 'q' (`Quitting`) |
| | `BankLosesNoWakeup` | for any number of elevators, floors and calls. `NobodySleepsOnEvents` is inductive with the types of the interrupts and the semaphores (`BankInv`); the work is in what `Scheduled` and the callbacks do to the list of interrupts |
| `CoffProofs` | `ImageIsAlwaysLoaded` | for any object files and any sizes of memories, pages and stacks. One invariant per tool (`NoffInv`, `SpaceInv`, `FlatInv`, `LoadInv`, `LinesInv`) says what it has done up to the section it is at, and what it left when it is through; `StepKeeps` says which tool may touch what. That without gaps no section reaches beyond the start of a later one (`EndsGrow`) takes an induction, done with the least counterexample (`LeastMember`); pages and offsets (`PageAndOffset`) and words and bytes (`WordAndByte`) are division with remainder |

`FileSystemImplementsFileStore` includes the behaviours in which `Create` writes past `dataSectors`: the model stops
there (`broken`), as it does when a stale handle writes over a header, so the theorem says what holds until then, and
`filesys_toobig` that the first happens. Writes through a stale handle are the steps it leaves out (`StaleWrite`). `FileStore`
counts its free sectors (`free`), so that a leaked sector, or one given back twice, breaks the refinement and not
only the bitmap's invariant.

Only model-checked:

- liveness and fairness (`ReadyRuns`, `UnitsAreTaken`, `MailSettles`, `EchoCompletes`, `SelfTestPasses`,
  `ElevatorsArrive`): out of the prover's reach;
- the machine, the interpreter and the disassembler (`ResultsAreExact`, `LoadsAreDelayed`, `StoresAreExact`,
  `TrapsArePrecise`, `SimulatorsAgree`, `LinesTellTheOperands`), whose modules use bitwise and recursive operators that
  the prover does not take; it also knows no laws of 2^n for a variable n, on which words of `W` bits rest, so that
  a proof would have to assume much of what it is about.

Every invariant that a passing run checks is the subject of a theorem.

## What is not modelled

- Command line, debug messages, statistics output, the single-step debugger: output without state that
  anything depends on.
- The UNIX calls that `bin/system.c` passes from a simulated program to the host; the symbol table and the
  relocations that `out` prints; memory and cache statistics of the interpreter.
- The wrappers of `machine/sysdep.cc` for files, memory, time and random numbers. What they return is
  nondeterministic where it matters (the timer's delay, loss); sockets and the keyboard are modelled.
- The system calls other than Halt: the code asserts FALSE. For the same reason the programs in `test/` other than
  `halt` cannot run; they are inputs of the system.
- The C++ examples in `c++example/`: not linked into Nachos.
- Concurrent calls of the file system and crashes inside its operations: `filesys.cc:33` and `38` exclude both.
- The switch in assembly (`switch.s`) is modelled by what it does to `currentThread` and by where a new thread
  starts; registers on stacks are not.
