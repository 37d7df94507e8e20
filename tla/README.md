# TLA+ models of the tiny-kernels kernel

The repository is a small operating-system kernel (C, on the simulated Yalnix
machine): processes, a round-robin scheduler driven by the clock trap,
terminals, and paged memory; its user library brings a heap allocator and
formatted input and output. This directory models the parts of it that are hard
to test: what the system calls, the faults and the interrupts of several
processes do to the shared queues, control blocks and page tables, in every
order, and what long sequences of library calls do to a heap or a buffer.

All paths below are relative to the repository; `src/src/` is the kernel and
`src/.yalnix/etc/` the user library.

## 1. The system

| Part | Code | State | Operations |
|---|---|---|---|
| process queues | `src/src/queue.c` | linked lists of nodes pointing to PCBs | enqueue, dequeue, remove, iterate with a callback |
| process table, PCBs | `src/src/proc.c`, `include/proc.h` | `proc_table`, PCB fields | `allocNewPCB`, `getFreePCB`, `deletePCB` |
| process system calls | `src/src/syscalls/process.c` | `ready_queue`, `blocked_queue`, `zombie_queue`, PCBs | `Fork`, `Exit`, `Wait`, `Delay`, `GetPid`, `Exec`, `Brk` |
| scheduler | `ClockTrapHandler`, `KCSwitch`, `KCCopy` | `current_process`, saved kernel contexts | preemption, switch, copy of a kernel stack |
| traps | `src/src/traps/trap.c` | the above | kernel, clock, memory, math, illegal, terminal traps |
| terminals | `src/src/syscalls/tty.c`, `trap.c` | `terminals[]`, terminal fields of PCBs | `TtyRead`, `TtyWrite`, receive and transmit traps |
| memory | `src/src/mem.c`, `SetKernelBrk`, `LoadProgram`, `growStack` | frame table, page tables, break, stack base | allocate and free frames, `Brk`, stack growth, load |
| user heap | `.yalnix/etc/new_heap.c`, `brk`, `sbrk`, `Brk` of `libc.c` | `heap_start`, `heap_end`, list of blocks, `current_break` | `malloc`, `free`, `calloc`, `realloc` |
| user formatting | `vsnprintf.c`, `vsscanf.c`, `strntoumax.c` | locals of one call | `snprintf`, `sprintf`, `sscanf` |
| boot | `KernelStart`, `src/src/init.c` | all of it | initialisation, once |
| pipes, locks, optional calls | `src/src/syscalls/pipe.c`, `synchronization.c`, `miscellaneous/` | none | pseudo-code and stubs |

The parts of the kernel interact through shared state only: a handler runs in the context of
the process that trapped, with interrupts off, and moves PCBs between queues.
It gives up the CPU in one way, `KernelContextSwitch`, in the middle of its
code. So every handler that blocks has a second half, which runs when somebody
else has put the process back in the ready queue and the scheduler has chosen
it. Between the halves anything may have happened. That is where the hard
behaviours are:

* state tested before the switch and relied on after it (the zombie scan of
  `Wait`, the lock of `TtyWrite`, the parent pointer in `Fork`);
* several wake-up paths (exit of a child, clock, two terminal traps) into the
  same ready queue;
* a callback that changes the queue it is iterated over;
* memory that is freed while pointers to it remain (`deletePCB`);
* failing allocations halfway through a handler;
* page tables that are edited page by page while frames run out, and bounds
  (break, stack base) that are kept beside the tables they describe.

The user library is sequential. Its hard behaviours are long sequences of legal
calls (a heap that is split, merged and grown in any order, with a kernel that
refuses memory at any of them) and edges (a buffer that is exactly full, the
smallest and the largest number of a type, a text that ends too early).

What makes each part correct: every process is in exactly one place (running,
in one queue, or asleep in `Wait`); the exit of a child is never missed and is
reported once, to its parent, with its status; every ready process runs and
every delay ends; a terminal has one writer at a time, hands itself to the next
and wakes every writer; every byte typed goes to one reader, in order; no frame
is in two places and every frame in use is accounted for; a process keeps its
pages; the blocks of a heap tile it and each is given out once; nothing is
written past a buffer, and what was printed reads back.
`PROJECT.json` lists the hazards with the line each of them bites at.

## 2. The modules

| Module | What it is |
|---|---|
| `Queues` | the operations of `queue.c` on sequences |
| `Processes` | PCBs, process queues, process system calls, faults, clock trap, context switch |
| `ProcessLifecycle` | abstract: what `Fork`, `Exit` and `Wait` promise to programs |
| `ProcessRefinement` | `Processes` implements `ProcessLifecycle` |
| `Terminals` | extends `Processes` by the terminals and their traps |
| `Kernel` | processes and terminals composed: specification, fairness, properties |
| `Memory` | frame table, page tables, kernel stacks and bounds, from the boot on |
| `UserHeap` | the allocator of the user library over `brk` and `sbrk` |
| `Printf`, `Scanf` | `vsnprintf`, and `vsscanf` of what it printed |
| `ProcessClaims`, `TerminalClaims`, `MemoryClaims` | statements of the repository's comments and tests that the code does not satisfy |
| `MCProcesses`, `MCKernel`, `MCMemory`, `MCUserHeap`, `MCFormat` | instances for TLC |
| `Processes_proofs`, `Placement_proofs`, `Wakeup_proofs` | TLAPS proofs about `Queues` and `Processes`, each module on top of the one before |
| `Refinement_proofs` | TLAPS proof that `Processes` implements `ProcessLifecycle` |
| `Terminals_proofs` | TLAPS proofs about `Kernel`, the processes and terminals together |
| `Memory_proofs` | TLAPS proofs about `Memory` |
| `UserHeap_proofs` | TLAPS proofs about `UserHeap` |
| `Printf_proofs` | TLAPS proofs about `Printf` and `Scanf` |

### Processes

One action is one handler up to its `KernelContextSwitch` or its return. The
switch (`KCSwitch`) stores in the PCB a label, `kctx`, for the saved kernel
context; `kpc = "resume"` says that the process just switched to continues
there, and the second half of its handler is the only action enabled for it
(`WaitResumes`, `DelayResumes`, `ForkChild`, `ExitReturns`, `ClockResumes`, ...).
`kpc = "user"` is user mode with interrupts enabled: there the current process
may make any system call or fault, and any interrupt may arrive. User programs
are thus modelled by an arbitrary choice of calls with arguments from `Ticks`
and `Statuses`. The idle process makes no call.

The clock trap's `queueIterate(blocked_queue, ...)` takes one step per node.
`iter` holds the nodes still to visit, as saved before the callback is called.

A PCB is identified with its pid and its slot in `proc_table`: pids are not
reused and a slot, once filled, is never cleared. `freed` is the set of PCBs
given to `free()`. Reading a freed PCB is undefined behaviour: the step is then
nondeterministic between the harmless outcome and `machine = "undefined"`,
where the model stops. `faults` is a history variable: it records that the
kernel woke a process that was not waiting (`spurious_wake`), read freed memory
(`use_after_free`) or woke a writer without unblocking it (`half_woken`).
`Sane` says that none of this has happened. Properties that the code guarantees
only until the first such event are stated as `Sane => ...`. This is a real
restriction: the flag `waiting_for_child_pid` starts as -1, and `Exit` reads it
as "waiting", so a child that exits before its parent ever called `Wait`
already ends `Sane` (finding `claim_waiting`). What is left are the executions
in which a parent waits before its first child exits. `SavedNodesAreLinked`,
`ReadyRuns` and `TypeOK` hold without the restriction.

`Fork` that finds no slot or too few frames, and `Delay` below -1, halt the
machine, as the trap handler does. Frames are abstracted to the constant
`FramesMayRunOut`; `Memory` has them in full.

`MemoryTrapHandler` kills the process or, as `StackGrows`, lets it go on: a
successful growth of the stack changes memory only (`Memory`). Which of the
two happens depends on addresses and is left open.

### Terminals and Kernel

`terminals[t]` is `terminal_t`; `io[p]` holds the terminal fields of a PCB, the
saved `regs[0]` and the arguments a blocked call keeps on its kernel stack.
The n-th byte typed at a terminal is the number n, so that lost, duplicated and
reordered bytes can be told apart. Written bytes are only counted. `device` is
the hardware (external): a transmission in progress, the bytes accepted, and
the bytes that reached user buffers. `TtyReceive` truncates a line to what fits
in the rest of the buffer; the bytes it drops are never numbered. A transmission
started over another one is undefined for the device (`TtyOverrun`).
`malloc` of a terminal buffer may fail `MaxHeapFailures` times.

`Kernel` is the composition: process steps leave the terminals unchanged,
terminal steps use the queues, PCBs and context switch of `Processes`.

### ProcessLifecycle

A process is unborn, new, alive, dead, reaped. `Reap` answers with the pid and
the status of a dead child of the caller; `Wait` fails only for a process all
of whose children are reaped. There are no queues, no scheduler, no interrupts.
The mapping in `ProcessRefinement` reads the life of a process from
`proc_table`, `freed`, the zombie queue and the resume point. The promise ends
with the first corruption (`broken <- ~Sane`).

### Memory

The machine from `KernelStart` on, at the granularity of pages: the code aligns
every bound to a page before it stores it. `phase` follows the boot (`boot`,
`vm` after `REG_VM_ENABLE`, `idle` after the idle PCB, `run` after init) and how
the machine may end: `halted`; `hung`; `undefined`, once an entry was made from
the -1 of an `allocFrame` that found nothing, or was written past the table. The
kernel heap (`SetKernelBrk`) may grow and shrink at any moment while the machine
is up, since any `malloc` of the kernel calls it.

* The usage of a frame is only compared with `FRAME_FREE`, so the frame table is
  the set `used`; `free_nframes` is the kernel's own count. A page-table entry
  is the frame it maps or `Unmapped`.
* `allocFrame` takes the lowest free frame. A loop over pages therefore gives
  each page the free frame of the same rank, and none once they run out: the
  loops of `Brk`, `growStack`, `CopyPT`, `LoadProgram` and `SetKernelBrk` are
  single steps (interrupts are off) that can stop halfway.
* `Exec` tests only for `ERROR`. When `LoadProgram` answers `KILL`, the process
  goes on in what was loaded; `load = "kill"` marks it, and the properties about
  loaded processes leave it out.
* `Exit` frees no frame: the PCB of a zombie keeps its tables, and with them its
  pages, until its parent's `Wait` finds it. `Wait` is that half of the call;
  the half that blocks is a `Switch`. `deletePCB` then frees the two tables and
  the PCB, and none of the frames: the process leaves `pcb` and its frames stay
  in `used`, in no table. `slots` counts the slots of `proc_table` handed out,
  which are never cleared, so the next child has the number `slots`.
* `leaked` is a history variable: the frames in use that no table maps any more,
  with the function that forgot them. There are four ways: `CloneFrame` borrows
  scratch pages that the kernel heap may have reached, `SetKernelBrk` maps again
  what a failed call had mapped, `growStack` maps over inherited pages, and
  `deletePCB` drops the tables of a reaped process. `FramesAccounted` says that
  there is no fifth. The last two contradict a test and comments of the code, as
  `claim_stack` and `claim_reap` show.
* `LoadProgram` puts the start and the end of the heap at the first data page
  (section 4), so `heap_start` is where the code puts it and not the end of the
  data.
* The model starts after the `malloc` of the frame table
  (`src/src/init.c:86`), see section 7.
* `Switch` is `KCSwitch` between live processes in any order; which process runs
  next is the business of `Processes`.

Bounds: `MAX_PROCS` PCBs, `MaxExecs` programs thrown away, `MaxShrinks` times
the kernel heap shrinks.

### UserHeap

`blocks` is the list linked by `next`, each block with its address, so that
neighbours in the list need not be neighbours in memory. One action is one call.
`ok` is the kernel's answer to `Brk`: it may refuse at any call, and always
refuses above `MaxBreak`. `owned` is what the program was given and has not
released: it releases only that, or an address that is in no block it owns
(`FreeAgain`, the second `free` the code warns about). `init_heap` whose `brk`
was refused leaves a heap that starts and ends nowhere (`heap = "odd"`).
`garbage_collect`, `grow_heap`, the split in `malloc` and the in-place cases of
`realloc` are operators on the list. `size_t` has `WIDTH` bits, so the product
in `calloc` wraps around. `realloc` copies `size_used` bytes; `ret` is `"lost"`
if that is less than the program had or more than the new block holds.

### Printf and Scanf

`vsnprintf` is an automaton over the format; a step is one character of it. Two
calls run side by side on the same format and arguments: one with room for `n`
characters, and one without limit. Memory past the buffer belongs to the model
(`Untouched` until written), so that a write beyond the end is seen. The text of
the unlimited call is then scanned by `vsscanf`, again a step per character of
the scan format. Characters are strings of length one, integers have 3 to 8
bits, and a conversion is the computation the code makes, with its digits, signs,
padding, separators and wrap-around. A `va_arg` of a type the caller did not pass
is undefined: `ArgsMatch` says that it does not happen. It is a duty of the
program, not of the library; the run checks it of every call it makes, as part
of `FormatTypeOK`.

## 3. Runs

| Run | Instance | Shows |
|---|---|---|
| `processes` | 4 slots (idle, init, 2 forks), Delay of -2..2, frames may run out | `NoProcessTwice`, `NoProcessLost`, `CurrentIsRunning`, `NoLostWakeup`, `WokenWaiterReaps`, `SavedNodesAreLinked`, `TypeOK`; `ReadyRuns`, `DelayEnds` |
| `processes_lifecycle` | 5 slots (3 forks), no delays, Exit of 0, 1 | `ImplementsLifecycle` |
| `kernel` | 2 processes, 1 terminal, buffer of 2, reads of 1 and 2, writes of 2 chunks, 3 bytes typed, 1 failed allocation, fork, exit and wait | `NoProcessTwice`, `NoProcessLost` with the terminals' traps; `ReadersAreServed`, `InputIsConserved`, `OneWriter`, `WritersAreWoken`, `TtyTypeOK` |
| `tty_live` | 3 processes, writes of 2 chunks | `WriteEnds`, `LockIsGranted` |
| `memory` | 12 frames, regions of 5 pages, 3 PCBs, 3 programs, from the boot on | `NoSharedFrame`, `FramesAccounted`, `KernelHeapIsMapped`, `BootIsIdentityMapped`, `OwnKernelStack`, `LoadedPagesStay`, `MemTypeOK` |
| `user_heap` | words of 2 bytes, headers of 4, pages of 8, 6 pages, 3 regions owned at once | `SanityHolds`, `BlocksAreOwned`, `FreeBlocksAreMerged`, `HeapIsMapped`, `ContentsSurvive`, `FailureChangesNothing`, `HeapTypeOK` |
| `user_format` | every combination of 6 sets of flags, 3 widths, 3 precisions, 4 ranks and 4 conversions, with edge values and buffers of 0, 3, 20 | `NothingPastBuffer`, `TruncatesOnly`, `TicksSeparate`, `ScanStaysInText`, `RoundTrip`, `FormatTypeOK` |
| `claim_waiting` | 4 slots | violated: `ReadyAtMostOnce` |
| `claim_orphans` | 5 slots, Delay(1) | violated: `ParentIsAllocated` |
| `claim_stuck` | 3 processes, writes of 2 bytes, 1 failure | violated: `WriterIsNotStuck` |
| `claim_stack` | 13 frames, 3 PCBs, 1 program | violated: `GrowStackReplacesNothing` |
| `claim_reap` | as `memory` | violated: `ReapedFramesAreFree` |

Why the bounds are enough. Two forked processes give every relation the code
distinguishes: two children of one parent, a child and a grandchild, a parent
that dies before its child, and with init a queue of length three. The case
that needs one process more, a grandchild that first runs after its parent was
reaped, is the instance of `processes_lifecycle` and `claim_orphans`. A buffer of two bytes is partly
full, full or empty; reads of one and two bytes are shorter than, equal to and
longer than what is there. One terminal is enough for the safety of terminals:
two of them share no state but the process queues. Three writers (`tty_live`,
`claim_stuck`) give an owner, a writer that was handed the lock and has not run,
and one that is still waiting. The liveness run of the terminals uses one length
because the length only changes how many times a loop is taken.

Twelve frames are one more than idle, init and a child need: every allocation
can be the last that succeeds, and each loop over pages can stop halfway. One of
the three programs leaves an unmapped page between text and data, one is larger,
so that an `Exec` can meet too few frames, and one does not fit and is refused
by `LoadProgram`. A heap that grows from four pages to
six has blocks before, between and after free ones, splits that do and do not
leave room for a header, and a request that the kernel refuses; the lengths are
one within a word, one that needs more than a page with its header, and one that
is too large for any heap. Sizes 0, 3 and 20 of a buffer are no room, a truncated
and a complete text; the values of a number are 0, -1 and the two around the
sign bit of its rank.

The runs `memory` and `user_format` end on purpose (`CHECK_DEADLOCK FALSE`): the
machine halts, a call is done.

Each property has a mutant: a change of one definition, of the kind a slip in
that code would be, under which TLC finds the property violated. The mutated
definitions stand before the ones they replace and are marked `Mutation` or
`Mutant`.

### Fairness

`Fairness` is weak fairness of the kernel's own steps, which run with
interrupts off and cannot be held up, and strong fairness of the clock trap:
the timer raises an interrupt at every period, and a pending one is taken when
interrupts are enabled, that is, whenever user mode is entered again. Nothing
is assumed of user programs: they may compute for ever. `KernelFairness` adds
strong fairness of each terminal's transmit trap: the device finishes a chunk
and its interrupt is taken when enabled. Nothing is assumed about typing, so
`TtyRead` is not claimed to return.

## 4. Findings

* `claim_waiting`: `Exit` wakes a parent whose `waiting_for_child_pid` is not
  zero, and it starts as -1. A parent that never called `Wait` is enqueued
  while it runs, sleeps in another call, or is a zombie.
* `claim_orphans`: a child stores its parent pointer at its first run, when the
  parent may have been reaped.
* `claim_stuck`: the failure path of `TtyWrite` releases the lock and also
  wakes the next writer, which then owns the terminal together with a third.
* `claim_stack`: `Fork` leaves the child's `user_stack_base_vaddr` at the top of
  region 1, so the child's first stack growth maps fresh pages over the stack it
  inherited and forgets the frames.
* `claim_reap`: `deletePCB` frees the page table and the kernel stack's table of
  a process under the comment "make sure we freed the frames used up", and
  nobody freed the frames: every child that is reaped leaves its frames in use,
  in no table.

Seen while modelling, and part of the models, but not stated as a run:

* `Exec` ignores `KILL` (`src/src/syscalls/process.c`), although `LoadProgram`
  has thrown the old program away by then (`src/src/kernel.c:403`).
* `LoadProgram` does not test `allocFrame`: without frames it stores the answer
  -1 in the 24 bits of an entry's frame number, far past the machine's memory.
* `Brk` that shrinks tests `pt_region0` instead of the process's own table and
  counts upwards; `Brk` and `SetKernelBrk` that fail keep what they mapped.
* The kernel heap may reach the two scratch pages below the kernel stack, which
  `CloneFrame` then unmaps.
* `LoadProgram` sets the start and the end of the heap to the first data page,
  although the comment on the assignment (`src/src/kernel.c:573`) says "Heap
  starts after end of data segment" and `src/src/include/proc.h:46` calls the end
  the "lowest not-in-use address". The pages of the data segment lie at or above
  the break: `Brk` skips them as mapped, and the stack may grow down to them.
* `Delay(-1)` passes the test of `src/src/syscalls/process.c:205`, which is off by
  one, and blocks the process for ever, against the message of the next line.
* A zombie whose parent was reaped is never reaped itself.

## 5. Proofs

The theorems about `Processes` hold for every `MaxProcs >= 2`, every set of
integers as `Ticks` and `Statuses` and either value of `FramesMayRunOut`; these
are the only assumptions (`MaxProcsAssumption`, `ArgumentsAssumption`). Those
about `Memory` hold for every number of frames, pages, processes and programs
under `MemoryAssumption`: the kernel's image lies below its stack with room for
the two scratch pages, a region has fewer pages than the machine has frames, and
a program's text ends before its data. Those about `Kernel` add any number of
terminals, any length of line, any lengths to read and write and any number of
failing allocations (`TerminalAssumption`; a read or write of length 0 returns
before anything else). Those about `UserHeap` hold for every size of word, header
and page under `UserHeapAssumption`: a header is a multiple of a word and not
longer than a page, a page is a multiple of two words, the memory ends at a page
and below half of what `size_t` counts, and a program is linked below that end.
`WidthAssumption` is what is used of powers of two, which the provers do not know.
Those about `Printf` and `Scanf` hold for every format and scan format, every
size up to `MEM`, the cells that are looked at, and every width of the integer
types, in the order of C (`PrintfAssumption`), of programs that pass the
arguments their format names (`[]ArgsMatch`, a hypothesis of the theorems);
`PowerAssumption` again is arithmetic the provers do not know: a power of two is
positive and grows with the exponent, and a `uintmax_t` has at most `MAX_BITS`
digits in base 8, 10 and 16.
TLC evaluates the assumptions in the runs.
Every inductive invariant below was checked with TLC on the instance of its run
before it was proved.

| Theorem | Property | Inductive invariant |
|---|---|---|
| `TypeCorrect`, `IterationIsSafe` | `TypeOK`, `SavedNodesAreLinked` | `TypeOK`; both together |
| `NobodyTwice`, `NobodyLost`, `RunningIsMarked` | `NoProcessTwice`, `NoProcessLost`, `CurrentIsRunning` | `PlacementInv` |
| `NoWakeupLost`, `WaiterReaps` | `NoLostWakeup`, `WokenWaiterReaps` | `WakeupInv` |
| `KernelImplementsLifecycle` | `ImplementsLifecycle` | `WakeupInv` |
| `TerminalsAreTyped`, `NobodyTwiceInKernel`, `NobodyLostInKernel`, `TerminalLock`, `NoWriterForgotten`, `NoReaderForgotten`, `NoByteLost` | `TtyTypeOK`, `NoProcessTwice`, `NoProcessLost`, `OneWriter`, `WritersAreWoken`, `ReadersAreServed`, `InputIsConserved` | `KernelInv` |
| `MemoryIsTyped`, `FramesNeverShared`, `EveryFrameAccounted`, `KernelHeapStaysMapped`, `BootMapsIdentity`, `KernelStackIsCurrent`, `LoadedPagesAreKept` | `MemTypeOK`, `NoSharedFrame`, `FramesAccounted`, `KernelHeapIsMapped`, `BootIsIdentityMapped`, `OwnKernelStack`, `LoadedPagesStay` | `MemInv` |
| `HeapIsTyped`, `HeapIsSane`, `UsedIsOwned`, `NoTwoFreeNeighbours`, `HeapStaysMapped`, `NoContentsLost`, `FailuresAreClean` | `HeapTypeOK`, `SanityHolds`, `BlocksAreOwned`, `FreeBlocksAreMerged`, `HeapIsMapped`, `ContentsSurvive`, `FailureChangesNothing` | `HeapInv` |
| `StaysInBuffer`, `OnlyTruncates`, `FormatIsTyped` | `NothingPastBuffer`, `TruncatesOnly`, `FormatTypeOK` | `FormatInv` |

`Processes_proofs` first says what the queue operations do: enqueue and dequeue add and
take away one process, `queueRemove` unlinks the first node that holds the
process (`QueueRemoveShape`), so that it keeps the type, adds nobody, and in a
queue without duplicates removes exactly that process. `IterateSurvivesRemove`
is the fact behind the clock trap: unlinking the node being visited leaves the
nodes still to visit at the end of the queue, even if the same process sits in
an earlier node. On top of that:

* `TypeCorrect`: `TypeOK` is inductive; one lemma per handler, with
  `KCSwitchType` and `SwitchToNextType` for the switch they end in.
* `IterationIsSafe`: `SavedNodesAreLinked`, inductive together with `TypeOK`.
  It needs no `Sane`: it holds after a wrong wake-up too, when the blocked
  queue may hold a process twice.

`Placement_proofs`:

* `NobodyTwice`, `NobodyLost`, `RunningIsMarked`: the properties
  `NoProcessTwice`, `NoProcessLost` and `CurrentIsRunning`. None of them is
  inductive alone, and they need each other: the clock trap re-queues the
  running process only if it is marked running, and it is marked so only if it
  is not among the orphans of a zombie. `PlacementInv` is the strengthening:
  `Ordered` (no queue holds a process twice), `Placed` (the CPU, the queues and
  the sleepers partition the live processes other than idle, which is never
  queued), `Running` (the running process is live and marked) and `Family` (a
  parent's pid is smaller than its child's; whoever is in the children queue of
  p has ppid p; slots are freed only after they were filled). `Family` gives the
  step `Wait` needs: the caller is not a child of its own child, so `deletePCB`
  does not mark it an orphan. `SavedNodesAreLinked` is part of it because the
  process the clock trap wakes must be in the blocked queue.
* The handlers that leave the CPU share `LeavePlaces`: it is enough that the
  handler has put every process but idle in exactly one place before it
  switches. Preemption is the same, because dequeuing first and enqueuing the
  running process afterwards leaves the queue as the other order does.
* The `Sane` in the three properties is carried as `Sane => Placement`;
  `FaultsGrow` says that a step never makes an insane state sane. The only
  places where it is used are the wake-up of a parent in `Exit` (which must
  find it asleep in `Wait`) and the reads of freed PCBs.

`Wakeup_proofs`: `NoLostWakeup` and `WokenWaiterReaps` relate what `Wait` saw
before its switch to what it finds after it. The invariant `WakeupInv` is
`PlacementInv` with, while the kernel is sane, five facts:

* `Kin`: the children queue of a process holds each child it has not reaped,
  once, and none that was freed;
* `Linked`: the parent pointer is null or the `ppid`, and it is the `ppid` from
  the child's first run on, as long as the parent exists. Without it `Exit`
  could not be shown to find the parent it must wake;
* `Contexts`: which resume points occur in which place (whoever is in the
  blocked queue sleeps in `Delay`, whoever is asleep was switched away in
  `Wait`), so a wake-up from the clock is no wake-up from `Wait`;
* `Sleepers`: a sleeper has a child, and no zombie of its own;
* `Woken`: whoever is to resume in `Wait` has a zombie of its own. Only its
  parent reaps a zombie, and this parent has not run since, so the zombie is
  still there.

Each handler has one lemma for the processes it moves (`...Leaves`, `...Effect`)
and one for the five facts (`...Wakes`).

`Refinement_proofs`: every step of `Processes` is a step of `ProcessLifecycle`
or leaves its state alone. `ClearLives` reads the life of a process off its
place; the lemmas then follow the mapping: `Fork` is `Spawn`, the first run of a
child is `Begin`, `Exit` and the faults are a death, the exit of init is the
shutdown, the two halves of `Wait` that find a zombie are `Reap` with its pid and
status, and everything else is invisible (`LeavingIsQuiet`, `ClockIsInvisible`).
That `Wait` fails only when no child is left is where `Kin` is needed, and that
its second half never fails is `Woken`.

`Terminals_proofs` is about `KernelSpec`, where the steps of `Processes` and
those of the terminals interleave. `KernelInv` is `PlacementInv`, the types with
what can be in a buffer (`StrongTypeOK`), `Served` and, while the kernel is sane:

* `Labels`: who sleeps in `Wait` was switched away there, idle in none of the
  calls, and a countdown belongs to a process in `Delay`. It is what keeps the
  two halves of the kernel apart: the clock wakes nobody from a terminal call,
  and no trap of a terminal wakes a process from `Delay` or `Wait`;
* `TtyWaits`: who sleeps in a call of terminal t is exactly where t looks for it
  (`QueuedAt`: `blocked_readers`, `blocked_writers`, `current_writer`), and the
  terminal is in use exactly if one process writes or was handed the lock
  (`Locked`). `OneWriter` alone is not inductive: that a writer handed the lock
  is the only one needs the queues to be right;
* `TtyInput`: the bytes that left the read buffer of t are those up to some
  number, and each is in the kernel buffer of one woken reader or delivered
  (`Conserved`), and only woken readers hold bytes (`Stash`).

Each step of `Processes` is shown once to leave sleepers in terminal calls and
those woken from them alone; the terminal steps are then proved one by one, by
who is blocked, who is woken and who moves a byte. `Served` needs no `Sane`.

`Memory_proofs`:

* `AllocFrame`: `allocFrame` for a set of pages hands out free frames, each to
  one page. It rests on ranks in a finite set of numbers being strictly
  increasing and reaching every number below the cardinality (`RankGrows`,
  `RankInjective`, `RankSurjective`); `AllocInterval` says that frames asked for
  while exactly an initial segment is in use have the numbers that follow it.
* `Owned` is the heart of `MemInv`: no frame is at two places, the frames in use
  are those of the image, those at a place and the forgotten ones, and the three
  are apart. `NoSharedFrame` alone is not inductive: freeing a frame that is
  also forgotten, or of the image, would let it be handed out while in use.
  Every handler that touches frames is shown to be one `Moved(released, lost,
  taken)`: a set of frames returned, a set forgotten, and a set of free frames
  placed, each once; `Moves` proves once that this keeps `Owned`, and `Counted`
  that `free_nframes` follows. `UserMoves`, `KernelMoves` and `CreationMoves`
  give that form for a change of a user's table, of the kernel's and for a new
  PCB, and `DeletionMoves` for a PCB that `Wait` deletes, whose frames all move
  from their places to the forgotten ones. `Numbered` says that PCBs have
  numbers below `slots`, so that a new child meets no old PCB, and that the
  running process exists and has not exited.
* `Identity` and `BootStack` are the boot: until the first PCB exactly the
  frames below the break are in use, so the lowest free frame has the number of
  the page that asks for it, and nobody takes the frames of the boot stack
  before `CreateIdlePCB` does.
* `Tidy` is what `LoadedPagesStay` needs. A page between heap and stack can be
  mapped, since `Brk` that shrinks frees nothing; but above the break no mapped
  page follows an unmapped one up to the stack, and `growStack` runs only for an
  unmapped page, so what it maps was unmapped. It ends with the exit of the
  process: a growth that ran out of frames gives back what it took, and the dead
  process keeps the hole.
* `LoadedPagesAreKept` is an action property, proved from `MemInv` by one step
  per action.

`UserHeap_proofs`. Each operation on the list of blocks is described by what it
does to three things: the tiles (`Tiled`: the blocks lie end to end from start
to end, and none uses more than it has), the free neighbours (`NoFreePair`) and
the set of blocks in use (`Used`). So `TakeBlockFacts` says that a free block
that is split or taken whole leaves the tiles and adds one block in use,
`AbsorbedFacts` that `realloc` next door replaces one, `FreedFacts` that `free`
removes one, `MergeLastFacts` and `GrownFacts` that a heap that grows keeps them.

* `GarbageCollectFacts` is about lists of any length. `garbage_collect` is a
  recursive function on prefixes, and the induction is a least counterexample
  (`Least`, from the well-foundedness of the naturals): a least prefix whose
  pass is not tiled, has a free pair or other blocks in use. That the function
  exists is `PassExists`, by the same argument.
* `HeapInv` adds to the three that the used blocks are the regions owned
  (`Owns`), that the kernel's break is the library's rounded up to a page and
  that the heap ends at or below it. `BlocksAreOwned` needs the tiles: that
  `free` and `realloc` find the block the program means is that no other block
  holds the address (`FindUsed`), and that `malloc` returns a new address is
  that used and free blocks lie apart. `ContentsSurvive` needs all of it: what
  the program has in a block is at most what the block uses, this at most its
  size, which is less than the size asked for.
* `FailuresAreClean` is an action property: an outcome of `malloc` without an
  address is the state before the call (`MallocFacts`), and `brk_unlocked` that
  fails moves nothing (`BrkFacts`).

`Printf_proofs` compares the two calls after every character they emit.

* `InStep` is the relation: both have counted the same, what the limited one
  holds the other holds too, nothing lies at `n` or beyond, and in each `q` is
  `o` while there is room and never beyond it (`Writer`). The last part is what
  `NothingPastBuffer` lacks to be inductive: `EMIT` tests `o` and writes at `q`.
* `EMITInStep` is one character, `EmitAllInStep` a text of any length, by a least
  counterexample as for the heap, `PutNumberInStep` the digits that `format_int`
  writes from the right, and `format_intInStep` the three and the pointer the
  caller advances by the length returned, room or not. `TerminateCuts` turns
  `InStep` into what `TruncatesOnly` says.
* The rest shows that what is emitted is a text with a length: the digits a value
  needs exist in every base (`NDigitsFacts`), tick marks have a group to divide
  by because at least one digit is printed, and a conversion yields a value of
  `uintmax_t` for every rank (`IntegerArgumentFacts`, `FieldFacts`,
  `PaddedStringFacts`).
* Scanning leaves the print alone (`StepFacts`), and each conversion that counts
  has stored (`ConvertFacts`), which `FormatIsTyped` needs.

## 6. Left to TLC

Liveness (`ReadyRuns`, `DelayEnds`, `WriteEnds`, `LockIsGranted`) is out of the
prover's reach. `TicksSeparate`, `ScanStaysInText` and `RoundTrip` are
model-checked only. They are about which characters stand in a text, not how
many: `RoundTrip` is that the digits `format_int` writes, multiplied up again by
`strntoumax`, are the value, an induction over digits with powers and remainders
of two variables, which the provers do not do. `ScanStaysInText` and
`TicksSeparate` hold of texts without a NUL that fit in `MEM` cells, as all texts
of the run do; beyond that the model does not say what the text is.
All other properties of the passing runs are proved.

## 7. Not modelled

* The TLB: when it is flushed is a matter of the machine. The kernel flushes by
  page number where the register takes an address (a hazard in `PROJECT.json`).
* The `malloc` of the frame table (`src/src/init.c:86`). The model takes it that
  this memory comes from the pages the kernel was loaded with. If it needed
  more, `SetKernelBrk` would read the frame table through a null pointer, and
  `InitializeVM` would leave the new pages unmapped; what the machine's `malloc`
  finds below the first break is not in the repository.
* Failing allocation of queue nodes and PCBs; `queueEnqueue` drops the process.
* The trap vector and the registers written at boot; their order has no effect
  on the modelled state.
* Two terminals at once, and three writers with a failed allocation outside
  `claim_stuck`.
* Pipes, locks, condition variables, optional calls: no code behind them.
* User contexts, file contents, argument vectors: data no property is about.
* Strings and character classes of the user library: short loops and tables
  without state, apart from the position that `strtok` keeps.
* `src/sample/new_heap.c` is an earlier copy of the allocator that is modelled.
* The Yalnix machine, its headers and the system-call stubs: external, modelled
  by their use.

## 8. Plan

1. Done: `Queues`, `Processes`, the lifecycle refinement, `Terminals`, `Kernel`,
   `Memory` with the boot and the kernel heap, `UserHeap`, `Printf` and `Scanf`,
   with every safety property of the kernel, the heap and the buffer proved.
2. `LinkedQueue`: nodes and pointers of `queue.c`, with failing allocation,
   refining `Queues`.
