# ParanukOS: a TLA+ verification project

ParanukOS is a single-core x86-64 kernel in Rust with its own UEFI bootloader. This directory models
its boot path, its memory management and its scheduling in TLA+, checks the models with TLC on small
instances and proves almost every safety property with TLAPS for every value of the constants.
Paths below are relative to the repository.

## 1. The system

| part | source | role |
|---|---|---|
| bootloader | `src/main.rs`, `src/bootloader/` | loads `KERNEL.ELF` and `USER.ELF` by program header, allocates stack and `BootInfo`, leaves boot services, jumps |
| image checks | `crates/kernel-image` | ELF header, segment bounds, overlaps, entry, span |
| BootInfo | `crates/boot-info` | the structure handed over, exit codes |
| memory map | `crates/kernel-memory/src/map.rs` | reads the UEFI map |
| page tables | `paging.rs`, `user_map.rs` there | identity map with partial blocks, user mappings above it |
| frame allocator | `frame.rs` there | two bitmaps and a counter |
| heap | `heap.rs` there, `crates/kernel/src/heap.rs` | first-fit free list in address order |
| memory set-up | `crates/kernel/src/memory.rs` | installs the tables, starts the allocators |
| scheduler | `crates/kernel-sched` | thread table, ring of ready threads, round robin; no machine code |
| threads | `crates/kernel/src/thread.rs`, `sched.rs` | stacks, frames, creation, the interrupt handler, reaping |
| machine | `idt.rs`, `pic.rs`, `gdt.rs` there | interrupt entry, timer, `TSS.rsp0` |
| user service | `user.rs` there, `crates/user`, `crates/user-lib` | one CPL 3 thread that makes one call |
| boot sequence, self-check | `main.rs`, `self_check.rs` there | creates everything, waits, checks, finishes |
| locks | `lock.rs` there | interrupt-disabling critical sections and spin locks |
| output | `serial.rs`, `logging.rs` there, `src/bootloader/block_io.rs` | ports and console |

They interact along the boot path: the loader's `BootInfo` and memory map feed the page tables and the
frame allocator; the allocator feeds the heap, thread stacks and the user stack; the timer interrupt
drives the scheduler, whose decisions `switch_to` carries out; the boot context creates threads, waits
until they are gone and finishes.

## 2. Modules

| module | models | state, and what one step is |
|---|---|---|
| `SchedulerOps` | `crates/kernel-sched/src/lib.rs` | pure operators on the struct: `Enqueue`, `Dequeue`, `Rotate`, `Create`, `ExitCurrent`, ... each returns the new struct and the result |
| `Scheduler` | calls of those methods | `sched`; one action per public method that changes it. Each call runs in a `critical()` section, so it is one step |
| `RoundRobin` | the abstract FIFO scheduler | a sequence of ready threads, the runner, the idle thread, exited threads |
| `Kernel` | threads on the CPU | the scheduler struct, the slots of `thread.rs`, whose registers and XMM state are in the CPU, `rsp0`, free stacks, where `kernel_main` is. One interrupt, or one critical section, is one step |
| `MemoryMap`, `Paging`, `Frames` | `map.rs`; `paging.rs` and `user_map.rs`; `frame.rs` | operators and the allocator's variables; addresses are counted in pages |
| `Memory` | `memory.rs`, `user::init` | composes the three: install, init region by region, heap, the frame self-check operation by operation, alloc, free, user mapping |
| `Heap` | `crates/kernel-memory/src/heap.rs` | an arena of words with the real headers in it; `alloc` and `dealloc` are steps |
| `Locks` | `lock.rs` and the interrupt flag | `IFlag`, the flag in each waiting thread's frame, `HELD`, each lock's flag, the guards on each stack. One access to one of them is one step; an interrupt is one step. Any thread may run any program that takes one lock at a time |
| `KernelMain` | `main.rs`, `self_check.rs`, `user::init` | the variables of `Locks`, the scheduler struct, free pages, the next instruction of `kernel_main`, a label per worker thread, the statics of `self_check.rs`, the clock, the PIC's in-service bit. Composes `SchedulerOps` and `Locks` |
| `Loader` | `kernel-image`, `fs_loader.rs`, `handoff.rs` | owner and content of every page and byte; one page allocation, one segment copy, one look at the magic is one step |
| `SchedulerInv`, `SchedulerOpsProofs` | | what the proofs say of a scheduler struct, and the lemmas about the operators, for the three modules that use it |
| `SchedulerProofs`, `KernelProofs`, `MemoryProofs`, `HeapProofs`, `LoaderProofs` | | theorems about the module of that name; `MemoryProofs` covers `Paging` and `Frames` too |
| `KernelStepsProofs`, `KernelMainProofs` | | theorems about `Locks`, and the steps of `KernelMain` as far as the locks are concerned; then the theorems about `KernelMain` |
| `MC*` | | values for the constants |

Where a definition has a *mutated form* next to it, that form is a plausible mistake in the same code;
replacing the definition by it makes the property it is kept for fail.

### How the code's control appears

* `Kernel`: an interrupt gate clears IF, so `irq_handler` (reap, branch by vector, `switch_to`) is atomic.
  `thread::create` is not: registering, allocating the stack and filling the slot are three steps, because
  interrupts are on between them. `sched.current` (what the scheduler believes) and `cpu` (whose registers
  are loaded) are different variables; a saved `rsp` of 0 means that `irq_common` stays on the current
  stack, and a pointer to a frame that has been popped is `Stale`.
* `Memory`: `free_frames` stops at the first frame it cannot free and keeps the earlier ones freed.
  `map_user_region` writes the root entry's U/S bit before its later checks, as the code does. A failure
  ends in the stage `failed`, where the kernel finishes.
* `Heap`: sizes and links are read from the arena, so whatever an earlier block left there matters.
* `Locks`: `CriticalSection::enter` is two steps, reading IF and clearing it, and `lock()` two more, the swap and
  the count, so that the timer can strike between any two. A handler that needs the frame allocator's lock for
  a reaped stack and finds it taken is `stuck`: nothing can ever release it.
* `KernelMain`: what `kernel_main` does in a fixed order is data, `BootCode`, a sequence of instructions put
  together per function (`SetupCode`, `PreemptCode`, `MutexCode`, ...); each kind of instruction is one action,
  and an early return jumps to `finish`. A waiting loop ends when its condition holds, or times out at any
  moment before. The worker programs are one action per shared access. Ticks are not counted: `age` is the number
  of ticks since the last reading of the clock that something is compared with. The ring buffer of the scheduler is
  turned so that its head is slot 0 (its position is not observable), and the tick that would switch to a
  half-made thread, the subject of `create_race`, is left out.
* `Loader`: `page_range` wraps as the release build does. Pages of a failed load are not given back.

## 3. Runs

Passing runs:

| run | shows | bounds |
|---|---|---|
| `scheduler` | ring and table agree, one runner, idle thread kept, no reaping of the current thread, refinement of `RoundRobin`, every ready thread runs | four slots: the table fills up, the ring wraps; counters modulo 2 |
| `kernel` | machine and scheduler agree on who runs, every waiting thread can be resumed, stacks are neither lost nor shared, `rsp0` belongs to the running user thread, the CPU never runs on a free stack, exited threads are reclaimed and created ones run | five slots: boot, idle, three more; a stack for each. Counters are dropped (modulo 1), nothing here reads them |
| `kernel_scarce` | stacks stay accounted for when memory runs out and creations fail half-way | three stacks for the idle thread, workers and service: whoever comes after two others is left without |
| `memory` | the frame self-check stops no healthy kernel, exact free count, no frame handed out twice or outside conventional memory, first fit, correct identity map, every allocatable frame mapped, CPL 3 sees only its pages | tables of three entries, blocks of three pages; 648 combinations of kinds, borders and reserved ranges, with borders on, before and behind block and limit borders; seven user images: on either side of the stack, in need of too many tables, outside the user range, missing |
| `heap` | blocks tile the arena, list sorted and merged, payloads fit, statistics exact, refusals justified, bad frees refused | 18 words: up to four blocks, with and without gap and tail; sizes 0, 1 and 3 and alignments 1, 2, 3, 4 and 8 with `MAX_ALIGN` 4, so that requests are refused and a gap is split off |
| `loader` | only own pages written, images intact until the jump, consistent hand-over, no failure without a reason | twelve pages of two bytes, two segments, about a thousand image pairs, four firmware states, one stray write more than repairs |
| `self_check` | a lock is never taken when somebody asks for it, `HELD` counts the running thread's locks and nobody else has one, IF follows the guards, the self-check blames no healthy kernel, exit value OK means that every thread is gone with its stack and preemption works, without preemption it is step 3 that says so, the report is undisturbed | two lock workers, two appenders of two rounds, waiter, setter, service, boot and idle: every step has two threads to mix up, and the eight slots are just enough for boot, idle and all six workers; preemption on and off; 474,370 states |
| `self_check_verdict` | with preemption `kernel_main` halts although no budget has to run out | as above with one appender of one round: liveness needs no order |

Runs that end in a counterexample, each against a line of the repository (quoted in `PROJECT.json`):

| run | disagreement |
|---|---|
| `create_race` | a tick inside `thread::create` selects a thread whose `rsp` is still 0; scheduler and CPU part ways |
| `create_failure` | a creation that fails for want of a stack leaves a queued thread without one |
| `heap_stale_header` | `dealloc` accepts an old pointer whose stale header lies in an absorbed tail |
| `user_stack_leak` | `kernel_main` reports OK with the user stack's pages still taken, where `user_mode.md:227` has the frame count return to its pre-service value |

The consequences of the first two reach further than the property they are stated against. A thread that exits
and is switched to a thread with `rsp` 0 stays on the CPU, and the next interrupt frees the stack under it.

`OkMeansDone` asks for the stack of every thread, and leaves the pages of the service's user stack to the
`FramesReturn` of `user_stack_leak`.

Disagreements without a run of their own:

* `threads_and_scheduling.md:369` takes any order but `012012...` in step 2 for a fault, and line 375 a waiter that saw
  no tick in step 4 for a stuck clock. The threads of both steps are preemptible. A tick before an append, between an
  append and its yield, or between the creation of two workers makes step 2 fail on a correct kernel, and a waiter that
  is preempted before it reads the clock makes step 4 fail. TLC reaches both, so `NoFalseAlarm` excuses the two
  failures when such a tick has struck (the history variable `disturbed`), and only then.
* `threads_and_scheduling.md:308` sends the CPU to the idle thread when the queue is empty; `rotate` keeps the current
  thread, and its comment says why. `RoundRobin` follows the code.
* The comment of `USER_STACK_VA` (`user.rs:18`) says that the stack avoids the image. That holds for an image without
  holes that is linked at `USER_BASE`, because the loader takes at most 256 pages (`fs_loader.rs:30`). Nothing checks
  the link address or the span of an image with a hole; one that reaches the stack's address is mapped, and the stack
  replaces its pages there.
* The comment of `register_boot` (`crates/kernel-sched/src/lib.rs:140`) promises `InvalidId` on a repeated
  registration, and the code checks only the range. The kernel calls it once.

### Assumptions of the runs

* `kernel` sets `TICK_IN_CREATE = FALSE`: no tick falls between registering a thread and filling its slot.
  The code does not guarantee this; `create_race` shows what happens otherwise. The run says what holds
  as long as the gap is not hit. `kernel_scarce` and `self_check` leave the same tick out. With it even
  `StacksAreAccountedFor` fails, as does the stack under the CPU.
* `self_check` takes the canaries to be intact, and leaves out ticks between a failed check and the guard of
  `finish`, where the boot context looks at nothing any more.
* `heap` lets callers free what they hold, or any offset outside live blocks (double frees, foreign
  pointers into free memory); `heap_stale_header` drops the restriction. `GlobalAlloc`'s contract forbids
  such frees; the crate promises to refuse them.
* `loader` takes from the linker scripts that the kernel is linked where it is loaded and that the user
  image has one displacement and no page left out (`LinkedAssumption`). The loader checks neither. Its images
  stay below the last page of the address space, where `page_range` wraps to an empty range.
* `memory` takes from UEFI that regions do not overlap (`MapsAssumption`), that the user image lies in
  loader data, and that it is apart from the stack.
* `scheduler` takes from the kernel that boot is registered once, and that nothing exits before the idle
  thread exists nor the idle thread itself.

### Fairness

`Scheduler`: weak fairness of a tick with preemption. The PIT is periodic and every handler acknowledges
and returns with the interrupted IF. `Kernel`: weak fairness of the timer interrupt, and of the two steps by
which the boot context completes a creation when it has the CPU. No fairness is assumed of yields, exits or
calls of the service: a thread may spin for ever. `KernelMain`: weak fairness of the tick and strong fairness of
the steps of threads, because a tick may disable the step that was about to happen but a slice of ten milliseconds is
long enough for one. A timeout is never forced, so the verdict has to come from the threads.

## 4. Proofs

All theorems hold for every value of the constants that the named assumptions (`ASSUME`) of the modules allow. Where
a theorem needs more, it says so in a hypothesis, and each hypothesis is met by the constants of the run that
checks the same property. The table gives theorem and property; the inductive invariants are explained below it.

| module | theorem | property | hypothesis |
|---|---|---|---|
| `SchedulerProofs` | `QueueCorrect`, `OneRunner`, `IdleCorrect` | `QueueIsReadySet`, `OnlyCurrentRuns`, `IdleStaysAvailable` | |
| | `ReapIsSafe` | `NeverReapCurrent`, an action property | |
| | `RoundRobinImplemented` | `ImplementsRoundRobin`, the refinement of `RoundRobin` | |
| `KernelProofs` | `StacksCorrect` | `StacksAreAccountedFor` | `NoTickInCreate` |
| | `CpuCorrect`, `ResumeCorrect`, `Rsp0Correct` | `CpuFollowsScheduler`, `ReadyThreadsAreResumable`, `Rsp0BelongsToUser` | `NoTickInCreate`, `EnoughStacks` |
| `KernelStepsProofs` | `NobodySpins`, `HeldIsExact`, `GuardsRestore` | `NeverSpins`, `HeldCountsOwnLocks`, `FlagFollowsGuards`, of `LockSpec` | |
| `KernelMainProofs` | `KernelMainLocks` | the three above, of `KernelMain`, which `LocksImplemented` shows to be a program `Locks` allows | |
| | `ReportStandsAlone`, `NoPreemptionIsToldSo` | `ReportIsUndisturbed`, `NoPreemptionIsNoticed` | |
| `MemoryProofs` | `FreeCountCorrect`, `NoFrameTwice`, `OwnFramesOnly`, `ScanFindsFirstFit`, `SelfCheckCorrect` | `FreeCountIsExact`, `HeldFramesAreUsed`, `OnlyOwnFrames`, `ScanIsFirstFit`, `SelfCheckPasses` | |
| | `IdentityMapCorrect`, `FramesMapped` | `IdentityMap`, `FramesAreMapped` | |
| | `UserIsConfined` | `UserSeesOnlyItself` | `ImageMissesStack` |
| `HeapProofs` | `ArenaIsTiled`, `ListStaysMerged`, `RefusedForLackOfRoom`, `RefusalsChangeNothing` | `BlocksTileTheArena`, `ListIsSortedAndMerged`, `RefusedMeansNoRoom`, `BadFreesAreRefused` | `NoFreeInside` |
| `LoaderProofs` | `WritesOwnPages`, `LoadedImagesStay`, `GoodImagesAreLoaded`, `HandoffCorrect` | `OnlyOwnPagesWritten`, `ImagesStayLoaded`, `GoodImagesLoad`, `HandoffIsConsistent` | `NoWrapAround` |

### The hypotheses

* `NoTickInCreate`: the timer does not strike inside `thread::create`. `create_race` shows that nothing of this
  holds otherwise. `EnoughStacks`: as many stacks as thread slots, one for every thread but the boot context and one for
  the service's user stack, so that no creation fails half-way and leaves a thread without a stack; `create_failure`
  shows such a thread. `StacksCorrect` does without.
* `ImageMissesStack`: the user image ends below its stack or begins behind it (see the disagreements above).
* `NoFreeInside`: nobody frees a pointer into a live allocation that is not its start; `heap_stale_header` drops it.
* `NoWrapAround`: no segment reaches into the last page of the address space, where `page_range` wraps.

### The invariants and why they are needed

* **Scheduler.** `SchedInv` conjoins type, queue, one runner and idle, with "the table is empty before the boot
  context is registered". None is inductive alone: that `Enqueue` finds room needs the queue to hold ready threads only
  and the runner not to be among them; that `Dequeue` yields a ready thread needs the queue to be exact. The
  argument goes through `QueueHolds(s, R)`, what the ring contains independently of the table, so that enqueue and
  dequeue are treated once, also in the middle of `Rotate`; the modular index arithmetic is isolated in `RingIndex`
  and `TurnInjective`. The refinement compares the sequence that the ring spells, `ReadyQueue`, before and after each
  operation.
* **Threads.** `StackInv` says that each stack is in one place (`Accounted`) and that the machine side of every
  complete thread is whole, unless a creation has failed, after which only the stacks are spoken of. `KernelInv`
  drops the exception. The parts take their arguments explicitly, because an interrupt handler goes through
  states that no step shows: the reaped table, the released slots, the saved context. The handlers'
  decisions are summed up once, in `Outcome`.
* **Locks.** `LockInv` describes the guards on the stack of each thread: in what order they were taken, which one
  found the interrupts on, and that a thread that is not running is in no section, or has only read the
  flag. That last part is what the three properties lack: it says that nobody is ever preempted inside.
* **kernel_main.** `MainInv` adds where in `BootCode` the boot context is and what the scheduler holds there, and that
  user code runs outside every section; with it each of the thirty-odd kinds of step is a step of `Locks`, or leaves
  its variables alone. `ReportInv` adds that past the guard of `finish` the boot context keeps it, `NoPreemptInv` that
  without preemption the boot context alone runs, so that nobody publishes the result for which step 3 waits.
* **Frames.** `FrameInv` holds together with `MarkedSoFar`, which says what the bitmaps contain while `init` goes
  through the map: allocatable frames come from a conventional region already visited and from no reserved range. The
  counter needs disjoint regions: a frame described twice would be counted twice. `CheckIsAway` adds that the
  frames which the self-check was given are not part of the heap, without which its frees would not keep the heap
  allocated, and `CheckedSoFar` what the self-check has found, operation by operation.
* **Page tables.** `MapInv` says which entries the tables hold, not how they came about: the identity map of the
  firmware's map (`HoldsIdentity`), nothing above it (`NothingAbove`), or the mappings of the service and nothing
  else (`HoldsUser`). One lemma each shows that `Build` and `MapUserRegion` produce this, and that a four-level walk
  then finds the page.
* **Heap.** `HeapInv` speaks of the set of free blocks instead of the list: the link of each leads to the next of
  the set, their headers and those of the allocations tile the arena. One lemma shows that the walk from `head` then
  meets exactly that set, in order, and no step needs the walk again. `NoEmptyHeader` accounts for the headers
  that freed and merged blocks leave behind: whichever the caller has not written over still has a size that `dealloc`
  can take. Allocation and insertion are proved over one picture, a stretch of the arena that is
  cut into blocks anew while everything outside keeps its words.
* **Loader.** `LoaderInv` follows `load` page by page (`Progress`), says that until both images are in memory the loader
  has nothing but their pages (`NothingElse`), and that stack and `BootInfo` are apart from them (`Apart`). The page
  arithmetic is isolated in lemmas on quotient and remainder.

Functions that are defined by recursion over data (the walk of the free list, `Scan`, `Build`) are unfolded by a least
counterexample: there is a table of the first n values for each n, for otherwise there would be a least n without.

### Only model-checked

* Liveness (`ReadyThreadsRun`, `ExitedThreadsAreReclaimed`, `CreatedThreadsRun`, `VerdictIsReached`): the prover
  handles neither fairness nor `ENABLED`.
* `StatsAccountForTheArena`: the statistics are sums over the list, whose value for lists of every length needs
  induction over a fold.
* `NoFalseAlarm` and `OkMeansDone` of `KernelMain`: they follow the contents of counters, rounds and tallies through every
  step of the self-check. Their invariant would restate the programs of all workers label by label.

## 5. Not modelled

* Register contents, frame layout and the stack canaries: data that no decision but the canary check reads.
* The exception handlers and `panic`, which print and stop; the programming of PIC, PIT, GDT and IDT, which is
  straight-line port and table output.
* `heap_self_check`: one fixed sequence of heap calls, of the kinds the `heap` run makes in every order, and a
  byte-wise read-back.
* ELF and descriptor byte layouts; console and serial output. The serial port has no lock, so lines of a handler and
  of the thread it interrupts may mix; no state depends on it.
* `block_io.rs`, `crates/user-lib` and the test scripts: no state.
* The fault-injection features other than `inject-no-preempt`.

## 6. Plan

1. Composition of `Loader` with `Memory`: the owners of pages become the memory map that boot reads, so that no
   page of an image is ever handed out.
2. Proofs of `OkMeansDone` and `NoFalseAlarm`, step of the self-check by step.
