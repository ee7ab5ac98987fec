# A TLA+ verification of rpi_kernel

`rpi_kernel` is a small multicore kernel for the Raspberry Pi 3: per-core ready
queues with priorities, hard affinity, push migration when a process is readied and
pull migration on the timer, POSIX-like threads, joins and semaphores, and the boot of the
secondary cores through mailbox interrupts. This directory holds TLA+ models of it,
the TLC configurations that check them and the TLAPS proofs about them. Paths below are
relative to the repository; `dispatch.c` stands for `src/c/kernel/dispatch.c`, and so on.

The kernel is modelled as `config.h` builds it: `SCHED_AFFINITY` and
`SCHED_PULL_MIGRATION` defined, one ready queue per core.

## 1. Inventory

Every core runs one user process and enters the kernel through an exception: a
system call (SVC) or the core's timer. `common_interrupt` (dispatch.c:233) saves the
stack pointer of `current`, runs the request with interrupts masked, and leaves through
`switch_to`. So the concurrency of the kernel is between cores, never inside one; the
cores share the ready queues, the wait queues, the process table, the counters and the semaphores,
under spinlocks (multicore.c:3) that protect some of the accesses and not others.

| component | state | operations | interacts with | what makes it correct |
|---|---|---|---|---|
| Scheduler (dispatch.c) | `ready_queue[c]` (4 lists, `length`, lock, `ticks_to_balance`), `running_list[c]`, the `state` of a process | `next`, `ready`, `sched_pickcpu*`, `sched_pull`, the timer and the scheduling system calls | everything that blocks or wakes | a process is in one place; none is lost; lengths are exact; affinity is respected; `next()` always finds one; no starvation |
| Threads (thread.c) | `waiting` list and lock of each process, process table, `live_procs`, `next_pid` | `proc_create`, `proc_join`, `proc_exit`, `get_process` | readies processes, sleeps on wait queues | sleepers are woken once and not lost; a terminated process never runs; `live_procs` is exact; exit ends |
| Semaphores (semaphore.c) | count, sleepers and lock of each semaphore, `ret` of a process | `__sem_init`, `destroy`, `wait`, `trywait`, `post`, `getvalue` | `sleep_on_locked`, `alert_on_locked_nr`, `ready` | tokens are conserved, no lost wake-up, the return value is the call's own |
| Wait queues (dispatch.c:184-230) | the list and lock of their owner | `sleep_on*`, `alert_on*` | threads, semaphores | the sleeper is off its core before it is readied |
| Context (context.c, vectors64.s) | the frame of each process, `ret` | `switch_from`, `switch_to`, save and load of the registers | every entry into the kernel | an interrupted program sees its own registers again |
| Process table (thread.c, list.h) | `process_list`, `process_hash`, their locks | insertion, lookup, removal | threads | the lists stay well formed |
| Boot (kinit.c:562-655, interrupts.c) | handler tables, mailboxes | `kernel_init`, `kernel_release_handler`, `kernel_start`, `register_interrupt_handler` | creates idle and root of every core | a core is released once, and after the tables are set up |
| Work queue (kinit.c:207-331) | `work_queue` (list, lock, `finished`) | `pooled_worker`, `perf_thread_pool` | user program, on top of threads | every unit of work is done once, the workers end |
| Sleep queue (sleep.c) | `sleep_queue[c]` of tick deltas | `proc_sleep`, `global_tick` | not called: `global_tick` is commented out and no request reaches `proc_sleep` | a sleeper wakes after its number of ticks |
| Spinlock (multicore.c) | a flag | lock, unlock | every shared structure | mutual exclusion |
| C library (cstubs.c below newlib; uart.c) | `heap_end`, the UART, `newlib_lock` | `_sbrk`, `_write`, `uart_putc`; `SYS_MALLOC`, `SYS_PUTS` | memory and pids of `proc_create`, the trace of `proc_exit` | allocations do not overlap, a text comes out whole, a failed creation does not stop the others |
| Other devices (gpio.c, mailbox.c, timer.c, peripheral.c), performance counters (perf.c), report and logs | device registers | pure I/O | | the part of it that other components wait for is modelled there, the rest is out of scope |

What is hard here:

* `ready(current)` publishes the running process in a queue, possibly of another core,
  while this core is still in the kernel with `running_list` pointing at it; the
  other core may run it at once.
* `sched_pickcpu` reads the lengths of all queues without their locks and uses the result
  later; `length` and the lists are two updates.
* `next()` takes and drops the lock once per priority.
* `proc_join` looks a process up, and sleeps on its wait queue later; `proc_exit` runs on
  another core meanwhile. `alert_on` holds a wait queue's lock while `ready` takes a ready queue's lock;
  `sched_pull` holds one ready queue's lock and would take another's.
* The timer stays pending while a core is in the kernel. Spinlocks are not fair.
* `_sbrk` reads `heap_end` and advances it in two steps, and a text is written character by character: only
  `newlib_lock`, taken by every caller on its own, keeps the cores apart. An error of `proc_create` is an endless loop.

The hazards, each at its line with the properties that cover it, are in PROJECT.json.

## 2. Plan

Modules, in the order they are written; each is checked and has its mutants before the next.

| module | models | state |
|---|---|---|
| `Dispatch` | the scheduler, the boot of a core, creation | checked, nine theorems |
| `AbstractScheduler` | every move of a process in one step; `Dispatch` implements it | checked and proved |
| `DispatchProofs` | the places of the processes, the locks and the lengths; then affinity, `next()`, the pull, the refinement | done |
| `Threads`, `ThreadsProofs` | join, exit and the process table as a set, on top of `Dispatch` | checked, nine theorems |
| `AbstractSemaphore`, `Semaphore`, `SemaphoreProofs` | an atomic semaphore; the six calls on top of `Dispatch`, which implement it | checked, six theorems |
| `Context`, `ContextProofs` | frame, `ret` and x0 across system calls and timer interrupts, on top of `Semaphore` | checked, two theorems |
| `WorkQueue`, `PoolProofs` | the thread pool program over its spinlock | checked, five theorems |
| `BootRelease`, `BootProofs` | from reset to the first tick: release through the mailboxes, handler tables | checked, three theorems |
| `ProcessTable`, `TableProofs` | the doubly linked lists pointer by pointer, the unlocked `list_del` of `proc_exit` | checked, five theorems |
| `Newlib`, `NewlibProofs` | the heap, the pids and the UART behind `newlib_lock` | checked, four theorems |

What is left: the result of a join (the exit status and `ret`), and the order of the loads and stores of the lists on AArch64, where
`ProcessTable` keeps program order.

`Threads` and `Semaphore` EXTEND `Dispatch` and call its operators, as the code calls
`ready` and `next`; the label to which `ready` returns is the variable `link`. `Context` EXTENDS `Semaphore`.
`ProcessTable`, `WorkQueue`, `BootRelease` and `Newlib` stand alone: the first is the detail below the set `table` of `Threads`, the second runs
in user mode above the scheduler, the third ends where `Dispatch` starts, and the fourth is what a creation does before it is `Create` of `Dispatch`.

## 3. The modules

### Dispatch

A core is a program counter `pc[c]` ("user", or a point of the kernel path), the locals
of the function it is in, and its `current`. One action is one shared access: between two steps
of a core every other core may run. `ready(p)` is `CallReady` (mark RUNNABLE, start the scan),
`PickInactive` (one iteration of `sched_pickcpu_inactive`, which reads one length without a lock),
`PickDecide` (the rest of `sched_pickcpu`), `ReadyLock`, `ReadyLength`, `ReadyAdd` (insert, unlock, return to
`link[c]`). `next()` is `NextLock`, `NextTake` or `NextMiss`, `NextRun`. The timer is `TimeSlice`, with
`PullBusiest`, `PullSkip`, `PullLock`, `PullScan` for `sched_pull`. A lock is its flag, and
a step that takes it is enabled when the flag is clear. The two updates inside a
critical section, of `length` and of the list, are two steps, because `length` is read outside.

Abstractions. The data of a process is its affinity set, its state and its priority. The affinity
set is a value: the code stores a pointer into the caller's stack, and a program that changes
the set behind the kernel's back is not modelled. `PTHREAD_CREATE` takes the set from a fifth
argument that `pthread_create` (syscall.c) does not pass, so any set may come out, the empty one included.
`ticks_to_balance` keeps its wrap-around modulo `TickMod`, which stands for 2^32.
Requests that neither schedule nor block (`PUTS`, `MALLOC`, `SET_TRACE`, `SELF`, `GET_AFFINITY`)
do not change the modelled state. In `PullScan` only the loop that pulls nothing is modelled: the theorem `PullsNothing` (`PullFindsNothing` is
its invariant) shows that the other branch is never reached. That the code pulls nothing is a disagreement with
its report, which `dispatch_pull_nothing` shows (section 5).

### AbstractScheduler

A process is nowhere, held by a core, or waiting for one, and each move is one step: `Create`, `Release`, `Take`; `Rebind` changes
its affinity. The mapping in `Dispatch` (`place`): a process is held by the core that runs it or carries it
through `ready`; else it waits for the core in one of whose lists it is; else it is nowhere. The process that a core still has as `current` after it
has inserted it in a queue counts as waiting: the moment it can be taken by another core is the insertion. `Placing` says that the
code implements this. So the scans, the locks and the two updates of a list and its length together move a process once and whole, to a
core of its set, and nothing but its own core takes it out, which pull migration would do if it pulled anything.

### Threads

Adds the wait queue of every process, its lock, the process table and the local of
`proc_join`. `JoinLookup` is `get_process` with its checks; `JoinLock`, `JoinSleep` are `sleep_on`; `ExitMark`,
`ExitCount`, `ExitLock`, `ExitAlert` (one waiter, through `CallReady` with return
label "exit_alert"), `ExitUnlock`, `ExitUnlink` are `proc_exit` in its order. Steps that touch
two of `waiting` and its lock are merged only where the lock is held.
A pid stands for its process; pids do not come round again. The memory of a process is never freed by the code.

### AbstractSemaphore and Semaphore

`AbstractSemaphore` has one action per effect of a call: take a token, fall asleep, keep a token, release
all sleepers, open, close. It is deliberately no counting semaphore: the code's post asks `alert_on_locked_nr` for one
sleeper and readies all of them, because `nr` is never counted down (dispatch.c:218).

`Semaphore` has the spinlock (`SemLock`), the body of each call under it, the alert as a loop that calls `ready`
for each sleeper with the lock held (`SemAlert`, return label "sem_alert"), and the write of `ret` after the
unlock as the steps from "sem_ret" and "sem_out". `usable` is what a program knows of a semaphore: POSIX leaves calls on
a destroyed semaphore undefined, so the programs of the model do not make them, while processes may still
sleep on it when it is destroyed. `__sem_destroy` leaves the lock set (semaphore.c:20), and `SemInit` clears it.
The refinement maps `sleepers` to the processes in the list that no post or destroy has decided to
wake: the decision is the atomic step, the loop that readies them comes after.

### Context

Adds `ret` and x0 of every process. `SwitchTo` stores `ret` in x0 of the process that leaves the kernel, also after a
timer interrupt, as context.c does. The history variable `due` holds what a process is owed when it comes
back; `Finds` compares. The other registers are saved to and restored from the same frame.

### WorkQueue

One process counter per worker and for the master, a user-level lock, list and flag. `Check` reads `finished` after the unlock.
Creation is a single step here: `Threads` has its detail. A join is `JoinLookup`, `JoinSleep` and `Joined`, and the end of a worker `Alert` and `Unlink`, in the order of `proc_join` and
`proc_exit`: the master may look a worker up, then the worker wake its waiters on another core, and then the master go to sleep for ever (thread.c:143, `JoinLost`). So the master need not
come to its end, and `PoolEnds` says what does hold: it ends, or it is lost in such a join, and nothing else stops it. That a look-up can also be led astray by the
removal of another worker is left to `ProcessTable`.

### BootRelease

One action per step of `cstartup`, `init`, `master_core`, `slave_core`, `kernel_init`, `kernel_release_handler` and
`kernel_start`. Interrupts are enabled in the main loop and masked inside the release handler, which never returns. A stage
"lost" is entered when an interrupt finds no handler. `newlib_lock` holds any value until core 0 has cleared the bss. After that it is taken for the greetings (`Greet`), for the
text of the release (`Announce`), for the memory of the idle and the root process (`CreateIdle`, `CreateRoot`; thread.c:43-46), and by the processes of cores that are already up, in system calls
(`CallLock`): all of these overlap, for a core may be in its first processes while another still greets. What `proc_create` does besides is in `Newlib`, `ProcessTable` and `Dispatch`; that
memory is found is assumed here.

### ProcessTable

`next` and `prev` of every `list_head`, by field and node (heads are negative, processes positive, NULL is 0). One action is one
store; a load is one step with the step it belongs to. `list_add` is `AddRead`, `AddNextPrev`, `AddNewNext`, `AddNewPrev`,
`AddPrevNext`; `list_del` is `DelRead`, `DelNextPrev`, `DelPrevNext`, `Poison`. `proc_create` holds
both locks, `get_process` the hash lock, `proc_exit` none. The two loads of `list_del` are one step, and so are its two
last stores. Loads and stores take effect in program order, which AArch64 promises less than: the model shows what goes
wrong even so. `raced` remembers that a removal has overlapped
another access; the properties that need the lists to be whole hold until then. A walk that is led to NULL
stays there with the lock held, as the fault handler, which loops, would leave it.

### Newlib

newlib itself is not in the repository and is modelled from its use: a `malloc` is one `_sbrk`, because nothing is ever freed (the
`free` of thread.c:199 is commented out), and a `printf` is `_write`, `uart_write` and a `uart_putc` per character, its buffer left out. Each
caller takes `newlib_lock` first (`Lock`). `SbrkRead`, `SbrkBump` are `_sbrk` in two steps; `proc_create` goes through them twice, for
the process and for the stack, and does so even if the first fails (thread.c:44-46); `Unlock` and `AfterUnlock` are the unlock and what
follows: the endless loop of a creation without memory (thread.c:49) or of an unknown request (dispatch.c:487), or the pid. `PidAlloc`
is the atomic increment of `next_pid`, which starts at 1 (thread.c:3), `PidTest` the second read (thread.c:58). `PutcWait`, `PutcSend` are the two halves of `uart_putc`, and
`Transmit` is the device. The UART holds one character, the smallest FIFO that can be full; a character stored in a full one is lost.

### The MC modules

Each extends one module. `MCThreads` and `MCProcessTable` define the symmetry of the threads and of the cores, which no operator tells apart; neither of their
runs has a liveness property.

## 4. The runs

| run | question | bounds |
|---|---|---|
| `dispatch` | every process in one place, none lost, locks exclude, lengths exact, affinity respected where a process is queued; every move is one of `AbstractScheduler` (`Placing`); every readied process runs | 2 cores, 1 thread, all four affinity sets, ticks modulo 3 |
| `threads_safety` | with joins and exits: `next()` never NULL, wait locks exclude, no circle of spinning cores, sleepers, zombies, `live_procs`, no thread lost | 2 cores, 2 threads that join each other |
| `semaphore_safety` | a sleeper never misses a token, no process is lost or in two places, the lock excludes, every call is atomic (`AbstractSemaphore!PulseSpec`) | 2 cores, 1 thread and the roots, 1 semaphore, count up to 1 |
| `semaphore_liveness` | a sleeper that is alerted runs | 2 cores, the roots |
| `pool` | the lock excludes, no work lost or done twice; the master ends last, and ends unless a late join loses it | 3 workers, 6 pieces of work |
| `boot` | no interrupt lost, nothing used before its set-up, sections of `newlib_lock` exclusive; every core starts its first process | 4 cores, as on the board |
| `table_safety` | the lists pointer by pointer, one entry at a time, no live process hidden, no store through NULL | 2 cores, 3 processes that all may end, 1 bucket |
| `newlib` | allocations and pids apart, the heap never exceeded, texts whole, and every call ends although other cores are in an error loop | 2 cores, a heap of 8 cells, processes of 1 and stacks of 2 cells, pids 0 to 3, texts of 2 characters |
| `dispatch_pull_nothing`, `threads_join_lost`, `context_ret_race`, `pool_work_left` | each finds one disagreement of the code with its comments or its report (section 5) | the smallest instance that shows it |

Why the bounds are enough. Each core also has its idle and its root process, so 2 cores and
2 threads are six processes and up to five in one queue. Every interaction of the code is
between two cores (a lock holder and a waiter, a sleeper and a waker, a busy and a
pulling core, an insertion and a removal); more cores, threads and semaphores are covered for the invariants and refinements
of the proofs by the theorems, which hold for every number of them. `ClockDivd` and
`TickMod` are small so that the balancing happens, both in step with the wrap-around of the first tick and
after it. One semaphore with a count of at most 1 (`MaxCount`) has a post with and without sleepers, a wait with and without
tokens, and all of them overlapping. `MaxPid` is 3 so that a list has a first, a middle and a last entry; one bucket makes them share it, which is
the harder case. In `newlib` the heap has room for two processes and two
more cells, so that either `malloc` of a creation can be the one that fails, and `PidMod`, 4, is the least the assumption `NewlibPids` allows: the board has 2^28 bytes
of heap (linker.ld:79-82) and 2^32 pids. `TextLength` 2 has a first and a last character.
`Context` has only the run that violates: that each call finds its own result on one core, and on more but for the late write the run shows, is proved for all
constants (`ResultsOnOneCore`, `ResultsTimely`).
`TickMod`, `MaxCount`, `MaxPid`, `HeapSize`, `PidMod`, `TextLength` and the numbers of threads, workers and pieces of work are the only bounds: nothing else grows.
The type invariants of `Threads`, `Semaphore`, `WorkQueue` and `Newlib` are defined beside their modules and hold; the runs keep to the properties that say more.

Deadlock is checked in the runs of `Dispatch`, `Threads`, `Semaphore` and `Context`, where some core can always move. The pool and
the boot come to an end, and in `ProcessTable` no process may be left to create, or a core that has been led to NULL may keep the hash
lock for ever; in `Newlib` all cores may end in the endless loops that stand for an error: these runs say `CHECK_DEADLOCK FALSE`.

Fairness. `FairSpec` and `SemaphoreFairSpec`: weak fairness of the steps a core takes in the
kernel with interrupts masked; strong fairness of taking a spinlock, since another
core may take and release it again and again and `__sync_lock_test_and_set` in a loop (multicore.c:4)
promises nothing by itself, so that the liveness results hold on hardware that arbitrates the exclusive access;
strong fairness of leaving user mode by a rescheduling: the timer interrupt stays pending and only a
rescheduling rearms it (dispatch.c:449), so a process that makes other system calls
all the time is preempted still. No fairness is assumed of a program's calls. `PoolFairSpec`: every process gets its time slices, which is what
`Scheduled` of `Dispatch` shows, and the user-level lock is fair. `BootFairSpec`: a core that can go on does, in its own code or by taking its release, and the lock is fair to a core in its boot, though processes of other
cores may take it again and again; nothing is asked of the timer and of the processes' calls. `NewlibFairSpec`: a core
goes on inside a call (interrupts are masked there), `newlib_lock` is strongly fair, and the UART transmits what it holds.

## 5. What the code does otherwise than its comments say

Four runs with `expect: violation`, each with the line it contradicts in PROJECT.json:

1. `dispatch_pull_nothing`: a core that scans a longer queue pulls nothing from it, though a process in it may run here (dispatch.c:139). `sched_pull` gives its loop the array of lists for
   a list, and so walks the first, that of the idle process, only. The report says of it that "an idle core will search for an overloaded core and pull eligible processes
   from the tail of its queue" (main.tex:201), and that its impact "is immediately evident" in the measurements (main.tex:387). `PullTakesEligible` takes the code's own test of the load,
   a queue at least twice as long as that of the core. By the theorem `PullsNothing` no pull ever finds a process.
2. `threads_join_lost`: a join can sleep for ever on a process that has already woken its waiters (thread.c:143).
3. `context_ret_race`: `__sem_wait` writes `ret` after the unlock, and can overwrite the result of a later call of the process (semaphore.c:43).
4. `pool_work_left`: all workers of the pool can exit and leave work behind (kinit.c:236).

Seen in the code and modelled as it is, with no run of its own:

* `SCHED_SET_AFFINITY` tests the wrong way round: a process no longer eligible stays until the next tick (dispatch.c:326).
* `ticks_to_balance` starts at 0 and is decremented before it is tested, so the first balancing comes after 2^32 ticks (dispatch.c:275).
* A core whose own queue is empty would pull nothing either, if the loop were right: the test divides by its length, and AArch64 divides by zero to zero (dispatch.c:140).
* `next()` can hand out the idle process while a MED process waits in the queue (dispatch.c:47).
* A post wakes all sleepers of a semaphore (dispatch.c:218); `AbstractSemaphore` is made that way.
* `__sem_destroy` leaves the lock of the semaphore set (semaphore.c:20); a call on a destroyed semaphore would spin, and no program of the model makes one.
* `get_process` can be led to NULL by a removal that takes no lock (thread.c:196); `ListsRight` of `table_safety` speaks of the time before the first such overlap.
* `proc_create` gives up with EAGAIN when another core has just brought `next_pid` round to 0 (thread.c:58); `PidsApart` shows that the heap is used up long before.
* A timer interrupt replaces x0 by the result of the last system call (context.c:23).

## 6. What is proved

`DispatchProofs` proves for every number of cores, every set of threads and masks, and every tick range:

| theorem | says |
|---|---|
| `DispatchTypeCorrect` | `Spec => []TypeOK` |
| `ProcessInOnePlace` | `Spec => []OnePlace` |
| `NoProcessLost` | `Spec => []NoLostProcess` |
| `QueueSectionsExclusive` | `Spec => []QueueMutex` |
| `LengthIsExact` | `Spec => []LengthExact` |

Assumptions: at least one core; threads are not the boot processes; masks are sets of cores;
`ClockDivd` lies inside the range of the counter. TLC evaluates them in every run.

The argument. None of the five is inductive alone, so they are proved together as `PlaceInv`:

* `BaseInv` adds to the types that `ready` returns to one of its callers (`LinkInv`) and that what
  a core carries or owns is a process and not the dummy of the boot (`HolderInv`).
* `Placed` joins `OnePlace` with `ExistInv`: held and queued processes exist, so
  that a process created afresh cannot be in a place already, and wait at their own priority.
* `Flow(c)` says what a step of core `c` may do to who is somewhere: nobody leaves every place, and whoever is somewhere
  new was created by the step. `NoLostProcess` follows, and `Threads` and `Semaphore`, in which a process may also
  sleep, use the same facts (the section "For the modules on top").
* Most steps move no process: `Keep(c)` says so, one lemma per group of actions shows it
  (`ReadyKeep`, `NextKeep`, `PullKeep`, `UserKeep`), and `KeepPlaced` does the rest. The
  three that move one, creation, `ReadyAdd` and `NextTake`, have a lemma each on the
  positions of the lists (`Appended`, `Removed`).
* A step leaves the critical sections alone, enters one whose flag is clear or leaves its own
  (`SectionStep`), which gives `QueueMutex` (`MutexStep`); and with it `LengthExact`: only the core inside the section is in the middle of a move.

The second part of `DispatchProofs` builds on it:

| theorem | says |
|---|---|
| `AffinityRespected` | `Spec => []QueuedWhereAllowed` |
| `NextFindsOne` | `Spec => []NextNeverNull` |
| `PullsNothing` | `Spec => []PullFindsNothing` |
| `SchedulerImplements` | `Spec => Placing`: `Dispatch` implements `AbstractScheduler` |

The invariant is `AffinityInv`, which adds to `PlaceInv`:

* `ScanInv`: the core a scan has found so far is allowed for the process that is carried, whose set cannot change meanwhile because only the
  process itself changes it, and only while it runs. `ReadyAdd` makes it `QueuedWhereAllowed`.
* `IdleInv`: the idle process of a core is bound to it and has only ever been held by it. It exists from the boot of the core on,
  so when a core looks for a process and holds none, its idle process is in a queue (`NoLostProcess`), which is its own
  (`QueuedWhereAllowed`), in the last list: `next()` finds it (`NextNeverNull`).
* `PullInv`: a pull looks at a queue of another core. Its IDLE list holds only processes that are bound there, so no entry can move (`PullFindsNothing`).

For the refinement, the steps of `Keep` change no place and stutter; creation, rebinding, `ReadyAdd` and `NextTake` map to `Create`, `Rebind`,
`Release` and `Take`. The guard of `Release` is `ScanInv`, that of `Take` follows from `OnePlace`.

`ThreadsProofs` proves for every number of cores and every finite set of threads:

| theorem | says |
|---|---|
| `ThreadsTypeCorrect` | `ThreadSpec => []ThreadTypeOK` |
| `WaitSectionsExclusive` | `ThreadSpec => []WaitMutex` |
| `SleepersAreApart` | `ThreadSpec => []SleepersApart` |
| `NoThreadLost` | `ThreadSpec => []NoLostThread` |
| `ZombiesAreGone` | `ThreadSpec => []ZombieGone` |
| `LiveIsExact` | `ThreadSpec => []LiveExact` |
| `SpinsEnd` | `ThreadSpec => []NoSpinCycle` |
| `NoneLeftInTime` | `ThreadSpec /\ []JoinsInTime => []NoWaiterLeft` |
| `NoneLeftOnOneCore` | `NumCores = 1 => (ThreadSpec => []NoWaiterLeft)` |

Besides those of `Dispatch` there is one assumption, `ThreadsFinite`: `live_procs` is compared with a cardinality. The invariant is `ThreadInv`:

* The places of `Dispatch` (`BaseInv`, `Placed`, `QueueMutex`) hold here too, but its `NoLostProcess` does not: a
  process may sleep. `LostInv` adds the wait queues to the places and `SleepInv` keeps them apart from the others, each sleeper
  alive and at one position of one queue. `proc_join` adds the process that the core holds and then lets it go, `alert_on` takes it out and then
  carries it through `ready`; in between both lists are under locks that `LockInv` shows exclusive.
* `ZombieInv`: a core in `proc_exit`, also while it readies a waiter, has a zombie as `current`, and a zombie is
  nowhere else. So nobody can put it back into a queue, and the end of `proc_exit` is the last that is seen of it.
* `JoinInv`: the process whose wait queue a join takes was found in the table.

`SpinsEnd` needs no more than the two kinds of sections. A core inside the section of a ready queue spins on nothing, and a core inside the section
of a wait queue spins on a ready queue at most. So in a set of spinning cores one that wants a ready queue waits for a core outside
of the set; and if none of them wants a ready queue, any of them waits for the holder of a wait queue, which does not spin.

`NoWaiterLeft` alone is false on two cores (`threads_join_lost`). `JoinsInTime` names what goes wrong there: a joiner goes to sleep on a process
that has already been through `alert_on`, because `proc_join` looked it up before it had the lock of the wait queue. With the
look-up under that lock the condition would hold, since a process that has been through `alert_on` is a zombie and can be told from a living one. Without such
late joiners nobody sleeps on a process whose waiters have been woken (`AllAwake`); and who is out of the table has woken them, for the table holds
exactly the living and those inside `proc_exit` (`Registered`). On one core a process that was looked up lives until the joiner sleeps (`JoinsAlive`), and the
hypothesis falls away. The steps of the scheduler, of a join and of an exit are first reduced to what they do to these few facts (`Moves`).

`SemaphoreProofs` proves for every number of cores and every set of threads and of semaphores, without further assumptions:

| theorem | says |
|---|---|
| `SemTypeCorrect` | `SemaphoreSpec => []SemTypeOK` |
| `NoWakeUpLost` | `SemaphoreSpec => []NoSleeperWithToken` |
| `SemSectionsExclusive` | `SemaphoreSpec => []SemMutex` |
| `NoSleeperLost` | `SemaphoreSpec => []NoLostSleeper` |
| `SleepersAreApart` | `SemaphoreSpec => []SemSleepersApart` |
| `CallsAreAtomic` | `SemaphoreSpec => Atomic`: `Semaphore` implements `AbstractSemaphore` |

`SemInv` has the same parts, and more on the life of a semaphore, because `__sem_destroy` leaves its lock set (semaphore.c:20):

* `UseInv`: a call other than init and destroy is on a semaphore in use, and a semaphore out of use has sleepers only while a destroy
  is about to release them.
* `SemLockInv`: the flag is set in a section; it is set without one only on a semaphore out of use, so nobody ever spins on the lock a destroy has left.
* `NoSleeperWithToken` is inductive with these: a wait sleeps under the lock when it has seen no token, and a post that keeps its token has found no sleeper under the same lock.

For the refinement a step maps to the action of `AbstractSemaphore` in which its effect under the lock is decided (`sem_do`); all others,
those of the scheduler and of the loop that readies the sleepers one by one included, change neither tokens nor sleepers. The sleepers of the abstract semaphore are those that no
alert is under way for, which is a function of the state only because one core at most alerts (`SemSectionsExclusive`).

`ContextProofs` proves for every set of threads and of semaphores:

| theorem | says |
|---|---|
| `ResultsTimely` | `ContextSpec /\ []Timely => []ResultDelivered`, for every number of cores |
| `ResultsOnOneCore` | `NumCores = 1 => (ContextSpec => []ResultDelivered)` |

`ResultDelivered` alone is false on two cores (`context_ret_race`). `Timely` names what goes wrong there and nothing else: a process
whose core stands between the unlock of `__sem_wait` and the write of `ret` (semaphore.c:43) is still asleep. So the first theorem says that
this late write is the only way in which a process can miss the result of a call: a kernel that wrote `ret` before the unlock would have no
such state. On one core nobody is there to wake a process early, `Timely` is an invariant, and the hypothesis falls away.

Every step of `Context` is one of `Semaphore`, so `SemInv` holds. `CtxInv` adds `RetInv`: who is neither in user mode nor in a call that has
still to write `ret` has in `ret` what it is due, wherever it is and whoever runs meanwhile; and `ZeroInv`: a call that has decided nothing yet, or to
sleep, will return zero. A step changes the registers of processes that no other core is current for (`OnlyMine`), because a process is held by one core (`OnePlace`)
and, by `Timely`, a sleeper by none; `RegisterStep` does the rest once for all.

`TableProofs` proves for every set of cores, every number of processes and buckets and every set of processes that end:

| theorem | says |
|---|---|
| `TableTypeCorrect` | `TableSpec => []TableTypeOK` |
| `NoStoreThroughNull` | `TableSpec => []NeverNull` |
| `ListsStayRight` | `TableSpec => []ListsRight` |
| `LiveIsFound` | `TableSpec => LiveFound` |
| `EntriesComeAndGo` | `TableSpec => OneAtATime` |

Assumptions: there is a bucket, and the processes that end are among the pids. For the first two, which hold whatever the removals do, the invariant is
`TableInv`. It adds to `NeverNull` who is at work on
an entry: a core in `proc_create` has a process that is new, one in `proc_exit` a dying one whose links are not NULL as far as it has not
poisoned them itself (`CoreInv`), no two of them have the same process (`Apart`), and pids not yet given out belong to nobody
(`PidInv`). It is needed because a `list_del` reads the links of its own entry, which nobody but its own core ever sets to NULL. Steps
that store something other than NULL and change no status are alike (`QuietStep`); the four that create a process, let it run, end it and poison its
entry go through `StatusStep`. It says nothing about whether the lists are whole after a race: they are not.

The other three speak of the time before a removal overlaps another access (`raced`). They rest on two more invariants:

* `PhaseInv`: where the cores are and which locks they hold then, insertions under both, walks under the hash lock; an overlap is
  remembered in `raced`, so until then whoever inserts or removes is alone at it (`Alone`).
* `RingInv`: for every head there is a sequence of distinct processes, exactly the members of that list (`InRing`), along which `next` leads from
  the head and back at every moment, and `prev` backwards but for the one link that a core has stored halfway (`Halfway`). The new entry comes
  in at the front of the sequence and the removed one goes out of its middle, each with the single store of `next` that decides it (`RingAdd`, `RingDel`). A walk stands
  at a position before which it has not seen what it looks for (`WalkAt`); nothing moves it meanwhile: an insertion needs the hash lock that the walk holds, and a removal would be a race.
* From the ring to the lists: `Met` follows a link until it is at a head, which takes an argument over the number of steps. `Least` gives the least element of a
  nonempty set of naturals and replaces the induction rules of the library, whose operator parameters the provers cannot instantiate; `AfterDef` shows with it that the
  recursive function of `After` is the one its equation says, and `Pigeonhole` that a list of distinct pids is no longer than `MaxPid`, so that `Met` looks far enough.
  So `Met(next)` is the members at every moment (`MetNext`), and `Met(prev)` too when nobody is halfway (`MetPrev`).

`PoolProofs` proves `PoolTypeCorrect`, `PoolExcludes` (`PoolMutex`), `WorkDoneOnce` (`WorkOnce`) and `MasterEndsLast` (`JoinedLast`) for every
number of workers and pieces of work. `PoolInv` adds who is inside the lock and what the loops of the master have already done (`CodeInv`, `LoopInv`). A piece
of work is in the list, held by one worker, or done; only the holder of the lock moves one between these.

`WorkDoneIfSeen` is `PoolSpec /\ []NoStaleCheck => []AllWorkDone`. `AllWorkDone` alone is false (`pool_work_left`): a worker finds the list empty,
unlocks, the master fills the list and sets `finished`, and the worker reads that. `NoStaleCheck` excludes this for one worker, the last to leave; the others
may leave as early as they like, for the last one does their work. Then the list is empty once all workers have left (`Drained`), and `WorkOnce` says where all
the work is: computed.

`BootProofs` proves for every number of cores:

| theorem | says |
|---|---|
| `InterruptsHandled` | `BootSpec => []NoInterruptLost` |
| `NothingUsedEarly` | `BootSpec => []SetUpFirst` |
| `NewlibApart` | `BootSpec => []NewlibMutex` |

`BootInv`: a handler is in the vector before its interrupt is routed, and the release handler stays until `kernel_start` has taken it away, when
the message has been cleared (`HandlerInv`); core 0 is alone until the bss is clear (`BssInv`); a core that is released, or on its way
in the kernel, was released when everything was set up, and core 0 does not come back to it (`ReleaseInv`); from the clearing of the bss on the
lock is held exactly while one core is in a section of it (`LockInv`).

`NewlibProofs` proves for every set of cores and all sizes:

| theorem | says |
|---|---|
| `NewlibTypeCorrect` | `NewlibSpec => []NewlibTypeOK` |
| `AllocationsApart` | `NewlibSpec => []BlocksApart` |
| `NoPidTwice` | `NewlibSpec => []PidsApart` |
| `TextsWhole` | `NewlibSpec => OutputWhole` |

Assumptions: the set of cores is finite, the sizes are positive, and the heap cannot pay for as many processes as there are pids from 1 on (`NewlibPids`). The lock makes
the two steps of `_sbrk` one (`HeapInv`), and the last character sent belongs to the text under way (`OutInv`). `PayInv` bounds the pids: a creation takes its
pid after it has its memory, so the pids given out, `next_pid - 1`, and the creations that have memory and no pid yet together cost no more than the heap that is used up, and
`next_pid` never comes round to 0. The sum over cores is a cardinality, which is why the set of cores must be finite.

Only model-checked are the five properties under fairness: `Scheduled` (no starvation), `WokenRuns` (an alerted sleeper runs), `PoolEnds`, `AllStart` (every core
starts its first process) and `CallEnds`. The prover handles neither liveness under fairness nor `ENABLED`. Every other property of a passing run is a theorem. The modules declare no
RECURSIVE operator: `After` is a recursive function, and what it computes is proved with the least counterexample.

## 7. What is not modelled

* The sleep queue: `proc_sleep` and `global_tick` (sleep.c) have no caller, no request reaches them and `sleep_queue` is never
  initialised, so there is no reachable behaviour to check.
* The measurement programs other than the thread pool (kinit.c): they create threads, spin on the cycle counter and print; what they call is modelled, the numbers
  they report are not.
* The property channel of the mailbox (mailbox.c) and the GPIO: they light the leds (init.c) and tell the program nothing. The performance counters
  and the timer registers are writes whose effect is outside the program; the timer's interrupt is `TimeSlice`.
* The other C library stubs: `_fstat`, `_isatty`, `_lseek`, `_open` return constants, and no program of the repository reads or closes a file. `_sbrk` and `_write` are in `Newlib`; the buffer of
  newlib's `printf` is not, because the repository does not contain it.
* The 32-bit boot code and `signal.c`: the first is not built, nobody calls the two bit functions of the second.
* The exit status and the traces of processes, and the result a join returns: `Threads` models who wakes whom and not what is handed over.
* The copy of the `va_list` on an interrupt (dispatch.c:267), which reads an uninitialised pointer and discards what it finds, and the cpu set that stays on the
  caller's stack (dispatch.c:322): a model of either would be a model of the compiler's stack.
* `report/` and `logs/` are documentation.
