------------------------------ MODULE Dispatch ------------------------------
(***************************************************************************)
(* The per-core scheduler of the kernel (src/c/kernel/dispatch.c built     *)
(* with SCHED_AFFINITY and SCHED_PULL_MIGRATION), together with the parts  *)
(* of kinit.c and thread.c that feed it: the boot of a core and            *)
(* proc_create.  Every core runs in user mode until an exception brings    *)
(* it into common_interrupt; from there it walks the kernel path one       *)
(* shared access at a time, with its interrupts masked.                    *)
(*                                                                         *)
(* A spinlock is its flag.  Between two steps of one core any other core   *)
(* may run, so the lengths that sched_pickcpu reads without a lock may be  *)
(* stale when they are used.                                               *)
(***************************************************************************)
EXTENDS Integers, Sequences, FiniteSets

CONSTANTS
    NumCores,     \* NUM_CORES
    Thread,       \* the threads that PTHREAD_CREATE may create
    Masks,        \* the affinity sets programs install
    TickMod,      \* 2^32: ticks_to_balance is kept as its residue
    ClockDivd     \* CLOCK_DIVD, the interval between two balancings

Core == 0 .. NumCores - 1

(* enum process_priority.  LOW and HIGH are scanned, no process has them. *)
IDLE == 0
LOW  == 1
MED  == 2
HIGH == 3
Priority == IDLE .. HIGH

(* The two processes kernel_start creates on every core, and the rest. *)
Idle(c) == <<"idle", c>>
Root(c) == <<"root", c>>
IdleProcess == {Idle(c) : c \in Core}
RootProcess == {Root(c) : c \in Core}
Process == Thread \cup IdleProcess \cup RootProcess

(* running_list before the first next(): the dummy of kernel_start. *)
NoProcess == <<"dummy", 0>>

ASSUME CoresAssumption == NumCores \in Nat \ {0}
ASSUME ThreadAssumption ==
    Thread \cap (IdleProcess \cup RootProcess \cup {NoProcess}) = {}
ASSUME MasksAssumption == Masks \subseteq SUBSET Core
ASSUME TicksAssumption ==
    /\ TickMod \in Nat \ {0}
    /\ ClockDivd \in 1 .. TickMod - 1

prio(p) == IF p \in IdleProcess THEN IDLE ELSE MED

VARIABLES
    tasks,        \* ready_queue[c].tasks[i]: the list of each priority
    length,       \* ready_queue[c].length
    rq_lock,      \* ready_queue[c].lock.flag
    ticks,        \* ready_queue[c].ticks_to_balance modulo TickMod
    running_list, \* running_list[c], i.e. current on core c
    affinityset,  \* the contents of *process->affinityset
    state,        \* process->state, UNUSED before its proc_create
    live_procs,   \* the global count of processes
    pc,           \* where core c is: "user" or a point of the kernel path
    proc,         \* the process ready() or next() has in hand on core c
    link,         \* where ready() returns to on core c
    cpu,          \* loop index of the queue scans
    pick,         \* inactive_core or busiest_core of the scan
    count,        \* inactive_count or busiest_count of the scan
    target,       \* the queue whose lock ready() or sched_pull() takes
    level         \* loop index of next(), the priority being scanned

queueVars == <<tasks, length, rq_lock>>
scanVars  == <<cpu, pick, count>>
procVars  == <<affinityset, state, live_procs>>
coreVars  == <<ticks, running_list, pc, proc, link, scanVars, target, level>>
dispatchVars == <<queueVars, procVars, coreVars>>

(* INT32_MAX, which no queue length reaches. *)
NoCount == -1

-----------------------------------------------------------------------------
(* ready(p), called on core c and returning to label l: mark the process   *)
(* RUNNABLE and start the scan of sched_pickcpu_inactive.                  *)
CallReady(c, p, l) ==
    /\ pc'    = [pc EXCEPT ![c] = "pick"]
    /\ proc'  = [proc EXCEPT ![c] = p]
    /\ link'  = [link EXCEPT ![c] = l]
    /\ state' = [state EXCEPT ![p] = "RUNNABLE"]
    /\ cpu'   = [cpu EXCEPT ![c] = 0]
    /\ pick'  = [pick EXCEPT ![c] = 0]
    /\ count' = [count EXCEPT ![c] = NoCount]

(* Mutant of PickInactive: the index is advanced before it is recorded. *)
PickInactiveOffByOne(c) ==
    /\ pc[c] = "pick"
    /\ cpu[c] < NumCores
    /\ cpu' = [cpu EXCEPT ![c] = @ + 1]
    /\ IF /\ count[c] = NoCount \/ length[cpu[c]] < count[c]
          /\ cpu[c] \in affinityset[proc[c]]
       THEN /\ pick'  = [pick EXCEPT ![c] = cpu[c] + 1]
            /\ count' = [count EXCEPT ![c] = length[cpu[c]]]
       ELSE UNCHANGED <<pick, count>>
    /\ UNCHANGED <<queueVars, procVars, ticks, running_list, pc, proc, link,
                   target, level>>

(* One iteration: a shorter queue the process may run on becomes the pick. *)
PickInactive(c) ==
    /\ pc[c] = "pick"
    /\ cpu[c] < NumCores
    /\ cpu' = [cpu EXCEPT ![c] = @ + 1]
    /\ IF /\ count[c] = NoCount \/ length[cpu[c]] < count[c]
          /\ cpu[c] \in affinityset[proc[c]]
       THEN /\ pick'  = [pick EXCEPT ![c] = cpu[c]]
            /\ count' = [count EXCEPT ![c] = length[cpu[c]]]
       ELSE UNCHANGED <<pick, count>>
    /\ UNCHANGED <<queueVars, procVars, ticks, running_list, pc, proc, link,
                   target, level>>

(* The current core is kept unless the affinity set excludes it or its     *)
(* queue holds more than a quarter of the live processes.                  *)
OverLoaded(c) == (100 * length[c]) \div live_procs > 25

(* Mutant of PickCpu: an idle current core is always kept. *)
PickCpuPreferHere(c) ==
    IF OverLoaded(c) THEN pick[c] ELSE c

PickCpu(c) ==
    IF c \notin affinityset[proc[c]] \/ OverLoaded(c) THEN pick[c] ELSE c

PickDecide(c) ==
    /\ pc[c] = "pick"
    /\ cpu[c] = NumCores
    /\ target' = [target EXCEPT ![c] = PickCpu(c)]
    /\ pc' = [pc EXCEPT ![c] = "rq_lock"]
    /\ UNCHANGED <<queueVars, procVars, ticks, running_list, proc, link,
                   scanVars, level>>

(* Mutant of ReadyLock: the flag is set without looking at it. *)
ReadyLockBlind(c) ==
    /\ pc[c] = "rq_lock"
    /\ rq_lock' = [rq_lock EXCEPT ![target[c]] = TRUE]
    /\ pc' = [pc EXCEPT ![c] = "rq_len"]
    /\ UNCHANGED <<tasks, length, procVars, ticks, running_list, proc, link,
                   scanVars, target, level>>

ReadyLock(c) ==
    /\ pc[c] = "rq_lock"
    /\ ~rq_lock[target[c]]
    /\ rq_lock' = [rq_lock EXCEPT ![target[c]] = TRUE]
    /\ pc' = [pc EXCEPT ![c] = "rq_len"]
    /\ UNCHANGED <<tasks, length, procVars, ticks, running_list, proc, link,
                   scanVars, target, level>>

ReadyLength(c) ==
    /\ pc[c] = "rq_len"
    /\ length' = [length EXCEPT ![target[c]] = @ + 1]
    /\ pc' = [pc EXCEPT ![c] = "rq_add"]
    /\ UNCHANGED <<tasks, rq_lock, procVars, ticks, running_list, proc, link,
                   scanVars, target, level>>

(* The locals of ready() and of the functions it calls go out of scope. *)
ReadyReturn(c) ==
    /\ proc'   = [proc EXCEPT ![c] = NoProcess]
    /\ link'   = [link EXCEPT ![c] = "none"]
    /\ cpu'    = [cpu EXCEPT ![c] = 0]
    /\ pick'   = [pick EXCEPT ![c] = 0]
    /\ count'  = [count EXCEPT ![c] = 0]
    /\ target' = [target EXCEPT ![c] = 0]

(* Mutant of ReadyAdd: list_add for list_add_tail. *)
ReadyAddHead(c) ==
    /\ pc[c] = "rq_add"
    /\ tasks' = [tasks EXCEPT ![target[c]][prio(proc[c])] = <<proc[c]>> \o @]
    /\ rq_lock' = [rq_lock EXCEPT ![target[c]] = FALSE]
    /\ pc' = [pc EXCEPT ![c] = link[c]]
    /\ ReadyReturn(c)
    /\ UNCHANGED <<length, procVars, ticks, running_list, level>>

(* list_add_tail at the process's priority, unlock and return. *)
ReadyAdd(c) ==
    /\ pc[c] = "rq_add"
    /\ tasks' = [tasks EXCEPT ![target[c]][prio(proc[c])] = Append(@, proc[c])]
    /\ rq_lock' = [rq_lock EXCEPT ![target[c]] = FALSE]
    /\ pc' = [pc EXCEPT ![c] = link[c]]
    /\ ReadyReturn(c)
    /\ UNCHANGED <<length, procVars, ticks, running_list, level>>

-----------------------------------------------------------------------------
(* next(): the lock is taken and released again for every priority. *)
NextLock(c) ==
    /\ pc[c] = "next"
    /\ ~rq_lock[c]
    /\ rq_lock' = [rq_lock EXCEPT ![c] = TRUE]
    /\ pc' = [pc EXCEPT ![c] = "next_scan"]
    /\ UNCHANGED <<tasks, length, procVars, ticks, running_list, proc, link,
                   scanVars, target, level>>

(* Mutant of NextTake: the process is run and left in its list. *)
NextTakeNoUnlink(c) ==
    /\ pc[c] = "next_scan"
    /\ tasks[c][level[c]] # <<>>
    /\ proc' = [proc EXCEPT ![c] = Head(tasks[c][level[c]])]
    /\ pc' = [pc EXCEPT ![c] = "next_len"]
    /\ UNCHANGED <<queueVars, procVars, ticks, running_list, link, scanVars,
                   target, level>>

(* Unlink the head of the list of this priority... *)
NextTake(c) ==
    /\ pc[c] = "next_scan"
    /\ tasks[c][level[c]] # <<>>
    /\ proc' = [proc EXCEPT ![c] = Head(tasks[c][level[c]])]
    /\ tasks' = [tasks EXCEPT ![c][level[c]] = Tail(@)]
    /\ pc' = [pc EXCEPT ![c] = "next_len"]
    /\ UNCHANGED <<length, rq_lock, procVars, ticks, running_list, link,
                   scanVars, target, level>>

(* Mutant of NextMiss: the loop stops above PRIORITY_IDLE. *)
NextMissAboveIdle(c) ==
    /\ pc[c] = "next_scan"
    /\ tasks[c][level[c]] = <<>>
    /\ rq_lock' = [rq_lock EXCEPT ![c] = FALSE]
    /\ level' = [level EXCEPT ![c] = IF @ = LOW THEN HIGH ELSE @ - 1]
    /\ pc' = [pc EXCEPT ![c] = IF level[c] = LOW THEN "null" ELSE "next"]
    /\ UNCHANGED <<tasks, length, procVars, ticks, running_list, proc, link,
                   scanVars, target>>

(* ... or go down one priority; below IDLE next() returns NULL.  *)
NextMiss(c) ==
    /\ pc[c] = "next_scan"
    /\ tasks[c][level[c]] = <<>>
    /\ rq_lock' = [rq_lock EXCEPT ![c] = FALSE]
    /\ level' = [level EXCEPT ![c] = IF @ = IDLE THEN HIGH ELSE @ - 1]
    /\ pc' = [pc EXCEPT ![c] = IF level[c] = IDLE THEN "null" ELSE "next"]
    /\ UNCHANGED <<tasks, length, procVars, ticks, running_list, proc, link,
                   scanVars, target>>

(* length -= 1, unlock, become current, and leave through switch_to. *)
NextRun(c) ==
    /\ pc[c] = "next_len"
    /\ length' = [length EXCEPT ![c] = @ - 1]
    /\ rq_lock' = [rq_lock EXCEPT ![c] = FALSE]
    /\ running_list' = [running_list EXCEPT ![c] = proc[c]]
    /\ pc' = [pc EXCEPT ![c] = "user"]
    /\ proc' = [proc EXCEPT ![c] = NoProcess]
    /\ level' = [level EXCEPT ![c] = HIGH]
    /\ UNCHANGED <<tasks, procVars, ticks, link, scanVars, target>>

-----------------------------------------------------------------------------
(* The timer interrupt: count down to the next balancing, then reschedule. *)
TimeSlice(c) ==
    /\ pc[c] = "user"
    /\ IF ticks[c] = 1
       THEN /\ ticks' = [ticks EXCEPT ![c] = ClockDivd]
            /\ pc'    = [pc EXCEPT ![c] = "busiest"]
            /\ cpu'   = [cpu EXCEPT ![c] = 0]
            /\ pick'  = [pick EXCEPT ![c] = 0]
            /\ count' = [count EXCEPT ![c] = 0]
            /\ UNCHANGED <<proc, link, state>>
       ELSE /\ ticks' = [ticks EXCEPT ![c] = IF @ = 0 THEN TickMod - 1
                                                      ELSE @ - 1]
            /\ CallReady(c, running_list[c], "next")
    /\ UNCHANGED <<queueVars, affinityset, live_procs, running_list, target,
                   level>>

(* sched_pickcpu_busiest, one queue at a time. *)
PullBusiest(c) ==
    /\ pc[c] = "busiest"
    /\ cpu[c] < NumCores
    /\ cpu' = [cpu EXCEPT ![c] = @ + 1]
    /\ IF length[cpu[c]] > count[c]
       THEN /\ pick'  = [pick EXCEPT ![c] = cpu[c]]
            /\ count' = [count EXCEPT ![c] = length[cpu[c]]]
       ELSE UNCHANGED <<pick, count>>
    /\ UNCHANGED <<queueVars, procVars, ticks, running_list, pc, proc, link,
                   target, level>>

(* sched_pull returns at once when the busiest core is the current one.    *)
PullSkip(c) ==
    /\ pc[c] = "busiest"
    /\ cpu[c] = NumCores
    /\ pick[c] = c
    /\ CallReady(c, running_list[c], "next")
    /\ UNCHANGED <<queueVars, affinityset, live_procs, ticks, running_list,
                   target, level>>

PullLock(c) ==
    /\ pc[c] = "busiest"
    /\ cpu[c] = NumCores
    /\ pick[c] # c
    /\ ~rq_lock[pick[c]]
    /\ rq_lock' = [rq_lock EXCEPT ![pick[c]] = TRUE]
    /\ target' = [target EXCEPT ![c] = pick[c]]
    /\ pc' = [pc EXCEPT ![c] = "pull_scan"]
    /\ UNCHANGED <<tasks, length, procVars, ticks, running_list, proc, link,
                   scanVars, level>>

(* The list the loop walks: busy->tasks decays to its first element, the   *)
(* IDLE list.  An entry is pulled when the busy queue is at least twice as *)
(* long (an integer division; AArch64 divides by zero to zero) and its     *)
(* affinity set has this core.                                             *)
PullList(busy) == tasks[busy][IDLE]

PullEligible(c, busy) ==
    {p \in Process :
        /\ \E k \in 1 .. Len(PullList(busy)) : PullList(busy)[k] = p
        /\ c \in affinityset[p]
        /\ length[c] # 0
        /\ length[busy] >= 2 * length[c]}

(* Mutant of PullScan: the busy queue is shortened before the affinity set *)
(* of the entry is looked at.                                              *)
PullScanEarly(c) ==
    /\ pc[c] = "pull_scan"
    /\ PullEligible(c, target[c]) = {}
    /\ length' = [length EXCEPT ![target[c]] = @ - 1]
    /\ rq_lock' = [rq_lock EXCEPT ![target[c]] = FALSE]
    /\ target' = [target EXCEPT ![c] = 0]
    /\ CallReady(c, running_list[c], "next")
    /\ UNCHANGED <<tasks, affinityset, live_procs, ticks, running_list, level>>

(* The loop finds nothing to pull and the busy queue is unlocked.          *)
PullScan(c) ==
    /\ pc[c] = "pull_scan"
    /\ PullEligible(c, target[c]) = {}
    /\ rq_lock' = [rq_lock EXCEPT ![target[c]] = FALSE]
    /\ target' = [target EXCEPT ![c] = 0]
    /\ CallReady(c, running_list[c], "next")
    /\ UNCHANGED <<tasks, length, affinityset, live_procs, ticks,
                   running_list, level>>

-----------------------------------------------------------------------------
(* Mutant of Yield: the handler returns BLOCK for SCHED. *)
YieldBlocks(c) ==
    /\ pc[c] = "user"
    /\ running_list[c] \notin IdleProcess
    /\ pc' = [pc EXCEPT ![c] = "next"]
    /\ UNCHANGED <<queueVars, procVars, ticks, running_list, proc, link,
                   scanVars, target, level>>

(* SCHED_YIELD: idle_proc never makes a system call. *)
Yield(c) ==
    /\ pc[c] = "user"
    /\ running_list[c] \notin IdleProcess
    /\ CallReady(c, running_list[c], "next")
    /\ UNCHANGED <<queueVars, affinityset, live_procs, ticks, running_list,
                   target, level>>

(* SCHED_SET_AFFINITY reschedules when the core IS in the new set.         *)
SetAffinity(c, m) ==
    /\ pc[c] = "user"
    /\ running_list[c] \in Thread
    /\ affinityset' = [affinityset EXCEPT ![running_list[c]] = m]
    /\ IF c \in m
       THEN CallReady(c, running_list[c], "next")
       ELSE UNCHANGED <<pc, proc, link, state, scanVars>>
    /\ UNCHANGED <<queueVars, live_procs, ticks, running_list, target, level>>

(* proc_create for process p with affinity set m, returning to label l.    *)
ProcCreate(c, p, m, l) ==
    /\ state[p] = "UNUSED"
    /\ live_procs' = live_procs + 1
    /\ affinityset' = [affinityset EXCEPT ![p] = m]
    /\ CallReady(c, p, l)

(* PTHREAD_CREATE.  The handler takes the affinity set from a fifth        *)
(* argument that pthread_create does not pass, so any mask may come out.   *)
PthreadCreate(c, t, m) ==
    /\ pc[c] = "user"
    /\ running_list[c] \notin IdleProcess
    /\ ProcCreate(c, t, m, "user")
    /\ UNCHANGED <<queueVars, ticks, running_list, target, level>>

(* kernel_start on a released core: idle_proc, then perf_root, then next(). *)
BootIdle(c) ==
    /\ pc[c] = "boot"
    /\ ProcCreate(c, Idle(c), {c}, "boot_root")
    /\ UNCHANGED <<queueVars, ticks, running_list, target, level>>

BootRoot(c) ==
    /\ pc[c] = "boot_root"
    /\ ProcCreate(c, Root(c), {c}, "next")
    /\ UNCHANGED <<queueVars, ticks, running_list, target, level>>

-----------------------------------------------------------------------------
Init ==
    /\ tasks        = [c \in Core |-> [i \in Priority |-> <<>>]]
    /\ length       = [c \in Core |-> 0]
    /\ rq_lock      = [c \in Core |-> FALSE]
    /\ ticks        = [c \in Core |-> 0]
    /\ running_list = [c \in Core |-> NoProcess]
    /\ affinityset  = [p \in Process |-> {}]
    /\ state        = [p \in Process |-> "UNUSED"]
    /\ live_procs   = 0
    /\ pc           = [c \in Core |-> "boot"]
    /\ proc         = [c \in Core |-> NoProcess]
    /\ link         = [c \in Core |-> "none"]
    /\ cpu          = [c \in Core |-> 0]
    /\ pick         = [c \in Core |-> 0]
    /\ count        = [c \in Core |-> 0]
    /\ target       = [c \in Core |-> 0]
    /\ level        = [c \in Core |-> HIGH]

(* The three places where a core spins on a lock. *)
Acquire(c) == ReadyLock(c) \/ NextLock(c) \/ PullLock(c)

Ready(c) == PickInactive(c) \/ PickDecide(c) \/ ReadyLength(c) \/ ReadyAdd(c)
NextProc(c) == NextTake(c) \/ NextMiss(c) \/ NextRun(c)
Pull(c) == PullBusiest(c) \/ PullSkip(c) \/ PullScan(c)
Boot(c) == BootIdle(c) \/ BootRoot(c)

(* What a core in the kernel does without waiting for anybody. *)
Kernel(c) == Ready(c) \/ NextProc(c) \/ Pull(c) \/ Boot(c)

SysCall(c) ==
    \/ Yield(c)
    \/ \E m \in Masks \ {{}} : SetAffinity(c, m)
    \/ \E t \in Thread, m \in Masks : PthreadCreate(c, t, m)

CoreStep(c) == Kernel(c) \/ Acquire(c) \/ TimeSlice(c) \/ SysCall(c)

Next == \E c \in Core : CoreStep(c)

Spec == Init /\ [][Next]_dispatchVars

(* What takes the current process off a core: the timer, or a system call. *)
Reschedule(c) ==
    \/ TimeSlice(c)
    \/ Yield(c)
    \/ \E m \in Masks \ {{}} : c \in m /\ SetAffinity(c, m)

(* A core in the kernel goes on.  A core that spins on a lock released     *)
(* again and again gets it some day, which __sync_lock_test_and_set leaves *)
(* to the memory system.  A process is preempted at last: the timer stays  *)
(* pending across system calls, and only a reschedule rearms it.           *)
Fairness ==
    \A c \in Core :
        /\ WF_dispatchVars(Kernel(c))
        /\ SF_dispatchVars(Acquire(c))
        /\ SF_dispatchVars(Reschedule(c))

FairSpec == Spec /\ Fairness

-----------------------------------------------------------------------------
(* Who has a process.  A core carries the argument of ready() until it is  *)
(* queued and the result of next() until it is current; it owns its        *)
(* current process until it has readied it or put it to sleep ("blocked"). *)
ReadyPc == {"pick", "rq_lock", "rq_len", "rq_add"}
NextPc  == {"next", "next_scan", "next_len", "null"}
LetsGo  == {"next", "boot_root"}

Carries(c) == pc[c] \in ReadyPc \/ pc[c] = "next_len"

Owns(c) ==
    /\ pc[c] \notin NextPc \cup {"boot", "boot_root", "blocked"}
    /\ pc[c] \in ReadyPc => link[c] \notin LetsGo

Holds(c) ==
    {p \in Process : \/ Carries(c) /\ p = proc[c]
                     \/ Owns(c) /\ p = running_list[c]}

(* The process at position k of list i of queue q. *)
At(q, i, k) == tasks[q][i][k]

Queued(p) ==
    \E q \in Core, i \in Priority : \E k \in 1 .. Len(tasks[q][i]) : At(q, i, k) = p

(* Core c is inside the critical section of queue q. *)
InQueueSection(c, q) ==
    \/ pc[c] \in {"rq_len", "rq_add", "pull_scan"} /\ target[c] = q
    \/ pc[c] \in {"next_scan", "next_len"} /\ c = q

(* Core c has changed one of length and tasks of q, not yet the other. *)
HalfDone(c, q) ==
    \/ pc[c] = "rq_add" /\ target[c] = q
    \/ pc[c] = "next_len" /\ c = q

Total(q) ==
    Len(tasks[q][IDLE]) + Len(tasks[q][LOW]) + Len(tasks[q][MED]) + Len(tasks[q][HIGH])

-----------------------------------------------------------------------------
(* The points of the kernel path, those of Threads and Semaphores included. *)
Label ==
    {"boot", "boot_root", "user", "pick", "rq_lock", "rq_len", "rq_add", "next",
     "next_scan", "next_len", "null", "busiest", "pull_scan", "none", "blocked",
     "join_lock", "join_sleep", "exit_count", "exit_lock", "exit_alert",
     "exit_unlink", "sem_lock", "sem_do", "sem_alert", "sem_ret", "sem_out"}

(* Every variable of the scheduler keeps its C type. *)
TypeOK ==
    /\ tasks \in [Core -> [Priority -> Seq(Process)]]
    /\ length \in [Core -> Int]
    /\ rq_lock \in [Core -> BOOLEAN]
    /\ ticks \in [Core -> 0 .. TickMod - 1]
    /\ running_list \in [Core -> Process \cup {NoProcess}]
    /\ affinityset \in [Process -> SUBSET Core]
    /\ state \in [Process -> {"UNUSED", "RUNNABLE", "ZOMBIE"}]
    /\ live_procs \in Nat
    /\ pc \in [Core -> Label]
    /\ proc \in [Core -> Process \cup {NoProcess}]
    /\ link \in [Core -> Label]
    /\ cpu \in [Core -> 0 .. NumCores]
    /\ pick \in [Core -> Core]
    /\ count \in [Core -> Int]
    /\ target \in [Core -> Core]
    /\ level \in [Core -> Priority]

(* A process is in one place only: held by one core, or at one position of *)
(* one ready queue.  So no process ever runs on two cores, although        *)
(* ready(current) publishes it while its core is still in the kernel with  *)
(* running_list pointing at it.                                            *)
OnePlace ==
    /\ \A c, d \in Core : c # d => Holds(c) \cap Holds(d) = {}
    /\ \A c \in Core : Carries(c) /\ Owns(c) => proc[c] # running_list[c]
    /\ \A c \in Core : \A p \in Holds(c) : ~Queued(p)
    /\ \A q \in Core, i \in Priority : \A k \in 1 .. Len(tasks[q][i]) :
          \A r \in Core, j \in Priority : \A l \in 1 .. Len(tasks[r][j]) :
             At(q, i, k) = At(r, j, l) => q = r /\ i = j /\ k = l

(* No runnable process is ever lost: it is held by a core or it is queued. *)
NoLostProcess ==
    \A p \in Process :
        state[p] = "RUNNABLE" => Queued(p) \/ \E c \in Core : p \in Holds(c)

(* Mutual exclusion: at most one core is between the lock and the unlock   *)
(* of a ready queue, and the flag is set exactly then.                     *)
QueueMutex ==
    /\ \A q \in Core : rq_lock[q] <=> \E c \in Core : InQueueSection(c, q)
    /\ \A c, d, q \in Core : InQueueSection(c, q) /\ InQueueSection(d, q) => c = d

(* The length of a queue, which decides migration, is the number of queued *)
(* processes whenever no core is between the two updates of a move.        *)
LengthExact ==
    \A q \in Core :
        length[q] = Total(q) + (IF \E c \in Core : HalfDone(c, q) THEN 1 ELSE 0)

(* sched_pickcpu respects hard affinity: a process waits only in the queue *)
(* of a core of its affinity set (an empty set falls to core 0).           *)
QueuedWhereAllowed ==
    \A q \in Core, i \in Priority : \A k \in 1 .. Len(tasks[q][i]) :
        LET m == affinityset[At(q, i, k)] IN m # {} => q \in m

(* next() never runs out of processes (the TODO of dispatch.c:67): the     *)
(* idle process of a core is always in its queue when next() is entered.   *)
NextNeverNull == \A c \in Core : pc[c] # "null"

(* What the loop of sched_pull comes to: the IDLE list of another core has *)
(* only processes that may not leave it, so there is never one to pull,    *)
(* and PullScan has all that the loop does.                                *)
PullFindsNothing ==
    \A c \in Core : pc[c] = "pull_scan" => PullEligible(c, target[c]) = {}

(* "Periodically, an idle core will search for an overloaded core and pull *)
(* eligible processes from the tail of its queue" (report/main.tex:201).   *)
(* A core that scans a queue twice as long as its own, the code's own test *)
(* of the load, with a process in it that may run here, finds one to pull. *)
(* The code does not: its loop is given the array of lists and walks the   *)
(* first of them only.                                                     *)
PullTakesEligible ==
    \A c \in Core :
        /\ pc[c] = "pull_scan"
        /\ length[c] # 0
        /\ length[target[c]] >= 2 * length[c]
        /\ \E i \in Priority : \E k \in 1 .. Len(tasks[target[c]][i]) :
              c \in affinityset[At(target[c], i, k)]
        => PullEligible(c, target[c]) # {}

-----------------------------------------------------------------------------
(* Where a process is in the terms of AbstractScheduler. *)
Waits(p, q) == \E i \in Priority : \E k \in 1 .. Len(tasks[q][i]) : At(q, i, k) = p

PlaceOf(p) ==
    IF \E c \in Core : p \in Holds(c)
    THEN <<"held", CHOOSE c \in Core : p \in Holds(c)>>
    ELSE IF \E q \in Core : Waits(p, q)
         THEN <<"waits", CHOOSE q \in Core : Waits(p, q)>>
         ELSE <<"nowhere">>

Scheduling == INSTANCE AbstractScheduler
    WITH place <- [p \in Process |-> PlaceOf(p)], affinity <- affinityset

(* The scheduler implements the abstract one: whatever a core does between *)
(* its locks, the processes move only as AbstractScheduler lets them.      *)
Placing == Scheduling!AbstractSpec

-----------------------------------------------------------------------------
Runs(p) == \E c \in Core : pc[c] = "user" /\ running_list[c] = p

Readied(p) == Queued(p) \/ \E c \in Core : pc[c] \in ReadyPc /\ proc[c] = p

(* No starvation: a process given to ready(), the idle ones aside, runs.   *)
Scheduled == \A p \in Process \ IdleProcess : Readied(p) ~> Runs(p)

=============================================================================
