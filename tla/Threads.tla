------------------------------ MODULE Threads -------------------------------
(***************************************************************************)
(* Creation, termination and joining of threads (src/c/kernel/thread.c) on *)
(* top of Dispatch: pthread_create, pthread_exit and pthread_join with *)
(* the wait queue of every process and the process table.                  *)
(*                                                                         *)
(* A pid stands for its process: pids are not reused before next_pid has   *)
(* gone round once.  The process table is the set of the processes         *)
(* get_process can find.                                                   *)
(***************************************************************************)
EXTENDS Dispatch, Functions

(* There is memory for finitely many threads. *)
ASSUME ThreadsFinite == IsFiniteSet(Thread)

VARIABLES
    waiting,    \* process->waiting.tasks: who joins the process
    wait_lock,  \* process->waiting.lock.flag
    table,      \* process_list and process_hash
    joined      \* the process proc_join has looked up on core c

waitVars == <<waiting, wait_lock, joined>>
threadVars == <<waitVars, table>>
threadsVars == <<dispatchVars, threadVars>>

-----------------------------------------------------------------------------
(* get_process(pid) and the checks of proc_join.  A pid that is not in the *)
(* table and the caller's own are EINVAL, which goes back to user mode.    *)
JoinLookup(c, p) ==
    /\ pc[c] = "user"
    /\ running_list[c] \notin IdleProcess
    /\ p \in table
    /\ p # running_list[c]
    /\ joined' = [joined EXCEPT ![c] = p]
    /\ pc' = [pc EXCEPT ![c] = "join_lock"]
    /\ UNCHANGED <<queueVars, procVars, ticks, running_list, proc, link,
                   scanVars, target, level, waiting, wait_lock, table>>

(* Mutant of JoinLock: sleep_on_locked is called without the lock. *)
JoinLockSkipped(c) ==
    /\ pc[c] = "join_lock"
    /\ pc' = [pc EXCEPT ![c] = "join_sleep"]
    /\ UNCHANGED <<queueVars, procVars, ticks, running_list, proc, link,
                   scanVars, target, level, threadVars>>

(* sleep_on: the caller goes to the end of the wait queue... *)
JoinLock(c) ==
    /\ pc[c] = "join_lock"
    /\ ~wait_lock[joined[c]]
    /\ wait_lock' = [wait_lock EXCEPT ![joined[c]] = TRUE]
    /\ pc' = [pc EXCEPT ![c] = "join_sleep"]
    /\ UNCHANGED <<queueVars, procVars, ticks, running_list, proc, link,
                   scanVars, target, level, waiting, joined, table>>

(* Mutant of JoinSleep: proc_join returns SCHED for BLOCK. *)
JoinSleepReadied(c) ==
    /\ pc[c] = "join_sleep"
    /\ waiting' = [waiting EXCEPT ![joined[c]] = Append(@, running_list[c])]
    /\ wait_lock' = [wait_lock EXCEPT ![joined[c]] = FALSE]
    /\ joined' = [joined EXCEPT ![c] = NoProcess]
    /\ CallReady(c, running_list[c], "next")
    /\ UNCHANGED <<queueVars, affinityset, live_procs, ticks, running_list,
                   target, level, table>>

(* ... and proc_join returns BLOCK, which enters next(). *)
JoinSleep(c) ==
    /\ pc[c] = "join_sleep"
    /\ waiting' = [waiting EXCEPT ![joined[c]] = Append(@, running_list[c])]
    /\ wait_lock' = [wait_lock EXCEPT ![joined[c]] = FALSE]
    /\ pc' = [pc EXCEPT ![c] = "next"]
    /\ joined' = [joined EXCEPT ![c] = NoProcess]
    /\ UNCHANGED <<queueVars, procVars, ticks, running_list, proc, link,
                   scanVars, target, level, table>>

-----------------------------------------------------------------------------
(* pthread_exit: only threads return, idle_proc and perf_root loop. *)
ExitMark(c) ==
    /\ pc[c] = "user"
    /\ running_list[c] \in Thread
    /\ state' = [state EXCEPT ![running_list[c]] = "ZOMBIE"]
    /\ pc' = [pc EXCEPT ![c] = "exit_count"]
    /\ UNCHANGED <<queueVars, affinityset, live_procs, ticks, running_list,
                   proc, link, scanVars, target, level, threadVars>>

ExitCount(c) ==
    /\ pc[c] = "exit_count"
    /\ live_procs' = live_procs - 1
    /\ pc' = [pc EXCEPT ![c] = "exit_lock"]
    /\ UNCHANGED <<queueVars, affinityset, state, ticks, running_list, proc,
                   link, scanVars, target, level, threadVars>>

ExitLock(c) ==
    /\ pc[c] = "exit_lock"
    /\ ~wait_lock[running_list[c]]
    /\ wait_lock' = [wait_lock EXCEPT ![running_list[c]] = TRUE]
    /\ pc' = [pc EXCEPT ![c] = "exit_alert"]
    /\ UNCHANGED <<queueVars, procVars, ticks, running_list, proc, link,
                   scanVars, target, level, waiting, joined, table>>

(* Mutant of ExitAlert: the waiter is unlinked and not readied. *)
ExitAlertDrops(c) ==
    /\ pc[c] = "exit_alert"
    /\ waiting[running_list[c]] # <<>>
    /\ waiting' = [waiting EXCEPT ![running_list[c]] = Tail(@)]
    /\ UNCHANGED <<dispatchVars, wait_lock, joined, table>>

(* alert_on: every waiter is taken out and readied, in their order. *)
ExitAlert(c) ==
    /\ pc[c] = "exit_alert"
    /\ waiting[running_list[c]] # <<>>
    /\ waiting' = [waiting EXCEPT ![running_list[c]] = Tail(@)]
    /\ CallReady(c, Head(waiting[running_list[c]]), "exit_alert")
    /\ UNCHANGED <<queueVars, affinityset, live_procs, ticks, running_list,
                   target, level, wait_lock, joined, table>>

(* Mutant of ExitUnlock: the wait queue of the dying process stays locked. *)
ExitUnlockNot(c) ==
    /\ pc[c] = "exit_alert"
    /\ waiting[running_list[c]] = <<>>
    /\ pc' = [pc EXCEPT ![c] = "exit_unlink"]
    /\ UNCHANGED <<queueVars, procVars, ticks, running_list, proc, link,
                   scanVars, target, level, threadVars>>

ExitUnlock(c) ==
    /\ pc[c] = "exit_alert"
    /\ waiting[running_list[c]] = <<>>
    /\ wait_lock' = [wait_lock EXCEPT ![running_list[c]] = FALSE]
    /\ pc' = [pc EXCEPT ![c] = "exit_unlink"]
    /\ UNCHANGED <<queueVars, procVars, ticks, running_list, proc, link,
                   scanVars, target, level, waiting, joined, table>>

(* Mutant of ExitUnlink: proc_exit returns SCHED for EXIT. *)
ExitUnlinkReadied(c) ==
    /\ pc[c] = "exit_unlink"
    /\ table' = table \ {running_list[c]}
    /\ CallReady(c, running_list[c], "next")
    /\ UNCHANGED <<queueVars, affinityset, live_procs, ticks, running_list,
                   target, level, waitVars>>

(* Mutant of ExitUnlink: proc_exit returns OK for EXIT. *)
ExitUnlinkReturns(c) ==
    /\ pc[c] = "exit_unlink"
    /\ table' = table \ {running_list[c]}
    /\ pc' = [pc EXCEPT ![c] = "user"]
    /\ UNCHANGED <<queueVars, procVars, ticks, running_list, proc, link,
                   scanVars, target, level, waitVars>>

(* The process leaves the table and EXIT enters next(). *)
ExitUnlink(c) ==
    /\ pc[c] = "exit_unlink"
    /\ table' = table \ {running_list[c]}
    /\ pc' = [pc EXCEPT ![c] = "next"]
    /\ UNCHANGED <<queueVars, procVars, ticks, running_list, proc, link,
                   scanVars, target, level, waitVars>>

-----------------------------------------------------------------------------
(* proc_create enters the new process in the table. *)
Register(p) == table' = table \cup {p} /\ UNCHANGED waitVars

ThreadCreate(c, t, m) == PthreadCreate(c, t, m) /\ Register(t)
ThreadBoot(c) ==
    \/ BootIdle(c) /\ Register(Idle(c))
    \/ BootRoot(c) /\ Register(Root(c))

ThreadInit ==
    /\ Init
    /\ waiting   = [p \in Process |-> <<>>]
    /\ wait_lock = [p \in Process |-> FALSE]
    /\ table     = {}
    /\ joined    = [c \in Core |-> NoProcess]

Scheduler(c) == Ready(c) \/ NextProc(c) \/ Pull(c) \/ Acquire(c) \/ TimeSlice(c) \/ Yield(c)

ThreadAcquire(c) == JoinLock(c) \/ ExitLock(c)

ThreadKernel(c) ==
    JoinSleep(c) \/ ExitCount(c) \/ ExitAlert(c) \/ ExitUnlock(c) \/ ExitUnlink(c)

ThreadStep(c) ==
    \/ Scheduler(c) /\ UNCHANGED threadVars
    \/ \E m \in Masks \ {{}} : SetAffinity(c, m) /\ UNCHANGED threadVars
    \/ \E t \in Thread, m \in Masks : ThreadCreate(c, t, m)
    \/ ThreadBoot(c)
    \/ \E p \in Thread : JoinLookup(c, p)
    \/ ExitMark(c)
    \/ ThreadAcquire(c)
    \/ ThreadKernel(c)

ThreadNext == \E c \in Core : ThreadStep(c)

ThreadSpec == ThreadInit /\ [][ThreadNext]_threadsVars

-----------------------------------------------------------------------------
(* The processes in a wait queue, and those a core holds or a ready queue. *)
Asleep == UNION {Range(waiting[q]) : q \in Process}
Awake  == UNION ({Holds(c) : c \in Core}
                 \cup {Range(tasks[c][i]) : c \in Core, i \in Priority})

(* Core c is inside the critical section of the wait queue of q. *)
InWaitSection(c, q) ==
    \/ pc[c] = "join_sleep" /\ joined[c] = q
    \/ pc[c] = "exit_alert" /\ running_list[c] = q
    \/ pc[c] \in ReadyPc /\ link[c] = "exit_alert" /\ running_list[c] = q

(* Every variable of the module keeps its C type. *)
ThreadTypeOK ==
    /\ TypeOK
    /\ waiting \in [Process -> Seq(Process)]
    /\ wait_lock \in [Process -> BOOLEAN]
    /\ table \subseteq Process
    /\ joined \in [Core -> Process \cup {NoProcess}]

(* A runnable process is held, queued, or asleep: a join that blocks gives *)
(* its process to the wait queue before it looks for the next one, and the *)
(* exit that takes it out gives it to a ready queue.                       *)
NoLostThread ==
    {p \in Process : state[p] = "RUNNABLE"} \subseteq Awake \cup Asleep

(* A sleeping process is in one wait queue, once, and nowhere else: the    *)
(* exiting process cannot ready it while its core still owns it.           *)
SleepersApart ==
    /\ Awake \cap Asleep = {}
    /\ \A q \in Process : \A k \in 1 .. Len(waiting[q]) :
          \A r \in Process : \A l \in 1 .. Len(waiting[r]) :
             waiting[r][l] = waiting[q][k] => r = q /\ l = k

(* At most one core is between the lock and the unlock of a wait queue,    *)
(* also while alert_on readies the waiters, and the flag is set then.      *)
WaitMutex ==
    /\ \A q \in Process : wait_lock[q] <=> \E c \in Core : InWaitSection(c, q)
    /\ \A c, d \in Core, q \in Process :
          InWaitSection(c, q) /\ InWaitSection(d, q) => c = d

(* A process that has terminated is never scheduled again: only the core   *)
(* that runs its proc_exit still has it, and not in user mode.             *)
ZombieGone ==
    \A p \in Process : state[p] = "ZOMBIE" =>
        /\ ~Queued(p) /\ p \notin Asleep
        /\ \A c \in Core : p \in Holds(c) => pc[c] # "user" /\ running_list[c] = p

(* live_procs, the divisor of sched_pickcpu, counts the processes that     *)
(* have not terminated; it is one too high inside proc_exit.               *)
LiveExact ==
    live_procs = Cardinality({p \in Process : state[p] = "RUNNABLE"})
                 + Cardinality({c \in Core : pc[c] = "exit_count"})

(* Core c spins on the lock of the ready queue or of the wait queue q. *)
WantsQueue(c, q) ==
    \/ pc[c] = "rq_lock" /\ target[c] = q
    \/ pc[c] = "next" /\ c = q
    \/ pc[c] = "busiest" /\ cpu[c] = NumCores /\ pick[c] = q /\ q # c

WantsWait(c, q) ==
    \/ pc[c] = "join_lock" /\ joined[c] = q
    \/ pc[c] = "exit_lock" /\ running_list[c] = q

Spins(c) ==
    \/ \E q \in Core : WantsQueue(c, q) /\ rq_lock[q]
    \/ \E q \in Process : WantsWait(c, q) /\ wait_lock[q]

HoldsUp(d, c) ==
    \/ \E q \in Core : WantsQueue(c, q) /\ InQueueSection(d, q)
    \/ \E q \in Process : WantsWait(c, q) /\ InWaitSection(d, q)

(* No deadlock of the two kinds of spinlocks: proc_exit takes ready        *)
(* queues' locks with a wait queue's lock held, so cores may spin behind   *)
(* each other, but any set of spinning cores waits for a core outside of   *)
(* it.  The last of them waits for one that goes on.                       *)
NoSpinCycle ==
    \A S \in SUBSET {c \in Core : Spins(c)} :
        S # {} => \E c \in S, d \in Core \ S : HoldsUp(d, c)

-----------------------------------------------------------------------------
(* "any processes blocked on the process will be scheduled" (thread.c:147).*)
(* proc_join may look the process up before it exits and sleep after it    *)
(* has woken its waiters: nobody wakes that sleeper.                       *)
NoWaiterLeft ==
    \A p \in Thread : state[p] = "ZOMBIE" /\ p \notin table => waiting[p] = <<>>

=============================================================================
