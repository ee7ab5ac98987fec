----------------------------- MODULE Semaphore ------------------------------
(***************************************************************************)
(* The semaphores of src/c/kernel/semaphore.c on top of Dispatch.  A call  *)
(* enters the kernel on a core, takes the semaphore's spinlock, and either *)
(* returns or puts its process to sleep; a post readies the sleepers while *)
(* it holds the lock.  Context adds the return values.                     *)
(***************************************************************************)
EXTENDS Dispatch

CONSTANTS
    Sem,        \* the sem_t objects of the programs
    MaxCount    \* bound: posts stop before the count exceeds it

ASSUME MaxCountAssumption == MaxCount \in Nat

VARIABLES
    sem_count,  \* sem->count, far from its 32 bits
    sem_tasks,  \* sem->tasks
    sem_lock,   \* sem->lock.flag
    usable,     \* between a sem_init and the next sem_destroy
    call        \* the semaphore call core c is in

semVars == <<sem_count, sem_tasks, sem_lock, usable, call>>
semaphoreVars == <<dispatchVars, semVars>>

Ops == {"init", "wait", "trywait", "post", "getvalue", "destroy"}

NoCall == [op |-> "none", sem |-> "none"]

InCall(c, o, s) == call[c].op = o /\ call[c].sem = s

Calling(s) == {c \in Core : call[c].op # "none" /\ call[c].sem = s}

(* A step of a call moves its core's pc, and the scheduler stays as it is. *)
SchedulerKept == UNCHANGED <<queueVars, procVars, ticks, running_list, proc,
                          link, scanVars, target, level>>

EnterCall(c, o, s, l) ==
    /\ pc[c] = "user"
    /\ running_list[c] \notin IdleProcess
    /\ call' = [call EXCEPT ![c] = [op |-> o, sem |-> s]]
    /\ pc' = [pc EXCEPT ![c] = l]
    /\ SchedulerKept

-----------------------------------------------------------------------------
(* sem_init, only called on an object nobody uses, so in one step.  It     *)
(* resets the lock, which a sem_destroy has left set.                      *)
SemInit(c, s, v) ==
    /\ ~usable[s] /\ Calling(s) = {}
    /\ EnterCall(c, "init", s, "sem_ret")
    /\ sem_lock'  = [sem_lock EXCEPT ![s] = FALSE]
    /\ sem_count' = [sem_count EXCEPT ![s] = v]
    /\ sem_tasks' = [sem_tasks EXCEPT ![s] = <<>>]
    /\ usable'    = [usable EXCEPT ![s] = TRUE]

(* A semaphore shared between processes is refused. *)
SemInitShared(c, s) ==
    /\ ~usable[s] /\ Calling(s) = {}
    /\ EnterCall(c, "init", s, "sem_ret")
    /\ UNCHANGED <<sem_count, sem_tasks, sem_lock, usable>>

(* The other calls spin for the lock first. *)
SemCall(c, s, o) ==
    /\ usable[s]
    /\ EnterCall(c, o, s, "sem_lock")
    /\ UNCHANGED <<sem_count, sem_tasks, sem_lock, usable>>

(* Posts are bounded, those in flight included. *)
SemPost(c, s) ==
    /\ sem_count[s] + Cardinality({d \in Core : InCall(d, "post", s)}) < MaxCount
    /\ SemCall(c, s, "post")

(* A program destroys a semaphore when no other call on it is running and  *)
(* makes none afterwards; processes may be asleep on it.                   *)
SemDestroy(c, s) ==
    /\ usable[s] /\ Calling(s) = {}
    /\ EnterCall(c, "destroy", s, "sem_lock")
    /\ usable' = [usable EXCEPT ![s] = FALSE]
    /\ UNCHANGED <<sem_count, sem_tasks, sem_lock>>

(* Mutant of SemLock: the flag is set without looking at it. *)
SemLockBlind(c) ==
    /\ pc[c] = "sem_lock"
    /\ sem_lock' = [sem_lock EXCEPT ![call[c].sem] = TRUE]
    /\ pc' = [pc EXCEPT ![c] = "sem_do"]
    /\ SchedulerKept
    /\ UNCHANGED <<sem_count, sem_tasks, usable, call>>

SemLock(c) ==
    /\ pc[c] = "sem_lock"
    /\ ~sem_lock[call[c].sem]
    /\ sem_lock' = [sem_lock EXCEPT ![call[c].sem] = TRUE]
    /\ pc' = [pc EXCEPT ![c] = "sem_do"]
    /\ SchedulerKept
    /\ UNCHANGED <<sem_count, sem_tasks, usable, call>>

-----------------------------------------------------------------------------
(* A path that ends a call: unlock and go on to the return value. *)
Unlock(c) ==
    /\ sem_lock' = [sem_lock EXCEPT ![call[c].sem] = FALSE]
    /\ pc' = [pc EXCEPT ![c] = "sem_ret"]
    /\ SchedulerKept
    /\ UNCHANGED call

(* Mutant of SemTake: the count is not looked at. *)
SemTakeAlways(c, s) ==
    /\ pc[c] = "sem_do"
    /\ InCall(c, "wait", s) \/ InCall(c, "trywait", s)
    /\ sem_count' = [sem_count EXCEPT ![s] = @ - 1]
    /\ Unlock(c)
    /\ UNCHANGED <<sem_tasks, usable>>

(* sem_wait and sem_trywait when there is a token. *)
SemTake(c, s) ==
    /\ pc[c] = "sem_do"
    /\ InCall(c, "wait", s) \/ InCall(c, "trywait", s)
    /\ sem_count[s] > 0
    /\ sem_count' = [sem_count EXCEPT ![s] = @ - 1]
    /\ Unlock(c)
    /\ UNCHANGED <<sem_tasks, usable>>

SemTryFails(c, s) ==
    /\ pc[c] = "sem_do"
    /\ InCall(c, "trywait", s)
    /\ sem_count[s] = 0
    /\ Unlock(c)
    /\ UNCHANGED <<sem_count, sem_tasks, usable>>

(* Mutant of SemWaitSleep: the code returned is SCHED for BLOCK. *)
SemWaitSleepReadied(c, s) ==
    /\ pc[c] = "sem_do"
    /\ InCall(c, "wait", s)
    /\ sem_count[s] = 0
    /\ sem_tasks' = [sem_tasks EXCEPT ![s] = Append(@, running_list[c])]
    /\ sem_lock' = [sem_lock EXCEPT ![s] = FALSE]
    /\ call' = [call EXCEPT ![c] = NoCall]
    /\ CallReady(c, running_list[c], "next")
    /\ UNCHANGED <<queueVars, affinityset, live_procs, ticks, running_list,
                   target, level, sem_count, usable>>

(* sem_wait without a token: to the end of the list, and unlock. *)
SemWaitSleep(c, s) ==
    /\ pc[c] = "sem_do"
    /\ InCall(c, "wait", s)
    /\ sem_count[s] = 0
    /\ sem_tasks' = [sem_tasks EXCEPT ![s] = Append(@, running_list[c])]
    /\ sem_lock' = [sem_lock EXCEPT ![s] = FALSE]
    /\ call' = [call EXCEPT ![c] = NoCall]
    /\ pc' = [pc EXCEPT ![c] = "blocked"]
    /\ SchedulerKept
    /\ UNCHANGED <<sem_count, usable>>

(* The core writes the return value of the process it has just put to      *)
(* sleep (Context says where), and BLOCK enters next().                    *)
SemBlocked(c) ==
    /\ pc[c] = "blocked"
    /\ pc' = [pc EXCEPT ![c] = "next"]
    /\ SchedulerKept
    /\ UNCHANGED semVars

(* Mutant of SemPostCount: the count goes up whoever sleeps. *)
SemPostCountAlways(c, s) ==
    /\ pc[c] = "sem_do"
    /\ InCall(c, "post", s)
    /\ sem_count' = [sem_count EXCEPT ![s] = @ + 1]
    /\ Unlock(c)
    /\ UNCHANGED <<sem_tasks, usable>>

SemPostCount(c, s) ==
    /\ pc[c] = "sem_do"
    /\ InCall(c, "post", s)
    /\ sem_tasks[s] = <<>>
    /\ sem_count' = [sem_count EXCEPT ![s] = @ + 1]
    /\ Unlock(c)
    /\ UNCHANGED <<sem_tasks, usable>>

(* A post that finds sleepers, and every destroy, alerts them. *)
SemAlertBegin(c, s) ==
    /\ pc[c] = "sem_do"
    /\ InCall(c, "destroy", s) \/ (InCall(c, "post", s) /\ sem_tasks[s] # <<>>)
    /\ pc' = [pc EXCEPT ![c] = "sem_alert"]
    /\ SchedulerKept
    /\ UNCHANGED semVars

(* Mutant of SemAlert: the sleeper is unlinked and never readied. *)
SemAlertDrops(c, s) ==
    /\ pc[c] = "sem_alert"
    /\ call[c].sem = s
    /\ sem_tasks[s] # <<>>
    /\ sem_tasks' = [sem_tasks EXCEPT ![s] = Tail(@)]
    /\ UNCHANGED <<dispatchVars, sem_count, sem_lock, usable, call>>

(* alert_on_locked_nr: unlink and ready the next one.  nr is compared with *)
(* zero before every step and never counted down.                          *)
SemAlert(c, s) ==
    /\ pc[c] = "sem_alert"
    /\ call[c].sem = s
    /\ sem_tasks[s] # <<>>
    /\ sem_tasks' = [sem_tasks EXCEPT ![s] = Tail(@)]
    /\ CallReady(c, Head(sem_tasks[s]), "sem_alert")
    /\ UNCHANGED <<queueVars, affinityset, live_procs, ticks, running_list,
                   target, level, sem_count, sem_lock, usable, call>>

SemPostEnd(c, s) ==
    /\ pc[c] = "sem_alert"
    /\ InCall(c, "post", s)
    /\ sem_tasks[s] = <<>>
    /\ Unlock(c)
    /\ UNCHANGED <<sem_count, sem_tasks, usable>>

(* sem_destroy returns with the lock held. *)
SemDestroyEnd(c, s) ==
    /\ pc[c] = "sem_alert"
    /\ InCall(c, "destroy", s)
    /\ sem_tasks[s] = <<>>
    /\ pc' = [pc EXCEPT ![c] = "sem_ret"]
    /\ SchedulerKept
    /\ UNCHANGED semVars

SemGetValue(c, s) ==
    /\ pc[c] = "sem_do"
    /\ InCall(c, "getvalue", s)
    /\ Unlock(c)
    /\ UNCHANGED <<sem_count, sem_tasks, usable>>

-----------------------------------------------------------------------------
(* current->ret is written, ... *)
SemRet(c) ==
    /\ pc[c] = "sem_ret"
    /\ pc' = [pc EXCEPT ![c] = "sem_out"]
    /\ SchedulerKept
    /\ UNCHANGED semVars

(* ... and OK goes back to the process through switch_to. *)
SemOut(c) ==
    /\ pc[c] = "sem_out"
    /\ call' = [call EXCEPT ![c] = NoCall]
    /\ pc' = [pc EXCEPT ![c] = "user"]
    /\ SchedulerKept
    /\ UNCHANGED <<sem_count, sem_tasks, sem_lock, usable>>

-----------------------------------------------------------------------------
SemaphoreInit ==
    /\ Init
    /\ sem_count = [s \in Sem |-> 0]
    /\ sem_tasks = [s \in Sem |-> <<>>]
    /\ sem_lock  = [s \in Sem |-> FALSE]
    /\ usable    = [s \in Sem |-> FALSE]
    /\ call      = [c \in Core |-> NoCall]

SemCalls(c, s) ==
    \/ \E v \in 0 .. MaxCount : SemInit(c, s, v)
    \/ SemInitShared(c, s)
    \/ \E o \in {"wait", "trywait", "getvalue"} : SemCall(c, s, o)
    \/ SemPost(c, s)
    \/ SemDestroy(c, s)

SemKernel(c) ==
    \/ \E s \in Sem :
          \/ SemTake(c, s) \/ SemTryFails(c, s) \/ SemWaitSleep(c, s)
          \/ SemPostCount(c, s) \/ SemAlertBegin(c, s) \/ SemAlert(c, s)
          \/ SemPostEnd(c, s) \/ SemDestroyEnd(c, s) \/ SemGetValue(c, s)
    \/ SemBlocked(c) \/ SemRet(c) \/ SemOut(c)

SemaphoreStep(c) ==
    \/ CoreStep(c) /\ UNCHANGED semVars
    \/ \E s \in Sem : SemCalls(c, s)
    \/ SemLock(c)
    \/ SemKernel(c)

SemaphoreNext == \E c \in Core : SemaphoreStep(c)

SemaphoreSpec == SemaphoreInit /\ [][SemaphoreNext]_semaphoreVars

(* As in Dispatch, with the kernel paths and the lock of this module. *)
SemaphoreFairness ==
    \A c \in Core :
        /\ WF_semaphoreVars(SemKernel(c))
        /\ WF_semaphoreVars(Kernel(c) /\ UNCHANGED semVars)
        /\ SF_semaphoreVars(SemLock(c))
        /\ SF_semaphoreVars(Acquire(c) /\ UNCHANGED semVars)
        /\ SF_semaphoreVars(Reschedule(c) /\ UNCHANGED semVars)

SemaphoreFairSpec == SemaphoreSpec /\ SemaphoreFairness

-----------------------------------------------------------------------------
(* p is asleep on s. *)
SleepsOn(p, s) == \E k \in 1 .. Len(sem_tasks[s]) : sem_tasks[s][k] = p

(* Core c is readying the sleepers of s. *)
Alerting(c, s) ==
    /\ call[c].sem = s
    /\ pc[c] = "sem_alert" \/ (pc[c] \in ReadyPc /\ link[c] = "sem_alert")

(* Core c is inside the critical section of s. *)
InSemSection(c, s) == Alerting(c, s) \/ (pc[c] = "sem_do" /\ call[c].sem = s)

(* Core c is in a destroy of s that has taken the lock, or has ended it. *)
Destroyed(s) ==
    /\ ~usable[s] /\ sem_lock[s]
    /\ ~\E c \in Core : InSemSection(c, s)

(* Every variable of the module keeps its C type. *)
SemTypeOK ==
    /\ TypeOK
    /\ sem_count \in [Sem -> Nat]
    /\ sem_tasks \in [Sem -> Seq(Process)]
    /\ sem_lock \in [Sem -> BOOLEAN]
    /\ usable \in [Sem -> BOOLEAN]
    /\ call \in [Core -> [op : Ops, sem : Sem] \cup {NoCall}]

(* No lost wake-up: nobody is asleep on a semaphore that has a token,      *)
(* whichever way the waits and posts of the cores interleave.              *)
NoSleeperWithToken == \A s \in Sem : sem_count[s] > 0 => sem_tasks[s] = <<>>

(* Mutual exclusion: at most one core is between the lock and the unlock   *)
(* of a semaphore, also while it readies the sleepers, which takes the     *)
(* ready queues' locks; the flag is set then, and after a destroy.         *)
SemMutex ==
    /\ \A s \in Sem : sem_lock[s] <=> Destroyed(s) \/ \E c \in Core : InSemSection(c, s)
    /\ \A c, d \in Core, s \in Sem :
          InSemSection(c, s) /\ InSemSection(d, s) => c = d

(* A runnable process is held, queued or asleep: a wait gives its process  *)
(* to the semaphore before it leaves it, and a post, or a destroy of a     *)
(* semaphore with sleepers, hands every sleeper to a ready queue.          *)
NoLostSleeper ==
    \A p \in Process : state[p] = "RUNNABLE" =>
        \/ Queued(p) \/ \E c \in Core : p \in Holds(c)
        \/ \E s \in Sem : SleepsOn(p, s)

(* A process is asleep on one semaphore, once, and nowhere else: a post    *)
(* cannot ready it while the core that put it to sleep still owns it.      *)
SemSleepersApart ==
    \A s \in Sem : \A k \in 1 .. Len(sem_tasks[s]) :
        LET p == sem_tasks[s][k] IN
        /\ ~Queued(p) /\ \A c \in Core : p \notin Holds(c)
        /\ \A r \in Sem : \A l \in 1 .. Len(sem_tasks[r]) :
              sem_tasks[r][l] = p => r = s /\ l = k

-----------------------------------------------------------------------------
(* The atomic semaphore this module implements.  A sleeper is one until a  *)
(* post or destroy decides to alert it.                                    *)
StillAsleep ==
    [s \in Sem |-> {p \in Process : SleepsOn(p, s) /\ ~\E c \in Core : Alerting(c, s)}]

Abstract == INSTANCE AbstractSemaphore
    WITH Sleeper <- Process, open <- usable, value <- sem_count,
         sleepers <- StillAsleep

(* The calls are atomic: whatever the other cores do between the steps of  *)
(* a call, it changes the tokens and the sleepers in one step, and a post  *)
(* that finds sleepers releases them instead of adding a token.            *)
Atomic == Abstract!PulseSpec

(* A process that a post or a destroy decides to wake runs again: the      *)
(* alert comes to its end though it waits for ready queues' locks.         *)
WokenRuns ==
    \A p \in Process \ IdleProcess, s \in Sem :
        (SleepsOn(p, s) /\ \E c \in Core : Alerting(c, s)) ~> Runs(p)

=============================================================================
