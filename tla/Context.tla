------------------------------ MODULE Context -------------------------------
(***************************************************************************)
(* Register x0 across the kernel (src/asm/vectors64.s, context.c) on top   *)
(* of Semaphore.  An exception saves the registers of the current process  *)
(* in a frame on its stack; switch_to overwrites x0 of the frame with      *)
(* process->ret, which the system calls write, and the exception returns   *)
(* to whatever process is current then.                                    *)
(***************************************************************************)
EXTENDS Semaphore

VARIABLES
    ret,    \* process->ret
    x0,     \* x0 of the process, in its frame or on the core it runs on
    due     \* history: why the process is in the kernel, and the x0 it is due

ctxVars == <<ret, x0, due>>
contextVars == <<semaphoreVars, ctxVars>>

(* errno.h, and a value the program has computed. *)
EAGAIN == 11
ENOSYS == 88
OWN    == 1

(* What p must find in x0: the result of its call, or what it had there    *)
(* when the timer interrupted it.  sched_yield has no result of its own.   *)
Owe(p, w, v) == due' = [due EXCEPT ![p] = [why |-> w, x0 |-> v]]

(* The registers a system call saves: x0 holds nothing of interest. *)
SaveRequest(c) == x0' = [x0 EXCEPT ![running_list[c]] = 0]

(* switch_to of the process that is current when core c leaves the kernel. *)
SwitchTo(c) ==
    x0' = IF pc'[c] = "user"
          THEN [x0 EXCEPT ![running_list'[c]] = ret'[running_list'[c]]]
          ELSE x0

-----------------------------------------------------------------------------
(* An exception saves the program's x0 in the frame: any value it computed *)
(* when the timer interrupts it, the request at a system call.             *)
EnterTimer(c) ==
    /\ TimeSlice(c)
    /\ \E v \in IF running_list[c] \in IdleProcess THEN {0} ELSE {0, OWN} :
          /\ x0' = [x0 EXCEPT ![running_list[c]] = v]
          /\ Owe(running_list[c], "timer", v)
    /\ UNCHANGED <<semVars, ret>>

EnterYield(c) ==
    /\ Yield(c)
    /\ Owe(running_list[c], "none", 0)
    /\ SaveRequest(c)
    /\ UNCHANGED <<semVars, ret>>

(* sched_setaffinity writes ret and may return to the process at once. *)
EnterAffinity(c, m) ==
    /\ SetAffinity(c, m)
    /\ ret' = [ret EXCEPT ![running_list[c]] = 0]
    /\ Owe(running_list[c], "call", 0)
    /\ SwitchTo(c)
    /\ UNCHANGED semVars

(* proc_create: 0 for the caller, and the argument of the new thread's     *)
(* start routine is its ret.                                               *)
EnterCreate(c, t, m) ==
    /\ PthreadCreate(c, t, m)
    /\ ret' = [ret EXCEPT ![running_list[c]] = 0, ![t] = OWN]
    /\ due' = [due EXCEPT ![running_list[c]] = [why |-> "call", x0 |-> 0],
                          ![t] = [why |-> "call", x0 |-> OWN]]
    /\ SaveRequest(c)
    /\ UNCHANGED semVars

(* The value a semaphore call is to return, known when it is decided. *)
EnterSem(c) ==
    /\ \E s \in Sem :
          \/ SemInitShared(c, s) /\ Owe(running_list[c], "call", ENOSYS)
          \/ /\ \/ \E v \in 0 .. MaxCount : SemInit(c, s, v)
                \/ \E o \in {"wait", "trywait", "getvalue"} : SemCall(c, s, o)
                \/ SemPost(c, s)
                \/ SemDestroy(c, s)
             /\ Owe(running_list[c], "call", 0)
    /\ SaveRequest(c)
    /\ UNCHANGED ret

TryFails(c, s) ==
    /\ SemTryFails(c, s)
    /\ Owe(running_list[c], "call", EAGAIN)
    /\ UNCHANGED <<ret, x0>>

(* current->ret = result.  Each core knows its result, which is what it    *)
(* owes the process it is current for.                                     *)
WriteRet(c) ==
    /\ SemRet(c)
    /\ ret' = [ret EXCEPT ![running_list[c]] = due[running_list[c]].x0]
    /\ UNCHANGED <<x0, due>>

(* __sem_wait writes ret of the process it has put to sleep and unlocked,  *)
(* through current, though it may be awake on another core.                *)
WriteBlocked(c) ==
    /\ SemBlocked(c)
    /\ ret' = [ret EXCEPT ![running_list[c]] = 0]
    /\ UNCHANGED <<x0, due>>

LeaveSem(c) ==
    /\ SemOut(c)
    /\ UNCHANGED <<ret, due>>
    /\ SwitchTo(c)

SemInside(c) ==
    /\ \/ SemLock(c)
       \/ \E s \in Sem :
             \/ SemTake(c, s) \/ SemWaitSleep(c, s) \/ SemPostCount(c, s)
             \/ SemAlertBegin(c, s) \/ SemAlert(c, s) \/ SemPostEnd(c, s)
             \/ SemDestroyEnd(c, s) \/ SemGetValue(c, s)
    /\ UNCHANGED ctxVars

(* The kernel path, which ends in switch_to. *)
KernelPath(c) ==
    /\ Kernel(c) \/ Acquire(c)
    /\ UNCHANGED <<semVars, ret, due>>
    /\ SwitchTo(c)

-----------------------------------------------------------------------------
ContextInit ==
    /\ SemaphoreInit
    /\ ret = [p \in Process |-> 0]
    /\ x0  = [p \in Process |-> 0]
    /\ due = [p \in Process |-> [why |-> "none", x0 |-> 0]]

ContextStep(c) ==
    \/ EnterTimer(c) \/ EnterYield(c)
    \/ \E m \in Masks \ {{}} : EnterAffinity(c, m)
    \/ \E t \in Thread, m \in Masks : EnterCreate(c, t, m)
    \/ EnterSem(c)
    \/ \E s \in Sem : TryFails(c, s)
    \/ WriteRet(c) \/ WriteBlocked(c) \/ LeaveSem(c)
    \/ SemInside(c)
    \/ KernelPath(c)

ContextNext == \E c \in Core : ContextStep(c)

ContextSpec == ContextInit /\ [][ContextNext]_contextVars

-----------------------------------------------------------------------------
(* What p finds in x0 is what it is due. *)
Finds(p, w) == due[p].why = w => x0[p] = due[p].x0

(* A process that comes back from a system call finds the result of that   *)
(* call, also when it has slept and other processes have made calls, and   *)
(* a new thread finds its argument.  Proved in ContextProofs for one core, *)
(* and for any number of cores on which nobody is woken too early.         *)
ResultDelivered ==
    \A c \in Core : pc[c] = "user" => Finds(running_list[c], "call")

-----------------------------------------------------------------------------

=============================================================================
