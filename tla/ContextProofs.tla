---------------------------- MODULE ContextProofs ----------------------------
(***************************************************************************)
(* Proofs about Context, for every number of cores, every set of threads   *)
(* and of semaphores: the only way a process can miss the result of its    *)
(* call is to be woken before the core that put it to sleep has written    *)
(* its ret.  On one core that cannot happen.                               *)
(***************************************************************************)
EXTENDS Context, SemaphoreProofs

(* Nobody wakes a process whose core has still to write its ret.           *)
Timely == \A c \in Core : pc[c] = "blocked" => \E s \in Sem : SleepsOn(running_list[c], s)

(* Core c is in a call of its current process and has still to write ret.  *)
ToWrite(c) == pc[c] \in {"sem_lock", "sem_do", "sem_ret", "blocked"} \/ Waking(c)

(* What core c does next does not matter for ret of p. *)
Free(c, p) == running_list[c] = p => pc[c] # "user" /\ ~ToWrite(c)

(* Everybody who is not in user mode nor in a call before the write of ret *)
(* has in ret what it is due.                                              *)
RetInv ==
    \A p \in Process :
        due[p].why = "call" /\ (\A c \in Core : Free(c, p)) => ret[p] = due[p].x0

OWED == [why |-> "call", x0 |-> 0]

(* A call that has decided nothing yet, or to sleep, will return zero. *)
ZeroInv ==
    \A c \in Core : pc[c] \in {"sem_lock", "sem_do", "blocked"} => due[running_list[c]] = OWED

Result == [why : {"none", "timer", "call"}, x0 : Int]

CtxTypeOK ==
    /\ ret \in [Process -> Int]
    /\ x0 \in [Process -> Int]
    /\ due \in [Process -> Result]

CtxInv == CtxTypeOK /\ ResultDelivered /\ RetInv /\ ZeroInv

-----------------------------------------------------------------------------
(* Every step of Context is one of Semaphore, if the registers are left    *)
(* out.                                                                    *)
LEMMA ContextIsSemaphore ==
    ASSUME NEW c \in Core, ContextStep(c) PROVE SemaphoreStep(c)
<1>1. CASE \/ EnterTimer(c) \/ EnterYield(c)
           \/ \E m \in Masks \ {{}} : EnterAffinity(c, m)
           \/ \E t \in Thread, m \in Masks : EnterCreate(c, t, m)
           \/ KernelPath(c)
    <2>1. CoreStep(c) /\ UNCHANGED semVars
        BY <1>1 DEF EnterTimer, EnterYield, EnterAffinity, EnterCreate, KernelPath,
                    CoreStep, SysCall
    <2> QED
        BY <2>1 DEF SemaphoreStep
<1>2. CASE EnterSem(c)
    BY <1>2 DEF EnterSem, SemaphoreStep, SemCalls
<1>3. CASE \/ \E s \in Sem : TryFails(c, s)
           \/ WriteRet(c) \/ WriteBlocked(c) \/ LeaveSem(c) \/ SemInside(c)
    BY <1>3 DEF TryFails, WriteRet, WriteBlocked, LeaveSem, SemInside, SemaphoreStep, SemKernel
<1> QED
    BY <1>1, <1>2, <1>3 DEF ContextStep

LEMMA ContextSteps ==
    [ContextNext]_contextVars => [SemaphoreNext]_semaphoreVars
BY ContextIsSemaphore DEF ContextNext, SemaphoreNext, contextVars

LEMMA ContextSem == ContextSpec => []SemInv
<1>1. ContextInit => SemaphoreInit
    BY DEF ContextInit
<1> QED
    BY <1>1, ContextSteps, SemaphoreAlways, PTL DEF ContextSpec, SemaphoreSpec

-----------------------------------------------------------------------------
(* The process of a core in user mode, or in a call before the write, is a *)
(* process, and another core has not got it.                               *)
LEMMA Current ==
    ASSUME SemInv, Timely, NEW d \in Core, pc[d] = "user" \/ ToWrite(d)
    PROVE  /\ running_list[d] \in Process
           /\ \A c \in Core \ {d} : running_list[d] \notin Holds(c)
           /\ state[running_list[d]] # "UNUSED"
<1>0. BaseInv /\ Placed
    BY DEF SemInv
<1>1. CASE pc[d] = "blocked"
    <2>1. PICK s \in Sem : SleepsOn(running_list[d], s)
        BY <1>1 DEF Timely
    <2>2. sem_tasks \in [Sem -> Seq(Process)]
        BY DEF SemInv, SemTypeOK
    <2>3. running_list[d] \in Process /\ In(sem_tasks, running_list[d])
        BY <2>1, <2>2 DEF SleepsOn, In
    <2>4. state[running_list[d]] = "RUNNABLE"
        BY <2>3 DEF SemInv, SleepInv
    <2> QED
        BY <2>3, <2>4, HeldLives
<1>2. CASE pc[d] # "blocked"
    <2>1. Owns(d)
        BY <1>2 DEF ToWrite, Waking, Owns, NextPc, ReadyPc, LetsGo
    <2>2. running_list[d] \in Holds(d)
        BY <1>0, <2>1 DEF BaseInv, HolderInv, Holds
    <2>3. running_list[d] \in Process /\ state[running_list[d]] # "UNUSED"
        BY <1>0, <2>2 DEF Holds, Placed, ExistInv
    <2> QED
        BY <1>0, <2>2, <2>3 DEF Placed, OnePlace
<1> QED
    BY <1>1, <1>2

(* The places of the other cores are unchanged. *)
Stay(c) ==
    \A d \in Core \ {c} :
        pc'[d] = pc[d] /\ link'[d] = link[d] /\ running_list'[d] = running_list[d]

(* A process in W is nobody's but c's: its registers are c's to change. *)
OnlyMine(c, W) ==
    \A p \in W : \A d \in Core \ {c} : pc[d] = "user" \/ ToWrite(d) => running_list[d] # p

LEMMA HeldIsMine ==
    ASSUME SemInv, Timely, NEW c \in Core, NEW W,
           \A p \in W : p \in Holds(c) \/ state[p] = "UNUSED"
    PROVE  OnlyMine(c, W)
BY Current DEF OnlyMine

(* A step of core c that changes the registers of the processes in W.      *)
LEMMA RegisterStep ==
    ASSUME SemInv, Timely, CtxInv, CtxTypeOK', NEW c \in Core, NEW W, Stay(c), OnlyMine(c, W),
           \A p \in Process \ W : /\ ret'[p] = ret[p] /\ x0'[p] = x0[p] /\ due'[p] = due[p]
                                  /\ Free(c, p)' => Free(c, p),
           \A p \in W : Free(c, p)' /\ due'[p].why = "call" => ret'[p] = due'[p].x0,
           pc'[c] = "user" => Finds(running_list[c], "call")',
           pc'[c] \in {"sem_lock", "sem_do", "blocked"} => due'[running_list'[c]] = OWED
    PROVE  CtxInv'
<1>1. ASSUME NEW d \in Core \ {c}
      PROVE  /\ ToWrite(d)' <=> ToWrite(d)
             /\ \A p : Free(d, p)' <=> Free(d, p)
             /\ pc[d] = "user" \/ ToWrite(d) =>
                   /\ running_list[d] \in Process \ W
                   /\ running_list'[d] = running_list[d]
    BY Current DEF Stay, ToWrite, Waking, Free, OnlyMine
<1>2. ResultDelivered'
    <2>1. ASSUME NEW d \in Core \ {c}, pc'[d] = "user" PROVE Finds(running_list[d], "call")'
        BY <1>1, <2>1 DEF Stay, CtxInv, ResultDelivered, Finds
    <2> QED
        BY <2>1 DEF ResultDelivered
<1>3. RetInv'
    <2>1. ASSUME NEW p \in Process, \A d \in Core : Free(d, p)', due'[p].why = "call", p \notin W
          PROVE  ret'[p] = due'[p].x0
        BY <1>1, <2>1 DEF CtxInv, RetInv
    <2> QED
        BY <2>1 DEF RetInv
<1>4. ZeroInv'
    <2>1. ASSUME NEW d \in Core \ {c}, pc'[d] \in {"sem_lock", "sem_do", "blocked"}
          PROVE  due'[running_list'[d]] = OWED
        BY <1>1, <2>1 DEF Stay, CtxInv, ZeroInv, ToWrite
    <2> QED
        BY <2>1 DEF ZeroInv
<1> QED
    BY <1>2, <1>3, <1>4 DEF CtxInv

-----------------------------------------------------------------------------
LEMMA OthersStay == ASSUME NEW c \in Core, Others(c) PROVE Stay(c)
BY DEF Others, Stay

(* A core in user mode has its current process. *)
LEMMA UserHolds ==
    ASSUME SemInv, NEW c \in Core, pc[c] = "user"
    PROVE  /\ running_list[c] \in Process /\ running_list[c] \in Holds(c)
           /\ state[running_list[c]] # "UNUSED"
<1>1. Owns(c)
    BY DEF Owns, NextPc, ReadyPc
<1>2. running_list[c] \in Process
    BY <1>1 DEF SemInv, BaseInv, HolderInv
<1>3. running_list[c] \in Holds(c)
    BY <1>1, <1>2 DEF Holds
<1> QED
    BY <1>2, <1>3, HeldLives

(* An exception leads to ready(), to the pull, or back to the process. *)
LEMMA ExceptionPath ==
    ASSUME SemInv, NEW c \in Core,
           \/ TimeSlice(c) \/ Yield(c)
           \/ \E m \in Masks \ {{}} : SetAffinity(c, m)
           \/ \E t \in Thread, m \in Masks : PthreadCreate(c, t, m)
    PROVE  /\ pc[c] = "user" /\ running_list' = running_list /\ Stay(c)
           /\ pc'[c] \in {"busiest", "pick", "user"}
           /\ pc'[c] = "pick" => link'[c] \in {"next", "user"}
           /\ pc'[c] = "user" => \E m \in Masks \ {{}} : SetAffinity(c, m)
           /\ ~ToWrite(c)'
<1>0. BaseInv /\ Placed /\ TypeOK
    BY DEF SemInv, BaseInv
<1>1. Stay(c)
    <2>1. CoreStep(c)
        BY DEF CoreStep, SysCall
    <2> QED
        BY <1>0, <2>1, StepPlaced, OthersStay
<1>2. CASE TimeSlice(c)
    <2>1. /\ pc[c] = "user" /\ running_list' = running_list
          /\ \/ pc' = [pc EXCEPT ![c] = "busiest"]
             \/ CallReady(c, running_list[c], "next")
        BY <1>2 DEF TimeSlice
    <2>2. pc'[c] = "busiest" \/ (pc'[c] = "pick" /\ link'[c] = "next")
        BY <1>0, <2>1 DEF CallReady, TypeOK
    <2> QED
        BY <1>1, <2>1, <2>2 DEF ToWrite, Waking, ReadyPc
<1>3. CASE Yield(c)
    <2>1. pc[c] = "user" /\ running_list' = running_list /\ CallReady(c, running_list[c], "next")
        BY <1>3 DEF Yield
    <2>2. pc'[c] = "pick" /\ link'[c] = "next"
        BY <1>0, <2>1 DEF CallReady, TypeOK
    <2> QED
        BY <1>1, <2>1, <2>2 DEF ToWrite, Waking, ReadyPc
<1>4. ASSUME NEW m \in Masks \ {{}}, SetAffinity(c, m)
      PROVE  /\ pc[c] = "user" /\ running_list' = running_list
             /\ \/ pc'[c] = "pick" /\ link'[c] = "next"
                \/ pc'[c] = "user"
    <2>1. /\ pc[c] = "user" /\ running_list' = running_list
          /\ CallReady(c, running_list[c], "next") \/ pc' = pc
        BY <1>4 DEF SetAffinity
    <2> QED
        BY <1>0, <2>1 DEF CallReady, TypeOK
<1>5. ASSUME NEW t \in Thread, NEW m \in Masks, PthreadCreate(c, t, m)
      PROVE  /\ pc[c] = "user" /\ running_list' = running_list
             /\ pc'[c] = "pick" /\ link'[c] = "user"
    <2>1. pc[c] = "user" /\ running_list' = running_list /\ CallReady(c, t, "user")
        BY <1>5 DEF PthreadCreate, ProcCreate
    <2> QED
        BY <1>0, <2>1 DEF CallReady, TypeOK
<1> QED
    BY <1>1, <1>2, <1>3, <1>4, <1>5 DEF ToWrite, Waking, ReadyPc

LEMMA TimerKeeps ==
    ASSUME SemInv, Timely, CtxInv, NEW c \in Core, EnterTimer(c) PROVE CtxInv'
<1>0. PICK q : q = running_list[c]
    OBVIOUS
<1>1. PICK v \in {0, OWN} :
         /\ q = running_list[c]
         /\ x0' = [x0 EXCEPT ![q] = v]
         /\ due' = [due EXCEPT ![q] = [why |-> "timer", x0 |-> v]]
         /\ ret' = ret /\ TimeSlice(c)
    <2>1. (IF q \in IdleProcess THEN {0} ELSE {0, OWN}) \subseteq {0, OWN}
        OBVIOUS
    <2> QED
        BY <1>0, <2>1 DEF EnterTimer, Owe
<1>2. /\ pc[c] = "user" /\ running_list' = running_list /\ Stay(c)
      /\ pc'[c] \in {"busiest", "pick", "user"}
    BY <1>1, ExceptionPath
<1>3. q \in Process /\ q \in Holds(c)
    BY <1>1, <1>2, UserHolds
<1>4. v \in Int
    BY DEF OWN
<1>5. CtxTypeOK' /\ due'[q].why = "timer"
    BY <1>1, <1>3, <1>4 DEF CtxInv, CtxTypeOK, Result
<1>6. \A p \in Process \ {q} : /\ ret'[p] = ret[p] /\ x0'[p] = x0[p] /\ due'[p] = due[p]
                               /\ Free(c, p)' => Free(c, p)
    BY <1>1 DEF CtxInv, CtxTypeOK, Free
<1>7. OnlyMine(c, {q})
    BY <1>3, HeldIsMine
<1> QED
    BY <1>1, <1>2, <1>5, <1>6, <1>7, RegisterStep DEF Finds

LEMMA YieldKeeps ==
    ASSUME SemInv, Timely, CtxInv, NEW c \in Core, EnterYield(c) PROVE CtxInv'
<1>1. PICK q :
         /\ q = running_list[c]
         /\ x0' = [x0 EXCEPT ![q] = 0]
         /\ due' = [due EXCEPT ![q] = [why |-> "none", x0 |-> 0]]
         /\ ret' = ret /\ Yield(c)
    BY DEF EnterYield, Owe, SaveRequest
<1>2. /\ pc[c] = "user" /\ running_list' = running_list /\ Stay(c)
      /\ pc'[c] \in {"busiest", "pick", "user"}
    BY <1>1, ExceptionPath
<1>3. q \in Process /\ q \in Holds(c)
    BY <1>1, <1>2, UserHolds
<1>4. CtxTypeOK' /\ due'[q].why = "none"
    BY <1>1, <1>3 DEF CtxInv, CtxTypeOK, Result
<1>5. \A p \in Process \ {q} : /\ ret'[p] = ret[p] /\ x0'[p] = x0[p] /\ due'[p] = due[p]
                               /\ Free(c, p)' => Free(c, p)
    BY <1>1 DEF CtxInv, CtxTypeOK, Free
<1>6. OnlyMine(c, {q})
    BY <1>3, HeldIsMine
<1> QED
    BY <1>1, <1>2, <1>4, <1>5, <1>6, RegisterStep DEF Finds

LEMMA AffinityKeeps ==
    ASSUME SemInv, Timely, CtxInv, NEW c \in Core, NEW m \in Masks \ {{}}, EnterAffinity(c, m)
    PROVE  CtxInv'
<1>1. PICK q :
         /\ q = running_list[c]
         /\ ret' = [ret EXCEPT ![q] = 0]
         /\ due' = [due EXCEPT ![q] = OWED]
         /\ SwitchTo(c) /\ SetAffinity(c, m)
    BY DEF EnterAffinity, Owe, OWED
<1>2. /\ pc[c] = "user" /\ running_list' = running_list /\ Stay(c)
      /\ pc'[c] \in {"busiest", "pick", "user"}
    BY <1>1, ExceptionPath
<1>3. q \in Process /\ q \in Holds(c)
    BY <1>1, <1>2, UserHolds
<1>4. /\ due'[q] = OWED /\ ret'[q] = 0 /\ ret' \in [Process -> Int]
      /\ due' \in [Process -> Result]
    BY <1>1, <1>3 DEF CtxInv, CtxTypeOK, Result, OWED
<1>5. /\ x0' \in [Process -> Int]
      /\ \A p \in Process \ {q} : x0'[p] = x0[p]
      /\ pc'[c] = "user" => x0'[q] = 0
    BY <1>1, <1>2, <1>3, <1>4 DEF SwitchTo, CtxInv, CtxTypeOK
<1>6. \A p \in Process \ {q} : /\ ret'[p] = ret[p] /\ x0'[p] = x0[p] /\ due'[p] = due[p]
                               /\ Free(c, p)' => Free(c, p)
    BY <1>1, <1>2, <1>5 DEF CtxInv, CtxTypeOK, Free
<1>7. OnlyMine(c, {q})
    BY <1>3, HeldIsMine
<1>8. pc'[c] = "user" => Finds(running_list[c], "call")'
    BY <1>1, <1>2, <1>4, <1>5 DEF Finds, OWED
<1>9. CtxTypeOK'
    BY <1>4, <1>5 DEF CtxTypeOK
<1> QED
    BY <1>2, <1>4, <1>6, <1>7, <1>8, <1>9, RegisterStep DEF OWED

(* The creator gets zero; the new process is nobody's yet.                 *)
LEMMA CreateRetKeeps ==
    ASSUME SemInv, Timely, CtxInv, NEW c \in Core, NEW t \in Thread, NEW m \in Masks,
           EnterCreate(c, t, m)
    PROVE  CtxInv'
<1>1. PICK q :
         /\ q = running_list[c]
         /\ ret' = [ret EXCEPT ![q] = 0, ![t] = OWN]
         /\ due' = [due EXCEPT ![q] = OWED, ![t] = [why |-> "call", x0 |-> OWN]]
         /\ x0' = [x0 EXCEPT ![q] = 0] /\ PthreadCreate(c, t, m)
    BY DEF EnterCreate, SaveRequest, OWED
<1>2. /\ pc[c] = "user" /\ running_list' = running_list /\ Stay(c)
      /\ pc'[c] \in {"busiest", "pick"}
    <2>1. pc'[c] # "user"
        BY <1>1 DEF PthreadCreate, ProcCreate, CallReady, SemInv, BaseInv, TypeOK
    <2> QED
        BY <1>1, <2>1, ExceptionPath
<1>3. q \in Process /\ q \in Holds(c) /\ t \in Process /\ state[t] = "UNUSED" /\ q # t
    BY <1>1, <1>2, UserHolds, ProcessFacts DEF PthreadCreate, ProcCreate
<1>4. /\ due'[q] = OWED /\ ret'[q] = 0 /\ ret' \in [Process -> Int]
      /\ due'[t] = [why |-> "call", x0 |-> OWN] /\ ret'[t] = OWN
      /\ due' \in [Process -> Result] /\ x0' \in [Process -> Int]
    BY <1>1, <1>3 DEF CtxInv, CtxTypeOK, Result, OWED, OWN
<1>5. \A p \in Process \ {q, t} : /\ ret'[p] = ret[p] /\ x0'[p] = x0[p] /\ due'[p] = due[p]
                                  /\ Free(c, p)' => Free(c, p)
    BY <1>1, <1>2 DEF CtxInv, CtxTypeOK, Free
<1>6. OnlyMine(c, {q, t})
    BY <1>3, HeldIsMine
<1>7. \A p \in {q, t} : ret'[p] = due'[p].x0
    BY <1>4 DEF OWED
<1> QED
    BY <1>2, <1>4, <1>5, <1>6, <1>7, RegisterStep DEF CtxTypeOK

-----------------------------------------------------------------------------
(* A core that has still to write ret has its process, but when asleep. *)
LEMMA CallHolds ==
    ASSUME SemInv, NEW c \in Core, ToWrite(c) \/ pc[c] = "sem_out", pc[c] # "blocked"
    PROVE  /\ running_list[c] \in Process /\ running_list[c] \in Holds(c)
           /\ state[running_list[c]] # "UNUSED"
<1>1. Owns(c)
    BY DEF ToWrite, Waking, Owns, NextPc, ReadyPc, LetsGo
<1>2. running_list[c] \in Process
    BY <1>1 DEF SemInv, BaseInv, HolderInv
<1>3. running_list[c] \in Holds(c)
    BY <1>1, <1>2 DEF Holds
<1> QED
    BY <1>2, <1>3, HeldLives

(* A step of a call that stays on its core. *)
LEMMA MoveFacts ==
    ASSUME SemInv, NEW c \in Core, NEW l \in Label, pc' = [pc EXCEPT ![c] = l], SchedulerKept
    PROVE  pc'[c] = l /\ running_list' = running_list /\ link' = link /\ Stay(c)
BY DEF SemInv, BaseInv, TypeOK, SchedulerKept, Stay

LEMMA EnterSemKeeps ==
    ASSUME SemInv, Timely, CtxInv, NEW c \in Core, EnterSem(c) PROVE CtxInv'
<1>0. PICK q : q = running_list[c]
    OBVIOUS
<1>1. PICK l \in {"sem_lock", "sem_ret"}, v \in {0, ENOSYS} :
         /\ pc[c] = "user" /\ pc' = [pc EXCEPT ![c] = l] /\ SchedulerKept
         /\ due' = [due EXCEPT ![q] = [why |-> "call", x0 |-> v]]
         /\ x0' = [x0 EXCEPT ![q] = 0] /\ ret' = ret
         /\ l = "sem_lock" => v = 0
    <2>1. PICK s \in Sem :
          \/ SemInitShared(c, s) /\ Owe(running_list[c], "call", ENOSYS)
          \/ /\ \/ \E v \in 0 .. MaxCount : SemInit(c, s, v)
                \/ \E o \in {"wait", "trywait", "getvalue"} : SemCall(c, s, o)
                \/ SemPost(c, s)
                \/ SemDestroy(c, s)
             /\ Owe(running_list[c], "call", 0)
        BY DEF EnterSem
    <2>2. x0' = [x0 EXCEPT ![q] = 0] /\ ret' = ret
        BY <1>0 DEF EnterSem, SaveRequest
    <2>3. CASE SemInitShared(c, s) /\ Owe(running_list[c], "call", ENOSYS)
        <3>1. pc[c] = "user" /\ pc' = [pc EXCEPT ![c] = "sem_ret"] /\ SchedulerKept
            BY <2>3 DEF SemInitShared, EnterCall
        <3> QED
            BY <1>0, <2>2, <2>3, <3>1 DEF Owe
    <2>4. CASE ~(SemInitShared(c, s) /\ Owe(running_list[c], "call", ENOSYS))
        <3>1. PICK l \in {"sem_lock", "sem_ret"} :
                 pc[c] = "user" /\ pc' = [pc EXCEPT ![c] = l] /\ SchedulerKept
            BY <2>1, <2>4 DEF SemInit, SemCall, SemPost, SemDestroy, EnterCall
        <3> QED
            BY <1>0, <2>1, <2>2, <2>4, <3>1 DEF Owe
    <2> QED
        BY <2>3, <2>4
<1>2. pc'[c] = l /\ running_list' = running_list /\ Stay(c)
    <2>1. l \in Label
        BY DEF Label
    <2> QED
        BY <1>1, <2>1, MoveFacts
<1>3. q \in Process /\ q \in Holds(c)
    BY <1>0, <1>1, UserHolds
<1>4. CtxTypeOK' /\ due'[q] = [why |-> "call", x0 |-> v]
    <2>1. v \in Int
        BY DEF ENOSYS
    <2> QED
        BY <1>1, <1>3, <2>1 DEF CtxInv, CtxTypeOK, Result
<1>5. \A p \in Process \ {q} : /\ ret'[p] = ret[p] /\ x0'[p] = x0[p] /\ due'[p] = due[p]
                               /\ Free(c, p)' => Free(c, p)
    BY <1>0, <1>1 DEF CtxInv, CtxTypeOK, Free
<1>6. OnlyMine(c, {q})
    BY <1>3, HeldIsMine
<1>7. ~Free(c, q)'
    BY <1>0, <1>2 DEF Free, ToWrite
<1>8. l = "sem_lock" => due'[q] = OWED
    BY <1>1, <1>4 DEF OWED
<1> QED
    BY <1>0, <1>2, <1>4, <1>5, <1>6, <1>7, <1>8, RegisterStep

(* EAGAIN is what the call will write. *)
LEMMA TryFailsKeeps ==
    ASSUME SemInv, Timely, CtxInv, NEW c \in Core, NEW s \in Sem, TryFails(c, s) PROVE CtxInv'
<1>1. PICK q :
         /\ q = running_list[c]
         /\ pc[c] = "sem_do" /\ pc' = [pc EXCEPT ![c] = "sem_ret"] /\ SchedulerKept
         /\ due' = [due EXCEPT ![q] = [why |-> "call", x0 |-> EAGAIN]]
         /\ ret' = ret /\ x0' = x0
    BY DEF TryFails, SemTryFails, Unlock, Owe
<1>2. pc'[c] = "sem_ret" /\ running_list' = running_list /\ Stay(c)
    <2>1. "sem_ret" \in Label
        BY DEF Label
    <2> QED
        BY <1>1, <2>1, MoveFacts
<1>3. q \in Process /\ OnlyMine(c, {q})
    <2>1. ToWrite(c) /\ pc[c] # "blocked"
        BY <1>1 DEF ToWrite
    <2> QED
        BY <1>1, <2>1, CallHolds, HeldIsMine
<1>4. CtxTypeOK'
    <2>1. EAGAIN \in Int
        BY DEF EAGAIN
    <2> QED
        BY <1>1, <1>3, <2>1 DEF CtxInv, CtxTypeOK, Result
<1>5. \A p \in Process \ {q} : /\ ret'[p] = ret[p] /\ x0'[p] = x0[p] /\ due'[p] = due[p]
                               /\ Free(c, p)' => Free(c, p)
    BY <1>1 DEF CtxInv, CtxTypeOK, Free
<1>6. ~Free(c, q)'
    BY <1>1, <1>2 DEF Free, ToWrite
<1> QED
    BY <1>2, <1>3, <1>4, <1>5, <1>6, RegisterStep

(* Both writes of ret give the current process what it is due.             *)
LEMMA WriteKeeps ==
    ASSUME SemInv, Timely, CtxInv, NEW c \in Core, WriteRet(c) \/ WriteBlocked(c) PROVE CtxInv'
<1>1. PICK q : q = running_list[c]
    OBVIOUS
<1>2. q \in Process /\ pc[c] \in {"sem_ret", "blocked"}
    <2>1. pc[c] \in {"sem_ret", "blocked"}
        BY DEF WriteRet, WriteBlocked, SemRet, SemBlocked
    <2> QED
        BY <1>1, <2>1, Current DEF ToWrite
<1>3. /\ pc' = [pc EXCEPT ![c] = IF pc[c] = "sem_ret" THEN "sem_out" ELSE "next"]
      /\ SchedulerKept /\ x0' = x0 /\ due' = due
      /\ ret' = [ret EXCEPT ![q] = due[q].x0]
    <2>1. CASE WriteRet(c)
        BY <1>1, <2>1 DEF WriteRet, SemRet
    <2>2. CASE WriteBlocked(c)
        <3>1. pc[c] = "blocked"
            BY <2>2 DEF WriteBlocked, SemBlocked
        <3>2. due[q].x0 = 0
            BY <1>1, <3>1 DEF CtxInv, ZeroInv, OWED
        <3> QED
            BY <1>1, <2>2, <3>1, <3>2 DEF WriteBlocked, SemBlocked
    <2> QED
        BY <2>1, <2>2
<1>4. pc'[c] \in {"sem_out", "next"} /\ running_list' = running_list /\ Stay(c)
    <2>1. "sem_out" \in Label /\ "next" \in Label
        BY DEF Label
    <2> QED
        BY <1>3, <2>1, MoveFacts
<1>5. CtxTypeOK'
    <2>1. due[q].x0 \in Int
        BY <1>2 DEF CtxInv, CtxTypeOK, Result
    <2> QED
        BY <1>3, <2>1 DEF CtxInv, CtxTypeOK
<1>6. ret'[q] = due'[q].x0 /\ \A p \in Process \ {q} : ret'[p] = ret[p]
    BY <1>2, <1>3 DEF CtxInv, CtxTypeOK
<1>7. RetInv'
    <2>1. ASSUME NEW p \in Process \ {q}, \A d \in Core : Free(d, p)', due'[p].why = "call"
          PROVE  ret'[p] = due'[p].x0
        <3>1. \A d \in Core : Free(d, p)
            BY <1>1, <1>4, <2>1 DEF Free, Stay, ToWrite, Waking
        <3> QED
            BY <1>3, <1>6, <2>1, <3>1 DEF CtxInv, RetInv
    <2> QED
        BY <1>6, <2>1 DEF RetInv
<1>8. ResultDelivered' /\ ZeroInv'
    BY <1>3, <1>4 DEF CtxInv, ResultDelivered, ZeroInv, Finds, Stay
<1> QED
    BY <1>5, <1>7, <1>8 DEF CtxInv

(* switch_to hands over ret, which no other core touches any more. *)
LEMMA DueInRet ==
    ASSUME SemInv, Timely, CtxInv, NEW c \in Core, NEW q \in Holds(c), Free(c, q),
           due[q].why = "call"
    PROVE  ret[q] = due[q].x0
<1>1. q \in Process
    BY DEF Holds
<1>2. \A d \in Core \ {c} : Free(d, q)
    BY Current DEF Free
<1> QED
    BY <1>1, <1>2 DEF CtxInv, RetInv

(* Core c, which has q, leaves the kernel for q.                           *)
LEMMA SwitchKeeps ==
    ASSUME SemInv, Timely, CtxInv, NEW c \in Core, NEW q \in Holds(c), Free(c, q),
           SwitchTo(c), pc'[c] = "user", running_list'[c] = q, Stay(c),
           \A p \in Process \ {q} : Free(c, p), UNCHANGED <<ret, due>>
    PROVE  CtxInv'
<1>1. q \in Process /\ OnlyMine(c, {q})
    BY HeldIsMine DEF Holds
<1>2. x0' = [x0 EXCEPT ![q] = ret[q]]
    BY DEF SwitchTo
<1>3. CtxTypeOK' /\ x0'[q] = ret[q] /\ \A p \in Process \ {q} : x0'[p] = x0[p]
    BY <1>1, <1>2 DEF CtxInv, CtxTypeOK
<1>4. due[q].why = "call" => ret[q] = due[q].x0
    BY DueInRet
<1>5. Finds(running_list[c], "call")'
    BY <1>3, <1>4 DEF Finds
<1>6. ~Free(c, q)'
    BY DEF Free
<1> QED
    BY <1>1, <1>3, <1>5, <1>6, RegisterStep

LEMMA LeaveKeeps ==
    ASSUME SemInv, Timely, CtxInv, NEW c \in Core, LeaveSem(c) PROVE CtxInv'
<1>1. /\ pc[c] = "sem_out" /\ pc' = [pc EXCEPT ![c] = "user"] /\ SchedulerKept
      /\ SwitchTo(c) /\ UNCHANGED <<ret, due>>
    BY DEF LeaveSem, SemOut
<1>2. pc'[c] = "user" /\ running_list' = running_list /\ Stay(c)
    <2>1. "user" \in Label
        BY DEF Label
    <2> QED
        BY <1>1, <2>1, MoveFacts
<1>3. running_list[c] \in Holds(c)
    BY <1>1, CallHolds
<1>4. \A p : Free(c, p)
    BY <1>1 DEF Free, ToWrite, Waking, ReadyPc
<1> QED
    BY <1>1, <1>2, <1>3, <1>4, SwitchKeeps

(* A step that changes no register, and takes no process out of a call or  *)
(* out of user mode.                                                       *)
LEMMA RegistersKept ==
    ASSUME SemInv, Timely, CtxInv, NEW c \in Core, Stay(c), UNCHANGED ctxVars,
           pc'[c] # "user",
           ToWrite(c) \/ pc[c] = "user" => ToWrite(c)' /\ running_list' = running_list,
           pc'[c] \in {"sem_lock", "sem_do", "blocked"} => due[running_list'[c]] = OWED
    PROVE  CtxInv'
<1>1. UNCHANGED <<ret, x0, due>> /\ CtxTypeOK'
    BY DEF ctxVars, CtxInv, CtxTypeOK
<1>2. OnlyMine(c, {})
    BY DEF OnlyMine
<1>3. \A p : Free(c, p)' => Free(c, p)
    BY DEF Free
<1> QED
    BY <1>1, <1>2, <1>3, RegisterStep

LEMMA InsideKeeps ==
    ASSUME SemInv, Timely, CtxInv, NEW c \in Core, SemInside(c) PROVE CtxInv'
<1>1. UNCHANGED ctxVars
    BY DEF SemInside
<1>2. CASE SemLock(c)
    <2>1. pc[c] = "sem_lock" /\ pc' = [pc EXCEPT ![c] = "sem_do"] /\ SchedulerKept
        BY <1>2 DEF SemLock
    <2>2. pc'[c] = "sem_do" /\ running_list' = running_list /\ Stay(c)
        <3>1. "sem_do" \in Label
            BY DEF Label
        <3> QED
            BY <2>1, <3>1, MoveFacts
    <2>3. ToWrite(c)' /\ due[running_list'[c]] = OWED
        BY <2>1, <2>2 DEF ToWrite, CtxInv, ZeroInv
    <2> QED
        BY <1>1, <2>2, <2>3, RegistersKept
<1>3. ASSUME NEW s \in Sem, SemWaitSleep(c, s) PROVE CtxInv'
    <2>1. pc[c] = "sem_do" /\ pc' = [pc EXCEPT ![c] = "blocked"] /\ SchedulerKept
        BY <1>3 DEF SemWaitSleep
    <2>2. pc'[c] = "blocked" /\ running_list' = running_list /\ Stay(c)
        <3>1. "blocked" \in Label
            BY DEF Label
        <3> QED
            BY <2>1, <3>1, MoveFacts
    <2>3. ToWrite(c)' /\ due[running_list'[c]] = OWED
        BY <2>1, <2>2 DEF ToWrite, CtxInv, ZeroInv
    <2> QED
        BY <1>1, <2>2, <2>3, RegistersKept
<1>4. ASSUME NEW s \in Sem,
             \/ SemTake(c, s) \/ SemPostCount(c, s) \/ SemAlertBegin(c, s)
             \/ SemPostEnd(c, s) \/ SemDestroyEnd(c, s) \/ SemGetValue(c, s)
      PROVE  CtxInv'
    <2>1. PICK l \in {"sem_ret", "sem_alert"} : pc' = [pc EXCEPT ![c] = l] /\ SchedulerKept
        BY <1>4 DEF SemTake, SemPostCount, SemAlertBegin, SemPostEnd, SemDestroyEnd,
                    SemGetValue, Unlock
    <2>2. pc'[c] = l /\ running_list' = running_list /\ Stay(c)
        <3>1. l \in Label
            BY DEF Label
        <3> QED
            BY <2>1, <3>1, MoveFacts
    <2>3. ToWrite(c)'
        BY <2>2 DEF ToWrite, Waking
    <2> QED
        BY <1>1, <2>2, <2>3, RegistersKept
<1>5. ASSUME NEW s \in Sem, SemAlert(c, s) PROVE CtxInv'
    <2>1. PICK p : CallReady(c, p, "sem_alert") /\ running_list' = running_list
        BY <1>5 DEF SemAlert
    <2>2. pc'[c] = "pick" /\ link'[c] = "sem_alert" /\ Stay(c)
        BY <2>1 DEF CallReady, Stay, SemInv, BaseInv, TypeOK
    <2>3. ToWrite(c)'
        BY <2>2 DEF ToWrite, Waking, ReadyPc
    <2> QED
        BY <1>1, <2>1, <2>2, <2>3, RegistersKept
<1> QED
    BY <1>2, <1>3, <1>4, <1>5 DEF SemInside

-----------------------------------------------------------------------------
(* Where a kernel path of a core leads.                                    *)
LEMMA KernelShape ==
    ASSUME SemInv, NEW c \in Core, Kernel(c) \/ Acquire(c)
    PROVE  /\ Stay(c)
           /\ \/ /\ pc[c] = "next_len" /\ pc'[c] = "user" /\ running_list'[c] = proc[c]
              \/ /\ pc[c] \in ReadyPc /\ running_list' = running_list
                 /\ (pc'[c] \in ReadyPc /\ link'[c] = link[c]) \/ pc'[c] = link[c]
              \/ /\ pc[c] # "user" /\ ~ToWrite(c)
                 /\ pc'[c] \notin {"user", "sem_lock", "sem_do", "blocked"}
<1>0. BaseInv /\ Placed /\ TypeOK
    BY DEF SemInv, BaseInv
<1>1. CoreStep(c)
    BY DEF CoreStep
<1>2. Stay(c)
    BY <1>0, <1>1, StepPlaced, OthersStay
<1>3. CASE pc[c] \in ReadyPc
    BY <1>0, <1>1, <1>2, <1>3, StepPath
<1>4. CASE pc[c] \notin ReadyPc
    <2>1. CASE NextRun(c)
        BY <1>0, <1>2, <2>1 DEF NextRun, TypeOK
    <2>2. CASE ~NextRun(c)
        <3>1. pc[c] # "user" /\ pc'[c] # "user"
            BY <1>0, <1>4, <2>2
            DEF Kernel, Acquire, Ready, NextProc, Pull, Boot, PickInactive, PickDecide, ReadyLock,
                ReadyLength, ReadyAdd, NextLock, NextTake, NextMiss, PullBusiest, PullSkip,
                PullLock, PullScan, BootIdle, BootRoot, ProcCreate, CallReady, TypeOK, ReadyPc
        <3>2. /\ pc[c] \notin (OwnPc \cup {"blocked"}) \ {"user"}
              /\ pc'[c] \notin (OwnPc \cup {"blocked"}) \ {"user"}
            BY <1>0, <1>1, <1>4, StepPath
        <3> QED
            BY <1>2, <1>4, <3>1, <3>2 DEF ToWrite, Waking, OwnPc
    <2> QED
        BY <2>1, <2>2
<1> QED
    BY <1>3, <1>4

LEMMA KernelKeeps ==
    ASSUME SemInv, Timely, CtxInv, NEW c \in Core, KernelPath(c) PROVE CtxInv'
<1>0. UNCHANGED <<ret, due>> /\ SwitchTo(c) /\ Stay(c)
    BY KernelShape DEF KernelPath
<1>1. CASE pc[c] = "next_len" /\ pc'[c] = "user" /\ running_list'[c] = proc[c]
    <2>1. proc[c] \in Holds(c)
        BY <1>1 DEF Holds, Carries, SemInv, BaseInv, HolderInv
    <2>2. \A p : Free(c, p)
        BY <1>1 DEF Free, ToWrite, Waking, ReadyPc
    <2> QED
        BY <1>0, <1>1, <2>1, <2>2, SwitchKeeps
<1>2. CASE /\ pc[c] \in ReadyPc /\ running_list' = running_list
           /\ (pc'[c] \in ReadyPc /\ link'[c] = link[c]) \/ pc'[c] = link[c]
    <2>0. link[c] \in ReturnPc /\ pc[c] # "user"
        BY <1>2 DEF SemInv, BaseInv, LinkInv, ReadyPc
    <2>1. CASE pc'[c] = "user"
        <3>1. link[c] = "user"
            BY <1>2, <2>1 DEF ReadyPc
        <3>2. Owns(c)
            BY <1>2, <3>1 DEF Owns, ReadyPc, NextPc, LetsGo
        <3>3. running_list[c] \in Holds(c)
            BY <3>2 DEF Holds, SemInv, BaseInv, HolderInv
        <3>4. \A p : Free(c, p)
            BY <1>2, <3>1 DEF Free, ToWrite, Waking, ReadyPc
        <3> QED
            BY <1>0, <1>2, <2>1, <3>3, <3>4, SwitchKeeps
    <2>2. CASE pc'[c] # "user"
        <3>1. UNCHANGED ctxVars
            BY <1>0, <2>2 DEF SwitchTo, ctxVars
        <3>2. ToWrite(c) => ToWrite(c)'
            BY <1>2 DEF ToWrite, Waking, ReadyPc
        <3>3. pc'[c] \notin {"sem_lock", "sem_do", "blocked"}
            BY <1>2, <2>0 DEF ReadyPc, ReturnPc
        <3> QED
            BY <1>0, <1>2, <2>0, <2>2, <3>1, <3>2, <3>3, RegistersKept
    <2> QED
        BY <2>1, <2>2
<1>3. CASE /\ pc[c] # "user" /\ ~ToWrite(c)
           /\ pc'[c] \notin {"user", "sem_lock", "sem_do", "blocked"}
    <2>1. UNCHANGED ctxVars
        BY <1>0, <1>3 DEF SwitchTo, ctxVars
    <2> QED
        BY <1>0, <1>3, <2>1, RegistersKept
<1> QED
    BY <1>1, <1>2, <1>3, KernelShape DEF KernelPath

-----------------------------------------------------------------------------
LEMMA InitContext == ContextInit => CtxInv
<1> SUFFICES ASSUME ContextInit PROVE CtxInv
    OBVIOUS
<1>1. CtxTypeOK /\ \A p \in Process : due[p].why = "none"
    BY DEF ContextInit, CtxTypeOK, Result
<1>2. \A c \in Core : pc[c] = "boot"
    BY DEF ContextInit, SemaphoreInit, Init
<1> QED
    BY <1>1, <1>2 DEF CtxInv, ResultDelivered, RetInv, ZeroInv

LEMMA NextContext ==
    ASSUME SemInv, Timely, CtxInv, [ContextNext]_contextVars PROVE CtxInv'
<1>1. CASE UNCHANGED contextVars
    <2>1. UNCHANGED <<ret, x0, due, pc, running_list, link>>
        BY <1>1 DEF contextVars, ctxVars, semaphoreVars, dispatchVars, coreVars
    <2>2. \A c, p : Free(c, p)' <=> Free(c, p)
        BY <2>1 DEF Free, ToWrite, Waking
    <2> QED
        BY <2>1, <2>2 DEF CtxInv, CtxTypeOK, ResultDelivered, Finds, RetInv, ZeroInv
<1>2. ASSUME NEW c \in Core, ContextStep(c) PROVE CtxInv'
    <2>1. CASE EnterTimer(c)
        BY <2>1, TimerKeeps
    <2>2. CASE EnterYield(c)
        BY <2>2, YieldKeeps
    <2>3. ASSUME NEW m \in Masks \ {{}}, EnterAffinity(c, m) PROVE CtxInv'
        BY <2>3, AffinityKeeps
    <2>4. ASSUME NEW t \in Thread, NEW m \in Masks, EnterCreate(c, t, m) PROVE CtxInv'
        BY <2>4, CreateRetKeeps
    <2>5. CASE EnterSem(c)
        BY <2>5, EnterSemKeeps
    <2>6. ASSUME NEW s \in Sem, TryFails(c, s) PROVE CtxInv'
        BY <2>6, TryFailsKeeps
    <2>7. CASE WriteRet(c) \/ WriteBlocked(c)
        BY <2>7, WriteKeeps
    <2>8. CASE LeaveSem(c)
        BY <2>8, LeaveKeeps
    <2>9. CASE SemInside(c)
        BY <2>9, InsideKeeps
    <2>10. CASE KernelPath(c)
        BY <2>10, KernelKeeps
    <2> QED
        BY <1>2, <2>1, <2>2, <2>3, <2>4, <2>5, <2>6, <2>7, <2>8, <2>9, <2>10 DEF ContextStep
<1> QED
    BY <1>1, <1>2 DEF ContextNext

(* A process comes back from a call with the result of that call, on any   *)
(* number of cores, as long as nobody wakes it before its core has written *)
(* ret: the late write of __sem_wait is the only fault of the return path. *)
THEOREM ResultsTimely == ContextSpec /\ []Timely => []ResultDelivered
<1>1. ContextInit => CtxInv
    BY InitContext
<1>2. SemInv /\ Timely /\ CtxInv /\ [ContextNext]_contextVars => CtxInv'
    BY NextContext
<1>3. CtxInv => ResultDelivered
    BY DEF CtxInv
<1> QED
    BY <1>1, <1>2, <1>3, ContextSem, PTL DEF ContextSpec

-----------------------------------------------------------------------------
(* The other cores are what a wake-up before the write takes.              *)
LEMMA AloneTimely ==
    ASSUME NumCores = 1, SemInv, Timely, [ContextNext]_contextVars PROVE Timely'
<1>0. TypeOK /\ LinkInv
    BY DEF SemInv, BaseInv
<1>1. Core = {0}
    BY DEF Core
<1>2. CASE UNCHANGED contextVars
    <2>1. UNCHANGED <<pc, running_list, sem_tasks>>
        BY <1>2 DEF contextVars, semaphoreVars, semVars, dispatchVars, coreVars
    <2> QED
        BY <2>1 DEF Timely, SleepsOn
<1>3. ASSUME NEW c \in Core, ContextStep(c), NEW s \in Sem, SemWaitSleep(c, s) PROVE Timely'
    <2>1. PICK q : q = running_list[c]
        OBVIOUS
    <2>2. /\ pc[c] = "sem_do" /\ SchedulerKept
          /\ sem_tasks' = [sem_tasks EXCEPT ![s] = Append(@, q)]
        BY <1>3, <2>1 DEF SemWaitSleep
    <2>3. q \in Process /\ sem_tasks[s] \in Seq(Process) /\ sem_tasks \in [Sem -> Seq(Process)]
        BY <2>1, <2>2, CallHolds DEF ToWrite, SemInv, SemTypeOK
    <2>4. sem_tasks'[s] = Append(sem_tasks[s], q)
        BY <2>2, <2>3
    <2>5. Len(sem_tasks'[s]) \in 1 .. Len(sem_tasks'[s]) /\ sem_tasks'[s][Len(sem_tasks'[s])] = q
        BY <2>3, <2>4
    <2>6. SleepsOn(q, s)' /\ running_list' = running_list
        BY <2>2, <2>5 DEF SleepsOn, SchedulerKept
    <2> QED
        BY <1>1, <2>1, <2>6 DEF Timely
<1>4. ASSUME NEW c \in Core, SemaphoreStep(c), ~\E s \in Sem : SemWaitSleep(c, s)
      PROVE  pc'[c] # "blocked"
    <2>1. CASE CoreStep(c)
        <3>1. pc[c] \notin ReadyPc => pc'[c] \notin (OwnPc \cup {"blocked"}) \ {"user"}
            BY <2>1, StepPath DEF SemInv
        <3>2. pc[c] \in ReadyPc => link[c] \in ReturnPc /\ (pc'[c] \in ReadyPc \/ pc'[c] = link[c])
            BY <1>0, <2>1, StepPath DEF SemInv, LinkInv
        <3> QED
            BY <3>1, <3>2 DEF OwnPc, ReadyPc, ReturnPc
    <2>2. ASSUME NEW s \in Sem, SemCalls(c, s) PROVE pc'[c] # "blocked"
        BY <1>0, <2>2 DEF SemCalls, SemInit, SemInitShared, SemPost, SemDestroy, SemCall,
                          EnterCall, TypeOK
    <2>3. CASE SemLock(c) \/ SemBlocked(c) \/ SemRet(c) \/ SemOut(c)
        BY <1>0, <2>3 DEF SemLock, SemBlocked, SemRet, SemOut, TypeOK
    <2>4. ASSUME NEW s \in Sem,
                 \/ SemTake(c, s) \/ SemTryFails(c, s) \/ SemPostCount(c, s)
                 \/ SemAlertBegin(c, s) \/ SemAlert(c, s) \/ SemPostEnd(c, s)
                 \/ SemDestroyEnd(c, s) \/ SemGetValue(c, s)
          PROVE  pc'[c] # "blocked"
        BY <1>0, <2>4 DEF SemTake, SemTryFails, SemPostCount, SemAlertBegin, SemAlert, SemPostEnd,
                          SemDestroyEnd, SemGetValue, Unlock, CallReady, TypeOK
    <2> QED
        BY <1>4, <2>1, <2>2, <2>3, <2>4 DEF SemaphoreStep, SemKernel
<1>5. ASSUME NEW c \in Core, ContextStep(c) PROVE Timely'
    <2>1. CASE \E s \in Sem : SemWaitSleep(c, s)
        BY <1>3, <1>5, <2>1
    <2>2. CASE ~\E s \in Sem : SemWaitSleep(c, s)
        BY <1>1, <1>4, <1>5, <2>2, ContextIsSemaphore DEF Timely
    <2> QED
        BY <2>1, <2>2
<1> QED
    BY <1>2, <1>5 DEF ContextNext

(* On one core a process always comes back from a call with the result of  *)
(* that call, though it has slept and others have made calls.              *)
THEOREM ResultsOnOneCore == NumCores = 1 => (ContextSpec => []ResultDelivered)
<1> SUFFICES ASSUME NumCores = 1 PROVE ContextSpec => []ResultDelivered
    OBVIOUS
<1>1. ContextInit => Timely
    BY DEF ContextInit, SemaphoreInit, Init, Timely
<1>2. SemInv /\ Timely /\ [ContextNext]_contextVars => Timely'
    BY AloneTimely
<1>3. ContextSpec => []Timely
    BY <1>1, <1>2, ContextSem, PTL DEF ContextSpec
<1> QED
    BY <1>3, ResultsTimely, PTL

=============================================================================
