--------------------------- MODULE SemaphoreProofs ---------------------------
(***************************************************************************)
(* Proofs about Semaphore, for every number of cores and every set of      *)
(* threads and of semaphores.                                              *)
(***************************************************************************)
EXTENDS Semaphore, DispatchProofs

Request == [op : Ops, sem : Sem]

(* Core c readies sleepers; it is in a call until it returns or sleeps. *)
Waking(c) == pc[c] = "sem_alert" \/ (pc[c] \in ReadyPc /\ link[c] = "sem_alert")

InRequest(c) == pc[c] \in {"sem_lock", "sem_do", "sem_ret", "sem_out"} \/ Waking(c)

CallInv == \A c \in Core : IF InRequest(c) THEN call[c] \in Request ELSE call[c] = NoCall

(* Calls of users are on semaphores in use, but for init and destroy. *)
Fits(c) ==
    /\ call[c].op = "destroy" => ~usable[call[c].sem]
    /\ call[c].op \notin {"init", "destroy"} => usable[call[c].sem]

(* A destroy on core c has still to release the sleepers of s. *)
Releases(c, s) ==
    /\ InRequest(c) /\ InCall(c, "destroy", s)
    /\ pc[c] \in {"sem_lock", "sem_do"} \/ Waking(c)

UseInv ==
    /\ \A c \in Core : InRequest(c) => Fits(c)
    /\ \A s \in Sem : ~usable[s] /\ sem_tasks[s] # <<>> => \E c \in Core : Releases(c, s)

SemLockInv ==
    /\ \A c \in Core, s \in Sem : InSemSection(c, s) => sem_lock[s]
    /\ \A s \in Sem : sem_lock[s] /\ usable[s] => \E c \in Core : InSemSection(c, s)
    /\ \A c, d \in Core, s \in Sem : InSemSection(c, s) /\ InSemSection(d, s) => c = d

NoZombie == \A p \in Process : state[p] \in {"UNUSED", "RUNNABLE"}

(* Sleepers are nowhere else, and at one position of one list. *)
SleepInv ==
    /\ \A p \in Process : In(sem_tasks, p) => state[p] = "RUNNABLE" /\ ~Somewhere(p)
    /\ Apart(sem_tasks)

LostInv == \A p \in Process : state[p] = "RUNNABLE" => Somewhere(p) \/ In(sem_tasks, p)

SemInv ==
    /\ SemTypeOK /\ BaseInv /\ Placed /\ QueueMutex
    /\ CallInv /\ UseInv /\ SemLockInv /\ NoZombie /\ SleepInv /\ LostInv
    /\ NoSleeperWithToken

-----------------------------------------------------------------------------
LEMMA InitSemaphore == SemaphoreInit => SemInv
<1> SUFFICES ASSUME SemaphoreInit PROVE SemInv
    OBVIOUS
<1>0. Init /\ BaseInv /\ Placed /\ QueueMutex
    BY InitPlace DEF SemaphoreInit, PlaceInv
<1>1. \A c \in Core : pc[c] = "boot"
    BY <1>0 DEF Init
<1>2. SemTypeOK
    <2>1. <<>> \in Seq(Process)
        OBVIOUS
    <2> QED
        BY <1>0, <2>1 DEF SemaphoreInit, SemTypeOK, BaseInv
<1>3. \A s \in Sem : 1 .. Len(sem_tasks[s]) = {}
    BY DEF SemaphoreInit
<1>4. SleepInv
    BY <1>2, <1>3 DEF SleepInv, In, Apart, SemTypeOK
<1>5. \A c \in Core : ~InRequest(c) /\ \A s : ~InSemSection(c, s)
    BY <1>1 DEF InRequest, Waking, InSemSection, Alerting, ReadyPc
<1>6. CallInv /\ UseInv /\ SemLockInv
    BY <1>5 DEF CallInv, UseInv, SemLockInv, SemaphoreInit
<1>7. NoZombie /\ LostInv
    BY <1>0 DEF NoZombie, LostInv, Init
<1>8. NoSleeperWithToken
    BY DEF NoSleeperWithToken, SemaphoreInit
<1> QED
    BY <1>0, <1>2, <1>4, <1>6, <1>7, <1>8 DEF SemInv

-----------------------------------------------------------------------------
(* What every step does with the lock of s: nothing, unless s goes out of  *)
(* use; take it; or leave it, open or with s out of use.                   *)
LockMove(c, s) ==
    \/ /\ InSemSection(c, s)' <=> InSemSection(c, s)
       /\ sem_lock'[s] = sem_lock[s] /\ (usable'[s] => usable[s])
    \/ ~sem_lock[s] /\ sem_lock'[s] /\ InSemSection(c, s)'
    \/ /\ ~InSemSection(c, s)' /\ \A d \in Core \ {c} : ~InSemSection(d, s)
       /\ ~sem_lock'[s] \/ ~usable'[s]

LEMMA OthersCalls ==
    ASSUME NEW c \in Core, Others(c), \A d \in Core \ {c} : call'[d] = call[d],
           NEW d \in Core \ {c}
    PROVE  /\ InRequest(d)' <=> InRequest(d)
           /\ Waking(d)' <=> Waking(d)
           /\ pc'[d] = pc[d] /\ call'[d] = call[d]
           /\ \A s : InSemSection(d, s)' <=> InSemSection(d, s)
           /\ \A s : Alerting(d, s)' <=> Alerting(d, s)
           /\ \A s : Releases(d, s)' <=> Releases(d, s)
BY DEF Others, InRequest, Waking, InSemSection, Alerting, Releases, InCall

LEMMA CallFrame ==
    ASSUME SemInv, NEW c \in Core, Others(c), \A d \in Core \ {c} : call'[d] = call[d],
           InRequest(c)' => call'[c] \in Request /\ Fits(c)',
           ~InRequest(c)' => call'[c] = NoCall,
           \A s \in Sem : \/ usable'[s] = usable[s]
                          \/ \A d \in Core \ {c} : InRequest(d) => call[d].sem # s,
           \A s \in Sem : ~usable'[s] /\ sem_tasks'[s] # <<>> =>
                \/ Releases(c, s)'
                \/ ~usable[s] /\ sem_tasks[s] # <<>> /\ ~Releases(c, s),
           \A s \in Sem : LockMove(c, s)
    PROVE  CallInv' /\ UseInv' /\ SemLockInv'
<1>1. \A d \in Core \ {c} :
         /\ InRequest(d)' <=> InRequest(d)
         /\ call'[d] = call[d]
         /\ \A s : InSemSection(d, s)' <=> InSemSection(d, s)
         /\ \A s : Releases(d, s)' <=> Releases(d, s)
    BY OthersCalls
<1>2. CallInv'
    BY <1>1 DEF SemInv, CallInv
<1>3. \A d \in Core : InRequest(d)' => Fits(d)'
    <2>1. ASSUME NEW d \in Core \ {c}, InRequest(d)' PROVE Fits(d)'
        <3>1. InRequest(d) /\ Fits(d) /\ call'[d] = call[d] /\ call[d].sem \in Sem
            BY <1>1, <2>1 DEF SemInv, CallInv, UseInv, Request
        <3>2. usable'[call[d].sem] = usable[call[d].sem]
            BY <3>1
        <3> QED
            BY <3>1, <3>2 DEF Fits
    <2> QED
        BY <2>1
<1>4. UseInv'
    <2>1. ASSUME NEW s \in Sem, ~usable'[s], sem_tasks'[s] # <<>>
          PROVE  \E d \in Core : Releases(d, s)'
        <3>1. CASE Releases(c, s)'
            BY <3>1
        <3>2. CASE ~usable[s] /\ sem_tasks[s] # <<>> /\ ~Releases(c, s)
            <4>1. PICK d \in Core : Releases(d, s)
                BY <3>2 DEF SemInv, UseInv
            <4> QED
                BY <1>1, <3>2, <4>1
        <3> QED
            BY <2>1, <3>1, <3>2
    <2> QED
        BY <1>3, <2>1 DEF UseInv
<1>5. SemLockInv'
    <2>1. ASSUME NEW s \in Sem
          PROVE  /\ \A d \in Core : InSemSection(d, s)' => sem_lock'[s]
                 /\ sem_lock'[s] /\ usable'[s] => \E d \in Core : InSemSection(d, s)'
                 /\ \A d, e \in Core : InSemSection(d, s)' /\ InSemSection(e, s)' => d = e
        <3>1. /\ \A d \in Core : InSemSection(d, s) => sem_lock[s]
              /\ sem_lock[s] /\ usable[s] => \E d \in Core : InSemSection(d, s)
              /\ \A d, e \in Core : InSemSection(d, s) /\ InSemSection(e, s) => d = e
            BY DEF SemInv, SemLockInv
        <3>2. CASE /\ InSemSection(c, s)' <=> InSemSection(c, s)
                   /\ sem_lock'[s] = sem_lock[s] /\ (usable'[s] => usable[s])
            BY <1>1, <3>1, <3>2
        <3>3. CASE ~sem_lock[s] /\ sem_lock'[s] /\ InSemSection(c, s)'
            BY <1>1, <3>1, <3>3
        <3>4. CASE /\ ~InSemSection(c, s)' /\ \A d \in Core \ {c} : ~InSemSection(d, s)
                   /\ ~sem_lock'[s] \/ ~usable'[s]
            BY <1>1, <3>1, <3>4
        <3> QED
            BY <3>2, <3>3, <3>4 DEF LockMove
    <2> QED
        BY <2>1 DEF SemLockInv
<1> QED
    BY <1>2, <1>4, <1>5

(* A step of a call that moves no process. *)
LEMMA StillStep ==
    ASSUME SemInv, NEW c \in Core, NEW l \in OwnPc, pc[c] \in OwnPc,
           pc' = [pc EXCEPT ![c] = l], SchedulerKept, sem_tasks' = sem_tasks,
           sem_count' \in [Sem -> Nat], sem_lock' \in [Sem -> BOOLEAN],
           usable' \in [Sem -> BOOLEAN], call' \in [Core -> Request \cup {NoCall}],
           \A s \in Sem : sem_count'[s] > 0 => sem_count[s] > 0 \/ sem_tasks[s] = <<>>
    PROVE  /\ SemTypeOK' /\ BaseInv' /\ Placed' /\ QueueMutex' /\ Others(c)
           /\ NoZombie' /\ SleepInv' /\ LostInv' /\ NoSleeperWithToken'
           /\ pc'[c] = l /\ ~(pc[c] \in ReadyPc) /\ ~(pc'[c] \in ReadyPc)
<1>0. BaseInv /\ Placed /\ QueueMutex /\ TypeOK
    BY DEF SemInv, BaseInv
<1>1. /\ UNCHANGED <<queueVars, running_list, proc, link, scanVars, target, level>>
      /\ UNCHANGED <<affinityset, state, live_procs, ticks>>
    BY DEF SchedulerKept, procVars
<1>2. TypeOK'
    <2>1. state' \in [Process -> {"UNUSED", "RUNNABLE", "ZOMBIE"}] /\ live_procs' \in Nat
        BY <1>0, <1>1 DEF TypeOK
    <2> QED
        BY <1>0, <1>1, <2>1, PlainType
<1>3. SemTypeOK'
    BY <1>2 DEF SemInv, SemTypeOK, Request
<1>4. /\ BaseInv' /\ Placed' /\ QueueMutex' /\ Others(c)
      /\ \A p : Queued(p)' <=> Queued(p)
      /\ \A d \in Core \ {c} : Holds(d)' = Holds(d)
      /\ Holds(c)' = Holds(c)
    BY <1>0, <1>1, <1>2, PlainStep
<1>5. \A p : Somewhere(p)' <=> Somewhere(p)
    BY <1>4 DEF Somewhere
<1>6. NoZombie' /\ SleepInv' /\ LostInv'
    BY <1>1, <1>5 DEF SemInv, NoZombie, SleepInv, LostInv, In, Apart
<1>7. NoSleeperWithToken'
    BY DEF SemInv, NoSleeperWithToken
<1>8. pc'[c] = l /\ ~(pc[c] \in ReadyPc) /\ ~(l \in ReadyPc)
    BY <1>0 DEF TypeOK, OwnPc, ReadyPc
<1> QED
    BY <1>3, <1>4, <1>6, <1>7, <1>8

(* A call begins, and leaves the lock alone but for init. *)
LEMMA EnterStep ==
    ASSUME SemInv, NEW c \in Core, NEW s \in Sem, SemCalls(c, s)
    PROVE  SemInv'
<1>0. TypeOK /\ SemTypeOK
    BY DEF SemInv, SemTypeOK
<1>1. PICK o \in Ops, l \in {"sem_lock", "sem_ret"} : EnterCall(c, o, s, l)
    BY DEF SemCalls, SemInit, SemInitShared, SemCall, SemPost, SemDestroy, Ops
<1>2. /\ pc[c] = "user" /\ pc' = [pc EXCEPT ![c] = l] /\ SchedulerKept
      /\ call' = [call EXCEPT ![c] = [op |-> o, sem |-> s]]
    BY <1>1 DEF EnterCall
<1>3. /\ call' \in [Core -> Request \cup {NoCall}] /\ call'[c] = [op |-> o, sem |-> s]
      /\ \A d \in Core \ {c} : call'[d] = call[d]
    BY <1>0, <1>2 DEF SemTypeOK, Request
<1>4. \A d \in Core : InRequest(d) => call[d].op # "none"
    BY DEF SemInv, CallInv, Request, Ops
<1>5. Calling(s) = {} => \A d \in Core : ~Releases(d, s) /\ ~InSemSection(d, s)
                                          /\ (InRequest(d) => call[d].sem # s)
    <2>1. \A d \in Core : InSemSection(d, s) => InRequest(d) /\ call[d].sem = s
        BY DEF InSemSection, Alerting, InRequest, Waking
    <2> QED
        BY <1>4, <2>1 DEF Calling, Releases, InCall
<1>6. /\ sem_tasks' = sem_tasks /\ sem_count' \in [Sem -> Nat]
      /\ sem_lock' \in [Sem -> BOOLEAN] /\ usable' \in [Sem -> BOOLEAN]
      /\ \A r \in Sem : sem_count'[r] > 0 => sem_count[r] > 0 \/ sem_tasks[r] = <<>>
      /\ \A r \in Sem \ {s} : sem_lock'[r] = sem_lock[r] /\ usable'[r] = usable[r]
    <2>1. ASSUME NEW v \in 0 .. MaxCount, SemInit(c, s, v)
          PROVE  /\ sem_tasks' = sem_tasks /\ sem_count' \in [Sem -> Nat]
                 /\ sem_lock' \in [Sem -> BOOLEAN] /\ usable' \in [Sem -> BOOLEAN]
                 /\ \A r \in Sem : sem_count'[r] > 0 => sem_count[r] > 0 \/ sem_tasks[r] = <<>>
                 /\ \A r \in Sem \ {s} : sem_lock'[r] = sem_lock[r] /\ usable'[r] = usable[r]
        <3>1. sem_tasks[s] = <<>>
            BY <1>5, <2>1 DEF SemInit, SemInv, UseInv
        <3>2. sem_tasks' = sem_tasks
            BY <1>0, <2>1, <3>1 DEF SemInit, SemTypeOK
        <3>3. v \in Nat
            BY MaxCountAssumption
        <3>4. sem_count' \in [Sem -> Nat] /\ \A r \in Sem \ {s} : sem_count'[r] = sem_count[r]
            BY <1>0, <2>1, <3>3 DEF SemInit, SemTypeOK
        <3>5. sem_lock' \in [Sem -> BOOLEAN] /\ usable' \in [Sem -> BOOLEAN]
            BY <1>0, <2>1 DEF SemInit, SemTypeOK
        <3>6. \A r \in Sem \ {s} : sem_lock'[r] = sem_lock[r] /\ usable'[r] = usable[r]
            BY <1>0, <2>1 DEF SemInit, SemTypeOK
        <3> QED
            BY <3>1, <3>2, <3>4, <3>5, <3>6
    <2>2. CASE ~\E v \in 0 .. MaxCount : SemInit(c, s, v)
        <3>1. UNCHANGED <<sem_count, sem_tasks, sem_lock>>
            BY <2>2 DEF SemCalls, SemInitShared, SemCall, SemPost, SemDestroy
        <3>2. usable' = usable \/ usable' = [usable EXCEPT ![s] = FALSE]
            BY <2>2 DEF SemCalls, SemInitShared, SemCall, SemPost, SemDestroy
        <3>3. usable' \in [Sem -> BOOLEAN] /\ \A r \in Sem \ {s} : usable'[r] = usable[r]
            BY <1>0, <3>2 DEF SemTypeOK
        <3> QED
            BY <1>0, <3>1, <3>3 DEF SemTypeOK
    <2> QED
        BY <2>1, <2>2
<1>7. /\ SemTypeOK' /\ BaseInv' /\ Placed' /\ QueueMutex' /\ Others(c)
      /\ NoZombie' /\ SleepInv' /\ LostInv' /\ NoSleeperWithToken'
      /\ pc'[c] = l /\ ~(pc[c] \in ReadyPc) /\ ~(pc'[c] \in ReadyPc)
    <2>1. l \in OwnPc /\ pc[c] \in OwnPc
        BY <1>2 DEF OwnPc
    <2> QED
        BY <1>2, <1>3, <1>6, <2>1, StillStep
<1>8. /\ ~InRequest(c) /\ InRequest(c)'
      /\ \A r : ~InSemSection(c, r) /\ ~InSemSection(c, r)' /\ ~Releases(c, r)
    BY <1>2, <1>7 DEF InRequest, Waking, InSemSection, Alerting, Releases
<1>9. /\ o = "init" => l = "sem_ret" /\ Calling(s) = {}
                       /\ (usable'[s] => ~sem_lock'[s])
                       /\ ~usable[s]
      /\ o = "destroy" => l = "sem_lock" /\ Calling(s) = {} /\ ~usable'[s]
                          /\ sem_lock'[s] = sem_lock[s]
      /\ o \notin {"init", "destroy"} => /\ usable[s] /\ usable'[s]
                                         /\ sem_lock'[s] = sem_lock[s]
    <2>1. call'[c].op = o /\ pc'[c] = l
        BY <1>3, <1>7
    <2>2. ASSUME NEW k \in Ops, NEW m, EnterCall(c, k, s, m) PROVE k = o /\ m = l
        <3>1. call'[c] = [op |-> k, sem |-> s] /\ pc'[c] = m
            BY <1>0, <2>2 DEF EnterCall, SemTypeOK, TypeOK
        <3> QED
            BY <2>1, <3>1
    <2>3. ASSUME NEW v \in 0 .. MaxCount, SemInit(c, s, v)
          PROVE  /\ o = "init" /\ l = "sem_ret" /\ Calling(s) = {}
                 /\ ~sem_lock'[s] /\ ~usable[s]
        BY <1>0, <2>2, <2>3 DEF SemInit, SemTypeOK, Ops
    <2>4. CASE SemInitShared(c, s)
        <3>1. o = "init" /\ l = "sem_ret"
            BY <2>2, <2>4 DEF SemInitShared, Ops
        <3> QED
            BY <2>4, <3>1 DEF SemInitShared
    <2>5. ASSUME NEW k \in {"wait", "trywait", "getvalue", "post"}, SemCall(c, s, k)
          PROVE  o \notin {"init", "destroy"} /\ usable[s] /\ usable'[s]
                 /\ sem_lock'[s] = sem_lock[s]
        <3>1. o = k
            BY <2>2, <2>5 DEF SemCall, Ops
        <3> QED
            BY <2>5, <3>1 DEF SemCall
    <2>6. CASE SemDestroy(c, s)
        <3>1. o = "destroy" /\ l = "sem_lock"
            BY <2>2, <2>6 DEF SemDestroy, Ops
        <3> QED
            BY <1>0, <2>6, <3>1 DEF SemDestroy, SemTypeOK
    <2> QED
        BY <2>3, <2>4, <2>5, <2>6 DEF SemCalls, SemPost
<1>10. Fits(c)' /\ (o = "destroy" => Releases(c, s)')
    BY <1>3, <1>7, <1>8, <1>9 DEF Fits, Releases, InCall
<1>11. ASSUME NEW r \in Sem
       PROVE  /\ \/ usable'[r] = usable[r]
                 \/ \A d \in Core \ {c} : InRequest(d) => call[d].sem # r
              /\ ~usable'[r] /\ sem_tasks'[r] # <<>> =>
                    \/ Releases(c, r)'
                    \/ ~usable[r] /\ sem_tasks[r] # <<>> /\ ~Releases(c, r)
              /\ LockMove(c, r)
    <2>1. CASE r # s
        BY <1>6, <1>8, <2>1 DEF LockMove
    <2>2. CASE r = s
        <3>1. CASE o = "init"
            BY <1>0, <1>5, <1>6, <1>8, <1>9, <2>2, <3>1 DEF LockMove, SemTypeOK
        <3>2. CASE o = "destroy"
            BY <1>0, <1>5, <1>6, <1>8, <1>9, <1>10, <2>2, <3>2 DEF LockMove, SemTypeOK
        <3>3. CASE o \notin {"init", "destroy"}
            BY <1>0, <1>5, <1>6, <1>8, <1>9, <2>2, <3>3 DEF LockMove, SemTypeOK
        <3> QED
            BY <3>1, <3>2, <3>3
    <2> QED
        BY <2>1, <2>2
<1>12. call'[c] \in Request
    BY <1>3 DEF Request
<1>13. CallInv' /\ UseInv' /\ SemLockInv'
    BY <1>3, <1>7, <1>8, <1>10, <1>11, <1>12, CallFrame
<1> QED
    BY <1>7, <1>13 DEF SemInv


(* Inside a call: where core c is, and that the others are not there. *)
LEMMA Inside ==
    ASSUME SemInv, NEW c \in Core, pc[c] \in {"sem_lock", "sem_do", "sem_alert"}
    PROVE  /\ call[c] \in Request /\ call[c].sem \in Sem /\ pc[c] \in OwnPc /\ Fits(c)
           /\ \A s : InSemSection(c, s) <=> s = call[c].sem /\ pc[c] # "sem_lock"
           /\ pc[c] # "sem_lock" => \A d \in Core \ {c} : ~InSemSection(d, call[c].sem)
<1>1. InRequest(c) /\ pc[c] \in OwnPc
    BY DEF InRequest, Waking, OwnPc
<1>2. call[c] \in Request /\ call[c].sem \in Sem /\ Fits(c)
    BY <1>1 DEF SemInv, CallInv, UseInv, Request
<1>3. \A s : InSemSection(c, s) <=> s = call[c].sem /\ pc[c] # "sem_lock"
    BY DEF InSemSection, Alerting, ReadyPc
<1> QED
    BY <1>1, <1>2, <1>3 DEF SemInv, SemLockInv

LEMMA LockStep ==
    ASSUME SemInv, NEW c \in Core, SemLock(c) PROVE SemInv'
<1> DEFINE s == call[c].sem
<1>0. TypeOK /\ SemTypeOK /\ pc[c] = "sem_lock" /\ ~sem_lock[s]
    BY DEF SemInv, SemTypeOK, SemLock
<1>1. call[c] \in Request /\ s \in Sem /\ pc[c] \in OwnPc /\ Fits(c) /\ \A r : ~InSemSection(c, r)
    BY <1>0, Inside
<1>2. /\ pc' = [pc EXCEPT ![c] = "sem_do"] /\ SchedulerKept
      /\ sem_tasks' = sem_tasks /\ sem_count' = sem_count /\ usable' = usable /\ call' = call
    BY DEF SemLock
<1>3. /\ sem_lock' \in [Sem -> BOOLEAN] /\ sem_lock'[s]
      /\ \A r \in Sem : r # s => sem_lock'[r] = sem_lock[r]
    BY <1>0, <1>1 DEF SemLock, SemTypeOK
<1>4. /\ SemTypeOK' /\ BaseInv' /\ Placed' /\ QueueMutex' /\ Others(c)
      /\ NoZombie' /\ SleepInv' /\ LostInv' /\ NoSleeperWithToken'
      /\ pc'[c] = "sem_do" /\ ~(pc[c] \in ReadyPc) /\ ~(pc'[c] \in ReadyPc)
    <2>1. "sem_do" \in OwnPc
        BY DEF OwnPc
    <2>2. call \in [Core -> Request \cup {NoCall}]
        BY <1>0 DEF SemTypeOK, Request
    <2> QED
        BY <1>0, <1>1, <1>2, <1>3, <2>1, <2>2, StillStep DEF SemTypeOK
<1>5. InRequest(c)' /\ Fits(c)' /\ call'[c] \in Request
    BY <1>1, <1>2, <1>4 DEF InRequest, Fits
<1>6. \A r : InSemSection(c, r)' <=> r = s
    BY <1>2, <1>4 DEF InSemSection, Alerting
<1>7. \A r \in Sem : LockMove(c, r)
    BY <1>0, <1>1, <1>2, <1>3, <1>6 DEF LockMove
<1>8. \A r : Releases(c, r) => Releases(c, r)'
    BY <1>2, <1>4, <1>5 DEF Releases, InCall
<1>9. CallInv' /\ UseInv' /\ SemLockInv'
    BY <1>2, <1>4, <1>5, <1>7, <1>8, CallFrame
<1> QED
    BY <1>4, <1>9 DEF SemInv

(* The ends of the calls that unlock. *)
LEMMA UnlockStep ==
    ASSUME SemInv, NEW c \in Core, NEW s \in Sem,
           \/ SemTake(c, s) \/ SemTryFails(c, s) \/ SemPostCount(c, s)
           \/ SemPostEnd(c, s) \/ SemGetValue(c, s)
    PROVE  SemInv'
<1>0. TypeOK /\ SemTypeOK
    BY DEF SemInv, SemTypeOK
<1>1. /\ pc[c] \in {"sem_do", "sem_alert"} /\ call[c].sem = s /\ call[c].op # "destroy"
      /\ pc[c] = "sem_alert" => sem_tasks[s] = <<>>
      /\ Unlock(c) /\ sem_tasks' = sem_tasks /\ usable' = usable
    BY DEF SemTake, SemTryFails, SemPostCount, SemPostEnd, SemGetValue, InCall
<1>2. /\ pc' = [pc EXCEPT ![c] = "sem_ret"] /\ SchedulerKept /\ call' = call
      /\ sem_lock' = [sem_lock EXCEPT ![s] = FALSE]
    BY <1>1 DEF Unlock
<1>3. /\ call[c] \in Request /\ pc[c] \in OwnPc /\ Fits(c)
      /\ \A r : InSemSection(c, r) <=> r = s
      /\ \A d \in Core \ {c} : ~InSemSection(d, s)
    BY <1>1, Inside
<1>4. /\ sem_lock' \in [Sem -> BOOLEAN] /\ ~sem_lock'[s]
      /\ \A r \in Sem : r # s => sem_lock'[r] = sem_lock[r]
    BY <1>0, <1>2 DEF SemTypeOK
<1>5. /\ sem_count' \in [Sem -> Nat]
      /\ \A r \in Sem : sem_count'[r] > 0 => sem_count[r] > 0 \/ sem_tasks[r] = <<>>
    <2>0. sem_count \in [Sem -> Nat]
        BY <1>0 DEF SemTypeOK
    <2>1. CASE SemTake(c, s)
        <3>1. sem_count[s] > 0 /\ sem_count' = [sem_count EXCEPT ![s] = @ - 1]
            BY <2>1 DEF SemTake
        <3> QED
            BY <2>0, <3>1
    <2>2. CASE SemPostCount(c, s)
        <3>1. sem_tasks[s] = <<>> /\ sem_count' = [sem_count EXCEPT ![s] = @ + 1]
            BY <2>2 DEF SemPostCount
        <3> QED
            BY <2>0, <3>1
    <2>3. CASE SemTryFails(c, s) \/ SemPostEnd(c, s) \/ SemGetValue(c, s)
        BY <2>0, <2>3 DEF SemTryFails, SemPostEnd, SemGetValue
    <2> QED
        BY <2>1, <2>2, <2>3
<1>6. /\ SemTypeOK' /\ BaseInv' /\ Placed' /\ QueueMutex' /\ Others(c)
      /\ NoZombie' /\ SleepInv' /\ LostInv' /\ NoSleeperWithToken'
      /\ pc'[c] = "sem_ret" /\ ~(pc[c] \in ReadyPc) /\ ~(pc'[c] \in ReadyPc)
    <2>1. "sem_ret" \in OwnPc
        BY DEF OwnPc
    <2>2. call \in [Core -> Request \cup {NoCall}] /\ usable \in [Sem -> BOOLEAN]
        BY <1>0 DEF SemTypeOK, Request
    <2> QED
        BY <1>1, <1>2, <1>3, <1>4, <1>5, <2>1, <2>2, StillStep
<1>7. InRequest(c)' /\ Fits(c)' /\ call'[c] \in Request
    BY <1>1, <1>2, <1>3, <1>6 DEF InRequest, Fits
<1>8. \A r : ~InSemSection(c, r)' /\ ~Releases(c, r)
    BY <1>1, <1>6 DEF InSemSection, Alerting, Releases, InCall
<1>9. \A r \in Sem : LockMove(c, r)
    BY <1>1, <1>3, <1>4, <1>8 DEF LockMove
<1>10. CallInv' /\ UseInv' /\ SemLockInv'
    BY <1>1, <1>2, <1>6, <1>7, <1>8, <1>9, CallFrame
<1> QED
    BY <1>6, <1>10 DEF SemInv

(* The steps that change none of the variables of a semaphore: to the      *)
(* alert, from it with the lock held, and the return to user mode. *)
LEMMA PassStep ==
    ASSUME SemInv, NEW c \in Core,
           \/ SemRet(c) \/ SemOut(c)
           \/ \E s \in Sem : SemAlertBegin(c, s) \/ SemDestroyEnd(c, s)
    PROVE  SemInv'
<1>0. TypeOK /\ SemTypeOK
    BY DEF SemInv, SemTypeOK
<1>1. PICK l \in {"sem_alert", "sem_ret", "sem_out", "user"} :
         /\ pc' = [pc EXCEPT ![c] = l] /\ SchedulerKept
         /\ pc[c] \in {"sem_do", "sem_alert", "sem_ret", "sem_out"}
         /\ UNCHANGED <<sem_count, sem_tasks, sem_lock, usable>>
         /\ call' = IF l = "user" THEN [call EXCEPT ![c] = NoCall] ELSE call
    BY DEF SemRet, SemOut, SemAlertBegin, SemDestroyEnd, semVars
<1>2. /\ call' \in [Core -> Request \cup {NoCall}]
      /\ \A d \in Core \ {c} : call'[d] = call[d]
      /\ call'[c] = IF l = "user" THEN NoCall ELSE call[c]
    BY <1>0, <1>1 DEF SemTypeOK, Request
<1>3. InRequest(c) /\ call[c] \in Request /\ Fits(c)
    <2>1. InRequest(c)
        BY <1>1 DEF InRequest, Waking
    <2> QED
        BY <2>1 DEF SemInv, CallInv, UseInv
<1>4. /\ SemTypeOK' /\ BaseInv' /\ Placed' /\ QueueMutex' /\ Others(c)
      /\ NoZombie' /\ SleepInv' /\ LostInv' /\ NoSleeperWithToken'
      /\ pc'[c] = l /\ ~(pc[c] \in ReadyPc) /\ ~(pc'[c] \in ReadyPc)
    <2>1. l \in OwnPc /\ pc[c] \in OwnPc
        BY <1>1 DEF OwnPc
    <2> QED
        BY <1>0, <1>1, <1>2, <2>1, StillStep DEF SemTypeOK
<1>5. /\ InRequest(c)' => call'[c] \in Request /\ Fits(c)'
      /\ ~InRequest(c)' => call'[c] = NoCall
    <2>1. InRequest(c)' <=> l # "user"
        BY <1>1, <1>4 DEF InRequest, Waking
    <2> QED
        BY <1>1, <1>2, <1>3, <2>1 DEF Fits
<1>6. ASSUME NEW r \in Sem
      PROVE  /\ ~usable'[r] /\ sem_tasks'[r] # <<>> =>
                   \/ Releases(c, r)'
                   \/ ~usable[r] /\ sem_tasks[r] # <<>> /\ ~Releases(c, r)
             /\ LockMove(c, r)
    <2>1. CASE SemRet(c) \/ SemOut(c)
        <3>1. pc[c] \in {"sem_ret", "sem_out"} /\ pc'[c] \in {"sem_out", "user"}
            BY <1>0, <2>1 DEF SemRet, SemOut, TypeOK
        <3>2. ~Releases(c, r) /\ ~InSemSection(c, r) /\ ~InSemSection(c, r)'
            BY <3>1 DEF Releases, Waking, InSemSection, Alerting, ReadyPc
        <3> QED
            BY <1>1, <3>2 DEF LockMove
    <2>2. ASSUME NEW s \in Sem, SemAlertBegin(c, s)
          PROVE  /\ Releases(c, r) => Releases(c, r)'
                 /\ InSemSection(c, r)' <=> InSemSection(c, r)
        <3>1. pc[c] = "sem_do" /\ pc'[c] = "sem_alert" /\ call' = call
            BY <1>0, <2>2 DEF SemAlertBegin, semVars, TypeOK
        <3> QED
            BY <3>1 DEF Releases, InRequest, InCall, Waking, InSemSection, Alerting, ReadyPc
    <2>3. ASSUME NEW s \in Sem, SemDestroyEnd(c, s)
          PROVE  /\ ~usable'[r] /\ sem_tasks'[r] # <<>> =>
                      ~usable[r] /\ sem_tasks[r] # <<>> /\ ~Releases(c, r)
                 /\ LockMove(c, r)
        <3>1. /\ pc[c] = "sem_alert" /\ pc'[c] = "sem_ret" /\ call' = call
              /\ call[c].sem = s /\ call[c].op = "destroy" /\ sem_tasks[s] = <<>>
            BY <1>0, <2>3 DEF SemDestroyEnd, semVars, TypeOK, InCall
        <3>2. ~usable[s]
            BY <1>3, <3>1 DEF Fits
        <3>3. /\ InSemSection(c, r) <=> r = s
              /\ r = s => \A d \in Core \ {c} : ~InSemSection(d, r)
            BY <3>1, Inside
        <3>4. ~InSemSection(c, r)' /\ (Releases(c, r) => r = s)
            BY <3>1 DEF InSemSection, Alerting, ReadyPc, Releases, InCall
        <3> QED
            BY <1>1, <3>1, <3>2, <3>3, <3>4 DEF LockMove
    <2> QED
        BY <1>1, <2>1, <2>2, <2>3 DEF LockMove
<1>7. CallInv' /\ UseInv' /\ SemLockInv'
    BY <1>1, <1>2, <1>4, <1>5, <1>6, CallFrame
<1> QED
    BY <1>4, <1>7 DEF SemInv


(* A process that runs is RUNNABLE, and asleep on nothing. *)
LEMMA HeldLives ==
    ASSUME SemInv, NEW c \in Core, NEW p \in Holds(c)
    PROVE  p \in Process /\ state[p] = "RUNNABLE" /\ ~In(sem_tasks, p)
<1>1. p \in Process /\ state[p] # "UNUSED"
    BY DEF Holds, SemInv, Placed, ExistInv
<1> QED
    BY <1>1 DEF SemInv, NoZombie, SleepInv, Somewhere

LEMMA WaitSleepStep ==
    ASSUME SemInv, NEW c \in Core, NEW s \in Sem, SemWaitSleep(c, s) PROVE SemInv'
<1>r. PICK r : r = running_list[c]
    OBVIOUS
<1>0. BaseInv /\ Placed /\ QueueMutex /\ TypeOK /\ SemTypeOK
    BY DEF SemInv, BaseInv
<1>1. /\ pc[c] = "sem_do" /\ call[c].op = "wait" /\ call[c].sem = s /\ sem_count[s] = 0
      /\ pc' = [pc EXCEPT ![c] = "blocked"] /\ SchedulerKept
      /\ sem_count' = sem_count /\ usable' = usable
      /\ sem_tasks' = [sem_tasks EXCEPT ![s] = Append(@, r)]
      /\ sem_lock' = [sem_lock EXCEPT ![s] = FALSE]
      /\ call' = [call EXCEPT ![c] = NoCall]
    BY <1>r DEF SemWaitSleep, InCall
<1>2. /\ UNCHANGED <<queueVars, running_list, proc, link, scanVars, target, level>>
      /\ UNCHANGED <<affinityset, state, live_procs, ticks>>
    BY <1>1 DEF SchedulerKept, procVars
<1>3. /\ \A x : InSemSection(c, x) <=> x = s
      /\ \A d \in Core \ {c} : ~InSemSection(d, s)
    BY <1>1, Inside
<1>4. TypeOK'
    <2>1. state' \in [Process -> {"UNUSED", "RUNNABLE", "ZOMBIE"}] /\ live_procs' \in Nat
        BY <1>0, <1>2 DEF TypeOK
    <2> QED
        BY <1>0, <1>1, <1>2, <2>1, PlainType
<1>5. /\ BaseInv' /\ Placed' /\ QueueMutex' /\ Others(c)
      /\ \A p : Queued(p)' <=> Queued(p)
      /\ \A d \in Core \ {c} : Holds(d)' = Holds(d)
      /\ Holds(c)' = {} /\ r \in Process /\ Holds(c) = {r}
    <2>1. pc[c] \in OwnPc /\ "blocked" \notin OwnPc
        BY <1>1 DEF OwnPc
    <2> QED
        BY <1>r, <1>0, <1>1, <1>2, <1>4, <2>1, PlainStep
<1>6. state[r] = "RUNNABLE" /\ ~In(sem_tasks, r)
    BY <1>5, HeldLives
<1>7. /\ sem_tasks' \in [Sem -> Seq(Process)] /\ sem_tasks'[s] = Append(sem_tasks[s], r)
      /\ OneChanged(Sem, sem_tasks, sem_tasks', s)
    <2>1. sem_tasks \in [Sem -> Seq(Process)]
        BY <1>0 DEF SemTypeOK
    <2>2. Append(sem_tasks[s], r) \in Seq(Process)
        BY <1>5, <2>1
    <2> QED
        BY <1>1, <2>1, <2>2 DEF OneChanged
<1>8. (\A x : In(sem_tasks', x) <=> In(sem_tasks, x) \/ x = r) /\ Apart(sem_tasks')
    <2>1. r \in Process /\ ~In(sem_tasks, r) /\ Apart(sem_tasks)
        BY <1>5, <1>6 DEF SemInv, SleepInv
    <2> QED
        BY <1>7, <2>1, InAppended
<1>9. ~Somewhere(r)' /\ \A p : p # r => (Somewhere(p)' <=> Somewhere(p))
    BY <1>0, <1>5 DEF Somewhere, Placed, OnePlace
<1>10. SleepInv' /\ LostInv' /\ NoZombie'
    <2>1. SleepInv'
        BY <1>2, <1>6, <1>8, <1>9 DEF SemInv, SleepInv, In, Apart
    <2>2. LostInv'
        BY <1>2, <1>8, <1>9 DEF SemInv, LostInv, In
    <2> QED
        BY <1>2, <2>1, <2>2 DEF SemInv, NoZombie
<1>11. /\ call' \in [Core -> Request \cup {NoCall}] /\ call'[c] = NoCall
       /\ \A d \in Core \ {c} : call'[d] = call[d]
    BY <1>0, <1>1 DEF SemTypeOK, Request
<1>12. /\ sem_lock' \in [Sem -> BOOLEAN] /\ ~sem_lock'[s]
       /\ \A x \in Sem : x # s => sem_lock'[x] = sem_lock[x]
    BY <1>0, <1>1 DEF SemTypeOK
<1>13. SemTypeOK'
    BY <1>0, <1>1, <1>4, <1>7, <1>11, <1>12 DEF SemTypeOK, Request
<1>14. NoSleeperWithToken'
    BY <1>1, <1>7 DEF SemInv, NoSleeperWithToken, OneChanged
<1>15. pc'[c] = "blocked"
    BY <1>0, <1>1 DEF TypeOK
<1>16. ~InRequest(c)' /\ \A x : ~InSemSection(c, x)' /\ ~Releases(c, x)
    BY <1>1, <1>15 DEF InRequest, Waking, InSemSection, Alerting, Releases, InCall, ReadyPc
<1>17. usable[s]
    BY <1>1, Inside DEF Fits
<1>18. \A x \in Sem : LockMove(c, x)
    BY <1>1, <1>3, <1>12, <1>16 DEF LockMove
<1>19. CallInv' /\ UseInv' /\ SemLockInv'
    <2>1. \A x \in Sem : ~usable'[x] /\ sem_tasks'[x] # <<>> =>
             ~usable[x] /\ sem_tasks[x] # <<>> /\ ~Releases(c, x)
        BY <1>1, <1>7, <1>16, <1>17 DEF OneChanged
    <2> QED
        BY <1>1, <1>5, <1>11, <1>16, <1>18, <2>1, CallFrame
<1> QED
    BY <1>5, <1>10, <1>13, <1>14, <1>19 DEF SemInv

LEMMA BlockedStep ==
    ASSUME SemInv, NEW c \in Core, SemBlocked(c) PROVE SemInv'
<1>0. BaseInv /\ Placed /\ QueueMutex /\ TypeOK
    BY DEF SemInv, BaseInv
<1>1. /\ pc[c] = "blocked" /\ pc' = [pc EXCEPT ![c] = "next"] /\ SchedulerKept
      /\ UNCHANGED <<sem_count, sem_tasks, sem_lock, usable, call>>
    BY DEF SemBlocked, semVars
<1>2. /\ UNCHANGED <<queueVars, running_list, proc, link, scanVars, target, level>>
      /\ UNCHANGED <<affinityset, state, live_procs, ticks>>
    BY <1>1 DEF SchedulerKept, procVars
<1>3. TypeOK'
    <2>1. state' \in [Process -> {"UNUSED", "RUNNABLE", "ZOMBIE"}] /\ live_procs' \in Nat
        BY <1>0, <1>2 DEF TypeOK
    <2> QED
        BY <1>0, <1>1, <1>2, <2>1, PlainType
<1>4. /\ BaseInv' /\ Placed' /\ QueueMutex' /\ Others(c)
      /\ \A p : Queued(p)' <=> Queued(p)
      /\ \A d \in Core \ {c} : Holds(d)' = Holds(d)
      /\ Holds(c)' = {} /\ Holds(c) = {}
    <2>1. pc[c] \notin OwnPc /\ "next" \notin OwnPc
        BY <1>1 DEF OwnPc
    <2> QED
        BY <1>0, <1>1, <1>2, <1>3, <2>1, PlainStep
<1>5. \A p : Somewhere(p)' <=> Somewhere(p)
    BY <1>4 DEF Somewhere
<1>6. SleepInv' /\ LostInv' /\ NoZombie' /\ NoSleeperWithToken'
    BY <1>1, <1>2, <1>5
    DEF SemInv, SleepInv, LostInv, NoZombie, NoSleeperWithToken, In, Apart
<1>7. SemTypeOK'
    BY <1>1, <1>3 DEF SemInv, SemTypeOK
<1>8. /\ ~InRequest(c) /\ ~InRequest(c)'
      /\ \A x : ~InSemSection(c, x) /\ ~InSemSection(c, x)' /\ ~Releases(c, x)
    <2>1. pc'[c] = "next"
        BY <1>0, <1>1 DEF TypeOK
    <2> QED
        BY <1>1, <2>1 DEF InRequest, Waking, InSemSection, Alerting, Releases, ReadyPc
<1>9. call'[c] = NoCall
    BY <1>1, <1>8 DEF SemInv, CallInv
<1>10. \A x \in Sem : LockMove(c, x)
    BY <1>1, <1>8 DEF LockMove
<1>11. CallInv' /\ UseInv' /\ SemLockInv'
    BY <1>1, <1>4, <1>8, <1>9, <1>10, CallFrame
<1> QED
    BY <1>4, <1>6, <1>7, <1>11 DEF SemInv

(* alert_on_locked_nr takes a sleeper and has it in hand at once. *)
LEMMA AlertStep ==
    ASSUME SemInv, NEW c \in Core, NEW s \in Sem, SemAlert(c, s) PROVE SemInv'
<1>0. BaseInv /\ Placed /\ QueueMutex /\ TypeOK /\ SemTypeOK
    BY DEF SemInv, BaseInv
<1>1. PICK p : p = Head(sem_tasks[s])
    OBVIOUS
<1>2. /\ pc[c] = "sem_alert" /\ call[c].sem = s /\ sem_tasks[s] # <<>>
      /\ sem_tasks' = [sem_tasks EXCEPT ![s] = Tail(@)]
      /\ CallReady(c, p, "sem_alert")
      /\ UNCHANGED <<queueVars, affinityset, live_procs, ticks, running_list, target, level>>
      /\ UNCHANGED <<sem_count, sem_lock, usable, call>>
    BY <1>1 DEF SemAlert
<1>3. sem_tasks \in [Sem -> Seq(Process)] /\ Apart(sem_tasks)
    BY <1>0 DEF SemTypeOK, SemInv, SleepInv
<1>4. /\ sem_tasks' \in [Sem -> Seq(Process)] /\ sem_tasks'[s] = Tail(sem_tasks[s])
      /\ OneChanged(Sem, sem_tasks, sem_tasks', s)
    <2>1. Tail(sem_tasks[s]) \in Seq(Process)
        BY <1>2, <1>3
    <2> QED
        BY <1>2, <1>3, <2>1 DEF OneChanged
<1>5. /\ p \in Process /\ In(sem_tasks, p)
      /\ \A x : In(sem_tasks', x) <=> In(sem_tasks, x) /\ x # p
      /\ Apart(sem_tasks')
    <2>1. /\ OneChanged(Sem, sem_tasks, sem_tasks', s) /\ sem_tasks[s] # <<>>
          /\ sem_tasks'[s] = Tail(sem_tasks[s]) /\ Apart(sem_tasks)
        BY <1>2, <1>3, <1>4
    <2>2. /\ Head(sem_tasks[s]) \in Process /\ In(sem_tasks, Head(sem_tasks[s]))
          /\ \A x : In(sem_tasks', x) <=> In(sem_tasks, x) /\ x # Head(sem_tasks[s])
          /\ Apart(sem_tasks')
        BY <2>1, InRemoved
    <2> QED
        BY <1>1, <2>2
<1>6. state[p] = "RUNNABLE" /\ ~Somewhere(p)
    BY <1>5 DEF SemInv, SleepInv
<1>7. TypeOK'
    <2>1. "sem_alert" \in ReturnPc
        BY DEF ReturnPc
    <2> QED
        BY <1>0, <1>2, <1>5, <2>1, CallReadyType DEF TypeOK, queueVars
<1>8. /\ BaseInv' /\ Placed' /\ QueueMutex' /\ Others(c)
      /\ \A x : Queued(x)' <=> Queued(x)
      /\ \A d \in Core \ {c} : Holds(d)' = Holds(d)
      /\ Holds(c)' = Holds(c) \cup {p}
      /\ pc'[c] = "pick" /\ link'[c] = "sem_alert"
      /\ state' = [state EXCEPT ![p] = "RUNNABLE"]
    BY <1>0, <1>2, <1>5, <1>6, <1>7, WakeStep
<1>9. state' = state
    BY <1>0, <1>6, <1>8 DEF TypeOK
<1>10. \A x : Somewhere(x)' <=> Somewhere(x) \/ x = p
    BY <1>8 DEF Somewhere
<1>11. SleepInv' /\ LostInv' /\ NoZombie'
    <2>1. ASSUME NEW x \in Process, In(sem_tasks', x)
          PROVE  state'[x] = "RUNNABLE" /\ ~Somewhere(x)'
        BY <1>5, <1>9, <1>10, <2>1 DEF SemInv, SleepInv
    <2>2. ASSUME NEW x \in Process, state'[x] = "RUNNABLE"
          PROVE  Somewhere(x)' \/ In(sem_tasks', x)
        BY <1>5, <1>9, <1>10, <2>2 DEF SemInv, LostInv
    <2>3. SleepInv'
        BY <1>5, <2>1 DEF SleepInv, In, Apart
    <2>4. LostInv'
        BY <2>2 DEF LostInv, In
    <2> QED
        BY <1>9, <2>3, <2>4 DEF SemInv, NoZombie
<1>12. NoSleeperWithToken'
    BY <1>2, <1>4 DEF SemInv, NoSleeperWithToken, OneChanged
<1>13. SemTypeOK'
    BY <1>2, <1>4, <1>7 DEF SemInv, SemTypeOK
<1>14. /\ InRequest(c) /\ InRequest(c)'
       /\ \A x : InSemSection(c, x)' <=> InSemSection(c, x)
       /\ \A x : Releases(c, x)' <=> Releases(c, x)
    BY <1>2, <1>8 DEF InRequest, Waking, InSemSection, Alerting, Releases, InCall, ReadyPc
<1>15. call'[c] \in Request /\ Fits(c)'
    BY <1>2, <1>14 DEF SemInv, CallInv, UseInv, Fits
<1>16. \A x \in Sem : LockMove(c, x)
    BY <1>2, <1>14 DEF LockMove
<1>17. \A x \in Sem : sem_tasks'[x] # <<>> => sem_tasks[x] # <<>>
    BY <1>2, <1>4 DEF OneChanged
<1>18. CallInv' /\ UseInv' /\ SemLockInv'
    BY <1>2, <1>8, <1>14, <1>15, <1>16, <1>17, CallFrame
<1> QED
    BY <1>8, <1>11, <1>12, <1>13, <1>18 DEF SemInv

(* The scheduler touches no semaphore, and ready() returns to the alert. *)
LEMMA SchedulerStep ==
    ASSUME SemInv, NEW c \in Core, CoreStep(c), UNCHANGED semVars
    PROVE  /\ SemInv' /\ Others(c)
           /\ \A s : Alerting(c, s)' <=> Alerting(c, s)
<1>0. BaseInv /\ Placed /\ QueueMutex /\ TypeOK
    BY DEF SemInv, BaseInv
<1>1. BaseInv' /\ Placed' /\ Others(c) /\ Flow(c)
    BY <1>0, StepPlaced
<1>2. QueueMutex'
    BY <1>0, <1>1, StepMutex
<1>3. UNCHANGED <<sem_count, sem_tasks, sem_lock, usable, call>>
    BY DEF semVars
<1>4. /\ InRequest(c)' <=> InRequest(c)
      /\ Waking(c)' <=> Waking(c)
      /\ \A s : InSemSection(c, s)' <=> InSemSection(c, s)
      /\ \A s : Alerting(c, s)' <=> Alerting(c, s)
      /\ \A s : Releases(c, s)' <=> Releases(c, s)
    <2>1. /\ pc[c] \notin {"sem_lock", "sem_do", "sem_ret", "sem_out"}
          /\ pc'[c] \notin {"sem_lock", "sem_do", "sem_ret", "sem_out"}
          /\ Waking(c)' <=> Waking(c)
        <3>1. CASE pc[c] \in ReadyPc
            <4>1. link[c] \in ReturnPc
                BY <1>0, <3>1 DEF BaseInv, LinkInv
            <4>2. \/ pc'[c] \in ReadyPc /\ link'[c] = link[c]
                  \/ pc'[c] = link[c]
                BY <1>0, <3>1, StepPath
            <4> QED
                BY <3>1, <4>1, <4>2 DEF Waking, ReadyPc, ReturnPc
        <3>2. CASE pc[c] \notin ReadyPc
            <4>1. /\ pc[c] \notin (OwnPc \cup {"blocked"}) \ {"user"}
                  /\ pc'[c] \notin (OwnPc \cup {"blocked"}) \ {"user"}
                  /\ pc'[c] \in ReadyPc => link'[c] \in {"user", "next", "boot_root"}
                BY <1>0, <3>2, StepPath
            <4> QED
                BY <3>2, <4>1 DEF Waking, OwnPc
        <3> QED
            BY <3>1, <3>2
    <2> QED
        BY <1>3, <2>1 DEF InRequest, InSemSection, Alerting, Waking, Releases, InCall
<1>5. \A s \in Sem : LockMove(c, s)
    BY <1>3, <1>4 DEF LockMove
<1>6. InRequest(c)' => call'[c] \in Request /\ Fits(c)'
    BY <1>3, <1>4 DEF SemInv, CallInv, UseInv, Fits
<1>7. CallInv' /\ UseInv' /\ SemLockInv'
    <2>1. ~InRequest(c)' => call'[c] = NoCall
        BY <1>3, <1>4 DEF SemInv, CallInv
    <2> QED
        BY <1>1, <1>3, <1>4, <1>5, <1>6, <2>1, CallFrame
<1>8. SemTypeOK'
    BY <1>1, <1>3 DEF SemInv, SemTypeOK, BaseInv
<1>9. \A p : In(sem_tasks, p)' <=> In(sem_tasks, p)
    BY <1>3 DEF In
<1>10. SleepInv'
    BY <1>1, <1>3, <1>9 DEF SemInv, SleepInv, Flow, Apart
<1>11. LostInv' /\ NoZombie'
    BY <1>1, <1>9 DEF SemInv, LostInv, NoZombie, Flow
<1>12. NoSleeperWithToken'
    BY <1>3 DEF SemInv, NoSleeperWithToken
<1> QED
    BY <1>1, <1>2, <1>4, <1>7, <1>8, <1>10, <1>11, <1>12 DEF SemInv


LEMMA StutterSemaphore ==
    ASSUME SemInv, UNCHANGED semaphoreVars PROVE SemInv'
<1>0. BaseInv /\ Placed /\ QueueMutex
    BY DEF SemInv
<1>1. UNCHANGED dispatchVars /\ UNCHANGED <<sem_count, sem_tasks, sem_lock, usable, call>>
    BY DEF semaphoreVars, semVars
<1>2. BaseInv' /\ Placed' /\ \A p : Somewhere(p)' <=> Somewhere(p)
    BY <1>0, <1>1, StutterPlaced
<1>3. UNCHANGED <<rq_lock, state, pc, link, target>>
    BY <1>1 DEF dispatchVars, queueVars, procVars, coreVars
<1>4. QueueMutex'
    BY <1>0, <1>3 DEF QueueMutex, InQueueSection
<1>5. SemTypeOK'
    BY <1>1, <1>2 DEF SemInv, SemTypeOK, BaseInv
<1>6. \A p : In(sem_tasks, p)' <=> In(sem_tasks, p)
    BY <1>1 DEF In
<1>7. SleepInv' /\ LostInv' /\ NoZombie' /\ NoSleeperWithToken'
    BY <1>1, <1>2, <1>3, <1>6
    DEF SemInv, SleepInv, LostInv, NoZombie, NoSleeperWithToken, Apart
<1>8. \A c : /\ InRequest(c)' <=> InRequest(c)
             /\ Fits(c)' <=> Fits(c)
             /\ \A s : InSemSection(c, s)' <=> InSemSection(c, s)
             /\ \A s : Releases(c, s)' <=> Releases(c, s)
    BY <1>1, <1>3 DEF InRequest, Waking, Fits, InSemSection, Alerting, Releases, InCall
<1>9. CallInv' /\ UseInv' /\ SemLockInv'
    BY <1>1, <1>8 DEF SemInv, CallInv, UseInv, SemLockInv
<1> QED
    BY <1>2, <1>4, <1>5, <1>7, <1>9 DEF SemInv

LEMMA NextSemaphore ==
    ASSUME SemInv, [SemaphoreNext]_semaphoreVars PROVE SemInv'
<1>1. CASE UNCHANGED semaphoreVars
    BY <1>1, StutterSemaphore
<1>2. ASSUME NEW c \in Core, SemaphoreStep(c) PROVE SemInv'
    <2>1. CASE CoreStep(c) /\ UNCHANGED semVars
        BY <2>1, SchedulerStep
    <2>2. ASSUME NEW s \in Sem, SemCalls(c, s) PROVE SemInv'
        BY <2>2, EnterStep
    <2>3. CASE SemLock(c)
        BY <2>3, LockStep
    <2>4. ASSUME NEW s \in Sem,
                 \/ SemTake(c, s) \/ SemTryFails(c, s) \/ SemPostCount(c, s)
                 \/ SemPostEnd(c, s) \/ SemGetValue(c, s)
          PROVE  SemInv'
        BY <2>4, UnlockStep
    <2>5. CASE \/ SemRet(c) \/ SemOut(c)
               \/ \E s \in Sem : SemAlertBegin(c, s) \/ SemDestroyEnd(c, s)
        BY <2>5, PassStep
    <2>6. ASSUME NEW s \in Sem, SemWaitSleep(c, s) \/ SemAlert(c, s) PROVE SemInv'
        BY <2>6, WaitSleepStep, AlertStep
    <2>7. CASE SemBlocked(c)
        BY <2>7, BlockedStep
    <2> QED
        BY <1>2, <2>1, <2>2, <2>3, <2>4, <2>5, <2>6, <2>7 DEF SemaphoreStep, SemKernel
<1> QED
    BY <1>1, <1>2 DEF SemaphoreNext

LEMMA SemaphoreAlways == SemaphoreSpec => []SemInv
<1>1. SemaphoreInit => SemInv
    BY InitSemaphore
<1>2. SemInv /\ [SemaphoreNext]_semaphoreVars => SemInv'
    BY NextSemaphore
<1> QED
    BY <1>1, <1>2, PTL DEF SemaphoreSpec

-----------------------------------------------------------------------------
(* The variables of the semaphores keep their types: no call decrements a  *)
(* count below zero, which the code's int would let it. *)
THEOREM SemTypeCorrect == SemaphoreSpec => []SemTypeOK
<1>1. SemInv => SemTypeOK
    BY DEF SemInv
<1> QED
    BY <1>1, SemaphoreAlways, PTL

(* No lost wake-up: nobody sleeps on a semaphore that has a token. *)
THEOREM NoWakeUpLost == SemaphoreSpec => []NoSleeperWithToken
<1>1. SemInv => NoSleeperWithToken
    BY DEF SemInv
<1> QED
    BY <1>1, SemaphoreAlways, PTL

(* At most one core is between the lock and the unlock of a semaphore,     *)
(* while it readies the sleepers too, and a destroy leaves the lock set    *)
(* without shutting anybody out. *)
THEOREM SemSectionsExclusive == SemaphoreSpec => []SemMutex
<1>1. SemInv => SemMutex
    BY DEF SemInv, SemTypeOK, SemLockInv, SemMutex, Destroyed
<1> QED
    BY <1>1, SemaphoreAlways, PTL

(* Wait, post and destroy lose no process: it is held by a core, ready, or *)
(* asleep on a semaphore. *)
THEOREM NoSleeperLost == SemaphoreSpec => []NoLostSleeper
<1>1. SemInv => NoLostSleeper
    BY DEF SemInv, SemTypeOK, LostInv, NoLostSleeper, Somewhere, In, SleepsOn
<1> QED
    BY <1>1, SemaphoreAlways, PTL

(* A process sleeps on one semaphore, and no core or ready queue has it:   *)
(* a post cannot ready it while its core still owns it. *)
THEOREM SleepersAreApart == SemaphoreSpec => []SemSleepersApart
<1>1. SemInv => SemSleepersApart
    <2>1. ASSUME SemInv, NEW s \in Sem, NEW k \in 1 .. Len(sem_tasks[s])
          PROVE  /\ In(sem_tasks, sem_tasks[s][k]) /\ sem_tasks[s][k] \in Process
        BY <2>1 DEF SemInv, SemTypeOK, In
    <2>2. ASSUME SemInv, NEW s \in Sem, NEW k \in 1 .. Len(sem_tasks[s])
          PROVE  ~Somewhere(sem_tasks[s][k])
        BY <2>1, <2>2 DEF SemInv, SleepInv
    <2>3. SemInv => Apart(sem_tasks) /\ DOMAIN sem_tasks = Sem
        BY DEF SemInv, SemTypeOK, SleepInv
    <2> QED
        BY <2>2, <2>3 DEF SemSleepersApart, Somewhere, Apart
<1> QED
    BY <1>1, SemaphoreAlways, PTL


-----------------------------------------------------------------------------
(* The refinement.  What the sleepers of AbstractSemaphore do in a step.   *)
LEMMA Sleepers ==
    /\ DOMAIN StillAsleep = Sem
    /\ \A s \in Sem : (\E c \in Core : Alerting(c, s)) => StillAsleep[s] = {}
    /\ \A s \in Sem : (~\E c \in Core : Alerting(c, s)) =>
          StillAsleep[s] = {p \in Process : SleepsOn(p, s)}
BY DEF StillAsleep

(* Which other cores alert is not changed by c. *)
LEMMA SleepersAt ==
    ASSUME NEW c \in Core, Others(c), \A d \in Core \ {c} : call'[d] = call[d], NEW s \in Sem,
           \/ sem_tasks'[s] = sem_tasks[s] /\ (Alerting(c, s)' <=> Alerting(c, s))
           \/ Alerting(c, s) /\ Alerting(c, s)'
           \/ sem_tasks[s] = <<>> /\ sem_tasks'[s] = <<>>
    PROVE  StillAsleep'[s] = StillAsleep[s]
<1>1. \A d \in Core \ {c} : Alerting(d, s)' <=> Alerting(d, s)
    BY OthersCalls
<1>2. CASE sem_tasks'[s] = sem_tasks[s] /\ (Alerting(c, s)' <=> Alerting(c, s))
    <2>1. (\E d \in Core : Alerting(d, s))' <=> \E d \in Core : Alerting(d, s)
        BY <1>1, <1>2
    <2>2. \A p : SleepsOn(p, s)' <=> SleepsOn(p, s)
        BY <1>2 DEF SleepsOn
    <2> QED
        BY <2>1, <2>2 DEF StillAsleep
<1>3. CASE Alerting(c, s) /\ Alerting(c, s)'
    BY <1>3 DEF StillAsleep
<1>4. CASE sem_tasks[s] = <<>> /\ sem_tasks'[s] = <<>>
    <2>1. \A p : ~SleepsOn(p, s) /\ ~SleepsOn(p, s)'
        <3>1. 1 .. Len(sem_tasks[s]) = {} /\ 1 .. Len(sem_tasks'[s]) = {}
            BY <1>4
        <3> QED
            BY <3>1 DEF SleepsOn
    <2> QED
        BY <2>1 DEF StillAsleep
<1> QED
    BY <1>2, <1>3, <1>4

LEMMA SameSleepers ==
    ASSUME \A s \in Sem : StillAsleep'[s] = StillAsleep[s]
    PROVE  StillAsleep' = StillAsleep
BY DEF StillAsleep

LEMMA OneSleeper ==
    ASSUME NEW s \in Sem, NEW S, StillAsleep'[s] = S,
           \A r \in Sem : r # s => StillAsleep'[r] = StillAsleep[r]
    PROVE  StillAsleep' = [StillAsleep EXCEPT ![s] = S]
BY DEF StillAsleep

LEMMA OthersOf ==
    ASSUME TypeOK, NEW c \in Core, NEW l, pc' = [pc EXCEPT ![c] = l], SchedulerKept
    PROVE  Others(c) /\ pc'[c] = l /\ link' = link
BY DEF TypeOK, Others, SchedulerKept, scanVars

(* The calls begin, init and destroy change which semaphores are open. *)
LEMMA EnterAtomic ==
    ASSUME SemInv, SemInv', NEW c \in Core, NEW s \in Sem, SemCalls(c, s)
    PROVE  Abstract!Open(s) \/ Abstract!Close(s) \/ UNCHANGED Abstract!absVars
<1>0. TypeOK /\ SemTypeOK
    BY DEF SemInv, SemTypeOK
<1>1. PICK o \in Ops, l \in {"sem_lock", "sem_ret"} : EnterCall(c, o, s, l)
    BY DEF SemCalls, SemInit, SemInitShared, SemCall, SemPost, SemDestroy, Ops
<1>2. /\ Others(c) /\ pc'[c] = l /\ pc[c] = "user"
      /\ \A d \in Core \ {c} : call'[d] = call[d]
    BY <1>0, <1>1, OthersOf DEF EnterCall, SemTypeOK
<1>3. \A r : ~Alerting(c, r) /\ ~Alerting(c, r)'
    BY <1>2 DEF Alerting, ReadyPc
<1>4. ASSUME NEW v \in 0 .. MaxCount, SemInit(c, s, v) PROVE Abstract!Open(s)
    <2>1. ~usable[s] /\ usable' = [usable EXCEPT ![s] = TRUE]
        BY <1>4 DEF SemInit
    <2>2. sem_count' = [sem_count EXCEPT ![s] = v] /\ v \in Nat /\ sem_count'[s] = v
        BY <1>0, <1>4, MaxCountAssumption DEF SemInit, SemTypeOK
    <2>3. /\ sem_tasks'[s] = <<>>
          /\ \A r \in Sem : r # s => sem_tasks'[r] = sem_tasks[r]
        BY <1>0, <1>4 DEF SemInit, SemTypeOK
    <2>4. StillAsleep'[s] = {}
        <3>1. 1 .. Len(sem_tasks'[s]) = {}
            BY <2>3
        <3> QED
            BY <3>1 DEF StillAsleep, SleepsOn
    <2>5. StillAsleep' = [StillAsleep EXCEPT ![s] = {}]
        BY <1>2, <1>3, <2>3, <2>4, SleepersAt, OneSleeper
    <2> QED
        BY <2>1, <2>2, <2>5 DEF Abstract!Open
<1>5. CASE ~\E v \in 0 .. MaxCount : SemInit(c, s, v)
    <2>1. UNCHANGED <<sem_count, sem_tasks, sem_lock>>
        BY <1>5 DEF SemCalls, SemInitShared, SemCall, SemPost, SemDestroy
    <2>2. StillAsleep' = StillAsleep
        BY <1>2, <1>3, <2>1, SleepersAt, SameSleepers
    <2>3. usable' = usable \/ (usable[s] /\ usable' = [usable EXCEPT ![s] = FALSE])
        BY <1>5 DEF SemCalls, SemInitShared, SemCall, SemPost, SemDestroy
    <2> QED
        BY <2>1, <2>2, <2>3 DEF Abstract!Close, Abstract!absVars
<1> QED
    BY <1>4, <1>5


(* The steps with the lock held: one of them is the abstract call. *)
LEMMA InsideAtomic ==
    ASSUME SemInv, SemInv', NEW c \in Core, NEW s \in Sem,
           \/ SemTake(c, s) \/ SemTryFails(c, s) \/ SemWaitSleep(c, s)
           \/ SemPostCount(c, s) \/ SemAlertBegin(c, s)
           \/ SemPostEnd(c, s) \/ SemDestroyEnd(c, s) \/ SemGetValue(c, s)
    PROVE  \/ Abstract!Take(s) \/ Abstract!Sleep(s) \/ Abstract!Keep(s)
           \/ Abstract!ReleaseAll(s) \/ UNCHANGED Abstract!absVars
<1>0. TypeOK /\ SemTypeOK
    BY DEF SemInv, SemTypeOK
<1>1. PICK l \in {"sem_ret", "blocked", "sem_alert"} :
         /\ pc' = [pc EXCEPT ![c] = l] /\ SchedulerKept
         /\ pc[c] \in {"sem_do", "sem_alert"} /\ call[c].sem = s
         /\ usable' = usable
         /\ call' = call \/ (l = "blocked" /\ call' = [call EXCEPT ![c] = NoCall])
    BY DEF SemTake, SemTryFails, SemWaitSleep, SemPostCount, SemAlertBegin, SemPostEnd,
           SemDestroyEnd, SemGetValue, Unlock, InCall, semVars
<1>2. /\ Others(c) /\ pc'[c] = l
      /\ \A d \in Core \ {c} : call'[d] = call[d]
    BY <1>0, <1>1, OthersOf DEF SemTypeOK
<1>3. /\ Fits(c) /\ call[c] \in Request
      /\ \A d \in Core \ {c} : ~InSemSection(d, s)
    BY <1>1, Inside
<1>4. \A d \in Core \ {c} : ~Alerting(d, s)
    BY <1>3 DEF InSemSection
<1>5. \A r : /\ Alerting(c, r) <=> r = s /\ pc[c] = "sem_alert"
             /\ r # s => ~Alerting(c, r)'
    <2>1. pc[c] \notin ReadyPc /\ pc'[c] \notin ReadyPc
        BY <1>1, <1>2 DEF ReadyPc
    <2>2. l = "sem_alert" => call'[c] = call[c]
        BY <1>1
    <2> QED
        BY <1>1, <1>2, <2>1, <2>2 DEF Alerting
<1>6. pc[c] = "sem_do" => StillAsleep[s] = {p \in Process : SleepsOn(p, s)}
    BY <1>4, <1>5, Sleepers
<1>7. \A r : SemInv /\ sem_tasks[s] = <<>> => ~SleepsOn(r, s)
    <2>1. sem_tasks[s] = <<>> => 1 .. Len(sem_tasks[s]) = {}
        OBVIOUS
    <2> QED
        BY <2>1 DEF SleepsOn
<1>8. CASE \/ SemTake(c, s) \/ SemTryFails(c, s) \/ SemPostCount(c, s) \/ SemGetValue(c, s)
    <2>1. /\ pc[c] = "sem_do" /\ pc'[c] = "sem_ret" /\ sem_tasks' = sem_tasks
          /\ call[c].op # "destroy" /\ call[c].op # "init"
        BY <1>0, <1>8
        DEF SemTake, SemTryFails, SemPostCount, SemGetValue, Unlock, InCall, TypeOK
    <2>2. \A r : ~Alerting(c, r)' /\ ~Alerting(c, r)
        BY <2>1 DEF Alerting, ReadyPc
    <2>3. StillAsleep' = StillAsleep
        BY <1>2, <2>1, <2>2, SleepersAt, SameSleepers
    <2>4. usable[s]
        BY <1>1, <1>3, <2>1 DEF Fits
    <2>5. CASE SemTake(c, s)
        <3>1. sem_count[s] > 0 /\ sem_count' = [sem_count EXCEPT ![s] = @ - 1]
            BY <2>5 DEF SemTake
        <3> QED
            BY <1>1, <2>3, <2>4, <3>1 DEF Abstract!Take
    <2>6. CASE SemPostCount(c, s)
        <3>1. sem_tasks[s] = <<>> /\ sem_count' = [sem_count EXCEPT ![s] = @ + 1]
            BY <2>6 DEF SemPostCount
        <3>2. StillAsleep[s] = {}
            BY <1>6, <1>7, <2>1, <3>1
        <3> QED
            BY <1>1, <2>3, <2>4, <3>1, <3>2 DEF Abstract!Keep
    <2>7. CASE SemTryFails(c, s) \/ SemGetValue(c, s)
        <3>1. sem_count' = sem_count
            BY <2>7 DEF SemTryFails, SemGetValue
        <3> QED
            BY <1>1, <2>3, <3>1 DEF Abstract!absVars
    <2> QED
        BY <1>8, <2>5, <2>6, <2>7
<1>9. CASE SemWaitSleep(c, s)
    <2>1. PICK p : p = running_list[c]
        OBVIOUS
    <2>2. /\ pc[c] = "sem_do" /\ call[c].op = "wait" /\ sem_count[s] = 0
          /\ sem_count' = sem_count
          /\ sem_tasks' = [sem_tasks EXCEPT ![s] = Append(@, p)]
        BY <1>9, <2>1 DEF SemWaitSleep, InCall
    <2>3. Owns(c) /\ usable[s]
        BY <1>1, <1>3, <2>2 DEF Owns, ReadyPc, NextPc, Fits
    <2>4. p \in Process /\ p \in Holds(c)
        BY <2>1, <2>3 DEF SemInv, BaseInv, HolderInv, Holds
    <2>5. ~In(sem_tasks, p)
        BY <2>4, HeldLives
    <2>6. ~SleepsOn(p, s)
        BY <1>0, <2>5 DEF In, SleepsOn, SemTypeOK
    <2>7. pc'[c] = "blocked"
        BY <1>0, <1>9 DEF SemWaitSleep, TypeOK
    <2>8. \A r : ~Alerting(c, r)' /\ ~Alerting(c, r)
        BY <2>2, <2>7 DEF Alerting, ReadyPc
    <2>9. \A x : SleepsOn(x, s)' <=> SleepsOn(x, s) \/ x = p
        <3>1. PICK q \in Seq(Process) : q = sem_tasks[s] /\ Len(q) \in Nat
            BY <1>0 DEF SemTypeOK
        <3>2. sem_tasks'[s] = Append(q, p)
            BY <1>0, <2>2, <3>1 DEF SemTypeOK
        <3>3. /\ Len(Append(q, p)) = Len(q) + 1 /\ Append(q, p)[Len(q) + 1] = p
              /\ \A k \in 1 .. Len(q) : Append(q, p)[k] = q[k]
            BY <2>4, <3>1
        <3>4. \A k : k \in 1 .. Len(q) + 1 <=> k \in 1 .. Len(q) \/ k = Len(q) + 1
            BY <3>1
        <3> HIDE <3>2
        <3>5. PICK t : t = Append(q, p)
            OBVIOUS
        <3>6. sem_tasks'[s] = t
            BY <3>2, <3>5
        <3>7. ASSUME NEW x PROVE SleepsOn(x, s)' <=> SleepsOn(x, s) \/ x = p
            <4>1. SleepsOn(x, s)' <=> \E k \in 1 .. Len(q) + 1 : t[k] = x
                BY <3>3, <3>5, <3>6 DEF SleepsOn
            <4>2. SleepsOn(x, s) <=> \E k \in 1 .. Len(q) : q[k] = x
                BY <3>1 DEF SleepsOn
            <4> QED
                BY <3>3, <3>4, <3>5, <4>1, <4>2
        <3> QED
            BY <3>7
    <2>10. StillAsleep'[s] = StillAsleep[s] \cup {p}
        <3>1. \A d \in Core : ~Alerting(d, s)'
            BY <1>2, <1>4, <2>8, OthersCalls
        <3>2. StillAsleep'[s] = {x \in Process : SleepsOn(x, s)'}
            BY <3>1 DEF StillAsleep
        <3> QED
            BY <1>6, <2>2, <2>4, <2>9, <3>2
    <2>11. StillAsleep' = [StillAsleep EXCEPT ![s] = StillAsleep[s] \cup {p}]
        <3>1. \A r \in Sem : r # s => sem_tasks'[r] = sem_tasks[r]
            BY <1>0, <2>2 DEF SemTypeOK
        <3> QED
            BY <1>2, <2>8, <2>10, <3>1, SleepersAt, OneSleeper
    <2>12. p \in Process \ StillAsleep[s]
        BY <1>6, <2>2, <2>4, <2>6
    <2> QED
        BY <1>1, <2>2, <2>3, <2>11, <2>12 DEF Abstract!Sleep
<1>10. CASE SemAlertBegin(c, s)
    <2>1. /\ pc[c] = "sem_do" /\ pc'[c] = "sem_alert"
          /\ UNCHANGED <<sem_count, sem_tasks, usable, call>>
        BY <1>0, <1>10 DEF SemAlertBegin, semVars, TypeOK
    <2>2. CASE sem_tasks[s] = <<>>
        <3>1. StillAsleep' = StillAsleep
            BY <1>2, <1>5, <2>1, <2>2, SleepersAt, SameSleepers
        <3> QED
            BY <2>1, <3>1 DEF Abstract!absVars
    <2>3. CASE sem_tasks[s] # <<>>
        <3>1. StillAsleep[s] # {}
            <4>1. PICK q \in Seq(Process) : q = sem_tasks[s] /\ Len(q) \in Nat /\ q # <<>>
                BY <1>0, <2>3 DEF SemTypeOK
            <4>2. q[1] \in Process /\ 1 \in 1 .. Len(q)
                BY <4>1
            <4>3. SleepsOn(q[1], s)
                BY <4>1, <4>2 DEF SleepsOn
            <4> QED
                BY <1>6, <2>1, <4>2, <4>3
        <3>2. Alerting(c, s)'
            BY <1>1, <2>1 DEF Alerting
        <3>3. StillAsleep'[s] = {}
            BY <3>2 DEF StillAsleep
        <3>4. StillAsleep' = [StillAsleep EXCEPT ![s] = {}]
            BY <1>2, <1>5, <2>1, <3>3, SleepersAt, OneSleeper
        <3> QED
            BY <2>1, <3>1, <3>4 DEF Abstract!ReleaseAll
    <2> QED
        BY <2>2, <2>3
<1>11. CASE SemPostEnd(c, s) \/ SemDestroyEnd(c, s)
    <2>1. sem_tasks[s] = <<>> /\ UNCHANGED <<sem_count, sem_tasks, usable>>
        BY <1>11 DEF SemPostEnd, SemDestroyEnd, semVars
    <2>2. StillAsleep' = StillAsleep
        BY <1>2, <1>5, <2>1, SleepersAt, SameSleepers
    <2> QED
        BY <2>1, <2>2 DEF Abstract!absVars
<1> QED
    BY <1>8, <1>9, <1>10, <1>11


(* alert_on_locked_nr: the sleepers have been released when it began. *)
LEMMA AlertAtomic ==
    ASSUME SemInv, SemInv', NEW c \in Core, NEW s \in Sem, SemAlert(c, s)
    PROVE  UNCHANGED Abstract!absVars
<1>0. TypeOK /\ SemTypeOK
    BY DEF SemInv, SemTypeOK
<1>1. /\ pc[c] = "sem_alert" /\ call[c].sem = s /\ UNCHANGED <<sem_count, usable, call>>
      /\ pc' = [pc EXCEPT ![c] = "pick"] /\ link' = [link EXCEPT ![c] = "sem_alert"]
      /\ sem_tasks' = [sem_tasks EXCEPT ![s] = Tail(@)]
    BY DEF SemAlert, CallReady
<1>2. Others(c)
    <2>1. CallReady(c, Head(sem_tasks[s]), "sem_alert") /\ UNCHANGED <<running_list, target, level>>
        BY DEF SemAlert
    <2> QED
        BY <1>0, <2>1 DEF CallReady, Others, TypeOK
<1>3. pc'[c] = "pick" /\ link'[c] = "sem_alert"
    BY <1>0, <1>1 DEF TypeOK
<1>4. /\ Alerting(c, s) /\ Alerting(c, s)'
      /\ \A r \in Sem : r # s => /\ Alerting(c, r)' <=> Alerting(c, r)
                                 /\ sem_tasks'[r] = sem_tasks[r]
    BY <1>0, <1>1, <1>3 DEF Alerting, ReadyPc, SemTypeOK
<1>5. StillAsleep' = StillAsleep
    BY <1>1, <1>2, <1>4, SleepersAt, SameSleepers
<1> QED
    BY <1>1, <1>5 DEF Abstract!absVars

(* The steps outside of the semaphores. *)
LEMMA OutsideAtomic ==
    ASSUME SemInv, SemInv', NEW c \in Core,
           \/ CoreStep(c) /\ UNCHANGED semVars
           \/ SemLock(c) \/ SemBlocked(c) \/ SemRet(c) \/ SemOut(c)
    PROVE  UNCHANGED Abstract!absVars
<1>0. TypeOK /\ SemTypeOK
    BY DEF SemInv, SemTypeOK
<1>1. UNCHANGED <<sem_count, sem_tasks, usable>> /\ \A d \in Core \ {c} : call'[d] = call[d]
    BY <1>0 DEF SemLock, SemBlocked, SemRet, SemOut, semVars, SemTypeOK
<1>2. Others(c) /\ \A s : Alerting(c, s)' <=> Alerting(c, s)
    <2>1. CASE CoreStep(c) /\ UNCHANGED semVars
        BY <2>1, SchedulerStep
    <2>2. CASE SemLock(c) \/ SemBlocked(c) \/ SemRet(c) \/ SemOut(c)
        <3>1. PICK l \in {"sem_do", "next", "sem_out", "user"} :
                 /\ pc' = [pc EXCEPT ![c] = l] /\ SchedulerKept
                 /\ pc[c] \in {"sem_lock", "blocked", "sem_ret", "sem_out"}
            BY <2>2 DEF SemLock, SemBlocked, SemRet, SemOut
        <3>2. Others(c) /\ pc'[c] = l
            BY <1>0, <3>1, OthersOf
        <3> QED
            BY <3>1, <3>2 DEF Alerting, ReadyPc
    <2> QED
        BY <2>1, <2>2
<1>3. StillAsleep' = StillAsleep
    BY <1>1, <1>2, SleepersAt, SameSleepers
<1> QED
    BY <1>1, <1>3 DEF Abstract!absVars

LEMMA StepAtomic ==
    ASSUME SemInv, SemInv', [SemaphoreNext]_semaphoreVars
    PROVE  [Abstract!PulseNext]_Abstract!absVars
<1>1. CASE UNCHANGED semaphoreVars
    <2>1. UNCHANGED <<pc, link, sem_count, sem_tasks, usable, call>>
        BY <1>1 DEF semaphoreVars, semVars, dispatchVars, coreVars
    <2>2. StillAsleep' = StillAsleep
        BY <2>1 DEF StillAsleep, SleepsOn, Alerting
    <2> QED
        BY <2>1, <2>2 DEF Abstract!absVars
<1>2. ASSUME NEW c \in Core, SemaphoreStep(c)
      PROVE  Abstract!PulseNext \/ UNCHANGED Abstract!absVars
    <2>1. CASE \/ CoreStep(c) /\ UNCHANGED semVars
               \/ SemLock(c) \/ SemBlocked(c) \/ SemRet(c) \/ SemOut(c)
        BY <2>1, OutsideAtomic
    <2>2. ASSUME NEW s \in Sem, SemCalls(c, s)
          PROVE  Abstract!PulseNext \/ UNCHANGED Abstract!absVars
        BY <2>2, EnterAtomic DEF Abstract!PulseNext, Abstract!Calls
    <2>3. ASSUME NEW s \in Sem,
                 \/ SemTake(c, s) \/ SemTryFails(c, s) \/ SemWaitSleep(c, s)
                 \/ SemPostCount(c, s) \/ SemAlertBegin(c, s)
                 \/ SemPostEnd(c, s) \/ SemDestroyEnd(c, s) \/ SemGetValue(c, s)
          PROVE  Abstract!PulseNext \/ UNCHANGED Abstract!absVars
        BY <2>3, InsideAtomic DEF Abstract!PulseNext, Abstract!Calls
    <2>4. ASSUME NEW s \in Sem, SemAlert(c, s)
          PROVE  UNCHANGED Abstract!absVars
        BY <2>4, AlertAtomic
    <2> QED
        BY <1>2, <2>1, <2>2, <2>3, <2>4 DEF SemaphoreStep, SemKernel
<1> QED
    BY <1>1, <1>2 DEF SemaphoreNext

LEMMA InitAtomic == SemaphoreInit => Abstract!AbsInit
<1> SUFFICES ASSUME SemaphoreInit PROVE Abstract!AbsInit
    OBVIOUS
<1>1. \A s \in Sem : 1 .. Len(sem_tasks[s]) = {}
    BY DEF SemaphoreInit
<1>2. StillAsleep = [s \in Sem |-> {}]
    BY <1>1 DEF StillAsleep, SleepsOn
<1> QED
    BY <1>2 DEF SemaphoreInit, Abstract!AbsInit

(* The calls are atomic: a wait takes a token or falls asleep in one step, *)
(* a post adds a token or releases all the sleepers in one step, whatever  *)
(* the cores do between the steps of a call. *)
THEOREM CallsAreAtomic == SemaphoreSpec => Atomic
<1>1. SemaphoreInit => Abstract!AbsInit
    BY InitAtomic
<1>2. SemInv /\ SemInv' /\ [SemaphoreNext]_semaphoreVars
        => [Abstract!PulseNext]_Abstract!absVars
    BY StepAtomic
<1> QED
    BY <1>1, <1>2, SemaphoreAlways, PTL DEF SemaphoreSpec, Atomic, Abstract!PulseSpec


=============================================================================
