---------------------------- MODULE ThreadsProofs ----------------------------
(***************************************************************************)
(* Proofs about Threads, for every number of cores and every finite set of *)
(* threads.                                                                *)
(***************************************************************************)
EXTENDS Threads, DispatchProofs, FiniteSetTheorems

ExitPc == {"exit_count", "exit_lock", "exit_alert", "exit_unlink"}

(* Core c is inside proc_exit, also while it readies a waiter. *)
InExit(c) == pc[c] \in ExitPc \/ (pc[c] \in ReadyPc /\ link[c] = "exit_alert")

(* The sections of the wait queues, core by core. *)
Sections == [c \in Core |-> {q \in Process : InWaitSection(c, q)}]

JoinInv == \A c \in Core : pc[c] \in {"join_lock", "join_sleep"} => joined[c] \in Process

(* Sleepers live, are nowhere else, and are at one position of one queue.  *)
SleepInv ==
    /\ \A p \in Process : In(waiting, p) => state[p] = "RUNNABLE" /\ ~Somewhere(p)
    /\ Apart(waiting)

(* Who has terminated is left with the core that runs its proc_exit. *)
ZombieInv ==
    /\ \A c \in Core : InExit(c) => state[running_list[c]] = "ZOMBIE"
    /\ \A p \in Process : state[p] = "ZOMBIE" =>
          /\ ~Queued(p)
          /\ \A c \in Core : p \in Holds(c) => InExit(c) /\ running_list[c] = p

LostInv == \A p \in Process : state[p] = "RUNNABLE" => Somewhere(p) \/ In(waiting, p)

Runnable == {p \in Process : state[p] = "RUNNABLE"}
Counting == {c \in Core : pc[c] = "exit_count"}

LockInv == Exclusive(Process, wait_lock, Sections)

ThreadInv ==
    /\ ThreadTypeOK /\ BaseInv /\ Placed /\ QueueMutex
    /\ JoinInv /\ LockInv /\ SleepInv /\ ZombieInv /\ LostInv /\ LiveExact

-----------------------------------------------------------------------------
LEMMA FinitelyMany ==
    /\ IsFiniteSet(Process) /\ IsFiniteSet(Core)
    /\ \A S \in SUBSET Process : IsFiniteSet(S)
    /\ \A S \in SUBSET Core : IsFiniteSet(S)
<1>1. IsFiniteSet(Core)
    BY CoresAssumption, FS_Interval DEF Core
<1>2. IsFiniteSet(IdleProcess) /\ IsFiniteSet(RootProcess)
    <2>1. [c \in Core |-> Idle(c)] \in Surjection(Core, IdleProcess)
        BY DEF Surjection, IdleProcess
    <2>2. [c \in Core |-> Root(c)] \in Surjection(Core, RootProcess)
        BY DEF Surjection, RootProcess
    <2> QED
        BY <1>1, <2>1, <2>2, FS_Surjection
<1>3. IsFiniteSet(Process)
    BY <1>2, ThreadsFinite, FS_Union DEF Process
<1> QED
    BY <1>1, <1>3, FS_Subset

(* A held process is alive, but for the one that exits on that core. *)
LEMMA HeldLives ==
    ASSUME ThreadInv, NEW c \in Core, NEW p \in Holds(c), ~InExit(c)
    PROVE  p \in Process /\ state[p] = "RUNNABLE" /\ ~In(waiting, p)
<1>1. p \in Process
    BY DEF Holds
<1>2. state[p] # "UNUSED" /\ state[p] # "ZOMBIE"
    BY <1>1 DEF ThreadInv, Placed, ExistInv, ZombieInv
<1>3. state[p] = "RUNNABLE"
    BY <1>1, <1>2 DEF ThreadInv, BaseInv, TypeOK
<1>4. ~In(waiting, p)
    BY <1>1 DEF ThreadInv, SleepInv, Somewhere
<1> QED
    BY <1>1, <1>3, <1>4

LEMMA InitThreads == ThreadInit => ThreadInv
<1> SUFFICES ASSUME ThreadInit PROVE ThreadInv
    OBVIOUS
<1>0. Init /\ BaseInv /\ Placed /\ QueueMutex
    BY InitPlace DEF ThreadInit, PlaceInv
<1>1. \A c \in Core : pc[c] = "boot"
    BY <1>0 DEF Init
<1>2. ThreadTypeOK
    <2>1. <<>> \in Seq(Process)
        OBVIOUS
    <2> QED
        BY <1>0, <2>1 DEF ThreadInit, ThreadTypeOK, BaseInv
<1>3. \A p : ~In(waiting, p)
    <2>1. \A q \in Process : 1 .. Len(waiting[q]) = {}
        BY DEF ThreadInit
    <2> QED
        BY <1>2, <2>1 DEF In, ThreadTypeOK
<1>4. SleepInv
    <2>1. \A q \in Process : 1 .. Len(waiting[q]) = {}
        BY DEF ThreadInit
    <2> QED
        BY <1>2, <1>3, <2>1 DEF SleepInv, Apart, ThreadTypeOK
<1>5. \A c \in Core : ~InExit(c) /\ \A q : ~InWaitSection(c, q)
    BY <1>1 DEF InExit, InWaitSection, ExitPc, ReadyPc
<1>6. JoinInv /\ LockInv
    BY <1>1, <1>5 DEF JoinInv, LockInv, Exclusive, Sections, ThreadInit
<1>7. ZombieInv /\ LostInv
    BY <1>0, <1>5 DEF ZombieInv, LostInv, Init
<1>8. LiveExact
    <2>1. Runnable = {} /\ Counting = {} /\ live_procs = 0
        BY <1>0, <1>1 DEF Runnable, Counting, Init
    <2>2. Cardinality(Runnable) = 0 /\ Cardinality(Counting) = 0
        BY <2>1, FS_EmptySet
    <2> QED
        BY <2>1, <2>2 DEF LiveExact, Runnable, Counting
<1> QED
    BY <1>0, <1>2, <1>4, <1>6, <1>7, <1>8 DEF ThreadInv

-----------------------------------------------------------------------------
(* The steps of the scheduler.  A core inside proc_exit only goes on with  *)
(* the ready() of a waiter.                                                *)
LEMMA SchedPath ==
    ASSUME BaseInv, NEW c \in Core, CoreStep(c), Others(c), UNCHANGED joined
    PROVE  /\ InExit(c)' <=> InExit(c)
           /\ InExit(c) => UNCHANGED <<running_list, state, live_procs>>
           /\ \A q : InWaitSection(c, q)' <=> InWaitSection(c, q)
           /\ pc'[c] \notin {"join_lock", "join_sleep", "exit_count"}
           /\ pc[c] # "exit_count"
<1>1. CASE pc[c] \in ReadyPc
    <2>1. link[c] \in ReturnPc
        BY <1>1 DEF BaseInv, LinkInv
    <2>2. /\ UNCHANGED <<running_list, state, live_procs>>
          /\ \/ pc'[c] \in ReadyPc /\ link'[c] = link[c]
             \/ pc'[c] = link[c]
        BY <1>1, StepPath
    <2>3. InExit(c)' <=> InExit(c)
        BY <1>1, <2>1, <2>2 DEF InExit, ExitPc, ReadyPc, ReturnPc
    <2>4. \A q : InWaitSection(c, q)' <=> InWaitSection(c, q)
        BY <1>1, <2>1, <2>2 DEF InWaitSection, ReadyPc, ReturnPc
    <2> QED
        BY <1>1, <2>1, <2>2, <2>3, <2>4 DEF ReadyPc, ReturnPc
<1>2. CASE pc[c] \notin ReadyPc
    <2>1. /\ pc[c] \notin (OwnPc \cup {"blocked"}) \ {"user"}
          /\ pc'[c] \notin (OwnPc \cup {"blocked"}) \ {"user"}
          /\ pc'[c] \in ReadyPc => link'[c] \in {"user", "next", "boot_root"}
        BY <1>2, StepPath
    <2>2. ~InExit(c) /\ ~InExit(c)'
        BY <1>2, <2>1 DEF InExit, ExitPc, OwnPc
    <2>3. \A q : ~InWaitSection(c, q) /\ ~InWaitSection(c, q)'
        BY <1>2, <2>1 DEF InWaitSection, OwnPc
    <2> QED
        BY <1>2, <2>1, <2>2, <2>3 DEF OwnPc
<1> QED
    BY <1>1, <1>2

(* Nobody else's section, and no other core's proc_exit, is touched. *)
LEMMA OthersWait ==
    ASSUME NEW c \in Core, Others(c), \A d \in Core \ {c} : joined'[d] = joined[d],
           NEW d \in Core \ {c}
    PROVE  /\ InExit(d)' <=> InExit(d)
           /\ Sections'[d] = Sections[d]
           /\ pc'[d] = pc[d] /\ joined'[d] = joined[d] /\ running_list'[d] = running_list[d]
<1>1. InExit(d)' <=> InExit(d)
    BY DEF Others, InExit
<1>2. \A q : InWaitSection(d, q)' <=> InWaitSection(d, q)
    BY DEF Others, InWaitSection
<1> QED
    BY <1>1, <1>2 DEF Sections, Others

(* The scheduler makes nobody RUNNABLE but who is created, and counts him. *)
LEMMA SchedCount ==
    ASSUME ThreadInv, NEW c \in Core, CoreStep(c), Others(c), UNCHANGED joined
    PROVE  \/ UNCHANGED <<state, live_procs>>
           \/ \E p \in Process : /\ state[p] = "UNUSED"
                                 /\ state' = [state EXCEPT ![p] = "RUNNABLE"]
                                 /\ live_procs' = live_procs + 1
<1>0. TypeOK /\ HolderInv /\ BaseInv
    BY DEF ThreadInv, BaseInv
<1>1. ASSUME NEW p \in Process, NEW m, NEW l, ProcCreate(c, p, m, l)
      PROVE  /\ state[p] = "UNUSED"
             /\ state' = [state EXCEPT ![p] = "RUNNABLE"]
             /\ live_procs' = live_procs + 1
    BY <1>1 DEF ProcCreate, CallReady
<1>2. CASE Boot(c)
    BY <1>1, <1>2, ProcessFacts DEF Boot, BootIdle, BootRoot
<1>3. ASSUME NEW t \in Thread, NEW m \in Masks, PthreadCreate(c, t, m)
      PROVE  \E p \in Process : /\ state[p] = "UNUSED"
                                /\ state' = [state EXCEPT ![p] = "RUNNABLE"]
                                /\ live_procs' = live_procs + 1
    BY <1>1, <1>3, ProcessFacts DEF PthreadCreate
<1>4. ASSUME CallReady(c, running_list[c], "next"), live_procs' = live_procs,
             pc[c] \in {"user", "busiest", "pull_scan"}
      PROVE  UNCHANGED <<state, live_procs>>
    <2>1. Owns(c) /\ ~Carries(c) /\ ~InExit(c)
        BY <1>4 DEF Owns, Carries, InExit, ExitPc, ReadyPc, NextPc
    <2>2. running_list[c] \in Holds(c)
        BY <1>0, <2>1 DEF Holds, HolderInv
    <2>3. state[running_list[c]] = "RUNNABLE"
        BY <2>1, <2>2, HeldLives
    <2> QED
        BY <1>0, <1>4, <2>3 DEF CallReady, TypeOK
<1>5. CASE TimeSlice(c) \/ Yield(c) \/ \E m \in Masks \ {{}} : SetAffinity(c, m)
    <2>1. live_procs' = live_procs /\ pc[c] = "user"
        BY <1>5 DEF TimeSlice, Yield, SetAffinity
    <2>2. CallReady(c, running_list[c], "next") \/ state' = state
        BY <1>5 DEF TimeSlice, Yield, SetAffinity
    <2> QED
        BY <1>4, <2>1, <2>2
<1>6. CASE Pull(c) \/ PullLock(c)
    BY <1>4, <1>6 DEF Pull, PullSkip, PullScan, PullBusiest, PullLock, procVars
<1>7. CASE Ready(c) \/ ReadyLock(c) \/ NextProc(c) \/ NextLock(c)
    BY <1>7 DEF Ready, PickInactive, PickDecide, ReadyLock, ReadyLength, ReadyAdd,
                NextProc, NextTake, NextMiss, NextRun, NextLock, procVars
<1> QED
    BY <1>2, <1>3, <1>5, <1>6, <1>7 DEF CoreStep, Kernel, Acquire, SysCall

(* One process more that is RUNNABLE, or the same ones. *)
LEMMA CountStep ==
    ASSUME TypeOK, LiveExact, {c \in Core : pc'[c] = "exit_count"} = Counting,
           \/ UNCHANGED <<state, live_procs>>
           \/ \E p \in Process : /\ state[p] = "UNUSED"
                                 /\ state' = [state EXCEPT ![p] = "RUNNABLE"]
                                 /\ live_procs' = live_procs + 1
    PROVE  LiveExact'
<1>1. /\ live_procs = Cardinality(Runnable) + Cardinality(Counting)
      /\ Counting' = Counting
    BY DEF LiveExact, Runnable, Counting
<1>2. CASE UNCHANGED <<state, live_procs>>
    <2>1. Runnable' = Runnable
        BY <1>2 DEF Runnable
    <2> QED
        BY <1>1, <1>2, <2>1 DEF LiveExact, Runnable, Counting
<1>3. ASSUME NEW p \in Process, state[p] = "UNUSED",
             state' = [state EXCEPT ![p] = "RUNNABLE"], live_procs' = live_procs + 1
      PROVE  LiveExact'
    <2>1. Runnable' = Runnable \cup {p} /\ p \notin Runnable
        BY <1>3 DEF Runnable, TypeOK
    <2>2. IsFiniteSet(Runnable) /\ IsFiniteSet(Counting)
        BY FinitelyMany DEF Runnable, Counting
    <2>3. Cardinality(Runnable') = Cardinality(Runnable) + 1
        BY <2>1, <2>2, FS_AddElement
    <2>4. Cardinality(Runnable) \in Nat /\ Cardinality(Counting) \in Nat
        BY <2>2, FS_CardinalityType
    <2>5. live_procs' = Cardinality(Runnable') + Cardinality(Counting')
        BY <1>1, <1>3, <2>3, <2>4
    <2> QED
        BY <2>5 DEF LiveExact, Runnable, Counting
<1> QED
    BY <1>2, <1>3

LEMMA SchedStep ==
    ASSUME ThreadInv, NEW c \in Core, CoreStep(c), UNCHANGED waitVars, table' \subseteq Process
    PROVE  ThreadInv'
<1>0. BaseInv /\ Placed /\ QueueMutex /\ TypeOK
    BY DEF ThreadInv, BaseInv
<1>1. BaseInv' /\ Placed' /\ Others(c) /\ Flow(c)
    BY <1>0, StepPlaced
<1>2. QueueMutex'
    BY <1>0, <1>1, StepMutex
<1>3. UNCHANGED <<waiting, wait_lock, joined>>
    BY DEF waitVars
<1>4. ThreadTypeOK'
    BY <1>1, <1>3 DEF ThreadInv, ThreadTypeOK, BaseInv
<1>5. /\ InExit(c)' <=> InExit(c)
      /\ InExit(c) => UNCHANGED <<running_list, state, live_procs>>
      /\ \A q : InWaitSection(c, q)' <=> InWaitSection(c, q)
      /\ pc'[c] \notin {"join_lock", "join_sleep", "exit_count"}
      /\ pc[c] # "exit_count"
    BY <1>0, <1>1, <1>3, SchedPath
<1>6. \A d \in Core \ {c} :
         /\ InExit(d)' <=> InExit(d)
         /\ Sections'[d] = Sections[d]
         /\ pc'[d] = pc[d] /\ joined'[d] = joined[d] /\ running_list'[d] = running_list[d]
    BY <1>1, <1>3, OthersWait
<1>7. JoinInv'
    BY <1>3, <1>5, <1>6 DEF ThreadInv, JoinInv
<1>8. LockInv'
    <2>1. Sections'[c] = Sections[c]
        BY <1>5 DEF Sections
    <2>2. wait_lock \in [Process -> BOOLEAN] /\ Exclusive(Process, wait_lock, Sections)
        BY DEF ThreadInv, ThreadTypeOK, LockInv
    <2>3. Exclusive(Process, wait_lock', Sections')
        BY <1>3, <1>6, <2>1, <2>2, ExclusiveStep
    <2> QED
        BY <2>3 DEF LockInv, Exclusive
<1>9. \A p : In(waiting, p)' <=> In(waiting, p)
    BY <1>3 DEF In
<1>10. SleepInv'
    <2>1. Apart(waiting)'
        BY <1>3 DEF ThreadInv, SleepInv, Apart
    <2>2. \A p \in Process : In(waiting, p) => state[p] = "RUNNABLE" /\ ~Somewhere(p)
        BY DEF ThreadInv, SleepInv
    <2> QED
        BY <1>1, <1>9, <2>1, <2>2 DEF SleepInv, Flow
<1>11. LostInv'
    BY <1>1, <1>9 DEF ThreadInv, LostInv, Flow
<1>12. ZombieInv'
    <2>1. ASSUME NEW d \in Core, InExit(d)' PROVE state'[running_list'[d]] = "ZOMBIE"
        <3>1. CASE d = c
            BY <1>5, <2>1, <3>1 DEF ThreadInv, ZombieInv
        <3>2. CASE d # c
            <4>1. InExit(d) /\ running_list'[d] = running_list[d]
                BY <1>6, <2>1, <3>2
            <4>2. state[running_list[d]] = "ZOMBIE"
                BY <4>1 DEF ThreadInv, ZombieInv
            <4>3. Owns(d)
                BY <4>1 DEF InExit, Owns, ExitPc, ReadyPc, NextPc, LetsGo
            <4>4. running_list[d] \in Process /\ running_list[d] \in Holds(d)
                BY <1>0, <4>3 DEF BaseInv, HolderInv, Holds
            <4>5. running_list[d] \notin Holds(c)
                BY <1>0, <3>2, <4>4 DEF Placed, OnePlace
            <4> QED
                BY <1>1, <4>1, <4>2, <4>4, <4>5 DEF Flow
        <3> QED
            BY <3>1, <3>2
    <2>2. ASSUME NEW p \in Process, state'[p] = "ZOMBIE"
          PROVE  state[p] = "ZOMBIE"
        BY <1>1, <2>2 DEF Flow
    <2>3. ASSUME NEW p \in Process, state[p] = "ZOMBIE"
          PROVE  ~Queued(p)'
        <3>1. ~Queued(p) /\ \A d \in Core : p \in Holds(d) => InExit(d) /\ running_list[d] = p
            BY <2>3 DEF ThreadInv, ZombieInv
        <3>2. ASSUME Carries(c), p = proc[c] PROVE FALSE
            <4>1. p \in Holds(c)
                BY <3>2 DEF Holds
            <4>2. InExit(c) /\ running_list[c] = p
                BY <3>1, <4>1
            <4>3. Owns(c)
                BY <4>2 DEF InExit, Owns, ExitPc, ReadyPc, NextPc, LetsGo
            <4> QED
                BY <1>0, <3>2, <4>2, <4>3 DEF Placed, OnePlace
        <3> QED
            BY <1>1, <3>1, <3>2 DEF Flow
    <2>4. ASSUME NEW p \in Process, state[p] = "ZOMBIE", NEW d \in Core, p \in Holds(d)'
          PROVE  InExit(d)' /\ running_list'[d] = p
        <3>1. ~Queued(p) /\ \A e \in Core : p \in Holds(e) => InExit(e) /\ running_list[e] = p
            BY <2>4 DEF ThreadInv, ZombieInv
        <3>2. CASE d = c
            <4>1. p \in Holds(c)
                BY <1>1, <2>4, <3>1, <3>2 DEF Flow
            <4> QED
                BY <1>5, <3>1, <3>2, <4>1
        <3>3. CASE d # c
            <4>1. Holds(d)' = Holds(d)
                BY <1>1, <3>3, OthersKeep
            <4> QED
                BY <1>6, <2>4, <3>1, <3>3, <4>1
        <3> QED
            BY <3>2, <3>3
    <2> QED
        BY <2>1, <2>2, <2>3, <2>4 DEF ZombieInv
<1>13. LiveExact'
    <2>1. {d \in Core : pc'[d] = "exit_count"} = Counting
        BY <1>5, <1>6 DEF Counting
    <2>2. \/ UNCHANGED <<state, live_procs>>
          \/ \E p \in Process : /\ state[p] = "UNUSED"
                                /\ state' = [state EXCEPT ![p] = "RUNNABLE"]
                                /\ live_procs' = live_procs + 1
        BY <1>1, <1>3, SchedCount
    <2> QED
        BY <1>0, <2>1, <2>2, CountStep DEF ThreadInv
<1> QED
    BY <1>1, <1>2, <1>4, <1>7, <1>8, <1>10, <1>11, <1>12, <1>13 DEF ThreadInv


-----------------------------------------------------------------------------
(* The steps of join and exit.  What they share: they move no ready queue, *)
(* and change the state of nobody but of the process c has.                *)
LEMMA FrameStep ==
    ASSUME ThreadInv, NEW c \in Core, Others(c), \A d \in Core \ {c} : joined'[d] = joined[d],
           \A p : Queued(p)' <=> Queued(p),
           \A d \in Core \ {c} : Holds(d)' = Holds(d),
           pc'[c] \in {"join_lock", "join_sleep"} => joined'[c] \in Process,
           \/ wait_lock' = wait_lock /\ Sections'[c] = Sections[c]
           \/ \E q \in Process : /\ ~wait_lock[q] /\ wait_lock' = [wait_lock EXCEPT ![q] = TRUE]
                                 /\ Sections[c] = {} /\ Sections'[c] = {q}
           \/ \E q \in Process : /\ wait_lock' = [wait_lock EXCEPT ![q] = FALSE]
                                 /\ Sections[c] = {q} /\ Sections'[c] = {},
           \A p \in Process : p \notin Holds(c) => state'[p] = state[p],
           InExit(c)' => state'[running_list'[c]] = "ZOMBIE",
           \A p \in Holds(c)' : state'[p] = "ZOMBIE" => InExit(c)' /\ running_list'[c] = p
    PROVE  JoinInv' /\ LockInv' /\ ZombieInv'
<1>0. BaseInv /\ Placed
    BY DEF ThreadInv
<1>1. \A d \in Core \ {c} :
         /\ InExit(d)' <=> InExit(d)
         /\ Sections'[d] = Sections[d]
         /\ pc'[d] = pc[d] /\ joined'[d] = joined[d] /\ running_list'[d] = running_list[d]
    BY OthersWait
<1>2. JoinInv'
    BY <1>1 DEF ThreadInv, JoinInv
<1>3. LockInv'
    <2>1. wait_lock \in [Process -> BOOLEAN] /\ Exclusive(Process, wait_lock, Sections)
        BY DEF ThreadInv, ThreadTypeOK, LockInv
    <2>2. Exclusive(Process, wait_lock', Sections')
        BY <1>1, <2>1, ExclusiveStep
    <2> QED
        BY <2>2 DEF LockInv, Exclusive
<1>4. ASSUME NEW d \in Core \ {c}, InExit(d)' PROVE state'[running_list'[d]] = "ZOMBIE"
    <2>1. InExit(d) /\ running_list'[d] = running_list[d]
        BY <1>1, <1>4
    <2>2. state[running_list[d]] = "ZOMBIE"
        BY <2>1 DEF ThreadInv, ZombieInv
    <2>3. Owns(d)
        BY <2>1 DEF InExit, Owns, ExitPc, ReadyPc, NextPc, LetsGo
    <2>4. running_list[d] \in Process /\ running_list[d] \in Holds(d)
        BY <1>0, <2>3 DEF BaseInv, HolderInv, Holds
    <2>5. running_list[d] \notin Holds(c)
        BY <1>0, <2>4 DEF Placed, OnePlace
    <2> QED
        BY <2>1, <2>2, <2>4, <2>5
<1>5. ASSUME NEW p \in Process, state'[p] = "ZOMBIE", p \in Holds(c) \/ state[p] = "ZOMBIE"
      PROVE  /\ ~Queued(p)'
             /\ \A d \in Core \ {c} : p \in Holds(d)' => InExit(d)' /\ running_list'[d] = p
    <2>1. CASE p \in Holds(c)
        BY <1>0, <2>1 DEF Placed, OnePlace
    <2>2. CASE p \notin Holds(c)
        <3>1. ~Queued(p) /\ \A d \in Core : p \in Holds(d) => InExit(d) /\ running_list[d] = p
            BY <1>5, <2>2 DEF ThreadInv, ZombieInv
        <3> QED
            BY <1>1, <3>1
    <2> QED
        BY <2>1, <2>2
<1>6. ZombieInv'
    <2>1. \A p \in Process : state'[p] = "ZOMBIE" => p \in Holds(c) \/ state[p] = "ZOMBIE"
        OBVIOUS
    <2> QED
        BY <1>4, <1>5, <2>1 DEF ZombieInv
<1> QED
    BY <1>2, <1>3, <1>6

(* Nobody falls asleep or is woken up. *)
LEMMA AsleepSame ==
    ASSUME ThreadInv, waiting' = waiting,
           \A p \in Process : Somewhere(p)' => Somewhere(p),
           \A p \in Process : state[p] # state'[p] => Somewhere(p) /\ state'[p] # "RUNNABLE",
           \A p \in Process : state'[p] = "RUNNABLE" /\ Somewhere(p) => Somewhere(p)'
    PROVE  SleepInv' /\ LostInv'
<1>1. \A p : In(waiting, p)' <=> In(waiting, p)
    BY DEF In
<1>2. Apart(waiting)'
    BY DEF ThreadInv, SleepInv, Apart
<1>3. SleepInv'
    BY <1>1, <1>2 DEF ThreadInv, SleepInv
<1>4. LostInv'
    BY <1>1 DEF ThreadInv, LostInv
<1> QED
    BY <1>3, <1>4

LEMMA JoinSteps ==
    ASSUME ThreadInv, NEW c \in Core,
           JoinLock(c) \/ \E p \in Thread : JoinLookup(c, p)
    PROVE  ThreadInv'
<1>0. BaseInv /\ Placed /\ QueueMutex /\ TypeOK
    BY DEF ThreadInv, BaseInv
<1>1. PICK l \in {"join_lock", "join_sleep"} :
         /\ pc' = [pc EXCEPT ![c] = l] /\ pc[c] \in OwnPc
         /\ ~InExit(c) /\ pc[c] # "exit_count" /\ Sections[c] = {}
    <2>1. "user" \notin ReadyPc /\ "join_lock" \notin ReadyPc
        BY DEF ReadyPc
    <2> QED
        BY <2>1 DEF JoinLock, JoinLookup, OwnPc, InExit, ExitPc, Sections, InWaitSection
<1>2. /\ UNCHANGED <<queueVars, procVars, ticks, running_list, proc, link, scanVars, target,
                     level>>
      /\ UNCHANGED <<waiting, table>>
    BY DEF JoinLock, JoinLookup
<1>3. UNCHANGED <<state, live_procs, affinityset>>
    BY <1>2 DEF procVars
<1>4. TypeOK'
    <2>1. state' \in [Process -> {"UNUSED", "RUNNABLE", "ZOMBIE"}] /\ live_procs' \in Nat
        BY <1>0, <1>3 DEF TypeOK
    <2>2. l \in OwnPc
        BY DEF OwnPc
    <2> QED
        BY <1>0, <1>1, <1>2, <1>3, <2>1, <2>2, PlainType
<1>5. /\ BaseInv' /\ Placed' /\ QueueMutex' /\ Others(c)
      /\ \A p : Queued(p)' <=> Queued(p)
      /\ \A d \in Core \ {c} : Holds(d)' = Holds(d)
      /\ Holds(c)' = Holds(c)
    <2>1. l \in OwnPc
        BY DEF OwnPc
    <2> QED
        BY <1>0, <1>1, <1>2, <1>3, <1>4, <2>1, PlainStep
<1>6. pc'[c] = l /\ \A d \in Core \ {c} : pc'[d] = pc[d]
    BY <1>0, <1>1 DEF TypeOK
<1>7. /\ joined' \in [Core -> Process \cup {NoProcess}] /\ joined'[c] \in Process
      /\ \A d \in Core \ {c} : joined'[d] = joined[d]
    <2>1. CASE JoinLock(c)
        BY <2>1 DEF JoinLock, ThreadInv, ThreadTypeOK, JoinInv
    <2>2. CASE \E p \in Thread : JoinLookup(c, p)
        BY <2>2, ProcessFacts DEF JoinLookup, ThreadInv, ThreadTypeOK
    <2> QED
        BY <2>1, <2>2
<1>8. /\ wait_lock' \in [Process -> BOOLEAN]
      /\ \/ wait_lock' = wait_lock /\ Sections'[c] = {}
         \/ \E q \in Process : /\ ~wait_lock[q] /\ wait_lock' = [wait_lock EXCEPT ![q] = TRUE]
                               /\ Sections'[c] = {q}
    <2>1. CASE JoinLock(c)
        <3>1. pc'[c] = "join_sleep" /\ joined'[c] = joined[c]
            BY <1>0, <2>1 DEF JoinLock, TypeOK
        <3>2. Sections'[c] = {joined[c]}
            BY <1>7, <3>1 DEF Sections, InWaitSection, ReadyPc
        <3> QED
            BY <1>7, <2>1, <3>1, <3>2 DEF JoinLock, ThreadInv, ThreadTypeOK
    <2>2. CASE \E p \in Thread : JoinLookup(c, p)
        <3>1. pc'[c] = "join_lock" /\ wait_lock' = wait_lock
            BY <1>0, <2>2 DEF JoinLookup, TypeOK
        <3> QED
            BY <3>1 DEF Sections, InWaitSection, ReadyPc, ThreadInv, ThreadTypeOK
    <2> QED
        BY <2>1, <2>2
<1>9. ~InExit(c)'
    BY <1>6 DEF InExit, ExitPc, ReadyPc
<1>10. \A p \in Holds(c) : state[p] # "ZOMBIE"
    BY <1>1 DEF Holds, ThreadInv, ZombieInv
<1>11. JoinInv' /\ LockInv' /\ ZombieInv'
    BY <1>1, <1>3, <1>5, <1>7, <1>8, <1>9, <1>10, FrameStep
<1>12. \A p : Somewhere(p)' <=> Somewhere(p)
    BY <1>5 DEF Somewhere
<1>13. SleepInv' /\ LostInv'
    BY <1>2, <1>3, <1>12, AsleepSame
<1>14. LiveExact'
    <2>1. {d \in Core : pc'[d] = "exit_count"} = Counting
        BY <1>1, <1>6 DEF Counting
    <2> QED
        BY <1>0, <1>3, <2>1, CountStep DEF ThreadInv
<1>15. ThreadTypeOK'
    BY <1>2, <1>4, <1>7, <1>8 DEF ThreadInv, ThreadTypeOK
<1> QED
    BY <1>5, <1>11, <1>13, <1>14, <1>15 DEF ThreadInv


LEMMA JoinSleepStep ==
    ASSUME ThreadInv, NEW c \in Core, JoinSleep(c) PROVE ThreadInv'
<1>r. PICK r : r = running_list[c]
    OBVIOUS
<1>0. BaseInv /\ Placed /\ QueueMutex /\ TypeOK
    BY DEF ThreadInv, BaseInv
<1>1. pc[c] = "join_sleep" /\ pc' = [pc EXCEPT ![c] = "next"]
    BY DEF JoinSleep
<1>2. /\ UNCHANGED <<queueVars, procVars, ticks, running_list, proc, link, scanVars, target,
                     level>>
      /\ table' = table
    BY DEF JoinSleep
<1>3. UNCHANGED <<state, live_procs, affinityset>>
    BY <1>2 DEF procVars
<1>4. TypeOK'
    <2>1. state' \in [Process -> {"UNUSED", "RUNNABLE", "ZOMBIE"}] /\ live_procs' \in Nat
        BY <1>0, <1>3 DEF TypeOK
    <2> QED
        BY <1>0, <1>1, <1>2, <1>3, <2>1, PlainType
<1>5. /\ BaseInv' /\ Placed' /\ QueueMutex' /\ Others(c)
      /\ \A p : Queued(p)' <=> Queued(p)
      /\ \A d \in Core \ {c} : Holds(d)' = Holds(d)
      /\ Holds(c)' = {} /\ r \in Process /\ Holds(c) = {r}
    <2>1. pc[c] \in OwnPc /\ "next" \notin OwnPc
        BY <1>1 DEF OwnPc
    <2> QED
        BY <1>r, <1>0, <1>1, <1>2, <1>3, <1>4, <2>1, PlainStep
<1>6. pc'[c] = "next" /\ \A d \in Core \ {c} : pc'[d] = pc[d]
    BY <1>0, <1>1 DEF TypeOK
<1>7. joined[c] \in Process
    BY <1>1 DEF ThreadInv, JoinInv
<1>8. /\ joined' \in [Core -> Process \cup {NoProcess}]
      /\ \A d \in Core \ {c} : joined'[d] = joined[d]
    BY DEF JoinSleep, ThreadInv, ThreadTypeOK
<1>9. /\ wait_lock' = [wait_lock EXCEPT ![joined[c]] = FALSE]
      /\ wait_lock' \in [Process -> BOOLEAN]
    BY <1>7 DEF JoinSleep, ThreadInv, ThreadTypeOK
<1>10. Sections[c] = {joined[c]} /\ Sections'[c] = {}
    BY <1>1, <1>6, <1>7 DEF Sections, InWaitSection, ReadyPc
<1>11. ~InExit(c) /\ ~InExit(c)'
    BY <1>1, <1>6 DEF InExit, ExitPc, ReadyPc
<1>12. JoinInv' /\ LockInv' /\ ZombieInv'
    BY <1>3, <1>5, <1>6, <1>7, <1>8, <1>9, <1>10, <1>11, FrameStep
<1>13. state[r] = "RUNNABLE" /\ ~In(waiting, r)
    BY <1>5, <1>11, HeldLives
<1>14. /\ waiting' \in [Process -> Seq(Process)]
       /\ \A x : In(waiting', x) <=> In(waiting, x) \/ x = r
       /\ Apart(waiting')
    <2>1. waiting \in [Process -> Seq(Process)] /\ Apart(waiting)
        BY DEF ThreadInv, ThreadTypeOK, SleepInv
    <2>2. waiting' = [waiting EXCEPT ![joined[c]] = Append(@, r)]
        BY <1>r DEF JoinSleep
    <2>3. PICK q \in Process : q = joined[c]
        BY <1>7
    <2>4. waiting' \in [Process -> Seq(Process)]
        <3>1. Append(waiting[q], r) \in Seq(Process)
            BY <1>5, <2>1
        <3> QED
            BY <2>1, <2>2, <2>3, <3>1
    <2>5. waiting'[q] = Append(waiting[q], r) /\ OneChanged(Process, waiting, waiting', q)
        BY <2>1, <2>2, <2>3, <2>4 DEF OneChanged
    <2>6. r \in Process /\ ~In(waiting, r) /\ Apart(waiting)
        BY <1>5, <1>13, <2>1
    <2>7. (\A x : In(waiting', x) <=> In(waiting, x) \/ x = r) /\ Apart(waiting')
        BY <2>5, <2>6, InAppended
    <2> QED
        BY <2>4, <2>7
<1>15. ~Somewhere(r)' /\ \A p : p # r => (Somewhere(p)' <=> Somewhere(p))
    BY <1>0, <1>5 DEF Somewhere, Placed, OnePlace
<1>16. SleepInv'
    BY <1>3, <1>13, <1>14, <1>15 DEF ThreadInv, SleepInv, In, Apart
<1>17. LostInv'
    BY <1>3, <1>14, <1>15 DEF ThreadInv, LostInv, In
<1>18. LiveExact'
    <2>1. {d \in Core : pc'[d] = "exit_count"} = Counting
        BY <1>1, <1>6 DEF Counting
    <2> QED
        BY <1>0, <1>3, <2>1, CountStep DEF ThreadInv
<1>19. ThreadTypeOK'
    BY <1>2, <1>4, <1>8, <1>9, <1>14 DEF ThreadInv, ThreadTypeOK
<1> QED
    BY <1>5, <1>12, <1>16, <1>17, <1>18, <1>19 DEF ThreadInv

(* pthread_exit marks its process first. *)
LEMMA ExitMarkStep ==
    ASSUME ThreadInv, NEW c \in Core, ExitMark(c) PROVE ThreadInv'
<1>r. PICK r : r = running_list[c]
    OBVIOUS
<1>0. BaseInv /\ Placed /\ QueueMutex /\ TypeOK
    BY DEF ThreadInv, BaseInv
<1>1. pc[c] = "user" /\ pc' = [pc EXCEPT ![c] = "exit_count"]
    BY DEF ExitMark
<1>2. /\ UNCHANGED <<queueVars, affinityset, live_procs, ticks, running_list, proc, link,
                     scanVars, target, level>>
      /\ UNCHANGED <<waiting, wait_lock, joined, table>>
    BY DEF ExitMark, threadVars, waitVars
<1>3. state' = [state EXCEPT ![r] = "ZOMBIE"] /\ r \in Process
    BY <1>r, ProcessFacts DEF ExitMark
<1>4. TypeOK'
    <2>1. state' \in [Process -> {"UNUSED", "RUNNABLE", "ZOMBIE"}] /\ live_procs' \in Nat
        BY <1>0, <1>2, <1>3 DEF TypeOK
    <2>2. "exit_count" \in OwnPc
        BY DEF OwnPc
    <2> QED
        BY <1>0, <1>1, <1>2, <2>1, <2>2, PlainType
<1>5. /\ BaseInv' /\ Placed' /\ QueueMutex' /\ Others(c)
      /\ \A p : Queued(p)' <=> Queued(p)
      /\ \A d \in Core \ {c} : Holds(d)' = Holds(d)
      /\ Holds(c)' = {r} /\ Holds(c) = {r}
    <2>1. pc[c] \in OwnPc /\ "exit_count" \in OwnPc
        BY <1>1 DEF OwnPc
    <2>2. \A p \in Process : state[p] # "UNUSED" => state'[p] # "UNUSED"
        BY <1>0, <1>3 DEF TypeOK
    <2> QED
        BY <1>r, <1>0, <1>1, <1>2, <1>4, <2>1, <2>2, PlainStep
<1>6. pc'[c] = "exit_count" /\ \A d \in Core \ {c} : pc'[d] = pc[d]
    BY <1>0, <1>1 DEF TypeOK
<1>7. Sections[c] = {} /\ Sections'[c] = {}
    BY <1>1, <1>6 DEF Sections, InWaitSection, ReadyPc
<1>8. ~InExit(c) /\ InExit(c)'
    BY <1>1, <1>6 DEF InExit, ExitPc, ReadyPc
<1>9. state'[r] = "ZOMBIE" /\ \A p \in Process : p # r => state'[p] = state[p]
    BY <1>0, <1>3 DEF TypeOK
<1>10. JoinInv' /\ LockInv' /\ ZombieInv'
    BY <1>r, <1>2, <1>5, <1>6, <1>7, <1>8, <1>9, FrameStep
<1>11. \A p : Somewhere(p)' <=> Somewhere(p)
    BY <1>5 DEF Somewhere
<1>12. SleepInv' /\ LostInv'
    <2>1. Somewhere(r)
        BY <1>5 DEF Somewhere
    <2> QED
        BY <1>2, <1>9, <1>11, <2>1, AsleepSame
<1>13. LiveExact'
    <2>1. state[r] = "RUNNABLE"
        BY <1>5, <1>8, HeldLives
    <2>2. Runnable' = Runnable \ {r} /\ r \in Runnable
        BY <1>3, <1>9, <2>1 DEF Runnable
    <2>3. Counting' = Counting \cup {c} /\ c \notin Counting
        BY <1>1, <1>6 DEF Counting
    <2>4. IsFiniteSet(Runnable) /\ IsFiniteSet(Counting)
        BY FinitelyMany DEF Runnable, Counting
    <2>5. /\ Cardinality(Runnable') = Cardinality(Runnable) - 1
          /\ Cardinality(Counting') = Cardinality(Counting) + 1
        BY <2>2, <2>3, <2>4, FS_RemoveElement, FS_AddElement
    <2>6. Cardinality(Runnable) \in Nat /\ Cardinality(Counting) \in Nat
        BY <2>4, FS_CardinalityType
    <2>7. live_procs = Cardinality(Runnable) + Cardinality(Counting)
        BY DEF ThreadInv, LiveExact, Runnable, Counting
    <2>8. live_procs' = Cardinality(Runnable') + Cardinality(Counting')
        BY <1>2, <2>5, <2>6, <2>7
    <2> QED
        BY <2>8 DEF LiveExact, Runnable, Counting
<1>14. ThreadTypeOK'
    BY <1>2, <1>4 DEF ThreadInv, ThreadTypeOK
<1> QED
    BY <1>5, <1>10, <1>12, <1>13, <1>14 DEF ThreadInv


(* A core inside proc_exit has the process that exits, and no other. *)
LEMMA Exiting ==
    ASSUME ThreadInv, NEW c \in Core, pc[c] \in ExitPc
    PROVE  /\ running_list[c] \in Process /\ Holds(c) = {running_list[c]}
           /\ state[running_list[c]] = "ZOMBIE" /\ InExit(c) /\ pc[c] \in OwnPc
<1>1. InExit(c) /\ pc[c] \in OwnPc /\ Owns(c) /\ ~Carries(c)
    BY DEF InExit, ExitPc, OwnPc, Owns, Carries, ReadyPc, NextPc
<1>2. running_list[c] \in Process
    BY <1>1 DEF ThreadInv, BaseInv, HolderInv
<1>3. Holds(c) = {running_list[c]}
    BY <1>1, <1>2 DEF Holds
<1> QED
    BY <1>1, <1>2, <1>3 DEF ThreadInv, ZombieInv

(* The step that counts the process out. *)
LEMMA CountOut ==
    ASSUME ThreadInv, NEW c \in Core, pc[c] = "exit_count"
    PROVE  /\ live_procs - 1 \in Nat
           /\ live_procs - 1 = Cardinality(Runnable) + Cardinality(Counting \ {c})
<1>1. live_procs = Cardinality(Runnable) + Cardinality(Counting)
    BY DEF ThreadInv, LiveExact, Runnable, Counting
<1>2. c \in Counting
    BY DEF Counting
<1>3. IsFiniteSet(Runnable) /\ IsFiniteSet(Counting) /\ IsFiniteSet(Counting \ {c})
    BY FinitelyMany DEF Runnable, Counting
<1>4. /\ Cardinality(Runnable) \in Nat /\ Cardinality(Counting) \in Nat
      /\ Cardinality(Counting \ {c}) \in Nat
    BY <1>3, FS_CardinalityType
<1>5. Cardinality(Counting \ {c}) = Cardinality(Counting) - 1
    BY <1>2, <1>3, FS_RemoveElement
<1> QED
    BY <1>1, <1>4, <1>5

LEMMA ExitSteps ==
    ASSUME ThreadInv, NEW c \in Core, ExitCount(c) \/ ExitLock(c) \/ ExitUnlock(c)
    PROVE  ThreadInv'
<1>r. PICK r : r = running_list[c]
    OBVIOUS
<1>0. BaseInv /\ Placed /\ QueueMutex /\ TypeOK
    BY DEF ThreadInv, BaseInv
<1>1. PICK l \in ExitPc \ {"exit_count"} :
         /\ pc' = [pc EXCEPT ![c] = l] /\ pc[c] \in ExitPc
    BY DEF ExitCount, ExitLock, ExitUnlock, ExitPc
<1>2. /\ UNCHANGED <<queueVars, affinityset, state, ticks, running_list, proc, link,
                     scanVars, target, level>>
      /\ UNCHANGED <<waiting, joined, table>>
    BY DEF ExitCount, ExitLock, ExitUnlock, procVars, threadVars, waitVars
<1>3. /\ r \in Process /\ Holds(c) = {r} /\ state[r] = "ZOMBIE" /\ InExit(c)
      /\ pc[c] \in OwnPc
    BY <1>r, <1>1, Exiting
<1>4. pc'[c] = l /\ \A d \in Core \ {c} : pc'[d] = pc[d]
    BY <1>0, <1>1 DEF TypeOK
<1>5. /\ live_procs' \in Nat
      /\ live_procs' = Cardinality(Runnable) + Cardinality(Counting')
    <2>1. CASE ExitCount(c)
        <3>1. pc[c] = "exit_count" /\ live_procs' = live_procs - 1
            BY <2>1 DEF ExitCount
        <3>2. Counting' = Counting \ {c}
            BY <1>1, <1>4 DEF Counting
        <3> QED
            BY <3>1, <3>2, CountOut
    <2>2. CASE ExitLock(c) \/ ExitUnlock(c)
        <3>1. pc[c] # "exit_count" /\ live_procs' = live_procs
            BY <2>2 DEF ExitLock, ExitUnlock, procVars
        <3>2. Counting' = Counting
            BY <1>1, <1>4, <3>1 DEF Counting
        <3>3. live_procs = Cardinality(Runnable) + Cardinality(Counting)
            BY DEF ThreadInv, LiveExact, Runnable, Counting
        <3> QED
            BY <1>0, <3>1, <3>2, <3>3 DEF TypeOK
    <2> QED
        BY <2>1, <2>2
<1>6. l \in OwnPc
    BY DEF OwnPc, ExitPc
<1>7. TypeOK'
    <2>1. state' \in [Process -> {"UNUSED", "RUNNABLE", "ZOMBIE"}]
        BY <1>0, <1>2 DEF TypeOK
    <2> QED
        BY <1>0, <1>1, <1>2, <1>5, <1>6, <2>1, PlainType
<1>8. /\ BaseInv' /\ Placed' /\ QueueMutex' /\ Others(c)
      /\ \A p : Queued(p)' <=> Queued(p)
      /\ \A d \in Core \ {c} : Holds(d)' = Holds(d)
      /\ Holds(c)' = Holds(c)
    BY <1>0, <1>1, <1>2, <1>3, <1>6, <1>7, PlainStep
<1>9. /\ wait_lock' \in [Process -> BOOLEAN]
      /\ \/ wait_lock' = wait_lock /\ Sections'[c] = Sections[c]
         \/ \E q \in Process : /\ ~wait_lock[q] /\ wait_lock' = [wait_lock EXCEPT ![q] = TRUE]
                               /\ Sections[c] = {} /\ Sections'[c] = {q}
         \/ \E q \in Process : /\ wait_lock' = [wait_lock EXCEPT ![q] = FALSE]
                               /\ Sections[c] = {q} /\ Sections'[c] = {}
    <2>0. wait_lock \in [Process -> BOOLEAN]
        BY DEF ThreadInv, ThreadTypeOK
    <2>1. CASE ExitCount(c)
        <3>1. pc[c] = "exit_count" /\ pc'[c] = "exit_lock" /\ wait_lock' = wait_lock
            BY <1>0, <2>1 DEF ExitCount, threadVars, waitVars, TypeOK
        <3>2. Sections[c] = {} /\ Sections'[c] = {}
            BY <3>1 DEF Sections, InWaitSection, ReadyPc
        <3> QED
            BY <2>0, <3>1, <3>2
    <2>2. CASE ExitLock(c)
        <3>1. /\ pc[c] = "exit_lock" /\ pc'[c] = "exit_alert"
              /\ ~wait_lock[r] /\ wait_lock' = [wait_lock EXCEPT ![r] = TRUE]
            BY <1>r, <1>0, <2>2 DEF ExitLock, TypeOK
        <3>2. Sections[c] = {}
            BY <3>1 DEF Sections, InWaitSection, ReadyPc
        <3>3. Sections'[c] = {r}
            BY <1>r, <1>2, <1>3, <3>1 DEF Sections, InWaitSection, ReadyPc
        <3> QED
            BY <1>3, <2>0, <3>1, <3>2, <3>3
    <2>3. CASE ExitUnlock(c)
        <3>1. /\ pc[c] = "exit_alert" /\ pc'[c] = "exit_unlink"
              /\ wait_lock' = [wait_lock EXCEPT ![r] = FALSE]
            BY <1>r, <1>0, <2>3 DEF ExitUnlock, TypeOK
        <3>2. Sections[c] = {r}
            BY <1>r, <1>3, <3>1 DEF Sections, InWaitSection, ReadyPc
        <3>3. Sections'[c] = {}
            BY <3>1 DEF Sections, InWaitSection, ReadyPc
        <3> QED
            BY <1>3, <2>0, <3>1, <3>2, <3>3
    <2> QED
        BY <2>1, <2>2, <2>3
<1>10. InExit(c)' /\ pc'[c] \notin {"join_lock", "join_sleep"}
    BY <1>4 DEF InExit, ExitPc
<1>11. JoinInv' /\ LockInv' /\ ZombieInv'
    BY <1>r, <1>2, <1>3, <1>8, <1>9, <1>10, FrameStep
<1>12. SleepInv' /\ LostInv'
    <2>1. \A p : Somewhere(p)' <=> Somewhere(p)
        BY <1>8 DEF Somewhere
    <2> QED
        BY <1>2, <2>1, AsleepSame
<1>13. LiveExact'
    <2>1. Runnable' = Runnable
        BY <1>2 DEF Runnable
    <2> QED
        BY <1>5, <2>1 DEF LiveExact, Runnable, Counting
<1>14. ThreadTypeOK'
    BY <1>2, <1>7, <1>9 DEF ThreadInv, ThreadTypeOK
<1> QED
    BY <1>8, <1>11, <1>12, <1>13, <1>14 DEF ThreadInv


(* The process leaves its core, and nobody has it any more. *)
LEMMA ExitUnlinkStep ==
    ASSUME ThreadInv, NEW c \in Core, ExitUnlink(c) PROVE ThreadInv'
<1>r. PICK r : r = running_list[c]
    OBVIOUS
<1>0. BaseInv /\ Placed /\ QueueMutex /\ TypeOK
    BY DEF ThreadInv, BaseInv
<1>1. pc[c] = "exit_unlink" /\ pc' = [pc EXCEPT ![c] = "next"]
    BY DEF ExitUnlink
<1>2. /\ UNCHANGED <<queueVars, procVars, ticks, running_list, proc, link, scanVars, target,
                     level>>
      /\ UNCHANGED <<waiting, wait_lock, joined>>
    BY DEF ExitUnlink, waitVars
<1>3. UNCHANGED <<state, live_procs, affinityset>>
    BY <1>2 DEF procVars
<1>4. /\ r \in Process /\ Holds(c) = {r} /\ state[r] = "ZOMBIE"
      /\ pc[c] \in OwnPc
    BY <1>r, <1>1, Exiting DEF ExitPc
<1>5. TypeOK'
    <2>1. state' \in [Process -> {"UNUSED", "RUNNABLE", "ZOMBIE"}] /\ live_procs' \in Nat
        BY <1>0, <1>3 DEF TypeOK
    <2> QED
        BY <1>0, <1>1, <1>2, <1>3, <2>1, PlainType
<1>6. /\ BaseInv' /\ Placed' /\ QueueMutex' /\ Others(c)
      /\ \A p : Queued(p)' <=> Queued(p)
      /\ \A d \in Core \ {c} : Holds(d)' = Holds(d)
      /\ Holds(c)' = {}
    <2>1. "next" \notin OwnPc
        BY DEF OwnPc
    <2> QED
        BY <1>0, <1>1, <1>2, <1>3, <1>4, <1>5, <2>1, PlainStep
<1>7. pc'[c] = "next" /\ \A d \in Core \ {c} : pc'[d] = pc[d]
    BY <1>0, <1>1 DEF TypeOK
<1>8. Sections[c] = {} /\ Sections'[c] = {} /\ ~InExit(c)'
    BY <1>1, <1>7 DEF Sections, InWaitSection, InExit, ExitPc, ReadyPc
<1>9. JoinInv' /\ LockInv' /\ ZombieInv'
    BY <1>2, <1>3, <1>6, <1>7, <1>8, FrameStep
<1>10. SleepInv' /\ LostInv'
    <2>1. \A p : p # r => (Somewhere(p)' <=> Somewhere(p))
        BY <1>4, <1>6 DEF Somewhere
    <2>2. Somewhere(r)
        BY <1>4 DEF Somewhere
    <2> QED
        BY <1>2, <1>3, <1>4, <2>1, <2>2, AsleepSame
<1>11. LiveExact'
    <2>1. {d \in Core : pc'[d] = "exit_count"} = Counting
        BY <1>1, <1>7 DEF Counting
    <2> QED
        BY <1>0, <1>3, <2>1, CountStep DEF ThreadInv
<1>12. ThreadTypeOK'
    BY <1>2, <1>5 DEF ExitUnlink, ThreadInv, ThreadTypeOK
<1> QED
    BY <1>6, <1>9, <1>10, <1>11, <1>12 DEF ThreadInv

(* alert_on takes a waiter out of the queue and has it in hand at once. *)
LEMMA ExitAlertStep ==
    ASSUME ThreadInv, NEW c \in Core, ExitAlert(c) PROVE ThreadInv'
<1>r. PICK r : r = running_list[c]
    OBVIOUS
<1>0. BaseInv /\ Placed /\ QueueMutex /\ TypeOK
    BY DEF ThreadInv, BaseInv
<1>1. pc[c] = "exit_alert" /\ waiting[r] # <<>>
    BY <1>r DEF ExitAlert
<1>2. /\ UNCHANGED <<queueVars, affinityset, live_procs, ticks, running_list, target, level>>
      /\ UNCHANGED <<wait_lock, joined, table>>
    BY DEF ExitAlert
<1>3. r \in Process /\ Holds(c) = {r} /\ state[r] = "ZOMBIE" /\ InExit(c)
    BY <1>r, <1>1, Exiting DEF ExitPc
<1>4. waiting \in [Process -> Seq(Process)] /\ Apart(waiting)
    BY DEF ThreadInv, ThreadTypeOK, SleepInv
<1>5. PICK p : p = Head(waiting[r])
    OBVIOUS
<1>6. waiting' \in [Process -> Seq(Process)]
      /\ waiting'[r] = Tail(waiting[r]) /\ OneChanged(Process, waiting, waiting', r)
    <2>1. waiting' = [waiting EXCEPT ![r] = Tail(@)]
        BY <1>r DEF ExitAlert
    <2>2. Tail(waiting[r]) \in Seq(Process)
        BY <1>1, <1>3, <1>4
    <2> QED
        BY <1>3, <1>4, <2>1, <2>2 DEF OneChanged
<1>7. /\ p \in Process /\ In(waiting, p)
      /\ \A x : In(waiting', x) <=> In(waiting, x) /\ x # p
      /\ Apart(waiting')
    <2>1. /\ r \in Process /\ OneChanged(Process, waiting, waiting', r)
          /\ waiting[r] # <<>> /\ waiting'[r] = Tail(waiting[r]) /\ Apart(waiting)
        BY <1>1, <1>3, <1>4, <1>6
    <2>2. /\ Head(waiting[r]) \in Process /\ In(waiting, Head(waiting[r]))
          /\ \A x : In(waiting', x) <=> In(waiting, x) /\ x # Head(waiting[r])
          /\ Apart(waiting')
        BY <2>1, InRemoved
    <2> QED
        BY <1>5, <2>2
<1>8. state[p] = "RUNNABLE" /\ ~Somewhere(p) /\ p # r
    BY <1>3, <1>7 DEF ThreadInv, SleepInv
<1>9. CallReady(c, p, "exit_alert")
    BY <1>r, <1>5 DEF ExitAlert
<1>10. TypeOK'
    <2>1. "exit_alert" \in ReturnPc
        BY DEF ReturnPc
    <2> QED
        BY <1>0, <1>2, <1>7, <1>9, <2>1, CallReadyType DEF TypeOK, queueVars
<1>11. /\ BaseInv' /\ Placed' /\ QueueMutex' /\ Others(c)
       /\ \A x : Queued(x)' <=> Queued(x)
       /\ \A d \in Core \ {c} : Holds(d)' = Holds(d)
       /\ Holds(c)' = {r, p}
       /\ pc'[c] = "pick" /\ link'[c] = "exit_alert"
       /\ state' = [state EXCEPT ![p] = "RUNNABLE"]
    <2>1. /\ BaseInv' /\ Placed' /\ QueueMutex' /\ Others(c)
          /\ \A x : Queued(x)' <=> Queued(x)
          /\ \A d \in Core \ {c} : Holds(d)' = Holds(d)
          /\ Holds(c)' = Holds(c) \cup {p}
          /\ pc'[c] = "pick" /\ link'[c] = "exit_alert"
          /\ state' = [state EXCEPT ![p] = "RUNNABLE"]
        BY <1>0, <1>1, <1>2, <1>7, <1>8, <1>9, <1>10, WakeStep
    <2> QED
        BY <1>3, <2>1
<1>12. state' = state
    BY <1>0, <1>8, <1>11 DEF TypeOK
<1>13. InExit(c)' /\ running_list' = running_list
    BY <1>2, <1>11 DEF InExit, ReadyPc
<1>14. Sections'[c] = Sections[c]
    BY <1>1, <1>2, <1>11 DEF Sections, InWaitSection, ReadyPc
<1>15. JoinInv' /\ LockInv' /\ ZombieInv'
    <2>1. \A x \in Holds(c)' : state'[x] = "ZOMBIE" => running_list'[c] = x
        BY <1>r, <1>8, <1>11, <1>12, <1>13
    <2>2. state'[running_list'[c]] = "ZOMBIE"
        BY <1>r, <1>3, <1>12, <1>13
    <2> QED
        BY <1>2, <1>11, <1>12, <1>13, <1>14, <2>1, <2>2, FrameStep
<1>16. \A x : Somewhere(x)' <=> Somewhere(x) \/ x = p
    BY <1>3, <1>11 DEF Somewhere
<1>17. SleepInv'
    <2>1. ASSUME NEW x \in Process, In(waiting', x) PROVE state'[x] = "RUNNABLE" /\ ~Somewhere(x)'
        BY <1>7, <1>12, <1>16, <2>1 DEF ThreadInv, SleepInv
    <2> QED
        BY <1>7, <2>1 DEF SleepInv, In, Apart
<1>18. LostInv'
    <2>1. ASSUME NEW x \in Process, state'[x] = "RUNNABLE" PROVE Somewhere(x)' \/ In(waiting', x)
        BY <1>7, <1>12, <1>16, <2>1 DEF ThreadInv, LostInv
    <2> QED
        BY <2>1 DEF LostInv, In
<1>19. LiveExact'
    <2>1. {d \in Core : pc'[d] = "exit_count"} = Counting
        BY <1>1, <1>11 DEF Counting, Others
    <2> QED
        BY <1>0, <1>2, <1>12, <2>1, CountStep DEF ThreadInv
<1>20. ThreadTypeOK'
    BY <1>2, <1>6, <1>10 DEF ThreadInv, ThreadTypeOK
<1> QED
    BY <1>11, <1>15, <1>17, <1>18, <1>19, <1>20 DEF ThreadInv


-----------------------------------------------------------------------------
LEMMA StutterThreads ==
    ASSUME ThreadInv, UNCHANGED threadsVars PROVE ThreadInv'
<1>0. BaseInv /\ Placed /\ QueueMutex
    BY DEF ThreadInv
<1>1. UNCHANGED dispatchVars /\ UNCHANGED <<waiting, wait_lock, joined, table>>
    BY DEF threadsVars, threadVars, waitVars
<1>2. BaseInv' /\ Placed' /\ \A p : Somewhere(p)' <=> Somewhere(p)
    BY <1>0, <1>1, StutterPlaced
<1>3. UNCHANGED <<tasks, rq_lock, running_list, state, live_procs, pc, proc, link, target>>
    BY <1>1 DEF dispatchVars, queueVars, procVars, coreVars
<1>4. QueueMutex'
    BY <1>0, <1>3 DEF QueueMutex, InQueueSection
<1>5. ThreadTypeOK'
    BY <1>1, <1>2 DEF ThreadInv, ThreadTypeOK, BaseInv
<1>6. \A p : In(waiting, p)' <=> In(waiting, p)
    BY <1>1 DEF In
<1>7. SleepInv' /\ LostInv'
    BY <1>1, <1>2, <1>3, <1>6 DEF ThreadInv, SleepInv, LostInv, Apart
<1>8. JoinInv' /\ LockInv'
    BY <1>1, <1>3
    DEF ThreadInv, JoinInv, LockInv, Exclusive, Sections, InWaitSection
<1>9. ZombieInv'
    <2>1. \A c : (InExit(c)' <=> InExit(c)) /\ Holds(c)' = Holds(c)
        BY <1>3 DEF InExit, Holds, Carries, Owns
    <2>2. \A p : Queued(p)' <=> Queued(p)
        BY <1>3 DEF Queued, At
    <2> QED
        BY <1>3, <2>1, <2>2 DEF ThreadInv, ZombieInv
<1>10. LiveExact'
    BY <1>3 DEF ThreadInv, LiveExact
<1> QED
    BY <1>2, <1>4, <1>5, <1>7, <1>8, <1>9, <1>10 DEF ThreadInv

LEMMA NextThreads ==
    ASSUME ThreadInv, [ThreadNext]_threadsVars PROVE ThreadInv'
<1>1. CASE UNCHANGED threadsVars
    BY <1>1, StutterThreads
<1>2. ASSUME NEW c \in Core, ThreadStep(c) PROVE ThreadInv'
    <2>0. table \subseteq Process
        BY DEF ThreadInv, ThreadTypeOK
    <2>1. CASE Scheduler(c) /\ UNCHANGED threadVars
        <3>1. CoreStep(c)
            BY <2>1 DEF Scheduler, CoreStep, Kernel, SysCall
        <3> QED
            BY <2>0, <2>1, <3>1, SchedStep DEF threadVars
    <2>2. ASSUME NEW m \in Masks \ {{}}, SetAffinity(c, m), UNCHANGED threadVars
          PROVE  ThreadInv'
        <3>1. CoreStep(c)
            BY <2>2 DEF CoreStep, SysCall
        <3> QED
            BY <2>0, <2>2, <3>1, SchedStep DEF threadVars
    <2>3. ASSUME NEW t \in Thread, NEW m \in Masks, ThreadCreate(c, t, m)
          PROVE  ThreadInv'
        <3>1. CoreStep(c)
            BY <2>3 DEF ThreadCreate, CoreStep, SysCall
        <3>2. UNCHANGED waitVars /\ table' \subseteq Process
            BY <2>0, <2>3, ProcessFacts DEF ThreadCreate, Register
        <3> QED
            BY <3>1, <3>2, SchedStep
    <2>4. CASE ThreadBoot(c)
        <3>1. CoreStep(c)
            BY <2>4 DEF ThreadBoot, CoreStep, Kernel, Boot
        <3>2. UNCHANGED waitVars /\ table' \subseteq Process
            BY <2>0, <2>4, ProcessFacts DEF ThreadBoot, Register
        <3> QED
            BY <3>1, <3>2, SchedStep
    <2>5. CASE JoinLock(c) \/ \E p \in Thread : JoinLookup(c, p)
        BY <2>5, JoinSteps
    <2>6. CASE ExitCount(c) \/ ExitLock(c) \/ ExitUnlock(c)
        BY <2>6, ExitSteps
    <2>7. CASE JoinSleep(c) \/ ExitMark(c) \/ ExitUnlink(c) \/ ExitAlert(c)
        BY <2>7, JoinSleepStep, ExitMarkStep, ExitUnlinkStep, ExitAlertStep
    <2> QED
        BY <1>2, <2>1, <2>2, <2>3, <2>4, <2>5, <2>6, <2>7
        DEF ThreadStep, ThreadAcquire, ThreadKernel
<1> QED
    BY <1>1, <1>2 DEF ThreadNext

LEMMA ThreadsAlways == ThreadSpec => []ThreadInv
<1>1. ThreadInit => ThreadInv
    BY InitThreads
<1>2. ThreadInv /\ [ThreadNext]_threadsVars => ThreadInv'
    BY NextThreads
<1> QED
    BY <1>1, <1>2, PTL DEF ThreadSpec

-----------------------------------------------------------------------------
(* What the invariant says in the words of Threads. *)
LEMMA WhoSleeps ==
    ASSUME ThreadTypeOK
    PROVE  /\ \A p : p \in Asleep <=> In(waiting, p)
           /\ \A p \in Process : p \in Awake <=> Somewhere(p)
<1>1. ASSUME NEW p PROVE p \in Asleep <=> In(waiting, p)
    BY DEF ThreadTypeOK, Asleep, In, Range
<1>2. ASSUME NEW p \in Process PROVE p \in Awake <=> Somewhere(p)
    <2>1. \A c \in Core, i \in Priority :
             p \in Range(tasks[c][i]) <=> \E k \in 1 .. Len(tasks[c][i]) : At(c, i, k) = p
        BY DEF ThreadTypeOK, TypeOK, Range, At
    <2> QED
        BY <2>1 DEF Awake, Somewhere, Queued
<1> QED
    BY <1>1, <1>2

(* Joining and exiting processes keep the types of the scheduler and of    *)
(* their own variables: a core that is about to lock a wait queue has one. *)
THEOREM ThreadsTypeCorrect == ThreadSpec => []ThreadTypeOK
<1>1. ThreadInv => ThreadTypeOK
    BY DEF ThreadInv
<1> QED
    BY <1>1, ThreadsAlways, PTL

(* At most one core is between the lock and the unlock of a wait queue,    *)
(* whatever number of waiters alert_on readies under it. *)
THEOREM WaitSectionsExclusive == ThreadSpec => []WaitMutex
<1>1. ThreadInv => WaitMutex
    BY DEF ThreadInv, LockInv, Exclusive, Sections, WaitMutex
<1> QED
    BY <1>1, ThreadsAlways, PTL

(* A process that sleeps in a join is in one wait queue and nowhere else,  *)
(* so that it is readied once. *)
THEOREM SleepersAreApart == ThreadSpec => []SleepersApart
<1>1. ThreadInv => SleepersApart
    <2>1. ASSUME ThreadInv PROVE Awake \cap Asleep = {}
        <3>1. \A p \in Asleep : p \in Process /\ p \notin Awake
            BY <2>1, WhoSleeps DEF ThreadInv, ThreadTypeOK, SleepInv, In
        <3> QED
            BY <3>1
    <2> QED
        BY <2>1 DEF ThreadInv, ThreadTypeOK, SleepInv, Apart, SleepersApart
<1> QED
    BY <1>1, ThreadsAlways, PTL

(* No join or exit loses a runnable process: it is held by a core, ready,  *)
(* or in a wait queue. *)
THEOREM NoThreadLost == ThreadSpec => []NoLostThread
<1>1. ThreadInv => NoLostThread
    BY WhoSleeps DEF ThreadInv, LostInv, NoLostThread
<1> QED
    BY <1>1, ThreadsAlways, PTL

(* A process that has terminated runs no more in user mode, is in no       *)
(* queue, and is left only with the core that runs its proc_exit. *)
THEOREM ZombiesAreGone == ThreadSpec => []ZombieGone
<1>1. ThreadInv => ZombieGone
    <2>1. \A c \in Core : InExit(c) => pc[c] # "user"
        BY DEF InExit, ExitPc, ReadyPc
    <2>2. ASSUME ThreadInv, NEW p \in Process, state[p] = "ZOMBIE" PROVE p \notin Asleep
        BY <2>2, WhoSleeps DEF ThreadInv, SleepInv
    <2> QED
        BY <2>1, <2>2 DEF ThreadInv, ZombieInv, ZombieGone
<1> QED
    BY <1>1, ThreadsAlways, PTL

(* live_procs, the divisor of sched_pickcpu, is the number of processes    *)
(* that run, wait or sleep, but for those that are being counted out.      *)
THEOREM LiveIsExact == ThreadSpec => []LiveExact
<1>1. ThreadInv => LiveExact
    BY DEF ThreadInv
<1> QED
    BY <1>1, ThreadsAlways, PTL

(* The cores never spin in a circle on the locks of ready queues and of    *)
(* wait queues: who has a ready queue locked spins nowhere, and who has a  *)
(* wait queue locked spins at most on a ready queue. *)
THEOREM SpinsEnd == ThreadSpec => []NoSpinCycle
<1>1. ASSUME ThreadInv, NEW c \in Core, NEW q \in Core, WantsQueue(c, q), rq_lock[q]
      PROVE  \E d \in Core : HoldsUp(d, c) /\ ~Spins(d)
    <2>1. PICK d \in Core : InQueueSection(d, q)
        BY <1>1 DEF ThreadInv, QueueMutex
    <2>2. ~Spins(d)
        BY <2>1 DEF InQueueSection, Spins, WantsQueue, WantsWait
    <2> QED
        BY <1>1, <2>1, <2>2 DEF HoldsUp
<1>2. ASSUME ThreadInv, NEW c \in Core, NEW q \in Process, WantsWait(c, q), wait_lock[q]
      PROVE  \E d \in Core : HoldsUp(d, c) /\ \A r \in Process : ~WantsWait(d, r)
    <2>1. PICK d \in Core : InWaitSection(d, q)
        BY <1>2 DEF ThreadInv, LockInv, Exclusive, Sections
    <2>2. \A r \in Process : ~WantsWait(d, r)
        BY <2>1 DEF InWaitSection, WantsWait, ReadyPc
    <2> QED
        BY <1>2, <2>1, <2>2 DEF HoldsUp
<1>3. ASSUME ThreadInv, NEW S \in SUBSET {c \in Core : Spins(c)}, S # {}
      PROVE  \E c \in S, d \in Core \ S : HoldsUp(d, c)
    <2>1. \A d \in S : d \in Core /\ Spins(d)
        OBVIOUS
    <2>2. CASE \E c \in S, q \in Core : WantsQueue(c, q) /\ rq_lock[q]
        BY <1>1, <1>3, <2>1, <2>2
    <2>3. CASE ~\E c \in S, q \in Core : WantsQueue(c, q) /\ rq_lock[q]
        <3>1. PICK c \in S : \E q \in Process : WantsWait(c, q) /\ wait_lock[q]
            BY <1>3, <2>1, <2>3 DEF Spins
        <3>2. PICK d \in Core : HoldsUp(d, c) /\ \A r \in Process : ~WantsWait(d, r)
            BY <1>2, <1>3, <2>1, <3>1
        <3>3. d \notin S
            BY <2>1, <2>3, <3>2 DEF Spins
        <3> QED
            BY <3>1, <3>2, <3>3
    <2> QED
        BY <2>2, <2>3
<1>4. ThreadInv => NoSpinCycle
    BY <1>3 DEF NoSpinCycle
<1> QED
    BY <1>4, ThreadsAlways, PTL

-----------------------------------------------------------------------------
(* Why a joiner may be left behind: proc_join looks the process up, and    *)
(* only then locks its wait queue.  A joiner is in time when the process   *)
(* it goes to sleep on is alive, or its core has yet to wake the waiters.  *)
Alerts(c)  == InExit(c) /\ pc[c] # "exit_unlink"
ToAlert(p) == \E c \in Core : Alerts(c) /\ running_list[c] = p
JoinsInTime ==
    \A c \in Core :
        pc[c] = "join_sleep" => state[joined[c]] = "RUNNABLE" \/ ToAlert(joined[c])

(* The table holds who is alive and who is inside his proc_exit. *)
Registered ==
    /\ \A p \in Process : state[p] = "RUNNABLE" => p \in table
    /\ \A c \in Core : InExit(c) => running_list[c] \in table
    /\ \A p \in table :
          state[p] = "RUNNABLE" \/ \E c \in Core : InExit(c) /\ running_list[c] = p

(* Nobody sleeps on a process whose waiters have been woken. *)
AllAwake == \A p \in Process : state[p] = "ZOMBIE" /\ ~ToAlert(p) => waiting[p] = <<>>

(* What the steps of core c do to all this: those of the scheduler and the *)
(* creations, those of a join, and those of an exit. *)
Stay(c) ==
    \A d \in Core \ {c} :
        /\ InExit(d)' <=> InExit(d)
        /\ pc'[d] = pc[d] /\ joined'[d] = joined[d] /\ running_list'[d] = running_list[d]

MoveSched(c) ==
    /\ waiting' = waiting /\ pc'[c] \notin {"join_lock", "join_sleep"}
    /\ InExit(c)' <=> InExit(c)
    /\ Alerts(c)' <=> Alerts(c)
    /\ InExit(c) => running_list'[c] = running_list[c]
    /\ \/ state' = state /\ table' = table
       \/ \E p \in Process : /\ state[p] = "UNUSED"
                             /\ state' = [state EXCEPT ![p] = "RUNNABLE"]
                             /\ table' = table \cup {p}

MoveJoin(c) ==
    /\ UNCHANGED <<state, table, running_list>> /\ ~InExit(c) /\ ~InExit(c)'
    /\ \/ pc[c] = "user" /\ waiting' = waiting /\ joined'[c] \in table
       \/ /\ pc[c] = "join_lock" /\ pc'[c] = "join_sleep"
          /\ waiting' = waiting /\ joined'[c] = joined[c]
       \/ /\ pc[c] = "join_sleep" /\ pc'[c] = "next"
          /\ \A p \in Process : p # joined[c] => waiting'[p] = waiting[p]

MoveExit(c) ==
    /\ running_list' = running_list /\ running_list[c] \in Process
    /\ pc'[c] \notin {"join_lock", "join_sleep"}
    /\ \A p \in Process :
          p # running_list[c] => state'[p] = state[p] /\ waiting'[p] = waiting[p]
    /\ state'[running_list[c]] = "ZOMBIE"
    /\ \/ state[running_list[c]] = "RUNNABLE" /\ ~InExit(c) /\ Alerts(c)' /\ table' = table
       \/ /\ InExit(c) /\ InExit(c)' /\ table' = table
          /\ Alerts(c)' \/ waiting'[running_list[c]] = <<>>
       \/ /\ InExit(c) /\ ~Alerts(c) /\ ~InExit(c)' /\ waiting' = waiting
          /\ table' = table \ {running_list[c]}

LEMMA SchedMoves ==
    ASSUME ThreadInv, NEW c \in Core, CoreStep(c), UNCHANGED waitVars,
           \/ table' = table /\ live_procs' = live_procs
           \/ \E p \in Process : /\ state[p] = "UNUSED"
                                 /\ state' = [state EXCEPT ![p] = "RUNNABLE"]
                                 /\ table' = table \cup {p}
    PROVE  Stay(c) /\ MoveSched(c)
<1>0. BaseInv /\ Placed /\ TypeOK
    BY DEF ThreadInv, BaseInv
<1>1. Others(c) /\ waiting' = waiting /\ joined' = joined
    BY <1>0, StepPlaced DEF waitVars
<1>2. Stay(c)
    BY <1>1, OthersWait DEF Stay
<1>3. /\ InExit(c)' <=> InExit(c)
      /\ InExit(c) => running_list'[c] = running_list[c]
      /\ pc'[c] \notin {"join_lock", "join_sleep"}
    BY <1>0, <1>1, SchedPath
<1>4. Alerts(c)' <=> Alerts(c)
    <2>1. ASSUME InExit(c) PROVE pc[c] # "exit_unlink" /\ pc'[c] # "exit_unlink"
        <3>1. pc[c] \in ReadyPc
            BY <1>0, <2>1, StepPath DEF InExit, ExitPc, OwnPc
        <3>2. link[c] = "exit_alert"
            BY <2>1, <3>1 DEF InExit, ExitPc, ReadyPc
        <3>3. pc'[c] \in ReadyPc \/ pc'[c] = "exit_alert"
            BY <1>0, <3>1, <3>2, StepPath
        <3> QED
            BY <3>1, <3>3 DEF ReadyPc
    <2> QED
        BY <1>3, <2>1 DEF Alerts
<1>5. \/ state' = state /\ table' = table
      \/ \E p \in Process : /\ state[p] = "UNUSED"
                            /\ state' = [state EXCEPT ![p] = "RUNNABLE"]
                            /\ table' = table \cup {p}
    <2>1. ASSUME table' = table, live_procs' = live_procs PROVE state' = state
        <3>1. live_procs \in Nat
            BY <1>0 DEF TypeOK
        <3>2. live_procs' # live_procs + 1
            BY <2>1, <3>1
        <3> QED
            BY <1>1, <3>2, SchedCount
    <2> QED
        BY <2>1
<1> QED
    BY <1>1, <1>2, <1>3, <1>4, <1>5 DEF MoveSched

LEMMA JoinMoves ==
    ASSUME ThreadInv, NEW c \in Core,
           JoinLock(c) \/ JoinSleep(c) \/ \E p \in Thread : JoinLookup(c, p)
    PROVE  Stay(c) /\ MoveJoin(c)
<1>0. TypeOK /\ joined \in [Core -> Process \cup {NoProcess}]
      /\ waiting \in [Process -> Seq(Process)]
    BY DEF ThreadInv, ThreadTypeOK, BaseInv
<1>1. /\ UNCHANGED <<queueVars, procVars, ticks, running_list, proc, link, scanVars, target,
                     level>>
      /\ table' = table
    BY DEF JoinLock, JoinSleep, JoinLookup
<1>2. PICK l \in {"join_lock", "join_sleep", "next"} :
          pc' = [pc EXCEPT ![c] = l] /\ pc[c] \in {"user", "join_lock", "join_sleep"}
    BY DEF JoinLock, JoinSleep, JoinLookup
<1>3. pc'[c] = l /\ \A d \in Core \ {c} : pc'[d] = pc[d]
    BY <1>0, <1>2 DEF TypeOK
<1>4. \A d \in Core \ {c} : joined'[d] = joined[d]
    BY <1>0 DEF JoinLock, JoinSleep, JoinLookup
<1>5. Stay(c)
    BY <1>1, <1>3, <1>4 DEF Stay, InExit
<1>6. ~InExit(c) /\ ~InExit(c)'
    BY <1>2, <1>3 DEF InExit, ExitPc, ReadyPc
<1>7. state' = state
    BY <1>1 DEF procVars
<1>8. CASE JoinLock(c)
    BY <1>0, <1>1, <1>5, <1>6, <1>7, <1>8 DEF JoinLock, MoveJoin, TypeOK
<1>9. CASE JoinSleep(c)
    <2>1. pc[c] = "join_sleep" /\ pc'[c] = "next"
        BY <1>0, <1>9 DEF JoinSleep, TypeOK
    <2>2. \A p \in Process : p # joined[c] => waiting'[p] = waiting[p]
        BY <1>0, <1>9 DEF JoinSleep
    <2> QED
        BY <1>1, <1>5, <1>6, <1>7, <2>1, <2>2 DEF MoveJoin
<1>10. CASE \E p \in Thread : JoinLookup(c, p)
    <2>1. pc[c] = "user" /\ waiting' = waiting /\ joined'[c] \in table
        BY <1>0, <1>10 DEF JoinLookup
    <2> QED
        BY <1>1, <1>5, <1>6, <1>7, <2>1 DEF MoveJoin
<1> QED
    BY <1>8, <1>9, <1>10

LEMMA ExitMoves ==
    ASSUME ThreadInv, NEW c \in Core,
           ExitMark(c) \/ ExitCount(c) \/ ExitLock(c) \/ ExitAlert(c) \/ ExitUnlock(c)
           \/ ExitUnlink(c)
    PROVE  Stay(c) /\ MoveExit(c)
<1>r. PICK r : r = running_list[c]
    OBVIOUS
<1>0. TypeOK /\ joined \in [Core -> Process \cup {NoProcess}]
      /\ waiting \in [Process -> Seq(Process)]
    BY DEF ThreadInv, ThreadTypeOK, BaseInv
<1>1. running_list' = running_list /\ joined' = joined
    BY DEF ExitMark, ExitCount, ExitLock, ExitAlert, ExitUnlock, ExitUnlink, threadVars,
           waitVars
<1>2. PICK l \in (ExitPc \ {"exit_count"}) \cup {"exit_count", "pick", "next"} :
          pc' = [pc EXCEPT ![c] = l]
    BY DEF ExitMark, ExitCount, ExitLock, ExitAlert, ExitUnlock, ExitUnlink, CallReady, ExitPc
<1>3. pc'[c] = l /\ \A d \in Core \ {c} : pc'[d] = pc[d]
    BY <1>0, <1>2 DEF TypeOK
<1>4. \A d \in Core \ {c} : link'[d] = link[d]
    BY <1>0 DEF ExitMark, ExitCount, ExitLock, ExitAlert, ExitUnlock, ExitUnlink, CallReady,
                TypeOK
<1>5. Stay(c)
    BY <1>1, <1>3, <1>4 DEF Stay, InExit
<1>6. pc'[c] \notin {"join_lock", "join_sleep"}
    BY <1>2, <1>3 DEF ExitPc
<1>7. CASE ExitMark(c)
    <2>1. /\ pc[c] = "user" /\ pc'[c] = "exit_count" /\ r \in Process
          /\ state' = [state EXCEPT ![r] = "ZOMBIE"]
          /\ table' = table /\ waiting' = waiting
        BY <1>r, <1>0, <1>7, ProcessFacts DEF ExitMark, threadVars, waitVars, TypeOK
    <2>2. ~InExit(c) /\ Alerts(c)'
        BY <2>1 DEF InExit, Alerts, ExitPc, ReadyPc
    <2>3. r \in Holds(c)
        BY <1>r, <2>1 DEF Holds, Owns, ReadyPc, NextPc
    <2>4. state[r] = "RUNNABLE"
        BY <2>2, <2>3, HeldLives
    <2>5. state'[r] = "ZOMBIE" /\ \A p \in Process : p # r => state'[p] = state[p]
        BY <1>0, <2>1 DEF TypeOK
    <2> QED
        BY <1>r, <1>1, <1>5, <1>6, <2>1, <2>2, <2>4, <2>5 DEF MoveExit
<1>8. CASE ~ExitMark(c)
    <2>1. pc[c] \in ExitPc
        BY <1>8 DEF ExitCount, ExitLock, ExitAlert, ExitUnlock, ExitUnlink, ExitPc
    <2>2. r \in Process /\ state[r] = "ZOMBIE" /\ InExit(c)
        BY <1>r, <2>1, Exiting
    <2>3. CASE ExitCount(c) \/ ExitLock(c)
        <3>1. /\ pc'[c] \in {"exit_lock", "exit_alert"}
              /\ state' = state /\ table' = table /\ waiting' = waiting
            BY <1>0, <2>3 DEF ExitCount, ExitLock, procVars, threadVars, waitVars, TypeOK
        <3>2. InExit(c)' /\ Alerts(c)'
            BY <3>1 DEF InExit, Alerts, ExitPc
        <3> QED
            BY <1>r, <1>1, <1>5, <1>6, <2>2, <3>1, <3>2 DEF MoveExit
    <2>4. CASE ExitAlert(c)
        <3>1. /\ pc'[c] = "pick" /\ link'[c] = "exit_alert" /\ table' = table
              /\ \A p \in Process : p # r => waiting'[p] = waiting[p]
            BY <1>r, <1>0, <2>4 DEF ExitAlert, CallReady, TypeOK
        <3>2. InExit(c)' /\ Alerts(c)'
            BY <3>1 DEF InExit, Alerts, ReadyPc
        <3>3. state' = state
            <4>1. PICK p : p = Head(waiting[r])
                OBVIOUS
            <4>2. waiting[r] # <<>> /\ state' = [state EXCEPT ![p] = "RUNNABLE"]
                BY <1>r, <2>4, <4>1 DEF ExitAlert, CallReady
            <4>3. p \in Process /\ In(waiting, p)
                <5>1. 1 \in 1 .. Len(waiting[r]) /\ p = waiting[r][1] /\ p \in Process
                    BY <1>0, <2>2, <4>1, <4>2
                <5> QED
                    BY <1>0, <2>2, <5>1 DEF In
            <4>4. state[p] = "RUNNABLE"
                BY <4>3 DEF ThreadInv, SleepInv
            <4> QED
                BY <1>0, <4>2, <4>3, <4>4 DEF TypeOK
        <3> QED
            BY <1>r, <1>1, <1>5, <1>6, <2>2, <3>1, <3>2, <3>3 DEF MoveExit
    <2>5. CASE ExitUnlock(c)
        <3>1. /\ pc'[c] = "exit_unlink" /\ waiting[r] = <<>>
              /\ state' = state /\ table' = table /\ waiting' = waiting
            BY <1>r, <1>0, <2>5 DEF ExitUnlock, procVars, TypeOK
        <3>2. InExit(c)'
            BY <3>1 DEF InExit, ExitPc
        <3> QED
            BY <1>r, <1>1, <1>5, <1>6, <2>2, <3>1, <3>2 DEF MoveExit
    <2>6. CASE ExitUnlink(c)
        <3>1. /\ pc[c] = "exit_unlink" /\ pc'[c] = "next"
              /\ state' = state /\ table' = table \ {r} /\ waiting' = waiting
            BY <1>r, <1>0, <2>6 DEF ExitUnlink, procVars, waitVars, TypeOK
        <3>2. ~Alerts(c) /\ ~InExit(c)'
            BY <3>1 DEF InExit, Alerts, ExitPc, ReadyPc
        <3> QED
            BY <1>r, <1>1, <1>5, <1>6, <2>2, <3>1, <3>2 DEF MoveExit
    <2> QED
        BY <1>8, <2>3, <2>4, <2>5, <2>6
<1> QED
    BY <1>7, <1>8

LEMMA Moves ==
    ASSUME ThreadInv, NEW c \in Core, ThreadStep(c)
    PROVE  Stay(c) /\ (MoveSched(c) \/ MoveJoin(c) \/ MoveExit(c))
<1>1. CASE Scheduler(c) /\ UNCHANGED threadVars
    <2>1. CoreStep(c) /\ UNCHANGED waitVars /\ table' = table
        BY <1>1 DEF Scheduler, CoreStep, Kernel, SysCall, threadVars
    <2>2. live_procs' = live_procs
        BY <1>1
        DEF Scheduler, Ready, PickInactive, PickDecide, ReadyLength, ReadyAdd, NextProc,
            NextTake, NextMiss, NextRun, Pull, PullBusiest, PullSkip, PullScan, Acquire,
            ReadyLock, NextLock, PullLock, TimeSlice, Yield, procVars
    <2> QED
        BY <2>1, <2>2, SchedMoves
<1>2. ASSUME NEW m \in Masks \ {{}}, SetAffinity(c, m), UNCHANGED threadVars
      PROVE  Stay(c) /\ MoveSched(c)
    <2>1. CoreStep(c) /\ UNCHANGED waitVars /\ table' = table
        BY <1>2 DEF CoreStep, SysCall, threadVars
    <2>2. live_procs' = live_procs
        BY <1>2 DEF SetAffinity
    <2> QED
        BY <2>1, <2>2, SchedMoves
<1>3. ASSUME NEW t \in Thread, NEW m \in Masks, ThreadCreate(c, t, m)
      PROVE  Stay(c) /\ MoveSched(c)
    <2>1. CoreStep(c) /\ UNCHANGED waitVars /\ t \in Process
        BY <1>3, ProcessFacts DEF CoreStep, SysCall, ThreadCreate, Register
    <2>2. /\ state[t] = "UNUSED" /\ state' = [state EXCEPT ![t] = "RUNNABLE"]
          /\ table' = table \cup {t}
        BY <1>3 DEF ThreadCreate, Register, PthreadCreate, ProcCreate, CallReady
    <2> QED
        BY <2>1, <2>2, SchedMoves
<1>4. CASE ThreadBoot(c)
    <2>1. CoreStep(c) /\ UNCHANGED waitVars /\ Idle(c) \in Process /\ Root(c) \in Process
        BY <1>4, ProcessFacts DEF CoreStep, Kernel, Boot, ThreadBoot, Register
    <2>2. PICK p \in {Idle(c), Root(c)} :
             /\ state[p] = "UNUSED" /\ state' = [state EXCEPT ![p] = "RUNNABLE"]
             /\ table' = table \cup {p}
        BY <1>4 DEF ThreadBoot, Register, BootIdle, BootRoot, ProcCreate, CallReady
    <2> QED
        BY <2>1, <2>2, SchedMoves
<1> QED
    BY <1>1, <1>2, <1>3, <1>4, JoinMoves, ExitMoves
    DEF ThreadStep, ThreadAcquire, ThreadKernel

(* A core inside proc_exit has its process to itself. *)
LEMMA ExitsApart ==
    ASSUME ThreadInv, NEW c \in Core, InExit(c)
    PROVE  /\ running_list[c] \in Process /\ state[running_list[c]] = "ZOMBIE"
           /\ \A d \in Core \ {c} : InExit(d) => running_list[d] # running_list[c]
<1>1. ASSUME NEW d \in Core, InExit(d)
      PROVE  running_list[d] \in Process /\ running_list[d] \in Holds(d)
    <2>1. Owns(d)
        BY <1>1 DEF InExit, Owns, ExitPc, ReadyPc, NextPc, LetsGo
    <2> QED
        BY <2>1 DEF ThreadInv, BaseInv, HolderInv, Holds
<1>2. \A d \in Core \ {c} : InExit(d) => running_list[d] # running_list[c]
    BY <1>1 DEF ThreadInv, Placed, OnePlace
<1> QED
    BY <1>1, <1>2 DEF ThreadInv, ZombieInv

LEMMA RegisteredStep ==
    ASSUME ThreadInv, Registered, NEW c \in Core, ThreadStep(c) PROVE Registered'
<1>r. PICK r : r = running_list[c]
    OBVIOUS
<1>0. state \in [Process -> {"UNUSED", "RUNNABLE", "ZOMBIE"}] /\ table \subseteq Process
    BY DEF ThreadInv, BaseInv, TypeOK, ThreadTypeOK
<1>1. Stay(c)
    BY Moves
<1>2. CASE MoveSched(c)
    <2>1. CASE state' = state /\ table' = table
        BY <1>1, <1>2, <2>1 DEF MoveSched, Stay, Registered
    <2>2. ASSUME NEW p \in Process, state[p] = "UNUSED",
                 state' = [state EXCEPT ![p] = "RUNNABLE"], table' = table \cup {p}
          PROVE  Registered'
        <3>1. state'[p] = "RUNNABLE" /\ \A x \in Process : x # p => state'[x] = state[x]
            BY <1>0, <2>2
        <3> QED
            BY <1>0, <1>1, <1>2, <2>2, <3>1 DEF MoveSched, Stay, Registered
    <2> QED
        BY <1>2, <2>1, <2>2 DEF MoveSched
<1>3. CASE MoveJoin(c)
    BY <1>1, <1>3 DEF MoveJoin, Stay, Registered
<1>4. CASE MoveExit(c)
    <2>1. r \in Process /\ running_list' = running_list /\ state'[r] = "ZOMBIE"
          /\ \A p \in Process : p # r => state'[p] = state[p]
        BY <1>r, <1>4 DEF MoveExit
    <2>2. CASE state[r] = "RUNNABLE" /\ ~InExit(c) /\ Alerts(c)' /\ table' = table
        BY <1>r, <1>0, <1>1, <2>1, <2>2 DEF Stay, Registered, Alerts
    <2>3. CASE InExit(c) /\ InExit(c)' /\ table' = table
        BY <1>r, <1>0, <1>1, <2>1, <2>3 DEF Stay, Registered
    <2>4. CASE InExit(c) /\ ~InExit(c)' /\ table' = table \ {r}
        <3>1. \A d \in Core \ {c} : InExit(d) => running_list[d] # r
            BY <1>r, <2>4, ExitsApart
        <3> QED
            BY <1>r, <1>0, <1>1, <2>1, <2>4, <3>1 DEF Stay, Registered
    <2> QED
        BY <1>r, <1>4, <2>2, <2>3, <2>4 DEF MoveExit
<1> QED
    BY <1>2, <1>3, <1>4, Moves

LEMMA AllAwakeStep ==
    ASSUME ThreadInv, AllAwake, JoinsInTime, NEW c \in Core, ThreadStep(c) PROVE AllAwake'
<1>r. PICK r : r = running_list[c]
    OBVIOUS
<1>0. state \in [Process -> {"UNUSED", "RUNNABLE", "ZOMBIE"}]
    BY DEF ThreadInv, BaseInv, TypeOK
<1>1. Stay(c)
    BY Moves
<1>2. \A d \in Core \ {c} : Alerts(d)' <=> Alerts(d)
    BY <1>1 DEF Stay, Alerts
<1>3. ASSUME NEW p, ToAlert(p), ~(Alerts(c) /\ p = r) PROVE ToAlert(p)'
    BY <1>r, <1>1, <1>2, <1>3 DEF ToAlert, Stay
<1>4. CASE MoveSched(c)
    <2>1. \A p : ToAlert(p) => ToAlert(p)'
        BY <1>r, <1>3, <1>4 DEF MoveSched, Alerts, ToAlert
    <2>2. \A p \in Process : state'[p] = "ZOMBIE" => state[p] = "ZOMBIE"
        BY <1>0, <1>4 DEF MoveSched
    <2> QED
        BY <1>4, <2>1, <2>2 DEF MoveSched, AllAwake
<1>5. CASE MoveJoin(c)
    <2>1. ~Alerts(c) /\ state' = state
        BY <1>5 DEF MoveJoin, Alerts
    <2>2. \A p : ToAlert(p) => ToAlert(p)'
        BY <1>3, <2>1
    <2>3. CASE waiting' = waiting
        BY <2>1, <2>2, <2>3 DEF AllAwake
    <2>4. CASE pc[c] = "join_sleep"
        <3>1. \A p \in Process : p # joined[c] => waiting'[p] = waiting[p]
            BY <1>5, <2>4 DEF MoveJoin
        <3>2. state[joined[c]] = "RUNNABLE" \/ ToAlert(joined[c])
            BY <2>4 DEF JoinsInTime
        <3> QED
            BY <2>1, <2>2, <3>1, <3>2 DEF AllAwake
    <2> QED
        BY <1>5, <2>3, <2>4 DEF MoveJoin
<1>6. CASE MoveExit(c)
    <2>1. r \in Process /\ running_list' = running_list
          /\ \A p \in Process : p # r => state'[p] = state[p] /\ waiting'[p] = waiting[p]
        BY <1>r, <1>6 DEF MoveExit
    <2>2. ASSUME NEW p \in Process, p # r, state'[p] = "ZOMBIE", ~ToAlert(p)'
          PROVE  waiting'[p] = <<>>
        BY <1>3, <2>1, <2>2 DEF AllAwake
    <2>3. ASSUME ~ToAlert(r)' PROVE waiting'[r] = <<>>
        <3>1. ~Alerts(c)'
            BY <1>r, <2>1, <2>3 DEF ToAlert
        <3>2. CASE InExit(c) /\ ~Alerts(c) /\ waiting' = waiting
            <4>1. state[r] = "ZOMBIE" /\ ~ToAlert(r)
                BY <1>r, <1>3, <2>3, <3>2, ExitsApart
            <4> QED
                BY <2>1, <3>2, <4>1 DEF AllAwake
        <3> QED
            BY <1>r, <1>6, <3>1, <3>2 DEF MoveExit
    <2> QED
        BY <2>2, <2>3 DEF AllAwake
<1> QED
    BY <1>4, <1>5, <1>6, Moves

LEMMA RegisteredAlways == ThreadSpec => []Registered
<1>1. ThreadInit => Registered
    <2>1. ASSUME ThreadInit PROVE Registered
        <3>1. /\ \A p \in Process : state[p] = "UNUSED"
              /\ \A c \in Core : pc[c] = "boot"
              /\ table = {}
            BY <2>1 DEF ThreadInit, Init
        <3> QED
            BY <3>1 DEF Registered, InExit, ExitPc, ReadyPc
    <2> QED
        BY <2>1
<1>2. ThreadInv /\ Registered /\ [ThreadNext]_threadsVars => Registered'
    <2>1. ASSUME Registered, UNCHANGED threadsVars PROVE Registered'
        BY <2>1 DEF Registered, InExit, threadsVars, threadVars, dispatchVars, procVars,
                    coreVars
    <2> QED
        BY <2>1, RegisteredStep DEF ThreadNext
<1> QED
    BY <1>1, <1>2, ThreadsAlways, PTL DEF ThreadSpec

(* Where every joiner goes to sleep before the process it joins has woken  *)
(* its waiters, none is left behind: the look-up that proc_join makes      *)
(* before it locks the wait queue is all that is wrong with it.            *)
THEOREM NoneLeftInTime == ThreadSpec /\ []JoinsInTime => []NoWaiterLeft
<1>1. ThreadInit => AllAwake
    BY DEF ThreadInit, Init, AllAwake
<1>2. ThreadInv /\ AllAwake /\ JoinsInTime /\ [ThreadNext]_threadsVars => AllAwake'
    <2>1. ASSUME AllAwake, UNCHANGED threadsVars PROVE AllAwake'
        BY <2>1 DEF AllAwake, ToAlert, Alerts, InExit, threadsVars, threadVars, waitVars,
                    dispatchVars, procVars, coreVars
    <2> QED
        BY <2>1, AllAwakeStep DEF ThreadNext
<1>3. AllAwake /\ Registered => NoWaiterLeft
    BY ProcessFacts DEF AllAwake, Registered, ToAlert, Alerts, NoWaiterLeft
<1> QED
    BY <1>1, <1>2, <1>3, ThreadsAlways, RegisteredAlways, PTL DEF ThreadSpec

(* On one core whom a joiner has looked up is alive until it sleeps: the   *)
(* kernel runs with interrupts masked, and nobody else is running.         *)
JoinsAlive ==
    \A c \in Core :
        pc[c] \in {"join_lock", "join_sleep"} => state[joined[c]] = "RUNNABLE"

LEMMA AloneAlive ==
    ASSUME NumCores = 1, ThreadInv, Registered, JoinsAlive, NEW c \in Core, ThreadStep(c)
    PROVE  JoinsAlive'
<1>0. Core = {c}
    BY DEF Core
<1>1. SUFFICES ASSUME pc'[c] \in {"join_lock", "join_sleep"}
               PROVE  state'[joined'[c]] = "RUNNABLE"
    BY <1>0 DEF JoinsAlive
<1>2. MoveJoin(c)
    BY <1>1, Moves DEF MoveSched, MoveExit
<1>3. state' = state /\ ~InExit(c)
    BY <1>2 DEF MoveJoin
<1>4. CASE pc[c] = "user"
    <2>1. joined'[c] \in table
        BY <1>2, <1>4 DEF MoveJoin
    <2> QED
        BY <1>0, <1>3, <2>1 DEF Registered
<1>5. CASE pc[c] = "join_lock"
    BY <1>2, <1>3, <1>5 DEF MoveJoin, JoinsAlive
<1>6. CASE pc[c] = "join_sleep"
    BY <1>1, <1>2, <1>6 DEF MoveJoin
<1> QED
    BY <1>2, <1>4, <1>5, <1>6 DEF MoveJoin

(* On one core no joiner is left behind. *)
THEOREM NoneLeftOnOneCore == NumCores = 1 => (ThreadSpec => []NoWaiterLeft)
<1> SUFFICES ASSUME NumCores = 1 PROVE ThreadSpec => []NoWaiterLeft
    OBVIOUS
<1>1. ThreadInit => JoinsAlive
    BY DEF ThreadInit, Init, JoinsAlive
<1>2. ThreadInv /\ Registered /\ JoinsAlive /\ [ThreadNext]_threadsVars => JoinsAlive'
    <2>1. ASSUME JoinsAlive, UNCHANGED threadsVars PROVE JoinsAlive'
        BY <2>1 DEF JoinsAlive, threadsVars, threadVars, waitVars, dispatchVars, procVars,
                    coreVars
    <2> QED
        BY <2>1, AloneAlive DEF ThreadNext
<1>3. JoinsAlive => JoinsInTime
    BY DEF JoinsAlive, JoinsInTime
<1>4. ThreadSpec => []JoinsInTime
    BY <1>1, <1>2, <1>3, ThreadsAlways, RegisteredAlways, PTL DEF ThreadSpec
<1> QED
    BY <1>4, NoneLeftInTime, PTL

=============================================================================
