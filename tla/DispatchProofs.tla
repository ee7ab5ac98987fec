--------------------------- MODULE DispatchProofs ---------------------------
(***************************************************************************)
(* Proofs about Dispatch, for every number of cores, every set of threads  *)
(* and of affinity sets.  First part: the places of the processes, the     *)
(* locks and the lengths (PlaceInv).  Second part: affinity, next() and    *)
(* the pull (AffinityInv), and the refinement of AbstractScheduler.        *)
(***************************************************************************)
EXTENDS Dispatch, TLAPS

-----------------------------------------------------------------------------
(* What the inductive invariant needs besides.  ready() returns only to    *)
(* the points that called it, those of Threads and Semaphores included.    *)
ReturnPc == {"user", "next", "boot_root", "exit_alert", "sem_alert"}

LinkInv == \A c \in Core : pc[c] \in ReadyPc => link[c] \in ReturnPc

(* What a core carries or owns is a process, not the dummy of the boot. *)
HolderInv ==
    \A c \in Core :
        /\ Carries(c) => proc[c] \in Process
        /\ Owns(c) => running_list[c] \in Process

(* Held and queued processes exist, and wait at their own priority. *)
ExistInv ==
    /\ \A c \in Core : \A p \in Holds(c) : state[p] # "UNUSED"
    /\ \A q \in Core, i \in Priority : \A k \in 1 .. Len(tasks[q][i]) :
          state[At(q, i, k)] # "UNUSED" /\ prio(At(q, i, k)) = i

BaseInv == TypeOK /\ LinkInv /\ HolderInv

-----------------------------------------------------------------------------
LEMMA CoreFacts ==
    /\ \A c \in Core : c \in Int /\ 0 <= c /\ c < NumCores
    /\ \A i \in 0 .. NumCores : i < NumCores => i \in Core
    /\ 0 \in Core /\ 0 \in 0 .. NumCores
    /\ NumCores \in Nat
BY CoresAssumption DEF Core

LEMMA PriorityFacts ==
    /\ Priority = {IDLE, LOW, MED, HIGH}
    /\ IDLE = 0 /\ LOW = 1 /\ MED = 2 /\ HIGH = 3
    /\ \A p : prio(p) \in Priority
BY DEF Priority, IDLE, LOW, MED, HIGH, prio

LEMMA LabelFacts ==
    /\ "user" \in Label /\ "pick" \in Label /\ "rq_lock" \in Label
    /\ "rq_len" \in Label /\ "rq_add" \in Label /\ "next" \in Label
    /\ "next_scan" \in Label /\ "next_len" \in Label /\ "null" \in Label
    /\ "busiest" \in Label /\ "pull_scan" \in Label /\ "none" \in Label
    /\ "boot" \in Label /\ "boot_root" \in Label
    /\ ReturnPc \subseteq Label
    /\ "user" \in ReturnPc /\ "next" \in ReturnPc /\ "boot_root" \in ReturnPc
BY DEF Label, ReturnPc

LEMMA ProcessFacts ==
    /\ Thread \subseteq Process
    /\ \A c \in Core : Idle(c) \in IdleProcess /\ Root(c) \in RootProcess
    /\ IdleProcess \subseteq Process /\ RootProcess \subseteq Process
    /\ NoProcess \notin Process
    /\ Thread \cap IdleProcess = {} /\ RootProcess \cap IdleProcess = {}
    /\ \A c, d : Idle(c) = Idle(d) => c = d
<1>1. \A c, d : Idle(c) # Root(d) /\ Idle(c) # NoProcess /\ Root(c) # NoProcess
    BY DEF Idle, Root, NoProcess
<1>2. \A c, d : Idle(c) = Idle(d) => c = d
    BY DEF Idle
<1> QED
    BY <1>1, <1>2, ThreadAssumption DEF Process, IdleProcess, RootProcess

-----------------------------------------------------------------------------
(* Type correctness. *)
LEMMA CallReadyType ==
    ASSUME TypeOK, NEW c \in Core, NEW p \in Process, NEW l \in ReturnPc,
           CallReady(c, p, l)
    PROVE  /\ state' \in [Process -> {"UNUSED", "RUNNABLE", "ZOMBIE"}]
           /\ pc' \in [Core -> Label]
           /\ proc' \in [Core -> Process \cup {NoProcess}]
           /\ link' \in [Core -> Label]
           /\ cpu' \in [Core -> 0 .. NumCores]
           /\ pick' \in [Core -> Core]
           /\ count' \in [Core -> Int]
<1>1. state' \in [Process -> {"UNUSED", "RUNNABLE", "ZOMBIE"}]
    BY DEF TypeOK, CallReady
<1>2. pc' \in [Core -> Label] /\ link' \in [Core -> Label]
    BY LabelFacts DEF TypeOK, CallReady
<1>3. proc' \in [Core -> Process \cup {NoProcess}]
    BY DEF TypeOK, CallReady
<1>4. cpu' \in [Core -> 0 .. NumCores]
    BY CoreFacts DEF TypeOK, CallReady
<1>5. pick' \in [Core -> Core]
    BY CoreFacts DEF TypeOK, CallReady
<1>6. count' \in [Core -> Int]
    BY DEF TypeOK, CallReady, NoCount
<1> QED
    BY <1>1, <1>2, <1>3, <1>4, <1>5, <1>6

LEMMA InitType == Init => TypeOK
<1> SUFFICES ASSUME Init PROVE TypeOK
    OBVIOUS
<1>1. <<>> \in Seq(Process)
    OBVIOUS
<1>2. tasks \in [Core -> [Priority -> Seq(Process)]]
    BY <1>1 DEF Init
<1>3. ticks \in [Core -> 0 .. TickMod - 1]
    BY TicksAssumption DEF Init
<1>4. level \in [Core -> Priority]
    BY PriorityFacts DEF Init
<1>5. pc \in [Core -> Label] /\ link \in [Core -> Label]
    BY LabelFacts DEF Init
<1>6. /\ running_list \in [Core -> Process \cup {NoProcess}]
      /\ proc \in [Core -> Process \cup {NoProcess}]
    BY DEF Init
<1>7. /\ affinityset \in [Process -> SUBSET Core]
      /\ state \in [Process -> {"UNUSED", "RUNNABLE", "ZOMBIE"}]
    BY DEF Init
<1>8. /\ cpu \in [Core -> 0 .. NumCores] /\ pick \in [Core -> Core]
      /\ target \in [Core -> Core]
    BY CoreFacts DEF Init
<1>9. /\ length \in [Core -> Int] /\ count \in [Core -> Int]
      /\ rq_lock \in [Core -> BOOLEAN] /\ live_procs \in Nat
    BY DEF Init
<1> QED
    BY <1>2, <1>3, <1>4, <1>5, <1>6, <1>7, <1>8, <1>9 DEF TypeOK

LEMMA PickType ==
    ASSUME TypeOK, NEW c \in Core, PickInactive(c) \/ PickDecide(c) PROVE TypeOK'
<1>1. CASE PickInactive(c)
    <2>1. cpu[c] \in Core /\ cpu[c] + 1 \in 0 .. NumCores
        <3>1. cpu[c] \in 0 .. NumCores /\ NumCores \in Nat /\ cpu[c] < NumCores
            BY <1>1, CoresAssumption DEF TypeOK, PickInactive
        <3> QED
            BY <3>1 DEF Core
    <2>2. cpu' \in [Core -> 0 .. NumCores]
        BY <1>1, <2>1 DEF TypeOK, PickInactive
    <2>3. pick' \in [Core -> Core]
        <3>1. pick' = pick \/ pick' = [pick EXCEPT ![c] = cpu[c]]
            BY <1>1 DEF PickInactive
        <3> QED
            BY <2>1, <3>1 DEF TypeOK
    <2>4. count' \in [Core -> Int]
        <3>1. count' = count \/ count' = [count EXCEPT ![c] = length[cpu[c]]]
            BY <1>1 DEF PickInactive
        <3>2. length[cpu[c]] \in Int
            BY <2>1 DEF TypeOK
        <3> QED
            BY <3>1, <3>2 DEF TypeOK
    <2> QED
        BY <1>1, <2>2, <2>3, <2>4 DEF PickInactive, TypeOK, queueVars, procVars
<1>2. CASE PickDecide(c)
    <2>1. PickCpu(c) \in Core
        BY DEF PickCpu, TypeOK
    <2>2. target' \in [Core -> Core] /\ pc' \in [Core -> Label]
        BY <1>2, <2>1, LabelFacts DEF PickDecide, TypeOK
    <2> QED
        BY <1>2, <2>2 DEF PickDecide, TypeOK, queueVars, procVars, scanVars
<1> QED
    BY <1>1, <1>2

LEMMA QueueType ==
    ASSUME TypeOK, HolderInv, NEW c \in Core,
           ReadyLock(c) \/ ReadyLength(c) \/ ReadyAdd(c)
    PROVE  TypeOK'
<1>0. target[c] \in Core /\ link[c] \in Label
    BY DEF TypeOK
<1>1. CASE ReadyLock(c)
    <2>1. rq_lock' \in [Core -> BOOLEAN] /\ pc' \in [Core -> Label]
        BY <1>0, <1>1, LabelFacts DEF ReadyLock, TypeOK
    <2> QED
        BY <1>1, <2>1 DEF ReadyLock, TypeOK, procVars, scanVars
<1>2. CASE ReadyLength(c)
    <2>1. length' \in [Core -> Int]
        BY <1>0, <1>2 DEF ReadyLength, TypeOK
    <2>2. pc' \in [Core -> Label]
        BY <1>2, LabelFacts DEF ReadyLength, TypeOK
    <2> QED
        BY <1>2, <2>1, <2>2 DEF ReadyLength, TypeOK, procVars, scanVars
<1>3. CASE ReadyAdd(c)
    <2>0. proc[c] \in Process
        BY <1>3 DEF ReadyAdd, HolderInv, Carries, ReadyPc
    <2>1. tasks' \in [Core -> [Priority -> Seq(Process)]]
        <3>1. prio(proc[c]) \in Priority
            BY PriorityFacts
        <3>2. tasks[target[c]][prio(proc[c])] \in Seq(Process)
            BY <1>0, <3>1 DEF TypeOK
        <3>3. Append(tasks[target[c]][prio(proc[c])], proc[c]) \in Seq(Process)
            BY <2>0, <3>2
        <3> QED
            BY <1>0, <1>3, <3>1, <3>3 DEF ReadyAdd, TypeOK
    <2>2. rq_lock' \in [Core -> BOOLEAN] /\ pc' \in [Core -> Label]
        BY <1>0, <1>3 DEF ReadyAdd, TypeOK
    <2>3. /\ proc' \in [Core -> Process \cup {NoProcess}]
          /\ link' \in [Core -> Label]
        BY <1>3, LabelFacts DEF ReadyAdd, ReadyReturn, TypeOK
    <2>4. cpu' \in [Core -> 0 .. NumCores] /\ count' \in [Core -> Int]
        BY <1>3, CoreFacts DEF ReadyAdd, ReadyReturn, TypeOK
    <2>5. pick' \in [Core -> Core] /\ target' \in [Core -> Core]
        BY <1>3, CoreFacts DEF ReadyAdd, ReadyReturn, TypeOK
    <2> QED
        BY <1>3, <2>1, <2>2, <2>3, <2>4, <2>5 DEF ReadyAdd, TypeOK, procVars
<1> QED
    BY <1>1, <1>2, <1>3

LEMMA NextType ==
    ASSUME TypeOK, NEW c \in Core,
           NextLock(c) \/ NextTake(c) \/ NextMiss(c) \/ NextRun(c)
    PROVE  TypeOK'
<1>1. CASE NextLock(c)
    <2>1. rq_lock' \in [Core -> BOOLEAN] /\ pc' \in [Core -> Label]
        BY <1>1, LabelFacts DEF NextLock, TypeOK
    <2> QED
        BY <1>1, <2>1 DEF NextLock, TypeOK, procVars, scanVars
<1>2. CASE NextTake(c)
    <2>1. tasks[c][level[c]] \in Seq(Process) /\ level[c] \in Priority
        BY DEF TypeOK
    <2>2. /\ Head(tasks[c][level[c]]) \in Process
          /\ Tail(tasks[c][level[c]]) \in Seq(Process)
        BY <1>2, <2>1 DEF NextTake
    <2>3. tasks' \in [Core -> [Priority -> Seq(Process)]]
        BY <1>2, <2>1, <2>2 DEF NextTake, TypeOK
    <2>4. proc' \in [Core -> Process \cup {NoProcess}] /\ pc' \in [Core -> Label]
        BY <1>2, <2>2, LabelFacts DEF NextTake, TypeOK
    <2> QED
        BY <1>2, <2>3, <2>4 DEF NextTake, TypeOK, procVars, scanVars
<1>3. CASE NextMiss(c)
    <2>1. rq_lock' \in [Core -> BOOLEAN] /\ pc' \in [Core -> Label]
        BY <1>3, LabelFacts DEF NextMiss, TypeOK
    <2>2. level' \in [Core -> Priority]
        BY <1>3, PriorityFacts DEF NextMiss, TypeOK
    <2> QED
        BY <1>3, <2>1, <2>2 DEF NextMiss, TypeOK, procVars, scanVars
<1>4. CASE NextRun(c)
    <2>1. rq_lock' \in [Core -> BOOLEAN] /\ pc' \in [Core -> Label]
        BY <1>4, LabelFacts DEF NextRun, TypeOK
    <2>2. /\ running_list' \in [Core -> Process \cup {NoProcess}]
          /\ proc' \in [Core -> Process \cup {NoProcess}]
        BY <1>4 DEF NextRun, TypeOK
    <2>3. length' \in [Core -> Int] /\ level' \in [Core -> Priority]
        BY <1>4, PriorityFacts DEF NextRun, TypeOK
    <2> QED
        BY <1>4, <2>1, <2>2, <2>3 DEF NextRun, TypeOK, procVars, scanVars
<1> QED
    BY <1>1, <1>2, <1>3, <1>4

LEMMA SliceType ==
    ASSUME TypeOK, HolderInv, NEW c \in Core, TimeSlice(c)
    PROVE  TypeOK'
<1>0. pc[c] = "user" /\ running_list[c] \in Process
    BY DEF TimeSlice, HolderInv, Owns, NextPc, ReadyPc
<1>1. ticks' \in [Core -> 0 .. TickMod - 1]
    <2>1. ticks[c] \in 0 .. TickMod - 1 /\ TickMod \in Nat \ {0}
          /\ ClockDivd \in 1 .. TickMod - 1
        BY TicksAssumption DEF TypeOK
    <2>2. CASE ticks[c] = 1
        <3>1. ticks' = [ticks EXCEPT ![c] = ClockDivd]
            BY <2>2 DEF TimeSlice
        <3> QED
            BY <2>1, <3>1 DEF TypeOK
    <2>3. CASE ticks[c] # 1
        <3> DEFINE t == IF ticks[c] = 0 THEN TickMod - 1 ELSE ticks[c] - 1
        <3>1. ticks' = [ticks EXCEPT ![c] = t]
            BY <2>3 DEF TimeSlice
        <3>2. t \in 0 .. TickMod - 1
            BY <2>1
        <3> HIDE DEF t
        <3> QED
            BY <3>1, <3>2 DEF TypeOK
    <2> QED
        BY <2>2, <2>3
<1>2. CASE ticks[c] = 1
    <2>1. /\ pc' = [pc EXCEPT ![c] = "busiest"] /\ cpu' = [cpu EXCEPT ![c] = 0]
          /\ pick' = [pick EXCEPT ![c] = 0] /\ count' = [count EXCEPT ![c] = 0]
          /\ UNCHANGED <<proc, link, state>>
        BY <1>2 DEF TimeSlice
    <2>2. cpu' \in [Core -> 0 .. NumCores]
        BY <2>1, CoreFacts DEF TypeOK
    <2>3. pick' \in [Core -> Core] /\ count' \in [Core -> Int]
        BY <2>1, CoreFacts DEF TypeOK
    <2>4. pc' \in [Core -> Label]
        BY <2>1, LabelFacts DEF TypeOK
    <2> QED
        BY <1>1, <2>1, <2>2, <2>3, <2>4 DEF TimeSlice, TypeOK, queueVars
<1>3. CASE ticks[c] # 1
    <2>1. CallReady(c, running_list[c], "next")
        BY <1>3 DEF TimeSlice
    <2> QED
        BY <1>0, <1>1, <1>3, <2>1, CallReadyType, LabelFacts
        DEF TimeSlice, TypeOK, queueVars
<1> QED
    BY <1>2, <1>3

LEMMA PullType ==
    ASSUME TypeOK, HolderInv, NEW c \in Core,
           PullBusiest(c) \/ PullSkip(c) \/ PullLock(c) \/ PullScan(c)
    PROVE  TypeOK'
<1>0. pc[c] \in {"busiest", "pull_scan"} => running_list[c] \in Process
    BY DEF HolderInv, Owns, NextPc, ReadyPc
<1>1. CASE PullBusiest(c)
    <2>1. cpu[c] \in Core /\ cpu[c] + 1 \in 0 .. NumCores
        <3>1. cpu[c] \in 0 .. NumCores /\ NumCores \in Nat /\ cpu[c] < NumCores
            BY <1>1, CoresAssumption DEF TypeOK, PullBusiest
        <3> QED
            BY <3>1 DEF Core
    <2>2. cpu' \in [Core -> 0 .. NumCores]
        BY <1>1, <2>1 DEF TypeOK, PullBusiest
    <2>3. pick' \in [Core -> Core]
        <3>1. pick' = pick \/ pick' = [pick EXCEPT ![c] = cpu[c]]
            BY <1>1 DEF PullBusiest
        <3> QED
            BY <2>1, <3>1 DEF TypeOK
    <2>4. count' \in [Core -> Int]
        <3>1. count' = count \/ count' = [count EXCEPT ![c] = length[cpu[c]]]
            BY <1>1 DEF PullBusiest
        <3>2. length[cpu[c]] \in Int
            BY <2>1 DEF TypeOK
        <3> QED
            BY <3>1, <3>2 DEF TypeOK
    <2> QED
        BY <1>1, <2>2, <2>3, <2>4 DEF PullBusiest, TypeOK, queueVars, procVars
<1>2. CASE PullSkip(c)
    <2>1. CallReady(c, running_list[c], "next") /\ running_list[c] \in Process
        BY <1>0, <1>2 DEF PullSkip
    <2> QED
        BY <1>2, <2>1, CallReadyType, LabelFacts DEF PullSkip, TypeOK, queueVars
<1>3. CASE PullLock(c)
    <2>1. pick[c] \in Core
        BY DEF TypeOK
    <2>2. rq_lock' \in [Core -> BOOLEAN] /\ pc' \in [Core -> Label]
        BY <1>3, <2>1, LabelFacts DEF PullLock, TypeOK
    <2>3. target' \in [Core -> Core]
        BY <1>3, <2>1 DEF PullLock, TypeOK
    <2> QED
        BY <1>3, <2>2, <2>3 DEF PullLock, TypeOK, procVars, scanVars
<1>4. CASE PullScan(c)
    <2>1. CallReady(c, running_list[c], "next") /\ running_list[c] \in Process
        BY <1>0, <1>4 DEF PullScan
    <2>2. rq_lock' \in [Core -> BOOLEAN] /\ target' \in [Core -> Core]
        BY <1>4, CoreFacts DEF PullScan, TypeOK
    <2> QED
        BY <1>4, <2>1, <2>2, CallReadyType, LabelFacts DEF PullScan, TypeOK
<1> QED
    BY <1>1, <1>2, <1>3, <1>4

LEMMA CreateType ==
    ASSUME TypeOK, NEW c \in Core, NEW p \in Process, NEW m \in SUBSET Core,
           NEW l \in ReturnPc, ProcCreate(c, p, m, l),
           UNCHANGED <<queueVars, ticks, running_list, target, level>>
    PROVE  TypeOK'
<1>1. CallReady(c, p, l)
    BY DEF ProcCreate
<1>2. affinityset' \in [Process -> SUBSET Core] /\ live_procs' \in Nat
    BY DEF ProcCreate, TypeOK
<1> QED
    BY <1>1, <1>2, CallReadyType DEF TypeOK, queueVars

LEMMA SysCallType ==
    ASSUME TypeOK, HolderInv, NEW c \in Core, SysCall(c) PROVE TypeOK'
<1>1. CASE Yield(c)
    <2>1. CallReady(c, running_list[c], "next") /\ running_list[c] \in Process
        BY <1>1 DEF Yield, HolderInv, Owns, NextPc, ReadyPc
    <2> QED
        BY <1>1, <2>1, CallReadyType, LabelFacts DEF Yield, TypeOK, queueVars
<1>2. ASSUME NEW m \in Masks \ {{}}, SetAffinity(c, m) PROVE TypeOK'
    <2>1. m \in SUBSET Core /\ running_list[c] \in Process
        BY <1>2, MasksAssumption, ProcessFacts DEF SetAffinity
    <2>2. affinityset' \in [Process -> SUBSET Core]
        BY <1>2, <2>1 DEF SetAffinity, TypeOK
    <2>3. CASE c \in m
        <3>1. CallReady(c, running_list[c], "next")
            BY <1>2, <2>3 DEF SetAffinity
        <3> QED
            BY <1>2, <2>1, <2>2, <3>1, CallReadyType, LabelFacts
            DEF SetAffinity, TypeOK, queueVars
    <2>4. CASE c \notin m
        BY <1>2, <2>2, <2>4 DEF SetAffinity, TypeOK, queueVars, scanVars
    <2> QED
        BY <2>3, <2>4
<1>3. ASSUME NEW t \in Thread, NEW m \in Masks, PthreadCreate(c, t, m)
      PROVE  TypeOK'
    BY <1>3, CreateType, MasksAssumption, ProcessFacts, LabelFacts DEF PthreadCreate
<1> QED
    BY <1>1, <1>2, <1>3 DEF SysCall

LEMMA BootType ==
    ASSUME TypeOK, NEW c \in Core, Boot(c) PROVE TypeOK'
<1>1. {c} \in SUBSET Core /\ Idle(c) \in Process /\ Root(c) \in Process
    BY ProcessFacts
<1> QED
    BY <1>1, CreateType, LabelFacts DEF Boot, BootIdle, BootRoot

-----------------------------------------------------------------------------
(* Every step of core c leaves the locals of the other cores alone. *)
Others(c) ==
    \A d \in Core \ {c} :
        /\ pc'[d] = pc[d] /\ proc'[d] = proc[d] /\ link'[d] = link[d]
        /\ running_list'[d] = running_list[d] /\ target'[d] = target[d]
        /\ cpu'[d] = cpu[d] /\ pick'[d] = pick[d] /\ count'[d] = count[d]
        /\ level'[d] = level[d]

LEMMA OthersKeep ==
    ASSUME NEW c \in Core, Others(c), NEW d \in Core \ {c}
    PROVE  /\ Holds(d)' = Holds(d)
           /\ Carries(d)' <=> Carries(d)
           /\ Owns(d)' <=> Owns(d)
           /\ \A q : InQueueSection(d, q)' <=> InQueueSection(d, q)
           /\ \A q : HalfDone(d, q)' <=> HalfDone(d, q)
BY DEF Others, Holds, Carries, Owns, InQueueSection, HalfDone

(* What BaseInv says of core c beyond the types. *)
Mine(c) ==
    /\ pc[c] \in ReadyPc => link[c] \in ReturnPc
    /\ Carries(c) => proc[c] \in Process
    /\ Owns(c) => running_list[c] \in Process

LEMMA BaseOfMine ==
    ASSUME NEW c \in Core, BaseInv, TypeOK', Others(c), Mine(c)'
    PROVE  BaseInv'
<1>1. \A d \in Core \ {c} : Mine(d)'
    <2>1. \A d \in Core : Mine(d)
        BY DEF BaseInv, LinkInv, HolderInv, Mine
    <2>2. ASSUME NEW d \in Core \ {c} PROVE Mine(d)'
        BY <2>1, OthersKeep DEF Mine, Others
    <2> QED
        BY <2>2
<1> QED
    BY <1>1 DEF BaseInv, LinkInv, HolderInv, Mine

(* What ready(p) does to the core that calls it. *)
LEMMA CallReadyEffect ==
    ASSUME TypeOK, NEW c \in Core, NEW p \in Process, NEW l,
           CallReady(c, p, l)
    PROVE  /\ pc'[c] = "pick" /\ proc'[c] = p /\ link'[c] = l
           /\ cpu'[c] = 0 /\ pick'[c] = 0 /\ count'[c] = NoCount
           /\ state' = [state EXCEPT ![p] = "RUNNABLE"]
           /\ \A d \in Core \ {c} :
                /\ pc'[d] = pc[d] /\ proc'[d] = proc[d] /\ link'[d] = link[d]
                /\ cpu'[d] = cpu[d] /\ pick'[d] = pick[d] /\ count'[d] = count[d]
BY DEF CallReady, TypeOK

(* A core that gives its current process to ready() and goes on in next(). *)
LEMMA HandOver ==
    ASSUME BaseInv, NEW c \in Core, pc[c] \in {"user", "busiest", "pull_scan"},
           CallReady(c, running_list[c], "next"), UNCHANGED running_list
    PROVE  /\ running_list[c] \in Process
           /\ Holds(c) = {running_list[c]} /\ Holds(c)' = Holds(c)
           /\ ~(Carries(c) /\ Owns(c))' /\ Mine(c)'
           /\ state' = [state EXCEPT ![running_list[c]] = "RUNNABLE"]
<1>1. Owns(c) /\ ~Carries(c)
    BY DEF Owns, Carries, ReadyPc, NextPc
<1>2. running_list[c] \in Process
    BY <1>1 DEF BaseInv, HolderInv
<1>3. pc'[c] = "pick" /\ proc'[c] = running_list[c] /\ link'[c] = "next"
    BY <1>2, CallReadyEffect DEF BaseInv
<1>4. Carries(c)' /\ ~Owns(c)'
    BY <1>3 DEF Carries, Owns, ReadyPc, LetsGo
<1>5. Holds(c) = {running_list[c]}
    BY <1>1, <1>2 DEF Holds
<1>6. Holds(c)' = {running_list[c]}
    BY <1>2, <1>3, <1>4 DEF Holds
<1>7. Mine(c)'
    BY <1>2, <1>3, <1>4, LabelFacts DEF Mine
<1> QED
    BY <1>2, <1>4, <1>5, <1>6, <1>7 DEF CallReady

-----------------------------------------------------------------------------
(* Most steps move no process: core c holds what it held, no list changes, *)
(* and ready() marks only a process that c holds.                          *)
Keep(c) ==
    /\ Others(c) /\ Mine(c)'
    /\ tasks' = tasks
    /\ Holds(c)' = Holds(c)
    /\ (Carries(c) /\ Owns(c))' => proc'[c] # running_list'[c]
    /\ \A p \in Process : state'[p] # state[p] =>
                              p \in Holds(c) /\ state'[p] = "RUNNABLE"

LEMMA HandOverKeep ==
    ASSUME BaseInv, NEW c \in Core, pc[c] \in {"user", "busiest", "pull_scan"},
           CallReady(c, running_list[c], "next"),
           UNCHANGED <<tasks, running_list, level>>,
           \A d \in Core \ {c} : target'[d] = target[d]
    PROVE  Keep(c)
<1>1. /\ running_list[c] \in Process
      /\ Holds(c) = {running_list[c]} /\ Holds(c)' = Holds(c)
      /\ ~(Carries(c) /\ Owns(c))' /\ Mine(c)'
      /\ state' = [state EXCEPT ![running_list[c]] = "RUNNABLE"]
    BY HandOver
<1>2. Others(c)
    BY <1>1, CallReadyEffect DEF Others, BaseInv
<1>3. \A p \in Process : state'[p] # state[p] =>
                             p \in Holds(c) /\ state'[p] = "RUNNABLE"
    BY <1>1 DEF BaseInv, TypeOK
<1> QED
    BY <1>1, <1>2, <1>3 DEF Keep

LEMMA ReadyKeep ==
    ASSUME BaseInv, OnePlace, NEW c \in Core,
           PickInactive(c) \/ PickDecide(c) \/ ReadyLock(c) \/ ReadyLength(c)
    PROVE  Keep(c)
<1>1. Others(c)
    <2>1. CASE PickInactive(c)
        BY <2>1 DEF BaseInv, TypeOK, PickInactive, Others, queueVars, procVars
    <2>2. CASE PickDecide(c)
        BY <2>2 DEF BaseInv, TypeOK, PickDecide, Others, queueVars, procVars, scanVars
    <2>3. CASE ReadyLock(c)
        BY <2>3 DEF BaseInv, TypeOK, ReadyLock, Others, procVars, scanVars
    <2>4. CASE ReadyLength(c)
        BY <2>4 DEF BaseInv, TypeOK, ReadyLength, Others, procVars, scanVars
    <2> QED
        BY <2>1, <2>2, <2>3, <2>4
<1>2. /\ pc[c] \in ReadyPc /\ pc'[c] \in ReadyPc
      /\ UNCHANGED <<tasks, state, proc, link, running_list>>
    <2>1. CASE PickInactive(c)
        BY <2>1 DEF PickInactive, ReadyPc, queueVars, procVars
    <2>2. CASE PickDecide(c)
        BY <2>2 DEF BaseInv, TypeOK, PickDecide, ReadyPc, queueVars, procVars
    <2>3. CASE ReadyLock(c)
        BY <2>3 DEF BaseInv, TypeOK, ReadyLock, ReadyPc, procVars
    <2>4. CASE ReadyLength(c)
        BY <2>4 DEF BaseInv, TypeOK, ReadyLength, ReadyPc, procVars
    <2> QED
        BY <2>1, <2>2, <2>3, <2>4
<1>3. (Carries(c)' <=> Carries(c)) /\ (Owns(c)' <=> Owns(c))
    BY <1>2 DEF Carries, Owns, ReadyPc, NextPc
<1>4. Holds(c)' = Holds(c)
    BY <1>2, <1>3 DEF Holds
<1>5. Mine(c)'
    BY <1>2, <1>3 DEF Mine, BaseInv, LinkInv, HolderInv
<1> QED
    BY <1>1, <1>2, <1>3, <1>4, <1>5 DEF Keep, OnePlace

LEMMA NextKeep ==
    ASSUME BaseInv, NEW c \in Core, NextLock(c) \/ NextMiss(c) \/ NextRun(c)
    PROVE  Keep(c)
<1>1. Others(c)
    <2>1. CASE NextLock(c)
        BY <2>1 DEF BaseInv, TypeOK, NextLock, Others, procVars, scanVars
    <2>2. CASE NextMiss(c)
        BY <2>2 DEF BaseInv, TypeOK, NextMiss, Others, procVars, scanVars
    <2>3. CASE NextRun(c)
        BY <2>3 DEF BaseInv, TypeOK, NextRun, Others, procVars, scanVars
    <2> QED
        BY <2>1, <2>2, <2>3
<1>2. UNCHANGED <<tasks, state>>
    BY DEF NextLock, NextMiss, NextRun, procVars
<1>3. CASE NextLock(c) \/ NextMiss(c)
    <2>1. pc[c] \in {"next", "next_scan"} /\ pc'[c] \in {"next", "next_scan", "null"}
        <3>1. CASE NextLock(c)
            BY <3>1 DEF BaseInv, TypeOK, NextLock
        <3>2. CASE NextMiss(c)
            BY <3>2 DEF BaseInv, TypeOK, NextMiss
        <3> QED
            BY <1>3, <3>1, <3>2
    <2>2. ~Carries(c) /\ ~Owns(c) /\ ~Carries(c)' /\ ~Owns(c)'
        BY <2>1 DEF Carries, Owns, ReadyPc, NextPc
    <2>3. Holds(c) = {} /\ Holds(c)' = {}
        BY <2>2 DEF Holds
    <2>4. Mine(c)'
        BY <2>1, <2>2 DEF Mine, ReadyPc
    <2> QED
        BY <1>1, <1>2, <2>2, <2>3, <2>4 DEF Keep
<1>4. CASE NextRun(c)
    <2>1. /\ pc[c] = "next_len" /\ pc'[c] = "user"
          /\ running_list'[c] = proc[c]
        BY <1>4 DEF BaseInv, TypeOK, NextRun
    <2>2. Carries(c) /\ ~Owns(c) /\ ~Carries(c)' /\ Owns(c)'
        BY <2>1 DEF Carries, Owns, ReadyPc, NextPc
    <2>3. Holds(c)' = Holds(c)
        BY <2>1, <2>2 DEF Holds
    <2>4. Mine(c)'
        BY <2>1, <2>2 DEF Mine, ReadyPc, BaseInv, HolderInv
    <2> QED
        BY <1>1, <1>2, <2>2, <2>3, <2>4 DEF Keep
<1> QED
    BY <1>3, <1>4

LEMMA PullKeep ==
    ASSUME BaseInv, NEW c \in Core,
           PullBusiest(c) \/ PullSkip(c) \/ PullLock(c) \/ PullScan(c)
    PROVE  Keep(c)
<1>1. CASE PullBusiest(c) \/ PullLock(c)
    <2>1. Others(c)
        <3>1. CASE PullBusiest(c)
            BY <3>1 DEF BaseInv, TypeOK, PullBusiest, Others, queueVars, procVars
        <3>2. CASE PullLock(c)
            BY <3>2 DEF BaseInv, TypeOK, PullLock, Others, procVars, scanVars
        <3> QED
            BY <1>1, <3>1, <3>2
    <2>2. /\ pc[c] = "busiest" /\ pc'[c] \in {"busiest", "pull_scan"}
          /\ UNCHANGED <<tasks, state, running_list>>
        <3>1. CASE PullBusiest(c)
            BY <3>1 DEF PullBusiest, queueVars, procVars
        <3>2. CASE PullLock(c)
            BY <3>2 DEF BaseInv, TypeOK, PullLock, procVars
        <3> QED
            BY <1>1, <3>1, <3>2
    <2>3. ~Carries(c) /\ Owns(c) /\ ~Carries(c)' /\ Owns(c)'
        BY <2>2 DEF Carries, Owns, ReadyPc, NextPc
    <2>4. Holds(c)' = Holds(c)
        BY <2>2, <2>3 DEF Holds
    <2>5. Mine(c)'
        BY <2>2, <2>3 DEF Mine, ReadyPc, BaseInv, HolderInv
    <2> QED
        BY <2>1, <2>2, <2>3, <2>4, <2>5 DEF Keep
<1>2. CASE PullSkip(c)
    BY <1>2, HandOverKeep DEF PullSkip, queueVars
<1>3. CASE PullScan(c)
    <2>1. \A d \in Core \ {c} : target'[d] = target[d]
        BY <1>3 DEF PullScan, BaseInv, TypeOK
    <2> QED
        BY <1>3, <2>1, HandOverKeep DEF PullScan
<1> QED
    BY <1>1, <1>2, <1>3

LEMMA UserKeep ==
    ASSUME BaseInv, NEW c \in Core,
           TimeSlice(c) \/ Yield(c) \/ \E m \in Masks : SetAffinity(c, m)
    PROVE  Keep(c)
<1>1. CASE CallReady(c, running_list[c], "next")
    <2>1. /\ pc[c] = "user"
          /\ UNCHANGED <<tasks, running_list, level, target>>
        BY DEF TimeSlice, Yield, SetAffinity, queueVars
    <2> QED
        BY <1>1, <2>1, HandOverKeep
<1>2. CASE ~CallReady(c, running_list[c], "next")
    <2>0. pc[c] = "user"
        BY DEF TimeSlice, Yield, SetAffinity
    <2>1. ASSUME TimeSlice(c)
          PROVE  /\ Others(c) /\ pc'[c] \in {"user", "busiest"}
                 /\ UNCHANGED <<tasks, state, running_list>>
        <3>1. /\ pc' = [pc EXCEPT ![c] = "busiest"] /\ cpu' = [cpu EXCEPT ![c] = 0]
              /\ pick' = [pick EXCEPT ![c] = 0] /\ count' = [count EXCEPT ![c] = 0]
              /\ UNCHANGED <<proc, link, state>>
              /\ UNCHANGED <<tasks, running_list, target, level>>
            BY <1>2, <2>1 DEF TimeSlice, queueVars
        <3>2. Others(c)
            BY <3>1 DEF BaseInv, TypeOK, Others
        <3>3. pc'[c] = "busiest"
            BY <3>1 DEF BaseInv, TypeOK
        <3> QED
            BY <3>1, <3>2, <3>3
    <2>2. ASSUME \E m \in Masks : SetAffinity(c, m)
          PROVE  /\ Others(c) /\ pc'[c] \in {"user", "busiest"}
                 /\ UNCHANGED <<tasks, state, running_list>>
        <3>1. UNCHANGED <<pc, cpu, pick, count, proc, link, state, tasks,
                          running_list, target, level>>
            BY <1>2, <2>2 DEF SetAffinity, queueVars, scanVars
        <3> QED
            BY <2>0, <3>1 DEF Others
    <2>3. ~Yield(c)
        BY <1>2 DEF Yield
    <2>4. /\ Others(c) /\ pc'[c] \in {"user", "busiest"}
          /\ UNCHANGED <<tasks, state, running_list>>
        BY <2>0, <2>1, <2>2, <2>3
    <2>5. ~Carries(c) /\ Owns(c) /\ ~Carries(c)' /\ Owns(c)'
        BY <2>0, <2>4 DEF Carries, Owns, ReadyPc, NextPc
    <2>6. Holds(c)' = Holds(c)
        BY <2>4, <2>5 DEF Holds
    <2>7. Mine(c)'
        BY <2>4, <2>5 DEF Mine, ReadyPc, BaseInv, HolderInv
    <2> QED
        BY <2>4, <2>5, <2>6, <2>7 DEF Keep
<1> QED
    BY <1>1, <1>2

(* What is said of the places of processes. *)
Placed == OnePlace /\ ExistInv

Somewhere(p) == Queued(p) \/ \E c \in Core : p \in Holds(c)

(* What a step of core c does with the processes: it makes one RUNNABLE    *)
(* only when it has it, new ones come into a place and none leaves, a list *)
(* gets only what c carries and c only what is new or in a list.           *)
Flow(c) ==
    /\ \A p \in Process : state'[p] # state[p] =>
          /\ state'[p] = "RUNNABLE" /\ Somewhere(p)'
          /\ p \in Holds(c) \/ state[p] = "UNUSED"
    /\ \A p \in Process : Somewhere(p) => Somewhere(p)'
    /\ \A p \in Process : Somewhere(p)' => Somewhere(p) \/ state[p] = "UNUSED"
    /\ \A p \in Process : Queued(p)' => Queued(p) \/ (Carries(c) /\ p = proc[c])
    /\ \A p \in Holds(c)' : p \in Holds(c) \/ Queued(p) \/ state[p] = "UNUSED"

LEMMA FlowLosesNone ==
    ASSUME NoLostProcess, NEW c \in Core, Flow(c) PROVE NoLostProcess'
BY DEF NoLostProcess, Flow, Somewhere

LEMMA KeepPlaced ==
    ASSUME TypeOK, Placed, NEW c \in Core, Keep(c)
    PROVE  Placed' /\ Flow(c)
<1>1. \A d \in Core : Holds(d)' = Holds(d)
    BY OthersKeep DEF Keep
<1>2. \A p : Queued(p)' <=> Queued(p)
    BY DEF Keep, Queued, At
<1>3. \A d \in Core : (Carries(d) /\ Owns(d))' => proc'[d] # running_list'[d]
    BY OthersKeep DEF Keep, Placed, OnePlace, Others
<1>4. OnePlace'
    BY <1>1, <1>2, <1>3 DEF Placed, OnePlace, Keep, At
<1>5. Flow(c)
    <2>1. \A p : Somewhere(p)' <=> Somewhere(p)
        BY <1>1, <1>2 DEF Somewhere
    <2>2. \A p \in Holds(c) : Somewhere(p)
        BY DEF Somewhere
    <2> QED
        BY <1>1, <1>2, <2>1, <2>2 DEF Keep, Flow
<1>6. \A p \in Process : state[p] # "UNUSED" => state'[p] # "UNUSED"
    BY DEF Keep
<1>7. \A d \in Core : \A p \in Holds(d)' : state'[p] # "UNUSED"
    BY <1>1, <1>6 DEF Placed, ExistInv, Holds
<1>8. \A q \in Core, i \in Priority : \A k \in 1 .. Len(tasks[q][i]) :
         At(q, i, k) \in Process
    BY DEF TypeOK, At
<1>9. ExistInv'
    BY <1>6, <1>7, <1>8 DEF Placed, ExistInv, Keep, At
<1> QED
    BY <1>4, <1>5, <1>9 DEF Placed

-----------------------------------------------------------------------------
(* What the removal of the head does to a sequence. *)
LEMMA TailFacts ==
    ASSUME NEW S, NEW s \in Seq(S), s # <<>>
    PROVE  /\ Tail(s) \in Seq(S) /\ Len(Tail(s)) = Len(s) - 1
           /\ Len(s) \in Nat /\ Len(s) >= 1
           /\ Head(s) \in S /\ Head(s) = s[1]
           /\ \A k \in 1 .. Len(s) - 1 : Tail(s)[k] = s[k + 1]
<1>1. Tail(s) \in Seq(S) /\ Len(Tail(s)) = Len(s) - 1
    OBVIOUS
<1>2. Len(s) \in Nat /\ Len(s) >= 1
    OBVIOUS
<1>3. Head(s) = s[1] /\ Head(s) \in S
    OBVIOUS
<1>4. \A k \in 1 .. Len(s) - 1 : Tail(s)[k] = s[k + 1]
    OBVIOUS
<1> QED
    BY <1>1, <1>2, <1>3, <1>4

(* The positions of the lists after an insertion and after a removal. *)
LEMMA Positions ==
    ASSUME TypeOK, NEW q \in Core, NEW i \in Priority
    PROVE  /\ tasks[q][i] \in Seq(Process) /\ Len(tasks[q][i]) \in Nat
           /\ \A k \in 1 .. Len(tasks[q][i]) : At(q, i, k) \in Process
BY DEF TypeOK, At

LEMMA Appended ==
    ASSUME TypeOK, NEW q \in Core, NEW i \in Priority, NEW p \in Process,
           tasks'[q][i] = Append(tasks[q][i], p),
           \A r \in Core, j \in Priority : r # q \/ j # i =>
              tasks'[r][j] = tasks[r][j]
    PROVE  /\ Len(tasks'[q][i]) = Len(tasks[q][i]) + 1
           /\ \A r \in Core, j \in Priority : \A k \in 1 .. Len(tasks[r][j]) :
                 /\ k \in 1 .. Len(tasks'[r][j])
                 /\ At(r, j, k)' = At(r, j, k)
           /\ \A r \in Core, j \in Priority : \A k \in 1 .. Len(tasks'[r][j]) :
                 \/ k \in 1 .. Len(tasks[r][j]) /\ At(r, j, k)' = At(r, j, k)
                 \/ r = q /\ j = i /\ k = Len(tasks[q][i]) + 1 /\ At(r, j, k)' = p
           /\ \E n \in 1 .. Len(tasks'[q][i]) : At(q, i, n)' = p
<1>1. PICK s \in Seq(Process) : s = tasks[q][i] /\ Len(s) \in Nat
    BY Positions
<1>a. PICK t : t = Append(s, p)
    OBVIOUS
<1>2. /\ t = Append(s, p) /\ Len(t) = Len(s) + 1 /\ t[Len(s) + 1] = p
      /\ \A k \in 1 .. Len(s) : t[k] = s[k]
    BY <1>1, <1>a
<1>3. tasks'[q][i] = t
    BY <1>1, <1>2
<1>4. \A r \in Core, j \in Priority : r # q \/ j # i => tasks'[r][j] = tasks[r][j]
    OBVIOUS
<1>5. Len(s) + 1 \in 1 .. Len(t)
    BY <1>1, <1>2
<1>6. \A k \in 1 .. Len(t) : k \in 1 .. Len(s) \/ k = Len(s) + 1
    BY <1>1, <1>2
<1>7. \A k \in 1 .. Len(s) : k \in 1 .. Len(t)
    BY <1>1, <1>2
<1>8. ASSUME NEW r \in Core, NEW j \in Priority, NEW k \in 1 .. Len(tasks[r][j])
      PROVE  k \in 1 .. Len(tasks'[r][j]) /\ At(r, j, k)' = At(r, j, k)
    <2>1. CASE r = q /\ j = i
        BY <1>1, <1>2, <1>3, <1>7, <2>1 DEF At
    <2>2. CASE r # q \/ j # i
        BY <1>4, <2>2 DEF At
    <2> QED
        BY <2>1, <2>2
<1>9. ASSUME NEW r \in Core, NEW j \in Priority, NEW k \in 1 .. Len(tasks'[r][j])
      PROVE  \/ k \in 1 .. Len(tasks[r][j]) /\ At(r, j, k)' = At(r, j, k)
             \/ r = q /\ j = i /\ k = Len(tasks[q][i]) + 1 /\ At(r, j, k)' = p
    <2>1. CASE r = q /\ j = i
        BY <1>1, <1>2, <1>3, <1>6, <2>1 DEF At
    <2>2. CASE r # q \/ j # i
        BY <1>4, <2>2 DEF At
    <2> QED
        BY <2>1, <2>2
<1>10. Len(tasks'[q][i]) = Len(tasks[q][i]) + 1
    BY <1>1, <1>2, <1>3
<1>11. PICK n : n = Len(s) + 1 /\ n \in 1 .. Len(t) /\ t[n] = p
    BY <1>2, <1>5
<1>12. \E k \in 1 .. Len(tasks'[q][i]) : At(q, i, k)' = p
    BY <1>3, <1>11 DEF At
<1> QED
    BY <1>8, <1>9, <1>10, <1>12

LEMMA Removed ==
    ASSUME TypeOK, NEW q \in Core, NEW i \in Priority, tasks[q][i] # <<>>,
           tasks' = [tasks EXCEPT ![q][i] = Tail(@)]
    PROVE  /\ \A r \in Core, j \in Priority : r # q \/ j # i =>
                 tasks'[r][j] = tasks[r][j]
           /\ Len(tasks'[q][i]) = Len(tasks[q][i]) - 1
           /\ 1 \in 1 .. Len(tasks[q][i]) /\ Head(tasks[q][i]) = At(q, i, 1)
           /\ \A k \in 1 .. Len(tasks'[q][i]) :
                 /\ k + 1 \in 1 .. Len(tasks[q][i])
                 /\ At(q, i, k)' = At(q, i, k + 1)
           /\ \A k \in 1 .. Len(tasks[q][i]) : k # 1 =>
                 k - 1 \in 1 .. Len(tasks'[q][i]) /\ At(q, i, k - 1)' = At(q, i, k)
<1>1. PICK s \in Seq(Process) : s = tasks[q][i] /\ Len(s) \in Nat
    BY Positions
<1>a. s # <<>>
    BY <1>1
<1>b. PICK t : t = Tail(s)
    OBVIOUS
<1>2. /\ t = Tail(s) /\ Len(t) = Len(s) - 1 /\ Len(s) >= 1 /\ Head(s) = s[1]
      /\ \A k \in 1 .. Len(s) - 1 : t[k] = s[k + 1]
    BY <1>1, <1>a, <1>b, TailFacts
<1>3. tasks'[q][i] = t
    BY <1>1, <1>2 DEF TypeOK
<1>4. \A r \in Core, j \in Priority : r # q \/ j # i => tasks'[r][j] = tasks[r][j]
    BY DEF TypeOK
<1>5. \A k \in 1 .. Len(t) : k + 1 \in 1 .. Len(s) /\ t[k] = s[k + 1]
    BY <1>1, <1>2
<1>6. \A k \in 1 .. Len(s) : k # 1 => k - 1 \in 1 .. Len(t) /\ t[k - 1] = s[k]
    BY <1>1, <1>2
<1>7. 1 \in 1 .. Len(s)
    BY <1>1, <1>2
<1>8. ASSUME NEW k \in 1 .. Len(tasks'[q][i])
      PROVE  k + 1 \in 1 .. Len(tasks[q][i]) /\ At(q, i, k)' = At(q, i, k + 1)
    BY <1>1, <1>3, <1>5 DEF At
<1>9. ASSUME NEW k \in 1 .. Len(tasks[q][i]), k # 1
      PROVE  k - 1 \in 1 .. Len(tasks'[q][i]) /\ At(q, i, k - 1)' = At(q, i, k)
    BY <1>1, <1>3, <1>6, <1>9 DEF At
<1>10. Len(tasks'[q][i]) = Len(tasks[q][i]) - 1 /\ 1 \in 1 .. Len(tasks[q][i])
    BY <1>1, <1>2, <1>3, <1>7
<1>11. Head(tasks[q][i]) = At(q, i, 1)
    BY <1>1, <1>2 DEF At
<1> QED
    BY <1>4, <1>8, <1>9, <1>10, <1>11

-----------------------------------------------------------------------------
(* The three steps that move a process: proc_create, the insertion of      *)
(* ready() and the removal of next().                                      *)
LEMMA CreatePlaced ==
    ASSUME TypeOK, Placed, NEW c \in Core, NEW p \in Process, NEW m,
           NEW l, ProcCreate(c, p, m, l),
           UNCHANGED <<tasks, running_list, target, level>>,
           ~Carries(c), Owns(c) <=> l \notin LetsGo, Mine(c), l \in ReturnPc
    PROVE  Placed' /\ Others(c) /\ Mine(c)' /\ Flow(c)
<1>1. state[p] = "UNUSED" /\ CallReady(c, p, l)
    BY DEF ProcCreate
<1>2. /\ pc'[c] = "pick" /\ proc'[c] = p /\ link'[c] = l
      /\ state' = [state EXCEPT ![p] = "RUNNABLE"] /\ Others(c)
    BY <1>1, CallReadyEffect DEF Others
<1>3. Carries(c)' /\ (Owns(c)' <=> Owns(c))
    BY <1>2 DEF Carries, Owns, ReadyPc, NextPc
<1>4. Holds(c)' = Holds(c) \cup {p}
    BY <1>2, <1>3 DEF Holds
<1>5. /\ \A d \in Core : p \notin Holds(d)
      /\ ~Queued(p)
    BY <1>1 DEF Placed, ExistInv, Queued
<1>6. \A d \in Core \ {c} : Holds(d)' = Holds(d)
    BY <1>2, OthersKeep
<1>7. \A r : Queued(r)' <=> Queued(r)
    BY DEF Queued, At
<1>8. OnePlace'
    <2>1. \A d, e \in Core : d # e => (Holds(d) \cap Holds(e))' = {}
        BY <1>4, <1>5, <1>6 DEF Placed, OnePlace
    <2>2. \A d \in Core : (Carries(d) /\ Owns(d))' => proc'[d] # running_list'[d]
        <3>1. ASSUME Owns(c)' PROVE p # running_list'[c]
            BY <1>3, <1>5, <3>1 DEF Holds
        <3> QED
            BY <1>2, <3>1, OthersKeep DEF Placed, OnePlace, Others
    <2>3. \A d \in Core : \A r \in Holds(d)' : ~Queued(r)'
        BY <1>4, <1>5, <1>6, <1>7 DEF Placed, OnePlace
    <2> QED
        BY <2>1, <2>2, <2>3 DEF Placed, OnePlace, At
<1>9. Flow(c)
    <2>1. \A r \in Process : r # p => state'[r] = state[r]
        BY <1>2 DEF TypeOK
    <2>2. state'[p] = "RUNNABLE"
        BY <1>2 DEF TypeOK
    <2>3. \A r : Somewhere(r)' <=> Somewhere(r) \/ r = p
        BY <1>4, <1>6, <1>7 DEF Somewhere
    <2> QED
        BY <1>1, <1>4, <1>7, <2>1, <2>2, <2>3 DEF Flow
<1>10. ExistInv'
    <2>1. \A r \in Process : state[r] # "UNUSED" => state'[r] # "UNUSED"
        BY <1>2 DEF TypeOK
    <2>2. state'[p] # "UNUSED"
        BY <1>2 DEF TypeOK
    <2>3. \A d \in Core : \A r \in Holds(d)' : state'[r] # "UNUSED"
        BY <1>4, <1>6, <2>1, <2>2 DEF Placed, ExistInv, Holds
    <2> QED
        BY <2>1, <2>3, Positions DEF Placed, ExistInv, At
<1>11. Mine(c)'
    BY <1>2, <1>3 DEF Mine
<1> QED
    BY <1>2, <1>8, <1>9, <1>10, <1>11 DEF Placed

LEMMA AddPlaced ==
    ASSUME BaseInv, Placed, NEW c \in Core, ReadyAdd(c)
    PROVE  Placed' /\ Others(c) /\ Mine(c)' /\ Flow(c)
<1>0. PICK p, q, i : p = proc[c] /\ q = target[c] /\ i = prio(p)
    OBVIOUS
<1>1. /\ pc[c] = "rq_add" /\ pc' = [pc EXCEPT ![c] = link[c]]
      /\ tasks' = [tasks EXCEPT ![q][i] = Append(@, p)]
      /\ UNCHANGED <<state, running_list>> /\ link[c] \in ReturnPc
    BY <1>0 DEF ReadyAdd, procVars, BaseInv, LinkInv, ReadyPc
<1>2. TypeOK /\ q \in Core /\ i \in Priority /\ p \in Process
    BY <1>0, <1>1, PriorityFacts DEF BaseInv, TypeOK, HolderInv, Carries, ReadyPc
<1>3. Others(c)
    BY DEF ReadyAdd, ReadyReturn, BaseInv, TypeOK, Others
<1>4. Carries(c) /\ p \in Holds(c)
    BY <1>0, <1>1, <1>2 DEF Carries, ReadyPc, Holds
<1>5. pc'[c] = link[c]
    BY <1>1, <1>2 DEF TypeOK
<1>6. ~Carries(c)' /\ (Owns(c)' <=> Owns(c))
    BY <1>1, <1>5 DEF Carries, Owns, ReadyPc, NextPc, LetsGo, ReturnPc
<1>7. Holds(c)' = Holds(c) \ {p}
    BY <1>0, <1>1, <1>2, <1>4, <1>6 DEF Holds, Placed, OnePlace
<1>8. \A d \in Core \ {c} : Holds(d)' = Holds(d)
    BY <1>3, OthersKeep
<1>9. /\ \A r \in Core, j \in Priority : \A k \in 1 .. Len(tasks[r][j]) :
            k \in 1 .. Len(tasks'[r][j]) /\ At(r, j, k)' = At(r, j, k)
      /\ \A r \in Core, j \in Priority : \A k \in 1 .. Len(tasks'[r][j]) :
            \/ k \in 1 .. Len(tasks[r][j]) /\ At(r, j, k)' = At(r, j, k)
            \/ r = q /\ j = i /\ k = Len(tasks[q][i]) + 1 /\ At(r, j, k)' = p
      /\ \E n \in 1 .. Len(tasks'[q][i]) : At(q, i, n)' = p
    <2>1. tasks'[q][i] = Append(tasks[q][i], p)
        BY <1>1, <1>2 DEF TypeOK
    <2>2. \A r \in Core, j \in Priority : r # q \/ j # i => tasks'[r][j] = tasks[r][j]
        BY <1>1, <1>2 DEF TypeOK
    <2> QED
        BY <1>2, <2>1, <2>2, Appended
<1>10. \A x : Queued(x)' <=> Queued(x) \/ x = p
    BY <1>2, <1>9 DEF Queued
<1>11. ~Queued(p) /\ \A d \in Core \ {c} : p \notin Holds(d)
    BY <1>4 DEF Placed, OnePlace
<1>12. OnePlace'
    <2>1. \A d, e \in Core : d # e => (Holds(d) \cap Holds(e))' = {}
        BY <1>7, <1>8 DEF Placed, OnePlace
    <2>2. \A d \in Core : (Carries(d) /\ Owns(d))' => proc'[d] # running_list'[d]
        BY <1>3, <1>6, OthersKeep DEF Placed, OnePlace, Others
    <2>3. \A d \in Core : \A x \in Holds(d)' : ~Queued(x)'
        BY <1>7, <1>8, <1>10, <1>11 DEF Placed, OnePlace
    <2>4. ASSUME NEW r \in Core, NEW s \in Core, NEW j \in Priority, NEW h \in Priority,
                 NEW k \in 1 .. Len(tasks'[r][j]), NEW l \in 1 .. Len(tasks'[s][h]),
                 At(r, j, k)' = At(s, h, l)'
          PROVE  r = s /\ j = h /\ k = l
        <3>1. \/ k \in 1 .. Len(tasks[r][j]) /\ At(r, j, k)' = At(r, j, k)
              \/ r = q /\ j = i /\ k = Len(tasks[q][i]) + 1 /\ At(r, j, k)' = p
            BY <1>9
        <3>2. \/ l \in 1 .. Len(tasks[s][h]) /\ At(s, h, l)' = At(s, h, l)
              \/ s = q /\ h = i /\ l = Len(tasks[q][i]) + 1 /\ At(s, h, l)' = p
            BY <1>9
        <3>3. /\ k \in 1 .. Len(tasks[r][j]) => At(r, j, k) # p
              /\ l \in 1 .. Len(tasks[s][h]) => At(s, h, l) # p
            BY <1>11 DEF Queued
        <3> QED
            BY <2>4, <3>1, <3>2, <3>3 DEF Placed, OnePlace
    <2> QED
        BY <2>1, <2>2, <2>3, <2>4 DEF OnePlace
<1>13. Flow(c)
    <2>1. \A x : Somewhere(x)' <=> Somewhere(x)
        BY <1>4, <1>7, <1>8, <1>10 DEF Somewhere
    <2>2. \A x : Queued(x)' => Queued(x) \/ (Carries(c) /\ x = proc[c])
        BY <1>0, <1>4, <1>10
    <2> QED
        BY <1>1, <1>7, <2>1, <2>2 DEF Flow
<1>14. ExistInv'
    <2>1. state[p] # "UNUSED" /\ prio(p) = i
        BY <1>0, <1>4 DEF Placed, ExistInv
    <2>2. \A d \in Core : \A x \in Holds(d)' : state'[x] # "UNUSED"
        BY <1>1, <1>7, <1>8 DEF Placed, ExistInv
    <2>3. ASSUME NEW r \in Core, NEW j \in Priority, NEW k \in 1 .. Len(tasks'[r][j])
          PROVE  state'[At(r, j, k)'] # "UNUSED" /\ prio(At(r, j, k)') = j
        BY <1>1, <1>9, <2>1 DEF Placed, ExistInv
    <2>4. \A r \in Core, j \in Priority : \A k \in 1 .. Len(tasks'[r][j]) :
              state'[At(r, j, k)'] # "UNUSED" /\ prio(At(r, j, k)') = j
        BY <2>3
    <2>5. \A x : prio(x)' = prio(x)
        BY DEF prio
    <2> QED
        BY <2>2, <2>4, <2>5 DEF ExistInv
<1>15. Mine(c)'
    BY <1>1, <1>5, <1>6 DEF Mine, ReadyPc, ReturnPc, BaseInv, HolderInv
<1> QED
    BY <1>3, <1>12, <1>13, <1>14, <1>15 DEF Placed

LEMMA TakePlaced ==
    ASSUME BaseInv, Placed, NEW c \in Core, NextTake(c)
    PROVE  Placed' /\ Others(c) /\ Mine(c)' /\ Flow(c)
<1>0. PICK i, p : i = level[c] /\ p = Head(tasks[c][i])
    OBVIOUS
<1>1. /\ pc[c] = "next_scan" /\ tasks[c][i] # <<>>
      /\ tasks' = [tasks EXCEPT ![c][i] = Tail(@)]
      /\ UNCHANGED <<state, running_list>>
    BY <1>0 DEF NextTake, procVars
<1>2. TypeOK /\ i \in Priority
    BY <1>0 DEF BaseInv, TypeOK
<1>3. pc'[c] = "next_len" /\ proc'[c] = p
    BY <1>0 DEF NextTake, BaseInv, TypeOK
<1>4. Others(c)
    BY DEF NextTake, BaseInv, TypeOK, Others, scanVars
<1>5. /\ \A r \in Core, j \in Priority : r # c \/ j # i => tasks'[r][j] = tasks[r][j]
      /\ 1 \in 1 .. Len(tasks[c][i]) /\ p = At(c, i, 1)
      /\ \A k \in 1 .. Len(tasks'[c][i]) :
            /\ k + 1 \in 1 .. Len(tasks[c][i])
            /\ At(c, i, k)' = At(c, i, k + 1)
      /\ \A k \in 1 .. Len(tasks[c][i]) : k # 1 =>
            k - 1 \in 1 .. Len(tasks'[c][i]) /\ At(c, i, k - 1)' = At(c, i, k)
    BY <1>0, <1>1, <1>2, Removed
<1>6. p \in Process /\ Queued(p)
    BY <1>2, <1>5, Positions DEF Queued
<1>7. /\ ~Carries(c) /\ ~Owns(c) /\ Carries(c)' /\ ~Owns(c)'
      /\ Holds(c) = {} /\ Holds(c)' = {p}
    <2>1. ~Carries(c) /\ ~Owns(c) /\ Carries(c)' /\ ~Owns(c)'
        BY <1>1, <1>3 DEF Carries, Owns, ReadyPc, NextPc
    <2> QED
        BY <1>3, <1>6, <2>1 DEF Holds
<1>8. \A d \in Core \ {c} : Holds(d)' = Holds(d)
    BY <1>4, OthersKeep
<1> DEFINE Was(r, j, k) == IF r = c /\ j = i THEN k + 1 ELSE k
<1>9. ASSUME NEW r \in Core, NEW j \in Priority, NEW k \in 1 .. Len(tasks'[r][j])
      PROVE  /\ Was(r, j, k) \in 1 .. Len(tasks[r][j])
             /\ At(r, j, k)' = At(r, j, Was(r, j, k))
             /\ Was(r, j, k) # 1 \/ r # c \/ j # i
    <2>1. CASE r = c /\ j = i
        BY <1>5, <2>1
    <2>2. CASE r # c \/ j # i
        BY <1>5, <2>2 DEF At
    <2> QED
        BY <2>1, <2>2
<1>10. ASSUME NEW x, Queued(x), x # p PROVE Queued(x)'
    <2>1. PICK r \in Core, j \in Priority : \E k \in 1 .. Len(tasks[r][j]) : At(r, j, k) = x
        BY <1>10 DEF Queued
    <2>2. PICK k \in 1 .. Len(tasks[r][j]) : At(r, j, k) = x
        BY <2>1
    <2>3. CASE r = c /\ j = i
        <3>1. k # 1
            BY <1>5, <1>10, <2>2, <2>3
        <3>2. PICK n : n = k - 1
            OBVIOUS
        <3>3. n \in 1 .. Len(tasks'[c][i]) /\ At(c, i, n)' = x
            BY <1>5, <2>2, <2>3, <3>1, <3>2
        <3> QED
            BY <1>2, <3>3 DEF Queued
    <2>4. CASE r # c \/ j # i
        BY <1>5, <2>2, <2>4 DEF Queued, At
    <2> QED
        BY <2>3, <2>4
<1>11. ASSUME NEW x, Queued(x)' PROVE Queued(x) /\ x # p
    <2>1. PICK r \in Core, j \in Priority : \E k \in 1 .. Len(tasks'[r][j]) : At(r, j, k)' = x
        BY <1>11 DEF Queued
    <2>2. PICK k \in 1 .. Len(tasks'[r][j]) : At(r, j, k)' = x
        BY <2>1
    <2>3. /\ Was(r, j, k) \in 1 .. Len(tasks[r][j])
          /\ At(r, j, Was(r, j, k)) = x
          /\ Was(r, j, k) # 1 \/ r # c \/ j # i
        BY <1>9, <2>2
    <2> HIDE DEF Was
    <2>4. x # p
        BY <1>2, <1>5, <2>3 DEF Placed, OnePlace
    <2> QED
        BY <2>3, <2>4 DEF Queued
<1>12. OnePlace'
    <2>1. \A d, e \in Core : d # e => (Holds(d) \cap Holds(e))' = {}
        BY <1>6, <1>7, <1>8 DEF Placed, OnePlace
    <2>2. \A d \in Core : (Carries(d) /\ Owns(d))' => proc'[d] # running_list'[d]
        BY <1>4, <1>7, OthersKeep DEF Placed, OnePlace, Others
    <2>3. \A d \in Core : \A x \in Holds(d)' : ~Queued(x)'
        BY <1>7, <1>8, <1>11 DEF Placed, OnePlace
    <2>4. ASSUME NEW r \in Core, NEW s \in Core, NEW j \in Priority, NEW h \in Priority,
                 NEW k \in 1 .. Len(tasks'[r][j]), NEW l \in 1 .. Len(tasks'[s][h]),
                 At(r, j, k)' = At(s, h, l)'
          PROVE  r = s /\ j = h /\ k = l
        <3>1. Was(r, j, k) \in 1 .. Len(tasks[r][j]) /\ Was(s, h, l) \in 1 .. Len(tasks[s][h])
            BY <1>9
        <3>2. At(r, j, Was(r, j, k)) = At(s, h, Was(s, h, l))
            BY <1>9, <2>4
        <3>3. r = s /\ j = h /\ Was(r, j, k) = Was(s, h, l)
            BY <3>1, <3>2 DEF Placed, OnePlace
        <3> QED
            BY <3>3
    <2> QED
        BY <2>1, <2>2, <2>3, <2>4 DEF OnePlace
<1>13. Flow(c)
    <2>1. \A x : Somewhere(x)' <=> Somewhere(x)
        BY <1>6, <1>7, <1>8, <1>10, <1>11 DEF Somewhere
    <2> QED
        BY <1>1, <1>6, <1>7, <1>11, <2>1 DEF Flow
<1>14. ExistInv'
    <2>1. state[p] # "UNUSED"
        BY <1>2, <1>5 DEF Placed, ExistInv
    <2>2. \A d \in Core : \A x \in Holds(d)' : state'[x] # "UNUSED"
        BY <1>1, <1>7, <1>8, <2>1 DEF Placed, ExistInv
    <2>3. ASSUME NEW r \in Core, NEW j \in Priority, NEW k \in 1 .. Len(tasks'[r][j])
          PROVE  state'[At(r, j, k)'] # "UNUSED" /\ prio(At(r, j, k)') = j
        <3>1. Was(r, j, k) \in 1 .. Len(tasks[r][j]) /\ At(r, j, k)' = At(r, j, Was(r, j, k))
            BY <1>9
        <3> HIDE DEF Was
        <3> QED
            BY <1>1, <3>1 DEF Placed, ExistInv
    <2>4. \A r \in Core, j \in Priority : \A k \in 1 .. Len(tasks'[r][j]) :
              state'[At(r, j, k)'] # "UNUSED" /\ prio(At(r, j, k)') = j
        BY <2>3
    <2>5. \A x : prio(x)' = prio(x)
        BY DEF prio
    <2> QED
        BY <2>2, <2>4, <2>5 DEF ExistInv
<1>15. Mine(c)'
    BY <1>3, <1>6, <1>7 DEF Mine, ReadyPc
<1> QED
    BY <1>4, <1>12, <1>13, <1>14, <1>15 DEF Placed

-----------------------------------------------------------------------------
(* Every step of a core preserves the base invariant and the places. *)
LEMMA StepType ==
    ASSUME BaseInv, NEW c \in Core, CoreStep(c) PROVE TypeOK'
<1>1. TypeOK /\ HolderInv /\ LinkInv
    BY DEF BaseInv
<1>2. CASE Ready(c) \/ ReadyLock(c) \/ NextProc(c) \/ NextLock(c)
    BY <1>1, <1>2, PickType, QueueType, NextType
    DEF Ready, NextProc
<1>3. CASE Pull(c) \/ PullLock(c) \/ TimeSlice(c)
    BY <1>1, <1>3, PullType, SliceType DEF Pull
<1>4. CASE Boot(c) \/ SysCall(c)
    BY <1>1, <1>4, BootType, SysCallType
<1> QED
    BY <1>2, <1>3, <1>4 DEF CoreStep, Kernel, Acquire

LEMMA StepPlaced ==
    ASSUME BaseInv, Placed, NEW c \in Core, CoreStep(c)
    PROVE  BaseInv' /\ Placed' /\ Others(c) /\ Flow(c)
<1>1. TypeOK /\ TypeOK' /\ OnePlace /\ Mine(c)
    BY StepType DEF BaseInv, LinkInv, HolderInv, Mine, Placed
<1>2. CASE Keep(c)
    BY <1>1, <1>2, KeepPlaced, BaseOfMine DEF Keep
<1>3. ASSUME NEW p \in Process, NEW m, NEW l \in {"user", "next", "boot_root"},
             ProcCreate(c, p, m, l),
             UNCHANGED <<queueVars, ticks, running_list, target, level>>,
             pc[c] \in {"user", "boot", "boot_root"}, pc[c] = "user" <=> l = "user"
      PROVE  BaseInv' /\ Placed' /\ Others(c) /\ Flow(c)
    <2>1. ~Carries(c) /\ (Owns(c) <=> l \notin LetsGo) /\ l \in ReturnPc
        BY <1>3 DEF Carries, Owns, ReadyPc, NextPc, LetsGo, ReturnPc
    <2>2. UNCHANGED <<tasks, running_list, target, level>>
        BY <1>3 DEF queueVars
    <2> QED
        BY <1>1, <1>3, <2>1, <2>2, CreatePlaced, BaseOfMine
<1>4. CASE Ready(c) \/ ReadyLock(c)
    BY <1>1, <1>2, <1>4, ReadyKeep, AddPlaced, BaseOfMine DEF Ready
<1>5. CASE NextProc(c) \/ NextLock(c)
    BY <1>1, <1>2, <1>5, NextKeep, TakePlaced, BaseOfMine DEF NextProc
<1>6. CASE Pull(c) \/ PullLock(c)
    BY <1>2, <1>6, PullKeep DEF Pull
<1>7. CASE Boot(c)
    BY <1>3, <1>7, ProcessFacts DEF Boot, BootIdle, BootRoot
<1>8. CASE TimeSlice(c) \/ SysCall(c)
    BY <1>2, <1>3, <1>8, UserKeep, ProcessFacts DEF SysCall, PthreadCreate
<1> QED
    BY <1>4, <1>5, <1>6, <1>7, <1>8 DEF CoreStep, Kernel, Acquire

LEMMA InitPlaced ==
    Init => BaseInv /\ Placed
<1> SUFFICES ASSUME Init PROVE BaseInv /\ Placed
    OBVIOUS
<1>1. TypeOK
    BY InitType
<1>2. \A c \in Core : ~Carries(c) /\ ~Owns(c) /\ pc[c] \notin ReadyPc
    BY DEF Init, Carries, Owns, ReadyPc, NextPc
<1>3. \A c \in Core : Holds(c) = {}
    BY <1>2 DEF Holds
<1>4. \A q \in Core, i \in Priority : tasks[q][i] = <<>> /\ 1 .. Len(tasks[q][i]) = {}
    BY DEF Init
<1>5. BaseInv
    BY <1>1, <1>2 DEF BaseInv, LinkInv, HolderInv
<1>6. OnePlace
    BY <1>2, <1>3, <1>4 DEF OnePlace
<1>7. ExistInv
    BY <1>3, <1>4 DEF ExistInv
<1> QED
    BY <1>5, <1>6, <1>7 DEF Placed

(* A step that changes no variable changes none of the invariants. *)
LEMMA StutterPlaced ==
    ASSUME BaseInv, Placed, UNCHANGED dispatchVars
    PROVE  /\ BaseInv' /\ Placed'
           /\ \A p : Somewhere(p)' <=> Somewhere(p)
<1>1. \A c \in Core : Others(c) /\ Holds(c)' = Holds(c)
                      /\ (Carries(c)' <=> Carries(c)) /\ (Owns(c)' <=> Owns(c))
    BY DEF dispatchVars, queueVars, procVars, coreVars, scanVars, Others, Holds, Carries, Owns
<1>2. TypeOK' /\ LinkInv' /\ HolderInv'
    BY <1>1 DEF dispatchVars, queueVars, procVars, coreVars, scanVars,
                BaseInv, TypeOK, LinkInv, HolderInv
<1>3. \A p : Queued(p)' <=> Queued(p)
    BY DEF dispatchVars, queueVars, Queued, At
<1>4. OnePlace' /\ ExistInv'
    BY <1>1, <1>3 DEF dispatchVars, queueVars, procVars, coreVars, Placed, OnePlace,
                      ExistInv, At
<1>5. \A p : Somewhere(p)' <=> Somewhere(p)
    BY <1>1, <1>3 DEF Somewhere
<1> QED
    BY <1>2, <1>4, <1>5 DEF BaseInv, Placed

-----------------------------------------------------------------------------
(* Mutual exclusion.  A step of core c leaves the critical sections as     *)
(* they are, enters one whose flag is clear, or leaves the one it is in.   *)
Enters(c, q) ==
    /\ q \in Core /\ ~rq_lock[q]
    /\ rq_lock' = [rq_lock EXCEPT ![q] = TRUE]
    /\ \A r \in Core : ~InQueueSection(c, r)
    /\ \A r \in Core : InQueueSection(c, r)' <=> r = q

Leaves(c, q) ==
    /\ q \in Core
    /\ rq_lock' = [rq_lock EXCEPT ![q] = FALSE]
    /\ \A r \in Core : InQueueSection(c, r) <=> r = q
    /\ \A r \in Core : ~InQueueSection(c, r)'

Stays(c) ==
    /\ rq_lock' = rq_lock
    /\ \A r \in Core : InQueueSection(c, r)' <=> InQueueSection(c, r)

SectionStep(c) == Stays(c) \/ \E q \in Core : Enters(c, q) \/ Leaves(c, q)

LEMMA MutexStep ==
    ASSUME TypeOK, QueueMutex, NEW c \in Core, Others(c),
           SectionStep(c)
    PROVE  QueueMutex'
<1>1. \A d \in Core \ {c} : \A r \in Core : InQueueSection(d, r)' <=> InQueueSection(d, r)
    BY OthersKeep
<1>2. CASE Stays(c)
    BY <1>1, <1>2 DEF Stays, QueueMutex
<1>3. ASSUME NEW q \in Core, Leaves(c, q) PROVE QueueMutex'
    <2>1. \A r \in Core : rq_lock'[r] = IF r = q THEN FALSE ELSE rq_lock[r]
        BY <1>3 DEF Leaves, TypeOK
    <2>2. \A r \in Core : InQueueSection(c, r) <=> r = q
        BY <1>3 DEF Leaves
    <2>3. \A d, r \in Core : InQueueSection(d, r)' <=> d # c /\ InQueueSection(d, r)
        BY <1>1, <1>3 DEF Leaves
    <2>4. \A d \in Core : InQueueSection(d, q) => d = c
        BY <2>2 DEF QueueMutex
    <2>5. \A r \in Core : rq_lock'[r] <=> \E d \in Core : InQueueSection(d, r)'
        <3>1. ASSUME NEW r \in Core, r # q
              PROVE  rq_lock'[r] <=> \E d \in Core : InQueueSection(d, r)'
            <4>1. rq_lock'[r] <=> \E d \in Core : InQueueSection(d, r)
                BY <2>1, <3>1 DEF QueueMutex
            <4>2. \A d \in Core : InQueueSection(d, r) <=> InQueueSection(d, r)'
                BY <2>2, <2>3, <3>1
            <4> QED
                BY <4>1, <4>2
        <3>2. ~rq_lock'[q] /\ \A d \in Core : ~InQueueSection(d, q)'
            BY <2>1, <2>3, <2>4
        <3> QED
            BY <3>1, <3>2
    <2>6. \A d, e, r \in Core : InQueueSection(d, r)' /\ InQueueSection(e, r)' => d = e
        BY <2>3 DEF QueueMutex
    <2> QED
        BY <2>5, <2>6 DEF QueueMutex
<1>4. ASSUME NEW q \in Core, Enters(c, q) PROVE QueueMutex'
    <2>1. \A r \in Core : rq_lock'[r] = IF r = q THEN TRUE ELSE rq_lock[r]
        BY <1>4 DEF Enters, TypeOK
    <2>2. \A d \in Core : ~InQueueSection(d, q)
        BY <1>4 DEF Enters, QueueMutex
    <2>3. \A d, r \in Core : InQueueSection(d, r)' <=>
              IF d = c THEN r = q ELSE InQueueSection(d, r)
        BY <1>1, <1>4 DEF Enters
    <2>4. \A r \in Core : rq_lock'[r] <=> \E d \in Core : InQueueSection(d, r)'
        <3>1. ASSUME NEW r \in Core, r # q
              PROVE  rq_lock'[r] <=> \E d \in Core : InQueueSection(d, r)'
            BY <1>4, <2>1, <2>3, <3>1 DEF QueueMutex, Enters
        <3>2. rq_lock'[q] /\ InQueueSection(c, q)'
            BY <2>1, <2>3
        <3> QED
            BY <3>1, <3>2
    <2>5. \A d, e, r \in Core : InQueueSection(d, r)' /\ InQueueSection(e, r)' => d = e
        BY <2>2, <2>3 DEF QueueMutex
    <2> QED
        BY <2>4, <2>5 DEF QueueMutex
<1> QED
    BY <1>2, <1>3, <1>4 DEF SectionStep

LEMMA ReadySection ==
    ASSUME BaseInv, NEW c \in Core, Ready(c) \/ ReadyLock(c)
    PROVE  SectionStep(c)
<1>1. TypeOK
    BY DEF BaseInv
<1>2. CASE PickInactive(c)
    BY <1>2 DEF PickInactive, queueVars, SectionStep, Stays, InQueueSection
<1>3. CASE PickDecide(c)
    <2>1. pc[c] = "pick" /\ pc'[c] = "rq_lock" /\ rq_lock' = rq_lock
        BY <1>1, <1>3 DEF PickDecide, queueVars, TypeOK
    <2> QED
        BY <2>1 DEF SectionStep, Stays, InQueueSection
<1>4. CASE ReadyLock(c)
    <2>1. /\ pc[c] = "rq_lock" /\ pc'[c] = "rq_len" /\ target' = target
          /\ rq_lock' = [rq_lock EXCEPT ![target[c]] = TRUE]
          /\ ~rq_lock[target[c]] /\ target[c] \in Core
        BY <1>1, <1>4 DEF ReadyLock, TypeOK
    <2>2. Enters(c, target[c])
        BY <2>1 DEF Enters, InQueueSection
    <2> QED
        BY <2>1, <2>2 DEF SectionStep
<1>5. CASE ReadyLength(c)
    <2>1. /\ pc[c] = "rq_len" /\ pc'[c] = "rq_add"
          /\ rq_lock' = rq_lock /\ target' = target
        BY <1>1, <1>5 DEF ReadyLength, TypeOK
    <2> QED
        BY <2>1 DEF SectionStep, Stays, InQueueSection
<1>6. CASE ReadyAdd(c)
    <2>1. /\ pc[c] = "rq_add" /\ pc'[c] = link[c] /\ target[c] \in Core
          /\ rq_lock' = [rq_lock EXCEPT ![target[c]] = FALSE]
        BY <1>1, <1>6 DEF ReadyAdd, TypeOK
    <2>2. link[c] \in ReturnPc
        BY <2>1 DEF BaseInv, LinkInv, ReadyPc
    <2>3. \A r \in Core : ~InQueueSection(c, r)'
        BY <2>1, <2>2 DEF InQueueSection, ReturnPc
    <2>4. Leaves(c, target[c])
        BY <2>1, <2>3 DEF Leaves, InQueueSection
    <2> QED
        BY <2>1, <2>4 DEF SectionStep
<1> QED
    BY <1>2, <1>3, <1>4, <1>5, <1>6 DEF Ready

LEMMA NextSection ==
    ASSUME BaseInv, NEW c \in Core, NextProc(c) \/ NextLock(c)
    PROVE  SectionStep(c)
<1>1. TypeOK
    BY DEF BaseInv
<1>2. CASE NextLock(c)
    <2>1. /\ pc[c] = "next" /\ pc'[c] = "next_scan"
          /\ rq_lock' = [rq_lock EXCEPT ![c] = TRUE] /\ ~rq_lock[c]
        BY <1>1, <1>2 DEF NextLock, TypeOK
    <2>2. Enters(c, c)
        BY <2>1 DEF Enters, InQueueSection
    <2> QED
        BY <2>2 DEF SectionStep
<1>3. CASE NextTake(c)
    <2>1. /\ pc[c] = "next_scan" /\ pc'[c] = "next_len" /\ rq_lock' = rq_lock
        BY <1>1, <1>3 DEF NextTake, TypeOK
    <2> QED
        BY <2>1 DEF SectionStep, Stays, InQueueSection
<1>4. CASE NextMiss(c)
    <2>1. /\ pc[c] = "next_scan" /\ pc'[c] \in {"next", "null"}
          /\ rq_lock' = [rq_lock EXCEPT ![c] = FALSE]
        BY <1>1, <1>4 DEF NextMiss, TypeOK
    <2>2. Leaves(c, c)
        BY <2>1 DEF Leaves, InQueueSection
    <2> QED
        BY <2>2 DEF SectionStep
<1>5. CASE NextRun(c)
    <2>1. /\ pc[c] = "next_len" /\ pc'[c] = "user"
          /\ rq_lock' = [rq_lock EXCEPT ![c] = FALSE]
        BY <1>1, <1>5 DEF NextRun, TypeOK
    <2>2. Leaves(c, c)
        BY <2>1 DEF Leaves, InQueueSection
    <2> QED
        BY <2>2 DEF SectionStep
<1> QED
    BY <1>2, <1>3, <1>4, <1>5 DEF NextProc

LEMMA PullSection ==
    ASSUME BaseInv, NEW c \in Core, Pull(c) \/ PullLock(c)
    PROVE  SectionStep(c)
<1>1. TypeOK
    BY DEF BaseInv
<1>2. CASE PullBusiest(c)
    BY <1>2 DEF PullBusiest, queueVars, SectionStep, Stays, InQueueSection
<1>3. CASE PullSkip(c)
    <2>1. pc[c] = "busiest" /\ pc'[c] = "pick" /\ rq_lock' = rq_lock
        BY <1>1, <1>3 DEF PullSkip, CallReady, queueVars, TypeOK
    <2> QED
        BY <2>1 DEF SectionStep, Stays, InQueueSection
<1>4. CASE PullLock(c)
    <2>1. /\ pc[c] = "busiest" /\ pc'[c] = "pull_scan" /\ target'[c] = pick[c]
          /\ rq_lock' = [rq_lock EXCEPT ![pick[c]] = TRUE]
          /\ ~rq_lock[pick[c]] /\ pick[c] \in Core
        BY <1>1, <1>4 DEF PullLock, TypeOK
    <2>2. Enters(c, pick[c])
        BY <2>1 DEF Enters, InQueueSection
    <2> QED
        BY <2>1, <2>2 DEF SectionStep
<1>5. CASE PullScan(c)
    <2>1. /\ pc[c] = "pull_scan" /\ pc'[c] = "pick" /\ target[c] \in Core
          /\ rq_lock' = [rq_lock EXCEPT ![target[c]] = FALSE]
        BY <1>1, <1>5 DEF PullScan, CallReady, TypeOK
    <2>2. Leaves(c, target[c])
        BY <2>1 DEF Leaves, InQueueSection
    <2> QED
        BY <2>1, <2>2 DEF SectionStep
<1> QED
    BY <1>2, <1>3, <1>4, <1>5 DEF Pull

(* Outside the three scans no step touches a lock or is inside one. *)
LEMMA UserSection ==
    ASSUME BaseInv, NEW c \in Core, Boot(c) \/ TimeSlice(c) \/ SysCall(c)
    PROVE  Stays(c)
<1>1. pc[c] \in {"boot", "boot_root", "user"} /\ rq_lock' = rq_lock
    BY DEF Boot, BootIdle, BootRoot, TimeSlice, SysCall, Yield, SetAffinity,
           PthreadCreate, queueVars
<1>2. pc'[c] \in {"pick", "busiest", "user"}
    BY <1>1 DEF BaseInv, TypeOK, Boot, BootIdle, BootRoot, TimeSlice, SysCall, Yield,
                SetAffinity, PthreadCreate, ProcCreate, CallReady
<1> QED
    BY <1>1, <1>2 DEF Stays, InQueueSection

LEMMA StepMutex ==
    ASSUME BaseInv, QueueMutex, NEW c \in Core, CoreStep(c), Others(c)
    PROVE  QueueMutex'
<1>1. TypeOK
    BY DEF BaseInv
<1>2. CASE Ready(c) \/ ReadyLock(c)
    BY <1>1, <1>2, ReadySection, MutexStep
<1>3. CASE NextProc(c) \/ NextLock(c)
    BY <1>1, <1>3, NextSection, MutexStep
<1>4. CASE Pull(c) \/ PullLock(c)
    BY <1>1, <1>4, PullSection, MutexStep
<1>5. CASE Boot(c) \/ TimeSlice(c) \/ SysCall(c)
    BY <1>1, <1>5, UserSection, MutexStep DEF SectionStep
<1> QED
    BY <1>2, <1>3, <1>4, <1>5 DEF CoreStep, Kernel, Acquire

-----------------------------------------------------------------------------
(* The length of a queue.  It is changed, and a list is changed, only by   *)
(* the core inside the critical section; the two updates of a move are the *)
(* two steps that make and end HalfDone.                                   *)
Moving(q) == IF \E c \in Core : HalfDone(c, q) THEN 1 ELSE 0

LEMMA TotalNat == ASSUME TypeOK, NEW q \in Core PROVE Total(q) \in Nat
<1>1. \A i \in Priority : Len(tasks[q][i]) \in Nat
    BY Positions
<1>2. IDLE \in Priority /\ LOW \in Priority /\ MED \in Priority /\ HIGH \in Priority
    BY PriorityFacts
<1>3. /\ Len(tasks[q][IDLE]) \in Nat /\ Len(tasks[q][LOW]) \in Nat
      /\ Len(tasks[q][MED]) \in Nat /\ Len(tasks[q][HIGH]) \in Nat
    BY <1>1, <1>2
<1>4. PICK a \in Nat, b \in Nat, d \in Nat, e \in Nat :
          /\ a = Len(tasks[q][IDLE]) /\ b = Len(tasks[q][LOW])
          /\ d = Len(tasks[q][MED]) /\ e = Len(tasks[q][HIGH])
    BY <1>3
<1>5. Total(q) = a + b + d + e
    BY <1>4, Zenon DEF Total
<1> QED
    BY <1>5
(* One list of the queue grows or shrinks by one, the others stay. *)
LEMMA TotalMoves ==
    ASSUME TypeOK, NEW q \in Core, NEW i \in Priority, NEW n \in Int,
           Len(tasks'[q][i]) = Len(tasks[q][i]) + n,
           \A j \in Priority : j # i => tasks'[q][j] = tasks[q][j]
    PROVE  Total(q)' = Total(q) + n
<1>0. \A j \in Priority : Len(tasks[q][j]) \in Nat
    BY Positions
<1>1. /\ Len(tasks[q][IDLE]) \in Nat /\ Len(tasks[q][LOW]) \in Nat
      /\ Len(tasks[q][MED]) \in Nat /\ Len(tasks[q][HIGH]) \in Nat
    BY <1>0, PriorityFacts
<1>2. /\ IDLE \in Priority /\ LOW \in Priority /\ MED \in Priority /\ HIGH \in Priority
      /\ i \in {IDLE, LOW, MED, HIGH}
      /\ IDLE # LOW /\ IDLE # MED /\ IDLE # HIGH /\ LOW # MED /\ LOW # HIGH /\ MED # HIGH
    BY PriorityFacts
<1>3. PICK a \in Nat, b \in Nat, d \in Nat, e \in Nat :
          /\ a = Len(tasks[q][IDLE]) /\ b = Len(tasks[q][LOW])
          /\ d = Len(tasks[q][MED]) /\ e = Len(tasks[q][HIGH])
    BY <1>1
<1>4. PICK aa, bb, dd, ee :
          /\ aa = Len(tasks'[q][IDLE]) /\ bb = Len(tasks'[q][LOW])
          /\ dd = Len(tasks'[q][MED]) /\ ee = Len(tasks'[q][HIGH])
    OBVIOUS
<1>5. Total(q) = a + b + d + e /\ Total(q)' = aa + bb + dd + ee
    BY <1>3, <1>4, Zenon DEF Total
<1>6. CASE i = IDLE
    <2>1. aa = a + n /\ bb = b /\ dd = d /\ ee = e
        BY <1>2, <1>3, <1>4, <1>6
    <2> QED
        BY <1>5, <2>1
<1>7. CASE i = LOW
    <2>1. aa = a /\ bb = b + n /\ dd = d /\ ee = e
        BY <1>2, <1>3, <1>4, <1>7
    <2> QED
        BY <1>5, <2>1
<1>8. CASE i = MED
    <2>1. aa = a /\ bb = b /\ dd = d + n /\ ee = e
        BY <1>2, <1>3, <1>4, <1>8
    <2> QED
        BY <1>5, <2>1
<1>9. CASE i = HIGH
    <2>1. aa = a /\ bb = b /\ dd = d /\ ee = e + n
        BY <1>2, <1>3, <1>4, <1>9
    <2> QED
        BY <1>5, <2>1
<1> QED
    BY <1>2, <1>6, <1>7, <1>8, <1>9

(* A step of core c on the length and the lists of queue q, in the middle  *)
(* of a move (h, then hh) or not.                                          *)
LEMMA LengthStep ==
    ASSUME BaseInv, QueueMutex, LengthExact, NEW c \in Core, Others(c),
           NEW q \in Core, NEW n \in Int, NEW m \in Int, InQueueSection(c, q),
           length'[q] = length[q] + n, Total(q)' = Total(q) + m,
           n + (IF HalfDone(c, q) THEN 1 ELSE 0) = m + (IF HalfDone(c, q)' THEN 1 ELSE 0),
           \A r \in Core \ {q} :
              length'[r] = length[r] /\ Total(r)' = Total(r) /\ ~HalfDone(c, r)'
    PROVE  LengthExact'
<1>1. TypeOK
    BY DEF BaseInv
<1>2. \A d, r \in Core : HalfDone(d, r) => InQueueSection(d, r)
    BY DEF HalfDone, InQueueSection
<1>3. \A r \in Core : InQueueSection(c, r) => r = q
    BY DEF InQueueSection
<1>4. \A d \in Core : HalfDone(d, q) => d = c
    BY <1>2 DEF QueueMutex
<1>5. \A d \in Core \ {c} : \A r \in Core : HalfDone(d, r)' <=> HalfDone(d, r)
    BY OthersKeep
<1>6. Moving(q) = IF HalfDone(c, q) THEN 1 ELSE 0
    BY <1>4 DEF Moving
<1>7. Moving(q)' = IF HalfDone(c, q)' THEN 1 ELSE 0
    BY <1>4, <1>5 DEF Moving
<1>8. \A r \in Core \ {q} : Moving(r)' = Moving(r)
    BY <1>2, <1>3, <1>5 DEF Moving
<1>9. \A r \in Core : length[r] \in Int /\ Total(r) \in Nat /\ length[r] = Total(r) + Moving(r)
    BY <1>1, TotalNat DEF LengthExact, Moving, TypeOK
<1>10. length'[q] = Total(q)' + Moving(q)'
    BY <1>6, <1>7, <1>9
<1>11. \A r \in Core \ {q} : length'[r] = Total(r)' + Moving(r)'
    BY <1>8, <1>9
<1> QED
    BY <1>10, <1>11 DEF LengthExact, Moving

LEMMA LengthSame ==
    ASSUME LengthExact, NEW c \in Core, Others(c), length' = length, tasks' = tasks,
           \A r \in Core : HalfDone(c, r)' <=> HalfDone(c, r)
    PROVE  LengthExact'
<1>1. \A d, r \in Core : HalfDone(d, r)' <=> HalfDone(d, r)
    BY OthersKeep
<1>2. \A r \in Core : Total(r)' = Total(r)
    BY DEF Total
<1> QED
    BY <1>1, <1>2 DEF LengthExact

(* The four steps of a move. *)
LEMMA MoveLength ==
    ASSUME BaseInv, QueueMutex, LengthExact, NEW c \in Core, Others(c),
           ReadyLength(c) \/ ReadyAdd(c) \/ NextTake(c) \/ NextRun(c)
    PROVE  LengthExact'
<1>1. TypeOK /\ \A q \in Core : Total(q) \in Nat
    BY TotalNat DEF BaseInv
<1>2. CASE ReadyLength(c)
    <2>1. PICK q \in Core : q = target[c]
        BY <1>1 DEF TypeOK
    <2>2. /\ pc[c] = "rq_len" /\ pc'[c] = "rq_add"
          /\ length'[q] = length[q] + 1 /\ \A r \in Core \ {q} : length'[r] = length[r]
          /\ tasks' = tasks /\ target' = target
        BY <1>1, <1>2, <2>1 DEF ReadyLength, TypeOK
    <2>3. InQueueSection(c, q) /\ ~HalfDone(c, q) /\ HalfDone(c, q)'
        BY <2>1, <2>2 DEF InQueueSection, HalfDone
    <2>4. \A r \in Core \ {q} : ~HalfDone(c, r)'
        BY <2>1, <2>2 DEF HalfDone
    <2>5. \A r \in Core : Total(r)' = Total(r)
        BY <2>2 DEF Total
    <2>6. Total(q)' = Total(q) + 0
        BY <1>1, <2>5
    <2> QED
        BY <2>2, <2>3, <2>4, <2>5, <2>6, LengthStep
<1>3. CASE ReadyAdd(c)
    <2>1. PICK q \in Core, i \in Priority, p \in Process :
              q = target[c] /\ i = prio(proc[c]) /\ p = proc[c]
        BY <1>1, <1>3, PriorityFacts DEF TypeOK, ReadyAdd, BaseInv, HolderInv, Carries, ReadyPc
    <2>2. /\ pc[c] = "rq_add" /\ pc'[c] = link[c] /\ link[c] \in ReturnPc
          /\ length' = length
          /\ tasks'[q][i] = Append(tasks[q][i], p)
          /\ \A r \in Core, j \in Priority : r # q \/ j # i => tasks'[r][j] = tasks[r][j]
        BY <1>1, <1>3, <2>1 DEF ReadyAdd, TypeOK, BaseInv, LinkInv, ReadyPc
    <2>3. InQueueSection(c, q) /\ HalfDone(c, q) /\ \A r \in Core : ~HalfDone(c, r)'
        BY <2>1, <2>2 DEF InQueueSection, HalfDone, ReturnPc
    <2>4. Len(tasks'[q][i]) = Len(tasks[q][i]) + 1
        BY <1>1, <2>1, <2>2, Appended
    <2>5. Total(q)' = Total(q) + 1
        BY <1>1, <2>2, <2>4, TotalMoves
    <2>6. \A r \in Core \ {q} : Total(r)' = Total(r)
        BY <2>2, PriorityFacts DEF Total
    <2>7. length'[q] = length[q] + 0 /\ \A r \in Core \ {q} : length'[r] = length[r]
        BY <1>1, <2>2 DEF TypeOK
    <2> QED
        BY <2>3, <2>5, <2>6, <2>7, LengthStep
<1>4. CASE NextTake(c)
    <2>1. PICK i \in Priority : i = level[c]
        BY <1>1 DEF TypeOK
    <2>2. /\ pc[c] = "next_scan" /\ pc'[c] = "next_len" /\ length' = length
          /\ tasks[c][i] # <<>>
          /\ tasks' = [tasks EXCEPT ![c][i] = Tail(@)]
        BY <1>1, <1>4, <2>1 DEF NextTake, TypeOK
    <2>3. InQueueSection(c, c) /\ ~HalfDone(c, c) /\ HalfDone(c, c)'
        BY <2>2 DEF InQueueSection, HalfDone
    <2>4. \A r \in Core \ {c} : ~HalfDone(c, r)'
        BY <2>2 DEF HalfDone
    <2>5. /\ Len(tasks'[c][i]) = Len(tasks[c][i]) - 1
          /\ \A r \in Core, j \in Priority : r # c \/ j # i => tasks'[r][j] = tasks[r][j]
        BY <1>1, <2>2, Removed
    <2>6. PICK m \in Int : m = -1
        OBVIOUS
    <2>7. Total(c)' = Total(c) + m
        <3>1. Len(tasks'[c][i]) = Len(tasks[c][i]) + m
            BY <1>1, <2>5, <2>6, Positions
        <3>2. \A j \in Priority : j # i => tasks'[c][j] = tasks[c][j]
            BY <2>5
        <3> QED
            BY <1>1, <3>1, <3>2, TotalMoves
    <2>8. \A r \in Core \ {c} : Total(r)' = Total(r)
        BY <2>5, PriorityFacts DEF Total
    <2>9. length'[c] = length[c] + 0 /\ \A r \in Core \ {c} : length'[r] = length[r]
        BY <1>1, <2>2 DEF TypeOK
    <2> QED
        BY <2>3, <2>4, <2>6, <2>7, <2>8, <2>9, LengthStep
<1>5. CASE NextRun(c)
    <2>1. /\ pc[c] = "next_len" /\ pc'[c] = "user" /\ tasks' = tasks
          /\ length' = [length EXCEPT ![c] = @ - 1]
        BY <1>1, <1>5 DEF NextRun, TypeOK
    <2>2. InQueueSection(c, c) /\ HalfDone(c, c) /\ \A r \in Core : ~HalfDone(c, r)'
        BY <2>1 DEF InQueueSection, HalfDone
    <2>3. \A r \in Core : Total(r)' = Total(r)
        BY <2>1 DEF Total
    <2>4. Total(c)' = Total(c) + 0
        BY <1>1, <2>3
    <2>5. length'[c] = length[c] + (-1) /\ \A r \in Core \ {c} : length'[r] = length[r]
        BY <1>1, <2>1 DEF TypeOK
    <2> QED
        BY <2>2, <2>3, <2>4, <2>5, LengthStep
<1> QED
    BY <1>2, <1>3, <1>4, <1>5

LEMMA StepLength ==
    ASSUME BaseInv, QueueMutex, LengthExact, NEW c \in Core, CoreStep(c), Others(c)
    PROVE  LengthExact'
<1>1. TypeOK
    BY DEF BaseInv
<1>2. CASE ReadyLength(c) \/ ReadyAdd(c) \/ NextTake(c) \/ NextRun(c)
    BY <1>2, MoveLength
<1>3. ASSUME length' = length, tasks' = tasks,
             pc[c] \notin {"rq_add", "next_len"}, pc'[c] \notin {"rq_add", "next_len"}
      PROVE  LengthExact'
    <2>1. \A r \in Core : ~HalfDone(c, r) /\ ~HalfDone(c, r)'
        BY <1>3 DEF HalfDone
    <2> QED
        BY <1>3, <2>1, LengthSame
<1>4. CASE PickInactive(c) \/ PickDecide(c) \/ ReadyLock(c)
    BY <1>1, <1>3, <1>4 DEF PickInactive, PickDecide, ReadyLock, TypeOK, queueVars
<1>5. CASE NextLock(c) \/ NextMiss(c)
    BY <1>1, <1>3, <1>5 DEF NextLock, NextMiss, TypeOK
<1>6. CASE Pull(c) \/ PullLock(c)
    BY <1>1, <1>3, <1>6
    DEF Pull, PullBusiest, PullSkip, PullLock, PullScan, CallReady, TypeOK, queueVars
<1>7. CASE Boot(c)
    BY <1>1, <1>3, <1>7
    DEF Boot, BootIdle, BootRoot, ProcCreate, CallReady, TypeOK, queueVars
<1>8. CASE TimeSlice(c) \/ SysCall(c)
    BY <1>1, <1>3, <1>8
    DEF TimeSlice, SysCall, Yield, SetAffinity, PthreadCreate, ProcCreate, CallReady,
        TypeOK, queueVars
<1> QED
    BY <1>2, <1>4, <1>5, <1>6, <1>7, <1>8 DEF CoreStep, Kernel, Acquire, Ready, NextProc

-----------------------------------------------------------------------------
(* The inductive invariant proved here: where processes and locks are.     *)
PlaceInv == BaseInv /\ Placed /\ NoLostProcess /\ QueueMutex /\ LengthExact

LEMMA InitPlace == Init => PlaceInv
<1> SUFFICES ASSUME Init PROVE PlaceInv
    OBVIOUS
<1>1. \A c, q \in Core : ~InQueueSection(c, q) /\ ~HalfDone(c, q)
    BY DEF Init, InQueueSection, HalfDone
<1>2. QueueMutex
    BY <1>1 DEF Init, QueueMutex
<1>3. \A q \in Core : Total(q) = 0 /\ length[q] = 0
    BY PriorityFacts DEF Init, Total
<1>4. LengthExact
    BY <1>1, <1>3 DEF LengthExact
<1>5. NoLostProcess
    BY DEF Init, NoLostProcess
<1> QED
    BY <1>2, <1>4, <1>5, InitPlaced DEF PlaceInv

LEMMA StutterPlace ==
    ASSUME PlaceInv, UNCHANGED dispatchVars PROVE PlaceInv'
<1>1. \A c, q \in Core : /\ InQueueSection(c, q)' <=> InQueueSection(c, q)
                         /\ HalfDone(c, q)' <=> HalfDone(c, q)
    BY DEF dispatchVars, coreVars, InQueueSection, HalfDone
<1>2. QueueMutex'
    BY <1>1 DEF PlaceInv, QueueMutex, dispatchVars, queueVars
<1>3. \A q \in Core : Total(q)' = Total(q)
    BY DEF dispatchVars, queueVars, Total
<1>4. LengthExact'
    BY <1>1, <1>3 DEF PlaceInv, LengthExact, dispatchVars, queueVars
<1>5. NoLostProcess'
    BY StutterPlaced DEF PlaceInv, NoLostProcess, Somewhere, dispatchVars, procVars
<1> QED
    BY <1>2, <1>4, <1>5, StutterPlaced DEF PlaceInv

LEMMA NextPlace ==
    ASSUME PlaceInv, [Next]_dispatchVars PROVE PlaceInv'
<1>1. CASE Next
    <2>1. PICK c \in Core : CoreStep(c)
        BY <1>1 DEF Next
    <2>2. BaseInv' /\ Placed' /\ Others(c) /\ Flow(c)
        BY <2>1, StepPlaced DEF PlaceInv
    <2>3. QueueMutex' /\ LengthExact'
        BY <2>1, <2>2, StepMutex, StepLength DEF PlaceInv
    <2>4. NoLostProcess'
        BY <2>2, FlowLosesNone DEF PlaceInv
    <2> QED
        BY <2>2, <2>3, <2>4 DEF PlaceInv
<1>2. CASE UNCHANGED dispatchVars
    BY <1>2, StutterPlace
<1> QED
    BY <1>1, <1>2

LEMMA PlaceAlways == Spec => []PlaceInv
<1> QED
    BY InitPlace, NextPlace, PTL DEF Spec

-----------------------------------------------------------------------------
(* For the modules on top: wait queues and their spinlocks.  w[q] is the   *)
(* list of wait queue q; In and Apart say that a process is in a list, and *)
(* that it is at one position of one list.                                 *)
In(w, p) == \E q \in DOMAIN w : \E k \in 1 .. Len(w[q]) : w[q][k] = p

Apart(w) ==
    \A q, r \in DOMAIN w : \A k \in 1 .. Len(w[q]), l \in 1 .. Len(w[r]) :
        w[q][k] = w[r][l] => q = r /\ k = l

(* The queues w become u, and only q differs. *)
OneChanged(Q, w, u, q) ==
    /\ w \in [Q -> Seq(Process)] /\ u \in [Q -> Seq(Process)]
    /\ \A r \in Q \ {q} : u[r] = w[r]

LEMMA InAppended ==
    ASSUME NEW Q, NEW w, NEW u, NEW q \in Q, NEW p \in Process,
           OneChanged(Q, w, u, q), u[q] = Append(w[q], p), Apart(w), ~In(w, p)
    PROVE  /\ \A x : In(u, x) <=> In(w, x) \/ x = p
           /\ Apart(u)
<1>1. PICK s \in Seq(Process) : s = w[q] /\ Len(s) \in Nat
    BY DEF OneChanged
<1>2. PICK t : t = Append(s, p)
    OBVIOUS
<1>3. /\ t \in Seq(Process) /\ Len(t) = Len(s) + 1 /\ t[Len(s) + 1] = p
      /\ \A k \in 1 .. Len(s) : t[k] = s[k]
    BY <1>1, <1>2
<1>4. /\ u[q] = t /\ DOMAIN u = Q /\ DOMAIN w = Q
      /\ \A r \in Q \ {q} : u[r] = w[r]
    BY <1>1, <1>2 DEF OneChanged
<1>6. \A k : k \in 1 .. Len(t) <=> k \in 1 .. Len(s) \/ k = Len(s) + 1
    BY <1>1, <1>3
<1>7. \A r \in Q : \A k \in 1 .. Len(w[r]) : k \in 1 .. Len(u[r]) /\ u[r][k] = w[r][k]
    BY <1>1, <1>3, <1>4, <1>6
<1>8. \A r \in Q : \A k \in 1 .. Len(u[r]) :
          \/ k \in 1 .. Len(w[r]) /\ u[r][k] = w[r][k]
          \/ r = q /\ k = Len(s) + 1 /\ u[r][k] = p
    BY <1>1, <1>3, <1>4, <1>6
<1>9. \E n \in 1 .. Len(u[q]) : u[q][n] = p
    <2>1. PICK n : n = Len(s) + 1
        OBVIOUS
    <2> QED
        BY <1>3, <1>4, <1>6, <2>1
<1>10. \A x : In(u, x) <=> In(w, x) \/ x = p
    <2>1. \A x : In(w, x) \/ x = p => In(u, x)
        BY <1>4, <1>7, <1>9 DEF In
    <2>2. \A x : In(u, x) => In(w, x) \/ x = p
        BY <1>4, <1>8 DEF In
    <2> QED
        BY <2>1, <2>2
<1>11. \A r \in Q : \A k \in 1 .. Len(w[r]) : w[r][k] # p
    BY <1>4 DEF In
<1>12. Apart(u)
    <2>1. ASSUME NEW r \in Q, NEW m \in Q, NEW k \in 1 .. Len(u[r]),
                 NEW l \in 1 .. Len(u[m]), u[r][k] = u[m][l]
          PROVE  r = m /\ k = l
        <3>1. \/ k \in 1 .. Len(w[r]) /\ u[r][k] = w[r][k]
              \/ r = q /\ k = Len(s) + 1 /\ u[r][k] = p
            BY <1>8
        <3>2. \/ l \in 1 .. Len(w[m]) /\ u[m][l] = w[m][l]
              \/ m = q /\ l = Len(s) + 1 /\ u[m][l] = p
            BY <1>8
        <3> QED
            BY <1>4, <1>11, <2>1, <3>1, <3>2 DEF Apart
    <2> QED
        BY <1>4, <2>1 DEF Apart
<1> QED
    BY <1>10, <1>12

LEMMA InRemoved ==
    ASSUME NEW Q, NEW w, NEW u, NEW q \in Q,
           OneChanged(Q, w, u, q), w[q] # <<>>, u[q] = Tail(w[q]), Apart(w)
    PROVE  /\ Head(w[q]) \in Process /\ In(w, Head(w[q]))
           /\ \A x : In(u, x) <=> In(w, x) /\ x # Head(w[q])
           /\ Apart(u)
<1>1. PICK s \in Seq(Process) : s = w[q] /\ Len(s) \in Nat /\ s # <<>>
    BY DEF OneChanged
<1>2. PICK t : t = Tail(s)
    OBVIOUS
<1>3. /\ t \in Seq(Process) /\ Len(t) = Len(s) - 1 /\ Len(s) >= 1
      /\ Head(s) = s[1] /\ Head(s) \in Process
      /\ \A k \in 1 .. Len(s) - 1 : t[k] = s[k + 1]
    BY <1>1, <1>2, TailFacts
<1>4. /\ u[q] = t /\ DOMAIN u = Q /\ DOMAIN w = Q
      /\ \A r \in Q \ {q} : u[r] = w[r]
    BY <1>1, <1>2 DEF OneChanged
<1>6. 1 \in 1 .. Len(s) /\ w[q][1] = Head(w[q])
    BY <1>1, <1>3
<1>7. \A k \in 1 .. Len(t) : k + 1 \in 1 .. Len(s) /\ t[k] = s[k + 1] /\ k + 1 # 1
    BY <1>1, <1>3
<1>8. \A k \in 1 .. Len(s) : k # 1 => k - 1 \in 1 .. Len(t) /\ t[k - 1] = s[k]
    BY <1>1, <1>3
<1> DEFINE Was(r, k) == IF r = q THEN k + 1 ELSE k
<1>9. \A r \in Q : \A k \in 1 .. Len(u[r]) :
          /\ Was(r, k) \in 1 .. Len(w[r]) /\ u[r][k] = w[r][Was(r, k)]
          /\ r # q \/ Was(r, k) # 1
    BY <1>1, <1>4, <1>7
<1>10. \A r \in Q : \A k \in 1 .. Len(u[r]), l \in 1 .. Len(u[r]) :
          Was(r, k) = Was(r, l) => k = l
    OBVIOUS
<1>11. ASSUME NEW x, In(w, x), x # Head(w[q]) PROVE In(u, x)
    <2>1. PICK r \in Q : \E k \in 1 .. Len(w[r]) : w[r][k] = x
        BY <1>4, <1>11 DEF In
    <2>2. PICK k \in 1 .. Len(w[r]) : w[r][k] = x
        BY <2>1
    <2>3. CASE r = q
        <3>1. k # 1
            BY <1>6, <1>11, <2>2, <2>3
        <3>2. PICK n : n = k - 1
            OBVIOUS
        <3>3. n \in 1 .. Len(u[q]) /\ u[q][n] = x
            BY <1>1, <1>4, <1>8, <2>2, <2>3, <3>1, <3>2
        <3> QED
            BY <1>4, <3>3 DEF In
    <2>4. CASE r # q
        BY <1>4, <2>2, <2>4 DEF In
    <2> QED
        BY <2>3, <2>4
<1> HIDE DEF Was
<1>12. ASSUME NEW x, In(u, x) PROVE In(w, x) /\ x # Head(w[q])
    <2>1. PICK r \in Q : \E k \in 1 .. Len(u[r]) : u[r][k] = x
        BY <1>4, <1>12 DEF In
    <2>2. PICK k \in 1 .. Len(u[r]) : u[r][k] = x
        BY <2>1
    <2>3. PICK n : n = Was(r, k)
        OBVIOUS
    <2>4. n \in 1 .. Len(w[r]) /\ w[r][n] = x /\ (r # q \/ n # 1)
        BY <1>9, <2>2, <2>3
    <2>5. x # Head(w[q])
        BY <1>1, <1>4, <1>6, <2>4 DEF Apart
    <2> QED
        BY <1>4, <2>4, <2>5 DEF In
<1>13. Apart(u)
    <2>1. ASSUME NEW r \in Q, NEW m \in Q, NEW k \in 1 .. Len(u[r]),
                 NEW l \in 1 .. Len(u[m]), u[r][k] = u[m][l]
          PROVE  r = m /\ k = l
        <3>1. w[r][Was(r, k)] = w[m][Was(m, l)]
            BY <1>9, <2>1
        <3>2. r = m /\ Was(r, k) = Was(m, l)
            BY <1>4, <1>9, <3>1 DEF Apart
        <3> QED
            BY <1>10, <3>2
    <2> QED
        BY <1>4, <2>1 DEF Apart
<1>14. In(w, Head(w[q])) /\ Head(w[q]) \in Process
    BY <1>1, <1>3, <1>4, <1>6 DEF In
<1> QED
    BY <1>11, <1>12, <1>13, <1>14

(* Locks Q with flags f; s[c] are those core c is inside of. *)
Exclusive(Q, f, s) ==
    /\ \A q \in Q : f[q] <=> \E c \in Core : q \in s[c]
    /\ \A c, d \in Core : \A q \in Q : q \in s[c] /\ q \in s[d] => c = d

LEMMA ExclusiveStep ==
    ASSUME NEW Q, NEW f \in [Q -> BOOLEAN], NEW s, Exclusive(Q, f, s),
           NEW c \in Core, NEW g, NEW t, \A d \in Core \ {c} : t[d] = s[d],
           \/ g = f /\ t[c] = s[c]
           \/ \E q \in Q : /\ ~f[q] /\ g = [f EXCEPT ![q] = TRUE]
                            /\ s[c] = {} /\ t[c] = {q}
           \/ \E q \in Q : /\ g = [f EXCEPT ![q] = FALSE]
                            /\ s[c] = {q} /\ t[c] = {}
    PROVE  Exclusive(Q, g, t)
<1>1. CASE g = f /\ t[c] = s[c]
    <2>1. \A d \in Core : t[d] = s[d]
        BY <1>1
    <2> QED
        BY <1>1, <2>1 DEF Exclusive
<1>2. ASSUME NEW q \in Q, ~f[q], g = [f EXCEPT ![q] = TRUE], s[c] = {}, t[c] = {q}
      PROVE  Exclusive(Q, g, t)
    <2>1. \A r \in Q : g[r] <=> r = q \/ f[r]
        BY <1>2
    <2>2. \A d \in Core : q \notin s[d]
        BY <1>2 DEF Exclusive
    <2>3. \A d \in Core : \A r \in Q : r \in t[d] <=> r \in s[d] \/ (d = c /\ r = q)
        BY <1>2
    <2> QED
        BY <2>1, <2>2, <2>3 DEF Exclusive
<1>3. ASSUME NEW q \in Q, g = [f EXCEPT ![q] = FALSE], s[c] = {q}, t[c] = {}
      PROVE  Exclusive(Q, g, t)
    <2>1. \A r \in Q : g[r] <=> r # q /\ f[r]
        BY <1>3
    <2>2. \A d \in Core : q \in s[d] => d = c
        BY <1>3 DEF Exclusive
    <2>3. \A d \in Core : \A r \in Q : r \in t[d] <=> r \in s[d] /\ d # c
        BY <1>3
    <2>4. \A d \in Core : \A r \in Q : r \in t[d] <=> r \in s[d] /\ r # q
        BY <1>3, <2>2, <2>3
    <2> QED
        BY <2>1, <2>4 DEF Exclusive
<1> QED
    BY <1>1, <1>2, <1>3

(* The points of the modules on top where a core keeps its process.        *)
OwnPc == {"user", "join_lock", "join_sleep", "exit_count", "exit_lock", "exit_alert",
          "exit_unlink", "sem_lock", "sem_do", "sem_alert", "sem_ret", "sem_out"}

(* A step that moves no list: c keeps what it holds, lets it go, or takes  *)
(* a process that is nowhere.                                              *)
LEMMA ShiftPlaced ==
    ASSUME TypeOK, Placed, NEW c \in Core, Others(c), tasks' = tasks,
           (Carries(c) /\ Owns(c))' => proc'[c] # running_list'[c],
           \A p \in Holds(c)' : /\ p \in Holds(c) \/ ~Somewhere(p)
                                /\ state'[p] # "UNUSED",
           \A p \in Process : state[p] # "UNUSED" => state'[p] # "UNUSED"
    PROVE  /\ Placed'
           /\ \A p : Queued(p)' <=> Queued(p)
           /\ \A d \in Core \ {c} : Holds(d)' = Holds(d)
<1>1. \A d \in Core \ {c} : Holds(d)' = Holds(d)
    BY OthersKeep
<1>2. \A p : Queued(p)' <=> Queued(p)
    BY DEF Queued, At
<1>3. \A d \in Core : (Carries(d) /\ Owns(d))' => proc'[d] # running_list'[d]
    BY OthersKeep DEF Placed, OnePlace, Others
<1>4. \A d, e \in Core : d # e => (Holds(d) \cap Holds(e))' = {}
    BY <1>1 DEF Placed, OnePlace, Somewhere
<1>5. \A d \in Core : \A p \in Holds(d)' : ~Queued(p)'
    BY <1>1, <1>2 DEF Placed, OnePlace, Somewhere
<1>6. OnePlace'
    BY <1>3, <1>4, <1>5 DEF Placed, OnePlace, At
<1>7. \A d \in Core : \A p \in Holds(d)' : state'[p] # "UNUSED"
    BY <1>1 DEF Placed, ExistInv, Holds
<1>8. ExistInv'
    BY <1>7, Positions DEF Placed, ExistInv, At
<1> QED
    BY <1>1, <1>2, <1>6, <1>8 DEF Placed

LEMMA PlainType ==
    ASSUME TypeOK, NEW c \in Core, NEW l \in OwnPc \cup {"next", "blocked"},
           pc' = [pc EXCEPT ![c] = l],
           UNCHANGED <<queueVars, affinityset, ticks, running_list, proc, link, scanVars,
                       target, level>>,
           state' \in [Process -> {"UNUSED", "RUNNABLE", "ZOMBIE"}], live_procs' \in Nat
    PROVE  TypeOK'
<1>1. pc' \in [Core -> Label]
    <2>1. l \in Label
        BY DEF OwnPc, Label
    <2> QED
        BY <2>1 DEF TypeOK
<1> QED
    BY <1>1 DEF TypeOK, queueVars, scanVars

(* A step of a call that is not in ready() or next(). *)
LEMMA PlainStep ==
    ASSUME BaseInv, Placed, QueueMutex, TypeOK', NEW c \in Core,
           NEW l \in OwnPc \cup {"next", "blocked"},
           pc[c] \in OwnPc \/ (pc[c] = "blocked" /\ l = "next"),
           pc' = [pc EXCEPT ![c] = l],
           UNCHANGED <<queueVars, running_list, proc, link, scanVars, target, level>>,
           \A p \in Process : state[p] # "UNUSED" => state'[p] # "UNUSED"
    PROVE  /\ BaseInv' /\ Placed' /\ QueueMutex' /\ Others(c)
           /\ \A p : Queued(p)' <=> Queued(p)
           /\ \A d \in Core \ {c} : Holds(d)' = Holds(d)
           /\ Holds(c)' = IF l \in OwnPc THEN Holds(c) ELSE {}
           /\ pc[c] \in OwnPc => /\ running_list[c] \in Process
                                 /\ Holds(c) = {running_list[c]}
           /\ pc[c] \notin OwnPc => Holds(c) = {}
<1>0. TypeOK /\ pc'[c] = l
    BY DEF BaseInv, TypeOK
<1>1. Others(c)
    BY <1>0 DEF Others, TypeOK, scanVars
<1>2. /\ ~Carries(c) /\ (Owns(c) <=> pc[c] \in OwnPc)
      /\ ~Carries(c)' /\ (Owns(c)' <=> l \in OwnPc)
    BY <1>0 DEF Carries, Owns, ReadyPc, NextPc, OwnPc
<1>3. pc[c] \in OwnPc => running_list[c] \in Process
    BY <1>2 DEF BaseInv, HolderInv
<1>4. /\ pc[c] \in OwnPc => Holds(c) = {running_list[c]}
      /\ pc[c] \notin OwnPc => Holds(c) = {}
    BY <1>2, <1>3 DEF Holds
<1>5. l \in OwnPc => pc[c] \in OwnPc
    BY DEF OwnPc
<1>6. Holds(c)' = IF l \in OwnPc THEN Holds(c) ELSE {}
    BY <1>2, <1>5 DEF Holds
<1>7. Mine(c)'
    BY <1>0, <1>2, <1>3, <1>5 DEF Mine, ReadyPc, OwnPc
<1>8. \A p \in Holds(c) : p \in Process /\ state[p] # "UNUSED"
    BY DEF Holds, Placed, ExistInv
<1>9. tasks' = tasks
    BY DEF queueVars
<1>10. /\ Placed'
       /\ \A p : Queued(p)' <=> Queued(p)
       /\ \A d \in Core \ {c} : Holds(d)' = Holds(d)
    BY <1>0, <1>1, <1>2, <1>6, <1>8, <1>9, ShiftPlaced
<1>11. QueueMutex'
    <2>1. Stays(c)
        BY <1>0 DEF Stays, InQueueSection, OwnPc, queueVars
    <2> QED
        BY <1>0, <1>1, <2>1, MutexStep DEF SectionStep
<1>12. BaseInv'
    BY <1>1, <1>7, BaseOfMine
<1> QED
    BY <1>1, <1>3, <1>4, <1>6, <1>10, <1>11, <1>12

(* A core with a wait queue locked readies a process that is nowhere. *)
LEMMA WakeStep ==
    ASSUME BaseInv, Placed, QueueMutex, TypeOK', NEW c \in Core, NEW p \in Process,
           ~Somewhere(p), NEW l \in {"exit_alert", "sem_alert"}, pc[c] = l,
           CallReady(c, p, l), UNCHANGED <<queueVars, running_list, target, level>>
    PROVE  /\ BaseInv' /\ Placed' /\ QueueMutex' /\ Others(c)
           /\ \A x : Queued(x)' <=> Queued(x)
           /\ \A d \in Core \ {c} : Holds(d)' = Holds(d)
           /\ Holds(c) = {running_list[c]} /\ Holds(c)' = Holds(c) \cup {p}
           /\ pc'[c] = "pick" /\ link'[c] = l
           /\ state' = [state EXCEPT ![p] = "RUNNABLE"]
<1>0. TypeOK
    BY DEF BaseInv
<1>1. /\ pc'[c] = "pick" /\ proc'[c] = p /\ link'[c] = l
      /\ state' = [state EXCEPT ![p] = "RUNNABLE"] /\ Others(c)
    BY <1>0, CallReadyEffect DEF Others
<1>2. ~Carries(c) /\ Owns(c) /\ Carries(c)' /\ Owns(c)'
    BY <1>1 DEF Carries, Owns, ReadyPc, NextPc, LetsGo
<1>3. running_list[c] \in Process
    BY <1>2 DEF BaseInv, HolderInv
<1>4. Holds(c) = {running_list[c]} /\ Holds(c)' = {running_list[c], p}
    BY <1>1, <1>2, <1>3 DEF Holds
<1>5. running_list[c] # p
    BY <1>4 DEF Somewhere
<1>6. \A x \in Process : state[x] # "UNUSED" => state'[x] # "UNUSED"
    BY <1>0, <1>1 DEF TypeOK
<1>7. state'[p] # "UNUSED" /\ state[running_list[c]] # "UNUSED"
    BY <1>0, <1>1, <1>4 DEF TypeOK, Placed, ExistInv
<1>8. tasks' = tasks
    BY DEF queueVars
<1>9. \A x \in Holds(c)' : (x \in Holds(c) \/ ~Somewhere(x)) /\ state'[x] # "UNUSED"
    BY <1>3, <1>4, <1>6, <1>7
<1>10. /\ Placed'
       /\ \A x : Queued(x)' <=> Queued(x)
       /\ \A d \in Core \ {c} : Holds(d)' = Holds(d)
    BY <1>0, <1>1, <1>5, <1>6, <1>8, <1>9, ShiftPlaced
<1>11. Mine(c)'
    BY <1>1, <1>3 DEF Mine, ReturnPc
<1>12. QueueMutex'
    <2>1. Stays(c)
        BY <1>1 DEF Stays, InQueueSection, queueVars
    <2> QED
        BY <1>0, <1>1, <2>1, MutexStep DEF SectionStep
<1>13. BaseInv'
    BY <1>1, <1>11, BaseOfMine
<1> QED
    BY <1>1, <1>4, <1>10, <1>12, <1>13

(* Where a step of the scheduler can lead: ready() goes on or returns, and *)
(* the rest gets to none of the points of the modules on top.              *)
LEMMA StepPath ==
    ASSUME BaseInv, NEW c \in Core, CoreStep(c)
    PROVE  /\ pc[c] \in ReadyPc =>
                /\ UNCHANGED <<running_list, state, live_procs>>
                /\ \/ pc'[c] \in ReadyPc /\ link'[c] = link[c]
                   \/ pc'[c] = link[c]
           /\ pc[c] \notin ReadyPc =>
                /\ pc[c] \notin (OwnPc \cup {"blocked"}) \ {"user"}
                /\ pc'[c] \notin (OwnPc \cup {"blocked"}) \ {"user"}
                /\ pc'[c] \in ReadyPc => link'[c] \in {"user", "next", "boot_root"}
<1>0. TypeOK
    BY DEF BaseInv
<1>1. CASE PickInactive(c) \/ PickDecide(c) \/ ReadyLock(c) \/ ReadyLength(c)
    <2>1. pc[c] \in ReadyPc /\ pc'[c] \in ReadyPc
        BY <1>0, <1>1 DEF PickInactive, PickDecide, ReadyLock, ReadyLength, TypeOK, ReadyPc
    <2>2. UNCHANGED <<running_list, state, live_procs, link>>
        BY <1>1 DEF PickInactive, PickDecide, ReadyLock, ReadyLength, procVars
    <2> QED
        BY <2>1, <2>2
<1>2. CASE ReadyAdd(c)
    <2>1. pc[c] \in ReadyPc /\ pc'[c] = link[c]
        BY <1>0, <1>2 DEF ReadyAdd, TypeOK, ReadyPc
    <2> QED
        BY <1>2, <2>1 DEF ReadyAdd, procVars
<1>3. CASE NextLock(c) \/ NextProc(c) \/ PullLock(c) \/ PullBusiest(c)
    <2>1. pc[c] \in {"next", "next_scan", "next_len", "busiest"}
        BY <1>3 DEF NextLock, NextProc, NextTake, NextMiss, NextRun, PullLock, PullBusiest
    <2>2. pc'[c] \in {"next", "next_scan", "next_len", "null", "user", "busiest", "pull_scan"}
        BY <1>0, <1>3, <2>1
        DEF NextLock, NextProc, NextTake, NextMiss, NextRun, PullLock, PullBusiest, TypeOK
    <2> QED
        BY <2>1, <2>2 DEF ReadyPc, OwnPc
<1>4. ASSUME NEW p, NEW l \in {"user", "next", "boot_root"}, CallReady(c, p, l),
             pc[c] \in {"user", "busiest", "pull_scan", "boot", "boot_root"}
      PROVE  /\ pc[c] \notin ReadyPc
             /\ pc[c] \notin (OwnPc \cup {"blocked"}) \ {"user"}
             /\ pc'[c] \notin (OwnPc \cup {"blocked"}) \ {"user"}
             /\ pc'[c] \in ReadyPc => link'[c] \in {"user", "next", "boot_root"}
    <2>1. pc'[c] = "pick" /\ link'[c] = l
        BY <1>0, <1>4 DEF CallReady, TypeOK
    <2> QED
        BY <1>4, <2>1 DEF ReadyPc, OwnPc
<1>5. CASE PullSkip(c) \/ PullScan(c) \/ Boot(c) \/ SysCall(c)
    <2>1. CASE PullSkip(c) \/ PullScan(c) \/ Boot(c) \/ Yield(c)
               \/ \E t \in Thread, m \in Masks : PthreadCreate(c, t, m)
        BY <1>4, <2>1 DEF PullSkip, PullScan, Boot, BootIdle, BootRoot, Yield,
                          PthreadCreate, ProcCreate
    <2>2. ASSUME NEW m \in Masks, SetAffinity(c, m)
          PROVE  \/ CallReady(c, running_list[c], "next")
                 \/ UNCHANGED <<pc, link>>
        BY <2>2 DEF SetAffinity
    <2>3. ASSUME NEW m \in Masks, SetAffinity(c, m) PROVE pc[c] = "user"
        BY <2>3 DEF SetAffinity
    <2>4. "user" \notin ReadyPc /\ "user" \notin (OwnPc \cup {"blocked"}) \ {"user"}
        BY DEF ReadyPc
    <2> QED
        BY <1>4, <1>5, <2>1, <2>2, <2>3, <2>4 DEF SysCall
<1>6. CASE TimeSlice(c)
    <2>1. pc[c] = "user" /\ (CallReady(c, running_list[c], "next") \/ pc'[c] = "busiest")
        BY <1>0, <1>6 DEF TimeSlice, TypeOK
    <2>2. "busiest" \notin ReadyPc /\ "busiest" \notin OwnPc \cup {"blocked"} /\ "user" \notin ReadyPc
        BY DEF ReadyPc, OwnPc
    <2> QED
        BY <1>4, <2>1, <2>2
<1> QED
    BY <1>1, <1>2, <1>3, <1>5, <1>6 DEF CoreStep, Kernel, Acquire, Ready, Pull

(* Every variable of the scheduler keeps its type: no queue index leaves   *)
(* the cores, no position leaves the kernel path. *)
THEOREM DispatchTypeCorrect == Spec => []TypeOK
<1>1. PlaceInv => TypeOK
    BY DEF PlaceInv, BaseInv
<1> QED
    BY <1>1, PlaceAlways, PTL

(* A process is held by one core or waits at one position of one queue,    *)
(* and never both: ready(current), which publishes a process whose core is *)
(* still in the kernel, never lets two cores run it. *)
THEOREM ProcessInOnePlace == Spec => []OnePlace
<1>1. PlaceInv => OnePlace
    BY DEF PlaceInv, Placed
<1> QED
    BY <1>1, PlaceAlways, PTL

(* ready() and next() lose no runnable process. *)
THEOREM NoProcessLost == Spec => []NoLostProcess
<1>1. PlaceInv => NoLostProcess
    BY DEF PlaceInv
<1> QED
    BY <1>1, PlaceAlways, PTL

(* The spinlock of a ready queue admits one core at a time, sched_pull on  *)
(* another core's queue included. *)
THEOREM QueueSectionsExclusive == Spec => []QueueMutex
<1>1. PlaceInv => QueueMutex
    BY DEF PlaceInv
<1> QED
    BY <1>1, PlaceAlways, PTL

(* The length that sched_pickcpu compares is the number of processes in    *)
(* the four lists, but for the one move in progress. *)
THEOREM LengthIsExact == Spec => []LengthExact
<1>1. PlaceInv => LengthExact
    BY DEF PlaceInv
<1> QED
    BY <1>1, PlaceAlways, PTL

-----------------------------------------------------------------------------
(* Hard affinity: processes wait only where they may run, the idle process *)
(* of a core never leaves it, so next() always finds one and a pull never  *)
(* does.                                                                   *)

(* The scan of sched_pickcpu_inactive on core c: what it has picked so far *)
(* is allowed, and so is the queue finally locked.                         *)
ScanRight(c) ==
    /\ pc[c] = "pick" /\ count[c] = NoCount =>
          \A j \in Core : j < cpu[c] => j \notin affinityset[proc[c]]
    /\ pc[c] = "pick" /\ count[c] # NoCount => pick[c] \in affinityset[proc[c]]
    /\ pc[c] \in {"rq_lock", "rq_len", "rq_add"} /\ affinityset[proc[c]] # {}
          => target[c] \in affinityset[proc[c]]

ScanInv == \A c \in Core : ScanRight(c)

(* An idle process exists once its core has booted, is bound to it, and is *)
(* held by no other core.                                                  *)
IdleInv ==
    /\ \A c \in Core : pc[c] # "boot" => state[Idle(c)] # "UNUSED"
    /\ \A c \in Core : state[Idle(c)] # "UNUSED" => affinityset[Idle(c)] = {c}
    /\ \A c, d \in Core : Idle(d) \in Holds(c) => c = d

(* A pull only happens on another core's queue.                            *)
PullInv == \A c \in Core : pc[c] = "pull_scan" => target[c] # c

(* No process ends in Dispatch alone.                                      *)
NobodyEnds == \A p \in Process : state[p] # "ZOMBIE"

AffinityInv ==
    /\ PlaceInv /\ ScanInv /\ QueuedWhereAllowed /\ IdleInv
    /\ NobodyEnds /\ NextNeverNull /\ PullInv

-----------------------------------------------------------------------------
(* Who may change an affinity set: the process itself, or its creation.    *)
Creates(c, p) ==
    /\ state[p] = "UNUSED" /\ pc[c] \in {"boot", "boot_root", "user"}
    /\ p \in IdleProcess => pc[c] = "boot" /\ p = Idle(c) /\ affinityset'[p] = {c}

Rebinds(c, p) == pc[c] = "user" /\ p = running_list[c] /\ p \in Thread

LEMMA Affinities ==
    ASSUME TypeOK, NEW c \in Core, CoreStep(c)
    PROVE  \A p \in Process :
              affinityset'[p] = affinityset[p] \/ Creates(c, p) \/ Rebinds(c, p)
<1>1. CASE UNCHANGED affinityset
    BY <1>1
<1>2. ASSUME NEW m, SetAffinity(c, m)
      PROVE  \A p \in Process : affinityset'[p] = affinityset[p] \/ Rebinds(c, p)
    BY <1>2 DEF SetAffinity, Rebinds, TypeOK
<1>3. ASSUME NEW t \in Thread, NEW m, PthreadCreate(c, t, m)
      PROVE  \A p \in Process : affinityset'[p] = affinityset[p] \/ Creates(c, p)
    BY <1>3, ProcessFacts DEF PthreadCreate, ProcCreate, Creates, TypeOK
<1>4. CASE BootIdle(c)
    BY <1>4, ProcessFacts DEF BootIdle, ProcCreate, Creates, TypeOK
<1>5. CASE BootRoot(c)
    BY <1>5, ProcessFacts DEF BootRoot, ProcCreate, Creates, TypeOK
<1>6. CASE Kernel(c) /\ ~Boot(c)
    BY <1>1, <1>6
    DEF Kernel, Ready, NextProc, Pull, PickInactive, PickDecide, ReadyLength, ReadyAdd,
        NextTake, NextMiss, NextRun, PullBusiest, PullSkip, PullScan, procVars
<1>7. CASE Acquire(c)
    BY <1>1, <1>7 DEF Acquire, ReadyLock, NextLock, PullLock, procVars
<1>8. CASE TimeSlice(c) \/ Yield(c)
    BY <1>1, <1>8 DEF TimeSlice, Yield
<1> QED
    BY <1>2, <1>3, <1>4, <1>5, <1>6, <1>7, <1>8 DEF CoreStep, Kernel, SysCall, Boot

(* The affinity set of what another core carries, or of what is queued,    *)
(* does not change.                                                        *)
LEMMA CarriedAffinity ==
    ASSUME PlaceInv, NEW c \in Core, CoreStep(c), NEW p \in Process,
           Queued(p) \/ \E d \in Core \ {c} : p \in Holds(d)
    PROVE  affinityset'[p] = affinityset[p]
<1>1. TypeOK /\ OnePlace /\ ExistInv /\ HolderInv
    BY DEF PlaceInv, BaseInv, Placed
<1>2. state[p] # "UNUSED"
    BY <1>1 DEF ExistInv, Queued
<1>3. ASSUME Rebinds(c, p) PROVE p \in Holds(c)
    BY <1>3 DEF Rebinds, Holds, Owns, NextPc, ReadyPc
<1>4. ~(p \in Holds(c))
    BY <1>1 DEF OnePlace
<1> QED
    BY <1>1, <1>2, <1>3, <1>4, Affinities DEF Creates

-----------------------------------------------------------------------------
(* The scan. *)
LEMMA ScanOthers ==
    ASSUME PlaceInv, ScanInv, NEW c \in Core, CoreStep(c), Others(c), ScanRight(c)'
    PROVE  ScanInv'
<1>1. ASSUME NEW d \in Core \ {c} PROVE ScanRight(d)'
    <2>1. CASE pc[d] \in ReadyPc
        <3>1. proc[d] \in Process /\ proc[d] \in Holds(d)
            BY <2>1 DEF PlaceInv, BaseInv, HolderInv, Carries, Holds
        <3>2. affinityset'[proc[d]] = affinityset[proc[d]]
            BY <3>1, CarriedAffinity
        <3> QED
            BY <3>2 DEF ScanInv, ScanRight, Others
    <2>2. CASE pc[d] \notin ReadyPc
        BY <2>2 DEF ScanRight, Others, ReadyPc
    <2> QED
        BY <2>1, <2>2
<1> QED
    BY <1>1 DEF ScanInv

LEMMA CallReadyScan ==
    ASSUME TypeOK, NEW c \in Core, NEW p \in Process, NEW l, CallReady(c, p, l)
    PROVE  ScanRight(c)'
<1>1. pc'[c] = "pick" /\ cpu'[c] = 0 /\ count'[c] = NoCount
    BY CallReadyEffect
<1>2. \A j \in Core : ~(j < 0)
    BY CoreFacts
<1> QED
    BY <1>1, <1>2 DEF ScanRight

LEMMA PickScan ==
    ASSUME PlaceInv, ScanInv, NEW c \in Core, PickInactive(c)
    PROVE  ScanRight(c)'
<1>1. TypeOK /\ LengthExact
    BY DEF PlaceInv, BaseInv
<1>2. /\ pc[c] = "pick" /\ UNCHANGED <<pc, proc, affinityset>>
      /\ cpu[c] < NumCores /\ cpu' = [cpu EXCEPT ![c] = @ + 1]
    BY DEF PickInactive, procVars
<1>3. cpu[c] \in Core /\ cpu[c] \in Int /\ NumCores \in Nat
    <2>1. cpu[c] \in 0 .. NumCores /\ cpu[c] < NumCores
        BY <1>1, <1>2 DEF TypeOK
    <2> QED
        BY <2>1, CoreFacts
<1>4. cpu'[c] = cpu[c] + 1
    BY <1>1, <1>2 DEF TypeOK
<1>5. length[cpu[c]] # NoCount
    <2>1. Total(cpu[c]) \in Nat
        BY <1>1, <1>3, TotalNat
    <2>2. length[cpu[c]] \in Nat
        BY <1>1, <1>3, <2>1 DEF LengthExact
    <2> QED
        BY <2>2 DEF NoCount
<1>6. CASE /\ count[c] = NoCount \/ length[cpu[c]] < count[c]
           /\ cpu[c] \in affinityset[proc[c]]
    <2>1. pick'[c] = cpu[c] /\ count'[c] = length[cpu[c]]
        BY <1>1, <1>6 DEF PickInactive, TypeOK
    <2> QED
        BY <1>2, <1>5, <1>6, <2>1 DEF ScanRight
<1>7. CASE ~(/\ count[c] = NoCount \/ length[cpu[c]] < count[c]
             /\ cpu[c] \in affinityset[proc[c]])
    <2>1. UNCHANGED <<pick, count>>
        BY <1>7 DEF PickInactive
    <2>2. ASSUME count[c] = NoCount, NEW j \in Core, j < cpu[c] + 1
          PROVE  j \notin affinityset[proc[c]]
        <3>1. j < cpu[c] \/ j = cpu[c]
            BY <1>3, <2>2, CoreFacts
        <3> QED
            BY <1>2, <1>7, <2>2, <3>1 DEF ScanInv, ScanRight
    <2> QED
        BY <1>2, <1>4, <2>1, <2>2 DEF ScanInv, ScanRight
<1> QED
    BY <1>6, <1>7

LEMMA DecideScan ==
    ASSUME PlaceInv, ScanInv, NEW c \in Core, PickDecide(c)
    PROVE  ScanRight(c)'
<1>1. TypeOK
    BY DEF PlaceInv, BaseInv
<1>2. /\ pc[c] = "pick" /\ pc'[c] = "rq_lock" /\ UNCHANGED <<proc, affinityset>>
      /\ cpu[c] = NumCores /\ target'[c] = PickCpu(c)
    BY <1>1 DEF PickDecide, procVars, TypeOK
<1>3. proc[c] \in Process
    BY <1>2 DEF PlaceInv, BaseInv, HolderInv, Carries, ReadyPc
<1>4. affinityset[proc[c]] \subseteq Core
    BY <1>1, <1>3 DEF TypeOK
<1>5. affinityset[proc[c]] # {} => pick[c] \in affinityset[proc[c]]
    BY <1>2, <1>4, CoreFacts DEF ScanInv, ScanRight
<1> QED
    BY <1>2, <1>5 DEF ScanRight, PickCpu

LEMMA StepScan ==
    ASSUME PlaceInv, ScanInv, NEW c \in Core, CoreStep(c), Others(c)
    PROVE  ScanInv'
<1> SUFFICES ScanRight(c)'
    BY ScanOthers
<1>1. TypeOK /\ HolderInv /\ LinkInv
    BY DEF PlaceInv, BaseInv
<1>2. ASSUME NEW p \in Process, NEW l, CallReady(c, p, l) PROVE ScanRight(c)'
    BY <1>1, <1>2, CallReadyScan
<1>3. ASSUME pc'[c] \notin ReadyPc PROVE ScanRight(c)'
    BY <1>3 DEF ScanRight, ReadyPc
<1>4. CASE PickInactive(c)
    BY <1>4, PickScan
<1>5. CASE PickDecide(c)
    BY <1>5, DecideScan
<1>6. CASE ReadyLock(c) \/ ReadyLength(c)
    <2>1. /\ UNCHANGED <<proc, affinityset, target>>
          /\ pc[c] \in {"rq_lock", "rq_len"} /\ pc'[c] \in {"rq_len", "rq_add"}
        BY <1>1, <1>6 DEF ReadyLock, ReadyLength, procVars, TypeOK
    <2> QED
        BY <2>1 DEF ScanInv, ScanRight
<1>7. CASE ReadyAdd(c)
    <2>1. pc'[c] \in ReturnPc
        BY <1>1, <1>7 DEF ReadyAdd, LinkInv, ReadyPc, TypeOK
    <2> QED
        BY <1>3, <2>1 DEF ReturnPc, ReadyPc
<1>8. CASE NextProc(c) \/ NextLock(c) \/ PullBusiest(c) \/ PullLock(c)
    <2>1. pc'[c] \in {"next", "next_scan", "next_len", "null", "user", "busiest",
                      "pull_scan"}
        BY <1>1, <1>8 DEF NextProc, NextLock, NextTake, NextMiss, NextRun, PullBusiest,
                          PullLock, TypeOK
    <2> QED
        BY <1>3, <2>1 DEF ReadyPc
<1>9. CASE PullSkip(c) \/ PullScan(c) \/ TimeSlice(c) \/ SysCall(c)
    <2>1. pc[c] \in {"busiest", "pull_scan", "user"}
        BY <1>9 DEF PullSkip, PullScan, TimeSlice, SysCall, Yield, SetAffinity, PthreadCreate
    <2>2. running_list[c] \in Process
        BY <1>1, <2>1 DEF HolderInv, Owns, NextPc, ReadyPc
    <2>3. \/ \E p \in Process, l \in {"next", "user"} : CallReady(c, p, l)
          \/ pc'[c] \in {"busiest", "user"}
        BY <1>1, <1>9, <2>2, ProcessFacts
        DEF PullSkip, PullScan, TimeSlice, SysCall, Yield, SetAffinity, PthreadCreate,
            ProcCreate, TypeOK
    <2> QED
        BY <1>2, <1>3, <2>3 DEF ReadyPc
<1>10. CASE Boot(c)
    BY <1>2, <1>10, ProcessFacts DEF Boot, BootIdle, BootRoot, ProcCreate
<1> QED
    BY <1>4, <1>5, <1>6, <1>7, <1>8, <1>9, <1>10
    DEF CoreStep, Kernel, Acquire, Ready, Pull

-----------------------------------------------------------------------------
(* Where processes wait. *)
LEMMA StepQueued ==
    ASSUME PlaceInv, ScanInv, QueuedWhereAllowed, NEW c \in Core, CoreStep(c)
    PROVE  QueuedWhereAllowed'
<1>1. TypeOK /\ HolderInv
    BY DEF PlaceInv, BaseInv
<1>2. \A q \in Core, i \in Priority : \A k \in 1 .. Len(tasks[q][i]) :
          LET m == affinityset'[At(q, i, k)] IN m # {} => q \in m
    <2>1. ASSUME NEW q \in Core, NEW i \in Priority, NEW k \in 1 .. Len(tasks[q][i])
          PROVE  /\ affinityset'[At(q, i, k)] = affinityset[At(q, i, k)]
                 /\ affinityset[At(q, i, k)] # {} => q \in affinityset[At(q, i, k)]
        <3>1. At(q, i, k) \in Process /\ Queued(At(q, i, k))
            BY <1>1, Positions DEF Queued
        <3> QED
            BY <3>1, CarriedAffinity DEF QueuedWhereAllowed
    <2> QED
        BY <2>1
<1>3. CASE UNCHANGED tasks
    BY <1>2, <1>3 DEF QueuedWhereAllowed, At
<1>4. CASE ReadyAdd(c)
    <2>1. PICK q \in Core, i \in Priority, p \in Process :
              q = target[c] /\ i = prio(proc[c]) /\ p = proc[c]
        BY <1>1, <1>4, PriorityFacts DEF TypeOK, ReadyAdd, HolderInv, Carries, ReadyPc
    <2>2. /\ tasks'[q][i] = Append(tasks[q][i], p)
          /\ \A r \in Core, j \in Priority : r # q \/ j # i => tasks'[r][j] = tasks[r][j]
          /\ affinityset' = affinityset
        BY <1>1, <1>4, <2>1 DEF ReadyAdd, procVars, TypeOK
    <2>3. affinityset'[p] # {} => q \in affinityset'[p]
        BY <1>4, <2>1, <2>2 DEF ReadyAdd, ScanInv, ScanRight
    <2>4. \A r \in Core, j \in Priority : \A k \in 1 .. Len(tasks'[r][j]) :
              \/ k \in 1 .. Len(tasks[r][j]) /\ At(r, j, k)' = At(r, j, k)
              \/ /\ r = q /\ j = i /\ k = Len(tasks[q][i]) + 1
                 /\ At(r, j, k)' = p
        BY <1>1, <2>2, Appended
    <2>5. ASSUME NEW r \in Core, NEW j \in Priority, NEW k \in 1 .. Len(tasks'[r][j])
          PROVE  affinityset'[At(r, j, k)'] # {} => r \in affinityset'[At(r, j, k)']
        BY <1>2, <2>3, <2>4
    <2> QED
        BY <2>5 DEF QueuedWhereAllowed
<1>5. CASE NextTake(c)
    <2>1. PICK i \in Priority : i = level[c]
        BY <1>1 DEF TypeOK
    <2>2. tasks[c][i] # <<>> /\ tasks' = [tasks EXCEPT ![c][i] = Tail(@)]
        BY <1>1, <1>5, <2>1 DEF NextTake, TypeOK
    <2>3. /\ \A r \in Core, j \in Priority : r # c \/ j # i =>
                tasks'[r][j] = tasks[r][j]
          /\ \A k \in 1 .. Len(tasks'[c][i]) :
                k + 1 \in 1 .. Len(tasks[c][i]) /\ At(c, i, k)' = At(c, i, k + 1)
        BY <1>1, <2>2, Removed
    <2>4. ASSUME NEW r \in Core, NEW j \in Priority, NEW k \in 1 .. Len(tasks'[r][j])
          PROVE  \E n \in 1 .. Len(tasks[r][j]) : At(r, j, k)' = At(r, j, n)
        BY <2>3 DEF At
    <2>5. ASSUME NEW r \in Core, NEW j \in Priority, NEW k \in 1 .. Len(tasks'[r][j])
          PROVE  affinityset'[At(r, j, k)'] # {} => r \in affinityset'[At(r, j, k)']
        BY <1>2, <2>4
    <2> QED
        BY <2>5 DEF QueuedWhereAllowed
<1> QED
    BY <1>3, <1>4, <1>5
    DEF CoreStep, Kernel, Acquire, SysCall, Ready, NextProc, Pull, Boot,
        PickInactive, PickDecide, ReadyLock, ReadyLength, NextLock, NextMiss, NextRun,
        TimeSlice, PullBusiest, PullSkip, PullLock, PullScan, Yield, SetAffinity,
        PthreadCreate, BootIdle, BootRoot, queueVars

-----------------------------------------------------------------------------
(* A process comes into being only by proc_create, and ready() marks only  *)
(* processes that exist.                                                   *)
LEMMA States ==
    ASSUME PlaceInv, NEW c \in Core, CoreStep(c)
    PROVE  /\ \A p \in Process :
                 \/ state'[p] = state[p]
                 \/ state'[p] = "RUNNABLE" /\ (state[p] # "UNUSED" \/ Creates(c, p))
           /\ pc[c] = "boot" => state'[Idle(c)] = "RUNNABLE"
<1>1. TypeOK /\ HolderInv /\ ExistInv /\ Idle(c) \in Process
    BY ProcessFacts DEF PlaceInv, BaseInv, Placed
<1> DEFINE Marks == \A p \in Process :
              \/ state'[p] = state[p]
              \/ state'[p] = "RUNNABLE" /\ (state[p] # "UNUSED" \/ Creates(c, p))
<1> SUFFICES Marks /\ (pc[c] = "boot" => state'[Idle(c)] = "RUNNABLE")
    OBVIOUS
<1>2. ASSUME NEW p \in Process, NEW l, CallReady(c, p, l),
             state[p] # "UNUSED" \/ Creates(c, p)
      PROVE  Marks
    BY <1>1, <1>2 DEF CallReady, TypeOK
<1>3. CASE UNCHANGED state /\ pc[c] # "boot"
    BY <1>3
<1>4. ASSUME pc[c] \in {"busiest", "pull_scan", "user"}
      PROVE  running_list[c] \in Process /\ state[running_list[c]] # "UNUSED"
    <2>1. running_list[c] \in Holds(c)
        BY <1>1, <1>4 DEF HolderInv, Owns, NextPc, ReadyPc, Holds
    <2> QED
        BY <1>1, <2>1 DEF ExistInv, Holds
<1>5. CASE PullSkip(c) \/ PullScan(c) \/ TimeSlice(c) \/ Yield(c)
           \/ \E m \in Masks \ {{}} : SetAffinity(c, m)
    <2>1. pc[c] \in {"busiest", "pull_scan", "user"}
        BY <1>5 DEF PullSkip, PullScan, TimeSlice, Yield, SetAffinity
    <2>2. UNCHANGED state \/ CallReady(c, running_list[c], "next")
        BY <1>5 DEF PullSkip, PullScan, TimeSlice, Yield, SetAffinity
    <2> QED
        BY <1>2, <1>4, <2>1, <2>2
<1>6. ASSUME NEW t \in Thread, NEW m, PthreadCreate(c, t, m)
      PROVE  Marks /\ pc[c] # "boot"
    <2>1. CallReady(c, t, "user") /\ Creates(c, t) /\ t \in Process /\ pc[c] # "boot"
        BY <1>6, ProcessFacts DEF PthreadCreate, ProcCreate, Creates
    <2> QED
        BY <1>2, <2>1
<1>7. CASE BootIdle(c)
    <2>1. /\ CallReady(c, Idle(c), "boot_root") /\ Creates(c, Idle(c))
          /\ state' = [state EXCEPT ![Idle(c)] = "RUNNABLE"]
        BY <1>1, <1>7 DEF BootIdle, ProcCreate, CallReady, Creates, TypeOK
    <2> QED
        BY <1>1, <1>2, <2>1 DEF TypeOK
<1>8. CASE BootRoot(c)
    <2>1. /\ CallReady(c, Root(c), "next") /\ Creates(c, Root(c)) /\ pc[c] # "boot"
          /\ Root(c) \in Process
        BY <1>8, ProcessFacts DEF BootRoot, ProcCreate, Creates
    <2> QED
        BY <1>2, <2>1
<1>9. CASE Ready(c) \/ NextProc(c) \/ Acquire(c) \/ PullBusiest(c)
    BY <1>3, <1>9
    DEF Ready, NextProc, Acquire, PickInactive, PickDecide, ReadyLock, ReadyLength,
        ReadyAdd, NextLock, NextTake, NextMiss, NextRun, PullLock, PullBusiest, procVars
<1> HIDE DEF Marks
<1> QED
    BY <1>5, <1>6, <1>7, <1>8, <1>9 DEF CoreStep, Kernel, Pull, Boot, SysCall

LEMMA StepNobodyEnds ==
    ASSUME PlaceInv, NobodyEnds, NEW c \in Core, CoreStep(c) PROVE NobodyEnds'
BY States DEF NobodyEnds

-----------------------------------------------------------------------------
(* What a core comes to hold it has created or taken from its own queue.   *)
LEMMA HoldsStep ==
    ASSUME PlaceInv, NEW c \in Core, CoreStep(c)
    PROVE  \A p \in Holds(c)' :
              \/ p \in Holds(c)
              \/ Creates(c, p)
              \/ \E i \in Priority : \E k \in 1 .. Len(tasks[c][i]) : At(c, i, k) = p
<1>1. BaseInv /\ TypeOK /\ OnePlace /\ LinkInv
    BY DEF PlaceInv, BaseInv, Placed
<1>2. CASE Keep(c)
    BY <1>2 DEF Keep
<1>3. ASSUME NEW p \in Process, NEW m, NEW l, ProcCreate(c, p, m, l),
             UNCHANGED running_list, Owns(c) <=> l \notin LetsGo, Creates(c, p)
      PROVE  \A r \in Holds(c)' : r \in Holds(c) \/ Creates(c, r)
    <2>1. pc'[c] = "pick" /\ proc'[c] = p /\ link'[c] = l
        BY <1>1, <1>3, CallReadyEffect DEF ProcCreate
    <2>2. Owns(c)' <=> Owns(c)
        BY <1>3, <2>1 DEF Owns, ReadyPc, NextPc
    <2> QED
        BY <1>3, <2>1, <2>2 DEF Holds
<1>4. CASE ReadyAdd(c)
    <2>1. /\ pc[c] = "rq_add" /\ pc'[c] = link[c] /\ link[c] \in ReturnPc
          /\ running_list' = running_list
        BY <1>1, <1>4 DEF ReadyAdd, TypeOK, LinkInv, ReadyPc
    <2>2. ~Carries(c)' /\ (Owns(c)' <=> Owns(c))
        BY <2>1 DEF Carries, Owns, ReadyPc, NextPc, LetsGo, ReturnPc
    <2> QED
        BY <2>1, <2>2 DEF Holds
<1>5. CASE NextTake(c)
    <2>1. PICK i \in Priority : i = level[c]
        BY <1>1 DEF TypeOK
    <2>2. /\ tasks[c][i] # <<>> /\ tasks' = [tasks EXCEPT ![c][i] = Tail(@)]
          /\ pc'[c] = "next_len" /\ proc'[c] = Head(tasks[c][i])
        BY <1>1, <1>5, <2>1 DEF NextTake, TypeOK
    <2>3. 1 \in 1 .. Len(tasks[c][i]) /\ Head(tasks[c][i]) = At(c, i, 1)
        BY <1>1, <2>2, Removed
    <2>4. ~Owns(c)'
        BY <2>2 DEF Owns, NextPc
    <2> QED
        BY <2>2, <2>3, <2>4 DEF Holds
<1>6. CASE Boot(c)
    <2>0. ~Owns(c) /\ UNCHANGED running_list
        BY <1>6 DEF Boot, BootIdle, BootRoot, Owns
    <2>1. CASE BootIdle(c)
        <3>1. ProcCreate(c, Idle(c), {c}, "boot_root") /\ Idle(c) \in Process
            BY <2>1, ProcessFacts DEF BootIdle
        <3>2. Creates(c, Idle(c))
            BY <1>1, <2>1, <3>1 DEF BootIdle, ProcCreate, Creates, TypeOK
        <3> QED
            BY <1>3, <2>0, <3>1, <3>2 DEF LetsGo
    <2>2. CASE BootRoot(c)
        <3>1. ProcCreate(c, Root(c), {c}, "next") /\ Root(c) \in Process
            BY <2>2, ProcessFacts DEF BootRoot
        <3>2. Creates(c, Root(c))
            BY <2>2, <3>1, ProcessFacts DEF BootRoot, ProcCreate, Creates
        <3> QED
            BY <1>3, <2>0, <3>1, <3>2 DEF LetsGo
    <2> QED
        BY <1>6, <2>1, <2>2 DEF Boot
<1>7. ASSUME NEW t \in Thread, NEW m \in Masks, PthreadCreate(c, t, m)
      PROVE  \A r \in Holds(c)' : r \in Holds(c) \/ Creates(c, r)
    BY <1>3, <1>7, ProcessFacts
    DEF PthreadCreate, Owns, NextPc, ReadyPc, LetsGo, Creates, ProcCreate
<1>8. CASE Ready(c) \/ ReadyLock(c)
    BY <1>1, <1>2, <1>4, <1>8, ReadyKeep DEF Ready
<1>9. CASE NextProc(c) \/ NextLock(c)
    BY <1>1, <1>2, <1>5, <1>9, NextKeep DEF NextProc
<1>10. CASE Pull(c) \/ PullLock(c)
    BY <1>1, <1>2, <1>10, PullKeep DEF Pull
<1>11. CASE TimeSlice(c) \/ SysCall(c)
    BY <1>1, <1>2, <1>7, <1>11, UserKeep DEF SysCall
<1> QED
    BY <1>6, <1>8, <1>9, <1>10, <1>11 DEF CoreStep, Kernel, Acquire

LEMMA StepIdle ==
    ASSUME PlaceInv, QueuedWhereAllowed, IdleInv, NEW c \in Core, CoreStep(c), Others(c)
    PROVE  IdleInv'
<1>1. TypeOK /\ ExistInv /\ \A d \in Core : Idle(d) \in Process
    BY ProcessFacts DEF PlaceInv, BaseInv, Placed
<1>2. ASSUME NEW d \in Core, pc'[d] # "boot" PROVE state'[Idle(d)] # "UNUSED"
    <2>1. CASE pc[d] = "boot"
        BY <1>2, <2>1, States DEF Others
    <2>2. CASE pc[d] # "boot"
        BY <1>1, <2>2, States DEF IdleInv
    <2> QED
        BY <2>1, <2>2
<1>3. ASSUME NEW d \in Core, state'[Idle(d)] # "UNUSED"
      PROVE  affinityset'[Idle(d)] = {d}
    <2>1. CASE Creates(c, Idle(d))
        BY <2>1, ProcessFacts DEF Creates
    <2>2. CASE ~Creates(c, Idle(d))
        <3>1. state[Idle(d)] # "UNUSED"
            BY <1>1, <1>3, <2>2, States
        <3>2. affinityset'[Idle(d)] = affinityset[Idle(d)]
            BY <1>1, <2>2, Affinities, ProcessFacts DEF Rebinds
        <3> QED
            BY <3>1, <3>2 DEF IdleInv
    <2> QED
        BY <2>1, <2>2
<1>4. ASSUME NEW e \in Core, NEW d \in Core, Idle(d) \in Holds(e)' PROVE e = d
    <2>1. CASE e # c
        BY <1>4, <2>1, OthersKeep DEF IdleInv
    <2>2. CASE e = c
        <3>1. CASE Idle(d) \in Holds(c)
            BY <2>2, <3>1 DEF IdleInv
        <3>2. CASE Creates(c, Idle(d))
            BY <2>2, <3>2, ProcessFacts DEF Creates
        <3>3. ASSUME NEW i \in Priority, NEW k \in 1 .. Len(tasks[c][i]),
                     At(c, i, k) = Idle(d)
              PROVE  c = d
            <4>1. state[Idle(d)] # "UNUSED"
                BY <1>1, <3>3 DEF ExistInv
            <4>2. affinityset[Idle(d)] = {d}
                BY <4>1 DEF IdleInv
            <4> QED
                BY <3>3, <4>2 DEF QueuedWhereAllowed
        <3> QED
            BY <1>4, <2>2, <3>1, <3>2, <3>3, HoldsStep
    <2> QED
        BY <2>1, <2>2
<1> QED
    BY <1>2, <1>3, <1>4 DEF IdleInv

(* The idle process of a core that is in next() is in its IDLE list.       *)
LEMMA IdleWaits ==
    ASSUME AffinityInv, NEW c \in Core, pc[c] = "next_scan"
    PROVE  tasks[c][IDLE] # <<>>
<1>1. Idle(c) \in Process /\ Idle(c) \in IdleProcess
    BY ProcessFacts
<1>2. state[Idle(c)] = "RUNNABLE" /\ affinityset[Idle(c)] = {c}
    BY <1>1 DEF AffinityInv, IdleInv, NobodyEnds, PlaceInv, BaseInv, TypeOK
<1>3. Holds(c) = {}
    BY DEF Holds, Carries, Owns, ReadyPc, NextPc
<1>4. Queued(Idle(c))
    BY <1>1, <1>2, <1>3 DEF AffinityInv, PlaceInv, NoLostProcess, IdleInv
<1>5. PICK q \in Core, i \in Priority : \E k \in 1 .. Len(tasks[q][i]) : At(q, i, k) = Idle(c)
    BY <1>4 DEF Queued
<1>6. PICK k \in 1 .. Len(tasks[q][i]) : At(q, i, k) = Idle(c)
    BY <1>5
<1>7. q = c
    BY <1>2, <1>6 DEF AffinityInv, QueuedWhereAllowed
<1>8. i = IDLE
    BY <1>1, <1>6 DEF AffinityInv, PlaceInv, Placed, ExistInv, prio
<1>9. 1 .. Len(<<>>) = {}
    OBVIOUS
<1> QED
    BY <1>6, <1>7, <1>8, <1>9

LEMMA StepNotNull ==
    ASSUME AffinityInv, NEW c \in Core, CoreStep(c), Others(c) PROVE NextNeverNull'
<1>1. TypeOK /\ LinkInv /\ pc[c] # "null"
    BY DEF AffinityInv, PlaceInv, BaseInv, NextNeverNull
<1> SUFFICES pc'[c] # "null"
    BY DEF Others, AffinityInv, NextNeverNull
<1>3. CASE Ready(c)
    <2>1. pc'[c] \in {"pick", "rq_lock", "rq_add"} \cup ReturnPc
        BY <1>1, <1>3 DEF Ready, PickInactive, PickDecide, ReadyLength, ReadyAdd, LinkInv,
                          ReadyPc, TypeOK
    <2> QED
        BY <2>1 DEF ReturnPc
<1>4. CASE NextMiss(c)
    <2>1. level[c] # IDLE
        BY <1>4, IdleWaits DEF NextMiss
    <2> QED
        BY <1>1, <1>4, <2>1 DEF NextMiss, TypeOK
<1>5. CASE NextTake(c) \/ NextRun(c) \/ Acquire(c) \/ Pull(c)
    BY <1>1, <1>5
    DEF NextTake, NextRun, Acquire, ReadyLock, NextLock, PullLock, Pull, PullBusiest,
        PullSkip, PullScan, CallReady, TypeOK
<1>6. CASE Boot(c) \/ TimeSlice(c) \/ SysCall(c)
    BY <1>1, <1>6
    DEF Boot, BootIdle, BootRoot, TimeSlice, SysCall, Yield, SetAffinity, PthreadCreate,
        ProcCreate, CallReady, TypeOK
<1> QED
    BY <1>3, <1>4, <1>5, <1>6 DEF CoreStep, Kernel, NextProc

LEMMA StepPull ==
    ASSUME AffinityInv, NEW c \in Core, CoreStep(c), Others(c) PROVE PullInv'
<1>1. TypeOK /\ LinkInv
    BY DEF AffinityInv, PlaceInv, BaseInv
<1> SUFFICES pc'[c] = "pull_scan" => target'[c] # c
    BY DEF Others, AffinityInv, PullInv
<1>2. CASE PullLock(c)
    BY <1>1, <1>2 DEF PullLock, TypeOK
<1>3. CASE Ready(c)
    <2>1. pc'[c] \in {"pick", "rq_lock", "rq_add"} \cup ReturnPc
        BY <1>1, <1>3 DEF Ready, PickInactive, PickDecide, ReadyLength, ReadyAdd, LinkInv,
                          ReadyPc, TypeOK
    <2> QED
        BY <2>1 DEF ReturnPc
<1>4. CASE NextProc(c) \/ ReadyLock(c) \/ NextLock(c) \/ Pull(c)
    BY <1>1, <1>4
    DEF NextProc, NextTake, NextMiss, NextRun, ReadyLock, NextLock, Pull, PullBusiest,
        PullSkip, PullScan, CallReady, TypeOK
<1>5. CASE Boot(c) \/ TimeSlice(c) \/ SysCall(c)
    BY <1>1, <1>5
    DEF Boot, BootIdle, BootRoot, TimeSlice, SysCall, Yield, SetAffinity, PthreadCreate,
        ProcCreate, CallReady, TypeOK
<1> QED
    BY <1>2, <1>3, <1>4, <1>5 DEF CoreStep, Kernel, Acquire

-----------------------------------------------------------------------------
LEMMA InitAffinity == Init => AffinityInv
<1> SUFFICES ASSUME Init PROVE AffinityInv
    OBVIOUS
<1>1. \A c \in Core : Holds(c) = {} /\ pc[c] = "boot"
    BY DEF Init, Holds, Carries, Owns, ReadyPc, NextPc
<1>2. \A q \in Core, i \in Priority : 1 .. Len(tasks[q][i]) = {}
    BY DEF Init
<1>3. \A p \in Process : state[p] = "UNUSED"
    BY DEF Init
<1>4. IdleInv
    BY <1>1, <1>3, ProcessFacts DEF IdleInv
<1> QED
    BY <1>1, <1>2, <1>3, <1>4, InitPlace
    DEF AffinityInv, ScanInv, ScanRight, QueuedWhereAllowed, NobodyEnds, NextNeverNull, PullInv

LEMMA StutterAffinity ==
    ASSUME AffinityInv, UNCHANGED dispatchVars PROVE AffinityInv'
<1>1. PlaceInv'
    BY StutterPlace DEF AffinityInv
<1>2. ScanInv' /\ PullInv' /\ NextNeverNull'
    BY DEF AffinityInv, dispatchVars, coreVars, scanVars, procVars, ScanInv, ScanRight,
           PullInv, NextNeverNull
<1>3. QueuedWhereAllowed' /\ NobodyEnds'
    BY DEF AffinityInv, dispatchVars, queueVars, procVars, QueuedWhereAllowed, NobodyEnds, At
<1>4. \A c \in Core : Holds(c)' = Holds(c)
    BY DEF dispatchVars, coreVars, Holds, Carries, Owns
<1>5. IdleInv'
    BY <1>4 DEF AffinityInv, dispatchVars, coreVars, procVars, IdleInv
<1> QED
    BY <1>1, <1>2, <1>3, <1>5 DEF AffinityInv

LEMMA NextAffinity ==
    ASSUME AffinityInv, [Next]_dispatchVars PROVE AffinityInv'
<1>1. ASSUME NEW c \in Core, CoreStep(c) PROVE AffinityInv'
    <2>1. PlaceInv' /\ Others(c)
        BY <1>1, NextPlace, StepPlaced DEF AffinityInv, PlaceInv, Next
    <2>2. ScanInv' /\ QueuedWhereAllowed' /\ IdleInv' /\ NobodyEnds'
        BY <1>1, <2>1, StepScan, StepQueued, StepIdle, StepNobodyEnds DEF AffinityInv
    <2>3. NextNeverNull' /\ PullInv'
        BY <1>1, <2>1, StepNotNull, StepPull
    <2> QED
        BY <2>1, <2>2, <2>3 DEF AffinityInv
<1> QED
    BY <1>1, StutterAffinity DEF Next

LEMMA AffinityAlways == Spec => []AffinityInv
BY InitAffinity, NextAffinity, PTL DEF Spec

(* A process waits only in the queue of a core of its affinity set, stale  *)
(* lengths and migrations notwithstanding.                                 *)
THEOREM AffinityRespected == Spec => []QueuedWhereAllowed
<1>1. AffinityInv => QueuedWhereAllowed
    BY DEF AffinityInv
<1> QED
    BY <1>1, AffinityAlways, PTL

(* next() always finds a process, at least the idle process of its core.   *)
THEOREM NextFindsOne == Spec => []NextNeverNull
<1>1. AffinityInv => NextNeverNull
    BY DEF AffinityInv
<1> QED
    BY <1>1, AffinityAlways, PTL

(* The IDLE list of another core holds only that core's idle process,      *)
(* which may not run here: sched_pull never pulls.                         *)
THEOREM PullsNothing == Spec => []PullFindsNothing
<1>1. ASSUME AffinityInv PROVE PullFindsNothing
    <2>1. ASSUME NEW c \in Core, pc[c] = "pull_scan",
                 NEW p \in PullEligible(c, target[c])
          PROVE  FALSE
        <3>1. target[c] \in Core /\ target[c] # c
            BY <1>1, <2>1 DEF AffinityInv, PullInv, PlaceInv, BaseInv, TypeOK
        <3>2. PICK k \in 1 .. Len(tasks[target[c]][IDLE]) : At(target[c], IDLE, k) = p
            BY DEF PullEligible, PullList, At
        <3>3. c \in affinityset[p] /\ p \in Process
            BY DEF PullEligible
        <3>4. state[p] # "UNUSED" /\ prio(p) = IDLE
            BY <1>1, <3>1, <3>2, PriorityFacts DEF AffinityInv, PlaceInv, Placed, ExistInv
        <3>5. PICK d \in Core : p = Idle(d)
            BY <3>4, PriorityFacts DEF prio, IdleProcess
        <3>6. affinityset[p] = {d}
            BY <1>1, <3>4, <3>5 DEF AffinityInv, IdleInv
        <3>7. target[c] \in affinityset[p]
            BY <1>1, <3>1, <3>2, <3>6, PriorityFacts DEF AffinityInv, QueuedWhereAllowed
        <3> QED
            BY <3>1, <3>3, <3>6, <3>7
    <2> QED
        BY <2>1 DEF PullFindsNothing
<1> QED
    BY <1>1, AffinityAlways, PTL

-----------------------------------------------------------------------------
(* Refinement.  Since a process is in one place, PlaceOf has one value.    *)
LEMMA PlaceHeld ==
    ASSUME OnePlace, NEW c \in Core, NEW p \in Holds(c)
    PROVE  PlaceOf(p) = <<"held", c>>
<1>1. (CHOOSE d \in Core : p \in Holds(d)) = c
    BY DEF OnePlace
<1> QED
    BY <1>1 DEF PlaceOf

LEMMA PlaceWaits ==
    ASSUME OnePlace, NEW q \in Core, NEW p, Waits(p, q)
    PROVE  PlaceOf(p) = <<"waits", q>>
<1>1. Queued(p)
    BY DEF Waits, Queued
<1>2. \A d \in Core : p \notin Holds(d)
    BY <1>1 DEF OnePlace
<1>3. \A r \in Core : Waits(p, r) => r = q
    BY DEF OnePlace, Waits
<1>4. (CHOOSE r \in Core : Waits(p, r)) = q
    BY <1>3
<1> QED
    BY <1>2, <1>4 DEF PlaceOf

LEMMA PlaceNowhere ==
    ASSUME NEW p, \A c \in Core : p \notin Holds(c), \A q \in Core : ~Waits(p, q)
    PROVE  PlaceOf(p) = <<"nowhere">>
BY DEF PlaceOf

(* The same of the next state. *)
LEMMA NextHeld ==
    ASSUME OnePlace', NEW c \in Core, NEW p \in Holds(c)'
    PROVE  PlaceOf(p)' = <<"held", c>>
<1>1. (CHOOSE d \in Core : p \in Holds(d)') = c
    BY DEF OnePlace
<1> QED
    BY <1>1 DEF PlaceOf

LEMMA NextWaits ==
    ASSUME OnePlace', NEW q \in Core, NEW p, Waits(p, q)'
    PROVE  PlaceOf(p)' = <<"waits", q>>
<1>1. Queued(p)'
    BY DEF Waits, Queued
<1>2. \A d \in Core : p \notin Holds(d)'
    BY <1>1 DEF OnePlace
<1>3. \A r \in Core : Waits(p, r)' => r = q
    BY DEF OnePlace, Waits
<1>4. (CHOOSE r \in Core : Waits(p, r)') = q
    BY <1>3
<1> QED
    BY <1>2, <1>4 DEF PlaceOf

LEMMA PlaceSame ==
    ASSUME OnePlace, OnePlace', NEW p,
           \A c \in Core : p \in Holds(c)' <=> p \in Holds(c),
           \A q \in Core : Waits(p, q)' <=> Waits(p, q)
    PROVE  PlaceOf(p)' = PlaceOf(p)
<1>1. ASSUME NEW c \in Core, p \in Holds(c) PROVE PlaceOf(p)' = PlaceOf(p)
    BY <1>1, PlaceHeld, NextHeld
<1>2. ASSUME NEW q \in Core, Waits(p, q) PROVE PlaceOf(p)' = PlaceOf(p)
    BY <1>2, PlaceWaits, NextWaits
<1>3. CASE (\A c \in Core : p \notin Holds(c)) /\ \A q \in Core : ~Waits(p, q)
    BY <1>3 DEF PlaceOf
<1> QED
    BY <1>1, <1>2, <1>3

(* The mapped state. *)
Places == [p \in Process |-> PlaceOf(p)]

(* A step that moves no process. *)
LEMMA KeepPlaces ==
    ASSUME PlaceInv, PlaceInv', NEW c \in Core, Keep(c)
    PROVE  Places' = Places
<1>1. \A d \in Core : Holds(d)' = Holds(d)
    BY OthersKeep DEF Keep
<1>2. \A p, q : Waits(p, q)' <=> Waits(p, q)
    BY DEF Keep, Waits, At
<1> QED
    BY <1>1, <1>2, PlaceSame DEF Places, PlaceInv, Placed

(* A step of core c that moves process p and no other. *)
LEMMA MovesOne ==
    ASSUME PlaceInv, PlaceInv', NEW c \in Core, NEW p \in Process, Others(c),
           \A r : r # p => (r \in Holds(c)' <=> r \in Holds(c)),
           \A r : \A q \in Core : r # p => (Waits(r, q)' <=> Waits(r, q))
    PROVE  Places' = [Places EXCEPT ![p] = PlaceOf(p)']
<1>1. \A d \in Core \ {c} : Holds(d)' = Holds(d)
    BY OthersKeep
<1>2. \A r \in Process \ {p} : PlaceOf(r)' = PlaceOf(r)
    BY <1>1, PlaceSame DEF PlaceInv, Placed
<1> QED
    BY <1>2 DEF Places

(* A step of the abstract scheduler, or none. *)
Abstractly == [Scheduling!AbstractNext]_<<Places, affinityset>>

LEMMA CreateAbstract ==
    ASSUME PlaceInv, PlaceInv', NEW c \in Core, Others(c), NEW p \in Process,
           NEW m \in SUBSET Core, NEW l, ProcCreate(c, p, m, l),
           UNCHANGED <<tasks, running_list>>, ~Carries(c), Owns(c) <=> l \notin LetsGo
    PROVE  Abstractly
<1>1. TypeOK /\ OnePlace' /\ ExistInv
    BY DEF PlaceInv, BaseInv, Placed
<1>2. /\ pc'[c] = "pick" /\ proc'[c] = p /\ link'[c] = l
      /\ state[p] = "UNUSED" /\ affinityset' = [affinityset EXCEPT ![p] = m]
    BY <1>1, CallReadyEffect DEF ProcCreate
<1>3. Carries(c)' /\ (Owns(c)' <=> Owns(c))
    BY <1>2 DEF Carries, Owns, ReadyPc, NextPc
<1>4. Holds(c)' = Holds(c) \cup {p}
    BY <1>2, <1>3 DEF Holds
<1>5. \A r, q : Waits(r, q)' <=> Waits(r, q)
    BY DEF Waits, At
<1>6. (\A d \in Core : p \notin Holds(d)) /\ \A q \in Core : ~Waits(p, q)
    BY <1>1, <1>2 DEF ExistInv, Waits
<1>7. Places[p] = <<"nowhere">>
    BY <1>6, PlaceNowhere DEF Places
<1>8. PlaceOf(p)' = <<"held", c>>
    BY <1>1, <1>4, NextHeld
<1>9. Places' = [Places EXCEPT ![p] = <<"held", c>>]
    BY <1>4, <1>5, <1>8, MovesOne
<1>10. Places' # Places
    BY <1>7, <1>9 DEF Places
<1>11. Scheduling!Create(c, p)
    BY <1>2, <1>7, <1>9 DEF Scheduling!Create, Scheduling!Nowhere, Scheduling!HeldBy, Places
<1> QED
    BY <1>10, <1>11 DEF Abstractly, Scheduling!AbstractNext, Scheduling!AbstractMove, Places

LEMMA RebindAbstract ==
    ASSUME PlaceInv, PlaceInv', NEW c \in Core, NEW m \in Masks, SetAffinity(c, m)
    PROVE  Abstractly
<1>1. BaseInv /\ OnePlace
    BY DEF PlaceInv, Placed
<1>2. Places' = Places
    BY <1>1, UserKeep, KeepPlaces
<1>3. /\ running_list[c] \in Process /\ m \in SUBSET Core /\ pc[c] = "user"
      /\ affinityset' = [affinityset EXCEPT ![running_list[c]] = m]
    BY ProcessFacts, MasksAssumption DEF SetAffinity
<1>4. running_list[c] \in Holds(c)
    BY <1>3 DEF Holds, Owns, NextPc, ReadyPc
<1>5. Places[running_list[c]] = <<"held", c>>
    BY <1>1, <1>3, <1>4, PlaceHeld DEF Places
<1>6. Scheduling!Rebind(c, running_list[c])
    BY <1>2, <1>3, <1>5 DEF Scheduling!Rebind, Scheduling!HeldBy, Places
<1> QED
    BY <1>2, <1>3, <1>6
    DEF Abstractly, Scheduling!AbstractNext, Scheduling!AbstractRebind, Places

LEMMA AddAbstract ==
    ASSUME PlaceInv, PlaceInv', ScanInv, NEW c \in Core, Others(c), ReadyAdd(c)
    PROVE  Abstractly
<1>1. TypeOK /\ OnePlace /\ OnePlace' /\ LinkInv
    BY DEF PlaceInv, BaseInv, Placed
<1>2. PICK q \in Core, i \in Priority, p \in Process :
          q = target[c] /\ i = prio(proc[c]) /\ p = proc[c]
    BY <1>1, PriorityFacts
    DEF TypeOK, ReadyAdd, PlaceInv, BaseInv, HolderInv, Carries, ReadyPc
<1>3. /\ tasks'[q][i] = Append(tasks[q][i], p)
      /\ \A r \in Core, j \in Priority : r # q \/ j # i => tasks'[r][j] = tasks[r][j]
    BY <1>1, <1>2 DEF ReadyAdd, TypeOK
<1>16. /\ affinityset' = affinityset /\ running_list' = running_list
       /\ pc[c] = "rq_add" /\ pc'[c] = link[c] /\ link[c] \in ReturnPc
    BY <1>1 DEF ReadyAdd, procVars, TypeOK, LinkInv, ReadyPc
<1>4. affinityset[p] # {} => q \in affinityset[p]
    BY <1>2, <1>16 DEF ScanInv, ScanRight
<1>5. /\ \A r \in Core, j \in Priority : \A k \in 1 .. Len(tasks[r][j]) :
            k \in 1 .. Len(tasks'[r][j]) /\ At(r, j, k)' = At(r, j, k)
      /\ \A r \in Core, j \in Priority : \A k \in 1 .. Len(tasks'[r][j]) :
            \/ k \in 1 .. Len(tasks[r][j]) /\ At(r, j, k)' = At(r, j, k)
            \/ r = q /\ j = i /\ k = Len(tasks[q][i]) + 1 /\ At(r, j, k)' = p
      /\ \E n \in 1 .. Len(tasks'[q][i]) : At(q, i, n)' = p
    <2>1. TypeOK /\ q \in Core /\ i \in Priority /\ p \in Process
        BY <1>1, <1>2
    <2>2. tasks'[q][i] = Append(tasks[q][i], p)
        BY <1>3
    <2>3. \A r \in Core, j \in Priority : r # q \/ j # i => tasks'[r][j] = tasks[r][j]
        BY <1>3
    <2> QED
        BY <2>1, <2>2, <2>3, Appended
<1>6. \A x : \A r \in Core : x # p => (Waits(x, r)' <=> Waits(x, r))
    BY <1>5 DEF Waits
<1>7. Carries(c) /\ p \in Holds(c)
    BY <1>2, <1>16 DEF Carries, ReadyPc, Holds
<1>8. ~Carries(c)' /\ (Owns(c)' <=> Owns(c))
    BY <1>16 DEF Carries, Owns, ReadyPc, NextPc, LetsGo, ReturnPc
<1>9. Holds(c)' = Holds(c) \ {p}
    BY <1>1, <1>2, <1>16, <1>7, <1>8 DEF Holds, OnePlace
<1>10. Waits(p, q)'
    BY <1>2, <1>5 DEF Waits
<1>11. Places[p] = <<"held", c>> /\ PlaceOf(p)' = <<"waits", q>>
    BY <1>1, <1>2, <1>7, <1>10, PlaceHeld, NextWaits DEF Places
<1>12. Places' = [Places EXCEPT ![p] = <<"waits", q>>]
    BY <1>2, <1>6, <1>9, <1>11, MovesOne
<1>13. Places' # Places
    BY <1>2, <1>11, <1>12 DEF Places
<1>14. Scheduling!Release(c, p, q)
    BY <1>16, <1>4, <1>11, <1>12
    DEF Scheduling!Release, Scheduling!HeldBy, Scheduling!WaitsFor, Places
<1> QED
    BY <1>2, <1>13, <1>14
    DEF Abstractly, Scheduling!AbstractNext, Scheduling!AbstractMove, Places

LEMMA TakeAbstract ==
    ASSUME PlaceInv, PlaceInv', NEW c \in Core, Others(c), NextTake(c)
    PROVE  Abstractly
<1>1. TypeOK /\ OnePlace /\ OnePlace'
    BY DEF PlaceInv, BaseInv, Placed
<1>2. PICK i \in Priority : i = level[c]
    BY <1>1 DEF TypeOK
<1>3. /\ tasks[c][i] # <<>> /\ tasks' = [tasks EXCEPT ![c][i] = Tail(@)]
      /\ pc[c] = "next_scan" /\ pc'[c] = "next_len" /\ proc'[c] = Head(tasks[c][i])
      /\ affinityset' = affinityset
    BY <1>1, <1>2 DEF NextTake, TypeOK, procVars
<1>4. /\ \A r \in Core, j \in Priority : r # c \/ j # i => tasks'[r][j] = tasks[r][j]
      /\ 1 \in 1 .. Len(tasks[c][i]) /\ Head(tasks[c][i]) = At(c, i, 1)
      /\ \A k \in 1 .. Len(tasks'[c][i]) :
            k + 1 \in 1 .. Len(tasks[c][i]) /\ At(c, i, k)' = At(c, i, k + 1)
      /\ \A k \in 1 .. Len(tasks[c][i]) : k # 1 =>
            k - 1 \in 1 .. Len(tasks'[c][i]) /\ At(c, i, k - 1)' = At(c, i, k)
    BY <1>1, <1>3, Removed
<1>5. PICK p \in Process : p = At(c, i, 1)
    BY <1>1, <1>4, Positions
<1>6. Waits(p, c)
    BY <1>4, <1>5 DEF Waits
<1>7. Holds(c) = {} /\ Holds(c)' = {p}
    <2>1. ~Carries(c) /\ ~Owns(c) /\ Carries(c)' /\ ~Owns(c)'
        BY <1>3 DEF Carries, Owns, ReadyPc, NextPc
    <2> QED
        BY <1>3, <1>4, <1>5, <2>1 DEF Holds
<1>8. ASSUME NEW x, x # p, NEW r \in Core, Waits(x, r) PROVE Waits(x, r)'
    <2>0. PICK j \in Priority : \E k \in 1 .. Len(tasks[r][j]) : At(r, j, k) = x
        BY <1>8 DEF Waits
    <2>1. PICK k \in 1 .. Len(tasks[r][j]) : At(r, j, k) = x
        BY <2>0
    <2>2. CASE r = c /\ j = i
        <3>1. k # 1
            BY <1>5, <1>8, <2>1, <2>2
        <3>2. PICK n : n = k - 1
            OBVIOUS
        <3>3. n \in 1 .. Len(tasks'[c][i]) /\ At(c, i, n)' = x
            BY <1>4, <2>1, <2>2, <3>1, <3>2
        <3> QED
            BY <2>2, <3>3 DEF Waits
    <2>3. CASE r # c \/ j # i
        BY <1>4, <2>1, <2>3 DEF Waits, At
    <2> QED
        BY <2>2, <2>3
<1>9. ASSUME NEW x, NEW r \in Core, Waits(x, r)' PROVE Waits(x, r)
    <2>0. PICK j \in Priority : \E k \in 1 .. Len(tasks'[r][j]) : At(r, j, k)' = x
        BY <1>9 DEF Waits
    <2>1. PICK k \in 1 .. Len(tasks'[r][j]) : At(r, j, k)' = x
        BY <2>0
    <2>2. CASE r = c /\ j = i
        <3>1. PICK n : n = k + 1
            OBVIOUS
        <3> QED
            BY <1>4, <2>1, <2>2, <3>1 DEF Waits
    <2>3. CASE r # c \/ j # i
        BY <1>4, <2>1, <2>3 DEF Waits, At
    <2> QED
        BY <2>2, <2>3
<1>10. Places[p] = <<"waits", c>> /\ PlaceOf(p)' = <<"held", c>>
    BY <1>1, <1>6, <1>7, PlaceWaits, NextHeld DEF Places
<1>11. Places' = [Places EXCEPT ![p] = <<"held", c>>]
    BY <1>7, <1>8, <1>9, <1>10, MovesOne
<1>12. Places' # Places
    BY <1>10, <1>11 DEF Places
<1>13. \A r \in Process : Places[r] # <<"held", c>>
    <2>1. ASSUME NEW r \in Process, Places[r] = <<"held", c>> PROVE FALSE
        <3>1. PICK d \in Core : r \in Holds(d)
            BY <2>1 DEF Places, PlaceOf
        <3>2. Places[r] = <<"held", d>>
            BY <1>1, <3>1, PlaceHeld DEF Places
        <3> QED
            BY <1>7, <2>1, <3>1, <3>2
    <2> QED
        BY <2>1
<1>14. Scheduling!Take(c, p)
    BY <1>3, <1>10, <1>11, <1>13
    DEF Scheduling!Take, Scheduling!HeldBy, Scheduling!WaitsFor, Places
<1> QED
    BY <1>12, <1>14
    DEF Abstractly, Scheduling!AbstractNext, Scheduling!AbstractMove, Places

LEMMA StepAbstract ==
    ASSUME AffinityInv, AffinityInv', NEW c \in Core, CoreStep(c)
    PROVE  Abstractly
<1>1. BaseInv /\ OnePlace /\ PlaceInv /\ PlaceInv' /\ ScanInv
    BY DEF AffinityInv, PlaceInv, Placed
<1>2. Others(c)
    BY <1>1, StepPlaced DEF PlaceInv
<1>3. ASSUME Keep(c), UNCHANGED affinityset PROVE Abstractly
    BY <1>1, <1>3, KeepPlaces DEF Abstractly
<1>4. CASE Ready(c) \/ ReadyLock(c)
    <2>1. CASE ReadyAdd(c)
        BY <1>1, <1>2, <2>1, AddAbstract
    <2>2. CASE ~ReadyAdd(c)
        BY <1>1, <1>3, <1>4, <2>2, ReadyKeep
        DEF Ready, PickInactive, PickDecide, ReadyLock, ReadyLength, procVars
    <2> QED
        BY <2>1, <2>2
<1>5. CASE NextProc(c) \/ NextLock(c)
    <2>1. CASE NextTake(c)
        BY <1>1, <1>2, <2>1, TakeAbstract
    <2>2. CASE ~NextTake(c)
        BY <1>1, <1>3, <1>5, <2>2, NextKeep
        DEF NextProc, NextLock, NextMiss, NextRun, procVars
    <2> QED
        BY <2>1, <2>2
<1>6. CASE Pull(c) \/ PullLock(c)
    BY <1>1, <1>3, <1>6, PullKeep
    DEF Pull, PullBusiest, PullSkip, PullLock, PullScan, procVars
<1>7. CASE TimeSlice(c) \/ Yield(c)
    BY <1>1, <1>3, <1>7, UserKeep DEF TimeSlice, Yield
<1>8. ASSUME NEW m \in Masks, SetAffinity(c, m) PROVE Abstractly
    BY <1>1, <1>8, RebindAbstract
<1>9. ASSUME NEW p \in Process, NEW m \in SUBSET Core, NEW l, ProcCreate(c, p, m, l),
             UNCHANGED <<queueVars, ticks, running_list, target, level>>,
             pc[c] \in {"user", "boot", "boot_root"},
             l \in {"user", "next", "boot_root"}, pc[c] = "user" <=> l = "user"
      PROVE  Abstractly
    <2>1. ~Carries(c) /\ (Owns(c) <=> l \notin LetsGo)
        BY <1>9 DEF Carries, Owns, ReadyPc, NextPc, LetsGo
    <2> QED
        BY <1>1, <1>2, <1>9, <2>1, CreateAbstract DEF queueVars
<1>10. CASE Boot(c)
    BY <1>9, <1>10, ProcessFacts DEF Boot, BootIdle, BootRoot
<1>11. ASSUME NEW t \in Thread, NEW m \in Masks, PthreadCreate(c, t, m) PROVE Abstractly
    BY <1>9, <1>11, ProcessFacts, MasksAssumption DEF PthreadCreate
<1> QED
    BY <1>4, <1>5, <1>6, <1>7, <1>8, <1>10, <1>11 DEF CoreStep, Kernel, Acquire, SysCall

(* The scheduler implements AbstractScheduler: every step of a core is one *)
(* of its moves, or moves no process at all.                               *)
THEOREM SchedulerImplements == Spec => Placing
<1>1. Init => Scheduling!AbstractInit
    <2>1. ASSUME Init PROVE Places = [p \in Process |-> <<"nowhere">>]
        <3>1. /\ \A c \in Core : Holds(c) = {}
              /\ \A q \in Core, i \in Priority : 1 .. Len(tasks[q][i]) = {}
            BY <2>1 DEF Init, Holds, Carries, Owns, ReadyPc, NextPc
        <3> QED
            BY <3>1, PlaceNowhere DEF Places, Waits
    <2> QED
        BY <2>1 DEF Scheduling!AbstractInit, Scheduling!Nowhere, Places, Init
<1>2. AffinityInv /\ AffinityInv' /\ [Next]_dispatchVars => Abstractly
    <2>1. ASSUME AffinityInv, AffinityInv', Next PROVE Abstractly
        BY <2>1, StepAbstract DEF Next
    <2>2. ASSUME AffinityInv, AffinityInv', UNCHANGED dispatchVars PROVE Abstractly
        <3>1. \A d \in Core : Holds(d)' = Holds(d)
            BY <2>2 DEF dispatchVars, coreVars, Holds, Carries, Owns
        <3>2. \A p, q : Waits(p, q)' <=> Waits(p, q)
            BY <2>2 DEF dispatchVars, queueVars, Waits, At
        <3>3. Places' = Places
            BY <2>2, <3>1, <3>2, PlaceSame DEF Places, AffinityInv, PlaceInv, Placed
        <3> QED
            BY <2>2, <3>3 DEF Abstractly, dispatchVars, procVars
    <2> QED
        BY <2>1, <2>2
<1>3. Abstractly => [Scheduling!AbstractNext]_<<[p \in Process |-> PlaceOf(p)], affinityset>>
    BY DEF Abstractly, Places
<1> QED
    BY <1>1, <1>2, <1>3, AffinityAlways, PTL DEF Spec, Placing, Scheduling!AbstractSpec
=============================================================================
