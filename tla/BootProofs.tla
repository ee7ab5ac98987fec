----------------------------- MODULE BootProofs -----------------------------
(***************************************************************************)
(* Proofs about BootRelease, for every number of cores.                    *)
(***************************************************************************)
EXTENDS BootRelease, TLAPS

Stage == InMain \cup InKernel \cup {"reset", "enable", "parked", "lost"}

(* Type correctness. *)
BootTypeOK ==
    /\ stage \in [Core -> Stage]
    /\ bss \in BOOLEAN /\ newlib_lock \in BOOLEAN
    /\ lists \in BOOLEAN /\ queues \in BOOLEAN
    /\ vector \in [Core -> [{TIMER, MAILBOX} ->
                               {"undefined", "timer", "release", "null"}]]
    /\ routed \in [Core -> BOOLEAN]
    /\ mailbox \in [Core -> BOOLEAN]
    /\ armed \in [Core -> BOOLEAN]
    /\ cpu \in 0 .. NumCores

(* The stages after the lists, and after the queues, are set up. *)
AfterQueues == {"release", "spin"} \cup InKernel
AfterLists  == AfterQueues \cup {"disp_init"}

(* Only the mailbox interrupt can find a core in these, once it is routed. *)
Interruptible == {"proc_init", "disp_init", "release", "spin"}

(* From the release until kernel_start, and from there on. *)
Releasing == {"released", "announcing", "clear", "start"}
Started   == InKernel \ {"released", "announcing", "clear"}

(* The handlers are in the vector before the interrupt is routed, and the  *)
(* release handler stays there until kernel_start takes it away, when the  *)
(* message has been cleared.                                               *)
HandlerInv ==
    \A c \in Core :
        /\ stage[c] # "lost"
        /\ routed[c] => stage[c] \in Interruptible \cup InKernel
        /\ stage[c] \in {"route"} \cup Interruptible \cup Releasing
               => vector[c][MAILBOX] = "release"
        /\ stage[c] \in {"route"} \cup Interruptible \cup InKernel
               => vector[c][TIMER] = "timer"
        /\ stage[c] \in Started => ~mailbox[c]

(* Core 0 is alone until the bss is clear, and lets out one slave after    *)
(* the other.                                                              *)
BssInv ==
    /\ stage[0] # "parked"
    /\ stage[0] = "reset" <=> ~bss
    /\ stage[0] = "reset" => \A c \in Slave : stage[c] = "parked"
    /\ \A c \in Slave : stage[c] # "reset" /\ stage[c] # "enable"
    /\ stage[0] = "enable" => \A c \in Slave : c >= cpu => stage[c] = "parked"
    /\ stage[0] \in {"reset", "enable"} => cpu > 0

(* A core that is released, or on its way in the kernel, was released by   *)
(* core 0 when everything was set up, and core 0 does not come back to it. *)
ReleaseInv ==
    /\ stage[0] \in AfterLists => lists
    /\ stage[0] \in AfterQueues => queues
    /\ \A c \in Core : mailbox[c] \/ stage[c] \in InKernel =>
           /\ stage[0] \in AfterQueues
           /\ stage[0] = "release" => cpu <= c

(* NewlibMutex without the set of its members. *)
Inside(c) == stage[c] \in Section

LockInv ==
    bss => /\ newlib_lock <=> \E c \in Core : Inside(c)
           /\ \A c, d \in Core : Inside(c) /\ Inside(d) => c = d

BootInv == BootTypeOK /\ HandlerInv /\ BssInv /\ ReleaseInv /\ LockInv

-----------------------------------------------------------------------------
LEMMA CoreFacts ==
    /\ 0 \in Core /\ Slave \subseteq Core /\ 0 \notin Slave
    /\ \A c \in Core : c \in Nat /\ c < NumCores /\ (c = 0 \/ c \in Slave)
    /\ \A c \in Slave : c > 0
    /\ \A n \in Nat : n < NumCores => n \in Core
    /\ NumCores \in Nat /\ NumCores > 0
BY CoresAssumption DEF Core, Slave

LEMMA InitBoot == BootInit => BootInv
<1> SUFFICES ASSUME BootInit PROVE BootInv
    OBVIOUS
<1>1. BootTypeOK
    <2>1. stage \in [Core -> Stage]
        BY DEF BootInit, Stage, InMain, InKernel
    <2>2. cpu \in 0 .. NumCores
        BY CoreFacts DEF BootInit
    <2> QED
        BY <2>1, <2>2 DEF BootInit, BootTypeOK
<1>2. HandlerInv /\ BssInv
    BY CoreFacts DEF BootInit, HandlerInv, BssInv, Interruptible, InKernel, Releasing, Started
<1>3. ReleaseInv /\ LockInv
    BY CoreFacts DEF BootInit, ReleaseInv, LockInv, AfterLists, AfterQueues, InKernel
<1> QED
    BY <1>1, <1>2, <1>3 DEF BootInv

(* What Go says of the stages. *)
LEMMA Gone ==
    ASSUME BootTypeOK, NEW c \in Core, NEW s, Go(c, s)
    PROVE  stage'[c] = s /\ \A d \in Core : d # c => stage'[d] = stage[d]
BY DEF Go, BootTypeOK

(* A step of one core that is in no section before nor after it. *)
LEMMA QuietStep ==
    ASSUME LockInv, NEW c \in Core, ~Inside(c), stage'[c] \notin Section,
           \A d \in Core : d # c => stage'[d] = stage[d],
           bss' = bss, newlib_lock' = newlib_lock
    PROVE  LockInv'
<1>1. \A d \in Core : Inside(d)' <=> Inside(d)
    BY DEF Inside, Section
<1> QED
    BY <1>1 DEF LockInv

-----------------------------------------------------------------------------
LEMMA ClearBssStep ==
    ASSUME BootInv, ClearBss PROVE BootInv'
<1>1. /\ stage[0] = "reset" /\ bss' = TRUE /\ newlib_lock' = FALSE
      /\ UNCHANGED <<vector, routed, mailbox, lists, queues, armed, cpu>>
      /\ BootTypeOK
    BY DEF ClearBss, At, BootInv
<1>2. stage'[0] = "enable" /\ \A d \in Core : d # 0 => stage'[d] = stage[d]
    BY Gone, CoreFacts DEF ClearBss, BootInv
<1>3. BootTypeOK'
    BY <1>1 DEF ClearBss, Go, BootTypeOK, Stage
<1>4. HandlerInv' /\ BssInv'
    BY <1>1, <1>2, CoreFacts
       DEF BootInv, HandlerInv, BssInv, Interruptible, InKernel, Releasing, Started
<1>5. ReleaseInv'
    BY <1>1, <1>2, CoreFacts
       DEF BootInv, ReleaseInv, AfterLists, AfterQueues, InKernel
<1>6. LockInv'
    BY <1>1, <1>2, CoreFacts DEF BootInv, BssInv, LockInv, Inside, Section
<1> QED
    BY <1>3, <1>4, <1>5, <1>6 DEF BootInv

LEMMA CoreEnableStep ==
    ASSUME BootInv, CoreEnable PROVE BootInv'
<1>1. /\ stage[0] = "enable" /\ cpu < NumCores /\ cpu' = cpu + 1
      /\ stage' = [stage EXCEPT ![cpu] = "main"]
      /\ UNCHANGED <<bss, newlib_lock, vector, routed, mailbox, lists, queues, armed>>
      /\ BootTypeOK
    BY DEF CoreEnable, At, BootInv
<1>2. cpu \in Slave /\ cpu \in Core /\ cpu \in Nat /\ cpu # 0
    BY <1>1, CoreFacts DEF BootInv, BssInv, BootTypeOK, Slave
<1>3. stage'[cpu] = "main" /\ \A d \in Core : d # cpu => stage'[d] = stage[d]
    BY <1>1, <1>2 DEF BootTypeOK
<1>4. BootTypeOK'
    BY <1>1, <1>2, CoreFacts DEF BootTypeOK, Stage, InMain
<1>5. stage[cpu] = "parked"
    BY <1>1, <1>2 DEF BootInv, BssInv
<1>6. HandlerInv'
    BY <1>1, <1>2, <1>3, <1>5 DEF BootInv, HandlerInv, Interruptible, InKernel, Releasing, Started
<1>7. BssInv'
    BY <1>1, <1>2, <1>3, CoreFacts DEF BootInv, BssInv
<1>8. ReleaseInv'
    BY <1>1, <1>2, <1>3, <1>5, CoreFacts
       DEF BootInv, ReleaseInv, AfterLists, AfterQueues, InKernel
<1>9. LockInv'
    BY <1>1, <1>2, <1>3, <1>5, QuietStep DEF BootInv, Inside, Section
<1> QED
    BY <1>4, <1>6, <1>7, <1>8, <1>9 DEF BootInv

LEMMA MasterCoreStep ==
    ASSUME BootInv, MasterCore PROVE BootInv'
<1>1. /\ stage[0] = "enable" /\ cpu = NumCores /\ cpu' = NumCores
      /\ UNCHANGED <<bss, newlib_lock, vector, routed, mailbox, lists, queues, armed>>
      /\ BootTypeOK
    BY DEF MasterCore, At, BootInv
<1>2. stage'[0] = "main" /\ \A d \in Core : d # 0 => stage'[d] = stage[d]
    BY Gone, CoreFacts DEF MasterCore, BootInv
<1>3. BootTypeOK'
    BY <1>1, CoreFacts DEF MasterCore, Go, BootTypeOK, Stage, InMain
<1>4. HandlerInv' /\ BssInv'
    BY <1>1, <1>2, CoreFacts
       DEF BootInv, HandlerInv, BssInv, Interruptible, InKernel, Releasing, Started
<1>5. ReleaseInv'
    BY <1>1, <1>2, CoreFacts
       DEF BootInv, ReleaseInv, AfterLists, AfterQueues, InKernel
<1>6. LockInv'
    BY <1>1, <1>2, CoreFacts, QuietStep DEF BootInv, Inside, Section
<1> QED
    BY <1>3, <1>4, <1>5, <1>6 DEF BootInv

(* The ways into the sections, and out of them. *)
LEMMA NewlibLockStep ==
    ASSUME BootInv, NEW c \in Core,
           NEW from, NEW to, NewlibLock(c, from, to),
           \/ from = "main" /\ to = "greeting"
           \/ from = "released" /\ to = "announcing"
           \/ from = "idle" /\ to = "idle_malloc"
           \/ from = "root" /\ to = "root_malloc"
           \/ from = "user" /\ to = "call"
    PROVE  BootInv'
<1>1. /\ stage[c] = from /\ ~newlib_lock /\ newlib_lock' = TRUE
      /\ UNCHANGED <<bss, vector, routed, mailbox, lists, queues, armed, cpu>>
      /\ BootTypeOK /\ Go(c, to)
    BY DEF NewlibLock, At, BootInv
<1>2. stage'[c] = to /\ \A d \in Core : d # c => stage'[d] = stage[d]
    BY <1>1, Gone
<1>3. BootTypeOK'
    BY <1>1 DEF Go, BootTypeOK, Stage, InMain, InKernel
<1>4. HandlerInv' /\ BssInv'
    BY <1>1, <1>2, CoreFacts
       DEF BootInv, HandlerInv, BssInv, Interruptible, InKernel, Releasing, Started
<1>5. ReleaseInv'
    BY <1>1, <1>2, CoreFacts
       DEF BootInv, ReleaseInv, AfterLists, AfterQueues, InKernel
<1>6. LockInv'
    BY <1>1, <1>2 DEF BootInv, LockInv, Inside, Section
<1> QED
    BY <1>3, <1>4, <1>5, <1>6 DEF BootInv

LEMMA NewlibUnlockStep ==
    ASSUME BootInv, NEW c \in Core,
           NEW from, NEW to, NewlibUnlock(c, from, to),
           \/ from = "greeting" /\ to = "register"
           \/ from = "announcing" /\ to = "clear"
           \/ from = "idle_malloc" /\ to = "root"
           \/ from = "root_malloc" /\ to = "arm"
           \/ from = "call" /\ to = "user"
    PROVE  BootInv'
<1>1. /\ stage[c] = from /\ newlib_lock' = FALSE
      /\ UNCHANGED <<bss, vector, routed, mailbox, lists, queues, armed, cpu>>
      /\ BootTypeOK /\ Go(c, to)
    BY DEF NewlibUnlock, At, BootInv
<1>2. stage'[c] = to /\ \A d \in Core : d # c => stage'[d] = stage[d]
    BY <1>1, Gone
<1>3. BootTypeOK'
    BY <1>1 DEF Go, BootTypeOK, Stage, InMain, InKernel
<1>4. HandlerInv' /\ BssInv'
    BY <1>1, <1>2, CoreFacts
       DEF BootInv, HandlerInv, BssInv, Interruptible, InKernel, Releasing, Started
<1>5. ReleaseInv'
    BY <1>1, <1>2, CoreFacts
       DEF BootInv, ReleaseInv, AfterLists, AfterQueues, InKernel
<1>6. LockInv'
    BY <1>1, <1>2 DEF BootInv, LockInv, Inside, Section
<1> QED
    BY <1>3, <1>4, <1>5, <1>6 DEF BootInv

LEMMA RegisterStep ==
    ASSUME BootInv, NEW c \in Core, Register(c) PROVE BootInv'
<1>1. /\ stage[c] = "register"
      /\ UNCHANGED <<bss, newlib_lock, routed, mailbox, lists, queues, armed, cpu>>
      /\ BootTypeOK /\ Go(c, "route")
    BY DEF Register, At, BootInv
<1>2. vector' = [vector EXCEPT ![c][TIMER] = "timer", ![c][MAILBOX] = "release"]
    BY DEF Register
<1>3. stage'[c] = "route" /\ \A d \in Core : d # c => stage'[d] = stage[d]
    BY <1>1, Gone
<1>4. BootTypeOK'
    BY <1>1, <1>2 DEF Go, BootTypeOK, Stage, InMain, TIMER, MAILBOX
<1>5. /\ vector'[c][TIMER] = "timer" /\ vector'[c][MAILBOX] = "release"
      /\ \A d \in Core : d # c => vector'[d] = vector[d]
    BY <1>1, <1>2 DEF BootTypeOK, TIMER, MAILBOX
<1>6. HandlerInv' /\ BssInv'
    <2>1. HandlerInv'
        BY <1>1, <1>3, <1>5 DEF BootInv, HandlerInv, Interruptible, InKernel, Releasing, Started
    <2> QED
        BY <1>1, <1>3, <2>1, CoreFacts DEF BootInv, BssInv
<1>7. ReleaseInv'
    BY <1>1, <1>3, CoreFacts
       DEF BootInv, ReleaseInv, AfterLists, AfterQueues, InKernel
<1>8. LockInv'
    BY <1>1, <1>3, QuietStep DEF BootInv, Inside, Section
<1> QED
    BY <1>4, <1>6, <1>7, <1>8 DEF BootInv

LEMMA RouteStep ==
    ASSUME BootInv, NEW c \in Core, Route(c) PROVE BootInv'
<1>1. /\ stage[c] = "route" /\ routed' = [routed EXCEPT ![c] = TRUE]
      /\ UNCHANGED <<bss, newlib_lock, vector, mailbox, lists, queues, armed, cpu>>
      /\ BootTypeOK /\ Go(c, IF c = 0 THEN "proc_init" ELSE "spin")
    BY DEF Route, At, BootInv
<1>2. /\ stage'[c] = IF c = 0 THEN "proc_init" ELSE "spin"
      /\ \A d \in Core : d # c => stage'[d] = stage[d]
    BY <1>1, Gone
<1>3. BootTypeOK'
    BY <1>1 DEF Go, BootTypeOK, Stage, InMain
<1>4. \A d \in Core : d # c => routed'[d] = routed[d]
    BY <1>1 DEF BootTypeOK
<1>5. HandlerInv'
    <2>1. stage'[c] \in {"proc_init", "spin"}
        BY <1>2
    <2> QED
        BY <1>1, <1>2, <1>4, <2>1 DEF BootInv, HandlerInv, Interruptible, InKernel, Releasing, Started
<1>6. BssInv'
    BY <1>1, <1>2, CoreFacts DEF BootInv, BssInv
<1>7. ReleaseInv'
    BY <1>1, <1>2, CoreFacts
       DEF BootInv, ReleaseInv, AfterLists, AfterQueues, InKernel
<1>8. LockInv'
    BY <1>1, <1>2, QuietStep DEF BootInv, Inside, Section
<1> QED
    BY <1>3, <1>5, <1>6, <1>7, <1>8 DEF BootInv

LEMMA ProcInitStep ==
    ASSUME BootInv, ProcInit PROVE BootInv'
<1>1. /\ stage[0] = "proc_init" /\ lists' = TRUE
      /\ UNCHANGED <<bss, newlib_lock, vector, routed, mailbox, queues, armed, cpu>>
      /\ BootTypeOK /\ Go(0, "disp_init")
    BY DEF ProcInit, At, BootInv
<1>2. stage'[0] = "disp_init" /\ \A d \in Core : d # 0 => stage'[d] = stage[d]
    BY <1>1, Gone, CoreFacts
<1>3. BootTypeOK'
    BY <1>1 DEF Go, BootTypeOK, Stage, InMain
<1>4. HandlerInv' /\ BssInv'
    BY <1>1, <1>2, CoreFacts
       DEF BootInv, HandlerInv, BssInv, Interruptible, InKernel, Releasing, Started
<1>5. ReleaseInv'
    BY <1>1, <1>2, CoreFacts
       DEF BootInv, ReleaseInv, AfterLists, AfterQueues, InKernel
<1>6. LockInv'
    BY <1>1, <1>2, CoreFacts, QuietStep DEF BootInv, Inside, Section
<1> QED
    BY <1>3, <1>4, <1>5, <1>6 DEF BootInv

LEMMA DispInitStep ==
    ASSUME BootInv, DispInit PROVE BootInv'
<1>1. /\ stage[0] = "disp_init" /\ queues' = TRUE /\ cpu' = NumCores
      /\ UNCHANGED <<bss, newlib_lock, vector, routed, mailbox, lists, armed>>
      /\ BootTypeOK /\ Go(0, "release")
    BY DEF DispInit, At, BootInv
<1>2. stage'[0] = "release" /\ \A d \in Core : d # 0 => stage'[d] = stage[d]
    BY <1>1, Gone, CoreFacts
<1>3. BootTypeOK'
    <2>1. cpu' \in 0 .. NumCores
        BY <1>1, CoreFacts
    <2>2. stage' \in [Core -> Stage]
        BY <1>1 DEF Go, BootTypeOK, Stage, InMain
    <2> QED
        BY <1>1, <2>1, <2>2 DEF BootTypeOK
<1>4. HandlerInv' /\ BssInv'
    BY <1>1, <1>2, CoreFacts
       DEF BootInv, HandlerInv, BssInv, Interruptible, InKernel, Releasing, Started
<1>5. ReleaseInv'
    <2>1. \A c \in Core : ~(mailbox[c] \/ stage[c] \in InKernel)
        BY <1>1 DEF BootInv, ReleaseInv, AfterQueues, InKernel
    <2> QED
        BY <1>1, <1>2, <2>1, CoreFacts
           DEF BootInv, ReleaseInv, AfterLists, AfterQueues, InKernel
<1>6. LockInv'
    BY <1>1, <1>2, CoreFacts, QuietStep DEF BootInv, Inside, Section
<1> QED
    BY <1>3, <1>4, <1>5, <1>6 DEF BootInv

LEMMA ReleaseStep ==
    ASSUME BootInv, Release PROVE BootInv'
<1> DEFINE next == IF cpu = 1 THEN "spin" ELSE "release"
<1>1. /\ stage[0] = "release" /\ cpu > 0 /\ cpu' = cpu - 1
      /\ mailbox' = [mailbox EXCEPT ![cpu - 1] = TRUE]
      /\ UNCHANGED <<bss, newlib_lock, vector, routed, lists, queues, armed>>
      /\ BootTypeOK /\ Go(0, next)
    BY DEF Release, At, BootInv
<1>2. /\ next \in {"spin", "release"} /\ (next = "release" => cpu # 1)
      /\ cpu \in Nat /\ cpu <= NumCores
    BY <1>1, CoreFacts DEF BootTypeOK
<1> HIDE DEF next
<1>3. stage'[0] = next /\ \A d \in Core : d # 0 => stage'[d] = stage[d]
    BY <1>1, Gone, CoreFacts
<1>4. cpu - 1 \in Core /\ cpu - 1 \in 0 .. NumCores
    BY <1>1, <1>2, CoreFacts
<1>5. \A d \in Core : d # cpu - 1 => mailbox'[d] = mailbox[d]
    BY <1>1, <1>4 DEF BootTypeOK
<1>6. BootTypeOK'
    BY <1>1, <1>2, <1>4 DEF Go, BootTypeOK, Stage, InMain
<1>7. stage[cpu - 1] \notin InKernel
    BY <1>1, <1>2, <1>4 DEF BootInv, ReleaseInv
<1>8. HandlerInv'
    <2>1. stage'[cpu - 1] \notin Started
        BY <1>2, <1>3, <1>4, <1>7 DEF InKernel, Started
    <2>2. stage'[0] \in Interruptible /\ stage[0] \in Interruptible
        BY <1>1, <1>2, <1>3 DEF Interruptible
    <2>3. stage'[0] \notin Started \cup {"lost"}
        BY <1>2, <1>3 DEF InKernel, Started
    <2> QED
        BY <1>1, <1>3, <1>5, <2>1, <2>2, <2>3, CoreFacts
           DEF BootInv, HandlerInv
<1>9. BssInv'
    BY <1>1, <1>2, <1>3, CoreFacts DEF BootInv, BssInv
<1>10. ReleaseInv'
    <2>1. stage'[0] \in AfterQueues /\ lists /\ queues
        BY <1>1, <1>2, <1>3 DEF BootInv, ReleaseInv, AfterLists, AfterQueues
    <2>2. \A c \in Core : c # cpu - 1 /\ (mailbox'[c] \/ stage'[c] \in InKernel)
                              => mailbox[c] \/ stage[c] \in InKernel
        BY <1>2, <1>3, <1>5 DEF InKernel
    <2>3. \A c \in Core : mailbox'[c] \/ stage'[c] \in InKernel => cpu' <= c
        BY <1>1, <1>2, <2>2, CoreFacts DEF BootInv, ReleaseInv
    <2> QED
        BY <1>1, <2>1, <2>3 DEF ReleaseInv
<1>11. LockInv'
    BY <1>1, <1>2, <1>3, CoreFacts, QuietStep DEF BootInv, Inside, Section
<1> QED
    BY <1>6, <1>8, <1>9, <1>10, <1>11 DEF BootInv

(* A release that is taken finds its handler, a core outside the sections  *)
(* and everything set up.                                                  *)
LEMMA MailboxInterruptStep ==
    ASSUME BootInv, NEW c \in Core, MailboxInterrupt(c) PROVE BootInv'
<1>1. /\ stage[c] \in InMain \cup {"user"} /\ mailbox[c] /\ routed[c]
      /\ UNCHANGED <<bss, newlib_lock, vector, routed, mailbox, lists, queues,
                     armed, cpu>>
      /\ BootTypeOK /\ Go(c, Calls(vector[c][MAILBOX]))
    BY DEF MailboxInterrupt, BootInv
<1>2. stage[c] \in Interruptible /\ vector[c][MAILBOX] = "release"
    <2>1. stage[c] # "user"
        BY <1>1 DEF BootInv, HandlerInv, Started, InKernel
    <2>2. stage[c] \in Interruptible
        BY <1>1, <2>1 DEF BootInv, HandlerInv, InMain, InKernel
    <2> QED
        BY <2>2 DEF BootInv, HandlerInv
<1>3. stage'[c] = "released" /\ \A d \in Core : d # c => stage'[d] = stage[d]
    BY <1>1, <1>2, Gone DEF Calls
<1>4. BootTypeOK'
    BY <1>1, <1>2 DEF Go, BootTypeOK, Stage, InKernel, Calls
<1>5. HandlerInv'
    BY <1>1, <1>2, <1>3 DEF BootInv, HandlerInv, Interruptible, InKernel, Releasing, Started
<1>6. BssInv'
    BY <1>1, <1>2, <1>3, CoreFacts DEF BootInv, BssInv, Interruptible
<1>7. ReleaseInv'
    <2>1. /\ stage[0] \in AfterQueues
          /\ stage'[0] \in AfterQueues
          /\ lists /\ queues
        BY <1>1, <1>3, CoreFacts
           DEF BootInv, ReleaseInv, AfterLists, AfterQueues, InKernel
    <2>2. \A d \in Core : mailbox'[d] \/ stage'[d] \in InKernel
                              => mailbox[d] \/ stage[d] \in InKernel
        BY <1>1, <1>3
    <2>3. stage'[0] = "release" => stage[0] = "release"
        BY <1>3, CoreFacts
    <2> QED
        BY <1>1, <2>1, <2>2, <2>3 DEF BootInv, ReleaseInv
<1>8. LockInv'
    BY <1>1, <1>2, <1>3, QuietStep DEF BootInv, Inside, Section, Interruptible
<1> QED
    BY <1>4, <1>5, <1>6, <1>7, <1>8 DEF BootInv

LEMMA TimerInterruptStep ==
    ASSUME BootInv, NEW c \in Core, TimerInterrupt(c) PROVE BootInv'
<1>1. /\ stage[c] = "user" /\ vector[c][TIMER] = "timer" /\ ~mailbox[c]
      /\ UNCHANGED <<bss, newlib_lock, vector, routed, mailbox, lists, queues,
                     armed, cpu>>
      /\ BootTypeOK /\ Go(c, "dispatch")
    BY DEF TimerInterrupt, At, BootInv, HandlerInv, Started, InKernel, Interruptible
<1>2. stage'[c] = "dispatch" /\ \A d \in Core : d # c => stage'[d] = stage[d]
    BY <1>1, Gone
<1>3. BootTypeOK'
    BY <1>1 DEF Go, BootTypeOK, Stage, InKernel
<1>4. HandlerInv' /\ BssInv'
    BY <1>1, <1>2, CoreFacts
       DEF BootInv, HandlerInv, BssInv, Interruptible, InKernel, Releasing, Started
<1>5. ReleaseInv'
    BY <1>1, <1>2, CoreFacts
       DEF BootInv, ReleaseInv, AfterLists, AfterQueues, InKernel
<1>6. LockInv'
    BY <1>1, <1>2, QuietStep DEF BootInv, Inside, Section
<1> QED
    BY <1>3, <1>4, <1>5, <1>6 DEF BootInv

LEMMA ClearMailboxStep ==
    ASSUME BootInv, NEW c \in Core, ClearMailbox(c) PROVE BootInv'
<1>1. /\ stage[c] = "clear" /\ mailbox' = [mailbox EXCEPT ![c] = FALSE]
      /\ UNCHANGED <<bss, newlib_lock, vector, routed, lists, queues, armed, cpu>>
      /\ BootTypeOK /\ Go(c, "start")
    BY DEF ClearMailbox, At, BootInv
<1>2. stage'[c] = "start" /\ \A d \in Core : d # c => stage'[d] = stage[d]
    BY <1>1, Gone
<1>3. ~mailbox'[c] /\ \A d \in Core : d # c => mailbox'[d] = mailbox[d]
    BY <1>1 DEF BootTypeOK
<1>4. BootTypeOK'
    BY <1>1 DEF Go, BootTypeOK, Stage, InKernel
<1>5. HandlerInv' /\ BssInv'
    BY <1>1, <1>2, <1>3, CoreFacts
       DEF BootInv, HandlerInv, BssInv, Interruptible, InKernel, Releasing, Started
<1>6. ReleaseInv'
    BY <1>1, <1>2, <1>3, CoreFacts
       DEF BootInv, ReleaseInv, AfterLists, AfterQueues, InKernel
<1>7. LockInv'
    BY <1>1, <1>2, QuietStep DEF BootInv, Inside, Section
<1> QED
    BY <1>4, <1>5, <1>6, <1>7 DEF BootInv

LEMMA StartKernelStep ==
    ASSUME BootInv, NEW c \in Core, StartKernel(c) PROVE BootInv'
<1>1. /\ stage[c] = "start" /\ vector' = [vector EXCEPT ![c][MAILBOX] = "null"]
      /\ UNCHANGED <<bss, newlib_lock, routed, mailbox, lists, queues, armed, cpu>>
      /\ BootTypeOK /\ Go(c, "idle")
    BY DEF StartKernel, At, BootInv
<1>2. stage'[c] = "idle" /\ \A d \in Core : d # c => stage'[d] = stage[d]
    BY <1>1, Gone
<1>3. /\ vector'[c][TIMER] = vector[c][TIMER]
      /\ \A d \in Core : d # c => vector'[d] = vector[d]
    BY <1>1 DEF BootTypeOK, TIMER, MAILBOX
<1>4. BootTypeOK'
    BY <1>1 DEF Go, BootTypeOK, Stage, InKernel
<1>5. HandlerInv' /\ BssInv'
    BY <1>1, <1>2, <1>3, CoreFacts
       DEF BootInv, HandlerInv, BssInv, Interruptible, InKernel, Releasing, Started
<1>6. ReleaseInv'
    BY <1>1, <1>2, CoreFacts
       DEF BootInv, ReleaseInv, AfterLists, AfterQueues, InKernel
<1>7. LockInv'
    BY <1>1, <1>2, QuietStep DEF BootInv, Inside, Section
<1> QED
    BY <1>4, <1>5, <1>6, <1>7 DEF BootInv

(* The steps that move a core within Started and arm its timer at most. *)
LEMMA OnwardStep ==
    ASSUME BootInv, NEW c \in Core, ArmTimer(c) \/ Dispatched(c) PROVE BootInv'
<1>1. /\ stage[c] \in {"arm", "dispatch"} /\ armed' \in [Core -> BOOLEAN]
      /\ UNCHANGED <<bss, newlib_lock, vector, routed, mailbox, lists, queues, cpu>>
      /\ BootTypeOK /\ Go(c, "user")
    BY DEF ArmTimer, Dispatched, At, BootInv, BootTypeOK
<1>2. stage'[c] = "user" /\ \A d \in Core : d # c => stage'[d] = stage[d]
    BY <1>1, Gone
<1>3. BootTypeOK'
    BY <1>1 DEF Go, BootTypeOK, Stage, InKernel
<1>4. HandlerInv' /\ BssInv'
    BY <1>1, <1>2, CoreFacts
       DEF BootInv, HandlerInv, BssInv, Interruptible, InKernel, Releasing, Started
<1>5. ReleaseInv'
    BY <1>1, <1>2, CoreFacts
       DEF BootInv, ReleaseInv, AfterLists, AfterQueues, InKernel
<1>6. LockInv'
    BY <1>1, <1>2, QuietStep DEF BootInv, Inside, Section
<1> QED
    BY <1>3, <1>4, <1>5, <1>6 DEF BootInv

-----------------------------------------------------------------------------
LEMMA BootStepKept ==
    ASSUME BootInv, [BootNext]_bootVars PROVE BootInv'
<1>1. CASE UNCHANGED bootVars
    BY <1>1 DEF BootInv, BootTypeOK, HandlerInv, BssInv, ReleaseInv, LockInv,
                Inside, bootVars
<1>2. ASSUME BootNext PROVE BootInv'
    <2>1. PICK c \in Core : BootStep(c)
        BY <1>2 DEF BootNext
    <2>2. CASE MailboxInterrupt(c) \/ TimerInterrupt(c)
        BY <2>2, MailboxInterruptStep, TimerInterruptStep
    <2>3. CASE Acquire(c)
        BY <2>3, NewlibLockStep DEF Acquire, Greet, Announce, CreateIdle, CreateRoot
    <2>4. CASE CallLock(c)
        BY <2>4, NewlibLockStep DEF CallLock
    <2>5. CASE MainStep(c)
        <3>1. ASSUME Greeted(c) PROVE BootInv'
            BY <3>1, NewlibUnlockStep DEF Greeted
        <3> QED
            BY <2>5, <3>1, RegisterStep, RouteStep DEF MainStep
    <2>6. CASE HandlerStep(c)
        <3>1. ASSUME \/ Announced(c) \/ IdleCreated(c) \/ RootCreated(c) \/ CallReturn(c)
              PROVE  BootInv'
            BY <3>1, NewlibUnlockStep DEF Announced, IdleCreated, RootCreated, CallReturn
        <3> QED
            BY <2>6, <3>1, ClearMailboxStep, StartKernelStep, OnwardStep DEF HandlerStep
    <2>7. CASE Core0Step
        BY <2>7, ClearBssStep, CoreEnableStep, MasterCoreStep, ProcInitStep,
           DispInitStep, ReleaseStep DEF Core0Step
    <2> QED
        BY <2>1, <2>2, <2>3, <2>4, <2>5, <2>6, <2>7 DEF BootStep
<1> QED
    BY <1>1, <1>2

LEMMA BootInvariant == BootSpec => []BootInv
<1>1. BootInit => BootInv
    BY InitBoot
<1>2. BootInv /\ [BootNext]_bootVars => BootInv'
    BY BootStepKept
<1> QED
    BY <1>1, <1>2, PTL DEF BootSpec

(* No core ever ends in undefined_handler or in a NULL handler: what is    *)
(* routed is registered, and no release comes after kernel_start.          *)
THEOREM InterruptsHandled == BootSpec => []NoInterruptLost
<1>1. BootInv => NoInterruptLost
    BY DEF BootInv, HandlerInv, NoInterruptLost
<1> QED
    BY <1>1, BootInvariant, PTL

(* The bss is clear before a slave runs, and the lists and queues are set  *)
(* up before any core, core 0 included, enters kernel_start.               *)
THEOREM NothingUsedEarly == BootSpec => []SetUpFirst
<1>1. BootInv => SetUpFirst
    BY CoreFacts DEF BootInv, BssInv, ReleaseInv, SetUpFirst, AfterLists, AfterQueues
<1> QED
    BY <1>1, BootInvariant, PTL

(* One core holds newlib_lock at a time, in whatever stage, and a release  *)
(* never interrupts the one that does, which would then wait for itself.   *)
THEOREM NewlibApart == BootSpec => []NewlibMutex
<1>1. BootInv => NewlibMutex
    BY DEF BootInv, LockInv, NewlibMutex, Inside, Section
<1> QED
    BY <1>1, BootInvariant, PTL

=============================================================================
