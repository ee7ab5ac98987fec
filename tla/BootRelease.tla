---------------------------- MODULE BootRelease -----------------------------
(***************************************************************************)
(* From reset to the scheduler (bootcode64.s, cstartup.c, init.c,          *)
(* multicore.c, interrupts.c, kinit.c): core 0 clears the bss and starts   *)
(* the other cores, every core registers its handlers and waits, and core  *)
(* 0 releases all of them through their mailboxes, itself last.  The       *)
(* release is an interrupt that never returns: kernel_start runs in it.    *)
(***************************************************************************)
EXTENDS Naturals

CONSTANT NumCores

ASSUME CoresAssumption == NumCores \in Nat \ {0}

Core  == 0 .. NumCores - 1
Slave == 1 .. NumCores - 1

(* Entries of vector_table_int that are used. *)
TIMER   == 1
MAILBOX == 4

VARIABLES
    stage,        \* where core c is
    bss,          \* init_bss has run: locks, lists and queues are zero
    newlib_lock,  \* newlib_lock.flag
    vector,       \* vector_table_int[c]
    routed,       \* core_mailbox->interrupt_routing[c]
    mailbox,      \* a message in core_mailbox->set[c], until rd_clr
    lists,        \* proc_init has run
    queues,       \* disp_init has run
    armed,        \* the timer of core c has been rearmed
    cpu           \* core 0's loop over the other cores

bootVars == <<stage, bss, newlib_lock, vector, routed, mailbox, lists, queues,
              armed, cpu>>

At(c, s) == stage[c] = s
Go(c, s) == stage' = [stage EXCEPT ![c] = s]

-----------------------------------------------------------------------------
(* init_bss, on core 0 alone. *)
ClearBss ==
    /\ At(0, "reset")
    /\ bss' = TRUE
    /\ newlib_lock' = FALSE
    /\ Go(0, "enable")
    /\ UNCHANGED <<vector, routed, mailbox, lists, queues, armed, cpu>>

(* core_enable of the next core, which leaves the firmware's wait loop.    *)
CoreEnable ==
    /\ At(0, "enable")
    /\ cpu < NumCores
    /\ stage' = [stage EXCEPT ![cpu] = "main"]
    /\ cpu' = cpu + 1
    /\ UNCHANGED <<bss, newlib_lock, vector, routed, mailbox, lists, queues, armed>>

MasterCore ==
    /\ At(0, "enable")
    /\ cpu = NumCores
    /\ Go(0, "main")
    /\ cpu' = NumCores
    /\ UNCHANGED <<bss, newlib_lock, vector, routed, mailbox, lists, queues, armed>>

(* Mutant of NewlibLock: the flag is set without looking at it. *)
NewlibLockBlind(c, from, to) ==
    /\ At(c, from)
    /\ newlib_lock' = TRUE
    /\ Go(c, to)
    /\ UNCHANGED <<bss, vector, routed, mailbox, lists, queues, armed, cpu>>

(* The greetings of master_core, slave_core and kernel_release_handler are *)
(* printed under newlib_lock, which proc_create and system calls take too. *)
NewlibLock(c, from, to) ==
    /\ At(c, from)
    /\ ~newlib_lock
    /\ newlib_lock' = TRUE
    /\ Go(c, to)
    /\ UNCHANGED <<bss, vector, routed, mailbox, lists, queues, armed, cpu>>

NewlibUnlock(c, from, to) ==
    /\ At(c, from)
    /\ newlib_lock' = FALSE
    /\ Go(c, to)
    /\ UNCHANGED <<bss, vector, routed, mailbox, lists, queues, armed, cpu>>

Greet(c) == NewlibLock(c, "main", "greeting")
Greeted(c) == NewlibUnlock(c, "greeting", "register")

(* kernel_init: the handlers of the timer and the release... *)
Register(c) ==
    /\ At(c, "register")
    /\ vector' = [vector EXCEPT ![c][TIMER] = "timer", ![c][MAILBOX] = "release"]
    /\ Go(c, "route")
    /\ UNCHANGED <<bss, newlib_lock, routed, mailbox, lists, queues, armed, cpu>>

(* ... then the routing; a slave is ready to be released. *)
Route(c) ==
    /\ At(c, "route")
    /\ routed' = [routed EXCEPT ![c] = TRUE]
    /\ Go(c, IF c = 0 THEN "proc_init" ELSE "spin")
    /\ UNCHANGED <<bss, newlib_lock, vector, mailbox, lists, queues, armed, cpu>>

ProcInit ==
    /\ At(0, "proc_init")
    /\ lists' = TRUE
    /\ Go(0, "disp_init")
    /\ UNCHANGED <<bss, newlib_lock, vector, routed, mailbox, queues, armed, cpu>>

(* Mutant of DispInit: the release loop is entered first. *)
DispInitLate ==
    /\ At(0, "disp_init")
    /\ queues' = queues
    /\ cpu' = NumCores
    /\ Go(0, "release")
    /\ UNCHANGED <<bss, newlib_lock, vector, routed, mailbox, lists, armed>>

DispInit ==
    /\ At(0, "disp_init")
    /\ queues' = TRUE
    /\ cpu' = NumCores
    /\ Go(0, "release")
    /\ UNCHANGED <<bss, newlib_lock, vector, routed, mailbox, lists, armed>>

(* Mutant of Release: core 0 comes first and never releases the others. *)
ReleaseUpwards ==
    /\ At(0, "release")
    /\ cpu > 0
    /\ mailbox' = [mailbox EXCEPT ![NumCores - cpu] = TRUE]
    /\ cpu' = cpu - 1
    /\ Go(0, IF cpu = 1 THEN "spin" ELSE "release")
    /\ UNCHANGED <<bss, newlib_lock, vector, routed, lists, queues, armed>>

(* One mailbox after the other, from the last core down to core 0 itself.  *)
Release ==
    /\ At(0, "release")
    /\ cpu > 0
    /\ mailbox' = [mailbox EXCEPT ![cpu - 1] = TRUE]
    /\ cpu' = cpu - 1
    /\ Go(0, IF cpu = 1 THEN "spin" ELSE "release")
    /\ UNCHANGED <<bss, newlib_lock, vector, routed, lists, queues, armed>>

-----------------------------------------------------------------------------
(* Interrupts are unmasked from _init_core until one is taken; the kernel  *)
(* unmasks them again when it leaves for the first process.                *)
InMain == {"main", "greeting", "register", "route", "proc_init", "disp_init",
           "release", "spin"}

Calls(handle) == IF handle = "release" THEN "released" ELSE "lost"

(* interrupt_handler_irq looks the source up and calls what it finds; the  *)
(* default handler loops for ever, and NULL is nowhere.                    *)
MailboxInterrupt(c) ==
    /\ stage[c] \in InMain \cup {"user"}
    /\ mailbox[c] /\ routed[c]
    /\ Go(c, Calls(vector[c][MAILBOX]))
    /\ UNCHANGED <<bss, newlib_lock, vector, routed, mailbox, lists, queues, armed, cpu>>

(* A tick of the armed timer: what the scheduler then does is in Dispatch. *)
TimerInterrupt(c) ==
    /\ At(c, "user")
    /\ armed[c]
    /\ Go(c, IF vector[c][TIMER] = "timer" THEN "dispatch" ELSE "lost")
    /\ UNCHANGED <<bss, newlib_lock, vector, routed, mailbox, lists, queues, armed, cpu>>

Announce(c)  == NewlibLock(c, "released", "announcing")
Announced(c) == NewlibUnlock(c, "announcing", "clear")

(* Mutant of ClearMailbox: the message stays. *)
ClearMailboxNot(c) ==
    /\ At(c, "clear")
    /\ mailbox' = mailbox
    /\ Go(c, "start")
    /\ UNCHANGED <<bss, newlib_lock, vector, routed, lists, queues, armed, cpu>>

ClearMailbox(c) ==
    /\ At(c, "clear")
    /\ mailbox' = [mailbox EXCEPT ![c] = FALSE]
    /\ Go(c, "start")
    /\ UNCHANGED <<bss, newlib_lock, vector, routed, lists, queues, armed, cpu>>

(* kernel_start: no more releases; ... *)
StartKernel(c) ==
    /\ At(c, "start")
    /\ vector' = [vector EXCEPT ![c][MAILBOX] = "null"]
    /\ Go(c, "idle")
    /\ UNCHANGED <<bss, newlib_lock, routed, mailbox, lists, queues, armed, cpu>>

(* ... the proc_create of the idle and of the root process, each of which  *)
(* takes newlib_lock for its memory (and goes on as in Newlib, Dispatch    *)
(* and ProcessTable); ...                                                  *)
CreateIdle(c)  == NewlibLock(c, "idle", "idle_malloc")
IdleCreated(c) == NewlibUnlock(c, "idle_malloc", "root")
CreateRoot(c)  == NewlibLock(c, "root", "root_malloc")
RootCreated(c) == NewlibUnlock(c, "root_malloc", "arm")

(* ... the first timer, and __load_context of the first process. *)
ArmTimer(c) ==
    /\ At(c, "arm")
    /\ armed' = [armed EXCEPT ![c] = TRUE]
    /\ Go(c, "user")
    /\ UNCHANGED <<bss, newlib_lock, vector, routed, mailbox, lists, queues, cpu>>

(* A process takes newlib_lock in a system call, SYS_PUTS say, while other *)
(* cores have not come that far.                                           *)
CallLock(c)   == NewlibLock(c, "user", "call")
CallReturn(c) == NewlibUnlock(c, "call", "user")

(* From the scheduler back to a process. *)
Dispatched(c) ==
    /\ At(c, "dispatch")
    /\ Go(c, "user")
    /\ UNCHANGED <<bss, newlib_lock, vector, routed, mailbox, lists, queues, armed, cpu>>

-----------------------------------------------------------------------------
BootInit ==
    /\ stage = [c \in Core |-> IF c = 0 THEN "reset" ELSE "parked"]
    /\ bss = FALSE
    /\ newlib_lock \in BOOLEAN
    /\ vector = [c \in Core |-> [e \in {TIMER, MAILBOX} |-> "undefined"]]
    /\ routed  = [c \in Core |-> FALSE]
    /\ mailbox = [c \in Core |-> FALSE]
    /\ lists = FALSE /\ queues = FALSE
    /\ armed = [c \in Core |-> FALSE]
    /\ cpu = 1

(* Where the boot waits for newlib_lock. *)
Acquire(c) == Greet(c) \/ Announce(c) \/ CreateIdle(c) \/ CreateRoot(c)

MainStep(c) == Greeted(c) \/ Register(c) \/ Route(c)

HandlerStep(c) ==
    \/ Announced(c) \/ ClearMailbox(c) \/ StartKernel(c)
    \/ IdleCreated(c) \/ RootCreated(c) \/ ArmTimer(c)
    \/ CallReturn(c) \/ Dispatched(c)

Core0Step ==
    ClearBss \/ CoreEnable \/ MasterCore \/ ProcInit \/ DispInit \/ Release

BootStep(c) ==
    \/ MailboxInterrupt(c) \/ TimerInterrupt(c)
    \/ Acquire(c)
    \/ MainStep(c) \/ HandlerStep(c)
    \/ CallLock(c)
    \/ c = 0 /\ Core0Step

BootNext == \E c \in Core : BootStep(c)

BootSpec == BootInit /\ [][BootNext]_bootVars

(* Cores run on or take their release, and the lock is fair to the boot.   *)
(* Nothing is asked of the processes and of the timer.                     *)
BootFairness ==
    \A c \in Core :
        /\ WF_bootVars(MailboxInterrupt(c) \/ MainStep(c) \/ HandlerStep(c)
                         \/ (c = 0 /\ Core0Step))
        /\ SF_bootVars(Acquire(c))

BootFairSpec == BootSpec /\ BootFairness

-----------------------------------------------------------------------------
(* The stages from the release on. *)
InKernel == {"released", "announcing", "clear", "start", "idle", "idle_malloc", "root",
             "root_malloc", "arm", "user", "call", "dispatch"}

(* No interrupt ends in undefined_handler or in a NULL handler: a release  *)
(* that comes before a core has registered its handlers waits, and none    *)
(* comes after kernel_start has taken the handler away.                    *)
NoInterruptLost == \A c \in Core : stage[c] # "lost"

(* Nothing is used before it is set up: a core leaves the firmware after   *)
(* the bss is cleared (newlib_lock is in it), and enters kernel_start, and *)
(* with it proc_create, after core 0 has set up the lists and the queues.  *)
SetUpFirst ==
    /\ \A c \in Slave : stage[c] # "parked" => bss
    /\ \A c \in Core : stage[c] \in InKernel => lists /\ queues

(* The stages inside a newlib_lock section. *)
Section == {"greeting", "announcing", "idle_malloc", "root_malloc", "call"}

(* The release, which takes newlib_lock, never interrupts a core inside    *)
(* its own newlib_lock section: the flag is set exactly while one core is  *)
(* in one of the sections.                                                 *)
NewlibMutex ==
    LET inside == {c \in Core : stage[c] \in Section} IN
    bss => /\ newlib_lock <=> inside # {}
           /\ \A c, d \in inside : c = d

(* Every core, core 0 last, starts its first process, with the timer       *)
(* armed, also while processes on other cores take newlib_lock.            *)
AllStart == <>(\A c \in Core : armed[c] /\ stage[c] \in {"user", "call", "dispatch"})

=============================================================================
