------------------------------- MODULE Newlib -------------------------------
(***************************************************************************)
(* What the kernel does behind newlib_lock: it allocates from the heap of  *)
(* _sbrk (cstubs.c) for proc_create and SYS_MALLOC, and writes texts to    *)
(* the UART for SYS_PUTS, for the trace of a process that ends and for a   *)
(* request it does not know; and the head of proc_create (thread.c), which *)
(* gives pids to the processes it has found memory for.                    *)
(*                                                                         *)
(* malloc and printf are newlib's.  As the kernel uses them, a malloc is   *)
(* one _sbrk, for nothing is ever freed (thread.c:199), and a printf is    *)
(* the uart_putc of each character.  A core reads heap_end in one step and *)
(* advances it in the next: only the lock keeps other cores out.           *)
(***************************************************************************)
EXTENDS Integers, FiniteSets

CONSTANTS
    Core,         \* the cores
    HeapSize,     \* __heap_end - __heap_start (linker.ld)
    ProcessSize,  \* what malloc(sizeof(process_t)) takes
    StackSize,    \* what malloc(PROC_STACK) takes
    UserSize,     \* what a program's SYS_MALLOC takes
    PidMod,       \* 2^32, the number of pids
    TextLength    \* the number of characters of a text

ASSUME NewlibCores == IsFiniteSet(Core)
ASSUME NewlibSizes ==
    /\ HeapSize \in Nat
    /\ {ProcessSize, StackSize, UserSize, TextLength} \subseteq Nat \ {0}
(* The heap is used up long before the pids from 1 on are: 2^28 bytes,     *)
(* 2^32 pids.                                                              *)
ASSUME NewlibPids ==
    /\ PidMod \in Nat \ {0}
    /\ HeapSize < (PidMod - 1) * (ProcessSize + StackSize)

Cell   == 0 .. HeapSize - 1
Pid    == 0 .. PidMod - 1
Prints == {"puts", "trace", "unhandled"}
Nobody == [by |-> "nobody", at |-> TextLength]

VARIABLES
    pc,           \* where core c is: "user" or a point of the call
    request,      \* the call core c is in
    newlib_lock,  \* newlib_lock.flag
    heap_end,     \* _sbrk's heap_end, from __heap_start
    prev,         \* _sbrk's prev_heap_end on core c
    second,       \* core c is in proc_create's second malloc
    failed,       \* this call has been refused memory or a pid
    used,         \* how many allocations hold each cell of the heap
    next_pid,     \* the global next_pid
    holders,      \* how many creations have been given each pid
    sent,         \* the loop variable of uart_write on core c
    full,         \* MU_LSR_SEND_EMPTY is clear: no character fits
    out           \* the last character the UART took: whose, and which

heapVars == <<heap_end, prev, second, failed, used>>
pidVars  == <<next_pid, holders>>
uartVars == <<sent, full, out>>
newlibVars == <<pc, request, newlib_lock, heapVars, pidVars, uartVars>>

Goto(c, l) == pc' = [pc EXCEPT ![c] = l]

-----------------------------------------------------------------------------
(* A core with call r spins on newlib_lock. *)
Call(c, r) ==
    /\ pc[c] = "user"
    /\ Goto(c, "lock")
    /\ request' = [request EXCEPT ![c] = r]
    /\ failed'  = [failed EXCEPT ![c] = FALSE]
    /\ UNCHANGED <<newlib_lock, heap_end, prev, second, used, pidVars, uartVars>>

ProcCreate(c) == Call(c, "create")
Malloc(c)     == Call(c, "malloc")
Puts(c)       == Call(c, "puts")
Trace(c)      == Call(c, "trace")
Unhandled(c)  == Call(c, "unhandled")

(* printf ends in _write, malloc in _sbrk. *)
Body(c) == IF request[c] \in Prints THEN "putc" ELSE "sbrk"

(* Mutant of Lock: the flag is set without looking at it. *)
LockBlind(c) ==
    /\ pc[c] = "lock"
    /\ newlib_lock' = TRUE
    /\ Goto(c, Body(c))
    /\ UNCHANGED <<request, heapVars, pidVars, uartVars>>

Lock(c) ==
    /\ pc[c] = "lock"
    /\ ~newlib_lock
    /\ newlib_lock' = TRUE
    /\ Goto(c, Body(c))
    /\ UNCHANGED <<request, heapVars, pidVars, uartVars>>

-----------------------------------------------------------------------------
Size(c) == IF request[c] = "malloc" THEN UserSize
           ELSE IF second[c] THEN StackSize ELSE ProcessSize

(* proc_create asks for the stack whether or not it has the process. *)
MallocReturns(c) ==
    LET again == request[c] = "create" /\ ~second[c]
    IN  /\ second' = [second EXCEPT ![c] = again]
        /\ Goto(c, IF again THEN "sbrk" ELSE "unlock")

(* _sbrk up to its test, and its return when the heap is too full. *)
SbrkRead(c) ==
    /\ pc[c] = "sbrk"
    /\ IF heap_end + Size(c) > HeapSize
       THEN /\ failed' = [failed EXCEPT ![c] = TRUE]
            /\ MallocReturns(c)
            /\ UNCHANGED prev
       ELSE /\ prev' = [prev EXCEPT ![c] = heap_end]
            /\ Goto(c, "bump")
            /\ UNCHANGED <<failed, second>>
    /\ UNCHANGED <<request, newlib_lock, heap_end, used, pidVars, uartVars>>

(* The rest: the cells from prev_heap_end on belong to the caller. *)
SbrkBump(c) ==
    /\ pc[c] = "bump"
    /\ heap_end' = heap_end + Size(c)
    /\ used' = [a \in Cell |-> IF a \in prev[c] .. prev[c] + Size(c) - 1
                               THEN used[a] + 1 ELSE used[a]]
    /\ MallocReturns(c)
    /\ prev' = [prev EXCEPT ![c] = 0]
    /\ UNCHANGED <<request, newlib_lock, failed, pidVars, uartVars>>

(* After the unlock a creation without memory and an unknown request loop  *)
(* for ever.                                                               *)
AfterUnlock(c) ==
    IF \/ request[c] = "unhandled"
       \/ request[c] = "create" /\ failed[c]
    THEN "stuck"
    ELSE IF request[c] = "create" THEN "pid" ELSE "user"

(* Mutant of Unlock: what malloc returned is not looked at. *)
UnlockUntested(c) ==
    /\ pc[c] = "unlock"
    /\ newlib_lock' = FALSE
    /\ Goto(c, IF request[c] = "create" THEN "pid" ELSE AfterUnlock(c))
    /\ UNCHANGED <<request, heapVars, pidVars, uartVars>>

(* Mutant of Unlock: the loop comes before the unlock. *)
UnlockLate(c) ==
    /\ pc[c] = "unlock"
    /\ newlib_lock' = (AfterUnlock(c) = "stuck")
    /\ Goto(c, AfterUnlock(c))
    /\ UNCHANGED <<request, heapVars, pidVars, uartVars>>

Unlock(c) ==
    /\ pc[c] = "unlock"
    /\ newlib_lock' = FALSE
    /\ Goto(c, AfterUnlock(c))
    /\ UNCHANGED <<request, heapVars, pidVars, uartVars>>

(* The atomic increment gives the pid. *)
PidAlloc(c) ==
    /\ pc[c] = "pid"
    /\ next_pid' = (next_pid + 1) % PidMod
    /\ holders'  = [holders EXCEPT ![next_pid] = @ + 1]
    /\ Goto(c, "wrap")
    /\ UNCHANGED <<request, newlib_lock, heapVars, uartVars>>

(* next_pid is read again.  At 0 the creation is given up with EAGAIN,     *)
(* else it goes on as in Dispatch and ProcessTable.                        *)
PidTest(c) ==
    /\ pc[c] = "wrap"
    /\ failed' = [failed EXCEPT ![c] = next_pid = 0]
    /\ Goto(c, "user")
    /\ UNCHANGED <<request, newlib_lock, heap_end, prev, second, used, pidVars,
                   uartVars>>

-----------------------------------------------------------------------------
(* Mutant of PutcWait: the line status is not waited for. *)
PutcNoWait(c) ==
    /\ pc[c] = "putc"
    /\ Goto(c, "send")
    /\ UNCHANGED <<request, newlib_lock, heapVars, pidVars, uartVars>>

(* uart_putc waits until a character fits. *)
PutcWait(c) ==
    /\ pc[c] = "putc"
    /\ ~full
    /\ Goto(c, "send")
    /\ UNCHANGED <<request, newlib_lock, heapVars, pidVars, uartVars>>

(* The store to the io register, which a full UART drops, and the loop. *)
PutcSend(c) ==
    /\ pc[c] = "send"
    /\ sent' = [sent EXCEPT ![c] = (@ + 1) % TextLength]
    /\ IF full THEN UNCHANGED <<full, out>>
               ELSE full' = TRUE /\ out' = [by |-> c, at |-> sent[c] + 1]
    /\ Goto(c, IF sent[c] + 1 = TextLength THEN "unlock" ELSE "putc")
    /\ UNCHANGED <<request, newlib_lock, heapVars, pidVars>>

(* The device sends the character it holds. *)
Transmit ==
    /\ full
    /\ full' = FALSE
    /\ UNCHANGED <<pc, request, newlib_lock, heapVars, pidVars, sent, out>>

-----------------------------------------------------------------------------
(* The first pid is 1: the kernel takes 0 for the lack of a process. *)
PidInit ==
    /\ next_pid = 1
    /\ holders  = [p \in Pid |-> 0]

NewlibInit ==
    /\ pc = [c \in Core |-> "user"]
    /\ request = [c \in Core |-> "puts"]
    /\ newlib_lock = FALSE
    /\ heap_end = 0
    /\ prev = [c \in Core |-> 0]
    /\ second = [c \in Core |-> FALSE]
    /\ failed = [c \in Core |-> FALSE]
    /\ used = [a \in Cell |-> 0]
    /\ PidInit
    /\ sent = [c \in Core |-> 0]
    /\ full = FALSE
    /\ out = Nobody

Enter(c) == ProcCreate(c) \/ Malloc(c) \/ Puts(c) \/ Trace(c) \/ Unhandled(c)

CallStep(c) ==
    \/ SbrkRead(c) \/ SbrkBump(c) \/ Unlock(c) \/ PidAlloc(c) \/ PidTest(c)
    \/ PutcWait(c) \/ PutcSend(c)

NewlibNext ==
    \/ \E c \in Core : Enter(c) \/ Lock(c) \/ CallStep(c)
    \/ Transmit

NewlibSpec == NewlibInit /\ [][NewlibNext]_newlibVars

(* A core goes on inside a call, the spinlock is fair in the end and the   *)
(* UART sends what it has.                                                 *)
NewlibFairness ==
    /\ \A c \in Core : WF_newlibVars(CallStep(c)) /\ SF_newlibVars(Lock(c))
    /\ WF_newlibVars(Transmit)

NewlibFairSpec == NewlibSpec /\ NewlibFairness

-----------------------------------------------------------------------------
Label == {"user", "lock", "sbrk", "bump", "unlock", "pid", "wrap", "putc",
          "send", "stuck"}

(* Every variable keeps its type. *)
NewlibTypeOK ==
    /\ pc \in [Core -> Label]
    /\ request \in [Core -> {"create", "malloc"} \cup Prints]
    /\ newlib_lock \in BOOLEAN
    /\ heap_end \in 0 .. HeapSize
    /\ prev \in [Core -> 0 .. HeapSize]
    /\ second \in [Core -> BOOLEAN] /\ failed \in [Core -> BOOLEAN]
    /\ used \in [Cell -> Nat]
    /\ next_pid \in Pid
    /\ holders \in [Pid -> Nat]
    /\ sent \in [Core -> 0 .. TextLength - 1]
    /\ full \in BOOLEAN
    /\ out \in [by : Core \cup {"nobody"}, at : 1 .. TextLength]

(* No two allocations share memory, and none reaches past the heap, though *)
(* _sbrk reads heap_end and advances it in two steps.                      *)
BlocksApart ==
    /\ heap_end <= HeapSize
    /\ \A a \in Cell : used[a] <= IF a < heap_end THEN 1 ELSE 0

(* No two processes have the same pid, none has pid 0, which join and the  *)
(* boot take for no process at all, and none is refused for want of a pid: *)
(* proc_create takes one only after it has found memory, so the heap is    *)
(* used up before next_pid comes round to 0.                               *)
PidsApart ==
    /\ \A p \in Pid : holders[p] <= 1
    /\ holders[0] = 0
    /\ \A c \in Core : pc[c] = "wrap" => next_pid # 0

(* Texts come out whole, one after the other: each character follows the   *)
(* one before it of the same text, or the last one of another.             *)
OutputWhole ==
    [][out' # out =>
         \/ out.at = TextLength /\ out'.at = 1
         \/ out' = [out EXCEPT !.at = @ + 1]]_newlibVars

(* Every call comes back or gets to one of the loops that replace an error *)
(* return, also while other cores sit in such a loop.                      *)
CallEnds ==
    \A c \in Core : pc[c] # "user" ~> pc[c] \in {"user", "stuck"}

=============================================================================
