---------------------------- MODULE NewlibProofs ----------------------------
(***************************************************************************)
(* The theorems about Newlib, for every set of cores and all sizes.  The   *)
(* lock makes the two steps of _sbrk one (HeapInv) and keeps texts apart   *)
(* (OutInv); that creations pay for their pids with memory (PayInv) keeps  *)
(* next_pid from coming round.                                             *)
(***************************************************************************)
EXTENDS Newlib, FiniteSetTheorems, TLAPS

Inside(c) == pc[c] \in {"sbrk", "bump", "putc", "send", "unlock"}

LockInv ==
    /\ newlib_lock <=> \E c \in Core : Inside(c)
    /\ \A c, d \in Core : Inside(c) /\ Inside(d) => c = d

(* Which points a call passes, and where its locals are in use. *)
CallInv ==
    \A c \in Core :
        /\ pc[c] \in {"sbrk", "bump"} => request[c] \in {"create", "malloc"}
        /\ pc[c] \in {"putc", "send"} => request[c] \in Prints
        /\ pc[c] \in {"pid", "wrap"} => request[c] = "create"
        /\ pc[c] = "pid" => ~failed[c]
        /\ second[c] => pc[c] \in {"sbrk", "bump"} /\ request[c] = "create"
        /\ sent[c] # 0 => pc[c] \in {"putc", "send"}

(* The core between the two steps of _sbrk has read the present heap_end. *)
HeapInv ==
    /\ BlocksApart
    /\ \A c \in Core :
         pc[c] = "bump" => prev[c] = heap_end /\ heap_end + Size(c) <= HeapSize

(* The last character is the last of its text but for a text on its way. *)
OutInv ==
    /\ \A c \in Core :
         /\ sent[c] # 0 => out = [by |-> c, at |-> sent[c]]
         /\ pc[c] = "send" => ~full
    /\ (\A c \in Core : sent[c] = 0) => out.at = TextLength

(* The creations that have memory and no pid yet, and what the pids below  *)
(* next_pid and theirs would cost: pid 0, which nobody gets, is in it.     *)
Cost    == ProcessSize + StackSize
Paid    == {c \in Core : /\ request[c] = "create" /\ ~failed[c]
                         /\ pc[c] \in {"unlock", "pid"}}
Claimed == Cost * (next_pid + Cardinality(Paid))

PayInv ==
    /\ Claimed <= heap_end + Cost
    /\ \A c \in Core : second[c] /\ ~failed[c] => Claimed + ProcessSize <= heap_end + Cost

PidInv ==
    /\ next_pid >= 1
    /\ \A p \in Pid : holders[p] = IF 1 <= p /\ p < next_pid THEN 1 ELSE 0
    /\ \A c \in Core : pc[c] = "wrap" => next_pid # 0

NewlibInv == /\ NewlibTypeOK /\ LockInv /\ CallInv /\ HeapInv
             /\ OutInv /\ PayInv /\ PidInv

-----------------------------------------------------------------------------
(* What the constants are. *)
LEMMA Sizes ==
    /\ HeapSize \in Nat
    /\ ProcessSize \in Nat \ {0} /\ StackSize \in Nat \ {0}
    /\ UserSize \in Nat \ {0} /\ TextLength \in Nat \ {0}
    /\ PidMod \in Nat \ {0}
BY NewlibSizes, NewlibPids

(* There is a pid besides 0, for the heap has a size. *)
LEMMA PidsFromOne == 0 \in Pid /\ 1 \in Pid
<1>1. ASSUME PidMod = 1 PROVE FALSE
  <2>1. (PidMod - 1) * (ProcessSize + StackSize) = 0
    BY <1>1, Sizes
  <2>. QED
    BY <2>1, NewlibPids, Sizes
<1>. QED
  BY <1>1, Sizes DEF Pid

(* Every malloc asks for at least one cell. *)
LEMMA SizeType ==
    ASSUME NEW c \in Core
    PROVE  Size(c) \in Nat \ {0}
BY Sizes DEF Size

(* Every variable keeps its type. *)
LEMMA TypeStep ==
    ASSUME NewlibInv, [NewlibNext]_newlibVars
    PROVE  NewlibTypeOK'
<1>. USE DEF NewlibTypeOK, Label, Prints, Goto, Pid
<1>a. NewlibTypeOK /\ CallInv /\ HeapInv
  BY DEF NewlibInv
<1>s. USE Sizes
<1>1. ASSUME NEW c \in Core, Enter(c) PROVE NewlibTypeOK'
  BY <1>a, <1>1 DEF Enter, Call, ProcCreate, Malloc, Puts, Trace, Unhandled,
                    pidVars, uartVars
<1>2. ASSUME NEW c \in Core, Lock(c) PROVE NewlibTypeOK'
  <2>1. Body(c) \in Label
    BY DEF Body
  <2>. QED
    BY <1>a, <1>2, <2>1 DEF Lock, heapVars, pidVars, uartVars
<1>3. ASSUME NEW c \in Core, SbrkRead(c) PROVE NewlibTypeOK'
  <2>1. /\ pc' \in [Core -> Label] /\ second' \in [Core -> BOOLEAN]
        /\ failed' \in [Core -> BOOLEAN]
    BY <1>a, <1>3 DEF SbrkRead, MallocReturns
  <2>2. prev' \in [Core -> 0 .. HeapSize]
    BY <1>a, <1>3 DEF SbrkRead
  <2>. QED
    BY <1>a, <1>3, <2>1, <2>2 DEF SbrkRead, pidVars, uartVars
<1>4. ASSUME NEW c \in Core, SbrkBump(c) PROVE NewlibTypeOK'
  <2>1. heap_end' \in 0 .. HeapSize
    BY <1>a, <1>4, SizeType DEF SbrkBump, HeapInv
  <2>2. used' \in [Cell -> Nat]
    BY <1>a, <1>4 DEF SbrkBump
  <2>. QED
    BY <1>a, <1>4, <2>1, <2>2 DEF SbrkBump, MallocReturns, pidVars, uartVars
<1>5. ASSUME NEW c \in Core, Unlock(c) PROVE NewlibTypeOK'
  <2>1. AfterUnlock(c) \in Label
    BY DEF AfterUnlock
  <2>. QED
    BY <1>a, <1>5, <2>1 DEF Unlock, heapVars, pidVars, uartVars
<1>6. ASSUME NEW c \in Core, PidAlloc(c) PROVE NewlibTypeOK'
  <2>1. next_pid' \in Pid
    BY <1>a, <1>6 DEF PidAlloc
  <2>2. holders' \in [Pid -> Nat]
    BY <1>a, <1>6 DEF PidAlloc
  <2>. QED
    BY <1>a, <1>6, <2>1, <2>2 DEF PidAlloc, heapVars, uartVars
<1>7. ASSUME NEW c \in Core, PidTest(c) PROVE NewlibTypeOK'
  BY <1>a, <1>7 DEF PidTest, pidVars, uartVars
<1>8. ASSUME NEW c \in Core, PutcWait(c) PROVE NewlibTypeOK'
  BY <1>a, <1>8 DEF PutcWait, heapVars, pidVars, uartVars
<1>9. ASSUME NEW c \in Core, PutcSend(c) PROVE NewlibTypeOK'
  <2>1. sent' \in [Core -> 0 .. TextLength - 1]
    BY <1>a, <1>9 DEF PutcSend
  <2>2. out' \in [by : Core \cup {"nobody"}, at : 1 .. TextLength]
    BY <1>a, <1>9 DEF PutcSend
  <2>. QED
    BY <1>a, <1>9, <2>1, <2>2 DEF PutcSend, heapVars, pidVars
<1>10. CASE Transmit
  BY <1>a, <1>10 DEF Transmit, heapVars, pidVars
<1>11. CASE UNCHANGED newlibVars
  BY <1>a, <1>11 DEF newlibVars, heapVars, pidVars, uartVars
<1>. QED
  BY <1>1, <1>2, <1>3, <1>4, <1>5, <1>6, <1>7, <1>8, <1>9, <1>10, <1>11
     DEF NewlibNext, CallStep

Others(c) ==
    \A d \in Core \ {c} :
        /\ pc'[d] = pc[d] /\ request'[d] = request[d] /\ sent'[d] = sent[d]
        /\ second'[d] = second[d] /\ failed'[d] = failed[d]
        /\ prev'[d] = prev[d]

(* The step of a core leaves the locals of the others alone. *)
LEMMA OthersKeep ==
    ASSUME NewlibTypeOK, NEW c \in Core, Enter(c) \/ Lock(c) \/ CallStep(c)
    PROVE  Others(c)
<1>. USE DEF Others, NewlibTypeOK, Goto, heapVars, pidVars, uartVars
<1>1. CASE Enter(c)
  BY <1>1 DEF Enter, Call, ProcCreate, Malloc, Puts, Trace, Unhandled
<1>2. CASE Lock(c)
  BY <1>2 DEF Lock
<1>3. CASE SbrkRead(c)
  BY <1>3 DEF SbrkRead, MallocReturns
<1>4. CASE SbrkBump(c)
  BY <1>4 DEF SbrkBump, MallocReturns
<1>5. CASE Unlock(c) \/ PidAlloc(c) \/ PidTest(c) \/ PutcWait(c)
  BY <1>5 DEF Unlock, PidAlloc, PidTest, PutcWait
<1>6. CASE PutcSend(c)
  BY <1>6 DEF PutcSend
<1>. QED
  BY <1>1, <1>2, <1>3, <1>4, <1>5, <1>6 DEF CallStep

(* The lock excludes: it is entered when it is clear and left by its       *)
(* holder.                                                                 *)
LEMMA LockStep ==
    ASSUME NewlibInv, [NewlibNext]_newlibVars
    PROVE  LockInv'
<1>. USE DEF LockInv, Inside
<1>a. NewlibTypeOK /\ LockInv /\ CallInv
  BY DEF NewlibInv
<1>1. ASSUME NEW c \in Core, Enter(c) \/ Lock(c) \/ CallStep(c)
      PROVE  LockInv'
  <2>1. \A d \in Core \ {c} : pc'[d] = pc[d]
    BY <1>1, <1>a, OthersKeep DEF Others
  <2>2. CASE Lock(c)
    <3>1. pc'[c] \in {"sbrk", "putc"} /\ newlib_lock' /\ ~newlib_lock
      BY <2>2, <1>a DEF Lock, Body, Goto, NewlibTypeOK
    <3>. QED  BY <3>1, <2>1, <1>a
  <2>3. CASE Unlock(c)
    <3>1. pc[c] = "unlock" /\ ~newlib_lock' /\ pc'[c] \in {"stuck", "pid", "user"}
      BY <2>3, <1>a DEF Unlock, AfterUnlock, Goto, NewlibTypeOK
    <3>. QED  BY <3>1, <2>1, <1>a
  <2>4. ASSUME newlib_lock' = newlib_lock, Inside(c)' <=> Inside(c)
        PROVE  LockInv'
    BY <2>4, <2>1, <1>a
  <2>5. CASE Enter(c)
    BY <2>5, <2>4, <1>a DEF Enter, Call, ProcCreate, Malloc, Puts, Trace,
                            Unhandled, Goto, NewlibTypeOK
  <2>6. CASE SbrkRead(c) \/ SbrkBump(c)
    BY <2>6, <2>4, <1>a DEF SbrkRead, SbrkBump, MallocReturns, Goto, NewlibTypeOK
  <2>7. CASE PidAlloc(c) \/ PidTest(c) \/ PutcWait(c)
    BY <2>7, <2>4, <1>a DEF PidAlloc, PidTest, PutcWait, Goto, NewlibTypeOK
  <2>8. CASE PutcSend(c)
    BY <2>8, <2>4, <1>a DEF PutcSend, Goto, NewlibTypeOK
  <2>. QED
    BY <1>1, <2>2, <2>3, <2>5, <2>6, <2>7, <2>8 DEF CallStep
<1>2. CASE Transmit \/ UNCHANGED newlibVars
  BY <1>2, <1>a DEF Transmit, newlibVars
<1>. QED
  BY <1>1, <1>2 DEF NewlibNext

(* Calls pass their points in order and leave their locals as they were. *)
LEMMA CallInvStep ==
    ASSUME NewlibInv, [NewlibNext]_newlibVars
    PROVE  CallInv'
<1>. USE DEF CallInv, Prints
<1>a. NewlibTypeOK /\ CallInv
  BY DEF NewlibInv
<1>1. ASSUME NEW c \in Core, Enter(c) \/ Lock(c) \/ CallStep(c)
      PROVE  CallInv'
  <2>. USE DEF Goto, NewlibTypeOK, heapVars, pidVars, uartVars
  <2>1. CASE Enter(c)
    BY <2>1, <1>a DEF Enter, Call, ProcCreate, Malloc, Puts, Trace, Unhandled
  <2>2. CASE Lock(c)
    BY <2>2, <1>a DEF Lock, Body
  <2>3. CASE SbrkRead(c)
    <3>1. CASE heap_end + Size(c) > HeapSize
      BY <2>3, <3>1, <1>a DEF SbrkRead, MallocReturns
    <3>2. CASE ~(heap_end + Size(c) > HeapSize)
      BY <2>3, <3>2, <1>a DEF SbrkRead
    <3>. QED  BY <3>1, <3>2
  <2>4. CASE SbrkBump(c)
    BY <2>4, <1>a DEF SbrkBump, MallocReturns
  <2>5. CASE Unlock(c)
    BY <2>5, <1>a DEF Unlock, AfterUnlock
  <2>6. CASE PidAlloc(c) \/ PidTest(c) \/ PutcWait(c)
    BY <2>6, <1>a DEF PidAlloc, PidTest, PutcWait
  <2>7. CASE PutcSend(c)
    BY <2>7, <1>a, Sizes DEF PutcSend
  <2>. QED
    BY <1>1, <2>1, <2>2, <2>3, <2>4, <2>5, <2>6, <2>7 DEF CallStep
<1>2. CASE Transmit \/ UNCHANGED newlibVars
  BY <1>2, <1>a DEF Transmit, newlibVars, heapVars, pidVars, uartVars
<1>. QED
  BY <1>1, <1>2 DEF NewlibNext

(* The heap grows only in the second step of _sbrk, whose core is alone    *)
(* inside and has read the present end.                                    *)
LEMMA HeapStep ==
    ASSUME NewlibInv, [NewlibNext]_newlibVars
    PROVE  HeapInv'
<1>. USE DEF HeapInv, BlocksApart
<1>a. NewlibTypeOK /\ LockInv /\ CallInv /\ HeapInv
  BY DEF NewlibInv
<1>b. NewlibTypeOK'
  BY TypeStep
<1>k. ASSUME heap_end' = heap_end, used' = used,
             \A d \in Core : pc'[d] = "bump" =>
                 /\ pc[d] = "bump" /\ prev'[d] = prev[d]
                 /\ request'[d] = request[d] /\ second'[d] = second[d]
      PROVE  HeapInv'
  BY <1>k, <1>a DEF Size
<1>1. ASSUME NEW c \in Core, Enter(c) \/ Lock(c) \/ CallStep(c)
      PROVE  HeapInv'
  <2>. USE DEF Goto, NewlibTypeOK, heapVars, pidVars, uartVars
  <2>1. \A d \in Core \ {c} : /\ pc'[d] = pc[d] /\ prev'[d] = prev[d]
                              /\ request'[d] = request[d] /\ second'[d] = second[d]
    BY <1>1, <1>a, OthersKeep DEF Others
  <2>2. CASE SbrkRead(c)
    <3>1. CASE heap_end + Size(c) > HeapSize
      <4>1. heap_end' = heap_end /\ used' = used /\ pc'[c] # "bump"
        BY <2>2, <3>1, <1>a DEF SbrkRead, MallocReturns
      <4>. QED  BY <4>1, <2>1, <1>k
    <3>2. CASE ~(heap_end + Size(c) > HeapSize)
      <4>1. /\ heap_end' = heap_end /\ used' = used /\ prev'[c] = heap_end
            /\ request' = request /\ second' = second
        BY <2>2, <3>2, <1>a DEF SbrkRead
      <4>2. Size(c)' = Size(c) /\ heap_end + Size(c) <= HeapSize
        BY <4>1, <3>2, <1>a, SizeType, Sizes DEF Size
      <4>3. \A d \in Core \ {c} : Size(d)' = Size(d)
        BY <4>1 DEF Size
      <4>. QED  BY <4>1, <4>2, <4>3, <2>1, <1>a
    <3>. QED  BY <3>1, <3>2
  <2>3. CASE SbrkBump(c)
    <3>1. /\ pc[c] = "bump" /\ heap_end' = heap_end + Size(c)
          /\ \A x \in Cell : used'[x] = IF x \in heap_end .. heap_end + Size(c) - 1
                                         THEN used[x] + 1 ELSE used[x]
      BY <2>3, <1>a DEF SbrkBump
    <3>2. heap_end' <= HeapSize /\ Size(c) \in Nat
      BY <3>1, <1>a, SizeType
    <3>3. \A x \in Cell : used'[x] <= IF x < heap_end' THEN 1 ELSE 0
      <4>. SUFFICES ASSUME NEW x \in Cell
                    PROVE  used'[x] <= IF x < heap_end' THEN 1 ELSE 0
        OBVIOUS
      <4>1. used[x] \in Nat /\ used[x] <= (IF x < heap_end THEN 1 ELSE 0) /\ x \in Int
        BY <1>a, Sizes DEF Cell
      <4>. QED  BY <4>1, <3>1, <3>2, <1>a, Sizes
    <3>4. \A d \in Core : pc'[d] # "bump"
      BY <2>3, <2>1, <3>1, <1>a DEF SbrkBump, MallocReturns, LockInv, Inside
    <3>. QED  BY <3>2, <3>3, <3>4
  <2>4. CASE Enter(c)
    BY <2>4, <2>1, <1>a, <1>k DEF Enter, Call, ProcCreate, Malloc, Puts, Trace, Unhandled
  <2>5. CASE Lock(c)
    BY <2>5, <2>1, <1>a, <1>k DEF Lock, Body
  <2>6. CASE Unlock(c)
    BY <2>6, <2>1, <1>a, <1>k DEF Unlock, AfterUnlock
  <2>7. CASE PidAlloc(c) \/ PidTest(c) \/ PutcWait(c) \/ PutcSend(c)
    BY <2>7, <2>1, <1>a, <1>k DEF PidAlloc, PidTest, PutcWait, PutcSend
  <2>. QED
    BY <1>1, <2>2, <2>3, <2>4, <2>5, <2>6, <2>7 DEF CallStep
<1>2. CASE Transmit \/ UNCHANGED newlibVars
  BY <1>2, <1>k DEF Transmit, newlibVars, heapVars, pidVars, uartVars
<1>. QED
  BY <1>1, <1>2 DEF NewlibNext

(* A character follows the one before it of its text, or a whole text.     *)
LEMMA OutStep ==
    ASSUME NewlibInv, [NewlibNext]_newlibVars
    PROVE  /\ OutInv'
           /\ out' # out =>
                \/ out.at = TextLength /\ out'.at = 1
                \/ out' = [out EXCEPT !.at = @ + 1]
<1>. USE DEF OutInv
<1>a. NewlibTypeOK /\ LockInv /\ CallInv /\ OutInv
  BY DEF NewlibInv
<1>k. ASSUME out' = out, sent' = sent,
             \A d \in Core : pc'[d] = "send" => pc[d] = "send" \/ ~full,
             full' => full
      PROVE  OutInv'
  BY <1>k, <1>a
<1>1. ASSUME NEW c \in Core, PutcSend(c)
      PROVE  /\ OutInv'
             /\ \/ out.at = TextLength /\ out'.at = 1
                \/ out' = [out EXCEPT !.at = @ + 1]
  <2>. USE DEF Goto, NewlibTypeOK
  <2>1. /\ pc[c] = "send" /\ ~full /\ full' /\ pc'[c] \in {"unlock", "putc"}
        /\ out' = [by |-> c, at |-> sent[c] + 1]
        /\ sent'[c] = (sent[c] + 1) % TextLength
        /\ \A d \in Core \ {c} : sent'[d] = sent[d] /\ pc'[d] = pc[d]
    BY <1>1, <1>a DEF PutcSend
  <2>2. \A d \in Core \ {c} : sent[d] = 0 /\ pc[d] # "send"
    BY <2>1, <1>a DEF LockInv, CallInv, Inside
  <2>3. sent[c] \in 0 .. TextLength - 1
    BY <1>a
  <2>4. \/ sent[c] + 1 = TextLength /\ sent'[c] = 0
        \/ sent[c] + 1 < TextLength /\ sent'[c] = sent[c] + 1
    BY <2>1, <2>3, Sizes
  <2>5. ASSUME sent[c] + 1 = TextLength, sent'[c] = 0 PROVE OutInv'
    <3>1. \A d \in Core : sent'[d] = 0 /\ pc'[d] # "send"
      BY <2>1, <2>2, <2>5
    <3>. QED  BY <2>1, <2>5, <3>1
  <2>6. ASSUME sent[c] + 1 < TextLength, sent'[c] = sent[c] + 1 PROVE OutInv'
    <3>1. sent'[c] # 0 /\ \A d \in Core : pc'[d] # "send"
      BY <2>1, <2>2, <2>3, <2>6
    <3>. QED  BY <2>1, <2>2, <2>6, <3>1
  <2>7. OutInv'
    BY <2>4, <2>5, <2>6
  <2>8. CASE sent[c] = 0
    BY <2>1, <2>2, <2>7, <2>8, <1>a
  <2>9. CASE sent[c] # 0
    <3>1. out = [by |-> c, at |-> sent[c]]
      BY <2>9, <1>a
    <3>2. [out EXCEPT !.at = @ + 1] = [by |-> c, at |-> sent[c] + 1]
      BY <3>1
    <3>. QED  BY <3>2, <2>1, <2>7
  <2>. QED
    BY <2>8, <2>9
<1>2. ASSUME NEW c \in Core, Enter(c) \/ Lock(c) \/ CallStep(c), ~PutcSend(c)
      PROVE  OutInv' /\ out' = out
  <2>. USE DEF Goto, NewlibTypeOK, heapVars, pidVars, uartVars
  <2>1. CASE Enter(c)
    BY <2>1, <1>k, <1>a DEF Enter, Call, ProcCreate, Malloc, Puts, Trace, Unhandled
  <2>2. CASE Lock(c)
    BY <2>2, <1>k, <1>a DEF Lock, Body
  <2>3. CASE SbrkRead(c) \/ SbrkBump(c)
    BY <2>3, <1>k, <1>a DEF SbrkRead, SbrkBump, MallocReturns
  <2>4. CASE Unlock(c)
    BY <2>4, <1>k, <1>a DEF Unlock, AfterUnlock
  <2>5. CASE PidAlloc(c) \/ PidTest(c) \/ PutcWait(c)
    BY <2>5, <1>k, <1>a DEF PidAlloc, PidTest, PutcWait
  <2>. QED
    BY <1>2, <2>1, <2>2, <2>3, <2>4, <2>5 DEF CallStep
<1>3. CASE Transmit \/ UNCHANGED newlibVars
  BY <1>3, <1>k DEF Transmit, newlibVars, heapVars, pidVars, uartVars
<1>. QED
  BY <1>1, <1>2, <1>3 DEF NewlibNext

(* Multiplication is monotonic. *)
LEMMA TimesLeq ==
    ASSUME NEW n \in Nat, NEW a \in Nat, NEW b \in Nat, a <= b
    PROVE  n * a <= n * b
<1>. DEFINE d == b - a
<1>1. d \in Nat /\ b = a + d
  OBVIOUS
<1>2. n * d \in Nat
  BY <1>1
<1>3. n * b = n * a + n * d
  BY <1>1
<1>. QED
  BY <1>2, <1>3

(* Paid is finite, and what it claims is a number. *)
LEMMA PaidFinite ==
    ASSUME NewlibTypeOK
    PROVE  /\ IsFiniteSet(Paid) /\ Cardinality(Paid) \in Nat
           /\ Cost \in Nat /\ next_pid \in Nat /\ Claimed \in Nat
<1>1. IsFiniteSet(Paid)
  BY NewlibCores, FS_Subset DEF Paid
<1>2. Cardinality(Paid) \in Nat
  BY <1>1, FS_CardinalityType
<1>3. Cost \in Nat /\ next_pid \in Nat
  BY Sizes DEF Cost, NewlibTypeOK, Pid
<1>. QED
  BY <1>1, <1>2, <1>3 DEF Claimed

(* Memory is paid for before a creation gets to its pid, so next_pid stays *)
(* below PidMod and its increment does not wrap.                           *)
LEMMA PayStep ==
    ASSUME NewlibInv, [NewlibNext]_newlibVars
    PROVE  PayInv' /\ PidInv'
<1>a. NewlibTypeOK /\ LockInv /\ CallInv /\ HeapInv /\ PayInv /\ PidInv
  BY DEF NewlibInv
<1>b. NewlibTypeOK'
  BY TypeStep
<1>f. /\ IsFiniteSet(Paid) /\ Cardinality(Paid) \in Nat
      /\ Cost \in Nat /\ next_pid \in Nat /\ Claimed \in Nat
  BY <1>a, PaidFinite
<1>g. heap_end \in Nat
  BY <1>a, Sizes DEF NewlibTypeOK
<1>k. ASSUME Paid' = Paid, heap_end' = heap_end, next_pid' = next_pid, holders' = holders,
             \A d \in Core : second'[d] /\ ~failed'[d] => second[d] /\ ~failed[d],
             \A d \in Core : pc'[d] = "wrap" => pc[d] = "wrap"
      PROVE  PayInv' /\ PidInv'
  <2>1. Claimed' = Claimed
    BY <1>k DEF Claimed, Cost
  <2>. QED
    BY <2>1, <1>k, <1>a DEF PayInv, PidInv
<1>1. ASSUME NEW c \in Core, SbrkBump(c)
      PROVE  PayInv' /\ PidInv'
  <2>. USE DEF Goto, NewlibTypeOK
  <2>1. /\ pc[c] = "bump" /\ heap_end' = heap_end + Size(c) /\ next_pid' = next_pid
        /\ holders' = holders /\ request' = request /\ failed' = failed
        /\ pc'[c] \in {"sbrk", "unlock"}
        /\ pc'[c] = "unlock" /\ request[c] = "create" => second[c]
        /\ second'[c] => pc'[c] = "sbrk" /\ request[c] = "create" /\ ~second[c]
        /\ second[c] => pc'[c] = "unlock"
        /\ \A d \in Core \ {c} : second'[d] = second[d] /\ pc'[d] = pc[d]
    BY <1>1, <1>a DEF SbrkBump, MallocReturns, pidVars, uartVars
  <2>2. PidInv'
    BY <2>1, <1>a DEF PidInv
  <2>3. \A d \in Core \ {c} : ~second[d]
    BY <2>1, <1>a DEF LockInv, CallInv, Inside
  <2>4. CASE second[c] /\ ~failed[c]
    <3>1. request[c] = "create" /\ Size(c) = StackSize
      BY <2>4, <1>a DEF CallInv, Size
    <3>2. c \notin Paid /\ Paid' = Paid \cup {c}
      BY <2>1, <2>4, <3>1 DEF Paid
    <3>3. Cardinality(Paid)' = Cardinality(Paid) + 1
      BY <3>2, <1>f, FS_AddElement
    <3>4. Claimed' = Claimed + Cost
      BY <3>3, <2>1, <1>f DEF Claimed, Cost
    <3>5. Claimed + ProcessSize <= heap_end + Cost
      BY <2>4, <1>a DEF PayInv
    <3>6. Claimed' <= heap_end' + Cost
      BY <3>1, <3>4, <3>5, <2>1, <1>f, <1>g, Sizes DEF Cost
    <3>7. \A d \in Core : ~second'[d]
      BY <2>1, <2>3, <2>4
    <3>. QED  BY <3>6, <3>7, <2>2 DEF PayInv
  <2>5. CASE ~(second[c] /\ ~failed[c])
    <3>1. Paid' = Paid
      BY <2>1, <2>5 DEF Paid
    <3>2. Claimed' = Claimed
      BY <3>1, <2>1 DEF Claimed, Cost
    <3>3. Claimed <= heap_end + Cost /\ Size(c) \in Nat
      BY <1>a, SizeType DEF PayInv
    <3>4. Claimed' <= heap_end' + Cost
      BY <3>2, <3>3, <2>1, <1>f, <1>g
    <3>5. ASSUME NEW d \in Core, second'[d], ~failed'[d]
          PROVE  Claimed' + ProcessSize <= heap_end' + Cost
      <4>1. d = c
        BY <3>5, <2>1, <2>3
      <4>2. Size(c) = ProcessSize
        BY <3>5, <4>1, <2>1 DEF Size
      <4>. QED  BY <4>2, <3>2, <3>3, <2>1, <1>f, <1>g
    <3>. QED  BY <3>4, <3>5, <2>2 DEF PayInv
  <2>. QED
    BY <2>4, <2>5
<1>2. ASSUME NEW c \in Core, PidAlloc(c)
      PROVE  PayInv' /\ PidInv'
  <2>. USE DEF Goto, NewlibTypeOK
  <2>1. /\ pc[c] = "pid" /\ pc'[c] = "wrap" /\ heap_end' = heap_end
        /\ request' = request /\ failed' = failed /\ second' = second
        /\ next_pid' = (next_pid + 1) % PidMod
        /\ holders' = [holders EXCEPT ![next_pid] = @ + 1]
        /\ \A d \in Core \ {c} : pc'[d] = pc[d]
    BY <1>2, <1>a DEF PidAlloc, heapVars, uartVars
  <2>2. c \in Paid /\ Paid' = Paid \ {c}
    BY <2>1, <1>a DEF Paid, CallInv
  <2>3. Cardinality(Paid)' = Cardinality(Paid) - 1 /\ Cardinality(Paid)' \in Nat
    <3>1. IsFiniteSet(Paid \ {c})
      BY <1>f, FS_RemoveElement
    <3>. QED  BY <2>2, <1>f, <3>1, FS_RemoveElement, FS_CardinalityType
  <2>4. next_pid + 1 < PidMod
    <3>1. SUFFICES ASSUME ~(next_pid + 1 < PidMod)  PROVE FALSE
      OBVIOUS
    <3>2. PidMod <= next_pid + Cardinality(Paid)
      BY <2>3, <3>1, <1>f, Sizes
    <3>3. Cost * PidMod <= Claimed
      BY <3>2, <1>f, Sizes, TimesLeq DEF Claimed
    <3>4. Claimed <= heap_end + Cost /\ heap_end <= HeapSize
      BY <1>a, Sizes DEF PayInv
    <3>5. HeapSize < (PidMod - 1) * Cost
      BY NewlibPids DEF Cost
    <3>6. (PidMod - 1) * Cost + Cost = Cost * PidMod /\ Cost * PidMod \in Nat
      BY <1>f, Sizes
    <3>7. (PidMod - 1) * Cost \in Nat
      BY <1>f, Sizes
    <3>. QED  BY <3>3, <3>4, <3>5, <3>6, <3>7, <1>f, <1>g, Sizes
  <2>5. next_pid' = next_pid + 1
    BY <2>1, <2>4, <1>f, Sizes
  <2>6. Claimed' = Claimed
    BY <2>3, <2>5, <1>f DEF Claimed, Cost
  <2>7. PayInv'
    BY <2>1, <2>6, <1>a DEF PayInv
  <2>8. \A p \in Pid : holders'[p] = IF 1 <= p /\ p < next_pid' THEN 1 ELSE 0
    BY <2>1, <2>4, <2>5, <1>a, <1>f, Sizes DEF PidInv, Pid
  <2>9. next_pid' # 0 /\ next_pid' >= 1
    BY <2>5, <1>a, <1>f DEF PidInv
  <2>. QED
    BY <2>7, <2>8, <2>9 DEF PidInv
<1>3. ASSUME NEW c \in Core, SbrkRead(c)
      PROVE  PayInv' /\ PidInv'
  <2>. USE DEF Goto, NewlibTypeOK
  <2>1. /\ pc[c] = "sbrk" /\ request' = request /\ heap_end' = heap_end
        /\ next_pid' = next_pid /\ holders' = holders
        /\ \/ pc'[c] = "bump" /\ failed' = failed /\ second' = second
           \/ pc'[c] \in {"sbrk", "unlock"} /\ failed'[c]
        /\ \A d \in Core \ {c} : /\ pc'[d] = pc[d] /\ second'[d] = second[d]
                                 /\ failed'[d] = failed[d]
    <3>1. CASE heap_end + Size(c) > HeapSize
      <4>1. /\ pc[c] = "sbrk" /\ request' = request /\ heap_end' = heap_end
            /\ next_pid' = next_pid /\ holders' = holders
            /\ failed' = [failed EXCEPT ![c] = TRUE]
        BY <1>3, <3>1 DEF SbrkRead, pidVars
      <4>2. failed'[c] /\ \A d \in Core \ {c} : failed'[d] = failed[d]
        BY <4>1, <1>a
      <4>3. /\ pc'[c] \in {"sbrk", "unlock"}
            /\ \A d \in Core \ {c} : pc'[d] = pc[d] /\ second'[d] = second[d]
        BY <1>3, <3>1, <1>a DEF SbrkRead, MallocReturns
      <4>. QED  BY <4>1, <4>2, <4>3
    <3>2. CASE ~(heap_end + Size(c) > HeapSize)
      <4>1. /\ pc[c] = "sbrk" /\ request' = request /\ heap_end' = heap_end
            /\ next_pid' = next_pid /\ holders' = holders
            /\ failed' = failed /\ second' = second
        BY <1>3, <3>2 DEF SbrkRead, pidVars
      <4>2. pc'[c] = "bump" /\ \A d \in Core \ {c} : pc'[d] = pc[d]
        BY <1>3, <3>2, <1>a DEF SbrkRead
      <4>. QED  BY <4>1, <4>2
    <3>. QED  BY <3>1, <3>2
  <2>2. Paid' = Paid
    BY <2>1 DEF Paid
  <2>. QED
    BY <2>1, <2>2, <1>k
<1>4. ASSUME NEW c \in Core, Enter(c) \/ Lock(c)
      PROVE  PayInv' /\ PidInv'
  <2>. USE DEF Goto, NewlibTypeOK, heapVars, pidVars, uartVars
  <2>1. /\ pc[c] \in {"user", "lock"} /\ pc'[c] \in {"lock", "sbrk", "putc"}
        /\ heap_end' = heap_end /\ next_pid' = next_pid /\ holders' = holders
        /\ second' = second
        /\ pc[c] = "user" \/ failed' = failed
        /\ \A d \in Core \ {c} : /\ pc'[d] = pc[d] /\ request'[d] = request[d]
                                 /\ failed'[d] = failed[d]
    BY <1>4, <1>a DEF Enter, Lock, Body, Call, ProcCreate, Malloc, Puts, Trace, Unhandled
  <2>2. Paid' = Paid
    BY <2>1 DEF Paid
  <2>3. pc[c] = "user" => ~second[c]
    BY <1>a DEF CallInv
  <2>. QED
    BY <2>1, <2>2, <2>3, <1>k
<1>5. ASSUME NEW c \in Core, Unlock(c) \/ PidTest(c) \/ PutcWait(c) \/ PutcSend(c)
      PROVE  PayInv' /\ PidInv'
  <2>. USE DEF Goto, NewlibTypeOK, heapVars, pidVars, uartVars
  <2>1. /\ heap_end' = heap_end /\ next_pid' = next_pid /\ holders' = holders
        /\ second' = second /\ request' = request
        /\ \A d \in Core \ {c} : pc'[d] = pc[d] /\ failed'[d] = failed[d]
    BY <1>5, <1>a DEF Unlock, PidTest, PutcWait, PutcSend
  <2>2. \/ /\ pc[c] = "unlock" /\ failed' = failed
           /\ pc'[c] = "pid" <=> request[c] = "create" /\ ~failed[c]
           /\ pc'[c] \in {"pid", "stuck", "user"}
        \/ pc[c] = "wrap" /\ pc'[c] = "user"
        \/ pc[c] = "putc" /\ pc'[c] = "send" /\ failed' = failed
        \/ /\ pc[c] = "send" /\ pc'[c] \in {"unlock", "putc"} /\ failed' = failed
           /\ request[c] # "create"
    BY <1>5, <1>a DEF Unlock, AfterUnlock, PidTest, PutcWait, PutcSend, CallInv, Prints
  <2>3. Paid' = Paid
    BY <2>1, <2>2 DEF Paid
  <2>4. pc[c] = "wrap" => ~second[c]
    BY <1>a DEF CallInv
  <2>. QED
    BY <2>1, <2>2, <2>3, <2>4, <1>k
<1>6. CASE Transmit \/ UNCHANGED newlibVars
  <2>1. /\ Paid' = Paid /\ heap_end' = heap_end /\ next_pid' = next_pid
        /\ holders' = holders /\ second' = second /\ failed' = failed /\ pc' = pc
    BY <1>6 DEF Transmit, newlibVars, heapVars, pidVars, Paid
  <2>. QED
    BY <2>1, <1>k
<1>. QED
  BY <1>1, <1>2, <1>3, <1>4, <1>5, <1>6 DEF NewlibNext, CallStep

-----------------------------------------------------------------------------
(* The invariant holds in the beginning. *)
LEMMA NewlibInitInv == NewlibInit => NewlibInv
<1>. SUFFICES ASSUME NewlibInit PROVE NewlibInv
  OBVIOUS
<1>. USE Sizes, PidsFromOne DEF NewlibInit, PidInit
<1>1. NewlibTypeOK
  <2>1. out \in [by : Core \cup {"nobody"}, at : 1 .. TextLength]
    BY DEF Nobody
  <2>2. holders \in [Pid -> Nat] /\ used \in [Cell -> Nat]
    OBVIOUS
  <2>3. heap_end \in 0 .. HeapSize /\ next_pid \in Pid
    BY DEF Pid
  <2>. QED
    <3>1. pc \in [Core -> Label] /\ request \in [Core -> {"create", "malloc"} \cup Prints]
      BY DEF Label, Prints
    <3>2. prev \in [Core -> 0 .. HeapSize] /\ sent \in [Core -> 0 .. TextLength - 1]
      OBVIOUS
    <3>3. second \in [Core -> BOOLEAN] /\ failed \in [Core -> BOOLEAN]
      OBVIOUS
    <3>4. newlib_lock \in BOOLEAN /\ full \in BOOLEAN
      OBVIOUS
    <3>. QED  BY <2>1, <2>2, <2>3, <3>1, <3>2, <3>3, <3>4 DEF NewlibTypeOK
<1>2. LockInv /\ CallInv /\ OutInv
  BY DEF LockInv, CallInv, OutInv, Inside, Nobody
<1>3. HeapInv
  BY DEF HeapInv, BlocksApart, Cell
<1>4. PayInv /\ PidInv
  <2>1. Paid = {}
    BY DEF Paid
  <2>2. Claimed = Cost /\ Cost \in Nat
    BY <2>1, FS_EmptySet DEF Claimed, Cost
  <2>. QED
    BY <2>2 DEF PayInv, PidInv, Pid
<1>. QED
  BY <1>1, <1>2, <1>3, <1>4 DEF NewlibInv

(* Every step preserves the invariant. *)
LEMMA NewlibInductive == NewlibSpec => []NewlibInv
<1>1. NewlibInv /\ [NewlibNext]_newlibVars => NewlibInv'
  BY TypeStep, LockStep, CallInvStep, HeapStep, OutStep, PayStep DEF NewlibInv
<1>. QED
  BY <1>1, NewlibInitInv, PTL DEF NewlibSpec

(* Every variable of Newlib keeps its type. *)
THEOREM NewlibTypeCorrect == NewlibSpec => []NewlibTypeOK
<1>1. NewlibInv => NewlibTypeOK
  BY DEF NewlibInv
<1>. QED
  BY <1>1, NewlibInductive, PTL

(* No two allocations of the kernel share memory (_sbrk in cstubs.c). *)
THEOREM AllocationsApart == NewlibSpec => []BlocksApart
<1>1. NewlibInv => BlocksApart
  BY DEF NewlibInv, HeapInv
<1>. QED
  BY <1>1, NewlibInductive, PTL

(* Pids do not come round, because the memory of the processes that have   *)
(* them is used up before (proc_create in thread.c).                       *)
THEOREM NoPidTwice == NewlibSpec => []PidsApart
<1>1. NewlibInv => PidsApart
  BY PidsFromOne DEF NewlibInv, PidInv, PidsApart
<1>. QED
  BY <1>1, NewlibInductive, PTL

(* The texts of different cores do not mix and lose no character           *)
(* (uart_write in cstubs.c, uart_putc in uart.c).                          *)
THEOREM TextsWhole == NewlibSpec => OutputWhole
<1>1. NewlibInv /\ [NewlibNext]_newlibVars =>
        [out' # out => \/ out.at = TextLength /\ out'.at = 1
                       \/ out' = [out EXCEPT !.at = @ + 1]]_newlibVars
  BY OutStep
<1>. QED
  BY <1>1, NewlibInductive, PTL DEF NewlibSpec, OutputWhole

=============================================================================
