----------------------------- MODULE PoolProofs -----------------------------
(***************************************************************************)
(* Proofs about WorkQueue, for every number of workers and pieces of work. *)
(***************************************************************************)
EXTENDS WorkQueue, TLAPS

Creating == {"lock", "inside", "create", "unlock"}
Joining  == {"join", "joining", "asleep", "joined"}

(* Master and workers keep to their own code, a worker has work in hand    *)
(* exactly while it computes, and finished is set once the list is full.   *)
CodeInv ==
    /\ at[Master] \in Creating \cup Joining \cup {"exited"}
    /\ \A w \in Worker :
          /\ at[w] \in {"unborn", "lock", "inside", "check", "work", "leaving", "alerted",
                       "exited"}
          /\ at[w] = "work" <=> work[w] # NoWork
    /\ finished <=> at[Master] \in Joining \cup {"exited"}

(* The master's loops: worker w is created in round w, and gone before     *)
(* worker w + 1 is waited for.                                             *)
LoopInv ==
    /\ at[Master] \in {"inside", "create", "unlock"} => index \in Work
    /\ at[Master] \in Creating =>
          \A w \in Worker : at[w] = "unborn" <=>
              w > index \/ (w = index /\ at[Master] # "unlock")
    /\ at[Master] \in Joining =>
          index \in Worker /\ \A w \in Worker : w < index => Gone(w)
    /\ at[Master] = "joined" => Gone(index)

PoolInv == PoolTypeOK /\ PoolMutex /\ CodeInv /\ LoopInv /\ WorkOnce /\ JoinedLast

-----------------------------------------------------------------------------
LEMMA PoolFacts ==
    /\ NumThreads \in Nat /\ NumWorkers \in Nat /\ NumWorkers > 0
    /\ NumWorkers <= NumThreads
    /\ Master \notin Worker /\ Master \in Member
    /\ Worker \subseteq Work /\ Worker \subseteq Member
    /\ NoWork \notin Work
    /\ \A k \in Work : k \in Nat /\ k < NumThreads
    /\ \A w \in Worker : w \in Nat /\ w < NumWorkers
    /\ \A k \in Nat : (k < NumThreads => k \in Work) /\ (k < NumWorkers => k \in Worker)
    /\ \A m \in Member : m \in Worker \/ m = Master
BY PoolAssumption DEF Work, Worker, Master, Member, NoWork

LEMMA InitPool == PoolInit => PoolInv
<1> SUFFICES ASSUME PoolInit PROVE PoolInv
    OBVIOUS
<1>1. PoolTypeOK
    <2>1. <<>> \in Seq(Work)
        OBVIOUS
    <2>2. at \in [Member -> Place]
        BY DEF PoolInit, Place
    <2>3. work \in [Worker -> Work \cup {NoWork}] /\ results \in [Work -> Nat]
        BY DEF PoolInit
    <2>4. index \in 0 .. NumThreads
        BY PoolAssumption DEF PoolInit
    <2>5. lock \in BOOLEAN /\ finished \in BOOLEAN
        BY DEF PoolInit
    <2> QED
        BY <2>1, <2>2, <2>3, <2>4, <2>5 DEF PoolInit, PoolTypeOK
<1>2. PoolMutex
    BY PoolFacts DEF PoolInit, PoolMutex, Inside
<1>3. CodeInv /\ LoopInv /\ JoinedLast
    BY PoolFacts DEF PoolInit, CodeInv, LoopInv, JoinedLast, Creating, Joining, Gone
<1>4. WorkOnce
    <2>1. /\ \A k : ~Listed(k)
          /\ \A k \in Work : ~Taken(k) /\ ~Handed(k)
        BY PoolFacts DEF PoolInit, Listed, Taken, Handed
    <2> QED
        BY <2>1, PoolFacts DEF PoolInit, WorkOnce
<1> QED
    BY <1>1, <1>2, <1>3, <1>4 DEF PoolInv

(* A step that does not touch the work: the list, what the workers hold,   *)
(* the results and what has been handed out stay.                          *)
LEMMA WorkKept ==
    ASSUME WorkOnce, UNCHANGED <<head, work, results>>,
           \A k \in Work : Handed(k)' <=> Handed(k)
    PROVE  WorkOnce'
BY DEF WorkOnce, Listed, Taken

(* A step of one member: it enters the section, leaves it, or neither. *)
LEMMA MutexKept ==
    ASSUME PoolMutex, NEW m \in Member,
           \A n \in Member : n # m => (Inside(n)' <=> Inside(n)),
           \/ ~lock /\ lock' /\ Inside(m)'
           \/ Inside(m) /\ ~lock' /\ ~Inside(m)'
           \/ lock' = lock /\ (Inside(m)' <=> Inside(m))
    PROVE  PoolMutex'
BY DEF PoolMutex

-----------------------------------------------------------------------------
LEMMA LockStep ==
    ASSUME PoolInv, NEW m \in Member, Lock(m) PROVE PoolInv'
<1>1. /\ PoolTypeOK /\ at[m] = "lock" /\ ~lock /\ lock' = TRUE
      /\ at' = [at EXCEPT ![m] = "inside"]
      /\ UNCHANGED <<head, finished, index, work, results>>
      /\ m = Master => index < NumThreads
    BY DEF Lock, PoolInv
<1>2. at'[m] = "inside" /\ \A n \in Member : n # m => at'[n] = at[n]
    BY <1>1 DEF PoolTypeOK
<1>3. PoolTypeOK'
    BY <1>1 DEF PoolTypeOK, Place
<1>4. PoolMutex'
    BY <1>1, <1>2, MutexKept DEF PoolInv, Inside
<1>5. CodeInv' /\ LoopInv'
    <2>1. CodeInv'
        BY <1>1, <1>2, PoolFacts DEF PoolInv, CodeInv, Creating, Joining, Gone
    <2>2. index \in Nat
        BY <1>1, PoolFacts DEF PoolTypeOK
    <2>3. m \in Worker => \A w \in Worker : Gone(w)' <=> Gone(w)
        BY <1>1, <1>2 DEF Gone
    <2>4. at'[Master] \notin Joining => LoopInv'
        BY <1>1, <1>2, <2>2, PoolFacts DEF PoolInv, LoopInv, Creating, Joining
    <2>5. at'[Master] \in Joining => m \in Worker /\ at'[Master] = at[Master]
        BY <1>1, <1>2, PoolFacts DEF Joining
    <2>6. at'[Master] \in Joining => LoopInv'
        BY <1>1, <1>2, <2>3, <2>5, PoolFacts DEF PoolInv, LoopInv, Creating, Joining
    <2> QED
        BY <2>1, <2>4, <2>6
<1>6. WorkOnce'
    <2>1. \A k \in Work : Handed(k)' <=> Handed(k)
        BY <1>1, <1>2, PoolFacts DEF Handed
    <2> QED
        BY <1>1, <2>1, WorkKept DEF PoolInv
<1>7. JoinedLast'
    BY <1>1, <1>2, PoolFacts DEF PoolInv, JoinedLast, Joining, Gone
<1> QED
    BY <1>3, <1>4, <1>5, <1>6, <1>7 DEF PoolInv

(* What Append and Tail do to the positions of a list. *)
LEMMA AppendFacts ==
    ASSUME NEW S, NEW s \in Seq(S), NEW x \in S, NEW t, t = Append(s, x)
    PROVE  /\ t \in Seq(S) /\ Len(s) \in Nat
           /\ Len(t) = Len(s) + 1 /\ t[Len(s) + 1] = x
           /\ \A i \in 1 .. Len(s) : i \in 1 .. Len(t) /\ t[i] = s[i]
           /\ \A i \in 1 .. Len(t) : i \in 1 .. Len(s) \/ i = Len(s) + 1
           /\ Len(s) + 1 \in 1 .. Len(t)
OBVIOUS

LEMMA TailFacts ==
    ASSUME NEW S, NEW s \in Seq(S), s # <<>>, NEW t, t = Tail(s)
    PROVE  /\ t \in Seq(S) /\ Len(s) \in Nat /\ Len(t) = Len(s) - 1
           /\ Head(s) = s[1] /\ Head(s) \in S /\ 1 \in 1 .. Len(s)
           /\ \A i \in 1 .. Len(t) : i + 1 \in 1 .. Len(s) /\ t[i] = s[i + 1]
           /\ \A i \in 1 .. Len(s) : i # 1 => i - 1 \in 1 .. Len(t) /\ t[i - 1] = s[i]
<1>1. Tail(s) \in Seq(S) /\ Len(Tail(s)) = Len(s) - 1
    OBVIOUS
<1>2. Len(s) \in Nat /\ Len(s) >= 1
    OBVIOUS
<1>3. Head(s) = s[1] /\ Head(s) \in S
    OBVIOUS
<1>4. \A i \in 1 .. Len(s) - 1 : Tail(s)[i] = s[i + 1]
    OBVIOUS
<1> QED
    BY <1>1, <1>2, <1>3, <1>4

LEMMA InsertStep ==
    ASSUME PoolInv, Insert PROVE PoolInv'
<1>1. /\ PoolTypeOK /\ at[Master] = "inside"
      /\ at' = [at EXCEPT ![Master] = "create"]
      /\ UNCHANGED <<lock, finished, index, work, results>>
    BY DEF Insert, PoolInv
<1>2. at'[Master] = "create" /\ \A n \in Member : n # Master => at'[n] = at[n]
    BY <1>1, PoolFacts DEF PoolTypeOK
<1>3. index \in Work /\ finished = FALSE
    BY <1>1 DEF PoolInv, LoopInv, CodeInv, PoolTypeOK, Joining
<1>4. PICK h : h = head'
    OBVIOUS
<1>5. head \in Seq(Work) /\ h = Append(head, index)
    BY <1>1, <1>4 DEF Insert, PoolTypeOK
<1>6. /\ h \in Seq(Work) /\ Len(head) \in Nat
      /\ Len(h) = Len(head) + 1 /\ h[Len(head) + 1] = index
      /\ \A i \in 1 .. Len(head) : i \in 1 .. Len(h) /\ h[i] = head[i]
      /\ \A i \in 1 .. Len(h) : i \in 1 .. Len(head) \/ i = Len(head) + 1
      /\ Len(head) + 1 \in 1 .. Len(h)
    BY <1>3, <1>5, AppendFacts
<1>7. PoolTypeOK'
    BY <1>1, <1>4, <1>6 DEF PoolTypeOK, Place
<1>8. PoolMutex'
    BY <1>1, <1>2, MutexKept, PoolFacts DEF PoolInv, Inside
<1>9. CodeInv' /\ LoopInv' /\ JoinedLast'
    BY <1>1, <1>2, PoolFacts DEF PoolInv, CodeInv, LoopInv, JoinedLast, Creating, Joining, Gone
<1>10. ~Handed(index) /\ ~Listed(index) /\ ~Taken(index) /\ results[index] # 1
    <2>1. ~(index < index)
        BY <1>3, PoolFacts
    <2>2. ~Handed(index)
        BY <1>1, <1>3, <2>1 DEF Handed
    <2> QED
        BY <1>3, <2>2 DEF PoolInv, WorkOnce
<1>11. \A k \in Work : Handed(k)' <=> Handed(k) \/ k = index
    BY <1>1, <1>2, <1>3 DEF Handed
<1>12. \A k \in Work : Listed(k)' <=> Listed(k) \/ k = index
    BY <1>4, <1>6 DEF Listed
<1>13. \A k \in Work : Taken(k)' <=> Taken(k)
    BY <1>1 DEF Taken
<1>14. \A i, j \in 1 .. Len(h) : h[i] = h[j] => i = j
    <2>1. \A i \in 1 .. Len(head) : head[i] # index
        BY <1>10 DEF Listed
    <2> QED
        BY <1>6, <2>1 DEF PoolInv, WorkOnce
<1>15. WorkOnce'
    BY <1>1, <1>4, <1>10, <1>11, <1>12, <1>13, <1>14 DEF PoolInv, WorkOnce
<1> QED
    BY <1>7, <1>8, <1>9, <1>15 DEF PoolInv

LEMMA CreateStep ==
    ASSUME PoolInv, Create PROVE PoolInv'
<1>1. /\ PoolTypeOK /\ at[Master] = "create" /\ index \in Work /\ index \in Nat
      /\ UNCHANGED <<head, lock, finished, index, work, results>>
    BY PoolFacts DEF Create, PoolInv, LoopInv
<1>2. /\ at'[Master] = "unlock"
      /\ index \in Worker => at'[index] = "lock" /\ at[index] = "unborn"
      /\ \A n \in Member : n # Master /\ n # index => at'[n] = at[n]
      /\ PoolTypeOK'
    <2>1. CASE index \in Worker
        <3>1. at' = [at EXCEPT ![Master] = "unlock", ![index] = "lock"]
            BY <2>1 DEF Create
        <3>2. at[index] = "unborn"
            BY <1>1, <2>1, PoolFacts DEF PoolInv, LoopInv, Creating
        <3> QED
            BY <1>1, <2>1, <3>1, <3>2, PoolFacts DEF PoolTypeOK, Place
    <2>2. CASE index \notin Worker
        <3>1. at' = [at EXCEPT ![Master] = "unlock"]
            BY <2>2 DEF Create
        <3> QED
            BY <1>1, <2>2, <3>1, PoolFacts DEF PoolTypeOK
    <2> QED
        BY <2>1, <2>2
<1>3. \A m \in Member : Inside(m)' <=> Inside(m)
    BY <1>1, <1>2, PoolFacts DEF Inside
<1>4. PoolMutex'
    BY <1>1, <1>3 DEF PoolInv, PoolMutex
<1>5. CodeInv'
    BY <1>1, <1>2, PoolFacts DEF PoolInv, CodeInv, Creating, Joining, Gone
<1>6. LoopInv'
    <2>1. \A w \in Worker : at'[w] = "unborn" <=> w > index
        <3>1. ASSUME NEW w \in Worker PROVE at'[w] = "unborn" <=> w > index
            <4>1. CASE w = index
                BY <1>1, <1>2, <4>1
            <4>2. CASE w # index
                BY <1>1, <1>2, <4>2, PoolFacts DEF PoolInv, LoopInv, Creating
            <4> QED
                BY <4>1, <4>2
        <3> QED
            BY <3>1
    <2> QED
        BY <1>1, <1>2, <2>1 DEF LoopInv, Joining
<1>7. WorkOnce'
    <2>1. \A k \in Work : Handed(k)' <=> Handed(k)
        BY <1>1, <1>2 DEF Handed
    <2> QED
        BY <1>1, <2>1, WorkKept DEF PoolInv
<1>8. JoinedLast'
    BY <1>2 DEF JoinedLast
<1> QED
    BY <1>2, <1>4, <1>5, <1>6, <1>7, <1>8 DEF PoolInv

LEMMA UnlockStep ==
    ASSUME PoolInv, Unlock PROVE PoolInv'
<1>1. /\ PoolTypeOK /\ at[Master] = "unlock" /\ index \in Work /\ index \in Nat
      /\ lock' = FALSE /\ index' = index + 1 /\ index + 1 \in 0 .. NumThreads
      /\ at' = [at EXCEPT ![Master] = "lock"]
      /\ UNCHANGED <<head, finished, work, results>>
    BY PoolFacts DEF Unlock, PoolInv, LoopInv
<1>2. at'[Master] = "lock" /\ \A n \in Member : n # Master => at'[n] = at[n]
    BY <1>1, PoolFacts DEF PoolTypeOK
<1>3. PoolTypeOK'
    BY <1>1 DEF PoolTypeOK, Place
<1>4. PoolMutex'
    BY <1>1, <1>2, MutexKept, PoolFacts DEF PoolInv, Inside
<1>5. CodeInv' /\ JoinedLast'
    BY <1>1, <1>2, PoolFacts DEF PoolInv, CodeInv, JoinedLast, Creating, Joining, Gone
<1>6. LoopInv'
    <2>1. \A w \in Worker : at[w] = "unborn" <=> w > index
        BY <1>1, PoolFacts DEF PoolInv, LoopInv, Creating
    <2>2. \A w \in Worker : w > index <=> w > index + 1 \/ w = index + 1
        BY <1>1, PoolFacts
    <2> QED
        BY <1>1, <1>2, <2>1, <2>2, PoolFacts DEF LoopInv, Joining
<1>7. WorkOnce'
    <2>1. \A k \in Work : k < index + 1 <=> k < index \/ k = index
        BY <1>1, PoolFacts
    <2>2. \A k \in Work : Handed(k)' <=> Handed(k)
        BY <1>1, <1>2, <2>1 DEF Handed
    <2> QED
        BY <1>1, <2>2, WorkKept DEF PoolInv
<1> QED
    BY <1>3, <1>4, <1>5, <1>6, <1>7 DEF PoolInv

LEMMA FinishStep ==
    ASSUME PoolInv, Finish PROVE PoolInv'
<1>1. /\ PoolTypeOK /\ at[Master] = "lock" /\ index = NumThreads
      /\ finished' = TRUE /\ index' = 0 /\ 0 \in Worker /\ 0 \in 0 .. NumThreads
      /\ at' = [at EXCEPT ![Master] = "join"]
      /\ UNCHANGED <<head, lock, work, results>>
    BY PoolFacts DEF Finish, PoolInv
<1>2. at'[Master] = "join" /\ \A n \in Member : n # Master => at'[n] = at[n]
    BY <1>1, PoolFacts DEF PoolTypeOK
<1>3. PoolTypeOK'
    BY <1>1 DEF PoolTypeOK, Place
<1>4. PoolMutex'
    BY <1>1, <1>2, MutexKept, PoolFacts DEF PoolInv, Inside
<1>5. CodeInv' /\ LoopInv' /\ JoinedLast'
    BY <1>1, <1>2, PoolFacts DEF PoolInv, CodeInv, LoopInv, JoinedLast, Creating, Joining, Gone
<1>6. WorkOnce'
    <2>1. \A k \in Work : Handed(k)' <=> Handed(k)
        BY <1>1, PoolFacts DEF Handed
    <2> QED
        BY <1>1, <2>1, WorkKept DEF PoolInv
<1> QED
    BY <1>3, <1>4, <1>5, <1>6 DEF PoolInv

LEMMA JoinCallStep ==
    ASSUME PoolInv, JoinLookup \/ JoinSleep PROVE PoolInv'
<1>1. /\ PoolTypeOK /\ at[Master] \in {"join", "joining"}
      /\ index \in Worker /\ finished = TRUE
      /\ UNCHANGED <<head, lock, finished, index, work, results>>
    BY PoolFacts DEF JoinLookup, JoinSleep, PoolInv, LoopInv, CodeInv, PoolTypeOK, Joining
<1>2. /\ at'[Master] \in {"joining", "asleep", "joined"}
      /\ at'[Master] = "joined" => at[index] = "exited"
      /\ \A n \in Member : n # Master => at'[n] = at[n]
      /\ PoolTypeOK'
    <2>1. CASE JoinLookup
        <3>1. PICK x \in {"joined", "joining"} :
                  x = IF at[index] = "exited" THEN "joined" ELSE "joining"
            OBVIOUS
        <3>2. at' = [at EXCEPT ![Master] = x]
            BY <2>1, <3>1 DEF JoinLookup
        <3> QED
            BY <1>1, <3>1, <3>2, PoolFacts DEF PoolTypeOK, Place
    <2>2. CASE JoinSleep
        BY <1>1, <2>2, PoolFacts DEF JoinSleep, PoolTypeOK, Place
    <2> QED
        BY <2>1, <2>2
<1>3. PoolMutex'
    BY <1>1, <1>2, MutexKept, PoolFacts DEF PoolInv, Inside
<1>4. CodeInv'
    BY <1>1, <1>2, PoolFacts DEF PoolInv, CodeInv, Creating, Joining
<1>5. LoopInv' /\ JoinedLast'
    <2>1. \A w \in Worker : Gone(w)' <=> Gone(w)
        BY <1>2, PoolFacts DEF Gone
    <2>2. at'[Master] = "joined" => Gone(index)
        BY <1>2 DEF Gone
    <2> QED
        BY <1>1, <1>2, <2>1, <2>2 DEF PoolInv, LoopInv, JoinedLast, Creating, Joining
<1>6. WorkOnce'
    <2>1. \A k \in Work : Handed(k)' <=> Handed(k)
        BY <1>1 DEF Handed
    <2> QED
        BY <1>1, <2>1, WorkKept DEF PoolInv
<1> QED
    BY <1>2, <1>3, <1>4, <1>5, <1>6 DEF PoolInv

LEMMA JoinedStep ==
    ASSUME PoolInv, Joined PROVE PoolInv'
<1>1. /\ PoolTypeOK /\ at[Master] = "joined" /\ Gone(index)
      /\ index \in Worker /\ index \in Nat /\ index' = index + 1
      /\ index + 1 \in 0 .. NumThreads /\ finished = TRUE
      /\ UNCHANGED <<head, lock, finished, work, results>>
    BY PoolFacts DEF Joined, PoolInv, LoopInv, CodeInv, PoolTypeOK, Joining
<1>2. /\ at'[Master] = IF index + 1 = NumWorkers THEN "exited" ELSE "join"
      /\ \A n \in Member : n # Master => at'[n] = at[n]
      /\ PoolTypeOK'
    <2>1. PICK x \in {"join", "exited"} :
              x = IF index + 1 = NumWorkers THEN "exited" ELSE "join"
        OBVIOUS
    <2>2. at' = [at EXCEPT ![Master] = x]
        BY <1>1, <2>1 DEF Joined
    <2> QED
        BY <1>1, <2>1, <2>2, PoolFacts DEF PoolTypeOK, Place
<1>3. PoolMutex'
    BY <1>1, <1>2, MutexKept, PoolFacts DEF PoolInv, Inside
<1>4. CodeInv'
    BY <1>1, <1>2, PoolFacts DEF PoolInv, CodeInv, Creating, Joining
<1>5. \A w \in Worker : w < index + 1 => Gone(w)'
    <2>1. \A w \in Worker : w < index + 1 => Gone(w)
        BY <1>1, PoolFacts DEF PoolInv, LoopInv, Joining
    <2> QED
        BY <1>2, <2>1, PoolFacts DEF Gone
<1>6. LoopInv' /\ JoinedLast'
    BY <1>1, <1>2, <1>5, PoolFacts DEF LoopInv, JoinedLast, Creating, Joining
<1>7. WorkOnce'
    <2>1. \A k \in Work : Handed(k)' <=> Handed(k)
        BY <1>1 DEF Handed
    <2> QED
        BY <1>1, <2>1, WorkKept DEF PoolInv
<1> QED
    BY <1>2, <1>3, <1>4, <1>6, <1>7 DEF PoolInv

-----------------------------------------------------------------------------
(* What a step of the code of worker w leaves alone. *)
LEMMA WorkerFacts ==
    ASSUME PoolInv, NEW w \in Worker, WorkerCode(w)
    PROVE  /\ PoolTypeOK /\ w \in Member /\ w # Master
           /\ at[w] \in {"inside", "check", "work"}
           /\ at'[w] \in {"lock", "check", "work", "leaving"}
           /\ \A n \in Member : n # w => at'[n] = at[n]
           /\ at' \in [Member -> Place]
           /\ UNCHANGED <<finished, index>>
           /\ \A k \in Work : Handed(k)' <=> Handed(k)
<1>1. PoolTypeOK /\ w \in Member /\ w # Master
    BY PoolFacts DEF PoolInv
<1>2. PICK x \in {"lock", "check", "work", "leaving"} :
          at[w] \in {"inside", "check", "work"} /\ at' = [at EXCEPT ![w] = x]
    BY DEF WorkerCode, Empty, Check, Take, Multiply
<1>3. UNCHANGED <<finished, index>>
    BY DEF WorkerCode, Empty, Check, Take, Multiply
<1>4. /\ at'[w] = x /\ \A n \in Member : n # w => at'[n] = at[n]
      /\ at' \in [Member -> Place]
    BY <1>1, <1>2 DEF PoolTypeOK, Place
<1>5. \A k \in Work : Handed(k)' <=> Handed(k)
    BY <1>1, <1>3, <1>4, PoolFacts DEF Handed
<1> QED
    BY <1>1, <1>2, <1>3, <1>4, <1>5

LEMMA WorkerLoop ==
    ASSUME PoolInv, NEW w \in Worker, WorkerCode(w)
    PROVE  LoopInv' /\ JoinedLast'
<1>1. /\ w # Master /\ Master \in Member /\ Worker \subseteq Member
      /\ at[w] \in {"inside", "check", "work"}
      /\ at'[w] \in {"lock", "check", "work", "leaving"}
      /\ \A n \in Member : n # w => at'[n] = at[n]
      /\ index' = index
    BY WorkerFacts, PoolFacts
<1> QED
    BY <1>1, PoolFacts DEF PoolInv, LoopInv, JoinedLast, Gone, Joining

LEMMA EmptyStep ==
    ASSUME PoolInv, NEW w \in Worker, Empty(w) \/ Check(w) PROVE PoolInv'
<1>1. WorkerCode(w)
    BY DEF WorkerCode
<1>2. LoopInv' /\ JoinedLast'
    BY <1>1, WorkerLoop
<1>3. UNCHANGED <<head, finished, index, work, results>>
    BY DEF Empty, Check
<1>4. PoolTypeOK'
    <2>1. lock' \in BOOLEAN
        BY DEF Empty, Check, PoolInv, PoolTypeOK
    <2> QED
        BY <1>1, <1>3, <2>1, WorkerFacts DEF PoolTypeOK
<1>5. CodeInv'
    <2>1. at[w] # "work" /\ at'[w] \in {"lock", "check", "leaving"}
        BY DEF Empty, Check, PoolInv, PoolTypeOK, Member
    <2> QED
        BY <1>1, <1>3, <2>1, WorkerFacts, PoolFacts DEF PoolInv, CodeInv
<1>6. PoolMutex'
    <2>1. \/ at[w] = "inside" /\ lock' = FALSE
          \/ at[w] = "check" /\ lock' = lock
        BY DEF Empty, Check
    <2> QED
        BY <1>1, <2>1, WorkerFacts, MutexKept DEF PoolInv, Inside
<1>7. WorkOnce'
    BY <1>1, <1>3, WorkerFacts, WorkKept DEF PoolInv
<1> QED
    BY <1>2, <1>4, <1>5, <1>6, <1>7 DEF PoolInv

LEMMA TakeStep ==
    ASSUME PoolInv, NEW w \in Worker, Take(w) PROVE PoolInv'
<1>1. WorkerCode(w)
    BY DEF WorkerCode
<1>2. LoopInv' /\ JoinedLast'
    BY <1>1, WorkerLoop
<1>3. /\ at[w] = "inside" /\ head # <<>> /\ lock' = FALSE
      /\ work' = [work EXCEPT ![w] = Head(head)] /\ at'[w] = "work"
      /\ UNCHANGED <<finished, index, results>>
    BY DEF Take, PoolInv, PoolTypeOK, Member
<1>4. PICK h : h = head'
    OBVIOUS
<1>5. PoolTypeOK /\ head \in Seq(Work) /\ h = Tail(head)
    BY <1>4 DEF Take, PoolInv, PoolTypeOK
<1>6. /\ h \in Seq(Work) /\ Len(head) \in Nat /\ Len(h) = Len(head) - 1
      /\ Head(head) = head[1] /\ Head(head) \in Work /\ 1 \in 1 .. Len(head)
      /\ \A i \in 1 .. Len(h) : i + 1 \in 1 .. Len(head) /\ h[i] = head[i + 1]
      /\ \A i \in 1 .. Len(head) : i # 1 => i - 1 \in 1 .. Len(h) /\ h[i - 1] = head[i]
    BY <1>3, <1>5, TailFacts
<1>7. PICK x \in Work : x = head[1]
    BY <1>6
<1>8. /\ work'[w] = x /\ \A v \in Worker : v # w => work'[v] = work[v]
      /\ work' \in [Worker -> Work \cup {NoWork}]
    BY <1>3, <1>5, <1>6, <1>7 DEF PoolTypeOK
<1>9. PoolTypeOK'
    BY <1>1, <1>3, <1>4, <1>6, <1>8, WorkerFacts DEF PoolTypeOK
<1>10. CodeInv'
    BY <1>1, <1>3, <1>7, <1>8, WorkerFacts, PoolFacts DEF PoolInv, CodeInv
<1>11. PoolMutex'
    BY <1>1, <1>3, WorkerFacts, MutexKept DEF PoolInv, Inside
<1>12. Listed(x) /\ ~Taken(x) /\ results[x] # 1 /\ Handed(x)
    <2>1. Listed(x)
        BY <1>6, <1>7 DEF Listed
    <2> QED
        BY <1>7, <2>1 DEF PoolInv, WorkOnce
<1>13. work[w] = NoWork
    BY <1>3 DEF PoolInv, CodeInv
<1>14. \A k \in Work : Taken(k)' <=> Taken(k) \/ k = x
    BY <1>7, <1>8, <1>13, PoolFacts DEF Taken
<1>15. \A i, j \in 1 .. Len(head) : head[i] = head[j] => i = j
    BY DEF PoolInv, WorkOnce
<1>16. \A k \in Work : Listed(k)' <=> Listed(k) /\ k # x
    <2>1. ASSUME NEW k \in Work, Listed(k)' PROVE Listed(k) /\ k # x
        <3>1. PICK i \in 1 .. Len(h) : h[i] = k
            BY <1>4, <2>1 DEF Listed
        <3>2. PICK n : n = i + 1
            OBVIOUS
        <3>3. n \in 1 .. Len(head) /\ head[n] = k /\ n # 1
            BY <1>6, <3>1, <3>2
        <3> QED
            BY <1>6, <1>7, <1>15, <3>3 DEF Listed
    <2>2. ASSUME NEW k \in Work, Listed(k), k # x PROVE Listed(k)'
        <3>1. PICK i \in 1 .. Len(head) : head[i] = k
            BY <2>2 DEF Listed
        <3>2. PICK n : n = i - 1
            OBVIOUS
        <3>3. n \in 1 .. Len(h) /\ h[n] = k
            BY <1>6, <1>7, <2>2, <3>1, <3>2
        <3> QED
            BY <1>4, <3>3 DEF Listed
    <2> QED
        BY <2>1, <2>2
<1>17. \A i, j \in 1 .. Len(h) : h[i] = h[j] => i = j
    <2>1. ASSUME NEW i \in 1 .. Len(h), NEW j \in 1 .. Len(h), h[i] = h[j] PROVE i = j
        <3>1. PICK a, b : a = i + 1 /\ b = j + 1
            OBVIOUS
        <3>2. a \in 1 .. Len(head) /\ b \in 1 .. Len(head) /\ head[a] = head[b]
            BY <1>6, <2>1, <3>1
        <3>3. a = b
            BY <1>15, <3>2
        <3> QED
            BY <3>1, <3>3
    <2> QED
        BY <2>1
<1>18. \A u, v \in Worker : work'[u] = work'[v] /\ work'[u] # NoWork => u = v
    BY <1>8, <1>12 DEF PoolInv, WorkOnce, Taken
<1>19. WorkOnce'
    BY <1>1, <1>3, <1>4, <1>12, <1>14, <1>16, <1>17, <1>18, WorkerFacts
    DEF PoolInv, WorkOnce
<1> QED
    BY <1>2, <1>9, <1>10, <1>11, <1>19 DEF PoolInv

LEMMA MultiplyStep ==
    ASSUME PoolInv, NEW w \in Worker, Multiply(w) PROVE PoolInv'
<1>1. WorkerCode(w)
    BY DEF WorkerCode
<1>2. LoopInv' /\ JoinedLast'
    BY <1>1, WorkerLoop
<1>3. /\ PoolTypeOK /\ at[w] = "work" /\ work[w] # NoWork /\ at'[w] = "lock"
      /\ UNCHANGED <<head, lock, finished, index>>
    BY DEF Multiply, PoolInv, PoolTypeOK, Member, CodeInv
<1>4. PICK x \in Work : x = work[w]
    BY <1>3 DEF PoolTypeOK
<1>5. Taken(x) /\ ~Listed(x) /\ results[x] = 0 /\ Handed(x)
    BY <1>4 DEF Taken, PoolInv, WorkOnce
<1>6. /\ results'[x] = 1 /\ \A k \in Work : k # x => results'[k] = results[k]
      /\ results' \in [Work -> Nat]
    BY <1>3, <1>4, <1>5 DEF Multiply, PoolTypeOK
<1>7. /\ work'[w] = NoWork /\ \A v \in Worker : v # w => work'[v] = work[v]
      /\ work' \in [Worker -> Work \cup {NoWork}]
    BY <1>3 DEF Multiply, PoolTypeOK
<1>8. PoolTypeOK'
    BY <1>1, <1>3, <1>6, <1>7, WorkerFacts DEF PoolTypeOK
<1>9. CodeInv'
    BY <1>1, <1>3, <1>7, WorkerFacts, PoolFacts DEF PoolInv, CodeInv
<1>10. PoolMutex'
    BY <1>1, <1>3, WorkerFacts, MutexKept DEF PoolInv, Inside
<1>11. \A k \in Work : Taken(k)' <=> Taken(k) /\ k # x
    BY <1>4, <1>7, PoolFacts DEF Taken, PoolInv, WorkOnce
<1>12. \A k \in Work : Listed(k)' <=> Listed(k)
    BY <1>3 DEF Listed
<1>13. \A u, v \in Worker : work'[u] = work'[v] /\ work'[u] # NoWork => u = v
    BY <1>7 DEF PoolInv, WorkOnce
<1>14. WorkOnce'
    BY <1>1, <1>3, <1>5, <1>6, <1>11, <1>12, <1>13, WorkerFacts DEF PoolInv, WorkOnce
<1> QED
    BY <1>2, <1>8, <1>9, <1>10, <1>14 DEF PoolInv

(* The end of a worker, which may send the master on. *)
LEMMA ExitStep ==
    ASSUME PoolInv, NEW w \in Worker, WorkerExit(w) PROVE PoolInv'
<1>1. /\ PoolTypeOK /\ w \in Member /\ w # Master
      /\ at[w] \in {"leaving", "alerted"}
      /\ UNCHANGED <<head, lock, finished, index, work, results>>
    BY PoolFacts DEF WorkerExit, Alert, Unlink, PoolInv
<1>2. /\ at'[w] \in {"alerted", "exited"}
      /\ \/ at'[Master] = at[Master]
         \/ at[Master] = "asleep" /\ index = w /\ at'[Master] = "joined"
      /\ \A n \in Worker : n # w => at'[n] = at[n]
      /\ at' \in [Member -> Place]
    <2>1. CASE Alert(w) /\ at[Master] = "asleep" /\ index = w
        <3>1. at' = [at EXCEPT ![w] = "alerted", ![Master] = "joined"]
            BY <2>1 DEF Alert
        <3> QED
            BY <1>1, <2>1, <3>1, PoolFacts DEF PoolTypeOK, Place
    <2>2. CASE Alert(w) /\ ~(at[Master] = "asleep" /\ index = w)
        <3>1. at' = [at EXCEPT ![w] = "alerted"]
            BY <2>2 DEF Alert
        <3> QED
            BY <1>1, <3>1, PoolFacts DEF PoolTypeOK, Place
    <2>3. CASE Unlink(w)
        BY <1>1, <2>3, PoolFacts DEF Unlink, PoolTypeOK, Place
    <2> QED
        BY <2>1, <2>2, <2>3 DEF WorkerExit
<1>3. PoolTypeOK'
    BY <1>1, <1>2 DEF PoolTypeOK
<1>4. \A v \in Worker : Gone(v) => Gone(v)'
    BY <1>2 DEF Gone
<1>5. PoolMutex'
    <2>1. \A m \in Member : Inside(m)' <=> Inside(m)
        BY <1>1, <1>2, PoolFacts DEF Inside
    <2> QED
        BY <1>1, <2>1 DEF PoolInv, PoolMutex
<1>6. CodeInv'
    BY <1>1, <1>2, PoolFacts DEF PoolInv, CodeInv, Creating, Joining
<1>7. LoopInv'
    <2>1. Gone(w)'
        BY <1>2 DEF Gone
    <2>2. CASE at'[Master] = at[Master]
        BY <1>1, <1>2, <1>4, <2>2, PoolFacts
        DEF PoolInv, LoopInv, Creating, Joining, Gone
    <2>3. CASE at[Master] = "asleep" /\ index = w /\ at'[Master] = "joined"
        BY <1>1, <1>4, <2>1, <2>3, PoolFacts DEF PoolInv, LoopInv, Creating, Joining, Gone
    <2> QED
        BY <1>2, <2>2, <2>3
<1>8. JoinedLast'
    BY <1>2, <1>4 DEF PoolInv, JoinedLast
<1>9. WorkOnce'
    <2>1. \A k \in Work : Handed(k)' <=> Handed(k)
        BY <1>1, <1>2 DEF Handed
    <2> QED
        BY <1>1, <2>1, WorkKept DEF PoolInv
<1> QED
    BY <1>3, <1>5, <1>6, <1>7, <1>8, <1>9 DEF PoolInv

-----------------------------------------------------------------------------
LEMMA NextPool == ASSUME PoolInv, [PoolNext]_poolVars PROVE PoolInv'
<1>1. ASSUME UNCHANGED poolVars PROVE PoolInv'
    <2>1. /\ \A m : Inside(m)' <=> Inside(m)
          /\ \A k : (Handed(k)' <=> Handed(k)) /\ (Listed(k)' <=> Listed(k))
                    /\ (Taken(k)' <=> Taken(k))
        BY <1>1 DEF poolVars, Inside, Handed, Listed, Taken
    <2> QED
        BY <1>1, <2>1 DEF poolVars, PoolInv, PoolTypeOK, PoolMutex, CodeInv, LoopInv,
                          WorkOnce, JoinedLast, Gone
<1>2. CASE MasterStep
    BY <1>2, InsertStep, CreateStep, UnlockStep, FinishStep, JoinCallStep, JoinedStep DEF MasterStep
<1>3. ASSUME NEW w \in Worker, WorkerStep(w) PROVE PoolInv'
    BY <1>3, EmptyStep, TakeStep, MultiplyStep, ExitStep DEF WorkerStep, WorkerCode
<1> QED
    BY <1>1, <1>2, <1>3, LockStep DEF PoolNext

LEMMA PoolAlways == PoolSpec => []PoolInv
BY InitPool, NextPool, PTL DEF PoolSpec

(* Every variable of the pool keeps its type: no index leaves the arrays.  *)
THEOREM PoolTypeCorrect == PoolSpec => []PoolTypeOK
<1>1. PoolInv => PoolTypeOK
    BY DEF PoolInv
<1> QED
    BY <1>1, PoolAlways, PTL

(* The spinlock of the work queue admits one of master and workers. *)
THEOREM PoolExcludes == PoolSpec => []PoolMutex
<1>1. PoolInv => PoolMutex
    BY DEF PoolInv
<1> QED
    BY <1>1, PoolAlways, PTL

(* No work is lost between the list, the workers and the results, and none *)
(* is done twice.                                                          *)
THEOREM WorkDoneOnce == PoolSpec => []WorkOnce
<1>1. PoolInv => WorkOnce
    BY DEF PoolInv
<1> QED
    BY <1>1, PoolAlways, PTL

(* The master ends after all of its workers have left their own code. *)
THEOREM MasterEndsLast == PoolSpec => []JoinedLast
<1>1. PoolInv => JoinedLast
    BY DEF PoolInv
<1> QED
    BY <1>1, PoolAlways, PTL

-----------------------------------------------------------------------------
(* Why work may be left: the last worker to leave has looked into the list *)
(* before it finds finished set, and the master has put work in between.   *)
Left(w) == at[w] \in {"leaving", "alerted", "exited"}
AllGone == \A w \in Worker : Left(w)
NoStaleCheck ==
    \A w \in Worker :
        /\ at[w] = "check" /\ finished
        /\ \A v \in Worker \ {w} : Left(v)
        => head = <<>>

(* Once all workers have left there is nothing in the list. *)
Drained == AllGone => finished /\ head = <<>>

LEMMA DrainedStep ==
    ASSUME PoolInv, Drained, NoStaleCheck, [PoolNext]_poolVars PROVE Drained'
<1>0. PoolTypeOK /\ CodeInv /\ LoopInv
    BY DEF PoolInv
<1>1. CASE UNCHANGED poolVars
    BY <1>1 DEF poolVars, Drained, AllGone, Left
<1>2. ASSUME NEW w \in Worker, ~Left(w)' PROVE Drained'
    BY <1>2 DEF Drained, AllGone
<1>3. ASSUME AllGone' => AllGone, head' = head, finished => finished' PROVE Drained'
    BY <1>3 DEF Drained, AllGone
<1>4. ASSUME NEW m \in Member, Lock(m) PROVE Drained'
    <2>1. at' = [at EXCEPT ![m] = "inside"] /\ UNCHANGED <<head, finished>>
        BY <1>4 DEF Lock
    <2>2. CASE m \in Worker
        BY <1>0, <1>2, <2>1, <2>2, PoolFacts DEF PoolTypeOK, Left
    <2>3. CASE m = Master
        <3>1. \A w \in Worker : at'[w] = at[w]
            BY <1>0, <2>1, <2>3, PoolFacts DEF PoolTypeOK
        <3> QED
            BY <1>3, <2>1, <3>1 DEF AllGone, Left
    <2> QED
        BY <2>2, <2>3, PoolFacts
<1>5. CASE Insert
    <2>1. at[Master] = "inside" /\ \A w \in Worker : at'[w] = at[w]
        BY <1>0, <1>5, PoolFacts DEF Insert, PoolTypeOK
    <2>2. ~finished
        BY <1>0, <2>1 DEF CodeInv, Joining
    <2> QED
        BY <2>1, <2>2 DEF Drained, AllGone, Left
<1>6. CASE Create \/ Unlock \/ Finish \/ JoinLookup \/ JoinSleep \/ Joined
    <2>1. head' = head /\ (finished => finished')
        BY <1>6 DEF Create, Unlock, Finish, JoinLookup, JoinSleep, Joined
    <2>2. ASSUME NEW w \in Worker, Left(w)' PROVE Left(w)
        BY <1>0, <1>6, <2>2, PoolFacts
        DEF Create, Unlock, Finish, JoinLookup, JoinSleep, Joined, PoolTypeOK, Left
    <2> QED
        BY <1>3, <2>1, <2>2 DEF AllGone
<1>7. ASSUME NEW w \in Worker, WorkerCode(w) PROVE Drained'
    <2>1. /\ at'[w] \in {"lock", "check", "work", "leaving"}
          /\ \A n \in Member : n # w => at'[n] = at[n]
        BY <1>7, WorkerFacts
    <2>2. CASE ~Left(w)'
        BY <1>2, <2>2
    <2>3. CASE Left(w)'
        <3>1. at[w] = "check" /\ finished /\ UNCHANGED <<head, finished>>
            BY <1>0, <1>7, <2>3, PoolFacts
            DEF WorkerCode, Empty, Check, Take, Multiply, PoolTypeOK, Left
        <3>2. ASSUME AllGone' PROVE head = <<>>
            <4>1. \A v \in Worker \ {w} : Left(v)
                BY <2>1, <3>2, PoolFacts DEF AllGone, Left
            <4> QED
                BY <3>1, <4>1 DEF NoStaleCheck
        <3> QED
            BY <3>1, <3>2 DEF Drained, AllGone
    <2> QED
        BY <2>2, <2>3
<1>8. ASSUME NEW w \in Worker, WorkerExit(w) PROVE Drained'
    <2>1. UNCHANGED <<head, finished>>
        BY <1>8 DEF WorkerExit, Alert, Unlink
    <2>2. ASSUME NEW v \in Worker, Left(v)' PROVE Left(v)
        <3>1. CASE v = w
            BY <1>8, <3>1 DEF WorkerExit, Alert, Unlink, Left
        <3>2. CASE v # w
            BY <1>0, <1>8, <2>2, <3>2, PoolFacts
            DEF WorkerExit, Alert, Unlink, Left, PoolTypeOK
        <3> QED
            BY <3>1, <3>2
    <2> QED
        BY <1>3, <2>1, <2>2 DEF AllGone
<1> QED
    BY <1>1, <1>4, <1>5, <1>6, <1>7, <1>8 DEF PoolNext, MasterStep, WorkerStep

(* Where no worker leaves on such a look, the pool does all of its work:   *)
(* reading finished after the unlock is all that is wrong with it.         *)
THEOREM WorkDoneIfSeen == PoolSpec /\ []NoStaleCheck => []AllWorkDone
<1>1. PoolInit => Drained
    BY PoolFacts DEF PoolInit, Drained
<1>2. PoolInv /\ Drained /\ NoStaleCheck /\ [PoolNext]_poolVars => Drained'
    BY DrainedStep
<1>3. PoolInv /\ Drained => AllWorkDone
    <2>1. ASSUME PoolInv, Drained, at[Master] = "exited", NEW k \in Work
          PROVE  results[k] = 1
        <3>1. AllGone
            BY <2>1 DEF PoolInv, JoinedLast, Gone, AllGone, Left
        <3>2. finished /\ ~Listed(k)
            BY <2>1, <3>1 DEF Drained, Listed
        <3>3. ~Taken(k)
            BY <2>1, <3>1, PoolFacts DEF PoolInv, CodeInv, AllGone, Left, Taken
        <3> QED
            BY <2>1, <3>2, <3>3 DEF PoolInv, WorkOnce, Handed
    <2> QED
        BY <2>1 DEF AllWorkDone
<1> QED
    BY <1>1, <1>2, <1>3, PoolAlways, PTL DEF PoolSpec

=============================================================================
