----------------------------- MODULE WorkQueue ------------------------------
(***************************************************************************)
(* The thread pool that kinit.c runs (perf_thread_pool and pooled_worker): *)
(* a master fills a list of work behind a spinlock while the workers it    *)
(* creates empty it, sets finished, and joins the workers.  All of this is *)
(* user code: a process may be preempted anywhere, also while it holds the *)
(* lock or between the unlock and the read of finished.                    *)
(***************************************************************************)
EXTENDS Naturals, Sequences, FiniteSets

CONSTANTS
    NumThreads,   \* NUM_THREADS: how many pieces of work there are
    NumWorkers    \* NUM_WORKERS

ASSUME PoolAssumption ==
    /\ NumThreads \in Nat /\ NumWorkers \in Nat \ {0}
    /\ NumWorkers <= NumThreads

Work   == 0 .. NumThreads - 1
Worker == 0 .. NumWorkers - 1
Master == NumWorkers
Member == Worker \cup {Master}
NoWork == NumThreads

VARIABLES
    head,      \* work_queue.head
    lock,      \* work_queue.lock.flag
    finished,  \* work_queue.finished
    index,     \* the master's loop variable
    at,        \* where each process is
    work,      \* the work each worker has taken
    results    \* how often the loop over each work's matrix has been run

poolVars == <<head, lock, finished, index, at, work, results>>

-----------------------------------------------------------------------------
(* Mutant of Lock: the loop runs once too often. *)
LockPast(m) ==
    /\ at[m] = "lock"
    /\ m = Master => index <= NumThreads
    /\ ~lock
    /\ lock' = TRUE
    /\ at' = [at EXCEPT ![m] = "inside"]
    /\ UNCHANGED <<head, finished, index, work, results>>

(* __spin_lock, for the master only while there is work to hand out. *)
Lock(m) ==
    /\ at[m] = "lock"
    /\ m = Master => index < NumThreads
    /\ ~lock
    /\ lock' = TRUE
    /\ at' = [at EXCEPT ![m] = "inside"]
    /\ UNCHANGED <<head, finished, index, work, results>>

(* Mutant of Insert: list_add after the unlock. *)
InsertUnlocked ==
    /\ at[Master] = "inside"
    /\ head' = Append(head, index)
    /\ lock' = FALSE
    /\ at' = [at EXCEPT ![Master] = "create"]
    /\ UNCHANGED <<finished, index, work, results>>

(* sys_malloc and list_add_tail. *)
Insert ==
    /\ at[Master] = "inside"
    /\ head' = Append(head, index)
    /\ at' = [at EXCEPT ![Master] = "create"]
    /\ UNCHANGED <<lock, finished, index, work, results>>

(* The first NUM_WORKERS rounds create a worker, which may run at once and *)
(* spin on the lock the master still holds.                                *)
Create ==
    /\ at[Master] = "create"
    /\ at' = IF index \in Worker
             THEN [at EXCEPT ![Master] = "unlock", ![index] = "lock"]
             ELSE [at EXCEPT ![Master] = "unlock"]
    /\ UNCHANGED <<head, lock, finished, index, work, results>>

Unlock ==
    /\ at[Master] = "unlock"
    /\ lock' = FALSE
    /\ index' = index + 1
    /\ at' = [at EXCEPT ![Master] = "lock"]
    /\ UNCHANGED <<head, finished, work, results>>

(* Mutant of Finish: finished is never set. *)
FinishNot ==
    /\ at[Master] = "lock"
    /\ index = NumThreads
    /\ index' = 0
    /\ at' = [at EXCEPT ![Master] = "join"]
    /\ UNCHANGED <<head, lock, finished, work, results>>

(* finished = true, without the lock; the joins start with worker 0. *)
Finish ==
    /\ at[Master] = "lock"
    /\ index = NumThreads
    /\ finished' = TRUE
    /\ index' = 0
    /\ at' = [at EXCEPT ![Master] = "join"]
    /\ UNCHANGED <<head, lock, work, results>>

-----------------------------------------------------------------------------
(* pthread_join of the workers in turn.  proc_join looks the worker up in  *)
(* the process table, where a worker is until it has left the kernel: one  *)
(* that is gone is not waited for.                                         *)
JoinLookup ==
    /\ at[Master] = "join"
    /\ at' = [at EXCEPT ![Master] = IF at[index] = "exited" THEN "joined" ELSE "joining"]
    /\ UNCHANGED <<head, lock, finished, index, work, results>>

(* Mutant of JoinSleep: the call returns OK for BLOCK. *)
JoinNoSleep ==
    /\ at[Master] = "joining"
    /\ at' = [at EXCEPT ![Master] = "joined"]
    /\ UNCHANGED <<head, lock, finished, index, work, results>>

(* sleep_on its wait queue, without a second look at the worker: on other  *)
(* cores it may have been through Alert, and Unlink, since.                *)
JoinSleep ==
    /\ at[Master] = "joining"
    /\ at' = [at EXCEPT ![Master] = "asleep"]
    /\ UNCHANGED <<head, lock, finished, index, work, results>>

(* Back from the call, with OK or EINVAL: on to the next worker. *)
Joined ==
    /\ at[Master] = "joined"
    /\ index' = index + 1
    /\ at' = [at EXCEPT ![Master] = IF index + 1 = NumWorkers THEN "exited" ELSE "join"]
    /\ UNCHANGED <<head, lock, finished, work, results>>

-----------------------------------------------------------------------------
(* The list is empty: unlock, and only then look at finished. *)
Empty(w) ==
    /\ at[w] = "inside"
    /\ head = <<>>
    /\ lock' = FALSE
    /\ at' = [at EXCEPT ![w] = "check"]
    /\ UNCHANGED <<head, finished, index, work, results>>

Check(w) ==
    /\ at[w] = "check"
    /\ at' = [at EXCEPT ![w] = IF finished THEN "leaving" ELSE "lock"]
    /\ UNCHANGED <<head, lock, finished, index, work, results>>

(* Mutant of Take: list_first_entry without list_del. *)
TakeNoUnlink(w) ==
    /\ at[w] = "inside"
    /\ head # <<>>
    /\ work' = [work EXCEPT ![w] = Head(head)]
    /\ lock' = FALSE
    /\ at' = [at EXCEPT ![w] = "work"]
    /\ UNCHANGED <<head, finished, index, results>>

(* Take the first work out of the list and unlock. *)
Take(w) ==
    /\ at[w] = "inside"
    /\ head # <<>>
    /\ work' = [work EXCEPT ![w] = Head(head)]
    /\ head' = Tail(head)
    /\ lock' = FALSE
    /\ at' = [at EXCEPT ![w] = "work"]
    /\ UNCHANGED <<finished, index, results>>

(* The scalar multiplications of one work. *)
Multiply(w) ==
    /\ at[w] = "work"
    /\ results' = [results EXCEPT ![work[w]] = @ + 1]
    /\ work' = [work EXCEPT ![w] = NoWork]
    /\ at' = [at EXCEPT ![w] = "lock"]
    /\ UNCHANGED <<head, lock, finished, index>>

(* proc_exit wakes whoever sleeps in the wait queue of w, ... *)
Alert(w) ==
    /\ at[w] = "leaving"
    /\ at' = IF at[Master] = "asleep" /\ index = w
             THEN [at EXCEPT ![w] = "alerted", ![Master] = "joined"]
             ELSE [at EXCEPT ![w] = "alerted"]
    /\ UNCHANGED <<head, lock, finished, index, work, results>>

(* ... and only later takes w out of the process table. *)
Unlink(w) ==
    /\ at[w] = "alerted"
    /\ at' = [at EXCEPT ![w] = "exited"]
    /\ UNCHANGED <<head, lock, finished, index, work, results>>

-----------------------------------------------------------------------------
PoolInit ==
    /\ head     = <<>>
    /\ lock     = FALSE
    /\ finished = FALSE
    /\ index    = 0
    /\ at       = [m \in Member |-> IF m = Master THEN "lock" ELSE "unborn"]
    /\ work     = [w \in Worker |-> NoWork]
    /\ results  = [k \in Work |-> 0]

MasterStep ==
    \/ Insert \/ Create \/ Unlock \/ Finish
    \/ JoinLookup \/ JoinSleep \/ Joined

WorkerCode(w) == Empty(w) \/ Check(w) \/ Take(w) \/ Multiply(w)
WorkerExit(w) == Alert(w) \/ Unlink(w)
WorkerStep(w) == WorkerCode(w) \/ WorkerExit(w)

PoolNext ==
    \/ \E m \in Member : Lock(m)
    \/ MasterStep
    \/ \E w \in Worker : WorkerStep(w)

PoolSpec == PoolInit /\ [][PoolNext]_poolVars

(* Every runnable process gets time slices (Scheduled of Dispatch), and    *)
(* the spinlock is fair in the end, as in Dispatch.                        *)
PoolFairness ==
    /\ WF_poolVars(MasterStep)
    /\ \A w \in Worker : WF_poolVars(WorkerStep(w))
    /\ \A m \in Member : SF_poolVars(Lock(m))

PoolFairSpec == PoolSpec /\ PoolFairness

-----------------------------------------------------------------------------
Listed(k) == \E i \in 1 .. Len(head) : head[i] = k

(* m is between the lock and the unlock. *)
Inside(m) == at[m] = "inside" \/ (m = Master /\ at[m] \in {"create", "unlock"})

Place == {"unborn", "lock", "inside", "create", "unlock", "check", "work", "leaving",
          "alerted", "join", "joining", "asleep", "joined", "exited"}

(* Every variable of the pool keeps its type. *)
PoolTypeOK ==
    /\ head \in Seq(Work)
    /\ lock \in BOOLEAN
    /\ finished \in BOOLEAN
    /\ index \in 0 .. NumThreads
    /\ at \in [Member -> Place]
    /\ work \in [Worker -> Work \cup {NoWork}]
    /\ results \in [Work -> Nat]

(* The spinlock excludes master and workers from each other. *)
PoolMutex ==
    /\ lock <=> \E m \in Member : Inside(m)
    /\ \A m, n \in Member : Inside(m) /\ Inside(n) => m = n

(* What the master has put into the list, now or earlier. *)
Handed(k) ==
    finished \/ k < index \/ (k = index /\ at[Master] \in {"create", "unlock"})

Taken(k) == \E w \in Worker : work[w] = k

(* Every work the master has handed out is in the list, in one worker's    *)
(* hands or computed, and in one of these places once: none is lost and    *)
(* none is done twice, whatever the preemptions.                           *)
WorkOnce ==
    /\ \A i, j \in 1 .. Len(head) : head[i] = head[j] => i = j
    /\ \A v, w \in Worker : work[v] = work[w] /\ work[v] # NoWork => v = w
    /\ \A k \in Work :
          /\ results[k] \in {0, 1}
          /\ Handed(k) <=> Listed(k) \/ Taken(k) \/ results[k] = 1
          /\ ~(Listed(k) /\ Taken(k))
          /\ results[k] = 1 => ~Listed(k) /\ ~Taken(k)

(* w has woken its waiters and does nothing more for them. *)
Gone(w) == at[w] \in {"alerted", "exited"}

(* The master only ends when every worker has left its own code for good,  *)
(* so the stack that holds the array of their pthread_t's, and the trace,  *)
(* are not taken away early.                                               *)
JoinedLast == at[Master] = "exited" => \A w \in Worker : Gone(w)

(* The master sleeps in the wait queue of a worker that has been through   *)
(* its Alert, for ever: the late join of thread.c:143.                     *)
JoinLost == at[Master] = "asleep" /\ Gone(index)

(* The pool comes to its end, or to a late join: nothing else keeps the    *)
(* master from seeing all workers go, who see finished.                    *)
PoolEnds == <>(at[Master] = "exited" \/ JoinLost)

-----------------------------------------------------------------------------
(* "worker threads pulling work from a protected queue" (main.tex:499).    *)
(* finished is read after the unlock: workers that have all seen an empty  *)
(* list exit although the master has put more work in it since.            *)
AllWorkDone == at[Master] = "exited" => \A k \in Work : results[k] = 1

=============================================================================
