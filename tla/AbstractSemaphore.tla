------------------------- MODULE AbstractSemaphore --------------------------
(***************************************************************************)
(* What the semaphore calls of src/c/kernel/semaphore.c promise, each call *)
(* as one atomic step.  A semaphore is a count and a set of sleepers.      *)
(* It is no counting semaphore: a post that finds sleepers releases all of *)
(* them, and none of them finds the token taken by another.                *)
(***************************************************************************)
EXTENDS Naturals

CONSTANTS Sem, Sleeper

VARIABLES
    open,      \* initialised and not destroyed since
    value,     \* the tokens
    sleepers   \* the processes a sem_wait has put to sleep

absVars == <<open, value, sleepers>>

AbsInit ==
    /\ open     = [s \in Sem |-> FALSE]
    /\ value    = [s \in Sem |-> 0]
    /\ sleepers = [s \in Sem |-> {}]

Open(s) ==
    /\ ~open[s]
    /\ open' = [open EXCEPT ![s] = TRUE]
    /\ value'[s] \in Nat
    /\ value' = [value EXCEPT ![s] = value'[s]]
    /\ sleepers' = [sleepers EXCEPT ![s] = {}]

(* sem_wait and sem_trywait with a token. *)
Take(s) ==
    /\ open[s]
    /\ value[s] > 0
    /\ value' = [value EXCEPT ![s] = @ - 1]
    /\ UNCHANGED <<open, sleepers>>

(* sem_wait without one. *)
Sleep(s) ==
    /\ open[s]
    /\ value[s] = 0
    /\ \E p \in Sleeper \ sleepers[s] :
          sleepers' = [sleepers EXCEPT ![s] = @ \cup {p}]
    /\ UNCHANGED <<open, value>>

(* sem_post without sleepers. *)
Keep(s) ==
    /\ open[s]
    /\ sleepers[s] = {}
    /\ value' = [value EXCEPT ![s] = @ + 1]
    /\ UNCHANGED <<open, sleepers>>

(* sem_post with sleepers: the code readies all of them, not one. *)
ReleaseAll(s) ==
    /\ sleepers[s] # {}
    /\ sleepers' = [sleepers EXCEPT ![s] = {}]
    /\ UNCHANGED <<open, value>>

(* sem_destroy, which releases the sleepers in a step of its own. *)
Close(s) ==
    /\ open[s]
    /\ open' = [open EXCEPT ![s] = FALSE]
    /\ UNCHANGED <<value, sleepers>>

Calls(s) == Open(s) \/ Take(s) \/ Sleep(s) \/ Keep(s) \/ Close(s)

PulseNext == \E s \in Sem : Calls(s) \/ ReleaseAll(s)

PulseSpec == AbsInit /\ [][PulseNext]_absVars

=============================================================================
