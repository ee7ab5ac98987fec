------------------------- MODULE AbstractScheduler -------------------------
(***************************************************************************)
(* What the scheduler promises, with every move of a process in one step:  *)
(* a process is nowhere, held by a core, or waiting for one.  It waits     *)
(* only for a core of its affinity set (any core when the set is empty),   *)
(* a core takes only what waits for it and only when it holds nothing, and *)
(* only the core that holds a process gives it up or rebinds it: no        *)
(* process is pulled, lost, run twice or moved while it runs.              *)
(***************************************************************************)
CONSTANTS
    Core,
    Process

VARIABLES
    place,     \* where each process is
    affinity   \* the cores it may wait for

Nowhere     == <<"nowhere">>
HeldBy(c)   == <<"held", c>>
WaitsFor(c) == <<"waits", c>>

AbstractInit ==
    /\ place = [p \in Process |-> Nowhere]
    /\ affinity = [p \in Process |-> {}]

(* proc_create: the creating core holds the process until it waits. *)
Create(c, p) ==
    /\ place[p] = Nowhere
    /\ place' = [place EXCEPT ![p] = HeldBy(c)]
    /\ \E m \in SUBSET Core : affinity' = [affinity EXCEPT ![p] = m]

(* set_affinity, of a process by itself. *)
Rebind(c, p) ==
    /\ place[p] = HeldBy(c)
    /\ \E m \in SUBSET Core : affinity' = [affinity EXCEPT ![p] = m]
    /\ UNCHANGED place

(* ready *)
Release(c, p, q) ==
    /\ place[p] = HeldBy(c)
    /\ affinity[p] # {} => q \in affinity[p]
    /\ place' = [place EXCEPT ![p] = WaitsFor(q)]
    /\ UNCHANGED affinity

(* next *)
Take(c, p) ==
    /\ place[p] = WaitsFor(c)
    /\ \A r \in Process : place[r] # HeldBy(c)
    /\ place' = [place EXCEPT ![p] = HeldBy(c)]
    /\ UNCHANGED affinity

(* A step moves one process, or rebinds one. *)
AbstractMove ==
    /\ place' # place
    /\ \E c \in Core, p \in Process :
          Create(c, p) \/ Take(c, p) \/ \E q \in Core : Release(c, p, q)

AbstractRebind ==
    /\ affinity' # affinity
    /\ \E c \in Core, p \in Process : Rebind(c, p)

AbstractNext == AbstractMove \/ AbstractRebind

AbstractSpec == AbstractInit /\ [][AbstractNext]_<<place, affinity>>

=============================================================================
