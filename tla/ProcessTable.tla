---------------------------- MODULE ProcessTable ----------------------------
(***************************************************************************)
(* The process table of thread.c, pointer by pointer: process_list and the *)
(* buckets of process_hash are doubly linked lists (list.h).  proc_create  *)
(* inserts under both locks, get_process walks a bucket under the hash     *)
(* lock, and proc_exit unlinks without any.  Threads uses the table as a   *)
(* set; this module says when that is right.  Loads and stores take effect *)
(* in program order.                                                       *)
(***************************************************************************)
EXTENDS Integers

CONSTANTS
    Core,       \* the cores
    MaxPid,     \* bound: next_pid stops here
    Buckets,    \* PIDHASH_SZ
    Mortal      \* the processes that end; the others loop for ever

ASSUME TableAssumption ==
    /\ MaxPid \in Nat /\ Buckets \in Nat \ {0}
    /\ Mortal \subseteq 1 .. MaxPid

Pid   == 1 .. MaxPid
NULL  == 0
Field == {"process_list", "process_hash_list"}
Heads == -Buckets .. -1
Node  == Heads \cup {NULL} \cup Pid

VARIABLES
    next, prev,                   \* the links of every list_head, by field
    process_list_lock, process_hash_lock,
    next_pid,
    status,                       \* of a process, from proc_create to the end
    pc, field, arg,               \* of a core: where it is, with which process
    left, right,                  \* prev and next in __list_add, __list_del
    at, known,                    \* the walk of get_process; was arg live?
    raced                         \* history: a list_del has overlapped another access

links == <<next, prev>>
locks == <<process_list_lock, process_hash_lock>>
procs == <<next_pid, status>>
walk  == <<at, known>>
tableVars == <<links, locks, procs, pc, field, arg, left, right, walk, raced>>

(* pid_hashfn, of pids below 256. *)
Bucket(p) == p % Buckets

(* The head of the list that p's field f belongs to. *)
ListHead(f, p) == IF f = "process_list" THEN -1 ELSE -1 - Bucket(p)

Go(c, l) == pc' = [pc EXCEPT ![c] = l]

(* The kernel function returns: its locals are gone. *)
Return(c) ==
    /\ Go(c, "idle")
    /\ field' = [field EXCEPT ![c] = "process_list"]
    /\ arg' = [arg EXCEPT ![c] = NULL]
    /\ left' = [left EXCEPT ![c] = NULL]
    /\ right' = [right EXCEPT ![c] = NULL]
    /\ at' = [at EXCEPT ![c] = NULL]
    /\ known' = [known EXCEPT ![c] = FALSE]

Store(link, c, node, value) == [link EXCEPT ![field[c]][node] = value]

-----------------------------------------------------------------------------
(* Mutant of Create: the pid is what next_pid is after the increment. *)
CreateAddFetch(c) ==
    /\ pc[c] = "idle"
    /\ next_pid <= MaxPid
    /\ next_pid' = next_pid + 1
    /\ arg' = [arg EXCEPT ![c] = next_pid + 1]
    /\ status' = [status EXCEPT ![next_pid + 1] = "new"]
    /\ next' = [f \in Field |-> [next[f] EXCEPT ![next_pid + 1] = next_pid + 1]]
    /\ prev' = [f \in Field |-> [prev[f] EXCEPT ![next_pid + 1] = next_pid + 1]]
    /\ Go(c, "list_lock")
    /\ UNCHANGED <<locks, field, left, right, walk>>

(* proc_create takes a pid and initialises the process's own links. *)
Create(c) ==
    /\ pc[c] = "idle"
    /\ next_pid <= MaxPid
    /\ next_pid' = next_pid + 1
    /\ arg' = [arg EXCEPT ![c] = next_pid]
    /\ status' = [status EXCEPT ![next_pid] = "new"]
    /\ next' = [f \in Field |-> [next[f] EXCEPT ![next_pid] = next_pid]]
    /\ prev' = [f \in Field |-> [prev[f] EXCEPT ![next_pid] = next_pid]]
    /\ Go(c, "list_lock")
    /\ UNCHANGED <<locks, field, left, right, walk>>

ListLock(c) ==
    /\ pc[c] = "list_lock"
    /\ ~process_list_lock
    /\ process_list_lock' = TRUE
    /\ Go(c, "hash_lock")
    /\ UNCHANGED <<links, process_hash_lock, procs, field, arg, left, right, walk>>

HashLock(c) ==
    /\ pc[c] = "hash_lock"
    /\ ~process_hash_lock
    /\ process_hash_lock' = TRUE
    /\ field' = [field EXCEPT ![c] = "process_list"]
    /\ Go(c, "add")
    /\ UNCHANGED <<links, process_list_lock, procs, arg, left, right, walk>>

(* Mutant of AddRead: head->prev is read for head->next. *)
AddReadTail(c) ==
    LET head == ListHead(field[c], arg[c]) IN
    /\ pc[c] = "add"
    /\ left' = [left EXCEPT ![c] = head]
    /\ right' = [right EXCEPT ![c] = prev[field[c]][head]]
    /\ Go(c, "add_next_prev")
    /\ UNCHANGED <<links, locks, procs, field, arg, walk>>

(* list_add(new, head) is __list_add(new, head, head->next), ... *)
AddRead(c) ==
    LET head == ListHead(field[c], arg[c]) IN
    /\ pc[c] = "add"
    /\ left' = [left EXCEPT ![c] = head]
    /\ right' = [right EXCEPT ![c] = next[field[c]][head]]
    /\ Go(c, "add_next_prev")
    /\ UNCHANGED <<links, locks, procs, field, arg, walk>>

(* Mutant of AddNextPrev: prev->next = new comes first. *)
AddPrevNextFirst(c) ==
    /\ pc[c] = "add_next_prev"
    /\ next' = Store(next, c, left[c], arg[c])
    /\ prev' = Store(prev, c, right[c], arg[c])
    /\ Go(c, "add_new_next")
    /\ UNCHANGED <<locks, procs, field, arg, left, right, walk>>

(* ... which stores next->prev, new->next, new->prev, prev->next. *)
AddNextPrev(c) ==
    /\ pc[c] = "add_next_prev"
    /\ prev' = Store(prev, c, right[c], arg[c])
    /\ Go(c, "add_new_next")
    /\ UNCHANGED <<next, locks, procs, field, arg, left, right, walk>>

AddNewNext(c) ==
    /\ pc[c] = "add_new_next"
    /\ next' = Store(next, c, arg[c], right[c])
    /\ Go(c, "add_new_prev")
    /\ UNCHANGED <<prev, locks, procs, field, arg, left, right, walk>>

AddNewPrev(c) ==
    /\ pc[c] = "add_new_prev"
    /\ prev' = Store(prev, c, arg[c], left[c])
    /\ Go(c, "add_prev_next")
    /\ UNCHANGED <<next, locks, procs, field, arg, left, right, walk>>

(* After process_list comes the bucket. *)
AddPrevNext(c) ==
    /\ pc[c] = "add_prev_next"
    /\ next' = Store(next, c, left[c], arg[c])
    /\ field' = [field EXCEPT ![c] = "process_hash_list"]
    /\ Go(c, IF field[c] = "process_list" THEN "add" ELSE "unlock")
    /\ UNCHANGED <<prev, locks, procs, arg, left, right, walk>>

(* Both unlocks, the hash lock's first; then ready() lets the process run. *)
HashUnlock(c) ==
    /\ pc[c] = "unlock"
    /\ process_hash_lock' = FALSE
    /\ Go(c, "list_unlock")
    /\ UNCHANGED <<links, process_list_lock, procs, field, arg, left, right, walk>>

ListUnlock(c) ==
    /\ pc[c] = "list_unlock"
    /\ process_list_lock' = FALSE
    /\ status' = [status EXCEPT ![arg[c]] = "live"]
    /\ Return(c)
    /\ UNCHANGED <<links, process_hash_lock, next_pid>>

-----------------------------------------------------------------------------
(* proc_exit of the process on core c. *)
Exit(c, p) ==
    /\ pc[c] = "idle"
    /\ p \in Mortal
    /\ status[p] = "live"
    /\ status' = [status EXCEPT ![p] = "dying"]
    /\ arg' = [arg EXCEPT ![c] = p]
    /\ field' = [field EXCEPT ![c] = "process_list"]
    /\ Go(c, "del")
    /\ UNCHANGED <<links, locks, next_pid, left, right, walk>>

(* Mutant of DelRead: the entry is poisoned before it is read. *)
DelReadPoisoned(c) ==
    /\ pc[c] = "del"
    /\ left' = [left EXCEPT ![c] = NULL]
    /\ right' = [right EXCEPT ![c] = NULL]
    /\ Go(c, "del_next_prev")
    /\ UNCHANGED <<links, locks, procs, field, arg, walk>>

(* list_del(entry) is __list_del(entry->prev, entry->next), ... *)
DelRead(c) ==
    /\ pc[c] = "del"
    /\ left' = [left EXCEPT ![c] = prev[field[c]][arg[c]]]
    /\ right' = [right EXCEPT ![c] = next[field[c]][arg[c]]]
    /\ Go(c, "del_next_prev")
    /\ UNCHANGED <<links, locks, procs, field, arg, walk>>

(* Mutant of DelNextPrev: the store is forgotten. *)
DelNextPrevNot(c) ==
    /\ pc[c] = "del_next_prev"
    /\ Go(c, "del_prev_next")
    /\ UNCHANGED <<links, locks, procs, field, arg, left, right, walk>>

(* ... which stores next->prev and prev->next, ... *)
DelNextPrev(c) ==
    /\ pc[c] = "del_next_prev"
    /\ prev' = Store(prev, c, right[c], left[c])
    /\ Go(c, "del_prev_next")
    /\ UNCHANGED <<next, locks, procs, field, arg, left, right, walk>>

DelPrevNext(c) ==
    /\ pc[c] = "del_prev_next"
    /\ next' = Store(next, c, left[c], right[c])
    /\ Go(c, "poison")
    /\ UNCHANGED <<prev, locks, procs, field, arg, left, right, walk>>

(* ... and both links of the entry become NULL.  The bucket comes next.    *)
Poison(c) ==
    /\ pc[c] = "poison"
    /\ next' = Store(next, c, arg[c], NULL)
    /\ prev' = Store(prev, c, arg[c], NULL)
    /\ \/ /\ field[c] = "process_list"
          /\ field' = [field EXCEPT ![c] = "process_hash_list"]
          /\ Go(c, "del")
          /\ UNCHANGED <<status, arg, left, right, walk>>
       \/ /\ field[c] = "process_hash_list"
          /\ status' = [status EXCEPT ![arg[c]] = "gone"]
          /\ Return(c)
    /\ UNCHANGED <<locks, next_pid>>

-----------------------------------------------------------------------------
(* get_process of a pid that somebody may know. *)
Lookup(c, p) ==
    /\ pc[c] = "idle"
    /\ status[p] # "none"
    /\ arg' = [arg EXCEPT ![c] = p]
    /\ known' = [known EXCEPT ![c] = status[p] = "live"]
    /\ Go(c, "walk_lock")
    /\ UNCHANGED <<links, locks, procs, field, left, right, at>>

WalkLock(c) ==
    /\ pc[c] = "walk_lock"
    /\ ~process_hash_lock
    /\ process_hash_lock' = TRUE
    /\ at' = [at EXCEPT ![c] = next["process_hash_list"][ListHead("process_hash_list", arg[c])]]
    /\ Go(c, "walk")
    /\ UNCHANGED <<links, process_list_lock, procs, field, arg, left, right, known>>

(* An entry with another pid.  At NULL there is no entry: the load faults  *)
(* and undefined_handler loops, with the hash lock held.                   *)
WalkStep(c) ==
    /\ pc[c] = "walk"
    /\ at[c] \in Pid \ {arg[c]}
    /\ at' = [at EXCEPT ![c] = next["process_hash_list"][at[c]]]
    /\ UNCHANGED <<links, locks, procs, pc, field, arg, left, right, known>>

(* Found, or back at the head. *)
WalkEnd(c) ==
    /\ pc[c] = "walk"
    /\ at[c] \in {arg[c], ListHead("process_hash_list", arg[c])}
    /\ process_hash_lock' = FALSE
    /\ Return(c)
    /\ UNCHANGED <<links, process_list_lock, procs>>

-----------------------------------------------------------------------------
(* proc_init: every head points at itself. *)
TableInit ==
    /\ next = [f \in Field |-> [n \in Node |-> IF n \in Heads THEN n ELSE NULL]]
    /\ prev = next
    /\ process_list_lock = FALSE /\ process_hash_lock = FALSE
    /\ next_pid = 1
    /\ status = [p \in Pid |-> "none"]
    /\ pc    = [c \in Core |-> "idle"]
    /\ field = [c \in Core |-> "process_list"]
    /\ arg   = [c \in Core |-> NULL]
    /\ left  = [c \in Core |-> NULL]
    /\ right = [c \in Core |-> NULL]
    /\ at    = [c \in Core |-> NULL]
    /\ known = [c \in Core |-> FALSE]
    /\ raced = FALSE

CreateStep(c) ==
    \/ Create(c) \/ ListLock(c) \/ HashLock(c)
    \/ AddRead(c) \/ AddNextPrev(c) \/ AddNewNext(c) \/ AddNewPrev(c) \/ AddPrevNext(c)
    \/ HashUnlock(c) \/ ListUnlock(c)

ExitStep(c) ==
    \/ \E p \in Pid : Exit(c, p)
    \/ DelRead(c) \/ DelNextPrev(c) \/ DelPrevNext(c) \/ Poison(c)

LookupStep(c) ==
    \/ \E p \in Pid : Lookup(c, p)
    \/ WalkLock(c) \/ WalkStep(c) \/ WalkEnd(c)

InAdd == {"add", "add_next_prev", "add_new_next", "add_new_prev", "add_prev_next"}
InDel == {"del", "del_next_prev", "del_prev_next", "poison"}

(* A core is in the list_del's of proc_exit, which take no lock, and       *)
(* another one uses the lists.                                             *)
Overlap ==
    \E c, d \in Core :
        c # d /\ pc[c] \in InDel /\ pc[d] \in InAdd \cup InDel \cup {"walk"}

TableNext ==
    /\ \E c \in Core : CreateStep(c) \/ ExitStep(c) \/ LookupStep(c)
    /\ raced' = (raced \/ Overlap')

TableSpec == TableInit /\ [][TableNext]_tableVars

-----------------------------------------------------------------------------
(* Every variable of the module keeps its type. *)
TableTypeOK ==
    /\ next \in [Field -> [Node -> Node]] /\ prev \in [Field -> [Node -> Node]]
    /\ process_list_lock \in BOOLEAN /\ process_hash_lock \in BOOLEAN
    /\ next_pid \in 1 .. MaxPid + 1
    /\ status \in [Pid -> {"none", "new", "live", "dying", "gone"}]
    /\ pc \in [Core -> {"idle", "list_lock", "hash_lock", "unlock", "list_unlock",
                        "walk_lock", "walk"} \cup InAdd \cup InDel]
    /\ field \in [Core -> Field]
    /\ arg \in [Core -> Pid \cup {NULL}]
    /\ left \in [Core -> Node] /\ right \in [Core -> Node] /\ at \in [Core -> Node]
    /\ known \in [Core -> BOOLEAN]
    /\ raced \in BOOLEAN

(* Where k steps along link lead from head h of field f. *)
After(link, f, h) ==
    LET step[k \in 0 .. MaxPid + 1] == IF k = 0 THEN h ELSE link[f][step[k - 1]]
    IN  step

(* The processes a walk along link meets before it is at a head or NULL.   *)
Met(link, f, h) ==
    LET s == After(link, f, h)
    IN  {s[k] : k \in {i \in 1 .. MaxPid + 1 : \A j \in 1 .. i : s[j] \in Pid}}

HeadsOf(f) == {ListHead(f, p) : p \in Pid}

(* proc_create on core c is through with list_add in field f.              *)
Entered(c, f) ==
    /\ field[c] = "process_hash_list"
    /\ f = "process_list" \/ pc[c] \in {"unlock", "list_unlock"}

(* The processes whose field f is in a list when nobody changes such lists. *)
Settled(f) ==
    {p \in Pid :
        \/ status[p] = "live"
        \/ status[p] = "dying" /\ f = "process_hash_list"
        \/ status[p] = "new" /\ \E c \in Core : arg[c] = p /\ Entered(c, f)}

Changing(f) == \E c \in Core : pc[c] \in InAdd \cup InDel /\ field[c] = f

(* What Threads takes for granted: as long as no removal has overlapped    *)
(* another access, both links of both lists lead round exactly the         *)
(* processes proc_create has entered and proc_exit has not unlinked,       *)
(* whenever nobody is inside list_add or list_del.                         *)
ListsRight ==
    ~raced => \A f \in Field : ~Changing(f) => \A h \in HeadsOf(f) :
        LET members == {p \in Settled(f) : ListHead(f, p) = h}
        IN  /\ Met(next, f, h) = members
            /\ Met(prev, f, h) = members
            /\ \A p \in members : prev[f][next[f][p]] = p /\ next[f][prev[f][p]] = p

(* Until then an entry appears and disappears in one store: no walk ever   *)
(* misses a process because another is just being inserted or unlinked.    *)
OneAtATime ==
    [][~raced' => \A f \in Field : \A h \in HeadsOf(f) :
        LET before == Met(next, f, h)
            after  == Met(next, f, h)'
        IN  before # after =>
              \/ \E p \in after \ before : status[p] = "new" /\ after = before \cup {p}
              \/ \E p \in before \ after : status[p] = "dying" /\ after = before \ {p}]_tableVars

(* Until then get_process finds a process that lives throughout the walk,  *)
(* so a join of a live thread is never EINVAL.                             *)
LiveFound ==
    [][\A c \in Core :
        /\ ~raced' /\ pc[c] = "walk" /\ pc'[c] = "idle"
        /\ known[c] /\ status[arg[c]] = "live"
        => at[c] = arg[c]]_tableVars

(* Heads, and processes until they poison their own entry, have no NULL    *)
(* link: whatever the unlocked removals do to the lists, list_add and      *)
(* list_del never store through NULL.                                      *)
NeverNull ==
    /\ \A f \in Field : \A n \in Heads : next[f][n] # NULL /\ prev[f][n] # NULL
    /\ \A f \in Field : \A p \in Pid :
          status[p] \in {"new", "live"} => next[f][p] # NULL /\ prev[f][p] # NULL
    /\ \A c \in Core :
          pc[c] \in (InAdd \cup InDel) \ {"add", "del"} =>
              left[c] # NULL /\ right[c] # NULL

=============================================================================
