----------------------------- MODULE TableProofs ----------------------------
(***************************************************************************)
(* Proofs about ProcessTable, for every number of cores, pids and buckets  *)
(* and whichever processes end.                                            *)
(*                                                                         *)
(* First part: its types, and that no insertion or removal stores through  *)
(* NULL, whatever the removals that take no lock do to the lists           *)
(* (TableInv).  Second part: as long as no removal has overlapped another  *)
(* access, every list is a ring (RingInv), so that both links lead round   *)
(* exactly its members, a walk misses nobody that lives, and an entry      *)
(* comes and goes in one store.                                            *)
(***************************************************************************)
EXTENDS ProcessTable, TLAPS, FiniteSetTheorems, WellFoundedInduction

InCreate == InAdd \cup {"list_lock", "hash_lock", "unlock", "list_unlock"}

(* Core c is inside proc_create or proc_exit, with the process arg[c]. *)
Owns(c) == pc[c] \in InCreate \cup InDel

NotNull(f, n) == next[f][n] # NULL /\ prev[f][n] # NULL

(* What core c relies on: in a creation the process is new; in a removal   *)
(* it is dying, and its links are there as far as c has not poisoned them. *)
CoreInv(c) ==
    /\ pc[c] \in InCreate => arg[c] \in Pid /\ status[arg[c]] = "new"
    /\ pc[c] \in InDel =>
          /\ arg[c] \in Pid /\ status[arg[c]] = "dying"
          /\ NotNull("process_hash_list", arg[c])
          /\ field[c] = "process_list" => NotNull("process_list", arg[c])
    /\ pc[c] \in (InAdd \cup InDel) \ {"add", "del"} =>
          left[c] # NULL /\ right[c] # NULL

Apart == \A c, d \in Core : c # d /\ Owns(c) /\ Owns(d) => arg[c] # arg[d]

HeadsInv == \A f \in Field : \A n \in Heads : NotNull(f, n)

LiveInv ==
    \A f \in Field : \A p \in Pid : status[p] \in {"new", "live"} => NotNull(f, p)

PidInv == \A p \in Pid : p >= next_pid => status[p] = "none"

TableInv ==
    /\ TableTypeOK
    /\ HeadsInv /\ LiveInv /\ PidInv
    /\ \A c \in Core : CoreInv(c)
    /\ Apart

-----------------------------------------------------------------------------
(* Every head is a node, and no node that a process or a head is is NULL.  *)
LEMMA Nodes ==
    /\ Heads \subseteq Node /\ Pid \subseteq Node /\ NULL \in Node
    /\ NULL \notin Heads /\ NULL \notin Pid
    /\ \A f \in Field, p \in Pid \cup {NULL} : ListHead(f, p) \in Heads
<1>1. /\ Heads \subseteq Node /\ Pid \subseteq Node /\ NULL \in Node
      /\ NULL \notin Heads /\ NULL \notin Pid
  BY TableAssumption DEF Heads, Pid, NULL, Node
<1>2. ASSUME NEW f \in Field, NEW p \in Pid \cup {NULL}
      PROVE  ListHead(f, p) \in Heads
  <2>1. p \in Int /\ Buckets \in Nat \ {0}
    BY TableAssumption DEF Pid, NULL
  <2>2. Bucket(p) \in 0 .. Buckets - 1
    BY <2>1 DEF Bucket
  <2> QED BY <2>1, <2>2 DEF ListHead, Heads
<1> QED BY <1>1, <1>2

(* A store of anything but NULL leaves no link NULL that was not. *)
LEMMA StoreKeeps ==
    ASSUME NEW link \in [Field -> [Node -> Node]], NEW f \in Field,
           NEW n \in Node, NEW v \in Node, v # NULL
    PROVE  LET new == [link EXCEPT ![f][n] = v] IN
           /\ new \in [Field -> [Node -> Node]]
           /\ \A g \in Field, m \in Node : link[g][m] # NULL => new[g][m] # NULL
OBVIOUS

-----------------------------------------------------------------------------
(* Core c takes a step: the other cores stay where they are. *)
OnlyCore(c) ==
    \A d \in Core \ {c} :
        /\ pc'[d] = pc[d] /\ arg'[d] = arg[d] /\ field'[d] = field[d]
        /\ left'[d] = left[d] /\ right'[d] = right[d]

LinksKept ==
    \A g \in Field, n \in Node :
        /\ next[g][n] # NULL => next'[g][n] # NULL
        /\ prev[g][n] # NULL => prev'[g][n] # NULL

(* A step of core c that poisons nothing, changes no status and takes no   *)
(* process up needs to keep the types and what c relies on.                *)
LEMMA QuietStep ==
    ASSUME TableInv, NEW c \in Core, OnlyCore(c), LinksKept, UNCHANGED procs,
           TableTypeOK', CoreInv(c)',
           Owns(c)' => Owns(c) /\ arg'[c] = arg[c]
    PROVE  TableInv'
<1>1. HeadsInv' /\ LiveInv'
  <2>1. HeadsInv /\ LiveInv /\ status' = status
    BY DEF TableInv, procs
  <2> QED BY <2>1, Nodes DEF HeadsInv, LiveInv, LinksKept, NotNull
<1>2. PidInv'
  BY DEF TableInv, PidInv, procs
<1>3. ASSUME NEW d \in Core PROVE CoreInv(d)'
  <2>1. CASE d = c
    BY <2>1
  <2>2. CASE d # c
    <3>1. /\ pc'[d] = pc[d] /\ arg'[d] = arg[d] /\ field'[d] = field[d]
          /\ left'[d] = left[d] /\ right'[d] = right[d]
      BY <2>2 DEF OnlyCore
    <3>2. CoreInv(d) /\ status' = status
      BY DEF TableInv, procs
    <3>3. \A g \in Field : arg[d] \in Pid /\ NotNull(g, arg[d]) => NotNull(g, arg[d])'
      BY <3>1, Nodes DEF LinksKept, NotNull
    <3> QED BY <3>1, <3>2, <3>3 DEF CoreInv, Field
  <2> QED BY <2>1, <2>2
<1>4. Apart'
  BY DEF TableInv, Apart, OnlyCore, Owns
<1> QED BY <1>1, <1>2, <1>3, <1>4 DEF TableInv

-----------------------------------------------------------------------------
(* The steps of proc_create, but for the first and the last one.           *)
LEMMA CreateQuiet ==
    ASSUME TableInv, NEW c \in Core, raced' \in BOOLEAN,
           \/ ListLock(c) \/ HashLock(c) \/ AddRead(c) \/ AddNextPrev(c)
           \/ AddNewNext(c) \/ AddNewPrev(c) \/ AddPrevNext(c) \/ HashUnlock(c)
    PROVE  TableInv'
<1>0. TableTypeOK /\ CoreInv(c) /\ HeadsInv /\ LiveInv
  BY DEF TableInv
<1>1. CASE ListLock(c)
  <2>1. TableTypeOK' /\ OnlyCore(c) /\ LinksKept /\ UNCHANGED procs
    BY <1>0, <1>1, Nodes, StoreKeeps DEF TableTypeOK, ListLock, OnlyCore, LinksKept,
       CoreInv,
       Store, Go, Return, links, locks, procs, walk, InAdd, InDel, InCreate, Field
  <2>2. CoreInv(c)' /\ (Owns(c)' => Owns(c) /\ arg'[c] = arg[c])
    BY <1>0, <1>1, Nodes DEF TableTypeOK, ListLock, CoreInv, Owns, NotNull, HeadsInv,
       LiveInv,
       Store, Go, Return, links, locks, procs, walk, InAdd, InDel, InCreate, Field
  <2> QED BY <2>1, <2>2, QuietStep
<1>2. CASE HashLock(c)
  <2>1. TableTypeOK' /\ OnlyCore(c) /\ LinksKept /\ UNCHANGED procs
    BY <1>0, <1>2, Nodes, StoreKeeps DEF TableTypeOK, HashLock, OnlyCore, LinksKept,
       CoreInv,
       Store, Go, Return, links, locks, procs, walk, InAdd, InDel, InCreate, Field
  <2>2. CoreInv(c)' /\ (Owns(c)' => Owns(c) /\ arg'[c] = arg[c])
    BY <1>0, <1>2, Nodes DEF TableTypeOK, HashLock, CoreInv, Owns, NotNull, HeadsInv,
       LiveInv,
       Store, Go, Return, links, locks, procs, walk, InAdd, InDel, InCreate, Field
  <2> QED BY <2>1, <2>2, QuietStep
<1>3. CASE AddRead(c)
  <2>1. TableTypeOK' /\ OnlyCore(c) /\ LinksKept /\ UNCHANGED procs
    BY <1>0, <1>3, Nodes, StoreKeeps DEF TableTypeOK, AddRead, OnlyCore, LinksKept,
       CoreInv,
       Store, Go, Return, links, locks, procs, walk, InAdd, InDel, InCreate, Field
  <2>2. CoreInv(c)' /\ (Owns(c)' => Owns(c) /\ arg'[c] = arg[c])
    BY <1>0, <1>3, Nodes DEF TableTypeOK, AddRead, CoreInv, Owns, NotNull, HeadsInv,
       LiveInv,
       Store, Go, Return, links, locks, procs, walk, InAdd, InDel, InCreate, Field
  <2> QED BY <2>1, <2>2, QuietStep
<1>4. CASE AddNextPrev(c)
  <2>1. TableTypeOK' /\ OnlyCore(c) /\ LinksKept /\ UNCHANGED procs
    BY <1>0, <1>4, Nodes, StoreKeeps DEF TableTypeOK, AddNextPrev, OnlyCore, LinksKept,
       CoreInv,
       Store, Go, Return, links, locks, procs, walk, InAdd, InDel, InCreate, Field
  <2>2. CoreInv(c)' /\ (Owns(c)' => Owns(c) /\ arg'[c] = arg[c])
    BY <1>0, <1>4, Nodes DEF TableTypeOK, AddNextPrev, CoreInv, Owns, NotNull, HeadsInv,
       LiveInv,
       Store, Go, Return, links, locks, procs, walk, InAdd, InDel, InCreate, Field
  <2> QED BY <2>1, <2>2, QuietStep
<1>5. CASE AddNewNext(c)
  <2>1. TableTypeOK' /\ OnlyCore(c) /\ LinksKept /\ UNCHANGED procs
    BY <1>0, <1>5, Nodes, StoreKeeps DEF TableTypeOK, AddNewNext, OnlyCore, LinksKept,
       CoreInv,
       Store, Go, Return, links, locks, procs, walk, InAdd, InDel, InCreate, Field
  <2>2. CoreInv(c)' /\ (Owns(c)' => Owns(c) /\ arg'[c] = arg[c])
    BY <1>0, <1>5, Nodes DEF TableTypeOK, AddNewNext, CoreInv, Owns, NotNull, HeadsInv,
       LiveInv,
       Store, Go, Return, links, locks, procs, walk, InAdd, InDel, InCreate, Field
  <2> QED BY <2>1, <2>2, QuietStep
<1>6. CASE AddNewPrev(c)
  <2>1. TableTypeOK' /\ OnlyCore(c) /\ LinksKept /\ UNCHANGED procs
    BY <1>0, <1>6, Nodes, StoreKeeps DEF TableTypeOK, AddNewPrev, OnlyCore, LinksKept,
       CoreInv,
       Store, Go, Return, links, locks, procs, walk, InAdd, InDel, InCreate, Field
  <2>2. CoreInv(c)' /\ (Owns(c)' => Owns(c) /\ arg'[c] = arg[c])
    BY <1>0, <1>6, Nodes DEF TableTypeOK, AddNewPrev, CoreInv, Owns, NotNull, HeadsInv,
       LiveInv,
       Store, Go, Return, links, locks, procs, walk, InAdd, InDel, InCreate, Field
  <2> QED BY <2>1, <2>2, QuietStep
<1>7. CASE AddPrevNext(c)
  <2>1. TableTypeOK' /\ OnlyCore(c) /\ LinksKept /\ UNCHANGED procs
    BY <1>0, <1>7, Nodes, StoreKeeps DEF TableTypeOK, AddPrevNext, OnlyCore, LinksKept,
       CoreInv,
       Store, Go, Return, links, locks, procs, walk, InAdd, InDel, InCreate, Field
  <2>2. CoreInv(c)' /\ (Owns(c)' => Owns(c) /\ arg'[c] = arg[c])
    BY <1>0, <1>7, Nodes DEF TableTypeOK, AddPrevNext, CoreInv, Owns, NotNull, HeadsInv,
       LiveInv,
       Store, Go, Return, links, locks, procs, walk, InAdd, InDel, InCreate, Field
  <2> QED BY <2>1, <2>2, QuietStep
<1>8. CASE HashUnlock(c)
  <2>1. TableTypeOK' /\ OnlyCore(c) /\ LinksKept /\ UNCHANGED procs
    BY <1>0, <1>8 DEF TableTypeOK, HashUnlock, OnlyCore, LinksKept,
       Go, links, procs, walk
  <2>2. CoreInv(c)' /\ (Owns(c)' => Owns(c) /\ arg'[c] = arg[c])
    BY <1>0, <1>8, Nodes DEF TableTypeOK, HashUnlock, CoreInv, Owns, NotNull, HeadsInv,
       LiveInv,
       Store, Go, Return, links, locks, procs, walk, InAdd, InDel, InCreate, Field
  <2> QED BY <2>1, <2>2, QuietStep
<1> QED BY <1>1, <1>2, <1>3, <1>4, <1>5, <1>6, <1>7, <1>8

-----------------------------------------------------------------------------
(* The steps of proc_exit that poison nothing, and those of get_process.   *)
LEMMA DelQuiet ==
    ASSUME TableInv, NEW c \in Core, raced' \in BOOLEAN,
           DelRead(c) \/ DelNextPrev(c) \/ DelPrevNext(c)
    PROVE  TableInv'
<1>0. TableTypeOK /\ CoreInv(c) /\ HeadsInv /\ LiveInv
  BY DEF TableInv
<1>1. CASE DelRead(c)
  <2>1. TableTypeOK' /\ OnlyCore(c) /\ LinksKept /\ UNCHANGED procs
    BY <1>0, <1>1, Nodes, StoreKeeps DEF TableTypeOK, DelRead, OnlyCore, LinksKept,
       CoreInv,
       Store, Go, Return, links, locks, procs, walk, InAdd, InDel, InCreate, Field
  <2>2. CoreInv(c)' /\ (Owns(c)' => Owns(c) /\ arg'[c] = arg[c])
    BY <1>0, <1>1, Nodes DEF TableTypeOK, DelRead, CoreInv, Owns, NotNull, HeadsInv,
       LiveInv,
       Store, Go, Return, links, locks, procs, walk, InAdd, InDel, InCreate, Field
  <2> QED BY <2>1, <2>2, QuietStep
<1>2. CASE DelNextPrev(c)
  <2>1. TableTypeOK' /\ OnlyCore(c) /\ LinksKept /\ UNCHANGED procs
    BY <1>0, <1>2, Nodes, StoreKeeps DEF TableTypeOK, DelNextPrev, OnlyCore, LinksKept,
       CoreInv,
       Store, Go, Return, links, locks, procs, walk, InAdd, InDel, InCreate, Field
  <2>2. CoreInv(c)' /\ (Owns(c)' => Owns(c) /\ arg'[c] = arg[c])
    BY <1>0, <1>2, Nodes DEF TableTypeOK, DelNextPrev, CoreInv, Owns, NotNull, HeadsInv,
       LiveInv,
       Store, Go, Return, links, locks, procs, walk, InAdd, InDel, InCreate, Field
  <2> QED BY <2>1, <2>2, QuietStep
<1>3. CASE DelPrevNext(c)
  <2>1. TableTypeOK' /\ OnlyCore(c) /\ LinksKept /\ UNCHANGED procs
    BY <1>0, <1>3, Nodes, StoreKeeps DEF TableTypeOK, DelPrevNext, OnlyCore, LinksKept,
       CoreInv,
       Store, Go, Return, links, locks, procs, walk, InAdd, InDel, InCreate, Field
  <2>2. CoreInv(c)' /\ (Owns(c)' => Owns(c) /\ arg'[c] = arg[c])
    BY <1>0, <1>3, Nodes DEF TableTypeOK, DelPrevNext, CoreInv, Owns, NotNull, HeadsInv,
       LiveInv,
       Store, Go, Return, links, locks, procs, walk, InAdd, InDel, InCreate, Field
  <2> QED BY <2>1, <2>2, QuietStep
<1> QED BY <1>1, <1>2, <1>3

LEMMA LookupQuiet ==
    ASSUME TableInv, NEW c \in Core, raced' \in BOOLEAN,
           LookupStep(c)
    PROVE  TableInv'
<1>0. TableTypeOK /\ CoreInv(c) /\ HeadsInv /\ LiveInv
  BY DEF TableInv
<1>1. ASSUME NEW p \in Pid, Lookup(c, p) PROVE TableInv'
  <2>1. TableTypeOK' /\ OnlyCore(c) /\ LinksKept /\ UNCHANGED procs
    BY <1>0, <1>1, Nodes DEF TableTypeOK, Lookup, OnlyCore, LinksKept,
       Go, Return, links, locks, procs, walk, InAdd, InDel, InCreate, Field
  <2>2. CoreInv(c)' /\ (Owns(c)' => Owns(c) /\ arg'[c] = arg[c])
    BY <1>0, <1>1, Nodes DEF TableTypeOK, Lookup, CoreInv, Owns, NotNull,
       Go, Return, links, procs, InAdd, InDel, InCreate, Field
  <2> QED BY <2>1, <2>2, QuietStep
<1>2. CASE WalkLock(c)
  <2>1. TableTypeOK' /\ OnlyCore(c) /\ LinksKept /\ UNCHANGED procs
    BY <1>0, <1>2, Nodes DEF TableTypeOK, WalkLock, OnlyCore, LinksKept,
       Go, Return, links, locks, procs, walk, InAdd, InDel, InCreate, Field
  <2>2. CoreInv(c)' /\ (Owns(c)' => Owns(c) /\ arg'[c] = arg[c])
    BY <1>0, <1>2, Nodes DEF TableTypeOK, WalkLock, CoreInv, Owns, NotNull,
       Go, Return, links, procs, InAdd, InDel, InCreate, Field
  <2> QED BY <2>1, <2>2, QuietStep
<1>3. CASE WalkStep(c)
  <2>1. TableTypeOK' /\ OnlyCore(c) /\ LinksKept /\ UNCHANGED procs
    BY <1>0, <1>3, Nodes DEF TableTypeOK, WalkStep, OnlyCore, LinksKept,
       Go, Return, links, locks, procs, walk, InAdd, InDel, InCreate, Field
  <2>2. CoreInv(c)' /\ (Owns(c)' => Owns(c) /\ arg'[c] = arg[c])
    BY <1>0, <1>3, Nodes DEF TableTypeOK, WalkStep, CoreInv, Owns, NotNull,
       Go, Return, links, procs, InAdd, InDel, InCreate, Field
  <2> QED BY <2>1, <2>2, QuietStep
<1>4. CASE WalkEnd(c)
  <2>1. TableTypeOK' /\ OnlyCore(c) /\ LinksKept /\ UNCHANGED procs
    BY <1>0, <1>4, Nodes DEF TableTypeOK, WalkEnd, OnlyCore, LinksKept,
       Go, Return, links, locks, procs, walk, InAdd, InDel, InCreate, Field
  <2>2. CoreInv(c)' /\ (Owns(c)' => Owns(c) /\ arg'[c] = arg[c])
    BY <1>0, <1>4, Nodes DEF TableTypeOK, WalkEnd, CoreInv, Owns, NotNull,
       Go, Return, links, procs, InAdd, InDel, InCreate, Field
  <2> QED BY <2>1, <2>2, QuietStep
<1> QED BY <1>1, <1>2, <1>3, <1>4 DEF LookupStep

-----------------------------------------------------------------------------
(* The steps that change the status of a process p, by core c: the other   *)
(* cores are at other processes, and lose nothing they rely on.            *)
LEMMA StatusStep ==
    ASSUME TableInv, NEW c \in Core, NEW p \in Pid, OnlyCore(c),
           NEW s \in {"new", "live", "dying", "gone"},
           status' = [status EXCEPT ![p] = s],
           \A d \in Core \ {c} : Owns(d) => arg[d] # p,
           \A g \in Field, n \in Node \ {p} : NotNull(g, n) => NotNull(g, n)',
           s \in {"new", "live"} => \A g \in Field : NotNull(g, p)',
           next_pid' >= next_pid, p < next_pid', next_pid' \in Int,
           TableTypeOK', CoreInv(c)', Owns(c)' => arg'[c] = p
    PROVE  TableInv'
<1>0. TableTypeOK /\ HeadsInv /\ LiveInv /\ PidInv
  BY DEF TableInv
<1>1. HeadsInv'
  <2>1. \A n \in Heads : n \in Node \ {p}
    BY Nodes DEF Heads, Pid
  <2> QED BY <1>0, <2>1 DEF HeadsInv
<1>2. LiveInv'
  <2>1. ASSUME NEW f \in Field, NEW q \in Pid, status'[q] \in {"new", "live"}
        PROVE  NotNull(f, q)'
    <3>1. CASE q = p
      BY <1>0, <2>1, <3>1 DEF TableTypeOK
    <3>2. CASE q # p
      BY <1>0, <2>1, <3>2, Nodes DEF LiveInv, TableTypeOK
    <3> QED BY <3>1, <3>2
  <2> QED BY <2>1 DEF LiveInv
<1>3. PidInv'
  <2>1. p \in Int /\ next_pid \in Int
    BY <1>0, TableAssumption DEF TableTypeOK, Pid
  <2>2. ASSUME NEW q \in Pid, q >= next_pid' PROVE status'[q] = "none"
    <3>1. q \in Int
      BY TableAssumption DEF Pid
    <3>2. q # p /\ q >= next_pid
      BY <2>1, <2>2, <3>1
    <3> QED BY <1>0, <3>2 DEF PidInv, TableTypeOK
  <2> QED BY <2>2 DEF PidInv
<1>4. ASSUME NEW d \in Core PROVE CoreInv(d)'
  <2>1. CASE d = c
    BY <2>1
  <2>2. CASE d # c
    <3>1. /\ pc'[d] = pc[d] /\ arg'[d] = arg[d] /\ field'[d] = field[d]
          /\ left'[d] = left[d] /\ right'[d] = right[d]
      BY <2>2 DEF OnlyCore
    <3>2. CoreInv(d)
      BY DEF TableInv
    <3>3. CASE Owns(d)
      <4>1. PICK q \in Pid : q = arg[d]
        BY <3>2, <3>3 DEF CoreInv, Owns
      <4>2. q # p /\ q \in Node \ {p}
        BY <2>2, <3>3, <4>1, Nodes
      <4>3. /\ status'[q] = status[q]
            /\ NotNull("process_list", q) => NotNull("process_list", q)'
            /\ NotNull("process_hash_list", q) => NotNull("process_hash_list", q)'
        BY <1>0, <4>2 DEF Field, TableTypeOK
      <4>4. arg'[d] = q
        BY <3>1, <4>1
      <4> QED BY <3>1, <3>2, <4>1, <4>3, <4>4 DEF CoreInv
    <3>4. CASE ~Owns(d)
      BY <3>1, <3>4 DEF CoreInv, Owns, InCreate
    <3> QED BY <3>3, <3>4
  <2> QED BY <2>1, <2>2
<1>5. Apart'
  BY DEF TableInv, Apart, OnlyCore, Owns
<1> QED BY <1>1, <1>2, <1>3, <1>4, <1>5 DEF TableInv

LEMMA CreateKeeps ==
    ASSUME TableInv, NEW c \in Core, raced' \in BOOLEAN, Create(c)
    PROVE  TableInv'
<1>0. TableTypeOK /\ PidInv
  BY DEF TableInv
<1>1. PICK p \in Pid : p = next_pid /\ next_pid' = p + 1
  BY <1>0, TableAssumption DEF Create, TableTypeOK, Pid
<1>2. status[p] = "none"
  BY <1>0, <1>1, TableAssumption DEF PidInv, Pid
<1>3. ASSUME NEW d \in Core \ {c}, Owns(d) PROVE arg[d] # p
  <2>1. CoreInv(d)
    BY DEF TableInv
  <2>2. status[arg[d]] \in {"new", "dying"}
    BY <1>3, <2>1 DEF CoreInv, Owns
  <2> QED BY <1>2, <2>2
<1>4. OnlyCore(c) /\ arg'[c] = p /\ status' = [status EXCEPT ![p] = "new"]
  BY <1>0, <1>1 DEF OnlyCore, Create, Go, TableTypeOK
<1>5. ASSUME NEW g \in Field, NEW n \in Node, n # p => NotNull(g, n)
      PROVE  NotNull(g, n)'
  <2>1. p \in Node /\ p # NULL
    BY Nodes
  <2>2. /\ next'[g][n] = IF n = p THEN p ELSE next[g][n]
        /\ prev'[g][n] = IF n = p THEN p ELSE prev[g][n]
    BY <1>0, <1>1, <2>1 DEF Create, TableTypeOK
  <2> QED BY <1>5, <2>1, <2>2 DEF NotNull
<1>6. TableTypeOK'
  BY <1>0, <1>1, Nodes, TableAssumption DEF Create, Go, TableTypeOK, locks, walk, Pid,
     InAdd
<1>7. CoreInv(c)'
  BY <1>0, <1>1, <1>4 DEF Create, Go, TableTypeOK, CoreInv, InAdd, InDel, InCreate
<1>8. next_pid' >= next_pid /\ p < next_pid' /\ next_pid' \in Int
  BY <1>1, TableAssumption DEF Pid
<1>9. "new" \in {"new", "live", "dying", "gone"}
  OBVIOUS
<1>10. \A g \in Field : NotNull(g, p)'
  BY <1>5, Nodes
<1>11. \A g \in Field, n \in Node \ {p} : NotNull(g, n) => NotNull(g, n)'
  BY <1>5
<1> QED BY <1>3, <1>4, <1>6, <1>7, <1>8, <1>9, <1>10, <1>11, StatusStep

LEMMA ListUnlockKeeps ==
    ASSUME TableInv, NEW c \in Core, raced' \in BOOLEAN, ListUnlock(c)
    PROVE  TableInv'
<1>0. TableTypeOK /\ PidInv /\ LiveInv /\ CoreInv(c) /\ Apart
  BY DEF TableInv
<1>1. PICK p \in Pid : p = arg[c] /\ status[p] = "new" /\ Owns(c)
  BY <1>0 DEF ListUnlock, CoreInv, Owns, InCreate
<1>2. \A d \in Core \ {c} : Owns(d) => arg[d] # p
  BY <1>0, <1>1 DEF Apart
<1>3. OnlyCore(c) /\ ~Owns(c)'
  BY <1>0 DEF OnlyCore, ListUnlock, Return, Go, TableTypeOK, Owns, InCreate, InAdd, InDel
<1>4. \A g \in Field, n \in Node : NotNull(g, n)' <=> NotNull(g, n)
  BY DEF ListUnlock, links, NotNull
<1>5. \A g \in Field : NotNull(g, p)
  BY <1>0, <1>1 DEF LiveInv
<1>6. TableTypeOK'
  BY <1>0, <1>1, Nodes DEF ListUnlock, Return, Go, TableTypeOK, links, Field
<1>7. CoreInv(c)'
  BY <1>3 DEF CoreInv, Owns, InCreate
<1>8. p \in Int /\ next_pid \in Int /\ p < next_pid
  <2>1. p \in Int /\ next_pid \in Int
    BY <1>0, TableAssumption DEF TableTypeOK, Pid
  <2> QED BY <1>0, <1>1, <2>1 DEF PidInv
<1>9. status' = [status EXCEPT ![p] = "live"] /\ next_pid' = next_pid
  BY <1>1 DEF ListUnlock
<1>10. /\ \A g \in Field, n \in Node \ {p} : NotNull(g, n) => NotNull(g, n)'
       /\ \A g \in Field : NotNull(g, p)'
       /\ next_pid' >= next_pid /\ p < next_pid' /\ next_pid' \in Int
  BY <1>4, <1>5, <1>8, <1>9, Nodes
<1>11. "live" \in {"new", "live", "dying", "gone"}
  OBVIOUS
<1> QED BY <1>2, <1>3, <1>6, <1>7, <1>9, <1>10, <1>11, StatusStep

LEMMA ExitKeeps ==
    ASSUME TableInv, NEW c \in Core, NEW p \in Pid, raced' \in BOOLEAN, Exit(c, p)
    PROVE  TableInv'
<1>0. TableTypeOK /\ PidInv /\ LiveInv
  BY DEF TableInv
<1>1. status[p] = "live"
  BY DEF Exit
<1>2. \A d \in Core \ {c} : Owns(d) => arg[d] # p
  BY <1>1 DEF TableInv, CoreInv, Owns
<1>3. OnlyCore(c) /\ (Owns(c)' => arg'[c] = p)
  BY <1>0 DEF OnlyCore, Exit, Go, TableTypeOK
<1>4. \A g \in Field, n \in Node : NotNull(g, n)' <=> NotNull(g, n)
  BY DEF Exit, links, NotNull
<1>5. \A g \in Field : NotNull(g, p)
  BY <1>0, <1>1 DEF LiveInv
<1>6. TableTypeOK'
  BY <1>0, Nodes DEF Exit, Go, TableTypeOK, links, locks, walk, InDel, Field
<1>7. CoreInv(c)'
  BY <1>0, <1>4, <1>5, Nodes DEF Exit, Go, TableTypeOK, CoreInv, InAdd, InDel, InCreate,
     Field
<1>8. p \in Int /\ next_pid \in Int /\ p < next_pid
  <2>1. p \in Int /\ next_pid \in Int
    BY <1>0, TableAssumption DEF TableTypeOK, Pid
  <2> QED BY <1>0, <1>1, <2>1 DEF PidInv
<1>9. status' = [status EXCEPT ![p] = "dying"] /\ next_pid' = next_pid
  BY DEF Exit
<1>10. /\ \A g \in Field, n \in Node \ {p} : NotNull(g, n) => NotNull(g, n)'
       /\ \A g \in Field : NotNull(g, p)'
       /\ next_pid' >= next_pid /\ p < next_pid' /\ next_pid' \in Int
  BY <1>4, <1>5, <1>8, <1>9, Nodes
<1>11. "dying" \in {"new", "live", "dying", "gone"}
  OBVIOUS
<1> QED BY <1>2, <1>3, <1>6, <1>7, <1>9, <1>10, <1>11, StatusStep

(* The poisoned entry is the core's own, in a list it has left.            *)
LEMMA PoisonKeeps ==
    ASSUME TableInv, NEW c \in Core, raced' \in BOOLEAN, Poison(c)
    PROVE  TableInv'
<1>0. TableTypeOK /\ PidInv /\ CoreInv(c) /\ Apart
  BY DEF TableInv
<1>1. PICK p \in Pid : p = arg[c] /\ status[p] = "dying" /\ Owns(c)
  BY <1>0 DEF Poison, CoreInv, Owns, InDel
<1>2. \A d \in Core \ {c} : Owns(d) => arg[d] # p
  BY <1>0, <1>1 DEF Apart
<1>3. ASSUME NEW g \in Field, NEW n \in Node, NotNull(g, n), n # p \/ g # field[c]
      PROVE  NotNull(g, n)'
  <2>1. field[c] \in Field /\ p \in Node /\ NULL \in Node
    BY <1>0, Nodes DEF TableTypeOK
  <2>2. next'[g][n] = next[g][n] /\ prev'[g][n] = prev[g][n]
    BY <1>0, <1>1, <1>3, <2>1 DEF Poison, Store, TableTypeOK
  <2> QED BY <1>3, <2>2 DEF NotNull
<1>4. \A g \in Field, n \in Node \ {p} : NotNull(g, n) => NotNull(g, n)'
  BY <1>3
<1>5. p \in Int /\ next_pid \in Int /\ p < next_pid /\ next_pid' = next_pid
  <2>1. p \in Int /\ next_pid \in Int /\ next_pid' = next_pid
    BY <1>0, TableAssumption DEF TableTypeOK, Pid, Poison
  <2> QED BY <1>0, <1>1, <2>1 DEF PidInv
<1>6. next_pid' >= next_pid /\ p < next_pid' /\ next_pid' \in Int
  BY <1>5
<1>7. next' \in [Field -> [Node -> Node]] /\ prev' \in [Field -> [Node -> Node]]
  BY <1>0, Nodes DEF Poison, Store, TableTypeOK
<1>8. /\ "dying" \in {"new", "live", "dying", "gone"} \ {"new", "live"}
      /\ "gone" \in {"new", "live", "dying", "gone"} \ {"new", "live"}
  OBVIOUS
<1>9. CASE field[c] = "process_list"
  <2>1. /\ field' = [field EXCEPT ![c] = "process_hash_list"]
        /\ pc' = [pc EXCEPT ![c] = "del"]
        /\ UNCHANGED <<status, arg, left, right, walk, locks, next_pid>>
    BY <1>9 DEF Poison, Go
  <2>2. status' = [status EXCEPT ![p] = "dying"]
    BY <1>0, <1>1, <2>1 DEF TableTypeOK
  <2>3. TableTypeOK' /\ OnlyCore(c) /\ arg'[c] = p
    BY <1>0, <1>1, <1>7, <2>1 DEF TableTypeOK, OnlyCore, walk, locks, Field, InDel
  <2>4. NotNull("process_hash_list", p)'
    <3>1. NotNull("process_hash_list", p)
      BY <1>0, <1>1 DEF CoreInv, Poison, InDel
    <3> QED BY <1>3, <1>9, <3>1, Nodes DEF Field
  <2>5. pc'[c] = "del" /\ field'[c] = "process_hash_list" /\ status'[p] = "dying"
    BY <1>0, <1>1, <2>1 DEF TableTypeOK
  <2>6. CoreInv(c)'
    BY <2>3, <2>4, <2>5 DEF CoreInv, InCreate, InAdd, InDel
  <2> QED BY <1>2, <1>4, <1>6, <1>8, <2>2, <2>3, <2>6, StatusStep
<1>10. CASE field[c] = "process_hash_list"
  <2>1. status' = [status EXCEPT ![p] = "gone"] /\ Return(c)
        /\ UNCHANGED <<locks, next_pid>>
    BY <1>1, <1>10 DEF Poison
  <2>2. TableTypeOK' /\ OnlyCore(c) /\ ~Owns(c)'
    BY <1>0, <1>1, <1>7, <2>1, Nodes DEF TableTypeOK, OnlyCore, Return, Go, locks, Field,
       Owns, InCreate, InAdd, InDel
  <2>3. CoreInv(c)'
    BY <2>2 DEF CoreInv, Owns, InCreate
  <2> QED BY <1>2, <1>4, <1>6, <1>8, <2>1, <2>2, <2>3, StatusStep
<1> QED BY <1>0, <1>9, <1>10 DEF TableTypeOK, Field

-----------------------------------------------------------------------------
LEMMA InitInv == TableInit => TableInv
<1> SUFFICES ASSUME TableInit PROVE TableInv
  OBVIOUS
<1>1. \A f \in Field, n \in Heads : next[f][n] = n /\ prev[f][n] = n
  BY Nodes DEF TableInit
<1>2. TableTypeOK
  <2>1. next \in [Field -> [Node -> Node]] /\ prev \in [Field -> [Node -> Node]]
    BY Nodes DEF TableInit
  <2>2. next_pid \in 1 .. MaxPid + 1
    BY TableAssumption DEF TableInit
  <2>3. /\ field \in [Core -> Field] /\ arg \in [Core -> Pid \cup {NULL}]
        /\ left \in [Core -> Node] /\ right \in [Core -> Node] /\ at \in [Core -> Node]
    BY Nodes DEF TableInit, Field
  <2>4. /\ status \in [Pid -> {"none", "new", "live", "dying", "gone"}]
        /\ known \in [Core -> BOOLEAN] /\ raced \in BOOLEAN
        /\ process_list_lock \in BOOLEAN /\ process_hash_lock \in BOOLEAN
    BY DEF TableInit
  <2> QED BY <2>1, <2>2, <2>3, <2>4 DEF TableInit, TableTypeOK
<1>3. HeadsInv
  BY <1>1, Nodes DEF HeadsInv, NotNull
<1>4. LiveInv /\ PidInv
  BY DEF TableInit, LiveInv, PidInv
<1>5. \A c \in Core : ~Owns(c) /\ CoreInv(c)
  BY DEF TableInit, Owns, CoreInv, InCreate, InAdd, InDel
<1>6. Apart
  <2>1. \A c, d \in Core : ~(Owns(c) /\ Owns(d))
    BY <1>5
  <2> QED BY <2>1 DEF Apart
<1> QED BY <1>2, <1>3, <1>4, <1>5, <1>6 DEF TableInv

LEMMA StepInv == TableInv /\ [TableNext]_tableVars => TableInv'
<1> SUFFICES ASSUME TableInv, [TableNext]_tableVars PROVE TableInv'
  OBVIOUS
<1>1. CASE UNCHANGED tableVars
  BY <1>1 DEF tableVars, links, locks, procs, walk, TableInv, TableTypeOK, HeadsInv,
     LiveInv, PidInv, NotNull, CoreInv, Apart, Owns
<1>2. CASE TableNext
  <2>1. raced' \in BOOLEAN
    BY <1>2 DEF TableNext, Overlap
  <2>2. PICK c \in Core : CreateStep(c) \/ ExitStep(c) \/ LookupStep(c)
    BY <1>2 DEF TableNext
  <2>3. CASE CreateStep(c)
    BY <2>1, <2>3, CreateKeeps, CreateQuiet, ListUnlockKeeps DEF CreateStep
  <2>4. CASE ExitStep(c)
    BY <2>1, <2>4, ExitKeeps, DelQuiet, PoisonKeeps DEF ExitStep
  <2>5. CASE LookupStep(c)
    BY <2>1, <2>5, LookupQuiet
  <2> QED BY <2>2, <2>3, <2>4, <2>5
<1> QED BY <1>1, <1>2

(* The invariant, for every number of cores, pids and buckets.             *)
THEOREM TableInvariant == TableSpec => []TableInv
<1> QED BY InitInv, StepInv, PTL DEF TableSpec

(* Every link is a head, a process or NULL, every process status and every *)
(* point of proc_create, proc_exit and get_process one of those the code   *)
(* has: the pointers never lead out of the table.                          *)
THEOREM TableTypeCorrect == TableSpec => []TableTypeOK
<1>1. TableInv => TableTypeOK
  BY DEF TableInv
<1> QED BY <1>1, TableInvariant, PTL

(* No list_add of proc_create and no list_del of proc_exit stores through  *)
(* NULL, whatever the removals that take no lock do to the lists.          *)
THEOREM NoStoreThroughNull == TableSpec => []NeverNull
<1>1. TableInv => NeverNull
  BY DEF TableInv, NeverNull, HeadsInv, LiveInv, CoreInv, NotNull
<1> QED BY <1>1, TableInvariant, PTL

-----------------------------------------------------------------------------
(* Where the cores are, and what that says of the locks: both insertions   *)
(* under both locks, the walks under the hash lock, the removals under     *)
(* none.                                                                   *)
InList == InAdd \cup {"hash_lock", "unlock", "list_unlock"}
InHash == InAdd \cup {"unlock", "walk"}

PlaceInv(c) ==
    /\ pc[c] \in {"idle", "list_lock", "hash_lock", "walk_lock", "walk"} =>
          field[c] = "process_list"
    /\ pc[c] \in {"unlock", "list_unlock"} => field[c] = "process_hash_list"
    /\ pc[c] \in InList => process_list_lock
    /\ pc[c] \in InHash => process_hash_lock
    /\ pc[c] \in {"walk_lock", "walk"} => arg[c] \in Pid

DyingInv ==
    \A p \in Pid : status[p] = "dying" => \E c \in Core : pc[c] \in InDel /\ arg[c] = p

PhaseInv ==
    /\ \A c \in Core : PlaceInv(c)
    /\ \A c, d \in Core : c # d => ~(pc[c] \in InList /\ pc[d] \in InList)
    /\ \A c, d \in Core : c # d => ~(pc[c] \in InHash /\ pc[d] \in InHash)
    /\ DyingInv
    /\ Overlap => raced

(* What a step does to a lock: nothing, take it, or leave it. *)
LockStep(was, is, in, now) ==
    \/ is = was /\ (now <=> in)
    \/ ~was /\ is /\ now
    \/ in /\ ~now

LEMMA PhaseStep ==
    ASSUME TableInv, PhaseInv, NEW c \in Core, OnlyCore(c), PlaceInv(c)',
           LockStep(process_list_lock, process_list_lock', pc[c] \in InList, pc'[c] \in InList),
           LockStep(process_hash_lock, process_hash_lock', pc[c] \in InHash, pc'[c] \in InHash),
           \A p \in Pid : status'[p] = "dying" =>
              status[p] = "dying" \/ (pc'[c] \in InDel /\ arg'[c] = p),
           pc[c] \in InDel =>
              (pc'[c] \in InDel /\ arg'[c] = arg[c]) \/ status'[arg[c]] # "dying",
           raced' = (raced \/ Overlap')
    PROVE  PhaseInv'
<1>1. \A d \in Core : PlaceInv(d)'
  <2> SUFFICES ASSUME NEW d \in Core, d # c PROVE PlaceInv(d)'
    OBVIOUS
  <2>1. /\ pc'[d] = pc[d] /\ field'[d] = field[d] /\ arg'[d] = arg[d]
    BY DEF OnlyCore
  <2>2. PlaceInv(d) /\ ~(pc[c] \in InList /\ pc[d] \in InList)
        /\ ~(pc[c] \in InHash /\ pc[d] \in InHash)
    BY DEF PhaseInv
  <2>3. pc[d] \in InList => process_list_lock'
    BY <2>2 DEF PlaceInv, LockStep
  <2>4. pc[d] \in InHash => process_hash_lock'
    BY <2>2 DEF PlaceInv, LockStep
  <2> QED BY <2>1, <2>2, <2>3, <2>4 DEF PlaceInv
<1>2. \A d, e \in Core : d # e => ~(pc'[d] \in InList /\ pc'[e] \in InList)
  <2>1. ASSUME NEW d \in Core \ {c} PROVE ~(pc'[c] \in InList /\ pc'[d] \in InList)
    BY DEF OnlyCore, PhaseInv, PlaceInv, LockStep
  <2> QED BY <2>1 DEF OnlyCore, PhaseInv
<1>3. \A d, e \in Core : d # e => ~(pc'[d] \in InHash /\ pc'[e] \in InHash)
  <2>1. ASSUME NEW d \in Core \ {c} PROVE ~(pc'[c] \in InHash /\ pc'[d] \in InHash)
    BY DEF OnlyCore, PhaseInv, PlaceInv, LockStep
  <2> QED BY <2>1 DEF OnlyCore, PhaseInv
<1>4. DyingInv'
  <2> SUFFICES ASSUME NEW p \in Pid, status'[p] = "dying", ~(pc'[c] \in InDel /\ arg'[c] = p)
               PROVE  \E d \in Core : pc'[d] \in InDel /\ arg'[d] = p
    BY DEF DyingInv
  <2>1. PICK d \in Core : pc[d] \in InDel /\ arg[d] = p
    BY DEF PhaseInv, DyingInv
  <2>2. d # c
    BY <2>1
  <2> QED BY <2>1, <2>2 DEF OnlyCore
<1> QED BY <1>1, <1>2, <1>3, <1>4 DEF PhaseInv

LEMMA PhaseNext ==
    ASSUME TableInv, PhaseInv, TableInv', TableNext
    PROVE  PhaseInv'
<1>0. TableTypeOK /\ TableTypeOK' /\ raced' = (raced \/ Overlap')
  BY DEF TableInv, TableNext
<1>1. PICK c \in Core : CreateStep(c) \/ ExitStep(c) \/ LookupStep(c)
  BY DEF TableNext
<1>2. PlaceInv(c) /\ CoreInv(c)
  BY DEF PhaseInv, TableInv
<1>3. CASE ListLock(c)
  <2>1. OnlyCore(c) /\ PlaceInv(c)'
    BY <1>0, <1>2, <1>3 DEF ListLock, OnlyCore, PlaceInv, CoreInv, InCreate, Field,
       TableTypeOK, Go, Return, links, locks, procs, walk, InAdd, InDel, InList, InHash
  <2>2. /\ LockStep(process_list_lock, process_list_lock', pc[c] \in InList, pc'[c] \in InList)
        /\ LockStep(process_hash_lock, process_hash_lock', pc[c] \in InHash, pc'[c] \in InHash)
    BY <1>0, <1>2, <1>3 DEF ListLock, PlaceInv, LockStep, TableTypeOK, Go, Return, links,
       locks, procs, walk, InAdd, InDel, InList, InHash
  <2>3. /\ \A e \in Pid : status'[e] = "dying" =>
             status[e] = "dying" \/ (pc'[c] \in InDel /\ arg'[c] = e)
        /\ pc[c] \in InDel =>
             (pc'[c] \in InDel /\ arg'[c] = arg[c]) \/ status'[arg[c]] # "dying"
    BY <1>0, <1>2, <1>3 DEF ListLock, CoreInv, InCreate, TableTypeOK, Go, Return, links,
       locks, procs, walk, InAdd, InDel, InList, InHash
  <2> QED BY <1>0, <2>1, <2>2, <2>3, PhaseStep
<1>4. CASE HashLock(c)
  <2>1. OnlyCore(c) /\ PlaceInv(c)'
    BY <1>0, <1>2, <1>4 DEF HashLock, OnlyCore, PlaceInv, CoreInv, InCreate, Field,
       TableTypeOK, Go, Return, links, locks, procs, walk, InAdd, InDel, InList, InHash
  <2>2. /\ LockStep(process_list_lock, process_list_lock', pc[c] \in InList, pc'[c] \in InList)
        /\ LockStep(process_hash_lock, process_hash_lock', pc[c] \in InHash, pc'[c] \in InHash)
    BY <1>0, <1>2, <1>4 DEF HashLock, PlaceInv, LockStep, TableTypeOK, Go, Return, links,
       locks, procs, walk, InAdd, InDel, InList, InHash
  <2>3. /\ \A e \in Pid : status'[e] = "dying" =>
             status[e] = "dying" \/ (pc'[c] \in InDel /\ arg'[c] = e)
        /\ pc[c] \in InDel =>
             (pc'[c] \in InDel /\ arg'[c] = arg[c]) \/ status'[arg[c]] # "dying"
    BY <1>0, <1>2, <1>4 DEF HashLock, CoreInv, InCreate, TableTypeOK, Go, Return, links,
       locks, procs, walk, InAdd, InDel, InList, InHash
  <2> QED BY <1>0, <2>1, <2>2, <2>3, PhaseStep
<1>5. CASE AddRead(c)
  <2>1. OnlyCore(c) /\ PlaceInv(c)'
    BY <1>0, <1>2, <1>5 DEF AddRead, OnlyCore, PlaceInv, CoreInv, InCreate, Field,
       TableTypeOK, Go, Return, links, locks, procs, walk, InAdd, InDel, InList, InHash
  <2>2. /\ LockStep(process_list_lock, process_list_lock', pc[c] \in InList, pc'[c] \in InList)
        /\ LockStep(process_hash_lock, process_hash_lock', pc[c] \in InHash, pc'[c] \in InHash)
    BY <1>0, <1>2, <1>5 DEF AddRead, PlaceInv, LockStep, TableTypeOK, Go, Return, links,
       locks, procs, walk, InAdd, InDel, InList, InHash
  <2>3. /\ \A e \in Pid : status'[e] = "dying" =>
             status[e] = "dying" \/ (pc'[c] \in InDel /\ arg'[c] = e)
        /\ pc[c] \in InDel =>
             (pc'[c] \in InDel /\ arg'[c] = arg[c]) \/ status'[arg[c]] # "dying"
    BY <1>0, <1>2, <1>5 DEF AddRead, CoreInv, InCreate, TableTypeOK, Go, Return, links,
       locks, procs, walk, InAdd, InDel, InList, InHash
  <2> QED BY <1>0, <2>1, <2>2, <2>3, PhaseStep
<1>6. CASE AddNextPrev(c)
  <2>1. OnlyCore(c) /\ PlaceInv(c)'
    BY <1>0, <1>2, <1>6 DEF AddNextPrev, OnlyCore, PlaceInv, CoreInv, InCreate, Field,
       TableTypeOK, Go, Return, links, locks, procs, walk, InAdd, InDel, InList, InHash
  <2>2. /\ LockStep(process_list_lock, process_list_lock', pc[c] \in InList, pc'[c] \in InList)
        /\ LockStep(process_hash_lock, process_hash_lock', pc[c] \in InHash, pc'[c] \in InHash)
    BY <1>0, <1>2, <1>6 DEF AddNextPrev, PlaceInv, LockStep, TableTypeOK, Go, Return,
       links, locks, procs, walk, InAdd, InDel, InList, InHash
  <2>3. /\ \A e \in Pid : status'[e] = "dying" =>
             status[e] = "dying" \/ (pc'[c] \in InDel /\ arg'[c] = e)
        /\ pc[c] \in InDel =>
             (pc'[c] \in InDel /\ arg'[c] = arg[c]) \/ status'[arg[c]] # "dying"
    BY <1>0, <1>2, <1>6 DEF AddNextPrev, CoreInv, InCreate, TableTypeOK, Go, Return, links,
       locks, procs, walk, InAdd, InDel, InList, InHash
  <2> QED BY <1>0, <2>1, <2>2, <2>3, PhaseStep
<1>7. CASE AddNewNext(c)
  <2>1. OnlyCore(c) /\ PlaceInv(c)'
    BY <1>0, <1>2, <1>7 DEF AddNewNext, OnlyCore, PlaceInv, CoreInv, InCreate, Field,
       TableTypeOK, Go, Return, links, locks, procs, walk, InAdd, InDel, InList, InHash
  <2>2. /\ LockStep(process_list_lock, process_list_lock', pc[c] \in InList, pc'[c] \in InList)
        /\ LockStep(process_hash_lock, process_hash_lock', pc[c] \in InHash, pc'[c] \in InHash)
    BY <1>0, <1>2, <1>7 DEF AddNewNext, PlaceInv, LockStep, TableTypeOK, Go, Return, links,
       locks, procs, walk, InAdd, InDel, InList, InHash
  <2>3. /\ \A e \in Pid : status'[e] = "dying" =>
             status[e] = "dying" \/ (pc'[c] \in InDel /\ arg'[c] = e)
        /\ pc[c] \in InDel =>
             (pc'[c] \in InDel /\ arg'[c] = arg[c]) \/ status'[arg[c]] # "dying"
    BY <1>0, <1>2, <1>7 DEF AddNewNext, CoreInv, InCreate, TableTypeOK, Go, Return, links,
       locks, procs, walk, InAdd, InDel, InList, InHash
  <2> QED BY <1>0, <2>1, <2>2, <2>3, PhaseStep
<1>8. CASE AddNewPrev(c)
  <2>1. OnlyCore(c) /\ PlaceInv(c)'
    BY <1>0, <1>2, <1>8 DEF AddNewPrev, OnlyCore, PlaceInv, CoreInv, InCreate, Field,
       TableTypeOK, Go, Return, links, locks, procs, walk, InAdd, InDel, InList, InHash
  <2>2. /\ LockStep(process_list_lock, process_list_lock', pc[c] \in InList, pc'[c] \in InList)
        /\ LockStep(process_hash_lock, process_hash_lock', pc[c] \in InHash, pc'[c] \in InHash)
    BY <1>0, <1>2, <1>8 DEF AddNewPrev, PlaceInv, LockStep, TableTypeOK, Go, Return, links,
       locks, procs, walk, InAdd, InDel, InList, InHash
  <2>3. /\ \A e \in Pid : status'[e] = "dying" =>
             status[e] = "dying" \/ (pc'[c] \in InDel /\ arg'[c] = e)
        /\ pc[c] \in InDel =>
             (pc'[c] \in InDel /\ arg'[c] = arg[c]) \/ status'[arg[c]] # "dying"
    BY <1>0, <1>2, <1>8 DEF AddNewPrev, CoreInv, InCreate, TableTypeOK, Go, Return, links,
       locks, procs, walk, InAdd, InDel, InList, InHash
  <2> QED BY <1>0, <2>1, <2>2, <2>3, PhaseStep
<1>9. CASE AddPrevNext(c)
  <2>1. OnlyCore(c) /\ PlaceInv(c)'
    BY <1>0, <1>2, <1>9 DEF AddPrevNext, OnlyCore, PlaceInv, CoreInv, InCreate, Field,
       TableTypeOK, Go, Return, links, locks, procs, walk, InAdd, InDel, InList, InHash
  <2>2. /\ LockStep(process_list_lock, process_list_lock', pc[c] \in InList, pc'[c] \in InList)
        /\ LockStep(process_hash_lock, process_hash_lock', pc[c] \in InHash, pc'[c] \in InHash)
    BY <1>0, <1>2, <1>9 DEF AddPrevNext, PlaceInv, LockStep, TableTypeOK, Go, Return,
       links, locks, procs, walk, InAdd, InDel, InList, InHash
  <2>3. /\ \A e \in Pid : status'[e] = "dying" =>
             status[e] = "dying" \/ (pc'[c] \in InDel /\ arg'[c] = e)
        /\ pc[c] \in InDel =>
             (pc'[c] \in InDel /\ arg'[c] = arg[c]) \/ status'[arg[c]] # "dying"
    BY <1>0, <1>2, <1>9 DEF AddPrevNext, CoreInv, InCreate, TableTypeOK, Go, Return, links,
       locks, procs, walk, InAdd, InDel, InList, InHash
  <2> QED BY <1>0, <2>1, <2>2, <2>3, PhaseStep
<1>10. CASE HashUnlock(c)
  <2>1. OnlyCore(c) /\ PlaceInv(c)'
    BY <1>0, <1>2, <1>10 DEF HashUnlock, OnlyCore, PlaceInv, CoreInv, InCreate, Field,
       TableTypeOK, Go, Return, links, locks, procs, walk, InAdd, InDel, InList, InHash
  <2>2. /\ LockStep(process_list_lock, process_list_lock', pc[c] \in InList, pc'[c] \in InList)
        /\ LockStep(process_hash_lock, process_hash_lock', pc[c] \in InHash, pc'[c] \in InHash)
    BY <1>0, <1>2, <1>10 DEF HashUnlock, PlaceInv, LockStep, TableTypeOK, Go, Return,
       links, locks, procs, walk, InAdd, InDel, InList, InHash
  <2>3. /\ \A e \in Pid : status'[e] = "dying" =>
             status[e] = "dying" \/ (pc'[c] \in InDel /\ arg'[c] = e)
        /\ pc[c] \in InDel =>
             (pc'[c] \in InDel /\ arg'[c] = arg[c]) \/ status'[arg[c]] # "dying"
    BY <1>0, <1>2, <1>10 DEF HashUnlock, CoreInv, InCreate, TableTypeOK, Go, Return, links,
       locks, procs, walk, InAdd, InDel, InList, InHash
  <2> QED BY <1>0, <2>1, <2>2, <2>3, PhaseStep
<1>11. CASE DelRead(c)
  <2>1. OnlyCore(c) /\ PlaceInv(c)'
    BY <1>0, <1>2, <1>11 DEF DelRead, OnlyCore, PlaceInv, CoreInv, InCreate, Field,
       TableTypeOK, Go, Return, links, locks, procs, walk, InAdd, InDel, InList, InHash
  <2>2. /\ LockStep(process_list_lock, process_list_lock', pc[c] \in InList, pc'[c] \in InList)
        /\ LockStep(process_hash_lock, process_hash_lock', pc[c] \in InHash, pc'[c] \in InHash)
    BY <1>0, <1>2, <1>11 DEF DelRead, PlaceInv, LockStep, TableTypeOK, Go, Return, links,
       locks, procs, walk, InAdd, InDel, InList, InHash
  <2>3. /\ \A e \in Pid : status'[e] = "dying" =>
             status[e] = "dying" \/ (pc'[c] \in InDel /\ arg'[c] = e)
        /\ pc[c] \in InDel =>
             (pc'[c] \in InDel /\ arg'[c] = arg[c]) \/ status'[arg[c]] # "dying"
    BY <1>0, <1>2, <1>11 DEF DelRead, CoreInv, InCreate, TableTypeOK, Go, Return, links,
       locks, procs, walk, InAdd, InDel, InList, InHash
  <2> QED BY <1>0, <2>1, <2>2, <2>3, PhaseStep
<1>12. CASE DelNextPrev(c)
  <2>1. OnlyCore(c) /\ PlaceInv(c)'
    BY <1>0, <1>2, <1>12 DEF DelNextPrev, OnlyCore, PlaceInv, CoreInv, InCreate, Field,
       TableTypeOK, Go, Return, links, locks, procs, walk, InAdd, InDel, InList, InHash
  <2>2. /\ LockStep(process_list_lock, process_list_lock', pc[c] \in InList, pc'[c] \in InList)
        /\ LockStep(process_hash_lock, process_hash_lock', pc[c] \in InHash, pc'[c] \in InHash)
    BY <1>0, <1>2, <1>12 DEF DelNextPrev, PlaceInv, LockStep, TableTypeOK, Go, Return,
       links, locks, procs, walk, InAdd, InDel, InList, InHash
  <2>3. /\ \A e \in Pid : status'[e] = "dying" =>
             status[e] = "dying" \/ (pc'[c] \in InDel /\ arg'[c] = e)
        /\ pc[c] \in InDel =>
             (pc'[c] \in InDel /\ arg'[c] = arg[c]) \/ status'[arg[c]] # "dying"
    BY <1>0, <1>2, <1>12 DEF DelNextPrev, CoreInv, InCreate, TableTypeOK, Go, Return,
       links, locks, procs, walk, InAdd, InDel, InList, InHash
  <2> QED BY <1>0, <2>1, <2>2, <2>3, PhaseStep
<1>13. CASE DelPrevNext(c)
  <2>1. OnlyCore(c) /\ PlaceInv(c)'
    BY <1>0, <1>2, <1>13 DEF DelPrevNext, OnlyCore, PlaceInv, CoreInv, InCreate, Field,
       TableTypeOK, Go, Return, links, locks, procs, walk, InAdd, InDel, InList, InHash
  <2>2. /\ LockStep(process_list_lock, process_list_lock', pc[c] \in InList, pc'[c] \in InList)
        /\ LockStep(process_hash_lock, process_hash_lock', pc[c] \in InHash, pc'[c] \in InHash)
    BY <1>0, <1>2, <1>13 DEF DelPrevNext, PlaceInv, LockStep, TableTypeOK, Go, Return,
       links, locks, procs, walk, InAdd, InDel, InList, InHash
  <2>3. /\ \A e \in Pid : status'[e] = "dying" =>
             status[e] = "dying" \/ (pc'[c] \in InDel /\ arg'[c] = e)
        /\ pc[c] \in InDel =>
             (pc'[c] \in InDel /\ arg'[c] = arg[c]) \/ status'[arg[c]] # "dying"
    BY <1>0, <1>2, <1>13 DEF DelPrevNext, CoreInv, InCreate, TableTypeOK, Go, Return,
       links, locks, procs, walk, InAdd, InDel, InList, InHash
  <2> QED BY <1>0, <2>1, <2>2, <2>3, PhaseStep
<1>14. CASE WalkLock(c)
  <2>1. OnlyCore(c) /\ PlaceInv(c)'
    BY <1>0, <1>2, <1>14 DEF WalkLock, OnlyCore, PlaceInv, CoreInv, InCreate, Field,
       TableTypeOK, Go, Return, links, locks, procs, walk, InAdd, InDel, InList, InHash
  <2>2. /\ LockStep(process_list_lock, process_list_lock', pc[c] \in InList, pc'[c] \in InList)
        /\ LockStep(process_hash_lock, process_hash_lock', pc[c] \in InHash, pc'[c] \in InHash)
    BY <1>0, <1>2, <1>14 DEF WalkLock, PlaceInv, LockStep, TableTypeOK, Go, Return, links,
       locks, procs, walk, InAdd, InDel, InList, InHash
  <2>3. /\ \A e \in Pid : status'[e] = "dying" =>
             status[e] = "dying" \/ (pc'[c] \in InDel /\ arg'[c] = e)
        /\ pc[c] \in InDel =>
             (pc'[c] \in InDel /\ arg'[c] = arg[c]) \/ status'[arg[c]] # "dying"
    BY <1>0, <1>2, <1>14 DEF WalkLock, CoreInv, InCreate, TableTypeOK, Go, Return, links,
       locks, procs, walk, InAdd, InDel, InList, InHash
  <2> QED BY <1>0, <2>1, <2>2, <2>3, PhaseStep
<1>15. CASE WalkStep(c)
  <2>1. OnlyCore(c) /\ PlaceInv(c)'
    BY <1>0, <1>2, <1>15 DEF WalkStep, OnlyCore, PlaceInv, CoreInv, InCreate, Field,
       TableTypeOK, Go, Return, links, locks, procs, walk, InAdd, InDel, InList, InHash
  <2>2. /\ LockStep(process_list_lock, process_list_lock', pc[c] \in InList, pc'[c] \in InList)
        /\ LockStep(process_hash_lock, process_hash_lock', pc[c] \in InHash, pc'[c] \in InHash)
    BY <1>0, <1>2, <1>15 DEF WalkStep, PlaceInv, LockStep, TableTypeOK, Go, Return, links,
       locks, procs, walk, InAdd, InDel, InList, InHash
  <2>3. /\ \A e \in Pid : status'[e] = "dying" =>
             status[e] = "dying" \/ (pc'[c] \in InDel /\ arg'[c] = e)
        /\ pc[c] \in InDel =>
             (pc'[c] \in InDel /\ arg'[c] = arg[c]) \/ status'[arg[c]] # "dying"
    BY <1>0, <1>2, <1>15 DEF WalkStep, CoreInv, InCreate, TableTypeOK, Go, Return, links,
       locks, procs, walk, InAdd, InDel, InList, InHash
  <2> QED BY <1>0, <2>1, <2>2, <2>3, PhaseStep
<1>16. CASE WalkEnd(c)
  <2>1. OnlyCore(c) /\ PlaceInv(c)'
    BY <1>0, <1>2, <1>16 DEF WalkEnd, OnlyCore, PlaceInv, CoreInv, InCreate, Field,
       TableTypeOK, Go, Return, links, locks, procs, walk, InAdd, InDel, InList, InHash
  <2>2. /\ LockStep(process_list_lock, process_list_lock', pc[c] \in InList, pc'[c] \in InList)
        /\ LockStep(process_hash_lock, process_hash_lock', pc[c] \in InHash, pc'[c] \in InHash)
    BY <1>0, <1>2, <1>16 DEF WalkEnd, PlaceInv, LockStep, TableTypeOK, Go, Return, links,
       locks, procs, walk, InAdd, InDel, InList, InHash
  <2>3. /\ \A e \in Pid : status'[e] = "dying" =>
             status[e] = "dying" \/ (pc'[c] \in InDel /\ arg'[c] = e)
        /\ pc[c] \in InDel =>
             (pc'[c] \in InDel /\ arg'[c] = arg[c]) \/ status'[arg[c]] # "dying"
    BY <1>0, <1>2, <1>16 DEF WalkEnd, CoreInv, InCreate, TableTypeOK, Go, Return, links,
       locks, procs, walk, InAdd, InDel, InList, InHash
  <2> QED BY <1>0, <2>1, <2>2, <2>3, PhaseStep
<1>17. CASE Create(c)
  <2>1. OnlyCore(c) /\ PlaceInv(c)'
    BY <1>0, <1>2, <1>17 DEF Create, OnlyCore, PlaceInv, CoreInv, InCreate, Field,
       TableTypeOK, Go, Return, links, locks, procs, walk, InAdd, InDel, InList, InHash
  <2>2. /\ LockStep(process_list_lock, process_list_lock', pc[c] \in InList, pc'[c] \in InList)
        /\ LockStep(process_hash_lock, process_hash_lock', pc[c] \in InHash, pc'[c] \in InHash)
    BY <1>0, <1>2, <1>17 DEF Create, PlaceInv, LockStep, TableTypeOK, Go, Return, links,
       locks, procs, walk, InAdd, InDel, InList, InHash
  <2>3. /\ \A e \in Pid : status'[e] = "dying" =>
             status[e] = "dying" \/ (pc'[c] \in InDel /\ arg'[c] = e)
        /\ pc[c] \in InDel =>
             (pc'[c] \in InDel /\ arg'[c] = arg[c]) \/ status'[arg[c]] # "dying"
    BY <1>0, <1>2, <1>17 DEF Create, CoreInv, InCreate, TableTypeOK, Go, Return, links,
       locks, procs, walk, InAdd, InDel, InList, InHash
  <2> QED BY <1>0, <2>1, <2>2, <2>3, PhaseStep
<1>18. CASE ListUnlock(c)
  <2>1. OnlyCore(c) /\ PlaceInv(c)'
    BY <1>0, <1>2, <1>18 DEF ListUnlock, OnlyCore, PlaceInv, CoreInv, InCreate, Field,
       TableTypeOK, Go, Return, links, locks, procs, walk, InAdd, InDel, InList, InHash
  <2>2. /\ LockStep(process_list_lock, process_list_lock', pc[c] \in InList, pc'[c] \in InList)
        /\ LockStep(process_hash_lock, process_hash_lock', pc[c] \in InHash, pc'[c] \in InHash)
    BY <1>0, <1>2, <1>18 DEF ListUnlock, PlaceInv, LockStep, TableTypeOK, Go, Return,
       links, locks, procs, walk, InAdd, InDel, InList, InHash
  <2>3. /\ \A e \in Pid : status'[e] = "dying" =>
             status[e] = "dying" \/ (pc'[c] \in InDel /\ arg'[c] = e)
        /\ pc[c] \in InDel =>
             (pc'[c] \in InDel /\ arg'[c] = arg[c]) \/ status'[arg[c]] # "dying"
    BY <1>0, <1>2, <1>18 DEF ListUnlock, CoreInv, InCreate, TableTypeOK, Go, Return, links,
       locks, procs, walk, InAdd, InDel, InList, InHash
  <2> QED BY <1>0, <2>1, <2>2, <2>3, PhaseStep
<1>19. CASE Poison(c)
  <2>1. OnlyCore(c) /\ PlaceInv(c)'
    BY <1>0, <1>2, <1>19 DEF Poison, OnlyCore, PlaceInv, CoreInv, InCreate, Field,
       TableTypeOK, Go, Return, links, locks, procs, walk, InAdd, InDel, InList, InHash
  <2>2. /\ LockStep(process_list_lock, process_list_lock', pc[c] \in InList, pc'[c] \in InList)
        /\ LockStep(process_hash_lock, process_hash_lock', pc[c] \in InHash, pc'[c] \in InHash)
    BY <1>0, <1>2, <1>19 DEF Poison, PlaceInv, LockStep, TableTypeOK, Go, Return, links,
       locks, procs, walk, InAdd, InDel, InList, InHash
  <2>3. /\ \A e \in Pid : status'[e] = "dying" =>
             status[e] = "dying" \/ (pc'[c] \in InDel /\ arg'[c] = e)
        /\ pc[c] \in InDel =>
             (pc'[c] \in InDel /\ arg'[c] = arg[c]) \/ status'[arg[c]] # "dying"
    BY <1>0, <1>2, <1>19 DEF Poison, CoreInv, InCreate, TableTypeOK, Go, Return, links,
       locks, procs, walk, InAdd, InDel, InList, InHash
  <2> QED BY <1>0, <2>1, <2>2, <2>3, PhaseStep
<1>20. ASSUME NEW p \in Pid, Exit(c, p) PROVE PhaseInv'
  <2>1. OnlyCore(c) /\ PlaceInv(c)'
    BY <1>0, <1>2, <1>20 DEF Exit, OnlyCore, PlaceInv, CoreInv, InCreate, Field,
       TableTypeOK, Go, Return, links, locks, procs, walk, InAdd, InDel, InList, InHash
  <2>2. /\ LockStep(process_list_lock, process_list_lock', pc[c] \in InList, pc'[c] \in InList)
        /\ LockStep(process_hash_lock, process_hash_lock', pc[c] \in InHash, pc'[c] \in InHash)
    BY <1>0, <1>2, <1>20 DEF Exit, PlaceInv, LockStep, TableTypeOK, Go, Return, links,
       locks, procs, walk, InAdd, InDel, InList, InHash
  <2>3. /\ \A e \in Pid : status'[e] = "dying" =>
             status[e] = "dying" \/ (pc'[c] \in InDel /\ arg'[c] = e)
        /\ pc[c] \in InDel =>
             (pc'[c] \in InDel /\ arg'[c] = arg[c]) \/ status'[arg[c]] # "dying"
    BY <1>0, <1>2, <1>20 DEF Exit, CoreInv, InCreate, TableTypeOK, Go, Return, links,
       locks, procs, walk, InAdd, InDel, InList, InHash
  <2> QED BY <1>0, <2>1, <2>2, <2>3, PhaseStep
<1>21. ASSUME NEW p \in Pid, Lookup(c, p) PROVE PhaseInv'
  <2>1. OnlyCore(c) /\ PlaceInv(c)'
    BY <1>0, <1>2, <1>21 DEF Lookup, OnlyCore, PlaceInv, CoreInv, InCreate, Field,
       TableTypeOK, Go, Return, links, locks, procs, walk, InAdd, InDel, InList, InHash
  <2>2. /\ LockStep(process_list_lock, process_list_lock', pc[c] \in InList, pc'[c] \in InList)
        /\ LockStep(process_hash_lock, process_hash_lock', pc[c] \in InHash, pc'[c] \in InHash)
    BY <1>0, <1>2, <1>21 DEF Lookup, PlaceInv, LockStep, TableTypeOK, Go, Return, links,
       locks, procs, walk, InAdd, InDel, InList, InHash
  <2>3. /\ \A e \in Pid : status'[e] = "dying" =>
             status[e] = "dying" \/ (pc'[c] \in InDel /\ arg'[c] = e)
        /\ pc[c] \in InDel =>
             (pc'[c] \in InDel /\ arg'[c] = arg[c]) \/ status'[arg[c]] # "dying"
    BY <1>0, <1>2, <1>21 DEF Lookup, CoreInv, InCreate, TableTypeOK, Go, Return, links,
       locks, procs, walk, InAdd, InDel, InList, InHash
  <2> QED BY <1>0, <2>1, <2>2, <2>3, PhaseStep
<1> QED BY <1>1, <1>3, <1>4, <1>5, <1>6, <1>7, <1>8, <1>9, <1>10, <1>11, <1>12, <1>13, <1>14, <1>15, <1>16, <1>17, <1>18, <1>19, <1>20, <1>21
  DEF CreateStep, ExitStep, LookupStep

LEMMA PhaseInit == TableInit => PhaseInv
<1> SUFFICES ASSUME TableInit PROVE PhaseInv
  OBVIOUS
<1>1. \A c \in Core : pc[c] = "idle" /\ field[c] = "process_list"
  BY DEF TableInit
<1>2. DyingInv
  BY DEF TableInit, DyingInv
<1>3. ~Overlap
  BY <1>1 DEF Overlap, InDel
<1> QED BY <1>1, <1>2, <1>3 DEF PhaseInv, PlaceInv, InList, InHash, InAdd

LEMMA PhaseAlways == TableSpec => []PhaseInv
<1>1. TableInv /\ TableInv' /\ PhaseInv /\ [TableNext]_tableVars => PhaseInv'
  <2>1. TableInv /\ TableInv' /\ PhaseInv /\ TableNext => PhaseInv'
    BY PhaseNext
  <2>2. PhaseInv /\ UNCHANGED tableVars => PhaseInv'
    BY DEF tableVars, links, locks, procs, walk, PhaseInv, PlaceInv, DyingInv, Overlap
  <2> QED BY <2>1, <2>2
<1> QED BY <1>1, PhaseInit, TableInvariant, PTL DEF TableSpec

-----------------------------------------------------------------------------
(* Field f of the process of core c is in its list: proc_create has stored *)
(* the entry in front, or proc_exit has not unlinked it yet.               *)
Linked(c, f) ==
    \/ pc[c] \in InCreate /\ Entered(c, f)
    \/ /\ pc[c] \in InDel
       /\ \/ field[c] = f /\ pc[c] # "poison"
          \/ field[c] = "process_list" /\ f = "process_hash_list"

InRing(f, p) == status[p] = "live" \/ \E c \in Core : arg[c] = p /\ Linked(c, f)

(* The k-th node of the ring that starts at head h and goes through q.     *)
Nth(q, n, h, k) == IF k \in 1 .. n THEN q[k] ELSE h

(* Core c has stored the prev of the node after the k-th and not yet the   *)
(* next that goes with it.                                                 *)
Halfway(c, f, h, n, q, k) ==
    /\ field[c] = f
    /\ \/ pc[c] \in {"add_new_next", "add_new_prev", "add_prev_next"} /\ k = 0 /\ left[c] = h
       \/ pc[c] = "del_prev_next" /\ Nth(q, n, h, k) = arg[c]

(* The links of field f lead from head h through q and back, next at every *)
(* moment, prev except where a core is halfway.                            *)
Ring(f, h, n, q) ==
    /\ \A i, j \in 1 .. n : q[i] = q[j] => i = j
    /\ \A p \in Pid : (\E k \in 1 .. n : q[k] = p) <=> InRing(f, p) /\ ListHead(f, p) = h
    /\ \A k \in 0 .. n : next[f][Nth(q, n, h, k)] = Nth(q, n, h, k + 1)
    /\ \A k \in 0 .. n :
          \/ prev[f][Nth(q, n, h, k + 1)] = Nth(q, n, h, k)
          \/ \E c \in Core : Halfway(c, f, h, n, q, k)

(* A walk on the ring of h has not passed what it looks for.               *)
WalkAt(c, h, n, q) ==
    pc[c] = "walk" /\ ListHead("process_hash_list", arg[c]) = h =>
        \E k \in 1 .. n + 1 :
            at[c] = Nth(q, n, h, k) /\ \A j \in 1 .. k - 1 : q[j] # arg[c]

OneRing(f, h) ==
    \E n \in Nat : \E q \in [1 .. n -> Pid] :
        /\ Ring(f, h, n, q)
        /\ f = "process_hash_list" => \A c \in Core : WalkAt(c, h, n, q)

Old(n) == n \in Pid => status[n] # "none"

(* What core c has read is still true, and what it has stored is there.    *)
LinkInv(c) ==
    LET f == field[c] IN
    /\ pc[c] \in InAdd \ {"add"} =>
          left[c] = ListHead(f, arg[c]) /\ right[c] = next[f][left[c]] /\ Old(right[c])
    /\ pc[c] \in {"add_new_next", "add_new_prev", "add_prev_next"} => prev[f][right[c]] = arg[c]
    /\ pc[c] \in {"add_new_prev", "add_prev_next"} => next[f][arg[c]] = right[c]
    /\ pc[c] = "add_prev_next" => prev[f][arg[c]] = left[c]
    /\ pc[c] \in {"del_next_prev", "del_prev_next"} =>
          left[c] = prev[f][arg[c]] /\ right[c] = next[f][arg[c]] /\ Old(right[c])
    /\ pc[c] = "del_prev_next" => prev[f][right[c]] = left[c]

RingInv ==
    ~raced =>
        /\ \A c \in Core : LinkInv(c)
        /\ \A f \in Field : \A h \in HeadsOf(f) : OneRing(f, h)

-----------------------------------------------------------------------------
LEMMA NthFacts ==
    ASSUME NEW n \in Nat, NEW q \in [1 .. n -> Pid], NEW h \in Heads,
           \A i, j \in 1 .. n : q[i] = q[j] => i = j
    PROVE  /\ Nth(q, n, h, 0) = h /\ Nth(q, n, h, n + 1) = h
           /\ \A k \in 1 .. n : Nth(q, n, h, k) = q[k] /\ q[k] \in Pid /\ q[k] # h
           /\ \A k \in Nat : Nth(q, n, h, k) \in Node
           /\ \A j, k \in 0 .. n : Nth(q, n, h, j) = Nth(q, n, h, k) => j = k
           /\ \A j, k \in 1 .. n + 1 : Nth(q, n, h, j) = Nth(q, n, h, k) => j = k
<1>1. h \in Node /\ h \notin Pid /\ Pid \subseteq Node
  BY TableAssumption DEF Heads, Pid, Node
<1>2. /\ \A k \in 1 .. n : Nth(q, n, h, k) = q[k] /\ q[k] \in Pid /\ q[k] # h
      /\ \A k \in Int : k \notin 1 .. n => Nth(q, n, h, k) = h
  BY <1>1 DEF Nth
<1>3. \A j, k \in 0 .. n + 1 : j \in 1 .. n \/ k \in 1 .. n =>
         (Nth(q, n, h, j) = Nth(q, n, h, k) => j = k)
  <2> TAKE j, k \in 0 .. n + 1
  <2>1. CASE j \in 1 .. n /\ k \in 1 .. n
    BY <1>2, <2>1
  <2>2. CASE ~(j \in 1 .. n /\ k \in 1 .. n)
    BY <1>1, <1>2, <2>2
  <2> QED BY <2>1, <2>2
<1> QED BY <1>1, <1>2, <1>3

(* Whoever inserts or removes is alone at it as long as nothing has raced. *)
LEMMA Alone ==
    ASSUME PhaseInv, ~raced, NEW c \in Core, NEW d \in Core \ {c},
           pc[c] \in InAdd \cup InDel
    PROVE  pc[d] \notin InAdd \cup InDel \cup {"walk"}
<1>1. ~Overlap
  BY DEF PhaseInv
<1>2. CASE pc[c] \in InDel
  BY <1>1, <1>2 DEF Overlap
<1>3. CASE pc[c] \in InAdd
  <2>1. pc[d] \notin InDel
    BY <1>1, <1>3 DEF Overlap
  <2>2. pc[c] \in InHash
    BY <1>3 DEF InHash
  <2>3. pc[d] \notin InHash
    BY <2>2 DEF PhaseInv
  <2> QED BY <2>1, <2>3 DEF InHash
<1> QED BY <1>2, <1>3

(* What core c contributes to the members of the lists. *)
Mine(c, f, p) == status[p] = "live" \/ (arg[c] = p /\ Linked(c, f))

LEMMA Members ==
    ASSUME NEW c \in Core, OnlyCore(c), NEW f \in Field, NEW p \in Pid
    PROVE  /\ InRing(f, p) <=>
                Mine(c, f, p) \/ \E d \in Core \ {c} : arg[d] = p /\ Linked(d, f)
           /\ InRing(f, p)' <=>
                Mine(c, f, p)' \/ \E d \in Core \ {c} : arg[d] = p /\ Linked(d, f)
<1>1. \A d \in Core \ {c} : (arg[d] = p /\ Linked(d, f))' <=> arg[d] = p /\ Linked(d, f)
  BY DEF OnlyCore, Linked, Entered
<1> QED BY <1>1 DEF InRing, Mine

(* A process is in the lists only as core c says, if c owns it. *)
LEMMA OwnMember ==
    ASSUME TableInv, PhaseInv, NEW c \in Core, Owns(c), NEW f \in Field
    PROVE  arg[c] \in Pid /\ (InRing(f, arg[c]) <=> Linked(c, f))
<1>1. arg[c] \in Pid /\ status[arg[c]] # "live"
  BY DEF TableInv, CoreInv, Owns
<1>2. \A d \in Core \ {c} : arg[d] = arg[c] => ~Linked(d, f)
  BY DEF TableInv, Apart, Owns, Linked
<1> QED BY <1>1, <1>2 DEF InRing

(* Members of the lists have got a pid. *)
LEMMA MembersOld ==
    ASSUME TableInv, NEW f \in Field, NEW p \in Pid, InRing(f, p)
    PROVE  status[p] # "none"
BY DEF TableInv, CoreInv, InRing, Linked

LEMMA HeadFacts ==
    /\ \A f \in Field : HeadsOf(f) \subseteq Heads
    /\ \A h \in Heads : h \in Node /\ h \notin Pid
<1>1. \A f \in Field : HeadsOf(f) \subseteq Heads
  BY Nodes DEF HeadsOf
<1>2. \A h \in Heads : h \in Node /\ h \notin Pid
  BY TableAssumption DEF Heads, Pid, Node
<1> QED BY <1>1, <1>2

(* The node after a member, or after the head, is a member or the head.    *)
LEMMA RingNext ==
    ASSUME TableInv, NEW f \in Field, NEW h \in Heads, NEW n \in Nat,
           NEW q \in [1 .. n -> Pid], Ring(f, h, n, q), NEW k \in 0 .. n + 1
    PROVE  /\ Nth(q, n, h, k) \in Node /\ Old(Nth(q, n, h, k))
           /\ Nth(q, n, h, k) = h \/ (Nth(q, n, h, k) \in Pid /\ InRing(f, Nth(q, n, h, k)))
<1>1. Nth(q, n, h, k) \in Node
  BY NthFacts DEF Ring
<1>2. CASE k \in 1 .. n
  <2>1. q[k] \in Pid /\ InRing(f, q[k]) /\ Nth(q, n, h, k) = q[k]
    BY <1>2 DEF Ring, Nth
  <2> QED BY <1>1, <2>1, MembersOld DEF Old
<1>3. CASE k \notin 1 .. n
  BY <1>1, <1>3, Nodes DEF Nth, Old, Heads, Pid
<1> QED BY <1>2, <1>3

(* No step takes a status back to "none". *)
StatusGrows == \A p \in Pid : status[p] # "none" => status'[p] # "none"

(* Core d relies on links that the step of core c does not touch. *)
LEMMA LinkOther ==
    ASSUME TableInv, NEW c \in Core, OnlyCore(c), StatusGrows,
           NEW d \in Core \ {c}, LinkInv(d),
           pc[d] \in InAdd \cup InDel =>
              \A f \in Field, n \in Node : Old(n) =>
                 next'[f][n] = next[f][n] /\ prev'[f][n] = prev[f][n]
    PROVE  LinkInv(d)'
<1>1. /\ pc'[d] = pc[d] /\ arg'[d] = arg[d] /\ field'[d] = field[d]
      /\ left'[d] = left[d] /\ right'[d] = right[d]
  BY DEF OnlyCore
<1>2. \A n \in Node : Old(n) => Old(n)'
  BY DEF StatusGrows, Old
<1>3. field[d] \in Field /\ left[d] \in Node /\ right[d] \in Node
  BY DEF TableInv, TableTypeOK
<1>4. CASE pc[d] \notin InAdd \cup InDel
  BY <1>1, <1>4 DEF LinkInv, InAdd, InDel
<1>5. CASE pc[d] \in InAdd \cup InDel
  <2>1. arg[d] \in Node /\ Old(arg[d])
    BY <1>5, Nodes DEF TableInv, CoreInv, InCreate, Old
  <2>2. \A f \in Field : ListHead(f, arg[d]) \in Node /\ Old(ListHead(f, arg[d]))
    <3>1. arg[d] \in Pid \cup {NULL}
      BY DEF TableInv, TableTypeOK
    <3> QED BY <3>1, Nodes, HeadFacts DEF Old
  <2>3. CASE pc[d] \in InAdd \ {"add"}
    <3>1. Old(left[d]) /\ Old(right[d])
      BY <1>3, <2>2, <2>3 DEF LinkInv
    <3> QED BY <1>1, <1>2, <1>3, <1>5, <2>1, <2>3, <3>1 DEF LinkInv, InAdd, InDel
  <2>4. CASE pc[d] \in {"del_next_prev", "del_prev_next"}
    <3>1. Old(right[d])
      BY <2>4 DEF LinkInv
    <3> QED BY <1>1, <1>2, <1>3, <1>5, <2>1, <2>4, <3>1 DEF LinkInv, InAdd, InDel
  <2>5. CASE pc[d] \in {"add", "del", "poison"}
    BY <1>1, <2>5 DEF LinkInv, InAdd, InDel
  <2> QED BY <1>5, <2>3, <2>4, <2>5 DEF InAdd, InDel
<1> QED BY <1>4, <1>5

(* A step of core c leaves the ring of h as it is: the same members, the   *)
(* same links, but for a prev it leaves halfway.                           *)
LEMMA RingFrame ==
    ASSUME NEW c \in Core, OnlyCore(c), NEW f \in Field, NEW h \in Heads, NEW n \in Nat,
           NEW q \in [1 .. n -> Pid], Ring(f, h, n, q),
           \A p \in Pid : ListHead(f, p) = h => (Mine(c, f, p)' <=> Mine(c, f, p)),
           \A k \in 0 .. n : next'[f][Nth(q, n, h, k)] = next[f][Nth(q, n, h, k)],
           \A k \in 0 .. n :
              \/ prev'[f][Nth(q, n, h, k + 1)] = prev[f][Nth(q, n, h, k + 1)]
              \/ Halfway(c, f, h, n, q, k)',
           \A k \in 0 .. n : Halfway(c, f, h, n, q, k) => Halfway(c, f, h, n, q, k)'
    PROVE  Ring(f, h, n, q)'
<1>1. \A p \in Pid : InRing(f, p)' /\ ListHead(f, p) = h <=> InRing(f, p) /\ ListHead(f, p) = h
  BY Members
<1>2. \A d \in Core \ {c} : \A k \in 0 .. n : Halfway(d, f, h, n, q, k)' <=> Halfway(d, f, h, n, q, k)
  BY DEF OnlyCore, Halfway
<1>3. \A p \in Pid : (\E k \in 1 .. n : q[k] = p) <=> InRing(f, p)' /\ ListHead(f, p) = h
  BY <1>1 DEF Ring
<1>4. \A k \in 0 .. n : next'[f][Nth(q, n, h, k)] = Nth(q, n, h, k + 1)
  BY DEF Ring
<1>5. \A k \in 0 .. n :
         \/ prev'[f][Nth(q, n, h, k + 1)] = Nth(q, n, h, k)
         \/ \E d \in Core : Halfway(d, f, h, n, q, k)'
  <2> TAKE k \in 0 .. n
  <2>1. CASE Halfway(c, f, h, n, q, k)'
    BY <2>1
  <2>2. CASE ~Halfway(c, f, h, n, q, k)'
    <3>1. prev'[f][Nth(q, n, h, k + 1)] = prev[f][Nth(q, n, h, k + 1)]
      BY <2>2
    <3>2. ~Halfway(c, f, h, n, q, k)
      BY <2>2
    <3> QED BY <1>2, <3>1, <3>2 DEF Ring
  <2> QED BY <2>1, <2>2
<1>6. \A i, j \in 1 .. n : q[i] = q[j] => i = j
  BY DEF Ring
<1> QED BY <1>3, <1>4, <1>5, <1>6 DEF Ring, ListHead, Bucket, Nth

LEMMA WalkFrame ==
    ASSUME NEW c \in Core, OnlyCore(c), NEW d \in Core \ {c}, at'[d] = at[d],
           NEW h, NEW n \in Nat, NEW q \in [1 .. n -> Pid], WalkAt(d, h, n, q)
    PROVE  WalkAt(d, h, n, q)'
BY DEF OnlyCore, WalkAt, ListHead, Bucket, Nth

-----------------------------------------------------------------------------
(* What keeps every ring as it is: a step of core c that changes neither   *)
(* the members nor their links, but for a prev it leaves halfway.          *)
StillMembers(c) == \A f \in Field, p \in Pid : Mine(c, f, p)' <=> Mine(c, f, p)

StillWalk(c) ==
    \A h \in HeadsOf("process_hash_list"), n \in Nat : \A q \in [1 .. n -> Pid] :
        Ring("process_hash_list", h, n, q) /\ WalkAt(c, h, n, q) => WalkAt(c, h, n, q)'

LEMMA StillRing ==
    ASSUME RingInv, ~raced, NEW c \in Core, OnlyCore(c),
           \A d \in Core \ {c} : at'[d] = at[d],
           StillMembers(c), StillWalk(c),
           NEW f \in Field, NEW h \in HeadsOf(f),
           ASSUME NEW n \in Nat, NEW q \in [1 .. n -> Pid], Ring(f, h, n, q), NEW k \in 0 .. n
           PROVE  /\ next'[f][Nth(q, n, h, k)] = next[f][Nth(q, n, h, k)]
                  /\ \/ prev'[f][Nth(q, n, h, k + 1)] = prev[f][Nth(q, n, h, k + 1)]
                     \/ Halfway(c, f, h, n, q, k)'
                  /\ Halfway(c, f, h, n, q, k) => Halfway(c, f, h, n, q, k)'
    PROVE  OneRing(f, h)'
<1>0. PICK n \in Nat : \E q \in [1 .. n -> Pid] :
         /\ Ring(f, h, n, q)
         /\ f = "process_hash_list" => \A d \in Core : WalkAt(d, h, n, q)
  BY DEF RingInv, OneRing
<1>1. PICK q \in [1 .. n -> Pid] :
         /\ Ring(f, h, n, q)
         /\ f = "process_hash_list" => \A d \in Core : WalkAt(d, h, n, q)
  BY <1>0
<1>2. h \in Heads
  BY HeadFacts
<1>3. /\ \A k \in 0 .. n : next'[f][Nth(q, n, h, k)] = next[f][Nth(q, n, h, k)]
      /\ \A k \in 0 .. n :
            \/ prev'[f][Nth(q, n, h, k + 1)] = prev[f][Nth(q, n, h, k + 1)]
            \/ Halfway(c, f, h, n, q, k)'
      /\ \A k \in 0 .. n : Halfway(c, f, h, n, q, k) => Halfway(c, f, h, n, q, k)'
  BY <1>1
<1>4. \A p \in Pid : ListHead(f, p) = h => (Mine(c, f, p)' <=> Mine(c, f, p))
  BY DEF StillMembers
<1>5. Ring(f, h, n, q)'
  BY <1>1, <1>2, <1>3, <1>4, RingFrame
<1>6. f = "process_hash_list" => \A d \in Core : WalkAt(d, h, n, q)'
  <2> SUFFICES ASSUME f = "process_hash_list", NEW d \in Core PROVE WalkAt(d, h, n, q)'
    OBVIOUS
  <2>1. CASE d = c
    BY <1>1, <2>1 DEF StillWalk
  <2>2. CASE d # c
    BY <1>1, <2>2, WalkFrame
  <2> QED BY <2>1, <2>2
<1> QED BY <1>5, <1>6 DEF OneRing

(* Core c touches no link, ... *)
LEMMA QuietRing ==
    ASSUME RingInv, ~raced, NEW c \in Core, OnlyCore(c), UNCHANGED links,
           pc[c] \notin {"add_new_next", "add_new_prev", "add_prev_next", "del_prev_next"},
           \A d \in Core \ {c} : at'[d] = at[d], StillMembers(c), StillWalk(c)
    PROVE  \A f \in Field : \A h \in HeadsOf(f) : OneRing(f, h)'
<1> TAKE f \in Field
<1> TAKE h \in HeadsOf(f)
<1>1. ASSUME NEW n \in Nat, NEW q \in [1 .. n -> Pid], Ring(f, h, n, q), NEW k \in 0 .. n
      PROVE  /\ next'[f][Nth(q, n, h, k)] = next[f][Nth(q, n, h, k)]
             /\ \/ prev'[f][Nth(q, n, h, k + 1)] = prev[f][Nth(q, n, h, k + 1)]
                \/ Halfway(c, f, h, n, q, k)'
             /\ Halfway(c, f, h, n, q, k) => Halfway(c, f, h, n, q, k)'
  BY DEF links, Halfway
<1> QED BY <1>1, StillRing

(* ... or only those of an entry x that is in no list it touches.          *)
LEMMA AsideRing ==
    ASSUME TableInv, RingInv, ~raced, NEW c \in Core, OnlyCore(c), NEW x \in Pid,
           \A f \in Field : \/ ~InRing(f, x)
                            \/ next'[f] = next[f] /\ prev'[f] = prev[f],
           \A f \in Field, n \in Node \ {x} :
              next'[f][n] = next[f][n] /\ prev'[f][n] = prev[f][n],
           \A f \in Field, h \in Heads, n \in Nat : \A q \in [1 .. n -> Pid] : \A k \in 0 .. n :
              Halfway(c, f, h, n, q, k) => Halfway(c, f, h, n, q, k)',
           \A d \in Core \ {c} : at'[d] = at[d], StillMembers(c), StillWalk(c)
    PROVE  \A f \in Field : \A h \in HeadsOf(f) : OneRing(f, h)'
<1> TAKE f \in Field
<1> TAKE h \in HeadsOf(f)
<1>1. h \in Heads /\ h # x
  BY HeadFacts, TableAssumption DEF Heads, Pid
<1>2. ASSUME NEW n \in Nat, NEW q \in [1 .. n -> Pid], Ring(f, h, n, q), NEW k \in 0 .. n
      PROVE  /\ next'[f][Nth(q, n, h, k)] = next[f][Nth(q, n, h, k)]
             /\ \/ prev'[f][Nth(q, n, h, k + 1)] = prev[f][Nth(q, n, h, k + 1)]
                \/ Halfway(c, f, h, n, q, k)'
             /\ Halfway(c, f, h, n, q, k) => Halfway(c, f, h, n, q, k)'
  <2>1. \A i \in 0 .. n + 1 : Nth(q, n, h, i) \in Node /\ (Nth(q, n, h, i) # x \/ InRing(f, x))
    BY <1>1, <1>2, RingNext
  <2>2. \A i \in 0 .. n + 1 : /\ next'[f][Nth(q, n, h, i)] = next[f][Nth(q, n, h, i)]
                              /\ prev'[f][Nth(q, n, h, i)] = prev[f][Nth(q, n, h, i)]
    BY <2>1
  <2>3. k \in 0 .. n + 1 /\ k + 1 \in 0 .. n + 1
    OBVIOUS
  <2> QED BY <1>1, <2>2, <2>3
<1> QED BY <1>2, StillRing

(* Core c changes the prev of node right[c], which is next to its left[c]: *)
(* that is halfway an insertion or a removal.                              *)
LEMMA HalfRing ==
    ASSUME TableInv, RingInv, ~raced, NEW c \in Core, OnlyCore(c),
           next' = next,
           \A f \in Field, n \in Node :
              (f = field[c] /\ n = right[c]) \/ prev'[f][n] = prev[f][n],
           ASSUME NEW f \in Field, f = field[c], NEW h \in HeadsOf(f), NEW n \in Nat,
                  NEW q \in [1 .. n -> Pid], Ring(f, h, n, q),
                  NEW k \in 0 .. n, Nth(q, n, h, k + 1) = right[c]
           PROVE  Halfway(c, f, h, n, q, k)',
           pc[c] \in {"add_next_prev", "del_next_prev"},
           \A d \in Core \ {c} : at'[d] = at[d], StillMembers(c), StillWalk(c)
    PROVE  \A f \in Field : \A h \in HeadsOf(f) : OneRing(f, h)'
<1> TAKE f \in Field
<1> TAKE h \in HeadsOf(f)
<1>1. h \in Heads
  BY HeadFacts
<1>2. ASSUME NEW n \in Nat, NEW q \in [1 .. n -> Pid], Ring(f, h, n, q), NEW k \in 0 .. n
      PROVE  /\ next'[f][Nth(q, n, h, k)] = next[f][Nth(q, n, h, k)]
             /\ \/ prev'[f][Nth(q, n, h, k + 1)] = prev[f][Nth(q, n, h, k + 1)]
                \/ Halfway(c, f, h, n, q, k)'
             /\ Halfway(c, f, h, n, q, k) => Halfway(c, f, h, n, q, k)'
  <2>1. k + 1 \in 0 .. n + 1
    OBVIOUS
  <2>2. Nth(q, n, h, k + 1) \in Node
    BY <1>1, <1>2, <2>1, RingNext
  <2>3. ~Halfway(c, f, h, n, q, k)
    BY DEF Halfway
  <2>4. \/ prev'[f][Nth(q, n, h, k + 1)] = prev[f][Nth(q, n, h, k + 1)]
        \/ f = field[c] /\ Nth(q, n, h, k + 1) = right[c]
    BY <2>2
  <2>5. f = field[c] /\ Nth(q, n, h, k + 1) = right[c] => Halfway(c, f, h, n, q, k)'
    BY <1>2
  <2> QED BY <2>3, <2>4, <2>5
<1> QED BY <1>2, StillRing


-----------------------------------------------------------------------------
(* The store of prev->next in __list_add: the new entry comes first.       *)
LEMMA RingAdd ==
    ASSUME TableInv, PhaseInv, RingInv, ~raced, NEW c \in Core, OnlyCore(c), AddPrevNext(c),
           NEW f \in Field, f = field[c], NEW p, p = arg[c], NEW h \in Heads, h = left[c],
           NEW n \in Nat, NEW q \in [1 .. n -> Pid], Ring(f, h, n, q)
    PROVE  \E r \in [1 .. n + 1 -> Pid] : Ring(f, h, n + 1, r)'
<1> DEFINE r == [k \in 1 .. n + 1 |-> IF k = 1 THEN p ELSE q[k - 1]]
<1>1. /\ p \in Pid /\ ~InRing(f, p) /\ ListHead(f, p) = h
      /\ next[f][h] = right[c] /\ next[f][p] = right[c]
      /\ prev[f][right[c]] = p /\ prev[f][p] = h
  <2>1. pc[c] = "add_prev_next" /\ Owns(c) /\ ~Linked(c, f)
    BY DEF AddPrevNext, Owns, InCreate, InAdd, InDel, Linked, Entered
  <2>2. LinkInv(c)
    BY DEF RingInv
  <2> QED BY <2>1, <2>2, OwnMember DEF LinkInv, InAdd
<1>2. r \in [1 .. n + 1 -> Pid]
  BY <1>1
<1>3. /\ \A i, j \in 1 .. n : q[i] = q[j] => i = j
      /\ \A e \in Pid : (\E k \in 1 .. n : q[k] = e) <=> InRing(f, e) /\ ListHead(f, e) = h
      /\ \A k \in 0 .. n : next[f][Nth(q, n, h, k)] = Nth(q, n, h, k + 1)
      /\ \A k \in 1 .. n : prev[f][Nth(q, n, h, k + 1)] = Nth(q, n, h, k)
  <2>1. ASSUME NEW k \in 1 .. n, NEW d \in Core PROVE ~Halfway(d, f, h, n, q, k)
    <3>1. pc[c] = "add_prev_next"
      BY DEF AddPrevNext
    <3>2. CASE d = c
      BY <3>1, <3>2 DEF Halfway
    <3>3. CASE d # c
      <4>1. pc[d] \notin InAdd \cup InDel
        BY <3>1, <3>3, Alone DEF InAdd
      <4> QED BY <4>1 DEF Halfway, InAdd, InDel
    <3> QED BY <3>2, <3>3
  <2> QED BY <2>1 DEF Ring
<1>4. /\ Nth(q, n, h, 0) = h /\ Nth(q, n, h, n + 1) = h
      /\ \A k \in 1 .. n : Nth(q, n, h, k) = q[k] /\ q[k] \in Pid /\ q[k] # h /\ q[k] # p
  <2>1. /\ Nth(q, n, h, 0) = h /\ Nth(q, n, h, n + 1) = h
        /\ \A k \in 1 .. n : Nth(q, n, h, k) = q[k] /\ q[k] \in Pid /\ q[k] # h
    <3>1. \A i, j \in 1 .. n : q[i] = q[j] => i = j
      BY <1>3
    <3> QED BY ONLY <3>1, n \in Nat, q \in [1 .. n -> Pid], h \in Heads, NthFacts
  <2>2. \A k \in 1 .. n : q[k] # p
    BY <1>1, <1>3
  <2> QED BY <2>1, <2>2
<1>5. /\ Nth(r, n + 1, h, 0) = h /\ Nth(r, n + 1, h, 1) = p
      /\ \A k \in 1 .. n + 1 : Nth(r, n + 1, h, k + 1) = Nth(q, n, h, k)
  <2>1. Nth(r, n + 1, h, 0) = h /\ Nth(r, n + 1, h, 1) = p
    BY DEF Nth
  <2>2. ASSUME NEW k \in 1 .. n + 1 PROVE Nth(r, n + 1, h, k + 1) = Nth(q, n, h, k)
    <3>1. CASE k \in 1 .. n
      BY <3>1 DEF Nth
    <3>2. CASE k = n + 1
      BY <3>2 DEF Nth
    <3> QED BY <3>1, <3>2
  <2> QED BY <2>1, <2>2
<1>6. \A i, j \in 1 .. n + 1 : r[i] = r[j] => i = j
  <2> SUFFICES ASSUME NEW i \in 1 .. n + 1, NEW j \in 1 .. n + 1, i # j PROVE r[i] # r[j]
    OBVIOUS
  <2>1. CASE i = 1
    BY <1>4, <2>1
  <2>2. CASE j = 1
    BY <1>4, <2>2
  <2>3. CASE i # 1 /\ j # 1
    <3>1. i - 1 \in 1 .. n /\ j - 1 \in 1 .. n /\ i - 1 # j - 1
      BY <2>3
    <3> QED BY <1>3, <2>3, <3>1
  <2> QED BY <2>1, <2>2, <2>3
<1>7. \A e \in Pid : (\E k \in 1 .. n + 1 : r[k] = e) <=> InRing(f, e)' /\ ListHead(f, e) = h
  <2> TAKE e \in Pid
  <2>1. InRing(f, e)' <=> InRing(f, e) \/ e = p
    <3>1. arg'[c] = p /\ Linked(c, f)' /\ status' = status
      BY DEF AddPrevNext, Linked, Entered, Go, InCreate, InAdd, TableInv, TableTypeOK,
         Field, procs
    <3>2. ~Linked(c, f)
      BY DEF AddPrevNext, Linked, Entered, InAdd, InDel
    <3> QED BY <3>1, <3>2, Members DEF Mine
  <2>2. (\E k \in 1 .. n + 1 : r[k] = e) <=> e = p \/ \E k \in 1 .. n : q[k] = e
    <3>1. ASSUME NEW k \in 1 .. n + 1, r[k] = e PROVE e = p \/ \E m \in 1 .. n : q[m] = e
      <4>1. k = 1 \/ k - 1 \in 1 .. n
        OBVIOUS
      <4> QED BY <3>1, <4>1
    <3>2. ASSUME NEW k \in 1 .. n, q[k] = e PROVE \E m \in 1 .. n + 1 : r[m] = e
      <4>1. k + 1 \in 1 .. n + 1 /\ r[k + 1] = e
        BY <3>2
      <4> QED BY <4>1
    <3>3. 1 \in 1 .. n + 1 /\ r[1] = p
      OBVIOUS
    <3> QED BY <3>1, <3>2, <3>3
  <2> QED BY <1>1, <1>3, <2>1, <2>2
<1> HIDE DEF r
<1>8. prev' = prev /\ next' = [next EXCEPT ![f][h] = p]
  BY DEF AddPrevNext, Store
<1>9. \A k \in 0 .. n + 1 : next'[f][Nth(r, n + 1, h, k)] = Nth(r, n + 1, h, k + 1)
  <2>1. /\ next'[f][h] = p
        /\ \A m : m \in Pid => next'[f][m] = next[f][m]
    BY <1>1, <1>8, Nodes DEF TableInv, TableTypeOK, Heads, Pid
  <2> TAKE k \in 0 .. n + 1
  <2>2. CASE k = 0
    BY <1>5, <2>1, <2>2
  <2>3. CASE k = 1
    <3>1. next'[f][p] = Nth(q, n, h, 1)
      <4>1. next[f][Nth(q, n, h, 0)] = Nth(q, n, h, 0 + 1)
        BY <1>3
      <4> QED BY <1>1, <1>4, <2>1, <4>1
    <3>2. Nth(r, n + 1, h, 1) = p /\ Nth(r, n + 1, h, 1 + 1) = Nth(q, n, h, 1)
      BY <1>5
    <3> QED BY <2>3, <3>1, <3>2
  <2>4. CASE k \notin {0, 1}
    <3>1. k - 1 \in 1 .. n /\ k - 1 \in 1 .. n + 1 /\ (k - 1) + 1 = k
      BY <2>4
    <3>2. /\ Nth(r, n + 1, h, k) = Nth(q, n, h, k - 1)
          /\ Nth(r, n + 1, h, k + 1) = Nth(q, n, h, k)
      BY <1>5, <3>1
    <3>3. Nth(q, n, h, k - 1) \in Pid /\ next[f][Nth(q, n, h, k - 1)] = Nth(q, n, h, k)
      BY <1>3, <1>4, <3>1
    <3> QED BY <2>1, <3>2, <3>3
  <2> QED BY <2>2, <2>3, <2>4
<1>10. \A k \in 0 .. n + 1 : prev'[f][Nth(r, n + 1, h, k + 1)] = Nth(r, n + 1, h, k)
  <2> TAKE k \in 0 .. n + 1
  <2>2. CASE k = 0
    BY <1>1, <1>5, <1>8, <2>2
  <2>3. CASE k = 1
    BY <1>1, <1>3, <1>4, <1>5, <1>8, <2>3
  <2>4. CASE k \notin {0, 1}
    <3>1. k - 1 \in 1 .. n /\ k - 1 \in 1 .. n + 1 /\ (k - 1) + 1 = k /\ k \in 1 .. n + 1
      BY <2>4
    <3>2. /\ Nth(r, n + 1, h, k) = Nth(q, n, h, k - 1)
          /\ Nth(r, n + 1, h, k + 1) = Nth(q, n, h, k)
      BY <1>5, <3>1
    <3>3. prev[f][Nth(q, n, h, k)] = Nth(q, n, h, k - 1)
      BY <1>3, <3>1
    <3> QED BY <1>8, <3>2, <3>3
  <2> QED BY <2>2, <2>3, <2>4
<1>11. Ring(f, h, n + 1, r)'
  BY <1>6, <1>7, <1>9, <1>10 DEF Ring, ListHead, Bucket, Nth
<1> QED BY <1>2, <1>11

(* The store of prev->next in __list_del: the entry drops out.             *)
LEMMA RingDel ==
    ASSUME TableInv, PhaseInv, RingInv, ~raced, TableInv', PhaseInv',
           NEW c \in Core, OnlyCore(c), DelPrevNext(c),
           NEW f \in Field, f = field[c], NEW p, p = arg[c], NEW h \in Heads, h = ListHead(f, p),
           NEW n \in Nat, NEW q \in [1 .. n -> Pid], Ring(f, h, n, q)
    PROVE  /\ \E k \in 0 .. n : left[c] = Nth(q, n, h, k)
           /\ \E m \in Nat : \E r \in [1 .. m -> Pid] : Ring(f, h, m, r)'
<1>1. /\ p \in Pid /\ InRing(f, p)
      /\ left[c] = prev[f][p] /\ right[c] = next[f][p] /\ prev[f][right[c]] = left[c]
  <2>1. pc[c] = "del_prev_next" /\ Owns(c) /\ Linked(c, f)
    BY DEF DelPrevNext, Owns, InCreate, InAdd, InDel, Linked
  <2>2. LinkInv(c)
    BY DEF RingInv
  <2> QED BY <2>1, <2>2, OwnMember DEF LinkInv, InAdd
<1>2. PICK i \in 1 .. n : q[i] = p
  BY <1>1 DEF Ring
<1>3. \A j, k \in 1 .. n : q[j] = q[k] => j = k
  BY DEF Ring
<1>4. /\ Nth(q, n, h, 0) = h /\ Nth(q, n, h, n + 1) = h /\ Nth(q, n, h, i) = p
      /\ \A k \in 1 .. n : Nth(q, n, h, k) = q[k] /\ q[k] \in Pid /\ q[k] # h
      /\ \A k \in Nat : Nth(q, n, h, k) \in Node
      /\ \A j, k \in 0 .. n : Nth(q, n, h, j) = Nth(q, n, h, k) => j = k
  BY ONLY <1>2, <1>3, n \in Nat, q \in [1 .. n -> Pid], h \in Heads, NthFacts
<1>5. /\ \A e \in Pid : (\E k \in 1 .. n : q[k] = e) <=> InRing(f, e) /\ ListHead(f, e) = h
      /\ \A k \in 0 .. n : next[f][Nth(q, n, h, k)] = Nth(q, n, h, k + 1)
      /\ \A k \in 0 .. n : k # i => prev[f][Nth(q, n, h, k + 1)] = Nth(q, n, h, k)
  <2>1. ASSUME NEW k \in 0 .. n, k # i, NEW d \in Core PROVE ~Halfway(d, f, h, n, q, k)
    <3>1. pc[c] = "del_prev_next"
      BY DEF DelPrevNext
    <3>2. CASE d = c
      <4>1. Nth(q, n, h, k) # p
        BY <1>4, <2>1
      <4> QED BY <3>1, <3>2, <4>1 DEF Halfway
    <3>3. CASE d # c
      <4>1. pc[d] \notin InAdd \cup InDel
        BY <3>1, <3>3, Alone DEF InDel
      <4> QED BY <4>1 DEF Halfway, InAdd, InDel
    <3> QED BY <3>2, <3>3
  <2> QED BY <2>1 DEF Ring
<1>6. left[c] = Nth(q, n, h, i - 1) /\ right[c] = Nth(q, n, h, i + 1)
  <2>1. i \in 0 .. n /\ i - 1 \in 0 .. n /\ i - 1 # i /\ (i - 1) + 1 = i
    OBVIOUS
  <2>2. prev[f][Nth(q, n, h, i)] = Nth(q, n, h, i - 1)
    BY <1>5, <2>1
  <2>3. next[f][Nth(q, n, h, i)] = Nth(q, n, h, i + 1)
    BY <1>5, <2>1
  <2> QED BY <1>1, <1>4, <2>2, <2>3
<1> DEFINE m == n - 1
<1> DEFINE r == [k \in 1 .. m |-> IF k < i THEN q[k] ELSE q[k + 1]]
<1>7. m \in Nat /\ r \in [1 .. m -> Pid]
  BY <1>4
<1>8. \A k \in 0 .. n : Nth(r, m, h, k) = IF k < i THEN Nth(q, n, h, k) ELSE Nth(q, n, h, k + 1)
  <2> TAKE k \in 0 .. n
  <2>1. CASE k \in 1 .. m
    BY <2>1 DEF Nth
  <2>2. CASE k = 0 \/ k = n
    BY <1>4, <2>2 DEF Nth
  <2> QED BY <2>1, <2>2
<1>9. \A j, k \in 1 .. m : r[j] = r[k] => j = k
  <2> SUFFICES ASSUME NEW j \in 1 .. m, NEW k \in 1 .. m, r[j] = r[k] PROVE j = k
    OBVIOUS
  <2>1. CASE j < i /\ k < i
    BY <1>3, <2>1
  <2>2. CASE j < i /\ ~(k < i)
    <3>1. j \in 1 .. n /\ k + 1 \in 1 .. n /\ q[j] = q[k + 1]
      BY <2>2
    <3> QED BY <1>3, <2>2, <3>1
  <2>3. CASE ~(j < i) /\ k < i
    <3>1. k \in 1 .. n /\ j + 1 \in 1 .. n /\ q[j + 1] = q[k]
      BY <2>3
    <3> QED BY <1>3, <2>3, <3>1
  <2>4. CASE ~(j < i) /\ ~(k < i)
    <3>1. k + 1 \in 1 .. n /\ j + 1 \in 1 .. n /\ q[j + 1] = q[k + 1]
      BY <2>4
    <3> QED BY <1>3, <3>1
  <2> QED BY <2>1, <2>2, <2>3, <2>4
<1>10. \A e \in Pid : (\E k \in 1 .. m : r[k] = e) <=> InRing(f, e)' /\ ListHead(f, e) = h
  <2> TAKE e \in Pid
  <2>1. InRing(f, e)' <=> InRing(f, e) /\ e # p
    <3>1. arg'[c] = p /\ Owns(c)' /\ ~Linked(c, f)' /\ status' = status
      BY DEF DelPrevNext, Linked, Go, InCreate, InAdd, InDel, Owns, TableInv, TableTypeOK,
         procs
    <3>2. ~InRing(f, p)'
      <4>1. status'[p] # "live"
        BY <3>1 DEF DelPrevNext, InDel, TableInv, CoreInv
      <4>2. \A d \in Core \ {c} : arg'[d] = p => ~Linked(d, f)'
        BY <3>1 DEF TableInv, Apart, Owns, Linked
      <4> QED BY <3>1, <4>1, <4>2 DEF InRing
    <3>3. e # p => (Mine(c, f, e)' <=> Mine(c, f, e))
      BY <3>1 DEF Mine
    <3> QED BY <3>2, <3>3, Members
  <2>2. (\E k \in 1 .. m : r[k] = e) <=> e # p /\ \E k \in 1 .. n : q[k] = e
    <3>1. ASSUME NEW k \in 1 .. m, r[k] = e PROVE e # p /\ \E j \in 1 .. n : q[j] = e
      <4>1. k < i => k \in 1 .. n /\ q[k] = e
        BY <3>1
      <4>2. ~(k < i) => k + 1 \in 1 .. n /\ k + 1 # i /\ q[k + 1] = e
        BY <3>1
      <4>3. \E j \in 1 .. n : j # i /\ q[j] = e
        BY <4>1, <4>2
      <4> QED BY <1>2, <1>3, <4>3
    <3>2. ASSUME NEW k \in 1 .. n, q[k] = e, e # p PROVE \E j \in 1 .. m : r[j] = e
      <4>1. k # i
        BY <1>2, <3>2
      <4>2. CASE k < i
        <5>1. k \in 1 .. m /\ r[k] = e
          BY <3>2, <4>2
        <5> QED BY <5>1
      <4>3. CASE k > i
        <5>1. k - 1 \in 1 .. m /\ ~(k - 1 < i) /\ (k - 1) + 1 = k
          BY <4>3
        <5>2. r[k - 1] = e
          BY <3>2, <5>1
        <5> QED BY <5>1, <5>2
      <4> QED BY <4>1, <4>2, <4>3
    <3> QED BY <3>1, <3>2
  <2> QED BY <1>5, <2>1, <2>2
<1> HIDE DEF r
<1>11. prev' = prev /\ next' = [next EXCEPT ![f][left[c]] = right[c]]
  BY DEF DelPrevNext, Store
<1>12. \A k \in 0 .. m : next'[f][Nth(r, m, h, k)] = Nth(r, m, h, k + 1)
  <2>1. /\ next'[f][Nth(q, n, h, i - 1)] = Nth(q, n, h, i + 1)
        /\ \A k \in 0 .. n : k # i - 1 => next'[f][Nth(q, n, h, k)] = Nth(q, n, h, k + 1)
    <3>1. Nth(q, n, h, i - 1) \in Node /\ i - 1 \in 0 .. n
      BY <1>4
    <3>2. next'[f][Nth(q, n, h, i - 1)] = Nth(q, n, h, i + 1)
      BY <1>6, <1>11, <3>1 DEF TableInv, TableTypeOK
    <3>3. ASSUME NEW k \in 0 .. n, k # i - 1 PROVE next'[f][Nth(q, n, h, k)] = Nth(q, n, h, k + 1)
      <4>1. Nth(q, n, h, k) # left[c] /\ Nth(q, n, h, k) \in Node
        BY <1>4, <1>6, <3>1, <3>3
      <4> QED BY <1>5, <1>11, <4>1 DEF TableInv, TableTypeOK
    <3> QED BY <3>2, <3>3
  <2> TAKE k \in 0 .. m
  <2>2. /\ Nth(r, m, h, k) = IF k < i THEN Nth(q, n, h, k) ELSE Nth(q, n, h, k + 1)
        /\ Nth(r, m, h, k + 1) = IF k + 1 < i THEN Nth(q, n, h, k + 1) ELSE Nth(q, n, h, k + 2)
    <3>1. k \in 0 .. n /\ k + 1 \in 0 .. n /\ (k + 1) + 1 = k + 2
      OBVIOUS
    <3> QED BY <1>8, <3>1
  <2>3. CASE k + 1 < i
    <3>1. k \in 0 .. n /\ k # i - 1 /\ k < i
      BY <2>3
    <3> QED BY <2>1, <2>2, <2>3, <3>1
  <2>4. CASE k + 1 = i
    <3>1. k = i - 1 /\ k + 2 = i + 1 /\ k < i /\ ~(k + 1 < i)
      BY <2>4
    <3> QED BY <2>1, <2>2, <3>1
  <2>5. CASE k + 1 > i
    <3>1. k + 1 \in 0 .. n /\ k + 1 # i - 1 /\ ~(k < i) /\ ~(k + 1 < i) /\ (k + 1) + 1 = k + 2
      BY <2>5
    <3> QED BY <2>1, <2>2, <3>1
  <2> QED BY <2>3, <2>4, <2>5
<1>13. \A k \in 0 .. m : prev'[f][Nth(r, m, h, k + 1)] = Nth(r, m, h, k)
  <2> TAKE k \in 0 .. m
  <2>2. /\ Nth(r, m, h, k) = IF k < i THEN Nth(q, n, h, k) ELSE Nth(q, n, h, k + 1)
        /\ Nth(r, m, h, k + 1) = IF k + 1 < i THEN Nth(q, n, h, k + 1) ELSE Nth(q, n, h, k + 2)
    <3>1. k \in 0 .. n /\ k + 1 \in 0 .. n /\ (k + 1) + 1 = k + 2
      OBVIOUS
    <3> QED BY <1>8, <3>1
  <2>3. CASE k + 1 < i
    <3>1. k \in 0 .. n /\ k # i /\ k < i
      BY <2>3
    <3> QED BY <1>5, <1>11, <2>2, <2>3, <3>1
  <2>4. CASE k + 1 = i
    <3>1. k = i - 1 /\ k + 2 = i + 1 /\ k < i /\ ~(k + 1 < i)
      BY <2>4
    <3> QED BY <1>1, <1>6, <1>11, <2>2, <3>1
  <2>5. CASE k + 1 > i
    <3>1. k + 1 \in 0 .. n /\ k + 1 # i /\ ~(k < i) /\ ~(k + 1 < i) /\ (k + 1) + 1 = k + 2
      BY <2>5
    <3> QED BY <1>5, <1>11, <2>2, <3>1
  <2> QED BY <2>3, <2>4, <2>5
<1>14. Ring(f, h, m, r)'
  BY <1>9, <1>10, <1>12, <1>13 DEF Ring, ListHead, Bucket, Nth
<1>15. \E k \in 0 .. n : left[c] = Nth(q, n, h, k)
  <2>1. i - 1 \in 0 .. n
    OBVIOUS
  <2> QED BY <1>6, <2>1
<1> QED BY <1>7, <1>14, <1>15

(* A step that changes one next link, of a node x of the list of head h of *)
(* field f, leaves every other list as it is, ...                          *)
LEMMA OtherRing ==
    ASSUME NEW c \in Core, OnlyCore(c), TableTypeOK,
           NEW f \in Field, NEW p \in Pid, p = arg[c], NEW h \in Heads, h = ListHead(f, p),
           f = field[c], pc[c] \in {"add_prev_next", "del_prev_next"},
           pc[c] = "add_prev_next" => left[c] = h,
           NEW x \in Node, x = h \/ (x \in Pid /\ ListHead(f, x) = h),
           NEW v, next' = [next EXCEPT ![f][x] = v], prev' = prev,
           arg' = arg, status' = status,
           \A g \in Field \ {f} : Linked(c, g)' <=> Linked(c, g),
           NEW g \in Field, NEW k \in HeadsOf(g), f # g \/ h # k,
           NEW n \in Nat, NEW q \in [1 .. n -> Pid], Ring(g, k, n, q)
    PROVE  Ring(g, k, n, q)'
<1>1. k \in Heads /\ (\A i \in 1 .. n : q[i] \in Pid /\ ListHead(g, q[i]) = k)
  BY HeadFacts DEF Ring
<1>2. \A i \in 0 .. n : \/ Nth(q, n, k, i) = k
                        \/ /\ Nth(q, n, k, i) \in Pid
                           /\ ListHead(g, Nth(q, n, k, i)) = k
  BY <1>1 DEF Nth
<1>3. \A e \in Pid : ListHead(g, e) = k => (Mine(c, g, e)' <=> Mine(c, g, e))
  BY DEF Mine
<1>4. \A i \in 0 .. n : next'[g][Nth(q, n, k, i)] = next[g][Nth(q, n, k, i)]
  <2> TAKE i \in 0 .. n
  <2>1. CASE g # f
    BY <2>1 DEF TableTypeOK
  <2>2. CASE g = f
    <3>1. Nth(q, n, k, i) # x
      BY <1>1, <1>2, <2>2, HeadFacts
    <3> QED BY <3>1 DEF TableTypeOK
  <2> QED BY <2>1, <2>2
<1>5. \A i \in 0 .. n : ~Halfway(c, g, k, n, q, i)
  <2> TAKE i \in 0 .. n
  <2>1. f = g => Nth(q, n, k, i) # p
    BY <1>1, <1>2, HeadFacts
  <2> QED BY <2>1 DEF Halfway
<1> QED BY <1>1, <1>3, <1>4, <1>5, RingFrame

(* ... and nobody walks there.                                             *)
LEMMA NoWalk ==
    ASSUME PhaseInv, ~raced, NEW c \in Core, OnlyCore(c), pc[c] \in InAdd \cup InDel,
           pc'[c] # "walk", NEW h, NEW n, NEW q, NEW d \in Core
    PROVE  WalkAt(d, h, n, q)'
<1>1. CASE d = c
  BY <1>1 DEF WalkAt
<1>2. CASE d # c
  <2>1. pc[d] # "walk"
    BY <1>2, Alone
  <2>2. pc'[d] = pc[d]
    BY <1>2 DEF OnlyCore
  <2> QED BY <2>1, <2>2 DEF WalkAt
<1> QED BY <1>1, <1>2

LEMMA AddRings ==
    ASSUME TableInv, PhaseInv, RingInv, ~raced, NEW c \in Core, OnlyCore(c), AddPrevNext(c)
    PROVE  \A f \in Field : \A h \in HeadsOf(f) : OneRing(f, h)'
<1> TAKE g \in Field
<1> TAKE k \in HeadsOf(g)
<1>0. /\ TableTypeOK /\ arg[c] \in Pid /\ field[c] \in Field
      /\ pc[c] = "add_prev_next" /\ pc'[c] # "walk" /\ LinkInv(c)
  BY DEF TableInv, TableTypeOK, AddPrevNext, CoreInv, InCreate, InAdd, Go, RingInv
<1>1. PICK n \in Nat : \E q \in [1 .. n -> Pid] : Ring(g, k, n, q)
  BY DEF RingInv, OneRing
<1>2. PICK q \in [1 .. n -> Pid] : Ring(g, k, n, q)
  BY <1>1
<1>3. PICK f \in Field : f = field[c]
  BY <1>0
<1>4. PICK p \in Pid : p = arg[c]
  BY <1>0
<1>5. PICK h \in Heads : h = left[c] /\ h = ListHead(f, p)
  BY <1>0, <1>3, <1>4, Nodes DEF LinkInv, InAdd
<1>6. CASE f = g /\ h = k
  <2>1. \E r \in [1 .. n + 1 -> Pid] : Ring(f, h, n + 1, r)'
    BY <1>2, <1>3, <1>4, <1>5, <1>6, RingAdd
  <2>2. n + 1 \in Nat
    OBVIOUS
  <2> QED BY <1>0, <1>6, <2>1, <2>2, NoWalk DEF OneRing, InAdd
<1>7. CASE f # g \/ h # k
  <2>1. /\ next' = [next EXCEPT ![f][h] = p] /\ prev' = prev /\ arg' = arg /\ status' = status
        /\ \A e \in Field \ {f} : Linked(c, e)' <=> Linked(c, e)
    BY <1>0, <1>3, <1>4, <1>5 DEF AddPrevNext, Store, Linked, Entered, Go, InCreate,
       InAdd,
       InDel, TableTypeOK, Field, procs
  <2>2. h \in Node
    BY <1>5, HeadFacts
  <2>3. Ring(g, k, n, q)'
    BY <1>0, <1>2, <1>3, <1>4, <1>5, <1>7, <2>1, <2>2, OtherRing
  <2> QED BY <1>0, <2>3, NoWalk DEF OneRing, InAdd
<1> QED BY <1>6, <1>7

LEMMA DelRings ==
    ASSUME TableInv, PhaseInv, RingInv, ~raced, TableInv', PhaseInv',
           NEW c \in Core, OnlyCore(c), DelPrevNext(c)
    PROVE  \A f \in Field : \A h \in HeadsOf(f) : OneRing(f, h)'
<1> TAKE g \in Field
<1> TAKE k \in HeadsOf(g)
<1>0. /\ TableTypeOK /\ arg[c] \in Pid /\ field[c] \in Field
      /\ pc[c] = "del_prev_next" /\ pc'[c] # "walk"
  BY DEF TableInv, TableTypeOK, DelPrevNext, CoreInv, InDel, Go
<1>1. PICK n \in Nat : \E q \in [1 .. n -> Pid] : Ring(g, k, n, q)
  BY DEF RingInv, OneRing
<1>2. PICK q \in [1 .. n -> Pid] : Ring(g, k, n, q)
  BY <1>1
<1>3. PICK f \in Field : f = field[c]
  BY <1>0
<1>4. PICK p \in Pid : p = arg[c]
  BY <1>0
<1>5. PICK h \in HeadsOf(f) : h = ListHead(f, p)
  BY <1>4 DEF HeadsOf
<1>6. h \in Heads
  BY HeadFacts
<1>7. CASE f = g /\ h = k
  <2>1. \E m \in Nat : \E r \in [1 .. m -> Pid] : Ring(f, h, m, r)'
    <3>1. Ring(f, h, n, q)
      BY <1>2, <1>7
    <3>2. /\ \E j \in 0 .. n : left[c] = Nth(q, n, h, j)
          /\ \E m \in Nat : \E r \in [1 .. m -> Pid] : Ring(f, h, m, r)'
      BY ONLY TableInv, PhaseInv, RingInv, ~raced, TableInv', PhaseInv', OnlyCore(c), c \in Core,
         f \in Field, h \in HeadsOf(f), p \in Pid, n \in Nat, q \in [1 .. n -> Pid],
         DelPrevNext(c), <1>3, <1>4, <1>5, <1>6, <3>1, RingDel
    <3> QED BY <3>2
  <2> QED BY <1>0, <1>7, <2>1, NoWalk DEF OneRing, InDel
<1>8. CASE f # g \/ h # k
  <2>1. /\ next' = [next EXCEPT ![f][left[c]] = right[c]] /\ prev' = prev /\ arg' = arg
        /\ status' = status
        /\ \A e \in Field \ {f} : Linked(c, e)' <=> Linked(c, e)
    BY <1>0, <1>3, <1>4, <1>5 DEF DelPrevNext, Store, Linked, Entered, Go, InCreate,
       InAdd,
       InDel, TableTypeOK, Field, procs
  <2>2. left[c] = h \/ (left[c] \in Pid /\ ListHead(f, left[c]) = h)
    <3>1. PICK m \in Nat : \E r \in [1 .. m -> Pid] : Ring(f, h, m, r)
      BY DEF RingInv, OneRing
    <3>2. PICK r \in [1 .. m -> Pid] : Ring(f, h, m, r)
      BY <3>1
    <3>3. PICK j \in 0 .. m : left[c] = Nth(r, m, h, j)
      BY ONLY TableInv, PhaseInv, RingInv, ~raced, TableInv', PhaseInv', OnlyCore(c), c \in Core,
         f \in Field, h \in HeadsOf(f), p \in Pid, m \in Nat, r \in [1 .. m -> Pid],
         DelPrevNext(c), <1>3, <1>4, <1>5, <1>6, <3>2, RingDel
    <3> QED BY <3>2, <3>3 DEF Nth, Ring
  <2>3. PICK x \in Node : x = left[c]
    BY <1>0 DEF TableTypeOK
  <2>4. Ring(g, k, n, q)'
    BY <1>0, <1>2, <1>3, <1>4, <1>5, <1>6, <1>8, <2>1, <2>2, <2>3, OtherRing
  <2> QED BY <1>0, <2>4, NoWalk DEF OneRing, InDel
<1> QED BY <1>7, <1>8

-----------------------------------------------------------------------------
(* A step is one core's; what it may change of the others' is nothing.     *)
LEMMA CoreStep ==
    ASSUME TableInv, NEW c \in Core, CreateStep(c) \/ ExitStep(c) \/ LookupStep(c)
    PROVE  OnlyCore(c) /\ (\A d \in Core \ {c} : at'[d] = at[d]) /\ StatusGrows
<1>0. TableTypeOK /\ CoreInv(c)
  BY DEF TableInv
<1>1. CASE Create(c)
  BY <1>0, <1>1 DEF Create, OnlyCore, StatusGrows, Go, Return, links, locks, procs, walk,
     TableTypeOK
<1>2. CASE ListLock(c)
  BY <1>0, <1>2 DEF ListLock, OnlyCore, StatusGrows, Go, Return, links, locks, procs, walk,
     TableTypeOK
<1>3. CASE HashLock(c)
  BY <1>0, <1>3 DEF HashLock, OnlyCore, StatusGrows, Go, Return, links, locks, procs, walk,
     TableTypeOK
<1>4. CASE AddRead(c)
  BY <1>0, <1>4 DEF AddRead, OnlyCore, StatusGrows, Go, Return, links, locks, procs, walk,
     TableTypeOK
<1>5. CASE AddNextPrev(c)
  BY <1>0, <1>5 DEF AddNextPrev, OnlyCore, StatusGrows, Go, Return, links, locks, procs,
     walk, TableTypeOK
<1>6. CASE AddNewNext(c)
  BY <1>0, <1>6 DEF AddNewNext, OnlyCore, StatusGrows, Go, Return, links, locks, procs,
     walk, TableTypeOK
<1>7. CASE AddNewPrev(c)
  BY <1>0, <1>7 DEF AddNewPrev, OnlyCore, StatusGrows, Go, Return, links, locks, procs,
     walk, TableTypeOK
<1>8. CASE AddPrevNext(c)
  BY <1>0, <1>8 DEF AddPrevNext, OnlyCore, StatusGrows, Go, Return, links, locks, procs,
     walk, TableTypeOK
<1>9. CASE HashUnlock(c)
  BY <1>0, <1>9 DEF HashUnlock, OnlyCore, StatusGrows, Go, Return, links, locks, procs,
     walk, TableTypeOK
<1>10. CASE ListUnlock(c)
  BY <1>0, <1>10 DEF ListUnlock, OnlyCore, StatusGrows, Go, Return, links, locks, procs,
     walk, TableTypeOK
<1>11. CASE DelRead(c)
  BY <1>0, <1>11 DEF DelRead, OnlyCore, StatusGrows, Go, Return, links, locks, procs, walk,
     TableTypeOK
<1>12. CASE DelNextPrev(c)
  BY <1>0, <1>12 DEF DelNextPrev, OnlyCore, StatusGrows, Go, Return, links, locks, procs,
     walk, TableTypeOK
<1>13. CASE DelPrevNext(c)
  BY <1>0, <1>13 DEF DelPrevNext, OnlyCore, StatusGrows, Go, Return, links, locks, procs,
     walk, TableTypeOK
<1>14. CASE Poison(c)
  BY <1>0, <1>14 DEF Poison, OnlyCore, StatusGrows, Go, Return, links, locks, procs, walk,
     TableTypeOK
<1>15. CASE WalkLock(c)
  BY <1>0, <1>15 DEF WalkLock, OnlyCore, StatusGrows, Go, Return, links, locks, procs,
     walk, TableTypeOK
<1>16. CASE WalkStep(c)
  BY <1>0, <1>16 DEF WalkStep, OnlyCore, StatusGrows, Go, Return, links, locks, procs,
     walk, TableTypeOK
<1>17. CASE WalkEnd(c)
  BY <1>0, <1>17 DEF WalkEnd, OnlyCore, StatusGrows, Go, Return, links, locks, procs, walk,
     TableTypeOK
<1>18. ASSUME NEW p \in Pid, Exit(c, p)
      PROVE  OnlyCore(c) /\ (\A d \in Core \ {c} : at'[d] = at[d]) /\ StatusGrows
  BY <1>0, <1>18 DEF Exit, OnlyCore, StatusGrows, Go, Return, links, locks, procs, walk,
     TableTypeOK
<1>19. ASSUME NEW p \in Pid, Lookup(c, p)
      PROVE  OnlyCore(c) /\ (\A d \in Core \ {c} : at'[d] = at[d]) /\ StatusGrows
  BY <1>0, <1>19 DEF Lookup, OnlyCore, StatusGrows, Go, Return, links, locks, procs, walk,
     TableTypeOK
<1> QED BY <1>1, <1>2, <1>3, <1>4, <1>5, <1>6, <1>7, <1>8, <1>9, <1>10, <1>11, <1>12, <1>13, <1>14, <1>15, <1>16, <1>17, <1>18, <1>19
  DEF CreateStep, ExitStep, LookupStep

(* What comes first in a list, and what comes after a member.              *)
LEMMA HeadNext ==
    ASSUME TableInv, RingInv, ~raced, NEW f \in Field, NEW p \in Pid
    PROVE  LET x == next[f][ListHead(f, p)] IN
           /\ Old(x)
           /\ x = ListHead(f, p) \/ (x \in Pid /\ InRing(f, x) /\ ListHead(f, x) = ListHead(f, p))
<1>1. PICK h \in HeadsOf(f) : h = ListHead(f, p)
  BY DEF HeadsOf
<1>2. h \in Heads
  BY HeadFacts
<1>3. PICK n \in Nat : \E q \in [1 .. n -> Pid] : Ring(f, h, n, q)
  BY DEF RingInv, OneRing
<1>4. PICK q \in [1 .. n -> Pid] : Ring(f, h, n, q)
  BY <1>3
<1>5. 0 \in 0 .. n /\ 1 \in 0 .. n + 1 /\ 0 + 1 = 1 /\ Nth(q, n, h, 0) = h
  BY DEF Nth
<1>6. next[f][h] = Nth(q, n, h, 1)
  BY <1>4, <1>5 DEF Ring
<1>7. Nth(q, n, h, 1) \in Pid => ListHead(f, Nth(q, n, h, 1)) = h
  BY <1>2, <1>4, HeadFacts DEF Nth, Ring
<1> QED BY <1>1, <1>2, <1>4, <1>5, <1>6, <1>7, RingNext

LEMMA MemberNext ==
    ASSUME TableInv, RingInv, ~raced, NEW f \in Field, NEW p \in Pid, InRing(f, p)
    PROVE  LET x == next[f][p] IN
           /\ Old(x) /\ x \in Node /\ x # p
           /\ x = ListHead(f, p) \/ (x \in Pid /\ ListHead(f, x) = ListHead(f, p))
<1>1. PICK h \in HeadsOf(f) : h = ListHead(f, p)
  BY DEF HeadsOf
<1>2. h \in Heads
  BY HeadFacts
<1>3. PICK n \in Nat : \E q \in [1 .. n -> Pid] : Ring(f, h, n, q)
  BY DEF RingInv, OneRing
<1>4. PICK q \in [1 .. n -> Pid] : Ring(f, h, n, q)
  BY <1>3
<1>5. PICK i \in 1 .. n : q[i] = p
  BY <1>1, <1>4 DEF Ring
<1>6. i \in 0 .. n /\ i + 1 \in 0 .. n + 1 /\ Nth(q, n, h, i) = p
  BY <1>5 DEF Nth
<1>7. next[f][p] = Nth(q, n, h, i + 1)
  BY <1>4, <1>6 DEF Ring
<1>8. Nth(q, n, h, i + 1) # p
  <2>1. CASE i = n
    <3>1. Nth(q, n, h, i + 1) = h
      BY <2>1 DEF Nth
    <3> QED BY <1>2, <3>1, HeadFacts
  <2>2. CASE i # n
    <3>1. i + 1 \in 1 .. n /\ i + 1 # i
      BY <2>2
    <3> QED BY <1>4, <1>5, <3>1 DEF Nth, Ring
  <2> QED BY <2>1, <2>2
<1>9. \/ Nth(q, n, h, i + 1) = h
      \/ (Nth(q, n, h, i + 1) \in Pid /\ ListHead(f, Nth(q, n, h, i + 1)) = h)
  BY <1>4 DEF Nth, Ring
<1> QED BY <1>1, <1>2, <1>4, <1>6, <1>7, <1>8, <1>9, RingNext

LEMMA LinkOthers ==
    ASSUME TableInv, PhaseInv, RingInv, ~raced, NEW c \in Core, OnlyCore(c), StatusGrows,
           \/ pc[c] \in InAdd \cup InDel
           \/ \A f \in Field, n \in Node : Old(n) =>
                 next'[f][n] = next[f][n] /\ prev'[f][n] = prev[f][n]
    PROVE  \A d \in Core \ {c} : LinkInv(d)'
<1> TAKE d \in Core \ {c}
<1>1. LinkInv(d)
  BY DEF RingInv
<1>2. CASE pc[c] \in InAdd \cup InDel
  <2>1. pc[d] \notin InAdd \cup InDel
    BY <1>2, Alone
  <2> QED BY <1>1, <2>1, LinkOther
<1>3. CASE \A f \in Field, n \in Node : Old(n) =>
                 next'[f][n] = next[f][n] /\ prev'[f][n] = prev[f][n]
  BY <1>1, <1>3, LinkOther
<1> QED BY <1>2, <1>3

(* Only the last store of a list_add and that of a list_del change what is *)
(* in the lists; a status changes when the links are already so.           *)
LEMMA MembersStay ==
    ASSUME TableInv, PhaseInv, NEW c \in Core, CreateStep(c) \/ ExitStep(c) \/ LookupStep(c),
           pc[c] \notin {"add_prev_next", "del_prev_next"}
    PROVE  StillMembers(c)
<1>0. TableTypeOK /\ CoreInv(c) /\ PlaceInv(c) /\ PidInv
  BY DEF TableInv, PhaseInv
<1>1. CASE Create(c)
  <2>1. next_pid \in Pid /\ status[next_pid] = "none"
    BY <1>0, <1>1, TableAssumption DEF Create, TableTypeOK, Pid, PidInv
  <2> QED BY <1>0, <1>1, <2>1 DEF Create, StillMembers, Mine, Linked, Entered, PlaceInv,
       CoreInv, Go, Return,
     procs, InCreate, InAdd, InDel, Field, TableTypeOK
<1>2. CASE ListLock(c)
  BY <1>0, <1>2 DEF ListLock, StillMembers, Mine, Linked, Entered, PlaceInv, CoreInv, Go,
     Return,
     procs, InCreate, InAdd, InDel, Field, TableTypeOK
<1>3. CASE HashLock(c)
  BY <1>0, <1>3 DEF HashLock, StillMembers, Mine, Linked, Entered, PlaceInv, CoreInv, Go,
     Return,
     procs, InCreate, InAdd, InDel, Field, TableTypeOK
<1>4. CASE AddRead(c)
  BY <1>0, <1>4 DEF AddRead, StillMembers, Mine, Linked, Entered, PlaceInv, CoreInv, Go,
     Return,
     procs, InCreate, InAdd, InDel, Field, TableTypeOK
<1>5. CASE AddNextPrev(c)
  BY <1>0, <1>5 DEF AddNextPrev, StillMembers, Mine, Linked, Entered, PlaceInv, CoreInv,
     Go, Return,
     procs, InCreate, InAdd, InDel, Field, TableTypeOK
<1>6. CASE AddNewNext(c)
  BY <1>0, <1>6 DEF AddNewNext, StillMembers, Mine, Linked, Entered, PlaceInv, CoreInv, Go,
     Return,
     procs, InCreate, InAdd, InDel, Field, TableTypeOK
<1>7. CASE AddNewPrev(c)
  BY <1>0, <1>7 DEF AddNewPrev, StillMembers, Mine, Linked, Entered, PlaceInv, CoreInv, Go,
     Return,
     procs, InCreate, InAdd, InDel, Field, TableTypeOK
<1>8. CASE HashUnlock(c)
  BY <1>0, <1>8 DEF HashUnlock, StillMembers, Mine, Linked, Entered, PlaceInv, CoreInv, Go,
     Return,
     procs, InCreate, InAdd, InDel, Field, TableTypeOK
<1>9. CASE ListUnlock(c)
  BY <1>0, <1>9 DEF ListUnlock, StillMembers, Mine, Linked, Entered, PlaceInv, CoreInv, Go,
     Return,
     procs, InCreate, InAdd, InDel, Field, TableTypeOK
<1>10. CASE DelRead(c)
  BY <1>0, <1>10 DEF DelRead, StillMembers, Mine, Linked, Entered, PlaceInv, CoreInv, Go,
     Return,
     procs, InCreate, InAdd, InDel, Field, TableTypeOK
<1>11. CASE DelNextPrev(c)
  BY <1>0, <1>11 DEF DelNextPrev, StillMembers, Mine, Linked, Entered, PlaceInv, CoreInv,
     Go, Return,
     procs, InCreate, InAdd, InDel, Field, TableTypeOK
<1>12. CASE Poison(c)
  BY <1>0, <1>12 DEF Poison, StillMembers, Mine, Linked, Entered, PlaceInv, CoreInv, Go,
     Return,
     procs, InCreate, InAdd, InDel, Field, TableTypeOK
<1>13. CASE WalkLock(c)
  BY <1>0, <1>13 DEF WalkLock, StillMembers, Mine, Linked, Entered, PlaceInv, CoreInv, Go,
     Return,
     procs, InCreate, InAdd, InDel, Field, TableTypeOK
<1>14. CASE WalkStep(c)
  BY <1>0, <1>14 DEF WalkStep, StillMembers, Mine, Linked, Entered, PlaceInv, CoreInv, Go,
     Return,
     procs, InCreate, InAdd, InDel, Field, TableTypeOK
<1>15. CASE WalkEnd(c)
  BY <1>0, <1>15 DEF WalkEnd, StillMembers, Mine, Linked, Entered, PlaceInv, CoreInv, Go,
     Return,
     procs, InCreate, InAdd, InDel, Field, TableTypeOK
<1>16. ASSUME NEW p \in Pid, Exit(c, p) PROVE StillMembers(c)
  BY <1>0, <1>16 DEF Exit, StillMembers, Mine, Linked, Entered, PlaceInv, CoreInv, Go,
     Return,
     procs, InCreate, InAdd, InDel, Field, TableTypeOK
<1>17. ASSUME NEW p \in Pid, Lookup(c, p) PROVE StillMembers(c)
  BY <1>0, <1>17 DEF Lookup, StillMembers, Mine, Linked, Entered, PlaceInv, CoreInv, Go,
     Return,
     procs, InCreate, InAdd, InDel, Field, TableTypeOK
<1> QED BY <1>1, <1>2, <1>3, <1>4, <1>5, <1>6, <1>7, <1>8, <1>9, <1>10, <1>11, <1>12, <1>13, <1>14, <1>15, <1>16, <1>17
  DEF CreateStep, ExitStep, LookupStep, AddPrevNext, DelPrevNext

-----------------------------------------------------------------------------
(* The steps one by one.  First those of the walk, which moves on by one   *)
(* node of the ring, or begins at its first.                               *)
LEMMA WalkElsewhere ==
    ASSUME NEW c \in Core, pc'[c] # "walk"
    PROVE  StillWalk(c)
BY DEF StillWalk, WalkAt

LEMMA WalkBegins ==
    ASSUME TableInv, PhaseInv, NEW c \in Core, WalkLock(c)
    PROVE  StillWalk(c)
<1> DEFINE f == "process_hash_list"
<1> SUFFICES ASSUME NEW h \in HeadsOf(f), NEW n \in Nat, NEW q \in [1 .. n -> Pid],
                    Ring(f, h, n, q)
             PROVE  WalkAt(c, h, n, q)'
  BY DEF StillWalk
<1> SUFFICES ASSUME ListHead(f, arg[c]) = h
             PROVE  \E k \in 1 .. n + 1 :
                       at'[c] = Nth(q, n, h, k) /\ \A j \in 1 .. k - 1 : q[j] # arg[c]
  <2>1. arg' = arg
    BY DEF WalkLock
  <2> QED BY <2>1 DEF WalkAt, ListHead, Bucket, Nth
<1>1. at'[c] = next[f][h]
  BY DEF WalkLock, TableInv, TableTypeOK
<1>2. 0 \in 0 .. n /\ 0 + 1 = 1 /\ 1 \in 1 .. n + 1 /\ Nth(q, n, h, 0) = h
  BY DEF Nth
<1>3. next[f][h] = Nth(q, n, h, 1)
  BY <1>2 DEF Ring
<1>4. \A j \in 1 .. 1 - 1 : q[j] # arg[c]
  OBVIOUS
<1> QED BY <1>1, <1>2, <1>3, <1>4

LEMMA WalkMoves ==
    ASSUME TableInv, PhaseInv, NEW c \in Core, WalkStep(c)
    PROVE  StillWalk(c)
<1> DEFINE f == "process_hash_list"
<1> SUFFICES ASSUME NEW h \in HeadsOf(f), NEW n \in Nat, NEW q \in [1 .. n -> Pid],
                    Ring(f, h, n, q), WalkAt(c, h, n, q)
             PROVE  WalkAt(c, h, n, q)'
  BY DEF StillWalk
<1> SUFFICES ASSUME ListHead(f, arg[c]) = h
             PROVE  \E k \in 1 .. n + 1 :
                       at'[c] = Nth(q, n, h, k) /\ \A j \in 1 .. k - 1 : q[j] # arg[c]
  <2>1. arg' = arg
    BY DEF WalkStep
  <2> QED BY <2>1 DEF WalkAt, ListHead, Bucket, Nth
<1>1. at'[c] = next[f][at[c]] /\ at[c] \in Pid /\ at[c] # arg[c] /\ pc[c] = "walk"
  BY DEF WalkStep, TableInv, TableTypeOK
<1>2. PICK k \in 1 .. n + 1 : at[c] = Nth(q, n, h, k) /\ \A j \in 1 .. k - 1 : q[j] # arg[c]
  BY <1>1 DEF WalkAt
<1>3. k \in 1 .. n /\ k \in 0 .. n /\ Nth(q, n, h, k) = q[k]
  BY <1>1, <1>2, HeadFacts DEF Nth, Field
<1>4. at'[c] = Nth(q, n, h, k + 1)
  BY <1>1, <1>2, <1>3 DEF Ring
<1>5. k + 1 \in 1 .. n + 1 /\ \A j \in 1 .. (k + 1) - 1 : q[j] # arg[c]
  <2> SUFFICES ASSUME NEW j \in 1 .. (k + 1) - 1 PROVE q[j] # arg[c]
    BY <1>3
  <2>1. j = k \/ j \in 1 .. k - 1
    OBVIOUS
  <2> QED BY <1>1, <1>2, <1>3, <2>1
<1> QED BY <1>4, <1>5

(* Core c has read or stored its links, the others keep theirs.            *)
LEMMA RingAll ==
    ASSUME NEW c \in Core, LinkInv(c)', \A d \in Core \ {c} : LinkInv(d)',
           \A f \in Field : \A h \in HeadsOf(f) : OneRing(f, h)'
    PROVE  RingInv'
BY DEF RingInv, HeadsOf, ListHead, Bucket

LEMMA QuietKeeps ==
    ASSUME TableInv, PhaseInv, RingInv, ~raced, NEW c \in Core, OnlyCore(c), StatusGrows,
           \A d \in Core \ {c} : at'[d] = at[d], UNCHANGED links,
           pc[c] \notin {"add_new_next", "add_new_prev", "add_prev_next", "del_prev_next"},
           StillMembers(c), StillWalk(c), LinkInv(c)'
    PROVE  RingInv'
<1>1. \A d \in Core \ {c} : LinkInv(d)'
  BY LinkOthers DEF links
<1>2. \A f \in Field : \A h \in HeadsOf(f) : OneRing(f, h)'
  BY QuietRing
<1> QED BY <1>1, <1>2, RingAll

(* The steps that touch no link, of proc_create, ...                       *)
LEMMA CreateKeepsRing ==
    ASSUME TableInv, PhaseInv, RingInv, ~raced, NEW c \in Core, OnlyCore(c), StatusGrows,
           \A d \in Core \ {c} : at'[d] = at[d],
           \/ ListLock(c)
           \/ HashLock(c)
           \/ AddRead(c)
           \/ HashUnlock(c)
           \/ ListUnlock(c)
    PROVE  RingInv'
<1>0. TableTypeOK /\ CoreInv(c) /\ PlaceInv(c) /\ LinkInv(c)
  BY DEF TableInv, PhaseInv, RingInv
<1>1. CASE ListLock(c)
  <2>1. UNCHANGED links
    BY <1>1 DEF ListLock, links
  <2>2. StillMembers(c)
    BY <1>1, MembersStay DEF ListLock, CreateStep, ExitStep, LookupStep
  <2>3. LinkInv(c)'
    BY <1>0, <1>1 DEF ListLock, LinkInv, Go, Return, InAdd, TableTypeOK
  <2>4. StillWalk(c)
    BY <1>0, <1>1, WalkElsewhere DEF ListLock, Go, Return, TableTypeOK
  <2> QED BY <1>1, <2>1, <2>2, <2>3, <2>4, QuietKeeps DEF ListLock
<1>2. CASE HashLock(c)
  <2>1. UNCHANGED links
    BY <1>2 DEF HashLock, links
  <2>2. StillMembers(c)
    BY <1>2, MembersStay DEF HashLock, CreateStep, ExitStep, LookupStep
  <2>3. LinkInv(c)'
    BY <1>0, <1>2 DEF HashLock, LinkInv, Go, Return, InAdd, TableTypeOK
  <2>4. StillWalk(c)
    BY <1>0, <1>2, WalkElsewhere DEF HashLock, Go, Return, TableTypeOK
  <2> QED BY <1>2, <2>1, <2>2, <2>3, <2>4, QuietKeeps DEF HashLock
<1>3. CASE AddRead(c)
  <2>1. UNCHANGED links
    BY <1>3 DEF AddRead, links
  <2>2. StillMembers(c)
    BY <1>3, MembersStay DEF AddRead, CreateStep, ExitStep, LookupStep
  <2>3. LinkInv(c)'
    <3>1. /\ pc'[c] = "add_next_prev" /\ arg[c] \in Pid /\ field[c] \in Field
          /\ next' = next /\ field' = field /\ arg' = arg /\ status' = status
          /\ left'[c] = ListHead(field[c], arg[c])
          /\ right'[c] = next[field[c]][ListHead(field[c], arg[c])]
      BY <1>0, <1>3 DEF AddRead, CoreInv, Go, links, procs, InCreate, InAdd, TableTypeOK
    <3>2. Old(right'[c])
      BY <3>1, HeadNext
    <3> QED BY <3>1, <3>2 DEF LinkInv, ListHead, Bucket, Old
  <2>4. StillWalk(c)
    BY <1>0, <1>3, WalkElsewhere DEF AddRead, Go, Return, TableTypeOK
  <2> QED BY <1>3, <2>1, <2>2, <2>3, <2>4, QuietKeeps DEF AddRead
<1>4. CASE HashUnlock(c)
  <2>1. UNCHANGED links
    BY <1>4 DEF HashUnlock, links
  <2>2. StillMembers(c)
    BY <1>4, MembersStay DEF HashUnlock, CreateStep, ExitStep, LookupStep
  <2>3. LinkInv(c)'
    BY <1>0, <1>4 DEF HashUnlock, LinkInv, Go, Return, InAdd, TableTypeOK
  <2>4. StillWalk(c)
    BY <1>0, <1>4, WalkElsewhere DEF HashUnlock, Go, Return, TableTypeOK
  <2> QED BY <1>4, <2>1, <2>2, <2>3, <2>4, QuietKeeps DEF HashUnlock
<1>5. CASE ListUnlock(c)
  <2>1. UNCHANGED links
    BY <1>5 DEF ListUnlock, links
  <2>2. StillMembers(c)
    BY <1>5, MembersStay DEF ListUnlock, CreateStep, ExitStep, LookupStep
  <2>3. LinkInv(c)'
    BY <1>0, <1>5 DEF ListUnlock, LinkInv, Go, Return, InAdd, TableTypeOK
  <2>4. StillWalk(c)
    BY <1>0, <1>5, WalkElsewhere DEF ListUnlock, Go, Return, TableTypeOK
  <2> QED BY <1>5, <2>1, <2>2, <2>3, <2>4, QuietKeeps DEF ListUnlock
<1> QED BY <1>1, <1>2, <1>3, <1>4, <1>5

(* ... of proc_exit, ...                                                   *)
LEMMA ExitKeepsRing ==
    ASSUME TableInv, PhaseInv, RingInv, ~raced, NEW c \in Core, OnlyCore(c), StatusGrows,
           \A d \in Core \ {c} : at'[d] = at[d],
           \/ DelRead(c)
           \/ \E p \in Pid : Exit(c, p)
    PROVE  RingInv'
<1>0. TableTypeOK /\ CoreInv(c) /\ PlaceInv(c) /\ LinkInv(c)
  BY DEF TableInv, PhaseInv, RingInv
<1>1. CASE DelRead(c)
  <2>1. UNCHANGED links
    BY <1>1 DEF DelRead, links
  <2>2. StillMembers(c)
    BY <1>1, MembersStay DEF DelRead, CreateStep, ExitStep, LookupStep
  <2>3. LinkInv(c)'
    <3>1. /\ pc'[c] = "del_next_prev" /\ arg[c] \in Pid /\ field[c] \in Field
          /\ next' = next /\ prev' = prev /\ field' = field /\ arg' = arg /\ status' = status
          /\ left'[c] = prev[field[c]][arg[c]] /\ right'[c] = next[field[c]][arg[c]]
      BY <1>0, <1>1 DEF DelRead, CoreInv, Go, links, procs, InDel, TableTypeOK
    <3>2. Linked(c, field[c]) /\ Owns(c)
      BY <1>1 DEF DelRead, Linked, Owns, InDel
    <3>3. Old(right'[c])
      BY <3>1, <3>2, OwnMember, MemberNext
    <3> QED BY <3>1, <3>3 DEF LinkInv, Old, InAdd
  <2>4. StillWalk(c)
    BY <1>0, <1>1, WalkElsewhere DEF DelRead, Go, Return, TableTypeOK
  <2> QED BY <1>1, <2>1, <2>2, <2>3, <2>4, QuietKeeps DEF DelRead
<1>2. ASSUME NEW p \in Pid, Exit(c, p) PROVE RingInv'
  <2>1. UNCHANGED links
    BY <1>2 DEF Exit, links
  <2>2. StillMembers(c)
    BY <1>2, MembersStay DEF Exit, CreateStep, ExitStep, LookupStep
  <2>3. LinkInv(c)'
    BY <1>0, <1>2 DEF Exit, LinkInv, Go, Return, InAdd, TableTypeOK
  <2>4. StillWalk(c)
    BY <1>0, <1>2, WalkElsewhere DEF Exit, Go, Return, TableTypeOK
  <2> QED BY <1>2, <2>1, <2>2, <2>3, <2>4, QuietKeeps DEF Exit
<1> QED BY <1>1, <1>2

(* ... and of get_process.                                                 *)
LEMMA LookupKeepsRing ==
    ASSUME TableInv, PhaseInv, RingInv, ~raced, NEW c \in Core, OnlyCore(c), StatusGrows,
           \A d \in Core \ {c} : at'[d] = at[d],
           \/ WalkLock(c)
           \/ WalkStep(c)
           \/ WalkEnd(c)
           \/ \E p \in Pid : Lookup(c, p)
    PROVE  RingInv'
<1>0. TableTypeOK /\ CoreInv(c) /\ PlaceInv(c) /\ LinkInv(c)
  BY DEF TableInv, PhaseInv, RingInv
<1>1. CASE WalkLock(c)
  <2>1. UNCHANGED links
    BY <1>1 DEF WalkLock, links
  <2>2. StillMembers(c)
    BY <1>1, MembersStay DEF WalkLock, CreateStep, ExitStep, LookupStep
  <2>3. LinkInv(c)'
    BY <1>0, <1>1 DEF WalkLock, LinkInv, Go, Return, InAdd, TableTypeOK
  <2>4. StillWalk(c)
    BY <1>1, WalkBegins
  <2> QED BY <1>1, <2>1, <2>2, <2>3, <2>4, QuietKeeps DEF WalkLock
<1>2. CASE WalkStep(c)
  <2>1. UNCHANGED links
    BY <1>2 DEF WalkStep, links
  <2>2. StillMembers(c)
    BY <1>2, MembersStay DEF WalkStep, CreateStep, ExitStep, LookupStep
  <2>3. LinkInv(c)'
    BY <1>0, <1>2 DEF WalkStep, LinkInv, Go, Return, InAdd, TableTypeOK
  <2>4. StillWalk(c)
    BY <1>2, WalkMoves
  <2> QED BY <1>2, <2>1, <2>2, <2>3, <2>4, QuietKeeps DEF WalkStep
<1>3. CASE WalkEnd(c)
  <2>1. UNCHANGED links
    BY <1>3 DEF WalkEnd, links
  <2>2. StillMembers(c)
    BY <1>3, MembersStay DEF WalkEnd, CreateStep, ExitStep, LookupStep
  <2>3. LinkInv(c)'
    BY <1>0, <1>3 DEF WalkEnd, LinkInv, Go, Return, InAdd, TableTypeOK
  <2>4. StillWalk(c)
    BY <1>0, <1>3, WalkElsewhere DEF WalkEnd, Go, Return, TableTypeOK
  <2> QED BY <1>3, <2>1, <2>2, <2>3, <2>4, QuietKeeps DEF WalkEnd
<1>4. ASSUME NEW p \in Pid, Lookup(c, p) PROVE RingInv'
  <2>1. UNCHANGED links
    BY <1>4 DEF Lookup, links
  <2>2. StillMembers(c)
    BY <1>4, MembersStay DEF Lookup, CreateStep, ExitStep, LookupStep
  <2>3. LinkInv(c)'
    BY <1>0, <1>4 DEF Lookup, LinkInv, Go, Return, InAdd, TableTypeOK
  <2>4. StillWalk(c)
    BY <1>0, <1>4, WalkElsewhere DEF Lookup, Go, Return, TableTypeOK
  <2> QED BY <1>4, <2>1, <2>2, <2>3, <2>4, QuietKeeps DEF Lookup
<1> QED BY <1>1, <1>2, <1>3, <1>4

-----------------------------------------------------------------------------
(* What right[c] points at is one place of one ring.                       *)
LEMMA AddHalfway ==
    ASSUME TableInv, RingInv, ~raced, NEW c \in Core, OnlyCore(c), AddNextPrev(c),
           NEW f \in Field, f = field[c], NEW h \in HeadsOf(f), NEW n \in Nat,
           NEW q \in [1 .. n -> Pid], Ring(f, h, n, q),
           NEW k \in 0 .. n, Nth(q, n, h, k + 1) = right[c]
    PROVE  Halfway(c, f, h, n, q, k)'
<1>1. /\ pc'[c] = "add_new_next" /\ field'[c] = f /\ left'[c] = left[c]
      /\ left[c] = ListHead(f, arg[c]) /\ right[c] = next[f][left[c]] /\ arg[c] \in Pid
  BY DEF AddNextPrev, TableInv, TableTypeOK, RingInv, LinkInv, CoreInv, InCreate, InAdd,
     Go
<1>2. h \in Heads /\ left[c] \in Heads
  BY <1>1, Nodes, HeadFacts
<1>3. left[c] = h
  <2>1. right[c] = left[c] \/ (right[c] \in Pid /\ ListHead(f, right[c]) = left[c])
    BY <1>1, HeadNext
  <2>2. right[c] = h \/ (right[c] \in Pid /\ ListHead(f, right[c]) = h)
    BY DEF Nth, Ring
  <2> QED BY <1>2, <2>1, <2>2, HeadFacts
<1>4. k = 0
  <2>1. \A i, j \in 1 .. n : q[i] = q[j] => i = j
    BY DEF Ring
  <2>2. /\ Nth(q, n, h, 0) = h
        /\ \A i, j \in 1 .. n + 1 : Nth(q, n, h, i) = Nth(q, n, h, j) => i = j
    BY ONLY <1>2, <2>1, n \in Nat, q \in [1 .. n -> Pid], NthFacts
  <2>3. 0 \in 0 .. n /\ 0 + 1 = 1 /\ 1 \in 1 .. n + 1 /\ k + 1 \in 1 .. n + 1
    OBVIOUS
  <2>4. next[f][h] = Nth(q, n, h, 1)
    BY <2>2, <2>3 DEF Ring
  <2>5. k + 1 = 1
    BY <1>1, <1>3, <2>2, <2>3, <2>4
  <2> QED BY <2>5
<1> QED BY <1>1, <1>3, <1>4 DEF Halfway

LEMMA DelHalfway ==
    ASSUME TableInv, PhaseInv, RingInv, ~raced, NEW c \in Core, OnlyCore(c), DelNextPrev(c),
           NEW f \in Field, f = field[c], NEW h \in HeadsOf(f), NEW n \in Nat,
           NEW q \in [1 .. n -> Pid], Ring(f, h, n, q),
           NEW k \in 0 .. n, Nth(q, n, h, k + 1) = right[c]
    PROVE  Halfway(c, f, h, n, q, k)'
<1>1. /\ pc'[c] = "del_prev_next" /\ field'[c] = f /\ arg'[c] = arg[c]
      /\ right[c] = next[f][arg[c]] /\ arg[c] \in Pid
  BY DEF DelNextPrev, TableInv, TableTypeOK, RingInv, LinkInv, CoreInv, InDel, Go
<1>2. InRing(f, arg[c])
  <2>1. Linked(c, f) /\ Owns(c)
    BY DEF DelNextPrev, Linked, Owns, InDel
  <2> QED BY <2>1, OwnMember
<1>3. h \in Heads /\ ListHead(f, arg[c]) \in Heads
  BY <1>1, Nodes, HeadFacts
<1>4. ListHead(f, arg[c]) = h
  <2>1. \/ right[c] = ListHead(f, arg[c])
        \/ (right[c] \in Pid /\ ListHead(f, right[c]) = ListHead(f, arg[c]))
    BY <1>1, <1>2, MemberNext
  <2>2. right[c] = h \/ (right[c] \in Pid /\ ListHead(f, right[c]) = h)
    BY DEF Nth, Ring
  <2> QED BY <1>3, <2>1, <2>2, HeadFacts
<1>5. PICK i \in 1 .. n : q[i] = arg[c]
  BY <1>1, <1>2, <1>4 DEF Ring
<1>6. k = i
  <2>1. \A a, b \in 1 .. n : q[a] = q[b] => a = b
    BY DEF Ring
  <2>2. \A a, b \in 1 .. n + 1 : Nth(q, n, h, a) = Nth(q, n, h, b) => a = b
    BY ONLY <1>3, <2>1, n \in Nat, q \in [1 .. n -> Pid], NthFacts
  <2>3. i \in 0 .. n /\ i + 1 \in 1 .. n + 1 /\ k + 1 \in 1 .. n + 1 /\ Nth(q, n, h, i) = q[i]
    BY DEF Nth
  <2>4. next[f][arg[c]] = Nth(q, n, h, i + 1)
    BY <1>5, <2>3 DEF Ring
  <2>5. k + 1 = i + 1
    BY <1>1, <2>2, <2>3, <2>4
  <2> QED BY <2>5
<1>7. Nth(q, n, h, k) = arg[c]
  BY <1>5, <1>6 DEF Nth
<1> QED BY <1>1, <1>7 DEF Halfway

(* The steps that store a link.  First the two that come halfway, ...      *)
LEMMA HalfKeepsRing ==
    ASSUME TableInv, PhaseInv, RingInv, ~raced, NEW c \in Core, OnlyCore(c), StatusGrows,
           \A d \in Core \ {c} : at'[d] = at[d],
           AddNextPrev(c) \/ DelNextPrev(c)
    PROVE  RingInv'
<1>0. TableTypeOK /\ CoreInv(c) /\ PlaceInv(c) /\ LinkInv(c)
  BY DEF TableInv, PhaseInv, RingInv
<1>1. PICK f \in Field : f = field[c]
  BY <1>0 DEF TableTypeOK
<1>2. /\ pc'[c] # "walk" /\ pc[c] \in InAdd \cup InDel
      /\ next' = next
      /\ \A g \in Field, n \in Node : (g = field[c] /\ n = right[c]) \/ prev'[g][n] = prev[g][n]
      /\ pc[c] \in {"add_next_prev", "del_next_prev"}
  <2>1. CASE AddNextPrev(c)
    BY <1>0, <1>1, <2>1 DEF AddNextPrev, Go, Store, InAdd, TableTypeOK
  <2>2. CASE DelNextPrev(c)
    BY <1>0, <1>1, <2>2 DEF DelNextPrev, Go, Store, InDel, TableTypeOK
  <2> QED BY <2>1, <2>2
<1>3. \A d \in Core \ {c} : LinkInv(d)'
  BY <1>2, LinkOthers
<1>4. StillMembers(c) /\ StillWalk(c)
  BY <1>2, MembersStay, WalkElsewhere DEF CreateStep, ExitStep
<1>6. CASE AddNextPrev(c)
  <2>1. LinkInv(c)'
    BY <1>0, <1>6 DEF AddNextPrev, LinkInv, Go, Store, procs, InAdd, TableTypeOK, Old,
       ListHead, Bucket
  <2>2. ASSUME NEW g \in Field, g = field[c], NEW h \in HeadsOf(g), NEW n \in Nat,
               NEW q \in [1 .. n -> Pid], Ring(g, h, n, q),
               NEW k \in 0 .. n, Nth(q, n, h, k + 1) = right[c]
        PROVE  Halfway(c, g, h, n, q, k)'
    BY <1>6, <2>2, AddHalfway
  <2>3. \A g \in Field : \A h \in HeadsOf(g) : OneRing(g, h)'
    BY <1>2, <1>4, <2>2, HalfRing
  <2> QED BY <1>3, <2>1, <2>3, RingAll
<1>7. CASE DelNextPrev(c)
  <2>1. LinkInv(c)'
    <3>1. InRing(f, arg[c]) /\ arg[c] \in Pid
      <4>1. Linked(c, f) /\ Owns(c)
        BY <1>1, <1>7 DEF DelNextPrev, Linked, Owns, InDel
      <4> QED BY <4>1, OwnMember
    <3>2. right[c] # arg[c]
      BY <1>0, <1>1, <1>7, <3>1, MemberNext DEF DelNextPrev, LinkInv
    <3> QED BY <1>0, <1>7, <3>2 DEF DelNextPrev, LinkInv, Go, Store, procs, InAdd,
         TableTypeOK, Old
  <2>2. ASSUME NEW g \in Field, g = field[c], NEW h \in HeadsOf(g), NEW n \in Nat,
               NEW q \in [1 .. n -> Pid], Ring(g, h, n, q),
               NEW k \in 0 .. n, Nth(q, n, h, k + 1) = right[c]
        PROVE  Halfway(c, g, h, n, q, k)'
    BY <1>7, <2>2, DelHalfway
  <2>3. \A g \in Field : \A h \in HeadsOf(g) : OneRing(g, h)'
    BY <1>2, <1>4, <2>2, HalfRing
  <2> QED BY <1>3, <2>1, <2>3, RingAll
<1> QED BY <1>6, <1>7

(* ... then those that store links of an entry that is in no list: ...     *)
LEMMA CreateFirstRing ==
    ASSUME TableInv, PhaseInv, RingInv, ~raced, NEW c \in Core, OnlyCore(c), StatusGrows,
           \A d \in Core \ {c} : at'[d] = at[d], Create(c)
    PROVE  RingInv'
<1>0. TableTypeOK /\ PlaceInv(c) /\ pc[c] = "idle" /\ pc'[c] = "list_lock"
  BY DEF TableInv, PhaseInv, TableTypeOK, Create, Go
<1>1. PICK x \in Pid : x = next_pid /\ status[x] = "none"
  BY <1>0, TableAssumption DEF Create, TableTypeOK, Pid, TableInv, PidInv
<1>2. \A f \in Field, n \in Node \ {x} : next'[f][n] = next[f][n] /\ prev'[f][n] = prev[f][n]
  BY <1>0, <1>1 DEF Create, TableTypeOK
<1>3. \A f \in Field : ~InRing(f, x)
  BY <1>1, MembersOld
<1>4. StillMembers(c)
  BY <1>0, MembersStay DEF CreateStep
<1>5. \A f \in Field, h \in Heads, n \in Nat : \A q \in [1 .. n -> Pid] : \A k \in 0 .. n :
         Halfway(c, f, h, n, q, k) => Halfway(c, f, h, n, q, k)'
  BY <1>0 DEF Halfway
<1>6. \A f \in Field, n \in Node : Old(n) => next'[f][n] = next[f][n] /\ prev'[f][n] = prev[f][n]
  BY <1>1, <1>2 DEF Old
<1>7. \A d \in Core \ {c} : LinkInv(d)'
  BY <1>6, LinkOthers
<1>8. LinkInv(c)'
  BY <1>0 DEF LinkInv, InAdd
<1>9. StillWalk(c)
  BY <1>0, WalkElsewhere
<1>10. \A f \in Field : \A h \in HeadsOf(f) : OneRing(f, h)'
  BY <1>2, <1>3, <1>4, <1>5, <1>9, AsideRing
<1> QED BY <1>7, <1>8, <1>10, RingAll

LEMMA AsideKeepsRing ==
    ASSUME TableInv, PhaseInv, RingInv, ~raced, NEW c \in Core, OnlyCore(c), StatusGrows,
           \A d \in Core \ {c} : at'[d] = at[d],
           AddNewNext(c) \/ AddNewPrev(c) \/ Poison(c)
    PROVE  RingInv'
<1>0. TableTypeOK /\ CoreInv(c) /\ PlaceInv(c) /\ LinkInv(c)
  BY DEF TableInv, PhaseInv, RingInv
<1>1. PICK x \in Pid : x = arg[c]
  BY <1>0 DEF AddNewNext, AddNewPrev, Poison, CoreInv, InCreate, InAdd, InDel
<1>2. PICK f \in Field : f = field[c]
  BY <1>0 DEF TableTypeOK
<1>3. /\ pc[c] \in InAdd \cup InDel /\ pc'[c] # "walk"
      /\ pc[c] \notin {"add_prev_next", "del_prev_next"}
      /\ \A g \in Field, n \in Node : g # f \/ n # x =>
            next'[g][n] = next[g][n] /\ prev'[g][n] = prev[g][n]
      /\ \A g \in Field : g # f => next'[g] = next[g] /\ prev'[g] = prev[g]
  BY <1>0, <1>1, <1>2 DEF AddNewNext, AddNewPrev, Poison, Store, Go, Return, InAdd, InDel,
     TableTypeOK
<1>4. ~InRing(f, x)
  <2>1. ~Linked(c, f) /\ Owns(c)
    BY <1>2 DEF AddNewNext, AddNewPrev, Poison, Linked, Entered, Owns, InCreate, InAdd,
       InDel
  <2> QED BY <1>1, <2>1, OwnMember
<1>5. StillMembers(c)
  BY <1>3, MembersStay DEF CreateStep, ExitStep
<1>6. \A g \in Field, h \in Heads, n \in Nat : \A q \in [1 .. n -> Pid] : \A k \in 0 .. n :
         Halfway(c, g, h, n, q, k) => Halfway(c, g, h, n, q, k)'
  BY <1>0 DEF Halfway, AddNewNext, AddNewPrev, Poison, Go, TableTypeOK
<1>7. \A d \in Core \ {c} : LinkInv(d)'
  BY <1>3, LinkOthers
<1>8. StillWalk(c)
  BY <1>3, WalkElsewhere
<1>9. LinkInv(c)'
  <2>1. pc[c] \in InAdd \ {"add"} => left[c] # x /\ right[c] # x
    <3>1. SUFFICES ASSUME pc[c] \in InAdd \ {"add"} PROVE left[c] # x /\ right[c] # x
      OBVIOUS
    <3>2. left[c] = ListHead(f, x) /\ right[c] = next[f][ListHead(f, x)] /\ left[c] \in Heads
      BY <1>0, <1>1, <1>2, <3>1, Nodes DEF LinkInv
    <3>3. right[c] # x
      BY <1>4, <3>2, HeadNext, HeadFacts
    <3> QED BY <3>2, <3>3, HeadFacts
  <2>2. CASE AddNewNext(c)
    BY <1>0, <1>1, <1>2, <2>1, <2>2 DEF AddNewNext, LinkInv, Go, Store, procs, InAdd,
       TableTypeOK, Old, ListHead, Bucket
  <2>3. CASE AddNewPrev(c)
    BY <1>0, <1>1, <1>2, <2>1, <2>3 DEF AddNewPrev, LinkInv, Go, Store, procs, InAdd,
       TableTypeOK, Old, ListHead, Bucket
  <2>4. CASE Poison(c)
    BY <1>0, <2>4 DEF Poison, LinkInv, Go, Return, InAdd, TableTypeOK
  <2> QED BY <2>2, <2>3, <2>4
<1>10. \A g \in Field : \/ ~InRing(g, x)
                        \/ next'[g] = next[g] /\ prev'[g] = prev[g]
  BY <1>3, <1>4
<1>11. \A g \in Field, n \in Node \ {x} : next'[g][n] = next[g][n] /\ prev'[g][n] = prev[g][n]
  BY <1>3
<1>12. \A g \in Field : \A h \in HeadsOf(g) : OneRing(g, h)'
  BY <1>5, <1>6, <1>8, <1>10, <1>11, AsideRing
<1> QED BY <1>7, <1>9, <1>12, RingAll

(* ... and the two that put an entry into a list and take it out.          *)
LEMMA LastKeepsRing ==
    ASSUME TableInv, PhaseInv, RingInv, ~raced, TableInv', PhaseInv',
           NEW c \in Core, OnlyCore(c), StatusGrows,
           AddPrevNext(c) \/ DelPrevNext(c)
    PROVE  RingInv'
<1>1. pc[c] \in InAdd \cup InDel /\ LinkInv(c)'
  BY DEF AddPrevNext, DelPrevNext, LinkInv, Go, InAdd, InDel, TableInv, TableTypeOK
<1>2. \A d \in Core \ {c} : LinkInv(d)'
  BY <1>1, LinkOthers
<1>3. \A f \in Field : \A h \in HeadsOf(f) : OneRing(f, h)'
  BY AddRings, DelRings
<1> QED BY <1>1, <1>2, <1>3, RingAll

LEMMA RingStep ==
    ASSUME TableInv, PhaseInv, RingInv, TableInv', PhaseInv', TableNext
    PROVE  RingInv'
<1>1. CASE raced'
  BY <1>1 DEF RingInv
<1>2. CASE ~raced'
  <2>1. ~raced
    BY <1>2 DEF TableNext
  <2>2. PICK c \in Core : CreateStep(c) \/ ExitStep(c) \/ LookupStep(c)
    BY DEF TableNext
  <2>3. OnlyCore(c) /\ (\A d \in Core \ {c} : at'[d] = at[d]) /\ StatusGrows
    BY <2>2, CoreStep
  <2>4. CASE CreateStep(c)
    BY <2>1, <2>3, <2>4, CreateKeepsRing, CreateFirstRing, HalfKeepsRing, AsideKeepsRing,
       LastKeepsRing DEF CreateStep
  <2>5. CASE ExitStep(c)
    BY <2>1, <2>3, <2>5, ExitKeepsRing, HalfKeepsRing, AsideKeepsRing,
       LastKeepsRing DEF ExitStep
  <2>6. CASE LookupStep(c)
    BY <2>1, <2>3, <2>6, LookupKeepsRing DEF LookupStep
  <2> QED BY <2>2, <2>4, <2>5, <2>6
<1> QED BY <1>1, <1>2

LEMMA RingInit == TableInit => RingInv
<1> SUFFICES ASSUME TableInit PROVE RingInv
  OBVIOUS
<1>1. \A c \in Core : pc[c] = "idle" /\ LinkInv(c)
  BY DEF TableInit, LinkInv, InAdd
<1>2. ASSUME NEW f \in Field, NEW h \in HeadsOf(f) PROVE OneRing(f, h)
  <2>1. h \in Heads /\ next[f][h] = h /\ prev[f][h] = h
    BY HeadFacts, <1>2 DEF TableInit
  <2>2. PICK q \in [1 .. 0 -> Pid] : TRUE
    <3>1. [k \in 1 .. 0 |-> k] \in [1 .. 0 -> Pid]
      OBVIOUS
    <3> QED BY <3>1
  <2>3. Ring(f, h, 0, q)
    <3>1. \A p \in Pid : ~InRing(f, p)
      BY <1>1 DEF TableInit, InRing, Linked, InCreate, InAdd, InDel
    <3>2. \A k \in 0 .. 0 : Nth(q, 0, h, k) = h /\ Nth(q, 0, h, k + 1) = h
      BY DEF Nth
    <3>3. 1 .. 0 = {}
      OBVIOUS
    <3> QED BY <2>1, <3>1, <3>2, <3>3 DEF Ring
  <2>4. \A c \in Core : WalkAt(c, h, 0, q)
    BY <1>1 DEF WalkAt
  <2> QED BY <2>3, <2>4 DEF OneRing
<1> QED BY <1>1, <1>2 DEF RingInv

LEMMA RingAlways == TableSpec => []RingInv
<1>1. TableInv /\ TableInv' /\ PhaseInv /\ PhaseInv' /\ RingInv /\ [TableNext]_tableVars =>
         RingInv'
  <2>1. TableInv /\ TableInv' /\ PhaseInv /\ PhaseInv' /\ RingInv /\ TableNext => RingInv'
    BY RingStep
  <2>2. RingInv /\ UNCHANGED tableVars => RingInv'
    <3> SUFFICES ASSUME RingInv, UNCHANGED tableVars PROVE RingInv'
      OBVIOUS
    <3>1. /\ next' = next /\ prev' = prev /\ status' = status /\ pc' = pc /\ field' = field
          /\ arg' = arg /\ left' = left /\ right' = right /\ at' = at /\ raced' = raced
      BY DEF tableVars, links, procs, walk
    <3>2. \A c \in Core : LinkInv(c)' <=> LinkInv(c)
      BY <3>1 DEF LinkInv, Old, ListHead, Bucket
    <3>3. \A f, p : InRing(f, p)' <=> InRing(f, p)
      BY <3>1 DEF InRing, Linked, Entered
    <3>4. ASSUME NEW f \in Field, NEW h \in HeadsOf(f), OneRing(f, h) PROVE OneRing(f, h)'
      <4>1. PICK n \in Nat : \E q \in [1 .. n -> Pid] :
               /\ Ring(f, h, n, q)
               /\ f = "process_hash_list" => \A d \in Core : WalkAt(d, h, n, q)
        BY <3>4 DEF OneRing
      <4>2. PICK q \in [1 .. n -> Pid] :
               /\ Ring(f, h, n, q)
               /\ f = "process_hash_list" => \A d \in Core : WalkAt(d, h, n, q)
        BY <4>1
      <4>3. \A d \in Core, k \in 0 .. n : Halfway(d, f, h, n, q, k)' <=> Halfway(d, f, h, n, q, k)
        BY <3>1 DEF Halfway
      <4>4. Ring(f, h, n, q)'
        BY <3>1, <3>3, <4>2, <4>3 DEF Ring, ListHead, Bucket, Nth
      <4>5. \A d \in Core : WalkAt(d, h, n, q)' <=> WalkAt(d, h, n, q)
        BY <3>1 DEF WalkAt, ListHead, Bucket, Nth
      <4> QED BY <4>2, <4>4, <4>5 DEF OneRing
    <3> QED BY <3>1, <3>2, <3>4 DEF RingInv, HeadsOf, ListHead, Bucket
  <2> QED BY <2>1, <2>2
<1> QED BY <1>1, RingInit, TableInvariant, PhaseAlways, PTL DEF TableSpec

-----------------------------------------------------------------------------
(* Induction: a set of naturals that is not empty has a least element.     *)
LEMMA Least ==
    ASSUME NEW S \in SUBSET Nat, S # {}
    PROVE  \E n \in S : \A m \in S : n <= m
<1> DEFINE T == {0 .. n : n \in S}
<1>1. T \subseteq FiniteSubsetsOf(Nat) /\ T # {}
  <2>1. \A n \in S : 0 .. n \in SUBSET Nat /\ IsFiniteSet(0 .. n)
    BY FS_Interval
  <2> QED BY <2>1 DEF FiniteSubsetsOf
<1>2. IsWellFoundedOn(StrictSubsetOrdering(Nat), FiniteSubsetsOf(Nat))
  BY FS_StrictSubsetOrderingWellFounded
<1>3. PICK x \in T : \A y \in T : ~(<<y, x>> \in StrictSubsetOrdering(Nat))
  BY <1>1, <1>2, WFMin
<1>4. PICK n \in S : x = 0 .. n
  OBVIOUS
<1>5. ASSUME NEW m \in S, m < n PROVE FALSE
  <2>1. 0 .. m \subseteq 0 .. n /\ n \notin 0 .. m /\ n \in 0 .. n
    BY <1>5
  <2>2. 0 .. m \in T
    OBVIOUS
  <2>3. <<0 .. m, x>> \in StrictSubsetOrdering(Nat)
    BY <1>4, <2>1, <1>5 DEF StrictSubsetOrdering
  <2> QED BY <1>3, <2>2, <2>3
<1> QED BY <1>5

(* A list of different processes is no longer than there are pids.         *)
LEMMA Pigeonhole ==
    ASSUME NEW n \in Nat, NEW q \in [1 .. n -> Pid], \A i, j \in 1 .. n : q[i] = q[j] => i = j
    PROVE  n <= MaxPid
<1>1. IsFiniteSet(1 .. n) /\ Cardinality(1 .. n) = n
  BY FS_Interval
<1>2. IsFiniteSet(Pid) /\ Cardinality(Pid) = MaxPid
  BY FS_Interval, TableAssumption DEF Pid
<1>3. q \in Injection(1 .. n, Pid)
  BY DEF Injection, IsInjective
<1> QED BY <1>1, <1>2, <1>3, FS_Injection

(* After is well defined: the walk of Met takes one step after another.    *)
LEMMA AfterDef ==
    ASSUME NEW link \in [Field -> [Node -> Node]], NEW f \in Field, NEW h \in Node
    PROVE  /\ After(link, f, h)[0] = h
           /\ \A k \in 0 .. MaxPid : After(link, f, h)[k + 1] = link[f][After(link, f, h)[k]]
<1> DEFINE Walks(m, w) == /\ w[0] = h
                          /\ \A k \in 0 .. m - 1 : w[k + 1] = link[f][w[k]]
<1> DEFINE S == {m \in Nat : ~\E w \in [0 .. m -> Node] : Walks(m, w)}
<1>1. S = {}
  <2> SUFFICES ASSUME S # {} PROVE FALSE
    OBVIOUS
  <2>1. PICK m \in S : \A l \in S : m <= l
    BY Least
  <2>2. CASE m = 0
    <3>1. [k \in 0 .. 0 |-> h] \in [0 .. 0 -> Node] /\ Walks(0, [k \in 0 .. 0 |-> h])
      OBVIOUS
    <3> QED BY <2>2, <3>1
  <2>3. CASE m # 0
    <3>0. m - 1 \in Nat /\ ~(m <= m - 1)
      BY <2>3
    <3>1. m - 1 \in Nat /\ m - 1 \notin S
      <4> HIDE DEF S
      <4> QED BY <2>1, <3>0
    <3>2. PICK w \in [0 .. m - 1 -> Node] : Walks(m - 1, w)
      BY <3>1
    <3> DEFINE v == [k \in 0 .. m |-> IF k = m THEN link[f][w[m - 1]] ELSE w[k]]
    <3>3. v \in [0 .. m -> Node]
      BY <3>1
    <3>4. v[0] = h
      BY <2>3, <3>1, <3>2
    <3>5. ASSUME NEW k \in 0 .. m - 1 PROVE v[k + 1] = link[f][v[k]]
      <4>1. v[k] = w[k]
        OBVIOUS
      <4>2. CASE k = m - 1
        BY <3>1, <4>1, <4>2
      <4>3. CASE k # m - 1
        <5>1. k \in 0 .. (m - 1) - 1 /\ v[k + 1] = w[k + 1]
          BY <3>1, <4>3
        <5> QED BY <3>2, <4>1, <5>1
      <4> QED BY <4>2, <4>3
    <3>6. Walks(m, v)
      BY <3>4, <3>5
    <3> QED BY <3>3, <3>6
  <2> QED BY <2>2, <2>3
<1>2. MaxPid \in Nat /\ MaxPid + 1 \in Nat /\ 0 \in 0 .. MaxPid + 1
  BY TableAssumption
<1>3. PICK w \in [0 .. MaxPid + 1 -> Node] : Walks(MaxPid + 1, w)
  BY <1>1, <1>2
<1> DEFINE Eq(s) == s = [k \in 0 .. MaxPid + 1 |-> IF k = 0 THEN h ELSE link[f][s[k - 1]]]
<1>4. Eq(w)
  <2>1. ASSUME NEW k \in 0 .. MaxPid + 1 PROVE w[k] = IF k = 0 THEN h ELSE link[f][w[k - 1]]
    <3>1. CASE k = 0
      BY <1>3, <3>1
    <3>2. CASE k # 0
      <4>1. k - 1 \in 0 .. (MaxPid + 1) - 1 /\ (k - 1) + 1 = k
        BY <1>2, <3>2
      <4> QED BY <1>3, <3>2, <4>1
    <3> QED BY <3>1, <3>2
  <2> QED BY <2>1
<1>5. After(link, f, h) = CHOOSE s : Eq(s)
  BY DEF After
<1> HIDE DEF Walks, S
<1>6. Eq(CHOOSE s : Eq(s))
  BY <1>4
<1>7. Eq(After(link, f, h))
  BY <1>5, <1>6
<1>8. ASSUME NEW s, Eq(s) PROVE s[0] = h /\ \A k \in 0 .. MaxPid : s[k + 1] = link[f][s[k]]
  <2>1. s[0] = h
    BY <1>2, <1>8
  <2>2. ASSUME NEW k \in 0 .. MaxPid PROVE s[k + 1] = link[f][s[k]]
    <3>1. k + 1 \in 0 .. MaxPid + 1 /\ k + 1 # 0 /\ (k + 1) - 1 = k
      BY <1>2
    <3> QED BY <1>8, <3>1
  <2> QED BY <2>1, <2>2
<1> QED BY <1>7, <1>8

(* A walk that is back at its head after n processes meets exactly them.   *)
Round(link, f, h, n, w) ==
    /\ w[0] = h /\ w[n + 1] = h
    /\ \A k \in 1 .. n : w[k] \in Pid
    /\ \A k \in 0 .. n : link[f][w[k]] = w[k + 1]

LEMMA MetRound ==
    ASSUME NEW link \in [Field -> [Node -> Node]], NEW f \in Field, NEW h \in Heads,
           NEW n \in 0 .. MaxPid, NEW w, Round(link, f, h, n, w)
    PROVE  \A p : p \in Met(link, f, h) <=> \E k \in 1 .. n : w[k] = p
<1>0. h \in Node /\ h \notin Pid /\ MaxPid \in Nat
  BY HeadFacts, TableAssumption
<1>r. /\ w[0] = h /\ w[n + 1] = h
      /\ \A k \in 1 .. n : w[k] \in Pid
      /\ \A k \in 0 .. n : link[f][w[k]] = w[k + 1]
  BY DEF Round
<1> DEFINE s == After(link, f, h)
<1>1. s[0] = h /\ \A k \in 0 .. MaxPid : s[k + 1] = link[f][s[k]]
  BY <1>0, AfterDef
<1> HIDE DEF s
<1> DEFINE S == {k \in Nat : k <= n + 1 /\ s[k] # w[k]}
<1>2. S = {}
  <2> SUFFICES ASSUME S # {} PROVE FALSE
    OBVIOUS
  <2>1. PICK k \in S : \A l \in S : k <= l
    BY Least
  <2>2. CASE k = 0
    BY <1>1, <1>r, <2>2
  <2>3. CASE k # 0
    <3>0. /\ k - 1 \in 0 .. n /\ k - 1 \in 0 .. MaxPid /\ (k - 1) + 1 = k
          /\ k - 1 \in Nat /\ k - 1 <= n + 1 /\ ~(k <= k - 1)
      BY <1>0, <2>3
    <3>1. k - 1 \notin S
      <4> HIDE DEF S
      <4> QED BY <2>1, <3>0
    <3>2. s[k - 1] = w[k - 1]
      BY <3>0, <3>1
    <3> QED BY <1>1, <1>r, <3>0, <3>2
  <2> QED BY <2>2, <2>3
<1>3. \A k \in 0 .. n + 1 : s[k] = w[k]
  BY <1>2
<1> HIDE DEF S
<1>4. \A k \in 1 .. n : s[k] = w[k] /\ s[k] \in Pid
  BY <1>3, <1>r
<1>5. s[n + 1] \notin Pid /\ n + 1 \in Nat
  BY <1>0, <1>3, <1>r
<1>6. \A i \in 1 .. MaxPid + 1 : (\A j \in 1 .. i : s[j] \in Pid) <=> i \in 1 .. n
  <2> TAKE i \in 1 .. MaxPid + 1
  <2>1. CASE i \in 1 .. n
    BY <1>4, <2>1
  <2>2. CASE i \notin 1 .. n
    <3>1. n + 1 \in 1 .. i
      BY <1>0, <2>2
    <3> QED BY <1>5, <2>2, <3>1
  <2> QED BY <2>1, <2>2
<1>7. 1 .. n \subseteq 1 .. MaxPid + 1
  BY <1>0
<1>8. Met(link, f, h) = {s[k] : k \in {i \in 1 .. MaxPid + 1 : \A j \in 1 .. i : s[j] \in Pid}}
  BY DEF Met, s
<1>9. {i \in 1 .. MaxPid + 1 : \A j \in 1 .. i : s[j] \in Pid} = 1 .. n
  BY <1>6, <1>7
<1> QED BY <1>4, <1>8, <1>9

-----------------------------------------------------------------------------
(* A walk round n different processes meets exactly them.                  *)
Chain(link, f, h, n, q) ==
    /\ \A i, j \in 1 .. n : q[i] = q[j] => i = j
    /\ \A k \in 0 .. n : link[f][Nth(q, n, h, k)] = Nth(q, n, h, k + 1)

LEMMA MetChain ==
    ASSUME NEW link \in [Field -> [Node -> Node]], NEW f \in Field, NEW h \in Heads,
           NEW n \in Nat, NEW q \in [1 .. n -> Pid], Chain(link, f, h, n, q)
    PROVE  \A p : p \in Met(link, f, h) <=> p \in Pid /\ \E k \in 1 .. n : q[k] = p
<1>1. n \in 0 .. MaxPid
  BY Pigeonhole, TableAssumption DEF Chain
<1> DEFINE w == [k \in 0 .. n + 1 |-> Nth(q, n, h, k)]
<1>2. w[0] = h /\ w[n + 1] = h /\ \A k \in 1 .. n : w[k] = q[k] /\ w[k] \in Pid
  BY DEF Nth
<1>3. \A k \in 0 .. n : w[k] = Nth(q, n, h, k) /\ w[k + 1] = Nth(q, n, h, k + 1)
  OBVIOUS
<1> HIDE DEF w
<1>4. Round(link, f, h, n, w)
  BY <1>2, <1>3 DEF Round, Chain
<1>5. \A p : p \in Met(link, f, h) <=> \E k \in 1 .. n : w[k] = p
  BY <1>1, <1>4, MetRound
<1>6. \A p : (\E k \in 1 .. n : w[k] = p) <=> p \in Pid /\ \E k \in 1 .. n : q[k] = p
  BY <1>2
<1> QED BY ONLY <1>5, <1>6

(* What a walk meets is what is in the list: along next at every moment, ...*)
LEMMA MetNext ==
    ASSUME TableInv, RingInv, ~raced, NEW f \in Field, NEW h \in HeadsOf(f)
    PROVE  \A p : p \in Met(next, f, h) <=> p \in Pid /\ InRing(f, p) /\ ListHead(f, p) = h
<1>1. h \in Heads /\ next \in [Field -> [Node -> Node]]
  BY HeadFacts DEF TableInv, TableTypeOK
<1>2. PICK n \in Nat : \E q \in [1 .. n -> Pid] : Ring(f, h, n, q)
  BY DEF RingInv, OneRing
<1>3. PICK q \in [1 .. n -> Pid] : Ring(f, h, n, q)
  BY <1>2
<1>4. Chain(next, f, h, n, q)
  BY <1>3 DEF Ring, Chain
<1>5. \A p : p \in Met(next, f, h) <=> p \in Pid /\ \E k \in 1 .. n : q[k] = p
  BY <1>1, <1>4, MetChain
<1> QED BY <1>3, <1>5 DEF Ring

(* ... after a step as before it, ...                                      *)
LEMMA MetNextAfter ==
    ASSUME TableInv', RingInv', ~raced', NEW f \in Field, NEW h \in HeadsOf(f)
    PROVE  \A p : p \in Met(next, f, h)' <=> p \in Pid /\ InRing(f, p)' /\ ListHead(f, p) = h
<1>1. h \in Heads /\ next' \in [Field -> [Node -> Node]]
  BY HeadFacts DEF TableInv, TableTypeOK
<1>2. PICK n \in Nat : \E q \in [1 .. n -> Pid] : Ring(f, h, n, q)'
  BY DEF RingInv, OneRing, HeadsOf, ListHead, Bucket
<1>3. PICK q \in [1 .. n -> Pid] : Ring(f, h, n, q)'
  BY <1>2
<1>4. Chain(next', f, h, n, q)
  BY <1>3 DEF Ring, Chain, Nth
<1>5. \A p \in Pid : (\E k \in 1 .. n : q[k] = p) <=> InRing(f, p)' /\ ListHead(f, p) = h
  BY <1>3 DEF Ring, ListHead, Bucket
<1>6. \A p : p \in Met(next', f, h) <=> p \in Pid /\ \E k \in 1 .. n : q[k] = p
  BY <1>1, <1>4, MetChain
<1>7. Met(next, f, h)' = Met(next', f, h)
  BY DEF Met, After
<1> QED BY <1>5, <1>6, <1>7

(* ... and along prev whenever nobody is changing such lists.              *)
LEMMA MetPrev ==
    ASSUME TableInv, RingInv, ~raced, NEW f \in Field, ~Changing(f), NEW h \in HeadsOf(f)
    PROVE  /\ \A p : p \in Met(prev, f, h) <=> p \in Pid /\ InRing(f, p) /\ ListHead(f, p) = h
           /\ \A p \in Pid : InRing(f, p) /\ ListHead(f, p) = h =>
                 prev[f][next[f][p]] = p /\ next[f][prev[f][p]] = p
<1>1. h \in Heads
  BY HeadFacts
<1>2. PICK n \in Nat : \E q \in [1 .. n -> Pid] : Ring(f, h, n, q)
  BY DEF RingInv, OneRing
<1>3. PICK q \in [1 .. n -> Pid] : Ring(f, h, n, q)
  BY <1>2
<1>4. n \in 0 .. MaxPid
  BY <1>3, Pigeonhole, TableAssumption DEF Ring
<1>5. \A k \in 0 .. n : /\ next[f][Nth(q, n, h, k)] = Nth(q, n, h, k + 1)
                        /\ prev[f][Nth(q, n, h, k + 1)] = Nth(q, n, h, k)
  <2>1. \A k \in 0 .. n, c \in Core : ~Halfway(c, f, h, n, q, k)
    BY DEF Changing, Halfway, InAdd, InDel
  <2> QED BY <1>3, <2>1 DEF Ring
<1> DEFINE w == [k \in 0 .. n + 1 |-> Nth(q, n, h, n + 1 - k)]
<1>6. /\ w[0] = h /\ w[n + 1] = h
      /\ \A k \in 1 .. n : w[k] = q[n + 1 - k] /\ w[k] \in Pid
      /\ \A k \in 0 .. n : prev[f][w[k]] = w[k + 1]
  <2>1. w[0] = h /\ w[n + 1] = h /\ \A k \in 1 .. n : w[k] = q[n + 1 - k] /\ w[k] \in Pid
    BY DEF Nth
  <2>2. ASSUME NEW k \in 0 .. n PROVE prev[f][w[k]] = w[k + 1]
    <3>1. /\ n - k \in 0 .. n /\ (n - k) + 1 = n + 1 - k /\ n + 1 - (k + 1) = n - k
          /\ k \in 0 .. n + 1 /\ k + 1 \in 0 .. n + 1
      OBVIOUS
    <3>2. w[k] = Nth(q, n, h, (n - k) + 1) /\ w[k + 1] = Nth(q, n, h, n - k)
      BY <3>1
    <3> QED BY <1>5, <3>1, <3>2
  <2> QED BY <2>1, <2>2
<1>7. prev \in [Field -> [Node -> Node]]
  BY DEF TableInv, TableTypeOK
<1> HIDE DEF w
<1>8. \A p : p \in Met(prev, f, h) <=> \E k \in 1 .. n : w[k] = p
  <2>1. Round(prev, f, h, n, w)
    BY <1>6 DEF Round
  <2> QED BY <1>1, <1>4, <1>7, <2>1, MetRound
<1>9. \A p : (\E k \in 1 .. n : w[k] = p) <=> \E k \in 1 .. n : q[k] = p
  <2> SUFFICES ASSUME NEW p
               PROVE  (\E k \in 1 .. n : w[k] = p) <=> \E k \in 1 .. n : q[k] = p
    OBVIOUS
  <2>1. ASSUME NEW k \in 1 .. n, w[k] = p PROVE \E j \in 1 .. n : q[j] = p
    <3>1. n + 1 - k \in 1 .. n
      OBVIOUS
    <3> QED BY <1>6, <2>1, <3>1
  <2>2. ASSUME NEW k \in 1 .. n, q[k] = p PROVE \E j \in 1 .. n : w[j] = p
    <3>1. n + 1 - k \in 1 .. n /\ n + 1 - (n + 1 - k) = k
      OBVIOUS
    <3>2. w[n + 1 - k] = q[k]
      BY <1>6, <3>1
    <3> QED BY <2>2, <3>1, <3>2
  <2> QED BY <2>1, <2>2
<1>10. \A p : p \in Met(prev, f, h) <=> p \in Pid /\ InRing(f, p) /\ ListHead(f, p) = h
  <2>1. \A p \in Pid : (\E k \in 1 .. n : w[k] = p) <=> InRing(f, p) /\ ListHead(f, p) = h
    BY <1>3, <1>9 DEF Ring
  <2>2. \A p : (\E k \in 1 .. n : w[k] = p) => p \in Pid
    BY <1>6
  <2> QED BY ONLY <1>8, <2>1, <2>2
<1>11. ASSUME NEW p \in Pid, InRing(f, p), ListHead(f, p) = h
       PROVE  prev[f][next[f][p]] = p /\ next[f][prev[f][p]] = p
  <2>1. PICK k \in 1 .. n : q[k] = p
    BY <1>3, <1>11 DEF Ring
  <2>2. k \in 0 .. n /\ k - 1 \in 0 .. n /\ (k - 1) + 1 = k /\ Nth(q, n, h, k) = p
    BY <2>1 DEF Nth
  <2> QED BY <1>5, <2>2
<1> QED BY <1>10, <1>11

(* The members of the lists are the processes that Settled names.          *)
LEMMA RingSettled ==
    ASSUME TableInv, PhaseInv, NEW f \in Field, ~Changing(f), NEW p \in Pid
    PROVE  InRing(f, p) <=> p \in Settled(f)
<1>1. ASSUME InRing(f, p), status[p] # "live" PROVE p \in Settled(f)
  <2>1. PICK c \in Core : arg[c] = p /\ Linked(c, f)
    BY <1>1 DEF InRing
  <2>2. CoreInv(c)
    BY DEF TableInv
  <2>3. CASE pc[c] \in InCreate /\ Entered(c, f)
    BY <2>1, <2>2, <2>3 DEF CoreInv, Settled
  <2>4. CASE pc[c] \in InDel
    BY <2>1, <2>2, <2>4 DEF CoreInv, Settled, Linked, Changing, InCreate, InAdd, InDel
  <2> QED BY <2>1, <2>3, <2>4 DEF Linked
<1>2. ASSUME p \in Settled(f), status[p] # "live" PROVE InRing(f, p)
  <2>1. CASE status[p] = "dying" /\ f = "process_hash_list"
    <3>1. PICK c \in Core : pc[c] \in InDel /\ arg[c] = p
      BY <2>1 DEF PhaseInv, DyingInv
    <3>2. field[c] = "process_list"
      BY <2>1, <3>1 DEF Changing, TableInv, TableTypeOK, Field
    <3> QED BY <2>1, <3>1, <3>2 DEF InRing, Linked
  <2>2. CASE status[p] = "new" /\ \E c \in Core : arg[c] = p /\ Entered(c, f)
    <3>1. PICK c \in Core : arg[c] = p /\ Entered(c, f)
      BY <2>2
    <3>2. pc[c] \in InCreate
      <4>1. pc[c] \notin InDel
        BY <2>2, <3>1 DEF TableInv, CoreInv
      <4>2. PlaceInv(c) /\ TableTypeOK
        BY DEF PhaseInv, TableInv
      <4> QED BY <3>1, <4>1, <4>2 DEF PlaceInv, Entered, TableTypeOK, InCreate
    <3> QED BY <3>1, <3>2 DEF InRing, Linked
  <2> QED BY <1>2, <2>1, <2>2 DEF Settled
<1>3. status[p] = "live" => InRing(f, p) /\ p \in Settled(f)
  BY DEF InRing, Settled
<1> QED BY <1>1, <1>2, <1>3

(* Until a removal overlaps another access, both links of every list lead  *)
(* round exactly the processes proc_create has entered and proc_exit has   *)
(* not unlinked, whenever nobody is inside list_add or list_del: for every *)
(* number of cores, processes and buckets.                                 *)
THEOREM ListsStayRight == TableSpec => []ListsRight
<1>1. TableInv /\ PhaseInv /\ RingInv => ListsRight
  <2> SUFFICES ASSUME TableInv, PhaseInv, RingInv, ~raced, NEW f \in Field, ~Changing(f),
                      NEW h \in HeadsOf(f)
               PROVE  LET members == {p \in Settled(f) : ListHead(f, p) = h}
                      IN  /\ Met(next, f, h) = members
                          /\ Met(prev, f, h) = members
                          /\ \A p \in members : prev[f][next[f][p]] = p /\ next[f][prev[f][p]] = p
    BY DEF ListsRight
  <2> DEFINE members == {p \in Settled(f) : ListHead(f, p) = h}
  <2>1. \A p : p \in members <=> p \in Pid /\ InRing(f, p) /\ ListHead(f, p) = h
    <3>1. Settled(f) \subseteq Pid
      BY DEF Settled
    <3> QED BY <3>1, RingSettled
  <2> HIDE DEF members
  <2>2. Met(next, f, h) = members
    BY <2>1, MetNext
  <2>3. Met(prev, f, h) = members
    BY <2>1, MetPrev
  <2>4. \A p \in members : prev[f][next[f][p]] = p /\ next[f][prev[f][p]] = p
    BY <2>1, MetPrev
  <2> QED BY <2>2, <2>3, <2>4 DEF members
<1> QED BY <1>1, TableInvariant, PhaseAlways, RingAlways, PTL

(* Until then get_process finds a process that lives throughout the walk:  *)
(* a walk that ends at the head of the bucket has passed every member.     *)
THEOREM LiveIsFound == TableSpec => LiveFound
<1> DEFINE Found == \A c \in Core :
               /\ ~raced' /\ pc[c] = "walk" /\ pc'[c] = "idle"
               /\ known[c] /\ status[arg[c]] = "live"
               => at[c] = arg[c]
<1>1. TableInv /\ PhaseInv /\ RingInv /\ [TableNext]_tableVars => [Found]_tableVars
  <2> SUFFICES ASSUME TableInv, PhaseInv, RingInv, TableNext, ~raced',
                      NEW c \in Core, pc[c] = "walk", pc'[c] = "idle", status[arg[c]] = "live"
               PROVE  at[c] = arg[c]
    OBVIOUS
  <2>1. ~raced
    BY DEF TableNext
  <2>2. WalkEnd(c)
    <3>1. PICK d \in Core : CreateStep(d) \/ ExitStep(d) \/ LookupStep(d)
      BY DEF TableNext
    <3>2. OnlyCore(d)
      BY <3>1, CoreStep
    <3>3. d = c
      BY <3>2 DEF OnlyCore
    <3> QED BY <3>1, <3>3 DEF CreateStep, ExitStep, LookupStep, Create, ListLock, HashLock,
         AddRead,
         AddNextPrev, AddNewNext, AddNewPrev, AddPrevNext, HashUnlock, ListUnlock, Exit, DelRead,
         DelNextPrev, DelPrevNext, Poison, Lookup, WalkLock, WalkStep
  <2> DEFINE f == "process_hash_list"
  <2>3. arg[c] \in Pid /\ InRing(f, arg[c])
    BY DEF PhaseInv, PlaceInv, InRing
  <2>4. PICK h \in HeadsOf(f) : h = ListHead(f, arg[c])
    BY <2>3 DEF HeadsOf
  <2>5. PICK n \in Nat : \E q \in [1 .. n -> Pid] : Ring(f, h, n, q) /\ WalkAt(c, h, n, q)
    BY <2>1 DEF RingInv, OneRing, Field
  <2>6. PICK q \in [1 .. n -> Pid] : Ring(f, h, n, q) /\ WalkAt(c, h, n, q)
    BY <2>5
  <2>7. PICK k \in 1 .. n + 1 : at[c] = Nth(q, n, h, k) /\ \A j \in 1 .. k - 1 : q[j] # arg[c]
    BY <2>4, <2>6 DEF WalkAt
  <2>8. PICK i \in 1 .. n : q[i] = arg[c]
    BY <2>3, <2>4, <2>6 DEF Ring
  <2>9. at[c] # h
    <3>1. k <= n
      BY <2>7, <2>8
    <3>2. at[c] \in Pid
      BY <2>7, <3>1 DEF Nth
    <3> QED BY <3>2, HeadFacts DEF Field
  <2> QED BY <2>2, <2>4, <2>9 DEF WalkEnd
<1> QED BY <1>1, TableInvariant, PhaseAlways, RingAlways, PTL DEF TableSpec, LiveFound

(* Until then an entry appears in a list and disappears from it in one     *)
(* store, whatever the other cores are at: a next link of the list always  *)
(* leads on along it.                                                      *)
THEOREM EntriesComeAndGo == TableSpec => OneAtATime
<1> DEFINE One == ~raced' => \A f \in Field : \A h \in HeadsOf(f) :
                  LET before == Met(next, f, h)
                      after  == Met(next, f, h)'
                  IN  before # after =>
                        \/ \E p \in after \ before : status[p] = "new" /\ after = before \cup {p}
                        \/ \E p \in before \ after : status[p] = "dying" /\ after = before \ {p}
<1>1. ASSUME TableInv, TableInv', PhaseInv, RingInv, RingInv', TableNext, ~raced',
             NEW f \in Field, NEW h \in HeadsOf(f)
      PROVE  \/ Met(next, f, h)' = Met(next, f, h)
             \/ \E p \in Met(next, f, h)' \ Met(next, f, h) :
                   status[p] = "new" /\ Met(next, f, h)' = Met(next, f, h) \cup {p}
             \/ \E p \in Met(next, f, h) \ Met(next, f, h)' :
                   status[p] = "dying" /\ Met(next, f, h)' = Met(next, f, h) \ {p}
  <2>1. ~raced
    BY <1>1 DEF TableNext
  <2>2. PICK c \in Core : CreateStep(c) \/ ExitStep(c) \/ LookupStep(c)
    BY <1>1 DEF TableNext
  <2>3. OnlyCore(c)
    BY <1>1, <2>2, CoreStep
  <2>4. \A p : p \in Met(next, f, h) <=> p \in Pid /\ InRing(f, p) /\ ListHead(f, p) = h
    BY <1>1, <2>1, MetNext
  <2>5. \A p : p \in Met(next, f, h)' <=> p \in Pid /\ InRing(f, p)' /\ ListHead(f, p) = h
    BY <1>1, MetNextAfter
  <2>6. CASE pc[c] \notin {"add_prev_next", "del_prev_next"}
    <3>1. \A p \in Pid : InRing(f, p)' <=> InRing(f, p)
      BY <1>1, <2>2, <2>3, <2>6, MembersStay, Members DEF StillMembers
    <3> QED BY <2>4, <2>5, <3>1
  <2>7. CASE pc[c] \in {"add_prev_next", "del_prev_next"}
    <3>1. PICK x \in Pid : x = arg[c]
      BY <1>1, <2>7 DEF TableInv, CoreInv, InCreate, InAdd, InDel
    <3>2. AddPrevNext(c) \/ DelPrevNext(c)
      BY <2>2, <2>7 DEF CreateStep, ExitStep, LookupStep, Create, ListLock, HashLock,
         AddRead,
         AddNextPrev, AddNewNext, AddNewPrev, HashUnlock, ListUnlock, Exit, DelRead,
         DelNextPrev, Poison, Lookup, WalkLock, WalkStep, WalkEnd
    <3>3. arg' = arg /\ status' = status /\ TableTypeOK
      BY <1>1, <3>2 DEF AddPrevNext, DelPrevNext, procs, TableInv
    <3>4. \A p \in Pid : p # x => (InRing(f, p)' <=> InRing(f, p))
      <4>1. \A p \in Pid : p # x => (Mine(c, f, p)' <=> Mine(c, f, p))
        BY <3>1, <3>3 DEF Mine
      <4> QED BY <2>3, <4>1, Members
    <3>5. CASE AddPrevNext(c)
      <4>1. status[x] = "new"
        BY <1>1, <3>1, <3>5 DEF AddPrevNext, TableInv, CoreInv, InCreate, InAdd
      <4>2. InRing(f, x) => InRing(f, x)'
        <5>1. Mine(c, f, x) => Mine(c, f, x)'
          BY <1>1, <3>1, <3>3, <3>5 DEF AddPrevNext, Mine, Linked, Entered, Go, InCreate,
             InAdd,
             InDel, Field, TableTypeOK
        <5> QED BY <2>3, <5>1, Members
      <4> QED BY <2>4, <2>5, <3>4, <4>1, <4>2
    <3>6. CASE DelPrevNext(c)
      <4>1. status[x] = "dying"
        BY <1>1, <3>1, <3>6 DEF DelPrevNext, TableInv, CoreInv, InDel
      <4>2. InRing(f, x)' => InRing(f, x)
        <5>1. Mine(c, f, x)' => Mine(c, f, x)
          BY <1>1, <3>1, <3>3, <3>6 DEF DelPrevNext, Mine, Linked, Entered, Go, InCreate,
             InAdd,
             InDel, Field, TableTypeOK
        <5> QED BY <2>3, <5>1, Members
      <4> QED BY <2>4, <2>5, <3>4, <4>1, <4>2
    <3> QED BY <3>2, <3>5, <3>6
  <2> QED BY <2>6, <2>7
<1>2. TableInv /\ TableInv' /\ PhaseInv /\ RingInv /\ RingInv' /\ [TableNext]_tableVars =>
         [One]_tableVars
  <2> SUFFICES ASSUME TableInv, TableInv', PhaseInv, RingInv, RingInv', TableNext, ~raced',
                      NEW f \in Field, NEW h \in HeadsOf(f)
               PROVE  LET before == Met(next, f, h)
                          after  == Met(next, f, h)'
                      IN  before # after =>
                        \/ \E p \in after \ before : status[p] = "new" /\ after = before \cup {p}
                        \/ \E p \in before \ after : status[p] = "dying" /\ after = before \ {p}
    OBVIOUS
  <2> QED BY <1>1
<1> QED BY <1>2, TableInvariant, PhaseAlways, RingAlways, PTL DEF TableSpec, OneAtATime

=============================================================================
