---------------------------- MODULE ProcSnapshot ----------------------------
(***************************************************************************)
(* The system call proc_snapshot of oscdk: it walks the kernel's list of   *)
(* processes without a lock, while processes are created, end, get a new   *)
(* parent and are removed from the list, then links what it captured into  *)
(* a tree by process id and prints it from init on, level by level.        *)
(*                                                                         *)
(* A process removed from the list keeps its pointer to the next one and   *)
(* its memory as long as a reader may stand on it; its pid is free at once.*)
(* Threads, and their change of leader in exec, are left out.              *)
(***************************************************************************)
EXTENDS Integers, Sequences, SequencesExt

CONSTANTS
    MaxTasks,   \* bound: processes over the whole run, numbered as created
    MaxPid      \* pids are 1 .. MaxPid, reused when free

ASSUME SnapshotAssumption ==
    MaxTasks \in Nat /\ MaxPid \in Nat /\ MaxTasks >= 2 /\ MaxPid >= 2

Procs == 1 .. MaxTasks
init == 1
kthreadd == 2

VARIABLES
    list,    \* the processes in the kernel's list, in order
    after,   \* after[p]: where a process p not in the list still points to
    life,    \* life[p]: "none", "live", "zombie" or "gone"
    pid,     \* pid[p]
    parent,  \* parent[p]: real_parent; 0 is the idle task
    pc,      \* where the call is
    at,      \* the process it looks at; 0 is the head of the list
    nodes,   \* what it captured, not freed yet
    up,      \* up[j]: the node that node j is linked to, or 0
    queue,   \* nodes to print
    out,     \* nodes printed
    ret,     \* "none" or the result
    then     \* the list and the parents when the walk began

kernel == <<list, after, life, pid, parent>>
call == <<pc, at, nodes, up, queue, out, ret, then>>
vars == <<kernel, call>>

Node == [proc : Procs, pid : 1 .. MaxPid, ppid : 0 .. MaxPid]

TypeOK ==
    /\ list \in Seq(Procs)
    /\ after \in [Procs -> Procs \union {0}]
    /\ life \in [Procs -> {"none", "live", "zombie", "gone"}]
    /\ pid \in [Procs -> 0 .. MaxPid]
    /\ parent \in [Procs -> Procs \union {0}]
    /\ pc \in {"idle", "next", "read", "link", "print", "copy", "done"}
    /\ at \in Procs \union {0}
    /\ nodes \in Seq(Node) /\ Len(nodes) <= MaxTasks
    /\ up \in Seq(0 .. Len(nodes))
    /\ queue \in Seq(1 .. Len(nodes)) /\ out \in Seq(1 .. Len(nodes))
    /\ ret \in {"none", "ok", "EINVAL", "ENOMEM", "EMSGSIZE", "EFAULT", "ESRCH"}
    /\ then \in [list : Seq(Procs), parent : [Procs -> Procs \union {0}]]

NotBegun == [list |-> <<>>, parent |-> [p \in Procs |-> 0]]

Init ==
    /\ list = <<init, kthreadd>>
    /\ after = [p \in Procs |-> 0]
    /\ life = [p \in Procs |-> IF p <= 2 THEN "live" ELSE "none"]
    /\ pid = [p \in Procs |-> IF p <= 2 THEN p ELSE 0]
    /\ parent = [p \in Procs |-> 0]
    /\ pc = "idle" /\ at = 0 /\ ret = "none"
    /\ nodes = <<>> /\ up = <<>> /\ queue = <<>> /\ out = <<>>
    /\ then = NotBegun

-----------------------------------------------------------------------------
(* The kernel. *)

Listed == ToSet(list)

Fork(p) ==
    /\ life[p] = "live"
    /\ \E c \in Procs, n \in 1 .. MaxPid :
        /\ life[c] = "none"
        /\ \A d \in Procs : d < c => life[d] # "none"
        /\ \A q \in Listed : pid[q] # n
        /\ life' = [life EXCEPT ![c] = "live"]
        /\ pid' = [pid EXCEPT ![c] = n]
        /\ parent' = [parent EXCEPT ![c] = p]
        /\ list' = Append(list, c)
    /\ UNCHANGED <<after, call>>

Exit(p) ==
    /\ p \notin {init, kthreadd}
    /\ life[p] = "live"
    /\ life' = [life EXCEPT ![p] = "zombie"]
    /\ UNCHANGED <<list, after, pid, parent, call>>

(* In every set that has the parent of p and the parents of its members. *)
Ancestors(p) ==
    {a \in Procs : \A S \in SUBSET Procs :
        parent[p] \in S /\ (\A q \in S : parent[q] \in S \union {0}) => a \in S}

(* The children of a process that ends go to init or to a subreaper, which any
   live ancestor may be, one after the other. *)
Reparent(c) ==
    /\ c \in Listed
    /\ parent[c] \in Procs
    /\ life[parent[c]] = "zombie"
    /\ \E reaper \in {init} \union Ancestors(parent[c]) :
        /\ life[reaper] = "live"
        /\ parent' = [parent EXCEPT ![c] = reaper]
    /\ UNCHANGED <<list, after, life, pid, call>>

Place(p) == CHOOSE i \in 1 .. Len(list) : list[i] = p

(* What follows p in memory, in the list or out of it. *)
Follower(p) ==
    IF p = 0 THEN Head(list)
    ELSE IF p \notin Listed THEN after[p]
    ELSE IF Place(p) < Len(list) THEN list[Place(p) + 1]
    ELSE 0

(* release_task, once its parent has waited for it. *)
Release(p) ==
    /\ p \in Listed
    /\ life[p] = "zombie"
    /\ \A c \in Listed : parent[c] # p
    /\ life[parent[p]] = "live"
    /\ life' = [life EXCEPT ![p] = "gone"]
    /\ after' = [after EXCEPT ![p] = Follower(p)]
    /\ list' = RemoveAt(list, Place(p))
    /\ UNCHANGED <<pid, parent, call>>

-----------------------------------------------------------------------------
(* The walk under rcu_read_lock. *)

(* No buffer to write to, or no memory for one to print into. *)
Refuse ==
    /\ pc = "idle"
    /\ pc' = "done"
    /\ ret' \in {"EINVAL", "ENOMEM"}
    /\ UNCHANGED <<kernel, at, nodes, up, queue, out, then>>

Begin ==
    /\ pc = "idle"
    /\ pc' = "next"
    /\ at' = 0
    /\ then' = [list |-> list, parent |-> parent]
    /\ UNCHANGED <<kernel, nodes, up, queue, out, ret>>

Advance ==
    /\ pc = "next"
    /\ at' = Follower(at)
    /\ pc' = IF Follower(at) = 0 THEN "link" ELSE "read"
    /\ UNCHANGED <<kernel, nodes, up, queue, out, ret, then>>

Capture ==
    /\ pc = "read"
    /\ nodes' = Append(nodes, [proc |-> at, pid |-> pid[at],
                  ppid |-> IF parent[at] = 0 THEN 0 ELSE pid[parent[at]]])
    /\ pc' = "next"
    /\ UNCHANGED <<kernel, at, up, queue, out, ret, then>>

NoMemoryGoesOn ==
    /\ pc = "read"
    /\ pc' = "link"
    /\ UNCHANGED <<kernel, at, nodes, up, queue, out, ret, then>>
NoMemory ==
    /\ pc = "read"
    /\ pc' = "done"
    /\ ret' = "ENOMEM"
    /\ nodes' = <<>>
    /\ UNCHANGED <<kernel, at, up, queue, out, then>>

-----------------------------------------------------------------------------
(* The rest works on the captured nodes alone. *)

NodesWith(n) == {j \in 1 .. Len(nodes) : nodes[j].pid = n}

(* A node is linked to the first one that has its parent's pid. *)
LinkOfLast(j) ==
    IF nodes[j].pid = 1 \/ NodesWith(nodes[j].ppid) = {} THEN 0
    ELSE Max(NodesWith(nodes[j].ppid))
LinkOf(j) ==
    IF nodes[j].pid = 1 \/ NodesWith(nodes[j].ppid) = {} THEN 0
    ELSE Min(NodesWith(nodes[j].ppid))

TheRoot == IF NodesWith(1) # {} THEN Max(NodesWith(1)) ELSE 1

Link ==
    /\ pc = "link"
    /\ \/ /\ nodes # <<>>
          /\ up' = [j \in 1 .. Len(nodes) |-> LinkOf(j)]
          /\ queue' = <<TheRoot>>
          /\ pc' = "print"
          /\ UNCHANGED ret
       \/ /\ nodes = <<>>
          /\ pc' = "done" /\ ret' = "ESRCH"
          /\ UNCHANGED <<up, queue>>
    /\ UNCHANGED <<kernel, at, nodes, out, then>>

InOrder(S) ==
    CHOOSE s \in [1 .. Cardinality(S) -> S] :
        \A i, j \in 1 .. Cardinality(S) : i < j => s[i] < s[j]

(* The nodes linked to j, in the order they were captured. *)
ChildrenByPid(j) ==
    InOrder({i \in 1 .. Len(nodes) : nodes[i].ppid = nodes[j].pid})
Children(j) == InOrder({i \in 1 .. Len(nodes) : up[i] = j})

(* One line, and the children of the node at the end of the queue. *)
PrintLine ==
    /\ pc = "print"
    /\ queue # <<>>
    /\ out' = Append(out, Head(queue))
    /\ queue' = Tail(queue) \o Children(Head(queue))
    /\ UNCHANGED <<kernel, pc, at, nodes, up, ret, then>>

(* The line does not fit into the buffer. *)
Truncate ==
    /\ pc = "print"
    /\ queue # <<>>
    /\ pc' = "copy"
    /\ ret' = "EMSGSIZE"
    /\ UNCHANGED <<kernel, at, nodes, up, queue, out, then>>

Printed ==
    /\ pc = "print"
    /\ queue = <<>>
    /\ pc' = "copy"
    /\ UNCHANGED <<kernel, at, nodes, up, queue, out, ret, then>>

CopyOut ==
    /\ pc = "copy"
    /\ pc' = "done"
    /\ ret' \in {IF ret = "none" THEN "ok" ELSE ret, "EFAULT"}
    /\ UNCHANGED <<kernel, at, nodes, up, queue, out, then>>

(* The nodes are freed. *)
ReturnLeavesNodes ==
    /\ pc = "done"
    /\ pc' = "idle"
    /\ at' = 0 /\ ret' = "none"
    /\ up' = <<>> /\ queue' = <<>> /\ out' = <<>>
    /\ then' = NotBegun
    /\ UNCHANGED <<kernel, nodes>>
Return ==
    /\ pc = "done"
    /\ pc' = "idle"
    /\ at' = 0 /\ ret' = "none"
    /\ nodes' = <<>> /\ up' = <<>> /\ queue' = <<>> /\ out' = <<>>
    /\ then' = NotBegun
    /\ UNCHANGED kernel

-----------------------------------------------------------------------------
(* What the kernel does after the walk cannot be seen by the call. *)
Next ==
    \/ /\ pc \in {"idle", "next", "read"}
       /\ \E p \in Procs : Fork(p) \/ Exit(p) \/ Reparent(p) \/ Release(p)
    \/ Refuse \/ Begin \/ Advance \/ Capture \/ NoMemory
    \/ Link \/ PrintLine \/ Truncate \/ Printed \/ CopyOut \/ Return

Spec == Init /\ [][Next]_vars

-----------------------------------------------------------------------------
Complete == pc = "done" /\ ret = "ok"

(* Every captured process but init and those the idle task started is linked,
   and to one captured before it: pids in use again make no cycle, and the
   loop over the ancestors of a node ends. *)
LinkedBack ==
    pc \in {"print", "copy"} =>
        \A j \in 1 .. Len(nodes) :
            nodes[j].pid # 1 /\ nodes[j].ppid # 0 => up[j] \in 1 .. j - 1

(* A process that was there from the beginning of the walk to its end was
   captured once.  If its parent was there too, and its parent all the time, it
   is linked to it, whatever pids came and went. *)
Stayed(p) == p \in ToSet(then.list) /\ p \in Listed
StayersRight ==
    Complete =>
        \A p \in Procs : Stayed(p) =>
            \E j \in 1 .. Len(nodes) :
                /\ \A i \in 1 .. Len(nodes) : nodes[i].proc = p <=> i = j
                /\ parent[p] \in Procs /\ parent[p] = then.parent[p]
                     => up[j] # 0 /\ nodes[up[j]].proc = parent[p]

(* The tree printed holds every captured process that is not a kernel thread
   exactly once, below and after the process it is linked to. *)
PrintedOnce ==
    Complete =>
        /\ \A i, j \in 1 .. Len(out) : out[i] = out[j] => i = j
        /\ nodes[out[1]].proc = init
        /\ \A i \in 2 .. Len(out) : \E j \in 1 .. i - 1 : out[j] = up[out[i]]
        /\ \A j \in 1 .. Len(nodes) :
            nodes[j].ppid # 0 /\ j \notin ToSet(out)
              => \E i \in 1 .. Len(nodes) :
                    up[j] = i /\ i \notin ToSet(out)
        /\ \A j \in 1 .. Len(nodes) :
            j \notin ToSet(out) /\ nodes[j].ppid = 0 => nodes[j].proc = kthreadd
=============================================================================
