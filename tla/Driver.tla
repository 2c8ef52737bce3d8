------------------------------- MODULE Driver -------------------------------
(***************************************************************************)
(* The kernel module oscddrv: its calls under one mutex, by several tasks  *)
(* on several open files, and its loading and unloading (src/main.c).      *)
(*                                                                         *)
(* A call takes the mutex, decides, copies and accounts in steps of their  *)
(* own, so that what the mutex and the module's use count are for can go   *)
(* wrong if they are missing.  Files are opened through the node that      *)
(* device_create makes.  The per-file counts of reads and writes are left  *)
(* out: nothing in the driver reads them.                                  *)
(***************************************************************************)
EXTENDS Integers, Sequences, FiniteSets

CONSTANTS
    Tasks,      \* threads of user programs
    Files,      \* struct file objects: threads may share one
    Bytes,      \* values of a byte, 0 among them
    InitSize,   \* BUFFER_SIZE (4096)
    MaxSize,    \* the largest size SET_BUFSIZE takes (65536)
    CountMod,   \* bound: the totals are counted modulo this
    Requests    \* the calls of each thread: <<operation, argument, byte>>

ASSUME DriverAssumption ==
    /\ 0 \in Bytes /\ Bytes \subseteq Nat
    /\ MaxSize \in Nat \ {0} /\ InitSize \in 1 .. MaxSize
    /\ CountMod \in Nat \ {0}
    /\ \A t \in Tasks : Requests[t] \subseteq
         {"read", "write", "size", "mode", "stats", "reset", "other"}
           \X Nat \X Bytes
    /\ Files # {} /\ IsFiniteSet(Files) /\ Tasks # {}

VARIABLES
    module,   \* "out", "coming" (init runs), "failing" (its labels run, and to
              \* the kernel the module still comes), "live", "leaving"
    held,     \* what init has acquired and not given back
    undo,     \* failing or leaving, how many stages are still to give back
    mem,      \* the memory at oscddrv_buffer, and what a larger one would get
    bufsize,  \* oscddrv_bufsize
    totals,   \* oscddrv_total_writes and oscddrv_total_reads
    devmode,  \* oscddrv_mode
    file,     \* the offset in the private data of each open file, or -1
    mutex,    \* who holds oscddrv_mutex: a set with at most one task
    task      \* what each task does

vars == <<module, held, undo, mem, bufsize, totals, devmode, file, mutex, task>>
data == <<mem, bufsize, totals, devmode>>
loading == <<module, held, undo>>

Stages == <<"buffer", "region", "cdev", "class", "device">>
Cells == 0 .. MaxSize - 1
NoTotals == [writes |-> 0, reads |-> 0]

(* A result: an error, or what was returned or copied to the caller. *)
NoReply == [err |-> "none", got |-> <<>>]
Fails(err) == [err |-> err, got |-> <<>>]
Returns(got) == [err |-> "ok", got |-> got]

AtRest == [pc |-> "idle", op |-> "none", arg |-> 0, byte |-> 0, len |-> 0,
           on |-> CHOOSE f \in Files : TRUE, ret |-> NoReply]

Replies ==
    [err : {"none", "ok", "EFAULT", "ENOSPC", "EINVAL", "ENOMEM", "ENOTTY"},
     got : Seq(Nat)]

Locals ==
    [pc   : {"idle", "found", "getting", "want", "in", "copy", "count", "hand",
             "done"},
     op   : {"none", "open", "read", "write", "size", "mode", "stats", "reset",
             "other"},
     arg  : Nat,
     byte : Bytes,
     len  : 0 .. MaxSize,
     on   : Files,
     ret  : Replies]

TypeOK ==
    /\ module \in {"out", "coming", "failing", "live", "leaving"}
    /\ held \subseteq {Stages[j] : j \in 1 .. 5}
    /\ undo \in 0 .. 5
    /\ mem \in [Cells -> Bytes]
    /\ bufsize \in 0 .. MaxSize
    /\ totals \in [writes : 0 .. CountMod - 1, reads : 0 .. CountMod - 1]
    /\ devmode \in {0, 1}
    /\ file \in [Files -> 0 .. MaxSize \union {-1}]
    /\ mutex \in SUBSET Tasks
    /\ task \in [Tasks -> Locals]

Init ==
    /\ module = "out"
    /\ held = {}
    /\ undo = 0
    /\ mem = [p \in Cells |-> 0]
    /\ bufsize = 0
    /\ totals = NoTotals
    /\ devmode = 0
    /\ file = [f \in Files |-> -1]
    /\ mutex = {}
    /\ task = [t \in Tasks |-> AtRest]

-----------------------------------------------------------------------------
(* oscddrv_init and oscddrv_exit. *)

(* Assumed: an open that has found the node of one load does not last until
   the next.  cdev_add puts the driver in service before init has finished, so
   a node from before could be opened while init still fails. *)
Insmod ==
    /\ module = "out"
    /\ \A t \in Tasks : task[t].pc # "found"
    /\ module' = "coming"
    /\ bufsize' = InitSize
    /\ totals' = NoTotals
    /\ devmode' = 0
    /\ UNCHANGED <<held, undo, mem, file, mutex, task>>

(* The stages come in order; any of them can fail. *)
Upto(j) == {Stages[i] : i \in 1 .. j}
AtStage(j) == module = "coming" /\ j \in 1 .. 5 /\ held = Upto(j - 1)

Acquire(j) ==
    /\ AtStage(j)
    /\ held' = held \union {Stages[j]}
    /\ mem' = IF j = 1 THEN [p \in Cells |-> 0] ELSE mem
    /\ UNCHANGED <<module, undo, bufsize, totals, devmode, file, mutex, task>>

Loaded ==
    /\ module = "coming"
    /\ held = Upto(5)
    /\ module' = "live"
    /\ UNCHANGED <<held, undo, data, file, mutex, task>>

(* The label that stage j jumps to gives back the stages before it. *)
LabelTooLow(j) == IF j > 1 THEN j - 2 ELSE 0
Label(j) == j - 1

AcquireFails(j) ==
    /\ AtStage(j)
    /\ module' = "failing"
    /\ undo' = Label(j)
    /\ UNCHANGED <<held, data, file, mutex, task>>

(* The use count of the module: open files and opens about to succeed. *)
Users ==
    {f \in Files : file[f] >= 0} \union {t \in Tasks : task[t].pc = "getting"}

RmmodInUse ==
    /\ module = "live"
    /\ module' = "leaving"
    /\ undo' = 5
    /\ UNCHANGED <<held, data, file, mutex, task>>
Rmmod ==
    /\ module = "live"
    /\ Users = {}
    /\ module' = "leaving"
    /\ undo' = 5
    /\ UNCHANGED <<held, data, file, mutex, task>>

GiveBack ==
    /\ module \in {"failing", "leaving"}
    /\ undo > 0
    /\ held' = held \ {Stages[undo]}
    /\ undo' = undo - 1
    /\ UNCHANGED <<module, data, file, mutex, task>>

Left ==
    /\ module \in {"failing", "leaving"}
    /\ undo = 0
    /\ module' = "out"
    /\ UNCHANGED <<held, undo, data, file, mutex, task>>

-----------------------------------------------------------------------------
(* Opening and closing.  The node is found; the kernel takes the module if it
   is not leaving; oscddrv_open may have no memory for its private data. *)

Becomes(t, locals) == task' = [task EXCEPT ![t] = locals]

Find(t) ==
    /\ task[t].pc = "idle"
    /\ "device" \in held
    /\ Becomes(t, [AtRest EXCEPT !.pc = "found", !.op = "open"])
    /\ UNCHANGED <<loading, data, file, mutex>>

Get(t) ==
    /\ task[t].pc = "found"
    /\ Becomes(t, IF "cdev" \in held /\ module # "leaving"
                  THEN [task[t] EXCEPT !.pc = "getting"] ELSE AtRest)
    /\ UNCHANGED <<loading, data, file, mutex>>

Open(t) ==
    /\ task[t].pc = "getting"
    /\ \/ file' = file
       \/ \E f \in Files : file[f] = -1 /\ file' = [file EXCEPT ![f] = 0]
    /\ Becomes(t, AtRest)
    /\ UNCHANGED <<loading, data, mutex>>

(* The last reference to the file is gone: oscddrv_release. *)
InUse(f) ==
    \E t \in Tasks : task[t].on = f
                       /\ task[t].pc \in {"want", "in", "copy", "count", "hand"}
Close(f) ==
    /\ file[f] >= 0
    /\ ~InUse(f)
    /\ file' = [file EXCEPT ![f] = -1]
    /\ UNCHANGED <<loading, data, mutex, task>>

-----------------------------------------------------------------------------
(* Reads, writes and ioctls. *)

(* What the call asks for is looked at under the mutex and chosen there. *)
Call(t, f) ==
    /\ task[t].pc = "idle"
    /\ file[f] >= 0
    /\ Becomes(t, [AtRest EXCEPT !.pc = "want", !.on = f])
    /\ UNCHANGED <<loading, data, file, mutex>>

Asks(t, request) ==
    Becomes(t, [task[t] EXCEPT !.pc = "in", !.op = request[1],
                               !.arg = request[2], !.byte = request[3]])

LockAnyway(t) ==
    /\ task[t].pc = "want"
    /\ mutex' = mutex \union {t}
    /\ \E request \in Requests[t] : Asks(t, request)
    /\ UNCHANGED <<loading, data, file>>
Lock(t) ==
    /\ task[t].pc = "want"
    /\ mutex = {}
    /\ mutex' = {t}
    /\ \E request \in Requests[t] : Asks(t, request)
    /\ UNCHANGED <<loading, data, file>>

Over(reply) == [AtRest EXCEPT !.pc = "done", !.ret = reply]

(* mutex_unlock, and the result to return. *)
Finish(t, reply) ==
    /\ mutex' = mutex \ {t}
    /\ Becomes(t, Over(reply))
    /\ UNCHANGED <<loading, file>>

In(t, op) == task[t].pc = "in" /\ task[t].op = op
Offset(t) == file[task[t].on]
Smaller(m, n) == IF m < n THEN m ELSE n

(* Nothing to copy, or how much. *)
Decide(t) ==
    LET len == Smaller(task[t].arg, bufsize - Offset(t))
    IN  /\ In(t, "read") \/ In(t, "write")
        /\ \/ /\ Offset(t) >= bufsize
              /\ Finish(t, IF task[t].op = "read" THEN Returns(<<>>)
                           ELSE Fails("ENOSPC"))
           \/ /\ Offset(t) < bufsize /\ len = 0
              /\ Finish(t, IF task[t].op = "read" THEN Returns(<<>>)
                           ELSE Returns(<<0>>))
           \/ /\ Offset(t) < bufsize /\ len > 0
              /\ Becomes(t, [task[t] EXCEPT !.pc = "copy", !.len = len])
              /\ UNCHANGED <<loading, file, mutex>>
        /\ UNCHANGED data

(* copy_to_user and copy_from_user.  When copy_from_user faults after k bytes
   the kernel clears the rest of the range. *)
Span(t, from, len) == Offset(t) + from .. Offset(t) + len - 1

CopyOut(t) ==
    /\ task[t].pc = "copy" /\ task[t].op = "read"
    /\ \/ /\ Becomes(t, [task[t] EXCEPT !.pc = "count",
                 !.ret = Returns([j \in 1 .. task[t].len |->
                                    mem[Offset(t) + j - 1]])])
          /\ UNCHANGED <<loading, file, mutex>>
       \/ Finish(t, Fails("EFAULT"))
    /\ UNCHANGED data

CopyIn(t) ==
    /\ task[t].pc = "copy" /\ task[t].op = "write"
    /\ \/ /\ mem' = [p \in Cells |-> IF p \in Span(t, 0, task[t].len)
                                     THEN task[t].byte ELSE mem[p]]
          /\ Becomes(t, [task[t] EXCEPT !.pc = "count",
                                        !.ret = Returns(<<task[t].len>>)])
          /\ UNCHANGED <<loading, file, mutex>>
       \/ \E k \in 0 .. task[t].len - 1 :
          /\ mem' = [p \in Cells |-> IF p \in Span(t, 0, k) THEN task[t].byte
                                     ELSE IF p \in Span(t, k, task[t].len)
                                     THEN 0 ELSE mem[p]]
          /\ Finish(t, Fails("EFAULT"))
    /\ UNCHANGED <<bufsize, totals, devmode>>

Plus1(k) == (k + 1) % CountMod

Account(t) ==
    /\ task[t].pc = "count"
    /\ file' = [file EXCEPT ![task[t].on] = @ + task[t].len]
    /\ totals' = IF task[t].op = "read"
                 THEN [totals EXCEPT !.reads = Plus1(@)]
                 ELSE [totals EXCEPT !.writes = Plus1(@)]
    /\ mutex' = mutex \ {t}
    /\ Becomes(t, Over(task[t].ret))
    /\ UNCHANGED <<loading, mem, bufsize, devmode>>

(* The four values are taken under the mutex and handed over after it. *)
GetStats(t) ==
    /\ In(t, "stats")
    /\ mutex' = mutex \ {t}
    /\ Becomes(t, [task[t] EXCEPT !.pc = "hand", !.ret =
           Returns(<<bufsize, totals.writes, totals.reads, devmode>>)])
    /\ UNCHANGED <<loading, data, file>>

HandOver(t) ==
    /\ task[t].pc = "hand"
    /\ \E reply \in {task[t].ret, Fails("EFAULT")} :
        Becomes(t, Over(reply))
    /\ UNCHANGED <<loading, data, file, mutex>>

Reset(t) ==
    /\ In(t, "reset")
    /\ mem' = [p \in Cells |-> IF p < bufsize THEN 0 ELSE mem[p]]
    /\ totals' = NoTotals
    /\ Finish(t, Returns(<<>>))
    /\ UNCHANGED <<bufsize, devmode>>

(* The sizes CMD_SET_BUFSIZE takes. *)
AllowedFromOne(n) == n >= 1
Allowed(n) == n \in 1 .. MaxSize

(* krealloc keeps the old bytes; what it adds is whatever was there. *)
ResizedNotCleared(new) == mem
Resized(new) ==
    [p \in Cells |-> IF p \in bufsize .. new - 1 THEN 0 ELSE mem[p]]

SetSize(t) ==
    LET new == task[t].arg
    IN  /\ In(t, "size")
        /\ Allowed(new)
        /\ \/ /\ new # bufsize
              /\ mem' = Resized(new)
              /\ bufsize' = new
              /\ Finish(t, Returns(<<>>))
           \/ /\ Finish(t, IF new = bufsize THEN Returns(<<>>) ELSE Fails("ENOMEM"))
              /\ UNCHANGED <<mem, bufsize>>
        /\ UNCHANGED <<totals, devmode>>

SetMode(t) ==
    /\ In(t, "mode")
    /\ task[t].arg \in {0, 1}
    /\ devmode' = task[t].arg
    /\ Finish(t, Returns(<<>>))
    /\ UNCHANGED <<mem, bufsize, totals>>

(* The argument cannot be read, or is not one the command takes. *)
RefuseAndKeepLock(t) ==
    /\ In(t, "size") \/ In(t, "mode") \/ In(t, "other")
    /\ Becomes(t, Over(Fails(IF task[t].op = "other" THEN "ENOTTY" ELSE "EFAULT")))
    /\ UNCHANGED <<loading, data, file, mutex>>
Refuse(t) ==
    /\ task[t].pc = "in"
    /\ \/ task[t].op \in {"size", "mode"} /\ Finish(t, Fails("EFAULT"))
       \/ /\ \/ task[t].op = "size" /\ ~Allowed(task[t].arg)
             \/ task[t].op = "mode" /\ task[t].arg \notin {0, 1}
          /\ Finish(t, Fails("EINVAL"))
       \/ task[t].op = "other" /\ Finish(t, Fails("ENOTTY"))
    /\ UNCHANGED data

Return(t) ==
    /\ task[t].pc = "done"
    /\ Becomes(t, AtRest)
    /\ UNCHANGED <<loading, data, file, mutex>>

-----------------------------------------------------------------------------
LoadStep ==
    \/ \E j \in 1 .. 5 : Acquire(j) \/ AcquireFails(j)
    \/ Loaded \/ GiveBack \/ Left

(* What a task does on its own; waiting for the mutex is apart. *)
Step(t) ==
    \/ Get(t) \/ Open(t)
    \/ Decide(t) \/ CopyOut(t) \/ CopyIn(t) \/ Account(t)
    \/ GetStats(t) \/ HandOver(t) \/ Reset(t) \/ SetSize(t) \/ SetMode(t)
    \/ Refuse(t)

(* A call that is over returns at once: until then nobody can see it. *)
Next ==
    \/ \E t \in Tasks : Return(t)
    \/ /\ \A t \in Tasks : task[t].pc # "done"
       /\ \/ Insmod \/ Rmmod \/ LoadStep
          \/ \E f \in Files : Close(f)
          \/ \E t \in Tasks :
              Find(t) \/ Lock(t) \/ Step(t) \/ \E f \in Files : Call(t, f)

(* Nobody waits inside a call but for the mutex, which the kernel hands on in
   the order it is asked for. *)
Spec ==
    /\ Init /\ [][Next]_vars
    /\ WF_vars(LoadStep)
    /\ \A t \in Tasks : WF_vars(Step(t)) /\ SF_vars(Lock(t)) /\ WF_vars(Return(t))

-----------------------------------------------------------------------------
(* A copy stays inside the buffer, although another file may have shrunk it
   between the calls of this one. *)
CopyInBuffer ==
    \A t \in Tasks : task[t].pc = "copy" =>
        Offset(t) >= 0 /\ Offset(t) + task[t].len <= bufsize

(* While a file is open or being opened the driver has everything: no call can
   run after the buffer is gone, however opens, closes and rmmod interleave. *)
UsedIsLoaded == Users # {} => held = Upto(5) /\ module \in {"coming", "live"}

(* A load that fails at any stage and an unload leave nothing registered. *)
OutIsClean == module = "out" => held = {}

(* Every call returns, errors included, and every load and unload ends. *)
CallsReturn ==
    /\ \A t \in Tasks : task[t].pc # "idle" ~> task[t].pc = "idle"
    /\ module \in {"coming", "failing", "leaving"} ~> module \in {"live", "out"}

(* The array behind the buffer, and the calls that have copied but not yet
   accounted for it. *)
Accounting(f) == {t \in Tasks : task[t].pc = "count" /\ task[t].on = f}
Ahead(op) == \E t \in Tasks : task[t].pc = "count" /\ task[t].op = op

Array == IF "buffer" \in held THEN [j \in 1 .. bufsize |-> mem[j - 1]] ELSE <<>>
Offsets ==
    [f \in Files |->
       IF Accounting(f) = {} THEN file[f]
       ELSE file[f] + task[CHOOSE t \in Accounting(f) : TRUE].len]
Tally ==
    IF "buffer" \notin held THEN NoTotals
    ELSE [writes |-> IF Ahead("write") THEN Plus1(totals.writes)
                     ELSE totals.writes,
          reads  |-> IF Ahead("read") THEN Plus1(totals.reads)
                     ELSE totals.reads]
Mode == IF "buffer" \in held THEN devmode ELSE 0
Answers == [t \in Tasks |-> task[t].ret]

Device == INSTANCE CharDevice WITH
    bytes <- Array, off <- Offsets, tally <- Tally, mode <- Mode,
    reply <- Answers

(* Calls that overlap behave like calls one after the other. *)
IsADevice == Device!Spec

=============================================================================
