---------------------------- MODULE DriverProofs ----------------------------
(***************************************************************************)
(* Theorems about Driver, for any number of threads and open files and any *)
(* buffer sizes.                                                           *)
(***************************************************************************)
EXTENDS Driver, SequenceTheorems, TLAPS

(* The mutex is held by the one task that is inside it. *)
Locks ==
    /\ \A t \in Tasks : t \in mutex <=> task[t].pc \in {"in", "copy", "count"}
    /\ \A t, u \in mutex : t = u

(* The file of a call stays open; what is being copied is in the buffer. *)
Copies ==
    \A t \in Tasks :
        /\ task[t].pc \in {"want", "in", "copy", "count", "hand"}
             => file[task[t].on] >= 0
        /\ task[t].pc \in {"copy", "count"}
             => file[task[t].on] + task[t].len <= bufsize

(* What has been acquired is the first stages, all of them if there can be
   users. *)
Loading ==
    /\ undo \in 0 .. 5
    /\ module = "out" => held = {}
    /\ module = "coming" => \E j \in 0 .. 5 : held = Upto(j)
    /\ module = "live" => held = Upto(5)
    /\ module \in {"failing", "leaving"} => held = Upto(undo)
    /\ module = "failing" => undo < 5

Using ==
    /\ (\E f \in Files : file[f] >= 0) =>
         held = Upto(5) /\ module \in {"coming", "live"}
    /\ \A t \in Tasks :
        /\ task[t].pc = "getting" =>
             held = Upto(5) /\ module \in {"coming", "live"}
        /\ task[t].pc = "found" /\ module \in {"coming", "failing"}
             => held = Upto(5)

-----------------------------------------------------------------------------
(* The stages are different, and come one by one. *)
LEMMA StagesApart ==
    /\ Upto(0) = {}
    /\ \A j \in 1 .. 5 : /\ Upto(j) = Upto(j - 1) \union {Stages[j]}
                         /\ Upto(j - 1) = Upto(j) \ {Stages[j]}
                         /\ Upto(j - 1) # Upto(5)
    /\ \A j \in 0 .. 5 : "device" \in Upto(j) => Upto(j) = Upto(5)
<1>0. /\ Stages[1] = "buffer" /\ Stages[2] = "region" /\ Stages[3] = "cdev"
      /\ Stages[4] = "class" /\ Stages[5] = "device"
  BY DEF Stages
<1>1. /\ Upto(0) = {}
      /\ Upto(1) = {"buffer"}
      /\ Upto(2) = {"buffer", "region"}
      /\ Upto(3) = {"buffer", "region", "cdev"}
      /\ Upto(4) = {"buffer", "region", "cdev", "class"}
      /\ Upto(5) = {"buffer", "region", "cdev", "class", "device"}
  <2>1. Upto(0) = {}
    BY DEF Upto
  <2>2. \A j \in 1 .. 5 : Upto(j) = Upto(j - 1) \union {Stages[j]}
    BY DEF Upto
  <2> QED  BY <1>0, <2>1, <2>2
<1>2. \A j \in 1 .. 5 : j = 1 \/ j = 2 \/ j = 3 \/ j = 4 \/ j = 5
  OBVIOUS
<1>3. ASSUME NEW j \in 1 .. 5
      PROVE  /\ Upto(j) = Upto(j - 1) \union {Stages[j]}
             /\ Upto(j - 1) = Upto(j) \ {Stages[j]}
             /\ Upto(j - 1) # Upto(5)
             /\ "device" \in Upto(j - 1) => Upto(j - 1) = Upto(5)
  <2>1. CASE j = 1  BY <1>0, <1>1, <2>1
  <2>2. CASE j = 2  BY <1>0, <1>1, <2>2
  <2>3. CASE j = 3  BY <1>0, <1>1, <2>3
  <2>4. CASE j = 4  BY <1>0, <1>1, <2>4
  <2>5. CASE j = 5  BY <1>0, <1>1, <2>5
  <2> QED  BY <1>2, <2>1, <2>2, <2>3, <2>4, <2>5
<1>4. \A j \in 0 .. 5 : j = 5 \/ (j + 1 \in 1 .. 5 /\ j = (j + 1) - 1)
  OBVIOUS
<1> QED  BY <1>1, <1>3, <1>4

LEMMA FewerStages ==
  ASSUME NEW j \in 0 .. 5, j < 5
  PROVE  Upto(j) # Upto(5)
<1>1. j + 1 \in 1 .. 5 /\ j = (j + 1) - 1
  OBVIOUS
<1> QED  BY <1>1, StagesApart

-----------------------------------------------------------------------------
(* The locals of a task. *)
LEMMA AtRestType == AtRest \in Locals /\ (CHOOSE f \in Files : TRUE) \in Files
BY DriverAssumption DEF AtRest, Locals, Replies, NoReply

LEMMA OverType ==
  ASSUME NEW reply \in Replies
  PROVE  Over(reply) \in Locals /\ Over(reply).pc = "done"
BY AtRestType, DriverAssumption DEF Over, AtRest, Locals, Replies, NoReply

LEMMA ReplyType ==
  /\ <<>> \in Seq(Nat) /\ \A n \in Nat : <<n>> \in Seq(Nat)
  /\ \A a, b, c, d \in Nat : <<a, b, c, d>> \in Seq(Nat)
  /\ \A err \in {"EFAULT", "ENOSPC", "EINVAL", "ENOMEM", "ENOTTY"} :
       Fails(err) \in Replies
  /\ \A got \in Seq(Nat) : Returns(got) \in Replies
BY DEF Fails, Returns, Replies

LEMMA BecomesType ==
  ASSUME TypeOK, NEW t \in Tasks, NEW locals \in Locals, Becomes(t, locals)
  PROVE  task' \in [Tasks -> Locals]
BY DEF TypeOK, Becomes

(* Locals that change in a few fields. *)
LEMMA SetPc ==
  ASSUME NEW old \in Locals,
         NEW pc \in {"idle", "found", "getting", "want", "in", "copy", "count",
                     "hand", "done"}
  PROVE  /\ [old EXCEPT !.pc = pc] \in Locals
         /\ \A len \in 0 .. MaxSize :
              [old EXCEPT !.pc = pc, !.len = len] \in Locals
         /\ \A reply \in Replies :
              [old EXCEPT !.pc = pc, !.ret = reply] \in Locals
BY Zenon DEF Locals

LEMMA SetRequest ==
  ASSUME NEW old \in Locals,
         NEW op \in {"read", "write", "size", "mode", "stats", "reset", "other"},
         NEW arg \in Nat, NEW byte \in Bytes
  PROVE  [old EXCEPT !.pc = "in", !.op = op, !.arg = arg, !.byte = byte]
           \in Locals
BY Zenon DEF Locals

(* A call that is over. *)
LEMMA FinishType ==
  ASSUME TypeOK, NEW t \in Tasks, NEW reply \in Replies, Finish(t, reply)
  PROVE  /\ task' \in [Tasks -> Locals]
         /\ mutex' \in SUBSET Tasks
         /\ UNCHANGED <<loading, file>>
<1>1. task' \in [Tasks -> Locals]
  BY OverType, BecomesType DEF Finish
<1> QED  BY <1>1 DEF Finish, TypeOK

LEMMA InitTypes == Init => TypeOK
<1> SUFFICES ASSUME Init PROVE TypeOK
  OBVIOUS
<1>1. task \in [Tasks -> Locals]
  BY AtRestType DEF Init
<1>2. /\ mem \in [Cells -> Bytes]
      /\ totals \in [writes : 0 .. CountMod - 1, reads : 0 .. CountMod - 1]
      /\ file \in [Files -> 0 .. MaxSize \union {-1}]
      /\ bufsize \in 0 .. MaxSize
  BY DriverAssumption DEF Init, NoTotals, Cells
<1> QED  BY <1>1, <1>2 DEF Init, TypeOK

(* Loading and unloading keep the types. *)
LEMMA LoadingTypes ==
  ASSUME TypeOK, Insmod \/ Rmmod \/ LoadStep
  PROVE  TypeOK'
<1>1. CASE Insmod
  <2>1. /\ bufsize' \in 0 .. MaxSize
        /\ totals' \in [writes : 0 .. CountMod - 1, reads : 0 .. CountMod - 1]
    BY <1>1, DriverAssumption DEF Insmod, NoTotals
  <2> QED  BY <1>1, <2>1 DEF Insmod, TypeOK
<1>2. CASE Rmmod \/ Loaded \/ GiveBack \/ Left
  <2>1. undo' \in 0 .. 5
    BY <1>2 DEF Rmmod, Loaded, GiveBack, Left, TypeOK
  <2>2. held' \subseteq {Stages[j] : j \in 1 .. 5}
    BY <1>2 DEF Rmmod, Loaded, GiveBack, Left, TypeOK
  <2> QED  BY <1>2, <2>1, <2>2
           DEF Rmmod, Loaded, GiveBack, Left, TypeOK, data
<1>3. ASSUME NEW j \in 1 .. 5, Acquire(j)
      PROVE  TypeOK'
  <2>1. mem' \in [Cells -> Bytes]
    BY <1>3, DriverAssumption DEF Acquire, TypeOK, Cells
  <2>2. held' \subseteq {Stages[i] : i \in 1 .. 5}
    BY <1>3 DEF Acquire, TypeOK
  <2> QED  BY <1>3, <2>1, <2>2 DEF Acquire, TypeOK
<1>4. ASSUME NEW j \in 1 .. 5, AcquireFails(j)
      PROVE  TypeOK'
  <2>1. undo' \in 0 .. 5
    BY <1>4 DEF AcquireFails, Label
  <2> QED  BY <1>4, <2>1 DEF AcquireFails, TypeOK, data
<1> QED  BY <1>1, <1>2, <1>3, <1>4 DEF LoadStep

(* So do opening and closing. *)
LEMMA OpeningTypes ==
  ASSUME TypeOK,
         \/ \E t \in Tasks : Find(t) \/ Get(t) \/ Open(t)
         \/ \E f \in Files : Close(f)
  PROVE  TypeOK'
<1>1. ASSUME NEW t \in Tasks, Find(t) PROVE TypeOK'
  <2>1. [AtRest EXCEPT !.pc = "found", !.op = "open"] \in Locals
    BY AtRestType DEF Locals
  <2>2. task' \in [Tasks -> Locals]
    BY <1>1, <2>1, BecomesType DEF Find
  <2> QED  BY <1>1, <2>2 DEF Find, TypeOK, loading, data
<1>2. ASSUME NEW t \in Tasks, Get(t) PROVE TypeOK'
  <2>1. [task[t] EXCEPT !.pc = "getting"] \in Locals
    BY DEF TypeOK, Locals
  <2>2. task' \in [Tasks -> Locals]
    BY <1>2, <2>1, AtRestType, BecomesType DEF Get
  <2> QED  BY <1>2, <2>2 DEF Get, TypeOK, loading, data
<1>3. ASSUME NEW t \in Tasks, Open(t) PROVE TypeOK'
  <2>1. task' \in [Tasks -> Locals]
    BY <1>3, AtRestType, BecomesType DEF Open
  <2>2. file' \in [Files -> 0 .. MaxSize \union {-1}]
    BY <1>3, DriverAssumption DEF Open, TypeOK
  <2> QED  BY <1>3, <2>1, <2>2 DEF Open, TypeOK, loading, data
<1>4. ASSUME NEW f \in Files, Close(f) PROVE TypeOK'
  BY <1>4 DEF Close, TypeOK, loading, data
<1> QED  BY <1>1, <1>2, <1>3, <1>4

(* A call begins, takes the mutex, and decides how much to copy. *)
LEMMA BeginningTypes ==
  ASSUME TypeOK, Copies, NEW t \in Tasks,
         (\E f \in Files : Call(t, f)) \/ Lock(t) \/ Decide(t)
  PROVE  TypeOK'
<1>1. ASSUME NEW f \in Files, Call(t, f) PROVE TypeOK'
  <2>1. [AtRest EXCEPT !.pc = "want", !.on = f] \in Locals
    BY AtRestType DEF Locals
  <2>2. task' \in [Tasks -> Locals]
    BY <1>1, <2>1, BecomesType DEF Call
  <2> QED  BY <1>1, <2>2 DEF Call, TypeOK, loading, data
<1>2. CASE Lock(t)
  <2>1. PICK request \in Requests[t] : Asks(t, request)
    BY <1>2 DEF Lock
  <2>2. /\ request[1] \in {"read", "write", "size", "mode", "stats", "reset", "other"}
        /\ request[2] \in Nat /\ request[3] \in Bytes
    BY DriverAssumption
  <2>3. [task[t] EXCEPT !.pc = "in", !.op = request[1], !.arg = request[2],
                        !.byte = request[3]] \in Locals
    <3>1. task[t] \in Locals
      BY DEF TypeOK
    <3> QED  BY <2>2, <3>1, SetRequest, Zenon
  <2>4. task' \in [Tasks -> Locals]
    BY <2>1, <2>3, BecomesType DEF Asks
  <2> QED  BY <1>2, <2>4 DEF Lock, TypeOK, loading, data
<1>3. CASE Decide(t)
  <2> DEFINE len == Smaller(task[t].arg, bufsize - Offset(t))
  <2>1. UNCHANGED data
    BY <1>3 DEF Decide
  <2>2. CASE \E reply \in Replies : Finish(t, reply)
    BY <2>1, <2>2, FinishType DEF TypeOK, loading, data
  <2>3. CASE /\ Becomes(t, [task[t] EXCEPT !.pc = "copy", !.len = len])
             /\ Offset(t) < bufsize /\ len > 0
             /\ UNCHANGED <<loading, file, mutex>>
    <3>1. Offset(t) \in 0 .. MaxSize \union {-1} /\ bufsize \in 0 .. MaxSize
      BY DEF TypeOK, Offset, Locals
    <3>2. task[t].arg \in Nat
      BY DEF TypeOK, Locals
    <3>3. Offset(t) >= 0
      BY <1>3 DEF Copies, Decide, In, Offset
    <3>4. len \in 0 .. MaxSize
      BY <2>3, <3>1, <3>2, <3>3, DriverAssumption DEF Smaller
    <3> HIDE DEF len
    <3>5. [task[t] EXCEPT !.pc = "copy", !.len = len] \in Locals
      BY <3>4, SetPc DEF TypeOK
    <3>6. task' \in [Tasks -> Locals]
      BY <2>3, <3>5, BecomesType
    <3> QED  BY <2>1, <2>3, <3>6 DEF TypeOK, loading, data
  <2>4. Returns(<<>>) \in Replies /\ Returns(<<0>>) \in Replies
        /\ Fails("ENOSPC") \in Replies
    BY ReplyType
  <2> QED  BY <1>3, <2>2, <2>3, <2>4 DEF Decide
<1> QED  BY <1>1, <1>2, <1>3

(* Copying and accounting. *)
LEMMA CopyingTypes ==
  ASSUME TypeOK, Copies, NEW t \in Tasks,
         CopyOut(t) \/ CopyIn(t) \/ Account(t)
  PROVE  TypeOK'
<1>0. /\ task[t] \in Locals /\ task[t].len \in 0 .. MaxSize
      /\ task[t].on \in Files /\ task[t].byte \in Bytes
      /\ task[t].ret \in Replies
  BY DEF TypeOK, Locals
<1>1. /\ Offset(t) \in Int /\ Offset(t) >= 0
      /\ Offset(t) + task[t].len <= bufsize /\ bufsize \in 0 .. MaxSize
  BY <1>0, DriverAssumption
     DEF TypeOK, Copies, Offset, CopyOut, CopyIn, Account
<1>2. CASE CopyOut(t)
  <2> DEFINE got == [j \in 1 .. task[t].len |-> mem[Offset(t) + j - 1]]
  <2>1. got \in Seq(Nat)
    <3>1. \A j \in 1 .. task[t].len : Offset(t) + j - 1 \in Cells
      BY <1>0, <1>1, DriverAssumption DEF Cells
    <3>2. \A p \in Cells : mem[p] \in Nat
      BY DriverAssumption DEF TypeOK
    <3>3. \A j \in 1 .. task[t].len : mem[Offset(t) + j - 1] \in Nat
      BY <3>1, <3>2
    <3> QED  BY <1>0, <3>3
  <2>2. Returns(got) \in Replies /\ Fails("EFAULT") \in Replies
    BY <2>1, ReplyType
  <2> HIDE DEF got
  <2>3. CASE /\ Becomes(t, [task[t] EXCEPT !.pc = "count", !.ret = Returns(got)])
             /\ UNCHANGED <<loading, file, mutex, data>>
    <3>1. [task[t] EXCEPT !.pc = "count", !.ret = Returns(got)] \in Locals
      BY <1>0, <2>2, SetPc, Zenon
    <3>2. task' \in [Tasks -> Locals]
      BY <2>3, <3>1, BecomesType
    <3> QED  BY <2>3, <3>2 DEF TypeOK, loading, data
  <2>4. CASE Finish(t, Fails("EFAULT")) /\ UNCHANGED data
    BY <2>2, <2>4, FinishType DEF TypeOK, loading, data
  <2> QED  BY <1>2, <2>3, <2>4 DEF CopyOut, got
<1>3. CASE CopyIn(t)
  <2>1. mem' \in [Cells -> Bytes]
    <3>1. \/ mem' = [p \in Cells |-> IF p \in Span(t, 0, task[t].len)
                                    THEN task[t].byte ELSE mem[p]]
          \/ \E k \in 0 .. task[t].len - 1 :
             mem' = [p \in Cells |-> IF p \in Span(t, 0, k) THEN task[t].byte
                                     ELSE IF p \in Span(t, k, task[t].len)
                                     THEN 0 ELSE mem[p]]
      BY <1>3 DEF CopyIn
    <3>2. 0 \in Bytes /\ task[t].byte \in Bytes /\ mem \in [Cells -> Bytes]
      BY <1>0, DriverAssumption DEF TypeOK
    <3> QED  BY <3>1, <3>2
  <2>2. UNCHANGED <<loading, file>> /\ mutex' \in SUBSET Tasks
        /\ UNCHANGED <<bufsize, totals, devmode>>
    BY <1>3 DEF CopyIn, Finish, TypeOK
  <2>3. task' \in [Tasks -> Locals]
    <3>1. CASE Finish(t, Fails("EFAULT"))
      BY <3>1, ReplyType, FinishType
    <3>2. CASE Becomes(t, [task[t] EXCEPT !.pc = "count",
                                          !.ret = Returns(<<task[t].len>>)])
      <4>1. Returns(<<task[t].len>>) \in Replies
        <5>1. task[t].len \in Nat
          BY <1>0, DriverAssumption
        <5>2. <<task[t].len>> \in Seq(Nat)
          BY <5>1, ReplyType
        <5> QED  BY <5>2, ReplyType
      <4>2. [task[t] EXCEPT !.pc = "count", !.ret = Returns(<<task[t].len>>)]
              \in Locals
        BY <1>0, <4>1, SetPc, Zenon
      <4> QED  BY <3>2, <4>2, BecomesType
    <3> QED  BY <1>3, <3>1, <3>2 DEF CopyIn
  <2> QED  BY <2>1, <2>2, <2>3 DEF TypeOK, loading
<1>4. CASE Account(t)
  <2>1. file' \in [Files -> 0 .. MaxSize \union {-1}]
    <3>1. file[task[t].on] + task[t].len \in 0 .. MaxSize
      BY <1>0, <1>1, DriverAssumption DEF Offset
    <3> QED  BY <1>0, <1>4, <3>1 DEF Account, TypeOK
  <2>2. totals' \in [writes : 0 .. CountMod - 1, reads : 0 .. CountMod - 1]
    <3>1. \A n \in 0 .. CountMod - 1 : Plus1(n) \in 0 .. CountMod - 1
      BY DriverAssumption DEF Plus1
    <3>2. /\ totals \in [writes : 0 .. CountMod - 1, reads : 0 .. CountMod - 1]
          /\ \/ totals' = [totals EXCEPT !.reads = Plus1(@)]
             \/ totals' = [totals EXCEPT !.writes = Plus1(@)]
      BY <1>4 DEF Account, TypeOK
    <3> QED  BY <3>1, <3>2
  <2>3. task' \in [Tasks -> Locals]
    BY <1>0, <1>4, OverType, BecomesType DEF Account
  <2> QED  BY <1>4, <2>1, <2>2, <2>3 DEF Account, TypeOK, loading
<1> QED  BY <1>2, <1>3, <1>4

(* The ioctl commands, and the return. *)
LEMMA CommandTypes ==
  ASSUME TypeOK, NEW t \in Tasks,
         \/ GetStats(t) \/ HandOver(t) \/ Reset(t) \/ SetSize(t)
         \/ SetMode(t) \/ Refuse(t) \/ Return(t)
  PROVE  TypeOK'
<1>0. /\ task[t] \in Locals /\ task[t].ret \in Replies /\ task[t].arg \in Nat
      /\ 0 \in Bytes /\ mem \in [Cells -> Bytes]
  BY DriverAssumption DEF TypeOK, Locals
<1>1. CASE GetStats(t)
  <2> DEFINE reply == Returns(<<bufsize, totals.writes, totals.reads, devmode>>)
  <2>1. /\ bufsize \in Nat /\ devmode \in Nat
        /\ totals.writes \in Nat /\ totals.reads \in Nat
    BY DriverAssumption DEF TypeOK
  <2>2. reply \in Replies
    <3>1. <<bufsize, totals.writes, totals.reads, devmode>> \in Seq(Nat)
      BY <2>1, ReplyType
    <3> QED  BY <3>1, ReplyType
  <2> HIDE DEF reply
  <2>3. [task[t] EXCEPT !.pc = "hand", !.ret = reply] \in Locals
    BY <1>0, <2>2, SetPc, Zenon
  <2>4. task' \in [Tasks -> Locals]
    BY <1>1, <2>3, BecomesType DEF GetStats, reply
  <2> QED  BY <1>1, <2>4 DEF GetStats, TypeOK, loading, data
<1>2. CASE HandOver(t)
  <2>1. PICK reply \in {task[t].ret, Fails("EFAULT")} : Becomes(t, Over(reply))
    BY <1>2 DEF HandOver
  <2>2. reply \in Replies
    BY <1>0, <2>1, ReplyType
  <2>3. task' \in [Tasks -> Locals]
    BY <2>1, <2>2, OverType, BecomesType
  <2> QED  BY <1>2, <2>3 DEF HandOver, TypeOK, loading, data
<1>3. CASE Reset(t)
  <2>1. Finish(t, Returns(<<>>))
    BY <1>3 DEF Reset
  <2>2. mem' \in [Cells -> Bytes]
    BY <1>0, <1>3 DEF Reset
  <2>3. totals' \in [writes : 0 .. CountMod - 1, reads : 0 .. CountMod - 1]
    BY <1>3, DriverAssumption DEF Reset, NoTotals
  <2>4. UNCHANGED <<bufsize, devmode>>
    BY <1>3 DEF Reset
  <2> QED  BY <2>1, <2>2, <2>3, <2>4, ReplyType, FinishType DEF TypeOK, loading
<1>4. CASE SetSize(t)
  <2>1. \E reply \in Replies : Finish(t, reply)
    BY <1>4, ReplyType DEF SetSize
  <2>2. mem' \in [Cells -> Bytes]
    BY <1>0, <1>4 DEF SetSize, Resized
  <2>3. bufsize' \in 0 .. MaxSize
    BY <1>4 DEF SetSize, Allowed, TypeOK
  <2>4. UNCHANGED <<totals, devmode>>
    BY <1>4 DEF SetSize
  <2> QED  BY <2>1, <2>2, <2>3, <2>4, FinishType DEF TypeOK, loading
<1>5. CASE SetMode(t)
  <2>1. Finish(t, Returns(<<>>)) /\ devmode' \in {0, 1}
    BY <1>5 DEF SetMode
  <2>2. UNCHANGED <<mem, bufsize, totals>>
    BY <1>5 DEF SetMode
  <2> QED  BY <2>1, <2>2, ReplyType, FinishType DEF TypeOK, loading
<1>6. CASE Refuse(t)
  <2>1. (\E reply \in Replies : Finish(t, reply)) /\ UNCHANGED data
    BY <1>6, ReplyType DEF Refuse
  <2> QED  BY <2>1, FinishType DEF TypeOK, loading, data
<1>7. CASE Return(t)
  <2>1. task' \in [Tasks -> Locals]
    BY <1>7, AtRestType, BecomesType DEF Return
  <2> QED  BY <1>7, <2>1 DEF Return, TypeOK, loading, data
<1> QED  BY <1>1, <1>2, <1>3, <1>4, <1>5, <1>6, <1>7

-----------------------------------------------------------------------------
(* What a step of a task does to the locals. *)
LEMMA OwnStep ==
  ASSUME TypeOK, NEW t \in Tasks, NEW locals, Becomes(t, locals)
  PROVE  task'[t] = locals /\ \A u \in Tasks \ {t} : task'[u] = task[u]
BY DEF TypeOK, Becomes

LEMMA OwnFinish ==
  ASSUME TypeOK, NEW t \in Tasks, NEW reply \in Replies, Finish(t, reply)
  PROVE  /\ task'[t].pc = "done" /\ \A u \in Tasks \ {t} : task'[u] = task[u]
         /\ mutex' = mutex \ {t} /\ UNCHANGED <<loading, file>>
BY OwnStep, OverType DEF Finish

Inv == TypeOK /\ Locks /\ Copies /\ Loading /\ Using

LEMMA InitInv == Init => Inv
<1> SUFFICES ASSUME Init PROVE Inv
  OBVIOUS
<1>1. TypeOK
  BY InitTypes
<1>2. \A t \in Tasks : task[t].pc = "idle"
  BY DEF Init, AtRest
<1>3. Locks /\ Copies
  BY <1>2 DEF Init, Locks, Copies
<1>4. Loading /\ Using
  BY <1>2 DEF Init, Loading, Using
<1> QED  BY <1>1, <1>3, <1>4 DEF Inv

(* Loading and unloading: no task is inside a call unless all is loaded. *)
LEMMA LoadingKeeps ==
  ASSUME Inv, Insmod \/ Rmmod \/ LoadStep
  PROVE  Inv'
<1>1. TypeOK'
  BY LoadingTypes DEF Inv
<1>2. UNCHANGED <<file, mutex, task>>
  BY DEF Insmod, Rmmod, LoadStep, Acquire, AcquireFails, Loaded, GiveBack, Left
<1>3. Locks'
  BY <1>2 DEF Inv, Locks
<1>4. CASE Insmod
  <2>1. \A f \in Files : ~(file[f] >= 0)
    BY <1>4 DEF Insmod, Inv, Using
  <2>2. \A t \in Tasks : task[t].pc \notin {"found", "getting"}
    BY <1>4 DEF Insmod, Inv, Using
  <2>3. \A t \in Tasks : task[t].on \in Files
    BY DEF Inv, TypeOK, Locals
  <2>4. Copies' /\ Using'
    BY <1>2, <2>1, <2>2, <2>3 DEF Inv, Copies, Using
  <2>5. Loading'
    BY <1>4, StagesApart DEF Insmod, Inv, Loading
  <2> QED  BY <1>1, <1>3, <2>4, <2>5 DEF Inv
<1>5. CASE Rmmod \/ Left
  <2>1. Copies'
    BY <1>2, <1>5 DEF Rmmod, Left, data, Inv, Copies
  <2>2. Loading'
    BY <1>5, StagesApart DEF Rmmod, Left, Inv, Loading
  <2>3. Using'
    BY <1>2, <1>5 DEF Rmmod, Left, Inv, Using, Users
  <2> QED  BY <1>1, <1>3, <2>1, <2>2, <2>3 DEF Inv
<1>6. CASE GiveBack
  <2>1. Copies'
    BY <1>2, <1>6 DEF GiveBack, data, Inv, Copies
  <2>2. Loading'
    BY <1>6, StagesApart DEF GiveBack, Inv, Loading
  <2>3. module = "failing" => held # Upto(5)
    BY FewerStages DEF Inv, Loading
  <2>4. Using'
    BY <1>2, <1>6, <2>3 DEF GiveBack, Inv, Using
  <2> QED  BY <1>1, <1>3, <2>1, <2>2, <2>4 DEF Inv
<1>7. CASE Loaded
  <2>1. Copies'
    BY <1>2, <1>7 DEF Loaded, data, Inv, Copies
  <2>2. Loading' /\ Using'
    BY <1>2, <1>7 DEF Loaded, Inv, Loading, Using
  <2> QED  BY <1>1, <1>3, <2>1, <2>2 DEF Inv
<1>8. ASSUME NEW j \in 1 .. 5, Acquire(j) \/ AcquireFails(j)
      PROVE  Inv'
  <2>1. module = "coming" /\ held = Upto(j - 1) /\ held # Upto(5)
    BY <1>8, StagesApart DEF Acquire, AcquireFails, AtStage
  <2>2. /\ \A f \in Files : ~(file[f] >= 0)
        /\ \A t \in Tasks : task[t].pc \notin {"found", "getting"}
    BY <2>1 DEF Inv, Using
  <2>3. Using' /\ Copies'
    <3>1. \A t \in Tasks : task[t].on \in Files
      BY DEF Inv, TypeOK, Locals
    <3> QED  BY <1>2, <2>2, <3>1 DEF Inv, Copies, Using
  <2>4. Loading'
    <3>1. CASE Acquire(j)
      <4>1. module' = "coming" /\ held' = Upto(j) /\ undo' = undo
        BY <2>1, <3>1, StagesApart DEF Acquire
      <4> QED  BY <4>1 DEF Inv, Loading
    <3>2. CASE AcquireFails(j)
      <4>1. module' = "failing" /\ held' = Upto(j - 1) /\ undo' = j - 1
        BY <2>1, <3>2 DEF AcquireFails, Label
      <4> QED  BY <4>1 DEF Inv, Loading
    <3> QED  BY <1>8, <3>1, <3>2
  <2> QED  BY <1>1, <1>3, <2>3, <2>4 DEF Inv
<1> QED  BY <1>4, <1>5, <1>6, <1>7, <1>8 DEF LoadStep

(* A step of one task keeps the mutex to one task if it leaves it alone, takes
   it when it is free, or gives its own back. *)
Inside(locals) == locals.pc \in {"in", "copy", "count"}

LEMMA LocksKept ==
  ASSUME Locks, NEW t \in Tasks, \A u \in Tasks \ {t} : task'[u] = task[u],
         \/ mutex' = mutex /\ (Inside(task'[t]) <=> Inside(task[t]))
         \/ mutex' = mutex \ {t} /\ ~Inside(task'[t])
         \/ mutex = {} /\ mutex' = {t} /\ Inside(task'[t])
  PROVE  Locks'
BY DEF Locks, Inside

(* A step of one task that leaves files and sizes alone. *)
LEMMA OneTask ==
  ASSUME Inv, TypeOK', Locks', UNCHANGED <<loading, file, bufsize>>,
         NEW t \in Tasks, \A u \in Tasks \ {t} : task'[u] = task[u],
         task'[t].pc \in {"want", "in", "copy", "count", "hand"}
           => file[task'[t].on] >= 0,
         task'[t].pc \in {"copy", "count"}
           => file[task'[t].on] + task'[t].len <= bufsize,
         task'[t].pc = "getting"
           => held = Upto(5) /\ module \in {"coming", "live"},
         task'[t].pc = "found" /\ module \in {"coming", "failing"} => held = Upto(5)
  PROVE  Inv'
<1>1. Copies'
  BY DEF Inv, Copies
<1>2. Using'
  BY DEF Inv, Using, loading
<1>3. Loading'
  BY DEF Inv, Loading, loading
<1> QED  BY <1>1, <1>2, <1>3 DEF Inv

(* A call that ends without moving its file or resizing the buffer. *)
LEMMA EndsCall ==
  ASSUME Inv, TypeOK', UNCHANGED bufsize, NEW t \in Tasks,
         \E reply \in Replies : Finish(t, reply)
  PROVE  Inv'
<1>1. /\ task'[t].pc = "done" /\ \A u \in Tasks \ {t} : task'[u] = task[u]
      /\ mutex' = mutex \ {t} /\ UNCHANGED <<loading, file>>
  BY OwnFinish DEF Inv
<1>2. Locks'
  BY <1>1, LocksKept DEF Inv, Inside
<1> QED  BY <1>1, <1>2, OneTask

(* Opening. *)
LEMMA OpeningKeeps ==
  ASSUME Inv, NEW t \in Tasks, Find(t) \/ Get(t) \/ Open(t)
  PROVE  Inv'
<1>0. TypeOK /\ TypeOK' /\ Locks /\ task[t] \in Locals
  BY OpeningTypes DEF Inv, TypeOK
<1>1. CASE Find(t)
  <2>1. /\ task'[t].pc = "found" /\ \A u \in Tasks \ {t} : task'[u] = task[u]
        /\ UNCHANGED <<loading, data, file, mutex>>
    <3>1. [AtRest EXCEPT !.pc = "found", !.op = "open"].pc = "found"
      BY DEF AtRest
    <3> QED  BY <1>0, <1>1, <3>1, OwnStep DEF Find
  <2>2. Locks'
    BY <1>0, <1>1, <2>1, LocksKept DEF Find, Inside
  <2>3. module \in {"coming", "failing"} => held = Upto(5)
    BY <1>1, StagesApart DEF Find, Inv, Loading
  <2> QED  BY <1>0, <2>1, <2>2, <2>3, OneTask DEF data
<1>2. CASE Get(t)
  <2>1. /\ \A u \in Tasks \ {t} : task'[u] = task[u]
        /\ UNCHANGED <<loading, data, file, mutex>>
        /\ task'[t].pc = IF "cdev" \in held /\ module # "leaving"
                        THEN "getting" ELSE "idle"
    <3>1. [task[t] EXCEPT !.pc = "getting"].pc = "getting" /\ AtRest.pc = "idle"
      BY <1>0 DEF AtRest, Locals
    <3> QED  BY <1>0, <1>2, <3>1, OwnStep DEF Get
  <2>2. Locks'
    BY <1>0, <1>2, <2>1, LocksKept DEF Get, Inside
  <2>3. "cdev" \in held /\ module # "leaving"
          => held = Upto(5) /\ module \in {"coming", "live"}
    <3>1. module \in {"out", "coming", "failing", "live", "leaving"}
      BY <1>0 DEF TypeOK
    <3>2. module # "failing"
      <4>1. SUFFICES ASSUME module = "failing" PROVE FALSE
        OBVIOUS
      <4>2. held = Upto(5) /\ held = Upto(undo)
        BY <1>2, <4>1 DEF Get, Inv, Loading, Using
      <4>3. undo \in 0 .. 5 /\ undo < 5
        BY <4>1 DEF Inv, Loading
      <4> QED  BY <4>2, <4>3, FewerStages
    <3> QED  BY <1>2, <3>1, <3>2 DEF Get, Inv, Loading, Using
  <2> QED  BY <1>0, <2>1, <2>2, <2>3, OneTask DEF data
<1>3. CASE Open(t)
  <2>1. /\ \A u \in Tasks \ {t} : task'[u] = task[u]
        /\ UNCHANGED <<loading, data, mutex>> /\ task'[t].pc = "idle"
    <3>1. AtRest.pc = "idle"
      BY DEF AtRest
    <3> QED  BY <1>0, <1>3, <3>1, OwnStep DEF Open
  <2>2. Locks'
    BY <1>0, <1>3, <2>1, LocksKept DEF Open, Inside
  <2>3. /\ held = Upto(5) /\ module \in {"coming", "live"}
    BY <1>3 DEF Open, Inv, Using
  <2>4. Copies'
    <3>1. \A f \in Files : file[f] >= 0 => file'[f] = file[f]
      BY <1>0, <1>3 DEF Open, TypeOK
    <3>2. \A u \in Tasks : task[u].on \in Files
      BY <1>0 DEF TypeOK, Locals
    <3> QED  BY <2>1, <3>1, <3>2 DEF Inv, Copies, data
  <2>5. Using' /\ Loading'
    BY <2>1, <2>3 DEF Inv, Using, Loading, loading
  <2> QED  BY <1>0, <2>2, <2>4, <2>5 DEF Inv
<1> QED  BY <1>1, <1>2, <1>3

(* Closing: nobody is in a call on the file. *)
LEMMA ClosingKeeps ==
  ASSUME Inv, NEW f \in Files, Close(f)
  PROVE  Inv'
<1>1. TypeOK' /\ UNCHANGED <<loading, data, mutex, task>>
  BY OpeningTypes DEF Close, Inv
<1>2. \A t \in Tasks : task[t].pc \in {"want", "in", "copy", "count", "hand"}
                         => task[t].on # f /\ task[t].on \in Files
  BY DEF Close, InUse, Inv, TypeOK, Locals
<1>3. \A g \in Files : g # f => file'[g] = file[g]
  BY DEF Close, Inv, TypeOK
<1>4. Copies'
  BY <1>1, <1>2, <1>3 DEF Inv, Copies, data
<1>5. file'[f] = -1
  BY DEF Close, Inv, TypeOK
<1>6. Using'
  BY <1>1, <1>3, <1>5 DEF Inv, Using, loading
<1> QED  BY <1>1, <1>4, <1>6 DEF Inv, Locks, Loading, loading

(* A call begins, takes the mutex, and decides how much to copy. *)
LEMMA BeginningKeeps ==
  ASSUME Inv, NEW t \in Tasks,
         (\E f \in Files : Call(t, f)) \/ Lock(t) \/ Decide(t)
  PROVE  Inv'
<1>0. /\ TypeOK /\ TypeOK' /\ Locks /\ Copies
      /\ task[t] \in Locals /\ task[t].on \in Files
  BY BeginningTypes DEF Inv, TypeOK, Locals
<1>1. ASSUME NEW f \in Files, Call(t, f) PROVE Inv'
  <2>1. /\ \A u \in Tasks \ {t} : task'[u] = task[u]
        /\ task'[t].pc = "want" /\ task'[t].on = f
        /\ UNCHANGED <<loading, data, file, mutex>>
    <3> DEFINE locals == [AtRest EXCEPT !.pc = "want", !.on = f]
    <3>1. locals.pc = "want" /\ locals.on = f
      BY DEF AtRest
    <3> QED  BY <1>0, <1>1, <3>1, OwnStep DEF Call
  <2>2. Locks'
    BY <1>0, <1>1, <2>1, LocksKept DEF Call, Inside
  <2> QED  BY <1>0, <1>1, <2>1, <2>2, OneTask DEF Call, data
<1>2. CASE Lock(t)
  <2>1. PICK request \in Requests[t] : Asks(t, request)
    BY <1>2 DEF Lock
  <2>2. /\ \A u \in Tasks \ {t} : task'[u] = task[u]
        /\ task'[t].pc = "in" /\ task'[t].on = task[t].on
    <3> DEFINE locals == [task[t] EXCEPT !.pc = "in", !.op = request[1],
                            !.arg = request[2], !.byte = request[3]]
    <3>1. locals.pc = "in" /\ locals.on = task[t].on
      BY <1>0 DEF Locals
    <3>2. Becomes(t, locals)
      BY <2>1 DEF Asks
    <3> QED  BY <1>0, <3>1, <3>2, OwnStep
  <2>3. Locks'
    BY <1>0, <1>2, <2>2, LocksKept DEF Lock, Inside
  <2> QED  BY <1>0, <1>2, <2>2, <2>3, OneTask DEF Lock, data, Copies
<1>3. CASE Decide(t)
  <2> DEFINE len == Smaller(task[t].arg, bufsize - Offset(t))
  <2>1. UNCHANGED data
    BY <1>3 DEF Decide
  <2>2. CASE \E reply \in Replies : Finish(t, reply)
    BY <1>0, <2>1, <2>2, EndsCall DEF data
  <2>3. CASE /\ Becomes(t, [task[t] EXCEPT !.pc = "copy", !.len = len])
             /\ UNCHANGED <<loading, file, mutex>>
    <3>1. /\ Offset(t) \in Int /\ bufsize \in Int /\ task[t].arg \in Nat
          /\ Offset(t) >= 0
      <4>1. Offset(t) \in 0 .. MaxSize \union {-1} /\ bufsize \in 0 .. MaxSize
        BY <1>0 DEF TypeOK, Offset
      <4>2. task[t].arg \in Nat
        BY <1>0 DEF Locals
      <4>3. Offset(t) >= 0
        BY <1>0, <1>3 DEF Copies, Decide, In, Offset
      <4> QED  BY <4>1, <4>2, <4>3, DriverAssumption
    <3>2. Offset(t) + len <= bufsize
      BY <3>1 DEF Smaller
    <3> HIDE DEF len
    <3>3. /\ \A u \in Tasks \ {t} : task'[u] = task[u]
          /\ task'[t].pc = "copy" /\ task'[t].on = task[t].on
          /\ task'[t].len = len
      <4>1. /\ [task[t] EXCEPT !.pc = "copy", !.len = len].pc = "copy"
            /\ [task[t] EXCEPT !.pc = "copy", !.len = len].on = task[t].on
            /\ [task[t] EXCEPT !.pc = "copy", !.len = len].len = len
        BY <1>0 DEF Locals
      <4> QED  BY <1>0, <2>3, <4>1, OwnStep
    <3>4. task[t].pc = "in"
      BY <1>3 DEF Decide, In
    <3>5. Locks'
      BY <1>0, <2>3, <3>3, <3>4, LocksKept DEF Inside
    <3> QED  BY <1>0, <2>1, <2>3, <3>1, <3>2, <3>3, <3>5, OneTask
             DEF data, Offset
  <2>4. Returns(<<>>) \in Replies /\ Returns(<<0>>) \in Replies
        /\ Fails("ENOSPC") \in Replies
    BY ReplyType
  <2> QED  BY <1>3, <2>2, <2>3, <2>4 DEF Decide
<1> QED  BY <1>1, <1>2, <1>3

(* Copying: the file and the length stay what they were. *)
LEMMA CopyingKeeps ==
  ASSUME Inv, NEW t \in Tasks, CopyOut(t) \/ CopyIn(t)
  PROVE  Inv'
<1>0. /\ TypeOK /\ TypeOK' /\ Locks /\ task[t] \in Locals
      /\ task[t].pc = "copy" /\ UNCHANGED bufsize
  BY CopyingTypes DEF Inv, TypeOK, CopyOut, CopyIn, data
<1>1. CASE \E reply \in Replies : Finish(t, reply)
  BY <1>0, <1>1, EndsCall
<1>2. ASSUME NEW reply, UNCHANGED <<loading, file, mutex>>,
             Becomes(t, [task[t] EXCEPT !.pc = "count", !.ret = reply])
      PROVE  Inv'
  <2>1. /\ \A u \in Tasks \ {t} : task'[u] = task[u]
        /\ task'[t].pc = "count" /\ task'[t].on = task[t].on
        /\ task'[t].len = task[t].len
    <3>1. /\ [task[t] EXCEPT !.pc = "count", !.ret = reply].pc = "count"
          /\ [task[t] EXCEPT !.pc = "count", !.ret = reply].on = task[t].on
          /\ [task[t] EXCEPT !.pc = "count", !.ret = reply].len = task[t].len
      BY <1>0 DEF Locals
    <3> QED  BY <1>0, <1>2, <3>1, OwnStep
  <2>2. Locks'
    BY <1>0, <1>2, <2>1, LocksKept DEF Inside
  <2> QED  BY <1>0, <1>2, <2>1, <2>2, OneTask DEF Inv, Copies
<1>3. Fails("EFAULT") \in Replies
  BY ReplyType
<1> QED  BY <1>1, <1>2, <1>3 DEF CopyOut, CopyIn

(* Accounting moves the file, which no other task is copying with. *)
LEMMA AccountKeeps ==
  ASSUME Inv, NEW t \in Tasks, Account(t)
  PROVE  Inv'
<1>0. /\ TypeOK /\ TypeOK' /\ Locks /\ task[t] \in Locals
      /\ task[t].len \in 0 .. MaxSize /\ task[t].on \in Files
      /\ \A u \in Tasks : task[u].on \in Files
  BY CopyingTypes DEF Inv, TypeOK, Locals
<1>1. /\ task'[t].pc = "done" /\ \A u \in Tasks \ {t} : task'[u] = task[u]
      /\ mutex' = mutex \ {t} /\ UNCHANGED <<loading, bufsize>>
  <2>1. task[t].ret \in Replies
    BY <1>0 DEF Locals
  <2> QED  BY <1>0, <2>1, OwnStep, OverType DEF Account
<1>2. Locks'
  BY <1>0, <1>1, LocksKept DEF Inside
<1>3. file[task[t].on] >= 0 /\ file[task[t].on] \in Int
  BY <1>0, DriverAssumption DEF Account, Inv, Copies, TypeOK
<1>4. \A f \in Files : file[f] >= 0 => file'[f] >= 0
  <2>1. \A f \in Files : file'[f] =
          IF f = task[t].on THEN file[f] + task[t].len ELSE file[f]
    BY <1>0 DEF Account, TypeOK
  <2>2. file[task[t].on] + task[t].len >= 0
    BY <1>0, <1>3, DriverAssumption
  <2> QED  BY <2>1, <2>2
<1>5. \A u \in Tasks \ {t} : task[u].pc \notin {"copy", "count"}
  <2>1. t \in mutex
    BY DEF Account, Inv, Locks
  <2> QED  BY <1>0, <2>1 DEF Locks
<1>6. Copies'
  BY <1>0, <1>1, <1>4, <1>5 DEF Inv, Copies
<1>7. \A f \in Files : file'[f] >= 0 => file[f] >= 0
  BY <1>0, <1>3 DEF Account, TypeOK
<1>8. Using' /\ Loading'
  BY <1>1, <1>7 DEF Inv, Using, Loading, loading
<1> QED  BY <1>0, <1>2, <1>6, <1>8 DEF Inv

(* A new size: no other task is copying. *)
LEMMA ResizeKeeps ==
  ASSUME Inv, NEW t \in Tasks, SetSize(t)
  PROVE  Inv'
<1>0. TypeOK /\ TypeOK' /\ Locks
  BY CommandTypes DEF Inv
<1>1. PICK reply \in Replies : Finish(t, reply)
  BY ReplyType DEF SetSize
<1>2. /\ task'[t].pc = "done" /\ \A u \in Tasks \ {t} : task'[u] = task[u]
      /\ mutex' = mutex \ {t} /\ UNCHANGED <<loading, file>>
  BY <1>0, <1>1, OwnFinish
<1>3. Locks'
  BY <1>0, <1>2, LocksKept DEF Inside
<1>4. \A u \in Tasks \ {t} : task[u].pc \notin {"copy", "count"}
  <2>1. t \in mutex
    BY DEF SetSize, In, Inv, Locks
  <2> QED  BY <1>0, <2>1 DEF Locks
<1>5. Copies'
  BY <1>2, <1>4 DEF Inv, Copies
<1>6. Using' /\ Loading'
  BY <1>2 DEF Inv, Using, Loading, loading
<1> QED  BY <1>0, <1>3, <1>5, <1>6 DEF Inv

(* The other commands, and the return. *)
LEMMA CommandKeeps ==
  ASSUME Inv, NEW t \in Tasks,
         \/ GetStats(t) \/ HandOver(t) \/ Reset(t) \/ SetMode(t)
         \/ Refuse(t) \/ Return(t)
  PROVE  Inv'
<1>0. /\ TypeOK /\ TypeOK' /\ Locks /\ task[t] \in Locals
      /\ UNCHANGED bufsize
  BY CommandTypes
     DEF Inv, TypeOK, GetStats, HandOver, Reset, SetMode, Refuse, Return, data
<1>1. CASE \E reply \in Replies : Finish(t, reply)
  BY <1>0, <1>1, EndsCall
<1>2. CASE GetStats(t)
  <2> DEFINE reply == Returns(<<bufsize, totals.writes, totals.reads, devmode>>)
  <2>1. Becomes(t, [task[t] EXCEPT !.pc = "hand", !.ret = reply])
    BY <1>2 DEF GetStats
  <2> HIDE DEF reply
  <2>2. /\ \A u \in Tasks \ {t} : task'[u] = task[u]
        /\ task'[t].pc = "hand" /\ task'[t].on = task[t].on
    <3>1. /\ [task[t] EXCEPT !.pc = "hand", !.ret = reply].pc = "hand"
          /\ [task[t] EXCEPT !.pc = "hand", !.ret = reply].on = task[t].on
      BY <1>0 DEF Locals
    <3> QED  BY <1>0, <2>1, <3>1, OwnStep
  <2>3. /\ UNCHANGED <<loading, file>> /\ mutex' = mutex \ {t}
        /\ task[t].pc = "in"
    BY <1>2 DEF GetStats, In
  <2>4. Locks'
    BY <1>0, <2>2, <2>3, LocksKept DEF Inside
  <2> QED  BY <1>0, <2>2, <2>3, <2>4, OneTask DEF Inv, Copies
<1>3. CASE HandOver(t)
  <2>1. PICK reply \in {task[t].ret, Fails("EFAULT")} : Becomes(t, Over(reply))
    BY <1>3 DEF HandOver
  <2>2. reply \in Replies
    BY <1>0, <2>1, ReplyType DEF Locals
  <2>3. /\ task'[t].pc = "done"
        /\ \A u \in Tasks \ {t} : task'[u] = task[u]
        /\ UNCHANGED <<loading, file, mutex>> /\ task[t].pc = "hand"
    BY <1>0, <1>3, <2>1, <2>2, OverType, OwnStep DEF HandOver
  <2>4. mutex' = mutex /\ ~Inside(task[t]) /\ ~Inside(task'[t])
    BY <2>3 DEF Inside
  <2>5. Locks'
    BY <1>0, <2>3, <2>4, LocksKept
  <2>6. /\ task'[t].pc \notin {"want", "in", "copy", "count", "hand"}
        /\ task'[t].pc \notin {"getting", "found"}
    BY <2>3
  <2> QED  BY <1>0, <2>3, <2>5, <2>6, OneTask
<1>4. CASE Return(t)
  <2>1. /\ task'[t].pc = "idle"
        /\ \A u \in Tasks \ {t} : task'[u] = task[u]
        /\ UNCHANGED <<loading, file, mutex>> /\ task[t].pc = "done"
    <3>1. AtRest.pc = "idle"
      BY DEF AtRest
    <3> QED  BY <1>0, <1>4, <3>1, OwnStep DEF Return
  <2>2. mutex' = mutex /\ ~Inside(task[t]) /\ ~Inside(task'[t])
    BY <2>1 DEF Inside
  <2>3. Locks'
    BY <1>0, <2>1, <2>2, LocksKept
  <2>4. /\ task'[t].pc \notin {"want", "in", "copy", "count", "hand"}
        /\ task'[t].pc \notin {"getting", "found"}
    BY <2>1
  <2> QED  BY <1>0, <2>1, <2>3, <2>4, OneTask
<1>5. CASE Reset(t) \/ SetMode(t) \/ Refuse(t)
  <2>1. \E reply \in Replies : Finish(t, reply)
    BY <1>5, ReplyType DEF Reset, SetMode, Refuse
  <2> QED  BY <1>1, <2>1
<1> QED  BY <1>2, <1>3, <1>4, <1>5

-----------------------------------------------------------------------------
LEMMA NextInv == Inv /\ [Next]_vars => Inv'
<1> SUFFICES ASSUME Inv, [Next]_vars PROVE Inv'
  OBVIOUS
<1>1. CASE UNCHANGED vars
  <2>1. TypeOK' /\ Locks' /\ Copies'
    BY <1>1 DEF vars, Inv, TypeOK, Locks, Copies
  <2> QED  BY <1>1, <2>1 DEF vars, Inv, Loading, Using
<1>2. CASE Insmod \/ Rmmod \/ LoadStep
  BY <1>2, LoadingKeeps
<1>3. CASE \E f \in Files : Close(f)
  BY <1>3, ClosingKeeps
<1>4. ASSUME NEW t \in Tasks, Find(t) \/ Get(t) \/ Open(t) PROVE Inv'
  BY <1>4, OpeningKeeps
<1>5. ASSUME NEW t \in Tasks,
             (\E f \in Files : Call(t, f)) \/ Lock(t) \/ Decide(t)
      PROVE  Inv'
  BY <1>5, BeginningKeeps
<1>6. ASSUME NEW t \in Tasks, CopyOut(t) \/ CopyIn(t) PROVE Inv'
  BY <1>6, CopyingKeeps
<1>7. ASSUME NEW t \in Tasks, Account(t) PROVE Inv'
  BY <1>7, AccountKeeps
<1>8. ASSUME NEW t \in Tasks, SetSize(t) PROVE Inv'
  BY <1>8, ResizeKeeps
<1>9. ASSUME NEW t \in Tasks,
             \/ GetStats(t) \/ HandOver(t) \/ Reset(t) \/ SetMode(t)
             \/ Refuse(t) \/ Return(t)
      PROVE  Inv'
  BY <1>9, CommandKeeps
<1> QED  BY <1>1, <1>2, <1>3, <1>4, <1>5, <1>6, <1>7, <1>8, <1>9
         DEF Next, Step

LEMMA AlwaysInv == Spec => []Inv
BY InitInv, NextInv, PTL DEF Spec

(* The types of the driver's state hold for any threads, files and sizes. *)
THEOREM TypeCorrect == Spec => []TypeOK
<1>1. Inv => TypeOK
  BY DEF Inv
<1> QED  BY <1>1, AlwaysInv, PTL

(* No copy of a read or a write leaves the buffer (main.c:64 and 94), however
   many threads resize it between the calls of the others. *)
THEOREM CopyInBufferAlways == Spec => []CopyInBuffer
<1>1. Inv => CopyInBuffer
  BY DEF Inv, Copies, CopyInBuffer, Offset
<1> QED  BY <1>1, AlwaysInv, PTL

(* A file that is open, or about to be, keeps everything the driver acquired
   (main.c:252-260 cannot run under it). *)
THEOREM UsedIsLoadedAlways == Spec => []UsedIsLoaded
<1>1. Inv => UsedIsLoaded
  BY DEF Inv, Using, UsedIsLoaded, Users
<1> QED  BY <1>1, AlwaysInv, PTL

(* Whatever stage of a load fails, the labels of main.c:241-250 give back
   exactly what was acquired. *)
THEOREM OutIsCleanAlways == Spec => []OutIsClean
<1>1. Inv => OutIsClean
  BY DEF Inv, Loading, OutIsClean
<1> QED  BY <1>1, AlwaysInv, PTL

-----------------------------------------------------------------------------
(* Calls that overlap behave like calls one after the other: the steps of the
   driver are steps of the device, or change nothing of it. *)

(* The result of a call is there from the copy, or from reading the
   statistics, until the call returns. *)
Answered(locals) ==
    /\ locals.pc \notin {"count", "hand", "done"} => locals.ret = NoReply
    /\ locals.pc \in {"count", "hand", "done"} => locals.ret.err # "none"
    /\ locals.pc = "hand" => locals.ret.err = "ok"
    /\ locals.pc \in {"copy", "count"}
         => locals.op \in {"read", "write"} /\ locals.len > 0
Answering == \A t \in Tasks : Answered(task[t])

(* The buffer is never empty, and a load begins with the first values. *)
Sized == module # "out" => bufsize > 0
Fresh ==
    module = "coming" /\ held = {}
      => bufsize = InitSize /\ totals = NoTotals /\ devmode = 0

DeviceInv == Inv /\ Answering /\ Sized /\ Fresh

LEMMA OverIs ==
  ASSUME NEW reply
  PROVE  Over(reply).pc = "done" /\ Over(reply).ret = reply
BY DEF Over, AtRest

LEMMA AtRestIs == AtRest.pc = "idle" /\ AtRest.ret = NoReply
BY DEF AtRest

LEMMA ReplyIs ==
  /\ \A err : Fails(err).err = err /\ Fails(err).got = <<>>
  /\ \A got : Returns(got).err = "ok" /\ Returns(got).got = got
  /\ NoReply.err = "none"
BY DEF Fails, Returns, NoReply

(* The other tasks keep what they have. *)
LEMMA AnsweringKept ==
  ASSUME TypeOK, Answering, NEW t \in Tasks, NEW locals, Becomes(t, locals),
         Answered(locals)
  PROVE  Answering'
<1>1. task'[t] = locals /\ \A u \in Tasks \ {t} : task'[u] = task[u]
  BY OwnStep
<1> SUFFICES ASSUME NEW u \in Tasks PROVE Answered(task'[u])
  BY DEF Answering
<1>2. CASE u = t  BY <1>1, <1>2
<1>3. CASE u # t
  <2>1. task'[u] = task[u]
    BY <1>1, <1>3
  <2> QED  BY <2>1 DEF Answering
<1> QED  BY <1>2, <1>3

LEMMA AnsweringFinish ==
  ASSUME TypeOK, Answering, NEW t \in Tasks, NEW reply, Finish(t, reply),
         reply.err # "none"
  PROVE  Answering'
<1>1. Answered(Over(reply))
  BY OverIs DEF Answered
<1> QED  BY <1>1, AnsweringKept DEF Finish

LEMMA OpeningAnswers ==
  ASSUME TypeOK, Answering, NEW t \in Tasks,
         \/ Find(t) \/ Get(t) \/ Open(t) \/ Return(t)
         \/ (\E f \in Files : Call(t, f)) \/ Lock(t)
  PROVE  Answering'
<1>0. task[t] \in Locals /\ Answered(task[t])
  BY DEF TypeOK, Answering
<1>1. Answered(AtRest)
  BY AtRestIs DEF Answered
<1>2. CASE Find(t)
  <2>1. Answered([AtRest EXCEPT !.pc = "found", !.op = "open"])
    BY DEF Answered, AtRest
  <2> QED  BY <1>2, <2>1, AnsweringKept DEF Find
<1>3. CASE Get(t)
  <2>1. Answered([task[t] EXCEPT !.pc = "getting"])
    BY <1>0, <1>3 DEF Answered, Locals, Get
  <2> QED  BY <1>1, <1>3, <2>1, AnsweringKept DEF Get
<1>4. CASE Open(t) \/ Return(t)
  BY <1>1, <1>4, AnsweringKept DEF Open, Return
<1>5. ASSUME NEW f \in Files, Call(t, f) PROVE Answering'
  <2>1. Answered([AtRest EXCEPT !.pc = "want", !.on = f])
    BY DEF Answered, AtRest
  <2> QED  BY <1>5, <2>1, AnsweringKept DEF Call
<1>6. CASE Lock(t)
  <2>1. PICK request \in Requests[t] : Asks(t, request)
    BY <1>6 DEF Lock
  <2> DEFINE locals == [task[t] EXCEPT !.pc = "in", !.op = request[1],
                          !.arg = request[2], !.byte = request[3]]
  <2>2. locals.pc = "in" /\ locals.ret = task[t].ret
    BY <1>0 DEF Locals
  <2>3. task[t].ret = NoReply
    BY <1>0, <1>6 DEF Answered, Lock
  <2>4. Becomes(t, locals)
    BY <2>1 DEF Asks
  <2> HIDE DEF locals
  <2>5. Answered(locals)
    BY <2>2, <2>3 DEF Answered
  <2> QED  BY <2>4, <2>5, AnsweringKept
<1> QED  BY <1>2, <1>3, <1>4, <1>5, <1>6

LEMMA CopyingAnswers ==
  ASSUME TypeOK, Answering, NEW t \in Tasks,
         Decide(t) \/ CopyOut(t) \/ CopyIn(t) \/ Account(t)
  PROVE  Answering'
<1>0. task[t] \in Locals /\ Answered(task[t])
  BY DEF TypeOK, Answering
<1>1. ASSUME NEW reply, Finish(t, reply), reply.err # "none"
      PROVE  Answering'
  BY <1>1, AnsweringFinish
<1>2. CASE Decide(t)
  <2> DEFINE len == Smaller(task[t].arg, bufsize - Offset(t))
             locals == [task[t] EXCEPT !.pc = "copy", !.len = len]
  <2>1. ASSUME len > 0, Becomes(t, locals) PROVE Answering'
    <3>1. /\ locals.pc = "copy" /\ locals.ret = task[t].ret
          /\ locals.op = task[t].op /\ locals.len = len
      BY <1>0 DEF Locals
    <3>2. /\ task[t].ret = NoReply /\ task[t].op \in {"read", "write"}
      BY <1>0, <1>2 DEF Answered, Decide, In
    <3> HIDE DEF locals
    <3>3. Answered(locals)
      BY <2>1, <3>1, <3>2 DEF Answered
    <3> QED  BY <2>1, <3>3, AnsweringKept
  <2>2. \/ len > 0 /\ Becomes(t, locals)
        \/ \E reply \in {Returns(<<>>), Returns(<<0>>), Fails("ENOSPC")} :
             Finish(t, reply)
    BY <1>2 DEF Decide
  <2> QED  BY <1>1, <2>1, <2>2, ReplyIs
<1>3. ASSUME NEW got, task[t].pc = "copy",
             Becomes(t, [task[t] EXCEPT !.pc = "count", !.ret = Returns(got)])
      PROVE  Answering'
  <2> DEFINE locals == [task[t] EXCEPT !.pc = "count", !.ret = Returns(got)]
  <2>1. /\ locals.pc = "count" /\ locals.ret = Returns(got)
        /\ locals.op = task[t].op /\ locals.len = task[t].len
    BY <1>0 DEF Locals
  <2>2. task[t].op \in {"read", "write"} /\ task[t].len > 0
    BY <1>0, <1>3 DEF Answered
  <2>3. Becomes(t, locals)
    BY <1>3
  <2> HIDE DEF locals
  <2>4. Answered(locals)
    BY <2>1, <2>2, ReplyIs DEF Answered
  <2> QED  BY <2>3, <2>4, AnsweringKept
<1>4. CASE CopyOut(t) \/ CopyIn(t)
  <2>1. \/ Finish(t, Fails("EFAULT"))
        \/ \E got : Becomes(t, [task[t] EXCEPT !.pc = "count",
                                               !.ret = Returns(got)])
    BY <1>4 DEF CopyOut, CopyIn
  <2>2. task[t].pc = "copy"
    BY <1>4 DEF CopyOut, CopyIn
  <2> QED  BY <1>1, <1>3, <2>1, <2>2, ReplyIs
<1>5. CASE Account(t)
  <2>1. task[t].ret.err # "none"
    BY <1>0, <1>5 DEF Answered, Account
  <2>2. Answered(Over(task[t].ret))
    BY <2>1, OverIs DEF Answered
  <2> QED  BY <1>5, <2>2, AnsweringKept DEF Account
<1> QED  BY <1>2, <1>4, <1>5

LEMMA CommandAnswers ==
  ASSUME TypeOK, Answering, NEW t \in Tasks,
         \/ GetStats(t) \/ HandOver(t) \/ Reset(t) \/ SetSize(t)
         \/ SetMode(t) \/ Refuse(t)
  PROVE  Answering'
<1>0. task[t] \in Locals /\ Answered(task[t])
  BY DEF TypeOK, Answering
<1>1. ASSUME NEW reply, Finish(t, reply), reply.err # "none"
      PROVE  Answering'
  BY <1>1, AnsweringFinish
<1>2. CASE GetStats(t)
  <2> DEFINE got == <<bufsize, totals.writes, totals.reads, devmode>>
  <2>1. Becomes(t, [task[t] EXCEPT !.pc = "hand", !.ret = Returns(got)])
    BY <1>2 DEF GetStats
  <2> HIDE DEF got
  <2> DEFINE locals == [task[t] EXCEPT !.pc = "hand", !.ret = Returns(got)]
  <2>2. locals.pc = "hand" /\ locals.ret = Returns(got)
    BY <1>0 DEF Locals
  <2>3. Becomes(t, locals)
    BY <2>1
  <2> HIDE DEF locals
  <2>4. Answered(locals)
    BY <2>2, ReplyIs DEF Answered
  <2> QED  BY <2>3, <2>4, AnsweringKept
<1>3. CASE HandOver(t)
  <2>1. PICK reply \in {task[t].ret, Fails("EFAULT")} : Becomes(t, Over(reply))
    BY <1>3 DEF HandOver
  <2>2. reply.err # "none"
    BY <1>0, <1>3, <2>1, ReplyIs DEF Answered, HandOver
  <2>3. Answered(Over(reply))
    BY <2>2, OverIs DEF Answered
  <2> QED  BY <2>1, <2>3, AnsweringKept
<1>4. CASE Reset(t) \/ SetMode(t)
  <2>1. Finish(t, Returns(<<>>))
    BY <1>4 DEF Reset, SetMode
  <2> QED  BY <1>1, <2>1, ReplyIs
<1>5. CASE SetSize(t)
  <2>1. Finish(t, Returns(<<>>)) \/ Finish(t, Fails("ENOMEM"))
    BY <1>5 DEF SetSize
  <2> QED  BY <1>1, <2>1, ReplyIs
<1>6. CASE Refuse(t)
  <2>1. \/ Finish(t, Fails("EFAULT")) \/ Finish(t, Fails("EINVAL"))
        \/ Finish(t, Fails("ENOTTY"))
    BY <1>6 DEF Refuse
  <2> QED  BY <1>1, <2>1, ReplyIs
<1> QED  BY <1>2, <1>3, <1>4, <1>5, <1>6

(* A call is running only while everything is loaded, and alone inside the
   mutex. *)
LEMMA CallIsLoaded ==
  ASSUME Inv, NEW t \in Tasks,
         task[t].pc \in {"want", "in", "copy", "count", "hand"}
  PROVE  /\ held = Upto(5) /\ "buffer" \in held /\ held # {}
         /\ module \in {"coming", "live"}
         /\ task[t].on \in Files /\ file[task[t].on] >= 0
<1>1. task[t].on \in Files /\ file[task[t].on] >= 0
  BY DEF Inv, TypeOK, Locals, Copies
<1>2. held = Upto(5) /\ module \in {"coming", "live"}
  BY <1>1 DEF Inv, Using
<1>3. Stages[1] = "buffer" /\ 1 \in 1 .. 5
  BY DEF Stages
<1>4. "buffer" \in Upto(5)
  BY <1>3 DEF Upto
<1> QED  BY <1>1, <1>2, <1>4

LEMMA Alone ==
  ASSUME Inv, NEW t \in Tasks, task[t].pc \in {"in", "copy", "count"}
  PROVE  \A u \in Tasks \ {t} : task[u].pc \notin {"in", "copy", "count"}
BY DEF Inv, Locks

LEMMA InitDevice == Init => DeviceInv
<1> SUFFICES ASSUME Init PROVE DeviceInv
  OBVIOUS
<1>1. Inv
  BY InitInv
<1>2. Answering
  BY AtRestIs DEF Init, Answering, Answered
<1> QED  BY <1>1, <1>2 DEF Init, DeviceInv, Sized, Fresh

LEMMA LoadingDevice ==
  ASSUME DeviceInv, Insmod \/ Rmmod \/ LoadStep
  PROVE  Answering' /\ Sized' /\ Fresh'
<1>1. UNCHANGED task
  BY DEF Insmod, Rmmod, LoadStep, Acquire, AcquireFails, Loaded, GiveBack, Left
<1>2. Answering'
  BY <1>1 DEF DeviceInv, Answering
<1>3. CASE Insmod
  BY <1>2, <1>3, DriverAssumption DEF Insmod, Sized, Fresh
<1>4. CASE Rmmod \/ Loaded \/ GiveBack \/ Left
  BY <1>2, <1>4 DEF Rmmod, Loaded, GiveBack, Left, data, DeviceInv, Sized, Fresh
<1>5. ASSUME NEW j \in 1 .. 5, Acquire(j) \/ AcquireFails(j)
      PROVE  Sized' /\ Fresh'
  BY <1>5 DEF Acquire, AcquireFails, AtStage, data, DeviceInv, Sized, Fresh
<1> QED  BY <1>2, <1>3, <1>4, <1>5 DEF LoadStep

(* Only a call changes the sizes, the totals and the mode. *)
LEMMA CallingDevice ==
  ASSUME DeviceInv, UNCHANGED loading,
         \/ UNCHANGED <<bufsize, totals, devmode>>
         \/ /\ \E t \in Tasks : task[t].pc \in {"in", "count"}
            /\ bufsize' > 0 \/ bufsize' = bufsize
  PROVE  Sized' /\ Fresh'
<1>1. CASE UNCHANGED <<bufsize, totals, devmode>>
  BY <1>1 DEF DeviceInv, loading, Sized, Fresh
<1>2. CASE /\ \E t \in Tasks : task[t].pc \in {"in", "count"}
           /\ bufsize' > 0 \/ bufsize' = bufsize
  <2>1. held # {}
    BY <1>2, CallIsLoaded DEF DeviceInv
  <2> QED  BY <1>2, <2>1 DEF DeviceInv, loading, Sized, Fresh
<1> QED  BY <1>1, <1>2

LEMMA NextDevice == DeviceInv /\ [Next]_vars => DeviceInv'
<1> SUFFICES ASSUME DeviceInv, [Next]_vars PROVE DeviceInv'
  OBVIOUS
<1>0. Inv' /\ TypeOK /\ Answering
  BY NextInv DEF DeviceInv, Inv
<1>1. CASE UNCHANGED vars
  BY <1>0, <1>1 DEF vars, DeviceInv, Answering, Sized, Fresh
<1>2. CASE Insmod \/ Rmmod \/ LoadStep
  BY <1>0, <1>2, LoadingDevice DEF DeviceInv
<1>3. ASSUME NEW f \in Files, Close(f) PROVE DeviceInv'
  <2>1. UNCHANGED <<loading, data, task>>
    BY <1>3 DEF Close
  <2>2. Answering'
    BY <1>0, <2>1 DEF Answering
  <2> QED  BY <1>0, <2>1, <2>2, CallingDevice DEF DeviceInv, data
<1>4. ASSUME NEW t \in Tasks,
             \/ Find(t) \/ Get(t) \/ Open(t) \/ Return(t)
             \/ (\E f \in Files : Call(t, f)) \/ Lock(t)
      PROVE  DeviceInv'
  <2>1. UNCHANGED <<loading, data>>
    BY <1>4 DEF Find, Get, Open, Return, Call, Lock
  <2> QED  BY <1>0, <1>4, <2>1, OpeningAnswers, CallingDevice
           DEF DeviceInv, data
<1>5. ASSUME NEW t \in Tasks,
             Decide(t) \/ CopyOut(t) \/ CopyIn(t) \/ Account(t)
      PROVE  DeviceInv'
  <2>1. UNCHANGED loading
    BY <1>5 DEF Decide, CopyOut, CopyIn, Account, Finish
  <2>2. \/ UNCHANGED <<bufsize, totals, devmode>>
        \/ task[t].pc = "count" /\ bufsize' = bufsize
    BY <1>5 DEF Decide, CopyOut, CopyIn, Account, data
  <2> QED  BY <1>0, <1>5, <2>1, <2>2, CopyingAnswers, CallingDevice
           DEF DeviceInv
<1>6. ASSUME NEW t \in Tasks,
             \/ GetStats(t) \/ HandOver(t) \/ Reset(t) \/ SetSize(t)
             \/ SetMode(t) \/ Refuse(t)
      PROVE  DeviceInv'
  <2>1. UNCHANGED loading
    BY <1>6
       DEF GetStats, HandOver, Reset, SetSize, SetMode, Refuse, Finish
  <2>2. \/ UNCHANGED <<bufsize, totals, devmode>>
        \/ task[t].pc = "in" /\ (bufsize' > 0 \/ bufsize' = bufsize)
    BY <1>6, DriverAssumption
       DEF GetStats, HandOver, Reset, SetSize, SetMode, Refuse, In, data, Allowed
  <2> QED  BY <1>0, <1>6, <2>1, <2>2, CommandAnswers, CallingDevice
           DEF DeviceInv
<1> QED  BY <1>1, <1>2, <1>3, <1>4, <1>5, <1>6 DEF Next, Step

-----------------------------------------------------------------------------
(* What the device sees of a state, and of a step. *)

(* Nobody has copied without accounting for it. *)
LEMMA QuietNow ==
  ASSUME TypeOK, \A u \in Tasks : task[u].pc # "count"
  PROVE  Offsets = file /\ ("buffer" \in held => Tally = totals)
<1>1. \A f \in Files : Accounting(f) = {}
  BY DEF Accounting
<1>2. \A op : ~Ahead(op)
  BY DEF Ahead
<1>3. Offsets = file
  BY <1>1 DEF Offsets, TypeOK
<1>4. [writes |-> totals.writes, reads |-> totals.reads] = totals
  BY DEF TypeOK
<1> QED  BY <1>2, <1>3, <1>4 DEF Tally

LEMMA QuietThen ==
  ASSUME TypeOK', \A u \in Tasks : task'[u].pc # "count"
  PROVE  Offsets' = file' /\ ("buffer" \in held' => Tally' = totals')
<1>1. \A f \in Files : Accounting(f)' = {}
  BY DEF Accounting
<1>2. \A op : ~Ahead(op)'
  BY DEF Ahead
<1>3. Offsets' = file'
  BY <1>1 DEF Offsets, TypeOK
<1>4. [writes |-> totals'.writes, reads |-> totals'.reads] = totals'
  BY DEF TypeOK
<1> QED  BY <1>2, <1>3, <1>4 DEF Tally

(* One task has. *)
LEMMA CountingNow ==
  ASSUME TypeOK, NEW t \in Tasks, task[t].pc = "count",
         \A u \in Tasks \ {t} : task[u].pc # "count", "buffer" \in held
  PROVE  /\ Offsets = [file EXCEPT ![task[t].on] = @ + task[t].len]
         /\ task[t].op = "read"
              => Tally = [totals EXCEPT !.reads = Plus1(@)]
         /\ task[t].op = "write"
              => Tally = [totals EXCEPT !.writes = Plus1(@)]
<1>1. \A f \in Files : Accounting(f) = IF f = task[t].on THEN {t} ELSE {}
  BY DEF Accounting
<1>2. \A op : Ahead(op) <=> op = task[t].op
  BY DEF Ahead
<1>3. (CHOOSE u \in {t} : TRUE) = t
  OBVIOUS
<1>4. Offsets = [file EXCEPT ![task[t].on] = @ + task[t].len]
  <2>1. ASSUME NEW f \in Files, f = task[t].on
        PROVE  Offsets[f] = file[f] + task[t].len
    <3>1. Accounting(f) = {t}
      BY <1>1, <2>1
    <3>2. Offsets[f] =
            file[f] + task[CHOOSE u \in Accounting(f) : TRUE].len
      BY <3>1 DEF Offsets
    <3> QED  BY <1>3, <3>1, <3>2
  <2>2. ASSUME NEW f \in Files, f # task[t].on
        PROVE  Offsets[f] = file[f]
    BY <1>1, <2>2 DEF Offsets
  <2>3. Offsets = [f \in Files |-> Offsets[f]]
    BY DEF Offsets
  <2>4. file \in [Files -> 0 .. MaxSize \union {-1}]
    BY DEF TypeOK
  <2> QED  BY <2>1, <2>2, <2>3, <2>4
<1>5. totals \in [writes : 0 .. CountMod - 1, reads : 0 .. CountMod - 1]
  BY DEF TypeOK
<1> QED  BY <1>2, <1>4, <1>5 DEF Tally

LEMMA CountingThen ==
  ASSUME TypeOK', NEW t \in Tasks, task'[t].pc = "count",
         \A u \in Tasks \ {t} : task'[u].pc # "count", "buffer" \in held'
  PROVE  /\ Offsets' = [file' EXCEPT ![task'[t].on] = @ + task'[t].len]
         /\ task'[t].op = "read"
              => Tally' = [totals' EXCEPT !.reads = Plus1(@)]
         /\ task'[t].op = "write"
              => Tally' = [totals' EXCEPT !.writes = Plus1(@)]
<1>1. \A f \in Files : Accounting(f)' = IF f = task'[t].on THEN {t} ELSE {}
  BY DEF Accounting
<1>2. \A op : Ahead(op)' <=> op = task'[t].op
  BY DEF Ahead
<1>3. (CHOOSE u \in {t} : TRUE) = t
  OBVIOUS
<1>4. Offsets' = [file' EXCEPT ![task'[t].on] = @ + task'[t].len]
  <2>1. ASSUME NEW f \in Files, f = task'[t].on
        PROVE  Offsets'[f] = file'[f] + task'[t].len
    <3>1. Accounting(f)' = {t}
      BY <1>1, <2>1
    <3>2. Offsets'[f] =
            file'[f] + task'[CHOOSE u \in Accounting(f)' : TRUE].len
      BY <3>1 DEF Offsets
    <3> QED  BY <1>3, <3>1, <3>2
  <2>2. ASSUME NEW f \in Files, f # task'[t].on
        PROVE  Offsets'[f] = file'[f]
    BY <1>1, <2>2 DEF Offsets
  <2>3. Offsets' = [f \in Files |-> Offsets'[f]]
    BY DEF Offsets
  <2>4. file' \in [Files -> 0 .. MaxSize \union {-1}]
    BY DEF TypeOK
  <2> QED  BY <2>1, <2>2, <2>3, <2>4
<1>5. totals' \in [writes : 0 .. CountMod - 1, reads : 0 .. CountMod - 1]
  BY DEF TypeOK
<1> QED  BY <1>2, <1>4, <1>5 DEF Tally

(* A step that leaves the tasks that have copied as they are. *)
Steady ==
    \A u \in Tasks :
        /\ task'[u].pc = "count" <=> task[u].pc = "count"
        /\ task[u].pc = "count" => task'[u] = task[u]

LEMMA SteadyCounts ==
  ASSUME Steady
  PROVE  /\ \A f \in Files : Accounting(f)' = Accounting(f)
         /\ \A op : Ahead(op)' <=> Ahead(op)
BY DEF Steady, Accounting, Ahead

LEMMA SteadyOffset ==
  ASSUME Steady, NEW f \in Files, file'[f] = file[f]
  PROVE  Offsets'[f] = Offsets[f]
<1>1. Accounting(f)' = Accounting(f)
  BY SteadyCounts
<1>2. CASE Accounting(f) = {}
  BY <1>1, <1>2 DEF Offsets
<1>3. CASE Accounting(f) # {}
  <2> DEFINE u == CHOOSE t \in Accounting(f) : TRUE
  <2>1. u \in Accounting(f)
    BY <1>3
  <2>2. task'[u] = task[u]
    BY <2>1 DEF Steady, Accounting
  <2>3. Offsets[f] = file[f] + task[u].len
    BY <1>3 DEF Offsets
  <2>4. Offsets'[f] = file'[f] + task'[u].len
    BY <1>1, <1>3 DEF Offsets
  <2> QED  BY <2>2, <2>3, <2>4
<1> QED  BY <1>2, <1>3

LEMMA SteadyOffsets ==
  ASSUME Steady, UNCHANGED file
  PROVE  UNCHANGED Offsets
<1>1. \A f \in Files : Offsets'[f] = Offsets[f]
  BY SteadyOffset
<1>2. /\ Offsets = [f \in Files |-> Offsets[f]]
      /\ Offsets' = [f \in Files |-> Offsets'[f]]
  BY DEF Offsets
<1> QED  BY <1>1, <1>2

LEMMA SteadyTally ==
  ASSUME Steady, "buffer" \in held' <=> "buffer" \in held, UNCHANGED totals
  PROVE  UNCHANGED Tally
BY SteadyCounts DEF Tally

(* One file is opened or closed. *)
LEMMA SteadyMove ==
  ASSUME Steady, NEW f \in Files, NEW x,
         Accounting(f) = {}, file \in [Files -> Int],
         file' = [file EXCEPT ![f] = x]
  PROVE  Offsets[f] = file[f] /\ Offsets' = [Offsets EXCEPT ![f] = x]
<1>1. Accounting(f)' = {}
  BY SteadyCounts
<1>2. Offsets[f] = file[f] /\ Offsets'[f] = x
  BY <1>1 DEF Offsets
<1>3. \A g \in Files \ {f} : Offsets'[g] = Offsets[g]
  <2> SUFFICES ASSUME NEW g \in Files \ {f} PROVE Offsets'[g] = Offsets[g]
    OBVIOUS
  <2>1. file'[g] = file[g]
    OBVIOUS
  <2> QED  BY <2>1, SteadyOffset
<1>4. /\ Offsets = [g \in Files |-> Offsets[g]]
      /\ Offsets' = [g \in Files |-> Offsets'[g]]
  BY DEF Offsets
<1> QED  BY <1>2, <1>3, <1>4

(* The results. *)
LEMMA AnswersStep ==
  ASSUME TypeOK, NEW t \in Tasks, NEW locals, Becomes(t, locals)
  PROVE  Answers' = [Answers EXCEPT ![t] = locals.ret]
<1>1. task'[t] = locals /\ \A u \in Tasks \ {t} : task'[u] = task[u]
  BY OwnStep
<1> QED  BY <1>1 DEF Answers

LEMMA AnswersSame ==
  ASSUME TypeOK, NEW t \in Tasks, NEW locals, Becomes(t, locals),
         locals.ret = task[t].ret
  PROVE  UNCHANGED Answers
<1>1. task'[t] = locals /\ \A u \in Tasks \ {t} : task'[u] = task[u]
  BY OwnStep
<1> QED  BY <1>1 DEF Answers

(* A step of a task that has not copied, and does not. *)
LEMMA SteadyStep ==
  ASSUME TypeOK, NEW t \in Tasks, NEW locals, Becomes(t, locals),
         task[t].pc # "count", locals.pc # "count"
  PROVE  Steady
<1>1. task'[t] = locals /\ \A u \in Tasks \ {t} : task'[u] = task[u]
  BY OwnStep
<1> QED  BY <1>1 DEF Steady

LEMMA Seen ==
  /\ ("buffer" \in held' <=> "buffer" \in held)
       => /\ UNCHANGED <<mem, bufsize>> => UNCHANGED Array
          /\ UNCHANGED devmode => UNCHANGED Mode
  /\ "buffer" \in held
       => Mode = devmode /\ Array = [j \in 1 .. bufsize |-> mem[j - 1]]
  /\ "buffer" \notin held => Mode = 0 /\ Array = <<>> /\ Tally = NoTotals
BY DEF Array, Mode, Tally

LEMMA SeenLength ==
  ASSUME TypeOK, "buffer" \in held
  PROVE  Len(Array) = bufsize /\ DOMAIN Array = 1 .. bufsize
<1>1. bufsize \in Nat
  BY DriverAssumption DEF TypeOK
<1> QED  BY <1>1 DEF Array

(* The device sees nothing of a step that changes only what it does not know. *)
LEMMA Unseen ==
  ASSUME Steady, "buffer" \in held' <=> "buffer" \in held,
         UNCHANGED <<file, mem, bufsize, totals, devmode, Answers>>
  PROVE  UNCHANGED Device!vars
<1>1. UNCHANGED Offsets
  BY SteadyOffsets
<1>2. UNCHANGED Tally
  BY SteadyTally
<1>3. UNCHANGED Array /\ UNCHANGED Mode
  BY Seen
<1> QED  BY <1>1, <1>2, <1>3 DEF Device!vars

LEMMA NobodyCounts ==
  ASSUME Inv, held # Upto(5)
  PROVE  /\ \A u \in Tasks : task[u].pc # "count"
         /\ \A f \in Files : file[f] = -1
<1>1. \A u \in Tasks : task[u].pc # "count"
  BY CallIsLoaded
<1>2. \A f \in Files : ~(file[f] >= 0)
  BY DEF Inv, Using
<1>3. \A f \in Files : file[f] \in 0 .. MaxSize \union {-1}
  BY DEF Inv, TypeOK
<1> QED  BY <1>1, <1>2, <1>3, DriverAssumption

LEMMA BufferFirst ==
  \A j \in 0 .. 5 : "buffer" \in Upto(j) <=> j > 0
<1>1. \A i \in 1 .. 5 : Stages[i] = "buffer" <=> i = 1
  <2>1. /\ Stages[1] = "buffer" /\ Stages[2] = "region" /\ Stages[3] = "cdev"
        /\ Stages[4] = "class" /\ Stages[5] = "device"
    BY DEF Stages
  <2>2. \A i \in 1 .. 5 : i = 1 \/ i = 2 \/ i = 3 \/ i = 4 \/ i = 5
    OBVIOUS
  <2>3. "buffer" # "region" /\ "buffer" # "cdev" /\ "buffer" # "class"
        /\ "buffer" # "device"
    OBVIOUS
  <2> QED  BY <2>1, <2>2, <2>3
<1> SUFFICES ASSUME NEW j \in 0 .. 5 PROVE "buffer" \in Upto(j) <=> j > 0
  OBVIOUS
<1>2. "buffer" \in Upto(j) <=> \E i \in 1 .. j : Stages[i] = "buffer"
  BY DEF Upto
<1>3. \A i \in 1 .. j : i \in 1 .. 5
  OBVIOUS
<1>4. j > 0 => 1 \in 1 .. j
  OBVIOUS
<1>5. \A i \in 1 .. j : j > 0
  OBVIOUS
<1> QED  BY <1>1, <1>2, <1>3, <1>4, <1>5

(* Loading: the buffer comes first, fresh, and goes last. *)
LEMMA LoadingMaps ==
  ASSUME DeviceInv, DeviceInv', Insmod \/ Rmmod \/ LoadStep
  PROVE  Device!Next \/ UNCHANGED Device!vars
<1>1. UNCHANGED <<file, mutex, task>> /\ Inv /\ TypeOK /\ TypeOK'
  BY DEF Insmod, Rmmod, LoadStep, Acquire, AcquireFails, Loaded, GiveBack,
         Left, DeviceInv, Inv
<1>2. Steady /\ UNCHANGED Answers /\ UNCHANGED Offsets
  <2>1. Steady /\ UNCHANGED Answers
    BY <1>1 DEF Steady, Answers
  <2> QED  BY <1>1, <2>1, SteadyOffsets
<1>3. CASE Insmod
  <2>1. held = {} /\ held' = {}
    BY <1>3 DEF Insmod, DeviceInv, Inv, Loading
  <2>2. Array = <<>> /\ Tally = NoTotals /\ Mode = 0
    BY <2>1, Seen
  <2>3. Array' = <<>> /\ Tally' = NoTotals /\ Mode' = 0
    BY <2>1 DEF Array, Tally, Mode
  <2> QED  BY <1>2, <2>2, <2>3 DEF Device!vars
<1>4. CASE Rmmod \/ Left \/ Loaded
  <2>1. UNCHANGED <<held, mem, bufsize, totals, devmode>>
    BY <1>4 DEF Rmmod, Left, Loaded, data
  <2> QED  BY <1>1, <1>2, <2>1, Unseen
<1>5. ASSUME NEW j \in 1 .. 5, AcquireFails(j)
      PROVE  UNCHANGED Device!vars
  <2>1. UNCHANGED <<held, mem, bufsize, totals, devmode>>
    BY <1>5 DEF AcquireFails, data
  <2> QED  BY <1>1, <1>2, <2>1, Unseen
<1>6. ASSUME NEW j \in 1 .. 5, Acquire(j)
      PROVE  Device!Next \/ UNCHANGED Device!vars
  <2>1. /\ held = Upto(j - 1) /\ held' = Upto(j) /\ held # Upto(5)
        /\ module = "coming" /\ UNCHANGED <<bufsize, totals, devmode>>
        /\ "buffer" \in held'
    BY <1>6, StagesApart, BufferFirst DEF Acquire, AtStage
  <2>2. CASE j = 1
    <3>1. held = {} /\ "buffer" \notin held
      BY <2>1, <2>2, StagesApart
    <3>2. bufsize = InitSize /\ totals = NoTotals /\ devmode = 0
      BY <2>1, <3>1 DEF DeviceInv, Fresh
    <3>3. Array = <<>> /\ Tally = NoTotals /\ Mode = 0
      BY <3>1, Seen
    <3>4. Array' = Device!Zeros(InitSize)
      <4>1. mem' = [p \in Cells |-> 0]
        BY <1>6, <2>2 DEF Acquire
      <4>2. \A i \in 1 .. InitSize : i - 1 \in Cells
        BY DriverAssumption DEF Cells
      <4>3. Array' = [i \in 1 .. InitSize |-> mem'[i - 1]]
        BY <2>1, <3>2 DEF Array
      <4> QED  BY <4>1, <4>2, <4>3 DEF Device!Zeros
    <3>5. Tally' = Device!NoTally /\ Mode' = 0
      <4>1. \A u \in Tasks : task'[u].pc # "count"
        BY <1>1, <2>1, NobodyCounts
      <4>2. Tally' = NoTotals
        BY <1>1, <2>1, <3>2, <4>1, QuietThen
      <4> QED  BY <2>1, <3>2, <4>2 DEF Mode, NoTotals, Device!NoTally
    <3>6. Device!Load
      BY <1>2, <3>3, <3>4, <3>5 DEF Device!Load
    <3> QED  BY <1>2, <3>6 DEF Device!Next
  <2>3. CASE j # 1
    <3>1. "buffer" \in held
      BY <2>1, <2>3, BufferFirst
    <3>2. UNCHANGED mem
      BY <1>6, <2>3 DEF Acquire
    <3> QED  BY <1>1, <1>2, <2>1, <3>1, <3>2, Unseen
  <2> QED  BY <2>2, <2>3
<1>7. CASE GiveBack
  <2>1. /\ undo \in 1 .. 5 /\ held = Upto(undo) /\ held' = Upto(undo - 1)
        /\ undo - 1 \in 0 .. 5 /\ undo \in 0 .. 5
        /\ UNCHANGED <<mem, bufsize, totals, devmode>>
    BY <1>7, <1>1, StagesApart
       DEF GiveBack, DeviceInv, Inv, Loading, TypeOK, data
  <2>2. CASE undo = 1
    <3>1. held' = {} /\ held # Upto(5)
      <4>1. held = {"buffer"} 
        BY <2>1, <2>2, StagesApart DEF Stages
      <4>2. "device" \in Upto(5)
        BY DEF Upto, Stages
      <4>3. held' = {}
        BY <2>1, <2>2, StagesApart
      <4> QED  BY <4>1, <4>2, <4>3
    <3>2. Array' = <<>> /\ Tally' = NoTotals /\ Mode' = 0
      BY <3>1 DEF Array, Tally, Mode
    <3>3. \A f \in Files : Offsets[f] = -1
      BY <1>1, <3>1, NobodyCounts, QuietNow
    <3>4. Device!Unload
      BY <1>2, <3>2, <3>3 DEF Device!Unload, NoTotals, Device!NoTally
    <3> QED  BY <1>2, <3>4 DEF Device!Next
  <2>3. CASE undo # 1
    <3>1. "buffer" \in held /\ "buffer" \in held'
      BY <2>1, <2>3, BufferFirst
    <3> QED  BY <1>1, <1>2, <2>1, <3>1, Unseen
  <2> QED  BY <2>2, <2>3
<1> QED  BY <1>3, <1>4, <1>5, <1>6, <1>7 DEF LoadStep

(* Opening and closing, and the beginning and the end of a call. *)
LEMMA OpeningMaps ==
  ASSUME DeviceInv, NEW t \in Tasks,
         \/ Find(t) \/ Get(t) \/ Open(t) \/ Return(t)
         \/ (\E f \in Files : Call(t, f)) \/ Lock(t)
  PROVE  Device!Next \/ UNCHANGED Device!vars
<1>0. /\ TypeOK /\ task[t] \in Locals /\ UNCHANGED <<loading, data>>
      /\ task[t].pc \in {"idle", "found", "getting", "want"}
           => task[t].ret = NoReply
  BY DEF DeviceInv, Inv, TypeOK, Answering, Answered, Find, Get, Open, Return,
         Call, Lock
<1>1. ASSUME NEW locals, Becomes(t, locals), UNCHANGED file,
             task[t].pc \in {"idle", "found", "getting", "want"},
             locals.pc # "count", locals.ret = NoReply
      PROVE  UNCHANGED Device!vars
  <2>1. Steady /\ UNCHANGED Answers
    BY <1>0, <1>1, SteadyStep, AnswersSame
  <2> QED  BY <1>0, <1>1, <2>1, Unseen DEF loading, data
<1>2. CASE Find(t)
  <2> DEFINE locals == [AtRest EXCEPT !.pc = "found", !.op = "open"]
  <2>1. locals.pc = "found" /\ locals.ret = NoReply
    BY DEF AtRest
  <2>2. Becomes(t, locals) /\ UNCHANGED file /\ task[t].pc = "idle"
    BY <1>2 DEF Find
  <2> HIDE DEF locals
  <2> QED  BY <1>1, <2>1, <2>2
<1>3. CASE Get(t)
  <2> DEFINE locals == [task[t] EXCEPT !.pc = "getting"]
  <2>1. locals.pc = "getting" /\ locals.ret = task[t].ret
    BY <1>0 DEF Locals
  <2>2. /\ Becomes(t, locals) \/ Becomes(t, AtRest)
        /\ UNCHANGED file /\ task[t].pc = "found"
    BY <1>3 DEF Get
  <2> HIDE DEF locals
  <2> QED  BY <1>0, <1>1, <2>1, <2>2, AtRestIs
<1>4. ASSUME NEW f \in Files, Call(t, f) PROVE UNCHANGED Device!vars
  <2> DEFINE locals == [AtRest EXCEPT !.pc = "want", !.on = f]
  <2>1. locals.pc = "want" /\ locals.ret = NoReply
    BY DEF AtRest
  <2>2. Becomes(t, locals) /\ UNCHANGED file /\ task[t].pc = "idle"
    BY <1>4 DEF Call
  <2> HIDE DEF locals
  <2> QED  BY <1>1, <2>1, <2>2
<1>5. CASE Lock(t)
  <2>1. PICK request \in Requests[t] : Asks(t, request)
    BY <1>5 DEF Lock
  <2> DEFINE locals == [task[t] EXCEPT !.pc = "in", !.op = request[1],
                          !.arg = request[2], !.byte = request[3]]
  <2>2. locals.pc = "in" /\ locals.ret = task[t].ret
    BY <1>0 DEF Locals
  <2>3. Becomes(t, locals) /\ UNCHANGED file /\ task[t].pc = "want"
    BY <1>5, <2>1 DEF Lock, Asks
  <2> HIDE DEF locals
  <2> QED  BY <1>0, <1>1, <2>2, <2>3
<1>6. CASE Return(t)
  <2>1. Becomes(t, AtRest) /\ UNCHANGED file /\ task[t].pc = "done"
    BY <1>6 DEF Return
  <2>2. Steady
    BY <1>0, <2>1, SteadyStep, AtRestIs
  <2>3. UNCHANGED Array /\ UNCHANGED Tally /\ UNCHANGED Mode
        /\ UNCHANGED Offsets
    BY <1>0, <2>1, <2>2, Seen, SteadyTally, SteadyOffsets DEF loading, data
  <2>4. Answers' = [Answers EXCEPT ![t] = NoReply] /\ Answers'[t] = NoReply
    BY <1>0, <2>1, AnswersStep, AtRestIs DEF Answers
  <2>5. NoReply = Device!NoReply
    BY DEF NoReply, Device!NoReply
  <2>6. Device!Return(t)
    BY <2>3, <2>4, <2>5 DEF Device!Return, Device!Unchanged
  <2> QED  BY <2>4, <2>5, <2>6 DEF Device!Next
<1>7. CASE Open(t)
  <2>1. Becomes(t, AtRest) /\ task[t].pc = "getting"
    BY <1>7 DEF Open
  <2>2. CASE file' = file
    BY <1>1, <2>1, <2>2, AtRestIs
  <2>3. ASSUME NEW f \in Files, file[f] = -1, file' = [file EXCEPT ![f] = 0]
        PROVE  Device!Next
    <3>1. Steady /\ UNCHANGED Answers
      BY <1>0, <2>1, SteadyStep, AnswersSame, AtRestIs
    <3>2. UNCHANGED Array /\ UNCHANGED Tally /\ UNCHANGED Mode
      BY <1>0, <3>1, Seen, SteadyTally DEF loading, data
    <3>3. Accounting(f) = {}
      <4>1. \A u \in Tasks : task[u].pc = "count" => file[task[u].on] >= 0
        BY CallIsLoaded DEF DeviceInv
      <4> QED  BY <2>3, <4>1 DEF Accounting
    <3>4. file \in [Files -> Int]
      BY <1>0, DriverAssumption DEF TypeOK
    <3>5. Offsets[f] = -1 /\ Offsets' = [Offsets EXCEPT ![f] = 0]
      BY <2>3, <3>1, <3>3, <3>4, SteadyMove
    <3>6. Array # <<>>
      <4>1. held = Upto(5) /\ module \in {"coming", "live"}
        BY <2>1 DEF DeviceInv, Inv, Using
      <4>2. "buffer" \in held /\ bufsize > 0
        BY <4>1, BufferFirst DEF DeviceInv, Sized
      <4>3. Len(Array) # 0
        BY <1>0, <4>2, SeenLength
      <4> QED  BY <4>3
    <3>7. Device!Open(f)
      BY <3>1, <3>2, <3>5, <3>6 DEF Device!Open
    <3> QED  BY <3>1, <3>7 DEF Device!Next
  <2> QED  BY <1>7, <2>2, <2>3 DEF Open
<1> QED  BY <1>2, <1>3, <1>4, <1>5, <1>6, <1>7

LEMMA ClosingMaps ==
  ASSUME DeviceInv, NEW f \in Files, Close(f)
  PROVE  Device!Next
<1>0. /\ TypeOK /\ UNCHANGED <<loading, data, task>>
      /\ file' = [file EXCEPT ![f] = -1]
  BY DEF DeviceInv, Inv, Close
<1>1. Steady /\ UNCHANGED Answers
  BY <1>0 DEF Steady, Answers
<1>2. UNCHANGED Array /\ UNCHANGED Tally /\ UNCHANGED Mode
  BY <1>0, <1>1, Seen, SteadyTally DEF loading, data
<1>3. Accounting(f) = {}
  BY DEF Close, InUse, Accounting
<1>4. file \in [Files -> Int]
  BY <1>0, DriverAssumption DEF TypeOK
<1>5. Offsets' = [Offsets EXCEPT ![f] = -1]
  BY <1>0, <1>1, <1>3, <1>4, SteadyMove
<1>6. Device!Close(f)
  BY <1>1, <1>2, <1>5 DEF Device!Close
<1> QED  BY <1>1, <1>6 DEF Device!Next

(* A call that leaves the mutex with nothing to account for answers in this
   step. *)
LEMMA AnswerSeen ==
  ASSUME DeviceInv, DeviceInv', NEW t \in Tasks, NEW reply, NEW locals,
         Becomes(t, locals), UNCHANGED <<loading, file>>,
         locals.pc # "count", locals.ret = reply,
         task[t].pc \in {"in", "copy"}, reply.err # "none"
  PROVE  /\ Device!Answer(t, reply) /\ Answers'[t] # Device!NoReply
         /\ UNCHANGED file /\ Offsets = file /\ UNCHANGED Offsets
         /\ "buffer" \in held /\ "buffer" \in held'
         /\ Tally = totals /\ Tally' = totals'
         /\ Mode = devmode /\ Mode' = devmode'
         /\ Array = [j \in 1 .. bufsize |-> mem[j - 1]]
         /\ Array' = [j \in 1 .. bufsize' |-> mem'[j - 1]]
         /\ Len(Array) = bufsize /\ bufsize > 0 /\ Array # <<>>
<1>0. TypeOK /\ TypeOK' /\ Inv /\ t \in Tasks
  BY DEF DeviceInv, Inv
<1>1. /\ Becomes(t, locals) /\ UNCHANGED <<loading, file>>
  OBVIOUS
<1>2. \A u \in Tasks : task[u].pc # "count" /\ task'[u].pc # "count"
  <2>1. \A u \in Tasks \ {t} : task[u].pc # "count" /\ task'[u] = task[u]
    BY <1>0, <1>1, Alone, OwnStep
  <2>2. task'[t].pc # "count"
    BY <1>0, <1>1, OwnStep
  <2> QED  BY <2>1, <2>2
<1>3. "buffer" \in held /\ "buffer" \in held' /\ module \in {"coming", "live"}
  BY <1>0, <1>1, CallIsLoaded DEF loading
<1>4. /\ Offsets = file /\ Tally = totals
      /\ Offsets' = file' /\ Tally' = totals'
  BY <1>0, <1>2, <1>3, QuietNow, QuietThen
<1>5. /\ Mode = devmode /\ Mode' = devmode'
      /\ Array = [j \in 1 .. bufsize |-> mem[j - 1]]
      /\ Array' = [j \in 1 .. bufsize' |-> mem'[j - 1]]
  BY <1>3 DEF Mode, Array
<1>6. Len(Array) = bufsize /\ bufsize > 0 /\ Array # <<>>
  <2>1. Len(Array) = bufsize /\ bufsize > 0
    BY <1>0, <1>3, SeenLength DEF DeviceInv, Sized
  <2>2. Len(<<>>) = 0
    OBVIOUS
  <2> QED  BY <2>1, <2>2
<1>7. Device!Answer(t, reply)
  <2>1. Answers[t] = NoReply
    BY DEF DeviceInv, Answering, Answered, Answers
  <2>2. Answers' = [Answers EXCEPT ![t] = reply]
    BY <1>0, <1>1, AnswersStep
  <2> QED  BY <2>1, <2>2 DEF Device!Answer, NoReply, Device!NoReply
<1>8. Answers'[t] = reply /\ Device!NoReply.err = "none"
  BY <1>0, <1>1, OwnStep DEF Answers, Device!NoReply
<1> QED  BY <1>1, <1>3, <1>4, <1>5, <1>6, <1>7, <1>8

LEMMA FinishSeen ==
  ASSUME DeviceInv, DeviceInv', NEW t \in Tasks, NEW reply, Finish(t, reply),
         task[t].pc \in {"in", "copy"}, reply.err # "none"
  PROVE  /\ Device!Answer(t, reply) /\ Answers'[t] # Device!NoReply
         /\ UNCHANGED file /\ Offsets = file /\ UNCHANGED Offsets
         /\ "buffer" \in held /\ "buffer" \in held'
         /\ Tally = totals /\ Tally' = totals'
         /\ Mode = devmode /\ Mode' = devmode'
         /\ Array = [j \in 1 .. bufsize |-> mem[j - 1]]
         /\ Array' = [j \in 1 .. bufsize' |-> mem'[j - 1]]
         /\ Len(Array) = bufsize /\ bufsize > 0 /\ Array # <<>>
<1>1. Becomes(t, Over(reply)) /\ UNCHANGED <<loading, file>>
  BY DEF Finish
<1>2. Over(reply).pc # "count" /\ Over(reply).ret = reply
  BY OverIs
<1> QED  BY <1>1, <1>2, AnswerSeen

(* How the device's operations follow from an answer given in this step. *)
LEMMA DeviceAnswers ==
  ASSUME NEW t \in Tasks, Answers'[t] # Device!NoReply,
         \/ Device!GetStats(t) \/ Device!Reset(t)
         \/ \E size \in 1 .. MaxSize : Device!SetSize(t, size)
         \/ \E m \in {0, 1} : Device!SetMode(t, m)
         \/ \E err \in {"EFAULT", "EINVAL", "ENOMEM", "ENOTTY"} :
              Device!Refuse(t, err)
         \/ \E f \in Files, n \in 0 .. MaxSize :
             \/ Device!Read(t, f, n)
             \/ Device!WriteFull(t, f)
             \/ \E v \in Bytes :
                 \/ Device!Write(t, f, n, v)
                 \/ \E k \in 0 .. MaxSize : Device!WriteFault(t, f, n, v, k)
  PROVE  Device!Next
BY DEF Device!Next

(* Nothing is read, and nothing written, at the end of the buffer. *)
LEMMA DecideMaps ==
  ASSUME DeviceInv, DeviceInv', NEW t \in Tasks, Decide(t)
  PROVE  Device!Next \/ UNCHANGED Device!vars
<1>0. /\ TypeOK /\ task[t] \in Locals /\ UNCHANGED data /\ Inv
      /\ task[t].pc = "in" /\ task[t].op \in {"read", "write"}
      /\ task[t].byte \in Bytes /\ 0 \in 0 .. MaxSize
  <2>1. TypeOK /\ Inv /\ task[t] \in Locals
    BY DEF DeviceInv, Inv, TypeOK
  <2>2. task[t].pc = "in" /\ task[t].op \in {"read", "write"}
    BY DEF Decide, In
  <2>3. UNCHANGED data
    BY DEF Decide
  <2>4. task[t].byte \in Bytes /\ 0 \in 0 .. MaxSize
    BY <2>1, DriverAssumption DEF Locals
  <2> QED  BY <2>1, <2>2, <2>3, <2>4
<1> DEFINE f == task[t].on
<1>1. f \in Files /\ file[f] \in 0 .. MaxSize /\ bufsize \in 0 .. MaxSize
  BY <1>0, CallIsLoaded DEF TypeOK
<1>2. ASSUME NEW reply, Finish(t, reply), reply.err # "none"
      PROVE  /\ Device!Answer(t, reply) /\ Answers'[t] # Device!NoReply
             /\ Offsets = file /\ Len(Array) = bufsize
             /\ UNCHANGED Array /\ UNCHANGED Tally /\ UNCHANGED Mode
             /\ UNCHANGED Offsets
  BY <1>0, <1>2, FinishSeen DEF data
<1>3. ASSUME Len(Array) = bufsize, Offsets = file PROVE Device!Room(f, 0) = 0
  <2> QED  BY <1>1, <1>3, DriverAssumption DEF Device!Room
<1>4. CASE task[t].op = "read" /\ Finish(t, Returns(<<>>))
  <2>1. Returns(<<>>).err # "none"
    BY ReplyIs
  <2>2. /\ Device!Answer(t, Returns(<<>>)) /\ Answers'[t] # Device!NoReply
        /\ Offsets = file /\ Len(Array) = bufsize
        /\ UNCHANGED Array /\ UNCHANGED Tally /\ UNCHANGED Mode
        /\ UNCHANGED Offsets
    BY <1>2, <1>4, <2>1
  <2>3. Device!Room(f, 0) = 0
    BY <1>3, <2>2
  <2>4. SubSeq(Array, Offsets[f] + 1, Offsets[f] + 0) = <<>>
    BY <1>1, <2>2, SubSeqEmpty, DriverAssumption
  <2>5. Offsets' = [Offsets EXCEPT ![f] = @ + 0]
    <3>1. file \in [Files -> 0 .. MaxSize \union {-1}]
      BY <1>0 DEF TypeOK
    <3>2. file[f] + 0 = file[f]
      BY <1>1, DriverAssumption
    <3> QED  BY <2>2, <3>1, <3>2
  <2>6. Device!Returns(<<>>) = Returns(<<>>)
    BY DEF Device!Returns, Returns
  <2>7. Device!Read(t, f, 0)
    <3>1. Offsets[f] >= 0
      BY <1>1, <2>2, DriverAssumption
    <3>2. Tally' = IF Device!Room(f, 0) > 0
                   THEN [Tally EXCEPT !.reads = Device!Plus1(@)] ELSE Tally
      BY <2>2, <2>3
    <3>3. Offsets' = [Offsets EXCEPT ![f] = @ + Device!Room(f, 0)]
      BY <2>3, <2>5
    <3>4. Device!Answer(t, Device!Returns(
            SubSeq(Array, Offsets[f] + 1, Offsets[f] + Device!Room(f, 0))))
      BY <2>2, <2>3, <2>4, <2>6
    <3> QED  BY <2>2, <3>1, <3>2, <3>3, <3>4, Zenon DEF Device!Read
  <2> QED  BY <1>0, <1>1, <2>2, <2>7, DeviceAnswers
<1>5. CASE Offset(t) >= bufsize /\ Finish(t, Fails("ENOSPC"))
  <2>1. Fails("ENOSPC").err # "none"
    BY ReplyIs
  <2>2. /\ Device!Answer(t, Fails("ENOSPC")) /\ Answers'[t] # Device!NoReply
        /\ Offsets = file /\ Len(Array) = bufsize
        /\ UNCHANGED Array /\ UNCHANGED Tally /\ UNCHANGED Mode
        /\ UNCHANGED Offsets
    BY <1>2, <1>5, <2>1
  <2>3. Device!WriteFull(t, f)
    BY <1>5, <2>2
       DEF Device!WriteFull, Device!Unchanged, Device!Fails, Fails, Offset
  <2> QED  BY <1>0, <1>1, <2>2, <2>3, DeviceAnswers
<1>6. CASE Offset(t) < bufsize /\ Finish(t, Returns(<<0>>))
  <2>1. Returns(<<0>>).err # "none"
    BY ReplyIs
  <2>2. /\ Device!Answer(t, Returns(<<0>>)) /\ Answers'[t] # Device!NoReply
        /\ Offsets = file /\ Len(Array) = bufsize
        /\ UNCHANGED Array /\ UNCHANGED Tally /\ UNCHANGED Mode
        /\ UNCHANGED Offsets
    BY <1>2, <1>6, <2>1
  <2>3. Device!Room(f, 0) = 0
    BY <1>3, <2>2
  <2>4. Offsets' = [Offsets EXCEPT ![f] = @ + 0]
    <3>1. file \in [Files -> 0 .. MaxSize \union {-1}]
      BY <1>0 DEF TypeOK
    <3>2. file[f] + 0 = file[f]
      BY <1>1, DriverAssumption
    <3> QED  BY <2>2, <3>1, <3>2
  <2>5. Array' = [j \in 1 .. Len(Array) |->
                    IF j \in Offsets[f] + 1 .. Offsets[f] + 0
                    THEN task[t].byte ELSE Array[j]]
    <3>1. \A j : j \notin Offsets[f] + 1 .. Offsets[f] + 0
      BY <1>1, <2>2, DriverAssumption
    <3>2. Array = [j \in 1 .. Len(Array) |-> Array[j]]
      <4>1. "buffer" \in held
        BY <1>0, CallIsLoaded
      <4> QED  BY <2>2, <4>1, Seen
    <3> QED  BY <2>2, <3>1, <3>2
  <2>6. Device!Returns(<<0>>) = Returns(<<0>>)
    BY DEF Device!Returns, Returns
  <2>7. Device!Write(t, f, 0, task[t].byte)
    <3>1. Offsets[f] >= 0 /\ Offsets[f] < Len(Array)
      BY <1>1, <1>6, <2>2, DriverAssumption DEF Offset
    <3>2. Tally' = IF Device!Room(f, 0) > 0
                   THEN [Tally EXCEPT !.writes = Device!Plus1(@)] ELSE Tally
      BY <2>2, <2>3
    <3>3. Offsets' = [Offsets EXCEPT ![f] = @ + Device!Room(f, 0)]
      BY <2>3, <2>4
    <3>4. Array' = [j \in 1 .. Len(Array) |->
                      IF j \in Offsets[f] + 1 .. Offsets[f] + Device!Room(f, 0)
                      THEN task[t].byte ELSE Array[j]]
      BY <2>3, <2>5
    <3>5. Device!Answer(t, Device!Returns(<<Device!Room(f, 0)>>))
      BY <2>2, <2>3, <2>6
    <3> QED  BY <2>2, <3>1, <3>2, <3>3, <3>4, <3>5, Zenon DEF Device!Write
  <2> QED  BY <1>0, <1>1, <2>2, <2>7, DeviceAnswers
<1>7. ASSUME NEW len, UNCHANGED <<loading, file, mutex>>,
             Becomes(t, [task[t] EXCEPT !.pc = "copy", !.len = len])
      PROVE  UNCHANGED Device!vars
  <2> DEFINE locals == [task[t] EXCEPT !.pc = "copy", !.len = len]
  <2>1. locals.pc = "copy" /\ locals.ret = task[t].ret
    BY <1>0 DEF Locals
  <2>2. Becomes(t, locals)
    BY <1>7
  <2> HIDE DEF locals
  <2>3. Steady /\ UNCHANGED Answers
    BY <1>0, <2>1, <2>2, SteadyStep, AnswersSame
  <2> QED  BY <1>0, <1>7, <2>3, Unseen DEF loading, data
<1> QED  BY <1>4, <1>5, <1>6, <1>7, <1>0 DEF Decide

(* The commands. *)
LEMMA CommandMaps ==
  ASSUME DeviceInv, DeviceInv', NEW t \in Tasks,
         \/ HandOver(t) \/ Reset(t) \/ SetSize(t) \/ SetMode(t) \/ Refuse(t)
  PROVE  Device!Next \/ UNCHANGED Device!vars
<1>0. /\ TypeOK /\ TypeOK' /\ task[t] \in Locals /\ Inv
      /\ bufsize \in 0 .. MaxSize
  BY DEF DeviceInv, Inv, TypeOK
<1>1. ASSUME NEW err \in {"EFAULT", "EINVAL", "ENOMEM", "ENOTTY"},
             Finish(t, Fails(err)), task[t].pc = "in", UNCHANGED data
      PROVE  Device!Next
  <2>1. Fails(err).err # "none"
    BY ReplyIs
  <2>2. /\ Device!Answer(t, Fails(err)) /\ Answers'[t] # Device!NoReply
        /\ UNCHANGED Array /\ UNCHANGED Tally /\ UNCHANGED Mode
        /\ UNCHANGED Offsets
    BY <1>1, <2>1, FinishSeen DEF data
  <2>3. Device!Refuse(t, err)
    BY <2>2 DEF Device!Refuse, Device!Unchanged, Device!Fails, Fails
  <2> QED  BY <2>2, <2>3, DeviceAnswers
<1>2. ASSUME NEW got, Finish(t, Returns(got)), task[t].pc = "in"
      PROVE  /\ Device!Answer(t, Device!Returns(got))
             /\ Answers'[t] # Device!NoReply
             /\ UNCHANGED Offsets /\ Array # <<>>
             /\ Tally = totals /\ Tally' = totals'
             /\ Mode = devmode /\ Mode' = devmode'
             /\ Len(Array) = bufsize
             /\ Array = [j \in 1 .. bufsize |-> mem[j - 1]]
             /\ Array' = [j \in 1 .. bufsize' |-> mem'[j - 1]]
  <2>1. Returns(got).err # "none" /\ Device!Returns(got) = Returns(got)
    BY ReplyIs DEF Device!Returns, Returns
  <2> QED  BY <1>2, <2>1, FinishSeen
<1>3. \A j \in 1 .. bufsize : j - 1 \in Cells /\ j - 1 < bufsize
  BY <1>0, DriverAssumption DEF Cells
<1>4. CASE Refuse(t)
  <2>1. task[t].pc = "in" /\ UNCHANGED data
        /\ \E err \in {"EFAULT", "EINVAL", "ENOTTY"} : Finish(t, Fails(err))
    BY <1>4 DEF Refuse
  <2> QED  BY <1>1, <2>1
<1>5. CASE Reset(t)
  <2>1. /\ Finish(t, Returns(<<>>)) /\ task[t].pc = "in"
        /\ UNCHANGED <<bufsize, devmode>> /\ totals' = NoTotals
        /\ mem' = [p \in Cells |-> IF p < bufsize THEN 0 ELSE mem[p]]
    BY <1>5 DEF Reset, In
  <2>2. Array' = Device!Zeros(Len(Array))
    BY <1>2, <1>3, <2>1 DEF Device!Zeros
  <2>3. Device!Reset(t)
    BY <1>2, <2>1, <2>2 DEF Device!Reset, NoTotals, Device!NoTally
  <2> QED  BY <1>2, <2>1, <2>3, DeviceAnswers
<1>6. CASE SetMode(t)
  <2>1. /\ Finish(t, Returns(<<>>)) /\ task[t].pc = "in"
        /\ UNCHANGED <<mem, bufsize, totals>> /\ devmode' = task[t].arg
        /\ task[t].arg \in {0, 1}
    BY <1>6 DEF SetMode, In
  <2>2. Device!SetMode(t, task[t].arg)
    BY <1>2, <2>1 DEF Device!SetMode
  <2> QED  BY <1>2, <2>1, <2>2, DeviceAnswers
<1>7. CASE SetSize(t)
  <2> DEFINE new == task[t].arg
  <2>1. /\ task[t].pc = "in" /\ new \in 1 .. MaxSize
        /\ UNCHANGED <<totals, devmode>>
    BY <1>7 DEF SetSize, In, Allowed
  <2>2. CASE Finish(t, Fails("ENOMEM")) /\ UNCHANGED <<mem, bufsize>>
    BY <1>1, <2>1, <2>2 DEF data
  <2>3. ASSUME Finish(t, Returns(<<>>)), bufsize' = new,
               \A j \in 1 .. new : mem'[j - 1] =
                  IF j <= bufsize THEN mem[j - 1] ELSE 0
        PROVE  Device!Next
    <3>1. Array' = [j \in 1 .. new |-> IF j <= Len(Array) THEN Array[j] ELSE 0]
      <4>1. \A j \in 1 .. new : j <= bufsize => j \in 1 .. bufsize
        BY <1>0, <2>1, DriverAssumption
      <4>2. \A j \in 1 .. new : j <= bufsize => Array[j] = mem[j - 1]
        BY <1>2, <2>1, <2>3, <4>1
      <4> QED  BY <1>2, <2>1, <2>3, <4>2
    <3>2. Device!SetSize(t, new)
      BY <1>2, <2>1, <2>3, <3>1 DEF Device!SetSize
    <3> QED  BY <1>2, <2>1, <2>3, <3>2, DeviceAnswers
  <2>4. CASE new # bufsize /\ mem' = Resized(new) /\ bufsize' = new
             /\ Finish(t, Returns(<<>>))
    <3>1. \A j \in 1 .. new : j - 1 \in Cells
      BY <2>1, DriverAssumption DEF Cells
    <3>2. \A j \in 1 .. new :
            j - 1 \in bufsize .. new - 1 <=> ~(j <= bufsize)
      BY <1>0, <2>1, DriverAssumption
    <3> QED  BY <2>3, <2>4, <3>1, <3>2 DEF Resized
  <2>5. CASE new = bufsize /\ Finish(t, Returns(<<>>))
             /\ UNCHANGED <<mem, bufsize>>
    BY <2>3, <2>5
  <2> QED  BY <1>7, <2>2, <2>4, <2>5 DEF SetSize
<1>8. CASE HandOver(t)
  <2>1. PICK reply \in {task[t].ret, Fails("EFAULT")} : Becomes(t, Over(reply))
    BY <1>8 DEF HandOver
  <2>2. UNCHANGED <<loading, data, file>> /\ task[t].pc = "hand"
    BY <1>8 DEF HandOver
  <2>3. Steady
    BY <1>0, <2>1, <2>2, SteadyStep, OverIs
  <2>4. CASE reply = task[t].ret
    <3>1. UNCHANGED Answers
      BY <1>0, <2>1, <2>4, AnswersSame, OverIs
    <3> QED  BY <2>2, <2>3, <3>1, Unseen DEF loading, data
  <2>5. CASE reply = Fails("EFAULT")
    <3>1. Answers[t].err = "ok"
      BY <2>2 DEF DeviceInv, Answering, Answered, Answers
    <3>2. Answers' = [Answers EXCEPT ![t] = Fails("EFAULT")]
      BY <1>0, <2>1, <2>5, AnswersStep, OverIs
    <3>3. UNCHANGED Array /\ UNCHANGED Tally /\ UNCHANGED Mode
          /\ UNCHANGED Offsets
      BY <2>2, <2>3, Seen, SteadyTally, SteadyOffsets DEF loading, data
    <3>4. Device!HandOverFault(t)
      BY <3>1, <3>2, <3>3
         DEF Device!HandOverFault, Device!Unchanged, Device!Fails, Fails
    <3> QED  BY <3>4 DEF Device!Next
  <2> QED  BY <2>1, <2>4, <2>5
<1> QED  BY <1>4, <1>5, <1>6, <1>7, <1>8

LEMMA GetStatsMaps ==
  ASSUME DeviceInv, DeviceInv', NEW t \in Tasks, GetStats(t)
  PROVE  Device!Next
<1>1. /\ task[t].pc = "in" /\ UNCHANGED <<loading, data, file>>
      /\ task[t] \in Locals
  BY DEF GetStats, In, DeviceInv, Inv, TypeOK
<1> DEFINE got == <<bufsize, totals.writes, totals.reads, devmode>>
           locals == [task[t] EXCEPT !.pc = "hand", !.ret = Returns(got)]
<1>2. Becomes(t, locals)
  BY DEF GetStats
<1> HIDE DEF got
<1>3. locals.pc = "hand" /\ locals.ret = Returns(got)
  BY <1>1 DEF Locals
<1> HIDE DEF locals
<1>4. /\ Device!Answer(t, Returns(got)) /\ Answers'[t] # Device!NoReply
      /\ UNCHANGED Offsets /\ Array # <<>>
      /\ Tally = totals /\ Tally' = totals'
      /\ Mode = devmode /\ Mode' = devmode'
      /\ Len(Array) = bufsize
      /\ Array = [j \in 1 .. bufsize |-> mem[j - 1]]
      /\ Array' = [j \in 1 .. bufsize' |-> mem'[j - 1]]
  <2>1. Returns(got).err # "none" /\ locals.pc # "count"
    BY <1>3, ReplyIs
  <2> QED  BY <1>1, <1>2, <1>3, <2>1, AnswerSeen
<1>5. UNCHANGED Array /\ UNCHANGED Tally /\ UNCHANGED Mode
  BY <1>1, <1>4 DEF data
<1>6. Returns(got) =
        Device!Returns(<<Len(Array), Tally.writes, Tally.reads, Mode>>)
  BY <1>4 DEF got, Returns, Device!Returns
<1>7. Device!GetStats(t)
  BY <1>4, <1>5, <1>6 DEF Device!GetStats, Device!Unchanged
<1> QED  BY <1>4, <1>7, DeviceAnswers

(* A copy that succeeds is the moment of the read or the write: the device has
   moved on before the driver accounts for it. *)
LEMMA CopiedSeen ==
  ASSUME DeviceInv, DeviceInv', NEW t \in Tasks, NEW reply,
         task[t].pc = "copy", reply.err # "none",
         Becomes(t, [task[t] EXCEPT !.pc = "count", !.ret = reply]),
         UNCHANGED <<loading, file, mutex, bufsize, totals, devmode>>
  PROVE  /\ Device!Answer(t, reply) /\ Answers'[t] # Device!NoReply
         /\ Offsets = file
         /\ Offsets' = [file EXCEPT ![task[t].on] = @ + task[t].len]
         /\ Tally = totals
         /\ task[t].op = "read"
              => Tally' = [totals EXCEPT !.reads = Device!Plus1(@)]
         /\ task[t].op = "write"
              => Tally' = [totals EXCEPT !.writes = Device!Plus1(@)]
         /\ UNCHANGED Mode
         /\ Len(Array) = bufsize
         /\ Array = [j \in 1 .. bufsize |-> mem[j - 1]]
         /\ Array' = [j \in 1 .. bufsize |-> mem'[j - 1]]
<1>0. TypeOK /\ TypeOK' /\ Inv /\ task[t] \in Locals
  BY DEF DeviceInv, Inv, TypeOK
<1> DEFINE locals == [task[t] EXCEPT !.pc = "count", !.ret = reply]
<1>1. /\ locals.pc = "count" /\ locals.ret = reply
      /\ locals.on = task[t].on /\ locals.len = task[t].len
      /\ locals.op = task[t].op
  BY <1>0 DEF Locals
<1>2. Becomes(t, locals)
  OBVIOUS
<1> HIDE DEF locals
<1>3. task'[t] = locals /\ \A u \in Tasks \ {t} : task'[u] = task[u]
  BY <1>0, <1>2, OwnStep
<1>4. \A u \in Tasks \ {t} : task[u].pc # "count" /\ task'[u].pc # "count"
  BY <1>0, <1>3, Alone
<1>5. "buffer" \in held /\ "buffer" \in held'
  BY <1>0, CallIsLoaded DEF loading
<1>6. Offsets = file /\ Tally = totals
  <2>1. \A u \in Tasks : task[u].pc # "count"
    BY <1>4
  <2> QED  BY <1>0, <1>5, <2>1, QuietNow
<1>7. /\ Offsets' = [file EXCEPT ![task[t].on] = @ + task[t].len]
      /\ task[t].op = "read"
           => Tally' = [totals EXCEPT !.reads = Device!Plus1(@)]
      /\ task[t].op = "write"
           => Tally' = [totals EXCEPT !.writes = Device!Plus1(@)]
  <2>1. /\ task'[t].pc = "count" /\ task'[t].on = task[t].on
        /\ task'[t].len = task[t].len /\ task'[t].op = task[t].op
    BY <1>1, <1>3
  <2>2. /\ Offsets' = [file' EXCEPT ![task'[t].on] = @ + task'[t].len]
        /\ task'[t].op = "read"
             => Tally' = [totals' EXCEPT !.reads = Plus1(@)]
        /\ task'[t].op = "write"
             => Tally' = [totals' EXCEPT !.writes = Plus1(@)]
    BY <1>0, <1>4, <1>5, <2>1, CountingThen
  <2> QED  BY <2>1, <2>2 DEF Plus1, Device!Plus1
<1>8. /\ UNCHANGED Mode /\ Len(Array) = bufsize
      /\ Array = [j \in 1 .. bufsize |-> mem[j - 1]]
      /\ Array' = [j \in 1 .. bufsize |-> mem'[j - 1]]
  BY <1>0, <1>5, SeenLength DEF Mode, Array
<1>9. Device!Answer(t, reply) /\ Answers'[t] # Device!NoReply
  <2>1. Answers[t] = NoReply
    BY DEF DeviceInv, Answering, Answered, Answers
  <2>2. Answers' = [Answers EXCEPT ![t] = reply]
    BY <1>0, <1>1, <1>2, AnswersStep
  <2>3. Answers'[t] = reply
    BY <1>1, <1>3 DEF Answers
  <2>4. NoReply = Device!NoReply /\ Device!NoReply.err = "none"
    BY DEF NoReply, Device!NoReply
  <2> QED  BY <2>1, <2>2, <2>3, <2>4 DEF Device!Answer
<1> QED  BY <1>6, <1>7, <1>8, <1>9

(* What is being copied is in the buffer. *)
LEMMA CopyBounds ==
  ASSUME DeviceInv, NEW t \in Tasks, task[t].pc \in {"copy", "count"}
  PROVE  /\ task[t].on \in Files /\ task[t].len \in 1 .. MaxSize
         /\ task[t].byte \in Bytes /\ task[t].op \in {"read", "write"}
         /\ file[task[t].on] \in Nat /\ bufsize \in Nat
         /\ file[task[t].on] + task[t].len <= bufsize /\ bufsize <= MaxSize
<1>1. /\ TypeOK /\ Inv /\ task[t].on \in Files /\ task[t].byte \in Bytes
      /\ task[t].len \in 0 .. MaxSize
  BY DEF DeviceInv, Inv, TypeOK, Locals
<1>2. task[t].len > 0 /\ task[t].op \in {"read", "write"}
  BY DEF DeviceInv, Answering, Answered
<1>3. file[task[t].on] >= 0 /\ file[task[t].on] + task[t].len <= bufsize
  BY <1>1 DEF Inv, Copies
<1>4. file[task[t].on] \in 0 .. MaxSize \union {-1} /\ bufsize \in 0 .. MaxSize
  BY <1>1 DEF TypeOK
<1> QED  BY <1>1, <1>2, <1>3, <1>4, DriverAssumption

LEMMA CopyOutMaps ==
  ASSUME DeviceInv, DeviceInv', NEW t \in Tasks, CopyOut(t)
  PROVE  Device!Next
<1>0. task[t].pc = "copy" /\ task[t].op = "read" /\ UNCHANGED data
  BY DEF CopyOut
<1> DEFINE f == task[t].on
           n == task[t].len
           got == [j \in 1 .. n |-> mem[file[f] + j - 1]]
<1>1. /\ f \in Files /\ n \in 1 .. MaxSize /\ file[f] \in Nat
      /\ bufsize \in Nat /\ file[f] + n <= bufsize /\ n \in 0 .. MaxSize
      /\ bufsize <= MaxSize
  BY <1>0, CopyBounds
<1>2. CASE Finish(t, Fails("EFAULT"))
  <2>1. Fails("EFAULT").err # "none"
    BY ReplyIs
  <2>2. /\ Device!Answer(t, Fails("EFAULT")) /\ Answers'[t] # Device!NoReply
        /\ UNCHANGED Array /\ UNCHANGED Tally /\ UNCHANGED Mode
        /\ UNCHANGED Offsets
    BY <1>0, <1>2, <2>1, FinishSeen DEF data
  <2>3. Device!Refuse(t, "EFAULT")
    BY <2>2 DEF Device!Refuse, Device!Unchanged, Device!Fails, Fails
  <2> QED  BY <2>2, <2>3, DeviceAnswers
<1>3. CASE /\ Becomes(t, [task[t] EXCEPT !.pc = "count", !.ret = Returns(got)])
           /\ UNCHANGED <<loading, file, mutex>>
  <2>1. Returns(got).err # "none"
    BY ReplyIs
  <2> HIDE DEF got
  <2>2. /\ Device!Answer(t, Returns(got)) /\ Answers'[t] # Device!NoReply
        /\ Offsets = file /\ Offsets' = [file EXCEPT ![f] = @ + n]
        /\ Tally = totals
        /\ Tally' = [totals EXCEPT !.reads = Device!Plus1(@)]
        /\ UNCHANGED Mode /\ Len(Array) = bufsize
        /\ Array = [j \in 1 .. bufsize |-> mem[j - 1]]
        /\ Array' = [j \in 1 .. bufsize |-> mem'[j - 1]]
    BY <1>0, <1>3, <2>1, CopiedSeen DEF data
  <2>3. UNCHANGED Array
    BY <1>0, <2>2 DEF data
  <2>4. Device!Room(f, n) = n
    BY <1>1, <2>2 DEF Device!Room
  <2>5. got = SubSeq(Array, Offsets[f] + 1, Offsets[f] + n)
    <3> DEFINE o == file[f]
               part == SubSeq(Array, o + 1, o + n)
    <3>1. \A i \in o + 1 .. o + n : Array[i] = mem[i - 1] /\ Array[i] \in Bytes
      <4>1. \A i \in o + 1 .. o + n : i \in 1 .. bufsize /\ i - 1 \in Cells
        BY <1>1, DriverAssumption DEF Cells
      <4>2. mem \in [Cells -> Bytes]
        BY DEF DeviceInv, Inv, TypeOK
      <4> QED  BY <2>2, <4>1, <4>2
    <3>2. o + 1 \in Int /\ o + n \in Int /\ o + 1 <= o + n
          /\ (o + n) - (o + 1) + 1 = n
      BY <1>1, DriverAssumption
    <3>3. /\ part \in Seq(Bytes) /\ Len(part) = n
          /\ \A i \in 1 .. n : part[i] = Array[(o + 1) + i - 1]
      <4>1. /\ part \in Seq(Bytes)
            /\ Len(part) = IF o + 1 <= o + n THEN (o + n) - (o + 1) + 1 ELSE 0
            /\ \A i \in 1 .. (o + n) - (o + 1) + 1 :
                 part[i] = Array[(o + 1) + i - 1]
        BY <3>1, <3>2, SubSeqProperties
      <4> QED  BY <3>2, <4>1
    <3>4. \A i \in 1 .. n : part[i] = mem[o + i - 1]
      <4>1. \A i \in 1 .. n : /\ (o + 1) + i - 1 \in o + 1 .. o + n
                              /\ ((o + 1) + i - 1) - 1 = o + i - 1
        BY <1>1, DriverAssumption
      <4> QED  BY <3>1, <3>3, <4>1
    <3> HIDE DEF part
    <3>5. part = [i \in 1 .. n |-> part[i]]
      BY <3>3
    <3> QED  BY <2>2, <3>4, <3>5 DEF got, part
  <2>6. Device!Read(t, f, n)
    <3>1. Offsets[f] >= 0 /\ n > 0
      BY <1>1, <2>2, DriverAssumption
    <3>2. Tally' = IF Device!Room(f, n) > 0
                   THEN [Tally EXCEPT !.reads = Device!Plus1(@)] ELSE Tally
      BY <2>2, <2>4, <3>1
    <3>3. Offsets' = [Offsets EXCEPT ![f] = @ + Device!Room(f, n)]
      BY <2>2, <2>4
    <3>4. Device!Answer(t, Device!Returns(
            SubSeq(Array, Offsets[f] + 1, Offsets[f] + Device!Room(f, n))))
      BY <2>2, <2>4, <2>5 DEF Device!Returns, Returns
    <3> HIDE DEF n, f
    <3> QED  BY <2>2, <2>3, <3>1, <3>2, <3>3, <3>4, Zenon DEF Device!Read
  <2> QED  BY <1>1, <2>2, <2>6, DeviceAnswers
<1> QED  BY <1>2, <1>3 DEF CopyOut, Offset

LEMMA CopyInMaps ==
  ASSUME DeviceInv, DeviceInv', NEW t \in Tasks, CopyIn(t)
  PROVE  Device!Next
<1>0. /\ task[t].pc = "copy" /\ task[t].op = "write"
      /\ UNCHANGED <<bufsize, totals, devmode>>
  BY DEF CopyIn
<1> DEFINE f == task[t].on
           n == task[t].len
           v == task[t].byte
           o == file[f]
<1>1. /\ f \in Files /\ n \in 1 .. MaxSize /\ o \in Nat /\ v \in Bytes
      /\ bufsize \in Nat /\ o + n <= bufsize /\ n \in 0 .. MaxSize
      /\ bufsize <= MaxSize
  BY <1>0, CopyBounds
<1>2. \A j \in 1 .. bufsize : j - 1 \in Cells
  BY <1>1, DriverAssumption DEF Cells
<1>3. Device!Room(f, n) = n \/ ~(Offsets = file /\ Len(Array) = bufsize)
  BY <1>1 DEF Device!Room
<1>4. ASSUME NEW k \in 0 .. n - 1, Finish(t, Fails("EFAULT")),
             mem' = [p \in Cells |-> IF p \in Span(t, 0, k) THEN v
                                     ELSE IF p \in Span(t, k, n)
                                     THEN 0 ELSE mem[p]]
      PROVE  Device!Next
  <2>1. Fails("EFAULT").err # "none"
    BY ReplyIs
  <2>2. /\ Device!Answer(t, Fails("EFAULT")) /\ Answers'[t] # Device!NoReply
        /\ Offsets = file /\ UNCHANGED Offsets
        /\ UNCHANGED Tally /\ UNCHANGED Mode
        /\ Len(Array) = bufsize
        /\ Array = [j \in 1 .. bufsize |-> mem[j - 1]]
        /\ Array' = [j \in 1 .. bufsize |-> mem'[j - 1]]
    BY <1>0, <1>4, <2>1, FinishSeen
  <2>3. \A j \in 1 .. bufsize :
          /\ j - 1 \in Span(t, 0, k) <=> j \in o + 1 .. o + k
          /\ j - 1 \in Span(t, k, n) <=> j \in o + k + 1 .. o + n
    BY <1>1, DriverAssumption DEF Span, Offset
  <2>4. Array' = [j \in 1 .. Len(Array) |->
                    IF j \in o + 1 .. o + k THEN v
                    ELSE IF j \in o + k + 1 .. o + n THEN 0 ELSE Array[j]]
    BY <1>2, <1>4, <2>2, <2>3
  <2>5. /\ Offsets[f] >= 0 /\ n > 0 /\ k < n /\ k \in 0 .. MaxSize
        /\ Offsets[f] = o
    BY <1>1, <2>2, DriverAssumption
  <2>6. Device!WriteFault(t, f, n, v, k)
    <3>1. Device!Room(f, n) = n
      BY <1>3, <2>2
    <3>2. Array' = [j \in 1 .. Len(Array) |->
                      IF j \in Offsets[f] + 1 .. Offsets[f] + k THEN v
                      ELSE IF j \in Offsets[f] + k + 1
                                    .. Offsets[f] + Device!Room(f, n) THEN 0
                      ELSE Array[j]]
      BY <2>4, <2>5, <3>1
    <3>3. Device!Answer(t, Device!Fails("EFAULT"))
      BY <2>2 DEF Device!Fails, Fails
    <3>4. Device!Room(f, n) > 0 /\ k < Device!Room(f, n)
      BY <2>5, <3>1
    <3> HIDE DEF n, f, v
    <3> QED  BY <2>2, <2>5, <3>2, <3>3, <3>4, Zenon DEF Device!WriteFault
  <2> QED  BY <1>1, <2>2, <2>5, <2>6, DeviceAnswers
<1>5. ASSUME Becomes(t, [task[t] EXCEPT !.pc = "count",
                                        !.ret = Returns(<<n>>)]),
             UNCHANGED <<loading, file, mutex>>,
             mem' = [p \in Cells |-> IF p \in Span(t, 0, n) THEN v ELSE mem[p]]
      PROVE  Device!Next
  <2>1. Returns(<<n>>).err # "none"
    BY ReplyIs
  <2>2. /\ Device!Answer(t, Returns(<<n>>)) /\ Answers'[t] # Device!NoReply
        /\ Offsets = file /\ Offsets' = [file EXCEPT ![f] = @ + n]
        /\ Tally = totals
        /\ Tally' = [totals EXCEPT !.writes = Device!Plus1(@)]
        /\ UNCHANGED Mode /\ Len(Array) = bufsize
        /\ Array = [j \in 1 .. bufsize |-> mem[j - 1]]
        /\ Array' = [j \in 1 .. bufsize |-> mem'[j - 1]]
    BY <1>0, <1>5, <2>1, CopiedSeen
  <2>3. \A j \in 1 .. bufsize :
          j - 1 \in Span(t, 0, n) <=> j \in o + 1 .. o + n
    BY <1>1, DriverAssumption DEF Span, Offset
  <2>4. Array' = [j \in 1 .. Len(Array) |->
                    IF j \in o + 1 .. o + n THEN v ELSE Array[j]]
    BY <1>2, <1>5, <2>2, <2>3
  <2>5. Offsets[f] >= 0 /\ Offsets[f] < Len(Array) /\ n > 0 /\ Offsets[f] = o
    BY <1>1, <2>2, DriverAssumption
  <2>6. Device!Write(t, f, n, v)
    <3>1. Device!Room(f, n) = n
      BY <1>3, <2>2
    <3>2. Tally' = IF Device!Room(f, n) > 0
                   THEN [Tally EXCEPT !.writes = Device!Plus1(@)] ELSE Tally
      BY <2>2, <2>5, <3>1
    <3>3. Offsets' = [Offsets EXCEPT ![f] = @ + Device!Room(f, n)]
      BY <2>2, <3>1
    <3>4. Array' = [j \in 1 .. Len(Array) |->
                      IF j \in Offsets[f] + 1 .. Offsets[f] + Device!Room(f, n)
                      THEN v ELSE Array[j]]
      BY <2>4, <2>5, <3>1
    <3>5. Device!Answer(t, Device!Returns(<<Device!Room(f, n)>>))
      BY <2>2, <3>1 DEF Device!Returns, Returns
    <3> HIDE DEF n, f, v
    <3> QED  BY <2>2, <2>5, <3>2, <3>3, <3>4, <3>5, Zenon DEF Device!Write
  <2> QED  BY <1>1, <2>2, <2>6, DeviceAnswers
<1> QED  BY <1>4, <1>5 DEF CopyIn

(* Accounting catches up with the device. *)
LEMMA AccountMaps ==
  ASSUME DeviceInv, DeviceInv', NEW t \in Tasks, Account(t)
  PROVE  UNCHANGED Device!vars
<1>0. /\ TypeOK /\ TypeOK' /\ Inv /\ task[t].pc = "count"
      /\ UNCHANGED <<loading, mem, bufsize, devmode>>
      /\ Becomes(t, Over(task[t].ret))
      /\ file' = [file EXCEPT ![task[t].on] = @ + task[t].len]
  BY DEF DeviceInv, Inv, Account
<1>1. task'[t].pc = "done" /\ \A u \in Tasks \ {t} : task'[u] = task[u]
  BY <1>0, OwnStep, OverIs
<1>2. \A u \in Tasks \ {t} : task[u].pc # "count"
  BY <1>0, Alone
<1>3. \A u \in Tasks : task'[u].pc # "count"
  BY <1>1, <1>2
<1>4. "buffer" \in held /\ "buffer" \in held'
  BY <1>0, CallIsLoaded DEF loading
<1>5. task[t].op \in {"read", "write"}
  BY <1>0, CopyBounds
<1>6. Offsets' = file' /\ Tally' = totals'
  BY <1>0, <1>3, <1>4, QuietThen
<1>7. /\ Offsets = [file EXCEPT ![task[t].on] = @ + task[t].len]
      /\ task[t].op = "read"
           => Tally = [totals EXCEPT !.reads = Plus1(@)]
      /\ task[t].op = "write"
           => Tally = [totals EXCEPT !.writes = Plus1(@)]
  BY <1>0, <1>2, <1>4, CountingNow
<1>8. UNCHANGED Tally
  <2>1. totals' = IF task[t].op = "read"
                  THEN [totals EXCEPT !.reads = Plus1(@)]
                  ELSE [totals EXCEPT !.writes = Plus1(@)]
    BY DEF Account
  <2>2. CASE task[t].op = "read"
    BY <1>6, <1>7, <2>1, <2>2
  <2>3. CASE task[t].op = "write"
    BY <1>6, <1>7, <2>1, <2>3
  <2> QED  BY <1>5, <2>2, <2>3
<1>9. UNCHANGED Answers
  BY <1>0, AnswersSame, OverIs
<1>10. UNCHANGED Array /\ UNCHANGED Mode
  BY <1>0, <1>4, Seen
<1> QED  BY <1>0, <1>6, <1>7, <1>8, <1>9, <1>10 DEF Device!vars

LEMMA InitMaps == Init => Device!Init
<1> SUFFICES ASSUME Init PROVE Device!Init
  OBVIOUS
<1>1. Array = <<>> /\ Tally = Device!NoTally /\ Mode = 0
  BY DEF Init, Array, Tally, Mode, NoTotals, Device!NoTally
<1>2. \A u \in Tasks : task[u].pc # "count" /\ task[u].ret = NoReply
  BY AtRestIs DEF Init
<1>3. Offsets = [f \in Files |-> -1]
  BY <1>2, InitTypes, QuietNow DEF Init
<1>4. Answers = [t \in Tasks |-> Device!NoReply]
  BY <1>2 DEF Answers, NoReply, Device!NoReply
<1> QED  BY <1>1, <1>3, <1>4 DEF Device!Init

LEMMA NextMaps ==
  DeviceInv /\ DeviceInv' /\ [Next]_vars => [Device!Next]_(Device!vars)
<1> SUFFICES ASSUME DeviceInv, DeviceInv', [Next]_vars
             PROVE  Device!Next \/ UNCHANGED Device!vars
  OBVIOUS
<1>1. CASE UNCHANGED vars
  <2>1. Steady /\ UNCHANGED Answers
    BY <1>1 DEF vars, Steady, Answers
  <2> QED  BY <1>1, <2>1, Unseen DEF vars
<1>2. CASE Insmod \/ Rmmod \/ LoadStep
  BY <1>2, LoadingMaps
<1>3. CASE \E f \in Files : Close(f)
  BY <1>3, ClosingMaps
<1>4. ASSUME NEW t \in Tasks,
             \/ Find(t) \/ Get(t) \/ Open(t) \/ Return(t)
             \/ (\E f \in Files : Call(t, f)) \/ Lock(t)
      PROVE  Device!Next \/ UNCHANGED Device!vars
  BY <1>4, OpeningMaps
<1>5. ASSUME NEW t \in Tasks, Decide(t)
      PROVE  Device!Next \/ UNCHANGED Device!vars
  BY <1>5, DecideMaps
<1>6. ASSUME NEW t \in Tasks,
             CopyOut(t) \/ CopyIn(t) \/ GetStats(t) \/ Account(t)
      PROVE  Device!Next \/ UNCHANGED Device!vars
  BY <1>6, CopyOutMaps, CopyInMaps, GetStatsMaps, AccountMaps
<1>7. ASSUME NEW t \in Tasks,
             \/ HandOver(t) \/ Reset(t) \/ SetSize(t) \/ SetMode(t)
             \/ Refuse(t)
      PROVE  Device!Next \/ UNCHANGED Device!vars
  BY <1>7, CommandMaps
<1> QED  BY <1>1, <1>2, <1>3, <1>4, <1>5, <1>6, <1>7 DEF Next, Step

(* Calls that overlap, on files that threads share, behave like calls one
   after the other on one array of bytes (main.c:54-187): each read, write and
   command has one step between its beginning and its end at which it takes
   effect whole. *)
THEOREM DriverIsADevice == Spec => IsADevice
<1>1. Init => DeviceInv /\ Device!Init
  BY InitDevice, InitMaps
<1>2. DeviceInv /\ [Next]_vars => DeviceInv' /\ [Device!Next]_(Device!vars)
  BY NextDevice, NextMaps
<1> QED  BY <1>1, <1>2, PTL DEF Spec, IsADevice, Device!Spec

=============================================================================
