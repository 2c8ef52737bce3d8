----------------------------- MODULE CharDevice -----------------------------
(***************************************************************************)
(* What a program that uses /dev/oscddrv relies on: one array of bytes, an *)
(* offset for each open file, two tallies and a mode, and calls that take  *)
(* effect one after the other, each in one step between its beginning and  *)
(* its end.  Growing the array adds zero bytes, whatever was there before. *)
(***************************************************************************)
EXTENDS Integers, Sequences

CONSTANTS
    Tasks, Files,
    Bytes,      \* values of a byte, 0 among them
    InitSize,   \* size of the array when the driver is loaded
    MaxSize,    \* the largest size it can be given
    CountMod    \* the tallies are counted modulo this bound

VARIABLES
    bytes,   \* the array; empty while no driver is loaded
    off,     \* offset of each open file, or -1
    tally,   \* writes and reads that moved data since they were reset
    mode,    \* 0 normal, 1 performance
    reply    \* reply[t]: the result of the call t is about to return from

vars == <<bytes, off, tally, mode, reply>>

NoReply == [err |-> "none", got |-> <<>>]
Fails(err) == [err |-> err, got |-> <<>>]
Returns(got) == [err |-> "ok", got |-> got]

Zeros(n) == [j \in 1 .. n |-> 0]
NoTally == [writes |-> 0, reads |-> 0]
Plus1(k) == (k + 1) % CountMod

Init ==
    /\ bytes = <<>>
    /\ off = [f \in Files |-> -1]
    /\ tally = NoTally
    /\ mode = 0
    /\ reply = [t \in Tasks |-> NoReply]

Unchanged == UNCHANGED <<bytes, off, tally, mode>>
Answer(t, r) == reply[t] = NoReply /\ reply' = [reply EXCEPT ![t] = r]

(* How many of n bytes there are from the offset of f on. *)
Room(f, n) ==
    IF off[f] + n <= Len(bytes) THEN n
    ELSE IF off[f] <= Len(bytes) THEN Len(bytes) - off[f] ELSE 0

Read(t, f, n) ==
    LET len == Room(f, n)
    IN  /\ off[f] >= 0
        /\ off' = [off EXCEPT ![f] = @ + len]
        /\ tally' = IF len > 0 THEN [tally EXCEPT !.reads = Plus1(@)] ELSE tally
        /\ Answer(t, Returns(SubSeq(bytes, off[f] + 1, off[f] + len)))
        /\ UNCHANGED <<bytes, mode>>

Write(t, f, n, v) ==
    LET len == Room(f, n)
    IN  /\ off[f] >= 0
        /\ off[f] < Len(bytes)
        /\ off' = [off EXCEPT ![f] = @ + len]
        /\ tally' = IF len > 0 THEN [tally EXCEPT !.writes = Plus1(@)] ELSE tally
        /\ bytes' = [j \in 1 .. Len(bytes) |->
                       IF j \in off[f] + 1 .. off[f] + len THEN v ELSE bytes[j]]
        /\ Answer(t, Returns(<<len>>))
        /\ UNCHANGED mode

WriteFull(t, f) ==
    off[f] >= Len(bytes) /\ Answer(t, Fails("ENOSPC")) /\ Unchanged

(* A write whose data cannot be read leaves a beginning of it and zeros. *)
WriteFault(t, f, n, v, k) ==
    LET len == Room(f, n)
    IN  /\ off[f] >= 0 /\ len > 0 /\ k < len
        /\ bytes' = [j \in 1 .. Len(bytes) |->
                       IF j \in off[f] + 1 .. off[f] + k THEN v
                       ELSE IF j \in off[f] + k + 1 .. off[f] + len THEN 0
                       ELSE bytes[j]]
        /\ Answer(t, Fails("EFAULT"))
        /\ UNCHANGED <<off, tally, mode>>

GetStats(t) ==
    /\ bytes # <<>>
    /\ Answer(t, Returns(<<Len(bytes), tally.writes, tally.reads, mode>>))
    /\ Unchanged

Reset(t) ==
    /\ bytes' = Zeros(Len(bytes))
    /\ tally' = NoTally
    /\ Answer(t, Returns(<<>>))
    /\ UNCHANGED <<off, mode>>

SetSize(t, size) ==
    /\ size \in 1 .. MaxSize
    /\ bytes # <<>>
    /\ bytes' = [j \in 1 .. size |-> IF j <= Len(bytes) THEN bytes[j] ELSE 0]
    /\ Answer(t, Returns(<<>>))
    /\ UNCHANGED <<off, tally, mode>>

SetMode(t, m) ==
    /\ m \in {0, 1}
    /\ mode' = m
    /\ Answer(t, Returns(<<>>))
    /\ UNCHANGED <<bytes, off, tally>>

(* A call that fails changes nothing. *)
Refuse(t, err) == Answer(t, Fails(err)) /\ Unchanged

(* The statistics are there and cannot be handed over. *)
HandOverFault(t) ==
    /\ reply[t].err = "ok"
    /\ reply' = [reply EXCEPT ![t] = Fails("EFAULT")]
    /\ Unchanged

Return(t) == reply' = [reply EXCEPT ![t] = NoReply] /\ Unchanged

Open(f) ==
    /\ off[f] = -1 /\ bytes # <<>>
    /\ off' = [off EXCEPT ![f] = 0]
    /\ UNCHANGED <<bytes, tally, mode, reply>>
Close(f) ==
    /\ off' = [off EXCEPT ![f] = -1]
    /\ UNCHANGED <<bytes, tally, mode, reply>>

(* The driver comes with a fresh array and leaves when no file is open. *)
Load ==
    /\ bytes = <<>>
    /\ bytes' = Zeros(InitSize) /\ tally' = NoTally /\ mode' = 0
    /\ UNCHANGED <<off, reply>>
Unload ==
    /\ \A f \in Files : off[f] = -1
    /\ bytes' = <<>> /\ tally' = NoTally /\ mode' = 0
    /\ UNCHANGED <<off, reply>>

Next ==
    \/ /\ reply' = reply
       /\ Load \/ Unload \/ \E f \in Files : Open(f) \/ Close(f)
    \/ \E t \in Tasks :
        \/ reply'[t] = NoReply /\ Return(t)
        \/ HandOverFault(t)
        \/ /\ reply'[t] # NoReply
           /\ \/ GetStats(t) \/ Reset(t)
              \/ \E size \in 1 .. MaxSize : SetSize(t, size)
              \/ \E m \in {0, 1} : SetMode(t, m)
              \/ \E err \in {"EFAULT", "EINVAL", "ENOMEM", "ENOTTY"} :
                    Refuse(t, err)
              \/ \E f \in Files, n \in 0 .. MaxSize :
                  \/ Read(t, f, n)
                  \/ WriteFull(t, f)
                  \/ \E v \in Bytes :
                      \/ Write(t, f, n, v)
                      \/ \E k \in 0 .. MaxSize : WriteFault(t, f, n, v, k)

Spec == Init /\ [][Next]_vars
=============================================================================
