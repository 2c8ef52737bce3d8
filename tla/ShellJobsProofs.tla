--------------------------- MODULE ShellJobsProofs ---------------------------
(***************************************************************************)
(* Theorems of ShellJobs, for every size of the job table, every number of *)
(* processes and every set of statuses: its type invariant, and what the   *)
(* job table promises although the SIGCHLD handler writes into it between  *)
(* any two steps of the main program.                                      *)
(***************************************************************************)
EXTENDS ShellJobs, SequenceTheorems, TLAPS

Compacting == sh.pc = "compact" \/ Copying
Adding == sh.pc \in {"add", "publish"} \/ Compacting

(* What holds of the main program's locals at each place. *)
Place ==
    /\ sh.pc # "prompt" => sh.todo # <<>>
    /\ sh.pc = "fork" => sh.left > 0
    /\ Compacting => sh.new <= sh.i /\ sh.i <= count + 1
    /\ Copying => sh.new < sh.i /\ sh.i <= count
    /\ sh.pc = "publish" => count < MaxJobs
    /\ ~(Compacting \/ sh.pc = "publish") => sh.i = 1 /\ sh.new = 1
    /\ Adding => sh.last # 0

(* A row in use names a process that was forked; it is marked when that
   process was collected, and then only. *)
RowsKnown ==
    /\ sh.last # 0 => proc[sh.last] # "unborn"
    /\ \A r \in 1 .. count :
        /\ jobs[r].pid # 0
        /\ proc[jobs[r].pid] # "unborn"
        /\ jobs[r].notified = ~jobs[r].running
        /\ ~jobs[r].running /\ ~Torn(r) => proc[jobs[r].pid] = "gone"
        /\ Adding => jobs[r].pid # sh.last
        /\ jobs[r].id < nextId

(* Row r has a copy before new, or its process was collected. *)
Saved(r) ==
    \/ proc[jobs[r].pid] = "gone"
    \/ \E s \in 1 .. sh.new - 1 :
         jobs[s].running /\ jobs[s].pid = jobs[r].pid

(* During a compaction a row already passed is saved, but for the row that
   bears the name of the row being copied. *)
Named(r) == sh.pc = "copyState" /\ r = sh.new
Passed ==
    Compacting =>
        \A r \in sh.new .. sh.i - 1 : jobs[r].running /\ ~Named(r) => Saved(r)

(* The row half written, and the row it is copied from. *)
HalfWritten ==
    /\ sh.pc = "copyState" =>
         /\ jobs[sh.new].id = jobs[sh.i].id
         /\ jobs[sh.new].pid = jobs[sh.i].pid
    /\ sh.pc = "copyName" =>
         (~jobs[sh.new].running => proc[jobs[sh.i].pid] = "gone")

(* The rows that will be in use when the compaction ends. *)
Kept(r) == Compacting => r < sh.new \/ r >= sh.i

KeptInOrder ==
    \A r, s \in 1 .. count :
        r < s /\ Kept(r) /\ Kept(s) =>
            jobs[r].id < jobs[s].id /\ jobs[r].pid # jobs[s].pid

IInv == TypeOK /\ Place /\ RowsKnown /\ Passed /\ HalfWritten /\ KeptInOrder

-----------------------------------------------------------------------------
(* The main program's locals. *)

LEMMA AtPromptType == AtPrompt \in MainProgram
BY ShellAssumption DEF AtPrompt, MainProgram

LEMMA SegmentType ==
    ASSUME NEW line \in Lines
    PROVE  line \in Seq(Segment) /\ line # <<>>
BY ShellAssumption DEF Segment

LEMMA TailType ==
    ASSUME NEW S, NEW q \in Seq(S), Len(q) > 1
    PROVE  Tail(q) \in Seq(S) /\ Tail(q) # <<>>
<1>1. q # <<>>
  OBVIOUS
<1>2. Tail(q) \in Seq(S) /\ Len(Tail(q)) = Len(q) - 1
  BY <1>1, HeadTailProperties
<1>3. Len(Tail(q)) # 0 /\ Len(<<>>) = 0
  BY <1>2
<1> QED BY <1>2, <1>3

(* Where a segment ends, and what is left of it. *)
LEMMA FinishType ==
    ASSUME TypeOK, sh.todo # <<>>, NEW s \in Codes, Finish(s)
    PROVE  /\ sh' \in MainProgram
           /\ exit' \in Codes
           /\ sh'.pc \in {"prompt", "segment"}
           /\ sh'.pc # "prompt" => sh'.todo # <<>>
           /\ sh'.last = 0 /\ sh'.i = 1 /\ sh'.new = 1
<1>1. sh.todo \in Seq(Segment) /\ exit \in Codes
  BY DEF TypeOK, MainProgram
<1>2. CASE Len(sh.todo) > 1
  <2> DEFINE rest == Tail(sh.todo)
  <2>1. rest \in Seq(Segment) /\ rest # <<>>
    BY <1>1, <1>2, TailType
  <2>2. sh' = [AtPrompt EXCEPT !.pc = "segment", !.todo = rest,
                               !.logic = TRUE, !.status = s]
    BY <1>2 DEF Finish
  <2>3. exit' = exit
    BY <1>2 DEF Finish
  <2> HIDE DEF rest
  <2>4. sh' \in MainProgram
    BY <2>1, <2>2, AtPromptType DEF MainProgram
  <2>5. sh'.pc = "segment" /\ sh'.todo = rest /\ sh'.last = 0
    BY <2>2 DEF AtPrompt
  <2>6. sh'.i = 1 /\ sh'.new = 1
    BY <2>2 DEF AtPrompt
  <2> QED BY <1>1, <2>1, <2>3, <2>4, <2>5, <2>6
<1>3. CASE ~(Len(sh.todo) > 1)
  <2>1. sh' = AtPrompt
    BY <1>3 DEF Finish
  <2>2. exit' \in Codes
    BY <1>3, ShellAssumption DEF Finish
  <2> QED BY <2>1, <2>2, AtPromptType DEF AtPrompt
<1> QED BY <1>2, <1>3

-----------------------------------------------------------------------------
(* The initial state. *)

LEMMA InitIInv == Init => IInv
<1> SUFFICES ASSUME Init PROVE IInv
  OBVIOUS
<1> USE ShellAssumption
<1>1. TypeOK
  <2>1. code \in [Pids -> Codes] /\ exit \in Codes
    BY DEF Init
  <2>2. jobs \in [Rows -> Job]
    BY DEF Init, Job, NoJob
  <2>3. sh \in MainProgram
    BY AtPromptType DEF Init
  <2>4. proc \in [Pids -> {"unborn", "running", "zombie", "gone"}]
    BY DEF Init
  <2>5. count \in 0 .. MaxJobs /\ nextId \in Nat
    BY DEF Init
  <2>6. pending \in BOOLEAN
    BY Zenon DEF Init
  <2> QED BY <2>1, <2>2, <2>3, <2>4, <2>5, <2>6 DEF TypeOK
<1>2. Place
  BY DEF Init, Place, AtPrompt, Adding, Compacting, Copying
<1>3. RowsKnown
  BY DEF Init, RowsKnown, AtPrompt
<1>4. Passed /\ HalfWritten
  BY DEF Init, Passed, HalfWritten, Compacting, Copying, AtPrompt
<1>5. KeptInOrder
  BY DEF Init, KeptInOrder
<1> QED BY <1>1, <1>2, <1>3, <1>4, <1>5 DEF IInv

-----------------------------------------------------------------------------
(* Steps that leave the table alone. *)

(* What the kernel may do to the children in one step: none comes back. *)
Ageing ==
    /\ proc' \in [Pids -> {"unborn", "running", "zombie", "gone"}]
    /\ code' \in [Pids -> Codes]
    /\ pending' \in BOOLEAN
    /\ \A p \in Pids : /\ proc[p] = "gone" => proc'[p] = "gone"
                       /\ proc[p] # "unborn" => proc'[p] # "unborn"

LEMMA NoAgeing == ASSUME TypeOK, UNCHANGED kernel PROVE Ageing
BY DEF TypeOK, kernel, Ageing

LEMMA RowType ==
    ASSUME TypeOK, NEW r \in 1 .. count
    PROVE  /\ r \in Rows
           /\ jobs[r].id \in Nat
           /\ jobs[r].pid \in Pids \union {0}
           /\ jobs[r].running \in BOOLEAN
           /\ jobs[r].notified \in BOOLEAN
<1>1. r \in Rows /\ jobs[r] \in Job
  BY ShellAssumption DEF TypeOK, Rows
<1> QED BY <1>1 DEF Job

(* A step that leaves the table alone and enters no part of add_job. *)
LEMMA TableIInv ==
    ASSUME IInv, Ageing, UNCHANGED table, TypeOK', Place',
           sh'.last \in {0, sh.last},
           Adding' => Adding /\ sh'.last = sh.last,
           Compacting \/ Compacting' =>
             sh'.pc = sh.pc /\ sh'.i = sh.i /\ sh'.new = sh.new
    PROVE  IInv'
<1>0. sh.last \in Pids \union {0}
  BY DEF IInv, TypeOK, MainProgram
<1>1. \A r \in 1 .. count : jobs[r].pid \in Pids
  BY RowType DEF IInv, RowsKnown
<1>5. RowsKnown /\ Passed /\ HalfWritten
  BY DEF IInv
<1>7. \A r : Torn(r)' <=> Torn(r)
  BY DEF Torn, Compacting, Copying
<1>6. \A p \in Pids : /\ proc[p] = "gone" => proc'[p] = "gone"
                      /\ proc[p] # "unborn" => proc'[p] # "unborn"
  BY DEF Ageing
<1>2. RowsKnown'
  <2>1. sh'.last # 0 => proc'[sh'.last] # "unborn"
    <3>1. CASE sh'.last = 0
      BY <3>1
    <3>2. CASE sh'.last = sh.last /\ sh.last # 0
      <4>1. sh.last \in Pids /\ proc[sh.last] # "unborn"
        BY <1>0, <1>5, <3>2 DEF RowsKnown
      <4> QED BY <4>1, <3>2, <1>6
    <3> QED BY <3>1, <3>2
  <2>2. ASSUME NEW r \in 1 .. count
        PROVE  /\ jobs[r].pid # 0
               /\ proc'[jobs[r].pid] # "unborn"
               /\ jobs[r].notified = ~jobs[r].running
               /\ ~jobs[r].running /\ ~Torn(r)' => proc'[jobs[r].pid] = "gone"
               /\ Adding' => jobs[r].pid # sh'.last
               /\ jobs[r].id < nextId
    <3>1. /\ jobs[r].pid \in Pids
          /\ jobs[r].pid # 0
          /\ proc[jobs[r].pid] # "unborn"
          /\ jobs[r].notified = ~jobs[r].running
          /\ ~jobs[r].running /\ ~Torn(r) => proc[jobs[r].pid] = "gone"
          /\ Adding => jobs[r].pid # sh.last
          /\ jobs[r].id < nextId
      BY <1>1, <1>5 DEF RowsKnown
    <3>2. Adding' => jobs[r].pid # sh'.last
      BY <3>1
    <3> QED BY <3>1, <3>2, <1>6, <1>7
  <2> QED BY <2>1, <2>2 DEF RowsKnown, table
<1>3. Passed'
  <2> SUFFICES ASSUME Compacting', NEW r \in sh'.new .. sh'.i - 1,
                      jobs'[r].running, ~Named(r)'
               PROVE  Saved(r)'
    BY DEF Passed
  <2>1. /\ Compacting /\ sh'.pc = sh.pc /\ sh'.i = sh.i /\ sh'.new = sh.new
        /\ jobs' = jobs
    BY DEF Compacting, Copying, table
  <2>2. r \in 1 .. count /\ r \in sh.new .. sh.i - 1
    BY <2>1 DEF IInv, Place, TypeOK, MainProgram
  <2>3. Saved(r)
    BY <1>5, <2>1, <2>2 DEF Passed, Named
  <2> QED BY <2>1, <2>2, <2>3, <1>1, <1>6 DEF Saved
<1>8. HalfWritten'
  <2>1. CASE sh'.pc \in {"copyState", "copyName"}
    <3>1. /\ Copying /\ sh'.pc = sh.pc /\ sh'.i = sh.i /\ sh'.new = sh.new
          /\ jobs' = jobs
      BY <2>1 DEF Compacting, Copying, table
    <3>2. sh.i \in 1 .. count
      BY <3>1 DEF IInv, Place, TypeOK, MainProgram
    <3> QED BY <1>1, <1>5, <1>6, <3>1, <3>2 DEF HalfWritten
  <2>2. CASE sh'.pc \notin {"copyState", "copyName"}
    BY <2>2 DEF HalfWritten
  <2> QED BY <2>1, <2>2
<1>4. KeptInOrder'
  BY DEF IInv, KeptInOrder, Kept, Compacting, Copying, table
<1> QED BY <1>2, <1>3, <1>4, <1>8 DEF IInv

LEMMA FinishIInv ==
    ASSUME IInv, Ageing, UNCHANGED table, sh.pc # "prompt", ~Compacting,
           NEW s \in Codes, Finish(s)
    PROVE  IInv'
<1>1. /\ sh' \in MainProgram
      /\ exit' \in Codes
      /\ sh'.pc \in {"prompt", "segment"}
      /\ sh'.pc # "prompt" => sh'.todo # <<>>
      /\ sh'.last = 0 /\ sh'.i = 1 /\ sh'.new = 1
  BY FinishType DEF IInv, Place
<1>2. TypeOK'
  BY <1>1 DEF IInv, TypeOK, Ageing, table
<1>3. Place'
  BY <1>1 DEF Place, Adding, Compacting, Copying
<1> QED BY <1>1, <1>2, <1>3, TableIInv DEF Adding, Compacting, Copying

LEMMA EnterIInv ==
    ASSUME IInv, NEW line \in Lines, NEW bg \in BOOLEAN, NEW logic \in BOOLEAN,
           Enter(line, bg, logic)
    PROVE  IInv'
<1> USE DEF IInv
<1>1. /\ sh'.pc = "segment" /\ sh'.todo = line /\ sh'.last = 0
      /\ sh'.i = 1 /\ sh'.new = 1 /\ sh.pc = "prompt" /\ line # <<>>
  BY SegmentType DEF Enter, AtPrompt
<1>t. TypeOK'
  <2>1. sh' = [AtPrompt EXCEPT !.pc = "segment", !.todo = line, !.bg = bg,
                              !.logic = logic]
    BY DEF Enter
  <2>2. line \in Seq(Segment)
    BY SegmentType
  <2>4. sh' \in MainProgram
    BY <2>1, <2>2, AtPromptType DEF MainProgram
  <2> QED BY <2>4 DEF TypeOK, Enter, kernel, table
<1>p. Place'
  BY <1>1 DEF Place, Adding, Compacting, Copying
<1>r. RowsKnown'
  BY <1>1 DEF RowsKnown, Torn, Adding, Compacting, Copying, Enter, kernel, table
<1>c. Passed' /\ HalfWritten'
  BY <1>1 DEF Passed, HalfWritten, Compacting, Copying
<1>k. KeptInOrder'
  BY <1>1 DEF KeptInOrder, Kept, Compacting, Copying, Enter, kernel, table
<1> QED BY <1>t, <1>p, <1>r, <1>c, <1>k

LEMMA RefuseIInv == ASSUME IInv, Refuse PROVE IInv'
BY ShellAssumption
   DEF Refuse, IInv, TypeOK, Place, RowsKnown, Passed, Saved, Named, HalfWritten,
       KeptInOrder, Kept, Adding, Compacting, Copying, Torn, kernel, table

LEMMA IdleIInv ==
    ASSUME IInv, UNCHANGED vars PROVE IInv'
BY DEF vars, IInv, TypeOK, Place, RowsKnown, Passed, Saved, Named, HalfWritten,
       KeptInOrder, Kept, Adding, Compacting, Copying, Torn


LEMMA LaunchIInv == ASSUME IInv, Launch PROVE IInv'
<1> USE DEF IInv
<1>1. /\ sh.pc = "segment" /\ sh'.pc = "fork" /\ sh'.todo = sh.todo
      /\ sh'.last = sh.last /\ sh'.i = sh.i /\ sh'.new = sh.new
  BY DEF Launch, TypeOK, MainProgram
<1>t. TypeOK'
  <2>1. Head(sh.todo) \in Segment
    BY <1>1, HeadTailProperties DEF Place, TypeOK, MainProgram
  <2>2. Head(sh.todo).stages \in 0 .. MaxStages
    BY <2>1 DEF Segment
  <2>3. sh' \in MainProgram
    BY <2>2, ShellAssumption DEF Launch, TypeOK, MainProgram
  <2> QED BY <2>3 DEF TypeOK, Launch, kernel, table
<1>p. Place'
  <2>1. sh'.left > 0
    BY DEF Launch, TypeOK, MainProgram
  <2> QED BY <1>1, <2>1 DEF Place, Adding, Compacting, Copying
<1>r. RowsKnown'
  BY <1>1 DEF RowsKnown, Torn, Adding, Compacting, Copying, Launch, kernel, table
<1>c. Passed' /\ HalfWritten'
  BY <1>1 DEF Passed, HalfWritten, Compacting, Copying
<1>k. KeptInOrder'
  BY <1>1 DEF KeptInOrder, Kept, Compacting, Copying, Launch, kernel, table
<1> QED BY <1>t, <1>p, <1>r, <1>c, <1>k


LEMMA SleepIInv == ASSUME IInv, Sleep PROVE IInv'
<1> USE DEF IInv
<1>1. /\ sh.pc = "wait" /\ sh'.pc = "asleep" /\ sh'.todo = sh.todo
      /\ sh'.last = sh.last /\ sh'.i = sh.i /\ sh'.new = sh.new
  BY DEF Sleep, TypeOK, MainProgram
<1>t. TypeOK'
  <2>1. sh' \in MainProgram
    BY DEF Sleep, TypeOK, MainProgram
  <2> QED BY <2>1 DEF TypeOK, Sleep, kernel, table
<1>p. Place'
  BY <1>1 DEF Place, Adding, Compacting, Copying
<1>r. RowsKnown'
  BY <1>1 DEF RowsKnown, Torn, Adding, Compacting, Copying, Sleep, kernel, table
<1>c. Passed' /\ HalfWritten'
  BY <1>1 DEF Passed, HalfWritten, Compacting, Copying
<1>k. KeptInOrder'
  BY <1>1 DEF KeptInOrder, Kept, Compacting, Copying, Sleep, kernel, table
<1> QED BY <1>t, <1>p, <1>r, <1>c, <1>k


LEMMA AddJobIInv == ASSUME IInv, AddJob PROVE IInv'
<1> USE DEF IInv
<1>1. /\ sh.pc = "add" /\ sh'.todo = sh.todo
      /\ sh'.pc = IF count < MaxJobs THEN "publish" ELSE "compact"
      /\ sh'.last = sh.last /\ sh'.i = sh.i /\ sh'.new = sh.new
  BY DEF AddJob, TypeOK, MainProgram
<1>t. TypeOK'
  <2>1. sh' \in MainProgram
    BY DEF AddJob, TypeOK, MainProgram
  <2> QED BY <2>1 DEF TypeOK, AddJob, kernel, table
<1>p. Place'
  <2>1. count' = count /\ count \in 0 .. MaxJobs
    BY DEF AddJob, TypeOK, table
  <2> QED BY <1>1, <2>1 DEF Place, Adding, Compacting, Copying
<1>r. RowsKnown'
  BY <1>1 DEF RowsKnown, Torn, Adding, Compacting, Copying, AddJob, kernel, table
<1>c. Passed' /\ HalfWritten'
  <2>1. sh'.i = 1 /\ sh'.new = 1
    BY <1>1 DEF Place, Compacting, Copying
  <2> QED BY <1>1, <2>1 DEF Passed, HalfWritten
<1>k. KeptInOrder'
  <2>1. sh'.i = 1 /\ sh'.new = 1
    BY <1>1 DEF Place, Compacting, Copying
  <2> QED BY <1>1, <2>1 DEF KeptInOrder, Kept, Compacting, Copying, AddJob, kernel, table
<1> QED BY <1>t, <1>p, <1>r, <1>c, <1>k

LEMMA SkipSegmentIInv == ASSUME IInv, SkipSegment PROVE IInv'
<1>1. sh.status \in Codes
  BY DEF IInv, TypeOK, MainProgram
<1> QED BY <1>1, NoAgeing, FinishIInv DEF IInv, SkipSegment, Compacting, Copying

LEMMA BuiltinIInv == ASSUME IInv, Builtin PROVE IInv'
<1>1. {0, 1} \subseteq Codes
  BY ShellAssumption
<1>2. PICK s \in {0, 1} : Finish(s)
  BY DEF Builtin
<1> QED BY <1>1, <1>2, NoAgeing, FinishIInv DEF IInv, Builtin, Compacting, Copying

LEMMA PipeFailsIInv == ASSUME IInv, PipeFails PROVE IInv'
BY ShellAssumption, NoAgeing, FinishIInv
   DEF IInv, PipeFails, Compacting, Copying

LEMMA NoChildIInv == ASSUME IInv, NoChild PROVE IInv'
<1>1. sh.status \in Codes
  BY DEF IInv, TypeOK, MainProgram
<1>2. \E s \in Codes : Finish(s)
  BY <1>1 DEF NoChild
<1> QED BY <1>2, NoAgeing, FinishIInv DEF IInv, NoChild, Compacting, Copying

LEMMA ForkFailsIInv == ASSUME IInv, ForkFails PROVE IInv'
<1>1. Ageing /\ UNCHANGED table /\ sh.pc = "fork"
  BY NoAgeing DEF IInv, ForkFails
<1>2. CASE Finish(0) \/ Finish(1)
  BY <1>1, <1>2, ShellAssumption, FinishIInv DEF Compacting, Copying
<1>3. CASE sh.left > 1 /\ sh' = [sh EXCEPT !.left = @ - 1] /\ UNCHANGED exit
  <2> DEFINE left == sh.left - 1
  <2>0. left \in 0 .. MaxStages
    BY <1>3, ShellAssumption DEF IInv, TypeOK, MainProgram
  <2>1. sh' \in MainProgram
    <3>1. sh' = [sh EXCEPT !.left = left]
      BY <1>3
    <3> HIDE DEF left
    <3> QED BY <2>0, <3>1 DEF IInv, TypeOK, MainProgram
  <2>2. /\ sh'.pc = "fork" /\ sh'.todo = sh.todo /\ sh'.left > 0
        /\ sh'.last = sh.last /\ sh'.i = sh.i /\ sh'.new = sh.new
    BY <1>1, <1>3, ShellAssumption DEF IInv, TypeOK, MainProgram
  <2>3. TypeOK'
    BY <1>1, <1>3, <2>1 DEF IInv, TypeOK, Ageing, table
  <2>4. Place'
    BY <1>1, <2>2 DEF IInv, Place, Adding, Compacting, Copying
  <2> QED BY <1>1, <2>2, <2>3, <2>4, TableIInv DEF Adding, Compacting, Copying
<1>4. CASE sh' = [sh EXCEPT !.left = 0, !.pc = "wait"] /\ UNCHANGED exit
  <2>1. sh' \in MainProgram
    <3>1. 0 \in 0 .. MaxStages
      BY ShellAssumption
    <3> QED BY <1>4, <3>1 DEF IInv, TypeOK, MainProgram
  <2>2. /\ sh'.pc = "wait" /\ sh'.todo = sh.todo
        /\ sh'.last = sh.last /\ sh'.i = sh.i /\ sh'.new = sh.new
    BY <1>4 DEF IInv, TypeOK, MainProgram
  <2>3. TypeOK'
    BY <1>1, <1>4, <2>1 DEF IInv, TypeOK, Ageing, table
  <2>4. Place'
    BY <1>1, <2>2 DEF IInv, Place, Adding, Compacting, Copying
  <2> QED BY <1>1, <2>2, <2>3, <2>4, TableIInv DEF Adding, Compacting, Copying
<1> QED BY <1>2, <1>3, <1>4 DEF ForkFails

-----------------------------------------------------------------------------
(* Children that start, end and are collected. *)

LEMMA ExitIInv ==
    ASSUME IInv, NEW p \in Pids, NEW c \in Codes, Exit(p, c) PROVE IInv'
<1>1. Ageing /\ UNCHANGED table /\ UNCHANGED exit
  <2>1. pending' \in BOOLEAN
    BY Zenon DEF Exit
  <2> QED BY <2>1 DEF IInv, TypeOK, Exit, Ageing
<1>2. sh' \in MainProgram
  BY DEF IInv, TypeOK, MainProgram, Exit
<1>3. /\ sh'.pc = sh.pc /\ sh'.todo = sh.todo /\ sh'.left = sh.left
      /\ sh'.last = sh.last /\ sh'.i = sh.i /\ sh'.new = sh.new
  BY DEF IInv, TypeOK, MainProgram, Exit
<1>4. TypeOK'
  BY <1>1, <1>2 DEF IInv, TypeOK, Ageing, table
<1>5. Place'
  BY <1>1, <1>3 DEF IInv, Place, Adding, Compacting, Copying, table
<1> QED BY <1>1, <1>3, <1>4, <1>5, TableIInv DEF Adding, Compacting, Copying

LEMMA ReapIInv == ASSUME IInv, NEW p \in Pids, Reap(p) PROVE IInv'
<1>1. Ageing /\ UNCHANGED table /\ code[p] \in Codes
  BY ShellAssumption DEF IInv, TypeOK, Reap, Ageing, Zombies
<1>2. CASE Single
  BY <1>1, <1>2, FinishIInv DEF Reap, Compacting, Copying
<1>3. CASE ~Single
  <2>1. sh' \in MainProgram
    BY <1>1, <1>3 DEF IInv, TypeOK, MainProgram, Reap
  <2>2. /\ sh'.pc = "wait" /\ sh'.todo = sh.todo
        /\ sh'.last = sh.last /\ sh'.i = sh.i /\ sh'.new = sh.new
    BY <1>3 DEF IInv, TypeOK, MainProgram, Reap
  <2>3. sh.pc \in {"wait", "asleep"} /\ exit' = exit
    BY <1>3 DEF Reap
  <2>4. TypeOK'
    BY <1>1, <2>1, <2>3 DEF IInv, TypeOK, Ageing, table
  <2>5. Place'
    BY <2>2, <2>3 DEF IInv, Place, Adding, Compacting, Copying
  <2> QED BY <1>1, <2>2, <2>3, <2>4, <2>5, TableIInv DEF Adding, Compacting, Copying
<1> QED BY <1>2, <1>3

LEMMA ForkIInv == ASSUME IInv, Fork PROVE IInv'
<1>1. PICK p \in Pids :
        /\ proc[p] = "unborn"
        /\ proc' = [proc EXCEPT ![p] = "running"]
        /\ sh' = [sh EXCEPT
             !.mine = @ \union {p},
             !.last = IF sh.left = 1 THEN p ELSE 0,
             !.left = @ - 1,
             !.pc = IF sh.left > 1 THEN "fork"
                    ELSE IF sh.bg THEN "add" ELSE "wait"]
  BY DEF Fork
<1>2. /\ sh.pc = "fork" /\ sh.todo # <<>> /\ sh.i = 1 /\ sh.new = 1
      /\ sh.left \in 1 .. MaxStages
  BY DEF IInv, Place, Fork, TypeOK, MainProgram, Compacting, Copying
<1>3. Ageing /\ UNCHANGED table /\ UNCHANGED exit
  BY <1>1 DEF IInv, TypeOK, Ageing, Fork
<1> DEFINE last == IF sh.left = 1 THEN p ELSE 0
           left == sh.left - 1
           pc == IF sh.left > 1 THEN "fork" ELSE IF sh.bg THEN "add" ELSE "wait"
           mine == sh.mine \union {p}
<1>4. sh' = [sh EXCEPT !.mine = mine, !.last = last, !.left = left, !.pc = pc]
  BY <1>1
<1>5. /\ last \in {0, p} /\ left \in 0 .. MaxStages
      /\ pc \in {"fork", "add", "wait"}
      /\ pc = "fork" => left > 0
      /\ pc # "fork" => last = p
  BY <1>2, ShellAssumption
<1>6. mine \in SUBSET Pids
  BY DEF IInv, TypeOK, MainProgram
<1> HIDE DEF last, left, pc, mine
<1>7. sh' \in MainProgram
  BY <1>4, <1>5, <1>6 DEF IInv, TypeOK, MainProgram
<1>8. /\ sh'.pc = pc /\ sh'.todo = sh.todo /\ sh'.left = left /\ sh'.last = last
      /\ sh'.i = sh.i /\ sh'.new = sh.new
  BY <1>4 DEF IInv, TypeOK, MainProgram
<1>9. p # 0
  BY DEF Pids
<1>t. TypeOK'
  BY <1>3, <1>7 DEF IInv, TypeOK, Ageing, table
<1>p. Place'
  BY <1>2, <1>5, <1>8, <1>9 DEF Place, Adding, Compacting, Copying
<1>r. RowsKnown'
  <2>1. proc'[p] = "running"
    BY <1>1 DEF IInv, TypeOK
  <2>2. sh'.last # 0 => proc'[sh'.last] # "unborn"
    BY <2>1, <1>5, <1>8
  <2>3. ASSUME NEW r \in 1 .. count
        PROVE  /\ jobs[r].pid # 0
               /\ proc'[jobs[r].pid] # "unborn"
               /\ jobs[r].notified = ~jobs[r].running
               /\ ~jobs[r].running => proc'[jobs[r].pid] = "gone"
               /\ jobs[r].pid # p
               /\ jobs[r].id < nextId
    <3>1. /\ jobs[r].pid \in Pids
          /\ proc[jobs[r].pid] # "unborn"
          /\ jobs[r].notified = ~jobs[r].running
          /\ ~jobs[r].running => proc[jobs[r].pid] = "gone"
          /\ jobs[r].id < nextId
      BY <1>2, RowType DEF IInv, RowsKnown, Torn
    <3>2. proc'[jobs[r].pid] # "unborn" /\ jobs[r].pid # p
      BY <3>1, <1>1, <1>3 DEF Ageing
    <3>3. proc[jobs[r].pid] = "gone" => proc'[jobs[r].pid] = "gone"
      BY <3>1, <1>3 DEF Ageing
    <3>4. jobs[r].pid # 0
      BY <3>1 DEF Pids
    <3> QED BY <3>1, <3>2, <3>3, <3>4
  <2>4. Adding' => sh'.last = p
    BY <1>5, <1>8 DEF Adding, Compacting, Copying
  <2> QED BY <2>2, <2>3, <2>4, <1>3 DEF RowsKnown, table
<1>c. Passed' /\ HalfWritten'
  BY <1>5, <1>8 DEF Passed, HalfWritten, Compacting, Copying
<1>k. KeptInOrder'
  BY <1>2, <1>3, <1>5, <1>8
     DEF IInv, KeptInOrder, Kept, Compacting, Copying, table
<1> QED BY <1>t, <1>p, <1>r, <1>c, <1>k DEF IInv

(* What the handler leaves of a row. *)
LEMMA HandlerRow ==
    ASSUME TypeOK, Handler, NEW r \in Rows
    PROVE  /\ jobs' \in [Rows -> Job]
           /\ jobs'[r].id = jobs[r].id
           /\ jobs'[r].pid = jobs[r].pid
           /\ Matched(r, Reaped) =>
                ~jobs'[r].running /\ jobs'[r].notified
           /\ ~Matched(r, Reaped) => jobs'[r] = jobs[r]
<1>1. jobs \in [Rows -> Job]
  BY DEF TypeOK
<1> DEFINE hit(s) == Matched(s, Reaped)
<1>2. jobs' = [s \in Rows |->
                 IF hit(s) THEN [jobs[s] EXCEPT !.running = FALSE, !.notified = TRUE]
                 ELSE jobs[s]]
  BY DEF Handler
<1> HIDE DEF hit
<1>3. ASSUME NEW s \in Rows
      PROVE  [jobs[s] EXCEPT !.running = FALSE, !.notified = TRUE] \in Job
  BY <1>1 DEF Job
<1>4. jobs' \in [Rows -> Job]
  BY <1>1, <1>2, <1>3
<1>5. CASE hit(r)
  <2>1. jobs'[r] = [jobs[r] EXCEPT !.running = FALSE, !.notified = TRUE]
    BY <1>2, <1>5
  <2>2. jobs[r] \in Job
    BY <1>1
  <2> QED BY <1>4, <1>5, <2>1, <2>2 DEF Job, hit
<1>6. CASE ~hit(r)
  BY <1>2, <1>4, <1>6 DEF hit
<1> QED BY <1>5, <1>6

LEMMA HandlerIInv == ASSUME IInv, Handler PROVE IInv'
<1>0. TypeOK
  BY DEF IInv
<1>1. Ageing /\ count' = count /\ nextId' = nextId /\ exit' = exit
  <2>1. pending' \in BOOLEAN
    BY Zenon DEF Handler
  <2>2. proc' \in [Pids -> {"unborn", "running", "zombie", "gone"}]
    BY <1>0 DEF TypeOK, Handler
  <2>3. code' \in [Pids -> Codes]
    BY <1>0, ShellAssumption DEF TypeOK, Handler
  <2>4. \A p \in Pids :
          (proc[p] = "gone" => proc'[p] = "gone")
            /\ (proc[p] # "unborn" => proc'[p] # "unborn")
    BY <1>0 DEF TypeOK, Handler
  <2> QED BY <2>1, <2>2, <2>3, <2>4 DEF Handler, Ageing
<1>2. sh' \in MainProgram
  BY DEF IInv, TypeOK, MainProgram, Handler
<1>3. /\ sh'.pc = (IF sh.pc = "asleep" THEN "wait" ELSE sh.pc)
      /\ sh'.todo = sh.todo /\ sh'.left = sh.left
      /\ sh'.last = sh.last /\ sh'.i = sh.i /\ sh'.new = sh.new
  BY DEF IInv, TypeOK, MainProgram, Handler
<1>4. /\ Adding' <=> Adding
      /\ Compacting' <=> Compacting
      /\ \A r : (Torn(r)' <=> Torn(r)) /\ (Named(r)' <=> Named(r))
  BY <1>3 DEF Adding, Compacting, Copying, Torn, Named
<1>5. \A r \in 1 .. count : r \in Rows
  BY <1>0, RowType
<1>6. \A r \in Rows :
        Matched(r, Reaped) =>
            jobs[r].running /\ proc'[jobs[r].pid] = "gone"
  BY <1>0 DEF Handler, Matched, Reaped, Zombies
<1>t. TypeOK'
  <2>1. jobs' \in [Rows -> Job]
    <3>1. 1 \in Rows
      BY ShellAssumption DEF Rows
    <3> QED BY <1>0, <3>1, HandlerRow
  <2> QED BY <1>0, <1>1, <1>2, <2>1 DEF TypeOK, Ageing
<1>p. Place'
  BY <1>1, <1>3, <1>4 DEF IInv, Place, Copying
<1>r. RowsKnown'
  <2>0. sh.last \in Pids \union {0}
    BY <1>0 DEF TypeOK, MainProgram
  <2>1. sh'.last # 0 => proc'[sh'.last] # "unborn"
    BY <2>0, <1>1, <1>3 DEF IInv, RowsKnown, Ageing
  <2>2. ASSUME NEW r \in 1 .. count
        PROVE  /\ jobs'[r].pid # 0
               /\ proc'[jobs'[r].pid] # "unborn"
               /\ jobs'[r].notified = ~jobs'[r].running
               /\ ~jobs'[r].running /\ ~Torn(r) => proc'[jobs'[r].pid] = "gone"
               /\ Adding => jobs'[r].pid # sh.last
               /\ jobs'[r].id < nextId
    <3>1. /\ jobs[r].pid \in Pids
          /\ jobs[r].pid # 0
          /\ proc[jobs[r].pid] # "unborn"
          /\ jobs[r].notified = ~jobs[r].running
          /\ ~jobs[r].running /\ ~Torn(r) => proc[jobs[r].pid] = "gone"
          /\ Adding => jobs[r].pid # sh.last
          /\ jobs[r].id < nextId
      BY RowType DEF IInv, RowsKnown
    <3>2. /\ r \in Rows
          /\ jobs'[r].id = jobs[r].id
          /\ jobs'[r].pid = jobs[r].pid
          /\ ~Matched(r, Reaped) => jobs'[r] = jobs[r]
          /\ jobs' \in [Rows -> Job]
      BY <1>0, <1>5, HandlerRow
    <3>3. proc'[jobs'[r].pid] # "unborn"
      BY <3>1, <3>2, <1>1 DEF Ageing
    <3>4. CASE Matched(r, Reaped)
      <4>1. /\ jobs'[r].running = FALSE /\ jobs'[r].notified = TRUE
            /\ proc'[jobs'[r].pid] = "gone"
        <5>1. jobs'[r] \in Job
          BY <3>2
        <5> QED BY <3>2, <3>4, <5>1, <1>0, <1>6, HandlerRow DEF Job
      <4> QED BY <3>1, <3>2, <3>3, <4>1
    <3>5. CASE ~Matched(r, Reaped)
      BY <3>1, <3>2, <3>3, <3>5, <1>1 DEF Ageing
    <3> QED BY <3>4, <3>5
  <2> QED BY <2>1, <2>2, <1>1, <1>3, <1>4 DEF RowsKnown
<1>7. \A r \in 1 .. count : jobs[r].pid \in Pids
  BY RowType DEF IInv, RowsKnown
<1>8. ASSUME NEW r \in 1 .. count, Compacting, Saved(r) PROVE Saved(r)'
  <2>1. jobs'[r].pid = jobs[r].pid /\ sh'.new = sh.new
    BY <1>0, <1>3, <1>5, HandlerRow
  <2>2. CASE proc[jobs[r].pid] = "gone"
    BY <2>1, <2>2, <1>1, <1>7 DEF Ageing, Saved
  <2>3. CASE \E s \in 1 .. sh.new - 1 :
               jobs[s].running /\ jobs[s].pid = jobs[r].pid
    <3>1. PICK s \in 1 .. sh.new - 1 :
            jobs[s].running /\ jobs[s].pid = jobs[r].pid
      BY <2>3
    <3>2. s \in Rows
      <4>1. sh.new \in 1 .. MaxJobs + 1
        BY DEF IInv, TypeOK, MainProgram
      <4> QED BY <4>1, ShellAssumption DEF Rows
    <3>3. CASE Matched(s, Reaped)
      BY <2>1, <3>1, <3>2, <3>3, <1>6 DEF Saved
    <3>4. CASE ~Matched(s, Reaped)
      BY <2>1, <3>1, <3>2, <3>4, <1>0, HandlerRow DEF Saved
    <3> QED BY <3>3, <3>4
  <2> QED BY <1>8, <2>2, <2>3 DEF Saved
<1>c. Passed'
  <2> SUFFICES ASSUME Compacting, NEW r \in sh.new .. sh.i - 1,
                      jobs'[r].running, ~Named(r)
               PROVE  Saved(r)'
    BY <1>3, <1>4 DEF Passed
  <2>1. r \in 1 .. count
    BY DEF IInv, Place, TypeOK, MainProgram
  <2>2. jobs[r].running
    BY <2>1, <1>0, <1>5, HandlerRow
  <2>3. Saved(r)
    BY <2>2 DEF IInv, Passed
  <2> QED BY <2>1, <2>3, <1>8
<1>h. HalfWritten'
  <2>1. CASE sh.pc \in {"copyState", "copyName"}
    <3>1. /\ Compacting /\ sh'.pc = sh.pc
          /\ sh.i \in 1 .. count /\ sh.new \in 1 .. sh.i - 1 /\ sh.new \in 1 .. count
      BY <1>3, <2>1 DEF IInv, Place, TypeOK, MainProgram, Compacting, Copying
    <3>2. /\ jobs'[sh.i].id = jobs[sh.i].id /\ jobs'[sh.new].id = jobs[sh.new].id
          /\ jobs'[sh.i].pid = jobs[sh.i].pid /\ jobs'[sh.new].pid = jobs[sh.new].pid
      BY <3>1, <1>0, <1>5, HandlerRow
    <3>3. CASE sh.pc = "copyState"
      BY <3>1, <3>2, <3>3, <1>3 DEF IInv, HalfWritten
    <3>4. CASE sh.pc = "copyName"
      <4>1. CASE jobs[sh.new].running
        <5>1. Saved(sh.new)
          BY <3>1, <3>4, <4>1 DEF IInv, Passed, Named
        <5>2. ~Matched(sh.new, Reaped)
          BY <5>1, <1>0 DEF Saved, Matched, Reaped, Zombies
        <5>3. jobs'[sh.new].running
          BY <1>0, <1>5, <3>1, <4>1, <5>2, HandlerRow
        <5> QED BY <3>1, <3>4, <5>3, <1>3 DEF HalfWritten
      <4>2. CASE ~jobs[sh.new].running
        <5>1. proc[jobs[sh.i].pid] = "gone"
          BY <3>4, <4>2 DEF IInv, HalfWritten
        <5>2. proc'[jobs'[sh.i].pid] = "gone"
          BY <5>1, <3>1, <3>2, <1>1, <1>7 DEF Ageing
        <5> QED BY <3>1, <3>4, <5>2, <1>3 DEF HalfWritten
      <4> QED BY <4>1, <4>2
    <3> QED BY <2>1, <3>3, <3>4
  <2>2. CASE sh.pc \notin {"copyState", "copyName"}
    BY <1>3, <2>2 DEF HalfWritten
  <2> QED BY <2>1, <2>2
<1>k. KeptInOrder'
  <2>1. \A r \in 1 .. count : jobs'[r].id = jobs[r].id /\ jobs'[r].pid = jobs[r].pid
    BY <1>0, <1>5, HandlerRow
  <2>2. \A r : Kept(r)' <=> Kept(r)
    BY <1>3, <1>4 DEF Kept
  <2> QED BY <1>1, <2>1, <2>2 DEF IInv, KeptInOrder
<1> QED BY <1>t, <1>p, <1>r, <1>c, <1>h, <1>k DEF IInv

-----------------------------------------------------------------------------
(* add_job at work on the table. *)

LEMMA CompactRowIInv == ASSUME IInv, CompactRow PROVE IInv'
<1>0. TypeOK /\ RowsKnown /\ Passed /\ KeptInOrder
  BY DEF IInv
<1> DEFINE i2 == sh.i + 1
           new2 == sh.new + 1
<1>1. /\ sh.i \in 1 .. count /\ sh.new \in 1 .. sh.i /\ count \in 0 .. MaxJobs
      /\ sh.pc = "compact" /\ sh.todo # <<>> /\ sh.last # 0
      /\ i2 \in 1 .. MaxJobs + 1 /\ new2 \in 1 .. MaxJobs + 1
      /\ i2 = sh.i + 1 /\ new2 = sh.new + 1
  BY ShellAssumption
     DEF IInv, Place, CompactRow, TypeOK, MainProgram, Adding, Compacting
<1>2. \/ jobs[sh.i].notified /\ sh' = [sh EXCEPT !.i = i2]
      \/ sh.new = sh.i /\ sh' = [sh EXCEPT !.i = i2, !.new = new2]
      \/ /\ sh.new < sh.i /\ ~jobs[sh.i].notified
         /\ sh' = [sh EXCEPT !.pc = "copy"]
  BY <1>1 DEF CompactRow
<1>3. sh \in MainProgram
  BY <1>0 DEF TypeOK
<1> HIDE DEF i2, new2
<1>4. /\ sh' \in MainProgram /\ sh'.todo = sh.todo /\ sh'.last = sh.last
      /\ sh'.pc \in {"compact", "copy"}
      /\ sh'.pc = "copy" => sh.new < sh.i /\ sh'.i = sh.i /\ sh'.new = sh.new
      /\ sh'.pc = "compact" =>
           /\ sh'.i = i2
           /\ \/ jobs[sh.i].notified /\ sh'.new = sh.new
              \/ sh.new = sh.i /\ sh'.new = new2
  <2>1. CASE jobs[sh.i].notified /\ sh' = [sh EXCEPT !.i = i2]
    BY <1>1, <1>3, <2>1 DEF MainProgram
  <2>2. CASE sh.new = sh.i /\ sh' = [sh EXCEPT !.i = i2, !.new = new2]
    BY <1>1, <1>3, <2>2 DEF MainProgram
  <2>3. CASE sh.new < sh.i /\ sh' = [sh EXCEPT !.pc = "copy"]
    BY <1>1, <1>3, <2>3 DEF MainProgram
  <2> QED BY <1>2, <2>1, <2>2, <2>3
<1>5. /\ jobs' = jobs /\ count' = count /\ nextId' = nextId /\ proc' = proc
      /\ exit' = exit /\ Ageing
  BY <1>0, NoAgeing DEF CompactRow, kernel, table
<1>6. Compacting /\ Compacting' /\ Adding /\ Adding'
  BY <1>1, <1>4 DEF Compacting, Copying, Adding
<1>t. TypeOK'
  BY <1>0, <1>4, <1>5 DEF TypeOK, Ageing
<1>p. Place'
  BY <1>1, <1>4, <1>5, <1>6 DEF Place, Copying
<1>r. RowsKnown'
  BY <1>0, <1>1, <1>4, <1>5, <1>6 DEF RowsKnown, Torn
<1>c. Passed'
  <2> SUFFICES ASSUME NEW r \in sh'.new .. sh'.i - 1, jobs[r].running
               PROVE  Saved(r)'
    BY <1>5 DEF Passed
  <2>1. sh.i \in Int /\ sh.new \in Int
    BY <1>1
  <2>2. r = sh.i => ~jobs[r].running \/ sh'.new = new2
    <3>1. jobs[sh.i].notified = ~jobs[sh.i].running
      BY <1>0, <1>1 DEF RowsKnown
    <3>2. r = sh.i => sh'.pc = "compact"
      BY <1>4, <2>1
    <3> QED BY <1>4, <3>1, <3>2
  <2>3. r \in sh.new .. sh.i - 1 /\ sh'.new = sh.new
    BY <1>1, <1>4, <2>1, <2>2
  <2>4. Saved(r)
    BY <1>0, <1>1, <1>6, <2>3 DEF Passed, Named
  <2> QED BY <1>5, <2>3, <2>4 DEF Saved
<1>h. HalfWritten'
  BY <1>4 DEF HalfWritten
<1>k. KeptInOrder'
  <2>1. \A r \in 1 .. count : Kept(r)' => Kept(r)
    BY <1>1, <1>4, <1>6 DEF Kept
  <2> QED BY <1>0, <1>5, <2>1 DEF KeptInOrder
<1> QED BY <1>t, <1>p, <1>r, <1>c, <1>h, <1>k DEF IInv

(* What the two halves of a copy have in common: the row they write. *)
Written(row) ==
    /\ jobs' = [jobs EXCEPT ![sh.new] = row]
    /\ row \in Job
    /\ row.id \in {jobs[sh.i].id, jobs[sh.new].id}
    /\ row.pid \in {jobs[sh.i].pid, jobs[sh.new].pid}
    /\ row.notified = ~row.running
    /\ UNCHANGED <<kernel, count, nextId, exit>>

LEMMA WrittenRow ==
    ASSUME IInv, Copying, NEW row, Written(row),
           sh' \in MainProgram, sh'.todo = sh.todo, sh'.last = sh.last
    PROVE  /\ sh.i \in 1 .. count /\ sh.new \in 1 .. sh.i - 1
           /\ count \in 0 .. MaxJobs /\ count' = count /\ nextId' = nextId
           /\ sh.todo # <<>> /\ sh.last # 0 /\ proc' = proc
           /\ jobs'[sh.new] = row
           /\ \A r \in 1 .. count : r # sh.new => jobs'[r] = jobs[r]
           /\ TypeOK'
           /\ \A r \in 1 .. count :
                /\ jobs'[r].pid # 0
                /\ proc[jobs'[r].pid] # "unborn"
                /\ jobs'[r].notified = ~jobs'[r].running
                /\ jobs'[r].pid # sh.last
                /\ jobs'[r].id < nextId
<1>0. TypeOK /\ RowsKnown
  BY DEF IInv
<1>1. /\ sh.i \in 1 .. count /\ sh.new \in 1 .. sh.i - 1
      /\ count \in 0 .. MaxJobs /\ sh.todo # <<>> /\ sh.last # 0
      /\ sh.new \in Rows /\ sh.new \in 1 .. count
  BY ShellAssumption
     DEF IInv, Place, TypeOK, MainProgram, Adding, Compacting, Copying, Rows
<1>2. /\ count' = count /\ nextId' = nextId /\ proc' = proc /\ exit' = exit
      /\ code' = code /\ pending' = pending
  BY DEF Written, kernel
<1>3. /\ jobs' \in [Rows -> Job] /\ jobs'[sh.new] = row
      /\ \A r \in Rows : r # sh.new => jobs'[r] = jobs[r]
  BY <1>0, <1>1 DEF Written, TypeOK
<1>4. TypeOK'
  BY <1>0, <1>2, <1>3 DEF TypeOK
<1>5. \A r \in 1 .. count : r \in Rows
  BY <1>0, RowType
<1>6. ASSUME NEW r \in 1 .. count
      PROVE  /\ jobs'[r].pid # 0
             /\ proc[jobs'[r].pid] # "unborn"
             /\ jobs'[r].notified = ~jobs'[r].running
             /\ jobs'[r].pid # sh.last
             /\ jobs'[r].id < nextId
  <2>1. \A s \in 1 .. count :
          /\ jobs[s].pid # 0
          /\ proc[jobs[s].pid] # "unborn"
          /\ jobs[s].notified = ~jobs[s].running
          /\ jobs[s].pid # sh.last
          /\ jobs[s].id < nextId
    BY <1>0 DEF RowsKnown, Adding, Compacting
  <2>2. CASE r # sh.new
    BY <1>3, <1>5, <2>1, <2>2
  <2>3. CASE r = sh.new
    <3>1. jobs'[r] = row
      BY <1>3, <2>3
    <3>2. /\ row.pid \in {jobs[sh.i].pid, jobs[sh.new].pid}
          /\ row.id \in {jobs[sh.i].id, jobs[sh.new].id}
          /\ row.notified = ~row.running
      BY DEF Written
    <3> QED BY <1>1, <2>1, <3>1, <3>2
  <2> QED BY <2>2, <2>3
<1> QED BY <1>1, <1>2, <1>3, <1>4, <1>5, <1>6

(* The first half of a copy. *)
LEMMA CopyBegun ==
    ASSUME IInv, sh.pc = "copy", NEW row, Written(row),
           NEW pc \in {"copyName", "copyState"}, sh' = [sh EXCEPT !.pc = pc],
           pc = "copyState" => row.id = jobs[sh.i].id /\ row.pid = jobs[sh.i].pid,
           pc = "copyName" => /\ row.pid = jobs[sh.new].pid
                              /\ row.running = jobs[sh.i].running
    PROVE  IInv'
<1>0. TypeOK /\ RowsKnown /\ Passed /\ KeptInOrder /\ Copying
  BY DEF IInv, Copying
<1>1. /\ sh' \in MainProgram /\ sh'.todo = sh.todo /\ sh'.last = sh.last
      /\ sh'.pc = pc /\ sh'.i = sh.i /\ sh'.new = sh.new
  BY <1>0 DEF TypeOK, MainProgram
<1>2. /\ sh.i \in 1 .. count /\ sh.new \in 1 .. sh.i - 1
      /\ count \in 0 .. MaxJobs /\ count' = count /\ nextId' = nextId
      /\ sh.todo # <<>> /\ sh.last # 0 /\ proc' = proc
      /\ jobs'[sh.new] = row
      /\ \A r \in 1 .. count : r # sh.new => jobs'[r] = jobs[r]
      /\ TypeOK'
      /\ \A r \in 1 .. count :
           /\ jobs'[r].pid # 0
           /\ proc[jobs'[r].pid] # "unborn"
           /\ jobs'[r].notified = ~jobs'[r].running
           /\ jobs'[r].pid # sh.last
           /\ jobs'[r].id < nextId
  BY <1>0, <1>1, WrittenRow
<1>3. Compacting /\ Compacting' /\ Adding /\ Adding' /\ Copying'
  BY <1>1, <1>0 DEF Compacting, Copying, Adding
<1>4. \A r \in 1 .. count : ~jobs[r].running => proc[jobs[r].pid] = "gone"
  BY <1>0 DEF RowsKnown, Torn
<1>5. \A r \in 1 .. count : Torn(r)' <=> r = sh.new
  BY <1>1 DEF Torn
<1>p. Place'
  BY <1>1, <1>2, <1>3 DEF Place
<1>r. RowsKnown'
  BY <1>0, <1>1, <1>2, <1>4, <1>5 DEF RowsKnown
<1>c. Passed'
  <2> SUFFICES ASSUME NEW r \in sh.new .. sh.i - 1, jobs'[r].running, ~Named(r)'
               PROVE  Saved(r)'
    BY <1>1 DEF Passed
  <2>1. r \in 1 .. count
    BY <1>2
  <2>2. Saved(r)
    <3>1. jobs[r].running => Saved(r)
      BY <1>0, <1>3 DEF Passed, Named
    <3> QED BY <2>1, <3>1, <1>4 DEF Saved
  <2>3. jobs'[r].pid = jobs[r].pid
    BY <1>1, <1>2, <2>1 DEF Named
  <2>4. \A s \in 1 .. sh.new - 1 : jobs'[s] = jobs[s]
    BY <1>2
  <2> QED BY <1>1, <1>2, <2>2, <2>3, <2>4 DEF Saved
<1>h. HalfWritten'
  <2>1. jobs'[sh.i] = jobs[sh.i]
    BY <1>2
  <2> QED BY <1>1, <1>2, <1>4, <2>1 DEF HalfWritten
<1>k. KeptInOrder'
  <2>1. \A r \in 1 .. count : Kept(r)' => Kept(r) /\ r # sh.new
    BY <1>1, <1>2, <1>3 DEF Kept
  <2> QED BY <1>0, <1>2, <2>1 DEF KeptInOrder
<1> QED BY <1>2, <1>p, <1>r, <1>c, <1>h, <1>k DEF IInv

(* The second half of a copy. *)
LEMMA CopyEnded ==
    ASSUME IInv, sh.pc \in {"copyName", "copyState"}, NEW row, Written(row),
           sh' = [sh EXCEPT !.pc = "compact", !.i = @ + 1, !.new = @ + 1],
           row.id = jobs[sh.i].id, row.pid = jobs[sh.i].pid,
           ~row.running => proc[row.pid] = "gone"
    PROVE  IInv'
<1>0. TypeOK /\ RowsKnown /\ Passed /\ KeptInOrder /\ Copying
  BY DEF IInv, Copying
<1>1. /\ sh' \in MainProgram /\ sh'.todo = sh.todo /\ sh'.last = sh.last
      /\ sh'.pc = "compact" /\ sh'.i = sh.i + 1 /\ sh'.new = sh.new + 1
  <2> DEFINE i2 == sh.i + 1
             new2 == sh.new + 1
  <2>1. i2 \in 1 .. MaxJobs + 1 /\ new2 \in 1 .. MaxJobs + 1
    BY <1>0, ShellAssumption DEF IInv, Place, TypeOK, MainProgram, Compacting
  <2>2. sh' = [sh EXCEPT !.pc = "compact", !.i = i2, !.new = new2]
    OBVIOUS
  <2>3. i2 = sh.i + 1 /\ new2 = sh.new + 1
    OBVIOUS
  <2> HIDE DEF i2, new2
  <2>4. sh' \in MainProgram
    BY <1>0, <2>1, <2>2 DEF TypeOK, MainProgram
  <2> QED BY <1>0, <2>2, <2>3, <2>4 DEF TypeOK, MainProgram
<1>2. /\ sh.i \in 1 .. count /\ sh.new \in 1 .. sh.i - 1
      /\ count \in 0 .. MaxJobs /\ count' = count /\ nextId' = nextId
      /\ sh.todo # <<>> /\ sh.last # 0 /\ proc' = proc
      /\ jobs'[sh.new] = row
      /\ \A r \in 1 .. count : r # sh.new => jobs'[r] = jobs[r]
      /\ TypeOK'
      /\ \A r \in 1 .. count :
           /\ jobs'[r].pid # 0
           /\ proc[jobs'[r].pid] # "unborn"
           /\ jobs'[r].notified = ~jobs'[r].running
           /\ jobs'[r].pid # sh.last
           /\ jobs'[r].id < nextId
  BY <1>0, <1>1, WrittenRow
<1>3. Compacting /\ Compacting' /\ Adding /\ Adding' /\ ~Copying'
  BY <1>1, <1>0 DEF Compacting, Copying, Adding
<1>4. \A r \in 1 .. count :
        r # sh.new /\ ~jobs[r].running => proc[jobs[r].pid] = "gone"
  BY <1>0 DEF RowsKnown, Torn
<1>5. \A r : ~Torn(r)' /\ ~Named(r)'
  BY <1>1 DEF Torn, Named
<1>p. Place'
  BY <1>1, <1>2, <1>3 DEF Place
<1>r. RowsKnown'
  BY <1>0, <1>1, <1>2, <1>4, <1>5 DEF RowsKnown
<1>c. Passed'
  <2> SUFFICES ASSUME NEW r \in sh.new + 1 .. sh.i, jobs'[r].running
               PROVE  Saved(r)'
    BY <1>1, <1>2 DEF Passed
  <2>1. r \in 1 .. count /\ r # sh.new /\ sh.new \in Int /\ sh.i \in Int
    BY <1>2
  <2>2. jobs'[r] = jobs[r]
    BY <1>2, <2>1
  <2>3. CASE r = sh.i
    BY <1>1, <1>2, <2>1, <2>2, <2>3 DEF Saved
  <2>4. CASE r # sh.i
    <3>1. r \in sh.new .. sh.i - 1
      BY <2>1, <2>4
    <3>2. Saved(r)
      BY <1>0, <1>3, <2>1, <2>2, <3>1 DEF Passed, Named
    <3>3. \A s \in 1 .. sh.new - 1 : jobs'[s] = jobs[s] /\ s \in 1 .. sh'.new - 1
      BY <1>1, <1>2
    <3> QED BY <1>2, <2>2, <3>2, <3>3 DEF Saved
  <2> QED BY <2>3, <2>4
<1>h. HalfWritten'
  BY <1>1 DEF HalfWritten
<1>k. KeptInOrder'
  <2> DEFINE Ordered(r, s) == jobs[r].id < jobs[s].id /\ jobs[r].pid # jobs[s].pid
             from(q) == IF q = sh.new THEN sh.i ELSE q
  <2>1. \A r, s \in 1 .. count :
          r < s /\ (r < sh.new \/ r >= sh.i) /\ (s < sh.new \/ s >= sh.i)
            => Ordered(r, s)
    BY <1>0, <1>3 DEF KeptInOrder, Kept
  <2> SUFFICES ASSUME NEW r \in 1 .. count, NEW s \in 1 .. count, r < s,
                      r < sh.new + 1 \/ r >= sh.i + 1,
                      s < sh.new + 1 \/ s >= sh.i + 1
               PROVE  jobs'[r].id < jobs'[s].id /\ jobs'[r].pid # jobs'[s].pid
    BY <1>1, <1>2, <1>3 DEF KeptInOrder, Kept
  <2>2. /\ jobs'[r].id = jobs[from(r)].id /\ jobs'[s].id = jobs[from(s)].id
        /\ jobs'[r].pid = jobs[from(r)].pid /\ jobs'[s].pid = jobs[from(s)].pid
    BY <1>2
  <2>3. /\ from(r) \in 1 .. count /\ from(s) \in 1 .. count
        /\ from(r) < from(s)
        /\ from(r) < sh.new \/ from(r) >= sh.i
        /\ from(s) < sh.new \/ from(s) >= sh.i
    BY <1>2
  <2> HIDE DEF from
  <2>4. Ordered(from(r), from(s))
    <3> HIDE DEF Ordered
    <3> QED BY <2>1, <2>3
  <2> QED BY <2>2, <2>4
<1> QED BY <1>2, <1>p, <1>r, <1>c, <1>h, <1>k DEF IInv

LEMMA CopyRows ==
    ASSUME IInv, Copying
    PROVE  /\ jobs[sh.i] \in Job /\ jobs[sh.new] \in Job /\ jobs \in [Rows -> Job]
           /\ sh.i \in 1 .. count /\ sh.new \in 1 .. count /\ sh.new \in Rows
           /\ sh.new # sh.i
           /\ jobs[sh.i].notified = ~jobs[sh.i].running
           /\ jobs[sh.new].notified = ~jobs[sh.new].running
           /\ ~jobs[sh.i].running => proc[jobs[sh.i].pid] = "gone"
<1>1. /\ sh.i \in 1 .. count /\ sh.new \in 1 .. count /\ sh.new # sh.i
  BY DEF IInv, Place, TypeOK, MainProgram, Copying
<1>2. sh.i \in Rows /\ sh.new \in Rows
  BY <1>1, RowType DEF IInv
<1>3. ~Torn(sh.i)
  BY <1>1 DEF Torn
<1> QED BY <1>1, <1>2, <1>3 DEF IInv, RowsKnown, TypeOK

LEMMA CopyNameIInv == ASSUME IInv, CopyName PROVE IInv'
<1>1. Copying
  BY DEF CopyName, Copying
<1>2. /\ jobs[sh.i] \in Job /\ jobs[sh.new] \in Job /\ jobs \in [Rows -> Job]
      /\ sh.i \in 1 .. count /\ sh.new \in 1 .. count /\ sh.new \in Rows
      /\ jobs[sh.new].notified = ~jobs[sh.new].running
  BY <1>1, CopyRows
<1> DEFINE row == [jobs[sh.new] EXCEPT !.id = jobs[sh.i].id, !.pid = jobs[sh.i].pid]
<1>3. /\ row \in Job
      /\ row.id = jobs[sh.i].id /\ row.pid = jobs[sh.i].pid
      /\ row.running = jobs[sh.new].running /\ row.notified = jobs[sh.new].notified
  BY <1>2 DEF Job
<1>4. jobs' = [jobs EXCEPT ![sh.new] = row]
  BY <1>2 DEF CopyName
<1> HIDE DEF row
<1>5. Written(row)
  BY <1>2, <1>3, <1>4 DEF Written, CopyName
<1>6. CASE sh.pc = "copy"
  BY <1>3, <1>5, <1>6, CopyBegun DEF CopyName, CopyStep
<1>7. CASE sh.pc = "copyName"
  <2>1. ~row.running => proc[row.pid] = "gone"
    BY <1>3, <1>7 DEF IInv, HalfWritten
  <2> QED BY <1>3, <1>5, <1>7, <2>1, CopyEnded DEF CopyName, CopyStep
<1> QED BY <1>6, <1>7 DEF CopyName

LEMMA CopyStateIInv == ASSUME IInv, CopyState PROVE IInv'
<1>1. Copying
  BY DEF CopyState, Copying
<1>2. /\ jobs[sh.i] \in Job /\ jobs[sh.new] \in Job /\ jobs \in [Rows -> Job]
      /\ sh.i \in 1 .. count /\ sh.new \in 1 .. count /\ sh.new \in Rows
      /\ jobs[sh.i].notified = ~jobs[sh.i].running
      /\ ~jobs[sh.i].running => proc[jobs[sh.i].pid] = "gone"
  BY <1>1, CopyRows
<1> DEFINE row == [jobs[sh.new] EXCEPT !.running = jobs[sh.i].running,
                                       !.notified = jobs[sh.i].notified]
<1>3. /\ row \in Job
      /\ row.id = jobs[sh.new].id /\ row.pid = jobs[sh.new].pid
      /\ row.running = jobs[sh.i].running /\ row.notified = jobs[sh.i].notified
  BY <1>2 DEF Job
<1>4. jobs' = [jobs EXCEPT ![sh.new] = row]
  BY <1>2 DEF CopyState
<1> HIDE DEF row
<1>5. Written(row)
  BY <1>2, <1>3, <1>4 DEF Written, CopyState
<1>6. CASE sh.pc = "copy"
  BY <1>3, <1>5, <1>6, CopyBegun DEF CopyState, CopyStep
<1>7. CASE sh.pc = "copyState"
  <2>1. row.id = jobs[sh.i].id /\ row.pid = jobs[sh.i].pid
    BY <1>3, <1>7 DEF IInv, HalfWritten
  <2> QED BY <1>2, <1>3, <1>5, <1>7, <2>1, CopyEnded DEF CopyState, CopyStep
<1> QED BY <1>6, <1>7 DEF CopyState

LEMMA CompactEndIInv == ASSUME IInv, CompactEnd PROVE IInv'
<1>0. TypeOK /\ RowsKnown /\ KeptInOrder /\ sh \in MainProgram
  BY DEF IInv, TypeOK
<1>1. /\ sh.pc = "compact" /\ sh.todo # <<>> /\ sh.last # 0
      /\ count' \in 0 .. MaxJobs /\ count' <= count /\ count' = sh.new - 1
      /\ sh.new \in Nat
  BY ShellAssumption
     DEF IInv, Place, CompactEnd, TypeOK, MainProgram, Adding, Compacting
<1>2. UNCHANGED kernel /\ jobs' = jobs /\ nextId' = nextId /\ Ageing
  BY <1>0, NoAgeing DEF CompactEnd
<1>3. /\ sh' \in MainProgram /\ exit' \in Codes
      /\ sh'.pc \in {"prompt", "segment", "publish"}
      /\ sh'.pc # "prompt" => sh'.todo # <<>>
      /\ sh'.pc = "publish" => count' < MaxJobs /\ sh'.last = sh.last
      /\ sh'.pc # "publish" => sh'.last = 0 /\ sh'.i = 1 /\ sh'.new = 1
  <2>1. CASE sh.new > MaxJobs
    BY <2>1, <1>0, <1>1, FinishType, ShellAssumption DEF CompactEnd
  <2>2. CASE ~(sh.new > MaxJobs)
    <3>1. sh' = [sh EXCEPT !.pc = "publish"] /\ exit' = exit
      BY <2>2 DEF CompactEnd
    <3>2. count' < MaxJobs
      BY <2>2, <1>1, ShellAssumption
    <3> QED BY <1>0, <1>1, <3>1, <3>2 DEF TypeOK, MainProgram
  <2> QED BY <2>1, <2>2
<1>4. \A r \in 1 .. count' : r \in 1 .. count /\ r < sh.new
  BY <1>0, <1>1 DEF TypeOK
<1>t. TypeOK'
  BY <1>0, <1>1, <1>2, <1>3 DEF TypeOK, Ageing
<1>p. Place'
  BY <1>1, <1>3 DEF Place, Adding, Compacting, Copying
<1>r. RowsKnown'
  <2>1. proc' = proc
    BY <1>2 DEF kernel
  <2>2. Adding' => Adding /\ sh'.last = sh.last
    BY <1>1, <1>3 DEF Adding, Compacting, Copying
  <2>3. sh'.last # 0 => sh'.last = sh.last
    BY <1>3
  <2> QED BY <1>0, <1>2, <1>4, <1>1, <2>1, <2>2, <2>3 DEF RowsKnown, Torn
<1>c. Passed' /\ HalfWritten'
  BY <1>3 DEF Passed, HalfWritten, Compacting, Copying
<1>k. KeptInOrder'
  BY <1>0, <1>1, <1>2, <1>4 DEF KeptInOrder, Kept, Compacting
<1> QED BY <1>t, <1>p, <1>r, <1>c, <1>k DEF IInv

LEMMA PublishIInv == ASSUME IInv, Publish PROVE IInv'
<1>0. TypeOK /\ RowsKnown /\ KeptInOrder
  BY DEF IInv
<1> DEFINE n == count + 1
           row == [id |-> nextId, pid |-> sh.last, running |-> TRUE,
                   notified |-> FALSE]
<1>1. /\ sh.pc = "publish" /\ sh.todo # <<>> /\ sh.last # 0
      /\ count \in Nat /\ count < MaxJobs /\ nextId \in Nat
      /\ sh.last \in Pids \union {0}
  BY DEF IInv, Place, Publish, TypeOK, MainProgram, Adding
<1>2. n \in Rows /\ row \in Job
  BY <1>1, ShellAssumption DEF Rows, Job
<1>3. /\ sh' \in MainProgram /\ exit' \in Codes
      /\ sh'.pc \in {"prompt", "segment"}
      /\ sh'.pc # "prompt" => sh'.todo # <<>>
      /\ sh'.last = 0 /\ sh'.i = 1 /\ sh'.new = 1
  BY <1>0, <1>1, FinishType, ShellAssumption DEF Publish
<1>4. /\ jobs' = [jobs EXCEPT ![n] = row] /\ count' = n
      /\ nextId' = nextId + 1 /\ UNCHANGED kernel /\ Ageing
  BY <1>0, NoAgeing DEF Publish
<1>5. /\ row.id = nextId /\ row.pid = sh.last /\ row.running = TRUE
      /\ row.notified = FALSE
  OBVIOUS
<1>6. n = count + 1 /\ n \in 0 .. MaxJobs
  BY <1>1, ShellAssumption
<1> HIDE DEF n, row
<1>7. jobs'[n] = row /\ \A r \in 1 .. count : jobs'[r] = jobs[r]
  <2>1. \A r \in 1 .. count : r \in Rows /\ r # n
    BY <1>0, <1>1, <1>6, RowType
  <2> QED BY <1>0, <1>2, <1>4, <2>1 DEF TypeOK
<1>8. \A r \in 1 .. n : r \in 1 .. count \/ r = n
  BY <1>1, <1>6
<1>9. proc' = proc /\ ~Adding'
  BY <1>3, <1>4 DEF kernel, Adding, Compacting, Copying
<1>t. TypeOK'
  <2>1. jobs' \in [Rows -> Job] /\ nextId' \in Nat
    BY <1>0, <1>1, <1>2, <1>4 DEF TypeOK
  <2> QED BY <1>3, <1>4, <1>6, <2>1 DEF TypeOK, Ageing
<1>p. Place'
  BY <1>3 DEF Place, Adding, Compacting, Copying
<1>r. RowsKnown'
  <2>1. ASSUME NEW r \in 1 .. n
        PROVE  /\ jobs'[r].pid # 0
               /\ proc[jobs'[r].pid] # "unborn"
               /\ jobs'[r].notified = ~jobs'[r].running
               /\ ~jobs'[r].running => proc[jobs'[r].pid] = "gone"
               /\ jobs'[r].id < nextId + 1
    <3>1. CASE r \in 1 .. count
      <4>1. jobs[r].id \in Nat
        BY <1>0, <3>1, RowType
      <4>2. jobs[r].id < nextId + 1
        BY <1>0, <1>1, <3>1, <4>1 DEF RowsKnown
      <4> QED BY <1>0, <1>1, <1>7, <3>1, <4>2 DEF RowsKnown, Torn
    <3>2. CASE r = n
      <4>1. jobs'[r] = row
        BY <1>7, <3>2
      <4>2. proc[sh.last] # "unborn"
        BY <1>0, <1>1 DEF RowsKnown
      <4>3. nextId < nextId + 1
        BY <1>1
      <4>4. row.notified = ~row.running
        BY <1>5
      <4> QED BY <1>1, <1>5, <4>1, <4>2, <4>3, <4>4
    <3> QED BY <1>8, <3>1, <3>2
  <2> QED BY <1>3, <1>4, <1>9, <2>1 DEF RowsKnown
<1>c. Passed' /\ HalfWritten'
  BY <1>3 DEF Passed, HalfWritten, Compacting, Copying
<1>k. KeptInOrder'
  <2> SUFFICES ASSUME NEW r \in 1 .. n, NEW s \in 1 .. n, r < s
               PROVE  jobs'[r].id < jobs'[s].id /\ jobs'[r].pid # jobs'[s].pid
    BY <1>4 DEF KeptInOrder
  <2>1. r \in 1 .. count
    BY <1>1, <1>6
  <2>2. CASE s \in 1 .. count
    BY <1>0, <1>1, <1>7, <2>1, <2>2 DEF KeptInOrder, Kept, Compacting, Copying
  <2>3. CASE s = n
    BY <1>0, <1>1, <1>5, <1>7, <2>1, <2>3 DEF RowsKnown, Adding
  <2> QED BY <1>8, <2>2, <2>3
<1> QED BY <1>t, <1>p, <1>r, <1>c, <1>k DEF IInv

-----------------------------------------------------------------------------
(* Every step. *)

LEMMA StepIInv == ASSUME IInv, [Next]_vars PROVE IInv'
<1>1. CASE \E line \in Lines, bg, logic \in BOOLEAN : Enter(line, bg, logic)
  BY <1>1, EnterIInv
<1>2. CASE Refuse
  BY <1>2, RefuseIInv
<1>3. CASE SkipSegment \/ Builtin \/ Launch
  BY <1>3, SkipSegmentIInv, BuiltinIInv, LaunchIInv
<1>4. CASE Fork \/ ForkFails \/ PipeFails
  BY <1>4, ForkIInv, ForkFailsIInv, PipeFailsIInv
<1>5. CASE Sleep \/ (\E p \in Pids : Reap(p)) \/ NoChild
  BY <1>5, SleepIInv, ReapIInv, NoChildIInv
<1>6. CASE AddJob \/ CompactRow \/ CompactEnd \/ Publish
  BY <1>6, AddJobIInv, CompactRowIInv, CompactEndIInv, PublishIInv
<1>10. CASE CopyName \/ CopyState
  BY <1>10, CopyNameIInv, CopyStateIInv
<1>7. CASE Handler
  BY <1>7, HandlerIInv
<1>8. CASE \E p \in Pids, c \in Codes : Exit(p, c)
  BY <1>8, ExitIInv
<1>9. CASE UNCHANGED vars
  BY <1>9, IdleIInv
<1> QED BY <1>1, <1>2, <1>3, <1>4, <1>5, <1>6, <1>7, <1>8, <1>9, <1>10 DEF Next, Run

(* The table and the children stay consistent in every behaviour: what RowsKnown,
   Passed and KeptInOrder say of rows, of copies and of the rows kept. *)
THEOREM Consistent == Spec => []IInv
<1>1. IInv /\ [Next]_vars => IInv'
  BY StepIInv
<1> QED BY <1>1, InitIInv, PTL DEF Spec

(* Every variable keeps its type: add_job never counts more than MAX_JOBS rows,
   and no index of its compaction leaves the table. *)
THEOREM TypeCorrect == Spec => []TypeOK
<1>1. IInv => TypeOK
  BY DEF IInv
<1> QED BY Consistent, <1>1, PTL

(* sigchld_handler marks a row done only for a process that is over, and no copy
   made by add_job changes that: a job called done has ended and was collected. *)
THEOREM DoneAlwaysOver == Spec => []DoneIsOver
<1>1. IInv => DoneIsOver
  BY DEF IInv, RowsKnown, DoneIsOver
<1> QED BY Consistent, <1>1, PTL

(* Outside its compaction the table names different processes, in the order of
   their job ids, whatever was dropped from it before. *)
THEOREM RowsAlwaysInOrder == Spec => []RowsInOrder
<1>1. IInv => RowsInOrder
  BY DEF IInv, KeptInOrder, Kept, RowsInOrder, Compacting
<1> QED BY Consistent, <1>1, PTL

(* A step that leaves the table alone loses no job. *)
LEMMA TableKept ==
    ASSUME UNCHANGED table, NEW p, Listed(p) PROVE Listed(p)'
BY DEF Listed, table

(* A listed job is lost by no step while its process is not collected. *)
LEMMA StepKeepsListed ==
    ASSUME IInv, [Next]_vars, NEW p \in Pids, Listed(p), Live(p)'
    PROVE  Listed(p)'
<1>0. TypeOK
  BY DEF IInv
<1>1. PICK r \in 1 .. count : jobs[r].running /\ jobs[r].pid = p
  BY DEF Listed
<1>2. r \in Rows /\ count \in 0 .. MaxJobs
  BY <1>0, RowType DEF TypeOK
<1>3. proc'[p] # "gone"
  BY DEF Live
<1>4. CASE Handler
  <2>1. ~Matched(r, Reaped)
    BY <1>0, <1>1, <1>3, <1>4 DEF Handler, Matched
  <2>2. jobs'[r] = jobs[r] /\ count' = count
    BY <1>0, <1>2, <1>4, <2>1, HandlerRow DEF Handler
  <2> QED BY <1>1, <2>2 DEF Listed
<1>5. CASE CopyName \/ CopyState
  <2>1. count' = count /\ proc' = proc /\ Copying /\ Compacting
    BY <1>5 DEF CopyName, CopyState, kernel, Copying, Compacting
  <2>2. /\ jobs \in [Rows -> Job]
        /\ sh.i \in 1 .. count /\ sh.new \in Rows /\ sh.new \in 1 .. count
        /\ ~jobs[sh.i].running => proc[jobs[sh.i].pid] = "gone"
    BY <2>1, CopyRows
  <2>3. \A s \in Rows : s # sh.new => jobs'[s] = jobs[s]
    BY <1>5, <2>2 DEF CopyName, CopyState
  <2>4. CASE r # sh.new
    BY <1>1, <1>2, <2>1, <2>3, <2>4 DEF Listed
  <2>5. CASE r = sh.new /\ sh.pc = "copyState"
    <3>1. jobs[sh.i].pid = p
      BY <1>1, <2>5 DEF IInv, HalfWritten
    <3>2. jobs'[sh.new].running = jobs[sh.i].running /\ jobs'[sh.new].pid = p
      BY <1>1, <1>5, <2>2, <2>5 DEF CopyName, CopyState, Job
    <3> QED BY <1>3, <2>1, <2>2, <3>1, <3>2 DEF Listed
  <2>6. CASE r = sh.new /\ sh.pc # "copyState"
    <3>1. sh.new \in 1 .. sh.i - 1 /\ r \in sh.new .. sh.i - 1
      BY <2>1, <2>6 DEF IInv, Place, TypeOK, MainProgram
    <3>2. PICK s \in 1 .. sh.new - 1 : jobs[s].running /\ jobs[s].pid = p
      BY <1>1, <1>3, <2>1, <2>6, <3>1 DEF IInv, Passed, Named, Saved
    <3>3. s \in 1 .. count /\ s \in Rows /\ s # sh.new
      BY <1>2, <2>2, <3>1, ShellAssumption DEF Rows
    <3> QED BY <2>1, <2>3, <3>2, <3>3 DEF Listed
  <2> QED BY <2>4, <2>5, <2>6
<1>6. CASE CompactEnd
  <2>1. /\ jobs' = jobs /\ proc' = proc /\ count' = sh.new - 1
        /\ sh.new \in 1 .. MaxJobs + 1 /\ sh.i = count + 1
        /\ sh.pc = "compact" /\ Passed
    <3>1. /\ jobs' = jobs /\ proc' = proc /\ count' = sh.new - 1
          /\ sh.i > count /\ sh.pc = "compact"
      BY <1>6 DEF CompactEnd, kernel
    <3>2. /\ sh.new \in 1 .. MaxJobs + 1 /\ sh.i \in 1 .. MaxJobs + 1
      BY <1>0 DEF TypeOK, MainProgram
    <3>3. sh.i <= count + 1 /\ Passed
      BY <3>1 DEF IInv, Place, Compacting
    <3> QED BY <1>2, <3>1, <3>2, <3>3, ShellAssumption
  <2>2. CASE r < sh.new
    <3>1. r \in 1 .. count'
      BY <1>2, <2>1, <2>2
    <3> QED BY <1>1, <2>1, <3>1 DEF Listed
  <2>3. CASE ~(r < sh.new)
    <3>1. r \in sh.new .. sh.i - 1
      BY <1>2, <2>1, <2>3
    <3>2. \E s \in 1 .. sh.new - 1 : jobs[s].running /\ jobs[s].pid = p
      BY <1>1, <1>3, <2>1, <3>1 DEF Passed, Compacting, Named, Saved
    <3> QED BY <2>1, <3>2 DEF Listed
  <2> QED BY <2>2, <2>3
<1>7. CASE Publish
  <2>1. /\ r # count + 1 /\ r \in 1 .. count + 1
    BY <1>2
  <2>2. jobs'[r] = jobs[r] /\ count' = count + 1
    BY <1>0, <1>2, <1>7, <2>1 DEF Publish, TypeOK
  <2> QED BY <1>1, <2>1, <2>2 DEF Listed
<1>8. CASE UNCHANGED table
  BY <1>8, TableKept
<1>9. CASE SkipSegment \/ Builtin \/ Launch \/ Fork \/ ForkFails \/ PipeFails
  BY <1>9, <1>8 DEF SkipSegment, Builtin, Launch, Fork, ForkFails, PipeFails
<1>10. CASE Sleep \/ (\E q \in Pids : Reap(q)) \/ NoChild \/ AddJob \/ CompactRow
  BY <1>10, <1>8 DEF Sleep, Reap, NoChild, AddJob, CompactRow
<1>11. CASE Refuse \/ \E line \in Lines, bg, logic \in BOOLEAN : Enter(line, bg, logic)
  BY <1>11, <1>8 DEF Refuse, Enter
<1>12. CASE \E q \in Pids, c \in Codes : Exit(q, c)
  BY <1>12, <1>8 DEF Exit
<1>13. CASE UNCHANGED vars
  BY <1>13, <1>8 DEF vars, table
<1> QED BY <1>4, <1>5, <1>6, <1>7, <1>9, <1>10, <1>11, <1>12, <1>13 DEF Next, Run

(* No job is lost from the table between its entry and its collection, although
   add_job moves rows while the handler marks them. *)
THEOREM NoJobLost == Spec => ListedTillCollected
<1>1. IInv /\ [Next]_vars =>
        [\A p \in Pids : Listed(p) /\ Live(p)' => Listed(p)']_vars
  BY StepKeepsListed
<1> QED BY <1>1, Consistent, PTL DEF Spec, ListedTillCollected

=============================================================================
