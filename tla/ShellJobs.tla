------------------------------ MODULE ShellJobs ------------------------------
(***************************************************************************)
(* oscdsh runs commands (exec.c) and keeps a table of background jobs      *)
(* (jobs.c).                                                               *)
(*                                                                         *)
(* Two things run against each other: the main program, and the SIGCHLD    *)
(* handler, which interrupts it between any two of its steps.  Both collect*)
(* children: the handler any child at all, the main program its foreground *)
(* child with waitpid, or any child with wait when it runs a pipeline.     *)
(* Children end at any moment.  The kernel serves a sleeping wait before   *)
(* it delivers the signal, and signal() restarts an interrupted wait.      *)
(*                                                                         *)
(* A segment is what stands between && and ||: a built-in command (no      *)
(* process) or a pipeline of one process or more.  Statuses of a process   *)
(* ended by a signal are 1, as execute_single and execute_pipeline report  *)
(* them.                                                                   *)
(*                                                                         *)
(* An operator right before another and named for an error is the same     *)
(* code with that error; no specification uses it.                         *)
(***************************************************************************)
EXTENDS Integers, Sequences, FiniteSets

CONSTANTS
    MaxJobs,      \* MAX_JOBS: entries of the job table (64)
    MaxStages,    \* bound: processes of a pipeline
    Lines,        \* bound: the lines that are entered
    NumPids,      \* bound: processes in one behaviour; a pid is not reused
    Codes         \* exit statuses

ASSUME ShellAssumption ==
    /\ MaxJobs \in Nat \ {0}
    /\ MaxStages \in Nat \ {0}
    /\ NumPids \in Nat
    /\ Lines \subseteq Seq([op : {"and", "or"}, stages : 0 .. MaxStages])
    /\ \A line \in Lines : line # <<>> /\ line[1].op = "and"
    /\ {0, 1} \subseteq Codes /\ Codes \subseteq 0 .. 255

Pids == 1 .. NumPids
Rows == 1 .. MaxJobs

VARIABLES
    proc,     \* the children: "unborn", "running", "zombie" or "gone"
    code,     \* the exit status of each zombie, else 0
    pending,  \* whether SIGCHLD waits to be delivered
    jobs,     \* the rows of the job table
    count,    \* job_count: how many of them are in use
    nextId,   \* next_job_id
    sh,       \* the main program: where it is and its locals
    exit      \* last_exit_code, the value of $?

vars == <<proc, code, pending, jobs, count, nextId, sh, exit>>
kernel == <<proc, code, pending>>
table == <<jobs, count, nextId>>

Job == [id : Nat, pid : Pids \union {0}, running : BOOLEAN, notified : BOOLEAN]
NoJob == [id |-> 0, pid |-> 0, running |-> FALSE, notified |-> FALSE]

Segment == [op : {"and", "or"}, stages : 0 .. MaxStages]

MainProgram ==
    [pc     : {"prompt", "segment", "fork", "add", "compact", "copy",
               "copyName", "copyState", "publish", "wait", "asleep"},
     todo   : Seq(Segment),        \* this segment and the next
     logic  : BOOLEAN,             \* the line has && or ||
     bg     : BOOLEAN,             \* the line ends in &
     left   : 0 .. MaxStages,      \* processes still to fork
     mine   : SUBSET Pids,         \* processes of this segment
     last   : Pids \union {0},     \* last_pid, 0 if fork failed
     fate   : Codes,               \* the status last ended with
                                   \* (read by StatusOfLast only)
     status : Codes,               \* last_status, or ret
     i      : 1 .. MaxJobs + 1,    \* add_job: row looked at
     new    : 1 .. MaxJobs + 1]    \* add_job: row to fill

(* At the prompt, in readline. *)
AtPrompt == [pc |-> "prompt", todo |-> <<>>, logic |-> FALSE, bg |-> FALSE,
             left |-> 0, mine |-> {}, last |-> 0, fate |-> 0, status |-> 0,
             i |-> 1, new |-> 1]

TypeOK ==
    /\ proc \in [Pids -> {"unborn", "running", "zombie", "gone"}]
    /\ code \in [Pids -> Codes]
    /\ pending \in BOOLEAN
    /\ jobs \in [Rows -> Job]
    /\ count \in 0 .. MaxJobs
    /\ nextId \in Nat
    /\ exit \in Codes
    /\ sh \in MainProgram

Init ==
    /\ proc = [p \in Pids |-> "unborn"]
    /\ code = [p \in Pids |-> 0]
    /\ pending = FALSE
    /\ jobs = [r \in Rows |-> NoJob]
    /\ count = 0
    /\ nextId = 1
    /\ sh = AtPrompt
    /\ exit = 0

Zombies == {p \in Pids : proc[p] = "zombie"}
Single == Head(sh.todo).stages = 1

-----------------------------------------------------------------------------
(* Children and signals. *)

Exit(p, c) ==
    /\ proc[p] = "running"
    /\ proc' = [proc EXCEPT ![p] = "zombie"]
    /\ code' = [code EXCEPT ![p] = c]
    /\ pending' = TRUE
    /\ sh' = IF p = sh.last THEN [sh EXCEPT !.fate = c] ELSE sh
    /\ UNCHANGED <<table, exit>>

(* The children a wait call of the main program may return. *)
Awaited == IF Single THEN sh.mine ELSE Pids

(* The first running row with the pid of a zombie. *)
MatchedIgnoresPid(r, P) == r <= count /\ jobs[r].running
Matched(r, P) ==
    /\ r <= count
    /\ jobs[r].running
    /\ jobs[r].pid \in P
    /\ \A s \in 1 .. r - 1 : ~(jobs[s].running /\ jobs[s].pid = jobs[r].pid)

(* What the loop of the handler collects. *)
ReapedOne == {p \in Zombies : \A q \in Zombies : p <= q}
Reaped == Zombies

(* sigchld_handler, at any point of the main program; a sleeping wait returns
   first if it can, else it is entered again afterwards.  A child that ends
   while the loop runs counts as ended before or after it. *)
Handler ==
    /\ pending
    /\ sh.pc = "asleep" => Zombies \intersect Awaited = {}
    /\ pending' = FALSE
    /\ proc' = [p \in Pids |-> IF p \in Reaped THEN "gone" ELSE proc[p]]
    /\ code' = [p \in Pids |-> IF p \in Reaped THEN 0 ELSE code[p]]
    /\ jobs' = [r \in Rows |->
                  IF Matched(r, Reaped)
                  THEN [jobs[r] EXCEPT !.running = FALSE, !.notified = TRUE]
                  ELSE jobs[r]]
    /\ sh' = IF sh.pc = "asleep" THEN [sh EXCEPT !.pc = "wait"] ELSE sh
    /\ UNCHANGED <<count, nextId, exit>>

-----------------------------------------------------------------------------
(* execute_command and execute_logical_sequence. *)

(* A line that parses.  Its first segment always runs: last_status is 0.  A
   single segment counts as a line with || if one follows it. *)
Enter(line, bg, logic) ==
    /\ sh.pc = "prompt"
    /\ bg => Len(line) = 1 /\ line[1].stages > 0 /\ ~logic
    /\ Len(line) > 1 => logic
    /\ sh' = [AtPrompt EXCEPT !.pc = "segment", !.todo = line, !.bg = bg,
                              !.logic = logic]
    /\ UNCHANGED <<kernel, table, exit>>

(* A line refused by the parser, or one that runs a built-in in the
   background: execute_command returns -1. *)
Refuse ==
    /\ sh.pc = "prompt"
    /\ exit' = 1
    /\ UNCHANGED <<kernel, table, sh>>

(* The segment ends with status s.  A line with && or || reports 0. *)
Finish(s) ==
    IF Len(sh.todo) > 1
    THEN /\ sh' = [AtPrompt EXCEPT !.pc = "segment", !.todo = Tail(sh.todo),
                                   !.logic = TRUE, !.status = s]
         /\ UNCHANGED exit
    ELSE /\ sh' = AtPrompt
         /\ exit' = IF sh.logic THEN 0 ELSE s

ShouldExecute == (Head(sh.todo).op = "and") <=> (sh.status = 0)

SkipSegment ==
    /\ sh.pc = "segment"
    /\ ~ShouldExecute
    /\ Finish(sh.status)
    /\ UNCHANGED <<kernel, table>>

(* A built-in command; also a segment that starts no process, such as a bare
   redirection or a pipeline with a built-in in it. *)
Builtin ==
    /\ sh.pc = "segment"
    /\ ShouldExecute
    /\ Head(sh.todo).stages = 0
    /\ \E s \in {0, 1} : Finish(s)
    /\ UNCHANGED <<kernel, table>>

(* ret starts as 1: the default if the last process is never seen. *)
Launch ==
    /\ sh.pc = "segment"
    /\ ShouldExecute
    /\ Head(sh.todo).stages > 0
    /\ sh' = [sh EXCEPT !.pc = "fork", !.left = Head(sh.todo).stages,
                        !.status = 1]
    /\ UNCHANGED <<kernel, table, exit>>

-----------------------------------------------------------------------------
(* execute_single and execute_pipeline. *)

Fork ==
    /\ sh.pc = "fork"
    /\ \E p \in Pids :
        /\ proc[p] = "unborn"
        /\ \A q \in 1 .. p - 1 : proc[q] # "unborn"
        /\ proc' = [proc EXCEPT ![p] = "running"]
        /\ sh' = [sh EXCEPT
             !.mine = @ \union {p},
             !.last = IF sh.left = 1 THEN p ELSE 0,
             !.left = @ - 1,
             !.pc = IF sh.left > 1 THEN "fork"
                    ELSE IF sh.bg THEN "add" ELSE "wait"]
    /\ UNCHANGED <<code, pending, table, exit>>

(* fork fails.  A pipeline goes on without that process; without the last one
   there is no job to add. *)
ForkFails ==
    /\ sh.pc = "fork"
    /\ IF sh.left > 1
       THEN sh' = [sh EXCEPT !.left = @ - 1] /\ UNCHANGED exit
       ELSE IF Single THEN Finish(1)
       ELSE IF sh.bg THEN Finish(0)
       ELSE sh' = [sh EXCEPT !.left = 0, !.pc = "wait"] /\ UNCHANGED exit
    /\ UNCHANGED <<kernel, table>>

(* pipe fails before the fork of a process that is not the last: the segment
   ends with 1, and the processes forked so far are left alone. *)
PipeFails ==
    /\ sh.pc = "fork"
    /\ sh.left > 1
    /\ Finish(1)
    /\ UNCHANGED <<kernel, table>>

(* waitpid or wait finds nothing yet. *)
Sleep ==
    /\ sh.pc = "wait"
    /\ Zombies \intersect Awaited = {}
    /\ \E p \in Awaited : proc[p] = "running"
    /\ sh' = [sh EXCEPT !.pc = "asleep"]
    /\ UNCHANGED <<kernel, table, exit>>

(* waitpid or wait returns a child. *)
Reap(p) ==
    /\ sh.pc \in {"wait", "asleep"}
    /\ p \in Zombies \intersect Awaited
    /\ proc' = [proc EXCEPT ![p] = "gone"]
    /\ code' = [code EXCEPT ![p] = 0]
    /\ IF Single
       THEN Finish(code[p])
       ELSE /\ sh' = [sh EXCEPT !.pc = "wait",
                        !.status = IF p = sh.last THEN code[p] ELSE @]
            /\ UNCHANGED exit
    /\ UNCHANGED <<pending, table>>

(* waitpid or wait fails: no child is left to wait for.  execute_single then
   looks at a status nobody wrote. *)
NoChildRetries ==
    /\ sh.pc = "wait"
    /\ \A p \in Awaited : proc[p] \in {"unborn", "gone"}
    /\ IF Single THEN sh' = sh /\ UNCHANGED exit ELSE Finish(sh.status)
    /\ UNCHANGED <<kernel, table>>
NoChild ==
    /\ sh.pc = "wait"
    /\ \A p \in Awaited : proc[p] \in {"unborn", "gone"}
    /\ IF Single THEN \E s \in Codes : Finish(s) ELSE Finish(sh.status)
    /\ UNCHANGED <<kernel, table>>

-----------------------------------------------------------------------------
(* add_job.  The row becomes visible to the handler with job_count++. *)

AddJobTooLate ==
    /\ sh.pc = "add"
    /\ sh' = [sh EXCEPT !.pc = IF count <= MaxJobs THEN "publish"
                               ELSE "compact"]
    /\ UNCHANGED <<kernel, table, exit>>
AddJob ==
    /\ sh.pc = "add"
    /\ sh' = [sh EXCEPT !.pc = IF count < MaxJobs THEN "publish"
                               ELSE "compact"]
    /\ UNCHANGED <<kernel, table, exit>>

(* A full table is compacted in place, over rows already notified.  The test
   of a row is a step, and a row stays where nothing was dropped before it. *)
CompactRowDropsLive ==
    /\ sh.pc = "compact"
    /\ sh.i <= count
    /\ sh' = IF jobs[sh.i].running
             THEN [sh EXCEPT !.i = @ + 1]
             ELSE IF sh.new = sh.i
             THEN [sh EXCEPT !.i = @ + 1, !.new = @ + 1]
             ELSE [sh EXCEPT !.pc = "copy"]
    /\ UNCHANGED <<kernel, table, exit>>
CompactRow ==
    /\ sh.pc = "compact"
    /\ sh.i <= count
    /\ sh' = IF jobs[sh.i].notified
             THEN [sh EXCEPT !.i = @ + 1]
             ELSE IF sh.new = sh.i
             THEN [sh EXCEPT !.i = @ + 1, !.new = @ + 1]
             ELSE [sh EXCEPT !.pc = "copy"]
    /\ UNCHANGED <<kernel, table, exit>>

(* The copy of a struct of 1040 bytes can be interrupted anywhere.  Its fields
   are in the first word (id, pid) and the last (running, notified), and either
   may be copied first. *)
CopyStep(rest) ==
    sh' = IF sh.pc = "copy"
          THEN [sh EXCEPT !.pc = rest]
          ELSE [sh EXCEPT !.pc = "compact", !.i = @ + 1, !.new = @ + 1]

CopyName ==
    /\ sh.pc \in {"copy", "copyName"}
    /\ jobs' = [jobs EXCEPT ![sh.new].id = jobs[sh.i].id,
                            ![sh.new].pid = jobs[sh.i].pid]
    /\ CopyStep("copyState")
    /\ UNCHANGED <<kernel, count, nextId, exit>>

CopyState ==
    /\ sh.pc \in {"copy", "copyState"}
    /\ jobs' = [jobs EXCEPT ![sh.new].running = jobs[sh.i].running,
                            ![sh.new].notified = jobs[sh.i].notified]
    /\ CopyStep("copyName")
    /\ UNCHANGED <<kernel, count, nextId, exit>>

(* With no row freed add_job returns -1 and the job stays unlisted. *)
CompactEnd ==
    /\ sh.pc = "compact"
    /\ sh.i > count
    /\ IF sh.new > MaxJobs
       THEN Finish(0)
       ELSE sh' = [sh EXCEPT !.pc = "publish"] /\ UNCHANGED exit
    /\ count' = sh.new - 1
    /\ UNCHANGED <<kernel, jobs, nextId>>

PublishByRow ==
    /\ sh.pc = "publish"
    /\ jobs' = [jobs EXCEPT ![count + 1] =
                  [id |-> count + 1, pid |-> sh.last,
                   running |-> TRUE, notified |-> FALSE]]
    /\ count' = count + 1
    /\ nextId' = nextId + 1
    /\ Finish(0)
    /\ UNCHANGED kernel
Publish ==
    /\ sh.pc = "publish"
    /\ jobs' = [jobs EXCEPT ![count + 1] =
                  [id |-> nextId, pid |-> sh.last,
                   running |-> TRUE, notified |-> FALSE]]
    /\ count' = count + 1
    /\ nextId' = nextId + 1
    /\ Finish(0)
    /\ UNCHANGED kernel

-----------------------------------------------------------------------------
(* What the main program does once it has a line. *)
Run ==
    \/ SkipSegment \/ Builtin \/ Launch
    \/ Fork \/ ForkFails \/ PipeFails
    \/ Sleep \/ (\E p \in Pids : Reap(p)) \/ NoChild
    \/ AddJob \/ CompactRow \/ CopyName \/ CopyState \/ CompactEnd \/ Publish

Next ==
    \/ \E line \in Lines, bg, logic \in BOOLEAN : Enter(line, bg, logic)
    \/ Refuse
    \/ Run
    \/ Handler
    \/ \E p \in Pids, c \in Codes : Exit(p, c)

(* The main program and the handler are run whenever they can be; nothing
   makes a child end. *)
Spec == Init /\ [][Next]_vars /\ WF_vars(Run) /\ WF_vars(Handler)

(* Every child ends at some time. *)
SpecChildrenEnd ==
    Spec /\ \A p \in Pids : WF_vars(\E c \in Codes : Exit(p, c))

-----------------------------------------------------------------------------
Live(p) == proc[p] \in {"running", "zombie"}
Listed(p) == \E r \in 1 .. count : jobs[r].running /\ jobs[r].pid = p

Copying == sh.pc \in {"copy", "copyName", "copyState"}

(* The row that a copy has half written. *)
Torn(r) == sh.pc \in {"copyName", "copyState"} /\ r = sh.new

(* The rows in use name different jobs in the order they were added, although
   the handler works on the table in the middle of its compaction. *)
RowsInOrder ==
    ~(sh.pc = "compact" \/ Copying) =>
        \A r, s \in 1 .. count :
            r < s => jobs[r].id < jobs[s].id /\ jobs[r].pid # jobs[s].pid

(* A job is only called done when its process has ended and was collected,
   though a row may be half of one job and half of another when the handler
   marks it. *)
DoneIsOver ==
    \A r \in 1 .. count :
        ~jobs[r].running /\ ~Torn(r) => proc[jobs[r].pid] = "gone"

(* A running job is never lost from the table, whatever the handler does while
   it is compacted: once listed, a job is listed until it was collected. *)
ListedTillCollected ==
    [][\A p \in Pids : Listed(p) /\ Live(p)' => Listed(p)']_vars

(* No child stays a zombie, even if several end before the handler runs once
   or while it runs. *)
ChildrenCollected ==
    \A p \in Pids : proc[p] = "zombie" ~> proc[p] = "gone"

(* If children end, the prompt comes back, whoever collects them. *)
PromptReturns == sh.pc # "prompt" ~> sh.pc = "prompt"

(* README.md of oscdsh, line 17: the parent does not block for background
   jobs.  Once the processes of a foreground command are over, the shell stops
   waiting. *)
WaitIsForOwn ==
    sh.pc \in {"wait", "asleep"} /\ (\A p \in sh.mine : ~(proc[p] = "running"))
        ~> sh.pc \notin {"wait", "asleep"}

(* README.md of oscdsh, line 46: $? is the exit code of the last command (line
   12 says it of pipelines). *)
StatusOfLast ==
    [][sh.pc \in {"wait", "asleep"} /\ sh'.pc = "prompt" /\ ~sh.logic /\ sh.last # 0
         => exit' = sh.fate]_vars

(* README.md of oscdsh, line 31: jobs lists the background jobs and whether
   they run.  At the prompt, with no signal to come, a job called running is
   not over.  A child may end before its row is there, and the handler may mark
   a row just before a copy that it interrupted writes over the mark. *)
RunningIsLive ==
    sh.pc = "prompt" /\ ~pending =>
        \A r \in 1 .. count : jobs[r].running => Live(jobs[r].pid)

=============================================================================
