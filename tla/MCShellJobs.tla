---------------------------- MODULE MCShellJobs ----------------------------
(* Instances of ShellJobs for TLC.  Statuses: success, the default failure, and
   one that only a process can return. *)
EXTENDS ShellJobs

TwoCodes == {0, 1}
ThreeCodes == {0, 1, 2}

(* Every segment followed by any other, and a pipeline of three processes. *)
First(n) == [op |-> "and", stages |-> n]
OneSegment == {<<First(n)>> : n \in 0 .. MaxStages}
TwoSegments ==
    OneSegment \union
        {<<First(n), next>> : n \in 0 .. 2, next \in {s \in Segment : s.stages <= 2}}
=============================================================================
