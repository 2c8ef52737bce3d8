------------------------------ MODULE MCDriver ------------------------------
(* Values for the run of Driver: sizes below, at and above the limit, the size
   the driver starts with, and each command with good and bad arguments.  One
   of the threads alone asks for the statistics. *)
EXTENDS Driver

CONSTANTS t1, t2

Bits == {0, 1}
Calls == {<<"read", 2, 0>>, <<"write", 2, 1>>,
          <<"size", 1, 0>>, <<"size", 2, 0>>, <<"size", 3, 0>>,
          <<"mode", 1, 0>>, <<"mode", 2, 0>>,
          <<"stats", 0, 0>>, <<"reset", 0, 0>>, <<"other", 0, 0>>}
Few == [t \in Tasks |-> IF t = t1 THEN Calls ELSE Calls \ {<<"stats", 0, 0>>}]
=============================================================================
