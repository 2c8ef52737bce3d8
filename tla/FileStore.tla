----------------------------- MODULE FileStore -----------------------------
(***************************************************************************)
(* What a user of oscdfs relies on, whatever the blocks on the disk look   *)
(* like: a tree of names over files and directories, files that hold data  *)
(* of their own, and descriptors that stay inside their files.             *)
(*                                                                         *)
(* Every call takes effect in one step, or in none if it fails or the      *)
(* process dies; a write that runs out of space keeps a beginning of it.   *)
(* A piece of data is known by its token: overwriting a block in place     *)
(* keeps the token.                                                        *)
(***************************************************************************)
EXTENDS Integers, Sequences

CONSTANTS
    Nodes,   \* what files and directories are told apart by
    Root,    \* the root directory
    Names,   \* names a directory can hold
    Fds,     \* descriptors
    Tokens,  \* what pieces of data are told apart by
    Hole     \* a block of a file nothing was written to

(* What makes the constants fit; Oscdfs takes numbers for them that do. *)
Fitting == Root \in Nodes /\ 0 \notin Nodes /\ Hole \notin Tokens

VARIABLES
    named,    \* named[d][n]: what directory d calls n, or 0
    dirs,     \* the directories there are
    content,  \* the files there are, each with the tokens of its blocks
    opened    \* opened[k]: file and offset of a descriptor; file 0: closed

vars == <<named, dirs, content, opened>>

Files == DOMAIN content
NoNames == [n \in Names |-> 0]
Closed == [ino |-> 0, off |-> 0]

TypeOK ==
    /\ named \in [Nodes -> [Names -> Nodes \union {0}]]
    /\ dirs \in SUBSET Nodes
    /\ Files \subseteq Nodes
    /\ \A f \in Files : content[f] \in Seq(Tokens \union {Hole})
    /\ opened \in [Fds -> [ino : Nodes \union {0}, off : Nat]]

Init ==
    /\ named = [d \in Nodes |-> NoNames]
    /\ dirs = {Root}
    /\ content = [f \in {} |-> <<>>]
    /\ opened = [k \in Fds |-> Closed]

(* A name that is free gets a new, empty file or directory. *)
NewName(d, n, f) ==
    /\ d \in dirs
    /\ named[d][n] = 0
    /\ f \notin dirs \union Files
    /\ named' = [named EXCEPT ![d][n] = f]

CreateFile(d, n, f) ==
    /\ NewName(d, n, f)
    /\ content' = [g \in Files \union {f} |->
                     IF g = f THEN <<>> ELSE content[g]]
    /\ UNCHANGED <<dirs, opened>>

CreateDir(d, n, f) ==
    /\ NewName(d, n, f)
    /\ dirs' = dirs \union {f}
    /\ UNCHANGED <<content, opened>>

(* A name goes, and with it a file nobody has open or an empty directory. *)
DeleteFile(d, n) ==
    /\ d \in dirs
    /\ named[d][n] \in Files
    /\ \A k \in Fds : opened[k].ino # named[d][n]
    /\ named' = [named EXCEPT ![d][n] = 0]
    /\ content' = [g \in Files \ {named[d][n]} |-> content[g]]
    /\ UNCHANGED <<dirs, opened>>

DeleteDir(d, n) ==
    /\ d \in dirs
    /\ named[d][n] \in dirs \ {Root}
    /\ named[named[d][n]] = NoNames
    /\ named' = [named EXCEPT ![d][n] = 0]
    /\ dirs' = dirs \ {named[d][n]}
    /\ UNCHANGED <<content, opened>>

OpenFile(k, f) ==
    /\ opened[k].ino = 0
    /\ f \in Files
    /\ opened' = [opened EXCEPT ![k] = [ino |-> f, off |-> 0]]
    /\ UNCHANGED <<named, dirs, content>>

CloseFile(k) ==
    /\ opened[k].ino # 0
    /\ opened' = [opened EXCEPT ![k] = Closed]
    /\ UNCHANGED <<named, dirs, content>>

(* What is in a file stays, whatever else is written to it. *)
Keeps(old, new) ==
    /\ Len(old) <= Len(new)
    /\ \A j \in 1 .. Len(old) : old[j] # Hole => new[j] = old[j]

(* The places of a file that data was written to, hole or past its end. *)
NewAt(old, new) ==
    {j \in 1 .. Len(new) :
        new[j] # Hole /\ (j \in 1 .. Len(old) => old[j] = Hole)}

Unused(t) == \A f \in Files : \A j \in 1 .. Len(content[f]) : content[f][j] # t

(* File f gets data that is nowhere else yet, and no other file changes. *)
Gets(f) ==
    LET old == content[f]
        new == content'[f]
    IN  /\ f \in Files /\ Files' = Files
        /\ content' = [content EXCEPT ![f] = new]
        /\ new \in Seq(Tokens \union {Hole})
        /\ Keeps(old, new)
        /\ \A j \in NewAt(old, new) :
            /\ Unused(new[j])
            /\ \A i \in NewAt(old, new) : new[i] = new[j] => i = j
        /\ UNCHANGED <<named, dirs>>

(* A write through a descriptor fills the blocks from its old offset to its
   new one and nothing else. *)
WriteFile(k) ==
    LET f == opened[k].ino
        old == opened[k].off
        new == opened'[k].off
    IN  /\ Gets(f)
        /\ new \in Nat /\ old <= new
        /\ NewAt(content[f], content'[f]) \subseteq old + 1 .. new
        /\ Len(content'[f]) =
             IF new > Len(content[f]) THEN new ELSE Len(content[f])
        /\ opened' = [opened EXCEPT ![k].off = new]

(* A FUSE write has no descriptor of ours.  Its blocks, and those of any write
   into holes, may come one by one. *)
WriteSome(f) == Gets(f) /\ UNCHANGED opened

(* A read, or a write over data that is there. *)
Advance(k) ==
    LET new == opened'[k].off
    IN  /\ opened[k].ino # 0
        /\ new \in opened[k].off .. Len(content[opened[k].ino])
        /\ opened' = [opened EXCEPT ![k].off = new]
        /\ UNCHANGED <<named, dirs, content>>

(* A process ends, or dies. *)
Stop ==
    /\ opened' = [k \in Fds |-> Closed]
    /\ UNCHANGED <<named, dirs, content>>

Next ==
    \/ \E d \in Nodes, n \in Names :
        \/ \E f \in Nodes : CreateFile(d, n, f) \/ CreateDir(d, n, f)
        \/ DeleteFile(d, n)
        \/ DeleteDir(d, n)
    \/ \E k \in Fds :
        \/ \E f \in Nodes : OpenFile(k, f)
        \/ CloseFile(k) \/ Advance(k) \/ WriteFile(k)
    \/ \E f \in Nodes : WriteSome(f)
    \/ Stop

Spec == Init /\ [][Next]_vars
-----------------------------------------------------------------------------
(* What a user concludes from it. *)

(* A piece of data is in one place of one file. *)
DataApart ==
    \A f, g \in Files : \A i \in 1 .. Len(content[f]), j \in 1 .. Len(content[g]) :
        content[f][i] = content[g][j] /\ content[f][i] # Hole
            => f = g /\ i = j

(* A descriptor belongs to a file that exists and stays inside it. *)
OpenInside ==
    \A k \in Fds : opened[k].ino # 0 =>
        /\ opened[k].ino \in Files
        /\ opened[k].off <= Len(content[opened[k].ino])

(* Every file and directory but the root has one name, in a directory. *)
OneName ==
    /\ Root \in dirs
    /\ \A d \in Nodes \ dirs : named[d] = NoNames
    /\ dirs \intersect Files = {}
    /\ \A f \in Nodes :
        f \in Files \union (dirs \ {Root})
          <=> \E d \in dirs, n \in Names : named[d][n] = f
    /\ \A d, e \in dirs : \A m, n \in Names :
        named[d][m] = named[e][n] /\ named[d][m] # 0 => d = e /\ m = n

=============================================================================
