--------------------------- MODULE FileStoreProofs ---------------------------
(***************************************************************************)
(* Theorems about FileStore, and through the refinement about every system *)
(* that implements it.                                                     *)
(***************************************************************************)
EXTENDS FileStore, TLAPS

Inv == TypeOK /\ DataApart /\ OpenInside /\ OneName

LEMMA InitInv == Fitting /\ Init => Inv
<1> SUFFICES ASSUME Fitting, Init PROVE Inv
  OBVIOUS
<1>1. /\ Files = {} /\ dirs = {Root} /\ \A d \in Nodes : named[d] = NoNames
      /\ \A k \in Fds : opened[k].ino = 0
  BY DEF Init, Files, Closed
<1>2. TypeOK
  BY <1>1 DEF Fitting, Init, TypeOK, Closed, NoNames
<1>3. DataApart /\ OpenInside
  BY <1>1 DEF DataApart, OpenInside
<1>4. OneName
  BY <1>1 DEF Fitting, OneName, NoNames
<1> QED  BY <1>2, <1>3, <1>4 DEF Inv

-----------------------------------------------------------------------------
(* A new name, for a new file or a new directory. *)
LEMMA NewNameKeeps ==
  ASSUME Fitting, Inv, NEW d \in Nodes, NEW n \in Names, NEW f \in Nodes,
         CreateFile(d, n, f) \/ CreateDir(d, n, f)
  PROVE  Inv'
<1>1. /\ named[d][n] = 0 /\ d \in dirs /\ f \notin dirs \union Files /\ f # 0
      /\ named' = [named EXCEPT ![d][n] = f] /\ UNCHANGED opened
  BY DEF CreateFile, CreateDir, NewName, Fitting
<1>2. /\ named' \in [Nodes -> [Names -> Nodes \union {0}]]
      /\ \A e \in Nodes, m \in Names :
           named'[e][m] = IF e = d /\ m = n THEN f ELSE named[e][m]
      /\ \A e \in Nodes \ {d} : named'[e] = named[e]
  BY <1>1 DEF Inv, TypeOK
<1>3. \A e \in dirs, m \in Names : named[e][m] # f
  <2>1. f \notin Files \union (dirs \ {Root})
    BY <1>1
  <2> QED  BY <2>1 DEF Inv, OneName
<1>4. CASE CreateFile(d, n, f)
  <2>1. /\ Files' = Files \union {f} /\ dirs' = dirs /\ content'[f] = <<>>
        /\ \A g \in Files : content'[g] = content[g]
    BY <1>1, <1>4 DEF CreateFile, Files
  <2>2. TypeOK'
    <3>1. \A g \in Files' : content'[g] \in Seq(Tokens \union {Hole})
      <4>1. <<>> \in Seq(Tokens \union {Hole})
        OBVIOUS
      <4>2. \A g \in Files : content'[g] \in Seq(Tokens \union {Hole})
        BY <2>1 DEF Inv, TypeOK
      <4> QED  BY <2>1, <4>1, <4>2
    <3>2. dirs' \in SUBSET Nodes /\ Files' \subseteq Nodes
          /\ opened' \in [Fds -> [ino : Nodes \union {0}, off : Nat]]
      BY <1>1, <2>1 DEF Inv, TypeOK
    <3> QED  BY <1>2, <3>1, <3>2 DEF TypeOK
  <2>3. DataApart'
    <3>1. Len(content'[f]) = 0
      BY <2>1
    <3>2. \A g \in Files' : 1 .. Len(content'[g]) # {} => g \in Files
      BY <2>1, <3>1
    <3> QED  BY <2>1, <3>2 DEF Inv, DataApart
  <2>4. OpenInside'
    BY <1>1, <2>1 DEF Inv, OpenInside
  <2>5. OneName'
    <3>1. Root \in dirs' /\ \A e \in Nodes \ dirs' : named'[e] = NoNames'
      BY <1>1, <1>2, <2>1 DEF Inv, OneName, NoNames
    <3>2. dirs' \intersect Files' = {}
      BY <1>1, <2>1 DEF Inv, OneName
    <3>3. \A g \in Nodes : g \in Files' \union (dirs' \ {Root})
            <=> \E e \in dirs', m \in Names : named'[e][m] = g
      <4>1. ASSUME NEW g \in Nodes
            PROVE  (\E e \in dirs', m \in Names : named'[e][m] = g)
                     <=> g = f \/ \E e \in dirs, m \in Names : named[e][m] = g
        <5>1. d \in dirs' /\ named'[d][n] = f
          BY <1>1, <1>2, <2>1
        <5>2. ASSUME NEW e \in dirs, NEW m \in Names, named[e][m] = g
              PROVE  e \in dirs' /\ named'[e][m] = g
          <6>1. g # 0 /\ e \in Nodes
            BY DEF Fitting, Inv, TypeOK
          <6> QED  BY <1>1, <1>2, <2>1, <5>2, <6>1
        <5>3. ASSUME NEW e \in dirs', NEW m \in Names, named'[e][m] = g
              PROVE  g = f \/ (e \in dirs /\ named[e][m] = g)
          BY <1>2, <2>1, <5>3 DEF Inv, TypeOK
        <5> QED  BY <5>1, <5>2, <5>3
      <4>2. f # Root
        BY <1>1 DEF Inv, OneName
      <4> QED  BY <2>1, <4>1, <4>2 DEF Inv, OneName
    <3>4. \A e, g \in dirs' : \A m, l \in Names :
            named'[e][m] = named'[g][l] /\ named'[e][m] # 0 => e = g /\ m = l
      BY <1>1, <1>2, <1>3, <2>1 DEF Inv, OneName, TypeOK
    <3> QED  BY <3>1, <3>2, <3>3, <3>4 DEF OneName
  <2> QED  BY <2>2, <2>3, <2>4, <2>5 DEF Inv
<1>5. CASE CreateDir(d, n, f)
  <2>1. dirs' = dirs \union {f} /\ Files' = Files /\ content' = content
    BY <1>5 DEF CreateDir, Files
  <2>2. TypeOK' /\ DataApart' /\ OpenInside'
    BY <1>1, <1>2, <2>1 DEF Inv, TypeOK, DataApart, OpenInside
  <2>3. \A m \in Names : named'[f][m] = 0
    BY <1>1, <1>2 DEF Inv, OneName, NoNames
  <2>4. OneName'
    <3>1. Root \in dirs' /\ \A e \in Nodes \ dirs' : named'[e] = NoNames'
      BY <1>1, <1>2, <2>1 DEF Inv, OneName, NoNames
    <3>2. dirs' \intersect Files' = {}
      BY <1>1, <2>1 DEF Inv, OneName
    <3>3. f # Root
      BY <1>1 DEF Inv, OneName
    <3>4. \A g \in Nodes : g \in Files' \union (dirs' \ {Root})
            <=> \E e \in dirs', m \in Names : named'[e][m] = g
      BY <1>1, <1>2, <1>3, <2>1, <2>3, <3>3 DEF Inv, OneName, Fitting
    <3>5. \A e, g \in dirs' : \A m, l \in Names :
            named'[e][m] = named'[g][l] /\ named'[e][m] # 0 => e = g /\ m = l
      BY <1>1, <1>2, <1>3, <2>1, <2>3 DEF Inv, OneName, TypeOK
    <3> QED  BY <3>1, <3>2, <3>4, <3>5 DEF OneName
  <2> QED  BY <2>2, <2>4 DEF Inv
<1> QED  BY <1>4, <1>5

(* A name that goes. *)
LEMMA DeleteKeeps ==
  ASSUME Fitting, Inv, NEW d \in Nodes, NEW n \in Names,
         DeleteFile(d, n) \/ DeleteDir(d, n)
  PROVE  Inv'
<1> DEFINE gone == named[d][n]
<1>1. /\ d \in dirs /\ gone \in Nodes /\ gone # 0 /\ gone # Root
      /\ named' = [named EXCEPT ![d][n] = 0] /\ UNCHANGED opened
  BY DEF DeleteFile, DeleteDir, Fitting, Inv, TypeOK, OneName
<1>2. /\ named' \in [Nodes -> [Names -> Nodes \union {0}]]
      /\ \A e \in Nodes, m \in Names :
           named'[e][m] = IF e = d /\ m = n THEN 0 ELSE named[e][m]
      /\ \A e \in Nodes \ {d} : named'[e] = named[e]
  BY <1>1 DEF Inv, TypeOK
<1>3. \A e \in dirs, m \in Names : named[e][m] = gone => e = d /\ m = n
  BY <1>1 DEF Inv, OneName
<1>4. /\ dirs' \subseteq dirs /\ Files' \subseteq Files
      /\ \A g \in Files' : content'[g] = content[g]
      /\ Files' \union dirs' = (Files \union dirs) \ {gone}
      /\ \A k \in Fds : opened[k].ino \in Files => opened[k].ino \in Files'
      /\ d \in dirs' \/ gone = d
      /\ gone \in dirs => \A m \in Names : named[gone][m] = 0
  <2>1. CASE DeleteFile(d, n)
    <3>1. dirs' = dirs /\ gone \in Files /\ Files' = Files \ {gone}
          /\ \A g \in Files' : content'[g] = content[g]
      BY <2>1 DEF DeleteFile, Files
    <3>2. gone \notin dirs
      BY <3>1 DEF Inv, OneName
    <3> QED  BY <1>1, <2>1, <3>1, <3>2 DEF DeleteFile
  <2>2. CASE DeleteDir(d, n)
    <3>1. dirs' = dirs \ {gone} /\ gone \in dirs /\ UNCHANGED content
          /\ Files' = Files /\ \A m \in Names : named[gone][m] = 0
      BY <2>2 DEF DeleteDir, Files, NoNames
    <3>2. gone \notin Files
      BY <3>1 DEF Inv, OneName
    <3> QED  BY <1>1, <3>1, <3>2
  <2> QED  BY <2>1, <2>2
<1> HIDE DEF gone
<1>5. TypeOK'
  <2>1. opened' \in [Fds -> [ino : Nodes \union {0}, off : Nat]]
    BY <1>1 DEF Inv, TypeOK
  <2> QED  BY <1>2, <1>4, <2>1 DEF Inv, TypeOK
<1>6. DataApart' /\ OpenInside'
  <2>1. DataApart'
    BY <1>4 DEF Inv, DataApart
  <2> QED  BY <1>1, <1>4, <2>1 DEF Inv, OpenInside
<1>7. d # gone
  BY <1>1, <1>2, <1>4 DEF gone
<1>8. Root \in dirs' /\ dirs' \intersect Files' = {}
  BY <1>1, <1>4 DEF Inv, OneName
<1>9. ASSUME NEW e \in Nodes \ dirs' PROVE named'[e] = NoNames'
  <2>1. e # d
    BY <1>1, <1>4, <1>7
  <2>2. CASE e = gone
    <3>1. e \notin dirs => named[e] = NoNames
      BY DEF Inv, OneName
    <3>2. named[e] \in [Names -> Nodes \union {0}]
      BY DEF Inv, TypeOK
    <3>3. named[e] = NoNames
      BY <1>4, <2>2, <3>1, <3>2 DEF NoNames
    <3> QED  BY <1>2, <2>1, <3>3 DEF NoNames
  <2>3. CASE e # gone
    <3>1. e \notin dirs
      <4>1. e \in dirs => e \in Files' \union dirs'
        BY <1>4, <2>3
      <4>2. e \in dirs => e \notin Files'
        BY <1>4 DEF Inv, OneName
      <4> QED  BY <4>1, <4>2
    <3> QED  BY <1>2, <2>1, <3>1 DEF Inv, OneName, NoNames
  <2> QED  BY <2>2, <2>3
<1>10. ASSUME NEW f \in Nodes
       PROVE  f \in Files' \union (dirs' \ {Root})
                <=> \E e \in dirs', m \in Names : named'[e][m] = f
  <2>1. f # 0
    BY DEF Fitting
  <2>2. ASSUME NEW e \in dirs', NEW m \in Names, named'[e][m] = f
        PROVE  f \in Files' \union (dirs' \ {Root})
    <3>1. e \in dirs /\ e \in Nodes
      BY <1>4 DEF Inv, TypeOK
    <3>2. named[e][m] = f /\ ~(e = d /\ m = n)
      BY <1>2, <2>1, <2>2, <3>1
    <3>3. f # gone /\ f \in Files \union (dirs \ {Root})
      BY <1>3, <3>1, <3>2 DEF Inv, OneName
    <3>4. f # Root
      BY <3>3 DEF Inv, OneName
    <3> QED  BY <1>4, <3>3, <3>4
  <2>3. ASSUME f \in Files' \union (dirs' \ {Root})
        PROVE  \E e \in dirs', m \in Names : named'[e][m] = f
    <3>1. f # gone /\ f \in Files \union (dirs \ {Root})
      BY <1>4, <2>3
    <3>2. PICK e \in dirs, m \in Names : named[e][m] = f
      BY <3>1 DEF Inv, OneName
    <3>3. e # gone /\ ~(e = d /\ m = n)
      BY <1>4, <2>1, <3>1, <3>2 DEF gone
    <3>4. e \in dirs'
      <4>1. e \in Files' \union dirs' /\ e \notin Files
        BY <1>4, <3>3 DEF Inv, OneName
      <4> QED  BY <1>4, <4>1
    <3>5. named'[e][m] = f
      BY <1>2, <3>2, <3>3 DEF Inv, TypeOK
    <3> QED  BY <3>4, <3>5
  <2> QED  BY <2>2, <2>3
<1>11. \A e, g \in dirs' : \A m, l \in Names :
         named'[e][m] = named'[g][l] /\ named'[e][m] # 0 => e = g /\ m = l
  <2>1. \A e \in dirs' : e \in dirs /\ e \in Nodes
    BY <1>4 DEF Inv, TypeOK
  <2> QED  BY <1>2, <2>1 DEF Inv, OneName
<1>12. OneName'
  BY <1>8, <1>9, <1>10, <1>11 DEF OneName
<1> QED  BY <1>5, <1>6, <1>12 DEF Inv

-----------------------------------------------------------------------------
(* A file that gets data: what was there stays apart, what is new is apart
   from it and from the rest of what is new. *)
LEMMA GetsKeeps ==
  ASSUME Fitting, Inv, NEW f \in Nodes, Gets(f),
         opened' \in [Fds -> [ino : Nodes \union {0}, off : Nat]]
  PROVE  /\ TypeOK' /\ DataApart' /\ OneName' /\ Files' = Files
         /\ \A g \in Files : Len(content[g]) <= Len(content'[g])
<1>1. /\ f \in Files /\ Files' = Files /\ UNCHANGED <<named, dirs>>
      /\ content'[f] \in Seq(Tokens \union {Hole})
      /\ \A g \in Files \ {f} : content'[g] = content[g]
  BY DEF Gets, Files
<1>2. \A g \in Files : /\ content[g] \in Seq(Tokens \union {Hole})
                       /\ content'[g] \in Seq(Tokens \union {Hole})
                       /\ Len(content[g]) \in Nat /\ Len(content'[g]) \in Nat
  <2>1. \A g \in Files : /\ content[g] \in Seq(Tokens \union {Hole})
                         /\ content'[g] \in Seq(Tokens \union {Hole})
    BY <1>1 DEF Inv, TypeOK
  <2>2. \A q \in Seq(Tokens \union {Hole}) : Len(q) \in Nat
    OBVIOUS
  <2> QED  BY <2>1, <2>2
<1>3. TypeOK' /\ OneName'
  <2>1. Files' \subseteq Nodes /\ dirs' \in SUBSET Nodes
        /\ named' \in [Nodes -> [Names -> Nodes \union {0}]]
    BY <1>1 DEF Inv, TypeOK
  <2>2. OneName'
    BY <1>1 DEF Inv, OneName, NoNames
  <2> QED  BY <1>1, <1>2, <2>1, <2>2 DEF TypeOK
<1>4. \A g \in Files : Len(content[g]) <= Len(content'[g])
  <2>1. Len(content[f]) <= Len(content'[f])
    BY DEF Gets, Keeps
  <2>2. \A g \in Files \ {f} : Len(content[g]) <= Len(content'[g])
    <3>1. \A g \in Files \ {f} : Len(content'[g]) = Len(content[g])
      BY <1>1
    <3> QED  BY <1>2, <3>1
  <2> QED  BY <2>1, <2>2
(* Where data in place j of file g comes from. *)
<1> DEFINE new == content'[f]
           Fresh(g, j) == g = f /\ j \in NewAt(content[f], new)
<1>5. ASSUME NEW g \in Files, NEW j \in 1 .. Len(content'[g]),
             content'[g][j] # Hole, ~Fresh(g, j)
      PROVE  j \in 1 .. Len(content[g]) /\ content[g][j] = content'[g][j]
  <2>1. CASE g # f
    BY <1>1, <2>1
  <2>2. CASE g = f
    <3>1. j \in 1 .. Len(content[f]) /\ content[f][j] # Hole
      BY <1>5, <2>2 DEF NewAt
    <3> QED  BY <2>2, <3>1 DEF Gets, Keeps
  <2> QED  BY <2>1, <2>2
<1>6. ASSUME NEW g \in Files, NEW j \in 1 .. Len(content'[g]), Fresh(g, j)
      PROVE  Unused(content'[g][j])
  BY <1>6 DEF Gets
<1>7. ASSUME NEW g \in Files, NEW h \in Files,
             NEW i \in 1 .. Len(content'[g]), NEW j \in 1 .. Len(content'[h]),
             content'[g][i] = content'[h][j], content'[g][i] # Hole
      PROVE  g = h /\ i = j
  <2>1. CASE Fresh(g, i) /\ Fresh(h, j)
    BY <1>7, <2>1 DEF Gets
  <2>2. CASE Fresh(g, i) /\ ~Fresh(h, j)
    BY <1>5, <1>6, <1>7, <2>2 DEF Unused
  <2>3. CASE ~Fresh(g, i) /\ Fresh(h, j)
    BY <1>5, <1>6, <1>7, <2>3 DEF Unused
  <2>4. CASE ~Fresh(g, i) /\ ~Fresh(h, j)
    <3>1. /\ i \in 1 .. Len(content[g]) /\ content[g][i] = content'[g][i]
          /\ j \in 1 .. Len(content[h]) /\ content[h][j] = content'[h][j]
      BY <1>5, <1>7, <2>4
    <3> QED  BY <1>7, <3>1 DEF Inv, DataApart
  <2> QED  BY <2>1, <2>2, <2>3, <2>4
<1>8. DataApart'
  BY <1>1, <1>7 DEF DataApart
<1> QED  BY <1>1, <1>3, <1>4, <1>8

-----------------------------------------------------------------------------
(* Descriptors. *)
LEMMA DescriptorKeeps ==
  ASSUME Fitting, Inv, NEW k \in Fds,
         \/ \E f \in Nodes : OpenFile(k, f)
         \/ CloseFile(k) \/ Advance(k)
  PROVE  Inv'
<1>1. UNCHANGED <<named, dirs, content>> /\ Files' = Files
  BY DEF OpenFile, CloseFile, Advance, Files
<1>2. \A j \in Fds : opened[j] \in [ino : Nodes \union {0}, off : Nat]
  BY DEF Inv, TypeOK
<1>3. \A f \in Files : Len(content[f]) \in Nat /\ f \in Nodes
  <2>1. \A f \in Files : content[f] \in Seq(Tokens \union {Hole}) /\ f \in Nodes
    BY DEF Inv, TypeOK
  <2>2. \A q \in Seq(Tokens \union {Hole}) : Len(q) \in Nat
    OBVIOUS
  <2> QED  BY <2>1, <2>2
<1>4. ASSUME NEW f \in Nodes, OpenFile(k, f)
      PROVE  Inv'
  <2>1. /\ opened' \in [Fds -> [ino : Nodes \union {0}, off : Nat]]
        /\ OpenInside'
    BY <1>1, <1>2, <1>3, <1>4 DEF OpenFile, Inv, TypeOK, OpenInside
  <2> QED  BY <1>1, <2>1 DEF Inv, TypeOK, DataApart, OneName, NoNames
<1>5. CASE CloseFile(k)
  <2>1. /\ opened' \in [Fds -> [ino : Nodes \union {0}, off : Nat]]
        /\ OpenInside'
    BY <1>1, <1>2, <1>3, <1>5 DEF CloseFile, Closed, Inv, TypeOK, OpenInside
  <2> QED  BY <1>1, <2>1 DEF Inv, TypeOK, DataApart, OneName, NoNames
<1>6. CASE Advance(k)
  <2> DEFINE to == opened'[k].off
  <2>1. /\ opened[k].ino \in Files
        /\ to \in opened[k].off .. Len(content[opened[k].ino])
        /\ opened' = [opened EXCEPT ![k].off = to]
    BY <1>6 DEF Advance, Inv, OpenInside
  <2>2. to \in Nat /\ to <= Len(content[opened[k].ino])
    BY <1>2, <1>3, <2>1
  <2> HIDE DEF to
  <2>3. /\ opened' \in [Fds -> [ino : Nodes \union {0}, off : Nat]]
        /\ opened'[k].off = to /\ opened'[k].ino = opened[k].ino
        /\ \A j \in Fds \ {k} : opened'[j] = opened[j]
    BY <2>1, <2>2 DEF Inv, TypeOK
  <2>4. OpenInside'
    BY <1>1, <2>2, <2>3 DEF Inv, OpenInside
  <2> QED  BY <1>1, <2>3, <2>4 DEF Inv, TypeOK, DataApart, OneName, NoNames
<1> QED  BY <1>4, <1>5, <1>6

(* Writes, through a descriptor or not. *)
LEMMA WriteKeeps ==
  ASSUME Fitting, Inv,
         \/ \E k \in Fds : WriteFile(k)
         \/ \E f \in Nodes : WriteSome(f)
  PROVE  Inv'
<1>1. ASSUME NEW f \in Nodes, WriteSome(f)
      PROVE  Inv'
  <2>1. /\ TypeOK' /\ DataApart' /\ OneName' /\ Files' = Files
        /\ \A g \in Files : Len(content[g]) <= Len(content'[g])
    BY <1>1, GetsKeeps DEF WriteSome, Inv, TypeOK
  <2>2. \A g \in Files : Len(content[g]) \in Nat /\ Len(content'[g]) \in Nat
    BY <2>1 DEF Inv, TypeOK
  <2>3. \A k \in Fds : opened[k].off \in Nat
    BY DEF Inv, TypeOK
  <2>4. OpenInside'
    BY <1>1, <2>1, <2>2, <2>3 DEF WriteSome, Inv, OpenInside
  <2> QED  BY <2>1, <2>4 DEF Inv
<1>2. ASSUME NEW k \in Fds, WriteFile(k)
      PROVE  Inv'
  <2> DEFINE f == opened[k].ino
             new == opened'[k].off
  <2>1. Gets(f) /\ opened' = [opened EXCEPT ![k].off = new] /\ new \in Nat
        /\ Len(content'[f]) =
             IF new > Len(content[f]) THEN new ELSE Len(content[f])
    BY <1>2 DEF WriteFile
  <2> HIDE DEF new
  <2>2. /\ opened' \in [Fds -> [ino : Nodes \union {0}, off : Nat]]
        /\ opened'[k].off = new /\ opened'[k].ino = f
        /\ \A j \in Fds \ {k} : opened'[j] = opened[j]
    BY <2>1 DEF Inv, TypeOK
  <2>3. f \in Nodes /\ f \in Files
    BY <2>1 DEF Gets, Inv, TypeOK
  <2> HIDE DEF f
  <2>4. /\ TypeOK' /\ DataApart' /\ OneName' /\ Files' = Files
        /\ \A g \in Files : Len(content[g]) <= Len(content'[g])
    BY <2>1, <2>2, <2>3, GetsKeeps
  <2>5. \A g \in Files : Len(content[g]) \in Nat /\ Len(content'[g]) \in Nat
    BY <2>4 DEF Inv, TypeOK
  <2>6. \A j \in Fds : opened[j].off \in Nat
    BY DEF Inv, TypeOK
  <2>7. new <= Len(content'[f])
    BY <2>1, <2>3, <2>5
  <2>8. OpenInside'
    BY <2>2, <2>3, <2>4, <2>5, <2>6, <2>7 DEF Inv, OpenInside
  <2> QED  BY <2>4, <2>8 DEF Inv
<1> QED  BY <1>1, <1>2

LEMMA NextInv == Fitting /\ Inv /\ [Next]_vars => Inv'
<1> SUFFICES ASSUME Fitting, Inv, [Next]_vars PROVE Inv'
  OBVIOUS
<1>1. CASE UNCHANGED vars
  <2>1. Files' = Files
    BY <1>1 DEF vars, Files
  <2> QED  BY <1>1, <2>1
           DEF vars, Inv, TypeOK, DataApart, OpenInside, OneName, NoNames
<1>2. ASSUME NEW d \in Nodes, NEW n \in Names, NEW f \in Nodes,
             CreateFile(d, n, f) \/ CreateDir(d, n, f)
      PROVE  Inv'
  BY <1>2, NewNameKeeps
<1>3. ASSUME NEW d \in Nodes, NEW n \in Names,
             DeleteFile(d, n) \/ DeleteDir(d, n)
      PROVE  Inv'
  BY <1>3, DeleteKeeps
<1>4. ASSUME NEW k \in Fds, \/ \E f \in Nodes : OpenFile(k, f)
                            \/ CloseFile(k) \/ Advance(k)
      PROVE  Inv'
  BY <1>4, DescriptorKeeps
<1>5. CASE (\E k \in Fds : WriteFile(k)) \/ (\E f \in Nodes : WriteSome(f))
  BY <1>5, WriteKeeps
<1>6. CASE Stop
  <2>1. UNCHANGED <<named, dirs, content>> /\ Files' = Files
        /\ opened' = [k \in Fds |-> Closed]
    BY <1>6 DEF Stop, Files
  <2>2. TypeOK' /\ OpenInside'
    BY <2>1 DEF Inv, TypeOK, OpenInside, Closed
  <2> QED  BY <2>1, <2>2 DEF Inv, DataApart, OneName, NoNames
<1> QED  BY <1>1, <1>2, <1>3, <1>4, <1>5, <1>6 DEF Next

LEMMA AlwaysInv ==
  ASSUME Fitting
  PROVE  Spec => []Inv
<1>1. Init => Inv
  BY InitInv
<1>2. Inv /\ [Next]_vars => Inv'
  BY NextInv
<1> QED  BY <1>1, <1>2, PTL DEF Spec

(* No piece of data is in two places: what one file holds cannot be read or
   changed through another. *)
THEOREM DataStaysApart ==
  ASSUME Fitting
  PROVE  Spec => []DataApart
<1>1. Inv => DataApart
  BY DEF Inv
<1> QED  BY <1>1, AlwaysInv, PTL

(* A descriptor refers to a file that exists, at an offset inside it. *)
THEOREM DescriptorsInside ==
  ASSUME Fitting
  PROVE  Spec => []OpenInside
<1>1. Inv => OpenInside
  BY DEF Inv
<1> QED  BY <1>1, AlwaysInv, PTL

(* Every file and every directory but the root has exactly one name. *)
THEOREM OneNameAlways ==
  ASSUME Fitting
  PROVE  Spec => []OneName
<1>1. Inv => OneName
  BY DEF Inv
<1> QED  BY <1>1, AlwaysInv, PTL

=============================================================================
