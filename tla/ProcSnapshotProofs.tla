------------------------- MODULE ProcSnapshotProofs -------------------------
(***************************************************************************)
(* Theorems of ProcSnapshot, for any number of processes and pids: the     *)
(* tree that proc_snapshot builds and prints is right although the list of *)
(* processes changes under the walk and pids are used again.               *)
(***************************************************************************)
EXTENDS ProcSnapshot, FiniteSetTheorems, SequenceTheorems, WellFoundedInduction,
        TLAPS

Ascending(s) == \A i, j \in 1 .. Len(s) : i < j => s[i] < s[j]

(* The processes that were created, and those among them captured so far. *)
Created == {p \in Procs : life[p] # "none"}
Captured == {nodes[j].proc : j \in 1 .. Len(nodes)}

(* The list is in the order of creation and holds who was not released; init
   and kthreadd stay; pids of listed processes are distinct. *)
KernelInv ==
    /\ list \in Seq(Procs)
    /\ Ascending(list)
    /\ Listed = {p \in Procs : life[p] \in {"live", "zombie"}}
    /\ \A p, q \in Procs : q < p /\ p \in Created => q \in Created
    /\ life[init] = "live" /\ life[kthreadd] = "live"
    /\ \A p \in Created : pid[p] \in 1 .. MaxPid /\ (pid[p] = 1 => p = init)
    /\ pid[init] = 1
    /\ \A p, q \in Listed : pid[p] = pid[q] => p = q
    /\ \A p \in Created : IF p <= 2 THEN parent[p] = 0
                          ELSE parent[p] \in Procs /\ parent[p] < p

(* left[p] counts the releases before that of p; now counts them all, and is
   the value for who was not released. *)
LeftInOrder(left, now) ==
    /\ \A p \in Procs : IF life[p] = "gone" THEN left[p] < now ELSE left[p] = now
    /\ \A p \in Created : parent[p] # 0 => left[p] <= left[parent[p]]
    /\ \A x \in Procs : life[x] = "gone" /\ after[x] # 0 =>
        /\ x < after[x] /\ after[x] \in Created
        /\ left[x] < left[after[x]]
        /\ \A q \in Procs : x < q /\ q < after[x] => left[q] < left[x]

Stayers == ToSet(then.list)

(* began is the value of now when the walk began. *)
SinceThen(left, began) ==
    /\ \A p \in Stayers : p \in Created /\ left[p] >= began
    /\ \A p \in Created, q \in Stayers :
        p <= q /\ left[p] >= began => p \in Stayers
    /\ \A p, q \in Stayers : pid[p] = pid[q] => p = q
    /\ \A p \in Stayers :
        /\ then.parent[p] = 0 \/ then.parent[p] \in Stayers
        /\ parent[p] <= then.parent[p]
    /\ \A x \in Procs : life[x] = "gone" /\ left[x] >= began /\ after[x] = 0 =>
        \A q \in Stayers : q \in Listed => q < x

NodesInv(left, began) ==
    /\ \A i, j \in 1 .. Len(nodes) : i < j => nodes[i].proc < nodes[j].proc
    /\ nodes # <<>> => nodes[1].proc = init
    /\ \A j \in 1 .. Len(nodes) :
        /\ nodes[j].proc >= j
        /\ nodes[j].proc \in Created /\ left[nodes[j].proc] >= began
        /\ nodes[j].pid = pid[nodes[j].proc]
        /\ nodes[j].ppid = 0 => nodes[j].proc <= 2
        /\ nodes[j].ppid # 0 => \E i \in 1 .. j - 1 : nodes[i].pid = nodes[j].ppid
        /\ nodes[j].proc \in Stayers
           /\ parent[nodes[j].proc] = then.parent[nodes[j].proc]
           /\ parent[nodes[j].proc] # 0
             => nodes[j].ppid = pid[parent[nodes[j].proc]]

Walking == pc \in {"next", "read"}
Walked == pc \in {"link", "print", "copy"} \/ (pc = "done" /\ ret \notin {"EINVAL", "ENOMEM"})

WalkInv(left, began) ==
    /\ Walking => \A j \in 1 .. Len(nodes) :
        nodes[j].proc <= at /\ (pc = "read" => nodes[j].proc < at)
    /\ Walking /\ at = 0 => pc = "next" 
    /\ Walking /\ at # 0 =>
        /\ at \in Created /\ left[at] >= began
        /\ \A p \in Procs : p < at \/ (p = at /\ pc = "next") =>
            p \in Captured \/ left[p] < left[at]
    /\ Walked => Stayers \cap Listed \subseteq Captured

(* The nodes are linked. *)
Printing == pc \in {"print", "copy"} \/ (pc = "done" /\ ret \notin {"EINVAL", "ENOMEM", "ESRCH"})

CallInv ==
    /\ pc = "idle" => nodes = <<>>
    /\ ~Printing => up = <<>> /\ queue = <<>> /\ out = <<>>
    /\ pc \in {"idle", "next", "read", "link", "print"} => ret = "none"
    /\ pc = "copy" => ret \in {"none", "EMSGSIZE"}
    /\ pc = "done" => ret # "none"

Lines == out \o queue

PrintInv ==
    Printing =>
        /\ nodes # <<>>
        /\ up = [j \in 1 .. Len(nodes) |-> LinkOf(j)]
        /\ Lines # <<>> /\ Lines[1] = 1
        /\ \A i, j \in 1 .. Len(Lines) : Lines[i] = Lines[j] => i = j
        /\ \A i \in 2 .. Len(Lines) : \E k \in 1 .. Len(out) :
            k < i /\ out[k] = up[Lines[i]]
        /\ \A c \in 1 .. Len(nodes), k \in 1 .. Len(out) :
            up[c] = out[k] => c \in ToSet(Lines)
        /\ (pc \in {"copy", "done"} /\ ret \in {"none", "ok"} => queue = <<>>)

Fits(left, now, began) ==
    /\ left \in [Procs -> Nat] /\ now \in Nat /\ began \in 0 .. now
    /\ LeftInOrder(left, now)
    /\ SinceThen(left, began)
    /\ NodesInv(left, began)
    /\ WalkInv(left, began)

(* The inductive invariant: some order of releases fits. *)
SnapshotInv ==
    /\ TypeOK /\ KernelInv /\ CallInv /\ PrintInv
    /\ \E left \in [Procs -> Nat], now \in Nat : \E began \in 0 .. now :
        Fits(left, now, began)

-----------------------------------------------------------------------------
(* Sets and sequences of numbers. *)

LEMMA MinOf ==
    ASSUME NEW S, S \subseteq Nat, S # {}
    PROVE  Min(S) \in S /\ \A y \in S : Min(S) <= y
<1>1. PICK x \in S : \A y \in S : ~ (<<y, x>> \in OpToRel(<, Nat))
  BY NatLessThanWellFounded, WFMin
<1>2. \A y \in S : ~ (y < x)
  BY <1>1 DEF OpToRel
<1>3. \A y \in S : x <= y
  BY <1>2
<1> QED BY <1>3 DEF Min

(* InOrder(S) exists. *)
Sorted(S, s) ==
    /\ s \in [1 .. Cardinality(S) -> S]
    /\ \A i, j \in 1 .. Cardinality(S) : i < j => s[i] < s[j]

LEMMA CanBeSorted ==
    ASSUME NEW n \in Nat, NEW S \in SUBSET (1 .. n)
    PROVE  \E s : Sorted(S, s)
<1> DEFINE Bad == {m \in Nat : \E T \in SUBSET (1 .. m) : ~ \E s : Sorted(T, s)}
<1>1. SUFFICES ASSUME Bad # {} PROVE FALSE
  OBVIOUS
<1>2. PICK m \in Bad : \A k \in Bad : ~ (k < m)
  <2>1. PICK x \in Bad : \A y \in Bad : ~ (<<y, x>> \in OpToRel(<, Nat))
    BY <1>1, NatLessThanWellFounded, WFMin
  <2> QED BY <2>1 DEF OpToRel
<1>3. PICK T \in SUBSET (1 .. m) : ~ \E s : Sorted(T, s)
  BY <1>2
<1>4. m # 0
  <2> SUFFICES ASSUME m = 0 PROVE FALSE
    OBVIOUS
  <2>1. T = {}
    BY <1>3
  <2>2. Cardinality(T) = 0
    BY <2>1, FS_EmptySet
  <2>3. Sorted(T, <<>>)
    BY <2>1, <2>2 DEF Sorted
  <2> QED BY <1>3, <2>3
<1>5. m - 1 \in Nat /\ m - 1 \notin Bad
  BY <1>2, <1>4
<1>6. m \in T
  <2> SUFFICES ASSUME m \notin T PROVE FALSE
    OBVIOUS
  <2>1. T \in SUBSET (1 .. m - 1)
    BY <1>2, <1>3
  <2> QED BY <1>3, <1>5, <2>1
<1>7. T \ {m} \in SUBSET (1 .. m - 1)
  BY <1>2, <1>3
<1>8. PICK s : Sorted(T \ {m}, s)
  BY <1>5, <1>7
<1>9. IsFiniteSet(T)
  <2>1. IsFiniteSet(1 .. m)
    BY <1>2, FS_Interval
  <2> QED BY <1>3, <2>1, FS_Subset
<1>10. Cardinality(T \ {m}) = Cardinality(T) - 1 /\ Cardinality(T) \in Nat
  BY <1>6, <1>9, FS_RemoveElement, FS_CardinalityType
<1>11. PICK c : c = Cardinality(T)
  OBVIOUS
<1>12. c \in Nat /\ Cardinality(T \ {m}) = c - 1
  BY <1>10, <1>11
<1> DEFINE t == [i \in 1 .. c |-> IF i = c THEN m ELSE s[i]]
<1>13. \A i \in 1 .. c - 1 : s[i] \in T \ {m}
  BY <1>8, <1>12 DEF Sorted
<1>14. t \in [1 .. c -> T]
  BY <1>6, <1>12, <1>13
<1>15. \A i, j \in 1 .. c : i < j => t[i] < t[j]
  <2> SUFFICES ASSUME NEW i \in 1 .. c, NEW j \in 1 .. c, i < j PROVE t[i] < t[j]
    OBVIOUS
  <2>1. i \in 1 .. c - 1 /\ t[i] = s[i] /\ s[i] < m /\ s[i] \in Nat
    <3>1. i \in 1 .. c - 1
      BY <1>12
    <3>2. s[i] \in T \ {m}
      BY <1>13, <3>1
    <3>3. s[i] \in 1 .. m - 1
      BY <1>7, <3>2
    <3> QED BY <1>2, <3>1, <3>3
  <2>2. CASE j = c
    BY <1>12, <2>1, <2>2
  <2>3. CASE j # c
    <3>1. j \in 1 .. c - 1 /\ t[j] = s[j]
      BY <1>12, <2>3
    <3> HIDE DEF t
    <3> QED BY <1>8, <1>12, <2>1, <3>1 DEF Sorted
  <2> QED BY <2>2, <2>3
<1>16. Sorted(T, t)
  <2> HIDE DEF t
  <2> QED BY <1>11, <1>14, <1>15 DEF Sorted
<1> QED BY <1>3, <1>16

LEMMA InOrderIs ==
    ASSUME NEW n \in Nat, NEW S \in SUBSET (1 .. n)
    PROVE  /\ InOrder(S) \in Seq(S)
           /\ Ascending(InOrder(S))
           /\ ToSet(InOrder(S)) = S
<1>1. PICK c : c = Cardinality(S)
  OBVIOUS
<1>2. IsFiniteSet(S)
  <2>1. IsFiniteSet(1 .. n)
    BY FS_Interval
  <2> QED BY <2>1, FS_Subset
<1>3. c \in Nat
  BY <1>1, <1>2, FS_CardinalityType
<1>4. \E s \in [1 .. c -> S] : \A i, j \in 1 .. c : i < j => s[i] < s[j]
  BY <1>1, CanBeSorted DEF Sorted
<1>5. PICK s : s = InOrder(S)
  OBVIOUS
<1>6. s \in [1 .. c -> S] /\ \A i, j \in 1 .. c : i < j => s[i] < s[j]
  BY <1>1, <1>4, <1>5 DEF InOrder
<1>7. s \in Seq(S) /\ Len(s) = c
  BY <1>3, <1>6
<1>8. Ascending(s)
  BY <1>6, <1>7 DEF Ascending
<1>9. ToSet(s) = S
  <2>1. S \subseteq Nat
    OBVIOUS
  <2>2. \A i, j \in 1 .. c : i # j => s[i] # s[j]
    <3> SUFFICES ASSUME NEW i \in 1 .. c, NEW j \in 1 .. c, i # j
                 PROVE  s[i] # s[j]
      OBVIOUS
    <3>1. s[i] \in Nat /\ s[j] \in Nat
      BY <1>6, <2>1
    <3>2. i < j \/ j < i
      BY <1>3
    <3> QED BY <1>6, <3>1, <3>2
  <2>3. s \in Injection(1 .. c, S)
    BY <1>6, <2>2 DEF Injection, IsInjective
  <2>4. IsFiniteSet(1 .. c) /\ Cardinality(1 .. c) = c
    BY <1>3, FS_Interval
  <2>5. s \in Surjection(1 .. c, S)
    BY <1>1, <1>2, <2>3, <2>4, FS_Injection
  <2> QED BY <1>6, <1>7, <2>5 DEF Surjection, ToSet
<1> QED BY <1>5, <1>7, <1>8, <1>9

LEMMA SeqItem ==
    ASSUME NEW S, NEW s \in Seq(S), NEW j \in 1 .. Len(s) PROVE s[j] \in S
OBVIOUS

LEMMA AscendingDiffer ==
    ASSUME NEW s \in Seq(Nat), Ascending(s),
           NEW i \in 1 .. Len(s), NEW j \in 1 .. Len(s)
    PROVE  (s[i] = s[j] => i = j) /\ (s[i] < s[j] => i < j)
<1>1. s[i] \in Nat /\ s[j] \in Nat
  BY SeqItem
<1>2. i < j \/ i = j \/ j < i
  OBVIOUS
<1> QED BY <1>1, <1>2 DEF Ascending

LEMMA RemoveFrom ==
    ASSUME NEW s \in Seq(Procs), Ascending(s), NEW k \in 1 .. Len(s)
    PROVE  /\ RemoveAt(s, k) \in Seq(Procs)
           /\ Ascending(RemoveAt(s, k))
           /\ ToSet(RemoveAt(s, k)) = ToSet(s) \ {s[k]}
<1>1. PICK n : n = Len(s)
  OBVIOUS
<1>2. n \in Nat /\ k \in 1 .. n
  BY <1>1
<1>3. PICK t : t = RemoveAt(s, k)
  OBVIOUS
<1>4. t = SubSeq(s, 1, k - 1) \o SubSeq(s, k + 1, n)
  BY <1>1, <1>3 DEF RemoveAt
<1>5. \A i \in 1 .. n : s[i] \in Procs
  BY <1>1, SeqItem
<1>6. PICK a : a = SubSeq(s, 1, k - 1)
  OBVIOUS
<1>7. PICK b : b = SubSeq(s, k + 1, n)
  OBVIOUS
<1>8. a \in Seq(Procs) /\ Len(a) = k - 1 /\ \A i \in 1 .. k - 1 : a[i] = s[i]
  BY <1>2, <1>5, <1>6
<1>9. b \in Seq(Procs) /\ Len(b) = n - k /\ \A i \in 1 .. n - k : b[i] = s[k + i]
  BY <1>2, <1>5, <1>7
<1>10. t = a \o b
  BY <1>4, <1>6, <1>7
<1>11. t \in Seq(Procs)
  BY <1>8, <1>9, <1>10
<1>12. Len(t) = n - 1
  <2>1. Len(t) = Len(a) + Len(b)
    BY <1>8, <1>9, <1>10, ConcatProperties
  <2> QED BY <1>2, <1>8, <1>9, <2>1
<1>13. \A i \in 1 .. k - 1 : t[i] = s[i]
  BY ONLY <1>2, <1>8, <1>9, <1>10
<1>14. \A i \in k .. n - 1 : t[i] = s[i + 1]
  <2> SUFFICES ASSUME NEW i \in k .. n - 1 PROVE t[i] = s[i + 1]
    OBVIOUS
  <2>1. t[i] = b[i - (k - 1)]
    BY ONLY <1>2, <1>8, <1>9, <1>10, i \in k .. n - 1
  <2>2. i - (k - 1) \in 1 .. n - k /\ k + (i - (k - 1)) = i + 1
    BY <1>2
  <2> QED BY <1>9, <2>1, <2>2
<1>15. Ascending(t)
  <2> SUFFICES ASSUME NEW i \in 1 .. n - 1, NEW j \in 1 .. n - 1, i < j
               PROVE  t[i] < t[j]
    BY <1>12 DEF Ascending
  <2>1. PICK ii \in 1 .. n : t[i] = s[ii] /\ (IF i < k THEN ii = i ELSE ii = i + 1)
    <3>1. CASE i < k
      BY <1>2, <1>13, <3>1
    <3>2. CASE ~(i < k)
      <4>1. i \in k .. n - 1 /\ i + 1 \in 1 .. n
        BY <1>2, <3>2
      <4> QED BY <1>14, <3>2, <4>1
    <3> QED BY <3>1, <3>2
  <2>2. PICK jj \in 1 .. n : t[j] = s[jj] /\ (IF j < k THEN jj = j ELSE jj = j + 1)
    <3>1. CASE j < k
      BY <1>2, <1>13, <3>1
    <3>2. CASE ~(j < k)
      <4>1. j \in k .. n - 1 /\ j + 1 \in 1 .. n
        BY <1>2, <3>2
      <4> QED BY <1>14, <3>2, <4>1
    <3> QED BY <3>1, <3>2
  <2>3. ii < jj
    BY <1>2, <2>1, <2>2
  <2> QED BY <1>1, <2>1, <2>2, <2>3 DEF Ascending
<1>16. s[k] \in Procs /\ \A i \in 1 .. n : i # k => s[i] # s[k]
  BY <1>1, <1>2, <1>5, AscendingDiffer DEF Procs
<1>17. ToSet(t) \subseteq ToSet(s) \ {s[k]}
  <2> SUFFICES ASSUME NEW i \in 1 .. n - 1 PROVE t[i] \in ToSet(s) \ {s[k]}
    BY <1>11, <1>12 DEF ToSet
  <2>1. CASE i < k
    <3>1. t[i] = s[i] /\ i # k /\ i \in 1 .. n
      BY <1>2, <1>13, <2>1
    <3> QED BY <1>1, <1>16, <3>1 DEF ToSet
  <2>2. CASE ~(i < k)
    <3>1. i \in k .. n - 1
      BY <1>2, <2>2
    <3>2. t[i] = s[i + 1] /\ i + 1 # k /\ i + 1 \in 1 .. n
      BY <1>2, <1>14, <3>1
    <3> QED BY <1>1, <1>16, <3>2 DEF ToSet
  <2> QED BY <2>1, <2>2
<1>18. ToSet(s) \ {s[k]} \subseteq ToSet(t)
  <2> SUFFICES ASSUME NEW i \in 1 .. n, s[i] # s[k] PROVE s[i] \in ToSet(t)
    BY <1>1 DEF ToSet
  <2>1. i # k
    OBVIOUS
  <2>2. CASE i < k
    <3>1. t[i] = s[i] /\ i \in 1 .. n - 1
      BY <1>2, <1>13, <2>2
    <3> QED BY <1>11, <1>12, <3>1 DEF ToSet
  <2>3. CASE k < i
    <3>1. i - 1 \in k .. n - 1 /\ i - 1 \in 1 .. n - 1 /\ (i - 1) + 1 = i
      BY <1>2, <2>3
    <3>2. t[i - 1] = s[i]
      BY <1>14, <3>1
    <3> QED BY <1>11, <1>12, <3>1, <3>2 DEF ToSet
  <2> QED BY <1>2, <2>1, <2>2, <2>3
<1> QED BY <1>3, <1>11, <1>15, <1>17, <1>18

-----------------------------------------------------------------------------
(* The kernel's list. *)

LEMMA PlaceOf ==
    ASSUME list \in Seq(Procs), NEW p \in Listed
    PROVE  Place(p) \in 1 .. Len(list) /\ list[Place(p)] = p
BY DEF Place, Listed, ToSet

LEMMA FollowerIs ==
    ASSUME list \in Seq(Procs), Ascending(list), NEW p \in Listed
    PROVE  \/ Follower(p) = 0 /\ \A q \in Listed : q <= p
           \/ /\ Follower(p) \in Listed /\ p < Follower(p)
              /\ \A q \in Listed : q <= p \/ Follower(p) <= q
<1>1. PICK k : k = Place(p)
  OBVIOUS
<1>2. k \in 1 .. Len(list) /\ list[k] = p
  BY <1>1, PlaceOf
<1>3. p \in Procs /\ p # 0
  <2>1. \A i \in 1 .. Len(list) : list[i] \in Procs
    BY SeqItem
  <2>2. p \in Procs
    BY <1>2, <2>1
  <2> QED BY <2>2 DEF Procs
<1>4. Follower(p) = IF k < Len(list) THEN list[k + 1] ELSE 0
  BY <1>1, <1>3 DEF Follower
<1>5. \A i \in 1 .. Len(list) : list[i] \in Nat
  <2>1. \A i \in 1 .. Len(list) : list[i] \in Procs
    BY SeqItem
  <2> QED BY <2>1 DEF Procs
<1>6. ASSUME NEW q \in Listed PROVE \E i \in 1 .. Len(list) : list[i] = q
  BY DEF Listed, ToSet
<1>7. CASE k < Len(list)
  <2>1. k + 1 \in 1 .. Len(list) /\ k < k + 1
    BY <1>2, <1>7
  <2>2. list[k + 1] \in Listed /\ p < list[k + 1]
    BY <1>2, <2>1 DEF Listed, ToSet, Ascending
  <2>3. ASSUME NEW q \in Listed PROVE q <= p \/ list[k + 1] <= q
    <3>1. PICK i \in 1 .. Len(list) : list[i] = q
      BY <1>6
    <3>2. i < k \/ i = k \/ i = k + 1 \/ k + 1 < i
      BY <1>2
    <3> QED BY <1>2, <1>5, <2>1, <3>1, <3>2 DEF Ascending
  <2> QED BY <1>4, <1>7, <2>2, <2>3
<1>8. CASE ~(k < Len(list))
  <2>1. ASSUME NEW q \in Listed PROVE q <= p
    <3>1. PICK i \in 1 .. Len(list) : list[i] = q
      BY <1>6
    <3>2. i < k \/ i = k
      BY <1>2, <1>8
    <3> QED BY <1>2, <1>5, <3>1, <3>2 DEF Ascending
  <2> QED BY <1>4, <1>8, <2>1
<1> QED BY <1>7, <1>8

LEMMA AppendTo ==
    ASSUME NEW s \in Seq(Procs), Ascending(s), NEW c \in Procs,
           \A q \in ToSet(s) : q < c
    PROVE  /\ Append(s, c) \in Seq(Procs)
           /\ Ascending(Append(s, c))
           /\ ToSet(Append(s, c)) = ToSet(s) \union {c}
<1>1. PICK t : t = Append(s, c)
  OBVIOUS
<1>2. /\ t \in Seq(Procs) /\ Len(t) = Len(s) + 1
      /\ \A i \in 1 .. Len(s) : t[i] = s[i]
      /\ t[Len(s) + 1] = c
  BY <1>1, AppendProperties
<1>3. \A i \in 1 .. Len(s) : s[i] \in ToSet(s)
  BY DEF ToSet
<1>4. Len(s) \in Nat
  OBVIOUS
<1>5. ASSUME NEW i \in 1 .. Len(s) + 1, NEW j \in 1 .. Len(s) + 1, i < j
      PROVE  t[i] < t[j]
  <2>1. i \in 1 .. Len(s) /\ t[i] = s[i]
    BY <1>2, <1>4, <1>5
  <2>2. CASE j = Len(s) + 1
    BY <1>2, <1>3, <2>1, <2>2
  <2>3. CASE j \in 1 .. Len(s)
    BY <1>2, <1>5, <2>1, <2>3 DEF Ascending
  <2> QED BY <1>4, <2>2, <2>3
<1>6. Ascending(t)
  BY <1>2, <1>5 DEF Ascending
<1>7. ToSet(t) = ToSet(s) \union {c}
  <2>1. \A i \in 1 .. Len(t) : i \in 1 .. Len(s) \/ i = Len(s) + 1
    BY <1>2, <1>4
  <2>2. 1 .. Len(s) \subseteq 1 .. Len(t) /\ Len(s) + 1 \in 1 .. Len(t)
    BY <1>2, <1>4
  <2> QED BY <1>2, <2>1, <2>2 DEF ToSet
<1> QED BY <1>1, <1>2, <1>6, <1>7

LEMMA ListedIs ==
    ASSUME TypeOK, KernelInv
    PROVE  /\ Listed = {p \in Created : life[p] # "gone"}
           /\ init \in Listed /\ kthreadd \in Listed
           /\ list \in Seq(Procs) /\ Ascending(list)
<1>1. init \in Procs /\ kthreadd \in Procs
  BY SnapshotAssumption DEF Procs, init, kthreadd
<1> QED BY <1>1 DEF TypeOK, KernelInv, Created

(* An unborn process is the next one after all that were created. *)
LEMMA NewIsLast ==
    ASSUME KernelInv, NEW c \in Procs, life[c] = "none"
    PROVE  (\A q \in Created : q < c) /\ c > 2
<1>1. \A q \in Created : q < c
  <2> SUFFICES ASSUME NEW q \in Created PROVE q < c
    OBVIOUS
  <2>1. q \in Procs /\ q # c /\ ~ (c < q)
    BY DEF KernelInv, Created
  <2> QED BY <2>1 DEF Procs
<1>2. kthreadd \in Created
  BY SnapshotAssumption DEF KernelInv, Created, Procs, kthreadd
<1> QED BY <1>1, <1>2 DEF kthreadd, Procs

LEMMA ForkKernel ==
    ASSUME TypeOK, KernelInv, NEW p \in Procs, Fork(p)
    PROVE  KernelInv'
<1>1. PICK c \in Procs, n \in 1 .. MaxPid :
        /\ life[c] = "none"
        /\ \A d \in Procs : d < c => life[d] # "none"
        /\ \A q \in Listed : pid[q] # n
        /\ life' = [life EXCEPT ![c] = "live"]
        /\ pid' = [pid EXCEPT ![c] = n]
        /\ parent' = [parent EXCEPT ![c] = p]
        /\ list' = Append(list, c)
  BY DEF Fork
<1>2. life[p] = "live" /\ p \in Created
  BY DEF Fork, Created
<1>3. /\ Listed = {q \in Created : life[q] # "gone"}
      /\ init \in Listed /\ kthreadd \in Listed
      /\ list \in Seq(Procs) /\ Ascending(list)
  BY ListedIs
<1>4. (\A q \in Created : q < c) /\ c > 2
  BY <1>1, NewIsLast
<1>5. list' \in Seq(Procs) /\ Ascending(list') /\ Listed' = Listed \union {c}
  BY <1>1, <1>3, <1>4, AppendTo DEF Listed
<1>6. /\ \A q \in Procs : q # c => life'[q] = life[q] /\ pid'[q] = pid[q]
                                    /\ parent'[q] = parent[q]
      /\ life'[c] = "live" /\ pid'[c] = n /\ parent'[c] = p
  BY <1>1 DEF TypeOK
<1>7. Created' = Created \union {c}
  BY <1>1, <1>6 DEF Created
<1>8. c \notin Created
  BY <1>1 DEF Created
<1>9. Listed' = {q \in Procs : life'[q] \in {"live", "zombie"}}
  BY <1>1, <1>5, <1>6 DEF KernelInv
<1>10. \A q, r \in Procs : r < q /\ q \in Created' => r \in Created'
  BY <1>1, <1>7 DEF KernelInv, Created
<1>11. init # c /\ kthreadd # c /\ init \in Procs /\ kthreadd \in Procs
  BY <1>3, <1>8 DEF Created
<1>12. life'[init] = "live" /\ life'[kthreadd] = "live" /\ pid'[init] = 1
  BY <1>6, <1>11 DEF KernelInv
<1>13. n # 1
  BY <1>1, <1>3 DEF KernelInv
<1>14. \A q \in Created' : pid'[q] \in 1 .. MaxPid /\ (pid'[q] = 1 => q = init)
  BY <1>1, <1>6, <1>7, <1>8, <1>13 DEF KernelInv, Created
<1>15. \A q, r \in Listed' : pid'[q] = pid'[r] => q = r
  BY <1>1, <1>3, <1>5, <1>6, <1>8 DEF KernelInv, Created
<1>16. \A q \in Created' : IF q <= 2 THEN parent'[q] = 0
                           ELSE parent'[q] \in Procs /\ parent'[q] < q
  <2> SUFFICES ASSUME NEW q \in Created'
               PROVE  IF q <= 2 THEN parent'[q] = 0
                      ELSE parent'[q] \in Procs /\ parent'[q] < q
    OBVIOUS
  <2>1. CASE q = c
    <3>1. p < c /\ ~ (c <= 2)
      BY <1>2, <1>4 DEF Procs
    <3> QED BY <1>6, <2>1, <3>1
  <2>2. CASE q # c
    BY <1>6, <1>7, <2>2 DEF KernelInv, Created
  <2> QED BY <2>1, <2>2
<1> QED BY <1>5, <1>9, <1>10, <1>12, <1>14, <1>15, <1>16 DEF KernelInv

LEMMA ExitKernel ==
    ASSUME TypeOK, KernelInv, NEW p \in Procs, Exit(p)
    PROVE  KernelInv' /\ Created' = Created
<1>1. /\ \A q \in Procs : q # p => life'[q] = life[q]
      /\ life[p] = "live" /\ life'[p] = "zombie"
      /\ p # init /\ p # kthreadd
  BY DEF Exit, TypeOK
<1>2. UNCHANGED <<list, pid, parent>> /\ Listed' = Listed
  BY DEF Exit, Listed
<1>3. Created' = Created
  BY <1>1 DEF Created
<1>4. \A q \in Procs :
        life'[q] \in {"live", "zombie"} <=> life[q] \in {"live", "zombie"}
  BY <1>1
<1>5. init \in Procs /\ kthreadd \in Procs
  BY SnapshotAssumption DEF Procs, init, kthreadd
<1> QED BY <1>1, <1>2, <1>3, <1>4, <1>5 DEF KernelInv

LEMMA AncestorsOlder ==
    ASSUME TypeOK, KernelInv, NEW p \in Created, parent[p] # 0, NEW a \in Ancestors(p)
    PROVE  a \in Procs /\ a < p
<1> DEFINE S == {q \in Procs : q < p}
<1>1. p \in Procs /\ Procs \subseteq Nat
  BY DEF Created, Procs
<1>2. parent[p] \in S
  BY <1>1 DEF KernelInv
<1>3. ASSUME NEW q \in S PROVE parent[q] \in S \union {0}
  <2>1. q \in Created /\ q \in Procs /\ q < p
    BY <1>1 DEF KernelInv
  <2>2. parent[q] = 0 \/ (parent[q] \in Procs /\ parent[q] < q)
    BY <2>1 DEF KernelInv
  <2>3. parent[q] \in Procs /\ parent[q] < q => parent[q] < p
    BY <1>1, <2>1 DEF Procs
  <2> QED BY <2>2, <2>3
<1>4. S \in SUBSET Procs
  OBVIOUS
<1>5. a \in S
  <2> HIDE DEF S
  <2> QED BY <1>2, <1>3, <1>4 DEF Ancestors
<1> QED BY <1>5

(* The reaper that a child of a process that ended gets. *)
LEMMA ReaperIs ==
    ASSUME TypeOK, KernelInv, NEW c \in Procs, Reparent(c)
    PROVE  /\ \A q \in Procs : q # c => parent'[q] = parent[q]
           /\ c \in Listed /\ c \in Created /\ parent[c] \in Procs
           /\ parent'[c] \in Procs /\ parent'[c] < parent[c]
           /\ life[parent'[c]] = "live" /\ parent[c] < c
           /\ parent' \in [Procs -> Procs \union {0}]
<1>1. /\ c \in Listed /\ parent[c] \in Procs /\ life[parent[c]] = "zombie"
      /\ c \in Created /\ parent[c] \in Created
  BY DEF Reparent, KernelInv, Created
<1>2. PICK reaper \in {init} \union Ancestors(parent[c]) :
        life[reaper] = "live" /\ parent' = [parent EXCEPT ![c] = reaper]
  BY DEF Reparent
<1>3. init \in Procs /\ init = 1 /\ kthreadd = 2 /\ Procs \subseteq Nat \ {0}
  BY SnapshotAssumption DEF Procs, init, kthreadd
<1>4. parent[c] \in Nat /\ parent[c] > 2
  <2>1. parent[c] # init /\ parent[c] # kthreadd
    BY <1>1 DEF KernelInv
  <2> QED BY <1>1, <2>1 DEF Procs, init, kthreadd
<1>5. parent[parent[c]] # 0 /\ parent[c] < c
  <2>1. \A q \in Created : IF q <= 2 THEN parent[q] = 0
                            ELSE parent[q] \in Procs /\ parent[q] < q
    BY DEF KernelInv
  <2>2. parent[parent[c]] \in Procs
    BY <1>1, <1>4, <2>1
  <2>3. parent[c] < c
    BY <1>1, <1>4, <2>1
  <2> QED BY <2>2, <2>3 DEF Procs
<1>6. reaper \in Procs /\ reaper < parent[c]
  <2>1. CASE reaper = init
    BY <1>3, <1>4, <2>1
  <2>2. CASE reaper \in Ancestors(parent[c])
    BY <1>1, <1>5, <2>2, AncestorsOlder
  <2> QED BY <2>1, <2>2
<1>7. /\ parent'[c] = reaper /\ \A q \in Procs : q # c => parent'[q] = parent[q]
      /\ parent' \in [Procs -> Procs \union {0}]
  BY <1>2, <1>6 DEF TypeOK
<1> QED BY <1>1, <1>2, <1>5, <1>6, <1>7

LEMMA ReparentKernel ==
    ASSUME TypeOK, KernelInv, NEW c \in Procs, Reparent(c)
    PROVE  KernelInv' /\ Created' = Created
<1>1. /\ \A q \in Procs : q # c => parent'[q] = parent[q]
      /\ parent'[c] \in Procs /\ parent'[c] < parent[c] /\ parent[c] \in Procs
      /\ parent[c] < c /\ c \in Created
  BY ReaperIs
<1>2. UNCHANGED <<list, life, pid>> /\ Listed' = Listed /\ Created' = Created
  BY DEF Reparent, Listed, Created
<1>3. ~ (c <= 2) /\ parent'[c] < c
  <2>1. c \in Nat /\ parent[c] \in Nat /\ parent'[c] \in Nat /\ parent[c] # 0
    BY <1>1 DEF Procs
  <2>2. ~ (c <= 2)
    BY <1>1, <2>1 DEF KernelInv
  <2> QED BY <1>1, <2>1, <2>2
<1>5. \A q \in Created : IF q <= 2 THEN parent'[q] = 0
                         ELSE parent'[q] \in Procs /\ parent'[q] < q
  BY <1>1, <1>3 DEF KernelInv, Created
<1> QED BY <1>2, <1>5 DEF KernelInv

LEMMA ReleaseKernel ==
    ASSUME TypeOK, KernelInv, NEW p \in Procs, Release(p)
    PROVE  KernelInv' /\ Listed' = Listed \ {p} /\ Created' = Created
<1>1. /\ \A q \in Procs : q # p => life'[q] = life[q]
      /\ life[p] = "zombie" /\ life'[p] = "gone"
  BY DEF Release, TypeOK
<1>2. UNCHANGED <<pid, parent>> /\ p \in Listed /\ list' = RemoveAt(list, Place(p))
  BY DEF Release
<1>3. list \in Seq(Procs) /\ Ascending(list)
  BY DEF KernelInv
<1>4. Place(p) \in 1 .. Len(list) /\ list[Place(p)] = p
  BY <1>2, <1>3, PlaceOf
<1>5. list' \in Seq(Procs) /\ Ascending(list') /\ Listed' = Listed \ {p}
  BY <1>2, <1>3, <1>4, RemoveFrom DEF Listed
<1>6. Created' = Created
  BY <1>1 DEF Created
<1>7. Listed' = {q \in Procs : life'[q] \in {"live", "zombie"}}
  BY <1>1, <1>5 DEF KernelInv
<1>8. p # init /\ p # kthreadd /\ init \in Procs /\ kthreadd \in Procs
  BY <1>1, SnapshotAssumption DEF KernelInv, Procs, init, kthreadd
<1> QED BY <1>1, <1>2, <1>5, <1>6, <1>7, <1>8 DEF KernelInv

LEMMA KernelStays ==
    ASSUME KernelInv, UNCHANGED kernel
    PROVE  KernelInv' /\ Created' = Created /\ Listed' = Listed
<1>1. UNCHANGED <<list, after, life, pid, parent>>
  BY DEF kernel
<1>2. Created' = Created /\ Listed' = Listed
  BY <1>1 DEF Created, Listed
<1> QED BY <1>1, <1>2 DEF KernelInv

-----------------------------------------------------------------------------
(* Steps of the kernel during the walk. *)

(* What Fork, Exit and Reparent leave alone, and what they change. *)
Unreleased ==
    /\ UNCHANGED <<after, call>>
    /\ \A q \in Created : q \in Created' /\ pid'[q] = pid[q]
    /\ \A q \in Procs : life'[q] = "gone" <=> life[q] = "gone"
    /\ \A c \in Created' : c \notin Created =>
        /\ \A q \in Created : q < c
        /\ life[parent'[c]] = "live"
    /\ \A q \in Created : parent'[q] # parent[q] =>
        /\ q \in Listed /\ parent[q] \in Procs /\ parent'[q] \in Procs
        /\ parent'[q] < parent[q] /\ life[parent'[q]] = "live"

LEMMA ForkUnreleased ==
    ASSUME TypeOK, KernelInv, NEW p \in Procs, Fork(p)
    PROVE  Unreleased
<1>1. PICK c \in Procs, n \in 1 .. MaxPid :
        /\ life[c] = "none"
        /\ life' = [life EXCEPT ![c] = "live"]
        /\ pid' = [pid EXCEPT ![c] = n]
        /\ parent' = [parent EXCEPT ![c] = p]
  BY DEF Fork
<1>2. life[p] = "live" /\ UNCHANGED <<after, call>>
  BY DEF Fork
<1>3. /\ \A q \in Procs : q # c => life'[q] = life[q] /\ pid'[q] = pid[q]
                                    /\ parent'[q] = parent[q]
      /\ life'[c] = "live" /\ pid'[c] = n /\ parent'[c] = p
  BY <1>1 DEF TypeOK
<1>4. \A q \in Created : q < c
  BY <1>1, NewIsLast
<1>5. Created' = Created \union {c} /\ c \notin Created
  BY <1>1, <1>3 DEF Created
<1> QED BY <1>1, <1>2, <1>3, <1>4, <1>5 DEF Unreleased, Created

LEMMA ExitUnreleased ==
    ASSUME TypeOK, KernelInv, NEW p \in Procs, Exit(p)
    PROVE  Unreleased
<1>1. /\ \A q \in Procs : q # p => life'[q] = life[q]
      /\ life[p] = "live" /\ life'[p] = "zombie"
  BY DEF Exit, TypeOK
<1>2. UNCHANGED <<pid, parent, after, call>>
  BY DEF Exit
<1>3. Created' = Created
  BY ExitKernel
<1> QED BY <1>1, <1>2, <1>3 DEF Unreleased

LEMMA ReparentUnreleased ==
    ASSUME TypeOK, KernelInv, NEW c \in Procs, Reparent(c)
    PROVE  Unreleased
<1>1. /\ \A q \in Procs : q # c => parent'[q] = parent[q]
      /\ c \in Listed /\ parent[c] \in Procs /\ parent'[c] \in Procs
      /\ parent'[c] < parent[c] /\ life[parent'[c]] = "live"
  BY ReaperIs
<1>3. UNCHANGED <<pid, life, after, call>>
  BY DEF Reparent
<1>4. Created' = Created
  BY ReparentKernel
<1> QED BY <1>1, <1>3, <1>4 DEF Unreleased, Created

LEMMA UnreleasedFits ==
    ASSUME TypeOK, TypeOK', KernelInv, KernelInv', Unreleased,
           pc \in {"idle", "next", "read"},
           NEW left, NEW now, NEW began, Fits(left, now, began)
    PROVE  Fits(left, now, began)'
<1>1. /\ left \in [Procs -> Nat] /\ now \in Nat /\ began \in 0 .. now
      /\ LeftInOrder(left, now) /\ SinceThen(left, began)
      /\ NodesInv(left, began) /\ WalkInv(left, began)
  BY DEF Fits
<1>2. /\ \A q \in Created : q \in Created' /\ pid'[q] = pid[q]
      /\ \A q \in Procs : life'[q] = "gone" <=> life[q] = "gone"
      /\ \A c \in Created' : c \notin Created =>
          /\ \A q \in Created : q < c
          /\ life[parent'[c]] = "live"
      /\ \A q \in Created : parent'[q] # parent[q] =>
          /\ q \in Listed /\ parent[q] \in Procs /\ parent'[q] \in Procs
        /\ parent'[q] < parent[q] /\ life[parent'[q]] = "live"
      /\ UNCHANGED <<after, call>>
  BY DEF Unreleased
<1>3. UNCHANGED <<after, pc, at, nodes, ret, then>>
  BY <1>2 DEF call
<1>4. Stayers' = Stayers /\ Captured' = Captured
  BY <1>3 DEF Stayers, Captured
<1>5. \A q \in Created : q \in Listed' => q \in Listed
  BY <1>2 DEF KernelInv, TypeOK, Created
<1>6. init \in Procs /\ init = 1
  BY SnapshotAssumption DEF Procs, init
<1>7. Created \subseteq Procs /\ Created' \subseteq Procs /\ Procs \subseteq Nat
  BY DEF Created, Procs
<1>14. \A q \in Procs :
        parent[q] \in Nat /\ parent'[q] \in Nat /\ then.parent[q] \in Nat
  <2>1. /\ parent \in [Procs -> Procs \union {0}]
        /\ parent' \in [Procs -> Procs \union {0}]
        /\ then.parent \in [Procs -> Procs \union {0}]
    BY DEF TypeOK
  <2>2. Procs \union {0} \subseteq Nat
    BY <1>7
  <2>3. PICK old : old = then.parent
    OBVIOUS
  <2>4. \A q \in Procs : parent[q] \in Nat /\ parent'[q] \in Nat /\ old[q] \in Nat
    BY <2>1, <2>2, <2>3
  <2> QED BY <2>3, <2>4
<1>8. \A q \in Procs : left[q] \in Nat /\ left[q] <= now
  BY <1>1 DEF LeftInOrder
<1>9. \A q \in Created : parent[q] # 0 => parent[q] \in Created
  <2> SUFFICES ASSUME NEW q \in Created, parent[q] # 0 PROVE parent[q] \in Created
    OBVIOUS
  <2>1. parent[q] \in Procs /\ parent[q] < q
    BY <1>7 DEF KernelInv
  <2> QED BY <1>7, <2>1 DEF KernelInv
<1>10. LeftInOrder(left, now)'
  <2>1. \A q \in Procs : IF life'[q] = "gone" THEN left[q] < now ELSE left[q] = now
    BY <1>1, <1>2 DEF LeftInOrder
  <2>2. ASSUME NEW c \in Created', parent'[c] # 0
        PROVE  left[c] <= left[parent'[c]]
    <3>1. parent'[c] \in Procs
      BY <1>7, <2>2 DEF KernelInv
    <3>2. CASE c \notin Created
      <4>1. life[parent'[c]] = "live"
        BY <1>2, <3>2
      <4>2. left[parent'[c]] = now
        BY <1>1, <3>1, <4>1 DEF LeftInOrder
      <4> QED BY <1>7, <1>8, <4>2
    <3>3. CASE c \in Created /\ parent'[c] = parent[c]
      BY <1>1, <2>2, <3>3 DEF LeftInOrder
    <3>4. CASE c \in Created /\ parent'[c] # parent[c]
      <4>1. parent'[c] \in Procs /\ left[parent'[c]] = now
        BY <1>1, <1>2, <3>4 DEF LeftInOrder
      <4> QED BY <1>7, <1>8, <4>1
    <3> QED BY <3>2, <3>3, <3>4
  <2>3. \A x \in Procs : life'[x] = "gone" /\ after'[x] # 0 =>
          /\ x < after'[x] /\ after'[x] \in Created'
          /\ left[x] < left[after'[x]]
          /\ \A q \in Procs : x < q /\ q < after'[x] => left[q] < left[x]
    BY <1>1, <1>2, <1>3 DEF LeftInOrder
  <2> QED BY <2>1, <2>2, <2>3 DEF LeftInOrder
<1>11. SinceThen(left, began)'
  <2>1. \A p \in Stayers : p \in Created' /\ left[p] >= began
    BY <1>1, <1>2 DEF SinceThen
  <2>2. ASSUME NEW p \in Created', NEW q \in Stayers, p <= q, left[p] >= began
        PROVE  p \in Stayers
    <3>1. q \in Created
      BY <1>1 DEF SinceThen
    <3>2. p \in Created
      <4>1. SUFFICES ASSUME p \notin Created PROVE FALSE
        OBVIOUS
      <4>2. q < p
        BY <1>2, <3>1, <4>1
      <4> QED BY <1>7, <2>2, <3>1, <4>2
    <3> QED BY <1>1, <2>2, <3>2 DEF SinceThen
  <2>3. \A p, q \in Stayers : pid'[p] = pid'[q] => p = q
    BY <1>1, <1>2 DEF SinceThen
  <2>4. \A p \in Stayers :
          /\ then.parent[p] = 0 \/ then.parent[p] \in Stayers
          /\ parent'[p] <= then.parent[p]
    <3> SUFFICES ASSUME NEW p \in Stayers
                 PROVE  /\ then.parent[p] = 0 \/ then.parent[p] \in Stayers
                        /\ parent'[p] <= then.parent[p]
      OBVIOUS
    <3>1. /\ p \in Created /\ parent[p] <= then.parent[p]
          /\ then.parent[p] = 0 \/ then.parent[p] \in Stayers
      BY <1>1 DEF SinceThen
    <3>2. /\ p \in Procs /\ parent[p] \in Nat /\ parent'[p] \in Nat
          /\ then.parent[p] \in Nat
      BY <1>7, <1>14, <3>1
    <3>3. parent'[p] # parent[p] => parent'[p] < parent[p]
      BY <1>2, <3>1
    <3> QED BY <3>1, <3>2, <3>3
  <2>5. \A x \in Procs : life'[x] = "gone" /\ left[x] >= began /\ after'[x] = 0 =>
          \A q \in Stayers : q \in Listed' => q < x
    BY <1>1, <1>2, <1>3, <1>5 DEF SinceThen
  <2> QED BY <1>3, <1>4, <2>1, <2>2, <2>3, <2>4, <2>5 DEF SinceThen
<1>12. NodesInv(left, began)'
  <2>1. \A j \in 1 .. Len(nodes) :
          /\ nodes[j].proc \in Created' /\ pid'[nodes[j].proc] = pid[nodes[j].proc]
    BY <1>1, <1>2 DEF NodesInv
  <2>2. ASSUME NEW j \in 1 .. Len(nodes), NEW x, x = nodes[j].proc,
               x \in Stayers, parent'[x] = then.parent[x], parent'[x] # 0
        PROVE  nodes[j].ppid = pid'[parent'[x]]
    <3>1. x \in Created
      BY <1>1, <2>2 DEF NodesInv
    <3>2. parent'[x] = parent[x]
      <4>1. SUFFICES ASSUME parent'[x] # parent[x] PROVE FALSE
        OBVIOUS
      <4>2. parent'[x] < parent[x]
        BY <1>2, <3>1, <4>1
      <4>3. parent[x] <= then.parent[x]
        BY <1>1, <2>2 DEF SinceThen
      <4>4. parent[x] \in Nat /\ parent'[x] \in Nat
        BY <1>7, <1>14, <3>1
      <4> QED BY <2>2, <4>2, <4>3, <4>4
    <3>3. parent[x] \in Created
      BY <1>9, <2>2, <3>1, <3>2
    <3>4. pid'[parent[x]] = pid[parent[x]]
      BY <1>2, <3>3
    <3>5. nodes[j].ppid = pid[parent[x]]
      BY <1>1, <2>2, <3>2 DEF NodesInv
    <3> QED BY <3>2, <3>4, <3>5
  <2> QED BY <1>1, <1>3, <1>4, <2>1, <2>2 DEF NodesInv
<1>13. WalkInv(left, began)'
  <2>1. ~ Walked'
    BY <1>3 DEF Walked
  <2>2. Walking' = Walking
    BY <1>3 DEF Walking
  <2> QED BY <1>1, <1>2, <1>3, <1>4, <2>1, <2>2 DEF WalkInv
<1> QED BY <1>1, <1>10, <1>11, <1>12, <1>13 DEF Fits

LEMMA ReleaseFits ==
    ASSUME TypeOK, KernelInv, NEW p \in Procs, Release(p),
           pc \in {"idle", "next", "read"},
           NEW left, NEW now, NEW began, Fits(left, now, began)
    PROVE  \E new : Fits(new, now + 1, began)'
<1>1. /\ left \in [Procs -> Nat] /\ now \in Nat /\ began \in 0 .. now
      /\ LeftInOrder(left, now) /\ SinceThen(left, began)
      /\ NodesInv(left, began) /\ WalkInv(left, began)
  BY DEF Fits
<1>2. /\ \A q \in Procs : life'[q] = "gone" <=> q = p \/ life[q] = "gone"
      /\ life[p] = "zombie"
      /\ \A q \in Procs : q # p => after'[q] = after[q]
      /\ after'[p] = Follower(p)
      /\ p \in Listed
      /\ \A c \in Listed : parent[c] # p
  BY DEF Release, TypeOK
<1>3. UNCHANGED <<pid, parent, pc, at, nodes, ret, then>>
  BY DEF Release, call
<1>4. Stayers' = Stayers /\ Captured' = Captured
  BY <1>3 DEF Stayers, Captured
<1>5. Created' = Created /\ Listed' = Listed \ {p}
  BY ReleaseKernel
<1>6. /\ Created \subseteq Procs /\ Procs \subseteq Nat
      /\ Listed = {q \in Created : life[q] # "gone"}
      /\ list \in Seq(Procs) /\ Ascending(list)
  BY ListedIs DEF Created, Procs
<1>7. \A q \in Procs : /\ left[q] \in Nat /\ left[q] <= now
                       /\ life[q] = "gone" <=> left[q] < now
                       /\ life[q] # "gone" <=> left[q] = now
  BY <1>1 DEF LeftInOrder
<1>8. PICK new : new = [q \in Procs |-> IF q = p \/ life[q] = "gone"
                                        THEN left[q] ELSE now + 1]
  OBVIOUS
<1>9. \A q \in Procs : new[q] = IF q = p \/ life[q] = "gone" THEN left[q] ELSE now + 1
  BY <1>8
<1>10. new \in [Procs -> Nat] /\ now + 1 \in Nat /\ began \in 0 .. now + 1
  BY <1>1, <1>7, <1>8
<1>11. \A q \in Procs : new[q] \in Nat /\ left[q] <= new[q] /\ new[q] <= now + 1
  BY <1>1, <1>7, <1>9
<1>12. ASSUME NEW q \in Procs, NEW r \in Procs, left[q] < left[r]
       PROVE  new[q] < new[r]
  <2>1. left[q] < now
    BY <1>1, <1>7, <1>12
  <2>2. new[q] = left[q]
    BY <1>7, <1>9, <2>1
  <2> QED BY <1>7, <1>11, <1>12, <2>2
<1>13. LeftInOrder(new, now + 1)'
  <2>1. \A q \in Procs : IF life'[q] = "gone" THEN new[q] < now + 1 ELSE new[q] = now + 1
    BY <1>1, <1>2, <1>7, <1>9
  <2>2. ASSUME NEW c \in Created, parent[c] # 0 PROVE new[c] <= new[parent[c]]
    <3>1. parent[c] \in Procs /\ left[c] <= left[parent[c]] /\ c \in Procs
      BY <1>1, <1>6, <2>2 DEF KernelInv, LeftInOrder
    <3>2. CASE parent[c] # p /\ life[parent[c]] # "gone"
      BY <1>9, <1>11, <3>1, <3>2
    <3>3. CASE parent[c] = p
      <4>1. life[c] = "gone"
        BY <1>2, <1>6, <3>3
      <4> QED BY <1>7, <1>9, <3>1, <3>3, <4>1
    <3>4. CASE life[parent[c]] = "gone"
      <4>1. left[c] < now
        BY <1>1, <1>7, <3>1, <3>4
      <4>2. life[c] = "gone"
        BY <1>7, <3>1, <4>1
      <4> QED BY <1>9, <3>1, <3>4, <4>2
    <3> QED BY <3>2, <3>3, <3>4
  <2>3. ASSUME NEW x \in Procs, life'[x] = "gone", after'[x] # 0
        PROVE  /\ x < after'[x] /\ after'[x] \in Created
               /\ new[x] < new[after'[x]]
               /\ \A q \in Procs : x < q /\ q < after'[x] => new[q] < new[x]
    <3>1. CASE x = p
      <4>1. PICK f : f = Follower(p)
        OBVIOUS
      <4>2. /\ f \in Listed /\ p < f
            /\ \A q \in Listed : q <= p \/ f <= q
        BY <1>2, <1>6, <2>3, <3>1, <4>1, FollowerIs
      <4>3. f \in Created /\ f \in Procs /\ life[f] # "gone" /\ f # p
        BY <1>6, <4>2
      <4>4. new[p] = now /\ new[f] = now + 1
        BY <1>2, <1>7, <1>9, <4>3
      <4>5. ASSUME NEW q \in Procs, p < q, q < f PROVE new[q] < new[p]
        <5>1. q \in Created
          BY <4>3, <4>5 DEF KernelInv
        <5>2. q \notin Listed
          BY <1>6, <4>2, <4>3, <4>5
        <5>3. life[q] = "gone"
          BY <1>6, <5>1, <5>2
        <5> QED BY <1>7, <1>9, <4>4, <5>3
      <4>6. new[p] < new[f]
        BY <1>1, <4>4
      <4> QED BY <1>2, <3>1, <4>1, <4>2, <4>3, <4>5, <4>6
    <3>2. CASE x # p
      <4>1. life[x] = "gone" /\ after'[x] = after[x]
        BY <1>2, <2>3, <3>2
      <4>2. /\ x < after[x] /\ after[x] \in Created
            /\ left[x] < left[after[x]]
            /\ \A q \in Procs : x < q /\ q < after[x] => left[q] < left[x]
        BY <1>1, <2>3, <4>1 DEF LeftInOrder
      <4> QED BY <1>6, <1>12, <4>1, <4>2
    <3> QED BY <3>1, <3>2
  <2> QED BY <1>3, <1>5, <2>1, <2>2, <2>3 DEF LeftInOrder
<1>14. SinceThen(new, began)'
  <2>1. \A x \in Stayers : x \in Created /\ new[x] >= began
    <3> SUFFICES ASSUME NEW x \in Stayers PROVE x \in Created /\ new[x] >= began
      OBVIOUS
    <3>1. x \in Created /\ left[x] >= began
      BY <1>1 DEF SinceThen
    <3> QED BY <1>1, <1>6, <1>11, <3>1
  <2>2. ASSUME NEW x \in Created, NEW q \in Stayers, x <= q, new[x] >= began
        PROVE  x \in Stayers
    <3>1. left[x] >= began
      <4>1. SUFFICES ASSUME left[x] < began PROVE FALSE
        BY <1>1, <1>6, <1>7
      <4>2. x \in Procs /\ left[x] < now
        BY <1>1, <1>6, <1>7, <4>1
      <4>3. new[x] = left[x]
        BY <1>7, <1>9, <4>2
      <4> QED BY <1>1, <1>7, <2>2, <4>1, <4>2, <4>3
    <3> QED BY <1>1, <2>2, <3>1 DEF SinceThen
  <2>3. ASSUME NEW x \in Procs, life'[x] = "gone", new[x] >= began, after'[x] = 0,
               NEW q \in Stayers, q \in Listed'
        PROVE  q < x
    <3>1. CASE x = p
      <4>1. \A r \in Listed : r <= p
        BY <1>2, <1>6, <2>3, <3>1, FollowerIs DEF Procs
      <4> QED BY <1>5, <1>6, <2>3, <3>1, <4>1
    <3>2. CASE x # p
      <4>1. life[x] = "gone" /\ after[x] = 0 /\ left[x] >= began /\ q \in Listed
        BY <1>2, <1>5, <1>9, <2>3, <3>2
      <4> QED BY <1>1, <4>1 DEF SinceThen
    <3> QED BY <3>1, <3>2
  <2>4. /\ \A x, q \in Stayers : pid[x] = pid[q] => x = q
        /\ \A x \in Stayers :
            /\ then.parent[x] = 0 \/ then.parent[x] \in Stayers
            /\ parent[x] <= then.parent[x]
    BY <1>1 DEF SinceThen
  <2> QED BY <1>3, <1>4, <1>5, <2>1, <2>2, <2>3, <2>4 DEF SinceThen
<1>15. NodesInv(new, began)'
  <2>1. ASSUME NEW j \in 1 .. Len(nodes) PROVE new[nodes[j].proc] >= began
    <3>1. PICK x : x = nodes[j].proc
      OBVIOUS
    <3>2. x \in Created /\ left[x] >= began
      BY <1>1, <3>1 DEF NodesInv
    <3>3. new[x] >= began
      BY <1>1, <1>6, <1>11, <3>2
    <3> QED BY <3>1, <3>3
  <2> QED BY <1>1, <1>3, <1>4, <1>5, <2>1 DEF NodesInv
<1>16. WalkInv(new, began)'
  <2>1. ~ Walked'
    BY <1>3 DEF Walked
  <2>2. Walking' = Walking
    BY <1>3 DEF Walking
  <2>3. ASSUME Walking, at # 0
        PROVE  /\ at \in Created /\ new[at] >= began
               /\ \A q \in Procs : q < at \/ (q = at /\ pc = "next") =>
                   q \in Captured \/ new[q] < new[at]
    <3>1. /\ at \in Created /\ left[at] >= began
          /\ \A q \in Procs : q < at \/ (q = at /\ pc = "next") =>
              q \in Captured \/ left[q] < left[at]
      BY <1>1, <2>3 DEF WalkInv
    <3>2. new[at] >= began
      BY <1>1, <1>6, <1>11, <3>1
    <3> QED BY <1>6, <1>12, <3>1, <3>2
  <2> QED BY <1>1, <1>3, <1>4, <1>5, <2>1, <2>2, <2>3 DEF WalkInv
<1>17. Fits(new, now + 1, began)'
  BY <1>10, <1>13, <1>14, <1>15, <1>16 DEF Fits
<1> QED BY <1>17

-----------------------------------------------------------------------------
(* Steps of the call. *)

LEMMA FitsStays ==
    ASSUME UNCHANGED kernel, NEW left, NEW now, NEW began
    PROVE  /\ LeftInOrder(left, now) => LeftInOrder(left, now)'
           /\ UNCHANGED then /\ SinceThen(left, began) => SinceThen(left, began)'
           /\ UNCHANGED <<nodes, then>> /\ NodesInv(left, began)
                => NodesInv(left, began)'
<1>1. UNCHANGED <<list, after, life, pid, parent>>
  BY DEF kernel
<1>2. Created' = Created /\ Listed' = Listed
  BY <1>1 DEF Created, Listed
<1>3. UNCHANGED then => Stayers' = Stayers
  BY DEF Stayers
<1>4. LeftInOrder(left, now) => LeftInOrder(left, now)'
  BY <1>1, <1>2 DEF LeftInOrder
<1>5. UNCHANGED then /\ SinceThen(left, began) => SinceThen(left, began)'
  BY <1>1, <1>2, <1>3 DEF SinceThen
<1>6. UNCHANGED <<nodes, then>> /\ NodesInv(left, began) => NodesInv(left, began)'
  BY <1>1, <1>2, <1>3 DEF NodesInv
<1> QED BY <1>4, <1>5, <1>6

(* A step that leaves kernel, nodes and then alone. *)
LEMMA QuietFits ==
    ASSUME UNCHANGED <<kernel, nodes, then>>, ~ Walking', Walked' => Walked,
           NEW left, NEW now, NEW began, Fits(left, now, began)
    PROVE  Fits(left, now, began)'
<1>1. UNCHANGED kernel /\ UNCHANGED <<nodes, then>>
  OBVIOUS
<1>2. Stayers' = Stayers /\ Captured' = Captured /\ Listed' = Listed
  BY <1>1 DEF Stayers, Captured, Listed, kernel
<1>3. WalkInv(left, began)'
  BY <1>2 DEF WalkInv, Fits
<1> QED BY <1>1, <1>3, FitsStays DEF Fits

LEMMA BeginFits ==
    ASSUME TypeOK, KernelInv, CallInv, Begin,
           NEW left, NEW now, NEW began, Fits(left, now, began)
    PROVE  Fits(left, now, now)'
<1>1. left \in [Procs -> Nat] /\ now \in Nat /\ LeftInOrder(left, now)
  BY DEF Fits
<1>2. /\ UNCHANGED kernel /\ UNCHANGED nodes
      /\ then' = [list |-> list, parent |-> parent]
      /\ pc = "idle" /\ pc' = "next" /\ at' = 0
  BY DEF Begin
<1>3. nodes = <<>> /\ nodes' = <<>> /\ Len(nodes') = 0
  BY <1>2 DEF CallInv
<1>4. Created' = Created /\ Listed' = Listed /\ UNCHANGED <<pid, parent, life, after>>
  BY <1>2, KernelStays DEF kernel
<1>5. Stayers' = Listed
  BY <1>2 DEF Stayers, Listed
<1>6. Listed = {p \in Created : life[p] # "gone"}
  BY ListedIs
<1>7. Created \subseteq Procs /\ Procs \subseteq Nat
  BY DEF Created, Procs
<1>8. \A q \in Procs : /\ left[q] \in Nat /\ left[q] <= now
                       /\ life[q] = "gone" <=> left[q] < now
                       /\ life[q] # "gone" <=> left[q] = now
  BY <1>1 DEF LeftInOrder
<1>9. \A p \in Listed : p \in Created /\ left[p] >= now
  BY <1>1, <1>6, <1>7, <1>8
<1>10. \A p \in Created : left[p] >= now => p \in Listed
  BY <1>1, <1>6, <1>7, <1>8
<1>11. ASSUME NEW p \in Listed, parent[p] # 0 PROVE parent[p] \in Listed
  <2>1. parent[p] \in Procs /\ parent[p] < p /\ left[p] <= left[parent[p]]
    BY <1>1, <1>7, <1>9, <1>11 DEF KernelInv, LeftInOrder
  <2>2. parent[p] \in Created
    BY <1>7, <1>9, <2>1 DEF KernelInv
  <2>3. left[parent[p]] >= now
    <3>1. PICK d : d = parent[p]
      OBVIOUS
    <3>2. p \in Procs /\ left[p] >= now /\ left[p] <= left[d] /\ d \in Procs
      BY <1>7, <1>9, <2>1, <3>1
    <3>3. left[d] >= now
      BY <1>1, <1>8, <3>2
    <3> QED BY <3>1, <3>3
  <2> QED BY <1>10, <2>2, <2>3
<1>12. \A x \in Procs : life[x] = "gone" => ~ (left[x] >= now)
  BY <1>1, <1>8
<1>13. SinceThen(left, now)'
  <2>1. \A p, q \in Listed : pid[p] = pid[q] => p = q
    BY DEF KernelInv
  <2>2. \A p \in Listed : parent[p] <= parent[p]
    <3>1. parent \in [Procs -> Procs \union {0}] /\ Procs \union {0} \subseteq Nat
      BY <1>7 DEF TypeOK
    <3>2. \A p \in Listed : p \in Procs
      BY <1>7, <1>9
    <3>3. \A p \in Listed : parent[p] \in Nat
      BY <3>1, <3>2
    <3> QED BY <3>3
  <2> QED BY <1>2, <1>4, <1>5, <1>9, <1>10, <1>11, <1>12, <2>1, <2>2 DEF SinceThen
<1>14. NodesInv(left, now)'
  BY <1>3 DEF NodesInv
<1>15. WalkInv(left, now)'
  BY <1>2, <1>3 DEF WalkInv, Walking, Walked
<1>16. LeftInOrder(left, now)'
  BY <1>1, <1>2, FitsStays
<1> QED BY <1>1, <1>13, <1>14, <1>15, <1>16 DEF Fits

LEMMA AdvanceFits ==
    ASSUME TypeOK, KernelInv, Advance,
           NEW left, NEW now, NEW began, Fits(left, now, began)
    PROVE  Fits(left, now, began)'
<1>1. /\ left \in [Procs -> Nat] /\ now \in Nat /\ began \in 0 .. now
      /\ LeftInOrder(left, now) /\ SinceThen(left, began)
      /\ NodesInv(left, began) /\ WalkInv(left, began)
  BY DEF Fits
<1>2. PICK f : f = Follower(at)
  OBVIOUS
<1>3. /\ UNCHANGED kernel /\ UNCHANGED <<nodes, ret, then>>
      /\ pc = "next" /\ at' = f /\ pc' = IF f = 0 THEN "link" ELSE "read"
  BY <1>2 DEF Advance
<1>4. /\ Listed = {p \in Created : life[p] # "gone"} /\ init \in Listed
      /\ list \in Seq(Procs) /\ Ascending(list)
  BY ListedIs
<1>5. Created \subseteq Procs /\ Procs \subseteq Nat /\ at \in Procs \union {0}
  BY DEF Created, Procs, TypeOK
<1>6. \A q \in Procs : /\ left[q] \in Nat /\ left[q] <= now
                       /\ life[q] = "gone" <=> left[q] < now
                       /\ life[q] # "gone" <=> left[q] = now
  BY <1>1 DEF LeftInOrder
<1>7. \A j \in 1 .. Len(nodes) : nodes[j].proc \in Procs /\ nodes[j].proc <= at
  BY <1>1, <1>3, <1>5 DEF NodesInv, WalkInv, Walking
<1>8. at # 0 =>
        /\ at \in Created /\ left[at] >= began /\ at \in Procs
        /\ \A q \in Procs : q <= at => q \in Captured \/ left[q] < left[at]
  BY <1>1, <1>3, <1>5 DEF WalkInv, Walking
<1>9. \A q \in Listed : q \in Procs /\ left[q] = now
  BY <1>4, <1>5, <1>6
(* What has to hold of the process the walk goes to, or at its end. *)
<1> DEFINE Next1 == /\ f \in Created /\ left[f] >= began /\ at < f
                    /\ \A q \in Procs : q < f => q \in Captured \/ left[q] < left[f]
           Last1 == Stayers \cap Listed \subseteq Captured
<1>10. IF f = 0 THEN Last1 ELSE Next1
  <2>1. CASE at = 0
    <3>1. f = Head(list)
      BY <1>2, <2>1 DEF Follower
    <3>2. list # <<>> /\ f = list[1] /\ 1 \in 1 .. Len(list)
      <4>1. \E i \in 1 .. Len(list) : list[i] = init
        BY <1>4 DEF Listed, ToSet
      <4> QED BY <1>4, <3>1, <4>1
    <3>3. f \in Listed
      BY <3>2 DEF Listed, ToSet
    <3>4. f = init
      <4>1. PICK i \in 1 .. Len(list) : list[i] = init
        BY <1>4 DEF Listed, ToSet
      <4>2. f \in Procs
        BY <1>9, <3>3
      <4>3. i # 1 => f < init
        BY <1>4, <3>2, <4>1 DEF Ascending
      <4> QED BY <3>2, <4>1, <4>2, <4>3 DEF init, Procs
    <3>5. \A q \in Procs : ~ (q < f)
      BY <3>4 DEF Procs, init
    <3>6. f # 0 /\ at < f
      BY <2>1, <3>4 DEF init
    <3> QED BY <1>1, <1>4, <1>9, <3>3, <3>5, <3>6
  <2>2. CASE at \in Listed
    <3>1. at # 0 /\ at \in Procs
      BY <1>9, <2>2 DEF Procs
    <3>2. \/ f = 0 /\ \A q \in Listed : q <= at
          \/ /\ f \in Listed /\ at < f
             /\ \A q \in Listed : q <= at \/ f <= q
      BY <1>2, <1>4, <2>2, FollowerIs
    <3>3. CASE f = 0 /\ \A q \in Listed : q <= at
      <4>1. \A q \in Listed : q \in Captured
        BY <1>1, <1>6, <1>8, <1>9, <3>1, <3>3
      <4> QED BY <3>3, <4>1
    <3>4. CASE f \in Listed /\ at < f /\ \A q \in Listed : q <= at \/ f <= q
      <4>1. f \in Created /\ f \in Procs /\ left[f] = now
        BY <1>4, <1>9, <3>4
      <4>2. ASSUME NEW q \in Procs, q < f PROVE q \in Captured \/ left[q] < left[f]
        <5>1. CASE q <= at
          BY <1>1, <1>6, <1>8, <3>1, <4>1, <5>1
        <5>2. CASE ~ (q <= at)
          <6>1. q \notin Listed
            BY <1>5, <3>4, <4>1, <4>2, <5>2
          <6>2. q \in Created
            BY <4>1, <4>2 DEF KernelInv
          <6> QED BY <1>4, <1>6, <4>1, <6>1, <6>2
        <5> QED BY <5>1, <5>2
      <4>3. f # 0
        BY <4>1 DEF Procs
      <4> QED BY <1>1, <3>4, <4>1, <4>2, <4>3
    <3> QED BY <3>2, <3>3, <3>4
  <2>3. CASE at # 0 /\ at \notin Listed
    <3>1. at \in Procs /\ life[at] = "gone" /\ f = after[at]
      BY <1>2, <1>4, <1>8, <2>3 DEF Follower
    <3>2. CASE f = 0
      <4>1. \A q \in Stayers : q \in Listed => q < at
        BY <1>1, <1>8, <2>3, <3>1, <3>2 DEF SinceThen
      <4>2. ASSUME NEW q \in Stayers \cap Listed PROVE q \in Captured
        <5>1. q \in Procs /\ left[q] = now /\ q < at
          BY <1>9, <4>1
        <5>2. q <= at
          BY <1>5, <3>1, <5>1
        <5> QED BY <1>1, <1>6, <1>8, <2>3, <3>1, <5>1, <5>2
      <4> QED BY <3>2, <4>2
    <3>3. CASE f # 0
      <4>1. /\ at < f /\ f \in Created /\ f \in Procs
            /\ left[at] < left[f]
            /\ \A q \in Procs : at < q /\ q < f => left[q] < left[at]
        BY <1>1, <1>5, <3>1, <3>3 DEF LeftInOrder
      <4>2. left[f] >= began
        BY <1>1, <1>6, <1>8, <2>3, <4>1
      <4>3. ASSUME NEW q \in Procs, q < f PROVE q \in Captured \/ left[q] < left[f]
        <5>1. q \in Captured \/ left[q] < left[at]
          BY <1>5, <1>8, <2>3, <4>1, <4>3
        <5> QED BY <1>6, <3>1, <4>1, <5>1
      <4> QED BY <3>3, <4>1, <4>2, <4>3
    <3> QED BY <3>2, <3>3
  <2> QED BY <2>1, <2>2, <2>3
<1>11. Created' = Created /\ Listed' = Listed /\ Stayers' = Stayers /\ Captured' = Captured
  BY <1>3, KernelStays DEF Stayers, Captured
<1>12. WalkInv(left, began)'
  <2>1. CASE f = 0
    <3>1. ~ Walking' /\ Last1
      BY <1>3, <1>10, <2>1 DEF Walking
    <3> QED BY <1>11, <3>1 DEF WalkInv
  <2>2. CASE f # 0
    <3>1. Next1 /\ pc' = "read"
      BY <1>3, <1>10, <2>2
    <3>2. ~ Walked'
      BY <3>1 DEF Walked
    <3>3. \A j \in 1 .. Len(nodes) : nodes[j].proc <= f /\ nodes[j].proc < f
      <4> SUFFICES ASSUME NEW j \in 1 .. Len(nodes), NEW x, x = nodes[j].proc
                   PROVE  x <= f /\ x < f
        OBVIOUS
      <4>1. x \in Procs /\ x <= at
        BY <1>7
      <4>2. at < f /\ f \in Procs
        BY <1>5, <3>1
      <4>3. x \in Nat /\ at \in Nat /\ f \in Nat
        BY <1>5, <4>1, <4>2
      <4> HIDE DEF Next1, Last1
      <4> QED BY <4>1, <4>2, <4>3
    <3> QED BY <1>3, <1>11, <2>2, <3>1, <3>2, <3>3 DEF WalkInv
  <2> QED BY <2>1, <2>2
<1> QED BY <1>1, <1>3, <1>12, FitsStays DEF Fits

LEMMA CaptureFits ==
    ASSUME TypeOK, KernelInv, Capture,
           NEW left, NEW now, NEW began, Fits(left, now, began)
    PROVE  /\ Fits(left, now, began)'
           /\ nodes' \in Seq(Node) /\ Len(nodes') <= MaxTasks
<1>1. /\ left \in [Procs -> Nat] /\ now \in Nat /\ began \in 0 .. now
      /\ LeftInOrder(left, now) /\ SinceThen(left, began)
      /\ NodesInv(left, began) /\ WalkInv(left, began)
  BY DEF Fits
<1>2. PICK m : m = [proc |-> at, pid |-> pid[at],
                    ppid |-> IF parent[at] = 0 THEN 0 ELSE pid[parent[at]]]
  OBVIOUS
<1>3. /\ UNCHANGED kernel /\ UNCHANGED <<at, ret, then>>
      /\ pc = "read" /\ pc' = "next" /\ nodes' = Append(nodes, m)
  BY <1>2 DEF Capture
<1>4. Created \subseteq Procs /\ Procs \subseteq Nat
  BY DEF Created, Procs
<1>5. /\ at \in Created /\ at \in Procs /\ left[at] >= began
      /\ \A q \in Procs : q < at => q \in Captured \/ left[q] < left[at]
      /\ \A j \in 1 .. Len(nodes) : nodes[j].proc < at
  BY <1>1, <1>3, <1>4 DEF WalkInv, Walking
<1>6. \A q \in Procs : left[q] \in Nat /\ left[q] <= now
  BY <1>1 DEF LeftInOrder
<1>7. \A q \in Created : pid[q] \in 1 .. MaxPid
  BY DEF KernelInv
<1>8. parent[at] # 0 => /\ parent[at] \in Created /\ parent[at] \in Procs
                        /\ parent[at] < at /\ left[at] <= left[parent[at]]
  <2> SUFFICES ASSUME parent[at] # 0
               PROVE  /\ parent[at] \in Created /\ parent[at] \in Procs
                      /\ parent[at] < at /\ left[at] <= left[parent[at]]
    OBVIOUS
  <2>1. parent[at] \in Procs /\ parent[at] < at
    BY <1>4, <1>5 DEF KernelInv
  <2>2. parent[at] \in Created
    BY <1>5, <2>1 DEF KernelInv
  <2> QED BY <1>1, <1>5, <2>1, <2>2 DEF LeftInOrder
<1>9. m.proc = at /\ m.pid = pid[at]
      /\ m.ppid = IF parent[at] = 0 THEN 0 ELSE pid[parent[at]]
  BY <1>2
<1>10. m.ppid \in 0 .. MaxPid /\ (m.ppid = 0 <=> parent[at] = 0)
  BY <1>7, <1>8, <1>9, SnapshotAssumption
<1>11. m \in Node
  <2>1. pid[at] \in 1 .. MaxPid
    BY <1>5, <1>7
  <2> QED BY <1>2, <1>5, <1>9, <1>10, <2>1 DEF Node
<1>12. PICK n \in Nat : n = Len(nodes)
  BY DEF TypeOK
<1>13. PICK new : new = nodes'
  OBVIOUS
<1>14. /\ new \in Seq(Node) /\ Len(new) = n + 1
       /\ \A j \in 1 .. n : new[j] = nodes[j]
       /\ new[n + 1] = m
  BY <1>3, <1>11, <1>12, <1>13, AppendProperties DEF TypeOK
<1>15. \A j \in 1 .. n + 1 : j \in 1 .. n \/ j = n + 1
  BY <1>12
<1>16. 1 .. n \subseteq 1 .. n + 1 /\ n + 1 \in 1 .. n + 1
  BY <1>12
<1>17. \A j \in 1 .. n : nodes[j] \in Node /\ nodes[j].proc \in Nat
  <2>1. \A j \in 1 .. n : nodes[j] \in Node
    BY <1>12, SeqItem DEF TypeOK
  <2> QED BY <1>4, <2>1 DEF Node
<1>18. n < at
  <2>1. CASE n = 0
    BY <1>5, <2>1 DEF Procs
  <2>2. CASE n # 0
    <3>1. n \in 1 .. n
      BY <1>12, <2>2
    <3>2. nodes[n].proc >= n /\ nodes[n].proc < at
      BY <1>1, <1>5, <1>12, <3>1 DEF NodesInv
    <3> QED BY <1>4, <1>5, <1>12, <1>17, <3>1, <3>2
  <2> QED BY <2>1, <2>2
<1>19. \A i, j \in 1 .. n + 1 : i < j => new[i].proc < new[j].proc
  <2> SUFFICES ASSUME NEW i \in 1 .. n + 1, NEW j \in 1 .. n + 1, i < j
               PROVE  new[i].proc < new[j].proc
    OBVIOUS
  <2>1. i \in 1 .. n
    BY <1>12
  <2>2. CASE j \in 1 .. n
    BY <1>1, <1>12, <1>14, <2>1, <2>2 DEF NodesInv
  <2>3. CASE j = n + 1
    BY <1>5, <1>9, <1>12, <1>14, <2>1, <2>3
  <2> QED BY <1>15, <2>2, <2>3
<1>20. new[1].proc = init
  <2>1. CASE n = 0
    <3>1. Captured = {}
      BY <1>12, <2>1 DEF Captured
    <3>2. init \in Procs /\ left[init] = now
      BY <1>1, SnapshotAssumption DEF KernelInv, LeftInOrder, Procs, init
    <3>3. ~ (init < at)
      BY <1>5, <1>6, <3>1, <3>2
    <3>4. at = init
      BY <1>5, <3>3 DEF init, Procs
    <3> QED BY <1>9, <1>14, <2>1, <3>4
  <2>2. CASE n # 0
    <3>1. 1 \in 1 .. n /\ nodes # <<>>
      BY <1>12, <2>2
    <3> QED BY <1>1, <1>14, <3>1 DEF NodesInv
  <2> QED BY <2>1, <2>2
<1>21. \A j \in 1 .. n + 1 :
         /\ new[j].proc >= j
         /\ new[j].proc \in Created /\ left[new[j].proc] >= began
         /\ new[j].pid = pid[new[j].proc]
         /\ new[j].ppid = 0 => new[j].proc <= 2
  <2> SUFFICES ASSUME NEW j \in 1 .. n + 1
        PROVE  /\ new[j].proc >= j
               /\ new[j].proc \in Created /\ left[new[j].proc] >= began
               /\ new[j].pid = pid[new[j].proc]
               /\ new[j].ppid = 0 => new[j].proc <= 2
    OBVIOUS
  <2>1. CASE j \in 1 .. n
    BY <1>1, <1>12, <1>14, <2>1 DEF NodesInv
  <2>2. CASE j = n + 1
    <3>1. new[j] = m
      BY <1>14, <2>2
    <3>2. parent[at] = 0 => at <= 2
      BY <1>4, <1>5 DEF KernelInv, Procs
    <3>3. at >= n + 1
      BY <1>4, <1>5, <1>12, <1>18
    <3> QED BY <1>5, <1>9, <1>10, <2>2, <3>1, <3>2, <3>3
  <2> QED BY <1>15, <2>1, <2>2
<1>22. \A j \in 1 .. n + 1 :
         new[j].ppid # 0 => \E i \in 1 .. j - 1 : new[i].pid = new[j].ppid
  <2> SUFFICES ASSUME NEW j \in 1 .. n + 1, new[j].ppid # 0
               PROVE  \E i \in 1 .. j - 1 : new[i].pid = new[j].ppid
    OBVIOUS
  <2>1. CASE j \in 1 .. n
    <3>1. PICK i \in 1 .. j - 1 : nodes[i].pid = nodes[j].ppid
      BY <1>1, <1>12, <1>14, <2>1 DEF NodesInv
    <3>2. i \in 1 .. n
      BY <1>12, <2>1
    <3> QED BY <1>14, <2>1, <3>1, <3>2
  <2>2. CASE j = n + 1
    <3>1. new[j] = m /\ parent[at] # 0 /\ m.ppid = pid[parent[at]]
      BY <1>9, <1>10, <1>14, <2>2
    <3>2. PICK d : d = parent[at]
      OBVIOUS
    <3>3. d \in Procs /\ d < at /\ left[at] <= left[d]
      BY <1>8, <3>1, <3>2
    <3>4. d \in Captured
      BY <1>5, <1>6, <3>3
    <3>5. PICK i \in 1 .. n : nodes[i].proc = d
      BY <1>12, <3>4 DEF Captured
    <3>6. nodes[i].pid = pid[d]
      BY <1>1, <1>12, <3>5 DEF NodesInv
    <3>7. i \in 1 .. j - 1
      BY <1>12, <2>2
    <3> QED BY <1>14, <3>1, <3>2, <3>5, <3>6, <3>7
  <2> QED BY <1>15, <2>1, <2>2
<1>23. \A j \in 1 .. n + 1 :
         new[j].proc \in Stayers /\ parent[new[j].proc] = then.parent[new[j].proc]
         /\ parent[new[j].proc] # 0 => new[j].ppid = pid[parent[new[j].proc]]
  <2> SUFFICES ASSUME NEW j \in 1 .. n + 1, new[j].proc \in Stayers,
                      parent[new[j].proc] = then.parent[new[j].proc],
                      parent[new[j].proc] # 0
               PROVE  new[j].ppid = pid[parent[new[j].proc]]
    OBVIOUS
  <2>1. CASE j \in 1 .. n
    BY <1>1, <1>12, <1>14, <2>1 DEF NodesInv
  <2>2. CASE j = n + 1
    BY <1>9, <1>14, <2>2
  <2> QED BY <1>15, <2>1, <2>2
<1>24. Created' = Created /\ Listed' = Listed /\ Stayers' = Stayers
       /\ UNCHANGED <<pid, parent>>
  BY <1>3, KernelStays DEF Stayers, kernel
<1>25. NodesInv(left, began)'
  BY <1>3, <1>13, <1>14, <1>19, <1>20, <1>21, <1>22, <1>23, <1>24 DEF NodesInv
<1>26. Captured' = Captured \union {at}
  <2>1. Captured' = {new[j].proc : j \in 1 .. n + 1}
    BY <1>13, <1>14 DEF Captured
  <2>2. Captured = {nodes[j].proc : j \in 1 .. n}
    BY <1>12 DEF Captured
  <2>3. \A j \in 1 .. n : new[j].proc = nodes[j].proc
    BY <1>14
  <2>4. new[n + 1].proc = at
    BY <1>9, <1>14
  <2>5. PICK last : last = n + 1
    OBVIOUS
  <2>6. 1 .. n + 1 = 1 .. n \union {last} /\ new[last].proc = at
    BY <1>12, <2>4, <2>5
  <2> QED BY ONLY <2>1, <2>2, <2>3, <2>6
<1>27. \A j \in 1 .. n + 1 : new[j].proc <= at
  <2> SUFFICES ASSUME NEW j \in 1 .. n + 1 PROVE new[j].proc <= at
    OBVIOUS
  <2>1. CASE j \in 1 .. n
    <3>1. new[j].proc = nodes[j].proc /\ nodes[j].proc < at
      BY <1>5, <1>12, <1>14, <2>1
    <3>2. nodes[j].proc \in Nat /\ at \in Nat
      BY <1>4, <1>5, <1>17, <2>1
    <3> QED BY <3>1, <3>2
  <2>2. CASE j = n + 1
    BY <1>4, <1>5, <1>9, <1>14, <2>2
  <2> QED BY <1>15, <2>1, <2>2
<1>28. WalkInv(left, began)'
  <2>1. ~ Walked'
    BY <1>3 DEF Walked
  <2>2. \A q \in Procs : q < at \/ q = at => q \in Captured' \/ left[q] < left[at]
    BY <1>5, <1>26
  <2> QED BY <1>3, <1>5, <1>13, <1>14, <1>24, <1>27, <2>1, <2>2 DEF WalkInv
<1>29. Fits(left, now, began)'
  BY <1>1, <1>3, <1>25, <1>28, FitsStays DEF Fits
<1>30. n + 1 <= MaxTasks
  BY <1>5, <1>12, <1>18, SnapshotAssumption DEF Procs
<1> QED BY <1>13, <1>14, <1>29, <1>30

-----------------------------------------------------------------------------
(* Linking. *)

LEMMA FirstWith ==
    ASSUME TypeOK, NEW n, NodesWith(n) # {}
    PROVE  /\ Min(NodesWith(n)) \in 1 .. Len(nodes)
           /\ nodes[Min(NodesWith(n))].pid = n
           /\ \A i \in 1 .. Len(nodes) : nodes[i].pid = n => Min(NodesWith(n)) <= i
<1>1. NodesWith(n) \subseteq Nat
  BY DEF NodesWith
<1>2. PICK S : S = NodesWith(n)
  OBVIOUS
<1>3. Min(S) \in S /\ \A y \in S : Min(S) <= y
  BY <1>1, <1>2, MinOf
<1> QED BY <1>2, <1>3 DEF NodesWith

LEMMA LinkIs ==
    ASSUME TypeOK, KernelInv, nodes # <<>>, NEW left, NEW began, NodesInv(left, began)
    PROVE  /\ TheRoot = 1 /\ LinkOf(1) = 0 /\ 1 \in 1 .. Len(nodes)
           /\ \A j \in 1 .. Len(nodes) : nodes[j].pid = 1 <=> j = 1
           /\ \A j \in 1 .. Len(nodes) : LinkOf(j) \in 0 .. Len(nodes)
           /\ \A j \in 1 .. Len(nodes) : nodes[j].pid # 1 /\ nodes[j].ppid # 0 =>
                /\ LinkOf(j) \in 1 .. j - 1
                /\ nodes[LinkOf(j)].pid = nodes[j].ppid
                /\ \A i \in 1 .. Len(nodes) :
                     nodes[i].pid = nodes[j].ppid => LinkOf(j) <= i
<1>1. 1 \in 1 .. Len(nodes)
  BY DEF TypeOK
<1>2. \A j \in 1 .. Len(nodes) : nodes[j].pid = 1 <=> j = 1
  <2> SUFFICES ASSUME NEW j \in 1 .. Len(nodes) PROVE nodes[j].pid = 1 <=> j = 1
    OBVIOUS
  <2>1. nodes[1].pid = 1
    BY <1>1 DEF NodesInv, KernelInv
  <2>2. ASSUME nodes[j].pid = 1 PROVE j = 1
    <3>1. nodes[j].proc >= j /\ nodes[j].proc \in Created
          /\ nodes[j].pid = pid[nodes[j].proc]
      BY DEF NodesInv
    <3>2. nodes[j].proc = 1
      BY <2>2, <3>1 DEF KernelInv, init
    <3> QED BY <3>1, <3>2
  <2> QED BY <2>1, <2>2
<1>3. NodesWith(1) = {1}
  BY <1>1, <1>2 DEF NodesWith
<1>4. TheRoot = 1
  <2>1. Max({1}) = 1
    BY DEF Max
  <2> QED BY <1>3, <2>1 DEF TheRoot
<1>5. LinkOf(1) = 0
  BY <1>1, <1>2 DEF LinkOf
<1>6. \A j \in 1 .. Len(nodes) : LinkOf(j) \in 0 .. Len(nodes)
  BY FirstWith DEF LinkOf
<1>7. ASSUME NEW j \in 1 .. Len(nodes), nodes[j].pid # 1, nodes[j].ppid # 0
      PROVE  /\ LinkOf(j) \in 1 .. j - 1
             /\ nodes[LinkOf(j)].pid = nodes[j].ppid
             /\ \A i \in 1 .. Len(nodes) :
                  nodes[i].pid = nodes[j].ppid => LinkOf(j) <= i
  <2>1. PICK i \in 1 .. j - 1 : nodes[i].pid = nodes[j].ppid
    BY <1>7 DEF NodesInv
  <2>2. i \in 1 .. Len(nodes)
    BY <2>1
  <2>3. NodesWith(nodes[j].ppid) # {}
    BY <2>1, <2>2 DEF NodesWith
  <2>4. LinkOf(j) = Min(NodesWith(nodes[j].ppid))
    BY <1>7, <2>3 DEF LinkOf
  <2>5. /\ LinkOf(j) \in 1 .. Len(nodes)
        /\ nodes[LinkOf(j)].pid = nodes[j].ppid
        /\ \A k \in 1 .. Len(nodes) :
             nodes[k].pid = nodes[j].ppid => LinkOf(j) <= k
    BY <2>3, <2>4, FirstWith
  <2>6. LinkOf(j) <= i
    BY <2>1, <2>2, <2>5
  <2>7. LinkOf(j) \in 1 .. j - 1
    BY <2>1, <2>5, <2>6
  <2> QED BY <2>5, <2>7
<1> QED BY <1>1, <1>2, <1>4, <1>5, <1>6, <1>7

LEMMA LinkStep ==
    ASSUME TypeOK, KernelInv, CallInv, Link,
           NEW left, NEW began, NodesInv(left, began)
    PROVE  TypeOK' /\ CallInv' /\ PrintInv'
<1>1. /\ UNCHANGED kernel /\ UNCHANGED <<at, nodes, out, then>> /\ pc = "link"
      /\ out = <<>> /\ up = <<>> /\ queue = <<>> /\ ret = "none"
  BY DEF Link, CallInv, Printing
<1>2. UNCHANGED <<list, after, life, pid, parent>>
  BY <1>1 DEF kernel
<1>3. CASE /\ nodes # <<>>
           /\ up' = [j \in 1 .. Len(nodes) |-> LinkOf(j)]
           /\ queue' = <<TheRoot>>
           /\ pc' = "print"
           /\ UNCHANGED ret
  <2>1. /\ TheRoot = 1 /\ LinkOf(1) = 0 /\ 1 \in 1 .. Len(nodes)
        /\ \A j \in 1 .. Len(nodes) : LinkOf(j) \in 0 .. Len(nodes)
    BY <1>3, LinkIs
  <2>2. up' \in Seq(0 .. Len(nodes))
    BY <1>3, <2>1 DEF TypeOK
  <2>3. queue' \in Seq(1 .. Len(nodes))
    BY <1>3, <2>1
  <2>4. TypeOK'
    BY <1>1, <1>2, <1>3, <2>2, <2>3 DEF TypeOK
  <2>5. CallInv'
    BY <1>1, <1>3 DEF CallInv, Printing
  <2>6. Lines' = <<1>>
    BY <1>1, <1>3, <2>1 DEF Lines
  <2>7. \A j \in 1 .. Len(nodes) : LinkOf(j)' = LinkOf(j)
    BY <1>1 DEF LinkOf, NodesWith
  <2>8. up' = [j \in 1 .. Len(nodes') |-> LinkOf(j)']
    BY <1>1, <1>3, <2>7
  <2> QED BY <1>1, <1>3, <2>4, <2>5, <2>6, <2>8 DEF PrintInv
<1>4. CASE nodes = <<>> /\ pc' = "done" /\ ret' = "ESRCH" /\ UNCHANGED <<up, queue>>
  <2>1. ~ Printing'
    BY <1>4 DEF Printing
  <2>2. TypeOK'
    BY <1>1, <1>2, <1>4 DEF TypeOK
  <2> QED BY <1>1, <1>4, <2>1, <2>2 DEF CallInv, PrintInv
<1> QED BY <1>3, <1>4 DEF Link

-----------------------------------------------------------------------------
(* Printing. *)

LEMMA Shifted ==
    ASSUME NEW S, NEW a \in Seq(S), NEW b \in Seq(S), NEW c \in Seq(S), b # <<>>
    PROVE  Append(a, Head(b)) \o (Tail(b) \o c) = (a \o b) \o c
<1>1. PICK h \in S : h = Head(b)
  BY HeadTailProperties
<1>2. PICK t \in Seq(S) : t = Tail(b)
  BY HeadTailProperties
<1>3. b = <<h>> \o t /\ <<h>> \in Seq(S)
  BY <1>1, <1>2
<1>4. Append(a, h) = a \o <<h>>
  BY AppendIsConcat
<1>5. t \o c \in Seq(S)
  BY ConcatProperties
<1>6. (a \o <<h>>) \o (t \o c) = a \o (<<h>> \o (t \o c))
  BY <1>3, <1>5, ConcatAssociative
<1>7. <<h>> \o (t \o c) = b \o c
  BY <1>3, ConcatAssociative
<1>8. (a \o b) \o c = a \o (b \o c)
  BY ConcatAssociative
<1> QED BY <1>1, <1>2, <1>4, <1>6, <1>7, <1>8

LEMMA PrintLineStep ==
    ASSUME TypeOK, KernelInv, CallInv, PrintInv, PrintLine,
           NEW left, NEW began, NodesInv(left, began)
    PROVE  TypeOK' /\ CallInv' /\ PrintInv'
<1>1. /\ UNCHANGED kernel /\ UNCHANGED <<pc, at, nodes, up, ret, then>>
      /\ pc = "print" /\ queue # <<>> /\ Printing /\ ret = "none"
  BY DEF PrintLine, Printing, CallInv
<1>2. UNCHANGED <<list, after, life, pid, parent>>
  BY <1>1 DEF kernel
<1>3. PICK n \in Nat : n = Len(nodes)
  BY DEF TypeOK
<1>4. out \in Seq(1 .. n) /\ queue \in Seq(1 .. n)
  BY <1>3 DEF TypeOK
<1>5. PICK h \in 1 .. n : h = Head(queue)
  BY <1>1, <1>4, HeadTailProperties
<1>6. PICK kids : kids = Children(h)
  OBVIOUS
<1>7. PICK K : K = {i \in 1 .. n : up[i] = h}
  OBVIOUS
<1>8. kids \in Seq(K) /\ Ascending(kids) /\ ToSet(kids) = K
  <2>1. kids = InOrder(K)
    BY <1>3, <1>6, <1>7 DEF Children
  <2>2. K \in SUBSET (1 .. n)
    BY <1>7
  <2> QED BY <2>1, <2>2, InOrderIs
<1>9. kids \in Seq(1 .. n)
  <2>1. K \subseteq 1 .. n
    BY <1>7
  <2> QED BY <1>8, <2>1, SeqMonotonic
<1>10. out' = Append(out, h) /\ queue' = Tail(queue) \o kids
  BY <1>5, <1>6 DEF PrintLine
<1>11. Tail(queue) \in Seq(1 .. n)
  BY <1>1, <1>4, HeadTailProperties
<1>12. out' \in Seq(1 .. n) /\ queue' \in Seq(1 .. n)
  BY <1>4, <1>9, <1>10, <1>11, AppendProperties, ConcatProperties
<1>13. TypeOK'
  BY <1>1, <1>2, <1>3, <1>12 DEF TypeOK
<1>14. CallInv'
  BY <1>1 DEF CallInv, Printing
<1>15. PICK w : w = Lines
  OBVIOUS
<1>16. PICK k \in Nat : k = Len(out)
  BY <1>4
<1>17. PICK v \in Nat : v = Len(w)
  BY <1>4, <1>15 DEF Lines
<1>18. /\ w \in Seq(1 .. n) /\ k < v
       /\ \A i \in 1 .. k : w[i] = out[i]
       /\ w[k + 1] = h
  <2>1. w \in Seq(1 .. n) /\ Len(w) = Len(out) + Len(queue)
    BY <1>4, <1>15, ConcatProperties DEF Lines
  <2>2. \A i \in 1 .. Len(out) + Len(queue) :
          w[i] = IF i <= Len(out) THEN out[i] ELSE queue[i - Len(out)]
    BY <1>4, <1>15, ConcatProperties DEF Lines
  <2>3. PICK l : l = Len(queue)
    OBVIOUS
  <2>4. l \in Nat /\ l > 0 /\ v = k + l /\ queue[1] = h
    BY <1>1, <1>4, <1>5, <1>16, <1>17, <2>1, <2>3
  <2>5. \A i \in 1 .. k : w[i] = out[i]
    BY <1>16, <2>2, <2>3, <2>4
  <2>6. w[k + 1] = queue[(k + 1) - k]
    BY <1>16, <2>2, <2>3, <2>4
  <2>7. (k + 1) - k = 1
    BY <1>16
  <2> QED BY <1>16, <1>17, <2>1, <2>4, <2>5, <2>6, <2>7
<1>19. PICK x : x = Lines'
  OBVIOUS
<1>20. x = w \o kids
  <2>1. Append(out, Head(queue)) \o (Tail(queue) \o kids) = (out \o queue) \o kids
    <3>1. PICK a : a = out
      OBVIOUS
    <3>2. PICK b : b = queue
      OBVIOUS
    <3>3. PICK S : S = 1 .. n
      OBVIOUS
    <3>4. a \in Seq(S) /\ b \in Seq(S) /\ kids \in Seq(S) /\ b # <<>>
      BY <1>1, <1>4, <1>9, <3>1, <3>2, <3>3
    <3>5. Append(a, Head(b)) \o (Tail(b) \o kids) = (a \o b) \o kids
      BY <3>4, Shifted
    <3> QED BY <3>1, <3>2, <3>5
  <2> QED BY <1>5, <1>10, <1>15, <1>19, <2>1 DEF Lines
<1>21. PICK e \in Nat : e = Len(kids)
  BY <1>9
<1>22. /\ x \in Seq(1 .. n) /\ Len(x) = v + e
       /\ \A i \in 1 .. v + e : x[i] = IF i <= v THEN w[i] ELSE kids[i - v]
  BY <1>9, <1>17, <1>18, <1>20, <1>21, ConcatProperties
<1>23. \A i \in 1 .. v : x[i] = w[i]
  BY <1>17, <1>21, <1>22
<1>24. \A i \in 1 .. v + e : i \in 1 .. v \/ (i - v \in 1 .. e /\ x[i] = kids[i - v] /\ i > v)
  <2> SUFFICES ASSUME NEW i \in 1 .. v + e, i \notin 1 .. v
               PROVE  i - v \in 1 .. e /\ x[i] = kids[i - v] /\ i > v
    OBVIOUS
  <2>1. ~ (i <= v) /\ i - v \in 1 .. e
    BY <1>17, <1>21
  <2> QED BY <1>17, <1>21, <1>22, <2>1
<1>25. \A i \in 1 .. e : kids[i] \in 1 .. n /\ up[kids[i]] = h
  <2>1. \A i \in 1 .. e : kids[i] \in K
    BY <1>8, <1>21, SeqItem
  <2> QED BY <1>7, <2>1
<1>26. /\ nodes # <<>>
       /\ up = [j \in 1 .. n |-> LinkOf(j)]
       /\ w[1] = 1
       /\ \A i, j \in 1 .. v : w[i] = w[j] => i = j
       /\ \A i \in 2 .. v : \E m \in 1 .. k : m < i /\ out[m] = up[w[i]]
       /\ \A c \in 1 .. n, m \in 1 .. k : up[c] = out[m] => c \in ToSet(w)
  BY <1>1, <1>3, <1>15, <1>16, <1>17 DEF PrintInv
<1>27. up[1] = 0
  <2>1. LinkOf(1) = 0 /\ 1 \in 1 .. n
    BY <1>3, <1>26, LinkIs
  <2> QED BY <1>26, <2>1
(* No child of the node was in the queue before. *)
<1>28. \A i \in 1 .. v : up[w[i]] # h
  <2> SUFFICES ASSUME NEW i \in 1 .. v, up[w[i]] = h PROVE FALSE
    OBVIOUS
  <2>1. i # 1
    BY <1>5, <1>26, <1>27
  <2>2. i \in 2 .. v
    BY <1>17, <2>1
  <2>3. PICK m \in 1 .. k : out[m] = h
    BY <1>26, <2>2
  <2>4. w[m] = w[k + 1] /\ m \in 1 .. v /\ k + 1 \in 1 .. v /\ m # k + 1
    BY <1>16, <1>17, <1>18, <2>3
  <2> QED BY <1>26, <2>4
<1>29. \A i, j \in 1 .. v + e : x[i] = x[j] => i = j
  <2> SUFFICES ASSUME NEW i \in 1 .. v + e, NEW j \in 1 .. v + e, x[i] = x[j]
               PROVE  i = j
    OBVIOUS
  <2>1. CASE i \in 1 .. v /\ j \in 1 .. v
    BY <1>23, <1>26, <2>1
  <2>2. CASE i \notin 1 .. v /\ j \notin 1 .. v
    <3>1. /\ i - v \in 1 .. e /\ x[i] = kids[i - v]
          /\ j - v \in 1 .. e /\ x[j] = kids[j - v]
      BY <1>24, <2>2
    <3>2. PICK ii \in 1 .. e : ii = i - v
      BY <3>1
    <3>3. PICK jj \in 1 .. e : jj = j - v
      BY <3>1
    <3>4. kids[ii] = kids[jj]
      BY <2>2, <3>1, <3>2, <3>3
    <3>5. kids \in Seq(Nat)
      BY <1>9, SeqMonotonic
    <3>6. ii = jj
      BY <1>8, <1>21, <3>4, <3>5, AscendingDiffer
    <3> QED BY <1>17, <3>2, <3>3, <3>6
  <2>3. CASE i \in 1 .. v /\ j \notin 1 .. v
    BY <1>23, <1>24, <1>25, <1>28, <2>3
  <2>4. CASE i \notin 1 .. v /\ j \in 1 .. v
    BY <1>23, <1>24, <1>25, <1>28, <2>4
  <2> QED BY <2>1, <2>2, <2>3, <2>4
<1>30. PICK o : o = out'
  OBVIOUS
<1>31. Len(o) = k + 1 /\ (\A m \in 1 .. k : o[m] = out[m]) /\ o[k + 1] = h
  BY <1>4, <1>5, <1>10, <1>16, <1>30, AppendProperties
<1>32. k + 1 \in 1 .. k + 1 /\ 1 .. k \subseteq 1 .. k + 1
       /\ \A m \in 1 .. k + 1 : m \in 1 .. k \/ m = k + 1
  BY <1>16
<1>33. \A i \in 2 .. v + e : \E m \in 1 .. k + 1 : m < i /\ o[m] = up[x[i]]
  <2> SUFFICES ASSUME NEW i \in 2 .. v + e
               PROVE  \E m \in 1 .. k + 1 : m < i /\ o[m] = up[x[i]]
    OBVIOUS
  <2>1. CASE i \in 1 .. v
    <3>1. i \in 2 .. v
      BY <1>17, <2>1
    <3>2. PICK m \in 1 .. k : m < i /\ out[m] = up[w[i]]
      BY <1>26, <3>1
    <3> QED BY <1>23, <1>31, <1>32, <2>1, <3>2
  <2>2. CASE i \notin 1 .. v
    <3>1. i \in 1 .. v + e
      BY <1>17, <1>21
    <3>2. i - v \in 1 .. e /\ x[i] = kids[i - v] /\ i > v
      BY <1>24, <2>2, <3>1
    <3>3. up[x[i]] = h
      BY <1>25, <3>2
    <3>4. k + 1 < i
      BY <1>16, <1>17, <1>18, <3>2
    <3> QED BY <1>31, <1>32, <3>3, <3>4
  <2> QED BY <2>1, <2>2
<1>34. \A c \in 1 .. n, m \in 1 .. k + 1 : up[c] = o[m] => c \in ToSet(x)
  <2> SUFFICES ASSUME NEW c \in 1 .. n, NEW m \in 1 .. k + 1, up[c] = o[m]
               PROVE  c \in ToSet(x)
    OBVIOUS
  <2>1. DOMAIN x = 1 .. v + e /\ DOMAIN w = 1 .. v /\ DOMAIN kids = 1 .. e
    BY <1>9, <1>17, <1>18, <1>21, <1>22
  <2>2. CASE m \in 1 .. k
    <3>1. c \in ToSet(w)
      BY <1>26, <1>31, <2>2
    <3>2. PICK i \in 1 .. v : w[i] = c
      BY <2>1, <3>1 DEF ToSet
    <3>3. i \in 1 .. v + e /\ x[i] = c
      BY <1>17, <1>21, <1>23, <3>2
    <3> QED BY <2>1, <3>3 DEF ToSet
  <2>3. CASE m = k + 1
    <3>1. c \in K
      BY <1>7, <1>31, <2>3
    <3>2. PICK i \in 1 .. e : kids[i] = c
      BY <1>8, <2>1, <3>1 DEF ToSet
    <3>3. v + i \in 1 .. v + e /\ ~ (v + i <= v) /\ (v + i) - v = i
      BY <1>17, <1>21
    <3>4. x[v + i] = c
      BY <1>22, <3>2, <3>3
    <3> QED BY <2>1, <3>3, <3>4 DEF ToSet
  <2> QED BY <1>32, <2>2, <2>3
<1>35. PrintInv'
  <2>1. \A j \in 1 .. n : LinkOf(j)' = LinkOf(j)
    BY <1>1 DEF LinkOf, NodesWith
  <2>2. up' = [j \in 1 .. n |-> LinkOf(j)']
    BY <1>1, <1>26, <2>1
  <2>3. Len(x) = v + e /\ x # <<>> /\ x[1] = 1
    <3>1. 1 \in 1 .. v /\ v + e # 0
      BY <1>16, <1>17, <1>18, <1>21
    <3> QED BY <1>22, <1>23, <1>26, <3>1
  <2>4. nodes' # <<>> /\ up' = [j \in 1 .. Len(nodes') |-> LinkOf(j)']
    BY <1>1, <1>3, <1>26, <2>2
  <2>5. Lines' # <<>> /\ Lines'[1] = 1
    BY <1>19, <2>3
  <2>6. \A i, j \in 1 .. Len(Lines') : Lines'[i] = Lines'[j] => i = j
    BY <1>19, <1>29, <2>3
  <2>7. \A i \in 2 .. Len(Lines') : \E m \in 1 .. Len(out') :
          m < i /\ out'[m] = up'[Lines'[i]]
    BY <1>1, <1>19, <1>30, <1>31, <1>33, <2>3
  <2>8. \A c \in 1 .. Len(nodes'), m \in 1 .. Len(out') :
          up'[c] = out'[m] => c \in ToSet(Lines')
    BY <1>1, <1>3, <1>19, <1>30, <1>31, <1>34
  <2>9. pc' \notin {"copy", "done"}
    BY <1>1
  <2> QED BY <2>4, <2>5, <2>6, <2>7, <2>8, <2>9 DEF PrintInv
<1> QED BY <1>13, <1>14, <1>35

LEMMA FinishStep ==
    ASSUME TypeOK, CallInv, PrintInv, Truncate \/ Printed \/ CopyOut
    PROVE  TypeOK' /\ CallInv' /\ PrintInv' /\ UNCHANGED <<kernel, nodes, then>>
           /\ ~ Walking' /\ Walked
<1>1. /\ UNCHANGED kernel /\ UNCHANGED <<at, nodes, up, queue, out, then>>
      /\ pc \in {"print", "copy"} /\ pc' \in {"copy", "done"}
      /\ ret' \in {"none", "ok", "EMSGSIZE", "EFAULT"}
  BY DEF Truncate, Printed, CopyOut, CallInv
<1>2. UNCHANGED <<list, after, life, pid, parent>>
  BY <1>1 DEF kernel
<1>3. TypeOK'
  BY <1>1, <1>2 DEF TypeOK
<1>4. CallInv'
  BY <1>1 DEF Truncate, Printed, CopyOut, CallInv, Printing
<1>5. Printing /\ Printing'
  BY <1>1 DEF Printing
<1>6. ret' \in {"none", "ok"} => queue = <<>>
  BY <1>1, <1>5 DEF Truncate, Printed, CopyOut, CallInv, PrintInv
<1>7. \A j \in 1 .. Len(nodes) : LinkOf(j)' = LinkOf(j)
  BY <1>1 DEF LinkOf, NodesWith
<1>8. Lines' = Lines
  BY <1>1 DEF Lines
<1>9. up' = [j \in 1 .. Len(nodes') |-> LinkOf(j)']
  BY <1>1, <1>5, <1>7 DEF PrintInv
<1>10. PrintInv'
  BY <1>1, <1>5, <1>6, <1>8, <1>9 DEF PrintInv
<1> QED BY <1>1, <1>3, <1>4, <1>10 DEF Walking, Walked

LEMMA ReturnFits ==
    ASSUME TypeOK, Return, NEW left, NEW now, NEW began, Fits(left, now, began)
    PROVE  Fits(left, now, began)'
<1>1. /\ UNCHANGED kernel /\ nodes' = <<>> /\ then' = NotBegun /\ pc' = "idle"
  BY DEF Return
<1>2. Stayers' = {}
  <2>1. Stayers' = ToSet(<<>>)
    BY <1>1 DEF Stayers, NotBegun
  <2> QED BY <2>1 DEF ToSet
<1>3. LeftInOrder(left, now)'
  BY <1>1, FitsStays DEF Fits
<1>4. SinceThen(left, began)'
  BY <1>2 DEF SinceThen
<1>5. NodesInv(left, began)'
  BY <1>1 DEF NodesInv
<1>6. WalkInv(left, began)'
  BY <1>1 DEF WalkInv, Walking, Walked
<1> QED BY <1>3, <1>4, <1>5, <1>6 DEF Fits

LEMMA ReturnStep ==
    ASSUME TypeOK, Return
    PROVE  TypeOK' /\ CallInv' /\ PrintInv'
<1>1. UNCHANGED <<list, after, life, pid, parent>>
  BY DEF Return, kernel
<1>2. NotBegun \in [list : Seq(Procs), parent : [Procs -> Procs \union {0}]]
  BY DEF NotBegun
<1>3. TypeOK'
  BY <1>1, <1>2, SnapshotAssumption DEF Return, TypeOK
<1> QED BY <1>3 DEF Return, CallInv, Printing, PrintInv

LEMMA NoMemoryFits ==
    ASSUME TypeOK, NoMemory, NEW left, NEW now, NEW began, Fits(left, now, began)
    PROVE  Fits(left, now, began)'
<1>1. UNCHANGED kernel /\ UNCHANGED then /\ nodes' = <<>> /\ pc' = "done"
      /\ ret' = "ENOMEM"
  BY DEF NoMemory
<1>2. NodesInv(left, began)'
  BY <1>1 DEF NodesInv
<1>3. WalkInv(left, began)'
  BY <1>1 DEF WalkInv, Walking, Walked
<1> QED BY <1>1, <1>2, <1>3, FitsStays DEF Fits

LEMMA RefuseFits ==
    ASSUME TypeOK, CallInv, Refuse, NEW left, NEW now, NEW began,
           Fits(left, now, began)
    PROVE  Fits(left, now, began)'
<1>1. /\ UNCHANGED kernel /\ UNCHANGED then /\ nodes' = <<>> /\ pc' = "done"
      /\ ret' \in {"EINVAL", "ENOMEM"}
  BY DEF Refuse, CallInv
<1>2. NodesInv(left, began)'
  BY <1>1 DEF NodesInv
<1>3. WalkInv(left, began)'
  BY <1>1 DEF WalkInv, Walking, Walked
<1> QED BY <1>1, <1>2, <1>3, FitsStays DEF Fits

LEMMA RefuseStep ==
    ASSUME TypeOK, CallInv, Refuse
    PROVE  TypeOK' /\ CallInv' /\ PrintInv'
<1>1. UNCHANGED <<list, after, life, pid, parent>>
  BY DEF Refuse, kernel
<1> QED BY <1>1 DEF Refuse, TypeOK, CallInv, Printing, PrintInv

(* The walk prints nothing. *)
LEMMA WalkStep ==
    ASSUME TypeOK, KernelInv, CallInv, NEW left, NEW now, NEW began,
           Fits(left, now, began), Begin \/ Advance \/ Capture \/ NoMemory
    PROVE  TypeOK' /\ CallInv' /\ PrintInv'
<1>1. /\ UNCHANGED <<list, after, life, pid, parent>>
      /\ UNCHANGED kernel /\ UNCHANGED <<up, queue, out>>
      /\ pc \in {"idle", "next", "read"} /\ pc' \in {"next", "link", "read", "done"}
      /\ pc' # "done" => ret' = ret
      /\ pc' = "done" => ret' = "ENOMEM"
  BY DEF Begin, Advance, Capture, NoMemory, kernel
<1>2. up = <<>> /\ queue = <<>> /\ out = <<>> /\ ret = "none"
  BY <1>1 DEF CallInv, Printing
<1>3. ~ Printing'
  BY <1>1 DEF Printing
<1>4. CallInv' /\ PrintInv'
  BY <1>1, <1>2, <1>3 DEF CallInv, PrintInv
<1>5. /\ at' \in Procs \union {0} /\ nodes' \in Seq(Node) /\ Len(nodes') <= MaxTasks
      /\ then' \in [list : Seq(Procs), parent : [Procs -> Procs \union {0}]]
  <2>1. CASE Begin
    BY <2>1 DEF Begin, TypeOK
  <2>2. CASE Advance
    <3>1. UNCHANGED <<nodes, then>> /\ at' = Follower(at)
          /\ pc' = IF Follower(at) = 0 THEN "link" ELSE "read"
      BY <2>2 DEF Advance
    <3>2. WalkInv(left, began)'
      BY <2>2, AdvanceFits DEF Fits
    <3>3. at' # 0 => at' \in Created'
      BY <3>1, <3>2 DEF WalkInv, Walking
    <3> QED BY <3>1, <3>3 DEF Created, TypeOK
  <2>3. CASE Capture
    BY <2>3, CaptureFits DEF Capture, TypeOK
  <2>4. CASE NoMemory
    BY <2>4, SnapshotAssumption DEF NoMemory, TypeOK
  <2> QED BY <2>1, <2>2, <2>3, <2>4
<1>6. /\ up' \in Seq(0 .. Len(nodes')) /\ queue' \in Seq(1 .. Len(nodes'))
      /\ out' \in Seq(1 .. Len(nodes'))
  BY <1>1, <1>2
<1>7. TypeOK'
  BY <1>1, <1>2, <1>5, <1>6 DEF TypeOK
<1> QED BY <1>4, <1>7

LEMMA KernelStep ==
    ASSUME TypeOK, KernelInv, CallInv, pc \in {"idle", "next", "read"},
           NEW p \in Procs, Fork(p) \/ Exit(p) \/ Reparent(p) \/ Release(p)
    PROVE  TypeOK' /\ KernelInv' /\ CallInv' /\ PrintInv'
<1>1. UNCHANGED <<pc, at, nodes, up, queue, out, ret, then>>
  BY DEF Fork, Exit, Reparent, Release, call
<1>2. KernelInv'
  BY ForkKernel, ExitKernel, ReparentKernel, ReleaseKernel
<1>3. list' \in Seq(Procs)
  BY <1>2 DEF KernelInv
<1>4. /\ after' \in [Procs -> Procs \union {0}]
      /\ life' \in [Procs -> {"none", "live", "zombie", "gone"}]
      /\ pid' \in [Procs -> 0 .. MaxPid]
      /\ parent' \in [Procs -> Procs \union {0}]
  <2>1. CASE Fork(p)
    <3>1. PICK c \in Procs, n \in 1 .. MaxPid :
            /\ life' = [life EXCEPT ![c] = "live"]
            /\ pid' = [pid EXCEPT ![c] = n]
            /\ parent' = [parent EXCEPT ![c] = p]
      BY <2>1 DEF Fork
    <3>2. UNCHANGED after /\ n \in 0 .. MaxPid
      BY <2>1, SnapshotAssumption DEF Fork
    <3> QED BY <3>1, <3>2 DEF TypeOK
  <2>2. CASE Exit(p)
    BY <2>2 DEF Exit, TypeOK
  <2>3. CASE Reparent(p)
    <3>1. UNCHANGED <<after, life, pid>>
      BY <2>3 DEF Reparent
    <3>2. parent' \in [Procs -> Procs \union {0}]
      BY <2>3, ReaperIs
    <3> QED BY <3>1, <3>2 DEF TypeOK
  <2>4. CASE Release(p)
    <3>1. Follower(p) \in Procs \union {0}
      <4>1. p \in Listed /\ list \in Seq(Procs) /\ Ascending(list)
        BY <2>4, ListedIs DEF Release
      <4>2. Listed \subseteq Procs
        BY DEF KernelInv
      <4> QED BY <4>1, <4>2, FollowerIs
    <3> QED BY <2>4, <3>1 DEF Release, TypeOK
  <2> QED BY <2>1, <2>2, <2>3, <2>4
<1>5. TypeOK'
  BY <1>1, <1>3, <1>4 DEF TypeOK
<1>6. ~ Printing'
  BY <1>1 DEF Printing
<1> QED BY <1>1, <1>2, <1>5, <1>6 DEF CallInv, PrintInv, Printing

-----------------------------------------------------------------------------
(* The invariant. *)

LEMMA InvInit == Init => SnapshotInv
<1> SUFFICES ASSUME Init PROVE SnapshotInv
  OBVIOUS
<1>1. init \in Procs /\ kthreadd \in Procs /\ init = 1 /\ kthreadd = 2
      /\ Procs \subseteq Nat
  BY SnapshotAssumption DEF Procs, init, kthreadd
<1>2. list = <<1, 2>> /\ Listed = {1, 2} /\ list \in Seq(Procs) /\ Ascending(list)
  BY <1>1 DEF Init, Listed, ToSet, Ascending
<1>3. Created = {1, 2}
  BY <1>1 DEF Init, Created, Procs
<1>4. /\ \A p \in Procs : life[p] = (IF p <= 2 THEN "live" ELSE "none")
      /\ \A p \in Procs : pid[p] = (IF p <= 2 THEN p ELSE 0)
      /\ \A p \in Procs : parent[p] = 0 /\ after[p] = 0
  BY DEF Init
<1>5. NotBegun \in [list : Seq(Procs), parent : [Procs -> Procs \union {0}]]
  BY DEF NotBegun
<1>6. TypeOK
  BY <1>1, <1>2, <1>5, SnapshotAssumption DEF Init, TypeOK
<1>7. KernelInv
  <2>1. Listed = {p \in Procs : life[p] \in {"live", "zombie"}}
    BY <1>1, <1>2, <1>4 DEF Procs
  <2>2. \A p, q \in Procs : q < p /\ p \in Created => q \in Created
    BY <1>3 DEF Procs
  <2>3. /\ \A p \in Created : pid[p] \in 1 .. MaxPid /\ (pid[p] = 1 => p = init)
        /\ pid[init] = 1
        /\ \A p, q \in Listed : pid[p] = pid[q] => p = q
    BY <1>1, <1>2, <1>3, <1>4, SnapshotAssumption
  <2>4. \A p \in Created : p <= 2 /\ parent[p] = 0
    BY <1>1, <1>3, <1>4
  <2> QED BY <1>1, <1>2, <1>4, <2>1, <2>2, <2>3, <2>4 DEF KernelInv
<1>8. CallInv /\ PrintInv
  BY DEF Init, CallInv, PrintInv, Printing
<1> DEFINE left == [p \in Procs |-> 0]
<1>9. Fits(left, 0, 0)
  <2>1. Stayers = {}
    BY DEF Init, Stayers, NotBegun, ToSet
  <2>2. LeftInOrder(left, 0)
    BY <1>1, <1>3, <1>4 DEF LeftInOrder
  <2>3. SinceThen(left, 0)
    BY <2>1 DEF SinceThen
  <2>4. NodesInv(left, 0)
    BY DEF Init, NodesInv
  <2>5. WalkInv(left, 0)
    BY DEF Init, WalkInv, Walking, Walked
  <2> QED BY <2>2, <2>3, <2>4, <2>5 DEF Fits
<1>10. left \in [Procs -> Nat] /\ 0 \in Nat /\ 0 \in 0 .. 0
  OBVIOUS
<1> HIDE DEF left
<1> QED BY <1>6, <1>7, <1>8, <1>9, <1>10 DEF SnapshotInv

LEMMA FitsAreInv ==
    ASSUME TypeOK', KernelInv', CallInv', PrintInv',
           NEW left, NEW now, NEW began, Fits(left, now, began)'
    PROVE  SnapshotInv'
<1>1. left \in [Procs -> Nat] /\ now \in Nat /\ began \in 0 .. now
  BY DEF Fits
<1> QED BY <1>1 DEF SnapshotInv

LEMMA InvNext ==
    ASSUME SnapshotInv, [Next]_vars
    PROVE  SnapshotInv'
<1>1. TypeOK /\ KernelInv /\ CallInv /\ PrintInv
  BY DEF SnapshotInv
<1>2. PICK left \in [Procs -> Nat], now \in Nat : \E began \in 0 .. now :
        Fits(left, now, began)
  BY DEF SnapshotInv
<1>3. PICK began \in 0 .. now : Fits(left, now, began)
  BY <1>2
<1>4. NodesInv(left, began)
  BY <1>3 DEF Fits
<1>5. CASE UNCHANGED kernel /\ UNCHANGED call
  <2>1. UNCHANGED <<list, after, life, pid, parent>>
        /\ UNCHANGED <<pc, at, nodes, up, queue, out, ret, then>>
    BY <1>5 DEF kernel, call
  <2>2. TypeOK' /\ CallInv' /\ KernelInv'
    BY <1>1, <1>5, <2>1, KernelStays DEF TypeOK, CallInv, Printing
  <2>3. PrintInv'
    <3>1. \A j \in 1 .. Len(nodes) : LinkOf(j)' = LinkOf(j)
      BY <2>1 DEF LinkOf, NodesWith
    <3>2. Lines' = Lines /\ Printing' = Printing
      BY <2>1 DEF Lines, Printing
    <3>3. Printing => up' = [j \in 1 .. Len(nodes') |-> LinkOf(j)']
      BY <1>1, <2>1, <3>1 DEF PrintInv
    <3> QED BY <1>1, <2>1, <3>2, <3>3 DEF PrintInv
  <2>4. WalkInv(left, began)'
    <3>1. /\ Walking' = Walking /\ Walked' = Walked /\ Created' = Created
          /\ Captured' = Captured /\ Stayers' = Stayers /\ Listed' = Listed
      BY <2>1 DEF Walking, Walked, Created, Captured, Stayers, Listed
    <3> QED BY <1>3, <2>1, <3>1 DEF Fits, WalkInv
  <2>5. Fits(left, now, began)'
    BY <1>3, <1>5, <2>1, <2>4, FitsStays DEF Fits
  <2> QED BY <2>2, <2>3, <2>5, FitsAreInv
<1>6. CASE pc \in {"idle", "next", "read"}
           /\ \E p \in Procs : Fork(p) \/ Exit(p) \/ Reparent(p) \/ Release(p)
  <2>1. PICK p \in Procs : Fork(p) \/ Exit(p) \/ Reparent(p) \/ Release(p)
    BY <1>6
  <2>2. TypeOK' /\ KernelInv' /\ CallInv' /\ PrintInv'
    BY <1>1, <1>6, <2>1, KernelStep
  <2>3. CASE Fork(p) \/ Exit(p) \/ Reparent(p)
    <3>1. Unreleased
      BY <1>1, <2>3, ForkUnreleased, ExitUnreleased, ReparentUnreleased
    <3>2. Fits(left, now, began)'
      BY <1>1, <1>3, <1>6, <2>2, <3>1, UnreleasedFits
    <3> QED BY <2>2, <3>2, FitsAreInv
  <2>4. CASE Release(p)
    <3>1. PICK new : Fits(new, now + 1, began)'
      BY <1>1, <1>3, <1>6, <2>4, ReleaseFits
    <3>2. PICK later : later = now + 1
      OBVIOUS
    <3>3. Fits(new, later, began)'
      BY <3>1, <3>2
    <3> QED BY <2>2, <3>3, FitsAreInv
  <2> QED BY <2>1, <2>3, <2>4
<1>7. CASE Begin \/ Advance \/ Capture \/ NoMemory
  <2>1. TypeOK' /\ CallInv' /\ PrintInv'
    BY <1>1, <1>3, <1>7, WalkStep
  <2>2. UNCHANGED kernel
    BY <1>7 DEF Begin, Advance, Capture, NoMemory
  <2>3. KernelInv'
    BY <1>1, <2>2, KernelStays
  <2>4. Fits(left, now, began)' \/ Fits(left, now, now)'
    BY <1>1, <1>3, <1>7, BeginFits, AdvanceFits, CaptureFits, NoMemoryFits
  <2> QED BY <2>1, <2>3, <2>4, FitsAreInv
<1>12. CASE Refuse
  <2>1. TypeOK' /\ CallInv' /\ PrintInv'
    BY <1>1, <1>12, RefuseStep
  <2>2. KernelInv'
    BY <1>1, <1>12, KernelStays DEF Refuse
  <2>3. Fits(left, now, began)'
    BY <1>1, <1>3, <1>12, RefuseFits
  <2> QED BY <2>1, <2>2, <2>3, FitsAreInv
<1>8. CASE Link
  <2>1. TypeOK' /\ CallInv' /\ PrintInv'
    BY <1>1, <1>4, <1>8, LinkStep
  <2>2. UNCHANGED kernel /\ UNCHANGED <<kernel, nodes, then>> /\ ~ Walking' /\ Walked
    BY <1>8 DEF Link, Walking, Walked
  <2>3. KernelInv'
    BY <1>1, <2>2, KernelStays
  <2>4. Fits(left, now, began)'
    BY <1>3, <2>2, QuietFits
  <2> QED BY <2>1, <2>3, <2>4, FitsAreInv
<1>9. CASE PrintLine
  <2>1. TypeOK' /\ CallInv' /\ PrintInv'
    BY <1>1, <1>4, <1>9, PrintLineStep
  <2>2. UNCHANGED kernel /\ UNCHANGED <<kernel, nodes, then>> /\ ~ Walking' /\ Walked
    BY <1>9 DEF PrintLine, Walking, Walked
  <2>3. KernelInv'
    BY <1>1, <2>2, KernelStays
  <2>4. Fits(left, now, began)'
    BY <1>3, <2>2, QuietFits
  <2> QED BY <2>1, <2>3, <2>4, FitsAreInv
<1>10. CASE Truncate \/ Printed \/ CopyOut
  <2>1. TypeOK' /\ CallInv' /\ PrintInv' /\ UNCHANGED <<kernel, nodes, then>>
        /\ ~ Walking' /\ Walked
    BY <1>1, <1>10, FinishStep
  <2>2. KernelInv'
    BY <1>1, <2>1, KernelStays
  <2>3. Fits(left, now, began)'
    BY <1>3, <2>1, QuietFits
  <2> QED BY <2>1, <2>2, <2>3, FitsAreInv
<1>11. CASE Return
  <2>1. TypeOK' /\ CallInv' /\ PrintInv'
    BY <1>1, <1>11, ReturnStep
  <2>2. KernelInv'
    BY <1>1, <1>11, KernelStays DEF Return
  <2>3. Fits(left, now, began)'
    BY <1>1, <1>3, <1>11, ReturnFits
  <2> QED BY <2>1, <2>2, <2>3, FitsAreInv
<1> QED BY <1>5, <1>6, <1>7, <1>8, <1>9, <1>10, <1>11, <1>12 DEF Next, vars

(* The invariant holds in every reachable state. *)
THEOREM SnapshotInvariant == Spec => []SnapshotInv
BY InvInit, InvNext, PTL DEF Spec

(* The kernel's data, what the call captured, its links and its queue keep
   their types: the nodes are never more than the processes there were. *)
THEOREM TypeCorrect == Spec => []TypeOK
<1>1. SnapshotInv => TypeOK
  BY DEF SnapshotInv
<1> QED BY <1>1, SnapshotInvariant, PTL

(* Pids used again during the walk make no cycle: every captured process is
   linked to one captured before it, so the loop over the ancestors ends. *)
THEOREM LinkedBackAlways == Spec => []LinkedBack
<1>1. SnapshotInv => LinkedBack
  <2> SUFFICES ASSUME SnapshotInv, pc \in {"print", "copy"},
                      NEW j \in 1 .. Len(nodes),
                      nodes[j].pid # 1, nodes[j].ppid # 0
               PROVE  up[j] \in 1 .. j - 1
    BY DEF LinkedBack
  <2>1. PICK left, began : NodesInv(left, began)
    BY DEF SnapshotInv, Fits
  <2>2. TypeOK /\ KernelInv /\ nodes # <<>> /\ up = [i \in 1 .. Len(nodes) |-> LinkOf(i)]
    BY DEF SnapshotInv, PrintInv, Printing
  <2>3. LinkOf(j) \in 1 .. j - 1
    BY <2>1, <2>2, LinkIs
  <2> QED BY <2>2, <2>3
<1> QED BY <1>1, SnapshotInvariant, PTL

(* Who was there from the beginning of the walk to its end was captured once,
   and linked to its parent if that was its parent all the time. *)
THEOREM StayersRightAlways == Spec => []StayersRight
<1>1. SnapshotInv => StayersRight
  <2> SUFFICES ASSUME SnapshotInv, Complete, NEW p \in Procs, Stayed(p)
               PROVE  \E j \in 1 .. Len(nodes) :
                        /\ \A i \in 1 .. Len(nodes) : nodes[i].proc = p <=> i = j
                        /\ parent[p] \in Procs /\ parent[p] = then.parent[p]
                             => up[j] # 0 /\ nodes[up[j]].proc = parent[p]
    BY DEF StayersRight
  <2>1. PICK left, now, began : Fits(left, now, began)
    BY DEF SnapshotInv
  <2>2. LeftInOrder(left, now) /\ SinceThen(left, began) /\ NodesInv(left, began)
        /\ WalkInv(left, began) /\ left \in [Procs -> Nat] /\ now \in Nat
    BY <2>1 DEF Fits
  <2>3. /\ TypeOK /\ KernelInv /\ nodes # <<>>
        /\ up = [i \in 1 .. Len(nodes) |-> LinkOf(i)]
    BY DEF SnapshotInv, PrintInv, Printing, Complete
  <2>4. Stayers \cap Listed \subseteq Captured
    BY <2>2 DEF WalkInv, Walked, Complete
  <2>5. p \in Stayers /\ p \in Listed
    BY DEF Stayed, Stayers
  <2>6. PICK j \in 1 .. Len(nodes) : nodes[j].proc = p
    BY <2>4, <2>5 DEF Captured
  <2>7. \A i \in 1 .. Len(nodes) : nodes[i].proc \in Nat
    BY <2>2 DEF NodesInv, Created, Procs
  <2>8. \A i, k \in 1 .. Len(nodes) : nodes[i].proc = nodes[k].proc => i = k
    <3> SUFFICES ASSUME NEW i \in 1 .. Len(nodes), NEW k \in 1 .. Len(nodes), i # k
                 PROVE  nodes[i].proc # nodes[k].proc
      OBVIOUS
    <3>1. i < k \/ k < i
      OBVIOUS
    <3>2. nodes[i].proc < nodes[k].proc \/ nodes[k].proc < nodes[i].proc
      BY <2>2, <3>1 DEF NodesInv
    <3> QED BY <2>7, <3>2
  <2>9. ASSUME parent[p] \in Procs, parent[p] = then.parent[p]
        PROVE  up[j] # 0 /\ nodes[up[j]].proc = parent[p]
    <3>1. PICK q : q = parent[p]
      OBVIOUS
    <3>2. p \in Created /\ q \in Procs /\ q # 0 /\ q < p /\ left[p] = now
          /\ left[p] <= left[q]
      <4>1. p \in Created /\ life[p] # "gone"
        BY <2>3, <2>5, ListedIs
      <4>2. q \in Procs /\ q # 0
        BY <2>9, <3>1 DEF Procs
      <4>3. q < p /\ left[p] <= left[q]
        BY <2>2, <2>3, <3>1, <4>1, <4>2 DEF KernelInv, LeftInOrder
      <4> QED BY <2>2, <4>1, <4>2, <4>3 DEF LeftInOrder
    <3>3. q \in Created
      BY <2>3, <3>2 DEF KernelInv
    <3>4. q \in Listed
      <4>1. life[q] # "gone"
        BY <2>2, <3>2 DEF LeftInOrder
      <4> QED BY <2>3, <3>3, <4>1, ListedIs
    <3>5. q \in Stayers
      BY <2>2, <2>5, <2>9, <3>1, <3>2 DEF SinceThen
    <3>6. PICK i \in 1 .. Len(nodes) : nodes[i].proc = q
      BY <2>4, <3>4, <3>5 DEF Captured
    <3>7. nodes[i].pid = pid[q] /\ nodes[j].pid = pid[p]
      BY <2>2, <2>6, <3>6 DEF NodesInv
    <3>8. nodes[j].ppid = pid[q]
      BY <2>2, <2>5, <2>6, <2>9, <3>1, <3>2 DEF NodesInv
    <3>9. pid[p] # 1 /\ pid[q] # 0
      BY <2>3, <3>2, <3>3 DEF KernelInv, init, Procs
    <3>10. PICK m : m = LinkOf(j)
      OBVIOUS
    <3>11. m \in 1 .. j - 1 /\ nodes[m].pid = pid[q] /\ m <= i
      BY <2>2, <2>3, <3>6, <3>7, <3>8, <3>9, <3>10, LinkIs
    <3>12. m \in 1 .. Len(nodes)
      BY <3>11
    <3>13. PICK w : w = nodes[m].proc
      OBVIOUS
    <3>14. w \in Created /\ left[w] >= began /\ pid[w] = pid[q]
      BY <2>2, <3>11, <3>12, <3>13 DEF NodesInv
    <3>15. w <= q
      <4>1. w \in Nat /\ q \in Nat
        BY <2>7, <3>6, <3>12, <3>13
      <4>2. m = i \/ m < i
        BY <3>11, <3>12
      <4>3. w = q \/ w < q
        BY <2>2, <3>6, <3>12, <3>13, <4>2 DEF NodesInv
      <4> QED BY <4>1, <4>3
    <3>16. w \in Stayers
      BY <2>2, <3>5, <3>14, <3>15 DEF SinceThen
    <3>17. w = q
      BY <2>2, <3>5, <3>14, <3>16 DEF SinceThen
    <3>18. up[j] = m /\ m # 0
      BY <2>3, <3>10, <3>11
    <3> QED BY <3>1, <3>13, <3>17, <3>18
  <2> QED BY <2>6, <2>8, <2>9
<1> QED BY <1>1, SnapshotInvariant, PTL

(* Every captured process that is no kernel thread is printed exactly once,
   below and after the process it is linked to. *)
THEOREM PrintedOnceAlways == Spec => []PrintedOnce
<1>1. SnapshotInv => PrintedOnce
  <2> SUFFICES ASSUME SnapshotInv, Complete PROVE PrintedOnce
    BY DEF PrintedOnce
  <2>1. PICK left, began : NodesInv(left, began)
    BY DEF SnapshotInv, Fits
  <2>2. TypeOK /\ KernelInv /\ PrintInv /\ Printing
    BY DEF SnapshotInv, Printing, Complete
  <2>3. queue = <<>> /\ nodes # <<>> /\ up = [i \in 1 .. Len(nodes) |-> LinkOf(i)]
    BY <2>2 DEF PrintInv, Complete
  <2>4. Lines = out
    BY <2>2, <2>3, ConcatEmptySeq DEF Lines, TypeOK
  <2>5. /\ out # <<>> /\ out[1] = 1
        /\ \A i, j \in 1 .. Len(out) : out[i] = out[j] => i = j
        /\ \A i \in 2 .. Len(out) : \E k \in 1 .. Len(out) :
            k < i /\ out[k] = up[out[i]]
        /\ \A c \in 1 .. Len(nodes), k \in 1 .. Len(out) :
            up[c] = out[k] => c \in ToSet(out)
    BY <2>2, <2>4 DEF PrintInv
  <2>6. nodes[out[1]].proc = init
    BY <2>1, <2>3, <2>5 DEF NodesInv
  <2>7. 1 \in ToSet(out)
    <3>1. 1 \in DOMAIN out
      BY <2>2, <2>5 DEF TypeOK
    <3> QED BY <2>5, <3>1 DEF ToSet
  <2>8. ASSUME NEW i \in 2 .. Len(out) PROVE \E j \in 1 .. i - 1 : out[j] = up[out[i]]
    <3>1. PICK k \in 1 .. Len(out) : k < i /\ out[k] = up[out[i]]
      BY <2>5
    <3>2. k \in 1 .. i - 1
      BY <3>1
    <3> QED BY <3>1, <3>2
  <2>9. /\ \A j \in 1 .. Len(nodes) : nodes[j].pid = 1 <=> j = 1
        /\ \A j \in 1 .. Len(nodes) : nodes[j].pid # 1 /\ nodes[j].ppid # 0 =>
             LinkOf(j) \in 1 .. j - 1
    BY <2>1, <2>2, <2>3, LinkIs
  <2>10. ASSUME NEW j \in 1 .. Len(nodes), nodes[j].ppid # 0, j \notin ToSet(out)
         PROVE  \E i \in 1 .. Len(nodes) : up[j] = i /\ i \notin ToSet(out)
    <3>1. nodes[j].pid # 1
      BY <2>7, <2>9, <2>10
    <3>2. up[j] \in 1 .. j - 1
      BY <2>3, <2>9, <2>10, <3>1
    <3>3. up[j] \in 1 .. Len(nodes)
      BY <3>2
    <3>4. up[j] \notin ToSet(out)
      <4>1. SUFFICES ASSUME up[j] \in ToSet(out) PROVE FALSE
        OBVIOUS
      <4>2. PICK k \in DOMAIN out : out[k] = up[j]
        BY <4>1 DEF ToSet
      <4>3. k \in 1 .. Len(out)
        BY <2>2, <4>2 DEF TypeOK
      <4> QED BY <2>5, <2>10, <4>2, <4>3
    <3> QED BY <3>3, <3>4
  <2>11. ASSUME NEW j \in 1 .. Len(nodes), j \notin ToSet(out), nodes[j].ppid = 0
         PROVE  nodes[j].proc = kthreadd
    <3>1. PICK x : x = nodes[j].proc
      OBVIOUS
    <3>2. x >= j /\ x \in Created /\ x <= 2
      BY <2>1, <2>11, <3>1 DEF NodesInv
    <3>3. j # 1
      BY <2>7, <2>11
    <3>4. x = 2
      BY <3>2, <3>3 DEF Created, Procs
    <3> QED BY <3>1, <3>4 DEF kthreadd
  <2> QED BY <2>5, <2>6, <2>8, <2>10, <2>11 DEF PrintedOnce
<1> QED BY <1>1, SnapshotInvariant, PTL

=============================================================================
