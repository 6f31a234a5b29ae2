---------------------------- MODULE ShellProofs ----------------------------
(***************************************************************************)
(* What holds of Shell, on Files and Tarfs, for every archive, every set   *)
(* of processes, every size of the tables and every line and path typed:   *)
(* the types, the counts of descriptors, lookups, cd, ls and pipelines.    *)
(*                                                                         *)
(* None of the properties is inductive.  A count is right (SharersCounted) *)
(* only while a process that does not live holds no slot and what nothing  *)
(* leads to is freed.  Lookups need that every current directory is the    *)
(* path of a header before lib/libc.a; cd needs that all directories on    *)
(* the way to it may be entered, or ".." could not be taken.  For ls one   *)
(* must know, in the middle of a listing, that nothing else leads to its   *)
(* descriptor, and what it has printed.  For pipelines, where each slot of *)
(* a line leads from the moment its pipe is made to the execve.            *)
(*                                                                         *)
(* The proof is in four layers: the tree over the archive (Grown), what    *)
(* each call does (OpenOK, ReadOK, CloseOK, Dup2OK, PipeOK, ForkOK,        *)
(* ExitOK), what a step of one process leaves to the others (StepWorld,    *)
(* ForkWorld, ExitWorld, ExecWorld), and one lemma for each action.        *)
(***************************************************************************)
EXTENDS Shell, NatSets, SequenceTheorems, FiniteSetTheorems, FunctionTheorems

-----------------------------------------------------------------------------
(* Folds.  A fold is a run of values, one for each element; the library     *)
(* defines it by recursion over sets, and its operator is no parameter a    *)
(* lemma could have, so each fold of the model has a lemma of its own.      *)

(* The greatest member of a set. *)
LEMMA MaxIs ==
  ASSUME NEW s, s \subseteq Nat, NEW n \in s, \A x \in s : x <= n
  PROVE Max(s) = n
<1>1. \A x \in s : (\A y \in s : x >= y) => x = n
  BY n \in Nat
<1>. QED
  BY Zenon, <1>1 DEF Max

(* One level down. *)
Down(a, t, x, name) == IF x = NULL THEN NULL ELSE ChildNamed(a, t, x, name)

(* The tree before the first header. *)
Bare(a) == [children |-> [n \in NodesOf(a) |-> <<>>], parent |-> [n \in NodesOf(a) |-> NULL]]

(* Descend, from a node down. *)
LEMMA DescendRuns ==
  ASSUME NEW a, NEW t, NEW node, NEW names, NEW N \in Nat, DOMAIN names = 1 .. N
  PROVE \E h : /\ h[0] = node
               /\ \A m \in Nat : m < N => h[m + 1] = Down(a, t, h[m], names[m + 1])
               /\ Descend(a, t, node, names) = h[N]
<1> DEFINE Value(g, s) == Down(a, t, g[s \ {Max(s)}], names[Max(s)])
           Iter(g, S) == g = [s \in SUBSET S |-> IF s = {} THEN node ELSE Value(g, s)]
           T == {n \in Nat : \E g : Iter(g, 1 .. n)}
<1>1. 0 \in T
  <2>1. Iter([s \in SUBSET (1 .. 0) |-> node], 1 .. 0)
    OBVIOUS
  <2>. QED BY <2>1
<1>2. ASSUME NEW n \in Nat, n \in T PROVE n + 1 \in T
  <2>1. PICK f : Iter(f, 1 .. n)
    BY Zenon, <1>2
  <2> DEFINE g == [s \in SUBSET (1 .. n + 1) |->
                     IF n + 1 \in s THEN Down(a, t, f[s \ {n + 1}], names[n + 1]) ELSE f[s]]
  <2>2. \A s \in SUBSET (1 .. n) : g[s] = f[s] /\ s \in SUBSET (1 .. n + 1)
    OBVIOUS
  <2>3. ASSUME NEW s \in SUBSET (1 .. n + 1)
        PROVE g[s] = IF s = {} THEN node ELSE Value(g, s)
    <3>1. CASE n + 1 \in s
      <4>1. Max(s) = n + 1
        <5>1. s \subseteq Nat /\ \A x \in s : x <= n + 1
          OBVIOUS
        <5>. QED BY Zenon, <3>1, <5>1, MaxIs
      <4>2. s \ {n + 1} \in SUBSET (1 .. n) /\ s # {}
        BY <3>1
      <4>3. g[s \ {n + 1}] = f[s \ {n + 1}]
        BY <4>2, <2>2
      <4>4. g[s] = Down(a, t, f[s \ {n + 1}], names[n + 1])
        BY <3>1
      <4>. QED BY <4>1, <4>2, <4>3, <4>4
    <3>2. CASE n + 1 \notin s
      <4>a. ASSUME NEW x \in s PROVE x \in 1 .. n
        BY <3>2
      <4>b. \A x : s \ {x} \in SUBSET (1 .. n)
        BY Zenon, <4>a
      <4>1. s \in SUBSET (1 .. n) /\ s \ {Max(s)} \in SUBSET (1 .. n)
        BY Zenon, <4>a, <4>b
      <4>2. g[s] = f[s] /\ g[s \ {Max(s)}] = f[s \ {Max(s)}]
        BY <4>1, <2>2
      <4>3. f[s] = IF s = {} THEN node ELSE Value(f, s)
        BY Zenon, <2>1, <4>1
      <4>. QED BY <4>2, <4>3
    <3>. QED BY <3>1, <3>2
  <2>4. Iter(g, 1 .. n + 1)
    BY Zenon, <2>3
  <2>5. \E e : Iter(e, 1 .. n + 1)
    <3> HIDE DEF g, Iter
    <3>. QED BY <2>4
  <2> HIDE DEF Iter
  <2>. QED BY <2>5
<1>3. \E g : Iter(g, 1 .. N)
  <2>1. Nat \subseteq T
    <3> HIDE DEF T
    <3>. QED BY Zenon, <1>1, <1>2, Induction
  <2>. QED BY Zenon, <2>1
<1>4. Descend(a, t, node, names) = (CHOOSE g : Iter(g, 1 .. N))[1 .. N]
  BY DEF Descend, FoldLeft, MapThenFoldSet, Down
<1>5. PICK g : Iter(g, 1 .. N) /\ Descend(a, t, node, names) = g[1 .. N]
  <2>1. Iter(CHOOSE g : Iter(g, 1 .. N), 1 .. N)
    <3> HIDE DEF Iter
    <3>. QED BY <1>3
  <2>. QED BY Zenon, <1>4, <2>1
<1> DEFINE h == [m \in 0 .. N |-> g[1 .. m]]
<1>6. h[0] = node
  <2>1. 1 .. 0 = {}
    OBVIOUS
  <2>. QED BY <1>5, <2>1
<1>7. ASSUME NEW m \in Nat, m < N PROVE h[m + 1] = Down(a, t, h[m], names[m + 1])
  <2>1. 1 .. m + 1 \in SUBSET (1 .. N) /\ 1 .. m + 1 # {} /\ (1 .. m + 1) \ {m + 1} = 1 .. m
    BY <1>7
  <2>2. Max(1 .. m + 1) = m + 1
    <3>1. 1 .. m + 1 \subseteq Nat /\ m + 1 \in 1 .. m + 1 /\ \A x \in 1 .. m + 1 : x <= m + 1
      OBVIOUS
    <3>2. PICK s : s = 1 .. m + 1
      OBVIOUS
    <3>. QED BY Zenon, <3>1, <3>2, MaxIs
  <2>3. g[1 .. m + 1] = Value(g, 1 .. m + 1)
    BY Zenon, <1>5, <2>1
  <2>4. Value(g, 1 .. m + 1) = Down(a, t, g[1 .. m], names[m + 1])
    BY Zenon, <2>1, <2>2
  <2>5. h[m + 1] = g[1 .. m + 1] /\ h[m] = g[1 .. m]
    BY <1>7
  <2>. QED BY <2>3, <2>4, <2>5
<1>8. h[N] = g[1 .. N]
  OBVIOUS
<1> HIDE DEF h
<1>. QED
  BY Zenon, <1>5, <1>6, <1>7, <1>8

(* setupHeirarchyOfTarfs, from no header on. *)
LEMMA TreeRuns ==
  ASSUME NEW a, NEW N \in Nat, Headers(a) = [i \in 1 .. N |-> i]
  PROVE \E h : /\ h[0] = Bare(a)
               /\ \A m \in Nat : m < N => h[m + 1] = Insert(a, h[m], m + 1)
               /\ setupHeirarchyOfTarfs(a) = h[N]
<1> DEFINE node == Bare(a)
           Value(g, s) == Insert(a, g[s \ {Max(s)}], Headers(a)[Max(s)])
           Iter(g, S) == g = [s \in SUBSET S |-> IF s = {} THEN node ELSE Value(g, s)]
           T == {n \in Nat : \E g : Iter(g, 1 .. n)}
<1>1. 0 \in T
  <2>1. Iter([s \in SUBSET (1 .. 0) |-> node], 1 .. 0)
    OBVIOUS
  <2>. QED BY Zenon, <2>1
<1>2. ASSUME NEW n \in Nat, n \in T PROVE n + 1 \in T
  <2>1. PICK f : Iter(f, 1 .. n)
    BY Zenon, <1>2
  <2> DEFINE g == [s \in SUBSET (1 .. n + 1) |->
                     IF n + 1 \in s THEN Insert(a, f[s \ {n + 1}], Headers(a)[n + 1]) ELSE f[s]]
  <2>2. \A s \in SUBSET (1 .. n) : g[s] = f[s] /\ s \in SUBSET (1 .. n + 1)
    OBVIOUS
  <2>3. ASSUME NEW s \in SUBSET (1 .. n + 1)
        PROVE g[s] = IF s = {} THEN node ELSE Value(g, s)
    <3>1. CASE n + 1 \in s
      <4>1. Max(s) = n + 1
        <5>1. s \subseteq Nat /\ \A x \in s : x <= n + 1
          OBVIOUS
        <5>. QED BY Zenon, <3>1, <5>1, MaxIs
      <4>2. s \ {n + 1} \in SUBSET (1 .. n) /\ s # {}
        BY <3>1
      <4>3. g[s \ {n + 1}] = f[s \ {n + 1}]
        BY <4>2, <2>2
      <4>4. g[s] = Insert(a, f[s \ {n + 1}], Headers(a)[n + 1])
        BY <3>1
      <4>. QED BY <4>1, <4>2, <4>3, <4>4
    <3>2. CASE n + 1 \notin s
      <4>a. ASSUME NEW x \in s PROVE x \in 1 .. n
        BY <3>2
      <4>b. \A x : s \ {x} \in SUBSET (1 .. n)
        BY Zenon, <4>a
      <4>1. s \in SUBSET (1 .. n) /\ s \ {Max(s)} \in SUBSET (1 .. n)
        BY Zenon, <4>a, <4>b
      <4>2. g[s] = f[s] /\ g[s \ {Max(s)}] = f[s \ {Max(s)}]
        BY <4>1, <2>2
      <4>3. f[s] = IF s = {} THEN node ELSE Value(f, s)
        BY Zenon, <2>1, <4>1
      <4>. QED BY <4>2, <4>3
    <3>. QED BY <3>1, <3>2
  <2>4. Iter(g, 1 .. n + 1)
    BY Zenon, <2>3
  <2>5. \E e : Iter(e, 1 .. n + 1)
    <3> HIDE DEF g, Iter
    <3>. QED BY <2>4
  <2> HIDE DEF Iter
  <2>. QED BY <2>5
<1>3. \E g : Iter(g, 1 .. N)
  <2>1. Nat \subseteq T
    <3> HIDE DEF T
    <3>. QED BY <1>1, <1>2, Induction
  <2>. QED BY Zenon, <2>1
<1>4. setupHeirarchyOfTarfs(a) = (CHOOSE g : Iter(g, 1 .. N))[1 .. N]
  BY DEF setupHeirarchyOfTarfs, FoldLeft, MapThenFoldSet, Bare
<1>5. PICK g : Iter(g, 1 .. N) /\ setupHeirarchyOfTarfs(a) = g[1 .. N]
  <2>1. Iter(CHOOSE g : Iter(g, 1 .. N), 1 .. N)
    <3> HIDE DEF Iter
    <3>. QED BY <1>3
  <2>. QED BY Zenon, <1>4, <2>1
<1> DEFINE h == [m \in 0 .. N |-> g[1 .. m]]
<1>6. h[0] = node
  <2>1. 1 .. 0 = {}
    OBVIOUS
  <2>. QED BY <1>5, <2>1
<1>7. ASSUME NEW m \in Nat, m < N PROVE h[m + 1] = Insert(a, h[m], m + 1)
  <2>1. 1 .. m + 1 \in SUBSET (1 .. N) /\ 1 .. m + 1 # {} /\ (1 .. m + 1) \ {m + 1} = 1 .. m
    BY <1>7
  <2>2. Max(1 .. m + 1) = m + 1
    <3>1. 1 .. m + 1 \subseteq Nat /\ m + 1 \in 1 .. m + 1 /\ \A x \in 1 .. m + 1 : x <= m + 1
      OBVIOUS
    <3>2. PICK s : s = 1 .. m + 1
      OBVIOUS
    <3>. QED BY Zenon, <3>1, <3>2, MaxIs
  <2>3. g[1 .. m + 1] = Value(g, 1 .. m + 1)
    BY Zenon, <1>5, <2>1
  <2>4. Value(g, 1 .. m + 1) = Insert(a, g[1 .. m], Headers(a)[m + 1])
    BY Zenon, <2>1, <2>2
  <2>5. h[m + 1] = g[1 .. m + 1] /\ h[m] = g[1 .. m]
    BY <1>7
  <2>6. Headers(a)[m + 1] = m + 1
    BY <1>7
  <2> HIDE DEF Value, h
  <2>. QED BY <2>3, <2>4, <2>5, <2>6
<1>8. h[N] = g[1 .. N]
  OBVIOUS
<1> HIDE DEF h
<1>. QED
  BY Zenon, <1>5, <1>6, <1>7, <1>8

-----------------------------------------------------------------------------
(* The archive. *)

(* The headers that are read are those up to lib/libc.a. *)
LastHeader(a) == Len(Headers(a))

(* The headers that are read are the first ones. *)
LEMMA HeadersAre ==
  ASSUME NEW a \in Archives
  PROVE /\ LastHeader(a) \in 0 .. Len(a)
        /\ Headers(a) = [i \in 1 .. LastHeader(a) |-> i]
<1> DEFINE libc == {i \in 1 .. Len(a) : a[i].name = LastOne}
           last == IF libc = {} THEN Len(a) ELSE CHOOSE i \in libc : TRUE
<1>1. Len(a) \in Nat
  BY ArchivesAssumption
<1>2. last \in 0 .. Len(a)
  BY <1>1
<1>3. Headers(a) = [i \in 1 .. last |-> i]
  BY DEF Headers
<1> HIDE DEF last
<1>4. Len(Headers(a)) = last
  <2>1. Headers(a) \in Seq(Nat)
    BY <1>2, <1>3, IsASeq
  <2>. QED BY <1>2, <1>3, <2>1, LenProperties
<1>. QED BY <1>2, <1>3, <1>4 DEF LastHeader

(* The path of a node. *)
PathOf(a, n) == IF n = Root THEN <<>> ELSE a[n].name
(* Paths. *)
Names == Seq(STRING)

(* The sequence of names is one that ends in a name. *)
LEMMA LastStep ==
  ASSUME NEW S, NEW s \in Seq(S), s # <<>>
  PROVE /\ Front(s) \in Seq(S) /\ Last(s) \in S /\ s = Append(Front(s), Last(s))
        /\ Len(Front(s)) = Len(s) - 1
<1>1. Len(s) \in Nat /\ Len(s) > 0 /\ \A i \in 1 .. Len(s) : s[i] \in S
  BY EmptySeq, ElementOfSeq
<1>2. /\ Front(s) \in Seq(S) /\ Len(Front(s)) = Len(s) - 1
      /\ \A i \in 1 .. Len(s) - 1 : Front(s)[i] = s[i]
  <2>1. /\ SubSeq(s, 1, Len(s) - 1) \in Seq(S)
        /\ Len(SubSeq(s, 1, Len(s) - 1)) = IF 1 <= Len(s) - 1 THEN (Len(s) - 1) - 1 + 1 ELSE 0
        /\ \A i \in 1 .. (Len(s) - 1) - 1 + 1 : SubSeq(s, 1, Len(s) - 1)[i] = s[1 + i - 1]
    BY <1>1, SubSeqProperties
  <2>2. Front(s) = SubSeq(s, 1, Len(s) - 1)
    BY DEF Front
  <2>3. PICK n \in Nat : n = Len(s) /\ n > 0
    BY <1>1
  <2>4. /\ Front(s) \in Seq(S)
        /\ Len(Front(s)) = IF 1 <= n - 1 THEN (n - 1) - 1 + 1 ELSE 0
        /\ \A i \in 1 .. (n - 1) - 1 + 1 : Front(s)[i] = s[1 + i - 1]
    BY <2>1, <2>2, <2>3
  <2>5. /\ Len(Front(s)) = n - 1
        /\ \A i \in 1 .. n - 1 : Front(s)[i] = s[i]
    BY <2>3, <2>4
  <2>. QED BY <2>3, <2>4, <2>5
<1>3. Last(s) \in S
  BY <1>1 DEF Last
<1>4. /\ Append(Front(s), Last(s)) \in Seq(S) /\ Len(Append(Front(s), Last(s))) = Len(s)
      /\ \A i \in 1 .. Len(s) - 1 : Append(Front(s), Last(s))[i] = Front(s)[i]
      /\ Append(Front(s), Last(s))[Len(s)] = Last(s)
  <2>1. /\ Append(Front(s), Last(s)) \in Seq(S)
        /\ Len(Append(Front(s), Last(s))) = Len(Front(s)) + 1
        /\ \A i \in 1 .. Len(Front(s)) : Append(Front(s), Last(s))[i] = Front(s)[i]
        /\ Append(Front(s), Last(s))[Len(Front(s)) + 1] = Last(s)
    BY <1>2, <1>3, AppendProperties
  <2>. QED BY <1>1, <1>2, <2>1
<1>5. s \in Seq(S) /\ Last(s) = s[Len(s)]
  BY DEF Last
<1>6. \A i \in 1 .. Len(s) : Append(Front(s), Last(s))[i] = s[i]
  BY <1>1, <1>2, <1>4, <1>5
<1>7. Append(Front(s), Last(s)) = s
  BY <1>4, <1>5, <1>6, SeqEqual
<1>. QED
  BY <1>2, <1>3, <1>7

(* The last element of a sequence comes off again. *)
LEMMA StepBack ==
  ASSUME NEW S, NEW s \in Seq(S), NEW x \in S
  PROVE /\ Append(s, x) \in Seq(S) /\ Front(Append(s, x)) = s /\ Last(Append(s, x)) = x
        /\ Append(s, x) # <<>>
<1>1. /\ Append(s, x) \in Seq(S) /\ Append(s, x) # <<>>
  BY AppendProperties
<1>2. /\ Append(s, x) = Append(Front(Append(s, x)), Last(Append(s, x)))
      /\ Front(Append(s, x)) \in Seq(S) /\ Last(Append(s, x)) \in S
  BY Zenon, <1>1, LastStep
<1>3. \A u \in Seq(S), e \in S : Append(s, x) = Append(u, e) => s = u /\ x = e
  BY AppendInjective
<1>. QED BY <1>1, <1>2, <1>3

(* What the archive holds: paths are distinct, and the directory of a       *)
(* header is the root or an earlier header.                                 *)
LEMMA PathsAre ==
  ASSUME NEW a \in Archives
  PROVE /\ Len(a) \in Nat
        /\ \A n \in NodesOf(a) : PathOf(a, n) \in Names
        /\ \A n \in NodesOf(a) : n # Root => PathOf(a, n) # <<>>
        /\ \A n, x \in NodesOf(a) : PathOf(a, n) = PathOf(a, x) => n = x
        /\ \A i \in 1 .. Len(a) : \E j \in 0 .. i - 1 : PathOf(a, j) = Front(PathOf(a, i))
<1>1. /\ Len(a) \in Nat
      /\ \A i \in 1 .. Len(a) : a[i].name \in Names /\ Len(a[i].name) \in Nat
  <2> DEFINE H == [name : Seq(STRING), fileType : {"dir", "file"}, executable : BOOLEAN,
                   elf : BOOLEAN, fileSize : Nat]
  <2>1. a \in Seq(H)
    BY ArchivesAssumption
  <2>2. \A h \in H : h.name \in Seq(STRING)
    OBVIOUS
  <2> HIDE DEF H
  <2>3. Len(a) \in Nat /\ \A i \in 1 .. Len(a) : a[i] \in H
    BY <2>1, LenProperties, ElementOfSeq
  <2>. QED BY <2>2, <2>3, LenProperties DEF Names
<1>2. \A i \in 1 .. Len(a) : a[i].name # <<>>
  BY <1>1, ParentsFirst DEF Names
<1>3. \A i \in 1 .. Len(a) : PathOf(a, i) = a[i].name
  BY <1>1 DEF PathOf, Root
<1>4. PathOf(a, 0) = <<>> /\ <<>> \in Names
  BY DEF PathOf, Root, Names
<1>5. \A n \in NodesOf(a) : PathOf(a, n) \in Names
  BY <1>1, <1>3, <1>4 DEF NodesOf
<1>6. \A n \in NodesOf(a) : n # Root => PathOf(a, n) # <<>>
  BY <1>2, <1>3 DEF NodesOf, Root
<1>7. \A n, x \in NodesOf(a) : PathOf(a, n) = PathOf(a, x) => n = x
  BY <1>1, <1>2, <1>3, <1>4, ParentsFirst DEF NodesOf
<1>8. ASSUME NEW i \in 1 .. Len(a) PROVE \E j \in 0 .. i - 1 : PathOf(a, j) = Front(PathOf(a, i))
  <2>1. CASE Len(a[i].name) > 1
    <3>1. PICK j \in 1 .. i - 1 : a[j].name = Front(a[i].name)
      BY <2>1, ParentsFirst
    <3>. QED BY <1>1, <1>3, <3>1
  <2>2. CASE Len(a[i].name) = 1
    <3>0. PICK s \in Seq(STRING) : s = a[i].name /\ s # <<>> /\ Len(s) = 1
      BY <1>1, <1>2, <2>2 DEF Names
    <3>1. Front(s) = <<>>
      <4>1. Front(s) \in Seq(STRING) /\ Len(Front(s)) = 0
        BY <3>0, LastStep
      <4>. QED BY <4>1, EmptySeq
    <3>. QED BY <1>1, <1>3, <1>4, <3>0, <3>1
  <2>3. Len(a[i].name) >= 1
    BY ParentsFirst
  <2>4. Len(a[i].name) \in Nat
    BY <1>1
  <2>5. \A n \in Nat : n >= 1 => n > 1 \/ n = 1
    OBVIOUS
  <2>6. Len(a[i].name) > 1 \/ Len(a[i].name) = 1
    BY Zenon, <2>3, <2>4, <2>5
  <2>. QED BY <2>1, <2>2, <2>6
<1>. QED BY <1>1, <1>5, <1>6, <1>7, <1>8

-----------------------------------------------------------------------------
(* The tree over the first headers. *)

(* Siblings are in the order of the archive. *)
Rising(cs) == \A i, j \in 1 .. Len(cs) : i < j => cs[i] < cs[j]

(* The tree t holds the first m headers of archive a. *)
Grown(a, t, m) ==
  /\ t.children \in [NodesOf(a) -> Seq(1 .. m)]
  /\ \A n \in NodesOf(a), i \in 1 .. m :
       (\E q \in 1 .. Len(t.children[n]) : t.children[n][q] = i) <=> Front(PathOf(a, i)) = PathOf(a, n)
  /\ \A n \in NodesOf(a) : Len(t.children[n]) <= m /\ Rising(t.children[n])
  /\ t.parent \in [NodesOf(a) -> 0 .. m \cup {NULL}]
  /\ t.parent[Root] = NULL
  /\ \A i \in 1 .. m : t.parent[i] # NULL /\ PathOf(a, t.parent[i]) = Front(PathOf(a, i))

(* The node of the tree, if there is one, whose path is given. *)
IsNode(a, m, path, r) ==
  /\ r \in 0 .. m \cup {NULL}
  /\ r # NULL => PathOf(a, r) = path
  /\ \A n \in 0 .. m : PathOf(a, n) = path => r = n

(* ChildNamed finds the child of that name. *)
LEMMA ChildFinds ==
  ASSUME NEW a \in Archives, NEW t, NEW m \in 0 .. Len(a), Grown(a, t, m),
         NEW n \in 0 .. m, NEW name \in STRING
  PROVE IsNode(a, m, Append(PathOf(a, n), name), ChildNamed(a, t, n, name))
<1> DEFINE cs == t.children[n]
           full == Append(PathOf(a, n), name)
           found == {i \in 1 .. Len(cs) : FileNameIn(a, cs[i]) = name}
           c == ChildNamed(a, t, n, name)
<1>1. /\ m \in Nat /\ n \in NodesOf(a) /\ Len(a) \in Nat
      /\ \A i \in 0 .. m : i \in NodesOf(a)
  BY PathsAre DEF NodesOf
<1>2. cs \in Seq(1 .. m)
  BY <1>1 DEF Grown
<1>3. Len(cs) \in Nat /\ \A q \in 1 .. Len(cs) : cs[q] \in 1 .. m
  BY Zenon, <1>2, LenProperties, ElementOfSeq
<1>4. \A q \in 1 .. Len(cs) : Front(PathOf(a, cs[q])) = PathOf(a, n)
  BY Zenon, <1>1, <1>3 DEF Grown
<1>5. \A i \in 1 .. m : /\ PathOf(a, i) \in Names /\ PathOf(a, i) # <<>>
                        /\ FileNameIn(a, i) = Last(PathOf(a, i))
  BY <1>1, PathsAre DEF FileNameIn, PathOf, Root
<1>6. \A i \in 1 .. m : PathOf(a, i) = Append(Front(PathOf(a, i)), FileNameIn(a, i))
  BY Zenon, <1>5, LastStep DEF Names
<1>7. PathOf(a, n) \in Names /\ \A x \in 0 .. m : PathOf(a, x) \in Names
  BY <1>1, PathsAre
<1>8. /\ full \in Seq(STRING) /\ Front(full) = PathOf(a, n) /\ Last(full) = name /\ full # <<>>
  BY Zenon, <1>7, StepBack DEF Names
<1>9. \A q \in found : PathOf(a, cs[q]) = full
  BY Zenon, <1>3, <1>4, <1>6
<1>10. ASSUME NEW x \in 0 .. m, PathOf(a, x) = full
       PROVE x # Root /\ \E q \in found : cs[q] = x
  <2>1. x \in 1 .. m
    BY <1>8, <1>10, <1>1 DEF PathOf, Root
  <2>2. Front(PathOf(a, x)) = PathOf(a, n) /\ FileNameIn(a, x) = name
    BY Zenon, <1>5, <1>8, <1>10, <2>1
  <2>3. PICK q \in 1 .. Len(cs) : cs[q] = x
    BY <1>1, <2>1, <2>2 DEF Grown
  <2>. QED BY <2>1, <2>2, <2>3 DEF Root
<1>11. CASE found = {}
  <2>1. c = NULL
    BY <1>11 DEF ChildNamed
  <2> HIDE DEF c, full, found
  <2>. QED BY Zenon, <2>1, <1>10, <1>11 DEF IsNode, c, full
<1>12. CASE found # {}
  <2>1. found \subseteq Nat
    BY <1>3
  <2>2. \E i \in found : \A j \in found : i <= j
    <3> HIDE DEF found
    <3>. QED BY Zenon, <1>12, <2>1, LeastNatural
  <2>3. PICK i \in found : c = cs[i]
    <3>1. c = cs[CHOOSE i \in found : \A j \in found : i <= j]
      BY <1>12 DEF ChildNamed
    <3> HIDE DEF found, c
    <3>. QED BY Zenon, <3>1, <2>2
  <2>4. c \in 1 .. m /\ PathOf(a, c) = full
    BY <2>3, <1>3, <1>9
  <2>5. \A x \in 0 .. m : PathOf(a, x) = full => c = x
    <3> HIDE DEF c, full
    <3>. QED BY <2>4, <1>1, PathsAre
  <2> HIDE DEF c, full
  <2>6. c \in 0 .. m \cup {NULL}
    BY <2>4
  <2>. QED BY <2>4, <2>5, <2>6 DEF IsNode, c, full
<1>. QED BY <1>11, <1>12

(* A path longer by one. *)
LEMMA LongerPath ==
  ASSUME NEW S, NEW s \in Seq(S), NEW names \in Seq(S), NEW q \in Nat, q < Len(names)
  PROVE /\ s \o SubSeq(names, 1, q + 1) = Append(s \o SubSeq(names, 1, q), names[q + 1])
        /\ s \o SubSeq(names, 1, q) \in Seq(S)
<1>0. Len(names) \in Nat /\ q + 1 \in 1 .. Len(names) /\ \A i \in 1 .. Len(names) : names[i] \in S
  BY LenProperties, ElementOfSeq
<1>1. SubSeq(names, 1, q + 1) = SubSeq(names, 1, q) \o <<names[q + 1]>>
  <2>1. PICK z \in 1 .. Len(names) : z = q + 1
    BY <1>0
  <2>2. 1 \in 1 .. Len(names) /\ z \in 1 .. Len(names) /\ z - 1 = q
    BY <1>0, <2>1
  <2>3. SubSeq(names, 1, z) = SubSeq(names, 1, z - 1) \o <<names[z]>>
    BY <2>2, SubSeqRecursiveSecond
  <2>. QED BY <2>1, <2>2, <2>3
<1>2. SubSeq(names, 1, q) \in Seq(S)
  BY <1>0, SubSeqProperties
<1>3. PICK u \in Seq(S) : u = SubSeq(names, 1, q)
  BY Zenon, <1>2
<1>4. PICK e \in S : e = names[q + 1]
  BY <1>0
<1>5. s \o (u \o <<e>>) = (s \o u) \o <<e>> /\ s \o u \in Seq(S)
  <2>1. <<e>> \in Seq(S)
    OBVIOUS
  <2>. QED BY <2>1, ConcatAssociative, ConcatProperties
<1>6. Append(s \o u, e) = (s \o u) \o <<e>>
  BY <1>5, AppendIsConcat
<1>. QED BY Zenon, <1>1, <1>3, <1>4, <1>5, <1>6

(* Descend finds the node of that path, below the node it starts from. *)
LEMMA DescendFinds ==
  ASSUME NEW a \in Archives, NEW t, NEW m \in 0 .. Len(a), Grown(a, t, m),
         NEW node \in 0 .. m, NEW names \in Names
  PROVE IsNode(a, m, PathOf(a, node) \o names, Descend(a, t, node, names))
<1>0. PICK N \in Nat : N = Len(names)
  BY LenProperties DEF Names
<1> DEFINE At0(q) == PathOf(a, node) \o SubSeq(names, 1, q)
<1>1. N \in Nat /\ DOMAIN names = 1 .. N /\ \A q \in 1 .. N : names[q] \in STRING
  BY <1>0, LenProperties, ElementOfSeq DEF Names
<1>2. PICK h : /\ h[0] = node
               /\ \A q \in Nat : q < N => h[q + 1] = Down(a, t, h[q], names[q + 1])
               /\ Descend(a, t, node, names) = h[N]
  <2>1. DOMAIN names = 1 .. N
    BY <1>1
  <2>. QED BY ONLY N \in Nat, <2>1, DescendRuns
<1>3. /\ m \in Nat /\ node \in NodesOf(a) /\ Len(a) \in Nat /\ PathOf(a, node) \in Seq(STRING)
      /\ \A n \in 0 .. m : n \in NodesOf(a) /\ PathOf(a, n) \in Seq(STRING)
  BY PathsAre DEF NodesOf, Names
<1> DEFINE T == {q \in Nat : q <= N => IsNode(a, m, At0(q), h[q])}
<1>4. 0 \in T
  <2>1. At0(0) = PathOf(a, node)
    BY <1>3, SubSeqEmpty, ConcatEmptySeq
  <2>2. IsNode(a, m, PathOf(a, node), h[0])
    BY <1>2, <1>3, PathsAre DEF IsNode
  <2>. QED BY Zenon, <2>1, <2>2
<1>5. ASSUME NEW q \in Nat, q \in T PROVE q + 1 \in T
  <2> SUFFICES ASSUME q + 1 <= N PROVE IsNode(a, m, At0(q + 1), h[q + 1])
    OBVIOUS
  <2>1. IsNode(a, m, At0(q), h[q])
    BY <1>5, <1>1
  <2>2. h[q + 1] = Down(a, t, h[q], names[q + 1]) /\ q < N /\ names[q + 1] \in STRING
    BY <1>1, <1>2
  <2>3. At0(q + 1) = Append(At0(q), names[q + 1]) /\ At0(q) \in Seq(STRING)
    BY Zenon, <1>1, <1>3, <1>0, <2>2, LongerPath DEF Names
  <2>4. PICK path \in Seq(STRING), name \in STRING : path = At0(q) /\ name = names[q + 1]
    BY Zenon, <2>2, <2>3
  <2>5. PICK x : x = h[q]
    OBVIOUS
  <2>6. IsNode(a, m, path, x)
    BY <2>1, <2>4, <2>5
  <2>7. IsNode(a, m, Append(path, name), Down(a, t, x, name))
    <3>1. CASE x = NULL
      <4>1. Down(a, t, x, name) = NULL
        BY <3>1 DEF Down
      <4>2. ASSUME NEW n \in 0 .. m, PathOf(a, n) = Append(path, name) PROVE FALSE
        <5>1. Append(path, name) # <<>> /\ Front(Append(path, name)) = path
          BY Zenon, StepBack
        <5>2. n \in 1 .. Len(a)
          BY <1>3, <4>2, <5>1 DEF PathOf, Root
        <5>3. PICK j \in 0 .. n - 1 : PathOf(a, j) = Front(PathOf(a, n))
          BY <5>2, PathsAre
        <5>4. j \in 0 .. m /\ PathOf(a, j) = path
          BY <1>3, <4>2, <5>1, <5>3
        <5>. QED BY <2>6, <3>1, <5>4, <1>3 DEF IsNode, NULL
      <4>. QED BY Zenon, <4>1, <4>2 DEF IsNode
    <3>2. CASE x # NULL
      <4>1. x \in 0 .. m /\ PathOf(a, x) = path
        BY <2>6, <3>2 DEF IsNode
      <4>2. Down(a, t, x, name) = ChildNamed(a, t, x, name)
        BY <3>2 DEF Down
      <4>. QED BY Zenon, <4>1, <4>2, ChildFinds
    <3>. QED BY Zenon, <3>1, <3>2
  <2> HIDE DEF At0
  <2>. QED BY Zenon, <2>2, <2>3, <2>4, <2>5, <2>7
<1>6. N \in T
  <2> HIDE DEF T
  <2>1. Nat \subseteq T
    BY <1>4, <1>5, Induction
  <2>. QED BY <2>1, <1>1
<1>7. At0(N) = PathOf(a, node) \o names
  BY Zenon, <1>0, SubSeqFull DEF Names
<1>8. IsNode(a, m, At0(N), h[N])
  BY <1>1, <1>6
<1> HIDE DEF At0
<1>. QED BY <1>2, <1>7, <1>8

(* The tree u is t with header i as the last child of node up. *)
Inserted(a, t, u, i, up) ==
  /\ PathOf(a, up) = Front(PathOf(a, i))
  /\ u.children = [t.children EXCEPT ![up] = Append(@, i)]
  /\ u.parent = [t.parent EXCEPT ![i] = up]

(* What Insert does to a tree. *)
LEMMA InsertIs ==
  ASSUME NEW a \in Archives, NEW t, NEW m \in 0 .. Len(a), m < Len(a), Grown(a, t, m)
  PROVE \E up \in 0 .. m : Inserted(a, t, Insert(a, t, m + 1), m + 1, up)
<1> DEFINE names == Front(PathOf(a, m + 1))
           up == Descend(a, t, Root, names)
<1>1. /\ Len(a) \in Nat /\ m \in Nat /\ m + 1 \in 1 .. Len(a) /\ m + 1 \in NodesOf(a)
      /\ PathOf(a, m + 1) = a[m + 1].name
  BY PathsAre DEF NodesOf, PathOf, Root
<1>2. names \in Names /\ \E j \in 0 .. m : PathOf(a, j) = names
  <2>1. PathOf(a, m + 1) \in Seq(STRING) /\ PathOf(a, m + 1) # <<>>
    BY <1>1, PathsAre DEF Names, Root
  <2>2. PICK j \in 0 .. m + 1 - 1 : PathOf(a, j) = names
    BY <1>1, PathsAre
  <2>. QED BY <1>1, <2>1, <2>2, LastStep DEF Names
<1>3. IsNode(a, m, PathOf(a, Root) \o names, up)
  <2>1. Root \in 0 .. m
    BY <1>1 DEF Root
  <2> HIDE DEF names
  <2>. QED BY <1>2, <2>1, DescendFinds
<1>4. PathOf(a, Root) \o names = names
  BY <1>2, ConcatEmptySeq DEF PathOf, Names
<1>5. up \in 0 .. m /\ PathOf(a, up) = names
  BY Zenon, <1>1, <1>2, <1>3, <1>4 DEF IsNode
<1>6. Insert(a, t, m + 1) = [children |-> [t.children EXCEPT ![up] = Append(@, m + 1)],
                             parent |-> [t.parent EXCEPT ![m + 1] = up]]
  BY Zenon, <1>1 DEF Insert
<1>7. /\ Insert(a, t, m + 1).children = [t.children EXCEPT ![up] = Append(@, m + 1)]
      /\ Insert(a, t, m + 1).parent = [t.parent EXCEPT ![m + 1] = up]
  <2>1. PICK c, q, v : /\ c = [t.children EXCEPT ![up] = Append(@, m + 1)]
                       /\ q = [t.parent EXCEPT ![m + 1] = up] /\ v = Insert(a, t, m + 1)
    OBVIOUS
  <2>2. v = [children |-> c, parent |-> q]
    BY Zenon, <1>6, <2>1
  <2>3. v.children = c /\ v.parent = q
    BY ONLY <2>2
  <2>. QED BY Zenon, <2>1, <2>3
<1>8. PathOf(a, up) = Front(PathOf(a, m + 1))
  BY <1>5
<1> HIDE DEF up
<1>. QED BY Zenon, <1>5, <1>7, <1>8 DEF Inserted

(* One more header. *)
LEMMA InsertGrows ==
  ASSUME NEW a \in Archives, NEW t, NEW m \in 0 .. Len(a), m < Len(a), Grown(a, t, m)
  PROVE Grown(a, Insert(a, t, m + 1), m + 1)
<1>0. PICK u : u = Insert(a, t, m + 1)
  OBVIOUS
<1>i. \E up \in 0 .. m : Inserted(a, t, Insert(a, t, m + 1), m + 1, up)
  BY InsertIs
<1>1. PICK up \in 0 .. m :
          /\ PathOf(a, up) = Front(PathOf(a, m + 1))
          /\ u.children = [t.children EXCEPT ![up] = Append(@, m + 1)]
          /\ u.parent = [t.parent EXCEPT ![m + 1] = up]
  BY Zenon, <1>0, <1>i DEF Inserted
<1>2. /\ m \in Nat /\ Len(a) \in Nat /\ up \in NodesOf(a) /\ m + 1 \in NodesOf(a)
      /\ \A i \in 0 .. m + 1 : i \in NodesOf(a)
  BY PathsAre DEF NodesOf
<1>3. \A n \in NodesOf(a) : t.children[n] \in Seq(1 .. m + 1)
  <2>1. ASSUME NEW n \in NodesOf(a) PROVE t.children[n] \in Seq(1 .. m + 1)
    <3>1. t.children[n] \in Seq(1 .. m)
      BY DEF Grown
    <3>2. 1 .. m \subseteq 1 .. m + 1
      BY <1>2
    <3>. QED BY <3>1, <3>2, SeqMonotonic
  <2>. QED BY <2>1
<1>4. PICK cs \in Seq(1 .. m + 1) : cs = t.children[up]
  BY <1>2, <1>3
<1>5. /\ Append(cs, m + 1) \in Seq(1 .. m + 1) /\ Len(cs) \in Nat
      /\ Len(Append(cs, m + 1)) = Len(cs) + 1
      /\ \A i \in 1 .. Len(cs) : Append(cs, m + 1)[i] = cs[i]
      /\ Append(cs, m + 1)[Len(cs) + 1] = m + 1
  <2>1. m + 1 \in 1 .. m + 1
    BY <1>2
  <2>. QED BY <2>1, AppendProperties, LenProperties
<1>6. DOMAIN t.children = NodesOf(a)
  BY DEF Grown
<1>7. /\ u.children[up] = Append(cs, m + 1)
      /\ \A n \in NodesOf(a) : n # up => u.children[n] = t.children[n]
      /\ DOMAIN u.children = NodesOf(a)
      /\ u.children = [n \in NodesOf(a) |-> u.children[n]]
  BY Zenon, <1>1, <1>2, <1>4, <1>6
<1>8. u.children \in [NodesOf(a) -> Seq(1 .. m + 1)]
  <2>1. \A n \in NodesOf(a) : u.children[n] \in Seq(1 .. m + 1)
    BY Zenon, <1>3, <1>5, <1>7
  <2>. QED BY <1>7, <2>1
<1>9. ASSUME NEW n \in NodesOf(a), NEW i \in 1 .. m + 1
      PROVE (\E q \in 1 .. Len(u.children[n]) : u.children[n][q] = i)
              <=> Front(PathOf(a, i)) = PathOf(a, n)
  <2>1. n = up <=> PathOf(a, n) = Front(PathOf(a, m + 1))
    BY Zenon, <1>1, <1>2, PathsAre
  <2>2. Len(t.children[n]) \in Nat /\ \A q \in 1 .. Len(t.children[n]) : t.children[n][q] \in 1 .. m
    <3>1. t.children[n] \in Seq(1 .. m)
      BY DEF Grown
    <3>. QED BY Zenon, <3>1, LenProperties, ElementOfSeq
  <2>3. CASE i = m + 1
    <3>1. CASE n = up
      <4>1. Len(cs) + 1 \in 1 .. Len(u.children[n]) /\ u.children[n][Len(cs) + 1] = i
        BY <1>5, <1>7, <2>3, <3>1
      <4>. QED BY <2>1, <2>3, <3>1, <4>1
    <3>2. CASE n # up
      <4>1. u.children[n] = t.children[n]
        BY <1>7, <3>2
      <4>2. \A q \in 1 .. Len(u.children[n]) : u.children[n][q] # i
        BY <1>2, <2>2, <2>3, <4>1
      <4>. QED BY <2>1, <2>3, <3>2, <4>2
    <3>. QED BY <3>1, <3>2
  <2>4. CASE i # m + 1
    <3>1. i \in 1 .. m
      BY <1>2, <2>4
    <3>2. (\E q \in 1 .. Len(t.children[n]) : t.children[n][q] = i)
            <=> Front(PathOf(a, i)) = PathOf(a, n)
      BY <3>1 DEF Grown
    <3>3. CASE n = up
      <4>1. (\E q \in 1 .. Len(u.children[n]) : u.children[n][q] = i)
              <=> \E q \in 1 .. Len(t.children[n]) : t.children[n][q] = i
        <5>1. u.children[n] = Append(cs, m + 1) /\ t.children[n] = cs
          BY <1>4, <1>7, <3>3
        <5>2. ASSUME NEW q \in 1 .. Len(u.children[n]), u.children[n][q] = i
              PROVE q \in 1 .. Len(cs) /\ cs[q] = i
          BY <5>1, <5>2, <1>5, <2>4
        <5>3. ASSUME NEW q \in 1 .. Len(cs), cs[q] = i
              PROVE q \in 1 .. Len(u.children[n]) /\ u.children[n][q] = i
          BY <5>1, <5>3, <1>5
        <5>. QED BY Zenon, <5>1, <5>2, <5>3
      <4>. QED BY Zenon, <3>2, <4>1
    <3>4. CASE n # up
      BY Zenon, <1>7, <3>2, <3>4
    <3>. QED BY <3>3, <3>4
  <2>. QED BY Zenon, <2>3, <2>4
<1>p. /\ t.parent \in [NodesOf(a) -> 0 .. m \cup {NULL}] /\ t.parent[Root] = NULL
      /\ \A i \in 1 .. m : t.parent[i] # NULL /\ PathOf(a, t.parent[i]) = Front(PathOf(a, i))
  BY DEF Grown
<1>q. /\ u.parent \in [NodesOf(a) -> 0 .. m + 1 \cup {NULL}]
      /\ u.parent[m + 1] = up /\ \A n \in NodesOf(a) : n # m + 1 => u.parent[n] = t.parent[n]
  <2>1. up \in 0 .. m + 1 /\ \A x \in 0 .. m \cup {NULL} : x \in 0 .. m + 1 \cup {NULL}
    BY <1>2
  <2>. QED BY <1>1, <1>2, <1>p, <2>1
<1>10. /\ u.parent \in [NodesOf(a) -> 0 .. m + 1 \cup {NULL}]
       /\ u.parent[Root] = NULL
  <2>1. Root \in NodesOf(a) /\ Root # m + 1
    BY <1>2 DEF Root
  <2>. QED BY <1>p, <1>q, <2>1
<1>11. ASSUME NEW i \in 1 .. m + 1
       PROVE u.parent[i] # NULL /\ PathOf(a, u.parent[i]) = Front(PathOf(a, i))
  <2>1. CASE i = m + 1
    BY <1>1, <1>2, <1>q, <2>1 DEF NULL
  <2>2. CASE i # m + 1
    <3>1. i \in 1 .. m
      BY <1>2, <2>2
    <3>. QED BY <1>2, <1>p, <1>q, <2>2, <3>1
  <2>. QED BY <2>1, <2>2
<1>s. ASSUME NEW n \in NodesOf(a) PROVE Rising(u.children[n])
  <2>0. t.children[n] \in Seq(1 .. m) /\ Rising(t.children[n])
    BY DEF Grown
  <2>1. CASE n # up
    BY <1>7, <2>0, <2>1
  <2>2. CASE n = up
    <3>1. Rising(cs) /\ \A i \in 1 .. Len(cs) : cs[i] \in 1 .. m
      BY Zenon, <1>4, <2>0, <2>2, ElementOfSeq
    <3>2. PICK z : z = Append(cs, m + 1) /\ z = u.children[n]
      BY Zenon, <1>7, <2>2
    <3>3. PICK c \in Nat : c = Len(cs) /\ Len(z) = c + 1 /\ z[c + 1] = m + 1 /\ \A i \in 1 .. c : z[i] = cs[i]
      BY Zenon, <1>5, <3>2
    <3>4. ASSUME NEW i \in 1 .. c + 1, NEW j \in 1 .. c + 1, i < j PROVE z[i] < z[j]
      <4>1. i \in 1 .. c /\ z[i] = cs[i] /\ cs[i] \in 1 .. m
        BY <3>1, <3>3, <3>4
      <4>2. CASE j = c + 1
        BY <1>2, <3>3, <4>1, <4>2
      <4>3. CASE j # c + 1
        <5>1. j \in 1 .. c /\ z[j] = cs[j]
          BY ONLY <3>3, <4>3, j \in 1 .. c + 1, c \in Nat
        <5>2. cs[i] < cs[j]
          BY ONLY <3>1, <3>3, <3>4, <4>1, <5>1 DEF Rising
        <5>. QED BY Zenon, <4>1, <5>1, <5>2
      <4>. QED BY <4>2, <4>3
    <3>. QED BY Zenon, <3>2, <3>3, <3>4 DEF Rising
  <2>. QED BY <2>1, <2>2
<1>r. ASSUME NEW n \in NodesOf(a) PROVE Len(u.children[n]) <= m + 1
  <2>1. Len(t.children[n]) <= m /\ Len(t.children[n]) \in Nat
    <3>1. t.children[n] \in Seq(1 .. m)
      BY DEF Grown
    <3>. QED BY <3>1, LenProperties DEF Grown
  <2>2. CASE n = up
    <3>1. PICK c \in Nat : c = Len(cs) /\ c <= m /\ Len(u.children[n]) = c + 1
      BY Zenon, <1>4, <1>5, <1>7, <2>1, <2>2
    <3>. QED BY <1>2, <3>1
  <2>3. CASE n # up
    <3>1. PICK c \in Nat : c = Len(t.children[n]) /\ c <= m /\ Len(u.children[n]) = c
      BY Zenon, <1>7, <2>1, <2>3
    <3>. QED BY <1>2, <3>1
  <2>. QED BY <2>2, <2>3
<1>12. Grown(a, u, m + 1)
  BY <1>8, <1>r, <1>s, <1>9, <1>10, <1>11 DEF Grown
<1>. QED BY <1>0, <1>12

(* What setupHeirarchyOfTarfs builds.                                       *)
LEMMA SetupGrown ==
  ASSUME NEW a \in Archives
  PROVE \E h : /\ \A m \in 0 .. LastHeader(a) : Grown(a, h[m], m)
               /\ h[0] = Bare(a)
               /\ \A m \in Nat : m < LastHeader(a) => h[m + 1] = Insert(a, h[m], m + 1)
               /\ setupHeirarchyOfTarfs(a) = h[LastHeader(a)]
<1>1. PICK N \in Nat : N = LastHeader(a) /\ N <= Len(a) /\ Headers(a) = [i \in 1 .. N |-> i]
  BY HeadersAre, PathsAre
<1>2. PICK h : /\ h[0] = Bare(a)
               /\ \A m \in Nat : m < N => h[m + 1] = Insert(a, h[m], m + 1)
               /\ setupHeirarchyOfTarfs(a) = h[N]
  <2>1. Headers(a) = [i \in 1 .. N |-> i]
    BY <1>1
  <2>. QED BY ONLY N \in Nat, <2>1, TreeRuns
<1> DEFINE T == {m \in Nat : m <= N => Grown(a, h[m], m)}
<1>3. 0 \in T
  <2>1. Len(a) \in Nat
    BY PathsAre
  <2>2. /\ Bare(a).children = [n \in NodesOf(a) |-> <<>>]
        /\ Bare(a).parent = [n \in NodesOf(a) |-> NULL]
    BY DEF Bare
  <2>3. /\ <<>> \in Seq(1 .. 0) /\ Len(<<>>) = 0
    BY EmptySeq
  <2>4. 0 \in NodesOf(a)
    BY <2>1 DEF NodesOf
  <2>5. Grown(a, Bare(a), 0)
    BY <2>2, <2>3, <2>4 DEF Grown, Root, Rising
  <2>. QED BY <1>2, <2>5
<1>4. ASSUME NEW m \in Nat, m \in T PROVE m + 1 \in T
  <2> SUFFICES ASSUME m + 1 <= N PROVE Grown(a, h[m + 1], m + 1)
    OBVIOUS
  <2>1. /\ m \in 0 .. Len(a) /\ m < Len(a) /\ m < N /\ Grown(a, h[m], m)
    BY <1>1, <1>4, PathsAre
  <2>2. PICK t : t = h[m]
    OBVIOUS
  <2>3. Grown(a, Insert(a, t, m + 1), m + 1)
    BY <2>1, <2>2, InsertGrows
  <2>. QED BY <1>2, <2>1, <2>2, <2>3
<1>5. \A m \in 0 .. N : Grown(a, h[m], m)
  <2>1. Nat \subseteq T
    <3> HIDE DEF T
    <3>. QED BY <1>3, <1>4, Induction
  <2>. QED BY <2>1
<1>. QED BY <1>1, <1>2, <1>5

(* The place of a sibling is the number of siblings up to it.              *)
LEMMA PlaceIs ==
  ASSUME NEW M \in Nat, NEW cs \in Seq(1 .. M), Rising(cs), NEW S,
         \A n : n \in S <=> \E i \in 1 .. Len(cs) : cs[i] = n
  PROVE /\ Cardinality(S) = Len(cs)
        /\ \A q \in 1 .. Len(cs) : Cardinality({e \in S : e <= cs[q]}) = q
<1>1. PICK c \in Nat : c = Len(cs)
  BY LenProperties
<1>2. \A i \in 1 .. c : cs[i] \in 1 .. M
  BY <1>1, ElementOfSeq
<1>3. \A i, j \in 1 .. c : i < j => cs[i] < cs[j]
  BY <1>1 DEF Rising
<1>4. ASSUME NEW q \in 0 .. c, NEW T, \A n : n \in T <=> \E i \in 1 .. q : cs[i] = n
      PROVE Cardinality(T) = q
  <2>1. PICK f : f = [i \in 1 .. q |-> cs[i]]
    BY Zenon
  <2>2. f \in [1 .. q -> T] /\ \A n \in T : \E i \in 1 .. q : f[i] = n
    BY <1>4, <2>1
  <2>3. \A i, j \in 1 .. q : f[i] = f[j] => i = j
    <3>1. ASSUME NEW i \in 1 .. q, NEW j \in 1 .. q, f[i] = f[j] PROVE i = j
      <4>1. cs[i] = cs[j] /\ cs[i] \in Int /\ i \in 1 .. c /\ j \in 1 .. c
        BY <1>2, <2>1, <3>1
      <4>. QED BY <1>3, <4>1
    <3>. QED BY <3>1
  <2>4. f \in Bijection(1 .. q, T)
    BY <2>2, <2>3 DEF Bijection, Injection, Surjection, IsInjective
  <2>5. ExistsBijection(1 .. q, T)
    BY <2>4 DEF ExistsBijection
  <2>6. IsFiniteSet(1 .. q) /\ Cardinality(1 .. q) = q
    BY FS_Interval
  <2>. QED BY <2>5, <2>6, FS_Bijection
<1>5. Cardinality(S) = c
  BY <1>1, <1>4
<1>6. ASSUME NEW q \in 1 .. c PROVE Cardinality({e \in S : e <= cs[q]}) = q
  <2>1. PICK T : T = {e \in S : e <= cs[q]}
    BY Zenon
  <2>2. \A n : n \in T <=> \E i \in 1 .. q : cs[i] = n
    <3>1. ASSUME NEW n \in T PROVE \E i \in 1 .. q : cs[i] = n
      <4>1. PICK i \in 1 .. c : cs[i] = n /\ n <= cs[q]
        BY <1>1, <2>1, <3>1
      <4>2. ~(q < i)
        BY <1>2, <1>3, <4>1
      <4>. QED BY <4>1, <4>2
    <3>2. ASSUME NEW i \in 1 .. q PROVE cs[i] \in T
      <4>1. i \in 1 .. c /\ cs[i] \in Int /\ cs[q] \in Int /\ (i = q \/ i < q)
        BY <1>2
      <4>2. cs[i] <= cs[q]
        BY <1>3, <4>1
      <4>. QED BY <1>1, <2>1, <4>1, <4>2
    <3>. QED BY <3>1, <3>2
  <2>3. Cardinality(T) = q
    BY <1>4, <2>2
  <2>. QED BY <2>1, <2>3
<1>. QED BY <1>1, <1>5, <1>6

-----------------------------------------------------------------------------
(* The inductive invariant, of explicit parameters: a kernel state s, the   *)
(* living processes L, the place l and the memory m of a process.           *)

(* The path from the root. *)
Full(dir, path) == IF path.abs THEN path.names ELSE dir \o path.names

(* The last header the tree has. *)
Top == LastHeader(archive)
(* A directory of mode 755. *)
Dirs755(n) == FileType(n) = "dir" /\ Is755(n)

(* u is where one passes on the way to v. *)
OnTheWay(u, v) == Len(u) <= Len(v) /\ \A i \in 1 .. Len(u) : u[i] = v[i]

(* Every directory from the root down to n may be entered. *)
Entered(n) == \A x \in 0 .. Top : OnTheWay(FilePath(x), FilePath(n)) => Dirs755(x)

(* The tree is the one that is built at boot; it never changes. *)
TreeBuilt == archive \in Archives /\ tree = setupHeirarchyOfTarfs(archive)

(* A descriptor in use. *)
IsFd(f) ==
  /\ f = [fdType |-> f.fdType, offset |-> f.offset, perm |-> f.perm, refCount |-> f.refCount,
          file_ptr |-> f.file_ptr, pipe_ptr |-> f.pipe_ptr]
  /\ f.fdType \in {"STDFILETYPE", "TARFILE", "PIPEREAD", "PIPEWRITE"}
  /\ f.refCount \in 0 .. W64 - 1 /\ f.offset \in 0 .. W64 - 1
  /\ f.file_ptr \in IF f.fdType = "TARFILE" THEN 0 .. Top ELSE {NULL}

(* Types of a kernel state, what a table leads to is in use.               *)
KernelOK(s) ==
  /\ s = [fds |-> s.fds, desc |-> s.desc, pipes |-> s.pipes, cwd |-> s.cwd]
  /\ s.fds \in [Procs -> [Slots -> Descs \cup {NULL}]]
  /\ s.desc = [d \in Descs |-> s.desc[d]]
  /\ \A d \in Descs : s.desc[d] = Unused \/ IsFd(s.desc[d])
  /\ \A p \in Procs, i \in Slots : s.fds[p][i] # NULL => s.desc[s.fds[p][i]] # Unused
  /\ s.cwd = [p \in Procs |-> s.cwd[p]]
  /\ \A p \in Procs : \E n \in 0 .. Top : s.cwd[p] = FilePath(n) /\ Entered(n)

(* The descriptors that slots lead to. *)
Held(s) == {d \in Descs : \E p \in Procs, i \in Slots : s.fds[p][i] = d}
(* What no slot leads to has been freed. *)
Tidy(s) == \A d \in Descs : d \notin Held(s) => s.desc[d] = Unused
(* The slots of living processes that lead to d. *)
Holders(s, L, d) == {x \in L \X Slots : s.fds[x[1]][x[2]] = d}
(* Only these are counted exactly; the ends of pipes are not (see README). *)
CountedTypes == {"STDFILETYPE", "TARFILE"}
(* The counts are those of the slots. *)
Counted(s, L) ==
  \A d \in Descs : s.desc[d] # Unused /\ s.desc[d].fdType \in CountedTypes =>
     s.desc[d].refCount = Cardinality(Holders(s, L, d))

(* A process that does not live holds nothing. *)
Idle(s, L) == \A p \in Procs \ L, i \in Slots : s.fds[p][i] = NULL
(* What every call needs and keeps. *)
Sound(s, L) == KernelOK(s) /\ Counted(s, L) /\ Idle(s, L)

(* The ends of pipes. *)
Ends == {"PIPEREAD", "PIPEWRITE"}
(* From the first fork of a line on, all its pipes are made. *)
AfterPipes == {"fork", "wait", "waiting", "waited", "closing", "stdin", "stdout", "close",
               "exec", "wait path", "waiting path", "path"}
(* The fields of a memory. *)
IsMem(m) == m = [line |-> m.line, index |-> m.index, pipesfd |-> m.pipesfd, pipes |-> m.pipes,
                 fd |-> m.fd, args |-> m.args, out |-> m.out, ret |-> m.ret, bg |-> m.bg]

(* What holds of a process p that is at l with memory m, in a kernel state s. *)
ShellFds(l, s, p) ==
  l \in ShellAt => \A i \in Slots : s.fds[p][i] # NULL =>
     s.desc[s.fds[p][i]].fdType \in IF i <= 2 THEN {"STDFILETYPE"} \cup Ends ELSE Ends

(* What the shell remembers, at each place: the slots of its pipes are no   *)
(* standard ones.                                                           *)
ShellMem(l, m) ==
  /\ IsMem(m)
  /\ l = "cd" => m.line \in Lines /\ m.line.kind = "cd"
  /\ l \in ShellAt => /\ m.pipesfd \in Seq(3 .. NumSlots - 1)
                      /\ Len(m.pipes) \in Nat /\ m.pipes = [i \in 1 .. Len(m.pipes) |-> m.pipes[i]]
                      /\ Len(m.pipesfd) = 2 * Len(m.pipes)
  /\ l \in {"parse", "pipe"} \cup AfterPipes => m.line \in Lines /\ m.line.kind = "run"
  /\ l \in {"parse", "pipe"} => m.index = 0 /\ Len(m.pipes) <= PipesCount(m)
  /\ l \in AfterPipes => Len(m.pipes) = PipesCount(m)
  /\ l \in AfterPipes \ {"closing"} => m.index \in 0 .. PipesCount(m)
  /\ l = "closing" => m.index \in 0 .. Len(m.pipesfd)
  /\ l \in {"ls", "readdir", "listed", "cat", "cat read"} => m.args \in Seq(PathType)
  /\ l = "ls" => m.out = <<>>
  /\ l = "cat read" => m.fd \in 3 .. NumSlots - 1

(* No other slot leads where slot i of p does. *)
Mine(s, p, i) == \A q \in Procs, j \in Slots : s.fds[q][j] = s.fds[p][i] => q = p /\ j = i

(* The directory that ls lists. *)
Asked(m, s, p) == IF m.args = <<>> THEN s.cwd[p] ELSE Full(s.cwd[p], m.args[1])

(* What ls has printed is the names of the first children of its directory, *)
(* and the offset of its descriptor is their number.                        *)
Listing(l, m, s, p) ==
  l \in {"readdir", "listed"} =>
    LET d == s.fds[p][m.fd]
        f == s.desc[d]
        cs == tree.children[f.file_ptr]
    IN /\ m.fd \in 3 .. NumSlots - 1 /\ d # NULL /\ Mine(s, p, m.fd)
       /\ f.fdType = "TARFILE" /\ FilePath(f.file_ptr) = Asked(m, s, p) /\ FileType(f.file_ptr) = "dir"
       /\ Len(m.out) \in 0 .. Len(cs)
       /\ m.out = [i \in 1 .. Len(m.out) |-> FileNameIn(archive, cs[i])]
       /\ l = "readdir" => f.offset = Len(m.out)
       /\ l = "listed" => Len(m.out) = Len(cs)

(* Lines of one or two commands (with three, sys_pipe takes a slot in use).  *)
ShortLines == \A line \in Lines : line.kind = "run" => Len(line.cmds) <= 2

(* Slot i leads to an end of pipe x. *)
On(s, p, i, type, x) ==
  /\ i \in Slots /\ s.fds[p][i] # NULL
  /\ s.desc[s.fds[p][i]].fdType = type /\ s.desc[s.fds[p][i]].pipe_ptr = x
(* Slot i leads to a standard descriptor. *)
Std(s, p, i) == i \in Slots /\ s.fds[p][i] # NULL /\ s.desc[s.fds[p][i]].fdType = "STDFILETYPE"
(* Where a command of the line reads. *)
Input(m, s, p) == IF m.index = 0 THEN Std(s, p, 0) ELSE On(s, p, 0, "PIPEREAD", m.pipes[m.index])
(* Where a command of the line writes. *)
Output(m, s, p) ==
  IF m.index = Len(m.pipes) THEN Std(s, p, 1) ELSE On(s, p, 1, "PIPEWRITE", m.pipes[m.index + 1])
(* The slots the shell remembers of its one pipe still lead to it. *)
OnPipes(m, s, p) ==
  Len(m.pipes) = 1 =>
    /\ On(s, p, m.pipesfd[1], "PIPEREAD", m.pipes[1])
    /\ m.index = 0 => On(s, p, m.pipesfd[2], "PIPEWRITE", m.pipes[1])

(* Places with both standard descriptors untouched. *)
Before == {"prompt", "cd", "parse", "pipe", "fork", "wait", "waiting", "waited", "closing", "stdin"}
(* Places where the pipe is still needed. *)
WithPipes == {"parse", "pipe", "fork", "wait", "waiting", "waited", "stdin", "stdout"}
(* Places where the child of a line is connected. *)
Later == {"close", "exec", "wait path", "waiting path", "path",
          "ls", "readdir", "listed", "cat", "cat read"}

(* A pipeline on its way from the shell to its commands. *)
Plumbed(l, m, s, p) ==
  ShortLines =>
    /\ l \in Before => Std(s, p, 0) /\ Std(s, p, 1)
    /\ l \in WithPipes => OnPipes(m, s, p)
    /\ l \in {"stdout"} \cup Later => Input(m, s, p)
    /\ l = "stdout" => Std(s, p, 1)
    /\ l \in Later => Output(m, s, p)

(* What holds of one process. *)
Parts(l, m, s, p) ==
  ShellFds(l, s, p) /\ ShellMem(l, m) /\ Listing(l, m, s, p) /\ Plumbed(l, m, s, p)

(* What holds of all processes. *)
World(s, L, pcs, ms) ==
  /\ L \subseteq Procs /\ Sound(s, L) /\ Tidy(s)
  /\ pcs = [p \in Procs |-> pcs[p]] /\ ms = [p \in Procs |-> ms[p]]
  /\ \A p \in Procs : p \in L <=> pcs[p] # "none"
  /\ \A p \in L : Parts(pcs[p], ms[p], s, p)

(* No process is its own parent. *)
Parents(up) == up \in [Procs -> Procs \cup {NULL}] /\ \A p \in Procs : up[p] # p

(* The inductive invariant. *)
IInv == TreeBuilt /\ Parents(parentPCB) /\ World(k, live, pc, mem)

-----------------------------------------------------------------------------
(* Lookups. *)

(* What the tree is when the system has booted. *)
LEMMA TreeIs ==
  ASSUME TreeBuilt
  PROVE /\ archive \in Archives /\ Top \in 0 .. Len(archive) /\ Top \in Nat /\ Len(archive) \in Nat
        /\ Grown(archive, tree, Top)
        /\ \A n : FilePath(n) = PathOf(archive, n)
        /\ Known = 0 .. Top
        /\ \A n \in 0 .. Top : n \in NodesOf(archive) /\ FilePath(n) \in Names
<1>1. archive \in Archives /\ tree = setupHeirarchyOfTarfs(archive)
  BY DEF TreeBuilt
<1>2. PICK a \in Archives : a = archive
  BY <1>1
<1>3. /\ Len(a) \in Nat /\ LastHeader(a) \in 0 .. Len(a)
      /\ Headers(a) = [i \in 1 .. LastHeader(a) |-> i]
  BY PathsAre, HeadersAre
<1>4. \E h : (\A m \in 0 .. LastHeader(a) : Grown(a, h[m], m))
             /\ setupHeirarchyOfTarfs(a) = h[LastHeader(a)]
  BY SetupGrown
<1>5. Grown(a, setupHeirarchyOfTarfs(a), LastHeader(a))
  BY <1>3, <1>4
<1>6. \A n : FilePath(n) = PathOf(archive, n)
  BY DEF FilePath, PathOf
<1>7. Known = 0 .. Top
  <2>1. DOMAIN Headers(archive) = 1 .. Top
    BY <1>2, <1>3 DEF Top
  <2>2. Known = {n \in 0 .. Len(a) : n = 0 \/ n \in 1 .. Top}
    BY <1>2, <2>1 DEF Known, NodesOf, Root
  <2>. QED BY <1>2, <1>3, <2>2 DEF Top
<1>8. \A n \in 0 .. Top : n \in NodesOf(archive) /\ FilePath(n) \in Names
  <2>1. \A n \in 0 .. Top : n \in NodesOf(a)
    BY <1>2, <1>3 DEF NodesOf, Top
  <2>2. \A n \in NodesOf(a) : PathOf(a, n) \in Names
    BY PathsAre
  <2>. QED BY <1>2, <1>6, <2>1, <2>2
<1>. QED BY <1>1, <1>2, <1>3, <1>5, <1>6, <1>7, <1>8 DEF Top

(* The root, and the node of that path. *)
Found(path, r) == IsNode(archive, Top, path, r)

(* There is one node of a path. *)
LEMMA SameNode ==
  ASSUME NEW path, NEW r, NEW u, Found(path, r), Found(path, u)
  PROVE r = u
  BY DEF Found, IsNode

(* lookUpForFile finds the node of the path, if there is one. *)
LEMMA LookUpFinds ==
  ASSUME TreeBuilt, NEW n \in 0 .. Top, NEW path \in PathType
  PROVE Found(Full(FilePath(n), path), lookUpForFile(FilePath(n), path))
<1>1. /\ archive \in Archives /\ Top \in 0 .. Len(archive) /\ Top \in Nat
      /\ Grown(archive, tree, Top) /\ \A x : FilePath(x) = PathOf(archive, x)
      /\ FilePath(n) \in Names /\ n \in NodesOf(archive)
  BY TreeIs
<1>2. path.names \in Names /\ path.abs \in BOOLEAN
  BY DEF PathType, Names
<1>3. ASSUME NEW x \in 0 .. Top, NEW names \in Names
      PROVE Found(FilePath(x) \o names, Descend(archive, tree, x, names))
  BY <1>1, <1>3, DescendFinds DEF Found
<1>4. FilePath(Root) = <<>> /\ Root \in 0 .. Top
  BY <1>1 DEF FilePath, Root
<1>5. \A names \in Names : <<>> \o names = names
  BY ConcatEmptySeq DEF Names
<1>6. CASE path.abs
  <2>1. lookUpForFile(FilePath(n), path) = Descend(archive, tree, Root, path.names)
    BY <1>6 DEF lookUpForFile
  <2>2. Full(FilePath(n), path) = FilePath(Root) \o path.names
    BY <1>2, <1>4, <1>5, <1>6 DEF Full
  <2>. QED BY Zenon, <1>2, <1>3, <1>4, <2>1, <2>2
<1>7. CASE ~path.abs
  <2>1. PICK c : c = Descend(archive, tree, Root, FilePath(n))
    OBVIOUS
  <2>2. Found(FilePath(n), c)
    BY Zenon, <1>1, <1>3, <1>4, <1>5, <2>1
  <2>3. c = n
    BY <2>2, <1>1 DEF Found, IsNode
  <2>4. n # NULL
    BY <1>1 DEF NULL
  <2>5. lookUpForFile(FilePath(n), path) = Descend(archive, tree, n, path.names)
    BY <1>7, <2>1, <2>3, <2>4 DEF lookUpForFile
  <2>6. Full(FilePath(n), path) = FilePath(n) \o path.names
    BY <1>7 DEF Full
  <2>. QED BY <1>2, <1>3, <2>5, <2>6
<1>. QED BY <1>6, <1>7

(* So does NodeNamed, without the tree. *)
LEMMA NodeNamedIs ==
  ASSUME TreeBuilt, NEW names
  PROVE Found(names, NodeNamed(names))
<1>1. /\ archive \in Archives /\ Known = 0 .. Top
      /\ \A x : FilePath(x) = PathOf(archive, x)
      /\ \A n \in 0 .. Top : n \in NodesOf(archive)
  BY TreeIs
<1>2. \A n, x \in NodesOf(archive) : PathOf(archive, n) = PathOf(archive, x) => n = x
  BY <1>1, PathsAre
<1> DEFINE found == {n \in Known : FilePath(n) = names}
<1>3. CASE found = {}
  <2>1. NodeNamed(names) = NULL
    BY <1>3 DEF NodeNamed
  <2>. QED BY <1>1, <1>3, <2>1 DEF Found, IsNode
<1>4. CASE found # {}
  <2>1. NodeNamed(names) \in found
    BY <1>4 DEF NodeNamed
  <2>2. PICK n \in 0 .. Top : NodeNamed(names) = n /\ FilePath(n) = names
    BY <1>1, <2>1
  <2>. QED BY <1>1, <1>2, <2>2 DEF Found, IsNode
<1>. QED BY <1>3, <1>4

(* getFile finds the same header in the archive. *)
LEMMA GetFileFinds ==
  ASSUME TreeBuilt, NEW n \in 0 .. Top, NEW path \in PathType,
         NEW x, x = lookUpForFile(FilePath(n), path), x \notin {NULL, Root}
  PROVE getFile(FilePath(n), path) = x
<1>1. /\ archive \in Archives /\ Top \in 0 .. Len(archive) /\ Top \in Nat /\ Len(archive) \in Nat
      /\ \A y : FilePath(y) = PathOf(archive, y)
  BY TreeIs
<1>2. Found(Full(FilePath(n), path), x)
  BY LookUpFinds
<1>3. x \in 1 .. Len(archive)
  BY <1>1, <1>2 DEF Found, IsNode, Root
<1>4. \A i \in 1 .. Len(archive) : archive[i].name = PathOf(archive, i) /\ i \in NodesOf(archive)
  BY <1>1 DEF PathOf, Root, NodesOf
<1>5. \A i, j \in NodesOf(archive) : PathOf(archive, i) = PathOf(archive, j) => i = j
  BY <1>1, PathsAre
<1> DEFINE match == {i \in 1 .. Len(archive) : archive[i].name = FilePath(x)}
<1>6. match = {x}
  BY <1>1, <1>3, <1>4, <1>5
<1>7. getFile(FilePath(n), path)
        = IF x = NULL \/ match = {} THEN NULL ELSE CHOOSE i \in match : \A j \in match : i <= j
  BY DEF getFile
<1>8. (CHOOSE i \in match : \A j \in match : i <= j) = x
  <2>1. \A i : i \in match /\ (\A j \in match : i <= j) <=> i = x
    BY <1>3, <1>6
  <2> HIDE DEF match
  <2>. QED BY <2>1
<1>. QED BY <1>6, <1>7, <1>8

-----------------------------------------------------------------------------
(* Walking a path, as the archive and as sys_chdir do it. *)

(* Along the archive. *)
Walked(start, names) == FoldLeft(Enter, start, names)
(* Along the tree, as sys_chdir goes. *)
Components(start, p, names) == FoldLeft(LAMBDA at, name : Component(at, p, name), start, names)

(* The walk of Resolve, step by step. *)
LEMMA EnterRuns ==
  ASSUME NEW start, NEW names, NEW N \in Nat, DOMAIN names = 1 .. N
  PROVE \E h : /\ h[0] = start
               /\ \A m \in Nat : m < N => h[m + 1] = Enter(h[m], names[m + 1])
               /\ Walked(start, names) = h[N]
<1> DEFINE Value(g, s) == Enter(g[s \ {Max(s)}], names[Max(s)])
           Iter(g, S) == g = [s \in SUBSET S |-> IF s = {} THEN start ELSE Value(g, s)]
           T == {n \in Nat : \E g : Iter(g, 1 .. n)}
<1>1. 0 \in T
  <2>1. Iter([s \in SUBSET (1 .. 0) |-> start], 1 .. 0)
    OBVIOUS
  <2>. QED BY <2>1
<1>2. ASSUME NEW n \in Nat, n \in T PROVE n + 1 \in T
  <2>1. PICK f : Iter(f, 1 .. n)
    BY Zenon, <1>2
  <2> DEFINE g == [s \in SUBSET (1 .. n + 1) |->
                     IF n + 1 \in s THEN Enter(f[s \ {n + 1}], names[n + 1]) ELSE f[s]]
  <2>2. \A s \in SUBSET (1 .. n) : g[s] = f[s] /\ s \in SUBSET (1 .. n + 1)
    OBVIOUS
  <2>3. ASSUME NEW s \in SUBSET (1 .. n + 1)
        PROVE g[s] = IF s = {} THEN start ELSE Value(g, s)
    <3>1. CASE n + 1 \in s
      <4>1. Max(s) = n + 1
        <5>1. s \subseteq Nat /\ \A x \in s : x <= n + 1
          OBVIOUS
        <5>. QED BY Zenon, <3>1, <5>1, MaxIs
      <4>2. s \ {n + 1} \in SUBSET (1 .. n) /\ s # {}
        BY <3>1
      <4>3. g[s \ {n + 1}] = f[s \ {n + 1}]
        BY <4>2, <2>2
      <4>4. g[s] = Enter(f[s \ {n + 1}], names[n + 1])
        BY <3>1
      <4>. QED BY Zenon, <4>1, <4>2, <4>3, <4>4
    <3>2. CASE n + 1 \notin s
      <4>1. ASSUME NEW x \in s PROVE x \in 1 .. n
        BY <3>2
      <4>2. \A x : s \ {x} \in SUBSET (1 .. n)
        BY Zenon, <4>1
      <4>3. s \in SUBSET (1 .. n) /\ s \ {Max(s)} \in SUBSET (1 .. n)
        BY Zenon, <4>1, <4>2
      <4>4. g[s] = f[s] /\ g[s \ {Max(s)}] = f[s \ {Max(s)}]
        BY <4>3, <2>2
      <4>5. f[s] = IF s = {} THEN start ELSE Value(f, s)
        BY Zenon, <2>1, <4>3
      <4>. QED BY <4>4, <4>5
    <3>. QED BY <3>1, <3>2
  <2>4. Iter(g, 1 .. n + 1)
    BY Zenon, <2>3
  <2>5. \E e : Iter(e, 1 .. n + 1)
    <3> HIDE DEF g, Iter
    <3>. QED BY <2>4
  <2> HIDE DEF Iter
  <2>. QED BY <2>5
<1>3. \E g : Iter(g, 1 .. N)
  <2>1. Nat \subseteq T
    <3> HIDE DEF T
    <3>. QED BY Zenon, <1>1, <1>2, Induction
  <2>. QED BY Zenon, <2>1
<1>4. Walked(start, names) = (CHOOSE g : Iter(g, 1 .. N))[1 .. N]
  BY DEF Walked, FoldLeft, MapThenFoldSet
<1>5. PICK g : Iter(g, 1 .. N) /\ Walked(start, names) = g[1 .. N]
  <2>1. Iter(CHOOSE g : Iter(g, 1 .. N), 1 .. N)
    <3> HIDE DEF Iter
    <3>. QED BY <1>3
  <2>. QED BY Zenon, <1>4, <2>1
<1> DEFINE h == [m \in 0 .. N |-> g[1 .. m]]
<1>6. h[0] = start
  <2>1. 1 .. 0 = {}
    OBVIOUS
  <2>. QED BY <1>5, <2>1
<1>7. ASSUME NEW m \in Nat, m < N PROVE h[m + 1] = Enter(h[m], names[m + 1])
  <2>1. 1 .. m + 1 \in SUBSET (1 .. N) /\ 1 .. m + 1 # {} /\ (1 .. m + 1) \ {m + 1} = 1 .. m
    BY <1>7
  <2>2. Max(1 .. m + 1) = m + 1
    <3>1. 1 .. m + 1 \subseteq Nat /\ m + 1 \in 1 .. m + 1 /\ \A x \in 1 .. m + 1 : x <= m + 1
      OBVIOUS
    <3>2. PICK s : s = 1 .. m + 1
      OBVIOUS
    <3>. QED BY Zenon, <3>1, <3>2, MaxIs
  <2>3. g[1 .. m + 1] = Value(g, 1 .. m + 1)
    BY Zenon, <1>5, <2>1
  <2>4. Value(g, 1 .. m + 1) = Enter(g[1 .. m], names[m + 1])
    BY Zenon, <2>1, <2>2
  <2>5. h[m + 1] = g[1 .. m + 1] /\ h[m] = g[1 .. m]
    BY <1>7
  <2> HIDE DEF Value, h
  <2>. QED BY <2>3, <2>4, <2>5
<1>8. h[N] = g[1 .. N]
  OBVIOUS
<1> HIDE DEF h
<1>. QED
  BY Zenon, <1>5, <1>6, <1>7, <1>8

(* The walk of sys_chdir, component by component. *)
LEMMA ComponentsRun ==
  ASSUME NEW p, NEW start, NEW names, NEW N \in Nat, DOMAIN names = 1 .. N
  PROVE \E h : /\ h[0] = start
               /\ \A m \in Nat : m < N => h[m + 1] = Component(h[m], p, names[m + 1])
               /\ Components(start, p, names) = h[N]
<1> DEFINE Value(g, s) == Component(g[s \ {Max(s)}], p, names[Max(s)])
           Iter(g, S) == g = [s \in SUBSET S |-> IF s = {} THEN start ELSE Value(g, s)]
           T == {n \in Nat : \E g : Iter(g, 1 .. n)}
<1>1. 0 \in T
  <2>1. Iter([s \in SUBSET (1 .. 0) |-> start], 1 .. 0)
    OBVIOUS
  <2>. QED BY <2>1
<1>2. ASSUME NEW n \in Nat, n \in T PROVE n + 1 \in T
  <2>1. PICK f : Iter(f, 1 .. n)
    BY Zenon, <1>2
  <2> DEFINE g == [s \in SUBSET (1 .. n + 1) |->
                     IF n + 1 \in s THEN Component(f[s \ {n + 1}], p, names[n + 1]) ELSE f[s]]
  <2>2. \A s \in SUBSET (1 .. n) : g[s] = f[s] /\ s \in SUBSET (1 .. n + 1)
    OBVIOUS
  <2>3. ASSUME NEW s \in SUBSET (1 .. n + 1)
        PROVE g[s] = IF s = {} THEN start ELSE Value(g, s)
    <3>1. CASE n + 1 \in s
      <4>1. Max(s) = n + 1
        <5>1. s \subseteq Nat /\ \A x \in s : x <= n + 1
          OBVIOUS
        <5>. QED BY Zenon, <3>1, <5>1, MaxIs
      <4>2. s \ {n + 1} \in SUBSET (1 .. n) /\ s # {}
        BY <3>1
      <4>3. g[s \ {n + 1}] = f[s \ {n + 1}]
        BY <4>2, <2>2
      <4>4. g[s] = Component(f[s \ {n + 1}], p, names[n + 1])
        BY <3>1
      <4>. QED BY <4>1, <4>2, <4>3, <4>4
    <3>2. CASE n + 1 \notin s
      <4>1. ASSUME NEW x \in s PROVE x \in 1 .. n
        BY <3>2
      <4>2. \A x : s \ {x} \in SUBSET (1 .. n)
        BY Zenon, <4>1
      <4>3. s \in SUBSET (1 .. n) /\ s \ {Max(s)} \in SUBSET (1 .. n)
        BY Zenon, <4>1, <4>2
      <4>4. g[s] = f[s] /\ g[s \ {Max(s)}] = f[s \ {Max(s)}]
        BY <4>3, <2>2
      <4>5. f[s] = IF s = {} THEN start ELSE Value(f, s)
        BY Zenon, <2>1, <4>3
      <4>. QED BY <4>4, <4>5
    <3>. QED BY <3>1, <3>2
  <2>4. Iter(g, 1 .. n + 1)
    BY Zenon, <2>3
  <2>5. \E e : Iter(e, 1 .. n + 1)
    <3> HIDE DEF g, Iter
    <3>. QED BY <2>4
  <2> HIDE DEF Iter
  <2>. QED BY <2>5
<1>3. \E g : Iter(g, 1 .. N)
  <2>1. Nat \subseteq T
    <3> HIDE DEF T
    <3>. QED BY Zenon, <1>1, <1>2, Induction
  <2>. QED BY Zenon, <2>1
<1>4. Components(start, p, names) = (CHOOSE g : Iter(g, 1 .. N))[1 .. N]
  BY DEF Components, FoldLeft, MapThenFoldSet
<1>5. PICK g : Iter(g, 1 .. N) /\ Components(start, p, names) = g[1 .. N]
  <2>1. Iter(CHOOSE g : Iter(g, 1 .. N), 1 .. N)
    <3> HIDE DEF Iter
    <3>. QED BY <1>3
  <2>. QED BY Zenon, <1>4, <2>1
<1> DEFINE h == [m \in 0 .. N |-> g[1 .. m]]
<1>6. h[0] = start
  <2>1. 1 .. 0 = {}
    OBVIOUS
  <2>. QED BY <1>5, <2>1
<1>7. ASSUME NEW m \in Nat, m < N PROVE h[m + 1] = Component(h[m], p, names[m + 1])
  <2>1. 1 .. m + 1 \in SUBSET (1 .. N) /\ 1 .. m + 1 # {} /\ (1 .. m + 1) \ {m + 1} = 1 .. m
    BY <1>7
  <2>2. Max(1 .. m + 1) = m + 1
    <3>1. 1 .. m + 1 \subseteq Nat /\ m + 1 \in 1 .. m + 1 /\ \A x \in 1 .. m + 1 : x <= m + 1
      OBVIOUS
    <3>2. PICK s : s = 1 .. m + 1
      OBVIOUS
    <3>. QED BY Zenon, <3>1, <3>2, MaxIs
  <2>3. g[1 .. m + 1] = Value(g, 1 .. m + 1)
    BY Zenon, <1>5, <2>1
  <2>4. Value(g, 1 .. m + 1) = Component(g[1 .. m], p, names[m + 1])
    BY Zenon, <2>1, <2>2
  <2>5. h[m + 1] = g[1 .. m + 1] /\ h[m] = g[1 .. m]
    BY <1>7
  <2> HIDE DEF Value, h
  <2>. QED BY <2>3, <2>4, <2>5
<1>8. h[N] = g[1 .. N]
  OBVIOUS
<1> HIDE DEF h
<1>. QED
  BY Zenon, <1>5, <1>6, <1>7, <1>8

(* Prefixes of a sequence longer by one. *)
LEMMA WayToAppend ==
  ASSUME NEW S, NEW s \in Seq(S), NEW x \in S, NEW u \in Seq(S), OnTheWay(u, Append(s, x))
  PROVE u = Append(s, x) \/ OnTheWay(u, s)
<1>1. /\ Len(u) \in Nat /\ Len(s) \in Nat /\ Append(s, x) \in Seq(S)
      /\ Len(Append(s, x)) = Len(s) + 1
      /\ \A i \in 1 .. Len(s) : Append(s, x)[i] = s[i]
  BY LenProperties, AppendProperties
<1>2. Len(u) <= Len(s) + 1 /\ \A i \in 1 .. Len(u) : u[i] = Append(s, x)[i]
  BY <1>1 DEF OnTheWay
<1>3. CASE Len(u) = Len(s) + 1
  BY <1>1, <1>2, <1>3, SeqEqual
<1>4. CASE Len(u) # Len(s) + 1
  <2>1. Len(u) <= Len(s)
    BY <1>1, <1>2, <1>4
  <2>2. \A i \in 1 .. Len(u) : i \in 1 .. Len(s)
    BY <1>1, <2>1
  <2>. QED BY <1>1, <1>2, <2>1, <2>2 DEF OnTheWay
<1>. QED BY <1>3, <1>4

(* What is on the way to the directory is on the way to the file. *)
LEMMA WayFromFront ==
  ASSUME NEW S, NEW s \in Seq(S), s # <<>>, NEW u \in Seq(S), OnTheWay(u, Front(s))
  PROVE OnTheWay(u, s)
<1>1. PICK f \in Seq(S), e \in S : f = Front(s) /\ e = Last(s) /\ s = Append(f, e)
  BY Zenon, LastStep
<1>2. /\ Len(u) \in Nat /\ Len(f) \in Nat /\ Len(s) = Len(f) + 1
      /\ \A i \in 1 .. Len(f) : s[i] = f[i]
  <2>1. f \in Seq(S) /\ e \in S /\ s = Append(f, e)
    BY Zenon, <1>1
  <2>2. Len(u) \in Nat /\ Len(f) \in Nat
    BY <2>1, LenProperties
  <2>3. Len(s) = Len(f) + 1 /\ \A i \in 1 .. Len(f) : s[i] = f[i]
    BY ONLY <2>1, AppendProperties
  <2>. QED BY Zenon, <2>2, <2>3
<1>3. Len(u) <= Len(f) /\ \A i \in 1 .. Len(u) : u[i] = f[i]
  BY <1>1 DEF OnTheWay
<1>4. \A i \in 1 .. Len(u) : i \in 1 .. Len(f)
  BY <1>2, <1>3
<1>5. Len(u) <= Len(s)
  BY <1>2, <1>3
<1>. QED BY <1>2, <1>3, <1>4, <1>5 DEF OnTheWay

(* Which directories a process may be in.                                  *)
LEMMA EnteredIs ==
  ASSUME TreeBuilt, NEW n \in 0 .. Top, Entered(n)
  PROVE Dirs755(n)
<1>1. OnTheWay(FilePath(n), FilePath(n))
  <2>1. FilePath(n) \in Seq(STRING)
    BY TreeIs DEF Names
  <2>. QED BY <2>1, LenProperties DEF OnTheWay
<1>. QED BY <1>1 DEF Entered

(* The root may be entered. *)
LEMMA EnteredRoot ==
  ASSUME TreeBuilt
  PROVE Entered(Root)
<1> SUFFICES ASSUME NEW x \in 0 .. Top, OnTheWay(FilePath(x), FilePath(Root)) PROVE Dirs755(x)
  BY DEF Entered
<1>1. FilePath(x) \in Names /\ x \in NodesOf(archive) /\ FilePath(x) = PathOf(archive, x)
      /\ archive \in Archives
  BY TreeIs
<1>2. Len(FilePath(x)) <= 0
  BY EmptySeq DEF OnTheWay, FilePath, Root
<1>3. FilePath(x) = <<>>
  BY <1>1, <1>2, EmptySeq DEF Names
<1>4. x = Root
  BY Zenon, <1>1, <1>3, PathsAre
<1>. QED BY <1>4 DEF Dirs755, FileType, Is755

(* So may a directory of mode 755 below one that is. *)
LEMMA EnteredChild ==
  ASSUME TreeBuilt, NEW n \in 0 .. Top, Entered(n), NEW c \in 0 .. Top, NEW name \in STRING,
         FilePath(c) = Append(FilePath(n), name), Dirs755(c)
  PROVE Entered(c)
<1> SUFFICES ASSUME NEW x \in 0 .. Top, OnTheWay(FilePath(x), FilePath(c)) PROVE Dirs755(x)
  BY Zenon DEF Entered
<1>1. /\ \A y \in 0 .. Top : /\ FilePath(y) \in Names /\ y \in NodesOf(archive)
                             /\ FilePath(y) = PathOf(archive, y)
      /\ archive \in Archives
  BY TreeIs
<1>2. PICK u \in Seq(STRING), s \in Seq(STRING) : u = FilePath(x) /\ s = FilePath(n)
  BY <1>1 DEF Names
<1>3. u = Append(s, name) \/ OnTheWay(u, s)
  BY Zenon, <1>2, WayToAppend
<1>4. CASE u = Append(s, name)
  <2>1. FilePath(x) = FilePath(c)
    BY <1>2, <1>4
  <2>2. x = c
    BY Zenon, <1>1, <2>1, PathsAre
  <2>. QED BY <2>2
<1>5. CASE OnTheWay(u, s)
  BY <1>2, <1>5 DEF Entered
<1>. QED BY Zenon, <1>3, <1>4, <1>5

(* The directory above one that may be entered may be. *)
LEMMA EnteredParent ==
  ASSUME TreeBuilt, NEW n \in 0 .. Top, Entered(n), n # Root
  PROVE /\ Parent(n) \in 0 .. Top /\ FilePath(Parent(n)) = Front(FilePath(n))
        /\ Entered(Parent(n))
<1>1. /\ \A y \in 0 .. Top : /\ FilePath(y) \in Names /\ y \in NodesOf(archive)
                             /\ FilePath(y) = PathOf(archive, y)
      /\ archive \in Archives /\ Grown(archive, tree, Top) /\ Top \in Nat
  BY TreeIs
<1>2. n \in 1 .. Top
  BY <1>1 DEF Root
<1>3. /\ tree.parent[n] # NULL /\ tree.parent[n] \in 0 .. Top \cup {NULL}
      /\ PathOf(archive, tree.parent[n]) = Front(PathOf(archive, n))
  BY <1>1, <1>2 DEF Grown
<1>4. Parent(n) = tree.parent[n] /\ tree.parent[n] \in 0 .. Top
  BY <1>3 DEF Parent
<1>5. PICK x \in 0 .. Top : x = Parent(n) /\ FilePath(x) = Front(FilePath(n))
  BY <1>1, <1>3, <1>4
<1>6. FilePath(n) \in Seq(STRING) /\ FilePath(n) # <<>>
  BY <1>1, <1>2, PathsAre DEF Names
<1>7. PICK s \in Seq(STRING) : s = FilePath(n) /\ s # <<>>
  BY <1>6
<1>10. ASSUME NEW y \in 0 .. Top, OnTheWay(FilePath(y), FilePath(x)) PROVE Dirs755(y)
  <2>1. PICK u \in Seq(STRING) : u = FilePath(y)
    BY <1>1 DEF Names
  <2>2. OnTheWay(u, Front(s))
    BY <1>5, <1>7, <1>10, <2>1
  <2>3. OnTheWay(FilePath(y), FilePath(n))
    BY <1>7, <2>1, <2>2, WayFromFront
  <2>. QED BY <2>3 DEF Entered
<1>11. Entered(x)
  BY <1>10 DEF Entered
<1>. QED BY <1>5, <1>11

(* ".." of the root is the root. *)
LEMMA ParentOfRoot ==
  ASSUME TreeBuilt
  PROVE Parent(Root) = Root
<1>1. Grown(archive, tree, Top)
  BY TreeIs
<1>. QED BY <1>1 DEF Parent, Grown

(* How far sys_chdir and Resolve have come: the kernel's state is s with    *)
(* the node of at as the current directory of p.                            *)
Walk(s, p, at, e) ==
  /\ at = [node |-> at.node, s |-> at.s, ok |-> at.ok] /\ at.ok \in BOOLEAN
  /\ at.node \in 0 .. Top /\ Entered(at.node)
  /\ at.s = [s EXCEPT !.cwd[p] = FilePath(at.node)]
  /\ e = IF at.ok THEN at.node ELSE NULL

(* A kernel state, as far as current directories go. *)
HasCwd(s) == /\ s = [fds |-> s.fds, desc |-> s.desc, pipes |-> s.pipes, cwd |-> s.cwd]
             /\ DOMAIN s.cwd = Procs /\ s.cwd = [p \in Procs |-> s.cwd[p]]

(* Walking on to a node. *)
LEMMA WalkTo ==
  ASSUME NEW s, HasCwd(s), NEW p \in Procs, NEW at, NEW e, Walk(s, p, at, e), at.ok,
         NEW x \in 0 .. Top, Entered(x)
  PROVE Walk(s, p, At(x, at.s, p, TRUE), x)
<1>1. [at.s EXCEPT !.cwd[p] = FilePath(x)] = [s EXCEPT !.cwd[p] = FilePath(x)]
  <2>1. PICK u : u = FilePath(at.node) /\ at.s = [s EXCEPT !.cwd[p] = u]
    BY DEF Walk
  <2>2. PICK v : v = FilePath(x)
    OBVIOUS
  <2>3. [[s EXCEPT !.cwd[p] = u] EXCEPT !.cwd[p] = v] = [s EXCEPT !.cwd[p] = v]
    BY Zenon DEF HasCwd
  <2>. QED BY <2>1, <2>2, <2>3
<1>2. At(x, at.s, p, TRUE) = [node |-> x, s |-> [s EXCEPT !.cwd[p] = FilePath(x)], ok |-> TRUE]
  BY Zenon, <1>1 DEF At
<1>3. PICK b : b = At(x, at.s, p, TRUE)
  BY Zenon
<1>4. b = [node |-> x, s |-> [s EXCEPT !.cwd[p] = FilePath(x)], ok |-> TRUE]
  BY Zenon, <1>2, <1>3
<1>5. b.node = x /\ b.s = [s EXCEPT !.cwd[p] = FilePath(x)] /\ b.ok = TRUE
  BY <1>4
<1>. QED BY Zenon, <1>3, <1>4, <1>5 DEF Walk

(* One component of a path leads both walks to the same node. *)
LEMMA ComponentWalks ==
  ASSUME TreeBuilt, NEW s, HasCwd(s), NEW p \in Procs, NEW at, NEW e, Walk(s, p, at, e),
         NEW name \in STRING
  PROVE Walk(s, p, Component(at, p, name), Enter(e, name))
<1>1. CASE ~at.ok
  <2>1. Component(at, p, name) = at
    BY <1>1 DEF Component
  <2>2. e = NULL /\ Enter(e, name) = NULL
    BY <1>1 DEF Walk, Enter
  <2>. QED BY <1>1, <2>1, <2>2
<1>2. CASE at.ok
  <2>1. PICK n \in 0 .. Top : n = at.node /\ Entered(n) /\ e = n /\ n # NULL
    <3>1. Top \in Nat
      BY TreeIs
    <3>. QED BY <1>2, <3>1 DEF Walk, NULL
  <2>2. at.s.cwd[p] = FilePath(n)
    <3>1. PICK u : u = FilePath(at.node) /\ at.s = [s EXCEPT !.cwd[p] = u]
      BY DEF Walk
    <3>2. [s EXCEPT !.cwd[p] = u].cwd[p] = u
      BY DEF HasCwd
    <3>. QED BY <2>1, <3>1, <3>2
  <2>3. CASE name = "."
    <3>1. Component(at, p, name) = at
      BY <2>3 DEF Component
    <3>2. Enter(e, name) = e
      BY <2>1, <2>3 DEF Enter
    <3>. QED BY <3>1, <3>2
  <2>4. CASE name = ".."
    <3>1. PICK x \in 0 .. Top :
            x = Parent(n) /\ Entered(x)
            /\ FilePath(x) = IF n = Root THEN <<>> ELSE Front(FilePath(n))
      <4>1. CASE n = Root
        BY <4>1, EnteredRoot, ParentOfRoot DEF FilePath
      <4>2. CASE n # Root
        BY <2>1, <4>2, EnteredParent
      <4>. QED BY <4>1, <4>2
    <3>2. MayEnter(x)
      <4>1. Top \in Nat /\ Dirs755(x)
        BY <3>1, EnteredIs, TreeIs
      <4>. QED BY <4>1 DEF MayEnter, Dirs755, NULL
    <3>3. Component(at, p, name) = At(x, at.s, p, TRUE)
      <4>1. name # "." /\ name = ".."
        BY <2>4
      <4>. QED BY <1>2, <2>1, <3>1, <3>2, <4>1 DEF Component
    <3>4. Enter(e, name) = NodeNamed(FilePath(x))
      <4>1. name # "." /\ name = ".."
        BY <2>4
      <4>. QED BY <2>1, <3>1, <4>1 DEF Enter
    <3>5. NodeNamed(FilePath(x)) = x
      BY NodeNamedIs DEF Found, IsNode, FilePath, PathOf
    <3>. QED BY Zenon, <1>2, <3>1, <3>3, <3>4, <3>5, WalkTo
  <2>5. CASE name # "." /\ name # ".."
    <3>1. PICK x : x = lookUpForFile(FilePath(n), [abs |-> FALSE, names |-> <<name>>])
      OBVIOUS
    <3>2. Found(Append(FilePath(n), name), x)
      <4>1. [abs |-> FALSE, names |-> <<name>>] \in PathType
        BY DEF PathType
      <4>2. Full(FilePath(n), [abs |-> FALSE, names |-> <<name>>]) = FilePath(n) \o <<name>>
        BY DEF Full
      <4>3. FilePath(n) \o <<name>> = Append(FilePath(n), name)
        BY Zenon, TreeIs, AppendIsConcat DEF Names
      <4>4. Found(Full(FilePath(n), [abs |-> FALSE, names |-> <<name>>]), x)
        BY <3>1, <4>1, LookUpFinds
      <4>. QED BY Zenon, <4>2, <4>3, <4>4
    <3>3. NodeNamed(Append(FilePath(n), name)) = x
      BY Zenon, <3>2, NodeNamedIs, SameNode
    <3>4. Enter(e, name) = IF x # NULL /\ FileType(x) = "dir" /\ Is755(x) THEN x ELSE NULL
      BY <2>1, <2>5, <3>3 DEF Enter
    <3>5. Component(at, p, name)
            = IF MayEnter(x) THEN At(x, at.s, p, TRUE) ELSE [at EXCEPT !.ok = FALSE]
      BY <1>2, <2>1, <2>2, <2>5, <3>1 DEF Component
    <3>6. CASE MayEnter(x)
      <4>1. x \in 0 .. Top /\ FilePath(x) = Append(FilePath(n), name) /\ Dirs755(x)
        BY <3>2, <3>6 DEF Found, IsNode, MayEnter, Dirs755, FilePath, PathOf
      <4>2. Entered(x)
        BY <2>1, <4>1, EnteredChild
      <4>3. Enter(e, name) = x
        BY <3>4, <3>6 DEF MayEnter
      <4>. QED BY Zenon, <1>2, <3>5, <3>6, <4>1, <4>2, <4>3, WalkTo
    <3>7. CASE ~MayEnter(x)
      <4>1. Enter(e, name) = NULL
        BY <3>4, <3>7 DEF MayEnter
      <4>2. Component(at, p, name) = [at EXCEPT !.ok = FALSE]
        BY <3>5, <3>7
      <4>. QED BY Zenon, <4>1, <4>2 DEF Walk
    <3>. QED BY Zenon, <3>6, <3>7
  <2>. QED BY <2>3, <2>4, <2>5
<1>3. at.ok \in BOOLEAN
  BY DEF Walk
<1>. QED BY <1>1, <1>2, <1>3

(* h is the run of a walk. *)
IsWalked(h, start, names, N) ==
  /\ h[0] = start
  /\ \A m \in Nat : m < N => h[m + 1] = Enter(h[m], names[m + 1])
  /\ Walked(start, names) = h[N]

(* A walk has a run. *)
LEMMA EnterRun ==
  ASSUME NEW start, NEW names, NEW N \in Nat, DOMAIN names = 1 .. N
  PROVE \E h : IsWalked(h, start, names, N)
  BY EnterRuns DEF IsWalked

(* h is the run of the components of a path. *)
IsTrodden(h, start, p, names, N) ==
  /\ h[0] = start
  /\ \A m \in Nat : m < N => h[m + 1] = Component(h[m], p, names[m + 1])
  /\ Components(start, p, names) = h[N]

(* The components of a path have a run. *)
LEMMA ComponentRun ==
  ASSUME NEW start, NEW p, NEW names, NEW N \in Nat, DOMAIN names = 1 .. N
  PROVE \E h : IsTrodden(h, start, p, names, N)
  BY ComponentsRun DEF IsTrodden

(* The walks of Resolve and of sys_chdir meet at the end. *)
LEMMA WalksMeet ==
  ASSUME TreeBuilt, NEW s, HasCwd(s), NEW p \in Procs, NEW n \in 0 .. Top, Entered(n),
         NEW names \in Names
  PROVE Walk(s, p, Components(At(n, s, p, TRUE), p, names), Walked(n, names))
<1>1. PICK N \in Nat : DOMAIN names = 1 .. N /\ \A i \in 1 .. N : names[i] \in STRING
  BY LenProperties, ElementOfSeq DEF Names
<1>2. PICK start : start = At(n, s, p, TRUE)
  BY Zenon
<1>3. PICK h : /\ h[0] = start
               /\ \A m \in Nat : m < N => h[m + 1] = Component(h[m], p, names[m + 1])
               /\ Components(start, p, names) = h[N]
  <2>1. DOMAIN names = 1 .. N
    BY <1>1
  <2>2. \E h : IsTrodden(h, start, p, names, N)
    BY ONLY N \in Nat, <2>1, ComponentRun
  <2>. QED BY <2>2 DEF IsTrodden
<1>4. PICK e : /\ e[0] = n
               /\ \A m \in Nat : m < N => e[m + 1] = Enter(e[m], names[m + 1])
               /\ Walked(n, names) = e[N]
  <2>1. DOMAIN names = 1 .. N
    BY <1>1
  <2>2. PICK x : x = n
    OBVIOUS
  <2>3. \E e : IsWalked(e, x, names, N)
    BY ONLY N \in Nat, <2>1, EnterRun
  <2>. QED BY <2>2, <2>3 DEF IsWalked
<1>5. Walk(s, p, start, n)
  <2>1. start = [node |-> n, s |-> [s EXCEPT !.cwd[p] = FilePath(n)], ok |-> TRUE]
    BY <1>2 DEF At
  <2>2. start.node = n /\ start.s = [s EXCEPT !.cwd[p] = FilePath(n)] /\ start.ok = TRUE
    BY <2>1
  <2>. QED BY <2>1, <2>2 DEF Walk
<1> DEFINE T == {m \in Nat : m <= N => Walk(s, p, h[m], e[m])}
<1>6. 0 \in T
  BY <1>3, <1>4, <1>5
<1>7. ASSUME NEW m \in Nat, m \in T PROVE m + 1 \in T
  <2> SUFFICES ASSUME m + 1 <= N PROVE Walk(s, p, h[m + 1], e[m + 1])
    OBVIOUS
  <2>1. m < N /\ Walk(s, p, h[m], e[m]) /\ m + 1 \in 1 .. N
    BY <1>7
  <2>2. PICK name \in STRING : name = names[m + 1]
    BY Zenon, <1>1, <2>1
  <2>3. PICK at : at = h[m]
    OBVIOUS
  <2>4. PICK f : f = e[m]
    OBVIOUS
  <2>5. Walk(s, p, Component(at, p, name), Enter(f, name))
    BY Zenon, <2>1, <2>3, <2>4, ComponentWalks
  <2>. QED BY <1>3, <1>4, <2>1, <2>2, <2>3, <2>4, <2>5
<1>8. N \in T
  <2>1. Nat \subseteq T
    <3> HIDE DEF T
    <3>. QED BY <1>6, <1>7, Induction
  <2>. QED BY <2>1
<1>9. Walk(s, p, h[N], e[N])
  BY <1>8
<1>. QED BY Zenon, <1>2, <1>3, <1>4, <1>9

(* sys_chdir goes where Resolve does. *)
ChdirGoes(s, p, e, r) ==
  /\ e \in 0 .. Top \cup {NULL}
  /\ e = NULL => r = Fail(s)
  /\ e # NULL => Entered(e) /\ r = Result(0, [s EXCEPT !.cwd[p] = FilePath(e)])

(* sys_chdir ends where the path leads. *)
LEMMA ChdirIs ==
  ASSUME TreeBuilt, NEW s, HasCwd(s), NEW p \in Procs, NEW n \in 0 .. Top, Entered(n),
         s.cwd[p] = FilePath(n), NEW path \in PathType
  PROVE ChdirGoes(s, p, Resolve(FilePath(n), path), sys_chdir(s, p, path))
<1> DEFINE start == IF path.abs THEN Root ELSE n
           end == Components(At(start, s, p, TRUE), p, path.names)
           e == Walked(start, path.names)
<1>0. Top \in Nat /\ n # NULL
  BY TreeIs DEF NULL
<1>1. path.names \in Names /\ path.abs \in BOOLEAN
     /\ path = [abs |-> path.abs, names |-> path.names]
  BY DEF PathType, Names
<1>2. NodeNamed(FilePath(n)) = n
  BY NodeNamedIs DEF Found, IsNode, FilePath, PathOf
<1>3. lookUpForFile(s.cwd[p], sys_getcwd(s, p)) = n
  <2>1. [abs |-> TRUE, names |-> FilePath(n)] \in PathType
    BY TreeIs DEF PathType, Names
  <2>2. Found(FilePath(n), lookUpForFile(FilePath(n), [abs |-> TRUE, names |-> FilePath(n)]))
    <3>1. Full(FilePath(n), [abs |-> TRUE, names |-> FilePath(n)]) = FilePath(n)
      BY DEF Full
    <3>. QED BY <2>1, <3>1, LookUpFinds
  <2>3. sys_getcwd(s, p) = [abs |-> TRUE, names |-> FilePath(n)]
    BY DEF sys_getcwd
  <2>4. PICK r : r = lookUpForFile(FilePath(n), [abs |-> TRUE, names |-> FilePath(n)])
    OBVIOUS
  <2>5. r = n
    BY Zenon, <2>2, <2>4 DEF Found, IsNode, FilePath, PathOf
  <2>6. s.cwd[p] = FilePath(n)
    OBVIOUS
  <2>. QED BY <2>3, <2>4, <2>5, <2>6
<1>4. Resolve(FilePath(n), path) = e
  BY <1>2 DEF Resolve, Walked
<1>5. start \in 0 .. Top /\ Entered(start)
  BY <1>0, EnteredRoot DEF Root
<1>6. Walk(s, p, end, e)
  <2>1. PICK x \in 0 .. Top : x = start /\ Entered(x)
    BY <1>5
  <2>2. PICK names \in Names : names = path.names
    BY <1>1
  <2>3. Walk(s, p, Components(At(x, s, p, TRUE), p, names), Walked(x, names))
    BY Zenon, <2>1, WalksMeet
  <2>. QED BY Zenon, <2>1, <2>2, <2>3
<1>7. s = [s EXCEPT !.cwd[p] = FilePath(n)]
  BY DEF HasCwd
<1>8. ASSUME NEW x \in 0 .. Top, Entered(x), e = x, sys_chdir(s, p, path) = Result(0, [s EXCEPT !.cwd[p] = FilePath(x)])
      PROVE ChdirGoes(s, p, e, sys_chdir(s, p, path))
  BY <1>0, <1>8 DEF ChdirGoes, NULL
<1>9. CASE path = [abs |-> FALSE, names |-> <<"..">>]
  <2>1. PICK x \in 0 .. Top : /\ x = Parent(n) /\ Entered(x)
                              /\ FilePath(x) = IF n = Root THEN <<>> ELSE Front(FilePath(n))
    <3>1. CASE n = Root
      BY <3>1, EnteredRoot, ParentOfRoot DEF FilePath
    <3>2. CASE n # Root
      BY <3>2, EnteredParent
    <3>. QED BY <3>1, <3>2
  <2>2. MayEnter(x)
    BY <1>0, <2>1, EnteredIs DEF MayEnter, Dirs755, NULL
  <2>3. sys_chdir(s, p, path) = Result(0, [s EXCEPT !.cwd[p] = FilePath(x)])
    BY Zenon, <1>0, <1>3, <1>9, <2>1, <2>2 DEF sys_chdir
  <2>4. e = Enter(n, "..")
    <3>1. PICK names : names = <<"..">> /\ path.names = names /\ ~path.abs
      BY <1>9
    <3>2. PICK h : /\ h[0] = n
                   /\ \A m \in Nat : m < 1 => h[m + 1] = Enter(h[m], names[m + 1])
                   /\ Walked(n, names) = h[1]
      <4>1. DOMAIN names = 1 .. 1 /\ 1 \in Nat
        BY <3>1
      <4>2. PICK at0 : at0 = n
        OBVIOUS
      <4>3. \E g : IsWalked(g, at0, names, 1)
        BY ONLY Zenon, <4>1, EnterRun
      <4>. QED BY <4>2, <4>3 DEF IsWalked
    <3>3. h[0 + 1] = Enter(h[0], names[0 + 1])
      BY <3>2
    <3>. QED BY <3>1, <3>2, <3>3
  <2>5. Enter(n, "..") = x
    <3>1. Enter(n, "..") = NodeNamed(FilePath(x))
      BY <1>0, <2>1 DEF Enter
    <3>2. NodeNamed(FilePath(x)) = x
      BY NodeNamedIs DEF Found, IsNode, FilePath, PathOf
    <3>. QED BY <3>1, <3>2
  <2> HIDE DEF e
  <2>. QED BY <1>4, <1>8, <2>1, <2>3, <2>4, <2>5
<1>10. CASE path = [abs |-> FALSE, names |-> <<".">>]
  <2>1. sys_chdir(s, p, path) = Result(0, s)
    <3>1. path # [abs |-> FALSE, names |-> <<"..">>]
      BY <1>10
    <3>2. path # [abs |-> TRUE, names |-> <<>>]
      BY <1>10
    <3>. QED BY <1>10, <3>1, <3>2 DEF sys_chdir
  <2>4. e = Enter(n, ".")
    <3>1. PICK names : names = <<".">> /\ path.names = names /\ ~path.abs
      BY <1>10
    <3>2. PICK h : /\ h[0] = n
                   /\ \A m \in Nat : m < 1 => h[m + 1] = Enter(h[m], names[m + 1])
                   /\ Walked(n, names) = h[1]
      <4>1. DOMAIN names = 1 .. 1 /\ 1 \in Nat
        BY <3>1
      <4>2. PICK at0 : at0 = n
        OBVIOUS
      <4>3. \E g : IsWalked(g, at0, names, 1)
        BY ONLY Zenon, <4>1, EnterRun
      <4>. QED BY <4>2, <4>3 DEF IsWalked
    <3>3. h[0 + 1] = Enter(h[0], names[0 + 1])
      BY <3>2
    <3>. QED BY <3>1, <3>2, <3>3
  <2>5. Enter(n, ".") = n
    BY <1>0 DEF Enter
  <2> HIDE DEF e
  <2>. QED BY <1>4, <1>7, <1>8, <2>1, <2>4, <2>5
<1>11. CASE path = [abs |-> TRUE, names |-> <<>>]
  <2>1. sys_chdir(s, p, path) = Result(0, [s EXCEPT !.cwd[p] = FilePath(Root)])
    <3>1. path # [abs |-> FALSE, names |-> <<"..">>]
      BY <1>11
    <3>2. path # [abs |-> FALSE, names |-> <<".">>]
      BY <1>11
    <3>. QED BY <1>11, <3>1, <3>2 DEF sys_chdir
  <2>2. e = Root
    <3>1. PICK names : names = <<>> /\ path.names = names /\ path.abs
      BY <1>11
    <3>2. PICK h : /\ h[0] = Root
                   /\ \A m \in Nat : m < 0 => h[m + 1] = Enter(h[m], names[m + 1])
                   /\ Walked(Root, names) = h[0]
      <4>1. DOMAIN names = 1 .. 0 /\ 0 \in Nat
        BY <3>1
      <4>1a. \E h : IsWalked(h, Root, names, 0)
        BY ONLY Zenon, <4>1, EnterRun
      <4>. QED BY <4>1a DEF IsWalked
    <3>. QED BY <3>1, <3>2
  <2> HIDE DEF e
  <2>3. Root \in 0 .. Top
    BY <1>0 DEF Root
  <2>. QED BY <1>4, <1>8, <2>1, <2>2, <2>3, EnteredRoot
<1>12. CASE /\ path # [abs |-> FALSE, names |-> <<"..">>]
            /\ path # [abs |-> FALSE, names |-> <<".">>]
            /\ path # [abs |-> TRUE, names |-> <<>>]
  <2>1. sys_chdir(s, p, path)
          = IF end.ok THEN Result(0, end.s) ELSE Fail(Restore(end.s, p, s.cwd[p]))
    BY Zenon, <1>3, <1>12 DEF sys_chdir, Components
  <2> HIDE DEF end, e
  <2>2. CASE end.ok
    <3>1. PICK x \in 0 .. Top : Entered(x) /\ e = x /\ end.s = [s EXCEPT !.cwd[p] = FilePath(x)]
      BY <1>6, <2>2 DEF Walk
    <3>. QED BY <1>4, <1>8, <2>1, <2>2, <3>1
  <2>3. CASE ~end.ok
    <3>1. PICK u : end.s = [s EXCEPT !.cwd[p] = u]
      BY Zenon, <1>6 DEF Walk
    <3>2. [[s EXCEPT !.cwd[p] = u] EXCEPT !.cwd[p] = s.cwd[p]] = s
      BY Zenon DEF HasCwd
    <3>3. Restore(end.s, p, s.cwd[p]) = s
      BY <3>1, <3>2 DEF Restore
    <3>4. e = NULL
      BY <1>6, <2>3 DEF Walk
    <3>. QED BY <1>4, <2>1, <2>3, <3>3, <3>4 DEF ChdirGoes
  <2>. QED BY <2>2, <2>3
<1>. QED BY <1>9, <1>10, <1>11, <1>12

-----------------------------------------------------------------------------
(* Counting. *)

(* Counting the slots that lead to a descriptor.                           *)
Room == Procs \X Slots

(* There are more descriptors than slots, and a count does not overflow. *)
LEMMA RoomIs ==
  /\ IsFiniteSet(Room) /\ Cardinality(Room) \in Nat
  /\ NumDescs >= Cardinality(Room) + 2 /\ W64 > Cardinality(Room)
  /\ IsFiniteSet(Slots) /\ IsFiniteSet(Procs)
<1>1. NumSlots \in Nat /\ NumSlots >= 5
  BY FilesAssumption
<1>2. IsFiniteSet(Slots) /\ Cardinality(Slots) = NumSlots
  <2>1. PICK b \in Int : b = NumSlots - 1 /\ b > 0
    BY <1>1
  <2>2. IsFiniteSet(0 .. b) /\ Cardinality(0 .. b) = IF 0 > b THEN 0 ELSE b - 0 + 1
    BY FS_Interval
  <2>. QED BY <1>1, <2>1, <2>2 DEF Slots
<1>3. IsFiniteSet(Procs) /\ Cardinality(Procs) \in Nat
  BY FilesAssumption, FS_CardinalityType
<1>4. IsFiniteSet(Room) /\ Cardinality(Room) = Cardinality(Procs) * Cardinality(Slots)
  BY <1>2, <1>3, FS_Product DEF Room
<1>5. Cardinality(Room) = NumSlots * Cardinality(Procs)
  <2>1. \A x, y \in Nat : x * y = y * x
    OBVIOUS
  <2>. QED BY <1>1, <1>2, <1>3, <1>4, <2>1
<1>6. Cardinality(Room) \in Nat
  BY <1>4, FS_CardinalityType
<1>. QED BY <1>2, <1>3, <1>4, <1>5, <1>6, FilesAssumption

(* The number of holders is a number that fits a count. *)
LEMMA HoldersAre ==
  ASSUME NEW s, NEW L, L \subseteq Procs, NEW d
  PROVE /\ IsFiniteSet(Holders(s, L, d)) /\ Cardinality(Holders(s, L, d)) \in Nat
        /\ Cardinality(Holders(s, L, d)) < W64
<1>1. Holders(s, L, d) \in SUBSET Room
  BY DEF Holders, Room
<1>2. PICK H : H = Holders(s, L, d)
  OBVIOUS
<1>3. IsFiniteSet(H) /\ Cardinality(H) <= Cardinality(Room)
  BY <1>1, <1>2, RoomIs, FS_Subset
<1>4. Cardinality(H) \in Nat
  BY <1>3, FS_CardinalityType
<1>. QED BY <1>2, <1>3, <1>4, RoomIs, FilesAssumption

(* So is that of the slots of one process. *)
LEMMA SlotsAre ==
  ASSUME NEW s, NEW p, NEW d
  PROVE IsFiniteSet(SlotsOf(s, p, d)) /\ Cardinality(SlotsOf(s, p, d)) \in Nat
<1>1. SlotsOf(s, p, d) \in SUBSET Slots
  BY DEF SlotsOf
<1>2. PICK H : H = SlotsOf(s, p, d)
  OBVIOUS
<1>3. IsFiniteSet(H)
  BY <1>1, <1>2, RoomIs, FS_Subset
<1>. QED BY <1>2, <1>3, FS_CardinalityType

(* The slots of one process and those of the others. *)
LEMMA HoldersSplit ==
  ASSUME NEW s, NEW L, L \subseteq Procs, NEW p \in L, NEW d
  PROVE Cardinality(Holders(s, L, d))
          = Cardinality(Holders(s, L \ {p}, d)) + Cardinality(SlotsOf(s, p, d))
<1>1. PICK A : A = Holders(s, L \ {p}, d) /\ IsFiniteSet(A) /\ Cardinality(A) \in Nat
  BY HoldersAre
<1>2. PICK M : M = SlotsOf(s, p, d) /\ IsFiniteSet(M) /\ Cardinality(M) \in Nat
  BY SlotsAre
<1>3. IsFiniteSet({p}) /\ Cardinality({p}) = 1
  BY Zenon, FS_Singleton
<1>4. PICK B : B = {p} \X M /\ IsFiniteSet(B) /\ Cardinality(B) = Cardinality(M)
  <2>1. IsFiniteSet({p} \X M) /\ Cardinality({p} \X M) = Cardinality({p}) * Cardinality(M)
    BY <1>2, <1>3, FS_Product
  <2>2. 1 * Cardinality(M) = Cardinality(M)
    BY <1>2
  <2>. QED BY <1>3, <2>1, <2>2
<1>5. Holders(s, L, d) = A \cup B
  BY <1>1, <1>2, <1>4 DEF Holders, SlotsOf
<1>6. A \cap B = {}
  BY <1>1, <1>4 DEF Holders
<1>7. Cardinality(A \cup B) = Cardinality(A) + Cardinality(B) - Cardinality(A \cap B)
  <2>1. IsFiniteSet(A) /\ IsFiniteSet(B)
    BY <1>1, <1>4
  <2>. QED BY ONLY <2>1, FS_Union
<1>8. Cardinality(A \cap B) = 0
  BY <1>6, FS_EmptySet
<1>. QED BY <1>1, <1>2, <1>4, <1>5, <1>7, <1>8

(* The holders depend on the tables only. *)
LEMMA HoldersSame ==
  ASSUME NEW s, NEW t, NEW L, NEW d, \A q \in L, i \in Slots : s.fds[q][i] = d <=> t.fds[q][i] = d
  PROVE Holders(s, L, d) = Holders(t, L, d)
  BY DEF Holders

(* When one table changes. *)
LEMMA HoldersEdit ==
  ASSUME NEW s, NEW t, NEW L, L \subseteq Procs, NEW p \in L, NEW d,
         \A q \in L \ {p} : t.fds[q] = s.fds[q]
  PROVE Cardinality(Holders(t, L, d)) + Cardinality(SlotsOf(s, p, d))
          = Cardinality(Holders(s, L, d)) + Cardinality(SlotsOf(t, p, d))
<1>1. Holders(s, L \ {p}, d) = Holders(t, L \ {p}, d)
  BY HoldersSame
<1>2. Cardinality(Holders(s, L, d))
        = Cardinality(Holders(s, L \ {p}, d)) + Cardinality(SlotsOf(s, p, d))
  BY HoldersSplit
<1>3. Cardinality(Holders(t, L, d))
        = Cardinality(Holders(t, L \ {p}, d)) + Cardinality(SlotsOf(t, p, d))
  BY HoldersSplit
<1>4. /\ Cardinality(SlotsOf(s, p, d)) \in Nat /\ Cardinality(SlotsOf(t, p, d)) \in Nat
      /\ Cardinality(Holders(s, L \ {p}, d)) \in Nat
  BY SlotsAre, HoldersAre
<1>. QED BY <1>1, <1>2, <1>3, <1>4

(* There are always two descriptors nothing leads to. *)
LEMMA TwoSpare ==
  ASSUME NEW s, KernelOK(s)
  PROVE \E d, e \in Descs \ Held(s) : d # e
<1> DEFINE used == {x \in Room : s.fds[x[1]][x[2]] # NULL}
           f == [x \in used |-> s.fds[x[1]][x[2]]]
<1>1. IsFiniteSet(used) /\ Cardinality(used) <= Cardinality(Room)
  <2>1. used \in SUBSET Room
    OBVIOUS
  <2> HIDE DEF used
  <2>. QED BY <2>1, RoomIs, FS_Subset
<1>2. f \in [used -> Held(s)]
  BY DEF Room, Held, KernelOK
<1>3. \A d \in Held(s) : \E x \in used : f[x] = d
  <2>1. ASSUME NEW d \in Held(s) PROVE \E x \in used : f[x] = d
    <3>1. PICK p \in Procs, i \in Slots : s.fds[p][i] = d
      BY DEF Held
    <3>2. d # NULL
      BY FilesAssumption DEF Held, Descs, NULL
    <3>3. <<p, i>> \in used /\ f[<<p, i>>] = d
      BY <3>1, <3>2 DEF Room
    <3>. QED BY Zenon, <3>3
  <2>. QED BY <2>1
<1>4. IsFiniteSet(Held(s)) /\ Cardinality(Held(s)) <= Cardinality(used)
  <2>1. f \in Surjection(used, Held(s))
    <3> HIDE DEF f, used
    <3>. QED BY <1>2, <1>3, Fun_IsSurj
  <2> HIDE DEF f, used
  <2>. QED BY <1>1, <2>1, FS_Surjection
<1>5. IsFiniteSet(Descs) /\ Cardinality(Descs) = NumDescs
  <2>1. NumDescs \in Nat /\ NumDescs >= 2
    BY RoomIs, FilesAssumption
  <2>2. PICK b \in Int : b = NumDescs /\ b >= 1
    BY <2>1
  <2>3. IsFiniteSet(1 .. b) /\ Cardinality(1 .. b) = IF 1 > b THEN 0 ELSE b - 1 + 1
    BY FS_Interval
  <2>. QED BY <2>2, <2>3 DEF Descs
<1>6. PICK F : F = Descs \ Held(s)
  BY Zenon
<1>7. IsFiniteSet(F) /\ Cardinality(F) = NumDescs - Cardinality(Held(s))
  <2>1. Descs \cap Held(s) = Held(s)
    BY DEF Held
  <2>2. IsFiniteSet(Descs \ Held(s))
        /\ Cardinality(Descs \ Held(s)) = Cardinality(Descs) - Cardinality(Descs \cap Held(s))
    BY Zenon, <1>5, FS_Difference
  <2>. QED BY <1>5, <1>6, <2>1, <2>2
<1>8. Cardinality(F) >= 2 /\ Cardinality(F) \in Nat
  <2>1. Cardinality(Held(s)) \in Nat /\ Cardinality(used) \in Nat /\ Cardinality(Room) \in Nat
    BY <1>1, <1>4, RoomIs, FS_CardinalityType
  <2>2. NumDescs \in Nat /\ NumDescs >= Cardinality(Room) + 2
    BY RoomIs, FilesAssumption
  <2> HIDE DEF used
  <2>. QED BY <1>1, <1>4, <1>7, <2>1, <2>2
<1>9. F # {}
  BY <1>8, FS_EmptySet
<1>10. PICK d \in F : TRUE
  BY <1>9
<1>11. IsFiniteSet(F \ {d}) /\ Cardinality(F \ {d}) = Cardinality(F) - 1
  BY <1>7, <1>10, FS_RemoveElement
<1>12. F \ {d} # {}
  <2>1. PICK G : G = F \ {d}
    BY Zenon
  <2>2. Cardinality(G) # 0
    BY <1>8, <1>11, <2>1
  <2>. QED BY <2>1, <2>2, FS_EmptySet
<1>. QED BY <1>6, <1>10, <1>12

(* Spare finds an unused descriptor. *)
LEMMA SpareIs ==
  ASSUME NEW s, \E d \in Descs : s.desc[d] = Unused
  PROVE Spare(s) \in Descs /\ s.desc[Spare(s)] = Unused
<1> DEFINE U == {d \in Descs : s.desc[d] = Unused}
<1>1. U # {} /\ U \subseteq Nat
  BY FilesAssumption DEF Descs
<1>2. \E x \in U : \A y \in U : x <= y
  <2> HIDE DEF U
  <2>. QED BY Zenon, <1>1, LeastNatural
<1>3. \E d \in Descs : s.desc[d] = Unused /\ \A e \in Descs : s.desc[e] = Unused => d <= e
  BY <1>2
<1>. QED BY <1>3 DEF Spare

(* The first free slot. *)
LEMMA FirstFreeIs ==
  ASSUME NEW s, NEW p
  PROVE \/ FirstFree(s, p) = NumSlots
        \/ FirstFree(s, p) \in 3 .. NumSlots - 1 /\ s.fds[p][FirstFree(s, p)] = NULL
<1> DEFINE free == {i \in Slots : i >= 3 /\ s.fds[p][i] = NULL}
<1>1. CASE free = {}
  BY <1>1 DEF FirstFree
<1>2. CASE free # {}
  <2>1. free \subseteq Nat /\ \A x \in free : x \in 3 .. NumSlots - 1 /\ s.fds[p][x] = NULL
    BY FilesAssumption DEF Slots
  <2>2. \E x \in free : \A y \in free : x <= y
    <3> HIDE DEF free
    <3>. QED BY Zenon, <1>2, <2>1, LeastNatural
  <2>3. FirstFree(s, p) = Min(free)
    BY <1>2 DEF FirstFree
  <2> HIDE DEF free
  <2>4. Min(free) \in free
    BY <2>2 DEF Min
  <2>. QED BY Zenon, <2>1, <2>3, <2>4
<1>. QED BY <1>1, <1>2

-----------------------------------------------------------------------------
(* What one call does to the other processes. *)

(* What stays of a descriptor that somebody holds. *)
Kin(f, g) == g # Unused /\ g.fdType = f.fdType /\ g.file_ptr = f.file_ptr /\ g.pipe_ptr = f.pipe_ptr

(* What a call of p, which turns s into t, may do. *)
CallOK(s, t, p, L) ==
  /\ Sound(t, L)
  /\ \A q \in Procs \ {p} : t.fds[q] = s.fds[q] /\ t.cwd[q] = s.cwd[q]
  /\ \A d \in Held(s) : Kin(s.desc[d], t.desc[d])
  /\ \A d \in Held(s) : (\A i \in Slots : s.fds[p][i] # d) => t.desc[d] = s.desc[d]
  /\ \A i \in Slots : t.fds[p][i] # NULL =>
       t.fds[p][i] \notin Held(s) \/ \E j \in Slots : s.fds[p][j] = t.fds[p][i]

(* The count of d goes along with the slots of p that lead to it. *)
Tallied(s, t, p, d) ==
  \/ /\ SlotsOf(t, p, d) = SlotsOf(s, p, d)
     /\ s.desc[d] # Unused /\ s.desc[d].fdType = t.desc[d].fdType
     /\ t.desc[d].refCount = s.desc[d].refCount
  \/ /\ \E i \in SlotsOf(s, p, d) : SlotsOf(t, p, d) = SlotsOf(s, p, d) \ {i}
     /\ s.desc[d] # Unused /\ s.desc[d].fdType = t.desc[d].fdType
     /\ t.desc[d].refCount = s.desc[d].refCount - 1
  \/ /\ d \notin Held(s) /\ \E i : SlotsOf(t, p, d) = {i}
     /\ t.desc[d].refCount = 1

(* A count that follows the slots of p stays right. *)
LEMMA TallyHolds ==
  ASSUME NEW s, NEW L, L \subseteq Procs, NEW p \in L, Sound(s, L), NEW t,
         \A q \in Procs \ {p} : t.fds[q] = s.fds[q],
         NEW d \in Descs, t.desc[d].fdType \in CountedTypes, Tallied(s, t, p, d)
  PROVE t.desc[d].refCount = Cardinality(Holders(t, L, d))
<1>1. PICK h, n, u, m : /\ h = Cardinality(Holders(s, L, d)) /\ n = Cardinality(Holders(t, L, d))
                        /\ u = Cardinality(SlotsOf(s, p, d)) /\ m = Cardinality(SlotsOf(t, p, d))
  OBVIOUS
<1>2. h \in Nat /\ n \in Nat /\ u \in Nat /\ m \in Nat
  BY <1>1, HoldersAre, SlotsAre
<1>3. n + u = h + m
  <2>1. \A q \in L \ {p} : t.fds[q] = s.fds[q]
    OBVIOUS
  <2>2. Cardinality(Holders(t, L, d)) + Cardinality(SlotsOf(s, p, d))
          = Cardinality(Holders(s, L, d)) + Cardinality(SlotsOf(t, p, d))
    BY <2>1, HoldersEdit
  <2>. QED BY <1>1, <2>2
<1>4. ASSUME s.desc[d] # Unused, s.desc[d].fdType = t.desc[d].fdType PROVE s.desc[d].refCount = h
  BY <1>1, <1>4 DEF Sound, Counted
<1>5. CASE /\ SlotsOf(t, p, d) = SlotsOf(s, p, d)
           /\ s.desc[d] # Unused /\ s.desc[d].fdType = t.desc[d].fdType
           /\ t.desc[d].refCount = s.desc[d].refCount
  <2>1. u = m
    BY <1>1, <1>5
  <2>2. n = h
    BY <1>2, <1>3, <2>1
  <2>. QED BY <1>1, <1>4, <1>5, <2>2
<1>6. CASE /\ \E i \in SlotsOf(s, p, d) : SlotsOf(t, p, d) = SlotsOf(s, p, d) \ {i}
           /\ s.desc[d] # Unused /\ s.desc[d].fdType = t.desc[d].fdType
           /\ t.desc[d].refCount = s.desc[d].refCount - 1
  <2>1. PICK M : M = SlotsOf(s, p, d) /\ IsFiniteSet(M)
    BY SlotsAre
  <2>2. PICK i \in M : SlotsOf(t, p, d) = M \ {i}
    BY <1>6, <2>1
  <2>3. Cardinality(M \ {i}) = Cardinality(M) - 1
    BY Zenon, <2>1, <2>2, FS_RemoveElement
  <2>4. m = u - 1
    BY <1>1, <2>1, <2>2, <2>3
  <2>5. n = h - 1
    BY <1>2, <1>3, <2>4
  <2>. QED BY <1>1, <1>4, <1>6, <2>5
<1>7. CASE /\ d \notin Held(s) /\ \E i : SlotsOf(t, p, d) = {i}
           /\ t.desc[d].refCount = 1
  <2>1. PICK i : SlotsOf(t, p, d) = {i}
    BY <1>7
  <2>2. Cardinality({i}) = 1
    BY Zenon, FS_Singleton
  <2>3. Holders(s, L, d) = {} /\ SlotsOf(s, p, d) = {}
    BY <1>7 DEF Holders, Held, SlotsOf
  <2>4. h = 0 /\ u = 0 /\ m = 1
    BY <1>1, <2>1, <2>2, <2>3, FS_EmptySet
  <2>5. n = 1
    BY <1>2, <1>3, <2>4
  <2>. QED BY <1>1, <1>7, <2>5
<1>. QED BY Zenon, <1>5, <1>6, <1>7 DEF Tallied

(* t is s with another table for p and other descriptors.                   *)
Fits(s, t, p, tab) ==
  /\ t = [fds |-> t.fds, desc |-> t.desc, pipes |-> t.pipes, cwd |-> t.cwd] /\ t.cwd = s.cwd
  /\ tab \in [Slots -> Descs \cup {NULL}] /\ t.fds = [s.fds EXCEPT ![p] = tab]
  /\ t.desc = [d \in Descs |-> t.desc[d]]
  /\ \A d \in Descs : t.desc[d] = Unused \/ IsFd(t.desc[d])
  /\ \A d \in Held(s) : Kin(s.desc[d], t.desc[d])
  /\ \A d \in Held(s) : (\A i \in Slots : s.fds[p][i] # d) => t.desc[d] = s.desc[d]
  /\ \A i \in Slots : tab[i] # NULL =>
       /\ t.desc[tab[i]] # Unused
       /\ tab[i] \notin Held(s) \/ \E j \in Slots : s.fds[p][j] = tab[i]
  /\ \A d \in Descs : t.desc[d] # Unused /\ t.desc[d].fdType \in CountedTypes =>
       Tallied(s, t, p, d)

(* A call that changes slots and counts of p alike. *)
LEMMA EditOK ==
  ASSUME NEW s, NEW L, L \subseteq Procs, NEW p \in L, Sound(s, L), NEW t, NEW tab, Fits(s, t, p, tab)
  PROVE CallOK(s, t, p, L)
<1>0. /\ t = [fds |-> t.fds, desc |-> t.desc, pipes |-> t.pipes, cwd |-> t.cwd] /\ t.cwd = s.cwd
      /\ tab \in [Slots -> Descs \cup {NULL}] /\ t.fds = [s.fds EXCEPT ![p] = tab]
      /\ t.desc = [d \in Descs |-> t.desc[d]]
      /\ \A d \in Descs : t.desc[d] = Unused \/ IsFd(t.desc[d])
      /\ \A d \in Held(s) : Kin(s.desc[d], t.desc[d])
      /\ \A d \in Held(s) : (\A i \in Slots : s.fds[p][i] # d) => t.desc[d] = s.desc[d]
      /\ \A i \in Slots : tab[i] # NULL =>
           /\ t.desc[tab[i]] # Unused
           /\ tab[i] \notin Held(s) \/ \E j \in Slots : s.fds[p][j] = tab[i]
      /\ \A d \in Descs : t.desc[d] # Unused /\ t.desc[d].fdType \in CountedTypes =>
       Tallied(s, t, p, d)
  BY Zenon DEF Fits
<1>1. /\ KernelOK(s) /\ Counted(s, L) /\ Idle(s, L)
  BY DEF Sound
<1>2. /\ s.fds \in [Procs -> [Slots -> Descs \cup {NULL}]] /\ p \in Procs
      /\ s.cwd = [q \in Procs |-> s.cwd[q]]
  BY <1>1 DEF KernelOK
<1>3. /\ t.fds \in [Procs -> [Slots -> Descs \cup {NULL}]] /\ t.fds[p] = tab
      /\ \A q \in Procs \ {p} : t.fds[q] = s.fds[q]
  BY <1>0, <1>2
<1>4. ASSUME NEW q \in Procs, NEW i \in Slots, t.fds[q][i] # NULL
      PROVE t.desc[t.fds[q][i]] # Unused
  <2>1. CASE q = p
    BY Zenon, <1>0, <1>3, <1>4, <2>1
  <2>2. CASE q # p
    <3>1. s.fds[q][i] # NULL /\ t.fds[q][i] = s.fds[q][i]
      BY <1>3, <1>4, <2>2
    <3>2. s.fds[q][i] \in Held(s)
      BY <1>2, <3>1 DEF Held
    <3>. QED BY <1>0, <3>1, <3>2 DEF Kin
  <2>. QED BY <2>1, <2>2
<1>5. KernelOK(t)
  BY <1>0, <1>1, <1>3, <1>4 DEF KernelOK
<1>6. Counted(t, L)
  <2>1. ASSUME NEW d \in Descs, t.desc[d] # Unused, t.desc[d].fdType \in CountedTypes
        PROVE t.desc[d].refCount = Cardinality(Holders(t, L, d))
    <3>1. Tallied(s, t, p, d)
      BY <1>0, <2>1
    <3>. QED BY <1>3, <2>1, <3>1, TallyHolds
  <2>. QED BY <2>1 DEF Counted
<1>7. Idle(t, L)
  BY <1>1, <1>3 DEF Idle
<1>8. \A q \in Procs \ {p} : t.fds[q] = s.fds[q] /\ t.cwd[q] = s.cwd[q]
  BY <1>0, <1>3
<1>9. \A i \in Slots : t.fds[p][i] # NULL =>
       t.fds[p][i] \notin Held(s) \/ \E j \in Slots : s.fds[p][j] = t.fds[p][i]
  BY Zenon, <1>0, <1>3
<1>. QED BY Zenon, <1>0, <1>5, <1>6, <1>7, <1>8, <1>9 DEF CallOK, Sound

(* No call.                                                                *)
LEMMA NoCallOK ==
  ASSUME NEW s, NEW L, NEW p, Sound(s, L), p \in Procs
  PROVE CallOK(s, s, p, L)
<1>1. \A d \in Held(s) : s.desc[d] # Unused
  BY DEF Held, Sound, KernelOK, Descs, NULL
<1>2. \A d \in Held(s) : Kin(s.desc[d], s.desc[d])
  BY <1>1 DEF Kin
<1>. QED BY <1>2 DEF CallOK

(* The offset of a descriptor that p holds changes. *)
Moved(s, d, n) == [s EXCEPT !.desc[d].offset = n]

(* A call that moves an offset. *)
MovesTo(s, t, p, fd, n) ==
  fd \in Slots /\ s.fds[p][fd] # NULL /\ n \in 0 .. W64 - 1 /\ t = Moved(s, s.fds[p][fd], n)

(* The offset is moved, nothing else. *)
MoveDone(s, t, d, n) == t.desc = [s.desc EXCEPT ![d].offset = n]

(* Such a call is sound. *)
LEMMA OffsetOK ==
  ASSUME NEW s, NEW L, L \subseteq Procs, NEW p \in L, Sound(s, L), NEW fd, NEW n, NEW t,
         MovesTo(s, t, p, fd, n)
  PROVE CallOK(s, t, p, L) /\ t.fds = s.fds /\ t.cwd = s.cwd /\ MoveDone(s, t, s.fds[p][fd], n)
<1>0. fd \in Slots /\ s.fds[p][fd] # NULL /\ n \in 0 .. W64 - 1 /\ t = Moved(s, s.fds[p][fd], n)
  BY DEF MovesTo
<1>1. KernelOK(s)
  BY DEF Sound
<1>2. PICK d \in Descs : d = s.fds[p][fd]
  BY <1>0, <1>1 DEF KernelOK
<1>3. t = [s EXCEPT !.desc[d].offset = n]
  BY <1>0, <1>2 DEF Moved
<1>4. /\ s = [fds |-> s.fds, desc |-> s.desc, pipes |-> s.pipes, cwd |-> s.cwd]
      /\ s.desc = [e \in Descs |-> s.desc[e]] /\ s.fds \in [Procs -> [Slots -> Descs \cup {NULL}]]
      /\ \A e \in Descs : s.desc[e] = Unused \/ IsFd(s.desc[e])
      /\ \A q \in Procs, i \in Slots : s.fds[q][i] # NULL => s.desc[s.fds[q][i]] # Unused
  BY <1>1 DEF KernelOK
<1>5. /\ t = [fds |-> s.fds, desc |-> [s.desc EXCEPT ![d].offset = n], pipes |-> s.pipes, cwd |-> s.cwd]
  BY Zenon, <1>3, <1>4
<1>6. /\ t = [fds |-> t.fds, desc |-> t.desc, pipes |-> t.pipes, cwd |-> t.cwd]
      /\ t.fds = s.fds /\ t.cwd = s.cwd /\ t.desc = [s.desc EXCEPT ![d].offset = n]
  BY <1>5
<1>7. /\ t.desc = [e \in Descs |-> t.desc[e]]
      /\ t.desc[d] = [s.desc[d] EXCEPT !.offset = n] /\ \A e \in Descs : e # d => t.desc[e] = s.desc[e]
  BY Zenon, <1>4, <1>6
<1>8. s.desc[d] # Unused /\ IsFd(s.desc[d])
  BY <1>0, <1>2, <1>4
<1>9. PICK f : f = s.desc[d] /\ IsFd(f)
  BY <1>8
<1>10. PICK g : g = [f EXCEPT !.offset = n]
  BY Zenon
<1>11. /\ g = [fdType |-> f.fdType, offset |-> n, perm |-> f.perm, refCount |-> f.refCount,
               file_ptr |-> f.file_ptr, pipe_ptr |-> f.pipe_ptr]
  BY <1>9, <1>10 DEF IsFd
<1>12. /\ g.fdType = f.fdType /\ g.refCount = f.refCount /\ g.file_ptr = f.file_ptr
       /\ g.pipe_ptr = f.pipe_ptr /\ g.offset = n /\ IsFd(g)
  BY <1>0, <1>9, <1>11 DEF IsFd
<1>13. g # Unused
  <2>1. Unused.fdType = "none" /\ g.fdType # "none"
    BY <1>12 DEF Unused, IsFd
  <2>. QED BY <2>1
<1>14. t.desc[d] = g
  BY <1>7, <1>9, <1>10
<1>15. \A e \in Descs : t.desc[e] = Unused \/ IsFd(t.desc[e])
  BY <1>4, <1>7, <1>12, <1>14
<1>16. \A e \in Held(s) : e \in Descs /\ s.desc[e] # Unused
  BY <1>4 DEF Held, Descs, NULL
<1>17. \A e \in Held(s) : Kin(s.desc[e], t.desc[e])
  BY <1>7, <1>9, <1>12, <1>13, <1>14, <1>16 DEF Kin
<1>18. \A e \in Descs : t.desc[e] # Unused => Tallied(s, t, p, e)
  <2>1. \A e \in Descs : SlotsOf(t, p, e) = SlotsOf(s, p, e)
    BY <1>6 DEF SlotsOf
  <2>. QED BY <1>7, <1>8, <1>9, <1>12, <1>14, <2>1 DEF Tallied
<1>19. PICK tab \in [Slots -> Descs \cup {NULL}] : tab = s.fds[p]
  BY <1>4
<1>20. t.fds = [s.fds EXCEPT ![p] = tab]
  BY <1>4, <1>6, <1>19
<1>21. \A i \in Slots : tab[i] # NULL =>
            /\ t.desc[tab[i]] # Unused
            /\ tab[i] \notin Held(s) \/ \E j \in Slots : s.fds[p][j] = tab[i]
  BY <1>4, <1>7, <1>13, <1>14, <1>19
<1>22. \A e \in Held(s) : (\A i \in Slots : s.fds[p][i] # e) => t.desc[e] = s.desc[e]
  BY <1>0, <1>2, <1>7, <1>16
<1>23. CallOK(s, t, p, L)
  <2>1. Fits(s, t, p, tab)
    BY Zenon, <1>6, <1>7, <1>15, <1>17, <1>18, <1>20, <1>21, <1>22 DEF Fits
  <2>. QED BY <2>1, EditOK
<1>. QED BY <1>2, <1>6, <1>23 DEF MoveDone

-----------------------------------------------------------------------------
(* sys_open. *)

(* A kernel state in parts. *)
LEMMA KernelIs ==
  ASSUME NEW s, KernelOK(s)
  PROVE /\ s = [fds |-> s.fds, desc |-> s.desc, pipes |-> s.pipes, cwd |-> s.cwd]
        /\ s.desc = [e \in Descs |-> s.desc[e]] /\ s.fds \in [Procs -> [Slots -> Descs \cup {NULL}]]
        /\ \A e \in Descs : s.desc[e] = Unused \/ IsFd(s.desc[e])
        /\ \A q \in Procs, i \in Slots : s.fds[q][i] # NULL =>
             s.desc[s.fds[q][i]] # Unused /\ IsFd(s.desc[s.fds[q][i]])
        /\ \A e \in Held(s) : e \in Descs /\ s.desc[e] # Unused /\ IsFd(s.desc[e])
        /\ HasCwd(s)
<1>1. /\ s = [fds |-> s.fds, desc |-> s.desc, pipes |-> s.pipes, cwd |-> s.cwd]
      /\ s.desc = [e \in Descs |-> s.desc[e]] /\ s.fds \in [Procs -> [Slots -> Descs \cup {NULL}]]
      /\ \A e \in Descs : s.desc[e] = Unused \/ IsFd(s.desc[e])
      /\ \A q \in Procs, i \in Slots : s.fds[q][i] # NULL => s.desc[s.fds[q][i]] # Unused
      /\ s.cwd = [q \in Procs |-> s.cwd[q]]
  BY DEF KernelOK
<1>2. \A q \in Procs, i \in Slots : s.fds[q][i] # NULL => IsFd(s.desc[s.fds[q][i]])
  BY <1>1
<1>3. \A e \in Held(s) : e \in Descs /\ s.desc[e] # Unused
  BY <1>1 DEF Held, Descs, NULL
<1>4. HasCwd(s)
  BY <1>1 DEF HasCwd
<1>. QED BY Zenon, <1>1, <1>2, <1>3, <1>4

(* The width of a counter. *)
LEMMA Wide == W64 \in Nat /\ W64 > 1
<1>1. PICK c : c = Cardinality(Procs) /\ c \in Nat
  BY RoomIs, FS_CardinalityType
<1>2. c # 0
  BY <1>1, RoomIs, FS_EmptySet, FilesAssumption
<1>3. NumSlots \in Nat /\ NumSlots >= 5 /\ W64 \in Nat /\ W64 > NumSlots * c
  BY <1>1, FilesAssumption
<1>4. NumSlots * c >= NumSlots
  <2>1. \A a, b \in Nat : b # 0 => a * b >= a
    OBVIOUS
  <2>. QED BY <1>1, <1>2, <1>3, <2>1
<1>5. \A a \in Nat : a = NumSlots * c /\ a >= NumSlots => W64 > 1
  BY <1>3
<1>. QED BY <1>1, <1>3, <1>4, <1>5

(* The headers of files. *)
LEMMA HeaderIs ==
  ASSUME TreeBuilt, NEW n \in 0 .. Top
  PROVE /\ FileType(n) # "dir" => n \in 1 .. Len(archive) /\ archive[n].fileSize \in Nat
                                  /\ archive[n].fileSize + 1 < W64
        /\ n = Root => FileType(n) = "dir"
<1>1. archive \in Archives /\ Top \in 0 .. Len(archive) /\ Top \in Nat /\ Len(archive) \in Nat
  BY TreeIs
<1>2. n = Root => FileType(n) = "dir"
  BY DEF FileType
<1>3. n # Root => n \in 1 .. Len(archive)
  BY <1>1 DEF Root
<1>4. ASSUME NEW i \in 1 .. Len(archive)
      PROVE archive[i].fileSize \in Nat /\ archive[i].fileSize + 1 < W64
  <2> DEFINE H == [name : Seq(STRING), fileType : {"dir", "file"}, executable : BOOLEAN,
                   elf : BOOLEAN, fileSize : Nat]
  <2>1. archive \in Seq(H)
    BY <1>1, ArchivesAssumption
  <2>2. \A h \in H : h.fileSize \in Nat
    OBVIOUS
  <2> HIDE DEF H
  <2>3. archive[i] \in H
    BY <2>1, ElementOfSeq
  <2>. QED BY <1>1, <2>2, <2>3, FilesAssumption
<1>. QED BY <1>2, <1>3, <1>4

(* An unused descriptor becomes one of the slots of p. *)
Placed(s, p, i, d, f) == [s EXCEPT !.fds[p][i] = d, !.desc[d] = f]

(* A new descriptor in an empty slot. *)
LEMMA PlaceOK ==
  ASSUME NEW s, NEW L, L \subseteq Procs, NEW p \in L, Sound(s, L),
         NEW i \in Slots, s.fds[p][i] = NULL, NEW d \in Descs \ Held(s),
         NEW f, IsFd(f), f # Unused, f.refCount = 1,
         NEW t, t = Placed(s, p, i, d, f)
  PROVE /\ CallOK(s, t, p, L) /\ t.cwd = s.cwd
        /\ t.fds = [s.fds EXCEPT ![p][i] = d] /\ t.desc = [s.desc EXCEPT ![d] = f]
<1>1. KernelOK(s)
  BY DEF Sound
<1>2. /\ s = [fds |-> s.fds, desc |-> s.desc, pipes |-> s.pipes, cwd |-> s.cwd]
      /\ s.desc = [e \in Descs |-> s.desc[e]] /\ s.fds \in [Procs -> [Slots -> Descs \cup {NULL}]]
      /\ \A e \in Descs : s.desc[e] = Unused \/ IsFd(s.desc[e])
      /\ \A q \in Procs, j \in Slots : s.fds[q][j] # NULL =>
           s.desc[s.fds[q][j]] # Unused /\ IsFd(s.desc[s.fds[q][j]])
      /\ \A e \in Held(s) : e \in Descs /\ s.desc[e] # Unused /\ IsFd(s.desc[e])
  BY <1>1, KernelIs
<1>3. t = [fds |-> [s.fds EXCEPT ![p][i] = d], desc |-> [s.desc EXCEPT ![d] = f],
           pipes |-> s.pipes, cwd |-> s.cwd]
  BY Zenon, <1>2 DEF Placed
<1>4. /\ t = [fds |-> t.fds, desc |-> t.desc, pipes |-> t.pipes, cwd |-> t.cwd]
      /\ t.fds = [s.fds EXCEPT ![p][i] = d] /\ t.cwd = s.cwd /\ t.desc = [s.desc EXCEPT ![d] = f]
  BY <1>3
<1>5. /\ t.desc = [e \in Descs |-> t.desc[e]]
      /\ t.desc[d] = f /\ \A e \in Descs : e # d => t.desc[e] = s.desc[e]
  BY Zenon, <1>2, <1>4
<1>6. PICK tab \in [Slots -> Descs \cup {NULL}] : tab = [s.fds[p] EXCEPT ![i] = d]
  BY Zenon, <1>2
<1>7. t.fds = [s.fds EXCEPT ![p] = tab]
  BY <1>2, <1>4, <1>6
<1>8. tab[i] = d /\ \A j \in Slots : j # i => tab[j] = s.fds[p][j]
  BY <1>2, <1>6
<1>9. \A e \in Descs : t.desc[e] = Unused \/ IsFd(t.desc[e])
  BY <1>2, <1>5
<1>10. \A e \in Held(s) : Kin(s.desc[e], t.desc[e]) /\ t.desc[e] = s.desc[e]
  BY Zenon, <1>2, <1>5 DEF Kin
<1>11. \A j \in Slots : tab[j] # NULL =>
            /\ t.desc[tab[j]] # Unused
            /\ tab[j] \notin Held(s) \/ \E m \in Slots : s.fds[p][m] = tab[j]
  <2>1. ASSUME NEW j \in Slots, tab[j] # NULL, j # i PROVE t.desc[tab[j]] # Unused
    <3>1. s.fds[p][j] # NULL /\ tab[j] = s.fds[p][j] /\ p \in Procs
      BY <1>8, <2>1
    <3>2. s.fds[p][j] \in Held(s)
      BY <1>2, <3>1 DEF Held
    <3>. QED BY Zenon, <1>2, <1>10, <3>1, <3>2
  <2>. QED BY <1>5, <1>8, <2>1
<1>12. \A e \in Descs : t.desc[e] # Unused => Tallied(s, t, p, e)
  <2>0. t.fds[p] = tab /\ p \in Procs
    BY <1>2, <1>7
  <2>1. ASSUME NEW e \in Descs, e # d PROVE SlotsOf(t, p, e) = SlotsOf(s, p, e)
    BY <1>8, <2>0, <2>1 DEF SlotsOf, Descs, NULL
  <2>2. SlotsOf(t, p, d) = {i}
    BY <1>8, <2>0 DEF SlotsOf, Held
  <2>. QED BY <1>5, <2>1, <2>2 DEF Tallied
<1>13. \A e \in Held(s) : Kin(s.desc[e], t.desc[e])
  BY <1>10
<1>14. \A e \in Held(s) : (\A j \in Slots : s.fds[p][j] # e) => t.desc[e] = s.desc[e]
  BY <1>10
<1>15. \A e \in Descs : t.desc[e] # Unused /\ t.desc[e].fdType \in CountedTypes => Tallied(s, t, p, e)
  BY <1>12
<1>16. CallOK(s, t, p, L)
  <2>1. Fits(s, t, p, tab)
    BY <1>4, <1>5, <1>7, <1>9, <1>11, <1>13, <1>14, <1>15 DEF Fits
  <2>. QED BY <2>1, EditOK
<1>. QED BY <1>4, <1>16

(* A file may be opened: what open and getdents then find.                 *)
Opens(s, r, p, path, flags, L) ==
  /\ CallOK(s, r.s, p, L) /\ r.s.cwd = s.cwd
  /\ \/ r = Fail(s)
     \/ /\ r.ret \in 3 .. NumSlots - 1 /\ s.fds[p][r.ret] = NULL
        /\ \E d \in Descs \ Held(s), file \in 0 .. Top :
             /\ file = lookUpForFile(s.cwd[p], path) /\ ~Refused(file, flags)
             /\ r.s.fds = [s.fds EXCEPT ![p][r.ret] = d]
             /\ r.s.desc = [s.desc EXCEPT ![d] = NewFd("TARFILE", flags, file, NULL)]
(* What sys_open does. *)
LEMMA OpenOK ==
  ASSUME TreeBuilt, NEW s, NEW L, L \subseteq Procs, NEW p \in L, Sound(s, L), Tidy(s),
         NEW path, path \in PathType, NEW flags, NEW r, r = sys_open(s, p, path, flags)
  PROVE Opens(s, r, p, path, flags, L)
<1>0. KernelOK(s) /\ p \in Procs
  BY DEF Sound
<1>1. PICK n \in 0 .. Top : s.cwd[p] = FilePath(n)
  BY <1>0 DEF KernelOK
<1>2. PICK file : file = lookUpForFile(s.cwd[p], path)
  OBVIOUS
<1>3. Found(Full(FilePath(n), path), file)
  BY <1>1, <1>2, LookUpFinds
<1>4. PICK i : i = FirstFree(s, p)
  OBVIOUS
<1>5. CASE Refused(file, flags) \/ i = NumSlots
  <2>1. r = Fail(s)
    BY <1>2, <1>4, <1>5 DEF sys_open
  <2>2. r.s = s
    BY <2>1 DEF Fail, Result
  <2>. QED BY <1>0, <2>1, <2>2, NoCallOK DEF Opens
<1>6. CASE ~Refused(file, flags) /\ i # NumSlots
  <2>1. i \in 3 .. NumSlots - 1 /\ s.fds[p][i] = NULL /\ i \in Slots
    BY <1>4, <1>6, FirstFreeIs, FilesAssumption DEF Slots
  <2>2. file \in 0 .. Top
    BY <1>3, <1>6 DEF Refused, Found, IsNode
  <2>3. PICK d : d = Spare(s)
    OBVIOUS
  <2>4. d \in Descs \ Held(s)
    <3>1. \E e \in Descs : s.desc[e] = Unused
      BY <1>0, TwoSpare DEF Tidy
    <3>2. d \in Descs /\ s.desc[d] = Unused
      BY <2>3, <3>1, SpareIs
    <3>. QED BY Zenon, <1>0, <3>2, KernelIs
  <2>5. PICK f : f = NewFd("TARFILE", flags, file, NULL)
    OBVIOUS
  <2>6. IsFd(f) /\ f # Unused /\ f.refCount = 1
    <3>1. f.fdType = "TARFILE" /\ f.refCount = 1 /\ f.offset = 0 /\ f.file_ptr = file
      BY <2>5 DEF NewFd
    <3>2. 1 \in 0 .. W64 - 1 /\ 0 \in 0 .. W64 - 1
      BY Wide
    <3>3. IsFd(f)
      BY <2>2, <2>5, <3>1, <3>2 DEF NewFd, IsFd
    <3>4. f # Unused
      BY <3>1 DEF Unused
    <3>. QED BY <3>1, <3>3, <3>4
  <2>7. PICK t : t = Placed(s, p, i, d, f)
    OBVIOUS
  <2>8. /\ CallOK(s, t, p, L) /\ t.cwd = s.cwd
        /\ t.fds = [s.fds EXCEPT ![p][i] = d] /\ t.desc = [s.desc EXCEPT ![d] = f]
    BY <2>1, <2>4, <2>6, <2>7, PlaceOK
  <2>9. r = Result(i, t)
    BY <1>2, <1>4, <1>6, <2>3, <2>5, <2>7 DEF sys_open, Placed
  <2>10. r.ret = i /\ r.s = t
    BY <2>9 DEF Result
  <2>11. /\ file = lookUpForFile(s.cwd[p], path) /\ ~Refused(file, flags)
         /\ r.s.fds = [s.fds EXCEPT ![p][r.ret] = d]
         /\ r.s.desc = [s.desc EXCEPT ![d] = NewFd("TARFILE", flags, file, NULL)]
    BY <1>2, <1>6, <2>5, <2>8, <2>10
  <2>. QED BY Zenon, <2>1, <2>2, <2>4, <2>8, <2>10, <2>11 DEF Opens
<1>. QED BY <1>5, <1>6

-----------------------------------------------------------------------------
(* sys_read and sys_lseek. *)

(* The smaller of two. *)
LEMMA LessOf ==
  ASSUME NEW a \in Int, NEW b \in Int
  PROVE Min({a, b}) \in {a, b} /\ Min({a, b}) <= a /\ Min({a, b}) <= b
<1>1. \E x \in {a, b} : \A y \in {a, b} : x <= y
  <2>1. CASE a <= b
    BY <2>1
  <2>2. CASE ~(a <= b)
    BY <2>2
  <2>. QED BY <2>1, <2>2
<1>2. /\ Min({a, b}) \in {a, b} /\ \A y \in {a, b} : Min({a, b}) <= y
  BY <1>1 DEF Min
<1>. QED BY <1>2

(* What a call that only moves an offset does. *)
Reads(s, r, p, L) == CallOK(s, r.s, p, L) /\ r.s.fds = s.fds /\ r.s.cwd = s.cwd

(* A call that changes nothing. *)
LEMMA StaysRead ==
  ASSUME NEW s, NEW L, NEW p \in Procs, Sound(s, L), NEW v, NEW r, r = Result(v, s)
  PROVE Reads(s, r, p, L)
<1>1. r.s = s
  BY DEF Result
<1>. QED BY <1>1, NoCallOK DEF Reads

(* A call that moves the offset of a slot. *)
LEMMA MovesRead ==
  ASSUME NEW s, NEW L, L \subseteq Procs, NEW p \in L, Sound(s, L), NEW fd \in Slots,
         s.fds[p][fd] # NULL, NEW n \in 0 .. W64 - 1,
         NEW r, r.s = Moved(s, s.fds[p][fd], n)
  PROVE Reads(s, r, p, L)
<1>1. PICK t : t = r.s /\ t = Moved(s, s.fds[p][fd], n)
  OBVIOUS
<1>2. PICK m : m = n /\ MovesTo(s, t, p, fd, m)
  BY <1>1 DEF MovesTo
<1>3. CallOK(s, t, p, L) /\ t.fds = s.fds /\ t.cwd = s.cwd
  BY ONLY <1>2, L \subseteq Procs, p \in L, Sound(s, L), OffsetOK
<1>. QED BY <1>1, <1>3 DEF Reads

(* What sys_read does. *)
LEMMA ReadOK ==
  ASSUME TreeBuilt, NEW s, NEW L, L \subseteq Procs, NEW p \in L, Sound(s, L), NEW fd \in Slots,
         NEW count \in Nat, NEW r, r = sys_read(s, p, fd, count)
  PROVE Reads(s, r, p, L)
<1>1. PICK d : d = s.fds[p][fd]
  OBVIOUS
<1>2. PICK f : f = s.desc[d]
  OBVIOUS
<1>3. PICK n : n = Min({count, TextEnd(f.file_ptr) - f.offset})
  OBVIOUS
<1>4. p \in Procs /\ KernelOK(s)
  BY DEF Sound
<1>5. CASE d = NULL \/ f.fdType # "TARFILE"
  <2>1. r = Result(-1, s)
    BY Zenon, <1>1, <1>2, <1>5 DEF sys_read, Fail
  <2>. QED BY <1>4, <2>1, StaysRead
<1>6. CASE ~(d = NULL \/ f.fdType # "TARFILE") /\ (f.perm = "O_WRONLY" \/ FileType(f.file_ptr) = "dir")
  <2>1. r = Result(-1, s)
    BY Zenon, <1>1, <1>2, <1>6 DEF sys_read, Fail
  <2>. QED BY <1>4, <2>1, StaysRead
<1>7. CASE /\ ~(d = NULL \/ f.fdType # "TARFILE")
           /\ ~(f.perm = "O_WRONLY" \/ FileType(f.file_ptr) = "dir")
  <2>1. CASE f.offset >= archive[f.file_ptr].fileSize
    <3>1. r = Result(0, s)
      BY <1>1, <1>2, <1>7, <2>1 DEF sys_read
    <3>. QED BY <1>4, <3>1, StaysRead
  <2>2. CASE ~(f.offset >= archive[f.file_ptr].fileSize)
    <3>1. r = Result(n, [s EXCEPT !.desc[d].offset = @ + n])
      BY Zenon, <1>1, <1>2, <1>3, <1>7, <2>2 DEF sys_read
    <3>2. IsFd(f)
      BY Zenon, <1>1, <1>2, <1>4, <1>7, KernelIs
    <3>3. f.file_ptr \in 0 .. Top /\ f.offset \in 0 .. W64 - 1
      BY <1>7, <3>2 DEF IsFd
    <3>4. PICK z : /\ z = archive[f.file_ptr].fileSize /\ z \in Nat /\ z + 1 < W64
      BY <1>7, <3>3, HeaderIs
    <3>5. PICK e \in Nat : e = TextEnd(f.file_ptr) /\ z <= e /\ e <= z + 1
      BY <3>4 DEF TextEnd
    <3>6. PICK o \in Nat : o = f.offset /\ o < z
      BY <2>2, <3>3, <3>4, Wide
    <3>7. e - o \in Int /\ count \in Int /\ e - o >= 0
      BY <3>5, <3>6, <3>4
    <3>8. n \in {count, e - o} /\ n <= e - o
      BY Zenon, <1>3, <3>5, <3>6, <3>7, LessOf
    <3>9. o + n \in 0 .. W64 - 1
      BY <3>4, <3>5, <3>6, <3>7, <3>8, Wide
    <3>10. r.s = Moved(s, d, o + n)
      BY <1>2, <3>1, <3>6 DEF Result, Moved
    <3>. QED BY <1>1, <1>7, <3>9, <3>10, MovesRead
  <2>. QED BY <2>1, <2>2
<1>. QED BY <1>5, <1>6, <1>7

(* What sys_lseek does. *)
LEMMA LseekOK ==
  ASSUME TreeBuilt, NEW s, NEW L, L \subseteq Procs, NEW p \in L, Sound(s, L), NEW fd \in Slots,
         NEW offset \in Int, NEW whence \in {"SEEK_SET", "SEEK_CUR", "SEEK_END"},
         NEW r, r = sys_lseek(s, p, fd, offset, whence)
  PROVE Reads(s, r, p, L)
<1>1. PICK d : d = s.fds[p][fd]
  OBVIOUS
<1>2. PICK f : f = s.desc[d]
  OBVIOUS
<1>3. PICK from : from = CASE whence = "SEEK_SET" -> 0
                [] whence = "SEEK_CUR" -> f.offset
                [] whence = "SEEK_END" -> archive[f.file_ptr].fileSize
  OBVIOUS
<1>4. PICK n : n = (from + offset) % W64
  OBVIOUS
<1>5. p \in Procs /\ KernelOK(s)
  BY DEF Sound
<1>6. CASE d = NULL \/ f.file_ptr = NULL \/ FileType(f.file_ptr) = "dir"
  <2>1. r = Result(-1, s)
    BY Zenon, <1>1, <1>2, <1>6 DEF sys_lseek, Fail
  <2>. QED BY <1>5, <2>1, StaysRead
<1>7. CASE ~(d = NULL \/ f.file_ptr = NULL \/ FileType(f.file_ptr) = "dir")
  <2>1. r = Result(n, [s EXCEPT !.desc[d].offset = n])
    BY Zenon, <1>1, <1>2, <1>3, <1>4, <1>7 DEF sys_lseek
  <2>2. IsFd(f)
    BY Zenon, <1>1, <1>2, <1>5, <1>7, KernelIs
  <2>3. f.file_ptr \in 0 .. Top /\ f.offset \in 0 .. W64 - 1
    BY <1>7, <2>2 DEF IsFd
  <2>4. archive[f.file_ptr].fileSize \in Nat
    BY <1>7, <2>3, HeaderIs
  <2>5. f.offset \in Int
    BY <2>3, Wide
  <2>6. from \in Int
    BY <1>3, <2>4, <2>5
  <2>7. n \in 0 .. W64 - 1
    BY <1>4, <2>6, Wide
  <2>8. r.s = Moved(s, d, n)
    BY <2>1 DEF Result, Moved
  <2>. QED BY <1>1, <1>7, <2>7, <2>8, MovesRead
<1>. QED BY <1>6, <1>7

-----------------------------------------------------------------------------
(* sys_getdents; slots that are emptied or replaced. *)

(* NULL is no descriptor. *)
LEMMA NotNull == \A d \in Descs : d # NULL
  BY FilesAssumption DEF Descs, NULL

(* What readdir gets: the next child, or the end.                          *)
Dents(s, r, d) ==
  LET f == s.desc[d]
      cs == tree.children[f.file_ptr]
  IN d # NULL /\ f.file_ptr # NULL /\ FileType(f.file_ptr) = "dir" =>
       \/ f.offset >= Len(cs) /\ r.ret = 0 /\ MoveDone(s, r.s, d, 0)
       \/ /\ f.offset < Len(cs) /\ r.ret = 1 /\ MoveDone(s, r.s, d, f.offset + 1)
          /\ r.d_name = FileNameIn(archive, cs[f.offset + 1])

(* What sys_getdents does: the next child, or back to the start. *)
LEMMA GetdentsOK ==
  ASSUME TreeBuilt, NEW s, NEW L, L \subseteq Procs, NEW p \in L, Sound(s, L), NEW fd \in Slots,
         NEW r, r = sys_getdents(s, p, fd)
  PROVE Reads(s, r, p, L) /\ Dents(s, r, s.fds[p][fd])
<1>1. PICK d : d = s.fds[p][fd]
  OBVIOUS
<1>2. PICK f : f = s.desc[d]
  OBVIOUS
<1>3. PICK cs : cs = tree.children[f.file_ptr]
  OBVIOUS
<1>5. p \in Procs /\ KernelOK(s)
  BY DEF Sound
<1>6. CASE d = NULL \/ f.file_ptr = NULL \/ FileType(f.file_ptr) # "dir"
  <2>1. r = Result(-1, s)
    BY Zenon, <1>1, <1>2, <1>6 DEF sys_getdents, Fail
  <2>2. Dents(s, r, d)
    BY <1>2, <1>6 DEF Dents
  <2>. QED BY <1>1, <1>5, <2>1, <2>2, StaysRead
<1>7. CASE ~(d = NULL \/ f.file_ptr = NULL \/ FileType(f.file_ptr) # "dir")
  <2>2. IsFd(f)
    BY Zenon, <1>1, <1>2, <1>5, <1>7, KernelIs
  <2>3. f.file_ptr \in 0 .. Top /\ f.offset \in 0 .. W64 - 1
    BY <1>7, <2>2 DEF IsFd
  <2>4. Len(cs) \in Nat /\ Len(cs) < W64
    <3>1. /\ Grown(archive, tree, Top) /\ Top \in Nat /\ Top <= Len(archive) /\ Len(archive) \in Nat
          /\ archive \in Archives /\ f.file_ptr \in NodesOf(archive)
      BY <2>3, TreeIs
    <3>2. cs \in Seq(1 .. Top) /\ Len(cs) <= Top
      BY <1>3, <3>1 DEF Grown
    <3>3. Len(cs) \in Nat
      BY <3>2, LenProperties
    <3>4. Len(archive) < W64
      BY <3>1, FilesAssumption
    <3>. QED BY <3>1, <3>2, <3>3, <3>4, Wide
  <2>5. PICK o \in Nat : o = f.offset
    BY <2>3
  <2>6. CASE o >= Len(cs)
    <3>1. r = Result(0, [s EXCEPT !.desc[d].offset = 0])
      BY Zenon, <1>1, <1>2, <1>3, <1>7, <2>5, <2>6 DEF sys_getdents
    <3>2. r.s = Moved(s, d, 0) /\ r.ret = 0
      BY <3>1 DEF Result, Moved
    <3>3. 0 \in 0 .. W64 - 1
      BY Wide
    <3>4. Reads(s, r, p, L)
      BY <1>1, <1>7, <3>2, <3>3, MovesRead
    <3>5. PICK t : t = r.s /\ MovesTo(s, t, p, fd, 0)
      BY <1>1, <1>7, <3>2, <3>3 DEF MovesTo
    <3>6. MoveDone(s, t, d, 0)
      BY <1>1, <3>5, OffsetOK
    <3>. QED BY <1>1, <1>2, <1>3, <2>5, <2>6, <3>2, <3>4, <3>5, <3>6 DEF Dents
  <2>7. CASE ~(o >= Len(cs))
    <3>1. r = [ret |-> 1, s |-> [s EXCEPT !.desc[d].offset = @ + 1],
               d_name |-> FileNameIn(archive, cs[o + 1])]
      BY Zenon, <1>1, <1>2, <1>3, <1>7, <2>5, <2>7 DEF sys_getdents
    <3>2. r.s = Moved(s, d, o + 1) /\ r.ret = 1 /\ r.d_name = FileNameIn(archive, cs[o + 1])
      BY <1>2, <2>5, <3>1 DEF Moved
    <3>3. o + 1 \in 0 .. W64 - 1
      BY <2>4, <2>5, <2>7, Wide
    <3>4. Reads(s, r, p, L)
      BY <1>1, <1>7, <3>2, <3>3, MovesRead
    <3>5. PICK t, n : t = r.s /\ n = o + 1 /\ MovesTo(s, t, p, fd, n)
      BY <1>1, <1>7, <3>2, <3>3 DEF MovesTo
    <3>6. MoveDone(s, t, d, n)
      BY <1>1, <3>5, OffsetOK
    <3>7. o < Len(cs)
      BY <2>4, <2>5, <2>7
    <3>. QED BY Zenon, <1>1, <1>2, <1>3, <2>5, <3>2, <3>4, <3>5, <3>6, <3>7 DEF Dents
  <2>. QED BY <2>6, <2>7
<1>. QED BY <1>6, <1>7

(* A slot of p is given up or leads to an end of a pipe that p has: the     *)
(* count of what it led to goes down.                                       *)
Lowered(s, t, d) ==
  IF d = NULL THEN t.desc = s.desc
  ELSE t.desc = [s.desc EXCEPT ![d].refCount = Count(s.desc[d].refCount - 1)]
(* Slot fd of p leads to x, and the count of what it led to is lowered. *)
Replaced(s, t, p, fd, x) ==
  /\ fd \in Slots
  /\ t = [fds |-> t.fds, desc |-> t.desc, pipes |-> t.pipes, cwd |-> t.cwd] /\ t.cwd = s.cwd
  /\ t.fds = [s.fds EXCEPT ![p][fd] = x]
  /\ x = NULL \/ (x \in Descs /\ s.desc[x].fdType \in Ends /\ \E j \in Slots : s.fds[p][j] = x)
  /\ Lowered(s, t, s.fds[p][fd])

(* Such a call is sound. *)
LEMMA ReplaceOK ==
  ASSUME NEW s, NEW L, L \subseteq Procs, NEW p \in L, Sound(s, L), NEW t, NEW fd, NEW x,
         Replaced(s, t, p, fd, x)
  PROVE CallOK(s, t, p, L)
<1>0. KernelOK(s) /\ p \in Procs /\ Counted(s, L)
  BY DEF Sound
<1>1. /\ fd \in Slots
      /\ t = [fds |-> t.fds, desc |-> t.desc, pipes |-> t.pipes, cwd |-> t.cwd] /\ t.cwd = s.cwd
      /\ t.fds = [s.fds EXCEPT ![p][fd] = x]
      /\ x = NULL \/ (x \in Descs /\ s.desc[x].fdType \in Ends /\ \E j \in Slots : s.fds[p][j] = x)
      /\ Lowered(s, t, s.fds[p][fd])
  BY DEF Replaced
<1>2. /\ s.desc = [e \in Descs |-> s.desc[e]] /\ s.fds \in [Procs -> [Slots -> Descs \cup {NULL}]]
      /\ \A e \in Descs : s.desc[e] = Unused \/ IsFd(s.desc[e])
      /\ \A q \in Procs, i \in Slots : s.fds[q][i] # NULL => s.desc[s.fds[q][i]] # Unused
      /\ \A e \in Held(s) : e \in Descs /\ s.desc[e] # Unused /\ IsFd(s.desc[e])
  BY <1>0, KernelIs
<1>3. PICK tab \in [Slots -> Descs \cup {NULL}] : tab = [s.fds[p] EXCEPT ![fd] = x]
  BY Zenon, <1>0, <1>1, <1>2
<1>4. t.fds = [s.fds EXCEPT ![p] = tab] /\ t.fds[p] = tab
  BY <1>0, <1>1, <1>2, <1>3
<1>5. tab[fd] = x /\ \A j \in Slots : j # fd => tab[j] = s.fds[p][j]
  BY <1>0, <1>1, <1>2, <1>3
<1>6. PICK d : d = s.fds[p][fd] /\ d \in Descs \cup {NULL}
  BY <1>0, <1>1, <1>2
(* The descriptors. *)
<1>7. /\ t.desc = [e \in Descs |-> t.desc[e]]
      /\ \A e \in Descs : e # d => t.desc[e] = s.desc[e]
      /\ d # NULL => t.desc[d] = [s.desc[d] EXCEPT !.refCount = Count(s.desc[d].refCount - 1)]
  BY Zenon, <1>1, <1>2, <1>6 DEF Lowered, Descs, NULL
<1>8. ASSUME d # NULL
      PROVE /\ d \in Descs /\ IsFd(s.desc[d]) /\ IsFd(t.desc[d]) /\ Kin(s.desc[d], t.desc[d])
            /\ t.desc[d].refCount = Count(s.desc[d].refCount - 1)
  <2>1. PICK f : f = s.desc[d] /\ IsFd(f) /\ d \in Descs
    BY <1>0, <1>1, <1>2, <1>6, <1>8
  <2>2. PICK n : n = Count(f.refCount - 1) /\ n \in 0 .. W64 - 1
    <3>1. f.refCount - 1 \in Int
      BY <2>1, Wide DEF IsFd
    <3>2. (f.refCount - 1) % W64 \in 0 .. W64 - 1
      BY <3>1, Wide
    <3>. QED BY <3>2 DEF Count
  <2>3. PICK g : g = [f EXCEPT !.refCount = n]
    BY Zenon
  <2>4. g = [fdType |-> f.fdType, offset |-> f.offset, perm |-> f.perm, refCount |-> n,
               file_ptr |-> f.file_ptr, pipe_ptr |-> f.pipe_ptr]
    BY <2>1, <2>3 DEF IsFd
  <2>5. /\ g.fdType = f.fdType /\ g.refCount = n /\ g.file_ptr = f.file_ptr
        /\ g.pipe_ptr = f.pipe_ptr /\ g.offset = f.offset /\ IsFd(g)
    BY <2>1, <2>2, <2>4 DEF IsFd
  <2>6. g # Unused
    <3>1. Unused.fdType = "none" /\ g.fdType # "none"
      BY <2>5 DEF Unused, IsFd
    <3>. QED BY <3>1
  <2>7. t.desc[d] = g
    BY <1>7, <1>8, <2>1, <2>2, <2>3
  <2>. QED BY <2>1, <2>2, <2>5, <2>6, <2>7 DEF Kin
<1>9. \A e \in Descs : t.desc[e] = Unused \/ IsFd(t.desc[e])
  <2>1. ASSUME NEW e \in Descs, e # d PROVE t.desc[e] = Unused \/ IsFd(t.desc[e])
    BY <1>2, <1>7, <2>1
  <2>. QED BY <1>8, <2>1, NotNull
<1>10. \A e \in Held(s) : Kin(s.desc[e], t.desc[e])
  <2>1. ASSUME NEW e \in Held(s), e # d PROVE Kin(s.desc[e], t.desc[e])
    BY <1>2, <1>7, <2>1 DEF Kin
  <2>2. ASSUME NEW e \in Held(s), e = d PROVE Kin(s.desc[e], t.desc[e])
    <3>0. e \in Descs
      BY Zenon, <1>2
    <3>1. e # NULL
      BY <3>0, NotNull
    <3>. QED BY <1>8, <2>2, <3>1
  <2>. QED BY <2>1, <2>2
<1>11. \A e \in Held(s) : (\A j \in Slots : s.fds[p][j] # e) => t.desc[e] = s.desc[e]
  BY <1>1, <1>2, <1>6, <1>7
<1>12. \A j \in Slots : tab[j] # NULL =>
            /\ t.desc[tab[j]] # Unused
            /\ tab[j] \notin Held(s) \/ \E m \in Slots : s.fds[p][m] = tab[j]
  <2>1. ASSUME NEW j \in Slots, tab[j] # NULL PROVE \E m \in Slots : s.fds[p][m] = tab[j]
    BY <1>1, <1>5, <2>1
  <2>2. ASSUME NEW j \in Slots, tab[j] # NULL PROVE t.desc[tab[j]] # Unused
    <3>1. PICK m \in Slots : s.fds[p][m] = tab[j]
      BY <2>1, <2>2
    <3>2. tab[j] \in Held(s)
      BY <1>0, <1>2, <2>2, <3>1 DEF Held
    <3>. QED BY <1>10, <3>2 DEF Kin
  <2>. QED BY <2>1, <2>2
<1>13. ASSUME NEW e \in Descs, t.desc[e] # Unused, t.desc[e].fdType \in CountedTypes
       PROVE Tallied(s, t, p, e)
  <2>0. x # e
    <3>1. ASSUME x = e PROVE FALSE
      <4>1. x # NULL
        BY <3>1 DEF Descs, NULL
      <4>2. s.desc[e].fdType \in Ends /\ e \in Held(s)
        BY <1>0, <1>1, <3>1, <4>1 DEF Held
      <4>3. t.desc[e].fdType = s.desc[e].fdType
        BY <1>10, <4>2 DEF Kin
      <4>. QED BY <1>13, <4>2, <4>3 DEF CountedTypes, Ends
    <3>. QED BY <3>1
  <2>1. CASE e # d
    <3>1. SlotsOf(t, p, e) = SlotsOf(s, p, e)
      BY <1>4, <1>5, <1>6, <2>0, <2>1 DEF SlotsOf
    <3>2. t.desc[e] = s.desc[e]
      BY <1>7, <2>1
    <3>. QED BY <1>13, <3>1, <3>2 DEF Tallied
  <2>2. CASE e = d
    <3>1. e # NULL
      BY DEF Descs, NULL
    <3>2. /\ IsFd(s.desc[e]) /\ Kin(s.desc[e], t.desc[e]) /\ s.desc[e] # Unused
          /\ t.desc[e].refCount = Count(s.desc[e].refCount - 1)
      BY <1>0, <1>1, <1>2, <1>6, <1>8, <2>2, <3>1
    <3>3. PICK n \in Nat : n = s.desc[e].refCount /\ n < W64
      BY <3>2, Wide DEF IsFd
    <3>4. n = Cardinality(Holders(s, L, e))
      <4>1. s.desc[e].fdType \in CountedTypes
        BY <1>13, <3>2 DEF Kin
      <4>. QED BY <1>0, <3>2, <3>3, <4>1 DEF Counted
    <3>5. n # 0
      <4>1. <<p, fd>> \in Holders(s, L, e)
        BY <1>1, <1>6, <2>2 DEF Holders
      <4>2. PICK H : H = Holders(s, L, e) /\ IsFiniteSet(H)
        BY HoldersAre
      <4>. QED BY <3>4, <4>1, <4>2, FS_EmptySet
    <3>6. t.desc[e].refCount = s.desc[e].refCount - 1
      BY <3>2, <3>3, <3>5, Wide DEF Count
    <3>7. fd \in SlotsOf(s, p, e) /\ SlotsOf(t, p, e) = SlotsOf(s, p, e) \ {fd}
      BY <1>1, <1>4, <1>5, <1>6, <2>0, <2>2 DEF SlotsOf
    <3>. QED BY <3>2, <3>6, <3>7 DEF Tallied, Kin
  <2>. QED BY <2>1, <2>2
<1>14. Fits(s, t, p, tab)
  BY Zenon, <1>1, <1>3, <1>4, <1>7, <1>9, <1>10, <1>11, <1>12, <1>13 DEF Fits
<1>. QED BY <1>14, EditOK

-----------------------------------------------------------------------------
(* sys_close and sys_dup2. *)

(* close of a slot that is in use, whoever holds the descriptor. *)
Closed(s, t, p, fd) ==
  /\ t = [fds |-> t.fds, desc |-> t.desc, pipes |-> t.pipes, cwd |-> t.cwd] /\ t.cwd = s.cwd
  /\ Lowered(s, t, s.fds[p][fd])
  /\ t.fds = IF Count(s.desc[s.fds[p][fd]].refCount - 1) # 0 THEN s.fds
             ELSE [s.fds EXCEPT ![p][fd] = NULL]

(* The state sys_close leaves. *)
LEMMA CloseIs ==
  ASSUME NEW s, KernelOK(s), NEW p \in Procs, NEW fd \in Slots, s.fds[p][fd] # NULL,
         NEW r, r = sys_close(s, p, fd)
  PROVE Closed(s, r.s, p, fd) /\ r.ret = 0
<1>1. PICK d : d = s.fds[p][fd] /\ d # NULL
  OBVIOUS
<1>2. PICK n : n = Count(s.desc[d].refCount - 1)
  OBVIOUS
<1>3. /\ s = [fds |-> s.fds, desc |-> s.desc, pipes |-> s.pipes, cwd |-> s.cwd]
      /\ s.desc = [e \in Descs |-> s.desc[e]] /\ s.fds \in [Procs -> [Slots -> Descs \cup {NULL}]]
  BY KernelIs
<1>4. PICK t : t = [s EXCEPT !.desc[d].refCount = n]
  BY Zenon
<1>5. t = [fds |-> s.fds, desc |-> [s.desc EXCEPT ![d].refCount = n], pipes |-> s.pipes, cwd |-> s.cwd]
  BY Zenon, <1>3, <1>4
<1>6. /\ t = [fds |-> t.fds, desc |-> t.desc, pipes |-> t.pipes, cwd |-> t.cwd] /\ t.cwd = s.cwd
      /\ t.fds = s.fds /\ t.desc = [s.desc EXCEPT ![d].refCount = n]
  BY <1>5
<1>7. Lowered(s, t, d)
  BY <1>1, <1>2, <1>6 DEF Lowered
<1>8. CASE n # 0
  <2>1. r = Result(0, t)
    BY <1>1, <1>2, <1>4, <1>8 DEF sys_close
  <2>2. r.s = t /\ r.ret = 0
    BY <2>1 DEF Result
  <2>. QED BY <1>1, <1>2, <1>6, <1>7, <1>8, <2>2 DEF Closed
<1>9. CASE n = 0
  <2>1. PICK pp : pp = CASE t.desc[d].fdType = "PIPEWRITE" -> [t.pipes EXCEPT ![s.desc[d].pipe_ptr].isWriteClosed = TRUE]
                 [] t.desc[d].fdType = "PIPEREAD"  -> [t.pipes EXCEPT ![s.desc[d].pipe_ptr].isReadClosed = TRUE]
                 [] OTHER -> t.pipes
    BY Zenon
  <2>2. PICK u : u = [t EXCEPT !.fds[p][fd] = NULL, !.pipes = pp]
    OBVIOUS
  <2>3. r = Result(0, [t EXCEPT !.fds[p][fd] = NULL,
                     !.pipes = CASE t.desc[d].fdType = "PIPEWRITE" -> [@ EXCEPT ![s.desc[d].pipe_ptr].isWriteClosed = TRUE]
                 [] t.desc[d].fdType = "PIPEREAD"  -> [@ EXCEPT ![s.desc[d].pipe_ptr].isReadClosed = TRUE]
                 [] OTHER -> @])
    BY Zenon, <1>1, <1>2, <1>4, <1>9 DEF sys_close
  <2>4. t.pipes = [t EXCEPT !.fds[p][fd] = NULL].pipes
    <3>1. PICK f, e, x, c : t = [fds |-> f, desc |-> e, pipes |-> x, cwd |-> c]
      BY Zenon, <1>5
    <3>. QED BY ONLY <3>1
  <2>5. r = Result(0, u)
    BY <2>1, <2>2, <2>3, <2>4
  <2>6. r.s = u /\ r.ret = 0
    BY <2>5 DEF Result
  <2>7. u = [fds |-> [s.fds EXCEPT ![p][fd] = NULL], desc |-> t.desc, pipes |-> pp, cwd |-> s.cwd]
    BY Zenon, <1>5, <1>6, <2>2
  <2>8. /\ u = [fds |-> u.fds, desc |-> u.desc, pipes |-> u.pipes, cwd |-> u.cwd] /\ u.cwd = s.cwd
        /\ u.fds = [s.fds EXCEPT ![p][fd] = NULL] /\ u.desc = t.desc
    BY <2>7
  <2>9. Lowered(s, u, d)
    BY <1>7, <2>8 DEF Lowered
  <2>. QED BY <1>1, <1>2, <1>9, <2>6, <2>8, <2>9 DEF Closed
<1>. QED BY <1>8, <1>9

(* What a call leaves of the slots of p: the same ones, fd perhaps free.    *)
Closes(s, r, p, fd, L) ==
  /\ CallOK(s, r.s, p, L) /\ r.s.cwd = s.cwd
  /\ \A i \in Slots : r.s.fds[p][i] = s.fds[p][i] \/ (i = fd /\ r.s.fds[p][i] = NULL)

(* sys_close of an end of a pipe, or of what nobody shares. *)
LEMMA CloseOK ==
  ASSUME NEW s, NEW L, L \subseteq Procs, NEW p \in L, Sound(s, L), NEW fd \in Slots,
         s.fds[p][fd] # NULL =>
           s.desc[s.fds[p][fd]].fdType \in Ends \/ s.desc[s.fds[p][fd]].refCount = 1,
         NEW r, r = sys_close(s, p, fd)
  PROVE Closes(s, r, p, fd, L)
<1>0. KernelOK(s) /\ p \in Procs
  BY DEF Sound
<1>1. PICK d : d = s.fds[p][fd] /\ d \in Descs \cup {NULL}
  BY <1>0 DEF KernelOK
<1>2. PICK n : n = Count(s.desc[d].refCount - 1)
  OBVIOUS
<1>3. s.fds \in [Procs -> [Slots -> Descs \cup {NULL}]]
  BY Zenon, <1>0, KernelIs
<1>4. CASE d = NULL
  <2>1. r = Fail(s)
    BY <1>1, <1>4 DEF sys_close
  <2>2. r.s = s
    BY <2>1 DEF Fail, Result
  <2>. QED BY <1>0, <2>2, NoCallOK DEF Closes
<1>5. CASE d # NULL
  <2>1. PICK t : t = r.s /\ Closed(s, t, p, fd)
    BY <1>0, <1>1, <1>5, CloseIs
  <2>2. /\ t = [fds |-> t.fds, desc |-> t.desc, pipes |-> t.pipes, cwd |-> t.cwd] /\ t.cwd = s.cwd
        /\ Lowered(s, t, d) /\ t.fds = IF n # 0 THEN s.fds ELSE [s.fds EXCEPT ![p][fd] = NULL]
    BY <1>1, <1>2, <2>1 DEF Closed
  <2>3. CASE n # 0
    <3>1. t.fds = s.fds /\ t.fds = [s.fds EXCEPT ![p][fd] = d]
      BY <1>0, <1>1, <1>3, <2>2, <2>3
    <3>2. s.desc[d].fdType \in Ends
      <4>1. ASSUME s.desc[d].refCount = 1 PROVE n = 0
        <5>1. s.desc[d].refCount - 1 = 0 /\ 0 % W64 = 0
          BY <4>1, Wide
        <5>. QED BY <1>2, <5>1 DEF Count
      <4>. QED BY <1>1, <1>5, <2>3, <4>1
    <3>3. Replaced(s, t, p, fd, d)
      BY <1>1, <1>5, <2>2, <3>1, <3>2 DEF Replaced
    <3>4. CallOK(s, t, p, L)
      BY <3>3, ReplaceOK
    <3>. QED BY Zenon, <2>1, <2>2, <3>1, <3>4 DEF Closes
  <2>4. CASE n = 0
    <3>1. t.fds = [s.fds EXCEPT ![p][fd] = NULL]
      BY <2>2, <2>4
    <3>2. Replaced(s, t, p, fd, NULL)
      BY <1>1, <2>2, <3>1 DEF Replaced
    <3>3. CallOK(s, t, p, L)
      BY <3>2, ReplaceOK
    <3>4. \A i \in Slots : t.fds[p][i] = s.fds[p][i] \/ (i = fd /\ t.fds[p][i] = NULL)
      BY <1>0, <1>3, <3>1
    <3>. QED BY <2>1, <2>2, <3>3, <3>4 DEF Closes
  <2>. QED BY <2>3, <2>4
<1>. QED BY <1>4, <1>5

(* dup2 of an end of a pipe: the slot newfd then leads to it. *)
Dups(s, r, p, oldfd, newfd, L) ==
  /\ CallOK(s, r.s, p, L) /\ r.s.cwd = s.cwd
  /\ \A i \in Slots : i # newfd => r.s.fds[p][i] = s.fds[p][i]
  /\ IF s.fds[p][oldfd] = NULL THEN r.ret = -1 /\ r.s = s
     ELSE r.ret = newfd /\ r.s.fds[p][newfd] = s.fds[p][oldfd]

(* sys_dup2 of an end of a pipe over any slot. *)
LEMMA Dup2OK ==
  ASSUME NEW s, NEW L, L \subseteq Procs, NEW p \in L, Sound(s, L),
         NEW oldfd \in Slots, NEW newfd \in Slots, oldfd # newfd,
         s.fds[p][oldfd] # NULL => s.desc[s.fds[p][oldfd]].fdType \in Ends,
         NEW r, r = sys_dup2(s, p, oldfd, newfd)
  PROVE Dups(s, r, p, oldfd, newfd, L)
<1>0. KernelOK(s) /\ p \in Procs
  BY DEF Sound
<1>1. PICK x : x = s.fds[p][oldfd] /\ x \in Descs \cup {NULL}
  BY <1>0 DEF KernelOK
<1>2. PICK d : d = s.fds[p][newfd] /\ d \in Descs \cup {NULL}
  BY <1>0 DEF KernelOK
<1>3. /\ s.fds \in [Procs -> [Slots -> Descs \cup {NULL}]]
      /\ s = [fds |-> s.fds, desc |-> s.desc, pipes |-> s.pipes, cwd |-> s.cwd]
  BY Zenon, <1>0, KernelIs
<1>4. PICK t : t = IF s.fds[p][newfd] = NULL THEN s ELSE sys_close(s, p, newfd).s
  OBVIOUS
<1>5. CASE x = NULL
  <2>1. r = Fail(s)
    BY <1>1, <1>5 DEF sys_dup2
  <2>2. r.s = s /\ r.ret = -1
    BY <2>1 DEF Fail, Result
  <2>. QED BY <1>0, <1>1, <1>5, <2>2, NoCallOK DEF Dups
<1>6. CASE x # NULL
  <2>1. r = Result(newfd, [t EXCEPT !.fds[p][newfd] = t.fds[p][oldfd]])
    BY <1>1, <1>4, <1>6 DEF sys_dup2
  <2>2. /\ t = [fds |-> t.fds, desc |-> t.desc, pipes |-> t.pipes, cwd |-> t.cwd] /\ t.cwd = s.cwd
        /\ Lowered(s, t, d)
        /\ t.fds = s.fds \/ t.fds = [s.fds EXCEPT ![p][newfd] = NULL]
    <3>1. CASE d = NULL
      BY <1>2, <1>3, <1>4, <3>1 DEF Lowered
    <3>2. CASE d # NULL
      <4>1. PICK c : c = sys_close(s, p, newfd)
        OBVIOUS
      <4>2. Closed(s, c.s, p, newfd) /\ t = c.s
        BY <1>0, <1>2, <1>4, <3>2, <4>1, CloseIs
      <4>. QED BY <1>2, <4>2 DEF Closed
    <3>. QED BY <3>1, <3>2
  <2>3. /\ t.fds[p][oldfd] = x /\ [t.fds EXCEPT ![p][newfd] = x] = [s.fds EXCEPT ![p][newfd] = x]
    <3>1. PICK f, g : f = s.fds /\ g = t.fds
      OBVIOUS
    <3>2. f \in [Procs -> [Slots -> Descs \cup {NULL}]] /\ f[p][oldfd] = x /\ p \in Procs
      BY Zenon, <1>0, <1>1, <1>3, <3>1
    <3>3. g = f \/ g = [f EXCEPT ![p][newfd] = NULL]
      BY Zenon, <2>2, <3>1
    <3>4. g[p][oldfd] = x /\ [g EXCEPT ![p][newfd] = x] = [f EXCEPT ![p][newfd] = x]
      BY ONLY <3>2, <3>3, oldfd \in Slots, newfd \in Slots, oldfd # newfd
    <3>. QED BY Zenon, <3>1, <3>4
  <2>4. PICK u : u = [t EXCEPT !.fds[p][newfd] = x]
    BY Zenon
  <2>5. u = [fds |-> [s.fds EXCEPT ![p][newfd] = x], desc |-> t.desc, pipes |-> t.pipes, cwd |-> s.cwd]
    BY <2>2, <2>3, <2>4
  <2>6. /\ u = [fds |-> u.fds, desc |-> u.desc, pipes |-> u.pipes, cwd |-> u.cwd] /\ u.cwd = s.cwd
        /\ u.fds = [s.fds EXCEPT ![p][newfd] = x] /\ u.desc = t.desc
    BY <2>5
  <2>7. Lowered(s, u, d)
    BY <2>2, <2>6 DEF Lowered
  <2>8. x \in Descs /\ s.desc[x].fdType \in Ends /\ \E j \in Slots : s.fds[p][j] = x
    BY <1>1, <1>6
  <2>9. Replaced(s, u, p, newfd, x)
    BY <1>2, <2>6, <2>7, <2>8 DEF Replaced
  <2>10. CallOK(s, u, p, L)
    BY <2>9, ReplaceOK
  <2>11. r.s = u /\ r.ret = newfd
    BY <2>1, <2>3, <2>4 DEF Result
  <2>12. u.fds[p][newfd] = x /\ \A i \in Slots : i # newfd => u.fds[p][i] = s.fds[p][i]
    BY <1>0, <1>3, <2>6
  <2>. QED BY Zenon, <1>1, <1>6, <2>6, <2>10, <2>11, <2>12 DEF Dups
<1>. QED BY <1>5, <1>6

-----------------------------------------------------------------------------
(* sys_pipe. *)

(* A new end of a pipe. *)
LEMMA NewIs ==
  ASSUME NEW type, type \in Ends, NEW x, NEW f, f = NewFd(type, 0, NULL, x)
  PROVE IsFd(f) /\ f # Unused /\ f.fdType = type /\ f.pipe_ptr = x
<1>1. f.fdType = type /\ f.refCount = 1 /\ f.offset = 0 /\ f.file_ptr = NULL /\ f.pipe_ptr = x
  BY DEF NewFd
<1>2. f = [fdType |-> f.fdType, offset |-> f.offset, perm |-> f.perm, refCount |-> f.refCount,
          file_ptr |-> f.file_ptr, pipe_ptr |-> f.pipe_ptr]
  BY DEF NewFd
<1>3. 1 \in 0 .. W64 - 1 /\ 0 \in 0 .. W64 - 1
  BY Wide
<1>4. IsFd(f)
  BY <1>1, <1>2, <1>3 DEF IsFd, Ends
<1>5. Unused.fdType = "none" /\ f.fdType # "none"
  BY <1>1 DEF Unused, Ends
<1>. QED BY <1>1, <1>4, <1>5

(* What pipe does: two free descriptors become the ends of one pipe.        *)
TwoEnds(s, r, p, i, j, d, e) ==
  /\ r.ret = 0 /\ r.file_desc = <<i, j>> /\ i # j
  /\ d \in Descs \ Held(s) /\ e \in Descs \ Held(s) /\ d # e
  /\ r.s.fds[p][i] = d /\ r.s.fds[p][j] = e
  /\ \A n \in Slots : n # i /\ n # j => r.s.fds[p][n] = s.fds[p][n]
  /\ r.s.desc[d] = NewFd("PIPEREAD", 0, NULL, r.pipe)
  /\ r.s.desc[e] = NewFd("PIPEWRITE", 0, NULL, r.pipe)
(* A pipe is made in two empty slots, or the call fails. *)
PipesOK(s, r, p, L) ==
  /\ CallOK(s, r.s, p, L) /\ r.s.cwd = s.cwd
  /\ \/ r.ret = -1 /\ r.s = s
     \/ \E i, j \in 3 .. NumSlots - 1, d, e \in Descs : TwoEnds(s, r, p, i, j, d, e)

(* What sys_pipe does. *)
LEMMA PipeOK ==
  ASSUME NEW s, NEW L, L \subseteq Procs, NEW p \in L, Sound(s, L), Tidy(s),
         \A n \in Slots : n >= 3 /\ s.fds[p][n] # NULL => s.desc[s.fds[p][n]].fdType \in Ends,
         NEW r, r = sys_pipe(s, p)
  PROVE PipesOK(s, r, p, L)
<1>0. KernelOK(s) /\ p \in Procs
  BY DEF Sound
<1>1. PICK i : i = FirstFree(s, p)
  OBVIOUS
<1>2. PICK j : j = SecondFree(i)
  OBVIOUS
<1>3. PICK x : x = SparePipe(s)
  OBVIOUS
<1>4. PICK d : d = Spare(s)
  OBVIOUS
<1>5. /\ s = [fds |-> s.fds, desc |-> s.desc, pipes |-> s.pipes, cwd |-> s.cwd]
      /\ s.desc = [n \in Descs |-> s.desc[n]] /\ s.fds \in [Procs -> [Slots -> Descs \cup {NULL}]]
      /\ \A n \in Descs : s.desc[n] = Unused \/ IsFd(s.desc[n])
      /\ \A n \in Held(s) : n \in Descs /\ s.desc[n] # Unused /\ IsFd(s.desc[n])
      /\ \A q \in Procs, n \in Slots : s.fds[q][n] # NULL => s.desc[s.fds[q][n]] # Unused
  BY <1>0, KernelIs
<1>6. CASE i = NumSlots
  <2>1. r = Fail(s)
    BY <1>1, <1>6 DEF sys_pipe
  <2>2. r.s = s /\ r.ret = -1
    BY <2>1 DEF Fail, Result
  <2>. QED BY <1>0, <2>2, NoCallOK DEF PipesOK
<1>7. CASE i # NumSlots
  <2>1. i \in 3 .. NumSlots - 1 /\ s.fds[p][i] = NULL
    BY <1>1, <1>7, FirstFreeIs
  <2>2. j \in 3 .. NumSlots - 1 /\ i # j /\ i \in Slots /\ j \in Slots
    BY <1>2, <2>1, FilesAssumption DEF SecondFree, Slots
  <2>3. PICK f : f = NewFd("PIPEREAD", 0, NULL, x) /\ IsFd(f) /\ f # Unused /\ f.fdType = "PIPEREAD"
    BY NewIs DEF Ends
  <2>4. PICK g : g = NewFd("PIPEWRITE", 0, NULL, x) /\ IsFd(g) /\ g # Unused /\ g.fdType = "PIPEWRITE"
    BY NewIs DEF Ends
  <2>5. PICK a, b \in Descs \ Held(s) : a # b
    BY <1>0, TwoSpare
  <2>6. s.desc[a] = Unused /\ s.desc[b] = Unused
    BY <2>5 DEF Tidy
  <2>7. d \in Descs /\ s.desc[d] = Unused
    <3>1. \E n \in Descs : s.desc[n] = Unused
      BY <2>5, <2>6
    <3>. QED BY <1>4, <3>1, SpareIs
  <2>8. PICK t : t = [s EXCEPT !.desc[d] = NewFd("PIPEREAD", 0, NULL, x), !.pipes[x] = OpenPipe]
    OBVIOUS
  <2>9. t = [fds |-> s.fds, desc |-> [s.desc EXCEPT ![d] = f],
             pipes |-> [s.pipes EXCEPT ![x] = OpenPipe], cwd |-> s.cwd]
    BY Zenon, <1>5, <2>3, <2>8
  <2>10. /\ t = [fds |-> t.fds, desc |-> t.desc, pipes |-> t.pipes, cwd |-> t.cwd] /\ t.cwd = s.cwd
         /\ t.fds = s.fds /\ t.desc = [s.desc EXCEPT ![d] = f]
    BY <2>9
  <2>11. t.desc[d] = f /\ \A n \in Descs : n # d => t.desc[n] = s.desc[n]
    BY <1>5, <2>7, <2>10
  <2>12. PICK e : e = Spare(t)
    OBVIOUS
  <2>13. e \in Descs /\ e # d /\ s.desc[e] = Unused
    <3>1. \E n \in Descs : t.desc[n] = Unused
      BY <2>5, <2>6, <2>11
    <3>2. e \in Descs /\ t.desc[e] = Unused
      BY <2>12, <3>1, SpareIs
    <3>. QED BY <2>3, <2>11, <3>2
  <2>14. d \notin Held(s) /\ e \notin Held(s)
    BY Zenon, <1>5, <2>7, <2>13
  <2>15. PICK u : u = [t EXCEPT !.desc[e] = NewFd("PIPEWRITE", 0, NULL, x), !.fds[p][i] = d, !.fds[p][j] = e]
    OBVIOUS
  <2>16. r = [ret |-> 0, file_desc |-> <<i, j>>, pipe |-> x, s |-> u]
    BY <1>1, <1>2, <1>3, <1>4, <1>7, <2>8, <2>12, <2>15 DEF sys_pipe
  <2>17. r.ret = 0 /\ r.file_desc = <<i, j>> /\ r.pipe = x /\ r.s = u
    BY <2>16
  <2>18. u = [fds |-> [[s.fds EXCEPT ![p][i] = d] EXCEPT ![p][j] = e], desc |-> [t.desc EXCEPT ![e] = g],
              pipes |-> t.pipes, cwd |-> s.cwd]
    BY Zenon, <2>4, <2>10, <2>15
  <2>19. /\ u = [fds |-> u.fds, desc |-> u.desc, pipes |-> u.pipes, cwd |-> u.cwd] /\ u.cwd = s.cwd
         /\ u.fds = [[s.fds EXCEPT ![p][i] = d] EXCEPT ![p][j] = e] /\ u.desc = [t.desc EXCEPT ![e] = g]
    BY <2>18
  <2>20. PICK tab \in [Slots -> Descs \cup {NULL}] : tab = [[s.fds[p] EXCEPT ![i] = d] EXCEPT ![j] = e]
    BY Zenon, <1>0, <1>5, <2>7, <2>13
  <2>21. u.fds = [s.fds EXCEPT ![p] = tab] /\ u.fds[p] = tab
    BY Zenon, <1>0, <1>5, <2>19, <2>20
  <2>22. tab[i] = d /\ tab[j] = e /\ \A n \in Slots : n # i /\ n # j => tab[n] = s.fds[p][n]
    BY <1>0, <1>5, <2>2, <2>20
  <2>23. /\ u.desc[d] = f /\ u.desc[e] = g /\ u.desc = [n \in Descs |-> u.desc[n]]
         /\ \A n \in Descs : n # d /\ n # e => u.desc[n] = s.desc[n]
    BY Zenon, <1>5, <2>7, <2>10, <2>13, <2>19
  <2>24. \A n \in Descs : u.desc[n] = Unused \/ IsFd(u.desc[n])
    BY <1>5, <2>3, <2>4, <2>23
  <2>25. \A n \in Held(s) : u.desc[n] = s.desc[n]
    BY <1>5, <2>14, <2>23
  <2>26. \A n \in Held(s) : Kin(s.desc[n], u.desc[n])
    BY Zenon, <1>5, <2>25 DEF Kin
  <2>27. \A n \in Slots : tab[n] # NULL =>
            /\ u.desc[tab[n]] # Unused
            /\ tab[n] \notin Held(s) \/ \E m \in Slots : s.fds[p][m] = tab[n]
    <3>1. ASSUME NEW n \in Slots, n # i, n # j, tab[n] # NULL
          PROVE u.desc[tab[n]] # Unused
      <4>1. tab[n] = s.fds[p][n] /\ s.fds[p][n] \in Held(s)
        BY <1>0, <1>5, <2>22, <3>1 DEF Held
      <4>. QED BY Zenon, <1>5, <2>25, <4>1
    <3>. QED BY <2>3, <2>4, <2>14, <2>22, <2>23, <3>1
  <2>28. ASSUME NEW n \in Descs, u.desc[n] # Unused, u.desc[n].fdType \in CountedTypes
         PROVE Tallied(s, u, p, n)
    <3>1. n # d /\ n # e
      BY <2>3, <2>4, <2>23, <2>28 DEF CountedTypes
    <3>2. u.desc[n] = s.desc[n]
      BY <2>23, <3>1
    <3>3. s.fds[p][j] # n
      <4>1. ASSUME s.fds[p][j] = n PROVE FALSE
        <5>1. n # NULL /\ j >= 3
          BY <2>2, NotNull
        <5>2. s.desc[n].fdType \in Ends
          BY <2>2, <4>1, <5>1
        <5>. QED BY <2>28, <3>2, <5>2 DEF Ends, CountedTypes
      <4>. QED BY <4>1
    <3>4. s.fds[p][i] # n
      BY <2>1, NotNull
    <3>5. SlotsOf(u, p, n) = SlotsOf(s, p, n)
      BY <2>21, <2>22, <3>1, <3>3, <3>4 DEF SlotsOf
    <3>. QED BY <2>28, <3>2, <3>5 DEF Tallied
  <2>29. Fits(s, u, p, tab)
    BY Zenon, <2>19, <2>20, <2>21, <2>23, <2>24, <2>25, <2>26, <2>27, <2>28 DEF Fits
  <2>30. CallOK(s, u, p, L)
    BY <2>29, EditOK
  <2>31. TwoEnds(s, r, p, i, j, d, e)
    BY <2>2, <2>3, <2>4, <2>7, <2>13, <2>14, <2>17, <2>21, <2>22, <2>23 DEF TwoEnds
  <2>. QED BY <2>1, <2>2, <2>7, <2>13, <2>17, <2>19, <2>30, <2>31 DEF PipesOK
<1>. QED BY <1>6, <1>7

-----------------------------------------------------------------------------
(* The collection of what nothing leads to, fork and exit. *)

(* The current directory of p changes.                                     *)
LEMMA GoOK ==
  ASSUME TreeBuilt, NEW s, NEW L, L \subseteq Procs, NEW p \in Procs, Sound(s, L),
         NEW n \in 0 .. Top, Entered(n), NEW t, t = [s EXCEPT !.cwd[p] = FilePath(n)]
  PROVE /\ CallOK(s, t, p, L) /\ t.fds = s.fds /\ t.desc = s.desc /\ t.cwd[p] = FilePath(n)
<1>1. KernelOK(s) /\ Counted(s, L) /\ Idle(s, L)
  BY DEF Sound
<1>2. /\ s = [fds |-> s.fds, desc |-> s.desc, pipes |-> s.pipes, cwd |-> s.cwd]
      /\ s.cwd = [q \in Procs |-> s.cwd[q]]
      /\ \A q \in Procs : \E m \in 0 .. Top : s.cwd[q] = FilePath(m) /\ Entered(m)
  BY <1>1 DEF KernelOK
<1>3. t = [fds |-> s.fds, desc |-> s.desc, pipes |-> s.pipes, cwd |-> [s.cwd EXCEPT ![p] = FilePath(n)]]
  BY <1>2
<1>4. /\ t = [fds |-> t.fds, desc |-> t.desc, pipes |-> t.pipes, cwd |-> t.cwd]
      /\ t.fds = s.fds /\ t.desc = s.desc /\ t.cwd = [s.cwd EXCEPT ![p] = FilePath(n)]
  BY Zenon, <1>3
<1>5. /\ t.cwd = [q \in Procs |-> t.cwd[q]] /\ t.cwd[p] = FilePath(n)
      /\ \A q \in Procs : q # p => t.cwd[q] = s.cwd[q]
  BY <1>2, <1>4
<1>6. \A q \in Procs : \E m \in 0 .. Top : t.cwd[q] = FilePath(m) /\ Entered(m)
  BY <1>2, <1>5
<1>7. KernelOK(t)
  BY <1>1, <1>4, <1>5, <1>6 DEF KernelOK
<1>8. Counted(t, L) /\ Idle(t, L)
  BY <1>1, <1>4 DEF Counted, Idle, Holders
<1>9. \A d \in Held(s) : Kin(s.desc[d], t.desc[d])
  <2>1. \A d \in Held(s) : s.desc[d] # Unused
    BY Zenon, <1>1, KernelIs
  <2>2. t.desc = s.desc
    BY Zenon, <1>4
  <2>. QED BY Zenon, <2>1, <2>2 DEF Kin
<1>. QED BY <1>4, <1>5, <1>7, <1>8, <1>9 DEF CallOK, Sound

(* What the whole step of p leaves.                                        *)
After(s, t, p, L) ==
  /\ Sound(t, L) /\ Tidy(t)
  /\ \A q \in Procs \ {p} : t.fds[q] = s.fds[q] /\ t.cwd[q] = s.cwd[q]
  /\ \A d \in Held(s) : d \in Held(t) => Kin(s.desc[d], t.desc[d])
  /\ \A d \in Held(s) : d \in Held(t) /\ (\A i \in Slots : s.fds[p][i] # d) => t.desc[d] = s.desc[d]
  /\ \A i \in Slots : t.fds[p][i] # NULL =>
       t.fds[p][i] \notin Held(s) \/ \E j \in Slots : s.fds[p][j] = t.fds[p][i]

(* What is reachable is what is held. *)
LEMMA HeldIs ==
  ASSUME NEW s, s.fds \in [Procs -> [Slots -> Descs \cup {NULL}]]
  PROVE Reachable(s) = Held(s)
<1>1. \A q \in Procs, i \in Slots : s.fds[q][i] \in Descs \/ s.fds[q][i] = NULL
  OBVIOUS
<1>. QED BY <1>1, NotNull DEF Reachable, HeldBy, Held

(* What is held is kept. *)
SettleDone(u, t) == t.fds = u.fds /\ t.cwd = u.cwd /\ \A d \in Held(u) : t.desc[d] = u.desc[d]

(* After the collection. *)
LEMMA SettleOK ==
  ASSUME NEW s, NEW L, L \subseteq Procs, NEW p \in Procs, NEW u, CallOK(s, u, p, L),
         NEW t, t = Settled(u)
  PROVE After(s, t, p, L) /\ SettleDone(u, t)
<1>1. Sound(u, L) /\ KernelOK(u) /\ Counted(u, L) /\ Idle(u, L)
  BY DEF CallOK, Sound
<1>2. /\ u = [fds |-> u.fds, desc |-> u.desc, pipes |-> u.pipes, cwd |-> u.cwd]
      /\ u.fds \in [Procs -> [Slots -> Descs \cup {NULL}]]
      /\ \A d \in Descs : u.desc[d] = Unused \/ IsFd(u.desc[d])
      /\ \A d \in Held(u) : d \in Descs /\ u.desc[d] # Unused /\ IsFd(u.desc[d])
  BY Zenon, <1>1, KernelIs
<1>3. Reachable(u) = Held(u)
  BY <1>2, HeldIs
<1>4. t = [u EXCEPT !.desc = [d \in Descs |-> IF d \in Held(u) THEN u.desc[d] ELSE Unused],
            !.pipes = [x \in Pipes |-> IF \E d \in Held(u) : u.desc[d].pipe_ptr = x
                                       THEN u.pipes[x] ELSE OpenPipe]]
  BY <1>2, <1>3 DEF Settled
<1>5. /\ t = [fds |-> t.fds, desc |-> t.desc, pipes |-> t.pipes, cwd |-> t.cwd]
      /\ t.fds = u.fds /\ t.cwd = u.cwd
      /\ t.desc = [d \in Descs |-> IF d \in Held(u) THEN u.desc[d] ELSE Unused]
  BY Zenon, <1>2, <1>4
<1>6. Held(t) = Held(u)
  BY <1>5 DEF Held
<1>7. /\ t.desc = [d \in Descs |-> t.desc[d]]
      /\ \A d \in Held(u) : t.desc[d] = u.desc[d]
      /\ \A d \in Descs : d \notin Held(u) => t.desc[d] = Unused
  BY <1>2, <1>5
<1>8. \A d \in Descs : t.desc[d] = Unused \/ IsFd(t.desc[d])
  BY Zenon, <1>2, <1>7
<1>9. \A q \in Procs, i \in Slots : t.fds[q][i] # NULL => t.desc[t.fds[q][i]] # Unused
  <2>1. ASSUME NEW q \in Procs, NEW i \in Slots, t.fds[q][i] # NULL
        PROVE t.desc[t.fds[q][i]] # Unused
    <3>1. t.fds[q][i] = u.fds[q][i] /\ t.fds[q][i] \in Held(u)
      BY <1>2, <1>5, <2>1 DEF Held
    <3>. QED BY Zenon, <1>2, <1>7, <3>1
  <2>. QED BY <2>1
<1>10. KernelOK(t)
  BY <1>1, <1>5, <1>7, <1>8, <1>9 DEF KernelOK
<1>11. Counted(t, L)
  <2>1. ASSUME NEW d \in Descs, t.desc[d] # Unused, t.desc[d].fdType \in CountedTypes
        PROVE t.desc[d].refCount = Cardinality(Holders(t, L, d))
    <3>1. t.desc[d] = u.desc[d]
      BY <1>7, <2>1
    <3>2. Holders(t, L, d) = Holders(u, L, d)
      BY <1>5 DEF Holders
    <3>. QED BY <1>1, <2>1, <3>1, <3>2 DEF Counted
  <2>. QED BY <2>1 DEF Counted
<1>12. Idle(t, L) /\ Tidy(t)
  BY <1>1, <1>5, <1>6, <1>7 DEF Idle, Tidy
<1>13. /\ \A q \in Procs \ {p} : t.fds[q] = s.fds[q] /\ t.cwd[q] = s.cwd[q]
       /\ \A i \in Slots : t.fds[p][i] # NULL =>
            t.fds[p][i] \notin Held(s) \/ \E j \in Slots : s.fds[p][j] = t.fds[p][i]
  BY <1>5 DEF CallOK
<1>14. \A d \in Held(s) : d \in Held(t) => Kin(s.desc[d], t.desc[d])
  BY <1>6, <1>7 DEF CallOK
<1>15. \A d \in Held(s) : d \in Held(t) /\ (\A i \in Slots : s.fds[p][i] # d) => t.desc[d] = s.desc[d]
  BY <1>6, <1>7 DEF CallOK
<1>16. After(s, t, p, L)
  BY <1>10, <1>11, <1>12, <1>13, <1>14, <1>15 DEF After, Sound
<1>. QED BY <1>5, <1>7, <1>16 DEF SettleDone

(* The counts of fork and exit.                                            *)
RecountDone(s, p, sign, desc) ==
  /\ desc = [d \in Descs |-> desc[d]]
  /\ \A d \in Descs : s.desc[d] = Unused => desc[d] = Unused
  /\ \A d \in Descs : s.desc[d] # Unused =>
       /\ IsFd(desc[d]) /\ Kin(s.desc[d], desc[d])
       /\ desc[d].refCount = Count(s.desc[d].refCount + sign * Cardinality(SlotsOf(s, p, d)))
       /\ SlotsOf(s, p, d) = {} => desc[d] = s.desc[d]

(* fork and exit change each count by the slots of p. *)
LEMMA RecountIs ==
  ASSUME NEW s, KernelOK(s), NEW p, NEW sign \in {-1, 1}, NEW desc, desc = Recount(s, p, sign)
  PROVE RecountDone(s, p, sign, desc)
<1>1. \A d \in Descs : s.desc[d] = Unused \/ IsFd(s.desc[d])
  BY Zenon, KernelIs
<1>2. /\ desc = [d \in Descs |-> desc[d]]
      /\ \A d \in Descs : desc[d] = IF s.desc[d] = Unused THEN Unused
           ELSE [s.desc[d] EXCEPT !.refCount = Count(s.desc[d].refCount + sign * Cardinality(SlotsOf(s, p, d)))]
  BY DEF Recount
<1>3. ASSUME NEW d \in Descs, s.desc[d] # Unused
      PROVE /\ IsFd(desc[d]) /\ Kin(s.desc[d], desc[d])
            /\ desc[d].refCount = Count(s.desc[d].refCount + sign * Cardinality(SlotsOf(s, p, d)))
            /\ SlotsOf(s, p, d) = {} => desc[d] = s.desc[d]
  <2>1. PICK f : f = s.desc[d] /\ IsFd(f)
    BY <1>1, <1>3
  <2>2. PICK c \in Nat : c = Cardinality(SlotsOf(s, p, d))
    BY SlotsAre
  <2>3. PICK o \in Nat : o = f.refCount /\ o < W64
    BY <2>1, Wide DEF IsFd
  <2>4. PICK n : n = Count(f.refCount + sign * c) /\ n \in 0 .. W64 - 1
    <3>1. o + sign * c \in Int
      OBVIOUS
    <3>2. (o + sign * c) % W64 \in 0 .. W64 - 1
      BY <3>1, Wide
    <3>. QED BY <2>3, <3>2 DEF Count
  <2>5. PICK g : g = [f EXCEPT !.refCount = n]
    BY Zenon
  <2>6. g = [fdType |-> f.fdType, offset |-> f.offset, perm |-> f.perm, refCount |-> n,
             file_ptr |-> f.file_ptr, pipe_ptr |-> f.pipe_ptr]
    BY <2>1, <2>5 DEF IsFd
  <2>7. /\ g.fdType = f.fdType /\ g.refCount = n /\ g.file_ptr = f.file_ptr
        /\ g.pipe_ptr = f.pipe_ptr /\ g.offset = f.offset /\ IsFd(g)
    BY <2>1, <2>4, <2>6 DEF IsFd
  <2>8. g # Unused
    <3>1. Unused.fdType = "none" /\ g.fdType # "none"
      BY <2>7 DEF Unused, IsFd
    <3>. QED BY <3>1
  <2>9. desc[d] = g
    BY <1>2, <1>3, <2>1, <2>2, <2>4, <2>5
  <2>10. ASSUME SlotsOf(s, p, d) = {} PROVE g = f
    <3>1. c = 0
      BY <2>2, <2>10, FS_EmptySet
    <3>2. o + sign * c = o /\ o % W64 = o
      BY <2>3, <3>1, Wide
    <3>3. n = f.refCount
      BY <2>3, <2>4, <3>2 DEF Count
    <3>. QED BY <2>1, <2>6, <3>3 DEF IsFd
  <2>. QED BY <2>1, <2>2, <2>4, <2>7, <2>8, <2>9, <2>10 DEF Kin
<1>. QED BY Zenon, <1>2, <1>3 DEF RecountDone

(* fork: the child c gets the table of p.                                  *)
Forked(s, t, p, c, L) ==
  /\ Sound(t, L \cup {c}) /\ Tidy(t)
  /\ \A q \in Procs \ {c} : t.fds[q] = s.fds[q] /\ t.cwd[q] = s.cwd[q]
  /\ t.fds[c] = s.fds[p] /\ t.cwd[c] = s.cwd[p]
  /\ \A d \in Held(s) : Kin(s.desc[d], t.desc[d])
  /\ \A d \in Held(s) : (\A i \in Slots : s.fds[p][i] # d) => t.desc[d] = s.desc[d]

(* What fork does. *)
LEMMA ForkOK ==
  ASSUME NEW s, NEW L, L \subseteq Procs, NEW p \in L, NEW c \in Procs \ L, Sound(s, L), Tidy(s),
         NEW t, t = ForkFiles(s, p, c)
  PROVE Forked(s, t, p, c, L)
<1>1. KernelOK(s) /\ Counted(s, L) /\ Idle(s, L) /\ p \in Procs /\ p # c
  BY DEF Sound
<1>2. /\ s = [fds |-> s.fds, desc |-> s.desc, pipes |-> s.pipes, cwd |-> s.cwd]
      /\ s.fds \in [Procs -> [Slots -> Descs \cup {NULL}]]
      /\ \A d \in Descs : s.desc[d] = Unused \/ IsFd(s.desc[d])
      /\ \A d \in Held(s) : d \in Descs /\ s.desc[d] # Unused /\ IsFd(s.desc[d])
      /\ \A q \in Procs, i \in Slots : s.fds[q][i] # NULL => s.desc[s.fds[q][i]] # Unused
      /\ s.cwd = [q \in Procs |-> s.cwd[q]]
      /\ \A q \in Procs : \E m \in 0 .. Top : s.cwd[q] = FilePath(m) /\ Entered(m)
  BY Zenon, <1>1, KernelIs DEF KernelOK
<1>3. t = [fds |-> [s.fds EXCEPT ![c] = s.fds[p]], desc |-> Recount(s, p, 1), pipes |-> s.pipes,
           cwd |-> [s.cwd EXCEPT ![c] = s.cwd[p]]]
  BY Zenon, <1>2 DEF ForkFiles
<1>4. /\ t = [fds |-> t.fds, desc |-> t.desc, pipes |-> t.pipes, cwd |-> t.cwd]
      /\ t.fds = [s.fds EXCEPT ![c] = s.fds[p]] /\ t.desc = Recount(s, p, 1)
      /\ t.cwd = [s.cwd EXCEPT ![c] = s.cwd[p]]
  BY <1>3
<1>5. /\ t.fds \in [Procs -> [Slots -> Descs \cup {NULL}]] /\ t.fds[c] = s.fds[p]
      /\ \A q \in Procs \ {c} : t.fds[q] = s.fds[q]
  BY <1>1, <1>2, <1>4
<1>6. /\ t.cwd = [q \in Procs |-> t.cwd[q]] /\ t.cwd[c] = s.cwd[p]
      /\ \A q \in Procs \ {c} : t.cwd[q] = s.cwd[q]
  BY <1>1, <1>2, <1>4
<1>7. PICK sign \in {-1, 1} : sign = 1
  OBVIOUS
<1>8. RecountDone(s, p, sign, t.desc)
  BY <1>1, <1>4, <1>7, RecountIs
<1>9. /\ t.desc = [d \in Descs |-> t.desc[d]]
      /\ \A d \in Descs : s.desc[d] = Unused => t.desc[d] = Unused
      /\ \A d \in Descs : s.desc[d] # Unused =>
           /\ IsFd(t.desc[d]) /\ Kin(s.desc[d], t.desc[d])
           /\ t.desc[d].refCount = Count(s.desc[d].refCount + sign * Cardinality(SlotsOf(s, p, d)))
           /\ SlotsOf(s, p, d) = {} => t.desc[d] = s.desc[d]
  BY <1>8 DEF RecountDone
<1>10. \A q \in Procs, i \in Slots : t.fds[q][i] # NULL => t.desc[t.fds[q][i]] # Unused
  <2>1. ASSUME NEW q \in Procs, NEW i \in Slots, t.fds[q][i] # NULL
        PROVE t.desc[t.fds[q][i]] # Unused
    <3>1. PICK x \in Procs : t.fds[q] = s.fds[x]
      BY <1>1, <1>5
    <3>2. t.fds[q][i] \in Descs /\ s.desc[t.fds[q][i]] # Unused
      BY <1>2, <2>1, <3>1
    <3>. QED BY <1>9, <3>2 DEF Kin
  <2>. QED BY <2>1
<1>11. \A q \in Procs : \E m \in 0 .. Top : t.cwd[q] = FilePath(m) /\ Entered(m)
  BY <1>1, <1>2, <1>6
<1>12. KernelOK(t)
  BY Zenon, <1>4, <1>5, <1>6, <1>9, <1>10, <1>11 DEF KernelOK
<1>13. Counted(t, L \cup {c})
  <2>1. ASSUME NEW d \in Descs, t.desc[d] # Unused, t.desc[d].fdType \in CountedTypes
        PROVE t.desc[d].refCount = Cardinality(Holders(t, L \cup {c}, d))
    <3>1. s.desc[d] # Unused /\ s.desc[d].fdType \in CountedTypes
      BY <1>9, <2>1 DEF Kin
    <3>2. PICK M : M = L \cup {c} /\ M \subseteq Procs /\ c \in M /\ M \ {c} = L
      <4>1. L \cup {c} \subseteq Procs /\ c \in L \cup {c}
        OBVIOUS
      <4>2. \A x : x \in (L \cup {c}) \ {c} <=> x \in L
        OBVIOUS
      <4>3. (L \cup {c}) \ {c} = L
        BY <4>2
      <4>. QED BY Zenon, <4>1, <4>3
    <3>3. Cardinality(Holders(t, M, d)) = Cardinality(Holders(t, L, d)) + Cardinality(SlotsOf(t, c, d))
      BY <3>2, HoldersSplit
    <3>4. Holders(t, L, d) = Holders(s, L, d)
      BY <1>5 DEF Holders
    <3>5. SlotsOf(t, c, d) = SlotsOf(s, p, d)
      BY <1>5 DEF SlotsOf
    <3>6. s.desc[d].refCount = Cardinality(Holders(s, L, d))
      BY <1>1, <3>1 DEF Counted
    <3>7. PICK a, b : a = Cardinality(Holders(s, L, d)) /\ b = Cardinality(SlotsOf(s, p, d))
      OBVIOUS
    <3>8. a \in Nat /\ b \in Nat
      BY <3>7, HoldersAre, SlotsAre
    <3>9. a + b < W64
      BY <3>2, <3>3, <3>4, <3>5, <3>7, HoldersAre
    <3>10. t.desc[d].refCount = Count(a + sign * b)
      BY <1>9, <3>1, <3>6, <3>7
    <3>11. a + sign * b = a + b /\ (a + b) % W64 = a + b
      BY <1>7, <3>8, <3>9, Wide
    <3>. QED BY <3>2, <3>3, <3>4, <3>5, <3>7, <3>10, <3>11 DEF Count
  <2>. QED BY <2>1 DEF Counted
<1>14. Idle(t, L \cup {c})
  BY <1>1, <1>5 DEF Idle
<1>15. Held(s) \subseteq Held(t)
  <2>1. ASSUME NEW d \in Descs, NEW q \in Procs, NEW i \in Slots, s.fds[q][i] = d
        PROVE d \in Held(t)
    <3>1. q # c
      BY <1>1, <2>1, NotNull DEF Idle
    <3>. QED BY <1>5, <2>1, <3>1 DEF Held
  <2>. QED BY <2>1 DEF Held
<1>16. Tidy(t)
  BY <1>9, <1>15 DEF Tidy
<1>17. \A d \in Held(s) : Kin(s.desc[d], t.desc[d])
  BY <1>2, <1>9
<1>18. \A d \in Held(s) : (\A i \in Slots : s.fds[p][i] # d) => t.desc[d] = s.desc[d]
  <2>1. ASSUME NEW d \in Held(s), \A i \in Slots : s.fds[p][i] # d PROVE SlotsOf(s, p, d) = {}
    BY <2>1 DEF SlotsOf
  <2>. QED BY <1>2, <1>9, <2>1
<1>. QED BY <1>5, <1>6, <1>12, <1>13, <1>14, <1>16, <1>17, <1>18 DEF Forked, Sound

(* exit and death: the table of p is given up. *)
LEMMA ExitOK ==
  ASSUME TreeBuilt, NEW s, NEW L, L \subseteq Procs, NEW p \in L, Sound(s, L),
         NEW t, t = ExitFiles(s, p)
  PROVE CallOK(s, t, p, L \ {p})
<1>1. KernelOK(s) /\ Counted(s, L) /\ Idle(s, L) /\ p \in Procs
  BY DEF Sound
<1>2. /\ s = [fds |-> s.fds, desc |-> s.desc, pipes |-> s.pipes, cwd |-> s.cwd]
      /\ s.fds \in [Procs -> [Slots -> Descs \cup {NULL}]]
      /\ \A d \in Held(s) : d \in Descs /\ s.desc[d] # Unused /\ IsFd(s.desc[d])
      /\ \A q \in Procs, i \in Slots : s.fds[q][i] # NULL => s.desc[s.fds[q][i]] # Unused
      /\ s.cwd = [q \in Procs |-> s.cwd[q]]
      /\ \A q \in Procs : \E m \in 0 .. Top : s.cwd[q] = FilePath(m) /\ Entered(m)
  BY Zenon, <1>1, KernelIs DEF KernelOK
<1>3. t = [fds |-> [s.fds EXCEPT ![p] = [i \in Slots |-> NULL]], desc |-> Recount(s, p, -1),
           pipes |-> s.pipes, cwd |-> [s.cwd EXCEPT ![p] = <<>>]]
  BY Zenon, <1>2 DEF ExitFiles
<1>4. /\ t = [fds |-> t.fds, desc |-> t.desc, pipes |-> t.pipes, cwd |-> t.cwd]
      /\ t.fds = [s.fds EXCEPT ![p] = [i \in Slots |-> NULL]] /\ t.desc = Recount(s, p, -1)
      /\ t.cwd = [s.cwd EXCEPT ![p] = <<>>]
  BY <1>3
<1>5. /\ t.fds \in [Procs -> [Slots -> Descs \cup {NULL}]] /\ \A i \in Slots : t.fds[p][i] = NULL
      /\ \A q \in Procs \ {p} : t.fds[q] = s.fds[q]
  BY <1>1, <1>2, <1>4
<1>6. /\ t.cwd = [q \in Procs |-> t.cwd[q]] /\ t.cwd[p] = <<>>
      /\ \A q \in Procs \ {p} : t.cwd[q] = s.cwd[q]
  BY Zenon, <1>1, <1>2, <1>4
<1>7. PICK sign \in {-1, 1} : sign = -1
  OBVIOUS
<1>8. RecountDone(s, p, sign, t.desc)
  BY <1>1, <1>4, <1>7, RecountIs
<1>9. /\ t.desc = [d \in Descs |-> t.desc[d]]
      /\ \A d \in Descs : s.desc[d] = Unused => t.desc[d] = Unused
      /\ \A d \in Descs : s.desc[d] # Unused =>
           /\ IsFd(t.desc[d]) /\ Kin(s.desc[d], t.desc[d])
           /\ t.desc[d].refCount = Count(s.desc[d].refCount + sign * Cardinality(SlotsOf(s, p, d)))
           /\ SlotsOf(s, p, d) = {} => t.desc[d] = s.desc[d]
  BY <1>8 DEF RecountDone
<1>10. \A q \in Procs, i \in Slots : t.fds[q][i] # NULL => t.desc[t.fds[q][i]] # Unused
  <2>1. ASSUME NEW q \in Procs, NEW i \in Slots, t.fds[q][i] # NULL
        PROVE t.desc[t.fds[q][i]] # Unused
    <3>1. t.fds[q] = s.fds[q]
      BY <1>5, <2>1
    <3>2. t.fds[q][i] \in Descs /\ s.desc[t.fds[q][i]] # Unused
      BY <1>2, <2>1, <3>1
    <3>. QED BY <1>9, <3>2 DEF Kin
  <2>. QED BY <2>1
<1>11. \A q \in Procs : \E m \in 0 .. Top : t.cwd[q] = FilePath(m) /\ Entered(m)
  <2>1. Root \in 0 .. Top /\ FilePath(Root) = <<>> /\ Entered(Root)
    BY TreeIs, EnteredRoot DEF FilePath, Root
  <2>. QED BY <1>1, <1>2, <1>6, <2>1
<1>12. KernelOK(t)
  BY Zenon, <1>4, <1>5, <1>6, <1>9, <1>10, <1>11 DEF KernelOK
<1>13. Counted(t, L \ {p})
  <2>1. ASSUME NEW d \in Descs, t.desc[d] # Unused, t.desc[d].fdType \in CountedTypes
        PROVE t.desc[d].refCount = Cardinality(Holders(t, L \ {p}, d))
    <3>1. s.desc[d] # Unused /\ s.desc[d].fdType \in CountedTypes
      BY <1>9, <2>1 DEF Kin
    <3>2. Cardinality(Holders(s, L, d)) = Cardinality(Holders(s, L \ {p}, d)) + Cardinality(SlotsOf(s, p, d))
      BY HoldersSplit
    <3>3. Holders(t, L \ {p}, d) = Holders(s, L \ {p}, d)
      BY <1>5 DEF Holders
    <3>4. s.desc[d].refCount = Cardinality(Holders(s, L, d))
      BY <1>1, <3>1 DEF Counted
    <3>5. PICK a, b : a = Cardinality(Holders(s, L \ {p}, d)) /\ b = Cardinality(SlotsOf(s, p, d))
      OBVIOUS
    <3>6. L \ {p} \subseteq Procs
      OBVIOUS
    <3>7. a \in Nat /\ b \in Nat /\ a < W64
      BY <3>5, <3>6, HoldersAre, SlotsAre
    <3>8. t.desc[d].refCount = Count(a + b + sign * b)
      BY <1>9, <3>1, <3>2, <3>4, <3>5
    <3>9. a + b + sign * b = a /\ a % W64 = a
      BY <1>7, <3>7, Wide
    <3>. QED BY <3>3, <3>5, <3>8, <3>9 DEF Count
  <2>. QED BY Zenon, <2>1 DEF Counted
<1>14. Idle(t, L \ {p})
  BY <1>1, <1>5 DEF Idle
<1>15. \A d \in Held(s) : Kin(s.desc[d], t.desc[d])
  BY <1>2, <1>9
<1>16. \A d \in Held(s) : (\A i \in Slots : s.fds[p][i] # d) => t.desc[d] = s.desc[d]
  <2>1. ASSUME NEW d \in Held(s), \A i \in Slots : s.fds[p][i] # d PROVE SlotsOf(s, p, d) = {}
    BY <2>1 DEF SlotsOf
  <2>. QED BY <1>2, <1>9, <2>1
<1>. QED BY <1>5, <1>6, <1>12, <1>13, <1>14, <1>15, <1>16 DEF CallOK, Sound

-----------------------------------------------------------------------------
(* What a process keeps while others step. *)

(* What stays of the files of a process that does not move.                *)
Same(s, t, q) ==
  /\ t.fds[q] = s.fds[q] /\ t.cwd[q] = s.cwd[q]
  /\ \A i \in Slots : s.fds[q][i] # NULL => Kin(s.desc[s.fds[q][i]], t.desc[s.fds[q][i]])
  /\ \A i \in Slots : s.fds[q][i] # NULL /\ Mine(s, q, i) =>
       Mine(t, q, i) /\ t.desc[s.fds[q][i]] = s.desc[s.fds[q][i]]

(* A step of p leaves q what it has. *)
LEMMA AfterSame ==
  ASSUME NEW s, KernelOK(s), NEW L, NEW t, NEW p \in Procs, After(s, t, p, L), NEW q \in Procs, q # p
  PROVE Same(s, t, q)
<1>1. /\ \A x \in Procs \ {p} : t.fds[x] = s.fds[x] /\ t.cwd[x] = s.cwd[x]
      /\ \A d \in Held(s) : d \in Held(t) => Kin(s.desc[d], t.desc[d])
      /\ \A d \in Held(s) : d \in Held(t) /\ (\A i \in Slots : s.fds[p][i] # d) => t.desc[d] = s.desc[d]
      /\ \A i \in Slots : t.fds[p][i] # NULL =>
           t.fds[p][i] \notin Held(s) \/ \E j \in Slots : s.fds[p][j] = t.fds[p][i]
  BY DEF After
<1>2. t.fds[q] = s.fds[q] /\ t.cwd[q] = s.cwd[q]
  BY <1>1
<1>3. s.fds \in [Procs -> [Slots -> Descs \cup {NULL}]]
  BY Zenon, KernelIs
<1>4. ASSUME NEW i \in Slots, s.fds[q][i] # NULL
      PROVE s.fds[q][i] \in Descs /\ s.fds[q][i] \in Held(s) /\ s.fds[q][i] \in Held(t)
  BY <1>2, <1>3, <1>4 DEF Held
<1>5. ASSUME NEW i \in Slots, s.fds[q][i] # NULL, Mine(s, q, i)
      PROVE Mine(t, q, i) /\ t.desc[s.fds[q][i]] = s.desc[s.fds[q][i]]
  <2>1. PICK d \in Descs : d = s.fds[q][i] /\ d \in Held(s) /\ d \in Held(t) /\ d # NULL
    BY <1>4, <1>5
  <2>2. \A x \in Procs, j \in Slots : s.fds[x][j] = d => x = q /\ j = i
    BY <1>5, <2>1 DEF Mine
  <2>3. \A j \in Slots : s.fds[p][j] # d
    BY <2>2
  <2>4. \A j \in Slots : t.fds[p][j] # d
    BY <1>1, <2>1, <2>3
  <2>5. \A x \in Procs, j \in Slots : t.fds[x][j] = d => x = q /\ j = i
    BY <1>1, <2>2, <2>4
  <2>6. Mine(t, q, i)
    BY <1>2, <2>1, <2>5 DEF Mine
  <2>. QED BY <1>1, <2>1, <2>3, <2>6
<1>. QED BY <1>1, <1>2, <1>4, <1>5 DEF Same

(* A fork of p leaves q what it has. *)
LEMMA ForkedSame ==
  ASSUME NEW s, KernelOK(s), NEW L, NEW t, NEW p \in Procs, NEW c \in Procs, Forked(s, t, p, c, L),
         NEW q \in Procs, q # p, q # c
  PROVE Same(s, t, q)
<1>1. /\ \A x \in Procs \ {c} : t.fds[x] = s.fds[x] /\ t.cwd[x] = s.cwd[x]
      /\ t.fds[c] = s.fds[p]
      /\ \A d \in Held(s) : Kin(s.desc[d], t.desc[d])
      /\ \A d \in Held(s) : (\A i \in Slots : s.fds[p][i] # d) => t.desc[d] = s.desc[d]
  BY DEF Forked
<1>2. t.fds[q] = s.fds[q] /\ t.cwd[q] = s.cwd[q]
  BY <1>1
<1>3. s.fds \in [Procs -> [Slots -> Descs \cup {NULL}]]
  BY Zenon, KernelIs
<1>4. ASSUME NEW i \in Slots, s.fds[q][i] # NULL
      PROVE s.fds[q][i] \in Descs /\ s.fds[q][i] \in Held(s)
  BY <1>3, <1>4 DEF Held
<1>5. ASSUME NEW i \in Slots, s.fds[q][i] # NULL, Mine(s, q, i)
      PROVE Mine(t, q, i) /\ t.desc[s.fds[q][i]] = s.desc[s.fds[q][i]]
  <2>1. PICK d \in Descs : d = s.fds[q][i] /\ d \in Held(s) /\ d # NULL
    BY <1>4, <1>5
  <2>2. \A x \in Procs, j \in Slots : s.fds[x][j] = d => x = q /\ j = i
    BY <1>5, <2>1 DEF Mine
  <2>3. \A j \in Slots : s.fds[p][j] # d
    BY <2>2
  <2>4. \A j \in Slots : t.fds[c][j] # d
    BY <1>1, <2>3
  <2>5. \A x \in Procs, j \in Slots : t.fds[x][j] = d => x = q /\ j = i
    BY <1>1, <2>2, <2>4
  <2>6. Mine(t, q, i)
    BY <1>2, <2>1, <2>5 DEF Mine
  <2>. QED BY <1>1, <2>1, <2>3, <2>6
<1>. QED BY <1>1, <1>2, <1>4, <1>5 DEF Same

(* The slots that are no standard ones. *)
LEMMA SlotNumbers == 3 .. NumSlots - 1 \subseteq Slots
  BY FilesAssumption DEF Slots

(* The wires of p in s are there for q in t. *)
LEMMA PlumbedKept ==
  ASSUME NEW s, NEW p, NEW t, NEW q,
         \A i \in Slots : s.fds[p][i] # NULL =>
           t.fds[q][i] = s.fds[p][i] /\ Kin(s.desc[s.fds[p][i]], t.desc[s.fds[p][i]]),
         NEW l, NEW m, Plumbed(l, m, s, p)
  PROVE Plumbed(l, m, t, q)
<1>1. \A i, type, x : On(s, p, i, type, x) => On(t, q, i, type, x)
  BY Zenon DEF On, Kin
<1>2. \A i : Std(s, p, i) => Std(t, q, i)
  BY Zenon DEF Std, Kin
<1>3. Input(m, s, p) => Input(m, t, q)
  BY <1>1, <1>2 DEF Input
<1>4. Output(m, s, p) => Output(m, t, q)
  BY <1>1, <1>2 DEF Output
<1>5. OnPipes(m, s, p) => OnPipes(m, t, q)
  BY <1>1 DEF OnPipes
<1>. QED BY <1>2, <1>3, <1>4, <1>5 DEF Plumbed

(* A process that does not move, but may be woken. *)
LEMMA PartsKept ==
  ASSUME NEW s, NEW t, NEW q \in Procs, Same(s, t, q), NEW l, NEW m, Parts(l, m, s, q),
         NEW l2, l2 \in {l, Woken(l)}
  PROVE Parts(l2, m, t, q)
<1>1. /\ t.fds[q] = s.fds[q] /\ t.cwd[q] = s.cwd[q]
      /\ \A i \in Slots : s.fds[q][i] # NULL => Kin(s.desc[s.fds[q][i]], t.desc[s.fds[q][i]])
      /\ \A i \in Slots : s.fds[q][i] # NULL /\ Mine(s, q, i) =>
           Mine(t, q, i) /\ t.desc[s.fds[q][i]] = s.desc[s.fds[q][i]]
  BY DEF Same
<1>2. l2 = l \/ (l = "waiting" /\ l2 = "waited") \/ (l = "waiting path" /\ l2 = "leave")
  BY Zenon DEF Woken
<1>3. ShellFds(l2, t, q)
  <2>1. l2 \in ShellAt => l \in ShellAt
    BY Zenon, <1>2 DEF ShellAt
  <2>2. ShellFds(l, s, q)
    BY DEF Parts
  <2>. QED BY <1>1, <2>1, <2>2 DEF ShellFds, Kin
<1>4. ShellMem(l2, m)
  <2>1. ShellMem(l, m)
    BY DEF Parts
  <2>2. CASE l2 = l
    BY <2>1, <2>2
  <2>3. CASE l = "waiting" /\ l2 = "waited"
    BY <2>1, <2>3 DEF ShellMem, ShellAt, AfterPipes
  <2>4. CASE l = "waiting path" /\ l2 = "leave"
    BY Zenon, <2>1, <2>4 DEF ShellMem, ShellAt, AfterPipes
  <2>. QED BY Zenon, <1>2, <2>2, <2>3, <2>4
<1>5. Listing(l2, m, t, q)
  <2>1. CASE l2 \notin {"readdir", "listed"}
    BY Zenon, <2>1 DEF Listing
  <2>2. CASE l2 \in {"readdir", "listed"}
    <3>1. l2 = l
      BY Zenon, <1>2, <2>2
    <3>2. Listing(l, m, s, q)
      BY DEF Parts
    <3>3. PICK d : d = s.fds[q][m.fd] /\ d # NULL /\ Mine(s, q, m.fd) /\ m.fd \in 3 .. NumSlots - 1
      BY Zenon, <2>2, <3>1, <3>2 DEF Listing
    <3>4. m.fd \in Slots
      BY <3>3, SlotNumbers
    <3>5. t.fds[q][m.fd] = d /\ t.desc[d] = s.desc[d] /\ Mine(t, q, m.fd)
      BY <1>1, <3>3, <3>4
    <3>6. Asked(m, t, q) = Asked(m, s, q)
      BY <1>1 DEF Asked
    <3>. QED BY Zenon, <2>2, <3>1, <3>2, <3>3, <3>5, <3>6 DEF Listing
  <2>. QED BY <2>1, <2>2
<1>6. Plumbed(l2, m, t, q)
  <2>1. Plumbed(l, m, t, q)
    <3>1. Plumbed(l, m, s, q)
      BY DEF Parts
    <3>. QED BY Zenon, <1>1, <3>1, PlumbedKept
  <2>2. CASE l2 = l
    BY <2>1, <2>2
  <2>3. CASE l = "waiting" /\ l2 = "waited"
    BY <2>1, <2>3 DEF Plumbed, Before, WithPipes, Later
  <2>4. CASE l = "waiting path" /\ l2 = "leave"
    BY Zenon, <2>4 DEF Plumbed, Before, WithPipes, Later
  <2>. QED BY Zenon, <1>2, <2>2, <2>3, <2>4
<1>. QED BY <1>3, <1>4, <1>5, <1>6 DEF Parts

(* What settling leaves of the process that made the call. *)
LEMMA PartsSettled ==
  ASSUME NEW u, KernelOK(u), NEW t, SettleDone(u, t), NEW p \in Procs, NEW l, NEW m, Parts(l, m, u, p)
  PROVE Parts(l, m, t, p)
<1>1. t.fds = u.fds /\ t.cwd = u.cwd /\ \A d \in Held(u) : t.desc[d] = u.desc[d]
  BY DEF SettleDone
<1>2. u.fds \in [Procs -> [Slots -> Descs \cup {NULL}]] /\ \A d \in Held(u) : u.desc[d] # Unused
  BY Zenon, KernelIs
<1>3. \A i \in Slots : u.fds[p][i] # NULL => u.fds[p][i] \in Held(u)
  BY <1>2 DEF Held
<1>4. \A i \in Slots : u.fds[p][i] # NULL => Kin(u.desc[u.fds[p][i]], t.desc[u.fds[p][i]])
  BY <1>1, <1>2, <1>3 DEF Kin
<1>5. \A i \in Slots : u.fds[p][i] # NULL /\ Mine(u, p, i) =>
        Mine(t, p, i) /\ t.desc[u.fds[p][i]] = u.desc[u.fds[p][i]]
  BY <1>1, <1>3 DEF Mine
<1>6. Same(u, t, p)
  BY <1>1, <1>4, <1>5 DEF Same
<1>. QED BY <1>6, PartsKept

-----------------------------------------------------------------------------
(* The whole state after a step. *)

(* A step of p that is one call. *)
LEMMA StepWorld ==
  ASSUME NEW s, NEW L, NEW pcs, NEW ms, World(s, L, pcs, ms), NEW p \in L,
         NEW u, CallOK(s, u, p, L), NEW l, l # "none", NEW m, Parts(l, m, u, p)
  PROVE World(Settled(u), L, [pcs EXCEPT ![p] = l], [ms EXCEPT ![p] = m])
<1>1. /\ L \subseteq Procs /\ Sound(s, L) /\ Tidy(s)
      /\ pcs = [q \in Procs |-> pcs[q]] /\ ms = [q \in Procs |-> ms[q]]
      /\ \A q \in Procs : q \in L <=> pcs[q] # "none"
      /\ \A q \in L : Parts(pcs[q], ms[q], s, q)
  BY DEF World
<1>2. PICK t, pcs2, ms2 : t = Settled(u) /\ pcs2 = [pcs EXCEPT ![p] = l] /\ ms2 = [ms EXCEPT ![p] = m]
  BY Zenon
<1>3. p \in Procs /\ KernelOK(s) /\ KernelOK(u)
  BY <1>1 DEF Sound, CallOK
<1>4. After(s, t, p, L) /\ SettleDone(u, t)
  BY <1>1, <1>2, <1>3, SettleOK
<1>5. Sound(t, L) /\ Tidy(t)
  BY <1>4 DEF After
<1>6. /\ pcs2 = [q \in Procs |-> pcs2[q]] /\ ms2 = [q \in Procs |-> ms2[q]]
      /\ pcs2[p] = l /\ ms2[p] = m /\ \A q \in Procs : q # p => pcs2[q] = pcs[q] /\ ms2[q] = ms[q]
  BY Zenon, <1>1, <1>2, <1>3
<1>7. \A q \in Procs : q \in L <=> pcs2[q] # "none"
  BY <1>1, <1>6
<1>8. Parts(l, m, t, p)
  BY <1>3, <1>4, PartsSettled
<1>9. ASSUME NEW q \in L, q # p PROVE Parts(pcs2[q], ms2[q], t, q)
  <2>1. q \in Procs /\ Parts(pcs[q], ms[q], s, q)
    BY <1>1
  <2>2. Same(s, t, q)
    BY <1>3, <1>4, <1>9, <2>1, AfterSame
  <2>3. PICK a, b : a = pcs[q] /\ b = ms[q] /\ Parts(a, b, s, q)
    BY <2>1
  <2>4. Parts(a, b, t, q)
    BY <2>1, <2>2, <2>3, PartsKept
  <2>. QED BY <1>6, <1>9, <2>1, <2>3, <2>4
<1>10. World(t, L, pcs2, ms2)
  BY <1>1, <1>5, <1>6, <1>7, <1>8, <1>9 DEF World
<1>. QED BY <1>2, <1>10

(* fork: the child c has what its parent had.                              *)
LEMMA ForkWorld ==
  ASSUME NEW s, NEW L, NEW pcs, NEW ms, World(s, L, pcs, ms), NEW p \in L, NEW c \in Procs \ L,
         NEW l, NEW l2, l \notin {"none", "readdir", "listed"}, l2 \notin {"none", "readdir", "listed"},
         Parts(l, ms[p], s, p), Parts(l2, ms[p], s, p)
  PROVE World(ForkFiles(s, p, c), L \cup {c}, [pcs EXCEPT ![p] = l, ![c] = l2], [ms EXCEPT ![c] = ms[p]])
<1>1. /\ L \subseteq Procs /\ Sound(s, L) /\ Tidy(s)
      /\ pcs = [q \in Procs |-> pcs[q]] /\ ms = [q \in Procs |-> ms[q]]
      /\ \A q \in Procs : q \in L <=> pcs[q] # "none"
      /\ \A q \in L : Parts(pcs[q], ms[q], s, q)
  BY DEF World
<1>2. PICK t, pcs2, ms2 : /\ t = ForkFiles(s, p, c)
                          /\ pcs2 = [pcs EXCEPT ![p] = l, ![c] = l2] /\ ms2 = [ms EXCEPT ![c] = ms[p]]
  BY Zenon
<1>3. p \in Procs /\ c # p /\ KernelOK(s)
  BY <1>1 DEF Sound
<1>4. Forked(s, t, p, c, L)
  BY <1>1, <1>2, ForkOK
<1>5. /\ Sound(t, L \cup {c}) /\ Tidy(t) /\ t.fds[p] = s.fds[p] /\ t.fds[c] = s.fds[p]
      /\ \A d \in Held(s) : Kin(s.desc[d], t.desc[d])
  BY <1>3, <1>4 DEF Forked
<1>6. /\ pcs2 = [q \in Procs |-> pcs2[q]] /\ ms2 = [q \in Procs |-> ms2[q]]
      /\ pcs2[p] = l /\ ms2[p] = ms[p] /\ pcs2[c] = l2 /\ ms2[c] = ms[p]
      /\ \A q \in Procs : q # p /\ q # c => pcs2[q] = pcs[q] /\ ms2[q] = ms[q]
  BY Zenon, <1>1, <1>2, <1>3
<1>7. \A q \in Procs : q \in L \cup {c} <=> pcs2[q] # "none"
  BY <1>1, <1>6
<1>8. \A i \in Slots : s.fds[p][i] # NULL => Kin(s.desc[s.fds[p][i]], t.desc[s.fds[p][i]])
  <2>1. s.fds \in [Procs -> [Slots -> Descs \cup {NULL}]]
    BY Zenon, <1>3, KernelIs
  <2>2. \A i \in Slots : s.fds[p][i] # NULL => s.fds[p][i] \in Held(s)
    BY <1>3, <2>1 DEF Held
  <2>. QED BY <1>5, <2>2
<1>9. ASSUME NEW x, x \notin {"readdir", "listed"}, NEW q, t.fds[q] = s.fds[p], NEW m, Parts(x, m, s, p)
      PROVE Parts(x, m, t, q)
  <2>1. ShellFds(x, s, p) /\ ShellMem(x, m)
    BY <1>9 DEF Parts
  <2>2. ShellFds(x, t, q)
    BY <1>8, <1>9, <2>1 DEF ShellFds, Kin
  <2>3. Listing(x, m, t, q)
    BY Zenon, <1>9 DEF Listing
  <2>4. Plumbed(x, m, t, q)
    <3>1. Plumbed(x, m, s, p)
      BY <1>9 DEF Parts
    <3>2. \A i \in Slots : s.fds[p][i] # NULL =>
            t.fds[q][i] = s.fds[p][i] /\ Kin(s.desc[s.fds[p][i]], t.desc[s.fds[p][i]])
      BY <1>8, <1>9
    <3>. QED BY Zenon, <3>1, <3>2, PlumbedKept
  <2>. QED BY <2>1, <2>2, <2>3, <2>4 DEF Parts
<1>10. ASSUME NEW q \in L, q # p PROVE Parts(pcs2[q], ms2[q], t, q)
  <2>1. q \in Procs /\ q # c /\ Parts(pcs[q], ms[q], s, q)
    BY <1>1
  <2>2. Same(s, t, q)
    BY <1>3, <1>4, <1>10, <2>1, ForkedSame
  <2>3. PICK a, b : a = pcs[q] /\ b = ms[q] /\ Parts(a, b, s, q)
    BY <2>1
  <2>4. Parts(a, b, t, q)
    BY <2>1, <2>2, <2>3, PartsKept
  <2>. QED BY <1>6, <1>10, <2>1, <2>3, <2>4
<1>11. Parts(l, ms[p], t, p) /\ Parts(l2, ms[p], t, c)
  <2>1. PICK m : m = ms[p] /\ Parts(l, m, s, p) /\ Parts(l2, m, s, p)
    OBVIOUS
  <2>. QED BY <1>5, <1>9, <2>1
<1>12. \A q \in L \cup {c} : Parts(pcs2[q], ms2[q], t, q)
  BY <1>6, <1>10, <1>11
<1>13. World(t, L \cup {c}, pcs2, ms2)
  BY Zenon, <1>1, <1>5, <1>6, <1>7, <1>12 DEF World
<1>. QED BY <1>2, <1>13

(* p is at l; its parent up may be woken. *)
WokenAt(pcs, p, l, up) ==
  [x \in Procs |-> CASE x = p -> l [] x = up -> Woken(pcs[x]) [] OTHER -> pcs[x]]

(* The places after that. *)
LEMMA WokenAtIs ==
  ASSUME NEW pcs, NEW p \in Procs, NEW l, NEW up, up # p, NEW z, z = WokenAt(pcs, p, l, up)
  PROVE /\ z = [q \in Procs |-> z[q]] /\ z[p] = l
        /\ \A q \in Procs : q # p => z[q] = pcs[q] \/ z[q] = Woken(pcs[q])
<1>1. \A q \in Procs : z[q] = CASE q = p -> l [] q = up -> Woken(pcs[q]) [] OTHER -> pcs[q]
  BY DEF WokenAt
<1>2. z = [q \in Procs |-> z[q]]
  BY DEF WokenAt
<1>3. z[p] = l
  <2>1. z[p] = IF p = p THEN l ELSE IF p = up THEN Woken(pcs[p]) ELSE pcs[p]
    BY DEF WokenAt
  <2>. QED BY <2>1
<1>4. ASSUME NEW q \in Procs, q # p PROVE z[q] = pcs[q] \/ z[q] = Woken(pcs[q])
  <2>1. z[q] = IF q = up THEN Woken(pcs[q]) ELSE pcs[q]
    BY <1>1, <1>4
  <2>. QED BY <2>1
<1>. QED BY <1>2, <1>3, <1>4

(* exit and death. *)
LEMMA ExitWorld ==
  ASSUME TreeBuilt, NEW s, NEW L, NEW pcs, NEW ms, World(s, L, pcs, ms), NEW p \in L, NEW up, up # p,
         NEW v, NEW l, l \in {"none"}
  PROVE World(Settled(ExitFiles(s, p)), L \ {p}, WokenAt(pcs, p, l, up), [ms EXCEPT ![p] = v])
<1>1. /\ L \subseteq Procs /\ Sound(s, L) /\ Tidy(s)
      /\ pcs = [q \in Procs |-> pcs[q]] /\ ms = [q \in Procs |-> ms[q]]
      /\ \A q \in Procs : q \in L <=> pcs[q] # "none"
      /\ \A q \in L : Parts(pcs[q], ms[q], s, q)
  BY DEF World
<1>2. PICK u, t, pcs2, ms2 :
        /\ u = ExitFiles(s, p) /\ t = Settled(u)
        /\ pcs2 = WokenAt(pcs, p, l, up) /\ ms2 = [ms EXCEPT ![p] = v]
  BY Zenon
<1>3. p \in Procs /\ KernelOK(s) /\ L \ {p} \subseteq Procs
  BY <1>1 DEF Sound
<1>4. CallOK(s, u, p, L \ {p})
  BY <1>1, <1>2, ExitOK
<1>5. After(s, t, p, L \ {p})
  BY <1>2, <1>3, <1>4, SettleOK
<1>6. Sound(t, L \ {p}) /\ Tidy(t)
  BY <1>5 DEF After
<1>7. /\ pcs2 = [q \in Procs |-> pcs2[q]] /\ ms2 = [q \in Procs |-> ms2[q]] /\ pcs2[p] = l
      /\ \A q \in Procs : q # p => pcs2[q] \in {pcs[q], Woken(pcs[q])} /\ ms2[q] = ms[q]
  <2>1. ms2 = [q \in Procs |-> ms2[q]] /\ \A q \in Procs : q # p => ms2[q] = ms[q]
    BY <1>1, <1>2, <1>3
  <2>2. /\ pcs2 = [q \in Procs |-> pcs2[q]] /\ pcs2[p] = l
        /\ \A q \in Procs : q # p => pcs2[q] = pcs[q] \/ pcs2[q] = Woken(pcs[q])
    <3>1. p \in Procs /\ up # p /\ pcs2 = WokenAt(pcs, p, l, up)
      BY <1>2, <1>3
    <3>. QED BY ONLY <3>1, WokenAtIs
  <2>. QED BY <2>1, <2>2
<1>8. \A x : Woken(x) = "none" <=> x = "none"
  BY Zenon DEF Woken
<1>9. \A q \in Procs : q \in L \ {p} <=> pcs2[q] # "none"
  <2>1. ASSUME NEW q \in Procs, q # p PROVE pcs2[q] = "none" <=> pcs[q] = "none"
    <3>1. pcs2[q] = pcs[q] \/ pcs2[q] = Woken(pcs[q])
      BY <1>7, <2>1
    <3>. QED BY <1>8, <3>1
  <2>. QED BY <1>1, <1>7, <2>1
<1>10. ASSUME NEW q \in L \ {p} PROVE Parts(pcs2[q], ms2[q], t, q)
  <2>1. q \in Procs /\ q # p /\ Parts(pcs[q], ms[q], s, q)
    BY <1>1
  <2>2. Same(s, t, q)
    BY <1>3, <1>5, <2>1, AfterSame
  <2>3. PICK a, b, z : a = pcs[q] /\ b = ms[q] /\ z = pcs2[q] /\ Parts(a, b, s, q) /\ z \in {a, Woken(a)}
    BY <1>7, <2>1
  <2>4. Parts(z, b, t, q)
    BY <2>1, <2>2, <2>3, PartsKept
  <2>. QED BY <1>7, <2>1, <2>3, <2>4
<1>11. World(t, L \ {p}, pcs2, ms2)
  BY <1>3, <1>6, <1>7, <1>9, <1>10 DEF World
<1>. QED BY <1>2, <1>11

(* execve, which may wake the parent. *)
LEMMA ExecWorld ==
  ASSUME NEW s, NEW L, NEW pcs, NEW ms, World(s, L, pcs, ms), NEW p \in L, NEW up, up # p,
         NEW l, l # "none", NEW m, Parts(l, m, s, p)
  PROVE World(s, L, WokenAt(pcs, p, l, up), [ms EXCEPT ![p] = m])
<1>1. /\ L \subseteq Procs /\ Sound(s, L) /\ Tidy(s)
      /\ pcs = [q \in Procs |-> pcs[q]] /\ ms = [q \in Procs |-> ms[q]]
      /\ \A q \in Procs : q \in L <=> pcs[q] # "none"
      /\ \A q \in L : Parts(pcs[q], ms[q], s, q)
  BY DEF World
<1>2. PICK pcs2, ms2 : pcs2 = WokenAt(pcs, p, l, up) /\ ms2 = [ms EXCEPT ![p] = m]
  BY Zenon
<1>3. p \in Procs
  BY <1>1
<1>4. /\ pcs2 = [q \in Procs |-> pcs2[q]] /\ ms2 = [q \in Procs |-> ms2[q]] /\ pcs2[p] = l /\ ms2[p] = m
      /\ \A q \in Procs : q # p => pcs2[q] \in {pcs[q], Woken(pcs[q])} /\ ms2[q] = ms[q]
  <2>1. ms2 = [q \in Procs |-> ms2[q]] /\ ms2[p] = m /\ \A q \in Procs : q # p => ms2[q] = ms[q]
    BY <1>1, <1>2, <1>3
  <2>2. /\ pcs2 = [q \in Procs |-> pcs2[q]] /\ pcs2[p] = l
        /\ \A q \in Procs : q # p => pcs2[q] = pcs[q] \/ pcs2[q] = Woken(pcs[q])
    BY <1>2, <1>3, WokenAtIs
  <2>. QED BY <2>1, <2>2
<1>5. \A x : Woken(x) = "none" <=> x = "none"
  BY Zenon DEF Woken
<1>6. \A q \in Procs : q \in L <=> pcs2[q] # "none"
  <2>1. ASSUME NEW q \in Procs, q # p PROVE pcs2[q] = "none" <=> pcs[q] = "none"
    <3>1. pcs2[q] = pcs[q] \/ pcs2[q] = Woken(pcs[q])
      BY <1>4, <2>1
    <3>. QED BY <1>5, <3>1
  <2>. QED BY <1>1, <1>4, <2>1
<1>7. ASSUME NEW q \in L, q # p PROVE Parts(pcs2[q], ms2[q], s, q)
  <2>1. q \in Procs /\ Parts(pcs[q], ms[q], s, q)
    BY <1>1
  <2>2. Same(s, s, q)
    <3>1. /\ s.fds \in [Procs -> [Slots -> Descs \cup {NULL}]]
          /\ \A x \in Procs, i \in Slots : s.fds[x][i] # NULL => s.desc[s.fds[x][i]] # Unused
      BY Zenon, <1>1, KernelIs DEF Sound
    <3>. QED BY <2>1, <3>1 DEF Same, Kin
  <2>3. PICK a, b, z : a = pcs[q] /\ b = ms[q] /\ z = pcs2[q] /\ Parts(a, b, s, q) /\ z \in {a, Woken(a)}
    BY <1>4, <1>7, <2>1
  <2>4. Parts(z, b, s, q)
    BY <2>1, <2>2, <2>3, PartsKept
  <2>. QED BY <1>4, <1>7, <2>1, <2>3, <2>4
<1>8. World(s, L, pcs2, ms2)
  BY <1>1, <1>4, <1>6, <1>7 DEF World
<1>. QED BY <1>2, <1>8

(* The archive and the tree stay: so does all that is said of them.        *)
LEMMA TarfsStays ==
  ASSUME UNCHANGED tarfs
  PROVE /\ Top' = Top
        /\ \A n : FilePath(n)' = FilePath(n) /\ FileType(n)' = FileType(n) /\ Is755(n)' = Is755(n)
        /\ \A n : Entered(n)' <=> Entered(n)
        /\ TreeBuilt => TreeBuilt'
<1>1. archive' = archive /\ tree' = tree
  BY DEF tarfs
<1>2. Top' = Top
  BY <1>1 DEF Top
<1>3. \A n : FilePath(n)' = FilePath(n) /\ FileType(n)' = FileType(n) /\ Is755(n)' = Is755(n)
  BY <1>1 DEF FilePath, FileType, Is755
<1>4. \A n : Entered(n)' <=> Entered(n)
  BY <1>2, <1>3 DEF Entered, Dirs755
<1>5. TreeBuilt => TreeBuilt'
  BY <1>1 DEF TreeBuilt
<1>. QED BY <1>2, <1>3, <1>4, <1>5

(* The state is the one that was computed. *)
LEMMA WorldStays ==
  ASSUME UNCHANGED tarfs, NEW s, NEW L, NEW pcs, NEW ms, World(s, L, pcs, ms),
         k' = s, live' = L, pc' = pcs, mem' = ms
  PROVE World(k, live, pc, mem)'
<1>1. /\ Top' = Top
      /\ \A n : FilePath(n)' = FilePath(n) /\ FileType(n)' = FileType(n)
      /\ \A n : Entered(n)' <=> Entered(n)
      /\ archive' = archive /\ tree' = tree
  BY TarfsStays DEF tarfs
<1>2. /\ L \subseteq Procs /\ Sound(s, L) /\ Tidy(s)
      /\ pcs = [p \in Procs |-> pcs[p]] /\ ms = [p \in Procs |-> ms[p]]
      /\ \A p \in Procs : p \in L <=> pcs[p] # "none"
      /\ \A p \in L : Parts(pcs[p], ms[p], s, p)
  BY DEF World
<1>3. \A f : IsFd(f)' <=> IsFd(f)
  BY <1>1 DEF IsFd
<1>4. KernelOK(s)' <=> KernelOK(s)
  BY <1>1, <1>3 DEF KernelOK
<1>5. Sound(s, L)' <=> Sound(s, L)
  BY <1>4 DEF Sound, Counted, Holders, Idle
<1>6. Tidy(s)' <=> Tidy(s)
  BY DEF Tidy, Held
<1>7. ASSUME NEW l, NEW m, NEW p PROVE Parts(l, m, s, p) => Parts(l, m, s, p)'
  <2>1. ShellFds(l, s, p) => ShellFds(l, s, p)'
    BY DEF ShellFds
  <2>2. ShellMem(l, m) => ShellMem(l, m)'
    BY Zenon DEF ShellMem, IsMem, PipesCount
  <2>3. Listing(l, m, s, p) => Listing(l, m, s, p)'
    BY Zenon, <1>1 DEF Listing, Asked, Mine, Full
  <2>4. Plumbed(l, m, s, p) => Plumbed(l, m, s, p)'
    BY Zenon DEF Plumbed, Input, Output, OnPipes, On, Std
  <2>. QED BY <2>1, <2>2, <2>3, <2>4 DEF Parts
<1>8. World(s, L, pcs, ms)'
  BY <1>2, <1>5, <1>6, <1>7 DEF World
<1>. QED BY <1>8

(* A step that is one call of p. *)
LEMMA StepKeeps ==
  ASSUME IInv, NEW p \in live, NEW r, NEW l, NEW m, l # "none",
         CallOK(k, r.s, p, live), Parts(l, m, r.s, p), Step(p, r, l, m)
  PROVE IInv'
<1>1. PICK s, L, pcs, ms, u : s = k /\ L = live /\ pcs = pc /\ ms = mem /\ u = r.s
  OBVIOUS
<1>2. /\ TreeBuilt /\ Parents(parentPCB) /\ World(s, L, pcs, ms)
  BY <1>1 DEF IInv
<1>3. /\ k' = Settled(u) /\ pc' = [pcs EXCEPT ![p] = l] /\ mem' = [ms EXCEPT ![p] = m]
      /\ UNCHANGED tarfs /\ live' = L /\ parentPCB' = parentPCB
  BY <1>1 DEF Step, Goto, SameProcesses, tarfs
<1>4. CallOK(s, u, p, L) /\ Parts(l, m, u, p) /\ p \in L
  BY <1>1
<1>5. World(Settled(u), L, [pcs EXCEPT ![p] = l], [ms EXCEPT ![p] = m])
  BY <1>2, <1>4, StepWorld
<1>6. PICK t, pcs2, ms2 : /\ t = Settled(u) /\ pcs2 = [pcs EXCEPT ![p] = l] /\ ms2 = [ms EXCEPT ![p] = m]
                          /\ World(t, L, pcs2, ms2)
  BY <1>5
<1>7. World(k, live, pc, mem)'
  BY Zenon, <1>3, <1>6, WorldStays
<1>. QED BY <1>2, <1>3, <1>7, TarfsStays DEF IInv, Parents

(* A step of p that makes no call. *)
LEMMA GoKeeps ==
  ASSUME IInv, NEW p \in live, NEW l, NEW m, l # "none", Parts(l, m, k, p), Go(p, l, m)
  PROVE IInv'
<1>1. PICK r : r = Result(0, k)
  OBVIOUS
<1>2. r.s = k
  BY <1>1 DEF Result
<1>3. Step(p, r, l, m)
  BY <1>1 DEF Go
<1>4. CallOK(k, k, p, live)
  BY NoCallOK DEF IInv, World
<1>. QED BY <1>2, <1>3, <1>4, StepKeeps

(* A step that forks. *)
LEMMA ForkKeeps ==
  ASSUME IInv, NEW p \in live, NEW l, NEW l2, l \notin {"none", "readdir", "listed"},
         l2 \notin {"none", "readdir", "listed"},
         Parts(l, mem[p], k, p), Parts(l2, mem[p], k, p), Fork(p, l, l2)
  PROVE IInv'
<1>1. PICK s, L, pcs, ms, c : s = k /\ L = live /\ pcs = pc /\ ms = mem /\ c = Min(FreePcbs)
  OBVIOUS
<1>2. /\ TreeBuilt /\ Parents(parentPCB) /\ World(s, L, pcs, ms)
  BY <1>1 DEF IInv
<1>3. c \in Procs \ L
  <2>1. FreePcbs # {} /\ FreePcbs \subseteq Nat
    BY FilesAssumption DEF Fork, FreePcbs
  <2>2. PICK x \in FreePcbs : \A y \in FreePcbs : x <= y
    BY Zenon, <2>1, LeastNatural
  <2>3. c \in FreePcbs
    BY <1>1, <2>2 DEF Min
  <2>. QED BY <1>1, <1>2, <2>3 DEF FreePcbs, World
<1>4. /\ k' = ForkFiles(s, p, c) /\ live' = L \cup {c} /\ pc' = [pcs EXCEPT ![p] = l, ![c] = l2]
      /\ mem' = [ms EXCEPT ![c] = ms[p]] /\ parentPCB' = [parentPCB EXCEPT ![c] = p]
      /\ UNCHANGED tarfs
  BY <1>1 DEF Fork
<1>5. Parts(l, ms[p], s, p) /\ Parts(l2, ms[p], s, p) /\ p \in L
  BY <1>1
<1>6. World(ForkFiles(s, p, c), L \cup {c}, [pcs EXCEPT ![p] = l, ![c] = l2], [ms EXCEPT ![c] = ms[p]])
  BY Zenon, <1>2, <1>3, <1>5, ForkWorld
<1>7. PICK t, L2, pcs2, ms2 :
        /\ t = ForkFiles(s, p, c) /\ L2 = L \cup {c} /\ pcs2 = [pcs EXCEPT ![p] = l, ![c] = l2]
        /\ ms2 = [ms EXCEPT ![c] = ms[p]] /\ World(t, L2, pcs2, ms2)
  BY <1>6
<1>8. World(k, live, pc, mem)'
  BY Zenon, <1>4, <1>7, WorldStays
<1>9. Parents(parentPCB)'
  <2>1. p \in Procs /\ p # c /\ parentPCB \in [Procs -> Procs \cup {NULL}]
    BY <1>2, <1>3, <1>5 DEF World, Parents
  <2>. QED BY <1>2, <1>3, <1>4, <2>1 DEF Parents
<1>. QED BY <1>2, <1>4, <1>8, <1>9, TarfsStays DEF IInv

(* exit and death. *)
LEMMA LeaveKeeps ==
  ASSUME IInv, NEW p \in live, Leave(p)
  PROVE IInv'
<1>1. PICK s, L, pcs, ms, up : s = k /\ L = live /\ pcs = pc /\ ms = mem /\ up = parentPCB[p]
  OBVIOUS
<1>2. /\ TreeBuilt /\ Parents(parentPCB) /\ World(s, L, pcs, ms) /\ p \in L
  BY <1>1 DEF IInv
<1>3. PICK l, v : l \in {"none"} /\ l = "none" /\ v = NULL
  OBVIOUS
<1>4. /\ k' = Settled(ExitFiles(s, p)) /\ live' = L \ {p} /\ pc' = WokenAt(pcs, p, l, up)
      /\ mem' = [ms EXCEPT ![p] = v] /\ UNCHANGED tarfs
      /\ parentPCB' = [x \in Procs |-> IF p \in {x, parentPCB[x]} THEN NULL ELSE parentPCB[x]]
  BY <1>1, <1>3 DEF Leave, WokenAt
<1>5. p \in Procs /\ up # p
  BY <1>1, <1>2 DEF World, Parents
<1>6. World(Settled(ExitFiles(s, p)), L \ {p}, WokenAt(pcs, p, l, up), [ms EXCEPT ![p] = v])
  BY Zenon, <1>2, <1>3, <1>5, ExitWorld
<1>7. PICK t, L2, pcs2, ms2 :
        /\ t = Settled(ExitFiles(s, p)) /\ L2 = L \ {p} /\ pcs2 = WokenAt(pcs, p, l, up)
        /\ ms2 = [ms EXCEPT ![p] = v] /\ World(t, L2, pcs2, ms2)
  BY <1>6
<1>8. World(k, live, pc, mem)'
  BY Zenon, <1>4, <1>7, WorldStays
<1>9. Parents(parentPCB)'
  <2>1. \A x \in Procs : x # NULL
    BY FilesAssumption DEF NULL
  <2>. QED BY <1>2, <1>4, <2>1 DEF Parents
<1>. QED BY <1>2, <1>4, <1>8, <1>9, TarfsStays DEF IInv

-----------------------------------------------------------------------------
(* The shell. *)

(* What is known of a living process. *)
LEMMA HereIs ==
  ASSUME IInv, NEW p \in live
  PROVE /\ TreeBuilt /\ Sound(k, live) /\ KernelOK(k) /\ Tidy(k) /\ live \subseteq Procs /\ p \in Procs
        /\ Parts(pc[p], mem[p], k, p)
  BY DEF IInv, World, Sound

(* A place where nothing is remembered. *)
LEMMA AnyPlace ==
  ASSUME NEW m, IsMem(m), NEW s, NEW p, NEW l,
         l \notin Places \ {"leave"}, l \notin {"ls", "cat"}
  PROVE Parts(l, m, s, p)
<1>1. l \notin ShellAt /\ l \notin {"readdir", "listed", "cat read", "parse", "pipe", "cd"} \cup AfterPipes
  BY Zenon DEF Places, ShellAt, AfterPipes
<1>2. l \notin AfterPipes \ {"closing"} /\ l # "closing" /\ l \notin {"ls", "readdir", "listed", "cat", "cat read"}
  BY Zenon, <1>1 DEF AfterPipes
<1>3. Plumbed(l, m, s, p)
  <2>1. l \notin Before \cup WithPipes \cup Later \cup {"stdout"}
    BY Zenon DEF Places, ShellAt, Before, WithPipes, Later
  <2>. QED BY <2>1 DEF Plumbed
<1>. QED BY Zenon, <1>1, <1>2, <1>3 DEF Parts, ShellFds, ShellMem, Listing

(* What a call keeps of the wires of its caller. *)
LEMMA PlumbedCall ==
  ASSUME NEW s, KernelOK(s), NEW u, NEW L, NEW p \in Procs, CallOK(s, u, p, L),
         \A i \in Slots : s.fds[p][i] = NULL \/ u.fds[p][i] = s.fds[p][i],
         NEW l, NEW m, Plumbed(l, m, s, p)
  PROVE Plumbed(l, m, u, p)
<1>1. s.fds \in [Procs -> [Slots -> Descs \cup {NULL}]]
  BY Zenon, KernelIs
<1>2. \A i \in Slots : s.fds[p][i] # NULL => s.fds[p][i] \in Held(s)
  BY <1>1 DEF Held
<1>3. \A d \in Held(s) : Kin(s.desc[d], u.desc[d])
  BY DEF CallOK
<1>4. \A i \in Slots : s.fds[p][i] # NULL =>
        u.fds[p][i] = s.fds[p][i] /\ Kin(s.desc[s.fds[p][i]], u.desc[s.fds[p][i]])
  BY <1>2, <1>3
<1>. QED BY <1>4, PlumbedKept

(* One wire. *)
LEMMA WireKept ==
  ASSUME NEW s, KernelOK(s), NEW u, NEW L, NEW p \in Procs, CallOK(s, u, p, L),
         NEW i, NEW j, u.fds[p][j] = s.fds[p][i]
  PROVE /\ j \in Slots /\ Std(s, p, i) => Std(u, p, j)
        /\ \A type, x : j \in Slots /\ On(s, p, i, type, x) => On(u, p, j, type, x)
<1>1. s.fds \in [Procs -> [Slots -> Descs \cup {NULL}]]
  BY Zenon, KernelIs
<1>2. i \in Slots /\ s.fds[p][i] # NULL => s.fds[p][i] \in Held(s)
  BY <1>1 DEF Held
<1>3. \A d \in Held(s) : Kin(s.desc[d], u.desc[d])
  BY DEF CallOK
<1>4. i \in Slots /\ s.fds[p][i] # NULL => Kin(s.desc[s.fds[p][i]], u.desc[s.fds[p][i]])
  BY <1>2, <1>3
<1>. QED BY <1>4 DEF Std, On, Kin

(* The standard descriptors of the shell itself. *)
Standard(s, p) == ShortLines => Std(s, p, 0) /\ Std(s, p, 1)

(* Before a line is connected. *)
LEMMA StandardIs ==
  ASSUME NEW l, l \in Before, NEW m, NEW s, NEW p, Plumbed(l, m, s, p)
  PROVE Standard(s, p)
BY DEF Plumbed, Standard

(* The shell between two lines. *)
LEMMA AtPrompt ==
  ASSUME NEW m, IsMem(m), m.index = 0, m.pipesfd = <<>>, m.pipes = <<>>, NEW s, NEW p, NEW l,
         ShellFds("prompt", s, p), Standard(s, p),
         \/ l = "prompt"
         \/ l = "cd" /\ m.line \in Lines /\ m.line.kind = "cd"
         \/ l = "parse" /\ m.line \in Lines /\ m.line.kind = "run"
  PROVE Parts(l, m, s, p)
<1>1. l \in ShellAt /\ "prompt" \in ShellAt
  BY Zenon DEF ShellAt
<1>2. ShellFds(l, s, p)
  BY <1>1 DEF ShellFds
<1>3. /\ m.pipesfd \in Seq(3 .. NumSlots - 1) /\ Len(m.pipesfd) = 0 /\ Len(m.pipes) = 0
      /\ m.pipes = [i \in 1 .. Len(m.pipes) |-> m.pipes[i]]
  BY EmptySeq
<1>4. l = "parse" => PipesCount(m) \in Nat
  <2>1. ASSUME l = "parse" PROVE m.line.cmds # <<>> /\ m.line.cmds \in Seq([name : PathType, args : Seq(PathType)])
    BY Zenon, <2>1, ShellAssumption
  <2>. QED BY <2>1, EmptySeq, LenProperties DEF PipesCount
<1>5. l = "parse" => m.index = 0 /\ Len(m.pipes) <= PipesCount(m)
  BY <1>3, <1>4
<1>6. ShellMem(l, m)
  <2>0. Len(m.pipes) \in Nat /\ Len(m.pipesfd) = 2 * Len(m.pipes)
    BY <1>3
  <2>1. /\ l \notin AfterPipes
        /\ l \notin {"closing", "ls", "readdir", "listed", "cat", "cat read", "pipe"}
    BY Zenon DEF AfterPipes
  <2>2. l \in {"parse", "pipe"} \cup AfterPipes => l = "parse"
    BY Zenon, <2>1
  <2>. QED BY Zenon, <1>1, <1>3, <1>5, <2>0, <2>1, <2>2 DEF ShellMem
<1>7. Listing(l, m, s, p)
  BY Zenon DEF Listing
<1>8. Plumbed(l, m, s, p)
  <2>1. Len(m.pipes) # 1
    BY <1>3
  <2>2. l \notin Later /\ l # "stdout"
    BY Zenon DEF Later
  <2>. QED BY <2>1, <2>2 DEF Plumbed, OnPipes, Standard
<1>. QED BY <1>2, <1>6, <1>7, <1>8 DEF Parts

(* What a line gives. *)
LEMMA LineIs ==
  ASSUME NEW m, m.line \in Lines, m.line.kind = "run"
  PROVE /\ PipesCount(m) \in Nat /\ Len(m.line.cmds) = PipesCount(m) + 1
        /\ \A i \in 0 .. PipesCount(m) : m.line.cmds[i + 1].name \in PathType
                                         /\ m.line.cmds[i + 1].args \in Seq(PathType)
<1> DEFINE C == [name : PathType, args : Seq(PathType)]
<1>1. m.line.cmds # <<>> /\ m.line.cmds \in Seq(C)
  BY Zenon, ShellAssumption
<1>2. \A c \in C : c.name \in PathType /\ c.args \in Seq(PathType)
  OBVIOUS
<1> HIDE DEF C
<1>3. Len(m.line.cmds) \in Nat /\ Len(m.line.cmds) # 0
  BY <1>1, EmptySeq, LenProperties
<1>4. PICK n \in Nat : n = PipesCount(m) /\ Len(m.line.cmds) = n + 1
  <2>1. \A x \in Nat : x # 0 => x - 1 \in Nat /\ (x - 1) + 1 = x
    OBVIOUS
  <2>2. Len(m.line.cmds) - 1 \in Nat /\ (Len(m.line.cmds) - 1) + 1 = Len(m.line.cmds)
    BY <1>3, <2>1
  <2>3. PipesCount(m) \in Nat /\ PipesCount(m) + 1 = Len(m.line.cmds)
    BY <2>2 DEF PipesCount
  <2>. QED BY <2>3
<1>5. \A i \in 0 .. n : m.line.cmds[i + 1] \in C
  <2>1. \A i \in 0 .. n : i + 1 \in 1 .. Len(m.line.cmds)
    BY <1>4
  <2>. QED BY <1>1, <2>1, ElementOfSeq
<1>. QED BY <1>2, <1>4, <1>5

(* The slots of a shell after a call.                                      *)
LEMMA FdsKept ==
  ASSUME NEW s, KernelOK(s), NEW u, NEW L, NEW p \in Procs, CallOK(s, u, p, L),
         NEW l, NEW l2, l \in ShellAt, ShellFds(l, s, p),
         \A i \in Slots : \/ u.fds[p][i] = NULL \/ u.fds[p][i] = s.fds[p][i]
                          \/ \E j \in Slots : j >= 3 /\ u.fds[p][i] = s.fds[p][j]
  PROVE ShellFds(l2, u, p)
<1>1. s.fds \in [Procs -> [Slots -> Descs \cup {NULL}]]
  BY Zenon, KernelIs
<1>2. \A d \in Held(s) : u.desc[d].fdType = s.desc[d].fdType
  BY DEF CallOK, Kin
<1>3. \A i \in Slots : s.fds[p][i] # NULL => s.fds[p][i] \in Held(s)
  BY <1>1 DEF Held
<1>4. \A i \in Slots : s.fds[p][i] # NULL =>
        s.desc[s.fds[p][i]].fdType \in IF i <= 2 THEN {"STDFILETYPE"} \cup Ends ELSE Ends
  BY DEF ShellFds
<1>5. ASSUME NEW i \in Slots, u.fds[p][i] # NULL
      PROVE u.desc[u.fds[p][i]].fdType \in IF i <= 2 THEN {"STDFILETYPE"} \cup Ends ELSE Ends
  <2>1. CASE u.fds[p][i] = s.fds[p][i]
    BY <1>2, <1>3, <1>4, <1>5, <2>1
  <2>2. CASE \E j \in Slots : j >= 3 /\ u.fds[p][i] = s.fds[p][j]
    <3>1. PICK j \in Slots : j >= 3 /\ u.fds[p][i] = s.fds[p][j]
      BY <2>2
    <3>2. ~(j <= 2)
      BY <3>1, FilesAssumption DEF Slots
    <3>. QED BY <1>2, <1>3, <1>4, <1>5, <3>1, <3>2
  <2>. QED BY <1>5, <2>1, <2>2
<1>. QED BY <1>5 DEF ShellFds

(* The pipes of a line. *)
LEMMA PipeSlot ==
  ASSUME NEW l, l \in ShellAt, NEW m, ShellMem(l, m), NEW i, i \in 1 .. Len(m.pipesfd)
  PROVE m.pipesfd[i] \in 3 .. NumSlots - 1 /\ m.pipesfd[i] \in Slots /\ m.pipesfd[i] >= 3
<1>1. m.pipesfd \in Seq(3 .. NumSlots - 1)
  BY Zenon DEF ShellMem
<1>2. m.pipesfd[i] \in 3 .. NumSlots - 1
  BY Zenon, <1>1, ElementOfSeq
<1>. QED BY <1>2, SlotNumbers, FilesAssumption

(* The shell: a line is read and taken apart.                              *)
LEMMA ReadLineKeeps ==
  ASSUME IInv, NEW p \in live, ReadLine(p)
  PROVE IInv'
<1>1. Parts(pc[p], mem[p], k, p) /\ pc[p] = "prompt"
  BY HereIs DEF ReadLine
<1>2. PICK line \in Lines :
        Go(p, IF line.kind = "cd" THEN "cd" ELSE "parse",
           [Fresh(line) EXCEPT !.bg = line.kind = "run" /\ line.bg])
  BY Zenon DEF ReadLine
<1>3. PICK b : b = (line.kind = "run" /\ line.bg)
  OBVIOUS
<1>4. PICK l, m : l = (IF line.kind = "cd" THEN "cd" ELSE "parse") /\ m = [Fresh(line) EXCEPT !.bg = b]
  BY Zenon
<1>5. Go(p, l, m)
  BY <1>2, <1>3, <1>4
<1>6. /\ IsMem(m) /\ m.line = line /\ m.index = 0 /\ m.pipesfd = <<>> /\ m.pipes = <<>>
  BY <1>4 DEF Fresh, IsMem
<1>7. ShellFds("prompt", k, p) /\ Standard(k, p)
  <2>1. PICK l0, m0, s : l0 = "prompt" /\ m0 = mem[p] /\ s = k /\ Parts(l0, m0, s, p)
    BY <1>1
  <2>2. Standard(s, p)
    BY <2>1, StandardIs DEF Parts, Before
  <2>. QED BY <2>1, <2>2 DEF Parts
<1>8. line.kind = "cd" \/ line.kind = "run"
  BY ShellAssumption
<1>9. Parts(l, m, k, p)
  <2>1. PICK s : s = k
    OBVIOUS
  <2>2. \/ l = "cd" /\ m.line \in Lines /\ m.line.kind = "cd"
        \/ l = "parse" /\ m.line \in Lines /\ m.line.kind = "run"
    BY <1>4, <1>6, <1>8
  <2>. QED BY <1>6, <1>7, <2>1, <2>2, AtPrompt
<1>10. l # "none"
  BY <1>4
<1>. QED BY <1>5, <1>9, <1>10, GoKeeps

(* Words of a line. *)
LEMMA ParseKeeps ==
  ASSUME IInv, NEW p \in live, Parse(p)
  PROVE IInv'
<1>1. Parts(pc[p], mem[p], k, p) /\ pc[p] = "parse"
  BY HereIs DEF Parse
<1>2. PICK l, m : m = mem[p] /\ l = IF PipesCount(m) = 0 THEN "fork" ELSE "pipe"
  OBVIOUS
<1>3. Go(p, l, m)
  BY <1>2 DEF Parse
<1>4. ShellMem("parse", m) /\ ShellFds("parse", k, p)
  BY <1>1, <1>2 DEF Parts
<1>5. /\ IsMem(m) /\ m.pipesfd \in Seq(3 .. NumSlots - 1) /\ Len(m.pipes) \in Nat
      /\ m.pipes = [i \in 1 .. Len(m.pipes) |-> m.pipes[i]] /\ Len(m.pipesfd) = 2 * Len(m.pipes)
      /\ m.line \in Lines /\ m.line.kind = "run" /\ m.index = 0 /\ Len(m.pipes) <= PipesCount(m)
  BY <1>4 DEF ShellMem, ShellAt
<1>6. PipesCount(m) \in Nat
  BY <1>5, LineIs
<1>7. PipesCount(m) = 0 => Len(m.pipes) = PipesCount(m)
  BY <1>5, <1>6
<1>8. l \in ShellAt /\ "parse" \in ShellAt /\ l \in {"fork", "pipe"} /\ (l = "fork" => PipesCount(m) = 0)
  BY <1>2 DEF ShellAt
<1>9. ShellMem(l, m)
  <2>1. l \in AfterPipes => Len(m.pipes) = PipesCount(m)
    BY Zenon, <1>7, <1>8 DEF AfterPipes
  <2>2. m.index \in 0 .. PipesCount(m)
    BY <1>5, <1>6
  <2>3. l \notin {"cd", "closing", "ls", "readdir", "listed", "cat", "cat read"}
    BY Zenon, <1>8
  <2>. QED BY Zenon, <1>5, <1>8, <2>1, <2>2, <2>3 DEF ShellMem
<1>10. ShellFds(l, k, p) /\ Listing(l, m, k, p)
  BY Zenon, <1>4, <1>8 DEF ShellFds, Listing
<1>11. Plumbed(l, m, k, p)
  <2>1. Plumbed("parse", m, k, p)
    BY <1>1, <1>2 DEF Parts
  <2>2. l \in Before /\ l \in WithPipes /\ l \notin {"stdout"} \cup Later
    BY Zenon, <1>8 DEF Before, WithPipes, Later
  <2>3. "parse" \in Before /\ "parse" \in WithPipes
    BY DEF Before, WithPipes
  <2>. QED BY <2>1, <2>2, <2>3 DEF Plumbed
<1>. QED BY <1>3, <1>8, <1>9, <1>10, <1>11, GoKeeps DEF Parts

(* cd. *)
LEMMA ChdirKeeps ==
  ASSUME IInv, NEW p \in live, ChangeDirectory(p)
  PROVE IInv'
<1>1. /\ TreeBuilt /\ Sound(k, live) /\ KernelOK(k) /\ live \subseteq Procs /\ p \in Procs
      /\ Parts(pc[p], mem[p], k, p) /\ pc[p] = "cd"
  BY HereIs DEF ChangeDirectory
<1>2. PICK s, L, path : s = k /\ L = live /\ path = mem[p].line.path
  OBVIOUS
<1>3. path \in PathType
  BY <1>1, <1>2, ShellAssumption DEF Parts, ShellMem
<1>4. PICK r : r = sys_chdir(s, p, path)
  OBVIOUS
<1>5. PICK n \in 0 .. Top : s.cwd[p] = FilePath(n) /\ Entered(n)
  BY <1>1, <1>2 DEF KernelOK
<1>6. HasCwd(s)
  BY Zenon, <1>1, <1>2, KernelIs
<1>7. PICK e : e = Resolve(FilePath(n), path) /\ ChdirGoes(s, p, e, r)
  BY <1>1, <1>3, <1>4, <1>5, <1>6, ChdirIs
<1>8. CallOK(s, r.s, p, L) /\ r.s.fds = s.fds /\ r.s.desc = s.desc
  <2>1. CASE e = NULL
    <3>1. r = Fail(s)
      BY <1>7, <2>1 DEF ChdirGoes
    <3>2. r.s = s
      BY <3>1 DEF Fail, Result
    <3>. QED BY <1>1, <1>2, <3>2, NoCallOK
  <2>2. CASE e # NULL
    <3>1. e \in 0 .. Top /\ Entered(e) /\ r = Result(0, [s EXCEPT !.cwd[p] = FilePath(e)])
      BY <1>7, <2>2 DEF ChdirGoes
    <3>2. PICK t : t = r.s /\ t = [s EXCEPT !.cwd[p] = FilePath(e)]
      BY <3>1 DEF Result
    <3>3. PICK x \in 0 .. Top : x = e /\ Entered(x)
      BY <3>1
    <3>4. CallOK(s, t, p, L) /\ t.fds = s.fds /\ t.desc = s.desc
      BY <1>1, <1>2, <3>2, <3>3, GoOK
    <3>. QED BY <3>2, <3>4
  <2>. QED BY <2>1, <2>2
<1>9. PICK v, m : v = r.ret /\ m = [Fresh(NULL) EXCEPT !.ret = v]
  BY Zenon
<1>10. Step(p, r, "prompt", m)
  BY <1>2, <1>4, <1>9 DEF ChangeDirectory
<1>11. ShellFds("prompt", r.s, p)
  <2>1. ShellFds("cd", s, p)
    BY <1>1, <1>2 DEF Parts
  <2>. QED BY <1>8, <2>1 DEF ShellFds, ShellAt
<1>12. /\ IsMem(m) /\ m.index = 0 /\ m.pipesfd = <<>> /\ m.pipes = <<>>
  BY Zenon, <1>9 DEF Fresh, IsMem
<1>13. PICK l : l = "prompt" /\ l # "none"
  OBVIOUS
<1>14. PICK u : u = r.s /\ ShellFds("prompt", u, p)
  BY <1>11
<1>15. Standard(u, p)
  <2>1. PICK l0, m0 : l0 = "cd" /\ m0 = mem[p] /\ Plumbed(l0, m0, s, p)
    BY <1>1, <1>2 DEF Parts
  <2>2. CallOK(s, u, p, L) /\ u.fds = s.fds
    BY <1>8, <1>14
  <2>3. Plumbed(l0, m0, u, p)
    BY <1>1, <1>2, <2>1, <2>2, PlumbedCall
  <2>. QED BY <2>1, <2>3, StandardIs DEF Before
<1>16. Parts(l, m, u, p)
  BY <1>12, <1>13, <1>14, <1>15, AtPrompt
<1>. QED BY <1>2, <1>8, <1>10, <1>13, <1>14, <1>16, StepKeeps

(* What the shell and its children remember once the pipes are made.       *)
Piped(m) ==
  /\ IsMem(m) /\ m.pipesfd \in Seq(3 .. NumSlots - 1) /\ Len(m.pipes) \in Nat
  /\ m.pipes = [i \in 1 .. Len(m.pipes) |-> m.pipes[i]] /\ Len(m.pipesfd) = 2 * Len(m.pipes)
  /\ m.line \in Lines /\ m.line.kind = "run" /\ Len(m.pipes) = PipesCount(m)
(* How far the line is. *)
IndexAt(l, m) ==
  IF l = "closing" THEN m.index \in 0 .. Len(m.pipesfd) ELSE m.index \in 0 .. PipesCount(m)

(* The memory of a line on its way. *)
LEMMA PipedIs ==
  ASSUME NEW l, l \in AfterPipes, NEW m, ShellMem(l, m)
  PROVE Piped(m) /\ IndexAt(l, m) /\ l \in ShellAt
<1>1. l \in ShellAt
  BY Zenon DEF AfterPipes, ShellAt
<1>. QED BY Zenon, <1>1 DEF ShellMem, Piped, IndexAt

(* And back. *)
LEMMA PipedAt ==
  ASSUME NEW l, l \in AfterPipes, NEW m, Piped(m), IndexAt(l, m)
  PROVE ShellMem(l, m)
<1>1. l \in ShellAt /\ l \notin {"cd", "ls", "readdir", "listed", "cat", "cat read", "parse", "pipe"}
  BY Zenon DEF AfterPipes, ShellAt
<1>. QED BY Zenon, <1>1 DEF ShellMem, Piped, IndexAt

(* What a place of the line needs. *)
LEMMA ShellPlace ==
  ASSUME NEW l, l \in AfterPipes, NEW m, Piped(m), IndexAt(l, m), NEW s, NEW p, ShellFds(l, s, p),
         Plumbed(l, m, s, p)
  PROVE Parts(l, m, s, p) /\ l # "none"
<1>1. ShellMem(l, m)
  BY PipedAt
<1>2. Listing(l, m, s, p) /\ l # "none"
  BY Zenon DEF Listing, AfterPipes
<1>. QED BY <1>1, <1>2 DEF Parts

(* And gives. *)
LEMMA PlaceShell ==
  ASSUME NEW l, l \in AfterPipes, NEW m, NEW s, NEW p, Parts(l, m, s, p)
  PROVE Piped(m) /\ IndexAt(l, m) /\ ShellFds(l, s, p) /\ l \in ShellAt /\ ShellMem(l, m) /\ IsMem(m)
        /\ Plumbed(l, m, s, p)
  BY Zenon, PipedIs DEF Parts, Piped

(* The places of the shell do not differ in their descriptors. *)
LEMMA FdsAt ==
  ASSUME NEW l, l \in ShellAt, NEW s, NEW p, ShellFds(l, s, p), NEW l2
  PROVE ShellFds(l2, s, p)
  BY DEF ShellFds

(* One more element. *)
LEMMA OneMore ==
  ASSUME NEW q, Len(q) \in Nat, q = [i \in 1 .. Len(q) |-> q[i]], NEW x
  PROVE /\ Len(Append(q, x)) = Len(q) + 1
        /\ Append(q, x) = [i \in 1 .. Len(q) + 1 |-> Append(q, x)[i]]
        /\ Append(q, x)[Len(q) + 1] = x
        /\ \A i \in 1 .. Len(q) : Append(q, x)[i] = q[i]
<1> DEFINE S == {q[i] : i \in 1 .. Len(q)} \cup {x}
<1>1. q \in Seq(S) /\ x \in S
  OBVIOUS
<1> HIDE DEF S
<1>2. PICK n \in Nat : n = Len(q)
  OBVIOUS
<1>3. PICK z \in Seq(S) : z = Append(q, x)
  BY Zenon, <1>1, AppendProperties
<1>4. Len(z) = n + 1 /\ z[n + 1] = x /\ \A i \in 1 .. n : z[i] = q[i]
  BY <1>1, <1>2, <1>3, AppendProperties
<1>5. z = [i \in 1 .. n + 1 |-> z[i]]
  BY <1>4
<1>. QED BY <1>2, <1>3, <1>4, <1>5

(* Two more elements. *)
LEMMA TwoMore ==
  ASSUME NEW S, NEW q \in Seq(S), NEW i \in S, NEW j \in S
  PROVE /\ q \o <<i, j>> \in Seq(S) /\ Len(q \o <<i, j>>) = Len(q) + 2
        /\ q = <<>> => (q \o <<i, j>>)[1] = i /\ (q \o <<i, j>>)[2] = j
<1>1. <<i, j>> \in Seq(S) /\ Len(<<i, j>>) = 2
  OBVIOUS
<1>2. q \o <<i, j>> \in Seq(S) /\ Len(q \o <<i, j>>) = Len(q) + 2
  BY <1>1, ConcatProperties, LenProperties
<1>3. q = <<>> => q \o <<i, j>> = <<i, j>>
  BY <1>1, ConcatEmptySeq
<1>. QED BY <1>2, <1>3

(* One pipe after the other. *)
LEMMA MakePipesKeeps ==
  ASSUME IInv, NEW p \in live, MakePipes(p)
  PROVE IInv'
<1>1. /\ Sound(k, live) /\ KernelOK(k) /\ Tidy(k) /\ live \subseteq Procs /\ p \in Procs
      /\ Parts(pc[p], mem[p], k, p) /\ pc[p] = "pipe"
  BY HereIs DEF MakePipes
<1>2. PICK s, L, m, r : s = k /\ L = live /\ m = mem[p] /\ r = sys_pipe(k, p)
  OBVIOUS
<1>3. IF Len(m.pipes) = PipesCount(m) THEN Go(p, "fork", m)
      ELSE IF r.ret = -1 THEN Go(p, "leave", m)
      ELSE Step(p, r, "pipe", [m EXCEPT !.pipesfd = @ \o r.file_desc, !.pipes = Append(@, r.pipe)])
  BY <1>2 DEF MakePipes
<1>4. ShellMem("pipe", m) /\ ShellFds("pipe", s, p) /\ Plumbed("pipe", m, s, p)
  BY <1>1, <1>2 DEF Parts
<1>5. /\ IsMem(m) /\ m.pipesfd \in Seq(3 .. NumSlots - 1) /\ Len(m.pipes) \in Nat
      /\ m.pipes = [i \in 1 .. Len(m.pipes) |-> m.pipes[i]] /\ Len(m.pipesfd) = 2 * Len(m.pipes)
      /\ m.line \in Lines /\ m.line.kind = "run" /\ m.index = 0 /\ Len(m.pipes) <= PipesCount(m)
  BY <1>4 DEF ShellMem, ShellAt
<1>6. PICK n \in Nat, c \in Nat : n = Len(m.pipes) /\ c = PipesCount(m) /\ n <= c
  BY <1>5, LineIs
<1>7. "pipe" \in ShellAt /\ "fork" \in AfterPipes
  BY DEF ShellAt, AfterPipes
<1>8. CASE n = c
  <2>1. Go(p, "fork", m)
    BY <1>3, <1>6, <1>8
  <2>2. PICK l : l = "fork" /\ l \in AfterPipes
    BY <1>7
  <2>3. Piped(m) /\ IndexAt(l, m)
    BY <1>5, <1>6, <1>8, <2>2 DEF Piped, IndexAt
  <2>4. ShellFds(l, s, p)
    BY <1>4, <1>7, FdsAt
  <2>5. Plumbed(l, m, s, p)
    BY <1>4, <2>2 DEF Plumbed, Before, WithPipes, Later
  <2>6. Parts(l, m, s, p) /\ l # "none"
    BY <2>2, <2>3, <2>4, <2>5, ShellPlace
  <2>. QED BY <1>2, <2>1, <2>2, <2>6, GoKeeps
<1>9. CASE n # c /\ r.ret = -1
  <2>1. PICK l : l = "leave" /\ l # "none" /\ Go(p, l, m)
    BY <1>3, <1>6, <1>9
  <2>2. l \notin Places \ {"leave"} /\ l \notin {"ls", "cat"}
    BY <2>1
  <2>3. Parts(l, m, s, p)
    BY <1>5, <2>2, AnyPlace
  <2>. QED BY <1>2, <2>1, <2>3, GoKeeps
<1>10. CASE n # c /\ r.ret # -1
  <2>1. PICK m2 : m2 = [m EXCEPT !.pipesfd = @ \o r.file_desc, !.pipes = Append(@, r.pipe)]
    OBVIOUS
  <2>2. Step(p, r, "pipe", m2)
    BY <1>3, <1>6, <1>10, <2>1
  <2>3. PipesOK(s, r, p, L)
    <3>1. \A i \in Slots : i >= 3 /\ s.fds[p][i] # NULL => s.desc[s.fds[p][i]].fdType \in Ends
      <4>1. \A i \in Slots : i >= 3 => ~(i <= 2)
        BY FilesAssumption DEF Slots
      <4>. QED BY <1>4, <1>7, <4>1 DEF ShellFds
    <3>. QED BY <1>1, <1>2, <3>1, PipeOK
  <2>4. PICK i \in 3 .. NumSlots - 1, j \in 3 .. NumSlots - 1, d \in Descs, e \in Descs :
          TwoEnds(s, r, p, i, j, d, e)
    BY <1>10, <2>3 DEF PipesOK
  <2>5. PICK x : x = r.pipe
    OBVIOUS
  <2>6. /\ r.file_desc = <<i, j>> /\ r.s.fds[p][i] = d /\ r.s.fds[p][j] = e
        /\ \A y \in Slots : y # i /\ y # j => r.s.fds[p][y] = s.fds[p][y]
        /\ r.s.desc[d].fdType = "PIPEREAD" /\ r.s.desc[e].fdType = "PIPEWRITE"
        /\ r.s.desc[d].pipe_ptr = x /\ r.s.desc[e].pipe_ptr = x
    BY <2>4, <2>5 DEF TwoEnds, NewFd
  <2>7. CallOK(s, r.s, p, L)
    BY <2>3 DEF PipesOK
  <2>8. ShellFds("pipe", r.s, p)
    <3>1. s.fds \in [Procs -> [Slots -> Descs \cup {NULL}]]
      BY Zenon, <1>1, <1>2, KernelIs
    <3>2. \A y \in Slots : s.fds[p][y] # NULL => r.s.desc[s.fds[p][y]].fdType = s.desc[s.fds[p][y]].fdType
      <4>1. \A y \in Slots : s.fds[p][y] # NULL => s.fds[p][y] \in Held(s)
        BY <1>1, <3>1 DEF Held
      <4>. QED BY <2>7, <4>1 DEF CallOK, Kin
    <3>3. ASSUME NEW y \in Slots, r.s.fds[p][y] # NULL
          PROVE r.s.desc[r.s.fds[p][y]].fdType \in IF y <= 2 THEN {"STDFILETYPE"} \cup Ends ELSE Ends
      <4>1. CASE y = i \/ y = j
        BY <2>6, <4>1 DEF Ends
      <4>2. CASE y # i /\ y # j
        BY <1>4, <1>7, <2>6, <3>2, <3>3, <4>2 DEF ShellFds
      <4>. QED BY <4>1, <4>2
    <3>. QED BY <3>3 DEF ShellFds
  <2>9. m2 = [line |-> m.line, index |-> m.index, pipesfd |-> m.pipesfd \o <<i, j>>, pipes |-> Append(m.pipes, x),
              fd |-> m.fd, args |-> m.args, out |-> m.out, ret |-> m.ret, bg |-> m.bg]
    BY Zenon, <1>5, <2>1, <2>5, <2>6 DEF IsMem
  <2>10. /\ IsMem(m2) /\ m2.line = m.line /\ m2.index = m.index /\ m2.pipesfd = m.pipesfd \o <<i, j>>
         /\ m2.pipes = Append(m.pipes, x)
    BY Zenon, <2>9 DEF IsMem
  <2>11. /\ m2.pipesfd \in Seq(3 .. NumSlots - 1) /\ Len(m2.pipesfd) = Len(m.pipesfd) + 2
         /\ m.pipesfd = <<>> => m2.pipesfd[1] = i /\ m2.pipesfd[2] = j
    <3>1. PICK S : S = 3 .. NumSlots - 1
      OBVIOUS
    <3>2. PICK q \in Seq(S), a \in S, b \in S : q = m.pipesfd /\ a = i /\ b = j
      <4>1. m.pipesfd \in Seq(S) /\ i \in S /\ j \in S
        BY <1>5, <3>1
      <4>. QED BY <4>1
    <3>3. /\ q \o <<a, b>> \in Seq(S) /\ Len(q \o <<a, b>>) = Len(q) + 2
          /\ q = <<>> => (q \o <<a, b>>)[1] = a /\ (q \o <<a, b>>)[2] = b
      BY TwoMore
    <3>. QED BY <2>10, <3>1, <3>2, <3>3
  <2>12. PICK q : q = m.pipes /\ Len(q) = n /\ q = [y \in 1 .. Len(q) |-> q[y]]
    BY Zenon, <1>5, <1>6
  <2>13. Len(m2.pipes) = n + 1 /\ m2.pipes = [y \in 1 .. n + 1 |-> m2.pipes[y]] /\ m2.pipes[n + 1] = x
    BY <2>10, <2>12, OneMore
  <2>14. /\ Len(m2.pipes) \in Nat /\ m2.pipes = [y \in 1 .. Len(m2.pipes) |-> m2.pipes[y]]
         /\ Len(m2.pipesfd) = 2 * Len(m2.pipes)
    BY <1>5, <1>6, <2>11, <2>13
  <2>15. PipesCount(m2) = c /\ Len(m2.pipes) <= c
    <3>1. PipesCount(m2) = PipesCount(m)
      BY <2>10 DEF PipesCount
    <3>2. n + 1 <= c
      BY <1>6, <1>10
    <3>. QED BY <1>6, <2>13, <3>1, <3>2
  <2>16. PICK l : l = "pipe" /\ l # "none" /\ l \in ShellAt
    BY <1>7
  <2>17. ShellMem(l, m2)
    <3>1. l \notin AfterPipes /\ l \notin {"cd", "closing", "ls", "readdir", "listed", "cat", "cat read"}
      BY <2>16 DEF AfterPipes
    <3>. QED BY Zenon, <1>5, <2>10, <2>11, <2>14, <2>15, <2>16, <3>1 DEF ShellMem
  <2>18. Plumbed(l, m2, r.s, p)
    <3>1. SUFFICES ASSUME ShortLines PROVE Plumbed(l, m2, r.s, p)
      BY DEF Plumbed
    <3>2. n = 0
      <4>1. Len(m.line.cmds) <= 2 /\ Len(m.line.cmds) = c + 1
        BY <1>5, <1>6, <3>1, LineIs DEF ShortLines
      <4>. QED BY <1>6, <1>10, <4>1
    <3>3. m.pipesfd = <<>>
      BY <1>5, <1>6, <3>2, EmptySeq
    <3>4. m2.pipesfd[1] = i /\ m2.pipesfd[2] = j /\ m2.pipes[1] = x /\ m2.index = 0
      BY <1>5, <2>10, <2>11, <2>13, <3>2, <3>3
    <3>5. PICK u : u = r.s
      OBVIOUS
    <3>6. i \in Slots /\ j \in Slots /\ d # NULL /\ e # NULL
      BY SlotNumbers, NotNull
    <3>7. On(u, p, m2.pipesfd[1], "PIPEREAD", m2.pipes[1]) /\ On(u, p, m2.pipesfd[2], "PIPEWRITE", m2.pipes[1])
      BY <2>6, <3>4, <3>5, <3>6 DEF On
    <3>8. Std(u, p, 0) /\ Std(u, p, 1)
      <4>1. Std(s, p, 0) /\ Std(s, p, 1)
        BY <1>4, <3>1 DEF Plumbed, Before
      <4>2. u.fds[p][0] = s.fds[p][0] /\ u.fds[p][1] = s.fds[p][1]
        BY <2>6, <3>5, FilesAssumption DEF Slots
      <4>3. CallOK(s, u, p, L)
        BY <2>7, <3>5
      <4>. QED BY <1>1, <1>2, <4>1, <4>2, <4>3, WireKept DEF Std
    <3>. QED BY <2>16, <3>5, <3>7, <3>8 DEF Plumbed, OnPipes, Later
  <2>19. Parts(l, m2, r.s, p)
    BY <2>8, <2>16, <2>17, <2>18 DEF Parts, Listing
  <2>. QED BY <1>2, <2>2, <2>7, <2>16, <2>19, StepKeeps
<1>. QED BY <1>8, <1>9, <1>10

(* A line on its way. *)
InLine == AfterPipes \ {"closing"}

(* From one place of a line to another, with nothing remembered anew. *)
LEMMA LineGoesOn ==
  ASSUME NEW l, l \in InLine, NEW l2, l2 \in InLine, NEW m, NEW s, NEW p, Parts(l, m, s, p),
         Plumbed(l2, m, s, p)
  PROVE Parts(l2, m, s, p) /\ l2 \notin {"none", "readdir", "listed"}
<1>1. l \in AfterPipes /\ l2 \in AfterPipes /\ l # "closing" /\ l2 # "closing"
  BY DEF InLine
<1>2. Piped(m) /\ IndexAt(l, m) /\ ShellFds(l, s, p) /\ l \in ShellAt
  BY <1>1, PlaceShell
<1>3. IndexAt(l2, m)
  BY <1>1, <1>2 DEF IndexAt
<1>4. ShellFds(l2, s, p)
  BY <1>2, FdsAt
<1>5. Parts(l2, m, s, p)
  BY <1>1, <1>2, <1>3, <1>4, ShellPlace
<1>. QED BY Zenon, <1>1, <1>5 DEF AfterPipes

(* Places with the same wires. *)
LEMMA SameWires ==
  ASSUME NEW l, NEW l2, NEW m, NEW s, NEW p, Parts(l, m, s, p),
         \/ l \in Before \cap WithPipes /\ l2 \in Before \cap WithPipes
         \/ l \in Later /\ l2 \in Later
  PROVE Plumbed(l2, m, s, p)
<1>1. Plumbed(l, m, s, p)
  BY DEF Parts
<1>2. \A x \in Later : x \notin Before /\ x \notin WithPipes /\ x # "stdout"
  BY Zenon DEF Later, Before, WithPipes
<1>3. \A x \in Before \cap WithPipes : x \notin {"stdout"} \cup Later
  BY Zenon DEF Later, Before, WithPipes
<1>4. CASE l \in Before \cap WithPipes /\ l2 \in Before \cap WithPipes
  BY <1>1, <1>3, <1>4 DEF Plumbed
<1>5. CASE l \in Later /\ l2 \in Later
  BY <1>1, <1>2, <1>5 DEF Plumbed
<1>. QED BY <1>4, <1>5

(* A short line has one pipe at most. *)
LEMMA OnePipe ==
  ASSUME ShortLines, NEW m, Piped(m)
  PROVE PipesCount(m) \in {0, 1} /\ Len(m.pipes) = PipesCount(m)
<1>1. PICK n \in Nat : n = PipesCount(m) /\ Len(m.line.cmds) = n + 1
  BY LineIs DEF Piped
<1>2. n + 1 <= 2
  BY <1>1 DEF ShortLines, Piped
<1>3. n \in {0, 1}
  BY <1>2
<1>. QED BY <1>1, <1>3 DEF Piped

(* A process that leaves. *)
LEMMA LeavesAt ==
  ASSUME NEW m, IsMem(m), NEW s, NEW p, NEW l, l = "leave"
  PROVE Parts(l, m, s, p) /\ l # "none"
<1>1. l \notin Places \ {"leave"} /\ l \notin {"ls", "cat"}
  OBVIOUS
<1>. QED BY <1>1, AnyPlace

(* The shell forks a command. *)
LEMMA ForkCommandKeeps ==
  ASSUME IInv, NEW p \in live, ForkCommand(p)
  PROVE IInv'
<1>1. Parts(pc[p], mem[p], k, p) /\ pc[p] = "fork"
  BY HereIs DEF ForkCommand
<1>2. PICK l0, l, l2 : /\ l0 = "fork" /\ l = "wait"
                       /\ l2 = IF PipesCount(mem[p]) = 0 THEN "exec" ELSE "stdin"
  OBVIOUS
<1>3. l0 \in InLine /\ l \in InLine /\ l2 \in InLine
  BY <1>2 DEF InLine, AfterPipes
<1>4. PICK s, m : s = k /\ m = mem[p] /\ Parts(l0, m, s, p)
  BY <1>1, <1>2
<1>5. Parts(l, m, s, p) /\ l \notin {"none", "readdir", "listed"}
  <2>1. Plumbed(l, m, s, p)
    BY <1>2, <1>4, SameWires DEF Before, WithPipes
  <2>. QED BY <1>3, <1>4, <2>1, LineGoesOn
<1>6. Parts(l2, m, s, p) /\ l2 \notin {"none", "readdir", "listed"}
  <2>1. CASE PipesCount(m) # 0
    <3>1. l2 = "stdin"
      BY <1>2, <1>4, <2>1
    <3>2. Plumbed(l2, m, s, p)
      BY <1>2, <1>4, <3>1, SameWires DEF Before, WithPipes
    <3>. QED BY <1>3, <1>4, <3>2, LineGoesOn
  <2>2. CASE PipesCount(m) = 0
    <3>1. l2 = "exec" /\ l0 \in AfterPipes /\ l0 \in Before
      BY <1>2, <1>4, <2>2 DEF AfterPipes, Before
    <3>2. Piped(m) /\ IndexAt(l0, m) /\ Plumbed(l0, m, s, p)
      BY <1>4, <3>1, PlaceShell
    <3>3. m.index = 0 /\ Len(m.pipes) = 0
      BY <1>2, <2>2, <3>2 DEF IndexAt, Piped
    <3>4. Plumbed(l2, m, s, p)
      BY <3>1, <3>2, <3>3 DEF Plumbed, Input, Output, Before, WithPipes
    <3>. QED BY <1>3, <1>4, <3>4, LineGoesOn
  <2>. QED BY <2>1, <2>2
<1>7. Fork(p, l, l2)
  BY <1>2 DEF ForkCommand
<1>. QED BY <1>4, <1>5, <1>6, <1>7, ForkKeeps

(* The shell waits for it. *)
LEMMA WaitKeeps ==
  ASSUME IInv, NEW p \in live, Wait(p)
  PROVE IInv'
<1>1. Parts(pc[p], mem[p], k, p) /\ pc[p] = "wait"
  BY HereIs DEF Wait
<1>2. PICK l0, l, m, s :
        /\ l0 = "wait" /\ l = (IF \E c \in live : parentPCB[c] = p THEN "waiting" ELSE "waited")
        /\ m = mem[p] /\ s = k
  OBVIOUS
<1>3. l0 \in InLine /\ l \in InLine
  BY <1>2 DEF InLine, AfterPipes
<1>4. Parts(l0, m, s, p)
  BY <1>1, <1>2
<1>5. Parts(l, m, s, p) /\ l # "none"
  <2>1. Plumbed(l, m, s, p)
    BY <1>2, <1>4, SameWires DEF Before, WithPipes
  <2>. QED BY <1>3, <1>4, <2>1, LineGoesOn
<1>6. Go(p, l, m)
  BY <1>2 DEF Wait, Waitpid
<1>. QED BY <1>2, <1>5, <1>6, GoKeeps

(* A command waits for its child. *)
LEMMA WaitPathKeeps ==
  ASSUME IInv, NEW p \in live, WaitPath(p)
  PROVE IInv'
<1>1. Parts(pc[p], mem[p], k, p) /\ pc[p] = "wait path"
  BY Zenon, HereIs DEF WaitPath
<1>2. PICK l0, l, m, s :
        /\ l0 = "wait path" /\ l = (IF \E c \in live : parentPCB[c] = p THEN "waiting path" ELSE "leave")
        /\ m = mem[p] /\ s = k
  BY Zenon
<1>3. Parts(l0, m, s, p) /\ l0 \in InLine /\ l0 \in AfterPipes
  BY Zenon, <1>1, <1>2 DEF InLine, AfterPipes
<1>4. Go(p, l, m)
  BY Zenon, <1>2 DEF WaitPath, Waitpid
<1>5. Parts(l, m, s, p) /\ l # "none"
  <2>1. CASE l = "leave"
    <3>1. IsMem(m)
      BY <1>3, PlaceShell
    <3>. QED BY <2>1, <3>1, LeavesAt
  <2>2. CASE l = "waiting path"
    <3>1. l \in InLine
      BY Zenon, <2>2 DEF InLine, AfterPipes
    <3>2. Plumbed(l, m, s, p)
      BY Zenon, <1>2, <1>3, <2>2, SameWires DEF Later
    <3>. QED BY <1>3, <3>1, <3>2, LineGoesOn
  <2>. QED BY Zenon, <1>2, <2>1, <2>2
<1>. QED BY Zenon, <1>2, <1>4, <1>5, GoKeeps

(* The shell back at its prompt. *)
LEMMA PromptAgain ==
  ASSUME NEW l, l \in ShellAt, NEW s, NEW p, ShellFds(l, s, p), Standard(s, p),
         NEW l2, l2 = "prompt"
  PROVE Parts(l2, Fresh(NULL), s, p) /\ l2 # "none"
<1>1. PICK m : m = Fresh(NULL)
  OBVIOUS
<1>2. IsMem(m) /\ m.index = 0 /\ m.pipesfd = <<>> /\ m.pipes = <<>>
  BY <1>1 DEF Fresh, IsMem
<1>3. ShellFds("prompt", s, p)
  BY FdsAt
<1>4. Parts(l2, m, s, p)
  BY <1>2, <1>3, AtPrompt
<1>. QED BY <1>1, <1>4

(* A close of one end of a pipe of the line. *)
LEMMA CloseEnd ==
  ASSUME NEW s, NEW L, L \subseteq Procs, NEW p \in L, Sound(s, L),
         NEW l, NEW m, l \in AfterPipes, Parts(l, m, s, p),
         NEW i, i \in 1 .. Len(m.pipesfd), NEW r, r = sys_close(s, p, m.pipesfd[i])
  PROVE /\ CallOK(s, r.s, p, L) /\ ShellFds(l, r.s, p)
        /\ \A j \in Slots : j # m.pipesfd[i] => r.s.fds[p][j] = s.fds[p][j]
<1>1. ShellFds(l, s, p) /\ l \in ShellAt /\ ShellMem(l, m)
  BY PlaceShell
<1>2. PICK fd \in Slots : fd = m.pipesfd[i] /\ fd >= 3
  BY <1>1, PipeSlot
<1>3. ~(fd <= 2)
  BY <1>2, FilesAssumption DEF Slots
<1>4. s.fds[p][fd] # NULL => s.desc[s.fds[p][fd]].fdType \in Ends
  BY <1>1, <1>3 DEF ShellFds
<1>5. r = sys_close(s, p, fd)
  BY <1>2
<1>6. Closes(s, r, p, fd, L)
  BY <1>4, <1>5, CloseOK
<1>7. PICK u : u = r.s
  OBVIOUS
<1>8. CallOK(s, u, p, L) /\ \A j \in Slots : u.fds[p][j] = NULL \/ u.fds[p][j] = s.fds[p][j]
  BY <1>6, <1>7 DEF Closes
<1>9. KernelOK(s) /\ p \in Procs
  BY DEF Sound
<1>10. ShellFds(l, u, p)
  BY <1>1, <1>8, <1>9, FdsKept
<1>11. \A j \in Slots : j # m.pipesfd[i] => r.s.fds[p][j] = s.fds[p][j]
  BY <1>2, <1>6 DEF Closes
<1>. QED BY <1>7, <1>8, <1>10, <1>11

(* The numbers of the ends: 2i + 1 and 2i + 2 for command i. *)
LEMMA EndNumbers ==
  ASSUME NEW m, Piped(m), NEW i \in 0 .. PipesCount(m)
  PROVE /\ PipesCount(m) \in Nat
        /\ i # 0 => 2 * i - 1 \in 1 .. Len(m.pipesfd)
        /\ i # PipesCount(m) => 2 * i + 2 \in 1 .. Len(m.pipesfd)
<1>1. PICK n \in Nat : n = PipesCount(m) /\ Len(m.pipesfd) = 2 * n
  BY LineIs DEF Piped
<1>. QED BY <1>1

(* The shell closes the writer and goes on with the line. *)
LEMMA NextCommandKeeps ==
  ASSUME IInv, NEW p \in live, NextCommand(p)
  PROVE IInv'
<1>1. /\ Sound(k, live) /\ KernelOK(k) /\ live \subseteq Procs /\ p \in Procs
      /\ Parts(pc[p], mem[p], k, p) /\ pc[p] = "waited"
  BY HereIs DEF NextCommand
<1>2. PICK s, L, m, l0 : s = k /\ L = live /\ m = mem[p] /\ l0 = "waited"
  OBVIOUS
<1>3. Parts(l0, m, s, p) /\ l0 \in AfterPipes /\ l0 # "closing"
  BY <1>1, <1>2 DEF AfterPipes
<1>4. Piped(m) /\ IndexAt(l0, m) /\ ShellFds(l0, s, p) /\ l0 \in ShellAt /\ Plumbed(l0, m, s, p)
      /\ Standard(s, p)
  BY <1>2, <1>3, PlaceShell, StandardIs DEF Before
<1>5. PICK i, n \in Nat : i = m.index /\ n = PipesCount(m) /\ i \in 0 .. n
  <2>1. m.index \in 0 .. PipesCount(m)
    BY <1>3, <1>4 DEF IndexAt
  <2>2. PipesCount(m) \in Nat
    BY <1>4, LineIs DEF Piped
  <2>. QED BY <2>1, <2>2
<1>6. IF n = 0 THEN Go(p, "prompt", Fresh(NULL))
      ELSE IF i < n
      THEN Step(p, sys_close(k, p, m.pipesfd[2 * i + 2]), "fork", [m EXCEPT !.index = @ + 1])
      ELSE Go(p, "closing", [m EXCEPT !.index = 0])
  BY <1>2, <1>5 DEF NextCommand
<1>7. CASE n = 0
  <2>1. PICK l : l = "prompt" /\ Go(p, l, Fresh(NULL))
    BY <1>6, <1>7
  <2>2. Parts(l, Fresh(NULL), s, p) /\ l # "none"
    BY <1>4, <2>1, PromptAgain
  <2>. QED BY <1>2, <2>1, <2>2, GoKeeps
<1>8. CASE n # 0 /\ i < n
  <2>1. PICK l, m2, r : /\ l = "fork" /\ m2 = [m EXCEPT !.index = @ + 1]
                        /\ r = sys_close(s, p, m.pipesfd[2 * i + 2])
    BY Zenon
  <2>2. Step(p, r, l, m2)
    BY <1>2, <1>6, <1>8, <2>1
  <2>3. 2 * i + 2 \in 1 .. Len(m.pipesfd)
    BY <1>4, <1>5, <1>8, EndNumbers
  <2>4. /\ CallOK(s, r.s, p, L) /\ ShellFds(l0, r.s, p)
        /\ \A j \in Slots : j # m.pipesfd[2 * i + 2] => r.s.fds[p][j] = s.fds[p][j]
    BY <1>1, <1>2, <1>3, <2>1, <2>3, CloseEnd
  <2>5. /\ Piped(m2) /\ IndexAt(l, m2) /\ m2.index = i + 1 /\ m2.pipes = m.pipes
        /\ m2.pipesfd = m.pipesfd
    <3>1. /\ m2 = [line |-> m.line, index |-> i + 1, pipesfd |-> m.pipesfd, pipes |-> m.pipes,
                   fd |-> m.fd, args |-> m.args, out |-> m.out, ret |-> m.ret, bg |-> m.bg]
      BY Zenon, <1>4, <1>5, <2>1 DEF Piped, IsMem
    <3>2. /\ IsMem(m2) /\ m2.line = m.line /\ m2.index = i + 1 /\ m2.pipesfd = m.pipesfd
          /\ m2.pipes = m.pipes
      BY <3>1 DEF IsMem
    <3>3. PipesCount(m2) = n
      BY <1>5, <3>2 DEF PipesCount
    <3>4. i + 1 \in 0 .. n
      BY <1>5, <1>8
    <3>. QED BY Zenon, <1>4, <1>5, <2>1, <3>2, <3>3, <3>4 DEF Piped, IndexAt
  <2>6. PICK u : u = r.s /\ ShellFds(l0, u, p)
    BY <2>4
  <2>7. ShellFds(l, u, p)
    BY <1>4, <2>6, FdsAt
  <2>8. l \in AfterPipes
    BY <2>1 DEF AfterPipes
  <2>9. Plumbed(l, m2, u, p)
    <3>1. SUFFICES ASSUME ShortLines PROVE Plumbed(l, m2, u, p)
      BY DEF Plumbed
    <3>2. i = 0 /\ n = 1 /\ Len(m.pipes) = 1
      <4>1. PipesCount(m) \in {0, 1} /\ Len(m.pipes) = PipesCount(m)
        BY <1>4, <3>1, OnePipe
      <4>2. n \in {0, 1} /\ Len(m.pipes) = n
        BY <1>5, <4>1
      <4>. QED BY <1>5, <1>8, <4>2
    <3>3. /\ Std(s, p, 0) /\ Std(s, p, 1) /\ On(s, p, m.pipesfd[1], "PIPEREAD", m.pipes[1])
          /\ On(s, p, m.pipesfd[2], "PIPEWRITE", m.pipes[1])
      BY <1>2, <1>4, <1>5, <3>1, <3>2 DEF Plumbed, Standard, OnPipes, WithPipes
    <3>4. PICK y : y = m.pipesfd[2 * i + 2] /\ y = m.pipesfd[2] /\ y >= 3 /\ y \in 3 .. NumSlots - 1
      <4>1. ShellMem(l0, m)
        BY <1>3, PlaceShell
      <4>. QED BY <1>4, <2>3, <3>2, <4>1, PipeSlot
    <3>5. y # 0 /\ y # 1 /\ y # m.pipesfd[1]
      BY <3>3, <3>4 DEF On
    <3>6. PICK z : z = m.pipesfd[1] /\ z \in Slots
      BY <3>3 DEF On
    <3>7. u.fds[p][0] = s.fds[p][0] /\ u.fds[p][1] = s.fds[p][1] /\ u.fds[p][z] = s.fds[p][z]
      BY <2>4, <2>6, <3>3, <3>4, <3>5, <3>6 DEF Std
    <3>8. CallOK(s, u, p, L)
      BY <2>4, <2>6
    <3>9. Std(u, p, 0) /\ Std(u, p, 1)
      BY <1>1, <1>2, <3>3, <3>7, <3>8, WireKept DEF Std
    <3>10. On(u, p, z, "PIPEREAD", m.pipes[1])
      BY <1>1, <1>2, <3>3, <3>6, <3>7, <3>8, WireKept
    <3>. QED BY <2>1, <2>5, <3>2, <3>6, <3>9, <3>10 DEF Plumbed, OnPipes, Later
  <2>10. Parts(l, m2, u, p) /\ l # "none"
    BY <2>5, <2>7, <2>8, <2>9, ShellPlace
  <2>. QED BY <1>2, <2>2, <2>4, <2>6, <2>10, StepKeeps
<1>9. CASE n # 0 /\ ~(i < n)
  <2>1. PICK l, m2 : l = "closing" /\ m2 = [m EXCEPT !.index = 0] /\ Go(p, l, m2)
    BY <1>6, <1>9
  <2>2. Piped(m2) /\ IndexAt(l, m2)
    <3>1. /\ m2 = [line |-> m.line, index |-> 0, pipesfd |-> m.pipesfd, pipes |-> m.pipes,
                   fd |-> m.fd, args |-> m.args, out |-> m.out, ret |-> m.ret, bg |-> m.bg]
      BY Zenon, <1>4, <2>1 DEF Piped, IsMem
    <3>2. /\ IsMem(m2) /\ m2.line = m.line /\ m2.index = 0 /\ m2.pipesfd = m.pipesfd
          /\ m2.pipes = m.pipes
      BY <3>1 DEF IsMem
    <3>3. PipesCount(m2) = PipesCount(m)
      BY <3>2 DEF PipesCount
    <3>4. 0 \in 0 .. Len(m2.pipesfd)
      BY <1>4, <1>5, <3>2 DEF Piped
    <3>. QED BY Zenon, <1>4, <2>1, <3>2, <3>3, <3>4 DEF Piped, IndexAt
  <2>3. ShellFds(l, s, p)
    BY <1>4, FdsAt
  <2>4. l \in AfterPipes
    BY <2>1 DEF AfterPipes
  <2>5. Plumbed(l, m2, s, p)
    BY Zenon, <1>4, <2>1 DEF Plumbed, Standard, WithPipes, Later
  <2>6. Parts(l, m2, s, p) /\ l # "none"
    BY <2>2, <2>3, <2>4, <2>5, ShellPlace
  <2>. QED BY <1>2, <2>1, <2>6, GoKeeps
<1>. QED BY <1>7, <1>8, <1>9

-----------------------------------------------------------------------------
(* The child of a pipeline connects its descriptors. *)

(* The shell closes the pipes of the line. *)
LEMMA ClosePipesKeeps ==
  ASSUME IInv, NEW p \in live, ClosePipes(p)
  PROVE IInv'
<1>1. /\ Sound(k, live) /\ KernelOK(k) /\ live \subseteq Procs /\ p \in Procs
      /\ Parts(pc[p], mem[p], k, p) /\ pc[p] = "closing"
  BY HereIs DEF ClosePipes
<1>2. PICK s, L, m, l : s = k /\ L = live /\ m = mem[p] /\ l = "closing"
  OBVIOUS
<1>3. Parts(l, m, s, p) /\ l \in AfterPipes
  BY <1>1, <1>2 DEF AfterPipes
<1>4. Piped(m) /\ IndexAt(l, m) /\ ShellFds(l, s, p) /\ l \in ShellAt /\ ShellMem(l, m)
      /\ Plumbed(l, m, s, p) /\ Standard(s, p)
  BY <1>2, <1>3, PlaceShell, StandardIs DEF Before
<1>5. PICK i, n \in Nat : i = m.index /\ n = Len(m.pipesfd) /\ i \in 0 .. n
  <2>1. m.index \in 0 .. Len(m.pipesfd)
    BY <1>2, <1>4 DEF IndexAt
  <2>2. Len(m.pipesfd) \in Nat
    BY <1>4 DEF Piped
  <2>. QED BY <2>1, <2>2
<1>6. IF i = n THEN Go(p, "prompt", Fresh(NULL))
      ELSE Step(p, sys_close(k, p, m.pipesfd[i + 1]), "closing", [m EXCEPT !.index = @ + 1])
  BY <1>2, <1>5 DEF ClosePipes
<1>7. CASE i = n
  <2>1. PICK l2 : l2 = "prompt" /\ Go(p, l2, Fresh(NULL))
    BY <1>6, <1>7
  <2>2. Parts(l2, Fresh(NULL), s, p) /\ l2 # "none"
    BY <1>4, <2>1, PromptAgain
  <2>. QED BY <1>2, <2>1, <2>2, GoKeeps
<1>8. CASE i # n
  <2>1. PICK m2, r : m2 = [m EXCEPT !.index = @ + 1] /\ r = sys_close(s, p, m.pipesfd[i + 1])
    BY Zenon
  <2>2. Step(p, r, l, m2)
    BY <1>2, <1>6, <1>8, <2>1
  <2>3. i + 1 \in 1 .. Len(m.pipesfd)
    BY <1>5, <1>8
  <2>4. /\ CallOK(s, r.s, p, L) /\ ShellFds(l, r.s, p)
        /\ \A j \in Slots : j # m.pipesfd[i + 1] => r.s.fds[p][j] = s.fds[p][j]
    BY <1>1, <1>2, <1>3, <2>1, <2>3, CloseEnd
  <2>5. Piped(m2) /\ IndexAt(l, m2)
    <3>1. /\ m2 = [line |-> m.line, index |-> i + 1, pipesfd |-> m.pipesfd, pipes |-> m.pipes,
                   fd |-> m.fd, args |-> m.args, out |-> m.out, ret |-> m.ret, bg |-> m.bg]
      BY Zenon, <1>4, <1>5, <2>1 DEF Piped, IsMem
    <3>2. /\ IsMem(m2) /\ m2.line = m.line /\ m2.index = i + 1 /\ m2.pipesfd = m.pipesfd
          /\ m2.pipes = m.pipes
      BY <3>1 DEF IsMem
    <3>3. PipesCount(m2) = PipesCount(m)
      BY <3>2 DEF PipesCount
    <3>4. i + 1 \in 0 .. Len(m2.pipesfd)
      BY <1>5, <1>8, <3>2
    <3>. QED BY Zenon, <1>2, <1>4, <3>2, <3>3, <3>4 DEF Piped, IndexAt
  <2>6. PICK u : u = r.s /\ ShellFds(l, u, p)
    BY <2>4
  <2>7. Plumbed(l, m2, u, p)
    <3>1. m.pipesfd[i + 1] >= 3
      BY <1>4, <2>3, PipeSlot
    <3>2. PICK y : y = m.pipesfd[i + 1] /\ y # 0 /\ y # 1
      BY <3>1
    <3>3. 0 \in Slots /\ 1 \in Slots
      BY FilesAssumption DEF Slots
    <3>4. u.fds[p][0] = s.fds[p][0] /\ u.fds[p][1] = s.fds[p][1]
      BY <2>4, <2>6, <3>2, <3>3
    <3>5. CallOK(s, u, p, L)
      BY <2>4, <2>6
    <3>6. (Std(s, p, 0) => Std(u, p, 0)) /\ (Std(s, p, 1) => Std(u, p, 1))
      BY <1>1, <1>2, <3>3, <3>4, <3>5, WireKept
    <3>. QED BY <1>2, <1>4, <3>6 DEF Plumbed, Standard, WithPipes, Later
  <2>8. Parts(l, m2, u, p) /\ l # "none"
    BY <1>3, <2>5, <2>6, <2>7, ShellPlace
  <2>. QED BY <1>2, <2>2, <2>4, <2>6, <2>8, StepKeeps
<1>. QED BY <1>7, <1>8

(* Slot fd leads where the i-th slot of the line leads. *)
Connects(s, u, p, m, i, fd) ==
  /\ \A j \in Slots : j # fd => u.fds[p][j] = s.fds[p][j]
  /\ s.fds[p][m.pipesfd[i]] # NULL => u.fds[p][fd] = s.fds[p][m.pipesfd[i]]

(* dup2 of one end of a pipe of the line over a standard descriptor.       *)
LEMMA ConnectEnd ==
  ASSUME NEW s, NEW L, L \subseteq Procs, NEW p \in L, Sound(s, L),
         NEW l, NEW m, l \in AfterPipes, Parts(l, m, s, p),
         NEW i, i \in 1 .. Len(m.pipesfd), NEW fd \in {0, 1},
         NEW r, r = sys_dup2(s, p, m.pipesfd[i], fd)
  PROVE /\ CallOK(s, r.s, p, L) /\ ShellFds(l, r.s, p)
        /\ Connects(s, r.s, p, m, i, fd)
<1>1. ShellFds(l, s, p) /\ l \in ShellAt /\ ShellMem(l, m)
  BY PlaceShell
<1>2. PICK old \in Slots : old = m.pipesfd[i] /\ old >= 3
  BY <1>1, PipeSlot
<1>3. ~(old <= 2) /\ fd \in Slots /\ old # fd
  BY <1>2, FilesAssumption DEF Slots
<1>4. s.fds[p][old] # NULL => s.desc[s.fds[p][old]].fdType \in Ends
  BY <1>1, <1>3 DEF ShellFds
<1>5. r = sys_dup2(s, p, old, fd)
  BY <1>2
<1>6. Dups(s, r, p, old, fd, L)
  BY <1>3, <1>4, <1>5, Dup2OK
<1>7. PICK u : u = r.s
  OBVIOUS
<1>8. CallOK(s, u, p, L)
      /\ \A j \in Slots : \/ u.fds[p][j] = NULL \/ u.fds[p][j] = s.fds[p][j]
                          \/ \E x \in Slots : x >= 3 /\ u.fds[p][j] = s.fds[p][x]
  BY <1>2, <1>6, <1>7 DEF Dups
<1>9. KernelOK(s) /\ p \in Procs
  BY DEF Sound
<1>10. ShellFds(l, u, p)
  BY <1>1, <1>8, <1>9, FdsKept
<1>11. /\ \A j \in Slots : j # fd => r.s.fds[p][j] = s.fds[p][j]
       /\ s.fds[p][m.pipesfd[i]] # NULL => r.s.fds[p][fd] = s.fds[p][m.pipesfd[i]]
  BY <1>2, <1>6 DEF Dups
<1>. QED BY <1>7, <1>8, <1>10, <1>11 DEF Connects

(* The one pipe of a line is connected to the input of its second command,   *)
(* to the output of its first.                                              *)
LEMMA InputWired ==
  ASSUME NEW s, KernelOK(s), NEW u, NEW L, NEW p \in Procs, CallOK(s, u, p, L),
         NEW m, Piped(m), m.index \in 0 .. PipesCount(m), m.index # 0,
         NEW i, i = 2 * m.index - 1, NEW fd, fd = 0,
         Plumbed("stdin", m, s, p), Connects(s, u, p, m, i, fd)
  PROVE Plumbed("stdout", m, u, p)
<1>1. SUFFICES ASSUME ShortLines PROVE Plumbed("stdout", m, u, p)
  BY DEF Plumbed
<1>2. PICK n : n = PipesCount(m) /\ n \in {0, 1} /\ Len(m.pipes) = n
  BY <1>1, OnePipe
<1>3. m.index = 1 /\ Len(m.pipes) = 1
  BY <1>2
<1>4. Std(s, p, 1) /\ On(s, p, m.pipesfd[1], "PIPEREAD", m.pipes[1])
  BY <1>1, <1>3 DEF Plumbed, OnPipes, Before, WithPipes
<1>5. PICK z : z = m.pipesfd[1] /\ z = m.pipesfd[i] /\ z \in Slots
  <2>1. i = 1
    BY <1>3
  <2>. QED BY Zenon, <1>4, <2>1 DEF On
<1>6. 0 \in Slots /\ 1 \in Slots
  BY FilesAssumption DEF Slots
<1>7. u.fds[p][0] = s.fds[p][z] /\ u.fds[p][1] = s.fds[p][1]
  <2>1. s.fds[p][z] # NULL
    BY <1>4, <1>5 DEF On
  <2>. QED BY <1>5, <1>6, <2>1 DEF Connects
<1>8. On(s, p, z, "PIPEREAD", m.pipes[1])
  BY <1>4, <1>5
<1>9. On(u, p, 0, "PIPEREAD", m.pipes[1])
  BY Zenon, <1>6, <1>7, <1>8, WireKept
<1>10. Std(u, p, 1)
  <2>1. PICK j : j = 1 /\ j \in Slots /\ Std(s, p, j) /\ u.fds[p][j] = s.fds[p][j]
    BY <1>4, <1>6, <1>7
  <2>2. Std(u, p, j)
    BY <2>1, WireKept
  <2>. QED BY <2>1, <2>2
<1>11. On(u, p, m.pipesfd[1], "PIPEREAD", m.pipes[1])
  <2>1. z # 0
    <3>1. m.pipesfd \in Seq(3 .. NumSlots - 1) /\ 1 \in 1 .. Len(m.pipesfd)
      BY <1>3 DEF Piped
    <3>2. m.pipesfd[1] \in 3 .. NumSlots - 1
      BY Zenon, <3>1, ElementOfSeq
    <3>3. m.pipesfd[1] # 0
      BY <3>2, FilesAssumption
    <3>. QED BY <1>5, <3>3
  <2>2. u.fds[p][z] = s.fds[p][z]
    BY <1>5, <2>1 DEF Connects
  <2>3. On(u, p, z, "PIPEREAD", m.pipes[1])
    <3>1. PICK j : j = z /\ j \in Slots /\ u.fds[p][j] = s.fds[p][z]
      BY <1>5, <2>2
    <3>2. On(u, p, j, "PIPEREAD", m.pipes[1])
      BY <1>8, <3>1, WireKept
    <3>. QED BY <3>1, <3>2
  <2>. QED BY <1>5, <2>3
<1>12. m.index # 0
  OBVIOUS
<1>. QED BY <1>3, <1>9, <1>10, <1>11, <1>12 DEF Plumbed, Input, Before, Later, WithPipes, OnPipes

(* The same of its output. *)
LEMMA OutputWired ==
  ASSUME NEW s, KernelOK(s), NEW u, NEW L, NEW p \in Procs, CallOK(s, u, p, L),
         NEW m, Piped(m), m.index \in 0 .. PipesCount(m), m.index # PipesCount(m),
         NEW i, i = 2 * m.index + 2, NEW fd, fd = 1,
         Plumbed("stdout", m, s, p), Connects(s, u, p, m, i, fd)
  PROVE Plumbed("close", m, u, p)
<1>1. SUFFICES ASSUME ShortLines PROVE Plumbed("close", m, u, p)
  BY DEF Plumbed
<1>2. PICK n : n = PipesCount(m) /\ n \in {0, 1} /\ Len(m.pipes) = n
  BY <1>1, OnePipe
<1>3. m.index = 0 /\ Len(m.pipes) = 1 /\ m.index + 1 = 1 /\ m.index # Len(m.pipes)
  BY <1>2
<1>4. Std(s, p, 0) /\ On(s, p, m.pipesfd[2], "PIPEWRITE", m.pipes[1])
  BY <1>1, <1>3 DEF Plumbed, OnPipes, WithPipes, Input
<1>5. PICK z : z = m.pipesfd[2] /\ z = m.pipesfd[i] /\ z \in Slots
  <2>1. i = 2
    BY <1>3
  <2>. QED BY Zenon, <1>4, <2>1 DEF On
<1>6. 0 \in Slots /\ 1 \in Slots
  BY FilesAssumption DEF Slots
<1>7. u.fds[p][1] = s.fds[p][z] /\ u.fds[p][0] = s.fds[p][0]
  <2>1. s.fds[p][z] # NULL
    BY <1>4, <1>5 DEF On
  <2>. QED BY <1>5, <1>6, <2>1 DEF Connects
<1>8. On(s, p, z, "PIPEWRITE", m.pipes[1])
  BY <1>4, <1>5
<1>9. On(u, p, 1, "PIPEWRITE", m.pipes[1])
  BY <1>6, <1>7, <1>8, WireKept
<1>10. Std(u, p, 0)
  BY <1>4, <1>6, <1>7, WireKept
<1>. QED BY <1>3, <1>9, <1>10 DEF Plumbed, Input, Output, Before, Later, WithPipes

(* With nothing to connect. *)
LEMMA WiredAsIs ==
  ASSUME NEW s, NEW p, NEW m, Piped(m),
         NEW l, NEW l2, Plumbed(l, m, s, p),
         \/ l = "stdin" /\ l2 = "stdout" /\ m.index = 0
         \/ l = "stdout" /\ l2 = "close" /\ m.index = PipesCount(m)
  PROVE Plumbed(l2, m, s, p)
<1>1. SUFFICES ASSUME ShortLines PROVE Plumbed(l2, m, s, p)
  BY DEF Plumbed
<1>2. PICK n : n = PipesCount(m) /\ Len(m.pipes) = n
  BY <1>1, OnePipe
<1>. QED BY Zenon, <1>1, <1>2 DEF Plumbed, Input, Output, Before, Later, WithPipes

(* A slot that is not a standard one is closed. *)
LEMMA ClosedElsewhere ==
  ASSUME NEW s, KernelOK(s), NEW u, NEW L, NEW p \in Procs, CallOK(s, u, p, L),
         NEW y, y \in Nat, y >= 3, \A j \in Slots : j # y => u.fds[p][j] = s.fds[p][j]
  PROVE /\ \A m : Input(m, s, p) => Input(m, u, p)
        /\ \A m : Output(m, s, p) => Output(m, u, p)
        /\ (Std(s, p, 0) => Std(u, p, 0)) /\ (Std(s, p, 1) => Std(u, p, 1))
<1>1. 0 \in Slots /\ 1 \in Slots /\ y # 0 /\ y # 1
  BY FilesAssumption DEF Slots
<1>2. u.fds[p][0] = s.fds[p][0] /\ u.fds[p][1] = s.fds[p][1]
  BY <1>1
<1>3. (Std(s, p, 0) => Std(u, p, 0)) /\ (Std(s, p, 1) => Std(u, p, 1))
  BY <1>1, <1>2, WireKept
<1>4. \A type, x : /\ On(s, p, 0, type, x) => On(u, p, 0, type, x)
                   /\ On(s, p, 1, type, x) => On(u, p, 1, type, x)
  BY <1>1, <1>2, WireKept
<1>. QED BY <1>3, <1>4 DEF Input, Output

(* One of these calls, on the way from l to l2. *)
LEMMA CallInLine ==
  ASSUME NEW l, l \in InLine, NEW l2, l2 \in InLine, NEW m, NEW s, NEW u, NEW p,
         Parts(l, m, s, p), ShellFds(l, u, p), Plumbed(l2, m, u, p)
  PROVE Parts(l2, m, u, p) /\ l2 # "none"
<1>1. l \in AfterPipes /\ l2 \in AfterPipes /\ l # "closing" /\ l2 # "closing"
  BY DEF InLine
<1>2. Piped(m) /\ IndexAt(l, m) /\ l \in ShellAt
  BY <1>1, PlaceShell
<1>3. IndexAt(l2, m)
  BY <1>1, <1>2 DEF IndexAt
<1>4. ShellFds(l2, u, p)
  BY <1>2, FdsAt
<1>. QED BY <1>1, <1>2, <1>3, <1>4, ShellPlace

(* What is known of a line on its way. *)
LEMMA InLineIs ==
  ASSUME NEW l, l \in InLine, NEW m, NEW s, NEW p, Parts(l, m, s, p)
  PROVE l \in AfterPipes /\ Piped(m) /\ m.index \in 0 .. PipesCount(m) /\ IsMem(m)
<1>1. l \in AfterPipes /\ l # "closing"
  BY DEF InLine
<1>2. Piped(m) /\ IndexAt(l, m) /\ IsMem(m)
  BY <1>1, PlaceShell
<1>. QED BY <1>1, <1>2 DEF IndexAt

(* The child connects its input. *)
LEMMA ConnectInputKeeps ==
  ASSUME IInv, NEW p \in live, ConnectInput(p)
  PROVE IInv'
<1>1. /\ Sound(k, live) /\ KernelOK(k) /\ live \subseteq Procs /\ p \in Procs
      /\ Parts(pc[p], mem[p], k, p) /\ pc[p] = "stdin"
  BY HereIs DEF ConnectInput
<1>2. PICK s, L, m, l, l2, r : /\ s = k /\ L = live /\ m = mem[p] /\ l = "stdin" /\ l2 = "stdout"
                               /\ r = sys_dup2(k, p, m.pipesfd[2 * m.index - 1], 0)
  OBVIOUS
<1>3. Parts(l, m, s, p) /\ l \in InLine /\ l2 \in InLine
  BY <1>1, <1>2 DEF AfterPipes, InLine
<1>4. l \in AfterPipes /\ Piped(m) /\ m.index \in 0 .. PipesCount(m) /\ IsMem(m)
      /\ Plumbed(l, m, s, p)
  <2>1. l \in AfterPipes /\ Piped(m) /\ m.index \in 0 .. PipesCount(m) /\ IsMem(m)
    BY <1>3, InLineIs
  <2>. QED BY <1>3, <2>1 DEF Parts
<1>5. IF m.index = 0 THEN Go(p, l2, m)
      ELSE IF r.ret = -1 THEN Go(p, "leave", m) ELSE Step(p, r, l2, m)
  BY <1>2 DEF ConnectInput
<1>6. CASE m.index = 0
  <2>1. Plumbed(l2, m, s, p)
    BY <1>2, <1>4, <1>6, WiredAsIs
  <2>2. Parts(l2, m, s, p) /\ l2 # "none"
    BY <1>3, <2>1, LineGoesOn
  <2>. QED BY <1>2, <1>5, <1>6, <2>2, GoKeeps
<1>7. CASE m.index # 0 /\ r.ret = -1
  <2>1. PICK l3 : l3 = "leave" /\ Go(p, l3, m)
    BY <1>5, <1>7
  <2>2. Parts(l3, m, s, p) /\ l3 # "none"
    BY <1>4, <2>1, LeavesAt
  <2>. QED BY <1>2, <2>1, <2>2, GoKeeps
<1>8. CASE m.index # 0 /\ r.ret # -1
  <2>1. Step(p, r, l2, m)
    BY <1>5, <1>8
  <2>2. PICK i, fd : i = 2 * m.index - 1 /\ i \in 1 .. Len(m.pipesfd) /\ fd = 0
    BY <1>4, <1>8, EndNumbers
  <2>3. fd \in {0, 1} /\ r = sys_dup2(s, p, m.pipesfd[i], fd)
    BY <1>2, <2>2
  <2>4. CallOK(s, r.s, p, L) /\ ShellFds(l, r.s, p) /\ Connects(s, r.s, p, m, i, fd)
    BY Zenon, <1>1, <1>2, <1>3, <1>4, <2>2, <2>3, ConnectEnd
  <2>5. PICK u : u = r.s /\ ShellFds(l, u, p) /\ CallOK(s, u, p, L) /\ Connects(s, u, p, m, i, fd)
    BY <2>4
  <2>6. Plumbed(l2, m, u, p)
    BY <1>1, <1>2, <1>4, <1>8, <2>2, <2>5, InputWired
  <2>7. Parts(l2, m, u, p) /\ l2 # "none"
    BY <1>3, <2>5, <2>6, CallInLine
  <2>. QED BY Zenon, <1>2, <2>1, <2>4, <2>5, <2>7, StepKeeps
<1>. QED BY <1>6, <1>7, <1>8

(* The child connects its output. *)
LEMMA ConnectOutputKeeps ==
  ASSUME IInv, NEW p \in live, ConnectOutput(p)
  PROVE IInv'
<1>1. /\ Sound(k, live) /\ KernelOK(k) /\ live \subseteq Procs /\ p \in Procs
      /\ Parts(pc[p], mem[p], k, p) /\ pc[p] = "stdout"
  BY HereIs DEF ConnectOutput
<1>2. PICK s, L, m, l, l2, r : /\ s = k /\ L = live /\ m = mem[p] /\ l = "stdout" /\ l2 = "close"
                               /\ r = sys_dup2(k, p, m.pipesfd[2 * m.index + 2], 1)
  OBVIOUS
<1>3. Parts(l, m, s, p) /\ l \in InLine /\ l2 \in InLine
  BY <1>1, <1>2 DEF AfterPipes, InLine
<1>4. l \in AfterPipes /\ Piped(m) /\ m.index \in 0 .. PipesCount(m) /\ IsMem(m)
      /\ Plumbed(l, m, s, p)
  <2>1. l \in AfterPipes /\ Piped(m) /\ m.index \in 0 .. PipesCount(m) /\ IsMem(m)
    BY <1>3, InLineIs
  <2>. QED BY <1>3, <2>1 DEF Parts
<1>5. IF m.index = PipesCount(m) THEN Go(p, l2, m) ELSE Step(p, r, l2, m)
  BY <1>2 DEF ConnectOutput
<1>6. CASE m.index = PipesCount(m)
  <2>1. Plumbed(l2, m, s, p)
    BY <1>2, <1>4, <1>6, WiredAsIs
  <2>2. Parts(l2, m, s, p) /\ l2 # "none"
    BY <1>3, <2>1, LineGoesOn
  <2>. QED BY <1>2, <1>5, <1>6, <2>2, GoKeeps
<1>7. CASE m.index # PipesCount(m)
  <2>1. Step(p, r, l2, m)
    BY <1>5, <1>7
  <2>2. PICK i, fd : i = 2 * m.index + 2 /\ i \in 1 .. Len(m.pipesfd) /\ fd = 1
    BY <1>4, <1>7, EndNumbers
  <2>3. fd \in {0, 1} /\ r = sys_dup2(s, p, m.pipesfd[i], fd)
    BY <1>2, <2>2
  <2>4. CallOK(s, r.s, p, L) /\ ShellFds(l, r.s, p) /\ Connects(s, r.s, p, m, i, fd)
    BY <1>1, <1>2, <1>3, <1>4, <2>2, <2>3, ConnectEnd
  <2>5. PICK u : u = r.s /\ ShellFds(l, u, p) /\ CallOK(s, u, p, L) /\ Connects(s, u, p, m, i, fd)
    BY <2>4
  <2>6. Plumbed(l2, m, u, p)
    BY <1>1, <1>2, <1>4, <1>7, <2>2, <2>5, OutputWired
  <2>7. Parts(l2, m, u, p) /\ l2 # "none"
    BY <1>3, <2>5, <2>6, CallInLine
  <2>. QED BY Zenon, <1>2, <2>1, <2>4, <2>5, <2>7, StepKeeps
<1>. QED BY <1>6, <1>7

(* The child closes the slot of its input. *)
LEMMA CloseInputKeeps ==
  ASSUME IInv, NEW p \in live, CloseInput(p)
  PROVE IInv'
<1>1. /\ Sound(k, live) /\ KernelOK(k) /\ live \subseteq Procs /\ p \in Procs
      /\ Parts(pc[p], mem[p], k, p) /\ pc[p] = "close"
  BY HereIs DEF CloseInput
<1>2. PICK s, L, m, l, l2, r : /\ s = k /\ L = live /\ m = mem[p] /\ l = "close" /\ l2 = "exec"
                               /\ r = sys_close(k, p, m.pipesfd[2 * m.index - 1])
  OBVIOUS
<1>3. Parts(l, m, s, p) /\ l \in InLine /\ l2 \in InLine
  BY <1>1, <1>2 DEF AfterPipes, InLine
<1>4. l \in AfterPipes /\ Piped(m) /\ m.index \in 0 .. PipesCount(m) /\ IsMem(m)
      /\ Plumbed(l, m, s, p)
  <2>1. l \in AfterPipes /\ Piped(m) /\ m.index \in 0 .. PipesCount(m) /\ IsMem(m)
    BY <1>3, InLineIs
  <2>. QED BY <1>3, <2>1 DEF Parts
<1>5. IF m.index = 0 THEN Go(p, l2, m) ELSE Step(p, r, l2, m)
  BY <1>2 DEF CloseInput
<1>6. CASE m.index = 0
  <2>1. Plumbed(l2, m, s, p)
    BY Zenon, <1>2, <1>3, SameWires DEF Later
  <2>2. Parts(l2, m, s, p) /\ l2 # "none"
    BY <1>3, <2>1, LineGoesOn
  <2>. QED BY <1>2, <1>5, <1>6, <2>2, GoKeeps
<1>7. CASE m.index # 0
  <2>1. Step(p, r, l2, m)
    BY <1>5, <1>7
  <2>2. PICK i : i = 2 * m.index - 1 /\ i \in 1 .. Len(m.pipesfd)
    BY <1>4, <1>7, EndNumbers
  <2>3. r = sys_close(s, p, m.pipesfd[i])
    BY <1>2, <2>2
  <2>4. /\ CallOK(s, r.s, p, L) /\ ShellFds(l, r.s, p)
        /\ \A j \in Slots : j # m.pipesfd[i] => r.s.fds[p][j] = s.fds[p][j]
    <3>1. /\ L \subseteq Procs /\ p \in L /\ Sound(s, L) /\ l \in AfterPipes /\ Parts(l, m, s, p)
          /\ i \in 1 .. Len(m.pipesfd) /\ r = sys_close(s, p, m.pipesfd[i])
      BY <1>1, <1>2, <1>3, <1>4, <2>2, <2>3
    <3>. QED BY ONLY <3>1, CloseEnd
  <2>5. PICK u, y : /\ u = r.s /\ y = m.pipesfd[i] /\ ShellFds(l, u, p) /\ CallOK(s, u, p, L)
                    /\ \A j \in Slots : j # y => u.fds[p][j] = s.fds[p][j]
    BY <2>4
  <2>6. Plumbed(l2, m, u, p)
    <3>1. ShellFds(l, s, p) /\ l \in ShellAt /\ ShellMem(l, m)
      BY <1>3, <1>4, PlaceShell
    <3>2. y \in Nat /\ y >= 3
      BY <2>2, <2>5, <3>1, PipeSlot DEF Slots
    <3>3. (Input(m, s, p) => Input(m, u, p)) /\ (Output(m, s, p) => Output(m, u, p))
      <4>1. /\ KernelOK(s) /\ p \in Procs /\ CallOK(s, u, p, L) /\ y \in Nat /\ y >= 3
            /\ \A j \in Slots : j # y => u.fds[p][j] = s.fds[p][j]
        BY Zenon, <1>1, <1>2, <2>5, <3>2
      <4>. QED BY ONLY <4>1, ClosedElsewhere
    <3>. QED BY <1>2, <1>4, <3>3 DEF Plumbed, Before, WithPipes, Later
  <2>7. Parts(l2, m, u, p) /\ l2 # "none"
    BY <1>3, <2>5, <2>6, CallInLine
  <2>. QED BY Zenon, <1>2, <2>1, <2>4, <2>5, <2>7, StepKeeps
<1>. QED BY <1>6, <1>7

-----------------------------------------------------------------------------
(* execve. *)

(* A program starts: at the place its file is named after, with the         *)
(* arguments of the command.                                                *)
LEMMA ProgramAt ==
  ASSUME NEW m, IsMem(m), m.args \in Seq(PathType), m.out = <<>>, NEW s, NEW p,
         NEW l, l \notin Places, ShortLines => Input(m, s, p) /\ Output(m, s, p)
  PROVE Parts(l, m, s, p) /\ l # "none"
<1>1. l \notin ShellAt /\ l \notin {"readdir", "listed", "cat read", "parse", "pipe", "cd", "none"} \cup AfterPipes
  BY Zenon DEF Places, ShellAt, AfterPipes
<1>2. l \notin AfterPipes \ {"closing"} /\ l # "closing"
  BY Zenon, <1>1 DEF AfterPipes
<1>3. l \notin Before \cup WithPipes \cup {"stdout"}
  BY Zenon DEF Places, ShellAt, Before, WithPipes
<1>4. Plumbed(l, m, s, p)
  BY <1>3 DEF Plumbed
<1>. QED BY Zenon, <1>1, <1>2, <1>4 DEF Parts, ShellFds, ShellMem, Listing

(* A program is not named like a place of the shell. *)
LEMMA ElfName ==
  ASSUME TreeBuilt, NEW dir, NEW path, checkELF(dir, path)
  PROVE Last(FilePath(getFile(dir, path))) \notin Places
<1>1. PICK match : match = {i \in 1 .. Len(archive) : archive[i].name = FilePath(lookUpForFile(dir, path))}
  BY Zenon
<1>2. getFile(dir, path) # NULL /\ archive[getFile(dir, path)].elf
  BY DEF checkELF
<1>3. match # {} /\ getFile(dir, path) = CHOOSE i \in match : \A j \in match : i <= j
  BY Zenon, <1>1, <1>2 DEF getFile
<1>4. match \subseteq Nat
  <2>1. Len(archive) \in Nat
    BY ArchivesAssumption, LenProperties DEF TreeBuilt
  <2>. QED BY <1>1, <2>1
<1>5. PICK x \in match : \A j \in match : x <= j
  BY Zenon, <1>3, <1>4, LeastNatural
<1>6. getFile(dir, path) \in match
  BY <1>3, <1>5
<1>7. PICK f \in 1 .. Len(archive) : f = getFile(dir, path)
  BY <1>1, <1>6
<1>8. f # Root
  <2>1. Len(archive) \in Nat
    BY ArchivesAssumption, LenProperties DEF TreeBuilt
  <2>. QED BY <2>1 DEF Root
<1>9. FilePath(f) = archive[f].name
  BY <1>8 DEF FilePath
<1>. QED BY <1>2, <1>7, <1>9, ShellAssumption DEF TreeBuilt

(* The command of the child. *)
LEMMA CommandIs ==
  ASSUME NEW l, l \in InLine, NEW m, NEW s, NEW p, Parts(l, m, s, p)
  PROVE Command(m).name \in PathType /\ Command(m).args \in Seq(PathType)
<1>1. Piped(m) /\ m.index \in 0 .. PipesCount(m)
  BY InLineIs
<1>2. m.line \in Lines /\ m.line.kind = "run"
  BY <1>1 DEF Piped
<1>3. PICK i \in 0 .. PipesCount(m) : i = m.index
  BY <1>1
<1>4. m.line.cmds[i + 1].name \in PathType /\ m.line.cmds[i + 1].args \in Seq(PathType)
  BY <1>2, LineIs
<1>. QED BY <1>3, <1>4 DEF Command

(* The child is connected. *)
LEMMA LaterIs ==
  ASSUME NEW l, l \in Later, NEW m, NEW s, NEW p, Parts(l, m, s, p)
  PROVE ShortLines => Input(m, s, p) /\ Output(m, s, p)
  BY DEF Parts, Plumbed

(* A program starts. *)
LEMMA ExecveKeeps ==
  ASSUME IInv, NEW p \in live, NEW path, Command(mem[p]).args \in Seq(PathType), Execve(p, path),
         ShortLines => Input(mem[p], k, p) /\ Output(mem[p], k, p)
  PROVE IInv'
<1>1. PICK s, L, pcs, ms : s = k /\ L = live /\ pcs = pc /\ ms = mem
  OBVIOUS
<1>2. /\ TreeBuilt /\ Parents(parentPCB) /\ World(s, L, pcs, ms) /\ p \in L
  BY <1>1 DEF IInv
<1>3. PICK l : l = Last(FilePath(getFile(k.cwd[p], path)))
  OBVIOUS
<1>4. l \notin Places
  BY <1>2, <1>3, ElfName DEF Execve
<1>5. PICK m : m = [Fresh(NULL) EXCEPT !.args = Command(mem[p]).args, !.index = mem[p].index,
                                       !.pipes = mem[p].pipes, !.bg = mem[p].bg]
  OBVIOUS
<1>6. /\ IsMem(m) /\ m.args = Command(mem[p]).args /\ m.out = <<>>
      /\ m.index = mem[p].index /\ m.pipes = mem[p].pipes
  BY Zenon, <1>5 DEF Fresh, IsMem
<1>7. Parts(l, m, s, p) /\ l # "none"
  <2>1. ShortLines => Input(m, s, p) /\ Output(m, s, p)
    BY <1>1, <1>6 DEF Input, Output
  <2>. QED BY <1>4, <1>6, <2>1, ProgramAt
<1>8. PICK up : up = IF mem[p].bg THEN parentPCB[p] ELSE NULL
  OBVIOUS
<1>9. p \in Procs /\ up # p /\ \A x \in Procs : x # NULL
  <2>1. p \in Procs /\ \A x \in Procs : x # NULL
    BY <1>2, FilesAssumption DEF World, NULL
  <2>. QED BY <1>2, <1>8, <2>1 DEF Parents
<1>10. pc' = WokenAt(pcs, p, l, up)
  <2>1. pc' = [x \in Procs |-> CASE x = p -> l
                                 [] x = parentPCB[p] /\ mem[p].bg -> Woken(pc[x])
                                 [] OTHER -> pc[x]]
    BY <1>3 DEF Execve
  <2>2. CASE mem[p].bg
    <3>1. pc' = [x \in Procs |-> CASE x = p -> l [] x = up -> Woken(pc[x]) [] OTHER -> pc[x]]
      BY <1>8, <2>1, <2>2
    <3>. QED BY <1>1, <3>1 DEF WokenAt
  <2>3. CASE ~mem[p].bg
    <3>1. pc' = [x \in Procs |-> CASE x = p -> l [] x = up -> Woken(pc[x]) [] OTHER -> pc[x]]
      BY <1>8, <1>9, <2>1, <2>3
    <3>. QED BY <1>1, <3>1 DEF WokenAt
  <2>. QED BY <2>2, <2>3
<1>11. /\ k' = s /\ live' = L /\ mem' = [ms EXCEPT ![p] = m] /\ UNCHANGED tarfs
       /\ parentPCB' = parentPCB
  BY <1>1, <1>5 DEF Execve, tarfs
<1>12. World(s, L, WokenAt(pcs, p, l, up), [ms EXCEPT ![p] = m])
  BY <1>2, <1>7, <1>9, ExecWorld
<1>13. PICK pcs2, ms2 : /\ pcs2 = WokenAt(pcs, p, l, up) /\ ms2 = [ms EXCEPT ![p] = m]
                        /\ World(s, L, pcs2, ms2)
  BY <1>12
<1>14. World(k, live, pc, mem)'
  BY Zenon, <1>10, <1>11, <1>13, WorldStays
<1>. QED BY <1>2, <1>11, <1>14, TarfsStays DEF IInv, Parents

(* The name as typed, or a child for PATH. *)
LEMMA ExecTypedKeeps ==
  ASSUME IInv, NEW p \in live, ExecTyped(p)
  PROVE IInv'
<1>1. Parts(pc[p], mem[p], k, p) /\ pc[p] = "exec"
  BY Zenon, HereIs DEF ExecTyped
<1>2. PICK s, m, l, l2, l3, path : /\ s = k /\ m = mem[p] /\ l = "exec" /\ l2 = "wait path" /\ l3 = "path"
                                   /\ path = Command(mem[p]).name
  BY Zenon
<1>3. Parts(l, m, s, p) /\ l \in InLine /\ l2 \in InLine /\ l3 \in InLine
  BY Zenon, <1>1, <1>2 DEF AfterPipes, InLine
<1>4. IF checkELF(k.cwd[p], path) THEN Execve(p, path) ELSE Fork(p, l2, l3)
  BY Zenon, <1>2 DEF ExecTyped
<1>5. CASE checkELF(k.cwd[p], path)
  <2>1. Command(mem[p]).args \in Seq(PathType)
    BY Zenon, <1>2, <1>3, CommandIs
  <2>2. ShortLines => Input(m, s, p) /\ Output(m, s, p)
    BY Zenon, <1>2, <1>3, LaterIs DEF Later
  <2>3. ShortLines => Input(mem[p], k, p) /\ Output(mem[p], k, p)
    BY Zenon, <1>2, <2>2
  <2>. QED BY <1>4, <1>5, <2>1, <2>3, ExecveKeeps
<1>6. CASE ~checkELF(k.cwd[p], path)
  <2>0. Plumbed(l2, m, s, p) /\ Plumbed(l3, m, s, p)
    <3>1. l \in Later /\ l2 \in Later /\ l3 \in Later
      BY Zenon, <1>2 DEF Later
    <3>. QED BY <1>3, <3>1, SameWires
  <2>1. Parts(l2, m, s, p) /\ l2 \notin {"none", "readdir", "listed"}
    BY <1>3, <2>0, LineGoesOn
  <2>2. Parts(l3, m, s, p) /\ l3 \notin {"none", "readdir", "listed"}
    BY <1>3, <2>0, LineGoesOn
  <2>. QED BY Zenon, <1>2, <1>4, <1>6, <2>1, <2>2, ForkKeeps
<1>. QED BY <1>5, <1>6

(* The name in /bin. *)
LEMMA ExecPathKeeps ==
  ASSUME IInv, NEW p \in live, ExecPath(p)
  PROVE IInv'
<1>1. Parts(pc[p], mem[p], k, p) /\ pc[p] = "path"
  BY HereIs DEF ExecPath
<1>2. PICK s, m, l, l2, path : /\ s = k /\ m = mem[p] /\ l = "path" /\ l2 = "leave"
                               /\ path = getPathsAppendedWithCommand(Command(mem[p]).name)
  OBVIOUS
<1>3. Parts(l, m, s, p) /\ l \in InLine
  BY <1>1, <1>2 DEF AfterPipes, InLine
<1>4. IF checkELF(k.cwd[p], path) THEN Execve(p, path) ELSE Go(p, l2, m)
  BY <1>2 DEF ExecPath
<1>5. CASE checkELF(k.cwd[p], path)
  <2>1. Command(mem[p]).args \in Seq(PathType)
    BY <1>2, <1>3, CommandIs
  <2>2. ShortLines => Input(m, s, p) /\ Output(m, s, p)
    BY Zenon, <1>2, <1>3, LaterIs DEF Later
  <2>3. ShortLines => Input(mem[p], k, p) /\ Output(mem[p], k, p)
    BY <1>2, <2>2
  <2>. QED BY <1>4, <1>5, <2>1, <2>3, ExecveKeeps
<1>6. CASE ~checkELF(k.cwd[p], path)
  <2>1. IsMem(m)
    BY <1>3, InLineIs
  <2>2. Parts(l2, m, s, p) /\ l2 # "none"
    BY <1>2, <2>1, LeavesAt
  <2>. QED BY <1>2, <1>4, <1>6, <2>2, GoKeeps
<1>. QED BY <1>5, <1>6

-----------------------------------------------------------------------------
(* The commands. *)

(* ls opens the directory it lists.                                        *)
ListPlaces == {"ls", "readdir", "listed", "cat", "cat read"}

(* What a place of a command needs. *)
LEMMA AtCommand ==
  ASSUME NEW l, l \in ListPlaces, NEW m, IsMem(m), m.args \in Seq(PathType), NEW s, NEW p,
         l = "ls" => m.out = <<>>, l = "cat read" => m.fd \in 3 .. NumSlots - 1,
         Listing(l, m, s, p), Plumbed(l, m, s, p)
  PROVE Parts(l, m, s, p) /\ l # "none"
<1>1. l \notin ShellAt /\ l \notin {"parse", "pipe", "cd", "none"} \cup AfterPipes
  BY Zenon DEF ListPlaces, ShellAt, AfterPipes
<1>2. l \notin AfterPipes \ {"closing"} /\ l # "closing"
  BY Zenon, <1>1 DEF AfterPipes
<1>. QED BY Zenon, <1>1, <1>2 DEF Parts, ShellFds, ShellMem

(* And gives. *)
LEMMA CommandAt ==
  ASSUME NEW l, l \in ListPlaces, NEW m, NEW s, NEW p, Parts(l, m, s, p)
  PROVE IsMem(m) /\ m.args \in Seq(PathType) /\ (l = "ls" => m.out = <<>>)
        /\ (l = "cat read" => m.fd \in 3 .. NumSlots - 1) /\ Listing(l, m, s, p) /\ Plumbed(l, m, s, p)
  BY Zenon DEF Parts, ShellMem, ListPlaces

(* A command keeps the wires it started with.                              *)
LEMMA WiresStay ==
  ASSUME NEW s, KernelOK(s), NEW u, NEW L, NEW p \in Procs, CallOK(s, u, p, L),
         \A i \in Slots : s.fds[p][i] = NULL \/ u.fds[p][i] = s.fds[p][i],
         NEW l, l \in ListPlaces, NEW l2, l2 \in ListPlaces,
         NEW m, Plumbed(l, m, s, p), NEW m2, m2.index = m.index, m2.pipes = m.pipes
  PROVE Plumbed(l2, m2, u, p)
<1>1. Plumbed(l, m, u, p)
  BY PlumbedCall
<1>2. Input(m2, u, p) = Input(m, u, p) /\ Output(m2, u, p) = Output(m, u, p)
  BY DEF Input, Output
<1>3. l \in Later /\ l2 \in Later /\ l2 \notin Before \cup WithPipes \cup {"stdout"}
  BY Zenon DEF Later, Before, WithPipes, ListPlaces
<1>. QED BY <1>1, <1>2, <1>3 DEF Plumbed

(* sys_open fills an empty slot. *)
LEMMA OpenedSlots ==
  ASSUME NEW s, KernelOK(s), NEW p \in Procs, NEW r, NEW path, NEW flags, NEW L, Opens(s, r, p, path, flags, L)
  PROVE \A i \in Slots : s.fds[p][i] = NULL \/ r.s.fds[p][i] = s.fds[p][i]
<1>1. s.fds \in [Procs -> [Slots -> Descs \cup {NULL}]]
  BY Zenon, KernelIs
<1>2. CASE r = Fail(s)
  BY <1>2 DEF Fail, Result
<1>3. CASE r # Fail(s)
  <2>1. PICK d : s.fds[p][r.ret] = NULL /\ r.s.fds = [s.fds EXCEPT ![p][r.ret] = d]
    BY Zenon, <1>3 DEF Opens
  <2>2. PICK fds : fds = r.s.fds
    OBVIOUS
  <2>. QED BY <1>1, <2>1, <2>2
<1>. QED BY <1>2, <1>3

(* The first argument, and the rest. *)
LEMMA ArgsAre ==
  ASSUME NEW args \in Seq(PathType), args # <<>>
  PROVE Head(args) \in PathType /\ Tail(args) \in Seq(PathType) /\ args[1] \in PathType
<1>1. PICK S : S = PathType
  OBVIOUS
<1>2. PICK a \in Seq(S) : a = args /\ a # <<>>
  BY <1>1
<1>3. Head(a) \in S /\ Tail(a) \in Seq(S)
  BY <1>2, HeadTailProperties
<1>4. Head(a) = a[1]
  OBVIOUS
<1>. QED BY <1>1, <1>2, <1>3, <1>4

(* ls opens its directory. *)
LEMMA OpenDirKeeps ==
  ASSUME IInv, NEW p \in live, OpenDir(p)
  PROVE IInv'
<1>1. /\ TreeBuilt /\ Sound(k, live) /\ KernelOK(k) /\ Tidy(k) /\ live \subseteq Procs /\ p \in Procs
      /\ Parts(pc[p], mem[p], k, p) /\ pc[p] = "ls"
  BY HereIs DEF OpenDir
<1>2. PICK s, L, m, l : s = k /\ L = live /\ m = mem[p] /\ l = "ls"
  OBVIOUS
<1>3. IsMem(m) /\ m.args \in Seq(PathType) /\ m.out = <<>> /\ Plumbed(l, m, s, p)
  <2>1. Parts(l, m, s, p) /\ l \in ListPlaces
    BY <1>1, <1>2 DEF ListPlaces
  <2>. QED BY Zenon, <1>2, <2>1, CommandAt
<1>4. PICK n \in 0 .. Top : s.cwd[p] = FilePath(n)
  BY <1>1, <1>2 DEF KernelOK
<1>5. PICK path : path = IF m.args = <<>> THEN sys_getcwd(s, p) ELSE m.args[1]
  OBVIOUS
<1>6. path \in PathType /\ Full(s.cwd[p], path) = Asked(m, s, p)
  <2>1. CASE m.args = <<>>
    <3>1. FilePath(n) \in Seq(STRING)
      BY <1>1, TreeIs DEF Names
    <3>2. path = [abs |-> TRUE, names |-> s.cwd[p]]
      BY <1>5, <2>1 DEF sys_getcwd
    <3>. QED BY <1>4, <2>1, <3>1, <3>2 DEF PathType, Full, Asked
  <2>2. CASE m.args # <<>>
    BY <1>3, <1>5, <2>2, ArgsAre DEF Asked
  <2>. QED BY <2>1, <2>2
<1>7. PICK r, flags : r = sys_open(s, p, path, flags) /\ flags = "O_DIRECTORY"
  OBVIOUS
<1>14. Opens(s, r, p, path, flags, L)
  BY <1>1, <1>2, <1>6, <1>7, OpenOK
<1>8. /\ CallOK(s, r.s, p, L) /\ r.s.cwd = s.cwd
      /\ \/ r = Fail(s)
         \/ /\ r.ret \in 3 .. NumSlots - 1 /\ s.fds[p][r.ret] = NULL
            /\ \E d \in Descs \ Held(s), file \in 0 .. Top :
                 /\ file = lookUpForFile(s.cwd[p], path) /\ ~Refused(file, flags)
                 /\ r.s.fds = [s.fds EXCEPT ![p][r.ret] = d]
                 /\ r.s.desc = [s.desc EXCEPT ![d] = NewFd("TARFILE", flags, file, NULL)]
  BY Zenon, <1>14 DEF Opens
<1>9. PICK m2, v : m2 = [m EXCEPT !.fd = v] /\ v = r.ret
  BY Zenon
<1>10. /\ IsMem(m2) /\ m2.args = m.args /\ m2.out = <<>> /\ m2.fd = v
       /\ m2.index = m.index /\ m2.pipes = m.pipes
  BY <1>3, <1>9 DEF IsMem
<1>11. Step(p, r, IF v = -1 THEN "leave" ELSE "readdir", m2)
  BY <1>2, <1>5, <1>7, <1>9 DEF OpenDir
<1>12. CASE r = Fail(s)
  <2>1. v = -1
    BY <1>9, <1>12 DEF Fail, Result
  <2>2. PICK l2, u : l2 = "leave" /\ u = r.s
    OBVIOUS
  <2>3. Step(p, r, l2, m2)
    BY <1>11, <2>1, <2>2
  <2>4. Parts(l2, m2, u, p) /\ l2 # "none"
    BY <1>10, <2>2, LeavesAt
  <2>. QED BY <1>2, <1>8, <2>2, <2>3, <2>4, StepKeeps
<1>13. CASE r # Fail(s)
  <2>1. v \in 3 .. NumSlots - 1 /\ v # -1 /\ v \in Slots
    BY <1>8, <1>9, <1>13, SlotNumbers
  <2>2. PICK d \in Descs \ Held(s), file \in 0 .. Top :
          /\ file = lookUpForFile(s.cwd[p], path) /\ ~Refused(file, flags)
          /\ r.s.fds = [s.fds EXCEPT ![p][v] = d]
          /\ r.s.desc = [s.desc EXCEPT ![d] = NewFd("TARFILE", flags, file, NULL)]
    BY Zenon, <1>8, <1>9, <1>13
  <2>3. PICK u : u = r.s
    OBVIOUS
  <2>4. s.fds \in [Procs -> [Slots -> Descs \cup {NULL}]]
    BY Zenon, <1>1, <1>2, KernelIs
  <2>5. u.fds[p][v] = d
    BY <1>1, <2>1, <2>2, <2>3, <2>4
  <2>6. Mine(u, p, v)
    <3>1. ASSUME NEW q \in Procs, NEW j \in Slots, u.fds[q][j] = d PROVE q = p /\ j = v
      <4>1. CASE q # p \/ j # v
        <5>1. u.fds[q][j] = s.fds[q][j]
          BY <1>1, <2>1, <2>2, <2>3, <2>4, <4>1
        <5>. QED BY <2>2, <3>1, <5>1 DEF Held
      <4>. QED BY <4>1
    <3>. QED BY <2>5, <3>1 DEF Mine
  <2>7. PICK f : f = u.desc[d]
    OBVIOUS
  <2>8. f.fdType = "TARFILE" /\ f.file_ptr = file /\ f.offset = 0
    <3>1. s.desc = [e \in Descs |-> s.desc[e]]
      BY <1>1, <1>2, KernelIs
    <3>2. f = NewFd("TARFILE", flags, file, NULL)
      BY <2>2, <2>3, <2>7, <3>1
    <3>. QED BY <3>2 DEF NewFd
  <2>9. FileType(file) = "dir" /\ FilePath(file) = Asked(m, s, p)
    <3>1. FileType(file) = "dir"
      BY <1>7, <2>2 DEF Refused
    <3>2. Found(Full(FilePath(n), path), file)
      BY <1>1, <1>4, <1>6, <2>2, LookUpFinds
    <3>3. file # NULL
      BY TreeIs, <1>1 DEF NULL
    <3>4. PathOf(archive, file) = Full(FilePath(n), path)
      BY <3>2, <3>3 DEF Found, IsNode
    <3>. QED BY <1>1, <1>4, <1>6, <3>1, <3>4, TreeIs
  <2>10. PICK l2 : l2 = "readdir"
    OBVIOUS
  <2>11. Listing(l2, m2, u, p)
    <3>1. Asked(m2, u, p) = Asked(m, s, p)
      BY <1>8, <1>10, <2>3 DEF Asked
    <3>2. PICK cs : cs = tree.children[file]
      OBVIOUS
    <3>3. Len(cs) \in Nat
      <4>1. Grown(archive, tree, Top) /\ file \in NodesOf(archive)
        BY <1>1, TreeIs
      <4>2. cs \in Seq(1 .. Top)
        BY <3>2, <4>1 DEF Grown
      <4>. QED BY <4>2, LenProperties
    <3>4. PICK o : o = m2.out /\ o = <<>>
      BY <1>10
    <3>5. Len(o) = 0 /\ Len(o) \in 0 .. Len(cs) /\ o = [i \in 1 .. Len(o) |-> FileNameIn(archive, cs[i])]
      BY <3>3, <3>4
    <3>6. d # NULL
      BY NotNull
    <3>. QED BY <1>10, <2>1, <2>5, <2>6, <2>7, <2>8, <2>9, <2>10, <3>1, <3>2, <3>4, <3>5, <3>6 DEF Listing
  <2>14. Plumbed(l2, m2, u, p)
    <3>1. \A i \in Slots : s.fds[p][i] = NULL \/ u.fds[p][i] = s.fds[p][i]
      BY <1>1, <1>2, <1>14, <2>3, OpenedSlots
    <3>2. CallOK(s, u, p, L) /\ l \in ListPlaces /\ l2 \in ListPlaces
      BY <1>2, <1>8, <2>3, <2>10 DEF ListPlaces
    <3>. QED BY <1>1, <1>2, <1>3, <1>10, <3>1, <3>2, WiresStay
  <2>12. Parts(l2, m2, u, p) /\ l2 # "none"
    BY Zenon, <1>3, <1>10, <2>10, <2>11, <2>14, AtCommand DEF ListPlaces
  <2>13. Step(p, r, l2, m2)
    BY <1>11, <2>1, <2>10
  <2>. QED BY <1>2, <1>8, <2>3, <2>12, <2>13, StepKeeps
<1>. QED BY <1>12, <1>13

(* readdir.                                                                *)
LEMMA ReadDirKeeps ==
  ASSUME IInv, NEW p \in live, ReadDir(p)
  PROVE IInv'
<1>1. /\ TreeBuilt /\ Sound(k, live) /\ KernelOK(k) /\ live \subseteq Procs /\ p \in Procs
      /\ Parts(pc[p], mem[p], k, p) /\ pc[p] = "readdir"
  BY HereIs DEF ReadDir
<1>2. PICK s, L, m, l, fd : s = k /\ L = live /\ m = mem[p] /\ l = "readdir" /\ fd = m.fd
  OBVIOUS
<1>3. /\ IsMem(m) /\ m.args \in Seq(PathType) /\ Listing(l, m, s, p)
      /\ Plumbed(l, m, s, p) /\ l \in ListPlaces
  <2>1. Parts(l, m, s, p) /\ l \in ListPlaces
    BY <1>1, <1>2 DEF ListPlaces
  <2>. QED BY Zenon, <2>1, CommandAt
<1>4. PICK d, f, cs, o : d = s.fds[p][fd] /\ f = s.desc[d] /\ cs = tree.children[f.file_ptr] /\ o = m.out
  OBVIOUS
<1>5. /\ fd \in 3 .. NumSlots - 1 /\ d # NULL /\ Mine(s, p, fd)
      /\ f.fdType = "TARFILE" /\ FilePath(f.file_ptr) = Asked(m, s, p) /\ FileType(f.file_ptr) = "dir"
      /\ Len(o) \in 0 .. Len(cs) /\ o = [i \in 1 .. Len(o) |-> FileNameIn(archive, cs[i])]
      /\ f.offset = Len(o)
  BY Zenon, <1>2, <1>3, <1>4 DEF Listing
<1>6. fd \in Slots
  BY Zenon, <1>5, SlotNumbers
<1>7. PICK r : r = sys_getdents(s, p, fd)
  OBVIOUS
<1>8. Reads(s, r, p, L) /\ Dents(s, r, d)
  BY <1>1, <1>2, <1>4, <1>6, <1>7, GetdentsOK
<1>9. CallOK(s, r.s, p, L) /\ r.s.fds = s.fds /\ r.s.cwd = s.cwd
  BY <1>8 DEF Reads
<1>10. IsFd(f) /\ d \in Descs
  <2>1. s.fds \in [Procs -> [Slots -> Descs \cup {NULL}]]
    BY Zenon, <1>1, <1>2, KernelIs
  <2>2. d \in Descs
    <3>1. s.fds[p] \in [Slots -> Descs \cup {NULL}]
      BY <1>1, <2>1
    <3>2. s.fds[p][fd] \in Descs \cup {NULL}
      BY <1>6, <3>1
    <3>. QED BY Zenon, <1>4, <1>5, <3>2
  <2>3. \A q \in Procs, i \in Slots : s.fds[q][i] # NULL => IsFd(s.desc[s.fds[q][i]])
    BY Zenon, <1>1, <1>2, KernelIs
  <2>. QED BY Zenon, <1>1, <1>4, <1>5, <1>6, <2>2, <2>3
<1>11. f.file_ptr # NULL /\ f.file_ptr \in 0 .. Top
  BY <1>5, <1>10 DEF IsFd, NULL
<1>12. PICK c, j \in Nat : c = Len(cs) /\ j = Len(o) /\ j <= c
  <2>1. Grown(archive, tree, Top) /\ f.file_ptr \in NodesOf(archive)
    BY <1>1, <1>11, TreeIs
  <2>2. cs \in Seq(1 .. Top)
    BY <1>4, <1>11, <2>1 DEF Grown
  <2>3. PICK c \in Nat : c = Len(cs)
    BY <2>2, LenProperties
  <2>4. PICK j : j = Len(o)
    BY Zenon
  <2>5. j \in 0 .. c
    BY <1>5, <2>3, <2>4
  <2>6. j \in Nat /\ j <= c
    BY <2>5
  <2>. QED BY Zenon, <2>3, <2>4, <2>6
<1>13. \/ j >= c /\ r.ret = 0 /\ MoveDone(s, r.s, d, 0)
       \/ j < c /\ r.ret = 1 /\ MoveDone(s, r.s, d, j + 1) /\ r.d_name = FileNameIn(archive, cs[j + 1])
  BY Zenon, <1>4, <1>5, <1>8, <1>11, <1>12 DEF Dents
<1>14. PICK u : u = r.s
  OBVIOUS
<1>15. s.desc = [e \in Descs |-> s.desc[e]]
  BY <1>1, <1>2, KernelIs
<1>16. Mine(u, p, fd) /\ u.fds[p][fd] = d
  <2>1. u.fds = s.fds
    BY Zenon, <1>9, <1>14
  <2>2. \A q \in Procs, i \in Slots : s.fds[q][i] = s.fds[p][fd] => q = p /\ i = fd
    BY Zenon, <1>5 DEF Mine
  <2>3. \A q \in Procs, i \in Slots : u.fds[q][i] = u.fds[p][fd] => q = p /\ i = fd
    BY ONLY <2>1, <2>2
  <2>4. u.fds[p][fd] = d
    BY Zenon, <1>4, <2>1
  <2>. QED BY Zenon, <2>3, <2>4 DEF Mine
<1>20. \A l2 \in ListPlaces : Plumbed(l2, m, u, p)
  <2>1. \A i \in Slots : s.fds[p][i] = NULL \/ u.fds[p][i] = s.fds[p][i]
    BY <1>9, <1>14
  <2>2. CallOK(s, u, p, L)
    BY <1>9, <1>14
  <2>. QED BY <1>1, <1>2, <1>3, <2>1, <2>2, WiresStay
<1>17. IF r.ret = 0 THEN Step(p, r, "listed", m)
       ELSE Step(p, r, "readdir", [m EXCEPT !.out = Append(@, r.d_name)])
  BY <1>2, <1>7 DEF ReadDir
<1>18. CASE r.ret = 0
  <2>1. j = c /\ MoveDone(s, u, d, 0)
    BY <1>12, <1>13, <1>14, <1>18
  <2>2. PICK g : g = u.desc[d]
    OBVIOUS
  <2>3. g.fdType = f.fdType /\ g.file_ptr = f.file_ptr
    <3>1. g = [f EXCEPT !.offset = 0]
      BY Zenon, <1>4, <1>10, <1>15, <2>1, <2>2 DEF MoveDone
    <3>. QED BY <1>10, <3>1 DEF IsFd
  <2>4. PICK l2 : l2 = "listed" /\ l2 \in ListPlaces /\ Step(p, r, l2, m)
    BY Zenon, <1>17, <1>18 DEF ListPlaces
  <2>5. Listing(l2, m, u, p)
    <3>1. Asked(m, u, p) = Asked(m, s, p)
      BY <1>9, <1>14 DEF Asked
    <3>2. /\ fd = m.fd /\ fd \in 3 .. NumSlots - 1 /\ u.fds[p][fd] = d /\ d # NULL /\ Mine(u, p, fd)
      BY Zenon, <1>2, <1>5, <1>16
    <3>3. /\ g.fdType = "TARFILE" /\ FilePath(g.file_ptr) = Asked(m, u, p) /\ FileType(g.file_ptr) = "dir"
          /\ cs = tree.children[g.file_ptr]
      BY Zenon, <1>4, <1>5, <2>3, <3>1
    <3>4. /\ o = m.out /\ Len(o) \in 0 .. Len(cs) /\ o = [i \in 1 .. Len(o) |-> FileNameIn(archive, cs[i])]
          /\ Len(o) = Len(cs)
      BY Zenon, <1>4, <1>5, <1>12, <2>1
    <3>. QED BY Zenon, <2>2, <2>4, <3>2, <3>3, <3>4 DEF Listing
  <2>6. Parts(l2, m, u, p) /\ l2 # "none"
    BY Zenon, <1>3, <1>20, <2>4, <2>5, AtCommand
  <2>. QED BY <1>2, <1>9, <1>14, <2>4, <2>6, StepKeeps
<1>19. CASE r.ret # 0
  <2>1. j < c /\ MoveDone(s, u, d, j + 1) /\ r.d_name = FileNameIn(archive, cs[j + 1])
    BY <1>13, <1>14, <1>19
  <2>2. PICK g : g = u.desc[d]
    OBVIOUS
  <2>3. g.fdType = f.fdType /\ g.file_ptr = f.file_ptr /\ g.offset = j + 1
    <3>1. g = [f EXCEPT !.offset = j + 1]
      BY Zenon, <1>4, <1>10, <1>15, <2>1, <2>2 DEF MoveDone
    <3>. QED BY <1>10, <3>1 DEF IsFd
  <2>4. PICK x, m2, z : /\ x = r.d_name /\ m2 = [m EXCEPT !.out = Append(@, r.d_name)]
                        /\ z = Append(o, x)
    BY Zenon
  <2>5. m2 = [line |-> m.line, index |-> m.index, pipesfd |-> m.pipesfd, pipes |-> m.pipes,
              fd |-> m.fd, args |-> m.args, out |-> z, ret |-> m.ret, bg |-> m.bg]
    BY Zenon, <1>3, <1>4, <2>4 DEF IsMem
  <2>6. /\ IsMem(m2) /\ m2.args = m.args /\ m2.fd = fd /\ m2.out = z
        /\ m2.index = m.index /\ m2.pipes = m.pipes
    BY <1>2, <2>5 DEF IsMem
  <2>7. Len(z) = j + 1 /\ z = [i \in 1 .. j + 1 |-> FileNameIn(archive, cs[i])]
    <3>1. Len(o) \in Nat /\ o = [i \in 1 .. Len(o) |-> o[i]] /\ \A i \in 1 .. j : o[i] = FileNameIn(archive, cs[i])
      <4>1. o = [i \in 1 .. j |-> FileNameIn(archive, cs[i])]
        BY <1>5, <1>12
      <4>. QED BY <1>12, <4>1
    <3>2. /\ Len(z) = j + 1 /\ z = [i \in 1 .. j + 1 |-> z[i]] /\ z[j + 1] = x
          /\ \A i \in 1 .. j : z[i] = o[i]
      BY <1>12, <2>4, <3>1, OneMore
    <3>3. \A i \in 1 .. j + 1 : z[i] = FileNameIn(archive, cs[i])
      <4>1. \A i \in 1 .. j + 1 : i = j + 1 \/ i \in 1 .. j
        BY <1>12
      <4>. QED BY Zenon, <2>1, <2>4, <3>1, <3>2, <4>1
    <3>. QED BY <3>2, <3>3
  <2>8. PICK l2 : l2 = "readdir" /\ l2 \in ListPlaces /\ Step(p, r, l2, m2)
    BY Zenon, <1>17, <1>19, <2>4 DEF ListPlaces
  <2>9. Listing(l2, m2, u, p)
    <3>1. Asked(m2, u, p) = Asked(m, s, p)
      BY <1>9, <1>14, <2>6 DEF Asked
    <3>2. /\ Len(m2.out) \in 0 .. Len(cs) /\ g.offset = Len(m2.out)
          /\ m2.out = [i \in 1 .. Len(m2.out) |-> FileNameIn(archive, cs[i])]
      <4>1. j + 1 \in 0 .. c
        BY <1>12, <2>1
      <4>. QED BY <1>12, <2>3, <2>6, <2>7, <4>1
    <3>3. /\ u.fds[p][m2.fd] = d /\ u.desc[u.fds[p][m2.fd]] = g
          /\ tree.children[u.desc[u.fds[p][m2.fd]].file_ptr] = cs
      BY Zenon, <1>4, <1>16, <2>2, <2>3, <2>6
    <3>4. /\ m2.fd \in 3 .. NumSlots - 1 /\ d # NULL /\ Mine(u, p, m2.fd)
          /\ g.fdType = "TARFILE" /\ FilePath(g.file_ptr) = Asked(m2, u, p) /\ FileType(g.file_ptr) = "dir"
      BY <1>5, <1>16, <2>3, <2>6, <3>1
    <3>5. l2 # "listed"
      BY <2>8
    <3>. QED BY <3>2, <3>3, <3>4, <3>5 DEF Listing
  <2>11. Plumbed(l2, m2, u, p)
    <3>1. Plumbed(l2, m, u, p) /\ l2 \in Later /\ l2 \notin Before \cup WithPipes \cup {"stdout"}
      BY <1>20, <2>8 DEF Later, Before, WithPipes
    <3>2. Input(m2, u, p) = Input(m, u, p) /\ Output(m2, u, p) = Output(m, u, p)
      BY <2>6 DEF Input, Output
    <3>. QED BY <3>1, <3>2 DEF Plumbed
  <2>10. Parts(l2, m2, u, p) /\ l2 # "none"
    BY Zenon, <1>3, <2>6, <2>8, <2>9, <2>11, AtCommand
  <2>. QED BY <1>2, <1>9, <1>14, <2>8, <2>10, StepKeeps
<1>. QED BY <1>18, <1>19

(* ls exits. *)
LEMMA ListedKeeps ==
  ASSUME IInv, NEW p \in live, Listed(p)
  PROVE IInv'
<1>1. Parts(pc[p], mem[p], k, p) /\ pc[p] = "listed"
  BY HereIs DEF Listed
<1>2. PICK s, m, l, l2 : s = k /\ m = mem[p] /\ l = "listed" /\ l2 = "leave" /\ Go(p, l2, m)
  BY DEF Listed
<1>3. Parts(l, m, s, p) /\ l \in ListPlaces
  BY <1>1, <1>2 DEF ListPlaces
<1>4. IsMem(m)
  BY Zenon, <1>3, CommandAt
<1>5. Parts(l2, m, s, p) /\ l2 # "none"
  BY <1>2, <1>4, LeavesAt
<1>. QED BY <1>2, <1>5, GoKeeps

(* cat opens its next file. *)
LEMMA CatKeeps ==
  ASSUME IInv, NEW p \in live, Cat(p)
  PROVE IInv'
<1>1. /\ TreeBuilt /\ Sound(k, live) /\ KernelOK(k) /\ Tidy(k) /\ live \subseteq Procs /\ p \in Procs
      /\ Parts(pc[p], mem[p], k, p) /\ pc[p] = "cat"
  BY Zenon, HereIs DEF Cat
<1>2. PICK s, L, m, l : s = k /\ L = live /\ m = mem[p] /\ l = "cat"
  OBVIOUS
<1>3. IsMem(m) /\ m.args \in Seq(PathType) /\ Plumbed(l, m, s, p)
  <2>1. Parts(l, m, s, p) /\ l \in ListPlaces
    BY <1>1, <1>2 DEF ListPlaces
  <2>. QED BY Zenon, <2>1, CommandAt
<1>4. PICK path, flags, r : path = Head(m.args) /\ flags = "O_RDONLY" /\ r = sys_open(s, p, path, flags)
  OBVIOUS
<1>5. IF m.args = <<>> THEN Go(p, "leave", m)
      ELSE Step(p, r, IF r.ret = -1 THEN "cat" ELSE "cat read",
                [m EXCEPT !.fd = r.ret, !.args = Tail(@)])
  BY Zenon, <1>2, <1>4 DEF Cat
<1>6. CASE m.args = <<>>
  <2>1. PICK l2 : l2 = "leave" /\ Go(p, l2, m)
    BY <1>5, <1>6
  <2>2. Parts(l2, m, s, p) /\ l2 # "none"
    BY <1>3, <2>1, LeavesAt
  <2>. QED BY <1>2, <2>1, <2>2, GoKeeps
<1>7. CASE m.args # <<>>
  <2>1. path \in PathType /\ Tail(m.args) \in Seq(PathType)
    BY <1>3, <1>4, <1>7, ArgsAre
  <2>2. Opens(s, r, p, path, flags, L)
    BY <1>1, <1>2, <1>4, <2>1, OpenOK
  <2>3. CallOK(s, r.s, p, L) /\ (r.ret = -1 \/ r.ret \in 3 .. NumSlots - 1)
    BY <2>2 DEF Opens, Fail, Result
  <2>4. PICK v, args, m2, u : /\ v = r.ret /\ args = Tail(m.args) /\ u = r.s
                              /\ m2 = [m EXCEPT !.fd = v, !.args = args]
    BY Zenon
  <2>5. m2 = [line |-> m.line, index |-> m.index, pipesfd |-> m.pipesfd, pipes |-> m.pipes,
              fd |-> v, args |-> args, out |-> m.out, ret |-> m.ret, bg |-> m.bg]
    BY Zenon, <1>3, <2>4 DEF IsMem
  <2>6. IsMem(m2) /\ m2.args \in Seq(PathType) /\ m2.fd = v /\ m2.index = m.index /\ m2.pipes = m.pipes
    BY Zenon, <2>1, <2>4, <2>5 DEF IsMem
  <2>7. PICK l2 : l2 = (IF v = -1 THEN "cat" ELSE "cat read") /\ Step(p, r, l2, m2)
    BY Zenon, <1>5, <1>7, <2>4
  <2>8. /\ l2 \in ListPlaces /\ l2 # "ls" /\ Listing(l2, m2, u, p)
        /\ (l2 = "cat read" => m2.fd \in 3 .. NumSlots - 1)
    BY Zenon, <2>3, <2>4, <2>6, <2>7 DEF ListPlaces, Listing
  <2>10. Plumbed(l2, m2, u, p)
    <3>1. \A i \in Slots : s.fds[p][i] = NULL \/ u.fds[p][i] = s.fds[p][i]
      BY <1>1, <1>2, <2>2, <2>4, OpenedSlots
    <3>2. CallOK(s, u, p, L) /\ l \in ListPlaces
      BY <1>2, <2>3, <2>4 DEF ListPlaces
    <3>. QED BY Zenon, <1>1, <1>2, <1>3, <2>6, <2>8, <3>1, <3>2, WiresStay
  <2>9. Parts(l2, m2, u, p) /\ l2 # "none"
    BY Zenon, <2>6, <2>8, <2>10, AtCommand
  <2>. QED BY Zenon, <1>2, <2>3, <2>4, <2>7, <2>9, StepKeeps
<1>. QED BY <1>6, <1>7

(* cat reads it. *)
LEMMA CatReadKeeps ==
  ASSUME IInv, NEW p \in live, CatRead(p)
  PROVE IInv'
<1>1. /\ TreeBuilt /\ Sound(k, live) /\ KernelOK(k) /\ live \subseteq Procs /\ p \in Procs
      /\ Parts(pc[p], mem[p], k, p) /\ pc[p] = "cat read"
  BY Zenon, HereIs DEF CatRead
<1>2. PICK s, L, m, l, l2, fd, r :
        /\ s = k /\ L = live /\ m = mem[p] /\ l = "cat read" /\ l2 = "cat" /\ fd = m.fd
        /\ r = sys_read(s, p, fd, CatSize)
  BY Zenon
<1>3. Step(p, r, l2, m)
  BY Zenon, <1>2 DEF CatRead
<1>4. IsMem(m) /\ m.args \in Seq(PathType) /\ fd \in 3 .. NumSlots - 1 /\ Plumbed(l, m, s, p)
  <2>1. Parts(l, m, s, p) /\ l \in ListPlaces
    BY Zenon, <1>1, <1>2 DEF ListPlaces
  <2>. QED BY Zenon, <1>2, <2>1, CommandAt
<1>5. fd \in Slots /\ CatSize \in Nat
  BY <1>4, SlotNumbers, ShellAssumption
<1>6. Reads(s, r, p, L)
  BY Zenon, <1>1, <1>2, <1>5, ReadOK
<1>7. CallOK(s, r.s, p, L) /\ r.s.fds = s.fds
  BY <1>6 DEF Reads
<1>8. PICK u : u = r.s
  OBVIOUS
<1>9. l2 \in ListPlaces /\ l2 # "ls" /\ l2 # "cat read" /\ Listing(l2, m, u, p)
  BY Zenon, <1>2 DEF ListPlaces, Listing
<1>11. Plumbed(l2, m, u, p)
  <2>1. \A i \in Slots : s.fds[p][i] = NULL \/ u.fds[p][i] = s.fds[p][i]
    BY <1>7, <1>8
  <2>2. CallOK(s, u, p, L) /\ l \in ListPlaces
    BY Zenon, <1>2, <1>7, <1>8 DEF ListPlaces
  <2>. QED BY Zenon, <1>1, <1>2, <1>4, <1>9, <2>1, <2>2, WiresStay
<1>10. Parts(l2, m, u, p) /\ l2 # "none"
  BY Zenon, <1>4, <1>9, <1>11, AtCommand
<1>. QED BY Zenon, <1>2, <1>3, <1>7, <1>8, <1>10, StepKeeps

(* Any program. *)
LEMMA ToolKeeps ==
  ASSUME IInv, NEW p \in live, Tool(p)
  PROVE IInv'
<1>1. /\ TreeBuilt /\ Sound(k, live) /\ Tidy(k) /\ live \subseteq Procs /\ p \in Procs
      /\ Parts(pc[p], mem[p], k, p) /\ pc[p] = "tool"
  BY HereIs DEF Tool
<1>2. PICK s, L, m, l : s = k /\ L = live /\ m = mem[p] /\ l = "tool"
  OBVIOUS
<1>3. IsMem(m)
  BY <1>1, <1>2 DEF Parts, ShellMem
<1>4. l \notin Places \ {"leave"} /\ l \notin {"ls", "cat"} /\ l \notin {"none", "readdir", "listed"}
  BY <1>2 DEF Places, ShellAt
<1>5. \A u : Parts(l, m, u, p)
  BY <1>3, <1>4, AnyPlace
<1>6. ASSUME NEW r, CallOK(s, r.s, p, L), Step(p, r, l, m) PROVE IInv'
  <2>1. PICK u : u = r.s
    OBVIOUS
  <2>2. Parts(l, m, u, p)
    BY <1>5
  <2>. QED BY <1>2, <1>4, <1>6, <2>1, <2>2, StepKeeps
<1>7. CASE \E path \in ToolPaths : Step(p, sys_open(k, p, path, "O_RDONLY"), "tool", mem[p])
  <2>1. PICK path \in ToolPaths : Step(p, sys_open(k, p, path, "O_RDONLY"), "tool", mem[p])
    BY <1>7
  <2>2. PICK flags, r : flags = "O_RDONLY" /\ r = sys_open(s, p, path, flags)
    OBVIOUS
  <2>3. Step(p, r, l, m)
    BY <1>2, <2>1, <2>2
  <2>4. path \in PathType
    BY ShellAssumption
  <2>5. Opens(s, r, p, path, flags, L)
    BY <1>1, <1>2, <2>2, <2>4, OpenOK
  <2>6. CallOK(s, r.s, p, L)
    BY <2>5 DEF Opens
  <2>. QED BY <1>6, <2>3, <2>6
<1>8. CASE \E fd \in OpenFiles(p) : \E n \in Counts : Step(p, sys_read(k, p, fd, n), "tool", mem[p])
  <2>1. PICK fd \in OpenFiles(p) : \E n \in Counts : Step(p, sys_read(k, p, fd, n), "tool", mem[p])
    BY <1>8
  <2>2. PICK n \in Counts : Step(p, sys_read(k, p, fd, n), "tool", mem[p])
    BY <2>1
  <2>3. PICK r : r = sys_read(s, p, fd, n) /\ Step(p, r, l, m)
    BY <1>2, <2>2
  <2>4. fd \in Slots /\ n \in Nat
    BY ShellAssumption DEF OpenFiles
  <2>5. Reads(s, r, p, L)
    BY <1>1, <1>2, <2>3, <2>4, ReadOK
  <2>6. CallOK(s, r.s, p, L)
    BY <2>5 DEF Reads
  <2>. QED BY <1>6, <2>3, <2>6
<1>9. CASE \E fd \in OpenFiles(p) : \E n \in Offsets, whence \in {"SEEK_SET", "SEEK_CUR", "SEEK_END"} :
             Step(p, sys_lseek(k, p, fd, n, whence), "tool", mem[p])
  <2>1. PICK fd \in OpenFiles(p) : \E n \in Offsets, whence \in {"SEEK_SET", "SEEK_CUR", "SEEK_END"} :
             Step(p, sys_lseek(k, p, fd, n, whence), "tool", mem[p])
    BY <1>9
  <2>2. PICK n \in Offsets, whence \in {"SEEK_SET", "SEEK_CUR", "SEEK_END"} :
             Step(p, sys_lseek(k, p, fd, n, whence), "tool", mem[p])
    BY <2>1
  <2>3. PICK r : r = sys_lseek(s, p, fd, n, whence) /\ Step(p, r, l, m)
    BY <1>2, <2>2
  <2>4. fd \in Slots /\ n \in Int
    BY ShellAssumption DEF OpenFiles
  <2>5. Reads(s, r, p, L)
    BY <1>1, <1>2, <2>3, <2>4, LseekOK
  <2>6. CallOK(s, r.s, p, L)
    BY <2>5 DEF Reads
  <2>. QED BY <1>6, <2>3, <2>6
<1>10. CASE \E fd \in OpenFiles(p) : /\ k.desc[k.fds[p][fd]].refCount = 1
                                     /\ Step(p, sys_close(k, p, fd), "tool", mem[p])
  <2>1. PICK fd \in OpenFiles(p) : /\ k.desc[k.fds[p][fd]].refCount = 1
                                   /\ Step(p, sys_close(k, p, fd), "tool", mem[p])
    BY <1>10
  <2>2. PICK r : r = sys_close(s, p, fd) /\ Step(p, r, l, m)
    BY <1>2, <2>1
  <2>3. fd \in Slots /\ s.desc[s.fds[p][fd]].refCount = 1
    BY <1>2, <2>1 DEF OpenFiles
  <2>4. Closes(s, r, p, fd, L)
    BY <1>1, <1>2, <2>2, <2>3, CloseOK
  <2>5. CallOK(s, r.s, p, L)
    BY <2>4 DEF Closes
  <2>. QED BY <1>6, <2>2, <2>5
<1>11. CASE Fork(p, "tool", "tool")
  <2>1. Fork(p, l, l)
    BY <1>2, <1>11
  <2>2. Parts(l, m, s, p)
    BY <1>5
  <2>. QED BY <1>2, <1>4, <2>1, <2>2, ForkKeeps
<1>12. CASE Waitpid(p, "tool", "leave")
  <2>1. PICK l2 : l2 \in {"tool", "leave"} /\ Go(p, l2, m)
    BY <1>2, <1>12 DEF Waitpid
  <2>2. Parts(l2, m, s, p) /\ l2 # "none"
    <3>1. CASE l2 = "tool"
      BY <1>2, <1>4, <1>5, <3>1
    <3>2. CASE l2 = "leave"
      BY <1>3, <3>2, LeavesAt
    <3>. QED BY <2>1, <3>1, <3>2
  <2>. QED BY <1>2, <2>1, <2>2, GoKeeps
<1>. QED BY <1>7, <1>8, <1>9, <1>10, <1>11, <1>12 DEF Tool

(* Nothing happens. *)
LEMMA StutterKeeps ==
  ASSUME IInv, UNCHANGED vars
  PROVE IInv'
<1>1. PICK s, L, pcs, ms : s = k /\ L = live /\ pcs = pc /\ ms = mem
  OBVIOUS
<1>2. TreeBuilt /\ Parents(parentPCB) /\ World(s, L, pcs, ms)
  BY <1>1 DEF IInv
<1>3. /\ k' = s /\ live' = L /\ pc' = pcs /\ mem' = ms /\ UNCHANGED tarfs /\ parentPCB' = parentPCB
  BY <1>1 DEF vars, tarfs
<1>4. World(k, live, pc, mem)'
  BY <1>2, <1>3, WorldStays
<1>. QED BY <1>2, <1>3, <1>4, TarfsStays DEF IInv, Parents

(* The invariant is inductive. *)
LEMMA NextKeeps ==
  ASSUME IInv, [Next]_vars
  PROVE IInv'
<1>1. CASE UNCHANGED vars
  BY <1>1, StutterKeeps
<1>2. CASE Next
  <2>1. PICK p \in live :
    \/ ReadLine(p) \/ Parse(p) \/ ChangeDirectory(p) \/ MakePipes(p) \/ ForkCommand(p) \/ Wait(p)
    \/ NextCommand(p) \/ ClosePipes(p)
    \/ ConnectInput(p) \/ ConnectOutput(p) \/ CloseInput(p) \/ ExecTyped(p) \/ ExecPath(p)
    \/ WaitPath(p)
    \/ OpenDir(p) \/ ReadDir(p) \/ Listed(p) \/ Cat(p) \/ CatRead(p) \/ Tool(p)
    \/ Exit(p) \/ FaultKilled(p)
    BY <1>2 DEF Next
  <2>2. CASE ReadLine(p) BY <2>2, ReadLineKeeps
  <2>3. CASE Parse(p) BY <2>3, ParseKeeps
  <2>4. CASE ChangeDirectory(p) BY <2>4, ChdirKeeps
  <2>5. CASE MakePipes(p) BY <2>5, MakePipesKeeps
  <2>6. CASE ForkCommand(p) BY <2>6, ForkCommandKeeps
  <2>7. CASE Wait(p) BY <2>7, WaitKeeps
  <2>8. CASE NextCommand(p) BY <2>8, NextCommandKeeps
  <2>9. CASE ClosePipes(p) BY <2>9, ClosePipesKeeps
  <2>10. CASE ConnectInput(p) BY <2>10, ConnectInputKeeps
  <2>11. CASE ConnectOutput(p) BY <2>11, ConnectOutputKeeps
  <2>12. CASE CloseInput(p) BY <2>12, CloseInputKeeps
  <2>13. CASE ExecTyped(p) BY <2>13, ExecTypedKeeps
  <2>14. CASE ExecPath(p) BY <2>14, ExecPathKeeps
  <2>15. CASE WaitPath(p) BY <2>15, WaitPathKeeps
  <2>16. CASE OpenDir(p) BY <2>16, OpenDirKeeps
  <2>17. CASE ReadDir(p) BY <2>17, ReadDirKeeps
  <2>18. CASE Listed(p) BY <2>18, ListedKeeps
  <2>19. CASE Cat(p) BY <2>19, CatKeeps
  <2>20. CASE CatRead(p) BY <2>20, CatReadKeeps
  <2>21. CASE Tool(p) BY <2>21, ToolKeeps
  <2>22. CASE Exit(p) BY <2>22, LeaveKeeps DEF Exit
  <2>23. CASE FaultKilled(p) BY <2>23, LeaveKeeps DEF FaultKilled
  <2>. QED BY <2>1, <2>2, <2>3, <2>4, <2>5, <2>6, <2>7, <2>8, <2>9, <2>10, <2>11, <2>12, <2>13, <2>14,
              <2>15, <2>16, <2>17, <2>18, <2>19, <2>20, <2>21, <2>22, <2>23
<1>. QED BY <1>1, <1>2

-----------------------------------------------------------------------------
(* The theorems. *)

(* The system has booted, and the shell is the one process.                *)
LEMMA InitHolds ==
  ASSUME Init
  PROVE IInv
<1>1. PICK first : first = Min(Procs)
  OBVIOUS
<1>2. first \in Procs /\ \A p \in Procs : p # NULL
  <2>1. PICK x \in Procs : \A y \in Procs : x <= y
    BY Zenon, FilesAssumption, LeastNatural
  <2>2. first \in Procs
    BY <1>1, <2>1 DEF Min
  <2>. QED BY <2>2, FilesAssumption DEF NULL
<1>3. /\ TreeBuilt /\ live = {first}
      /\ k = [fds   |-> [p \in Procs |-> IF p = first THEN StdFds ELSE [i \in Slots |-> NULL]],
              desc  |-> [d \in Descs |-> IF \E i \in Slots : StdFds[i] = d
                                         THEN NewFd("STDFILETYPE", 0, NULL, NULL) ELSE Unused],
              pipes |-> [x \in Pipes |-> OpenPipe],
              cwd   |-> [p \in Procs |-> <<>>]]
      /\ pc = [p \in Procs |-> IF p = first THEN "prompt" ELSE "none"]
      /\ mem = [p \in Procs |-> IF p = first THEN Fresh(NULL) ELSE NULL]
      /\ parentPCB = [p \in Procs |-> NULL]
  BY <1>1 DEF Init, Boot, TreeBuilt, FilesInit
<1>4. PICK s, L : s = k /\ L = live
  OBVIOUS
<1>5. PICK f : f = NewFd("STDFILETYPE", 0, NULL, NULL)
  OBVIOUS
<1>6. /\ IsFd(f) /\ f # Unused /\ f.fdType = "STDFILETYPE" /\ f.refCount = 1
  <2>1. f.fdType = "STDFILETYPE" /\ f.refCount = 1 /\ f.offset = 0 /\ f.file_ptr = NULL
    BY <1>5 DEF NewFd
  <2>2. 1 \in 0 .. W64 - 1 /\ 0 \in 0 .. W64 - 1
    BY Wide
  <2>. QED BY <1>5, <2>1, <2>2 DEF NewFd, IsFd, Unused
<1>7. 3 \in Descs /\ 2 \in Descs /\ 1 \in Descs /\ 0 \in Slots /\ 1 \in Slots /\ 2 \in Slots
  <2>1. 3 <= NumDescs
    <3>1. PICK c \in Nat : c = Cardinality(Procs) /\ c # 0
      BY RoomIs, FS_CardinalityType, FS_EmptySet, FilesAssumption
    <3>2. NumSlots \in Nat /\ NumSlots >= 5 /\ NumDescs >= NumSlots * c + 2 /\ NumDescs \in Nat
      BY <3>1, FilesAssumption
    <3>3. NumSlots * c >= NumSlots /\ NumSlots * c \in Nat
      <4>1. \A a, b \in Nat : b # 0 => a * b >= a /\ a * b \in Nat
        OBVIOUS
      <4>. QED BY <3>1, <3>2, <4>1
    <3>4. \A a \in Nat : a = NumSlots * c /\ a >= NumSlots => NumDescs >= 3
      BY <3>2
    <3>. QED BY <3>3, <3>4
  <2>. QED BY <2>1, FilesAssumption DEF Descs, Slots
<1>8. /\ \A i \in Slots : StdFds[i] = IF i <= 2 THEN i + 1 ELSE NULL
      /\ StdFds \in [Slots -> Descs \cup {NULL}]
  <2>1. \A i \in Slots : i <= 2 => i + 1 \in Descs
    <3>1. \A i \in Slots : i <= 2 => i = 0 \/ i = 1 \/ i = 2
      BY FilesAssumption DEF Slots
    <3>. QED BY <1>7, <3>1
  <2>. QED BY <2>1 DEF StdFds
<1>9. /\ s.fds = [p \in Procs |-> IF p = first THEN StdFds ELSE [i \in Slots |-> NULL]]
      /\ s.desc = [d \in Descs |-> IF \E i \in Slots : StdFds[i] = d THEN f ELSE Unused]
      /\ s.cwd = [p \in Procs |-> <<>>] /\ L = {first}
      /\ s = [fds |-> s.fds, desc |-> s.desc, pipes |-> s.pipes, cwd |-> s.cwd]
  BY <1>3, <1>4, <1>5
<1>10. KernelOK(s)
  <2>1. s.fds \in [Procs -> [Slots -> Descs \cup {NULL}]]
    BY <1>8, <1>9
  <2>2. \A p \in Procs, i \in Slots : s.fds[p][i] # NULL => s.desc[s.fds[p][i]] # Unused
    <3>1. ASSUME NEW p \in Procs, NEW i \in Slots, s.fds[p][i] # NULL
          PROVE s.desc[s.fds[p][i]] # Unused
      <4>1. p = first
        BY <1>9, <3>1
      <4>2. s.fds[p][i] = StdFds[i] /\ StdFds[i] \in Descs
        BY <1>8, <1>9, <3>1, <4>1
      <4>. QED BY <1>6, <1>9, <4>2
    <3>. QED BY <3>1
  <2>3. \A p \in Procs : \E n \in 0 .. Top : s.cwd[p] = FilePath(n) /\ Entered(n)
    <3>1. Root \in 0 .. Top /\ Entered(Root) /\ FilePath(Root) = <<>>
      BY <1>3, TreeIs, EnteredRoot DEF Root, FilePath
    <3>. QED BY <1>9, <3>1
  <2>4. \A d \in Descs : s.desc[d] = Unused \/ IsFd(s.desc[d])
    BY <1>6, <1>9
  <2>5. s.desc = [d \in Descs |-> s.desc[d]] /\ s.cwd = [p \in Procs |-> s.cwd[p]]
    BY <1>9
  <2>. QED BY <1>9, <2>1, <2>2, <2>3, <2>4, <2>5 DEF KernelOK
<1>11. Idle(s, L)
  BY <1>9 DEF Idle
<1>12. Counted(s, L)
  <2>1. ASSUME NEW d \in Descs, s.desc[d] # Unused
        PROVE s.desc[d].refCount = Cardinality(Holders(s, L, d))
    <3>1. PICK i \in Slots : StdFds[i] = d
      BY <1>9, <2>1
    <3>2. s.desc[d].refCount = 1
      BY <1>6, <1>9, <3>1
    <3>3. \A j \in Slots : StdFds[j] = d => j = i
      <4>1. d # NULL
        BY NotNull
      <4>. QED BY <1>8, <3>1, <4>1, FilesAssumption DEF Slots
    <3>4. \A x : x \in Holders(s, L, d) <=> x \in {<<first, i>>}
      BY <1>2, <1>9, <3>1, <3>3 DEF Holders
    <3>5. Holders(s, L, d) = {<<first, i>>}
      BY <3>4
    <3>6. PICK x : x = <<first, i>>
      BY Zenon
    <3>7. Cardinality({x}) = 1
      BY Zenon, FS_Singleton
    <3>. QED BY <3>2, <3>5, <3>6, <3>7
  <2>. QED BY <2>1 DEF Counted
<1>13. Tidy(s)
  <2>1. ASSUME NEW d \in Descs, s.desc[d] # Unused PROVE d \in Held(s)
    <3>1. PICK i \in Slots : StdFds[i] = d
      BY <1>9, <2>1
    <3>2. s.fds[first][i] = d
      BY <1>2, <1>9, <3>1
    <3>. QED BY <1>2, <3>2 DEF Held
  <2>. QED BY <2>1 DEF Tidy
<1>14. PICK m, l : m = Fresh(NULL) /\ l = "prompt"
  OBVIOUS
<1>15. Parts(l, m, s, first)
  <2>1. IsMem(m) /\ m.index = 0 /\ m.pipesfd = <<>> /\ m.pipes = <<>>
    BY <1>14 DEF Fresh, IsMem
  <2>2. ShellFds("prompt", s, first)
    <3>1. ASSUME NEW i \in Slots, s.fds[first][i] # NULL
          PROVE i <= 2 /\ s.desc[s.fds[first][i]].fdType = "STDFILETYPE"
      <4>1. s.fds[first][i] = StdFds[i]
        BY <1>2, <1>9
      <4>2. StdFds[i] \in Descs /\ i <= 2
        BY <1>8, <3>1, <4>1
      <4>. QED BY Zenon, <1>6, <1>9, <4>1, <4>2
    <3>. QED BY <3>1 DEF ShellFds
  <2>3. Standard(s, first)
    <3>1. \A i \in {0, 1} : s.fds[first][i] = i + 1 /\ s.desc[i + 1] = f
      <4>1. StdFds[0] = 1 /\ StdFds[1] = 2
        BY <1>7, <1>8
      <4>2. s.desc[1] = f /\ s.desc[2] = f
        BY <1>7, <1>9, <4>1
      <4>. QED BY <1>2, <1>9, <4>1, <4>2
    <3>2. NULL # 1 /\ NULL # 2
      BY DEF NULL
    <3>. QED BY <1>6, <1>7, <3>1, <3>2 DEF Standard, Std
  <2>. QED BY <1>14, <2>1, <2>2, <2>3, AtPrompt
<1>16. World(k, live, pc, mem)
  <2>1. pc[first] = l /\ mem[first] = m /\ l # "none"
    BY <1>2, <1>3, <1>14
  <2>2. Sound(s, L)
    BY <1>10, <1>11, <1>12 DEF Sound
  <2>3. \A p \in Procs : p \in L <=> pc[p] # "none"
    BY <1>3, <1>9
  <2>4. pc = [p \in Procs |-> pc[p]] /\ mem = [p \in Procs |-> mem[p]]
    BY <1>3
  <2>5. L \subseteq Procs /\ \A p \in L : Parts(pc[p], mem[p], s, p)
    BY <1>2, <1>9, <1>15, <2>1
  <2>. QED BY <1>4, <1>13, <2>2, <2>3, <2>4, <2>5 DEF World
<1>17. Parents(parentPCB)
  BY <1>2, <1>3 DEF Parents
<1>. QED BY <1>3, <1>16, <1>17 DEF IInv

(* In every behaviour of the shell, its commands and the kernel calls they  *)
(* make, the invariant holds (bin/shell, sys/syscall.c, sys/tarfs.c).       *)
THEOREM Invariance == Spec => []IInv
<1>1. Init => IInv
  BY InitHolds
<1>2. IInv /\ [Next]_vars => IInv'
  BY NextKeeps
<1>. QED BY <1>1, <1>2, PTL DEF Spec

(* The variables have their types: no table leads to a freed descriptor, no *)
(* count or offset leaves its 64 bits.                                      *)
THEOREM TypeCorrect == Spec => []TypeOK
<1>1. IInv => TypeOK
  <2> SUFFICES ASSUME IInv PROVE TypeOK
    OBVIOUS
  <2>1. /\ TreeBuilt /\ Parents(parentPCB) /\ live \subseteq Procs /\ KernelOK(k)
        /\ \A p \in Procs : p \in live <=> pc[p] # "none"
    BY DEF IInv, World, Sound
  <2>2. /\ k.fds \in [Procs -> [Slots -> Descs \cup {NULL}]]
        /\ \A d \in Descs : k.desc[d] = Unused \/ IsFd(k.desc[d])
    BY Zenon, <2>1, KernelIs
  <2>3. \A d \in Descs : k.desc[d] # Unused =>
       /\ k.desc[d].fdType \in {"STDFILETYPE", "TARFILE", "PIPEREAD", "PIPEWRITE"}
       /\ k.desc[d].refCount \in 0 .. W64 - 1 /\ k.desc[d].offset \in 0 .. W64 - 1
    BY Zenon, <2>2 DEF IsFd
  <2>4. \A p \in Procs : (p \in live) = (pc[p] # "none")
    BY <2>1
  <2>5. \A p \in Procs : k.fds[p] \in [Slots -> Descs \cup {NULL}] /\ parentPCB[p] \in Procs \cup {NULL}
    BY <2>1, <2>2 DEF Parents
  <2>. QED BY <2>1, <2>3, <2>4, <2>5 DEF TypeOK, TreeBuilt
<1>. QED BY <1>1, Invariance, PTL

(* refCount of a standard descriptor or a file is the number of slots of    *)
(* living processes that lead to it, for any number of processes and slots. *)
THEOREM SharersAlwaysCounted == Spec => []SharersCounted
<1>1. IInv => SharersCounted
  BY DEF IInv, World, Sound, Counted, CountedTypes, Holders, SharersCounted
<1>. QED BY <1>1, Invariance, PTL

(* lookUpForFile and getFile find exactly the files of the archive, from    *)
(* every directory a process is in, for every archive and every path.       *)
THEOREM LookupsAlwaysAgree == Spec => []LookupsAgree
<1>1. IInv => LookupsAgree
  <2> SUFFICES ASSUME IInv, NEW p \in live, NEW path \in Paths
               PROVE  LET full == IF path.abs THEN path.names ELSE k.cwd[p] \o path.names
                          node == lookUpForFile(k.cwd[p], path)
                      IN /\ node = NodeNamed(full)
                         /\ node \notin {NULL, Root} => getFile(k.cwd[p], path) = node
    BY DEF LookupsAgree
  <2>1. TreeBuilt /\ KernelOK(k) /\ p \in Procs
    BY HereIs
  <2>2. PICK n \in 0 .. Top : k.cwd[p] = FilePath(n)
    BY <2>1 DEF KernelOK
  <2>3. PICK q \in PathType : q = path
    BY ShellAssumption
  <2>4. PICK node : node = lookUpForFile(FilePath(n), q)
    OBVIOUS
  <2>5. Found(Full(FilePath(n), q), node)
    BY <2>1, <2>4, LookUpFinds
  <2>6. PICK node2, full : full = Full(FilePath(n), q) /\ node2 = NodeNamed(full)
    OBVIOUS
  <2>7. Found(full, node2)
    BY <2>1, <2>6, NodeNamedIs
  <2>8. node = node2
    BY <2>5, <2>6, <2>7, SameNode
  <2>9. node \notin {NULL, Root} => getFile(FilePath(n), q) = node
    BY <2>1, <2>4, GetFileFinds
  <2>10. full = IF path.abs THEN path.names ELSE k.cwd[p] \o path.names
    BY <2>2, <2>3, <2>6 DEF Full
  <2>. QED BY <2>2, <2>3, <2>4, <2>6, <2>8, <2>9, <2>10
<1>. QED BY <1>1, Invariance, PTL

(* Each command of a line of at most two runs on the right ends of its pipe, *)
(* for any number of lines, jobs in the background and leaked slots before. *)
THEOREM PipelinesAlwaysConnected ==
  ASSUME ShortLines
  PROVE  Spec => []PipelineConnected
<1>1. IInv => PipelineConnected
  <2> SUFFICES ASSUME IInv, NEW p \in live, pc[p] \in {"ls", "readdir", "listed", "cat", "cat read"}
               PROVE  Connected(p)
    BY Zenon DEF PipelineConnected
  <2>1. Parts(pc[p], mem[p], k, p)
    BY Zenon, HereIs
  <2>2. Input(mem[p], k, p) /\ Output(mem[p], k, p)
    BY Zenon, <2>1 DEF Parts, Plumbed, Later
  <2>. QED BY Zenon, <2>2 DEF Input, Output, On, Std, Connected
<1>. QED BY <1>1, Invariance, PTL

(* ls prints each entry of its directory once, in the order of the archive, *)
(* for every archive: what other processes open and read does not disturb it. *)
THEOREM ListingAlwaysExact == Spec => []ListingExact
<1>1. IInv => ListingExact
  <2> SUFFICES ASSUME IInv, NEW p \in live, pc[p] = "listed"
               PROVE  LET m    == mem[p]
                          path == IF m.args = <<>> THEN k.cwd[p]
                                  ELSE IF m.args[1].abs THEN m.args[1].names ELSE k.cwd[p] \o m.args[1].names
                          entries == {n \in DOMAIN Headers(archive) : Front(FilePath(n)) = path}
                      IN /\ Len(m.out) = Cardinality(entries)
                         /\ \A n \in entries : m.out[Cardinality({e \in entries : e <= n})] = Last(FilePath(n))
    BY Zenon DEF ListingExact
  <2>0. PICK path, entries : /\ path = Asked(mem[p], k, p)
                             /\ entries = {n \in DOMAIN Headers(archive) : Front(FilePath(n)) = path}
    BY Zenon
  <2>1. TreeBuilt /\ KernelOK(k) /\ p \in Procs /\ Listing(pc[p], mem[p], k, p)
    BY HereIs DEF Parts
  <2>2. PICK d, x, cs, o : /\ d = k.fds[p][mem[p].fd] /\ x = k.desc[d].file_ptr
                           /\ cs = tree.children[x] /\ o = mem[p].out
    OBVIOUS
  <2>3. /\ mem[p].fd \in 3 .. NumSlots - 1 /\ d # NULL
        /\ k.desc[d].fdType = "TARFILE" /\ FilePath(x) = path /\ Len(o) = Len(cs)
        /\ o = [i \in 1 .. Len(o) |-> FileNameIn(archive, cs[i])]
    BY Zenon, <2>0, <2>1, <2>2 DEF Listing
  <2>4. x \in 0 .. Top
    <3>1. mem[p].fd \in Slots
      BY <2>3, SlotNumbers
    <3>2. k.desc[k.fds[p][mem[p].fd]] # Unused /\ k.fds[p][mem[p].fd] \in Descs
      <4>1. k.fds[p] \in [Slots -> Descs \cup {NULL}]
        BY Zenon, <2>1, KernelIs
      <4>. QED BY Zenon, <2>1, <2>2, <2>3, <3>1, <4>1 DEF KernelOK
    <3>3. IsFd(k.desc[d])
      BY Zenon, <2>1, <2>2, <3>2 DEF KernelOK
    <3>. QED BY Zenon, <2>2, <2>3, <3>3 DEF IsFd
  <2>14. archive \in Archives /\ Top \in Nat
    BY <2>1, TreeIs
  <2>15. PICK a \in Archives : a = archive
    BY <2>14
  <2>16. PICK M \in Nat : M = Top
    BY <2>14
  <2>17. PICK t : t = tree
    OBVIOUS
  <2>5. /\ a = archive /\ M = Top /\ t = tree /\ Grown(a, t, M) /\ x \in NodesOf(a)
        /\ M \in 0 .. Len(a)
    BY <2>1, <2>4, <2>15, <2>16, <2>17, TreeIs
  <2>6. cs \in Seq(1 .. M) /\ Rising(cs)
    BY Zenon, <2>2, <2>5 DEF Grown
  <2>7. DOMAIN Headers(a) = 1 .. M
    BY <2>5, HeadersAre DEF Top
  <2>8. \A n : FilePath(n) = PathOf(a, n)
    BY <2>1, <2>5, TreeIs
  <2>9. \A n : n \in entries <=> \E i \in 1 .. Len(cs) : cs[i] = n
    <3>1. \A n \in 1 .. M : (\E i \in 1 .. Len(cs) : cs[i] = n) <=> Front(PathOf(a, n)) = PathOf(a, x)
      <4>1. cs = t.children[x]
        BY <2>2, <2>5
      <4>2. \A n \in 1 .. M : (\E i \in 1 .. Len(t.children[x]) : t.children[x][i] = n)
                              <=> Front(PathOf(a, n)) = PathOf(a, x)
        BY Zenon, <2>5 DEF Grown
      <4>. QED BY ONLY <4>1, <4>2
    <3>2. \A i \in 1 .. Len(cs) : cs[i] \in 1 .. M
      BY <2>6, ElementOfSeq
    <3>. QED BY Zenon, <2>0, <2>3, <2>5, <2>7, <2>8, <3>1, <3>2
  <2>10. /\ Cardinality(entries) = Len(cs)
         /\ \A q \in 1 .. Len(cs) : Cardinality({e \in entries : e <= cs[q]}) = q
    BY Zenon, <2>6, <2>9, PlaceIs
  <2>11. ASSUME NEW n \in entries PROVE o[Cardinality({e \in entries : e <= n})] = Last(FilePath(n))
    <3>1. PICK q \in 1 .. Len(cs) : cs[q] = n
      BY <2>9
    <3>2. Cardinality({e \in entries : e <= n}) = q
      BY <2>10, <3>1
    <3>3. o[q] = FileNameIn(a, n)
      BY <2>3, <2>5, <3>1
    <3>4. n # Root
      BY <2>0, <2>5, <2>7 DEF Root
    <3>5. FileNameIn(a, n) = Last(FilePath(n))
      BY <2>8, <3>4 DEF FileNameIn, PathOf
    <3>. QED BY <3>2, <3>3, <3>5
  <2>12. path = IF mem[p].args = <<>> THEN k.cwd[p]
                ELSE IF mem[p].args[1].abs THEN mem[p].args[1].names ELSE k.cwd[p] \o mem[p].args[1].names
    BY <2>0 DEF Asked, Full
  <2>13. /\ Len(mem[p].out) = Cardinality(entries)
         /\ \A n \in entries : mem[p].out[Cardinality({e \in entries : e <= n})] = Last(FilePath(n))
    BY Zenon, <2>2, <2>3, <2>10, <2>11
  <2>. QED BY ONLY Zenon, <2>0, <2>12, <2>13
<1>. QED BY <1>1, Invariance, PTL

(* Nobody else moves a process that is at cd. *)
LEMMA OthersLeaveIt ==
  ASSUME IInv, NEW p \in live, NEW q \in live, q # p, pc[p] = "cd",
         \/ \E r, l, m : Step(q, r, l, m)
         \/ \E l, l2 : Fork(q, l, l2)
         \/ Leave(q)
         \/ \E path : Execve(q, path)
  PROVE pc'[p] = "cd"
<1>1. p \in Procs /\ q \in Procs /\ pc = [x \in Procs |-> pc[x]]
  BY DEF IInv, World
<1>2. Woken("cd") = "cd"
  BY DEF Woken
<1>3. CASE \E r, l, m : Step(q, r, l, m)
  BY <1>1, <1>3 DEF Step, Goto
<1>4. CASE \E l, l2 : Fork(q, l, l2)
  <2>1. PICK l, l2 : Fork(q, l, l2)
    BY <1>4
  <2>2. PICK c : c = Min(FreePcbs)
    OBVIOUS
  <2>3. c # p
    <3>1. FreePcbs # {} /\ FreePcbs \subseteq Nat
      BY <2>1, FilesAssumption DEF Fork, FreePcbs
    <3>2. PICK x \in FreePcbs : \A y \in FreePcbs : x <= y
      BY Zenon, <3>1, LeastNatural
    <3>3. c \in FreePcbs
      BY <2>2, <3>2 DEF Min
    <3>. QED BY <3>3 DEF FreePcbs
  <2>4. pc' = [pc EXCEPT ![q] = l, ![c] = l2]
    BY <2>1, <2>2 DEF Fork
  <2>. QED BY <1>1, <2>3, <2>4
<1>5. CASE Leave(q)
  <2>1. pc' = [x \in Procs |-> CASE x = q -> "none" [] x = parentPCB[q] -> Woken(pc[x]) [] OTHER -> pc[x]]
    BY <1>5 DEF Leave
  <2>. QED BY <1>1, <1>2, <2>1
<1>6. CASE \E path : Execve(q, path)
  <2>1. PICK l : pc' = [x \in Procs |-> CASE x = q -> l
                                         [] x = parentPCB[q] /\ mem[q].bg -> Woken(pc[x])
                                         [] OTHER -> pc[x]]
    BY <1>6 DEF Execve
  <2>. QED BY <1>1, <1>2, <2>1
<1>. QED BY <1>3, <1>4, <1>5, <1>6

(* Only the builtin leads from "cd" to the prompt. *)
LEMMA OnlyCd ==
  ASSUME IInv, [Next]_vars, NEW p \in live, pc[p] = "cd", pc'[p] = "prompt"
  PROVE ChangeDirectory(p)
<1>1. pc' # pc
  OBVIOUS
<1>2. Next
  BY <1>1 DEF vars
<1>3. PICK q \in live :
    \/ ReadLine(q) \/ Parse(q) \/ ChangeDirectory(q) \/ MakePipes(q) \/ ForkCommand(q) \/ Wait(q)
    \/ NextCommand(q) \/ ClosePipes(q)
    \/ ConnectInput(q) \/ ConnectOutput(q) \/ CloseInput(q) \/ ExecTyped(q) \/ ExecPath(q)
    \/ WaitPath(q)
    \/ OpenDir(q) \/ ReadDir(q) \/ Listed(q) \/ Cat(q) \/ CatRead(q) \/ Tool(q)
    \/ Exit(q) \/ FaultKilled(q)
  BY <1>2 DEF Next
<1>4. CASE q # p
  <2> DEFINE Steps == \E r, l, m : Step(q, r, l, m)
  <2>1. ASSUME Steps \/ (\E l, l2 : Fork(q, l, l2)) \/ Leave(q) \/ (\E path : Execve(q, path)) PROVE FALSE
    BY <1>4, <2>1, OthersLeaveIt
  <2>2. \A l, m : Go(q, l, m) => Steps
    BY DEF Go
  <2>3. \A r, l, m : Step(q, r, l, m) => Steps
    OBVIOUS
  <2> HIDE DEF Steps
  <2>4. ReadLine(q) => Steps BY <2>2 DEF ReadLine
  <2>5. Parse(q) => Steps BY <2>2 DEF Parse
  <2>6. ChangeDirectory(q) => Steps BY <2>3 DEF ChangeDirectory
  <2>7. MakePipes(q) => Steps BY <2>2, <2>3 DEF MakePipes
  <2>8. ForkCommand(q) => \E l, l2 : Fork(q, l, l2) BY DEF ForkCommand
  <2>9. Wait(q) => Steps BY <2>2 DEF Wait, Waitpid
  <2>10. NextCommand(q) => Steps BY <2>2, <2>3 DEF NextCommand
  <2>11. ClosePipes(q) => Steps BY <2>2, <2>3 DEF ClosePipes
  <2>12. ConnectInput(q) => Steps BY <2>2, <2>3 DEF ConnectInput
  <2>13. ConnectOutput(q) => Steps BY <2>2, <2>3 DEF ConnectOutput
  <2>14. CloseInput(q) => Steps BY <2>2, <2>3 DEF CloseInput
  <2>15. ExecTyped(q) => (\E path : Execve(q, path)) \/ \E l, l2 : Fork(q, l, l2) BY Zenon DEF ExecTyped
  <2>16. ExecPath(q) => Steps \/ \E path : Execve(q, path) BY <2>2 DEF ExecPath
  <2>17. WaitPath(q) => Steps BY Zenon, <2>2 DEF WaitPath, Waitpid
  <2>18. OpenDir(q) => Steps BY <2>3 DEF OpenDir
  <2>19. ReadDir(q) => Steps BY <2>3 DEF ReadDir
  <2>20. Listed(q) => Steps BY <2>2 DEF Listed
  <2>21. Cat(q) => Steps BY Zenon, <2>2, <2>3 DEF Cat
  <2>22. CatRead(q) => Steps BY Zenon, <2>3 DEF CatRead
  <2>23. Tool(q) => Steps \/ \E l, l2 : Fork(q, l, l2) BY <2>2, <2>3 DEF Tool, Waitpid
  <2>24. Exit(q) \/ FaultKilled(q) => Leave(q) BY DEF Exit, FaultKilled
  <2>. QED BY <1>3, <2>1, <2>4, <2>5, <2>6, <2>7, <2>8, <2>9, <2>10, <2>11, <2>12, <2>13, <2>14,
              <2>15, <2>16, <2>17, <2>18, <2>19, <2>20, <2>21, <2>22, <2>23, <2>24
<1>5. CASE q = p
  <2>1. ~FaultKilled(p)
    BY DEF FaultKilled, Touches
  <2>2. ~(\/ ReadLine(p) \/ Parse(p) \/ MakePipes(p) \/ ForkCommand(p) \/ Wait(p)
          \/ NextCommand(p) \/ ClosePipes(p) \/ ConnectInput(p) \/ ConnectOutput(p) \/ CloseInput(p))
    BY DEF ReadLine, Parse, MakePipes, ForkCommand, Wait, NextCommand, ClosePipes, ConnectInput,
           ConnectOutput, CloseInput
  <2>3. ~(\/ ExecTyped(p) \/ ExecPath(p) \/ WaitPath(p) \/ OpenDir(p) \/ ReadDir(p) \/ Listed(p)
          \/ Cat(p) \/ CatRead(p) \/ Tool(p) \/ Exit(p))
    BY DEF ExecTyped, ExecPath, WaitPath, OpenDir, ReadDir, Listed, Cat, CatRead, Tool, Exit
  <2>. QED BY <1>3, <1>5, <2>1, <2>2, <2>3
<1>. QED BY <1>4, <1>5

(* The builtin cd ends in the directory the path names or stays where it    *)
(* was, for every archive and every path.                                   *)
THEOREM ChdirAlwaysResolves == Spec => ChdirResolves
<1> DEFINE Resolved ==
  \A p \in live : pc[p] = "cd" /\ pc'[p] = "prompt" =>
       LET node == Resolve(k.cwd[p], mem[p].line.path)
       IN IF node = NULL THEN mem'[p].ret = -1 /\ k'.cwd[p] = k.cwd[p]
          ELSE mem'[p].ret = 0 /\ k'.cwd[p] = FilePath(node)
<1>1. ASSUME IInv, [Next]_vars PROVE Resolved
  <2> SUFFICES ASSUME NEW p \in live, pc[p] = "cd", pc'[p] = "prompt"
               PROVE  LET node == Resolve(k.cwd[p], mem[p].line.path)
                      IN IF node = NULL THEN mem'[p].ret = -1 /\ k'.cwd[p] = k.cwd[p]
                         ELSE mem'[p].ret = 0 /\ k'.cwd[p] = FilePath(node)
    OBVIOUS
  <2>1. ChangeDirectory(p)
    BY <1>1, OnlyCd
  <2>2. /\ TreeBuilt /\ Sound(k, live) /\ KernelOK(k) /\ live \subseteq Procs /\ p \in Procs
        /\ Parts(pc[p], mem[p], k, p)
    BY <1>1, HereIs
  <2>3. PICK s, L, path, n : s = k /\ L = live /\ path = mem[p].line.path
                             /\ n \in 0 .. Top /\ s.cwd[p] = FilePath(n) /\ Entered(n)
    BY <2>2 DEF KernelOK
  <2>4. path \in PathType
    BY <2>2, <2>3, ShellAssumption DEF Parts, ShellMem
  <2>5. PICK r : r = sys_chdir(s, p, path)
    OBVIOUS
  <2>6. HasCwd(s)
    BY Zenon, <2>2, <2>3, KernelIs
  <2>7. PICK e : e = Resolve(FilePath(n), path) /\ ChdirGoes(s, p, e, r)
    BY <2>2, <2>3, <2>4, <2>5, <2>6, ChdirIs
  <2>8. mem'[p].ret = r.ret /\ k' = Settled(r.s)
    <3>1. Step(p, r, "prompt", [Fresh(NULL) EXCEPT !.ret = r.ret])
      BY <2>1, <2>3, <2>5 DEF ChangeDirectory
    <3>2. mem = [x \in Procs |-> mem[x]]
      BY <1>1 DEF IInv, World
    <3>3. mem'[p] = [Fresh(NULL) EXCEPT !.ret = r.ret]
      BY <2>2, <3>1, <3>2 DEF Step
    <3>. QED BY <3>1, <3>3 DEF Step, Fresh
  <2>9. k'.cwd = r.s.cwd
    BY <2>8 DEF Settled
  <2>10. CASE e = NULL
    <3>1. r.ret = -1 /\ r.s = s
      BY <2>7, <2>10 DEF ChdirGoes, Fail, Result
    <3>. QED BY <2>3, <2>7, <2>8, <2>9, <2>10, <3>1
  <2>11. CASE e # NULL
    <3>1. r.ret = 0 /\ r.s = [s EXCEPT !.cwd[p] = FilePath(e)]
      BY <2>7, <2>11 DEF ChdirGoes, Result
    <3>2. r.s.cwd[p] = FilePath(e)
      BY <2>2, <2>6, <3>1 DEF HasCwd
    <3>. QED BY <2>3, <2>7, <2>8, <2>9, <2>11, <3>1, <3>2
  <2>. QED BY <2>10, <2>11
<1>2. IInv /\ [Next]_vars => [Resolved]_vars
  BY <1>1
<1>. QED BY <1>2, Invariance, PTL DEF Spec, ChdirResolves
=============================================================================
