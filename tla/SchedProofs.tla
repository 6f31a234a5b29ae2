---------------------------- MODULE SchedProofs ----------------------------
(***************************************************************************)
(* Proofs about Sched: the queues stay lists, and the kernel never faults. *)
(*                                                                         *)
(* A queue is a set of PCBs that their positions rank in the order of the  *)
(* links (List).  The walks of the handlers along the links end because a  *)
(* walk climbs in rank and there are NumPcbs PCBs (Climb); what Unlink and *)
(* Append do to a ranked set gives what every handler does to the queues.  *)
(* The recursive functions At and Walk satisfy their equations by          *)
(* induction over a set of numbers (NatSets).                              *)
(*                                                                         *)
(* Two conditions stand for each other.  HeadsTrue says of a state that    *)
(* the head variables name living processes that are not runnable.  The    *)
(* code can break it, and only it: Invariance holds as long as HeadsTrue   *)
(* does, for all programs.  Solitary says of the programs that they never  *)
(* come to that, and SolitaryInvariance holds without a condition on       *)
(* states.                                                                 *)
(*                                                                         *)
(* The last part is about the waiters: why they wait and who wakes them    *)
(* (WaitInvariance).                                                       *)
(***************************************************************************)
EXTENDS Sched, NatSets, FiniteSetTheorems

-----------------------------------------------------------------------------
(* The walk along the next links.                                          *)

(* A function defined by its first value and a step satisfies its equation. *)
LEMMA AtRec ==
  ASSUME NEW s, NEW h
  PROVE At(s, h) = [n \in 0 .. NumPcbs |->
                      IF n = 0 THEN h
                      ELSE IF At(s, h)[n - 1] = NULL THEN NULL ELSE s.next[At(s, h)[n - 1]]]
<1> DEFINE Step(x) == IF x = NULL THEN NULL ELSE s.next[x]
           Is(f, m) == f = [n \in 0 .. m |-> IF n = 0 THEN h ELSE Step(f[n - 1])]
           T == {m \in Nat : \E f : Is(f, m)}
<1>1. 0 \in T
  <2>1. Is([n \in 0 .. 0 |-> h], 0)
    OBVIOUS
  <2>. QED BY <2>1
<1>2. ASSUME NEW m \in Nat, m \in T PROVE m + 1 \in T
  <2>1. PICK f : Is(f, m)
    BY <1>2
  <2> DEFINE g == [n \in 0 .. m + 1 |-> IF n = m + 1 THEN Step(f[m]) ELSE f[n]]
  <2> HIDE DEF Step
  <2>2. \A n \in 0 .. m : g[n] = f[n]
    OBVIOUS
  <2>3. \A n \in 0 .. m : f[n] = IF n = 0 THEN h ELSE Step(f[n - 1])
    BY <2>1
  <2>4. ASSUME NEW n \in 0 .. m + 1
        PROVE g[n] = IF n = 0 THEN h ELSE Step(g[n - 1])
    <3>1. CASE n = m + 1
      <4>1. g[n - 1] = f[m]
        BY <3>1, <2>2
      <4>. QED BY <3>1, <4>1
    <3>2. CASE n # m + 1
      <4>1. n \in 0 .. m /\ (n # 0 => n - 1 \in 0 .. m)
        BY <3>2
      <4>. QED BY <4>1, <2>2, <2>3
    <3>. QED BY <3>1, <3>2
  <2>5. Is(g, m + 1)
    BY <2>4
  <2>6. \E e : Is(e, m + 1)
    <3> HIDE DEF g, Is
    <3>. QED BY <2>5
  <2>. QED BY <2>6
<1>3. \E f : Is(f, NumPcbs)
  <2>1. Nat \subseteq T
    <3> HIDE DEF T
    <3>. QED BY <1>1, <1>2, Induction
  <2>. QED BY <2>1, SchedAssumption
<1>4. At(s, h) = CHOOSE f : Is(f, NumPcbs)
  BY DEF At
<1>5. Is(CHOOSE f : Is(f, NumPcbs), NumPcbs)
  <2> HIDE DEF Is
  <2>. QED BY <1>3
<1>. QED
  BY <1>4, <1>5

(* The walk begins at h, follows the links, and stays at NULL. *)
LEMMA AtFacts ==
  ASSUME NEW s, NEW h
  PROVE /\ At(s, h)[0] = h
        /\ \A n \in 0 .. NumPcbs - 1 :
             At(s, h)[n + 1] = IF At(s, h)[n] = NULL THEN NULL ELSE s.next[At(s, h)[n]]
<1>1. At(s, h)[0] = h
  BY AtRec, SchedAssumption
<1>2. ASSUME NEW n \in 0 .. NumPcbs - 1
      PROVE At(s, h)[n + 1] = IF At(s, h)[n] = NULL THEN NULL ELSE s.next[At(s, h)[n]]
  <2>1. n + 1 \in 0 .. NumPcbs /\ n + 1 # 0 /\ (n + 1) - 1 = n
    BY SchedAssumption
  <2> DEFINE a == At(s, h)
  <2>2. a = [m \in 0 .. NumPcbs |-> IF m = 0 THEN h ELSE IF a[m - 1] = NULL THEN NULL ELSE s.next[a[m - 1]]]
    BY AtRec
  <2> HIDE DEF a
  <2>3. a[n + 1] = IF a[(n + 1) - 1] = NULL THEN NULL ELSE s.next[a[(n + 1) - 1]]
    BY <2>1, <2>2
  <2>. QED BY <2>1, <2>3 DEF a
<1>. QED BY <1>1, <1>2

(* NumPcbs + 1 PCBs cannot rise strictly in any order: two are the same. *)
LEMMA Climb ==
  ASSUME NEW f, NEW pos,
         \A n \in 0 .. NumPcbs : f[n] \in Pcb /\ pos[f[n]] \in Nat,
         \A n \in 0 .. NumPcbs - 1 : pos[f[n]] < pos[f[n + 1]]
  PROVE FALSE
<1> DEFINE T == {n \in Nat : n <= NumPcbs => \A m \in 0 .. n - 1 : pos[f[m]] < pos[f[n]]}
<1>1. 0 \in T
  OBVIOUS
<1>2. ASSUME NEW n \in Nat, n \in T PROVE n + 1 \in T
  <2> SUFFICES ASSUME n + 1 <= NumPcbs, NEW m \in 0 .. n PROVE pos[f[m]] < pos[f[n + 1]]
    OBVIOUS
  <2>1. n \in 0 .. NumPcbs - 1 /\ n \in 0 .. NumPcbs /\ n + 1 \in 0 .. NumPcbs /\ m \in 0 .. NumPcbs
    BY SchedAssumption
  <2>2. pos[f[n]] < pos[f[n + 1]] /\ pos[f[n]] \in Nat /\ pos[f[n + 1]] \in Nat /\ pos[f[m]] \in Nat
    BY <2>1
  <2>3. m = n \/ pos[f[m]] < pos[f[n]]
    BY <1>2, SchedAssumption
  <2>. QED BY <2>2, <2>3
<1>3. Nat \subseteq T
  <2> HIDE DEF T
  <2>. QED BY <1>1, <1>2, Induction
<1> DEFINE g == [n \in 0 .. NumPcbs |-> f[n]]
<1>4. PICK x, y \in 0 .. NumPcbs : x # y /\ g[x] = g[y]
  <2>1. IsFiniteSet(0 .. NumPcbs) /\ Cardinality(0 .. NumPcbs) = NumPcbs + 1
    BY FS_Interval, SchedAssumption
  <2>2. IsFiniteSet(Pcb) /\ Cardinality(Pcb) = NumPcbs
    BY FS_Interval, SchedAssumption DEF Pcb
  <2>3. g \in [0 .. NumPcbs -> Pcb]
    OBVIOUS
  <2>4. Cardinality(Pcb) < Cardinality(0 .. NumPcbs)
    BY <2>1, <2>2, SchedAssumption
  <2> DEFINE D == 0 .. NumPcbs
  <2>5. IsFiniteSet(D) /\ IsFiniteSet(Pcb) /\ Cardinality(Pcb) < Cardinality(D) /\ g \in [D -> Pcb]
    BY <2>1, <2>2, <2>3, <2>4
  <2>6. \E x, y \in D : x # y /\ g[x] = g[y]
    <3> HIDE DEF g, D
    <3>. QED BY <2>5, FS_PigeonHole
  <2>. QED BY <2>6
<1>5. f[x] = f[y]
  BY <1>4
<1>6. x \in T /\ y \in T
  BY <1>3
<1>7. (x < y => pos[f[x]] < pos[f[y]]) /\ (y < x => pos[f[y]] < pos[f[x]])
  BY <1>6, SchedAssumption
<1>8. x < y \/ y < x
  BY <1>4, SchedAssumption
<1>. QED
  BY <1>5, <1>7, <1>8

-----------------------------------------------------------------------------
(* Lists.  X is the set of the nodes of a doubly linked list that starts at *)
(* h; pos ranks the nodes in the order of the list.                         *)
Ranked(nx, pv, h, X, pos) ==
  /\ X \subseteq Pcb
  /\ IF X = {} THEN h = NULL ELSE h \in X
  /\ \A x \in X :
       /\ nx[x] \in X \cup {NULL} /\ pv[x] \in X \cup {NULL}
       /\ nx[x] # NULL => pos[x] < pos[nx[x]] /\ pv[nx[x]] = x
       /\ pv[x] # NULL => nx[pv[x]] = x
       /\ pv[x] = NULL <=> x = h
List(nx, pv, h, X) == \E pos \in [X -> Nat] : Ranked(nx, pv, h, X, pos)

(* The walk from a node of a set that the links do not leave stays in it. *)
LEMMA Closed ==
  ASSUME NEW s, NEW h, NEW X, X \subseteq Pcb, h \in X \cup {NULL},
         \A x \in X : s.next[x] \in X \cup {NULL}
  PROVE /\ \A n \in 0 .. NumPcbs : At(s, h)[n] \in X \cup {NULL}
        /\ Chain(s, h) \subseteq X
<1> DEFINE a == At(s, h)
           T == {n \in Nat : n <= NumPcbs => a[n] \in X \cup {NULL}}
<1>1. /\ a[0] = h
      /\ \A n \in 0 .. NumPcbs - 1 : a[n + 1] = IF a[n] = NULL THEN NULL ELSE s.next[a[n]]
  BY AtFacts
<1> HIDE DEF a
<1>2. 0 \in T
  BY <1>1
<1>3. ASSUME NEW n \in Nat, n \in T PROVE n + 1 \in T
  <2> SUFFICES ASSUME n + 1 <= NumPcbs PROVE a[n + 1] \in X \cup {NULL}
    OBVIOUS
  <2>1. a[n] \in X \cup {NULL}
    BY <1>3, SchedAssumption
  <2>2. a[n + 1] = IF a[n] = NULL THEN NULL ELSE s.next[a[n]]
    BY <1>1, SchedAssumption
  <2>. QED BY <2>1, <2>2
<1>4. Nat \subseteq T
  <2> HIDE DEF T
  <2>. QED BY <1>2, <1>3, Induction
<1>5. \A n \in 0 .. NumPcbs : a[n] \in X \cup {NULL}
  BY <1>4, SchedAssumption
<1>6. Chain(s, h) \subseteq X
  BY <1>5 DEF Chain, a
<1>. QED
  BY <1>5, <1>6 DEF a

(* The walk from any node of a list ends, at a node of the list.           *)
LEMMA Ending ==
  ASSUME NEW s, NEW h, NEW X, NEW g, List(s.next, s.prev, g, X), h \in X \cup {NULL}
  PROVE /\ Ends(s, h)
        /\ h # NULL => Last(s, h) \in X /\ s.next[Last(s, h)] = NULL
<1> DEFINE a == At(s, h)
<1>1. PICK pos \in [X -> Nat] : Ranked(s.next, s.prev, g, X, pos)
  BY DEF List
<1>2. /\ X \subseteq Pcb /\ NULL \notin X
      /\ \A x \in X : s.next[x] \in X \cup {NULL}
      /\ \A x \in X : s.next[x] # NULL => pos[x] < pos[s.next[x]]
  BY <1>1, SchedAssumption DEF Ranked, Pcb, NULL
<1>3. /\ \A n \in 0 .. NumPcbs : a[n] \in X \cup {NULL}
      /\ Chain(s, h) \subseteq X
  BY <1>2, Closed
<1>4. /\ a[0] = h
      /\ \A n \in 0 .. NumPcbs - 1 : a[n + 1] = IF a[n] = NULL THEN NULL ELSE s.next[a[n]]
  BY AtFacts
<1> HIDE DEF a
<1>5. a[NumPcbs] = NULL
  <2> SUFFICES ASSUME a[NumPcbs] # NULL PROVE FALSE
    OBVIOUS
  <2> DEFINE T == {n \in Nat : n <= NumPcbs => a[NumPcbs - n] # NULL}
  <2>1. 0 \in T
    BY SchedAssumption
  <2>2. ASSUME NEW n \in Nat, n \in T PROVE n + 1 \in T
    <3> SUFFICES ASSUME n + 1 <= NumPcbs PROVE a[NumPcbs - (n + 1)] # NULL
      OBVIOUS
    <3>1. NumPcbs - (n + 1) \in 0 .. NumPcbs - 1 /\ (NumPcbs - (n + 1)) + 1 = NumPcbs - n
      BY SchedAssumption
    <3>2. a[NumPcbs - n] # NULL
      BY <2>2, SchedAssumption
    <3>. QED BY <3>1, <3>2, <1>4
  <2>3. Nat \subseteq T
    <3> HIDE DEF T
    <3>. QED BY <2>1, <2>2, Induction
  <2>4. ASSUME NEW n \in 0 .. NumPcbs PROVE a[n] \in X /\ a[n] \in Pcb /\ pos[a[n]] \in Nat
    <3>1. NumPcbs - n \in Nat /\ NumPcbs - n <= NumPcbs /\ NumPcbs - (NumPcbs - n) = n
      BY SchedAssumption
    <3>2. NumPcbs - n \in T
      BY <2>3, <3>1
    <3>3. a[n] # NULL
      BY <3>1, <3>2
    <3>. QED BY <3>3, <1>2, <1>3
  <2>5. ASSUME NEW n \in 0 .. NumPcbs - 1 PROVE pos[a[n]] < pos[a[n + 1]]
    <3>1. n \in 0 .. NumPcbs /\ n + 1 \in 0 .. NumPcbs
      BY SchedAssumption
    <3>2. a[n + 1] = s.next[a[n]] /\ a[n] \in X /\ a[n + 1] \in X
      BY <3>1, <2>4, <1>2, <1>4
    <3>. QED BY <3>2, <1>2
  <2>. QED BY <2>4, <2>5, Climb
<1>6. Ends(s, h)
  BY <1>5 DEF Ends, a
<1>7. ASSUME h # NULL PROVE Last(s, h) \in X /\ s.next[Last(s, h)] = NULL
  <2> DEFINE P(n) == (a[n] # NULL \/ n = 0) /\ (n = NumPcbs \/ a[n + 1] = NULL)
             U == {n \in Nat : n <= NumPcbs /\ a[n] = NULL}
  <2>1. PICK u \in U : \A v \in U : u <= v
    <3>1. U \in SUBSET Nat /\ NumPcbs \in U
      BY <1>5, SchedAssumption
    <3> HIDE DEF U
    <3>. QED BY <3>1, LeastNatural
  <2>2. h \in X
    BY <1>7
  <2>3. u # 0
    BY <2>1, <2>2, <1>2, <1>4
  <2>4. u - 1 \in 0 .. NumPcbs /\ a[u - 1] # NULL /\ a[(u - 1) + 1] = NULL
    BY <2>1, <2>3, SchedAssumption
  <2>5. \E n \in 0 .. NumPcbs : P(n)
    BY <2>4
  <2> DEFINE m == CHOOSE n \in 0 .. NumPcbs : P(n)
  <2>6. Last(s, h) = a[m]
    BY DEF Last, a
  <2>7. m \in 0 .. NumPcbs /\ P(m)
    <3> HIDE DEF P
    <3>. QED BY <2>5
  <2> HIDE DEF m
  <2>8. a[m] # NULL
    BY <2>7, <2>2, <1>2, <1>4
  <2>9. m \in 0 .. NumPcbs - 1 /\ a[m + 1] = NULL
    BY <2>7, <2>8, <1>5, SchedAssumption
  <2>. QED BY <2>6, <2>7, <2>8, <2>9, <1>3, <1>4
<1>. QED
  BY <1>6, <1>7

(* The nodes of a list are the ones the walk from its head reaches. *)
LEMMA Lists ==
  ASSUME NEW s, NEW h, NEW X, List(s.next, s.prev, h, X)
  PROVE /\ Ends(s, h) /\ Chain(s, h) = X
        /\ X # {} => Last(s, h) \in X /\ s.next[Last(s, h)] = NULL
        /\ h # NULL => s.prev[h] = NULL
        /\ \A x \in X : s.next[x] # NULL => s.prev[s.next[x]] = x
<1> DEFINE a == At(s, h)
<1>1. PICK pos \in [X -> Nat] : Ranked(s.next, s.prev, h, X, pos)
  BY DEF List
<1>2. /\ X \subseteq Pcb /\ NULL \notin X
      /\ h \in X \cup {NULL}
      /\ X # {} => h # NULL
      /\ \A x \in X : s.next[x] \in X \cup {NULL}
      /\ \A x \in X : s.next[x] # NULL => pos[x] < pos[s.next[x]]
  <2>1. NULL \notin Pcb
    BY SchedAssumption DEF Pcb, NULL
  <2>2. IF X = {} THEN h = NULL ELSE h \in X
    BY <1>1 DEF Ranked
  <2>. QED BY <1>1, <2>1, <2>2 DEF Ranked
<1>3. /\ \A n \in 0 .. NumPcbs : a[n] \in X \cup {NULL}
      /\ Chain(s, h) \subseteq X
  BY <1>2, Closed
<1>4. /\ a[0] = h
      /\ \A n \in 0 .. NumPcbs - 1 : a[n + 1] = IF a[n] = NULL THEN NULL ELSE s.next[a[n]]
  BY AtFacts
<1> HIDE DEF a
<1>5. /\ Ends(s, h)
      /\ X # {} => Last(s, h) \in X /\ s.next[Last(s, h)] = NULL
  BY <1>2, Ending
<1>6. a[NumPcbs] = NULL
  BY <1>5 DEF Ends, a
<1>7. X \subseteq Chain(s, h)
  <2> DEFINE U == {pos[x] : x \in X \ Chain(s, h)}
  <2> SUFFICES ASSUME U # {} PROVE FALSE
    OBVIOUS
  <2>1. PICK u \in U : \A v \in U : u <= v
    <3>1. U \in SUBSET Nat
      OBVIOUS
    <3> HIDE DEF U
    <3>. QED BY <3>1, LeastNatural
  <2>2. PICK x \in X \ Chain(s, h) : u = pos[x]
    BY <2>1
  <2>3. s.prev[x] \in X
    <3>1. h \in Chain(s, h) \cup {NULL}
      BY <1>4, SchedAssumption DEF Chain, a
    <3>. QED BY <3>1, <1>1, <1>2 DEF Ranked
  <2>4. s.next[s.prev[x]] = x /\ pos[s.prev[x]] < pos[x]
    BY <2>3, <1>1, <1>2 DEF Ranked
  <2>5. s.prev[x] \in Chain(s, h)
    BY <2>1, <2>2, <2>3, <2>4
  <2>6. PICK n \in 0 .. NumPcbs : a[n] = s.prev[x]
    BY <2>5 DEF Chain, a
  <2>7. n \in 0 .. NumPcbs - 1 /\ n + 1 \in 0 .. NumPcbs
    BY <2>6, <2>3, <1>2, <1>6, SchedAssumption
  <2>8. a[n + 1] = x
    BY <2>3, <2>4, <2>6, <2>7, <1>2, <1>4
  <2>9. x \in Chain(s, h)
    BY <2>7, <2>8, <1>2 DEF Chain, a
  <2>. QED BY <2>9
<1>8. /\ h # NULL => s.prev[h] = NULL
      /\ \A x \in X : s.next[x] # NULL => s.prev[s.next[x]] = x
  BY <1>1 DEF Ranked
<1>. QED
  BY <1>3, <1>5, <1>7, <1>8

(* The nodes of a list are what Chain and On are about. *)
LEMMA Reached ==
  ASSUME NEW s, NEW h, NEW X, List(s.next, s.prev, h, X)
  PROVE Chain(s, h) = X
BY Lists

(* A next or prev field, for every PCB. *)
Links == [Pcb -> Pcb \cup {NULL}]

(* The ranks of more nodes than the list has rank the list. *)
LEMMA Narrow ==
  ASSUME NEW nx, NEW pv, NEW h, NEW X, NEW pos,
         Ranked(nx, pv, h, X, pos), \A x \in X : pos[x] \in Nat
  PROVE List(nx, pv, h, X)
<1> DEFINE r == [x \in X |-> pos[x]]
<1>1. r \in [X -> Nat]
  OBVIOUS
<1>2. Ranked(nx, pv, h, X, r)
  BY SchedAssumption DEF Ranked, Pcb, NULL
<1> HIDE DEF r
<1>. QED BY <1>1, <1>2 DEF List

(* Only the links of its nodes make a list. *)
LEMMA RankedFrame ==
  ASSUME NEW nx, NEW pv, NEW h, NEW X, NEW pos, NEW nx2, NEW pv2, Ranked(nx, pv, h, X, pos),
         \A x \in X : nx2[x] = nx[x] /\ pv2[x] = pv[x]
  PROVE Ranked(nx2, pv2, h, X, pos)
<1>1. ASSUME NEW x \in X
      PROVE /\ nx2[x] \in X \cup {NULL} /\ pv2[x] \in X \cup {NULL}
            /\ nx2[x] # NULL => pos[x] < pos[nx2[x]] /\ pv2[nx2[x]] = x
            /\ pv2[x] # NULL => nx2[pv2[x]] = x
            /\ pv2[x] = NULL <=> x = h
  BY DEF Ranked
<1>2. X \subseteq Pcb /\ IF X = {} THEN h = NULL ELSE h \in X
  BY DEF Ranked
<1>. QED BY <1>1, <1>2 DEF Ranked

LEMMA Frame ==
  ASSUME NEW nx, NEW pv, NEW h, NEW X, NEW nx2, NEW pv2, List(nx, pv, h, X),
         \A x \in X : nx2[x] = nx[x] /\ pv2[x] = pv[x]
  PROVE List(nx2, pv2, h, X)
<1>1. PICK pos \in [X -> Nat] : Ranked(nx, pv, h, X, pos)
  BY DEF List
<1>2. Ranked(nx2, pv2, h, X, pos)
  BY <1>1, RankedFrame
<1>. QED BY <1>2 DEF List

(* A node without neighbours is a list. *)
LEMMA Single ==
  ASSUME NEW nx, NEW pv, NEW p \in Pcb, nx[p] = NULL, pv[p] = NULL
  PROVE List(nx, pv, p, {p})
<1>1. Ranked(nx, pv, p, {p}, [x \in {p} |-> 0])
  BY DEF Ranked
<1>2. [x \in {p} |-> 0] \in [{p} -> Nat]
  OBVIOUS
<1>. QED BY <1>1, <1>2 DEF List

(* The links after the neighbours of p were joined. *)
Joined(nx, pv, p) == IF pv[p] = NULL THEN nx ELSE [nx EXCEPT ![pv[p]] = nx[p]]
JoinedBack(nx, pv, p) == IF nx[p] = NULL THEN pv ELSE [pv EXCEPT ![nx[p]] = pv[p]]

(* The neighbours of p joined, the list goes on without p. *)
LEMMA Remove ==
  ASSUME NEW nx \in Links, NEW pv \in Links, NEW h, NEW X, NEW pos,
         Ranked(nx, pv, h, X, pos), \A x \in X : pos[x] \in Nat, NEW p \in X
  PROVE Ranked(Joined(nx, pv, p), JoinedBack(nx, pv, p), IF h = p THEN nx[p] ELSE h, X \ {p}, pos)
<1> DEFINE n2 == Joined(nx, pv, p)
           p2 == JoinedBack(nx, pv, p)
           h2 == IF h = p THEN nx[p] ELSE h
<1>0. NULL \notin Pcb
  BY SchedAssumption DEF Pcb, NULL
<1>1. /\ X \subseteq Pcb /\ h \in X
      /\ \A x \in X : nx[x] \in X \cup {NULL} /\ pv[x] \in X \cup {NULL}
      /\ \A x \in X : nx[x] # NULL => pos[x] < pos[nx[x]] /\ pv[nx[x]] = x
      /\ \A x \in X : pv[x] # NULL => nx[pv[x]] = x
      /\ \A x \in X : pv[x] = NULL <=> x = h
  BY DEF Ranked
<1>2. \A x \in X : nx[x] # x /\ pv[x] # x
  BY <1>0, <1>1
<1>3. /\ n2 \in Links /\ p2 \in Links
      /\ \A x \in Pcb : n2[x] = IF pv[p] # NULL /\ x = pv[p] THEN nx[p] ELSE nx[x]
      /\ \A x \in Pcb : p2[x] = IF nx[p] # NULL /\ x = nx[p] THEN pv[p] ELSE pv[x]
  BY <1>0, <1>1 DEF Joined, JoinedBack, Links
<1> HIDE DEF n2, p2
<1>4. ASSUME NEW x \in X \ {p}
      PROVE n2[x] \in (X \ {p}) \cup {NULL} /\ p2[x] \in (X \ {p}) \cup {NULL}
  BY <1>0, <1>1, <1>2, <1>3
<1>5. ASSUME NEW x \in X \ {p}, n2[x] # NULL
      PROVE pos[x] < pos[n2[x]] /\ p2[n2[x]] = x
  <2>1. CASE x = pv[p]
    <3>1. n2[x] = nx[p] /\ nx[x] = p
      BY <2>1, <1>0, <1>1, <1>3
    <3>2. pos[x] < pos[p] /\ pos[p] < pos[nx[p]] /\ nx[p] \in X
      BY <3>1, <1>0, <1>1, <1>5
    <3>3. p2[n2[x]] = pv[p]
      BY <3>1, <3>2, <1>0, <1>1, <1>3
    <3>. QED BY <2>1, <3>1, <3>2, <3>3, <1>1
  <2>2. CASE x # pv[p]
    <3>1. n2[x] = nx[x] /\ nx[x] \in X /\ nx[x] # p
      BY <2>2, <1>0, <1>1, <1>3, <1>5
    <3>. QED BY <3>1, <2>2, <1>0, <1>1, <1>3
  <2>. QED BY <2>1, <2>2
<1>6. ASSUME NEW x \in X \ {p}, p2[x] # NULL
      PROVE n2[p2[x]] = x
  <2>1. CASE x = nx[p]
    <3>1. p2[x] = pv[p] /\ pv[p] \in X
      BY <2>1, <1>0, <1>1, <1>3, <1>6
    <3>. QED BY <2>1, <3>1, <1>0, <1>1, <1>3
  <2>2. CASE x # nx[p]
    <3>1. p2[x] = pv[x] /\ pv[x] \in X /\ pv[x] # p
      BY <2>2, <1>0, <1>1, <1>3, <1>6
    <3>. QED BY <3>1, <2>2, <1>0, <1>1, <1>3
  <2>. QED BY <2>1, <2>2
<1>7. ASSUME NEW x \in X \ {p}
      PROVE p2[x] = NULL <=> x = h2
  BY <1>0, <1>1, <1>2, <1>3
<1>8. IF X \ {p} = {} THEN h2 = NULL ELSE h2 \in X \ {p}
  <2>1. CASE h = p
    <3>1. ASSUME NEW x \in X \ {p} PROVE nx[p] # NULL
      <4> DEFINE U == {pos[y] : y \in X \ {p}}
      <4>1. PICK u \in U : \A v \in U : u <= v
        <5>1. U \in SUBSET Nat /\ U # {}
          BY <3>1
        <5> HIDE DEF U
        <5>. QED BY <5>1, LeastNatural
      <4>2. PICK y \in X \ {p} : u = pos[y]
        BY <4>1
      <4>3. pv[y] \in X /\ pos[pv[y]] < pos[y] /\ nx[pv[y]] = y
        BY <4>2, <2>1, <1>0, <1>1
      <4>4. pv[y] = p
        BY <4>1, <4>2, <4>3
      <4>. QED BY <4>2, <4>3, <4>4, <1>0, <1>1
    <3>. QED BY <3>1, <2>1, <1>0, <1>1, <1>2
  <2>2. CASE h # p
    BY <2>2, <1>1
  <2>. QED BY <2>1, <2>2
<1>9. Ranked(n2, p2, h2, X \ {p}, pos)
  BY <1>1, <1>4, <1>5, <1>6, <1>7, <1>8 DEF Ranked
<1>. QED
  BY <1>9 DEF n2, p2

(* p linked in behind y; at the end of the list this is Append. *)
LEMMA Insert ==
  ASSUME NEW nx \in Links, NEW pv \in Links, NEW h, NEW X, List(nx, pv, h, X),
         NEW y \in X, NEW p \in Pcb \ X, NEW n2, NEW p2,
         \A x \in Pcb : n2[x] = IF x = p THEN nx[y] ELSE IF x = y THEN p ELSE nx[x],
         \A x \in Pcb : p2[x] = IF x = p THEN y
                                ELSE IF nx[y] # NULL /\ x = nx[y] THEN p ELSE pv[x]
  PROVE List(n2, p2, h, X \cup {p})
<1>1. PICK pos \in [X -> Nat] : Ranked(nx, pv, h, X, pos)
  BY DEF List
<1> DEFINE r == [x \in X \cup {p} |-> IF x = p THEN pos[y] + 1
                                     ELSE IF pos[x] <= pos[y] THEN pos[x] ELSE pos[x] + 1]
<1>0. NULL \notin Pcb
  BY SchedAssumption DEF Pcb, NULL
<1>2. /\ X \subseteq Pcb /\ h \in X
      /\ \A x \in X : nx[x] \in X \cup {NULL} /\ pv[x] \in X \cup {NULL}
      /\ \A x \in X : nx[x] # NULL => pos[x] < pos[nx[x]] /\ pv[nx[x]] = x
      /\ \A x \in X : pv[x] # NULL => nx[pv[x]] = x
      /\ \A x \in X : pv[x] = NULL <=> x = h
  BY <1>1 DEF Ranked
<1>3. /\ \A x \in X : r[x] = IF pos[x] <= pos[y] THEN pos[x] ELSE pos[x] + 1
      /\ r[p] = pos[y] + 1
      /\ r \in [X \cup {p} -> Nat]
  OBVIOUS
<1> HIDE DEF r
<1>4. ASSUME NEW x \in X \cup {p}
      PROVE n2[x] \in X \cup {p, NULL} /\ p2[x] \in X \cup {p, NULL}
  BY <1>0, <1>2
<1>5. ASSUME NEW x \in X \cup {p}, n2[x] # NULL
      PROVE r[x] < r[n2[x]]
  <2>1. CASE x = p
    <3>1. n2[x] = nx[y] /\ nx[y] \in X /\ pos[y] < pos[nx[y]]
      BY <2>1, <1>2, <1>5
    <3>. QED BY <2>1, <3>1, <1>3
  <2>2. CASE x = y
    <3>1. n2[x] = p
      BY <2>2, <1>0, <1>2
    <3>. QED BY <2>2, <3>1, <1>3
  <2>3. CASE x # p /\ x # y
    <3>1. n2[x] = nx[x] /\ x \in X /\ nx[x] \in X /\ pos[x] < pos[nx[x]]
      BY <2>3, <1>2, <1>5
    <3>. QED BY <3>1, <1>3
  <2>. QED BY <2>1, <2>2, <2>3
<1>6. ASSUME NEW x \in X \cup {p}, n2[x] # NULL
      PROVE p2[n2[x]] = x
  BY <1>0, <1>2, <1>6
<1>7. ASSUME NEW x \in X \cup {p}, p2[x] # NULL
      PROVE n2[p2[x]] = x
  BY <1>0, <1>2, <1>7
<1>8. ASSUME NEW x \in X \cup {p}
      PROVE p2[x] = NULL <=> x = h
  BY <1>0, <1>2
<1>9. Ranked(n2, p2, h, X \cup {p}, r)
  BY <1>2, <1>4, <1>5, <1>6, <1>7, <1>8 DEF Ranked
<1>. QED
  BY <1>3, <1>9 DEF List

-----------------------------------------------------------------------------
(* The operations on the queues.                                           *)
QType == [next : Links, prev : Links, run : Pcb \cup {NULL}, sleep : Pcb \cup {NULL},
          wait : Pcb \cup {NULL}, block : Pcb \cup {NULL}, cur : Pcb]
(* Only the links of nodes of Z differ, and no head and not cur. *)
Same(s, t, Z) ==
  /\ t.run = s.run /\ t.sleep = s.sleep /\ t.wait = s.wait /\ t.block = s.block /\ t.cur = s.cur
  /\ \A x \in Pcb \ Z : t.next[x] = s.next[x] /\ t.prev[x] = s.prev[x]

(* Unlink and Append, field by field. *)
LEMMA UnlinkFields ==
  ASSUME NEW s \in QType, NEW p \in Pcb
  PROVE /\ Unlink(s, p).next = Joined(s.next, s.prev, p)
        /\ Unlink(s, p).prev = JoinedBack(s.next, s.prev, p)
        /\ Unlink(s, p) \in QType
        /\ Unlink(s, p).run = s.run /\ Unlink(s, p).sleep = s.sleep /\ Unlink(s, p).wait = s.wait
        /\ Unlink(s, p).block = s.block /\ Unlink(s, p).cur = s.cur
<1>1. Joined(s.next, s.prev, p) \in Links /\ JoinedBack(s.next, s.prev, p) \in Links
  BY DEF QType, Links, Joined, JoinedBack
<1>2. Unlink(s, p) = [s EXCEPT !.next = Joined(s.next, s.prev, p),
                               !.prev = JoinedBack(s.next, s.prev, p)]
  BY DEF QType, Unlink, Joined, JoinedBack
<1> HIDE DEF Joined, JoinedBack
<1>. QED BY <1>1, <1>2 DEF QType

LEMMA AppendFields ==
  ASSUME NEW s \in QType, NEW t \in Pcb, NEW p \in Pcb
  PROVE /\ Append(s, t, p) \in QType
        /\ Append(s, t, p).next = [s.next EXCEPT ![t] = p, ![p] = NULL]
        /\ Append(s, t, p).prev = [s.prev EXCEPT ![p] = t]
        /\ Append(s, t, p).run = s.run /\ Append(s, t, p).sleep = s.sleep
        /\ Append(s, t, p).wait = s.wait
        /\ Append(s, t, p).block = s.block /\ Append(s, t, p).cur = s.cur
BY DEF QType, Links, Append

(* Unlink takes a node out of the list it is in. *)
LEMMA UnlinkRanked ==
  ASSUME NEW s \in QType, NEW h, NEW X, NEW pos, Ranked(s.next, s.prev, h, X, pos),
         \A x \in X : pos[x] \in Nat, NEW p \in X
  PROVE /\ Unlink(s, p) \in QType /\ Same(s, Unlink(s, p), X)
        /\ Ranked(Unlink(s, p).next, Unlink(s, p).prev, IF h = p THEN s.next[p] ELSE h, X \ {p}, pos)
<1>1. s.next \in Links /\ s.prev \in Links /\ p \in Pcb
  BY DEF QType, Ranked
<1>2. Ranked(Joined(s.next, s.prev, p), JoinedBack(s.next, s.prev, p), IF h = p THEN s.next[p] ELSE h,
             X \ {p}, pos)
  BY <1>1, Remove
<1>3. /\ s.next[p] \in X \cup {NULL} /\ s.prev[p] \in X \cup {NULL}
      /\ s.next[p] # p /\ s.prev[p] # p
  BY <1>1, SchedAssumption DEF Ranked, Pcb, NULL
<1>4. \A x \in Pcb \ X : /\ Joined(s.next, s.prev, p)[x] = s.next[x]
                        /\ JoinedBack(s.next, s.prev, p)[x] = s.prev[x]
  BY <1>1, <1>3 DEF Joined, JoinedBack, Links
<1>. QED
  BY <1>1, <1>2, <1>4, UnlinkFields DEF Same

LEMMA UnlinkList ==
  ASSUME NEW s \in QType, NEW h, NEW X, List(s.next, s.prev, h, X), NEW p \in X
  PROVE /\ Unlink(s, p) \in QType /\ Same(s, Unlink(s, p), X)
        /\ List(Unlink(s, p).next, Unlink(s, p).prev, IF h = p THEN s.next[p] ELSE h, X \ {p})
<1>1. PICK pos : Ranked(s.next, s.prev, h, X, pos) /\ \A x \in X : pos[x] \in Nat
  BY DEF List
<1> DEFINE g == IF h = p THEN s.next[p] ELSE h
           u == Unlink(s, p)
<1>2. /\ u \in QType /\ Same(s, u, X)
      /\ Ranked(u.next, u.prev, g, X \ {p}, pos)
  BY <1>1, UnlinkRanked
<1> HIDE DEF g, u
<1>3. List(u.next, u.prev, g, X \ {p})
  BY <1>1, <1>2, Narrow
<1>. QED
  BY <1>2, <1>3 DEF g, u

(* Append puts a node that is in no list at the end of one. *)
LEMMA AppendList ==
  ASSUME NEW s \in QType, NEW h, NEW X, List(s.next, s.prev, h, X),
         NEW t \in X, s.next[t] = NULL, NEW p \in Pcb \ X
  PROVE /\ Append(s, t, p) \in QType /\ Same(s, Append(s, t, p), X \cup {p})
        /\ List(Append(s, t, p).next, Append(s, t, p).prev, h, X \cup {p})
        /\ Append(s, t, p).next[p] = NULL
<1>1. s.next \in Links /\ s.prev \in Links /\ t \in Pcb /\ X \subseteq Pcb
  BY DEF QType, List, Ranked
<1> DEFINE a == Append(s, t, p)
<1>2. /\ a \in QType /\ a.next = [s.next EXCEPT ![t] = p, ![p] = NULL]
      /\ a.prev = [s.prev EXCEPT ![p] = t]
      /\ a.run = s.run /\ a.sleep = s.sleep /\ a.wait = s.wait
      /\ a.block = s.block /\ a.cur = s.cur
  BY <1>1, AppendFields
<1> HIDE DEF a
<1>3. /\ \A x \in Pcb : a.next[x] = IF x = p THEN NULL ELSE IF x = t THEN p ELSE s.next[x]
      /\ \A x \in Pcb : a.prev[x] = IF x = p THEN t ELSE s.prev[x]
  BY <1>1, <1>2 DEF Links
<1>4. List(a.next, a.prev, h, X \cup {p})
  BY <1>1, <1>3, Insert
<1>. QED
  BY <1>1, <1>2, <1>3, <1>4 DEF Same, a

-----------------------------------------------------------------------------
(* The walk that wakes.                                                    *)
LEMMA WakeHeadFields ==
  ASSUME NEW s \in QType, NEW h \in {"sleep", "wait"}, NEW p \in Pcb
  PROVE LET t == WakeHead(s, h, p) IN
        /\ t \in QType /\ t.next = s.next /\ t.prev = s.prev
        /\ t.run = s.run /\ t.block = s.block /\ t.cur = s.cur
        /\ h # "sleep" => t.sleep = s.sleep
        /\ h # "wait" => t.wait = s.wait
        /\ t[h] = IF s.next[p] = NULL /\ s.prev[p] = NULL THEN NULL ELSE s[h]
<1>1. CASE h = "sleep"
  <2>1. [s EXCEPT ![h] = NULL] = [s EXCEPT !.sleep = NULL]
    BY <1>1 DEF QType
  <2>2. \A t \in QType : t[h] = t.sleep
    BY <1>1 DEF QType
  <2>3. [s EXCEPT !.sleep = NULL] \in QType
    BY DEF QType
  <2>. QED BY <1>1, <2>1, <2>2, <2>3 DEF WakeHead, QType
<1>2. CASE h = "wait"
  <2>1. [s EXCEPT ![h] = NULL] = [s EXCEPT !.wait = NULL]
    BY <1>2 DEF QType
  <2>2. \A t \in QType : t[h] = t.wait
    BY <1>2 DEF QType
  <2>3. [s EXCEPT !.wait = NULL] \in QType
    BY DEF QType
  <2>. QED BY <1>2, <2>1, <2>2, <2>3 DEF WakeHead, QType
<1>. QED BY <1>1, <1>2

(* What the walk does to a node that is due. *)
Moved(s, h, t, p) == Append(Unlink(WakeHead(s, h, p), p), t, p)

(* One node goes from the walked queue V to the end t of the run queue.     *)
(* The head variable of V is left naming it when it had a successor.        *)
Movable(s, h, r, R, z, V, pos, t, p) ==
  /\ s \in QType /\ h \in {"sleep", "wait"}
  /\ List(s.next, s.prev, r, R) /\ Ranked(s.next, s.prev, z, V, pos)
  /\ (\A x \in V : pos[x] \in Nat) /\ R \cap V = {}
  /\ t \in R /\ s.next[t] = NULL /\ p \in V
HasMoved(s, m, h, r, R, z, V, pos, p) ==
  /\ m \in QType
  /\ List(m.next, m.prev, r, R \cup {p})
  /\ Ranked(m.next, m.prev, IF z = p THEN s.next[p] ELSE z, V \ {p}, pos)
  /\ m.next[p] = NULL
  /\ \A x \in Pcb \ (R \cup V) : m.next[x] = s.next[x] /\ m.prev[x] = s.prev[x]
  /\ m.run = s.run /\ m.block = s.block /\ m.cur = s.cur
  /\ h # "sleep" => m.sleep = s.sleep
  /\ h # "wait" => m.wait = s.wait
  /\ m[h] = IF s.next[p] = NULL /\ s.prev[p] = NULL THEN NULL ELSE s[h]
LEMMA MoveNode ==
  ASSUME NEW s, NEW h, NEW r, NEW R, NEW z, NEW V, NEW pos, NEW t, NEW p,
         Movable(s, h, r, R, z, V, pos, t, p)
  PROVE HasMoved(s, Moved(s, h, t, p), h, r, R, z, V, pos, p)
<1> DEFINE a == WakeHead(s, h, p)
           b == Unlink(a, p)
           m == Append(b, t, p)
<1>a. /\ s \in QType /\ h \in {"sleep", "wait"}
      /\ List(s.next, s.prev, r, R) /\ Ranked(s.next, s.prev, z, V, pos)
      /\ (\A x \in V : pos[x] \in Nat) /\ R \cap V = {}
      /\ t \in R /\ s.next[t] = NULL /\ p \in V
  BY DEF Movable
<1>0. R \subseteq Pcb /\ V \subseteq Pcb /\ p \in Pcb /\ t \in Pcb /\ p \notin R /\ t \notin V
  BY <1>a DEF List, Ranked
<1>1. /\ a \in QType /\ a.next = s.next /\ a.prev = s.prev
      /\ a.run = s.run /\ a.block = s.block /\ a.cur = s.cur
      /\ h # "sleep" => a.sleep = s.sleep
      /\ h # "wait" => a.wait = s.wait
      /\ a[h] = IF s.next[p] = NULL /\ s.prev[p] = NULL THEN NULL ELSE s[h]
  BY <1>a, <1>0, WakeHeadFields
<1> HIDE DEF a
<1> DEFINE g == IF z = p THEN s.next[p] ELSE z
<1>2. /\ b \in QType /\ Same(a, b, V) /\ Ranked(b.next, b.prev, g, V \ {p}, pos)
  BY <1>a, <1>1, UnlinkRanked
<1> HIDE DEF b, g
<1>3. \A x \in R : b.next[x] = s.next[x] /\ b.prev[x] = s.prev[x]
  BY <1>a, <1>0, <1>1, <1>2 DEF Same
<1>4. List(b.next, b.prev, r, R)
  BY <1>a, <1>3, Frame
<1>5. /\ m \in QType /\ Same(b, m, R \cup {p}) /\ List(m.next, m.prev, r, R \cup {p})
      /\ m.next[p] = NULL
  <2>1. b \in QType /\ b.next[t] = NULL /\ p \in Pcb \ R /\ t \in R
    BY <1>a, <1>0, <1>2, <1>3
  <2>. QED BY <2>1, <1>4, AppendList
<1> HIDE DEF m
<1>6. Ranked(m.next, m.prev, g, V \ {p}, pos)
  <2>1. \A x \in V \ {p} : m.next[x] = b.next[x] /\ m.prev[x] = b.prev[x]
    BY <1>a, <1>0, <1>5 DEF Same
  <2>. QED BY <1>a, <1>2, <2>1, RankedFrame
<1>7. m[h] = a[h]
  <2>1. m.sleep = a.sleep /\ m.wait = a.wait
    BY <1>2, <1>5 DEF Same
  <2>2. \A u \in QType : (h = "sleep" => u[h] = u.sleep) /\ (h = "wait" => u[h] = u.wait)
    BY DEF QType
  <2>. QED BY <1>a, <1>1, <1>5, <2>1, <2>2
<1>8. \A x \in Pcb \ (R \cup V) : m.next[x] = s.next[x] /\ m.prev[x] = s.prev[x]
  BY <1>a, <1>0, <1>1, <1>2, <1>5 DEF Same
<1>9. /\ m.run = s.run /\ m.block = s.block /\ m.cur = s.cur
      /\ h # "sleep" => m.sleep = s.sleep
      /\ h # "wait" => m.wait = s.wait
  BY <1>1, <1>2, <1>5 DEF Same
<1>10. m = Moved(s, h, t, p)
  BY DEF Moved, m, b, a
<1>. QED
  BY <1>a, <1>1, <1>5, <1>6, <1>7, <1>8, <1>9, <1>10 DEF g, HasMoved

(* The links between the nodes that stay are joined where p was. *)
LEMMA MovedLinks ==
  ASSUME NEW s, NEW h, NEW r, NEW R, NEW z, NEW V, NEW pos, NEW t, NEW p,
         Movable(s, h, r, R, z, V, pos, t, p), NEW y \in V \ {p}
  PROVE /\ Moved(s, h, t, p).next[y] = IF s.next[y] = p THEN s.next[p] ELSE s.next[y]
        /\ Moved(s, h, t, p).prev[y] = IF s.prev[y] = p THEN s.prev[p] ELSE s.prev[y]
<1> DEFINE a == WakeHead(s, h, p)
           b == Unlink(a, p)
           m == Append(b, t, p)
<1>1. /\ s \in QType /\ h \in {"sleep", "wait"} /\ R \subseteq Pcb /\ R \cap V = {}
      /\ List(s.next, s.prev, r, R) /\ Ranked(s.next, s.prev, z, V, pos)
      /\ t \in R /\ s.next[t] = NULL /\ p \in V
  BY DEF Movable, List, Ranked
<1>2. V \subseteq Pcb /\ p \in Pcb /\ t \in Pcb /\ y \in Pcb /\ y # p /\ y # t /\ y \in V /\ NULL \notin Pcb
  BY <1>1, SchedAssumption DEF Ranked, Pcb, NULL
<1>3. a \in QType /\ a.next = s.next /\ a.prev = s.prev
  <2>1. s \in QType /\ h \in {"sleep", "wait"} /\ p \in Pcb
    BY <1>1, <1>2
  <2>. QED BY ONLY <2>1, WakeHeadFields
<1> HIDE DEF a
<1>4. b \in QType /\ b.next = Joined(s.next, s.prev, p) /\ b.prev = JoinedBack(s.next, s.prev, p)
  BY <1>2, <1>3, UnlinkFields
<1> HIDE DEF b
<1>5. m.next = [b.next EXCEPT ![t] = p, ![p] = NULL] /\ m.prev = [b.prev EXCEPT ![p] = t]
  BY <1>2, <1>4, AppendFields
<1>6. m = Moved(s, h, t, p)
  BY DEF Moved, m, b, a
<1> HIDE DEF m
<1>7. s.next \in Links /\ s.prev \in Links /\ b.next \in Links /\ b.prev \in Links
  BY <1>1, <1>4 DEF QType
<1>8. m.next[y] = b.next[y] /\ m.prev[y] = b.prev[y]
  BY <1>2, <1>5, <1>7 DEF Links
<1>9. /\ s.next[y] = p => s.prev[p] = y
      /\ s.prev[p] # NULL => s.next[s.prev[p]] = p
      /\ s.prev[y] = p => s.next[p] = y
      /\ s.next[p] # NULL => s.prev[s.next[p]] = p
  BY <1>1, <1>2 DEF Ranked
<1>10. b.next[y] = IF s.next[y] = p THEN s.next[p] ELSE s.next[y]
  BY <1>2, <1>4, <1>7, <1>9 DEF Joined, Links
<1>11. b.prev[y] = IF s.prev[y] = p THEN s.prev[p] ELSE s.prev[y]
  BY <1>2, <1>4, <1>7, <1>9 DEF JoinedBack, Links
<1>. QED
  BY <1>6, <1>8, <1>10, <1>11

(* A walk in progress. *)
WalkType == [q : QType, at : Pcb \cup {NULL}, tail : Pcb, left : [Pcb -> Nat \cup {Forever}],
             woken : SUBSET Pcb]
(* What the walk has not touched: the heads of the other queues, and the    *)
(* links of nodes outside Z.                                                *)
Spared(s, t, h, Z) ==
  /\ t.run = s.run /\ t.block = s.block /\ t.cur = s.cur
  /\ h # "sleep" => t.sleep = s.sleep
  /\ h # "wait" => t.wait = s.wait
  /\ \A x \in Pcb \ Z : t.next[x] = s.next[x] /\ t.prev[x] = s.prev[x]
(* The head variable of V names its first node z; or a node the walk made   *)
(* runnable, which needs two nodes in the queue.                            *)
HeadOr(head, z, woken, V) == head = z \/ (head \in woken /\ \E a, b \in V : a # b)
(* The walk of the queue h, with nodes V ranked by pos, from s, at w. *)
Walking(s, h, R, V, pos, w) ==
  /\ w \in WalkType /\ w.woken \subseteq V
  /\ List(w.q.next, w.q.prev, s.run, R \cup w.woken)
  /\ \E z : /\ Ranked(w.q.next, w.q.prev, z, V \ w.woken, pos)
           /\ HeadOr(w.q[h], z, w.woken, V)
  /\ w.at \in (V \ w.woken) \cup {NULL}
  /\ w.tail \in R \cup w.woken /\ w.q.next[w.tail] = NULL
  /\ Spared(s, w.q, h, R \cup V)

(* Visiting a node only counts down. *)
LEMMA VisitFields ==
  ASSUME NEW w \in WalkType, NEW cause, w.at # NULL
  PROVE LET v == Visit(cause, w) IN
        v \in WalkType /\ v.q = w.q /\ v.at = w.at /\ v.tail = w.tail /\ v.woken = w.woken
<1>1. w.at \in Pcb /\ w.left[w.at] \in Nat \cup {Forever}
  BY DEF WalkType
<1>2. Countdown(w.left[w.at]) \in Nat \cup {Forever}
  BY <1>1 DEF Countdown, Forever
<1> DEFINE l == [w.left EXCEPT ![w.at] = Countdown(@)]
<1>3. l \in [Pcb -> Nat \cup {Forever}]
  BY <1>1, <1>2 DEF WalkType
<1>4. Visit(cause, w) = w \/ Visit(cause, w) = [w EXCEPT !.left = l]
  BY DEF Visit, WalkType
<1> HIDE DEF l
<1>. QED BY <1>3, <1>4 DEF WalkType

(* A step of the walk keeps Walking, and goes on to a node of higher rank. *)
LEMMA WalkSteps ==
  ASSUME NEW s \in QType, NEW cause, NEW x, NEW R, NEW V, NEW pos,
         R \subseteq Pcb, V \subseteq Pcb, R \cap V = {}, \A y \in V : pos[y] \in Nat,
         NEW w, Walking(s, Walked(cause), R, V, pos, w)
  PROVE LET u == WakeStep(cause, x, w) IN
        /\ Walking(s, Walked(cause), R, V, pos, u)
        /\ w.at = NULL => u = w
        /\ w.at # NULL /\ u.at # NULL => pos[w.at] < pos[u.at]
<1> DEFINE h == Walked(cause)
           u == WakeStep(cause, x, w)
           v == Visit(cause, w)
           p == w.at
<1>0. NULL \notin Pcb /\ h \in {"sleep", "wait"}
  BY SchedAssumption DEF Pcb, NULL, Walked
<1>1. CASE w.at = NULL
  BY <1>1 DEF WakeStep
<1>2. CASE w.at # NULL
  <2>1. /\ w \in WalkType /\ w.woken \subseteq V
        /\ List(w.q.next, w.q.prev, s.run, R \cup w.woken)
        /\ p \in V \ w.woken
        /\ w.tail \in R \cup w.woken /\ w.q.next[w.tail] = NULL
        /\ Spared(s, w.q, h, R \cup V)
    BY <1>2 DEF Walking
  <2>2. PICK z : /\ Ranked(w.q.next, w.q.prev, z, V \ w.woken, pos)
                 /\ HeadOr(w.q[h], z, w.woken, V)
    BY DEF Walking
  <2>3. v \in WalkType /\ v.q = w.q /\ v.at = p /\ v.tail = w.tail /\ v.woken = w.woken
    BY <1>2, <2>1, VisitFields
  <2>4. w.q \in QType /\ p \in Pcb /\ w.tail \in Pcb
    BY <2>1 DEF WalkType
  <2>5. /\ w.q.next[p] \in (V \ w.woken) \cup {NULL}
        /\ w.q.next[p] # NULL => pos[p] < pos[w.q.next[p]] /\ w.q.next[p] # p
    <3>1. /\ w.q.next[p] \in (V \ w.woken) \cup {NULL}
          /\ w.q.next[p] # NULL => pos[p] < pos[w.q.next[p]]
      BY <2>1, <2>2 DEF Ranked
    <3>. QED BY <3>1, <2>1
  <2> DEFINE D == Due(cause, x, p, v)
  <2>6. CASE ~D
    <3>1. u = [v EXCEPT !.at = w.q.next[p]]
      BY <1>2, <2>6 DEF WakeStep
    <3> HIDE DEF v, D
    <3>2. u \in WalkType /\ u.q = w.q /\ u.at = w.q.next[p] /\ u.tail = w.tail /\ u.woken = w.woken
      BY <3>1, <2>3, <2>4, <2>5 DEF WalkType
    <3> HIDE DEF u
    <3>3. Walking(s, h, R, V, pos, u)
      BY <3>2, <2>1, <2>2, <2>5 DEF Walking
    <3>. QED BY <3>2, <3>3, <2>5, <1>2 DEF u
  <2>7. CASE D
    <3> DEFINE m == Moved(w.q, h, w.tail, p)
    <3>1. u = WakeNode(h, v)
      BY <1>2, <2>7 DEF WakeStep
    <3> HIDE DEF v, D
    <3>2. /\ u = [q |-> m, at |-> w.q.next[p], tail |-> p, left |-> [v.left EXCEPT ![p] = 0],
                  woken |-> w.woken \cup {p}]
      BY <3>1, <2>3 DEF WakeNode, Moved
    <3>3. /\ u.q = m /\ u.at = w.q.next[p] /\ u.tail = p /\ u.woken = w.woken \cup {p}
      BY <3>2
    <3> DEFINE g == IF z = p THEN w.q.next[p] ELSE z
               Y == V \ w.woken
               Q == R \cup w.woken
    <3>4. Q \cap Y = {} /\ Y \subseteq V /\ \A y \in Y : pos[y] \in Nat
      BY <2>1
    <3>5. /\ m \in QType
          /\ List(m.next, m.prev, s.run, Q \cup {p})
          /\ Ranked(m.next, m.prev, g, Y \ {p}, pos)
          /\ m.next[p] = NULL
          /\ \A y \in Pcb \ (Q \cup Y) : m.next[y] = w.q.next[y] /\ m.prev[y] = w.q.prev[y]
          /\ m.run = w.q.run /\ m.block = w.q.block /\ m.cur = w.q.cur
          /\ h # "sleep" => m.sleep = w.q.sleep
          /\ h # "wait" => m.wait = w.q.wait
          /\ m[h] = IF w.q.next[p] = NULL /\ w.q.prev[p] = NULL THEN NULL ELSE w.q[h]
      <4>1. Movable(w.q, h, s.run, Q, z, Y, pos, w.tail, p)
        BY <1>0, <2>1, <2>2, <2>4, <3>4 DEF Movable
      <4>2. HasMoved(w.q, m, h, s.run, Q, z, Y, pos, p)
        BY <4>1, MoveNode
      <4>. QED BY <4>2 DEF HasMoved
    <3> HIDE DEF m
    <3>6. u \in WalkType
      <4>1. [v.left EXCEPT ![p] = 0] \in [Pcb -> Nat \cup {Forever}]
        BY <2>3 DEF WalkType
      <4>2. w.q.next[p] \in Pcb \cup {NULL} /\ w.woken \cup {p} \in SUBSET Pcb
        BY <2>1, <2>4, <2>5
      <4>. QED BY <3>2, <3>5, <4>1, <4>2, <2>4 DEF WalkType
    <3> HIDE DEF u
    <3>7. /\ Y \ {p} = V \ u.woken /\ Q \cup {p} = R \cup u.woken /\ u.woken \subseteq V
          /\ Q \cup Y = R \cup V
      BY <3>3, <2>1
    <3>8. HeadOr(m[h], g, u.woken, V)
      <4>1. CASE w.q.next[p] = NULL /\ w.q.prev[p] = NULL
        <5>1. z = p
          BY <4>1, <2>1, <2>2 DEF Ranked
        <5>. QED BY <4>1, <5>1, <3>5 DEF HeadOr
      <4>2. CASE ~(w.q.next[p] = NULL /\ w.q.prev[p] = NULL)
        <5>1. m[h] = w.q[h]
          BY <4>2, <3>5
        <5>2. CASE w.q[h] = z /\ z # p
          BY <5>1, <5>2 DEF HeadOr
        <5>3. CASE w.q[h] = z /\ z = p
          <6>1. w.q.prev[p] = NULL
            BY <5>3, <2>1, <2>2 DEF Ranked
          <6>2. w.q.next[p] \in V /\ w.q.next[p] # p /\ p \in V
            BY <6>1, <4>2, <2>1, <2>5
          <6>. QED BY <5>1, <5>3, <6>2, <3>3 DEF HeadOr
        <5>4. CASE w.q[h] \in w.woken /\ \E a, b \in V : a # b
          BY <5>1, <5>4, <3>3 DEF HeadOr
        <5>. QED BY <5>2, <5>3, <5>4, <2>2 DEF HeadOr
      <4>. QED BY <4>1, <4>2
    <3>9. Spared(s, m, h, R \cup V)
      BY <3>5, <3>7, <2>1 DEF Spared
    <3>10. Walking(s, h, R, V, pos, u)
      <4>1. u.at \in (V \ u.woken) \cup {NULL}
        BY <3>3, <2>5
      <4>2. /\ List(u.q.next, u.q.prev, s.run, R \cup u.woken)
            /\ Ranked(u.q.next, u.q.prev, g, V \ u.woken, pos)
            /\ HeadOr(u.q[h], g, u.woken, V)
            /\ Spared(s, u.q, h, R \cup V)
        BY <3>3, <3>5, <3>7, <3>8, <3>9
      <4>3. u.tail \in R \cup u.woken /\ u.q.next[u.tail] = NULL
        BY <3>3, <3>5
      <4>. QED BY <3>6, <3>7, <4>1, <4>2, <4>3 DEF Walking
    <3>. QED BY <3>3, <3>10, <2>5, <1>2 DEF u
  <2>. QED BY <2>6, <2>7
<1>. QED BY <1>1, <1>2

(* Whom a walk of the wait queue is to wake. *)
Wants(cause, x, y) == IF cause = "exit" THEN Awaits(y, x) ELSE Chosen(y, x)
(* Of the nodes visited so far, the walk has woken those that were due; D   *)
(* are the others, which are the first ones of the rest of the queue.       *)
Sorting(cause, x, V, w) ==
  /\ \A y \in w.woken : Wants(cause, x, y)
  /\ \E D \in SUBSET (V \ w.woken) :
       /\ \A y \in D : ~Wants(cause, x, y) /\ w.q.next[y] \in D \cup {w.at}
       /\ \A y \in V \ w.woken : w.q.prev[y] = NULL => y \in D \cup {w.at}

(* A step of the walk sorts one more node. *)
LEMMA Sorts ==
  ASSUME NEW s \in QType, NEW cause \in {"slice", "exit"}, NEW x, NEW R, NEW V, NEW pos,
         R \subseteq Pcb, V \subseteq Pcb, R \cap V = {}, \A y \in V : pos[y] \in Nat,
         NEW w, Walking(s, "wait", R, V, pos, w), Sorting(cause, x, V, w)
  PROVE Sorting(cause, x, V, WakeStep(cause, x, w))
<1> DEFINE u == WakeStep(cause, x, w)
           p == w.at
<1>0. NULL \notin Pcb /\ Walked(cause) = "wait"
  BY SchedAssumption DEF Pcb, NULL, Walked
<1>1. CASE w.at = NULL
  BY <1>1 DEF WakeStep
<1>2. CASE w.at # NULL
  <2>1. /\ w \in WalkType /\ w.woken \subseteq V
        /\ List(w.q.next, w.q.prev, s.run, R \cup w.woken)
        /\ p \in V \ w.woken
        /\ w.tail \in R \cup w.woken /\ w.q.next[w.tail] = NULL
    BY <1>2 DEF Walking
  <2>2. PICK z : Ranked(w.q.next, w.q.prev, z, V \ w.woken, pos)
    BY DEF Walking
  <2>3. PICK D \in SUBSET (V \ w.woken) :
          /\ \A y \in D : ~Wants(cause, x, y) /\ w.q.next[y] \in D \cup {p}
          /\ \A y \in V \ w.woken : w.q.prev[y] = NULL => y \in D \cup {p}
    BY DEF Sorting
  <2>4. \A y \in w.woken : Wants(cause, x, y)
    BY DEF Sorting
  <2>5. Visit(cause, w) = w
    BY DEF Visit
  <2>6. Due(cause, x, p, w) <=> Wants(cause, x, p)
    <3>1. CASE cause = "exit"
      BY <2>1, <3>1 DEF Due, Wants
    <3>2. CASE cause = "slice"
      BY <3>2 DEF Due, Wants
    <3>. QED BY <3>1, <3>2
  <2>7. w.q \in QType /\ p \in Pcb /\ w.tail \in Pcb
    BY <2>1 DEF WalkType
  <2>8. w.q.next[p] \in (V \ w.woken) \cup {NULL} /\ w.q.next[p] # p
    <3>1. /\ w.q.next[p] \in (V \ w.woken) \cup {NULL}
          /\ w.q.next[p] # NULL => pos[p] < pos[w.q.next[p]]
      BY <2>1, <2>2 DEF Ranked
    <3>2. pos[p] \in Nat
      BY <2>1
    <3>. QED BY <1>2, <3>1, <3>2
  <2>9. CASE ~Wants(cause, x, p)
    <3>1. u = [w EXCEPT !.at = w.q.next[p]]
      BY <1>2, <2>5, <2>6, <2>9 DEF WakeStep
    <3> HIDE DEF u
    <3>2. u.q = w.q /\ u.at = w.q.next[p] /\ u.woken = w.woken
      BY <3>1, <2>1 DEF WalkType
    <3> DEFINE E == D \cup {p}
    <3>3. E \in SUBSET (V \ u.woken)
      BY <3>2, <2>1
    <3>4. \A y \in E : ~Wants(cause, x, y) /\ u.q.next[y] \in E \cup {u.at}
      BY <3>2, <2>3, <2>9
    <3>5. \A y \in V \ u.woken : u.q.prev[y] = NULL => y \in E \cup {u.at}
      BY <3>2, <2>3
    <3> HIDE DEF E
    <3>6. Sorting(cause, x, V, u)
      BY <3>2, <3>3, <3>4, <3>5, <2>4 DEF Sorting
    <3>. QED BY <3>6 DEF u
  <2>10. CASE Wants(cause, x, p)
    <3> DEFINE m == Moved(w.q, "wait", w.tail, p)
    <3>1. u = WakeNode("wait", w)
      BY <1>0, <1>2, <2>5, <2>6, <2>10 DEF WakeStep
    <3>2. u.q = m /\ u.at = w.q.next[p] /\ u.woken = w.woken \cup {p}
      BY <3>1 DEF WakeNode, Moved
    <3> DEFINE Y == V \ w.woken
               Q == R \cup w.woken
    <3>3. Q \cap Y = {} /\ \A y \in Y : pos[y] \in Nat
      BY <2>1
    <3>4. Movable(w.q, "wait", s.run, Q, z, Y, pos, w.tail, p)
      BY <2>1, <2>2, <2>7, <3>3 DEF Movable
    <3>5. \A y \in Y \ {p} :
            /\ m.next[y] = IF w.q.next[y] = p THEN w.q.next[p] ELSE w.q.next[y]
            /\ m.prev[y] = IF w.q.prev[y] = p THEN w.q.prev[p] ELSE w.q.prev[y]
      BY <3>4, MovedLinks
    <3> HIDE DEF m, u
    <3>6. p \notin D /\ D \in SUBSET (V \ u.woken) /\ D \subseteq Y \ {p}
      BY <2>3, <2>10, <3>2
    <3>7. \A y \in D : ~Wants(cause, x, y) /\ u.q.next[y] \in D \cup {u.at}
      BY <2>3, <3>2, <3>5, <3>6
    <3>8. ASSUME NEW y \in V \ u.woken, u.q.prev[y] = NULL PROVE y \in D \cup {u.at}
      <4>1. y \in Y \ {p}
        BY <3>2
      <4>2. u.q.prev[y] = IF w.q.prev[y] = p THEN w.q.prev[p] ELSE w.q.prev[y]
        BY <3>2, <3>5, <4>1
      <4>3. CASE w.q.prev[y] = p
        <5>1. w.q.next[p] = y
          BY <2>2, <4>1, <4>3, <2>7, <1>0 DEF Ranked
        <5>. QED BY <5>1, <3>2
      <4>4. CASE w.q.prev[y] # p
        BY <2>3, <3>8, <4>1, <4>2, <4>4
      <4>. QED BY <4>3, <4>4
    <3>9. \A y \in u.woken : Wants(cause, x, y)
      BY <2>4, <2>10, <3>2
    <3>10. Sorting(cause, x, V, u)
      BY <3>6, <3>7, <3>8, <3>9 DEF Sorting
    <3>. QED BY <3>10 DEF u
  <2>. QED BY <2>9, <2>10
<1>. QED BY <1>1, <1>2

(* A walk before its first step, and the equation of the recursive function. *)
Start(s, cause) ==
  [q |-> s, at |-> s[Walked(cause)], tail |-> Last(s, s.run), left |-> sleepTimeLeft, woken |-> {}]

LEMMA WalkRec ==
  ASSUME NEW s, NEW cause, NEW x
  PROVE /\ Walk(s, cause, x)[0] = Start(s, cause)
        /\ \A n \in 0 .. WalkBound - 1 :
             Walk(s, cause, x)[n + 1] = WakeStep(cause, x, Walk(s, cause, x)[n])
<1> DEFINE N == WalkBound
           st == Start(s, cause)
           Go(w) == WakeStep(cause, x, w)
           Is(f, m) == f = [n \in 0 .. m |-> IF n = 0 THEN st ELSE Go(f[n - 1])]
           T == {m \in Nat : \E f : Is(f, m)}
           a == Walk(s, cause, x)
<1>0. N \in Nat
  BY SchedAssumption DEF WalkBound
<1>1. 0 \in T
  <2>1. Is([n \in 0 .. 0 |-> st], 0)
    OBVIOUS
  <2>. QED BY <2>1
<1>2. ASSUME NEW m \in Nat, m \in T PROVE m + 1 \in T
  <2>1. PICK f : Is(f, m)
    BY <1>2
  <2> DEFINE g == [n \in 0 .. m + 1 |-> IF n = m + 1 THEN Go(f[m]) ELSE f[n]]
  <2> HIDE DEF Go, st
  <2>2. \A n \in 0 .. m : g[n] = f[n]
    OBVIOUS
  <2>3. \A n \in 0 .. m : f[n] = IF n = 0 THEN st ELSE Go(f[n - 1])
    BY <2>1
  <2>4. ASSUME NEW n \in 0 .. m + 1
        PROVE g[n] = IF n = 0 THEN st ELSE Go(g[n - 1])
    <3>1. CASE n = m + 1
      <4>1. g[n - 1] = f[m]
        BY <3>1, <2>2
      <4>. QED BY <3>1, <4>1
    <3>2. CASE n # m + 1
      <4>1. n \in 0 .. m /\ (n # 0 => n - 1 \in 0 .. m)
        BY <3>2
      <4>. QED BY <4>1, <2>2, <2>3
    <3>. QED BY <3>1, <3>2
  <2>5. Is(g, m + 1)
    BY <2>4
  <2>6. \E e : Is(e, m + 1)
    <3> HIDE DEF g, Is
    <3>. QED BY <2>5
  <2>. QED BY <2>6
<1>3. \E f : Is(f, N)
  <2>1. Nat \subseteq T
    <3> HIDE DEF T
    <3>. QED BY <1>1, <1>2, Induction
  <2>. QED BY <2>1, <1>0
<1>4. a = CHOOSE f : Is(f, N)
  BY DEF Walk, Start
<1>5. Is(CHOOSE f : Is(f, N), N)
  <2> HIDE DEF Is
  <2>. QED BY <1>3
<1>6. Is(a, N)
  BY <1>4, <1>5
<1> HIDE DEF a, N, st, Go
<1>7. a[0] = st
  BY <1>0, <1>6
<1>8. ASSUME NEW n \in 0 .. N - 1 PROVE a[n + 1] = Go(a[n])
  <2>1. n + 1 \in 0 .. N /\ n + 1 # 0 /\ (n + 1) - 1 = n
    BY <1>0
  <2>2. a[n + 1] = IF n + 1 = 0 THEN st ELSE Go(a[(n + 1) - 1])
    BY <1>6, <2>1
  <2>. QED BY <2>1, <2>2
<1>. QED BY <1>7, <1>8 DEF a, N, st, Go

(* What a finished walk of the queue h has done: its nodes V are in two     *)
(* parts, those woken, which are at the end of the run queue, and the rest. *)
Sleepers == [Pcb -> Nat \cup {Forever}]
(* What a walk needs, and what it leaves. *)
Wakeable(s, h, R, V) ==
  /\ s \in QType /\ R # {} /\ R \cap V = {}
  /\ List(s.next, s.prev, s.run, R) /\ List(s.next, s.prev, s[h], V)
  /\ sleepTimeLeft \in Sleepers
Woken(s, h, R, V, w) ==
  /\ w \in WalkType /\ w.at = NULL /\ w.woken \subseteq V
  /\ List(w.q.next, w.q.prev, s.run, R \cup w.woken)
  /\ \E z : List(w.q.next, w.q.prev, z, V \ w.woken) /\ HeadOr(w.q[h], z, w.woken, V)
  /\ Spared(s, w.q, h, R \cup V)

(* The walk ends, each node moved at most once; a walk of the wait queue    *)
(* has then woken all that were due and nobody else.                        *)
LEMMA WakeWorks ==
  ASSUME NEW s, NEW cause, NEW x, NEW R, NEW V, Wakeable(s, Walked(cause), R, V)
  PROVE /\ Woken(s, Walked(cause), R, V, Wake(s, cause, x))
        /\ cause \in {"slice", "exit"} =>
             \A y \in V : y \in Wake(s, cause, x).woken <=> Wants(cause, x, y)
<1> DEFINE h == Walked(cause)
           a == Walk(s, cause, x)
           ok(w) == \E pos \in [V -> Nat] : Walking(s, h, R, V, pos, w)
<1>1. /\ s \in QType /\ R # {} /\ R \cap V = {}
      /\ List(s.next, s.prev, s.run, R) /\ List(s.next, s.prev, s[h], V)
      /\ sleepTimeLeft \in [Pcb -> Nat \cup {Forever}]
      /\ h \in {"sleep", "wait"}
  BY DEF Wakeable, Walked, Sleepers
<1>2. PICK pos : Ranked(s.next, s.prev, s[h], V, pos) /\ \A y \in V : pos[y] \in Nat
  BY <1>1 DEF List
<1>3. R \subseteq Pcb /\ V \subseteq Pcb /\ NULL \notin Pcb
  BY <1>1, SchedAssumption DEF List, Ranked, Pcb, NULL
<1>4. /\ a[0] = Start(s, cause)
      /\ \A n \in 0 .. WalkBound - 1 : a[n + 1] = WakeStep(cause, x, a[n])
  BY WalkRec
<1> HIDE DEF a
<1> DEFINE sorts == cause \in {"slice", "exit"}
           W(w) == Walking(s, h, R, V, pos, w) /\ (sorts => Sorting(cause, x, V, w))
<1>5. W(a[0])
  <2>1. Last(s, s.run) \in R /\ s.next[Last(s, s.run)] = NULL
    BY <1>1, Lists
  <2>2. s[h] \in V \cup {NULL}
    BY <1>2 DEF Ranked
  <2>3. Start(s, cause) \in WalkType
    BY <1>1, <1>3, <2>1, <2>2 DEF Start, WalkType
  <2> DEFINE w == Start(s, cause)
  <2>4. w.q = s /\ w.at = s[h] /\ w.tail = Last(s, s.run) /\ w.woken = {}
    BY DEF Start
  <2> HIDE DEF w
  <2>5. V \ w.woken = V /\ R \cup w.woken = R
    BY <2>4
  <2>6. HeadOr(s[h], s[h], {}, V) /\ Spared(s, s, h, R \cup V)
    BY DEF HeadOr, Spared
  <2>7. Walking(s, h, R, V, pos, w)
    BY <1>1, <1>2, <2>1, <2>2, <2>3, <2>4, <2>5, <2>6 DEF Walking, w
  <2>8. Sorting(cause, x, V, w)
    <3>1. \A y \in V : s.prev[y] = NULL => y = s[h]
      BY <1>2 DEF Ranked
    <3>2. {} \in SUBSET (V \ w.woken) /\ \A y \in V \ w.woken : w.q.prev[y] = NULL => y \in {} \cup {w.at}
      BY <2>4, <3>1
    <3>3. \A y \in {} : ~Wants(cause, x, y) /\ w.q.next[y] \in {} \cup {w.at}
      OBVIOUS
    <3>4. \A y \in w.woken : Wants(cause, x, y)
      BY <2>4
    <3>. QED BY <3>2, <3>3, <3>4 DEF Sorting
  <2>. QED BY <2>7, <2>8, <1>4 DEF w
<1>6. ASSUME NEW w, W(w)
      PROVE /\ W(WakeStep(cause, x, w))
            /\ w.at = NULL => WakeStep(cause, x, w) = w
            /\ w.at # NULL /\ WakeStep(cause, x, w).at # NULL
                 => pos[w.at] < pos[WakeStep(cause, x, w).at]
  <2>1. Walking(s, h, R, V, pos, w)
    BY <1>6
  <2>2. /\ Walking(s, h, R, V, pos, WakeStep(cause, x, w))
        /\ w.at = NULL => WakeStep(cause, x, w) = w
        /\ w.at # NULL /\ WakeStep(cause, x, w).at # NULL
             => pos[w.at] < pos[WakeStep(cause, x, w).at]
    BY <2>1, <1>1, <1>2, <1>3, WalkSteps
  <2>3. ASSUME sorts PROVE Sorting(cause, x, V, WakeStep(cause, x, w))
    <3>1. h = "wait" /\ Sorting(cause, x, V, w)
      BY <1>6, <2>3 DEF Walked
    <3>. QED BY <3>1, <2>1, <2>3, <1>1, <1>2, <1>3, Sorts
  <2>. QED BY <2>2, <2>3
<1>7. \A n \in 0 .. WalkBound : W(a[n])
  <2> DEFINE T == {n \in Nat : n <= WalkBound => W(a[n])}
  <2> HIDE DEF W
  <2>0. WalkBound \in Nat
    BY SchedAssumption DEF WalkBound
  <2>1. 0 \in T
    BY <1>5
  <2>2. ASSUME NEW n \in Nat, n \in T PROVE n + 1 \in T
    <3> SUFFICES ASSUME n + 1 <= WalkBound PROVE W(a[n + 1])
      OBVIOUS
    <3>1. n \in 0 .. WalkBound - 1 /\ n <= WalkBound
      BY <2>0
    <3>2. a[n + 1] = WakeStep(cause, x, a[n]) /\ W(a[n])
      BY <3>1, <2>2, <1>4
    <3>. QED BY <3>2, <1>6
  <2>3. Nat \subseteq T
    <3> HIDE DEF T
    <3>. QED BY <2>1, <2>2, Induction
  <2>. QED BY <2>0, <2>3
<1>8. \A n \in 0 .. WalkBound : a[n].at \in V \cup {NULL}
  BY <1>7 DEF Walking
<1> HIDE DEF W
<1>9. a[NumPcbs].at = NULL
  <2> SUFFICES ASSUME a[NumPcbs].at # NULL PROVE FALSE
    OBVIOUS
  <2> DEFINE T == {n \in Nat : n <= NumPcbs => a[NumPcbs - n].at # NULL}
             f == [n \in 0 .. NumPcbs |-> a[n].at]
  <2>0. \A n \in 0 .. NumPcbs - 1 : n \in 0 .. WalkBound - 1 /\ n \in 0 .. WalkBound
    BY SchedAssumption DEF WalkBound
  <2>1. 0 \in T
    BY SchedAssumption
  <2>2. ASSUME NEW n \in Nat, n \in T PROVE n + 1 \in T
    <3> SUFFICES ASSUME n + 1 <= NumPcbs PROVE a[NumPcbs - (n + 1)].at # NULL
      OBVIOUS
    <3>1. NumPcbs - (n + 1) \in 0 .. NumPcbs - 1 /\ (NumPcbs - (n + 1)) + 1 = NumPcbs - n
      BY SchedAssumption
    <3>2. a[NumPcbs - n].at # NULL
      BY <2>2, SchedAssumption
    <3> DEFINE k == NumPcbs - (n + 1)
    <3>3. a[k + 1] = WakeStep(cause, x, a[k]) /\ W(a[k]) /\ a[k + 1].at # NULL
      BY <3>1, <3>2, <2>0, <1>4, <1>7
    <3> HIDE DEF k
    <3>4. a[k].at # NULL
      BY <3>3, <1>6
    <3>. QED BY <3>4 DEF k
  <2>3. Nat \subseteq T
    <3> HIDE DEF T
    <3>. QED BY <2>1, <2>2, Induction
  <2>4. ASSUME NEW n \in 0 .. NumPcbs PROVE a[n].at # NULL
    <3>1. NumPcbs - n \in Nat /\ NumPcbs - n <= NumPcbs /\ NumPcbs - (NumPcbs - n) = n
      BY SchedAssumption
    <3>2. NumPcbs - n \in T
      BY <2>3, <3>1
    <3>. QED BY <3>1, <3>2
  <2>5. \A n \in 0 .. NumPcbs : f[n] \in Pcb /\ pos[f[n]] \in Nat
    <3>1. \A n \in 0 .. NumPcbs : n \in 0 .. WalkBound
      BY SchedAssumption DEF WalkBound
    <3>2. \A n \in 0 .. NumPcbs : a[n].at \in V
      BY <3>1, <2>4, <1>8
    <3>. QED BY <3>2, <1>2, <1>3
  <2>6. ASSUME NEW n \in 0 .. NumPcbs - 1 PROVE pos[f[n]] < pos[f[n + 1]]
    <3>1. n \in 0 .. NumPcbs /\ n + 1 \in 0 .. NumPcbs
      BY SchedAssumption
    <3>2. a[n + 1] = WakeStep(cause, x, a[n]) /\ W(a[n]) /\ a[n].at # NULL /\ a[n + 1].at # NULL
      BY <3>1, <2>0, <2>4, <1>4, <1>7
    <3>3. pos[a[n].at] < pos[a[n + 1].at]
      BY <3>2, <1>6
    <3>. QED BY <3>1, <3>3
  <2> HIDE DEF f
  <2>. QED BY <2>5, <2>6, Climb
<1>10. a[WalkBound].at = NULL
  <2> DEFINE T == {n \in Nat : NumPcbs + n <= WalkBound => a[NumPcbs + n].at = NULL}
  <2>1. 0 \in T
    BY <1>9, SchedAssumption
  <2>2. ASSUME NEW n \in Nat, n \in T PROVE n + 1 \in T
    <3> SUFFICES ASSUME NumPcbs + (n + 1) <= WalkBound PROVE a[NumPcbs + (n + 1)].at = NULL
      OBVIOUS
    <3> DEFINE k == NumPcbs + n
    <3>1. k \in 0 .. WalkBound - 1 /\ k \in 0 .. WalkBound /\ k + 1 = NumPcbs + (n + 1)
      BY SchedAssumption DEF WalkBound
    <3>2. a[k].at = NULL
      BY <3>1, <2>2, SchedAssumption DEF WalkBound
    <3>3. a[k + 1] = WakeStep(cause, x, a[k]) /\ W(a[k])
      BY <3>1, <1>4, <1>7
    <3> HIDE DEF k
    <3>4. a[k + 1].at = NULL
      BY <3>2, <3>3, <1>6
    <3>. QED BY <3>1, <3>4
  <2>3. Nat \subseteq T
    <3> HIDE DEF T
    <3>. QED BY <2>1, <2>2, Induction
  <2>4. NumPcbs \in T /\ NumPcbs + NumPcbs = WalkBound
    BY <2>3, SchedAssumption DEF WalkBound
  <2>. QED BY <2>4, SchedAssumption
<1>11. Walking(s, h, R, V, pos, a[WalkBound]) /\ (sorts => Sorting(cause, x, V, a[WalkBound]))
  <2>1. WalkBound \in 0 .. WalkBound
    BY SchedAssumption DEF WalkBound
  <2>. QED BY <2>1, <1>7 DEF W
<1> DEFINE w == a[WalkBound]
<1> HIDE DEF w
<1>12. /\ w \in WalkType /\ w.at = NULL /\ w.woken \subseteq V
       /\ List(w.q.next, w.q.prev, s.run, R \cup w.woken)
       /\ Spared(s, w.q, h, R \cup V)
  BY <1>10, <1>11 DEF Walking, w
<1>13. PICK z : Ranked(w.q.next, w.q.prev, z, V \ w.woken, pos) /\ HeadOr(w.q[h], z, w.woken, V)
  BY <1>11 DEF Walking, w
<1>14. List(w.q.next, w.q.prev, z, V \ w.woken)
  <2>1. \A y \in V \ w.woken : pos[y] \in Nat
    BY <1>2
  <2>. QED BY <2>1, <1>13, Narrow
<1>15. Woken(s, h, R, V, w)
  BY <1>12, <1>13, <1>14 DEF Woken
<1>16. ASSUME sorts PROVE w.woken = {y \in V : Wants(cause, x, y)}
  <2>1. Sorting(cause, x, V, w)
    BY <1>11, <1>16 DEF w
  <2>2. PICK D \in SUBSET (V \ w.woken) :
          /\ \A y \in D : ~Wants(cause, x, y) /\ w.q.next[y] \in D \cup {NULL}
          /\ \A y \in V \ w.woken : w.q.prev[y] = NULL => y \in D \cup {NULL}
    BY <2>1, <1>12 DEF Sorting
  <2>3. z \in D \cup {NULL}
    BY <2>2, <1>3, <1>13 DEF Ranked
  <2>4. Chain(w.q, z) \subseteq D
    BY <2>2, <2>3, <1>3, Closed
  <2>5. V \ w.woken \subseteq D
    BY <2>4, <1>14, Reached
  <2>6. \A y \in w.woken : Wants(cause, x, y)
    BY <2>1 DEF Sorting
  <2>. QED BY <2>2, <2>5, <2>6, <1>12
<1>. QED BY <1>15, <1>16 DEF Wake, w, a

-----------------------------------------------------------------------------
(* The shape of the queues: the run queue R, the sleepers S, the waiters W  *)
(* and the blocked reader are lists without a common node.  In a loose      *)
(* shape the head variables of S and W may name a runnable process instead  *)
(* of the first node, which is what WakeHead can leave behind; in a tight   *)
(* one they do not.                                                         *)
Lone(X) == \A a, b \in X : a = b
Blocked(s) == {s.block} \ {NULL}
Queue(s, head, X, R) == \E z : List(s.next, s.prev, z, X) /\ (head = z \/ head \in R)
Apart(R, S, W, B) ==
  /\ R \cap S = {} /\ R \cap W = {} /\ R \cap B = {}
  /\ S \cap W = {} /\ S \cap B = {} /\ W \cap B = {}
Loose(s, R, S, W) ==
  /\ s \in QType /\ s.run = Idle /\ s.cur \in R
  /\ List(s.next, s.prev, s.run, R)
  /\ Queue(s, s.sleep, S, R) /\ Queue(s, s.wait, W, R)
  /\ List(s.next, s.prev, s.block, Blocked(s))
  /\ Apart(R, S, W, Blocked(s))
Tight(s, R, S, W) == Loose(s, R, S, W) /\ s.sleep \notin R /\ s.wait \notin R

(* In a tight shape the head variables name the first nodes. *)
LEMMA TightLists ==
  ASSUME NEW s, NEW R, NEW S, NEW W, Tight(s, R, S, W)
  PROVE /\ s \in QType /\ s.run = Idle /\ s.cur \in R /\ Idle \in R
        /\ List(s.next, s.prev, s.run, R)
        /\ List(s.next, s.prev, s.sleep, S) /\ List(s.next, s.prev, s.wait, W)
        /\ List(s.next, s.prev, s.block, Blocked(s))
        /\ Apart(R, S, W, Blocked(s))
        /\ R \subseteq Pcb /\ S \subseteq Pcb /\ W \subseteq Pcb /\ Blocked(s) \subseteq Pcb
        /\ s.sleep \in S \cup {NULL} /\ s.wait \in W \cup {NULL}
<1>1. /\ s \in QType /\ s.run = Idle /\ s.cur \in R
      /\ List(s.next, s.prev, s.run, R)
      /\ List(s.next, s.prev, s.sleep, S) /\ List(s.next, s.prev, s.wait, W)
      /\ List(s.next, s.prev, s.block, Blocked(s))
      /\ Apart(R, S, W, Blocked(s))
  BY DEF Tight, Loose, Queue
<1>2. /\ R \subseteq Pcb /\ S \subseteq Pcb /\ W \subseteq Pcb /\ Blocked(s) \subseteq Pcb
      /\ s.sleep \in S \cup {NULL} /\ s.wait \in W \cup {NULL} /\ Idle \in R
  BY <1>1 DEF List, Ranked
<1>. QED BY <1>1, <1>2

LEMMA ListsTight ==
  ASSUME NEW s \in QType, NEW R, NEW S, NEW W, s.run = Idle, s.cur \in R,
         List(s.next, s.prev, s.run, R),
         List(s.next, s.prev, s.sleep, S), List(s.next, s.prev, s.wait, W),
         List(s.next, s.prev, s.block, Blocked(s)),
         Apart(R, S, W, Blocked(s))
  PROVE Tight(s, R, S, W)
<1>1. s.sleep \in S \cup {NULL} /\ s.wait \in W \cup {NULL} /\ NULL \notin R
  BY SchedAssumption DEF List, Ranked, Pcb, NULL
<1>2. s.sleep \notin R /\ s.wait \notin R
  BY <1>1 DEF Apart
<1>3. Loose(s, R, S, W)
  BY DEF Loose, Queue
<1>. QED BY <1>2, <1>3 DEF Tight

(* The sleep queue walked: the sleepers that were due are runnable now. *)
Slept(s, R, S, W, w) ==
  /\ w \in WalkType /\ w.at = NULL /\ w.woken \subseteq S
  /\ Loose(w.q, R \cup w.woken, S \ w.woken, W \ w.woken)
  /\ w.q.cur = s.cur /\ w.q.block = s.block /\ w.q.wait = s.wait
  /\ Lone(S) => w.q.sleep \notin R \cup w.woken
Asleep(s, R, S, W, cause) ==
  Walked(cause) = "sleep" /\ Loose(s, R, S, W) /\ s.sleep \notin R /\ sleepTimeLeft \in Sleepers
LEMMA WakeSleepers ==
  ASSUME NEW s, NEW R, NEW S, NEW W, NEW cause, NEW x,
         Asleep(s, R, S, W, cause)
  PROVE Slept(s, R, S, W, Wake(s, cause, x))
<1> DEFINE w == Wake(s, cause, x)
           M == w.woken
           B == Blocked(s)
<1>0. Walked(cause) = "sleep" /\ Loose(s, R, S, W) /\ s.sleep \notin R /\ sleepTimeLeft \in Sleepers
  BY DEF Asleep
<1>1. /\ s \in QType /\ s.run = Idle /\ s.cur \in R
      /\ List(s.next, s.prev, s.run, R)
      /\ Queue(s, s.sleep, S, R) /\ Queue(s, s.wait, W, R) /\ List(s.next, s.prev, s.block, B)
      /\ Apart(R, S, W, B)
  BY <1>0 DEF Loose
<1>2. List(s.next, s.prev, s.sleep, S)
  BY <1>0, <1>1 DEF Queue
<1>3. \A u \in QType : u["sleep"] = u.sleep
  BY DEF QType
<1>4. Wakeable(s, "sleep", R, S)
  BY <1>1, <1>2, <1>3, <1>0 DEF Wakeable, Apart
<1>5. Woken(s, "sleep", R, S, w)
  BY <1>0, <1>4, WakeWorks
<1> HIDE DEF w
<1>6. /\ w \in WalkType /\ w.at = NULL /\ w.woken \subseteq S
      /\ List(w.q.next, w.q.prev, s.run, R \cup M)
      /\ Spared(s, w.q, "sleep", R \cup S)
  BY <1>5 DEF Woken
<1>7. PICK z : List(w.q.next, w.q.prev, z, S \ M) /\ HeadOr(w.q["sleep"], z, M, S)
  BY <1>5 DEF Woken
<1>8. w.q \in QType /\ w.q["sleep"] = w.q.sleep
  BY <1>3, <1>6 DEF WalkType
<1>9. /\ w.q.run = s.run /\ w.q.block = s.block /\ w.q.cur = s.cur /\ w.q.wait = s.wait
      /\ \A y \in Pcb \ (R \cup S) : w.q.next[y] = s.next[y] /\ w.q.prev[y] = s.prev[y]
  BY <1>6 DEF Spared
<1>10. Queue(w.q, w.q.sleep, S \ M, R \cup M)
  BY <1>7, <1>8 DEF Queue, HeadOr
<1>11. W \subseteq Pcb /\ B \subseteq Pcb /\ W \ M = W
  BY <1>1, <1>6 DEF Queue, List, Ranked, Apart
<1>12. Queue(w.q, w.q.wait, W \ M, R \cup M)
  <2>1. PICK y : List(s.next, s.prev, y, W) /\ (s.wait = y \/ s.wait \in R)
    BY <1>1 DEF Queue
  <2>2. \A u \in W : w.q.next[u] = s.next[u] /\ w.q.prev[u] = s.prev[u]
    BY <1>1, <1>9, <1>11 DEF Apart
  <2>3. List(w.q.next, w.q.prev, y, W)
    BY <2>1, <2>2, Frame
  <2>. QED BY <2>1, <2>3, <1>9, <1>11 DEF Queue
<1>13. List(w.q.next, w.q.prev, w.q.block, Blocked(w.q))
  <2>1. \A u \in B : w.q.next[u] = s.next[u] /\ w.q.prev[u] = s.prev[u]
    BY <1>1, <1>9, <1>11 DEF Apart
  <2>2. List(w.q.next, w.q.prev, s.block, B)
    BY <1>1, <2>1, Frame
  <2>. QED BY <2>2, <1>9 DEF Blocked
<1>14. Apart(R \cup M, S \ M, W \ M, Blocked(w.q))
  BY <1>1, <1>6, <1>9 DEF Apart, Blocked
<1>15. Loose(w.q, R \cup M, S \ M, W \ M)
  BY <1>1, <1>6, <1>8, <1>9, <1>10, <1>12, <1>13, <1>14 DEF Loose
<1>16. ASSUME Lone(S) PROVE w.q.sleep \notin R \cup M
  <2>1. w.q.sleep = z
    BY <1>7, <1>8, <1>16 DEF HeadOr, Lone
  <2>2. z \in (S \ M) \cup {NULL}
    BY <1>7 DEF List, Ranked
  <2>3. NULL \notin R \cup M
    BY <1>6, SchedAssumption DEF List, Ranked, Pcb, NULL
  <2>. QED BY <2>1, <2>2, <2>3, <1>1 DEF Apart
<1>. QED
  BY <1>6, <1>9, <1>15, <1>16 DEF w, Slept

(* The wait queue walked: the waiters that were due are runnable now. *)
Awaited(s, R, S, W, w) ==
  /\ w \in WalkType /\ w.at = NULL /\ w.woken \subseteq W
  /\ Loose(w.q, R \cup w.woken, S \ w.woken, W \ w.woken)
  /\ w.q.cur = s.cur /\ w.q.block = s.block /\ w.q.sleep = s.sleep
  /\ Lone(W) => w.q.wait \notin R \cup w.woken
Awaiting(s, R, S, W, cause) ==
  Walked(cause) = "wait" /\ Loose(s, R, S, W) /\ s.wait \notin R /\ sleepTimeLeft \in Sleepers
LEMMA WakeWaiters ==
  ASSUME NEW s, NEW R, NEW S, NEW W, NEW cause, NEW x,
         Awaiting(s, R, S, W, cause)
  PROVE Awaited(s, R, S, W, Wake(s, cause, x))
<1> DEFINE w == Wake(s, cause, x)
           M == w.woken
           B == Blocked(s)
<1>0. Walked(cause) = "wait" /\ Loose(s, R, S, W) /\ s.wait \notin R /\ sleepTimeLeft \in Sleepers
  BY DEF Awaiting
<1>1. /\ s \in QType /\ s.run = Idle /\ s.cur \in R
      /\ List(s.next, s.prev, s.run, R)
      /\ Queue(s, s.sleep, S, R) /\ Queue(s, s.wait, W, R) /\ List(s.next, s.prev, s.block, B)
      /\ Apart(R, S, W, B)
  BY <1>0 DEF Loose
<1>2. List(s.next, s.prev, s.wait, W)
  BY <1>0, <1>1 DEF Queue
<1>3. \A u \in QType : u["wait"] = u.wait
  BY DEF QType
<1>4. Wakeable(s, "wait", R, W)
  BY <1>1, <1>2, <1>3, <1>0 DEF Wakeable, Apart
<1>5. Woken(s, "wait", R, W, w)
  BY <1>0, <1>4, WakeWorks
<1> HIDE DEF w
<1>6. /\ w \in WalkType /\ w.at = NULL /\ w.woken \subseteq W
      /\ List(w.q.next, w.q.prev, s.run, R \cup M)
      /\ Spared(s, w.q, "wait", R \cup W)
  BY <1>5 DEF Woken
<1>7. PICK z : List(w.q.next, w.q.prev, z, W \ M) /\ HeadOr(w.q["wait"], z, M, W)
  BY <1>5 DEF Woken
<1>8. w.q \in QType /\ w.q["wait"] = w.q.wait
  BY <1>3, <1>6 DEF WalkType
<1>9. /\ w.q.run = s.run /\ w.q.block = s.block /\ w.q.cur = s.cur /\ w.q.sleep = s.sleep
      /\ \A y \in Pcb \ (R \cup W) : w.q.next[y] = s.next[y] /\ w.q.prev[y] = s.prev[y]
  BY <1>6 DEF Spared
<1>10. Queue(w.q, w.q.wait, W \ M, R \cup M)
  BY <1>7, <1>8 DEF Queue, HeadOr
<1>11. S \subseteq Pcb /\ B \subseteq Pcb /\ S \ M = S
  BY <1>1, <1>6 DEF Queue, List, Ranked, Apart
<1>12. Queue(w.q, w.q.sleep, S \ M, R \cup M)
  <2>1. PICK y : List(s.next, s.prev, y, S) /\ (s.sleep = y \/ s.sleep \in R)
    BY <1>1 DEF Queue
  <2>2. \A u \in S : w.q.next[u] = s.next[u] /\ w.q.prev[u] = s.prev[u]
    BY <1>1, <1>9, <1>11 DEF Apart
  <2>3. List(w.q.next, w.q.prev, y, S)
    BY <2>1, <2>2, Frame
  <2>. QED BY <2>1, <2>3, <1>9, <1>11 DEF Queue
<1>13. List(w.q.next, w.q.prev, w.q.block, Blocked(w.q))
  <2>1. \A u \in B : w.q.next[u] = s.next[u] /\ w.q.prev[u] = s.prev[u]
    BY <1>1, <1>9, <1>11 DEF Apart
  <2>2. List(w.q.next, w.q.prev, s.block, B)
    BY <1>1, <2>1, Frame
  <2>. QED BY <2>2, <1>9 DEF Blocked
<1>14. Apart(R \cup M, S \ M, W \ M, Blocked(w.q))
  BY <1>1, <1>6, <1>9 DEF Apart, Blocked
<1>15. Loose(w.q, R \cup M, S \ M, W \ M)
  BY <1>1, <1>6, <1>8, <1>9, <1>10, <1>12, <1>13, <1>14 DEF Loose
<1>16. ASSUME Lone(W) PROVE w.q.wait \notin R \cup M
  <2>1. w.q.wait = z
    BY <1>7, <1>8, <1>16 DEF HeadOr, Lone
  <2>2. z \in (W \ M) \cup {NULL}
    BY <1>7 DEF List, Ranked
  <2>3. NULL \notin R \cup M
    BY <1>6, SchedAssumption DEF List, Ranked, Pcb, NULL
  <2>. QED BY <2>1, <2>2, <2>3, <1>1 DEF Apart
<1>. QED
  BY <1>6, <1>9, <1>15, <1>16 DEF w, Awaited

(* The waiters woken are the ones that were due. *)
LEMMA WakesDue ==
  ASSUME NEW s, NEW R, NEW S, NEW W, NEW cause \in {"slice", "exit"}, NEW x,
         Awaiting(s, R, S, W, cause)
  PROVE \A y \in W : y \in Wake(s, cause, x).woken <=> Wants(cause, x, y)
<1>1. /\ Walked(cause) = "wait" /\ s \in QType /\ s.cur \in R /\ R \cap W = {}
      /\ List(s.next, s.prev, s.run, R) /\ sleepTimeLeft \in Sleepers
  BY DEF Awaiting, Loose, Apart
<1>2. List(s.next, s.prev, s.wait, W)
  BY DEF Awaiting, Loose, Queue
<1>3. s["wait"] = s.wait
  BY <1>1 DEF QType
<1>4. Wakeable(s, Walked(cause), R, W)
  BY <1>1, <1>2, <1>3 DEF Wakeable
<1>. QED BY <1>4, WakeWorks

(* A process outside the queues, or the blocked reader, joins the run queue *)
(* at its end t; the blocked reader is then no longer blocked.              *)
LEMMA Joins ==
  ASSUME NEW s, NEW R, NEW S, NEW W, Tight(s, R, S, W),
         NEW t \in R, s.next[t] = NULL, NEW p \in Pcb \ (R \cup S \cup W)
  PROVE LET m == Append(s, t, p) IN
        /\ p \notin Blocked(s) => Tight(m, R \cup {p}, S, W)
        /\ p \in Blocked(s) => Tight([m EXCEPT !.block = NULL], R \cup {p}, S, W)
        /\ m.cur = s.cur /\ m.block = s.block
<1> DEFINE m == Append(s, t, p)
           B == Blocked(s)
           k == [m EXCEPT !.block = NULL]
<1>1. /\ s \in QType /\ s.run = Idle /\ s.cur \in R
      /\ List(s.next, s.prev, s.run, R)
      /\ List(s.next, s.prev, s.sleep, S) /\ List(s.next, s.prev, s.wait, W)
      /\ List(s.next, s.prev, s.block, B)
      /\ Apart(R, S, W, B)
      /\ R \subseteq Pcb /\ S \subseteq Pcb /\ W \subseteq Pcb /\ B \subseteq Pcb
  BY TightLists
<1>2. /\ m \in QType /\ Same(s, m, R \cup {p}) /\ List(m.next, m.prev, s.run, R \cup {p})
  BY <1>1, AppendList
<1> HIDE DEF m
<1>3. /\ \A x \in S : m.next[x] = s.next[x] /\ m.prev[x] = s.prev[x]
      /\ \A x \in W : m.next[x] = s.next[x] /\ m.prev[x] = s.prev[x]
      /\ p \notin B => \A x \in B : m.next[x] = s.next[x] /\ m.prev[x] = s.prev[x]
  BY <1>1, <1>2 DEF Same, Apart
<1>4. List(m.next, m.prev, s.sleep, S)
  BY <1>1, <1>3, Frame
<1>5. List(m.next, m.prev, s.wait, W)
  BY <1>1, <1>3, Frame
<1>6. /\ m.run = s.run /\ m.sleep = s.sleep /\ m.wait = s.wait /\ m.block = s.block /\ m.cur = s.cur
  BY <1>2 DEF Same
<1>7. ASSUME p \notin B PROVE Tight(m, R \cup {p}, S, W)
  <2>1. List(m.next, m.prev, m.block, Blocked(m)) /\ Blocked(m) = B
    <3>1. List(m.next, m.prev, s.block, B)
      BY <1>1, <1>3, <1>7, Frame
    <3>. QED BY <3>1, <1>6 DEF Blocked
  <2>2. Apart(R \cup {p}, S, W, Blocked(m))
    BY <1>1, <1>7, <2>1 DEF Apart
  <2>. QED BY <1>1, <1>2, <1>4, <1>5, <1>6, <2>1, <2>2, ListsTight
<1>8. ASSUME p \in B PROVE Tight(k, R \cup {p}, S, W)
  <2>1. /\ k \in QType /\ k.next = m.next /\ k.prev = m.prev /\ k.block = NULL /\ k.run = m.run
        /\ k.sleep = m.sleep /\ k.wait = m.wait /\ k.cur = m.cur
    BY <1>2 DEF QType
  <2> HIDE DEF k
  <2>2. Blocked(k) = {}
    BY <2>1 DEF Blocked
  <2>3. List(k.next, k.prev, k.block, Blocked(k))
    <3>1. Ranked(k.next, k.prev, NULL, {}, [x \in {} |-> 0])
      BY DEF Ranked
    <3>2. [x \in {} |-> 0] \in [{} -> Nat]
      OBVIOUS
    <3>. QED BY <2>1, <2>2, <3>1, <3>2 DEF List
  <2>4. Apart(R \cup {p}, S, W, Blocked(k))
    BY <1>1, <2>2 DEF Apart
  <2>. QED BY <1>1, <1>2, <1>4, <1>5, <1>6, <2>1, <2>3, <2>4, ListsTight
<1>. QED
  BY <1>6, <1>7, <1>8 DEF m

(* Park: from the run queue to the end of the sleep or the wait queue. *)
LEMMA ParkSleep ==
  ASSUME NEW s, NEW R, NEW S, NEW W, Tight(s, R, S, W), s.cur # Idle
  PROVE LET p == s.cur
            m == Park(s, "sleep")
        IN Tight(m, R \ {p}, S \cup {p}, W) /\ m.block = s.block
<1> DEFINE p == s.cur
           B == Blocked(s)
           t == Last(s, s["sleep"])
           r == Unlink([s EXCEPT !.run = s.run], p)
           g == IF s["sleep"] # NULL THEN Append(r, t, p)
                ELSE [r EXCEPT !["sleep"] = p, !.next[p] = NULL, !.prev[p] = NULL]
           c == Successor([s EXCEPT !.run = s.run])
           m == [g EXCEPT !.cur = c]
<1>0. NULL \notin Pcb
  BY SchedAssumption DEF Pcb, NULL
<1>1. /\ s \in QType /\ s.run = Idle /\ p \in R /\ Idle \in R
      /\ List(s.next, s.prev, s.run, R)
      /\ List(s.next, s.prev, s.sleep, S) /\ List(s.next, s.prev, s.wait, W)
      /\ List(s.next, s.prev, s.block, B)
      /\ Apart(R, S, W, B)
      /\ R \subseteq Pcb /\ S \subseteq Pcb /\ W \subseteq Pcb /\ B \subseteq Pcb
  BY TightLists
<1>2. Park(s, "sleep") = m
  BY <1>1 DEF Park
<1>3. [s EXCEPT !.run = s.run] = s /\ s["sleep"] = s.sleep
  BY <1>1 DEF QType
<1>4. s.sleep = NULL <=> S = {}
  BY <1>0, <1>1 DEF List, Ranked
<1>5. /\ r \in QType /\ Same(s, r, R) /\ List(r.next, r.prev, Idle, R \ {p})
  BY <1>1, <1>3, UnlinkList
<1>6. c \in R \ {p}
  <2>1. s.next[p] \in R \cup {NULL} /\ s.next[p] # p
    BY <1>0, <1>1 DEF List, Ranked
  <2>. QED BY <2>1, <1>1, <1>3 DEF Successor
<1>7. /\ g \in QType /\ g.run = Idle /\ g.wait = s.wait /\ g.block = s.block
      /\ \A x \in Pcb \ (S \cup {p}) : g.next[x] = r.next[x] /\ g.prev[x] = r.prev[x]
      /\ List(g.next, g.prev, g.sleep, S \cup {p})
  <2>1. CASE s.sleep # NULL
    <3>1. t \in S /\ s.next[t] = NULL
      BY <2>1, <1>1, <1>3, <1>4, Lists
    <3>2. \A x \in S : r.next[x] = s.next[x] /\ r.prev[x] = s.prev[x]
      BY <1>1, <1>5 DEF Same, Apart
    <3>3. List(r.next, r.prev, s.sleep, S)
      BY <3>2, <1>1, Frame
    <3>4. g = Append(r, t, p)
      BY <2>1, <1>3
    <3> HIDE DEF r, t, g, p
    <3>5. r.next[t] = NULL /\ p \in Pcb \ S
      BY <3>1, <3>2, <1>1 DEF Apart
    <3>6. g \in QType /\ Same(r, g, S \cup {p}) /\ List(g.next, g.prev, s.sleep, S \cup {p})
      BY <3>1, <3>3, <3>4, <3>5, <1>5, AppendList
    <3>. QED BY <3>6, <1>1, <1>5 DEF Same
  <2>2. CASE s.sleep = NULL
    <3>1. g = [r EXCEPT !["sleep"] = p, !.next[p] = NULL, !.prev[p] = NULL]
      BY <2>2, <1>3
    <3> HIDE DEF r
    <3>2. p \in Pcb
      BY <1>1
    <3>3. g = [r EXCEPT !.sleep = p, !.next = [r.next EXCEPT ![p] = NULL], !.prev = [r.prev EXCEPT ![p] = NULL]]
      BY <3>1, <3>2, <1>5 DEF QType, Links
    <3> HIDE DEF g, p
    <3>4. /\ g \in QType /\ g.sleep = p /\ g.run = r.run /\ g.wait = r.wait /\ g.block = r.block
          /\ g.next = [r.next EXCEPT ![p] = NULL] /\ g.prev = [r.prev EXCEPT ![p] = NULL]
      BY <3>2, <3>3, <1>5 DEF QType, Links
    <3>5. g.next[p] = NULL /\ g.prev[p] = NULL
      BY <3>2, <3>4, <1>5 DEF QType, Links
    <3>6. List(g.next, g.prev, p, {p}) /\ S \cup {p} = {p}
      BY <3>2, <3>5, <2>2, <1>4, Single
    <3>7. \A x \in Pcb \ {p} : g.next[x] = r.next[x] /\ g.prev[x] = r.prev[x]
      BY <3>4, <1>5 DEF QType, Links
    <3>. QED BY <3>4, <3>6, <3>7, <1>1, <1>5 DEF Same
  <2>. QED BY <2>1, <2>2
<1> HIDE DEF g, c, r, t, p
<1>8. /\ m \in QType /\ m.next = g.next /\ m.prev = g.prev /\ m.cur = c
      /\ m.run = g.run /\ m.sleep = g.sleep /\ m.wait = g.wait /\ m.block = g.block
  BY <1>1, <1>6, <1>7 DEF QType
<1> HIDE DEF m
<1>9. /\ \A x \in R \ {p} : m.next[x] = r.next[x] /\ m.prev[x] = r.prev[x]
      /\ \A x \in W \cup B : m.next[x] = s.next[x] /\ m.prev[x] = s.prev[x]
  BY <1>1, <1>5, <1>7, <1>8 DEF Same, Apart
<1>10. /\ List(m.next, m.prev, Idle, R \ {p})
  BY <1>5, <1>9, Frame
<1>11. List(m.next, m.prev, s.wait, W)
  BY <1>1, <1>9, Frame
<1>12. List(m.next, m.prev, s.block, B)
  BY <1>1, <1>9, Frame
<1>13. B = Blocked(m)
  BY <1>7, <1>8 DEF Blocked
<1>14. Apart(R \ {p}, S \cup {p}, W, Blocked(m))
  BY <1>1, <1>13 DEF Apart
<1>15. Tight(m, R \ {p}, S \cup {p}, W)
  BY <1>6, <1>7, <1>8, <1>10, <1>11, <1>12, <1>13, <1>14, ListsTight
<1>. QED
  BY <1>2, <1>4, <1>7, <1>8, <1>15 DEF p

LEMMA ParkWait ==
  ASSUME NEW s, NEW R, NEW S, NEW W, Tight(s, R, S, W), s.cur # Idle
  PROVE LET p == s.cur
            m == Park(s, "wait")
        IN Tight(m, R \ {p}, S, W \cup {p}) /\ m.block = s.block
<1> DEFINE p == s.cur
           B == Blocked(s)
           t == Last(s, s["wait"])
           r == Unlink([s EXCEPT !.run = s.run], p)
           g == IF s["wait"] # NULL THEN Append(r, t, p)
                ELSE [r EXCEPT !["wait"] = p, !.next[p] = NULL, !.prev[p] = NULL]
           c == Successor([s EXCEPT !.run = s.run])
           m == [g EXCEPT !.cur = c]
<1>0. NULL \notin Pcb
  BY SchedAssumption DEF Pcb, NULL
<1>1. /\ s \in QType /\ s.run = Idle /\ p \in R /\ Idle \in R
      /\ List(s.next, s.prev, s.run, R)
      /\ List(s.next, s.prev, s.sleep, S) /\ List(s.next, s.prev, s.wait, W)
      /\ List(s.next, s.prev, s.block, B)
      /\ Apart(R, S, W, B)
      /\ R \subseteq Pcb /\ S \subseteq Pcb /\ W \subseteq Pcb /\ B \subseteq Pcb
  BY TightLists
<1>2. Park(s, "wait") = m
  BY <1>1 DEF Park
<1>3. [s EXCEPT !.run = s.run] = s /\ s["wait"] = s.wait
  BY <1>1 DEF QType
<1>4. s.wait = NULL <=> W = {}
  BY <1>0, <1>1 DEF List, Ranked
<1>5. /\ r \in QType /\ Same(s, r, R) /\ List(r.next, r.prev, Idle, R \ {p})
  BY <1>1, <1>3, UnlinkList
<1>6. c \in R \ {p}
  <2>1. s.next[p] \in R \cup {NULL} /\ s.next[p] # p
    BY <1>0, <1>1 DEF List, Ranked
  <2>. QED BY <2>1, <1>1, <1>3 DEF Successor
<1>7. /\ g \in QType /\ g.run = Idle /\ g.sleep = s.sleep /\ g.block = s.block
      /\ \A x \in Pcb \ (W \cup {p}) : g.next[x] = r.next[x] /\ g.prev[x] = r.prev[x]
      /\ List(g.next, g.prev, g.wait, W \cup {p})
  <2>1. CASE s.wait # NULL
    <3>1. t \in W /\ s.next[t] = NULL
      BY <2>1, <1>1, <1>3, <1>4, Lists
    <3>2. \A x \in W : r.next[x] = s.next[x] /\ r.prev[x] = s.prev[x]
      BY <1>1, <1>5 DEF Same, Apart
    <3>3. List(r.next, r.prev, s.wait, W)
      BY <3>2, <1>1, Frame
    <3>4. g = Append(r, t, p)
      BY <2>1, <1>3
    <3> HIDE DEF r, t, g, p
    <3>5. r.next[t] = NULL /\ p \in Pcb \ W
      BY <3>1, <3>2, <1>1 DEF Apart
    <3>6. g \in QType /\ Same(r, g, W \cup {p}) /\ List(g.next, g.prev, s.wait, W \cup {p})
      BY <3>1, <3>3, <3>4, <3>5, <1>5, AppendList
    <3>. QED BY <3>6, <1>1, <1>5 DEF Same
  <2>2. CASE s.wait = NULL
    <3>1. g = [r EXCEPT !["wait"] = p, !.next[p] = NULL, !.prev[p] = NULL]
      BY <2>2, <1>3
    <3> HIDE DEF r
    <3>2. p \in Pcb
      BY <1>1
    <3>3. g = [r EXCEPT !.wait = p, !.next = [r.next EXCEPT ![p] = NULL], !.prev = [r.prev EXCEPT ![p] = NULL]]
      BY <3>1, <3>2, <1>5 DEF QType, Links
    <3> HIDE DEF g, p
    <3>4. /\ g \in QType /\ g.wait = p /\ g.run = r.run /\ g.sleep = r.sleep /\ g.block = r.block
          /\ g.next = [r.next EXCEPT ![p] = NULL] /\ g.prev = [r.prev EXCEPT ![p] = NULL]
      BY <3>2, <3>3, <1>5 DEF QType, Links
    <3>5. g.next[p] = NULL /\ g.prev[p] = NULL
      BY <3>2, <3>4, <1>5 DEF QType, Links
    <3>6. List(g.next, g.prev, p, {p}) /\ W \cup {p} = {p}
      BY <3>2, <3>5, <2>2, <1>4, Single
    <3>7. \A x \in Pcb \ {p} : g.next[x] = r.next[x] /\ g.prev[x] = r.prev[x]
      BY <3>4, <1>5 DEF QType, Links
    <3>. QED BY <3>4, <3>6, <3>7, <1>1, <1>5 DEF Same
  <2>. QED BY <2>1, <2>2
<1> HIDE DEF g, c, r, t, p
<1>8. /\ m \in QType /\ m.next = g.next /\ m.prev = g.prev /\ m.cur = c
      /\ m.run = g.run /\ m.sleep = g.sleep /\ m.wait = g.wait /\ m.block = g.block
  BY <1>1, <1>6, <1>7 DEF QType
<1> HIDE DEF m
<1>9. /\ \A x \in R \ {p} : m.next[x] = r.next[x] /\ m.prev[x] = r.prev[x]
      /\ \A x \in S \cup B : m.next[x] = s.next[x] /\ m.prev[x] = s.prev[x]
  BY <1>1, <1>5, <1>7, <1>8 DEF Same, Apart
<1>10. /\ List(m.next, m.prev, Idle, R \ {p})
  BY <1>5, <1>9, Frame
<1>11. List(m.next, m.prev, s.sleep, S)
  BY <1>1, <1>9, Frame
<1>12. List(m.next, m.prev, s.block, B)
  BY <1>1, <1>9, Frame
<1>13. B = Blocked(m)
  BY <1>7, <1>8 DEF Blocked
<1>14. Apart(R \ {p}, S, W \cup {p}, Blocked(m))
  BY <1>1, <1>13 DEF Apart
<1>15. Tight(m, R \ {p}, S, W \cup {p})
  BY <1>6, <1>7, <1>8, <1>10, <1>11, <1>12, <1>13, <1>14, ListsTight
<1>. QED
  BY <1>2, <1>4, <1>7, <1>8, <1>15 DEF p

(* Resume: the parent leaves the wait queue and is linked in behind p. *)
Resumed(s, m, R, S, W, y) ==
  Tight(m, R \cup {y}, S, W \ {y}) /\ m.block = s.block /\ m.cur = y
LEMMA Resumes ==
  ASSUME NEW s, NEW R, NEW S, NEW W, Tight(s, R, S, W), NEW y \in W
  PROVE Resumed(s, Resume(s, s.cur, y), R, S, W, y)
<1> DEFINE p == s.cur
           B == Blocked(s)
           e == IF y = s.wait THEN [s EXCEPT !.wait = s.next[y]] ELSE s
           u == Unlink(e, y)
           n == u.next[p]
           i == [u EXCEPT !.next = [@ EXCEPT ![y] = n, ![p] = y], !.prev[y] = p]
           m == [i EXCEPT !.prev = IF n = NULL THEN @ ELSE [@ EXCEPT ![n] = y], !.cur = y]
           w == IF s.wait = y THEN s.next[y] ELSE s.wait
<1>0. NULL \notin Pcb
  BY SchedAssumption DEF Pcb, NULL
<1>1. /\ s \in QType /\ s.run = Idle /\ p \in R
      /\ List(s.next, s.prev, s.run, R)
      /\ List(s.next, s.prev, s.sleep, S) /\ List(s.next, s.prev, s.wait, W)
      /\ List(s.next, s.prev, s.block, B)
      /\ Apart(R, S, W, B)
      /\ R \subseteq Pcb /\ S \subseteq Pcb /\ W \subseteq Pcb /\ B \subseteq Pcb
  BY TightLists
<1>2. Resume(s, p, y) = m
  BY DEF Resume, LeaveWaiting
<1>3. /\ y \in Pcb /\ y \notin R /\ y # p /\ p \in Pcb
      /\ s.next[y] \in Pcb \cup {NULL} /\ s.next[p] \in R \cup {NULL}
  BY <1>1 DEF List, Ranked, Apart
<1>4. /\ e \in QType /\ e.next = s.next /\ e.prev = s.prev /\ e.wait = w
      /\ e.run = s.run /\ e.sleep = s.sleep /\ e.block = s.block
  BY <1>1, <1>3 DEF QType
<1> HIDE DEF e, w
<1>5. /\ u \in QType /\ Same(e, u, W) /\ List(u.next, u.prev, w, W \ {y})
  <2>1. List(e.next, e.prev, s.wait, W)
    BY <1>1, <1>4
  <2>. QED BY <2>1, <1>4, UnlinkList DEF w
<1> HIDE DEF u
<1>6. /\ \A x \in R : u.next[x] = s.next[x] /\ u.prev[x] = s.prev[x]
      /\ \A x \in S \cup B : u.next[x] = s.next[x] /\ u.prev[x] = s.prev[x]
  BY <1>1, <1>4, <1>5 DEF Same, Apart
<1>7. List(u.next, u.prev, s.run, R) /\ n \in R \cup {NULL}
  <2>1. List(u.next, u.prev, s.run, R)
    BY <1>1, <1>6, Frame
  <2>. QED BY <2>1, <1>1, <1>3, <1>6
<1>8. u.next \in Links /\ u.prev \in Links /\ n \in Pcb \cup {NULL}
  BY <1>1, <1>5, <1>7 DEF QType
<1> HIDE DEF n, p
<1>9. i = [u EXCEPT !.next = [u.next EXCEPT ![y] = n, ![p] = y], !.prev = [u.prev EXCEPT ![y] = p]]
  BY <1>3, <1>5, <1>8 DEF QType, Links
<1> HIDE DEF i
<1>10. /\ i \in QType /\ i.next = [u.next EXCEPT ![y] = n, ![p] = y] /\ i.prev = [u.prev EXCEPT ![y] = p]
       /\ i.run = u.run /\ i.sleep = u.sleep /\ i.wait = u.wait /\ i.block = u.block
  BY <1>3, <1>5, <1>8, <1>9 DEF QType, Links
<1>11. /\ m \in QType /\ m.next = i.next
       /\ m.prev = IF n = NULL THEN i.prev ELSE [i.prev EXCEPT ![n] = y]
       /\ m.run = i.run /\ m.sleep = i.sleep /\ m.wait = i.wait /\ m.block = i.block /\ m.cur = y
  BY <1>3, <1>8, <1>10 DEF QType, Links
<1> HIDE DEF m
<1>12. /\ m.next \in Links /\ m.prev \in Links
       /\ \A x \in Pcb : m.next[x] = IF x = y THEN n ELSE IF x = p THEN y ELSE u.next[x]
  BY <1>3, <1>8, <1>10, <1>11 DEF QType, Links
<1>13. n # y
  BY <1>0, <1>3, <1>7
<1>14. \A x \in Pcb : m.prev[x] = IF x = y THEN p ELSE IF n # NULL /\ x = n THEN y ELSE u.prev[x]
  BY <1>3, <1>8, <1>10, <1>11, <1>13 DEF Links
<1>15. List(m.next, m.prev, s.run, R \cup {y})
  <2>1. p \in R /\ y \in Pcb \ R /\ u.next[p] = n
    BY <1>1, <1>3 DEF n, p
  <2>. QED BY <2>1, <1>7, <1>8, <1>12, <1>14, Insert
<1>16. \A x \in Pcb \ (R \cup {y}) : m.next[x] = u.next[x] /\ m.prev[x] = u.prev[x]
  BY <1>0, <1>1, <1>7, <1>12, <1>14 DEF p
<1>17. List(m.next, m.prev, s.sleep, S)
  <2>1. \A x \in S : m.next[x] = s.next[x] /\ m.prev[x] = s.prev[x]
    BY <1>1, <1>6, <1>16 DEF Apart
  <2>. QED BY <2>1, <1>1, Frame
<1>18. List(m.next, m.prev, s.block, B)
  <2>1. \A x \in B : m.next[x] = s.next[x] /\ m.prev[x] = s.prev[x]
    BY <1>1, <1>6, <1>16 DEF Apart
  <2>. QED BY <2>1, <1>1, Frame
<1>19. List(m.next, m.prev, w, W \ {y})
  <2>1. \A x \in W \ {y} : m.next[x] = u.next[x] /\ m.prev[x] = u.prev[x]
    BY <1>1, <1>16 DEF Apart
  <2>. QED BY <2>1, <1>5, Frame
<1>20. m.run = s.run /\ m.sleep = s.sleep /\ m.wait = w /\ m.block = s.block /\ Blocked(m) = B
  BY <1>4, <1>5, <1>10, <1>11 DEF Same, Blocked
<1>21. Apart(R \cup {y}, S, W \ {y}, Blocked(m))
  BY <1>1, <1>20 DEF Apart
<1>22. Tight(m, R \cup {y}, S, W \ {y})
  BY <1>1, <1>11, <1>15, <1>17, <1>18, <1>19, <1>20, <1>21, ListsTight
<1>. QED
  BY <1>2, <1>11, <1>20, <1>22 DEF Resumed, p

(* BlockReader: off the run queue; a second reader is in no queue. *)
LEMMA Blocks ==
  ASSUME NEW s, NEW R, NEW S, NEW W, Tight(s, R, S, W), s.cur # Idle
  PROVE LET m == BlockReader(s, s.cur) IN
        Tight(m, R \ {s.cur}, S, W) /\ m.block = IF s.block = NULL THEN s.cur ELSE s.block
<1> DEFINE p == s.cur
           B == Blocked(s)
           b == IF s.block = NULL THEN p ELSE s.block
           u == Unlink(s, p)
           o == [u EXCEPT !.run = IF s.prev[p] = NULL THEN s.next[p] ELSE @]
           c == IF s.next[p] = NULL THEN o.run ELSE s.next[p]
           m == [o EXCEPT !.block = b, !.next[b] = NULL, !.prev[b] = NULL, !.cur = c]
<1>0. NULL \notin Pcb
  BY SchedAssumption DEF Pcb, NULL
<1>1. /\ s \in QType /\ s.run = Idle /\ p \in R /\ Idle \in R
      /\ List(s.next, s.prev, s.run, R)
      /\ List(s.next, s.prev, s.sleep, S) /\ List(s.next, s.prev, s.wait, W)
      /\ List(s.next, s.prev, s.block, B)
      /\ Apart(R, S, W, B)
      /\ R \subseteq Pcb /\ S \subseteq Pcb /\ W \subseteq Pcb /\ B \subseteq Pcb
  BY TightLists
<1>2. BlockReader(s, p) = m
  BY DEF BlockReader
<1>3. /\ p \in Pcb /\ s.prev[p] # NULL
      /\ s.next[p] \in R \cup {NULL} /\ s.next[p] # p
  BY <1>0, <1>1 DEF List, Ranked
<1>4. u \in QType /\ Same(s, u, R) /\ List(u.next, u.prev, Idle, R \ {p})
  BY <1>1, UnlinkList
<1> HIDE DEF u
<1>5. o = u
  BY <1>3, <1>4 DEF QType
<1> HIDE DEF o
<1>6. c \in R \ {p} /\ b \in Pcb /\ b \in B \cup {p}
  BY <1>1, <1>3, <1>4, <1>5 DEF Same, Blocked
<1> HIDE DEF b, c, p
<1>7. m = [o EXCEPT !.block = b, !.next = [o.next EXCEPT ![b] = NULL], !.prev = [o.prev EXCEPT ![b] = NULL],
                    !.cur = c]
  BY <1>4, <1>5, <1>6 DEF QType, Links
<1> HIDE DEF m
<1>8. /\ m \in QType /\ m.next = [o.next EXCEPT ![b] = NULL] /\ m.prev = [o.prev EXCEPT ![b] = NULL]
      /\ m.block = b /\ m.cur = c /\ m.run = o.run /\ m.sleep = o.sleep /\ m.wait = o.wait
  <2>1. c \in Pcb /\ b \in Pcb
    BY <1>1, <1>6
  <2>2. [o.next EXCEPT ![b] = NULL] \in Links /\ [o.prev EXCEPT ![b] = NULL] \in Links
    BY <2>1, <1>4, <1>5 DEF QType, Links
  <2>. QED BY <2>1, <2>2, <1>4, <1>5, <1>7 DEF QType
<1>9. /\ m.next[b] = NULL /\ m.prev[b] = NULL
      /\ \A x \in Pcb \ {b} : m.next[x] = u.next[x] /\ m.prev[x] = u.prev[x]
  BY <1>4, <1>5, <1>6, <1>8 DEF QType, Links
<1>10. List(m.next, m.prev, b, {b}) /\ Blocked(m) = {b}
  BY <1>0, <1>6, <1>8, <1>9, Single DEF Blocked
<1>11. \A x \in S \cup W : m.next[x] = s.next[x] /\ m.prev[x] = s.prev[x]
  BY <1>1, <1>4, <1>6, <1>9 DEF Same, Apart
<1>12. List(m.next, m.prev, s.sleep, S)
  BY <1>1, <1>11, Frame
<1>13. List(m.next, m.prev, s.wait, W)
  BY <1>1, <1>11, Frame
<1>14. List(m.next, m.prev, Idle, R \ {p})
  <2>1. \A x \in R \ {p} : m.next[x] = u.next[x] /\ m.prev[x] = u.prev[x]
    BY <1>1, <1>6, <1>9 DEF Apart
  <2>. QED BY <2>1, <1>4, Frame
<1>15. m.run = Idle /\ m.sleep = s.sleep /\ m.wait = s.wait
  BY <1>1, <1>4, <1>5, <1>8 DEF Same
<1>16. Apart(R \ {p}, S, W, Blocked(m))
  BY <1>1, <1>6, <1>10 DEF Apart
<1>17. Tight(m, R \ {p}, S, W)
  BY <1>6, <1>8, <1>10, <1>12, <1>13, <1>14, <1>15, <1>16, ListsTight
<1>. QED
  BY <1>2, <1>8, <1>17 DEF p, b

(* deleteNode changes no head variable. *)
LEMMA DeleteHeads ==
  ASSUME NEW s \in QType, NEW head, NEW x \in Pcb, x # s.cur
  PROVE LET d == deleteNode(s, head, x) IN
        /\ d \in QType /\ d.run = s.run /\ d.sleep = s.sleep /\ d.wait = s.wait /\ d.block = s.block
        /\ d.cur = s.cur
<1> DEFINE d == deleteNode(s, head, x)
           v == Behead(s, x)
<1>0. MoveOn(s, x) = s
  BY DEF MoveOn
<1>1. d = v \/ d = Unlink(s, x) \/ d = s
  BY <1>0 DEF deleteNode
<1> HIDE DEF d
<1>2. v \in QType /\ v.run = s.run /\ v.sleep = s.sleep /\ v.wait = s.wait /\ v.block = s.block
      /\ v.cur = s.cur
  BY DEF QType, Links, Behead
<1> HIDE DEF v
<1>. QED BY <1>1, <1>2, UnlinkFields DEF d

(* A node that the walk from head cannot reach is left alone. *)
Within(s, head, X) ==
  X \subseteq Pcb /\ head \in X \cup {NULL} /\ \A y \in X : s.next[y] \in X \cup {NULL}
LEMMA DeleteAway ==
  ASSUME NEW s, NEW head, NEW x, NEW X, Within(s, head, X), x # s.cur, x # head, x \notin X
  PROVE deleteNode(s, head, x) = s
<1>1. Chain(s, head) \subseteq X
  BY Closed DEF Within
<1>2. MoveOn(s, x) = s
  BY DEF MoveOn
<1>. QED BY <1>1, <1>2 DEF deleteNode

(* A node behind the head of its list is unlinked. *)
LEMMA DeleteIn ==
  ASSUME NEW s \in QType, NEW head, NEW X, List(s.next, s.prev, head, X), NEW x \in X, x # head,
         Successor(s) \in Pcb
  PROVE LET d == deleteNode(s, head, x)
            u == Unlink(s, x)
        IN /\ d \in QType /\ d.next = u.next /\ d.prev = u.prev
           /\ d.run = s.run /\ d.sleep = s.sleep /\ d.wait = s.wait /\ d.block = s.block
           /\ d.cur = IF x = s.cur THEN Successor(s) ELSE s.cur
<1> DEFINE v == MoveOn(s, x)
<1>0. x \in Pcb
  BY DEF List, Ranked
<1> HIDE DEF Successor
<1>1. /\ v \in QType /\ v.next = s.next /\ v.prev = s.prev
      /\ v.run = s.run /\ v.sleep = s.sleep /\ v.wait = s.wait /\ v.block = s.block
      /\ v.cur = IF x = s.cur THEN Successor(s) ELSE s.cur
  BY DEF QType, MoveOn
<1>2. deleteNode(s, head, x) = IF x \in Chain(v, head) THEN Unlink(v, x) ELSE v
  BY DEF deleteNode
<1> HIDE DEF v
<1>3. x \in Chain(v, head)
  BY <1>1, Lists
<1>4. deleteNode(s, head, x) = Unlink(v, x)
  BY <1>2, <1>3
<1>5. Unlink(v, x).next = Unlink(s, x).next /\ Unlink(v, x).prev = Unlink(s, x).prev
  BY <1>0, <1>1, UnlinkFields
<1>. QED BY <1>0, <1>1, <1>4, <1>5, UnlinkFields

(* What a deletion leaves: a head variable that names the deleted process   *)
(* or a runnable one, or the shape without x.                               *)
Stray(t, x) == x \in {t.sleep, t.wait, t.block} \/ t.wait \in Chain(t, t.run)
Without(t, R, S, W, x) ==
  Loose(t, R \ {x}, S \ {x}, W \ {x}) /\ x \notin Blocked(t)

(* The deleted PCB ends without links. *)
LEMMA CutLinks ==
  ASSUME NEW d \in QType, NEW x \in Pcb
  PROVE LET t == [d EXCEPT !.next[x] = NULL, !.prev[x] = NULL] IN
        /\ t \in QType /\ Same(d, t, {x})
BY DEF QType, Links, Same

(* delete_process of a member x of a queue; t is what it leaves. *)
Quit(s, t, R, S, W, x) ==
  /\ t \in QType /\ t.block = s.block
  /\ Stray(t, x) \/ Without(t, R, S, W, x)
  /\ x \in R /\ s.wait \notin R => Tight(t, R \ {x}, S, W)
LEMMA Quits ==
  ASSUME NEW s, NEW R, NEW S, NEW W, Loose(s, R, S, W), s.sleep \notin R,
         NEW x \in R \cup S \cup W \cup Blocked(s), x # Idle
  PROVE Quit(s, LeaveQueues(s, x), R, S, W, x)
<1> DEFINE B == Blocked(s)
           d1 == deleteNode(s, s.run, x)
           d2 == deleteNode(d1, s.sleep, x)
           d3 == deleteNode(d2, s.wait, x)
           d4 == deleteNode(d3, s.block, x)
           t == [d4 EXCEPT !.next[x] = NULL, !.prev[x] = NULL]
<1>0. NULL \notin Pcb
  BY SchedAssumption DEF Pcb, NULL
<1>1. /\ s \in QType /\ s.run = Idle /\ s.cur \in R
      /\ List(s.next, s.prev, Idle, R)
      /\ Queue(s, s.wait, W, R) /\ List(s.next, s.prev, s.sleep, S)
      /\ List(s.next, s.prev, s.block, B)
      /\ Apart(R, S, W, B)
  BY DEF Loose, Queue
<1>2. PICK z : List(s.next, s.prev, z, W) /\ (s.wait = z \/ s.wait \in R)
  BY <1>1 DEF Queue
<1>3. /\ R \subseteq Pcb /\ S \subseteq Pcb /\ W \subseteq Pcb /\ B \subseteq Pcb /\ Idle \in R
      /\ s.sleep \in S \cup {NULL} /\ z \in W \cup {NULL} /\ s.block \in B \cup {NULL}
      /\ \A y \in R : s.next[y] \in R \cup {NULL}
      /\ \A y \in S : s.next[y] \in S \cup {NULL}
      /\ \A y \in W : s.next[y] \in W \cup {NULL}
      /\ \A y \in B : s.next[y] \in B \cup {NULL}
  BY <1>1, <1>2 DEF List, Ranked
<1>4. LeaveQueues(s, x) = t
  BY DEF LeaveQueues
<1>5. x \in Pcb /\ x # NULL
  BY <1>0, <1>3
<1>6. Successor(s) \in R /\ (s.cur = x => Successor(s) # x)
  BY <1>0, <1>1, <1>3 DEF Successor, List, Ranked
<1>7. ASSUME x \in R, x # s.wait
      PROVE /\ Loose(t, R \ {x}, S, W) /\ x \notin (R \ {x}) \cup S \cup W \cup Blocked(t)
            /\ t.sleep = s.sleep /\ t.wait = s.wait /\ t.block = s.block
  <2> DEFINE u == Unlink(s, x)
  <2>1. /\ d1 \in QType /\ d1.next = u.next /\ d1.prev = u.prev
        /\ d1.run = s.run /\ d1.sleep = s.sleep /\ d1.wait = s.wait /\ d1.block = s.block
        /\ d1.cur \in R \ {x}
    <3>1. List(s.next, s.prev, s.run, R) /\ x # s.run /\ Successor(s) \in Pcb
      BY <1>1, <1>3, <1>6
    <3>. QED BY <1>1, <1>6, <1>7, <3>1, DeleteIn
  <2> HIDE DEF d1
  <2>2. Same(s, u, R) /\ List(u.next, u.prev, Idle, R \ {x})
    BY <1>1, <1>7, UnlinkList
  <2> HIDE DEF u
  <2>3. /\ \A y \in S \cup W \cup B : d1.next[y] = s.next[y] /\ d1.prev[y] = s.prev[y]
        /\ List(d1.next, d1.prev, Idle, R \ {x})
        /\ x \notin S /\ x \notin W /\ x \notin B
    BY <1>1, <1>3, <1>7, <2>1, <2>2 DEF Same, Apart
  <2>4. /\ \A y \in R \ {x} : d1.next[y] \in (R \ {x}) \cup {NULL}
    BY <2>3 DEF List, Ranked
  <2>5. d2 = d1
    <3>1. x # s.sleep /\ x # d1.cur /\ Within(d1, s.sleep, S)
      BY <1>3, <1>5, <2>1, <2>3 DEF Within
    <3>. QED BY <1>3, <2>1, <2>3, <3>1, DeleteAway
  <2>6. deleteNode(d1, s.wait, x) = d1
    <3>1. CASE s.wait = z
      <4>1. x # d1.cur /\ Within(d1, s.wait, W)
        BY <1>3, <2>1, <2>3, <3>1 DEF Within
      <4>. QED BY <1>3, <1>7, <2>1, <2>3, <3>1, <4>1, DeleteAway
    <3>2. CASE s.wait \in R
      <4>1. x # d1.cur /\ x # s.wait /\ x \notin R \ {x} /\ Within(d1, s.wait, R \ {x})
        BY <1>3, <1>7, <2>1, <2>4, <3>2 DEF Within
      <4>. QED BY <4>1, DeleteAway
    <3>. QED BY <1>2, <3>1, <3>2
  <2>7. d3 = d1
    BY <2>5, <2>6
  <2>8. deleteNode(d1, s.block, x) = d1
    <3>1. x # d1.cur /\ x # s.block /\ Within(d1, s.block, B)
      BY <1>3, <1>5, <2>1, <2>3 DEF Within
    <3>. QED BY <1>3, <2>1, <2>3, <3>1, DeleteAway
  <2>9. d4 = d1
    BY <2>7, <2>8
  <2> HIDE DEF d4
  <2>10. t \in QType /\ Same(d1, t, {x})
    BY <1>5, <2>1, <2>9, CutLinks
  <2> HIDE DEF t
  <2>11. \A y \in S \cup W \cup B : t.next[y] = s.next[y] /\ t.prev[y] = s.prev[y]
    BY <1>3, <2>3, <2>10 DEF Same
  <2>12. List(t.next, t.prev, s.sleep, S)
    BY <1>1, <2>11, Frame
  <2>13. List(t.next, t.prev, z, W)
    BY <1>2, <2>11, Frame
  <2>14. List(t.next, t.prev, s.block, B)
    BY <1>1, <2>11, Frame
  <2>15. List(t.next, t.prev, Idle, R \ {x})
    <3>1. \A y \in R \ {x} : t.next[y] = d1.next[y] /\ t.prev[y] = d1.prev[y]
      BY <1>3, <2>10 DEF Same
    <3>. QED BY <3>1, <2>3, Frame
  <2>16. /\ t.run = Idle /\ t.sleep = s.sleep /\ t.wait = s.wait /\ t.block = s.block
         /\ t.cur \in R \ {x} /\ Blocked(t) = B
    BY <1>1, <2>1, <2>10 DEF Same, Blocked
  <2>17. Apart(R \ {x}, S, W, Blocked(t))
    BY <1>1, <2>16 DEF Apart
  <2>18. s.wait = z \/ s.wait \in R \ {x}
    BY <1>2, <1>7
  <2>19. Loose(t, R \ {x}, S, W)
    BY <2>10, <2>12, <2>13, <2>14, <2>15, <2>16, <2>17, <2>18 DEF Loose, Queue
  <2>. QED BY <2>3, <2>16, <2>19
<1>8. ASSUME x \in R
      PROVE t \in QType /\ t.wait = s.wait /\ t.block = s.block
  <2> DEFINE u == Unlink(s, x)
  <2>1. /\ d1 \in QType
        /\ d1.wait = s.wait /\ d1.block = s.block
        /\ d1.cur \in R \ {x}
    <3>1. List(s.next, s.prev, s.run, R) /\ x # s.run /\ Successor(s) \in Pcb
      BY <1>1, <1>3, <1>6
    <3>. QED BY <1>1, <1>6, <1>8, <3>1, DeleteIn
  <2> HIDE DEF d1
  <2>2. d2 \in QType /\ d2.wait = s.wait /\ d2.cur = d1.cur /\ d2.block = s.block
    BY <1>5, <2>1, DeleteHeads
  <2> HIDE DEF d2
  <2>3. d3 \in QType /\ d3.wait = s.wait /\ d3.cur = d1.cur /\ d3.block = s.block
    BY <1>5, <2>1, <2>2, DeleteHeads
  <2> HIDE DEF d3
  <2>4. d4 \in QType /\ d4.wait = s.wait /\ d4.block = s.block
    BY <1>5, <2>1, <2>3, DeleteHeads
  <2> HIDE DEF d4
  <2>. QED BY <1>5, <2>4, CutLinks DEF Same
<1>9. ASSUME x \notin R
      PROVE /\ d1 = s
            /\ t \in QType /\ t.sleep = s.sleep /\ t.wait = s.wait /\ t.block = s.block
  <2>1. x # s.cur /\ x # s.run
    BY <1>1, <1>3, <1>9
  <2>2. d1 = s
    <3>1. Within(s, s.run, R)
      BY <1>1, <1>3 DEF Within
    <3>. QED BY <1>9, <2>1, <3>1, DeleteAway
  <2> HIDE DEF d1
  <2>3. /\ d2 \in QType /\ d2.sleep = s.sleep /\ d2.wait = s.wait /\ d2.block = s.block
        /\ d2.cur = s.cur
    BY <1>1, <1>5, <2>1, <2>2, DeleteHeads
  <2> HIDE DEF d2
  <2>4. /\ d3 \in QType /\ d3.sleep = s.sleep /\ d3.wait = s.wait /\ d3.block = s.block
        /\ d3.cur = s.cur
    BY <1>5, <2>1, <2>3, DeleteHeads
  <2> HIDE DEF d3
  <2>5. d4 \in QType /\ d4.sleep = s.sleep /\ d4.wait = s.wait /\ d4.block = s.block
    BY <1>5, <2>1, <2>4, DeleteHeads
  <2> HIDE DEF d4
  <2>. QED BY <1>5, <2>2, <2>5, CutLinks DEF Same
<1>10. ASSUME x \notin R, x \notin {s.sleep, s.wait, s.block}
       PROVE Stray(t, x) \/ Without(t, R, S, W, x)
  <2>1. d1 = s /\ x # s.cur /\ x \notin B
    BY <1>1, <1>9, <1>10 DEF Blocked
  <2>2. Within(s, s.sleep, S) /\ Within(s, s.block, B)
    BY <1>3 DEF Within
  <2>3. /\ s.wait = z => Within(s, s.wait, W)
        /\ s.wait \in R => Within(s, s.wait, R)
    BY <1>3 DEF Within
  <2>4. Successor(s) \in Pcb
    BY <1>3, <1>6
  <2> HIDE DEF d1
  <2>5. CASE x \in S
    <3> DEFINE u == Unlink(s, x)
    <3>1. /\ d2 \in QType /\ d2.next = u.next /\ d2.prev = u.prev
          /\ d2.run = s.run /\ d2.sleep = s.sleep /\ d2.wait = s.wait /\ d2.block = s.block
          /\ d2.cur = s.cur
      BY <1>1, <1>10, <2>1, <2>4, <2>5, DeleteIn
    <3> HIDE DEF d2
    <3>2. Same(s, u, S) /\ List(u.next, u.prev, s.sleep, S \ {x})
      BY <1>1, <1>10, <2>5, UnlinkList
    <3> HIDE DEF u
    <3>3. /\ \A y \in R \cup W \cup B : d2.next[y] = s.next[y] /\ d2.prev[y] = s.prev[y]
          /\ List(d2.next, d2.prev, s.sleep, S \ {x})
          /\ x \notin W
      BY <1>1, <1>3, <2>5, <3>1, <3>2 DEF Same, Apart
    <3>4. d3 = d2
      <4>1. s.wait = z => Within(d2, s.wait, W)
        BY <2>3, <3>3 DEF Within
      <4>2. s.wait \in R => Within(d2, s.wait, R)
        BY <2>3, <3>3 DEF Within
      <4>. QED BY <1>2, <1>10, <2>1, <3>1, <3>3, <4>1, <4>2, DeleteAway
    <3>5. deleteNode(d2, s.block, x) = d2
      <4>1. Within(d2, s.block, B)
        BY <2>2, <3>3 DEF Within
      <4>. QED BY <1>10, <2>1, <3>1, <4>1, DeleteAway
    <3>6. d4 = d2
      BY <3>4, <3>5
    <3> HIDE DEF d4
    <3>7. t \in QType /\ Same(d2, t, {x})
      BY <1>5, <3>1, <3>6, CutLinks
    <3> HIDE DEF t
    <3>8. \A y \in R \cup W \cup B : t.next[y] = s.next[y] /\ t.prev[y] = s.prev[y]
      BY <1>3, <1>10, <2>1, <3>3, <3>7 DEF Same
    <3>9. List(t.next, t.prev, Idle, R)
      BY <1>1, <3>8, Frame
    <3>10. List(t.next, t.prev, z, W)
      BY <1>2, <3>8, Frame
    <3>11. List(t.next, t.prev, s.block, B)
      BY <1>1, <3>8, Frame
    <3>12. List(t.next, t.prev, s.sleep, S \ {x})
      <4>1. \A y \in S \ {x} : t.next[y] = d2.next[y] /\ t.prev[y] = d2.prev[y]
        BY <1>3, <3>7 DEF Same
      <4>. QED BY <4>1, <3>3, Frame
    <3>13. /\ t.run = Idle /\ t.sleep = s.sleep /\ t.wait = s.wait /\ t.block = s.block
           /\ t.cur \in R /\ Blocked(t) = B
      BY <1>1, <3>1, <3>7 DEF Same, Blocked
    <3>14. Apart(R, S \ {x}, W, Blocked(t))
      BY <1>1, <3>13 DEF Apart
    <3>15. Loose(t, R, S \ {x}, W)
      BY <1>2, <3>7, <3>9, <3>10, <3>11, <3>12, <3>13, <3>14 DEF Loose, Queue
    <3>16. x \notin R \cup (S \ {x}) \cup W \cup Blocked(t)
      BY <1>10, <2>1, <3>3, <3>13
    <3>17. R \ {x} = R /\ W \ {x} = W
      BY <3>16
    <3>. QED BY <3>15, <3>16, <3>17 DEF Without
  <2>6. CASE x \in W
    <3>1. x \notin S
      BY <1>1, <2>6 DEF Apart
    <3>2. d2 = s
      BY <1>10, <2>1, <2>2, <3>1, DeleteAway
    <3> HIDE DEF d2
    <3>3. CASE s.wait \in R
      <4>1. d3 = s
        BY <1>10, <2>1, <2>3, <3>2, <3>3, DeleteAway
      <4> HIDE DEF d3
      <4>2. d4 = s
        BY <1>10, <2>1, <2>2, <4>1, DeleteAway
      <4> HIDE DEF d4
      <4>3. t \in QType /\ Same(s, t, {x})
        BY <1>1, <1>5, <4>2, CutLinks
      <4> HIDE DEF t
      <4>4. \A y \in R : t.next[y] = s.next[y] /\ t.prev[y] = s.prev[y]
        BY <1>3, <1>10, <4>3 DEF Same
      <4>5. List(t.next, t.prev, Idle, R)
        BY <1>1, <4>4, Frame
      <4>6. Chain(t, Idle) = R
        BY <4>5, Lists
      <4>. QED BY <1>1, <3>3, <4>3, <4>6 DEF Stray, Same
    <3>4. CASE s.wait = z
      <4> DEFINE u == Unlink(s, x)
      <4>1. /\ d3 \in QType /\ d3.next = u.next /\ d3.prev = u.prev
            /\ d3.run = s.run /\ d3.sleep = s.sleep /\ d3.wait = s.wait /\ d3.block = s.block
            /\ d3.cur = s.cur
        BY <1>1, <1>2, <1>10, <2>1, <2>4, <2>6, <3>2, <3>4, DeleteIn
      <4> HIDE DEF d3
      <4>2. Same(s, u, W) /\ List(u.next, u.prev, s.wait, W \ {x})
        BY <1>1, <1>2, <1>10, <2>6, <3>4, UnlinkList
      <4> HIDE DEF u
      <4>3. /\ \A y \in R \cup S \cup B : d3.next[y] = s.next[y] /\ d3.prev[y] = s.prev[y]
            /\ List(d3.next, d3.prev, s.wait, W \ {x})
        BY <1>1, <1>3, <4>1, <4>2 DEF Same, Apart
      <4>4. d4 = d3
        <5>1. Within(d3, s.block, B)
          BY <2>2, <4>3 DEF Within
        <5>. QED BY <1>10, <2>1, <4>1, <5>1, DeleteAway
      <4> HIDE DEF d4
      <4>5. t \in QType /\ Same(d3, t, {x})
        BY <1>5, <4>1, <4>4, CutLinks
      <4> HIDE DEF t
      <4>6. \A y \in R \cup S \cup B : t.next[y] = s.next[y] /\ t.prev[y] = s.prev[y]
        BY <1>3, <1>10, <2>1, <3>1, <4>3, <4>5 DEF Same
      <4>7. List(t.next, t.prev, Idle, R)
        BY <1>1, <4>6, Frame
      <4>8. List(t.next, t.prev, s.sleep, S)
        BY <1>1, <4>6, Frame
      <4>9. List(t.next, t.prev, s.block, B)
        BY <1>1, <4>6, Frame
      <4>10. List(t.next, t.prev, s.wait, W \ {x})
        <5>1. \A y \in W \ {x} : t.next[y] = d3.next[y] /\ t.prev[y] = d3.prev[y]
          BY <1>3, <4>5 DEF Same
        <5>. QED BY <5>1, <4>3, Frame
      <4>11. /\ t.run = Idle /\ t.sleep = s.sleep /\ t.wait = s.wait /\ t.block = s.block
             /\ t.cur \in R /\ Blocked(t) = B
        BY <1>1, <4>1, <4>5 DEF Same, Blocked
      <4>12. Apart(R, S, W \ {x}, Blocked(t))
        BY <1>1, <4>11 DEF Apart
      <4>13. Loose(t, R, S, W \ {x})
        BY <4>5, <4>7, <4>8, <4>9, <4>10, <4>11, <4>12 DEF Loose, Queue
      <4>14. x \notin R \cup S \cup (W \ {x}) \cup Blocked(t)
        BY <1>10, <2>1, <3>1, <4>11
      <4>15. R \ {x} = R /\ S \ {x} = S
        BY <4>14
      <4>. QED BY <4>13, <4>14, <4>15 DEF Without
    <3>. QED BY <1>2, <3>3, <3>4
  <2>. QED BY <1>10, <2>1, <2>5, <2>6
<1> HIDE DEF t, d1, d2, d3, d4
<1>11. Stray(t, x) \/ Without(t, R, S, W, x)
  <2>1. CASE x \in R /\ x = s.wait
    BY <1>8, <2>1 DEF Stray
  <2>2. CASE x \in R /\ x # s.wait
    <3>1. S \ {x} = S /\ W \ {x} = W
      BY <1>7, <2>2
    <3>. QED BY <1>7, <2>2, <3>1 DEF Without
  <2>3. CASE x \notin R /\ x \in {s.sleep, s.wait, s.block}
    BY <1>9, <2>3 DEF Stray
  <2>4. CASE x \notin R /\ x \notin {s.sleep, s.wait, s.block}
    BY <1>10, <2>4
  <2>. QED BY <2>1, <2>2, <2>3, <2>4
<1>12. ASSUME x \in R, s.wait \notin R
       PROVE Tight(t, R \ {x}, S, W)
  BY <1>7, <1>12 DEF Tight
<1>13. t \in QType /\ t.block = s.block
  BY <1>8, <1>9
<1>. QED BY <1>4, <1>11, <1>12, <1>13 DEF Quit

-----------------------------------------------------------------------------
(* The inductive invariant.                                                *)

(* Programs that let one process sleep and one process wait at a time, and  *)
(* that kill none, never come to that.                                      *)
Solitary == WaitRoom <= 1 /\ SleepRoom <= 1 /\ "kill" \notin Calls

(* All members of the queues. *)
Members(s, R, S, W) == R \cup S \cup W \cup Blocked(s)
(* The queues hold R, S and W, which are living processes: all of them, if  *)
(* none is a second reader, which no queue holds.                           *)
Held(s, X, R, S, W) ==
  /\ Tight(s, R, S, W)
  /\ Members(s, R, S, W) \subseteq X
  /\ Solitary => Lone(S) /\ Lone(W)
  /\ Solitary /\ "read" \notin Calls => X \subseteq Members(s, R, S, W)

(* init has not run yet: the idle process is current, and no call was made. *)
Booting ==
  /\ allocated = 2 /\ global_counter \in {-1, 0} /\ processID[Idle] = global_counter
  /\ hasRan[InitProc] = 0 /\ hasRan[Idle] \in {0, 1} /\ (hasRan[Idle] = 0 <=> global_counter = -1)
  /\ q.cur = Idle /\ q.sleep = NULL /\ q.wait = NULL /\ q.block = NULL
  /\ On("run") = {Idle, InitProc}
(* Every PCB handed out has an address space or is deleted, and its pid is  *)
(* one less than its number: global_counter counts what allocated counts.   *)
Booted ==
  /\ global_counter = allocated - 1 /\ allocated >= 2
  /\ \A x \in Created : hasRan[x] # 0
  /\ processID[Idle] = 0

(* The inductive invariant. *)
IInv ==
  /\ TypeOK /\ NoFault
  /\ Booting \/ Booted
  /\ \E R, S, W \in SUBSET Pcb : Held(q, Alive, R, S, W)

(* With true head variables, the queues are lists of their own. *)
LEMMA Tightens ==
  ASSUME NEW s, NEW R, NEW S, NEW W, NEW X, Loose(s, R, S, W),
         \A h \in {"sleep", "wait", "block"} : s[h] # NULL => s[h] \in X \ Chain(s, s["run"])
  PROVE Tight(s, R, S, W)
<1>1. s["sleep"] = s.sleep /\ s["wait"] = s.wait /\ s["run"] = s.run
  BY DEF Loose, QType
<1>2. Chain(s, s.run) = R
  BY Lists DEF Loose
<1>3. NULL \notin R
  BY SchedAssumption DEF Loose, List, Ranked, Pcb, NULL
<1>4. s["sleep"] # NULL => s["sleep"] \notin R
  BY <1>1, <1>2
<1>5. s["wait"] # NULL => s["wait"] \notin R
  BY <1>1, <1>2
<1>. QED
  BY <1>1, <1>3, <1>4, <1>5 DEF Tight

(* What the walks and the system calls see of the queues. *)
LEMMA Seen ==
  ASSUME TypeOK, NEW R, NEW S, NEW W, Held(q, Alive, R, S, W)
  PROVE /\ On("run") = R /\ On("sleep") = S /\ On("wait") = W /\ On("block") = Blocked(q)
        /\ Chain(q, q.sleep) = S /\ Chain(q, q.wait) = W /\ Queued = Members(q, R, S, W)
        /\ Ends(q, q.run) /\ Ends(q, q.sleep) /\ Ends(q, q.wait) /\ Ends(q, q.block)
        /\ q["run"] = q.run /\ q["sleep"] = q.sleep /\ q["wait"] = q.wait /\ q["block"] = q.block
<1>1. q["run"] = q.run /\ q["sleep"] = q.sleep /\ q["wait"] = q.wait /\ q["block"] = q.block
  BY DEF TypeOK
<1>2. /\ List(q.next, q.prev, q.run, R)
      /\ List(q.next, q.prev, q.sleep, S) /\ List(q.next, q.prev, q.wait, W)
      /\ List(q.next, q.prev, q.block, Blocked(q))
  BY TightLists DEF Held
<1>3. /\ Chain(q, q.run) = R /\ Chain(q, q.sleep) = S /\ Chain(q, q.wait) = W
      /\ Chain(q, q.block) = Blocked(q)
      /\ Ends(q, q.run) /\ Ends(q, q.sleep) /\ Ends(q, q.wait) /\ Ends(q, q.block)
  BY <1>2, Lists
<1>4. Queued = Members(q, R, S, W)
  BY <1>3 DEF Queued, Members
<1>. QED
  BY <1>1, <1>3, <1>4 DEF On

-----------------------------------------------------------------------------
(* The parts of the actions.                                               *)

(* Switch, with the tables as they are before it and after it. *)
Put(f, x, v) == [f EXCEPT ![x] = v]
Switchable(s, p, ran, pids) ==
  /\ p \in Pcb /\ ran \in [Pcb -> {0, 1, -1}] /\ pids \in [Pcb -> Pids]
  /\ global_counter \in Pids /\ Switch(s, p, ran, pids, TRUE)

(* Switch to a process that has run: nothing is built. *)
LEMMA SwitchAgain ==
  ASSUME NEW s, NEW p, NEW ran, NEW pids, Switchable(s, p, ran, pids), ran[p] = 1
  PROVE /\ q' = s /\ hasRan' = ran /\ processID' = pids /\ global_counter' = global_counter
        /\ fault' = FALSE
<1> DEFINE built == {x \in Pcb : x = p /\ ran[x] = 0}
<1>0. /\ p \in Pcb /\ ran \in [Pcb -> {0, 1, -1}] /\ pids \in [Pcb -> Pids]
      /\ global_counter \in Pids /\ Switch(s, p, ran, pids, TRUE)
  BY DEF Switchable
<1>1. built = {}
  BY <1>0
<1>2. Cardinality(built) = 0
  BY <1>1, FS_EmptySet
<1>3. global_counter \in Int
  BY <1>0, SchedAssumption DEF Pids
<1>4. /\ q' = s
      /\ hasRan' = [x \in Pcb |-> IF x \in built THEN 1 ELSE ran[x]]
      /\ processID' = [x \in Pcb |-> IF x \in built THEN global_counter + 1 ELSE pids[x]]
      /\ global_counter' = global_counter + Cardinality(built)
      /\ fault' = (p \notin {x \in Pcb : ran[x] # -1})
  BY <1>0 DEF Switch
<1> HIDE DEF built
<1>5. hasRan' = ran /\ processID' = pids
  BY <1>0, <1>1, <1>4
<1>6. p \in {x \in Pcb : ran[x] # -1}
  BY <1>0
<1>7. fault' = FALSE
  BY <1>4, <1>6
<1>8. global_counter' = global_counter
  BY <1>2, <1>3, <1>4
<1>. QED
  BY <1>4, <1>5, <1>7, <1>8

(* Switch to a process that never ran: it gets an address space and a pid. *)
LEMMA SwitchFirst ==
  ASSUME NEW s, NEW p, NEW ran, NEW pids, Switchable(s, p, ran, pids), ran[p] = 0
  PROVE /\ q' = s /\ hasRan' = Put(ran, p, 1)
        /\ processID' = Put(pids, p, global_counter + 1)
        /\ global_counter' = global_counter + 1
        /\ fault' = FALSE
<1> DEFINE built == {x \in Pcb : x = p /\ ran[x] = 0}
<1>0. /\ p \in Pcb /\ ran \in [Pcb -> {0, 1, -1}] /\ pids \in [Pcb -> Pids]
      /\ global_counter \in Pids /\ Switch(s, p, ran, pids, TRUE)
  BY DEF Switchable
<1>1. built = {p}
  BY <1>0
<1>2. Cardinality(built) = 1
  BY <1>1, FS_Singleton
<1>4. /\ q' = s
      /\ hasRan' = [x \in Pcb |-> IF x \in built THEN 1 ELSE ran[x]]
      /\ processID' = [x \in Pcb |-> IF x \in built THEN global_counter + 1 ELSE pids[x]]
      /\ global_counter' = global_counter + Cardinality(built)
      /\ fault' = (p \notin {x \in Pcb : ran[x] # -1})
  BY <1>0 DEF Switch
<1> HIDE DEF built
<1>5. hasRan' = Put(ran, p, 1) /\ processID' = Put(pids, p, global_counter + 1)
  BY <1>0, <1>1, <1>4 DEF Put
<1>6. p \in {x \in Pcb : ran[x] # -1}
  BY <1>0
<1>. QED
  BY <1>2, <1>4, <1>5, <1>6

(* The walk of the sleep queue when a second ends. *)
Ticked(s, R, S, W, w) ==
  /\ w.at = NULL /\ w.left \in Sleepers
  /\ \E V \in SUBSET S :
       /\ Loose(w.q, R \cup V, S \ V, W) /\ w.q.wait \notin R \cup V
       /\ w.q.cur = s.cur /\ w.q.block = s.block
       /\ Lone(S) => w.q.sleep \notin R \cup V
LEMMA SecondWorks ==
  ASSUME NEW s, NEW R, NEW S, NEW W, Tight(s, R, S, W), sleepTimeLeft \in Sleepers
  PROVE Ticked(s, R, S, W, Second(s))
<1> DEFINE w == Wake(s, "second", NULL)
<1>1. /\ Walked("second") = "sleep" /\ Loose(s, R, S, W) /\ s.sleep \notin R /\ s.wait \notin R
  BY DEF Walked, Tight
<1>2. /\ w \in WalkType /\ w.at = NULL /\ w.woken \subseteq S
      /\ Loose(w.q, R \cup w.woken, S \ w.woken, W \ w.woken)
      /\ w.q.cur = s.cur /\ w.q.block = s.block /\ w.q.wait = s.wait
      /\ Lone(S) => w.q.sleep \notin R \cup w.woken
  <2>1. Asleep(s, R, S, W, "second")
    BY <1>1 DEF Asleep
  <2>2. Slept(s, R, S, W, w)
    BY <2>1, WakeSleepers
  <2>. QED BY <2>2 DEF Slept
<1>3. s.wait \in W \cup {NULL} /\ S \cap W = {} /\ NULL \notin S
  BY TightLists, SchedAssumption DEF Apart, Pcb, NULL
<1> HIDE DEF w
<1>4. W \ w.woken = W /\ w.q.wait \notin R \cup w.woken
  BY <1>1, <1>2, <1>3
<1>5. w.left \in Sleepers
  BY <1>2 DEF WalkType, Sleepers
<1>. QED
  BY <1>2, <1>4, <1>5 DEF Second, Ticked, w

(* The walk of the wait queue when a slice ends and c is to run. *)
Sliced(s, R, S, W, c, w) ==
  /\ w.at = NULL
  /\ \E V \in SUBSET W :
       /\ Loose(w.q, R \cup V, S, W \ V)
       /\ w.q.cur = c /\ w.q.block = s.block
       /\ s.sleep \notin R => w.q.sleep \notin R \cup V
       /\ Lone(W) => w.q.wait \notin R \cup V
       /\ \A y \in V : Chosen(y, c)
LEMMA SliceWorks ==
  ASSUME NEW s, NEW R, NEW S, NEW W, Loose(s, R, S, W), s.wait \notin R, NEW c \in R,
         sleepTimeLeft \in Sleepers
  PROVE Sliced(s, R, S, W, c, Wake([s EXCEPT !.cur = c], "slice", c))
<1> DEFINE t == [s EXCEPT !.cur = c]
           w == Wake(t, "slice", c)
<1>1. c \in Pcb /\ s \in QType
  BY DEF Loose, List, Ranked
<1>2. /\ t \in QType /\ t.next = s.next /\ t.prev = s.prev /\ t.cur = c /\ t.run = s.run
      /\ t.sleep = s.sleep /\ t.wait = s.wait /\ t.block = s.block
  BY <1>1 DEF QType
<1> HIDE DEF t
<1>3. Loose(t, R, S, W)
  BY <1>2 DEF Loose, Queue, Blocked
<1>4. Walked("slice") = "wait"
  BY DEF Walked
<1>4a. Awaiting(t, R, S, W, "slice")
  BY <1>2, <1>3, <1>4 DEF Awaiting
<1>5. /\ w \in WalkType /\ w.at = NULL /\ w.woken \subseteq W
      /\ Loose(w.q, R \cup w.woken, S \ w.woken, W \ w.woken)
      /\ w.q.cur = t.cur /\ w.q.block = t.block /\ w.q.sleep = t.sleep
      /\ Lone(W) => w.q.wait \notin R \cup w.woken
  <2>1. Awaited(t, R, S, W, w)
    BY <1>4a, WakeWaiters
  <2>. QED BY <2>1 DEF Awaited
<1>5a. \A y \in w.woken : Chosen(y, c)
  <2>1. \A y \in W : y \in w.woken <=> Wants("slice", c, y)
    BY <1>4a, WakesDue
  <2>. QED BY <1>5, <2>1 DEF Wants
<1> HIDE DEF w
<1>6. S \ w.woken = S
  BY <1>3, <1>5 DEF Loose, Apart
<1>7. s.sleep \notin R => w.q.sleep \notin R \cup w.woken
  <2>1. s.sleep \in S \cup R \cup {NULL}
    BY DEF Loose, Queue, List, Ranked
  <2>2. S \cap W = {} /\ NULL \notin W
    BY SchedAssumption DEF Loose, Queue, List, Ranked, Apart, Pcb, NULL
  <2>. QED BY <1>2, <1>5, <2>1, <2>2
<1>. QED
  BY <1>2, <1>5, <1>5a, <1>6, <1>7 DEF w, t, Sliced

-----------------------------------------------------------------------------
(* The steps.                                                              *)

(* What IInv says of the processes in the queues. *)
LEMMA Lives ==
  ASSUME IInv, NEW R, NEW S, NEW W, Held(q, Alive, R, S, W)
  PROVE /\ Tight(q, R, S, W) /\ q \in QType /\ q.run = Idle /\ q.cur \in R /\ Idle \in R
        /\ R \subseteq Alive /\ S \subseteq Alive /\ W \subseteq Alive /\ Blocked(q) \subseteq Alive
        /\ Alive \subseteq Created /\ Created \subseteq Pcb /\ NULL \notin Pcb
        /\ Apart(R, S, W, Blocked(q))
        /\ \A x \in Alive : hasRan[x] \in {0, 1}
        /\ Booted => \A x \in Alive : hasRan[x] = 1
<1>1. NULL \notin Pcb /\ Created \subseteq Pcb /\ Alive \subseteq Created
  BY SchedAssumption DEF IInv, TypeOK, Alive, Created, Pcb, NULL
<1>2. Tight(q, R, S, W) /\ Members(q, R, S, W) \subseteq Alive
  BY DEF Held
<1>3. q \in QType /\ q.run = Idle /\ q.cur \in R /\ Idle \in R /\ Apart(R, S, W, Blocked(q))
  BY <1>2, TightLists
<1>4. \A x \in Alive : hasRan[x] \in {0, 1}
  BY <1>1 DEF Alive, IInv, TypeOK
<1>5. Booted => \A x \in Alive : hasRan[x] = 1
  BY <1>1, <1>4 DEF Booted
<1>. QED
  BY <1>1, <1>2, <1>3, <1>4, <1>5 DEF Members

(* Only a process that runs makes calls: init at the earliest. *)
LEMMA Callers ==
  ASSUME IInv, NEW p, NEW call, Caller(p, call)
  PROVE Booted /\ p \in Pcb /\ p = q.cur /\ p # Idle /\ hasRan[p] = 1 /\ call \in Calls
BY DEF IInv, Caller, Booting, TypeOK

(* The queues after a step, with head variables that are true or alone. *)
LEMMA Settles ==
  ASSUME NEW R, NEW S, NEW W, NEW s, s = q', Loose(s, R, S, W), HeadsTrue'
  PROVE Tight(s, R, S, W)
<1> DEFINE X == Alive'
<1>1. \A h \in {"sleep", "wait", "block"} : s[h] # NULL => s[h] \in X \ Chain(s, s["run"])
  BY DEF HeadsTrue, On
<1> HIDE DEF X
<1>. QED
  BY <1>1, Tightens

(* The parts of the invariant make the invariant; W is who waits. *)
LEMMA Regain ==
  ASSUME NEW s, NEW X, NEW R, NEW S, NEW W, s = q', X = Alive', Held(s, X, R, S, W),
         TypeOK', fault' = FALSE, (Booting \/ Booted)'
  PROVE IInv' /\ On("wait")' = W
<1>1. R \in SUBSET Pcb /\ S \in SUBSET Pcb /\ W \in SUBSET Pcb
  BY TightLists DEF Held
<1>2. Held(q, Alive, R, S, W)'
  OBVIOUS
<1>3. (\E R1, S1, W1 \in SUBSET Pcb : Held(q, Alive, R1, S1, W1))'
  BY <1>1, <1>2
<1>4. On("wait")' = W
  <2>1. s \in QType /\ List(s.next, s.prev, s.wait, W)
    BY TightLists DEF Held
  <2>2. Chain(s, s["wait"]) = W
    BY <2>1, Reached DEF QType
  <2>. QED BY <2>2 DEF On
<1>. QED
  BY <1>3, <1>4 DEF IInv, NoFault

(* The two processes of a booting system run one after the other. *)
LEMMA FirstTwo ==
  ASSUME NEW s, NEW S, NEW W, Loose(s, {Idle, InitProc}, S, W), s.cur = Idle
  PROVE Successor(s) = InitProc
<1>1. PICK pos : Ranked(s.next, s.prev, Idle, {Idle, InitProc}, pos)
                 /\ pos \in [{Idle, InitProc} -> Nat]
  BY DEF Loose, List
<1>2. Idle # InitProc /\ NULL \notin {Idle, InitProc}
  BY DEF Idle, InitProc, NULL
<1>3. \A x \in {Idle, InitProc} :
        /\ s.next[x] \in {Idle, InitProc, NULL} /\ s.prev[x] \in {Idle, InitProc, NULL}
        /\ s.next[x] # NULL => pos[x] < pos[s.next[x]]
        /\ s.prev[x] # NULL => s.next[s.prev[x]] = x
        /\ s.prev[x] = NULL <=> x = Idle
  BY <1>1 DEF Ranked
<1>4. pos[InitProc] \in Nat
  BY <1>1
<1>5. s.next[InitProc] # InitProc
  BY <1>2, <1>3, <1>4
<1>6. s.prev[InitProc] = Idle
  BY <1>2, <1>3, <1>5
<1>7. s.next[Idle] = InitProc
  BY <1>2, <1>3, <1>6
<1>. QED
  BY <1>2, <1>7 DEF Successor

(* Both walks of the timer, with the process p that runs afterwards. *)
TimerLeaves(second, slice, R, S, W, R2, S2, W2, s, p) ==
  /\ Loose(s, R2, S2, W2) /\ s.block = q.block /\ s.cur = p /\ q' = s
  /\ R2 \cup S2 \cup W2 = R \cup S \cup W /\ S2 \subseteq S /\ W2 \subseteq W
  /\ \A y \in W \ W2 : Chosen(y, p)
  /\ Lone(S) => s.sleep \notin R2
  /\ Lone(W) => s.wait \notin R2
  /\ sleepTimeLeft' \in Sleepers
  /\ IF slice THEN Switch(s, p, hasRan, processID, TRUE)
     ELSE p = q.cur /\ fault' = FALSE /\ UNCHANGED <<global_counter, processID, hasRan>>

LEMMA TimerWalks ==
  ASSUME IInv, NEW R, NEW S, NEW W, Held(q, Alive, R, S, W),
         NEW second \in BOOLEAN, NEW slice \in BOOLEAN, timer_handler(second, slice)
  PROVE \E R1, S1, s1, R2, S2, W2, s, p :
          /\ R1 \in SUBSET Pcb /\ S1 \in SUBSET S
          /\ TimerLeaves(second, slice, R, S, W, R2, S2, W2, s, p)
          /\ Loose(s1, R1, S1, W) /\ s1.cur = q.cur /\ R \subseteq R1 /\ R1 \subseteq R \cup S
          /\ slice => p = Turn(s1)
<1> DEFINE w == IF second THEN Second(q) ELSE [q |-> q, left |-> sleepTimeLeft, at |-> NULL]
<1>0. /\ Tight(q, R, S, W) /\ sleepTimeLeft \in Sleepers /\ R \subseteq Pcb /\ S \subseteq Pcb
      /\ NULL \notin Pcb
  BY Lives DEF IInv, TypeOK, Sleepers
<1>1. /\ w.at = NULL /\ w.left \in Sleepers
      /\ \E V \in SUBSET S :
           /\ Loose(w.q, R \cup V, S \ V, W) /\ w.q.wait \notin R \cup V
           /\ w.q.cur = q.cur /\ w.q.block = q.block
           /\ Lone(S) => w.q.sleep \notin R \cup V
  <2>1. CASE second
    <3>1. Ticked(q, R, S, W, Second(q))
      BY <1>0, SecondWorks
    <3>2. w = Second(q)
      BY <2>1
    <3> HIDE DEF w
    <3>. QED BY <3>1, <3>2 DEF Ticked
  <2>2. CASE ~second
    <3>1. w.q = q /\ w.at = NULL /\ w.left = sleepTimeLeft
      BY <2>2
    <3>2. R \cup {} = R /\ S \ {} = S /\ {} \in SUBSET S
      OBVIOUS
    <3> HIDE DEF w
    <3>3. Loose(w.q, R \cup {}, S \ {}, W) /\ w.q.wait \notin R \cup {} /\ w.q.sleep \notin R \cup {}
      BY <1>0, <3>1, <3>2 DEF Tight
    <3>. QED BY <1>0, <3>1, <3>2, <3>3
  <2>. QED BY <2>1, <2>2
<1>2. PICK V1 \in SUBSET S :
         /\ Loose(w.q, R \cup V1, S \ V1, W) /\ w.q.wait \notin R \cup V1
         /\ w.q.cur = q.cur /\ w.q.block = q.block
         /\ Lone(S) => w.q.sleep \notin R \cup V1
  BY <1>1
<1> DEFINE R1 == R \cup V1
           S1 == S \ V1
<1>3. /\ R1 \in SUBSET Pcb /\ S1 \in SUBSET S /\ R \subseteq R1 /\ R1 \subseteq R \cup S
      /\ R1 \cup S1 = R \cup S
  BY <1>0
<1>4. /\ Loose(w.q, R1, S1, W) /\ w.q.wait \notin R1 /\ w.q.cur = q.cur /\ w.q.block = q.block
      /\ Lone(S) => w.q.sleep \notin R1
  BY <1>2
<1>5. /\ IF slice THEN Slice(w.q, w.left, w.at = NULL)
         ELSE /\ second
              /\ q' = w.q /\ sleepTimeLeft' = w.left /\ fault' = (w.at # NULL)
              /\ UNCHANGED <<global_counter, processID, hasRan>>
  BY DEF timer_handler
<1> HIDE DEF w, R1, S1
<1>6. CASE slice
  <2> DEFINE p == Turn(w.q)
             v == Wake([w.q EXCEPT !.cur = p], "slice", p)
  <2>1. p \in R1
    <3>1. w.q.run \in R1 /\ w.q.cur \in R1 /\ \A x \in R1 : w.q.next[x] \in R1 \cup {NULL}
      BY <1>4 DEF Loose, List, Ranked
    <3>. QED BY <3>1 DEF Turn, Successor
  <2> HIDE DEF p
  <2>2. Sliced(w.q, R1, S1, W, p, v)
    BY <1>0, <1>4, <2>1, SliceWorks
  <2>3. PICK V2 \in SUBSET W :
             /\ Loose(v.q, R1 \cup V2, S1, W \ V2)
             /\ v.q.cur = p /\ v.q.block = w.q.block
             /\ w.q.sleep \notin R1 => v.q.sleep \notin R1 \cup V2
             /\ Lone(W) => v.q.wait \notin R1 \cup V2
             /\ \A y \in V2 : Chosen(y, p)
    BY <2>2 DEF Sliced
  <2>4. /\ Switch(v.q, p, hasRan, processID, w.at = NULL /\ v.at = NULL)
        /\ sleepTimeLeft' = [x \in Pcb |-> IF x \in v.woken THEN 0 ELSE w.left[x]]
    BY <1>5, <1>6 DEF Slice, p
  <2> HIDE DEF v
  <2>5. Switch(v.q, p, hasRan, processID, TRUE) /\ q' = v.q /\ sleepTimeLeft' \in Sleepers
    BY <1>1, <2>2, <2>4 DEF Switch, Sleepers, Sliced
  <2>6. (R1 \cup V2) \cup S1 \cup (W \ V2) = R \cup S \cup W
    BY <1>3, <2>3
  <2>7. TimerLeaves(second, slice, R, S, W, R1 \cup V2, S1, W \ V2, v.q, p)
    BY <1>3, <1>4, <1>6, <2>3, <2>5, <2>6 DEF TimerLeaves
  <2>. QED BY <1>3, <1>4, <2>7 DEF p
<1>7. CASE ~slice
  <2>1. /\ q' = w.q /\ sleepTimeLeft' \in Sleepers /\ fault' = FALSE
        /\ UNCHANGED <<global_counter, processID, hasRan>>
    BY <1>1, <1>5, <1>7
  <2>2. TimerLeaves(second, slice, R, S, W, R1, S1, W, w.q, q.cur)
    <3>1. R1 \cup S1 \cup W = R \cup S \cup W
      BY <1>3
    <3>. QED BY <1>3, <1>4, <1>7, <2>1, <3>1 DEF TimerLeaves
  <2>. QED BY <1>3, <1>4, <1>7, <2>2
<1>. QED
  BY <1>6, <1>7

(* The timer gives the first two processes an address space and a pid each, *)
(* before anybody waits; later it changes neither.                          *)
Numbers ==
  \/ UNCHANGED <<hasRan, processID>>
  \/ /\ On("wait") = {} /\ allocated = 2
     /\ \E p \in Created : /\ hasRan[p] = 0 /\ p = global_counter + 2
                          /\ hasRan' = [hasRan EXCEPT ![p] = 1]
                          /\ processID' = [processID EXCEPT ![p] = p - 1]

(* The timer interrupt, whichever of its walks it makes. *)
LEMMA TimerStep ==
  ASSUME IInv, Solitary \/ HeadsTrue', NEW second \in BOOLEAN, NEW slice \in BOOLEAN,
         timer_handler(second, slice)
  PROVE /\ IInv' /\ On("wait")' \subseteq On("wait") /\ Numbers
        /\ \A y \in On("wait") \ On("wait")' : \E x \in Alive : hasRan[x] = 1 /\ Chosen(y, x)
<1>1. PICK R, S, W \in SUBSET Pcb : Held(q, Alive, R, S, W)
  BY DEF IInv
<1>2. PICK R1, S1, s1, R2, S2, W2, s, p :
          /\ R1 \in SUBSET Pcb /\ S1 \in SUBSET S
          /\ TimerLeaves(second, slice, R, S, W, R2, S2, W2, s, p)
          /\ Loose(s1, R1, S1, W) /\ s1.cur = q.cur /\ R \subseteq R1 /\ R1 \subseteq R \cup S
          /\ slice => p = Turn(s1)
  BY <1>1, TimerWalks
<1>3. /\ Loose(s, R2, S2, W2) /\ s.block = q.block /\ s.cur = p /\ q' = s
      /\ R2 \cup S2 \cup W2 = R \cup S \cup W /\ S2 \subseteq S /\ W2 \subseteq W
      /\ \A y \in W \ W2 : Chosen(y, p)
      /\ Lone(S) => s.sleep \notin R2
      /\ Lone(W) => s.wait \notin R2
      /\ sleepTimeLeft' \in Sleepers
      /\ IF slice THEN Switch(s, p, hasRan, processID, TRUE)
         ELSE p = q.cur /\ fault' = FALSE /\ UNCHANGED <<global_counter, processID, hasRan>>
  BY <1>2 DEF TimerLeaves
<1>4. /\ Tight(q, R, S, W) /\ Members(q, R, S, W) \subseteq Alive
      /\ Solitary => Lone(S) /\ Lone(W)
      /\ Solitary /\ "read" \notin Calls => Alive \subseteq Members(q, R, S, W)
  BY <1>1 DEF Held
<1>5. Tight(s, R2, S2, W2)
  <2>1. CASE Solitary
    BY <1>3, <1>4, <2>1 DEF Tight
  <2>2. CASE HeadsTrue'
    BY <1>3, <2>2, Settles
  <2>. QED BY <2>1, <2>2
<1>6. UNCHANGED <<parentProcessID, parentPCB, waitPID, isFore, hasExited, allocated, typed>>
  BY DEF timer_handler
<1>7. s \in QType /\ p \in R2 /\ p \in Alive /\ p \in Pcb
  <2>1. s \in QType /\ p \in R2
    BY <1>3, <1>5, TightLists
  <2>2. p \in Alive
    BY <1>3, <1>4, <2>1 DEF Members
  <2>. QED BY <1>1, <2>1, <2>2, Lives
<1>8. Members(s, R2, S2, W2) = Members(q, R, S, W)
  BY <1>3 DEF Members, Blocked
<1>9. ASSUME Alive' = Alive PROVE Held(s, Alive', R2, S2, W2)
  <2>1. Solitary => Lone(S2) /\ Lone(W2)
    BY <1>3, <1>4 DEF Lone
  <2>. QED BY <1>4, <1>5, <1>8, <1>9, <2>1 DEF Held
<1>10. /\ hasRan \in [Pcb -> {0, 1, -1}] /\ processID \in [Pcb -> Pids] /\ global_counter \in Pids
       /\ hasRan[p] \in {0, 1} /\ TypeOK
  BY <1>1, <1>7, Lives DEF IInv, TypeOK
<1>11. s \in [next : [Pcb -> Pcb \cup {NULL}], prev : [Pcb -> Pcb \cup {NULL}],
            run : Pcb \cup {NULL}, sleep : Pcb \cup {NULL}, wait : Pcb \cup {NULL},
            block : Pcb \cup {NULL}, cur : Pcb]
  BY <1>7 DEF QType, Links
<1>11a. On("wait") = W
  BY <1>1, <1>10, Seen
<1>12. CASE Booted
  <2>1. hasRan[p] = 1
    BY <1>1, <1>7, <1>12, Lives
  <2>2. fault' = FALSE /\ UNCHANGED <<global_counter, processID, hasRan>>
    <3>1. CASE slice
      <4>1. Switch(s, p, hasRan, processID, TRUE)
        BY <1>3, <3>1
      <4>2. PICK ran, pids : ran = hasRan /\ pids = processID
        OBVIOUS
      <4>3. Switchable(s, p, ran, pids) /\ ran[p] = 1
        BY <1>7, <1>10, <2>1, <4>1, <4>2 DEF Switchable
      <4>4. hasRan' = ran
        BY <4>3, SwitchAgain
      <4>5. processID' = pids
        BY <4>3, SwitchAgain
      <4>6. global_counter' = global_counter
        BY <4>3, SwitchAgain
      <4>7. fault' = FALSE
        BY <4>3, SwitchAgain
      <4>. QED BY <4>2, <4>4, <4>5, <4>6, <4>7
    <3>2. CASE ~slice
      BY <1>3, <3>2
    <3>. QED BY <3>1, <3>2
  <2>3. TypeOK'
    BY <1>3, <1>6, <1>10, <1>11, <2>2 DEF TypeOK, Sleepers
  <2>4. Booted' /\ Alive' = Alive
    BY <1>6, <1>12, <2>2 DEF Booted, Created, Alive
  <2>5. IInv' /\ On("wait")' = W2
    BY <1>3, <1>9, <2>2, <2>3, <2>4, Regain
  <2>. QED BY <1>3, <1>7, <1>11a, <2>1, <2>2, <2>5 DEF Numbers
<1>13. CASE Booting
  <2>1. /\ R = {Idle, InitProc} /\ S = {} /\ W = {} /\ q.block = NULL /\ q.cur = Idle
    BY <1>1, <1>4, <1>10, <1>13, Seen, TightLists, SchedAssumption
       DEF Booting, List, Ranked, Pcb, NULL
  <2>2. R2 = {Idle, InitProc} /\ S2 = {} /\ W2 = {}
    <3>1. s.wait # NULL \/ W2 = {}
      BY <1>3, <2>1
    <3>. QED BY <1>3, <1>5, <2>1 DEF Tight, Loose, Apart
  <2>3. s.sleep = NULL /\ s.wait = NULL /\ Chain(s, s.run) = R2
    <3>1. List(s.next, s.prev, s.run, R2)
      BY <1>3 DEF Loose
    <3>2. Queue(s, s.sleep, S2, R2) /\ Queue(s, s.wait, W2, R2) /\ s.sleep \notin R2 /\ s.wait \notin R2
      BY <1>5 DEF Tight, Loose
    <3>3. s.sleep = NULL /\ s.wait = NULL
      BY <2>2, <3>2 DEF Queue, List, Ranked
    <3>4. Chain(s, s.run) = R2
      BY <3>1, Reached
    <3>. QED BY <3>3, <3>4
  <2>4. On("run")' = {Idle, InitProc}
    BY <1>3, <1>7, <2>2, <2>3 DEF On, QType
  <2>5. Idle \in Pcb /\ InitProc \in Pcb /\ Idle # InitProc
    BY SchedAssumption DEF Pcb, Idle, InitProc
  <2>6. CASE ~slice
    <3>1. fault' = FALSE /\ UNCHANGED <<global_counter, processID, hasRan>> /\ p = Idle
      BY <1>3, <2>1, <2>6
    <3>2. TypeOK'
      BY <1>3, <1>6, <1>10, <1>11, <3>1 DEF TypeOK, Sleepers
    <3>3. Booting' /\ Alive' = Alive
      BY <1>3, <1>6, <1>13, <2>1, <2>3, <2>4, <3>1 DEF Booting, Created, Alive
    <3>4. IInv' /\ On("wait")' = W2
      BY <1>3, <1>9, <3>1, <3>2, <3>3, Regain
    <3>. QED BY <1>11a, <2>1, <2>2, <3>1, <3>4 DEF Numbers
  <2>7. CASE slice
    <3>1. Switch(s, p, hasRan, processID, TRUE) /\ p = Turn(s1)
      BY <1>2, <1>3, <2>7
    <3>2. hasRan[p] = 0 /\ p = IF global_counter = -1 THEN Idle ELSE InitProc
      <4>1. R1 = {Idle, InitProc} /\ s1.run = Idle
        <5>1. s1.run = Idle
          BY <1>2 DEF Loose
        <5>. QED BY <1>2, <2>1, <5>1
      <4>2. s1.cur = Idle
        BY <1>2, <2>1
      <4>. QED BY <1>2, <1>13, <3>1, <4>1, <4>2, FirstTwo DEF Turn, Booting
    <3>3. /\ hasRan' = [hasRan EXCEPT ![p] = 1]
          /\ processID' = [processID EXCEPT ![p] = global_counter + 1]
          /\ global_counter' = global_counter + 1
          /\ fault' = FALSE
      <4>2. PICK ran, pids : ran = hasRan /\ pids = processID
        OBVIOUS
      <4>3. Switchable(s, p, ran, pids) /\ ran[p] = 0
        BY <1>7, <1>10, <3>1, <3>2, <4>2 DEF Switchable
      <4>4. hasRan' = Put(ran, p, 1)
        BY <4>3, SwitchFirst
      <4>5. processID' = Put(pids, p, global_counter + 1)
        BY <4>3, SwitchFirst
      <4>6. global_counter' = global_counter + 1
        BY <4>3, SwitchFirst
      <4>7. fault' = FALSE
        BY <4>3, SwitchFirst
      <4>. QED BY <4>2, <4>4, <4>5, <4>6, <4>7 DEF Put
    <3>4. global_counter + 1 \in Pids
      BY <1>13, SchedAssumption DEF Booting, Pids
    <3>5. TypeOK'
      BY <1>3, <1>6, <1>10, <1>11, <3>3, <3>4 DEF TypeOK, Sleepers
    <3>6. Alive' = Alive
      BY <1>6, <1>7, <1>10, <1>13, <3>2, <3>3, Lives DEF Booting, Created, Alive, TypeOK
    <3>7. Booting' \/ Booted'
      <4>1. CASE global_counter = -1
        <5>1. p = Idle
          BY <3>2, <4>1
        <5>. QED BY <1>3, <1>6, <1>10, <1>13, <2>1, <2>3, <2>4, <2>5, <3>2, <3>3, <4>1, <5>1 DEF Booting
      <4>2. CASE global_counter = 0
        <5>1. p = InitProc /\ hasRan[Idle] = 1 /\ processID[Idle] = 0 /\ allocated = 2
          BY <1>13, <3>2, <4>2 DEF Booting
        <5>2. Created = {Idle, InitProc}
          BY <5>1 DEF Created, Idle, InitProc
        <5>. QED BY <1>6, <1>10, <2>5, <3>3, <4>2, <5>1, <5>2 DEF Booted, Created
      <4>. QED BY <1>13, <4>1, <4>2 DEF Booting
    <3>8. IInv' /\ On("wait")' = W2
      BY <1>3, <1>9, <3>3, <3>5, <3>6, <3>7, Regain
    <3>9. Numbers
      <4>1. p = global_counter + 2 /\ allocated = 2 /\ p \in Created
        BY <1>13, <3>2 DEF Booting, Created, Idle, InitProc
      <4>2. p - 1 = global_counter + 1
        BY <1>10, <4>1, SchedAssumption DEF Pids
      <4>. QED BY <1>11a, <2>1, <3>2, <3>3, <4>1, <4>2 DEF Numbers
    <3>. QED BY <1>11a, <2>1, <2>2, <3>8, <3>9
  <2>. QED BY <2>6, <2>7
<1>. QED
  BY <1>12, <1>13 DEF IInv

(* After the call of a process, the processor goes to a process that has    *)
(* run: no address space is built, and no pid is given.                     *)
Called(s) ==
  /\ q' = s /\ hasRan' = hasRan /\ processID' = processID /\ global_counter' = global_counter
  /\ fault' = FALSE /\ Booted' /\ Alive' = Alive
  /\ s \in [next : [Pcb -> Pcb \cup {NULL}], prev : [Pcb -> Pcb \cup {NULL}],
            run : Pcb \cup {NULL}, sleep : Pcb \cup {NULL}, wait : Pcb \cup {NULL},
            block : Pcb \cup {NULL}, cur : Pcb]
(* Such a switch, after the queues are held again. *)
LEMMA SwitchCalls ==
  ASSUME IInv, Booted, NEW s, NEW p, p = s.cur, NEW R, NEW S, NEW W, Held(s, Alive, R, S, W),
         Switch(s, p, hasRan, processID, TRUE), allocated' = allocated
  PROVE Called(s)
<1>1. s \in QType /\ p \in R
  BY TightLists DEF Held
<1>2. p \in Alive /\ p \in Pcb
  BY <1>1 DEF Held, Members, QType
<1>3. PICK R0, S0, W0 \in SUBSET Pcb : Held(q, Alive, R0, S0, W0)
  BY DEF IInv
<1>4. hasRan[p] = 1
  BY <1>2, <1>3, Lives
<1>5. PICK ran, pids : ran = hasRan /\ pids = processID
  OBVIOUS
<1>6. Switchable(s, p, ran, pids) /\ ran[p] = 1
  BY <1>2, <1>4, <1>5 DEF Switchable, IInv, TypeOK
<1>7. q' = s /\ hasRan' = ran /\ processID' = pids
  BY <1>6, SwitchAgain
<1>8. global_counter' = global_counter /\ fault' = FALSE
  BY <1>6, SwitchAgain
<1>9. Booted' /\ Alive' = Alive
  BY <1>5, <1>7, <1>8 DEF Booted, Created, Alive
<1>. QED
  BY <1>1, <1>5, <1>7, <1>8, <1>9 DEF Called, QType, Links

(* Enter makes the blocked reader runnable. *)
LEMMA EnterStep ==
  ASSUME IInv, KeyEnter
  PROVE IInv' /\ On("wait")' = On("wait")
<1> DEFINE p == q.block
           t == Last(q, q.run)
           s == [Append(q, t, p) EXCEPT !.block = NULL]
<1>1. PICK R, S, W \in SUBSET Pcb : Held(q, Alive, R, S, W)
  BY DEF IInv
<1>2. /\ Tight(q, R, S, W) /\ q \in QType /\ Idle \in R /\ NULL \notin Pcb
      /\ Blocked(q) \subseteq Alive /\ Alive \subseteq Pcb /\ Apart(R, S, W, Blocked(q))
      /\ Booted => \A x \in Alive : hasRan[x] = 1
  BY <1>1, Lives
<1>3. q.block # NULL /\ q' = s /\ fault' = (hasRan[p] # 1) /\ typed' = FALSE
      /\ isFore' = [isFore EXCEPT ![p] = 1]
      /\ UNCHANGED <<processID, parentProcessID, parentPCB, waitPID, sleepTimeLeft, hasRan,
                     hasExited, global_counter, allocated>>
  BY DEF KeyEnter
<1>4. Booted
  BY <1>3 DEF IInv, Booting
<1>5. p \in Blocked(q) /\ p \in Alive /\ hasRan[p] = 1
  BY <1>2, <1>3, <1>4 DEF Blocked
<1>6. p \in Pcb \ (R \cup S \cup W)
  BY <1>2, <1>5 DEF Apart
<1>7. t \in R /\ q.next[t] = NULL
  <2>1. List(q.next, q.prev, q.run, R) /\ q.run \in R /\ q.run # NULL
    BY <1>2, TightLists
  <2>. QED BY <2>1, Ending
<1> HIDE DEF t
<1>8. /\ Tight(s, R \cup {p}, S, W) /\ s.block = NULL
  <2>1. Tight(s, R \cup {p}, S, W)
    BY <1>2, <1>5, <1>6, <1>7, Joins
  <2>2. Append(q, t, p) \in QType
    BY <1>2, <1>6, <1>7, AppendFields, TightLists
  <2>. QED BY <2>1, <2>2 DEF QType
<1>9. s \in QType
  BY <1>8, TightLists
<1> HIDE DEF s
<1>10. Members(s, R \cup {p}, S, W) = Members(q, R, S, W)
  BY <1>3, <1>5, <1>8 DEF Members, Blocked
<1>11. Alive' = Alive
  BY <1>3 DEF Alive, Created
<1>12. Held(s, Alive', R \cup {p}, S, W)
  BY <1>1, <1>8, <1>10, <1>11 DEF Held
<1>13. fault' = FALSE /\ Booted'
  BY <1>3, <1>4, <1>5 DEF Booted, Created
<1>14. TypeOK'
  <2>1. isFore' \in [Pcb -> {0, 1, -1}]
    BY <1>3, <1>6 DEF IInv, TypeOK
  <2>. QED BY <1>3, <1>9, <1>13, <2>1 DEF IInv, TypeOK, QType, Links
<1>w. On("wait") = W
  BY <1>1, Seen DEF IInv
<1>. QED
  BY <1>w, <1>3, <1>12, <1>13, <1>14, Regain

(* The child is a new list node at the end of the run queue. *)
LEMMA ForkStep ==
  ASSUME IInv, NEW p, fork_handler(p)
  PROVE IInv' /\ On("wait")' = On("wait")
<1> DEFINE c == allocated + 1
           t == Last(q, p)
           s == Append(q, t, c)
<1>1. PICK R, S, W \in SUBSET Pcb : Held(q, Alive, R, S, W)
  BY DEF IInv
<1>2. /\ Tight(q, R, S, W) /\ q \in QType /\ q.cur \in R /\ NULL \notin Pcb
      /\ R \subseteq Alive /\ S \subseteq Alive /\ W \subseteq Alive
      /\ Blocked(q) \subseteq Alive /\ Alive \subseteq Created /\ Created \subseteq Pcb
  BY <1>1, Lives
<1>3. /\ Caller(p, "fork") /\ c \in Pcb /\ q' = s /\ allocated' = c
      /\ global_counter' = global_counter + 1
      /\ processID' = [processID EXCEPT ![c] = global_counter + 1]
      /\ parentProcessID' = [parentProcessID EXCEPT ![c] = processID[p]]
      /\ parentPCB' = [parentPCB EXCEPT ![c] = p]
      /\ hasRan' = [hasRan EXCEPT ![c] = 1]
      /\ isFore' = ForkTakes(p, c)
      /\ UNCHANGED <<waitPID, sleepTimeLeft, hasExited, typed, fault>>
  BY DEF fork_handler
<1>4. Booted /\ p \in Pcb /\ p = q.cur
  BY <1>3, Callers
<1>5. allocated \in Pcb /\ c \notin Created
  BY <1>4, SchedAssumption DEF IInv, TypeOK, Created, Pcb
<1>6. c \in Pcb \ (R \cup S \cup W) /\ c \notin Blocked(q)
  BY <1>2, <1>3, <1>5
<1>7. t \in R /\ q.next[t] = NULL
  <2>1. List(q.next, q.prev, q.run, R) /\ p \in R /\ p # NULL
    BY <1>2, <1>4, TightLists
  <2>. QED BY <2>1, Ending
<1>8. Tight(s, R \cup {c}, S, W) /\ s.block = q.block
  <2>1. Tight(s, R \cup {c}, S, W)
    BY <1>2, <1>6, <1>7, Joins
  <2>2. s.block = q.block
    BY <1>2 DEF Append, QType
  <2>. QED BY <2>1, <2>2
<1>9. s \in QType
  BY <1>8, TightLists
<1> HIDE DEF s, t
<1>10. Members(s, R \cup {c}, S, W) = Members(q, R, S, W) \cup {c}
  BY <1>8 DEF Members, Blocked
<1>11. Created' = Created \cup {c}
  BY <1>3, <1>5 DEF Created, Pcb
<1>12. Alive' = Alive \cup {c}
  BY <1>3, <1>5, <1>11, <1>2 DEF Alive, IInv, TypeOK
<1>13. Held(s, Alive', R \cup {c}, S, W)
  BY <1>1, <1>8, <1>10, <1>12 DEF Held
<1>14. Booted'
  <2>1. processID'[Idle] = 0
    BY <1>3, <1>4, <1>5, SchedAssumption DEF Booted, IInv, TypeOK, Idle, Pcb
  <2>2. \A x \in Created' : hasRan'[x] # 0
    BY <1>2, <1>3, <1>4, <1>11 DEF Booted, IInv, TypeOK
  <2>3. global_counter' = allocated' - 1 /\ allocated' >= 2
    BY <1>3, <1>4, <1>5 DEF Booted, Pcb
  <2>. QED BY <2>1, <2>2, <2>3 DEF Booted
<1>15. TypeOK'
  <2>1. global_counter + 1 \in Pids
    BY <1>3, <1>4, <1>5, SchedAssumption DEF Booted, Pids, Pcb
  <2>2. isFore' \in [Pcb -> {0, 1, -1}]
    BY <1>3, <1>4 DEF ForkTakes, IInv, TypeOK
  <2>3. parentPCB' \in [Pcb -> Pcb \cup {NULL}] /\ parentProcessID' \in [Pcb -> Pids]
    BY <1>3, <1>4 DEF IInv, TypeOK
  <2>. QED BY <1>3, <1>9, <2>1, <2>2, <2>3 DEF IInv, TypeOK, QType, Links
<1>16. fault' = FALSE
  BY <1>3 DEF IInv, NoFault, TypeOK
<1>w. On("wait") = W
  BY <1>1, Seen DEF IInv
<1>. QED
  BY <1>w, <1>3, <1>13, <1>14, <1>15, <1>16, Regain

(* execve moves nobody. *)
LEMMA ExecForegroundStep ==
  ASSUME IInv, NEW p, ExecForeground(p)
  PROVE IInv' /\ On("wait")' = On("wait")
<1>1. PICK R, S, W \in SUBSET Pcb : Held(q, Alive, R, S, W)
  BY DEF IInv
<1>2. /\ Caller(p, "execve")
      /\ isFore' = IF LiveParent(p) THEN [isFore EXCEPT ![p] = 1, ![parentPCB[p]] = 0]
                   ELSE [isFore EXCEPT ![p] = 1]
      /\ UNCHANGED <<q, processID, parentProcessID, parentPCB, waitPID, sleepTimeLeft, hasRan,
                     hasExited, global_counter, allocated, typed, fault>>
  BY DEF ExecForeground
<1>3. Booted
  BY <1>2, Callers
<1>4. isFore' \in [Pcb -> {0, 1, -1}]
  BY <1>2 DEF IInv, TypeOK
<1>5. TypeOK'
  BY <1>2, <1>4 DEF IInv, TypeOK
<1>6. Booted' /\ Alive' = Alive /\ q' = q /\ fault' = FALSE
  BY <1>2, <1>3 DEF Booted, Created, Alive, IInv, NoFault, TypeOK
<1>7. PICK s : s = q
  OBVIOUS
<1>8. Held(s, Alive', R, S, W) /\ s = q'
  BY <1>1, <1>6, <1>7
<1>w. On("wait") = W
  BY <1>1, Seen DEF IInv
<1>. QED
  BY <1>w, <1>5, <1>6, <1>8, Regain

(* The parent of a background program goes back to the run queue. *)
LEMMA ExecBackgroundStep ==
  ASSUME IInv, NEW p, ExecBackground(p)
  PROVE /\ IInv' /\ On("wait")' \subseteq On("wait") /\ UNCHANGED <<hasRan, processID>>
        /\ q'.block = q.block
        /\ \A y \in On("wait") \ On("wait")' : parentPCB[p] = y /\ q'.cur = y
<1>1. PICK R, S, W \in SUBSET Pcb : Held(q, Alive, R, S, W)
  BY DEF IInv
<1>2. /\ Caller(p, "execve&")
      /\ isFore' = [isFore EXCEPT ![p] = 0, ![parentPCB[p]] = 1] \/ isFore' = [isFore EXCEPT ![p] = 1]
      /\ \/ /\ parentPCB[p] \in Chain(q, q.wait)
            /\ Switch(Resume(q, p, parentPCB[p]), parentPCB[p], hasRan, processID, TRUE)
         \/ UNCHANGED <<q, hasRan, processID, global_counter, fault>>
      /\ UNCHANGED <<parentProcessID, parentPCB, waitPID, sleepTimeLeft, hasExited, allocated, typed>>
  BY DEF ExecBackground
<1>3. Booted /\ p = q.cur
  BY <1>2, Callers
<1>4. isFore' \in [Pcb -> {0, 1, -1}]
  BY <1>2 DEF IInv, TypeOK
<1>4a. On("wait") = W
  BY <1>1, Seen DEF IInv
<1>5. CASE UNCHANGED <<q, hasRan, processID, global_counter, fault>>
  <2>1. TypeOK'
    BY <1>2, <1>4, <1>5 DEF IInv, TypeOK
  <2>2. Booted' /\ Alive' = Alive /\ q' = q /\ fault' = FALSE
    BY <1>2, <1>3, <1>5 DEF Booted, Created, Alive, IInv, NoFault, TypeOK
  <2>3. PICK s : s = q
    OBVIOUS
  <2>4. Held(s, Alive', R, S, W) /\ s = q'
    BY <1>1, <2>2, <2>3
  <2>5. IInv' /\ On("wait")' = W
    BY <2>1, <2>2, <2>4, Regain
  <2>. QED BY <1>4a, <1>5, <2>2, <2>5
<1>6. CASE /\ parentPCB[p] \in Chain(q, q.wait)
           /\ Switch(Resume(q, p, parentPCB[p]), parentPCB[p], hasRan, processID, TRUE)
  <2>1. PICK y, s : y = parentPCB[p] /\ s = Resume(q, q.cur, y)
    OBVIOUS
  <2>2. Switch(s, y, hasRan, processID, TRUE) /\ y \in W
    BY <1>1, <1>3, <1>6, <2>1, Seen DEF IInv
  <2>3. Tight(s, R \cup {y}, S, W \ {y}) /\ s.block = q.block /\ s.cur = y
    <3>1. Tight(q, R, S, W)
      BY <1>1 DEF Held
    <3>2. Resumed(q, s, R, S, W, y)
      BY <2>1, <2>2, <3>1, Resumes
    <3>. QED BY <3>2 DEF Resumed
  <2>4. Members(s, R \cup {y}, S, W \ {y}) = Members(q, R, S, W)
    BY <2>2, <2>3 DEF Members, Blocked
  <2>5. Held(s, Alive, R \cup {y}, S, W \ {y})
    BY <1>1, <2>3, <2>4 DEF Held, Lone
  <2>6. Called(s)
    BY <1>2, <1>3, <2>2, <2>3, <2>5, SwitchCalls
  <2>7. TypeOK'
    BY <1>2, <1>4, <2>6 DEF Called, IInv, TypeOK
  <2>8. IInv' /\ On("wait")' = W \ {y}
    BY <2>5, <2>6, <2>7, Regain DEF Called
  <2>9. q'.cur = y /\ q'.block = q.block /\ UNCHANGED <<hasRan, processID>>
    BY <2>3, <2>6 DEF Called
  <2>. QED BY <1>4a, <2>1, <2>8, <2>9
<1>. QED
  BY <1>2, <1>5, <1>6

(* The current process leaves the run queue for the queue X of sleepers or  *)
(* waiters, which holds nobody yet if it is to hold one process at a time.  *)
LEMMA FirstIn ==
  ASSUME NEW X \in SUBSET Pcb, NEW n \in Nat, Cardinality(X) < n, n <= 1
  PROVE X = {}
<1>1. IsFiniteSet(X) /\ Cardinality(X) \in Nat
  <2>1. IsFiniteSet(Pcb)
    BY FS_Interval, SchedAssumption DEF Pcb
  <2>2. IsFiniteSet(X)
    BY <2>1, FS_Subset
  <2>. QED BY <2>2, FS_CardinalityType
<1>. QED
  BY <1>1, FS_EmptySet

(* The waiter leaves the run queue; the next one runs. *)
LEMMA WaitStep ==
  ASSUME IInv, NEW p, NEW w \in Pids, waitPlease(p, w)
  PROVE /\ IInv' /\ On("wait")' = On("wait") \cup {p} /\ UNCHANGED <<hasRan, processID>>
        /\ q'.block = q.block
<1>1. PICK R, S, W \in SUBSET Pcb : Held(q, Alive, R, S, W)
  BY DEF IInv
<1>2. PICK s : s = Park(q, "wait")
  OBVIOUS
<1>3. /\ Caller(p, WaitCall(w)) /\ Cardinality(Chain(q, q.wait)) < WaitRoom
      /\ Switch(s, s.cur, hasRan, processID, TRUE)
      /\ waitPID' = [waitPID EXCEPT ![p] = w]
      /\ UNCHANGED <<parentProcessID, parentPCB, sleepTimeLeft, isFore, hasExited, allocated, typed>>
  BY <1>2 DEF waitPlease
<1>4. Booted /\ p \in Pcb /\ p = q.cur /\ p # Idle
  BY <1>3, Callers
<1>5. Tight(q, R, S, W) /\ q.cur \in R
  BY <1>1, Lives
<1>6. Tight(s, R \ {q.cur}, S, W \cup {q.cur}) /\ s.block = q.block
  BY <1>2, <1>4, <1>5, ParkWait
<1>7. Members(s, R \ {q.cur}, S, W \cup {q.cur}) = Members(q, R, S, W)
  BY <1>5, <1>6 DEF Members, Blocked
<1>8. Solitary => W = {}
  <2>1. Chain(q, q.wait) = W
    BY <1>1, Seen DEF IInv
  <2>. QED BY <1>3, <2>1, FirstIn, SchedAssumption DEF Solitary
<1>9. Held(s, Alive, R \ {q.cur}, S, W \cup {q.cur})
  BY <1>1, <1>6, <1>7, <1>8 DEF Held, Lone
<1>10. Called(s)
  BY <1>3, <1>4, <1>9, SwitchCalls
<1>11. TypeOK'
  <2>1. waitPID' \in [Pcb -> Pids \cup {-2}]
    BY <1>3 DEF IInv, TypeOK
  <2>. QED BY <1>3, <1>10, <2>1 DEF Called, IInv, TypeOK
<1>w. On("wait") = W
  BY <1>1, Seen DEF IInv
<1>. QED
  BY <1>w, <1>4, <1>6, <1>9, <1>10, <1>11, Regain DEF Called

(* The sleeper leaves the run queue; the next one runs. *)
LEMMA SleepStep ==
  ASSUME IInv, NEW p, NEW n \in Naps, sleepPlease(p, n)
  PROVE /\ IInv' /\ On("wait")' = On("wait") /\ UNCHANGED <<hasRan, processID>>
        /\ q'.block = q.block
<1>1. PICK R, S, W \in SUBSET Pcb : Held(q, Alive, R, S, W)
  BY DEF IInv
<1>2. PICK s : s = Park(q, "sleep")
  OBVIOUS
<1>3. /\ Caller(p, "nanosleep") /\ Cardinality(Chain(q, q.sleep)) < SleepRoom
      /\ Switch(s, s.cur, hasRan, processID, TRUE)
      /\ sleepTimeLeft' = [sleepTimeLeft EXCEPT ![p] = n]
      /\ UNCHANGED <<parentProcessID, parentPCB, waitPID, isFore, hasExited, allocated, typed>>
  BY <1>2 DEF sleepPlease
<1>4. Booted /\ p \in Pcb /\ p = q.cur /\ p # Idle
  BY <1>3, Callers
<1>5. Tight(q, R, S, W) /\ q.cur \in R
  BY <1>1, Lives
<1>6. Tight(s, R \ {q.cur}, S \cup {q.cur}, W) /\ s.block = q.block
  BY <1>2, <1>4, <1>5, ParkSleep
<1>7. Members(s, R \ {q.cur}, S \cup {q.cur}, W) = Members(q, R, S, W)
  BY <1>5, <1>6 DEF Members, Blocked
<1>8. Solitary => S = {}
  <2>1. Chain(q, q.sleep) = S
    BY <1>1, Seen DEF IInv
  <2>. QED BY <1>3, <2>1, FirstIn, SchedAssumption DEF Solitary
<1>9. Held(s, Alive, R \ {q.cur}, S \cup {q.cur}, W)
  BY <1>1, <1>6, <1>7, <1>8 DEF Held, Lone
<1>10. Called(s)
  BY <1>3, <1>4, <1>9, SwitchCalls
<1>11. TypeOK'
  <2>1. sleepTimeLeft' \in [Pcb -> Nat \cup {Forever}]
    BY <1>3, SchedAssumption DEF IInv, TypeOK
  <2>. QED BY <1>3, <1>10, <2>1 DEF Called, IInv, TypeOK
<1>w. On("wait") = W
  BY <1>1, Seen DEF IInv
<1>. QED
  BY <1>w, <1>6, <1>9, <1>10, <1>11, Regain DEF Called

(* The reader leaves the run queue; the next one runs. *)
LEMMA BlockStep ==
  ASSUME IInv, NEW p, ReadBlocks(p)
  PROVE /\ IInv' /\ On("wait")' = On("wait") /\ UNCHANGED <<hasRan, processID>>
        /\ q'.block = IF q.block = NULL THEN p ELSE q.block
<1>1. PICK R, S, W \in SUBSET Pcb : Held(q, Alive, R, S, W)
  BY DEF IInv
<1>2. PICK s : s = BlockReader(q, q.cur)
  OBVIOUS
<1>3. Caller(p, "read")
  BY DEF ReadBlocks
<1>4. Booted /\ p \in Pcb /\ p = q.cur /\ p # Idle /\ "read" \in Calls
  BY <1>3, Callers
<1>5. /\ Switch(s, s.cur, hasRan, processID, TRUE)
      /\ UNCHANGED <<parentProcessID, parentPCB, waitPID, sleepTimeLeft, isFore, hasExited,
                     allocated, typed>>
  BY <1>2, <1>4 DEF ReadBlocks
<1>6. Tight(q, R, S, W) /\ q.cur \in R /\ Members(q, R, S, W) \subseteq Alive
  BY <1>1, Lives DEF Held
<1>7. Tight(s, R \ {q.cur}, S, W) /\ s.block = IF q.block = NULL THEN q.cur ELSE q.block
  BY <1>2, <1>4, <1>6, Blocks
<1>8. Members(s, R \ {q.cur}, S, W) \subseteq Members(q, R, S, W)
  BY <1>6, <1>7 DEF Members, Blocked
<1>9. Held(s, Alive, R \ {q.cur}, S, W)
  BY <1>1, <1>4, <1>6, <1>7, <1>8 DEF Held
<1>10. Called(s)
  BY <1>4, <1>5, <1>9, SwitchCalls
<1>11. TypeOK'
  BY <1>5, <1>10 DEF Called, IInv, TypeOK
<1>w. On("wait") = W
  BY <1>1, Seen DEF IInv
<1>. QED
  BY <1>w, <1>4, <1>7, <1>9, <1>10, <1>11, Regain DEF Called

(* The exit of x, which wakes those who wait for it and nobody else. *)
Departs(x) ==
  /\ sys_exit(x) /\ x \in Alive /\ hasRan[x] = 1 /\ q'.block = q.block
  /\ On("wait")' = {y \in On("wait") \ {x} : ~Awaits(y, x)}
  /\ \A y \in On("wait")' : waitPID'[y] = waitPID[y]
  /\ hasRan' = [hasRan EXCEPT ![x] = -1] /\ processID' = [processID EXCEPT ![x] = -1]

(* sys_exit(x).  The process x is the current one, unless programs kill; a  *)
(* killed head of a queue leaves a head variable that is not true.          *)
LEMMA ExitStep ==
  ASSUME IInv, Booted, Solitary \/ HeadsTrue', NEW R, NEW S, NEW W, Held(q, Alive, R, S, W),
         NEW x \in Members(q, R, S, W), x # Idle, Solitary => x = q.cur, sys_exit(x)
  PROVE IInv' /\ Departs(x)
<1>0. PICK w, t, ran, pids :
        /\ w = Wake(q, "exit", x) /\ t = LeaveQueues(w.q, x)
        /\ ran = [hasRan EXCEPT ![x] = -1] /\ pids = [processID EXCEPT ![x] = -1]
  OBVIOUS
<1>1. /\ Tight(q, R, S, W) /\ q \in QType /\ q.cur \in R /\ NULL \notin Pcb
      /\ Apart(R, S, W, Blocked(q)) /\ Members(q, R, S, W) \subseteq Alive
      /\ Alive \subseteq Created /\ Created \subseteq Pcb
      /\ \A y \in Alive : hasRan[y] = 1
      /\ q.sleep \in S \cup {NULL} /\ q.wait \in W \cup {NULL}
  BY Lives, TightLists DEF Held
<1>2. x \in Alive /\ x \in Pcb /\ TypeOK
  BY <1>1 DEF IInv
<1>3. /\ Switch(t, t.cur, ran, pids, w.at = NULL)
      /\ waitPID' = [y \in Pcb |-> IF y = x \/ y \in w.woken THEN -2 ELSE waitPID[y]]
      /\ parentProcessID' = [parentProcessID EXCEPT ![x] = -1]
      /\ sleepTimeLeft' = [sleepTimeLeft EXCEPT ![x] = 0]
      /\ hasExited' = [hasExited EXCEPT ![x] = TRUE]
      /\ isFore' = IF isFore[x] # 0 /\ LiveParent(x)
                   THEN [isFore EXCEPT ![x] = -1, ![parentPCB[x]] = 1] ELSE isFore
      /\ UNCHANGED <<parentPCB, allocated, typed>>
  BY <1>0 DEF sys_exit
<1>4. Awaited(q, R, S, W, w) /\ w.woken = {y \in W : Awaits(y, x)}
  <2>1. Walked("exit") = "wait"
    BY DEF Walked
  <2>2. Awaiting(q, R, S, W, "exit")
    BY <1>1, <1>2, <2>1 DEF Awaiting, Tight, TypeOK, Sleepers
  <2>3. \A y \in W : y \in w.woken <=> Wants("exit", x, y)
    BY <1>0, <2>2, WakesDue
  <2>4. Awaited(q, R, S, W, w)
    BY <1>0, <2>2, WakeWaiters
  <2>5. w.woken \subseteq W
    BY <2>4 DEF Awaited
  <2>. QED BY <2>3, <2>4, <2>5 DEF Wants
<1> DEFINE R1 == R \cup w.woken
           W1 == W \ w.woken
<1>5. /\ w.at = NULL /\ w.woken \subseteq W /\ Loose(w.q, R1, S, W1)
      /\ w.q.cur = q.cur /\ w.q.block = q.block /\ w.q.sleep \notin R1
      /\ Lone(W) => w.q.wait \notin R1
  <2>1. S \ w.woken = S
    BY <1>1, <1>4 DEF Awaited, Apart
  <2>2. q.sleep \notin R \cup w.woken
    <3>1. w.woken \subseteq W /\ W \subseteq Pcb
      BY <1>1, <1>4 DEF Awaited, Members
    <3>2. q.sleep \notin R
      BY <1>1 DEF Tight
    <3>. QED BY <1>1, <3>1, <3>2 DEF Apart
  <2>. QED BY <1>4, <2>1, <2>2 DEF Awaited
<1>6. /\ x \in R1 \cup S \cup W1 \cup Blocked(w.q) /\ Blocked(w.q) = Blocked(q)
      /\ R1 \cup S \cup W1 = R \cup S \cup W /\ (x = q.cur => x \in R1)
  BY <1>1, <1>5 DEF Members, Blocked
<1> HIDE DEF R1, W1
<1>7. Quit(w.q, t, R1, S, W1, x)
  BY <1>0, <1>5, <1>6, Quits
<1>8. Switch(t, t.cur, ran, pids, TRUE) /\ q' = t
  BY <1>3, <1>5 DEF Switch
<1>9. hasRan'[x] = -1
  <2>1. hasRan' = [y \in Pcb |-> IF y \in {z \in Pcb : z = t.cur /\ ran[z] = 0} THEN 1 ELSE ran[y]]
    BY <1>8 DEF Switch
  <2>2. ran[x] = -1
    BY <1>0, <1>2 DEF TypeOK
  <2>. QED BY <1>2, <2>1, <2>2
<1>10. HeadsTrue' => Without(t, R1, S, W1, x)
  <2> SUFFICES ASSUME HeadsTrue', Stray(t, x) PROVE FALSE
    BY <1>7 DEF Quit
  <2>1. /\ t["sleep"] = t.sleep /\ t["wait"] = t.wait /\ t["block"] = t.block /\ t["run"] = t.run
    BY <1>7 DEF Quit, QType
  <2>2. x \notin Alive'
    BY <1>9 DEF Alive
  <2>3. \A h \in {"sleep", "wait", "block"} : t[h] # NULL => t[h] \in Alive' \ Chain(t, t["run"])
    BY <1>8 DEF HeadsTrue, On
  <2>4. x # NULL /\ NULL \notin Chain(t, t.run)
    BY <1>1, <1>2 DEF Chain
  <2>5. t.sleep # x /\ t.wait # x /\ t.block # x
    BY <2>1, <2>2, <2>3, <2>4
  <2>6. t.wait \notin Chain(t, t.run)
    BY <2>1, <2>3, <2>4
  <2>. QED BY <2>5, <2>6 DEF Stray
<1>11. PICK R2 \in SUBSET R1, S2 \in SUBSET S, W2 \in SUBSET W1 :
         /\ Tight(t, R2, S2, W2) /\ x \notin Members(t, R2, S2, W2) /\ W2 = W1 \ {x}
         /\ Solitary => Members(q, R, S, W) \ {x} \subseteq Members(t, R2, S2, W2)
  <2>1. t.block = q.block /\ Blocked(t) = Blocked(q)
    BY <1>5, <1>7 DEF Quit, Blocked
  <2>2. CASE Solitary
    <3>1. Lone(W) /\ x \in R1
      BY <1>6, <2>2 DEF Held
    <3>2. Tight(t, R1 \ {x}, S, W1)
      BY <1>5, <1>7, <3>1 DEF Quit
    <3>3. x \notin Members(t, R1 \ {x}, S, W1) /\ W1 \ {x} = W1
      BY <1>5, <1>6, <2>1, <3>1 DEF Members, Loose, Apart
    <3>4. Members(q, R, S, W) \ {x} \subseteq Members(t, R1 \ {x}, S, W1)
      BY <1>6, <2>1 DEF Members
    <3>. QED BY <3>2, <3>3, <3>4
  <2>3. CASE ~Solitary
    <3>1. Without(t, R1, S, W1, x) /\ HeadsTrue'
      BY <1>10, <2>3
    <3>2. Loose(t, R1 \ {x}, S \ {x}, W1 \ {x}) /\ x \notin Blocked(t)
      BY <3>1 DEF Without
    <3>3. Tight(t, R1 \ {x}, S \ {x}, W1 \ {x})
      BY <1>8, <3>1, <3>2, Settles
    <3>. QED BY <2>3, <3>2, <3>3 DEF Members
  <2>. QED BY <2>2, <2>3
<1>12. Members(t, R2, S2, W2) \subseteq Alive \ {x}
  <2>1. t.block = q.block
    BY <1>5, <1>7 DEF Quit
  <2>. QED BY <1>1, <1>6, <1>11, <2>1 DEF Members, Blocked
<1>13. /\ t.cur \in Alive /\ t.cur \in Pcb /\ ran[t.cur] = 1
  <2>1. t.cur \in Members(t, R2, S2, W2)
    BY <1>11, TightLists DEF Members
  <2>. QED BY <1>0, <1>1, <1>2, <1>12, <2>1 DEF TypeOK
<1>14. /\ ran \in [Pcb -> {0, 1, -1}] /\ pids \in [Pcb -> Pids]
  BY <1>0, <1>2, SchedAssumption DEF TypeOK, Pids
<1>15. PICK c : c = t.cur
  OBVIOUS
<1>16. Switchable(t, c, ran, pids) /\ ran[c] = 1
  BY <1>2, <1>8, <1>13, <1>14, <1>15 DEF Switchable, TypeOK
<1>17. hasRan' = ran /\ processID' = pids
  <2>1. hasRan' = ran
    BY <1>16, SwitchAgain
  <2>2. processID' = pids
    BY <1>16, SwitchAgain
  <2>. QED BY <2>1, <2>2
<1>18. global_counter' = global_counter /\ fault' = FALSE
  BY <1>16, SwitchAgain
<1>19. Alive' = Alive \ {x}
  BY <1>0, <1>1, <1>2, <1>3, <1>17 DEF Alive, Created, TypeOK
<1>20. Held(t, Alive', R2, S2, W2)
  <2>1. Solitary => Lone(S2) /\ Lone(W2)
    BY <1>5, <1>11 DEF Held, Lone, W1
  <2>2. Solitary /\ "read" \notin Calls => Alive' \subseteq Members(t, R2, S2, W2)
    BY <1>11, <1>19 DEF Held
  <2>. QED BY <1>11, <1>12, <1>19, <2>1, <2>2 DEF Held
<1>21. Booted'
  <2>1. Idle \in Pcb
    BY SchedAssumption DEF Idle, Pcb
  <2>. QED BY <1>0, <1>1, <1>2, <1>3, <1>17, <1>18, <2>1 DEF Booted, Created, TypeOK
<1>22. TypeOK'
  <2>1. /\ waitPID' \in [Pcb -> Pids \cup {-2}] /\ parentProcessID' \in [Pcb -> Pids]
        /\ hasExited' \in [Pcb -> BOOLEAN] /\ isFore' \in [Pcb -> {0, 1, -1}]
    <3>1. waitPID' \in [Pcb -> Pids \cup {-2}]
      BY <1>2, <1>3 DEF TypeOK
    <3>2. -1 \in Pids
      BY SchedAssumption DEF Pids
    <3>3. parentProcessID' \in [Pcb -> Pids]
      BY <1>2, <1>3, <3>2 DEF TypeOK
    <3>4. hasExited' \in [Pcb -> BOOLEAN]
      BY <1>2, <1>3 DEF TypeOK
    <3>5. isFore' \in [Pcb -> {0, 1, -1}]
      BY <1>2, <1>3 DEF TypeOK
    <3>. QED BY <3>1, <3>3, <3>4, <3>5
  <2>2. sleepTimeLeft' \in [Pcb -> Nat \cup {Forever}]
    BY <1>2, <1>3 DEF TypeOK
  <2>3. q' \in QType
    BY <1>7, <1>8 DEF Quit
  <2>. QED BY <1>2, <1>3, <1>14, <1>17, <1>18, <2>1, <2>2, <2>3 DEF TypeOK, QType, Links
<1>23. IInv' /\ On("wait")' = W2
  BY <1>8, <1>18, <1>20, <1>21, <1>22, Regain
<1>24. W2 = {y \in On("wait") \ {x} : ~Awaits(y, x)}
  <2>1. On("wait") = W
    BY <1>2, Seen
  <2>. QED BY <2>1, <1>4, <1>11 DEF W1
<1>25. \A y \in W2 : waitPID'[y] = waitPID[y]
  <2>1. W2 \subseteq Pcb /\ W2 \cap w.woken = {} /\ x \notin W2
    BY <1>1, <1>4, <1>11 DEF W1, Awaited, Members
  <2>. QED BY <1>3, <2>1
<1>26. IInv' /\ On("wait")' = {y \in On("wait") \ {x} : ~Awaits(y, x)}
  BY <1>23, <1>24
<1>27. hasRan' = [hasRan EXCEPT ![x] = -1] /\ processID' = [processID EXCEPT ![x] = -1]
  BY <1>0, <1>17
<1>28. q'.block = q.block
  BY <1>5, <1>7, <1>8 DEF Quit
<1>. QED
  BY <1>1, <1>2, <1>23, <1>25, <1>26, <1>27, <1>28 DEF Departs

(* The two ways a process is deleted: by another, and by itself. *)
LEMMA KillStep ==
  ASSUME IInv, Solitary \/ HeadsTrue', NEW p, NEW pid \in Pids, KillisCalled(p, pid)
  PROVE IInv' /\ \E x \in Alive : Departs(x)
<1>1. PICK R, S, W \in SUBSET Pcb : Held(q, Alive, R, S, W)
  BY DEF IInv
<1>2. PICK x \in Victims(pid) :
         IF hasRan[x] = 1 THEN sys_exit(x)
         ELSE fault' = TRUE /\ UNCHANGED <<q, pcbs, global_counter, allocated, typed>>
  BY DEF KillisCalled
<1>3. Caller(p, "kill") /\ pid # 0
  BY DEF KillisCalled
<1>4. Booted /\ "kill" \in Calls
  BY <1>3, Callers
<1>5. x \in Members(q, R, S, W) /\ processID[x] = pid
  BY <1>1, Seen DEF Victims, IInv
<1>6. hasRan[x] = 1
  BY <1>1, <1>4, <1>5, Lives DEF Held
<1>7. x # Idle
  BY <1>3, <1>4, <1>5 DEF Booted
<1>8. ~Solitary
  BY <1>4 DEF Solitary
<1>. QED
  BY <1>1, <1>2, <1>4, <1>5, <1>6, <1>7, <1>8, ExitStep DEF Departs

LEMMA OwnExitStep ==
  ASSUME IInv, Solitary \/ HeadsTrue', NEW p, Exit(p)
  PROVE IInv' /\ \E x \in Alive : Departs(x)
<1>1. PICK R, S, W \in SUBSET Pcb : Held(q, Alive, R, S, W)
  BY DEF IInv
<1>2. Caller(p, "exit") /\ sys_exit(p)
  BY DEF Exit
<1>3. Booted /\ p = q.cur /\ p # Idle
  BY <1>2, Callers
<1>4. p \in Members(q, R, S, W)
  BY <1>1, <1>3, Lives DEF Members
<1>. QED
  BY <1>1, <1>2, <1>3, <1>4, ExitStep DEF Departs

(* Steps that leave the queues, the pids and the address spaces alone. *)
LEMMA OtherStep ==
  ASSUME IInv, UNCHANGED <<q, pcbs, global_counter, allocated, fault>>, typed' \in BOOLEAN
  PROVE IInv' /\ On("wait")' = On("wait")
<1>1. PICK R, S, W \in SUBSET Pcb : Held(q, Alive, R, S, W)
  BY DEF IInv
<1>2. TypeOK'
  BY DEF IInv, TypeOK, pcbs
<1>3. (Booting \/ Booted)' /\ Alive' = Alive /\ fault' = FALSE
  BY DEF IInv, Booting, Booted, Created, Alive, On, NoFault, TypeOK, pcbs
<1>4. PICK s : s = q
  OBVIOUS
<1>5. Held(s, Alive', R, S, W) /\ s = q'
  BY <1>1, <1>3, <1>4
<1>w. On("wait") = W
  BY <1>1, Seen DEF IInv
<1>. QED
  BY <1>w, <1>2, <1>3, <1>5, Regain

(* The boot establishes the invariant. *)
LEMMA Starts ==
  ASSUME Init
  PROVE IInv
<1> DEFINE R == {Idle, InitProc}
           pos == [x \in R |-> x]
<1>0. /\ Idle \in Pcb /\ InitProc \in Pcb /\ Idle # InitProc /\ NULL \notin Pcb /\ Idle < InitProc
      /\ Idle # NULL /\ InitProc # NULL /\ Idle \in Nat /\ InitProc \in Nat /\ 2 \in Pcb
      /\ -1 \in Pids /\ -1 # 0
  BY SchedAssumption DEF Pcb, Idle, InitProc, NULL, Pids
<1>1. /\ q = [next |-> [p \in Pcb |-> IF p = Idle THEN InitProc ELSE NULL],
              prev |-> [p \in Pcb |-> IF p = InitProc THEN Idle ELSE NULL],
              run |-> Idle, sleep |-> NULL, wait |-> NULL, block |-> NULL, cur |-> Idle]
      /\ processID = [p \in Pcb |-> -1] /\ hasRan = [p \in Pcb |-> 0]
      /\ global_counter = -1 /\ allocated = 2 /\ fault = FALSE
  BY DEF Init
<1>2. TypeOK
  <2>1. /\ [p \in Pcb |-> IF p = Idle THEN InitProc ELSE NULL] \in [Pcb -> Pcb \cup {NULL}]
        /\ [p \in Pcb |-> IF p = InitProc THEN Idle ELSE NULL] \in [Pcb -> Pcb \cup {NULL}]
    BY <1>0
  <2>2. q \in [next : [Pcb -> Pcb \cup {NULL}], prev : [Pcb -> Pcb \cup {NULL}],
            run : Pcb \cup {NULL}, sleep : Pcb \cup {NULL}, wait : Pcb \cup {NULL},
            block : Pcb \cup {NULL}, cur : Pcb]
    BY <1>0, <1>1, <2>1
  <2>3. 0 \in Nat \cup {Forever}
    OBVIOUS
  <2>4. parentPCB \in [Pcb -> Pcb \cup {NULL}] /\ waitPID \in [Pcb -> Pids \cup {-2}]
    BY SchedAssumption DEF Init, Pids
  <2>. QED BY <1>0, <2>2, <2>3, <2>4 DEF Init, TypeOK
<1>3. Created = R /\ Alive = R
  <2>1. Created = R
    BY <1>1 DEF Created, Idle, InitProc
  <2>. QED BY <1>0, <1>1, <2>1 DEF Alive
<1>4. List(q.next, q.prev, q.run, R)
  <2>1. /\ q.next[Idle] = InitProc /\ q.next[InitProc] = NULL
        /\ q.prev[Idle] = NULL /\ q.prev[InitProc] = Idle /\ q.run = Idle
    BY <1>0, <1>1
  <2>2. pos \in [R -> Nat] /\ pos[Idle] < pos[InitProc]
    BY <1>0
  <2> HIDE DEF pos
  <2>3. Ranked(q.next, q.prev, q.run, R, pos)
    BY <1>0, <2>1, <2>2 DEF Ranked
  <2>. QED BY <2>2, <2>3 DEF List
<1>5. List(q.next, q.prev, NULL, {})
  <2>1. Ranked(q.next, q.prev, NULL, {}, [x \in {} |-> 0])
    BY DEF Ranked
  <2>2. [x \in {} |-> 0] \in [{} -> Nat]
    OBVIOUS
  <2>. QED BY <2>1, <2>2 DEF List
<1>6. Tight(q, R, {}, {}) /\ Blocked(q) = {}
  <2>1. q.sleep = NULL /\ q.wait = NULL /\ q.block = NULL /\ q.run = Idle /\ q.cur = Idle /\ q \in QType
    BY <1>1, <1>2 DEF TypeOK, QType, Links
  <2>2. Blocked(q) = {}
    BY <2>1 DEF Blocked
  <2>3. Apart(R, {}, {}, Blocked(q))
    BY <2>2 DEF Apart
  <2>. QED BY <1>4, <1>5, <2>1, <2>2, <2>3, ListsTight
<1>7. Held(q, Alive, R, {}, {})
  BY <1>3, <1>6 DEF Held, Members, Lone
<1>8. On("run") = R
  BY <1>2, <1>7, Seen
<1>9. Booting
  BY <1>0, <1>1, <1>8 DEF Booting
<1>10. R \in SUBSET Pcb
  BY <1>0
<1> HIDE DEF R
<1>. QED
  BY <1>1, <1>2, <1>7, <1>9, <1>10 DEF IInv, NoFault

(* Every step keeps it. *)
LEMMA Steps ==
  ASSUME IInv, Solitary \/ HeadsTrue', [Next]_vars
  PROVE IInv'
<1>1. ASSUME NEW second \in BOOLEAN, NEW slice \in BOOLEAN, timer_handler(second, slice) PROVE IInv'
  BY <1>1, TimerStep
<1>2. CASE keyboard_handler
  <2>1. CASE KeyTyped
    BY <2>1, OtherStep DEF KeyTyped
  <2>2. CASE KeyEnter
    BY <2>2, EnterStep
  <2>. QED BY <1>2, <2>1, <2>2 DEF keyboard_handler
<1>3. ASSUME NEW p \in Pcb, fork_handler(p) PROVE IInv'
  BY <1>3, ForkStep
<1>4. ASSUME NEW p \in Pcb, ExecForeground(p) PROVE IInv'
  BY <1>4, ExecForegroundStep
<1>5. ASSUME NEW p \in Pcb, ExecBackground(p) PROVE IInv'
  BY <1>5, ExecBackgroundStep
<1>6. ASSUME NEW p \in Pcb, NEW w \in Pids, waitPlease(p, w) PROVE IInv'
  BY <1>6, WaitStep
<1>7. ASSUME NEW p \in Pcb, NEW n \in Naps, sleepPlease(p, n) PROVE IInv'
  BY <1>7, SleepStep
<1>8. ASSUME NEW p \in Pcb, ReadTyped(p) PROVE IInv'
  BY <1>8, OtherStep DEF ReadTyped
<1>9. ASSUME NEW p \in Pcb, ReadBlocks(p) PROVE IInv'
  BY <1>9, BlockStep
<1>10. ASSUME NEW p \in Pcb, Exit(p) PROVE IInv'
  BY <1>10, OwnExitStep
<1>11. ASSUME NEW p \in Pcb, NEW pid \in Pids, KillisCalled(p, pid) PROVE IInv'
  BY <1>11, KillStep
<1>12. CASE UNCHANGED vars
  BY <1>12, OtherStep DEF vars, IInv, TypeOK
<1>. QED
  BY <1>1, <1>2, <1>3, <1>4, <1>5, <1>6, <1>7, <1>8, <1>9, <1>10, <1>11, <1>12 DEF Next

(* What the runs check follows from the invariant. *)
LEMMA Implied ==
  ASSUME IInv
  PROVE /\ TypeOK /\ NoFault /\ RunQueueSound /\ WalksEnd /\ EveryQueueProper /\ HeadsTrue
        /\ Solitary /\ "read" \notin Calls => NothingLost
<1>1. PICK R, S, W \in SUBSET Pcb : Held(q, Alive, R, S, W)
  BY DEF IInv
<1>2. TypeOK /\ NoFault
  BY DEF IInv
<1>3. /\ Tight(q, R, S, W) /\ q \in QType /\ q.run = Idle /\ q.cur \in R
      /\ R \subseteq Alive /\ S \subseteq Alive /\ W \subseteq Alive /\ Blocked(q) \subseteq Alive
      /\ NULL \notin Pcb /\ Apart(R, S, W, Blocked(q))
  BY <1>1, Lives
<1>4. /\ On("run") = R /\ On("sleep") = S /\ On("wait") = W /\ On("block") = Blocked(q)
      /\ Chain(q, q.sleep) = S /\ Chain(q, q.wait) = W /\ Queued = Members(q, R, S, W)
      /\ Ends(q, q.run) /\ Ends(q, q.sleep) /\ Ends(q, q.wait) /\ Ends(q, q.block)
      /\ q["run"] = q.run /\ q["sleep"] = q.sleep /\ q["wait"] = q.wait /\ q["block"] = q.block
  BY <1>1, <1>2, Seen
<1>5. /\ List(q.next, q.prev, q.run, R)
      /\ List(q.next, q.prev, q.sleep, S) /\ List(q.next, q.prev, q.wait, W)
      /\ List(q.next, q.prev, q.block, Blocked(q))
      /\ q.sleep \in S \cup {NULL} /\ q.wait \in W \cup {NULL}
  BY <1>3, TightLists
<1>6. ASSUME NEW h, NEW X, List(q.next, q.prev, h, X) PROVE Proper(h)
  <2>1. Chain(q, h) = X
    BY <1>6, Reached
  <2>2. Ends(q, h)
    BY <1>6, Lists
  <2>4. h # NULL => q.prev[h] = NULL
    BY <1>6 DEF List, Ranked
  <2>3. \A y \in X : q.next[y] # NULL => q.prev[q.next[y]] = y
    BY <1>6, Lists
  <2>. QED BY <2>1, <2>2, <2>3, <2>4 DEF Proper
<1>7. Proper(q.run) /\ Proper(q.sleep) /\ Proper(q.wait) /\ Proper(q.block)
  BY <1>5, <1>6
<1>8. RunQueueSound
  BY <1>3, <1>4, <1>7 DEF RunQueueSound
<1>9. WalksEnd
  BY <1>4 DEF WalksEnd, Queues
<1>10. EveryQueueProper
  <2>1. \A h \in Queues : Proper(q[h])
    BY <1>4, <1>7 DEF Queues
  <2>2. \A g, h \in Queues : g # h => On(g) \cap On(h) = {}
    BY <1>3, <1>4 DEF Queues, Apart
  <2>. QED BY <2>1, <2>2 DEF EveryQueueProper
<1>11. HeadsTrue
  <2>1. q.sleep # NULL => q.sleep \in Alive \ R
    BY <1>3, <1>5 DEF Apart
  <2>2. q.wait # NULL => q.wait \in Alive \ R
    BY <1>3, <1>5 DEF Apart
  <2>3. q.block # NULL => q.block \in Alive \ R
    BY <1>3 DEF Apart, Blocked
  <2>. QED BY <1>4, <2>1, <2>2, <2>3 DEF HeadsTrue
<1>12. Solitary /\ "read" \notin Calls => NothingLost
  BY <1>1, <1>4 DEF Held, NothingLost
<1>. QED
  BY <1>2, <1>8, <1>9, <1>10, <1>11, <1>12

-----------------------------------------------------------------------------
(* The theorems.                                                           *)

(* Whatever the programs call, for every number of processes: as long as    *)
(* the head variables are true, the scheduler keeps all of its invariants.  *)
THEOREM Invariance == Spec /\ [](Solitary \/ HeadsTrue) => []IInv
<1>1. Init => IInv
  BY Starts
<1>2. IInv /\ (Solitary \/ HeadsTrue)' /\ [Next]_vars => IInv'
  <2> SUFFICES ASSUME IInv, (Solitary \/ HeadsTrue)', [Next]_vars PROVE IInv'
    OBVIOUS
  <2>1. Solitary \/ HeadsTrue'
    OBVIOUS
  <2>. QED BY <2>1, Steps
<1>. QED
  BY <1>1, <1>2, PTL DEF Spec

(* While the head variables are true, the kernel does not fault, every walk *)
(* ends and the queues stay disjoint lists, whatever the programs call.     *)
THEOREM HeadsTrueSuffices ==
  Spec /\ []HeadsTrue => [](TypeOK /\ NoFault /\ RunQueueSound /\ WalksEnd /\ EveryQueueProper)
<1>1. HeadsTrue => Solitary \/ HeadsTrue
  OBVIOUS
<1>2. IInv => TypeOK /\ NoFault /\ RunQueueSound /\ WalksEnd /\ EveryQueueProper
  BY Implied
<1>. QED
  BY <1>1, <1>2, Invariance, PTL

(* Programs that wait and sleep one at a time and kill nobody do not need   *)
(* that: their head variables stay true.                                    *)
THEOREM SolitaryInvariance == Solitary => (Spec => []IInv)
<1> SUFFICES ASSUME Solitary PROVE Spec => []IInv
  OBVIOUS
<1>1. Solitary \/ HeadsTrue
  OBVIOUS
<1>. QED
  BY <1>1, Invariance, PTL

(* Pids, links, counters and flags keep their types. *)
THEOREM TypeCorrect == Solitary => (Spec => []TypeOK)
<1>1. IInv => TypeOK
  BY Implied
<1>. QED BY <1>1, SolitaryInvariance, PTL

(* Every switch, by the timer or by a call, is to a process with an address *)
(* space, and every walk comes to its end: the kernel does not crash.       *)
THEOREM KernelNeverFaults == Solitary => (Spec => []NoFault)
<1>1. IInv => NoFault
  BY Implied
<1>. QED BY <1>1, SolitaryInvariance, PTL

(* pcb_head starts the run queue with the idle process; the links agree in  *)
(* both directions; current_pcb is in it; no process in it is deleted.      *)
THEOREM RunQueueStaysSound == Solitary => (Spec => []RunQueueSound)
<1>1. IInv => RunQueueSound
  BY Implied
<1>. QED BY <1>1, SolitaryInvariance, PTL

(* No queue becomes circular. *)
THEOREM WalksAlwaysEnd == Solitary => (Spec => []WalksEnd)
<1>1. IInv => WalksEnd
  BY Implied
<1>. QED BY <1>1, SolitaryInvariance, PTL

(* The four queues are doubly linked lists without a common member. *)
THEOREM QueuesStayProper == Solitary => (Spec => []EveryQueueProper)
<1>1. IInv => EveryQueueProper
  BY Implied
<1>. QED BY <1>1, SolitaryInvariance, PTL

(* The head variables of the sleepers, the waiters and the blocked reader   *)
(* name living processes that are not runnable.                             *)
THEOREM HeadsStayTrue == Solitary => (Spec => []HeadsTrue)
<1>1. IInv => HeadsTrue
  BY Implied
<1>. QED BY <1>1, SolitaryInvariance, PTL

(* If no program reads the terminal either, every living process stays in a *)
(* queue: a second reader is what no queue holds.                           *)
THEOREM NobodyIsLost == Solitary /\ "read" \notin Calls => (Spec => []NothingLost)
<1> SUFFICES ASSUME Solitary, "read" \notin Calls PROVE Spec => []NothingLost
  OBVIOUS
<1>1. IInv => NothingLost
  BY Implied
<1>2. Spec => []IInv
  BY SolitaryInvariance
<1>. QED BY <1>1, <1>2, PTL

-----------------------------------------------------------------------------
(***************************************************************************)
(* Why processes wait, and why they stop waiting.                          *)
(*                                                                         *)
(* wait4 refuses to wait unless a queue holds somebody to wait for, and    *)
(* the exit of a process wakes whoever waits for it.  Between the two lie  *)
(* the pids: a waiter names a pid, or the parent's pid is compared with    *)
(* the pid the child remembers.  Kin is what makes a pid mean a PCB; with  *)
(* it, the waiters that an exit leaves waiting are those that have another *)
(* process to wait for.                                                    *)
(***************************************************************************)

(* A living process that ran has its number less one as its pid, whoever    *)
(* else is not alive or has not run has none, a child remembers its         *)
(* parent's pid and PCB, and only the deleted have exited.                  *)
Kin ==
  /\ \A x \in Created :
       /\ processID[x] = IF hasRan[x] = 1 THEN x - 1 ELSE -1
       /\ parentPCB[x] \in Created \cup {NULL}
       /\ hasRan[x] # -1 => parentProcessID[x] = parentPCB[x] - 1
  /\ \A x \in Pcb : hasExited[x] => x \in Created /\ hasRan[x] = -1
(* y may wait because of x. *)
Cause(y, x) == processID[x] = waitPID[y] \/ (waitPID[y] = -1 /\ parentPCB[x] = y)
Caused == \A y \in On("wait") : \E x \in Alive : Cause(y, x)

(* The inductive invariant. *)
WInv == Kin /\ Caused

(* What the invariants say of the tables. *)
LEMMA Tables ==
  ASSUME IInv
  PROVE /\ processID \in [Pcb -> Pids] /\ parentProcessID \in [Pcb -> Pids]
        /\ parentPCB \in [Pcb -> Pcb \cup {NULL}] /\ waitPID \in [Pcb -> Pids \cup {-2}]
        /\ hasRan \in [Pcb -> {0, 1, -1}] /\ hasExited \in [Pcb -> BOOLEAN]
        /\ allocated \in Pcb /\ Alive \subseteq Created /\ Created \subseteq Pcb
        /\ On("wait") \subseteq Alive /\ On("wait") \cap On("run") = {} /\ q.cur \in On("run")
        /\ Pcb \subseteq Nat /\ NULL \notin Pcb
        /\ Booted => /\ \A x \in Alive : hasRan[x] = 1
                     /\ global_counter = allocated - 1
<1>1. PICK R, S, W \in SUBSET Pcb : Held(q, Alive, R, S, W)
  BY DEF IInv
<1>2. /\ q.cur \in R /\ W \subseteq Alive /\ Apart(R, S, W, Blocked(q))
      /\ Alive \subseteq Created /\ Created \subseteq Pcb /\ NULL \notin Pcb
      /\ Booted => \A x \in Alive : hasRan[x] = 1
  BY <1>1, Lives
<1>3. On("wait") = W /\ On("run") = R
  BY <1>1, Seen DEF IInv
<1>4. W \cap R = {}
  BY <1>2 DEF Apart
<1>5. Pcb \subseteq Nat
  BY SchedAssumption DEF Pcb
<1>. QED
  BY <1>2, <1>3, <1>4, <1>5 DEF IInv, TypeOK, Booted

(* Nobody joins the waiters, and the tables stay as they are. *)
LEMMA Stays ==
  ASSUME IInv, WInv, On("wait")' \subseteq On("wait"),
         UNCHANGED <<hasRan, processID, parentPCB, parentProcessID, waitPID, hasExited, allocated>>
  PROVE WInv'
<1>1. Created' = Created /\ Alive' = Alive
  BY DEF Created, Alive
<1>2. Kin'
  BY <1>1 DEF WInv, Kin
<1>3. Caused'
  <2> SUFFICES ASSUME NEW y \in On("wait")' PROVE \E x \in Alive' : Cause(y, x)'
    BY DEF Caused
  <2>1. PICK x \in Alive : Cause(y, x)
    BY DEF WInv, Caused
  <2>2. Cause(y, x)'
    BY <2>1 DEF Cause
  <2>. QED BY <1>1, <2>1, <2>2
<1>. QED
  BY <1>2, <1>3 DEF WInv

(* The timer wakes waiters; at the boot it gives the first two pids. *)
LEMMA TimerKeeps ==
  ASSUME IInv, WInv, Solitary \/ HeadsTrue', NEW second \in BOOLEAN, NEW slice \in BOOLEAN,
         timer_handler(second, slice)
  PROVE WInv'
<1>1. On("wait")' \subseteq On("wait") /\ Numbers
  BY TimerStep
<1>2. UNCHANGED <<parentProcessID, parentPCB, waitPID, isFore, hasExited, allocated, typed>>
  BY DEF timer_handler
<1>3. CASE UNCHANGED <<hasRan, processID>>
  BY <1>1, <1>2, <1>3, Stays
<1>4. CASE ~UNCHANGED <<hasRan, processID>>
  <2>1. On("wait") = {} /\ allocated = 2
    BY <1>1, <1>4 DEF Numbers
  <2>2. PICK p \in Created : /\ hasRan[p] = 0 /\ p = global_counter + 2
                             /\ hasRan' = [hasRan EXCEPT ![p] = 1]
                             /\ processID' = [processID EXCEPT ![p] = p - 1]
    BY <1>1, <1>4 DEF Numbers
  <2>3. /\ \A x \in Pcb : hasRan'[x] = (IF x = p THEN 1 ELSE hasRan[x])
        /\ \A x \in Pcb : processID'[x] = (IF x = p THEN p - 1 ELSE processID[x])
    BY <2>2, Tables
  <2>4. Created' = Created
    BY <1>2 DEF Created
  <2>5. Kin'
    BY <1>2, <2>2, <2>3, <2>4, Tables DEF WInv, Kin
  <2>. QED BY <1>1, <2>1, <2>5 DEF WInv, Caused
<1>. QED
  BY <1>3, <1>4

(* A child has the next pid, and remembers the caller. *)
LEMMA ForkKeeps ==
  ASSUME IInv, WInv, NEW p, fork_handler(p)
  PROVE WInv'
<1>1. PICK c : c = allocated + 1
  OBVIOUS
<1>2. /\ Caller(p, "fork") /\ c \in Pcb /\ allocated' = c
      /\ processID' = [processID EXCEPT ![c] = global_counter + 1]
      /\ parentProcessID' = [parentProcessID EXCEPT ![c] = processID[p]]
      /\ parentPCB' = [parentPCB EXCEPT ![c] = p]
      /\ hasRan' = [hasRan EXCEPT ![c] = 1]
      /\ UNCHANGED <<waitPID, sleepTimeLeft, hasExited, typed, fault>>
  BY <1>1 DEF fork_handler
<1>3. Booted /\ p \in Pcb /\ p = q.cur /\ hasRan[p] = 1
  BY <1>2, Callers
<1>4. On("wait")' = On("wait")
  BY ForkStep
<1>5. /\ \A x \in Pcb : processID'[x] = (IF x = c THEN c - 1 ELSE processID[x])
      /\ \A x \in Pcb : parentProcessID'[x] = (IF x = c THEN processID[p] ELSE parentProcessID[x])
      /\ \A x \in Pcb : parentPCB'[x] = (IF x = c THEN p ELSE parentPCB[x])
      /\ \A x \in Pcb : hasRan'[x] = (IF x = c THEN 1 ELSE hasRan[x])
  <2>1. global_counter + 1 = c - 1
    BY <1>1, <1>3, Tables
  <2>. QED BY <1>2, <2>1, Tables
<1>6. Created' = Created \cup {c} /\ c \notin Created /\ Created \subseteq Pcb
  <2>1. allocated \in Nat /\ Created \subseteq Pcb
    BY Tables
  <2>2. Created' = 1 .. c
    BY <1>2 DEF Created
  <2>3. 1 .. c = (1 .. allocated) \cup {c} /\ c \notin 1 .. allocated
    BY ONLY <1>1, <2>1
  <2>. QED BY <2>1, <2>2, <2>3 DEF Created
<1>7. p \in Created /\ processID[p] = p - 1
  <2>1. p \in Created
    <3>1. PICK R, S, W \in SUBSET Pcb : Held(q, Alive, R, S, W)
      BY DEF IInv
    <3>. QED BY <1>3, <3>1, Lives
  <2>. QED BY <1>3, <2>1 DEF WInv, Kin
<1>8. Kin'
  <2>1. ASSUME NEW x \in Created'
        PROVE /\ processID'[x] = IF hasRan'[x] = 1 THEN x - 1 ELSE -1
              /\ parentPCB'[x] \in Created' \cup {NULL}
              /\ hasRan'[x] # -1 => parentProcessID'[x] = parentPCB'[x] - 1
    <3>1. CASE x = c
      BY <1>2, <1>5, <1>6, <1>7, <3>1
    <3>2. CASE x # c
      BY <1>5, <1>6, <2>1, <3>2 DEF WInv, Kin
    <3>. QED BY <3>1, <3>2
  <2>2. ASSUME NEW x \in Pcb, hasExited'[x] PROVE x \in Created' /\ hasRan'[x] = -1
    BY <1>2, <1>5, <1>6, <2>2 DEF WInv, Kin
  <2>. QED BY <2>1, <2>2 DEF Kin
<1>9. Caused'
  <2> SUFFICES ASSUME NEW y \in On("wait") PROVE \E x \in Alive' : Cause(y, x)'
    BY <1>4 DEF Caused
  <2>1. PICK x \in Alive : Cause(y, x)
    BY DEF WInv, Caused
  <2>2. x \in Created /\ x # c /\ x \in Pcb
    BY <1>6, <2>1, Tables
  <2>3. x \in Alive' /\ Cause(y, x)'
    BY <1>2, <1>5, <1>6, <2>1, <2>2 DEF Alive, Cause
  <2>. QED BY <2>3
<1>. QED
  BY <1>8, <1>9 DEF WInv

(* Whoever begins to wait has found somebody to wait for. *)
LEMMA WaitKeeps ==
  ASSUME IInv, WInv, NEW p, NEW w \in Pids, waitPlease(p, w)
  PROVE WInv'
<1>1. /\ Caller(p, WaitCall(w)) /\ w # processID[p] /\ Present(p, w)
      /\ waitPID' = [waitPID EXCEPT ![p] = w]
      /\ UNCHANGED <<parentProcessID, parentPCB, hasExited, allocated>>
  BY DEF waitPlease
<1>2. On("wait")' = On("wait") \cup {p} /\ UNCHANGED <<hasRan, processID>>
  BY WaitStep
<1>3. Booted /\ p \in Pcb /\ p = q.cur /\ hasRan[p] = 1 /\ WaitCall(w) \in Calls
  BY <1>1, Callers
<1>4. p \notin On("wait") /\ On("wait") \subseteq Pcb
  BY <1>3, Tables
<1>5. Created' = Created /\ Alive' = Alive
  BY <1>1, <1>2 DEF Created, Alive
<1>6. waitPID'[p] = w /\ \A y \in On("wait") : waitPID'[y] = waitPID[y]
  BY <1>1, <1>3, <1>4, Tables
<1>7. Kin'
  BY <1>1, <1>2, <1>5 DEF WInv, Kin
<1>8. \E x \in Alive : Cause(p, x)'
  <2>1. PICK x \in Queued : IF w = -1 THEN parentProcessID[x] = processID[p] ELSE processID[x] = w
    BY <1>1 DEF Present
  <2>2. x \in Alive
    <3>1. PICK R, S, W \in SUBSET Pcb : Held(q, Alive, R, S, W)
      BY DEF IInv
    <3>2. Queued = Members(q, R, S, W)
      BY <3>1, Seen DEF IInv
    <3>. QED BY <2>1, <3>1, <3>2 DEF Held
  <2>3. w = -1 => parentPCB[x] = p
    <3>1. p \in Created
      <4>1. PICK R, S, W \in SUBSET Pcb : Held(q, Alive, R, S, W)
        BY DEF IInv
      <4>. QED BY <1>3, <4>1, Lives
    <3>2. processID[p] = p - 1
      BY <1>3, <3>1 DEF WInv, Kin
    <3>3. parentProcessID[x] = parentPCB[x] - 1 /\ parentPCB[x] \in Created \cup {NULL}
      BY <2>2, Tables DEF WInv, Kin, Alive
    <3>4. parentPCB[x] \in Int /\ p \in Int
      BY <1>3, <3>3, Tables DEF NULL
    <3>. QED BY <2>1, <3>2, <3>3, <3>4
  <2>4. Cause(p, x)'
    BY <1>1, <1>2, <1>6, <2>1, <2>3 DEF Cause
  <2>. QED BY <2>2, <2>4
<1>9. ASSUME NEW y \in On("wait") PROVE \E x \in Alive : Cause(y, x)'
  <2>1. PICK x \in Alive : Cause(y, x)
    BY DEF WInv, Caused
  <2>2. Cause(y, x)'
    BY <1>1, <1>2, <1>6, <2>1 DEF Cause
  <2>. QED BY <2>2
<1>10. Caused'
  BY <1>2, <1>5, <1>8, <1>9 DEF Caused
<1>. QED
  BY <1>7, <1>10 DEF WInv

(* The waiters that an exit leaves waiting do not wait for who exits. *)
LEMMA ExitKeeps ==
  ASSUME IInv, WInv, Booted, NEW x \in Alive, Departs(x)
  PROVE WInv'
<1>1. /\ On("wait")' = {y \in On("wait") \ {x} : ~Awaits(y, x)}
      /\ \A y \in On("wait")' : waitPID'[y] = waitPID[y]
      /\ hasRan' = [hasRan EXCEPT ![x] = -1] /\ processID' = [processID EXCEPT ![x] = -1]
      /\ parentProcessID' = [parentProcessID EXCEPT ![x] = -1]
      /\ hasExited' = [hasExited EXCEPT ![x] = TRUE]
      /\ UNCHANGED <<parentPCB, allocated>>
  BY DEF Departs, sys_exit
<1>2. x \in Created /\ x \in Pcb /\ Created \subseteq Pcb /\ Created' = Created
  BY <1>1, Tables DEF Created
<1>3. /\ \A y \in Pcb : hasRan'[y] = (IF y = x THEN -1 ELSE hasRan[y])
      /\ \A y \in Pcb : processID'[y] = (IF y = x THEN -1 ELSE processID[y])
      /\ \A y \in Pcb : parentProcessID'[y] = (IF y = x THEN -1 ELSE parentProcessID[y])
      /\ \A y \in Pcb : hasExited'[y] = (IF y = x THEN TRUE ELSE hasExited[y])
  BY <1>1, Tables
<1>4. Kin'
  <2>1. ASSUME NEW y \in Created
        PROVE /\ processID'[y] = IF hasRan'[y] = 1 THEN y - 1 ELSE -1
              /\ parentPCB'[y] \in Created \cup {NULL}
              /\ hasRan'[y] # -1 => parentProcessID'[y] = parentPCB'[y] - 1
    BY <1>1, <1>2, <1>3 DEF WInv, Kin
  <2>2. ASSUME NEW y \in Pcb, hasExited'[y] PROVE y \in Created /\ hasRan'[y] = -1
    BY <1>2, <1>3, <2>2 DEF WInv, Kin
  <2>. QED BY <1>2, <2>1, <2>2 DEF Kin
<1>5. Caused'
  <2> SUFFICES ASSUME NEW y \in On("wait")' PROVE \E z \in Alive' : Cause(y, z)'
    BY DEF Caused
  <2>1. y \in On("wait") /\ ~Awaits(y, x) /\ waitPID'[y] = waitPID[y]
    BY <1>1
  <2>2. PICK z \in Alive : Cause(y, z)
    BY <2>1 DEF WInv, Caused
  <2>3. z # x
    <3> SUFFICES ASSUME Cause(y, x) PROVE FALSE
      BY <2>2
    <3>1. waitPID[y] = -1 /\ parentPCB[x] = y
      BY <2>1 DEF Cause, Awaits
    <3>2. processID[y] = y - 1
      BY <2>1, Tables DEF WInv, Kin
    <3>3. parentProcessID[x] = y - 1
      BY <1>2, <3>1, Tables DEF WInv, Kin
    <3>. QED BY <2>1, <3>1, <3>2, <3>3 DEF Awaits
  <2>4. z \in Pcb /\ z \in Created
    BY <2>2, Tables
  <2>5. z \in Alive' /\ Cause(y, z)'
    BY <1>1, <1>2, <1>3, <2>1, <2>2, <2>3, <2>4 DEF Alive, Cause
  <2>. QED BY <2>5
<1>. QED
  BY <1>4, <1>5 DEF WInv

(* Nobody waits when the system boots. *)
LEMMA WaitStarts ==
  ASSUME Init
  PROVE WInv
<1>1. IInv
  BY Starts
<1>2. /\ processID = [p \in Pcb |-> -1] /\ parentProcessID = [p \in Pcb |-> -1]
      /\ parentPCB = [p \in Pcb |-> NULL] /\ hasRan = [p \in Pcb |-> 0]
      /\ hasExited = [p \in Pcb |-> FALSE] /\ q.wait = NULL
  BY DEF Init
<1>3. Kin
  BY <1>1, <1>2, Tables DEF Kin, NULL
<1>4. On("wait") = {}
  <2>1. PICK R, S, W \in SUBSET Pcb : Held(q, Alive, R, S, W)
    BY <1>1 DEF IInv
  <2>2. List(q.next, q.prev, q.wait, W) /\ On("wait") = W
    BY <1>1, <2>1, Seen, TightLists DEF IInv, Held
  <2>3. NULL \notin Pcb
    BY <1>1, Tables
  <2>. QED BY <1>2, <2>2, <2>3 DEF List, Ranked
<1>. QED
  BY <1>3, <1>4 DEF WInv, Caused

(* The deletions of KillStep and OwnExitStep come after the boot. *)
LEMMA ExitsBooted ==
  ASSUME IInv, NEW p, Exit(p) \/ \E pid \in Pids : KillisCalled(p, pid)
  PROVE Booted
<1>. QED
  BY Callers DEF Exit, KillisCalled

(* Every step keeps the invariant. *)
LEMMA WaitSteps ==
  ASSUME IInv, WInv, Solitary \/ HeadsTrue', [Next]_vars
  PROVE WInv'
<1>1. ASSUME NEW second \in BOOLEAN, NEW slice \in BOOLEAN, timer_handler(second, slice) PROVE WInv'
  BY <1>1, TimerKeeps
<1>2. CASE keyboard_handler
  <2>1. CASE KeyTyped
    BY <2>1, OtherStep, Stays DEF KeyTyped, pcbs
  <2>2. CASE KeyEnter
    BY <2>2, EnterStep, Stays DEF KeyEnter
  <2>. QED BY <1>2, <2>1, <2>2 DEF keyboard_handler
<1>3. ASSUME NEW p \in Pcb, fork_handler(p) PROVE WInv'
  BY <1>3, ForkKeeps
<1>4. ASSUME NEW p \in Pcb, ExecForeground(p) PROVE WInv'
  BY <1>4, ExecForegroundStep, Stays DEF ExecForeground
<1>5. ASSUME NEW p \in Pcb, ExecBackground(p) PROVE WInv'
  BY <1>5, ExecBackgroundStep, Stays DEF ExecBackground
<1>6. ASSUME NEW p \in Pcb, NEW w \in Pids, waitPlease(p, w) PROVE WInv'
  BY <1>6, WaitKeeps
<1>7. ASSUME NEW p \in Pcb, NEW n \in Naps, sleepPlease(p, n) PROVE WInv'
  BY <1>7, SleepStep, Stays DEF sleepPlease
<1>8. ASSUME NEW p \in Pcb, ReadTyped(p) PROVE WInv'
  BY <1>8, OtherStep, Stays DEF ReadTyped, pcbs
<1>9. ASSUME NEW p \in Pcb, ReadBlocks(p) PROVE WInv'
  BY <1>9, BlockStep, Stays DEF ReadBlocks
<1>10. ASSUME NEW p \in Pcb, Exit(p) PROVE WInv'
  BY <1>10, OwnExitStep, ExitsBooted, ExitKeeps
<1>11. ASSUME NEW p \in Pcb, NEW pid \in Pids, KillisCalled(p, pid) PROVE WInv'
  BY <1>11, KillStep, ExitsBooted, ExitKeeps
<1>12. CASE UNCHANGED vars
  BY <1>12, OtherStep, Stays DEF vars, pcbs, IInv, TypeOK
<1>. QED
  BY <1>1, <1>2, <1>3, <1>4, <1>5, <1>6, <1>7, <1>8, <1>9, <1>10, <1>11, <1>12 DEF Next

(* What the runs check follows. *)
LEMMA CauseFollows ==
  ASSUME WInv
  PROVE WaitersHaveACause
<1>. QED
  BY DEF WInv, Caused, Cause, WaitersHaveACause

(* A waiter leaves its queue when it exits, when one it waits for exits, or *)
(* when its child resumes it; a turn of the timer wakes nobody who waits    *)
(* for any child.                                                           *)
Reason(y) ==
  \/ \E x \in Pcb : Awaits(y, x) /\ hasExited'[x] /\ ~hasExited[x]
  \/ hasExited'[y]
  \/ parentPCB[q.cur] = y /\ q.cur' = y
(* The exit of x is the reason of whoever it wakes. *)
LEMMA ExitReasons ==
  ASSUME IInv, WInv, NEW x \in Alive, Departs(x), NEW y \in On("wait"), y \notin On("wait")'
  PROVE Reason(y)
<1>1. /\ On("wait")' = {z \in On("wait") \ {x} : ~Awaits(z, x)}
      /\ hasExited' = [hasExited EXCEPT ![x] = TRUE]
  BY DEF Departs, sys_exit
<1>2. x \in Pcb /\ hasExited'[x]
  BY <1>1, Tables
<1>3. ~hasExited[x]
  BY <1>2 DEF WInv, Kin, Alive
<1>. QED
  BY <1>1, <1>2, <1>3 DEF Reason

LEMMA WakesReasoned ==
  ASSUME IInv, WInv, Solitary \/ HeadsTrue', Next,
         NEW y \in On("wait"), waitPID[y] = -1, y \notin On("wait")'
  PROVE Reason(y)
<1>1. ASSUME NEW second \in BOOLEAN, NEW slice \in BOOLEAN, timer_handler(second, slice) PROVE FALSE
  <2>1. PICK x \in Alive : hasRan[x] = 1 /\ Chosen(y, x)
    BY <1>1, TimerStep
  <2>2. x \in Created /\ x \in Nat /\ x # 0
    BY <2>1, Tables DEF NULL
  <2>3. processID[x] = x - 1
    BY <2>1, <2>2 DEF WInv, Kin
  <2>4. x - 1 = -1
    BY <2>1, <2>3 DEF Chosen
  <2>. QED BY <2>2, <2>4
<1>2. CASE keyboard_handler
  BY <1>2, OtherStep, EnterStep DEF keyboard_handler, KeyTyped
<1>3. ASSUME NEW p \in Pcb, fork_handler(p) PROVE FALSE
  BY <1>3, ForkStep
<1>4. ASSUME NEW p \in Pcb, ExecForeground(p) PROVE FALSE
  BY <1>4, ExecForegroundStep
<1>5. ASSUME NEW p \in Pcb, ExecBackground(p) PROVE Reason(y)
  <2>1. parentPCB[p] = y /\ q'.cur = y
    BY <1>5, ExecBackgroundStep
  <2>2. p = q.cur
    BY <1>5 DEF ExecBackground, Caller
  <2>. QED BY <2>1, <2>2 DEF Reason
<1>6. ASSUME NEW p \in Pcb, NEW w \in Pids, waitPlease(p, w) PROVE FALSE
  BY <1>6, WaitStep
<1>7. ASSUME NEW p \in Pcb, NEW n \in Naps, sleepPlease(p, n) PROVE FALSE
  BY <1>7, SleepStep
<1>8. ASSUME NEW p \in Pcb, ReadTyped(p) PROVE FALSE
  BY <1>8, OtherStep DEF ReadTyped
<1>9. ASSUME NEW p \in Pcb, ReadBlocks(p) PROVE FALSE
  BY <1>9, BlockStep
<1>10. ASSUME NEW p \in Pcb, Exit(p) PROVE Reason(y)
  BY <1>10, OwnExitStep, ExitReasons
<1>11. ASSUME NEW p \in Pcb, NEW pid \in Pids, KillisCalled(p, pid) PROVE Reason(y)
  BY <1>11, KillStep, ExitReasons
<1>. QED
  BY <1>1, <1>2, <1>3, <1>4, <1>5, <1>6, <1>7, <1>8, <1>9, <1>10, <1>11 DEF Next

-----------------------------------------------------------------------------
(* The theorems.                                                           *)

(* As long as the head variables are true, whatever the programs call, a    *)
(* pid means a PCB and every waiter has a reason to wait.                   *)
THEOREM WaitInvariance == Spec /\ [](Solitary \/ HeadsTrue) => [](IInv /\ WInv)
<1>1. Init => IInv /\ WInv
  BY Starts, WaitStarts
<1>2. (Solitary \/ HeadsTrue)' /\ IInv /\ WInv /\ [Next]_vars => (IInv /\ WInv)'
  <2> SUFFICES ASSUME (Solitary \/ HeadsTrue)', IInv, WInv, [Next]_vars PROVE (IInv /\ WInv)'
    OBVIOUS
  <2>1. Solitary \/ HeadsTrue'
    OBVIOUS
  <2>. QED BY <2>1, Steps, WaitSteps
<1>. QED
  BY <1>1, <1>2, PTL DEF Spec

(* wait4 and the exits together: no process waits for nobody, so an exit    *)
(* that wakes it is still to come.                                          *)
THEOREM WaitersAlwaysHaveACause ==
  Spec /\ [](Solitary \/ HeadsTrue) => []WaitersHaveACause
<1>. QED
  BY WaitInvariance, CauseFollows, PTL

(* Programs that wait one at a time and kill nobody need no condition.      *)
THEOREM SolitaryWaitersHaveACause == Solitary => (Spec => []WaitersHaveACause)
<1> SUFFICES ASSUME Solitary PROVE Spec => []WaitersHaveACause
  OBVIOUS
<1>1. Solitary \/ HeadsTrue
  OBVIOUS
<1>. QED
  BY <1>1, WaitersAlwaysHaveACause, PTL

(* Who waits for any child becomes runnable only by the exit of a process   *)
(* it waits for, or by a child that turns itself into a background process, *)
(* whatever the programs call: a turn of the timer wakes who waits for a    *)
(* pid, and none is -1.                                                     *)
THEOREM WakesHaveACause == Spec /\ [](Solitary \/ HeadsTrue) => WakeHasCause
<1>1. IInv /\ WInv /\ (Solitary \/ HeadsTrue)' /\ [Next]_vars =>
        [\A y \in Pcb : y \in On("wait") /\ waitPID[y] = -1 /\ y \notin On("wait")' =>
           \/ \E x \in Pcb : Awaits(y, x) /\ hasExited'[x] /\ ~hasExited[x]
           \/ hasExited'[y]
           \/ parentPCB[q.cur] = y /\ q.cur' = y]_vars
  <2> SUFFICES ASSUME IInv, WInv, (Solitary \/ HeadsTrue)', Next,
                      NEW y \in Pcb, y \in On("wait"), waitPID[y] = -1, y \notin On("wait")'
               PROVE \/ \E x \in Pcb : Awaits(y, x) /\ hasExited'[x] /\ ~hasExited[x]
                     \/ hasExited'[y]
                     \/ parentPCB[q.cur] = y /\ q.cur' = y
    OBVIOUS
  <2>1. Solitary \/ HeadsTrue'
    OBVIOUS
  <2>2. Reason(y)
    BY <2>1, WakesReasoned
  <2>. QED BY <2>2 DEF Reason
<1>. QED
  BY <1>1, WaitInvariance, PTL DEF Spec, WakeHasCause
=============================================================================
