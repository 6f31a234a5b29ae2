---------------------------- MODULE PagingProofs ----------------------------
(***************************************************************************)
(* What holds of Paging for every number of frames, processes and pages:   *)
(* the inductive invariant below, and the safety properties in it.         *)
(*                                                                         *)
(* The reference count of a frame is compared with the cardinality of the  *)
(* set of its sharers.  For that to be inductive one must know that frames *)
(* have one role (FrameExclusive), that a process maps a frame once        *)
(* (NoAlias), that only live processes hold any (OnlyLiveHold), and that   *)
(* the walks over VMAs see every mapping (MappedInsideVma).                *)
(*                                                                         *)
(* Each lemma on a handler also says what the step loses (NoneLost,        *)
(* RootLost) and that it keeps writers alone (StaysIsolated); the leak and *)
(* the isolation theorems at the end are drawn from these.                 *)
(***************************************************************************)
EXTENDS Paging, FiniteSetTheorems, FunctionTheorems, TLAPS

(* Exactly the live processes have a pml4; the others have no page table   *)
(* and no mapping either.                                                  *)
OnlyLiveHold ==
  \A p \in Proc :
    /\ root[p] = NoPage <=> status[p] # "alive"
    /\ status[p] # "alive" => /\ \A t \in Table : tables[p][t] = NoPage
                              /\ \A v \in VA : map[p][v] = NoPage

IInv ==
  /\ TypeOK
  /\ NoAlias
  /\ FrameExclusive
  /\ RefCountExact
  /\ MappedInsideVma
  /\ OnlyLiveHold
  /\ NeverHangs

(* Something names the frame, so it can be used or freed again. *)
Used(g) ==
  \/ g \in free
  \/ \E q \in Proc : root[q] = g \/ (\E v \in VA : map[q][v] = g) \/ (\E t \in Table : tables[q][t] = g)

(* A step that loses no frame, and one that loses the pml4 page of p. *)
NoneLost == Dead' = Dead /\ \A g \in Page : Used(g)' <=> Used(g)
RootLost(p) ==
  /\ p \notin Dead /\ Dead' = Dead \cup {p}
  /\ root[p] \in Page /\ Used(root[p])
  /\ \A g \in Page : Used(g)' <=> Used(g) /\ g # root[p]

(* What keeps writers alone: text pages are never writable or COW, and a   *)
(* step must keep that together with Isolation.                            *)
NoTextWrites == \A p \in Proc : rw[p] \cap Text = {} /\ cow[p] \cap Text = {}
SoleWriters == NoTextWrites /\ Isolation
StaysIsolated == SoleWriters => SoleWriters'
AtMostTwo == Cardinality(Live) <= 2

-----------------------------------------------------------------------------
(* Allocation.                                                             *)

(* page_alloc finds distinct frames on any list long enough. *)
LEMMA AllocSucceeds ==
  ASSUME NEW S, NEW F, IsFiniteSet(S), IsFiniteSet(F), Cardinality(S) <= Cardinality(F)
  PROVE  page_alloc(S, F) \in Injection(S, F)
<1> DEFINE n == Cardinality(S)
           m == Cardinality(F)
<1>1. n \in Nat /\ m \in Nat /\ ExistsBijection(1..n, S) /\ ExistsBijection(1..m, F)
  BY FS_CardinalityType
<1>2. ExistsInjection(1..n, 1..m)
  BY <1>1, Fun_NatInjLeq
<1>3. ExistsInjection(S, 1..n) /\ ExistsInjection(1..m, F)
  BY <1>1, Fun_ExistsBijEquiv
<1>4. ExistsInjection(S, F)
  BY <1>2, <1>3, Fun_ExistsInjTransitive
<1>. QED
  BY <1>4 DEF page_alloc, ExistsInjection

(* What the frames taken by one injection are: new, distinct, on the list. *)
LEMMA InjectionFacts ==
  ASSUME NEW S, NEW F, NEW f \in Injection(S, F)
  PROVE  /\ f \in [S -> F]
         /\ DOMAIN f = S
         /\ \A a, b \in S : f[a] = f[b] => a = b
         /\ Range(f) \subseteq F
         /\ \A a \in S : f[a] \in Range(f)
         /\ \A g \in Range(f) : \E a \in S : f[a] = g
BY DEF Injection, IsInjective, Range

(* Allocating twice: the second call works on what the first one left. *)
LEMMA AllocTwice ==
  ASSUME NEW S, NEW T, NEW F, IsFiniteSet(S), IsFiniteSet(T), IsFiniteSet(F),
         Cardinality(S) + Cardinality(T) <= Cardinality(F)
  PROVE  LET f == page_alloc(S, F) IN
           /\ f \in Injection(S, F)
           /\ page_alloc(T, F \ Range(f)) \in Injection(T, F \ Range(f))
           /\ IsFiniteSet(F \ Range(f))
           /\ Cardinality(F \ Range(f)) = Cardinality(F) - Cardinality(S)
<1> DEFINE f == page_alloc(S, F)
<1>1. Cardinality(S) \in Nat /\ Cardinality(T) \in Nat /\ Cardinality(F) \in Nat
  BY FS_CardinalityType
<1>2. f \in Injection(S, F)
  BY <1>1, AllocSucceeds
<1>3. f \in Bijection(S, Range(f)) /\ Range(f) \subseteq F
  BY <1>2, Fun_InjMeansBijImage, InjectionFacts
<1>4. IsFiniteSet(Range(f)) /\ Cardinality(Range(f)) = Cardinality(S)
  BY <1>3, FS_Bijection DEF ExistsBijection
<1>5. IsFiniteSet(F \ Range(f)) /\ Cardinality(F \ Range(f)) = Cardinality(F) - Cardinality(F \cap Range(f))
  BY FS_Difference
<1>6. F \cap Range(f) = Range(f)
  BY <1>3
<1>7. Cardinality(T) <= Cardinality(F \ Range(f))
  BY <1>1, <1>4, <1>5, <1>6
<1>. QED
  BY <1>2, <1>4, <1>5, <1>6, <1>7, AllocSucceeds

-----------------------------------------------------------------------------
(* Sharers.                                                                *)

LEMMA SharersFinite ==
  ASSUME NEW g
  PROVE  IsFiniteSet(Sharers(g)) /\ Cardinality(Sharers(g)) \in Nat
BY ProcAssumption, FS_Subset, FS_CardinalityType DEF Sharers

(* A set with two elements does not have cardinality 1. *)
LEMMA TwoSharers ==
  ASSUME NEW S, IsFiniteSet(S), NEW x \in S, NEW y \in S, x # y
  PROVE  Cardinality(S) # 1
BY FS_Singleton

(* The invariant, one fact per kind of reference to a frame. *)
LEMMA MappingFacts ==
  ASSUME IInv, NEW q \in Proc, NEW v \in VA, map[q][v] # NoPage
  PROVE  /\ map[q][v] \in Page
         /\ map[q][v] \notin free
         /\ refs[map[q][v]] = Cardinality(Sharers(map[q][v]))
         /\ q \in Sharers(map[q][v])
         /\ \A r \in Proc : map[q][v] # root[r]
         /\ \A r \in Proc, t \in Table : map[q][v] # tables[r][t]
         /\ \A u \in VA : map[q][u] = map[q][v] => u = v
<1>1. map[q][v] \in Page
  BY DEF IInv, TypeOK
<1>2. map[q][v] \notin free /\ refs[map[q][v]] = Cardinality(Sharers(map[q][v]))
  BY DEF IInv, FrameExclusive, RefCountExact
<1>3. q \in Sharers(map[q][v])
  BY DEF Sharers
<1>4. \A r \in Proc : map[q][v] # root[r] /\ \A t \in Table : map[q][v] # tables[r][t]
  BY DEF IInv, FrameExclusive
<1>5. \A u \in VA : map[q][u] = map[q][v] => u = v
  BY DEF IInv, NoAlias
<1>. QED
  BY <1>1, <1>2, <1>3, <1>4, <1>5

LEMMA TableFacts ==
  ASSUME IInv, NEW q \in Proc, NEW t \in Table, tables[q][t] # NoPage
  PROVE  /\ tables[q][t] \in Page
         /\ tables[q][t] \notin free
         /\ refs[tables[q][t]] = 1
         /\ \A r \in Proc : tables[q][t] # root[r]
         /\ \A r \in Proc, u \in Table : tables[q][t] = tables[r][u] => q = r /\ t = u
         /\ \A r \in Proc, v \in VA : tables[q][t] # map[r][v]
<1>1. tables[q][t] \in Page
  BY DEF IInv, TypeOK
<1>2. tables[q][t] \notin free /\ refs[tables[q][t]] = 1
  BY DEF IInv, FrameExclusive, RefCountExact
<1>3. /\ \A r \in Proc : tables[q][t] # root[r]
      /\ \A r \in Proc, v \in VA : tables[q][t] # map[r][v]
  BY DEF IInv, FrameExclusive
<1>4. \A r \in Proc, u \in Table : tables[q][t] = tables[r][u] => q = r /\ t = u
  BY DEF IInv, NoAlias
<1>. QED
  BY <1>1, <1>2, <1>3, <1>4

LEMMA RootFacts ==
  ASSUME IInv, NEW q \in Proc, root[q] # NoPage
  PROVE  /\ root[q] \in Page
         /\ root[q] \notin free
         /\ refs[root[q]] = 0
         /\ \A r \in Proc : root[q] = root[r] => q = r
         /\ \A r \in Proc, v \in VA : root[q] # map[r][v]
         /\ \A r \in Proc, t \in Table : root[q] # tables[r][t]
<1>1. root[q] \in Page
  BY DEF IInv, TypeOK
<1>2. root[q] \notin free /\ refs[root[q]] = 0
  BY DEF IInv, FrameExclusive, RefCountExact
<1>3. /\ \A r \in Proc, v \in VA : root[q] # map[r][v]
      /\ \A r \in Proc, t \in Table : root[q] # tables[r][t]
  BY DEF IInv, FrameExclusive
<1>4. \A r \in Proc : root[q] = root[r] => q = r
  BY DEF IInv, NoAlias
<1>. QED
  BY <1>1, <1>2, <1>3, <1>4

LEMMA FreeFacts ==
  ASSUME IInv, NEW g \in free
  PROVE  /\ g \in Page
         /\ refs[g] = 0
         /\ \A q \in Proc : g # root[q]
         /\ \A q \in Proc, v \in VA : g # map[q][v]
         /\ \A q \in Proc, t \in Table : g # tables[q][t]
<1>1. g \in Page /\ refs[g] = 0
  BY DEF IInv, TypeOK, RefCountExact
<1>2. g # NoPage
  BY <1>1, PageAssumption
<1>. QED
  BY <1>1, <1>2 DEF IInv, FrameExclusive

(* The pages of the VMAs are pages a process can touch. *)
LEMMA VmasInVA ==
  ASSUME IInv, NEW p \in Proc
  PROVE  /\ VmaPages(p) \subseteq VA
         /\ Writable(p) \subseteq VmaPages(p)
         /\ IsFiniteSet(VmaPages(p))
<1>1. heap[p] \in 0 .. HeapMax
  BY DEF IInv, TypeOK
<1>2. Heap(heap[p]) \subseteq Heap(HeapMax)
  BY <1>1, LayoutAssumption, BoundAssumption DEF Heap
<1>3. VmaPages(p) \subseteq VA
  BY <1>2, LayoutAssumption DEF VmaPages
<1>4. IsFiniteSet(VmaPages(p))
  BY <1>3, LayoutAssumption, FS_Subset
<1>. QED
  BY <1>3, <1>4 DEF Writable, VmaPages

-----------------------------------------------------------------------------
(* Deleting a process.                                                     *)

LEMMA DeletePreserves ==
  ASSUME IInv, NEW p \in Proc, status[p] = "alive", delete_process(p), hung' = hung, kheap' \in Nat
  PROVE  IInv' /\ RootLost(p) /\ StaysIsolated
<1> DEFINE gone == Frames(p, RemovedPages(p)) \cup TableFrames(p) \cup {root[p]}
<1>1. root[p] # NoPage
  BY DEF IInv, OnlyLiveHold
<1>2. \A g : g \in gone <=> \/ g # NoPage /\ \E v \in VA : map[p][v] = g
                            \/ g # NoPage /\ \E t \in Table : tables[p][t] = g
                            \/ g = root[p]
  BY VmasInVA DEF RemovedPages, Frames, TableFrames, IInv, MappedInsideVma, Live
<1>3. gone \subseteq Page
  BY <1>1, <1>2, MappingFacts, TableFacts, RootFacts
<1>4. /\ refs' = [g \in Page |-> IF g \in gone THEN refs[g] - 1 ELSE refs[g]]
      /\ free' = free \cup {g \in gone : refs[g] = 1}
  BY DEF delete_process, Drop, Released
<1>5. /\ \A q \in Proc, v \in VA : map'[q][v] = IF q = p THEN NoPage ELSE map[q][v]
      /\ \A q \in Proc, t \in Table : tables'[q][t] = IF q = p THEN NoPage ELSE tables[q][t]
      /\ \A q \in Proc : root'[q] = IF q = p THEN NoPage ELSE root[q]
      /\ \A q \in Proc : status'[q] = IF q = p THEN "dead" ELSE status[q]
      /\ \A q \in Proc : q # p => heap'[q] = heap[q]
  BY DEF delete_process, IInv, TypeOK, NoMap, NoTables
<1>6. TypeOK'
  <2>1. refs' \in [Page -> Int] /\ free' \in SUBSET Page
    BY <1>3, <1>4 DEF IInv, TypeOK
  <2>2. /\ status' \in [Proc -> {"unused", "created", "alive", "dead"}]
        /\ heap' \in [Proc -> 0 .. HeapMax]
        /\ root' \in [Proc -> Page \cup {NoPage}]
        /\ rw' \in [Proc -> SUBSET VA] /\ cow' \in [Proc -> SUBSET VA]
    BY BoundAssumption DEF delete_process, IInv, TypeOK
  <2>3. /\ map' \in [Proc -> [VA -> Page \cup {NoPage}]]
        /\ tables' \in [Proc -> [Table -> Page \cup {NoPage}]]
    BY DEF delete_process, IInv, TypeOK, NoMap, NoTables
  <2>. QED
    BY <2>1, <2>2, <2>3 DEF IInv, TypeOK
<1>7. NoAlias'
  BY <1>5 DEF IInv, NoAlias
<1>8. \A g \in Page : Sharers(g)' = Sharers(g) \ {p}
  BY <1>5, PageAssumption DEF Sharers
<1>9. ASSUME NEW q \in Proc, q # p, NEW v \in VA, NEW g, g = map[q][v], g # NoPage
      PROVE  refs'[g] = Cardinality(Sharers(g)') /\ g \notin free'
  <2>1. g \in Page /\ q \in Sharers(g) /\ refs[g] = Cardinality(Sharers(g)) /\ g \notin free
    BY <1>9, MappingFacts
  <2>2. g \in gone <=> p \in Sharers(g)
    <3>1. \A t \in Table : tables[p][t] # g
      BY <1>9, MappingFacts
    <3>2. root[p] # g
      BY <1>9, MappingFacts
    <3>. QED
      BY <1>2, <1>9, <3>1, <3>2 DEF Sharers
  <2>3. Cardinality(Sharers(g) \ {p}) =
          IF p \in Sharers(g) THEN Cardinality(Sharers(g)) - 1 ELSE Cardinality(Sharers(g))
    BY SharersFinite, FS_RemoveElement
  <2>4. refs'[g] = Cardinality(Sharers(g)')
    BY <1>4, <1>8, <2>1, <2>2, <2>3
  <2>5. g \notin free'
    BY <1>4, <1>9, <2>1, <2>2, SharersFinite, TwoSharers
  <2>. QED
    BY <2>4, <2>5
<1>10. \A q \in Proc, t \in Table : q # p /\ tables[q][t] # NoPage => tables[q][t] \notin gone
  BY <1>2, TableFacts
<1>11. \A q \in Proc : q # p /\ root[q] # NoPage => root[q] \notin gone
  BY <1>2, RootFacts
<1>12. NoPage \notin free'
  BY <1>3, <1>4, PageAssumption DEF IInv, TypeOK
<1>13. FrameExclusive'
  <2>1. \A q \in Proc : root'[q] \notin free'
    BY <1>4, <1>5, <1>11, <1>12, RootFacts
  <2>2. \A q \in Proc, t \in Table : tables'[q][t] # NoPage => tables'[q][t] \notin free'
    BY <1>4, <1>5, <1>10, TableFacts
  <2>3. \A q \in Proc, v \in VA : map'[q][v] # NoPage => map'[q][v] \notin free'
    BY <1>5, <1>9
  <2>. QED
    BY <1>5, <2>1, <2>2, <2>3 DEF IInv, FrameExclusive
<1>14. RefCountExact'
  <2>1. ASSUME NEW g \in free' PROVE refs'[g] = 0
    <3>1. CASE g \in free
      <4>1. g \notin gone
        BY <1>1, <1>2, <3>1, FreeFacts
      <4>. QED
        BY <1>4, <3>1, <4>1, FreeFacts
    <3>2. CASE g \notin free
      BY <1>3, <1>4, <2>1, <3>2
    <3>. QED
      BY <3>1, <3>2
  <2>2. ASSUME NEW q \in Proc, NEW v \in VA, NEW g, g = map'[q][v], g # NoPage
        PROVE  refs'[g] = Cardinality(Sharers(g)')
    BY <1>5, <1>9, <2>2
  <2>3. \A q \in Proc, t \in Table : tables'[q][t] # NoPage => refs'[tables'[q][t]] = 1
    BY <1>4, <1>5, <1>10, TableFacts
  <2>4. \A q \in Proc : root'[q] # NoPage => refs'[root'[q]] = 0
    BY <1>4, <1>5, <1>11, RootFacts
  <2>. QED
    BY <2>1, <2>2, <2>3, <2>4 DEF RefCountExact, Sharers
<1>15. MappedInsideVma'
  BY <1>5 DEF IInv, MappedInsideVma, Live, VmaPages, Heap
<1>16. OnlyLiveHold'
  BY <1>5 DEF IInv, OnlyLiveHold
<1>17. ASSUME NEW g \in Page, Used(g), g # root[p]
       PROVE  Used(g)'
  <2>1. CASE g \in free
    BY <1>4, <2>1 DEF Used
  <2>2. CASE \E q \in Proc : root[q] = g
    BY <1>5, <1>17, <2>2 DEF Used
  <2>3. ASSUME NEW q \in Proc, NEW t \in Table, tables[q][t] = g
        PROVE  Used(g)'
    <3>1. CASE q = p
      <4>1. g \in gone /\ refs[g] = 1
        BY <1>2, <2>3, <3>1, PageAssumption, TableFacts
      <4>. QED
        BY <1>4, <4>1 DEF Used
    <3>2. CASE q # p
      BY <1>5, <2>3, <3>2 DEF Used
    <3>. QED
      BY <3>1, <3>2
  <2>4. CASE \E q \in Proc, v \in VA : map[q][v] = g
    <3>1. CASE \E q \in Proc : q # p /\ \E v \in VA : map[q][v] = g
      BY <1>5, <3>1 DEF Used
    <3>2. CASE Sharers(g) = {p}
      <4>1. PICK v \in VA : map[p][v] = g
        BY <3>2 DEF Sharers
      <4>2. g # NoPage /\ g \in gone
        BY <1>2, <4>1, PageAssumption
      <4>3. refs[g] = Cardinality(Sharers(g))
        BY <4>1, <4>2, MappingFacts
      <4>4. refs[g] = 1
        BY <3>2, <4>3, FS_Singleton
      <4>. QED
        BY <1>4, <4>2, <4>4 DEF Used
    <3>. QED
      BY <2>4, <3>1, <3>2 DEF Sharers
  <2>. QED
    BY <1>17, <2>1, <2>2, <2>3, <2>4 DEF Used
<1>18. ASSUME NEW g \in Page, Used(g)'
       PROVE  Used(g) /\ g # root[p]
  <2>1. CASE g \in free'
    <3>1. g \in free \/ (g \in gone /\ refs[g] = 1)
      BY <1>4, <2>1
    <3>2. g # root[p]
      BY <1>1, <3>1, RootFacts
    <3>. QED
      BY <1>2, <3>1, <3>2 DEF Used
  <2>2. ASSUME NEW q \in Proc, \/ root'[q] = g
                               \/ \E v \in VA : map'[q][v] = g
                               \/ \E t \in Table : tables'[q][t] = g
        PROVE  Used(g) /\ g # root[p]
    <3>1. q # p
      BY <1>5, <2>2, PageAssumption
    <3>2. \/ root[q] = g
          \/ \E v \in VA : map[q][v] = g
          \/ \E t \in Table : tables[q][t] = g
      BY <1>5, <2>2, <3>1
    <3>3. g # root[p]
      BY <1>1, <3>1, <3>2, RootFacts
    <3>. QED
      BY <3>2, <3>3 DEF Used
  <2>. QED
    BY <1>18, <2>1, <2>2 DEF Used
<1>19. p \notin Dead /\ Dead' = Dead \cup {p}
  BY <1>5 DEF Dead
<1>20. RootLost(p)
  BY <1>1, <1>17, <1>18, <1>19, RootFacts DEF RootLost, Used
<1>21. StaysIsolated
  <2>1. \A q \in Proc : /\ rw'[q] = IF q = p THEN {} ELSE rw[q]
                       /\ cow'[q] = IF q = p THEN {} ELSE cow[q]
    BY DEF delete_process, IInv, TypeOK
  <2>. QED
    BY <1>5, <2>1 DEF StaysIsolated, SoleWriters, NoTextWrites, Isolation
<1>. QED
  BY <1>6, <1>7, <1>13, <1>14, <1>15, <1>16, <1>20, <1>21 DEF IInv, NeverHangs

-----------------------------------------------------------------------------
(* The handlers.                                                           *)

LEMMA OneFrame ==
  ASSUME IInv, NEW x, CanAlloc(1)
  PROVE  page_alloc({x}, free)[x] \in free
<1>1. IsFiniteSet(free) /\ Cardinality(free) \in Nat
  BY PageAssumption, FS_Subset, FS_CardinalityType DEF IInv, TypeOK
<1>2. IsFiniteSet({x}) /\ Cardinality({x}) = 1
  BY FS_Singleton
<1>3. page_alloc({x}, free) \in Injection({x}, free)
  BY <1>1, <1>2, AllocSucceeds DEF CanAlloc
<1>. QED
  BY <1>3, InjectionFacts

LEMMA BuildPreserves ==
  ASSUME IInv, NEW p \in Proc, Build(p)
  PROVE  IInv' /\ NoneLost /\ StaysIsolated
<1> DEFINE pml4 == page_alloc({p}, free)[p]
<1>1. pml4 \in free
  BY OneFrame DEF Build
<1>2. /\ root' = [root EXCEPT ![p] = pml4]
      /\ free' = free \ {pml4}
      /\ status' = [status EXCEPT ![p] = "alive"]
      /\ UNCHANGED <<heap, map, rw, cow, tables, refs, kheap, hung>>
  BY DEF Build
<1>3. \A q \in Proc : /\ root'[q] = IF q = p THEN pml4 ELSE root[q]
                      /\ status'[q] = IF q = p THEN "alive" ELSE status[q]
  BY <1>2 DEF IInv, TypeOK
<1>4. pml4 \in Page /\ pml4 # NoPage
  BY <1>1, FreeFacts, PageAssumption
<1>5. status[p] # "alive"
  BY DEF Build
<1>6. TypeOK'
  BY <1>1, <1>2, <1>4 DEF IInv, TypeOK
<1>7. NoAlias'
  BY <1>1, <1>2, <1>3, FreeFacts DEF IInv, NoAlias
<1>8. FrameExclusive'
  <2>1. \A q \in Proc : root'[q] \notin free'
    BY <1>1, <1>2, <1>3 DEF IInv, FrameExclusive
  <2>2. \A q, r \in Proc, v \in VA : map'[q][v] # NoPage =>
          map'[q][v] \notin free' /\ map'[q][v] # root'[r]
    BY <1>1, <1>2, <1>3, MappingFacts
  <2>3. \A q, r \in Proc, t \in Table : tables'[q][t] # NoPage =>
          tables'[q][t] \notin free' /\ tables'[q][t] # root'[r]
    BY <1>1, <1>2, <1>3, TableFacts
  <2>4. \A q, r \in Proc, v \in VA, t \in Table : map'[q][v] # NoPage => map'[q][v] # tables'[r][t]
    BY <1>2, MappingFacts
  <2>. QED
    BY <2>1, <2>2, <2>3, <2>4 DEF FrameExclusive
<1>9. RefCountExact'
  <2>1. \A g : Sharers(g)' = Sharers(g)
    BY <1>2 DEF Sharers
  <2>2. \A q \in Proc : root'[q] # NoPage => refs'[root'[q]] = 0
    BY <1>1, <1>2, <1>3, FreeFacts, RootFacts
  <2>3. \A g \in free' : refs'[g] = 0
    BY <1>2, FreeFacts
  <2>. QED
    BY <1>2, <2>1, <2>2, <2>3 DEF IInv, RefCountExact
<1>10. MappedInsideVma'
  BY <1>2, <1>3, <1>5 DEF IInv, MappedInsideVma, OnlyLiveHold, Live, VmaPages, Heap
<1>11. OnlyLiveHold'
  <2>. \A q \in Proc : root[q] = NoPage <=> status[q] # "alive"
    BY DEF IInv, OnlyLiveHold
  <2>1. \A q \in Proc : root'[q] = NoPage <=> status'[q] # "alive"
    BY <1>3, <1>4
  <2>2. \A q \in Proc : status'[q] # "alive" => status[q] # "alive"
    BY <1>3
  <2>3. \A q \in Proc : status'[q] # "alive" =>
          (\A t \in Table : tables'[q][t] = NoPage) /\ (\A v \in VA : map'[q][v] = NoPage)
    BY <1>2, <2>2 DEF IInv, OnlyLiveHold
  <2>. QED
    BY <2>1, <2>3 DEF OnlyLiveHold
<1>12. NoneLost
  <2>1. root[p] = NoPage
    BY <1>5 DEF IInv, OnlyLiveHold
  <2>2. Dead' = Dead
    BY <1>3 DEF Dead, Build
  <2>3. \A g \in Page : Used(g)' <=> Used(g)
    BY <1>1, <1>2, <1>3, <2>1, PageAssumption DEF Used
  <2>. QED
    BY <2>2, <2>3 DEF NoneLost
<1>13. StaysIsolated
  BY <1>2 DEF StaysIsolated, SoleWriters, NoTextWrites, Isolation
<1>. QED
  BY <1>2, <1>6, <1>7, <1>8, <1>9, <1>10, <1>11, <1>12, <1>13 DEF IInv, NeverHangs

LEMMA BrkPreserves ==
  ASSUME IInv, NEW p \in Proc, NEW n \in 0 .. HeapMax, Brk(p, n)
  PROVE  IInv' /\ NoneLost /\ StaysIsolated
<1>1. /\ heap' = [heap EXCEPT ![p] = BrkTop(@, n)]
      /\ UNCHANGED <<status, map, rw, cow, root, tables, refs, free, kheap, hung>>
  BY DEF Brk
<1>2. \A q \in Proc : heap[q] \in 0 .. HeapMax /\ heap'[q] \in 0 .. HeapMax /\ heap[q] <= heap'[q]
  BY <1>1, BoundAssumption DEF BrkTop, IInv, TypeOK
<1>3. heap' \in [Proc -> 0 .. HeapMax]
  BY <1>1, <1>2 DEF IInv, TypeOK
<1>4. TypeOK'
  BY <1>1, <1>3 DEF IInv, TypeOK
<1>5. \A q \in Proc : VmaPages(q) \subseteq VmaPages(q)'
  BY <1>2, LayoutAssumption, BoundAssumption DEF VmaPages, Heap
<1>6. MappedInsideVma'
  BY <1>1, <1>5 DEF IInv, MappedInsideVma, Live
<1>7. RefCountExact'
  <2>1. \A g : Sharers(g)' = Sharers(g)
    BY <1>1 DEF Sharers
  <2>. QED
    BY <1>1, <2>1 DEF IInv, RefCountExact
<1>8. NoAlias' /\ FrameExclusive' /\ OnlyLiveHold' /\ NeverHangs'
  BY <1>1 DEF IInv, NoAlias, FrameExclusive, OnlyLiveHold, NeverHangs
<1>9. NoneLost
  BY <1>1 DEF NoneLost, Used, Dead
<1>10. StaysIsolated
  BY <1>1 DEF StaysIsolated, SoleWriters, NoTextWrites, Isolation
<1>. QED
  BY <1>4, <1>6, <1>7, <1>8, <1>9, <1>10 DEF IInv

LEMMA FaultAllocPreserves ==
  ASSUME IInv, NEW p \in Proc, NEW v \in VA, NEW off \in Offset, NEW write \in BOOLEAN,
         FaultAlloc(p, v, off, write)
  PROVE  IInv' /\ NoneLost /\ StaysIsolated
<1>1. PICK s \in Segment : allocatePages(p, s)
  BY DEF FaultAlloc, findVMA, Candidates
<1> DEFINE vmas == VmaOf(p, s)
           miss == Missing(p, vmas)
           new  == {u \in vmas : map[p][u] = NoPage}
           tb   == page_alloc(miss, free)
           pg   == page_alloc(new, free \ Range(tb))
           G    == Range(tb) \cup Range(pg)
<1>2. UNCHANGED <<status, heap, cow, root, kheap, hung>> /\ status[p] = "alive"
  BY DEF FaultAlloc
<1>3. /\ CanAlloc(Cardinality(miss) + Cardinality(new))
      /\ tables' = [tables EXCEPT ![p] = WithTables(@, tb)]
      /\ map' = [map EXCEPT ![p] = [u \in VA |-> IF u \in new THEN pg[u] ELSE @[u]]]
      /\ rw' = [rw EXCEPT ![p] = IF s = "text" THEN @ ELSE @ \cup new]
      /\ refs' = Share(refs, G)
      /\ free' = free \ G
  BY <1>1 DEF allocatePages
<1>4. vmas \subseteq VmaPages(p) /\ vmas \subseteq VA
  BY VmasInVA DEF VmaOf, VmaPages, Segment
<1>5. /\ miss \subseteq Table /\ \A t \in miss : tables[p][t] = NoPage
      /\ new \subseteq vmas /\ \A u \in new : map[p][u] = NoPage
  BY <1>4, TableAssumption DEF Missing
<1>6. /\ IsFiniteSet(miss) /\ IsFiniteSet(new) /\ IsFiniteSet(free)
      /\ Cardinality(miss) + Cardinality(new) <= Cardinality(free)
  <2>1. IsFiniteSet(miss) /\ IsFiniteSet(new) /\ IsFiniteSet(free)
    BY <1>4, <1>5, TableAssumption, LayoutAssumption, PageAssumption, FS_Subset DEF IInv, TypeOK
  <2>2. Cardinality(miss) \in Nat /\ Cardinality(new) \in Nat /\ Cardinality(free) \in Nat
    BY <2>1, FS_CardinalityType
  <2>. QED
    BY <1>3, <2>1, <2>2 DEF CanAlloc
<1>7. tb \in Injection(miss, free) /\ pg \in Injection(new, free \ Range(tb))
  BY <1>6, AllocTwice
<1> HIDE DEF vmas, miss, new, tb, pg
<1>8. /\ DOMAIN tb = miss /\ \A t \in miss : tb[t] \in Range(tb)
      /\ \A t, u \in miss : tb[t] = tb[u] => t = u
      /\ \A u \in new : pg[u] \in Range(pg)
      /\ \A u, w \in new : pg[u] = pg[w] => u = w
      /\ Range(tb) \subseteq free /\ Range(pg) \subseteq free \ Range(tb)
      /\ \A g \in Range(pg) : \E u \in new : pg[u] = g
  <2>1. /\ DOMAIN tb = miss /\ \A t \in miss : tb[t] \in Range(tb)
        /\ \A t, u \in miss : tb[t] = tb[u] => t = u
        /\ Range(tb) \subseteq free
    BY <1>7, InjectionFacts
  <2>2. /\ \A u \in new : pg[u] \in Range(pg)
        /\ \A u, w \in new : pg[u] = pg[w] => u = w
        /\ Range(pg) \subseteq free \ Range(tb)
        /\ \A g \in Range(pg) : \E u \in new : pg[u] = g
    BY <1>7 DEF Injection, IsInjective, Range
  <2>. QED
    BY <2>1, <2>2
<1>9. /\ G \subseteq free /\ G \subseteq Page /\ NoPage \notin G
      /\ \A g \in G : refs[g] = 0
      /\ \A g : g \in G <=> g \in Range(tb) \/ g \in Range(pg)
  BY <1>8, FreeFacts, PageAssumption
<1> HIDE DEF G
<1>10. /\ \A q \in Proc, u \in VA :
            map'[q][u] = IF q = p /\ u \in new THEN pg[u] ELSE map[q][u]
       /\ \A q \in Proc, t \in Table :
            tables'[q][t] = IF q = p /\ t \in miss THEN tb[t] ELSE tables[q][t]
       /\ \A g \in Page : refs'[g] = IF g \in G THEN refs[g] + 1 ELSE refs[g]
  BY <1>3, <1>8 DEF IInv, TypeOK, WithTables, Share
<1>11. TypeOK'
  <2>1. map' \in [Proc -> [VA -> Page \cup {NoPage}]]
    BY <1>3, <1>8, <1>9 DEF IInv, TypeOK
  <2>2. tables' \in [Proc -> [Table -> Page \cup {NoPage}]]
    BY <1>3, <1>8, <1>9 DEF IInv, TypeOK, WithTables
  <2>3. rw' \in [Proc -> SUBSET VA]
    BY <1>3, <1>4, <1>5 DEF IInv, TypeOK
  <2>4. refs' \in [Page -> Int] /\ free' \in SUBSET Page
    BY <1>3 DEF IInv, TypeOK, Share
  <2>. QED
    BY <1>2, <2>1, <2>2, <2>3, <2>4 DEF IInv, TypeOK
<1>12. NoAlias'
  <2>1. \A q \in Proc, u, w \in VA : map'[q][u] # NoPage /\ map'[q][u] = map'[q][w] => u = w
    BY <1>8, <1>10, MappingFacts
  <2>2. \A q, r \in Proc, t, u \in Table :
          tables'[q][t] # NoPage /\ tables'[q][t] = tables'[r][u] => q = r /\ t = u
    BY <1>8, <1>10, TableFacts
  <2>. QED
    BY <1>2, <2>1, <2>2 DEF IInv, NoAlias
<1>13. FrameExclusive'
  <2>1. \A q \in Proc, u \in VA : map'[q][u] # NoPage =>
          /\ map'[q][u] \notin free'
          /\ \A r \in Proc : map'[q][u] # root'[r]
          /\ \A r \in Proc, t \in Table : map'[q][u] # tables'[r][t]
    BY <1>2, <1>3, <1>8, <1>9, <1>10, MappingFacts, FreeFacts
  <2>2. \A q \in Proc, t \in Table : tables'[q][t] # NoPage =>
          tables'[q][t] \notin free' /\ \A r \in Proc : tables'[q][t] # root'[r]
    BY <1>2, <1>3, <1>8, <1>9, <1>10, TableFacts, FreeFacts
  <2>3. \A q \in Proc : root'[q] \notin free'
    BY <1>2, <1>3 DEF IInv, FrameExclusive
  <2>. QED
    BY <2>1, <2>2, <2>3 DEF FrameExclusive
<1>14. RefCountExact'
  <2>1. ASSUME NEW q \in Proc, NEW u \in VA, NEW g, g = map'[q][u], g # NoPage
        PROVE  refs'[g] = Cardinality(Sharers(g)')
    <3>1. CASE q = p /\ u \in new
      <4>1. g \in Range(pg) /\ g \in free
        BY <1>8, <1>10, <2>1, <3>1
      <4>2. Sharers(g)' = {p}
        BY <1>10, <2>1, <3>1, <4>1, FreeFacts DEF Sharers
      <4>3. refs'[g] = 1
        BY <1>9, <1>10, <4>1, FreeFacts
      <4>. QED
        BY <4>2, <4>3, FS_Singleton
    <3>2. CASE ~(q = p /\ u \in new)
      <4>1. g = map[q][u]
        BY <1>10, <2>1, <3>2
      <4>2. g \notin G /\ g \in Page /\ refs[g] = Cardinality(Sharers(g))
        BY <1>9, <2>1, <4>1, MappingFacts
      <4>3. Sharers(g)' = Sharers(g)
        BY <1>5, <1>8, <1>9, <1>10, <2>1, <4>2 DEF Sharers
      <4>. QED
        BY <1>10, <4>2, <4>3
    <3>. QED
      BY <3>1, <3>2
  <2>2. \A q \in Proc, t \in Table : tables'[q][t] # NoPage => refs'[tables'[q][t]] = 1
    BY <1>8, <1>9, <1>10, TableFacts
  <2>3. \A q \in Proc : root'[q] # NoPage => refs'[root'[q]] = 0
    BY <1>2, <1>9, <1>10, RootFacts
  <2>4. \A g \in free' : refs'[g] = 0
    BY <1>3, <1>10, FreeFacts
  <2>. QED
    BY <2>1, <2>2, <2>3, <2>4 DEF RefCountExact, Sharers
<1>15. MappedInsideVma'
  BY <1>2, <1>4, <1>5, <1>10 DEF IInv, MappedInsideVma, Live, VmaPages, Heap
<1>16. OnlyLiveHold'
  BY <1>2, <1>10 DEF IInv, OnlyLiveHold
<1>17. NoneLost
  <2>1. Dead' = Dead
    BY <1>2 DEF Dead
  <2>2. ASSUME NEW g \in Page, Used(g) PROVE Used(g)'
    <3>1. CASE g \in free
      <4>1. g \in G => (\E t \in miss : tb[t] = g) \/ (\E u \in new : pg[u] = g)
        BY <1>7, <1>8, <1>9, InjectionFacts
      <4>. QED
        BY <1>3, <1>4, <1>5, <1>10, <3>1, <4>1 DEF Used
    <3>2. CASE g \notin free
      BY <1>2, <1>5, <1>10, <2>2, <3>2, PageAssumption DEF Used
    <3>. QED
      BY <3>1, <3>2
  <2>3. ASSUME NEW g \in Page, Used(g)' PROVE Used(g)
    BY <1>2, <1>3, <1>8, <1>9, <1>10, <2>3 DEF Used
  <2>. QED
    BY <2>1, <2>2, <2>3 DEF NoneLost
<1>18. StaysIsolated
  <2>. SUFFICES ASSUME SoleWriters PROVE SoleWriters'
    BY DEF StaysIsolated
  <2>1. \A q \in Proc : /\ rw'[q] = IF q = p /\ s # "text" THEN rw[q] \cup new ELSE rw[q]
                       /\ cow'[q] = cow[q]
    BY <1>2, <1>3 DEF IInv, TypeOK
  <2>2. s # "text" => new \cap Text = {}
    <3>1. heap[p] \in 0 .. HeapMax
      BY DEF IInv, TypeOK
    <3>2. s # "text" => vmas \cap Text = {}
      BY <3>1, LayoutAssumption, BoundAssumption DEF vmas, VmaOf, Segment, Heap
    <3>. QED
      BY <1>5, <3>2
  <2>3. NoTextWrites'
    BY <2>1, <2>2 DEF SoleWriters, NoTextWrites
  <2>4. ASSUME NEW q \in Proc, NEW r \in Proc, NEW u \in VA, NEW w \in VA, NEW g,
               q # r, u \in rw'[q], map'[q][u] = g, g # NoPage, map'[r][w] = g
        PROVE  FALSE
    <3>1. CASE q = p /\ u \in new
      <4>1. g \in free /\ map[r][w] = g
        BY <1>8, <1>10, <2>4, <3>1
      <4>. QED
        BY <4>1, FreeFacts
    <3>2. CASE r = p /\ w \in new
      <4>1. g \in free /\ map[q][u] = g
        BY <1>8, <1>10, <2>4, <3>2
      <4>. QED
        BY <4>1, FreeFacts
    <3>3. CASE ~(q = p /\ u \in new) /\ ~(r = p /\ w \in new)
      <4>1. map[q][u] = g /\ map[r][w] = g
        BY <1>10, <2>4, <3>3
      <4>2. u \in rw[q]
        BY <2>1, <2>4, <3>3
      <4>. QED
        BY <2>4, <4>1, <4>2 DEF SoleWriters, Isolation
    <3>. QED
      BY <3>1, <3>2, <3>3
  <2>. QED
    BY <2>3, <2>4 DEF SoleWriters, Isolation
<1>. QED
  BY <1>2, <1>11, <1>12, <1>13, <1>14, <1>15, <1>16, <1>17, <1>18 DEF IInv, NeverHangs

(* The frame CowCopy takes: refs of the old one is 2, so nothing is released. *)
LEMMA CowCopyPreserves ==
  ASSUME IInv, NEW p \in Proc, NEW v \in VA, map[p][v] # NoPage, CowCopy(p, v),
         hung' = hung, kheap' \in Nat
  PROVE  IInv' /\ NoneLost /\ StaysIsolated
<1> DEFINE old == map[p][v]
           new == page_alloc({v}, free)[v]
<1>1. /\ old \in Page /\ refs[old] = 2 /\ old \notin free /\ p \in Sharers(old)
      /\ refs[old] = Cardinality(Sharers(old))
  BY MappingFacts DEF CowCopy, CowCopies
<1>2. free \cup Released(refs, {old}) = free
  BY <1>1 DEF Released
<1>3. new \in free
  BY OneFrame DEF CowCopy
<1>4. /\ map' = [map EXCEPT ![p] = [@ EXCEPT ![v] = new]]
      /\ rw' = [rw EXCEPT ![p] = @ \cup {v}]
      /\ cow' = [cow EXCEPT ![p] = @ \ {v}]
      /\ refs' = Share(Drop(refs, {old}), {new})
      /\ free' = free \ {new}
      /\ UNCHANGED <<status, heap, root, tables>>
  BY <1>2 DEF CowCopy
<1> HIDE DEF old, new
<1>5. new \in Page /\ new # NoPage /\ refs[new] = 0 /\ new # old /\ old # NoPage
  BY <1>1, <1>3, FreeFacts, PageAssumption
<1>6. /\ \A q \in Proc, u \in VA : map'[q][u] = IF q = p /\ u = v THEN new ELSE map[q][u]
      /\ \A g \in Page : refs'[g] = IF g = old THEN 1 ELSE IF g = new THEN 1 ELSE refs[g]
  <2>1. \A q \in Proc, u \in VA : map'[q][u] = IF q = p /\ u = v THEN new ELSE map[q][u]
    BY <1>4 DEF IInv, TypeOK
  <2>2. \A g \in Page : refs'[g] = IF g = old THEN 1 ELSE IF g = new THEN 1 ELSE refs[g]
    BY <1>1, <1>4, <1>5 DEF IInv, TypeOK, Share, Drop
  <2>. QED
    BY <2>1, <2>2
<1>7. TypeOK'
  <2>1. map' \in [Proc -> [VA -> Page \cup {NoPage}]]
    BY <1>4, <1>5 DEF IInv, TypeOK
  <2>2. rw' \in [Proc -> SUBSET VA] /\ cow' \in [Proc -> SUBSET VA]
    BY <1>4 DEF IInv, TypeOK
  <2>3. refs' \in [Page -> Int] /\ free' \in SUBSET Page
    BY <1>4 DEF IInv, TypeOK, Share, Drop
  <2>. QED
    BY <1>4, <2>1, <2>2, <2>3 DEF IInv, TypeOK
<1>8. NoAlias'
  <2>1. \A q \in Proc, u, w \in VA : map'[q][u] # NoPage /\ map'[q][u] = map'[q][w] => u = w
    BY <1>3, <1>6, MappingFacts
  <2>. QED
    BY <1>4, <2>1 DEF IInv, NoAlias
<1>9. FrameExclusive'
  <2>1. \A q \in Proc, u \in VA : map'[q][u] # NoPage =>
          /\ map'[q][u] \notin free'
          /\ \A r \in Proc : map'[q][u] # root'[r]
          /\ \A r \in Proc, t \in Table : map'[q][u] # tables'[r][t]
    BY <1>3, <1>4, <1>6, MappingFacts, FreeFacts
  <2>2. \A q \in Proc, t \in Table : tables'[q][t] # NoPage =>
          tables'[q][t] \notin free' /\ \A r \in Proc : tables'[q][t] # root'[r]
    BY <1>4, TableFacts
  <2>3. \A q \in Proc : root'[q] \notin free'
    BY <1>4 DEF IInv, FrameExclusive
  <2>. QED
    BY <2>1, <2>2, <2>3 DEF FrameExclusive
<1>10. RefCountExact'
  <2>1. \A u \in VA : u # v => map[p][u] # old
    BY <1>5, MappingFacts DEF old
  <2>2. ASSUME NEW q \in Proc, NEW u \in VA, NEW g, g = map'[q][u], g # NoPage
        PROVE  refs'[g] = Cardinality(Sharers(g)')
    <3>1. CASE q = p /\ u = v
      <4>1. g = new
        BY <1>6, <2>2, <3>1
      <4>2. Sharers(g)' = {p}
        BY <1>3, <1>6, <4>1, FreeFacts DEF Sharers
      <4>. QED
        BY <1>5, <1>6, <4>1, <4>2, FS_Singleton
    <3>2. CASE ~(q = p /\ u = v) /\ g = old
      <4>1. Sharers(g)' = Sharers(g) \ {p}
        BY <1>5, <1>6, <2>1, <3>2 DEF Sharers, old
      <4>2. Cardinality(Sharers(g) \ {p}) =
              IF p \in Sharers(g) THEN Cardinality(Sharers(g)) - 1 ELSE Cardinality(Sharers(g))
        BY SharersFinite, FS_RemoveElement
      <4>. QED
        BY <1>1, <1>6, <3>2, <4>1, <4>2
    <3>3. CASE ~(q = p /\ u = v) /\ g # old
      <4>1. g = map[q][u] /\ g \in Page /\ g # new
        BY <1>3, <1>6, <2>2, <3>3, MappingFacts
      <4>2. Sharers(g)' = Sharers(g)
        BY <1>6, <3>3, <4>1 DEF Sharers, old
      <4>. QED
        BY <1>6, <2>2, <3>3, <4>1, <4>2, MappingFacts
    <3>. QED
      BY <3>1, <3>2, <3>3
  <2>3. ASSUME NEW q \in Proc, NEW t \in Table, tables'[q][t] # NoPage
        PROVE  refs'[tables'[q][t]] = 1
    <3>1. tables'[q][t] = tables[q][t]
      BY <1>4
    <3>2. tables[q][t] \in Page /\ refs[tables[q][t]] = 1
      BY <2>3, <3>1, TableFacts
    <3>. QED
      BY <1>6, <3>1, <3>2
  <2>4. ASSUME NEW q \in Proc, root'[q] # NoPage
        PROVE  refs'[root'[q]] = 0
    <3>1. root'[q] = root[q] /\ root[q] \in Page /\ refs[root[q]] = 0 /\ root[q] \notin free
      BY <1>4, <2>4, RootFacts
    <3>2. root[q] # old
      BY <1>4, <2>4, RootFacts DEF old
    <3>. QED
      BY <1>3, <1>6, <3>1, <3>2
  <2>5. \A g \in free' : refs'[g] = 0
    BY <1>1, <1>4, <1>6, FreeFacts
  <2>. QED
    BY <2>2, <2>3, <2>4, <2>5 DEF RefCountExact, Sharers
<1>11. MappedInsideVma'
  <2>1. \A q \in Proc, u \in VA : map'[q][u] # NoPage => map[q][u] # NoPage
    BY <1>5, <1>6 DEF old
  <2>. QED
    BY <1>4, <2>1 DEF IInv, MappedInsideVma, Live, VmaPages, Heap
<1>12. OnlyLiveHold'
  BY <1>4, <1>5, <1>6 DEF IInv, OnlyLiveHold, old
<1>13. NoneLost
  <2>1. Dead' = Dead
    BY <1>4 DEF Dead
  <2>2. PICK q \in Proc : q # p /\ \E u \in VA : map[q][u] = old
    <3>1. Cardinality(Sharers(old)) # 1
      BY <1>1
    <3>2. Sharers(old) # {p}
      BY <3>1, FS_Singleton
    <3>. QED
      BY <1>1, <3>2 DEF Sharers
  <2>3. ASSUME NEW g \in Page, g = old PROVE Used(g)' /\ Used(g)
    BY <1>6, <2>2, <2>3 DEF Used
  <2>4. ASSUME NEW g \in Page, g = new PROVE Used(g)' /\ Used(g)
    BY <1>3, <1>6, <2>4 DEF Used
  <2>5. ASSUME NEW g \in Page, g # old, g # new PROVE Used(g)' <=> Used(g)
    BY <1>4, <1>6, <2>5 DEF Used, old
  <2>. QED
    BY <2>1, <2>3, <2>4, <2>5 DEF NoneLost
<1>14. StaysIsolated
  <2>. SUFFICES ASSUME SoleWriters PROVE SoleWriters'
    BY DEF StaysIsolated
  <2>1. \A q \in Proc : /\ rw'[q] = IF q = p THEN rw[q] \cup {v} ELSE rw[q]
                       /\ cow'[q] = IF q = p THEN cow[q] \ {v} ELSE cow[q]
    BY <1>4 DEF IInv, TypeOK
  <2>2. v \notin Text
    BY DEF CowCopy, SoleWriters, NoTextWrites
  <2>3. NoTextWrites'
    BY <2>1, <2>2 DEF SoleWriters, NoTextWrites
  <2>4. ASSUME NEW q \in Proc, NEW r \in Proc, NEW u \in VA, NEW w \in VA, NEW g,
               q # r, u \in rw'[q], map'[q][u] = g, g # NoPage, map'[r][w] = g
        PROVE  FALSE
    <3>1. CASE q = p /\ u = v
      <4>1. g \in free /\ map[r][w] = g
        BY <1>3, <1>6, <2>4, <3>1
      <4>. QED
        BY <4>1, FreeFacts
    <3>2. CASE r = p /\ w = v
      <4>1. g \in free /\ map[q][u] = g
        BY <1>3, <1>6, <2>4, <3>2
      <4>. QED
        BY <4>1, FreeFacts
    <3>3. CASE ~(q = p /\ u = v) /\ ~(r = p /\ w = v)
      <4>1. map[q][u] = g /\ map[r][w] = g
        BY <1>6, <2>4, <3>3
      <4>2. u \in rw[q]
        BY <2>1, <2>4, <3>3
      <4>. QED
        BY <2>4, <4>1, <4>2 DEF SoleWriters, Isolation
    <3>. QED
      BY <3>1, <3>2, <3>3
  <2>. QED
    BY <2>3, <2>4 DEF SoleWriters, Isolation
<1>. QED
  BY <1>4, <1>7, <1>8, <1>9, <1>10, <1>11, <1>12, <1>13, <1>14 DEF IInv, NeverHangs

LEMMA CowFaultPreserves ==
  ASSUME IInv, NEW p \in Proc, NEW v \in VA, CowFault(p, v)
  PROVE  IInv' /\ (NoneLost \/ RootLost(p)) /\ (AtMostTwo => StaysIsolated)
<1>1. /\ hung' = hung /\ kheap' \in Nat /\ map[p][v] # NoPage /\ status[p] = "alive"
  BY DEF CowFault, KmallocPage, IInv, TypeOK
<1>2. CASE CowCopy(p, v)
  BY <1>1, <1>2, CowCopyPreserves
<1>3. CASE CowNoBuffer(p, v)
  BY <1>1, <1>3, DeletePreserves DEF CowNoBuffer
<1>4. CASE CowInPlace(p, v) \/ CowIgnored(p, v)
  <2>1. /\ UNCHANGED <<status, heap, map, root, tables, refs, free>>
        /\ rw' \in [Proc -> SUBSET VA] /\ cow' \in [Proc -> SUBSET VA]
    <3>1. CASE CowInPlace(p, v)
      BY <3>1 DEF CowInPlace, IInv, TypeOK
    <3>2. CASE CowIgnored(p, v)
      BY <3>2 DEF CowIgnored, IInv, TypeOK
    <3>. QED
      BY <1>4, <3>1, <3>2
  <2>2. TypeOK'
    BY <1>1, <2>1 DEF IInv, TypeOK
  <2>3. \A g : Sharers(g)' = Sharers(g)
    BY <2>1 DEF Sharers
  <2>4. RefCountExact'
    BY <2>1, <2>3 DEF IInv, RefCountExact
  <2>5. NoAlias' /\ FrameExclusive'
    BY <2>1 DEF IInv, NoAlias, FrameExclusive
  <2>6. MappedInsideVma' /\ OnlyLiveHold'
    BY <2>1 DEF IInv, MappedInsideVma, OnlyLiveHold, Live, VmaPages, Heap
  <2>7. NoneLost
    BY <2>1 DEF NoneLost, Used, Dead
  <2>8. ASSUME AtMostTwo, SoleWriters, v \in cow[p], refs[map[p][v]] # 2
        PROVE  Sharers(map[p][v]) = {p}
    <3> DEFINE S == Sharers(map[p][v])
    <3>1. p \in S /\ refs[map[p][v]] = Cardinality(S)
      BY <1>1, MappingFacts
    <3>2. S \subseteq Live /\ IsFiniteSet(Live)
      BY <1>1, ProcAssumption, FS_Subset DEF Sharers, Live, IInv, OnlyLiveHold
    <3>3. Cardinality(S) <= 2 /\ Cardinality(S) \in Nat /\ Cardinality(S) # 2
      BY <2>8, <3>1, <3>2, FS_Subset, FS_CardinalityType DEF AtMostTwo
    <3>4. Cardinality(S) # 0
      BY <3>1, SharersFinite, FS_EmptySet
    <3>5. Cardinality(S) = 1
      BY <3>3, <3>4
    <3>. QED
      BY <3>1, <3>5, SharersFinite, FS_Singleton
  <2>9. AtMostTwo => StaysIsolated
    <3>. SUFFICES ASSUME AtMostTwo, SoleWriters PROVE SoleWriters'
      BY DEF StaysIsolated
    <3>1. CASE CowIgnored(p, v)
      BY <3>1 DEF CowIgnored, SoleWriters, NoTextWrites, Isolation
    <3>2. CASE CowInPlace(p, v)
      <4>1. \A q \in Proc : /\ rw'[q] = IF q = p THEN rw[q] \cup {v} ELSE rw[q]
                           /\ cow'[q] = IF q = p THEN cow[q] \ {v} ELSE cow[q]
        BY <3>2 DEF CowInPlace, IInv, TypeOK
      <4>2. v \in cow[p] /\ v \notin Text /\ refs[map[p][v]] # 2
        BY <3>2 DEF CowInPlace, CowCopies, SoleWriters, NoTextWrites
      <4>3. \A q \in Proc, u \in VA : q # p => map[q][u] # map[p][v]
        BY <2>8, <4>2 DEF Sharers
      <4>4. NoTextWrites'
        BY <4>1, <4>2 DEF SoleWriters, NoTextWrites
      <4>5. Isolation'
        BY <2>1, <4>1, <4>3 DEF SoleWriters, Isolation
      <4>. QED
        BY <4>4, <4>5 DEF SoleWriters
    <3>. QED
      BY <1>4, <3>1, <3>2
  <2>. QED
    BY <1>1, <2>2, <2>4, <2>5, <2>6, <2>7, <2>9 DEF IInv, NeverHangs
<1>. QED
  BY <1>2, <1>3, <1>4 DEF CowFault

LEMMA ForkPreserves ==
  ASSUME IInv, NEW p \in Proc, NEW c \in Proc, Fork(p, c)
  PROVE  IInv' /\ NoneLost /\ StaysIsolated
<1> DEFINE shared == {v \in VmaPages(p) : map[p][v] # NoPage}
           marked == shared \cap Writable(p)
           missP  == Missing(p, VmaPages(p))
           missC  == UNION {Path[v] : v \in shared}
           pml4   == page_alloc({c}, free)[c]
           rest   == free \ {pml4}
           tbP    == page_alloc(missP, rest)
           tbC    == page_alloc(missC, rest \ Range(tbP))
           fs     == Frames(p, shared)
           new    == {pml4} \cup Range(tbP) \cup Range(tbC)
<1>1. /\ status[p] = "alive" /\ status[c] = "unused" /\ p # c
      /\ CanAlloc(1 + Cardinality(missP) + Cardinality(missC))
      /\ UNCHANGED <<kheap, hung>>
  BY DEF Fork
<1>2. rest \ Range(tbP) = free \ ({pml4} \cup Range(tbP))
  OBVIOUS
<1>3. /\ status' = [status EXCEPT ![c] = "alive"]
      /\ heap' = [heap EXCEPT ![c] = heap[p]]
      /\ root' = [root EXCEPT ![c] = pml4]
      /\ tables' = [tables EXCEPT ![p] = WithTables(@, tbP), ![c] = WithTables(NoTables, tbC)]
      /\ map' = [map EXCEPT ![c] = [v \in VA |-> IF v \in shared THEN map[p][v] ELSE NoPage]]
      /\ rw' = [rw EXCEPT ![p] = ParentRw(p, marked), ![c] = {}]
      /\ cow' = [cow EXCEPT ![p] = @ \cup marked, ![c] = marked]
      /\ refs' = Share(refs, fs \cup Range(tbP) \cup Range(tbC))
      /\ free' = free \ new
  BY <1>2 DEF Fork
<1>4. /\ VmaPages(p) \subseteq VA /\ shared \subseteq VA /\ marked \subseteq VA
      /\ \A v \in VA : v \in shared <=> map[p][v] # NoPage
  BY <1>1, VmasInVA DEF IInv, MappedInsideVma, Live
<1>5. /\ missP \subseteq Table /\ missC \subseteq Table
      /\ \A t \in missP : tables[p][t] = NoPage
  BY <1>4, TableAssumption DEF Missing
<1>6. /\ \A t \in Table : tables[c][t] = NoPage
      /\ \A v \in VA : map[c][v] = NoPage
      /\ root[c] = NoPage
  BY <1>1 DEF IInv, OnlyLiveHold
<1>7. \A g : g \in fs <=> g # NoPage /\ \E v \in VA : map[p][v] = g
  BY <1>4 DEF Frames
<1> HIDE DEF shared, marked, missP, missC
<1>8. pml4 \in free /\ tbP \in Injection(missP, rest) /\ tbC \in Injection(missC, rest \ Range(tbP))
  <2>1. /\ IsFiniteSet(missP) /\ IsFiniteSet(missC) /\ IsFiniteSet(free)
        /\ Cardinality(missP) \in Nat /\ Cardinality(missC) \in Nat /\ Cardinality(free) \in Nat
    BY <1>5, TableAssumption, PageAssumption, FS_Subset, FS_CardinalityType DEF IInv, TypeOK
  <2>2. 1 + Cardinality(missP) + Cardinality(missC) < Cardinality(free)
    BY <1>1 DEF CanAlloc
  <2>3. CanAlloc(1)
    BY <2>1, <2>2 DEF CanAlloc
  <2>4. pml4 \in free
    BY <2>3, OneFrame
  <2>5. IsFiniteSet(rest) /\ Cardinality(rest) = Cardinality(free) - 1
    BY <2>1, <2>4, FS_RemoveElement
  <2>6. Cardinality(missP) + Cardinality(missC) <= Cardinality(rest)
    BY <2>1, <2>2, <2>5
  <2>. QED
    BY <2>1, <2>4, <2>5, <2>6, AllocTwice
<1> HIDE DEF pml4, tbP, tbC
<1>9. /\ DOMAIN tbP = missP /\ \A t \in missP : tbP[t] \in Range(tbP)
      /\ \A t, u \in missP : tbP[t] = tbP[u] => t = u
      /\ Range(tbP) \subseteq free /\ pml4 \notin Range(tbP)
      /\ DOMAIN tbC = missC /\ \A t \in missC : tbC[t] \in Range(tbC)
      /\ \A t, u \in missC : tbC[t] = tbC[u] => t = u
      /\ Range(tbC) \subseteq free /\ pml4 \notin Range(tbC)
      /\ Range(tbC) \cap Range(tbP) = {}
  <2>1. /\ DOMAIN tbP = missP /\ \A t \in missP : tbP[t] \in Range(tbP)
        /\ \A t, u \in missP : tbP[t] = tbP[u] => t = u
        /\ Range(tbP) \subseteq rest
    BY <1>8 DEF Injection, IsInjective, Range
  <2>2. /\ DOMAIN tbC = missC /\ \A t \in missC : tbC[t] \in Range(tbC)
        /\ \A t, u \in missC : tbC[t] = tbC[u] => t = u
        /\ Range(tbC) \subseteq rest \ Range(tbP)
    BY <1>8 DEF Injection, IsInjective, Range
  <2>. QED
    BY <2>1, <2>2
<1>10. /\ new \subseteq free /\ new \subseteq Page /\ NoPage \notin new
       /\ \A g \in new : refs[g] = 0
       /\ \A g : g \in new <=> g = pml4 \/ g \in Range(tbP) \/ g \in Range(tbC)
       /\ fs \subseteq Page /\ fs \cap free = {}
  <2>1. fs \subseteq Page /\ fs \cap free = {}
    BY <1>7, MappingFacts
  <2>2. new \subseteq free
    BY <1>8, <1>9
  <2>. QED
    BY <2>1, <2>2, FreeFacts, PageAssumption
<1> HIDE DEF new, fs
<1>11. /\ \A q \in Proc, u \in VA : map'[q][u] = IF q = c THEN map[p][u] ELSE map[q][u]
       /\ \A q \in Proc, t \in Table : tables'[q][t] =
            IF q = p /\ t \in missP THEN tbP[t]
            ELSE IF q = c /\ t \in missC THEN tbC[t] ELSE tables[q][t]
       /\ \A q \in Proc : root'[q] = IF q = c THEN pml4 ELSE root[q]
       /\ \A q \in Proc : status'[q] = IF q = c THEN "alive" ELSE status[q]
       /\ \A q \in Proc : heap'[q] = IF q = c THEN heap[p] ELSE heap[q]
       /\ \A g \in Page : refs'[g] = IF g \in fs \/ g \in Range(tbP) \/ g \in Range(tbC)
                                    THEN refs[g] + 1 ELSE refs[g]
  <2>1. \A q \in Proc, u \in VA : map'[q][u] = IF q = c THEN map[p][u] ELSE map[q][u]
    BY <1>3, <1>4 DEF IInv, TypeOK
  <2>2. \A q \in Proc, t \in Table : tables'[q][t] =
            IF q = p /\ t \in missP THEN tbP[t]
            ELSE IF q = c /\ t \in missC THEN tbC[t] ELSE tables[q][t]
    BY <1>1, <1>3, <1>6, <1>9 DEF IInv, TypeOK, WithTables, NoTables
  <2>3. /\ \A q \in Proc : root'[q] = IF q = c THEN pml4 ELSE root[q]
        /\ \A q \in Proc : status'[q] = IF q = c THEN "alive" ELSE status[q]
        /\ \A q \in Proc : heap'[q] = IF q = c THEN heap[p] ELSE heap[q]
    BY <1>3 DEF IInv, TypeOK
  <2>4. \A g \in Page : refs'[g] = IF g \in fs \/ g \in Range(tbP) \/ g \in Range(tbC)
                                  THEN refs[g] + 1 ELSE refs[g]
    BY <1>3 DEF Share
  <2>. QED
    BY <2>1, <2>2, <2>3, <2>4
<1>12. TypeOK'
  <2>1. map' \in [Proc -> [VA -> Page \cup {NoPage}]]
    BY <1>3, <1>4 DEF IInv, TypeOK
  <2>2. tables' \in [Proc -> [Table -> Page \cup {NoPage}]]
    <3>1. WithTables(tables[p], tbP) \in [Table -> Page \cup {NoPage}]
      BY <1>9, <1>10 DEF IInv, TypeOK, WithTables
    <3>2. WithTables(NoTables, tbC) \in [Table -> Page \cup {NoPage}]
      BY <1>9, <1>10 DEF WithTables, NoTables
    <3>. QED
      BY <1>3, <1>1, <3>1, <3>2 DEF IInv, TypeOK
  <2>3. rw' \in [Proc -> SUBSET VA] /\ cow' \in [Proc -> SUBSET VA]
    BY <1>3, <1>4 DEF IInv, TypeOK, ParentRw
  <2>4. refs' \in [Page -> Int] /\ free' \in SUBSET Page
    BY <1>3 DEF IInv, TypeOK, Share
  <2>5. /\ status' \in [Proc -> {"unused", "created", "alive", "dead"}]
        /\ heap' \in [Proc -> 0 .. HeapMax]
        /\ root' \in [Proc -> Page \cup {NoPage}]
    BY <1>3, <1>8, <1>10 DEF IInv, TypeOK
  <2>. QED
    BY <1>1, <2>1, <2>2, <2>3, <2>4, <2>5 DEF IInv, TypeOK
<1>13. NoAlias'
  <2>1. \A q \in Proc, u, w \in VA : map'[q][u] # NoPage /\ map'[q][u] = map'[q][w] => u = w
    BY <1>11, MappingFacts
  <2>2. \A q, r \in Proc, t, u \in Table :
          tables'[q][t] # NoPage /\ tables'[q][t] = tables'[r][u] => q = r /\ t = u
    BY <1>9, <1>11, TableFacts
  <2>3. \A q, r \in Proc : root'[q] # NoPage /\ root'[q] = root'[r] => q = r
    BY <1>8, <1>11, RootFacts
  <2>. QED
    BY <2>1, <2>2, <2>3 DEF NoAlias
<1>14. FrameExclusive'
  <2>1. ASSUME NEW q \in Proc, NEW u \in VA, map'[q][u] # NoPage
        PROVE  /\ map'[q][u] \notin free'
               /\ \A r \in Proc : map'[q][u] # root'[r]
               /\ \A r \in Proc, t \in Table : map'[q][u] # tables'[r][t]
    <3>1. PICK q2 \in Proc : map'[q][u] = map[q2][u]
      BY <1>11
    <3>2. map[q2][u] \notin free /\ map[q2][u] \notin new
      BY <1>10, <2>1, <3>1, MappingFacts
    <3>3. \A r \in Proc : map[q2][u] # root'[r]
      BY <1>10, <1>11, <2>1, <3>1, <3>2, MappingFacts
    <3>4. \A r \in Proc, t \in Table : map[q2][u] # tables'[r][t]
      BY <1>9, <1>10, <1>11, <2>1, <3>1, <3>2, MappingFacts
    <3>5. map'[q][u] \notin free'
      BY <1>3, <3>1, <3>2
    <3>. QED
      BY <3>1, <3>3, <3>4, <3>5
  <2>2. ASSUME NEW q \in Proc, NEW t \in Table, NEW g, g = tables'[q][t], g # NoPage
        PROVE  g \notin free' /\ \A r \in Proc : g # root'[r]
    <3>1. CASE g = tables[q][t]
      <4>1. g \notin free /\ \A r \in Proc : g # root[r]
        BY <2>2, <3>1, TableFacts
      <4>. QED
        BY <1>3, <1>8, <1>11, <4>1
    <3>2. CASE g # tables[q][t]
      <4>1. g \in Range(tbP) \/ g \in Range(tbC)
        BY <1>9, <1>11, <2>2, <3>2
      <4>2. g \in free /\ g \in new /\ g # pml4
        BY <1>9, <1>10, <4>1
      <4>. QED
        BY <1>3, <1>11, <4>2, FreeFacts
    <3>. QED
      BY <3>1, <3>2
  <2>3. \A q \in Proc : root'[q] \notin free'
    BY <1>3, <1>10, <1>11 DEF IInv, FrameExclusive
  <2>. QED
    BY <2>1, <2>2, <2>3 DEF FrameExclusive
<1>15. RefCountExact'
  <2>1. ASSUME NEW q \in Proc, NEW u \in VA, NEW g, g = map'[q][u], g # NoPage
        PROVE  refs'[g] = Cardinality(Sharers(g)')
    <3>1. PICK q2 \in Proc : g = map[q2][u]
      BY <1>11, <2>1
    <3>2. g \in Page /\ refs[g] = Cardinality(Sharers(g)) /\ g \notin new
      BY <1>10, <2>1, <3>1, MappingFacts
    <3>3. c \notin Sharers(g)
      BY <1>6, <2>1 DEF Sharers
    <3>4. CASE g \in fs
      <4>1. Sharers(g)' = Sharers(g) \cup {c}
        BY <1>7, <1>11, <2>1, <3>4 DEF Sharers
      <4>2. refs'[g] = refs[g] + 1
        BY <1>11, <3>2, <3>4
      <4>3. Cardinality(Sharers(g) \cup {c}) =
              IF c \in Sharers(g) THEN Cardinality(Sharers(g)) ELSE Cardinality(Sharers(g)) + 1
        BY SharersFinite, FS_AddElement
      <4>. QED
        BY <3>2, <3>3, <4>1, <4>2, <4>3
    <3>5. CASE g \notin fs
      <4>1. Sharers(g)' = Sharers(g)
        BY <1>6, <1>7, <1>11, <2>1, <3>5 DEF Sharers
      <4>. QED
        BY <1>10, <1>11, <3>2, <3>5, <4>1
    <3>. QED
      BY <3>4, <3>5
  <2>2. ASSUME NEW q \in Proc, NEW t \in Table, tables'[q][t] # NoPage
        PROVE  refs'[tables'[q][t]] = 1
    <3>1. CASE tables'[q][t] \in Range(tbP) \cup Range(tbC)
      BY <1>10, <1>11, <3>1
    <3>2. CASE tables'[q][t] \notin Range(tbP) \cup Range(tbC)
      <4>1. tables'[q][t] = tables[q][t]
        BY <1>9, <1>11, <3>2
      <4>2. tables[q][t] \notin fs
        BY <1>7, <2>2, <4>1, TableFacts
      <4>. QED
        BY <1>11, <2>2, <3>2, <4>1, <4>2, TableFacts
    <3>. QED
      BY <3>1, <3>2
  <2>3. ASSUME NEW q \in Proc, root'[q] # NoPage
        PROVE  refs'[root'[q]] = 0
    <3>1. CASE q = c
      <4>1. root'[q] = pml4 /\ pml4 \notin fs /\ pml4 \in Page /\ refs[pml4] = 0
        BY <1>8, <1>10, <1>11, <3>1, FreeFacts
      <4>. QED
        BY <1>9, <1>11, <4>1
    <3>2. CASE q # c
      <4>1. root'[q] = root[q] /\ root[q] \in Page /\ root[q] \notin free /\ refs[root[q]] = 0
        BY <1>11, <2>3, <3>2, RootFacts
      <4>2. root[q] \notin fs
        BY <1>7, <2>3, <4>1, RootFacts
      <4>. QED
        BY <1>9, <1>11, <4>1, <4>2
    <3>. QED
      BY <3>1, <3>2
  <2>4. \A g \in free' : refs'[g] = 0
    BY <1>3, <1>10, <1>11, FreeFacts
  <2>. QED
    BY <2>1, <2>2, <2>3, <2>4 DEF RefCountExact, Sharers
<1>16. MappedInsideVma'
  <2>1. \A q \in Proc : VmaPages(q)' = IF q = c THEN VmaPages(p) ELSE VmaPages(q)
    BY <1>11 DEF VmaPages, Heap
  <2>. QED
    BY <1>1, <1>11, <2>1 DEF IInv, MappedInsideVma, Live
<1>17. OnlyLiveHold'
  BY <1>1, <1>8, <1>10, <1>11 DEF IInv, OnlyLiveHold
<1>18. NoneLost
  <2>1. Dead' = Dead
    BY <1>1, <1>11 DEF Dead
  <2>2. ASSUME NEW g \in Page, Used(g) PROVE Used(g)'
    <3>1. CASE g \in free
      <4>1. g \in new => \/ g = pml4
                         \/ \E t \in missP : tbP[t] = g
                         \/ \E t \in missC : tbC[t] = g
        BY <1>8, <1>10 DEF Injection, Range
      <4>2. CASE g \notin new
        BY <1>3, <3>1, <4>2 DEF Used
      <4>3. CASE g = pml4
        BY <1>11, <4>3 DEF Used
      <4>4. ASSUME NEW t \in missP, tbP[t] = g PROVE Used(g)'
        BY <1>5, <1>11, <4>4 DEF Used
      <4>5. ASSUME NEW t \in missC, tbC[t] = g PROVE Used(g)'
        BY <1>1, <1>5, <1>11, <4>5 DEF Used
      <4>. QED
        BY <4>1, <4>2, <4>3, <4>4, <4>5
    <3>2. CASE g \notin free
      BY <1>1, <1>5, <1>6, <1>11, <2>2, <3>2, PageAssumption DEF Used
    <3>. QED
      BY <3>1, <3>2
  <2>3. ASSUME NEW g \in Page, Used(g)' PROVE Used(g)
    <3>1. CASE g \in free'
      BY <1>3, <3>1 DEF Used
    <3>2. ASSUME NEW q \in Proc, root'[q] = g PROVE Used(g)
      BY <1>8, <1>11, <3>2 DEF Used
    <3>3. ASSUME NEW q \in Proc, NEW v \in VA, map'[q][v] = g PROVE Used(g)
      BY <1>11, <3>3 DEF Used
    <3>4. ASSUME NEW q \in Proc, NEW t \in Table, tables'[q][t] = g PROVE Used(g)
      BY <1>9, <1>11, <3>4 DEF Used
    <3>. QED
      BY <2>3, <3>1, <3>2, <3>3, <3>4 DEF Used
  <2>. QED
    BY <2>1, <2>2, <2>3 DEF NoneLost
<1>19. StaysIsolated
  <2>. SUFFICES ASSUME SoleWriters PROVE SoleWriters'
    BY DEF StaysIsolated
  <2>1. \A q \in Proc :
          /\ rw'[q] = IF q = c THEN {} ELSE IF q = p THEN rw[q] \ marked ELSE rw[q]
          /\ cow'[q] = IF q = c THEN marked ELSE IF q = p THEN cow[q] \cup marked ELSE cow[q]
    BY <1>1, <1>3 DEF IInv, TypeOK, ParentRw
  <2>2. /\ marked \cap Text = {}
        /\ \A v \in shared : v \in marked \/ v \in Text
    <3>1. heap[p] \in 0 .. HeapMax
      BY DEF IInv, TypeOK
    <3>2. Heap(heap[p]) \subseteq Heap(HeapMax)
      BY <3>1, LayoutAssumption, BoundAssumption DEF Heap
    <3>3. Writable(p) \cap Text = {}
      BY <3>2, LayoutAssumption DEF Writable
    <3>. QED
      BY <3>3 DEF marked, shared, Writable, VmaPages
  <2>3. NoTextWrites'
    BY <2>1, <2>2 DEF SoleWriters, NoTextWrites
  <2>4. ASSUME NEW q \in Proc, NEW r \in Proc, NEW u \in VA, NEW w \in VA, NEW g,
               q # r, u \in rw'[q], map'[q][u] = g, g # NoPage, map'[r][w] = g
        PROVE  FALSE
    <3>1. q # c /\ u \in rw[q] /\ map[q][u] = g
      BY <1>11, <2>1, <2>4
    <3>2. CASE r = c /\ q = p
      <4>1. u \in shared /\ u \notin marked
        BY <1>4, <2>1, <2>4, <3>1, <3>2
      <4>. QED
        BY <2>2, <3>1, <4>1 DEF SoleWriters, NoTextWrites
    <3>3. CASE r = c /\ q # p
      <4>1. map[p][w] = g
        BY <1>11, <2>4, <3>3
      <4>. QED
        BY <2>4, <3>1, <3>3, <4>1 DEF SoleWriters, Isolation
    <3>4. CASE r # c
      <4>1. map[r][w] = g
        BY <1>11, <2>4, <3>4
      <4>. QED
        BY <2>4, <3>1, <4>1 DEF SoleWriters, Isolation
    <3>. QED
      BY <3>2, <3>3, <3>4
  <2>. QED
    BY <2>3, <2>4 DEF SoleWriters, Isolation
<1>. QED
  BY <1>1, <1>12, <1>13, <1>14, <1>15, <1>16, <1>17, <1>18, <1>19 DEF IInv, NeverHangs

LEMMA ExecPreserves ==
  ASSUME IInv, NEW p \in Proc, Exec(p)
  PROVE  IInv' /\ NoneLost /\ StaysIsolated
<1> DEFINE miss  == Missing(p, VmaPages(p))
           stack == page_alloc({StackVA}, free)[StackVA]
           rest  == free \ {stack}
           tb    == page_alloc(miss, rest)
           gone  == Frames(p, RemovedPages(p))
           left  == [v \in VA |-> IF v \in RemovedPages(p) THEN NoPage ELSE map[p][v]]
           taken == {stack} \cup Range(tb)
<1>1. /\ status[p] = "alive"
      /\ CanAlloc(1 + Cardinality(miss))
      /\ hung' = (left[StackVA] # NoPage)
      /\ tables' = [tables EXCEPT ![p] = WithTables(@, tb)]
      /\ map' = [map EXCEPT ![p] = [left EXCEPT ![StackVA] = stack]]
      /\ rw' = [rw EXCEPT ![p] = (@ \ RemovedPages(p)) \cup {StackVA}]
      /\ cow' = [cow EXCEPT ![p] = @ \ RemovedPages(p)]
      /\ heap' = [heap EXCEPT ![p] = 0]
      /\ refs' = Share(Drop(refs, gone), taken)
      /\ free' = (free \cup Released(refs, gone)) \ taken
      /\ UNCHANGED <<status, root, kheap>>
  BY DEF Exec
<1>2. /\ VmaPages(p) \subseteq VA /\ RemovedPages(p) = VmaPages(p)
      /\ \A v \in VA : map[p][v] # NoPage => v \in RemovedPages(p)
      /\ StackVA \in VA
  BY <1>1, VmasInVA, LayoutAssumption DEF RemovedPages, IInv, MappedInsideVma, Live
<1>3. \A v \in VA : left[v] = NoPage
  BY <1>2
<1>4. miss \subseteq Table /\ \A t \in miss : tables[p][t] = NoPage
  BY <1>2, TableAssumption DEF Missing
<1>5. \A g : g \in gone <=> g # NoPage /\ \E v \in VA : map[p][v] = g
  BY <1>2 DEF Frames
<1> HIDE DEF miss, gone, left
<1>6. stack \in free /\ tb \in Injection(miss, rest)
  <2>1. /\ IsFiniteSet(miss) /\ IsFiniteSet(free)
        /\ Cardinality(miss) \in Nat /\ Cardinality(free) \in Nat
    BY <1>4, TableAssumption, PageAssumption, FS_Subset, FS_CardinalityType DEF IInv, TypeOK
  <2>2. 1 + Cardinality(miss) < Cardinality(free)
    BY <1>1 DEF CanAlloc
  <2>3. stack \in free
    BY <2>1, <2>2, OneFrame DEF CanAlloc
  <2>4. IsFiniteSet(rest) /\ Cardinality(rest) = Cardinality(free) - 1
    BY <2>1, <2>3, FS_RemoveElement
  <2>. QED
    BY <2>1, <2>2, <2>3, <2>4, AllocSucceeds
<1> HIDE DEF stack, tb
<1>7. /\ DOMAIN tb = miss /\ \A t \in miss : tb[t] \in Range(tb)
      /\ \A t, u \in miss : tb[t] = tb[u] => t = u
      /\ Range(tb) \subseteq free /\ stack \notin Range(tb)
  BY <1>6 DEF Injection, IsInjective, Range
<1>8. /\ taken \subseteq free /\ taken \subseteq Page /\ NoPage \notin taken
      /\ \A g \in taken : refs[g] = 0
      /\ \A g : g \in taken <=> g = stack \/ g \in Range(tb)
      /\ gone \subseteq Page /\ gone \cap free = {}
  <2>1. gone \subseteq Page /\ gone \cap free = {}
    BY <1>5, MappingFacts
  <2>2. taken \subseteq free
    BY <1>6, <1>7
  <2>. QED
    BY <2>1, <2>2, FreeFacts, PageAssumption
<1> HIDE DEF taken
<1>9. /\ \A q \in Proc, u \in VA : map'[q][u] =
           IF q # p THEN map[q][u] ELSE IF u = StackVA THEN stack ELSE NoPage
      /\ \A q \in Proc, t \in Table : tables'[q][t] =
           IF q = p /\ t \in miss THEN tb[t] ELSE tables[q][t]
      /\ \A q \in Proc : heap'[q] = IF q = p THEN 0 ELSE heap[q]
      /\ \A g \in Page : refs'[g] =
           IF g \in gone THEN refs[g] - 1 ELSE IF g \in taken THEN 1 ELSE refs[g]
      /\ hung' = FALSE
  <2>1. \A q \in Proc, u \in VA : map'[q][u] =
           IF q # p THEN map[q][u] ELSE IF u = StackVA THEN stack ELSE NoPage
    BY <1>1, <1>3 DEF IInv, TypeOK, left
  <2>2. \A q \in Proc, t \in Table : tables'[q][t] =
           IF q = p /\ t \in miss THEN tb[t] ELSE tables[q][t]
    BY <1>1, <1>7 DEF IInv, TypeOK, WithTables
  <2>3. \A q \in Proc : heap'[q] = IF q = p THEN 0 ELSE heap[q]
    BY <1>1 DEF IInv, TypeOK
  <2>4. \A g \in Page : refs'[g] =
           IF g \in gone THEN refs[g] - 1 ELSE IF g \in taken THEN 1 ELSE refs[g]
    BY <1>1, <1>8 DEF IInv, TypeOK, Share, Drop
  <2>. QED
    BY <1>1, <1>2, <1>3, <2>1, <2>2, <2>3, <2>4
<1>10. TypeOK'
  <2>1. map' \in [Proc -> [VA -> Page \cup {NoPage}]]
    BY <1>1, <1>3, <1>6, <1>8 DEF IInv, TypeOK, left
  <2>2. tables' \in [Proc -> [Table -> Page \cup {NoPage}]]
    BY <1>1, <1>7, <1>8 DEF IInv, TypeOK, WithTables
  <2>3. rw' \in [Proc -> SUBSET VA] /\ cow' \in [Proc -> SUBSET VA]
    BY <1>1, <1>2 DEF IInv, TypeOK
  <2>4. refs' \in [Page -> Int] /\ free' \in SUBSET Page
    BY <1>1, <1>8 DEF IInv, TypeOK, Share, Drop, Released
  <2>5. heap' \in [Proc -> 0 .. HeapMax]
    BY <1>1, BoundAssumption DEF IInv, TypeOK
  <2>. QED
    BY <1>1, <1>9, <2>1, <2>2, <2>3, <2>4, <2>5 DEF IInv, TypeOK
<1>11. NoAlias'
  <2>1. \A q \in Proc, u, w \in VA : map'[q][u] # NoPage /\ map'[q][u] = map'[q][w] => u = w
    BY <1>9, MappingFacts
  <2>2. \A q, r \in Proc, t, u \in Table :
          tables'[q][t] # NoPage /\ tables'[q][t] = tables'[r][u] => q = r /\ t = u
    BY <1>7, <1>9, TableFacts
  <2>. QED
    BY <1>1, <2>1, <2>2 DEF IInv, NoAlias
<1>12. ASSUME NEW q \in Proc, q # p, NEW u \in VA, NEW g, g = map[q][u], g # NoPage
       PROVE  g \in Page /\ g \notin taken /\ g \notin free' /\ refs'[g] = Cardinality(Sharers(g)')
  <2>1. /\ g \in Page /\ g \notin free /\ g \notin taken /\ q \in Sharers(g)
        /\ refs[g] = Cardinality(Sharers(g))
    BY <1>8, <1>12, MappingFacts
  <2>2. g \in gone <=> p \in Sharers(g)
    BY <1>5, <1>12 DEF Sharers
  <2>3. Sharers(g)' = Sharers(g) \ {p}
    BY <1>8, <1>9, <1>12, <2>1 DEF Sharers
  <2>4. Cardinality(Sharers(g) \ {p}) =
          IF p \in Sharers(g) THEN Cardinality(Sharers(g)) - 1 ELSE Cardinality(Sharers(g))
    BY SharersFinite, FS_RemoveElement
  <2>5. refs'[g] = Cardinality(Sharers(g)')
    BY <1>9, <2>1, <2>2, <2>3, <2>4
  <2>6. g \notin Released(refs, gone)
    BY <1>12, <2>1, <2>2, SharersFinite, TwoSharers DEF Released
  <2>. QED
    BY <1>1, <2>1, <2>5, <2>6
<1>13. \A g : g \in free' => g \in free \/ g \in gone
  BY <1>1 DEF Released
<1>14. FrameExclusive'
  <2>1. ASSUME NEW q \in Proc, NEW u \in VA, NEW g, g = map'[q][u], g # NoPage
        PROVE  /\ g \notin free'
               /\ \A r \in Proc : g # root'[r]
               /\ \A r \in Proc, t \in Table : g # tables'[r][t]
    <3>1. CASE q = p
      <4>1. g = stack /\ g \in free /\ g \in taken
        BY <1>6, <1>8, <1>9, <2>1, <3>1
      <4>2. \A r \in Proc, t \in Table : g # tables'[r][t]
        BY <1>7, <1>9, <4>1, FreeFacts
      <4>. QED
        BY <1>1, <4>1, <4>2, FreeFacts
    <3>2. CASE q # p
      <4>1. g = map[q][u] /\ g \notin free' /\ g \notin taken
        BY <1>9, <1>12, <2>1, <3>2
      <4>2. /\ \A r \in Proc : g # root[r]
            /\ \A r \in Proc, t \in Table : g # tables[r][t]
        BY <2>1, <4>1, MappingFacts
      <4>3. \A r \in Proc, t \in Table : g # tables'[r][t]
        BY <1>7, <1>8, <1>9, <4>1, <4>2
      <4>. QED
        BY <1>1, <4>1, <4>2, <4>3
    <3>. QED
      BY <3>1, <3>2
  <2>2. ASSUME NEW q \in Proc, NEW t \in Table, NEW g, g = tables'[q][t], g # NoPage
        PROVE  g \notin free' /\ \A r \in Proc : g # root'[r]
    <3>1. CASE g = tables[q][t]
      <4>1. g \notin free /\ g \notin gone /\ \A r \in Proc : g # root[r]
        BY <1>5, <2>2, <3>1, TableFacts
      <4>. QED
        BY <1>1, <1>13, <4>1
    <3>2. CASE g # tables[q][t]
      <4>1. g \in taken /\ g \in free
        BY <1>7, <1>8, <1>9, <2>2, <3>2
      <4>. QED
        BY <1>1, <4>1, FreeFacts
    <3>. QED
      BY <3>1, <3>2
  <2>3. ASSUME NEW q \in Proc
        PROVE  root'[q] \notin free'
    <3>1. CASE root[q] = NoPage
      BY <1>1, <1>8, <1>13, <3>1, PageAssumption DEF IInv, TypeOK
    <3>2. CASE root[q] # NoPage
      <4>1. root[q] \notin free /\ root[q] \notin gone
        BY <1>5, <3>2, RootFacts
      <4>. QED
        BY <1>1, <1>13, <4>1
    <3>. QED
      BY <3>1, <3>2
  <2>. QED
    BY <2>1, <2>2, <2>3 DEF FrameExclusive
<1>15. RefCountExact'
  <2>1. ASSUME NEW q \in Proc, NEW u \in VA, NEW g, g = map'[q][u], g # NoPage
        PROVE  refs'[g] = Cardinality(Sharers(g)')
    <3>1. CASE q = p
      <4>1. g = stack /\ g \in free /\ g \in taken /\ g \in Page /\ g \notin gone
        BY <1>6, <1>8, <1>9, <2>1, <3>1
      <4>2. Sharers(g)' = {p}
        BY <1>2, <1>9, <2>1, <3>1, <4>1, FreeFacts DEF Sharers
      <4>. QED
        BY <1>9, <4>1, <4>2, FS_Singleton
    <3>2. CASE q # p
      BY <1>9, <1>12, <2>1, <3>2
    <3>. QED
      BY <3>1, <3>2
  <2>2. ASSUME NEW q \in Proc, NEW t \in Table, NEW g, g = tables'[q][t], g # NoPage
        PROVE  refs'[g] = 1
    <3>1. CASE g = tables[q][t]
      <4>1. g \in Page /\ g \notin gone /\ g \notin free /\ refs[g] = 1
        BY <1>5, <2>2, <3>1, TableFacts
      <4>. QED
        BY <1>9, <4>1
    <3>2. CASE g # tables[q][t]
      BY <1>7, <1>8, <1>9, <2>2, <3>2
    <3>. QED
      BY <3>1, <3>2
  <2>3. ASSUME NEW q \in Proc, root'[q] # NoPage
        PROVE  refs'[root'[q]] = 0
    <3>1. root[q] \in Page /\ root[q] \notin free /\ root[q] \notin gone /\ refs[root[q]] = 0
      BY <1>1, <1>5, <2>3, RootFacts
    <3>. QED
      BY <1>1, <1>8, <1>9, <3>1
  <2>4. ASSUME NEW g \in free' PROVE refs'[g] = 0
    <3>1. CASE g \in free
      BY <1>1, <1>8, <1>9, <2>4, <3>1, FreeFacts
    <3>2. CASE g \notin free
      BY <1>1, <1>8, <1>9, <2>4, <3>2 DEF Released
    <3>. QED
      BY <3>1, <3>2
  <2>. QED
    BY <2>1, <2>2, <2>3, <2>4 DEF RefCountExact, Sharers
<1>16. MappedInsideVma'
  <2>1. \A q \in Proc : q # p => VmaPages(q)' = VmaPages(q)
    BY <1>9 DEF VmaPages, Heap
  <2>2. StackVA \in VmaPages(p)'
    BY DEF VmaPages
  <2>. QED
    BY <1>1, <1>9, <2>1, <2>2 DEF IInv, MappedInsideVma, Live
<1>17. OnlyLiveHold'
  BY <1>1, <1>9 DEF IInv, OnlyLiveHold
<1>18. NoneLost
  <2>1. Dead' = Dead
    BY <1>1 DEF Dead
  <2>2. ASSUME NEW g \in Page, Used(g) PROVE Used(g)'
    <3>1. CASE g \in free
      <4>1. g \in taken => g = stack \/ \E t \in miss : tb[t] = g
        BY <1>6, <1>8, InjectionFacts
      <4>. QED
        BY <1>1, <1>2, <1>4, <1>9, <3>1, <4>1 DEF Used
    <3>2. CASE \E q \in Proc : q # p /\ \E v \in VA : map[q][v] = g
      BY <1>9, <3>2 DEF Used
    <3>3. CASE Sharers(g) = {p}
      <4>1. PICK v \in VA : map[p][v] = g
        BY <3>3 DEF Sharers
      <4>2. g # NoPage /\ g \in gone /\ g \notin taken
        BY <1>5, <1>8, <4>1, PageAssumption
      <4>3. refs[g] = Cardinality(Sharers(g))
        BY <4>1, <4>2, MappingFacts
      <4>4. refs[g] = 1
        BY <3>3, <4>3, FS_Singleton
      <4>. QED
        BY <1>1, <4>2, <4>4 DEF Used, Released
    <3>4. CASE \E q \in Proc : root[q] = g \/ \E t \in Table : tables[q][t] = g
      BY <1>1, <1>4, <1>9, <3>4, PageAssumption DEF Used
    <3>. QED
      BY <2>2, <3>1, <3>2, <3>3, <3>4 DEF Used, Sharers
  <2>3. ASSUME NEW g \in Page, Used(g)' PROVE Used(g)
    <3>1. CASE g \in free'
      BY <1>5, <1>13, <3>1 DEF Used
    <3>2. CASE g \notin free'
      BY <1>1, <1>6, <1>7, <1>9, <2>3, <3>2, PageAssumption DEF Used
    <3>. QED
      BY <3>1, <3>2
  <2>. QED
    BY <2>1, <2>2, <2>3 DEF NoneLost
<1>19. StaysIsolated
  <2>. SUFFICES ASSUME SoleWriters PROVE SoleWriters'
    BY DEF StaysIsolated
  <2>1. \A q \in Proc :
          /\ q # p => rw'[q] = rw[q]
          /\ rw'[q] \subseteq rw[q] \cup {StackVA}
          /\ cow'[q] \subseteq cow[q]
    BY <1>1 DEF IInv, TypeOK
  <2>2. NoTextWrites'
    BY <2>1, LayoutAssumption DEF SoleWriters, NoTextWrites
  <2>3. ASSUME NEW q \in Proc, NEW r \in Proc, NEW u \in VA, NEW w \in VA, NEW g,
               q # r, u \in rw'[q], map'[q][u] = g, g # NoPage, map'[r][w] = g
        PROVE  FALSE
    <3>1. CASE q = p
      <4>1. g \in free /\ map[r][w] = g
        BY <1>6, <1>9, <2>3, <3>1
      <4>. QED
        BY <4>1, FreeFacts
    <3>2. CASE r = p
      <4>1. g \in free /\ map[q][u] = g
        BY <1>6, <1>9, <2>3, <3>2
      <4>. QED
        BY <4>1, FreeFacts
    <3>3. CASE q # p /\ r # p
      BY <1>9, <2>1, <2>3, <3>3 DEF SoleWriters, Isolation
    <3>. QED
      BY <3>1, <3>2, <3>3
  <2>. QED
    BY <2>2, <2>3 DEF SoleWriters, Isolation
<1>. QED
  BY <1>9, <1>10, <1>11, <1>14, <1>15, <1>16, <1>17, <1>18, <1>19 DEF IInv, NeverHangs

-----------------------------------------------------------------------------
(* The theorems.                                                           *)

LEMMA InitEstablishes == Init => IInv
<1>. SUFFICES ASSUME Init PROVE IInv
  OBVIOUS
<1>1. TypeOK
  <2>1. 0 \in 0 .. HeapMax
    BY BoundAssumption
  <2>2. status \in [Proc -> {"unused", "created", "alive", "dead"}]
    BY DEF Init
  <2>3. heap \in [Proc -> 0 .. HeapMax]
    BY <2>1 DEF Init
  <2>4. map \in [Proc -> [VA -> Page \cup {NoPage}]]
    BY DEF Init, NoMap
  <2>5. rw \in [Proc -> SUBSET VA] /\ cow \in [Proc -> SUBSET VA]
    BY DEF Init
  <2>6. tables \in [Proc -> [Table -> Page \cup {NoPage}]]
    BY DEF Init, NoTables
  <2>7. root \in [Proc -> Page \cup {NoPage}] /\ refs \in [Page -> Int]
    BY DEF Init
  <2>8. free \in SUBSET Page /\ kheap \in Nat /\ hung \in BOOLEAN
    BY DEF Init
  <2>. QED
    BY <2>2, <2>3, <2>4, <2>5, <2>6, <2>7, <2>8 DEF TypeOK
<1>2. /\ \A p \in Proc, v \in VA : map[p][v] = NoPage
      /\ \A p \in Proc, t \in Table : tables[p][t] = NoPage
      /\ \A p \in Proc : root[p] = NoPage /\ status[p] # "alive"
      /\ free = Page /\ hung = FALSE /\ \A g \in Page : refs[g] = 0
  BY DEF Init, NoMap, NoTables
<1>3. NoAlias /\ FrameExclusive
  BY <1>2, PageAssumption DEF NoAlias, FrameExclusive
<1>4. RefCountExact
  BY <1>2 DEF RefCountExact
<1>5. MappedInsideVma
  BY <1>2 DEF MappedInsideVma, Live
<1>6. OnlyLiveHold
  BY <1>2 DEF OnlyLiveHold, Init, NoMap, NoTables
<1>7. NeverHangs
  BY <1>2 DEF NeverHangs
<1>. QED
  BY <1>1, <1>3, <1>4, <1>5, <1>6, <1>7 DEF IInv

(* A step keeps the invariant, loses no frame or the pml4 page of one       *)
(* process, and while at most two processes live it keeps writers alone.   *)
Effect ==
  /\ NoneLost \/ \E p \in Proc : RootLost(p)
  /\ AtMostTwo => StaysIsolated

LEMMA StepPreserves == IInv /\ [Next]_vars => IInv' /\ Effect
<1>. SUFFICES ASSUME IInv, [Next]_vars PROVE IInv' /\ Effect
  OBVIOUS
<1> USE DEF Effect
<1>1. CASE UNCHANGED vars
  <2>1. \A g : Sharers(g)' = Sharers(g)
    BY <1>1 DEF vars, Sharers
  <2>2. RefCountExact'
    BY <1>1, <2>1 DEF vars, IInv, RefCountExact
  <2>3. TypeOK' /\ NoAlias' /\ FrameExclusive'
    BY <1>1 DEF vars, IInv, TypeOK, NoAlias, FrameExclusive
  <2>4. MappedInsideVma' /\ OnlyLiveHold' /\ NeverHangs'
    BY <1>1 DEF vars, IInv, MappedInsideVma, OnlyLiveHold, NeverHangs, Live, VmaPages, Heap
  <2>5. NoneLost
    BY <1>1 DEF vars, NoneLost, Used, Dead
  <2>6. StaysIsolated
    BY <1>1 DEF vars, StaysIsolated, SoleWriters, NoTextWrites, Isolation
  <2>. QED
    BY <2>2, <2>3, <2>4, <2>5, <2>6 DEF IInv
<1>2. ASSUME NEW p \in Proc, Build(p) PROVE IInv' /\ Effect
  BY <1>2, BuildPreserves
<1>3. ASSUME NEW p \in Proc, Exit(p) PROVE IInv' /\ Effect
  BY <1>3, DeletePreserves DEF Exit, IInv, TypeOK
<1>4. ASSUME NEW p \in Proc, Exec(p) PROVE IInv' /\ Effect
  BY <1>4, ExecPreserves
<1>5. ASSUME NEW p \in Proc, NEW n \in 0 .. HeapMax, Brk(p, n) PROVE IInv' /\ Effect
  BY <1>5, BrkPreserves
<1>6. ASSUME NEW p \in Proc, NEW c \in Proc, Fork(p, c) PROVE IInv' /\ Effect
  BY <1>6, ForkPreserves
<1>7. ASSUME NEW p \in Proc, NEW v \in VA, CowFault(p, v) PROVE IInv' /\ Effect
  BY <1>7, CowFaultPreserves
<1>8. ASSUME NEW p \in Proc, NEW v \in VA, NEW off \in Offset, NEW write \in BOOLEAN,
             FaultKill(p, v, off, write)
      PROVE  IInv' /\ Effect
  BY <1>8, DeletePreserves DEF FaultKill, IInv, TypeOK
<1>9. ASSUME NEW p \in Proc, NEW v \in VA, NEW off \in Offset, NEW write \in BOOLEAN,
             FaultAlloc(p, v, off, write)
      PROVE  IInv' /\ Effect
  BY <1>9, FaultAllocPreserves
<1>. QED
  BY <1>1, <1>2, <1>3, <1>4, <1>5, <1>6, <1>7, <1>8, <1>9 DEF Next

(* The inductive invariant holds in every reachable state. *)
THEOREM Invariance == Spec => []IInv
BY InitEstablishes, StepPreserves, PTL DEF Spec

(* Every variable keeps its type. *)
THEOREM TypeCorrect == Spec => []TypeOK
<1>1. IInv => TypeOK
  BY DEF IInv
<1>. QED
  BY <1>1, Invariance, PTL

(* The count copy_on_write_handler branches on is the number of sharers,   *)
(* and a frame on the free list has count 0.                               *)
THEOREM RefCountsAreExact == Spec => []RefCountExact
<1>1. IInv => RefCountExact
  BY DEF IInv
<1>. QED
  BY <1>1, Invariance, PTL

(* page_alloc hands out only frames nothing uses: no frame is free and      *)
(* used, nor used in two roles.                                            *)
THEOREM FramesAreExclusive == Spec => []FrameExclusive
<1>1. IInv => FrameExclusive
  BY DEF IInv
<1>. QED
  BY <1>1, Invariance, PTL

(* A frame backs one page of a process, and page-table pages are private.  *)
THEOREM NeverAliased == Spec => []NoAlias
<1>1. IInv => NoAlias
  BY DEF IInv
<1>. QED
  BY <1>1, Invariance, PTL

(* Unmapping the pages of the VMAs, as vma_remove_for_process does, unmaps *)
(* everything.                                                             *)
THEOREM VmasCoverMappings == Spec => []MappedInsideVma
<1>1. IInv => MappedInsideVma
  BY DEF IInv
<1>. QED
  BY <1>1, Invariance, PTL

(* page_insert never meets a mapped entry, so its while(1) is unreachable. *)
THEOREM InsertNeverHangs == Spec => []NeverHangs
<1>1. IInv => NeverHangs
  BY DEF IInv
<1>. QED
  BY <1>1, Invariance, PTL
-----------------------------------------------------------------------------
(* What leaks.                                                             *)

LEMMA LostIsUnused ==
  /\ \A g : g \in Lost <=> g \in Page /\ ~Used(g)
  /\ \A g : g \in Lost' <=> g \in Page /\ ~Used(g)'
<1>1. \A g : g \in Lost <=> g \in Page /\ ~Used(g)
  BY PageAssumption DEF Lost, DataFrames, AllTables, Roots, Frames, TableFrames, Used
<1>2. \A g : g \in Lost' <=> g \in Page /\ ~Used(g)'
  BY PageAssumption DEF Lost, DataFrames, AllTables, Roots, Frames, TableFrames, Used
<1>. QED
  BY <1>1, <1>2

(* No call and no fault loses a frame a process mapped or a page-table      *)
(* page; all that a death may lose is the pml4 page of the process that     *)
(* dies.                                                                    *)
THEOREM OnlyRootsAreLost == Spec => LosesRootsOnly
<1>1. ASSUME IInv, [Next]_vars
      PROVE  Lost' \ Lost \subseteq {root[p] : p \in Dead' \ Dead}
  <2>1. CASE NoneLost
    BY <2>1, LostIsUnused DEF NoneLost
  <2>2. ASSUME NEW p \in Proc, RootLost(p)
        PROVE  Lost' \ Lost \subseteq {root[q] : q \in Dead' \ Dead}
    <3>1. Lost' \ Lost \subseteq {root[p]}
      BY <2>2, LostIsUnused DEF RootLost
    <3>2. p \in Dead' \ Dead
      BY <2>2 DEF RootLost
    <3>. QED
      BY <3>1, <3>2
  <2>. QED
    BY <1>1, <2>1, <2>2, StepPreserves DEF Effect
<1>. QED
  BY <1>1, Invariance, PTL DEF Spec, LosesRootsOnly
-----------------------------------------------------------------------------
(* Who can write.                                                          *)

LiveBounded == IsFiniteSet(Live) /\ Cardinality(Live) <= MaxLive

LEMMA LiveStep ==
  ASSUME IInv, LiveBounded, [Next]_vars
  PROVE  LiveBounded'
<1>1. ASSUME NEW p \in Proc, status' = [status EXCEPT ![p] = "alive"], Cardinality(Live) < MaxLive
      PROVE  LiveBounded'
  <2>1. Live' = Live \cup {p}
    BY <1>1 DEF Live, IInv, TypeOK
  <2>2. /\ IsFiniteSet(Live') /\ Cardinality(Live) \in Nat
        /\ Cardinality(Live') \in {Cardinality(Live), Cardinality(Live) + 1}
    BY <2>1, FS_AddElement, FS_CardinalityType DEF LiveBounded
  <2>. QED
    BY <1>1, <2>2, BoundAssumption DEF LiveBounded
<1>2. ASSUME NEW p \in Proc, delete_process(p)
      PROVE  LiveBounded'
  <2>1. Live' \subseteq Live
    BY <1>2 DEF delete_process, Live, IInv, TypeOK
  <2>2. /\ IsFiniteSet(Live') /\ Cardinality(Live') <= Cardinality(Live)
        /\ Cardinality(Live') \in Nat /\ Cardinality(Live) \in Nat
    BY <2>1, FS_Subset, FS_CardinalityType DEF LiveBounded
  <2>. QED
    BY <2>2, BoundAssumption DEF LiveBounded
<1>3. CASE status' = status
  BY <1>3 DEF LiveBounded, Live
<1>4. CASE UNCHANGED vars
  BY <1>3, <1>4 DEF vars
<1>5. ASSUME NEW p \in Proc, Build(p) PROVE LiveBounded'
  BY <1>1, <1>5 DEF Build
<1>6. ASSUME NEW p \in Proc, NEW c \in Proc, Fork(p, c) PROVE LiveBounded'
  BY <1>1, <1>6 DEF Fork
<1>7. ASSUME NEW p \in Proc, Exit(p) PROVE LiveBounded'
  BY <1>2, <1>7 DEF Exit
<1>8. ASSUME NEW p \in Proc, Exec(p) PROVE LiveBounded'
  BY <1>3, <1>8 DEF Exec
<1>9. ASSUME NEW p \in Proc, NEW n \in 0 .. HeapMax, Brk(p, n) PROVE LiveBounded'
  BY <1>3, <1>9 DEF Brk
<1>10. ASSUME NEW p \in Proc, NEW v \in VA, CowFault(p, v) PROVE LiveBounded'
  <2>1. delete_process(p) \/ status' = status
    BY <1>10 DEF CowFault, CowCopy, CowInPlace, CowNoBuffer, CowIgnored
  <2>. QED
    BY <1>2, <1>3, <2>1
<1>11. ASSUME NEW p \in Proc, NEW v \in VA, NEW off \in Offset, NEW write \in BOOLEAN,
              FaultKill(p, v, off, write)
       PROVE  LiveBounded'
  BY <1>2, <1>11 DEF FaultKill
<1>12. ASSUME NEW p \in Proc, NEW v \in VA, NEW off \in Offset, NEW write \in BOOLEAN,
              FaultAlloc(p, v, off, write)
       PROVE  LiveBounded'
  BY <1>3, <1>12 DEF FaultAlloc
<1>. QED
  BY <1>4, <1>5, <1>6, <1>7, <1>8, <1>9, <1>10, <1>11, <1>12 DEF Next

(* While at most two processes are alive, a frame a process can write      *)
(* without a fault is mapped by it alone: the counts copy_on_write_handler *)
(* branches on are then 1 or 2, and a page made writable in place had one. *)
THEOREM WritersAreAlone ==
  ASSUME MaxLive <= 2
  PROVE  Spec => []Isolation
<1> DEFINE Inv == IInv /\ LiveBounded /\ SoleWriters
<1>1. Init => Inv
  <2>. SUFFICES ASSUME Init PROVE Inv
    OBVIOUS
  <2>1. Live = {}
    BY DEF Init, Live
  <2>2. LiveBounded
    BY <2>1, FS_EmptySet, BoundAssumption DEF LiveBounded
  <2>3. SoleWriters
    BY DEF Init, SoleWriters, NoTextWrites, Isolation
  <2>. QED
    BY <2>2, <2>3, InitEstablishes
<1>2. Inv /\ [Next]_vars => Inv'
  <2>. SUFFICES ASSUME Inv, [Next]_vars PROVE Inv'
    OBVIOUS
  <2>1. AtMostTwo
    BY BoundAssumption, FS_CardinalityType DEF LiveBounded, AtMostTwo
  <2>2. IInv' /\ Effect
    BY StepPreserves
  <2>3. LiveBounded'
    BY LiveStep
  <2>. QED
    BY <2>1, <2>2, <2>3 DEF Effect, StaysIsolated
<1>3. Inv => Isolation
  BY DEF SoleWriters
<1>. QED
  BY <1>1, <1>2, <1>3, PTL DEF Spec
=============================================================================
