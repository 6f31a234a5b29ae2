---------------------------- MODULE MemoryProofs ----------------------------
(***************************************************************************)
(* What holds of Memory for every set of processes, every page size, every *)
(* layout of the address space and all programs that ld could lay out: the *)
(* VMAs of a process ascend, the blocks malloc gives out do not overlap,   *)
(* and no VMA is lost or freed twice.                                      *)
(*                                                                         *)
(* VmasApart is not inductive.  One must know, while a program is being    *)
(* loaded, that the sections still to come lie beyond the end of every VMA *)
(* but the last, so that check_vma can only find the last; and, once it is *)
(* loaded, that the last two VMAs are the heap and the stack.  BlocksApart *)
(* needs the nodes of malloc: they lie one behind the other up to          *)
(* heap_end, and each block held has a node of its own that is not free.   *)
(* The last part is about page faults (ServedInvariance).                  *)
(***************************************************************************)
EXTENDS Memory, NatSets, FiniteSetTheorems, SequenceTheorems

AnyVma == [start : Nat, end : Nat, flags : {1, 2, 3, 5, 7}]
AnyNode == [size : Nat, mem_ptr : Nat, isFree : BOOLEAN]
AnyBlock == [ptr : Nat, size : Nat]

(* Whole pages. *)
Aligned(v) == v.start % PageSize = 0 /\ v.end % PageSize = 0 /\ v.start <= v.end
BelowHeap(v) == Aligned(v) /\ v.start < UHeapStart /\ v.end <= UHeapStart

Ascending(l) == \A i, j \in 1 .. Len(l) : i < j => l[i].end <= l[j].start

(* The VMAs made of the sections of prog before next. *)
PartlyBuilt(l, prog, next) ==
  /\ next \in 1 .. Len(prog) + 1
  /\ Ascending(l)
  /\ \A i \in 1 .. Len(l) :
       /\ BelowHeap(l[i])
       /\ \A m \in next .. Len(prog) :
            /\ l[i].start <= prog[m].addr
            /\ i < Len(l) => l[i].end < prog[m].addr

(* The VMAs of a process that runs. *)
Built(l) ==
  /\ Len(l) >= 2
  /\ Ascending(l)
  /\ \A i \in 1 .. Len(l) - 2 : BelowHeap(l[i])
  /\ l[Len(l) - 1].start = UHeapStart
  /\ Aligned(l[Len(l) - 1]) /\ l[Len(l) - 1].end <= UHeapLimit
  /\ l[Len(l)] = StackVma

(* The heap with nodes ns, heap_end top, blocks bs, in a VMA that ends at e. *)
HeapSound(ns, top, bs, e) ==
  /\ top # 0 => UHeapStart <= top /\ top <= e
  /\ \A i \in 1 .. Len(ns) :
       /\ UHeapStart <= ns[i].mem_ptr /\ ns[i].size >= 1
       /\ ns[i].mem_ptr + ns[i].size <= top
       /\ \A j \in 1 .. Len(ns) : i < j => ns[i].mem_ptr + ns[i].size <= ns[j].mem_ptr
  /\ \A k \in 1 .. Len(bs) : \E i \in 1 .. Len(ns) :
       bs[k].ptr = ns[i].mem_ptr /\ bs[k].size <= ns[i].size /\ ~ns[i].isFree
  /\ \A k, m \in 1 .. Len(bs) : k # m => bs[k].ptr # bs[m].ptr

NoHeap(p) == nodes[p] = <<>> /\ heap_end[p] = 0 /\ blocks[p] = <<>>

Good(p) ==
  IF program[p] = <<>> THEN building.proc # p /\ list[p] = <<>> /\ NoHeap(p)
  ELSE IF building.proc = p
  THEN PartlyBuilt(list[p], program[p], building.next) /\ NoHeap(p)
  ELSE /\ Built(list[p])
       /\ HeapSound(nodes[p], heap_end[p], blocks[p], list[p][Len(list[p]) - 1].end)

(* TypeOK without the bound of free, which NoVmaLost gives.   *)
Typed ==
  /\ list \in [Procs -> Seq(AnyVma)]
  /\ free \in Nat
  /\ program \in [Procs -> Programs \cup {<<>>}]
  /\ building \in [proc : Procs \cup {NoProc}, next : Nat, exec : BOOLEAN]
  /\ mapped \in [Procs -> SUBSET Nat] /\ stored \in [Procs -> SUBSET Nat]
  /\ nodes \in [Procs -> Seq(AnyNode)]
  /\ heap_end \in [Procs -> Nat]
  /\ blocks \in [Procs -> Seq(AnyBlock)]

IInv == Typed /\ \A p \in Procs : Good(p)

-----------------------------------------------------------------------------
(* Arithmetic.                                                             *)

(* Division by the page size.                                               *)
LEMMA Quotient ==
  ASSUME NEW a \in Nat
  PROVE  /\ a % PageSize \in 0 .. PageSize - 1 /\ a \div PageSize \in Nat
         /\ a = PageSize * (a \div PageSize) + (a % PageSize)
BY SizesAssumption

(* A multiple of the page size is the address of a page.                    *)
LEMMA MultipleMod == ASSUME NEW k \in Nat PROVE (PageSize * k) % PageSize = 0
BY SizesAssumption

(* The next multiple of the page size is a whole page further.              *)
LEMMA NextMultiple ==
  ASSUME NEW i \in Nat, NEW k \in Nat, PageSize * i < PageSize * k
  PROVE  PageSize * i + PageSize <= PageSize * k
<1> PageSize \in Nat /\ PageSize > 0
  BY SizesAssumption
<1>1. CASE i < k
  <2>1. i + 1 <= k
    BY <1>1
  <2>2. PICK d \in Nat : k = i + 1 + d
    <3>1. k - (i + 1) \in Nat /\ k = i + 1 + (k - (i + 1))
      BY <2>1
    <3> QED BY <3>1
  <2>3. PageSize * k = PageSize * i + PageSize + PageSize * d /\ PageSize * d \in Nat
    BY <2>2
  <2> QED BY <2>3
<1>2. CASE k <= i
  <2>1. PICK d \in Nat : i = k + d
    <3>1. i - k \in Nat /\ i = k + (i - k)
      BY <1>2
    <3> QED BY <3>1
  <2>2. PageSize * i = PageSize * k + PageSize * d /\ PageSize * d \in Nat
    BY <2>1
  <2>3. PageSize * i \in Nat /\ PageSize * k \in Nat
    OBVIOUS
  <2> QED BY <2>2, <2>3
<1> QED BY <1>1, <1>2

(* Rounding down, and what is known of a page boundary e below a. *)
LEMMA RoundDown ==
  ASSUME NEW a \in Nat
  PROVE  /\ AlignDown(a) \in Nat /\ AlignDown(a) <= a /\ AlignDown(a) % PageSize = 0
         /\ a < AlignDown(a) + PageSize
         /\ \A e \in Nat : e % PageSize = 0 /\ e <= a => e <= AlignDown(a)
<1> PageSize \in Nat /\ PageSize > 0
  BY SizesAssumption
<1> DEFINE k == a \div PageSize
<1>1. k \in Nat /\ AlignDown(a) = PageSize * k /\ AlignDown(a) <= a /\ a < AlignDown(a) + PageSize
  BY Quotient DEF AlignDown
<1>2. AlignDown(a) \in Nat /\ AlignDown(a) % PageSize = 0
  BY <1>1, MultipleMod
<1>3. ASSUME NEW e \in Nat, e % PageSize = 0, e <= a PROVE e <= AlignDown(a)
  <2>1. e \div PageSize \in Nat /\ e = PageSize * (e \div PageSize)
    BY <1>3, Quotient
  <2>2. CASE PageSize * k < PageSize * (e \div PageSize)
    <3>1. PageSize * k + PageSize <= PageSize * (e \div PageSize)
      BY <1>1, <2>1, <2>2, NextMultiple
    <3> QED BY <1>1, <1>2, <1>3, <2>1, <3>1
  <2> QED BY <1>1, <1>2, <2>1, <2>2
<1> QED BY <1>1, <1>2, <1>3

(* Rounding up, and what is known of a page boundary e above a. *)
LEMMA RoundUp ==
  ASSUME NEW a \in Nat
  PROVE  /\ AlignUp(a) \in Nat /\ a <= AlignUp(a) /\ AlignUp(a) % PageSize = 0
         /\ \A e \in Nat : e % PageSize = 0 /\ a <= e => AlignUp(a) <= e
<1> PageSize \in Nat /\ PageSize > 0
  BY SizesAssumption
<1>1. CASE a % PageSize = 0
  BY <1>1 DEF AlignUp
<1>2. CASE a % PageSize # 0
  <2> DEFINE k == a \div PageSize
  <2>1. k \in Nat /\ a = PageSize * k + (a % PageSize) /\ a % PageSize \in 0 .. PageSize - 1
    BY Quotient
  <2>2. PageSize * k \in Nat /\ PageSize * (k + 1) = PageSize * k + PageSize
    BY <2>1
  <2>3. AlignUp(a) = PageSize * (k + 1)
    BY <1>2, <2>1, <2>2 DEF AlignUp, AlignDown
  <2>4. AlignUp(a) \in Nat /\ a <= AlignUp(a) /\ AlignUp(a) % PageSize = 0
    BY <2>1, <2>2, <2>3, MultipleMod
  <2>5. ASSUME NEW e \in Nat, e % PageSize = 0, a <= e PROVE AlignUp(a) <= e
    <3>1. e \div PageSize \in Nat /\ e = PageSize * (e \div PageSize)
      BY <2>5, Quotient
    <3>2. PageSize * k < PageSize * (e \div PageSize)
      BY <1>2, <2>1, <2>2, <2>5, <3>1
    <3>3. PageSize * k + PageSize <= PageSize * (e \div PageSize)
      BY <2>1, <3>1, <3>2, NextMultiple
    <3> QED BY <2>2, <2>3, <3>1, <3>3
  <2> QED BY <2>4, <2>5
<1> QED BY <1>1, <1>2

(* First(S) is the least element of a set of positions. *)
LEMMA FirstIsLeast ==
  ASSUME NEW S, S \subseteq Nat, S # {}
  PROVE  First(S) \in S /\ \A j \in S : First(S) <= j
BY LeastNatural DEF First

-----------------------------------------------------------------------------
(* Loading a program.                                                      *)

(* What ld guarantees of a program.                                         *)
LEMMA SectionFacts ==
  ASSUME NEW prog \in Programs
  PROVE  /\ Len(prog) \in Nat /\ Len(prog) >= 1 /\ prog # <<>>
         /\ \A i \in 1 .. Len(prog) :
              /\ prog[i].addr \in Nat /\ prog[i].size \in Nat /\ prog[i].size >= 1
              /\ prog[i].flags \in Nat
              /\ AlignUp(prog[i].addr + prog[i].size) < UHeapStart
         /\ \A i, j \in 1 .. Len(prog) : i < j => prog[i].addr + prog[i].size <= prog[j].addr
<1> DEFINE Sec == [addr : Nat, size : Nat \ {0}, flags : Nat]
<1>1. prog \in Seq(Sec) /\ Len(prog) >= 1
  BY ProgramsAssumption
<1>2. \A i \in 1 .. Len(prog) : prog[i] \in Sec
  <2> HIDE DEF Sec
  <2> QED BY <1>1, ElementOfSeq
<1>3. \A i \in 1 .. Len(prog) : AlignUp(prog[i].addr + prog[i].size) < UHeapStart
  BY ProgramsAssumption
<1>4. \A i, j \in 1 .. Len(prog) : i < j => prog[i].addr + prog[i].size <= prog[j].addr
  BY ProgramsAssumption
<1> QED BY <1>1, <1>2, <1>3, <1>4

(* A later section starts beyond an earlier one.                            *)
LEMMA LaterSection ==
  ASSUME NEW prog \in Programs, NEW n \in 1 .. Len(prog), NEW m \in n + 1 .. Len(prog)
  PROVE  /\ m \in 1 .. Len(prog) /\ m \in n .. Len(prog)
         /\ prog[m].addr \in Nat /\ prog[n].addr < prog[m].addr
<1>1. Len(prog) \in Nat /\ m \in 1 .. Len(prog) /\ m \in n .. Len(prog) /\ n < m
  BY SectionFacts
<1>2. prog[n].addr + prog[n].size <= prog[m].addr
  BY <1>1, SectionFacts
<1>3. prog[n].addr \in Nat /\ prog[n].size \in Nat /\ prog[n].size >= 1 /\ prog[m].addr \in Nat
  BY <1>1, SectionFacts
<1> QED BY <1>1, <1>2, <1>3

(* The VMA insert_vma makes lies below the heap. *)
LEMMA InsertedFacts ==
  ASSUME NEW prog \in Programs, NEW n \in 1 .. Len(prog)
  PROVE  /\ Inserted(prog[n]) \in AnyVma /\ BelowHeap(Inserted(prog[n]))
         /\ Inserted(prog[n]).start = AlignDown(prog[n].addr)
         /\ Inserted(prog[n]).start <= prog[n].addr
<1> DEFINE s == prog[n]
           end == AlignUp(s.addr + s.size)
<1>1. s.addr \in Nat /\ s.size \in Nat /\ end < UHeapStart
  BY SectionFacts
<1>2. s.addr + s.size \in Nat
  BY <1>1
<1>3. end \in Nat /\ s.addr + s.size <= end /\ end % PageSize = 0
  BY <1>2, RoundUp
<1>4. AlignDown(s.addr) \in Nat /\ AlignDown(s.addr) <= s.addr /\ AlignDown(s.addr) % PageSize = 0
  BY <1>1, RoundDown
<1>5. UHeapStart \in Nat
  BY SizesAssumption
<1>6. get_vma_flags(s.flags) \in {1, 2, 3, 5, 7}
  BY DEF get_vma_flags
<1> QED BY <1>1, <1>3, <1>4, <1>5, <1>6 DEF Inserted, Vma, AnyVma, BelowHeap, Aligned

(* insert_vma keeps the list fit for the sections still to come.            *)
LEMMA InsertKeeps ==
  ASSUME NEW prog \in Programs, NEW n \in 1 .. Len(prog), NEW l \in Seq(AnyVma),
         PartlyBuilt(l, prog, n), Matching(l, prog[n]) = {}
  PROVE  /\ Append(l, Inserted(prog[n])) \in Seq(AnyVma)
         /\ PartlyBuilt(Append(l, Inserted(prog[n])), prog, n + 1)
<1> DEFINE s == prog[n]
           v == Inserted(s)
           new == Append(l, v)
<1>1. v \in AnyVma /\ BelowHeap(v) /\ v.start = AlignDown(s.addr) /\ v.start <= s.addr
  BY InsertedFacts
<1>2. /\ new \in Seq(AnyVma) /\ Len(new) = Len(l) + 1 /\ Len(l) \in Nat
      /\ \A i \in 1 .. Len(l) : new[i] = l[i] /\ l[i] \in AnyVma
      /\ new[Len(l) + 1] = v
  BY <1>1, AppendProperties
<1>3. ASSUME NEW m \in n + 1 .. Len(prog)
      PROVE  m \in 1 .. Len(prog) /\ m \in n .. Len(prog) /\ prog[m].addr \in Nat /\ s.addr < prog[m].addr
  BY LaterSection
<1>4. s.addr \in Nat /\ n \in n .. Len(prog)
  BY SectionFacts
<1> HIDE DEF s, v, new
<1>5. ASSUME NEW i \in 1 .. Len(l)
      PROVE  /\ l[i].start \in Nat /\ l[i].end \in Nat /\ l[i].end % PageSize = 0 /\ BelowHeap(l[i])
             /\ l[i].end < s.addr /\ l[i].end <= v.start
  <2>1. l[i].start \in Nat /\ l[i].end \in Nat
    BY <1>2 DEF AnyVma
  <2>2. BelowHeap(l[i]) /\ l[i].start <= s.addr
    BY <1>4 DEF PartlyBuilt, s
  <2>3. l[i].end < s.addr
    BY <1>4, <2>1, <2>2 DEF Matching, s
  <2>4. l[i].end <= AlignDown(s.addr)
    BY <1>4, <2>1, <2>2, <2>3, RoundDown, SMTT(20) DEF BelowHeap, Aligned
  <2> QED BY <1>1, <2>1, <2>2, <2>3, <2>4 DEF BelowHeap, Aligned
<1>6. Ascending(new)
  <2> SUFFICES ASSUME NEW i \in 1 .. Len(new), NEW j \in 1 .. Len(new), i < j
               PROVE  new[i].end <= new[j].start
    BY DEF Ascending
  <2>1. CASE j = Len(l) + 1
    BY <1>2, <1>5, <2>1
  <2>2. CASE j # Len(l) + 1
    BY <1>2, <2>2, SMTT(20) DEF PartlyBuilt, Ascending
  <2> QED BY <2>1, <2>2
<1>7. ASSUME NEW i \in 1 .. Len(new)
      PROVE  /\ BelowHeap(new[i])
             /\ \A m \in n + 1 .. Len(prog) :
                  /\ new[i].start <= prog[m].addr
                  /\ i < Len(new) => new[i].end < prog[m].addr
  <2>1. CASE i = Len(l) + 1
    BY <1>1, <1>2, <1>3, <1>4, <2>1 DEF AnyVma
  <2>2. CASE i # Len(l) + 1
    <3>1. i \in 1 .. Len(l) /\ new[i] = l[i]
      BY <1>2, <2>2
    <3>2. l[i].start <= s.addr
      BY <1>4, <3>1 DEF PartlyBuilt, s
    <3> QED BY <1>3, <1>4, <1>5, <3>1, <3>2
  <2> QED BY <2>1, <2>2
<1>8. n + 1 \in 1 .. Len(prog) + 1
  BY SectionFacts
<1> QED BY <1>2, <1>6, <1>7, <1>8 DEF PartlyBuilt, new, v, s

(* check_vma finds no VMA but the last one. *)
LEMMA LastMatches ==
  ASSUME NEW prog \in Programs, NEW n \in 1 .. Len(prog), NEW l \in Seq(AnyVma),
         PartlyBuilt(l, prog, n), Matching(l, prog[n]) # {}
  PROVE  /\ First(Matching(l, prog[n])) = Len(l) /\ Len(l) \in 1 .. Len(l)
         /\ l[Len(l)].start <= prog[n].addr /\ prog[n].addr <= l[Len(l)].end
<1> DEFINE f == First(Matching(l, prog[n]))
<1>1. prog[n].addr \in Nat /\ n \in n .. Len(prog)
  BY SectionFacts
<1>2. Len(l) \in Nat /\ \A i \in 1 .. Len(l) : l[i] \in AnyVma
  OBVIOUS
<1>3. f \in 1 .. Len(l) /\ l[f].start <= prog[n].addr /\ prog[n].addr <= l[f].end
  <2>1. Matching(l, prog[n]) \subseteq Nat
    BY <1>2 DEF Matching
  <2> QED BY <2>1, FirstIsLeast DEF Matching
<1>4. l[f].end \in Nat
  BY <1>2, <1>3 DEF AnyVma
<1>5. f = Len(l)
  BY <1>1, <1>2, <1>3, <1>4 DEF PartlyBuilt
<1> QED BY <1>3, <1>5

(* check_vma finds the last VMA, and its growth stays below the heap.       *)
LEMMA MergeKeeps ==
  ASSUME NEW prog \in Programs, NEW n \in 1 .. Len(prog), NEW l \in Seq(AnyVma),
         PartlyBuilt(l, prog, n), Matching(l, prog[n]) # {},
         NEW new, new = [l EXCEPT ![First(Matching(l, prog[n]))] = Grown(@, prog[n])]
  PROVE  new \in Seq(AnyVma) /\ PartlyBuilt(new, prog, n + 1)
<1> DEFINE s == prog[n]
           f == First(Matching(l, s))
           g == Grown(l[f], s)
<1>1. s.addr \in Nat /\ s.size \in Nat /\ n \in n .. Len(prog) /\ AlignUp(s.addr + s.size) < UHeapStart
  BY SectionFacts
<1>2. Len(l) \in Nat /\ \A i \in 1 .. Len(l) : l[i] \in AnyVma
  OBVIOUS
<1>3. f = Len(l) /\ f \in 1 .. Len(l) /\ l[f].start <= s.addr /\ s.addr <= l[f].end
  BY LastMatches
<1>4. l[f].start \in Nat /\ l[f].end \in Nat /\ BelowHeap(l[f])
  BY <1>2, <1>3 DEF AnyVma, PartlyBuilt
<1>6. g \in AnyVma /\ BelowHeap(g) /\ g.start = l[f].start
  <2>1. s.addr + s.size \in Nat
    BY <1>1
  <2>2. /\ AlignUp(s.addr + s.size) \in Nat /\ AlignUp(s.addr + s.size) % PageSize = 0
        /\ s.addr + s.size <= AlignUp(s.addr + s.size)
    BY <2>1, RoundUp
  <2>3. UHeapStart \in Nat /\ l[f] \in AnyVma
    BY <1>2, <1>3, SizesAssumption
  <2>4. g.start = l[f].start /\ g.flags = l[f].flags /\ g \in AnyVma
    BY <2>2, <2>3 DEF Grown, AnyVma
  <2>5. g.end = IF s.addr + s.size > l[f].end THEN AlignUp(s.addr + s.size) ELSE l[f].end
    BY <2>3 DEF Grown, AnyVma
  <2> QED BY <1>1, <1>4, <2>1, <2>2, <2>3, <2>4, <2>5 DEF BelowHeap, Aligned
<1>7. /\ new \in Seq(AnyVma) /\ Len(new) = Len(l)
      /\ \A j \in 1 .. Len(l) : new[j] = IF j = f THEN g ELSE l[j]
  <2>1. new = [l EXCEPT ![f] = g]
    OBVIOUS
  <2>2. f \in 1 .. Len(l) /\ g \in AnyVma
    BY <1>3, <1>6
  <2> HIDE DEF f, g
  <2>3. /\ [l EXCEPT ![f] = g] \in Seq(AnyVma) /\ Len([l EXCEPT ![f] = g]) = Len(l)
        /\ \A j \in 1 .. Len(l) : [l EXCEPT ![f] = g][j] = IF j = f THEN g ELSE l[j]
    BY <2>2, ExceptSeq
  <2> QED BY <2>1, <2>3
<1>8. Ascending(new)
  BY <1>2, <1>3, <1>6, <1>7 DEF PartlyBuilt, Ascending
<1>9. ASSUME NEW i \in 1 .. Len(new), NEW m \in n + 1 .. Len(prog)
      PROVE  new[i].start <= prog[m].addr /\ (i < Len(new) => new[i].end < prog[m].addr)
  <2>1. m \in n .. Len(prog)
    BY SectionFacts
  <2>2. l[i].start <= prog[m].addr /\ (i < Len(l) => l[i].end < prog[m].addr)
    BY <1>7, <2>1 DEF PartlyBuilt
  <2> QED BY <1>2, <1>3, <1>6, <1>7, <2>2
<1>10. \A i \in 1 .. Len(new) : BelowHeap(new[i])
  BY <1>6, <1>7 DEF PartlyBuilt
<1>11. n + 1 \in 1 .. Len(prog) + 1
  BY SectionFacts
<1> QED BY <1>7, <1>8, <1>9, <1>10, <1>11 DEF PartlyBuilt

(* The layout of the address space.                                         *)
LEMMA AddressFacts ==
  /\ UHeapStart \in Nat /\ UHeapLimit \in Nat /\ UStackTop \in Nat /\ PageSize \in Nat /\ PageSize > 0
  /\ UHeapStart % PageSize = 0 /\ UHeapLimit % PageSize = 0
  /\ UHeapStart > 0 /\ UHeapStart < UHeapLimit /\ UHeapLimit < UStackTop - PageSize
  /\ UStackTop - PageSize \in Nat
<1>1. /\ UHeapStart \in Nat /\ UHeapLimit \in Nat /\ UStackTop \in Nat /\ UStackLimit \in Nat
      /\ UHeapStart % PageSize = 0 /\ UHeapLimit % PageSize = 0
  BY SizesAssumption
<1> QED BY <1>1, SizesAssumption

(* The VMAs that add_heap_vma and add_stack_vma make.                       *)
LEMMA HeapStackTypes == HeapVma \in AnyVma /\ StackVma \in AnyVma
BY AddressFacts DEF HeapVma, StackVma, Vma, AnyVma

(* With the heap and the stack behind its sections a process can run.       *)
LEMMA FinishKeeps ==
  ASSUME NEW prog \in Programs, NEW l \in Seq(AnyVma), PartlyBuilt(l, prog, Len(prog) + 1)
  PROVE  /\ Append(Append(l, HeapVma), StackVma) \in Seq(AnyVma)
         /\ Built(Append(Append(l, HeapVma), StackVma))
         /\ Append(Append(l, HeapVma), StackVma)[Len(l) + 1] = HeapVma
         /\ Len(Append(Append(l, HeapVma), StackVma)) = Len(l) + 2
<1> DEFINE one == Append(l, HeapVma)
           two == Append(one, StackVma)
<1>1. /\ one \in Seq(AnyVma) /\ Len(one) = Len(l) + 1 /\ Len(l) \in Nat
      /\ (\A i \in 1 .. Len(l) : one[i] = l[i]) /\ one[Len(l) + 1] = HeapVma
  BY HeapStackTypes, AppendProperties
<1> HIDE DEF one
<1>2. /\ two \in Seq(AnyVma) /\ Len(two) = Len(one) + 1
      /\ (\A i \in 1 .. Len(one) : two[i] = one[i]) /\ two[Len(one) + 1] = StackVma
  BY <1>1, HeapStackTypes, AppendProperties
<1> HIDE DEF two
<1>3. /\ Len(two) = Len(l) + 2 /\ two[Len(l) + 1] = HeapVma /\ two[Len(l) + 2] = StackVma
      /\ \A i \in 1 .. Len(l) : two[i] = l[i]
  BY <1>1, <1>2
<1>4. /\ HeapVma.start = UHeapStart /\ HeapVma.end = UHeapStart
      /\ StackVma.start = UStackTop - PageSize /\ StackVma.end = UStackTop
  BY DEF HeapVma, StackVma, Vma
<1>5. \A i \in 1 .. Len(l) : BelowHeap(l[i]) /\ l[i].end \in Nat
  <2>1. \A i \in 1 .. Len(l) : l[i] \in AnyVma
    BY ElementOfSeq
  <2> QED BY <2>1 DEF PartlyBuilt, AnyVma
<1>6. Ascending(two)
  <2> SUFFICES ASSUME NEW i \in 1 .. Len(two), NEW j \in 1 .. Len(two), i < j
               PROVE  two[i].end <= two[j].start
    BY DEF Ascending
  <2>1. CASE j <= Len(l)
    BY <1>1, <1>3, <2>1 DEF PartlyBuilt, Ascending
  <2>2. CASE i <= Len(l) /\ j > Len(l)
    <3>1. two[i].end <= UHeapStart /\ two[i].end \in Nat
      <4>1. i \in 1 .. Len(l) /\ two[i] = l[i]
        BY <1>1, <1>3, <2>2
      <4> QED BY <1>5, <4>1 DEF BelowHeap
    <3>2. two[j].start \in {UHeapStart, UStackTop - PageSize}
      BY <1>1, <1>3, <1>4, <2>2
    <3> QED BY <3>1, <3>2, AddressFacts
  <2>3. CASE i > Len(l)
    BY <1>1, <1>3, <1>4, <2>3, AddressFacts
  <2> QED BY <1>1, <1>3, <2>1, <2>2, <2>3
<1>7. Aligned(HeapVma) /\ HeapVma.end <= UHeapLimit
  BY <1>4, AddressFacts DEF Aligned
<1>8. Built(two)
  BY <1>1, <1>3, <1>4, <1>5, <1>6, <1>7 DEF Built
<1> QED BY <1>2, <1>3, <1>8 DEF one, two

(* getHeapVMA finds the last VMA but one. *)
LEMMA HeapVmaFound ==
  ASSUME NEW l \in Seq(AnyVma), Built(l)
  PROVE  First({i \in 1 .. Len(l) : l[i].start = UHeapStart}) = Len(l) - 1
<1> DEFINE S == {i \in 1 .. Len(l) : l[i].start = UHeapStart}
<1>1. Len(l) \in Nat /\ Len(l) >= 2 /\ Len(l) - 1 \in S /\ S \subseteq Nat
  BY DEF Built
<1>2. First(S) \in S /\ First(S) <= Len(l) - 1
  <2> HIDE DEF S
  <2> QED BY <1>1, FirstIsLeast
<1>3. \A i \in 1 .. Len(l) - 2 : l[i].start # UHeapStart
  <2> SUFFICES ASSUME NEW i \in 1 .. Len(l) - 2 PROVE l[i].start # UHeapStart
    OBVIOUS
  <2>1. i \in 1 .. Len(l) /\ l[i] \in AnyVma /\ l[i].start < UHeapStart
    BY <1>1 DEF Built, BelowHeap
  <2> QED BY <2>1, AddressFacts DEF AnyVma
<1> QED BY <1>1, <1>2, <1>3

(* The VMAs l after brk(top). *)
WithTop(l, top) == [l EXCEPT ![Len(l) - 1].end = IF top > @ THEN AlignUp(top) ELSE @]

(* brk up to the limit: the heap VMA covers it and the others stay. *)
LEMMA BrkKeeps ==
  ASSUME NEW l \in Seq(AnyVma), Built(l), NEW top \in Nat, ~BrkFails(top)
  PROVE  /\ WithTop(l, top) \in Seq(AnyVma) /\ Built(WithTop(l, top))
         /\ Len(WithTop(l, top)) = Len(l)
         /\ WithTop(l, top)[Len(l) - 1].end \in Nat /\ top <= WithTop(l, top)[Len(l) - 1].end
<1> DEFINE h == Len(l) - 1
           new == WithTop(l, top)
           end == IF top > l[h].end THEN AlignUp(top) ELSE l[h].end
           v == [l[h] EXCEPT !.end = end]
<1>1. Len(l) \in Nat /\ Len(l) >= 2 /\ h \in 1 .. Len(l) /\ l[h] \in AnyVma /\ l[Len(l)] = StackVma
  BY DEF Built
<1>2. /\ l[h].start \in Nat /\ l[h].end \in Nat /\ l[h].start = UHeapStart
      /\ Aligned(l[h]) /\ l[h].end <= UHeapLimit
  BY <1>1 DEF Built, AnyVma
<1>3. top <= UHeapLimit
  BY AddressFacts DEF BrkFails
<1>4. AlignUp(top) \in Nat /\ top <= AlignUp(top) /\ AlignUp(top) % PageSize = 0 /\ AlignUp(top) <= UHeapLimit
  BY <1>3, RoundUp, AddressFacts
<1>5. end \in Nat /\ end <= UHeapLimit /\ top <= end /\ l[h].end <= end /\ end % PageSize = 0
  BY <1>2, <1>4 DEF Aligned
<1> HIDE DEF end
<1>6. v \in AnyVma /\ v.start = UHeapStart /\ v.end = end
  BY <1>1, <1>2, <1>5 DEF AnyVma
<1>7. Aligned(v)
  BY <1>2, <1>5, <1>6, AddressFacts, SMTT(20) DEF Aligned
<1>8. new = [l EXCEPT ![h] = v]
  BY <1>1 DEF end, WithTop
<1> HIDE DEF v, new
<1>9. /\ new \in Seq(AnyVma) /\ Len(new) = Len(l)
      /\ \A j \in 1 .. Len(l) : new[j] = IF j = h THEN v ELSE l[j]
  BY <1>1, <1>6, <1>8, ExceptSeq
<1>10. Ascending(new)
  <2> SUFFICES ASSUME NEW i \in 1 .. Len(l), NEW j \in 1 .. Len(l), i < j
               PROVE  new[i].end <= new[j].start
    BY <1>9 DEF Ascending
  <2>1. l[i].end <= l[j].start
    BY DEF Built, Ascending
  <2>2. CASE i = h
    <3>1. new[j] = StackVma
      BY <1>1, <1>9, <2>2
    <3>2. new[j].start = UStackTop - PageSize
      BY <3>1 DEF StackVma, Vma
    <3>3. new[i].end = end
      BY <1>6, <1>9, <2>2
    <3> QED BY <1>5, <3>2, <3>3, AddressFacts, SMTT(20)
  <2>3. CASE i # h
    BY <1>2, <1>6, <1>9, <2>1, <2>3
  <2> QED BY <2>2, <2>3
<1>11. Built(new)
  <2>1. Len(new) >= 2 /\ new[Len(new) - 1] = v /\ new[Len(new)] = StackVma
    <3>1. Len(new) >= 2 /\ Len(new) - 1 = h /\ new[h] = v
      BY <1>1, <1>9
    <3>2. Len(l) \in 1 .. Len(l) /\ Len(l) # h
      BY <1>1
    <3>3. new[Len(l)] = l[Len(l)]
      BY <1>9, <3>2
    <3> QED BY <1>1, <1>9, <3>1, <3>3
  <2>2. \A i \in 1 .. Len(new) - 2 : new[i] = l[i]
    BY <1>1, <1>9
  <2>3. \A i \in 1 .. Len(new) - 2 : BelowHeap(new[i])
    BY <1>9, <2>2 DEF Built
  <2> QED BY <1>5, <1>6, <1>7, <1>10, <2>1, <2>3 DEF Built
<1>12. /\ new \in Seq(AnyVma) /\ Built(new) /\ Len(new) = Len(l)
       /\ new[h].end \in Nat /\ top <= new[h].end
  BY <1>1, <1>5, <1>6, <1>9, <1>11
<1> QED BY <1>12 DEF new

-----------------------------------------------------------------------------
(* malloc and free.                                                        *)

(* The types of one of malloc's nodes.                                      *)
LEMMA NodeFacts ==
  ASSUME NEW ns \in Seq(AnyNode), NEW i \in 1 .. Len(ns)
  PROVE  ns[i].size \in Nat /\ ns[i].mem_ptr \in Nat /\ ns[i].isFree \in BOOLEAN /\ ns[i] \in AnyNode
<1>1. ns[i] \in AnyNode
  BY ElementOfSeq
<1> QED BY <1>1 DEF AnyNode

(* The types of a block.                                                    *)
LEMMA BlockFacts ==
  ASSUME NEW bs \in Seq(AnyBlock), NEW k \in 1 .. Len(bs)
  PROVE  bs[k].ptr \in Nat /\ bs[k].size \in Nat /\ bs[k] \in AnyBlock
<1>1. bs[k] \in AnyBlock
  BY ElementOfSeq
<1> QED BY <1>1 DEF AnyBlock

(* Two nodes with the same pointer are one. *)
LEMMA NodesDistinct ==
  ASSUME NEW ns \in Seq(AnyNode), NEW top \in Nat, NEW bs, NEW e, HeapSound(ns, top, bs, e),
         NEW i \in 1 .. Len(ns), NEW j \in 1 .. Len(ns), ns[i].mem_ptr = ns[j].mem_ptr
  PROVE  i = j
<1>1. /\ ns[i].size \in Nat /\ ns[i].mem_ptr \in Nat /\ ns[i].size >= 1
      /\ ns[j].size \in Nat /\ ns[j].mem_ptr \in Nat /\ ns[j].size >= 1
  BY NodeFacts DEF HeapSound
<1>2. i < j => ns[i].mem_ptr + ns[i].size <= ns[j].mem_ptr
  BY DEF HeapSound
<1>3. j < i => ns[j].mem_ptr + ns[j].size <= ns[i].mem_ptr
  BY DEF HeapSound
<1> QED BY <1>1, <1>2, <1>3

(* A smaller block ends no later.                                           *)
LEMMA Fits ==
  ASSUME NEW a \in Nat, NEW n \in Nat, NEW size \in Nat, NEW b \in Nat, n <= size, a + size <= b
  PROVE  a + n <= b
OBVIOUS

(* The blocks held do not overlap. *)
LEMMA SoundApart ==
  ASSUME NEW ns \in Seq(AnyNode), NEW top \in Nat, NEW bs \in Seq(AnyBlock), NEW e \in Nat,
         HeapSound(ns, top, bs, e), NEW k \in 1 .. Len(bs)
  PROVE  /\ UHeapStart <= bs[k].ptr /\ bs[k].ptr + bs[k].size <= e
         /\ \A m \in 1 .. Len(bs) : k < m =>
              \/ bs[k].ptr + bs[k].size <= bs[m].ptr
              \/ bs[m].ptr + bs[m].size <= bs[k].ptr
<1>1. \A m \in 1 .. Len(bs) : bs[m].ptr \in Nat /\ bs[m].size \in Nat
  BY BlockFacts
<1>2. PICK i \in 1 .. Len(ns) : bs[k].ptr = ns[i].mem_ptr /\ bs[k].size <= ns[i].size
  BY DEF HeapSound
<1>3. /\ ns[i].size \in Nat /\ ns[i].mem_ptr \in Nat /\ ns[i].size >= 1
      /\ UHeapStart <= ns[i].mem_ptr /\ ns[i].mem_ptr + ns[i].size <= top
  BY NodeFacts DEF HeapSound
<1>4. top <= e
  BY <1>3 DEF HeapSound
<1>5. ASSUME NEW m \in 1 .. Len(bs), k < m
      PROVE  \/ bs[k].ptr + bs[k].size <= bs[m].ptr
             \/ bs[m].ptr + bs[m].size <= bs[k].ptr
  <2>1. PICK j \in 1 .. Len(ns) : bs[m].ptr = ns[j].mem_ptr /\ bs[m].size <= ns[j].size
    BY DEF HeapSound
  <2>2. ns[j].size \in Nat /\ ns[j].mem_ptr \in Nat
    BY NodeFacts
  <2>3. i # j
    BY <1>2, <1>5, <2>1 DEF HeapSound
  <2>4. \/ ns[i].mem_ptr + ns[i].size <= ns[j].mem_ptr
        \/ ns[j].mem_ptr + ns[j].size <= ns[i].mem_ptr
    <3>1. CASE i < j
      BY <3>1 DEF HeapSound
    <3>2. CASE j < i
      BY <3>2 DEF HeapSound
    <3> QED BY <2>3, <3>1, <3>2
  <2>5. bs[m].ptr \in Nat /\ bs[m].size \in Nat /\ bs[k].ptr \in Nat /\ bs[k].size \in Nat
    BY <1>1
  <2>6. CASE ns[i].mem_ptr + ns[i].size <= ns[j].mem_ptr
    <3>1. ns[i].mem_ptr + bs[k].size <= ns[j].mem_ptr
      BY <1>2, <1>3, <2>2, <2>5, <2>6, Fits
    <3> QED BY <1>2, <2>1, <3>1
  <2>7. CASE ns[j].mem_ptr + ns[j].size <= ns[i].mem_ptr
    <3>1. ns[j].mem_ptr + bs[m].size <= ns[i].mem_ptr
      BY <1>3, <2>1, <2>2, <2>5, <2>7, Fits
    <3> QED BY <1>2, <2>1, <3>1
  <2> QED BY <2>4, <2>6, <2>7
<1> QED BY <1>1, <1>2, <1>3, <1>4, <1>5, AddressFacts

(* A block more for the program.                                            *)
LEMMA AppendBlock ==
  ASSUME NEW bs \in Seq(AnyBlock), NEW ptr \in Nat, NEW size \in Nat
  PROVE  LET new == Append(bs, [ptr |-> ptr, size |-> size]) IN
         /\ new \in Seq(AnyBlock) /\ Len(new) = Len(bs) + 1 /\ Len(bs) \in Nat
         /\ \A k \in 1 .. Len(bs) : new[k] = bs[k]
         /\ new[Len(bs) + 1].ptr = ptr /\ new[Len(bs) + 1].size = size
<1> DEFINE b == [ptr |-> ptr, size |-> size]
<1>1. b \in AnyBlock /\ b.ptr = ptr /\ b.size = size
  BY DEF AnyBlock
<1> HIDE DEF b
<1> QED BY <1>1, AppendProperties DEF b

(* A free node goes to a block no larger than it. *)
LEMMA AgainKeeps ==
  ASSUME NEW ns \in Seq(AnyNode), NEW top \in Nat, NEW bs \in Seq(AnyBlock), NEW e \in Nat,
         HeapSound(ns, top, bs, e),
         NEW i \in 1 .. Len(ns), NEW size \in Nat, ns[i].isFree, size <= ns[i].size,
         NEW new, new = [ns EXCEPT ![i].isFree = FALSE],
         NEW nb, nb = Append(bs, [ptr |-> ns[i].mem_ptr, size |-> size])
  PROVE  new \in Seq(AnyNode) /\ nb \in Seq(AnyBlock) /\ HeapSound(new, top, nb, e)
<1> DEFINE node == [ns[i] EXCEPT !.isFree = FALSE]
<1>1. node \in AnyNode /\ node.size = ns[i].size /\ node.mem_ptr = ns[i].mem_ptr /\ ~node.isFree
  BY NodeFacts DEF AnyNode
<1>2. new = [ns EXCEPT ![i] = node]
  OBVIOUS
<1> HIDE DEF node
<1>3. /\ new \in Seq(AnyNode) /\ Len(new) = Len(ns)
      /\ \A j \in 1 .. Len(ns) : new[j] = IF j = i THEN node ELSE ns[j]
  <2>1. /\ [ns EXCEPT ![i] = node] \in Seq(AnyNode) /\ Len([ns EXCEPT ![i] = node]) = Len(ns)
        /\ \A j \in 1 .. Len(ns) : [ns EXCEPT ![i] = node][j] = IF j = i THEN node ELSE ns[j]
    BY <1>1, ExceptSeq
  <2> QED BY <1>2, <2>1
<1>4. \A j \in 1 .. Len(ns) : new[j].size = ns[j].size /\ new[j].mem_ptr = ns[j].mem_ptr
  BY <1>1, <1>3
<1>5. /\ nb \in Seq(AnyBlock) /\ Len(nb) = Len(bs) + 1 /\ Len(bs) \in Nat
      /\ \A k \in 1 .. Len(bs) : nb[k] = bs[k]
      /\ nb[Len(bs) + 1].ptr = ns[i].mem_ptr /\ nb[Len(bs) + 1].size = size
  BY NodeFacts, AppendBlock
<1>6. ASSUME NEW k \in 1 .. Len(bs)
      PROVE  /\ bs[k].ptr # ns[i].mem_ptr
             /\ \E j \in 1 .. Len(new) :
                  bs[k].ptr = new[j].mem_ptr /\ bs[k].size <= new[j].size /\ ~new[j].isFree
  <2>1. PICK j \in 1 .. Len(ns) : bs[k].ptr = ns[j].mem_ptr /\ bs[k].size <= ns[j].size /\ ~ns[j].isFree
    BY DEF HeapSound
  <2>2. j # i /\ bs[k].ptr # ns[i].mem_ptr
    BY <2>1, NodesDistinct
  <2>3. new[j] = ns[j]
    BY <1>3, <2>2
  <2> QED BY <1>3, <2>1, <2>2, <2>3
<1>7. ASSUME NEW k \in 1 .. Len(nb)
      PROVE  \E j \in 1 .. Len(new) :
               nb[k].ptr = new[j].mem_ptr /\ nb[k].size <= new[j].size /\ ~new[j].isFree
  <2>1. CASE k = Len(bs) + 1
    <3>1. nb[k].ptr = new[i].mem_ptr /\ nb[k].size <= new[i].size /\ ~new[i].isFree
      BY <1>1, <1>3, <1>5, <2>1
    <3> QED BY <1>3, <3>1
  <2>2. CASE k # Len(bs) + 1
    BY <1>5, <1>6, <2>2
  <2> QED BY <2>1, <2>2
<1>8. ASSUME NEW k \in 1 .. Len(nb), NEW m \in 1 .. Len(nb), k # m
      PROVE  nb[k].ptr # nb[m].ptr
  <2>1. CASE k = Len(bs) + 1
    BY <1>5, <1>6, <1>8, <2>1
  <2>2. CASE m = Len(bs) + 1
    BY <1>5, <1>6, <1>8, <2>2
  <2>3. CASE k # Len(bs) + 1 /\ m # Len(bs) + 1
    BY <1>5, <1>8, <2>3 DEF HeapSound
  <2> QED BY <2>1, <2>2, <2>3
<1>9. /\ top # 0 => UHeapStart <= top /\ top <= e
      /\ \A j \in 1 .. Len(new) :
           /\ UHeapStart <= new[j].mem_ptr /\ new[j].size >= 1
           /\ new[j].mem_ptr + new[j].size <= top
           /\ \A m \in 1 .. Len(new) : j < m => new[j].mem_ptr + new[j].size <= new[m].mem_ptr
  BY <1>3, <1>4 DEF HeapSound
<1> QED BY <1>3, <1>5, <1>7, <1>8, <1>9 DEF HeapSound

(* Without a node of malloc, heap_end may be set to the end of the VMA. *)
LEMMA TopKeeps ==
  ASSUME NEW ns \in Seq(AnyNode), NEW top \in Nat, NEW bs \in Seq(AnyBlock), NEW e \in Nat,
         HeapSound(ns, top, bs, e), UHeapStart <= e,
         NEW t, t = IF top = 0 THEN e ELSE top
  PROVE  t \in Nat /\ UHeapStart <= t /\ t <= e /\ HeapSound(ns, t, bs, e)
<1>1. CASE top = 0
  <2>1. \A i \in 1 .. Len(ns) : FALSE
    <3> SUFFICES ASSUME NEW i \in 1 .. Len(ns) PROVE FALSE
      OBVIOUS
    <3>1. ns[i].mem_ptr \in Nat /\ ns[i].size \in Nat
      BY NodeFacts
    <3>2. UHeapStart <= ns[i].mem_ptr /\ ns[i].mem_ptr + ns[i].size <= top
      BY DEF HeapSound
    <3> QED BY <1>1, <3>1, <3>2, AddressFacts
  <2>2. \A k \in 1 .. Len(bs) : FALSE
    BY <2>1 DEF HeapSound
  <2> QED BY <1>1, <2>1, <2>2 DEF HeapSound
<1>2. CASE top # 0
  BY <1>2 DEF HeapSound
<1> QED BY <1>1, <1>2

(* A new node behind all others. *)
LEMMA NewKeeps ==
  ASSUME NEW ns \in Seq(AnyNode), NEW t \in Nat, NEW bs \in Seq(AnyBlock), NEW e \in Nat,
         HeapSound(ns, t, bs, e), UHeapStart <= t,
         NEW size \in Nat, size >= 1, NEW f \in Nat, t + size <= f,
         NEW new, new = Append(ns, [size |-> size, mem_ptr |-> t, isFree |-> FALSE]),
         NEW nb, nb = Append(bs, [ptr |-> t, size |-> size])
  PROVE  new \in Seq(AnyNode) /\ nb \in Seq(AnyBlock) /\ HeapSound(new, t + size, nb, f)
<1> DEFINE node == [size |-> size, mem_ptr |-> t, isFree |-> FALSE]
<1>1. node \in AnyNode /\ node.size = size /\ node.mem_ptr = t /\ ~node.isFree
  BY DEF AnyNode
<1>2. new = Append(ns, node)
  OBVIOUS
<1> HIDE DEF node
<1>3. /\ new \in Seq(AnyNode) /\ Len(new) = Len(ns) + 1 /\ Len(ns) \in Nat
      /\ (\A j \in 1 .. Len(ns) : new[j] = ns[j]) /\ new[Len(ns) + 1] = node
  BY <1>1, <1>2, AppendProperties
<1>4. /\ nb \in Seq(AnyBlock) /\ Len(nb) = Len(bs) + 1 /\ Len(bs) \in Nat
      /\ \A k \in 1 .. Len(bs) : nb[k] = bs[k]
      /\ nb[Len(bs) + 1].ptr = t /\ nb[Len(bs) + 1].size = size
  BY AppendBlock
<1>5. ASSUME NEW j \in 1 .. Len(ns)
      PROVE  /\ ns[j].mem_ptr \in Nat /\ ns[j].size \in Nat
             /\ UHeapStart <= ns[j].mem_ptr /\ ns[j].size >= 1
             /\ ns[j].mem_ptr + ns[j].size <= t /\ ns[j].mem_ptr < t
  <2>1. ns[j].mem_ptr \in Nat /\ ns[j].size \in Nat
    BY NodeFacts
  <2>2. UHeapStart <= ns[j].mem_ptr /\ ns[j].size >= 1 /\ ns[j].mem_ptr + ns[j].size <= t
    BY DEF HeapSound
  <2> QED BY <2>1, <2>2
<1>6. ASSUME NEW j \in 1 .. Len(new)
      PROVE  /\ UHeapStart <= new[j].mem_ptr /\ new[j].size >= 1
             /\ new[j].mem_ptr + new[j].size <= t + size
             /\ \A m \in 1 .. Len(new) : j < m => new[j].mem_ptr + new[j].size <= new[m].mem_ptr
  <2>1. CASE j = Len(ns) + 1
    <3>1. new[j].mem_ptr = t /\ new[j].size = size
      BY <1>1, <1>3, <2>1
    <3>2. \A m \in 1 .. Len(new) : ~(j < m)
      BY <1>3, <2>1
    <3> QED BY <3>1, <3>2
  <2>2. CASE j # Len(ns) + 1
    <3>1. j \in 1 .. Len(ns) /\ new[j] = ns[j]
      BY <1>3, <2>2
    <3>2. ASSUME NEW m \in 1 .. Len(new), j < m
          PROVE  new[j].mem_ptr + new[j].size <= new[m].mem_ptr
      <4>1. CASE m = Len(ns) + 1
        BY <1>1, <1>3, <1>5, <3>1, <4>1
      <4>2. CASE m # Len(ns) + 1
        <5>1. m \in 1 .. Len(ns) /\ new[m] = ns[m]
          BY <1>3, <4>2
        <5> QED BY <3>1, <3>2, <5>1 DEF HeapSound
      <4> QED BY <4>1, <4>2
    <3>3. ns[j].mem_ptr + ns[j].size <= t + size
      BY <1>5, <3>1
    <3> QED BY <1>5, <3>1, <3>2, <3>3
  <2> QED BY <2>1, <2>2
<1>7. ASSUME NEW k \in 1 .. Len(nb)
      PROVE  \E j \in 1 .. Len(new) :
               nb[k].ptr = new[j].mem_ptr /\ nb[k].size <= new[j].size /\ ~new[j].isFree
  <2>1. CASE k = Len(bs) + 1
    <3>1. Len(ns) + 1 \in 1 .. Len(new)
      BY <1>3
    <3>2. /\ nb[k].ptr = new[Len(ns) + 1].mem_ptr /\ nb[k].size <= new[Len(ns) + 1].size
          /\ ~new[Len(ns) + 1].isFree
      BY <1>1, <1>3, <1>4, <2>1
    <3> QED BY <3>1, <3>2
  <2>2. CASE k # Len(bs) + 1
    <3>1. k \in 1 .. Len(bs) /\ nb[k] = bs[k]
      BY <1>4, <2>2
    <3>2. PICK j \in 1 .. Len(ns) : bs[k].ptr = ns[j].mem_ptr /\ bs[k].size <= ns[j].size /\ ~ns[j].isFree
      BY <3>1 DEF HeapSound
    <3>3. j \in 1 .. Len(new) /\ new[j] = ns[j]
      BY <1>3
    <3> QED BY <3>1, <3>2, <3>3
  <2> QED BY <2>1, <2>2
<1>8. ASSUME NEW k \in 1 .. Len(bs) PROVE bs[k].ptr # t
  <2>1. PICK j \in 1 .. Len(ns) : bs[k].ptr = ns[j].mem_ptr
    BY DEF HeapSound
  <2> QED BY <1>5, <2>1
<1>9. ASSUME NEW k \in 1 .. Len(nb), NEW m \in 1 .. Len(nb), k # m
      PROVE  nb[k].ptr # nb[m].ptr
  <2>1. CASE k = Len(bs) + 1
    BY <1>4, <1>8, <1>9, <2>1
  <2>2. CASE m = Len(bs) + 1
    BY <1>4, <1>8, <1>9, <2>2
  <2>3. CASE k # Len(bs) + 1 /\ m # Len(bs) + 1
    BY <1>4, <1>9, <2>3 DEF HeapSound
  <2> QED BY <2>1, <2>2, <2>3
<1>10. UHeapStart <= t + size
  BY AddressFacts
<1> QED BY <1>3, <1>4, <1>6, <1>7, <1>9, <1>10 DEF HeapSound

(* A function on 1 .. n is a sequence.                                      *)
LEMMA FunctionSeq ==
  ASSUME NEW S, NEW n \in Nat, NEW f \in [1 .. n -> S]
  PROVE  f \in Seq(S) /\ Len(f) = n
BY SeqDef

(* Parts of a sequence, and a sequence without one of its elements. *)
LEMMA Before ==
  ASSUME NEW S, NEW s \in Seq(S), NEW n \in 0 .. Len(s)
  PROVE  /\ SubSeq(s, 1, n) \in Seq(S) /\ Len(SubSeq(s, 1, n)) = n
         /\ \A m \in 1 .. n : SubSeq(s, 1, n)[m] = s[m]
<1>1. \A i \in 1 .. n : s[i] \in S
  OBVIOUS
<1>2. 1 \in Int /\ n \in Int
  OBVIOUS
<1> QED OBVIOUS

(* The part of a sequence behind a position.                                *)
LEMMA Behind ==
  ASSUME NEW S, NEW s \in Seq(S), NEW n \in 1 .. Len(s)
  PROVE  /\ SubSeq(s, n + 1, Len(s)) \in Seq(S) /\ Len(SubSeq(s, n + 1, Len(s))) = Len(s) - n
         /\ \A m \in 1 .. Len(s) - n : SubSeq(s, n + 1, Len(s))[m] = s[n + m]
OBVIOUS

(* A sequence without one of its elements.                                  *)
LEMMA Without ==
  ASSUME NEW S, NEW s \in Seq(S), NEW k \in 1 .. Len(s)
  PROVE  LET t == SubSeq(s, 1, k - 1) \o SubSeq(s, k + 1, Len(s)) IN
         /\ t \in Seq(S) /\ Len(t) = Len(s) - 1
         /\ \A m \in 1 .. Len(s) - 1 : t[m] = IF m < k THEN s[m] ELSE s[m + 1]
<1> DEFINE left == SubSeq(s, 1, k - 1)
           right == SubSeq(s, k + 1, Len(s))
           t == left \o right
<1>1. k - 1 \in 0 .. Len(s)
  OBVIOUS
<1>2. /\ left \in Seq(S) /\ Len(left) = k - 1
      /\ \A m \in 1 .. k - 1 : left[m] = s[m]
  BY <1>1, Before
<1>3. /\ right \in Seq(S) /\ Len(right) = Len(s) - k
      /\ \A m \in 1 .. Len(s) - k : right[m] = s[k + m]
  BY Behind
<1> HIDE DEF left, right
<1>4. /\ t \in Seq(S) /\ Len(t) = Len(left) + Len(right)
      /\ \A m \in 1 .. Len(left) + Len(right) :
           t[m] = IF m <= Len(left) THEN left[m] ELSE right[m - Len(left)]
  BY <1>2, <1>3, ConcatProperties
<1> HIDE DEF t
<1>5. Len(s) \in Nat /\ k \in Nat /\ k <= Len(s) /\ Len(t) = Len(s) - 1
  BY <1>2, <1>3, <1>4
<1>6. ASSUME NEW m \in 1 .. Len(s) - 1 PROVE t[m] = IF m < k THEN s[m] ELSE s[m + 1]
  <2>1. t[m] = IF m <= k - 1 THEN left[m] ELSE right[m - (k - 1)]
    BY <1>2, <1>3, <1>4, <1>5
  <2>2. CASE m < k
    BY <1>2, <1>5, <2>1, <2>2
  <2>3. CASE ~(m < k)
    <3>1. m - (k - 1) \in 1 .. Len(s) - k /\ t[m] = right[m - (k - 1)] /\ k + (m - (k - 1)) = m + 1
      BY <1>5, <2>1, <2>3
    <3>2. right[m - (k - 1)] = s[k + (m - (k - 1))]
      BY <1>3, <3>1
    <3> QED BY <2>3, <3>1, <3>2
  <2> QED BY <2>2, <2>3
<1> QED BY <1>4, <1>5, <1>6 DEF t, left, right

(* free: the block leaves, and the node with its pointer becomes free. *)
LEMMA FreeKeeps ==
  ASSUME NEW ns \in Seq(AnyNode), NEW top \in Nat, NEW bs \in Seq(AnyBlock), NEW e \in Nat,
         HeapSound(ns, top, bs, e), NEW k \in 1 .. Len(bs)
  PROVE  LET new == [i \in 1 .. Len(ns) |->
                      IF ns[i].mem_ptr = bs[k].ptr THEN [ns[i] EXCEPT !.isFree = TRUE] ELSE ns[i]]
             nb == SubSeq(bs, 1, k - 1) \o SubSeq(bs, k + 1, Len(bs))
         IN new \in Seq(AnyNode) /\ nb \in Seq(AnyBlock) /\ HeapSound(new, top, nb, e)
<1> DEFINE new == [i \in 1 .. Len(ns) |->
                    IF ns[i].mem_ptr = bs[k].ptr THEN [ns[i] EXCEPT !.isFree = TRUE] ELSE ns[i]]
           nb == SubSeq(bs, 1, k - 1) \o SubSeq(bs, k + 1, Len(bs))
<1>1. ASSUME NEW i \in 1 .. Len(ns)
      PROVE  /\ new[i] \in AnyNode /\ new[i].size = ns[i].size /\ new[i].mem_ptr = ns[i].mem_ptr
             /\ ns[i].mem_ptr # bs[k].ptr => new[i] = ns[i]
  <2>1. ns[i] \in AnyNode
    BY NodeFacts
  <2>2. CASE ns[i].mem_ptr = bs[k].ptr
    <3>1. new[i] = [ns[i] EXCEPT !.isFree = TRUE]
      BY <2>2
    <3> QED BY <2>1, <2>2, <3>1 DEF AnyNode
  <2>3. CASE ns[i].mem_ptr # bs[k].ptr
    BY <2>1, <2>3
  <2> QED BY <2>2, <2>3
<1>2. new \in Seq(AnyNode) /\ Len(new) = Len(ns)
  <2>1. Len(ns) \in Nat /\ new \in [1 .. Len(ns) -> AnyNode]
    <3>1. DOMAIN new = 1 .. Len(ns) /\ new = [i \in DOMAIN new |-> new[i]]
      OBVIOUS
    <3> HIDE DEF new
    <3> QED BY <1>1, <3>1
  <2> QED BY <2>1, FunctionSeq, SMTT(20)
<1>3. Len(bs) \in Nat
  OBVIOUS
<1>4. /\ nb \in Seq(AnyBlock) /\ Len(nb) = Len(bs) - 1
      /\ \A m \in 1 .. Len(bs) - 1 : nb[m] = IF m < k THEN bs[m] ELSE bs[m + 1]
  BY Without
<1> HIDE DEF new, nb
<1> DEFINE was(m) == IF m < k THEN m ELSE m + 1
<1>5. ASSUME NEW m \in 1 .. Len(nb)
      PROVE  was(m) \in 1 .. Len(bs) /\ was(m) # k /\ nb[m] = bs[was(m)]
  <2>1. m \in 1 .. Len(bs) - 1 /\ m \in Nat /\ k \in Nat /\ k <= Len(bs)
    BY <1>3, <1>4
  <2> QED BY <1>3, <1>4, <2>1
<1>6. ASSUME NEW m \in 1 .. Len(nb), NEW o \in 1 .. Len(nb), m # o
      PROVE  nb[m].ptr # nb[o].ptr
  <2>1. was(m) # was(o)
    BY <1>6
  <2> HIDE DEF was
  <2>2. was(m) \in 1 .. Len(bs) /\ was(o) \in 1 .. Len(bs)
    BY <1>5
  <2>3. nb[m] = bs[was(m)] /\ nb[o] = bs[was(o)]
    BY <1>5
  <2>4. \A x, y \in 1 .. Len(bs) : x # y => bs[x].ptr # bs[y].ptr
    BY DEF HeapSound
  <2>5. bs[was(m)].ptr # bs[was(o)].ptr
    BY <2>1, <2>2, <2>4
  <2> QED BY <2>3, <2>5
<1>7. ASSUME NEW m \in 1 .. Len(nb)
      PROVE  \E i \in 1 .. Len(new) :
               nb[m].ptr = new[i].mem_ptr /\ nb[m].size <= new[i].size /\ ~new[i].isFree
  <2> HIDE DEF was
  <2>1. was(m) \in 1 .. Len(bs) /\ was(m) # k /\ nb[m] = bs[was(m)]
    BY <1>5
  <2>2. PICK i \in 1 .. Len(ns) :
          bs[was(m)].ptr = ns[i].mem_ptr /\ bs[was(m)].size <= ns[i].size /\ ~ns[i].isFree
    BY <2>1 DEF HeapSound
  <2>3. ns[i].mem_ptr # bs[k].ptr
    BY <2>1, <2>2 DEF HeapSound
  <2> QED BY <1>1, <1>2, <2>1, <2>2, <2>3
<1>8. /\ top # 0 => UHeapStart <= top /\ top <= e
      /\ \A j \in 1 .. Len(new) :
           /\ UHeapStart <= new[j].mem_ptr /\ new[j].size >= 1
           /\ new[j].mem_ptr + new[j].size <= top
           /\ \A m \in 1 .. Len(new) : j < m => new[j].mem_ptr + new[j].size <= new[m].mem_ptr
  <2>1. \A j \in 1 .. Len(ns) : new[j].size = ns[j].size /\ new[j].mem_ptr = ns[j].mem_ptr
    BY <1>1
  <2> QED BY <1>2, <2>1 DEF HeapSound
<1>9. HeapSound(new, top, nb, e)
  <2>1. \A m, o \in 1 .. Len(nb) : m # o => nb[m].ptr # nb[o].ptr
    BY <1>6
  <2>2. \A m \in 1 .. Len(nb) : \E i \in 1 .. Len(new) :
          nb[m].ptr = new[i].mem_ptr /\ nb[m].size <= new[i].size /\ ~new[i].isFree
    BY <1>7
  <2> QED BY <1>8, <2>1, <2>2 DEF HeapSound
<1> QED BY <1>2, <1>4, <1>9 DEF new, nb

-----------------------------------------------------------------------------
(* The state.                                                              *)

(* While nothing is built, no process is being built.                       *)
LEMMA DoneIsNobody == Done \in [proc : Procs \cup {NoProc}, next : Nat, exec : BOOLEAN] /\ Done.proc \notin Procs
BY SizesAssumption DEF Done

(* The empty sequence.                                                      *)
LEMMA NoSequence ==
  /\ <<>> \in Seq(AnyVma) /\ <<>> \in Seq(AnyNode) /\ <<>> \in Seq(AnyBlock)
  /\ Len(<<>>) = 0
BY EmptySeq

(* A program that starts to be loaded. *)
LEMMA LoadingStarts ==
  ASSUME NEW prog \in Programs PROVE PartlyBuilt(<<>>, prog, 1)
BY SectionFacts, NoSequence DEF PartlyBuilt, Ascending

(* The boot state satisfies the inductive invariant.                        *)
LEMMA InitInv == Init => IInv
<1> SUFFICES ASSUME NEW first \in Procs, NEW prog \in Programs,
                    list = [p \in Procs |-> <<>>], free = NumVmas,
                    program = [p \in Procs |-> IF p = first THEN prog ELSE <<>>],
                    building = [proc |-> first, next |-> 1, exec |-> FALSE],
                    mapped = [p \in Procs |-> {}], stored = [p \in Procs |-> {}],
                    nodes = [p \in Procs |-> <<>>], heap_end = [p \in Procs |-> 0],
                    blocks = [p \in Procs |-> <<>>]
             PROVE  IInv
  BY DEF Init
<1>1. Typed
  <2>1. NumVmas \in Nat
    BY SizesAssumption
  <2>2. list \in [Procs -> Seq(AnyVma)] /\ nodes \in [Procs -> Seq(AnyNode)] /\ blocks \in [Procs -> Seq(AnyBlock)]
    BY NoSequence
  <2>3. program \in [Procs -> Programs \cup {<<>>}]
    OBVIOUS
  <2>4. building \in [proc : Procs \cup {NoProc}, next : Nat, exec : BOOLEAN]
    OBVIOUS
  <2>5. mapped \in [Procs -> SUBSET Nat] /\ stored \in [Procs -> SUBSET Nat] /\ heap_end \in [Procs -> Nat]
    OBVIOUS
  <2> QED BY <2>1, <2>2, <2>3, <2>4, <2>5 DEF Typed
<1>2. ASSUME NEW p \in Procs PROVE Good(p)
  <2>1. CASE p = first
    BY <2>1, SectionFacts, LoadingStarts DEF Good, NoHeap
  <2>2. CASE p # first
    BY <2>2 DEF Good, NoHeap
  <2> QED BY <2>1, <2>2
<1> QED BY <1>1, <1>2 DEF IInv

(* What a step does not change of a process stays good. *)
LEMMA OthersStay ==
  ASSUME NEW p \in Procs, Good(p),
         program'[p] = program[p], list'[p] = list[p], nodes'[p] = nodes[p],
         heap_end'[p] = heap_end[p], blocks'[p] = blocks[p],
         building' = building \/ (building.proc # p /\ building'.proc # p)
  PROVE  Good(p)'
BY DEF Good, NoHeap

(* A section merged into a VMA: MergeKeeps for the process being built.     *)
LEMMA MergeInv == ASSUME IInv, MergeSection PROVE IInv'
<1> PICK p \in Procs :
      LET s     == program[p][building.next]
          found == Matching(list[p], s)
      IN /\ building.proc = p /\ building.next <= Len(program[p]) /\ found # {}
         /\ list' = [list EXCEPT ![p][First(found)] = Grown(@, s)]
         /\ building' = [building EXCEPT !.next = @ + 1]
         /\ UNCHANGED <<free, program, mapped, stored, Heap>>
  BY DEF MergeSection
<1> DEFINE prog == program[p]
           n == building.next
           new == [list[p] EXCEPT ![First(Matching(list[p], prog[n]))] = Grown(@, prog[n])]
<1>1. /\ building.proc = p /\ n <= Len(prog) /\ Matching(list[p], prog[n]) # {}
      /\ list' = [list EXCEPT ![p] = new]
      /\ building' = [building EXCEPT !.next = n + 1]
      /\ UNCHANGED <<free, program, mapped, stored, nodes, heap_end, blocks>>
  <2>1. list' = [list EXCEPT ![p] = new]
    BY DEF new
  <2> HIDE DEF new
  <2> QED BY <2>1 DEF Heap
<1> HIDE DEF new
<1>2. Typed /\ \A q \in Procs : Good(q)
  BY DEF IInv
<1>3. building \in [proc : Procs \cup {NoProc}, next : Nat, exec : BOOLEAN]
  BY <1>2 DEF Typed
<1>4. prog # <<>> /\ prog \in Programs
  BY <1>1, <1>2 DEF Good, Typed
<1>5. PartlyBuilt(list[p], prog, n) /\ NoHeap(p) /\ list[p] \in Seq(AnyVma)
  BY <1>1, <1>2, <1>4 DEF Good, Typed
<1>6. n \in 1 .. Len(prog)
  BY <1>1, <1>4, <1>5, SectionFacts DEF PartlyBuilt
<1>7. new \in Seq(AnyVma) /\ PartlyBuilt(new, prog, n + 1)
  BY <1>1, <1>4, <1>5, <1>6, MergeKeeps DEF new
<1>8. building' \in [proc : Procs \cup {NoProc}, next : Nat, exec : BOOLEAN] /\ building'.proc = p /\ building'.next = n + 1
  BY <1>1, <1>3
<1>9. list' \in [Procs -> Seq(AnyVma)] /\ list'[p] = new /\ \A q \in Procs \ {p} : list'[q] = list[q]
  <2>1. list' = [list EXCEPT ![p] = new]
    BY <1>1
  <2>2. list \in [Procs -> Seq(AnyVma)]
    BY <1>2 DEF Typed
  <2>3. new \in Seq(AnyVma)
    BY <1>7
  <2>4. list' \in [Procs -> Seq(AnyVma)]
    BY <2>1, <2>2, <2>3
  <2>5. list'[p] = new
    BY <2>1, <2>2
  <2>6. \A q \in Procs \ {p} : list'[q] = list[q]
    BY <2>1, <2>2
  <2> QED BY <2>4, <2>5, <2>6
<1>10. Typed'
  BY <1>1, <1>2, <1>8, <1>9 DEF Typed
<1>11. Good(p)'
  BY <1>1, <1>4, <1>5, <1>7, <1>8, <1>9 DEF Good, NoHeap
<1>12. ASSUME NEW q \in Procs \ {p} PROVE Good(q)'
  BY <1>1, <1>2, <1>8, <1>9, OthersStay
<1> QED BY <1>10, <1>11, <1>12 DEF IInv

(* A section with a VMA of its own: InsertKeeps.                            *)
LEMMA InsertInv == ASSUME IInv, InsertSection PROVE IInv'
<1> PICK p \in Procs :
      LET s == program[p][building.next]
      IN /\ building.proc = p /\ building.next <= Len(program[p])
         /\ Matching(list[p], s) = {} /\ free >= 1
         /\ list' = [list EXCEPT ![p] = Append(@, Inserted(s))]
         /\ free' = free - 1
         /\ building' = [building EXCEPT !.next = @ + 1]
         /\ UNCHANGED <<program, mapped, stored, Heap>>
  BY DEF InsertSection
<1> DEFINE prog == program[p]
           n == building.next
           new == Append(list[p], Inserted(prog[n]))
<1>1. /\ building.proc = p /\ n <= Len(prog) /\ Matching(list[p], prog[n]) = {}
      /\ list' = [list EXCEPT ![p] = new] /\ free >= 1 /\ free' = free - 1
      /\ building' = [building EXCEPT !.next = n + 1]
      /\ UNCHANGED <<program, mapped, stored, nodes, heap_end, blocks>>
  BY DEF Heap
<1> HIDE DEF new
<1>2. Typed /\ \A q \in Procs : Good(q)
  BY DEF IInv
<1>3. building \in [proc : Procs \cup {NoProc}, next : Nat, exec : BOOLEAN] /\ free \in Nat
  BY <1>2 DEF Typed
<1>4. prog # <<>> /\ prog \in Programs
  BY <1>1, <1>2 DEF Good, Typed
<1>5. PartlyBuilt(list[p], prog, n) /\ NoHeap(p) /\ list[p] \in Seq(AnyVma)
  BY <1>1, <1>2, <1>4 DEF Good, Typed
<1>6. n \in 1 .. Len(prog)
  BY <1>1, <1>4, <1>5, SectionFacts DEF PartlyBuilt
<1>7. new \in Seq(AnyVma) /\ PartlyBuilt(new, prog, n + 1)
  BY <1>1, <1>4, <1>5, <1>6, InsertKeeps DEF new
<1>8. building' \in [proc : Procs \cup {NoProc}, next : Nat, exec : BOOLEAN] /\ building'.proc = p /\ building'.next = n + 1
  BY <1>1, <1>3
<1>9. list' \in [Procs -> Seq(AnyVma)] /\ list'[p] = new /\ \A q \in Procs \ {p} : list'[q] = list[q]
  BY <1>1, <1>2, <1>7 DEF Typed
<1>10. Typed'
  <2>1. free' \in Nat
    BY <1>1, <1>3
  <2> QED BY <1>1, <1>2, <1>8, <1>9, <2>1 DEF Typed
<1>11. Good(p)'
  BY <1>1, <1>4, <1>5, <1>7, <1>8, <1>9 DEF Good, NoHeap
<1>12. ASSUME NEW q \in Procs \ {p} PROVE Good(q)'
  BY <1>1, <1>2, <1>8, <1>9, OthersStay
<1> QED BY <1>10, <1>11, <1>12 DEF IInv

(* The last step of loading: FinishKeeps, and an empty heap.                *)
LEMMA FinishInv == ASSUME IInv, AddHeapAndStack PROVE IInv'
<1> PICK p \in Procs :
      /\ building.proc = p /\ building.next = Len(program[p]) + 1 /\ free >= 2
      /\ list' = [list EXCEPT ![p] = Append(Append(@, HeapVma), StackVma)]
      /\ free' = free - 2
      /\ mapped' = [mapped EXCEPT ![p] = IF building.exec THEN @ \cup {UStackTop - PageSize} ELSE @]
      /\ building' = Done
      /\ UNCHANGED <<program, stored, Heap>>
  BY DEF AddHeapAndStack
<1> DEFINE prog == program[p]
           new == Append(Append(list[p], HeapVma), StackVma)
<1>1. /\ building.proc = p /\ building.next = Len(prog) + 1 /\ building' = Done
      /\ list' = [list EXCEPT ![p] = new] /\ free >= 2 /\ free' = free - 2
      /\ UNCHANGED <<program, stored, nodes, heap_end, blocks>>
  BY DEF Heap
<1>2. Typed /\ \A q \in Procs : Good(q)
  BY DEF IInv
<1>3. prog # <<>> /\ prog \in Programs
  BY <1>1, <1>2 DEF Good, Typed
<1>4. PartlyBuilt(list[p], prog, Len(prog) + 1) /\ NoHeap(p) /\ list[p] \in Seq(AnyVma)
  BY <1>1, <1>2, <1>3 DEF Good, Typed
<1>5. /\ new \in Seq(AnyVma) /\ Built(new) /\ Len(new) = Len(list[p]) + 2
      /\ new[Len(list[p]) + 1] = HeapVma /\ Len(list[p]) \in Nat
  BY <1>3, <1>4, FinishKeeps
<1> HIDE DEF new
<1>6. new[Len(new) - 1] = HeapVma /\ HeapVma.end = UHeapStart
  <2>1. Len(new) - 1 = Len(list[p]) + 1
    BY <1>5
  <2> QED BY <1>5, <2>1 DEF HeapVma, Vma
<1>7. list' \in [Procs -> Seq(AnyVma)] /\ list'[p] = new /\ \A q \in Procs \ {p} : list'[q] = list[q]
  BY <1>1, <1>2, <1>5 DEF Typed
<1>8. Typed'
  <2>1. free' \in Nat
    BY <1>1, <1>2 DEF Typed
  <2>2. mapped' \in [Procs -> SUBSET Nat]
    BY <1>2, AddressFacts DEF Typed
  <2> QED BY <1>1, <1>2, <1>7, <2>1, <2>2, DoneIsNobody DEF Typed
<1>9. HeapSound(<<>>, 0, <<>>, UHeapStart)
  BY NoSequence DEF HeapSound
<1>10. Good(p)'
  BY <1>1, <1>3, <1>4, <1>5, <1>6, <1>7, <1>9, DoneIsNobody DEF Good, NoHeap
<1>11. ASSUME NEW q \in Procs \ {p} PROVE Good(q)'
  BY <1>1, <1>2, <1>7, DoneIsNobody, OthersStay
<1> QED BY <1>8, <1>10, <1>11 DEF IInv

(* A process whose memory is taken away. *)
LEMMA Emptied ==
  ASSUME Typed, NEW p \in Procs, vma_remove_for_process(p), Forgotten(p)
  PROVE  /\ list' \in [Procs -> Seq(AnyVma)] /\ free' \in Nat
         /\ mapped' \in [Procs -> SUBSET Nat] /\ stored' \in [Procs -> SUBSET Nat]
         /\ nodes' \in [Procs -> Seq(AnyNode)] /\ heap_end' \in [Procs -> Nat]
         /\ blocks' \in [Procs -> Seq(AnyBlock)]
         /\ list'[p] = <<>> /\ nodes'[p] = <<>> /\ heap_end'[p] = 0 /\ blocks'[p] = <<>>
         /\ \A q \in Procs \ {p} : /\ list'[q] = list[q] /\ nodes'[q] = nodes[q]
                                   /\ heap_end'[q] = heap_end[q] /\ blocks'[q] = blocks[q]
<1>1. list' = [list EXCEPT ![p] = <<>>] /\ free' = free + Len(list[p])
  BY DEF vma_remove_for_process
<1>2. /\ nodes' = [nodes EXCEPT ![p] = <<>>] /\ heap_end' = [heap_end EXCEPT ![p] = 0]
      /\ blocks' = [blocks EXCEPT ![p] = <<>>] /\ stored' = [stored EXCEPT ![p] = {}]
  BY DEF Forgotten
<1>3. mapped' \in [Procs -> SUBSET Nat]
  BY DEF vma_remove_for_process, Typed
<1>4. free' \in Nat
  <2>1. list[p] \in Seq(AnyVma) /\ free \in Nat
    BY DEF Typed
  <2>2. Len(list[p]) \in Nat
    BY <2>1
  <2> QED BY <1>1, <2>1, <2>2
<1>5. list' \in [Procs -> Seq(AnyVma)] /\ nodes' \in [Procs -> Seq(AnyNode)] /\ blocks' \in [Procs -> Seq(AnyBlock)]
  BY <1>1, <1>2, NoSequence DEF Typed
<1>6. stored' \in [Procs -> SUBSET Nat] /\ heap_end' \in [Procs -> Nat]
  BY <1>2 DEF Typed
<1>7. list'[p] = <<>> /\ nodes'[p] = <<>> /\ heap_end'[p] = 0 /\ blocks'[p] = <<>>
  BY <1>1, <1>2 DEF Typed
<1>8. \A q \in Procs \ {p} : /\ list'[q] = list[q] /\ nodes'[q] = nodes[q]
                            /\ heap_end'[q] = heap_end[q] /\ blocks'[q] = blocks[q]
  BY <1>1, <1>2 DEF Typed
<1> QED BY <1>3, <1>4, <1>5, <1>6, <1>7, <1>8

(* delete_process leaves an unused PCB.                                     *)
LEMMA DeleteInv ==
  ASSUME IInv, building = Done, NEW p \in Procs, delete_process(p)
  PROVE  IInv'
<1>1. Typed /\ \A q \in Procs : Good(q)
  BY DEF IInv
<1>2. vma_remove_for_process(p) /\ Forgotten(p) /\ building' = building /\ program' = [program EXCEPT ![p] = <<>>]
  BY DEF delete_process
<1>3. /\ program' \in [Procs -> Programs \cup {<<>>}] /\ program'[p] = <<>>
      /\ \A q \in Procs \ {p} : program'[q] = program[q]
  BY <1>1, <1>2 DEF Typed
<1>4. Typed'
  BY <1>1, <1>2, <1>3, Emptied DEF Typed
<1>5. Good(p)'
  BY <1>1, <1>2, <1>3, Emptied, DoneIsNobody DEF Good, NoHeap
<1>6. ASSUME NEW q \in Procs \ {p} PROVE Good(q)'
  BY <1>1, <1>2, <1>3, Emptied, OthersStay
<1> QED BY <1>4, <1>5, <1>6 DEF IInv

(* execve starts to build the new program.                                  *)
LEMMA ExecInv ==
  ASSUME IInv, NEW p \in Procs, NEW new \in Programs, Exec(p, new)
  PROVE  IInv'
<1>1. Typed /\ \A q \in Procs : Good(q)
  BY DEF IInv
<1>2. /\ vma_remove_for_process(p) /\ Forgotten(p) /\ building = Done
      /\ program' = [program EXCEPT ![p] = new] /\ building' = [proc |-> p, next |-> 1, exec |-> TRUE]
  BY DEF Exec
<1>3. /\ program' \in [Procs -> Programs \cup {<<>>}] /\ program'[p] = new
      /\ \A q \in Procs \ {p} : program'[q] = program[q]
  BY <1>1, <1>2 DEF Typed
<1>4. building' \in [proc : Procs \cup {NoProc}, next : Nat, exec : BOOLEAN]
      /\ building'.proc = p /\ building'.next = 1
  BY <1>2
<1>5. Typed'
  BY <1>1, <1>2, <1>3, <1>4, Emptied DEF Typed
<1>6. Good(p)'
  BY <1>1, <1>2, <1>3, <1>4, Emptied, LoadingStarts, SectionFacts DEF Good, NoHeap
<1>7. ASSUME NEW q \in Procs \ {p} PROVE Good(q)'
  <2>1. building.proc # q /\ building'.proc # q
    BY <1>2, <1>4, DoneIsNobody
  <2> QED BY <1>1, <1>2, <1>3, <2>1, Emptied, OthersStay
<1> QED BY <1>5, <1>6, <1>7 DEF IInv

(* The child has the lists and the heap of its parent.                      *)
LEMMA ForkInv ==
  ASSUME IInv, NEW p \in Procs, NEW c \in Procs, Fork(p, c)
  PROVE  IInv'
<1>1. Typed /\ \A q \in Procs : Good(q)
  BY DEF IInv
<1>2. /\ building = Done /\ building' = building /\ program[p] # <<>> /\ program[c] = <<>>
      /\ list' = [list EXCEPT ![c] = list[p]]
      /\ free >= Len(list[p]) /\ free' = free - Len(list[p])
      /\ mapped' = [mapped EXCEPT ![c] = mapped[p] \cap VmaPages(p)]
      /\ program' = [program EXCEPT ![c] = program[p]] /\ stored' = [stored EXCEPT ![c] = stored[p]]
      /\ nodes' = [nodes EXCEPT ![c] = nodes[p]] /\ heap_end' = [heap_end EXCEPT ![c] = heap_end[p]]
      /\ blocks' = [blocks EXCEPT ![c] = blocks[p]]
  BY DEF Fork, Running
<1>3. /\ list' \in [Procs -> Seq(AnyVma)] /\ mapped' \in [Procs -> SUBSET Nat]
      /\ program' \in [Procs -> Programs \cup {<<>>}] /\ stored' \in [Procs -> SUBSET Nat]
      /\ nodes' \in [Procs -> Seq(AnyNode)] /\ heap_end' \in [Procs -> Nat]
      /\ blocks' \in [Procs -> Seq(AnyBlock)]
  BY <1>1, <1>2 DEF Typed
<1>4. free' \in Nat
  <2>1. list[p] \in Seq(AnyVma) /\ free \in Nat
    BY <1>1 DEF Typed
  <2>2. Len(list[p]) \in Nat
    BY <2>1
  <2> QED BY <1>2, <2>1, <2>2
<1>5. Typed'
  BY <1>1, <1>2, <1>3, <1>4 DEF Typed
<1>6. /\ list'[c] = list[p] /\ program'[c] = program[p] /\ nodes'[c] = nodes[p]
      /\ heap_end'[c] = heap_end[p] /\ blocks'[c] = blocks[p]
      /\ \A q \in Procs \ {c} : /\ list'[q] = list[q] /\ program'[q] = program[q] /\ nodes'[q] = nodes[q]
                                /\ heap_end'[q] = heap_end[q] /\ blocks'[q] = blocks[q]
  BY <1>1, <1>2 DEF Typed
<1>7. Good(c)'
  BY <1>1, <1>2, <1>6, DoneIsNobody DEF Good
<1>8. ASSUME NEW q \in Procs \ {c} PROVE Good(q)'
  BY <1>1, <1>2, <1>6, OthersStay
<1> QED BY <1>5, <1>7, <1>8 DEF IInv

(* The pages of a VMA are addresses.                                        *)
LEMMA PagesAreAddresses ==
  ASSUME NEW v \in AnyVma PROVE PagesOf(v) \subseteq Nat
<1>1. v.start \in Nat /\ v.end \in Nat
  BY DEF AnyVma
<1>2. AlignDown(v.start) \in Nat /\ AlignUp(v.end) \in Nat
  BY <1>1, RoundDown, RoundUp
<1> QED BY <1>2 DEF PagesOf

(* A page fault maps pages and copies sections, or kills the process.       *)
LEMMA FaultInv ==
  ASSUME IInv, NEW p \in Procs, NEW a, NEW write \in BOOLEAN, Fault(p, a, write)
  PROVE  IInv'
<1>1. building = Done /\ p \in Running
  BY DEF Fault
<1>2. CASE Accepting(p, a, write) = {}
  BY <1>1, <1>2, DeleteInv DEF Fault
<1>3. CASE Accepting(p, a, write) # {}
  <2> DEFINE v == findVMA(p, a, write)
  <2>1. /\ allocatePages(p, v) /\ copyELF(p, v)
        /\ UNCHANGED <<list, free, program, building, nodes, heap_end, blocks>>
    BY <1>3 DEF Fault, Heap
  <2>2. Typed /\ \A q \in Procs : Good(q)
    BY DEF IInv
  <2>3. v \in AnyVma
    <3>1. list[p] \in Seq(AnyVma)
      BY <2>2 DEF Typed
    <3>2. Accepting(p, a, write) \subseteq 1 .. Len(list[p]) /\ Len(list[p]) \in Nat
      BY <3>1 DEF Accepting
    <3>3. First(Accepting(p, a, write)) \in 1 .. Len(list[p])
      BY <1>3, <3>2, FirstIsLeast
    <3> QED BY <3>1, <3>3, ElementOfSeq DEF findVMA
  <2> HIDE DEF v
  <2>4. mapped' \in [Procs -> SUBSET Nat] /\ stored' \in [Procs -> SUBSET Nat]
    BY <2>1, <2>2, <2>3, PagesAreAddresses DEF allocatePages, copyELF, Typed
  <2>5. Typed'
    BY <2>1, <2>2, <2>4 DEF Typed
  <2>6. \A q \in Procs : Good(q)'
    BY <2>1, <2>2, OthersStay
  <2> QED BY <2>5, <2>6 DEF IInv
<1> QED BY <1>2, <1>3

(* A store changes what is stored only.                                     *)
LEMMA StoreInv ==
  ASSUME IInv, NEW p \in Procs, NEW i \in 1 .. Len(program[p]), Store(p, i)
  PROVE  IInv'
<1>1. /\ stored' = [stored EXCEPT ![p] = @ \cup {i}]
      /\ UNCHANGED <<list, free, program, building, mapped, nodes, heap_end, blocks>>
  BY DEF Store, Heap
<1>2. Typed /\ \A q \in Procs : Good(q)
  BY DEF IInv
<1>3. stored' \in [Procs -> SUBSET Nat]
  <2>1. i \in Nat
    OBVIOUS
  <2> QED BY <1>1, <1>2, <2>1 DEF Typed
<1>4. Typed'
  BY <1>1, <1>2, <1>3 DEF Typed
<1>5. \A q \in Procs : Good(q)'
  BY <1>1, <1>2, OthersStay
<1> QED BY <1>4, <1>5 DEF IInv

(* A step of malloc or free: only the heap of a running process changes.    *)
LEMMA HeapStep ==
  ASSUME IInv, NEW p \in Procs, building = Done, p \in Running,
         UNCHANGED <<free, program, building, mapped, stored>>,
         NEW l \in Seq(AnyVma), NEW ns \in Seq(AnyNode), NEW t \in Nat, NEW bs \in Seq(AnyBlock),
         list' = [list EXCEPT ![p] = l], nodes' = [nodes EXCEPT ![p] = ns],
         heap_end' = [heap_end EXCEPT ![p] = t], blocks' = [blocks EXCEPT ![p] = bs],
         Built(l), HeapSound(ns, t, bs, l[Len(l) - 1].end)
  PROVE  IInv'
<1>1. Typed /\ \A q \in Procs : Good(q)
  BY DEF IInv
<1>2. /\ list' \in [Procs -> Seq(AnyVma)] /\ nodes' \in [Procs -> Seq(AnyNode)]
      /\ heap_end' \in [Procs -> Nat] /\ blocks' \in [Procs -> Seq(AnyBlock)]
      /\ list'[p] = l /\ nodes'[p] = ns /\ heap_end'[p] = t /\ blocks'[p] = bs
      /\ \A q \in Procs \ {p} : /\ list'[q] = list[q] /\ nodes'[q] = nodes[q]
                                /\ heap_end'[q] = heap_end[q] /\ blocks'[q] = blocks[q]
  BY <1>1 DEF Typed
<1>3. Typed'
  BY <1>1, <1>2 DEF Typed
<1>4. Good(p)'
  <2>1. program'[p] # <<>> /\ building'.proc # p
    BY DoneIsNobody DEF Running
  <2> QED BY <1>2, <2>1 DEF Good
<1>5. ASSUME NEW q \in Procs \ {p} PROVE Good(q)'
  BY <1>1, <1>2, OthersStay
<1> QED BY <1>3, <1>4, <1>5 DEF IInv

(* What is known of a process that runs. *)
LEMMA RunningFacts ==
  ASSUME IInv, NEW p \in Procs, p \in Running
  PROVE  /\ list[p] \in Seq(AnyVma) /\ nodes[p] \in Seq(AnyNode)
         /\ heap_end[p] \in Nat /\ blocks[p] \in Seq(AnyBlock)
         /\ Built(list[p]) /\ HeapIndex(p) = Len(list[p]) - 1
         /\ Len(list[p]) \in Nat /\ HeapIndex(p) \in 1 .. Len(list[p])
         /\ list[p][HeapIndex(p)].end \in Nat /\ UHeapStart <= list[p][HeapIndex(p)].end
         /\ HeapSound(nodes[p], heap_end[p], blocks[p], list[p][HeapIndex(p)].end)
<1>1. /\ list[p] \in Seq(AnyVma) /\ nodes[p] \in Seq(AnyNode)
      /\ heap_end[p] \in Nat /\ blocks[p] \in Seq(AnyBlock)
  BY DEF IInv, Typed
<1>2. /\ Built(list[p])
      /\ HeapSound(nodes[p], heap_end[p], blocks[p], list[p][Len(list[p]) - 1].end)
  BY DEF IInv, Good, Running
<1>3. HeapIndex(p) = Len(list[p]) - 1
  BY <1>1, <1>2, HeapVmaFound DEF HeapIndex
<1>4. Len(list[p]) \in Nat /\ HeapIndex(p) \in 1 .. Len(list[p])
  BY <1>1, <1>2, <1>3 DEF Built
<1>5. list[p][HeapIndex(p)] \in AnyVma
  BY <1>1, <1>4, ElementOfSeq
<1>6. list[p][HeapIndex(p)].end \in Nat /\ UHeapStart <= list[p][HeapIndex(p)].end
  BY <1>2, <1>3, <1>5 DEF Built, Aligned, AnyVma
<1> QED BY <1>1, <1>2, <1>3, <1>4, <1>6

(* The best fit exists when a node fits, and is one of them. *)
LEMMA BestFits ==
  ASSUME NEW p \in Procs, NEW size \in Nat, nodes[p] \in Seq(AnyNode), Fitting(p, size) # {}
  PROVE  /\ BestFit(p, size) \in 1 .. Len(nodes[p])
         /\ nodes[p][BestFit(p, size)].isFree /\ size <= nodes[p][BestFit(p, size)].size
<1> DEFINE S == Fitting(p, size)
           T == {nodes[p][i].size : i \in S}
           best == {i \in S : \A j \in S : nodes[p][i].size <= nodes[p][j].size}
<1>1. S \subseteq 1 .. Len(nodes[p]) /\ S # {} /\ Len(nodes[p]) \in Nat
  BY DEF Fitting
<1>2. T \subseteq Nat /\ T # {}
  BY <1>1, NodeFacts
<1>3. PICK x \in T : \A y \in T : x <= y
  <2> HIDE DEF T
  <2> QED BY <1>2, LeastNatural
<1>4. PICK i \in S : nodes[p][i].size = x
  BY <1>3
<1>5. i \in best
  BY <1>3, <1>4
<1>6. best # {} /\ best \subseteq S /\ S \subseteq Nat
  <2>1. best \subseteq S
    OBVIOUS
  <2>2. S \subseteq Nat
    BY <1>1
  <2> QED BY <1>5, <2>1, <2>2
<1> HIDE DEF best
<1>7. First(best) \in S
  <2>1. best \subseteq Nat
    BY <1>6
  <2> QED BY <1>6, <2>1, FirstIsLeast
<1>8. BestFit(p, size) \in S
  BY <1>7 DEF BestFit, best
<1> QED BY <1>1, <1>8 DEF Fitting

(* malloc: AgainKeeps for a node used again, TopKeeps, BrkKeeps and NewKeeps for a new one. *)
LEMMA MallocInv ==
  ASSUME IInv, NEW p \in Procs, NEW size \in Sizes, malloc(p, size)
  PROVE  IInv'
<1> DEFINE h == HeapIndex(p)
           e == list[p][h].end
<1>1. building = Done /\ p \in Running /\ UNCHANGED <<free, program, building, mapped, stored>>
  BY DEF malloc
<1>2. size \in Nat /\ size >= 1
  BY SizesAssumption
<1>3. /\ list[p] \in Seq(AnyVma) /\ nodes[p] \in Seq(AnyNode)
      /\ heap_end[p] \in Nat /\ blocks[p] \in Seq(AnyBlock)
      /\ Built(list[p]) /\ h = Len(list[p]) - 1
      /\ e \in Nat /\ UHeapStart <= e
      /\ HeapSound(nodes[p], heap_end[p], blocks[p], e)
  BY <1>1, RunningFacts
<1>4. Typed
  BY DEF IInv
<1>5. CASE MallocAgain(p, size)
  <2> DEFINE i == BestFit(p, size)
             ns == [nodes[p] EXCEPT ![i].isFree = FALSE]
             bs == Append(blocks[p], [ptr |-> nodes[p][i].mem_ptr, size |-> size])
  <2>1. i \in 1 .. Len(nodes[p]) /\ nodes[p][i].isFree /\ size <= nodes[p][i].size
    BY <1>2, <1>3, <1>5, BestFits DEF MallocAgain
  <2> HIDE DEF i
  <2>2. ns \in Seq(AnyNode) /\ bs \in Seq(AnyBlock) /\ HeapSound(ns, heap_end[p], bs, e)
    BY <1>2, <1>3, <2>1, AgainKeeps
  <2>3. /\ nodes' = [nodes EXCEPT ![p] = ns] /\ blocks' = [blocks EXCEPT ![p] = bs]
        /\ list' = [list EXCEPT ![p] = list[p]] /\ heap_end' = [heap_end EXCEPT ![p] = heap_end[p]]
    <3>1. UNCHANGED <<list, heap_end>> /\ list = [list EXCEPT ![p] = list[p]] /\ heap_end = [heap_end EXCEPT ![p] = heap_end[p]]
      BY <1>4, <1>5 DEF MallocAgain, Typed
    <3>2. nodes' = [nodes EXCEPT ![p][i].isFree = FALSE]
      BY <1>5 DEF MallocAgain, i
    <3>3. blocks' = [blocks EXCEPT ![p] = bs]
      BY <1>5 DEF MallocAgain, Given, i
    <3> QED BY <3>1, <3>2, <3>3
  <2> HIDE DEF ns, bs
  <2> QED BY <1>1, <1>3, <2>2, <2>3, HeapStep
<1>6. CASE MallocNew(p, size)
  <2> DEFINE t == HeapTop(p)
  <2>1. t \in Nat /\ UHeapStart <= t /\ t <= e /\ HeapSound(nodes[p], t, blocks[p], e)
    BY <1>3, TopKeeps DEF HeapTop
  <2>2. CASE BrkFails(t + size)
    <3>1. /\ list' = [list EXCEPT ![p] = list[p]] /\ heap_end' = [heap_end EXCEPT ![p] = t]
          /\ nodes' = [nodes EXCEPT ![p] = nodes[p]] /\ blocks' = [blocks EXCEPT ![p] = blocks[p]]
      BY <1>4, <1>6, <2>2 DEF MallocNew, Typed
    <3> QED BY <1>1, <1>3, <2>1, <3>1, HeapStep
  <2>3. CASE ~BrkFails(t + size)
    <3> DEFINE l == [list[p] EXCEPT ![h].end = IF t + size > @ THEN AlignUp(t + size) ELSE @]
               ns == Append(nodes[p], [size |-> size, mem_ptr |-> t, isFree |-> FALSE])
               bs == Append(blocks[p], [ptr |-> t, size |-> size])
    <3>1. /\ list' = [list EXCEPT ![p] = l] /\ heap_end' = [heap_end EXCEPT ![p] = t + size]
          /\ nodes' = [nodes EXCEPT ![p] = ns] /\ blocks' = [blocks EXCEPT ![p] = bs]
      BY <1>6, <2>3 DEF MallocNew, Brk, Given
    <3> HIDE DEF t
    <3>2. t + size \in Nat
      BY <1>2, <2>1
    <3>3. /\ l \in Seq(AnyVma) /\ Built(l) /\ Len(l) = Len(list[p])
          /\ l[h].end \in Nat /\ t + size <= l[h].end
      <4> DEFINE u == t + size
      <4>1. list[p] \in Seq(AnyVma) /\ Built(list[p]) /\ h = Len(list[p]) - 1
        BY <1>3
      <4>2. u \in Nat /\ ~BrkFails(u)
        BY <2>3, <3>2
      <4>3. l = WithTop(list[p], u)
        BY <4>1 DEF WithTop
      <4> HIDE DEF l, u, h
      <4>4. /\ l \in Seq(AnyVma) /\ Built(l) /\ Len(l) = Len(list[p])
            /\ l[h].end \in Nat /\ u <= l[h].end
        BY <4>1, <4>2, <4>3, BrkKeeps
      <4> QED BY <4>4 DEF u
    <3> HIDE DEF l
    <3>4. ns \in Seq(AnyNode) /\ bs \in Seq(AnyBlock) /\ HeapSound(ns, t + size, bs, l[h].end)
      BY <1>2, <1>3, <2>1, <3>3, NewKeeps
    <3> HIDE DEF ns, bs
    <3> QED BY <1>1, <1>3, <3>1, <3>2, <3>3, <3>4, HeapStep
  <2> QED BY <2>2, <2>3
<1> QED BY <1>5, <1>6 DEF malloc

(* free: FreeKeeps.                                                         *)
LEMMA FreeInv ==
  ASSUME IInv, NEW p \in Procs, NEW k \in 1 .. Len(blocks[p]), free_block(p, k)
  PROVE  IInv'
<1> DEFINE ns == Freed(p, blocks[p][k].ptr)
           bs == SubSeq(blocks[p], 1, k - 1) \o SubSeq(blocks[p], k + 1, Len(blocks[p]))
<1>1. /\ building = Done /\ p \in Running /\ UNCHANGED <<free, program, building, mapped, stored>>
      /\ nodes' = [nodes EXCEPT ![p] = ns] /\ blocks' = [blocks EXCEPT ![p] = bs]
      /\ UNCHANGED <<list, heap_end>>
  BY DEF free_block
<1>2. /\ list[p] \in Seq(AnyVma) /\ nodes[p] \in Seq(AnyNode)
      /\ heap_end[p] \in Nat /\ blocks[p] \in Seq(AnyBlock)
      /\ Built(list[p]) /\ HeapIndex(p) = Len(list[p]) - 1
      /\ list[p][HeapIndex(p)].end \in Nat
      /\ HeapSound(nodes[p], heap_end[p], blocks[p], list[p][HeapIndex(p)].end)
  BY <1>1, RunningFacts
<1>3. ns \in Seq(AnyNode) /\ bs \in Seq(AnyBlock) /\ HeapSound(ns, heap_end[p], bs, list[p][HeapIndex(p)].end)
  BY <1>2, FreeKeeps DEF Freed
<1>4. list' = [list EXCEPT ![p] = list[p]] /\ heap_end' = [heap_end EXCEPT ![p] = heap_end[p]]
  BY <1>1 DEF IInv, Typed
<1> HIDE DEF ns, bs
<1> QED BY <1>1, <1>2, <1>3, <1>4, HeapStep

(* Every step preserves the inductive invariant.                            *)
LEMMA NextInv == ASSUME IInv, Next PROVE IInv'
<1>1. CASE MergeSection
  BY <1>1, MergeInv
<1>2. CASE InsertSection
  BY <1>2, InsertInv
<1>3. CASE AddHeapAndStack
  BY <1>3, FinishInv
<1>4. ASSUME NEW p \in Procs, Exit(p) PROVE IInv'
  BY <1>4, DeleteInv DEF Exit
<1>5. ASSUME NEW p \in Procs, Touch(p) PROVE IInv'
  BY <1>5, FaultInv DEF Touch
<1>6. ASSUME NEW p \in Procs, NEW new \in Programs, Exec(p, new) PROVE IInv'
  BY <1>6, ExecInv
<1>7. ASSUME NEW p \in Procs, NEW c \in Procs, Fork(p, c) PROVE IInv'
  BY <1>7, ForkInv
<1>8. ASSUME NEW p \in Procs, NEW i \in 1 .. Len(program[p]), Store(p, i) PROVE IInv'
  BY <1>8, StoreInv
<1>9. ASSUME NEW p \in Procs, NEW size \in Sizes, malloc(p, size) PROVE IInv'
  BY <1>9, MallocInv
<1>10. ASSUME NEW p \in Procs, NEW k \in 1 .. Len(blocks[p]), free_block(p, k) PROVE IInv'
  BY <1>10, FreeInv
<1> QED BY <1>1, <1>2, <1>3, <1>4, <1>5, <1>6, <1>7, <1>8, <1>9, <1>10 DEF Next

(* The inductive invariant holds in every state, whatever programs do. *)
THEOREM Invariance == Spec => []IInv
<1>1. IInv /\ [Next]_vars => IInv'
  <2> SUFFICES ASSUME IInv, [Next]_vars PROVE IInv'
    OBVIOUS
  <2>1. CASE Next
    BY <2>1, NextInv
  <2>2. CASE UNCHANGED vars
    <3>1. UNCHANGED <<list, free, program, building, mapped, stored, nodes, heap_end, blocks>>
      BY <2>2 DEF vars
    <3>2. Typed'
      BY <3>1 DEF IInv, Typed
    <3>3. \A p \in Procs : Good(p)'
      BY <3>1, OthersStay DEF IInv
    <3> QED BY <3>2, <3>3 DEF IInv
  <2> QED BY <2>1, <2>2
<1> QED BY <1>1, InitInv, PTL DEF Spec

(* The VMAs of every process ascend and share no page, so that findVMA, the *)
(* tables built from them and the pages freed at exit never mistake one for *)
(* another.                                                                 *)
THEOREM VmasAscend == Spec => []VmasApart
<1>1. IInv => VmasApart
  <2> SUFFICES ASSUME IInv, NEW p \in Procs PROVE Ascending(list[p])
    BY DEF VmasApart, Ascending
  <2>1. Good(p)
    BY DEF IInv
  <2>2. CASE program[p] = <<>>
    BY <2>1, <2>2, NoSequence DEF Good, Ascending
  <2>3. CASE program[p] # <<>>
    BY <2>1, <2>3 DEF Good, PartlyBuilt, Built
  <2> QED BY <2>2, <2>3
<1> QED BY <1>1, Invariance, PTL

(* The blocks malloc has given to a program, and that it has not freed, do  *)
(* not overlap and lie in its heap VMA, however it mixes malloc and free    *)
(* and whatever sizes it asks for.                                          *)
THEOREM HeapBlocks == Spec => []BlocksApart
<1>1. IInv => BlocksApart
  <2> SUFFICES ASSUME IInv, NEW p \in Procs, building.proc # p, NEW i \in 1 .. Len(blocks[p])
               PROVE  /\ UHeapStart <= blocks[p][i].ptr
                      /\ blocks[p][i].ptr + blocks[p][i].size <= list[p][HeapIndex(p)].end
                      /\ \A j \in 1 .. Len(blocks[p]) : i < j =>
                           \/ blocks[p][i].ptr + blocks[p][i].size <= blocks[p][j].ptr
                           \/ blocks[p][j].ptr + blocks[p][j].size <= blocks[p][i].ptr
    BY DEF BlocksApart
  <2>1. p \in Running
    <3>1. Good(p)
      BY DEF IInv
    <3>2. program[p] # <<>>
      BY <3>1, NoSequence DEF Good, NoHeap
    <3> QED BY <3>2 DEF Running
  <2>2. /\ nodes[p] \in Seq(AnyNode) /\ heap_end[p] \in Nat /\ blocks[p] \in Seq(AnyBlock)
        /\ list[p][HeapIndex(p)].end \in Nat
        /\ HeapSound(nodes[p], heap_end[p], blocks[p], list[p][HeapIndex(p)].end)
    BY <2>1, RunningFacts
  <2> QED BY <2>2, SoundApart
<1> QED BY <1>1, Invariance, PTL

-----------------------------------------------------------------------------
(* vma_free_list.                                                          *)

(* The VMAs in use in the lists l of all processes.                         *)
InUse(l) == {u \in Procs \X Nat : u[2] \in 1 .. Len(l[u[1]])}
VmasCounted == IsFiniteSet(InUse(list)) /\ free + Cardinality(InUse(list)) = NumVmas

(* n VMAs of one process. *)
Column(p, n) == {u \in Procs \X Nat : u[1] = p /\ u[2] \in 1 .. n}

(* They are n.                                                              *)
LEMMA ColumnCounted ==
  ASSUME NEW p \in Procs, NEW n \in Nat
  PROVE  IsFiniteSet(Column(p, n)) /\ Cardinality(Column(p, n)) = n
<1> DEFINE g == [i \in 1 .. n |-> <<p, i>>]
<1>1. g \in [1 .. n -> Column(p, n)]
  BY DEF Column
<1>2. \A i, j \in 1 .. n : g[i] = g[j] => i = j
  OBVIOUS
<1>3. \A u \in Column(p, n) : \E i \in 1 .. n : g[i] = u
  <2> SUFFICES ASSUME NEW u \in Column(p, n) PROVE u[2] \in 1 .. n /\ g[u[2]] = u
    OBVIOUS
  <2> QED BY DEF Column
<1> HIDE DEF g
<1>4. g \in Bijection(1 .. n, Column(p, n))
  BY <1>1, <1>2, <1>3 DEF Bijection, Injection, Surjection, IsInjective
<1>5. IsFiniteSet(1 .. n) /\ Cardinality(1 .. n) = n
  BY FS_Interval
<1> QED BY <1>4, <1>5, FS_Bijection DEF ExistsBijection

(* The list of one process is exchanged for another. *)
LEMMA ListExchanged ==
  ASSUME NEW l \in [Procs -> Seq(AnyVma)], NEW m \in [Procs -> Seq(AnyVma)], NEW p \in Procs,
         \A q \in Procs \ {p} : m[q] = l[q], IsFiniteSet(InUse(l))
  PROVE  /\ IsFiniteSet(InUse(m))
         /\ Cardinality(InUse(m)) = Cardinality(InUse(l)) - Len(l[p]) + Len(m[p])
<1> DEFINE Rest == {u \in InUse(l) : u[1] # p}
           L == Column(p, Len(l[p]))
           K == Column(p, Len(m[p]))
<1>1. Len(l[p]) \in Nat /\ Len(m[p]) \in Nat
  <2>1. l[p] \in Seq(AnyVma) /\ m[p] \in Seq(AnyVma)
    OBVIOUS
  <2> QED BY <2>1
<1>2. /\ IsFiniteSet(L) /\ Cardinality(L) = Len(l[p])
      /\ IsFiniteSet(K) /\ Cardinality(K) = Len(m[p])
  BY <1>1, ColumnCounted
<1>3. IsFiniteSet(Rest)
  BY FS_Subset
<1>4. InUse(l) = Rest \cup L /\ Rest \cap L = {}
  BY DEF InUse, Column
<1>5. InUse(m) = Rest \cup K /\ Rest \cap K = {}
  BY DEF InUse, Column
<1> HIDE DEF Rest, L, K
<1>6. Cardinality(Rest) \in Nat
  BY <1>3, FS_CardinalityType
<1>7. Cardinality(InUse(l)) = Cardinality(Rest) + Len(l[p])
  <2>1. Cardinality(Rest \cup L) = Cardinality(Rest) + Cardinality(L) - Cardinality(Rest \cap L)
    BY <1>2, <1>3, FS_Union
  <2>2. Cardinality(Rest \cap L) = 0
    BY <1>4, FS_EmptySet
  <2>3. Cardinality(Rest \cup L) = Cardinality(Rest) + Cardinality(L)
    BY <1>1, <1>2, <1>6, <2>1, <2>2
  <2> QED BY <1>2, <1>4, <2>1, <2>3
<1>8. IsFiniteSet(InUse(m)) /\ Cardinality(InUse(m)) = Cardinality(Rest) + Len(m[p])
  <2>1. /\ IsFiniteSet(Rest \cup K)
        /\ Cardinality(Rest \cup K) = Cardinality(Rest) + Cardinality(K) - Cardinality(Rest \cap K)
    BY <1>2, <1>3, FS_Union
  <2>2. Cardinality(Rest \cap K) = 0
    BY <1>5, FS_EmptySet
  <2>3. Cardinality(Rest \cup K) = Cardinality(Rest) + Cardinality(K)
    BY <1>1, <1>2, <1>6, <2>1, <2>2
  <2> QED BY <1>2, <1>5, <2>1, <2>3
<1> QED BY <1>1, <1>6, <1>7, <1>8

(* What a process takes comes from vma_free_list, what it gives goes there. *)
LEMMA StillCounted ==
  ASSUME IInv, IInv', VmasCounted, NEW p \in Procs,
         \A q \in Procs \ {p} : list'[q] = list[q],
         free' = free + Len(list[p]) - Len(list'[p])
  PROVE  VmasCounted'
<1>1. list \in [Procs -> Seq(AnyVma)] /\ list' \in [Procs -> Seq(AnyVma)] /\ free \in Nat
  BY DEF IInv, Typed
<1>2. Len(list[p]) \in Nat /\ Len(list'[p]) \in Nat
  <2>1. list[p] \in Seq(AnyVma) /\ list'[p] \in Seq(AnyVma)
    BY <1>1
  <2> QED BY <2>1
<1>3. /\ IsFiniteSet(InUse(list'))
      /\ Cardinality(InUse(list')) = Cardinality(InUse(list)) - Len(list[p]) + Len(list'[p])
  BY <1>1, ListExchanged DEF VmasCounted
<1>4. Cardinality(InUse(list)) \in Nat /\ free + Cardinality(InUse(list)) = NumVmas
  BY FS_CardinalityType DEF VmasCounted
<1>5. InUse(list)' = InUse(list')
  BY DEF InUse
<1> QED BY <1>1, <1>2, <1>3, <1>4, <1>5 DEF VmasCounted

(* The list of a process keeps its length. *)
LEMMA LengthKept ==
  ASSUME IInv, IInv', VmasCounted, NEW p \in Procs, NEW s, list' = [list EXCEPT ![p] = s],
         Len(s) = Len(list[p]), free' = free
  PROVE  VmasCounted'
<1>1. list \in [Procs -> Seq(AnyVma)] /\ free \in Nat
  BY DEF IInv, Typed
<1>2. list'[p] = s /\ \A q \in Procs \ {p} : list'[q] = list[q]
  BY <1>1
<1>3. Len(list[p]) \in Nat
  <2>1. list[p] \in Seq(AnyVma)
    BY <1>1
  <2> QED BY <2>1
<1>4. Len(list'[p]) = Len(list[p])
  BY <1>2
<1>5. free' = free + Len(list[p]) - Len(list'[p])
  <2> DEFINE n == Len(list[p])
             m == Len(list'[p])
  <2> HIDE DEF n, m
  <2>1. n \in Nat /\ m = n
    BY <1>3, <1>4 DEF n, m
  <2>2. free' = free + n - m
    BY <1>1, <2>1
  <2> QED BY <2>2 DEF n, m
<1> QED BY <1>2, <1>5, StillCounted

(* The VMAs of a process go back to vma_free_list. *)
LEMMA RemovedCounted ==
  ASSUME IInv, IInv', VmasCounted, NEW p \in Procs, vma_remove_for_process(p)
  PROVE  VmasCounted'
<1>1. list' = [list EXCEPT ![p] = <<>>] /\ free' = free + Len(list[p])
  BY DEF vma_remove_for_process
<1>2. list \in [Procs -> Seq(AnyVma)] /\ free \in Nat
  BY DEF IInv, Typed
<1>3. list'[p] = <<>> /\ \A q \in Procs \ {p} : list'[q] = list[q]
  BY <1>1, <1>2
<1>4. Len(list[p]) \in Nat
  <2>1. list[p] \in Seq(AnyVma)
    BY <1>2
  <2> QED BY <2>1
<1>5. free' = free + Len(list[p]) - Len(list'[p])
  BY <1>1, <1>2, <1>3, <1>4, NoSequence
<1> QED BY <1>3, <1>5, StillCounted

(* A VMA taken from vma_free_list.                                          *)
LEMMA AppendedCounted ==
  ASSUME IInv, IInv', VmasCounted, NEW p \in Procs, NEW v \in AnyVma,
         list' = [list EXCEPT ![p] = Append(@, v)], free' = free - 1
  PROVE  VmasCounted'
<1>1. list \in [Procs -> Seq(AnyVma)] /\ free \in Nat
  BY DEF IInv, Typed
<1>2. list[p] \in Seq(AnyVma) /\ Len(list[p]) \in Nat
  BY <1>1
<1>3. list'[p] = Append(list[p], v) /\ \A q \in Procs \ {p} : list'[q] = list[q]
  BY <1>1
<1>4. Len(list'[p]) = Len(list[p]) + 1
  BY <1>2, <1>3, AppendProperties
<1>5. free' = free + Len(list[p]) - Len(list'[p])
  BY <1>1, <1>2, <1>4
<1> QED BY <1>3, <1>5, StillCounted

(* A merge takes no VMA.                                                    *)
LEMMA MergeCounted == ASSUME IInv, IInv', VmasCounted, MergeSection PROVE VmasCounted'
<1> PICK p \in Procs :
      LET s     == program[p][building.next]
          found == Matching(list[p], s)
      IN /\ building.proc = p /\ building.next <= Len(program[p]) /\ found # {}
         /\ list' = [list EXCEPT ![p][First(found)] = Grown(@, s)]
         /\ building' = [building EXCEPT !.next = @ + 1]
         /\ UNCHANGED <<free, program, mapped, stored, Heap>>
  BY DEF MergeSection
<1> DEFINE s == program[p][building.next]
           found == Matching(list[p], s)
           new == [list[p] EXCEPT ![First(found)] = Grown(@, s)]
<1>1. list' = [list EXCEPT ![p] = new] /\ free' = free
  OBVIOUS
<1>2. list[p] \in Seq(AnyVma) /\ Len(list[p]) \in Nat
  <2>1. list[p] \in Seq(AnyVma)
    BY DEF IInv, Typed
  <2> QED BY <2>1
<1>3. list'[p] = new /\ list'[p] \in Seq(AnyVma)
  BY <1>1 DEF IInv, Typed
<1>4. Len(new) = Len(list[p])
  BY <1>2
<1> HIDE DEF new
<1> QED BY <1>1, <1>4, LengthKept

(* insert_vma takes one.                                                    *)
LEMMA InsertCounted == ASSUME IInv, IInv', VmasCounted, InsertSection PROVE VmasCounted'
<1> PICK p \in Procs :
      LET s == program[p][building.next]
      IN /\ building.proc = p /\ building.next <= Len(program[p])
         /\ Matching(list[p], s) = {} /\ free >= 1
         /\ list' = [list EXCEPT ![p] = Append(@, Inserted(s))]
         /\ free' = free - 1
         /\ building' = [building EXCEPT !.next = @ + 1]
         /\ UNCHANGED <<program, mapped, stored, Heap>>
  BY DEF InsertSection
<1> DEFINE v == Inserted(program[p][building.next])
<1>1. list' = [list EXCEPT ![p] = Append(@, v)] /\ free' = free - 1
  OBVIOUS
<1>2. v \in AnyVma
  <2>1. Typed /\ Good(p)
    BY DEF IInv
  <2>2. program[p] \in Programs /\ program[p] # <<>> /\ building.next \in 1 .. Len(program[p])
    <3>1. program[p] # <<>>
      BY <2>1 DEF Good
    <3>2. program[p] \in Programs
      BY <2>1, <3>1 DEF Typed
    <3>3. building.next \in 1 .. Len(program[p]) + 1
      BY <2>1, <3>1 DEF Good, PartlyBuilt
    <3>4. Len(program[p]) \in Nat
      BY <3>2, SectionFacts
    <3> QED BY <3>1, <3>2, <3>3, <3>4
  <2> QED BY <2>2, InsertedFacts
<1> HIDE DEF v
<1> QED BY <1>1, <1>2, AppendedCounted

(* The heap and the stack take two.                                         *)
LEMMA FinishCounted == ASSUME IInv, IInv', VmasCounted, AddHeapAndStack PROVE VmasCounted'
<1> PICK p \in Procs :
      /\ building.proc = p /\ building.next = Len(program[p]) + 1 /\ free >= 2
      /\ list' = [list EXCEPT ![p] = Append(Append(@, HeapVma), StackVma)]
      /\ free' = free - 2
      /\ mapped' = [mapped EXCEPT ![p] = IF building.exec THEN @ \cup {UStackTop - PageSize} ELSE @]
      /\ building' = Done
      /\ UNCHANGED <<program, stored, Heap>>
  BY DEF AddHeapAndStack
<1>1. list \in [Procs -> Seq(AnyVma)] /\ free \in Nat
  BY DEF IInv, Typed
<1>2. list[p] \in Seq(AnyVma) /\ Len(list[p]) \in Nat
  BY <1>1
<1>3. list'[p] = Append(Append(list[p], HeapVma), StackVma) /\ \A q \in Procs \ {p} : list'[q] = list[q]
  BY <1>1
<1>4. /\ Append(list[p], HeapVma) \in Seq(AnyVma)
      /\ Len(Append(list[p], HeapVma)) = Len(list[p]) + 1
  BY <1>2, HeapStackTypes, AppendProperties
<1>5. Len(list'[p]) = Len(list[p]) + 2
  BY <1>2, <1>3, <1>4, HeapStackTypes, AppendProperties
<1>6. free' = free + Len(list[p]) - Len(list'[p])
  BY <1>1, <1>2, <1>5
<1> QED BY <1>3, <1>6, StillCounted

(* fork takes as many as the parent has, for a PCB that has none.           *)
LEMMA ForkCounted ==
  ASSUME IInv, IInv', VmasCounted, NEW p \in Procs, NEW c \in Procs, Fork(p, c)
  PROVE  VmasCounted'
<1>1. list' = [list EXCEPT ![c] = list[p]] /\ free' = free - Len(list[p]) /\ program[c] = <<>>
  BY DEF Fork
<1>2. list \in [Procs -> Seq(AnyVma)] /\ free \in Nat
  BY DEF IInv, Typed
<1>3. list'[c] = list[p] /\ \A q \in Procs \ {c} : list'[q] = list[q]
  BY <1>1, <1>2
<1>4. list[c] = <<>>
  BY <1>1 DEF IInv, Good
<1>5. Len(list[p]) \in Nat
  <2>1. list[p] \in Seq(AnyVma)
    BY <1>2
  <2> QED BY <2>1
<1>6. free' = free + Len(list[c]) - Len(list'[c])
  BY <1>1, <1>2, <1>3, <1>4, <1>5, NoSequence
<1> QED BY <1>3, <1>6, StillCounted

(* Steps that leave the lists alone.                                        *)
LEMMA ListKept ==
  ASSUME VmasCounted, UNCHANGED <<list, free>> PROVE VmasCounted'
BY DEF VmasCounted, InUse

(* A process killed by a page fault gives back its VMAs, another keeps them. *)
LEMMA FaultCounted ==
  ASSUME IInv, IInv', VmasCounted, NEW p \in Procs, NEW a, NEW write, Fault(p, a, write)
  PROVE  VmasCounted'
BY RemovedCounted, ListKept DEF Fault, delete_process

(* brk grows a VMA and takes none.                                          *)
LEMMA MallocCounted ==
  ASSUME IInv, IInv', VmasCounted, NEW p \in Procs, NEW size \in Sizes, malloc(p, size)
  PROVE  VmasCounted'
<1>1. free' = free /\ p \in Running
  BY DEF malloc
<1>2. CASE list' = list
  BY <1>1, <1>2, ListKept
<1>3. CASE Brk(p, HeapTop(p) + size)
  <2> DEFINE new == [list[p] EXCEPT ![HeapIndex(p)].end =
                       IF HeapTop(p) + size > @ THEN AlignUp(HeapTop(p) + size) ELSE @]
  <2>1. list' = [list EXCEPT ![p] = new]
    BY <1>3 DEF Brk
  <2>2. list[p] \in Seq(AnyVma)
    BY <1>1, RunningFacts
  <2>3. Len(new) = Len(list[p])
    <3>1. list'[p] = new /\ list'[p] \in Seq(AnyVma)
      BY <2>1 DEF IInv, Typed
    <3> QED BY <2>2
  <2> HIDE DEF new
  <2> QED BY <1>1, <2>1, <2>3, LengthKept
<1> QED BY <1>2, <1>3 DEF malloc, MallocAgain, MallocNew

(* Every step keeps the count.                                              *)
LEMMA NextCounted == ASSUME IInv, IInv', VmasCounted, Next PROVE VmasCounted'
<1>1. CASE MergeSection
  BY <1>1, MergeCounted
<1>2. CASE InsertSection
  BY <1>2, InsertCounted
<1>3. CASE AddHeapAndStack
  BY <1>3, FinishCounted
<1>4. ASSUME NEW p \in Procs, Exit(p) PROVE VmasCounted'
  BY <1>4, RemovedCounted DEF Exit, delete_process
<1>5. ASSUME NEW p \in Procs, Touch(p) PROVE VmasCounted'
  BY <1>5, FaultCounted DEF Touch
<1>6. ASSUME NEW p \in Procs, NEW new \in Programs, Exec(p, new) PROVE VmasCounted'
  BY <1>6, RemovedCounted DEF Exec
<1>7. ASSUME NEW p \in Procs, NEW c \in Procs, Fork(p, c) PROVE VmasCounted'
  BY <1>7, ForkCounted
<1>8. ASSUME NEW p \in Procs, NEW i \in 1 .. Len(program[p]), Store(p, i) PROVE VmasCounted'
  BY <1>8, ListKept DEF Store
<1>9. ASSUME NEW p \in Procs, NEW size \in Sizes, malloc(p, size) PROVE VmasCounted'
  BY <1>9, MallocCounted
<1>10. ASSUME NEW p \in Procs, NEW k \in 1 .. Len(blocks[p]), free_block(p, k) PROVE VmasCounted'
  BY <1>10, ListKept DEF free_block
<1> QED BY <1>1, <1>2, <1>3, <1>4, <1>5, <1>6, <1>7, <1>8, <1>9, <1>10 DEF Next

(* At boot all VMAs are free.                                               *)
LEMMA InitCounted == Init => VmasCounted
<1> SUFFICES ASSUME Init PROVE VmasCounted
  OBVIOUS
<1>1. list = [p \in Procs |-> <<>>] /\ free = NumVmas /\ NumVmas \in Nat
  BY SizesAssumption DEF Init
<1>2. \A p \in Procs : list[p] = <<>> /\ Len(list[p]) = 0
  BY <1>1, NoSequence
<1>3. InUse(list) = {}
  BY <1>2 DEF InUse
<1> QED BY <1>1, <1>3, FS_EmptySet DEF VmasCounted

(* Every VMA is on vma_free_list or in the list of one process: exit,       *)
(* execve and a process killed in a page fault give back each of theirs     *)
(* once, so vma_free_list never runs out for good nor holds one twice.      *)
THEOREM NoVmaLost == Spec => []VmasCounted
<1>1. IInv /\ IInv' /\ VmasCounted /\ [Next]_vars => VmasCounted'
  <2> SUFFICES ASSUME IInv, IInv', VmasCounted, [Next]_vars PROVE VmasCounted'
    OBVIOUS
  <2>1. CASE Next
    BY <2>1, NextCounted
  <2>2. CASE UNCHANGED vars
    BY <2>2, ListKept DEF vars
  <2> QED BY <2>1, <2>2
<1> QED BY <1>1, InitCounted, Invariance, PTL DEF Spec

(* The variables keep their types; vma_free_list never holds more VMAs than *)
(* the kernel made.                                                         *)
THEOREM TypeCorrect == Spec => []TypeOK
<1>1. IInv /\ VmasCounted => TypeOK
  <2> SUFFICES ASSUME IInv, VmasCounted PROVE TypeOK
    OBVIOUS
  <2>1. free \in 0 .. NumVmas
    <3>1. free \in Nat /\ Cardinality(InUse(list)) \in Nat /\ NumVmas \in Nat
      BY FS_CardinalityType, SizesAssumption DEF IInv, Typed, VmasCounted
    <3> QED BY <3>1 DEF VmasCounted
  <2> QED BY <2>1 DEF IInv, Typed, TypeOK, AnyVma, AnyNode, AnyBlock
<1> QED BY <1>1, Invariance, NoVmaLost, PTL

-----------------------------------------------------------------------------
(***************************************************************************)
(* What page faults do for a program: every byte it owns is served by a    *)
(* page with the right access, and no fault undoes a store.                *)
(*                                                                         *)
(* Each section lies in a VMA that takes its stores, beyond the end of     *)
(* every VMA before it (Holds): findVMA, whose test takes the end of a VMA *)
(* for a part of it, then finds this VMA first.  A page fault maps a whole *)
(* VMA, so that the sections a program has stored to lie in VMAs all of    *)
(* whose pages are there (Kept), and no later fault copies them again.     *)
(***************************************************************************)

(* Section i of prog lies in VMA k of l, and findVMA takes no other for it. *)
Holds(l, prog, i, k) ==
  /\ l[k].start <= prog[i].addr /\ prog[i].addr + prog[i].size <= l[k].end
  /\ \A j \in 1 .. k - 1 : l[j].end < prog[i].addr
  /\ Writes(prog[i]) => MayWrite(l[k])
Loaded(l, prog, next) == \A i \in 1 .. next - 1 : \E k \in 1 .. Len(l) : Holds(l, prog, i, k)

(* The first n VMAs end below the heap. *)
Below(l, n) == \A i \in 1 .. n : l[i].end < UHeapStart

(* While prog is loaded: its latest section is in the last VMA, and at most *)
(* a page's end lies between their ends.                                    *)
Loading(l, prog, next) ==
  /\ Below(l, Len(l)) /\ Loaded(l, prog, next)
  /\ IF next = 1 THEN l = <<>>
     ELSE /\ Len(l) \in 1 .. Len(l) /\ Holds(l, prog, next - 1, Len(l))
          /\ l[Len(l)].end <= AlignUp(prog[next - 1].addr + prog[next - 1].size)
(* Once it is loaded. *)
Ready(l, prog) ==
  /\ Below(l, Len(l) - 2) /\ l[Len(l) - 1].flags = 3 /\ Loaded(l, prog, Len(prog) + 1)

(* The pages m of a process lie in its VMAs l; those of a program's VMA are *)
(* there together, and those a stored section lies in are there.            *)
Fetched(l, m, k) == PagesOf(l[k]) \subseteq m
Whole(l, m) ==
  /\ m \subseteq UNION {PagesOf(l[i]) : i \in 1 .. Len(l)}
  /\ \A k \in 1 .. Len(l) - 2 : Fetched(l, m, k) \/ PagesOf(l[k]) \cap m = {}
Kept(l, m, prog, st) ==
  /\ st \subseteq 1 .. Len(prog)
  /\ \A i \in st : \E k \in 1 .. Len(l) : Holds(l, prog, i, k) /\ Fetched(l, m, k)

ServedBy(l, prog, m, st) == Ready(l, prog) /\ Whole(l, m) /\ Kept(l, m, prog, st)

Served(p) ==
  IF program[p] = <<>> THEN mapped[p] = {} /\ stored[p] = {}
  ELSE IF building.proc = p
  THEN Loading(list[p], program[p], building.next) /\ mapped[p] = {} /\ stored[p] = {}
  ELSE ServedBy(list[p], program[p], mapped[p], stored[p])
SInv == \A p \in Procs : Served(p)

-----------------------------------------------------------------------------
(* Loading a program.                                                      *)

(* The fields of a VMA. *)
LEMMA VmaFields ==
  ASSUME NEW l \in Seq(AnyVma), NEW k \in 1 .. Len(l)
  PROVE  /\ l[k] \in AnyVma /\ l[k].start \in Nat /\ l[k].end \in Nat
         /\ l[k].flags \in {1, 2, 3, 5, 7} /\ Len(l) \in Nat /\ k \in Nat
<1>1. l[k] \in AnyVma
  BY ElementOfSeq
<1> QED BY <1>1 DEF AnyVma

(* Two sections in a row. *)
LEMMA NextSection ==
  ASSUME NEW prog \in Programs, NEW n \in 1 .. Len(prog), n # 1
  PROVE  /\ n - 1 \in 1 .. Len(prog) /\ n - 1 \in Nat
         /\ prog[n - 1].addr \in Nat /\ prog[n - 1].size \in Nat
         /\ prog[n - 1].addr + prog[n - 1].size <= prog[n].addr
         /\ Writes(prog[n - 1]) # Writes(prog[n]) =>
              AlignUp(prog[n - 1].addr + prog[n - 1].size) < prog[n].addr
<1>1. Len(prog) \in Nat
  BY SectionFacts
<1> DEFINE m == n - 1
<1>2. m \in 1 .. Len(prog) /\ m < n /\ m \in Nat
  BY <1>1
<1> HIDE DEF m
<1>3. prog[m].addr \in Nat /\ prog[m].size \in Nat /\ prog[m].addr + prog[m].size <= prog[n].addr
  BY <1>2, SectionFacts
<1>4. Writes(prog[m]) # Writes(prog[n]) => AlignUp(prog[m].addr + prog[m].size) < prog[n].addr
  BY <1>2, ProgramsAssumption
<1> QED BY <1>2, <1>3, <1>4 DEF m

(* new has the VMAs of l before k, and k itself but for its end, not lower.  *)
Stays(l, new, k) ==
  /\ k \in 1 .. Len(l) /\ k \in 1 .. Len(new)
  /\ \A j \in 1 .. k - 1 : new[j] = l[j]
  /\ new[k].start = l[k].start /\ new[k].flags = l[k].flags /\ l[k].end <= new[k].end

(* A section stays where it is when the VMAs up to its own stay, but for    *)
(* their flags and the end of its own, which may grow.                      *)
LEMMA HoldsOn ==
  ASSUME NEW prog \in Programs, NEW i \in 1 .. Len(prog), NEW l \in Seq(AnyVma), NEW new \in Seq(AnyVma),
         NEW k, Holds(l, prog, i, k), Stays(l, new, k)
  PROVE  Holds(new, prog, i, k)
<1>1. prog[i].addr \in Nat /\ prog[i].size \in Nat
  BY SectionFacts
<1>2. l[k].end \in Nat /\ new[k].end \in Nat
  BY VmaFields DEF Stays
<1>3. prog[i].addr + prog[i].size <= new[k].end
  BY <1>1, <1>2 DEF Holds, Stays
<1> QED BY <1>3 DEF Holds, MayWrite, Stays

(* A section that check_vma merges into the last VMA. *)
LEMMA MergeLoads ==
  ASSUME NEW prog \in Programs, NEW n \in 1 .. Len(prog), NEW l \in Seq(AnyVma),
         PartlyBuilt(l, prog, n), Loading(l, prog, n), Matching(l, prog[n]) # {},
         NEW new, new = [l EXCEPT ![First(Matching(l, prog[n]))] = Grown(@, prog[n])]
  PROVE  Loading(new, prog, n + 1)
<1> DEFINE s == prog[n]
           L == Len(l)
           g == Grown(l[L], s)
           e == AlignUp(s.addr + s.size)
<1>1. First(Matching(l, s)) = L /\ L \in 1 .. L /\ l[L].start <= s.addr /\ s.addr <= l[L].end
  BY LastMatches
<1>2. s.addr \in Nat /\ s.size \in Nat /\ e < UHeapStart /\ Len(prog) \in Nat /\ L \in Nat
  BY SectionFacts
<1>3. e \in Nat /\ s.addr + s.size <= e /\ e % PageSize = 0
  BY <1>2, RoundUp
<1>4. l[L] \in AnyVma /\ l[L].start \in Nat /\ l[L].end \in Nat
  BY <1>1, VmaFields
<1>5. /\ g \in AnyVma /\ g.start = l[L].start /\ g.flags = l[L].flags
      /\ g.end = IF s.addr + s.size > l[L].end THEN e ELSE l[L].end
  BY <1>3, <1>4 DEF Grown, AnyVma
<1>6. /\ new \in Seq(AnyVma) /\ Len(new) = L
      /\ \A j \in 1 .. L : new[j] = IF j = L THEN g ELSE l[j]
  <2>1. new = [l EXCEPT ![L] = g]
    BY <1>1
  <2> HIDE DEF g, L
  <2>2. /\ [l EXCEPT ![L] = g] \in Seq(AnyVma) /\ Len([l EXCEPT ![L] = g]) = Len(l)
        /\ \A j \in 1 .. Len(l) : [l EXCEPT ![L] = g][j] = IF j = L THEN g ELSE l[j]
    BY <1>1, <1>5, ExceptSeq DEF L
  <2> QED BY <2>1, <2>2 DEF L
<1> HIDE DEF g, L
<1>7. n # 1
  BY <1>1, <1>2, NoSequence DEF Loading, L
<1>8. /\ n - 1 \in 1 .. Len(prog) /\ Holds(l, prog, n - 1, L)
      /\ l[L].end <= AlignUp(prog[n - 1].addr + prog[n - 1].size)
  BY <1>2, <1>7 DEF Loading, L
<1>9. g.end \in Nat /\ l[L].end <= g.end /\ s.addr + s.size <= g.end
  BY <1>2, <1>3, <1>4, <1>5
<1>10. g.end <= e
  <2> DEFINE o == prog[n - 1].addr + prog[n - 1].size
  <2>1. prog[n - 1].addr \in Nat /\ prog[n - 1].size \in Nat /\ o <= s.addr
    BY <1>7, NextSection
  <2>2. o \in Nat
    BY <2>1
  <2> HIDE DEF o, e, s
  <2>3. o <= e
    BY <1>2, <1>3, <2>1, <2>2
  <2>4. AlignUp(o) \in Nat /\ AlignUp(o) <= e
    BY <1>3, <2>2, <2>3, RoundUp
  <2>5. l[L].end <= e
    BY <1>3, <1>4, <1>8, <2>4 DEF o
  <2> QED BY <1>3, <1>5, <2>5
<1>11. Writes(s) => MayWrite(g)
  <2>1. ASSUME Writes(s) # Writes(prog[n - 1]) PROVE FALSE
    <3>1. AlignUp(prog[n - 1].addr + prog[n - 1].size) < s.addr
      BY <1>7, <2>1, NextSection
    <3>2. prog[n - 1].addr + prog[n - 1].size \in Nat
      BY <1>7, NextSection
    <3>3. AlignUp(prog[n - 1].addr + prog[n - 1].size) \in Nat
      BY <3>2, RoundUp
    <3> QED BY <1>1, <1>2, <1>4, <1>8, <3>1, <3>3
  <2>2. Writes(prog[n - 1]) => MayWrite(l[L])
    BY <1>8 DEF Holds
  <2> QED BY <1>5, <2>1, <2>2 DEF MayWrite
<1>12. Holds(new, prog, n, L)
  <2>1. new[L] = g
    BY <1>1, <1>6 DEF L
  <2>2. \A j \in 1 .. L - 1 : new[j].end < s.addr
    <3> SUFFICES ASSUME NEW j \in 1 .. L - 1 PROVE new[j].end < s.addr
      OBVIOUS
    <3>1. j \in 1 .. L /\ j # L /\ j < L /\ n \in n .. Len(prog)
      BY <1>2
    <3> QED BY <1>6, <3>1 DEF PartlyBuilt, L
  <2> QED BY <1>1, <1>5, <1>9, <1>11, <2>1, <2>2 DEF Holds
<1>13. ASSUME NEW i \in 1 .. n PROVE \E k \in 1 .. Len(new) : Holds(new, prog, i, k)
  <2>1. CASE i = n
    BY <1>1, <1>6, <1>12, <2>1 DEF L
  <2>2. CASE i # n
    <3>1. i \in 1 .. n - 1 /\ i \in 1 .. Len(prog)
      BY <1>2, <2>2
    <3>2. PICK k \in 1 .. L : Holds(l, prog, i, k)
      BY <3>1 DEF Loading, Loaded, L
    <3>3. \A j \in 1 .. k - 1 : new[j] = l[j]
      BY <1>2, <1>6
    <3>4. new[k].start = l[k].start /\ new[k].flags = l[k].flags /\ l[k].end <= new[k].end
      <4>1. CASE k = L
        BY <1>5, <1>6, <1>9, <4>1
      <4>2. CASE k # L
        <5>1. new[k] = l[k] /\ l[k].end \in Nat
          BY <1>6, <4>2, VmaFields DEF L
        <5> QED BY <5>1
      <4> QED BY <4>1, <4>2
    <3>5. Stays(l, new, k)
      BY <1>6, <3>3, <3>4 DEF Stays, L
    <3>6. Holds(new, prog, i, k)
      BY <1>6, <3>1, <3>2, <3>5, HoldsOn
    <3> QED BY <1>6, <3>6 DEF L
  <2> QED BY <2>1, <2>2
<1>14. Below(new, Len(new))
  <2> SUFFICES ASSUME NEW j \in 1 .. L PROVE new[j].end < UHeapStart
    BY <1>6 DEF Below
  <2>1. CASE j = L
    <3>1. new[j] = g /\ UHeapStart \in Nat
      BY <1>6, <2>1, AddressFacts
    <3>2. g.end < UHeapStart
      <4> HIDE DEF e
      <4> QED BY <1>2, <1>3, <1>9, <1>10, <3>1
    <3> QED BY <3>1, <3>2
  <2>2. CASE j # L
    BY <1>6, <2>2 DEF Loading, Below, L
  <2> QED BY <2>1, <2>2
<1>15. n + 1 # 1 /\ (n + 1) - 1 = n
  OBVIOUS
<1>16. Loaded(new, prog, n + 1)
  BY <1>13, <1>15 DEF Loaded
<1>17. Len(new) \in 1 .. Len(new) /\ new[Len(new)].end <= AlignUp(prog[n].addr + prog[n].size)
  BY <1>1, <1>6, <1>10 DEF L
<1> QED BY <1>6, <1>12, <1>14, <1>15, <1>16, <1>17 DEF Loading

(* The flags insert_vma gives a writable section admit stores. *)
LEMMA WritableFlags ==
  ASSUME NEW s, s.flags \in Nat, Writes(s) PROVE MayWrite(Inserted(s))
<1>1. s.flags \notin {6, 2}
  BY DEF Writes
<1>2. get_vma_flags(s.flags) \in {2, 3, 7}
  BY <1>1 DEF get_vma_flags
<1> QED BY <1>2 DEF MayWrite, Inserted, Vma

(* A section that gets a VMA of its own. *)
LEMMA InsertLoads ==
  ASSUME NEW prog \in Programs, NEW n \in 1 .. Len(prog), NEW l \in Seq(AnyVma),
         PartlyBuilt(l, prog, n), Loading(l, prog, n), Matching(l, prog[n]) = {}
  PROVE  Loading(Append(l, Inserted(prog[n])), prog, n + 1)
<1> DEFINE s == prog[n]
           v == Inserted(s)
           new == Append(l, v)
           e == AlignUp(s.addr + s.size)
           L == Len(l)
<1>1. v \in AnyVma /\ v.start <= s.addr
  BY InsertedFacts
<1>2. s.addr \in Nat /\ s.size \in Nat /\ s.flags \in Nat /\ e < UHeapStart /\ Len(prog) \in Nat
  BY SectionFacts
<1>3. v.end = e /\ e \in Nat /\ s.addr + s.size <= e
  <2>1. s.addr + s.size \in Nat
    BY <1>2
  <2>2. e \in Nat /\ s.addr + s.size <= e
    BY <2>1, RoundUp
  <2> QED BY <2>2 DEF Inserted, Vma
<1>4. Writes(s) => MayWrite(v)
  BY <1>2, WritableFlags
<1>5. /\ new \in Seq(AnyVma) /\ Len(new) = L + 1 /\ L \in Nat
      /\ \A i \in 1 .. L : new[i] = l[i] /\ l[i] \in AnyVma
      /\ new[L + 1] = v
  BY <1>1, AppendProperties
<1> HIDE DEF new, v
<1>6. ASSUME NEW j \in 1 .. L PROVE new[j].end < s.addr /\ new[j].end < UHeapStart
  <2>1. n \in n .. Len(prog) /\ l[j].start \in Nat /\ l[j].end \in Nat
    BY <1>2, <1>5, VmaFields
  <2>2. l[j].start <= s.addr
    BY <2>1 DEF PartlyBuilt
  <2>3. l[j].end < s.addr
    BY <1>2, <2>1, <2>2 DEF Matching
  <2> QED BY <1>5, <2>3 DEF Loading, Below
<1>7. Holds(new, prog, n, L + 1)
  BY <1>1, <1>3, <1>4, <1>5, <1>6 DEF Holds
<1>8. ASSUME NEW i \in 1 .. n PROVE \E k \in 1 .. Len(new) : Holds(new, prog, i, k)
  <2>1. CASE i = n
    BY <1>5, <1>7, <2>1
  <2>2. CASE i # n
    <3>1. i \in 1 .. n - 1 /\ i \in 1 .. Len(prog)
      BY <1>2, <2>2
    <3>2. PICK k \in 1 .. L : Holds(l, prog, i, k)
      BY <3>1 DEF Loading, Loaded
    <3>3. k \in 1 .. Len(new) /\ \A j \in 1 .. k - 1 : new[j] = l[j]
      BY <1>5
    <3>4. new[k] = l[k] /\ l[k].end \in Nat
      BY <1>5 DEF AnyVma
    <3>5. Stays(l, new, k)
      BY <3>3, <3>4 DEF Stays
    <3>6. Holds(new, prog, i, k)
      BY <1>5, <3>1, <3>2, <3>5, HoldsOn
    <3> QED BY <3>3, <3>6
  <2> QED BY <2>1, <2>2
<1>9. Below(new, Len(new))
  <2> SUFFICES ASSUME NEW j \in 1 .. L + 1 PROVE new[j].end < UHeapStart
    BY <1>5 DEF Below
  <2>1. CASE j = L + 1
    BY <1>2, <1>3, <1>5, <2>1
  <2>2. CASE j # L + 1
    BY <1>5, <1>6, <2>2
  <2> QED BY <2>1, <2>2
<1>10. n + 1 # 1 /\ (n + 1) - 1 = n
  OBVIOUS
<1>11. Loaded(new, prog, n + 1)
  BY <1>8, <1>10 DEF Loaded
<1>12. Len(new) \in 1 .. Len(new) /\ new[Len(new)].end <= AlignUp(prog[n].addr + prog[n].size)
  BY <1>3, <1>5
<1>13. Loading(new, prog, n + 1)
  BY <1>5, <1>7, <1>9, <1>10, <1>11, <1>12 DEF Loading
<1> QED BY <1>13 DEF new, v

-----------------------------------------------------------------------------
(* The VMAs of a process that runs.                                        *)

(* The pages of a VMA, and the page of a byte in it. *)
LEMMA PagesOfVma ==
  ASSUME NEW v \in AnyVma, Aligned(v)
  PROVE  /\ PagesOf(v) = {a \in v.start .. v.end - 1 : a % PageSize = 0}
         /\ \A a \in Nat : v.start <= a /\ a < v.end => AlignDown(a) \in PagesOf(v)
<1>1. v.start \in Nat /\ v.end \in Nat /\ v.start % PageSize = 0 /\ v.end % PageSize = 0
  BY DEF AnyVma, Aligned
<1>2. AlignDown(v.start) = v.start /\ AlignUp(v.end) = v.end
  BY <1>1 DEF AlignDown, AlignUp
<1>3. PagesOf(v) = {a \in v.start .. v.end - 1 : a % PageSize = 0}
  BY <1>2 DEF PagesOf
<1>4. ASSUME NEW a \in Nat, v.start <= a, a < v.end PROVE AlignDown(a) \in PagesOf(v)
  <2>1. AlignDown(a) \in Nat /\ AlignDown(a) <= a /\ AlignDown(a) % PageSize = 0 /\ v.start <= AlignDown(a)
    BY <1>1, <1>4, RoundDown
  <2>2. AlignDown(a) \in v.start .. v.end - 1
    BY <1>1, <1>4, <2>1
  <2> QED BY <1>3, <2>1, <2>2
<1> QED BY <1>3, <1>4

(* The stack VMA. *)
LEMMA StackFacts ==
  /\ StackVma.start = UStackTop - PageSize /\ StackVma.end = UStackTop /\ StackVma.flags = 3
  /\ Aligned(StackVma)
<1>1. StackVma.start = UStackTop - PageSize /\ StackVma.end = UStackTop /\ StackVma.flags = 3
  BY DEF StackVma, Vma
<1>2. UStackTop % PageSize = 0 /\ UStackTop \in Nat /\ UStackTop - PageSize \in Nat /\ PageSize \in Nat
  BY SizesAssumption, AddressFacts
<1> DEFINE k == UStackTop \div PageSize
<1>3. k \in Nat /\ UStackTop = PageSize * k
  BY <1>2, Quotient
<1> HIDE DEF k
<1>4. PageSize * (k - 1) = UStackTop - PageSize
  BY <1>2, <1>3
<1>5. k # 0
  BY <1>2, <1>3, AddressFacts
<1>6. k - 1 \in Nat
  BY <1>3, <1>5
<1>7. (UStackTop - PageSize) % PageSize = 0
  BY <1>4, <1>6, MultipleMod
<1> QED BY <1>1, <1>2, <1>7 DEF Aligned

(* What is known of each. *)
LEMMA BuiltFacts ==
  ASSUME NEW l \in Seq(AnyVma), Built(l), NEW k \in 1 .. Len(l)
  PROVE  /\ Aligned(l[k])
         /\ l[k].start > UHeapStart => k = Len(l)
         /\ l[k].start < UHeapStart => k \in 1 .. Len(l) - 2
         /\ k \notin {Len(l) - 1, Len(l)} => k \in 1 .. Len(l) - 2 /\ l[k].start < UHeapStart
<1>1. Len(l) \in Nat /\ Len(l) >= 2 /\ l[k].start \in Nat /\ UHeapStart \in Nat
  BY VmaFields, AddressFacts DEF Built
<1>2. CASE k = Len(l)
  <2>1. l[k].start > UHeapStart
    BY <1>2, StackFacts, AddressFacts DEF Built
  <2> QED BY <1>1, <1>2, <2>1, StackFacts DEF Built
<1>3. CASE k = Len(l) - 1
  BY <1>1, <1>3 DEF Built
<1>4. CASE k \notin {Len(l) - 1, Len(l)}
  <2>1. k \in 1 .. Len(l) - 2
    BY <1>1, <1>4
  <2>2. BelowHeap(l[k])
    BY <2>1 DEF Built
  <2>3. Aligned(l[k]) /\ l[k].start < UHeapStart
    BY <2>2 DEF BelowHeap
  <2> QED BY <1>1, <2>1, <2>3
<1> QED BY <1>2, <1>3, <1>4

(* No page is in two VMAs. *)
LEMMA PagesApart ==
  ASSUME NEW l \in Seq(AnyVma), Built(l), NEW j \in 1 .. Len(l), NEW k \in 1 .. Len(l), j # k
  PROVE  PagesOf(l[j]) \cap PagesOf(l[k]) = {}
<1>1. /\ l[j] \in AnyVma /\ l[j].start \in Nat /\ l[j].end \in Nat
      /\ l[k] \in AnyVma /\ l[k].start \in Nat /\ l[k].end \in Nat
  BY VmaFields
<1>2. Aligned(l[j]) /\ Aligned(l[k])
  BY BuiltFacts
<1>3. /\ PagesOf(l[j]) = {a \in l[j].start .. l[j].end - 1 : a % PageSize = 0}
      /\ PagesOf(l[k]) = {a \in l[k].start .. l[k].end - 1 : a % PageSize = 0}
  BY <1>1, <1>2, PagesOfVma
<1>4. l[j].end <= l[k].start \/ l[k].end <= l[j].start
  <2>1. Len(l) \in Nat
    BY VmaFields
  <2>2. j < k \/ k < j
    BY <2>1
  <2> QED BY <2>2 DEF Built, Ascending
<1> QED BY <1>1, <1>3, <1>4

(* A section of a program that runs is in one of the VMAs below the heap,   *)
(* and each of its bytes on a page of this VMA.                             *)
LEMMA SectionVma ==
  ASSUME NEW prog \in Programs, NEW i \in 1 .. Len(prog), NEW l \in Seq(AnyVma), Built(l),
         NEW k \in 1 .. Len(l), Holds(l, prog, i, k)
  PROVE  /\ k \in 1 .. Len(l) - 2
         /\ \A a \in Bytes(prog[i].addr, prog[i].size) :
              /\ a \in Nat /\ prog[i].addr <= a /\ l[k].start <= a /\ a < l[k].end
              /\ AlignDown(a) \in PagesOf(l[k])
<1>1. prog[i].addr \in Nat /\ prog[i].size \in Nat /\ prog[i].size >= 1
  BY SectionFacts
<1>2. AlignUp(prog[i].addr + prog[i].size) < UHeapStart
  BY SectionFacts
<1>3. prog[i].addr + prog[i].size \in Nat
  BY <1>1
<1>4. AlignUp(prog[i].addr + prog[i].size) \in Nat /\ prog[i].addr + prog[i].size <= AlignUp(prog[i].addr + prog[i].size)
  BY <1>3, RoundUp
<1>5. l[k] \in AnyVma /\ l[k].start \in Nat /\ l[k].end \in Nat /\ UHeapStart \in Nat
  BY VmaFields, AddressFacts
<1>6. l[k].start <= prog[i].addr /\ prog[i].addr + prog[i].size <= l[k].end
  BY DEF Holds
<1>7. l[k].start < UHeapStart
  BY <1>1, <1>2, <1>4, <1>5, <1>6
<1>8. k \in 1 .. Len(l) - 2 /\ Aligned(l[k])
  BY <1>7, BuiltFacts
<1>9. ASSUME NEW a \in Bytes(prog[i].addr, prog[i].size)
      PROVE  /\ a \in Nat /\ prog[i].addr <= a /\ l[k].start <= a /\ a < l[k].end
             /\ AlignDown(a) \in PagesOf(l[k])
  <2>1. a \in Nat /\ prog[i].addr <= a /\ a < prog[i].addr + prog[i].size
    BY <1>1 DEF Bytes
  <2>2. l[k].start <= a /\ a < l[k].end
    BY <1>1, <1>5, <1>6, <2>1
  <2> QED BY <1>5, <1>8, <2>1, <2>2, PagesOfVma
<1> QED BY <1>8, <1>9

(* A program that is loaded gets its heap and its stack. *)
LEMMA FinishLoads ==
  ASSUME NEW prog \in Programs, NEW l \in Seq(AnyVma), Loading(l, prog, Len(prog) + 1),
         NEW new, new = Append(Append(l, HeapVma), StackVma)
  PROVE  Ready(new, prog) /\ PagesOf(new[Len(new)]) = {UStackTop - PageSize} /\ Len(new) \in 1 .. Len(new)
<1> DEFINE one == Append(l, HeapVma)
<1>1. /\ one \in Seq(AnyVma) /\ Len(one) = Len(l) + 1 /\ Len(l) \in Nat
      /\ (\A i \in 1 .. Len(l) : one[i] = l[i]) /\ one[Len(l) + 1] = HeapVma
  BY HeapStackTypes, AppendProperties
<1> HIDE DEF one
<1>2. /\ new \in Seq(AnyVma) /\ Len(new) = Len(one) + 1
      /\ (\A i \in 1 .. Len(one) : new[i] = one[i]) /\ new[Len(one) + 1] = StackVma
  <2>1. new = Append(one, StackVma)
    BY DEF one
  <2> QED BY <1>1, <2>1, HeapStackTypes, AppendProperties
<1>3. /\ Len(new) = Len(l) + 2 /\ new[Len(l) + 1] = HeapVma /\ new[Len(l) + 2] = StackVma
      /\ \A i \in 1 .. Len(l) : new[i] = l[i]
  BY <1>1, <1>2
<1>4. Below(new, Len(new) - 2)
  <2>1. Len(new) - 2 = Len(l)
    BY <1>1, <1>3
  <2> QED BY <1>3, <2>1 DEF Below, Loading
<1>5. new[Len(new) - 1].flags = 3
  <2>1. Len(new) - 1 = Len(l) + 1
    BY <1>1, <1>3
  <2> QED BY <1>3, <2>1 DEF HeapVma, Vma
<1>6. Loaded(new, prog, Len(prog) + 1)
  <2> SUFFICES ASSUME NEW i \in 1 .. Len(prog) + 1 - 1 PROVE \E k \in 1 .. Len(new) : Holds(new, prog, i, k)
    BY DEF Loaded
  <2>1. i \in 1 .. Len(prog)
    BY SectionFacts
  <2>2. PICK k \in 1 .. Len(l) : Holds(l, prog, i, k)
    BY DEF Loading, Loaded
  <2>3. k \in 1 .. Len(new) /\ new[k] = l[k] /\ \A j \in 1 .. k - 1 : new[j] = l[j]
    BY <1>1, <1>3
  <2>4. l[k].end \in Nat
    BY VmaFields
  <2>5. Stays(l, new, k)
    BY <2>3, <2>4 DEF Stays
  <2>6. Holds(new, prog, i, k)
    BY <1>2, <2>1, <2>2, <2>5, HoldsOn
  <2> QED BY <2>3, <2>6
<1>7. PagesOf(StackVma) = {UStackTop - PageSize}
  <2>1. PagesOf(StackVma) = {a \in UStackTop - PageSize .. UStackTop - 1 : a % PageSize = 0}
    BY HeapStackTypes, StackFacts, PagesOfVma
  <2>2. UStackTop - PageSize \in Nat /\ PageSize \in Nat /\ PageSize > 0 /\ UStackTop \in Nat
    BY AddressFacts
  <2>3. (UStackTop - PageSize) % PageSize = 0 /\ UStackTop % PageSize = 0
    BY StackFacts DEF Aligned
  <2>4. ASSUME NEW a \in UStackTop - PageSize .. UStackTop - 1, a % PageSize = 0 PROVE a = UStackTop - PageSize
    <3>1. a \in Nat /\ a < UStackTop
      BY <2>2
    <3>2. AlignDown(a) = a
      BY <2>4, <3>1 DEF AlignDown
    <3> DEFINE i == a \div PageSize
               k == UStackTop \div PageSize
    <3>3. i \in Nat /\ a = PageSize * i
      BY <2>2, <2>4, <3>1, Quotient
    <3>4. k \in Nat /\ UStackTop = PageSize * k
      BY <2>2, <2>3, Quotient
    <3> HIDE DEF i, k
    <3>5. PageSize * i + PageSize <= PageSize * k
      BY <3>1, <3>3, <3>4, NextMultiple
    <3>6. a + PageSize <= UStackTop
      BY <3>3, <3>4, <3>5
    <3> QED BY <2>2, <3>1, <3>6
  <2>5. UStackTop - PageSize \in UStackTop - PageSize .. UStackTop - 1
    BY <2>2
  <2> QED BY <2>1, <2>3, <2>4, <2>5
<1>8. new[Len(new)] = StackVma /\ Len(new) \in 1 .. Len(new)
  BY <1>1, <1>3
<1> QED BY <1>4, <1>5, <1>6, <1>7, <1>8 DEF Ready

(* The pages of all VMAs together. *)
AllPages(l) == UNION {PagesOf(l[i]) : i \in 1 .. Len(l)}

(* brk changes the end of the heap VMA only, and never lowers it. *)
LEMMA BrkShape ==
  ASSUME NEW l \in Seq(AnyVma), Built(l), NEW top \in Nat
  PROVE  /\ Len(WithTop(l, top)) = Len(l)
         /\ \A j \in 1 .. Len(l) : j # Len(l) - 1 => WithTop(l, top)[j] = l[j]
         /\ WithTop(l, top)[Len(l) - 1].start = l[Len(l) - 1].start
         /\ WithTop(l, top)[Len(l) - 1].flags = l[Len(l) - 1].flags
         /\ l[Len(l) - 1].end <= WithTop(l, top)[Len(l) - 1].end
<1> DEFINE h == Len(l) - 1
           end == IF top > l[h].end THEN AlignUp(top) ELSE l[h].end
           v == [l[h] EXCEPT !.end = end]
           new == WithTop(l, top)
<1>1. Len(l) \in Nat /\ h \in 1 .. Len(l)
  BY DEF Built
<1>2. l[h] \in AnyVma /\ l[h].end \in Nat
  BY <1>1, VmaFields
<1>3. end \in Nat /\ l[h].end <= end
  BY <1>2, RoundUp
<1> HIDE DEF end
<1>4. v \in AnyVma /\ v.start = l[h].start /\ v.flags = l[h].flags /\ v.end = end
  BY <1>2, <1>3 DEF AnyVma
<1>5. new = [l EXCEPT ![h] = v]
  BY <1>1 DEF end, WithTop
<1> HIDE DEF v, new
<1>6. Len(new) = Len(l) /\ \A j \in 1 .. Len(l) : new[j] = IF j = h THEN v ELSE l[j]
  BY <1>1, <1>4, <1>5, ExceptSeq
<1>7. new[h] = v
  BY <1>1, <1>6
<1> HIDE DEF h
<1>8. /\ Len(new) = Len(l) /\ (\A j \in 1 .. Len(l) : j # h => new[j] = l[j])
      /\ new[h].start = l[h].start /\ new[h].flags = l[h].flags /\ l[h].end <= new[h].end
  BY <1>3, <1>4, <1>6, <1>7
<1> QED BY <1>8 DEF h, new

(* The larger heap serves what the smaller one did. *)
LEMMA BrkServes ==
  ASSUME NEW prog \in Programs, NEW l \in Seq(AnyVma), Built(l), NEW m, NEW st,
         ServedBy(l, prog, m, st), NEW top \in Nat, ~BrkFails(top)
  PROVE  ServedBy(WithTop(l, top), prog, m, st)
<1> DEFINE h == Len(l) - 1
           new == WithTop(l, top)
<1>1. Len(l) \in Nat /\ Len(l) >= 2 /\ h \in 1 .. Len(l)
  BY DEF Built
<1>2. new \in Seq(AnyVma) /\ Built(new) /\ Len(new) = Len(l)
  BY BrkKeeps
<1>3. /\ \A j \in 1 .. Len(l) : j # h => new[j] = l[j]
      /\ new[h].start = l[h].start /\ new[h].flags = l[h].flags /\ l[h].end <= new[h].end
  BY BrkShape
<1> HIDE DEF new
<1>4. \A j \in 1 .. Len(l) - 2 : j \in 1 .. Len(l) /\ new[j] = l[j]
  BY <1>1, <1>3
<1>5. ASSUME NEW i \in 1 .. Len(prog), NEW k \in 1 .. Len(l), Holds(l, prog, i, k)
      PROVE  k \in 1 .. Len(new) /\ Holds(new, prog, i, k) /\ new[k] = l[k]
  <2>1. k \in 1 .. Len(l) - 2
    BY <1>5, SectionVma
  <2>2. new[k] = l[k] /\ l[k].end \in Nat
    BY <1>4, <2>1, VmaFields
  <2>3. \A j \in 1 .. k - 1 : new[j] = l[j]
    BY <1>1, <1>4, <2>1
  <2>4. Stays(l, new, k)
    BY <1>2, <2>2, <2>3 DEF Stays
  <2> QED BY <1>2, <1>5, <2>2, <2>4, HoldsOn
<1>6. Ready(new, prog)
  <2>1. Below(new, Len(new) - 2)
    BY <1>2, <1>4 DEF ServedBy, Ready, Below
  <2>2. new[Len(new) - 1].flags = 3
    BY <1>2, <1>3 DEF ServedBy, Ready
  <2>3. ASSUME NEW i \in 1 .. Len(prog) + 1 - 1 PROVE \E k \in 1 .. Len(new) : Holds(new, prog, i, k)
    <3>1. i \in 1 .. Len(prog)
      BY SectionFacts
    <3>2. PICK k \in 1 .. Len(l) : Holds(l, prog, i, k)
      BY DEF ServedBy, Ready, Loaded
    <3> QED BY <1>5, <3>1, <3>2
  <2> QED BY <2>1, <2>2, <2>3 DEF Ready, Loaded
<1>7. ASSUME NEW k \in 1 .. Len(l) PROVE PagesOf(l[k]) \subseteq PagesOf(new[k])
  <2>1. CASE k # h
    BY <1>3, <2>1
  <2>2. CASE k = h
    <3>1. /\ l[h] \in AnyVma /\ l[h].start \in Nat /\ l[h].end \in Nat
          /\ new[h] \in AnyVma /\ new[h].start \in Nat /\ new[h].end \in Nat
      BY <1>1, <1>2, VmaFields
    <3>2. Aligned(l[h]) /\ Aligned(new[h])
      BY <1>1, <1>2, BuiltFacts
    <3>3. /\ PagesOf(l[h]) = {a \in l[h].start .. l[h].end - 1 : a % PageSize = 0}
          /\ PagesOf(new[h]) = {a \in new[h].start .. new[h].end - 1 : a % PageSize = 0}
      BY <3>1, <3>2, PagesOfVma
    <3>4. l[h].start .. l[h].end - 1 \subseteq new[h].start .. new[h].end - 1
      BY <1>3, <3>1
    <3> QED BY <2>2, <3>3, <3>4
  <2> QED BY <2>1, <2>2
<1>8. Whole(new, m)
  <2>1. m \subseteq UNION {PagesOf(new[i]) : i \in 1 .. Len(new)}
    <3> SUFFICES ASSUME NEW a \in m PROVE \E i \in 1 .. Len(new) : a \in PagesOf(new[i])
      OBVIOUS
    <3>1. PICK i \in 1 .. Len(l) : a \in PagesOf(l[i])
      BY DEF ServedBy, Whole
    <3> QED BY <1>2, <1>7, <3>1
  <2>2. \A k \in 1 .. Len(new) - 2 : Fetched(new, m, k) \/ PagesOf(new[k]) \cap m = {}
    BY <1>2, <1>4 DEF ServedBy, Whole, Fetched
  <2> QED BY <2>1, <2>2 DEF Whole
<1>9. Kept(new, m, prog, st)
  <2>1. ASSUME NEW i \in st PROVE \E k \in 1 .. Len(new) : Holds(new, prog, i, k) /\ Fetched(new, m, k)
    <3>1. i \in 1 .. Len(prog)
      BY DEF ServedBy, Kept
    <3>2. PICK k \in 1 .. Len(l) : Holds(l, prog, i, k) /\ Fetched(l, m, k)
      BY DEF ServedBy, Kept
    <3>3. k \in 1 .. Len(new) /\ Holds(new, prog, i, k) /\ new[k] = l[k]
      BY <1>5, <3>1, <3>2
    <3> QED BY <3>2, <3>3 DEF Fetched
  <2> QED BY <2>1 DEF ServedBy, Kept
<1> QED BY <1>6, <1>8, <1>9 DEF ServedBy, new

(* A fault maps one VMA, whole. *)
LEMMA FaultServes ==
  ASSUME NEW prog \in Programs, NEW l \in Seq(AnyVma), Built(l), NEW m, NEW st,
         ServedBy(l, prog, m, st), NEW f \in 1 .. Len(l),
         NEW more, more = m \cup PagesOf(l[f]), NEW left, left \subseteq st
  PROVE  ServedBy(l, prog, more, left)
<1>1. ASSUME NEW k \in 1 .. Len(l) - 2 PROVE Fetched(l, more, k) \/ PagesOf(l[k]) \cap more = {}
  <2>1. k \in 1 .. Len(l)
    BY VmaFields
  <2>2. CASE k = f
    BY <2>2 DEF Fetched
  <2>3. CASE k # f
    <3>1. PagesOf(l[k]) \cap PagesOf(l[f]) = {}
      BY <2>1, <2>3, PagesApart
    <3>2. Fetched(l, m, k) \/ PagesOf(l[k]) \cap m = {}
      BY DEF ServedBy, Whole
    <3> QED BY <3>1, <3>2 DEF Fetched
  <2> QED BY <2>2, <2>3
<1>2. Whole(l, more)
  BY <1>1 DEF ServedBy, Whole
<1>3. Kept(l, more, prog, left)
  BY DEF ServedBy, Kept, Fetched
<1> QED BY <1>2, <1>3 DEF ServedBy

(* A section is stored to once its page, and so all of its VMA, is there. *)
LEMMA StoreServes ==
  ASSUME NEW prog \in Programs, NEW l \in Seq(AnyVma), Built(l), NEW m, NEW st,
         ServedBy(l, prog, m, st), NEW i \in 1 .. Len(prog),
         NEW a \in Bytes(prog[i].addr, prog[i].size), AlignDown(a) \in m
  PROVE  ServedBy(l, prog, m, st \cup {i})
<1>1. i \in 1 .. Len(prog) + 1 - 1
  BY SectionFacts
<1>2. PICK k \in 1 .. Len(l) : Holds(l, prog, i, k)
  BY <1>1 DEF ServedBy, Ready, Loaded
<1>3. k \in 1 .. Len(l) - 2 /\ AlignDown(a) \in PagesOf(l[k])
  BY <1>2, SectionVma
<1>4. Fetched(l, m, k)
  BY <1>3 DEF ServedBy, Whole
<1> QED BY <1>2, <1>4 DEF ServedBy, Kept

(* A program that has no page mapped has stored nothing. *)
LEMMA NothingStored ==
  ASSUME NEW prog \in Programs, NEW l \in Seq(AnyVma), Built(l), NEW m, NEW st,
         ServedBy(l, prog, m, st), m = {}
  PROVE  st = {}
<1> SUFFICES ASSUME NEW i \in st PROVE FALSE
  OBVIOUS
<1>1. i \in 1 .. Len(prog)
  BY DEF ServedBy, Kept
<1>2. PICK k \in 1 .. Len(l) : Holds(l, prog, i, k) /\ Fetched(l, m, k)
  BY DEF ServedBy, Kept
<1>3. prog[i].addr \in Nat /\ prog[i].size \in Nat /\ prog[i].size >= 1
  BY <1>1, SectionFacts
<1>4. prog[i].addr \in Bytes(prog[i].addr, prog[i].size)
  BY <1>3 DEF Bytes
<1>5. AlignDown(prog[i].addr) \in PagesOf(l[k])
  BY <1>1, <1>2, <1>4, SectionVma
<1> QED BY <1>2, <1>5 DEF Fetched

(* A program that starts, with the page execve gives its stack or with none. *)
LEMMA FinishServes ==
  ASSUME NEW prog \in Programs, NEW l \in Seq(AnyVma), Loading(l, prog, Len(prog) + 1),
         PartlyBuilt(l, prog, Len(prog) + 1), NEW m, m \subseteq {UStackTop - PageSize}
  PROVE  ServedBy(Append(Append(l, HeapVma), StackVma), prog, m, {})
<1> DEFINE new == Append(Append(l, HeapVma), StackVma)
<1>1. Ready(new, prog) /\ PagesOf(new[Len(new)]) = {UStackTop - PageSize} /\ Len(new) \in 1 .. Len(new)
  BY FinishLoads
<1>2. new \in Seq(AnyVma) /\ Built(new)
  BY FinishKeeps
<1> HIDE DEF new
<1>3. Whole(new, m)
  <2>1. m \subseteq UNION {PagesOf(new[i]) : i \in 1 .. Len(new)}
    BY <1>1
  <2>2. ASSUME NEW k \in 1 .. Len(new) - 2 PROVE PagesOf(new[k]) \cap m = {}
    <3>1. Len(new) \in Nat
      BY <1>2
    <3>2. k \in 1 .. Len(new) /\ k # Len(new)
      BY <3>1
    <3> QED BY <1>1, <1>2, <3>2, PagesApart
  <2> QED BY <2>1, <2>2 DEF Whole
<1>4. Kept(new, m, prog, {})
  BY DEF Kept
<1> QED BY <1>1, <1>3, <1>4 DEF ServedBy, new

-----------------------------------------------------------------------------
(* findVMA.                                                                *)

(* Byte a is in VMA k, and beyond the end of those before it. *)
Lands(l, a, k) ==
  /\ k \in 1 .. Len(l) /\ l[k].start <= a /\ a < l[k].end
  /\ \A j \in 1 .. k - 1 : l[j].end < a
Accepted(l, a, write) == {i \in 1 .. Len(l) : Accepts(l[i], a, write)}

(* Only the stack VMA takes addresses outside it. *)
LEMMA StackOnly ==
  ASSUME NEW l \in Seq(AnyVma), Built(l), NEW j \in 1 .. Len(l), j # Len(l), NEW a
  PROVE  ~StackCond(l[j], a)
<1>1. l[j].start \in Nat /\ UHeapStart \in Nat /\ UStackLimit \in Nat /\ UHeapStart < UStackLimit
  <2>1. UHeapStart \in Nat /\ UHeapLimit \in Nat /\ UStackLimit \in Nat
    BY SizesAssumption
  <2>2. UHeapStart < UHeapLimit /\ UHeapLimit < UStackLimit
    BY SizesAssumption
  <2> QED BY <2>1, <2>2, VmaFields
<1>2. ~ (l[j].start > UHeapStart)
  BY BuiltFacts
<1> QED BY <1>1, <1>2 DEF StackCond

(* findVMA takes the VMA a byte is in. *)
LEMMA Found ==
  ASSUME NEW l \in Seq(AnyVma), Built(l), NEW a \in Nat, NEW k, Lands(l, a, k),
         NEW write \in BOOLEAN, write => MayWrite(l[k])
  PROVE  /\ Accepted(l, a, write) # {} /\ First(Accepted(l, a, write)) = k
         /\ AlignDown(a) \in PagesOf(l[k])
<1> DEFINE S == Accepted(l, a, write)
<1>1. /\ k \in 1 .. Len(l) /\ l[k] \in AnyVma /\ l[k].start \in Nat /\ l[k].end \in Nat
      /\ Len(l) \in Nat /\ k \in Nat
  BY VmaFields DEF Lands
<1>2. k \in S
  BY <1>1 DEF Lands, Accepts, Accepted
<1>3. ASSUME NEW j \in S, j < k PROVE FALSE
  <2>1. j \in 1 .. Len(l) /\ Accepts(l[j], a, write)
    BY DEF Accepted
  <2>2. j \in 1 .. k - 1 /\ j # Len(l)
    BY <1>1, <1>3, <2>1
  <2>3. l[j].end < a /\ l[j].end \in Nat
    BY <2>1, <2>2, VmaFields DEF Lands
  <2>4. ~StackCond(l[j], a)
    BY <2>1, <2>2, StackOnly
  <2> QED BY <2>1, <2>3, <2>4 DEF Accepts
<1>4. S \subseteq Nat
  BY <1>1 DEF Accepted
<1> HIDE DEF S
<1>5. First(S) \in S /\ First(S) <= k /\ First(S) \in Nat
  BY <1>2, <1>4, FirstIsLeast
<1>6. First(S) = k
  BY <1>1, <1>3, <1>5
<1>7. AlignDown(a) \in PagesOf(l[k])
  <2>1. Aligned(l[k])
    BY <1>1, BuiltFacts
  <2> QED BY <1>1, <2>1, PagesOfVma DEF Lands
<1> QED BY <1>2, <1>6, <1>7 DEF S

(* A byte of a section. *)
LEMMA SectionLands ==
  ASSUME NEW prog \in Programs, NEW l \in Seq(AnyVma), Built(l), Ready(l, prog),
         NEW i \in 1 .. Len(prog), NEW a \in Bytes(prog[i].addr, prog[i].size)
  PROVE  a \in Nat /\ \E k : Lands(l, a, k) /\ (Writes(prog[i]) => MayWrite(l[k]))
<1>1. i \in 1 .. Len(prog) + 1 - 1
  BY SectionFacts
<1>2. PICK k \in 1 .. Len(l) : Holds(l, prog, i, k)
  BY <1>1 DEF Ready, Loaded
<1>3. a \in Nat /\ prog[i].addr <= a /\ l[k].start <= a /\ a < l[k].end
  BY <1>2, SectionVma
<1>4. ASSUME NEW j \in 1 .. k - 1 PROVE l[j].end < a
  <2>1. j \in 1 .. Len(l)
    BY VmaFields
  <2>2. l[j].end \in Nat /\ prog[i].addr \in Nat
    BY <2>1, VmaFields, SectionFacts
  <2>3. l[j].end < prog[i].addr
    BY <1>2 DEF Holds
  <2> QED BY <1>3, <2>2, <2>3
<1> QED BY <1>2, <1>3, <1>4 DEF Lands, Holds

(* A byte of the heap. *)
LEMMA HeapLands ==
  ASSUME NEW prog \in Programs, NEW l \in Seq(AnyVma), Built(l), Ready(l, prog),
         NEW a \in Nat, UHeapStart <= a, a < l[Len(l) - 1].end
  PROVE  Lands(l, a, Len(l) - 1) /\ MayWrite(l[Len(l) - 1])
<1>1. Len(l) \in Nat /\ Len(l) >= 2 /\ Len(l) - 1 \in 1 .. Len(l) /\ l[Len(l) - 1].start = UHeapStart
  BY DEF Built
<1>2. ASSUME NEW j \in 1 .. Len(l) - 1 - 1 PROVE l[j].end < a
  <2>1. j \in 1 .. Len(l) - 2 /\ j \in 1 .. Len(l)
    BY <1>1
  <2>2. l[j].end \in Nat /\ l[j].end < UHeapStart
    BY <2>1, VmaFields DEF Ready, Below
  <2> QED BY <2>2, AddressFacts
<1>3. MayWrite(l[Len(l) - 1])
  BY DEF Ready, MayWrite
<1> QED BY <1>1, <1>2, <1>3 DEF Lands

(* A byte of the stack. *)
LEMMA StackLands ==
  ASSUME NEW prog \in Programs, NEW l \in Seq(AnyVma), Built(l), Ready(l, prog),
         NEW a \in UStackTop - PageSize .. UStackTop - 1
  PROVE  a \in Nat /\ Lands(l, a, Len(l)) /\ MayWrite(l[Len(l)])
<1>1. /\ Len(l) \in Nat /\ Len(l) >= 2 /\ Len(l) \in 1 .. Len(l) /\ l[Len(l)] = StackVma
      /\ Len(l) - 1 \in 1 .. Len(l) /\ l[Len(l) - 1].end <= UHeapLimit
  BY DEF Built
<1>2. /\ UStackTop - PageSize \in Nat /\ UStackTop \in Nat /\ UHeapLimit \in Nat /\ UHeapStart \in Nat
      /\ UHeapStart < UHeapLimit /\ UHeapLimit < UStackTop - PageSize
  BY AddressFacts
<1>3. a \in Nat /\ UStackTop - PageSize <= a /\ a < UStackTop
  BY <1>2
<1>4. ASSUME NEW j \in 1 .. Len(l) - 1 PROVE l[j].end < a
  <2>1. j \in 1 .. Len(l) /\ l[j].end \in Nat
    BY <1>1, VmaFields
  <2>2. CASE j = Len(l) - 1
    BY <1>1, <1>2, <1>3, <2>1, <2>2
  <2>3. CASE j # Len(l) - 1
    <3>1. j \in 1 .. Len(l) - 2
      BY <1>1, <2>3
    <3>2. l[j].end < UHeapStart
      BY <3>1 DEF Ready, Below
    <3> QED BY <1>2, <1>3, <2>1, <3>2
  <2> QED BY <2>2, <2>3
<1>5. l[Len(l)].start <= a /\ a < l[Len(l)].end /\ MayWrite(l[Len(l)])
  BY <1>1, <1>3, StackFacts DEF MayWrite
<1> QED BY <1>1, <1>3, <1>4, <1>5 DEF Lands

(* What is known of a program that runs. *)
LEMMA ServedFacts ==
  ASSUME IInv, SInv, building = Done, NEW p \in Procs, p \in Running
  PROVE  /\ program[p] \in Programs /\ list[p] \in Seq(AnyVma) /\ Built(list[p])
         /\ ServedBy(list[p], program[p], mapped[p], stored[p]) /\ Ready(list[p], program[p])
<1>1. program[p] \in Programs
  BY DEF IInv, Typed, Running
<1>2. list[p] \in Seq(AnyVma) /\ Built(list[p])
  BY RunningFacts
<1>3. ServedBy(list[p], program[p], mapped[p], stored[p])
  BY DoneIsNobody DEF SInv, Served, Running
<1> QED BY <1>1, <1>2, <1>3 DEF ServedBy

(* Every byte a program owns is in the VMA that findVMA takes for it. *)
LEMMA OwnByte ==
  ASSUME IInv, SInv, building = Done, NEW p \in Procs, p \in Running, NEW a \in OwnBytes(p)
  PROVE  a \in Nat /\ \E k : Lands(list[p], a, k) /\ (a \in OwnStores(p) => MayWrite(list[p][k]))
<1> DEFINE l == list[p]
           prog == program[p]
<1>1. prog \in Programs /\ l \in Seq(AnyVma) /\ Built(l) /\ Ready(l, prog)
  BY ServedFacts
<1>2. CASE \E i \in 1 .. Len(prog) : a \in Section(p, i)
  <2>1. PICK i \in 1 .. Len(prog) : a \in Section(p, i)
    BY <1>2
  <2>2. a \in Bytes(prog[i].addr, prog[i].size)
    BY <2>1 DEF Section
  <2>3. a \in Nat /\ \E k : Lands(l, a, k) /\ (Writes(prog[i]) => MayWrite(l[k]))
    <3> HIDE DEF l, prog
    <3> QED BY <1>1, <2>2, SectionLands
  <2>4. a \in OwnStores(p) => Writes(prog[i])
    BY <2>1 DEF OwnStores
  <2> QED BY <2>3, <2>4
<1>3. CASE \E i \in 1 .. Len(blocks[p]) : a \in Block(p, i)
  <2>1. PICK i \in 1 .. Len(blocks[p]) : a \in Block(p, i)
    BY <1>3
  <2>2. /\ nodes[p] \in Seq(AnyNode) /\ heap_end[p] \in Nat /\ blocks[p] \in Seq(AnyBlock)
        /\ l[Len(l) - 1].end \in Nat
        /\ HeapSound(nodes[p], heap_end[p], blocks[p], l[Len(l) - 1].end)
    BY RunningFacts
  <2>3. UHeapStart <= blocks[p][i].ptr /\ blocks[p][i].ptr + blocks[p][i].size <= l[Len(l) - 1].end
    <3> HIDE DEF l
    <3> QED BY <2>2, SoundApart
  <2>4. blocks[p][i].ptr \in Nat /\ blocks[p][i].size \in Nat /\ UHeapStart \in Nat
    BY <2>2, BlockFacts, AddressFacts
  <2>5. a \in Nat /\ blocks[p][i].ptr <= a /\ a < blocks[p][i].ptr + blocks[p][i].size
    BY <2>1, <2>4 DEF Block, Bytes
  <2>6. UHeapStart <= a /\ a < l[Len(l) - 1].end
    <3> DEFINE e == l[Len(l) - 1].end
               ptr == blocks[p][i].ptr
               size == blocks[p][i].size
    <3>1. e \in Nat /\ ptr \in Nat /\ size \in Nat /\ UHeapStart <= ptr /\ ptr + size <= e /\ ptr <= a /\ a < ptr + size
      BY <2>2, <2>3, <2>4, <2>5
    <3> HIDE DEF e, ptr, size
    <3>2. UHeapStart <= a /\ a < e
      BY <2>4, <2>5, <3>1
    <3> QED BY <3>2 DEF e
  <2>7. Lands(l, a, Len(l) - 1) /\ MayWrite(l[Len(l) - 1])
    <3> HIDE DEF l, prog
    <3> QED BY <1>1, <2>5, <2>6, HeapLands
  <2> QED BY <2>5, <2>7
<1>4. CASE a \in UStackTop - PageSize .. UStackTop - 1
  <2>1. a \in Nat /\ Lands(l, a, Len(l)) /\ MayWrite(l[Len(l)])
    <3> HIDE DEF l, prog
    <3> QED BY <1>1, <1>4, StackLands
  <2> QED BY <2>1
<1> QED BY <1>2, <1>3, <1>4 DEF OwnBytes

(* So it is served. *)
LEMMA OwnServed ==
  ASSUME IInv, SInv, building = Done, NEW p \in Procs, p \in Running, NEW a \in OwnBytes(p)
  PROVE  /\ Accepting(p, a, FALSE) # {} /\ AlignDown(a) \in PagesOf(findVMA(p, a, FALSE))
         /\ a \in OwnStores(p) => /\ Accepting(p, a, TRUE) # {}
                                  /\ findVMA(p, a, TRUE) = findVMA(p, a, FALSE)
<1>1. list[p] \in Seq(AnyVma) /\ Built(list[p])
  BY ServedFacts
<1>2. a \in Nat
  BY OwnByte
<1>3. PICK k : Lands(list[p], a, k) /\ (a \in OwnStores(p) => MayWrite(list[p][k]))
  BY OwnByte
<1>4. /\ Accepted(list[p], a, FALSE) # {} /\ First(Accepted(list[p], a, FALSE)) = k
      /\ AlignDown(a) \in PagesOf(list[p][k])
  BY <1>1, <1>2, <1>3, Found
<1>5. a \in OwnStores(p) => Accepted(list[p], a, TRUE) # {} /\ First(Accepted(list[p], a, TRUE)) = k
  BY <1>1, <1>2, <1>3, Found
<1>6. /\ Accepting(p, a, FALSE) = Accepted(list[p], a, FALSE)
      /\ Accepting(p, a, TRUE) = Accepted(list[p], a, TRUE)
  BY DEF Accepting, Accepted
<1> QED BY <1>4, <1>5, <1>6 DEF findVMA

-----------------------------------------------------------------------------
(* The steps.                                                              *)

(* What a step does not change of a process stays served. *)
LEMMA OthersServed ==
  ASSUME NEW p \in Procs, Served(p),
         program'[p] = program[p], list'[p] = list[p], mapped'[p] = mapped[p], stored'[p] = stored[p],
         building' = building \/ (building.proc # p /\ building'.proc # p)
  PROVE  Served(p)'
BY DEF Served

(* At boot the first program is about to be loaded. *)
LEMMA LoadingBegins == ASSUME NEW prog PROVE Loading(<<>>, prog, 1)
BY NoSequence DEF Loading, Below, Loaded

(* The boot state. *)
LEMMA InitServed == Init => SInv
<1> SUFFICES ASSUME NEW first \in Procs, NEW prog \in Programs,
                    list = [p \in Procs |-> <<>>],
                    program = [p \in Procs |-> IF p = first THEN prog ELSE <<>>],
                    building = [proc |-> first, next |-> 1, exec |-> FALSE],
                    mapped = [p \in Procs |-> {}], stored = [p \in Procs |-> {}],
                    NEW p \in Procs
             PROVE  Served(p)
  BY DEF Init, SInv
<1> QED BY LoadingBegins DEF Served

(* The process that is being built. *)
LEMMA BuildingFacts ==
  ASSUME IInv, SInv, NEW p \in Procs, building.proc = p
  PROVE  /\ program[p] \in Programs /\ program[p] # <<>> /\ list[p] \in Seq(AnyVma)
         /\ PartlyBuilt(list[p], program[p], building.next)
         /\ Loading(list[p], program[p], building.next)
         /\ mapped[p] = {} /\ stored[p] = {}
         /\ building \in [proc : Procs \cup {NoProc}, next : Nat, exec : BOOLEAN]
         /\ building.next \in 1 .. Len(program[p]) + 1
         /\ building.next <= Len(program[p]) => building.next \in 1 .. Len(program[p])
<1>1. program[p] # <<>>
  BY DEF IInv, Good
<1>2. program[p] \in Programs /\ list[p] \in Seq(AnyVma) /\ building \in [proc : Procs \cup {NoProc}, next : Nat, exec : BOOLEAN]
  BY <1>1 DEF IInv, Typed
<1>3. PartlyBuilt(list[p], program[p], building.next)
  BY <1>1 DEF IInv, Good
<1>4. Loading(list[p], program[p], building.next) /\ mapped[p] = {} /\ stored[p] = {}
  BY <1>1 DEF SInv, Served
<1>5. building.next \in 1 .. Len(program[p]) + 1 /\ Len(program[p]) \in Nat
  BY <1>2, <1>3, SectionFacts DEF PartlyBuilt
<1> QED BY <1>1, <1>2, <1>3, <1>4, <1>5

(* A section merged into a VMA. *)
LEMMA MergeServed == ASSUME IInv, SInv, MergeSection PROVE SInv'
<1> PICK p \in Procs :
      LET s     == program[p][building.next]
          found == Matching(list[p], s)
      IN /\ building.proc = p /\ building.next <= Len(program[p]) /\ found # {}
         /\ list' = [list EXCEPT ![p][First(found)] = Grown(@, s)]
         /\ building' = [building EXCEPT !.next = @ + 1]
         /\ UNCHANGED <<free, program, mapped, stored, Heap>>
  BY DEF MergeSection
<1> DEFINE prog == program[p]
           n == building.next
           new == [list[p] EXCEPT ![First(Matching(list[p], prog[n]))] = Grown(@, prog[n])]
<1>1. /\ building.proc = p /\ n <= Len(prog) /\ Matching(list[p], prog[n]) # {}
      /\ list' = [list EXCEPT ![p] = new]
      /\ building' = [building EXCEPT !.next = n + 1]
      /\ UNCHANGED <<program, mapped, stored>>
  <2>1. list' = [list EXCEPT ![p] = new]
    BY DEF new
  <2> HIDE DEF new
  <2> QED BY <2>1
<1> HIDE DEF new
<1>2. /\ prog \in Programs /\ prog # <<>> /\ list[p] \in Seq(AnyVma)
      /\ PartlyBuilt(list[p], prog, n) /\ Loading(list[p], prog, n)
      /\ mapped[p] = {} /\ stored[p] = {} /\ n \in 1 .. Len(prog)
  BY <1>1, BuildingFacts
<1>3. building' = [proc |-> p, next |-> n + 1, exec |-> building.exec]
  <2>1. building \in [proc : Procs \cup {NoProc}, next : Nat, exec : BOOLEAN]
    BY <1>1, BuildingFacts
  <2> QED BY <1>1, <2>1
<1>4. list'[p] = new /\ \A q \in Procs \ {p} : list'[q] = list[q]
  <2>1. list \in [Procs -> Seq(AnyVma)]
    BY DEF IInv, Typed
  <2> QED BY <1>1, <2>1
<1>5. Loading(new, prog, n + 1)
  BY <1>1, <1>2, MergeLoads DEF new
<1>6. Served(p)'
  BY <1>1, <1>2, <1>3, <1>4, <1>5 DEF Served
<1>7. ASSUME NEW q \in Procs \ {p} PROVE Served(q)'
  BY <1>1, <1>3, <1>4, OthersServed DEF SInv
<1> QED BY <1>6, <1>7 DEF SInv

(* A section with a VMA of its own. *)
LEMMA InsertServed == ASSUME IInv, SInv, InsertSection PROVE SInv'
<1> PICK p \in Procs :
      LET s == program[p][building.next]
      IN /\ building.proc = p /\ building.next <= Len(program[p])
         /\ Matching(list[p], s) = {} /\ free >= 1
         /\ list' = [list EXCEPT ![p] = Append(@, Inserted(s))]
         /\ free' = free - 1
         /\ building' = [building EXCEPT !.next = @ + 1]
         /\ UNCHANGED <<program, mapped, stored, Heap>>
  BY DEF InsertSection
<1> DEFINE prog == program[p]
           n == building.next
           new == Append(list[p], Inserted(prog[n]))
<1>1. /\ building.proc = p /\ n <= Len(prog) /\ Matching(list[p], prog[n]) = {}
      /\ list' = [list EXCEPT ![p] = new]
      /\ building' = [building EXCEPT !.next = n + 1]
      /\ UNCHANGED <<program, mapped, stored>>
  OBVIOUS
<1> HIDE DEF new
<1>2. /\ prog \in Programs /\ prog # <<>> /\ list[p] \in Seq(AnyVma)
      /\ PartlyBuilt(list[p], prog, n) /\ Loading(list[p], prog, n)
      /\ mapped[p] = {} /\ stored[p] = {} /\ n \in 1 .. Len(prog)
  BY <1>1, BuildingFacts
<1>3. building' = [proc |-> p, next |-> n + 1, exec |-> building.exec]
  <2>1. building \in [proc : Procs \cup {NoProc}, next : Nat, exec : BOOLEAN]
    BY <1>1, BuildingFacts
  <2> QED BY <1>1, <2>1
<1>4. list'[p] = new /\ \A q \in Procs \ {p} : list'[q] = list[q]
  <2>1. list \in [Procs -> Seq(AnyVma)]
    BY DEF IInv, Typed
  <2> QED BY <1>1, <2>1
<1>5. Loading(new, prog, n + 1)
  BY <1>1, <1>2, InsertLoads DEF new
<1>6. Served(p)'
  BY <1>1, <1>2, <1>3, <1>4, <1>5 DEF Served
<1>7. ASSUME NEW q \in Procs \ {p} PROVE Served(q)'
  BY <1>1, <1>3, <1>4, OthersServed DEF SInv
<1> QED BY <1>6, <1>7 DEF SInv

(* The last step of loading. *)
LEMMA FinishServed == ASSUME IInv, SInv, AddHeapAndStack PROVE SInv'
<1> PICK p \in Procs :
      /\ building.proc = p /\ building.next = Len(program[p]) + 1 /\ free >= 2
      /\ list' = [list EXCEPT ![p] = Append(Append(@, HeapVma), StackVma)]
      /\ free' = free - 2
      /\ mapped' = [mapped EXCEPT ![p] = IF building.exec THEN @ \cup {UStackTop - PageSize} ELSE @]
      /\ building' = Done
      /\ UNCHANGED <<program, stored, Heap>>
  BY DEF AddHeapAndStack
<1> DEFINE prog == program[p]
           new == Append(Append(list[p], HeapVma), StackVma)
<1>1. /\ prog \in Programs /\ prog # <<>> /\ list[p] \in Seq(AnyVma)
      /\ PartlyBuilt(list[p], prog, Len(prog) + 1) /\ Loading(list[p], prog, Len(prog) + 1)
      /\ mapped[p] = {} /\ stored[p] = {}
  BY BuildingFacts
<1>2. list'[p] = new /\ \A q \in Procs \ {p} : list'[q] = list[q]
  <2>1. list \in [Procs -> Seq(AnyVma)]
    BY DEF IInv, Typed
  <2> QED BY <2>1
<1>3. mapped'[p] \subseteq {UStackTop - PageSize} /\ \A q \in Procs \ {p} : mapped'[q] = mapped[q]
  <2>1. mapped \in [Procs -> SUBSET Nat]
    BY DEF IInv, Typed
  <2> QED BY <1>1, <2>1
<1> HIDE DEF new
<1>4. ServedBy(new, prog, mapped'[p], {})
  <2> DEFINE m == mapped'[p]
  <2>1. m \subseteq {UStackTop - PageSize}
    BY <1>3
  <2> HIDE DEF m
  <2>2. ServedBy(new, prog, m, {})
    BY <1>1, <2>1, FinishServes DEF new
  <2> QED BY <2>2 DEF m
<1>5. program' = program /\ stored' = stored /\ building' = Done
  OBVIOUS
<1>6. Served(p)'
  BY <1>1, <1>2, <1>4, <1>5, DoneIsNobody DEF Served
<1>7. ASSUME NEW q \in Procs \ {p} PROVE Served(q)'
  BY <1>2, <1>3, <1>5, DoneIsNobody, OthersServed DEF SInv
<1> QED BY <1>6, <1>7 DEF SInv

(* A process whose memory is taken away has no page. *)
LEMMA EmptiedPages ==
  ASSUME IInv, SInv, building = Done, NEW p \in Procs, p \in Running,
         vma_remove_for_process(p), Forgotten(p)
  PROVE  /\ list'[p] = <<>> /\ mapped'[p] = {} /\ stored'[p] = {}
         /\ \A q \in Procs \ {p} : list'[q] = list[q] /\ mapped'[q] = mapped[q] /\ stored'[q] = stored[q]
<1>1. /\ list \in [Procs -> Seq(AnyVma)] /\ mapped \in [Procs -> SUBSET Nat]
      /\ stored \in [Procs -> SUBSET Nat]
  BY DEF IInv, Typed
<1>2. /\ list' = [list EXCEPT ![p] = <<>>] /\ mapped' = [mapped EXCEPT ![p] = @ \ VmaPages(p)]
      /\ stored' = [stored EXCEPT ![p] = {}]
  BY DEF vma_remove_for_process, Forgotten
<1>3. mapped[p] \subseteq VmaPages(p)
  BY ServedFacts DEF ServedBy, Whole, VmaPages
<1> QED BY <1>1, <1>2, <1>3

(* exit, or a fault that kills. *)
LEMMA DeleteServed ==
  ASSUME IInv, SInv, building = Done, NEW p \in Procs, p \in Running, delete_process(p)
  PROVE  SInv' /\ mapped'[p] = {}
<1>1. vma_remove_for_process(p) /\ Forgotten(p) /\ building' = building /\ program' = [program EXCEPT ![p] = <<>>]
  BY DEF delete_process
<1>2. /\ list'[p] = <<>> /\ mapped'[p] = {} /\ stored'[p] = {}
      /\ \A q \in Procs \ {p} : list'[q] = list[q] /\ mapped'[q] = mapped[q] /\ stored'[q] = stored[q]
  BY <1>1, EmptiedPages
<1>3. program'[p] = <<>> /\ \A q \in Procs \ {p} : program'[q] = program[q]
  BY <1>1 DEF IInv, Typed
<1>4. Served(p)'
  BY <1>2, <1>3 DEF Served
<1>5. ASSUME NEW q \in Procs \ {p} PROVE Served(q)'
  BY <1>1, <1>2, <1>3, OthersServed DEF SInv
<1> QED BY <1>2, <1>4, <1>5 DEF SInv

(* execve. *)
LEMMA ExecServed ==
  ASSUME IInv, SInv, NEW p \in Procs, NEW new \in Programs, Exec(p, new)
  PROVE  SInv' /\ mapped'[p] = {}
<1>1. /\ vma_remove_for_process(p) /\ Forgotten(p) /\ building = Done /\ p \in Running
      /\ program' = [program EXCEPT ![p] = new] /\ building' = [proc |-> p, next |-> 1, exec |-> TRUE]
  BY DEF Exec
<1>2. /\ list'[p] = <<>> /\ mapped'[p] = {} /\ stored'[p] = {}
      /\ \A q \in Procs \ {p} : list'[q] = list[q] /\ mapped'[q] = mapped[q] /\ stored'[q] = stored[q]
  BY <1>1, EmptiedPages
<1>3. program'[p] = new /\ new # <<>> /\ \A q \in Procs \ {p} : program'[q] = program[q]
  BY <1>1, SectionFacts DEF IInv, Typed
<1>4. Served(p)'
  BY <1>1, <1>2, <1>3, LoadingBegins DEF Served
<1>5. ASSUME NEW q \in Procs \ {p} PROVE Served(q)'
  <2>1. building.proc # q /\ building'.proc # q
    BY <1>1, DoneIsNobody
  <2> QED BY <1>2, <1>3, <2>1, OthersServed DEF SInv
<1> QED BY <1>2, <1>4, <1>5 DEF SInv

(* fork: all pages of the parent lie in its VMAs, so the child gets them all. *)
LEMMA ForkServed ==
  ASSUME IInv, SInv, NEW p \in Procs, NEW c \in Procs, Fork(p, c)
  PROVE  SInv'
<1>1. /\ building = Done /\ building' = building /\ p \in Running /\ program[p] # <<>>
      /\ list' = [list EXCEPT ![c] = list[p]]
      /\ mapped' = [mapped EXCEPT ![c] = mapped[p] \cap VmaPages(p)]
      /\ program' = [program EXCEPT ![c] = program[p]] /\ stored' = [stored EXCEPT ![c] = stored[p]]
  BY DEF Fork, Running
<1>2. mapped[p] \cap VmaPages(p) = mapped[p]
  BY <1>1, ServedFacts DEF ServedBy, Whole, VmaPages
<1>3. /\ list \in [Procs -> Seq(AnyVma)] /\ mapped \in [Procs -> SUBSET Nat]
      /\ stored \in [Procs -> SUBSET Nat] /\ program \in [Procs -> Programs \cup {<<>>}]
  BY DEF IInv, Typed
<1>4. /\ list'[c] = list[p] /\ program'[c] = program[p] /\ mapped'[c] = mapped[p] /\ stored'[c] = stored[p]
      /\ \A q \in Procs \ {c} : /\ list'[q] = list[q] /\ program'[q] = program[q]
                                /\ mapped'[q] = mapped[q] /\ stored'[q] = stored[q]
  BY <1>1, <1>2, <1>3
<1>5. ServedBy(list[p], program[p], mapped[p], stored[p])
  BY <1>1, ServedFacts
<1>6. Served(c)'
  BY <1>1, <1>4, <1>5, DoneIsNobody DEF Served
<1>7. ASSUME NEW q \in Procs \ {c} PROVE Served(q)'
  BY <1>1, <1>4, OthersServed DEF SInv
<1> QED BY <1>6, <1>7 DEF SInv

(* Which VMA a fault maps. *)
LEMMA FaultFacts ==
  ASSUME IInv, SInv, NEW p \in Procs, NEW a, NEW write \in BOOLEAN, Fault(p, a, write),
         Accepting(p, a, write) # {}
  PROVE  /\ building = Done /\ p \in Running /\ AlignDown(a) \notin mapped[p]
         /\ First(Accepting(p, a, write)) \in 1 .. Len(list[p])
         /\ Accepts(list[p][First(Accepting(p, a, write))], a, write)
         /\ mapped' = [mapped EXCEPT ![p] = @ \cup PagesOf(list[p][First(Accepting(p, a, write))])]
         /\ copyELF(p, list[p][First(Accepting(p, a, write))])
         /\ UNCHANGED <<list, program, building>>
<1>1. building = Done /\ p \in Running /\ AlignDown(a) \notin mapped[p]
  BY DEF Fault
<1>2. list[p] \in Seq(AnyVma) /\ Len(list[p]) \in Nat
  BY <1>1, RunningFacts
<1>3. Accepting(p, a, write) \subseteq Nat
  BY <1>2 DEF Accepting
<1>4. First(Accepting(p, a, write)) \in Accepting(p, a, write)
  BY <1>3, FirstIsLeast
<1>5. allocatePages(p, findVMA(p, a, write)) /\ copyELF(p, findVMA(p, a, write)) /\ UNCHANGED <<list, program, building>>
  BY DEF Fault
<1> QED BY <1>1, <1>4, <1>5 DEF Accepting, allocatePages, findVMA

(* A fault that maps a VMA. *)
LEMMA FaultServed ==
  ASSUME IInv, SInv, NEW p \in Procs, NEW a, NEW write \in BOOLEAN, Fault(p, a, write)
  PROVE  SInv'
<1>1. CASE Accepting(p, a, write) = {}
  BY <1>1, DeleteServed DEF Fault
<1>2. CASE Accepting(p, a, write) # {}
  <2> DEFINE f == First(Accepting(p, a, write))
  <2>1. /\ building = Done /\ p \in Running /\ f \in 1 .. Len(list[p])
        /\ mapped' = [mapped EXCEPT ![p] = @ \cup PagesOf(list[p][f])]
        /\ copyELF(p, list[p][f])
        /\ UNCHANGED <<list, program, building>>
    BY <1>2, FaultFacts
  <2> HIDE DEF f
  <2>2. mapped \in [Procs -> SUBSET Nat] /\ stored \in [Procs -> SUBSET Nat]
    BY DEF IInv, Typed
  <2>3. mapped'[p] = mapped[p] \cup PagesOf(list[p][f]) /\ \A q \in Procs \ {p} : mapped'[q] = mapped[q]
    BY <2>1, <2>2
  <2>4. stored'[p] \subseteq stored[p] /\ \A q \in Procs \ {p} : stored'[q] = stored[q]
    BY <2>1, <2>2 DEF copyELF
  <2>5. /\ program[p] \in Programs /\ list[p] \in Seq(AnyVma) /\ Built(list[p])
        /\ ServedBy(list[p], program[p], mapped[p], stored[p])
    BY <2>1, ServedFacts
  <2>6. ServedBy(list[p], program[p], mapped'[p], stored'[p])
    <3> PICK more, left : more = mapped'[p] /\ left = stored'[p]
      OBVIOUS
    <3>1. more = mapped[p] \cup PagesOf(list[p][f]) /\ left \subseteq stored[p]
      BY <2>3, <2>4
    <3>2. ServedBy(list[p], program[p], more, left)
      BY <2>1, <2>5, <3>1, FaultServes
    <3> QED BY <3>2
  <2>7. Served(p)'
    BY <2>1, <2>6, DoneIsNobody DEF Served, Running
  <2>8. ASSUME NEW q \in Procs \ {p} PROVE Served(q)'
    BY <2>1, <2>3, <2>4, OthersServed DEF SInv
  <2> QED BY <2>7, <2>8 DEF SInv
<1> QED BY <1>1, <1>2

(* A store. *)
LEMMA StoreServed ==
  ASSUME IInv, SInv, NEW p \in Procs, NEW i \in 1 .. Len(program[p]), Store(p, i)
  PROVE  SInv'
<1>1. /\ building = Done /\ p \in Running
      /\ \E a \in Section(p, i) : AlignDown(a) \in mapped[p]
      /\ stored' = [stored EXCEPT ![p] = @ \cup {i}]
      /\ UNCHANGED <<list, program, building, mapped>>
  BY DEF Store
<1>2. PICK a \in Bytes(program[p][i].addr, program[p][i].size) : AlignDown(a) \in mapped[p]
  BY <1>1 DEF Section
<1>3. /\ program[p] \in Programs /\ list[p] \in Seq(AnyVma) /\ Built(list[p])
      /\ ServedBy(list[p], program[p], mapped[p], stored[p])
  BY <1>1, ServedFacts
<1>4. ServedBy(list[p], program[p], mapped[p], stored[p] \cup {i})
  BY <1>2, <1>3, StoreServes
<1>5. stored'[p] = stored[p] \cup {i} /\ \A q \in Procs \ {p} : stored'[q] = stored[q]
  BY <1>1 DEF IInv, Typed
<1>6. Served(p)'
  BY <1>1, <1>4, <1>5, DoneIsNobody DEF Served, Running
<1>7. ASSUME NEW q \in Procs \ {p} PROVE Served(q)'
  BY <1>1, <1>5, OthersServed DEF SInv
<1> QED BY <1>6, <1>7 DEF SInv

(* malloc. *)
LEMMA MallocServed ==
  ASSUME IInv, SInv, NEW p \in Procs, NEW size \in Sizes, malloc(p, size)
  PROVE  SInv'
<1>1. building = Done /\ p \in Running /\ UNCHANGED <<program, building, mapped, stored>>
  BY DEF malloc
<1>2. CASE list' = list
  BY <1>1, <1>2, OthersServed DEF SInv
<1>3. CASE Brk(p, HeapTop(p) + size) /\ ~BrkFails(HeapTop(p) + size)
  <2> DEFINE top == HeapTop(p) + size
  <2>1. /\ program[p] \in Programs /\ list[p] \in Seq(AnyVma) /\ Built(list[p])
        /\ ServedBy(list[p], program[p], mapped[p], stored[p])
    BY <1>1, ServedFacts
  <2>2. HeapIndex(p) = Len(list[p]) - 1 /\ list[p][HeapIndex(p)].end \in Nat /\ heap_end[p] \in Nat
    BY <1>1, RunningFacts
  <2>3. top \in Nat
    <3>1. HeapTop(p) \in Nat
      BY <2>2 DEF HeapTop
    <3>2. size \in Nat
      BY SizesAssumption
    <3> QED BY <3>1, <3>2
  <2>4. list' = [list EXCEPT ![p] = WithTop(list[p], top)]
    BY <1>3, <2>2 DEF Brk, WithTop
  <2>5. ~BrkFails(top)
    BY <1>3
  <2> HIDE DEF top
  <2>6. ServedBy(WithTop(list[p], top), program[p], mapped[p], stored[p])
    BY <2>1, <2>3, <2>5, BrkServes
  <2>7. list'[p] = WithTop(list[p], top) /\ \A q \in Procs \ {p} : list'[q] = list[q]
    <3>1. list \in [Procs -> Seq(AnyVma)]
      BY DEF IInv, Typed
    <3> QED BY <2>4, <3>1
  <2>8. Served(p)'
    BY <1>1, <2>6, <2>7, DoneIsNobody DEF Served, Running
  <2>9. ASSUME NEW q \in Procs \ {p} PROVE Served(q)'
    BY <1>1, <2>7, OthersServed DEF SInv
  <2> QED BY <2>8, <2>9 DEF SInv
<1> QED BY <1>2, <1>3 DEF malloc, MallocAgain, MallocNew

(* Every step. *)
LEMMA NextServed == ASSUME IInv, SInv, Next PROVE SInv'
<1>1. CASE MergeSection
  BY <1>1, MergeServed
<1>2. CASE InsertSection
  BY <1>2, InsertServed
<1>3. CASE AddHeapAndStack
  BY <1>3, FinishServed
<1>4. ASSUME NEW p \in Procs, Exit(p) PROVE SInv'
  BY <1>4, DeleteServed DEF Exit
<1>5. ASSUME NEW p \in Procs, Touch(p) PROVE SInv'
  BY <1>5, FaultServed DEF Touch
<1>6. ASSUME NEW p \in Procs, NEW new \in Programs, Exec(p, new) PROVE SInv'
  BY <1>6, ExecServed
<1>7. ASSUME NEW p \in Procs, NEW c \in Procs, Fork(p, c) PROVE SInv'
  BY <1>7, ForkServed
<1>8. ASSUME NEW p \in Procs, NEW i \in 1 .. Len(program[p]), Store(p, i) PROVE SInv'
  BY <1>8, StoreServed
<1>9. ASSUME NEW p \in Procs, NEW size \in Sizes, malloc(p, size) PROVE SInv'
  BY <1>9, MallocServed
<1>10. ASSUME NEW p \in Procs, NEW k \in 1 .. Len(blocks[p]), free_block(p, k) PROVE SInv'
  BY <1>10, OthersServed DEF free_block, SInv
<1> QED BY <1>1, <1>2, <1>3, <1>4, <1>5, <1>6, <1>7, <1>8, <1>9, <1>10 DEF Next

(* The memory of every process is laid out, and mapped, as Served says, in  *)
(* every state and whatever programs do.                                    *)
THEOREM ServedInvariance == Spec => [](IInv /\ SInv)
<1>1. IInv /\ SInv /\ [Next]_vars => SInv'
  <2> SUFFICES ASSUME IInv, SInv, [Next]_vars PROVE SInv'
    OBVIOUS
  <2>1. CASE Next
    BY <2>1, NextServed
  <2>2. CASE UNCHANGED vars
    <3>1. UNCHANGED <<list, program, building, mapped, stored>>
      BY <2>2 DEF vars
    <3> QED BY <3>1, OthersServed DEF SInv
  <2> QED BY <2>1, <2>2
<1> QED BY <1>1, InitServed, Invariance, PTL DEF Spec

(* Every byte a program owns, of its sections, of the blocks malloc gave it *)
(* and of its stack, is in the VMA findVMA takes for it, and in one that    *)
(* takes stores when the program may store there: check_vma may merge       *)
(* sections and keep the flags of the first, yet no page fault in its own   *)
(* memory kills a program.                                                  *)
THEOREM EveryByteServed == Spec => []OwnBytesServed
<1>1. IInv /\ SInv => OwnBytesServed
  <2> SUFFICES ASSUME IInv, SInv, building = Done, NEW p \in Procs, p \in Running
               PROVE  /\ \A a \in OwnBytes(p) : /\ Accepting(p, a, FALSE) # {}
                                                /\ AlignDown(a) \in PagesOf(findVMA(p, a, FALSE))
                      /\ \A a \in OwnStores(p) : /\ Accepting(p, a, TRUE) # {}
                                                 /\ findVMA(p, a, TRUE) = findVMA(p, a, FALSE)
    BY DEF OwnBytesServed, Running
  <2>1. OwnStores(p) \subseteq OwnBytes(p)
    BY DEF OwnStores
  <2> QED BY <2>1, OwnServed
<1> QED BY <1>1, ServedInvariance, PTL

-----------------------------------------------------------------------------
(* Stores.                                                                 *)

(* A byte that is not there, that a program may use or that is byte 0, is   *)
(* in no VMA of which all pages are there.                                  *)
LEMMA FaultsElsewhere ==
  ASSUME IInv, SInv, building = Done, NEW p \in Procs, p \in Running, NEW write \in BOOLEAN, NEW a,
         a = 0 \/ a \in (IF write THEN OwnStores(p) ELSE OwnBytes(p)),
         AlignDown(a) \notin mapped[p],
         NEW f \in 1 .. Len(list[p]), f = First(Accepting(p, a, write)), Accepts(list[p][f], a, write),
         NEW i \in 1 .. Len(program[p]), Holds(list[p], program[p], i, f), Fetched(list[p], mapped[p], f)
  PROVE  FALSE
<1> DEFINE l == list[p]
           prog == program[p]
<1>1. prog \in Programs /\ l \in Seq(AnyVma) /\ Built(l)
  BY ServedFacts
<1>2. l[f] \in AnyVma /\ l[f].start \in Nat /\ l[f].end \in Nat
  BY <1>1, VmaFields
<1>3. Aligned(l[f])
  BY <1>1, BuiltFacts
<1>4. CASE a = 0
  <2>1. prog[i].addr \in Nat /\ prog[i].size \in Nat /\ prog[i].size >= 1
    BY <1>1, SectionFacts
  <2>2. prog[i].addr + prog[i].size <= l[f].end
    BY DEF Holds
  <2>3. 0 < l[f].end
    BY <1>2, <2>1, <2>2
  <2>4. f # Len(l)
    <3>1. f \in 1 .. Len(l) - 2 /\ Len(l) \in Nat
      <4>1. Len(l) \in Nat
        BY <1>1
      <4> QED BY <1>1, <4>1, SectionVma
    <3> QED BY <3>1
  <2>5. ~StackCond(l[f], a)
    BY <1>1, <2>4, StackOnly
  <2>6. l[f].start <= 0
    BY <1>4, <2>5 DEF Accepts
  <2>7. AlignDown(0) \in PagesOf(l[f])
    BY <1>2, <1>3, <2>3, <2>6, PagesOfVma
  <2> QED BY <1>4, <2>7 DEF Fetched
<1>5. CASE a # 0
  <2>1. a \in OwnBytes(p) /\ (write => a \in OwnStores(p))
    BY <1>5 DEF OwnStores
  <2>2. /\ Accepting(p, a, FALSE) # {} /\ AlignDown(a) \in PagesOf(findVMA(p, a, FALSE))
        /\ a \in OwnStores(p) => findVMA(p, a, TRUE) = findVMA(p, a, FALSE)
    BY <2>1, OwnServed
  <2>3. findVMA(p, a, write) = l[f]
    BY DEF findVMA
  <2>4. AlignDown(a) \in PagesOf(l[f])
    <3>1. CASE write = TRUE
      BY <2>1, <2>2, <2>3, <3>1
    <3>2. CASE write = FALSE
      BY <2>2, <2>3, <3>2
    <3> QED BY <3>1, <3>2
  <2> QED BY <2>4 DEF Fetched
<1> QED BY <1>4, <1>5

(* A section that starts in a VMA, or at its end, and is held by another is *)
(* held by that one.                                                        *)
LEMMA OneHolder ==
  ASSUME NEW prog \in Programs, NEW i \in 1 .. Len(prog), NEW l \in Seq(AnyVma), Built(l),
         NEW k \in 1 .. Len(l), Holds(l, prog, i, k),
         NEW f \in 1 .. Len(l), l[f].start <= prog[i].addr, prog[i].addr <= l[f].end
  PROVE  f = k
<1>1. prog[i].addr \in Nat /\ prog[i].size \in Nat /\ prog[i].size >= 1
  BY SectionFacts
<1>2. /\ l[k].end \in Nat /\ l[f].start \in Nat /\ l[f].end \in Nat /\ k \in Nat /\ f \in Nat
      /\ prog[i].addr + prog[i].size <= l[k].end
  BY VmaFields DEF Holds
<1>3. ~ (f < k)
  <2> SUFFICES ASSUME f < k PROVE FALSE
    OBVIOUS
  <2>1. f \in 1 .. k - 1
    BY <1>2
  <2>2. l[f].end < prog[i].addr
    BY <2>1 DEF Holds
  <2> QED BY <1>1, <1>2, <2>2
<1>4. ~ (k < f)
  <2> SUFFICES ASSUME k < f PROVE FALSE
    OBVIOUS
  <2>1. l[k].end <= l[f].start
    BY DEF Built, Ascending
  <2> QED BY <1>1, <1>2, <2>1
<1> QED BY <1>2, <1>3, <1>4

(* A process loses its pages with what it has stored. *)
LEMMA LostTogether ==
  ASSUME IInv, SInv, building = Done, NEW p \in Procs, p \in Running, NEW more, mapped[p] \subseteq more, more = {}
  PROVE  stored[p] = {}
<1>1. /\ program[p] \in Programs /\ list[p] \in Seq(AnyVma) /\ Built(list[p])
      /\ ServedBy(list[p], program[p], mapped[p], stored[p])
  BY ServedFacts
<1>2. mapped[p] = {}
  OBVIOUS
<1> QED BY <1>1, <1>2, NothingStored

(* No step undoes a store of a process that keeps its pages. *)
Stores(p) == mapped[p] \subseteq mapped'[p] => stored[p] \subseteq stored'[p]

(* Taking all away takes the stores of one process. *)
LEMMA EmptiedStores ==
  ASSUME IInv, SInv, building = Done, NEW p \in Procs, p \in Running,
         vma_remove_for_process(p), Forgotten(p), NEW q \in Procs
  PROVE  Stores(q)
<1>1. /\ mapped'[p] = {} /\ stored'[p] = {}
      /\ \A r \in Procs \ {p} : mapped'[r] = mapped[r] /\ stored'[r] = stored[r]
  BY EmptiedPages
<1>2. CASE q = p
  <2> SUFFICES ASSUME mapped[p] \subseteq mapped'[p] PROVE stored[p] \subseteq stored'[p]
    BY <1>2 DEF Stores
  <2> PICK more : more = mapped'[p]
    OBVIOUS
  <2>1. stored[p] = {}
    BY <1>1, LostTogether
  <2> QED BY <2>1
<1>3. CASE q # p
  BY <1>1, <1>3 DEF Stores
<1> QED BY <1>2, <1>3

(* A fault copies no section that the program has stored to. *)
LEMMA FaultStores ==
  ASSUME IInv, SInv, NEW p \in Procs, NEW write \in BOOLEAN, NEW a,
         a = 0 \/ a \in (IF write THEN OwnStores(p) ELSE OwnBytes(p)),
         Fault(p, a, write), NEW q \in Procs
  PROVE  Stores(q)
<1>1. CASE Accepting(p, a, write) = {}
  BY <1>1, EmptiedStores DEF Fault, delete_process
<1>2. CASE Accepting(p, a, write) # {}
  <2> DEFINE f == First(Accepting(p, a, write))
             v == list[p][f]
  <2>1. /\ building = Done /\ p \in Running /\ AlignDown(a) \notin mapped[p]
        /\ f \in 1 .. Len(list[p]) /\ Accepts(v, a, write) /\ copyELF(p, v)
    BY <1>2, FaultFacts
  <2>2. /\ program[p] \in Programs /\ list[p] \in Seq(AnyVma) /\ Built(list[p])
        /\ Kept(list[p], mapped[p], program[p], stored[p])
    BY <2>1, ServedFacts DEF ServedBy
  <2>3. ASSUME NEW i \in stored[p], v.start <= program[p][i].addr, program[p][i].addr <= v.end
        PROVE  FALSE
    <3>1. i \in 1 .. Len(program[p])
      BY <2>2 DEF Kept
    <3>2. PICK k \in 1 .. Len(list[p]) : Holds(list[p], program[p], i, k) /\ Fetched(list[p], mapped[p], k)
      BY <2>2 DEF Kept
    <3>3. f = k
      <4> HIDE DEF f
      <4> QED BY <2>1, <2>2, <2>3, <3>1, <3>2, OneHolder
    <3> QED BY <2>1, <3>1, <3>2, <3>3, FaultsElsewhere
  <2> HIDE DEF v
  <2>4. stored' = [stored EXCEPT ![p] = {i \in @ : ~(v.start <= program[p][i].addr /\ program[p][i].addr <= v.end)}]
    BY <2>1 DEF copyELF
  <2>5. stored \in [Procs -> SUBSET Nat]
    BY DEF IInv, Typed
  <2>6. stored'[p] = {i \in stored[p] : ~(v.start <= program[p][i].addr /\ program[p][i].addr <= v.end)}
        /\ \A r \in Procs \ {p} : stored'[r] = stored[r]
    BY <2>4, <2>5
  <2> QED BY <2>3, <2>6 DEF Stores
<1> QED BY <1>1, <1>2

(* Every step. *)
LEMMA NextStores ==
  ASSUME IInv, SInv, Next, NEW q \in Procs
  PROVE  Stores(q)
<1> stored \in [Procs -> SUBSET Nat]
  BY DEF IInv, Typed
<1>1. CASE MergeSection \/ InsertSection \/ AddHeapAndStack
  BY <1>1 DEF MergeSection, InsertSection, AddHeapAndStack, Stores
<1>2. ASSUME NEW p \in Procs, Exit(p) PROVE Stores(q)
  BY <1>2, EmptiedStores DEF Exit, delete_process
<1>3. ASSUME NEW p \in Procs, Touch(p) PROVE Stores(q)
  <2>1. ASSUME NEW a \in OwnBytes(p) \cup {0}, Fault(p, a, FALSE) PROVE Stores(q)
    <3>1. a = 0 \/ a \in (IF FALSE THEN OwnStores(p) ELSE OwnBytes(p))
      OBVIOUS
    <3> QED BY <2>1, <3>1, FaultStores
  <2>2. ASSUME NEW a \in OwnStores(p) \cup {0}, Fault(p, a, TRUE) PROVE Stores(q)
    <3>1. a = 0 \/ a \in (IF TRUE THEN OwnStores(p) ELSE OwnBytes(p))
      OBVIOUS
    <3> QED BY <2>2, <3>1, FaultStores
  <2> QED BY <1>3, <2>1, <2>2 DEF Touch
<1>4. ASSUME NEW p \in Procs, NEW new \in Programs, Exec(p, new) PROVE Stores(q)
  BY <1>4, EmptiedStores DEF Exec
<1>5. ASSUME NEW p \in Procs, NEW c \in Procs, Fork(p, c) PROVE Stores(q)
  <2>1. stored[c] = {}
    BY <1>5 DEF Fork, SInv, Served
  <2>2. stored' = [stored EXCEPT ![c] = stored[p]]
    BY <1>5 DEF Fork
  <2> QED BY <2>1, <2>2 DEF Stores
<1>6. ASSUME NEW p \in Procs, NEW i \in 1 .. Len(program[p]), Store(p, i) PROVE Stores(q)
  BY <1>6 DEF Store, Stores
<1>7. ASSUME NEW p \in Procs, NEW size \in Sizes, malloc(p, size) PROVE Stores(q)
  BY <1>7 DEF malloc, Stores
<1>8. ASSUME NEW p \in Procs, NEW k \in 1 .. Len(blocks[p]), free_block(p, k) PROVE Stores(q)
  BY <1>8 DEF free_block, Stores
<1> QED BY <1>1, <1>2, <1>3, <1>4, <1>5, <1>6, <1>7, <1>8 DEF Next

(* copyELF copies every section of a VMA at each fault in it, yet never     *)
(* over one the program has stored to: a fault maps a whole VMA, and a      *)
(* program faults on none of its bytes, nor on byte 0, in a VMA it has.     *)
THEOREM StoresAreKept == Spec => StoresKept
<1>1. IInv /\ SInv /\ [Next]_vars => [\A p \in Procs : mapped[p] \subseteq mapped'[p] => stored[p] \subseteq stored'[p]]_vars
  <2> SUFFICES ASSUME IInv, SInv, Next, NEW q \in Procs PROVE Stores(q)
    BY DEF Stores
  <2> QED BY NextStores
<1> QED BY <1>1, ServedInvariance, PTL DEF Spec, StoresKept
=============================================================================
