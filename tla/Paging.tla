------------------------------- MODULE Paging -------------------------------
(***************************************************************************)
(* Physical frames, reference counts, page tables and copy-on-write.       *)
(*                                                                         *)
(* sys/page.c keeps one struct page per physical frame (ref_count and the  *)
(* links of page_free_list); a process has a pml4 page, the page-table     *)
(* pages below it, its mappings (frame, RW bit, COW bit) and a VMA list    *)
(* made of text, data, heap and stack.  The operations are the handlers    *)
(* that change them: the first build of an address space (process.c), the  *)
(* page fault (isr.c), brk, fork, execve (syscall.c), and the deletion of  *)
(* a process (cleanup.c).  A handler runs with interrupts disabled, so it  *)
(* is one action.                                                          *)
(*                                                                         *)
(* Abstractions.  Frames are names: page_alloc takes the head of a free    *)
(* list, and which frame that is never matters, so the list is a set and   *)
(* a fixed choice stands for its head.  The chain of page-table pages that *)
(* translates a page is a set of table names (Path).  The VMA descriptors  *)
(* themselves, and the part of kmalloc that is not page sized, are left    *)
(* out.  Exhausting the physical frames is out of bounds (CanAlloc): the   *)
(* 1000 PCBs and 100 VMAs of the kernel run out long before 32766 frames.  *)
(***************************************************************************)
EXTENDS Naturals, Integers, FiniteSets, Functions

CONSTANTS
  Page,       \* the frames on page_free_list at boot
  NoPage,     \* an empty page-table entry, a NULL pml4
  Proc,       \* the PCBs of pcb_array, in the order pcb_alloc hands them out
  Boot,       \* the processes create_process made before interrupts start
  MaxLive,    \* bound: processes alive at the same time
  Text, Data, \* virtual pages of the two ELF VMAs
  HeapStart,  \* UHEAPSTART
  HeapMax,    \* (UHEAPLIMIT - UHEAPSTART) / PAGE_SIZE
  StackVA,    \* USTACKTOP - PAGE_SIZE
  VA,         \* the virtual pages a process can touch
  Table,      \* names of page-table pages below a pml4
  Path,       \* the page-table pages on the walk to a virtual page
  KHeapPages  \* (KHEAPEND - KHEAPSTART) / PAGE_SIZE

Heap(n) == HeapStart .. (HeapStart + n - 1)

ASSUME PageAssumption == IsFiniteSet(Page) /\ NoPage \notin Page
ASSUME ProcAssumption == IsFiniteSet(Proc) /\ Proc \subseteq Nat /\ Boot \subseteq Proc
ASSUME BoundAssumption == MaxLive \in Nat /\ HeapMax \in Nat /\ KHeapPages \in Nat
ASSUME LayoutAssumption ==
  /\ HeapStart \in Nat /\ StackVA \in Nat
  /\ VA \subseteq Nat /\ IsFiniteSet(VA)
  /\ Text \subseteq VA /\ Data \subseteq VA /\ Heap(HeapMax) \subseteq VA /\ StackVA \in VA
  /\ Text \cap Data = {}
  /\ (Text \cup Data) \cap (Heap(HeapMax) \cup {StackVA}) = {}
  /\ StackVA \notin Heap(HeapMax)
ASSUME TableAssumption == IsFiniteSet(Table) /\ Path \in [VA -> SUBSET Table]

VARIABLES
  status,  \* "unused", "created" (no pml4 yet), "alive" or "dead"
  heap,    \* pages in the heap VMA
  map,     \* map[p][v]: the frame a page-table entry names
  rw,      \* rw[p]: the pages whose entry has BIT_RW
  cow,     \* cow[p]: the pages whose entry has BIT_COW
  root,    \* process->pml4
  tables,  \* tables[p][t]: the frame that holds page-table page t
  refs,    \* page->ref_count
  free,    \* page_free_list
  kheap,   \* page-sized blocks kmalloc has handed out; it never takes one back
  hung     \* page_insert met a mapped entry and is in its while(1)

vars == <<status, heap, map, rw, cow, root, tables, refs, free, kheap, hung>>

Live == {p \in Proc : status[p] = "alive"}
Frames(p, S) == {map[p][v] : v \in S} \ {NoPage}
TableFrames(p) == {tables[p][t] : t \in Table} \ {NoPage}

-----------------------------------------------------------------------------
(* VMAs, in list order: getELF, then add_heap_vma, then add_stack_vma.      *)

Segment == {"text", "data", "heap", "stack"}
Order == [s \in Segment |-> CASE s = "text" -> 1 [] s = "data" -> 2
                              [] s = "heap" -> 3 [] s = "stack" -> 4]
VmaOf(p, s) == CASE s = "text"  -> Text
                 [] s = "data"  -> Data
                 [] s = "heap"  -> Heap(heap[p])
                 [] s = "stack" -> {StackVA}
VmaPages(p) == Text \cup Data \cup Heap(heap[p]) \cup {StackVA}
Writable(p) == Data \cup Heap(heap[p]) \cup {StackVA}

(* The part of a page an address falls in: its first byte, its last eight   *)
(* bytes (stack_cond allows start - 8), or anywhere else.                   *)
Offset == {"first", "middle", "last8"}

(* vma->end is compared with <=, and every address from eight bytes below   *)
(* the stack VMA upwards satisfies stack_cond.                              *)
Accepts(p, s, v, off) ==
  \/ v \in VmaOf(p, s)
  \/ off = "first" /\ (v - 1 \in VmaOf(p, s) \/ (s = "heap" /\ v = HeapStart))
  \/ s = "stack" /\ (v >= StackVA \/ (v = StackVA - 1 /\ off = "last8"))

Candidates(p, v, off, write) ==
  {s \in Segment : Accepts(p, s, v, off) /\ (write => s # "text")}

(* The VMAs findVMA may return: the first that accepts the address, or none. *)
findVMA(p, v, off, write) ==
  {s \in Candidates(p, v, off, write) :
     \A s2 \in Candidates(p, v, off, write) : Order[s] <= Order[s2]}

-----------------------------------------------------------------------------
(* Frames and reference counts.                                            *)

TakesWithoutPopping(S, F) == CHOOSE f \in [S -> F] : TRUE
(* page_alloc, once for every element of S. *)
page_alloc(S, F) == CHOOSE f \in Injection(S, F) : TRUE
(* One frame always stays: popping the last one makes page_alloc write through NULL. *)
CanAlloc(n) == n < Cardinality(free)

ShareForgotten(rc, S) == rc
(* ref_count++ of every frame in S: page_insert, and the walks for tables. *)
Share(rc, S) == [g \in Page |-> IF g \in S THEN rc[g] + 1 ELSE rc[g]]

(* ref_count-- of every frame in S: page_remove and delete_page. *)
Drop(rc, S) == [g \in Page |-> IF g \in S THEN rc[g] - 1 ELSE rc[g]]

ReleasedEarly(rc, S) == {g \in S : rc[g] <= 2}
ReleasedBeforeTheDrop(rc, S) == {g \in S : rc[g] = 0}
(* ... which releases the frames whose count has just become exactly 0. *)
Released(rc, S) == {g \in S : rc[g] = 1}

(* The page-table pages pml4Walk, pdpeWalk and pdeWalk must allocate to     *)
(* reach the pages of S; they do it for look-ups as well as for insertions. *)
Missing(p, S) == {t \in UNION {Path[v] : v \in S} : tables[p][t] = NoPage}
WithTables(tb, f) == [t \in Table |-> IF t \in DOMAIN f THEN f[t] ELSE tb[t]]

NoMap == [v \in VA |-> NoPage]
NoTables == [t \in Table |-> NoPage]

Init ==
  /\ status = [p \in Proc |-> IF p \in Boot THEN "created" ELSE "unused"]
  /\ heap = [p \in Proc |-> 0]
  /\ map = [p \in Proc |-> NoMap]
  /\ rw = [p \in Proc |-> {}]
  /\ cow = [p \in Proc |-> {}]
  /\ root = [p \in Proc |-> NoPage]
  /\ tables = [p \in Proc |-> NoTables]
  /\ refs = [g \in Page |-> 0]
  /\ free = Page
  /\ kheap = 0
  /\ hung = FALSE

(* build_process_address_space, called by the scheduler when hasRan = 0:    *)
(* the pml4 page (whose ref_count stays 0), then the VMAs; nothing is       *)
(* mapped before the first fault.                                           *)
Build(p) ==
  /\ status[p] = "created"
  /\ Cardinality(Live) < MaxLive
  /\ CanAlloc(1)
  /\ LET pml4 == page_alloc({p}, free)[p] IN
       /\ root' = [root EXCEPT ![p] = pml4]
       /\ free' = free \ {pml4}
  /\ status' = [status EXCEPT ![p] = "alive"]
  /\ UNCHANGED <<heap, map, rw, cow, tables, refs, kheap, hung>>

(* delete_process: every page of the VMAs is unmapped, the page-table pages *)
(* are freed, and so is the pml4 page, whose ref_count was never raised.    *)
(* (The walks that look for mapped pages allocate the missing page-table    *)
(* pages and free them again, which changes nothing.)                       *)
ShortRemovedPages(p) == VmaPages(p) \ {StackVA}
RemovedPages(p) == VmaPages(p)

delete_process(p) ==
  LET gone == Frames(p, RemovedPages(p)) \cup TableFrames(p) \cup {root[p]} IN
    /\ CanAlloc(Cardinality(Missing(p, RemovedPages(p))))
    /\ refs' = Drop(refs, gone)
    /\ free' = free \cup Released(refs, gone)
    /\ map' = [map EXCEPT ![p] = NoMap]
    /\ rw' = [rw EXCEPT ![p] = {}]
    /\ cow' = [cow EXCEPT ![p] = {}]
    /\ root' = [root EXCEPT ![p] = NoPage]
    /\ tables' = [tables EXCEPT ![p] = NoTables]
    /\ heap' = [heap EXCEPT ![p] = 0]
    /\ status' = [status EXCEPT ![p] = "dead"]

(* sys_exit, and KillisCalled from another process or from the terminal. *)
Exit(p) ==
  /\ status[p] = "alive"
  /\ delete_process(p)
  /\ UNCHANGED <<kheap, hung>>

-----------------------------------------------------------------------------
(* Page faults.                                                            *)

(* isr_handler, entry not present: no VMA, so the process is killed. *)
FaultKill(p, v, off, write) ==
  /\ status[p] = "alive"
  /\ map[p][v] = NoPage
  /\ findVMA(p, v, off, write) = {}
  /\ delete_process(p)
  /\ UNCHANGED <<kheap, hung>>

(* Map every page of the VMA that is not mapped yet, writable if the VMA is. *)
allocatePages(p, s) ==
  LET vmas == VmaOf(p, s)
      miss == Missing(p, vmas)
      new  == {u \in vmas : map[p][u] = NoPage}
      tb   == page_alloc(miss, free)
      pg   == page_alloc(new, free \ Range(tb))
  IN /\ CanAlloc(Cardinality(miss) + Cardinality(new))
     /\ tables' = [tables EXCEPT ![p] = WithTables(@, tb)]
     /\ map' = [map EXCEPT ![p] = [u \in VA |-> IF u \in new THEN pg[u] ELSE @[u]]]
     /\ rw' = [rw EXCEPT ![p] = IF s = "text" THEN @ ELSE @ \cup new]
     /\ refs' = Share(refs, Range(tb) \cup Range(pg))
     /\ free' = free \ (Range(tb) \cup Range(pg))

(* isr_handler, entry not present: the VMA is populated, and copyELF fills  *)
(* its pages (their contents are not modelled).                             *)
FaultAlloc(p, v, off, write) ==
  /\ status[p] = "alive"
  /\ map[p][v] = NoPage
  /\ \E s \in findVMA(p, v, off, write) : allocatePages(p, s)
  /\ UNCHANGED <<status, heap, cow, root, kheap, hung>>

(* copy_on_write_handler takes a page from kmalloc on every call, and kmalloc *)
(* never takes one back.                                                    *)
KmallocPage == kheap + 1 < KHeapPages

(* A COW page with exactly two references is copied. *)
CowCopies(g) == refs[g] = 2

CowCopy(p, v) ==
  LET old  == map[p][v]
      left == free \cup Released(refs, {old})
      new  == page_alloc({v}, left)[v]
  IN /\ v \in cow[p] /\ CowCopies(old) /\ KmallocPage
     /\ CanAlloc(1)
     /\ map' = [map EXCEPT ![p] = [@ EXCEPT ![v] = new]]
     /\ rw' = [rw EXCEPT ![p] = @ \cup {v}]
     /\ cow' = [cow EXCEPT ![p] = @ \ {v}]
     /\ refs' = Share(Drop(refs, {old}), {new})
     /\ free' = left \ {new}
     /\ UNCHANGED <<status, heap, root, tables>>

(* Any other COW page is made writable in place. *)
CowInPlace(p, v) ==
  /\ v \in cow[p] /\ ~CowCopies(map[p][v])
  /\ rw' = [rw EXCEPT ![p] = @ \cup {v}]
  /\ cow' = [cow EXCEPT ![p] = @ \ {v}]
  /\ UNCHANGED <<status, heap, map, root, tables, refs, free>>

(* No buffer: the copy to address 0 faults outside every VMA, which kills    *)
(* the process.                                                             *)
CowNoBuffer(p, v) ==
  /\ v \in cow[p] /\ CowCopies(map[p][v]) /\ ~KmallocPage
  /\ delete_process(p)

(* A page that is not COW is left as it is, so the write faults again. *)
CowIgnored(p, v) ==
  /\ v \notin cow[p]
  /\ UNCHANGED <<status, heap, map, rw, cow, root, tables, refs, free>>

(* isr_handler, write to a present entry without BIT_RW. *)
CowFault(p, v) ==
  /\ status[p] = "alive"
  /\ map[p][v] # NoPage
  /\ v \notin rw[p]
  /\ CowCopy(p, v) \/ CowInPlace(p, v) \/ CowNoBuffer(p, v) \/ CowIgnored(p, v)
  /\ kheap' = IF KmallocPage THEN kheap + 1 ELSE kheap
  /\ hung' = hung

-----------------------------------------------------------------------------
(* brk, fork and execve.                                                   *)

BrkMoves(old, n) == n
BrkAdds(old, n) == old + n
(* The heap VMA only ever grows; a lower top is accepted and ignored. *)
BrkTop(old, n) == IF n > old THEN n ELSE old

Brk(p, n) ==
  /\ status[p] = "alive"
  /\ n \in 0 .. HeapMax
  /\ heap' = [heap EXCEPT ![p] = BrkTop(@, n)]
  /\ UNCHANGED <<status, map, rw, cow, root, tables, refs, free, kheap, hung>>

ParentKeepsRw(p, S) == rw[p]
(* The parent's entries of the pages S of writable VMAs lose BIT_RW. *)
ParentRw(p, S) == rw[p] \ S

(* fork_handler: the child shares every mapped page of the parent's VMAs;   *)
(* those of writable VMAs become read-only and COW in both.                 *)
Fork(p, c) ==
  LET shared == {v \in VmaPages(p) : map[p][v] # NoPage}
      marked == shared \cap Writable(p)
      missP  == Missing(p, VmaPages(p))
      missC  == UNION {Path[v] : v \in shared}
      pml4   == page_alloc({c}, free)[c]
      tbP    == page_alloc(missP, free \ {pml4})
      tbC    == page_alloc(missC, free \ ({pml4} \cup Range(tbP)))
  IN /\ status[p] = "alive" /\ status[c] = "unused"
     /\ \A d \in Proc : status[d] = "unused" => c <= d
     /\ Cardinality(Live) < MaxLive
     /\ CanAlloc(1 + Cardinality(missP) + Cardinality(missC))
     /\ status' = [status EXCEPT ![c] = "alive"]
     /\ heap' = [heap EXCEPT ![c] = heap[p]]
     /\ root' = [root EXCEPT ![c] = pml4]
     /\ tables' = [tables EXCEPT ![p] = WithTables(@, tbP), ![c] = WithTables(NoTables, tbC)]
     /\ map' = [map EXCEPT ![c] = [v \in VA |-> IF v \in shared THEN map[p][v] ELSE NoPage]]
     /\ rw' = [rw EXCEPT ![p] = ParentRw(p, marked), ![c] = {}]
     /\ cow' = [cow EXCEPT ![p] = @ \cup marked, ![c] = marked]
     /\ refs' = Share(refs, Frames(p, shared) \cup Range(tbP) \cup Range(tbC))
     /\ free' = free \ ({pml4} \cup Range(tbP) \cup Range(tbC))
     /\ UNCHANGED <<kheap, hung>>

(* execve_handler of a program that passes checkELF: a frame for the new    *)
(* stack, the old VMAs and their pages removed (the walks leave their       *)
(* page-table pages in place), new VMAs with an empty heap, and the stack   *)
(* frame inserted.  A name that fails checkELF returns -1 and changes       *)
(* nothing here.                                                            *)
Exec(p) ==
  LET miss  == Missing(p, VmaPages(p))
      stack == page_alloc({StackVA}, free)[StackVA]
      tb    == page_alloc(miss, free \ {stack})
      gone  == Frames(p, RemovedPages(p))
      left  == [v \in VA |-> IF v \in RemovedPages(p) THEN NoPage ELSE map[p][v]]
  IN /\ status[p] = "alive"
     /\ CanAlloc(1 + Cardinality(miss))
     /\ hung' = (left[StackVA] # NoPage)
     /\ tables' = [tables EXCEPT ![p] = WithTables(@, tb)]
     /\ map' = [map EXCEPT ![p] = [left EXCEPT ![StackVA] = stack]]
     /\ rw' = [rw EXCEPT ![p] = (@ \ RemovedPages(p)) \cup {StackVA}]
     /\ cow' = [cow EXCEPT ![p] = @ \ RemovedPages(p)]
     /\ heap' = [heap EXCEPT ![p] = 0]
     /\ refs' = Share(Drop(refs, gone), {stack} \cup Range(tb))
     /\ free' = (free \cup Released(refs, gone)) \ ({stack} \cup Range(tb))
     /\ UNCHANGED <<status, root, kheap>>

Next ==
  /\ ~hung
  /\ \E p \in Proc :
       \/ Build(p)
       \/ Exit(p)
       \/ Exec(p)
       \/ \E n \in 0 .. HeapMax : Brk(p, n)
       \/ \E c \in Proc : Fork(p, c)
       \/ \E v \in VA : CowFault(p, v)
       \/ \E v \in VA, off \in Offset, write \in BOOLEAN :
             FaultKill(p, v, off, write) \/ FaultAlloc(p, v, off, write)

Spec == Init /\ [][Next]_vars

-----------------------------------------------------------------------------
(* Properties.                                                             *)

Sharers(g) == {p \in Proc : \E v \in VA : map[p][v] = g}
DataFrames == UNION {Frames(p, VA) : p \in Proc}
AllTables == UNION {TableFrames(p) : p \in Proc}
Roots == {root[p] : p \in Proc} \ {NoPage}
Dead == {p \in Proc : status[p] = "dead"}
Lost == Page \ (free \cup DataFrames \cup AllTables \cup Roots)

(* Types of the variables. *)
TypeOK ==
  /\ status \in [Proc -> {"unused", "created", "alive", "dead"}]
  /\ heap \in [Proc -> 0 .. HeapMax]
  /\ map \in [Proc -> [VA -> Page \cup {NoPage}]]
  /\ rw \in [Proc -> SUBSET VA] /\ cow \in [Proc -> SUBSET VA]
  /\ root \in [Proc -> Page \cup {NoPage}]
  /\ tables \in [Proc -> [Table -> Page \cup {NoPage}]]
  /\ refs \in [Page -> Int]
  /\ free \in SUBSET Page
  /\ kheap \in Nat
  /\ hung \in BOOLEAN

(* A process never maps one frame at two of its pages, and never uses one   *)
(* frame for two of its page-table pages.                                   *)
NoAlias ==
  /\ \A p \in Proc : \A u, v \in VA :
       map[p][u] # NoPage /\ map[p][u] = map[p][v] => u = v
  /\ \A p, q \in Proc : \A t, u \in Table :
       tables[p][t] # NoPage /\ tables[p][t] = tables[q][u] => p = q /\ t = u
  /\ \A p, q \in Proc : root[p] # NoPage /\ root[p] = root[q] => p = q

(* A frame has one role: on the free list, mapped by processes, a page      *)
(* table, or a pml4.  page_alloc never hands out a frame that something     *)
(* still uses, and page_release never frees one.                            *)
FrameExclusive ==
  \A p, q \in Proc :
    /\ \A v \in VA : map[p][v] # NoPage =>
         /\ map[p][v] \notin free
         /\ map[p][v] # root[q]
         /\ \A t \in Table : map[p][v] # tables[q][t]
    /\ \A t \in Table : tables[p][t] # NoPage =>
         tables[p][t] \notin free /\ tables[p][t] # root[q]
    /\ root[p] \notin free

(* ref_count of a mapped frame is the number of processes that share it:    *)
(* what copy_on_write_handler decides on.  A free frame has count 0, so     *)
(* build_process_address_space never prints PANIC.                          *)
RefCountExact ==
  /\ \A p \in Proc : \A v \in VA : map[p][v] # NoPage =>
       refs[map[p][v]] = Cardinality(Sharers(map[p][v]))
  /\ \A p \in Proc : \A t \in Table : tables[p][t] # NoPage => refs[tables[p][t]] = 1
  /\ \A p \in Proc : root[p] # NoPage => refs[root[p]] = 0
  /\ \A g \in free : refs[g] = 0

(* Every mapped page lies inside a VMA, so the loops of                     *)
(* vma_remove_for_process and fork_handler, which walk VMAs, miss none.     *)
MappedInsideVma == \A p \in Live : \A v \in VA : map[p][v] # NoPage => v \in VmaPages(p)

(* A frame a process can write without a fault is mapped by it alone.  With *)
(* at most two processes alive this holds; with three the in-place branch   *)
(* of copy_on_write_handler breaks it.                                      *)
Isolation ==
  \A p, q \in Proc : \A u, v \in VA :
    p # q /\ u \in rw[p] /\ map[p][u] # NoPage => map[p][u] # map[q][v]

(* No call and no fault loses a frame, save that a process that dies may    *)
(* lose its pml4 page: every frame it mapped alone and every page-table     *)
(* page goes back to page_free_list, whatever it shared before.             *)
LosesRootsOnly == [][Lost' \ Lost \subseteq {root[p] : p \in Dead' \ Dead}]_vars

(* "Deleting pml4 table" (cleanup.c): delete_process gives the pml4 page    *)
(* back too, so no frame is ever without an owner.                          *)
NothingLeaks == Lost = {}

(* No page_insert meets a mapped entry, where it loops for ever.            *)
NeverHangs == ~hung

(* "Made page writeable on COW fault, page ref=1" (isr.c): a page made      *)
(* writable in place has one reference.                                     *)
InPlaceMeansSole ==
  [][\A p \in Proc, v \in VA :
       v \in rw'[p] \ rw[p] /\ map[p][v] # NoPage /\ map'[p][v] = map[p][v]
         => refs[map[p][v]] = 1]_vars

(* "All faulting addresses should lie withing vma ranges except for stack   *)
(* which can be only SLIGHTLY OFF the end" (isr.c): an address findVMA      *)
(* accepts is in the VMA it returns, whose pages are the ones allocatePages *)
(* maps; just below the stack is the one exception.                         *)
AcceptedMeansServed ==
  \A p \in Live, v \in VA, off \in Offset, write \in BOOLEAN :
    map[p][v] = NoPage =>
      \A s \in findVMA(p, v, off, write) : v \in VmaOf(p, s) \/ (s = "stack" /\ v = StackVA - 1)

=============================================================================
