------------------------------- MODULE Memory -------------------------------
(***************************************************************************)
(* The address space of a process as its program sees it: the VMAs that    *)
(* getELF makes of the program's sections, the pages and the contents that *)
(* page faults bring in, brk, and malloc on top of it.                     *)
(*                                                                         *)
(* Addresses are bytes; a page is named by its first byte.  The VMAs of a  *)
(* process are a sequence, in list order, and vma_free_list is a number.   *)
(* Frames, their sharing and copy-on-write are in Paging.  getELF is one   *)
(* step per section, during which nothing else happens (building): the     *)
(* handlers run with interrupts disabled.                                  *)
(***************************************************************************)
EXTENDS Integers, Sequences

CONSTANTS
  Procs,      \* the PCBs in use at a time
  NoProc,
  NumVmas,    \* num_vm_areas
  Programs,   \* a program is the sequence of its sections with SH_ALLOC
  PageSize, UHeapStart, UHeapLimit, UStackLimit, UStackTop,
  Sizes,      \* what programs ask malloc for
  NumNodes,   \* n of malloc.c; bound: no program makes more blocks,
  SharedNodes \* bound: nor more than these while two processes live

AlignDown(a) == a - (a % PageSize)
AlignUp(a) == IF a % PageSize = 0 THEN a ELSE AlignDown(a) + PageSize

(* SHF_WRITE of a section. *)
Writes(s) == s.flags % 2 = 1

ASSUME SizesAssumption ==
  /\ PageSize \in Nat \ {0} /\ NoProc \notin Procs /\ {NumNodes, SharedNodes, NumVmas} \subseteq Nat
  /\ Sizes \subseteq Nat \ {0}
  /\ {UHeapStart, UHeapLimit, UStackLimit, UStackTop} \subseteq {a \in Nat : a % PageSize = 0}
  /\ UHeapStart > 0 /\ UHeapStart < UHeapLimit /\ UHeapLimit < UStackLimit
  /\ UStackLimit + 2 * PageSize <= UStackTop

(* ld lays sections out in ascending order, below UHEAPSTART, and starts    *)
(* the writable ones on a page of their own, beyond the end of the others.  *)
ASSUME ProgramsAssumption ==
  \A prog \in Programs :
    /\ prog \in Seq([addr : Nat, size : Nat \ {0}, flags : Nat])
    /\ Len(prog) >= 1
    /\ \A i \in 1 .. Len(prog) : AlignUp(prog[i].addr + prog[i].size) < UHeapStart
    /\ \A i, j \in 1 .. Len(prog) : i < j =>
         /\ prog[i].addr + prog[i].size <= prog[j].addr
         /\ Writes(prog[i]) # Writes(prog[j]) => AlignUp(prog[i].addr + prog[i].size) < prog[j].addr

VARIABLES
  list,     \* first_vma and the VMAs after it
  free,     \* the VMAs left on vma_free_list
  program,  \* the program a process runs; <<>> for an unused PCB
  building, \* the process execve or the scheduler is building, and its next section
  mapped,   \* the pages with an entry
  stored,   \* the sections the program has stored to
  nodes, heap_end, \* malloc's nodes[0 .. index - 1] and heap_end
  blocks    \* the blocks the program holds, in the order it got them

vars == <<list, free, program, building, mapped, stored, nodes, heap_end, blocks>>
Heap == <<nodes, heap_end, blocks>>

Done == [proc |-> NoProc, next |-> 0, exec |-> FALSE]
Running == {p \in Procs : program[p] # <<>> /\ building.proc # p}
First(S) == CHOOSE i \in S : \A j \in S : i <= j

SectionFlags(flags) == flags
(* VM_READ is 1, VM_WRITE 2, VM_EXEC 4; 6, 3, 2 and 7 are the section flags *)
(* known.                                                                   *)
get_vma_flags(flags) == CASE flags = 6 -> 5 [] flags = 3 -> 3 [] flags = 2 -> 1 [] flags = 7 -> 7 [] OTHER -> 2
MayWrite(v) == v.flags \in {2, 3, 7}

Vma(start, end, flags) == [start |-> start, end |-> end, flags |-> flags]

-----------------------------------------------------------------------------
(* getELF, add_heap_vma, add_stack_vma.                                     *)

(* check_vma: the first VMA the address is in or at the end of, grown if    *)
(* the section goes beyond it.  Its flags stay those of its first section.  *)
MatchingPage(l, s) == {i \in 1 .. Len(l) : l[i].start = AlignDown(s.addr)}
Matching(l, s) == {i \in 1 .. Len(l) : l[i].start <= s.addr /\ s.addr <= l[i].end}
NotGrown(v, s) == v
Grown(v, s) ==
  [v EXCEPT !.end = IF s.addr + s.size > @ THEN AlignUp(s.addr + s.size) ELSE @]

MergeSection ==
  \E p \in Procs :
    LET s     == program[p][building.next]
        found == Matching(list[p], s)
    IN /\ building.proc = p /\ building.next <= Len(program[p]) /\ found # {}
       /\ list' = [list EXCEPT ![p][First(found)] = Grown(@, s)]
       /\ building' = [building EXCEPT !.next = @ + 1]
       /\ UNCHANGED <<free, program, mapped, stored, Heap>>

(* insert_vma: at the end of the list; its test for a VMA that contains the *)
(* address never succeeds after check_vma has failed.  Bound: vma_alloc has *)
(* a VMA left; the code goes on with NULL.                                  *)
Inserted(s) == Vma(AlignDown(s.addr), AlignUp(s.addr + s.size), get_vma_flags(s.flags))
InsertSection ==
  \E p \in Procs :
    LET s == program[p][building.next]
    IN /\ building.proc = p /\ building.next <= Len(program[p])
       /\ Matching(list[p], s) = {} /\ free >= 1
       /\ list' = [list EXCEPT ![p] = Append(@, Inserted(s))]
       /\ free' = free - 1
       /\ building' = [building EXCEPT !.next = @ + 1]
       /\ UNCHANGED <<program, mapped, stored, Heap>>

(* add_heap_vma and add_stack_vma; execve has a page for the new stack.     *)
HeapVma == Vma(UHeapStart, UHeapStart, 3)
StackVma == Vma(UStackTop - PageSize, UStackTop, 3)
AddHeapAndStack ==
  \E p \in Procs :
    /\ building.proc = p /\ building.next = Len(program[p]) + 1 /\ free >= 2
    /\ list' = [list EXCEPT ![p] = Append(Append(@, HeapVma), StackVma)]
    /\ free' = free - 2
    /\ mapped' = [mapped EXCEPT ![p] = IF building.exec THEN @ \cup {UStackTop - PageSize} ELSE @]
    /\ building' = Done
    /\ UNCHANGED <<program, stored, Heap>>

-----------------------------------------------------------------------------
(* execve, exit and fork.                                                   *)

PagesOf(v) == {a \in AlignDown(v.start) .. AlignUp(v.end) - 1 : a % PageSize = 0}
VmaPages(p) == UNION {PagesOf(list[p][i]) : i \in 1 .. Len(list[p])}

vma_remove_for_process(p) ==
  /\ list' = [list EXCEPT ![p] = <<>>]
  /\ free' = free + Len(list[p])
  /\ mapped' = [mapped EXCEPT ![p] = @ \ VmaPages(p)]

(* The data of a program starts anew: malloc's variables are among them.    *)
Forgotten(p) ==
  /\ stored' = [stored EXCEPT ![p] = {}]
  /\ nodes' = [nodes EXCEPT ![p] = <<>>]
  /\ heap_end' = [heap_end EXCEPT ![p] = 0]
  /\ blocks' = [blocks EXCEPT ![p] = <<>>]

Exec(p, new) ==
  /\ building = Done /\ p \in Running
  /\ vma_remove_for_process(p)
  /\ program' = [program EXCEPT ![p] = new]
  /\ building' = [proc |-> p, next |-> 1, exec |-> TRUE]
  /\ Forgotten(p)

delete_process(p) ==
  /\ vma_remove_for_process(p)
  /\ program' = [program EXCEPT ![p] = <<>>]
  /\ Forgotten(p) /\ UNCHANGED building

Exit(p) == building = Done /\ p \in Running /\ delete_process(p)

(* fork_handler: a VMA of the child for each of the parent, and an entry    *)
(* for each page mapped in them.                                            *)
Fork(p, c) ==
  /\ building = Done /\ p \in Running /\ program[c] = <<>>
  /\ free >= Len(list[p])
  /\ Len(nodes[p]) <= SharedNodes \* bound
  /\ list' = [list EXCEPT ![c] = list[p]]
  /\ free' = free - Len(list[p])
  /\ mapped' = [mapped EXCEPT ![c] = mapped[p] \cap VmaPages(p)]
  /\ program' = [program EXCEPT ![c] = program[p]]
  /\ stored' = [stored EXCEPT ![c] = stored[p]]
  /\ nodes' = [nodes EXCEPT ![c] = nodes[p]]
  /\ heap_end' = [heap_end EXCEPT ![c] = heap_end[p]]
  /\ blocks' = [blocks EXCEPT ![c] = blocks[p]]
  /\ UNCHANGED building

-----------------------------------------------------------------------------
(* Page faults.                                                            *)

(* findVMA: the first VMA the address is in or at the end of, or the stack, *)
(* for every address from eight bytes below it (one unit here).             *)
StackCond(v, a) == v.start > UStackLimit /\ v.start - UStackLimit >= PageSize /\ a >= v.start - 1
Accepts(v, a, write) ==
  ((v.start <= a /\ a <= v.end) \/ StackCond(v, a)) /\ (write => MayWrite(v))
Accepting(p, a, write) == {i \in 1 .. Len(list[p]) : Accepts(list[p][i], a, write)}
findVMA(p, a, write) == list[p][First(Accepting(p, a, write))]

(* What the program has in memory: its sections, blocks and stack.          *)
Bytes(start, size) == start .. start + size - 1
Section(p, i) == Bytes(program[p][i].addr, program[p][i].size)
Block(p, i) == Bytes(blocks[p][i].ptr, blocks[p][i].size)
OwnBytes(p) ==
  UNION ({Section(p, i) : i \in 1 .. Len(program[p])} \cup {Block(p, i) : i \in 1 .. Len(blocks[p])}
         \cup {UStackTop - PageSize .. UStackTop - 1})
(* What it may store to: all but the sections that are not writable.        *)
OwnStores(p) ==
  OwnBytes(p) \ UNION {Section(p, i) : i \in {j \in 1 .. Len(program[p]) : ~Writes(program[p][j])}}

(* allocatePages maps the whole VMA; copyELF then copies or clears every    *)
(* section that starts in it or at its end.                                 *)
AllButLastPage(p, v) ==
  mapped' = [mapped EXCEPT ![p] = @ \cup PagesOf([v EXCEPT !.end = @ - PageSize])]
allocatePages(p, v) == mapped' = [mapped EXCEPT ![p] = @ \cup PagesOf(v)]
copyELF(p, v) ==
  stored' = [stored EXCEPT ![p] =
    {i \in @ : ~(v.start <= program[p][i].addr /\ program[p][i].addr <= v.end)}]

Fault(p, a, write) ==
  /\ building = Done /\ p \in Running /\ AlignDown(a) \notin mapped[p]
  /\ IF Accepting(p, a, write) = {} THEN delete_process(p)
     ELSE /\ allocatePages(p, findVMA(p, a, write))
          /\ copyELF(p, findVMA(p, a, write))
          /\ UNCHANGED <<list, free, program, building, Heap>>

(* A program uses its own memory, or follows NULL. *)
Touch(p) ==
  \/ \E a \in OwnBytes(p) \cup {0} : Fault(p, a, FALSE)
  \/ \E a \in OwnStores(p) \cup {0} : Fault(p, a, TRUE)

(* A store into a section, once its page is there. *)
Store(p, i) ==
  /\ building = Done /\ p \in Running /\ Writes(program[p][i])
  /\ \E a \in Section(p, i) : AlignDown(a) \in mapped[p]
  /\ stored' = [stored EXCEPT ![p] = @ \cup {i}]
  /\ UNCHANGED <<list, free, program, building, mapped, Heap>>

-----------------------------------------------------------------------------
(* brk and malloc.  malloc clears a block through the page faults above.    *)

HeapIndex(p) == First({i \in 1 .. Len(list[p]) : list[p][i].start = UHeapStart})
BrkFails(top) == top > UHeapLimit \/ top < UHeapStart
Brk(p, top) ==
  list' = [list EXCEPT ![p][HeapIndex(p)].end = IF top > @ THEN AlignUp(top) ELSE @]

(* The smallest free node that is large enough, the first of these. *)
FreeOfAnySize(p, size) == {i \in 1 .. Len(nodes[p]) : nodes[p][i].isFree}
Fitting(p, size) == {i \in 1 .. Len(nodes[p]) : nodes[p][i].isFree /\ nodes[p][i].size >= size}
BestFit(p, size) ==
  First({i \in Fitting(p, size) : \A j \in Fitting(p, size) : nodes[p][i].size <= nodes[p][j].size})

Given(p, ptr, size) == blocks' = [blocks EXCEPT ![p] = Append(@, [ptr |-> ptr, size |-> size])]

MallocAgain(p, size) ==
  /\ Fitting(p, size) # {}
  /\ nodes' = [nodes EXCEPT ![p][BestFit(p, size)].isFree = FALSE]
  /\ Given(p, nodes[p][BestFit(p, size)].mem_ptr, size)
  /\ UNCHANGED <<list, heap_end>>

(* brk(0) gives the end of the heap VMA, where the first block is put.      *)
HeapTop(p) == IF heap_end[p] = 0 THEN list[p][HeapIndex(p)].end ELSE heap_end[p]
MallocNew(p, size) ==
  /\ Fitting(p, size) = {}
  /\ IF BrkFails(HeapTop(p) + size)
     THEN /\ heap_end' = [heap_end EXCEPT ![p] = HeapTop(p)]
          /\ UNCHANGED <<list, nodes, blocks>>
     ELSE /\ Len(nodes[p]) < (IF \A q \in Procs : program[q] = <<>> \/ q = p THEN NumNodes ELSE SharedNodes)
          /\ Brk(p, HeapTop(p) + size)
          /\ heap_end' = [heap_end EXCEPT ![p] = HeapTop(p) + size]
          /\ nodes' = [nodes EXCEPT ![p] =
               Append(@, [size |-> size, mem_ptr |-> HeapTop(p), isFree |-> FALSE])]
          /\ Given(p, HeapTop(p), size)

malloc(p, size) ==
  /\ building = Done /\ p \in Running
  /\ MallocAgain(p, size) \/ MallocNew(p, size)
  /\ UNCHANGED <<free, program, building, mapped, stored>>

(* free: every node with that pointer.  A program frees what it holds.      *)
Freed(p, ptr) ==
  [i \in 1 .. Len(nodes[p]) |->
     IF nodes[p][i].mem_ptr = ptr THEN [nodes[p][i] EXCEPT !.isFree = TRUE] ELSE nodes[p][i]]
free_block(p, k) ==
  /\ building = Done /\ p \in Running
  /\ nodes' = [nodes EXCEPT ![p] = Freed(p, blocks[p][k].ptr)]
  /\ blocks' = [blocks EXCEPT ![p] = SubSeq(@, 1, k - 1) \o SubSeq(@, k + 1, Len(@))]
  /\ UNCHANGED <<list, free, program, building, mapped, stored, heap_end>>

Init ==
  \E first \in Procs, prog \in Programs :
    /\ list = [p \in Procs |-> <<>>] /\ free = NumVmas
    /\ program = [p \in Procs |-> IF p = first THEN prog ELSE <<>>]
    /\ building = [proc |-> first, next |-> 1, exec |-> FALSE]
    /\ mapped = [p \in Procs |-> {}] /\ stored = [p \in Procs |-> {}]
    /\ nodes = [p \in Procs |-> <<>>] /\ heap_end = [p \in Procs |-> 0]
    /\ blocks = [p \in Procs |-> <<>>]

Next ==
  \/ MergeSection \/ InsertSection \/ AddHeapAndStack
  \/ \E p \in Procs :
       \/ Exit(p)
       \/ Touch(p)
       \/ \E new \in Programs : Exec(p, new)
       \/ \E c \in Procs : Fork(p, c)
       \/ \E i \in 1 .. Len(program[p]) : Store(p, i)
       \/ \E size \in Sizes : malloc(p, size)
       \/ \E k \in 1 .. Len(blocks[p]) : free_block(p, k)

Spec == Init /\ [][Next]_vars

-----------------------------------------------------------------------------
(* Properties.                                                             *)

(* Types of the variables. *)
TypeOK ==
  /\ list \in [Procs -> Seq([start : Nat, end : Nat, flags : {1, 2, 3, 5, 7}])]
  /\ free \in 0 .. NumVmas
  /\ program \in [Procs -> Programs \cup {<<>>}]
  /\ building \in [proc : Procs \cup {NoProc}, next : Nat, exec : BOOLEAN]
  /\ mapped \in [Procs -> SUBSET Nat] /\ stored \in [Procs -> SUBSET Nat]
  /\ nodes \in [Procs -> Seq([size : Nat, mem_ptr : Nat, isFree : BOOLEAN])]
  /\ heap_end \in [Procs -> Nat]
  /\ blocks \in [Procs -> Seq([ptr : Nat, size : Nat])]

(* The VMAs of a process ascend and share no page: merging by check_vma     *)
(* never grows one into its successor, and brk never grows the heap into    *)
(* the stack.                                                               *)
VmasApart ==
  \A p \in Procs : \A i, j \in 1 .. Len(list[p]) : i < j => list[p][i].end <= list[p][j].start

(* What a program touches of its own memory is served: findVMA returns a    *)
(* VMA that contains the byte, and one that is writable for a store to a    *)
(* writable section, although a merged VMA keeps the flags of its first     *)
(* section.                                                                 *)
OwnBytesServed ==
  building = Done => \A p \in Running :
    /\ \A a \in OwnBytes(p) : /\ Accepting(p, a, FALSE) # {}
                              /\ AlignDown(a) \in PagesOf(findVMA(p, a, FALSE))
    /\ \A a \in OwnStores(p) : /\ Accepting(p, a, TRUE) # {}
                               /\ findVMA(p, a, TRUE) = findVMA(p, a, FALSE)

(* copyELF copies every section of the VMA at every fault in it.  A later   *)
(* fault never does so over what the program has stored.                    *)
StoresKept ==
  [][\A p \in Procs : mapped[p] \subseteq mapped'[p] => stored[p] \subseteq stored'[p]]_vars

(* The blocks a program holds do not overlap and lie inside the heap VMA,   *)
(* whatever it frees and gets again.                                        *)
BlocksApart ==
  \A p \in Procs : building.proc # p => \A i \in 1 .. Len(blocks[p]) :
    /\ UHeapStart <= blocks[p][i].ptr
    /\ blocks[p][i].ptr + blocks[p][i].size <= list[p][HeapIndex(p)].end
    /\ \A j \in 1 .. Len(blocks[p]) : i < j =>
         \/ blocks[p][i].ptr + blocks[p][i].size <= blocks[p][j].ptr
         \/ blocks[p][j].ptr + blocks[p][j].size <= blocks[p][i].ptr
=============================================================================
