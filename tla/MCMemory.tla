------------------------------ MODULE MCMemory ------------------------------
(***************************************************************************)
(* Instances of Memory: programs as ld lays them out, in pages of 4 bytes. *)
(***************************************************************************)
EXTENDS Memory

Sec(addr, size, flags) == [addr |-> addr, size |-> size, flags |-> flags]

(* .text and .rodata on one page, .data and .bss with a page's end between; *)
(* a program whose .eh_frame starts where the VMA of .text ends.            *)
TwoPrograms ==
  {<<Sec(2, 3, 6), Sec(6, 1, 2), Sec(13, 2, 3), Sec(15, 4, 3)>>,
   <<Sec(1, 3, 6), Sec(4, 2, 50), Sec(14, 5, 3)>>}

=============================================================================
