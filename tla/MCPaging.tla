------------------------------ MODULE MCPaging ------------------------------
(***************************************************************************)
(* Instances of Paging for TLC: one text page, one data page, a heap of at *)
(* most one page, one stack page, and the page above the heap and below    *)
(* the stack that findVMA may accept.  Text and data share a page table,   *)
(* heap and stack share another.                                           *)
(***************************************************************************)
EXTENDS Paging

MCText == {0}
MCData == {2}
MCVA == {0, 2, 4, 5, 6}
MCPath == [v \in MCVA |-> IF v < 4 THEN {"low"} ELSE {"high"}]

(* Frames have no identity but their use.  Every place that can name a      *)
(* frame (a mapping, a page-table page, a pml4) is replaced by the first    *)
(* place that names the same frame; with the counts and the number of free  *)
(* frames this is the state up to renaming frames.  With this VIEW TLC      *)
(* visits one state of each such class.                                     *)
Row(p) == <<root[p], tables[p]["low"], tables[p]["high"],
            map[p][0], map[p][2], map[p][4], map[p][5], map[p][6]>>
Namer(rows) == [i \in 1 .. (8 * Cardinality(Proc)) |->
                  rows[1 + ((i - 1) \div 8)][1 + ((i - 1) % 8)]]
UpToFrameNames ==
  LET at == Namer([p \in Proc |-> Row(p)]) IN
  <<status, heap, rw, cow, kheap, hung, Cardinality(free),
    [i \in DOMAIN at |->
       IF at[i] = NoPage THEN <<0, 0, FALSE>>
       ELSE <<CHOOSE j \in 1 .. i : at[j] = at[i],
              refs[at[i]], at[i] \in free>>],
    {g \in Page : refs[g] < 0} \subseteq free,
    Cardinality({g \in Page : refs[g] < 0})>>
=============================================================================
