------------------------------- MODULE MCPipe -------------------------------
(* Messages over two bytes; Long has one that is longer than the buffer. *)
EXTENDS Pipe

Upto(n) == UNION {[1 .. k -> Byte] : k \in 0 .. n}
Short == Upto(3)
Long == Upto(2) \cup {[i \in 1 .. Size + 1 |-> "a"]}
=============================================================================
