----------------------------- MODULE ByteQueue -----------------------------
(***************************************************************************)
(* What a pipe promises: a queue of bytes.  A message goes in whole, behind *)
(* what is there.  Who reads gets the oldest bytes, in order, as many as    *)
(* asked for or as there are; an empty answer means that the queue is empty *)
(* and its write end closed.                                               *)
(***************************************************************************)
EXTENDS Naturals, Sequences

CONSTANTS Messages, Counts, Capacity

VARIABLES queue, closed, got

bqvars == <<queue, closed, got>>

Init == queue = <<>> /\ closed = FALSE /\ got = <<>>

Put(message) ==
  /\ ~closed
  /\ Len(queue) + Len(message) <= Capacity
  /\ queue' = queue \o message
  /\ UNCHANGED <<closed, got>>

Get(count) ==
  LET n == IF count < Len(queue) THEN count ELSE Len(queue) IN
  /\ queue # <<>>
  /\ got' = SubSeq(queue, 1, n)
  /\ queue' = SubSeq(queue, n + 1, Len(queue))
  /\ UNCHANGED closed

EndOfFile == queue = <<>> /\ closed /\ got' = <<>> /\ UNCHANGED <<queue, closed>>

Close == closed' = TRUE /\ UNCHANGED <<queue, got>>

Next ==
  \/ \E message \in Messages : Put(message)
  \/ \E count \in Counts : Get(count)
  \/ EndOfFile
  \/ Close

Spec == Init /\ [][Next]_bqvars
=============================================================================
