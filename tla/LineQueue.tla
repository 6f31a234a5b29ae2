----------------------------- MODULE LineQueue -----------------------------
(***************************************************************************)
(* What a terminal promises: lines, in the order they are entered.  A read *)
(* takes the oldest complete line, whole and without its end; when there   *)
(* is none, the reader waits and gets the next line that is entered.       *)
(***************************************************************************)
EXTENDS Naturals, Sequences

CONSTANTS Char, Reader, NoReader

VARIABLES
  queue,   \* the complete lines nobody has read
  partial, \* the line being typed
  waiting, \* the reader that waits
  line     \* what each reader read last

lqvars == <<queue, partial, waiting, line>>

Init ==
  queue = <<>> /\ partial = <<>> /\ waiting = NoReader /\ line = [p \in Reader |-> <<>>]

Type == \E c \in Char : partial' = Append(partial, c) /\ UNCHANGED <<queue, waiting, line>>

Finish ==
  /\ partial' = <<>>
  /\ IF waiting = NoReader
     THEN queue' = Append(queue, partial) /\ UNCHANGED <<waiting, line>>
     ELSE line' = [line EXCEPT ![waiting] = partial] /\ waiting' = NoReader /\ UNCHANGED queue

Take(p) ==
  /\ queue # <<>>
  /\ line' = [line EXCEPT ![p] = Head(queue)] /\ queue' = Tail(queue)
  /\ UNCHANGED <<partial, waiting>>

Wait(p) ==
  queue = <<>> /\ waiting = NoReader /\ waiting' = p /\ UNCHANGED <<queue, partial, line>>

Next == Type \/ Finish \/ \E p \in Reader : Take(p) \/ Wait(p)

Spec == Init /\ [][Next]_lqvars
=============================================================================
