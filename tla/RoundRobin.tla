----------------------------- MODULE RoundRobin -----------------------------
(***************************************************************************)
(* What the scheduler promises, without links or pids: the runnable        *)
(* processes stand in a queue; the processor moves along it, one process   *)
(* per slice, and starts again at its front; whoever becomes runnable      *)
(* joins at the end; a process that is not runnable is parked until        *)
(* something wakes or kills it.                                            *)
(***************************************************************************)
EXTENDS Naturals, Sequences, SequencesExt

CONSTANTS Proc, Boot  \* the processes; the queue the kernel starts with

VARIABLES run, cur, parked

rrvars == <<run, cur, parked>>

Index(s, x) == CHOOSE i \in DOMAIN s : s[i] = x
(* The process behind x, and the first one behind the last. *)
After(s, x) == s[(Index(s, x) % Len(s)) + 1]

Init == run = Boot /\ cur = Head(Boot) /\ parked = {}

(* The parked processes W become runnable, in some order. *)
Joined(W) == {run \o w : w \in SetToSeqs(W)}

(* A slice ends; the newcomers may have joined before or after the choice. *)
Slice(W) ==
  /\ run' \in Joined(W) /\ parked' = parked \ W
  /\ cur' = After(run, cur) \/ cur' = After(run', cur)

Wake(W) == run' \in Joined(W) /\ parked' = parked \ W /\ cur' = cur

Create(c) ==
  /\ c \notin parked /\ \A i \in DOMAIN run : run[i] # c
  /\ run' = Append(run, c) /\ UNCHANGED <<cur, parked>>

(* The current process blocks; the next one runs. *)
Park ==
  /\ run' = Remove(run, cur) /\ parked' = parked \cup {cur} /\ cur' = After(run, cur)

(* x goes for good, and its exit wakes W. *)
Exit(x, W) ==
  \E r \in Joined(W) :
    /\ run' = Remove(r, x) /\ parked' = parked \ (W \cup {x})
    /\ cur' = IF x = cur THEN After(r, x) ELSE cur

(* The current process hands the processor to a parked one, which is put    *)
(* behind it.                                                               *)
Resume(p) ==
  /\ run' = InsertAt(run, Index(run, cur) + 1, p) /\ parked' = parked \ {p} /\ cur' = p

Next ==
  \/ \E W \in SUBSET parked : Slice(W) \/ Wake(W)
  \/ \E c \in Proc : Create(c)
  \/ Park
  \/ \E x \in Proc : \E W \in SUBSET (parked \ {x}) : Exit(x, W)
  \/ \E p \in parked : Resume(p)

Spec == Init /\ [][Next]_rrvars
=============================================================================
