--------------------------- MODULE SessionProofs ---------------------------
(***************************************************************************)
(* Proofs about Session: the programs of bin/ on the kernel of Sched.      *)
(*                                                                         *)
(* A step of a program is a system call or nothing to the kernel, so what  *)
(* is proved of Sched holds of the sessions.  Who owns the terminal is     *)
(* decided by the programs: each fork, execve and exit of Session is made  *)
(* where the caller owns it or where it does not matter (Owners).          *)
(***************************************************************************)
EXTENDS Session, SchedProofs

(* The statements at which a process owns the terminal: it is to read a     *)
(* line, or to become the program of one.                                   *)
Owners == {"init", "login", "command", "direct", "direct&", "lookup", "lookup&", "bad"}

(* One of the processes A at most owns the terminal; the blocked reader b   *)
(* does, and whoever is at one of those statements.                         *)
Owned(A, fore, b, at) ==
  /\ \A x \in A : fore[x] \in {0, 1} /\ (at[x] \in Owners => fore[x] = 1)
  /\ \A x, y \in A : fore[x] = 1 /\ fore[y] = 1 => x = y
  /\ b # NULL => b \in A /\ fore[b] = 1

(* The inductive invariant, beside those of Sched. *)
FInv ==
  /\ pc = [x \in Pcb |-> pc[x]] /\ child \in [Pcb -> Pids]
  /\ \A x \in Created : parentPCB[x] < x
  /\ \A x \in Pcb \ Created : isFore[x] = 0 /\ pc[x] = "none"
  /\ Owned(Alive, isFore, q.block, pc)

-----------------------------------------------------------------------------
(* The steps of the programs are calls of the kernel.                      *)

(* waitpid waits, or returns at once. *)
LEMMA WaitCalls ==
  ASSUME child \in [Pcb -> Pids], NEW p \in Pcb, NEW w, w = -1 \/ w = child[p], NEW l, Waitpid(p, w, l)
  PROVE w \in Pids /\ (waitPlease(p, w) \/ UNCHANGED vars)
<1>1. -1 \in Pids
  BY SchedAssumption DEF Pids
<1>. QED
  BY <1>1 DEF Waitpid, Stay

(* scanf reads, or returns at once. *)
LEMMA ReadCalls ==
  ASSUME NEW p, NEW l, NEW m, Scanf(p, l, m)
  PROVE ReadTyped(p) \/ ReadBlocks(p) \/ UNCHANGED vars
<1>. QED
  BY DEF Scanf, Stay

(* What a step of a program is to the kernel. *)
Calling(p) ==
  \/ fork_handler(p) \/ ExecForeground(p) \/ ExecBackground(p)
  \/ \E w \in Pids : waitPlease(p, w)
  \/ \E n \in Naps : sleepPlease(p, n)
  \/ ReadTyped(p) \/ ReadBlocks(p) \/ Exit(p)
  \/ \E pid \in Pids : KillisCalled(p, pid)
LEMMA StepCalls ==
  ASSUME child \in [Pcb -> Pids], NEW p \in Pcb, Step(p)
  PROVE Calling(p) \/ UNCHANGED vars
<1>1. CASE InitStep(p)
  BY <1>1 DEF InitStep, Fork, Calling
<1>2. CASE ShellStep(p)
  <2>1. CASE pc[p] = "prompt" /\ Scanf(p, "command", "prompt")
    BY <2>1, ReadCalls DEF Calling
  <2>2. CASE \E j \in Jobs \ {"builtin", "exit"} : Taken(j) /\ Fork(p, "await", j)
    BY <2>2 DEF Fork, Calling
  <2>3. CASE Waitpid(p, -1, "prompt")
    BY <2>3, WaitCalls DEF Calling
  <2>. QED BY <1>2, <2>1, <2>2, <2>3 DEF ShellStep, Stay, Calling
<1>3. CASE ChildStep(p)
  <2>1. CASE Waitpid(p, -1, "leave")
    BY <2>1, WaitCalls DEF Calling
  <2>. QED BY <1>3, <2>1 DEF ChildStep, Fork, Calling
<1>4. CASE CommandStep(p)
  <2>1. CASE Scanf(p, pc[p], pc[p])
    BY <2>1, ReadCalls DEF Calling
  <2>2. CASE Scanf(p, "leave", "leave")
    BY <2>2, ReadCalls DEF Calling
  <2>3. CASE Waitpid(p, child[p], "kavana read")
    BY <2>3, WaitCalls DEF Calling
  <2>. QED BY <1>4, <2>1, <2>2, <2>3 DEF CommandStep, Fork, Calling
<1>5. CASE Leave(p)
  BY <1>5 DEF Leave, Calling
<1>. QED
  BY <1>1, <1>2, <1>3, <1>4, <1>5 DEF Step

LEMMA KernelSteps ==
  ASSUME child \in [Pcb -> Pids], [SNext]_svars
  PROVE [Next]_vars
<1>1. CASE UNCHANGED svars
  BY <1>1 DEF svars
<1>2. ASSUME NEW second \in BOOLEAN, NEW slice \in BOOLEAN, ~fault, Timer(second, slice) PROVE Next
  BY <1>2 DEF Timer, Next
<1>3. ASSUME ~fault, Keyboard PROVE Next
  BY <1>3 DEF Keyboard, Next
<1>4. ASSUME NEW p \in Pcb, ~fault, Step(p) PROVE [Next]_vars
  BY <1>4, StepCalls DEF Calling, Next
<1>. QED
  BY <1>1, <1>2, <1>3, <1>4 DEF SNext

-----------------------------------------------------------------------------
(* Who owns the terminal.                                                  *)

(* The process p is at l after the step, and the others where they were. *)
Arrives(p, l) ==
  /\ pc' = [x \in Pcb |-> pc'[x]]
  /\ \A x \in Pcb : pc'[x] = IF x = p THEN l ELSE pc[x]
(* The steps of the programs, as far as the terminal is concerned. *)
Forking(p) ==
  \E l, m : Fork(p, l, m) /\ l \notin Owners /\ (m \in Owners => pc[p] \in Owners)
Becoming(p) ==
  /\ pc[p] \in Owners /\ (ExecForeground(p) \/ ExecBackground(p))
  /\ \E l : l \notin Owners /\ Arrives(p, l)
Reading(p) ==
  (ReadTyped(p) \/ ReadBlocks(p)) /\ \E l : Arrives(p, l)
Going(p) ==
  /\ \/ \E w \in Pids : waitPlease(p, w)
     \/ \E n \in Naps : sleepPlease(p, n)
     \/ Exit(p)
     \/ \E pid \in Pids : KillisCalled(p, pid)
     \/ UNCHANGED vars
  /\ \E l : l \notin Owners /\ Arrives(p, l)

(* A new pc is pc at every process but one. *)
LEMMA Goes ==
  ASSUME pc = [x \in Pcb |-> pc[x]], NEW p \in Pcb, NEW l, Goto(p, l)
  PROVE Arrives(p, l)
<1>. QED
  BY DEF Goto, Arrives

LEMMA WaitGoes ==
  ASSUME FInv, NEW p \in Pcb, NEW w, w = -1 \/ w = child[p], NEW l, l \notin Owners, Waitpid(p, w, l)
  PROVE Going(p) /\ child' = child
<1>1. Arrives(p, l)
  BY Goes DEF Waitpid, FInv
<1>2. w \in Pids /\ (waitPlease(p, w) \/ UNCHANGED vars)
  BY WaitCalls DEF FInv
<1>. QED
  BY <1>1, <1>2 DEF Going, Waitpid

LEMMA ScanGoes ==
  ASSUME FInv, NEW p \in Pcb, NEW l, NEW m, m \notin Owners, Scanf(p, l, m)
  PROVE (Reading(p) \/ Going(p)) /\ child' = child
<1>1. CASE (ReadTyped(p) \/ ReadBlocks(p)) /\ Goto(p, l)
  <2>1. Arrives(p, l)
    BY <1>1, Goes DEF FInv
  <2>. QED BY <1>1, <2>1 DEF Reading, Scanf
<1>2. CASE Stay /\ Goto(p, m)
  <2>1. Arrives(p, m)
    BY <1>2, Goes DEF FInv
  <2>. QED BY <1>2, <2>1 DEF Going, Stay, Scanf
<1>. QED
  BY <1>1, <1>2 DEF Scanf

(* Every step of a program is of one of these kinds. *)
LEMMA Programs ==
  ASSUME FInv, NEW p \in Pcb, Step(p)
  PROVE \/ Forking(p)
        \/ (Becoming(p) \/ Reading(p) \/ Going(p)) /\ child' = child
<1>0. ASSUME NEW l, Goto(p, l) PROVE Arrives(p, l)
  BY <1>0, Goes DEF FInv
<1>1. CASE InitStep(p)
  <2>1. CASE pc[p] = "init" /\ Fork(p, "leave", "login")
    BY <2>1 DEF Forking, Owners
  <2>2. CASE pc[p] = "login" /\ ExecForeground(p) /\ Goto(p, "prompt") /\ child' = child
    BY <2>2, <1>0 DEF Becoming, Owners
  <2>. QED BY <1>1, <2>1, <2>2 DEF InitStep
<1>2. CASE ShellStep(p)
  <2>1. CASE pc[p] = "prompt" /\ Scanf(p, "command", "prompt")
    BY <2>1, ScanGoes DEF Owners
  <2>2. CASE pc[p] = "command" /\ \E j \in Jobs \ {"builtin", "exit"} : Taken(j) /\ Fork(p, "await", j)
    BY <2>2 DEF Forking, Owners
  <2>3. CASE Stay /\ Goto(p, "prompt") /\ child' = child
    BY <2>3, <1>0 DEF Going, Stay, Owners
  <2>4. CASE Exit(p) /\ Goto(p, "gone") /\ child' = child
    BY <2>4, <1>0 DEF Going, Owners
  <2>5. CASE Waitpid(p, -1, "prompt")
    BY <2>5, WaitGoes DEF Owners
  <2>. QED BY <1>2, <2>1, <2>2, <2>3, <2>4, <2>5 DEF ShellStep
<1>3. CASE ChildStep(p)
  <2>1. CASE pc[p] = "direct" /\ ExecForeground(p) /\ Goto(p, "run") /\ child' = child
    BY <2>1, <1>0 DEF Becoming, Owners
  <2>2. CASE pc[p] = "direct&" /\ ExecBackground(p) /\ Goto(p, "run&") /\ child' = child
    BY <2>2, <1>0 DEF Becoming, Owners
  <2>3. CASE pc[p] = "lookup" /\ Fork(p, "await path", "direct")
    BY <2>3 DEF Forking, Owners
  <2>4. CASE pc[p] = "lookup&" /\ Fork(p, "await path", "direct&")
    BY <2>4 DEF Forking, Owners
  <2>5. CASE pc[p] = "bad" /\ Fork(p, "await path", "leave")
    BY <2>5 DEF Forking, Owners
  <2>6. CASE Waitpid(p, -1, "leave")
    BY <2>6, WaitGoes DEF Owners
  <2>. QED BY <1>3, <2>1, <2>2, <2>3, <2>4, <2>5, <2>6 DEF ChildStep
<1>4. CASE CommandStep(p)
  <2>1. CASE May(p, "read") /\ Scanf(p, pc[p], pc[p])
    BY <2>1, ScanGoes DEF May, Owners
  <2>2. CASE \E n \in Naps : May(p, "nap") /\ sleepPlease(p, n) /\ pc' = pc /\ child' = child
    <3>1. pc[p] \notin Owners
      BY <2>2 DEF May, Owners
    <3>2. Arrives(p, pc[p])
      BY <2>2 DEF Arrives, FInv
    <3>. QED BY <2>2, <3>1, <3>2 DEF Going
  <2>3. CASE May(p, "kavana") /\ Fork(p, "kavana", "kavana child")
    <3>1. "kavana" \notin Owners /\ "kavana child" \notin Owners
      BY DEF Owners
    <3>. QED BY ONLY <2>3, <3>1 DEF Forking
  <2>4. CASE Waitpid(p, child[p], "kavana read")
    BY <2>4, WaitGoes DEF Owners
  <2>5. CASE Scanf(p, "leave", "leave")
    BY <2>5, ScanGoes DEF Owners
  <2>6. CASE \E pid \in Pids : KillisCalled(p, pid) /\ Goto(p, "leave") /\ child' = child
    BY <2>6, <1>0 DEF Going, Owners
  <2>. QED BY <1>4, <2>1, <2>2, <2>3, <2>4, <2>5, <2>6 DEF CommandStep
<1>5. CASE Leave(p)
  BY <1>5, <1>0 DEF Leave, Going, Owners
<1>. QED
  BY <1>1, <1>2, <1>3, <1>4, <1>5 DEF Step

(* What the invariants say of the tables of the terminal. *)
LEMMA Terminals ==
  ASSUME IInv, WInv
  PROVE /\ isFore \in [Pcb -> {0, 1, -1}] /\ Alive \subseteq Created /\ Created \subseteq Pcb
        /\ Pcb \subseteq Nat /\ NULL \notin Pcb /\ q \in QType
        /\ q.block # NULL => q.block \in Alive /\ q.block # q.cur
        /\ q.cur \in Alive
        /\ \A x \in Created : parentPCB[x] \in Created \cup {NULL}
<1>1. PICK R, S, W \in SUBSET Pcb : Held(q, Alive, R, S, W)
  BY DEF IInv
<1>2. /\ q \in QType /\ q.cur \in R /\ R \subseteq Alive /\ Blocked(q) \subseteq Alive
      /\ Alive \subseteq Created /\ Created \subseteq Pcb /\ NULL \notin Pcb
      /\ Apart(R, S, W, Blocked(q))
  BY <1>1, Lives
<1>3. q.block # NULL => q.block \in Blocked(q) /\ q.block \notin R
  BY <1>2 DEF Blocked, Apart
<1>4. isFore \in [Pcb -> {0, 1, -1}]
  BY DEF IInv, TypeOK
<1>. QED
  BY <1>2, <1>3, <1>4, Tables DEF WInv, Kin

(* After a step, the blocked reader is a living process. *)
LEMMA BlockedLives ==
  ASSUME IInv'
  PROVE q'.block # NULL => q'.block \in Alive'
<1>1. PICK R, S, W \in SUBSET Pcb : Held(q', Alive', R, S, W)
  BY DEF IInv
<1>. QED
  BY <1>1 DEF Held, Members, Blocked

(* A step that gives the terminal to nobody, and after which the blocked    *)
(* reader is who it was, or nobody, or the owner p.                         *)
LEMMA Keeps ==
  ASSUME IInv, WInv, FInv, NEW p \in Created, NEW l, Arrives(p, l), l \in Owners => isFore[p] = 1,
         UNCHANGED <<isFore, parentPCB, allocated>>, child' \in [Pcb -> Pids],
         Alive' \subseteq Alive,
         \/ q'.block = q.block \/ q'.block = NULL
         \/ q'.block = p /\ isFore[p] = 1,
         q'.block # NULL => q'.block \in Alive'
  PROVE FInv'
<1>1. Created' = Created /\ Created \subseteq Pcb /\ Alive \subseteq Created
  BY Terminals DEF Created
<1>2. Owned(Alive, isFore, q.block, pc)
  BY DEF FInv
<1>3. \A x \in Pcb : pc'[x] = IF x = p THEN l ELSE pc[x]
  BY DEF Arrives
<1>4. \A x \in Alive' : isFore[x] \in {0, 1} /\ (pc'[x] \in Owners => isFore[x] = 1)
  BY <1>1, <1>2, <1>3 DEF Owned
<1>5. q'.block # NULL => q'.block \in Alive' /\ isFore[q'.block] = 1
  BY <1>2 DEF Owned
<1>6. Owned(Alive', isFore, q'.block, pc')
  BY <1>2, <1>4, <1>5 DEF Owned
<1>7. \A x \in Pcb \ Created : isFore[x] = 0 /\ pc'[x] = "none"
  BY <1>3 DEF FInv
<1>8. \A x \in Created : parentPCB[x] < x
  BY DEF FInv
<1>9. pc' = [x \in Pcb |-> pc'[x]]
  BY DEF Arrives
<1>. QED
  BY <1>1, <1>6, <1>7, <1>8, <1>9 DEF FInv

(* The same, when the programs stay where they are. *)
LEMMA KeepsStill ==
  ASSUME IInv, WInv, IInv', WInv', FInv, UNCHANGED <<isFore, parentPCB, allocated, child, pc>>,
         Alive' = Alive, q'.block = q.block \/ q'.block = NULL
  PROVE FInv'
<1>1. q.cur \in Created /\ q.cur \in Alive
  BY Terminals
<1>2. Arrives(q.cur, pc[q.cur])
  BY DEF Arrives, FInv
<1>3. pc[q.cur] \in Owners => isFore[q.cur] = 1
  BY <1>1 DEF FInv, Owned
<1>4. q'.block # NULL => q'.block \in Alive'
  BY Terminals DEF FInv, Owned
<1>5. child' \in [Pcb -> Pids]
  BY DEF FInv
<1>6. PICK p : p = q.cur
  OBVIOUS
<1>. QED
  BY <1>1, <1>2, <1>3, <1>4, <1>5, <1>6, Keeps

(* The timer leaves the terminal alone. *)
LEMMA TimerOwns ==
  ASSUME IInv, WInv, IInv', WInv', FInv, Solitary \/ HeadsTrue',
         NEW second \in BOOLEAN, NEW slice \in BOOLEAN, Timer(second, slice)
  PROVE FInv'
<1>1. timer_handler(second, slice) /\ UNCHANGED <<pc, child>>
  BY DEF Timer
<1>2. UNCHANGED <<isFore, parentPCB, allocated>>
  BY <1>1 DEF timer_handler
<1>3. Alive' = Alive
  <2>1. Numbers
    BY <1>1, TimerStep
  <2>2. hasRan \in [Pcb -> {0, 1, -1}] /\ Created \subseteq Pcb /\ Created' = Created
    BY <1>2, Tables DEF Created
  <2>3. \A x \in Created : hasRan'[x] # -1 <=> hasRan[x] # -1
    BY <2>1, <2>2 DEF Numbers
  <2>. QED BY <2>2, <2>3 DEF Alive
<1>4. q'.block = q.block
  <2>1. PICK R, S, W \in SUBSET Pcb : Held(q, Alive, R, S, W)
    BY DEF IInv
  <2>2. PICK R2, S2, W2, s, p : TimerLeaves(second, slice, R, S, W, R2, S2, W2, s, p)
    BY <1>1, <2>1, TimerWalks
  <2>. QED BY <2>2 DEF TimerLeaves
<1>. QED
  BY <1>1, <1>2, <1>3, <1>4, KeepsStill

(* Enter makes the blocked reader the owner, which it was. *)
LEMMA KeyOwns ==
  ASSUME IInv, WInv, IInv', WInv', FInv, Keyboard
  PROVE FInv'
<1>1. CASE KeyTyped
  BY <1>1, KeepsStill DEF KeyTyped, Keyboard, pcbs, Alive, Created
<1>2. CASE KeyEnter
  <2>1. /\ q.block # NULL /\ isFore' = [isFore EXCEPT ![q.block] = 1]
        /\ q' = [Append(q, Last(q, q.run), q.block) EXCEPT !.block = NULL]
        /\ UNCHANGED <<parentPCB, hasRan, allocated, child, pc>>
    BY <1>2 DEF KeyEnter, Keyboard
  <2>2. isFore' = isFore
    <3>1. isFore[q.block] = 1 /\ isFore \in [Pcb -> {0, 1, -1}] /\ q.block \in Pcb
      BY <2>1, Terminals DEF FInv, Owned
    <3>. QED BY <2>1, <3>1
  <2>3. q'.block = NULL
    BY <2>1, Terminals DEF Append, QType
  <2>4. Alive' = Alive
    BY <2>1 DEF Alive, Created
  <2>. QED BY <2>1, <2>2, <2>3, <2>4, KeepsStill
<1>. QED
  BY <1>1, <1>2 DEF Keyboard, keyboard_handler

(* A child is born at its statement, as the owner if its parent was. *)
LEMMA ForkOwns ==
  ASSUME IInv, WInv, IInv', WInv', FInv, NEW p \in Pcb, Forking(p)
  PROVE FInv'
<1>1. PICK l, m : Fork(p, l, m) /\ l \notin Owners /\ (m \in Owners => pc[p] \in Owners)
  BY DEF Forking
<1>2. PICK c : c = allocated + 1
  OBVIOUS
<1>3. /\ Caller(p, "fork") /\ c \in Pcb /\ allocated' = c
      /\ q' = Append(q, Last(q, p), c)
      /\ parentPCB' = [parentPCB EXCEPT ![c] = p]
      /\ hasRan' = [hasRan EXCEPT ![c] = 1]
      /\ isFore' = IF isFore[p] # 0 THEN [isFore EXCEPT ![c] = 1, ![p] = 0] ELSE isFore
      /\ pc' = [pc EXCEPT ![p] = l, ![c] = m]
      /\ child' = [child EXCEPT ![p] = global_counter']
  BY <1>1, <1>2 DEF Fork, fork_handler, ForkTakes, GotoBoth, NewPcb
<1>4. /\ p = q.cur /\ p \in Alive /\ p \in Created /\ q.block # p
      /\ Alive \subseteq Created /\ Created \subseteq Pcb /\ Pcb \subseteq Nat
  BY <1>3, Terminals DEF Caller
<1>5. Created' = Created \cup {c} /\ c \notin Created /\ p # c /\ p < c
  <2>1. allocated \in Nat /\ p \in 1 .. allocated
    BY <1>4, Tables DEF Created
  <2>2. Created' = 1 .. c
    BY <1>3 DEF Created
  <2>3. 1 .. c = (1 .. allocated) \cup {c} /\ c \notin 1 .. allocated /\ p < c
    BY ONLY <1>2, <2>1
  <2>. QED BY <2>1, <2>2, <2>3 DEF Created
<1>6. Alive' = Alive \cup {c}
  <2>1. \A x \in Pcb : hasRan'[x] = IF x = c THEN 1 ELSE hasRan[x]
    BY <1>3, Tables
  <2>. QED BY <1>3, <1>4, <1>5, <2>1 DEF Alive
<1>7. Owned(Alive, isFore, q.block, pc)
  BY DEF FInv
<1>8. isFore[c] = 0
  BY <1>3, <1>5 DEF FInv
<1>9. \A x \in Pcb : isFore'[x] = IF isFore[p] = 0 THEN isFore[x]
                                  ELSE IF x = p THEN 0 ELSE IF x = c THEN 1 ELSE isFore[x]
  BY <1>3, <1>5, Terminals
<1>10. \A x \in Pcb : pc'[x] = IF x = c THEN m ELSE IF x = p THEN l ELSE pc[x]
  BY <1>3, <1>5 DEF FInv
<1>11. q'.block = q.block
  BY <1>3, Terminals DEF Append, QType
<1>12. isFore[p] \in {0, 1} /\ (pc[p] \in Owners => isFore[p] = 1)
  BY <1>4, <1>7 DEF Owned
<1>13. \A x \in Alive' : isFore'[x] \in {0, 1} /\ (pc'[x] \in Owners => isFore'[x] = 1)
  <2> SUFFICES ASSUME NEW x \in Alive'
               PROVE isFore'[x] \in {0, 1} /\ (pc'[x] \in Owners => isFore'[x] = 1)
    OBVIOUS
  <2>1. CASE x = c
    BY <1>1, <1>3, <1>5, <1>8, <1>9, <1>10, <1>12, <2>1
  <2>2. CASE x = p
    BY <1>1, <1>5, <1>9, <1>10, <1>12, <2>2
  <2>3. CASE x # c /\ x # p
    BY <1>4, <1>6, <1>7, <1>9, <1>10, <2>3 DEF Owned
  <2>. QED BY <2>1, <2>2, <2>3
<1>14. \A x, y \in Alive' : isFore'[x] = 1 /\ isFore'[y] = 1 => x = y
  <2>1. CASE isFore[p] = 0
    BY <1>3, <1>4, <1>6, <1>7, <1>8, <1>9, <2>1 DEF Owned
  <2>2. CASE isFore[p] = 1
    <3>1. \A x \in Alive : isFore[x] = 1 => x = p
      BY <1>4, <1>7, <2>2 DEF Owned
    <3>2. \A x \in Alive' : isFore'[x] = 1 => x = c
      BY <1>3, <1>4, <1>6, <1>9, <2>2, <3>1
    <3>. QED BY <3>2
  <2>. QED BY <1>12, <2>1, <2>2
<1>15. q'.block # NULL => q'.block \in Alive' /\ isFore'[q'.block] = 1
  <2> SUFFICES ASSUME q.block # NULL PROVE q.block \in Alive' /\ isFore'[q.block] = 1
    BY <1>11
  <2>1. q.block \in Alive /\ isFore[q.block] = 1 /\ q.block # p
    BY <1>4, <1>7 DEF Owned
  <2>2. isFore[p] = 0
    BY <1>4, <1>7, <1>12, <2>1 DEF Owned
  <2>. QED BY <1>4, <1>6, <1>9, <2>1, <2>2
<1>16. Owned(Alive', isFore', q'.block, pc')
  BY <1>13, <1>14, <1>15 DEF Owned
<1>17. \A x \in Pcb \ Created' : isFore'[x] = 0 /\ pc'[x] = "none"
  <2> SUFFICES ASSUME NEW x \in Pcb \ Created' PROVE isFore'[x] = 0 /\ pc'[x] = "none"
    OBVIOUS
  <2>1. x # c /\ x # p /\ x \notin Created
    BY <1>4, <1>5
  <2>. QED BY <1>9, <1>10, <2>1 DEF FInv
<1>18. \A x \in Created' : parentPCB'[x] < x
  <2>1. \A x \in Pcb : parentPCB'[x] = IF x = c THEN p ELSE parentPCB[x]
    BY <1>3, Tables
  <2>. QED BY <1>3, <1>4, <1>5, <2>1 DEF FInv
<1>19. child' \in [Pcb -> Pids]
  <2>1. global_counter' \in Pids
    BY DEF IInv, TypeOK
  <2>. QED BY <1>3, <2>1 DEF FInv
<1>20. pc' = [x \in Pcb |-> pc'[x]]
  BY <1>3 DEF FInv
<1>. QED
  BY <1>16, <1>17, <1>18, <1>19, <1>20 DEF FInv

(* execve takes the terminal from the parent, or gives it back to it. *)
LEMMA BecomeOwns ==
  ASSUME IInv, WInv, IInv', WInv', FInv, NEW p \in Pcb, Becoming(p), child' = child
  PROVE FInv'
<1>1. PICK l : l \notin Owners /\ Arrives(p, l)
  BY DEF Becoming
<1>2. pc[p] \in Owners /\ (ExecForeground(p) \/ ExecBackground(p))
  BY DEF Becoming
<1>3. p = q.cur /\ p \in Alive /\ p \in Created /\ Alive \subseteq Created /\ Created \subseteq Pcb
  BY <1>2, Terminals DEF ExecForeground, ExecBackground, Caller
<1>4. Owned(Alive, isFore, q.block, pc)
  BY DEF FInv
<1>5. isFore[p] = 1 /\ \A x \in Alive : x # p => isFore[x] = 0
  BY <1>2, <1>3, <1>4 DEF Owned
<1>6. q.block = NULL
  BY <1>3, <1>4, <1>5, Terminals DEF Owned
<1>7. /\ q'.block = NULL /\ Alive' = Alive /\ Created' = Created
      /\ UNCHANGED <<parentPCB, allocated>>
  <2>1. CASE ExecForeground(p)
    BY <1>6, <2>1 DEF ExecForeground, Alive, Created
  <2>2. CASE ExecBackground(p)
    <3>1. q'.block = q.block /\ hasRan' = hasRan
      BY <2>2, ExecBackgroundStep
    <3>. QED BY <1>6, <2>2, <3>1 DEF ExecBackground, Alive, Created
  <2>. QED BY <1>2, <2>1, <2>2
<1>8. PICK o \in Created : /\ isFore'[o] = 1 /\ \A x \in Alive : x # o => isFore'[x] = 0
                           /\ \A x \in Pcb \ Created : isFore'[x] = isFore[x]
  <2>1. /\ parentPCB[p] # p /\ parentPCB[p] \in Created \cup {NULL} /\ NULL \notin Pcb
        /\ parentPCB[p] # NULL => parentPCB[p] \in Created
    BY <1>3, Terminals DEF FInv
  <2>2. isFore \in [Pcb -> {0, 1, -1}]
    BY Terminals
  <2>3. CASE isFore' = [isFore EXCEPT ![p] = 1]
    <3>1. \A x \in Pcb : isFore'[x] = IF x = p THEN 1 ELSE isFore[x]
      BY <2>2, <2>3
    <3>. QED BY <1>3, <1>5, <3>1
  <2>4. CASE LiveParent(p) /\ isFore' = [isFore EXCEPT ![p] = 1, ![parentPCB[p]] = 0]
    <3>1. \A x \in Pcb : isFore'[x] = IF x = parentPCB[p] THEN 0 ELSE IF x = p THEN 1 ELSE isFore[x]
      BY <2>2, <2>4
    <3>2. isFore'[p] = 1 /\ \A x \in Alive : x # p => isFore'[x] = 0
      BY <1>3, <1>5, <2>1, <3>1
    <3>. QED BY <1>3, <2>1, <2>4, <3>1, <3>2 DEF LiveParent
  <2>5. CASE LiveParent(p) /\ isFore' = [isFore EXCEPT ![p] = 0, ![parentPCB[p]] = 1]
    <3>1. \A x \in Pcb : isFore'[x] = IF x = parentPCB[p] THEN 1 ELSE IF x = p THEN 0 ELSE isFore[x]
      BY <2>2, <2>5
    <3>2. parentPCB[p] \in Created
      BY <2>1, <2>5 DEF LiveParent
    <3>. QED BY <1>3, <1>5, <3>1, <3>2
  <2>. QED BY <1>2, <2>3, <2>4, <2>5 DEF ExecForeground, ExecBackground
<1>9. \A x \in Pcb : pc'[x] = IF x = p THEN l ELSE pc[x]
  BY <1>1 DEF Arrives
<1>10. \A x \in Alive : pc'[x] \notin Owners
  BY <1>1, <1>3, <1>4, <1>5, <1>9 DEF Owned
<1>11. Owned(Alive', isFore', q'.block, pc')
  BY <1>7, <1>8, <1>10 DEF Owned
<1>12. \A x \in Pcb \ Created : isFore'[x] = 0 /\ pc'[x] = "none"
  BY <1>3, <1>8, <1>9 DEF FInv
<1>. QED
  BY <1>1, <1>7, <1>11, <1>12 DEF FInv, Arrives

(* The exit of the owner leaves the terminal to its parent, if that lives.  *)
LEMMA ExitOwns ==
  ASSUME IInv, WInv, IInv', WInv', FInv, NEW x \in Alive, Departs(x),
         NEW p \in Created, NEW l, l \notin Owners, Arrives(p, l), child' = child
  PROVE FInv'
<1>1. /\ isFore' = IF isFore[x] # 0 /\ LiveParent(x)
                   THEN [isFore EXCEPT ![x] = -1, ![parentPCB[x]] = 1] ELSE isFore
      /\ hasRan' = [hasRan EXCEPT ![x] = -1] /\ q'.block = q.block
      /\ UNCHANGED <<parentPCB, allocated>>
  BY DEF Departs, sys_exit
<1>2. Created' = Created /\ Alive \subseteq Created /\ Created \subseteq Pcb /\ x \in Pcb
  BY <1>1, Terminals DEF Created
<1>3. Alive' = Alive \ {x}
  <2>1. \A y \in Pcb : hasRan'[y] = IF y = x THEN -1 ELSE hasRan[y]
    BY <1>1, Tables
  <2>. QED BY <1>2, <2>1 DEF Alive
<1>4. q'.block # NULL => q'.block \in Alive'
  BY BlockedLives
<1>5. CASE isFore' = isFore
  <2>1. child' \in [Pcb -> Pids]
    BY DEF FInv
  <2>. QED BY <1>1, <1>3, <1>4, <1>5, <2>1, Keeps
<1>6. CASE /\ isFore[x] # 0 /\ LiveParent(x)
           /\ isFore' = [isFore EXCEPT ![x] = -1, ![parentPCB[x]] = 1]
  <2>1. Owned(Alive, isFore, q.block, pc)
    BY DEF FInv
  <2>2. isFore[x] = 1 /\ \A y \in Alive : y # x => isFore[y] = 0 /\ pc[y] \notin Owners
    BY <1>6, <2>1 DEF Owned
  <2>3. q'.block = NULL
    BY <1>1, <1>3, <1>4, <2>1, <2>2 DEF Owned
  <2>4. PICK o \in Created : o = parentPCB[x]
    BY <1>2, <1>6, Terminals DEF LiveParent
  <2>5. \A y \in Pcb : isFore'[y] = IF y = o THEN 1 ELSE IF y = x THEN -1 ELSE isFore[y]
    BY <1>6, <2>4, Terminals
  <2>6. \A y \in Pcb : pc'[y] = IF y = p THEN l ELSE pc[y]
    BY DEF Arrives
  <2>7. \A y \in Alive' : isFore'[y] \in {0, 1} /\ pc'[y] \notin Owners /\ (isFore'[y] = 1 => y = o)
    BY <1>2, <1>3, <2>2, <2>5, <2>6
  <2>8. Owned(Alive', isFore', q'.block, pc')
    BY <2>3, <2>7 DEF Owned
  <2>9. \A y \in Pcb \ Created : isFore'[y] = 0 /\ pc'[y] = "none"
    BY <1>2, <2>5, <2>6 DEF FInv
  <2>. QED BY <1>1, <1>2, <2>8, <2>9 DEF FInv, Arrives
<1>. QED
  BY <1>1, <1>5, <1>6

(* Reads, waits, naps and exits of a process that arrives where no owner    *)
(* has to be, or that reads as the owner.                                   *)
LEMMA GoOwns ==
  ASSUME IInv, WInv, IInv', WInv', FInv, Solitary \/ HeadsTrue', NEW p \in Pcb,
         Reading(p) \/ Going(p), Step(p), ~fault, child' = child
  PROVE FInv'
<1>1. pc[p] # "none"
  BY DEF Step, InitStep, ShellStep, ChildStep, CommandStep, May, Leave
<1>2. p \in Created /\ Alive \subseteq Created
  BY <1>1, Terminals DEF FInv
<1>3. Owned(Alive, isFore, q.block, pc)
  BY DEF FInv
<1>4. child' \in [Pcb -> Pids] /\ (q'.block # NULL => q'.block \in Alive')
  BY BlockedLives DEF FInv
<1>5. CASE Reading(p)
  <2>1. PICK l : Arrives(p, l)
    BY <1>5 DEF Reading
  <2>2. ReadTyped(p) \/ ReadBlocks(p)
    BY <1>5 DEF Reading
  <2>3. Caller(p, "read") /\ isFore[p] # 0
    BY <2>2 DEF ReadTyped, ReadBlocks, MayRead
  <2>4. isFore[p] = 1
    BY <1>3, <2>3, Terminals DEF Caller, Owned
  <2>5. UNCHANGED <<isFore, parentPCB, allocated, hasRan>>
    BY <2>2, BlockStep DEF ReadTyped, ReadBlocks, pcbs
  <2>6. q'.block = q.block \/ q'.block = p
    BY <2>2, BlockStep DEF ReadTyped, ReadBlocks
  <2>7. Alive' \subseteq Alive
    BY <2>5 DEF Alive, Created
  <2>. QED BY <1>2, <1>4, <2>1, <2>4, <2>5, <2>6, <2>7, Keeps
<1>6. CASE Going(p)
  <2>1. PICK l : l \notin Owners /\ Arrives(p, l)
    BY <1>6 DEF Going
  <2>2. ASSUME UNCHANGED <<isFore, parentPCB, allocated, hasRan>>, q'.block = q.block PROVE FInv'
    <3>1. Alive' \subseteq Alive
      BY <2>2 DEF Alive, Created
    <3>. QED BY <1>2, <1>4, <2>1, <2>2, <3>1, Keeps
  <2>3. ASSUME NEW w \in Pids, waitPlease(p, w) PROVE FInv'
    BY <2>2, <2>3, WaitStep DEF waitPlease
  <2>4. ASSUME NEW n \in Naps, sleepPlease(p, n) PROVE FInv'
    BY <2>2, <2>4, SleepStep DEF sleepPlease
  <2>5. CASE UNCHANGED vars
    BY <2>2, <2>5 DEF vars, pcbs
  <2>6. ASSUME NEW x \in Alive, Departs(x) PROVE FInv'
    BY <1>2, <2>1, <2>6, ExitOwns
  <2>7. CASE Exit(p)
    BY <2>6, <2>7, OwnExitStep
  <2>8. ASSUME NEW pid \in Pids, KillisCalled(p, pid) PROVE FInv'
    BY <2>6, <2>8, KillStep
  <2>. QED BY <1>6, <2>3, <2>4, <2>5, <2>7, <2>8 DEF Going
<1>. QED
  BY <1>5, <1>6

-----------------------------------------------------------------------------
(* The invariant.                                                          *)

(* init owns the terminal at first, and nobody is blocked. *)
LEMMA SessionStarts ==
  ASSUME SInit
  PROVE FInv
<1>1. /\ NULL \in Pids /\ Idle \in Pcb /\ InitProc \in Pcb /\ Idle # InitProc
      /\ Pcb \subseteq Nat /\ NULL = 0 /\ 1 \in Nat
  BY SchedAssumption DEF Pids, Pcb, NULL, Idle, InitProc
<1>2. Created = {Idle, InitProc} /\ \A x \in Created : hasRan[x] # -1
  BY <1>1 DEF SInit, Init, Created, Idle, InitProc
<1>3. Alive = {Idle, InitProc}
  BY <1>2 DEF Alive
<1>4. /\ isFore = [x \in Pcb |-> IF x = InitProc THEN 1 ELSE 0]
      /\ pc = [x \in Pcb |-> CASE x = Idle -> "idle" [] x = InitProc -> "init" [] OTHER -> "none"]
      /\ child = [x \in Pcb |-> NULL] /\ parentPCB = [x \in Pcb |-> NULL] /\ q.block = NULL
  BY DEF SInit, Init
<1>5. isFore[Idle] = 0 /\ isFore[InitProc] = 1 /\ pc[Idle] = "idle" /\ "idle" \notin Owners
  BY <1>1, <1>4 DEF Owners
<1>6. Owned(Alive, isFore, q.block, pc)
  BY <1>3, <1>4, <1>5 DEF Owned
<1>7. \A x \in Pcb \ Created : isFore[x] = 0 /\ pc[x] = "none"
  BY <1>2, <1>4
<1>8. \A x \in Created : parentPCB[x] < x
  BY <1>1, <1>2, <1>4 DEF Idle, InitProc
<1>. QED
  BY <1>1, <1>4, <1>6, <1>7, <1>8 DEF FInv

LEMMA SessionSteps ==
  ASSUME IInv, WInv, IInv', WInv', FInv, Solitary \/ HeadsTrue', [SNext]_svars
  PROVE FInv'
<1>1. CASE UNCHANGED svars
  <2>1. UNCHANGED <<isFore, parentPCB, allocated, hasRan, child, pc, q>>
    BY <1>1 DEF svars, vars, pcbs
  <2>2. Alive' = Alive
    BY <2>1 DEF Alive, Created
  <2>. QED BY <2>1, <2>2, KeepsStill
<1>2. ASSUME NEW second \in BOOLEAN, NEW slice \in BOOLEAN, Timer(second, slice) PROVE FInv'
  BY <1>2, TimerOwns
<1>3. CASE Keyboard
  BY <1>3, KeyOwns
<1>4. ASSUME NEW p \in Pcb, ~fault, Step(p) PROVE FInv'
  <2>1. CASE Forking(p)
    BY <2>1, ForkOwns
  <2>2. CASE Becoming(p) /\ child' = child
    BY <2>2, BecomeOwns
  <2>3. CASE (Reading(p) \/ Going(p)) /\ child' = child
    BY <1>4, <2>3, GoOwns
  <2>. QED BY <1>4, <2>1, <2>2, <2>3, Programs
<1>. QED
  BY <1>1, <1>2, <1>3, <1>4 DEF SNext

(* What the runs check follows. *)
LEMMA OwnerFollows ==
  ASSUME FInv
  PROVE OneForeground /\ ReaderIsForeground
<1>1. Owned(Alive, isFore, q.block, pc)
  BY DEF FInv
<1>2. PICK F : F = {p \in Alive : isFore[p] = 1}
  OBVIOUS
<1>3. \A x, y \in F : x = y
  BY <1>1, <1>2 DEF Owned
<1>4. Cardinality(F) <= 1
  <2>1. CASE F = {}
    BY <2>1, FS_EmptySet
  <2>2. ASSUME NEW x \in F PROVE Cardinality(F) <= 1
    <3>1. F = {x}
      BY <1>3, <2>2
    <3>2. Cardinality({x}) = 1
      BY FS_Singleton
    <3>. QED BY <3>1, <3>2
  <2>. QED BY <2>1, <2>2
<1>. QED
  BY <1>1, <1>2, <1>4 DEF Owned, OneForeground, ReaderIsForeground

-----------------------------------------------------------------------------
(* The theorems.                                                           *)

(* While the head variables are true, the programs of bin/ on this kernel   *)
(* keep its invariants, and hand the terminal on from one to the other.     *)
THEOREM SessionInvariance ==
  SessionSpec /\ [](Solitary \/ HeadsTrue) => [](IInv /\ WInv /\ FInv)
<1>1. SInit => IInv /\ WInv /\ FInv
  BY SessionStarts, Starts, WaitStarts DEF SInit
<1>2. (Solitary \/ HeadsTrue)' /\ IInv /\ WInv /\ FInv /\ [SNext]_svars => (IInv /\ WInv /\ FInv)'
  <2> SUFFICES ASSUME (Solitary \/ HeadsTrue)', IInv, WInv, FInv, [SNext]_svars
               PROVE (IInv /\ WInv /\ FInv)'
    OBVIOUS
  <2>1. Solitary \/ HeadsTrue'
    OBVIOUS
  <2>2. [Next]_vars
    BY KernelSteps DEF FInv
  <2>3. IInv' /\ WInv'
    BY <2>1, <2>2, Steps, WaitSteps
  <2>. QED BY <2>1, <2>3, SessionSteps
<1>. QED
  BY <1>1, <1>2, PTL DEF SessionSpec

(* The sessions are behaviours of the kernel of Sched, so what is proved of *)
(* that holds of them.                                                      *)
THEOREM SessionIsSched == SessionSpec /\ [](Solitary \/ HeadsTrue) => Spec
<1>1. SInit => Init
  BY DEF SInit
<1>2. FInv /\ [SNext]_svars => [Next]_vars
  BY KernelSteps DEF FInv
<1>. QED
  BY <1>1, <1>2, SessionInvariance, PTL DEF SessionSpec, Spec

(* fork, execve, exit, read and Enter together: of the living processes one *)
(* at most is the foreground process.                                       *)
THEOREM OneTerminalOwner ==
  SessionSpec /\ [](Solitary \/ HeadsTrue) => []OneForeground
<1>. QED
  BY SessionInvariance, OwnerFollows, PTL

(* The process that read(0) has parked, and that Enter wakes, is the one    *)
(* that owns the terminal: no fork, execve or exit moves it away meanwhile. *)
THEOREM ReaderOwnsTerminal ==
  SessionSpec /\ [](Solitary \/ HeadsTrue) => []ReaderIsForeground
<1>. QED
  BY SessionInvariance, OwnerFollows, PTL

(* In a session every queue is a list of its own, the kernel does not       *)
(* fault, and nobody waits in vain.                                         *)
THEOREM SessionsStaySound ==
  SessionSpec /\ [](Solitary \/ HeadsTrue) =>
    [](TypeOK /\ EveryQueueProper /\ NoFault /\ WaitersHaveACause)
<1>1. IInv /\ WInv => TypeOK /\ EveryQueueProper /\ NoFault /\ WaitersHaveACause
  BY Implied, CauseFollows
<1>. QED
  BY <1>1, SessionInvariance, PTL
=============================================================================
