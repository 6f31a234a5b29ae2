------------------------------- MODULE Sched -------------------------------
(***************************************************************************)
(* The process queues and the scheduler.                                   *)
(*                                                                         *)
(* Every PCB has next and prev links.  pcb_head is the run queue, whose    *)
(* first member is the idle process; sleep_pcb_head and wait_pcb_head are  *)
(* queues; block_pcb_head is the one process blocked in read(0).  The      *)
(* timer interrupt moves current_pcb along the run queue, counts sleepers  *)
(* down and wakes waiters; the system calls fork, execve, wait4,           *)
(* nanosleep, read, exit and killPCB, and the keyboard interrupt, move     *)
(* PCBs between the queues.  The links are modelled as they are, because   *)
(* what can go wrong here goes wrong in the links.                         *)
(*                                                                         *)
(* All of these are interrupt gates: each handler runs with interrupts     *)
(* disabled and is one action.  A process is what its calls do to the      *)
(* kernel: it may issue, whenever it is current, any call in Calls.        *)
(*                                                                         *)
(* Abstractions.  Registers and stacks are left out.  A tick that ends     *)
(* neither a second nor a slice changes nothing here.  hasRan counts how   *)
(* often a process was chosen; only its sign matters.  cr3 is NULL exactly *)
(* when hasRan is not positive.  The typed characters in readBuff are one  *)
(* Boolean: is there something to read.                                    *)
(***************************************************************************)
EXTENDS Naturals, Integers, FiniteSets

CONSTANTS
  NumPcbs,   \* bound: PCBs handed out; a PCB is never reused (num_pcbs is 1000)
  Calls,     \* the calls programs issue, a subset of AllCalls
  Naps,      \* the seconds programs sleep
  SleepRoom, \* bound: how many processes programs let sleep at a time
  WaitRoom   \* bound: how many processes programs let wait at a time

AllCalls == {"fork", "execve", "execve&", "wait", "waitpid", "nanosleep",
             "read", "exit", "kill"}

ASSUME SchedAssumption ==
  /\ NumPcbs \in Nat /\ NumPcbs >= 2
  /\ Calls \subseteq AllCalls
  /\ IsFiniteSet(Naps) /\ Naps \subseteq Nat
  /\ SleepRoom \in Nat /\ WaitRoom \in Nat

Pcb == 1 .. NumPcbs
NULL == 0
Idle == 1          \* bin/ideal
InitProc == 2      \* bin/init
Forever == -1      \* 0 - 1 as a size_t: 2^64 seconds never pass
Pids == -1 .. NumPcbs - 1

VARIABLES
  q,                \* the queues: links, heads and current_pcb
  processID, parentProcessID, parentPCB, waitPID, sleepTimeLeft,
  hasRan,           \* 0: never ran; 1: has an address space; -1: deleted
  isFore, hasExited,
  global_counter,   \* the last pid generate_pid returned
  allocated,        \* PCBs handed out so far
  typed,            \* readBuff holds something
  fault             \* the kernel loaded a NULL cr3, wrote through NULL, or loops

pcbs == <<processID, parentProcessID, parentPCB, waitPID, sleepTimeLeft, hasRan,
          isFore, hasExited>>
vars == <<q, pcbs, global_counter, allocated, typed, fault>>

-----------------------------------------------------------------------------
(* Lists.                                                                  *)

(* The node n links after h. *)
At(s, h) ==
  LET at[n \in 0 .. NumPcbs] ==
        IF n = 0 THEN h
        ELSE LET x == at[n - 1] IN IF x = NULL THEN NULL ELSE s.next[x]
  IN at
Chain(s, h) == {At(s, h)[n] : n \in 0 .. NumPcbs} \ {NULL}
(* A list that returns to one of its nodes makes its walk endless. *)
Ends(s, h) == At(s, h)[NumPcbs] = NULL
LastIsHead(s, h) == h
Last(s, h) ==
  LET at == At(s, h) IN
  at[CHOOSE n \in 0 .. NumPcbs :
       /\ at[n] # NULL \/ n = 0
       /\ n = NumPcbs \/ at[n + 1] = NULL]

UnlinkForward(s, p) ==
  [s EXCEPT !.next = IF s.prev[p] = NULL THEN @ ELSE [@ EXCEPT ![s.prev[p]] = s.next[p]]]
(* The neighbours of p are joined; p keeps its own links. *)
Unlink(s, p) ==
  [s EXCEPT !.next = IF s.prev[p] = NULL THEN @ ELSE [@ EXCEPT ![s.prev[p]] = s.next[p]],
            !.prev = IF s.next[p] = NULL THEN @ ELSE [@ EXCEPT ![s.next[p]] = s.prev[p]]]

(* p is linked behind the node t and ends the list. *)
Append(s, t, p) == [s EXCEPT !.next = [@ EXCEPT ![t] = p, ![p] = NULL], !.prev[p] = t]

SuccessorButOne(s) ==
  LET n == IF s.next[s.cur] = NULL THEN s.run ELSE s.next[s.cur] IN
  IF s.next[n] = NULL THEN n ELSE s.next[n]
SuccessorIsNext(s) == s.next[s.cur]
(* The process that runs when the current one leaves: next, else pcb_head. *)
Successor(s) == IF s.next[s.cur] = NULL THEN s.run ELSE s.next[s.cur]

(* The current process goes to the end of the queue h ("sleep" or "wait").  *)
(* The end of the queue is looked up before the process is unlinked.        *)
Park(s, h) ==
  LET p    == s.cur
      t    == Last(s, s[h])
      head == IF p = s.run /\ s.next[p] # NULL THEN s.next[p] ELSE s.run
      rest == Unlink([s EXCEPT !.run = head], p)
      gone == IF s[h] # NULL THEN Append(rest, t, p)
              ELSE [rest EXCEPT ![h] = p, !.next[p] = NULL, !.prev[p] = NULL]
  IN [gone EXCEPT !.cur = Successor([s EXCEPT !.run = head])]

(* A node leaves a queue to be woken: the head variable is cleared only     *)
(* when the node has no neighbours; a head with a successor stays the head. *)
WakeHeadKept(s, h, p) == s
WakeHead(s, h, p) ==
  IF s.next[p] = NULL /\ s.prev[p] = NULL THEN [s EXCEPT ![h] = NULL] ELSE s
CountdownByTwo(n) == IF n \in {0, 1, Forever} THEN Forever ELSE n - 2
(* --sleepTimeLeft on a size_t. *)
Countdown(n) == IF n \in {0, Forever} THEN Forever ELSE n - 1
ChosenOrAny(x, p) == waitPID[x] \in {processID[p], -1}
(* x waits for the pid of the process that is about to run. *)
Chosen(x, p) == waitPID[x] = processID[p]

AwaitsByPid(y, x) == waitPID[y] = processID[x]
(* y waits for x, by pid or as one of its children. *)
Awaits(y, x) ==
  waitPID[y] = processID[x] \/ (waitPID[y] = -1 /\ processID[y] = parentProcessID[x])

(* A queue is walked from its head; each node that is due moves to the end  *)
(* of the run queue.  The sleep queue is walked when a second ends, the     *)
(* wait queue when a slice ends (x is to run) and when x exits; only the    *)
(* exit marks who it woke, so that it is not due twice.                     *)
Walked(cause) == IF cause = "second" THEN "sleep" ELSE "wait"
Due(cause, x, y, w) ==
  CASE cause = "second" -> w.left[y] = 0
    [] cause = "slice"  -> Chosen(y, x)
    [] cause = "exit"   -> Awaits(y, x) /\ y \notin w.woken
Visit(cause, w) == IF cause = "second" THEN [w EXCEPT !.left[w.at] = Countdown(@)] ELSE w

WakeNode(h, w) ==
  [q |-> Append(Unlink(WakeHead(w.q, h, w.at), w.at), w.tail, w.at),
   at |-> w.q.next[w.at], tail |-> w.at, left |-> [w.left EXCEPT ![w.at] = 0],
   woken |-> w.woken \cup {w.at}]
WakeStep(cause, x, w) ==
  LET v == Visit(cause, w) IN
  IF w.at = NULL THEN w
  ELSE IF Due(cause, x, w.at, v) THEN WakeNode(Walked(cause), v)
  ELSE [v EXCEPT !.at = w.q.next[w.at]]

(* The walk is over when "at" is NULL, and endless when it is not by then.  *)
WalkBound == 2 * NumPcbs
Walk(s, cause, x) ==
  LET walk[n \in 0 .. WalkBound] ==
        IF n = 0
        THEN [q |-> s, at |-> s[Walked(cause)], tail |-> Last(s, s.run), left |-> sleepTimeLeft,
              woken |-> {}]
        ELSE WakeStep(cause, x, walk[n - 1])
  IN walk
Wake(s, cause, x) == Walk(s, cause, x)[WalkBound]

-----------------------------------------------------------------------------
(* SchNext, and the end of timer_handler: p gets the processor.  A PCB that *)
(* never ran gets an address space and a pid first.  ends: the walks before  *)
(* it came to an end.                                                       *)

Switch(s, p, ran, pids, ends) ==
  LET built == {x \in Pcb : x = p /\ ran[x] = 0} IN
  /\ q' = s
  /\ hasRan' = [x \in Pcb |-> IF x \in built THEN 1 ELSE ran[x]]
  /\ processID' = [x \in Pcb |-> IF x \in built THEN global_counter + 1 ELSE pids[x]]
  /\ global_counter' = global_counter + Cardinality(built)
  /\ fault' = (~ends \/ p \notin {x \in Pcb : ran[x] # -1})

Init ==
  /\ q = [next |-> [p \in Pcb |-> IF p = Idle THEN InitProc ELSE NULL],
          prev |-> [p \in Pcb |-> IF p = InitProc THEN Idle ELSE NULL],
          run |-> Idle, sleep |-> NULL, wait |-> NULL, block |-> NULL, cur |-> Idle]
  /\ processID = [p \in Pcb |-> -1]
  /\ parentProcessID = [p \in Pcb |-> -1]
  /\ parentPCB = [p \in Pcb |-> NULL]
  /\ waitPID = [p \in Pcb |-> IF p \in {Idle, InitProc} THEN -2 ELSE 0]
  /\ sleepTimeLeft = [p \in Pcb |-> 0]
  /\ hasRan = [p \in Pcb |-> 0]
  /\ isFore = [p \in Pcb |-> IF p = InitProc THEN 1 ELSE 0]
  /\ hasExited = [p \in Pcb |-> FALSE]
  /\ global_counter = -1
  /\ allocated = 2
  /\ typed = FALSE
  /\ fault = FALSE

-----------------------------------------------------------------------------
(* Interrupts.                                                             *)

(* ticks % 100 = 0: every sleeper counts down. *)
Second(s) == Wake(s, "second", NULL)

TurnRestarts(s) == s.run
(* The process timer_handler chooses at the end of a slice. *)
Turn(s) == IF global_counter = -1 THEN s.run ELSE Successor(s)

(* ticks % TICKS = 0: current_pcb moves on, and whoever waits for the pid   *)
(* of the process about to run is put on the run queue.                     *)
Slice(s, left, ends) ==
  LET p == Turn(s)
      w == Wake([s EXCEPT !.cur = p], "slice", p)
  IN /\ Switch(w.q, p, hasRan, processID, ends /\ w.at = NULL)
     /\ sleepTimeLeft' = [x \in Pcb |-> IF x \in w.woken THEN 0 ELSE left[x]]

timer_handler(second, slice) ==
  LET w == IF second THEN Second(q) ELSE [q |-> q, left |-> sleepTimeLeft, at |-> NULL] IN
  /\ IF slice THEN Slice(w.q, w.left, w.at = NULL)
     ELSE /\ second
          /\ q' = w.q /\ sleepTimeLeft' = w.left /\ fault' = (w.at # NULL)
          /\ UNCHANGED <<global_counter, processID, hasRan>>
  /\ UNCHANGED <<parentProcessID, parentPCB, waitPID, isFore, hasExited, allocated, typed>>

(* A character, or Enter with nobody blocked: readBuff grows. *)
KeyTyped ==
  /\ ~typed
  /\ typed' = TRUE
  /\ UNCHANGED <<q, pcbs, global_counter, allocated, fault>>

(* Enter with a blocked reader: the line is copied into its buffer, under   *)
(* its page tables, and it becomes runnable and the foreground process.     *)
KeyEnter ==
  /\ q.block # NULL
  /\ LET p == q.block IN
       /\ q' = [Append(q, Last(q, q.run), p) EXCEPT !.block = NULL]
       /\ isFore' = [isFore EXCEPT ![p] = 1]
       /\ fault' = (hasRan[p] # 1)
  /\ typed' = FALSE
  /\ UNCHANGED <<processID, parentProcessID, parentPCB, waitPID, sleepTimeLeft, hasRan,
                 hasExited, global_counter, allocated>>

keyboard_handler == KeyTyped \/ KeyEnter

-----------------------------------------------------------------------------
(* System calls of the current process.  The idle program makes none.       *)

Caller(p, call) == p = q.cur /\ p # Idle /\ hasRan[p] = 1 /\ call \in Calls

ForkShares(p, c) == IF isFore[p] # 0 THEN [isFore EXCEPT ![c] = 1] ELSE isFore
(* The child of a foreground process takes the terminal over. *)
ForkTakes(p, c) == IF isFore[p] # 0 THEN [isFore EXCEPT ![c] = 1, ![p] = 0] ELSE isFore

fork_handler(p) ==
  LET c == allocated + 1 IN
  /\ Caller(p, "fork") /\ c \in Pcb
  /\ q' = Append(q, Last(q, p), c)
  /\ allocated' = c
  /\ global_counter' = global_counter + 1
  /\ processID' = [processID EXCEPT ![c] = global_counter + 1]
  /\ parentProcessID' = [parentProcessID EXCEPT ![c] = processID[p]]
  /\ parentPCB' = [parentPCB EXCEPT ![c] = p]
  /\ hasRan' = [hasRan EXCEPT ![c] = 1]
  /\ isFore' = ForkTakes(p, c)
  /\ UNCHANGED <<waitPID, sleepTimeLeft, hasExited, typed, fault>>

LiveParent(p) == parentPCB[p] # NULL /\ ~hasExited[parentPCB[p]]

(* execve of an existing program, without "&". *)
ExecForeground(p) ==
  /\ Caller(p, "execve")
  /\ isFore' = IF LiveParent(p) THEN [isFore EXCEPT ![p] = 1, ![parentPCB[p]] = 0]
               ELSE [isFore EXCEPT ![p] = 1]
  /\ UNCHANGED <<q, processID, parentProcessID, parentPCB, waitPID, sleepTimeLeft, hasRan,
                 hasExited, global_counter, allocated, typed, fault>>

LeaveWaiting(s, parent) ==
  Unlink(IF parent = s.wait THEN [s EXCEPT !.wait = s.next[parent]] ELSE s, parent)
ResumeLate(s, p, parent) ==
  LET on == [LeaveWaiting(s, parent) EXCEPT !.next[p] = parent, !.prev[parent] = p]
  IN [on EXCEPT !.next[parent] = on.next[p], !.cur = parent]
(* The parent is taken off the wait queue and runs next. *)
Resume(s, p, parent) ==
  LET off == LeaveWaiting(s, parent)
      n   == off.next[p]
      in  == [off EXCEPT !.next = [@ EXCEPT ![parent] = n, ![p] = parent], !.prev[parent] = p]
  IN [in EXCEPT !.prev = IF n = NULL THEN @ ELSE [@ EXCEPT ![n] = parent], !.cur = parent]

(* execve of an existing program with an argument that starts with "&". *)
ExecBackground(p) ==
  /\ Caller(p, "execve&")
  /\ IF LiveParent(p)
     THEN /\ isFore' = [isFore EXCEPT ![p] = 0, ![parentPCB[p]] = 1]
          /\ IF parentPCB[p] \in Chain(q, q.wait)
             THEN Switch(Resume(q, p, parentPCB[p]), parentPCB[p], hasRan, processID, TRUE)
             ELSE UNCHANGED <<q, hasRan, processID, global_counter, fault>>
     ELSE /\ isFore' = [isFore EXCEPT ![p] = 1]
          /\ UNCHANGED <<q, hasRan, processID, global_counter, fault>>
  /\ UNCHANGED <<parentProcessID, parentPCB, waitPID, sleepTimeLeft, hasExited, allocated, typed>>

Queued == UNION {Chain(q, h) : h \in {q.wait, q.sleep, q.run, q.block}}

WaitCall(w) == IF w = -1 THEN "wait" ELSE "waitpid"

(* isPresent and isChildPresent, over the four queues. *)
Present(p, w) ==
  \E x \in Queued : IF w = -1 THEN parentProcessID[x] = processID[p] ELSE processID[x] = w

(* wait4 with -1 or the pid of another process: the caller waits if a queue *)
(* holds such a process, and otherwise the call returns at once.            *)
waitPlease(p, w) ==
  /\ Caller(p, WaitCall(w))
  /\ w # 0 /\ w # processID[p] /\ Present(p, w) /\ Cardinality(Chain(q, q.wait)) < WaitRoom
  /\ LET s == Park(q, "wait") IN Switch(s, s.cur, hasRan, processID, TRUE)
  /\ waitPID' = [waitPID EXCEPT ![p] = w]
  /\ UNCHANGED <<parentProcessID, parentPCB, sleepTimeLeft, isFore, hasExited, allocated, typed>>

sleepPlease(p, seconds) ==
  /\ Caller(p, "nanosleep") /\ Cardinality(Chain(q, q.sleep)) < SleepRoom
  /\ LET s == Park(q, "sleep") IN Switch(s, s.cur, hasRan, processID, TRUE)
  /\ sleepTimeLeft' = [sleepTimeLeft EXCEPT ![p] = seconds]
  /\ UNCHANGED <<parentProcessID, parentPCB, waitPID, isFore, hasExited, allocated, typed>>

AnyoneReads(p) == TRUE
(* Only a foreground process reads the terminal. *)
MayRead(p) == isFore[p] # 0

(* read(0) with something typed: one line is taken, which may or may not be *)
(* all there is.                                                            *)
ReadTyped(p) ==
  /\ Caller(p, "read") /\ MayRead(p) /\ typed
  /\ typed' \in BOOLEAN
  /\ UNCHANGED <<q, pcbs, global_counter, allocated, fault>>

(* p leaves the run queue and is the blocked reader, unless there is one. *)
BlockReader(s, p) ==
  LET b   == IF s.block = NULL THEN p ELSE s.block
      off == [Unlink(s, p) EXCEPT !.run = IF s.prev[p] = NULL THEN s.next[p] ELSE @]
  IN [off EXCEPT !.block = b, !.next[b] = NULL, !.prev[b] = NULL,
                 !.cur = IF s.next[p] = NULL THEN off.run ELSE s.next[p]]
(* read(0) with nothing typed. *)
ReadBlocks(p) ==
  /\ Caller(p, "read") /\ MayRead(p) /\ ~typed
  /\ LET s == BlockReader(q, p) IN Switch(s, s.cur, hasRan, processID, TRUE)
  /\ UNCHANGED <<parentProcessID, parentPCB, waitPID, sleepTimeLeft, isFore, hasExited, allocated,
                 typed>>

MoveOn(s, x) == IF x = s.cur THEN [s EXCEPT !.cur = Successor(s)] ELSE s
Behead(s, x) ==
  [s EXCEPT !.prev = IF s.next[x] = NULL THEN @ ELSE [@ EXCEPT ![s.next[x]] = s.prev[x]]]
deleteNodeStays(s, head, x) == IF x \in Chain(s, head) THEN Unlink(s, x) ELSE s
(* A node is taken out of the queue that holds it; the head variable of the *)
(* queue is not changed, and current_pcb moves on when it is the node.      *)
deleteNode(s, head, x) ==
  LET t == MoveOn(s, x) IN
  IF head = x THEN Behead(t, x)
  ELSE IF x \in Chain(t, head) THEN Unlink(t, x) ELSE t

LeaveQueues(s, x) ==
  LET d == deleteNode(deleteNode(deleteNode(deleteNode(s, s.run, x), s.sleep, x), s.wait, x),
                      s.block, x)
  IN [d EXCEPT !.next[x] = NULL, !.prev[x] = NULL]
(* sys_exit(x): wake the waiters, take x out of every queue, delete it, and *)
(* run the next process.                                                    *)
sys_exit(x) ==
  LET w == Wake(q, "exit", x)
      t == LeaveQueues(w.q, x)
  IN /\ Switch(t, t.cur, [hasRan EXCEPT ![x] = -1], [processID EXCEPT ![x] = -1],
               w.at = NULL)
     /\ waitPID' = [y \in Pcb |-> IF y = x \/ y \in w.woken THEN -2 ELSE waitPID[y]]
     /\ parentProcessID' = [parentProcessID EXCEPT ![x] = -1]
     /\ sleepTimeLeft' = [sleepTimeLeft EXCEPT ![x] = 0]
     /\ hasExited' = [hasExited EXCEPT ![x] = TRUE]
     /\ isFore' = IF isFore[x] # 0 /\ LiveParent(x)
                  THEN [isFore EXCEPT ![x] = -1, ![parentPCB[x]] = 1] ELSE isFore
     /\ UNCHANGED <<parentPCB, allocated, typed>>

(* exit, alarm, and the exceptions that kill the current process. *)
Exit(p) == Caller(p, "exit") /\ sys_exit(p)

(* The first PCB with the pid, in the run, sleep, wait and block queues. *)
Victims(pid) == {x \in Queued : processID[x] = pid}

KillisCalled(p, pid) ==
  /\ Caller(p, "kill")
  /\ pid # 0
  /\ \E x \in Victims(pid) :
       IF hasRan[x] = 1 THEN sys_exit(x)
       ELSE \* its pml4 is NULL: delete_process writes through it
         fault' = TRUE /\ UNCHANGED <<q, pcbs, global_counter, allocated, typed>>

Next ==
  /\ ~fault
  /\ \/ \E second, slice \in BOOLEAN : timer_handler(second, slice)
     \/ keyboard_handler
     \/ \E p \in Pcb :
          \/ fork_handler(p)
          \/ ExecForeground(p)
          \/ ExecBackground(p)
          \/ \E w \in Pids : waitPlease(p, w)
          \/ \E n \in Naps : sleepPlease(p, n)
          \/ ReadTyped(p)
          \/ ReadBlocks(p)
          \/ Exit(p)
          \/ \E pid \in Pids : KillisCalled(p, pid)

Spec == Init /\ [][Next]_vars

(* Fairness of the timer alone: a slice that can end ends, whatever the     *)
(* processes do.  The states in which timer_handler would change something  *)
(* are written out: its ENABLED is out of TLC's reach.                      *)
KernelSliceFair ==
  \/ []<>~(~fault /\ (Turn(q) # q.cur \/ global_counter = -1))
  \/ []<><<\E second \in BOOLEAN : timer_handler(second, TRUE)>>_vars
FairSpec == Spec /\ KernelSliceFair

-----------------------------------------------------------------------------
(* Properties.                                                             *)

Created == 1 .. allocated
Alive == {p \in Created : hasRan[p] # -1}
Queues == {"run", "sleep", "wait", "block"}
On(h) == Chain(q, q[h])

(* Types of the variables. *)
TypeOK ==
  /\ q \in [next : [Pcb -> Pcb \cup {NULL}], prev : [Pcb -> Pcb \cup {NULL}],
            run : Pcb \cup {NULL}, sleep : Pcb \cup {NULL}, wait : Pcb \cup {NULL},
            block : Pcb \cup {NULL}, cur : Pcb]
  /\ processID \in [Pcb -> Pids] /\ parentProcessID \in [Pcb -> Pids]
  /\ parentPCB \in [Pcb -> Pcb \cup {NULL}]
  /\ waitPID \in [Pcb -> Pids \cup {-2}]
  /\ sleepTimeLeft \in [Pcb -> Nat \cup {Forever}]
  /\ hasRan \in [Pcb -> {0, 1, -1}]
  /\ isFore \in [Pcb -> {0, 1, -1}]
  /\ hasExited \in [Pcb -> BOOLEAN]
  /\ global_counter \in Pids /\ allocated \in Pcb
  /\ typed \in BOOLEAN /\ fault \in BOOLEAN

(* The kernel never switches to a deleted process (whose cr3 is NULL), runs *)
(* out of the run queue, writes through a NULL pml4, or walks a queue of    *)
(* sleepers or waiters for ever with interrupts disabled.                   *)
NoFault == ~fault

(* Every queue ends, so no walk of the timer or of a system call, with      *)
(* interrupts disabled, goes on for ever.                                   *)
WalksEnd == \A h \in Queues : Ends(q, q[h])

(* A doubly linked list. *)
Proper(h) ==
  /\ Ends(q, h)
  /\ h # NULL => q.prev[h] = NULL
  /\ \A p \in Chain(q, h) : q.next[p] # NULL => q.prev[q.next[p]] = p

(* The run queue is a doubly linked list that starts with the idle process, *)
(* holds the current process, and holds no deleted one.                     *)
RunQueueSound ==
  /\ q.run = Idle /\ Proper(q.run)
  /\ q.cur \in On("run")
  /\ On("run") \subseteq Alive

(* All four queues are doubly linked lists, and no two share a node: the    *)
(* head variables name what is really queued.                               *)
EveryQueueProper ==
  /\ \A h \in Queues : Proper(q[h])
  /\ \A g, h \in Queues : g # h => On(g) \cap On(h) = {}

(* A process that was created and not deleted is in a queue, from which     *)
(* something can still wake it, kill it or list it.                         *)
NothingLost == Alive \subseteq Queued

(* The head variables of the sleepers, the waiters and the blocked reader   *)
(* name living processes that are not runnable: no wake-up and no deletion  *)
(* leaves a head variable behind that a later walk would start from.        *)
HeadsTrue == \A h \in {"sleep", "wait", "block"} : q[h] # NULL => q[h] \in Alive \ On("run")

(* No runnable process starves: not by the successor the timer chooses,     *)
(* whatever joins and leaves the run queue meanwhile.                       *)
RunnableRuns == \A p \in Pcb : p \in On("run") ~> (q.cur = p \/ p \notin On("run"))

(* The terminal has at most one owner among the living processes.           *)
OneForeground == Cardinality({p \in Alive : isFore[p] = 1}) <= 1

(* Whoever is blocked in read(0) is the foreground process.                 *)
ReaderIsForeground == q.block # NULL => isFore[q.block] = 1

(* A waiting process waits for a living process or a living child of its    *)
(* own, so an exit is still to come that wakes it.                          *)
WaitersHaveACause ==
  \A y \in On("wait") : \E x \in Alive :
    processID[x] = waitPID[y] \/ (waitPID[y] = -1 /\ parentPCB[x] = y)

(* Who waits for any child is made runnable only by the exit of a process   *)
(* it waits for, or by a child that turns itself into a background process. *)
WakeHasCause ==
  [][\A y \in Pcb : y \in On("wait") /\ waitPID[y] = -1 /\ y \notin On("wait")' =>
       \/ \E x \in Pcb : Awaits(y, x) /\ hasExited'[x] /\ ~hasExited[x]
       \/ hasExited'[y]
       \/ parentPCB[q.cur] = y /\ q.cur' = y]_vars
=============================================================================
