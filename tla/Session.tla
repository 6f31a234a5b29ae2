------------------------------ MODULE Session ------------------------------
(***************************************************************************)
(* The kernel of Sched running the programs of bin/: init starts a shell;  *)
(* the shell reads a line, forks a child for the command and waits for any *)
(* child; the child executes the command, or, when execve fails, forks a   *)
(* child of its own that tries the directories of PATH, waits for it and   *)
(* exits.  A command computes, reads, kills, and at last exits.            *)
(*                                                                         *)
(* pc is where each process is in its program; it moves when the process   *)
(* makes a call.  A process whose call blocks has the pc of the statement  *)
(* after the call: it makes no step until it is current again.             *)
(***************************************************************************)
EXTENDS Sched

CONSTANTS
  Jobs,     \* the lines users type: "direct" and "lookup" (the command is found
            \* as typed, or through PATH), with or without "&", "bad" (it is not
            \* found), "builtin" (cd, PS1=, PATH= and the empty line), "exit"
  Prompt,   \* TRUE: a process that forks waits before its slice ends
  Quiet,    \* TRUE: no command is looked up or waits itself during a background job
  Commands, BackgroundCommands  \* what a command may do: see CommandStep

VARIABLES pc, child

svars == <<vars, pc, child>>

Goto(p, l) == pc' = [pc EXCEPT ![p] = l]
GotoBoth(p, l, c, m) == pc' = [pc EXCEPT ![p] = l, ![c] = m]
Stay == UNCHANGED vars
Runnable(pid) == \E x \in Chain(q, q.run) : processID[x] = pid
NewPcb == allocated + 1
(* Bound: the shell takes a line only while there are PCBs for all it forks. *)
Room(j) ==
  allocated + (CASE j \in {"builtin", "exit"} -> 0
                 [] j \in {"direct", "direct&"} -> 1
                 [] OTHER -> 2)
            + (IF "kavana" \in Commands THEN 1 ELSE 0) <= NumPcbs

(* Bound: under Quiet, what makes a second process wait beside the shell is *)
(* not begun while a background job lives.                                  *)
Alone == Quiet => \A y \in Alive : pc[y] \notin {"direct&", "lookup&", "run&"}
Taken(j) == Room(j) /\ (j \in {"lookup", "lookup&", "bad"} => Alone)

SInit ==
  /\ Init
  /\ pc = [p \in Pcb |-> CASE p = Idle -> "idle" [] p = InitProc -> "init" [] OTHER -> "none"]
  /\ child = [p \in Pcb |-> NULL]

(* fork(), the parent going on at l and the child at m. *)
Fork(p, l, m) ==
  /\ fork_handler(p)
  /\ GotoBoth(p, l, NewPcb, m)
  /\ child' = [child EXCEPT ![p] = global_counter']

(* waitpid(-1) or waitpid(pid), going on at l. *)
Waitpid(p, w, l) ==
  /\ \/ waitPlease(p, w)
     \/ ~Present(p, w) /\ Caller(p, WaitCall(w)) /\ Stay
  /\ Goto(p, l) /\ child' = child

(* scanf: read(0), going on at l, or at m when the call returns -1. *)
Scanf(p, l, m) ==
  /\ \/ (ReadTyped(p) \/ ReadBlocks(p)) /\ Goto(p, l)
     \/ Caller(p, "read") /\ isFore[p] = 0 /\ Stay /\ Goto(p, m)
  /\ child' = child

-----------------------------------------------------------------------------
(* The programs.                                                           *)

(* bin/init: fork; the child executes bin/shell, the parent exits. *)
InitStep(p) ==
  \/ pc[p] = "init" /\ Fork(p, "leave", "login")
  \/ pc[p] = "login" /\ ExecForeground(p) /\ Goto(p, "prompt") /\ child' = child

(* bin/shell: main and execute. *)
ShellStep(p) ==
  \/ pc[p] = "prompt" /\ Scanf(p, "command", "prompt")
  \/ pc[p] = "command" /\ \E j \in Jobs \ {"builtin", "exit"} : Taken(j) /\ Fork(p, "await", j)
  \/ /\ pc[p] = "command" /\ "builtin" \in Jobs
     /\ q.cur = p /\ Stay /\ Goto(p, "prompt") /\ child' = child
  \/ pc[p] = "command" /\ "exit" \in Jobs /\ Exit(p) /\ Goto(p, "gone") /\ child' = child
  \/ pc[p] = "await" /\ Waitpid(p, -1, "prompt")

(* The child of execute: execve of the name as typed; when it fails, fork a *)
(* child that tries each directory of PATH, and wait for it.                *)
ChildStep(p) ==
  \/ pc[p] = "direct" /\ ExecForeground(p) /\ Goto(p, "run") /\ child' = child
  \/ pc[p] = "direct&" /\ ExecBackground(p) /\ Goto(p, "run&") /\ child' = child
  \/ pc[p] = "lookup" /\ Fork(p, "await path", "direct")
  \/ pc[p] = "lookup&" /\ Fork(p, "await path", "direct&")
  \/ pc[p] = "bad" /\ Fork(p, "await path", "leave")
  \/ pc[p] = "await path" /\ Waitpid(p, -1, "leave")

(* A command: bin/cat and bin/echo read, bin/kill kills, bin/kavana forks   *)
(* and waits for its child by pid, and both of its processes read.          *)
May(p, c) == (pc[p] = "run" /\ c \in Commands) \/ (pc[p] = "run&" /\ c \in BackgroundCommands)
CommandStep(p) ==
  \/ May(p, "read") /\ Scanf(p, pc[p], pc[p])
  \/ \E n \in Naps : May(p, "nap") /\ sleepPlease(p, n) /\ pc' = pc /\ child' = child
  \/ May(p, "kavana") /\ Alone /\ Fork(p, "kavana", "kavana child")
  \/ pc[p] = "kavana" /\ Waitpid(p, child[p], "kavana read")
  \/ pc[p] \in {"kavana read", "kavana child"} /\ Scanf(p, "leave", "leave")
  \/ \E pid \in Pids :
        /\ May(p, "kill") \/ (May(p, "kill job") /\ Runnable(pid))
        /\ KillisCalled(p, pid)
        /\ Goto(p, "leave") /\ child' = child

Leave(p) == pc[p] \in {"leave", "run", "run&"} /\ Exit(p) /\ Goto(p, "gone") /\ child' = child

Step(p) == InitStep(p) \/ ShellStep(p) \/ ChildStep(p) \/ CommandStep(p) \/ Leave(p)

(* The machine.  A slice is 2.4 seconds; under Prompt none ends between a   *)
(* fork and the wait that follows it in the program.                        *)
Between == pc[q.cur] \in {"await", "await path", "kavana"}

Timer(second, slice) ==
  (Prompt => ~Between) /\ timer_handler(second, slice) /\ UNCHANGED <<pc, child>>
Keyboard == (Prompt => ~Between) /\ keyboard_handler /\ UNCHANGED <<pc, child>>
Enter == ~fault /\ (Prompt => ~Between) /\ KeyEnter /\ UNCHANGED <<pc, child>>

SNext ==
  /\ ~fault
  /\ \/ \E second, slice \in BOOLEAN : Timer(second, slice)
     \/ Keyboard
     \/ \E p \in Pcb : Step(p)

SessionSpec == SInit /\ [][SNext]_svars

(* Fairness.  The timer keeps ticking, the user answers a process that      *)
(* reads, and a process that gets the processor again and again moves on in *)
(* its program.  ENABLED of a timer tick or of a system call is out of      *)
(* TLC's reach, so for these the weak and strong fairness formulas are      *)
(* written with the states in which the step can be made in its place.      *)
Ticking == ~fault /\ (Prompt => ~Between)
Able(p) ==
  /\ q.cur = p /\ ~fault
  /\ pc[p] = "prompt" => MayRead(p)
  /\ pc[p] = "command" => \E j \in Jobs : Taken(j)

SliceFair ==
  \/ []<>~(Ticking /\ (Turn(q) # q.cur \/ global_counter = -1))
  \/ []<><<\E second \in BOOLEAN : Timer(second, TRUE)>>_svars
SecondFair ==
  \/ []<>~(Ticking /\ \E x \in On("sleep") : sleepTimeLeft[x] # Forever)
  \/ []<><<\E slice \in BOOLEAN : Timer(TRUE, slice)>>_svars
EnterFair == WF_svars(Enter)
MovesOn(p) == <>[]~Able(p) \/ []<><<Step(p) /\ pc'[p] # pc[p]>>_svars

Fairness == SliceFair /\ SecondFair /\ EnterFair /\ \A p \in Pcb \ {Idle} : MovesOn(p)

FairSession == SessionSpec /\ Fairness

-----------------------------------------------------------------------------
(* Properties.                                                             *)

RunSequence == [i \in 1 .. Cardinality(On("run")) |-> At(q, q.run)[i - 1]]
RR == INSTANCE RoundRobin
        WITH Proc <- Pcb, Boot <- <<Idle, InitProc>>,
             run <- RunSequence, cur <- q.cur,
             parked <- On("sleep") \cup On("wait") \cup On("block")

(* The linked lists implement round robin over a queue of runnable          *)
(* processes: nobody is skipped, joins twice or disappears.                 *)
ImplementsRoundRobin == RR!Spec

(* A process asleep becomes runnable (the first two never sleep). *)
Started == Pcb \ {Idle, InitProc}
SleeperWakes == \A p \in Started : p \in On("sleep") ~> p \notin On("sleep")

(* A shell that waits for its command gets the processor back at the prompt, *)
(* unless a command kills it in between.                                     *)
ShellComesBack ==
  \A p \in Started : pc[p] = "prompt" /\ p \in On("wait") ~> q.cur = p \/ hasExited[p]
=============================================================================
