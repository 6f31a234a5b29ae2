------------------------------ MODULE Terminal ------------------------------
(***************************************************************************)
(* The text between the keyboard and read(0): keyboard_handler puts        *)
(* characters into readBuff, sys_read takes a line out of it, and Enter    *)
(* copies a line into the buffer of the process that is blocked.  Whose    *)
(* turn it is, and the queues of processes, are in Sched.                  *)
(*                                                                         *)
(* readBuff is the sequence of its characters up to the NUL; the buffer of *)
(* a program is what it holds as a string.  sys_read takes no account of   *)
(* the length it is asked for, and neither does the model.                 *)
(***************************************************************************)
EXTENDS Naturals, Sequences, SequencesExt

CONSTANTS
  Procs, NoProc,
  Letters,      \* the keys that give a character
  asciiShift,   \* the character of a key after Shift
  MaxTyped,     \* bound: characters typed ahead; the code has a page for them
  Patient       \* TRUE: no process reads while a line is half typed; a user who waits for
                \* the prompt may still do it, as the shell prints it before it reads

NL == "newline"
Chars == Letters \cup {asciiShift[c] : c \in Letters}
ASSUME KeysAssumption ==
  NL \notin Chars /\ NoProc \notin Procs /\ MaxTyped \in Nat /\ Patient \in BOOLEAN

VARIABLES
  readBuff, shift_down, ctrl_down,
  block_pcb_head, \* the reader that is blocked; addressOfBuff is its buffer
  fore,           \* the process with isFore
  buf,            \* the buffer of each program
  at,             \* where it is: "running" or "blocked"
  wild            \* a copy with a negative length was made

tvars == <<readBuff, shift_down, ctrl_down, block_pcb_head, fore, buf, at, wild>>
Keyboard == <<readBuff, shift_down, ctrl_down>>

-----------------------------------------------------------------------------
(* keyboard_handler.                                                       *)

ShiftKey == shift_down' \in BOOLEAN /\ UNCHANGED <<readBuff, ctrl_down>>
CtrlKey == ctrl_down' = TRUE /\ UNCHANGED <<readBuff, shift_down>>

(* After Ctrl the next key is shown and dropped. *)
Swallowed == ctrl_down /\ ctrl_down' = FALSE /\ shift_down' = FALSE /\ UNCHANGED readBuff

(* scancode_to_ascii: Shift holds for one key. *)
Typed(c) ==
  /\ ~ctrl_down /\ Len(readBuff) + 1 < MaxTyped
  /\ readBuff' = Append(readBuff, IF shift_down THEN asciiShift[c] ELSE c)
  /\ shift_down' = FALSE /\ UNCHANGED ctrl_down

OtherKey ==
  /\ ShiftKey \/ CtrlKey \/ Swallowed \/ \E c \in Letters : Typed(c)
  /\ UNCHANGED <<block_pcb_head, fore, buf, at, wild>>

(* Enter ends the line: it goes to the blocked reader, or waits.            *)
Delivered == [buf EXCEPT ![block_pcb_head] = readBuff]
Enter ==
  /\ ~ctrl_down /\ Len(readBuff) < MaxTyped
  /\ shift_down' = FALSE
  /\ IF block_pcb_head # NoProc
     THEN /\ buf' = Delivered
          /\ readBuff' = <<>>
          /\ fore' = block_pcb_head
          /\ at' = [at EXCEPT ![block_pcb_head] = "running"]
          /\ block_pcb_head' = NoProc
     ELSE /\ readBuff' = Append(readBuff, NL)
          /\ UNCHANGED <<buf, fore, at, block_pcb_head>>
  /\ UNCHANGED <<ctrl_down, wild>>

-----------------------------------------------------------------------------
(* The programs, which only read.                                           *)

(* Up to the first newline, or to the end. *)
WholeLength(s) == Len(s)
strlenRead(s) ==
  IF NL \in ToSet(s) THEN CHOOSE n \in 0 .. Len(s) : s[n + 1] = NL /\ NL \notin ToSet(SubSeq(s, 1, n))
  ELSE Len(s)

(* The line is copied, and what is behind its newline is moved to the front. *)
RestWithNewline(s, len) == SubSeq(s, len + 1, Len(s))
Rest(s, len) == SubSeq(s, len + 2, Len(s))
ReadTyped(p) ==
  LET len == strlenRead(readBuff) IN
  /\ readBuff # <<>>
  /\ buf' = [buf EXCEPT ![p] = SubSeq(readBuff, 1, len)]
  /\ readBuff' = Rest(readBuff, len)
  /\ wild' = (Len(readBuff) - len - 1 < 0)
  /\ UNCHANGED <<shift_down, ctrl_down, block_pcb_head, at>>

(* Nothing is typed: the process blocks.  If another one is blocked already *)
(* it only says so, and block_pcb_head keeps naming the first.              *)
BlocksUnknown(p) ==
  /\ readBuff = <<>>
  /\ at' = [at EXCEPT ![p] = "blocked"]
  /\ UNCHANGED <<Keyboard, block_pcb_head, buf, wild>>
ReadBlocks(p) ==
  /\ readBuff = <<>>
  /\ block_pcb_head' = IF block_pcb_head = NoProc THEN p ELSE block_pcb_head
  /\ at' = [at EXCEPT ![p] = "blocked"]
  /\ UNCHANGED <<Keyboard, buf, wild>>

MidLine == readBuff # <<>> /\ Last(readBuff) # NL

(* A background process gets -1, and nothing changes. *)
sys_read(p) ==
  /\ at[p] = "running" /\ fore = p
  /\ Patient => ~MidLine
  /\ ReadTyped(p) \/ ReadBlocks(p)
  /\ UNCHANGED fore

(* fork, execve and exit hand the terminal on: they are calls of a process  *)
(* that runs, and the foreground process does not while it is blocked.      *)
HandOn(p) ==
  /\ fore # p /\ at[fore] # "blocked" /\ fore' = p
  /\ UNCHANGED <<Keyboard, block_pcb_head, buf, at, wild>>

Init ==
  /\ readBuff = <<>> /\ shift_down = FALSE /\ ctrl_down = FALSE
  /\ block_pcb_head = NoProc /\ fore \in Procs
  /\ buf = [p \in Procs |-> <<>>] /\ at = [p \in Procs |-> "running"] /\ wild = FALSE

Next ==
  /\ ~wild
  /\ OtherKey \/ Enter \/ \E p \in Procs : sys_read(p) \/ HandOn(p)

Spec == Init /\ [][Next]_tvars

(* A user ends a line that is waited for or half typed, not pressing Ctrl   *)
(* before every Enter.                                                      *)
DropKey == Swallowed /\ UNCHANGED <<block_pcb_head, fore, buf, at, wild>>
Awaited == block_pcb_head # NoProc \/ MidLine
FairSpec == Spec /\ SF_tvars(Awaited /\ Enter) /\ WF_tvars(Awaited /\ DropKey)

-----------------------------------------------------------------------------
(* Properties.                                                             *)

(* Types of the variables. *)
TypeOK ==
  /\ readBuff \in Seq(Chars \cup {NL}) /\ Len(readBuff) <= MaxTyped
  /\ shift_down \in BOOLEAN /\ ctrl_down \in BOOLEAN /\ wild \in BOOLEAN
  /\ block_pcb_head \in Procs \cup {NoProc} /\ fore \in Procs
  /\ buf \in [Procs -> Seq(Chars)]
  /\ at \in [Procs -> {"running", "blocked"}]

(* A text as complete lines and the rest. *)
Extend(t, c) ==
  IF c = NL THEN [lines |-> Append(t.lines, t.rest), rest |-> <<>>]
  ELSE [lines |-> t.lines, rest |-> Append(t.rest, c)]
Parse(s) ==
  LET parse[n \in 0 .. Len(s)] ==
        IF n = 0 THEN [lines |-> <<>>, rest |-> <<>>] ELSE Extend(parse[n - 1], s[n])
  IN parse
Parsed == Parse(readBuff)[Len(readBuff)]

LQ == INSTANCE LineQueue WITH
        Char <- Chars, Reader <- Procs, NoReader <- NoProc,
        queue <- Parsed.lines, partial <- Parsed.rest, waiting <- block_pcb_head, line <- buf

(* Every program finds in its buffer exactly the lines that were entered,   *)
(* in order, each read by one program: whether they were typed ahead,       *)
(* shortened with each read, or copied into the buffer of a process that is *)
(* blocked while another one runs.                                          *)
ImplementsLineQueue == LQ!Spec

(* Whoever blocks in read(0) runs again: Enter finds it in block_pcb_head,  *)
(* whatever Ctrl and Shift did to the keys before.                          *)
ReaderServed == \A p \in Procs : at[p] = "blocked" ~> at[p] = "running"
=============================================================================
