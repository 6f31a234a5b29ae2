-------------------------------- MODULE Pipe --------------------------------
(***************************************************************************)
(* A pipe: the ring buffer of pipe_node, written and read by sys_write and *)
(* sys_read through its two descriptors.  r is the next byte to read and w *)
(* the last one written; r = 0 and w = -1 encode the empty pipe.           *)
(*                                                                         *)
(* Each call is one action: no call waits.  Where the code says WAIT it    *)
(* goes on to the branches below, and so does the model.  A memcpy that    *)
(* leaves the pipe's buffer or the caller's, which includes every negative *)
(* length, or that puts bytes at a wrong place of the caller's, sets wild, *)
(* after which nothing is said.                                            *)
(*                                                                         *)
(* isReadClosed, which nothing reads, is left out.                         *)
(***************************************************************************)
EXTENDS Integers, Sequences, FiniteSets

CONSTANTS
  Byte,      \* what a byte can be
  Size,      \* PIPE_SIZE, 5 pages in the code
  Wrap,      \* 2^64 % Size
  Messages,  \* what programs write
  Counts,    \* how much they ask for
  Patient    \* TRUE: they write what fits behind w, or to a full pipe, and read when
             \* there is something to read or the write end is closed

ASSUME PipeAssumption ==
  /\ Size \in Nat \ {0} /\ Wrap \in 0 .. Size - 1
  /\ Messages \subseteq Seq(Byte) /\ Counts \subseteq Nat \ {0} /\ Patient \in BOOLEAN

VARIABLES
  buffer, r, w,
  isWriteClosed,
  offset,  \* of the write end's descriptor: what is stored of an unfinished write
  got,     \* the bytes the last read copied
  wild

pvars == <<buffer, r, w, isWriteClosed, offset, got, wild>>

Slots == 0 .. Size - 1
Empty == r = 0 /\ w = -1
Full == (r - w = 1 /\ w # -1) \/ (w = Size - 1 /\ r = 0)
(* x % size, where the int x is first converted to a uint64_t. *)
Mod(x) == (IF x < 0 THEN x + Wrap ELSE x) % Size

-----------------------------------------------------------------------------
(* write of s.  n is size - off, an unsigned difference: when it is         *)
(* negative it is larger than everything.                                   *)

Whole(n, last) == [stored |-> n, w |-> last, whole |-> TRUE, wild |-> FALSE]
Wild == [stored |-> 0, w |-> w, whole |-> FALSE, wild |-> TRUE]
Part(n, k, last) ==
  IF n < 0 /\ k > 0 THEN Wild ELSE [stored |-> k, w |-> last, whole |-> FALSE, wild |-> FALSE]

(* More than size bytes fill the buffer, and then the branch for w < r, *)
(* which still sees the old w, sets w to r - 1.                         *)
WriteEmpty(n) == IF n \in 0 .. Size THEN Whole(n, Mod(w + n)) ELSE Part(n, Size, r - 1)

(* Between w and r. *)
WriteBelow(n) == IF n \in 0 .. r - w - 1 THEN Whole(n, w + n) ELSE Part(n, r - w - 1, r - 1)

TailRoomShort == Size - w - 1
TailRoom == Size - w
(* Behind w; then from the start of the buffer, where the code has already  *)
(* overwritten its w with -1 when it computes how much is left.             *)
WriteAbove(n) ==
  IF n \in 0 .. TailRoom - 1 THEN Whole(n, Mod(w + n))
  ELSE IF n \in 0 .. TailRoom + r - 1 THEN Wild
  ELSE Part(n, Size - w - 1 + r, Mod(w + Size + r))

Outcome(n) == IF Empty THEN WriteEmpty(n) ELSE IF w < r THEN WriteBelow(n) ELSE WriteAbove(n)

Stored(s, k) ==
  [i \in Slots |->
     LET j == (i - (w + 1)) % Size IN IF j < k THEN s[offset + j + 1] ELSE buffer[i]]

Fits(s) == Len(s) \in 1 .. Size - 1 - w \/ Full

sys_write(s) ==
  LET o == Outcome(Len(s) - offset) IN
  /\ ~wild /\ ~isWriteClosed
  /\ Patient => Fits(s)
  /\ wild' = o.wild
  /\ buffer' = IF o.wild THEN buffer ELSE Stored(s, o.stored)
  /\ w' = o.w
  /\ offset' = IF o.whole THEN 0 ELSE offset + o.stored
  /\ UNCHANGED <<r, isWriteClosed, got>>

-----------------------------------------------------------------------------
(* read of count bytes.                                                     *)

CopiedFromStart(n) == [i \in 1 .. n |-> buffer[i - 1]]
(* n bytes from r on. *)
Copied(n) == [i \in 1 .. n |-> buffer[r + i - 1]]

ResetLeftOut(n) == [r |-> r + n, w |-> w]
(* All was read, and the indices start over. *)
Reset(n) == [r |-> 0, w |-> -1]
AdvanceLeftOut(n) == [r |-> r, w |-> w]
Advance(n) == [r |-> (r + n) % Size, w |-> w]

(* n bytes are copied, and the indices become x. *)
Returns(n, x) ==
  IF r + n > Size
  THEN wild' = TRUE /\ UNCHANGED <<r, w, got>>
  ELSE got' = Copied(n) /\ r' = x.r /\ w' = x.w /\ wild' = FALSE

ReadFull(count) == IF count >= Size THEN Returns(Size, Reset(Size)) ELSE Returns(count, Advance(count))

ReadBetween(count) ==
  LET held == w - r + 1 IN
  IF count >= held THEN Returns(held, Reset(held)) ELSE Returns(count, Advance(count))

(* From r to the end and on from the start, where the code has already      *)
(* overwritten its r with 0 when it computes what is left and where it goes.*)
ReadAround(count) ==
  IF count >= Size - r + w + 1
  THEN IF w = -1 THEN Returns(Size - r, Reset(Size - r)) ELSE wild' = TRUE /\ UNCHANGED <<r, w, got>>
  ELSE Returns(count, Advance(count))

sys_read(count) ==
  /\ ~wild
  /\ Patient => ~Empty \/ isWriteClosed
  /\ IF Empty /\ isWriteClosed THEN got' = <<>> /\ UNCHANGED <<r, w, wild>>
     ELSE IF Full THEN ReadFull(count)
     ELSE IF r <= w THEN ReadBetween(count)
     ELSE ReadAround(count)
  /\ UNCHANGED <<buffer, isWriteClosed, offset>>

(* The last descriptor of the write end is closed. *)
sys_close ==
  /\ ~wild /\ ~isWriteClosed
  /\ isWriteClosed' = TRUE
  /\ UNCHANGED <<buffer, r, w, offset, got, wild>>

(* sys_pipe. *)
Init ==
  /\ buffer \in [Slots -> Byte] /\ r = 0 /\ w = -1
  /\ isWriteClosed = FALSE /\ offset = 0
  /\ got = <<>> /\ wild = FALSE

Next ==
  \/ \E s \in Messages : sys_write(s)
  \/ \E count \in Counts : sys_read(count)
  \/ sys_close

Spec == Init /\ [][Next]_pvars

(* The reader goes on reading. *)
FairSpec == Spec /\ WF_pvars(\E count \in Counts : sys_read(count))

-----------------------------------------------------------------------------
(* Properties.                                                             *)

(* The indices are slots, or -1 for w. *)
TypeOK ==
  /\ buffer \in [Slots -> Byte] /\ r \in Slots /\ w \in Slots \cup {-1}
  /\ isWriteClosed \in BOOLEAN /\ offset \in Nat
  /\ got \in Seq(Byte) /\ wild \in BOOLEAN

(* No copy leaves the pipe's buffer or the caller's. *)
NoWildCopy == ~wild

Held == IF Empty THEN 0 ELSE IF r <= w THEN w - r + 1 ELSE Size - r + w + 1
Contents == [i \in 1 .. Held |-> buffer[(r + i - 1) % Size]]

(* The ring buffer implements a queue of bytes: a write appends its message *)
(* or finds the pipe full, and nothing is lost, repeated, reordered or made *)
(* up between it and the reads that follow.                                *)
Queue == INSTANCE ByteQueue WITH queue <- Contents, closed <- isWriteClosed, Capacity <- Size
ImplementsByteQueue == Queue!Spec

(* Once the write end is closed, the reader comes to the end of the file. *)
ReaderFinishes == isWriteClosed ~> (Empty /\ got = <<>>)

(* "At this point if w == r - 1 i.e., (r-w)==1 then buffer is full"         *)
(* (syscall.c): a write of which only a part could be stored leaves the    *)
(* indices of a full pipe.                                                 *)
FullAfterPart == [][offset' > offset => Full']_pvars
=============================================================================
