----------------------------- MODULE PipeProofs -----------------------------
(***************************************************************************)
(* Theorems about Pipe, for every size of the buffer.                      *)
(***************************************************************************)
EXTENDS Pipe, TLAPS

(* While programs are patient the contents never wrap around the end of the *)
(* buffer, and no write is left unfinished.                                 *)
Straight == (w = -1 => r = 0) /\ (w # -1 => r <= w)
PInv == TypeOK /\ NoWildCopy /\ offset = 0 /\ Straight

LEMMA ModSmall ==
  ASSUME NEW a \in Slots
  PROVE  Mod(a) = a /\ a % Size = a
  BY PipeAssumption DEF Slots, Mod

LEMMA ModInSlots ==
  ASSUME NEW a \in Int
  PROVE  a % Size \in Slots
  BY PipeAssumption DEF Slots

LEMMA ModAround ==
  ASSUME NEW a \in Slots
  PROVE  (a + Size) % Size = a /\ (a - Size) % Size = a
  BY PipeAssumption DEF Slots

-----------------------------------------------------------------------------
(* Writing.                                                                *)

(* A patient write is stored whole behind w, or finds the pipe full. *)
LEMMA PatientWrite ==
  ASSUME PInv, Patient, NEW s \in Messages, Fits(s)
  PROVE  LET o == Outcome(Len(s) - offset)
         IN /\ o.wild = FALSE
            /\ \/ o.whole /\ o.stored = Len(s) /\ o.w = w + Len(s) /\ o.w \in Slots /\ r <= o.w
               \/ ~o.whole /\ o.stored = 0 /\ o.w = w /\ w \in Slots /\ r <= w
<1> DEFINE n == Len(s)
<1>1. n \in Nat /\ Len(s) - offset = n
  BY PipeAssumption DEF PInv
<1>2. r \in Slots /\ w \in Slots \cup {-1} /\ Size \in Nat \ {0}
  BY PipeAssumption DEF PInv, TypeOK
<1>3. CASE Empty
  <2>1. n \in 1 .. Size
    BY <1>1, <1>2, <1>3 DEF Fits, Full, Empty
  <2>2. w + n \in Slots /\ w + n >= r
    BY <1>2, <1>3, <2>1 DEF Empty, Slots
  <2>3. Outcome(n) = Whole(n, w + n)
    BY <1>3, <2>1, <2>2, ModSmall DEF Outcome, WriteEmpty
  <2>. QED
    BY <1>1, <2>2, <2>3 DEF Whole
<1>4. CASE ~Empty
  <2>1. w \in Slots /\ r <= w
    BY <1>2, <1>4 DEF PInv, Straight, Empty
  <2>2. Outcome(n) = WriteAbove(n)
    BY <1>2, <1>4, <2>1 DEF Outcome, Slots
  <2>3. CASE n \in 0 .. Size - 1 - w
    <3>1. w + n \in Slots /\ w + n >= r
      BY <1>2, <2>1, <2>3 DEF Slots
    <3>2. n \in 0 .. TailRoom - 1
      BY <1>2, <2>1, <2>3 DEF TailRoom, Slots
    <3>3. WriteAbove(n) = Whole(n, w + n)
      BY <3>1, <3>2, ModSmall DEF WriteAbove
    <3>. QED
      BY <1>1, <2>2, <3>1, <3>3 DEF Whole
  <2>4. CASE n \notin 0 .. Size - 1 - w
    <3>1. r = 0 /\ w = Size - 1 /\ n >= 1
      BY <1>1, <1>2, <2>1, <2>4 DEF Fits, Full, Slots
    <3>2. n \notin 0 .. TailRoom - 1 /\ n \notin 0 .. TailRoom + r - 1
      BY <1>1, <1>2, <3>1 DEF TailRoom
    <3>3. WriteAbove(n) = Part(n, Size - w - 1 + r, Mod(w + Size + r))
      BY <3>2 DEF WriteAbove
    <3>4. Mod(w + Size + r) = w
      BY <1>2, <2>1, <3>1, ModAround DEF Mod
    <3>5. Size - w - 1 + r = 0 /\ ~(n < 0) /\ r <= w
      BY <1>2, <3>1 DEF Slots
    <3>6. Outcome(n) = Part(n, 0, w)
      BY <2>2, <3>3, <3>4, <3>5
    <3>7. Part(n, 0, w) = [stored |-> 0, w |-> w, whole |-> FALSE, wild |-> FALSE]
      BY <3>5 DEF Part
    <3>. QED
      BY <1>1, <2>1, <3>5, <3>6, <3>7
  <2>. QED
    BY <2>3, <2>4
<1>. QED
  BY <1>3, <1>4

LEMMA WritePreserves ==
  ASSUME PInv, Patient, NEW s \in Messages, sys_write(s)
  PROVE  PInv'
<1> DEFINE o == Outcome(Len(s) - offset)
<1>1. /\ o.wild = FALSE
      /\ \/ o.whole /\ o.stored = Len(s) /\ o.w = w + Len(s) /\ o.w \in Slots /\ r <= o.w
         \/ ~o.whole /\ o.stored = 0 /\ o.w = w /\ w \in Slots /\ r <= w
  BY PatientWrite DEF sys_write
<1>2. /\ wild' = o.wild /\ w' = o.w
      /\ buffer' = Stored(s, o.stored)
      /\ offset' = IF o.whole THEN 0 ELSE offset + o.stored
      /\ r' = r /\ isWriteClosed' = isWriteClosed /\ got' = got
  BY <1>1 DEF sys_write
<1> HIDE DEF o
<1>3. offset' = 0
  BY <1>1, <1>2 DEF PInv
<1>4. o.stored = Len(s) \/ o.stored = 0
  BY <1>1
<1>5. buffer' \in [Slots -> Byte]
  <2>1. ASSUME NEW i \in Slots
        PROVE  buffer'[i] \in Byte
    <3> DEFINE j == (i - (w + 1)) % Size
    <3>1. j \in Slots /\ j \in Nat
      <4>1. i - (w + 1) \in Int
        BY PipeAssumption DEF PInv, TypeOK, Slots
      <4>2. j \in Slots
        BY <4>1, ModInSlots
      <4>. QED
        BY <4>2, PipeAssumption DEF Slots
    <3>2. buffer'[i] = IF j < o.stored THEN s[offset + j + 1] ELSE buffer[i]
      BY <1>2 DEF Stored
    <3> HIDE DEF j
    <3>3. j < o.stored => offset + j + 1 \in 1 .. Len(s)
      BY <1>4, <3>1, PipeAssumption DEF PInv
    <3>4. \A m \in 1 .. Len(s) : s[m] \in Byte
      BY PipeAssumption
    <3>. QED
      BY <3>2, <3>3, <3>4 DEF PInv, TypeOK
  <2>2. buffer' = [i \in Slots |-> buffer'[i]]
    BY <1>2 DEF Stored
  <2>. QED
    BY <2>1, <2>2
<1>6. w' \in Slots /\ r' <= w' /\ w' # -1
  BY <1>1, <1>2 DEF Slots
<1>. QED
  BY <1>1, <1>2, <1>3, <1>5, <1>6 DEF PInv, TypeOK, NoWildCopy, Straight

-----------------------------------------------------------------------------
(* Reading.                                                                *)

(* A patient read finds the end of the file, or takes the bytes asked for,   *)
(* or those there are, from between r and w.                                 *)
Taken(count) == IF count < w - r + 1 THEN count ELSE w - r + 1
Takes(n) ==
  /\ got' = Copied(n) /\ wild' = FALSE
  /\ n < w - r + 1 => r' = r + n /\ w' = w
  /\ n = w - r + 1 => r' = 0 /\ w' = -1

LEMMA ReturnsTakes ==
  ASSUME NEW n \in Nat, NEW x, Returns(n, x), PInv, r + n <= Size,
         n < w - r + 1 => x.r = r + n /\ x.w = w,
         n = w - r + 1 => x.r = 0 /\ x.w = -1
  PROVE  Takes(n)
  BY PipeAssumption DEF Returns, Takes, PInv, TypeOK, Slots

LEMMA PatientRead ==
  ASSUME PInv, Patient, NEW count \in Counts, sys_read(count)
  PROVE  \/ Empty /\ isWriteClosed /\ got' = <<>> /\ UNCHANGED <<r, w, wild>>
         \/ w # -1 /\ Taken(count) \in 1 .. w - r + 1 /\ Takes(Taken(count))
<1>1. r \in Slots /\ w \in Slots \cup {-1} /\ Size \in Nat \ {0} /\ count \in Nat \ {0}
  BY PipeAssumption DEF PInv, TypeOK
<1>2. CASE Empty
  BY <1>2 DEF sys_read
<1>3. CASE ~Empty
  <2> DEFINE held == w - r + 1
  <2>1. w \in Slots /\ r <= w /\ held \in Nat \ {0} /\ r + held <= Size /\ w # -1
    BY <1>1, <1>3 DEF PInv, Straight, Empty, Slots
  <2>2. count < held => Advance(count).r = r + count /\ Advance(count).w = w
    <3> SUFFICES ASSUME count < held
                 PROVE  Advance(count).r = r + count /\ Advance(count).w = w
      OBVIOUS
    <3>1. r + count \in Slots
      BY <1>1, <2>1 DEF Slots
    <3>. QED
      BY <3>1, ModSmall DEF Advance
  <2>3. CASE Full
    <3>1. r = 0 /\ w = Size - 1
      BY <1>1, <2>1, <2>3 DEF Full, Slots
    <3>2. ReadFull(count)
      BY <1>3, <2>3 DEF sys_read
    <3>3. CASE count >= Size
      <4>1. Returns(Size, Reset(Size))
        BY <3>2, <3>3 DEF ReadFull
      <4>2. Takes(Size)
        BY <1>1, <3>1, <4>1, ReturnsTakes DEF Reset
      <4>. QED
        BY <1>1, <2>1, <3>1, <3>3, <4>2 DEF Taken
    <3>4. CASE count < Size
      <4>1. Returns(count, Advance(count)) /\ count < held
        BY <1>1, <3>1, <3>2, <3>4 DEF ReadFull
      <4>2. Takes(count)
        BY <1>1, <2>1, <2>2, <4>1, ReturnsTakes DEF Slots
      <4>. QED
        BY <1>1, <2>1, <4>1, <4>2 DEF Taken
    <3>. QED
      BY <1>1, <3>3, <3>4
  <2>4. CASE ~Full
    <3>1. ReadBetween(count)
      BY <1>3, <2>1, <2>4 DEF sys_read
    <3>2. CASE count >= held
      <4>1. Returns(held, Reset(held))
        BY <3>1, <3>2 DEF ReadBetween
      <4>2. Takes(held)
        BY <2>1, <4>1, ReturnsTakes DEF Reset
      <4>. QED
        BY <1>1, <2>1, <3>2, <4>2 DEF Taken
    <3>3. CASE count < held
      <4>1. Returns(count, Advance(count))
        BY <1>1, <2>1, <3>1, <3>3 DEF ReadBetween
      <4>2. Takes(count)
        BY <1>1, <2>1, <2>2, <3>3, <4>1, ReturnsTakes DEF Slots
      <4>. QED
        BY <1>1, <2>1, <3>3, <4>2 DEF Taken
    <3>. QED
      BY <1>1, <2>1, <3>2, <3>3
  <2>. QED
    BY <2>3, <2>4
<1>. QED
  BY <1>2, <1>3

LEMMA ReadPreserves ==
  ASSUME PInv, Patient, NEW count \in Counts, sys_read(count)
  PROVE  PInv'
<1>1. UNCHANGED <<buffer, isWriteClosed, offset>>
  BY DEF sys_read
<1>2. CASE Empty /\ isWriteClosed /\ got' = <<>> /\ UNCHANGED <<r, w, wild>>
  BY <1>1, <1>2 DEF PInv, TypeOK, NoWildCopy, Straight
<1>3. ASSUME w # -1, NEW n \in 1 .. w - r + 1, Takes(n)
      PROVE  PInv'
  <2>1. Copied(n) \in [1 .. n -> Byte] /\ n \in Nat
    BY <1>3, PipeAssumption DEF Copied, PInv, TypeOK, Slots
  <2>2. got' \in Seq(Byte)
    BY <1>3, <2>1 DEF Takes
  <2>3. /\ r' \in Slots /\ w' \in Slots \cup {-1}
        /\ (w' = -1 => r' = 0) /\ (w' # -1 => r' <= w')
    BY <1>3, PipeAssumption DEF Takes, PInv, TypeOK, Straight, Slots
  <2>4. wild' = FALSE
    BY <1>3 DEF Takes
  <2>. QED
    BY <1>1, <2>2, <2>3, <2>4 DEF PInv, TypeOK, NoWildCopy, Straight
<1>. QED
  BY <1>2, <1>3, PatientRead

-----------------------------------------------------------------------------
(* A pipe used by patient programs always has well-typed indices, and its   *)
(* contents lie between r and w without wrapping around.                    *)
THEOREM PatientInvariance == Patient => (Spec => []PInv)
<1> SUFFICES ASSUME Patient PROVE Spec => []PInv
  OBVIOUS
<1>1. Init => PInv
  BY PipeAssumption DEF Init, PInv, TypeOK, NoWildCopy, Straight, Slots
<1>2. PInv /\ [Next]_pvars => PInv'
  <2> SUFFICES ASSUME PInv, [Next]_pvars PROVE PInv'
    OBVIOUS
  <2>1. ASSUME NEW s \in Messages, sys_write(s) PROVE PInv'
    BY <2>1, WritePreserves
  <2>2. ASSUME NEW count \in Counts, sys_read(count) PROVE PInv'
    BY <2>2, ReadPreserves
  <2>3. CASE sys_close
    BY <2>3 DEF sys_close, PInv, TypeOK, NoWildCopy, Straight
  <2>4. CASE UNCHANGED pvars
    BY <2>4 DEF pvars, PInv, TypeOK, NoWildCopy, Straight
  <2>. QED
    BY <2>1, <2>2, <2>3, <2>4 DEF Next
<1>. QED
  BY <1>1, <1>2, PTL DEF Spec

(* No copy of a patient program's read or write leaves the buffers. *)
THEOREM PatientNeverWild == Patient => (Spec => []NoWildCopy)
<1> SUFFICES ASSUME Patient PROVE Spec => []NoWildCopy
  OBVIOUS
<1>1. Spec => []PInv
  BY PatientInvariance
<1>2. PInv => NoWildCopy
  BY DEF PInv
<1>. QED
  BY <1>1, <1>2, PTL

-----------------------------------------------------------------------------
(* The contents, without arithmetic modulo the size. *)

Between(b, lo, hi) == [i \in 1 .. hi - lo + 1 |-> b[lo + i - 1]]

LEMMA HeldStraight ==
  ASSUME PInv
  PROVE  Held = w - r + 1 /\ Held \in 0 .. Size
  BY PipeAssumption DEF PInv, TypeOK, Straight, Held, Empty, Slots

LEMMA ContentsStraight ==
  ASSUME PInv
  PROVE  Contents = Between(buffer, r, w)
<1>1. Held = w - r + 1
  BY HeldStraight
<1>2. ASSUME NEW i \in 1 .. Held
      PROVE  (r + i - 1) % Size = r + i - 1
  <2>1. r + i - 1 \in Slots
    BY <1>1, PipeAssumption DEF PInv, TypeOK, Straight, Slots
  <2>. QED
    BY <2>1, ModSmall
<1>. QED
  BY <1>1, <1>2 DEF Contents, Between

LEMMA BetweenSeq ==
  ASSUME PInv
  PROVE  /\ Between(buffer, r, w) \in Seq(Byte)
         /\ Len(Between(buffer, r, w)) = w - r + 1
<1>1. w - r + 1 \in Nat /\ \A i \in 1 .. w - r + 1 : r + i - 1 \in Slots
  BY PipeAssumption DEF PInv, TypeOK, Straight, Slots
<1>. QED
  BY <1>1 DEF Between, PInv, TypeOK

(* What is written behind w is appended to the contents. *)
LEMMA WriteAppends ==
  ASSUME PInv, NEW s \in Seq(Byte), w + Len(s) \in Slots
  PROVE  Between(Stored(s, Len(s)), r, w + Len(s)) = Between(buffer, r, w) \o s
<1> DEFINE n == Len(s)
           b == Stored(s, n)
<1>1. r \in Slots /\ w \in Slots \cup {-1} /\ Size \in Nat \ {0} /\ n \in Nat /\ r <= w + 1
      /\ offset = 0
  BY PipeAssumption DEF PInv, TypeOK, Straight, Slots
<1>5. ASSUME NEW k \in Slots
      PROVE  b[k] = IF (k - (w + 1)) % Size < n THEN s[((k - (w + 1)) % Size) + 1] ELSE buffer[k]
  <2> DEFINE j == (k - (w + 1)) % Size
  <2>1. j \in Int
    BY <1>1, ModInSlots DEF Slots
  <2>2. b[k] = IF j < n THEN s[offset + j + 1] ELSE buffer[k]
    BY DEF Stored
  <2>3. offset + j + 1 = j + 1
    BY <1>1, <2>1
  <2>. QED
    BY <2>2, <2>3
<1> HIDE DEF b
<1>2. ASSUME NEW i \in 1 .. (w + n) - r + 1
      PROVE  b[r + i - 1] = (Between(buffer, r, w) \o s)[i]
  <2> DEFINE k == r + i - 1
  <2>1. k \in Slots /\ k = r + i - 1
    BY <1>1 DEF Slots
  <2>2. b[k] = IF (k - (w + 1)) % Size < n THEN s[((k - (w + 1)) % Size) + 1] ELSE buffer[k]
    BY <1>5, <2>1
  <2> HIDE DEF k
  <2>3. CASE k <= w
    <3>1. k - (w + 1) + Size \in Slots /\ ~(k - (w + 1) + Size < n)
      BY <1>1, <2>1, <2>3 DEF Slots
    <3>2. (k - (w + 1)) % Size = k - (w + 1) + Size
      <4>1. (k - (w + 1) + Size) - Size = k - (w + 1)
        BY <1>1, <2>1 DEF Slots
      <4>. QED
        BY <3>1, <4>1, ModAround
    <3>3. b[k] = buffer[k]
      BY <2>2, <3>1, <3>2
    <3>4. i \in 1 .. w - r + 1
      BY <1>1, <2>1, <2>3 DEF Slots
    <3>5. (Between(buffer, r, w) \o s)[i] = Between(buffer, r, w)[i]
      BY <3>4, BetweenSeq
    <3>. QED
      BY <2>1, <3>3, <3>4, <3>5 DEF Between
  <2>4. CASE k > w
    <3>1. k - (w + 1) \in Slots /\ k - (w + 1) < n
      BY <1>1, <2>1, <2>4 DEF Slots
    <3>2. b[k] = s[k - w]
      <4>1. (k - (w + 1)) % Size = k - (w + 1)
        BY <3>1, ModSmall
      <4>2. k - (w + 1) + 1 = k - w
        BY <1>1, <2>1 DEF Slots
      <4>. QED
        BY <2>2, <3>1, <4>1, <4>2
    <3>3. i > w - r + 1 /\ i - (w - r + 1) = k - w /\ i <= w - r + 1 + n
      BY <1>1, <2>1, <2>4 DEF Slots
    <3>4. (Between(buffer, r, w) \o s)[i] = s[i - (w - r + 1)]
      BY <3>3, BetweenSeq
    <3>. QED
      BY <2>1, <3>2, <3>3, <3>4
  <2>5. k <= w \/ k > w
    BY <1>1, <2>1 DEF Slots
  <2>. QED
    BY <2>3, <2>4, <2>5
<1>3. Len(Between(buffer, r, w) \o s) = (w + n) - r + 1 /\ Between(buffer, r, w) \o s \in Seq(Byte)
  BY <1>1, BetweenSeq DEF Slots
<1>4. Between(b, r, w + n) = [i \in 1 .. (w + n) - r + 1 |-> b[r + i - 1]]
  BY DEF Between
<1>6. ASSUME NEW z \in Seq(Byte)
      PROVE  z = [i \in 1 .. Len(z) |-> z[i]]
  OBVIOUS
<1>7. Between(buffer, r, w) \o s
        = [i \in 1 .. (w + n) - r + 1 |-> (Between(buffer, r, w) \o s)[i]]
  BY <1>3, <1>6
<1>8. Between(b, r, w + n) = Between(buffer, r, w) \o s
  BY <1>2, <1>4, <1>7
<1>. QED
  BY <1>8 DEF b

LEMMA ContentsStraightNext ==
  ASSUME PInv'
  PROVE  Contents' = Between(buffer', r', w')
<1>1. Held' = w' - r' + 1
  BY PipeAssumption DEF PInv, TypeOK, Straight, Held, Empty, Slots
<1>2. ASSUME NEW i \in 1 .. Held'
      PROVE  (r' + i - 1) % Size = r' + i - 1
  <2>1. r' + i - 1 \in Slots
    BY <1>1, PipeAssumption DEF PInv, TypeOK, Straight, Slots
  <2>. QED
    BY <2>1, ModSmall
<1>. QED
  BY <1>1, <1>2 DEF Contents, Between

-----------------------------------------------------------------------------
(* Every step of a patient pipe is a step of the queue, or none.            *)

LEMMA WriteRefines ==
  ASSUME PInv, Patient, NEW s \in Messages, sys_write(s)
  PROVE  [Queue!Next]_Queue!bqvars
<1> DEFINE o == Outcome(Len(s) - offset)
<1>1. /\ o.wild = FALSE
      /\ \/ o.whole /\ o.stored = Len(s) /\ o.w = w + Len(s) /\ o.w \in Slots /\ r <= o.w
         \/ ~o.whole /\ o.stored = 0 /\ o.w = w /\ w \in Slots /\ r <= w
  BY PatientWrite DEF sys_write
<1>2. /\ w' = o.w /\ buffer' = Stored(s, o.stored)
      /\ r' = r /\ isWriteClosed' = isWriteClosed /\ got' = got /\ ~isWriteClosed
  BY <1>1 DEF sys_write
<1> HIDE DEF o
<1>3. Contents = Between(buffer, r, w) /\ Contents' = Between(buffer', r', w')
  BY WritePreserves, ContentsStraight, ContentsStraightNext
<1>4. s \in Seq(Byte) /\ Len(s) \in Nat /\ s \in [1 .. Len(s) -> Byte]
  BY PipeAssumption
<1>5. CASE o.whole
  <2>1. w' = w + Len(s) /\ w + Len(s) \in Slots /\ buffer' = Stored(s, Len(s))
    BY <1>1, <1>2, <1>5
  <2>2. Contents' = Contents \o s
    BY <1>2, <1>3, <1>4, <2>1, WriteAppends
  <2>3. Len(Contents) = w - r + 1
    BY <1>3, BetweenSeq
  <2>4. Len(Contents) + Len(s) <= Size
    BY <1>4, <2>1, <2>3, PipeAssumption DEF PInv, TypeOK, Slots
  <2>5. Queue!Put(s)
    BY <1>2, <2>2, <2>4 DEF Queue!Put
  <2>. QED
    BY <2>5 DEF Queue!Next
<1>6. CASE ~o.whole
  <2>1. o.stored = 0 /\ w' = w
    BY <1>1, <1>2, <1>6
  <2>2. buffer' = buffer
    <3>1. ASSUME NEW i \in Slots
          PROVE  Stored(s, 0)[i] = buffer[i]
      <4> DEFINE j == (i - (w + 1)) % Size
      <4>1. i - (w + 1) \in Int
        BY PipeAssumption DEF PInv, TypeOK, Slots
      <4>2. j \in Slots
        BY <4>1, ModInSlots
      <4>3. ~(j < 0)
        BY <4>2 DEF Slots
      <4>4. Stored(s, 0)[i] = IF j < 0 THEN s[offset + j + 1] ELSE buffer[i]
        BY DEF Stored
      <4>. QED
        BY <4>3, <4>4
    <3>2. Stored(s, 0) = [i \in Slots |-> Stored(s, 0)[i]]
      BY DEF Stored
    <3>3. buffer = [i \in Slots |-> buffer[i]]
      BY DEF PInv, TypeOK
    <3>. QED
      BY <1>2, <2>1, <3>1, <3>2, <3>3
  <2>3. Contents' = Contents
    BY <1>2, <1>3, <2>1, <2>2
  <2>. QED
    BY <1>2, <2>3 DEF Queue!bqvars
<1>. QED
  BY <1>5, <1>6

(* The first n bytes between r and w are a prefix of the contents, and what *)
(* is left after them is the rest.                                          *)
LEMMA ReadTakes ==
  ASSUME PInv, NEW n \in 1 .. w - r + 1
  PROVE  /\ Copied(n) = SubSeq(Between(buffer, r, w), 1, n)
         /\ n < w - r + 1 => Between(buffer, r + n, w)
                               = SubSeq(Between(buffer, r, w), n + 1, w - r + 1)
         /\ n = w - r + 1 => SubSeq(Between(buffer, r, w), n + 1, w - r + 1) = <<>>
<1>1. r \in Nat /\ w \in Int /\ n \in Nat
  BY PipeAssumption DEF PInv, TypeOK, Slots
<1>2. Copied(n) = SubSeq(Between(buffer, r, w), 1, n)
  BY <1>1 DEF Copied, Between
<1>3. ASSUME n < w - r + 1
      PROVE  Between(buffer, r + n, w) = SubSeq(Between(buffer, r, w), n + 1, w - r + 1)
  BY <1>1, <1>3 DEF Between
<1>4. ASSUME n = w - r + 1
      PROVE  SubSeq(Between(buffer, r, w), n + 1, w - r + 1) = <<>>
  BY <1>1, <1>4
<1>. QED
  BY <1>2, <1>3, <1>4

LEMMA ReadRefines ==
  ASSUME PInv, Patient, NEW count \in Counts, sys_read(count)
  PROVE  Queue!Next
<1>1. UNCHANGED <<buffer, isWriteClosed, offset>>
  BY DEF sys_read
<1>2. Contents = Between(buffer, r, w) /\ Contents' = Between(buffer', r', w')
  BY ReadPreserves, ContentsStraight, ContentsStraightNext
<1>3. Len(Contents) = w - r + 1
  BY <1>2, BetweenSeq
<1>4. CASE Empty /\ isWriteClosed /\ got' = <<>> /\ UNCHANGED <<r, w, wild>>
  <2>1. Contents = <<>> /\ Contents' = Contents
    <3>1. Contents \in Seq(Byte) /\ Len(Contents) = 0
      BY <1>2, <1>3, <1>4, BetweenSeq DEF Empty
    <3>. QED
      BY <1>1, <1>2, <1>4, <3>1
  <2>. QED
    BY <1>1, <1>4, <2>1 DEF Queue!Next, Queue!EndOfFile
<1>5. ASSUME w # -1, NEW n \in 1 .. w - r + 1, n = Taken(count), Takes(n)
      PROVE  Queue!Next
  <2>1. got' = SubSeq(Contents, 1, n)
    BY <1>2, <1>5, ReadTakes DEF Takes
  <2>2. Contents' = SubSeq(Contents, n + 1, Len(Contents))
    <3>1. CASE n < w - r + 1
      BY <1>1, <1>2, <1>3, <1>5, <3>1, ReadTakes DEF Takes
    <3>2. CASE n = w - r + 1
      <4>1. Contents' = Between(buffer, 0, -1)
        BY <1>1, <1>2, <1>5, <3>2 DEF Takes
      <4>2. Between(buffer, 0, -1) = <<>>
        BY DEF Between
      <4>. QED
        BY <1>2, <1>3, <1>5, <3>2, <4>1, <4>2, ReadTakes
    <3>. QED
      BY <1>5, <3>1, <3>2, PipeAssumption DEF PInv, TypeOK, Slots
  <2>3. Queue!Get(count)
    <3>1. n = IF count < Len(Contents) THEN count ELSE Len(Contents)
      BY <1>3, <1>5 DEF Taken
    <3>2. Contents # <<>>
      BY <1>3, <1>5, PipeAssumption DEF PInv, TypeOK, Slots
    <3>. QED
      BY <1>1, <2>1, <2>2, <3>1, <3>2 DEF Queue!Get
  <2>. QED
    BY <2>3 DEF Queue!Next
<1>. QED
  BY <1>4, <1>5, PatientRead

(* A pipe used by patient programs implements a queue of bytes.             *)
THEOREM PatientPipeIsQueue == Patient => (Spec => ImplementsByteQueue)
<1> SUFFICES ASSUME Patient PROVE Spec => ImplementsByteQueue
  OBVIOUS
<1>1. Init => Queue!Init
  <2> SUFFICES ASSUME Init PROVE Queue!Init
    OBVIOUS
  <2>1. Held = 0
    BY DEF Init, Held, Empty
  <2>2. Contents = <<>>
    BY <2>1 DEF Contents
  <2>. QED
    BY <2>2 DEF Init, Queue!Init
<1>2. PInv /\ [Next]_pvars => [Queue!Next]_Queue!bqvars
  <2> SUFFICES ASSUME PInv, [Next]_pvars PROVE [Queue!Next]_Queue!bqvars
    OBVIOUS
  <2>1. ASSUME NEW s \in Messages, sys_write(s) PROVE [Queue!Next]_Queue!bqvars
    BY <2>1, WriteRefines
  <2>2. ASSUME NEW count \in Counts, sys_read(count) PROVE [Queue!Next]_Queue!bqvars
    BY <2>2, ReadRefines
  <2>3. CASE sys_close
    <3>1. Contents' = Contents /\ got' = got /\ isWriteClosed' = TRUE
      BY <2>3 DEF sys_close, Contents, Held, Empty
    <3>. QED
      BY <3>1 DEF Queue!Next, Queue!Close
  <2>4. CASE UNCHANGED pvars
    BY <2>4 DEF pvars, Contents, Held, Empty, Queue!bqvars
  <2>. QED
    BY <2>1, <2>2, <2>3, <2>4 DEF Next
<1>3. Spec => []PInv
  BY PatientInvariance
<1>. QED
  BY <1>1, <1>2, <1>3, PTL DEF Spec, ImplementsByteQueue, Queue!Spec

-----------------------------------------------------------------------------
(* Programs of any kind.                                                   *)

(* What a write of n bytes, the rest of a message, may do: nothing but      *)
(* bytes of the message is stored, and w stays an index.                    *)
Sound(o, n) ==
  o.wild = FALSE => /\ o.stored \in Nat /\ (o.stored = 0 \/ o.stored <= n)
                    /\ o.w \in Slots \cup {-1}

(* Whatever is left of the message and wherever the indices are. *)
LEMMA OutcomeSound ==
  ASSUME TypeOK, NEW n \in Int
  PROVE  Sound(Outcome(n), n) /\ Outcome(n).wild \in BOOLEAN
<1> DEFINE o == Outcome(n)
<1>1. r \in Slots /\ w \in Slots \cup {-1} /\ Size \in Nat \ {0} /\ r \in Int /\ w \in Int
  BY PipeAssumption DEF TypeOK, Slots
<1>2. ASSUME NEW x \in Int PROVE Mod(x) \in Slots
  <2>1. (IF x < 0 THEN x + Wrap ELSE x) \in Int
    BY PipeAssumption
  <2> QED BY <2>1, ModInSlots DEF Mod
<1>3. Sound(Wild, n) /\ Wild.wild \in BOOLEAN
  BY DEF Sound, Wild
<1>4. ASSUME NEW k \in Nat, NEW last \in Slots \cup {-1}, n < 0 \/ k <= n
      PROVE  Sound(Part(n, k, last), n) /\ Part(n, k, last).wild \in BOOLEAN
  <2>1. CASE n < 0 /\ k > 0
    BY <1>3, <2>1 DEF Part
  <2>2. CASE ~(n < 0 /\ k > 0)
    <3>1. Part(n, k, last) = [stored |-> k, w |-> last, whole |-> FALSE, wild |-> FALSE]
      BY <2>2 DEF Part
    <3>2. k = 0 \/ k <= n
      BY <1>4, <2>2
    <3> QED BY <3>1, <3>2 DEF Sound
  <2> QED BY <2>1, <2>2
<1>5. ASSUME n \in Nat, NEW last \in Slots \cup {-1}
      PROVE  Sound(Whole(n, last), n) /\ Whole(n, last).wild \in BOOLEAN
  BY <1>5 DEF Sound, Whole
<1>6. CASE Empty
  <2>1. o = WriteEmpty(n)
    BY <1>6 DEF Outcome
  <2>2. CASE n \in 0 .. Size
    <3>1. o = Whole(n, Mod(w + n)) /\ n \in Nat /\ Mod(w + n) \in Slots
      BY <1>1, <1>2, <2>1, <2>2 DEF WriteEmpty
    <3> QED BY <1>5, <3>1
  <2>3. CASE n \notin 0 .. Size
    <3>1. o = Part(n, Size, r - 1) /\ r - 1 \in Slots \cup {-1} /\ (n < 0 \/ Size <= n) /\ Size \in Nat
      BY <1>1, <2>1, <2>3 DEF WriteEmpty, Slots
    <3> QED BY <1>4, <3>1
  <2> QED BY <2>2, <2>3
<1>7. CASE ~Empty /\ w < r
  <2>1. o = WriteBelow(n)
    BY <1>7 DEF Outcome
  <2>2. CASE n \in 0 .. r - w - 1
    <3>1. o = Whole(n, w + n) /\ n \in Nat /\ w + n \in Slots \cup {-1}
      BY <1>1, <1>7, <2>1, <2>2 DEF WriteBelow, Slots
    <3> QED BY <1>5, <3>1
  <2>3. CASE n \notin 0 .. r - w - 1
    <3>1. /\ o = Part(n, r - w - 1, r - 1) /\ r - 1 \in Slots \cup {-1}
          /\ r - w - 1 \in Nat /\ (n < 0 \/ r - w - 1 <= n)
      BY <1>1, <1>7, <2>1, <2>3 DEF WriteBelow, Slots
    <3> QED BY <1>4, <3>1
  <2> QED BY <2>2, <2>3
<1>8. CASE ~Empty /\ ~(w < r)
  <2>1. o = WriteAbove(n)
    BY <1>8 DEF Outcome
  <2>2. TailRoom = Size - w /\ w \in Slots
    BY <1>1, <1>8 DEF TailRoom, Slots
  <2>3. CASE n \in 0 .. TailRoom - 1
    <3>1. o = Whole(n, Mod(w + n)) /\ n \in Nat /\ Mod(w + n) \in Slots
      BY <1>1, <1>2, <2>1, <2>2, <2>3 DEF WriteAbove
    <3> QED BY <1>5, <3>1
  <2>4. CASE n \notin 0 .. TailRoom - 1 /\ n \in 0 .. TailRoom + r - 1
    BY <1>3, <2>1, <2>4 DEF WriteAbove
  <2>5. CASE n \notin 0 .. TailRoom - 1 /\ n \notin 0 .. TailRoom + r - 1
    <3>1. /\ o = Part(n, Size - w - 1 + r, Mod(w + Size + r)) /\ Mod(w + Size + r) \in Slots
          /\ Size - w - 1 + r \in Nat /\ (n < 0 \/ Size - w - 1 + r <= n)
      BY <1>1, <1>2, <2>1, <2>2, <2>5 DEF WriteAbove, Slots
    <3> QED BY <1>4, <3>1
  <2> QED BY <2>3, <2>4, <2>5
<1> QED BY <1>6, <1>7, <1>8

(* So a write keeps the types. *)
LEMMA WriteTyped == ASSUME TypeOK, NEW s \in Messages, sys_write(s) PROVE TypeOK'
<1> DEFINE n == Len(s) - offset
           o == Outcome(n)
<1>1. s \in Seq(Byte) /\ Len(s) \in Nat /\ n \in Int /\ offset \in Nat
  BY PipeAssumption DEF TypeOK
<1>2. /\ wild' = o.wild /\ buffer' = IF o.wild THEN buffer ELSE Stored(s, o.stored)
      /\ w' = o.w /\ offset' = IF o.whole THEN 0 ELSE offset + o.stored
      /\ UNCHANGED <<r, isWriteClosed, got>>
  BY DEF sys_write
<1>3. Sound(o, n) /\ o.wild \in BOOLEAN
  BY <1>1, OutcomeSound
<1> HIDE DEF o
<1>4. CASE o.wild = FALSE
  <2>1. o.stored \in Nat /\ (o.stored = 0 \/ o.stored <= n) /\ o.w \in Slots \cup {-1}
    BY <1>3, <1>4 DEF Sound
  <2>2. Stored(s, o.stored) \in [Slots -> Byte]
    <3> DEFINE k == o.stored
    <3>1. k \in Nat /\ (k = 0 \/ k <= n)
      BY <2>1
    <3> HIDE DEF k
    <3> SUFFICES ASSUME NEW i \in Slots
                 PROVE  (LET j == (i - (w + 1)) % Size IN IF j < k THEN s[offset + j + 1] ELSE buffer[i]) \in Byte
      BY DEF Stored, k
    <3> DEFINE j == (i - (w + 1)) % Size
    <3>2. j \in Slots
      <4>1. i - (w + 1) \in Int
        BY DEF TypeOK, Slots
      <4> QED BY <4>1, ModInSlots
    <3> HIDE DEF j
    <3>3. j < k => offset + j + 1 \in 1 .. Len(s)
      BY <1>1, <3>1, <3>2 DEF Slots
    <3>4. j < k => s[offset + j + 1] \in Byte
      BY <1>1, <3>3
    <3>5. (IF j < k THEN s[offset + j + 1] ELSE buffer[i]) \in Byte
      BY <3>4 DEF TypeOK
    <3> QED BY <3>5 DEF j
  <2>3. offset' \in Nat
    BY <1>1, <1>2, <2>1
  <2> QED BY <1>2, <1>4, <2>1, <2>2, <2>3 DEF TypeOK
<1>5. CASE o.wild = TRUE
  <2>1. o = Wild
    BY <1>5 DEF o, Outcome, WriteEmpty, WriteBelow, WriteAbove, Whole, Part, Wild
  <2>2. o.w = w /\ o.whole = FALSE /\ o.stored = 0
    BY <2>1 DEF Wild
  <2>3. wild' = TRUE /\ buffer' = buffer /\ w' = w
    BY <1>2, <1>5, <2>2
  <2>4. offset' \in Nat
    BY <1>1, <1>2, <2>2
  <2> QED BY <1>2, <2>3, <2>4 DEF TypeOK
<1> QED BY <1>3, <1>4, <1>5

(* A read that copies n bytes from r on and leaves indices x. *)
LEMMA ReturnsTyped ==
  ASSUME TypeOK, UNCHANGED <<buffer, isWriteClosed, offset>>, NEW n \in Nat, NEW x,
         x.r \in Slots, x.w \in Slots \cup {-1}, Returns(n, x)
  PROVE  TypeOK'
<1>1. CASE r + n > Size
  BY <1>1 DEF Returns, TypeOK
<1>2. CASE ~(r + n > Size)
  <2>1. got' = Copied(n) /\ r' = x.r /\ w' = x.w /\ wild' = FALSE
    BY <1>2 DEF Returns
  <2>2. Copied(n) \in [1 .. n -> Byte]
    BY <1>2, PipeAssumption DEF Copied, TypeOK, Slots
  <2>3. Copied(n) \in Seq(Byte)
    BY <2>2
  <2> QED BY <2>1, <2>3 DEF TypeOK
<1> QED BY <1>1, <1>2

(* A read keeps the types. *)
LEMMA ReadTyped == ASSUME TypeOK, NEW count \in Counts, sys_read(count) PROVE TypeOK'
<1>1. UNCHANGED <<buffer, isWriteClosed, offset>>
  BY DEF sys_read
<1>2. r \in Slots /\ w \in Slots \cup {-1} /\ Size \in Nat \ {0} /\ r \in Int /\ w \in Int /\ count \in Nat
  BY PipeAssumption DEF TypeOK, Slots
<1>3. ASSUME NEW n \in Nat, Returns(n, Reset(n)) PROVE TypeOK'
  <2>1. Reset(n).r \in Slots /\ Reset(n).w \in Slots \cup {-1}
    BY <1>2 DEF Reset, Slots
  <2> QED BY <1>1, <1>3, <2>1, ReturnsTyped
<1>4. ASSUME Returns(count, Advance(count)) PROVE TypeOK'
  <2>1. Advance(count).r \in Slots /\ Advance(count).w \in Slots \cup {-1}
    BY <1>2, ModInSlots DEF Advance
  <2> QED BY <1>1, <1>2, <1>4, <2>1, ReturnsTyped
<1>5. CASE got' = <<>> /\ UNCHANGED <<r, w, wild>>
  BY <1>1, <1>5 DEF TypeOK
<1>6. CASE ReadFull(count)
  BY <1>2, <1>3, <1>4, <1>6 DEF ReadFull
<1>7. CASE r <= w /\ ReadBetween(count)
  <2>1. w - r + 1 \in Nat
    BY <1>2, <1>7
  <2> QED BY <1>3, <1>4, <1>7, <2>1 DEF ReadBetween
<1>8. CASE ReadAround(count)
  <2>1. Size - r \in Nat
    BY <1>2 DEF Slots
  <2>2. CASE wild' = TRUE /\ UNCHANGED <<r, w, got>>
    BY <1>1, <2>2 DEF TypeOK
  <2> QED BY <1>3, <1>4, <1>8, <2>1, <2>2 DEF ReadAround
<1> QED BY <1>5, <1>6, <1>7, <1>8 DEF sys_read

(* r and w stay indices of the buffer whatever programs write and read, in  *)
(* whatever order, up to the copy that leaves the buffer.                   *)
THEOREM TypeCorrect == Spec => []TypeOK
<1>1. Init => TypeOK
  BY PipeAssumption DEF Init, TypeOK, Slots
<1>2. TypeOK /\ [Next]_pvars => TypeOK'
  <2> SUFFICES ASSUME TypeOK, [Next]_pvars PROVE TypeOK'
    OBVIOUS
  <2>1. CASE sys_close
    BY <2>1 DEF sys_close, TypeOK
  <2>2. CASE UNCHANGED pvars
    BY <2>2 DEF pvars, TypeOK
  <2> QED BY <2>1, <2>2, WriteTyped, ReadTyped DEF Next
<1> QED BY <1>1, <1>2, PTL DEF Spec
=============================================================================
