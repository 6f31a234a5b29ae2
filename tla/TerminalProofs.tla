--------------------------- MODULE TerminalProofs ---------------------------
(***************************************************************************)
(* Proofs about Terminal: what a program reads is what was typed.          *)
(*                                                                         *)
(* A text parses to its complete lines and the rest; the lemmas say what   *)
(* the parse of a text becomes when a character is added and when its      *)
(* first line is taken.  The invariant says that a process is blocked only *)
(* as the foreground process, while no line is complete.                   *)
(***************************************************************************)
EXTENDS Terminal, NatSets, SequenceTheorems

Text == Seq(Chars \cup {NL})
Nothing == [lines |-> <<>>, rest |-> <<>>]
Parses == [lines : Seq(Seq(Chars)), rest : Seq(Chars)]

-----------------------------------------------------------------------------
(* The parse of a text.                                                    *)

(* A recursive function satisfies its equation. *)
LEMMA ParseRec ==
  ASSUME NEW s \in Text
  PROVE Parse(s) = [n \in 0 .. Len(s) |->
                      IF n = 0 THEN Nothing ELSE Extend(Parse(s)[n - 1], s[n])]
<1> DEFINE N == Len(s)
           Is(f, m) == f = [n \in 0 .. m |-> IF n = 0 THEN Nothing ELSE Extend(f[n - 1], s[n])]
           T == {m \in Nat : \E f : Is(f, m)}
<1>0. N \in Nat
  BY DEF Text
<1>1. 0 \in T
  <2>1. Is([n \in 0 .. 0 |-> Nothing], 0)
    OBVIOUS
  <2>. QED BY <2>1
<1>2. ASSUME NEW m \in Nat, m \in T PROVE m + 1 \in T
  <2>1. PICK f : Is(f, m)
    BY <1>2
  <2> DEFINE g == [n \in 0 .. m + 1 |-> IF n = m + 1 THEN Extend(f[m], s[m + 1]) ELSE f[n]]
  <2>2. \A n \in 0 .. m : g[n] = f[n]
    OBVIOUS
  <2>3. \A n \in 0 .. m : f[n] = IF n = 0 THEN Nothing ELSE Extend(f[n - 1], s[n])
    BY <2>1
  <2>4. ASSUME NEW n \in 0 .. m + 1
        PROVE g[n] = IF n = 0 THEN Nothing ELSE Extend(g[n - 1], s[n])
    <3>1. CASE n = m + 1
      <4>1. g[n - 1] = f[m]
        BY <3>1, <2>2
      <4>. QED BY <3>1, <4>1
    <3>2. CASE n # m + 1
      <4>1. n \in 0 .. m /\ (n # 0 => n - 1 \in 0 .. m)
        BY <3>2
      <4>. QED BY <4>1, <2>2, <2>3
    <3>. QED BY <3>1, <3>2
  <2>5. Is(g, m + 1)
    BY <2>4
  <2>6. \E e : Is(e, m + 1)
    <3> HIDE DEF g, Is
    <3>. QED BY <2>5
  <2>. QED BY <2>6
<1>3. \E f : Is(f, N)
  <2>1. Nat \subseteq T
    <3> HIDE DEF T
    <3>. QED BY <1>1, <1>2, Induction
  <2>. QED BY <2>1, <1>0
<1>4. Parse(s) = CHOOSE f : Is(f, N)
  BY DEF Parse, Nothing
<1>5. Is(CHOOSE f : Is(f, N), N)
  <2> HIDE DEF Is
  <2>. QED BY <1>3
<1>. QED BY <1>4, <1>5

(* The same, step by step. *)
LEMMA ParseStep ==
  ASSUME NEW s \in Text
  PROVE /\ Parse(s)[0] = Nothing
        /\ \A n \in Nat : n < Len(s) => Parse(s)[n + 1] = Extend(Parse(s)[n], s[n + 1])
<1>0. Len(s) \in Nat
  BY DEF Text
<1>1. Parse(s)[0] = Nothing
  BY <1>0, ParseRec
<1>2. ASSUME NEW n \in Nat, n < Len(s)
      PROVE Parse(s)[n + 1] = Extend(Parse(s)[n], s[n + 1])
  <2>1. n + 1 \in 0 .. Len(s) /\ n + 1 # 0 /\ (n + 1) - 1 = n
    BY <1>0, <1>2
  <2>. QED BY <2>1, ParseRec
<1>. QED BY <1>1, <1>2

(* A character that is added keeps the type of a parse. *)
LEMMA ExtendTyped ==
  ASSUME NEW t \in Parses, NEW c \in Chars \cup {NL}
  PROVE Extend(t, c) \in Parses
<1>1. t.lines \in Seq(Seq(Chars)) /\ t.rest \in Seq(Chars)
  BY DEF Parses
<1>2. CASE c = NL
  <2>1. Append(t.lines, t.rest) \in Seq(Seq(Chars))
    BY <1>1
  <2>2. Extend(t, c) = [lines |-> Append(t.lines, t.rest), rest |-> <<>>]
    BY <1>2 DEF Extend
  <2>. QED BY <2>1, <2>2 DEF Parses
<1>3. CASE c # NL
  <2>1. Append(t.rest, c) \in Seq(Chars)
    BY <1>1, <1>3
  <2>2. Extend(t, c) = [lines |-> t.lines, rest |-> Append(t.rest, c)]
    BY <1>3 DEF Extend
  <2>. QED BY <1>1, <2>1, <2>2 DEF Parses
<1>. QED BY <1>2, <1>3

(* A parse is lines and a rest, none of which holds a newline. *)
LEMMA ParseTyped ==
  ASSUME NEW s \in Text
  PROVE \A n \in 0 .. Len(s) : Parse(s)[n] \in Parses
<1> DEFINE T == {n \in Nat : n <= Len(s) => Parse(s)[n] \in Parses}
<1>0. Len(s) \in Nat
  BY DEF Text
<1>1. 0 \in T
  <2>1. Nothing \in Parses
    BY DEF Nothing, Parses
  <2>. QED BY <2>1, ParseStep
<1>2. ASSUME NEW n \in Nat, n \in T PROVE n + 1 \in T
  <2> SUFFICES ASSUME n + 1 <= Len(s) PROVE Parse(s)[n + 1] \in Parses
    OBVIOUS
  <2>1. Parse(s)[n] \in Parses /\ s[n + 1] \in Chars \cup {NL}
    BY <1>0, <1>2 DEF Text
  <2>2. Parse(s)[n + 1] = Extend(Parse(s)[n], s[n + 1])
    BY <1>0, ParseStep
  <2>. QED BY <2>1, <2>2, ExtendTyped
<1>3. Nat \subseteq T
  <2> HIDE DEF T
  <2>. QED BY <1>1, <1>2, Induction
<1>. QED BY <1>0, <1>3

(* Texts that begin alike parse alike. *)
LEMMA ParseBegin ==
  ASSUME NEW s \in Text, NEW t \in Text, NEW k \in Nat, k <= Len(s), k <= Len(t),
         \A i \in 1 .. k : s[i] = t[i]
  PROVE Parse(s)[k] = Parse(t)[k]
<1> DEFINE T == {n \in Nat : n <= k => Parse(s)[n] = Parse(t)[n]}
<1>0. Len(s) \in Nat /\ Len(t) \in Nat
  BY DEF Text
<1>1. 0 \in T
  BY ParseStep
<1>2. ASSUME NEW n \in Nat, n \in T PROVE n + 1 \in T
  <2> SUFFICES ASSUME n + 1 <= k PROVE Parse(s)[n + 1] = Parse(t)[n + 1]
    OBVIOUS
  <2>1. Parse(s)[n + 1] = Extend(Parse(s)[n], s[n + 1])
    BY <1>0, ParseStep
  <2>2. Parse(t)[n + 1] = Extend(Parse(t)[n], t[n + 1])
    BY <1>0, ParseStep
  <2>. QED BY <1>2, <2>1, <2>2
<1>3. Nat \subseteq T
  <2> HIDE DEF T
  <2>. QED BY <1>1, <1>2, Induction
<1>. QED BY <1>3

(* What a text parses to. *)
Whole(s) == Parse(s)[Len(s)]

LEMMA WholeEmpty == Whole(<<>>) = Nothing
<1>1. <<>> \in Text /\ Len(<<>>) = 0
  BY DEF Text
<1>. QED BY <1>1, ParseStep DEF Whole

LEMMA WholeTyped ==
  ASSUME NEW s \in Text
  PROVE Whole(s) \in Parses
<1>1. Len(s) \in Nat
  BY DEF Text
<1>. QED BY <1>1, ParseTyped DEF Whole

(* A character is added. *)
LEMMA WholeAppend ==
  ASSUME NEW s \in Text, NEW c \in Chars \cup {NL}
  PROVE Whole(Append(s, c)) = Extend(Whole(s), c)
<1> DEFINE t == Append(s, c)
<1>1. t \in Text /\ Len(s) \in Nat /\ Len(t) = Len(s) + 1 /\ t[Len(s) + 1] = c
  BY DEF Text
<1>2. \A i \in 1 .. Len(s) : s[i] = t[i]
  BY DEF Text
<1> HIDE DEF t
<1>3. Parse(s)[Len(s)] = Parse(t)[Len(s)]
  BY <1>1, <1>2, ParseBegin
<1>4. Parse(t)[Len(s) + 1] = Extend(Parse(t)[Len(s)], c)
  BY <1>1, ParseStep
<1>. QED BY <1>1, <1>3, <1>4 DEF Whole, t

(* Characters before the first newline are rest. *)
LEMMA LineRest ==
  ASSUME NEW s \in Text, NEW k \in Nat, k <= Len(s), \A i \in 1 .. k : s[i] # NL
  PROVE Parse(s)[k] = [lines |-> <<>>, rest |-> SubSeq(s, 1, k)]
<1> DEFINE T == {n \in Nat : n <= k => Parse(s)[n] = [lines |-> <<>>, rest |-> SubSeq(s, 1, n)]}
<1>0. Len(s) \in Nat
  BY DEF Text
<1>1. 0 \in T
  <2>1. SubSeq(s, 1, 0) = <<>>
    BY SubSeqEmpty
  <2>. QED BY <2>1, ParseStep DEF Nothing
<1>2. ASSUME NEW n \in Nat, n \in T PROVE n + 1 \in T
  <2> SUFFICES ASSUME n + 1 <= k
               PROVE Parse(s)[n + 1] = [lines |-> <<>>, rest |-> SubSeq(s, 1, n + 1)]
    OBVIOUS
  <2>1. Parse(s)[n + 1] = Extend(Parse(s)[n], s[n + 1])
    BY <1>0, ParseStep
  <2>2. Parse(s)[n] = [lines |-> <<>>, rest |-> SubSeq(s, 1, n)]
    BY <1>2
  <2>3. s[n + 1] # NL
    BY <1>0
  <2>4. SubSeq(s, 1, n + 1) = Append(SubSeq(s, 1, n), s[n + 1])
    BY <1>0 DEF Text
  <2>5. Extend(Parse(s)[n], s[n + 1]) =
          [lines |-> <<>>, rest |-> Append(SubSeq(s, 1, n), s[n + 1])]
    BY <2>2, <2>3 DEF Extend
  <2>. QED BY <2>1, <2>4, <2>5
<1>3. Nat \subseteq T
  <2> HIDE DEF T
  <2>. QED BY <1>1, <1>2, Induction
<1>. QED BY <1>3

(* Lines in front of a parse. *)
Behind(l, t) == [lines |-> <<l>> \o t.lines, rest |-> t.rest]

LEMMA ExtendBehind ==
  ASSUME NEW l \in Seq(Chars), NEW t \in Parses, NEW c \in Chars \cup {NL}
  PROVE Extend(Behind(l, t), c) = Behind(l, Extend(t, c))
<1>1. t.lines \in Seq(Seq(Chars)) /\ t.rest \in Seq(Chars)
  BY DEF Parses
<1>2. CASE c = NL
  <2>1. Append(<<l>> \o t.lines, t.rest) = <<l>> \o Append(t.lines, t.rest)
    <3> DEFINE L == Seq(Chars)
               x == t.lines
               y == t.rest
    <3>1. x \in Seq(L) /\ y \in L /\ <<l>> \in Seq(L) /\ <<y>> \in Seq(L)
      BY <1>1
    <3> HIDE DEF x, y, L
    <3>2. <<l>> \o x \in Seq(L)
      BY <3>1, ConcatProperties
    <3>3. Append(<<l>> \o x, y) = (<<l>> \o x) \o <<y>> /\ Append(x, y) = x \o <<y>>
      BY <3>1, <3>2, AppendIsConcat
    <3>4. (<<l>> \o x) \o <<y>> = <<l>> \o (x \o <<y>>)
      BY <3>1, ConcatAssociative
    <3>. QED BY <3>3, <3>4 DEF x, y
  <2>. QED BY <1>2, <2>1 DEF Extend, Behind
<1>3. CASE c # NL
  BY <1>3 DEF Extend, Behind
<1>. QED BY <1>2, <1>3

(* The first line of a text is the first of its parse; the text behind its  *)
(* newline parses to the others.                                            *)
LEMMA WholeFirst ==
  ASSUME NEW s \in Text, NEW k \in Nat, k + 1 <= Len(s), s[k + 1] = NL,
         \A i \in 1 .. k : s[i] # NL
  PROVE Whole(s) = Behind(SubSeq(s, 1, k), Whole(Rest(s, k)))
<1> DEFINE l == SubSeq(s, 1, k)
           r == Rest(s, k)
           m == Len(s) - (k + 1)
           T == {n \in Nat : n <= m => Parse(s)[k + 1 + n] = Behind(l, Parse(r)[n])}
<1>0. Len(s) \in Nat /\ m \in Nat
  BY DEF Text
<1>1. r \in Text /\ Len(r) = m /\ \A i \in 1 .. m : r[i] = s[k + 1 + i]
  BY <1>0 DEF Text, Rest
<1>2. l \in Seq(Chars)
  BY <1>0, SubSeqProperties DEF Text
<1>3. 0 \in T
  <2>1. Parse(s)[k + 1] = Extend(Parse(s)[k], s[k + 1])
    BY <1>0, ParseStep
  <2>2. Parse(s)[k] = [lines |-> <<>>, rest |-> l]
    BY <1>0, LineRest
  <2>3. Parse(s)[k + 1] = [lines |-> <<l>>, rest |-> <<>>]
    BY <2>1, <2>2 DEF Extend
  <2>4. Parse(r)[0] = Nothing
    BY <1>1, ParseStep
  <2>5. Behind(l, Parse(r)[0]) = [lines |-> <<l>> \o <<>>, rest |-> <<>>]
    BY <2>4 DEF Behind, Nothing
  <2>6. <<l>> \o <<>> = <<l>>
    BY <1>2
  <2>. QED BY <2>3, <2>5, <2>6, <1>0
<1>4. ASSUME NEW n \in Nat, n \in T PROVE n + 1 \in T
  <2> SUFFICES ASSUME n + 1 <= m
               PROVE Parse(s)[k + 1 + (n + 1)] = Behind(l, Parse(r)[n + 1])
    OBVIOUS
  <2>1. Parse(s)[k + 1 + n] = Behind(l, Parse(r)[n])
    BY <1>0, <1>4
  <2>2. Parse(s)[(k + 1 + n) + 1] = Extend(Parse(s)[k + 1 + n], s[(k + 1 + n) + 1])
    BY <1>0, ParseStep
  <2>3. Parse(r)[n + 1] = Extend(Parse(r)[n], r[n + 1])
    BY <1>0, <1>1, ParseStep
  <2>4. r[n + 1] = s[(k + 1 + n) + 1] /\ r[n + 1] \in Chars \cup {NL}
    BY <1>0, <1>1 DEF Text
  <2>5. Parse(r)[n] \in Parses
    BY <1>0, <1>1, ParseTyped
  <2>6. Extend(Behind(l, Parse(r)[n]), r[n + 1]) = Behind(l, Extend(Parse(r)[n], r[n + 1]))
    BY <1>2, <2>4, <2>5, ExtendBehind
  <2>7. k + 1 + (n + 1) = (k + 1 + n) + 1
    OBVIOUS
  <2>. QED BY <2>1, <2>2, <2>3, <2>4, <2>6, <2>7
<1>5. Nat \subseteq T
  <2> HIDE DEF T
  <2>. QED BY <1>3, <1>4, Induction
<1>6. m \in T /\ k + 1 + m = Len(s)
  BY <1>0, <1>5
<1>. QED BY <1>0, <1>1, <1>6 DEF Whole

(* What sys_read takes: up to the first newline, or all. *)
LEMMA LengthRead ==
  ASSUME NEW s \in Text
  PROVE /\ strlenRead(s) \in 0 .. Len(s)
        /\ \A i \in 1 .. strlenRead(s) : s[i] # NL
        /\ NL \in ToSet(s) => strlenRead(s) + 1 <= Len(s) /\ s[strlenRead(s) + 1] = NL
        /\ NL \notin ToSet(s) => strlenRead(s) = Len(s)
<1>0. Len(s) \in Nat /\ ToSet(s) = {s[i] : i \in 1 .. Len(s)}
  BY DEF Text, ToSet
<1>1. CASE NL \notin ToSet(s)
  <2>1. strlenRead(s) = Len(s)
    BY <1>1 DEF strlenRead
  <2>. QED BY <1>0, <1>1, <2>1
<1>2. CASE NL \in ToSet(s)
  <2> DEFINE E == {n \in Nat : n + 1 <= Len(s) /\ s[n + 1] = NL}
             Ok(n) == s[n + 1] = NL /\ NL \notin ToSet(SubSeq(s, 1, n))
             k == strlenRead(s)
  <2>0. \A n \in 0 .. Len(s) : ToSet(SubSeq(s, 1, n)) = {s[i] : i \in 1 .. n}
    <3> TAKE n \in 0 .. Len(s)
    <3>1. DOMAIN SubSeq(s, 1, n) = 1 .. n /\ \A i \in 1 .. n : SubSeq(s, 1, n)[i] = s[i]
      BY <1>0 DEF Text
    <3>. QED BY <3>1 DEF ToSet
  <2>1. E # {}
    <3>1. PICK i \in 1 .. Len(s) : s[i] = NL
      BY <1>0, <1>2
    <3>2. i - 1 \in Nat /\ (i - 1) + 1 = i
      BY <1>0
    <3>3. i - 1 \in E
      BY <1>0, <3>1, <3>2
    <3>. QED BY <3>3
  <2>2. PICK x \in E : \A y \in E : x <= y
    <3>1. E \subseteq Nat
      OBVIOUS
    <3> HIDE DEF E
    <3>. QED BY <2>1, <3>1, LeastNatural
  <2>3. \A i \in 1 .. x : s[i] # NL
    <3> SUFFICES ASSUME NEW i \in 1 .. x, s[i] = NL PROVE FALSE
      OBVIOUS
    <3>1. i - 1 \in Nat /\ (i - 1) + 1 = i
      BY <2>2
    <3>2. i - 1 \in E
      BY <1>0, <2>2, <3>1
    <3>. QED BY <2>2, <3>1, <3>2
  <2>4. x \in 0 .. Len(s) /\ Ok(x)
    BY <1>0, <2>0, <2>2, <2>3
  <2>5. k = CHOOSE n \in 0 .. Len(s) : Ok(n)
    BY <1>2 DEF strlenRead
  <2>6. k \in 0 .. Len(s) /\ Ok(k)
    <3> HIDE DEF Ok, k
    <3>. QED BY <2>4, <2>5
  <2>7. \A i \in 1 .. k : s[i] # NL
    BY <2>0, <2>6
  <2>8. k # Len(s)
    BY <1>0, <1>2, <2>6, <2>7
  <2> HIDE DEF k
  <2>9. k + 1 <= Len(s) /\ s[k + 1] = NL
    BY <1>0, <2>6, <2>8
  <2>. QED BY <1>2, <2>6, <2>7, <2>9 DEF k
<1>. QED BY <1>1, <1>2

(* Whoever takes a line, complete or not, finds no newline in it. *)
LEMMA LineTaken ==
  ASSUME NEW s \in Text
  PROVE /\ SubSeq(s, 1, strlenRead(s)) \in Seq(Chars)
        /\ Rest(s, strlenRead(s)) \in Text
        /\ Len(Rest(s, strlenRead(s))) <= Len(s)
<1> DEFINE k == strlenRead(s)
<1>1. k \in 0 .. Len(s) /\ \A i \in 1 .. k : s[i] # NL
  BY LengthRead
<1>2. Len(s) \in Nat /\ \A i \in 1 .. Len(s) : s[i] \in Chars \cup {NL}
  BY DEF Text
<1> HIDE DEF k
<1>3. SubSeq(s, 1, k) \in Seq(Chars)
  BY <1>1, <1>2, SubSeqProperties
<1>4. Rest(s, k) \in Text /\ Len(Rest(s, k)) <= Len(s)
  <2>1. \A i \in k + 2 .. Len(s) : s[i] \in Chars \cup {NL}
    BY <1>1, <1>2
  <2>2. k + 2 \in Int /\ Len(s) \in Int
    BY <1>1, <1>2
  <2>3. /\ SubSeq(s, k + 2, Len(s)) \in Seq(Chars \cup {NL})
        /\ Len(SubSeq(s, k + 2, Len(s))) =
             IF k + 2 <= Len(s) THEN Len(s) - (k + 2) + 1 ELSE 0
    BY <2>1, <2>2, SubSeqProperties
  <2>. QED BY <1>1, <1>2, <2>3 DEF Text, Rest
<1>. QED BY <1>3, <1>4 DEF k

-----------------------------------------------------------------------------
(* The invariant.                                                          *)

(* Who is blocked is the one reader and has the terminal, and while it is   *)
(* blocked no line is complete.                                             *)
Blocked ==
  /\ \A p \in Procs : at[p] = "blocked" => p = block_pcb_head
  /\ block_pcb_head # NoProc =>
       /\ at[block_pcb_head] = "blocked" /\ fore = block_pcb_head
       /\ NL \notin ToSet(readBuff)
TInv == TypeOK /\ Blocked /\ (Patient => ~wild)

(* A typed character is no newline. *)
LEMMA KeysAreChars ==
  ASSUME NEW c \in Letters
  PROVE c \in Chars /\ asciiShift[c] \in Chars /\ c # NL /\ asciiShift[c] # NL
BY KeysAssumption DEF Chars

(* The characters of a text that grows. *)
LEMMA AppendSet ==
  ASSUME NEW s \in Text, NEW c \in Chars \cup {NL}
  PROVE /\ Append(s, c) \in Text /\ Len(Append(s, c)) = Len(s) + 1
        /\ NL \notin ToSet(s) /\ c # NL => NL \notin ToSet(Append(s, c))
<1>1. Append(s, c) \in Text /\ Len(Append(s, c)) = Len(s) + 1 /\ Len(s) \in Nat
  BY DEF Text
<1>2. \A i \in 1 .. Len(s) : Append(s, c)[i] = s[i]
  BY DEF Text
<1>3. Append(s, c)[Len(s) + 1] = c
  BY DEF Text
<1>4. DOMAIN s = 1 .. Len(s) /\ DOMAIN Append(s, c) = 1 .. Len(s) + 1
  BY <1>1 DEF Text
<1>5. ASSUME NEW i \in 1 .. Len(s) + 1, Append(s, c)[i] = NL
      PROVE c = NL \/ NL \in ToSet(s)
  BY <1>1, <1>2, <1>3, <1>4, <1>5 DEF ToSet
<1>. QED BY <1>1, <1>4, <1>5 DEF ToSet

(* A text without newline is characters. *)
LEMMA NoNewline ==
  ASSUME NEW s \in Text, NL \notin ToSet(s)
  PROVE s \in Seq(Chars)
<1>1. strlenRead(s) = Len(s) /\ SubSeq(s, 1, strlenRead(s)) \in Seq(Chars)
  BY LengthRead, LineTaken
<1>2. SubSeq(s, 1, Len(s)) = s
  BY SubSeqFull DEF Text
<1>. QED BY <1>1, <1>2

(* The empty text. *)
LEMMA EmptyText == <<>> \in Text /\ <<>> \in Seq(Chars) /\ Len(<<>>) = 0 /\ NL \notin ToSet(<<>>)
BY DEF Text, ToSet

LEMMA InitOK == Init => TInv
<1> SUFFICES ASSUME Init PROVE TInv
  OBVIOUS
<1>1. TypeOK
  <2>1. Len(readBuff) <= MaxTyped
    BY EmptyText, KeysAssumption DEF Init
  <2>. QED BY <2>1, EmptyText DEF Init, TypeOK, Text
<1>2. Blocked
  BY KeysAssumption DEF Init, Blocked
<1>. QED BY <1>1, <1>2 DEF TInv, Init

(* Shift, Ctrl, and what follows Ctrl leave the text alone. *)
LEMMA TypedKeeps ==
  ASSUME TInv, NEW c \in Letters, Typed(c), UNCHANGED <<block_pcb_head, fore, buf, at, wild>>
  PROVE TInv'
<1> DEFINE k == IF shift_down THEN asciiShift[c] ELSE c
<1>1. k \in Chars /\ k # NL
  BY KeysAreChars
<1>2. readBuff' = Append(readBuff, k) /\ readBuff \in Text /\ Len(readBuff) + 1 < MaxTyped
  BY DEF Typed, TInv, TypeOK, Text
<1> HIDE DEF k
<1>3. /\ readBuff' \in Text /\ Len(readBuff') <= MaxTyped
      /\ NL \notin ToSet(readBuff) => NL \notin ToSet(readBuff')
  <2>1. /\ Append(readBuff, k) \in Text /\ Len(Append(readBuff, k)) = Len(readBuff) + 1
        /\ NL \notin ToSet(readBuff) => NL \notin ToSet(Append(readBuff, k))
    BY <1>1, <1>2, AppendSet
  <2>2. Len(readBuff) \in Nat
    BY <1>2 DEF Text
  <2>. QED BY <1>2, <2>1, <2>2, KeysAssumption
<1>4. TypeOK'
  BY <1>3 DEF TInv, TypeOK, Typed, Text
<1>5. Blocked'
  BY <1>3 DEF TInv, Blocked
<1>. QED BY <1>4, <1>5 DEF TInv

LEMMA OtherKeyKeeps ==
  ASSUME TInv, OtherKey
  PROVE TInv'
<1>1. CASE ShiftKey \/ CtrlKey \/ Swallowed
  <2>1. UNCHANGED <<readBuff, block_pcb_head, fore, buf, at, wild>>
        /\ shift_down' \in BOOLEAN /\ ctrl_down' \in BOOLEAN
    BY <1>1 DEF OtherKey, ShiftKey, CtrlKey, Swallowed, TInv, TypeOK
  <2>2. TypeOK'
    BY <2>1 DEF TInv, TypeOK
  <2>3. Blocked'
    BY <2>1 DEF TInv, Blocked
  <2>. QED BY <2>1, <2>2, <2>3 DEF TInv
<1>2. ASSUME NEW c \in Letters, Typed(c) PROVE TInv'
  BY <1>2, TypedKeeps DEF OtherKey
<1>. QED BY <1>1, <1>2 DEF OtherKey

LEMMA EnterKeeps ==
  ASSUME TInv, Enter
  PROVE TInv'
<1>0. readBuff \in Text /\ Len(readBuff) < MaxTyped /\ Len(readBuff) \in Nat
  BY DEF TInv, TypeOK, Enter, Text
<1>1. CASE block_pcb_head # NoProc
  <2>1. block_pcb_head \in Procs /\ NL \notin ToSet(readBuff)
    BY <1>1 DEF TInv, TypeOK, Blocked
  <2>2. readBuff \in Seq(Chars)
    BY <1>0, <2>1, NoNewline
  <2>3. buf' \in [Procs -> Seq(Chars)]
    BY <1>1, <2>1, <2>2 DEF Enter, Delivered, TInv, TypeOK
  <2>4. readBuff' = <<>> /\ block_pcb_head' = NoProc
        /\ at' = [at EXCEPT ![block_pcb_head] = "running"]
    BY <1>1 DEF Enter
  <2>5. TypeOK'
    <3>1. Len(readBuff') <= MaxTyped /\ readBuff' \in Text
      BY <2>4, EmptyText, KeysAssumption
    <3>2. at' \in [Procs -> {"running", "blocked"}]
      BY <2>1, <2>4 DEF TInv, TypeOK
    <3>. QED BY <1>1, <2>1, <2>3, <2>4, <3>1, <3>2 DEF Enter, TInv, TypeOK, Text
  <2>6. Blocked'
    BY <2>1, <2>4 DEF TInv, TypeOK, Blocked
  <2>. QED BY <2>5, <2>6 DEF TInv, Enter
<1>2. CASE block_pcb_head = NoProc
  <2>1. readBuff' = Append(readBuff, NL) /\ UNCHANGED <<buf, fore, at, block_pcb_head, wild>>
    BY <1>2 DEF Enter
  <2>2. readBuff' \in Text /\ Len(readBuff') <= MaxTyped
    BY <1>0, <2>1, AppendSet, KeysAssumption
  <2>3. TypeOK'
    BY <2>1, <2>2 DEF Enter, TInv, TypeOK, Text
  <2>4. Blocked'
    BY <1>2, <2>1 DEF TInv, Blocked
  <2>. QED BY <2>1, <2>3, <2>4 DEF TInv
<1>. QED BY <1>1, <1>2

(* A process that reads finds no other blocked: that one would have the     *)
(* terminal.                                                                *)
LEMMA ReaderIsFirst ==
  ASSUME TInv, NEW p \in Procs, sys_read(p)
  PROVE block_pcb_head = NoProc
BY DEF sys_read, TInv, Blocked

LEMMA ReadKeeps ==
  ASSUME TInv, NEW p \in Procs, sys_read(p)
  PROVE TInv'
<1>0. readBuff \in Text
  BY DEF TInv, TypeOK, Text
<1>1. CASE ReadTyped(p)
  <2> DEFINE len == strlenRead(readBuff)
  <2>1. /\ SubSeq(readBuff, 1, len) \in Seq(Chars) /\ Rest(readBuff, len) \in Text
        /\ Len(Rest(readBuff, len)) <= Len(readBuff)
    BY <1>0, LineTaken
  <2>2. /\ buf' = [buf EXCEPT ![p] = SubSeq(readBuff, 1, len)] /\ readBuff' = Rest(readBuff, len)
        /\ wild' = (Len(readBuff) - len - 1 < 0)
        /\ UNCHANGED <<shift_down, ctrl_down, block_pcb_head, at, fore>>
    BY <1>1 DEF ReadTyped, sys_read
  <2>3. Patient => ~wild'
    <3> SUFFICES ASSUME Patient PROVE ~(Len(readBuff) - len - 1 < 0)
      BY <2>2, Zenon
    <3>1. readBuff # <<>> /\ readBuff[Len(readBuff)] = NL
      BY <1>1 DEF ReadTyped, sys_read, MidLine, Last
    <3>2. Len(readBuff) \in DOMAIN readBuff /\ Len(readBuff) \in Nat
      BY <1>0, <3>1 DEF Text
    <3>3. NL \in ToSet(readBuff)
      BY <3>1, <3>2 DEF ToSet
    <3>. QED BY <1>0, <3>2, <3>3, LengthRead
  <2>4. wild' \in BOOLEAN
    BY <2>2
  <2> HIDE DEF len
  <2>5. Len(readBuff') <= MaxTyped
    <3>1. Len(readBuff) \in Nat /\ Len(readBuff') \in Nat /\ Len(readBuff) <= MaxTyped
      BY <1>0, <2>1, <2>2 DEF Text, TInv, TypeOK
    <3>. QED BY <3>1, <2>1, <2>2, KeysAssumption
  <2>6. TypeOK'
    BY <2>1, <2>2, <2>4, <2>5 DEF TInv, TypeOK, Text
  <2>7. block_pcb_head = NoProc
    BY ReaderIsFirst
  <2>8. Blocked'
    BY <2>2, <2>7 DEF TInv, Blocked
  <2>. QED BY <2>3, <2>6, <2>8 DEF TInv
<1>2. CASE ReadBlocks(p)
  <2>1. /\ readBuff = <<>> /\ block_pcb_head = NoProc /\ block_pcb_head' = p /\ fore = p
        /\ at' = [at EXCEPT ![p] = "blocked"] /\ UNCHANGED <<Keyboard, buf, wild, fore>>
    BY <1>2, ReaderIsFirst DEF ReadBlocks, sys_read
  <2>2. TypeOK'
    BY <2>1 DEF TInv, TypeOK, Keyboard
  <2>3. NL \notin ToSet(readBuff')
    BY <2>1 DEF ToSet, Keyboard
  <2>4. \A x \in Procs : at[x] # "blocked"
    BY <2>1, KeysAssumption DEF TInv, Blocked
  <2>5. Blocked'
    BY <2>1, <2>3, <2>4 DEF TInv, TypeOK, Blocked
  <2>. QED BY <2>1, <2>2, <2>5 DEF TInv
<1>. QED BY <1>1, <1>2 DEF sys_read

LEMMA HandOnKeeps ==
  ASSUME TInv, NEW p \in Procs, HandOn(p)
  PROVE TInv'
<1>1. UNCHANGED <<readBuff, shift_down, ctrl_down, block_pcb_head, buf, at, wild>> /\ fore' = p
  BY DEF HandOn, Keyboard
<1>2. TypeOK'
  BY <1>1 DEF TInv, TypeOK
<1>3. block_pcb_head = NoProc
  BY DEF HandOn, TInv, Blocked
<1>4. Blocked'
  BY <1>1, <1>3 DEF TInv, Blocked
<1>. QED BY <1>1, <1>2, <1>4 DEF TInv

LEMMA StepKeeps == TInv /\ [Next]_tvars => TInv'
<1> SUFFICES ASSUME TInv, [Next]_tvars PROVE TInv'
  OBVIOUS
<1>1. CASE OtherKey
  BY <1>1, OtherKeyKeeps
<1>2. CASE Enter
  BY <1>2, EnterKeeps
<1>3. ASSUME NEW p \in Procs, sys_read(p) PROVE TInv'
  BY <1>3, ReadKeeps
<1>4. ASSUME NEW p \in Procs, HandOn(p) PROVE TInv'
  BY <1>4, HandOnKeeps
<1>5. CASE UNCHANGED tvars
  <2>1. TypeOK'
    BY <1>5 DEF tvars, TInv, TypeOK
  <2>2. Blocked'
    BY <1>5 DEF tvars, TInv, Blocked
  <2>. QED BY <1>5, <2>1, <2>2 DEF tvars, TInv
<1>. QED BY <1>1, <1>2, <1>3, <1>4, <1>5 DEF Next

(* The invariant of every terminal, whoever reads when.                     *)
THEOREM Invariance == Spec => []TInv
<1>. QED BY InitOK, StepKeeps, PTL DEF Spec

(* Types of the variables. *)
THEOREM TypeCorrect == Spec => []TypeOK
<1>1. TInv => TypeOK
  BY DEF TInv
<1>. QED BY <1>1, Invariance, PTL

-----------------------------------------------------------------------------
(* The terminal is a queue of lines.                                       *)

(* The parse of the state, before and after a step. *)
LEMMA ParsedWhole == Parsed = Whole(readBuff)
BY DEF Parsed, Whole

(* A text with no newline has no lines. *)
LEMMA WholeRest ==
  ASSUME NEW s \in Text, NL \notin ToSet(s)
  PROVE Whole(s) = [lines |-> <<>>, rest |-> s]
<1>1. Len(s) \in Nat /\ DOMAIN s = 1 .. Len(s) /\ SubSeq(s, 1, Len(s)) = s
  BY SubSeqFull DEF Text
<1>2. \A i \in 1 .. Len(s) : s[i] # NL
  BY <1>1 DEF ToSet
<1>. QED BY <1>1, <1>2, LineRest DEF Whole

(* A line that is taken is the first of its parse. *)
LEMMA WholeTaken ==
  ASSUME NEW s \in Text, NL \in ToSet(s)
  PROVE /\ Whole(s).lines # <<>>
        /\ Head(Whole(s).lines) = SubSeq(s, 1, strlenRead(s))
        /\ Whole(Rest(s, strlenRead(s))).lines = Tail(Whole(s).lines)
        /\ Whole(Rest(s, strlenRead(s))).rest = Whole(s).rest
<1> DEFINE k == strlenRead(s)
           l == SubSeq(s, 1, k)
           r == Rest(s, k)
           x == Whole(r).lines
<1>1. Len(s) \in Nat
  BY DEF Text
<1>2. k \in Nat /\ k + 1 <= Len(s) /\ s[k + 1] = NL /\ \A i \in 1 .. k : s[i] # NL
  BY <1>1, LengthRead
<1>3. l \in Seq(Chars) /\ r \in Text
  BY LineTaken
<1>4. x \in Seq(Seq(Chars))
  BY <1>3, WholeTyped DEF Parses
<1>5. Whole(s) = Behind(l, Whole(r))
  BY <1>2, WholeFirst
<1>6. Whole(s).lines = <<l>> \o x /\ Whole(s).rest = Whole(r).rest
  BY <1>5 DEF Behind
<1> HIDE DEF l, x, k, r
<1>7. <<l>> \o x # <<>> /\ Head(<<l>> \o x) = l /\ Tail(<<l>> \o x) = x
  BY <1>3, <1>4
<1>. QED BY <1>6, <1>7 DEF l, x, k, r

LEMMA InitRefines == Init => LQ!Init
<1> SUFFICES ASSUME Init PROVE LQ!Init
  OBVIOUS
<1>1. Parsed = Nothing
  BY ParsedWhole, WholeEmpty DEF Init
<1>. QED BY <1>1 DEF Nothing, Init, LQ!Init

(* Nothing the lines depend on changes. *)
LEMMA QuietRefines ==
  ASSUME UNCHANGED <<readBuff, block_pcb_head, buf>>
  PROVE UNCHANGED LQ!lqvars
BY DEF LQ!lqvars, Parsed

LEMMA TypedRefines ==
  ASSUME TInv, NEW c \in Letters, Typed(c), UNCHANGED <<block_pcb_head, fore, buf, at, wild>>
  PROVE LQ!Type
<1> DEFINE k == IF shift_down THEN asciiShift[c] ELSE c
<1>1. k \in Chars /\ k # NL
  BY KeysAreChars
<1>2. readBuff' = Append(readBuff, k) /\ readBuff \in Text
  BY DEF Typed, TInv, TypeOK, Text
<1> HIDE DEF k
<1>3. Parsed' = Whole(readBuff')
  BY DEF Parsed, Whole
<1>4. Parsed' = Extend(Parsed, k)
  BY <1>1, <1>2, <1>3, ParsedWhole, WholeAppend
<1>5. Parsed'.lines = Parsed.lines /\ Parsed'.rest = Append(Parsed.rest, k)
  BY <1>1, <1>4 DEF Extend
<1>. QED BY <1>1, <1>5 DEF LQ!Type

LEMMA EnterRefines ==
  ASSUME TInv, Enter
  PROVE LQ!Finish
<1>0. readBuff \in Text
  BY DEF TInv, TypeOK, Text
<1>1. Parsed' = Whole(readBuff')
  BY DEF Parsed, Whole
<1>2. CASE block_pcb_head # NoProc
  <2>1. NL \notin ToSet(readBuff)
    BY <1>2 DEF TInv, Blocked
  <2>2. Parsed = [lines |-> <<>>, rest |-> readBuff]
    BY <1>0, <2>1, ParsedWhole, WholeRest
  <2>3. readBuff' = <<>> /\ block_pcb_head' = NoProc
        /\ buf' = [buf EXCEPT ![block_pcb_head] = readBuff]
    BY <1>2 DEF Enter, Delivered
  <2>4. Parsed' = Nothing
    BY <1>1, <2>3, WholeEmpty
  <2>5. Parsed.lines = <<>> /\ Parsed.rest = readBuff /\ Parsed'.lines = <<>> /\ Parsed'.rest = <<>>
    BY <2>2, <2>4 DEF Nothing
  <2>. QED BY <1>2, <2>3, <2>5 DEF LQ!Finish
<1>3. CASE block_pcb_head = NoProc
  <2>1. readBuff' = Append(readBuff, NL) /\ UNCHANGED <<buf, block_pcb_head>>
    BY <1>3 DEF Enter
  <2>2. Parsed' = Extend(Parsed, NL)
    BY <1>0, <1>1, <2>1, ParsedWhole, WholeAppend
  <2>3. Parsed'.lines = Append(Parsed.lines, Parsed.rest) /\ Parsed'.rest = <<>>
    BY <2>2 DEF Extend
  <2>. QED BY <1>3, <2>1, <2>3 DEF LQ!Finish
<1>. QED BY <1>2, <1>3

LEMMA ReadRefines ==
  ASSUME TInv, Patient, NEW p \in Procs, sys_read(p)
  PROVE LQ!Take(p) \/ LQ!Wait(p)
<1>0. readBuff \in Text
  BY DEF TInv, TypeOK, Text
<1>1. CASE ReadTyped(p)
  <2>1. readBuff # <<>> /\ readBuff[Len(readBuff)] = NL
    BY <1>1 DEF ReadTyped, sys_read, MidLine, Last
  <2>2. Len(readBuff) \in DOMAIN readBuff
    BY <1>0, <2>1 DEF Text
  <2>3. NL \in ToSet(readBuff)
    BY <2>1, <2>2 DEF ToSet
  <2>4. /\ buf' = [buf EXCEPT ![p] = SubSeq(readBuff, 1, strlenRead(readBuff))]
        /\ readBuff' = Rest(readBuff, strlenRead(readBuff))
        /\ UNCHANGED block_pcb_head
    BY <1>1 DEF ReadTyped
  <2>5. Parsed' = Whole(readBuff')
    BY DEF Parsed, Whole
  <2>6. /\ Parsed.lines # <<>>
        /\ Head(Parsed.lines) = SubSeq(readBuff, 1, strlenRead(readBuff))
        /\ Parsed'.lines = Tail(Parsed.lines) /\ Parsed'.rest = Parsed.rest
    BY <1>0, <2>3, <2>4, <2>5, ParsedWhole, WholeTaken
  <2>. QED BY <2>4, <2>6 DEF LQ!Take
<1>2. CASE ReadBlocks(p)
  <2>1. readBuff = <<>> /\ block_pcb_head = NoProc /\ block_pcb_head' = p
        /\ UNCHANGED <<readBuff, buf>>
    BY <1>2, ReaderIsFirst DEF ReadBlocks, Keyboard
  <2>2. Parsed = Nothing /\ Parsed' = Parsed
    BY <2>1, ParsedWhole, WholeEmpty DEF Parsed
  <2>. QED BY <2>1, <2>2 DEF LQ!Wait, Nothing
<1>. QED BY <1>1, <1>2 DEF sys_read

LEMMA StepRefines == Patient /\ TInv /\ [Next]_tvars => [LQ!Next]_(LQ!lqvars)
<1> SUFFICES ASSUME Patient, TInv, [Next]_tvars PROVE [LQ!Next]_(LQ!lqvars)
  OBVIOUS
<1>1. CASE OtherKey
  <2>1. CASE ShiftKey \/ CtrlKey \/ Swallowed
    <3>1. UNCHANGED <<readBuff, block_pcb_head, buf>>
      BY <1>1, <2>1 DEF OtherKey, ShiftKey, CtrlKey, Swallowed
    <3>. QED BY <3>1, QuietRefines
  <2>2. ASSUME NEW c \in Letters, Typed(c) PROVE LQ!Next
    BY <1>1, <2>2, TypedRefines DEF OtherKey, LQ!Next
  <2>. QED BY <1>1, <2>1, <2>2 DEF OtherKey
<1>2. CASE Enter
  BY <1>2, EnterRefines DEF LQ!Next
<1>3. ASSUME NEW p \in Procs, sys_read(p) PROVE LQ!Next
  BY <1>3, ReadRefines DEF LQ!Next
<1>4. ASSUME NEW p \in Procs, HandOn(p) PROVE UNCHANGED LQ!lqvars
  <2>1. UNCHANGED <<readBuff, block_pcb_head, buf>>
    BY <1>4 DEF HandOn, Keyboard
  <2>. QED BY <2>1, QuietRefines
<1>5. CASE UNCHANGED tvars
  <2>1. UNCHANGED <<readBuff, block_pcb_head, buf>>
    BY <1>5 DEF tvars
  <2>. QED BY <2>1, QuietRefines
<1>. QED BY <1>1, <1>2, <1>3, <1>4, <1>5 DEF Next

(* Every step of the keyboard and of the readers is a step of the queue of  *)
(* lines, or changes nothing of it, however many lines are typed ahead, as  *)
(* long as no process reads while a line is half typed.                     *)
THEOREM PatientTerminalIsQueue == Patient => (Spec => ImplementsLineQueue)
<1> SUFFICES ASSUME Patient PROVE Spec => ImplementsLineQueue
  OBVIOUS
<1>1. TInv /\ [Next]_tvars => [LQ!Next]_(LQ!lqvars)
  BY StepRefines
<1>. QED BY <1>1, InitRefines, Invariance, PTL DEF Spec, ImplementsLineQueue, LQ!Spec
=============================================================================
