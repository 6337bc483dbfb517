-------------------------- MODULE TextDocument_proofs --------------------------
(***************************************************************************)
(* The conversions of TextDocument are right for every text.  All offsets  *)
(* that they meet are those of places between characters: the characters   *)
(* before a place take Off(n) bytes.  The loops over bytes are functions,  *)
(* and each is shown to exist and to be the one over characters.           *)
(***************************************************************************)
EXTENDS TextDocument, NaturalsLemmas, SequenceTheorems, FiniteSetTheorems

Byte == 0 .. 255

\* What the first byte of a character says, and which bytes are line breaks.
LEMMA CharacterFacts ==
    ASSUME NEW ch \in Character
    PROVE  /\ ch \in Seq(Byte) /\ Len(ch) \in 1 .. 4
           /\ Width(ch[1]) = Len(ch)
           /\ \A i \in 1 .. Len(ch) : ch[i] \in Byte
           /\ ch[Len(ch)] = 10 <=> ch = LF
           /\ ch[Len(ch)] = 13 <=> ch = CR
           /\ \A i \in 1 .. Len(ch) : ch[i] = 10 => i = Len(ch)
<1>1. PICK n, c : n = Len(ch) /\ c = ch[1] OBVIOUS
<1>2. /\ ch \in Seq(Byte) /\ n \in 1 .. 4 /\ c \in Lead[n]
      /\ \A i \in 2 .. n : ch[i] \in 128 .. 191
  BY <1>1 DEF Character, Byte
<1>3. \A i \in 1 .. n : ch[i] \in Byte BY <1>1, <1>2, ElementOfSeq
<1>4. \/ n = 1 /\ c \in 0 .. 127
      \/ n = 2 /\ c \in 194 .. 223
      \/ n = 3 /\ c \in 224 .. 239
      \/ n = 4 /\ c \in 240 .. 244
  <2>1. /\ Lead[1] = 0 .. 127 /\ Lead[2] = 194 .. 223
        /\ Lead[3] = 224 .. 239 /\ Lead[4] = 240 .. 244
    BY DEF Lead
  <2>2. n = 1 \/ n = 2 \/ n = 3 \/ n = 4 BY <1>2
  <2>3. PICK L : L = Lead OBVIOUS
  <2>4. c \in L[n] BY <1>2, <2>3
  <2>5. /\ n = 1 => c \in L[1]
        /\ n = 2 => c \in L[2]
        /\ n = 3 => c \in L[3]
        /\ n = 4 => c \in L[4]
    BY <2>4
  <2> QED BY <2>1, <2>2, <2>3, <2>5
<1>5. Width(c) = n
  <2>1. CASE n = 1 BY <1>4, <2>1 DEF Width
  <2>2. CASE n = 2 BY <1>4, <2>2 DEF Width
  <2>3. CASE n = 3 BY <1>4, <2>3 DEF Width
  <2>4. CASE n = 4 BY <1>4, <2>4 DEF Width
  <2> QED BY <1>4, <2>1, <2>2, <2>3, <2>4
<1>6. ASSUME NEW b, b = 10 \/ b = 13
      PROVE  /\ ch[n] = b <=> ch = <<b>>
             /\ \A i \in 1 .. n : ch[i] = b => i = n
  <2>1. CASE n = 1
    <3>1. ch = <<c>>
      <4>1. <<c>> \in Seq(Byte) /\ Len(<<c>>) = 1 /\ <<c>>[1] = c BY <1>1, <1>2, <1>3
      <4>2. \A i \in 1 .. Len(ch) : ch[i] = <<c>>[i] BY <1>1, <2>1, <4>1
      <4> QED BY <1>1, <1>2, <2>1, <4>1, <4>2, SeqEqual
    <3>2. ch[n] = c /\ \A i \in 1 .. n : i = n BY <1>1, <2>1
    <3>3. ch = <<b>> <=> c = b BY <3>1
    <3> QED BY <3>2, <3>3
  <2>2. CASE n # 1
    <3>1. n \in 2 .. n /\ \A i \in 1 .. n : i = 1 \/ i \in 2 .. n BY <1>2, <2>2
    <3>2. c # b BY <1>4, <1>6, <2>2
    <3>3. \A i \in 1 .. n : ch[i] # b
      <4> TAKE i \in 1 .. n
      <4>1. CASE i = 1 BY <1>1, <3>2, <4>1
      <4>2. CASE i # 1
        <5>1. ch[i] \in 128 .. 191 BY <1>2, <3>1, <4>2
        <5> QED BY <1>6, <5>1
      <4> QED BY <4>1, <4>2
    <3>4. ch # <<b>>
      <4>1. Len(<<b>>) = 1 OBVIOUS
      <4> QED BY <1>1, <2>2, <4>1
    <3>5. n \in 1 .. n BY <1>2
    <3> QED BY <3>3, <3>4, <3>5
  <2> QED BY <2>1, <2>2
<1>7. (ch[n] = 10 <=> ch = LF) /\ \A i \in 1 .. n : ch[i] = 10 => i = n BY <1>6 DEF LF
<1>8. ch[n] = 13 <=> ch = CR BY <1>6 DEF CR
<1>9. Width(ch[1]) = n BY <1>1, <1>5
<1>10. ch \in Seq(Byte) /\ n \in 1 .. 4 BY <1>2
<1> HIDE DEF Byte
<1> QED BY <1>1, <1>3, <1>7, <1>8, <1>9, <1>10

\* utf16Len takes every byte for the start of one UTF-16 unit.
LEMMA OneUnit == ASSUME NEW c \in Byte PROVE Units(c) = 1 /\ Width(c) \in 1 .. 4
<1>1. CodePoint(c) \in 0 .. 127
  <2>1. c \in Int /\ c % 32 \in 0 .. 31 /\ c % 16 \in 0 .. 15 /\ c % 8 \in 0 .. 7 BY DEF Byte
  <2>2. \/ c < 128 \/ c \in 128 .. 223 \/ c \in 224 .. 239
        \/ ~(c < 128) /\ c \notin 128 .. 223 /\ c \notin 224 .. 239
    OBVIOUS
  <2> QED BY <2>1, <2>2 DEF CodePoint, Byte
<1>2. Width(c) \in 1 .. 4 BY DEF Width, Byte
<1> QED BY <1>1, <1>2 DEF Units

-----------------------------------------------------------------------------
(* Loops.                                                                  *)

\* A loop over 1 .. n whose state stays in V has a run.
IsRun(h, n, V, b, step) ==
    h \in [0 .. n -> V] /\ h[0] = b /\ \A i \in 1 .. n : h[i] = step[<<h[i - 1], i>>]
LEMMA LoopRuns ==
    ASSUME NEW V, NEW n \in Nat, NEW b \in V, NEW step \in [V \X (1 .. n) -> V]
    PROVE  \E h : IsRun(h, n, V, b, step)
<1> DEFINE Upto(h, m) == h \in [0 .. n -> V] /\ h[0] = b /\ \A i \in 1 .. m : h[i] = step[<<h[i - 1], i>>]
           bad == {m \in 0 .. n : ~ \E h : Upto(h, m)}
<1>1. SUFFICES ASSUME bad # {} PROVE FALSE
  <2>1. n \in 0 .. n /\ n \notin bad => \E h : Upto(h, n) OBVIOUS
  <2>2. \A h : Upto(h, n) <=> IsRun(h, n, V, b, step) BY DEF IsRun
  <2> HIDE DEF Upto
  <2> QED BY <1>1, <2>1, <2>2
<1>2. bad \in SUBSET Nat OBVIOUS
<1>3. PICK m \in bad : \A k \in bad : m <= k BY <1>1, <1>2, SmallestOf
<1>4. m \in 0 .. n OBVIOUS
<1>5. CASE m = 0
  <2>1. Upto([i \in 0 .. n |-> b], 0) OBVIOUS
  <2> QED BY <1>5, <2>1
<1>6. CASE m # 0
  <2>1. m - 1 \in 0 .. n /\ ~(m <= m - 1) BY <1>4, <1>6
  <2>2. PICK h : Upto(h, m - 1) BY <1>3, <2>1
  <2>3. PICK v : v = step[<<h[m - 1], m>>] OBVIOUS
  <2>4. v \in V
    <3>1. <<h[m - 1], m>> \in V \X (1 .. n) BY <1>4, <1>6, <2>1, <2>2
    <3> QED BY <2>3, <3>1
  <2>5. PICK g : g = [h EXCEPT ![m] = v] OBVIOUS
  <2>6. g \in [0 .. n -> V] /\ \A i \in 0 .. n : g[i] = IF i = m THEN v ELSE h[i]
    BY <1>4, <2>2, <2>4, <2>5
  <2>7. \A i \in 1 .. m : g[i] = step[<<g[i - 1], i>>]
    <3> TAKE i \in 1 .. m
    <3>1. i - 1 \in 0 .. n /\ i - 1 # m /\ g[i - 1] = h[i - 1] BY <1>4, <2>6
    <3>2. CASE i = m BY <1>4, <2>3, <2>6, <3>1, <3>2
    <3>3. CASE i # m
      <4>1. i \in 1 .. m - 1 BY <1>4, <3>3
      <4> QED BY <1>4, <2>2, <2>6, <3>1, <3>3, <4>1
    <3> QED BY <3>2, <3>3
  <2>8. g[0] = b BY <1>4, <1>6, <2>2, <2>6
  <2>9. Upto(g, m) BY <2>6, <2>7, <2>8
  <2> QED BY <2>9
<1> QED BY <1>5, <1>6

-----------------------------------------------------------------------------
(* The bytes of a text, character by character.                            *)

FlatSays(s, g, i) == IF i = 1 THEN s[i] ELSE g[i - 1] \o s[i]

\* FlattenSeq appends one character after the other.
LEMMA FlattenAppends ==
    ASSUME NEW t \in Seq(Character)
    PROVE  \E h : /\ h \in [0 .. Len(t) -> Seq(Byte)] /\ h[0] = <<>>
                  /\ \A i \in 1 .. Len(t) : h[i] = h[i - 1] \o t[i]
                  /\ \A n \in 0 .. Len(t) : FlattenSeq(SubSeq(t, 1, n)) = h[n]
<1>1. PICK N : N = Len(t) OBVIOUS
<1>2. N \in Nat /\ DOMAIN t = 1 .. N BY <1>1, LenProperties
<1>3. \A i \in 1 .. N : t[i] \in Character /\ t[i] \in Seq(Byte)
  BY <1>1, ElementOfSeq, CharacterFacts
<1>4. PICK step : step = [x \in Seq(Byte) \X (1 .. N) |-> x[1] \o t[x[2]]] OBVIOUS
<1>5. step \in [Seq(Byte) \X (1 .. N) -> Seq(Byte)]
  <2>1. \A x \in Seq(Byte) \X (1 .. N) : x[1] \o t[x[2]] \in Seq(Byte)
    BY <1>3, ConcatProperties
  <2> QED BY <1>4, <2>1
<1>6. PICK h : /\ h \in [0 .. N -> Seq(Byte)] /\ h[0] = <<>>
               /\ \A i \in 1 .. N : h[i] = step[<<h[i - 1], i>>]
  <2>1. PICK V, b : V = Seq(Byte) /\ b = <<>> OBVIOUS
  <2>2. b \in V /\ step \in [V \X (1 .. N) -> V] BY <1>5, <2>1, EmptySeq
  <2>3. \E h : IsRun(h, N, V, b, step) BY <1>2, <2>2, LoopRuns
  <2> QED BY <2>1, <2>3 DEF IsRun
<1>7. ASSUME NEW i \in 1 .. N PROVE h[i] = h[i - 1] \o t[i]
  <2>1. h[i - 1] \in Seq(Byte) BY <1>2, <1>6
  <2>2. <<h[i - 1], i>> \in Seq(Byte) \X (1 .. N) BY <2>1
  <2>3. step[<<h[i - 1], i>>] = h[i - 1] \o t[i] BY <1>4, <2>2
  <2> QED BY <1>6, <2>3
<1>8. 1 \in 1 .. N => h[1] = t[1]
  <2> SUFFICES ASSUME 1 \in 1 .. N PROVE h[1] = t[1] OBVIOUS
  <2>1. h[1] = h[0] \o t[1]
    <3>1. 1 - 1 = 0 OBVIOUS
    <3>2. h[1] = h[1 - 1] \o t[1] BY <1>7
    <3> QED BY <3>1, <3>2
  <2>2. <<>> \o t[1] = t[1] BY <1>3, ConcatEmptySeq
  <2> QED BY <1>6, <2>1, <2>2
<1>9. ASSUME NEW n \in 0 .. N PROVE FlattenSeq(SubSeq(t, 1, n)) = h[n]
  <2>1. PICK s : s = SubSeq(t, 1, n) OBVIOUS
  <2>2. s \in Seq(Character) /\ Len(s) = n /\ \A i \in 1 .. n : s[i] = t[i]
    <3>1. \A i \in 1 .. n : t[i] \in Character BY <1>2, <1>3
    <3>2. /\ SubSeq(t, 1, n) \in Seq(Character)
          /\ Len(SubSeq(t, 1, n)) = IF 1 <= n THEN n - 1 + 1 ELSE 0
          /\ \A i \in 1 .. n - 1 + 1 : SubSeq(t, 1, n)[i] = t[1 + i - 1]
      BY <1>2, <3>1, SubSeqProperties
    <3> QED BY <1>2, <2>1, <3>2
  <2>3. CASE n = 0
    <3>1. s = <<>> BY <2>2, <2>3, EmptySeq
    <3>2. FlattenSeq(s) = s BY <2>2, <2>3 DEF FlattenSeq
    <3> QED BY <1>6, <2>1, <2>3, <3>1, <3>2
  <2>4. CASE n # 0
    <3>1. n \in Nat \ {0} /\ n <= N BY <1>2, <2>4
    <3>2. \E g : g = [i \in 1 .. n |-> FlatSays(s, g, i)]
      <4>1. PICK g : g = [i \in 1 .. n |-> h[i]] OBVIOUS
      <4>2. ASSUME NEW i \in 1 .. n PROVE h[i] = FlatSays(s, g, i)
        <5>0. i \in 1 .. N BY <1>2, <3>1
        <5>1. s[i] = t[i] /\ h[i] = h[i - 1] \o t[i] BY <1>7, <2>2, <5>0
        <5>2. CASE i = 1 BY <1>8, <5>0, <5>1, <5>2 DEF FlatSays
        <5>3. CASE i # 1
          <6>1. i - 1 \in 1 .. n BY <3>1, <5>3
          <6> QED BY <4>1, <5>1, <5>3, <6>1 DEF FlatSays
        <5> QED BY <5>2, <5>3
      <4>3. g = [i \in 1 .. n |-> FlatSays(s, g, i)] BY <4>1, <4>2
      <4> QED BY <4>3
    <3>3. PICK a : a = CHOOSE g : g = [i \in 1 .. n |-> FlatSays(s, g, i)] OBVIOUS
    <3>4. a = [i \in 1 .. n |-> FlatSays(s, a, i)] BY <3>2, <3>3
    <3>5. FlattenSeq(s) = a[n]
      <4>1. FlattenSeq(s) = (CHOOSE g : g = [i \in 1 .. Len(s) |-> FlatSays(s, g, i)])[Len(s)]
        BY <2>2, <2>4 DEF FlattenSeq, FlatSays
      <4> QED BY <2>2, <3>3, <4>1
    <3>6. PICK bad : bad = {i \in 1 .. n : a[i] # h[i]} OBVIOUS
    <3>7. bad = {}
      <4> SUFFICES ASSUME bad # {} PROVE FALSE OBVIOUS
      <4>1. bad \in SUBSET Nat BY <3>1, <3>6
      <4>2. PICK i \in bad : \A k \in bad : i <= k BY <4>1, SmallestOf
      <4>3. i \in 1 .. n /\ i \in Nat /\ a[i] # h[i] BY <3>1, <3>6
      <4>4. a[i] = FlatSays(s, a, i) BY <3>4, <4>3
      <4>5. s[i] = t[i] /\ h[i] = h[i - 1] \o t[i] /\ i \in 1 .. N
        <5>1. i \in 1 .. N BY <1>2, <3>1, <4>3
        <5> QED BY <1>7, <2>2, <4>3, <5>1
      <4>6. CASE i = 1 BY <1>8, <4>3, <4>4, <4>5, <4>6 DEF FlatSays
      <4>7. CASE i # 1
        <5>1. i - 1 \in 1 .. n /\ ~(i <= i - 1) BY <3>1, <4>3, <4>7
        <5>2. i - 1 \notin bad BY <4>2, <5>1
        <5>3. a[i - 1] = h[i - 1] BY <3>6, <5>1, <5>2
        <5> QED BY <4>3, <4>4, <4>5, <4>7, <5>3 DEF FlatSays
      <4> QED BY <4>6, <4>7
    <3>8. a[n] = h[n] BY <3>1, <3>6, <3>7
    <3> QED BY <2>1, <3>5, <3>8
  <2> QED BY <2>3, <2>4
<1> QED BY <1>1, <1>6, <1>7, <1>9

TextOK == chars \in Seq(Character) /\ m_text = FlattenSeq(chars) /\ m_lineOffsets = LineOffsets(m_text)

\* Where the bytes of each character are.
LEMMA OffsetFacts ==
    ASSUME TextOK
    PROVE  /\ m_text \in Seq(Byte) /\ OffsetOf(0) = 0 /\ OffsetOf(Len(chars)) = Len(m_text)
           /\ \A n \in Places : OffsetOf(n) \in Nat
           /\ \A n \in 1 .. Len(chars) :
                 /\ OffsetOf(n) = OffsetOf(n - 1) + Len(chars[n])
                 /\ \A i \in 1 .. Len(chars[n]) : m_text[OffsetOf(n - 1) + i] = chars[n][i]
<1>1. PICK N : N = Len(chars) OBVIOUS
<1>2. N \in Nat /\ \A i \in 1 .. N : chars[i] \in Character /\ chars[i] \in Seq(Byte)
  BY <1>1, LenProperties, ElementOfSeq, CharacterFacts DEF TextOK
<1>3. PICK h : /\ h \in [0 .. N -> Seq(Byte)] /\ h[0] = <<>>
               /\ \A i \in 1 .. N : h[i] = h[i - 1] \o chars[i]
               /\ \A n \in 0 .. N : FlattenSeq(SubSeq(chars, 1, n)) = h[n]
  BY <1>1, FlattenAppends DEF TextOK
<1>4. \A n \in 0 .. N : OffsetOf(n) = Len(h[n]) /\ Len(h[n]) \in Nat
  BY <1>3, LenProperties DEF OffsetOf
<1>5. m_text = h[N]
  <2>1. SubSeq(chars, 1, N) = chars BY <1>1, SubSeqFull DEF TextOK
  <2>2. N \in 0 .. N BY <1>2
  <2>3. FlattenSeq(SubSeq(chars, 1, N)) = h[N] BY <1>3, <2>2
  <2>4. m_text = FlattenSeq(chars) BY DEF TextOK
  <2> QED BY <2>1, <2>3, <2>4
<1>6. ASSUME NEW n \in 1 .. N
      PROVE  /\ Len(h[n]) = Len(h[n - 1]) + Len(chars[n])
             /\ \A j \in 1 .. Len(h[n - 1]) : h[n][j] = h[n - 1][j]
             /\ \A i \in 1 .. Len(chars[n]) : h[n][Len(h[n - 1]) + i] = chars[n][i]
  <2>1. PICK a, b : a = h[n - 1] /\ b = chars[n] OBVIOUS
  <2>0. n - 1 \in 0 .. N BY <1>2
  <2>2. a \in Seq(Byte) /\ b \in Seq(Byte) /\ h[n] = a \o b BY <1>2, <1>3, <2>0, <2>1
  <2>3. /\ Len(a \o b) = Len(a) + Len(b)
        /\ \A i \in 1 .. Len(a) + Len(b) : (a \o b)[i] = IF i <= Len(a) THEN a[i] ELSE b[i - Len(a)]
    BY <2>2, ConcatProperties
  <2>4. Len(a) \in Nat /\ Len(b) \in Nat BY <2>2, LenProperties
  <2>5. \A j \in 1 .. Len(a) : (a \o b)[j] = a[j]
    <3> TAKE j \in 1 .. Len(a)
    <3>1. j \in 1 .. Len(a) + Len(b) /\ j <= Len(a) BY <2>4
    <3> QED BY <2>3, <3>1
  <2>6. \A i \in 1 .. Len(b) : (a \o b)[Len(a) + i] = b[i]
    <3> TAKE i \in 1 .. Len(b)
    <3>1. Len(a) + i \in 1 .. Len(a) + Len(b) /\ ~(Len(a) + i <= Len(a)) /\ Len(a) + i - Len(a) = i
      BY <2>4
    <3> QED BY <2>3, <3>1
  <2> QED BY <2>1, <2>2, <2>3, <2>5, <2>6
<1>7. \A n \in 0 .. N : Len(h[n]) <= Len(h[N]) /\ \A j \in 1 .. Len(h[n]) : h[N][j] = h[n][j]
  <2> DEFINE bad == {d \in 0 .. N : ~(/\ Len(h[N - d]) <= Len(h[N])
                                      /\ \A j \in 1 .. Len(h[N - d]) : h[N][j] = h[N - d][j])}
  <2>1. SUFFICES ASSUME bad # {} PROVE FALSE
    <3>1. \A n \in 0 .. N : N - n \in 0 .. N /\ N - (N - n) = n BY <1>2
    <3> QED BY <3>1
  <2>2. bad \in SUBSET Nat OBVIOUS
  <2>3. PICK d \in bad : \A k \in bad : d <= k BY <2>1, <2>2, SmallestOf
  <2>4. d \in 0 .. N /\ d # 0
    <3>1. N - 0 = N /\ Len(h[N]) <= Len(h[N]) BY <1>2, <1>4
    <3>2. 0 \notin bad BY <3>1
    <3> QED BY <3>2
  <2>5. d - 1 \in 0 .. N /\ d - 1 \notin bad
    <3>1. d - 1 \in 0 .. N /\ ~(d <= d - 1) BY <1>2, <2>4
    <3> QED BY <2>3, <3>1
  <2>6. PICK n : n = N - d + 1 OBVIOUS
  <2>7. n \in 1 .. N /\ N - (d - 1) = n /\ N - d = n - 1 BY <1>2, <2>4, <2>6
  <2>8. Len(h[n]) <= Len(h[N]) /\ \A j \in 1 .. Len(h[n]) : h[N][j] = h[n][j]
    BY <2>5, <2>7
  <2>9. Len(h[n - 1]) <= Len(h[n]) /\ Len(h[n - 1]) \in Nat /\ Len(h[n]) \in Nat /\ Len(h[N]) \in Nat
    <3>1. n \in 0 .. N /\ n - 1 \in 0 .. N /\ N \in 0 .. N BY <1>2, <2>7
    <3>2. PICK x, y, z : x = Len(h[n - 1]) /\ y = Len(h[n]) /\ z = Len(chars[n]) OBVIOUS
    <3>3. z \in Nat BY <1>2, <2>7, <3>2, LenProperties
    <3>4. x \in Nat /\ y \in Nat /\ y = x + z BY <1>4, <1>6, <2>7, <3>1, <3>2
    <3>5. x <= y BY <3>3, <3>4
    <3>6. Len(h[N]) \in Nat BY <1>4, <3>1
    <3> QED BY <3>2, <3>4, <3>5, <3>6
  <2>10. \A j \in 1 .. Len(h[n - 1]) : h[N][j] = h[n - 1][j]
    <3> TAKE j \in 1 .. Len(h[n - 1])
    <3>1. j \in 1 .. Len(h[n]) BY <2>9
    <3> QED BY <1>6, <2>7, <2>8, <3>1
  <2>11. Len(h[N - d]) <= Len(h[N]) /\ \A j \in 1 .. Len(h[N - d]) : h[N][j] = h[N - d][j]
    BY <2>7, <2>8, <2>9, <2>10
  <2> QED BY <2>3, <2>11
<1>8. ASSUME NEW n \in 1 .. N, NEW i \in 1 .. Len(chars[n]) PROVE m_text[OffsetOf(n - 1) + i] = chars[n][i]
  <2>1. n - 1 \in 0 .. N /\ n \in 0 .. N BY <1>2
  <2>2. PICK x, y, z : x = Len(h[n - 1]) /\ y = Len(h[n]) /\ z = Len(chars[n]) OBVIOUS
  <2>3. x \in Nat /\ y = x + z /\ i \in 1 .. z /\ h[n][x + i] = chars[n][i] /\ OffsetOf(n - 1) = x
    BY <1>4, <1>6, <2>1, <2>2
  <2>4. z \in Nat BY <1>2, <2>2, LenProperties
  <2>5. x + i \in 1 .. y BY <2>3, <2>4
  <2>6. h[N][x + i] = h[n][x + i] BY <1>7, <2>1, <2>2, <2>5
  <2> QED BY <1>5, <2>3, <2>6
<1>9. \A n \in 1 .. N : OffsetOf(n) = OffsetOf(n - 1) + Len(chars[n])
  <2> TAKE n \in 1 .. N
  <2>1. n - 1 \in 0 .. N /\ n \in 0 .. N BY <1>2
  <2> QED BY <1>4, <1>6, <2>1
<1>10. OffsetOf(0) = 0
  <2>1. 0 \in 0 .. N /\ Len(<<>>) = 0 BY <1>2
  <2> QED BY <1>3, <1>4, <2>1
<1>11. m_text \in Seq(Byte) /\ OffsetOf(N) = Len(m_text)
  <2>1. N \in 0 .. N BY <1>2
  <2> QED BY <1>3, <1>4, <1>5, <2>1
<1> QED BY <1>1, <1>4, <1>8, <1>9, <1>10, <1>11 DEF Places

\* Later places have larger offsets.
LEMMA OffsetGrows ==
    ASSUME TextOK
    PROVE  \A a, b \in Places : a < b => OffsetOf(a) < OffsetOf(b)
<1>1. PICK N : N = Len(chars) /\ N \in Nat BY LenProperties DEF TextOK
<1>2. \A n \in 1 .. N : OffsetOf(n - 1) < OffsetOf(n)
  <2> TAKE n \in 1 .. N
  <2>1. chars[n] \in Character BY <1>1, ElementOfSeq DEF TextOK
  <2>2. Len(chars[n]) \in 1 .. 4 BY <2>1, CharacterFacts
  <2>3. OffsetOf(n) = OffsetOf(n - 1) + Len(chars[n]) /\ OffsetOf(n - 1) \in Nat
    BY <1>1, OffsetFacts DEF Places
  <2>4. PICK x, y, z : x = OffsetOf(n - 1) /\ y = OffsetOf(n) /\ z = Len(chars[n]) OBVIOUS
  <2>5. z \in 1 .. 4 /\ y = x + z /\ x \in Nat BY <2>2, <2>3, <2>4
  <2>6. x < y BY <2>5
  <2> QED BY <2>4, <2>6
<1>3. \A n \in 0 .. N : OffsetOf(n) \in Nat BY <1>1, OffsetFacts DEF Places
<1> SUFFICES ASSUME NEW a \in 0 .. N PROVE \A b \in 0 .. N : a < b => OffsetOf(a) < OffsetOf(b)
  BY <1>1 DEF Places
<1> DEFINE bad == {b \in 0 .. N : a < b /\ ~(OffsetOf(a) < OffsetOf(b))}
<1>4. SUFFICES ASSUME bad # {} PROVE FALSE OBVIOUS
<1>5. bad \in SUBSET Nat OBVIOUS
<1>6. PICK b \in bad : \A k \in bad : b <= k BY <1>4, <1>5, SmallestOf
<1>7. b \in 1 .. N /\ b - 1 \in 0 .. N /\ ~(b <= b - 1) /\ a < b /\ ~(OffsetOf(a) < OffsetOf(b))
  BY <1>1
<1>8. b - 1 \notin bad BY <1>6, <1>7
<1>9. a = b - 1 \/ OffsetOf(a) < OffsetOf(b - 1) BY <1>7, <1>8
<1>10. OffsetOf(b - 1) < OffsetOf(b) BY <1>2, <1>7
<1> QED BY <1>3, <1>7, <1>9, <1>10

\* What a loop over the bytes reads at a place, and before it.
LEMMA PlaceReads ==
    ASSUME TextOK, NEW n \in 1 .. Len(chars)
    PROVE  /\ n \in Places /\ n - 1 \in Places /\ chars[n] \in Character
           /\ OffsetOf(n - 1) < Len(m_text) /\ m_text[OffsetOf(n - 1) + 1] \in Byte
           /\ OffsetOf(n - 1) + Width(m_text[OffsetOf(n - 1) + 1]) = OffsetOf(n)
           /\ Units(m_text[OffsetOf(n - 1) + 1]) = 1
           /\ m_text[OffsetOf(n - 1) + 1] = 10 <=> chars[n] = LF
           /\ m_text[OffsetOf(n)] = 10 <=> chars[n] = LF
           /\ m_text[OffsetOf(n)] = 13 <=> chars[n] = CR
           /\ chars[n] = LF => OffsetOf(n) = OffsetOf(n - 1) + 1
           /\ \A i \in OffsetOf(n - 1) + 1 .. OffsetOf(n) : m_text[i] = 10 => i = OffsetOf(n)
<1>1. PICK N : N = Len(chars) /\ N \in Nat BY LenProperties DEF TextOK
<1>2. n \in 1 .. N /\ n \in Places /\ n - 1 \in Places /\ N \in Places BY <1>1 DEF Places
<1>3. PICK ch, w, x, y : ch = chars[n] /\ w = Len(ch) /\ x = OffsetOf(n - 1) /\ y = OffsetOf(n) OBVIOUS
<1>4. ch \in Character /\ w \in 1 .. 4 BY <1>1, <1>2, <1>3, ElementOfSeq, CharacterFacts DEF TextOK
<1>5. x \in Nat /\ y = x + w /\ \A i \in 1 .. w : m_text[x + i] = ch[i]
  BY <1>2, <1>3, OffsetFacts
<1>6. /\ Width(ch[1]) = w /\ ch[1] \in Byte /\ (ch[w] = 10 <=> ch = LF) /\ (ch[w] = 13 <=> ch = CR)
      /\ \A i \in 1 .. w : ch[i] = 10 => i = w
  <2>1. 1 \in 1 .. w BY <1>4
  <2> QED BY <1>3, <1>4, <2>1, CharacterFacts
<1>7. m_text[x + 1] = ch[1] /\ m_text[y] = ch[w] BY <1>4, <1>5
<1>8. x < Len(m_text)
  <2>1. n = N \/ y < OffsetOf(N)
    <3>1. n = N \/ n < N BY <1>1, <1>2
    <3> QED BY <1>2, <1>3, <3>1, OffsetGrows
  <2>2. OffsetOf(N) = Len(m_text) /\ OffsetOf(N) \in Nat BY <1>1, <1>2, OffsetFacts
  <2>3. x < y BY <1>4, <1>5
  <2>4. PICK z : z = OffsetOf(N) OBVIOUS
  <2>5. z \in Nat /\ x \in Nat /\ y \in Nat BY <1>4, <1>5, <2>2, <2>4
  <2>6. y = z \/ y < z BY <1>3, <2>1, <2>4
  <2>7. x < z BY <2>3, <2>5, <2>6
  <2> QED BY <2>2, <2>4, <2>7
<1>9. ch[1] = 10 <=> ch = LF
  <2>1. ASSUME ch[1] = 10 PROVE ch = LF
    <3>1. 1 \in 1 .. w BY <1>4
    <3>2. 1 = w BY <1>6, <2>1, <3>1
    <3> QED BY <1>6, <2>1, <3>2
  <2>2. ASSUME ch = LF PROVE ch[1] = 10 BY <2>2 DEF LF
  <2> QED BY <2>1, <2>2
<1>10. ch = LF => y = x + 1
  <2>1. Len(LF) = 1 BY DEF LF
  <2> QED BY <1>3, <1>5, <2>1
<1>11. \A i \in x + 1 .. y : m_text[i] = 10 => i = y
  <2> TAKE i \in x + 1 .. y
  <2>1. PICK k : k = i - x OBVIOUS
  <2>2. k \in 1 .. w /\ i = x + k BY <1>4, <1>5, <2>1
  <2>3. m_text[i] = ch[k] BY <1>5, <2>2
  <2>4. m_text[i] = 10 => k = w BY <1>6, <2>2, <2>3
  <2> QED BY <1>5, <2>2, <2>4
<1>12. Units(ch[1]) = 1 BY <1>6, OneUnit
<1> QED BY <1>2, <1>3, <1>4, <1>5, <1>6, <1>7, <1>8, <1>9, <1>10, <1>11, <1>12

-----------------------------------------------------------------------------
(* The line starts.                                                        *)

Pushes(p, text) ==
    /\ p \in [0 .. Len(text) -> Seq(Nat)] /\ p[0] = <<0>>
    /\ \A i \in 1 .. Len(text) : p[i] = IF text[i] = 10 THEN Append(p[i - 1], i) ELSE p[i - 1]
PushedSays(text, p, i) ==
    IF i = 0 THEN <<0>> ELSE IF text[i] = 10 THEN Append(p[i - 1], i) ELSE p[i - 1]

\* The loop of buildIndex.
LEMMA PushesExist ==
    ASSUME NEW text \in Seq(Byte)
    PROVE  \E p : Pushes(p, text) /\ LineOffsets(text) = p[Len(text)]
<1>1. PICK M : M = Len(text) /\ M \in Nat BY LenProperties
<1>2. PICK step : step = [x \in Seq(Nat) \X (1 .. M) |-> IF text[x[2]] = 10 THEN Append(x[1], x[2]) ELSE x[1]]
  OBVIOUS
<1>3. step \in [Seq(Nat) \X (1 .. M) -> Seq(Nat)]
  <2>1. \A s \in Seq(Nat), i \in 1 .. M : Append(s, i) \in Seq(Nat) BY <1>1, AppendProperties
  <2> QED BY <1>2, <2>1
<1>4. PICK h : IsRun(h, M, Seq(Nat), <<0>>, step)
  <2>1. PICK V, b : V = Seq(Nat) /\ b = <<0>> OBVIOUS
  <2>2. b \in V /\ step \in [V \X (1 .. M) -> V] BY <1>3, <2>1
  <2> QED BY <1>1, <2>1, <2>2, LoopRuns
<1>5. ASSUME NEW i \in 1 .. M PROVE h[i] = IF text[i] = 10 THEN Append(h[i - 1], i) ELSE h[i - 1]
  <2>1. i - 1 \in 0 .. M BY <1>1
  <2>2. h[i] = step[<<h[i - 1], i>>] /\ h[i - 1] \in Seq(Nat) BY <1>4, <2>1 DEF IsRun
  <2>3. <<h[i - 1], i>> \in Seq(Nat) \X (1 .. M) BY <2>2
  <2> QED BY <1>2, <2>2, <2>3
<1>6. h \in [0 .. M -> Seq(Nat)] /\ h[0] = <<0>> BY <1>4 DEF IsRun
<1>7. h = [i \in 0 .. M |-> PushedSays(text, h, i)]
  <2>1. \A i \in 0 .. M : i = 0 \/ i \in 1 .. M BY <1>1
  <2>2. \A i \in 0 .. M : h[i] = PushedSays(text, h, i) BY <1>5, <1>6, <2>1 DEF PushedSays
  <2> QED BY <1>6, <2>2
<1>8. PICK p : p = CHOOSE g : g = [i \in 0 .. M |-> PushedSays(text, g, i)] OBVIOUS
<1>9. p = [i \in 0 .. M |-> PushedSays(text, p, i)] BY <1>7, <1>8
<1>10. LineOffsets(text) = p[M] BY <1>1, <1>8 DEF LineOffsets, PushedSays
<1>11. p = h
  <2> DEFINE bad == {i \in 0 .. M : p[i] # h[i]}
  <2>1. SUFFICES ASSUME bad # {} PROVE FALSE BY <1>6, <1>9
  <2>2. bad \in SUBSET Nat OBVIOUS
  <2>3. PICK i \in bad : \A k \in bad : i <= k BY <2>1, <2>2, SmallestOf
  <2>4. i \in 0 .. M /\ p[i] = PushedSays(text, p, i) /\ h[i] = PushedSays(text, h, i) /\ p[i] # h[i]
    BY <1>7, <1>9
  <2>5. i # 0 BY <2>4 DEF PushedSays
  <2>6. i - 1 \in 0 .. M /\ ~(i <= i - 1) BY <1>1, <2>4, <2>5
  <2>7. p[i - 1] = h[i - 1] BY <2>3, <2>6
  <2> QED BY <2>4, <2>5, <2>7 DEF PushedSays
<1>12. Pushes(h, text) BY <1>1, <1>5, <1>6 DEF Pushes
<1> QED BY <1>1, <1>10, <1>11, <1>12

Grown(p, text, a, b) ==
    /\ Len(p[a]) <= Len(p[b])
    /\ \A l \in 1 .. Len(p[a]) : p[b][l] = p[a][l]
    /\ \A l \in Len(p[a]) + 1 .. Len(p[b]) : p[b][l] \in a + 1 .. b /\ text[p[b][l]] = 10

\* What the loop has pushed stays; what it pushes later is a later newline.
LEMMA PushesGrow ==
    ASSUME NEW text \in Seq(Byte), NEW p, Pushes(p, text), NEW a \in 0 .. Len(text)
    PROVE  \A b \in 0 .. Len(text) : a <= b => Grown(p, text, a, b)
<1>1. PICK M : M = Len(text) /\ M \in Nat BY LenProperties
<1> DEFINE Good(b) == /\ Len(p[a]) <= Len(p[b])
                      /\ \A l \in 1 .. Len(p[a]) : p[b][l] = p[a][l]
                      /\ \A l \in Len(p[a]) + 1 .. Len(p[b]) : p[b][l] \in a + 1 .. b /\ text[p[b][l]] = 10
           bad == {b \in 0 .. M : a <= b /\ ~Good(b)}
<1>2. SUFFICES ASSUME bad # {} PROVE FALSE BY <1>1 DEF Grown
<1>3. bad \in SUBSET Nat OBVIOUS
<1>4. PICK b \in bad : \A k \in bad : b <= k BY <1>2, <1>3, SmallestOf
<1>5. \A i \in 0 .. M : p[i] \in Seq(Nat) /\ Len(p[i]) \in Nat BY <1>1, LenProperties DEF Pushes
<1>6. Good(a)
  <2>1. Len(p[a]) <= Len(p[a]) /\ ~(Len(p[a]) + 1 <= Len(p[a])) BY <1>1, <1>5
  <2>2. \A l \in Len(p[a]) + 1 .. Len(p[a]) : FALSE BY <1>1, <1>5
  <2> QED BY <2>1, <2>2
<1>7. b \in 1 .. M /\ b - 1 \in 0 .. M /\ ~(b <= b - 1) /\ a <= b - 1 /\ a \in Nat /\ ~Good(b)
  <2>1. b \in 0 .. M /\ a <= b /\ a \in 0 .. M /\ b # a /\ ~Good(b) BY <1>1, <1>6
  <2> HIDE DEF Good
  <2> QED BY <1>1, <2>1
<1>8. Good(b - 1) BY <1>4, <1>7
<1>9. PICK s, n, m : s = p[b - 1] /\ n = Len(s) /\ m = Len(p[a]) OBVIOUS
<1>10. s \in Seq(Nat) /\ n \in Nat /\ m \in Nat /\ m <= n BY <1>1, <1>5, <1>7, <1>8, <1>9
<1>11. \A l \in m + 1 .. n : s[l] \in a + 1 .. b /\ text[s[l]] = 10
  <2> TAKE l \in m + 1 .. n
  <2>1. s[l] \in a + 1 .. b - 1 /\ text[s[l]] = 10 BY <1>8, <1>9
  <2>2. s[l] \in a + 1 .. b BY <1>7, <2>1
  <2> QED BY <2>1, <2>2
<1>12. CASE text[b] = 10
  <2>1. p[b] = Append(s, b) BY <1>1, <1>7, <1>9, <1>12 DEF Pushes
  <2>2. /\ Len(Append(s, b)) = n + 1 /\ Append(s, b)[n + 1] = b
        /\ \A l \in 1 .. n : Append(s, b)[l] = s[l]
    <3>1. b \in Nat BY <1>7
    <3> QED BY <1>9, <1>10, <3>1, AppendProperties
  <2>3. m <= n + 1 /\ \A l \in 1 .. m : l \in 1 .. n BY <1>10
  <2>4. \A l \in 1 .. m : Append(s, b)[l] = p[a][l] BY <1>8, <1>9, <2>2, <2>3
  <2>5. ASSUME NEW l \in m + 1 .. n + 1 PROVE Append(s, b)[l] \in a + 1 .. b /\ text[Append(s, b)[l]] = 10
    <3>1. CASE l = n + 1
      <4>1. b \in a + 1 .. b BY <1>7
      <4> QED BY <1>12, <2>2, <3>1, <4>1
    <3>2. CASE l # n + 1
      <4>1. l \in m + 1 .. n /\ l \in 1 .. n BY <1>10, <3>2
      <4> QED BY <1>11, <2>2, <4>1
    <3> QED BY <3>1, <3>2
  <2>6. Good(b) BY <1>9, <2>1, <2>2, <2>3, <2>4, <2>5
  <2> QED BY <1>7, <2>6
<1>13. CASE text[b] # 10
  <2>1. p[b] = s BY <1>1, <1>7, <1>9, <1>13 DEF Pushes
  <2>2. Good(b) BY <1>8, <1>9, <1>10, <1>11, <2>1
  <2> QED BY <1>7, <2>2
<1> QED BY <1>12, <1>13

\* The lines that the server counts: one ends at each newline.
Breaks(n) == Cardinality({i \in 1 .. n : chars[i] = LF})
LfStart(n) == Max({0} \cup {i \in 1 .. n : chars[i] = LF})

\* The line of a place and where it starts, from those of the place before.
LEMMA BreakFacts ==
    ASSUME TextOK
    PROVE  /\ Breaks(0) = 0
           /\ \A n \in Places : /\ Breaks(n) \in Nat /\ LfStart(n) \in 0 .. n
                                /\ LfStart(n) # 0 => chars[LfStart(n)] = LF
                                /\ \A i \in LfStart(n) + 1 .. n : chars[i] # LF
           /\ \A n \in 1 .. Len(chars) :
                 /\ Breaks(n) = IF chars[n] = LF THEN Breaks(n - 1) + 1 ELSE Breaks(n - 1)
                 /\ LfStart(n) = IF chars[n] = LF THEN n ELSE LfStart(n - 1)
<1>1. PICK N : N = Len(chars) /\ N \in Nat BY LenProperties DEF TextOK
<1> DEFINE B(n) == {i \in 1 .. n : chars[i] = LF}
<1>2. ASSUME NEW n \in Nat PROVE IsFiniteSet(B(n)) /\ Breaks(n) \in Nat
  <2>1. IsFiniteSet(1 .. n) BY FS_Interval
  <2>2. IsFiniteSet(B(n)) BY <2>1, FS_Subset
  <2> QED BY <2>2, FS_CardinalityType DEF Breaks
<1>3. Breaks(0) = 0
  <2>1. B(0) = {} OBVIOUS
  <2> QED BY <2>1, FS_EmptySet DEF Breaks
<1>4. ASSUME NEW n \in Nat
      PROVE  /\ LfStart(n) \in {0} \cup B(n) /\ \A m \in {0} \cup B(n) : m <= LfStart(n)
             /\ \A k \in {0} \cup B(n) : (\A m \in {0} \cup B(n) : m <= k) => LfStart(n) = k
  <2>1. PICK S : S = {0} \cup B(n) OBVIOUS
  <2>2. S \in SUBSET Nat /\ S # {} /\ \A m \in S : m <= n BY <2>1
  <2>3. /\ Max(S) \in S /\ \A m \in S : m <= Max(S)
        /\ \A k \in S : (\A m \in S : m <= k) => Max(S) = k
    BY <2>2, MaxFacts
  <2>4. LfStart(n) = Max(S) BY <2>1 DEF LfStart
  <2> QED BY <2>1, <2>3, <2>4
<1>5. ASSUME NEW n \in Nat
      PROVE  /\ LfStart(n) \in 0 .. n /\ (LfStart(n) # 0 => chars[LfStart(n)] = LF)
             /\ \A i \in LfStart(n) + 1 .. n : chars[i] # LF
  <2>1. PICK s : s = LfStart(n) OBVIOUS
  <2>2. s = 0 \/ s \in B(n) BY <1>4, <2>1
  <2>3. s \in 0 .. n /\ (s # 0 => chars[s] = LF) BY <2>2
  <2>4. \A i \in s + 1 .. n : i \in 1 .. n /\ ~(i <= s) BY <2>3
  <2>5. \A i \in s + 1 .. n : i \notin B(n) BY <1>4, <2>1, <2>4
  <2> QED BY <2>1, <2>3, <2>4, <2>5
<1>6. ASSUME NEW n \in 1 .. N
      PROVE  /\ Breaks(n) = IF chars[n] = LF THEN Breaks(n - 1) + 1 ELSE Breaks(n - 1)
             /\ LfStart(n) = IF chars[n] = LF THEN n ELSE LfStart(n - 1)
  <2>1. n \in Nat /\ n - 1 \in Nat BY <1>1
  <2>2. CASE chars[n] = LF
    <3>1. B(n) = B(n - 1) \cup {n} /\ n \notin B(n - 1) BY <1>1, <2>2
    <3>2. Cardinality(B(n - 1) \cup {n}) = Cardinality(B(n - 1)) + 1
      BY <1>2, <2>1, <3>1, FS_AddElement
    <3>3. n \in {0} \cup B(n) /\ \A m \in {0} \cup B(n) : m <= n BY <1>1, <3>1
    <3>4. LfStart(n) = n BY <1>4, <2>1, <3>3
    <3> QED BY <2>2, <3>1, <3>2, <3>4 DEF Breaks
  <2>3. CASE chars[n] # LF
    <3>1. B(n) = B(n - 1) BY <1>1, <2>3
    <3> QED BY <2>3, <3>1 DEF Breaks, LfStart
  <2> QED BY <2>2, <2>3
<1>7. \A n \in Places : /\ Breaks(n) \in Nat /\ LfStart(n) \in 0 .. n
                        /\ LfStart(n) # 0 => chars[LfStart(n)] = LF
                        /\ \A i \in LfStart(n) + 1 .. n : chars[i] # LF
  <2> TAKE n \in Places
  <2>1. n \in Nat BY <1>1 DEF Places
  <2> HIDE DEF B
  <2> QED BY <1>2, <1>5, <2>1
<1> HIDE DEF B
<1> QED BY <1>1, <1>3, <1>6, <1>7

\* m_lineOffsets holds the places where lines start: up to a place there is one
\* for each line, the last that of the place's line; the others come later.
LEMMA LineStarts ==
    ASSUME TextOK, NEW n \in Places
    PROVE  /\ Len(m_lineOffsets) = Breaks(Len(chars)) + 1 /\ Breaks(n) <= Breaks(Len(chars))
           /\ m_lineOffsets[Breaks(n) + 1] = OffsetOf(LfStart(n))
           /\ LineOf(OffsetOf(n)) = Breaks(n)
<1>1. PICK N, M : N = Len(chars) /\ N \in Nat /\ M = Len(m_text) /\ M \in Nat
  BY OffsetFacts, LenProperties DEF TextOK
<1>2. PICK p : Pushes(p, m_text) /\ m_lineOffsets = p[M] BY <1>1, OffsetFacts, PushesExist DEF TextOK
<1>3. \A i \in 0 .. N : OffsetOf(i) \in 0 .. M
  <2> TAKE i \in 0 .. N
  <2>1. N \in Places /\ i \in Places /\ (i = N \/ i < N) BY <1>1 DEF Places
  <2>2. OffsetOf(i) \in Nat /\ OffsetOf(N) = M BY <1>1, <2>1, OffsetFacts
  <2>3. OffsetOf(i) = M \/ OffsetOf(i) < M BY <2>1, <2>2, OffsetGrows
  <2> QED BY <1>1, <2>2, <2>3
<1>4. \A i \in 0 .. M : p[i] \in Seq(Nat) /\ Len(p[i]) \in Nat BY <1>1, <1>2, LenProperties DEF Pushes
<1> DEFINE Good(i) == Len(p[OffsetOf(i)]) = Breaks(i) + 1
                      /\ p[OffsetOf(i)][Breaks(i) + 1] = OffsetOf(LfStart(i))
<1>5. \A i \in 0 .. N : Good(i)
  <2> DEFINE bad == {i \in 0 .. N : ~Good(i)}
  <2>1. SUFFICES ASSUME bad # {} PROVE FALSE OBVIOUS
  <2>2. bad \in SUBSET Nat OBVIOUS
  <2>3. PICK i \in bad : \A k \in bad : i <= k BY <2>1, <2>2, SmallestOf
  <2>4. Good(0)
    <3>1. p[0] = <<0>> BY <1>2 DEF Pushes
    <3>2. 0 \in Places BY <1>1 DEF Places
    <3>3. LfStart(0) \in 0 .. 0 BY <3>2, BreakFacts
    <3>4. LfStart(0) = 0 BY <3>3
    <3>5. OffsetOf(0) = 0 /\ Breaks(0) = 0 BY OffsetFacts, BreakFacts
    <3>6. Len(<<0>>) = 1 /\ <<0>>[1] = 0 /\ 0 + 1 = 1 OBVIOUS
    <3>7. Len(p[OffsetOf(0)]) = Breaks(0) + 1 BY <3>1, <3>5, <3>6
    <3>8. p[OffsetOf(0)][Breaks(0) + 1] = OffsetOf(LfStart(0)) BY <3>1, <3>4, <3>5, <3>6
    <3> QED BY <3>7, <3>8
  <2>5. i \in 1 .. N /\ i - 1 \in 0 .. N /\ i \in 0 .. N /\ ~(i <= i - 1)
    <3>1. i \in 0 .. N /\ i # 0 BY <2>4
    <3> QED BY <1>1, <3>1
  <2>6. Good(i - 1) BY <2>3, <2>5
  <2>7. PICK x, y, s, b : x = OffsetOf(i - 1) /\ y = OffsetOf(i) /\ s = p[x] /\ b = Breaks(i - 1) OBVIOUS
  <2>8. x \in 0 .. M /\ y \in 0 .. M /\ x < y /\ s \in Seq(Nat) /\ b \in Nat
    <3>1. i - 1 \in Places /\ i \in Places /\ i - 1 < i BY <1>1, <2>5 DEF Places
    <3> QED BY <1>3, <1>4, <2>5, <2>7, <3>1, OffsetGrows, BreakFacts
  <2>9. \A j \in x + 1 .. y : m_text[j] = 10 => j = y BY <1>1, <2>5, <2>7, PlaceReads
  <2>10. p[y - 1] = s
    <3>1. y - 1 \in 0 .. M /\ x <= y - 1 BY <1>1, <2>8
    <3>2. PICK q, m, k : q = p[y - 1] /\ m = Len(s) /\ k = Len(q) OBVIOUS
    <3>3. q \in Seq(Nat) /\ m \in Nat /\ k \in Nat BY <1>4, <2>7, <2>8, <3>1, <3>2
    <3>4. /\ m <= k /\ \A l \in 1 .. m : q[l] = s[l]
          /\ \A l \in m + 1 .. k : q[l] \in x + 1 .. y - 1 /\ m_text[q[l]] = 10
      <4>1. Grown(p, m_text, x, y - 1) BY <1>1, <1>2, <2>8, <3>1, OffsetFacts, PushesGrow
      <4> QED BY <2>7, <3>2, <4>1 DEF Grown
    <3>5. \A j \in x + 1 .. y - 1 : m_text[j] # 10
      <4> TAKE j \in x + 1 .. y - 1
      <4>1. j \in x + 1 .. y /\ j # y BY <2>8
      <4> QED BY <2>9, <4>1
    <3>6. k = m
      <4>1. ASSUME k # m PROVE FALSE
        <5>1. k \in m + 1 .. k BY <3>3, <3>4, <4>1
        <5> QED BY <3>4, <3>5, <5>1
      <4> QED BY <4>1
    <3> QED BY <2>8, <3>2, <3>3, <3>4, <3>6, SeqEqual
  <2>11. y \in 1 .. M /\ (m_text[y] = 10 <=> chars[i] = LF)
    BY <1>1, <2>5, <2>7, <2>8, PlaceReads
  <2>12. CASE chars[i] = LF
    <3>1. p[y] = Append(s, y) BY <1>1, <1>2, <2>10, <2>11, <2>12 DEF Pushes
    <3>2. Breaks(i) = b + 1 /\ LfStart(i) = i BY <1>1, <2>5, <2>7, <2>12, BreakFacts
    <3>3. Len(s) = b + 1 BY <2>6, <2>7
    <3>4. y \in Nat BY <2>8
    <3>5. Len(Append(s, y)) = Len(s) + 1 /\ Append(s, y)[Len(s) + 1] = y BY <2>8, <3>4, AppendProperties
    <3>6. Good(i) BY <2>7, <3>1, <3>2, <3>3, <3>5
    <3> QED BY <3>6
  <2>13. CASE chars[i] # LF
    <3>1. p[y] = s BY <1>1, <1>2, <2>10, <2>11, <2>13 DEF Pushes
    <3>2. Breaks(i) = b /\ LfStart(i) = LfStart(i - 1) BY <1>1, <2>5, <2>7, <2>13, BreakFacts
    <3>3. Good(i) BY <2>6, <2>7, <3>1, <3>2
    <3> QED BY <3>3
  <2> QED BY <2>12, <2>13
<1> HIDE DEF Good
<1>6. n \in 0 .. N /\ N \in 0 .. N BY <1>1 DEF Places
<1>7. PICK x, L, k : x = OffsetOf(n) /\ L = Len(m_lineOffsets) /\ k = Breaks(n) OBVIOUS
<1>8. x \in 0 .. M /\ k \in Nat /\ L \in Nat /\ p[M] \in Seq(Nat) /\ M \in 0 .. M
  <2>1. M \in 0 .. M BY <1>1
  <2> QED BY <1>2, <1>3, <1>4, <1>6, <1>7, <2>1, BreakFacts
<1>9. L = Breaks(N) + 1
  <2>1. OffsetOf(N) = M BY <1>1, OffsetFacts
  <2> QED BY <1>2, <1>5, <1>6, <1>7, <2>1 DEF Good
<1>10. Len(p[x]) = k + 1 /\ p[x][k + 1] = OffsetOf(LfStart(n)) BY <1>5, <1>6, <1>7 DEF Good
<1>11. /\ k + 1 <= L /\ \A l \in 1 .. k + 1 : m_lineOffsets[l] = p[x][l]
       /\ \A l \in k + 2 .. L : m_lineOffsets[l] \in x + 1 .. M
  <2>1. x <= M BY <1>8
  <2>2. /\ Len(p[x]) <= Len(p[M]) /\ \A l \in 1 .. Len(p[x]) : p[M][l] = p[x][l]
        /\ \A l \in Len(p[x]) + 1 .. Len(p[M]) : p[M][l] \in x + 1 .. M
    <3>1. Grown(p, m_text, x, M) BY <1>1, <1>2, <1>8, <2>1, OffsetFacts, PushesGrow
    <3> QED BY <3>1 DEF Grown
  <2>3. k + 1 + 1 = k + 2 BY <1>8
  <2> QED BY <1>2, <1>7, <1>10, <2>2, <2>3
<1>12. ASSUME NEW l \in 1 .. k + 1 PROVE m_lineOffsets[l] <= x
  <2>1. /\ Len(p[0]) <= Len(p[x]) /\ \A j \in 1 .. Len(p[0]) : p[x][j] = p[0][j]
        /\ \A j \in Len(p[0]) + 1 .. Len(p[x]) : p[x][j] \in 1 .. x
    <3>1. 0 \in 0 .. M /\ 0 <= x /\ 0 + 1 = 1 BY <1>1, <1>8
    <3>2. Grown(p, m_text, 0, x) BY <1>1, <1>2, <1>8, <3>1, OffsetFacts, PushesGrow
    <3> QED BY <3>1, <3>2 DEF Grown
  <2>2. p[0] = <<0>> /\ Len(<<0>>) = 1 BY <1>2 DEF Pushes
  <2>3. l = 1 \/ l \in 1 + 1 .. k + 1 BY <1>8
  <2>4. l = 1 => m_lineOffsets[l] = 0
    <3>1. 1 \in 1 .. 1 OBVIOUS
    <3> QED BY <1>11, <2>1, <2>2, <3>1
  <2>5. l \in 1 + 1 .. k + 1 => m_lineOffsets[l] \in 1 .. x BY <1>10, <1>11, <2>1, <2>2
  <2>6. m_lineOffsets[l] = 0 \/ m_lineOffsets[l] \in 1 .. x BY <2>3, <2>4, <2>5
  <2> QED BY <1>8, <2>6
<1>13. LineOf(x) = k
  <2>1. DOMAIN m_lineOffsets = 1 .. L BY <1>2, <1>7, <1>8, LenProperties
  <2>2. {l \in DOMAIN m_lineOffsets : m_lineOffsets[l] <= x} = 1 .. k + 1
    <3>1. ASSUME NEW l \in 1 .. L, m_lineOffsets[l] <= x PROVE l \in 1 .. k + 1
      <4>1. l \in 1 .. k + 1 \/ l \in k + 2 .. L BY <1>8
      <4>2. ASSUME l \in k + 2 .. L PROVE FALSE
        <5>1. m_lineOffsets[l] \in x + 1 .. M BY <1>11, <4>2
        <5> QED BY <1>8, <3>1, <5>1
      <4> QED BY <4>1, <4>2
    <3>2. \A l \in 1 .. k + 1 : l \in 1 .. L BY <1>8, <1>11
    <3> QED BY <1>12, <2>1, <3>1, <3>2
  <2>3. Cardinality(1 .. k + 1) = k + 1
    <3>1. 1 <= k + 1 /\ k + 1 - 1 + 1 = k + 1 /\ k + 1 \in Int BY <1>8
    <3> QED BY <3>1, FS_Interval
  <2>4. LineOf(x) = Cardinality(1 .. k + 1) - 1 BY <2>2 DEF LineOf
  <2> QED BY <1>8, <2>3, <2>4
<1>14. k + 1 \in 1 .. k + 1 /\ k <= Breaks(N)
  <2>1. Breaks(N) \in Nat BY <1>6, <1>1, BreakFacts DEF Places
  <2> QED BY <1>8, <1>9, <1>11, <2>1
<1> QED BY <1>1, <1>7, <1>9, <1>10, <1>11, <1>13, <1>14

-----------------------------------------------------------------------------
(* The two walks.                                                          *)

\* A walk that adds up numbers until it is done, and is done in the end.
Adds(f, S, done, base, add, next) ==
    /\ f \in [S -> Nat]
    /\ \A x \in S : f[x] = IF done[x] THEN base[x] ELSE add[x] + f[next[x]]
LEMMA WalkExists ==
    ASSUME NEW S, NEW M \in Nat, NEW left \in [S -> 0 .. M], NEW done \in [S -> BOOLEAN],
           NEW base \in [S -> Nat], NEW add \in [S -> Nat], NEW next \in [S -> S],
           \A x \in S : ~done[x] => left[next[x]] < left[x]
    PROVE  \E f : Adds(f, S, done, base, add, next)
<1> DEFINE Value(g, x) == IF done[x] THEN base[x] ELSE add[x] + g[next[x]]
<1>0. M + 2 \in Nat OBVIOUS
<1>1. PICK V, n : V = [S -> Nat] /\ n = M + 2 /\ n \in Nat BY <1>0
<1>2. PICK step : step = [a \in V \X (1 .. n) |-> [x \in S |-> Value(a[1], x)]] OBVIOUS
<1>3. \A g \in V : [x \in S |-> Value(g, x)] \in V
  <2> TAKE g \in V
  <2>1. \A x \in S : add[x] \in Nat /\ base[x] \in Nat /\ g[next[x]] \in Nat BY <1>1
  <2>2. \A x \in S : add[x] + g[next[x]] \in Nat BY <2>1
  <2>3. \A x \in S : Value(g, x) \in Nat BY <2>1, <2>2
  <2> QED BY <1>1, <2>3
<1>4. step \in [V \X (1 .. n) -> V]
  <2> HIDE DEF Value
  <2>1. \A a \in V \X (1 .. n) : a[1] \in V OBVIOUS
  <2> QED BY <1>2, <1>3, <2>1
<1>5. PICK b : b \in V
  <2>1. [x \in S |-> 0] \in V BY <1>1
  <2> QED BY <2>1
<1>6. PICK h : IsRun(h, n, V, b, step) BY <1>1, <1>4, <1>5, LoopRuns
<1>7. ASSUME NEW i \in 1 .. n PROVE h[i] = [x \in S |-> Value(h[i - 1], x)] /\ h[i] \in V
  <2> HIDE DEF Value
  <2>1. i - 1 \in 0 .. n /\ i \in 0 .. n BY <1>1
  <2>2. h[i] = step[<<h[i - 1], i>>] /\ h[i - 1] \in V /\ h[i] \in V BY <1>6, <2>1 DEF IsRun
  <2>3. <<h[i - 1], i>> \in V \X (1 .. n) BY <2>2
  <2> QED BY <1>2, <2>2, <2>3
<1> DEFINE Stable(k) == \A x \in S : left[x] < k => h[k + 1][x] = h[k][x]
           bad == {k \in 0 .. M + 1 : ~Stable(k)}
<1>8. bad = {}
  <2> SUFFICES ASSUME bad # {} PROVE FALSE OBVIOUS
  <2>1. bad \in SUBSET Nat OBVIOUS
  <2>2. PICK k \in bad : \A j \in bad : k <= j BY <2>1, SmallestOf
  <2>3. k \in 0 .. M + 1 /\ ~Stable(k) OBVIOUS
  <2>4. Stable(0)
    <3>1. \A x \in S : ~(left[x] < 0) OBVIOUS
    <3> QED BY <3>1
  <2> HIDE DEF Stable
  <2>5. k \in 1 .. M + 1 /\ k - 1 \in 0 .. M + 1 /\ ~(k <= k - 1)
    <3>1. k # 0 BY <2>3, <2>4
    <3> QED BY <2>3, <3>1
  <2>6. Stable(k - 1) BY <2>2, <2>5
  <2> USE DEF Stable
  <2>7. \A x \in S : left[x] < k => h[k + 1][x] = h[k][x]
    <3> TAKE x \in S
    <3> SUFFICES ASSUME left[x] < k PROVE h[k + 1][x] = h[k][x] OBVIOUS
    <3>1. k \in 1 .. n /\ k + 1 \in 1 .. n /\ k + 1 - 1 = k /\ k - 1 + 1 = k BY <1>1, <2>5
    <3>2. h[k + 1][x] = Value(h[k], x) /\ h[k][x] = Value(h[k - 1], x)
      <4> HIDE DEF Value
      <4>1. h[k + 1] = [y \in S |-> Value(h[k], y)] BY <1>7, <3>1
      <4>2. h[k] = [y \in S |-> Value(h[k - 1], y)] BY <1>7, <3>1
      <4> QED BY <4>1, <4>2
    <3>3. CASE done[x] BY <3>2, <3>3
    <3>4. CASE ~done[x]
      <4>1. next[x] \in S /\ left[next[x]] < left[x] /\ left[next[x]] \in Nat /\ left[x] \in Nat BY <3>4
      <4>2. left[next[x]] < k - 1 BY <2>5, <4>1
      <4>3. h[k][next[x]] = h[k - 1][next[x]] BY <2>6, <3>1, <4>1, <4>2
      <4> QED BY <3>2, <3>4, <4>3
    <3> QED BY <3>3, <3>4
  <2> QED BY <2>3, <2>7
<1>9. PICK f : f = h[M + 1] OBVIOUS
<1>10. M + 1 \in 1 .. n /\ M + 2 \in 1 .. n /\ M + 2 - 1 = M + 1 /\ M + 1 + 1 = M + 2 BY <1>1
<1>11. f \in [S -> Nat] BY <1>1, <1>7, <1>9, <1>10
<1>12. \A x \in S : f[x] = Value(f, x)
  <2> TAKE x \in S
  <2>1. left[x] < M + 1 OBVIOUS
  <2>2. M + 1 \in 0 .. M + 1 OBVIOUS
  <2>3. h[M + 2][x] = h[M + 1][x] BY <1>8, <1>10, <2>1, <2>2
  <2> HIDE DEF Value
  <2>4. h[M + 2] = [y \in S |-> Value(f, y)] BY <1>7, <1>9, <1>10
  <2> QED BY <1>9, <2>3, <2>4
<1> QED BY <1>11, <1>12 DEF Adds

CountSays(g, end, o) ==
    IF o >= end THEN 0 ELSE Units(m_text[o + 1]) + g[o + Width(m_text[o + 1])]

\* utf16Len counts the characters between two places.
LEMMA UnitsBetween ==
    ASSUME TextOK, NEW a \in Places, NEW b \in Places, a <= b
    PROVE  Utf16Len(OffsetOf(a), OffsetOf(b)) = b - a
<1>1. PICK N, M : N = Len(chars) /\ N \in Nat /\ M = Len(m_text) /\ M \in Nat
  BY OffsetFacts, LenProperties DEF TextOK
<1>2. a \in 0 .. N /\ b \in 0 .. N BY <1>1 DEF Places
<1>3. PICK end : end = OffsetOf(b) OBVIOUS
<1>4. end \in Nat /\ end <= M
  <2>1. N \in Places /\ (b = N \/ b < N) BY <1>1, <1>2 DEF Places
  <2>2. OffsetOf(b) \in Nat /\ OffsetOf(N) = M BY <1>1, <2>1, OffsetFacts
  <2>3. OffsetOf(b) = M \/ OffsetOf(b) < M BY <2>1, <2>2, OffsetGrows
  <2> QED BY <1>1, <1>3, <2>2, <2>3
<1>5. ASSUME NEW o \in Nat, ~(o >= end)
      PROVE  Units(m_text[o + 1]) \in Nat /\ o + Width(m_text[o + 1]) \in Nat
             /\ Width(m_text[o + 1]) \in 1 .. 4
  <2>1. o + 1 \in 1 .. M BY <1>1, <1>4, <1>5
  <2>2. m_text[o + 1] \in Byte BY <1>1, <2>1, OffsetFacts, ElementOfSeq
  <2>3. Units(m_text[o + 1]) = 1 /\ Width(m_text[o + 1]) \in 1 .. 4 BY <2>2, OneUnit
  <2> QED BY <2>3
<1>6. \E g : g = [o \in Nat |-> CountSays(g, end, o)]
  <2>1. PICK left : left = [o \in Nat |-> IF o >= end THEN 0 ELSE end - o] OBVIOUS
  <2>2. PICK done : done = [o \in Nat |-> o >= end] OBVIOUS
  <2>3. PICK base : base = [o \in Nat |-> 0] OBVIOUS
  <2>4. PICK add : add = [o \in Nat |-> IF o >= end THEN 0 ELSE Units(m_text[o + 1])] OBVIOUS
  <2>5. PICK next : next = [o \in Nat |-> IF o >= end THEN o ELSE o + Width(m_text[o + 1])] OBVIOUS
  <2>6. left \in [Nat -> 0 .. end] /\ done \in [Nat -> BOOLEAN] /\ base \in [Nat -> Nat]
    BY <1>4, <2>1, <2>2, <2>3
  <2>7. add \in [Nat -> Nat] /\ next \in [Nat -> Nat] BY <1>5, <2>4, <2>5
  <2>8. \A o \in Nat : ~done[o] => left[next[o]] < left[o]
    <3> TAKE o \in Nat
    <3> SUFFICES ASSUME ~done[o] PROVE left[next[o]] < left[o] OBVIOUS
    <3>1. ~(o >= end) BY <2>2
    <3>2. PICK w : w = Width(m_text[o + 1]) OBVIOUS
    <3>3. w \in 1 .. 4 /\ next[o] = o + w /\ left[o] = end - o BY <1>5, <2>1, <2>5, <3>1, <3>2
    <3>4. left[o + w] = IF o + w >= end THEN 0 ELSE end - (o + w) BY <2>1, <3>3
    <3> QED BY <1>4, <3>1, <3>3, <3>4
  <2>9. PICK g : Adds(g, Nat, done, base, add, next) BY <1>4, <2>6, <2>7, <2>8, WalkExists
  <2>10. \A o \in Nat : g[o] = CountSays(g, end, o) /\ g \in [Nat -> Nat]
    BY <2>2, <2>3, <2>4, <2>5, <2>9 DEF Adds, CountSays
  <2>11. g = [o \in Nat |-> CountSays(g, end, o)] BY <2>10
  <2> QED BY <2>11
<1>7. PICK c : c = CHOOSE g : g = [o \in Nat |-> CountSays(g, end, o)] OBVIOUS
<1>8. c = [o \in Nat |-> CountSays(c, end, o)] BY <1>6, <1>7
<1>9. \A s : Utf16Len(s, end) = c[s] BY <1>7 DEF Utf16Len, CountSays
<1> DEFINE bad == {d \in 0 .. b : c[OffsetOf(b - d)] # d}
<1>10. bad = {}
  <2> SUFFICES ASSUME bad # {} PROVE FALSE OBVIOUS
  <2>1. bad \in SUBSET Nat OBVIOUS
  <2>2. PICK d \in bad : \A k \in bad : d <= k BY <2>1, SmallestOf
  <2>3. d \in 0 .. b /\ c[OffsetOf(b - d)] # d OBVIOUS
  <2>4. c[OffsetOf(b)] = 0
    <3>1. end >= end BY <1>4
    <3>2. c[end] = CountSays(c, end, end) BY <1>4, <1>8
    <3> QED BY <1>3, <3>1, <3>2 DEF CountSays
  <2>5. d \in 1 .. b /\ d - 1 \in 0 .. b /\ ~(d <= d - 1)
    <3>1. b - 0 = b BY <1>2
    <3>2. d # 0 BY <2>3, <2>4, <3>1
    <3> QED BY <1>2, <2>3, <3>2
  <2>6. c[OffsetOf(b - (d - 1))] = d - 1 BY <2>2, <2>5
  <2>7. PICK n : n = b - d + 1 OBVIOUS
  <2>8. n \in 1 .. N /\ b - (d - 1) = n /\ b - d = n - 1 /\ n - 1 < b BY <1>1, <1>2, <2>5, <2>7
  <2>9. PICK x : x = OffsetOf(n - 1) OBVIOUS
  <2>10. /\ x \in Nat /\ x < end /\ Units(m_text[x + 1]) = 1
         /\ x + Width(m_text[x + 1]) = OffsetOf(n)
    BY <1>1, <1>3, <2>8, <2>9, PlaceReads, OffsetFacts, OffsetGrows
  <2>11. c[x] = CountSays(c, end, x) /\ ~(x >= end) BY <1>4, <1>8, <2>10
  <2>12. c[x] = 1 + (d - 1) BY <2>6, <2>8, <2>10, <2>11 DEF CountSays
  <2> QED BY <2>3, <2>5, <2>8, <2>9, <2>12
<1>11. b - a \in 0 .. b /\ b - (b - a) = a BY <1>2
<1>12. c[OffsetOf(a)] = b - a BY <1>10, <1>11
<1> QED BY <1>3, <1>9, <1>12

WalkSays(g, column, at) ==
    IF Stops(at[1], at[2], column) THEN at[1]
    ELSE g[<<at[1] + Width(m_text[at[1] + 1]), at[2] + Units(m_text[at[1] + 1])>>]

\* positionToOffset walks from the start of a line to the column, to the end of
\* the line or to the end of the text.
LEMMA WalkStops ==
    ASSUME TextOK, NEW s \in Places, NEW e \in Places, NEW column \in Nat, NEW line \in Nat,
           s <= e, e <= s + column, \A i \in s + 1 .. e : chars[i] # LF,
           e = Len(chars) \/ e = s + column \/ chars[e + 1] = LF,
           line < Len(m_lineOffsets), m_lineOffsets[line + 1] = OffsetOf(s)
    PROVE  PositionToOffset([line |-> line, character |-> column]) = OffsetOf(e)
<1>1. PICK N, M : N = Len(chars) /\ N \in Nat /\ M = Len(m_text) /\ M \in Nat
  BY OffsetFacts, LenProperties DEF TextOK
<1>2. s \in 0 .. N /\ e \in 0 .. N /\ \A n \in 0 .. N : OffsetOf(n) \in Nat
  BY <1>1, OffsetFacts DEF Places
<1> DEFINE Two == Nat \X Nat
           Done(at) == Stops(at[1], at[2], column)
           Then(at) == <<at[1] + Width(m_text[at[1] + 1]), at[2] + Units(m_text[at[1] + 1])>>
<1>3. ASSUME NEW at \in Two, ~Done(at)
      PROVE  at[1] < M /\ Then(at) \in Two /\ Then(at)[1] > at[1]
  <2>1. at[1] \in Nat /\ at[2] \in Nat OBVIOUS
  <2>2. ~(at[1] >= M) BY <1>1, <1>3 DEF Stops
  <2>3. at[1] + 1 \in 1 .. M BY <1>1, <2>1, <2>2
  <2>4. m_text[at[1] + 1] \in Byte BY <1>1, <2>3, OffsetFacts, ElementOfSeq
  <2>5. PICK u, w : u = Units(m_text[at[1] + 1]) /\ w = Width(m_text[at[1] + 1]) OBVIOUS
  <2>6. u = 1 /\ w \in 1 .. 4 BY <2>4, <2>5, OneUnit
  <2>7. at[1] + w \in Nat /\ at[2] + u \in Nat /\ at[1] + w > at[1] BY <2>1, <2>6
  <2> QED BY <1>1, <2>1, <2>2, <2>5, <2>7
<1>4. \E g : g = [at \in Two |-> WalkSays(g, column, at)]
  <2>1. PICK left : left = [at \in Two |-> IF at[1] >= M THEN 0 ELSE M - at[1]] OBVIOUS
  <2>2. PICK done : done = [at \in Two |-> IF Done(at) THEN TRUE ELSE FALSE] OBVIOUS
  <2>3. PICK base : base = [at \in Two |-> at[1]] OBVIOUS
  <2>4. PICK add : add = [at \in Two |-> 0] OBVIOUS
  <2>5. PICK next : next = [at \in Two |-> IF Done(at) THEN at ELSE Then(at)] OBVIOUS
  <2>6. left \in [Two -> 0 .. M] /\ base \in [Two -> Nat] /\ add \in [Two -> Nat]
    BY <1>1, <2>1, <2>3, <2>4
  <2>7. done \in [Two -> BOOLEAN] BY <2>2
  <2>8. next \in [Two -> Two]
    <3> HIDE DEF Done, Then, Two
    <3> QED BY <1>3, <2>5
  <2>9. \A at \in Two : ~done[at] => left[next[at]] < left[at]
    <3> TAKE at \in Two
    <3> SUFFICES ASSUME ~done[at] PROVE left[next[at]] < left[at] OBVIOUS
    <3>1. ~Done(at) BY <2>2
    <3>2. PICK t : t = Then(at) OBVIOUS
    <3> HIDE DEF Done, Then
    <3>3. at[1] < M /\ t \in Two /\ t[1] > at[1] /\ next[at] = t BY <1>3, <2>5, <3>1, <3>2
    <3>4. left[t] = (IF t[1] >= M THEN 0 ELSE M - t[1]) /\ left[at] = (IF at[1] >= M THEN 0 ELSE M - at[1])
      BY <2>1, <3>3
    <3>5. at[1] \in Nat /\ t[1] \in Nat BY <3>3
    <3> QED BY <1>1, <3>3, <3>4, <3>5
  <2> HIDE DEF Two
  <2>10. PICK g : Adds(g, Two, done, base, add, next) BY <1>1, <2>6, <2>7, <2>8, <2>9, WalkExists
  <2>11. g \in [Two -> Nat] BY <2>10 DEF Adds
  <2>12. ASSUME NEW at \in Two PROVE g[at] = WalkSays(g, column, at)
    <3>1. g[at] = IF done[at] THEN base[at] ELSE add[at] + g[next[at]] BY <2>10 DEF Adds
    <3>2. CASE Done(at)
      <4>1. done[at] /\ base[at] = at[1] BY <2>2, <2>3, <3>2
      <4> QED BY <3>1, <3>2, <4>1 DEF WalkSays
    <3>3. CASE ~Done(at)
      <4>1. ~done[at] /\ add[at] = 0 /\ next[at] = Then(at) /\ g[next[at]] \in Nat
        BY <2>2, <2>4, <2>5, <2>8, <2>11, <3>3
      <4>2. g[at] = g[Then(at)] BY <3>1, <4>1
      <4> QED BY <3>3, <4>2 DEF WalkSays
    <3> QED BY <3>2, <3>3
  <2>13. g = [at \in Two |-> WalkSays(g, column, at)] BY <2>11, <2>12
  <2> QED BY <2>13
<1>5. PICK c : c = CHOOSE g : g = [at \in Two |-> WalkSays(g, column, at)] OBVIOUS
<1>6. c = [at \in Two |-> WalkSays(c, column, at)] BY <1>4, <1>5
<1>7. PositionToOffset([line |-> line, character |-> column]) = c[<<OffsetOf(s), 0>>]
  <2>1. ~(line >= Len(m_lineOffsets))
    <3>1. PICK L : L = Len(m_lineOffsets) OBVIOUS
    <3>2. L \in Int
      <4>1. Len(chars) \in Places /\ Breaks(Len(chars)) \in Nat BY <1>1, BreakFacts DEF Places
      <4>2. L = Breaks(Len(chars)) + 1 BY <3>1, <4>1, LineStarts
      <4> QED BY <4>1, <4>2
    <3>3. line < L BY <3>1
    <3> QED BY <3>1, <3>2, <3>3
  <2> QED BY <1>5, <2>1 DEF PositionToOffset, WalkSays
<1> PICK bad : bad = {d \in 0 .. e - s : c[<<OffsetOf(e - d), e - d - s>>] # OffsetOf(e)} OBVIOUS
<1> HIDE DEF Done, Then
<1>8. bad = {}
  <2> SUFFICES ASSUME bad # {} PROVE FALSE OBVIOUS
  <2>1. bad \in SUBSET Nat OBVIOUS
  <2>2. PICK d : d \in bad /\ \A k \in bad : d <= k BY <2>1, SmallestOf
  <2>3. d \in 0 .. e - s /\ c[<<OffsetOf(e - d), e - d - s>>] # OffsetOf(e) BY <2>2
  <2> HIDE DEF Two
  <2>4. PICK i, x, u : i = e - d /\ x = OffsetOf(i) /\ u = i - s OBVIOUS
  <2>5. i \in 0 .. N /\ i \in s .. e /\ u \in Nat /\ x \in Nat BY <1>1, <1>2, <2>3, <2>4
  <2>6. c[<<x, u>>] = WalkSays(c, column, <<x, u>>) /\ c[<<x, u>>] # OffsetOf(e)
    <3>1. <<x, u>> \in Two BY <2>5 DEF Two
    <3> QED BY <1>6, <2>3, <2>4, <3>1
  <2>7. CASE d = 0
    <3>1. i = e /\ e \in 0 .. N BY <1>2, <2>4, <2>7
    <3>2. CASE e = N
      <4>1. x >= M BY <1>1, <2>4, <3>1, <3>2, OffsetFacts
      <4> QED BY <1>1, <2>4, <2>6, <3>1, <4>1 DEF WalkSays, Stops
    <3>3. CASE e = s + column
      <4>1. u >= column BY <1>2, <2>4, <3>1, <3>3
      <4> QED BY <1>1, <2>4, <2>6, <3>1, <4>1 DEF WalkSays, Stops
    <3>4. CASE e # N /\ chars[e + 1] = LF
      <4>0. e \in 0 .. N /\ e # N BY <1>2, <3>4
      <4>1. e + 1 \in 1 .. N /\ e + 1 - 1 = e BY <1>1, <4>0
      <4>2. m_text[x + 1] = 10 BY <1>1, <2>4, <3>1, <3>4, <4>1, PlaceReads
      <4> QED BY <2>4, <2>6, <3>1, <4>2 DEF WalkSays, Stops
    <3> QED BY <1>1, <3>2, <3>3, <3>4
  <2>8. CASE d # 0
    <3>1. d - 1 \in 0 .. e - s /\ ~(d <= d - 1) BY <1>2, <2>3, <2>8
    <3>2. c[<<OffsetOf(e - (d - 1)), e - (d - 1) - s>>] = OffsetOf(e) BY <2>2, <3>1
    <3>3. PICK j : j = i + 1 OBVIOUS
    <3>4. j \in 1 .. N /\ j - 1 = i /\ e - (d - 1) = j /\ j - s = u + 1 /\ j \in s + 1 .. e
      BY <1>1, <1>2, <2>3, <2>4, <2>5, <2>8, <3>3
    <3>5. chars[j] # LF /\ c[<<OffsetOf(j), u + 1>>] = OffsetOf(e) BY <3>2, <3>4
    <3>6. /\ x < M /\ m_text[x + 1] # 10 /\ Units(m_text[x + 1]) = 1
          /\ x + Width(m_text[x + 1]) = OffsetOf(j)
      BY <1>1, <2>4, <3>4, <3>5, PlaceReads
    <3>7. ~Stops(x, u, column)
      <4>1. ~(x >= M) BY <1>1, <2>5, <3>6
      <4>2. e - s <= column BY <1>1, <1>2
      <4>3. u + 1 <= e - s BY <1>1, <1>2, <2>5, <3>4
      <4>4. e - s \in Int /\ column \in Int /\ u \in Int BY <1>1, <1>2, <2>5
      <4>5. ~(u >= column) /\ ~(u + 1 > column) BY <4>2, <4>3, <4>4
      <4> QED BY <1>1, <3>6, <4>1, <4>5 DEF Stops
    <3>8. c[<<x, u>>] = c[<<OffsetOf(j), u + 1>>] BY <2>6, <3>6, <3>7 DEF WalkSays
    <3> QED BY <2>6, <3>5, <3>8
  <2> QED BY <2>7, <2>8
<1>9. e - s \in 0 .. e - s /\ e - (e - s) = s /\ s - s = 0 BY <1>2
<1>10. c[<<OffsetOf(s), 0>>] = OffsetOf(e) BY <1>8, <1>9
<1> QED BY <1>7, <1>10

-----------------------------------------------------------------------------
(* Positions.                                                              *)

\* The server's position of a place counts the characters since the line break.
LEMMA PositionCounts ==
    ASSUME TextOK, NEW n \in Places
    PROVE  OffsetToPosition(OffsetOf(n)) = [line |-> Breaks(n), character |-> n - LfStart(n)]
<1>1. PICK N : N = Len(chars) /\ N \in Nat BY LenProperties DEF TextOK
<1>2. n \in 0 .. N /\ LfStart(n) \in 0 .. n BY <1>1, BreakFacts DEF Places
<1>3. LfStart(n) \in Places /\ LfStart(n) <= n BY <1>1, <1>2 DEF Places
<1>4. LineOf(OffsetOf(n)) = Breaks(n) /\ m_lineOffsets[Breaks(n) + 1] = OffsetOf(LfStart(n))
  BY LineStarts
<1>5. Utf16Len(OffsetOf(LfStart(n)), OffsetOf(n)) = n - LfStart(n) BY <1>3, UnitsBetween
<1> QED BY <1>4, <1>5 DEF OffsetToPosition

LEMMA TextOKRoundTrips == ASSUME TextOK PROVE RoundTrip
<1>1. PICK N : N = Len(chars) /\ N \in Nat BY LenProperties DEF TextOK
<1> SUFFICES ASSUME NEW n \in Places PROVE PositionToOffset(OffsetToPosition(OffsetOf(n))) = OffsetOf(n)
  BY DEF RoundTrip
<1>2. PICK s, l, c : s = LfStart(n) /\ l = Breaks(n) /\ c = n - s OBVIOUS
<1>3. n \in 0 .. N /\ s \in 0 .. n /\ l \in Nat /\ \A i \in s + 1 .. n : chars[i] # LF
  BY <1>1, <1>2, BreakFacts DEF Places
<1>4. s \in Places /\ s <= n /\ c \in Nat /\ n <= s + c /\ n = s + c BY <1>1, <1>2, <1>3 DEF Places
<1>5. l < Len(m_lineOffsets) /\ m_lineOffsets[l + 1] = OffsetOf(s)
  <2>1. N \in Places BY <1>1 DEF Places
  <2>2. PICK m : m = Breaks(N) OBVIOUS
  <2>3. m \in Nat /\ l <= m /\ Len(m_lineOffsets) = m + 1 /\ m_lineOffsets[l + 1] = OffsetOf(s)
    BY <1>1, <1>2, <2>1, <2>2, BreakFacts, LineStarts
  <2> QED BY <1>3, <2>3
<1>6. PositionToOffset([line |-> l, character |-> c]) = OffsetOf(n)
  BY <1>3, <1>4, <1>5, WalkStops
<1> QED BY <1>2, <1>6, PositionCounts

\* The places of a line follow each other from its start to its end.
Spans(l, s, e) ==
    /\ s \in Places /\ e \in Places /\ s <= e /\ {n \in Places : Breaks(n) = l} = s .. e
    /\ \A n \in s .. e : LfStart(n) = s
    /\ \A i \in s + 1 .. e : chars[i] # LF
    /\ e # Len(chars) => chars[e + 1] = LF
LEMMA LinesSpan ==
    ASSUME TextOK, NEW l \in 0 .. Breaks(Len(chars))
    PROVE  \E s, e : Spans(l, s, e)
<1>1. PICK N : N = Len(chars) /\ N \in Nat BY LenProperties DEF TextOK
<1>2. PICK B : B = [n \in 0 .. N |-> Breaks(n)] OBVIOUS
<1>3. /\ B \in [0 .. N -> Nat] /\ B[0] = 0 /\ l \in 0 .. B[N]
      /\ \A n \in 1 .. N : B[n] = IF chars[n] = LF THEN B[n - 1] + 1 ELSE B[n - 1]
  <2>1. \A n \in 0 .. N : B[n] = Breaks(n) /\ Breaks(n) \in Nat BY <1>1, <1>2, BreakFacts DEF Places
  <2>2. 0 \in 0 .. N /\ N \in 0 .. N /\ \A n \in 1 .. N : n \in 0 .. N /\ n - 1 \in 0 .. N BY <1>1
  <2>3. \A n \in 1 .. N : Breaks(n) = IF chars[n] = LF THEN Breaks(n - 1) + 1 ELSE Breaks(n - 1)
    BY <1>1, BreakFacts
  <2>4. B \in [0 .. N -> Nat] BY <1>2, <2>1
  <2> QED BY <1>1, <2>1, <2>2, <2>3, <2>4, BreakFacts
<1>4. PICK above : above = {n \in 0 .. N : B[n] >= l} OBVIOUS
<1>5. above \in SUBSET Nat /\ above # {} BY <1>1, <1>3, <1>4
<1>6. PICK s : s \in above /\ \A k \in above : s <= k BY <1>5, SmallestOf
<1>7. s \in 0 .. N /\ B[s] = l /\ (s # 0 => chars[s] = LF) /\ \A k \in 0 .. N : k < s => B[k] < l
  <2>1. s \in 0 .. N /\ B[s] >= l BY <1>4, <1>6
  <2>2. \A k \in 0 .. N : k < s => B[k] < l
    <3> TAKE k \in 0 .. N
    <3> SUFFICES ASSUME k < s PROVE B[k] < l OBVIOUS
    <3>1. ~(s <= k) BY <1>1, <2>1
    <3>2. ~(B[k] >= l) BY <1>4, <1>6, <3>1
    <3>3. B[k] \in Nat /\ l \in Int BY <1>1, <1>3
    <3> QED BY <3>2, <3>3
  <2>3. CASE s = 0 BY <1>3, <2>1, <2>2, <2>3
  <2>4. CASE s # 0
    <3>1. s \in 1 .. N /\ s - 1 \in 0 .. N /\ s - 1 < s BY <1>1, <2>1, <2>4
    <3>2. PICK x, y : x = B[s - 1] /\ y = B[s] OBVIOUS
    <3>3. x \in Nat /\ y \in Nat /\ x < l /\ y >= l BY <1>3, <2>1, <2>2, <3>1, <3>2
    <3>4. y = IF chars[s] = LF THEN x + 1 ELSE x BY <1>3, <3>1, <3>2
    <3>5. l \in Int BY <1>3, <1>1
    <3>6. chars[s] = LF /\ y = l BY <3>3, <3>4, <3>5
    <3> QED BY <2>1, <2>2, <3>2, <3>6
  <2> QED BY <2>3, <2>4
<1>8. PICK on : on = {n \in 0 .. N : n >= s /\ \A i \in s + 1 .. n : chars[i] # LF} OBVIOUS
<1>9. on \in SUBSET Nat /\ on # {} /\ \A n \in on : n <= N
  <2>1. s >= s /\ \A i \in s + 1 .. s : FALSE BY <1>1, <1>7
  <2>2. s \in on BY <1>7, <1>8, <2>1
  <2> QED BY <1>1, <1>8, <2>2
<1>10. PICK e : e \in on /\ \A k \in on : k <= e BY <1>1, <1>9, LargestOf
<1>11. e \in 0 .. N /\ s \in 0 .. N /\ s <= e /\ \A i \in s + 1 .. e : chars[i] # LF
  BY <1>1, <1>7, <1>8, <1>10
<1>12. e # N => chars[e + 1] = LF
  <2> SUFFICES ASSUME e # N, chars[e + 1] # LF PROVE FALSE OBVIOUS
  <2>1. e + 1 \in 0 .. N /\ e + 1 >= s /\ ~(e + 1 <= e) BY <1>1, <1>11
  <2>2. \A i \in s + 1 .. e + 1 : chars[i] # LF
    <3>1. \A i \in s + 1 .. e + 1 : i = e + 1 \/ i \in s + 1 .. e BY <1>1, <1>11
    <3> QED BY <1>11, <3>1
  <2>3. e + 1 \in on BY <1>8, <2>1, <2>2
  <2> QED BY <1>10, <2>1, <2>3
<1>13. \A n \in s .. e : B[n] = l
  <2> DEFINE bad == {n \in s .. e : B[n] # l}
  <2>1. SUFFICES ASSUME bad # {} PROVE FALSE OBVIOUS
  <2>2. bad \in SUBSET Nat BY <1>1, <1>11
  <2>3. PICK n : n \in bad /\ \A k \in bad : n <= k BY <2>1, <2>2, SmallestOf
  <2>4. n \in s .. e /\ B[n] # l BY <2>3
  <2>5. n # s BY <1>7, <2>4
  <2>6. n \in 1 .. N /\ n - 1 \in s .. e /\ n \in s + 1 .. e /\ ~(n <= n - 1) BY <1>1, <1>11, <2>4, <2>5
  <2>7. B[n - 1] = l BY <2>3, <2>6
  <2>8. chars[n] # LF BY <1>11, <2>6
  <2> QED BY <1>3, <2>4, <2>6, <2>7, <2>8
<1>14. \A n \in 0 .. N : n > e => B[n] > l
  <2> DEFINE bad == {n \in 0 .. N : n > e /\ ~(B[n] > l)}
  <2>1. SUFFICES ASSUME bad # {} PROVE FALSE OBVIOUS
  <2>2. bad \in SUBSET Nat OBVIOUS
  <2>3. PICK n : n \in bad /\ \A k \in bad : n <= k BY <2>1, <2>2, SmallestOf
  <2>4. n \in 0 .. N /\ n > e /\ ~(B[n] > l) BY <2>3
  <2>5. n \in 1 .. N /\ n - 1 \in 0 .. N /\ ~(n <= n - 1) /\ (n - 1 = e \/ n - 1 > e)
    BY <1>1, <1>11, <2>4
  <2>6. PICK x, y : x = B[n - 1] /\ y = B[n] OBVIOUS
  <2>7. x \in Nat /\ y \in Nat /\ l \in Int /\ y = IF chars[n] = LF THEN x + 1 ELSE x
    <3>1. B[N] \in Nat BY <1>1, <1>3
    <3> QED BY <1>3, <2>4, <2>5, <2>6, <3>1
  <2>8. CASE n - 1 = e
    <3>1. e # N /\ e + 1 = n BY <1>1, <1>11, <2>5, <2>8
    <3>2. x = l /\ chars[n] = LF
      <4>1. e \in s .. e BY <1>1, <1>11
      <4> QED BY <1>12, <1>13, <2>6, <2>8, <3>1, <4>1
    <3>3. y > l BY <2>7, <3>2
    <3> QED BY <2>4, <2>6, <3>3
  <2>9. CASE n - 1 > e
    <3>1. x > l BY <2>3, <2>5, <2>6, <2>9
    <3>2. y > l BY <2>7, <3>1
    <3> QED BY <2>4, <2>6, <3>2
  <2> QED BY <2>5, <2>8, <2>9
<1>15. {n \in Places : Breaks(n) = l} = s .. e
  <2>1. ASSUME NEW n \in 0 .. N PROVE B[n] = l <=> n \in s .. e
    <3>1. n \in Int /\ s \in Int /\ e \in Int /\ B[n] \in Int /\ l \in Int
      <4>1. B[N] \in Nat BY <1>1, <1>3
      <4> QED BY <1>1, <1>3, <1>11, <4>1
    <3>2. n < s => B[n] < l BY <1>7
    <3>3. n > e => B[n] > l BY <1>14
    <3>4. n < s \/ n > e \/ n \in s .. e BY <3>1
    <3>5. n \in s .. e => B[n] = l BY <1>13
    <3>6. n \in s .. e => ~(n < s) /\ ~(n > e) BY <3>1
    <3> QED BY <3>1, <3>2, <3>3, <3>4, <3>5, <3>6
  <2>2. \A n \in s .. e : n \in 0 .. N BY <1>1, <1>11
  <2> QED BY <1>1, <1>2, <2>1, <2>2 DEF Places
<1>16. \A n \in s .. e : LfStart(n) = s
  <2> TAKE n \in s .. e
  <2>1. n \in 0 .. N BY <1>1, <1>11
  <2>2. PICK t : t = LfStart(n) OBVIOUS
  <2>3. t \in 0 .. n /\ (t # 0 => chars[t] = LF) /\ \A i \in t + 1 .. n : chars[i] # LF
    BY <1>1, <2>1, <2>2, BreakFacts DEF Places
  <2>4. ~(t > s)
    <3> SUFFICES ASSUME t > s PROVE FALSE OBVIOUS
    <3>1. t \in s + 1 .. e /\ t # 0 BY <1>1, <1>11, <2>1, <2>3
    <3> QED BY <1>11, <2>3, <3>1
  <2>5. ~(t < s)
    <3> SUFFICES ASSUME t < s PROVE FALSE OBVIOUS
    <3>1. s \in t + 1 .. n /\ s # 0 BY <1>1, <1>11, <2>1, <2>3
    <3> QED BY <1>7, <2>3, <3>1
  <2>6. t \in Int /\ s \in Int BY <1>1, <1>11, <2>1, <2>3
  <2> QED BY <2>2, <2>4, <2>5, <2>6
<1>17. Spans(l, s, e)
  <2>1. s \in Places /\ e \in Places BY <1>1, <1>11 DEF Places
  <2> QED BY <1>1, <1>11, <1>12, <1>15, <1>16, <2>1 DEF Spans
<1> QED BY <1>17

Picked(s) == CHOOSE x \in s : TRUE
SumOver(S) == MapThenSumSet(LAMBDA i : Utf16(chars[i]), S)
SumSays(g, s) == IF s = {} THEN 0 ELSE Utf16(chars[Picked(s)]) + g[s \ {Picked(s)}]

\* A sum of ones counts.
LEMMA OnesSum ==
    ASSUME NEW S, IsFiniteSet(S), \A i \in S : Utf16(chars[i]) = 1
    PROVE  SumOver(S) = Cardinality(S)
<1>1. ASSUME NEW s \in SUBSET S PROVE IsFiniteSet(s) /\ Cardinality(s) \in Nat
  BY <1>1, FS_Subset, FS_CardinalityType
<1>2. ASSUME NEW s \in SUBSET S, s # {}
      PROVE  Picked(s) \in s /\ Cardinality(s) = Utf16(chars[Picked(s)]) + Cardinality(s \ {Picked(s)})
  <2>1. PICK x : x = Picked(s) OBVIOUS
  <2>2. x \in s BY <1>2, <2>1 DEF Picked
  <2>3. s \ {x} \in SUBSET S OBVIOUS
  <2>4. Cardinality(s \ {x}) = Cardinality(s) - 1 BY <1>1, <2>2, FS_RemoveElement
  <2>5. Cardinality(s) \in Nat /\ Utf16(chars[x]) = 1 BY <1>1, <2>2
  <2> QED BY <2>1, <2>2, <2>4, <2>5
<1>3. Cardinality({}) = 0 BY FS_EmptySet
<1>4. \E g : g = [s \in SUBSET S |-> SumSays(g, s)]
  <2>1. PICK g : g = [s \in SUBSET S |-> Cardinality(s)] OBVIOUS
  <2>2. ASSUME NEW s \in SUBSET S PROVE Cardinality(s) = SumSays(g, s)
    <3>1. CASE s = {} BY <1>3, <3>1 DEF SumSays
    <3>2. CASE s # {}
      <4>1. g[s \ {Picked(s)}] = Cardinality(s \ {Picked(s)}) BY <2>1
      <4> QED BY <1>2, <3>2, <4>1 DEF SumSays
    <3> QED BY <3>1, <3>2
  <2>3. g = [s \in SUBSET S |-> SumSays(g, s)] BY <2>1, <2>2
  <2> QED BY <2>3
<1>5. PICK a : a = CHOOSE g : g = [s \in SUBSET S |-> SumSays(g, s)] OBVIOUS
<1>6. a = [s \in SUBSET S |-> SumSays(a, s)] BY <1>4, <1>5
<1>7. SumOver(S) = a[S]
  <2>1. SumOver(S) = (CHOOSE g : g = [s \in SUBSET S |-> SumSays(g, s)])[S]
    BY DEF SumOver, MapThenSumSet, MapThenFoldSet, SumSays, Picked
  <2> QED BY <1>5, <2>1
<1>8. PICK bad : bad = {s \in SUBSET S : a[s] # Cardinality(s)} OBVIOUS
<1>9. bad = {}
  <2> SUFFICES ASSUME bad # {} PROVE FALSE OBVIOUS
  <2>1. PICK K : K = {Cardinality(s) : s \in bad} OBVIOUS
  <2>2. \A s \in bad : IsFiniteSet(s) /\ Cardinality(s) \in Nat BY <1>1, <1>8
  <2>3. K \in SUBSET Nat /\ K # {} BY <2>1, <2>2
  <2>4. PICK k \in K : \A m \in K : k <= m BY <2>3, SmallestOf
  <2>5. PICK s \in bad : k = Cardinality(s) BY <2>1
  <2>6. s \in SUBSET S /\ a[s] # Cardinality(s) BY <1>8
  <2>7. a[s] = SumSays(a, s) BY <1>6, <2>6
  <2>8. s # {} BY <1>3, <2>6, <2>7 DEF SumSays
  <2>9. PICK x : x = Picked(s) OBVIOUS
  <2>10. x \in s /\ Cardinality(s) = Utf16(chars[x]) + Cardinality(s \ {x}) BY <1>2, <2>6, <2>8, <2>9
  <2>11. Cardinality(s \ {x}) = k - 1 BY <2>2, <2>5, <2>10, FS_RemoveElement
  <2>12. s \ {x} \notin bad
    <3> SUFFICES ASSUME s \ {x} \in bad PROVE FALSE OBVIOUS
    <3>1. k <= k - 1 BY <2>1, <2>4, <2>11
    <3> QED BY <2>3, <2>4, <3>1
  <2>13. a[s \ {x}] = Cardinality(s \ {x}) BY <1>8, <2>6, <2>12
  <2> QED BY <2>6, <2>7, <2>8, <2>9, <2>10, <2>13 DEF SumSays
<1> QED BY <1>7, <1>8, <1>9

\* Without a lone "\r" the protocol's lines are those that the server counts.
LEMMA LinesAgree ==
    ASSUME TextOK, NoLoneReturn
    PROVE  /\ \A n \in Places : LineStart(n) = LfStart(n) /\ PositionOf(n).line = Breaks(n)
           /\ Lines = 0 .. Breaks(Len(chars))
<1>1. PICK N : N = Len(chars) /\ N \in Nat /\ DOMAIN chars = 1 .. N BY LenProperties DEF TextOK
<1>2. LF # CR BY DEF LF, CR
<1>3. \A i \in 1 .. N : EndsLine(i) <=> chars[i] = LF BY <1>1, <1>2 DEF EndsLine, NoLoneReturn
<1>4. ASSUME NEW n \in 0 .. N
      PROVE  {i \in 1 .. n : EndsLine(i)} = {i \in 1 .. n : chars[i] = LF}
  <2>1. \A i \in 1 .. n : i \in 1 .. N BY <1>1
  <2> QED BY <1>3, <2>1
<1>5. N \in 0 .. N BY <1>1
<1> QED BY <1>1, <1>4, <1>5 DEF Places, LineStart, LfStart, PositionOf, Lines, Breaks

\* On a line of the basic plane a place's column is its distance from the line's
\* start, which is what the server says.
LEMMA BasicPlace ==
    ASSUME TextOK, NoLoneReturn, NEW n \in Places
    PROVE  /\ PositionOf(n).line = Breaks(n)
           /\ Basic(n) => PositionOf(n) = [line |-> Breaks(n), character |-> n - LfStart(n)]
<1>1. PICK N : N = Len(chars) /\ N \in Nat BY LenProperties DEF TextOK
<1>2. PICK s : s = LfStart(n) /\ s = LineStart(n) BY LinesAgree
<1>3. n \in 0 .. N /\ s \in 0 .. n BY <1>1, <1>2, BreakFacts DEF Places
<1>4. PositionOf(n) = [line |-> Breaks(n), character |-> SumOver(s + 1 .. n)]
  <2>1. PositionOf(n).line = Breaks(n) BY LinesAgree
  <2> QED BY <1>2, <2>1 DEF PositionOf, SumOver
<1>5. ASSUME Basic(n) PROVE SumOver(s + 1 .. n) = n - s
  <2>1. \A i \in s + 1 .. n : Utf16(chars[i]) = 1 BY <1>2, <1>5 DEF Basic
  <2>2. s + 1 \in Int /\ n \in Int BY <1>1, <1>3
  <2>3. IsFiniteSet(s + 1 .. n) BY <2>2, FS_Interval
  <2>4. Cardinality(s + 1 .. n) = IF s + 1 <= n THEN n - (s + 1) + 1 ELSE 0 BY <2>2, FS_Interval
  <2>5. Cardinality(s + 1 .. n) = n - s BY <1>1, <1>3, <2>4
  <2> QED BY <2>1, <2>3, <2>5, OnesSum
<1> QED BY <1>2, <1>4, <1>5

\* The line l of the code is the one the places of Spans(l, s, e) are on.
LEMMA LineFacts ==
    ASSUME TextOK, NEW l \in 0 .. Breaks(Len(chars)), NEW s, NEW e, Spans(l, s, e)
    PROVE  /\ l \in Nat /\ l < Len(m_lineOffsets) /\ m_lineOffsets[l + 1] = OffsetOf(s)
           /\ l + 1 < Len(m_lineOffsets) <=> e # Len(chars)
           /\ e # Len(chars) => m_lineOffsets[l + 2] = OffsetOf(e + 1) /\ e + 1 \in 1 .. Len(chars)
           /\ e \in Nat /\ s \in Nat /\ e \in 0 .. Len(chars) /\ s \in 0 .. e
<1>1. PICK N, K : N = Len(chars) /\ N \in Nat /\ K = Breaks(N) /\ K \in Nat
  <2>1. Len(chars) \in Nat BY LenProperties DEF TextOK
  <2>2. Len(chars) \in Places BY <2>1 DEF Places
  <2>3. Breaks(Len(chars)) \in Nat BY <2>2, BreakFacts
  <2> QED BY <2>1, <2>3
<1>2. s \in 0 .. N /\ e \in 0 .. N /\ s <= e /\ \A n \in Places : Breaks(n) = l <=> n \in s .. e
  BY <1>1 DEF Spans, Places
<1>3. l \in 0 .. K /\ s \in s .. e /\ e \in s .. e BY <1>1, <1>2
<1>4. Breaks(s) = l /\ Breaks(e) = l /\ LfStart(s) = s BY <1>2, <1>3 DEF Spans
<1>5. Len(m_lineOffsets) = K + 1 /\ m_lineOffsets[l + 1] = OffsetOf(s)
  <2>1. s \in Places BY DEF Spans
  <2> QED BY <1>1, <1>4, <2>1, LineStarts
<1>6. e = N => l = K BY <1>1, <1>4
<1>7. ASSUME e # N
      PROVE  l < K /\ m_lineOffsets[l + 2] = OffsetOf(e + 1) /\ e + 1 \in 1 .. N
  <2>1. chars[e + 1] = LF BY <1>1, <1>7 DEF Spans
  <2>2. PICK j : j = e + 1 OBVIOUS
  <2>3. j \in 1 .. N /\ j \in Places /\ j - 1 = e BY <1>1, <1>2, <1>7, <2>2 DEF Places
  <2>4. Breaks(j) = l + 1 /\ LfStart(j) = j BY <1>1, <1>4, <2>1, <2>2, <2>3, BreakFacts
  <2>5. l + 1 <= K /\ m_lineOffsets[l + 1 + 1] = OffsetOf(j) BY <1>1, <2>3, <2>4, LineStarts
  <2>6. l + 1 + 1 = l + 2 /\ l < K BY <1>1, <1>3, <2>5
  <2> QED BY <2>2, <2>3, <2>5, <2>6
<1>8. l \in Nat /\ l < K + 1 /\ (l + 1 < K + 1 <=> l < K) BY <1>1, <1>3
<1>9. l + 1 < K + 1 <=> e # N
  <2>1. CASE e = N BY <1>1, <1>6, <1>8, <2>1
  <2>2. CASE e # N BY <1>7, <1>8, <2>2
  <2> QED BY <2>1, <2>2
<1>10. e \in Nat /\ s \in Nat /\ s \in 0 .. e BY <1>1, <1>2
<1> QED BY <1>1, <1>2, <1>5, <1>7, <1>8, <1>9, <1>10

\* The lines, and the places on each of them.
LEMMA LinesAre ==
    ASSUME TextOK, NoLoneReturn
    PROVE  /\ Lines = 0 .. Breaks(Len(chars)) /\ Breaks(Len(chars)) \in Nat
           /\ \A l \in Lines : \E s, e : Spans(l, s, e)
           /\ \A l \in Lines : \A s, e : Spans(l, s, e) => {n \in Places : PositionOf(n).line = l} = s .. e
           /\ \A l \in Lines : \A s, e : Spans(l, s, e) /\ LineIsBasic(l) =>
                 \A n \in s .. e : PositionOf(n) = [line |-> l, character |-> n - s]
<1>1. PICK N : N = Len(chars) /\ N \in Nat /\ DOMAIN chars = 1 .. N BY LenProperties DEF TextOK
<1>2. N \in Places BY <1>1 DEF Places
<1>3. Lines = 0 .. Breaks(N) /\ Breaks(N) \in Nat BY <1>1, <1>2, BreakFacts, LinesAgree
<1>4. ASSUME NEW l \in Lines PROVE \E s, e : Spans(l, s, e) BY <1>1, <1>3, LinesSpan
<1>5. ASSUME NEW l, NEW s, NEW e, Spans(l, s, e)
      PROVE  {n \in Places : PositionOf(n).line = l} = s .. e
  <2>1. \A n \in Places : PositionOf(n).line = Breaks(n) BY BasicPlace
  <2> QED BY <1>5, <2>1 DEF Spans
<1>6. ASSUME NEW l, NEW s, NEW e, Spans(l, s, e), LineIsBasic(l), NEW n \in s .. e
      PROVE  PositionOf(n) = [line |-> l, character |-> n - s]
  <2>1. n \in Places /\ Breaks(n) = l /\ LfStart(n) = s
    <3>1. n \in {m \in Places : Breaks(m) = l} BY <1>6 DEF Spans
    <3> QED BY <1>6, <3>1 DEF Spans
  <2>2. PositionOf(n).line = l BY <2>1, BasicPlace
  <2>3. Basic(n) BY <1>6, <2>1, <2>2 DEF LineIsBasic
  <2> QED BY <2>1, <2>3, BasicPlace
<1> QED BY <1>1, <1>3, <1>4, <1>5, <1>6

\* The places of a line that the protocol has: all but the one in its "\r\n".
LEMMA DenotedOf ==
    ASSUME TextOK, NoLoneReturn, NEW l \in Lines, NEW s, NEW e, Spans(l, s, e)
    PROVE  /\ e \in 0 .. Len(chars) /\ s \in 0 .. e /\ e \in Nat /\ s \in Nat
           /\ \A i \in s + 1 .. e - 1 : chars[i] # CR
           /\ e > s /\ chars[e] = CR => InBreak(e)
           /\ InBreak(e) => e > s /\ chars[e] = CR
           /\ \A n \in s .. e : InBreak(n) => n = e
           /\ ~InBreak(e + 1)
<1>1. PICK N : N = Len(chars) /\ N \in Nat /\ DOMAIN chars = 1 .. N BY LenProperties DEF TextOK
<1>2. LF # CR BY DEF LF, CR
<1>3. e \in 0 .. N /\ s \in 0 .. e /\ e \in Nat /\ s \in Nat BY <1>1 DEF Spans, Places
<1>4. s # 0 => chars[s] = LF
  <2>1. s \in Places /\ s \in s .. e BY <1>3 DEF Spans
  <2> QED BY <2>1, BreakFacts DEF Spans
<1>5. \A i \in s + 1 .. e : i \in 1 .. N /\ chars[i] # LF BY <1>1, <1>3 DEF Spans
<1>6. ASSUME NEW i \in s + 1 .. e, chars[i] = CR PROVE i = e /\ InBreak(i)
  <2>1. i < N /\ chars[i + 1] = LF /\ i \in 1 .. N - 1 BY <1>1, <1>3, <1>5, <1>6 DEF NoLoneReturn
  <2>2. i + 1 \notin s + 1 .. e BY <1>5, <2>1
  <2> QED BY <1>1, <1>2, <1>3, <1>6, <2>1, <2>2 DEF InBreak
<1>7. ASSUME NEW n \in s .. e, InBreak(n) PROVE n = e /\ n > s /\ chars[n] = CR
  <2>1. n \in 1 .. N - 1 /\ chars[n] = CR BY <1>1, <1>7 DEF InBreak
  <2>2. n # s BY <1>2, <1>4, <2>1
  <2>3. n \in s + 1 .. e BY <1>3, <2>2
  <2> QED BY <1>3, <1>6, <2>1, <2>3
<1>8. ~InBreak(e + 1)
  <2> SUFFICES ASSUME InBreak(e + 1) PROVE FALSE OBVIOUS
  <2>1. e + 1 \in 1 .. N - 1 /\ chars[e + 1] = CR BY <1>1 DEF InBreak
  <2> QED BY <1>1, <1>2, <1>3, <2>1 DEF Spans
<1>9. \A i \in s + 1 .. e - 1 : chars[i] # CR
  <2>1. \A i \in s + 1 .. e - 1 : i \in s + 1 .. e /\ i # e BY <1>3
  <2> QED BY <1>6, <2>1
<1>10. e > s => e \in s + 1 .. e BY <1>3
<1>11. e \in s .. e BY <1>3
<1> QED BY <1>1, <1>3, <1>6, <1>7, <1>8, <1>9, <1>10, <1>11

LEMMA TextOKBasicPositions == ASSUME TextOK PROVE BasicPositions
<1> SUFFICES ASSUME NoLoneReturn
             PROVE  /\ \A n \in Denoted : Basic(n) => OffsetToPosition(OffsetOf(n)) = PositionOf(n)
                    /\ \A l \in {l \in Lines : LineIsBasic(l)}, c \in 0 .. MaxColumn :
                          LET pos == [line |-> l, character |-> c]
                              n == Max({m \in Denoted : AtOrBefore(m, pos)})
                          IN PositionToOffset(pos) = OffsetOf(IF InTheReturn(n, pos) THEN n + 1 ELSE n)
                    /\ PositionToOffset([line |-> Max(Lines) + 1, character |-> 0]) = Len(m_text)
  BY DEF BasicPositions
<1>1. PICK N : N = Len(chars) /\ N \in Nat BY LenProperties DEF TextOK
<1>2. \A n \in Denoted : Basic(n) => OffsetToPosition(OffsetOf(n)) = PositionOf(n)
  <2>1. \A n \in Denoted : n \in Places BY DEF Denoted
  <2> QED BY <2>1, PositionCounts, BasicPlace
<1>3. ASSUME NEW l \in Lines, LineIsBasic(l), NEW c \in 0 .. MaxColumn,
             NEW n, n = Max({m \in Denoted : AtOrBefore(m, [line |-> l, character |-> c])})
      PROVE  PositionToOffset([line |-> l, character |-> c])
                 = OffsetOf(IF InTheReturn(n, [line |-> l, character |-> c]) THEN n + 1 ELSE n)
  <2>1. PICK s, e : Spans(l, s, e) BY LinesAre
  <2>2. l \in 0 .. Breaks(N) BY <1>1, LinesAre
  <2>3. /\ l \in Nat /\ l < Len(m_lineOffsets) /\ m_lineOffsets[l + 1] = OffsetOf(s)
        /\ e \in 0 .. N /\ s \in 0 .. e
    BY <1>1, <2>1, <2>2, LineFacts
  <2>4. c \in Nat BY ColumnAssumption
  <2>5. PICK t : t = IF s + c <= e THEN s + c ELSE e OBVIOUS
  <2>6. t \in s .. e /\ t <= s + c /\ (t = e \/ t = s + c) /\ t \in 0 .. N /\ s \in 0 .. N /\ s <= t
    BY <1>1, <2>3, <2>4, <2>5
  <2>7. PositionToOffset([line |-> l, character |-> c]) = OffsetOf(t)
    <3>1. \A i \in s + 1 .. t : chars[i] # LF
      <4>1. \A i \in s + 1 .. t : i \in s + 1 .. e BY <1>1, <2>3, <2>6
      <4> QED BY <2>1, <4>1 DEF Spans
    <3>2. t = Len(chars) \/ t = s + c \/ chars[t + 1] = LF BY <1>1, <2>1, <2>6 DEF Spans
    <3>3. s \in Places /\ t \in Places BY <1>1, <2>6 DEF Places
    <3> QED BY <2>3, <2>4, <2>6, <3>1, <3>2, <3>3, WalkStops
  <2>8. /\ InBreak(e) => e > s
        /\ \A m \in s .. e : InBreak(m) => m = e
        /\ ~InBreak(e + 1)
    BY <2>1, DenotedOf
  <2>9. PICK d, u : d = (IF InBreak(e) THEN e - 1 ELSE e) /\ u = (IF s + c <= d THEN s + c ELSE d)
    OBVIOUS
  <2>10. d \in s .. e /\ u \in s .. d /\ u <= s + c /\ s \in Nat /\ e \in Nat /\ u \in Nat
    BY <1>1, <2>3, <2>4, <2>8, <2>9
  <2>11. PICK S : S = {m \in Denoted : AtOrBefore(m, [line |-> l, character |-> c])} OBVIOUS
  <2>12. S = s .. u
    <3>1. {m \in Places : PositionOf(m).line = l} = s .. e BY <2>1, LinesAre
    <3>2. \A m \in s .. e : PositionOf(m).character = m - s BY <1>3, <2>1, LinesAre
    <3>3. S = {m \in s .. e : ~InBreak(m) /\ m - s <= c}
      BY <2>11, <3>1, <3>2 DEF AtOrBefore, Denoted
    <3>4. \A m \in s .. e : (~InBreak(m) /\ m - s <= c) <=> m <= u
      BY <2>3, <2>4, <2>8, <2>9, <2>10
    <3>5. S = {m \in s .. e : m <= u} BY <3>3, <3>4
    <3> QED BY <2>10, <3>5
  <2>13. n = u
    <3>1. u \in S BY <2>10, <2>12
    <3>2. \A m \in S : m \in Nat /\ m <= u BY <2>10, <2>12
    <3>3. S \in SUBSET Nat /\ S # {} BY <3>1, <3>2
    <3> QED BY <1>3, <2>10, <2>11, <3>1, <3>2, <3>3, MaxFacts
  <2>14. PositionOf(u).character = u - s
    <3>1. u \in s .. e BY <2>10
    <3> QED BY <1>3, <2>1, <3>1, LinesAre
  <2>15. t = IF InTheReturn(u, [line |-> l, character |-> c]) THEN u + 1 ELSE u
    <3>1. InTheReturn(u, [line |-> l, character |-> c]) <=> InBreak(u + 1) /\ c > u - s
      BY <2>14 DEF InTheReturn
    <3>2. CASE s + c <= d
      <4>1. t = s + c /\ u = s + c /\ ~(c > u - s) BY <2>3, <2>4, <2>5, <2>9, <2>10, <3>2
      <4> QED BY <3>1, <4>1
    <3>3. CASE ~(s + c <= d) /\ InBreak(e)
      <4>1. d = e - 1 /\ u = d /\ t = e /\ u + 1 = e /\ c > u - s
        BY <2>3, <2>4, <2>5, <2>9, <2>10, <3>3
      <4> QED BY <3>1, <3>3, <4>1
    <3>4. CASE ~(s + c <= d) /\ ~InBreak(e)
      <4>1. u = e /\ t = e BY <2>3, <2>4, <2>5, <2>9, <2>10, <3>4
      <4> QED BY <2>8, <3>1, <4>1
    <3> QED BY <3>2, <3>3, <3>4
  <2> QED BY <2>7, <2>13, <2>15
<1>4. PositionToOffset([line |-> Max(Lines) + 1, character |-> 0]) = Len(m_text)
  <2>1. PICK K : K = Breaks(N) OBVIOUS
  <2>2. Lines = 0 .. K /\ K \in Nat BY <1>1, <2>1, LinesAre
  <2>3. Max(Lines) = K
    <3>1. PICK S : S = Lines OBVIOUS
    <3>2. S \in SUBSET Nat /\ S # {} /\ K \in S /\ \A m \in S : m <= K BY <2>2, <3>1
    <3> QED BY <2>2, <3>1, <3>2, MaxFacts
  <2>4. Len(m_lineOffsets) = K + 1
    <3>1. N \in Places BY <1>1 DEF Places
    <3> QED BY <1>1, <2>1, <3>1, LineStarts
  <2>5. K + 1 >= Len(m_lineOffsets) BY <2>2, <2>4
  <2> QED BY <2>3, <2>5 DEF PositionToOffset
<1> QED BY <1>2, <1>3, <1>4

LEMMA TextOKLines == ASSUME TextOK PROVE LineIsItsCharacters
<1>1. PICK N : N = Len(chars) /\ N \in Nat BY LenProperties DEF TextOK
<1> SUFFICES ASSUME NoLoneReturn, NEW l \in Lines, NEW on, NEW clear,
                    on = {n \in Places : PositionOf(n).line = l},
                    clear = {n \in on : \A i \in Min(on) + 1 .. n : chars[i] \notin {CR, LF}}
             PROVE  LineText(l) = [start |-> OffsetOf(Min(on)), end |-> OffsetOf(Max(clear))]
  BY DEF LineIsItsCharacters
<1>2. PICK s, e : Spans(l, s, e) BY LinesAre
<1>3. l \in 0 .. Breaks(N) BY <1>1, LinesAre
<1>4. /\ l \in Nat /\ m_lineOffsets[l + 1] = OffsetOf(s) /\ (l + 1 < Len(m_lineOffsets) <=> e # N)
      /\ e # N => m_lineOffsets[l + 2] = OffsetOf(e + 1) /\ e + 1 \in 1 .. N
      /\ e \in 0 .. N /\ s \in 0 .. e /\ e \in Nat /\ s \in Nat
  BY <1>1, <1>2, <1>3, LineFacts
<1>5. on = s .. e BY <1>2, LinesAre
<1>6. Min(on) = s
  <2>1. s \in Nat /\ e \in Nat /\ s <= e BY <1>4
  <2>2. s \in on /\ e \in on BY <1>5, <2>1
  <2>3. \A m \in on : m \in Nat /\ s <= m /\ m <= e BY <1>5, <2>1
  <2>4. on \in SUBSET Nat /\ on # {} BY <2>2, <2>3
  <2>5. Min(on) = s BY <2>2, <2>3, <2>4, MinFacts
  <2> QED BY <2>5
<1>7. PICK x, y : x = OffsetOf(s) /\ y = OffsetOf(e) OBVIOUS
<1>8. s \in Places /\ e \in Places /\ N \in Places /\ x \in Nat /\ y \in Nat
  BY <1>1, <1>2, <1>7, OffsetFacts DEF Spans, Places
<1>9. y > x <=> e > s
  <2>1. e = s \/ e > s BY <1>1, <1>4
  <2>2. e > s => y > x BY <1>1, <1>4, <1>7, <1>8, OffsetGrows
  <2> QED BY <1>4, <1>7, <1>8, <2>1, <2>2
<1>10. e > s => e \in 1 .. N /\ chars[e] # LF
  <2> SUFFICES ASSUME e > s PROVE e \in 1 .. N /\ chars[e] # LF OBVIOUS
  <2>1. e \in 1 .. N /\ e \in s + 1 .. e BY <1>1, <1>4
  <2> QED BY <1>2, <2>1 DEF Spans
<1>11. PICK next : next = IF l + 1 < Len(m_lineOffsets) THEN m_lineOffsets[l + 2] ELSE Len(m_text) OBVIOUS
<1>12. Stripped(x, next, 10) = y
  <2>1. CASE e = N
    <3>1. next = y BY <1>1, <1>4, <1>7, <1>11, <2>1, OffsetFacts
    <3>2. y > x => m_text[y] # 10 BY <1>1, <1>7, <1>9, <1>10, PlaceReads
    <3> QED BY <3>1, <3>2 DEF Stripped
  <2>2. CASE e # N
    <3>1. PICK j : j = e + 1 OBVIOUS
    <3>2. next = OffsetOf(j) /\ j \in 1 .. N /\ j - 1 = e BY <1>1, <1>4, <1>11, <2>2, <3>1
    <3>3. chars[j] = LF BY <1>1, <1>2, <2>2, <3>1 DEF Spans
    <3>4. next = y + 1 /\ m_text[next] = 10 BY <1>1, <1>7, <3>2, <3>3, PlaceReads
    <3>5. y >= x BY <1>4, <1>7, <1>8, <1>9
    <3>6. next > x /\ next - 1 = y BY <1>8, <3>4, <3>5
    <3> QED BY <3>4, <3>6 DEF Stripped
  <2> QED BY <2>1, <2>2
<1>13. PICK end : end = IF e > s /\ chars[e] = CR THEN e - 1 ELSE e OBVIOUS
<1>14. Stripped(x, y, 13) = OffsetOf(end)
  <2>1. CASE e > s /\ chars[e] = CR
    <3>1. e \in 1 .. N BY <1>10, <2>1
    <3>2. m_text[y] = 13 BY <1>1, <1>7, <2>1, <3>1, PlaceReads
    <3>3. y = OffsetOf(e - 1) + 1 /\ OffsetOf(e - 1) \in Nat
      <4>1. OffsetOf(e) = OffsetOf(e - 1) + Len(chars[e]) BY <1>1, <3>1, OffsetFacts
      <4>2. Len(CR) = 1 BY DEF CR
      <4>3. e - 1 \in Places BY <1>1, <3>1, PlaceReads
      <4> QED BY <1>7, <2>1, <4>1, <4>2, <4>3, OffsetFacts
    <3>4. y - 1 = OffsetOf(e - 1) BY <3>3
    <3> QED BY <1>9, <1>13, <2>1, <3>2, <3>4 DEF Stripped
  <2>2. CASE ~(e > s /\ chars[e] = CR)
    <3>1. y > x => m_text[y] # 13 BY <1>1, <1>7, <1>9, <1>10, <2>2, PlaceReads
    <3> QED BY <1>7, <1>13, <2>2, <3>1 DEF Stripped
  <2> QED BY <2>1, <2>2
<1>15. LineText(l) = [start |-> x, end |-> OffsetOf(end)]
  BY <1>4, <1>7, <1>11, <1>12, <1>14 DEF LineText
<1>16. Max(clear) = end
  <2>1. end \in s .. e /\ end \in Nat /\ s <= end BY <1>4, <1>13
  <2>2. \A i \in s + 1 .. end : chars[i] \notin {CR, LF}
    <3>1. \A i \in s + 1 .. e - 1 : chars[i] # CR BY <1>2, DenotedOf
    <3>2. \A i \in s + 1 .. end : i \in s + 1 .. e /\ (i # e => i \in s + 1 .. e - 1)
      BY <1>4, <1>13
    <3>3. \A i \in s + 1 .. e : chars[i] # LF BY <1>2 DEF Spans
    <3>4. end = e /\ e > s => chars[e] # CR BY <1>4, <1>13
    <3>5. ASSUME NEW i \in s + 1 .. end, chars[i] = CR PROVE FALSE
      <4>1. i = e BY <3>1, <3>2, <3>5
      <4>2. end = e /\ e > s BY <1>4, <1>13, <2>1, <4>1
      <4> QED BY <3>4, <3>5, <4>1, <4>2
    <3> QED BY <3>2, <3>3, <3>5
  <2>3. end \in clear BY <1>5, <1>6, <2>1, <2>2
  <2>4. ASSUME NEW m \in clear PROVE m \in Nat /\ m <= end
    <3>1. m \in s .. e /\ \A i \in s + 1 .. m : chars[i] # CR BY <1>5, <1>6
    <3>2. CASE e > s /\ chars[e] = CR
      <4>1. e \notin s + 1 .. m BY <3>1, <3>2
      <4> QED BY <1>4, <1>13, <3>1, <3>2, <4>1
    <3>3. CASE ~(e > s /\ chars[e] = CR) BY <1>4, <1>13, <3>1, <3>3
    <3> QED BY <3>2, <3>3
  <2>5. clear \in SUBSET Nat /\ clear # {} BY <2>3, <2>4
  <2> QED BY <2>1, <2>3, <2>4, <2>5, MaxFacts
<1> QED BY <1>6, <1>7, <1>15, <1>16

-----------------------------------------------------------------------------

\* The index is always that of the text.
THEOREM TextInvariance == Spec => []TextOK
<1>1. Init => TextOK BY TextsAssumption DEF Init, TextOK
<1>2. TextOK /\ [Next]_vars => TextOK'
  <2> SUFFICES ASSUME TextOK, [Next]_vars PROVE TextOK' OBVIOUS
  <2>1. ASSUME NEW t \in Texts, Update(t) PROVE TextOK'
    BY <2>1, TextsAssumption DEF Update, TextOK, LineOffsets
  <2>2. CASE UNCHANGED vars BY <2>2 DEF vars, TextOK, LineOffsets
  <2> QED BY <2>1, <2>2 DEF Next
<1> QED BY <1>1, <1>2, PTL DEF Spec

\* offsetToPosition and positionToOffset are inverse at every place of every text.
THEOREM RoundTripHolds == Spec => []RoundTrip
<1> QED BY TextInvariance, TextOKRoundTrips, PTL

\* Without a lone "\r" before it and on a line of the basic plane a position is the
\* protocol's both ways, but for a column beyond the end of a line that "\r\n" ends.
THEOREM BasicPositionsHold == Spec => []BasicPositions
<1> QED BY TextInvariance, TextOKBasicPositions, PTL

\* Without a lone "\r" lineText is the protocol's line without its line break.
THEOREM LinesHold == Spec => []LineIsItsCharacters
<1> QED BY TextInvariance, TextOKLines, PTL

===============================================================================
