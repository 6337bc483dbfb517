---------------------------- MODULE Includes_proofs ----------------------------
(***************************************************************************)
(* The files and what paths designate, for every path and every disk.      *)
(*                                                                         *)
(* normalize is a loop over the segments of a text.  Its folds are shown   *)
(* to be such loops, so that they can be followed segment by segment: an   *)
(* absolute path is normalised to its root and clean names, and a path of  *)
(* that form to itself.  From this form follow that URIs lead back, which  *)
(* folders are around a document, and that the names kept are those that   *)
(* no ".." takes back.  Last, SourceProvider implements FileTexts.         *)
(***************************************************************************)
EXTENDS Includes, NaturalsLemmas, SequenceTheorems, FiniteSetTheorems

-----------------------------------------------------------------------------

\* A fold from the left as a run of the loop: f takes what there is and the
\* next element.
FoldsTo(f, base, seq, v) ==
    \E r : /\ r[0] = base
           /\ \A k \in 1 .. Len(seq) : r[k] = f[<<r[k - 1], seq[k]>>]
           /\ v = r[Len(seq)]

\* The greatest of some numbers up to n.
LEMMA TopOf ==
    ASSUME NEW n \in Nat, NEW s \in SUBSET (1 .. n), s # {}
    PROVE  Max(s) \in s /\ (n \in s => Max(s) = n)
<1>1. s \in SUBSET Nat /\ \A m \in s : m <= n OBVIOUS
<1> QED BY <1>1, MaxFacts

\* A run of the loop has one outcome.
LEMMA FoldsToOne ==
    ASSUME NEW f, NEW base, NEW n \in Nat, NEW seq, Len(seq) = n, NEW v, NEW w,
           FoldsTo(f, base, seq, v), FoldsTo(f, base, seq, w)
    PROVE  v = w
<1>1. PICK r : /\ r[0] = base /\ \A k \in 1 .. n : r[k] = f[<<r[k - 1], seq[k]>>]
               /\ v = r[n]
  BY DEF FoldsTo
<1>2. PICK q : /\ q[0] = base /\ \A k \in 1 .. n : q[k] = f[<<q[k - 1], seq[k]>>]
               /\ w = q[n]
  BY DEF FoldsTo
<1>3. PICK bad : bad = {k \in 0 .. n : r[k] # q[k]} OBVIOUS
<1>4. bad = {}
  <2> SUFFICES ASSUME bad # {} PROVE FALSE OBVIOUS
  <2>1. bad \in SUBSET Nat BY <1>3
  <2>2. PICK k \in bad : \A j \in bad : k <= j BY <2>1, SmallestOf
  <2>3. k \in 0 .. n /\ r[k] # q[k] BY <1>3
  <2>4. k # 0 BY <1>1, <1>2, <2>3
  <2>5. k \in 1 .. n /\ k - 1 \in 0 .. n /\ ~(k <= k - 1) BY <2>3, <2>4
  <2>6. r[k - 1] = q[k - 1] BY <1>3, <2>2, <2>5
  <2> QED BY <1>1, <1>2, <2>3, <2>5, <2>6
<1>5. n \in 0 .. n OBVIOUS
<1> QED BY <1>1, <1>2, <1>3, <1>4, <1>5

\* One element more.
LEMMA FoldsOn ==
    ASSUME NEW f, NEW base, NEW D, NEW seq \in Seq(D), NEW c \in D, NEW v, NEW w,
           FoldsTo(f, base, seq, v), FoldsTo(f, base, Append(seq, c), w)
    PROVE  w = f[<<v, c>>]
<1>1. PICK n : n = Len(seq) /\ n \in Nat BY LenProperties
<1>2. PICK more : more = Append(seq, c) OBVIOUS
<1>3. Len(more) = n + 1 /\ more[n + 1] = c /\ \A k \in 1 .. n : more[k] = seq[k]
  BY <1>1, <1>2, AppendProperties
<1>4. PICK q : /\ q[0] = base /\ \A k \in 1 .. n + 1 : q[k] = f[<<q[k - 1], more[k]>>]
               /\ w = q[n + 1]
  BY <1>2, <1>3 DEF FoldsTo
<1>5. FoldsTo(f, base, seq, q[n])
  <2>1. \A k \in 1 .. n : q[k] = f[<<q[k - 1], seq[k]>>]
    <3> TAKE k \in 1 .. n
    <3>1. k \in 1 .. n + 1 BY <1>1
    <3> QED BY <1>3, <1>4, <3>1
  <2> QED BY <1>1, <1>4, <2>1 DEF FoldsTo
<1>6. v = q[n] BY <1>1, <1>5, FoldsToOne
<1>7. PICK top, last : top = n + 1 /\ last = top - 1 OBVIOUS
<1>8. top \in 1 .. n + 1 /\ last = n BY <1>1, <1>7
<1>9. q[top] = f[<<q[last], more[top]>>] BY <1>4, <1>7, <1>8
<1>10. q[n + 1] = f[<<q[n], more[n + 1]>>] BY <1>7, <1>8, <1>9
<1> QED BY <1>3, <1>4, <1>6, <1>10

\* A function of sets, as SequencesExt folds: there is one.
SetFold(f, base, seq, g, n) ==
    \A s \in SUBSET (1 .. n) :
        g[s] = IF s = {} THEN base ELSE f[<<g[s \ {Max(s)}], seq[Max(s)]>>]

\* The function that a fold over the positions chooses exists.
LEMMA SetFoldExists ==
    ASSUME NEW V, NEW D, NEW f \in [V \X D -> V], NEW base \in V, NEW seq \in Seq(D)
    PROVE  \E g \in [SUBSET (1 .. Len(seq)) -> V] : SetFold(f, base, seq, g, Len(seq))
<1>1. PICK n : n = Len(seq) /\ n \in Nat BY LenProperties
<1> DEFINE Has(k) == \E g \in [SUBSET (1 .. k) -> V] : SetFold(f, base, seq, g, k)
<1>2. PICK bad : bad = {k \in 0 .. n : ~Has(k)} OBVIOUS
<1>3. bad = {}
  <2> SUFFICES ASSUME bad # {} PROVE FALSE OBVIOUS
  <2>1. bad \in SUBSET Nat BY <1>2
  <2>2. PICK m \in bad : \A k \in bad : m <= k BY <2>1, SmallestOf
  <2>3. m \in 0 .. n /\ ~Has(m) BY <1>2
  <2>4. CASE m = 0
    <3>1. PICK g : g = [s \in SUBSET (1 .. 0) |-> base] OBVIOUS
    <3>2. g \in [SUBSET (1 .. 0) -> V] BY <3>1
    <3>3. \A s \in SUBSET (1 .. 0) : s = {} /\ g[s] = base BY <3>1
    <3>4. SetFold(f, base, seq, g, 0) BY <3>3 DEF SetFold
    <3> QED BY <2>3, <2>4, <3>2, <3>4
  <2>5. CASE m # 0
    <3>1. PICK k : k = m - 1 /\ k \in 0 .. n BY <1>1, <2>3, <2>5
    <3>2. m \in Nat /\ k \in Nat /\ m = k + 1 /\ ~(m <= k) BY <1>1, <2>3, <3>1
    <3>3. Has(k) BY <1>2, <2>2, <3>1, <3>2
    <3>4. PICK h \in [SUBSET (1 .. k) -> V] : SetFold(f, base, seq, h, k) BY <3>3
    <3> HIDE DEF Has
    <3>5. PICK g : g = [s \in SUBSET (1 .. m) |-> IF m \in s THEN f[<<h[s \ {m}], seq[m]>>] ELSE h[s]]
      OBVIOUS
    <3>6. m \in 1 .. n /\ seq[m] \in D
      <4>1. m \in 1 .. n BY <1>1, <2>3, <2>5
      <4> QED BY <1>1, <4>1, ElementOfSeq
    <3>7. ASSUME NEW s \in SUBSET (1 .. m) PROVE s \ {m} \in SUBSET (1 .. k) /\ (m \notin s => s \in SUBSET (1 .. k))
      BY <3>2
    <3>8. g \in [SUBSET (1 .. m) -> V]
      <4>1. ASSUME NEW s \in SUBSET (1 .. m)
            PROVE  (IF m \in s THEN f[<<h[s \ {m}], seq[m]>>] ELSE h[s]) \in V
        <5>1. CASE m \in s
          <6>1. h[s \ {m}] \in V BY <3>4, <3>7
          <6>2. <<h[s \ {m}], seq[m]>> \in V \X D BY <3>6, <6>1
          <6> QED BY <5>1, <6>2
        <5>2. CASE m \notin s BY <3>4, <3>7, <5>2
        <5> QED BY <5>1, <5>2
      <4> QED BY <3>5, <4>1
    <3>9. \A s \in SUBSET (1 .. k) : s \in SUBSET (1 .. m) /\ m \notin s /\ g[s] = h[s]
      <4> TAKE s \in SUBSET (1 .. k)
      <4>1. s \in SUBSET (1 .. m) /\ m \notin s BY <3>2
      <4> QED BY <3>5, <4>1
    <3>10. ASSUME NEW s \in SUBSET (1 .. m)
           PROVE  g[s] = IF s = {} THEN base ELSE f[<<g[s \ {Max(s)}], seq[Max(s)]>>]
      <4>1. CASE m \in s
        <5>1. Max(s) = m /\ s # {} BY <3>2, <4>1, TopOf
        <5>2. g[s \ {m}] = h[s \ {m}] BY <3>7, <3>9
        <5>3. g[s] = f[<<h[s \ {m}], seq[m]>>] BY <3>5, <4>1
        <5> QED BY <5>1, <5>2, <5>3
      <4>2. CASE m \notin s
        <5>1. s \in SUBSET (1 .. k) BY <3>7, <4>2
        <5>2. g[s] = IF s = {} THEN base ELSE f[<<h[s \ {Max(s)}], seq[Max(s)]>>]
          BY <3>4, <3>9, <5>1 DEF SetFold
        <5>3. s \ {Max(s)} \in SUBSET (1 .. k) BY <5>1
        <5>4. g[s \ {Max(s)}] = h[s \ {Max(s)}] BY <3>9, <5>3
        <5> QED BY <5>2, <5>4
      <4> QED BY <4>1, <4>2
    <3>11. SetFold(f, base, seq, g, m) BY <3>10 DEF SetFold
    <3>12. Has(m) BY <3>8, <3>11 DEF Has
    <3> QED BY <2>3, <3>12
  <2> QED BY <2>4, <2>5
<1>4. n \in 0 .. n BY <1>1
<1>5. Has(n) BY <1>2, <1>3, <1>4
<1> QED BY <1>1, <1>5

\* Whatever function of sets the fold's own choice is, it is the run.
LEMMA SetFoldRuns ==
    ASSUME NEW V, NEW D, NEW f \in [V \X D -> V], NEW base \in V, NEW seq \in Seq(D),
           NEW a, a[{}] = base,
           \A s \in SUBSET (1 .. Len(seq)) : s # {} /\ a[s \ {Max(s)}] \in V
               => a[s] = f[<<a[s \ {Max(s)}], seq[Max(s)]>>]
    PROVE  a[1 .. Len(seq)] \in V /\ FoldsTo(f, base, seq, a[1 .. Len(seq)])
<1>1. PICK n : n = Len(seq) /\ n \in Nat BY LenProperties
<1>2. PICK r : r = [k \in 0 .. n |-> a[1 .. k]] OBVIOUS
<1>3. r[0] = base
  <2>1. 1 .. 0 = {} /\ 0 \in 0 .. n BY <1>1
  <2> QED BY <1>2, <2>1
<1>4. ASSUME NEW k \in 1 .. n, r[k - 1] \in V
      PROVE  r[k] \in V /\ r[k] = f[<<r[k - 1], seq[k]>>]
  <2>1. k \in Nat /\ k \in 0 .. n /\ k - 1 \in 0 .. n BY <1>1
  <2>2. 1 .. k \in SUBSET (1 .. n) /\ k \in 1 .. k /\ 1 .. k # {} BY <1>1, SMTT(30)
  <2>3. Max(1 .. k) = k BY <2>1, <2>2, TopOf
  <2>4. (1 .. k) \ {k} = 1 .. k - 1 BY <2>1
  <2>5. r[k] = a[1 .. k] /\ r[k - 1] = a[1 .. k - 1] BY <1>2, <2>1
  <2>6. a[1 .. k] = f[<<a[1 .. k - 1], seq[k]>>] BY <1>1, <1>4, <2>2, <2>3, <2>4, <2>5
  <2>7. seq[k] \in D BY <1>1, ElementOfSeq
  <2>8. <<r[k - 1], seq[k]>> \in V \X D BY <1>4, <2>7
  <2> QED BY <2>5, <2>6, <2>8
<1>5. PICK bad : bad = {k \in 0 .. n : r[k] \notin V} OBVIOUS
<1>6. bad = {}
  <2> SUFFICES ASSUME bad # {} PROVE FALSE OBVIOUS
  <2>1. bad \in SUBSET Nat BY <1>5
  <2>2. PICK k \in bad : \A j \in bad : k <= j BY <2>1, SmallestOf
  <2>3. k \in 0 .. n /\ r[k] \notin V BY <1>5
  <2>4. k # 0 BY <1>3, <2>3
  <2>5. k \in 1 .. n /\ k - 1 \in 0 .. n /\ ~(k <= k - 1) BY <1>1, <2>3, <2>4
  <2>6. r[k - 1] \in V BY <1>5, <2>2, <2>5
  <2> QED BY <1>4, <2>3, <2>5, <2>6
<1>7. \A k \in 1 .. n : r[k] = f[<<r[k - 1], seq[k]>>]
  <2> TAKE k \in 1 .. n
  <2>1. k - 1 \in 0 .. n BY <1>1
  <2>2. r[k - 1] \in V BY <1>5, <1>6, <2>1
  <2> QED BY <1>4, <2>2
<1>8. n \in 0 .. n /\ r[n] = a[1 .. n] BY <1>1, <1>2
<1>9. FoldsTo(f, base, seq, a[1 .. n]) BY <1>1, <1>3, <1>7, <1>8 DEF FoldsTo
<1>10. a[1 .. n] \in V BY <1>5, <1>6, <1>8
<1> QED BY <1>1, <1>9, <1>10

-----------------------------------------------------------------------------

\* What holds of the empty sequence and of each sequence with one element more.
LEMMA Growing ==
    ASSUME NEW D, NEW S, <<>> \in S,
           \A s \in Seq(D) : \A e \in D : s \in S => Append(s, e) \in S
    PROVE  \A s \in Seq(D) : s \in S
<1>1. PICK bad : bad = {n \in Nat : \E s \in Seq(D) : Len(s) = n /\ s \notin S} OBVIOUS
<1>2. bad = {}
  <2> SUFFICES ASSUME bad # {} PROVE FALSE OBVIOUS
  <2>1. bad \in SUBSET Nat BY <1>1
  <2>2. PICK n \in bad : \A j \in bad : n <= j BY <2>1, SmallestOf
  <2>3. PICK s \in Seq(D) : Len(s) = n /\ s \notin S BY <1>1
  <2>4. s # <<>> BY <2>3
  <2>5. PICK p \in Seq(D), e \in D : s = Append(p, e) BY <2>4, SequenceEmptyOrAppend
  <2>6. Len(p) \in Nat /\ Len(s) = Len(p) + 1 BY <2>5, AppendProperties, LenProperties
  <2>7. Len(p) \notin bad BY <2>1, <2>2, <2>3, <2>6
  <2>8. p \in S BY <1>1, <2>6, <2>7
  <2> QED BY <2>3, <2>5, <2>8
<1> SUFFICES ASSUME NEW s \in Seq(D) PROVE s \in S OBVIOUS
<1>3. Len(s) \in Nat BY LenProperties
<1>4. Len(s) \notin bad BY <1>2
<1> QED BY <1>1, <1>3, <1>4

\* The texts whose characters are W's and "/", and those without "/".
WithSlash(W) == W \cup {"/"}
Some(S) == Seq(S) \ {<<>>}

\* Segments, character by character.
Grown(segs, c) == IF c = "/" THEN Append(segs, <<>>)
                  ELSE [segs EXCEPT ![Len(segs)] = Append(@, c)]

\* A character more leaves segments of characters that are no slash.
LEMMA GrownIn ==
    ASSUME NEW W, "/" \notin W, NEW segs \in Some(Seq(W)), NEW c \in WithSlash(W)
    PROVE  Grown(segs, c) \in Some(Seq(W))
<1>1. segs \in Seq(Seq(W)) /\ segs # <<>> /\ <<>> \in Seq(W) BY DEF Some
<1>2. CASE c = "/"
  <2>1. Append(segs, <<>>) \in Seq(Seq(W)) /\ Append(segs, <<>>) # <<>> BY <1>1, AppendProperties
  <2> QED BY <1>2, <2>1 DEF Grown, Some
<1>3. CASE c # "/"
  <2>1. c \in W BY <1>3 DEF WithSlash
  <2> HIDE DEF Some
  <2>9. Len(segs) \in Nat \ {0} BY <1>1, EmptySeq
  <2>2. PICK n : n = Len(segs) /\ n \in 1 .. Len(segs) BY <2>9
  <2>3. segs[n] \in Seq(W) BY <1>1, <2>2, ElementOfSeq
  <2>4. PICK last : last = Append(segs[n], c) /\ last \in Seq(W) BY <2>1, <2>3, AppendProperties
  <2>5. [segs EXCEPT ![n] = last] \in Seq(Seq(W)) /\ Len([segs EXCEPT ![n] = last]) = n
    BY <1>1, <2>2, <2>4, ExceptSeq
  <2>6. Grown(segs, c) = [segs EXCEPT ![n] = last] BY <1>3, <2>2, <2>4 DEF Grown
  <2>7. n # 0 /\ Len(<<>>) = 0 BY <2>2
  <2> QED BY <2>5, <2>6, <2>7 DEF Some
<1> QED BY <1>2, <1>3

GrownOf(W) == [x \in Some(Seq(W)) \X WithSlash(W) |-> Grown(x[1], x[2])]

\* Segments is such a loop.
LEMMA SegmentsFold ==
    ASSUME NEW W, "/" \notin W, NEW p \in Seq(WithSlash(W))
    PROVE  /\ Segments(p) \in Some(Seq(W))
           /\ FoldsTo(GrownOf(W), << <<>> >>, p, Segments(p))
<1>1. PICK n : n = Len(p) /\ n \in Nat /\ DOMAIN p = 1 .. n BY LenProperties
<1>2. PICK V : V = Some(Seq(W)) OBVIOUS
<1>3. PICK D : D = WithSlash(W) OBVIOUS
<1>4. PICK f : f = GrownOf(W) OBVIOUS
<1>5. \A v \in V : \A c \in D : <<v, c>> \in V \X D /\ f[<<v, c>>] = Grown(v, c) /\ Grown(v, c) \in V
  BY <1>2, <1>3, <1>4, GrownIn DEF GrownOf
<1>6. f \in [V \X D -> V] BY <1>2, <1>3, <1>4, GrownIn DEF GrownOf
<1>7. PICK base : base = << <<>> >> OBVIOUS
<1>8. base \in V
  <2>1. <<>> \in Seq(W) OBVIOUS
  <2>2. base \in Seq(Seq(W)) /\ Len(base) = 1 /\ Len(<<>>) = 0 BY <1>7, <2>1
  <2>4. Len(base) # Len(<<>>) BY <2>2
  <2>3. base # <<>> BY <2>4, Zenon
  <2> QED BY <1>2, <2>2, <2>3 DEF Some
<1> DEFINE Raw(g, s) == IF s = {} THEN base ELSE Grown(g[s \ {Max(s)}], p[Max(s)])
           Is(g) == g = [s \in SUBSET (1 .. n) |-> Raw(g, s)]
<1>9. Segments(p) = (CHOOSE g : Is(g))[1 .. n]
  BY <1>1, <1>7 DEF Segments, FoldLeft, MapThenFoldSet, Grown
<1>10. \E g : Is(g)
  <2>1. PICK g \in [SUBSET (1 .. n) -> V] : SetFold(f, base, p, g, n)
    BY <1>1, <1>3, <1>6, <1>8, SetFoldExists
  <2>2. ASSUME NEW s \in SUBSET (1 .. n) PROVE g[s] = Raw(g, s)
    <3>1. CASE s = {} BY <2>1, <3>1 DEF SetFold
    <3>2. CASE s # {}
      <4>1. Max(s) \in s BY <1>1, <3>2, TopOf
      <4>2. g[s \ {Max(s)}] \in V BY <2>1
      <4>3. p[Max(s)] \in D BY <1>1, <1>3, <4>1, ElementOfSeq
      <4>4. f[<<g[s \ {Max(s)}], p[Max(s)]>>] = Grown(g[s \ {Max(s)}], p[Max(s)]) BY <1>5, <4>2, <4>3
      <4> QED BY <2>1, <3>2, <4>4 DEF SetFold
    <3> QED BY <3>1, <3>2
  <2> HIDE DEF Raw
  <2>3. Is(g) BY <2>1, <2>2
  <2> QED BY <2>3
<1>11. PICK a : a = CHOOSE g : Is(g) OBVIOUS
<1> HIDE DEF Is
<1>12. Is(a) BY <1>10, <1>11
<1>13. \A s \in SUBSET (1 .. n) : a[s] = Raw(a, s)
  <2> HIDE DEF Raw
  <2> QED BY <1>12 DEF Is
<1>14. a[{}] = base BY <1>13
<1>15. ASSUME NEW s \in SUBSET (1 .. n), s # {}, a[s \ {Max(s)}] \in V
       PROVE  a[s] = f[<<a[s \ {Max(s)}], p[Max(s)]>>]
  <2>1. Max(s) \in s BY <1>1, <1>15, TopOf
  <2>2. p[Max(s)] \in D BY <1>1, <1>3, <2>1, ElementOfSeq
  <2> QED BY <1>5, <1>13, <1>15, <2>2
<1>16. a[1 .. n] \in V /\ FoldsTo(f, base, p, a[1 .. n])
  <2> HIDE DEF Raw
  <2>1. p \in Seq(D) BY <1>3
  <2>2. \A s \in SUBSET (1 .. Len(p)) : s # {} /\ a[s \ {Max(s)}] \in V
          => a[s] = f[<<a[s \ {Max(s)}], p[Max(s)]>>]
    BY <1>1, <1>15
  <2> QED BY <1>1, <1>6, <1>8, <1>14, <2>1, <2>2, SetFoldRuns
<1> QED BY <1>2, <1>4, <1>7, <1>9, <1>11, <1>16

\* What a character more adds to the segments.
LEMMA SegmentsGrow ==
    ASSUME NEW W, "/" \notin W
    PROVE  /\ Segments(<<>>) = << <<>> >>
           /\ \A p \in Seq(WithSlash(W)) : \A c \in WithSlash(W) :
                 Segments(p) \in Some(Seq(W)) /\ Segments(Append(p, c)) = Grown(Segments(p), c)
<1>1. FoldsTo(GrownOf(W), << <<>> >>, <<>>, Segments(<<>>))
  <2>1. <<>> \in Seq(WithSlash(W)) OBVIOUS
  <2> QED BY <2>1, SegmentsFold
<1>2. Segments(<<>>) = << <<>> >> BY <1>1 DEF FoldsTo
<1>3. ASSUME NEW p \in Seq(WithSlash(W)), NEW c \in WithSlash(W)
      PROVE  Segments(p) \in Some(Seq(W)) /\ Segments(Append(p, c)) = Grown(Segments(p), c)
  <2>1. Append(p, c) \in Seq(WithSlash(W)) OBVIOUS
  <2>2. /\ Segments(p) \in Some(Seq(W)) /\ FoldsTo(GrownOf(W), << <<>> >>, p, Segments(p))
        /\ FoldsTo(GrownOf(W), << <<>> >>, Append(p, c), Segments(Append(p, c)))
    BY <2>1, SegmentsFold
  <2>3. Segments(Append(p, c)) = GrownOf(W)[<<Segments(p), c>>] BY <2>2, FoldsOn
  <2> QED BY <2>2, <2>3 DEF GrownOf
<1> QED BY <1>2, <1>3

\* Slashes, name by name.
Joined(out, seg) == IF out = <<>> THEN seg ELSE out \o <<"/">> \o seg
JoinedOf(T) == [x \in T \X T |-> Joined(x[1], x[2])]

\* Joined segments are a text over the same characters.
LEMMA JoinedIn ==
    ASSUME NEW D, "/" \in D, NEW out \in Seq(D), NEW seg \in Seq(D)
    PROVE  Joined(out, seg) \in Seq(D)
<1>1. <<"/">> \in Seq(D) OBVIOUS
<1>2. out \o <<"/">> \in Seq(D) BY <1>1, ConcatProperties
<1>3. (out \o <<"/">>) \o seg \in Seq(D) BY <1>2, ConcatProperties
<1> QED BY <1>3 DEF Joined

\* So is Slashes.
LEMMA SlashesFold ==
    ASSUME NEW C, "/" \in C, NEW parts \in Seq(Seq(C))
    PROVE  /\ Slashes(parts) \in Seq(C)
           /\ FoldsTo(JoinedOf(Seq(C)), <<>>, parts, Slashes(parts))
<1>1. PICK n : n = Len(parts) /\ n \in Nat /\ DOMAIN parts = 1 .. n BY LenProperties
<1>2. PICK V : V = Seq(C) OBVIOUS
<1>3. PICK D : D = Seq(C) OBVIOUS
<1>4. PICK f : f = JoinedOf(Seq(C)) OBVIOUS
<1>5. \A v \in V : \A c \in D : <<v, c>> \in V \X D /\ f[<<v, c>>] = Joined(v, c) /\ Joined(v, c) \in V
  BY <1>2, <1>3, <1>4, JoinedIn DEF JoinedOf
<1>6. f \in [V \X D -> V] BY <1>2, <1>3, <1>4, JoinedIn DEF JoinedOf
<1>7. PICK base : base = <<>> OBVIOUS
<1>8. base \in V BY <1>2, <1>7
<1> DEFINE Raw(g, s) == IF s = {} THEN base ELSE Joined(g[s \ {Max(s)}], parts[Max(s)])
           Is(g) == g = [s \in SUBSET (1 .. n) |-> Raw(g, s)]
<1>9. Slashes(parts) = (CHOOSE g : Is(g))[1 .. n]
  BY <1>1, <1>7 DEF Slashes, FoldLeft, MapThenFoldSet, Joined
<1>10. \E g : Is(g)
  <2>1. PICK g \in [SUBSET (1 .. n) -> V] : SetFold(f, base, parts, g, n)
    BY <1>1, <1>3, <1>6, <1>8, SetFoldExists
  <2>2. ASSUME NEW s \in SUBSET (1 .. n) PROVE g[s] = Raw(g, s)
    <3>1. CASE s = {} BY <2>1, <3>1 DEF SetFold
    <3>2. CASE s # {}
      <4>1. Max(s) \in s BY <1>1, <3>2, TopOf
      <4>2. g[s \ {Max(s)}] \in V BY <2>1
      <4>3. parts[Max(s)] \in D BY <1>1, <1>3, <4>1, ElementOfSeq
      <4>4. f[<<g[s \ {Max(s)}], parts[Max(s)]>>] = Joined(g[s \ {Max(s)}], parts[Max(s)]) BY <1>5, <4>2, <4>3
      <4> QED BY <2>1, <3>2, <4>4 DEF SetFold
    <3> QED BY <3>1, <3>2
  <2> HIDE DEF Raw
  <2>3. Is(g) BY <2>1, <2>2
  <2> QED BY <2>3
<1>11. PICK a : a = CHOOSE g : Is(g) OBVIOUS
<1> HIDE DEF Is
<1>12. Is(a) BY <1>10, <1>11
<1>13. \A s \in SUBSET (1 .. n) : a[s] = Raw(a, s)
  <2> HIDE DEF Raw
  <2> QED BY <1>12 DEF Is
<1>14. a[{}] = base BY <1>13
<1>15. ASSUME NEW s \in SUBSET (1 .. n), s # {}, a[s \ {Max(s)}] \in V
       PROVE  a[s] = f[<<a[s \ {Max(s)}], parts[Max(s)]>>]
  <2>1. Max(s) \in s BY <1>1, <1>15, TopOf
  <2>2. parts[Max(s)] \in D BY <1>1, <1>3, <2>1, ElementOfSeq
  <2> QED BY <1>5, <1>13, <1>15, <2>2
<1>16. a[1 .. n] \in V /\ FoldsTo(f, base, parts, a[1 .. n])
  <2> HIDE DEF Raw
  <2>1. parts \in Seq(D) BY <1>3
  <2>2. \A s \in SUBSET (1 .. Len(parts)) : s # {} /\ a[s \ {Max(s)}] \in V
          => a[s] = f[<<a[s \ {Max(s)}], parts[Max(s)]>>]
    BY <1>1, <1>15
  <2> QED BY <1>1, <1>6, <1>8, <1>14, <2>1, <2>2, SetFoldRuns
<1> QED BY <1>2, <1>4, <1>7, <1>9, <1>11, <1>16

\* What a segment more adds to the joined text.
LEMMA SlashesGrow ==
    ASSUME NEW C, "/" \in C
    PROVE  /\ Slashes(<<>>) = <<>>
           /\ \A parts \in Seq(Seq(C)) : \A seg \in Seq(C) :
                 Slashes(parts) \in Seq(C) /\ Slashes(Append(parts, seg)) = Joined(Slashes(parts), seg)
<1>1. FoldsTo(JoinedOf(Seq(C)), <<>>, <<>>, Slashes(<<>>))
  <2>1. <<>> \in Seq(Seq(C)) OBVIOUS
  <2> QED BY <2>1, SlashesFold
<1>2. Slashes(<<>>) = <<>> BY <1>1 DEF FoldsTo
<1>3. ASSUME NEW parts \in Seq(Seq(C)), NEW seg \in Seq(C)
      PROVE  Slashes(parts) \in Seq(C) /\ Slashes(Append(parts, seg)) = Joined(Slashes(parts), seg)
  <2>1. Append(parts, seg) \in Seq(Seq(C)) OBVIOUS
  <2>2. /\ Slashes(parts) \in Seq(C) /\ FoldsTo(JoinedOf(Seq(C)), <<>>, parts, Slashes(parts))
        /\ FoldsTo(JoinedOf(Seq(C)), <<>>, Append(parts, seg), Slashes(Append(parts, seg)))
    BY <2>1, SlashesFold
  <2>3. Slashes(Append(parts, seg)) = JoinedOf(Seq(C))[<<Slashes(parts), seg>>] BY <2>2, FoldsOn
  <2> QED BY <2>2, <2>3 DEF JoinedOf
<1> QED BY <1>2, <1>3

\* The parts that normalize keeps, segment by segment.
Parts(absolute, segs) == FoldLeft(LAMBDA parts, seg : Step(absolute, parts, seg), <<>>, segs)
StepOf(absolute, V, D) == [x \in V \X D |-> Step(absolute, x[1], x[2])]
Closed(absolute, V, D) == <<>> \in V /\ \A v \in V : \A seg \in D : Step(absolute, v, seg) \in V

\* And so are the parts, in whatever set the loop stays.
LEMMA PartsFold ==
    ASSUME NEW absolute, NEW V0, NEW D0, Closed(absolute, V0, D0), NEW segs \in Seq(D0)
    PROVE  /\ Parts(absolute, segs) \in V0
           /\ FoldsTo(StepOf(absolute, V0, D0), <<>>, segs, Parts(absolute, segs))
<1>1. PICK n : n = Len(segs) /\ n \in Nat /\ DOMAIN segs = 1 .. n BY LenProperties
<1>2. PICK V : V = V0 OBVIOUS
<1>3. PICK D : D = D0 OBVIOUS
<1>4. PICK f : f = StepOf(absolute, V0, D0) OBVIOUS
<1>5. \A v \in V : \A c \in D : /\ <<v, c>> \in V \X D /\ f[<<v, c>>] = Step(absolute, v, c)
                                /\ Step(absolute, v, c) \in V
  BY <1>2, <1>3, <1>4 DEF Closed, StepOf
<1>6. f \in [V \X D -> V] BY <1>2, <1>3, <1>4 DEF Closed, StepOf
<1>7. PICK base : base = <<>> OBVIOUS
<1>8. base \in V BY <1>2, <1>7 DEF Closed
<1> DEFINE Raw(g, s) == IF s = {} THEN base ELSE Step(absolute, g[s \ {Max(s)}], segs[Max(s)])
           Is(g) == g = [s \in SUBSET (1 .. n) |-> Raw(g, s)]
<1>9. Parts(absolute, segs) = (CHOOSE g : Is(g))[1 .. n]
  BY <1>1, <1>7 DEF Parts, FoldLeft, MapThenFoldSet
<1>10. \E g : Is(g)
  <2>1. PICK g \in [SUBSET (1 .. n) -> V] : SetFold(f, base, segs, g, n)
    BY <1>1, <1>3, <1>6, <1>8, SetFoldExists
  <2>2. ASSUME NEW s \in SUBSET (1 .. n) PROVE g[s] = Raw(g, s)
    <3>1. CASE s = {} BY <2>1, <3>1 DEF SetFold
    <3>2. CASE s # {}
      <4>1. Max(s) \in s BY <1>1, <3>2, TopOf
      <4>2. g[s \ {Max(s)}] \in V BY <2>1
      <4>3. segs[Max(s)] \in D BY <1>1, <1>3, <4>1, ElementOfSeq
      <4>4. f[<<g[s \ {Max(s)}], segs[Max(s)]>>] = Step(absolute, g[s \ {Max(s)}], segs[Max(s)]) BY <1>5, <4>2, <4>3
      <4> QED BY <2>1, <3>2, <4>4 DEF SetFold
    <3> QED BY <3>1, <3>2
  <2> HIDE DEF Raw
  <2>3. Is(g) BY <2>1, <2>2
  <2> QED BY <2>3
<1>11. PICK a : a = CHOOSE g : Is(g) OBVIOUS
<1> HIDE DEF Is
<1>12. Is(a) BY <1>10, <1>11
<1>13. \A s \in SUBSET (1 .. n) : a[s] = Raw(a, s)
  <2> HIDE DEF Raw
  <2> QED BY <1>12 DEF Is
<1>14. a[{}] = base BY <1>13
<1>15. ASSUME NEW s \in SUBSET (1 .. n), s # {}, a[s \ {Max(s)}] \in V
       PROVE  a[s] = f[<<a[s \ {Max(s)}], segs[Max(s)]>>]
  <2>1. Max(s) \in s BY <1>1, <1>15, TopOf
  <2>2. segs[Max(s)] \in D BY <1>1, <1>3, <2>1, ElementOfSeq
  <2> QED BY <1>5, <1>13, <1>15, <2>2
<1>16. a[1 .. n] \in V /\ FoldsTo(f, base, segs, a[1 .. n])
  <2> HIDE DEF Raw
  <2>1. segs \in Seq(D) BY <1>3
  <2>2. \A s \in SUBSET (1 .. Len(segs)) : s # {} /\ a[s \ {Max(s)}] \in V
          => a[s] = f[<<a[s \ {Max(s)}], segs[Max(s)]>>]
    BY <1>1, <1>15
  <2> QED BY <1>1, <1>6, <1>8, <1>14, <2>1, <2>2, SetFoldRuns
<1> QED BY <1>2, <1>4, <1>7, <1>9, <1>11, <1>16

\* What a segment more does to the parts.
LEMMA PartsGrow ==
    ASSUME NEW absolute, NEW V, NEW D, Closed(absolute, V, D)
    PROVE  /\ Parts(absolute, <<>>) = <<>>
           /\ \A segs \in Seq(D) : \A seg \in D :
                 /\ Parts(absolute, segs) \in V
                 /\ Parts(absolute, Append(segs, seg)) = Step(absolute, Parts(absolute, segs), seg)
<1>1. FoldsTo(StepOf(absolute, V, D), <<>>, <<>>, Parts(absolute, <<>>))
  <2>1. <<>> \in Seq(D) OBVIOUS
  <2> QED BY <2>1, PartsFold
<1>2. Parts(absolute, <<>>) = <<>> BY <1>1 DEF FoldsTo
<1>3. ASSUME NEW segs \in Seq(D), NEW seg \in D
      PROVE  /\ Parts(absolute, segs) \in V
             /\ Parts(absolute, Append(segs, seg)) = Step(absolute, Parts(absolute, segs), seg)
  <2>1. Append(segs, seg) \in Seq(D) OBVIOUS
  <2>2. /\ Parts(absolute, segs) \in V
        /\ FoldsTo(StepOf(absolute, V, D), <<>>, segs, Parts(absolute, segs))
        /\ FoldsTo(StepOf(absolute, V, D), <<>>, Append(segs, seg), Parts(absolute, Append(segs, seg)))
    BY <2>1, PartsFold
  <2>3. Parts(absolute, Append(segs, seg)) = StepOf(absolute, V, D)[<<Parts(absolute, segs), seg>>]
    BY <2>2, FoldsOn
  <2> QED BY <2>2, <2>3 DEF StepOf
<1> QED BY <1>2, <1>3

-----------------------------------------------------------------------------

AppendsAfter(S, s, t, c) ==
    Append(s \o t, c) = s \o Append(t, c) /\ Append(t, c) \in Seq(S) /\ s \o t \in Seq(S)
\* To append to the end of a text is to append to its last part.
LEMMA AppendAfter ==
    ASSUME NEW S, NEW s \in Seq(S), NEW t \in Seq(S), NEW c \in S
    PROVE  AppendsAfter(S, s, t, c)
<1>1. PICK one : one = <<c>> OBVIOUS
<1>2. one \in Seq(S) BY <1>1
<1>3. PICK st : st = s \o t OBVIOUS
<1>4. st \in Seq(S) BY <1>3, ConcatProperties
<1>5. Append(st, c) = st \o one BY <1>1, <1>4, AppendIsConcat
<1>6. Append(t, c) = t \o one BY <1>1, AppendIsConcat
<1>7. (s \o t) \o one = s \o (t \o one) BY <1>2, ConcatAssociative, SMTT(30)
<1>8. Append(t, c) \in Seq(S) BY AppendProperties
<1> QED BY <1>3, <1>4, <1>5, <1>6, <1>7, <1>8 DEF AppendsAfter

\* The slash is none of the other characters.
LEMMA SlashApart ==
    ASSUME NEW W, "/" \notin W
    PROVE  /\ W \subseteq WithSlash(W) /\ "/" \in WithSlash(W)
           /\ \A c \in W : c # "/"
           /\ Seq(W) \subseteq Seq(WithSlash(W))
           /\ <<>> \in Seq(W) /\ <<"/">> \in Seq(WithSlash(W))
<1>1. W \subseteq WithSlash(W) /\ "/" \in WithSlash(W) /\ \A c \in W : c # "/" BY DEF WithSlash
<1>2. Seq(W) \subseteq Seq(WithSlash(W)) BY <1>1, SeqMonotonic
<1>3. <<>> \in Seq(W) /\ <<"/">> \in Seq(WithSlash(W)) BY <1>1
<1> QED BY <1>1, <1>2, <1>3

\* A character that is no slash goes to the last segment.
LEMMA GrownLast ==
    ASSUME NEW W, "/" \notin W, NEW init \in Seq(Seq(W)), NEW last \in Seq(W), NEW c \in W
    PROVE  Grown(Append(init, last), c) = Append(init, Append(last, c))
<1>1. PICK segs : segs = Append(init, last) OBVIOUS
<1>2. PICK n : n = Len(init) + 1 OBVIOUS
<1>3. PICK more : more = Append(last, c) OBVIOUS
<1>4. /\ Len(init) \in Nat /\ segs \in Seq(Seq(W)) /\ Len(segs) = n /\ segs[n] = last
      /\ \A i \in 1 .. Len(init) : segs[i] = init[i]
  BY <1>1, <1>2, AppendProperties, LenProperties
<1>5. more \in Seq(W) BY <1>3, AppendProperties
<1>6. PICK out : out = Append(init, more) OBVIOUS
<1>7. /\ out \in Seq(Seq(W)) /\ Len(out) = n /\ out[n] = more
      /\ \A i \in 1 .. Len(init) : out[i] = init[i]
  BY <1>2, <1>5, <1>6, AppendProperties
<1>8. n \in 1 .. Len(segs) BY <1>2, <1>4
<1>9. PICK got : got = [segs EXCEPT ![n] = more] OBVIOUS
<1>10. /\ got \in Seq(Seq(W)) /\ Len(got) = n
       /\ \A j \in 1 .. n : got[j] = IF j = n THEN more ELSE segs[j]
  BY <1>4, <1>5, <1>8, <1>9, ExceptSeq
<1>11. \A j \in 1 .. n : got[j] = out[j]
  <2> TAKE j \in 1 .. n
  <2>1. j # n => j \in 1 .. Len(init) BY <1>2, <1>4
  <2> QED BY <1>4, <1>7, <1>10, <2>1
<1>12. got = out BY <1>7, <1>10, <1>11, SeqEqual
<1>13. c # "/" OBVIOUS
<1>14. Grown(segs, c) = got BY <1>3, <1>4, <1>9, <1>13 DEF Grown
<1> QED BY <1>1, <1>3, <1>6, <1>12, <1>14

\* A name goes to the last segment.
LEMMA SegmentsRest ==
    ASSUME NEW W, "/" \notin W, NEW p \in Seq(WithSlash(W)),
           NEW init \in Seq(Seq(W)), NEW last \in Seq(W), Segments(p) = Append(init, last)
    PROVE  \A q \in Seq(W) : Segments(p \o q) = Append(init, last \o q)
<1>1. PICK S : S = {q \in Seq(W) : Segments(p \o q) = Append(init, last \o q)} OBVIOUS
<1>2. <<>> \in S
  <2>1. p \o <<>> = p /\ last \o <<>> = last BY ConcatEmptySeq
  <2> QED BY <1>1, <2>1
<1>3. ASSUME NEW q \in Seq(W), NEW c \in W, q \in S PROVE Append(q, c) \in S
  <2>1. q \in Seq(WithSlash(W)) /\ c \in WithSlash(W) BY SlashApart
  <2>2. PICK pq, lq : pq = p \o q /\ lq = last \o q OBVIOUS
  <2>3. AppendsAfter(WithSlash(W), p, q, c) /\ AppendsAfter(W, last, q, c) BY <2>1, AppendAfter
  <2>4. pq \in Seq(WithSlash(W)) /\ lq \in Seq(W) BY <2>2, <2>3 DEF AppendsAfter
  <2>5. Segments(Append(pq, c)) = Grown(Segments(pq), c) BY <2>1, <2>4, SegmentsGrow
  <2>6. Segments(pq) = Append(init, lq) BY <1>1, <1>3, <2>2
  <2>7. Grown(Append(init, lq), c) = Append(init, Append(lq, c)) BY <2>4, GrownLast
  <2>8. Append(pq, c) = p \o Append(q, c) /\ Append(lq, c) = last \o Append(q, c)
    BY <2>2, <2>3 DEF AppendsAfter
  <2>9. Append(q, c) \in Seq(W) BY <2>3 DEF AppendsAfter
  <2> QED BY <1>1, <2>5, <2>6, <2>7, <2>8, <2>9
<1>4. \A q \in Seq(W) : q \in S BY <1>2, <1>3, Growing
<1> QED BY <1>1, <1>4

\* A name after a slash is a segment more.
LEMMA SegmentsMore ==
    ASSUME NEW W, "/" \notin W, NEW q \in Seq(W)
    PROVE  /\ Segments(q) = <<q>>
           /\ \A p \in Seq(WithSlash(W)) : /\ Segments(p) \in Seq(Seq(W))
                                           /\ Segments(p \o <<"/">> \o q) = Append(Segments(p), q)
<1>1. <<>> \in Seq(WithSlash(W)) /\ <<>> \in Seq(W) /\ <<>> \in Seq(Seq(W)) OBVIOUS
<1>2. <<>> \o q = q BY ConcatEmptySeq
<1>3. Segments(q) = <<q>>
  <2>1. Segments(<<>>) = Append(<<>>, <<>>) BY SegmentsGrow
  <2>2. Segments(<<>> \o q) = Append(<<>>, <<>> \o q) BY <1>1, <2>1, SegmentsRest
  <2> QED BY <1>2, <2>2
<1>4. ASSUME NEW p \in Seq(WithSlash(W))
      PROVE  /\ Segments(p) \in Seq(Seq(W))
             /\ Segments(p \o <<"/">> \o q) = Append(Segments(p), q)
  <2>1. "/" \in WithSlash(W) BY SlashApart
  <2>2. Append(p, "/") \in Seq(WithSlash(W)) /\ Append(p, "/") = p \o <<"/">>
    BY <2>1, AppendProperties, AppendIsConcat
  <2>3. Segments(p) \in Some(Seq(W)) /\ Segments(Append(p, "/")) = Grown(Segments(p), "/")
    BY <2>1, SegmentsGrow
  <2>4. Segments(p) \in Seq(Seq(W)) BY <2>3 DEF Some
  <2>5. Segments(p \o <<"/">>) = Append(Segments(p), <<>>) BY <2>2, <2>3 DEF Grown
  <2>6. PICK at, empty, segs : at = p \o <<"/">> /\ empty = <<>> /\ segs = Segments(p) OBVIOUS
  <2>7. /\ at \in Seq(WithSlash(W)) /\ empty \in Seq(W) /\ segs \in Seq(Seq(W))
        /\ Segments(at) = Append(segs, empty)
    BY <1>1, <2>2, <2>4, <2>5, <2>6
  <2>8. Segments(at \o q) = Append(segs, empty \o q) BY <2>7, SegmentsRest
  <2> QED BY <1>2, <2>4, <2>6, <2>8
<1> QED BY <1>3, <1>4

\* Names joined with slashes are the segments of what comes out.
LEMMA SegmentsOfSlashes ==
    ASSUME NEW W, "/" \notin W, NEW parts \in Seq(Some(W))
    PROVE  /\ Slashes(parts) \in Seq(WithSlash(W))
           /\ parts = <<>> => Slashes(parts) = <<>>
           /\ parts # <<>> => Slashes(parts) # <<>> /\ Segments(Slashes(parts)) = parts
<1> DEFINE N == Some(W)
           Right(s) == /\ s = <<>> => Slashes(s) = <<>>
                       /\ s # <<>> => Slashes(s) # <<>> /\ Segments(Slashes(s)) = s
<1>1. PICK S : S = {s \in Seq(N) : Right(s)} OBVIOUS
<1>2. N \subseteq Seq(WithSlash(W)) BY SlashApart DEF Some
<1>3. Seq(N) \subseteq Seq(Seq(WithSlash(W))) /\ Seq(N) \subseteq Seq(Seq(W))
  <2>1. N \subseteq Seq(W) BY DEF Some
  <2> HIDE DEF N
  <2> QED BY <1>2, <2>1, SeqMonotonic
<1>4. "/" \in WithSlash(W) BY SlashApart
<1>5. ASSUME NEW s \in Seq(N), NEW q \in N, s \in S PROVE Append(s, q) \in S
  <2>1. Slashes(s) \in Seq(WithSlash(W)) /\ Slashes(Append(s, q)) = Joined(Slashes(s), q)
    BY <1>2, <1>3, <1>4, SlashesGrow
  <2>2. q \in Seq(W) /\ q # <<>> BY DEF Some
  <2>3. Append(s, q) # <<>> /\ Append(s, q) \in Seq(N)
    <3> HIDE DEF N
    <3> QED BY AppendProperties
  <2>4. CASE s = <<>>
    <3>1. Slashes(s) = <<>> BY <1>1, <1>5, <2>4
    <3>2. Slashes(Append(s, q)) = q BY <2>1, <3>1 DEF Joined
    <3>3. Segments(q) = <<q>> /\ Append(s, q) = <<q>> BY <2>2, <2>4, SegmentsMore
    <3> QED BY <1>1, <2>2, <2>3, <3>2, <3>3
  <2>5. CASE s # <<>>
    <3>1. Slashes(s) # <<>> /\ Segments(Slashes(s)) = s BY <1>1, <1>5, <2>5
    <3>2. Slashes(Append(s, q)) = Slashes(s) \o <<"/">> \o q BY <2>1, <3>1 DEF Joined
    <3>3. Segments(Slashes(s) \o <<"/">> \o q) = Append(s, q) BY <2>1, <2>2, <3>1, SegmentsMore
    <3>4. <<"/">> \in Seq(WithSlash(W)) /\ <<"/">> # <<>> BY SlashApart
    <3>5. Slashes(s) \o <<"/">> \in Seq(WithSlash(W)) /\ Slashes(s) \o <<"/">> # <<>>
      BY <2>1, <3>4, ConcatProperties, ConcatEqualIffEmpty
    <3>6. (Slashes(s) \o <<"/">>) \o q # <<>> BY <1>2, <3>5, ConcatEqualIffEmpty
    <3> QED BY <1>1, <2>3, <3>2, <3>3, <3>6
  <2> QED BY <2>4, <2>5
<1>6. <<>> \in S
  <2>1. Slashes(<<>>) = <<>> BY <1>4, SlashesGrow
  <2>2. <<>> \in Seq(N) BY EmptySeq
  <2> QED BY <1>1, <2>1, <2>2
<1>7. parts \in S BY <1>5, <1>6, Growing
<1>8. Slashes(parts) \in Seq(WithSlash(W)) BY <1>3, <1>4, SlashesFold
<1> QED BY <1>1, <1>7, <1>8

-----------------------------------------------------------------------------

\* The names that normalize keeps below a root.
Clean(W) == {s \in Seq(W) : s \notin {<<>>, <<".">>, Up}}

\* ".." is neither empty nor ".".
LEMMA UpFacts == Up # <<>> /\ Up # <<".">> BY DEF Up

\* One turn of normalize's loop below a root, by what the segment is.
LEMMA StepFacts ==
    ASSUME NEW W, NEW parts \in Seq(Clean(W)), NEW seg \in Seq(W)
    PROVE  /\ Step(TRUE, parts, seg) \in Seq(Clean(W))
           /\ seg \in Clean(W) => Step(TRUE, parts, seg) = Append(parts, seg)
           /\ seg \in {<<>>, <<".">>} => Step(TRUE, parts, seg) = parts
           /\ seg = Up => Step(TRUE, parts, seg) = IF parts = <<>> THEN parts ELSE Front(parts)
<1>1. CASE seg \in {<<>>, <<".">>}
  <2>1. seg # Up BY <1>1, UpFacts
  <2>2. Step(TRUE, parts, seg) = parts BY <1>1, <2>1 DEF Step
  <2>3. seg \notin Clean(W) BY <1>1 DEF Clean
  <2> QED BY <2>1, <2>2, <2>3
<1>2. CASE seg = Up
  <2>1. seg \notin {<<>>, <<".">>} BY <1>2, UpFacts
  <2>2. seg \notin Clean(W) BY <1>2 DEF Clean
  <2>3. CASE parts = <<>>
    <3>1. Step(TRUE, parts, seg) = parts BY <1>2, <2>1, <2>3 DEF Step
    <3> QED BY <2>1, <2>2, <2>3, <3>1
  <2>4. CASE parts # <<>>
    <3>1. PICK n : n = Len(parts) /\ n \in Nat \ {0} BY <2>4, EmptySeq
    <3>2. n \in 1 .. Len(parts) BY <3>1
    <3>3. parts[n] \in Clean(W) BY <3>2, ElementOfSeq
    <3>4. Last(parts) # Up BY <3>1, <3>3 DEF Last, Clean
    <3>5. Step(TRUE, parts, seg) = Front(parts) BY <1>2, <2>1, <2>4, <3>4 DEF Step
    <3>6. \A i \in 1 .. n - 1 : parts[i] \in Clean(W)
      <4> TAKE i \in 1 .. n - 1
      <4>1. i \in 1 .. Len(parts) BY <3>1
      <4> QED BY <4>1, ElementOfSeq
    <3>7. PICK m : m = n - 1 /\ m \in Int BY <3>1
    <3>8. SubSeq(parts, 1, m) \in Seq(Clean(W)) BY <3>6, <3>7, SubSeqProperties
    <3>9. Front(parts) \in Seq(Clean(W)) BY <3>1, <3>7, <3>8 DEF Front
    <3> QED BY <2>1, <2>2, <2>4, <3>5, <3>9
  <2> QED BY <2>3, <2>4
<1>3. CASE seg \notin {<<>>, <<".">>} /\ seg # Up
  <2>1. Step(TRUE, parts, seg) = Append(parts, seg) BY <1>3 DEF Step
  <2>2. seg \in Clean(W) BY <1>3 DEF Clean
  <2>3. Append(parts, seg) \in Seq(Clean(W)) BY <2>2, AppendProperties
  <2> QED BY <1>3, <2>1, <2>2, <2>3
<1> QED BY <1>1, <1>2, <1>3

\* What is kept below a root are clean names.
LEMMA PartsClean ==
    ASSUME NEW W
    PROVE  /\ Parts(TRUE, <<>>) = <<>>
           /\ \A segs \in Seq(Seq(W)) : \A seg \in Seq(W) :
                 /\ Parts(TRUE, segs) \in Seq(Clean(W))
                 /\ Parts(TRUE, Append(segs, seg)) = Step(TRUE, Parts(TRUE, segs), seg)
<1>1. <<>> \in Seq(Clean(W)) OBVIOUS
<1>2. PICK V, D, yes : V = Seq(Clean(W)) /\ D = Seq(W) /\ yes = TRUE OBVIOUS
<1>3. Closed(TRUE, V, D) BY <1>1, <1>2, StepFacts DEF Closed
<1>4. Closed(yes, V, D) BY <1>2, <1>3
<1>5. /\ Parts(yes, <<>>) = <<>>
      /\ \A segs \in Seq(D) : \A seg \in D :
            /\ Parts(yes, segs) \in V
            /\ Parts(yes, Append(segs, seg)) = Step(yes, Parts(yes, segs), seg)
  BY <1>4, PartsGrow
<1> QED BY <1>2, <1>5

\* Clean names stay.
LEMMA PartsOfClean ==
    ASSUME NEW W, NEW parts \in Seq(Clean(W))
    PROVE  Parts(TRUE, parts) = parts
<1>1. PICK S : S = {s \in Seq(Clean(W)) : Parts(TRUE, s) = s} OBVIOUS
<1>2. <<>> \in S BY <1>1, PartsClean, EmptySeq
<1>3. ASSUME NEW s \in Seq(Clean(W)), NEW e \in Clean(W), s \in S PROVE Append(s, e) \in S
  <2>1. Clean(W) \subseteq Seq(W) BY DEF Clean
  <2>2. s \in Seq(Seq(W)) /\ e \in Seq(W) BY <2>1, SeqMonotonic
  <2>3. Parts(TRUE, Append(s, e)) = Step(TRUE, Parts(TRUE, s), e) BY <2>2, PartsClean
  <2>4. Parts(TRUE, s) = s BY <1>1, <1>3
  <2>5. Step(TRUE, s, e) = Append(s, e) BY <2>2, StepFacts
  <2>6. Append(s, e) \in Seq(Clean(W)) BY AppendProperties
  <2> QED BY <1>1, <2>3, <2>4, <2>5, <2>6
<1>4. parts \in S BY <1>2, <1>3, Growing
<1> QED BY <1>1, <1>4

-----------------------------------------------------------------------------

\* The characters, those that the code names among them, and those between slashes.
Character == STRING \cup {"/", "\\", ".", ":", "localhost", "@"}
Word == Character \ {"/", "\\"}
Slash(c) == IF c = "\\" THEN "/" ELSE c
PathChar == WithSlash(Word)

\* The characters as separators and others.
LEMMA WordFacts ==
    /\ "/" \notin Word
    /\ \A c \in Character : Slash(c) \in PathChar
    /\ \A c : (IsSep(c) <=> Slash(c) = "/") /\ (~IsSep(c) => Slash(c) = c)
    /\ \A c \in PathChar : Slash(c) = c /\ c \in Character
    /\ \A c \in Word : c # "/" /\ ~IsSep(c)
    /\ "/" \in PathChar /\ IsSep("/") /\ Slash("/") = "/"
<1>1. "/" # "\\" BY Zenon
<1>2. "/" \in Character /\ "\\" \in Character BY Zenon DEF Character
<1>3. "/" \notin Word BY Zenon DEF Word
<1>4. \A c \in Character : Slash(c) \in PathChar BY <1>1, <1>2, Zenon DEF Word, Slash, PathChar, WithSlash
<1>5. \A c : (IsSep(c) <=> Slash(c) = "/") BY <1>1, <1>2, Zenon DEF Slash, IsSep
<1>6. \A c : (~IsSep(c) => Slash(c) = c) BY <1>1, <1>2, Zenon DEF Slash, IsSep
<1>7. \A c \in PathChar : Slash(c) = c /\ c \in Character
  BY <1>1, <1>2, Zenon DEF Word, Slash, PathChar, WithSlash
<1>8. \A c \in Word : c # "/" /\ ~IsSep(c) BY Zenon DEF Word, IsSep
<1>9. "/" \in PathChar /\ IsSep("/") /\ Slash("/") = "/"
  BY <1>1, Zenon DEF Slash, PathChar, WithSlash, IsSep
<1> QED BY <1>3, <1>4, <1>5, <1>6, <1>7, <1>8, <1>9, Zenon

\* Backslashes become slashes, in place.
LEMMA SlashedFacts ==
    ASSUME NEW p \in Seq(Character)
    PROVE  /\ Slashed(p) \in Seq(PathChar) /\ Len(Slashed(p)) = Len(p)
           /\ \A i \in 1 .. Len(p) : Slashed(p)[i] = Slash(p[i])
           /\ p \in Seq(PathChar) => Slashed(p) = p
<1>1. PICK n : n = Len(p) /\ n \in Nat /\ DOMAIN p = 1 .. n BY LenProperties
<1>2. PICK s : s = [i \in 1 .. n |-> Slash(p[i])] OBVIOUS
<1>3. Slashed(p) = s BY <1>1, <1>2 DEF Slashed, Slash
<1>4. \A i \in 1 .. n : p[i] \in Character BY <1>1, ElementOfSeq
<1>5. \A i \in 1 .. n : s[i] = Slash(p[i]) /\ s[i] \in PathChar BY <1>2, <1>4, WordFacts
<1>6. s \in Seq(PathChar) /\ Len(s) = n
  <2>1. s \in [1 .. n -> PathChar] BY <1>2, <1>5
  <2> QED BY <1>1, <2>1
<1>7. ASSUME p \in Seq(PathChar) PROVE s = p
  <2>1. \A i \in 1 .. n : p[i] \in PathChar BY <1>1, <1>7, ElementOfSeq
  <2>2. \A i \in 1 .. n : s[i] = p[i] BY <1>5, <2>1, WordFacts
  <2> QED BY <1>1, <1>6, <1>7, <2>2, SeqEqual
<1> QED BY <1>1, <1>3, <1>5, <1>6, <1>7

\* A prefix, position by position.
LEMMA PrefixIs ==
    ASSUME NEW D, NEW E, NEW s \in Seq(E), NEW p \in Seq(D)
    PROVE  IsPrefix(s, p) <=> Len(s) <= Len(p) /\ \A i \in 1 .. Len(s) : s[i] = p[i]
<1>1. PICK n : n = Len(s) /\ n \in Nat BY LenProperties
<1>2. Len(p) \in Nat BY LenProperties
<1>3. SubSeq(s, 1, n) = s BY <1>1, SubSeqFull
<1> SUFFICES ASSUME n <= Len(p) PROVE SubSeq(p, 1, n) = s <=> \A i \in 1 .. n : s[i] = p[i]
  BY <1>1, <1>3 DEF IsPrefix
<1>4. \A i \in 1 .. n : p[i] \in D
  <2> TAKE i \in 1 .. n
  <2>1. i \in 1 .. Len(p) BY <1>1, <1>2
  <2> QED BY <2>1, ElementOfSeq
<1>5. PICK q : q = SubSeq(p, 1, n) OBVIOUS
<1>6. q \in Seq(D) /\ Len(q) = n /\ \A i \in 1 .. n : q[i] = p[i]
  <2>1. 1 \in Int /\ n \in Int BY <1>1
  <2>2. /\ q \in Seq(D) /\ Len(q) = IF 1 <= n THEN n - 1 + 1 ELSE 0
        /\ \A i \in 1 .. n - 1 + 1 : q[i] = p[1 + i - 1]
    BY <1>4, <1>5, <2>1, SubSeqProperties
  <2> QED BY <1>1, <2>2
<1>7. ASSUME \A i \in 1 .. n : s[i] = p[i] PROVE q = s
  <2>1. PICK A : A = D \cup E OBVIOUS
  <2>2. q \in Seq(A) /\ s \in Seq(A)
    <3>1. D \subseteq A /\ E \subseteq A BY <2>1
    <3> QED BY <1>6, <3>1, SeqMonotonic
  <2> QED BY <1>1, <1>6, <1>7, <2>2, SeqEqual
<1> QED BY <1>5, <1>6, <1>7

\* The prefixes of one and of two characters.
LEMMA PrefixFacts ==
    ASSUME NEW D, NEW p \in Seq(D), NEW a, NEW b
    PROVE  /\ IsPrefix(<<a>>, p) <=> Len(p) >= 1 /\ p[1] = a
           /\ IsPrefix(<<a, b>>, p) <=> Len(p) >= 2 /\ p[1] = a /\ p[2] = b
<1>1. Len(p) \in Nat BY LenProperties
<1>2. PICK one, two : one = <<a>> /\ two = <<a, b>> OBVIOUS
<1>3. PICK E : E = {a, b} OBVIOUS
<1>4. one \in Seq(E) /\ Len(one) = 1 /\ one[1] = a BY <1>2, <1>3
<1>5. two \in Seq(E) /\ Len(two) = 2 /\ two[1] = a /\ two[2] = b BY <1>2, <1>3
<1>6. IsPrefix(one, p) <=> 1 <= Len(p) /\ \A i \in 1 .. 1 : one[i] = p[i] BY <1>4, PrefixIs, SMTT(30)
<1>10. IsPrefix(two, p) <=> Len(two) <= Len(p) /\ \A i \in 1 .. Len(two) : two[i] = p[i]
  <2>1. two \in Seq(E) BY <1>5
  <2> QED BY <2>1, PrefixIs
<1>7. IsPrefix(two, p) <=> 2 <= Len(p) /\ \A i \in 1 .. 2 : two[i] = p[i] BY <1>5, <1>10
<1>8. IsPrefix(one, p) <=> Len(p) >= 1 /\ p[1] = a BY <1>1, <1>4, <1>6
<1>9. IsPrefix(two, p) <=> Len(p) >= 2 /\ p[1] = a /\ p[2] = b
  <2>1. 1 .. 2 = {1, 2} OBVIOUS
  <2> QED BY <1>1, <1>5, <1>7, <2>1
<1> QED BY <1>2, <1>8, <1>9

-----------------------------------------------------------------------------

\* The roots of normal paths.
Drive(d) == <<d, ":", "/">>
IsRoot(a) == \/ a = <<"/">> \/ a = Unc
             \/ \E d \in DOMAIN LowerCase : LowerCase[d] = d /\ a = Drive(d)

\* Drive letters, ":" and "." are no separators; lower case stays.
LEMMA LetterFacts ==
    /\ \A d \in DOMAIN LowerCase :
          /\ ~IsSep(d) /\ d # "/" /\ d \in Word /\ Slash(d) = d
          /\ Lower(d) = LowerCase[d] /\ LowerCase[d] \in DOMAIN LowerCase
          /\ LowerCase[LowerCase[d]] = LowerCase[d]
    /\ ~IsSep(":") /\ ":" # "/" /\ ":" \in Word /\ Slash(":") = ":"
    /\ ~IsSep(".") /\ "." # "/" /\ "." \in Word
<1>1. ~IsSep(":") /\ ~IsSep(".") /\ IsSep("/") BY Zenon DEF IsSep
<1>2. ":" \in Word /\ "." \in Word BY Zenon DEF Word, Character
<1>3. ASSUME NEW d \in DOMAIN LowerCase PROVE d \in Word
  <2>1. d \in STRING /\ ~IsSep(d) BY LowerCaseAssumption, Zenon
  <2>2. d \in STRING \cup {"/", "\\", ".", ":", "localhost", "@"} BY <2>1, Zenon
  <2>3. d \notin {"/", "\\"} BY <2>1, Zenon DEF IsSep
  <2> QED BY <2>2, <2>3, Zenon DEF Word, Character
<1>4. ASSUME NEW d \in DOMAIN LowerCase
      PROVE  ~IsSep(d) /\ d # "/" /\ Slash(d) = d
  <2>1. ~IsSep(d) BY LowerCaseAssumption, Zenon
  <2>2. d # "/" BY <1>1, <2>1, Zenon
  <2> QED BY <2>1, <2>2, WordFacts
<1>5. ASSUME NEW d \in DOMAIN LowerCase
      PROVE  /\ Lower(d) = LowerCase[d] /\ LowerCase[d] \in DOMAIN LowerCase
             /\ LowerCase[LowerCase[d]] = LowerCase[d]
  BY LowerCaseAssumption, Zenon DEF Lower
<1>6. ":" # "/" /\ "." # "/" BY Zenon
<1>7. Slash(":") = ":" BY <1>1, WordFacts
<1> QED BY <1>1, <1>2, <1>3, <1>4, <1>5, <1>6, <1>7, Zenon

\* Slashes do not change whether a path starts with a drive.
LEMMA DriveFacts ==
    ASSUME NEW p \in Seq(Character)
    PROVE  /\ IsDriveAt(Slashed(p)) <=> IsDriveAt(p)
           /\ IsDriveAt(p) => /\ Len(p) >= 2 /\ Slashed(p)[1] = p[1] /\ Slashed(p)[2] = ":"
                              /\ p[1] \in DOMAIN LowerCase /\ p[2] = ":" /\ ~IsSep(p[1])
<1>1. PICK s, n : s = Slashed(p) /\ n = Len(p) OBVIOUS
<1>2. n \in Nat /\ Len(s) = n /\ \A i \in 1 .. n : s[i] = Slash(p[i]) BY <1>1, SlashedFacts, LenProperties
<1>3. ASSUME IsDriveAt(p)
      PROVE  /\ IsDriveAt(s) /\ n >= 2 /\ s[1] = p[1] /\ s[2] = ":"
             /\ p[1] \in DOMAIN LowerCase /\ p[2] = ":" /\ ~IsSep(p[1])
  <2>1. n >= 2 /\ p[1] \in DOMAIN LowerCase /\ p[2] = ":" BY <1>1, <1>3 DEF IsDriveAt
  <2>2. s[1] = Slash(p[1]) /\ s[2] = Slash(p[2]) BY <1>2, <2>1
  <2>3. s[1] = p[1] /\ s[2] = ":" /\ ~IsSep(p[1]) BY <2>1, <2>2, LetterFacts
  <2> QED BY <1>2, <2>1, <2>3 DEF IsDriveAt
<1>4. ASSUME IsDriveAt(s) PROVE IsDriveAt(p)
  <2>1. n >= 2 /\ s[1] \in DOMAIN LowerCase /\ s[2] = ":" BY <1>2, <1>4 DEF IsDriveAt
  <2>2. s[1] = Slash(p[1]) /\ s[2] = Slash(p[2]) BY <1>2, <2>1
  <2>3. s[1] # "/" /\ s[2] # "/" BY <2>1, LetterFacts
  <2>4. ~IsSep(p[1]) /\ ~IsSep(p[2]) BY <2>2, <2>3, WordFacts
  <2>5. s[1] = p[1] /\ s[2] = p[2] BY <2>2, <2>4, WordFacts
  <2> QED BY <1>1, <2>1, <2>5 DEF IsDriveAt
<1> QED BY <1>1, <1>3, <1>4

\* A root is a short text that ends in a slash.
LEMMA RootTypes ==
    ASSUME NEW a, IsRoot(a)
    PROVE  a \in Seq(PathChar) /\ a # <<>> /\ Len(a) \in 1 .. 3 /\ Anchored(a)
<1>1. PICK D : D = PathChar OBVIOUS
<1>2. "/" \in D /\ ":" \in D /\ \A d \in DOMAIN LowerCase : d \in D
  BY <1>1, WordFacts, LetterFacts, SlashApart DEF PathChar
<1>3. CASE a = <<"/">>
  <2>1. a \in Seq(D) /\ Len(a) = 1 /\ a[1] = "/" BY <1>2, <1>3
  <2> QED BY <1>1, <2>1 DEF Anchored, Last
<1>4. CASE a = Unc
  <2>1. a \in Seq(D) /\ Len(a) = 2 /\ a[2] = "/" BY <1>2, <1>4 DEF Unc
  <2> QED BY <1>1, <2>1, SMTT(30) DEF Anchored, Last
<1>5. ASSUME NEW d \in DOMAIN LowerCase, a = Drive(d)
      PROVE  a \in Seq(PathChar) /\ a # <<>> /\ Len(a) \in 1 .. 3 /\ Anchored(a)
  <2>1. d \in D BY <1>2
  <2>2. a \in Seq(D) /\ Len(a) = 3 /\ a[3] = "/" BY <1>2, <1>5, <2>1 DEF Drive
  <2> QED BY <1>1, <2>2 DEF Anchored, Last
<1> QED BY <1>3, <1>4, <1>5 DEF IsRoot

\* A drive's root, as normalize builds it.
LEMMA DriveIs ==
    ASSUME NEW d
    PROVE  <<d, ":">> \o <<"/">> = Drive(d)
<1>1. PICK D, a, b, t : D = {d, ":", "/"} /\ a = <<d, ":">> /\ b = <<"/">> /\ t = Drive(d) OBVIOUS
<1>2. a \in Seq(D) /\ Len(a) = 2 /\ a[1] = d /\ a[2] = ":" BY <1>1
<1>3. b \in Seq(D) /\ Len(b) = 1 /\ b[1] = "/" BY <1>1
<1>4. t \in Seq(D) /\ Len(t) = 3 /\ t[1] = d /\ t[2] = ":" /\ t[3] = "/" BY <1>1 DEF Drive
<1>5. PICK ab : ab = a \o b OBVIOUS
<1>6. /\ ab \in Seq(D) /\ Len(ab) = 3
      /\ \A i \in 1 .. 3 : ab[i] = IF i <= 2 THEN a[i] ELSE b[i - 2]
  <2>1. a \in Seq(D) /\ b \in Seq(D) BY <1>2, <1>3
  <2>2. /\ ab \in Seq(D) /\ Len(ab) = Len(a) + Len(b)
        /\ \A i \in 1 .. Len(a) + Len(b) : ab[i] = IF i <= Len(a) THEN a[i] ELSE b[i - Len(a)]
    BY <1>5, <2>1, ConcatProperties
  <2> QED BY <1>2, <1>3, <2>2
<1>7. ab[1] = d /\ ab[2] = ":" /\ ab[3] = "/" BY <1>2, <1>3, <1>6
<1>8. \A i \in 1 .. 3 : ab[i] = t[i]
  <2>1. 1 .. 3 = {1, 2, 3} OBVIOUS
  <2> QED BY <1>4, <1>7, <2>1
<1>9. ab = t BY <1>4, <1>6, <1>8, SeqEqual
<1> QED BY <1>1, <1>5, <1>9

\* What an absolute path is anchored to is its root.
LEMMA RootFacts ==
    ASSUME NEW p \in Seq(Character), IsAbsolute(p)
    PROVE  /\ IsRoot(RootOf(p)) /\ Anchor(Slashed(p)) = RootOf(p)
           /\ Len(RootOf(p)) <= Len(p)
<1>1. PICK s, n : s = Slashed(p) /\ n = Len(p) OBVIOUS
<1>2. /\ n \in Nat /\ s \in Seq(PathChar) /\ Len(s) = n
      /\ \A i \in 1 .. n : s[i] = Slash(p[i])
  BY <1>1, SlashedFacts, LenProperties
<1>3. \A i \in 1 .. n : IsSep(p[i]) <=> s[i] = "/" BY <1>2, WordFacts
<1>4. \/ n >= 1 /\ IsSep(p[1])
      \/ n >= 3 /\ IsDriveAt(p) /\ IsSep(p[3])
  <2>1. p # <<>> => n # 0 BY <1>1, EmptySeq
  <2> QED BY <1>1, <1>2, <2>1 DEF IsAbsolute
<1>5. /\ IsPrefix(<<"/">>, s) <=> n >= 1 /\ s[1] = "/"
      /\ IsPrefix(Unc, s) <=> n >= 2 /\ s[1] = "/" /\ s[2] = "/"
  BY <1>2, PrefixFacts DEF Unc
<1>6. CASE IsDriveAt(p)
  <2>1. /\ ~IsSep(p[1]) /\ p[1] \in DOMAIN LowerCase /\ s[1] = p[1] /\ IsDriveAt(s)
        /\ n >= 3 /\ IsSep(p[3])
    BY <1>1, <1>4, <1>6, DriveFacts
  <2>2. s[3] = "/" BY <1>2, <1>3, <2>1
  <2>3. s[1] # "/" BY <2>1, LetterFacts
  <2>4. PICK d : d = Lower(p[1]) OBVIOUS
  <2>5. d \in DOMAIN LowerCase /\ LowerCase[d] = d BY <2>1, <2>4, LetterFacts
  <2>6. RootOf(p) = Drive(d) BY <1>6, <2>1, <2>4 DEF RootOf, Drive
  <2>7. Anchor(s) = <<d, ":">> \o <<"/">> BY <1>2, <1>5, <2>1, <2>2, <2>3, <2>4 DEF Anchor
  <2>8. <<d, ":">> \o <<"/">> = Drive(d) BY DriveIs
  <2>9. IsRoot(RootOf(p)) BY <2>5, <2>6 DEF IsRoot
  <2>10. Len(Drive(d)) = 3 BY DEF Drive
  <2> QED BY <1>1, <1>2, <2>1, <2>6, <2>7, <2>8, <2>9, <2>10
<1>7. CASE ~IsDriveAt(p)
  <2>1. n >= 1 /\ IsSep(p[1]) /\ s[1] = "/" /\ ~IsDriveAt(s) BY <1>1, <1>2, <1>3, <1>4, <1>7, DriveFacts
  <2>2. CASE n >= 2 /\ IsSep(p[2])
    <3>1. s[2] = "/" BY <1>2, <1>3, <2>2
    <3>2. RootOf(p) = Unc BY <1>1, <1>2, <1>7, <2>1, <2>2 DEF RootOf
    <3>3. Anchor(s) = Unc BY <1>5, <2>1, <2>2, <3>1 DEF Anchor
    <3>4. Len(Unc) = 2 BY DEF Unc
    <3> QED BY <1>1, <1>2, <2>2, <3>2, <3>3, <3>4 DEF IsRoot
  <2>3. CASE ~(n >= 2 /\ IsSep(p[2]))
    <3>1. ~IsPrefix(Unc, s) /\ IsPrefix(<<"/">>, s) BY <1>2, <1>3, <1>5, <2>1, <2>3
    <3>2. RootOf(p) = <<"/">> BY <1>1, <1>2, <1>7, <2>1, <2>3 DEF RootOf
    <3>3. Anchor(s) = <<"/">> BY <2>1, <3>1 DEF Anchor
    <3>4. Len(<<"/">>) = 1 OBVIOUS
    <3> QED BY <1>1, <1>2, <2>1, <3>2, <3>3, <3>4 DEF IsRoot
  <2> QED BY <2>2, <2>3
<1> QED BY <1>6, <1>7

-----------------------------------------------------------------------------

\* Names joined start with a name.
LEMMA SlashesStart ==
    ASSUME NEW W, "/" \notin W, NEW parts \in Seq(Clean(W))
    PROVE  /\ Slashes(parts) \in Seq(WithSlash(W))
           /\ parts \in Seq(Some(W))
           /\ parts = <<>> => Slashes(parts) = <<>>
           /\ parts # <<>> => /\ Slashes(parts) # <<>> /\ Slashes(parts)[1] \in W
                              /\ Segments(Slashes(parts)) = parts
<1> DEFINE N == Some(W)
<1>1. PICK S : S = {s \in Seq(N) : s # <<>> => Slashes(s)[1] \in W} OBVIOUS
<1>2. N \subseteq Seq(W) /\ Clean(W) \subseteq N BY DEF Clean, Some
<1>3. N \subseteq Seq(WithSlash(W)) BY SlashApart DEF Some
<1> HIDE DEF N
<1>4. parts \in Seq(N) BY <1>2, SeqMonotonic
<1>5. <<>> \in S BY <1>1, EmptySeq
<1>6. ASSUME NEW s \in Seq(N), NEW q \in N, s \in S PROVE Append(s, q) \in S
  <2>1. "/" \in WithSlash(W) /\ s \in Seq(Seq(WithSlash(W))) BY <1>3, SlashApart, SeqMonotonic
  <2>2. /\ Slashes(s) \in Seq(WithSlash(W)) /\ Slashes(Append(s, q)) = Joined(Slashes(s), q)
        /\ q \in Seq(WithSlash(W))
    BY <1>3, <2>1, SlashesGrow
  <2>3. q \in Seq(W) /\ q # <<>> BY DEF N, Some
  <2>4. q[1] \in W
    <3>1. Len(q) \in Nat \ {0} BY <2>3, EmptySeq
    <3>2. 1 \in 1 .. Len(q) BY <3>1
    <3> QED BY <2>3, <3>2, ElementOfSeq
  <2>5. Slashes(Append(s, q))[1] \in W
    <3>1. CASE s = <<>>
      <4>1. Slashes(s) = <<>> BY <2>1, <3>1, SlashesGrow
      <4> QED BY <2>2, <2>4, <4>1 DEF Joined
    <3>2. CASE s # <<>>
      <4>1. s \in Seq(Some(W)) BY DEF N
      <4>2. Slashes(s) # <<>> BY <3>2, <4>1, SegmentsOfSlashes
      <4>3. PICK t, sl : t = Slashes(s) /\ sl = <<"/">> OBVIOUS
      <4>4. t \in Seq(WithSlash(W)) /\ sl \in Seq(WithSlash(W)) BY <2>2, <4>3, SlashApart
      <4>5. Slashes(Append(s, q)) = (t \o sl) \o q BY <2>2, <4>2, <4>3 DEF Joined
      <4>6. (t \o sl) \o q = t \o (sl \o q) BY <2>2, <4>4, ConcatAssociative, SMTT(30)
      <4>7. PICK r : r = sl \o q OBVIOUS
      <4>8. r \in Seq(WithSlash(W)) BY <2>2, <4>4, <4>7, ConcatProperties
      <4>9. Len(t) \in Nat \ {0} /\ Len(r) \in Nat BY <4>2, <4>3, <4>4, <4>8, EmptySeq, LenProperties
      <4>10. \A i \in 1 .. Len(t) + Len(r) : (t \o r)[i] = IF i <= Len(t) THEN t[i] ELSE r[i - Len(t)]
        BY <4>4, <4>8, ConcatProperties
      <4>11. (t \o r)[1] = t[1]
        <5>1. 1 \in 1 .. Len(t) + Len(r) /\ 1 <= Len(t) BY <4>9
        <5> QED BY <4>10, <5>1
      <4>12. t[1] \in W BY <1>1, <1>6, <3>2, <4>3
      <4> QED BY <4>5, <4>6, <4>7, <4>11, <4>12
    <3> QED BY <3>1, <3>2
  <2>6. Append(s, q) \in Seq(N) BY AppendProperties
  <2> QED BY <1>1, <2>5, <2>6
<1>7. parts \in S BY <1>4, <1>5, <1>6, Growing
<1>8. parts \in Seq(Some(W)) BY <1>4 DEF N
<1> QED BY <1>1, <1>7, <1>8, SegmentsOfSlashes

\* The normal spelling of an absolute path: its root, then what its segments leave.
Names(p) == Parts(TRUE, Segments(Slashed(Below(p))))

\* An absolute path is normalised to its root and its names.
LEMMA NormalForm ==
    ASSUME NEW p \in Seq(Character), IsAbsolute(p)
    PROVE  /\ Normalize(p) = RootOf(p) \o Slashes(Names(p))
           /\ Below(p) \in Seq(Character) /\ Names(p) \in Seq(Clean(Word))
<1>1. PICK s, n, a : s = Slashed(p) /\ n = Len(p) /\ a = RootOf(p) OBVIOUS
<1>2. /\ n \in Nat /\ s \in Seq(PathChar) /\ Len(s) = n
      /\ \A i \in 1 .. n : s[i] = Slash(p[i])
  BY <1>1, SlashedFacts, LenProperties
<1>3. IsRoot(a) /\ Anchor(s) = a /\ Len(a) <= n BY <1>1, RootFacts
<1>4. a \in Seq(PathChar) /\ a # <<>> /\ Len(a) \in 1 .. 3 /\ Anchored(a) BY <1>3, RootTypes
<1>5. PICK m : m = Len(a) + 1 /\ m \in Nat /\ m <= n + 1 BY <1>2, <1>3, <1>4
<1>6. PICK b, c : b = SubSeq(p, m, n) /\ c = SubSeq(s, m, n) OBVIOUS
<1>7. /\ b \in Seq(Character) /\ Len(b) = n - m + 1
      /\ \A i \in 1 .. n - m + 1 : b[i] = p[m + i - 1]
  <2>1. \A i \in m .. n : p[i] \in Character
    <3> TAKE i \in m .. n
    <3>1. i \in 1 .. Len(p) BY <1>1, <1>2, <1>4, <1>5
    <3> QED BY <3>1, ElementOfSeq
  <2>2. m \in Int /\ n \in Int BY <1>2, <1>5
  <2>3. /\ b \in Seq(Character) /\ Len(b) = IF m <= n THEN n - m + 1 ELSE 0
        /\ \A i \in 1 .. n - m + 1 : b[i] = p[m + i - 1]
    BY <1>6, <2>1, <2>2, SubSeqProperties
  <2> QED BY <1>2, <1>5, <2>3
<1>8. /\ c \in Seq(PathChar) /\ Len(c) = n - m + 1
      /\ \A i \in 1 .. n - m + 1 : c[i] = s[m + i - 1]
  <2>1. \A i \in m .. n : s[i] \in PathChar
    <3> TAKE i \in m .. n
    <3>1. i \in 1 .. Len(s) BY <1>1, <1>2, <1>4, <1>5
    <3> QED BY <1>2, <3>1, ElementOfSeq
  <2>2. m \in Int /\ n \in Int BY <1>2, <1>5
  <2>3. /\ c \in Seq(PathChar) /\ Len(c) = IF m <= n THEN n - m + 1 ELSE 0
        /\ \A i \in 1 .. n - m + 1 : c[i] = s[m + i - 1]
    BY <1>6, <2>1, <2>2, SubSeqProperties
  <2> QED BY <1>2, <1>5, <2>3
<1>9. PICK sb : sb = Slashed(b) OBVIOUS
<1>10. sb \in Seq(PathChar) /\ Len(sb) = Len(b) /\ \A i \in 1 .. Len(b) : sb[i] = Slash(b[i])
  BY <1>7, <1>9, SlashedFacts
<1>11. \A i \in 1 .. Len(b) : sb[i] = c[i]
  <2> TAKE i \in 1 .. Len(b)
  <2>1. i \in 1 .. n - m + 1 /\ m + i - 1 \in 1 .. n BY <1>2, <1>4, <1>5, <1>7
  <2> QED BY <1>2, <1>7, <1>8, <1>10, <2>1
<1>12. sb = c BY <1>7, <1>8, <1>10, <1>11, SeqEqual
<1>13. Below(p) = b BY <1>1, <1>5, <1>6 DEF Below
<1>14. Rejoined(s, a) = a \o Slashes(Parts(Anchored(a), Segments(c)))
  BY <1>2, <1>5, <1>6 DEF Rejoined, Parts
<1>15. PICK yes : yes = Anchored(a) OBVIOUS
<1>16. yes = TRUE BY <1>4, <1>15 DEF Anchored
<1>17. Rejoined(s, a) = a \o Slashes(Names(p))
  BY <1>9, <1>12, <1>13, <1>14, <1>15, <1>16 DEF Names
<1>18. Segments(c) \in Seq(Seq(Word))
  <2>1. c \in Seq(WithSlash(Word)) /\ <<>> \in Seq(Word) BY <1>8, EmptySeq DEF PathChar
  <2> QED BY <2>1, SegmentsMore, WordFacts
<1>19. Names(p) \in Seq(Clean(Word))
  <2>1. <<>> \in Seq(Word) BY EmptySeq
  <2> QED BY <1>9, <1>12, <1>13, <1>18, <2>1, PartsClean DEF Names
<1>20. Slashes(Names(p)) \in Seq(PathChar) BY <1>19, SlashesStart, WordFacts DEF PathChar
<1>21. Rejoined(s, a) # <<>> BY <1>4, <1>17, <1>20, ConcatEqualIffEmpty
<1>22. Normalize(p) = Rejoined(s, a) BY <1>1, <1>3, <1>21 DEF Normalize, OrHere
<1> QED BY <1>1, <1>7, <1>13, <1>17, <1>19, <1>22

\* A root and clean names are a normal path already.
At(a, parts) == a \o Slashes(parts)

\* What a root and clean names make together.
LEMMA AtFacts ==
    ASSUME NEW a, IsRoot(a), NEW parts \in Seq(Clean(Word))
    PROVE  LET t == At(a, parts) IN
           /\ t \in Seq(PathChar) /\ t \in Seq(Character) /\ Slashed(t) = t
           /\ IsAbsolute(t) /\ RootOf(t) = a /\ Below(t) = Slashes(parts)
           /\ Len(t) = Len(a) + Len(Slashes(parts))
           /\ \A i \in 1 .. Len(a) : t[i] = a[i]
<1>1. PICK b, t, k : b = Slashes(parts) /\ t = a \o b /\ k = Len(a) OBVIOUS
<1>2. a \in Seq(PathChar) /\ k \in 1 .. 3 BY <1>1, RootTypes
<1>3. b \in Seq(PathChar) /\ (b = <<>> \/ b[1] \in Word)
  BY <1>1, SlashesStart, WordFacts DEF PathChar
<1>4. Len(b) \in Nat BY <1>3, LenProperties
<1>5. /\ t \in Seq(PathChar) /\ Len(t) = k + Len(b)
      /\ \A i \in 1 .. k + Len(b) : t[i] = IF i <= k THEN a[i] ELSE b[i - k]
  BY <1>1, <1>2, <1>3, ConcatProperties
<1>6. \A i \in 1 .. k : t[i] = a[i]
  <2> TAKE i \in 1 .. k
  <2>1. i \in 1 .. k + Len(b) /\ i <= k BY <1>2, <1>4
  <2> QED BY <1>5, <2>1
<1>7. Len(t) > k => ~IsSep(t[k + 1])
  <2> SUFFICES ASSUME Len(t) > k PROVE ~IsSep(t[k + 1]) OBVIOUS
  <2>1. Len(b) > 0 BY <1>2, <1>4, <1>5
  <2>2. b # <<>> BY <2>1
  <2>3. PICK j : j = k + 1 OBVIOUS
  <2>4. j \in 1 .. k + Len(b) /\ ~(j <= k) /\ j - k = 1 BY <1>2, <1>4, <2>1, <2>3
  <2>5. t[j] = b[j - k] BY <1>5, <2>4
  <2> QED BY <1>3, <2>2, <2>3, <2>4, <2>5, WordFacts
<1>8. t \in Seq(Character)
  <2>1. PathChar \subseteq Character BY WordFacts
  <2> QED BY <1>5, <2>1, SeqMonotonic
<1>9. Slashed(t) = t BY <1>5, <1>8, SlashedFacts
<1>10. t # <<>> /\ Len(t) \in Nat /\ Len(t) >= k
  <2>1. Len(t) # Len(<<>>) BY <1>2, <1>4, <1>5
  <2>2. t # <<>> BY <2>1, Zenon
  <2> QED BY <1>2, <1>4, <1>5, <2>2
<1>11. IsAbsolute(t) /\ RootOf(t) = a
  <2>1. CASE a = <<"/">>
    <3>1. k = 1 /\ t[1] = "/" BY <1>1, <1>6, <2>1
    <3>2. IsSep(t[1]) BY <3>1, WordFacts
    <3>3. ~IsDriveAt(t)
      <4>1. t[1] \notin DOMAIN LowerCase BY <3>1, LetterFacts
      <4> QED BY <4>1 DEF IsDriveAt
    <3>4. ~(Len(t) > 1 /\ IsSep(t[2])) BY <1>7, <3>1
    <3>5. RootOf(t) = <<"/">> BY <3>3, <3>4 DEF RootOf
    <3>6. IsAbsolute(t) BY <1>10, <3>2 DEF IsAbsolute
    <3> QED BY <2>1, <3>5, <3>6
  <2>2. CASE a = Unc
    <3>1. k = 2 /\ t[1] = "/" /\ t[2] = "/"
      <4>1. Len(Unc) = 2 /\ Unc[1] = "/" /\ Unc[2] = "/" BY DEF Unc
      <4>2. k = 2 BY <1>1, <2>2, <4>1
      <4>3. 1 \in 1 .. k /\ 2 \in 1 .. k BY <4>2
      <4> QED BY <1>6, <2>2, <4>1, <4>2, <4>3
    <3>2. IsSep(t[1]) /\ IsSep(t[2]) BY <3>1, WordFacts
    <3>3. Len(t) > 1 BY <1>10, <3>1
    <3>4. ~IsDriveAt(t)
      <4>1. t[1] \notin DOMAIN LowerCase BY <3>1, LetterFacts
      <4> QED BY <4>1 DEF IsDriveAt
    <3>5. RootOf(t) = Unc BY <3>2, <3>3, <3>4 DEF RootOf
    <3>6. IsAbsolute(t) BY <1>10, <3>2 DEF IsAbsolute
    <3> QED BY <2>2, <3>5, <3>6
  <2>3. ASSUME NEW d \in DOMAIN LowerCase, LowerCase[d] = d, a = Drive(d)
        PROVE  IsAbsolute(t) /\ RootOf(t) = a
    <3>1. k = 3 /\ t[1] = d /\ t[2] = ":" /\ t[3] = "/"
      <4>1. Len(Drive(d)) = 3 /\ Drive(d)[1] = d /\ Drive(d)[2] = ":" /\ Drive(d)[3] = "/" BY DEF Drive
      <4>2. k = 3 BY <1>1, <2>3, <4>1
      <4>3. 1 \in 1 .. k /\ 2 \in 1 .. k /\ 3 \in 1 .. k BY <4>2
      <4> QED BY <1>6, <2>3, <4>1, <4>2, <4>3
    <3>2. Len(t) > 2 /\ Len(t) >= 2 BY <1>10, <3>1
    <3>3. IsDriveAt(t) BY <3>1, <3>2 DEF IsDriveAt
    <3>4. ~IsSep(t[1]) /\ IsSep(t[3]) /\ Lower(t[1]) = d BY <2>3, <3>1, LetterFacts, WordFacts
    <3>5. RootOf(t) = Drive(d) BY <3>3, <3>4 DEF RootOf, Drive
    <3>6. IsAbsolute(t) BY <3>2, <3>3, <3>4 DEF IsAbsolute
    <3> QED BY <2>3, <3>5, <3>6
  <2> QED BY <2>1, <2>2, <2>3 DEF IsRoot
<1>12. Below(t) = b
  <2>1. PICK q, m, n : m = k + 1 /\ n = Len(t) /\ q = SubSeq(t, m, n) OBVIOUS
  <2>2. m \in Int /\ n \in Int /\ n = k + Len(b) BY <1>2, <1>4, <1>5, <2>1
  <2>3. \A i \in m .. n : t[i] \in PathChar
    <3> TAKE i \in m .. n
    <3>1. i \in 1 .. Len(t) BY <1>2, <1>4, <2>1, <2>2
    <3> QED BY <1>5, <3>1, ElementOfSeq
  <2>4. /\ q \in Seq(PathChar) /\ Len(q) = IF m <= n THEN n - m + 1 ELSE 0
        /\ \A i \in 1 .. n - m + 1 : q[i] = t[m + i - 1]
    BY <2>1, <2>2, <2>3, SubSeqProperties
  <2>5. Len(q) = Len(b) BY <1>2, <1>4, <2>1, <2>2, <2>4
  <2>6. \A i \in 1 .. Len(b) : q[i] = b[i]
    <3> TAKE i \in 1 .. Len(b)
    <3>1. PICK j : j = m + i - 1 OBVIOUS
    <3>2. i \in 1 .. n - m + 1 /\ j \in 1 .. k + Len(b) /\ ~(j <= k) /\ j - k = i
      BY <1>2, <1>4, <2>1, <2>2, <3>1
    <3>3. q[i] = t[j] /\ t[j] = b[j - k] BY <1>5, <2>4, <3>1, <3>2
    <3> QED BY <3>2, <3>3
  <2>7. q = b BY <1>3, <2>4, <2>5, <2>6, SeqEqual
  <2> QED BY <1>1, <1>11, <2>1, <2>7 DEF Below
<1>13. At(a, parts) = t BY <1>1 DEF At
<1> QED BY <1>1, <1>5, <1>6, <1>8, <1>9, <1>11, <1>12, <1>13

\* It is normal already.
LEMMA AtIsNormal ==
    ASSUME NEW a, IsRoot(a), NEW parts \in Seq(Clean(Word))
    PROVE  Normalize(At(a, parts)) = At(a, parts)
<1>1. PICK t : t = At(a, parts) OBVIOUS
<1>2. t \in Seq(Character) /\ IsAbsolute(t) /\ RootOf(t) = a /\ Below(t) = Slashes(parts)
  BY <1>1, AtFacts
<1>3. Normalize(t) = a \o Slashes(Names(t)) BY <1>2, NormalForm
<1>4. PICK b : b = Slashes(parts) OBVIOUS
<1>5. b \in Seq(PathChar) BY <1>4, SlashesStart, WordFacts DEF PathChar
<1>6. b \in Seq(Character)
  <2>1. PathChar \subseteq Character BY WordFacts
  <2> QED BY <1>5, <2>1, SeqMonotonic
<1>7. Slashed(b) = b BY <1>5, <1>6, SlashedFacts
<1>8. Names(t) = Parts(TRUE, Segments(b)) BY <1>2, <1>4, <1>7 DEF Names
<1>9. Names(t) = parts
  <2>1. CASE parts # <<>>
    <3>1. Segments(b) = parts BY <1>4, <2>1, SlashesStart, WordFacts
    <3> QED BY <1>8, <3>1, PartsOfClean
  <2>2. CASE parts = <<>>
    <3>1. b = <<>> BY <1>4, <2>2, SlashesStart, WordFacts
    <3>2. Segments(b) = Append(<<>>, <<>>) BY <3>1, SegmentsGrow, WordFacts
    <3>3. PICK e : e = <<>> OBVIOUS
    <3>4. e \in Seq(Word) /\ parts \in Seq(Seq(Word)) BY <2>2, <3>3, EmptySeq
    <3>5. Parts(TRUE, Append(parts, e)) = Step(TRUE, Parts(TRUE, parts), e) BY <3>4, PartsClean
    <3>6. Parts(TRUE, parts) = parts BY PartsOfClean
    <3>7. Step(TRUE, parts, e) = parts BY <3>3, <3>4, StepFacts
    <3> QED BY <1>8, <2>2, <3>2, <3>3, <3>5, <3>6, <3>7
  <2> QED BY <2>1, <2>2
<1> QED BY <1>1, <1>3, <1>9 DEF At

\* normalize is idempotent on absolute paths.
LEMMA NormalAbsolute ==
    ASSUME NEW p \in Seq(Character), IsAbsolute(p)
    PROVE  /\ IsRoot(RootOf(p)) /\ Names(p) \in Seq(Clean(Word))
           /\ Normalize(p) = At(RootOf(p), Names(p))
           /\ Normalize(Normalize(p)) = Normalize(p)
<1>1. IsRoot(RootOf(p)) BY RootFacts
<1>2. Names(p) \in Seq(Clean(Word)) /\ Normalize(p) = At(RootOf(p), Names(p)) BY NormalForm DEF At
<1> QED BY <1>1, <1>2, AtIsNormal

-----------------------------------------------------------------------------

\* Normalising an absolute path once is enough: the spelling that keys
\* documents, caches and include-once does not change when it is normalised
\* again.
THEOREM NormalIsNormal ==
    \A p \in Seq(Character) : IsAbsolute(p) => Normalize(Normalize(p)) = Normalize(p)
BY NormalAbsolute

\* What a URI encodes is decoded.
LEMMA DecodedIs ==
    ASSUME NEW D, NEW q \in Seq(D), NEW authority
    PROVE  Uri(authority, q).authority = authority /\ Decode(Uri(authority, q).path) = q
<1>1. PICK n : n = Len(q) /\ n \in Nat /\ DOMAIN q = 1 .. n /\ q \in [1 .. n -> D] BY LenProperties
<1>2. PICK e : e = [i \in 1 .. n |-> Encoded(q[i], q[i] \in Reserved)] OBVIOUS
<1>3. Uri(authority, q) = [authority |-> authority, path |-> e] BY <1>1, <1>2 DEF Uri
<1>4. DOMAIN e = 1 .. n /\ \A i \in 1 .. n : e[i].c = q[i] BY <1>2 DEF Encoded
<1>5. Decode(e) = [i \in 1 .. n |-> q[i]] BY <1>4 DEF Decode
<1>6. [i \in 1 .. n |-> q[i]] = q BY <1>1
<1>7. Uri(authority, q).authority = authority /\ Uri(authority, q).path = e BY <1>3
<1> QED BY <1>5, <1>6, <1>7

\* A slash at the end of a path with a name is lost.
LEMMA SlashLost ==
    ASSUME NEW a, IsRoot(a), NEW parts \in Seq(Clean(Word)), parts # <<>>
    PROVE  Normalize(At(a, parts) \o <<"/">>) = At(a, parts)
<1>1. PICK b, t, sl, p, k : /\ b = Slashes(parts) /\ t = At(a, parts) /\ sl = <<"/">> /\ p = t \o sl
                            /\ k = Len(a)
  OBVIOUS
<1>2. /\ t \in Seq(PathChar) /\ IsAbsolute(t) /\ RootOf(t) = a /\ Below(t) = b
      /\ Len(t) = k + Len(b)
  BY <1>1, AtFacts
<1>3. a \in Seq(PathChar) /\ k \in 1 .. 3 BY <1>1, RootTypes
<1>4. b \in Seq(PathChar) /\ b # <<>> /\ b[1] \in Word /\ Segments(b) = parts
  BY <1>1, SlashesStart, WordFacts DEF PathChar
<1>5. Len(b) \in Nat \ {0} BY <1>4, EmptySeq
<1>6. sl \in Seq(PathChar) /\ Len(sl) = 1 /\ sl[1] = "/" BY <1>1, SlashApart, WordFacts DEF PathChar
<1>7. /\ p \in Seq(PathChar) /\ Len(p) = k + Len(b) + 1
      /\ \A i \in 1 .. k + Len(b) : p[i] = t[i]
  <2>1. /\ p \in Seq(PathChar) /\ Len(p) = Len(t) + Len(sl)
        /\ \A i \in 1 .. Len(t) + Len(sl) : p[i] = IF i <= Len(t) THEN t[i] ELSE sl[i - Len(t)]
    BY <1>1, <1>2, <1>6, ConcatProperties
  <2>2. \A i \in 1 .. k + Len(b) : p[i] = t[i]
    <3> TAKE i \in 1 .. k + Len(b)
    <3>1. i \in 1 .. Len(t) + Len(sl) /\ i <= Len(t) BY <1>2, <1>3, <1>5, <1>6
    <3> QED BY <2>1, <3>1
  <2> QED BY <1>2, <1>6, <2>1, <2>2
<1>8. PathChar \subseteq Character BY WordFacts
<1>9. p \in Seq(Character) /\ t \in Seq(Character) BY <1>2, <1>7, <1>8, SeqMonotonic
<1>10. PICK bs : bs = b \o sl OBVIOUS
<1>11. bs \in Seq(PathChar) BY <1>4, <1>6, <1>10, ConcatProperties
<1>12. p = a \o bs
  <2>1. t = a \o b BY <1>1 DEF At
  <2>2. (a \o b) \o sl = a \o (b \o sl) BY <1>3, <1>4, <1>6, ConcatAssociative, SMTT(30)
  <2> QED BY <1>1, <1>10, <2>1, <2>2
<1>13. p[1] = t[1] /\ p[2] = t[2]
  <2>1. 1 \in 1 .. k + Len(b) /\ 2 \in 1 .. k + Len(b) BY <1>3, <1>5
  <2> QED BY <1>7, <2>1
<1>14. IsDriveAt(p) <=> IsDriveAt(t)
  <2>1. Len(p) >= 2 /\ Len(t) >= 2 BY <1>2, <1>3, <1>5, <1>7
  <2> QED BY <1>13, <2>1 DEF IsDriveAt
<1>15. IsAbsolute(p)
  <2>1. p # <<>> /\ t # <<>>
    <3>1. Len(p) # 0 /\ Len(t) # 0 BY <1>2, <1>3, <1>5, <1>7
    <3> QED BY <3>1, EmptySeq
  <2>2. CASE IsSep(t[1]) BY <1>13, <2>1, <2>2 DEF IsAbsolute
  <2>3. CASE ~IsSep(t[1])
    <3>1. Len(t) > 2 /\ IsDriveAt(t) /\ IsSep(t[3]) BY <1>2, <2>3 DEF IsAbsolute
    <3>2. 3 \in 1 .. k + Len(b) BY <1>2, <1>3, <1>5, <3>1
    <3>3. p[3] = t[3] BY <1>7, <3>2
    <3>4. Len(p) > 2 BY <1>2, <1>3, <1>5, <1>7, <3>1
    <3> QED BY <1>14, <3>1, <3>3, <3>4 DEF IsAbsolute
  <2> QED BY <2>2, <2>3
<1>16. RootOf(p) = a
  <2>1. Len(p) > 1 /\ Len(t) > 1 BY <1>2, <1>3, <1>5, <1>7
  <2>2. RootOf(p) = RootOf(t) BY <1>13, <1>14, <2>1 DEF RootOf
  <2> QED BY <1>2, <2>2
<1>17. Below(p) = bs
  <2>1. PICK m, n : m = k + 1 /\ n = Len(p) OBVIOUS
  <2>7. Len(bs) = Len(b) + Len(sl) BY <1>4, <1>6, <1>10, ConcatProperties
  <2>2. Len(bs) = Len(b) + 1 BY <1>6, <2>7
  <2>3. m \in k + 1 .. k + Len(bs) /\ n \in k + 1 .. k + Len(bs) /\ m - k = 1 /\ n - k = Len(bs)
    BY <1>3, <1>5, <1>7, <2>1, <2>2
  <2>4. SubSeq(a \o bs, m, n) = SubSeq(bs, m - k, n - k)
    BY <1>1, <1>3, <1>11, <2>3, SubSeqOfConcat2
  <2>5. SubSeq(bs, 1, Len(bs)) = bs BY <1>11, SubSeqFull
  <2>6. SubSeq(p, m, n) = bs BY <1>12, <2>3, <2>4, <2>5
  <2> QED BY <1>1, <1>16, <2>1, <2>6 DEF Below
<1>18. Slashed(bs) = bs
  <2>1. bs \in Seq(Character) BY <1>8, <1>11, SeqMonotonic
  <2> QED BY <1>11, <2>1, SlashedFacts
<1>19. Segments(bs) = Append(parts, <<>>)
  <2>1. PICK e : e = <<>> OBVIOUS
  <2>2. e \in Seq(Word) /\ b \in Seq(WithSlash(Word)) BY <1>4, <2>1, EmptySeq DEF PathChar
  <2>3. Segments(b \o <<"/">> \o e) = Append(Segments(b), e) BY <2>2, SegmentsMore, WordFacts
  <2>4. bs \o e = bs BY <1>11, <2>1, ConcatEmptySeq
  <2> QED BY <1>1, <1>4, <1>10, <2>1, <2>3, <2>4
<1>20. Parts(TRUE, Append(parts, <<>>)) = parts
  <2>1. PICK e : e = <<>> OBVIOUS
  <2>2. e \in Seq(Word) /\ parts \in Seq(Seq(Word))
    <3>1. Clean(Word) \subseteq Seq(Word) BY DEF Clean
    <3> QED BY <2>1, <3>1, EmptySeq, SeqMonotonic
  <2>3. Parts(TRUE, Append(parts, e)) = Step(TRUE, Parts(TRUE, parts), e) BY <2>2, PartsClean
  <2>4. Parts(TRUE, parts) = parts BY PartsOfClean
  <2>5. Step(TRUE, parts, e) = parts BY <2>1, <2>2, StepFacts
  <2> QED BY <2>1, <2>3, <2>4, <2>5
<1>21. Names(p) = parts BY <1>17, <1>18, <1>19, <1>20 DEF Names
<1>22. Normalize(p) = At(a, parts) BY <1>9, <1>15, <1>16, <1>21, NormalForm DEF At
<1> QED BY <1>1, <1>22

-----------------------------------------------------------------------------

\* The URI of a path on a server, from where its host ends.
HostUri(h, slash) == IF slash = 0 THEN Uri(h, <<"/">>)
                     ELSE Uri(SubSeq(h, 1, slash - 1), SubSeq(h, slash, Len(h)))
SlashesAt(h) == {i \in 1 .. Len(h) : h[i] = "/"}
HostEnd(h) == IF SlashesAt(h) # {} THEN Min(SlashesAt(h)) ELSE 0

\* The URI of a normal path, by its root.
LEMMA UriCases ==
    ASSUME NEW t, Normalize(t) = t
    PROVE  /\ IsPrefix(Unc, t) /\ t[1] = "/" =>
                 PathToUri(t) = HostUri(SubSeq(t, 3, Len(t)), HostEnd(SubSeq(t, 3, Len(t))))
           /\ ~IsPrefix(Unc, t) /\ t[1] # "/" => PathToUri(t) = Uri(<<>>, <<"/">> \o t)
           /\ ~IsPrefix(Unc, t) /\ t[1] = "/" => PathToUri(t) = Uri(<<>>, t)
<1>1. ASSUME IsPrefix(Unc, t), t[1] = "/"
      PROVE  PathToUri(t) = HostUri(SubSeq(t, 3, Len(t)), HostEnd(SubSeq(t, 3, Len(t))))
  BY <1>1 DEF PathToUri, HostUri, HostEnd, SlashesAt, SelectInSeq
<1>2. ASSUME ~IsPrefix(Unc, t), t[1] # "/" PROVE PathToUri(t) = Uri(<<>>, <<"/">> \o t)
  BY <1>2 DEF PathToUri
<1>3. ASSUME ~IsPrefix(Unc, t), t[1] = "/" PROVE PathToUri(t) = Uri(<<>>, t)
  BY <1>3 DEF PathToUri
<1> QED BY <1>1, <1>2, <1>3

\* The path of a URI, by its authority and its path.
LEMMA UriBackCases ==
    ASSUME NEW D, NEW q \in Seq(D), NEW authority
    PROVE  LET uri == Uri(authority, q) IN
           /\ authority \notin {<<>>, Localhost} => UriToPath(uri) = Normalize(Unc \o authority \o q)
           /\ authority = <<>> /\ IsPrefix(<<"/">>, q) /\ IsDriveAt(Tail(q)) => UriToPath(uri) = Normalize(Tail(q))
           /\ authority = <<>> /\ ~(IsPrefix(<<"/">>, q) /\ IsDriveAt(Tail(q))) => UriToPath(uri) = Normalize(q)
<1>1. PICK uri : uri = Uri(authority, q) OBVIOUS
<1>2. uri.authority = authority /\ Decode(uri.path) = q BY <1>1, DecodedIs
<1>3. ASSUME authority \notin {<<>>, Localhost} PROVE UriToPath(uri) = Normalize(Unc \o authority \o q)
  BY <1>2, <1>3 DEF UriToPath
<1>4. ASSUME authority = <<>>, IsPrefix(<<"/">>, q), IsDriveAt(Tail(q)) PROVE UriToPath(uri) = Normalize(Tail(q))
  BY <1>2, <1>4 DEF UriToPath
<1>5. ASSUME authority = <<>>, ~(IsPrefix(<<"/">>, q) /\ IsDriveAt(Tail(q))) PROVE UriToPath(uri) = Normalize(q)
  BY <1>2, <1>5 DEF UriToPath
<1> QED BY <1>1, <1>3, <1>4, <1>5

\* A POSIX path comes back, unless it looks like a drive.
LEMMA RootRoundTrip ==
    ASSUME NEW parts \in Seq(Clean(Word)), ~LooksLikeDrive(At(<<"/">>, parts))
    PROVE  UriToPath(PathToUri(At(<<"/">>, parts))) = At(<<"/">>, parts)
<1>1. PICK a : a = <<"/">> OBVIOUS
<1>2. IsRoot(a) BY <1>1 DEF IsRoot
<1>3. PICK t : t = At(a, parts) OBVIOUS
<1>4. t \in Seq(PathChar) /\ RootOf(t) = a /\ Normalize(t) = t /\ t[1] = "/"
  <2>1. Len(a) = 1 /\ a[1] = "/" BY <1>1
  <2>2. 1 \in 1 .. Len(a) BY <2>1
  <2>3. t \in Seq(PathChar) /\ RootOf(t) = a /\ \A i \in 1 .. Len(a) : t[i] = a[i] BY <1>2, <1>3, AtFacts
  <2>4. Normalize(t) = t BY <1>2, <1>3, AtIsNormal
  <2> QED BY <2>1, <2>2, <2>3, <2>4
<1>5. ~IsPrefix(Unc, t)
  <2> SUFFICES ASSUME IsPrefix(Unc, t) PROVE FALSE OBVIOUS
  <2>1. IsPrefix(<<"/", "/">>, t) BY DEF Unc
  <2>2. Len(t) >= 2 /\ t[1] = "/" /\ t[2] = "/" BY <1>4, <2>1, PrefixFacts
  <2>3. IsSep(t[1]) /\ IsSep(t[2]) /\ Len(t) > 1 BY <1>4, <2>2, WordFacts, LenProperties
  <2>4. RootOf(t) = Unc
    <3>1. ~IsDriveAt(t)
      <4>1. t[1] \notin DOMAIN LowerCase BY <1>4, LetterFacts
      <4> QED BY <4>1 DEF IsDriveAt
    <3> QED BY <2>3, <3>1 DEF RootOf
  <2>5. Len(Unc) = 2 /\ Len(a) = 1 BY <1>1 DEF Unc
  <2>6. Unc = a BY <1>4, <2>4
  <2> QED BY <2>5, <2>6, SMTT(30)
<1>6. PathToUri(t) = Uri(<<>>, t) BY <1>4, <1>5, UriCases
<1>7. ~(IsPrefix(<<"/">>, t) /\ IsDriveAt(Tail(t))) BY <1>1, <1>3, <1>4 DEF LooksLikeDrive
<1>8. UriToPath(Uri(<<>>, t)) = Normalize(t) BY <1>4, <1>7, UriBackCases
<1> QED BY <1>1, <1>3, <1>4, <1>6, <1>8

\* A text behind one character.
LEMMA TailOf ==
    ASSUME NEW D, NEW c \in D, NEW t \in Seq(D)
    PROVE  /\ Tail(<<c>> \o t) = t /\ <<c>> \o t \in Seq(D)
           /\ Len(<<c>> \o t) = Len(t) + 1 /\ (<<c>> \o t)[1] = c
<1>1. PICK one, p : one = <<c>> /\ p = one \o t OBVIOUS
<1>2. one \in Seq(D) /\ Len(one) = 1 /\ one[1] = c BY <1>1
<1>3. Len(t) \in Nat BY LenProperties
<1>4. /\ p \in Seq(D) /\ Len(p) = Len(one) + Len(t)
      /\ \A i \in 1 .. Len(one) + Len(t) : p[i] = IF i <= Len(one) THEN one[i] ELSE t[i - Len(one)]
  BY <1>1, <1>2, ConcatProperties
<1>5. Len(p) = Len(t) + 1 /\ p[1] = c /\ \A i \in 1 .. Len(t) : p[i + 1] = t[i]
  <2>1. Len(p) = Len(t) + 1 BY <1>2, <1>3, <1>4
  <2>2. 1 \in 1 .. Len(one) + Len(t) BY <1>2, <1>3
  <2>3. p[1] = c BY <1>2, <1>4, <2>2
  <2>4. \A i \in 1 .. Len(t) : p[i + 1] = t[i]
    <3> TAKE i \in 1 .. Len(t)
    <3>1. PICK j : j = i + 1 OBVIOUS
    <3>2. j \in 1 .. Len(one) + Len(t) /\ ~(j <= Len(one)) /\ j - Len(one) = i BY <1>2, <1>3, <3>1
    <3> QED BY <1>4, <3>1, <3>2
  <2> QED BY <2>1, <2>3, <2>4
<1>6. p # <<>>
  <2>1. Len(p) # 0 BY <1>3, <1>5
  <2> QED BY <2>1, EmptySeq
<1>7. /\ Tail(p) \in Seq(D) /\ Len(Tail(p)) = Len(p) - 1
      /\ \A i \in 1 .. Len(Tail(p)) : Tail(p)[i] = p[i + 1]
  BY <1>4, <1>6, HeadTailProperties
<1>8. Len(Tail(p)) = Len(t) BY <1>3, <1>5, <1>7
<1>9. Tail(p) = t BY <1>5, <1>7, <1>8, SeqEqual
<1> QED BY <1>1, <1>4, <1>5, <1>9

\* A path on a drive comes back.
LEMMA DriveRoundTrip ==
    ASSUME NEW d \in DOMAIN LowerCase, LowerCase[d] = d, NEW parts \in Seq(Clean(Word))
    PROVE  UriToPath(PathToUri(At(Drive(d), parts))) = At(Drive(d), parts)
<1>1. PICK a, t : a = Drive(d) /\ t = At(a, parts) OBVIOUS
<1>2. IsRoot(a) BY <1>1 DEF IsRoot
<1>3. Len(a) = 3 /\ a[1] = d /\ a[2] = ":" BY <1>1 DEF Drive
<1>4. /\ t \in Seq(PathChar) /\ Normalize(t) = t /\ t[1] = d /\ t[2] = ":" /\ Len(t) >= 2
  <2>1. 1 \in 1 .. Len(a) /\ 2 \in 1 .. Len(a) BY <1>3
  <2>2. /\ t \in Seq(PathChar) /\ \A i \in 1 .. Len(a) : t[i] = a[i]
        /\ Len(t) = Len(a) + Len(Slashes(parts))
    BY <1>1, <1>2, AtFacts
  <2>3. Len(Slashes(parts)) \in Nat BY SlashesStart, WordFacts, LenProperties
  <2>4. Normalize(t) = t BY <1>1, <1>2, AtIsNormal
  <2>5. t[1] = d /\ t[2] = ":" BY <1>3, <2>1, <2>2
  <2>6. Len(t) >= 2 BY <1>3, <2>2, <2>3
  <2> QED BY <2>2, <2>4, <2>5, <2>6
<1>5. t[1] # "/" BY <1>4, LetterFacts
<1>6. ~IsPrefix(Unc, t) BY <1>4, <1>5, PrefixFacts DEF Unc
<1>7. PICK p, sl : sl = "/" /\ p = <<sl>> \o t OBVIOUS
<1>8. sl \in PathChar BY <1>7, WordFacts
<1>9. Tail(p) = t /\ p \in Seq(PathChar) /\ Len(p) = Len(t) + 1 /\ p[1] = sl BY <1>4, <1>7, <1>8, TailOf
<1>10. PathToUri(t) = Uri(<<>>, p) BY <1>4, <1>5, <1>6, <1>7, UriCases
<1>11. IsDriveAt(t) BY <1>4 DEF IsDriveAt
<1>12. IsPrefix(<<"/">>, p)
  <2>1. Len(p) >= 1 BY <1>4, <1>9, LenProperties
  <2> QED BY <1>7, <1>9, <2>1, PrefixFacts
<1>13. UriToPath(Uri(<<>>, p)) = Normalize(Tail(p)) BY <1>9, <1>11, <1>12, UriBackCases
<1> QED BY <1>1, <1>4, <1>9, <1>10, <1>13

\* A path on a server comes back, if the server has a name.
LEMMA UncRoundTrip ==
    ASSUME NEW parts \in Seq(Clean(Word)), ~NoHost(At(Unc, parts))
    PROVE  UriToPath(PathToUri(At(Unc, parts))) = At(Unc, parts)
<1>1. PICK a, t, h : a = Unc /\ t = At(a, parts) /\ h = Slashes(parts) OBVIOUS
<1>2. IsRoot(a) BY <1>1 DEF IsRoot
<1>3. a \in Seq(PathChar) /\ Len(a) = 2 /\ a[1] = "/" /\ a[2] = "/"
  <2>1. Len(a) = 2 /\ a[1] = "/" /\ a[2] = "/" BY <1>1 DEF Unc
  <2> QED BY <1>2, <2>1, RootTypes
<1>4. h \in Seq(PathChar) /\ Len(h) \in Nat BY <1>1, SlashesStart, WordFacts, LenProperties DEF PathChar
<1>5. /\ t \in Seq(PathChar) /\ Normalize(t) = t /\ t = a \o h /\ Len(t) = 2 + Len(h)
      /\ t[1] = "/" /\ t[2] = "/"
  <2>1. /\ t \in Seq(PathChar) /\ \A i \in 1 .. Len(a) : t[i] = a[i]
        /\ Len(t) = Len(a) + Len(h)
    BY <1>1, <1>2, AtFacts
  <2>2. 1 \in 1 .. Len(a) /\ 2 \in 1 .. Len(a) BY <1>3
  <2>3. Normalize(t) = t BY <1>1, <1>2, AtIsNormal
  <2>4. t = a \o h BY <1>1 DEF At
  <2>5. t[1] = "/" /\ t[2] = "/" BY <1>3, <2>1, <2>2
  <2>6. Len(t) = 2 + Len(h) BY <1>3, <2>1
  <2> QED BY <2>1, <2>3, <2>4, <2>5, <2>6
<1>6. IsPrefix(Unc, t)
  <2>1. Len(t) >= 2 BY <1>4, <1>5
  <2> QED BY <1>5, <2>1, PrefixFacts DEF Unc
<1>7. parts # <<>>
  <2> SUFFICES ASSUME parts = <<>> PROVE FALSE OBVIOUS
  <2>1. h = <<>> BY <1>1, SlashesStart, WordFacts
  <2>2. t = Unc BY <1>1, <1>3, <1>5, <2>1, ConcatEmptySeq
  <2> QED BY <1>1, <2>2 DEF NoHost
<1>8. h # <<>> /\ h[1] \in Word BY <1>1, <1>7, SlashesStart, WordFacts
<1>9. Len(h) \in Nat \ {0} BY <1>4, <1>8, EmptySeq
<1>10. SubSeq(t, 3, Len(t)) = h
  <2>1. RootOf(t) = a /\ Below(t) = h BY <1>1, <1>2, AtFacts
  <2>2. RootOf(t) = a BY <2>1
  <2>3. Len(a) = 2 BY <1>3
  <2>4. Below(t) = SubSeq(t, Len(a) + 1, Len(t)) BY <2>2 DEF Below
  <2>5. Len(a) + 1 = 3 BY <2>3
  <2> QED BY <2>1, <2>4, <2>5
<1>11. PICK slash : slash = HostEnd(h) OBVIOUS
<1>12. PathToUri(t) = HostUri(h, slash) BY <1>5, <1>6, <1>10, <1>11, UriCases
<1>13. h # Localhost
  <2>1. At(Unc, parts) # Unc \o Localhost BY DEF NoHost
  <2> QED BY <1>1, <1>5, <2>1
<1>14. PICK sl : sl = <<"/">> OBVIOUS
<1>15. sl \in Seq(PathChar)
  <2>1. "/" \in PathChar BY WordFacts
  <2> QED BY <1>14, <2>1
<1>16. CASE slash = 0
  <2>1. PathToUri(t) = Uri(h, sl) BY <1>12, <1>14, <1>16 DEF HostUri
  <2>2. UriToPath(Uri(h, sl)) = Normalize(Unc \o h \o sl) BY <1>8, <1>13, <1>15, UriBackCases
  <2>3. Normalize(t \o sl) = t BY <1>1, <1>2, <1>7, <1>14, SlashLost
  <2> QED BY <1>1, <1>5, <2>1, <2>2, <2>3
<1>17. CASE slash # 0
  <2>1. SlashesAt(h) # {} /\ slash = Min(SlashesAt(h)) BY <1>11, <1>17 DEF HostEnd
  <2>2. SlashesAt(h) \in SUBSET Nat BY <1>9 DEF SlashesAt
  <2>3. slash \in SlashesAt(h) BY <2>1, <2>2, MinFacts
  <2>4. slash \in 1 .. Len(h) /\ h[slash] = "/" BY <2>3 DEF SlashesAt
  <2>5. slash # 1 BY <1>8, <2>4, WordFacts
  <2>6. PICK auth, q, k : auth = SubSeq(h, 1, k) /\ q = SubSeq(h, slash, Len(h)) /\ k = slash - 1 OBVIOUS
  <2>7. k \in 1 .. Len(h) /\ k + 1 = slash /\ k \in Int BY <1>9, <2>4, <2>5, <2>6
  <2>8. /\ auth \in Seq(PathChar) /\ Len(auth) = k /\ auth[1] = h[1]
        /\ q \in Seq(PathChar)
    <3>1. \A i \in 1 .. k : h[i] \in PathChar
      <4> TAKE i \in 1 .. k
      <4>1. i \in 1 .. Len(h) BY <1>9, <2>7
      <4> QED BY <1>4, <4>1, ElementOfSeq
    <3>2. \A i \in slash .. Len(h) : h[i] \in PathChar
      <4> TAKE i \in slash .. Len(h)
      <4>1. i \in 1 .. Len(h) BY <1>9, <2>4
      <4> QED BY <1>4, <4>1, ElementOfSeq
    <3>3. 1 \in Int /\ slash \in Int /\ Len(h) \in Int BY <1>9, <2>4
    <3>4. /\ auth \in Seq(PathChar) /\ Len(auth) = IF 1 <= k THEN k - 1 + 1 ELSE 0
          /\ \A i \in 1 .. k - 1 + 1 : auth[i] = h[1 + i - 1]
      BY <2>6, <2>7, <3>1, <3>3, SubSeqProperties
    <3>5. q \in Seq(PathChar) BY <2>6, <3>2, <3>3, SubSeqProperties
    <3>6. 1 \in 1 .. k - 1 + 1 /\ 1 + 1 - 1 = 1 BY <2>7
    <3>7. auth[1] = h[1] BY <3>4, <3>6
    <3>8. Len(auth) = k BY <2>7, <3>4
    <3> QED BY <3>4, <3>5, <3>7, <3>8
  <2>9. auth \o q = h
    <3>1. /\ 1 \in 1 .. Len(h) + 1 /\ k \in 1 - 1 .. Len(h) /\ Len(h) \in k .. Len(h)
      BY <1>9, <2>7
    <3>2. SubSeq(h, 1, k) \o SubSeq(h, k + 1, Len(h)) = SubSeq(h, 1, Len(h))
      BY <1>4, <3>1, ConcatAdjacentSubSeq
    <3>3. SubSeq(h, 1, Len(h)) = h BY <1>4, SubSeqFull
    <3> QED BY <2>6, <2>7, <3>2, <3>3
  <2>10. PathToUri(t) = Uri(auth, q) BY <1>12, <1>17, <2>6 DEF HostUri
  <2>11. auth # <<>>
    <3>1. Len(auth) # 0 BY <2>7, <2>8
    <3> QED BY <3>1, EmptySeq
  <2>12. auth # Localhost
    <3> SUFFICES ASSUME auth = Localhost PROVE FALSE OBVIOUS
    <3>1. Len(auth) = 1 /\ auth[1] = "localhost" BY DEF Localhost
    <3>2. slash = 2 /\ h[1] = "localhost" /\ h[2] = "/" BY <2>4, <2>6, <2>7, <2>8, <3>1
    <3>3. PICK s, w : w = Unc \o Localhost /\ s = w \o <<"/">> OBVIOUS
    <3>4. PICK E : E = {"/", "localhost"} OBVIOUS
    <3>5. Unc \in Seq(E) /\ Len(Unc) = 2 /\ Unc[1] = "/" /\ Unc[2] = "/" BY <3>4 DEF Unc
    <3>6. Localhost \in Seq(E) /\ Len(Localhost) = 1 /\ Localhost[1] = "localhost" BY <3>4 DEF Localhost
    <3>7. /\ w \in Seq(E) /\ Len(w) = 3 /\ w[1] = "/" /\ w[2] = "/" /\ w[3] = "localhost"
      <4>1. /\ w \in Seq(E) /\ Len(w) = Len(Unc) + Len(Localhost)
            /\ \A i \in 1 .. Len(Unc) + Len(Localhost) :
                  w[i] = IF i <= Len(Unc) THEN Unc[i] ELSE Localhost[i - Len(Unc)]
        BY <3>3, <3>5, <3>6, ConcatProperties
      <4> HIDE <1>17
      <4>2. /\ Len(w) = 3
            /\ \A i \in 1 .. 3 : w[i] = IF i <= 2 THEN Unc[i] ELSE Localhost[i - 2]
        BY <3>5, <3>6, <4>1
      <4>3. w[1] = Unc[1] /\ w[2] = Unc[2] /\ w[3] = Localhost[1] BY <4>2
      <4> QED BY <3>5, <3>6, <4>1, <4>2, <4>3
    <3>8. sl \in Seq(E) /\ Len(sl) = 1 /\ sl[1] = "/" BY <1>14, <3>4
    <3>9. /\ s \in Seq(E) /\ Len(s) = 4 /\ s[1] = "/" /\ s[2] = "/" /\ s[3] = "localhost" /\ s[4] = "/"
      <4>1. /\ s \in Seq(E) /\ Len(s) = Len(w) + Len(sl)
            /\ \A i \in 1 .. Len(w) + Len(sl) : s[i] = IF i <= Len(w) THEN w[i] ELSE sl[i - Len(w)]
        BY <1>14, <3>3, <3>7, <3>8, ConcatProperties
      <4>2. Len(s) = 4 /\ \A i \in 1 .. 4 : s[i] = IF i <= 3 THEN w[i] ELSE sl[i - 3]
        BY <3>7, <3>8, <4>1
      <4>3. s[1] = w[1] /\ s[2] = w[2] /\ s[3] = w[3] /\ s[4] = sl[1] BY <4>2
      <4> QED BY <3>7, <3>8, <4>1, <4>2, <4>3
    <3>10. t[3] = "localhost" /\ t[4] = "/" /\ Len(t) >= 4
      <4>1. /\ Len(t) = 2 + Len(h) /\ Len(h) >= 2 BY <1>5, <2>4, <3>2
      <4>2. \A i \in 1 .. 2 + Len(h) : t[i] = IF i <= 2 THEN a[i] ELSE h[i - 2]
        <5>1. \A i \in 1 .. Len(a) + Len(h) : t[i] = IF i <= Len(a) THEN a[i] ELSE h[i - Len(a)]
          BY <1>3, <1>4, <1>5, ConcatProperties
        <5> QED BY <1>3, <5>1
      <4>3. 3 \in 1 .. 2 + Len(h) /\ 4 \in 1 .. 2 + Len(h) BY <1>9, <4>1
      <4>4. t[3] = h[1] /\ t[4] = h[2] BY <4>2, <4>3
      <4> QED BY <1>9, <3>2, <4>1, <4>4
    <3>11. IsPrefix(s, t)
      <4>1. 1 .. Len(s) = {1, 2, 3, 4} BY <3>9
      <4>2. Len(s) <= Len(t) /\ \A i \in 1 .. Len(s) : s[i] = t[i] BY <1>5, <3>9, <3>10, <4>1
      <4>3. s \in Seq(E) BY <3>9
      <4> QED BY <1>5, <4>2, <4>3, PrefixIs
    <3> QED BY <1>1, <3>3, <3>11 DEF NoHost
  <2>13. UriToPath(Uri(auth, q)) = Normalize(Unc \o auth \o q) BY <2>8, <2>11, <2>12, UriBackCases
  <2>14. (a \o auth) \o q = a \o (auth \o q)
    <3>1. a \in Seq(PathChar) BY <1>3
    <3>2. auth \in Seq(PathChar) BY <2>8
    <3>3. q \in Seq(PathChar) BY <2>8
    <3> QED BY <3>1, <3>2, <3>3, ConcatAssociative, SMTT(30)
  <2> QED BY <1>1, <1>5, <2>9, <2>10, <2>13, <2>14
<1> QED BY <1>16, <1>17

\* The URI of a normal absolute path leads back to it.
LEMMA PathRoundTrip ==
    ASSUME NEW p \in Seq(Character), IsAbsolute(p),
           ~LooksLikeDrive(Normalize(p)), ~NoHost(Normalize(p))
    PROVE  UriToPath(PathToUri(Normalize(p))) = Normalize(p)
<1>1. PICK a, parts : a = RootOf(p) /\ parts = Names(p) OBVIOUS
<1>2. IsRoot(a) /\ parts \in Seq(Clean(Word)) /\ Normalize(p) = At(a, parts)
  BY <1>1, NormalAbsolute
<1> QED BY <1>2, RootRoundTrip, UncRoundTrip, DriveRoundTrip DEF IsRoot

-----------------------------------------------------------------------------

\* The folder of a normal path is what its names but the last make.
SlashAtLast(p) == SelectLastInSeq(p, LAMBDA c : c = "/")

\* The last slash of a text is where its last name starts.
LEMMA SlashAtLastIs ==
    ASSUME NEW p \in Seq(PathChar), NEW n \in Nat, Len(p) = n, n # 0, p[n] = "/",
           NEW e \in Seq(Word)
    PROVE  /\ SlashAtLast(p \o e) = n
           /\ p \o e \in Seq(PathChar) /\ Len(p \o e) >= n
           /\ SubSeq(p \o e, 1, n) = p
<1>1. e \in Seq(PathChar)
  <2>1. Word \subseteq PathChar BY SlashApart, WordFacts DEF PathChar
  <2> QED BY <2>1, SeqMonotonic
<1>2. PICK t, k : t = p \o e /\ k = Len(e) OBVIOUS
<1>3. k \in Nat BY <1>2, LenProperties
<1>4. /\ t \in Seq(PathChar) /\ Len(t) = n + k
      /\ \A i \in 1 .. n + k : t[i] = IF i <= n THEN p[i] ELSE e[i - n]
  BY <1>1, <1>2, ConcatProperties
<1>5. PICK I : I = {i \in 1 .. Len(t) : t[i] = "/"} OBVIOUS
<1>6. n \in I
  <2>1. n \in 1 .. n + k BY <1>3
  <2> QED BY <1>4, <1>5, <2>1
<1>7. \A i \in I : i <= n
  <2> SUFFICES ASSUME NEW i \in I, ~(i <= n) PROVE FALSE OBVIOUS
  <2>1. i \in 1 .. n + k /\ t[i] = "/" BY <1>4, <1>5
  <2>2. t[i] = e[i - n] BY <1>4, <2>1
  <2>3. i - n \in 1 .. Len(e) BY <1>2, <1>3, <2>1
  <2>4. e[i - n] \in Word BY <2>3, ElementOfSeq
  <2> QED BY <2>1, <2>2, <2>4, WordFacts
<1>8. I \in SUBSET Nat /\ I # {} BY <1>5, <1>6
<1>9. Max(I) = n BY <1>6, <1>7, <1>8, MaxFacts
<1>10. SlashAtLast(t) = n BY <1>5, <1>8, <1>9 DEF SlashAtLast, SelectLastInSeq
<1>11. SubSeq(t, 1, n) = p
  <2>1. 1 \in 1 .. Len(p) /\ n \in 1 .. Len(p) OBVIOUS
  <2>2. SubSeq(p \o e, 1, n) = SubSeq(p, 1, n) BY <1>1, <2>1, SubSeqOfConcat1
  <2>3. SubSeq(p, 1, Len(p)) = p BY SubSeqFull
  <2> QED BY <1>2, <2>2, <2>3
<1>12. Len(t) >= n BY <1>3, <1>4
<1> QED BY <1>2, <1>4, <1>10, <1>11, <1>12

\* The directory of a normal path is what stands before its last slash.
LEMMA DirnameOf ==
    ASSUME NEW a, IsRoot(a), NEW parts \in Seq(Clean(Word))
    PROVE  LET t == At(a, parts) IN
           Dirname(t) = Before(t, SlashAtLast(t)) /\ Anchor(t) = a
<1>1. PICK t : t = At(a, parts) OBVIOUS
<1>2. Normalize(t) = t BY <1>1, AtIsNormal
<1>3. t \in Seq(Character) /\ Slashed(t) = t /\ IsAbsolute(t) /\ RootOf(t) = a BY <1>1, AtFacts
<1>4. Anchor(t) = a BY <1>3, RootFacts
<1>5. Dirname(t) = Before(t, SlashAtLast(t)) BY <1>2 DEF Dirname, SlashAtLast
<1> QED BY <1>1, <1>4, <1>5

\* A root ends in a slash.
LEMMA RootEnds ==
    ASSUME NEW a, IsRoot(a)
    PROVE  a \in Seq(PathChar) /\ Len(a) \in 1 .. 3 /\ a[Len(a)] = "/"
BY RootTypes DEF Anchored, Last

\* The directory of a root is the root.
LEMMA DirnameOfRoot ==
    ASSUME NEW a, IsRoot(a)
    PROVE  Dirname(At(a, <<>>)) = At(a, <<>>)
<1>1. PICK none, n : none = <<>> /\ n = Len(a) OBVIOUS
<1>2. none \in Seq(Clean(Word)) /\ none \in Seq(Word) BY <1>1, EmptySeq
<1>3. a \in Seq(PathChar) /\ n \in Nat /\ n # 0 /\ a[n] = "/" BY <1>1, RootEnds, SMTT(30)
<1>4. Slashes(none) = none BY <1>1, <1>2, SlashesStart, WordFacts
<1>5. At(a, none) = a \o none BY <1>4 DEF At
<1>6. a \o none = a BY <1>1, <1>3, ConcatEmptySeq
<1>7. SlashAtLast(a \o none) = n /\ SubSeq(a \o none, 1, n) = a BY <1>1, <1>2, <1>3, SlashAtLastIs
<1>8. Dirname(a) = Before(a, n) /\ Anchor(a) = a BY <1>2, <1>5, <1>6, <1>7, DirnameOf
<1>9. n # 0 /\ n \in 1 .. Len(Anchor(a)) BY <1>1, <1>3, <1>8
<1>10. Before(a, n) = SubSeq(a, 1, n) BY <1>9 DEF Before
<1> QED BY <1>1, <1>5, <1>6, <1>7, <1>8, <1>10

\* The directory of any other path is the path without its last name.
LEMMA DirnameOfMore ==
    ASSUME NEW a, IsRoot(a), NEW init \in Seq(Clean(Word)), NEW e \in Clean(Word)
    PROVE  Dirname(At(a, Append(init, e))) = At(a, init)
<1>1. PICK parts, t, b, sl, n : /\ parts = Append(init, e) /\ t = At(a, parts)
                                /\ b = Slashes(init) /\ sl = <<"/">> /\ n = Len(a)
  OBVIOUS
<1>2. parts \in Seq(Clean(Word)) BY <1>1, AppendProperties
<1>3. Dirname(t) = Before(t, SlashAtLast(t)) /\ Anchor(t) = a BY <1>1, <1>2, DirnameOf
<1>4. a \in Seq(PathChar) /\ n \in Nat /\ n # 0 /\ a[n] = "/"
  <2>1. Len(a) \in 1 .. 3 /\ n = Len(a) BY <1>1, RootEnds
  <2>2. a \in Seq(PathChar) /\ a[n] = "/" BY <1>1, RootEnds
  <2>3. n \in Nat /\ n # 0 BY <2>1
  <2> QED BY <2>2, <2>3
<1>5. e \in Seq(Word) /\ e \in Seq(PathChar) /\ e # <<>>
  <2>1. Word \subseteq PathChar BY SlashApart, WordFacts DEF PathChar
  <2> QED BY <2>1, SeqMonotonic DEF Clean
<1>6. b \in Seq(PathChar) BY <1>1, SlashesStart, WordFacts DEF PathChar
<1>7. sl \in Seq(PathChar) /\ Len(sl) = 1 /\ sl[1] = "/"
  <2>1. "/" \in PathChar BY WordFacts
  <2> QED BY <1>1, <2>1
<1>8. Slashes(parts) = Joined(b, e)
  <2>1. Clean(Word) \subseteq Seq(PathChar)
    <3>1. Word \subseteq PathChar BY SlashApart, WordFacts DEF PathChar
    <3> QED BY <3>1, SeqMonotonic DEF Clean
  <2>2. init \in Seq(Seq(PathChar)) BY <2>1, SeqMonotonic
  <2>3. "/" \in PathChar BY WordFacts
  <2> QED BY <1>1, <1>5, <2>2, <2>3, SlashesGrow
<1>9. CASE init = <<>>
  <2>1. b = <<>> BY <1>1, <1>9, SlashesStart, WordFacts
  <2>2. t = a \o e BY <1>1, <1>8, <2>1 DEF At, Joined
  <2>3. SlashAtLast(t) = n /\ SubSeq(t, 1, n) = a BY <1>1, <1>4, <1>5, <2>2, SlashAtLastIs
  <2>4. n # 0 /\ n \in 1 .. Len(Anchor(t)) BY <1>1, <1>3, <1>4
  <2>5. Before(t, n) = SubSeq(t, 1, n) BY <2>4 DEF Before
  <2>6. a \o b = a BY <1>4, <2>1, ConcatEmptySeq
  <2> QED BY <1>1, <1>3, <2>3, <2>5, <2>6 DEF At
<1>10. CASE init # <<>>
  <2>1. b # <<>> BY <1>1, <1>10, SlashesStart, WordFacts
  <2>2. Len(b) \in Nat \ {0} BY <1>6, <2>1, EmptySeq
  <2>3. PICK ab, pre, m : ab = a \o b /\ pre = ab \o sl /\ m = n + Len(b) + 1 OBVIOUS
  <2>4. ab \in Seq(PathChar) /\ Len(ab) = n + Len(b) BY <1>1, <1>4, <1>6, <2>3, ConcatProperties
  <2>5. /\ pre \in Seq(PathChar) /\ Len(pre) = Len(ab) + Len(sl)
        /\ \A i \in 1 .. Len(ab) + Len(sl) : pre[i] = IF i <= Len(ab) THEN ab[i] ELSE sl[i - Len(ab)]
    <3>1. ab \in Seq(PathChar) /\ sl \in Seq(PathChar) BY <1>7, <2>4
    <3>2. pre = ab \o sl BY <2>3
    <3> QED BY <3>1, <3>2, ConcatProperties
  <2>6. m \in Nat /\ m # 0 /\ Len(pre) = m BY <1>4, <1>7, <2>2, <2>3, <2>4, <2>5
  <2>7. pre[m] = "/"
    <3>1. m \in 1 .. Len(ab) + Len(sl) /\ ~(m <= Len(ab)) /\ m - Len(ab) = 1
      BY <1>4, <1>7, <2>2, <2>3, <2>4
    <3> QED BY <1>7, <2>5, <3>1
  <2>8. t = pre \o e
    <3>1. Slashes(parts) = (b \o sl) \o e BY <1>1, <1>8, <2>1 DEF Joined
    <3>2. PICK bs : bs = b \o sl OBVIOUS
    <3>3. bs \in Seq(PathChar) BY <1>6, <1>7, <3>2, ConcatProperties
    <3>4. a \o (bs \o e) = (a \o bs) \o e BY <1>4, <1>5, <3>3, ConcatAssociative, SMTT(30)
    <3>5. a \o (b \o sl) = (a \o b) \o sl
      <4>1. a \in Seq(PathChar) /\ b \in Seq(PathChar) /\ sl \in Seq(PathChar) BY <1>4, <1>6, <1>7
      <4> QED BY <4>1, ConcatAssociative, SMTT(30)
    <3> QED BY <1>1, <2>3, <3>1, <3>2, <3>4, <3>5 DEF At
  <2>9. SlashAtLast(t) = m /\ SubSeq(t, 1, m) = pre /\ t \in Seq(PathChar)
    BY <1>5, <2>5, <2>6, <2>7, <2>8, SlashAtLastIs
  <2>10. m # 0 /\ m \notin 1 .. Len(Anchor(t)) BY <1>1, <1>3, <1>4, <2>2, <2>3, <2>6
  <2>11. Before(t, m) = SubSeq(t, 1, m - 1) BY <2>10 DEF Before
  <2>12. SubSeq(t, 1, m - 1) = ab
    <3>1. PICK q : q = sl \o e OBVIOUS
    <3>2. q \in Seq(PathChar) BY <1>5, <1>7, <3>1, ConcatProperties
    <3>3. t = ab \o q
      <4>1. ab \in Seq(PathChar) /\ sl \in Seq(PathChar) /\ e \in Seq(PathChar) BY <1>5, <1>7, <2>4
      <4>2. (ab \o sl) \o e = ab \o (sl \o e) BY <4>1, ConcatAssociative, SMTT(30)
      <4> QED BY <2>3, <2>8, <3>1, <4>2
    <3>4. m - 1 = Len(ab) BY <1>4, <2>2, <2>3, <2>4
    <3>5. 1 \in 1 .. Len(ab) /\ Len(ab) \in 1 .. Len(ab) BY <1>4, <2>2, <2>4
    <3>6. SubSeq(ab \o q, 1, Len(ab)) = SubSeq(ab, 1, Len(ab)) BY <2>4, <3>2, <3>5, SubSeqOfConcat1
    <3>7. SubSeq(ab, 1, Len(ab)) = ab BY <2>4, SubSeqFull
    <3> QED BY <3>3, <3>4, <3>6, <3>7
  <2> QED BY <1>1, <1>3, <2>3, <2>9, <2>11, <2>12 DEF At
<1> QED BY <1>9, <1>10

\* The folder of a document is an absolute path in its normal spelling too.
LEMMA DirnameIs ==
    ASSUME NEW a, IsRoot(a), NEW parts \in Seq(Clean(Word))
    PROVE  \E up \in Seq(Clean(Word)) : Dirname(At(a, parts)) = At(a, up)
<1>1. CASE parts = <<>>
  <2>1. Dirname(At(a, parts)) = At(a, parts) BY <1>1, DirnameOfRoot
  <2> QED BY <2>1
<1>2. CASE parts # <<>>
  <2>1. PICK init \in Seq(Clean(Word)), e \in Clean(Word) : parts = Append(init, e)
    BY <1>2, SequenceEmptyOrAppend
  <2>2. Dirname(At(a, parts)) = At(a, init) BY <2>1, DirnameOfMore
  <2> QED BY <2>2
<1> QED BY <1>1, <1>2

-----------------------------------------------------------------------------

\* What is looked at stays one of the cases.
InCases == \E c \in Cases : document = c.document /\ raw = c.raw /\ config = c.config

\* The document, the include and the settings do not change.
LEMMA CasesStay == IncludesSpec => []InCases
<1>1. IncludesInit => InCases BY DEF IncludesInit, InCases
<1>2. InCases /\ [IncludesNext]_<<vars, includeVars>> => InCases'
  <2> SUFFICES ASSUME InCases, [IncludesNext]_<<vars, includeVars>> PROVE InCases' OBVIOUS
  <2>1. document' = document /\ raw' = raw /\ config' = config BY DEF IncludesNext, includeVars
  <2> QED BY <2>1 DEF InCases
<1> QED BY <1>1, <1>2, PTL DEF IncludesSpec

\* What they are.
LEMMA DocumentFacts ==
    ASSUME InCases
    PROVE  /\ document \in Seq(Character) /\ IsAbsolute(document) /\ Normalize(document) = document
           /\ raw \in Seq(Character)
           /\ \A letter \in DOMAIN config : config[letter] \in Seq(Character)
<1>1. PICK S : S = STRING OBVIOUS
<1>2. S \subseteq Character
  <2>1. STRING \subseteq STRING \cup {"/", "\\", ".", ":", "localhost", "@"} BY Zenon
  <2> QED BY <1>1, <2>1, Zenon DEF Character
<1>3. Seq(S) \subseteq Seq(Character) BY <1>2, SeqMonotonic
<1>4. PICK c \in Cases : document = c.document /\ raw = c.raw /\ config = c.config BY DEF InCases
<1>5. /\ document \in Seq(S) /\ IsAbsolute(document) /\ Normalize(document) = document
      /\ raw \in Seq(S)
      /\ \A letter \in DOMAIN config : config[letter] \in Seq(S)
  BY <1>1, <1>4, CasesAssumption, Zenon
<1> QED BY <1>3, <1>5

\* The document's folder is a root and clean names.
LEMMA FolderFacts ==
    ASSUME InCases
    PROVE  \E up \in Seq(Clean(Word)) :
              /\ IsRoot(RootOf(document)) /\ Dirname(document) = At(RootOf(document), up)
              /\ Dirname(document) \in Seq(Character) /\ Dirname(document) # Nowhere
<1>1. PICK a, parts : a = RootOf(document) /\ parts = Names(document) OBVIOUS
<1>2. IsRoot(a) /\ parts \in Seq(Clean(Word)) /\ document = At(a, parts)
  BY <1>1, DocumentFacts, NormalAbsolute
<1>3. PICK up \in Seq(Clean(Word)) : Dirname(document) = At(a, up) BY <1>2, DirnameIs
<1>4. PICK t : t = At(a, up) OBVIOUS
<1>5. t \in Seq(Character) /\ Len(t) = Len(a) + Len(Slashes(up)) BY <1>2, <1>4, AtFacts
<1>6. Len(a) \in 1 .. 3 BY <1>2, RootTypes
<1>7. Len(Slashes(up)) \in Nat
  <2>1. Slashes(up) \in Seq(PathChar) BY SlashesStart, WordFacts DEF PathChar
  <2> QED BY <2>1, LenProperties
<1>8. Len(t) # 0
  <2>1. PICK k, m : k = Len(a) /\ m = Len(Slashes(up)) OBVIOUS
  <2>2. k \in 1 .. 3 /\ m \in Nat BY <1>6, <1>7, <2>1
  <2>3. Len(t) = k + m BY <1>5, <2>1
  <2> QED BY <2>2, <2>3
<1>9. t # Nowhere BY <1>8 DEF Nowhere
<1> QED BY <1>1, <1>2, <1>3, <1>4, <1>5, <1>9

\* What an include leads to is the normal spelling of what its author walks.
LEMMA TargetFacts ==
    ASSUME InCases
    PROVE  /\ Walked \in Seq(Character)
           /\ Target.error = "None" => Target.path = Normalize(Walked)
<1>1. PICK dir, sl : dir = Dirname(document) /\ sl = <<"/">> OBVIOUS
<1>2. dir \in Seq(Character) /\ dir # <<>> BY <1>1, FolderFacts DEF Nowhere
<1>3. raw \in Seq(Character) BY DocumentFacts
<1>4. sl \in Seq(Character)
  <2>1. "/" \in Character BY WordFacts
  <2> QED BY <1>1, <2>1
<1>5. Target = Resolve(raw, dir, config) BY <1>1 DEF Target
<1>6. \A path : Resolved(path).error = "None" /\ Resolved(path).path = path BY DEF Resolved
<1>7. \A error : Unresolved(error).error = error BY DEF Unresolved
<1>8. \A d, r \in Seq(Character) : d \o sl \o r \in Seq(Character)
  <2> TAKE d, r \in Seq(Character)
  <2>1. PICK ds : ds = d \o sl OBVIOUS
  <2>2. ds \in Seq(Character) BY <1>4, <2>1, ConcatProperties
  <2> QED BY <2>1, <2>2, ConcatProperties
<1>9. CASE IsVirtual(raw, config)
  <2>1. PICK l, rest : l = Lower(raw[2]) /\ rest = SubSeq(raw, 4, Len(raw)) OBVIOUS
  <2>2. l \in DOMAIN config /\ Len(raw) >= 3 /\ raw # <<>> BY <1>9, <2>1 DEF IsVirtual
  <2>3. config[l] \in Seq(Character) BY <2>2, DocumentFacts
  <2>4. rest \in Seq(Character)
    <3>1. PICK n : n = Len(raw) /\ n \in Nat BY <1>3, LenProperties
    <3>2. \A i \in 4 .. n : raw[i] \in Character
      <4> TAKE i \in 4 .. n
      <4>1. i \in 1 .. Len(raw) BY <3>1
      <4> QED BY <1>3, <4>1, ElementOfSeq
    <3>3. 4 \in Int /\ n \in Int BY <3>1
    <3> QED BY <2>1, <3>1, <3>2, <3>3, SubSeqProperties
  <2>5. Walked = config[l] \o sl \o rest BY <1>1, <1>9, <2>1 DEF Walked
  <2>6. Walked \in Seq(Character) BY <1>8, <2>3, <2>4, <2>5
  <2>7. CASE config[l] = Nowhere
    <3>1. Target = Unresolved("FolderUnset") BY <1>5, <1>9, <2>1, <2>2, <2>7 DEF Resolve
    <3>2. Target.error = "FolderUnset" BY <1>7, <3>1
    <3> QED BY <2>6, <3>2
  <2>8. CASE config[l] # Nowhere
    <3>1. Target = Resolved(Join(config[l], rest)) BY <1>5, <1>9, <2>1, <2>2, <2>8 DEF Resolve
    <3>2. Join(config[l], rest) = Normalize(config[l] \o sl \o rest) BY <1>1, <2>8 DEF Join, Nowhere
    <3> QED BY <1>6, <2>5, <2>6, <3>1, <3>2
  <2> QED BY <2>7, <2>8
<1>10. CASE ~IsVirtual(raw, config) /\ IsAbsolute(raw)
  <2>1. Walked = raw BY <1>10 DEF Walked
  <2>2. raw # <<>>
    <3>1. Len(<<>>) = 0 OBVIOUS
    <3> QED BY <1>10, <3>1 DEF IsAbsolute
  <2>3. Target = Resolved(Normalize(raw)) BY <1>5, <1>10, <2>2 DEF Resolve
  <2> QED BY <1>3, <1>6, <2>1, <2>3
<1>11. CASE ~IsVirtual(raw, config) /\ ~IsAbsolute(raw)
  <2>1. Walked = dir \o sl \o raw BY <1>1, <1>11 DEF Walked
  <2>2. Walked \in Seq(Character) BY <1>2, <1>3, <1>8, <2>1
  <2>3. CASE raw = <<>>
    <3>1. Target = Unresolved("EmptyPath") BY <1>5, <1>11, <2>3 DEF Resolve
    <3>2. Target.error = "EmptyPath" BY <1>7, <3>1
    <3> QED BY <2>2, <3>2
  <2>4. CASE raw # <<>>
    <3>1. Target = Resolved(Join(dir, raw)) BY <1>2, <1>5, <1>11, <2>4 DEF Resolve, Nowhere
    <3>2. Join(dir, raw) = Normalize(dir \o sl \o raw) BY <1>1, <1>2 DEF Join
    <3> QED BY <1>6, <2>1, <2>2, <3>1, <3>2
  <2> QED BY <2>3, <2>4
<1> QED BY <1>9, <1>10, <1>11

\* The URI that diagnostics and links give for a file that an include leads to
\* leads back to the very path, whatever the include, the folder and the drive
\* or server they are on.
THEOREM UriLeadsBack == IncludesSpec => []UriRoundTrip
<1>1. InCases => UriRoundTrip
  <2> SUFFICES ASSUME InCases, Target.error = "None", IsAbsolute(Walked),
                      ~LooksLikeDrive(Target.path), ~NoHost(Target.path)
               PROVE  UriToPath(PathToUri(Target.path)) = Target.path
    BY DEF UriRoundTrip
  <2>1. Walked \in Seq(Character) /\ Target.path = Normalize(Walked) BY TargetFacts
  <2>2. PICK p : p = Walked OBVIOUS
  <2> QED BY <2>1, <2>2, PathRoundTrip
<1> QED BY <1>1, CasesStay, PTL

-----------------------------------------------------------------------------

\* Different names make different paths.
LEMMA AtInjective ==
    ASSUME NEW a, IsRoot(a), NEW p \in Seq(Clean(Word)), NEW q \in Seq(Clean(Word)), At(a, p) = At(a, q)
    PROVE  p = q
<1>1. Slashes(p) = Slashes(q) BY AtFacts
<1>2. /\ p = <<>> => Slashes(p) = <<>>
      /\ p # <<>> => Slashes(p) # <<>> /\ Segments(Slashes(p)) = p
  BY SlashesStart, WordFacts
<1>3. /\ q = <<>> => Slashes(q) = <<>>
      /\ q # <<>> => Slashes(q) # <<>> /\ Segments(Slashes(q)) = q
  BY SlashesStart, WordFacts
<1> QED BY <1>1, <1>2, <1>3

\* The folders of a path with these names, from its own outwards; the climb
\* stays at the root.
Outwards(a, names, d) ==
    At(a, SubSeq(names, 1, IF d <= Len(names) - 1 THEN Len(names) - 1 - d ELSE 0))

\* The first elements of a sequence.
LEMMA PrefixLen ==
    ASSUME NEW D, NEW s \in Seq(D), NEW k \in 0 .. Len(s)
    PROVE  /\ SubSeq(s, 1, k) \in Seq(D) /\ Len(SubSeq(s, 1, k)) = k
           /\ \A i \in 1 .. k : SubSeq(s, 1, k)[i] = s[i]
<1>1. PICK n, one : n = Len(s) /\ n \in Nat /\ one = 1 BY LenProperties
<1>2. k \in Int /\ k \in Nat /\ k <= n BY <1>1
<1>3. \A i \in 1 .. n : s[i] \in D BY <1>1, ElementOfSeq
<1>4. \A i \in one .. k : s[i] \in D BY <1>1, <1>2, <1>3
<1>5. /\ SubSeq(s, one, k) \in Seq(D)
      /\ Len(SubSeq(s, one, k)) = IF one <= k THEN k - one + 1 ELSE 0
      /\ \A i \in 1 .. k - one + 1 : SubSeq(s, one, k)[i] = s[one + i - 1]
  BY <1>1, <1>2, <1>4, SubSeqProperties
<1>6. k - one + 1 = k /\ (IF one <= k THEN k - one + 1 ELSE 0) = k BY <1>1, <1>2
<1>7. \A i \in 1 .. k : one + i - 1 = i BY <1>1
<1>8. SubSeq(s, 1, k) \in Seq(D) BY <1>1, <1>5
<1>9. Len(SubSeq(s, 1, k)) = k BY <1>1, <1>5, <1>6
<1>10. \A i \in 1 .. k : SubSeq(s, 1, k)[i] = s[i] BY <1>1, <1>5, <1>6, <1>7
<1> QED BY <1>8, <1>9, <1>10

\* The first elements, one by one.
LEMMA PrefixOf ==
    ASSUME NEW D, NEW s \in Seq(D), NEW k \in 0 .. Len(s)
    PROVE  /\ SubSeq(s, 1, k) \in Seq(D) /\ Len(SubSeq(s, 1, k)) = k
           /\ k = 0 => SubSeq(s, 1, k) = <<>>
           /\ k # 0 => s[k] \in D /\ SubSeq(s, 1, k) = Append(SubSeq(s, 1, k - 1), s[k])
<1>1. PICK n : n = Len(s) /\ n \in Nat BY LenProperties
<1>2. k \in Int /\ k \in Nat /\ k <= n BY <1>1
<1>3. \A i \in 1 .. n : s[i] \in D BY <1>1, ElementOfSeq
<1>5. /\ SubSeq(s, 1, k) \in Seq(D) /\ Len(SubSeq(s, 1, k)) = k
      /\ \A i \in 1 .. k : SubSeq(s, 1, k)[i] = s[i]
  BY PrefixLen
<1>6. k = 0 => SubSeq(s, 1, k) = <<>> BY <1>5, EmptySeq
<1>7. ASSUME k # 0 PROVE s[k] \in D /\ SubSeq(s, 1, k) = Append(SubSeq(s, 1, k - 1), s[k])
  <2>1. k \in 1 .. k BY <1>2, <1>7
  <2>2. PICK b, t : b = k - 1 /\ t = SubSeq(s, 1, k) OBVIOUS
  <2>3. t # <<>> BY <1>2, <1>5, <1>7, <2>2
  <2>4. PICK init \in Seq(D), e \in D : t = Append(init, e) BY <1>5, <2>2, <2>3, SequenceEmptyOrAppend
  <2>5. Len(init) \in Nat /\ Len(t) = Len(init) + 1 BY <2>2, <2>4, AppendProperties, LenProperties
  <2>6. Len(init) = b BY <1>2, <1>5, <2>2, <2>5
  <2>7. e = t[k] /\ \A i \in 1 .. b : init[i] = t[i]
    <3>1. t[Len(init) + 1] = e /\ \A i \in 1 .. Len(init) : t[i] = init[i] BY <2>4, AppendProperties
    <3>2. Len(init) + 1 = k BY <1>2, <2>2, <2>6
    <3> QED BY <2>6, <3>1, <3>2
  <2>8. e = s[k] BY <1>5, <2>1, <2>2, <2>7
  <2>9. \A i \in 1 .. b : init[i] = s[i]
    <3> TAKE i \in 1 .. b
    <3>1. i \in 1 .. k BY <1>2, <2>2
    <3> QED BY <1>5, <2>2, <2>7, <3>1
  <2>10. /\ SubSeq(s, 1, b) \in Seq(D) /\ Len(SubSeq(s, 1, b)) = b
         /\ \A i \in 1 .. b : SubSeq(s, 1, b)[i] = s[i]
    <3>1. b \in 0 .. Len(s) BY <1>1, <1>2, <1>7, <2>2
    <3> QED BY <3>1, PrefixLen
  <2>11. init = SubSeq(s, 1, b) BY <2>6, <2>9, <2>10, SeqEqual
  <2> QED BY <1>3, <1>2, <1>1, <2>1, <2>2, <2>4, <2>8, <2>11
<1> QED BY <1>5, <1>6, <1>7

\* Folder by folder outwards, until the root, which is its own folder.
LEMMA OutwardsFacts ==
    ASSUME NEW a, IsRoot(a), NEW names \in Seq(Clean(Word)), names # <<>>
    PROVE  LET last == Len(names) - 1
               folder(d) == Outwards(a, names, d)
           IN /\ last \in Nat
              /\ Dirname(At(a, names)) = folder(0)
              /\ \A d \in Nat : Dirname(folder(d)) = folder(d + 1) /\ folder(d) # Nowhere
              /\ \A d \in Nat : d < last => folder(d + 1) # folder(d)
              /\ folder(last + 1) = folder(last)
<1>1. PICK last, n : n = Len(names) /\ last = n - 1 OBVIOUS
<1>2. n \in Nat \ {0} BY <1>1, EmptySeq
<1>3. last \in Nat /\ last \in 0 .. n /\ n \in 0 .. n BY <1>1, <1>2
<1> DEFINE folder(d) == Outwards(a, names, d)
           top(k) == SubSeq(names, 1, k)
<1>4. \A k \in 0 .. n : top(k) \in Seq(Clean(Word)) /\ Len(top(k)) = k BY <1>1, PrefixOf
<1>5. ASSUME NEW k \in 1 .. n
      PROVE  Dirname(At(a, top(k))) = At(a, top(k - 1)) /\ At(a, top(k)) # At(a, top(k - 1))
  <2>1. k \in 0 .. n /\ k # 0 /\ k - 1 \in 0 .. n BY <1>2
  <2>2. names[k] \in Clean(Word) /\ top(k) = Append(top(k - 1), names[k]) BY <1>1, <2>1, PrefixOf
  <2>3. PICK init, e : init = top(k - 1) /\ e = names[k] OBVIOUS
  <2>4. init \in Seq(Clean(Word)) /\ e \in Clean(Word) BY <1>4, <2>1, <2>2, <2>3
  <2>5. Dirname(At(a, Append(init, e))) = At(a, init) BY <2>4, DirnameOfMore
  <2>6. At(a, top(k)) # At(a, top(k - 1))
    <3> SUFFICES ASSUME At(a, top(k)) = At(a, top(k - 1)) PROVE FALSE OBVIOUS
    <3>1. top(k) \in Seq(Clean(Word)) /\ top(k - 1) \in Seq(Clean(Word)) BY <1>4, <2>1
    <3> HIDE DEF top
    <3>2. top(k) = top(k - 1) BY <3>1, AtInjective
    <3>3. Len(top(k)) = k /\ Len(top(k - 1)) = k - 1 BY <1>4, <2>1
    <3> QED BY <2>1, <3>2, <3>3
  <2> QED BY <2>2, <2>3, <2>5, <2>6
<1>6. Dirname(At(a, top(0))) = At(a, top(0))
  <2>1. 0 \in 0 .. Len(names) BY <1>1, <1>2
  <2>2. top(0) = <<>> BY <2>1, PrefixOf
  <2> QED BY <2>2, DirnameOfRoot
<1>7. top(n) = names BY <1>1, SubSeqFull
<1>8. ASSUME NEW k \in 0 .. n PROVE At(a, top(k)) # Nowhere
  <2>1. PICK t, q : q = top(k) /\ t = At(a, q) OBVIOUS
  <2>2. q \in Seq(Clean(Word)) BY <1>4, <2>1
  <2>3. t \in Seq(PathChar) /\ IsAbsolute(t) /\ Len(t) = Len(a) + Len(Slashes(q)) BY <2>1, <2>2, AtFacts
  <2>4. PICK j, m : j = Len(a) /\ m = Len(Slashes(q)) OBVIOUS
  <2>5. j \in 1 .. 3 BY <2>4, RootTypes
  <2>6. m \in Nat
    <3>1. Slashes(q) \in Seq(PathChar) BY <2>2, SlashesStart, WordFacts DEF PathChar
    <3> QED BY <2>4, <3>1, LenProperties
  <2>7. Len(t) = j + m BY <2>3, <2>4
  <2>8. Len(t) # 0 BY <2>5, <2>6, <2>7
  <2>9. t # Nowhere BY <2>8 DEF Nowhere
  <2> QED BY <2>1, <2>9
<1>9. \A d \in Nat : /\ d <= last => folder(d) = At(a, top(last - d)) /\ last - d \in 0 .. n
                     /\ d > last => folder(d) = At(a, top(0))
  BY <1>1, <1>2 DEF Outwards
<1>10. Dirname(At(a, names)) = folder(0)
  <2>1. n \in 1 .. n /\ n - 1 = last - 0 /\ 0 <= last BY <1>1, <1>2
  <2> HIDE DEF folder, top
  <2>2. folder(0) = At(a, top(last - 0)) BY <1>9, <2>1
  <2>3. Dirname(At(a, top(n))) = At(a, top(n - 1)) BY <1>5, <2>1
  <2> QED BY <1>7, <2>1, <2>2, <2>3
<1>11. ASSUME NEW d \in Nat
       PROVE  /\ Dirname(folder(d)) = folder(d + 1) /\ folder(d) # Nowhere
              /\ d < last => folder(d + 1) # folder(d)
  <2> HIDE DEF folder, top
  <2>1. CASE d < last
    <3>1. PICK k : k = last - d OBVIOUS
    <3>2. k \in 1 .. n /\ k \in 0 .. n /\ last - (d + 1) = k - 1 /\ d + 1 <= last /\ d <= last /\ d + 1 \in Nat
      BY <1>1, <1>2, <1>3, <2>1, <3>1
    <3>3. folder(d) = At(a, top(k)) /\ folder(d + 1) = At(a, top(k - 1)) BY <1>9, <3>1, <3>2
    <3> QED BY <1>5, <1>8, <3>2, <3>3
  <2>2. CASE ~(d < last)
    <3>1. d + 1 > last /\ d + 1 \in Nat BY <1>3, <2>2
    <3>2. folder(d + 1) = At(a, top(0)) BY <1>9, <3>1
    <3>3. folder(d) = At(a, top(0))
      <4>1. CASE d = last
        <5>1. last - d = 0 /\ d <= last BY <1>3, <4>1
        <5> QED BY <1>9, <5>1
      <4>2. CASE d # last
        <5>1. d > last BY <1>3, <2>2, <4>2
        <5> QED BY <1>9, <5>1
      <4> QED BY <4>1, <4>2
    <3>4. 0 \in 0 .. n BY <1>2
    <3> QED BY <1>6, <1>8, <2>2, <3>2, <3>3, <3>4
  <2> QED BY <2>1, <2>2
<1>12. folder(last + 1) = folder(last)
  <2> HIDE DEF folder, top
  <2>1. last + 1 > last /\ last + 1 \in Nat /\ last <= last /\ last - last = 0 BY <1>3
  <2> QED BY <1>3, <1>9, <2>1
<1> QED BY <1>1, <1>3, <1>10, <1>11, <1>12

\* The climb of findProjectMain goes through them.
LEMMA AboveIs ==
    ASSUME NEW a, IsRoot(a), NEW names \in Seq(Clean(Word)), names # <<>>
    PROVE  Above(At(a, names)) = [d \in 0 .. MaxDepth - 1 |-> Outwards(a, names, d)]
<1>1. PICK path : path = At(a, names) OBVIOUS
<1>2. PICK f : f = [d \in Nat |-> Outwards(a, names, d)] OBVIOUS
<1> DEFINE Is(g) == g = [d \in Nat |-> Dirname(IF d = 0 THEN path ELSE g[d - 1])]
<1>3. \A d \in Nat : f[d] = Dirname(IF d = 0 THEN path ELSE f[d - 1])
  <2> TAKE d \in Nat
  <2>1. CASE d = 0 BY <1>1, <1>2, <2>1, OutwardsFacts
  <2>2. CASE d # 0
    <3>1. PICK e : e = d - 1 OBVIOUS
    <3>2. e \in Nat /\ e + 1 = d BY <2>2, <3>1
    <3>3. Dirname(Outwards(a, names, e)) = Outwards(a, names, e + 1) BY <3>2, OutwardsFacts
    <3>4. f[d] = Outwards(a, names, d) /\ f[e] = Outwards(a, names, e) BY <1>2, <3>2
    <3> QED BY <2>2, <3>1, <3>2, <3>3, <3>4
  <2> QED BY <2>1, <2>2
<1>4. Is(f) BY <1>2, <1>3
<1>5. ASSUME NEW g, Is(g) PROVE \A d \in Nat : g[d] = f[d]
  <2>1. PICK bad : bad = {d \in Nat : g[d] # f[d]} OBVIOUS
  <2>2. \A d \in Nat : g[d] = Dirname(IF d = 0 THEN path ELSE g[d - 1]) BY <1>5
  <2>3. bad = {}
    <3> SUFFICES ASSUME bad # {} PROVE FALSE OBVIOUS
    <3>1. bad \in SUBSET Nat BY <2>1
    <3>2. PICK d \in bad : \A e \in bad : d <= e BY <3>1, SmallestOf
    <3>3. d \in Nat /\ g[d] # f[d] BY <2>1
    <3>4. d # 0 BY <1>3, <2>2, <3>3
    <3>5. d - 1 \in Nat /\ ~(d <= d - 1) BY <3>3, <3>4
    <3>6. g[d - 1] = f[d - 1] BY <2>1, <3>2, <3>5
    <3> QED BY <1>3, <2>2, <3>3, <3>4, <3>6
  <2> QED BY <2>1, <2>3
<1>6. PICK dir : dir = CHOOSE g : Is(g) OBVIOUS
<1>7. Above(path) = [d \in 0 .. MaxDepth - 1 |-> dir[d]] BY <1>6 DEF Above
<1> HIDE DEF Is
<1>8. Is(dir) BY <1>4, <1>6
<1>9. \A d \in Nat : dir[d] = f[d] BY <1>5, <1>8
<1>10. \A d \in 0 .. MaxDepth - 1 : dir[d] = Outwards(a, names, d)
  <2> TAKE d \in 0 .. MaxDepth - 1
  <2>1. d \in Nat OBVIOUS
  <2> QED BY <1>2, <1>9, <2>1
<1> QED BY <1>1, <1>7, <1>10

\* A climb of limit folders finds the innermost of the marked ones, if it comes
\* so far.
Marked(limit, last, S) == {d \in 0 .. limit - 1 : d <= last /\ last - d \in S}

\* The nearest marked folder is the one with the most names, within the limit.
LEMMA NearestIs ==
    ASSUME NEW dir, NEW limit \in Nat, NEW last \in Nat, NEW S \in SUBSET (0 .. last)
    PROVE  /\ S = {} => Nearest(dir, Marked(limit, last, S)) = Nowhere
           /\ S # {} =>
                LET k == CHOOSE k \in S : \A l \in S : l <= k
                IN /\ k \in 0 .. last
                   /\ Nearest(dir, Marked(limit, last, S)) =
                         IF last - k < limit THEN dir[last - k] ELSE Nowhere
<1>1. PICK ends : ends = Marked(limit, last, S) OBVIOUS
<1>2. \A d : d \in ends <=> d \in 0 .. limit - 1 /\ d <= last /\ last - d \in S BY <1>1 DEF Marked
<1>3. CASE S = {}
  <2>1. ends = {} BY <1>2, <1>3
  <2> QED BY <1>1, <1>3, <2>1 DEF Nearest
<1>4. CASE S # {}
  <2>1. S \in SUBSET Nat /\ \A l \in S : l <= last OBVIOUS
  <2>2. \E k \in S : \A l \in S : l <= k BY <1>4, <2>1, LargestOf
  <2>3. PICK k : k = CHOOSE m \in S : \A l \in S : l <= m OBVIOUS
  <2>4. k \in S /\ \A l \in S : l <= k BY <2>2, <2>3
  <2>5. k \in 0 .. last BY <2>4
  <2>6. CASE last - k < limit
    <3>1. PICK d : d = last - k OBVIOUS
    <3>2. d \in 0 .. limit - 1 /\ d <= last /\ last - d = k BY <2>5, <2>6, <3>1
    <3>3. d \in ends BY <1>2, <2>4, <3>2
    <3>4. \A e \in ends : d <= e
      <4> TAKE e \in ends
      <4>1. e \in 0 .. limit - 1 /\ last - e \in S BY <1>2
      <4>2. last - e <= k BY <2>4, <4>1
      <4> QED BY <2>5, <3>1, <4>1, <4>2
    <3>5. \A e \in ends : e \in Nat BY <1>2
    <3>6. \A c \in ends : (\A e \in ends : c <= e) => c = d
      <4> SUFFICES ASSUME NEW c \in ends, \A e \in ends : c <= e PROVE c = d OBVIOUS
      <4>1. c <= d /\ d <= c /\ c \in Nat /\ d \in Nat BY <3>3, <3>4, <3>5
      <4> QED BY <4>1
    <3>7. (CHOOSE c \in ends : \A e \in ends : c <= e) = d BY <3>3, <3>4, <3>6
    <3>8. Nearest(dir, ends) = dir[d] BY <3>3, <3>7 DEF Nearest
    <3> QED BY <1>1, <1>4, <2>3, <2>5, <2>6, <3>1, <3>8
  <2>7. CASE ~(last - k < limit)
    <3>1. ends = {}
      <4> SUFFICES ASSUME NEW e \in ends PROVE FALSE OBVIOUS
      <4>1. e \in 0 .. limit - 1 /\ last - e \in S BY <1>2
      <4>2. last - e <= k BY <2>4, <4>1
      <4> QED BY <2>5, <2>7, <4>1, <4>2
    <3> QED BY <1>1, <1>4, <2>3, <2>5, <2>7, <3>1 DEF Nearest
  <2> QED BY <2>6, <2>7
<1> QED BY <1>3, <1>4

\* A document belongs to the main file of the innermost folder around it that
\* has a project file, if that folder is within the depth limit and has a main
\* file, wherever the document is and whatever is on the disk.
THEOREM InnermostDecides == IncludesSpec => []InnermostProject
<1>1. InCases => InnermostProject
  <2> SUFFICES ASSUME InCases, Below(document) # <<>>
               PROVE  InnermostProject
    BY DEF InnermostProject
  <2>1. PICK a, names : a = RootOf(document) /\ names = Names(document) OBVIOUS
  <2>2. IsRoot(a) /\ names \in Seq(Clean(Word)) /\ document = At(a, names)
    BY <2>1, DocumentFacts, NormalAbsolute
  <2>3. Below(document) = Slashes(names) BY <2>2, AtFacts
  <2>4. names # <<>> /\ Segments(Below(document)) = names
    <3>1. /\ names = <<>> => Slashes(names) = <<>>
          /\ names # <<>> => Segments(Slashes(names)) = names
      BY <2>2, SlashesStart, WordFacts
    <3> QED BY <2>3, <3>1
  <2>5. PICK last, limit, S : last = Level /\ limit = MaxDepth /\ S = MarkedLevels OBVIOUS
  <2>6. last = Len(names) - 1 /\ \A k : Folder(k) = At(a, SubSeq(names, 1, k))
    BY <2>1, <2>4, <2>5 DEF Level, Folder, At
  <2>7. last \in Nat BY <2>2, <2>4, <2>6, OutwardsFacts
  <2>8. S \in SUBSET (0 .. last) BY <2>5 DEF MarkedLevels
  <2>9. \A d \in Nat : d <= last => Outwards(a, names, d) = Folder(last - d) BY <2>6 DEF Outwards
  <2>10. PICK dir : dir = Above(document) OBVIOUS
  <2>11. dir = [d \in 0 .. limit - 1 |-> Outwards(a, names, d)] BY <2>2, <2>4, <2>5, <2>10, AboveIs
  <2>12. limit \in Nat BY <2>5, DepthAssumption
  <2>13. \A d : d \in Passed(dir) <=> d \in 0 .. limit - 1 /\ d <= last
    <3>1. DOMAIN dir = 0 .. limit - 1 /\ \A d \in 0 .. limit - 1 : dir[d] = Outwards(a, names, d) BY <2>11
    <3>2. /\ \A d \in Nat : Outwards(a, names, d) # Nowhere
          /\ \A d \in Nat : d < last => Outwards(a, names, d + 1) # Outwards(a, names, d)
          /\ Outwards(a, names, last + 1) = Outwards(a, names, last)
      BY <2>2, <2>4, <2>6, OutwardsFacts
    <3>3. ASSUME NEW d \in 0 .. limit - 1, d <= last PROVE d \in Passed(dir)
      <4>1. \A e \in 1 .. d : dir[e] # dir[e - 1]
        <5> TAKE e \in 1 .. d
        <5>1. PICK b : b = e - 1 OBVIOUS
        <5>2. b \in Nat /\ b < last /\ b + 1 = e /\ e \in 0 .. limit - 1 /\ b \in 0 .. limit - 1
          BY <2>7, <2>12, <3>3, <5>1
        <5>3. Outwards(a, names, e) # Outwards(a, names, b) BY <3>2, <5>2
        <5> QED BY <3>1, <5>1, <5>2, <5>3
      <4>2. d \in Nat OBVIOUS
      <4>3. dir[d] # Nowhere BY <3>1, <3>2, <4>2
      <4> QED BY <3>1, <4>1, <4>3 DEF Passed
    <3>4. ASSUME NEW d \in Passed(dir) PROVE d \in 0 .. limit - 1 /\ d <= last
      <4>1. d \in 0 .. limit - 1 /\ \A e \in 1 .. d : dir[e] # dir[e - 1] BY <3>1 DEF Passed
      <4> SUFFICES ASSUME ~(d <= last) PROVE FALSE BY <4>1
      <4>2. PICK e : e = last + 1 OBVIOUS
      <4>3. e \in 1 .. d /\ e - 1 = last /\ e \in 0 .. limit - 1 /\ last \in 0 .. limit - 1
        BY <2>7, <2>12, <4>1, <4>2
      <4>4. dir[e] = Outwards(a, names, last + 1) /\ dir[e - 1] = Outwards(a, names, last) BY <3>1, <4>2, <4>3
      <4> QED BY <3>2, <4>1, <4>3, <4>4
    <3> QED BY <3>3, <3>4
  <2>14. {d \in Passed(dir) : HasProject(dir[d])} = Marked(limit, last, S)
    <3>1. ASSUME NEW d \in 0 .. limit - 1, d <= last
          PROVE  HasProject(dir[d]) <=> last - d \in S
      <4>1. d \in Nat BY <2>12
      <4>2. dir[d] = Folder(last - d) BY <2>9, <2>11, <3>1, <4>1
      <4>3. last - d \in 0 .. Level BY <2>5, <2>7, <3>1, <4>1
      <4>4. last - d \in S <=> Exists(Folder(last - d) \o <<"/", ProjectFile>>)
        BY <2>5, <4>3 DEF MarkedLevels
      <4> QED BY <4>2, <4>4 DEF HasProject
    <3>2. \A d : d \in Passed(dir) /\ HasProject(dir[d]) <=> d \in Marked(limit, last, S)
      BY <2>13, <3>1 DEF Marked
    <3> QED BY <3>2
  <2>15. PICK near : near = Nearest(dir, Marked(limit, last, S)) OBVIOUS
  <2>16. PICK main : main = MainIn(near) OBVIOUS
  <2>17. FindProjectMain(document) = IF main # Nowhere /\ Exists(main) THEN main ELSE Nowhere
    BY <2>10, <2>14, <2>15, <2>16 DEF FindProjectMain
  <2>18. CASE S = {}
    <3>1. near = Nowhere BY <2>7, <2>8, <2>12, <2>15, <2>18, NearestIs
    <3>2. main = Nowhere BY <2>16, <3>1 DEF MainIn
    <3> QED BY <2>5, <2>17, <2>18, <3>2 DEF InnermostProject
  <2>19. CASE S # {}
    <3>1. PICK k : k = CHOOSE m \in S : \A l \in S : l <= m OBVIOUS
    <3>2. k \in 0 .. last /\ near = IF last - k < limit THEN dir[last - k] ELSE Nowhere
      BY <2>7, <2>8, <2>12, <2>15, <2>19, <3>1, NearestIs
    <3>3. PICK there : there = Folder(k) \o <<"/", MainFile>> OBVIOUS
    <3>4. InnermostProject <=> FindProjectMain(document) =
                                  IF last - k < limit /\ Exists(there) THEN there ELSE Nowhere
      BY <2>5, <2>19, <3>1, <3>3 DEF InnermostProject
    <3>5. CASE last - k < limit
      <4>1. last - k \in 0 .. limit - 1 /\ last - k \in Nat /\ last - k <= last /\ last - (last - k) = k
        BY <2>7, <2>12, <3>2, <3>5
      <4>2. near = Folder(k) BY <2>9, <2>11, <3>2, <3>5, <4>1
      <4>3. near # Nowhere
        <5>1. PICK d : d = last - k OBVIOUS
        <5>2. d \in Nat BY <4>1, <5>1
        <5>3. Outwards(a, names, d) # Nowhere BY <2>2, <2>4, <5>2, OutwardsFacts
        <5> QED BY <2>9, <4>1, <4>2, <5>1, <5>3
      <4>4. main = there BY <2>16, <3>3, <4>2, <4>3 DEF MainIn
      <4>5. there # Nowhere
        <5>1. PICK E : E = PathChar \cup {"/", MainFile} OBVIOUS
        <5>2. k \in 0 .. Len(names) BY <2>6, <2>7, <3>2
        <5>3. PICK q : q = SubSeq(names, 1, k) OBVIOUS
        <5>4. q \in Seq(Clean(Word)) BY <2>2, <5>2, <5>3, PrefixOf
        <5>5. PICK t, m : t = Folder(k) /\ m = <<"/", MainFile>> OBVIOUS
        <5>6. t \in Seq(PathChar) BY <2>2, <2>6, <5>3, <5>4, <5>5, AtFacts
        <5>7. PathChar \subseteq E BY <5>1
        <5>8. t \in Seq(E) BY <5>6, <5>7, SeqMonotonic
        <5>9. m \in Seq(E) /\ Len(m) = 2 BY <5>1, <5>5
        <5>10. m # <<>> BY <5>9, EmptySeq
        <5>11. t \o m # <<>> BY <5>8, <5>9, <5>10, ConcatEqualIffEmpty
        <5> QED BY <3>3, <5>5, <5>11 DEF Nowhere
      <4> QED BY <2>17, <3>4, <3>5, <4>4, <4>5
    <3>6. CASE ~(last - k < limit)
      <4>1. near = Nowhere BY <3>2, <3>6
      <4>2. main = Nowhere BY <2>16, <4>1 DEF MainIn
      <4> QED BY <2>17, <3>4, <3>6, <4>2
    <3> QED BY <3>5, <3>6
  <2> QED BY <2>18, <2>19
<1> QED BY <1>1, CasesStay, PTL

-----------------------------------------------------------------------------

\* The segments of a text as places, some of them names and some "..": the
\* names that are kept, listed in order, each with as many more names than ".."
\* after it as there are kept names after it.
Between(S, s, last) == {t \in S : s[1] < t[1] /\ t[1] <= last[1]}
After(S, s) == {t \in S : s[1] < t[1]}
KeptOf(B, N, U) ==
    {s \in N : \A last \in B : Cardinality(Between(U, s, last)) <= Cardinality(Between(N, s, last))}
Places(B, N, U) ==
    IsFiniteSet(B) /\ N \subseteq B /\ U \subseteq B /\ \A t \in B : t[1] \in Nat
Beyond(B, x) == x[1] \in Nat /\ \A t \in B : t[1] < x[1]
Listed(pos, B, N, U) ==
    /\ pos \in Seq(N)
    /\ \A i \in 1 .. Len(pos) :
          /\ pos[i] \in KeptOf(B, N, U)
          /\ Cardinality(After(N, pos[i])) = Cardinality(After(U, pos[i])) + (Len(pos) - i)
    /\ \A s \in KeptOf(B, N, U) : \E i \in 1 .. Len(pos) : s = pos[i]
    /\ \A i, j \in 1 .. Len(pos) : i < j => pos[i][1] < pos[j][1]

\* What a place beyond those of B, added to S, changes: S becomes T.
Counted(B, S, T, x) ==
    /\ \A s \in B :
          /\ Cardinality(After(S, s)) \in Nat
          /\ Cardinality(After(T, s)) = Cardinality(After(S, s)) + 1
          /\ Between(S, s, x) = After(S, s)
          /\ Between(T, s, x) = After(T, s)
          /\ \A last \in B : Between(T, s, last) = Between(S, s, last)
    /\ After(S, x) = {} /\ After(T, x) = {}
    /\ \A last : Between(S, x, last) = {} /\ Between(T, x, last) = {}

\* That is what changes.
LEMMA CountFacts ==
    ASSUME NEW B, NEW N, NEW U, Places(B, N, U), NEW x, Beyond(B, x), NEW S \in SUBSET B,
           NEW T, T = S \cup {x}
    PROVE  Counted(B, S, T, x)
<1>1. /\ IsFiniteSet(B) /\ \A t \in B : t[1] \in Nat /\ t[1] < x[1]
      /\ x[1] \in Nat
  BY DEF Places, Beyond
<1>2. x \notin B BY <1>1
<1>3. \A t \in S : t \in B OBVIOUS
<1>4. ASSUME NEW s \in B
      PROVE  /\ Cardinality(After(S, s)) \in Nat
             /\ Cardinality(After(T, s)) = Cardinality(After(S, s)) + 1
             /\ Between(S, s, x) = After(S, s)
             /\ Between(T, s, x) = After(T, s)
             /\ \A last \in B : Between(T, s, last) = Between(S, s, last)
  <2>1. After(S, s) \in SUBSET B BY <1>3 DEF After
  <2>2. IsFiniteSet(After(S, s)) BY <1>1, <2>1, FS_Subset
  <2>3. x \notin After(S, s) BY <1>2, <2>1
  <2>4. After(T, s) = After(S, s) \cup {x} BY <1>1 DEF After
  <2>5. Cardinality(After(T, s)) = Cardinality(After(S, s)) + 1 BY <2>2, <2>3, <2>4, FS_AddElement
  <2>6. Cardinality(After(S, s)) \in Nat BY <2>2, FS_CardinalityType
  <2>7. \A t \in S : t[1] <= x[1] BY <1>1, <1>3
  <2>8. Between(S, s, x) = After(S, s) BY <2>7 DEF Between, After
  <2>9. x[1] <= x[1] BY <1>1
  <2>10. Between(T, s, x) = After(T, s) BY <2>7, <2>9 DEF Between, After
  <2>11. ASSUME NEW last \in B PROVE Between(T, s, last) = Between(S, s, last)
    <3>1. ~(x[1] <= last[1]) BY <1>1
    <3> QED BY <3>1 DEF Between
  <2> QED BY <2>1, <2>5, <2>6, <2>8, <2>10, <2>11
<1>5. \A t \in T : ~(x[1] < t[1]) BY <1>1, <1>3
<1>6. After(S, x) = {} /\ After(T, x) = {} BY <1>5 DEF After
<1>7. \A last : Between(S, x, last) = {} /\ Between(T, x, last) = {} BY <1>5 DEF Between
<1> QED BY <1>4, <1>6, <1>7 DEF Counted

\* A segment that is no name and no "..".
LEMMA ListedStill ==
    ASSUME NEW B, NEW N, NEW U, Places(B, N, U), NEW x, Beyond(B, x), NEW pos, Listed(pos, B, N, U)
    PROVE  Places(B \cup {x}, N, U) /\ Listed(pos, B \cup {x}, N, U)
<1>1. N \in SUBSET B /\ U \in SUBSET B BY DEF Places
<1>0. Counted(B, N, N \cup {x}, x) /\ Counted(B, U, U \cup {x}, x) BY <1>1, CountFacts
<1>2. Places(B \cup {x}, N, U) BY FS_AddElement DEF Places, Beyond
<1>3. ASSUME NEW s \in KeptOf(B, N, U) PROVE s \in KeptOf(B \cup {x}, N, U)
  <2>1. s \in N /\ s \in B BY <1>1 DEF KeptOf
  <2>2. PICK i \in 1 .. Len(pos) : s = pos[i] BY DEF Listed
  <2>3. Cardinality(After(N, s)) = Cardinality(After(U, s)) + (Len(pos) - i) BY <2>2 DEF Listed
  <2>4. Cardinality(After(U, s)) \in Nat BY <1>0, <2>1 DEF Counted
  <2>5. Len(pos) \in Nat BY LenProperties DEF Listed
  <2>6. Cardinality(After(U, s)) <= Cardinality(After(N, s)) BY <2>2, <2>3, <2>4, <2>5
  <2>7. Between(U, s, x) = After(U, s) /\ Between(N, s, x) = After(N, s) BY <1>0, <2>1 DEF Counted
  <2> QED BY <2>1, <2>6, <2>7 DEF KeptOf
<1>4. KeptOf(B \cup {x}, N, U) = KeptOf(B, N, U) BY <1>3 DEF KeptOf
<1> QED BY <1>2, <1>4 DEF Listed

\* A name.
LEMMA ListedMore ==
    ASSUME NEW B, NEW N, NEW U, Places(B, N, U), NEW x, Beyond(B, x), NEW pos, Listed(pos, B, N, U)
    PROVE  /\ Places(B \cup {x}, N \cup {x}, U)
           /\ Listed(Append(pos, x), B \cup {x}, N \cup {x}, U)
<1>1. N \in SUBSET B /\ U \in SUBSET B BY DEF Places
<1>2. Places(B \cup {x}, N \cup {x}, U) BY FS_AddElement DEF Places, Beyond
<1>3. PICK M, C, k, more : M = N \cup {x} /\ C = B \cup {x} /\ k = Len(pos) /\ more = Append(pos, x) OBVIOUS
<1>0. Counted(B, N, M, x) /\ Counted(B, U, U \cup {x}, x) BY <1>1, <1>3, CountFacts
<1>4. pos \in Seq(N) /\ k \in Nat BY <1>3, LenProperties DEF Listed
<1>n. PICK n : n = k + 1 OBVIOUS
<1>5. pos \in Seq(M) /\ x \in M
  <2>1. N \subseteq M BY <1>3
  <2> QED BY <1>3, <1>4, <2>1, SeqMonotonic
<1>6. /\ more \in Seq(M) /\ Len(more) = n /\ more[n] = x
      /\ \A i \in 1 .. k : more[i] = pos[i]
  BY <1>3, <1>n, <1>5, AppendProperties
<1>7. \A s \in N : s \in B BY <1>1
<1>8. ASSUME NEW s \in N PROVE s \in KeptOf(C, M, U) <=> s \in KeptOf(B, N, U)
  <2>1. \A last \in B : Between(M, s, last) = Between(N, s, last) BY <1>0, <1>7 DEF Counted
  <2>2. s \in KeptOf(B, N, U) <=>
           \A last \in B : Cardinality(Between(U, s, last)) <= Cardinality(Between(M, s, last))
    BY <2>1 DEF KeptOf
  <2>3. s \in KeptOf(C, M, U) => s \in KeptOf(B, N, U) BY <1>3, <2>2 DEF KeptOf
  <2>4. ASSUME s \in KeptOf(B, N, U) PROVE s \in KeptOf(C, M, U)
    <3>1. PICK i \in 1 .. Len(pos) : s = pos[i] BY <2>4 DEF Listed
    <3>2. Cardinality(After(N, s)) = Cardinality(After(U, s)) + (Len(pos) - i) BY <3>1 DEF Listed
    <3>3. Cardinality(After(U, s)) \in Nat /\ Cardinality(After(M, s)) = Cardinality(After(N, s)) + 1
      BY <1>0, <1>7 DEF Counted
    <3>4. Cardinality(After(U, s)) <= Cardinality(After(M, s)) BY <1>3, <1>4, <3>1, <3>2, <3>3
    <3>5. Between(U, s, x) = After(U, s) /\ Between(M, s, x) = After(M, s) BY <1>0, <1>7 DEF Counted
    <3> QED BY <1>3, <2>2, <2>4, <3>4, <3>5 DEF KeptOf
  <2> QED BY <2>3, <2>4
<1>9. x \in KeptOf(C, M, U)
  <2>1. \A last \in C : Between(U, x, last) = {} /\ Between(M, x, last) = {} BY <1>0 DEF Counted
  <2>2. Cardinality({}) <= Cardinality({}) BY FS_EmptySet
  <2> QED BY <1>5, <2>1, <2>2 DEF KeptOf
<1>10. KeptOf(C, M, U) = KeptOf(B, N, U) \cup {x}
  <2>1. KeptOf(C, M, U) \subseteq M /\ KeptOf(B, N, U) \subseteq N BY DEF KeptOf
  <2> QED BY <1>3, <1>8, <1>9, <2>1
<1>11. ASSUME NEW i \in 1 .. k
       PROVE  /\ pos[i] \in KeptOf(C, M, U) /\ pos[i] \in B
              /\ Cardinality(After(M, pos[i])) = Cardinality(After(U, pos[i])) + (n - i)
  <2>1. /\ pos[i] \in KeptOf(B, N, U)
        /\ Cardinality(After(N, pos[i])) = Cardinality(After(U, pos[i])) + (k - i)
    BY <1>3 DEF Listed
  <2>2. pos[i] \in B BY <1>1, <2>1 DEF KeptOf
  <2>3. /\ Cardinality(After(U, pos[i])) \in Nat
        /\ Cardinality(After(M, pos[i])) = Cardinality(After(N, pos[i])) + 1
    BY <1>0, <2>2 DEF Counted
  <2>4. Cardinality(After(M, pos[i])) = Cardinality(After(U, pos[i])) + (n - i)
    BY <1>4, <1>n, <2>1, <2>3
  <2> QED BY <1>10, <2>1, <2>2, <2>4
<1>12. Cardinality(After(M, x)) = Cardinality(After(U, x)) + (n - n)
  <2>1. After(M, x) = {} /\ After(U, x) = {} BY <1>0 DEF Counted
  <2>2. Cardinality({}) = 0 BY FS_EmptySet
  <2>3. n - n = 0 BY <1>4, <1>n
  <2> QED BY <2>1, <2>2, <2>3
<1>13. \A i \in 1 .. n :
          /\ more[i] \in KeptOf(C, M, U)
          /\ Cardinality(After(M, more[i])) = Cardinality(After(U, more[i])) + (n - i)
  <2> TAKE i \in 1 .. n
  <2>1. CASE i = n BY <1>6, <1>9, <1>12, <2>1
  <2>2. CASE i # n
    <3>1. i \in 1 .. k BY <1>4, <1>n, <2>2
    <3> QED BY <1>6, <1>11, <3>1
  <2> QED BY <2>1, <2>2
<1>14. \A s \in KeptOf(C, M, U) : \E i \in 1 .. n : s = more[i]
  <2> TAKE s \in KeptOf(C, M, U)
  <2>1. CASE s = x
    <3>1. n \in 1 .. n BY <1>4, <1>n
    <3> QED BY <1>6, <2>1, <3>1
  <2>2. CASE s # x
    <3>1. s \in KeptOf(B, N, U) BY <1>10, <2>2
    <3>2. PICK i \in 1 .. k : s = pos[i] BY <1>3, <3>1 DEF Listed
    <3>3. i \in 1 .. n BY <1>4, <1>n
    <3> QED BY <1>6, <3>2, <3>3
  <2> QED BY <2>1, <2>2
<1>15. \A i, j \in 1 .. n : i < j => more[i][1] < more[j][1]
  <2> SUFFICES ASSUME NEW i \in 1 .. n, NEW j \in 1 .. n, i < j PROVE more[i][1] < more[j][1] OBVIOUS
  <2>1. i \in 1 .. k BY <1>4, <1>n
  <2>2. CASE j = n
    <3>1. pos[i][1] < x[1] BY <1>11, <2>1 DEF Beyond
    <3> QED BY <1>6, <2>1, <2>2, <3>1
  <2>3. CASE j # n
    <3>1. j \in 1 .. k BY <1>4, <1>n, <2>3
    <3>2. pos[i][1] < pos[j][1] BY <1>3, <2>1, <3>1 DEF Listed
    <3> QED BY <1>6, <2>1, <3>1, <3>2
  <2> QED BY <2>2, <2>3
<1>16. Listed(more, C, M, U)
  <2>1. more \in Seq(M) /\ n = Len(more) BY <1>6
  <2> QED BY <1>13, <1>14, <1>15, <2>1, Zenon DEF Listed
<1> QED BY <1>2, <1>3, <1>16

\* A "..".
LEMMA ListedLess ==
    ASSUME NEW B, NEW N, NEW U, Places(B, N, U), NEW x, Beyond(B, x), NEW pos, Listed(pos, B, N, U)
    PROVE  /\ Places(B \cup {x}, N, U \cup {x})
           /\ Listed(IF pos = <<>> THEN pos ELSE Front(pos), B \cup {x}, N, U \cup {x})
<1>1. N \in SUBSET B /\ U \in SUBSET B BY DEF Places
<1>2. Places(B \cup {x}, N, U \cup {x}) BY FS_AddElement DEF Places, Beyond
<1>3. PICK V, C, k : V = U \cup {x} /\ C = B \cup {x} /\ k = Len(pos) OBVIOUS
<1>0. Counted(B, N, N \cup {x}, x) /\ Counted(B, U, V, x) BY <1>1, <1>3, CountFacts
<1>4. pos \in Seq(N) /\ k \in Nat BY <1>3, LenProperties DEF Listed
<1>5. ASSUME NEW s \in KeptOf(C, N, V) PROVE s \in KeptOf(B, N, U)
  <2>1. s \in N /\ s \in B BY <1>1 DEF KeptOf
  <2>2. \A last \in B : Between(V, s, last) = Between(U, s, last) BY <1>0, <2>1 DEF Counted
  <2>3. \A last \in B : Cardinality(Between(V, s, last)) <= Cardinality(Between(N, s, last))
    BY <1>3 DEF KeptOf
  <2> QED BY <2>1, <2>2, <2>3 DEF KeptOf
<1>6. ASSUME NEW i \in 1 .. k
      PROVE  /\ pos[i] \in KeptOf(C, N, V) <=> i < k
             /\ i < k => Cardinality(After(N, pos[i])) = Cardinality(After(V, pos[i])) + (k - 1 - i)
  <2>1. PICK s : s = pos[i] OBVIOUS
  <2>2. s \in KeptOf(B, N, U) /\ Cardinality(After(N, s)) = Cardinality(After(U, s)) + (k - i)
    BY <1>3, <2>1 DEF Listed
  <2>3. s \in N /\ s \in B BY <1>1, <2>2 DEF KeptOf
  <2>4. /\ Cardinality(After(U, s)) \in Nat /\ Cardinality(After(V, s)) = Cardinality(After(U, s)) + 1
        /\ Between(N, s, x) = After(N, s) /\ Between(V, s, x) = After(V, s)
    BY <1>0, <2>3 DEF Counted
  <2>5. \A last \in B : Between(V, s, last) = Between(U, s, last) BY <1>0, <2>3 DEF Counted
  <2>6. \A last \in B : Cardinality(Between(V, s, last)) <= Cardinality(Between(N, s, last))
    BY <2>2, <2>5 DEF KeptOf
  <2>7. s \in KeptOf(C, N, V) <=> Cardinality(After(V, s)) <= Cardinality(After(N, s))
    BY <1>3, <2>3, <2>4, <2>6 DEF KeptOf
  <2>8. Cardinality(After(V, s)) <= Cardinality(After(N, s)) <=> i < k BY <1>4, <2>2, <2>4
  <2>9. Cardinality(After(N, s)) = Cardinality(After(V, s)) + (k - 1 - i) BY <1>4, <2>2, <2>4
  <2> QED BY <2>1, <2>7, <2>8, <2>9
<1>7. CASE pos = <<>>
  <2>1. k = 0 BY <1>3, <1>7
  <2>2. KeptOf(B, N, U) = {} BY <1>3, <2>1 DEF Listed
  <2>3. KeptOf(C, N, V) = {} BY <1>5, <2>2
  <2>4. Listed(pos, C, N, V)
    <3>1. 1 .. Len(pos) = {} BY <1>3, <2>1
    <3>2. pos \in Seq(N) BY <1>4
    <3> QED BY <2>3, <3>1, <3>2, Zenon DEF Listed
  <2> QED BY <1>2, <1>3, <1>7, <2>4
<1>8. CASE pos # <<>>
  <2>1. k \in Nat \ {0} BY <1>3, <1>4, <1>8, EmptySeq
  <2>2. PICK m, less : m = k - 1 /\ less = Front(pos) OBVIOUS
  <2>3. m \in Nat /\ m \in 0 .. k BY <2>1, <2>2
  <2>4. /\ less \in Seq(N) /\ Len(less) = m
        /\ \A i \in 1 .. m : less[i] = pos[i]
    <3>1. PICK one : one = 1 OBVIOUS
    <3>2. \A i \in one .. m : pos[i] \in N
      <4> TAKE i \in one .. m
      <4>1. i \in 1 .. Len(pos) BY <1>3, <1>4, <2>2, <3>1
      <4> QED BY <1>4, <4>1, ElementOfSeq
    <3>3. less = SubSeq(pos, one, m) BY <1>3, <2>2, <3>1 DEF Front
    <3>4. /\ less \in Seq(N) /\ Len(less) = IF one <= m THEN m - one + 1 ELSE 0
          /\ \A i \in 1 .. m - one + 1 : less[i] = pos[one + i - 1]
      BY <2>3, <3>1, <3>2, <3>3, SubSeqProperties
    <3>5. m - one + 1 = m /\ (IF one <= m THEN m - one + 1 ELSE 0) = m BY <2>3, <3>1
    <3>6. \A i \in 1 .. m : one + i - 1 = i BY <3>1
    <3> QED BY <3>4, <3>5, <3>6
  <2>5. \A i \in 1 .. m : i \in 1 .. k /\ i < k BY <2>1, <2>2
  <2>6. \A i \in 1 .. m : /\ less[i] \in KeptOf(C, N, V)
                          /\ Cardinality(After(N, less[i])) = Cardinality(After(V, less[i])) + (m - i)
    BY <1>6, <2>2, <2>4, <2>5
  <2>7. \A s \in KeptOf(C, N, V) : \E i \in 1 .. m : s = less[i]
    <3> TAKE s \in KeptOf(C, N, V)
    <3>1. PICK i \in 1 .. k : s = pos[i] BY <1>3, <1>5 DEF Listed
    <3>2. i < k BY <1>6, <3>1
    <3>3. i \in 1 .. m BY <2>1, <2>2, <3>2
    <3> QED BY <2>4, <3>1, <3>3
  <2>8. \A i, j \in 1 .. m : i < j => less[i][1] < less[j][1]
    BY <1>3, <2>4, <2>5 DEF Listed
  <2>9. Listed(less, C, N, V) BY <2>4, <2>6, <2>7, <2>8 DEF Listed
  <2> QED BY <1>2, <1>3, <1>8, <2>2, <2>9
<1> QED BY <1>7, <1>8

\* In the list a name's number is how many kept names start no later.
NthIn(kept, i) == CHOOSE s \in kept : Cardinality({t \in kept : t[1] <= s[1]}) = i

\* The listed places are the kept ones, each where its count says.
LEMMA ListedCount ==
    ASSUME NEW B, NEW N, NEW U, Places(B, N, U), NEW pos, Listed(pos, B, N, U)
    PROVE  LET kept == KeptOf(B, N, U) IN
           /\ Cardinality(kept) = Len(pos)
           /\ \A i \in 1 .. Len(pos) : NthIn(kept, i) = pos[i]
<1>1. PICK K, n : K = KeptOf(B, N, U) /\ n = Len(pos) OBVIOUS
<1>2. n \in Nat BY <1>1, LenProperties DEF Listed
<1>3. /\ \A i \in 1 .. n : pos[i] \in K /\ pos[i][1] \in Nat
      /\ \A s \in K : \E i \in 1 .. n : s = pos[i]
      /\ \A i, j \in 1 .. n : i < j => pos[i][1] < pos[j][1]
  <2>1. \A s \in K : s[1] \in Nat BY <1>1 DEF KeptOf, Places
  <2> QED BY <1>1, <2>1 DEF Listed
<1> DEFINE P(k) == {pos[j] : j \in 1 .. k}
<1>4. \A k \in 0 .. n : IsFiniteSet(P(k)) /\ Cardinality(P(k)) = k
  <2>1. PICK bad : bad = {k \in 0 .. n : ~(IsFiniteSet(P(k)) /\ Cardinality(P(k)) = k)} OBVIOUS
  <2> SUFFICES ASSUME bad # {} PROVE FALSE BY <2>1
  <2>2. bad \in SUBSET Nat BY <2>1
  <2>3. PICK k \in bad : \A j \in bad : k <= j BY <2>2, SmallestOf
  <2>4. k \in 0 .. n /\ ~(IsFiniteSet(P(k)) /\ Cardinality(P(k)) = k) BY <2>1
  <2>5. k # 0
    <3>1. P(0) = {} OBVIOUS
    <3> QED BY <2>4, <3>1, FS_EmptySet
  <2>6. PICK j : j = k - 1 OBVIOUS
  <2>7. j \in 0 .. n /\ ~(k <= j) /\ k \in 1 .. n /\ j + 1 = k BY <1>2, <2>4, <2>5, <2>6
  <2>8. IsFiniteSet(P(j)) /\ Cardinality(P(j)) = j BY <2>1, <2>3, <2>7
  <2>9. P(k) = P(j) \cup {pos[k]}
    <3>1. 1 .. k = (1 .. j) \cup {k} BY <2>6, <2>7
    <3> QED BY <3>1
  <2>10. pos[k] \notin P(j)
    <3> SUFFICES ASSUME NEW i \in 1 .. j, pos[i] = pos[k] PROVE FALSE OBVIOUS
    <3>1. i \in 1 .. n /\ i < k BY <1>2, <2>6, <2>7
    <3>2. pos[i][1] < pos[k][1] /\ pos[k][1] \in Nat BY <1>3, <2>7, <3>1
    <3> QED BY <3>2
  <2> HIDE DEF P
  <2>11. IsFiniteSet(P(k)) /\ Cardinality(P(k)) = j + 1 BY <2>8, <2>9, <2>10, FS_AddElement
  <2> QED BY <2>4, <2>7, <2>11
<1>5. K = P(n) BY <1>3
<1>6. \A i \in 1 .. n : {t \in K : t[1] <= pos[i][1]} = P(i)
  <2> TAKE i \in 1 .. n
  <2>1. ASSUME NEW j \in 1 .. n PROVE pos[j][1] <= pos[i][1] <=> j \in 1 .. i
    <3>1. CASE j < i
      <4>1. pos[j][1] < pos[i][1] /\ pos[i][1] \in Nat /\ pos[j][1] \in Nat BY <1>3, <3>1
      <4> QED BY <3>1, <4>1
    <3>2. CASE j = i
      <4>1. pos[i][1] \in Nat BY <1>3
      <4> QED BY <3>2, <4>1
    <3>3. CASE i < j
      <4>1. pos[i][1] < pos[j][1] /\ pos[i][1] \in Nat /\ pos[j][1] \in Nat BY <1>3, <3>3
      <4> QED BY <3>3, <4>1
    <3> QED BY <3>1, <3>2, <3>3
  <2>2. \A j \in 1 .. i : j \in 1 .. n BY <1>2
  <2> QED BY <1>3, <2>1, <2>2
<1>7. \A i \in 1 .. n : Cardinality({t \in K : t[1] <= pos[i][1]}) = i
  <2> TAKE i \in 1 .. n
  <2>1. i \in 0 .. n BY <1>2
  <2> HIDE DEF P
  <2> QED BY <1>4, <1>6, <2>1
<1>8. Cardinality(K) = n
  <2>1. n \in 0 .. n BY <1>2
  <2> HIDE DEF P
  <2> QED BY <1>4, <1>5, <2>1
<1>9. ASSUME NEW i \in 1 .. n PROVE NthIn(K, i) = pos[i]
  <2> DEFINE Nth(s) == Cardinality({t \in K : t[1] <= s[1]}) = i
  <2>1. pos[i] \in K /\ Nth(pos[i]) BY <1>3, <1>7
  <2>2. \A s \in K : Nth(s) => s = pos[i]
    <3> SUFFICES ASSUME NEW s \in K, Nth(s) PROVE s = pos[i] OBVIOUS
    <3>1. PICK j \in 1 .. n : s = pos[j] BY <1>3
    <3>2. j = i BY <1>7, <3>1
    <3> QED BY <3>1, <3>2
  <2>3. NthIn(K, i) = CHOOSE s \in K : Nth(s) BY DEF NthIn
  <2> HIDE DEF Nth
  <2>4. (CHOOSE s \in K : Nth(s)) = pos[i] BY <2>1, <2>2
  <2> QED BY <2>3, <2>4
<1> QED BY <1>1, <1>8, <1>9

\* The names that normalize has kept of a text are those at the listed places.
Reads(q, parts) ==
    \E pos : /\ Listed(pos, SegmentsAt(q), NamesAt(q), UpsAt(q))
             /\ Places(SegmentsAt(q), NamesAt(q), UpsAt(q))
             /\ Len(parts) = Len(pos)
             /\ \A i \in 1 .. Len(pos) : parts[i] = Text(q, pos[i])

\* Then they are all the names that are kept, in order.
LEMMA KeptIs ==
    ASSUME NEW D, NEW q, NEW parts \in Seq(D), Reads(q, parts)
    PROVE  Kept(q) = parts
<1>1. PICK pos : /\ Listed(pos, SegmentsAt(q), NamesAt(q), UpsAt(q))
                 /\ Places(SegmentsAt(q), NamesAt(q), UpsAt(q))
                 /\ Len(parts) = Len(pos)
                 /\ \A i \in 1 .. Len(pos) : parts[i] = Text(q, pos[i])
  BY DEF Reads
<1>2. PICK K, n : K = KeptOf(SegmentsAt(q), NamesAt(q), UpsAt(q)) /\ n = Len(pos) OBVIOUS
<1>3. KeptAt(q) = K BY <1>2 DEF KeptAt, KeptOf, Between
<1>4. /\ Cardinality(K) = n
      /\ \A i \in 1 .. n : NthIn(K, i) = pos[i]
  BY <1>1, <1>2, ListedCount
<1>5. Kept(q) = [i \in 1 .. Cardinality(K) |-> Text(q, NthIn(K, i))]
  BY <1>3 DEF Kept, NthIn
<1>6. PICK out : out = [i \in 1 .. n |-> Text(q, pos[i])] OBVIOUS
<1>7. Kept(q) = out BY <1>4, <1>5, <1>6
<1>8. n \in Nat /\ Len(parts) = n /\ DOMAIN parts = 1 .. n BY <1>1, <1>2, LenProperties
<1>9. \A i \in 1 .. n : out[i] = parts[i] BY <1>1, <1>2, <1>6
<1>10. \A i \in 1 .. n : parts[i] \in D BY <1>8, ElementOfSeq
<1>11. out \in Seq(D) /\ Len(out) = n
  <2>1. out \in [1 .. n -> D] BY <1>6, <1>9, <1>10
  <2> QED BY <1>8, <2>1
<1>12. out = parts BY <1>8, <1>9, <1>11, SeqEqual
<1> QED BY <1>7, <1>12

\* One segment more: x is where it stands, unless it is empty.
LEMMA ReadsOn ==
    ASSUME NEW B, NEW N, NEW U, Places(B, N, U), NEW pos, Listed(pos, B, N, U),
           NEW q, NEW parts \in Seq(Clean(Word)), Len(parts) = Len(pos),
           \A i \in 1 .. Len(pos) : parts[i] = Text(q, pos[i]),
           NEW w \in Seq(Word), NEW x,
           SegmentsAt(q) = IF w = <<>> THEN B ELSE B \cup {x},
           w # <<>> => Beyond(B, x) /\ Text(q, x) = w,
           \A s \in B : (s \in N <=> Text(q, s) \notin {<<".">>, Up}) /\ (s \in U <=> Text(q, s) = Up)
    PROVE  Reads(q, Step(TRUE, parts, w))
<1>1. N \subseteq B /\ U \subseteq B BY DEF Places
<1>2. Len(pos) \in Nat BY LenProperties DEF Listed
<1>3. \A s \in SegmentsAt(q) : /\ s \in NamesAt(q) <=> Text(q, s) \notin {<<".">>, Up}
                               /\ s \in UpsAt(q) <=> Text(q, s) = Up
  BY DEF NamesAt, UpsAt
<1>4. NamesAt(q) \subseteq SegmentsAt(q) /\ UpsAt(q) \subseteq SegmentsAt(q) BY DEF NamesAt, UpsAt
<1>5. <<".">> # <<>> /\ Up # <<>> /\ Up # <<".">> BY UpFacts
<1>6. CASE w = <<>>
  <2>1. SegmentsAt(q) = B BY <1>6
  <2>2. NamesAt(q) = N /\ UpsAt(q) = U BY <1>1, <1>3, <1>4, <2>1
  <2>3. Step(TRUE, parts, w) = parts BY <1>6, StepFacts
  <2> QED BY <2>1, <2>2, <2>3 DEF Reads
<1>7. CASE w = <<".">>
  <2>1. SegmentsAt(q) = B \cup {x} /\ Beyond(B, x) /\ Text(q, x) = w BY <1>5, <1>7
  <2>2. NamesAt(q) = N /\ UpsAt(q) = U
    <3>1. x \notin NamesAt(q) /\ x \notin UpsAt(q) BY <1>3, <1>5, <1>7, <2>1
    <3> QED BY <1>1, <1>3, <1>4, <2>1, <3>1
  <2>3. Step(TRUE, parts, w) = parts BY <1>7, StepFacts
  <2>4. Places(B \cup {x}, N, U) /\ Listed(pos, B \cup {x}, N, U) BY <2>1, ListedStill
  <2> QED BY <2>1, <2>2, <2>3, <2>4 DEF Reads
<1>8. CASE w \notin {<<>>, <<".">>, Up}
  <2>1. SegmentsAt(q) = B \cup {x} /\ Beyond(B, x) /\ Text(q, x) = w BY <1>8
  <2>2. NamesAt(q) = N \cup {x} /\ UpsAt(q) = U
    <3>1. x \in NamesAt(q) /\ x \notin UpsAt(q) BY <1>3, <1>8, <2>1
    <3> QED BY <1>1, <1>3, <1>4, <2>1, <3>1
  <2>3. w \in Clean(Word) BY <1>8 DEF Clean
  <2>4. Step(TRUE, parts, w) = Append(parts, w) BY <2>3, StepFacts
  <2>5. PICK more, out : more = Append(pos, x) /\ out = Append(parts, w) OBVIOUS
  <2>6. Places(B \cup {x}, N \cup {x}, U) /\ Listed(more, B \cup {x}, N \cup {x}, U)
    BY <2>1, <2>5, ListedMore
  <2>7. PICK n, m : n = Len(pos) /\ m = n + 1 OBVIOUS
  <2>8. /\ Len(out) = m /\ out[m] = w /\ \A i \in 1 .. n : out[i] = parts[i]
    BY <2>3, <2>5, <2>7, AppendProperties
  <2>9. /\ Len(more) = m /\ more[m] = x /\ \A i \in 1 .. n : more[i] = pos[i]
    <3>1. PICK M : M = N \cup {x} OBVIOUS
    <3>2. pos \in Seq(M) /\ x \in M
      <4>1. N \subseteq M /\ x \in M BY <3>1
      <4>2. pos \in Seq(N) BY DEF Listed
      <4> QED BY <4>1, <4>2, SeqMonotonic
    <3> QED BY <2>5, <2>7, <3>2, AppendProperties
  <2>10. \A i \in 1 .. m : out[i] = Text(q, more[i])
    <3> TAKE i \in 1 .. m
    <3>1. CASE i = m BY <2>1, <2>8, <2>9, <3>1
    <3>2. CASE i # m
      <4>1. i \in 1 .. n BY <1>2, <2>7, <3>2
      <4> QED BY <2>7, <2>8, <2>9, <4>1
    <3> QED BY <3>1, <3>2
  <2>11. Len(out) = Len(more) /\ \A i \in 1 .. Len(more) : out[i] = Text(q, more[i])
    BY <2>8, <2>9, <2>10
  <2> QED BY <2>1, <2>2, <2>4, <2>5, <2>6, <2>11 DEF Reads
<1>9. CASE w = Up
  <2>1. SegmentsAt(q) = B \cup {x} /\ Beyond(B, x) /\ Text(q, x) = w BY <1>5, <1>9
  <2>2. NamesAt(q) = N /\ UpsAt(q) = U \cup {x}
    <3>1. x \notin NamesAt(q) /\ x \in UpsAt(q) BY <1>3, <1>9, <2>1
    <3> QED BY <1>1, <1>3, <1>4, <2>1, <3>1
  <2>3. Step(TRUE, parts, w) = IF parts = <<>> THEN parts ELSE Front(parts) BY <1>9, StepFacts
  <2>4. PICK less, out : /\ less = IF pos = <<>> THEN pos ELSE Front(pos)
                         /\ out = IF parts = <<>> THEN parts ELSE Front(parts)
    OBVIOUS
  <2>5. Places(B \cup {x}, N, U \cup {x}) /\ Listed(less, B \cup {x}, N, U \cup {x})
    BY <2>1, <2>4, ListedLess
  <2>6. PICK n : n = Len(pos) OBVIOUS
  <2>7. pos \in Seq(N) /\ n \in Nat BY <1>2, <2>6 DEF Listed
  <2>8. (pos = <<>> <=> n = 0) /\ (parts = <<>> <=> n = 0) BY <2>6, <2>7, EmptySeq
  <2>9. Len(out) = Len(less) /\ \A i \in 1 .. Len(less) : out[i] = Text(q, less[i])
    <3>1. CASE n = 0
      <4>1. out = parts /\ less = pos BY <2>4, <2>8, <3>1
      <4> QED BY <4>1
    <3>2. CASE n # 0
      <4>1. PICK m : m = n - 1 OBVIOUS
      <4>2. m \in Nat /\ m \in 0 .. n BY <2>7, <3>2, <4>1
      <4>3. out = SubSeq(parts, 1, m) /\ less = SubSeq(pos, 1, m)
        BY <2>4, <2>6, <2>8, <3>2, <4>1 DEF Front
      <4>4. Len(out) = m /\ \A i \in 1 .. m : out[i] = parts[i]
        <5>1. m \in 0 .. Len(parts) BY <2>6, <4>2
        <5> QED BY <4>3, <5>1, PrefixLen
      <4>5. Len(less) = m /\ \A i \in 1 .. m : less[i] = pos[i]
        <5>1. m \in 0 .. Len(pos) BY <2>6, <4>2
        <5> QED BY <2>7, <4>3, <5>1, PrefixLen
      <4>6. \A i \in 1 .. m : i \in 1 .. n BY <2>7, <4>1
      <4> QED BY <2>6, <4>4, <4>5, <4>6
    <3> QED BY <3>1, <3>2
  <2>10. /\ Listed(less, SegmentsAt(q), NamesAt(q), UpsAt(q))
         /\ Places(SegmentsAt(q), NamesAt(q), UpsAt(q))
    BY <2>1, <2>2, <2>5
  <2>11. Reads(q, out) BY <2>9, <2>10 DEF Reads
  <2>12. Step(TRUE, parts, w) = out BY <2>3, <2>4
  <2> QED BY <2>11, <2>12
<1> QED BY <1>6, <1>7, <1>8, <1>9

\* Where a segment stands.
IsSegment(p, i, j) ==
    /\ i \in 1 .. Len(p) /\ j \in 1 .. Len(p) /\ i <= j
    /\ \A k \in i .. j : ~IsSep(p[k])
    /\ i = 1 \/ IsSep(p[i - 1])
    /\ j = Len(p) \/ IsSep(p[j + 1])

\* SegmentsAt holds the places of segments and nothing else.
LEMMA SegmentsAtIs ==
    ASSUME NEW p
    PROVE  /\ \A i, j : <<i, j>> \in SegmentsAt(p) <=> IsSegment(p, i, j)
           /\ \A s \in SegmentsAt(p) : /\ s = <<s[1], s[2]>>
                                       /\ s[1] \in 1 .. Len(p) /\ s[2] \in 1 .. Len(p)
BY DEF SegmentsAt, IsSegment

\* A text without separators is one segment, unless it is empty.
LEMMA SegmentsAtOne ==
    ASSUME NEW w \in Seq(Word), NEW x, x = <<1, Len(w)>>
    PROVE  /\ SegmentsAt(w) = IF w = <<>> THEN {} ELSE {} \cup {x}
           /\ Beyond({}, x) /\ Text(w, x) = w
<1>1. PICK n : n = Len(w) /\ n \in Nat BY LenProperties
<1>2. \A k \in 1 .. n : ~IsSep(w[k])
  <2> TAKE k \in 1 .. n
  <2>1. w[k] \in Word BY <1>1, ElementOfSeq
  <2> QED BY <2>1, WordFacts
<1>3. w = <<>> <=> n = 0 BY <1>1, EmptySeq
<1>4. ASSUME NEW i, NEW j PROVE IsSegment(w, i, j) <=> n # 0 /\ i = 1 /\ j = n
  <2>1. ASSUME IsSegment(w, i, j) PROVE n # 0 /\ i = 1 /\ j = n
    <3>1. i \in 1 .. n /\ j \in 1 .. n /\ (i = 1 \/ IsSep(w[i - 1])) /\ (j = n \/ IsSep(w[j + 1]))
      BY <1>1, <2>1 DEF IsSegment
    <3>2. i # 1 => i - 1 \in 1 .. n BY <1>1, <3>1
    <3>3. j # n => j + 1 \in 1 .. n BY <1>1, <3>1
    <3> QED BY <1>1, <1>2, <3>1, <3>2, <3>3
  <2>2. ASSUME n # 0, i = 1, j = n PROVE IsSegment(w, i, j) BY <1>1, <1>2, <2>2 DEF IsSegment
  <2> QED BY <2>1, <2>2
<1>5. SegmentsAt(w) = IF w = <<>> THEN {} ELSE {x}
  <2>1. \A s \in SegmentsAt(w) : n # 0 /\ s = x
    <3> TAKE s \in SegmentsAt(w)
    <3>1. s = <<s[1], s[2]>> BY SegmentsAtIs
    <3>2. IsSegment(w, s[1], s[2]) BY <3>1, SegmentsAtIs
    <3>3. n # 0 /\ s[1] = 1 /\ s[2] = n BY <1>4, <3>2
    <3> QED BY <1>1, <3>1, <3>3
  <2>2. n # 0 => x \in SegmentsAt(w) BY <1>1, <1>4, SegmentsAtIs
  <2> QED BY <1>3, <2>1, <2>2
<1>6. Text(w, x) = w BY SubSeqFull DEF Text
<1>7. Beyond({}, x) BY DEF Beyond
<1> QED BY <1>5, <1>6, <1>7

\* After a separator stands one segment more, unless it is empty.
OneMore(r, w, q, x) ==
    /\ SegmentsAt(q) = IF w = <<>> THEN SegmentsAt(r) ELSE SegmentsAt(r) \cup {x}
    /\ \A s \in SegmentsAt(r) : Text(q, s) = Text(r, s)
    /\ w # <<>> => Beyond(SegmentsAt(r), x) /\ Text(q, x) = w

\* So the places of a text and of the longer one differ by that segment.
LEMMA SegmentsAtMore ==
    ASSUME NEW r \in Seq(Character), NEW c \in Character, IsSep(c), NEW w \in Seq(Word),
           NEW q, q = r \o <<c>> \o w, NEW x, x = <<Len(r) + 2, Len(q)>>
    PROVE  OneMore(r, w, q, x)
<1>1. PICK n, m, one, pre : n = Len(r) /\ m = Len(w) /\ one = <<c>> /\ pre = r \o one OBVIOUS
<1>2. n \in Nat /\ m \in Nat BY <1>1, LenProperties
<1>3. w \in Seq(Character) /\ one \in Seq(Character) /\ Len(one) = 1 /\ one[1] = c
  <2>1. Word \subseteq Character BY Zenon DEF Word
  <2>2. w \in Seq(Character) BY <2>1, SeqMonotonic
  <2> QED BY <1>1, <2>2
<1>4. /\ pre \in Seq(Character) /\ Len(pre) = n + 1
      /\ \A i \in 1 .. n + 1 : pre[i] = IF i <= n THEN r[i] ELSE one[i - n]
  <2>1. one \in Seq(Character) BY <1>3
  <2>2. /\ pre \in Seq(Character) /\ Len(pre) = Len(r) + Len(one)
        /\ \A i \in 1 .. Len(r) + Len(one) : pre[i] = IF i <= Len(r) THEN r[i] ELSE one[i - Len(r)]
    BY <1>1, <2>1, ConcatProperties
  <2> QED BY <1>1, <1>3, <2>2
<1>5. PICK L, k : L = n + 1 + m /\ k = n + 1 OBVIOUS
<1>6. L \in Nat /\ k \in Nat /\ k <= L /\ n < k BY <1>2, <1>5
<1>7. /\ Len(q) = L
      /\ \A i \in 1 .. L : q[i] = IF i <= k THEN pre[i] ELSE w[i - k]
  <2>1. PICK u, v : u = pre /\ v = w OBVIOUS
  <2>2. u \in Seq(Character) /\ v \in Seq(Character) BY <1>3, <1>4, <2>1
  <2>3. /\ Len(u \o v) = Len(u) + Len(v)
        /\ \A i \in 1 .. Len(u) + Len(v) : (u \o v)[i] = IF i <= Len(u) THEN u[i] ELSE v[i - Len(u)]
    BY <2>2, ConcatProperties
  <2>4. q = u \o v BY <1>1, <2>1
  <2>5. Len(u) = k /\ Len(u) + Len(v) = L BY <1>1, <1>4, <1>5, <2>1
  <2> QED BY <2>1, <2>3, <2>4, <2>5
<1>8. \A i \in 1 .. n : i \in 1 .. L /\ q[i] = r[i]
  <2> TAKE i \in 1 .. n
  <2>1. i \in 1 .. L /\ i <= k /\ i \in 1 .. n + 1 /\ i <= n BY <1>2, <1>5, <1>6
  <2> QED BY <1>4, <1>7, <2>1
<1>9. IsSep(q[k])
  <2>1. k \in 1 .. L /\ k <= k /\ k \in 1 .. n + 1 /\ ~(k <= n) /\ k - n = 1 BY <1>2, <1>5, <1>6
  <2>2. q[k] = pre[k] /\ pre[k] = one[k - n] BY <1>4, <1>7, <2>1
  <2> QED BY <1>3, <2>1, <2>2
<1>10. \A i \in k + 1 .. L : ~IsSep(q[i])
  <2> TAKE i \in k + 1 .. L
  <2>1. i \in 1 .. L /\ ~(i <= k) /\ i - k \in 1 .. m BY <1>2, <1>5, <1>6
  <2>2. w[i - k] \in Word BY <1>1, <2>1, ElementOfSeq
  <2>3. q[i] = w[i - k] BY <1>7, <2>1
  <2> QED BY <2>2, <2>3, WordFacts
<1>11. ASSUME NEW i, NEW j, IsSegment(q, i, j)
       PROVE  IsSegment(r, i, j) \/ (m # 0 /\ i = k + 1 /\ j = L)
  <2>1. /\ i \in 1 .. L /\ j \in 1 .. L /\ i <= j
        /\ \A e \in i .. j : ~IsSep(q[e])
        /\ i = 1 \/ IsSep(q[i - 1])
        /\ j = L \/ IsSep(q[j + 1])
    BY <1>7, <1>11 DEF IsSegment
  <2>2. ~(i <= k /\ k <= j)
    <3> SUFFICES ASSUME i <= k, k <= j PROVE FALSE OBVIOUS
    <3>1. k \in i .. j BY <1>6
    <3> QED BY <1>9, <2>1, <3>1
  <2>3. CASE j < k
    <3>1. i \in 1 .. n /\ j \in 1 .. n BY <1>2, <1>5, <2>1, <2>3
    <3>2. \A e \in i .. j : ~IsSep(r[e])
      <4> TAKE e \in i .. j
      <4>1. e \in 1 .. n BY <1>2, <3>1
      <4> QED BY <1>8, <2>1, <4>1
    <3>3. i = 1 \/ IsSep(r[i - 1])
      <4> SUFFICES ASSUME i # 1 PROVE IsSep(r[i - 1]) OBVIOUS
      <4>1. i - 1 \in 1 .. n BY <1>2, <3>1
      <4> QED BY <1>8, <2>1, <4>1
    <3>4. j = n \/ IsSep(r[j + 1])
      <4> SUFFICES ASSUME j # n PROVE IsSep(r[j + 1]) OBVIOUS
      <4>1. j + 1 \in 1 .. n /\ j # L BY <1>2, <1>5, <3>1
      <4> QED BY <1>8, <2>1, <4>1
    <3> QED BY <1>1, <2>1, <3>1, <3>2, <3>3, <3>4 DEF IsSegment
  <2>4. CASE i > k
    <3>1. i = k + 1
      <4> SUFFICES ASSUME i # k + 1 PROVE FALSE OBVIOUS
      <4>1. i # 1 /\ i - 1 \in k + 1 .. L BY <1>6, <2>1, <2>4
      <4> QED BY <1>10, <2>1, <4>1
    <3>2. j = L
      <4> SUFFICES ASSUME j # L PROVE FALSE OBVIOUS
      <4>1. j + 1 \in k + 1 .. L BY <1>6, <2>1, <2>4
      <4> QED BY <1>10, <2>1, <4>1
    <3>3. m # 0 BY <1>2, <1>5, <2>1, <2>4
    <3> QED BY <3>1, <3>2, <3>3
  <2> QED BY <1>6, <2>1, <2>2, <2>3, <2>4
<1>12. ASSUME NEW i, NEW j, IsSegment(r, i, j) PROVE IsSegment(q, i, j)
  <2>1. /\ i \in 1 .. n /\ j \in 1 .. n /\ i <= j
        /\ \A e \in i .. j : ~IsSep(r[e])
        /\ i = 1 \/ IsSep(r[i - 1])
        /\ j = n \/ IsSep(r[j + 1])
    BY <1>1, <1>12 DEF IsSegment
  <2>2. \A e \in i .. j : ~IsSep(q[e])
    <3> TAKE e \in i .. j
    <3>1. e \in 1 .. n BY <1>2, <2>1
    <3> QED BY <1>8, <2>1, <3>1
  <2>3. i = 1 \/ IsSep(q[i - 1])
    <3> SUFFICES ASSUME i # 1 PROVE IsSep(q[i - 1]) OBVIOUS
    <3>1. i - 1 \in 1 .. n BY <1>2, <2>1
    <3> QED BY <1>8, <2>1, <3>1
  <2>4. IsSep(q[j + 1])
    <3>1. CASE j = n BY <1>5, <1>9, <3>1
    <3>2. CASE j # n
      <4>1. j + 1 \in 1 .. n BY <1>2, <2>1, <3>2
      <4> QED BY <1>8, <2>1, <3>2, <4>1
    <3> QED BY <3>1, <3>2
  <2>5. i \in 1 .. L /\ j \in 1 .. L BY <1>8, <2>1
  <2> QED BY <1>7, <2>1, <2>2, <2>3, <2>4, <2>5 DEF IsSegment
<1>13. ASSUME m # 0 PROVE IsSegment(q, k + 1, L)
  <2>1. PICK i, before : i = k + 1 /\ before = i - 1 OBVIOUS
  <2>2. i \in 1 .. L /\ L \in 1 .. L /\ i <= L /\ before = k BY <1>2, <1>5, <1>6, <1>13, <2>1
  <2>3. IsSep(q[i - 1]) BY <1>9, <2>1, <2>2
  <2>4. \A e \in i .. L : ~IsSep(q[e]) BY <1>10, <2>1
  <2>5. IsSegment(q, i, L) BY <1>7, <2>2, <2>3, <2>4 DEF IsSegment
  <2> QED BY <2>1, <2>5
<1>14. x = <<k + 1, L>>
  <2>1. Len(r) + 2 = k + 1 BY <1>1, <1>2, <1>5
  <2> QED BY <1>7, <2>1
<1>15. w = <<>> <=> m = 0 BY <1>1, EmptySeq
<1>16. SegmentsAt(q) = IF w = <<>> THEN SegmentsAt(r) ELSE SegmentsAt(r) \cup {x}
  <2>1. \A s \in SegmentsAt(q) : s \in SegmentsAt(r) \/ (m # 0 /\ s = x)
    <3> TAKE s \in SegmentsAt(q)
    <3>1. s = <<s[1], s[2]>> BY SegmentsAtIs
    <3>2. IsSegment(q, s[1], s[2]) BY <3>1, SegmentsAtIs
    <3>3. IsSegment(r, s[1], s[2]) \/ (m # 0 /\ s[1] = k + 1 /\ s[2] = L) BY <1>11, <3>2
    <3> QED BY <1>14, <3>1, <3>3, SegmentsAtIs
  <2>2. \A s \in SegmentsAt(r) : s \in SegmentsAt(q)
    <3> TAKE s \in SegmentsAt(r)
    <3>1. PICK i, j : i = s[1] /\ j = s[2] OBVIOUS
    <3>2. s = <<i, j>> BY <3>1, SegmentsAtIs
    <3>3. IsSegment(r, i, j) BY <3>2, SegmentsAtIs
    <3>4. IsSegment(q, i, j) BY <1>12, <3>3
    <3> QED BY <3>2, <3>4, SegmentsAtIs
  <2>3. m # 0 => x \in SegmentsAt(q) BY <1>13, <1>14, SegmentsAtIs
  <2> QED BY <1>15, <2>1, <2>2, <2>3
<1>17. \A s \in SegmentsAt(r) : Text(q, s) = Text(r, s)
  <2> TAKE s \in SegmentsAt(r)
  <2>1. s[1] \in 1 .. Len(r) /\ s[2] \in 1 .. Len(r) BY SegmentsAtIs
  <2>2. PICK rest : rest = one \o w OBVIOUS
  <2>3. one \in Seq(Character) /\ w \in Seq(Character) BY <1>3
  <2>4. rest \in Seq(Character) BY <2>2, <2>3, ConcatProperties
  <2>5. (r \o one) \o w = r \o (one \o w) BY <2>3, ConcatAssociative, SMTT(30)
  <2>6. q = r \o rest BY <1>1, <2>2, <2>5
  <2>7. SubSeq(r \o rest, s[1], s[2]) = SubSeq(r, s[1], s[2]) BY <2>1, <2>4, SubSeqOfConcat1
  <2> QED BY <2>6, <2>7 DEF Text
<1>18. ASSUME w # <<>> PROVE Beyond(SegmentsAt(r), x) /\ Text(q, x) = w
  <2>1. x[1] = k + 1 /\ x[2] = L BY <1>14
  <2>2. \A s \in SegmentsAt(r) : s[1] < x[1]
    <3> TAKE s \in SegmentsAt(r)
    <3>1. s[1] \in 1 .. n BY <1>1, SegmentsAtIs
    <3> QED BY <1>2, <1>6, <2>1, <3>1
  <2>3. Beyond(SegmentsAt(r), x) BY <1>6, <2>1, <2>2 DEF Beyond
  <2>4. w \in Seq(Character) BY <1>3
  <2>5. PICK i, j : i = k + 1 /\ j = L OBVIOUS
  <2>6. /\ i \in Len(pre) + 1 .. Len(pre) + Len(w) /\ j \in Len(pre) + 1 .. Len(pre) + Len(w)
        /\ i - Len(pre) = 1 /\ j - Len(pre) = m
    BY <1>1, <1>2, <1>4, <1>5, <1>15, <1>18, <2>5
  <2>7. SubSeq(pre \o w, i, j) = SubSeq(w, i - Len(pre), j - Len(pre)) BY <1>4, <2>4, <2>6, SubSeqOfConcat2, Zenon
  <2>8. SubSeq(w, 1, Len(w)) = w BY SubSeqFull
  <2>9. q = pre \o w BY <1>1
  <2>10. SubSeq(q, i, j) = SubSeq(w, 1, m) BY <2>6, <2>7, <2>9
  <2>11. SubSeq(w, 1, m) = w BY <1>1, <2>8
  <2>12. Text(q, x) = SubSeq(q, i, j) BY <2>1, <2>5 DEF Text
  <2> QED BY <2>3, <2>10, <2>11, <2>12
<1> QED BY <1>16, <1>17, <1>18 DEF OneMore

\* What holds of a text without separators, and of each text with a separator
\* and one such text more.
LEMMA Splitting ==
    ASSUME NEW S,
           \A w \in Seq(Word) : w \in S,
           \A r \in Seq(Character) : \A c \in Character : \A w \in Seq(Word) :
              r \in S /\ IsSep(c) => r \o <<c>> \o w \in S
    PROVE  \A q \in Seq(Character) : q \in S
<1>1. PICK T : T = {s \in Seq(Character) : s \in S /\ \A w \in Seq(Word) : s \o w \in S} OBVIOUS
<1>2. Word \subseteq Character BY Zenon DEF Word
<1>3. Seq(Word) \subseteq Seq(Character) BY <1>2, SeqMonotonic
<1>4. <<>> \in T
  <2>1. <<>> \in Seq(Word) /\ <<>> \in Seq(Character) OBVIOUS
  <2>2. \A w \in Seq(Word) : <<>> \o w = w BY ConcatEmptySeq
  <2> QED BY <1>1, <2>1, <2>2
<1>5. ASSUME NEW s \in Seq(Character), NEW c \in Character, s \in T PROVE Append(s, c) \in T
  <2>1. PICK one : one = <<c>> OBVIOUS
  <2>2. one \in Seq(Character) BY <2>1
  <2>3. Append(s, c) = s \o one /\ Append(s, c) \in Seq(Character)
    BY <2>1, AppendIsConcat, AppendProperties
  <2>4. CASE IsSep(c)
    <3>1. \A w \in Seq(Word) : (s \o one) \o w \in S BY <1>1, <1>5, <2>1, <2>4
    <3>2. <<>> \in Seq(Word) OBVIOUS
    <3>3. PICK t : t = s \o one OBVIOUS
    <3>4. t \in Seq(Character) BY <2>3, <3>3
    <3>5. t \o <<>> = t BY <3>4, ConcatEmptySeq
    <3>6. t \o <<>> \in S BY <3>1, <3>2, <3>3
    <3> QED BY <1>1, <2>3, <3>1, <3>3, <3>5, <3>6
  <2>5. CASE ~IsSep(c)
    <3>1. c \in Word BY <2>5, Zenon DEF Word, IsSep
    <3>2. one \in Seq(Word) BY <2>1, <3>1
    <3>3. s \o one \in S BY <1>1, <1>5, <3>2
    <3>4. ASSUME NEW w \in Seq(Word) PROVE (s \o one) \o w \in S
      <4>1. one \o w \in Seq(Word) BY <3>2, ConcatProperties
      <4>2. s \o (one \o w) \in S BY <1>1, <1>5, <4>1
      <4>3. w \in Seq(Character) BY <1>3
      <4>4. (s \o one) \o w = s \o (one \o w) BY <2>2, <4>3, ConcatAssociative, SMTT(30)
      <4> QED BY <4>2, <4>4
    <3> QED BY <1>1, <2>3, <3>3, <3>4
  <2> QED BY <2>4, <2>5
<1>6. \A s \in Seq(Character) : s \in T BY <1>4, <1>5, Growing
<1> QED BY <1>1, <1>6

\* Slashing a text slashes its parts.
LEMMA SlashedConcat ==
    ASSUME NEW a \in Seq(Character), NEW b \in Seq(Character)
    PROVE  Slashed(a \o b) = Slashed(a) \o Slashed(b)
<1>1. PICK ab, sa, sb, n, m : /\ ab = a \o b /\ sa = Slashed(a) /\ sb = Slashed(b)
                              /\ n = Len(a) /\ m = Len(b)
  OBVIOUS
<1>2. n \in Nat /\ m \in Nat BY <1>1, LenProperties
<1>3. /\ ab \in Seq(Character) /\ Len(ab) = n + m
      /\ \A i \in 1 .. n + m : ab[i] = IF i <= n THEN a[i] ELSE b[i - n]
  BY <1>1, ConcatProperties
<1>4. /\ sa \in Seq(PathChar) /\ Len(sa) = n /\ \A i \in 1 .. n : sa[i] = Slash(a[i])
      /\ sb \in Seq(PathChar) /\ Len(sb) = m /\ \A i \in 1 .. m : sb[i] = Slash(b[i])
  BY <1>1, SlashedFacts
<1>5. PICK s, t : s = Slashed(ab) /\ t = sa \o sb OBVIOUS
<1>6. s \in Seq(PathChar) /\ Len(s) = n + m /\ \A i \in 1 .. n + m : s[i] = Slash(ab[i])
  BY <1>3, <1>5, SlashedFacts
<1>7. /\ t \in Seq(PathChar) /\ Len(t) = n + m
      /\ \A i \in 1 .. n + m : t[i] = IF i <= n THEN sa[i] ELSE sb[i - n]
  <2>1. sa \in Seq(PathChar) /\ sb \in Seq(PathChar) BY <1>4
  <2>2. /\ t \in Seq(PathChar) /\ Len(t) = Len(sa) + Len(sb)
        /\ \A i \in 1 .. Len(sa) + Len(sb) : t[i] = IF i <= Len(sa) THEN sa[i] ELSE sb[i - Len(sa)]
    BY <1>5, <2>1, ConcatProperties
  <2> QED BY <1>4, <2>2
<1>8. \A i \in 1 .. n + m : s[i] = t[i]
  <2> TAKE i \in 1 .. n + m
  <2>1. s[i] = Slash(ab[i]) BY <1>6
  <2>2. CASE i <= n
    <3>1. i \in 1 .. n BY <1>2, <2>2
    <3>2. ab[i] = a[i] BY <1>3, <2>2
    <3>3. t[i] = sa[i] BY <1>7, <2>2
    <3>4. sa[i] = Slash(a[i]) BY <1>4, <3>1
    <3> QED BY <2>1, <3>2, <3>3, <3>4
  <2>3. CASE ~(i <= n)
    <3>1. PICK k : k = i - n OBVIOUS
    <3>2. k \in 1 .. m BY <1>2, <2>3, <3>1
    <3>3. ab[i] = b[k] BY <1>3, <2>3, <3>1
    <3>4. t[i] = sb[k] BY <1>7, <2>3, <3>1
    <3>5. sb[k] = Slash(b[k]) BY <1>4, <3>2
    <3> QED BY <2>1, <3>3, <3>4, <3>5
  <2> QED BY <2>2, <2>3
<1>9. s = t BY <1>6, <1>7, <1>8, SeqEqual
<1> QED BY <1>1, <1>5, <1>9

\* The names that normalize leaves of a text below a root.
Norm(q) == Parts(TRUE, Segments(Slashed(q)))

\* A segment more is one turn of the loop more.
LEMMA NormMore ==
    ASSUME NEW w \in Seq(Word)
    PROVE  /\ Norm(w) = Step(TRUE, <<>>, w)
           /\ \A r \in Seq(Character) : \A c \in Character :
                 IsSep(c) => /\ Norm(r) \in Seq(Clean(Word))
                             /\ Norm(r \o <<c>> \o w) = Step(TRUE, Norm(r), w)
<1>1. Word \subseteq PathChar /\ Word \subseteq Character
  <2>1. Word \subseteq PathChar BY DEF PathChar, WithSlash
  <2> QED BY <2>1, Zenon DEF Word
<1>2. w \in Seq(PathChar) /\ w \in Seq(Character) BY <1>1, SeqMonotonic
<1>3. Slashed(w) = w BY <1>2, SlashedFacts
<1>4. Segments(w) = <<w>> BY WordFacts, SegmentsMore
<1>5. Norm(w) = Step(TRUE, <<>>, w)
  <2>1. PICK none : none = <<>> OBVIOUS
  <2>2. none \in Seq(Seq(Word)) /\ Append(none, w) = <<w>> BY <2>1
  <2>3. Parts(TRUE, Append(none, w)) = Step(TRUE, Parts(TRUE, none), w) BY <2>2, PartsClean
  <2>4. Parts(TRUE, none) = <<>> BY <2>1, PartsClean
  <2> QED BY <1>3, <1>4, <2>2, <2>3, <2>4 DEF Norm
<1>6. ASSUME NEW r \in Seq(Character), NEW c \in Character, IsSep(c)
      PROVE  /\ Norm(r) \in Seq(Clean(Word))
             /\ Norm(r \o <<c>> \o w) = Step(TRUE, Norm(r), w)
  <2>1. PICK one, s, pre, segs : /\ one = <<c>> /\ s = Slashed(r) /\ pre = r \o one
                                 /\ segs = Segments(s)
    OBVIOUS
  <2>2. one \in Seq(Character) /\ Len(one) = 1 /\ one[1] = c BY <2>1
  <2>3. pre \in Seq(Character) BY <2>1, <2>2, ConcatProperties
  <2>4. Slashed(one) = <<"/">>
    <3>1. PICK so : so = Slashed(one) OBVIOUS
    <3>2. /\ so \in Seq(PathChar) /\ Len(so) = Len(one)
          /\ \A i \in 1 .. Len(one) : so[i] = Slash(one[i])
      BY <2>2, <3>1, SlashedFacts
    <3>3. Len(so) = 1 /\ so[1] = Slash(c) BY <2>2, <3>2
    <3>4. Slash(c) = "/" BY <1>6, WordFacts
    <3>5. so = <<"/">> BY <3>2, <3>3, <3>4
    <3> QED BY <3>1, <3>5
  <2>5. Slashed(pre) = s \o <<"/">> BY <2>1, <2>2, <2>4, SlashedConcat
  <2>6. Slashed(pre \o w) = Slashed(pre) \o Slashed(w) BY <1>2, <2>3, SlashedConcat
  <2>7. Slashed(r \o <<c>> \o w) = s \o <<"/">> \o w BY <1>3, <2>1, <2>5, <2>6
  <2>8. s \in Seq(WithSlash(Word)) BY <2>1, SlashedFacts DEF PathChar
  <2>9. segs \in Seq(Seq(Word)) /\ Segments(s \o <<"/">> \o w) = Append(segs, w)
    BY <2>1, <2>8, WordFacts, SegmentsMore
  <2>10. /\ Parts(TRUE, segs) \in Seq(Clean(Word))
         /\ Parts(TRUE, Append(segs, w)) = Step(TRUE, Parts(TRUE, segs), w)
    BY <2>9, PartsClean
  <2>11. Norm(r) = Parts(TRUE, segs) BY <2>1 DEF Norm
  <2>12. Norm(r \o <<c>> \o w) = Parts(TRUE, Append(segs, w)) BY <2>7, <2>9 DEF Norm
  <2> QED BY <2>10, <2>11, <2>12
<1> QED BY <1>5, <1>6

\* What normalize leaves of a text are its names that no ".." takes back.
LEMMA ReadsNorm ==
    ASSUME NEW q \in Seq(Character)
    PROVE  Norm(q) \in Seq(Clean(Word)) /\ Reads(q, Norm(q))
<1>1. PICK S : S = {p \in Seq(Character) : Norm(p) \in Seq(Clean(Word)) /\ Reads(p, Norm(p))} OBVIOUS
<1>2. ASSUME NEW w \in Seq(Word) PROVE w \in S
  <2>1. Word \subseteq Character BY Zenon DEF Word
  <2>2. w \in Seq(Character) BY <2>1, SeqMonotonic
  <2>3. PICK none, x : none = <<>> /\ x = <<1, Len(w)>> OBVIOUS
  <2>4. none \in Seq(Clean(Word)) /\ none \in Seq({}) /\ Len(none) = 0 BY <2>3
  <2>5. Step(TRUE, none, w) \in Seq(Clean(Word)) BY <2>4, StepFacts
  <2>6. Places({}, {}, {}) BY FS_EmptySet DEF Places
  <2>7. Listed(none, {}, {}, {}) BY <2>4 DEF Listed, KeptOf
  <2>8. Len(none) = Len(none) /\ \A i \in 1 .. Len(none) : none[i] = Text(w, none[i]) BY <2>4
  <2>9. /\ SegmentsAt(w) = IF w = <<>> THEN {} ELSE {} \cup {x}
        /\ Beyond({}, x) /\ Text(w, x) = w
    BY <2>3, SegmentsAtOne
  <2>10. PICK B : B = {} OBVIOUS
  <2>11. /\ Places(B, B, B) /\ Listed(none, B, B, B)
         /\ SegmentsAt(w) = IF w = <<>> THEN B ELSE B \cup {x}
         /\ w # <<>> => Beyond(B, x) /\ Text(w, x) = w
         /\ \A s \in B : (s \in B <=> Text(w, s) \notin {<<".">>, Up}) /\ (s \in B <=> Text(w, s) = Up)
    BY <2>6, <2>7, <2>9, <2>10
  <2>12. Reads(w, Step(TRUE, none, w)) BY <2>4, <2>8, <2>11, ReadsOn
  <2>13. Norm(w) = Step(TRUE, none, w) BY <2>3, NormMore
  <2> QED BY <1>1, <2>2, <2>5, <2>12, <2>13
<1>3. ASSUME NEW r \in Seq(Character), NEW c \in Character, NEW w \in Seq(Word), r \in S, IsSep(c)
      PROVE  r \o <<c>> \o w \in S
  <2>1. PICK q1, x : q1 = r \o <<c>> \o w /\ x = <<Len(r) + 2, Len(q1)>> OBVIOUS
  <2>2. /\ SegmentsAt(q1) = IF w = <<>> THEN SegmentsAt(r) ELSE SegmentsAt(r) \cup {x}
        /\ \A s \in SegmentsAt(r) : Text(q1, s) = Text(r, s)
        /\ w # <<>> => Beyond(SegmentsAt(r), x) /\ Text(q1, x) = w
    <3>1. OneMore(r, w, q1, x) BY <1>3, <2>1, SegmentsAtMore
    <3> QED BY <3>1 DEF OneMore
  <2>3. PICK parts : parts = Norm(r) OBVIOUS
  <2>4. parts \in Seq(Clean(Word)) /\ Reads(r, parts) BY <1>1, <1>3, <2>3
  <2>5. PICK pos : /\ Listed(pos, SegmentsAt(r), NamesAt(r), UpsAt(r))
                   /\ Places(SegmentsAt(r), NamesAt(r), UpsAt(r))
                   /\ Len(parts) = Len(pos)
                   /\ \A i \in 1 .. Len(pos) : parts[i] = Text(r, pos[i])
    BY <2>4 DEF Reads
  <2>6. PICK B, N, U : B = SegmentsAt(r) /\ N = NamesAt(r) /\ U = UpsAt(r) OBVIOUS
  <2>7. \A i \in 1 .. Len(pos) : parts[i] = Text(q1, pos[i])
    <3> TAKE i \in 1 .. Len(pos)
    <3>1. pos[i] \in N
      <4>1. pos \in Seq(N) BY <2>5, <2>6 DEF Listed
      <4> QED BY <4>1, ElementOfSeq
    <3>2. pos[i] \in SegmentsAt(r) BY <2>6, <3>1 DEF NamesAt
    <3> QED BY <2>2, <2>5, <3>2
  <2>8. \A s \in B : (s \in N <=> Text(q1, s) \notin {<<".">>, Up}) /\ (s \in U <=> Text(q1, s) = Up)
    BY <2>2, <2>6 DEF NamesAt, UpsAt
  <2>9. /\ Places(B, N, U) /\ Listed(pos, B, N, U) /\ Len(parts) = Len(pos)
        /\ SegmentsAt(q1) = IF w = <<>> THEN B ELSE B \cup {x}
        /\ w # <<>> => Beyond(B, x) /\ Text(q1, x) = w
    BY <2>2, <2>5, <2>6
  <2>10. Reads(q1, Step(TRUE, parts, w)) BY <2>4, <2>7, <2>8, <2>9, ReadsOn
  <2>11. Norm(q1) = Step(TRUE, parts, w) BY <1>3, <2>1, <2>3, NormMore
  <2>12. Step(TRUE, parts, w) \in Seq(Clean(Word)) BY <2>4, StepFacts
  <2>13. q1 \in Seq(Character)
    <3>1. PICK one, pre : one = <<c>> /\ pre = r \o one OBVIOUS
    <3>2. one \in Seq(Character) BY <3>1
    <3>3. pre \in Seq(Character) BY <3>1, <3>2, ConcatProperties
    <3>4. Word \subseteq Character BY Zenon DEF Word
    <3>5. w \in Seq(Character) BY <3>4, SeqMonotonic
    <3>6. pre \o w \in Seq(Character) BY <3>3, <3>5, ConcatProperties
    <3> QED BY <2>1, <3>1, <3>6
  <2> QED BY <1>1, <2>1, <2>10, <2>11, <2>12, <2>13
<1>4. q \in S BY <1>2, <1>3, Splitting
<1> QED BY <1>1, <1>4

\* An include leads to the file that its author walks to, name by name, from the
\* including file's folder, the virtual folder or the root, whatever the path.
THEOREM LandsThere == IncludesSpec => []LandsWhereItWalks
<1>1. InCases => LandsWhereItWalks
  <2> SUFFICES ASSUME InCases, Target.error = "None", IsAbsolute(Walked)
               PROVE  Target.path = RootOf(Walked) \o Slashes(Kept(Below(Walked)))
    BY DEF LandsWhereItWalks
  <2>1. PICK p : p = Walked OBVIOUS
  <2>2. p \in Seq(Character) /\ IsAbsolute(p) /\ Target.path = Normalize(p) BY <2>1, TargetFacts
  <2>3. PICK b : b = Below(p) OBVIOUS
  <2>4. Normalize(p) = RootOf(p) \o Slashes(Names(p)) /\ b \in Seq(Character) BY <2>2, <2>3, NormalForm
  <2>5. Names(p) = Norm(b) BY <2>3 DEF Names, Norm
  <2>6. Norm(b) \in Seq(Clean(Word)) /\ Reads(b, Norm(b)) BY <2>4, ReadsNorm
  <2>7. Kept(b) = Norm(b) BY <2>6, KeptIs
  <2> QED BY <2>1, <2>2, <2>3, <2>4, <2>5, <2>7
<1> QED BY <1>1, CasesStay, PTL

-----------------------------------------------------------------------------

\* What the variables hold.  A cached text is that of a file that was there.
Types ==
    /\ clock \in Nat
    /\ disk \in [Files -> [text : Texts \cup {NoText}, mtime : Nat]]
    /\ m_cache \in [Files -> [text : Texts, mtime : Nat, size : Nat] \cup {NotCached}]
    /\ m_buffers \in [Files -> Texts \cup {NoText}]
    /\ reading \in [busy : {TRUE}, file : Files, mtime : Nat, size : Nat] \cup {Idle}
    /\ held \in [Files -> SUBSET Texts]

\* Timestamps never run ahead of the clock, nor a status seen ahead of the
\* file's, so that a status equal to the file's is that of its last write.
Past ==
    /\ \A f \in Files : disk[f].mtime <= clock /\ m_cache[f].mtime <= disk[f].mtime
    /\ reading.busy => reading.mtime <= disk[reading.file].mtime
HeldTexts ==
    /\ \A f \in Files : disk[f].text # NoText => disk[f].text \in held[f]
    /\ \A f \in Files : m_cache[f] # NotCached /\ m_cache[f].mtime = disk[f].mtime
                            => m_cache[f].text \in held[f]
\* The buffers do not change while a read of the disk is under way.
NoBuffer == reading.busy => m_buffers[reading.file] = NoText

IInv == Types /\ Past /\ HeldTexts /\ NoBuffer

\* The invariant holds at first.
LEMMA InitIInv == Init => IInv
<1>1. SUFFICES ASSUME NEW texts \in [Files -> Texts \cup {NoText}], InitWith(texts)
               PROVE  IInv
      BY DEF Init
<1>2. Types
      BY <1>1, TextsAssumption DEF InitWith, Types, Idle
<1>. QED BY <1>1, <1>2 DEF InitWith, IInv, Past, HeldTexts, NoBuffer, Idle, NotCached, Entry

\* The size that the status shows is a number, whether the file is there or not.
LEMMA SizeType == ASSUME Types, NEW f \in Files PROVE SizeOf(f) \in Nat
BY TextsAssumption DEF Types, SizeOf

\* A read that is under way is one of a file, from the status it had.
LEMMA ReadingType ==
    ASSUME Types, reading.busy
    PROVE  reading.file \in Files /\ reading.mtime \in Nat /\ reading.size \in Nat
<1>1. reading # Idle
      BY DEF Idle
<1>2. reading \in [busy : {TRUE}, file : Files, mtime : Nat, size : Nat]
      BY <1>1 DEF Types
<1>. QED BY <1>2

\* Every step keeps the invariant.
LEMMA NextIInv == IInv /\ [Next]_vars => IInv'
<1>. SUFFICES ASSUME IInv, [Next]_vars PROVE IInv'
     OBVIOUS
<1>. USE DEF IInv
<1>1. CASE Tick
      <2>1. clock' \in Nat /\ clock' = clock + 1
            BY <1>1 DEF Tick, Types
      <2>2. Types' /\ HeldTexts' /\ NoBuffer'
            BY <1>1, <2>1 DEF Tick, Types, HeldTexts, NoBuffer
      <2>3. \A f \in Files : disk[f].mtime \in Nat
            BY DEF Types
      <2>4. Past'
            BY <1>1, <2>1, <2>3 DEF Tick, Types, Past
      <2>. QED BY <2>2, <2>4
<1>2. ASSUME NEW f \in Written, Delete(f) PROVE IInv'
      <2>1. f \in Files
            BY PathsAssumption
      <2>2. /\ disk' \in [Files -> [text : Texts \cup {NoText}, mtime : Nat]]
            /\ \A g \in Files : disk'[g].mtime = disk[g].mtime
            /\ \A g \in Files : disk'[g].text \in {disk[g].text, NoText}
            BY <1>2, <2>1 DEF Delete, Types
      <2>3. Types'
            BY <1>2, <2>2 DEF Delete, Types
      <2>4. Past' /\ HeldTexts' /\ NoBuffer'
            BY <1>2, <2>2 DEF Delete, Types, Past, HeldTexts, NoBuffer, Idle
      <2>. QED BY <2>3, <2>4
<1>3. ASSUME NEW f \in Written, NEW t \in Texts, Write(f, t) PROVE IInv'
      <2>1. f \in Files
            BY PathsAssumption
      <2>2. /\ disk' \in [Files -> [text : Texts \cup {NoText}, mtime : Nat]]
            /\ disk'[f].mtime = clock /\ disk'[f].text = t
            /\ \A g \in Files \ {f} : disk'[g] = disk[g]
            BY <1>3, <2>1 DEF Write, Types
      <2>3. /\ held' \in [Files -> SUBSET Texts]
            /\ t \in held'[f]
            /\ disk[f].mtime = clock => held[f] \subseteq held'[f]
            /\ \A g \in Files \ {f} : held'[g] = held[g]
            BY <1>3, <2>1 DEF Write, Types
      <2>4. Types'
            BY <1>3, <2>2, <2>3 DEF Write, Types
      <2>5. \A g \in Files : /\ disk[g].mtime \in Nat /\ m_cache[g].mtime \in Nat
                             /\ disk[g].mtime <= disk'[g].mtime /\ disk'[g].mtime <= clock
            BY <2>2 DEF Types, Past, NotCached, Entry
      <2>6. Past'
            <3>1. \A g \in Files : m_cache[g].mtime <= disk'[g].mtime
                  BY <2>2, <2>5 DEF Past
            <3>2. reading.busy => reading.mtime <= disk'[reading.file].mtime
                  BY <2>2, <2>5, ReadingType DEF Past
            <3>. QED BY <1>3, <2>5, <3>1, <3>2 DEF Write, Past
      <2>8. ASSUME NEW g \in Files, m_cache[g] # NotCached, m_cache[g].mtime = disk'[g].mtime
            PROVE  m_cache[g].text \in held'[g]
            <3>1. CASE g # f
                  BY <2>2, <2>3, <2>8, <3>1 DEF HeldTexts
            <3>2. CASE g = f
                  <4>1. disk[f].mtime = clock /\ m_cache[f].mtime = disk[f].mtime
                        <5>1. m_cache[f].mtime = clock /\ m_cache[f].mtime <= disk[f].mtime
                              BY <2>1, <2>2, <2>8, <3>2 DEF Past
                        <5>2. disk[f].mtime <= clock
                              BY <2>1 DEF Past
                        <5>3. disk[f].mtime \in Nat /\ m_cache[f].mtime \in Nat
                              BY <2>1, <2>5
                        <5>. QED BY <5>1, <5>2, <5>3
                  <4>. QED BY <2>1, <2>3, <2>8, <3>2, <4>1 DEF HeldTexts
            <3>. QED BY <3>1, <3>2
      <2>9. HeldTexts'
            BY <1>3, <2>2, <2>3, <2>8 DEF Write, HeldTexts
      <2>7. NoBuffer'
            BY <1>3 DEF Write, NoBuffer
      <2>. QED BY <2>4, <2>6, <2>7, <2>9
<1>4. ASSUME NEW path \in Paths, NEW t \in Texts \cup {NoText}, SetBuffer(path, t) PROVE IInv'
      BY <1>4, PathsAssumption DEF SetBuffer, Key, Types, Past, HeldTexts, NoBuffer
<1>5. ASSUME NEW path \in Paths, ReadBuffer(path) \/ ReadStatus(path) PROVE IInv'
      BY <1>5 DEF ReadBuffer, ReadStatus, Types, Past, HeldTexts, NoBuffer
<1>6. ASSUME NEW path \in Paths, Stat(path) PROVE IInv'
      <2>1. Key(path) \in Files
            BY PathsAssumption DEF Key
      <2>2. SizeOf(Key(path)) \in Nat
            BY <2>1, SizeType
      <2>3. Types'
            BY <1>6, <2>1, <2>2 DEF Stat, Types
      <2>4. Past' /\ HeldTexts' /\ NoBuffer'
            BY <1>6, <2>1 DEF Stat, Types, Past, HeldTexts, NoBuffer
      <2>. QED BY <2>3, <2>4
<1>7. CASE Load
      <2>1. reading.file \in Files /\ reading.mtime \in Nat /\ reading.size \in Nat
            BY <1>7, ReadingType DEF Load
      <2>2. CASE disk[reading.file].text = NoText
            BY <1>7, <2>2 DEF Load, Types, Past, HeldTexts, NoBuffer, Idle
      <2>3. CASE disk[reading.file].text # NoText
            <3>1. /\ m_cache' \in [Files -> [text : Texts, mtime : Nat, size : Nat] \cup {NotCached}]
                  /\ m_cache'[reading.file].text = disk[reading.file].text
                  /\ m_cache'[reading.file].mtime = reading.mtime
                  /\ \A g \in Files \ {reading.file} : m_cache'[g] = m_cache[g]
                  BY <1>7, <2>1, <2>3 DEF Load, Types, Entry
            <3>2. Types'
                  BY <1>7, <3>1 DEF Load, Types
            <3>3. Past' /\ HeldTexts' /\ NoBuffer'
                  BY <1>7, <2>1, <2>3, <3>1 DEF Load, Types, Past, HeldTexts, NoBuffer, Idle
            <3>. QED BY <3>2, <3>3
      <2>. QED BY <2>2, <2>3
<1>8. CASE UNCHANGED vars
      BY <1>8 DEF vars, Types, Past, HeldTexts, NoBuffer
<1>. QED BY <1>1, <1>2, <1>3, <1>4, <1>5, <1>6, <1>7, <1>8 DEF Next

-----------------------------------------------------------------------------

\* The disk provider starts as FileTexts does.
LEMMA InitRefines == Init => FileTextsOfDisk!Init
BY TextsAssumption DEF Init, InitWith, FileTextsOfDisk!Init

\* Its steps are FileTexts's, or stutter.
LEMMA NextRefines == IInv /\ [Next]_vars => [FileTextsOfDisk!Next]_(FileTextsOfDisk!vars)
<1>. SUFFICES ASSUME IInv, [Next]_vars PROVE [FileTextsOfDisk!Next]_(FileTextsOfDisk!vars)
     OBVIOUS
<1>1. CASE Tick
      BY <1>1 DEF Tick, FileTextsOfDisk!vars
<1>8. CASE UNCHANGED vars
      BY <1>8 DEF vars, FileTextsOfDisk!vars
<1>2. ASSUME NEW f \in Written, Delete(f) PROVE FileTextsOfDisk!Next
      <2>1. f \in Files
            BY PathsAssumption
      <2>2. FileTextsOfDisk!Delete(f)
            BY <1>2, <2>1 DEF Delete, FileTextsOfDisk!Delete, IInv, Types
      <2>. QED BY <2>1, <2>2 DEF FileTextsOfDisk!Next
<1>3. ASSUME NEW f \in Written, NEW t \in Texts, Write(f, t) PROVE FileTextsOfDisk!Next
      <2>1. f \in Files
            BY PathsAssumption
      <2>2. [g \in Files |-> disk'[g].text] = [[g \in Files |-> disk[g].text] EXCEPT ![f] = t]
            BY <1>3, <2>1 DEF Write, IInv, Types
      <2>3. \E before \in {{}, held[f]} : held' = [held EXCEPT ![f] = before \cup {t}]
            BY <1>3, <2>1 DEF Write, IInv, Types
      <2>4. FileTextsOfDisk!Write(f, t)
            BY <1>3, <2>2, <2>3 DEF Write, FileTextsOfDisk!Write
      <2>. QED BY <2>1, <2>4 DEF FileTextsOfDisk!Next
<1>4. ASSUME NEW path \in Paths, NEW t \in Texts \cup {NoText}, SetBuffer(path, t)
      PROVE  FileTextsOfDisk!Next
      <2>1. FileTextsOfDisk!SetBuffer(Key(path), t)
            BY <1>4 DEF SetBuffer, FileTextsOfDisk!SetBuffer
      <2>. QED BY <2>1, PathsAssumption DEF FileTextsOfDisk!Next, Key
<1>5. ASSUME NEW path \in Paths, ReadBuffer(path) \/ ReadStatus(path)
      PROVE  FileTextsOfDisk!Next
      <2>1. Key(path) \in Files
            BY PathsAssumption DEF Key
      <2>2. answer' = [file |-> Key(path), text |-> answer'.text]
            BY <1>5 DEF ReadBuffer, ReadStatus
      <2>3. answer'.text \in FileTextsOfDisk!Readable(Key(path))
            BY <1>5, <2>1 DEF ReadBuffer, ReadStatus, Hit, FileTextsOfDisk!Readable,
                              IInv, HeldTexts
      <2>4. FileTextsOfDisk!Read(Key(path))
            BY <1>5, <2>2, <2>3 DEF ReadBuffer, ReadStatus, FileTextsOfDisk!Read
      <2>. QED BY <2>1, <2>4 DEF FileTextsOfDisk!Next
<1>6. ASSUME NEW path \in Paths, Stat(path) PROVE UNCHANGED FileTextsOfDisk!vars
      BY <1>6 DEF Stat, FileTextsOfDisk!vars
<1>7. CASE Load
      <2>1. reading.file \in Files
            BY <1>7, ReadingType DEF Load, IInv
      <2>2. answer'.text \in FileTextsOfDisk!Readable(reading.file)
            BY <1>7, <2>1 DEF Load, FileTextsOfDisk!Readable, IInv, HeldTexts, NoBuffer
      <2>3. FileTextsOfDisk!Read(reading.file)
            BY <1>7, <2>2 DEF Load, FileTextsOfDisk!Read
      <2>. QED BY <2>1, <2>3 DEF FileTextsOfDisk!Next
<1>. QED BY <1>1, <1>2, <1>3, <1>4, <1>5, <1>6, <1>7, <1>8 DEF Next

-----------------------------------------------------------------------------

\* Reading through the disk's cache and the open buffers (SourceProvider.cpp)
\* implements the abstract reads of FileTexts: whatever other programs write
\* between the status and the open of a read, what is read is a buffer, nothing,
\* or a text the file has had under its current timestamp.
THEOREM ReadsAreHeld == Spec => ReadsHeldTexts
<1>1. Init => IInv
      BY InitIInv
<1>2. IInv /\ [Next]_vars => IInv'
      BY NextIInv
<1>3. Init => FileTextsOfDisk!Init
      BY InitRefines
<1>4. IInv /\ [Next]_vars => [FileTextsOfDisk!Next]_(FileTextsOfDisk!vars)
      BY NextRefines
<1>. QED BY <1>1, <1>2, <1>3, <1>4, PTL DEF Spec, ReadsHeldTexts, FileTextsOfDisk!Spec

=============================================================================
