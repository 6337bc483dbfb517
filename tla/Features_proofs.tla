---------------------------- MODULE Features_proofs ----------------------------
(***************************************************************************)
(* For every set of streams, entry points and layouts.  First the analyser *)
(* (Semantics): its two passes give each name the meaning that the stream  *)
(* as a whole gives it.  Then what the client is shown (Features): from    *)
(* any name of an analysed unit it is led to what the name means, and from *)
(* there to all the names that mean it; a file's outline shows each of its *)
(* symbols once, and its folds are the scopes of its labels.               *)
(***************************************************************************)
EXTENDS Features, NaturalsLemmas, SequenceTheorems, FiniteSetTheorems

Kinds == {"GlobalLabel", "LocalLabel", "ReusableLabel", "Constant", "LocalConstant"}
Definition == [name : QName, kind : Kinds, value : {"none", "int", "float"}, seq : Nat]
Mention == [name : QName, seq : Nat, target : Nat]
Scopes == {<<>>} \cup {<<w>> : w \in Word}

\* Shape of the state, and where the walk stands: its scope is the one that the
\* statements above make.
Place ==
    /\ order \in Units /\ order \in Seq(Stmt)
    /\ pass \in {1, 2, 3} /\ m_seq \in 1 .. Len(order) + 1
    /\ pass = 3 => m_seq = Len(order) + 1
    /\ m_currentGlobal = Scope(m_seq)
    /\ m_defs \in Seq(Definition)
    /\ m_refs \in Seq(Mention)
    /\ entryPoints \in Seq([at : Nat, hasExit : BOOLEAN])
    /\ currentEntry \in 0 .. Len(entryPoints)

-----------------------------------------------------------------------------
(* The stream.                                                             *)

\* What is read off the stream stays what it is.
LEMMA StreamSame ==
    ASSUME order' = order
    PROVE  \A i, q, w : /\ Scope(i)' = Scope(i) /\ LabelName(i)' = LabelName(i)
                        /\ ConstName(i)' = ConstName(i) /\ Meaning(w, i)' = Meaning(w, i)
                        /\ Labels(q)' = Labels(q) /\ DefsOf(q)' = DefsOf(q)
                        /\ UndefsOf(q)' = UndefsOf(q) /\ InForce(q, i)' = InForce(q, i)
                        /\ Referent(q, i)' = Referent(q, i) /\ Nearest(i)' = Nearest(i)
BY DEF Scope, LabelName, ConstName, Meaning, Labels, DefsOf, UndefsOf, InForce, Referent, Nearest

\* A largest number, or 0 if there is none.
LEMMA MaxOrZero ==
    ASSUME NEW S \in SUBSET Nat, NEW b \in Nat, \A n \in S : n <= b /\ n # 0
    PROVE  /\ Max({0} \cup S) \in {0} \cup S /\ (Max({0} \cup S) = 0 <=> S = {})
           /\ \A n \in S : n <= Max({0} \cup S)
           /\ \A n \in S : (\A m \in S : m <= n) => Max({0} \cup S) = n
<1>1. {0} \cup S \in SUBSET Nat /\ \A m \in {0} \cup S : m <= b OBVIOUS
<1>2. /\ Max({0} \cup S) \in {0} \cup S /\ \A m \in {0} \cup S : m <= Max({0} \cup S)
      /\ \A n \in {0} \cup S : (\A m \in {0} \cup S : m <= n) => Max({0} \cup S) = n
    BY <1>1, MaxFacts
<1>3. ASSUME NEW n \in S PROVE ~(n <= 0)
    BY <1>3
<1> QED BY <1>2, <1>3

\* Names of two words.
LEMMA Pair ==
    ASSUME NEW v \in Word, NEW w \in Word
    PROVE  <<v>> \o <<w>> = <<v, w>> /\ Len(<<v, w>>) = 2 /\ SubSeq(<<v, w>>, 1, 1) = <<v>>
<1>1. <<v>> \in Seq(Word) /\ <<w>> \in Seq(Word) /\ <<v, w>> \in Seq(Word)
      /\ Len(<<v>>) = 1 /\ Len(<<w>>) = 1 /\ Len(<<v, w>>) = 2
  OBVIOUS
<1>2. <<v>> \o <<w>> = <<v, w>>
  <2>1. /\ <<v>> \o <<w>> \in Seq(Word) /\ Len(<<v>> \o <<w>>) = 2
        /\ \A i \in 1 .. 2 : (<<v>> \o <<w>>)[i] = IF i <= 1 THEN <<v>>[i] ELSE <<w>>[i - 1]
    BY <1>1, ConcatProperties
  <2>2. \A i \in 1 .. 2 : (<<v>> \o <<w>>)[i] = <<v, w>>[i] BY <2>1
  <2> QED BY <1>1, <2>1, <2>2, SeqEqual
<1>3. SubSeq(<<v, w>>, 1, 1) = <<v>>
  <2>1. PICK p : p = <<v, w>> OBVIOUS
  <2>2. p \in Seq(Word) /\ Len(p) = 2 /\ p[1] = v BY <1>1, <2>1
  <2>3. /\ SubSeq(p, 1, 1) \in Seq(Word) /\ Len(SubSeq(p, 1, 1)) = 1
        /\ SubSeq(p, 1, 1)[1] = p[1]
    BY <2>2, SubSeqProperties
  <2>4. \A i \in 1 .. 1 : SubSeq(p, 1, 1)[i] = <<v>>[i] BY <2>2, <2>3
  <2> QED BY <1>1, <2>1, <2>3, <2>4, SeqEqual
<1> QED BY <1>1, <1>2, <1>3

\* A name in a scope is a qualified name.
LEMMA InScope ==
    ASSUME NEW a \in Scopes, NEW w \in Word
    PROVE  a \o <<w>> \in QName
<1>1. CASE a = <<>>
  <2>1. <<>> \o <<w>> = <<w>> OBVIOUS
  <2> QED BY <1>1, <2>1 DEF QName
<1>2. CASE \E v \in Word : a = <<v>>
  <2>1. PICK v \in Word : a = <<v>> BY <1>2
  <2>2. <<v>> \o <<w>> = <<v, w>> BY Pair
  <2> QED BY <2>1, <2>2 DEF QName
<1> QED BY <1>1, <1>2 DEF Scopes

\* A global label opens the scope of what comes after it.
GlobalAt(i) == order[i].op = "label" /\ order[i].kind = "Global"
\* The scope changes behind a global label only.
LEMMA ScopeStep ==
    ASSUME Place
    PROVE  /\ Scope(1) = <<>>
           /\ \A i \in DOMAIN order :
                 Scope(i + 1) = IF GlobalAt(i) THEN order[i].name ELSE Scope(i)
           /\ \A i \in 1 .. Len(order) + 1 : Scope(i) \in Scopes
<1> DEFINE above(i) == {j \in 1 .. i - 1 : order[j].op = "label" /\ order[j].kind = "Global"}
<1>0. Len(order) \in Nat /\ DOMAIN order = 1 .. Len(order) /\ \A i \in DOMAIN order : order[i] \in Stmt
    BY LenProperties, ElementOfSeq DEF Place
<1>1. \A i : Scope(i) = IF above(i) = {} THEN <<>> ELSE order[Max(above(i))].name
    BY DEF Scope
<1>2. Scope(1) = <<>>
  <2>1. 1 .. 1 - 1 = {} OBVIOUS
  <2> QED BY <1>1, <2>1
<1>3. ASSUME NEW i \in DOMAIN order
      PROVE  Scope(i + 1) = IF GlobalAt(i) THEN order[i].name ELSE Scope(i)
  <2>1. above(i + 1) = above(i) \cup (IF GlobalAt(i) THEN {i} ELSE {})
    <3>1. 1 .. i = (1 .. i - 1) \cup {i} /\ (i + 1) - 1 = i BY <1>0
    <3> QED BY <3>1 DEF GlobalAt
  <2>2. CASE GlobalAt(i)
    <3>1. above(i + 1) \in SUBSET Nat /\ i \in above(i + 1) /\ i \in Nat
          /\ \A m \in above(i + 1) : m <= i
        BY <1>0, <2>1, <2>2
    <3> HIDE DEF above
    <3>2. Max(above(i + 1)) = i BY <3>1, MaxFacts
    <3> QED BY <1>1, <2>2, <3>1, <3>2
  <2>3. CASE ~GlobalAt(i)
    <3> HIDE DEF above
    <3> QED BY <1>1, <2>1, <2>3
  <2> QED BY <2>2, <2>3
<1>4. ASSUME NEW i \in 1 .. Len(order) + 1 PROVE Scope(i) \in Scopes
  <2>1. CASE above(i) = {} BY <1>1, <2>1 DEF Scopes
  <2>2. CASE above(i) # {}
    <3>1. above(i) \in SUBSET Nat /\ \A m \in above(i) : m <= i /\ i \in Nat BY <1>0
    <3>2. above(i) \subseteq {j \in DOMAIN order : order[j].op = "label"} BY <1>0
    <3> HIDE DEF above
    <3>3. Max(above(i)) \in above(i) BY <2>2, <3>1, MaxFacts
    <3>4. order[Max(above(i))].op = "label" /\ order[Max(above(i))] \in Stmt BY <1>0, <3>2, <3>3
    <3>5. order[Max(above(i))].name \in {<<w>> : w \in Word}
      <4>1. PICK s : s = order[Max(above(i))] OBVIOUS
      <4>2. s \in Stmt /\ s.op = "label" BY <3>4, <4>1
      <4>3. s.name \in {<<w>> : w \in Word} BY <4>2 DEF Stmt
      <4> QED BY <4>1, <4>3
    <3> QED BY <1>1, <2>2, <3>5 DEF Scopes
  <2> QED BY <2>1, <2>2
<1> QED BY <1>2, <1>3, <1>4

\* The constants in force change at a def and at an undef only.
LEMMA InForceStep ==
    ASSUME Place
    PROVE  /\ \A q : InForce(q, 1) = 0
           /\ \A q : \A i \in DOMAIN order :
                 InForce(q, i + 1) = IF i \in DefsOf(q) THEN i
                                     ELSE IF i \in UndefsOf(q) THEN 0 ELSE InForce(q, i)
           /\ \A q : \A i \in 1 .. Len(order) + 1 :
                 /\ InForce(q, i) \in 0 .. i - 1
                 /\ InForce(q, i) # 0 => /\ InForce(q, i) \in DefsOf(q)
                                         /\ \A j \in DefsOf(q) \cap 1 .. i - 1 : j <= InForce(q, i)
<1> DEFINE events(q, i) == (DefsOf(q) \cup UndefsOf(q)) \cap 1 .. i - 1
           last(q, i) == Max({0} \cup events(q, i))
<1>0. Len(order) \in Nat /\ DOMAIN order = 1 .. Len(order)
    BY LenProperties DEF Place
<1>1. \A q, i : InForce(q, i) = IF last(q, i) \in DefsOf(q) THEN last(q, i) ELSE 0
    BY DEF InForce
<1>2. \A q : 0 \notin DefsOf(q) /\ DefsOf(q) \subseteq DOMAIN order
             /\ UndefsOf(q) \subseteq DOMAIN order
    BY <1>0 DEF DefsOf, UndefsOf
<1>3. ASSUME NEW q, NEW i \in 1 .. Len(order) + 1
      PROVE  /\ events(q, i) \in SUBSET Nat /\ i - 1 \in Nat
             /\ \A n \in events(q, i) : n <= i - 1 /\ n # 0
    BY <1>0
<1>4. ASSUME NEW q, NEW i \in 1 .. Len(order) + 1
      PROVE  /\ last(q, i) \in {0} \cup events(q, i)
             /\ last(q, i) = 0 <=> events(q, i) = {}
             /\ \A n \in events(q, i) : n <= last(q, i)
             /\ \A n \in events(q, i) : (\A m \in events(q, i) : m <= n) => last(q, i) = n
  <2>1. PICK S, b : S = events(q, i) /\ b = i - 1 OBVIOUS
  <2>2. S \in SUBSET Nat /\ b \in Nat /\ \A n \in S : n <= b /\ n # 0
    <3> HIDE DEF events
    <3> QED BY <1>3, <2>1
  <2>3. /\ Max({0} \cup S) \in {0} \cup S /\ (Max({0} \cup S) = 0 <=> S = {})
        /\ \A n \in S : n <= Max({0} \cup S)
        /\ \A n \in S : (\A m \in S : m <= n) => Max({0} \cup S) = n
    BY <2>2, MaxOrZero
  <2> HIDE DEF events
  <2> QED BY <2>1, <2>3
<1>5. ASSUME NEW q PROVE InForce(q, 1) = 0
  <2>1. 1 \in 1 .. Len(order) + 1 /\ 1 .. 1 - 1 = {} BY <1>0
  <2>2. events(q, 1) = {} BY <2>1
  <2> QED BY <1>1, <1>2, <1>4, <2>1, <2>2
<1>6. ASSUME NEW q, NEW i \in DOMAIN order
      PROVE  InForce(q, i + 1) = IF i \in DefsOf(q) THEN i
                                 ELSE IF i \in UndefsOf(q) THEN 0 ELSE InForce(q, i)
  <2>0. /\ 1 .. (i + 1) - 1 = (1 .. i - 1) \cup {i} /\ i \in Nat \ {0}
        /\ i \in 1 .. Len(order) + 1 /\ i + 1 \in 1 .. Len(order) + 1
    BY <1>0
  <2>1. /\ i \in DefsOf(q) \cup UndefsOf(q) => events(q, i + 1) = events(q, i) \cup {i}
        /\ i \notin DefsOf(q) \cup UndefsOf(q) => events(q, i + 1) = events(q, i)
    BY <2>0
  <2>2. CASE i \in DefsOf(q) \cup UndefsOf(q)
    <3>1. i \in events(q, i + 1) /\ \A m \in events(q, i + 1) : m <= i
      <4>1. \A m \in events(q, i) : m <= i BY <1>3, <2>0
      <4> HIDE DEF events
      <4> QED BY <2>0, <2>1, <2>2, <4>1
    <3>2. last(q, i + 1) = i
      <4> HIDE DEF events, last
      <4> QED BY <1>4, <2>0, <3>1
    <3> HIDE DEF last
    <3> QED BY <1>1, <2>2, <3>2
  <2>3. CASE i \notin DefsOf(q) \cup UndefsOf(q)
    <3> HIDE DEF events
    <3> QED BY <1>1, <2>1, <2>3
  <2> QED BY <2>2, <2>3
<1>7. ASSUME NEW q, NEW i \in 1 .. Len(order) + 1
      PROVE  /\ InForce(q, i) \in 0 .. i - 1
             /\ InForce(q, i) # 0 => /\ InForce(q, i) \in DefsOf(q)
                                     /\ \A j \in DefsOf(q) \cap 1 .. i - 1 : j <= InForce(q, i)
  <2>1. last(q, i) \in 0 .. i - 1
    <3> HIDE DEF events, last
    <3>1. last(q, i) \in Nat /\ last(q, i) <= i - 1 BY <1>3, <1>4
    <3> QED BY <1>0, <3>1
  <2>2. \A j \in DefsOf(q) \cap 1 .. i - 1 : j \in events(q, i) OBVIOUS
  <2> HIDE DEF events, last
  <2> QED BY <1>1, <1>2, <1>3, <1>4, <2>1, <2>2
<1> HIDE DEF events, last
<1> QED BY <1>5, <1>6, <1>7

-----------------------------------------------------------------------------
(* The symbol table.                                                       *)

\* The statements whose labels have been collected, whose constants defined.
Collected == IF pass = 1 THEN 1 .. m_seq - 1 ELSE DOMAIN order
Reached == IF pass = 1 THEN {} ELSE 1 .. m_seq - 1

ConstKind(i) == IF order[i].isLocal THEN "LocalConstant" ELSE "Constant"
\* Two defs in the order of m_defs.
Precedes(i, j) ==
    \/ order[i].op = "label" /\ order[j].op = "def"
    \/ order[i].op = order[j].op /\ i < j

\* m_defs holds the labels, then the constants, each where it stands.
DefsOK ==
    /\ \A d \in DOMAIN m_defs :
          LET i == m_defs[d].seq
          IN \/ /\ i \in Collected /\ order[i].op = "label"
                /\ m_defs[d].name = LabelName(i) /\ m_defs[d].kind = LabelKind(order[i].kind)
             \/ /\ i \in Reached /\ order[i].op = "def"
                /\ m_defs[d].name = ConstName(i) /\ m_defs[d].kind = ConstKind(i)
    /\ \A i \in Collected : order[i].op = "label" => \E d \in DOMAIN m_defs : m_defs[d].seq = i
    /\ \A i \in Reached : order[i].op = "def" => \E d \in DOMAIN m_defs : m_defs[d].seq = i
    /\ \A d, e \in DOMAIN m_defs : d < e => Precedes(m_defs[d].seq, m_defs[e].seq)

\* What the last definition of a name is, in pass 2.
LEMMA IndexFacts ==
    ASSUME Place, DefsOK, NEW q
    PROVE  /\ IndexOf(q) \in {0} \cup DOMAIN m_defs
           /\ IndexOf(q) = 0 <=> Named(q) = {}
           /\ IndexOf(q) # 0 => m_defs[IndexOf(q)].name = q
                                /\ m_defs[IndexOf(q)].kind # "ReusableLabel"
           /\ \A d \in Named(q) : d <= IndexOf(q)
<1>1. DOMAIN m_defs = 1 .. Len(m_defs) /\ Len(m_defs) \in Nat BY LenProperties DEF Place
<1>2. Named(q) \in SUBSET Nat /\ \A d \in Named(q) : d <= Len(m_defs) /\ d # 0 BY <1>1 DEF Named
<1>3. /\ IndexOf(q) \in {0} \cup Named(q) /\ (IndexOf(q) = 0 <=> Named(q) = {})
      /\ \A d \in Named(q) : d <= IndexOf(q)
  <2>1. PICK S : S = Named(q) OBVIOUS
  <2>4. PICK b \in Nat : b = Len(m_defs) BY <1>1
  <2>2. S \in SUBSET Nat /\ \A d \in S : d <= b /\ d # 0 BY <1>2, <2>1, <2>4
  <2>3. /\ Max({0} \cup S) \in {0} \cup S /\ (Max({0} \cup S) = 0 <=> S = {})
        /\ \A d \in S : d <= Max({0} \cup S)
    BY <2>2, MaxOrZero
  <2> QED BY <2>1, <2>3 DEF IndexOf
<1> QED BY <1>3 DEF Named

\* A name that has been defined as a constant stands for the last such def, any
\* other for the last label.
LEMMA IndexMeans ==
    ASSUME Place, DefsOK, NEW q, pass # 1
    PROVE  /\ \A j \in DefsOf(q) \cap Reached :
                 /\ IndexOf(q) # 0 /\ m_defs[IndexOf(q)].kind \in {"Constant", "LocalConstant"}
                 /\ m_defs[IndexOf(q)].seq \in DefsOf(q) \cap Reached /\ j <= m_defs[IndexOf(q)].seq
           /\ DefsOf(q) \cap Reached = {} =>
                 /\ RefersTo(IndexOf(q), Max({0} \cup Labels(q)))
                 /\ IndexOf(q) # 0 => m_defs[IndexOf(q)].kind \in {"GlobalLabel", "LocalLabel"}
<1> DEFINE d == IndexOf(q)
<1>0. /\ Len(order) \in Nat /\ DOMAIN order = 1 .. Len(order)
      /\ Collected = DOMAIN order /\ Reached = 1 .. m_seq - 1 /\ Reached \subseteq DOMAIN order
      /\ \A i \in DOMAIN order : order[i] \in Stmt
      /\ DOMAIN m_defs = 1 .. Len(m_defs) /\ Len(m_defs) \in Nat
    BY LenProperties, ElementOfSeq DEF Place, Collected, Reached
<1>1. \A i \in DOMAIN order : order[i].op = "label" =>
          /\ order[i].kind \in {"Global", "Local", "Reusable"}
          /\ LabelKind(order[i].kind) = "ReusableLabel" <=> order[i].kind = "Reusable"
          /\ LabelKind(order[i].kind) \in {"GlobalLabel", "LocalLabel", "ReusableLabel"}
  <2>1. ASSUME NEW s \in Stmt, s.op = "label" PROVE s.kind \in {"Global", "Local", "Reusable"}
    BY <2>1 DEF Stmt
  <2> QED BY <1>0, <2>1 DEF LabelKind
<1>2. \A j \in DefsOf(q) \cap Reached : \E e \in Named(q) : m_defs[e].seq = j
  <2> TAKE j \in DefsOf(q) \cap Reached
  <2>1. PICK e \in DOMAIN m_defs : m_defs[e].seq = j BY DEF DefsOK, DefsOf
  <2>2. m_defs[e].name = q /\ m_defs[e].kind = ConstKind(j) BY <2>1 DEF DefsOK, DefsOf
  <2> QED BY <2>1, <2>2 DEF Named, ConstKind
<1>3. \A j \in Labels(q) : \E e \in Named(q) : m_defs[e].seq = j
  <2> TAKE j \in Labels(q)
  <2>1. PICK e \in DOMAIN m_defs : m_defs[e].seq = j BY <1>0 DEF DefsOK, Labels
  <2>2. m_defs[e].name = q /\ m_defs[e].kind = LabelKind(order[j].kind) /\ order[j].kind # "Reusable"
    BY <2>1 DEF DefsOK, Labels
  <2>3. m_defs[e].kind # "ReusableLabel" BY <1>1, <2>2 DEF Labels
  <2> QED BY <2>1, <2>2, <2>3 DEF Named
<1>4. \A e \in Named(q) : \/ m_defs[e].seq \in Labels(q)
                             /\ m_defs[e].kind \in {"GlobalLabel", "LocalLabel"}
                          \/ m_defs[e].seq \in DefsOf(q) \cap Reached
                             /\ m_defs[e].kind \in {"Constant", "LocalConstant"}
  <2> TAKE e \in Named(q)
  <2>1. e \in DOMAIN m_defs /\ m_defs[e].name = q /\ m_defs[e].kind # "ReusableLabel" BY DEF Named
  <2>2. PICK i : i = m_defs[e].seq OBVIOUS
  <2>3. CASE i \in Collected /\ order[i].op = "label"
    <3>1. q = LabelName(i) /\ m_defs[e].kind = LabelKind(order[i].kind)
      BY <2>1, <2>2, <2>3 DEF DefsOK
    <3> QED BY <1>0, <1>1, <2>1, <2>2, <2>3, <3>1 DEF Labels
  <2>4. CASE i \in Reached /\ order[i].op = "def"
    <3>1. q = ConstName(i) /\ m_defs[e].kind = ConstKind(i)
      BY <2>1, <2>2, <2>4 DEF DefsOK
    <3> QED BY <1>0, <2>2, <2>4, <3>1 DEF DefsOf, ConstKind
  <2> QED BY <2>1, <2>2, <2>3, <2>4 DEF DefsOK
<1>5. \A e, f \in Named(q) : e < f => Precedes(m_defs[e].seq, m_defs[f].seq)
    BY DEF DefsOK, Named
<1>6. /\ d \in {0} \cup Named(q) /\ (d = 0 <=> Named(q) = {}) /\ \A e \in Named(q) : e <= d
    BY IndexFacts DEF Named
<1>7. \A e \in Named(q) : e = d \/ Precedes(m_defs[e].seq, m_defs[d].seq)
  <2> TAKE e \in Named(q)
  <2>1. e \in Nat /\ d \in Nat /\ e <= d /\ d \in Named(q)
    BY <1>0, <1>6 DEF Named
  <2> HIDE DEF d
  <2> QED BY <1>5, <2>1
<1>8. \A i \in Labels(q) : order[i].op = "label" /\ i \in Nat /\ i <= Len(order) /\ i # 0
    BY <1>0 DEF Labels
<1>9. \A i \in DefsOf(q) : order[i].op = "def" /\ i \in Nat
    BY <1>0 DEF DefsOf
<1> HIDE DEF d
<1>10. ASSUME NEW j \in DefsOf(q) \cap Reached
       PROVE  /\ d # 0 /\ m_defs[d].kind \in {"Constant", "LocalConstant"}
              /\ m_defs[d].seq \in DefsOf(q) \cap Reached /\ j <= m_defs[d].seq
  <2>1. PICK e \in Named(q) : m_defs[e].seq = j BY <1>2
  <2>2. d \in Named(q) /\ d # 0 BY <1>6, <1>0 DEF Named
  <2>3. order[j].op = "def" BY <1>9
  <2>4. order[m_defs[d].seq].op = "def" /\ j <= m_defs[d].seq
    <3>1. e = d \/ Precedes(j, m_defs[d].seq) BY <1>7, <2>1
    <3>2. m_defs[d].seq \in Nat BY <1>4, <1>8, <1>9, <2>2
    <3> QED BY <1>9, <2>1, <2>3, <3>1, <3>2 DEF Precedes
  <2> QED BY <1>4, <1>8, <2>2, <2>4
<1>11. ASSUME DefsOf(q) \cap Reached = {}
       PROVE  /\ RefersTo(d, Max({0} \cup Labels(q)))
              /\ d # 0 => m_defs[d].kind \in {"GlobalLabel", "LocalLabel"}
  <2>1. Labels(q) \in SUBSET Nat BY <1>8
  <2>2. /\ Max({0} \cup Labels(q)) = 0 <=> Labels(q) = {}
        /\ \A n \in Labels(q) : (\A m \in Labels(q) : m <= n) => Max({0} \cup Labels(q)) = n
    <3>1. PICK L : L = Labels(q) OBVIOUS
    <3>2. PICK b \in Nat : \A n \in L : n <= b /\ n # 0 BY <1>0, <1>8, <3>1
    <3>3. /\ Max({0} \cup L) = 0 <=> L = {}
          /\ \A n \in L : (\A m \in L : m <= n) => Max({0} \cup L) = n
      BY <2>1, <3>1, <3>2, MaxOrZero
    <3> QED BY <3>1, <3>3
  <2>3. CASE d = 0
    <3>1. Labels(q) = {} BY <1>3, <1>6, <2>3
    <3> QED BY <2>2, <2>3, <3>1 DEF RefersTo
  <2>4. CASE d # 0
    <3>1. d \in Named(q) /\ m_defs[d].seq \in Labels(q)
          /\ m_defs[d].kind \in {"GlobalLabel", "LocalLabel"}
      BY <1>4, <1>6, <1>11, <2>4
    <3>2. \A m \in Labels(q) : m <= m_defs[d].seq
      <4> TAKE m \in Labels(q)
      <4>1. PICK e \in Named(q) : m_defs[e].seq = m BY <1>3
      <4>2. e = d \/ Precedes(m, m_defs[d].seq) BY <1>7, <4>1
      <4> QED BY <1>8, <3>1, <4>1, <4>2 DEF Precedes
    <3> QED BY <2>2, <2>4, <3>1, <3>2 DEF RefersTo
  <2> QED BY <2>3, <2>4
<1> QED BY <1>10, <1>11 DEF d

-----------------------------------------------------------------------------
(* The walk.                                                               *)

\* What a statement is made of.
LEMMA StmtFacts ==
    ASSUME Place, NEW i \in DOMAIN order
    PROVE  /\ i \in 1 .. Len(order) /\ i \in Nat \ {0} /\ order[i] \in Stmt
           /\ order[i].op = "label" =>
                 /\ order[i].kind \in {"Global", "Local", "Reusable"}
                 /\ order[i].name \in {<<w>> : w \in Word} /\ LabelName(i) \in QName
           /\ order[i].op = "def" =>
                 /\ order[i].isLocal \in BOOLEAN /\ order[i].value \in Value /\ ConstName(i) \in QName
           /\ order[i].op \in {"undef", "use"} => order[i].name \in Written
           /\ order[i].op = "jump" => order[i].name \in {<<w>> : w \in Word}
           /\ \A w \in Written : Meaning(w, i) \in QName
<1>1. i \in 1 .. Len(order) /\ i \in Nat \ {0} /\ order[i] \in Stmt
    BY LenProperties, ElementOfSeq DEF Place
<1>2. Scope(i) \in Scopes
    BY <1>1, ScopeStep
<1>3. ASSUME NEW s \in Stmt
      PROVE  /\ s.op = "label" => /\ s.kind \in {"Global", "Local", "Reusable"}
                                  /\ s.name \in {<<w>> : w \in Word}
             /\ s.op = "def" => /\ s.isLocal \in BOOLEAN /\ s.value \in Value
                                /\ s.name \in {<<w>> : w \in Word}
             /\ s.op \in {"undef", "use"} => s.name \in Written
             /\ s.op = "jump" => s.name \in {<<w>> : w \in Word}
    BY DEF Stmt
<1>4. \A n \in {<<w>> : w \in Word} : n \in QName /\ Scope(i) \o n \in QName
  <2> TAKE n \in {<<w>> : w \in Word}
  <2>1. PICK w \in Word, a \in Scopes : n = <<w>> /\ a = Scope(i) BY <1>2
  <2> QED BY <2>1, InScope DEF QName
<1>5. ASSUME NEW w \in Written PROVE Meaning(w, i) \in QName
  <2>1. CASE w.dot
    <3>1. w.name \in {<<v>> : v \in Word} BY <2>1 DEF Written
    <3> QED BY <1>4, <2>1, <3>1 DEF Meaning
  <2>2. CASE ~w.dot
    <3>1. w.name \in QName BY <2>2 DEF Written
    <3> QED BY <2>2, <3>1 DEF Meaning
  <2> QED BY <2>1, <2>2
<1> QED BY <1>1, <1>3, <1>4, <1>5 DEF LabelName, ConstName

\* The statement that the walk is at.
LEMMA AtCurrent ==
    ASSUME Place, pass # 3, m_seq <= Len(order)
    PROVE  /\ m_seq \in DOMAIN order /\ m_seq + 1 \in 1 .. Len(order) + 1 /\ Current = order[m_seq]
           /\ \A w : Qualify(w) = Meaning(w, m_seq)
           /\ Scope(m_seq + 1) = IF GlobalAt(m_seq) THEN order[m_seq].name ELSE m_currentGlobal
           /\ m_currentGlobal \o Current.name = Scope(m_seq) \o order[m_seq].name
<1>1. DOMAIN order = 1 .. Len(order) /\ Len(order) \in Nat BY LenProperties DEF Place
<1>2. m_seq \in DOMAIN order /\ m_seq + 1 \in 1 .. Len(order) + 1 BY <1>1 DEF Place
<1> QED BY <1>2, ScopeStep DEF Place, Current, Qualify, Meaning

\* The statements of pass 2.
Pass2 == Label \/ Use \/ Jump \/ NoDirection \/ Define \/ Undef \/ Exit \/ Plain
\* A statement of pass 2 goes on to the next; only labels move the scope, only defs add definitions.
LEMMA Pass2Facts ==
    ASSUME Pass2
    PROVE  /\ pass = 2 /\ pass' = 2 /\ m_seq <= Len(order) /\ m_seq' = m_seq + 1 /\ order' = order
           /\ ~Label => UNCHANGED <<m_currentGlobal, currentEntry>>
           /\ ~Define => UNCHANGED m_defs
BY DEF Pass2, Label, Use, Jump, NoDirection, Define, Undef, Exit, Plain, Visit

\* A definition is found for every reference that has one.
LEMMA TargetType ==
    ASSUME Place, DefsOK
    PROVE  /\ \A w : Target(w) \in Nat
           /\ \A q : IndexOf(q) \in Nat /\ (IndexOf(q) # 0 => m_defs[IndexOf(q)] \in Definition)
<1>1. DOMAIN m_defs = 1 .. Len(m_defs) /\ \A d \in DOMAIN m_defs : m_defs[d] \in Definition
    BY LenProperties, ElementOfSeq DEF Place
<1>2. \A q : IndexOf(q) \in {0} \cup DOMAIN m_defs BY IndexFacts
<1> QED BY <1>1, <1>2 DEF Target

\* The value of a constant.
LEMMA EvaluateType ==
    ASSUME Place, DefsOK, NEW v \in Value
    PROVE  Evaluate(v) \in {"none", "int", "float"}
<1>1. v.lit \in {"int", "float"} BY DEF Value
<1>2. \A q : IndexOf(q) # 0 => m_defs[IndexOf(q)].value \in {"none", "int", "float"}
    BY TargetType DEF Definition
<1> QED BY <1>1, <1>2 DEF Evaluate

\* The nearest reusable label in m_defs is the nearest in the stream.
LEMMA FoundNearest ==
    ASSUME Place, DefsOK, pass = 2, NEW i \in DOMAIN order, order[i].op = "jump"
    PROVE  /\ FindReusable(order[i].name, i, order[i].dir = "-") \in {0} \cup DOMAIN m_defs
           /\ RefersTo(FindReusable(order[i].name, i, order[i].dir = "-"), Nearest(i))
           /\ FindReusable(order[i].name, i, order[i].dir = "-") = 0 <=> Nearest(i) = 0
<1> DEFINE base == order[i].name
           all == {j \in DOMAIN order : /\ order[j].op = "label" /\ order[j].kind = "Reusable"
                                        /\ order[j].name = base}
           above == order[i].dir = "-"
           found == {m_defs[d].seq : d \in {e \in Reusable(base) :
                                       IF above THEN m_defs[e].seq <= i ELSE m_defs[e].seq > i}}
<1>0. /\ Len(order) \in Nat /\ DOMAIN order = 1 .. Len(order) /\ Collected = DOMAIN order
      /\ Reached = 1 .. m_seq - 1 /\ i \in Nat \ {0} /\ Reached \subseteq DOMAIN order
      /\ \A j \in DOMAIN order : j \in Nat \ {0} /\ j <= Len(order)
  <2>1. Len(order) \in Nat /\ DOMAIN order = 1 .. Len(order) BY LenProperties DEF Place
  <2>2. m_seq \in 1 .. Len(order) + 1 BY DEF Place
  <2> HIDE DEF base, all, above, found
  <2>3. Collected = DOMAIN order /\ Reached = 1 .. m_seq - 1 BY DEF Collected, Reached
  <2>4. i \in Nat \ {0} /\ \A j \in DOMAIN order : j \in Nat \ {0} /\ j <= Len(order) BY <2>1
  <2>5. 1 .. m_seq - 1 \subseteq DOMAIN order BY <2>1, <2>2
  <2> QED BY <2>1, <2>3, <2>4, <2>5
<1>1. \A j \in DOMAIN order : order[j].op = "label" =>
          /\ LabelKind(order[j].kind) = "ReusableLabel" <=> order[j].kind = "Reusable"
          /\ order[j].kind = "Reusable" => LabelName(j) = order[j].name
  BY StmtFacts DEF LabelKind, LabelName
<1>2. \A d \in DOMAIN m_defs : m_defs[d].kind = "ReusableLabel" =>
          /\ m_defs[d].seq \in DOMAIN order /\ order[m_defs[d].seq].op = "label"
          /\ order[m_defs[d].seq].kind = "Reusable" /\ m_defs[d].name = order[m_defs[d].seq].name
  <2> TAKE d \in DOMAIN m_defs
  <2> HAVE m_defs[d].kind = "ReusableLabel"
  <2>1. PICK j : j = m_defs[d].seq OBVIOUS
  <2>2. j \in Collected /\ order[j].op = "label" /\ m_defs[d].name = LabelName(j)
        /\ m_defs[d].kind = LabelKind(order[j].kind)
    BY <2>1 DEF DefsOK, ConstKind
  <2> QED BY <1>0, <1>1, <2>1, <2>2
<1>3. \A j \in all : \E d \in DOMAIN m_defs :
          m_defs[d].seq = j /\ m_defs[d].kind = "ReusableLabel" /\ m_defs[d].name = base
  <2> TAKE j \in all
  <2>1. PICK d \in DOMAIN m_defs : m_defs[d].seq = j BY <1>0 DEF DefsOK
  <2>2. m_defs[d].kind = LabelKind(order[j].kind) /\ m_defs[d].name = LabelName(j)
    BY <2>1 DEF DefsOK
  <2> QED BY <1>1, <2>1, <2>2
<1>4. found = IF above THEN {j \in all : j < i} ELSE {j \in all : j > i}
  <2>1. i \notin all BY DEF all
  <2>2. \A d \in Reusable(base) : m_defs[d].seq \in all BY <1>2 DEF Reusable
  <2>3. \A j \in all : \E d \in Reusable(base) : m_defs[d].seq = j BY <1>3 DEF Reusable
  <2>4. \A j \in all : j \in Nat /\ (j <= i <=> j < i)
    <3>1. all \subseteq DOMAIN order OBVIOUS
    <3> HIDE DEF all, found
    <3> TAKE j \in all
    <3>2. j \in Nat /\ i \in Nat /\ j # i BY <1>0, <2>1, <3>1
    <3> QED BY <3>2
  <2> HIDE DEF all, base, above
  <2> QED BY <2>2, <2>3, <2>4
<1>5. \A j \in all : /\ AtSeq(j) \in DOMAIN m_defs /\ m_defs[AtSeq(j)].seq = j
                     /\ AtSeq(j) \in Nat \ {0}
  <2>1. DOMAIN m_defs = 1 .. Len(m_defs) BY LenProperties DEF Place
  <2> TAKE j \in all
  <2>2. \E d \in DOMAIN m_defs : m_defs[d].kind = "ReusableLabel" /\ m_defs[d].seq = j BY <1>3
  <2> HIDE DEF all, found
  <2>3. AtSeq(j) \in DOMAIN m_defs /\ m_defs[AtSeq(j)].seq = j BY <2>2 DEF AtSeq
  <2>4. AtSeq(j) \in 1 .. Len(m_defs) BY <2>1, <2>3
  <2>5. AtSeq(j) \in Nat \ {0}
    <3>1. Len(m_defs) \in Nat BY LenProperties DEF Place
    <3> QED BY <2>4, <3>1
  <2> QED BY <2>3, <2>5
<1>6. FindReusable(base, i, above)
        = IF found = {} THEN 0 ELSE AtSeq(IF above THEN Max(found) ELSE Min(found))
    BY DEF FindReusable
<1>7. Nearest(i) = IF above THEN Max({0} \cup {j \in all : j < i})
                   ELSE IF {j \in all : j > i} # {} THEN Min({j \in all : j > i}) ELSE 0
    BY DEF Nearest
<1>8. found \in SUBSET Nat /\ found \subseteq all /\ \A j \in found : j <= Len(order) /\ j # 0
  <2>1. all \subseteq DOMAIN order OBVIOUS
  <2> HIDE DEF all, found, above
  <2>2. found \subseteq all BY <1>4
  <2> QED BY <1>0, <2>1, <2>2
<1> HIDE DEF all, base, above, found
<1>9. found = {} \/ (Max(found) \in found /\ Min(found) \in found /\ Max({0} \cup found) = Max(found))
  <2> SUFFICES ASSUME found # {}
               PROVE  Max(found) \in found /\ Min(found) \in found
                      /\ Max({0} \cup found) = Max(found)
    OBVIOUS
  <2>1. Max(found) \in found /\ \A m \in found : m <= Max(found) BY <1>0, <1>8, MaxFacts
  <2>2. Min(found) \in found BY <1>8, MinFacts
  <2>3. Max({0} \cup found) = Max(found)
    <3>1. PICK b \in Nat : b = Len(order) BY <1>0
    <3>2. \A n \in found : (\A m \in found : m <= n) => Max({0} \cup found) = n
      BY <1>8, <3>1, MaxOrZero
    <3> QED BY <2>1, <3>2
  <2> QED BY <2>1, <2>2, <2>3
<1>10. Max({0} \cup {}) = 0
  <2>1. {} \in SUBSET Nat /\ 0 \in Nat OBVIOUS
  <2> QED BY <2>1, MaxOrZero
<1>11. Nearest(i) = IF found = {} THEN 0 ELSE IF above THEN Max(found) ELSE Min(found)
    BY <1>4, <1>7, <1>9, <1>10
<1>12. FindReusable(base, i, above) \in {0} \cup DOMAIN m_defs
       /\ RefersTo(FindReusable(base, i, above), Nearest(i))
       /\ (FindReusable(base, i, above) = 0 <=> Nearest(i) = 0)
    BY <1>5, <1>6, <1>8, <1>9, <1>11 DEF RefersTo
<1> QED BY <1>12 DEF base, above

-----------------------------------------------------------------------------
(* The walk keeps its shape, the symbol table its order.                   *)

LEMMA InitPlace == Init => Place /\ DefsOK
<1> SUFFICES ASSUME Init PROVE Place /\ DefsOK OBVIOUS
<1>1. order \in Units /\ order \in Seq(Stmt) BY UnitsAssumption DEF Init
<1>2. Len(order) \in Nat /\ 1 \in 1 .. Len(order) + 1 BY <1>1, LenProperties
<1>3. Scope(1) = <<>>
  <2>1. 1 .. 1 - 1 = {} OBVIOUS
  <2> QED BY <2>1 DEF Scope
<1>4. \A S : <<>> \in Seq(S) BY EmptySeq
<1>5. m_defs \in Seq(Definition) /\ m_refs \in Seq(Mention)
      /\ entryPoints \in Seq([at : Nat, hasExit : BOOLEAN])
    BY <1>4 DEF Init
<1>6. currentEntry \in 0 .. Len(entryPoints) BY DEF Init
<1>7. Place BY <1>1, <1>2, <1>3, <1>5, <1>6 DEF Place, Init
<1>8. pass = 1 /\ m_seq = 1 /\ DOMAIN m_defs = {} BY DEF Init
<1>9. Collected = {} /\ Reached = {}
  <2>1. 1 .. 1 - 1 = {} OBVIOUS
  <2> QED BY <1>8, <2>1 DEF Collected, Reached
<1>10. DefsOK BY <1>8, <1>9 DEF DefsOK
<1> QED BY <1>7, <1>10

\* Appending keeps what is there.
LEMMA Appended ==
    ASSUME NEW S, NEW s \in Seq(S), NEW x \in S, NEW t, t = Append(s, x)
    PROVE  /\ Len(s) \in Nat /\ DOMAIN s = 1 .. Len(s)
           /\ t \in Seq(S) /\ Len(t) = Len(s) + 1 /\ DOMAIN t = 1 .. Len(s) + 1
           /\ \A i \in DOMAIN s : i \in DOMAIN t /\ t[i] = s[i]
           /\ t[Len(s) + 1] = x
           /\ Range(t) = Range(s) \cup {x}
<1>1. Len(s) \in Nat /\ DOMAIN s = 1 .. Len(s) BY LenProperties
<1>2. /\ t \in Seq(S) /\ Len(t) = Len(s) + 1
      /\ \A i \in 1 .. Len(s) : t[i] = s[i]
      /\ t[Len(s) + 1] = x
    BY AppendProperties
<1>3. DOMAIN t = 1 .. Len(s) + 1 BY <1>2, LenProperties
<1>4. DOMAIN t = DOMAIN s \cup {Len(s) + 1} BY <1>1, <1>3
<1>5. Range(t) = Range(s) \cup {x}
  <2>1. Range(t) = {t[i] : i \in DOMAIN t} /\ Range(s) = {s[i] : i \in DOMAIN s} BY DEF Range
  <2> QED BY <1>1, <1>2, <1>4, <2>1
<1> QED BY <1>1, <1>2, <1>3, <1>5

\* What Collect and Define append: the def of the current statement.
LEMMA DefAppended ==
    ASSUME Place, DefsOK,
           m_defs' = m_defs \/ \E d \in Definition : m_defs' = Append(m_defs, d) /\ d.seq = m_seq
    PROVE  /\ m_defs' \in Seq(Definition)
           /\ \A e \in DOMAIN m_defs : e \in DOMAIN m_defs' /\ m_defs'[e] = m_defs[e]
<1>1. CASE m_defs' = m_defs BY <1>1 DEF Place
<1>2. CASE \E d \in Definition : m_defs' = Append(m_defs, d) /\ d.seq = m_seq
  <2>1. PICK d \in Definition : m_defs' = Append(m_defs, d) BY <1>2
  <2>2. PICK s, t : s = m_defs /\ t = m_defs' OBVIOUS
  <2> QED BY <2>1, <2>2, Appended DEF Place
<1> QED BY <1>1, <1>2

\* The def that a label, a constant adds.
LabelDef(i) == [name |-> LabelName(i), kind |-> LabelKind(order[i].kind), value |-> "none", seq |-> i]
ConstDef(i, value) == [name |-> ConstName(i), kind |-> ConstKind(i), value |-> value, seq |-> i]

\* What pass 1 adds for a label is its definition, under the name it has in its scope.
LEMMA CollectFacts ==
    ASSUME Place, Collect
    PROVE  /\ m_seq \in DOMAIN order /\ order[m_seq].op = "label" /\ pass = 1 /\ pass' = 1
           /\ m_seq' = m_seq + 1 /\ order' = order
           /\ m_defs' = Append(m_defs, LabelDef(m_seq)) /\ LabelDef(m_seq) \in Definition
           /\ m_currentGlobal' = Scope(m_seq + 1)
<1>1. pass = 1 /\ pass' = 1 /\ m_seq <= Len(order) /\ Current.op = "label" /\ m_seq' = m_seq + 1
      /\ order' = order /\ m_currentGlobal' = Opened(Current, IF Current.kind = "Local"
                              THEN m_currentGlobal \o Current.name ELSE Current.name)
      /\ m_defs' = Append(m_defs, Def(IF Current.kind = "Local"
                              THEN m_currentGlobal \o Current.name ELSE Current.name,
                              LabelKind(Current.kind), "none"))
    BY DEF Collect, Visit
<1>2. /\ m_seq \in DOMAIN order /\ Current = order[m_seq] /\ m_currentGlobal = Scope(m_seq)
      /\ Scope(m_seq + 1) = IF GlobalAt(m_seq) THEN order[m_seq].name ELSE m_currentGlobal
    BY <1>1, AtCurrent DEF Place
<1>3. /\ order[m_seq].kind \in {"Global", "Local", "Reusable"} /\ LabelName(m_seq) \in QName
      /\ m_seq \in Nat
    BY <1>1, <1>2, StmtFacts
<1>4. m_defs' = Append(m_defs, LabelDef(m_seq)) BY <1>1, <1>2 DEF LabelDef, LabelName, Def
<1>5. LabelDef(m_seq) \in Definition BY <1>3 DEF LabelDef, Definition, LabelKind, Kinds
<1>6. m_currentGlobal' = Scope(m_seq + 1) BY <1>1, <1>2, <1>3 DEF Opened, GlobalAt
<1> QED BY <1>1, <1>2, <1>4, <1>5, <1>6

\* What a def adds: a definition, a live constant, and a reference if its value names something.
LEMMA DefineFacts ==
    ASSUME Place, DefsOK, Define
    PROVE  /\ m_seq \in DOMAIN order /\ order[m_seq].op = "def" /\ pass = 2
           /\ m_defs' = Append(m_defs, ConstDef(m_seq, Evaluate(order[m_seq].value)))
           /\ ConstDef(m_seq, Evaluate(order[m_seq].value)) \in Definition
           /\ m_liveConsts' = m_liveConsts \cup {ConstName(m_seq)}
           /\ m_refs' = IF order[m_seq].value.of = NoName THEN m_refs
                        ELSE Append(m_refs, Reference(order[m_seq].value.of))
<1> DEFINE q == IF Current.isLocal THEN m_currentGlobal \o Current.name ELSE Current.name
<1>1. pass = 2 /\ m_seq <= Len(order) /\ Current.op = "def"
      /\ m_defs' = Append(m_defs, Def(q, IF Current.isLocal THEN "LocalConstant" ELSE "Constant",
                                      Evaluate(Current.value)))
      /\ m_liveConsts' = m_liveConsts \cup {q}
      /\ m_refs' = IF Current.value.of = NoName THEN m_refs
                   ELSE Append(m_refs, Reference(Current.value.of))
    BY DEF Define, Visit
<1>2. /\ m_seq \in DOMAIN order /\ Current = order[m_seq] /\ m_currentGlobal = Scope(m_seq)
    BY <1>1, AtCurrent DEF Place
<1>3. order[m_seq].value \in Value /\ ConstName(m_seq) \in QName /\ m_seq \in Nat
    BY <1>1, <1>2, StmtFacts
<1>4. q = ConstName(m_seq) BY <1>2 DEF ConstName
<1> HIDE DEF q
<1>5. m_defs' = Append(m_defs, ConstDef(m_seq, Evaluate(order[m_seq].value)))
    BY <1>1, <1>2, <1>4 DEF ConstDef, Def, ConstKind
<1>6. ConstDef(m_seq, Evaluate(order[m_seq].value)) \in Definition
    BY <1>3, EvaluateType DEF ConstDef, Definition, ConstKind, Kinds
<1> QED BY <1>1, <1>2, <1>4, <1>5, <1>6

\* A reference.
LEMMA ReferenceType ==
    ASSUME Place, DefsOK, NEW w \in Written, pass = 2, m_seq <= Len(order)
    PROVE  Reference(w) \in Mention
<1>1. m_seq \in Nat BY LenProperties DEF Place
<1>2. Qualify(w) \in QName BY AtCurrent, StmtFacts
<1> QED BY <1>1, <1>2, TargetType DEF Reference, Mention

\* What a statement may add to the references: at most its own.
LEMMA MentionAdded ==
    ASSUME Place, DefsOK, [Next]_vars
    PROVE  \/ m_refs' = m_refs
           \/ /\ Use /\ m_refs' = Append(m_refs, Reference(Current.name))
              /\ Reference(Current.name) \in Mention
           \/ /\ Define /\ Current.value.of # NoName
              /\ m_refs' = Append(m_refs, Reference(Current.value.of))
              /\ Reference(Current.value.of) \in Mention
           \/ /\ Undef /\ Qualify(Current.name) \in m_liveConsts
              /\ m_refs' = Append(m_refs, Reference(Current.name))
              /\ Reference(Current.name) \in Mention
           \/ /\ Jump /\ \E r \in Mention :
                /\ r = [name |-> Current.name, seq |-> m_seq,
                        target |-> FindReusable(Current.name, m_seq, Current.dir = "-")]
                /\ m_refs' = Append(m_refs, r)
<1>0. m_seq \in Nat BY LenProperties DEF Place
<1>1. ASSUME NEW w \in Written, pass = 2, m_seq <= Len(order) PROVE Reference(w) \in Mention
  BY <1>1, ReferenceType
<1>2. CASE Use
  <2>1. pass = 2 /\ m_seq <= Len(order) /\ Current.op = "use" BY <1>2 DEF Use, Visit
  <2>2. Current.name \in Written BY <2>1, AtCurrent, StmtFacts
  <2> QED BY <1>1, <1>2, <2>1, <2>2 DEF Use
<1>3. CASE Define
  <2>1. pass = 2 /\ m_seq <= Len(order) /\ Current.op = "def" /\ m_seq \in DOMAIN order
        /\ Current = order[m_seq]
    BY <1>3, AtCurrent DEF Define, Visit
  <2>2. Current.value \in Value BY <2>1, StmtFacts
  <2>3. Current.value.of \in Written \/ Current.value.of = NoName BY <2>2 DEF Value
  <2>4. m_refs' = IF Current.value.of = NoName THEN m_refs
                  ELSE Append(m_refs, Reference(Current.value.of))
    BY <1>3 DEF Define
  <2> QED BY <1>1, <1>3, <2>1, <2>3, <2>4
<1>4. CASE Undef
  <2>1. pass = 2 /\ m_seq <= Len(order) /\ Current.op = "undef" BY <1>4 DEF Undef, Visit
  <2>2. Current.name \in Written BY <2>1, AtCurrent, StmtFacts
  <2> QED BY <1>1, <1>4, <2>1, <2>2 DEF Undef
<1>5. CASE Jump
  <2>1. pass = 2 /\ m_seq <= Len(order) /\ Current.op = "jump"
        /\ m_refs' = Append(m_refs, [name |-> Current.name, seq |-> m_seq,
                                     target |-> FindReusable(Current.name, m_seq, Current.dir = "-")])
    BY <1>5, Zenon DEF Jump, Visit
  <2>2. m_seq \in DOMAIN order /\ Current = order[m_seq] BY <2>1, AtCurrent
  <2>3. Current.name \in QName
    <3>1. Current.name \in {<<w>> : w \in Word} BY <2>1, <2>2, StmtFacts
    <3> QED BY <3>1 DEF QName
  <2>4. FindReusable(Current.name, m_seq, Current.dir = "-") \in Nat
    <3>1. FindReusable(order[m_seq].name, m_seq, order[m_seq].dir = "-") \in {0} \cup DOMAIN m_defs
      BY <2>1, <2>2, FoundNearest
    <3>2. DOMAIN m_defs = 1 .. Len(m_defs) BY LenProperties DEF Place
    <3> QED BY <2>2, <3>1, <3>2
  <2> QED BY <1>0, <1>5, <2>1, <2>3, <2>4 DEF Mention
<1>6. CASE Collect \/ PassOver \/ StartPass2 \/ Label \/ NoDirection \/ Exit \/ Plain \/ Finish
           \/ Analysed \/ UNCHANGED vars
  BY <1>6, Zenon DEF Collect, PassOver, StartPass2, Label, NoDirection, Exit, Plain, Finish, Analysed, vars
<1> QED BY <1>2, <1>3, <1>4, <1>5, <1>6 DEF Next

\* And to the entry points: one at most, or the mark on the current one.
LEMMA EntryAdded ==
    ASSUME Place, [Next]_vars
    PROVE  /\ entryPoints' \in Seq([at : Nat, hasExit : BOOLEAN])
           /\ currentEntry' \in 0 .. Len(entryPoints')
<1> DEFINE E == [at : Nat, hasExit : BOOLEAN]
<1>0. /\ m_seq \in Nat /\ entryPoints \in Seq(E) /\ Len(entryPoints) \in Nat
      /\ DOMAIN entryPoints = 1 .. Len(entryPoints) /\ currentEntry \in 0 .. Len(entryPoints)
    BY LenProperties DEF Place
<1>1. CASE Label
  <2>1. PICK x : x = [at |-> m_seq, hasExit |-> FALSE] OBVIOUS
  <2>2. x \in E BY <1>0, <2>1
  <2>3. Append(entryPoints, x) \in Seq(E) /\ Len(Append(entryPoints, x)) = Len(entryPoints) + 1
    BY <1>0, <2>2, AppendProperties
  <2>4. CASE Current.kind = "Global" /\ Current.name \in Entry
    <3>1. entryPoints' = Append(entryPoints, x) /\ currentEntry' = Len(entryPoints) + 1
      BY <1>1, <2>1, <2>4, Zenon DEF Label, EntryAt
    <3>2. entryPoints' \in Seq(E) /\ Len(entryPoints') = Len(entryPoints) + 1 BY <2>3, <3>1
    <3>3. currentEntry' \in 0 .. Len(entryPoints') BY <1>0, <3>1, <3>2
    <3> QED BY <3>2, <3>3
  <2>5. CASE ~(Current.kind = "Global" /\ Current.name \in Entry)
    BY <1>0, <1>1, <2>5 DEF Label, EntryAt
  <2> QED BY <2>4, <2>5
<1>2. CASE Exit
  <2>1. entryPoints' = (IF currentEntry = 0 THEN entryPoints
                        ELSE [entryPoints EXCEPT ![currentEntry].hasExit = TRUE])
        /\ currentEntry' = currentEntry
    BY <1>2 DEF Exit
  <2>2. CASE currentEntry = 0 BY <1>0, <2>1, <2>2
  <2>3. CASE currentEntry # 0
    <3>1. currentEntry \in 1 .. Len(entryPoints) BY <1>0, <2>3
    <3>2. entryPoints[currentEntry] \in E BY <1>0, <3>1, ElementOfSeq
    <3>3. PICK x : x = [entryPoints[currentEntry] EXCEPT !.hasExit = TRUE] OBVIOUS
    <3>4. x \in E BY <3>2, <3>3
    <3>5. entryPoints' = [entryPoints EXCEPT ![currentEntry] = x] BY <2>1, <2>3, <3>1, <3>3
    <3>6. entryPoints' \in Seq(E) /\ Len(entryPoints') = Len(entryPoints)
      BY <1>0, <3>1, <3>4, <3>5, ExceptSeq
    <3> QED BY <1>0, <2>1, <3>6
  <2> QED BY <2>2, <2>3
<1>3. CASE ~Label /\ ~Exit
  <2>1. UNCHANGED <<entryPoints, currentEntry>>
    BY <1>3, Zenon DEF Next, Collect, PassOver, StartPass2, Use, Jump, NoDirection, Define, Undef, Plain,
           Finish, Analysed, vars
  <2> QED BY <1>0, <2>1
<1> QED BY <1>1, <1>2, <1>3

\* Every step keeps the shape.
LEMMA PlaceNext == ASSUME Place, DefsOK, [Next]_vars PROVE Place'
<1>0. Len(order) \in Nat /\ DOMAIN order = 1 .. Len(order) /\ m_seq \in 1 .. Len(order) + 1
    BY LenProperties DEF Place
<1>1. order' = order
    BY Zenon DEF Next, Collect, PassOver, StartPass2, Label, Use, Jump, NoDirection, Define, Undef, Exit,
           Plain, Finish, Analysed, vars
<1>2. m_refs' \in Seq(Mention)
  <2>1. m_refs' = m_refs \/ \E r \in Mention : m_refs' = Append(m_refs, r)
      BY MentionAdded
  <2>2. CASE m_refs' = m_refs BY <2>2 DEF Place
  <2>3. CASE \E r \in Mention : m_refs' = Append(m_refs, r)
    <3>1. PICK r \in Mention : m_refs' = Append(m_refs, r) BY <2>3
    <3> QED BY <3>1, AppendProperties DEF Place
  <2> QED BY <2>1, <2>2, <2>3
<1>3. m_defs' \in Seq(Definition)
  <2>1. CASE Collect
    <3>1. PICK d : d = LabelDef(m_seq) OBVIOUS
    <3>2. m_defs' = Append(m_defs, d) /\ d \in Definition BY <2>1, <3>1, CollectFacts
    <3> QED BY <3>2, AppendProperties DEF Place
  <2>2. CASE Define
    <3>1. PICK d : d = ConstDef(m_seq, Evaluate(order[m_seq].value)) OBVIOUS
    <3>2. m_defs' = Append(m_defs, d) /\ d \in Definition BY <2>2, <3>1, DefineFacts
    <3> QED BY <3>2, AppendProperties DEF Place
  <2>3. CASE ~Collect /\ ~Define
    <3>1. m_defs' = m_defs
      BY <2>3, Zenon DEF Next, PassOver, StartPass2, Label, Use, Jump, NoDirection, Undef, Exit, Plain,
             Finish, Analysed, vars
    <3> QED BY <3>1 DEF Place
  <2> QED BY <2>1, <2>2, <2>3
<1>4. /\ pass' \in {1, 2, 3} /\ m_seq' \in 1 .. Len(order) + 1
      /\ pass' = 3 => m_seq' = Len(order) + 1
      /\ m_currentGlobal' = Scope(m_seq')
  <2>1. CASE Collect
    <3>1. m_seq' = m_seq + 1 /\ pass' = 1 /\ m_currentGlobal' = Scope(m_seq + 1) /\ m_seq \in DOMAIN order
      BY <2>1, CollectFacts
    <3> QED BY <1>0, <3>1
  <2>2. ASSUME pass # 3, m_seq <= Len(order), ~GlobalAt(m_seq), pass' = pass, m_seq' = m_seq + 1,
               m_currentGlobal' = m_currentGlobal
        PROVE  /\ pass' \in {1, 2, 3} /\ m_seq' \in 1 .. Len(order) + 1
               /\ pass' = 3 => m_seq' = Len(order) + 1
               /\ m_currentGlobal' = Scope(m_seq')
    <3>1. m_seq + 1 \in 1 .. Len(order) + 1 /\ Scope(m_seq + 1) = m_currentGlobal
      BY <2>2, AtCurrent
    <3> QED BY <2>2, <3>1 DEF Place
  <2>3. CASE PassOver
    <3>1. pass = 1 /\ m_seq <= Len(order) /\ Current.op # "label" /\ pass' = pass /\ m_seq' = m_seq + 1
          /\ m_currentGlobal' = m_currentGlobal
      BY <2>3 DEF PassOver
    <3>2. ~GlobalAt(m_seq) BY <3>1, AtCurrent DEF GlobalAt
    <3> QED BY <2>2, <3>1, <3>2
  <2>4. CASE StartPass2
    <3>1. pass' = 2 /\ m_seq' = 1 /\ m_currentGlobal' = <<>> BY <2>4 DEF StartPass2
    <3> QED BY <1>0, <3>1, ScopeStep
  <2>5. CASE Label
    <3>1. pass = 2 /\ pass' = 2 /\ m_seq' = m_seq + 1 /\ m_seq <= Len(order) /\ Current.op = "label"
          /\ m_currentGlobal' = IF Current.kind = "Global" THEN Current.name ELSE m_currentGlobal
      BY <2>5 DEF Label, Visit
    <3>2. /\ m_seq + 1 \in 1 .. Len(order) + 1 /\ Current = order[m_seq]
          /\ Scope(m_seq + 1) = IF GlobalAt(m_seq) THEN order[m_seq].name ELSE m_currentGlobal
      BY <3>1, AtCurrent
    <3> QED BY <3>1, <3>2 DEF GlobalAt
  <2>6. CASE Use \/ Jump \/ NoDirection \/ Define \/ Undef \/ Exit \/ Plain
    <3>1. pass = 2 /\ pass' = pass /\ m_seq' = m_seq + 1 /\ m_seq <= Len(order)
          /\ m_currentGlobal' = m_currentGlobal
      BY <2>6, Zenon DEF Use, Jump, NoDirection, Define, Undef, Exit, Plain, Visit
    <3>2. Current.op \in {"use", "jump", "def", "undef", "exit", "plain"}
      BY <2>6, Zenon DEF Use, Jump, NoDirection, Define, Undef, Exit, Plain, Visit
    <3>3. ~GlobalAt(m_seq) BY <3>1, <3>2, AtCurrent DEF GlobalAt
    <3> QED BY <2>2, <3>1, <3>3
  <2>7. CASE Finish
    <3>1. pass' = 3 /\ m_seq' = m_seq /\ m_seq > Len(order) /\ m_currentGlobal' = m_currentGlobal
      BY <2>7 DEF Finish
    <3> QED BY <1>0, <3>1 DEF Place
  <2>8. CASE Analysed \/ UNCHANGED vars
    BY <2>8 DEF Analysed, vars, Place
  <2> QED BY <2>1, <2>3, <2>4, <2>5, <2>6, <2>7, <2>8 DEF Next
<1>5. m_currentGlobal' = Scope(m_seq)'
    BY <1>1, <1>4 DEF Scope
<1> QED BY <1>1, <1>2, <1>3, <1>4, <1>5, EntryAdded DEF Place

\* Of one statement, and the symbol table with one more.
IsDefOf(d, i) ==
    \/ order[i].op = "label" /\ d.name = LabelName(i) /\ d.kind = LabelKind(order[i].kind)
    \/ order[i].op = "def" /\ d.name = ConstName(i) /\ d.kind = ConstKind(i)

\* DefsOK survives the definition of one more statement.
LEMMA DefsGrow ==
    ASSUME Place, DefsOK, order' = order, NEW d \in Definition, m_defs' = Append(m_defs, d),
           d.seq = m_seq, IsDefOf(d, m_seq),
           \/ /\ order[m_seq].op = "label" /\ pass = 1
              /\ Collected' = Collected \cup {m_seq} /\ Reached' = {}
           \/ /\ order[m_seq].op = "def" /\ pass = 2
              /\ Collected' = Collected /\ Reached' = Reached \cup {m_seq}
    PROVE  DefsOK'
<1>0. /\ m_seq \in Nat /\ \A i \in Reached : i \in Nat /\ i < m_seq
      /\ pass = 1 => Reached = {} /\ \A i \in Collected : i \in Nat /\ i < m_seq
    BY LenProperties DEF Place, Collected, Reached
<1>1. PICK s, t : s = m_defs /\ t = m_defs' OBVIOUS
<1>2. /\ DOMAIN s = 1 .. Len(s) /\ Len(s) \in Nat /\ DOMAIN t = 1 .. Len(s) + 1
      /\ \A e \in DOMAIN s : e \in DOMAIN t /\ t[e] = s[e]
      /\ t[Len(s) + 1] = d
    BY <1>1, Appended DEF Place
<1>3. DOMAIN t = DOMAIN s \cup {Len(s) + 1} /\ \A e \in DOMAIN s : e < Len(s) + 1 /\ e \in Nat
    BY <1>2
<1>4. \A i, j : LabelName(i)' = LabelName(i) /\ ConstName(i)' = ConstName(i)
                /\ ConstKind(i)' = ConstKind(i) /\ Precedes(i, j)' = Precedes(i, j)
    BY StreamSame DEF ConstKind, Precedes
<1>5. \A e \in DOMAIN t :
          \/ t[e].seq \in Collected' /\ order[t[e].seq].op = "label"
             /\ t[e].name = LabelName(t[e].seq) /\ t[e].kind = LabelKind(order[t[e].seq].kind)
          \/ t[e].seq \in Reached' /\ order[t[e].seq].op = "def"
             /\ t[e].name = ConstName(t[e].seq) /\ t[e].kind = ConstKind(t[e].seq)
  <2> TAKE e \in DOMAIN t
  <2>1. CASE e \in DOMAIN s
    <3>1. t[e] = m_defs[e] /\ e \in DOMAIN m_defs BY <1>1, <1>2, <2>1
    <3> QED BY <1>0, <3>1 DEF DefsOK
  <2>2. CASE e = Len(s) + 1 BY <1>2, <2>2 DEF IsDefOf
  <2> QED BY <1>3, <2>1, <2>2
<1>6. \A i \in Collected' : order[i].op = "label" => \E e \in DOMAIN t : t[e].seq = i
  <2> TAKE i \in Collected'
  <2>1. CASE i \in Collected BY <1>1, <1>2, <2>1 DEF DefsOK
  <2>2. CASE i = m_seq BY <1>2, <1>3, <2>2
  <2> QED BY <2>1, <2>2
<1>7. \A i \in Reached' : order[i].op = "def" => \E e \in DOMAIN t : t[e].seq = i
  <2> TAKE i \in Reached'
  <2>1. CASE i \in Reached BY <1>1, <1>2, <2>1 DEF DefsOK
  <2>2. CASE i = m_seq BY <1>2, <1>3, <2>2
  <2> QED BY <2>1, <2>2
<1>8. \A e \in DOMAIN s : Precedes(s[e].seq, m_seq)
  <2> TAKE e \in DOMAIN s
  <2>1. \/ s[e].seq \in Collected /\ order[s[e].seq].op = "label"
        \/ s[e].seq \in Reached /\ order[s[e].seq].op = "def"
    BY <1>1 DEF DefsOK
  <2> QED BY <1>0, <2>1 DEF Precedes
<1>9. \A e, f \in DOMAIN t : e < f => Precedes(t[e].seq, t[f].seq)
  <2> TAKE e, f \in DOMAIN t
  <2> HAVE e < f
  <2>1. e \in DOMAIN s /\ t[e] = s[e] BY <1>2
  <2>2. CASE f \in DOMAIN s BY <1>1, <1>2, <2>1, <2>2 DEF DefsOK
  <2>3. CASE f = Len(s) + 1 BY <1>2, <1>8, <2>1, <2>3
  <2> QED BY <1>3, <2>2, <2>3
<1> QED BY <1>1, <1>4, <1>5, <1>6, <1>7, <1>9 DEF DefsOK

\* Without one.
LEMMA DefsStay ==
    ASSUME DefsOK, order' = order, m_defs' = m_defs,
           Collected \subseteq Collected', Reached \subseteq Reached',
           \A i \in Collected' \ Collected : order[i].op # "label",
           \A i \in Reached' \ Reached : order[i].op # "def"
    PROVE  DefsOK'
<1>1. \A i, j : LabelName(i)' = LabelName(i) /\ ConstName(i)' = ConstName(i)
                /\ ConstKind(i)' = ConstKind(i) /\ Precedes(i, j)' = Precedes(i, j)
    BY StreamSame DEF ConstKind, Precedes
<1> QED BY <1>1 DEF DefsOK

\* Every step keeps DefsOK.
LEMMA DefsNext == ASSUME Place, DefsOK, [Next]_vars PROVE DefsOK'
<1>0. Len(order) \in Nat /\ DOMAIN order = 1 .. Len(order) /\ m_seq \in 1 .. Len(order) + 1
    BY LenProperties DEF Place
<1>1. CASE Collect
  <2>1. PICK d : d = LabelDef(m_seq) OBVIOUS
  <2>2. /\ m_defs' = Append(m_defs, d) /\ d \in Definition /\ order' = order /\ pass = 1 /\ pass' = 1
        /\ m_seq' = m_seq + 1 /\ order[m_seq].op = "label"
    BY <1>1, <2>1, CollectFacts
  <2>3. d.seq = m_seq /\ IsDefOf(d, m_seq) BY <2>1, <2>2 DEF LabelDef, IsDefOf
  <2>4. Collected' = Collected \cup {m_seq} /\ Reached' = {}
    BY <1>0, <2>2 DEF Collected, Reached
  <2> QED BY <2>2, <2>3, <2>4, DefsGrow
<1>2. CASE PassOver
  <2>1. pass = 1 /\ pass' = 1 /\ m_seq <= Len(order) /\ Current.op # "label" /\ m_seq' = m_seq + 1
        /\ order' = order /\ m_defs' = m_defs
    BY <1>2 DEF PassOver
  <2>2. Current = order[m_seq] BY <2>1, AtCurrent
  <2>3. Collected' = Collected \cup {m_seq} /\ Reached' = Reached
    BY <1>0, <2>1 DEF Collected, Reached
  <2> QED BY <2>1, <2>2, <2>3, DefsStay
<1>3. CASE StartPass2
  <2>1. pass = 1 /\ pass' = 2 /\ m_seq > Len(order) /\ m_seq' = 1
        /\ order' = order /\ m_defs' = m_defs
    BY <1>3 DEF StartPass2
  <2>2. Collected = DOMAIN order /\ Collected' = DOMAIN order /\ Reached = {} /\ Reached' = {}
    <3>1. m_seq - 1 = Len(order) BY <1>0, <2>1
    <3>2. 1 .. 1 - 1 = {} OBVIOUS
    <3> QED BY <1>0, <2>1, <3>1, <3>2 DEF Collected, Reached
  <2> QED BY <2>1, <2>2, DefsStay
<1>4. ASSUME Pass2 PROVE Collected' = Collected /\ Reached' = Reached \cup {m_seq} /\ order' = order
  <2>1. pass = 2 /\ pass' = 2 /\ m_seq' = m_seq + 1 /\ order' = order BY <1>4, Pass2Facts
  <2> QED BY <1>0, <2>1 DEF Collected, Reached
<1>5. CASE Define
  <2>1. PICK d : d = ConstDef(m_seq, Evaluate(order[m_seq].value)) OBVIOUS
  <2>2. /\ m_defs' = Append(m_defs, d) /\ d \in Definition /\ pass = 2 /\ order[m_seq].op = "def"
    BY <1>5, <2>1, DefineFacts
  <2>3. d.seq = m_seq /\ IsDefOf(d, m_seq) BY <2>1, <2>2 DEF ConstDef, IsDefOf
  <2> QED BY <1>4, <1>5, <2>2, <2>3, DefsGrow DEF Pass2
<1>6. CASE Label \/ Use \/ Jump \/ NoDirection \/ Undef \/ Exit \/ Plain
  <2>1. Pass2 BY <1>6 DEF Pass2
  <2>2. /\ pass = 2 /\ m_seq <= Len(order) /\ m_defs' = m_defs
        /\ Current.op \in {"label", "use", "jump", "undef", "exit", "plain"}
    BY <1>6, Zenon DEF Label, Use, Jump, NoDirection, Undef, Exit, Plain, Visit
  <2>3. Current = order[m_seq] BY <2>2, AtCurrent
  <2> QED BY <1>4, <2>1, <2>2, <2>3, DefsStay
<1>7. CASE Finish
  <2>1. pass = 2 /\ pass' = 3 /\ m_seq' = m_seq /\ order' = order /\ m_defs' = m_defs
    BY <1>7 DEF Finish
  <2>2. Collected' = Collected /\ Reached' = Reached BY <2>1 DEF Collected, Reached
  <2> QED BY <2>1, <2>2, DefsStay
<1>8. CASE Analysed \/ UNCHANGED vars
  <2>1. UNCHANGED vars BY <1>8 DEF Analysed
  <2>2. Collected' = Collected /\ Reached' = Reached BY <2>1 DEF Collected, Reached, vars
  <2>3. order' = order /\ m_defs' = m_defs BY <2>1 DEF vars
  <2> QED BY <2>2, <2>3, DefsStay
<1> QED BY <1>1, <1>2, <1>3, <1>5, <1>6, <1>7, <1>8 DEF Next

-----------------------------------------------------------------------------
(* The constants in force.                                                 *)

Live == m_liveConsts = IF pass = 1 THEN {} ELSE {q \in QName : InForce(q, m_seq) # 0}

\* What def and undef are for.
LEMMA Events ==
    ASSUME Place, NEW i \in DOMAIN order
    PROVE  \A q : /\ i \in DefsOf(q) <=> order[i].op = "def" /\ q = ConstName(i)
                  /\ i \in UndefsOf(q) <=> order[i].op = "undef" /\ q = Meaning(order[i].name, i)
BY DEF DefsOf, UndefsOf

\* Every step keeps Live: a def puts its name in force, an undef takes it away.
LEMMA LiveNext == ASSUME Place, DefsOK, Live, [Next]_vars PROVE Live'
<1>0. Len(order) \in Nat /\ DOMAIN order = 1 .. Len(order) /\ m_seq \in 1 .. Len(order) + 1
    BY LenProperties DEF Place
<1>1. order' = order
    BY Zenon DEF Next, Collect, PassOver, StartPass2, Label, Use, Jump, NoDirection, Define, Undef, Exit,
           Plain, Finish, Analysed, vars
<1>2. \A q, i : InForce(q, i)' = InForce(q, i) BY <1>1, StreamSame
<1>3. ASSUME NEW live, m_liveConsts' = live,
             live = IF pass' = 1 THEN {} ELSE {q \in QName : InForce(q, m_seq') # 0}
      PROVE  Live'
  <2>1. PICK n : n = m_seq' OBVIOUS
  <2>2. \A q : InForce(q, m_seq)' = InForce(q, n)' BY <2>1 DEF InForce
  <2>3. \A q : InForce(q, m_seq)' = InForce(q, n) BY <1>2, <2>2
  <2> QED BY <1>3, <2>1, <2>3 DEF Live, QName
<1>4. CASE Collect \/ PassOver
  <2>1. pass = 1 /\ pass' = 1 /\ m_liveConsts' = m_liveConsts BY <1>4, Zenon DEF Collect, PassOver, Visit
  <2> QED BY <1>3, <2>1 DEF Live
<1>5. CASE StartPass2
  <2>1. pass = 1 /\ pass' = 2 /\ m_liveConsts' = m_liveConsts /\ m_seq' = 1 BY <1>5 DEF StartPass2
  <2>2. {q \in QName : InForce(q, 1) # 0} = {} BY InForceStep
  <2> QED BY <1>3, <2>1, <2>2 DEF Live
<1>6. ASSUME Pass2,
             m_liveConsts' = {q \in QName : (IF m_seq \in DefsOf(q) THEN m_seq
                                            ELSE IF m_seq \in UndefsOf(q) THEN 0
                                            ELSE InForce(q, m_seq)) # 0}
      PROVE  Live'
  <2>1. pass' = 2 /\ m_seq' = m_seq + 1 /\ m_seq \in DOMAIN order BY <1>0, <1>6, Pass2Facts
  <2>2. \A q : InForce(q, m_seq + 1) = IF m_seq \in DefsOf(q) THEN m_seq
                                       ELSE IF m_seq \in UndefsOf(q) THEN 0 ELSE InForce(q, m_seq)
    BY <2>1, InForceStep
  <2> QED BY <1>3, <1>6, <2>1, <2>2
<1>7. CASE Define
  <2>1. /\ m_seq \in DOMAIN order /\ order[m_seq].op = "def" /\ pass = 2 /\ m_seq # 0
        /\ m_liveConsts' = m_liveConsts \cup {ConstName(m_seq)} /\ ConstName(m_seq) \in QName
    BY <1>0, <1>7, DefineFacts, StmtFacts
  <2>2. \A q : /\ m_seq \in DefsOf(q) <=> q = ConstName(m_seq)
               /\ m_seq \notin UndefsOf(q)
    BY <2>1, Events
  <2> QED BY <1>6, <1>7, <2>1, <2>2 DEF Live, Pass2
<1>8. CASE Undef
  <2>1. /\ pass = 2 /\ m_seq <= Len(order) /\ Current.op = "undef"
        /\ m_liveConsts' = m_liveConsts \ {Qualify(Current.name)}
    BY <1>8 DEF Undef, Visit, Erased
  <2>2. m_seq \in DOMAIN order /\ Current = order[m_seq] /\ \A w : Qualify(w) = Meaning(w, m_seq)
    BY <2>1, AtCurrent
  <2>3. \A q : /\ m_seq \notin DefsOf(q)
               /\ m_seq \in UndefsOf(q) <=> q = Qualify(Current.name)
    BY <2>1, <2>2, Events
  <2> QED BY <1>6, <1>8, <2>1, <2>3 DEF Live, Pass2
<1>9. CASE Label \/ Use \/ Jump \/ NoDirection \/ Exit \/ Plain
  <2>1. /\ pass = 2 /\ m_seq <= Len(order) /\ m_liveConsts' = m_liveConsts
        /\ Current.op \in {"label", "use", "jump", "exit", "plain"}
    BY <1>9, Zenon DEF Label, Use, Jump, NoDirection, Exit, Plain, Visit
  <2>2. m_seq \in DOMAIN order /\ Current = order[m_seq] BY <2>1, AtCurrent
  <2>3. \A q : m_seq \notin DefsOf(q) /\ m_seq \notin UndefsOf(q) BY <2>1, <2>2, Events
  <2> QED BY <1>6, <1>9, <2>1, <2>3 DEF Live, Pass2
<1>10. CASE Finish
  <2>1. pass = 2 /\ pass' = 3 /\ m_seq' = m_seq /\ m_liveConsts' = m_liveConsts BY <1>10 DEF Finish
  <2> QED BY <1>3, <2>1 DEF Live
<1>11. CASE Analysed \/ UNCHANGED vars
  <2>1. pass' = pass /\ m_seq' = m_seq /\ m_liveConsts' = m_liveConsts BY <1>11 DEF Analysed, vars
  <2> QED BY <1>3, <2>1 DEF Live
<1> QED BY <1>4, <1>5, <1>7, <1>8, <1>9, <1>10, <1>11 DEF Next

\* A live name's last definition is the def in force.
LEMMA LiveMeans ==
    ASSUME Place, DefsOK, Live, pass = 2, NEW q \in QName
    PROVE  /\ q \in m_liveConsts <=> InForce(q, m_seq) # 0
           /\ q \in m_liveConsts =>
                 /\ IndexOf(q) # 0 /\ m_defs[IndexOf(q)].kind \in {"Constant", "LocalConstant"}
                 /\ m_defs[IndexOf(q)].seq = InForce(q, m_seq)
<1>1. q \in m_liveConsts <=> InForce(q, m_seq) # 0 BY DEF Live
<1>2. ASSUME q \in m_liveConsts
      PROVE  /\ IndexOf(q) # 0 /\ m_defs[IndexOf(q)].kind \in {"Constant", "LocalConstant"}
             /\ m_defs[IndexOf(q)].seq = InForce(q, m_seq)
  <2>1. Reached = 1 .. m_seq - 1 /\ m_seq \in 1 .. Len(order) + 1 BY DEF Reached, Place
  <2>2. PICK j : j = InForce(q, m_seq) OBVIOUS
  <2>3. /\ j \in DefsOf(q) \cap Reached /\ j \in Nat
        /\ \A k \in DefsOf(q) \cap Reached : k <= j
    <3>1. m_seq \in Nat /\ Len(order) \in Nat BY <2>1, LenProperties DEF Place
    <3>2. j \in 0 .. m_seq - 1 /\ j # 0 BY <1>1, <1>2, <2>1, <2>2, InForceStep
    <3>3. j \in DefsOf(q) /\ \A k \in DefsOf(q) \cap 1 .. m_seq - 1 : k <= j
      BY <1>1, <1>2, <2>1, <2>2, InForceStep
    <3> QED BY <2>1, <3>1, <3>2, <3>3
  <2>4. /\ IndexOf(q) # 0 /\ m_defs[IndexOf(q)].kind \in {"Constant", "LocalConstant"}
        /\ m_defs[IndexOf(q)].seq \in DefsOf(q) \cap Reached /\ j <= m_defs[IndexOf(q)].seq
    <3>1. pass # 1 OBVIOUS
    <3> QED BY <2>3, <3>1, IndexMeans
  <2>5. m_defs[IndexOf(q)].seq <= j /\ m_defs[IndexOf(q)].seq \in Nat BY <2>1, <2>3, <2>4
  <2> QED BY <2>2, <2>3, <2>4, <2>5
<1> QED BY <1>1, <1>2

\* A reference to a name that is not both a label and a constant.
LEMMA TargetMeans ==
    ASSUME Place, DefsOK, Live, pass = 2, m_seq <= Len(order), NEW w \in Written
    PROVE  LET q == Qualify(w)
           IN /\ Labels(q) = {} \/ DefsOf(q) = {} => RefersTo(Target(w), Referent(q, m_seq))
              /\ Target(w) = 0 <=> ~IsKnownSymbol(q)
              /\ Target(w) \in {0} \cup DOMAIN m_defs
<1>1. PICK q : q = Qualify(w) OBVIOUS
<1>2. q \in QName BY <1>1, AtCurrent, StmtFacts
<1>3. /\ Target(w) = IF IsKnownSymbol(q) THEN IndexOf(q) ELSE 0
      /\ IsKnownSymbol(q) <=> /\ IndexOf(q) # 0
                              /\ m_defs[IndexOf(q)].kind \in {"Constant", "LocalConstant"}
                                     => q \in m_liveConsts
    BY <1>1 DEF Target, IsKnownSymbol
<1>4. ASSUME Labels(q) = {} \/ DefsOf(q) = {} PROVE RefersTo(Target(w), Referent(q, m_seq))
  <2>0. pass # 1 OBVIOUS
  <2>1. CASE q \in m_liveConsts
    <3>1. /\ IndexOf(q) # 0 /\ m_defs[IndexOf(q)].seq = InForce(q, m_seq) /\ InForce(q, m_seq) # 0
      BY <1>2, <2>1, LiveMeans
    <3> QED BY <1>3, <2>1, <3>1 DEF RefersTo, Referent
  <2>2. CASE q \notin m_liveConsts
    <3>1. Referent(q, m_seq) = Max({0} \cup Labels(q)) BY <1>2, <2>2, LiveMeans DEF Referent
    <3>2. CASE DefsOf(q) \cap Reached = {}
      <4>1. /\ RefersTo(IndexOf(q), Max({0} \cup Labels(q)))
            /\ IndexOf(q) # 0 => m_defs[IndexOf(q)].kind \in {"GlobalLabel", "LocalLabel"}
        BY <2>0, <3>2, IndexMeans
      <4>2. Target(w) = IndexOf(q) BY <1>3, <4>1
      <4> QED BY <3>1, <4>1, <4>2
    <3>3. CASE DefsOf(q) \cap Reached # {}
      <4>1. m_defs[IndexOf(q)].kind \in {"Constant", "LocalConstant"}
        <5>1. PICK j : j \in DefsOf(q) \cap Reached BY <3>3
        <5> QED BY <2>0, <5>1, IndexMeans
      <4>2. Target(w) = 0 BY <1>3, <2>2, <4>1
      <4>3. Labels(q) = {} BY <1>4, <3>3
      <4>4. Max({0} \cup {}) = 0
        <5>1. {} \in SUBSET Nat /\ 0 \in Nat OBVIOUS
        <5> QED BY <5>1, MaxOrZero
      <4> QED BY <3>1, <4>2, <4>3, <4>4 DEF RefersTo
    <3> QED BY <3>2, <3>3
  <2> QED BY <2>1, <2>2
<1>5. Target(w) \in {0} \cup DOMAIN m_defs BY <1>3, IndexFacts
<1> QED BY <1>1, <1>3, <1>4, <1>5

\* "Constants (define-before-use)" (SemanticAnalyzer.h): the live constants of
\* pass 2 are those in force where it stands, in the right scopes.
LEMMA LiveInForce == Live => ConstantsInForce
BY DEF Live, ConstantsInForce

-----------------------------------------------------------------------------
(* The references and what is reported of them.                            *)

\* A reference that has been resolved is the one that its statement means, and
\* an error says so when it means nothing.
Resolved(r) ==
    /\ r.seq \in Reached /\ r.target \in {0} \cup DOMAIN m_defs
    /\ order[r.seq].op = "jump" =>
          /\ RefersTo(r.target, Nearest(r.seq))
          /\ Nearest(r.seq) = 0 <=> [at |-> r.seq, what |-> "noLabel"] \in diags
    /\ order[r.seq].op # "jump" =>
          /\ Labels(r.name) = {} \/ DefsOf(r.name) = {} => RefersTo(r.target, Referent(r.name, r.seq))
          /\ r.target = 0 <=> [at |-> r.seq, what |-> "unknown"] \in diags
RefsOK ==
    /\ \A r \in Range(m_refs) : Resolved(r)
    /\ \A d \in diags : d.what \in {"unknown", "noLabel"} => d.at \in Reached

\* The stream is read, never written.
LEMMA OrderSame == ASSUME [Next]_vars PROVE order' = order
BY Zenon DEF Next, Collect, PassOver, StartPass2, Label, Use, Jump, NoDirection, Define, Undef, Exit,
       Plain, Finish, Analysed, vars

\* The symbol table only grows.
LEMMA DefsExtend ==
    ASSUME Place, DefsOK, [Next]_vars
    PROVE  \A e \in DOMAIN m_defs : e \in DOMAIN m_defs' /\ m_defs'[e] = m_defs[e]
<1>0. m_seq \in Nat BY LenProperties DEF Place
<1>1. CASE Collect
  <2>1. PICK d : d = LabelDef(m_seq) OBVIOUS
  <2>2. m_defs' = Append(m_defs, d) /\ d \in Definition BY <1>1, <2>1, CollectFacts
  <2>3. d.seq = m_seq BY <2>1 DEF LabelDef
  <2> QED BY <2>2, <2>3, DefAppended
<1>2. CASE Define
  <2>1. PICK d : d = ConstDef(m_seq, Evaluate(order[m_seq].value)) OBVIOUS
  <2>2. m_defs' = Append(m_defs, d) /\ d \in Definition BY <1>2, <2>1, DefineFacts
  <2>3. d.seq = m_seq BY <2>1 DEF ConstDef
  <2> QED BY <2>2, <2>3, DefAppended
<1>3. CASE ~Collect /\ ~Define
  <2>1. m_defs' = m_defs
    BY <1>3, Zenon DEF Next, PassOver, StartPass2, Label, Use, Jump, NoDirection, Undef, Exit, Plain,
           Finish, Analysed, vars
  <2> QED BY <2>1
<1> QED BY <1>1, <1>2, <1>3

\* The statements behind the walk stay behind it.
LEMMA ReachedGrows ==
    ASSUME Place, [Next]_vars
    PROVE  /\ Reached \subseteq Reached'
           /\ Pass2 => Reached' = Reached \cup {m_seq} /\ m_seq \notin Reached
           /\ ~Pass2 => Reached' = Reached
<1>0. Len(order) \in Nat /\ m_seq \in 1 .. Len(order) + 1 BY LenProperties DEF Place
<1>1. CASE Pass2
  <2>1. pass = 2 /\ pass' = 2 /\ m_seq' = m_seq + 1 BY <1>1, Pass2Facts
  <2> QED BY <1>0, <1>1, <2>1 DEF Reached
<1>2. CASE Collect \/ PassOver
  <2>1. pass = 1 /\ pass' = 1 BY <1>2, Zenon DEF Collect, PassOver, Visit
  <2>2. ~Pass2 BY <2>1, Pass2Facts
  <2> QED BY <2>1, <2>2 DEF Reached
<1>3. CASE StartPass2
  <2>1. pass = 1 /\ pass' = 2 /\ m_seq' = 1 BY <1>3 DEF StartPass2
  <2>2. 1 .. 1 - 1 = {} OBVIOUS
  <2>3. ~Pass2 BY <2>1, Pass2Facts
  <2> QED BY <2>1, <2>2, <2>3 DEF Reached
<1>4. CASE Finish
  <2>1. pass = 2 /\ pass' = 3 /\ m_seq' = m_seq BY <1>4 DEF Finish
  <2>2. ~Pass2 BY <2>1, Pass2Facts
  <2> QED BY <2>1, <2>2 DEF Reached
<1>5. CASE Analysed \/ UNCHANGED vars
  <2>1. pass' = pass /\ m_seq' = m_seq BY <1>5 DEF Analysed, vars
  <2>2. ~Pass2 BY <1>0, <2>1, Pass2Facts
  <2> QED BY <2>1, <2>2 DEF Reached
<1> QED BY <1>1, <1>2, <1>3, <1>4, <1>5 DEF Next, Pass2

\* What a step reports, of names, of labels and of entry points.
OtherReports ==
    \E D : /\ diags' = diags \cup D
           /\ \A d \in D : d.what \in {"duplicate", "orphan", "noDirection", "notDefined"}
\* The reports about names that a step adds.
LEMMA DiagAdded ==
    ASSUME [Next]_vars
    PROVE  \/ Use /\ diags' = diags \cup Unknown(Current.name)
           \/ Define /\ \E D : /\ diags' = diags \cup (IF Current.value.of = NoName THEN {}
                                                       ELSE Unknown(Current.value.of)) \cup D
                               /\ \A d \in D : d.what \in {"isLabel", "redefined"}
           \/ Jump /\ diags' = diags \cup
                       (IF FindReusable(Current.name, m_seq, Current.dir = "-") = 0
                        THEN Emit("noLabel") ELSE {})
           \/ Undef /\ Qualify(Current.name) \in m_liveConsts /\ diags' = diags
           \/ Finish /\ diags' = diags \cup {[at |-> e.at, what |-> "noExit"] :
                                                 e \in {x \in Range(entryPoints) : ~x.hasExit}}
           \/ m_refs' = m_refs /\ OtherReports
<1>1. CASE Use BY <1>1, Zenon DEF Use
<1>2. CASE Define
  <2>1. PICK D : /\ diags' = diags \cup (IF Current.value.of = NoName THEN {}
                                         ELSE Unknown(Current.value.of)) \cup D
                 /\ D \in {Emit("isLabel"), Emit("redefined"), {}}
    BY <1>2 DEF Define
  <2>2. \A d \in D : d.what \in {"isLabel", "redefined"} BY <2>1 DEF Emit
  <2> QED BY <1>2, <2>1, <2>2
<1>3. CASE Jump BY <1>3, Zenon DEF Jump
<1>4. CASE Undef
  <2>1. CASE Qualify(Current.name) \in m_liveConsts BY <1>4, <2>1 DEF Undef
  <2>2. CASE Qualify(Current.name) \notin m_liveConsts
    <3>1. diags' = diags \cup Emit("notDefined") /\ m_refs' = m_refs BY <1>4, <2>2 DEF Undef
    <3>2. PICK D : diags' = diags \cup D /\ D = Emit("notDefined") BY <3>1
    <3>3. \A d \in D : d.what \in {"duplicate", "orphan", "noDirection", "notDefined"}
      BY <3>2 DEF Emit
    <3>4. OtherReports BY <3>2, <3>3, Zenon DEF OtherReports
    <3> QED BY <3>1, <3>4
  <2> QED BY <2>1, <2>2
<1>5. CASE Finish BY <1>5 DEF Finish
<1>6. CASE Collect
  <2>1. m_refs' = m_refs BY <1>6 DEF Collect
  <2>3. PICK C, D : diags' = diags \cup C \cup D /\ C \in {Emit("duplicate"), {}} /\ D \in {Emit("orphan"), {}}
    BY <1>6 DEF Collect
  <2>4. \A d \in C \cup D : d.what \in {"duplicate", "orphan", "noDirection", "notDefined"}
    BY <2>3 DEF Emit
  <2>5. diags' = diags \cup (C \cup D) BY <2>3
  <2>6. OtherReports BY <2>4, <2>5 DEF OtherReports
  <2> QED BY <2>1, <2>6
<1>7. CASE NoDirection
  <2>1. m_refs' = m_refs /\ diags' = diags \cup Emit("noDirection")
    BY <1>7, Zenon DEF NoDirection
  <2>2. PICK D : diags' = diags \cup D /\ D = Emit("noDirection") BY <2>1
  <2>3. \A d \in D : d.what \in {"duplicate", "orphan", "noDirection", "notDefined"}
    BY <2>2 DEF Emit
  <2>4. OtherReports BY <2>2, <2>3, Zenon DEF OtherReports
  <2> QED BY <2>1, <2>4
<1>8. CASE PassOver \/ StartPass2 \/ Label \/ Exit \/ Plain \/ Analysed \/ UNCHANGED vars
  <2>1. m_refs' = m_refs /\ diags' = diags
    BY <1>8, Zenon DEF PassOver, StartPass2, Label, Exit, Plain, Analysed, vars
  <2>2. PICK D : diags' = diags \cup D /\ D = {} BY <2>1
  <2>3. \A d \in D : d.what \in {"duplicate", "orphan", "noDirection", "notDefined"} BY <2>2
  <2>4. OtherReports BY <2>2, <2>3, Zenon DEF OtherReports
  <2> QED BY <2>1, <2>4
<1> QED BY <1>1, <1>2, <1>3, <1>4, <1>5, <1>6, <1>7, <1>8 DEF Next

\* A reference once resolved stays so.
LEMMA ResolvedLater ==
    ASSUME order' = order, NEW r, r.seq \in Reached', r.target \in {0} \cup DOMAIN m_defs,
           \A e \in DOMAIN m_defs : e \in DOMAIN m_defs' /\ m_defs'[e] = m_defs[e],
           order[r.seq].op = "jump" =>
               /\ RefersTo(r.target, Nearest(r.seq))
               /\ Nearest(r.seq) = 0 <=> [at |-> r.seq, what |-> "noLabel"] \in diags',
           order[r.seq].op # "jump" =>
               /\ Labels(r.name) = {} \/ DefsOf(r.name) = {} =>
                     RefersTo(r.target, Referent(r.name, r.seq))
               /\ r.target = 0 <=> [at |-> r.seq, what |-> "unknown"] \in diags'
    PROVE  Resolved(r)'
<1>1. \A i : RefersTo(r.target, i)' <=> RefersTo(r.target, i) BY DEF RefersTo
<1>2. PICK a, b : a = Nearest(r.seq) /\ b = Referent(r.name, r.seq) OBVIOUS
<1>3. Nearest(r.seq)' = a /\ Referent(r.name, r.seq)' = b /\ Labels(r.name)' = Labels(r.name)
      /\ DefsOf(r.name)' = DefsOf(r.name)
    BY <1>2, StreamSame
<1>4. RefersTo(r.target, Nearest(r.seq))' <=> RefersTo(r.target, Nearest(r.seq))
    BY <1>1, <1>2, <1>3 DEF RefersTo
<1>5. RefersTo(r.target, Referent(r.name, r.seq))' <=> RefersTo(r.target, Referent(r.name, r.seq))
    BY <1>1, <1>2, <1>3 DEF RefersTo
<1> QED BY <1>2, <1>3, <1>4, <1>5 DEF Resolved

\* The references of a step: those there were, and perhaps one more.
LEMMA RefsGrow ==
    ASSUME Place, DefsOK, RefsOK, [Next]_vars, NEW D, diags' = diags \cup D,
           \A d \in D : d.what \in {"unknown", "noLabel"} => d.at = m_seq /\ Pass2,
           m_refs' = m_refs \/ \E r \in Mention : m_refs' = Append(m_refs, r) /\ Resolved(r)'
    PROVE  RefsOK'
<1>1. \A r \in Range(m_refs) : Resolved(r)'
  <2> TAKE r \in Range(m_refs)
  <2>1. Resolved(r) BY DEF RefsOK
  <2>2. r.seq \in Reached /\ r.seq \in Reached' BY <2>1, ReachedGrows DEF Resolved
  <2>3. \A what \in {"unknown", "noLabel"} :
            [at |-> r.seq, what |-> what] \in diags' <=> [at |-> r.seq, what |-> what] \in diags
    <3> TAKE what \in {"unknown", "noLabel"}
    <3>1. PICK d : d = [at |-> r.seq, what |-> what] OBVIOUS
    <3>2. d \notin D
      <4>1. d.at = r.seq /\ d.what \in {"unknown", "noLabel"} BY <3>1
      <4>2. ~(r.seq = m_seq /\ Pass2) BY <2>2, ReachedGrows
      <4> QED BY <4>1, <4>2
    <3> QED BY <3>1, <3>2
  <2>4. PICK u, n : u = [at |-> r.seq, what |-> "unknown"] /\ n = [at |-> r.seq, what |-> "noLabel"]
    OBVIOUS
  <2>5. (u \in diags' <=> u \in diags) /\ (n \in diags' <=> n \in diags) BY <2>3, <2>4
  <2>6. order' = order /\ \A e \in DOMAIN m_defs : e \in DOMAIN m_defs' /\ m_defs'[e] = m_defs[e]
    BY OrderSame, DefsExtend
  <2>7. /\ r.target \in {0} \cup DOMAIN m_defs
        /\ order[r.seq].op = "jump" =>
              /\ RefersTo(r.target, Nearest(r.seq))
              /\ Nearest(r.seq) = 0 <=> n \in diags
        /\ order[r.seq].op # "jump" =>
              /\ Labels(r.name) = {} \/ DefsOf(r.name) = {} =>
                    RefersTo(r.target, Referent(r.name, r.seq))
              /\ r.target = 0 <=> u \in diags
    BY <2>1, <2>4 DEF Resolved
  <2> QED BY <2>2, <2>4, <2>5, <2>6, <2>7, ResolvedLater
<1>2. \A r \in Range(m_refs') : Resolved(r)'
  <2>1. CASE m_refs' = m_refs BY <1>1, <2>1
  <2>2. CASE \E r \in Mention : m_refs' = Append(m_refs, r) /\ Resolved(r)'
    <3>1. PICK r \in Mention : m_refs' = Append(m_refs, r) /\ Resolved(r)' BY <2>2
    <3>2. PICK s, t : s = m_refs /\ t = m_refs' OBVIOUS
    <3>3. s \in Seq(Mention) /\ t = Append(s, r) BY <3>1, <3>2 DEF Place
    <3>4. Range(t) = Range(s) \cup {r} BY <3>3, Appended DEF Range
    <3> QED BY <1>1, <3>1, <3>2, <3>4
  <2> QED BY <2>1, <2>2
<1>3. \A d \in diags' : d.what \in {"unknown", "noLabel"} => d.at \in Reached'
  <2> TAKE d \in diags'
  <2> HAVE d.what \in {"unknown", "noLabel"}
  <2>1. CASE d \in diags BY <2>1, ReachedGrows DEF RefsOK
  <2>2. CASE d \in D BY <2>2, ReachedGrows
  <2> QED BY <2>1, <2>2
<1>4. Range(m_refs)' = Range(m_refs') BY DEF Range
<1> QED BY <1>2, <1>3, <1>4 DEF RefsOK

\* A name's reference is what the name means, or an error says it means nothing.
LEMMA NameResolved ==
    ASSUME Place, DefsOK, Live, RefsOK, [Next]_vars, Pass2, NEW w \in Written,
           order[m_seq].op # "jump", NEW D, \A d \in D : d.what \notin {"unknown", "noLabel"},
           diags' = diags \cup (Unknown(w) \cup D), NEW r, r = Reference(w)
    PROVE  Resolved(r)'
<1>1. pass = 2 /\ m_seq <= Len(order) BY Pass2Facts
<1>2. PICK q : q = Qualify(w) OBVIOUS
<1>3. r.seq = m_seq /\ r.target = Target(w) /\ r.name = q BY <1>2 DEF Reference
<1>4. /\ Labels(q) = {} \/ DefsOf(q) = {} => RefersTo(r.target, Referent(q, m_seq))
      /\ r.target = 0 <=> ~IsKnownSymbol(q)
      /\ r.target \in {0} \cup DOMAIN m_defs
    BY <1>1, <1>2, <1>3, TargetMeans
<1>5. r.target = 0 <=> [at |-> m_seq, what |-> "unknown"] \in diags'
  <2>1. PICK d : d = [at |-> m_seq, what |-> "unknown"] OBVIOUS
  <2>2. d.at = m_seq /\ d.what = "unknown" BY <2>1
  <2>3. d \notin diags BY <2>2, ReachedGrows DEF RefsOK
  <2>4. d \notin D BY <2>2
  <2>5. d \in Unknown(w) <=> ~IsKnownSymbol(q) BY <1>2, <2>1 DEF Unknown, Emit
  <2> QED BY <1>4, <2>1, <2>3, <2>4, <2>5
<1>6. r.seq \in Reached' BY <1>3, ReachedGrows
<1>7. order' = order /\ \A e \in DOMAIN m_defs : e \in DOMAIN m_defs' /\ m_defs'[e] = m_defs[e]
  BY OrderSame, DefsExtend
<1> QED BY <1>3, <1>4, <1>5, <1>6, <1>7, ResolvedLater

\* Every step keeps RefsOK: the reference of the statement walked is added, earlier ones stay right.
LEMMA RefsNext == ASSUME Place, DefsOK, Live, RefsOK, [Next]_vars PROVE RefsOK'
<1>1. ASSUME Pass2, NEW w \in Written, order[m_seq].op # "jump", NEW D,
             \A d \in D : d.what \notin {"unknown", "noLabel"},
             diags' = diags \cup (Unknown(w) \cup D), m_refs' = Append(m_refs, Reference(w))
      PROVE  RefsOK'
  <2>1. PICK r : r = Reference(w) OBVIOUS
  <2>2. pass = 2 /\ m_seq <= Len(order) BY <1>1, Pass2Facts
  <2>3. r \in Mention BY <2>1, <2>2, ReferenceType
  <2>4. Resolved(r)' BY <1>1, <2>1, NameResolved
  <2>5. PICK C : C = Unknown(w) \cup D OBVIOUS
  <2>6. \A d \in C : d.what \in {"unknown", "noLabel"} => d.at = m_seq /\ Pass2
    BY <1>1, <2>5 DEF Unknown, Emit
  <2>7. diags' = diags \cup C /\ m_refs' = Append(m_refs, r) BY <1>1, <2>1, <2>5
  <2> QED BY <2>3, <2>4, <2>6, <2>7, RefsGrow
<1>2. ASSUME NEW D, \A d \in D : d.what \notin {"unknown", "noLabel"}, diags' = diags \cup D,
             m_refs' = m_refs
      PROVE  RefsOK'
  BY <1>2, RefsGrow
<1>3. CASE Use
  <2>1. Pass2 /\ Current.op = "use" /\ pass = 2 /\ m_seq <= Len(order)
        /\ m_refs' = Append(m_refs, Reference(Current.name)) /\ diags' = diags \cup Unknown(Current.name)
    BY <1>3, Zenon DEF Use, Visit, Pass2
  <2>2. PICK w, D : w = Current.name /\ D = {} OBVIOUS
  <2>3. w \in Written /\ order[m_seq].op # "jump" BY <2>1, <2>2, AtCurrent, StmtFacts
  <2>4. diags' = diags \cup (Unknown(w) \cup D) BY <2>1, <2>2
  <2>5. \A d \in D : d.what \notin {"unknown", "noLabel"} BY <2>2
  <2>6. m_refs' = Append(m_refs, Reference(w)) BY <2>1, <2>2
  <2> QED BY <1>1, <2>1, <2>3, <2>4, <2>5, <2>6
<1>4. CASE Define
  <2>1. Pass2 /\ Current.op = "def" /\ pass = 2 /\ m_seq <= Len(order)
        /\ m_refs' = (IF Current.value.of = NoName THEN m_refs
                      ELSE Append(m_refs, Reference(Current.value.of)))
    BY <1>4 DEF Define, Visit, Pass2
  <2>2. PICK w, D : /\ w = Current.value.of
                    /\ diags' = diags \cup (IF w = NoName THEN {} ELSE Unknown(w)) \cup D
                    /\ D \in {Emit("isLabel"), Emit("redefined"), {}}
    BY <1>4 DEF Define
  <2>3. \A d \in D : d.what \notin {"unknown", "noLabel"} BY <2>2 DEF Emit
  <2>4. m_seq \in DOMAIN order /\ order[m_seq].op = "def" /\ Current = order[m_seq]
    BY <2>1, AtCurrent
  <2>5. CASE w = NoName
    <3>1. diags' = diags \cup D /\ m_refs' = m_refs BY <2>1, <2>2, <2>5
    <3> QED BY <1>2, <2>3, <3>1
  <2>6. CASE w # NoName
    <3>1. Current.value \in Value BY <2>4, StmtFacts
    <3>2. w \in Written BY <2>2, <2>6, <3>1 DEF Value
    <3>3. diags' = diags \cup (Unknown(w) \cup D) /\ m_refs' = Append(m_refs, Reference(w))
      BY <2>1, <2>2, <2>6
    <3> QED BY <1>1, <2>1, <2>3, <2>4, <3>2, <3>3
  <2> QED BY <2>5, <2>6
<1>5. CASE Undef
  <2>1. Pass2 /\ Current.op = "undef" /\ pass = 2 /\ m_seq <= Len(order)
    BY <1>5, Zenon DEF Undef, Visit, Pass2
  <2>2. PICK w, q : w = Current.name /\ q = Qualify(w) OBVIOUS
  <2>3. w \in Written /\ order[m_seq].op # "jump" /\ q \in QName
    BY <2>1, <2>2, AtCurrent, StmtFacts
  <2>4. CASE q \in m_liveConsts
    <3>1. m_refs' = Append(m_refs, Reference(w)) /\ diags' = diags BY <1>5, <2>2, <2>4 DEF Undef
    <3>2. Unknown(w) = {} BY <2>1, <2>2, <2>3, <2>4, LiveMeans DEF Unknown, IsKnownSymbol
    <3>3. PICK D : D = {} OBVIOUS
    <3>4. diags' = diags \cup (Unknown(w) \cup D) BY <3>1, <3>2, <3>3
    <3>5. \A d \in D : d.what \notin {"unknown", "noLabel"} BY <3>3
    <3> QED BY <1>1, <2>1, <2>3, <3>1, <3>4, <3>5
  <2>5. CASE q \notin m_liveConsts
    <3>1. m_refs' = m_refs /\ diags' = diags \cup Emit("notDefined") BY <1>5, <2>2, <2>5 DEF Undef
    <3>2. PICK D : D = Emit("notDefined") OBVIOUS
    <3>3. \A d \in D : d.what \notin {"unknown", "noLabel"} BY <3>2 DEF Emit
    <3>4. diags' = diags \cup D BY <3>1, <3>2
    <3> QED BY <1>2, <3>1, <3>3, <3>4
  <2> QED BY <2>4, <2>5
<1>6. CASE Jump
  <2>1. Pass2 /\ Current.op = "jump" /\ pass = 2 /\ m_seq <= Len(order)
        /\ m_refs' = Append(m_refs, [name |-> Current.name, seq |-> m_seq,
                                     target |-> FindReusable(Current.name, m_seq, Current.dir = "-")])
        /\ diags' = diags \cup (IF FindReusable(Current.name, m_seq, Current.dir = "-") = 0
                                THEN Emit("noLabel") ELSE {})
    BY <1>6, Zenon DEF Jump, Visit, Pass2
  <2>2. m_seq \in DOMAIN order /\ Current = order[m_seq] /\ m_seq \in Nat
    BY <2>1, AtCurrent, StmtFacts
  <2>3. PICK t, D : /\ t = FindReusable(order[m_seq].name, m_seq, order[m_seq].dir = "-")
                    /\ D = IF t = 0 THEN Emit("noLabel") ELSE {}
    OBVIOUS
  <2>4. t \in {0} \cup DOMAIN m_defs /\ RefersTo(t, Nearest(m_seq)) /\ (t = 0 <=> Nearest(m_seq) = 0)
    BY <2>1, <2>2, <2>3, FoundNearest
  <2>5. PICK r : r = [name |-> Current.name, seq |-> m_seq, target |-> t] OBVIOUS
  <2>6. m_refs' = Append(m_refs, r) /\ diags' = diags \cup D BY <2>1, <2>2, <2>3, <2>5
  <2>7. r \in Mention
    <3>1. DOMAIN m_defs = 1 .. Len(m_defs) BY LenProperties DEF Place
    <3>2. Current.name \in {<<w>> : w \in Word} BY <2>1, <2>2, StmtFacts
    <3>3. Current.name \in QName BY <3>2 DEF QName
    <3>4. t \in Nat BY <2>4, <3>1
    <3> QED BY <2>2, <2>5, <3>3, <3>4 DEF Mention
  <2>8. Nearest(m_seq) = 0 <=> [at |-> m_seq, what |-> "noLabel"] \in diags'
    <3>1. PICK d : d = [at |-> m_seq, what |-> "noLabel"] OBVIOUS
    <3>2. d.at = m_seq /\ d.what = "noLabel" BY <3>1
    <3>3. d \notin diags BY <2>1, <3>2, ReachedGrows DEF RefsOK
    <3>4. d \in D <=> t = 0 BY <2>3, <3>1 DEF Emit
    <3> QED BY <2>4, <2>6, <3>1, <3>3, <3>4
  <2>9. Resolved(r)'
    <3>1. r.seq = m_seq /\ r.target = t /\ r.seq \in Reached' /\ order[m_seq].op = "jump"
      BY <2>1, <2>2, <2>5, ReachedGrows
    <3>2. order' = order /\ \A e \in DOMAIN m_defs : e \in DOMAIN m_defs' /\ m_defs'[e] = m_defs[e]
      BY OrderSame, DefsExtend
    <3> QED BY <2>4, <2>8, <3>1, <3>2, ResolvedLater
  <2>10. \A d \in D : d.what \in {"unknown", "noLabel"} => d.at = m_seq /\ Pass2
    BY <2>1, <2>3 DEF Emit
  <2> QED BY <2>6, <2>7, <2>9, <2>10, RefsGrow
<1>7. CASE Finish
  <2>1. m_refs' = m_refs /\ diags' = diags \cup {[at |-> e.at, what |-> "noExit"] :
                                                     e \in {x \in Range(entryPoints) : ~x.hasExit}}
    BY <1>7 DEF Finish
  <2>2. PICK D : D = {[at |-> e.at, what |-> "noExit"] : e \in {x \in Range(entryPoints) : ~x.hasExit}}
    OBVIOUS
  <2>3. \A d \in D : d.what \notin {"unknown", "noLabel"} BY <2>2
  <2> QED BY <1>2, <2>1, <2>2, <2>3
<1>8. CASE ~Use /\ ~Define /\ ~Undef /\ ~Jump /\ ~Finish
  <2>1. m_refs' = m_refs /\ OtherReports BY <1>8, DiagAdded
  <2>2. PICK D : /\ diags' = diags \cup D
                 /\ \A d \in D : d.what \in {"duplicate", "orphan", "noDirection", "notDefined"}
    BY <2>1, Zenon DEF OtherReports
  <2>3. \A d \in D : d.what \notin {"unknown", "noLabel"} BY <2>2
  <2> QED BY <1>2, <2>1, <2>2, <2>3
<1> QED BY <1>3, <1>4, <1>5, <1>6, <1>7, <1>8

-----------------------------------------------------------------------------
(* The entry points.                                                       *)

\* The entry points that have been met, each with the exit of its own stretch;
\* the current one is the one whose stretch goes on.
EntryLabel(i) == GlobalAt(i) /\ order[i].name \in Entry
NoGlobal(i, n) == \A k \in i + 1 .. n - 1 : ~GlobalAt(k)
ExitBefore(i, n) == \E j \in i + 1 .. n - 1 : order[j].op = "exit" /\ NoGlobal(i, j)
EntriesOK ==
    /\ \A e \in DOMAIN entryPoints :
          /\ entryPoints[e].at \in Reached /\ EntryLabel(entryPoints[e].at)
          /\ entryPoints[e].hasExit <=> ExitBefore(entryPoints[e].at, m_seq)
          /\ NoGlobal(entryPoints[e].at, m_seq) <=> e = currentEntry
    /\ \A i \in Reached : EntryLabel(i) => \E e \in DOMAIN entryPoints : entryPoints[e].at = i
    /\ \A i \in DOMAIN order :
          [at |-> i, what |-> "noExit"] \in diags <=>
              pass = 3 /\ \E e \in Range(entryPoints) : ~e.hasExit /\ e.at = i

\* The stretch of an entry point grows by a statement.
LEMMA StretchStep ==
    ASSUME NEW i \in Nat, NEW n \in Nat
    PROVE  /\ i < n => /\ NoGlobal(i, n + 1) <=> NoGlobal(i, n) /\ ~GlobalAt(n)
                       /\ ExitBefore(i, n + 1) <=>
                             ExitBefore(i, n) \/ (order[n].op = "exit" /\ NoGlobal(i, n))
           /\ NoGlobal(n, n + 1) /\ ~ExitBefore(n, n + 1)
<1>1. ASSUME i < n PROVE i + 1 .. (n + 1) - 1 = (i + 1 .. n - 1) \cup {n}
  BY <1>1
<1>2. n + 1 .. (n + 1) - 1 = {}
  OBVIOUS
<1>3. NoGlobal(n, n + 1) /\ ~ExitBefore(n, n + 1)
  BY <1>2 DEF NoGlobal, ExitBefore
<1>4. ASSUME i < n
      PROVE  /\ NoGlobal(i, n + 1) <=> NoGlobal(i, n) /\ ~GlobalAt(n)
             /\ ExitBefore(i, n + 1) <=>
                   ExitBefore(i, n) \/ (order[n].op = "exit" /\ NoGlobal(i, n))
  <2>1. PICK S, T : S = i + 1 .. n - 1 /\ T = i + 1 .. (n + 1) - 1 OBVIOUS
  <2>2. T = S \cup {n} BY <1>1, <1>4, <2>1
  <2>3. NoGlobal(i, n + 1) <=> NoGlobal(i, n) /\ ~GlobalAt(n)
    BY <2>1, <2>2 DEF NoGlobal
  <2>4. ExitBefore(i, n + 1) <=>
            ExitBefore(i, n) \/ (order[n].op = "exit" /\ NoGlobal(i, n))
    <3>1. ExitBefore(i, n + 1) <=> \E j \in T : order[j].op = "exit" /\ NoGlobal(i, j)
      BY <2>1 DEF ExitBefore
    <3>2. ExitBefore(i, n) <=> \E j \in S : order[j].op = "exit" /\ NoGlobal(i, j)
      BY <2>1 DEF ExitBefore
    <3> QED BY <2>2, <3>1, <3>2
  <2> QED BY <2>3, <2>4
<1> QED BY <1>3, <1>4

\* EntriesOK survives a step that leaves the entry points as they should be one statement later.
LEMMA EntriesLater ==
    ASSUME [Next]_vars, NEW es, NEW c, NEW n, entryPoints' = es, currentEntry' = c, m_seq' = n,
           \A e \in DOMAIN es :
               /\ es[e].at \in Reached' /\ EntryLabel(es[e].at)
               /\ es[e].hasExit <=> ExitBefore(es[e].at, n)
               /\ NoGlobal(es[e].at, n) <=> e = c,
           \A i \in Reached' : EntryLabel(i) => \E e \in DOMAIN es : es[e].at = i,
           \A i \in DOMAIN order :
               [at |-> i, what |-> "noExit"] \in diags' <=>
                   pass' = 3 /\ \E e \in Range(es) : ~e.hasExit /\ e.at = i
    PROVE  EntriesOK'
<1>1. order' = order BY OrderSame
<1>2. \A i, k : /\ EntryLabel(i)' <=> EntryLabel(i)
                /\ NoGlobal(i, k)' <=> NoGlobal(i, k)
                /\ ExitBefore(i, k)' <=> ExitBefore(i, k)
  BY <1>1 DEF EntryLabel, GlobalAt, NoGlobal, ExitBefore
<1>3. \A i : /\ NoGlobal(i, m_seq)' <=> NoGlobal(i, n)
             /\ ExitBefore(i, m_seq)' <=> ExitBefore(i, n)
  <2> TAKE i
  <2>1. NoGlobal(i, m_seq)' <=> NoGlobal(i, n)' BY DEF NoGlobal
  <2>2. ExitBefore(i, m_seq)' <=> ExitBefore(i, n)' BY DEF ExitBefore, NoGlobal
  <2> QED BY <1>2, <2>1, <2>2
<1>4. \A e \in DOMAIN es :
          /\ es[e].at \in Reached' /\ EntryLabel(es[e].at)'
          /\ es[e].hasExit <=> ExitBefore(es[e].at, m_seq)'
          /\ NoGlobal(es[e].at, m_seq)' <=> e = c
  BY <1>2, <1>3
<1>5. \A e \in DOMAIN es :
          /\ EntryLabel(entryPoints[e].at)' <=> EntryLabel(es[e].at)'
          /\ ExitBefore(entryPoints[e].at, m_seq)' <=> ExitBefore(es[e].at, m_seq)'
          /\ NoGlobal(entryPoints[e].at, m_seq)' <=> NoGlobal(es[e].at, m_seq)'
  BY DEF EntryLabel, GlobalAt, ExitBefore, NoGlobal
<1>6. \A i \in Reached' : EntryLabel(i)' => \E e \in DOMAIN es : es[e].at = i BY <1>2
<1>7. Range(entryPoints)' = Range(es) BY DEF Range
<1> HIDE DEF EntryLabel
<1> QED BY <1>1, <1>4, <1>5, <1>6, <1>7 DEF EntriesOK

\* A statement of pass 2 that is nobody's exit and opens no scope.
LEMMA EntriesPass ==
    ASSUME Place, DefsOK, EntriesOK, [Next]_vars, Pass2, NEW es, NEW c, entryPoints' = es, currentEntry' = c,
           \A e \in DOMAIN es :
               /\ es[e].at \in Reached' /\ EntryLabel(es[e].at)
               /\ es[e].hasExit <=> ExitBefore(es[e].at, m_seq + 1)
               /\ NoGlobal(es[e].at, m_seq + 1) <=> e = c,
           \A e \in DOMAIN entryPoints : \E f \in DOMAIN es : es[f].at = entryPoints[e].at,
           EntryLabel(m_seq) => \E e \in DOMAIN es : es[e].at = m_seq
    PROVE  EntriesOK'
<1>1. /\ pass = 2 /\ pass' = 2 /\ m_seq' = m_seq + 1 /\ Reached' = Reached \cup {m_seq}
  BY Pass2Facts, ReachedGrows
<1>2. \A i \in Reached' : EntryLabel(i) => \E e \in DOMAIN es : es[e].at = i
  BY <1>1 DEF EntriesOK
<1>3. \A i \in DOMAIN order : [at |-> i, what |-> "noExit"] \notin diags'
  <2> TAKE i \in DOMAIN order
  <2>1. PICK d : d = [at |-> i, what |-> "noExit"] OBVIOUS
  <2>2. d \notin diags BY <1>1, <2>1 DEF EntriesOK
  <2>3. d.what = "noExit" BY <2>1
  <2>4. \E D : diags' = diags \cup D /\ \A x \in D : x.what # "noExit"
    <3>1. CASE Use
      <4>1. PICK D : D = Unknown(Current.name) OBVIOUS
      <4>2. diags' = diags \cup D BY <3>1, <4>1, Zenon DEF Use
      <4>3. \A x \in D : x.what # "noExit" BY <4>1 DEF Unknown, Emit
      <4> QED BY <4>2, <4>3
    <3>2. CASE Define
      <4>1. PICK C, D : /\ diags' = diags \cup C \cup D
                        /\ C \in {{}, Unknown(Current.value.of)}
                        /\ D \in {Emit("isLabel"), Emit("redefined"), {}}
        BY <3>2 DEF Define
      <4>2. PICK E : E = C \cup D OBVIOUS
      <4>3. \A x \in E : x.what # "noExit" BY <4>1, <4>2 DEF Unknown, Emit
      <4>4. diags' = diags \cup E BY <4>1, <4>2
      <4> QED BY <4>3, <4>4
    <3>3. CASE Jump
      <4>1. PICK D : D = diags' \ diags OBVIOUS
      <4>2. diags' = diags \cup (IF FindReusable(Current.name, m_seq, Current.dir = "-") = 0
                                 THEN Emit("noLabel") ELSE {})
        BY <3>3, Zenon DEF Jump
      <4>3. \A x \in D : x.what # "noExit" BY <4>1, <4>2 DEF Emit
      <4>4. diags' = diags \cup D BY <4>1, <4>2
      <4> QED BY <4>3, <4>4
    <3>4. CASE Undef /\ diags' = diags
      <4>1. PICK D : D = {} OBVIOUS
      <4> QED BY <3>4, <4>1
    <3>5. CASE OtherReports
      <4>1. PICK D : /\ diags' = diags \cup D
                     /\ \A x \in D : x.what \in {"duplicate", "orphan", "noDirection", "notDefined"}
        BY <3>5, Zenon DEF OtherReports
      <4>2. \A x \in D : x.what # "noExit" BY <4>1
      <4> QED BY <4>1, <4>2
    <3>6. ~Finish BY <1>1 DEF Finish
    <3> QED BY <3>1, <3>2, <3>3, <3>4, <3>5, <3>6, DiagAdded
  <2> QED BY <2>1, <2>2, <2>3, <2>4
<1>4. \A i \in DOMAIN order :
          [at |-> i, what |-> "noExit"] \in diags' <=>
              pass' = 3 /\ \E e \in Range(es) : ~e.hasExit /\ e.at = i
  <2>1. pass' # 3 BY <1>1
  <2> QED BY <1>3, <2>1, Zenon
<1>5. PICK n : n = m_seq + 1 OBVIOUS
<1>6. m_seq' = n BY <1>1, <1>5
<1>7. \A e \in DOMAIN es :
          /\ es[e].at \in Reached' /\ EntryLabel(es[e].at)
          /\ es[e].hasExit <=> ExitBefore(es[e].at, n)
          /\ NoGlobal(es[e].at, n) <=> e = c
  BY <1>5
<1> QED BY <1>2, <1>4, <1>6, <1>7, EntriesLater

\* Every step keeps EntriesOK.
LEMMA EntriesNext == ASSUME Place, DefsOK, EntriesOK, [Next]_vars PROVE EntriesOK'
<1>0. /\ m_seq \in Nat \ {0} /\ \A i \in Reached : i \in Nat /\ i < m_seq
      /\ entryPoints \in Seq([at : Nat, hasExit : BOOLEAN]) /\ Len(entryPoints) \in Nat
      /\ DOMAIN entryPoints = 1 .. Len(entryPoints)
      /\ currentEntry \in 0 .. Len(entryPoints)
  BY LenProperties DEF Place, Reached
<1>1. \A e \in DOMAIN entryPoints :
          /\ entryPoints[e].at \in Reached /\ EntryLabel(entryPoints[e].at)
          /\ entryPoints[e].hasExit <=> ExitBefore(entryPoints[e].at, m_seq)
          /\ NoGlobal(entryPoints[e].at, m_seq) <=> e = currentEntry
          /\ entryPoints[e].at \in Nat /\ entryPoints[e].at < m_seq
  BY <1>0 DEF EntriesOK
<1>2. \A i \in Reached :
          /\ NoGlobal(i, m_seq + 1) <=> NoGlobal(i, m_seq) /\ ~GlobalAt(m_seq)
          /\ ExitBefore(i, m_seq + 1) <=>
                ExitBefore(i, m_seq) \/ (order[m_seq].op = "exit" /\ NoGlobal(i, m_seq))
  BY <1>0, StretchStep
<1>3. ASSUME Pass2 PROVE /\ Reached' = Reached \cup {m_seq} /\ pass = 2 /\ m_seq <= Len(order)
                         /\ Current = order[m_seq]
  BY <1>3, Pass2Facts, ReachedGrows, AtCurrent
<1>4. ASSUME Pass2, ~GlobalAt(m_seq), order[m_seq].op # "exit", UNCHANGED <<entryPoints, currentEntry>>
      PROVE  EntriesOK'
  <2>1. PICK es, c : es = entryPoints /\ c = currentEntry OBVIOUS
  <2>2. \A e \in DOMAIN es :
            /\ es[e].at \in Reached' /\ EntryLabel(es[e].at)
            /\ es[e].hasExit <=> ExitBefore(es[e].at, m_seq + 1)
            /\ NoGlobal(es[e].at, m_seq + 1) <=> e = c
    BY <1>1, <1>2, <1>3, <1>4, <2>1
  <2>3. ~EntryLabel(m_seq) BY <1>4 DEF EntryLabel
  <2>4. entryPoints' = es /\ currentEntry' = c BY <1>4, <2>1
  <2>5. \A e \in DOMAIN entryPoints : \E f \in DOMAIN es : es[f].at = entryPoints[e].at BY <2>1
  <2> QED BY <1>4, <2>2, <2>3, <2>4, <2>5, EntriesPass
<1>5. CASE Label
  <2>1. Pass2 /\ Current.op = "label" BY <1>5, Zenon DEF Label, Pass2, Visit
  <2>2. CASE ~GlobalAt(m_seq)
    <3>1. UNCHANGED <<entryPoints, currentEntry>> BY <1>3, <1>5, <2>1, <2>2 DEF Label, GlobalAt
    <3> QED BY <1>3, <1>4, <2>1, <2>2, <3>1
  <2>3. CASE GlobalAt(m_seq) /\ order[m_seq].name \notin Entry
    <3>1. entryPoints' = entryPoints /\ currentEntry' = 0
      BY <1>3, <1>5, <2>1, <2>3 DEF Label, GlobalAt, EntryAt
    <3>2. PICK es, c : es = entryPoints /\ c = 0 OBVIOUS
    <3>3. \A e \in DOMAIN es :
              /\ es[e].at \in Reached' /\ EntryLabel(es[e].at)
              /\ es[e].hasExit <=> ExitBefore(es[e].at, m_seq + 1)
              /\ NoGlobal(es[e].at, m_seq + 1) <=> e = c
      <4> TAKE e \in DOMAIN es
      <4>1. e # c BY <1>0, <3>2
      <4>2. order[m_seq].op # "exit" BY <2>3 DEF GlobalAt
      <4> QED BY <1>1, <1>2, <1>3, <2>1, <2>3, <3>2, <4>1, <4>2
    <3>4. ~EntryLabel(m_seq) BY <2>3 DEF EntryLabel
    <3>5. \A e \in DOMAIN entryPoints : \E f \in DOMAIN es : es[f].at = entryPoints[e].at BY <3>2
    <3>6. entryPoints' = es /\ currentEntry' = c BY <3>1, <3>2
    <3> QED BY <2>1, <3>3, <3>4, <3>5, <3>6, EntriesPass
  <2>4. CASE EntryLabel(m_seq)
    <3>0. GlobalAt(m_seq) /\ order[m_seq].name \in Entry BY <2>4 DEF EntryLabel
    <3>1. PICK x : x = [at |-> m_seq, hasExit |-> FALSE] OBVIOUS
    <3>2. entryPoints' = Append(entryPoints, x) /\ currentEntry' = Len(entryPoints) + 1
      BY <1>3, <1>5, <2>1, <3>0, <3>1 DEF Label, GlobalAt, EntryAt
    <3>3. PICK s, es, c : s = entryPoints /\ es = entryPoints' /\ c = Len(entryPoints) + 1 OBVIOUS
    <3>4. x \in [at : Nat, hasExit : BOOLEAN] /\ s \in Seq([at : Nat, hasExit : BOOLEAN])
          /\ es = Append(s, x) /\ c = Len(s) + 1
      BY <1>0, <3>1, <3>2, <3>3
    <3>5. /\ DOMAIN s = 1 .. Len(s) /\ Len(s) \in Nat /\ DOMAIN es = 1 .. Len(s) + 1
          /\ \A e \in DOMAIN s : e \in DOMAIN es /\ es[e] = s[e]
          /\ es[c] = x
      BY <3>4, Appended
    <3>6. \A e \in DOMAIN es :
              /\ es[e].at \in Reached' /\ EntryLabel(es[e].at)
              /\ es[e].hasExit <=> ExitBefore(es[e].at, m_seq + 1)
              /\ NoGlobal(es[e].at, m_seq + 1) <=> e = c
      <4> TAKE e \in DOMAIN es
      <4>1. CASE e = c
        <5>1. es[e].at = m_seq /\ ~es[e].hasExit BY <3>1, <3>5, <4>1
        <5>2. NoGlobal(m_seq, m_seq + 1) /\ ~ExitBefore(m_seq, m_seq + 1) BY <1>0, StretchStep
        <5> QED BY <1>3, <2>1, <2>4, <4>1, <5>1, <5>2
      <4>2. CASE e # c
        <5>1. e \in DOMAIN s BY <3>4, <3>5, <4>2
        <5>2. es[e] = entryPoints[e] /\ e \in DOMAIN entryPoints BY <3>3, <3>5, <5>1
        <5>3. order[m_seq].op # "exit" BY <3>0 DEF GlobalAt
        <5> QED BY <1>1, <1>2, <1>3, <2>1, <3>0, <4>2, <5>2, <5>3
      <4> QED BY <4>1, <4>2
    <3>7. \A e \in DOMAIN entryPoints : \E f \in DOMAIN es : es[f].at = entryPoints[e].at
      BY <3>3, <3>5
    <3>8. \E e \in DOMAIN es : es[e].at = m_seq
      <4>1. c \in DOMAIN es /\ es[c].at = m_seq BY <3>1, <3>4, <3>5
      <4> QED BY <4>1
    <3>9. entryPoints' = es /\ currentEntry' = c BY <3>2, <3>3
    <3> QED BY <2>1, <3>6, <3>7, <3>8, <3>9, EntriesPass
  <2> QED BY <2>2, <2>3, <2>4 DEF EntryLabel
<1>6. CASE Exit
  <2>1. Pass2 /\ Current.op = "exit" BY <1>6, Zenon DEF Exit, Pass2, Visit
  <2>2. order[m_seq].op = "exit" /\ ~GlobalAt(m_seq) BY <1>3, <2>1 DEF GlobalAt
  <2>3. PICK es, c : es = entryPoints' /\ c = currentEntry OBVIOUS
  <2>4. currentEntry' = c /\ es = IF c = 0 THEN entryPoints
                                  ELSE [entryPoints EXCEPT ![c].hasExit = TRUE]
    BY <1>6, <2>3 DEF Exit
  <2>5. DOMAIN es = DOMAIN entryPoints BY <2>4
  <2>6. \A e \in DOMAIN es : /\ es[e].at = entryPoints[e].at
                             /\ e = c => es[e].hasExit = TRUE
                             /\ e # c => es[e].hasExit = entryPoints[e].hasExit
    <3> TAKE e \in DOMAIN es
    <3>1. entryPoints[e] \in [at : Nat, hasExit : BOOLEAN] BY <1>0, <2>5, ElementOfSeq
    <3>2. e # 0 BY <1>0, <2>5
    <3> QED BY <2>4, <2>5, <3>1, <3>2
  <2>7. \A e \in DOMAIN es :
            /\ es[e].at \in Reached' /\ EntryLabel(es[e].at)
            /\ es[e].hasExit <=> ExitBefore(es[e].at, m_seq + 1)
            /\ NoGlobal(es[e].at, m_seq + 1) <=> e = c
    <3> TAKE e \in DOMAIN es
    <3>1. e \in DOMAIN entryPoints BY <2>5
    <3>2. CASE e = c
      <4>1. NoGlobal(entryPoints[e].at, m_seq) BY <1>1, <2>3, <3>1, <3>2
      <4> QED BY <1>1, <1>2, <1>3, <2>1, <2>2, <2>6, <3>1, <3>2, <4>1
    <3>3. CASE e # c
      <4>1. ~NoGlobal(entryPoints[e].at, m_seq) BY <1>1, <2>3, <3>1, <3>3
      <4> QED BY <1>1, <1>2, <1>3, <2>1, <2>2, <2>6, <3>1, <3>3, <4>1
    <3> QED BY <3>2, <3>3
  <2>8. \A e \in DOMAIN entryPoints : \E f \in DOMAIN es : es[f].at = entryPoints[e].at
    BY <2>5, <2>6
  <2>9. ~EntryLabel(m_seq) BY <2>2 DEF EntryLabel
  <2>10. entryPoints' = es /\ currentEntry' = c BY <2>3, <2>4
  <2> QED BY <2>1, <2>7, <2>8, <2>9, <2>10, EntriesPass
<1>7. CASE Use \/ Jump \/ NoDirection \/ Define \/ Undef \/ Plain
  <2>1. Pass2 /\ UNCHANGED <<entryPoints, currentEntry>>
        /\ Current.op \in {"use", "jump", "def", "undef", "plain"}
    BY <1>7, Zenon DEF Use, Jump, NoDirection, Define, Undef, Plain, Pass2, Visit
  <2>2. order[m_seq].op # "exit" /\ ~GlobalAt(m_seq) BY <1>3, <2>1 DEF GlobalAt
  <2> QED BY <1>4, <2>1, <2>2
<1>8. CASE Collect \/ PassOver \/ StartPass2
  <2>1. pass = 1 /\ pass' \in {1, 2} /\ UNCHANGED <<entryPoints, currentEntry>>
    BY <1>8 DEF Collect, PassOver, StartPass2, Visit
  <2>2. ~Pass2 BY <2>1, Pass2Facts
  <2>3. Reached = {} /\ Reached' = {} BY <2>1, <2>2, ReachedGrows DEF Reached
  <2>4. PICK es, c, n : es = entryPoints /\ c = currentEntry /\ n = m_seq' OBVIOUS
  <2>5. DOMAIN es = {} BY <1>1, <2>3, <2>4
  <2>6. OtherReports
    BY <1>8, <2>1, <2>2, DiagAdded DEF Pass2, Finish
  <2>7. PICK D : /\ diags' = diags \cup D
                 /\ \A x \in D : x.what \in {"duplicate", "orphan", "noDirection", "notDefined"}
    BY <2>6, Zenon DEF OtherReports
  <2>8. \A i \in DOMAIN order : [at |-> i, what |-> "noExit"] \notin diags'
    <3> TAKE i \in DOMAIN order
    <3>1. PICK d : d = [at |-> i, what |-> "noExit"] OBVIOUS
    <3>2. d \notin diags BY <2>1, <3>1 DEF EntriesOK
    <3>3. d.what = "noExit" BY <3>1
    <3> QED BY <2>7, <3>1, <3>2, <3>3
  <2>9. \A i \in DOMAIN order :
            [at |-> i, what |-> "noExit"] \in diags' <=>
                pass' = 3 /\ \E e \in Range(es) : ~e.hasExit /\ e.at = i
    <3>1. pass' # 3 BY <2>1
    <3> QED BY <2>8, <3>1, Zenon
  <2>10. entryPoints' = es /\ currentEntry' = c /\ m_seq' = n BY <2>1, <2>4
  <2> QED BY <2>3, <2>5, <2>9, <2>10, EntriesLater
<1>9. CASE Finish
  <2>1. pass = 2 /\ pass' = 3 /\ m_seq' = m_seq /\ UNCHANGED <<entryPoints, currentEntry>>
        /\ diags' = diags \cup {[at |-> e.at, what |-> "noExit"] :
                                    e \in {x \in Range(entryPoints) : ~x.hasExit}}
    BY <1>9 DEF Finish
  <2>2. Reached' = Reached BY <2>1 DEF Reached
  <2>3. PICK es, c, n : es = entryPoints /\ c = currentEntry /\ n = m_seq OBVIOUS
  <2>4. \A i \in DOMAIN order :
            [at |-> i, what |-> "noExit"] \in diags' <=>
                pass' = 3 /\ \E e \in Range(es) : ~e.hasExit /\ e.at = i
    <3> TAKE i \in DOMAIN order
    <3>1. PICK d : d = [at |-> i, what |-> "noExit"] OBVIOUS
    <3>2. d \notin diags BY <2>1, <3>1 DEF EntriesOK
    <3>3. d \in diags' <=> \E e \in Range(es) : ~e.hasExit /\ d = [at |-> e.at, what |-> "noExit"]
      BY <2>1, <2>3, <3>2
    <3>4. \A e : d = [at |-> e.at, what |-> "noExit"] <=> e.at = i BY <3>1
    <3> QED BY <2>1, <3>1, <3>3, <3>4
  <2>5. entryPoints' = es /\ currentEntry' = c /\ m_seq' = n BY <2>1, <2>3
  <2>6. \A e \in DOMAIN es :
            /\ es[e].at \in Reached' /\ EntryLabel(es[e].at)
            /\ es[e].hasExit <=> ExitBefore(es[e].at, n)
            /\ NoGlobal(es[e].at, n) <=> e = c
    BY <1>1, <2>2, <2>3
  <2>7. \A i \in Reached' : EntryLabel(i) => \E e \in DOMAIN es : es[e].at = i
    BY <2>2, <2>3 DEF EntriesOK
  <2> QED BY <2>4, <2>5, <2>6, <2>7, EntriesLater
<1>10. CASE Analysed \/ UNCHANGED vars
  <2>1. UNCHANGED vars BY <1>10 DEF Analysed
  <2>2. PICK es, c, n : es = entryPoints /\ c = currentEntry /\ n = m_seq OBVIOUS
  <2>3. /\ entryPoints' = es /\ currentEntry' = c /\ m_seq' = n
        /\ Reached' = Reached /\ diags' = diags /\ pass' = pass
    BY <2>1, <2>2 DEF vars, Reached
  <2>4. \A i \in DOMAIN order :
            [at |-> i, what |-> "noExit"] \in diags' <=>
                pass' = 3 /\ \E e \in Range(es) : ~e.hasExit /\ e.at = i
    BY <2>2, <2>3 DEF EntriesOK
  <2>5. \A e \in DOMAIN es :
            /\ es[e].at \in Reached' /\ EntryLabel(es[e].at)
            /\ es[e].hasExit <=> ExitBefore(es[e].at, n)
            /\ NoGlobal(es[e].at, n) <=> e = c
    BY <1>1, <2>2, <2>3
  <2>6. \A i \in Reached' : EntryLabel(i) => \E e \in DOMAIN es : es[e].at = i
    BY <2>2, <2>3 DEF EntriesOK
  <2> QED BY <2>3, <2>4, <2>5, <2>6, EntriesLater
<1> QED BY <1>5, <1>6, <1>7, <1>8, <1>9, <1>10 DEF Next

-----------------------------------------------------------------------------
(* The values of constants.                                                *)

\* The def that the value of a def reads, and one step of ValueAt.
From(i) == IF order[i].value.of = NoName THEN 0 ELSE InForce(Meaning(order[i].value.of, i), i)
Says(g, i) == IF order[i].value.of = NoName THEN order[i].value.lit
              ELSE IF From(i) = 0 THEN "none"
              ELSE IF g[From(i)] = "int" THEN order[i].value.lit ELSE g[From(i)]

\* The def that a value is taken from stands above.
LEMMA FromAbove == ASSUME Place, NEW i \in DOMAIN order PROVE From(i) \in 0 .. i - 1
<1>1. i \in 1 .. Len(order) + 1 /\ i \in Nat \ {0} BY LenProperties DEF Place
<1> QED BY <1>1, InForceStep DEF From

\* A chain of defs leads upwards, so every def has a value.
LEMMA ChainExists == ASSUME Place PROVE \E g : g = [i \in 1 .. Len(order) |-> Says(g, i)]
<1>0. PICK n : n = Len(order) OBVIOUS
<1>1. n \in Nat /\ DOMAIN order = 1 .. n BY <1>0, LenProperties DEF Place
<1> DEFINE bad == {m \in 0 .. n : ~ \E g : g = [i \in 1 .. m |-> Says(g, i)]}
<1>2. bad = {}
  <2> SUFFICES ASSUME bad # {} PROVE FALSE OBVIOUS
  <2>1. bad \in SUBSET Nat BY <1>1
  <2>2. PICK m \in bad : \A k \in bad : m <= k BY <2>1, SmallestOf
  <2>3. m \in 0 .. n /\ m \in Nat /\ ~ \E g : g = [i \in 1 .. m |-> Says(g, i)] BY <1>1
  <2>4. CASE m = 0
    <3>1. PICK g : g = [i \in 1 .. 0 |-> 0] OBVIOUS
    <3>2. 1 .. 0 = {} OBVIOUS
    <3>3. g = [i \in 1 .. 0 |-> Says(g, i)] BY <3>1, <3>2
    <3> QED BY <2>3, <2>4, <3>3
  <2>5. CASE m # 0
    <3>1. m - 1 \in 0 .. n /\ m - 1 \notin bad BY <1>1, <2>2, <2>3, <2>5
    <3>2. PICK g : g = [i \in 1 .. m - 1 |-> Says(g, i)] BY <3>1
    <3>3. PICK h : h = [i \in 1 .. m |-> IF i = m THEN Says(g, m) ELSE g[i]] OBVIOUS
    <3>4. \A i \in 1 .. m : Says(h, i) = Says(g, i)
      <4> TAKE i \in 1 .. m
      <4>1. From(i) \in 0 .. i - 1 BY <1>1, <2>3, FromAbove
      <4>2. From(i) = 0 \/ (From(i) \in 1 .. m /\ From(i) # m) BY <2>3, <4>1
      <4>3. From(i) # 0 => h[From(i)] = g[From(i)] BY <3>3, <4>2
      <4> QED BY <4>3 DEF Says
    <3>5. \A i \in 1 .. m - 1 : g[i] = Says(g, i) BY <3>2
    <3>6. \A i \in 1 .. m : h[i] = Says(h, i)
      <4> TAKE i \in 1 .. m
      <4>1. CASE i = m BY <3>3, <3>4, <4>1
      <4>2. CASE i # m
        <5>1. i \in 1 .. m - 1 BY <2>3, <4>2
        <5> QED BY <3>3, <3>4, <3>5, <4>2, <5>1
      <4> QED BY <4>1, <4>2
    <3>7. h = [i \in 1 .. m |-> Says(h, i)] BY <3>3, <3>6
    <3> QED BY <2>3, <3>7
  <2> QED BY <2>4, <2>5
<1>3. n \in 0 .. n BY <1>1
<1> QED BY <1>0, <1>2, <1>3

\* ValueAt is what it is defined to be, at every statement.
LEMMA ValueSays == ASSUME Place PROVE \A i \in DOMAIN order : ValueAt[i] = Says(ValueAt, i)
<1>1. DOMAIN order = 1 .. Len(order) BY LenProperties DEF Place
<1>2. ValueAt = CHOOSE g : g = [i \in 1 .. Len(order) |-> Says(g, i)]
  BY DEF ValueAt, Says, From
<1>3. PICK a : a = ValueAt OBVIOUS
<1>4. a = [i \in 1 .. Len(order) |-> Says(a, i)] BY <1>2, <1>3, ChainExists
<1>5. \A i \in DOMAIN order : a[i] = Says(a, i) BY <1>1, <1>4
<1> QED BY <1>3, <1>5

\* The values are those of the stream, which stays.
LEMMA ValueSame == ASSUME Place, order' = order PROVE \A i \in DOMAIN order : ValueAt[i]' = ValueAt[i]
<1>0. DOMAIN order = 1 .. Len(order) /\ Len(order) \in Nat BY LenProperties DEF Place
<1>1. PICK a, b, n : a = ValueAt /\ b = ValueAt' /\ n = Len(order) OBVIOUS
<1>2. \A i \in 1 .. n : a[i] = Says(a, i) BY <1>0, <1>1, ValueSays
<1>3. \A i : From(i)' = From(i)
  <2> TAKE i
  <2>1. PICK v : v = order[i].value OBVIOUS
  <2>2. From(i)' = IF v.of = NoName THEN 0 ELSE InForce(Meaning(v.of, i), i)'
    BY <2>1 DEF From, InForce, DefsOf, UndefsOf, Meaning, Scope, ConstName
  <2>3. PICK q : q = Meaning(v.of, i) OBVIOUS
  <2>4. InForce(Meaning(v.of, i), i)' = InForce(q, i)
    <3>1. Meaning(v.of, i)' = q BY <2>3, StreamSame
    <3>2. InForce(Meaning(v.of, i), i)' = InForce(q, i)'
      BY <3>1 DEF InForce, DefsOf, UndefsOf
    <3> QED BY <3>2, StreamSame
  <2> QED BY <2>1, <2>2, <2>3, <2>4 DEF From
<1>4. \A g, i : Says(g, i)' = Says(g, i) BY <1>3 DEF Says
<1>5. b = CHOOSE g : g = [i \in 1 .. n |-> Says(g, i)']
  BY <1>1 DEF ValueAt, Says, From
<1>6. \E g : g = [i \in 1 .. n |-> Says(g, i)']
  <2>1. PICK g : g = [i \in 1 .. n |-> Says(g, i)] BY <1>1, ChainExists
  <2>2. g = [i \in 1 .. n |-> Says(g, i)'] BY <1>4, <2>1
  <2> QED BY <2>2
<1>7. b = [i \in 1 .. n |-> Says(b, i)'] BY <1>5, <1>6
<1>8. \A i \in 1 .. n : b[i] = Says(b, i) BY <1>4, <1>7
<1> DEFINE bad == {i \in 1 .. n : a[i] # b[i]}
<1>9. bad = {}
  <2> SUFFICES ASSUME bad # {} PROVE FALSE OBVIOUS
  <2>1. bad \in SUBSET Nat BY <1>0, <1>1
  <2>2. PICK i \in bad : \A k \in bad : i <= k BY <2>1, SmallestOf
  <2>3. i \in 1 .. n /\ a[i] # b[i] /\ i \in Nat BY <1>0, <1>1
  <2>4. From(i) \in 0 .. i - 1 BY <1>0, <1>1, <2>3, FromAbove
  <2>5. From(i) # 0 => From(i) \in 1 .. n /\ From(i) \notin bad BY <1>0, <1>1, <2>2, <2>3, <2>4
  <2>6. From(i) # 0 => a[From(i)] = b[From(i)] BY <2>5
  <2>7. Says(a, i) = Says(b, i) BY <2>6 DEF Says
  <2> QED BY <1>2, <1>8, <2>3, <2>7
<1>10. ASSUME NEW i \in DOMAIN order PROVE ValueAt[i]' = ValueAt[i]
  <2>1. i \in 1 .. n /\ i \notin bad BY <1>0, <1>1, <1>9, <1>10
  <2> QED BY <1>1, <2>1
<1> QED BY <1>10

\* Every step keeps ValuesInForce: the value of a new def is that of the def in force.
LEMMA ValuesNext ==
    ASSUME Place, DefsOK, Live, ValuesInForce, [Next]_vars
    PROVE  ValuesInForce'
<1>1. order' = order BY OrderSame
<1>2. \A d \in DOMAIN m_defs : m_defs[d].seq \in DOMAIN order
  <2>1. Collected \subseteq DOMAIN order /\ Reached \subseteq DOMAIN order
    <3>1. DOMAIN order = 1 .. Len(order) /\ Len(order) \in Nat /\ m_seq \in 1 .. Len(order) + 1
      BY LenProperties DEF Place
    <3> QED BY <3>1 DEF Collected, Reached
  <2> QED BY <2>1 DEF DefsOK
<1>3. \A d \in DOMAIN m_defs : m_defs[d].kind \in {"Constant", "LocalConstant"} =>
          m_defs[d].value = ValueAt[m_defs[d].seq]
  BY DEF ValuesInForce
<1>4. \A i \in DOMAIN order : ValueAt[i]' = ValueAt[i] BY <1>1, ValueSame
<1>5. ASSUME NEW t, m_defs' = t,
             \A d \in DOMAIN t : t[d].kind \in {"Constant", "LocalConstant"} =>
                 t[d].seq \in DOMAIN order /\ t[d].value = ValueAt[t[d].seq]
      PROVE  ValuesInForce'
  <2>1. \A d \in DOMAIN t : t[d].kind \in {"Constant", "LocalConstant"} =>
            t[d].value = ValueAt[t[d].seq]'
    BY <1>4, <1>5
  <2> QED BY <1>5, <2>1 DEF ValuesInForce
<1>6. CASE Define
  <2>1. PICK i, x : i = m_seq /\ x = ConstDef(m_seq, Evaluate(order[m_seq].value)) OBVIOUS
  <2>2. /\ i \in DOMAIN order /\ order[i].op = "def" /\ pass = 2
        /\ m_defs' = Append(m_defs, x) /\ x \in Definition
    BY <1>6, <2>1, DefineFacts
  <2>3. m_seq <= Len(order) BY <1>6 DEF Define, Visit
  <2>4. x.seq = i /\ x.value = Evaluate(order[i].value) BY <2>1 DEF ConstDef
  <2>5. PICK v : v = order[i].value OBVIOUS
  <2>6. v \in Value BY <2>2, <2>5, StmtFacts
  <2>7. ValueAt[i] = Says(ValueAt, i) BY <2>2, ValueSays
  <2>8. Evaluate(v) = ValueAt[i]
    <3>1. CASE v.of = NoName BY <2>5, <2>7, <3>1 DEF Evaluate, Says
    <3>2. CASE v.of # NoName
      <4>1. v.of \in Written BY <2>6, <3>2 DEF Value
      <4>2. PICK q : q = Qualify(v.of) OBVIOUS
      <4>3. q = Meaning(v.of, i) /\ q \in QName
        BY <2>1, <2>2, <2>3, <4>1, <4>2, AtCurrent, StmtFacts
      <4>4. From(i) = InForce(q, i) BY <2>5, <3>2, <4>3 DEF From
      <4>5. CASE q \in m_liveConsts
        <5>1. /\ From(i) # 0 /\ IndexOf(q) # 0 /\ m_defs[IndexOf(q)].seq = From(i)
              /\ m_defs[IndexOf(q)].kind \in {"Constant", "LocalConstant"}
          BY <2>1, <2>2, <4>3, <4>4, <4>5, LiveMeans
        <5>2. IndexOf(q) \in DOMAIN m_defs BY <5>1, IndexFacts
        <5>3. m_defs[IndexOf(q)].value = ValueAt[From(i)] BY <1>3, <5>1, <5>2
        <5>4. Evaluate(v) = IF ValueAt[From(i)] = "int" THEN v.lit ELSE ValueAt[From(i)]
          BY <3>2, <4>2, <4>5, <5>1, <5>3 DEF Evaluate
        <5> QED BY <2>5, <2>7, <3>2, <5>1, <5>4 DEF Says
      <4>6. CASE q \notin m_liveConsts
        <5>1. From(i) = 0 BY <2>1, <2>2, <4>3, <4>4, <4>6, LiveMeans
        <5>2. Evaluate(v) = "none" BY <3>2, <4>2, <4>6 DEF Evaluate
        <5> QED BY <2>5, <2>7, <3>2, <5>1, <5>2 DEF Says
      <4> QED BY <4>5, <4>6
    <3> QED BY <3>1, <3>2
  <2>9. PICK s, t : s = m_defs /\ t = m_defs' OBVIOUS
  <2>10. s \in Seq(Definition) /\ t = Append(s, x) BY <2>2, <2>9 DEF Place
  <2>11. /\ DOMAIN s = 1 .. Len(s) /\ Len(s) \in Nat /\ DOMAIN t = 1 .. Len(s) + 1
         /\ \A e \in DOMAIN s : t[e] = s[e]
         /\ t[Len(s) + 1] = x
    BY <2>2, <2>10, Appended
  <2>12. \A d \in DOMAIN t : t[d].kind \in {"Constant", "LocalConstant"} =>
             t[d].seq \in DOMAIN order /\ t[d].value = ValueAt[t[d].seq]
    <3> TAKE d \in DOMAIN t
    <3>1. CASE d \in DOMAIN s BY <1>2, <1>3, <2>9, <2>11, <3>1
    <3>2. CASE d = Len(s) + 1 BY <2>2, <2>4, <2>5, <2>8, <2>11, <3>2
    <3> QED BY <2>11, <3>1, <3>2
  <2> QED BY <1>5, <2>9, <2>12
<1>7. CASE Collect
  <2>1. PICK x : x = LabelDef(m_seq) OBVIOUS
  <2>2. m_defs' = Append(m_defs, x) /\ x \in Definition BY <1>7, <2>1, CollectFacts
  <2>3. x.kind \notin {"Constant", "LocalConstant"}
    <3>1. m_seq \in DOMAIN order /\ order[m_seq].op = "label" BY <1>7, CollectFacts
    <3>2. order[m_seq].kind \in {"Global", "Local", "Reusable"} BY <3>1, StmtFacts
    <3> QED BY <2>1, <3>2 DEF LabelDef, LabelKind
  <2>4. PICK s, t : s = m_defs /\ t = m_defs' OBVIOUS
  <2>5. s \in Seq(Definition) /\ t = Append(s, x) BY <2>2, <2>4 DEF Place
  <2>6. /\ DOMAIN s = 1 .. Len(s) /\ Len(s) \in Nat /\ DOMAIN t = 1 .. Len(s) + 1
        /\ \A e \in DOMAIN s : t[e] = s[e]
        /\ t[Len(s) + 1] = x
    BY <2>2, <2>5, Appended
  <2>7. \A d \in DOMAIN t : t[d].kind \in {"Constant", "LocalConstant"} =>
            t[d].seq \in DOMAIN order /\ t[d].value = ValueAt[t[d].seq]
    <3> TAKE d \in DOMAIN t
    <3>1. CASE d \in DOMAIN s BY <1>2, <1>3, <2>4, <2>6, <3>1
    <3>2. CASE d = Len(s) + 1 BY <2>3, <2>6, <3>2
    <3> QED BY <2>6, <3>1, <3>2
  <2> QED BY <1>5, <2>4, <2>7
<1>8. CASE ~Collect /\ ~Define
  <2>1. m_defs' = m_defs
    BY <1>8, Zenon DEF Next, PassOver, StartPass2, Label, Use, Jump, NoDirection, Undef, Exit, Plain,
           Finish, Analysed, vars
  <2> QED BY <1>2, <1>3, <1>5, <2>1
<1> QED BY <1>6, <1>7, <1>8

-----------------------------------------------------------------------------
(* The theorems.                                                           *)

\* What every reachable state satisfies.
IInv == Place /\ DefsOK /\ Live /\ RefsOK /\ EntriesOK /\ ValuesInForce

\* The invariant holds before pass 1.
LEMMA Start == Init => IInv
<1> SUFFICES ASSUME Init PROVE IInv OBVIOUS
<1>1. Place /\ DefsOK BY InitPlace
<1>2. /\ pass = 1 /\ m_defs = <<>> /\ m_refs = <<>> /\ m_liveConsts = {} /\ entryPoints = <<>>
      /\ diags = {}
  BY DEF Init
<1>3. DOMAIN m_defs = {} /\ DOMAIN entryPoints = {} /\ Range(m_refs) = {}
  <2>1. 1 .. 0 = {} OBVIOUS
  <2> QED BY <1>2, <2>1 DEF Range
<1>4. Live /\ ValuesInForce BY <1>2, <1>3 DEF Live, ValuesInForce
<1>5. RefsOK BY <1>2, <1>3 DEF RefsOK
<1>6. EntriesOK
  <2>1. Reached = {} /\ pass # 3 BY <1>2 DEF Reached
  <2> QED BY <1>2, <1>3, <2>1 DEF EntriesOK
<1> QED BY <1>1, <1>4, <1>5, <1>6 DEF IInv

\* Every step keeps the invariant.
LEMMA Kept == IInv /\ [Next]_vars => IInv'
BY PlaceNext, DefsNext, LiveNext, RefsNext, EntriesNext, ValuesNext DEF IInv

\* The two passes keep it.
THEOREM WalkInvariant == Spec => []IInv
<1> QED BY Start, Kept, PTL DEF Spec

\* What the parts of it mean when both passes are over.
LEMMA AllReached == ASSUME Place, pass = 3 PROVE Reached = DOMAIN order /\ m_seq = Len(order) + 1
<1>1. DOMAIN order = 1 .. Len(order) /\ Len(order) \in Nat BY LenProperties DEF Place
<1> QED BY <1>1 DEF Place, Reached

\* At the end, RefsOK says that references and jumps are resolved.
LEMMA RefsResolved == Place /\ RefsOK => ResolvedInScope /\ NearestReusable
BY DEF RefsOK, Resolved, ResolvedInScope, NearestReusable

\* At the end, EntriesOK says that entry points without exit are flagged.
LEMMA EntriesFlagged == Place /\ EntriesOK => EntryPointsExit
<1> SUFFICES ASSUME Place, EntriesOK, pass = 3, NEW i \in DOMAIN order
             PROVE  [at |-> i, what |-> "noExit"] \in diags <=>
                        /\ order[i].op = "label" /\ order[i].kind = "Global" /\ order[i].name \in Entry
                        /\ \A j \in i + 1 .. Len(order) :
                              order[j].op = "exit" =>
                                  \E k \in i + 1 .. j - 1 : order[k].op = "label" /\ order[k].kind = "Global"
  BY DEF EntryPointsExit
<1>1. Reached = DOMAIN order /\ m_seq = Len(order) + 1 /\ Len(order) \in Nat
  BY AllReached, LenProperties DEF Place
<1>2. [at |-> i, what |-> "noExit"] \in diags <=> \E e \in Range(entryPoints) : ~e.hasExit /\ e.at = i
  BY DEF EntriesOK
<1>3. (\E e \in Range(entryPoints) : ~e.hasExit /\ e.at = i) <=>
          EntryLabel(i) /\ ~ExitBefore(i, m_seq)
  <2>1. (\E e \in Range(entryPoints) : ~e.hasExit /\ e.at = i) <=>
            \E e \in DOMAIN entryPoints : ~entryPoints[e].hasExit /\ entryPoints[e].at = i
    BY DEF Range
  <2>2. \A e \in DOMAIN entryPoints : entryPoints[e].at = i =>
            EntryLabel(i) /\ (entryPoints[e].hasExit <=> ExitBefore(i, m_seq))
    BY DEF EntriesOK
  <2>3. EntryLabel(i) => \E e \in DOMAIN entryPoints : entryPoints[e].at = i
    BY <1>1 DEF EntriesOK
  <2> QED BY <2>1, <2>2, <2>3
<1>4. EntryLabel(i) <=> /\ order[i].op = "label" /\ order[i].kind = "Global" /\ order[i].name \in Entry
  BY DEF EntryLabel, GlobalAt
<1>5. ~ExitBefore(i, m_seq) <=>
          \A j \in i + 1 .. Len(order) :
              order[j].op = "exit" =>
                  \E k \in i + 1 .. j - 1 : order[k].op = "label" /\ order[k].kind = "Global"
  <2>1. i + 1 .. m_seq - 1 = i + 1 .. Len(order) BY <1>1
  <2> QED BY <2>1 DEF ExitBefore, NoGlobal, GlobalAt
<1> QED BY <1>2, <1>3, <1>4, <1>5

\* At each point of pass 2 the live constants are the defs in force there, in
\* the right scopes (define-before-use).
THEOREM ConstantsAreInForce == Spec => []ConstantsInForce
<1>1. IInv => ConstantsInForce BY LiveInForce DEF IInv
<1> QED BY <1>1, WalkInvariant, PTL

\* Every reference to a name that is not both a label and a constant resolves to
\* what the name means where it stands, and is reported when it means nothing.
THEOREM ReferencesResolve == Spec => []ResolvedInScope
<1>1. IInv => ResolvedInScope BY RefsResolved DEF IInv
<1> QED BY <1>1, WalkInvariant, PTL

\* @name- and @name+ go to the nearest such label above and below, and are
\* reported when there is none.
THEOREM JumpsGoToNearest == Spec => []NearestReusable
<1>1. IInv => NearestReusable BY RefsResolved DEF IInv
<1> QED BY <1>1, WalkInvariant, PTL

\* An entry point is flagged exactly when its own stretch holds no exit.
THEOREM EntriesWithoutExit == Spec => []EntryPointsExit
<1>1. IInv => EntryPointsExit BY EntriesFlagged DEF IInv
<1> QED BY <1>1, WalkInvariant, PTL

\* The value recorded for a def is what the defs in force there say, through
\* any chain of them.
THEOREM ValuesAreInForce == Spec => []ValuesInForce
<1>1. IInv => ValuesInForce BY DEF IInv
<1> QED BY <1>1, WalkInvariant, PTL

-----------------------------------------------------------------------------
(* Every name that asks for a reference gets one.                          *)

\* The statements that ask for a reference, and the name they ask with.
Mentions(i) ==
    \/ order[i].op = "use"
    \/ order[i].op = "jump" /\ order[i].dir # ""
    \/ order[i].op = "def" /\ order[i].value.of # NoName
    \/ order[i].op = "undef" /\ InForce(Meaning(order[i].name, i), i) # 0
WrittenIn(i) == IF order[i].op = "def" THEN order[i].value.of ELSE order[i].name

\* They get one each, of the name's own.
NamesOK ==
    /\ \A r \in Range(m_refs) :
          /\ r.seq \in Reached /\ Mentions(r.seq)
          /\ order[r.seq].op # "jump" =>
                /\ r.name = Meaning(WrittenIn(r.seq), r.seq)
                /\ r.target # 0 => /\ m_defs[r.target].name = r.name
                                   /\ m_defs[r.target].kind # "ReusableLabel"
    /\ \A i \in Reached : Mentions(i) => \E r \in Range(m_refs) : r.seq = i

\* What the stream says of a statement stays.
LEMMA MentionsSame ==
    ASSUME order' = order
    PROVE  \A i : /\ Mentions(i)' <=> Mentions(i)
                  /\ WrittenIn(i)' = WrittenIn(i)
                  /\ Meaning(WrittenIn(i), i)' = Meaning(WrittenIn(i), i)
<1> TAKE i
<1>1. PICK w, n : w = WrittenIn(i) /\ n = order[i].name OBVIOUS
<1>2. WrittenIn(i)' = w /\ order'[i].name = n BY <1>1 DEF WrittenIn
<1>3. Meaning(WrittenIn(i), i)' = Meaning(w, i)' BY <1>2 DEF Meaning
<1>4. Meaning(w, i)' = Meaning(w, i) BY StreamSame
<1>5. PICK q : q = Meaning(n, i) OBVIOUS
<1>6. InForce(Meaning(order[i].name, i), i)' = InForce(q, i)'
  <2>1. Meaning(order[i].name, i)' = Meaning(n, i)' BY <1>2 DEF Meaning
  <2>2. Meaning(n, i)' = q BY <1>5, StreamSame
  <2> QED BY <2>1, <2>2 DEF InForce, DefsOf, UndefsOf
<1>7. InForce(q, i)' = InForce(q, i) BY StreamSame
<1>8. InForce(Meaning(order[i].name, i), i)' = InForce(Meaning(order[i].name, i), i)
  BY <1>1, <1>5, <1>6, <1>7
<1>9. Mentions(i)' <=> Mentions(i) BY <1>8, Zenon DEF Mentions
<1> QED BY <1>1, <1>2, <1>3, <1>4, <1>9

\* A statement that gets no reference asks for none; one that gets one asks for it.
LEMMA NamesGrow ==
    ASSUME Place, DefsOK, RefsOK, NamesOK, [Next]_vars,
           \/ m_refs' = m_refs /\ (Pass2 => ~Mentions(m_seq))
           \/ /\ Pass2 /\ Mentions(m_seq)
              /\ \E r \in Mention :
                    /\ m_refs' = Append(m_refs, r) /\ r.seq = m_seq
                    /\ order[m_seq].op # "jump" =>
                          /\ r.name = Meaning(WrittenIn(m_seq), m_seq)
                          /\ r.target # 0 => /\ r.target \in DOMAIN m_defs
                                             /\ m_defs[r.target].name = r.name
                                             /\ m_defs[r.target].kind # "ReusableLabel"
    PROVE  NamesOK'
<1>1. order' = order /\ \A e \in DOMAIN m_defs : e \in DOMAIN m_defs' /\ m_defs'[e] = m_defs[e]
  BY OrderSame, DefsExtend
<1>2. \A i : /\ Mentions(i)' <=> Mentions(i)
             /\ Meaning(WrittenIn(i), i)' = Meaning(WrittenIn(i), i)
  BY <1>1, MentionsSame
<1>3. PICK s, t : s = Range(m_refs) /\ t = Range(m_refs') OBVIOUS
<1>4. Range(m_refs)' = t BY <1>3 DEF Range
<1> DEFINE Fine(r) == /\ r.seq \in Reached' /\ Mentions(r.seq)
                      /\ order[r.seq].op # "jump" =>
                            /\ r.name = Meaning(WrittenIn(r.seq), r.seq)
                            /\ r.target # 0 => /\ m_defs'[r.target].name = r.name
                                               /\ m_defs'[r.target].kind # "ReusableLabel"
<1>5. ASSUME \A r \in t : Fine(r), \A i \in Reached' : Mentions(i) => \E r \in t : r.seq = i
      PROVE  NamesOK'
  <2>1. \A r \in t : LET i == r.seq
                     IN Meaning(WrittenIn(r.seq), r.seq)' = Meaning(WrittenIn(i), i)
                        /\ (Mentions(r.seq)' <=> Mentions(i))
    BY <1>2
  <2> QED BY <1>1, <1>2, <1>4, <1>5, <2>1 DEF NamesOK
<1>6. \A r \in s : Fine(r)
  <2> TAKE r \in s
  <2>1. /\ r.seq \in Reached /\ Mentions(r.seq) /\ r.target \in {0} \cup DOMAIN m_defs
        /\ order[r.seq].op # "jump" =>
              /\ r.name = Meaning(WrittenIn(r.seq), r.seq)
              /\ r.target # 0 => /\ m_defs[r.target].name = r.name
                                 /\ m_defs[r.target].kind # "ReusableLabel"
    BY <1>3 DEF NamesOK, RefsOK, Resolved
  <2>2. r.seq \in Reached' BY <2>1, ReachedGrows
  <2> QED BY <1>1, <2>1, <2>2
<1>7. \A i \in Reached : Mentions(i) => \E r \in s : r.seq = i BY <1>3 DEF NamesOK
<1> HIDE DEF Fine
<1>8. CASE m_refs' = m_refs /\ (Pass2 => ~Mentions(m_seq))
  <2>1. t = s BY <1>3, <1>8
  <2>2. \A i \in Reached' : Mentions(i) => i \in Reached BY <1>8, ReachedGrows
  <2> QED BY <1>5, <1>6, <1>7, <2>1, <2>2
<1>9. CASE Pass2 /\ Mentions(m_seq) /\ \E r \in Mention :
                    /\ m_refs' = Append(m_refs, r) /\ r.seq = m_seq
                    /\ order[m_seq].op # "jump" =>
                          /\ r.name = Meaning(WrittenIn(m_seq), m_seq)
                          /\ r.target # 0 => /\ r.target \in DOMAIN m_defs
                                             /\ m_defs[r.target].name = r.name
                                             /\ m_defs[r.target].kind # "ReusableLabel"
  <2>1. PICK r \in Mention :
                    /\ m_refs' = Append(m_refs, r) /\ r.seq = m_seq
                    /\ order[m_seq].op # "jump" =>
                          /\ r.name = Meaning(WrittenIn(m_seq), m_seq)
                          /\ r.target # 0 => /\ r.target \in DOMAIN m_defs
                                             /\ m_defs[r.target].name = r.name
                                             /\ m_defs[r.target].kind # "ReusableLabel"
    BY <1>9
  <2>2. PICK a, b : a = m_refs /\ b = m_refs' OBVIOUS
  <2>3. a \in Seq(Mention) /\ b = Append(a, r) BY <2>1, <2>2 DEF Place
  <2>4. Range(b) = Range(a) \cup {r} BY <2>3, Appended DEF Range
  <2>5. t = s \cup {r} BY <1>3, <2>2, <2>4
  <2>6. Reached' = Reached \cup {m_seq} BY <1>9, ReachedGrows
  <2>7. Fine(r) BY <1>1, <1>9, <2>1, <2>6 DEF Fine
  <2>8. \A i \in Reached' : Mentions(i) => \E x \in t : x.seq = i
    BY <1>7, <2>1, <2>5, <2>6
  <2> QED BY <1>5, <1>6, <2>5, <2>7, <2>8
<1> QED BY <1>8, <1>9

\* Which statements of pass 2 ask for a reference.
LEMMA MentionsAt ==
    ASSUME Pass2, Place
    PROVE  /\ m_seq \in DOMAIN order /\ pass = 2 /\ m_seq <= Len(order)
           /\ Current = order[m_seq] /\ \A w : Qualify(w) = Meaning(w, m_seq)
           /\ Use => order[m_seq].op = "use"
           /\ Define => order[m_seq].op = "def"
           /\ Undef => order[m_seq].op = "undef"
           /\ Jump \/ NoDirection => order[m_seq].op = "jump"
           /\ Label \/ Exit \/ Plain => order[m_seq].op \in {"label", "exit", "plain"}
<1>1. /\ pass = 2 /\ m_seq <= Len(order) BY Pass2Facts
<1>2. /\ m_seq \in DOMAIN order /\ Current = order[m_seq] /\ \A w : Qualify(w) = Meaning(w, m_seq)
  BY <1>1, AtCurrent
<1>3. /\ Use => Current.op = "use"
      /\ Define => Current.op = "def"
      /\ Undef => Current.op = "undef"
      /\ Jump \/ NoDirection => Current.op = "jump"
      /\ Label \/ Exit \/ Plain => Current.op \in {"label", "exit", "plain"}
  BY Zenon DEF Use, Define, Undef, Jump, NoDirection, Label, Exit, Plain, Visit
<1> QED BY <1>1, <1>2, <1>3

\* What Mentions says, operation by operation.
LEMMA MentionsByOp ==
    ASSUME NEW i
    PROVE  /\ order[i].op = "use" => Mentions(i)
           /\ order[i].op = "def" => (Mentions(i) <=> order[i].value.of # NoName)
           /\ order[i].op = "undef" => (Mentions(i) <=> InForce(Meaning(order[i].name, i), i) # 0)
           /\ order[i].op \in {"label", "exit", "plain"} => ~Mentions(i)
           /\ Mentions(i) => order[i].op \in {"use", "jump", "def", "undef"}
<1>1. PICK d : d <=> order[i].dir # "" OBVIOUS
<1>2. Mentions(i) <=> \/ order[i].op = "use"
                      \/ order[i].op = "jump" /\ d
                      \/ order[i].op = "def" /\ order[i].value.of # NoName
                      \/ order[i].op = "undef" /\ InForce(Meaning(order[i].name, i), i) # 0
  BY <1>1, Zenon DEF Mentions
<1> QED BY <1>2

\* Every step keeps NamesOK: the reference that a statement adds stands for its name.
LEMMA NamesNext ==
    ASSUME Place, DefsOK, Live, RefsOK, NamesOK, [Next]_vars
    PROVE  NamesOK'
<1>1. ASSUME Pass2, Mentions(m_seq), NEW w \in Written, w = WrittenIn(m_seq),
             m_refs' = Append(m_refs, Reference(w))
      PROVE  NamesOK'
  <2>1. PICK r, q : r = Reference(w) /\ q = Qualify(w) OBVIOUS
  <2>2. r.seq = m_seq /\ r.name = q /\ r.target = Target(w) BY <2>1 DEF Reference
  <2>3. pass = 2 /\ m_seq <= Len(order) /\ q = Meaning(WrittenIn(m_seq), m_seq)
    BY <1>1, <2>1, MentionsAt
  <2>4. r \in Mention BY <2>1, <2>3, ReferenceType
  <2>5. r.target # 0 => r.target = IndexOf(q) BY <2>1, <2>2 DEF Target
  <2>6. r.target # 0 => /\ r.target \in DOMAIN m_defs
                        /\ m_defs[r.target].name = r.name
                        /\ m_defs[r.target].kind # "ReusableLabel"
    BY <2>2, <2>5, IndexFacts
  <2>7. m_refs' = Append(m_refs, r) BY <1>1, <2>1
  <2> QED BY <1>1, <2>2, <2>3, <2>4, <2>6, <2>7, NamesGrow
<1>2. CASE Use
  <2>1. Pass2 /\ m_refs' = Append(m_refs, Reference(Current.name)) BY <1>2, Zenon DEF Use, Pass2
  <2>2. order[m_seq].op = "use" /\ Current = order[m_seq] /\ m_seq \in DOMAIN order
    BY <1>2, <2>1, MentionsAt
  <2>3. Current.name \in Written BY <2>2, StmtFacts
  <2>4. Mentions(m_seq) BY <2>2, MentionsByOp
  <2>5. PICK w : w = Current.name OBVIOUS
  <2>6. w = WrittenIn(m_seq) BY <2>2, <2>5 DEF WrittenIn
  <2>7. w \in Written /\ m_refs' = Append(m_refs, Reference(w)) BY <2>1, <2>3, <2>5
  <2> QED BY <1>1, <2>1, <2>4, <2>6, <2>7
<1>3. CASE Define
  <2>1. Pass2 /\ m_refs' = IF Current.value.of = NoName THEN m_refs
                           ELSE Append(m_refs, Reference(Current.value.of))
    BY <1>3 DEF Define, Pass2
  <2>2. order[m_seq].op = "def" /\ Current = order[m_seq] /\ m_seq \in DOMAIN order
    BY <1>3, <2>1, MentionsAt
  <2>3. Current.value \in Value BY <2>2, StmtFacts
  <2>4. Mentions(m_seq) <=> Current.value.of # NoName BY <2>2, MentionsByOp
  <2>5. CASE Current.value.of = NoName BY <2>1, <2>4, <2>5, NamesGrow
  <2>6. CASE Current.value.of # NoName
    <3>1. PICK w : w = Current.value.of OBVIOUS
    <3>2. w \in Written BY <2>3, <2>6, <3>1 DEF Value
    <3>3. w = WrittenIn(m_seq) BY <2>2, <3>1 DEF WrittenIn
    <3>4. m_refs' = Append(m_refs, Reference(w)) BY <2>1, <2>6, <3>1
    <3> QED BY <1>1, <2>1, <2>4, <2>6, <3>2, <3>3, <3>4
  <2> QED BY <2>5, <2>6
<1>4. CASE Undef
  <2>1. Pass2 /\ m_refs' = IF Qualify(Current.name) \in m_liveConsts
                           THEN Append(m_refs, Reference(Current.name)) ELSE m_refs
    BY <1>4 DEF Undef, Pass2
  <2>2. order[m_seq].op = "undef" /\ Current = order[m_seq] /\ m_seq \in DOMAIN order /\ pass = 2
        /\ \A w : Qualify(w) = Meaning(w, m_seq)
    BY <1>4, <2>1, MentionsAt
  <2>3. PICK w, q : w = Current.name /\ q = Qualify(w) OBVIOUS
  <2>4. w \in Written /\ q = Meaning(w, m_seq) /\ q \in QName BY <2>2, <2>3, StmtFacts
  <2>5. q \in m_liveConsts <=> InForce(q, m_seq) # 0 BY <2>2, <2>4, LiveMeans
  <2>6. Mentions(m_seq) <=> q \in m_liveConsts BY <2>2, <2>3, <2>4, <2>5, MentionsByOp
  <2>7. CASE q \notin m_liveConsts BY <2>1, <2>3, <2>6, <2>7, NamesGrow
  <2>8. CASE q \in m_liveConsts
    <3>1. w = WrittenIn(m_seq) BY <2>2, <2>3 DEF WrittenIn
    <3>2. m_refs' = Append(m_refs, Reference(w)) BY <2>1, <2>3, <2>8
    <3> QED BY <1>1, <2>1, <2>4, <2>6, <2>8, <3>1, <3>2
  <2> QED BY <2>7, <2>8
<1>5. CASE Jump
  <2>1. Pass2 BY <1>5, Zenon DEF Pass2
  <2>2. order[m_seq].op = "jump" /\ Current = order[m_seq] BY <1>5, <2>1, MentionsAt
  <2>3. Current.dir # "" BY <1>5, Zenon DEF Jump
  <2>4. Mentions(m_seq) BY <2>2, <2>3, Zenon DEF Mentions
  <2>5. PICK r : r = [name |-> Current.name, seq |-> m_seq,
                      target |-> FindReusable(Current.name, m_seq, Current.dir = "-")]
    OBVIOUS
  <2>6. m_refs' = Append(m_refs, r) BY <1>5, <2>5, Zenon DEF Jump
  <2>7. r.seq = m_seq BY <2>5
  <2>8. r \in Mention
    <3>1. pass = 2 /\ m_seq \in DOMAIN order /\ m_seq \in Nat BY <2>1, MentionsAt, StmtFacts
    <3>2. FindReusable(order[m_seq].name, m_seq, order[m_seq].dir = "-") \in {0} \cup DOMAIN m_defs
      BY <2>2, <3>1, FoundNearest
    <3>3. DOMAIN m_defs = 1 .. Len(m_defs) BY LenProperties DEF Place
    <3>4. Current.name \in {<<w>> : w \in Word} BY <2>2, <3>1, StmtFacts
    <3>5. Current.name \in QName BY <3>4 DEF QName
    <3>6. FindReusable(Current.name, m_seq, Current.dir = "-") \in Nat BY <2>2, <3>2, <3>3
    <3> QED BY <2>5, <3>1, <3>5, <3>6 DEF Mention
  <2> QED BY <2>1, <2>2, <2>4, <2>6, <2>7, <2>8, NamesGrow
<1>6. CASE NoDirection
  <2>1. Pass2 /\ m_refs' = m_refs BY <1>6, Zenon DEF Pass2, NoDirection
  <2>2. order[m_seq].op = "jump" /\ Current = order[m_seq] BY <1>6, <2>1, MentionsAt
  <2>3. ~(Current.dir # "") BY <1>6, Zenon DEF NoDirection
  <2>4. order[m_seq].op # "use" /\ order[m_seq].op # "def" /\ order[m_seq].op # "undef" BY <2>2
  <2>5. ~Mentions(m_seq) BY <2>2, <2>3, <2>4, Zenon DEF Mentions
  <2> QED BY <2>1, <2>5, NamesGrow
<1>7. CASE Label \/ Exit \/ Plain
  <2>1. Pass2 /\ m_refs' = m_refs BY <1>7, Zenon DEF Pass2, Label, Exit, Plain
  <2>2. ~Mentions(m_seq) BY <1>7, <2>1, MentionsAt, MentionsByOp
  <2> QED BY <2>1, <2>2, NamesGrow
<1>8. CASE ~Pass2
  <2>1. m_refs' = m_refs
    BY <1>8, Zenon DEF Pass2, Next, Collect, PassOver, StartPass2, Finish, Analysed, vars
  <2> QED BY <1>8, <2>1, NamesGrow
<1> QED BY <1>2, <1>3, <1>4, <1>5, <1>6, <1>7, <1>8 DEF Pass2

-----------------------------------------------------------------------------
(* What the references lead to when both passes are over.                  *)

\* A statement has one definition.
LEMMA OneDefinition ==
    ASSUME Place, DefsOK, NEW d \in DOMAIN m_defs, NEW e \in DOMAIN m_defs,
           m_defs[d].seq = m_defs[e].seq
    PROVE  d = e
<1>1. DOMAIN m_defs = 1 .. Len(m_defs) /\ Len(m_defs) \in Nat BY LenProperties DEF Place
<1>2. d \in Nat /\ e \in Nat BY <1>1
<1>3. \A j \in DOMAIN m_defs : m_defs[j].seq \in Nat
  <2>1. \A j \in DOMAIN m_defs : m_defs[j] \in Definition BY ElementOfSeq, <1>1 DEF Place
  <2> QED BY <2>1 DEF Definition
<1>4. ~Precedes(m_defs[d].seq, m_defs[e].seq) /\ ~Precedes(m_defs[e].seq, m_defs[d].seq)
  BY <1>3 DEF Precedes
<1>5. ~(d < e) /\ ~(e < d) BY <1>4 DEF DefsOK
<1> QED BY <1>2, <1>5

\* The nearest reusable label is one.
LEMMA NearestIsOne ==
    ASSUME Place, NEW i \in DOMAIN order, Nearest(i) # 0
    PROVE  /\ Nearest(i) \in DOMAIN order /\ order[Nearest(i)].op = "label"
           /\ order[Nearest(i)].kind = "Reusable"
<1>1. DOMAIN order = 1 .. Len(order) /\ Len(order) \in Nat BY LenProperties DEF Place
<1>2. PICK all : all = {j \in DOMAIN order : /\ order[j].op = "label" /\ order[j].kind = "Reusable"
                                             /\ order[j].name = order[i].name}
  OBVIOUS
<1>3. PICK up : up <=> order[i].dir = "-" OBVIOUS
<1>4. PICK above, below : above = {j \in all : j < i} /\ below = {j \in all : j > i} OBVIOUS
<1>5. Nearest(i) = IF up THEN Max({0} \cup above) ELSE IF below # {} THEN Min(below) ELSE 0
  BY <1>2, <1>3, <1>4, Zenon DEF Nearest
<1>6. above \in SUBSET Nat /\ below \in SUBSET Nat /\ \A n \in above : n <= Len(order) /\ n # 0
  BY <1>1, <1>2, <1>4
<1>7. Max({0} \cup above) \in {0} \cup above BY <1>1, <1>6, MaxOrZero
<1>8. below # {} => Min(below) \in below BY <1>6, MinFacts
<1>9. Nearest(i) \in all BY <1>4, <1>5, <1>7, <1>8
<1> QED BY <1>2, <1>9

\* A reference stands at a name of the unit, and resolves to what that means.
LEMMA RefMeans ==
    ASSUME Place, RefsOK, NamesOK, NEW r \in Range(m_refs)
    PROVE  /\ NameOf(r) \in UsedNames /\ NameOf(r).seq = r.seq /\ r.seq \in DOMAIN order
           /\ order[r.seq].op # "jump" => Meaning(WrittenAt(NameOf(r)), r.seq) = r.name
           /\ ~Ambiguous(NameOf(r)) => RefersTo(r.target, Meant(NameOf(r)))
<1>1. PICK i, n : i = r.seq /\ n = NameOf(r) OBVIOUS
<1>2. /\ i \in Reached /\ Mentions(i) /\ Resolved(r)
      /\ order[i].op # "jump" => r.name = Meaning(WrittenIn(i), i)
  BY <1>1 DEF NamesOK, RefsOK
<1>3. i \in DOMAIN order
  <2>1. DOMAIN order = 1 .. Len(order) /\ Len(order) \in Nat BY LenProperties DEF Place
  <2>2. m_seq \in 1 .. Len(order) + 1 BY DEF Place
  <2> QED BY <1>2, <2>1, <2>2 DEF Reached
<1>4. n.seq = i /\ n = Name(i, IF order[i].op = "def" THEN "value" ELSE "name")
      /\ n.part = IF order[i].op = "def" THEN "value" ELSE "name"
  BY <1>1 DEF NameOf, Name
<1>5. order[i].op \in {"use", "jump", "def", "undef"} BY <1>2, MentionsByOp
<1>6. n \in UsedNames
  <2>1. CASE order[i].op = "def"
    <3>1. order[i].value.of # NoName BY <1>2, <2>1, MentionsByOp
    <3> QED BY <1>3, <1>4, <2>1, <3>1 DEF UsedNames
  <2>2. CASE order[i].op # "def" BY <1>3, <1>4, <1>5, <2>2 DEF UsedNames
  <2> QED BY <2>1, <2>2
<1>7. order[i].op # "jump" => WrittenAt(n) = WrittenIn(i)
  BY <1>4, <1>5 DEF WrittenAt, WrittenIn
<1>8. ASSUME ~Ambiguous(n) PROVE RefersTo(r.target, Meant(n))
  <2>1. CASE order[i].op = "jump"
    <3>1. order[i].dir # "" BY <1>2, <2>1, Zenon DEF Mentions
    <3>2. Meant(n) = Nearest(i) BY <1>4, <2>1, <3>1, Zenon DEF Meant
    <3> QED BY <1>1, <1>2, <2>1, <3>2 DEF Resolved
  <2>2. CASE order[i].op # "jump"
    <3>1. Meaning(WrittenAt(n), i) = r.name BY <1>2, <1>7, <2>2
    <3>2. Labels(r.name) = {} \/ DefsOf(r.name) = {} BY <1>4, <1>8, <2>2, <3>1 DEF Ambiguous
    <3>3. RefersTo(r.target, Referent(r.name, i)) BY <1>1, <1>2, <2>2, <3>2 DEF Resolved
    <3>4. order[i].op # "undef" => Meant(n) = Referent(r.name, i)
      BY <1>4, <2>2, <3>1, Zenon DEF Meant
    <3>5. order[i].op = "undef" => Meant(n) = InForce(r.name, i)
      BY <1>4, <2>2, <3>1, Zenon DEF Meant
    <3>6. order[i].op = "undef" => InForce(r.name, i) # 0
      <4>1. order[i].op = "undef" => WrittenIn(i) = order[i].name BY DEF WrittenIn
      <4> QED BY <1>2, <2>2, <4>1, MentionsByOp
    <3>7. Meant(n) = Referent(r.name, i) BY <3>4, <3>5, <3>6 DEF Referent
    <3> QED BY <3>3, <3>7
  <2> QED BY <2>1, <2>2
<1> QED BY <1>1, <1>2, <1>3, <1>4, <1>6, <1>7, <1>8

\* A name that means something is referred from.
LEMMA MeansIsReferred ==
    ASSUME Place, NamesOK, pass = 3, NEW name \in UsedNames, Meant(name) # 0
    PROVE  \E r \in Range(m_refs) : NameOf(r) = name
<1>1. PICK i \in DOMAIN order : /\ name.seq = i
                                /\ name = Name(i, IF order[i].op = "def" THEN "value" ELSE "name")
                                /\ \/ order[i].op \in {"use", "undef", "jump"} /\ name.part = "name"
                                   \/ order[i].op = "def" /\ order[i].value.of # NoName
  BY DEF UsedNames, Name
<1>2. Mentions(i)
  <2>1. CASE order[i].op = "use" \/ order[i].op = "def" BY <1>1, <2>1, MentionsByOp
  <2>2. CASE order[i].op = "jump"
    <3>1. order[i].dir # "" BY <1>1, <2>2, Zenon DEF Meant
    <3> QED BY <2>2, <3>1, Zenon DEF Mentions
  <2>3. CASE order[i].op = "undef"
    <3>1. WrittenAt(name) = order[i].name BY <1>1, <2>3 DEF WrittenAt
    <3>2. "undef" # "jump" OBVIOUS
    <3>3. Meant(name) = InForce(Meaning(order[i].name, i), i)
      BY <1>1, <2>3, <3>1, <3>2, Zenon DEF Meant
    <3> QED BY <2>3, <3>3, MentionsByOp
  <2> QED BY <1>1, <2>1, <2>2, <2>3
<1>3. i \in Reached BY AllReached
<1>4. PICK r \in Range(m_refs) : r.seq = i BY <1>2, <1>3 DEF NamesOK
<1> QED BY <1>1, <1>4 DEF NameOf

\* Names that lead to one definition mean the same.
LEMMA SameReferent ==
    ASSUME Place, DefsOK, RefsOK, NamesOK, NEW r \in Range(m_refs), NEW s \in Range(m_refs),
           r.target # 0, s.target = r.target, ~Ambiguous(NameOf(r))
    PROVE  ~Ambiguous(NameOf(s))
<1>1. PICK d, m, n : d = r.target /\ m = NameOf(r) /\ n = NameOf(s) OBVIOUS
<1>2. /\ m.seq = r.seq /\ r.seq \in DOMAIN order /\ n.seq = s.seq
      /\ order[r.seq].op # "jump" => Meaning(WrittenAt(m), r.seq) = r.name
      /\ order[s.seq].op # "jump" => Meaning(WrittenAt(n), s.seq) = s.name
      /\ RefersTo(d, Meant(m))
  BY <1>1, RefMeans
<1>3. d \in DOMAIN m_defs /\ Resolved(r) BY <1>1 DEF RefsOK, Resolved
<1>4. CASE order[s.seq].op = "jump" BY <1>1, <1>2, <1>4 DEF Ambiguous
<1>5. CASE order[s.seq].op # "jump"
  <2>1. m_defs[d].name = s.name /\ m_defs[d].kind # "ReusableLabel" BY <1>1, <1>5 DEF NamesOK
  <2>2. order[r.seq].op # "jump"
    <3> SUFFICES ASSUME order[r.seq].op = "jump" PROVE FALSE OBVIOUS
    <3>1. RefersTo(d, Nearest(r.seq)) BY <1>1, <1>3 DEF Resolved
    <3>2. m_defs[d].seq = Nearest(r.seq) BY <1>1, <3>1 DEF RefersTo
    <3>3. PICK j : j = Nearest(r.seq) OBVIOUS
    <3>4. j # 0
      <4>1. DOMAIN order = 1 .. Len(order) /\ Len(order) \in Nat BY LenProperties DEF Place
      <4>2. m_seq \in 1 .. Len(order) + 1 BY DEF Place
      <4>3. m_defs[d].seq \in DOMAIN order
        <5>1. m_defs[d].seq \in Collected \/ m_defs[d].seq \in Reached BY <1>3 DEF DefsOK
        <5> QED BY <4>1, <4>2, <5>1 DEF Collected, Reached
      <4>4. 0 \notin DOMAIN order BY <4>1
      <4> QED BY <3>2, <3>3, <4>3, <4>4
    <3>5. order[j].op = "label" /\ order[j].kind = "Reusable" BY <1>2, <3>3, <3>4, NearestIsOne
    <3>6. m_defs[d].kind = LabelKind(order[j].kind) BY <1>3, <3>2, <3>3, <3>5 DEF DefsOK
    <3> QED BY <2>1, <3>5, <3>6 DEF LabelKind
  <2>3. r.name = s.name BY <1>1, <2>1, <2>2 DEF NamesOK
  <2> QED BY <1>1, <1>2, <1>5, <2>2, <2>3 DEF Ambiguous
<1> QED BY <1>4, <1>5

\* No reference stands where a definition does.
LEMMA NoneAtDefinition ==
    ASSUME Place, DefsOK, RefsOK, NamesOK, NEW d \in DOMAIN m_defs, NEW r \in Range(m_refs)
    PROVE  NameOf(r) # Name(m_defs[d].seq, "name")
<1> SUFFICES ASSUME NameOf(r) = Name(m_defs[d].seq, "name") PROVE FALSE OBVIOUS
<1>1. r.seq = m_defs[d].seq /\ order[r.seq].op # "def" BY DEF NameOf, Name
<1>2. order[r.seq].op = "label" BY <1>1 DEF DefsOK
<1>3. Mentions(r.seq) BY DEF NamesOK
<1> QED BY <1>2, <1>3, MentionsByOp

\* So each name leads to its definition, and this to all the names that mean it.
LEMMA NamesLead == Place /\ DefsOK /\ RefsOK /\ NamesOK => LeadsToReferent
<1> DEFINE names == {name \in UsedNames : ~Ambiguous(name) /\ Meant(name) # 0}
<1> SUFFICES ASSUME Place, DefsOK, RefsOK, NamesOK, pass = 3, NEW name \in names, NEW word
             PROVE  LET there == Name(Meant(name), "name")
                    IN /\ ProvideDefinition(name, word) = {there}
                       /\ ProvideReferences(name, word) = ProvideReferences(there, word)
                       /\ ProvideReferences(there, word) =
                             {there} \cup {n \in names : Meant(n) = Meant(name)}
  BY Zenon DEF LeadsToReferent
<1>1. PICK r \in Range(m_refs) : NameOf(r) = name BY MeansIsReferred
<1>2. PICK d, m, there : d = r.target /\ m = Meant(name) /\ there = Name(m, "name") OBVIOUS
<1>3. \A x \in Range(m_refs) : NameOf(x) \in names =>
          x.target # 0 /\ x.target \in DOMAIN m_defs /\ m_defs[x.target].seq = Meant(NameOf(x))
  <2> TAKE x \in Range(m_refs)
  <2> HAVE NameOf(x) \in names
  <2>1. RefersTo(x.target, Meant(NameOf(x))) BY RefMeans
  <2>2. x.target \in {0} \cup DOMAIN m_defs BY DEF RefsOK, Resolved
  <2> QED BY <2>1, <2>2 DEF RefersTo
<1>4. d # 0 /\ d \in DOMAIN m_defs /\ m_defs[d].seq = m BY <1>1, <1>2, <1>3
<1>5. \A x \in Range(m_refs) : NameOf(x) \in names /\ Meant(NameOf(x)) = m <=> x.target = d
  <2> TAKE x \in Range(m_refs)
  <2>1. ASSUME NameOf(x) \in names, Meant(NameOf(x)) = m PROVE x.target = d
    BY <1>3, <1>4, <2>1, OneDefinition
  <2>2. ASSUME x.target = d PROVE NameOf(x) \in names /\ Meant(NameOf(x)) = m
    <3>1. ~Ambiguous(NameOf(x)) BY <1>1, <1>2, <1>4, <2>2, SameReferent
    <3>2. NameOf(x) \in UsedNames /\ RefersTo(d, Meant(NameOf(x))) BY <2>2, <3>1, RefMeans
    <3>3. Meant(NameOf(x)) = m BY <1>4, <3>2 DEF RefersTo
    <3> QED BY <1>2, <3>1, <3>2, <3>3
  <2> QED BY <2>1, <2>2
<1>6. d \in Nat
  <2>1. DOMAIN m_defs = 1 .. Len(m_defs) /\ Len(m_defs) \in Nat BY LenProperties DEF Place
  <2> QED BY <1>4, <2>1
<1>7. Min({d}) = d
  <2>1. {d} \in SUBSET Nat /\ {d} # {} BY <1>6
  <2>2. Min({d}) \in {d} BY <2>1, MinFacts
  <2> QED BY <2>2
<1>8. SymbolAt(name, word) = d
  <2>1. {x.target : x \in {x \in Range(m_refs) : NameOf(x) = name}} \ {0} = {d}
    <3>1. \A x \in Range(m_refs) : NameOf(x) = name => x.target = d BY <1>2, <1>5
    <3> HIDE DEF names
    <3> QED BY <1>1, <1>2, <1>4, <3>1
  <2> QED BY <1>7, <2>1 DEF SymbolAt
<1>9. SymbolAt(there, word) = d
  <2>1. {x \in Range(m_refs) : NameOf(x) = there} = {} BY <1>2, <1>4, NoneAtDefinition
  <2>2. {x.target : x \in {x \in Range(m_refs) : NameOf(x) = there}} \ {0} = {} BY <2>1
  <2>3. {e \in DOMAIN m_defs : Name(m_defs[e].seq, "name") = there} = {d}
    <3>1. \A e \in DOMAIN m_defs : Name(m_defs[e].seq, "name") = there => m_defs[e].seq = m_defs[d].seq
      BY <1>2, <1>4 DEF Name
    <3> QED BY <1>2, <1>4, <3>1, OneDefinition
  <2> QED BY <1>7, <2>2, <2>3 DEF SymbolAt
<1>10. ProvideDefinition(name, word) = {there} /\ ProvideDefinition(there, word) = {there}
  BY <1>2, <1>4, <1>8, <1>9 DEF ProvideDefinition
<1>11. {NameOf(x) : x \in {x \in Range(m_refs) : d # 0 /\ x.target = d}}
         = {n \in names : Meant(n) = m}
  <2>1. \A n \in names : Meant(n) = m => \E x \in Range(m_refs) : NameOf(x) = n /\ x.target = d
    <3> TAKE n \in names
    <3> HAVE Meant(n) = m
    <3>1. PICK x \in Range(m_refs) : NameOf(x) = n BY MeansIsReferred
    <3> QED BY <1>5, <3>1
  <2> HIDE DEF names
  <2> QED BY <1>4, <1>5, <2>1
<1>12. /\ ProvideReferences(name, word) = {there} \cup {n \in names : Meant(n) = m}
       /\ ProvideReferences(there, word) = {there} \cup {n \in names : Meant(n) = m}
  <2> HIDE DEF names
  <2> QED BY <1>8, <1>9, <1>10, <1>11, Zenon DEF ProvideReferences
<1> HIDE DEF names
<1> QED BY <1>2, <1>10, <1>12

-----------------------------------------------------------------------------
(* The theorem.                                                            *)

\* No statement has been reached at first.
LEMMA NamesStart == Init => NamesOK
<1> SUFFICES ASSUME Init PROVE NamesOK OBVIOUS
<1>1. pass = 1 /\ m_refs = <<>> BY DEF Init
<1>2. Range(m_refs) = {} BY <1>1 DEF Range
<1> QED BY <1>1, <1>2 DEF NamesOK, Reached

\* "Jump to any label or constant": from any name of an analysed unit the client
\* gets to what the name means there, and from there to exactly the names that
\* mean it.
THEOREM NamesLeadToReferents == Spec => []LeadsToReferent
<1>1. Init => IInv /\ NamesOK BY Start, NamesStart
<1>2. IInv /\ NamesOK /\ [Next]_vars => (IInv /\ NamesOK)' BY Kept, NamesNext DEF IInv
<1>3. IInv /\ NamesOK => LeadsToReferent BY NamesLead DEF IInv
<1> QED BY <1>1, <1>2, <1>3, PTL DEF Spec

-----------------------------------------------------------------------------
(* Where the symbols of a file stand.                                      *)

\* A definition is that of a statement; labels of a file come in its order.
LEMMA DefAt ==
    ASSUME Place, DefsOK, NEW d \in DOMAIN m_defs
    PROVE  /\ d \in 1 .. Len(m_defs) /\ Len(m_defs) \in Nat
           /\ m_defs[d].seq \in DOMAIN order /\ m_defs[d].kind \in Kinds
           /\ m_defs[d].kind = "GlobalLabel" <=> GlobalAt(m_defs[d].seq)
           /\ m_defs[d].kind = "GlobalLabel" => /\ m_defs[d].name \in {<<w>> : w \in Word}
                                                /\ m_defs[d].name = order[m_defs[d].seq].name
           /\ IsLocal(m_defs[d]) => \E w \in Word : m_defs[d].name = Scope(m_defs[d].seq) \o <<w>>
<1>1. PICK i : i = m_defs[d].seq OBVIOUS
<1>2. /\ d \in 1 .. Len(m_defs) /\ Len(m_defs) \in Nat /\ m_defs[d] \in Definition
      /\ DOMAIN order = 1 .. Len(order) /\ Len(order) \in Nat
  BY LenProperties DEF Place
<1>3. Collected \subseteq DOMAIN order /\ Reached \subseteq DOMAIN order
  BY <1>2 DEF Collected, Reached, Place
<1>4. \/ /\ i \in Collected /\ order[i].op = "label"
         /\ m_defs[d].name = LabelName(i) /\ m_defs[d].kind = LabelKind(order[i].kind)
      \/ /\ i \in Reached /\ order[i].op = "def"
         /\ m_defs[d].name = ConstName(i) /\ m_defs[d].kind = ConstKind(i)
  BY <1>1 DEF DefsOK
<1>5. i \in DOMAIN order /\ order[i] \in Stmt BY <1>3, <1>4 DEF Place
<1>6. m_defs[d].kind \in Kinds BY <1>2 DEF Definition
<1>7. CASE order[i].op = "label"
  <2>1. /\ order[i].kind \in {"Global", "Local", "Reusable"}
        /\ \E w \in Word : order[i].name = <<w>>
    BY <1>5, <1>7 DEF Stmt
  <2>2. m_defs[d].name = LabelName(i) /\ m_defs[d].kind = LabelKind(order[i].kind)
    BY <1>4, <1>7
  <2> QED BY <1>1, <1>2, <1>5, <1>6, <1>7, <2>1, <2>2 DEF LabelKind, LabelName, GlobalAt, IsLocal
<1>8. CASE order[i].op = "def"
  <2>1. \E w \in Word : order[i].name = <<w>> BY <1>5, <1>8 DEF Stmt
  <2>2. m_defs[d].name = ConstName(i) /\ m_defs[d].kind = ConstKind(i) BY <1>4, <1>8
  <2> QED BY <1>1, <1>2, <1>5, <1>6, <1>8, <2>1, <2>2 DEF ConstKind, ConstName, GlobalAt, IsLocal
<1> QED BY <1>4, <1>7, <1>8

\* Where two statements of a file stand.
LEMMA LayoutFacts ==
    ASSUME NEW layout \in Lies
    PROVE  /\ DOMAIN layout = DOMAIN order
           /\ \A i \in DOMAIN order : layout[i].line \in Nat /\ layout[i].col \in Nat
           /\ \A i, j \in DOMAIN order :
                 i < j /\ layout[i].file = layout[j].file =>
                     \/ layout[i].line < layout[j].line
                     \/ layout[i].line = layout[j].line /\ layout[i].col < layout[j].col
<1>1. layout \in Layouts /\ DOMAIN layout = DOMAIN order BY DEF Lies, Fits
<1>2. \A i \in DOMAIN layout : {layout[i].line, layout[i].col} \subseteq Nat BY <1>1, LayoutsAssumption
<1>3. \A i, j \in DOMAIN layout :
          i < j /\ layout[i].file = layout[j].file =>
              Before(<<layout[i].line, layout[i].col>>, <<layout[j].line, layout[j].col>>)
  BY <1>1, LayoutsAssumption
<1> QED BY <1>1, <1>2, <1>3 DEF Before

\* A file has more lines than the number of any.
LEMMA LinesFacts ==
    ASSUME Place, NEW layout \in Lies, NEW f, NEW i \in Here(layout, f)
    PROVE  Lines(layout, f) \in Nat /\ layout[i].line < Lines(layout, f)
<1>1. DOMAIN order = 1 .. Len(order) /\ Len(order) \in Nat BY LenProperties DEF Place
<1>2. PICK H : H = Here(layout, f) OBVIOUS
<1>3. H \in SUBSET Nat /\ H # {} /\ H \subseteq DOMAIN order /\ \A j \in H : j <= Len(order)
  BY <1>1, <1>2 DEF Here
<1>4. PICK m \in H : \A j \in H : j <= m BY <1>1, <1>3, LargestOf
<1>5. PICK S : S = {layout[j].line : j \in H} OBVIOUS
<1>6. \A j \in H : j \in DOMAIN order /\ j \in Nat /\ j <= m /\ layout[j].file = f
  BY <1>1, <1>2, <1>3, <1>4 DEF Here
<1>7. \A j \in H : layout[j].line \in Nat /\ layout[j].line <= layout[m].line
  BY <1>6, LayoutFacts
<1>8. S \in SUBSET Nat /\ S # {} /\ layout[m].line \in Nat /\ \A l \in S : l <= layout[m].line
  BY <1>4, <1>5, <1>7
<1>9. Max(S) \in Nat /\ \A l \in S : l <= Max(S) BY <1>8, MaxFacts
<1>10. layout[i].line \in S BY <1>2, <1>5
<1>11. Lines(layout, f) = 1 + Max(S) BY <1>2, <1>5 DEF Lines
<1>12. layout[i].line \in Nat BY <1>2, <1>7
<1> QED BY <1>9, <1>10, <1>11, <1>12

\* Global labels of a file, by their definitions.
LEMMA LabelsFacts ==
    ASSUME Place, DefsOK, NEW layout \in Lies, NEW f, NEW g \in GlobalLabels(layout, f)
    PROVE  /\ g \in DOMAIN m_defs /\ g \in Nat /\ g # 0 /\ GlobalAt(m_defs[g].seq)
           /\ m_defs[g].seq \in Here(layout, f) /\ m_defs[g].kind = "GlobalLabel"
           /\ LineOf(layout, g) = layout[m_defs[g].seq].line
           /\ LineOf(layout, g) \in Nat
           /\ \A e \in GlobalLabels(layout, f) :
                 g < e => /\ m_defs[g].seq < m_defs[e].seq
                          /\ LineOf(layout, g) <= LineOf(layout, e)
<1>1. /\ \A e \in GlobalLabels(layout, f) :
            e \in DOMAIN m_defs /\ m_defs[e].kind = "GlobalLabel" /\ layout[m_defs[e].seq].file = f
  BY DEF GlobalLabels, DefsIn
<1>2. \A e \in GlobalLabels(layout, f) :
            /\ e \in Nat /\ e # 0 /\ m_defs[e].seq \in DOMAIN order /\ GlobalAt(m_defs[e].seq)
  BY <1>1, DefAt
<1>3. \A i \in DOMAIN order : i \in Nat BY LenProperties DEF Place
<1>4. \A e \in GlobalLabels(layout, f) : g < e => m_defs[g].seq < m_defs[e].seq
  <2> TAKE e \in GlobalLabels(layout, f)
  <2> HAVE g < e
  <2>1. Precedes(m_defs[g].seq, m_defs[e].seq) BY <1>1 DEF DefsOK
  <2> QED BY <1>2, <2>1 DEF Precedes, GlobalAt
<1>5. \A e \in GlobalLabels(layout, f) :
          g < e => layout[m_defs[g].seq].line <= layout[m_defs[e].seq].line
  <2> TAKE e \in GlobalLabels(layout, f)
  <2> HAVE g < e
  <2>1. PICK i, j : i = m_defs[g].seq /\ j = m_defs[e].seq OBVIOUS
  <2>2. i \in DOMAIN order /\ j \in DOMAIN order /\ i < j /\ layout[i].file = layout[j].file
    BY <1>1, <1>2, <1>4, <2>1
  <2>3. layout[i].line \in Nat /\ layout[j].line \in Nat BY <2>2, LayoutFacts
  <2>4. layout[i].line < layout[j].line \/ layout[i].line = layout[j].line BY <2>2, LayoutFacts
  <2> QED BY <2>1, <2>3, <2>4
<1>6. layout[m_defs[g].seq].line \in Nat BY <1>2, LayoutFacts
<1>7. m_defs[g].seq \in Here(layout, f) BY <1>1, <1>2 DEF Here
<1> QED BY <1>1, <1>2, <1>4, <1>5, <1>6, <1>7 DEF LineOf

\* The next label of a file, or its end.
LEMMA NextLineFacts ==
    ASSUME Place, DefsOK, NEW layout \in Lies, NEW f, NEW g \in GlobalLabels(layout, f)
    PROVE  /\ NextLine(layout, f, g) \in Nat
           /\ \A e \in GlobalLabels(layout, f) : g < e => NextLine(layout, f, g) <= LineOf(layout, e)
           /\ \/ NextLine(layout, f, g) = Lines(layout, f)
              \/ \E e \in GlobalLabels(layout, f) : g < e /\ NextLine(layout, f, g) = LineOf(layout, e)
<1>1. PICK L : L = {e \in GlobalLabels(layout, f) : e > g} OBVIOUS
<1>2. NextLine(layout, f, g) = IF L = {} THEN Lines(layout, f) ELSE LineOf(layout, Min(L))
  BY <1>1, Zenon DEF NextLine
<1>3. \A e \in GlobalLabels(layout, f) : e \in Nat /\ LineOf(layout, e) \in Nat BY LabelsFacts
<1>4. L \in SUBSET Nat /\ \A e \in L : e \in GlobalLabels(layout, f) /\ g < e BY <1>1, <1>3
<1>5. CASE L = {}
  <2>1. \A e \in GlobalLabels(layout, f) : ~(g < e) BY <1>1, <1>3, <1>5
  <2>2. Lines(layout, f) \in Nat BY LabelsFacts, LinesFacts
  <2> QED BY <1>2, <1>5, <2>1, <2>2
<1>6. CASE L # {}
  <2>1. PICK m : m = Min(L) OBVIOUS
  <2>2. m \in L /\ \A e \in L : m <= e BY <1>4, <1>6, <2>1, MinFacts
  <2>3. m \in GlobalLabels(layout, f) /\ g < m BY <1>4, <2>2
  <2>4. \A e \in GlobalLabels(layout, f) : g < e => e = m \/ m < e
    BY <1>1, <1>3, <2>2, <2>3
  <2>5. \A e \in GlobalLabels(layout, f) : m < e => LineOf(layout, m) <= LineOf(layout, e)
    BY <2>3, LabelsFacts
  <2>6. NextLine(layout, f, g) = LineOf(layout, m) BY <1>2, <1>6, <2>1
  <2>7. LineOf(layout, m) \in Nat BY <1>3, <2>3
  <2> QED BY <2>3, <2>4, <2>5, <2>6, <2>7
<1> QED BY <1>5, <1>6

-----------------------------------------------------------------------------
(* Folds.                                                                  *)

\* A line that is folded with a global label, for more than its own line.
Folded(layout, f, g, line) ==
    /\ LineOf(layout, g) < LineAbove(NextLine(layout, f, g))
    /\ LineOf(layout, g) <= line /\ line <= LineAbove(NextLine(layout, f, g))

\* No line is folded with a label and with a later one.
LEMMA FoldsApart ==
    ASSUME Place, DefsOK, NEW layout \in Lies, NEW f, NEW line \in Nat,
           NEW g \in GlobalLabels(layout, f), NEW e \in GlobalLabels(layout, f),
           Folded(layout, f, g, line), Folded(layout, f, e, line)
    PROVE  ~(g < e)
<1> SUFFICES ASSUME g < e PROVE FALSE OBVIOUS
<1>1. PICK n : n = NextLine(layout, f, g) OBVIOUS
<1>2. PICK a, b : a = LineOf(layout, g) /\ b = LineOf(layout, e) OBVIOUS
<1>3. n \in Nat /\ n <= b BY <1>1, <1>2, NextLineFacts
<1>4. a \in Nat /\ b \in Nat BY <1>2, LabelsFacts
<1>5. a < LineAbove(n) /\ line <= LineAbove(n) /\ b <= line BY <1>1, <1>2 DEF Folded
<1> QED BY <1>3, <1>4, <1>5 DEF LineAbove

\* A line is folded with the label of its scope.
LEMMA ScopeFolds ==
    ASSUME Place, DefsOK, NEW layout \in Lies, NEW f, NEW i \in Here(layout, f),
           NEW g \in GlobalLabels(layout, f), m_defs[g].seq < i,
           \A j \in DOMAIN order : GlobalAt(j) /\ j < i => j <= m_defs[g].seq,
           \A j \in DOMAIN order :
               GlobalAt(j) /\ m_defs[g].seq < j => layout[j].line # layout[i].line \/ layout[j].file # f,
           LineOf(layout, g) < layout[i].line
    PROVE  Folded(layout, f, g, layout[i].line)
<1>1. PICK n, a, line : n = NextLine(layout, f, g) /\ a = LineOf(layout, g) /\ line = layout[i].line
  OBVIOUS
<1>2. n \in Nat /\ a \in Nat BY <1>1, NextLineFacts, LabelsFacts
<1>3. i \in DOMAIN order /\ i \in Nat /\ layout[i].file = f /\ line \in Nat
  BY <1>1, LenProperties, LayoutFacts DEF Here, Place
<1>4. line < n
  <2>1. CASE n = Lines(layout, f) BY <1>1, <2>1, LinesFacts
  <2>2. ASSUME NEW e \in GlobalLabels(layout, f), g < e, n = LineOf(layout, e) PROVE line < n
    <3>1. PICK j : j = m_defs[e].seq OBVIOUS
    <3>2. /\ j \in DOMAIN order /\ GlobalAt(j) /\ layout[j].file = f /\ n = layout[j].line
          /\ m_defs[g].seq < j
      BY <2>2, <3>1, LabelsFacts DEF Here
    <3>3. j \in Nat /\ m_defs[g].seq \in Nat
      <4>1. \A k \in DOMAIN order : k \in Nat BY LenProperties DEF Place
      <4> QED BY <3>2, <4>1, LabelsFacts DEF Here
    <3>4. n # line /\ j # i BY <1>1, <3>2
    <3>5. i < j BY <1>3, <3>2, <3>3, <3>4
    <3>6. line < n \/ line = n BY <1>1, <1>3, <3>2, <3>5, LayoutFacts
    <3> QED BY <3>4, <3>6
  <2> QED BY <1>1, <2>1, <2>2, NextLineFacts
<1>5. a < line BY <1>1
<1>6. LineAbove(n) = n - 1 BY <1>2, <1>3, <1>4 DEF LineAbove
<1> QED BY <1>1, <1>2, <1>3, <1>4, <1>5, <1>6 DEF Folded

\* A global label of a file is among its definitions once pass 1 is over.
LEMMA LabelDefined ==
    ASSUME Place, DefsOK, pass = 3, NEW layout, NEW f, NEW j \in Here(layout, f), GlobalAt(j)
    PROVE  \E g \in GlobalLabels(layout, f) : m_defs[g].seq = j
<1>1. j \in DOMAIN order /\ layout[j].file = f BY DEF Here
<1>2. j \in Collected
  <2>1. DOMAIN order = 1 .. Len(order) BY LenProperties DEF Place
  <2> QED BY <1>1, <2>1 DEF Collected
<1>3. PICK g \in DOMAIN m_defs : m_defs[g].seq = j BY <1>2 DEF DefsOK, GlobalAt
<1>4. m_defs[g].kind = "GlobalLabel" BY <1>3, DefAt
<1> QED BY <1>1, <1>3, <1>4 DEF GlobalLabels, DefsIn

\* What the folds of labels say of one line.
StartsAt(layout, f, line) ==
    {r.start : r \in {r \in LabelFolds(layout, f) : r.start <= line /\ line <= r.end}}
LEMMA StartsFacts ==
    ASSUME Place, DefsOK, NEW layout \in Lies, NEW f, NEW line \in Nat
    PROVE  /\ \A g \in GlobalLabels(layout, f) :
                  Folded(layout, f, g, line) => LineOf(layout, g) \in StartsAt(layout, f, line)
           /\ \A s \in StartsAt(layout, f, line) :
                  \E g \in GlobalLabels(layout, f) : Folded(layout, f, g, line) /\ s = LineOf(layout, g)
           /\ \A s, t \in StartsAt(layout, f, line) : s = t
           /\ Cardinality(StartsAt(layout, f, line)) <= 1
<1>1. ASSUME NEW g \in GlobalLabels(layout, f), Folded(layout, f, g, line)
      PROVE  LineOf(layout, g) \in StartsAt(layout, f, line)
  <2>1. PICK r : r = Fold(LineOf(layout, g), LineAbove(NextLine(layout, f, g))) OBVIOUS
  <2>2. r.start = LineOf(layout, g) /\ r.end = LineAbove(NextLine(layout, f, g))
    BY <2>1 DEF Fold
  <2>3. r.end > r.start
    <3>1. LineOf(layout, g) \in Nat /\ LineAbove(NextLine(layout, f, g)) \in Nat
      BY LabelsFacts, NextLineFacts DEF LineAbove
    <3> QED BY <1>1, <2>2, <3>1 DEF Folded
  <2>4. r \in LabelFolds(layout, f) BY <2>1, <2>3 DEF LabelFolds, Proper
  <2> QED BY <1>1, <2>2, <2>4 DEF StartsAt, Folded
<1>2. ASSUME NEW s \in StartsAt(layout, f, line)
      PROVE  \E g \in GlobalLabels(layout, f) : Folded(layout, f, g, line) /\ s = LineOf(layout, g)
  <2>1. PICK r \in LabelFolds(layout, f) : r.start <= line /\ line <= r.end /\ s = r.start
    BY DEF StartsAt
  <2>2. PICK g \in GlobalLabels(layout, f) :
            r = Fold(LineOf(layout, g), LineAbove(NextLine(layout, f, g))) /\ r.end > r.start
    BY <2>1 DEF LabelFolds, Proper
  <2>3. r.start = LineOf(layout, g) /\ r.end = LineAbove(NextLine(layout, f, g))
    BY <2>2 DEF Fold
  <2>4. LineOf(layout, g) \in Nat /\ LineAbove(NextLine(layout, f, g)) \in Nat
    BY LabelsFacts, NextLineFacts DEF LineAbove
  <2> QED BY <2>1, <2>2, <2>3, <2>4 DEF Folded
<1>3. \A s, t \in StartsAt(layout, f, line) : s = t
  <2> TAKE s, t \in StartsAt(layout, f, line)
  <2>1. PICK g \in GlobalLabels(layout, f) : Folded(layout, f, g, line) /\ s = LineOf(layout, g)
    BY <1>2
  <2>2. PICK e \in GlobalLabels(layout, f) : Folded(layout, f, e, line) /\ t = LineOf(layout, e)
    BY <1>2
  <2>3. ~(g < e) /\ ~(e < g) BY <2>1, <2>2, FoldsApart
  <2>4. g \in Nat /\ e \in Nat BY LabelsFacts
  <2>5. g = e BY <2>3, <2>4
  <2> QED BY <2>1, <2>2, <2>5
<1>4. Cardinality(StartsAt(layout, f, line)) <= 1
  <2>1. PICK S : S = StartsAt(layout, f, line) OBVIOUS
  <2>2. S = {} \/ \E s : S = {s} BY <1>3, <2>1
  <2>3. Cardinality(S) \in {0, 1} BY <2>2, FS_EmptySet, FS_Singleton
  <2> QED BY <2>1, <2>3
<1> QED BY <1>1, <1>2, <1>3, <1>4

\* The label whose scope a statement is in, the last above it, as LabelFoldsAreScopes
\* has it.
LEMMA ScopeAt ==
    ASSUME Place, NEW i \in DOMAIN order
    PROVE  LET globals == {j \in DOMAIN order : order[j].op = "label" /\ order[j].kind = "Global"}
               scope == Max({0} \cup {j \in globals : j < i})
           IN /\ globals = {j \in DOMAIN order : GlobalAt(j)}
              /\ scope # 0 => /\ scope \in DOMAIN order /\ GlobalAt(scope) /\ scope < i
                              /\ \A j \in DOMAIN order : GlobalAt(j) /\ j < i => j <= scope
<1> DEFINE globals == {j \in DOMAIN order : order[j].op = "label" /\ order[j].kind = "Global"}
<1>1. globals = {j \in DOMAIN order : GlobalAt(j)} BY DEF GlobalAt
<1>2. DOMAIN order = 1 .. Len(order) /\ Len(order) \in Nat BY LenProperties DEF Place
<1>3. PICK S : S = {j \in globals : j < i} OBVIOUS
<1>4. S \in SUBSET Nat /\ \A n \in S : n <= i /\ n # 0 BY <1>2, <1>3
<1>5. PICK scope : scope = Max({0} \cup S) OBVIOUS
<1>6. scope \in {0} \cup S /\ \A n \in S : n <= scope
  <2>1. PICK b \in Nat : b = i BY <1>2
  <2>2. S \in SUBSET Nat /\ \A n \in S : n <= b /\ n # 0 BY <1>4, <2>1
  <2>3. /\ Max({0} \cup S) \in {0} \cup S /\ (Max({0} \cup S) = 0 <=> S = {})
        /\ \A n \in S : n <= Max({0} \cup S)
    BY <2>2, MaxOrZero, ZenonT(30)
  <2> QED BY <1>5, <2>3, Zenon
<1>7. scope # 0 => /\ scope \in DOMAIN order /\ GlobalAt(scope) /\ scope < i
                   /\ \A j \in DOMAIN order : GlobalAt(j) /\ j < i => j <= scope
  BY <1>1, <1>3, <1>6
<1> QED BY <1>1, <1>3, <1>5, <1>7

\* What LabelFoldsAreScopes says of one line.
LEMMA LineFolds ==
    ASSUME Place, DefsOK, pass = 3, NEW layout \in Lies, NEW f, NEW i \in Here(layout, f)
    PROVE  LET line == layout[i].line
               globals == {j \in DOMAIN order : order[j].op = "label" /\ order[j].kind = "Global"}
               scope == Max({0} \cup {j \in globals : j < i})
               alone == \A j \in globals : j > scope => layout[j].line # line \/ layout[j].file # f
               starts == {r.start : r \in {r \in LabelFolds(layout, f) : r.start <= line /\ line <= r.end}}
           IN /\ Cardinality(starts) <= 1
              /\ scope # 0 /\ alone /\ (scope # 0 => layout[scope].file = f /\ layout[scope].line < line) =>
                   starts = {layout[scope].line}
<1> DEFINE globals == {j \in DOMAIN order : order[j].op = "label" /\ order[j].kind = "Global"}
<1>1. PICK line, scope, starts :
          /\ line = layout[i].line /\ scope = Max({0} \cup {j \in globals : j < i})
          /\ starts = StartsAt(layout, f, line)
  OBVIOUS
<1>2. i \in DOMAIN order /\ layout[i].file = f /\ line \in Nat BY <1>1, LayoutFacts DEF Here
<1>3. Cardinality(starts) <= 1 /\ \A s, t \in starts : s = t BY <1>1, <1>2, StartsFacts
<1>4. globals = {j \in DOMAIN order : GlobalAt(j)} BY DEF GlobalAt
<1>5. scope # 0 => /\ scope \in DOMAIN order /\ GlobalAt(scope) /\ scope < i
                   /\ \A j \in DOMAIN order : GlobalAt(j) /\ j < i => j <= scope
  BY <1>1, <1>2, ScopeAt
<1>6. ASSUME scope # 0, \A j \in globals : j > scope => layout[j].line # line \/ layout[j].file # f,
             layout[scope].file = f, layout[scope].line < line
      PROVE  starts = {layout[scope].line}
  <2>1. scope \in Here(layout, f) /\ GlobalAt(scope) BY <1>5, <1>6 DEF Here
  <2>2. PICK g \in GlobalLabels(layout, f) : m_defs[g].seq = scope BY <2>1, LabelDefined
  <2>3. LineOf(layout, g) = layout[scope].line BY <2>2, LabelsFacts
  <2>4. \A j \in DOMAIN order :
            GlobalAt(j) /\ m_defs[g].seq < j => layout[j].line # layout[i].line \/ layout[j].file # f
    <3>1. \A j \in DOMAIN order : j \in Nat BY LenProperties DEF Place
    <3> QED BY <1>1, <1>4, <1>5, <1>6, <2>2, <3>1
  <2>5. Folded(layout, f, g, line)
    <3> HIDE DEF globals
    <3> QED BY <1>1, <1>5, <1>6, <2>2, <2>3, <2>4, ScopeFolds
  <2>6. layout[scope].line \in starts BY <1>1, <1>2, <2>3, <2>5, StartsFacts
  <2> QED BY <1>3, <2>6
<1> QED BY <1>1, <1>3, <1>6, Zenon DEF StartsAt

\* Bookmarks of a file, and where the section of one ends.
LEMMA BookmarkFacts ==
    ASSUME Place, NEW layout \in Lies, NEW f, NEW i \in Bookmarks(layout, f)
    PROVE  /\ i \in Nat /\ i \in Here(layout, f) /\ layout[i].line \in Nat
           /\ layout[i].what \in {"bmk", "sbmk"}
           /\ \A j \in Bookmarks(layout, f) : i < j => layout[i].line <= layout[j].line
<1>1. \A j \in Bookmarks(layout, f) :
          /\ j \in DOMAIN order /\ layout[j].file = f /\ j \in Here(layout, f)
          /\ layout[j].what \in {"bmk", "sbmk"}
  BY DEF Bookmarks, Here
<1>2. \A j \in DOMAIN order : j \in Nat BY LenProperties DEF Place
<1>3. \A j \in Bookmarks(layout, f) : layout[j].line \in Nat BY <1>1, LayoutFacts
<1>4. \A j \in Bookmarks(layout, f) :
          i < j => layout[i].line < layout[j].line \/ layout[i].line = layout[j].line
  BY <1>1, LayoutFacts
<1> QED BY <1>1, <1>2, <1>3, <1>4

\* A section ends no later than any bookmark that ends it.
LEMMA SectionLineFacts ==
    ASSUME Place, NEW layout \in Lies, NEW f, NEW i \in Bookmarks(layout, f)
    PROVE  /\ SectionLine(layout, f, i) \in Nat
           /\ \A j \in Bookmarks(layout, f) :
                 EndsSection(layout, i, j) => SectionLine(layout, f, i) <= layout[j].line
<1>1. PICK N : N = {j \in Bookmarks(layout, f) : EndsSection(layout, i, j)} OBVIOUS
<1>2. SectionLine(layout, f, i) = IF N = {} THEN Lines(layout, f) ELSE layout[Min(N)].line
  BY <1>1, Zenon DEF SectionLine
<1>3. N \in SUBSET Nat /\ \A j \in N : j \in Bookmarks(layout, f) BY <1>1, BookmarkFacts
<1>4. CASE N = {}
  <2>1. Lines(layout, f) \in Nat BY BookmarkFacts, LinesFacts
  <2> QED BY <1>1, <1>2, <1>4, <2>1
<1>5. CASE N # {}
  <2>1. PICK m : m = Min(N) OBVIOUS
  <2>2. m \in N /\ \A j \in N : m <= j BY <1>3, <1>5, <2>1, MinFacts
  <2>3. m \in Bookmarks(layout, f) /\ m \in Nat BY <1>3, <2>2
  <2>4. \A j \in N : j = m \/ m < j BY <1>3, <2>2, <2>3
  <2>5. layout[m].line \in Nat /\ \A j \in N : layout[m].line <= layout[j].line
    BY <1>3, <2>3, <2>4, BookmarkFacts
  <2>6. SectionLine(layout, f, i) = layout[m].line BY <1>2, <1>5, <2>1
  <2> QED BY <1>1, <2>5, <2>6
<1> QED BY <1>4, <1>5

\* A fold of a section, if it is proper, ends above every bookmark that ends it.
LEMMA SectionEnds ==
    ASSUME Place, NEW layout \in Lies, NEW f, NEW i \in Bookmarks(layout, f),
           NEW j \in Bookmarks(layout, f), EndsSection(layout, i, j),
           LineAbove(SectionLine(layout, f, i)) > layout[i].line
    PROVE  LineAbove(SectionLine(layout, f, i)) < layout[j].line
<1>1. PICK n, a, b : n = SectionLine(layout, f, i) /\ a = layout[i].line /\ b = layout[j].line OBVIOUS
<1>2. n \in Nat /\ a \in Nat /\ b \in Nat /\ n <= b BY <1>1, SectionLineFacts, BookmarkFacts
<1>3. LineAbove(n) > a BY <1>1
<1>4. LineAbove(n) < b BY <1>2, <1>3 DEF LineAbove
<1> QED BY <1>1, <1>4

\* The sections of two bookmarks are apart, unless both are sub-bookmarks with no bmk
\* between them: those end together.
LEMMA SectionsOfTwo ==
    ASSUME Place, NEW layout \in Lies, NEW f, NEW i \in Bookmarks(layout, f),
           NEW j \in Bookmarks(layout, f), i < j,
           LineAbove(SectionLine(layout, f, i)) > layout[i].line
    PROVE  \/ LineAbove(SectionLine(layout, f, i)) < layout[j].line
           \/ SectionLine(layout, f, i) = SectionLine(layout, f, j)
<1>1. i \in Nat /\ j \in Nat BY BookmarkFacts
<1>2. CASE EndsSection(layout, i, j) BY <1>2, SectionEnds
<1>3. CASE \E k \in Bookmarks(layout, f) : i < k /\ k < j /\ layout[k].what = "bmk"
  <2>1. PICK k \in Bookmarks(layout, f) : i < k /\ k < j /\ layout[k].what = "bmk" BY <1>3
  <2>2. k \in Nat /\ EndsSection(layout, i, k) BY <1>1, <2>1, BookmarkFacts DEF EndsSection
  <2>3. LineAbove(SectionLine(layout, f, i)) < layout[k].line BY <2>1, <2>2, SectionEnds
  <2>4. layout[k].line <= layout[j].line BY <2>1, BookmarkFacts
  <2>5. PICK e, a, b : /\ e = LineAbove(SectionLine(layout, f, i))
                       /\ a = layout[k].line /\ b = layout[j].line
    OBVIOUS
  <2>6. SectionLine(layout, f, i) \in Nat BY SectionLineFacts
  <2>7. e \in Nat /\ a \in Nat /\ b \in Nat BY <2>1, <2>5, <2>6, BookmarkFacts DEF LineAbove
  <2>8. e < b BY <2>3, <2>4, <2>5, <2>7
  <2> QED BY <2>5, <2>8
<1>4. CASE /\ ~EndsSection(layout, i, j)
           /\ ~\E k \in Bookmarks(layout, f) : i < k /\ k < j /\ layout[k].what = "bmk"
  <2>1. layout[i].what # "bmk" /\ layout[j].what # "bmk" BY <1>1, <1>4 DEF EndsSection
  <2>2. ASSUME NEW k \in Bookmarks(layout, f)
        PROVE  EndsSection(layout, i, k) <=> EndsSection(layout, j, k)
    <3>1. k \in Nat BY BookmarkFacts
    <3>2. layout[k].what = "bmk" => ~(i < k /\ k < j) BY <1>4
    <3>3. layout[k].what = "bmk" => k # j /\ k # i BY <2>1
    <3> QED BY <1>1, <2>1, <3>1, <3>2, <3>3 DEF EndsSection
  <2>3. {k \in Bookmarks(layout, f) : EndsSection(layout, i, k)}
          = {k \in Bookmarks(layout, f) : EndsSection(layout, j, k)}
    BY <2>2
  <2> QED BY <2>3, Zenon DEF SectionLine
<1> QED BY <1>2, <1>3, <1>4

\* The folds of sections are in each other or apart, and none runs over a bmk.
LEMMA NestedSections == Place => SectionsNest
<1> SUFFICES ASSUME Place, NEW layout \in Lies, NEW f
             PROVE  LET folds == SectionFolds(layout, f)
                        Within(r, s) == s.start <= r.start /\ r.end <= s.end
                        Apart(r, s) == r.end < s.start \/ s.end < r.start
                    IN \A r \in folds :
                          /\ \A s \in folds : Apart(r, s) \/ Within(r, s) \/ Within(s, r)
                          /\ \A j \in Bookmarks(layout, f) :
                                layout[j].what = "bmk" => layout[j].line \notin r.start + 1 .. r.end
  BY DEF SectionsNest
<1> DEFINE folds == SectionFolds(layout, f)
           Within(r, s) == s.start <= r.start /\ r.end <= s.end
           Apart(r, s) == r.end < s.start \/ s.end < r.start
           End(i) == LineAbove(SectionLine(layout, f, i))
<1>1. ASSUME NEW r \in folds
      PROVE  \E i \in Bookmarks(layout, f) :
                r = Fold(layout[i].line, End(i)) /\ End(i) > layout[i].line
  BY <1>1 DEF SectionFolds, Proper, Fold
<1>2. ASSUME NEW i \in Bookmarks(layout, f) PROVE layout[i].line \in Nat /\ End(i) \in Nat /\ i \in Nat
  <2>1. SectionLine(layout, f, i) \in Nat BY SectionLineFacts
  <2> QED BY <2>1, BookmarkFacts DEF LineAbove
<1>3. ASSUME NEW i \in Bookmarks(layout, f), NEW j \in Bookmarks(layout, f), i < j,
             End(i) > layout[i].line
      PROVE  End(i) < layout[j].line \/ (layout[i].line <= layout[j].line /\ End(j) = End(i))
  BY <1>3, SectionsOfTwo, BookmarkFacts
<1>4. ASSUME NEW r \in folds, NEW s \in folds PROVE Apart(r, s) \/ Within(r, s) \/ Within(s, r)
  <2>1. PICK i \in Bookmarks(layout, f) : r = Fold(layout[i].line, End(i)) /\ End(i) > layout[i].line
    BY <1>1
  <2>2. PICK j \in Bookmarks(layout, f) : s = Fold(layout[j].line, End(j)) /\ End(j) > layout[j].line
    BY <1>1
  <2>3. /\ r.start = layout[i].line /\ r.end = End(i) /\ s.start = layout[j].line /\ s.end = End(j)
        /\ {layout[i].line, End(i), layout[j].line, End(j), i, j} \subseteq Nat
    BY <1>2, <2>1, <2>2 DEF Fold
  <2> HIDE DEF End
  <2>4. CASE i = j BY <2>3, <2>4
  <2>5. CASE i < j BY <1>3, <2>1, <2>3, <2>5
  <2>6. CASE j < i BY <1>3, <2>2, <2>3, <2>6
  <2> QED BY <2>3, <2>4, <2>5, <2>6
<1>5. ASSUME NEW r \in folds, NEW j \in Bookmarks(layout, f), layout[j].what = "bmk"
      PROVE  layout[j].line \notin r.start + 1 .. r.end
  <2>1. PICK i \in Bookmarks(layout, f) : r = Fold(layout[i].line, End(i)) /\ End(i) > layout[i].line
    BY <1>1
  <2>2. /\ r.start = layout[i].line /\ r.end = End(i)
        /\ {layout[i].line, End(i), layout[j].line, i, j} \subseteq Nat
    BY <1>2, <2>1 DEF Fold
  <2>3. CASE i < j
    <3>1. EndsSection(layout, i, j) BY <1>5, <2>2, <2>3 DEF EndsSection
    <3>2. End(i) < layout[j].line BY <2>1, <3>1, SectionEnds
    <3> QED BY <2>2, <3>2
  <2>4. CASE j <= i
    <3>1. layout[j].line <= layout[i].line BY <2>2, <2>4, BookmarkFacts
    <3> QED BY <2>2, <3>1
  <2> QED BY <2>2, <2>3, <2>4
<1> QED BY <1>4, <1>5

\* At the end of the analysis, the folds are the scopes.
LEMMA FoldsScopes == Place /\ DefsOK => FoldsAreScopes
<1> SUFFICES ASSUME Place, DefsOK PROVE FoldsAreScopes OBVIOUS
<1>1. LabelFoldsAreScopes BY LineFolds, Zenon DEF LabelFoldsAreScopes
<1> QED BY <1>1, NestedSections DEF FoldsAreScopes

-----------------------------------------------------------------------------
(* The outline.                                                            *)

Locals(layout, f) == DefsIn(layout, f, IsLocal)
Constants(layout, f) == DefsIn(layout, f, LAMBDA d : d.kind = "Constant")
Orphans(layout, f) == {d \in Locals(layout, f) : Under(layout, f, d) = {}}
Children(layout, f, g) == {d \in Locals(layout, f) : Under(layout, f, d) = {g}}
LabelEntry(layout, f, g) == Symbol(g, GlobalRange(layout, f, g), Children(layout, f, g))
PlainEntry(layout, d) == Symbol(d, DefRange(layout[m_defs[d].seq], m_defs[d]), {})

\* The outline has an entry for each label, and one for what is under none.
LEMMA OutlineIs ==
    ASSUME NEW layout, NEW f
    PROVE  ProvideDocumentSymbols(layout, f) =
               {LabelEntry(layout, f, g) : g \in GlobalLabels(layout, f)}
               \cup {PlainEntry(layout, d) : d \in Constants(layout, f) \cup Orphans(layout, f)}
BY Zenon DEF ProvideDocumentSymbols, LabelEntry, PlainEntry, Locals, Constants, Orphans, Children

\* The label that a symbol is put under.
LEMMA UnderFacts ==
    ASSUME Place, DefsOK, NEW layout \in Lies, NEW f, NEW d
    PROVE  /\ \/ Under(layout, f, d) = {}
              \/ \E g \in GlobalLabels(layout, f) :
                    /\ Under(layout, f, d) = {g} /\ m_defs[g].name = ParentOf(d)
                    /\ InRange(layout, f, d, g)
           /\ \A g \in GlobalLabels(layout, f) :
                 /\ m_defs[g].name = ParentOf(d) /\ InRange(layout, f, d, g)
                 /\ \A e \in GlobalLabels(layout, f) : m_defs[e].name = ParentOf(d) => e = g
                 => Under(layout, f, d) = {g}
<1>1. PICK S : S = {g \in GlobalLabels(layout, f) : m_defs[g].name = ParentOf(d)} OBVIOUS
<1>2. PICK last : last = Max({0} \cup S) OBVIOUS
<1>3. Under(layout, f, d) = IF last # 0 /\ InRange(layout, f, d, last) THEN {last} ELSE {}
  BY <1>1, <1>2, Zenon DEF Under
<1>4. Len(m_defs) \in Nat BY LenProperties DEF Place
<1>5. \A g \in GlobalLabels(layout, f) : g \in Nat /\ g # 0 /\ g <= Len(m_defs)
  <2> TAKE g \in GlobalLabels(layout, f)
  <2>1. g \in DOMAIN m_defs BY LabelsFacts
  <2>2. DOMAIN m_defs = 1 .. Len(m_defs) BY LenProperties DEF Place
  <2> QED BY <1>4, <2>1, <2>2
<1>6. S \in SUBSET Nat /\ \A g \in S : g <= Len(m_defs) /\ g # 0 BY <1>1, <1>5
<1>7. /\ last \in {0} \cup S
      /\ \A n \in S : (\A m \in S : m <= n) => last = n
  <2>1. PICK b \in Nat : b = Len(m_defs) BY <1>4
  <2>2. S \in SUBSET Nat /\ \A g \in S : g <= b /\ g # 0 BY <1>6, <2>1
  <2>3. /\ Max({0} \cup S) \in {0} \cup S /\ (Max({0} \cup S) = 0 <=> S = {})
        /\ \A n \in S : (\A m \in S : m <= n) => Max({0} \cup S) = n
    BY <2>2, MaxOrZero, ZenonT(30)
  <2> QED BY <1>2, <2>3, Zenon
<1>8. ASSUME NEW g \in GlobalLabels(layout, f), m_defs[g].name = ParentOf(d),
             \A e \in GlobalLabels(layout, f) : m_defs[e].name = ParentOf(d) => e = g
      PROVE  last = g
  <2>1. g \in S /\ g \in Nat /\ \A m \in S : m = g BY <1>1, <1>5, <1>8
  <2>2. \A m \in S : m <= g BY <2>1
  <2> QED BY <1>7, <2>1, <2>2
<1> QED BY <1>1, <1>3, <1>5, <1>7, <1>8

\* Entries are told apart by what they are of.
LEMMA EntryFields ==
    ASSUME NEW layout, NEW f
    PROVE  /\ \A g : /\ LabelEntry(layout, f, g).of = g
                     /\ LabelEntry(layout, f, g).range = GlobalRange(layout, f, g)
                     /\ LabelEntry(layout, f, g).children = Children(layout, f, g)
           /\ \A d : /\ PlainEntry(layout, d).of = d /\ PlainEntry(layout, d).children = {}
                     /\ PlainEntry(layout, d).range = DefRange(layout[m_defs[d].seq], m_defs[d])
BY DEF LabelEntry, PlainEntry, Symbol

\* Every symbol is shown once: as an entry, or under one.
LEMMA ShownOnce ==
    ASSUME Place, DefsOK, NEW layout \in Lies, NEW f, NEW d \in DOMAIN m_defs,
           layout[m_defs[d].seq].file = f, m_defs[d].kind # "ReusableLabel"
    PROVE  Cardinality({e \in ProvideDocumentSymbols(layout, f) : e.of = d})
             + Cardinality({e \in ProvideDocumentSymbols(layout, f) : d \in e.children}) = 1
<1>1. PICK out : out = ProvideDocumentSymbols(layout, f) OBVIOUS
<1>2. PICK own : own = {e \in out : e.of = d} OBVIOUS
<1>3. PICK over : over = {e \in out : d \in e.children} OBVIOUS
<1>4. \A e \in out : \/ e.of \in GlobalLabels(layout, f) /\ e = LabelEntry(layout, f, e.of)
                        /\ e.children = Children(layout, f, e.of)
                     \/ /\ e.of \in Constants(layout, f) \cup Orphans(layout, f)
                        /\ e = PlainEntry(layout, e.of) /\ e.children = {}
  <2> TAKE e \in out
  <2>1. ASSUME NEW g \in GlobalLabels(layout, f), e = LabelEntry(layout, f, g)
        PROVE  e.of = g /\ e.children = Children(layout, f, g)
    BY <2>1, EntryFields
  <2>2. ASSUME NEW c \in Constants(layout, f) \cup Orphans(layout, f), e = PlainEntry(layout, c)
        PROVE  e.of = c /\ e.children = {}
    BY <2>2, EntryFields
  <2>3. \/ \E g \in GlobalLabels(layout, f) : e = LabelEntry(layout, f, g)
        \/ \E c \in Constants(layout, f) \cup Orphans(layout, f) : e = PlainEntry(layout, c)
    BY <1>1, OutlineIs
  <2> QED BY <2>1, <2>2, <2>3
<1>5. /\ \A g \in GlobalLabels(layout, f) :
            LabelEntry(layout, f, g) \in out /\ LabelEntry(layout, f, g).of = g
      /\ \A c \in Constants(layout, f) \cup Orphans(layout, f) :
            PlainEntry(layout, c) \in out /\ PlainEntry(layout, c).of = c
  <2>1. \A g \in GlobalLabels(layout, f) : LabelEntry(layout, f, g) \in out BY <1>1, OutlineIs
  <2>2. \A c \in Constants(layout, f) \cup Orphans(layout, f) : PlainEntry(layout, c) \in out
    BY <1>1, OutlineIs
  <2>3. \A g : LabelEntry(layout, f, g).of = g BY DEF LabelEntry, Symbol
  <2>4. \A c : PlainEntry(layout, c).of = c BY DEF PlainEntry, Symbol
  <2> QED BY <2>1, <2>2, <2>3, <2>4
<1>6. m_defs[d].kind \in {"GlobalLabel", "LocalLabel", "Constant", "LocalConstant"}
  BY DefAt DEF Kinds
<1>7. /\ d \in GlobalLabels(layout, f) <=> m_defs[d].kind = "GlobalLabel"
      /\ d \in Constants(layout, f) <=> m_defs[d].kind = "Constant"
      /\ d \in Locals(layout, f) <=> m_defs[d].kind \in {"LocalLabel", "LocalConstant"}
  BY DEF GlobalLabels, Constants, Locals, DefsIn, IsLocal
<1>8. \/ \E x : own = {x} /\ over = {}
      \/ \E x : own = {} /\ over = {x}
  <2>1. CASE d \in GlobalLabels(layout, f)
    <3>1. d \notin Constants(layout, f) /\ d \notin Locals(layout, f) BY <1>7, <2>1
    <3>2. own = {LabelEntry(layout, f, d)}
      BY <1>2, <1>4, <1>5, <2>1, <3>1 DEF Orphans
    <3>3. over = {} BY <1>3, <1>4, <3>1 DEF Children
    <3> QED BY <3>2, <3>3
  <2>2. CASE d \in Constants(layout, f)
    <3>1. d \notin GlobalLabels(layout, f) /\ d \notin Locals(layout, f) BY <1>7, <2>2
    <3>2. own = {PlainEntry(layout, d)} BY <1>2, <1>4, <1>5, <2>2, <3>1
    <3>3. over = {} BY <1>3, <1>4, <3>1 DEF Children
    <3> QED BY <3>2, <3>3
  <2>3. CASE d \in Orphans(layout, f)
    <3>1. d \in Locals(layout, f) /\ Under(layout, f, d) = {} BY <2>3 DEF Orphans
    <3>2. d \notin GlobalLabels(layout, f) BY <1>7, <3>1
    <3>3. own = {PlainEntry(layout, d)} BY <1>2, <1>4, <1>5, <2>3, <3>2
    <3>4. over = {} BY <1>3, <1>4, <3>1 DEF Children
    <3> QED BY <3>3, <3>4
  <2>4. CASE d \in Locals(layout, f) \ Orphans(layout, f)
    <3>1. d \notin GlobalLabels(layout, f) /\ d \notin Constants(layout, f) BY <1>7, <2>4
    <3>2. Under(layout, f, d) # {} BY <2>4 DEF Orphans
    <3>3. PICK g \in GlobalLabels(layout, f) : Under(layout, f, d) = {g} BY <3>2, UnderFacts
    <3>4. own = {} BY <1>2, <1>4, <2>4, <3>1
    <3>5. d \in Children(layout, f, g) BY <2>4, <3>3 DEF Children
    <3>6. \A h : d \in Children(layout, f, h) => h = g BY <3>3 DEF Children
    <3>7. over = {LabelEntry(layout, f, g)}
      <4>1. LabelEntry(layout, f, g).children = Children(layout, f, g) BY EntryFields
      <4> QED BY <1>3, <1>4, <1>5, <3>3, <3>5, <3>6, <4>1
    <3> QED BY <3>4, <3>7
  <2> QED BY <1>6, <1>7, <2>1, <2>2, <2>3, <2>4
<1>9. Cardinality(own) + Cardinality(over) = 1
  <2>1. Cardinality({}) = 0 /\ \A x : Cardinality({x}) = 1 BY FS_EmptySet, FS_Singleton
  <2>2. \/ Cardinality(own) = 1 /\ Cardinality(over) = 0
        \/ Cardinality(own) = 0 /\ Cardinality(over) = 1
    BY <1>8, <2>1, Zenon
  <2> QED BY <2>2
<1> QED BY <1>1, <1>2, <1>3, <1>9

\* Where the name of a definition starts.
StartOf(layout, d) == SelRange(layout[m_defs[d].seq], m_defs[d]).start
LEMMA StartFacts ==
    ASSUME Place, DefsOK, NEW layout \in Lies, NEW d \in DOMAIN m_defs, NEW at, at = layout[m_defs[d].seq]
    PROVE  /\ at.line \in Nat /\ at.col \in Nat
           /\ \E c \in {0, 1} :
                 /\ StartOf(layout, d) = <<at.line, at.col + c>>
                 /\ m_defs[d].kind = "GlobalLabel" => c = 0
           /\ Encloses(DefRange(at, m_defs[d]), StartOf(layout, d))
<1>1. at.line \in Nat /\ at.col \in Nat BY DefAt, LayoutFacts
<1>2. PICK const : const <=> m_defs[d].kind \in {"Constant", "LocalConstant"} OBVIOUS
<1>3. PICK c : c = IF const THEN 1 ELSE 0 OBVIOUS
<1>4. StartOf(layout, d) = <<at.line, at.col + c>>
  BY <1>2, <1>3 DEF StartOf, SelRange, RangeAt, Span
<1>5. c \in {0, 1} /\ (m_defs[d].kind = "GlobalLabel" => c = 0) BY <1>2, <1>3
<1>6. PICK to : to = IF const THEN 3 ELSE 1 OBVIOUS
<1>7. /\ DefRange(at, m_defs[d]).start = <<at.line, at.col + 0>>
      /\ DefRange(at, m_defs[d]).end = <<at.line, at.col + to>>
  BY <1>2, <1>6 DEF DefRange, RangeAt, Span
<1>8. Encloses(DefRange(at, m_defs[d]), StartOf(layout, d))
  BY <1>1, <1>3, <1>4, <1>6, <1>7 DEF Encloses, Before
<1> QED BY <1>1, <1>4, <1>5, <1>8

\* The range of a label starts with it, takes in its name, and reaches the line
\* above the next.
LEMMA GlobalRangeFacts ==
    ASSUME Place, DefsOK, NEW layout \in Lies, NEW f, NEW g \in GlobalLabels(layout, f),
           NEW at, at = layout[m_defs[g].seq], NEW r, r = GlobalRange(layout, f, g)
    PROVE  /\ r.start = <<at.line, at.col>> /\ ~Before(r.end, <<at.line, at.col>>)
           /\ \A l, c \in Nat : l + 1 < NextLine(layout, f, g) => ~Before(r.end, <<l, c>>)
<1>1. PICK n, end, name : /\ n = NextLine(layout, f, g) /\ end = <<LineAbove(n), 0>>
                          /\ name = SelRange(at, m_defs[g])
  OBVIOUS
<1>2. /\ r.start = <<at.line, at.col>>
      /\ r.end = IF Before(end, name.end) THEN name.end ELSE end
  BY <1>1 DEF GlobalRange, Span
<1>3. m_defs[g].kind = "GlobalLabel" /\ g \in DOMAIN m_defs BY LabelsFacts
<1>4. name.end = <<at.line, at.col + 1>> BY <1>1, <1>3 DEF SelRange, RangeAt, Span
<1>5. n \in Nat BY <1>1, NextLineFacts
<1>6. at.line \in Nat /\ at.col \in Nat BY <1>3, StartFacts
<1>7. LineAbove(n) \in Nat /\ \A l \in Nat : l + 1 < n => l < LineAbove(n) BY <1>5 DEF LineAbove
<1>8. ~Before(r.end, <<at.line, at.col>>)
  <2>1. ~Before(name.end, <<at.line, at.col>>) BY <1>4, <1>6 DEF Before
  <2>2. ASSUME ~Before(end, name.end) PROVE ~Before(end, <<at.line, at.col>>)
    BY <1>1, <1>4, <1>6, <1>7, <2>2 DEF Before
  <2> QED BY <1>2, <2>1, <2>2
<1>9. ASSUME NEW l \in Nat, NEW c \in Nat, l + 1 < n PROVE ~Before(r.end, <<l, c>>)
  <2>1. l < LineAbove(n) BY <1>7, <1>9
  <2>2. ~Before(end, <<l, c>>) BY <1>1, <1>7, <2>1 DEF Before
  <2>3. ASSUME Before(end, name.end) PROVE ~Before(name.end, <<l, c>>)
    BY <1>1, <1>4, <1>6, <1>7, <2>1, <2>3 DEF Before
  <2> QED BY <1>2, <2>2, <2>3
<1> QED BY <1>1, <1>2, <1>8, <1>9

\* Every entry encloses what it shows.
LEMMA EntriesEnclose ==
    ASSUME Place, DefsOK, NEW layout \in Lies, NEW f, NEW e \in ProvideDocumentSymbols(layout, f),
           NEW d \in {e.of} \cup e.children
    PROVE  Encloses(e.range, StartOf(layout, d))
<1>1. ASSUME NEW g \in GlobalLabels(layout, f), e = LabelEntry(layout, f, g)
      PROVE  Encloses(e.range, StartOf(layout, d))
  <2>1. e.of = g /\ e.range = GlobalRange(layout, f, g) /\ e.children = Children(layout, f, g)
    BY <1>1 DEF LabelEntry, Symbol
  <2>2. CASE d = g
    <3>1. PICK at, r : at = layout[m_defs[g].seq] /\ r = GlobalRange(layout, f, g) OBVIOUS
    <3>2. g \in DOMAIN m_defs /\ m_defs[g].kind = "GlobalLabel" BY LabelsFacts
    <3>3. at.line \in Nat /\ at.col \in Nat /\ StartOf(layout, g) = <<at.line, at.col + 0>>
      BY <3>1, <3>2, StartFacts
    <3>4. at.col + 0 = at.col BY <3>3
    <3>5. r.start = <<at.line, at.col>> /\ ~Before(r.end, <<at.line, at.col>>)
      BY <3>1, GlobalRangeFacts
    <3>6. ~Before(<<at.line, at.col>>, <<at.line, at.col>>) BY <3>3 DEF Before
    <3> QED BY <2>1, <2>2, <3>1, <3>3, <3>4, <3>5, <3>6 DEF Encloses
  <2>3. CASE d \in Children(layout, f, g)
    <3>1. Under(layout, f, d) = {g} BY <2>3 DEF Children
    <3>2. InRange(layout, f, d, g) BY <3>1, UnderFacts
    <3> QED BY <2>1, <3>2 DEF InRange, StartOf
  <2> QED BY <2>1, <2>2, <2>3
<1>2. ASSUME NEW c \in Constants(layout, f) \cup Orphans(layout, f), e = PlainEntry(layout, c)
      PROVE  Encloses(e.range, StartOf(layout, d))
  <2>1. /\ e.of = c /\ e.children = {}
        /\ e.range = DefRange(layout[m_defs[c].seq], m_defs[c])
    BY <1>2 DEF PlainEntry, Symbol
  <2>2. d = c /\ c \in DOMAIN m_defs BY <2>1 DEF Constants, Orphans, Locals, DefsIn
  <2> QED BY <2>1, <2>2, StartFacts
<1> QED BY <1>1, <1>2, OutlineIs

\* What a symbol's parent is called: the scope it is in.
LEMMA ParentIsScope ==
    ASSUME Place, DefsOK, NEW d \in DOMAIN m_defs, IsLocal(m_defs[d])
    PROVE  /\ Scope(m_defs[d].seq) \in Scopes
           /\ \A v : Scope(m_defs[d].seq) = <<v>> <=> ParentOf(d) = <<v>>
<1>1. PICK i : i = m_defs[d].seq OBVIOUS
<1>2. i \in DOMAIN order BY <1>1, DefAt
<1>3. PICK s : s = Scope(i) OBVIOUS
<1>4. s \in Scopes
  <2>1. i \in 1 .. Len(order) + 1
    <3>1. DOMAIN order = 1 .. Len(order) /\ Len(order) \in Nat BY LenProperties DEF Place
    <3> QED BY <1>2, <3>1
  <2> QED BY <1>3, <2>1, ScopeStep
<1>5. PICK w \in Word : m_defs[d].name = s \o <<w>> BY <1>1, <1>3, DefAt
<1>6. CASE s = <<>>
  <2>1. m_defs[d].name = <<w>> BY <1>5, <1>6
  <2>2. Len(m_defs[d].name) = 1 BY <2>1
  <2>3. ParentOf(d) = <<>> BY <2>2 DEF ParentOf
  <2>4. \A v : <<>> # <<v>> OBVIOUS
  <2> QED BY <1>1, <1>3, <1>4, <1>6, <2>3, <2>4
<1>7. ASSUME NEW v \in Word, s = <<v>> PROVE ParentOf(d) = <<v>>
  <2>1. m_defs[d].name = <<v, w>>
    <3>1. <<v>> \o <<w>> = <<v, w>> BY Pair
    <3> QED BY <1>5, <1>7, <3>1
  <2>2. Len(<<v, w>>) = 2 /\ SubSeq(<<v, w>>, 1, 1) = <<v>> BY Pair
  <2> QED BY <2>1, <2>2 DEF ParentOf
<1>8. CASE \E v \in Word : s = <<v>>
  <2>1. PICK v \in Word : s = <<v>> BY <1>8
  <2>2. ParentOf(d) = <<v>> BY <1>7, <2>1
  <2> QED BY <1>1, <1>3, <1>4, <2>1, <2>2
<1> QED BY <1>4, <1>6, <1>8 DEF Scopes

\* What opens the scope of a local symbol, if its name is that of one label.
LEMMA OpenedBy ==
    ASSUME Place, DefsOK, pass = 3, NEW g \in DOMAIN m_defs, NEW d \in DOMAIN m_defs,
           m_defs[g].kind = "GlobalLabel", Scope(m_defs[d].seq) = m_defs[g].name,
           Cardinality(Named(m_defs[g].name)) = 1
    PROVE  /\ m_defs[g].seq < m_defs[d].seq
           /\ \A e \in Named(m_defs[g].name) : e = g
<1>1. PICK q, i, S : q = m_defs[g].name /\ i = m_defs[d].seq /\ S = Named(q) OBVIOUS
<1>2. DOMAIN order = 1 .. Len(order) /\ Len(order) \in Nat BY LenProperties DEF Place
<1>3. IsFiniteSet(S)
  <2>1. S \subseteq 1 .. Len(m_defs) /\ Len(m_defs) \in Nat
    BY <1>1, LenProperties DEF Named, Place
  <2>2. IsFiniteSet(1 .. Len(m_defs)) BY <2>1, FS_Interval
  <2> QED BY <2>1, <2>2, FS_Subset
<1>4. g \in S BY <1>1 DEF Named
<1>5. \A e \in S : e = g
  <2>1. PICK x : S = {x} BY <1>1, <1>3, FS_Singleton
  <2> QED BY <1>4, <2>1
<1>6. i \in 1 .. Len(order) BY <1>1, <1>2, DefAt
<1>7. PICK above : above = {j \in 1 .. i - 1 : order[j].op = "label" /\ order[j].kind = "Global"}
  OBVIOUS
<1>8. Scope(i) = IF above = {} THEN <<>> ELSE order[Max(above)].name BY <1>7, Zenon DEF Scope
<1>9. above # {}
  <2>1. PICK w \in Word : q = <<w>> BY <1>1, DefAt
  <2>2. <<>> # <<w>> OBVIOUS
  <2> QED BY <1>1, <1>8, <2>1, <2>2
<1>10. PICK j : j = Max(above) OBVIOUS
<1>11. j \in above
  <2>1. PICK b \in Nat : b = Len(order) BY <1>2
  <2>2. above \in SUBSET Nat /\ \A m \in above : m <= b BY <1>2, <1>6, <1>7, <2>1
  <2> QED BY <1>9, <1>10, <2>2, MaxFacts
<1>12. j \in DOMAIN order /\ GlobalAt(j) /\ j < i BY <1>2, <1>6, <1>7, <1>11 DEF GlobalAt
<1>13. order[j].name = q BY <1>1, <1>8, <1>9, <1>10
<1>14. PICK e \in DOMAIN m_defs : m_defs[e].seq = j
  <2>1. j \in Collected BY <1>2, <1>12 DEF Collected
  <2> QED BY <1>12, <2>1 DEF DefsOK, GlobalAt
<1>15. m_defs[e].kind = "GlobalLabel" /\ m_defs[e].name = q BY <1>12, <1>13, <1>14, DefAt
<1>16. e \in S BY <1>1, <1>15 DEF Named
<1>17. m_defs[g].seq = j BY <1>5, <1>14, <1>16
<1> QED BY <1>1, <1>5, <1>12, <1>17

\* A symbol stands in the range of the label that opens its scope, unless the
\* scope ends on the next line.
LEMMA InItsRange ==
    ASSUME Place, DefsOK, NEW layout \in Lies, NEW f, NEW g \in GlobalLabels(layout, f),
           NEW d \in DOMAIN m_defs, layout[m_defs[d].seq].file = f,
           m_defs[g].seq < m_defs[d].seq, LineOf(layout, d) + 1 < NextLine(layout, f, g)
    PROVE  InRange(layout, f, d, g)
<1>1. PICK i, j, at, to, r : /\ i = m_defs[g].seq /\ j = m_defs[d].seq
                             /\ at = layout[i] /\ to = layout[j] /\ r = GlobalRange(layout, f, g)
  OBVIOUS
<1>2. g \in DOMAIN m_defs /\ i \in Here(layout, f) BY <1>1, LabelsFacts
<1>3. i \in DOMAIN order /\ j \in DOMAIN order /\ layout[i].file = layout[j].file
  BY <1>1, <1>2, DefAt DEF Here
<1>4. /\ at.line \in Nat /\ at.col \in Nat /\ to.line \in Nat /\ to.col \in Nat
      /\ at.line < to.line \/ (at.line = to.line /\ at.col < to.col)
  BY <1>1, <1>3, LayoutFacts
<1>5. PICK c \in {0, 1} : StartOf(layout, d) = <<to.line, to.col + c>> BY <1>1, StartFacts
<1>6. r.start = <<at.line, at.col>> BY <1>1 DEF GlobalRange, Span
<1>7. \A l, k \in Nat : l + 1 < NextLine(layout, f, g) => ~Before(r.end, <<l, k>>)
  BY <1>1, GlobalRangeFacts
<1>8. to.line + 1 < NextLine(layout, f, g) BY <1>1 DEF LineOf
<1>9. ~Before(r.end, StartOf(layout, d))
  <2>1. to.col + c \in Nat BY <1>4, <1>5
  <2> QED BY <1>4, <1>5, <1>7, <1>8, <2>1
<1>10. ~Before(StartOf(layout, d), r.start) BY <1>4, <1>5, <1>6 DEF Before
<1> QED BY <1>1, <1>9, <1>10 DEF InRange, Encloses, StartOf

\* A local symbol is under the label of its scope, and under no other.
LEMMA NestedInScope ==
    ASSUME Place, DefsOK, pass = 3, NEW layout \in Lies, NEW f,
           NEW g \in GlobalLabels(layout, f), NEW d \in Locals(layout, f)
    PROVE  LET under == \E e \in ProvideDocumentSymbols(layout, f) : e.of = g /\ d \in e.children
               inScope == Scope(m_defs[d].seq) = m_defs[g].name
               goes == /\ Cardinality(Named(m_defs[g].name)) = 1
                       /\ LineOf(layout, d) + 1 < NextLine(layout, f, g)
           IN (under => inScope) /\ (inScope /\ goes => under)
<1> DEFINE under == \E e \in ProvideDocumentSymbols(layout, f) : e.of = g /\ d \in e.children
<1>1. /\ d \in DOMAIN m_defs /\ IsLocal(m_defs[d]) /\ layout[m_defs[d].seq].file = f
      /\ g \in DOMAIN m_defs /\ m_defs[g].kind = "GlobalLabel"
  BY LabelsFacts DEF Locals, DefsIn
<1>2. under <=> Under(layout, f, d) = {g}
  <2>1. ASSUME NEW e \in ProvideDocumentSymbols(layout, f), e.of = g, d \in e.children
        PROVE  Under(layout, f, d) = {g}
    <3>1. ASSUME NEW h \in GlobalLabels(layout, f), e = LabelEntry(layout, f, h)
          PROVE  Under(layout, f, d) = {g}
      <4>1. e.of = h /\ e.children = Children(layout, f, h) BY <3>1 DEF LabelEntry, Symbol
      <4> QED BY <2>1, <4>1 DEF Children
    <3>2. \A c : e # PlainEntry(layout, c) BY <2>1 DEF PlainEntry, Symbol
    <3> QED BY <3>1, <3>2, OutlineIs
  <2>2. ASSUME Under(layout, f, d) = {g} PROVE under
    <3>1. PICK e : e = LabelEntry(layout, f, g) OBVIOUS
    <3>2. e.of = g /\ e.children = Children(layout, f, g) BY <3>1 DEF LabelEntry, Symbol
    <3>3. d \in e.children BY <2>2, <3>2 DEF Children
    <3>4. e \in ProvideDocumentSymbols(layout, f) BY <3>1, OutlineIs
    <3> QED BY <3>2, <3>3, <3>4
  <2> QED BY <2>1, <2>2
<1>3. PICK v \in Word : m_defs[g].name = <<v>> BY <1>1, DefAt
<1>4. Scope(m_defs[d].seq) = <<v>> <=> ParentOf(d) = <<v>> BY <1>1, ParentIsScope
<1>5. ASSUME Under(layout, f, d) = {g} PROVE Scope(m_defs[d].seq) = m_defs[g].name
  <2>1. PICK h \in GlobalLabels(layout, f) :
            Under(layout, f, d) = {h} /\ m_defs[h].name = ParentOf(d)
    BY <1>5, UnderFacts
  <2>2. h = g BY <1>5, <2>1
  <2> QED BY <1>3, <1>4, <2>1, <2>2
<1>6. ASSUME Scope(m_defs[d].seq) = m_defs[g].name, Cardinality(Named(m_defs[g].name)) = 1,
             LineOf(layout, d) + 1 < NextLine(layout, f, g)
      PROVE  Under(layout, f, d) = {g}
  <2>1. /\ m_defs[g].seq < m_defs[d].seq
        /\ \A e \in Named(m_defs[g].name) : e = g
    BY <1>1, <1>6, OpenedBy
  <2>2. InRange(layout, f, d, g) BY <1>1, <1>6, <2>1, InItsRange
  <2>3. ParentOf(d) = m_defs[g].name BY <1>3, <1>4, <1>6
  <2>4. ASSUME NEW e \in GlobalLabels(layout, f), m_defs[e].name = ParentOf(d) PROVE e = g
    <3>1. e \in DOMAIN m_defs /\ m_defs[e].kind = "GlobalLabel" BY LabelsFacts
    <3>2. e \in Named(m_defs[g].name) BY <2>3, <2>4, <3>1 DEF Named
    <3> QED BY <2>1, <3>2
  <2> QED BY <2>2, <2>3, <2>4, UnderFacts
<1> QED BY <1>2, <1>5, <1>6

\* At the end of the analysis, the outline is complete.
LEMMA OutlineShows == Place /\ DefsOK => OutlineComplete
<1> SUFFICES ASSUME Place, DefsOK, pass = 3, NEW layout \in Lies, NEW f \in Files(layout)
             PROVE
             LET outline == ProvideDocumentSymbols(layout, f)
             IN /\ \A d \in DefsIn(layout, f, LAMBDA d : d.kind # "ReusableLabel") :
                      Cardinality({e \in outline : e.of = d})
                        + Cardinality({e \in outline : d \in e.children}) = 1
                /\ \A e \in outline : \A d \in {e.of} \cup e.children :
                      Encloses(e.range, SelRange(layout[m_defs[d].seq], m_defs[d]).start)
                /\ \A g \in GlobalLabels(layout, f), d \in DefsIn(layout, f, IsLocal) :
                      LET under == \E e \in outline : e.of = g /\ d \in e.children
                          inScope == Scope(m_defs[d].seq) = m_defs[g].name
                          goes == /\ Cardinality(Named(m_defs[g].name)) = 1
                                  /\ LineOf(layout, d) + 1 < NextLine(layout, f, g)
                      IN (under => inScope) /\ (inScope /\ goes => under)
  BY Zenon DEF OutlineComplete
<1>1. \A d \in DefsIn(layout, f, LAMBDA d : d.kind # "ReusableLabel") :
          Cardinality({e \in ProvideDocumentSymbols(layout, f) : e.of = d})
            + Cardinality({e \in ProvideDocumentSymbols(layout, f) : d \in e.children}) = 1
  <2>1. \A d \in DefsIn(layout, f, LAMBDA d : d.kind # "ReusableLabel") :
            /\ d \in DOMAIN m_defs /\ layout[m_defs[d].seq].file = f
            /\ m_defs[d].kind # "ReusableLabel"
    BY DEF DefsIn
  <2> QED BY <2>1, ShownOnce
<1>2. \A e \in ProvideDocumentSymbols(layout, f) : \A d \in {e.of} \cup e.children :
          Encloses(e.range, SelRange(layout[m_defs[d].seq], m_defs[d]).start)
  BY EntriesEnclose DEF StartOf
<1>3. \A g \in GlobalLabels(layout, f), d \in DefsIn(layout, f, IsLocal) :
          /\ (\E e \in ProvideDocumentSymbols(layout, f) : e.of = g /\ d \in e.children)
                => Scope(m_defs[d].seq) = m_defs[g].name
          /\ /\ Scope(m_defs[d].seq) = m_defs[g].name
             /\ Cardinality(Named(m_defs[g].name)) = 1
             /\ LineOf(layout, d) + 1 < NextLine(layout, f, g)
             => \E e \in ProvideDocumentSymbols(layout, f) : e.of = g /\ d \in e.children
  <2>1. Locals(layout, f) = DefsIn(layout, f, IsLocal) BY DEF Locals
  <2> QED BY <2>1, NestedInScope
<1> QED BY <1>1, <1>2, <1>3

-----------------------------------------------------------------------------

\* FoldsAreScopes: the folds of labels never overlap, and a line is folded with the
\* label whose scope it is in, however labels share lines and files include each
\* other; those of bookmarks lie in each other or apart, and run over no bmk.
THEOREM FoldsFollowScopes == Spec => []FoldsAreScopes
<1>1. IInv => FoldsAreScopes BY FoldsScopes DEF IInv
<1> QED BY <1>1, WalkInvariant, PTL

\* OutlineComplete: the outline shows each symbol of a file once, inside the range
\* of what it is shown under, and local symbols under the label of their scope.
THEOREM OutlineFollowsScopes == Spec => []OutlineComplete
<1>1. IInv => OutlineComplete BY OutlineShows DEF IInv
<1> QED BY <1>1, WalkInvariant, PTL

===============================================================================
