----------------------------- MODULE Tokens_proofs -----------------------------
(***************************************************************************)
(* For every text: the tokens tile it.                                     *)
(***************************************************************************)
EXTENDS Tokens, NaturalsLemmas, SequenceTheorems

Src == Seq(STRING)
Types == {"DocComment", "Comment", "LabelDef", "Ident", "LocalLabelDef", "LocalIdent",
          "ReusableLabelDef", "ReusableUp", "ReusableDown", "ReusableRef", "IntLit", "FloatLit",
          "StringLit", "CharLit", "Error"}
         \cup {LongOperator[s] : s \in DOMAIN LongOperator} \cup {Operator[c] : c \in DOMAIN Operator}
Tok == [type : Types \cup {"Newline", "Eof"}, start : Nat, end : Nat]
Errs == [at : Nat, what : {"UnknownEscape", "IncompleteEscape", "Unterminated", "Empty", "TooLong",
                           "NotAscii", "Unexpected"}]

\* What every reader gives for a token that starts at p: it ends in the text and
\* takes no line feed with it, unless it is one.
Good(src, p, r) ==
    /\ r.token \in Tok /\ r.errors \in SUBSET Errs
    /\ r.token.start = p /\ r.token.end \in p + 1 .. Len(src) + 1
    /\ r.token.type = "Newline" => src[p] = LineFeed /\ r.token.end = p + 1
    /\ r.token.type # "Newline" => \A q \in p .. r.token.end - 1 : src[q] # LineFeed

\* The operators' own types are none of the others.
LEMMA OperatorTypes ==
    /\ \A s \in DOMAIN LongOperator : /\ LongOperator[s] # "Newline"
                                       /\ s[2] # "" /\ s[1] # LineFeed /\ s[2] # LineFeed
    /\ \A c \in DOMAIN Operator : Operator[c] # "Newline" /\ c # LineFeed
<1>1. ASSUME NEW s \in DOMAIN LongOperator
      PROVE  /\ LongOperator[s] # "Newline"
             /\ s[2] # "" /\ s[1] # LineFeed /\ s[2] # LineFeed
  <2>1. s \in {<<"&", "&">>, <<"|", "|">>, <<"=", "=">>, <<"!", "=">>, <<"<", "<">>, <<"<", "=">>,
               <<">", ">">>, <<">", "=">>, <<"*", "*">>, <<"%", "%">>, <<".", ".">>}
    BY DEF LongOperator
  <2>2. PICK a \in {"&", "|", "=", "!", "<", ">", "*", "%", "."},
             b \in {"&", "|", "=", "<", ">", "*", "%", "."} : s = <<a, b>>
    BY <2>1
  <2>5. s[1] = a /\ s[2] = b BY <2>2
  <2>6. a # LineFeed /\ b # LineFeed /\ b # "" BY DEF LineFeed
  <2>4. s[2] # "" /\ s[1] # LineFeed /\ s[2] # LineFeed BY <2>5, <2>6
  <2>3. LongOperator[s] # "Newline" BY <2>1 DEF LongOperator
  <2> QED BY <2>3, <2>4
<1>2. ASSUME NEW c \in DOMAIN Operator PROVE Operator[c] # "Newline" /\ c # LineFeed
  BY <1>2 DEF Operator, LineFeed
<1> QED BY <1>1, <1>2
LEMMA TypesFacts == "Newline" \notin Types
<1>1. "Newline" \notin {LongOperator[s] : s \in DOMAIN LongOperator} BY OperatorTypes
<1>2. "Newline" \notin {Operator[c] : c \in DOMAIN Operator} BY OperatorTypes
<1> QED BY <1>1, <1>2 DEF Types

LEMMA ReadGood ==
    ASSUME NEW src \in Src, NEW p \in 1 .. Len(src), NEW type \in Types,
           NEW end \in p + 1 .. Len(src) + 1, \A q \in p .. end - 1 : src[q] # LineFeed,
           NEW E \in SUBSET Errs
    PROVE  Good(src, p, Read(type, p, end, E))
<1>1. Len(src) \in Nat BY LenProperties DEF Src
<1>2. p \in Nat /\ end \in Nat BY <1>1
<1>3. type # "Newline" BY TypesFacts
<1> QED BY <1>1, <1>2, <1>3 DEF Good, Read, Token, Tok

\* Where a loop over the characters stops that goes on while they are not in S.
LEMMA StopFacts ==
    ASSUME NEW n \in Nat, NEW p \in 1 .. n + 1, NEW S \in SUBSET (p .. n + 1), n + 1 \in S
    PROVE  /\ Min(S) \in p .. n + 1 /\ Min(S) \in S
           /\ \A q \in p .. Min(S) - 1 : q \notin S
<1>1. S \in SUBSET Nat /\ S # {} OBVIOUS
<1>2. PICK m : m = Min(S) OBVIOUS
<1>3. m \in S /\ \A k \in S : m <= k BY <1>1, <1>2, MinFacts
<1>4. \A q \in p .. m - 1 : q \notin S
  <2> TAKE q \in p .. m - 1
  <2>1. m \in p .. n + 1 BY <1>3
  <2>2. ~(m <= q) BY <2>1
  <2> QED BY <1>3, <2>2
<1> QED BY <1>2, <1>3, <1>4

\* The loops over the characters of names and digits, and over a comment.
Stop(src, p, C) == Min({q \in p .. Len(src) + 1 : q = Len(src) + 1 \/ ~(src[q] \in C)})
LEMMA StopInSet ==
    ASSUME NEW src \in Src, NEW p \in 1 .. Len(src) + 1, NEW C
    PROVE  /\ Stop(src, p, C) \in p .. Len(src) + 1
           /\ \A q \in p .. Stop(src, p, C) - 1 : src[q] \in C
           /\ p \in 1 .. Len(src) /\ src[p] \in C => Stop(src, p, C) \in p + 1 .. Len(src) + 1
<1>1. PICK n : n = Len(src) /\ n \in Nat BY LenProperties DEF Src
<1>2. PICK S : S = {q \in p .. n + 1 : q = n + 1 \/ ~(src[q] \in C)} OBVIOUS
<1>3. S \in SUBSET (p .. n + 1) /\ n + 1 \in S BY <1>1, <1>2
<1>4. PICK m : m = Min(S) /\ m = Stop(src, p, C) BY <1>1, <1>2 DEF Stop
<1>5. m \in p .. n + 1 /\ m \in S /\ \A q \in p .. m - 1 : q \notin S BY <1>1, <1>3, <1>4, StopFacts
<1>6. \A q \in p .. m - 1 : src[q] \in C
  <2> TAKE q \in p .. m - 1
  <2>1. q \in p .. n + 1 /\ q # n + 1 BY <1>1, <1>5
  <2> QED BY <1>2, <1>5, <2>1
<1>7. ASSUME p \in 1 .. n, src[p] \in C PROVE m # p
  <2>1. p # n + 1 BY <1>1, <1>7
  <2> QED BY <1>2, <1>5, <1>7, <2>1
<1>8. m # p => m \in p + 1 .. n + 1 BY <1>1, <1>5
<1> QED BY <1>1, <1>4, <1>5, <1>6, <1>7, <1>8

LEMMA Characters ==
    /\ LineFeed \notin Body /\ LineFeed \notin Digits /\ LineFeed \notin Digits \cup {"_"}
    /\ \A c \in DOMAIN RadixDigits : LineFeed \notin RadixDigits[c] \cup {"_"} /\ c # LineFeed /\ c # ""
    /\ LineFeed \notin Blank
<1>1. LineFeed \notin Digits BY DEF LineFeed, Digits
<1>2. LineFeed \notin Body BY <1>1, LettersAssumption DEF Body
<1>3. LineFeed # "_" /\ LineFeed \notin Blank BY DEF LineFeed, Blank
<1>4. ASSUME NEW c \in DOMAIN RadixDigits
      PROVE  LineFeed \notin RadixDigits[c] \cup {"_"} /\ c # LineFeed /\ c # ""
  <2>1. c \in {"x", "X", "b", "B", "o", "O"} BY DEF RadixDigits
  <2>2. c # LineFeed /\ c # "" BY <2>1 DEF LineFeed
  <2>3. RadixDigits[c] =
          CASE c \in {"x", "X"} -> Digits \cup {"a", "b", "c", "d", "e", "f", "A", "B", "C", "D", "E", "F"}
            [] c \in {"b", "B"} -> {"0", "1"}
            [] OTHER -> Digits \ {"8", "9"}
    BY <2>1 DEF RadixDigits
  <2>4. LineFeed \notin {"a", "b", "c", "d", "e", "f", "A", "B", "C", "D", "E", "F"}
        /\ LineFeed \notin {"0", "1"}
    BY DEF LineFeed
  <2>5. CASE c \in {"x", "X"} BY <1>1, <1>3, <2>2, <2>3, <2>4, <2>5
  <2>6. CASE c \in {"b", "B"} /\ c \notin {"x", "X"} BY <1>3, <2>2, <2>3, <2>4, <2>6
  <2>7. CASE c \notin {"b", "B"} /\ c \notin {"x", "X"} BY <1>1, <1>3, <2>2, <2>3, <2>7
  <2> QED BY <2>5, <2>6, <2>7
<1> QED BY <1>1, <1>2, <1>3, <1>4

\* A character that there is: At is "" past the end.
LEMMA AtFacts ==
    ASSUME NEW src \in Src, NEW p \in Nat, NEW c, c # "", At(src, p) = c
    PROVE  p \in 1 .. Len(src) /\ src[p] = c
<1>1. DOMAIN src = 1 .. Len(src) BY LenProperties DEF Src
<1> QED BY <1>1 DEF At

Takes(src, p) == At(src, p) # "" /\ At(src, p) # LineFeed
LEMMA AtThere ==
    ASSUME NEW src \in Src, NEW p \in Nat, Takes(src, p)
    PROVE  p \in 1 .. Len(src) /\ src[p] # LineFeed /\ src[p] = At(src, p)
<1>1. DOMAIN src = 1 .. Len(src) BY LenProperties DEF Src
<1> QED BY <1>1 DEF At, Takes

-----------------------------------------------------------------------------

LEMMA CommentGood ==
    ASSUME NEW src \in Src, NEW p \in 1 .. Len(src), src[p] = "#"
    PROVE  Good(src, p, ReadLineComment(src, p))
<1>1. PICK n : n = Len(src) /\ n \in Nat BY LenProperties DEF Src
<1>2. PICK C : C = STRING \ {LineFeed} OBVIOUS
<1>3. src[p] \in C /\ \A q \in 1 .. n : src[q] # LineFeed <=> src[q] \in C
  <2>1. \A q \in 1 .. n : src[q] \in STRING BY <1>1, ElementOfSeq DEF Src
  <2>2. "#" # LineFeed BY DEF LineFeed
  <2> QED BY <1>1, <1>2, <2>1, <2>2
<1>4. PICK end : end = Stop(src, p, C) OBVIOUS
<1>5. end \in p + 1 .. n + 1 /\ \A q \in p .. end - 1 : src[q] # LineFeed
  <2>1. end \in p + 1 .. n + 1 /\ \A q \in p .. end - 1 : src[q] \in C
    BY <1>1, <1>3, <1>4, StopInSet
  <2> QED BY <1>2, <2>1
<1>6. Past(src, p, LAMBDA q : src[q] # LineFeed) = end
  <2>1. \A q \in p .. n + 1 : q = n + 1 \/ q \in 1 .. n BY <1>1
  <2>2. {q \in p .. n + 1 : q = n + 1 \/ ~(src[q] # LineFeed)} = {q \in p .. n + 1 : q = n + 1 \/ ~(src[q] \in C)}
    BY <1>3, <2>1
  <2> QED BY <1>1, <1>4, <2>2 DEF Past, Stop
<1>7. PICK type : type = (IF At(src, p + 1) = "#" THEN "DocComment" ELSE "Comment") OBVIOUS
<1>8. type \in Types
  <2>1. type = "DocComment" \/ type = "Comment" BY <1>7
  <2> QED BY <2>1 DEF Types
<1>9. ReadLineComment(src, p) = Read(type, p, end, {}) BY <1>6, <1>7 DEF ReadLineComment
<1>10. Good(src, p, Read(type, p, end, {})) BY <1>1, <1>5, <1>8, ReadGood
<1> QED BY <1>9, <1>10

\* A token that has come to end without a line feed may take one character more.
Clean(src, p, end) == end \in p + 1 .. Len(src) + 1 /\ \A q \in p .. end - 1 : src[q] # LineFeed
LEMMA CleanGood ==
    ASSUME NEW src \in Src, NEW p \in 1 .. Len(src), NEW type \in Types,
           NEW end, Clean(src, p, end), NEW E \in SUBSET Errs
    PROVE  Good(src, p, Read(type, p, end, E))
<1>1. end \in p + 1 .. Len(src) + 1 /\ \A q \in p .. end - 1 : src[q] # LineFeed BY DEF Clean
<1> QED BY <1>1, ReadGood
Quiet(src, p, end) == \A type \in Types : Good(src, p, Read(type, p, end, {}))
LEMMA QuietGood ==
    ASSUME NEW src \in Src, NEW p \in 1 .. Len(src), NEW end, Clean(src, p, end)
    PROVE  Quiet(src, p, end)
<1>1. PICK E : E = {} OBVIOUS
<1>2. E \in SUBSET Errs BY <1>1
<1>3. ASSUME NEW type \in Types PROVE Good(src, p, Read(type, p, end, E))
  BY <1>2, CleanGood
<1> QED BY <1>1, <1>3 DEF Quiet
LEMMA OneMore ==
    ASSUME NEW src \in Src, NEW p \in 1 .. Len(src), NEW end, Clean(src, p, end),
           Takes(src, end)
    PROVE  Clean(src, p, end + 1)
<1>1. PICK n : n = Len(src) /\ n \in Nat BY LenProperties DEF Src
<1>2. end \in p + 1 .. n + 1 BY <1>1 DEF Clean
<1>9. p \in Nat BY <1>1
<1>3. PICK m \in Nat : m = end BY <1>1, <1>2, <1>9
<1>4. m \in p + 1 .. n + 1 /\ \A q \in p .. m - 1 : src[q] # LineFeed BY <1>2, <1>3 DEF Clean
<1>5. m \in 1 .. n /\ src[m] # LineFeed BY <1>1, <1>3, AtThere
<1>6. m + 1 \in p + 1 .. n + 1 BY <1>1, <1>4, <1>5, <1>9
<1>7. \A q \in p .. m + 1 - 1 : src[q] # LineFeed
  <2> TAKE q \in p .. m + 1 - 1
  <2>1. q = m \/ q \in p .. m - 1 BY <1>9, <1>4, <1>3
  <2> QED BY <1>4, <1>5, <2>1
<1>8. Clean(src, p, m + 1) BY <1>1, <1>6, <1>7 DEF Clean
<1> QED BY <1>3, <1>8

\* The loops over a name's characters, from its second one or its first.
LEMMA BodyAfter ==
    ASSUME NEW src \in Src, NEW p \in 1 .. Len(src), src[p] # LineFeed
    PROVE  Clean(src, p, PastBody(src, p + 1))
<1>1. PICK n : n = Len(src) /\ n \in Nat BY LenProperties DEF Src
<1>2. PICK end : end = PastBody(src, p + 1) /\ end = Stop(src, p + 1, Body) BY DEF PastBody, Past, Stop
<1>3. p + 1 \in 1 .. n + 1 BY <1>1
<1>4. end \in p + 1 .. n + 1 /\ \A q \in p + 1 .. end - 1 : src[q] \in Body
  BY <1>1, <1>2, <1>3, StopInSet
<1>5. \A q \in p .. end - 1 : q = p \/ q \in p + 1 .. end - 1 BY <1>1, <1>4
<1>6. \A q \in p .. end - 1 : src[q] # LineFeed BY <1>4, <1>5, Characters
<1> QED BY <1>1, <1>2, <1>4, <1>6 DEF Clean

LEMMA LocalGood ==
    ASSUME NEW src \in Src, NEW p \in 1 .. Len(src), src[p] = "."
    PROVE  Good(src, p, ReadLocalIdent(src, p))
<1>1. "." # LineFeed /\ ":" # LineFeed /\ ":" # "" BY DEF LineFeed
<1>2. PICK end : end = PastBody(src, p + 1) OBVIOUS
<1>3. Clean(src, p, end) BY <1>1, <1>2, BodyAfter
<1>4. CASE At(src, end) = ":"
  <2>1. Clean(src, p, end + 1) BY <1>1, <1>3, <1>4, OneMore DEF Takes
  <2>2. Good(src, p, Read("LocalLabelDef", p, end + 1, {})) BY <2>1, QuietGood DEF Quiet, Types
  <2> QED BY <1>2, <1>4, <2>2 DEF ReadLocalIdent
<1>5. CASE At(src, end) # ":"
  <2>1. Good(src, p, Read("LocalIdent", p, end, {})) BY <1>3, QuietGood DEF Quiet, Types
  <2> QED BY <1>2, <1>5, <2>1 DEF ReadLocalIdent
<1> QED BY <1>4, <1>5

LEMMA ReusableGood ==
    ASSUME NEW src \in Src, NEW p \in 1 .. Len(src), src[p] = "@"
    PROVE  Good(src, p, ReadReusable(src, p))
<1>1. "@" # LineFeed /\ \A c \in {":", "+", "-"} : c # LineFeed /\ c # "" BY DEF LineFeed
<1>2. PICK end : end = PastBody(src, p + 1) OBVIOUS
<1>3. Clean(src, p, end) BY <1>1, <1>2, BodyAfter
<1>4. ASSUME NEW c \in {":", "+", "-"}, At(src, end) = c PROVE Clean(src, p, end + 1)
  BY <1>1, <1>3, <1>4, OneMore DEF Takes
<1>5. CASE At(src, end) = ":"
  <2>1. Good(src, p, Read("ReusableLabelDef", p, end + 1, {})) BY <1>4, <1>5, QuietGood DEF Quiet, Types
  <2> QED BY <1>2, <1>5, <2>1 DEF ReadReusable
<1>6. CASE At(src, end) = "+"
  <2>1. Good(src, p, Read("ReusableUp", p, end + 1, {})) BY <1>4, <1>6, QuietGood DEF Quiet, Types
  <2> QED BY <1>2, <1>6, <2>1 DEF ReadReusable
<1>7. CASE At(src, end) = "-"
  <2>1. Good(src, p, Read("ReusableDown", p, end + 1, {})) BY <1>4, <1>7, QuietGood DEF Quiet, Types
  <2> QED BY <1>2, <1>7, <2>1 DEF ReadReusable
<1>8. CASE At(src, end) \notin {":", "+", "-"}
  <2>1. Good(src, p, Read("ReusableRef", p, end, {})) BY <1>3, QuietGood DEF Quiet, Types
  <2> QED BY <1>2, <1>8, <2>1 DEF ReadReusable
<1> QED BY <1>5, <1>6, <1>7, <1>8

LEMMA IdentGood ==
    ASSUME NEW src \in Src, NEW p \in 1 .. Len(src), src[p] \in Letters
    PROVE  Good(src, p, ReadIdent(src, p))
<1>1. PICK n : n = Len(src) /\ n \in Nat BY LenProperties DEF Src
<1>2. PICK S : S = {q \in p .. n + 1 : q = n + 1 \/
                      ~(src[q] \in Body \/ (src[q] = "." /\ At(src, q + 1) \in Letters))}
  OBVIOUS
<1>3. PICK end : end = Min(S) OBVIOUS
<1>4. end \in p .. n + 1 /\ end \in S /\ \A q \in p .. end - 1 : q \notin S
  <2>1. p \in 1 .. n + 1 /\ S \in SUBSET (p .. n + 1) /\ n + 1 \in S BY <1>1, <1>2
  <2> QED BY <1>1, <1>3, <2>1, StopFacts
<1>5. end # p
  <2>1. p # n + 1 /\ src[p] \in Body BY <1>1 DEF Body
  <2> QED BY <1>2, <1>4, <2>1
<1>6. Clean(src, p, end)
  <2>1. end \in p + 1 .. n + 1 BY <1>1, <1>4, <1>5
  <2>2. ASSUME NEW q \in p .. end - 1 PROVE src[q] # LineFeed
    <3>1. q \in p .. n + 1 /\ q # n + 1 BY <1>1, <1>4
    <3>2. src[q] \in Body \/ src[q] = "." BY <1>2, <1>4, <3>1
    <3>3. "." # LineFeed BY DEF LineFeed
    <3> QED BY <3>2, <3>3, Characters
  <2> QED BY <1>1, <2>1, <2>2 DEF Clean
<1>7. ":" # LineFeed /\ ":" # "" BY DEF LineFeed
<1>8. ReadIdent(src, p) = IF At(src, end) = ":" THEN Read("LabelDef", p, end + 1, {})
                          ELSE Read("Ident", p, end, {})
  BY <1>1, <1>2, <1>3 DEF ReadIdent, Past
<1>9. CASE At(src, end) = ":"
  <2>1. Clean(src, p, end + 1) BY <1>6, <1>7, <1>9, OneMore DEF Takes
  <2>2. Good(src, p, Read("LabelDef", p, end + 1, {})) BY <2>1, QuietGood DEF Quiet, Types
  <2> QED BY <1>8, <1>9, <2>2
<1>10. CASE At(src, end) # ":"
  <2>1. Good(src, p, Read("Ident", p, end, {})) BY <1>6, QuietGood DEF Quiet, Types
  <2> QED BY <1>8, <1>10, <2>1
<1> QED BY <1>9, <1>10

LEMMA NumberGood ==
    ASSUME NEW src \in Src, NEW p \in 1 .. Len(src), src[p] \in Digits
    PROVE  Good(src, p, ReadNumber(src, p))
<1>1. PICK n : n = Len(src) /\ n \in Nat BY LenProperties DEF Src
<1> DEFINE Digs(q, digits) == Stop(src, q, digits \cup {"_"})
           radix == At(src, p + 1)
           whole == Digs(p, Digits)
<1>2. ReadNumber(src, p) =
        CASE src[p] = "0" /\ radix \in DOMAIN RadixDigits ->
                Read("IntLit", p, Digs(p + 2, RadixDigits[radix]), {})
         [] At(src, whole) = "." /\ At(src, whole + 1) \in Digits
               /\ ~(src[p] = "0" /\ radix \in DOMAIN RadixDigits) ->
                Read("FloatLit", p, Digs(whole + 1, Digits), {})
         [] OTHER -> Read("IntLit", p, whole, {})
  BY DEF ReadNumber, Past, Stop
<1>3. CASE src[p] = "0" /\ radix \in DOMAIN RadixDigits
  <2>1. PICK D : D = RadixDigits[radix] \cup {"_"} /\ LineFeed \notin D /\ radix # LineFeed /\ radix # ""
    BY <1>3, Characters
  <2>2. p + 1 \in Nat BY <1>1
  <2>3. p + 1 \in 1 .. n /\ src[p + 1] # LineFeed BY <1>1, <2>1, <2>2, AtFacts
  <2>4. p + 2 \in 1 .. n + 1 BY <1>1, <2>3
  <2>5. PICK end : end = Stop(src, p + 2, D) OBVIOUS
  <2>6. end \in p + 2 .. n + 1 /\ \A q \in p + 2 .. end - 1 : src[q] \in D
    BY <1>1, <2>4, <2>5, StopInSet
  <2>7. src[p] # LineFeed BY <1>3 DEF LineFeed
  <2>8. ASSUME NEW q \in p .. end - 1 PROVE src[q] # LineFeed
    <3>1. q = p \/ q = p + 1 \/ q \in p + 2 .. end - 1 BY <1>1, <2>6
    <3> QED BY <2>1, <2>3, <2>6, <2>7, <3>1
  <2>9. Clean(src, p, end)
    <3>1. end \in p + 1 .. n + 1 BY <1>1, <2>6
    <3> QED BY <1>1, <2>8, <3>1 DEF Clean
  <2>10. Good(src, p, Read("IntLit", p, end, {})) BY <2>9, QuietGood DEF Quiet, Types
  <2>11. end = Digs(p + 2, RadixDigits[radix]) BY <2>1, <2>5
  <2> HIDE DEF Digs, radix, whole
  <2> QED BY <1>2, <1>3, <2>10, <2>11
<1>4. Clean(src, p, whole)
  <2>1. PICK D : D = Digits \cup {"_"} /\ LineFeed \notin D BY Characters
  <2>2. PICK w : w = Stop(src, p, D) OBVIOUS
  <2>3. p \in 1 .. n + 1 BY <1>1
  <2>6. src[p] \in D BY <2>1
  <2>4. w \in p + 1 .. n + 1 /\ \A q \in p .. w - 1 : src[q] \in D BY <1>1, <2>2, <2>3, <2>6, StopInSet
  <2>5. Clean(src, p, w) BY <1>1, <2>1, <2>4 DEF Clean
  <2> QED BY <2>1, <2>2, <2>5
<1> HIDE DEF whole
<1>5. CASE /\ At(src, whole) = "." /\ At(src, whole + 1) \in Digits
           /\ ~(src[p] = "0" /\ radix \in DOMAIN RadixDigits)
  <2>1. PICK D : D = Digits \cup {"_"} /\ LineFeed \notin D BY Characters
  <2>2. PICK w : w = whole OBVIOUS
  <2>3. w \in p + 1 .. n + 1 /\ w \in Nat BY <1>1, <1>4, <2>2 DEF Clean
  <2>4. "." # "" /\ "." # LineFeed BY DEF LineFeed
  <2>5. w \in 1 .. n /\ src[w] = "." BY <1>1, <1>5, <2>2, <2>3, <2>4, AtFacts
  <2>6. w + 1 \in 1 .. n + 1 BY <1>1, <2>5
  <2>7. PICK end : end = Stop(src, w + 1, D) OBVIOUS
  <2>8. end \in w + 1 .. n + 1 /\ \A q \in w + 1 .. end - 1 : src[q] \in D
    BY <1>1, <2>6, <2>7, StopInSet
  <2>9. ASSUME NEW q \in p .. end - 1 PROVE src[q] # LineFeed
    <3>1. q \in p .. w - 1 \/ q = w \/ q \in w + 1 .. end - 1 BY <1>1, <2>3, <2>8
    <3>2. q \in p .. w - 1 => src[q] # LineFeed BY <1>4, <2>2 DEF Clean
    <3> QED BY <2>1, <2>4, <2>5, <2>8, <3>1, <3>2
  <2>10. Clean(src, p, end)
    <3>1. end \in p + 1 .. n + 1 BY <1>1, <2>3, <2>8
    <3> QED BY <1>1, <2>9, <3>1 DEF Clean
  <2>11. Good(src, p, Read("FloatLit", p, end, {})) BY <2>10, QuietGood DEF Quiet, Types
  <2>12. end = Digs(whole + 1, Digits) BY <2>1, <2>2, <2>7
  <2> HIDE DEF Digs, radix
  <2> QED BY <1>2, <1>5, <2>11, <2>12
<1>6. CASE /\ ~(At(src, whole) = "." /\ At(src, whole + 1) \in Digits)
           /\ ~(src[p] = "0" /\ radix \in DOMAIN RadixDigits)
  <2>1. Good(src, p, Read("IntLit", p, whole, {})) BY <1>4, QuietGood DEF Quiet, Types
  <2> HIDE DEF Digs, radix
  <2> QED BY <1>2, <1>6, <2>1
<1> QED BY <1>3, <1>5, <1>6

-----------------------------------------------------------------------------

\* The text of a literal ends before the line does: an escape takes no line feed.
LEMMA StopsClean ==
    ASSUME NEW src \in Src, NEW p \in 1 .. Len(src), src[p] # LineFeed,
           NEW S \in SUBSET (p + 1 .. Len(src) + 1), Len(src) + 1 \in S,
           \A q \in p + 1 .. Len(src) : src[q] = LineFeed => q \in S
    PROVE  Clean(src, p, Min(S))
<1>1. PICK n : n = Len(src) /\ n \in Nat BY LenProperties DEF Src
<1>2. PICK end : end = Min(S) OBVIOUS
<1>3. p + 1 \in 1 .. n + 1 /\ S \in SUBSET (p + 1 .. n + 1) /\ n + 1 \in S BY <1>1
<1>4. end \in p + 1 .. n + 1 /\ \A q \in p + 1 .. end - 1 : q \notin S
  BY <1>1, <1>2, <1>3, StopFacts
<1>5. ASSUME NEW q \in p .. end - 1 PROVE src[q] # LineFeed
  <2>1. q = p \/ (q \in p + 1 .. end - 1 /\ q \in p + 1 .. n) BY <1>1, <1>4
  <2> QED BY <1>1, <1>4, <2>1
<1>6. Clean(src, p, end) BY <1>1, <1>4, <1>5 DEF Clean
<1> QED BY <1>2, <1>6

LEMMA TextClean ==
    ASSUME NEW src \in Src, NEW p \in 1 .. Len(src), src[p] # LineFeed, NEW quote, NEW raw
    PROVE  Clean(src, p, EndOfText(src, p + 1, quote, raw))
<1>1. PICK n : n = Len(src) /\ n \in Nat BY LenProperties DEF Src
<1> DEFINE GoesOn(q) == src[q] \notin {quote, LineFeed} \/ (~raw /\ IsEscaped(src, p + 1, q))
<1>2. PICK S : S = {q \in p + 1 .. n + 1 : q = n + 1 \/ ~GoesOn(q)} OBVIOUS
<1>3. EndOfText(src, p + 1, quote, raw) = Min(S) BY <1>1, <1>2 DEF EndOfText, Past
<1>4. \A q \in p + 1 .. n : src[q] = LineFeed => ~GoesOn(q) BY DEF IsEscaped
<1> HIDE DEF GoesOn
<1>5. S \in SUBSET (p + 1 .. n + 1) /\ n + 1 \in S BY <1>1, <1>2
<1>6. ASSUME NEW q \in p + 1 .. n, src[q] = LineFeed PROVE q \in S
  <2>1. q \in p + 1 .. n + 1 BY <1>1
  <2> QED BY <1>2, <1>4, <1>6, <2>1
<1>7. Clean(src, p, Min(S)) BY <1>1, <1>5, <1>6, StopsClean
<1> QED BY <1>3, <1>7

IsQuote(quote) == quote # "" /\ quote # LineFeed
LEMMA QuoteClean ==
    ASSUME NEW src \in Src, NEW p \in 1 .. Len(src), NEW end, Clean(src, p, end),
           NEW quote, IsQuote(quote)
    PROVE  Clean(src, p, PastQuote(src, end, quote))
<1>1. CASE At(src, end) = quote
  <2>1. Takes(src, end) BY <1>1 DEF Takes, IsQuote
  <2>2. Clean(src, p, end + 1) BY <2>1, OneMore
  <2> QED BY <1>1, <2>2 DEF PastQuote
<1>2. CASE At(src, end) # quote BY <1>2 DEF PastQuote
<1> QED BY <1>1, <1>2

LEMMA ErrorIn ==
    ASSUME NEW p \in Nat, NEW what \in {"UnknownEscape", "IncompleteEscape", "Unterminated", "Empty",
                                        "TooLong", "NotAscii", "Unexpected"}
    PROVE  Error(p, what) \in Errs
BY DEF Error, Errs

LEMMA EscapeErrorsIn ==
    ASSUME NEW src, NEW p \in Nat, NEW end \in Nat
    PROVE  EscapeErrors(src, p, end) \in SUBSET Errs
<1>1. ASSUME NEW q \in p .. end - 1
      PROVE  Error(q, IF q + 1 <= Len(src) /\ src[q + 1] # LineFeed THEN "UnknownEscape"
                      ELSE "IncompleteEscape") \in Errs
  <2>1. PICK what : what = (IF q + 1 <= Len(src) /\ src[q + 1] # LineFeed THEN "UnknownEscape"
                            ELSE "IncompleteEscape")
    OBVIOUS
  <2>2. what = "UnknownEscape" \/ what = "IncompleteEscape" BY <2>1
  <2>3. q \in Nat OBVIOUS
  <2>4. Error(q, what) \in Errs BY <2>2, <2>3, ErrorIn
  <2> QED BY <2>1, <2>4
<1> QED BY <1>1 DEF EscapeErrors

LEMMA StringGood ==
    ASSUME NEW src \in Src, NEW p \in 1 .. Len(src), src[p] # LineFeed, NEW raw
    PROVE  Good(src, p, ReadString(src, p, raw))
<1>1. PICK n : n = Len(src) /\ n \in Nat BY LenProperties DEF Src
<1>3. IsQuote("\"") BY DEF IsQuote, LineFeed
<1>4. PICK end : end = EndOfText(src, p + 1, "\"", raw) OBVIOUS
<1>5. PICK E : E = (IF raw THEN {} ELSE EscapeErrors(src, p + 1, end))
                     \cup (IF At(src, end) = "\"" THEN {} ELSE {Error(p, "Unterminated")})
  OBVIOUS
<1>6. ReadString(src, p, raw) = Read("StringLit", p, PastQuote(src, end, "\""), E)
  BY <1>4, <1>5 DEF ReadString
<1>7. Clean(src, p, end) BY <1>4, TextClean
<1>8. Clean(src, p, PastQuote(src, end, "\"")) BY <1>3, <1>7, QuoteClean
<1>9. E \in SUBSET Errs
  <2>1. p \in Nat /\ p + 1 \in Nat BY <1>1
  <2>2. end \in p + 1 .. n + 1 BY <1>1, <1>7 DEF Clean
  <2>3. end \in Nat BY <1>1, <2>1, <2>2
  <2>4. EscapeErrors(src, p + 1, end) \in SUBSET Errs BY <2>1, <2>3, EscapeErrorsIn
  <2>5. Error(p, "Unterminated") \in Errs BY <2>1, ErrorIn
  <2> QED BY <1>5, <2>4, <2>5
<1>10. "StringLit" \in Types BY DEF Types
<1>11. Good(src, p, Read("StringLit", p, PastQuote(src, end, "\""), E)) BY <1>8, <1>9, <1>10, CleanGood
<1> QED BY <1>6, <1>11

LEMMA CharGood ==
    ASSUME NEW src \in Src, NEW p \in 1 .. Len(src), src[p] = "'"
    PROVE  Good(src, p, ReadChar(src, p))
<1>1. PICK n : n = Len(src) /\ n \in Nat BY LenProperties DEF Src
<1>2. src[p] # LineFeed BY DEF LineFeed
<1>3. IsQuote("'") BY DEF IsQuote, LineFeed
<1>4. PICK end : end = EndOfText(src, p + 1, "'", FALSE) OBVIOUS
<1>5. PICK W : W = (IF At(src, end) = "'"
                    THEN (CASE SizeOfText(src, p + 1, end) = 0 -> {"Empty"}
                            [] SizeOfText(src, p + 1, end) > MaxCharLiteral -> {"TooLong"} [] OTHER -> {})
                    ELSE {"Unterminated"})
                     \cup {w \in {"NotAscii"} : \E q \in p .. end - 1 : src[q] \in NonAscii}
  OBVIOUS
<1>6. PICK E : E = EscapeErrors(src, p + 1, end) \cup {Error(p, w) : w \in W} OBVIOUS
<1>7. ReadChar(src, p) = Read("CharLit", p, PastQuote(src, end, "'"), E)
  BY <1>4, <1>5, <1>6 DEF ReadChar
<1>8. Clean(src, p, end) BY <1>2, <1>4, TextClean
<1>9. Clean(src, p, PastQuote(src, end, "'")) BY <1>3, <1>8, QuoteClean
<1>10. E \in SUBSET Errs
  <2>1. p \in Nat /\ p + 1 \in Nat BY <1>1
  <2>2. end \in p + 1 .. n + 1 BY <1>1, <1>8 DEF Clean
  <2>3. end \in Nat BY <1>1, <2>1, <2>2
  <2>4. EscapeErrors(src, p + 1, end) \in SUBSET Errs BY <2>1, <2>3, EscapeErrorsIn
  <2>5. ASSUME NEW w \in W PROVE Error(p, w) \in Errs
    <3>1. w \in {"Empty", "TooLong", "Unterminated", "NotAscii"} BY <1>5
    <3> QED BY <2>1, <3>1, ErrorIn
  <2> QED BY <1>6, <2>4, <2>5
<1>11. "CharLit" \in Types BY DEF Types
<1>12. Good(src, p, Read("CharLit", p, PastQuote(src, end, "'"), E)) BY <1>9, <1>10, <1>11, CleanGood
<1> QED BY <1>7, <1>12

LEMMA OperatorGood ==
    ASSUME NEW src \in Src, NEW p \in 1 .. Len(src), src[p] # LineFeed
    PROVE  Good(src, p, ReadOperator(src, p))
<1>1. PICK n : n = Len(src) /\ n \in Nat BY LenProperties DEF Src
<1>2. PICK pair : pair = <<src[p], At(src, p + 1)>> OBVIOUS
<1>3. Clean(src, p, p + 1)
  <2>1. p + 1 \in p + 1 .. n + 1 BY <1>1
  <2>2. \A q \in p .. p + 1 - 1 : q = p BY <1>1
  <2> QED BY <1>1, <2>1, <2>2 DEF Clean
<1>4. CASE pair \in DOMAIN LongOperator
  <2>1. pair[2] # "" /\ pair[2] # LineFeed BY <1>4, OperatorTypes
  <2>2. pair[2] = At(src, p + 1) BY <1>2
  <2>3. Takes(src, p + 1) BY <2>1, <2>2 DEF Takes
  <2>4. Clean(src, p, p + 1 + 1) BY <1>3, <2>3, OneMore
  <2>5. p + 2 = p + 1 + 1 BY <1>1
  <2>6. LongOperator[pair] \in Types BY <1>4 DEF Types
  <2>7. Good(src, p, Read(LongOperator[pair], p, p + 1 + 1, {}))
    BY <2>4, <2>6, QuietGood DEF Quiet
  <2>8. Good(src, p, Read(LongOperator[pair], p, p + 2, {})) BY <2>5, <2>7
  <2> QED BY <1>2, <1>4, <2>8 DEF ReadOperator
<1>5. CASE pair \notin DOMAIN LongOperator /\ src[p] \in DOMAIN Operator
  <2>1. Operator[src[p]] \in Types BY <1>5 DEF Types
  <2>2. Good(src, p, Read(Operator[src[p]], p, p + 1, {})) BY <1>3, <2>1, QuietGood DEF Quiet
  <2> QED BY <1>2, <1>5, <2>2 DEF ReadOperator
<1>6. CASE pair \notin DOMAIN LongOperator /\ src[p] \notin DOMAIN Operator
  <2>1. p \in Nat BY <1>1
  <2>2. Error(p, "Unexpected") \in Errs BY <2>1, ErrorIn
  <2>3. PICK E : E = {Error(p, "Unexpected")} /\ E \in SUBSET Errs BY <2>2
  <2>4. "Error" \in Types BY DEF Types
  <2>5. Good(src, p, Read("Error", p, p + 1, E)) BY <1>3, <2>3, <2>4, CleanGood
  <2> QED BY <1>2, <1>6, <2>3, <2>5 DEF ReadOperator
<1> QED BY <1>4, <1>5, <1>6

LEMMA TokenGood ==
    ASSUME NEW src \in Src, NEW p \in 1 .. Len(src), NEW done
    PROVE  Good(src, p, ReadToken(src, p, done))
<1>1. PICK n : n = Len(src) /\ n \in Nat BY LenProperties DEF Src
<1>2. ASSUME src[p] = LineFeed PROVE Good(src, p, Read("Newline", p, p + 1, {}))
  <2> DEFINE new == Read("Newline", p, p + 1, {})
  <2>1. p \in Nat /\ p + 1 \in Nat /\ p + 1 \in p + 1 .. n + 1 BY <1>1
  <2>2. new.token = Token("Newline", p, p + 1) /\ new.errors = {} BY DEF Read
  <2>3. new.token \in Tok BY <2>1, <2>2 DEF Token, Tok
  <2>4. new.token.start = p /\ new.token.end = p + 1 /\ new.token.type = "Newline"
    BY <2>2 DEF Token
  <2>5. new.errors \in SUBSET Errs BY <2>2
  <2> HIDE DEF new
  <2>6. new.token.end \in p + 1 .. Len(src) + 1 BY <1>1, <2>1, <2>4
  <2>7. Good(src, p, new) BY <1>2, <2>3, <2>4, <2>5, <2>6 DEF Good
  <2> QED BY <2>7 DEF new
<1>3. src[p] = "#" => Good(src, p, ReadLineComment(src, p)) BY CommentGood
<1>4. src[p] \in Letters => Good(src, p, ReadIdent(src, p)) BY IdentGood
<1>5. src[p] = "." => Good(src, p, ReadLocalIdent(src, p)) BY LocalGood
<1>6. src[p] = "@" => Good(src, p, ReadReusable(src, p)) BY ReusableGood
<1>7. src[p] \in Digits => Good(src, p, ReadNumber(src, p)) BY NumberGood
<1>8. src[p] # LineFeed => Good(src, p, ReadString(src, p, IsRawPath(src, done))) BY StringGood
<1>9. src[p] = "\"" => src[p] # LineFeed
  <2>1. IsQuote("\"") BY DEF IsQuote, LineFeed
  <2> QED BY <2>1 DEF IsQuote
<1>10. src[p] = "'" => Good(src, p, ReadChar(src, p)) BY CharGood
<1>11. src[p] # LineFeed => Good(src, p, ReadOperator(src, p)) BY OperatorGood
<1> QED BY <1>2, <1>3, <1>4, <1>5, <1>6, <1>7, <1>8, <1>9, <1>10, <1>11 DEF ReadToken

-----------------------------------------------------------------------------

\* The fold over the positions, as its definition has it: a function of sets of
\* them.  There is one.
FoldStep(src, g, s) == IF s = {} THEN AtStart ELSE ReadOn(src, g[s \ {Max(s)}], Max(s))
IsFold(src, g, n) == g = [s \in SUBSET (1 .. n) |-> FoldStep(src, g, s)]

LEMMA TopOf ==
    ASSUME NEW n \in Nat, NEW s \in SUBSET (1 .. n), s # {}
    PROVE  Max(s) \in s /\ (n \in s => Max(s) = n)
<1>1. s \in SUBSET Nat /\ \A m \in s : m <= n OBVIOUS
<1> QED BY <1>1, MaxFacts

LEMMA FoldExists ==
    ASSUME NEW src, NEW n \in Nat
    PROVE  \E g : IsFold(src, g, n)
<1>1. PICK bad : bad = {k \in Nat : ~ \E g : IsFold(src, g, k)} OBVIOUS
<1>2. SUFFICES ASSUME bad # {} PROVE FALSE BY <1>1
<1>3. bad \in SUBSET Nat BY <1>1
<1>4. PICK m \in bad : \A k \in bad : m <= k BY <1>2, <1>3, SmallestOf
<1>5. m \in Nat /\ ~ \E g : IsFold(src, g, m) BY <1>1
<1>6. CASE m = 0
  <2>1. PICK g : g = [s \in SUBSET (1 .. 0) |-> AtStart] OBVIOUS
  <2>2. ASSUME NEW s \in SUBSET (1 .. 0) PROVE AtStart = FoldStep(src, g, s)
    <3>1. s = {} OBVIOUS
    <3> QED BY <3>1 DEF FoldStep
  <2>3. IsFold(src, g, 0) BY <2>1, <2>2 DEF IsFold
  <2> QED BY <1>5, <1>6, <2>3
<1>7. CASE m # 0
  <2>1. PICK k : k = m - 1 /\ k \in Nat BY <1>5, <1>7
  <2>2. ~(m <= k) /\ m \in Nat BY <1>5, <2>1
  <2>3. k \notin bad BY <1>4, <2>2
  <2>4. PICK h : IsFold(src, h, k) BY <1>1, <2>1, <2>3
  <2>5. \A s \in SUBSET (1 .. k) : h[s] = FoldStep(src, h, s) BY <2>4 DEF IsFold
  <2>6. PICK g : g = [s \in SUBSET (1 .. m) |-> IF m \in s THEN ReadOn(src, h[s \ {m}], m) ELSE h[s]]
    OBVIOUS
  <2>7. \A s \in SUBSET (1 .. k) : s \in SUBSET (1 .. m) /\ m \notin s /\ g[s] = h[s]
    <3> TAKE s \in SUBSET (1 .. k)
    <3>1. s \in SUBSET (1 .. m) /\ m \notin s BY <2>1, <2>2
    <3> QED BY <2>6, <3>1
  <2>8. ASSUME NEW s \in SUBSET (1 .. m) PROVE g[s] = FoldStep(src, g, s)
    <3>1. CASE m \in s
      <4>1. Max(s) = m /\ s # {} BY <2>2, <3>1, TopOf
      <4>2. s \ {m} \in SUBSET (1 .. k) BY <2>1, <2>2
      <4>3. g[s \ {m}] = h[s \ {m}] BY <2>7, <4>2
      <4>4. g[s] = ReadOn(src, h[s \ {m}], m) BY <2>6, <3>1
      <4> QED BY <4>1, <4>3, <4>4 DEF FoldStep
    <3>2. CASE m \notin s
      <4>1. s \in SUBSET (1 .. k) BY <2>1, <2>2, <3>2
      <4>2. g[s] = FoldStep(src, h, s) BY <2>5, <2>7, <4>1
      <4>3. CASE s = {} BY <4>2, <4>3 DEF FoldStep
      <4>4. CASE s # {}
        <5>1. s \ {Max(s)} \in SUBSET (1 .. k) BY <4>1
        <5>2. g[s \ {Max(s)}] = h[s \ {Max(s)}] BY <2>7, <5>1
        <5> QED BY <4>2, <4>4, <5>2 DEF FoldStep
      <4> QED BY <4>3, <4>4
    <3> QED BY <3>1, <3>2
  <2>9. g = [s \in SUBSET (1 .. m) |-> FoldStep(src, g, s)] BY <2>6, <2>8
  <2> QED BY <1>5, <2>9 DEF IsFold
<1> QED BY <1>6, <1>7

\* tokenize as its loop runs: what there is after each character.
Run(src, r) ==
    /\ r[0] = AtStart
    /\ \A k \in 1 .. Len(src) : r[k] = ReadOn(src, r[k - 1], k)
    /\ Tokenize(src) =
         [tokens |-> Append(r[Len(src)].tokens, Token("Eof", Len(src) + 1, Len(src) + 1)),
          errors |-> r[Len(src)].errors]

LEMMA LexRun ==
    ASSUME NEW src \in Src
    PROVE  \E r : Run(src, r)
<1>1. PICK n : n = Len(src) /\ n \in Nat /\ DOMAIN src = 1 .. n BY LenProperties DEF Src
<1> DEFINE all == [p \in DOMAIN src |-> p]
           Raw(g, s) == IF s = {} THEN AtStart ELSE ReadOn(src, g[s \ {Max(s)}], all[Max(s)])
<1>2. Tokenize(src) =
        LET l == (CHOOSE g : g = [s \in SUBSET (DOMAIN all) |-> Raw(g, s)])[DOMAIN all]
        IN [tokens |-> Append(l.tokens, Token("Eof", Len(src) + 1, Len(src) + 1)), errors |-> l.errors]
  BY DEF Tokenize, FoldLeft, MapThenFoldSet
<1>3. DOMAIN all = 1 .. n /\ \A p \in 1 .. n : all[p] = p BY <1>1
<1> HIDE DEF all
<1>4. ASSUME NEW g PROVE [s \in SUBSET (DOMAIN all) |-> Raw(g, s)]
                           = [s \in SUBSET (1 .. n) |-> FoldStep(src, g, s)]
  <2>1. ASSUME NEW s \in SUBSET (1 .. n) PROVE Raw(g, s) = FoldStep(src, g, s)
    <3>1. CASE s = {} BY <3>1 DEF FoldStep
    <3>2. CASE s # {}
      <4>1. Max(s) \in s BY <1>1, <3>2, TopOf
      <4>2. all[Max(s)] = Max(s) BY <1>3, <4>1
      <4> QED BY <3>2, <4>2 DEF FoldStep
    <3> QED BY <3>1, <3>2
  <2> HIDE DEF Raw
  <2> QED BY <1>3, <2>1
<1>5. PICK a : a = CHOOSE g : IsFold(src, g, n) OBVIOUS
<1>6. (CHOOSE g : g = [s \in SUBSET (DOMAIN all) |-> Raw(g, s)]) = CHOOSE g : IsFold(src, g, n)
  <2> HIDE DEF Raw
  <2> QED BY <1>4 DEF IsFold
<1>7. IsFold(src, a, n) BY <1>1, <1>5, FoldExists
<1>8. PICK r : r = [k \in 0 .. n |-> a[1 .. k]] OBVIOUS
<1>9. r[0] = AtStart
  <2>1. {} \in SUBSET (1 .. n) /\ 1 .. 0 = {} /\ 0 \in 0 .. n BY <1>1
  <2>2. a[{}] = AtStart BY <1>7, <2>1 DEF IsFold, FoldStep
  <2> QED BY <1>8, <2>1, <2>2
<1>10. ASSUME NEW k \in 1 .. n PROVE r[k] = ReadOn(src, r[k - 1], k)
  <2>1. k \in Nat /\ k \in 0 .. n /\ k - 1 \in 0 .. n BY <1>1
  <2>2. 1 .. k \in SUBSET (1 .. n) /\ k \in 1 .. k /\ 1 .. k # {} BY <1>1
  <2>3. Max(1 .. k) = k BY <2>1, <2>2, TopOf
  <2>4. (1 .. k) \ {k} = 1 .. k - 1 BY <2>1
  <2>5. a[1 .. k] = FoldStep(src, a, 1 .. k) BY <1>7, <2>2 DEF IsFold
  <2>6. FoldStep(src, a, 1 .. k) = ReadOn(src, a[1 .. k - 1], k) BY <2>2, <2>3, <2>4 DEF FoldStep
  <2> QED BY <1>8, <2>1, <2>5, <2>6
<1>11. Tokenize(src) = [tokens |-> Append(r[n].tokens, Token("Eof", n + 1, n + 1)), errors |-> r[n].errors]
  <2>1. n \in 0 .. n BY <1>1
  <2>2. r[n] = a[1 .. n] BY <1>8, <2>1
  <2> HIDE DEF Raw
  <2> QED BY <1>1, <1>2, <1>3, <1>5, <1>6, <2>2
<1> QED BY <1>1, <1>9, <1>10, <1>11 DEF Run

-----------------------------------------------------------------------------

\* The loop at k: the tokens so far follow each other up to pos, and leave nothing
\* but blanks out of what it has passed.
Sound(src, t) ==
    /\ t.start < t.end /\ t.end <= Len(src) + 1
    /\ t.type = "Newline" => src[t.start] = LineFeed /\ t.end = t.start + 1
Spans(t, q) == t.start <= q /\ q < t.end
Covered(src, toks, q) ==
    /\ src[q] = LineFeed => \E i \in DOMAIN toks : toks[i] = Token("Newline", q, q + 1)
    /\ src[q] \notin Blank => \E i \in DOMAIN toks : Spans(toks[i], q)
Follow(toks, pos) ==
    /\ \A i \in 1 .. Len(toks) : toks[i].end <= pos
    /\ \A i \in 1 .. Len(toks) - 1 : toks[i].end <= toks[i + 1].start
Loop(src, k, l) ==
    /\ l.pos \in 1 .. Len(src) + 1 /\ l.tokens \in Seq(Tok) /\ l.errors \in SUBSET Errs
    /\ \A i \in 1 .. Len(l.tokens) : Sound(src, l.tokens[i])
    /\ Follow(l.tokens, l.pos)
    /\ \A q \in 1 .. Len(src) : q <= k \/ q < l.pos => Covered(src, l.tokens, q)

LEMMA LoopStarts ==
    ASSUME NEW src \in Src
    PROVE  Loop(src, 0, AtStart)
<1>1. PICK n : n = Len(src) /\ n \in Nat BY LenProperties DEF Src
<1>2. AtStart.pos = 1 /\ AtStart.tokens = <<>> BY DEF AtStart
<1>6. AtStart.errors \in SUBSET Errs BY DEF AtStart
<1>3. Len(<<>>) = 0 /\ <<>> \in Seq(Tok) OBVIOUS
<1>4. Follow(<<>>, 1) BY <1>3 DEF Follow
<1>5. 1 \in 1 .. n + 1 /\ \A q \in 1 .. n : ~(q <= 0 \/ q < 1) BY <1>1
<1> QED BY <1>1, <1>2, <1>3, <1>4, <1>5, <1>6 DEF Loop

LEMMA LoopTakes ==
    ASSUME NEW src \in Src, NEW k \in 1 .. Len(src), NEW l, Loop(src, k - 1, l), k >= l.pos,
           NEW read, Good(src, k, read)
    PROVE  Loop(src, k, WithToken(l, read))
<1>1. PICK n : n = Len(src) /\ n \in Nat BY LenProperties DEF Src
<1>2. PICK toks : toks = l.tokens OBVIOUS
<1>3. PICK t : t = read.token OBVIOUS
<1>4. PICK new : new = Append(toks, t) OBVIOUS
<1>5. PICK e : e = t.end OBVIOUS
<1>6. PICK m : m = l.pos OBVIOUS
<1>7. toks \in Seq(Tok) /\ m \in 1 .. n + 1 /\ m <= k BY <1>1, <1>2, <1>6 DEF Loop
<1>8. t \in Tok /\ t.start = k /\ e \in k + 1 .. n + 1 BY <1>1, <1>3, <1>5 DEF Good
<1>9. PICK j : j = Len(toks) /\ j \in Nat BY <1>7, LenProperties
<1>10. new \in Seq(Tok) /\ Len(new) = j + 1 /\ new[j + 1] = t /\ \A i \in 1 .. j : new[i] = toks[i]
  BY <1>4, <1>7, <1>8, <1>9, AppendProperties
<1>11. DOMAIN toks = 1 .. j /\ DOMAIN new = 1 .. j + 1 BY <1>7, <1>9, <1>10, LenProperties
<1>12. \A i \in 1 .. j + 1 : i = j + 1 \/ i \in 1 .. j BY <1>9
<1>13. k \in Nat /\ e \in Nat /\ m \in Nat /\ k < e /\ e <= n + 1 /\ k <= n /\ m <= e BY <1>1, <1>7, <1>8
<1>14. \A i \in 1 .. j : toks[i].end \in Nat /\ toks[i].end <= m
  <2> TAKE i \in 1 .. j
  <2>1. toks[i] \in Tok BY <1>7, <1>9, ElementOfSeq
  <2>2. toks[i].end \in Nat BY <2>1 DEF Tok
  <2>3. toks[i].end <= m BY <1>2, <1>6, <1>9 DEF Loop, Follow
  <2> QED BY <2>2, <2>3
<1>15. \A i \in 1 .. j + 1 : Sound(src, new[i])
  <2>1. Sound(src, t)
    <3>1. t.start < t.end /\ t.end <= Len(src) + 1 BY <1>1, <1>5, <1>8, <1>13
    <3>2. t.type = "Newline" => src[t.start] = LineFeed /\ t.end = t.start + 1
      BY <1>3, <1>8 DEF Good
    <3> QED BY <3>1, <3>2 DEF Sound
  <2>2. \A i \in 1 .. j : Sound(src, toks[i]) BY <1>2, <1>9 DEF Loop
  <2> QED BY <1>10, <1>12, <2>1, <2>2
<1>16. Follow(new, e)
  <2>1. ASSUME NEW i \in 1 .. j + 1 PROVE new[i].end <= e
    <3>1. CASE i = j + 1 BY <1>5, <1>10, <1>13, <3>1
    <3>2. CASE i \in 1 .. j
      <4>1. PICK x : x = toks[i].end OBVIOUS
      <4>2. x \in Nat /\ x <= m BY <1>14, <3>2, <4>1
      <4>3. x <= e BY <1>13, <4>2
      <4> QED BY <1>10, <3>2, <4>1, <4>3
    <3> QED BY <1>12, <3>1, <3>2
  <2>2. ASSUME NEW i \in 1 .. j PROVE new[i].end <= new[i + 1].start
    <3>1. CASE i = j
      <4>1. PICK x : x = toks[i].end OBVIOUS
      <4>2. x \in Nat /\ x <= m BY <1>14, <4>1
      <4>3. x <= k BY <1>7, <1>13, <4>2
      <4> QED BY <1>8, <1>10, <3>1, <4>1, <4>3
    <3>2. CASE i # j
      <4>1. i \in 1 .. j - 1 /\ i + 1 \in 1 .. j BY <1>9, <3>2
      <4>2. toks[i].end <= toks[i + 1].start BY <1>2, <1>9, <4>1 DEF Loop, Follow
      <4> QED BY <1>10, <4>1, <4>2
    <3> QED BY <3>1, <3>2
  <2>3. 1 .. Len(new) = 1 .. j + 1 /\ 1 .. Len(new) - 1 = 1 .. j BY <1>9, <1>10
  <2> QED BY <2>1, <2>2, <2>3 DEF Follow
<1>17. ASSUME NEW q \in 1 .. n, q <= k \/ q < e PROVE Covered(src, new, q)
  <2>1. CASE q <= k - 1 \/ q < m
    <3>1. Covered(src, toks, q) BY <1>1, <1>2, <1>6, <2>1 DEF Loop
    <3>2. \A i \in DOMAIN toks : i \in DOMAIN new /\ new[i] = toks[i] BY <1>9, <1>10, <1>11
    <3> QED BY <3>1, <3>2 DEF Covered
  <2>2. CASE ~(q <= k - 1 \/ q < m)
    <3>1. q \in k .. e - 1 BY <1>1, <1>13, <1>17, <2>2
    <3>2. j + 1 \in DOMAIN new BY <1>9, <1>11
    <3>3. Spans(t, q) BY <1>5, <1>8, <1>13, <3>1 DEF Spans
    <3>4. ASSUME src[q] = LineFeed PROVE t = Token("Newline", q, q + 1)
      <4>1. t.type = "Newline" BY <1>3, <1>5, <3>1, <3>4 DEF Good
      <4>2. e = k + 1 BY <1>3, <1>5, <4>1 DEF Good
      <4>3. q = k BY <1>13, <3>1, <4>2
      <4>4. t = [type |-> t.type, start |-> t.start, end |-> t.end] BY <1>8 DEF Tok
      <4> QED BY <1>5, <1>8, <4>1, <4>2, <4>3, <4>4 DEF Token
    <3> QED BY <1>10, <3>2, <3>3, <3>4 DEF Covered
  <2> QED BY <2>1, <2>2
<1>18. WithToken(l, read).pos = e /\ WithToken(l, read).tokens = new
  BY <1>2, <1>3, <1>4, <1>5 DEF WithToken
<1>19. e \in 1 .. n + 1 BY <1>1, <1>13
<1>20. WithToken(l, read).errors \in SUBSET Errs
  <2>1. l.errors \in SUBSET Errs BY DEF Loop
  <2>2. read.errors \in SUBSET Errs BY DEF Good
  <2> QED BY <2>1, <2>2 DEF WithToken
<1> QED BY <1>1, <1>10, <1>15, <1>16, <1>17, <1>18, <1>19, <1>20 DEF Loop

LEMMA LoopGoesOn ==
    ASSUME NEW src \in Src, NEW k \in 1 .. Len(src), NEW l, Loop(src, k - 1, l)
    PROVE  Loop(src, k, ReadOn(src, l, k))
<1>1. PICK n : n = Len(src) /\ n \in Nat BY LenProperties DEF Src
<1>2. PICK m : m = l.pos OBVIOUS
<1>3. m \in 1 .. n + 1 BY <1>1, <1>2 DEF Loop
<1>4. CASE k < m \/ src[k] \in Blank
  <2>1. ReadOn(src, l, k) = l BY <1>2, <1>4 DEF ReadOn
  <2>2. ASSUME NEW q \in 1 .. n, q <= k \/ q < m PROVE Covered(src, l.tokens, q)
    <3>1. CASE q = k /\ src[k] \in Blank BY <3>1, Characters DEF Covered
    <3>2. CASE q # k \/ k < m
      <4>1. q <= k - 1 \/ q < m BY <1>1, <1>3, <2>2, <3>2
      <4> QED BY <1>1, <1>2, <4>1 DEF Loop
    <3> QED BY <1>4, <3>1, <3>2
  <2> QED BY <1>1, <1>2, <2>1, <2>2 DEF Loop
<1>5. CASE ~(k < m \/ src[k] \in Blank)
  <2>1. ReadOn(src, l, k) = WithToken(l, ReadToken(src, k, l.tokens)) BY <1>2, <1>5 DEF ReadOn
  <2>2. k >= l.pos BY <1>1, <1>2, <1>3, <1>5
  <2>3. Good(src, k, ReadToken(src, k, l.tokens)) BY TokenGood
  <2> QED BY <2>1, <2>2, <2>3, LoopTakes
<1> QED BY <1>4, <1>5

LEMMA LoopEnds ==
    ASSUME NEW src \in Src, NEW r, Run(src, r)
    PROVE  Loop(src, Len(src), r[Len(src)])
<1>1. PICK n : n = Len(src) /\ n \in Nat BY LenProperties DEF Src
<1>2. PICK bad : bad = {k \in 0 .. n : ~Loop(src, k, r[k])} OBVIOUS
<1>3. bad = {}
  <2> SUFFICES ASSUME bad # {} PROVE FALSE OBVIOUS
  <2>1. bad \in SUBSET Nat BY <1>1, <1>2
  <2>2. PICK k \in bad : \A j \in bad : k <= j BY <2>1, SmallestOf
  <2>3. k \in 0 .. n /\ ~Loop(src, k, r[k]) BY <1>2
  <2>4. k # 0 BY <2>3, LoopStarts DEF Run
  <2>5. k \in 1 .. n /\ k - 1 \in 0 .. n /\ ~(k <= k - 1) BY <1>1, <2>3, <2>4
  <2>6. Loop(src, k - 1, r[k - 1]) BY <1>2, <2>2, <2>5
  <2>7. r[k] = ReadOn(src, r[k - 1], k) BY <1>1, <2>5 DEF Run
  <2>8. Loop(src, k, ReadOn(src, r[k - 1], k)) BY <1>1, <2>5, <2>6, LoopGoesOn
  <2> QED BY <2>3, <2>7, <2>8
<1>4. n \in 0 .. n BY <1>1
<1> QED BY <1>1, <1>2, <1>3, <1>4

\* With the Eof after them the tokens tile the text.
Within(ts, p) == {k \in DOMAIN ts : ts[k].start <= p /\ p < ts[k].end}
Tells(src, ts, p) ==
    CASE src[p] = LineFeed -> \E k \in Within(ts, p) : ts[k] = Token("Newline", p, p + 1)
      [] src[p] # LineFeed /\ Within(ts, p) = {} -> src[p] \in Blank
      [] OTHER -> \E k \in Within(ts, p) : ts[k].type # "Newline"
Tiles(src, ts) ==
    /\ \A p \in DOMAIN src : Tells(src, ts, p)
    /\ \A k \in 1 .. Len(ts) - 1 : ts[k].start < ts[k].end /\ ts[k].end <= ts[k + 1].start
    /\ Last(ts) = Token("Eof", Len(src) + 1, Len(src) + 1)

LEMMA TileFromLoop ==
    ASSUME NEW src \in Src, NEW l, Loop(src, Len(src), l)
    PROVE  Tiles(src, Append(l.tokens, Token("Eof", Len(src) + 1, Len(src) + 1)))
<1>1. PICK n : n = Len(src) /\ n \in Nat /\ DOMAIN src = 1 .. n BY LenProperties DEF Src
<1>2. PICK toks : toks = l.tokens OBVIOUS
<1>3. PICK eof : eof = Token("Eof", n + 1, n + 1) OBVIOUS
<1>4. PICK m : m = l.pos OBVIOUS
<1>5. toks \in Seq(Tok) /\ m \in 1 .. n + 1 BY <1>1, <1>2, <1>4 DEF Loop
<1>6. eof \in Tok /\ eof.start = n + 1 /\ eof.end = n + 1 /\ eof.type = "Eof"
  <2>1. n + 1 \in Nat BY <1>1
  <2> QED BY <1>3, <2>1 DEF Token, Tok
<1>7. PICK j : j = Len(toks) /\ j \in Nat BY <1>5, LenProperties
<1>8. PICK ts : ts = Append(toks, eof) OBVIOUS
<1>9. ts \in Seq(Tok) /\ Len(ts) = j + 1 /\ ts[j + 1] = eof /\ \A i \in 1 .. j : ts[i] = toks[i]
  BY <1>5, <1>6, <1>7, <1>8, AppendProperties
<1>10. DOMAIN toks = 1 .. j /\ DOMAIN ts = 1 .. j + 1 BY <1>5, <1>7, <1>9, LenProperties
<1>11. \A i \in 1 .. j + 1 : i = j + 1 \/ i \in 1 .. j BY <1>7
<1>12. ASSUME NEW i \in 1 .. j
       PROVE  Sound(src, toks[i]) /\ toks[i] \in Tok /\ toks[i].end <= m /\ toks[i].start < toks[i].end
  <2>1. Sound(src, toks[i]) /\ toks[i].end <= m BY <1>2, <1>4, <1>7 DEF Loop, Follow
  <2>2. toks[i] \in Tok BY <1>5, <1>7, ElementOfSeq
  <2> QED BY <2>1, <2>2 DEF Sound
<1>13. ASSUME NEW p \in DOMAIN src, src[p] = LineFeed
       PROVE  \E k \in Within(ts, p) : ts[k] = Token("Newline", p, p + 1)
  <2>1. Covered(src, toks, p) /\ p \in 1 .. n BY <1>1, <1>2 DEF Loop
  <2>2. PICK i \in 1 .. j : toks[i] = Token("Newline", p, p + 1) BY <1>10, <1>13, <2>1 DEF Covered
  <2>3. i \in DOMAIN ts /\ ts[i] = Token("Newline", p, p + 1) BY <1>7, <1>9, <1>10, <2>2
  <2>4. ts[i].start = p /\ ts[i].end = p + 1 BY <2>3 DEF Token
  <2>5. p <= p /\ p < p + 1 BY <2>1
  <2>6. i \in Within(ts, p) BY <2>3, <2>4, <2>5 DEF Within
  <2> QED BY <2>3, <2>6
<1>14. ASSUME NEW p \in DOMAIN src, src[p] # LineFeed, Within(ts, p) = {}
       PROVE  src[p] \in Blank
  <2> SUFFICES ASSUME src[p] \notin Blank PROVE FALSE OBVIOUS
  <2>1. Covered(src, toks, p) BY <1>1, <1>2 DEF Loop
  <2>2. PICK i \in 1 .. j : Spans(toks[i], p) BY <1>10, <2>1 DEF Covered
  <2>3. i \in DOMAIN ts /\ ts[i] = toks[i] BY <1>7, <1>9, <1>10
  <2>4. i \in Within(ts, p) BY <2>2, <2>3 DEF Spans, Within
  <2> QED BY <1>14, <2>4
<1>15. ASSUME NEW p \in DOMAIN src, src[p] # LineFeed, NEW k \in Within(ts, p)
       PROVE  ts[k].type # "Newline"
  <2>1. k \in 1 .. j + 1 /\ ts[k].start <= p /\ p < ts[k].end BY <1>10 DEF Within
  <2>2. p \in 1 .. n BY <1>1
  <2>3. k # j + 1
    <3> SUFFICES ASSUME k = j + 1 PROVE FALSE OBVIOUS
    <3>1. n + 1 <= p BY <1>6, <1>9, <2>1
    <3> QED BY <1>1, <2>2, <3>1
  <2>4. k \in 1 .. j BY <1>11, <2>1, <2>3
  <2>5. PICK t : t = toks[k] OBVIOUS
  <2>6. t \in Tok /\ Sound(src, t) /\ ts[k] = t BY <1>9, <1>12, <2>4, <2>5
  <2>7. t.start <= p /\ p < t.end BY <2>1, <2>6
  <2>8. ASSUME t.type = "Newline" PROVE FALSE
    <3>1. src[t.start] = LineFeed /\ t.end = t.start + 1 BY <2>6, <2>8 DEF Sound
    <3>2. PICK s : s = t.start OBVIOUS
    <3>3. s \in Nat BY <2>6, <3>2 DEF Tok
    <3>4. s <= p /\ p < s + 1 BY <2>7, <3>1, <3>2
    <3>5. s = p BY <2>2, <3>3, <3>4
    <3> QED BY <1>15, <3>1, <3>2, <3>5
  <2> QED BY <2>6, <2>8
<1>16. ASSUME NEW k \in 1 .. j
       PROVE  ts[k].start < ts[k].end /\ ts[k].end <= ts[k + 1].start
  <2>1. ts[k] = toks[k] /\ toks[k].start < toks[k].end /\ toks[k].end <= m BY <1>9, <1>12
  <2>2. CASE k = j
    <3>1. PICK x : x = toks[k].end OBVIOUS
    <3>2. toks[k] \in Tok BY <1>12
    <3>3. x \in Nat BY <3>1, <3>2 DEF Tok
    <3>4. x <= m BY <2>1, <3>1
    <3>5. x <= n + 1 BY <1>1, <1>5, <3>3, <3>4
    <3> QED BY <1>6, <1>9, <2>1, <2>2, <3>1, <3>5
  <2>3. CASE k # j
    <3>1. k \in 1 .. j - 1 /\ k + 1 \in 1 .. j BY <1>7, <2>3
    <3>2. toks[k].end <= toks[k + 1].start BY <1>2, <1>7, <3>1 DEF Loop, Follow
    <3> QED BY <1>9, <2>1, <3>1, <3>2
  <2> QED BY <2>2, <2>3
<1>17. 1 .. Len(ts) - 1 = 1 .. j /\ ts[Len(ts)] = eof BY <1>7, <1>9
<1>18. ASSUME NEW p \in DOMAIN src PROVE Tells(src, ts, p)
  <2>1. CASE src[p] = LineFeed BY <1>13, <2>1 DEF Tells
  <2>2. CASE src[p] # LineFeed /\ Within(ts, p) = {} BY <1>14, <2>2 DEF Tells
  <2>3. CASE src[p] # LineFeed /\ Within(ts, p) # {}
    <3>1. \E k \in Within(ts, p) : ts[k].type # "Newline" BY <1>15, <2>3
    <3> QED BY <2>3, <3>1 DEF Tells
  <2> QED BY <2>1, <2>2, <2>3
<1>19. Last(ts) = Token("Eof", Len(src) + 1, Len(src) + 1) BY <1>1, <1>3, <1>17 DEF Last
<1>20. \A k \in 1 .. Len(ts) - 1 : ts[k].start < ts[k].end /\ ts[k].end <= ts[k + 1].start
  BY <1>16, <1>17
<1>21. Tiles(src, ts) BY <1>18, <1>19, <1>20 DEF Tiles
<1> QED BY <1>1, <1>2, <1>3, <1>8, <1>21

LEMMA TileOfText ==
    ASSUME text \in Src, tokens = Tokenize(text).tokens
    PROVE  TokensTile /\ tokens \in Seq(Tok) /\ Tokenize(text).errors \in SUBSET Errs
<1>1. PICK src \in Src : src = text OBVIOUS
<1>2. PICK r : Run(src, r) BY LexRun
<1>3. PICK l : l = r[Len(src)] OBVIOUS
<1>4. Loop(src, Len(src), l) BY <1>2, <1>3, LoopEnds
<1>5. tokens = Append(l.tokens, Token("Eof", Len(src) + 1, Len(src) + 1)) BY <1>1, <1>2, <1>3 DEF Run
<1>6. Tiles(src, tokens) BY <1>4, <1>5, TileFromLoop
<1>7. TokensTile BY <1>1, <1>6 DEF TokensTile, Tiles, Tells, Within
<1>8. tokens \in Seq(Tok)
  <2>1. Len(src) \in Nat /\ l.tokens \in Seq(Tok) BY <1>4, LenProperties DEF Loop, Src
  <2>2. Len(src) + 1 \in Nat BY <2>1
  <2>3. Token("Eof", Len(src) + 1, Len(src) + 1) \in Tok BY <2>2 DEF Token, Tok
  <2> QED BY <1>5, <2>1, <2>3, AppendProperties
<1>9. Tokenize(text).errors \in SUBSET Errs BY <1>1, <1>2, <1>3, <1>4 DEF Run, Loop
<1> QED BY <1>7, <1>8, <1>9

-----------------------------------------------------------------------------

\* What the lexer has read is what it makes of the text.
FromText ==
    /\ text \in Texts
    /\ \/ tokens = Unread /\ errors = {}
       \/ tokens = Tokenize(text).tokens /\ errors = Tokenize(text).errors

LEMMA LexerReads == Lexing => []FromText
<1>1. ToRead => FromText BY DEF ToRead, FromText
<1>2. FromText /\ [Lex]_<<text, tokens, errors>> => FromText'
  <2> SUFFICES ASSUME FromText, [Lex]_<<text, tokens, errors>> PROVE FromText' OBVIOUS
  <2>1. CASE Lex BY <2>1 DEF Lex, FromText
  <2>2. CASE UNCHANGED <<text, tokens, errors>> BY <2>2 DEF FromText
  <2> QED BY <2>1, <2>2
<1> QED BY <1>1, <1>2, PTL DEF Lexing

\* The tokens are tokens and the errors errors, of the types the lexer has, at
\* positions.
THEOREM LexerTypes == Lexing => [](tokens \in Seq(Tok) /\ errors \in SUBSET Errs)
<1>1. FromText => tokens \in Seq(Tok) /\ errors \in SUBSET Errs
  <2>1. CASE tokens = Unread /\ errors = {} BY <2>1 DEF Unread
  <2>2. ASSUME FromText, tokens = Tokenize(text).tokens, errors = Tokenize(text).errors
        PROVE  tokens \in Seq(Tok) /\ errors \in SUBSET Errs
    <3>1. text \in Src BY <2>2, TextsAssumption DEF FromText, Src
    <3> QED BY <2>2, <3>1, TileOfText
  <2> QED BY <2>1, <2>2 DEF FromText
<1> QED BY <1>1, LexerReads, PTL

\* For every text: the lexer's tokens follow each other through it, leave nothing but
\* blanks between them, and every line feed is a token of its own (Lexer::tokenize).
THEOREM TokensTileTheText == Lexing => []TokensTile
<1>1. FromText => TokensTile
  <2>1. CASE tokens = Unread BY <2>1 DEF TokensTile
  <2>2. ASSUME FromText, tokens # Unread PROVE TokensTile
    <3>1. text \in Src BY <2>2, TextsAssumption DEF FromText, Src
    <3> QED BY <2>2, <3>1, TileOfText DEF FromText
  <2> QED BY <2>1, <2>2
<1> QED BY <1>1, LexerReads, PTL

================================================================================
