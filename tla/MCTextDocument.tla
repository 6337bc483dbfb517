---------------------------- MODULE MCTextDocument ----------------------------
(* Short texts over characters of every width. *)
EXTENDS TextDocument

Letter == <<97>>
TwoBytes == <<195, 169>>             \* e with an acute accent
ThreeBytes == <<226, 130, 172>>      \* the euro sign
FourBytes == <<240, 159, 152, 128>>  \* a face, outside the basic plane

Upto(S, n) == UNION {[1 .. m -> S] : m \in 0 .. n}
BasicTexts == Upto({Letter, TwoBytes, ThreeBytes, CR, LF}, 4)
WideTexts == Upto({TwoBytes, FourBytes, LF}, 3)
AllTexts == BasicTexts \cup Upto({TwoBytes, ThreeBytes, FourBytes, CR, LF}, 4)

=============================================================================
