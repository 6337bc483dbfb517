------------------------------ MODULE MCIncludes ------------------------------
(* Every short include path in a few documents, every placing of the project
   files around a document, and a file that changes under its readers. *)
EXTENDS Includes

Lowers == [c \in {"c", "C", "u", "U"} |-> IF c \in {"c", "C"} THEN "c" ELSE "u"]
ReservedChars == {":", "@"}

\* An include's path: any few characters, or pieces that make longer walks.
Upto(S, n) == UNION {[1 .. m -> S] : m \in 0 .. n}
Pieces == {<<"/">>, <<"a">>, <<".">>, Up}
Raws == Upto({"/", "\\", ".", "C", ":", "@", "U"}, 4)
        \cup {FlattenSeq(pieces) : pieces \in Upto(Pieces, 5)}
        \cup {Unc \o Localhost \o <<"/", "x">>, <<"@", "u", "/", ".", ".", "/", "x">>}

Home == <<"/", "a", "/", "b", "/", "x">>
InDrive == <<"c", ":", "/", "a", "/", "x">>
OnServer == <<"/", "/", "h", "/", "s", "/", "x">>
AtRoot == <<"/", "x">>
Deep == <<"c", ":", "/", "a", "/", "b", "/", "x">>

\* The folders above Deep, the root among them, may each be a project, with or
\* without a main file.
Marks == {<<"c", ":">>, <<"c", ":", "/", "a">>, <<"c", ":", "/", "a", "/", "b">>}
ProjectFiles == {f \o <<"/", n>> : f \in Marks, n \in {"project.mnemonimov", "main.asm"}}
AllFiles == {Home} \cup ProjectFiles
WrittenFiles == {Home}
Spellings == {Home, <<"/", "a", "/", "c", "\\">> \o Up \o <<"/", ".", "/", "b", "/", "/", "x">>}

\* Two texts of one size, and a longer one.
AllTexts == {"old", "new", "longer"}
Sizes == [t \in AllTexts |-> IF t = "longer" THEN 2 ELSE 1]

Placed(S) == [f \in AllFiles |-> IF f \in S THEN "old" ELSE NoText]
Folders(dir) == [letter \in {"u", "c"} |-> IF letter = "u" THEN dir ELSE Nowhere]
Case(d, r, dir, S) ==
    [document |-> d, raw |-> r, config |-> Folders(dir), texts |-> Placed(S)]
AllCases ==
    {Case(d, r, <<"/", "v">>, {}) : d \in {Home, InDrive, OnServer}, r \in Raws}
    \cup {Case(d, <<"@", "U", "/", "x">>, Nowhere, {}) : d \in {AtRoot}}
    \cup {Case(d, <<".">>, Nowhere, S) : d \in {Deep, InDrive, Home, AtRoot}, S \in SUBSET ProjectFiles}
    \cup {Case(Home, Nowhere, Nowhere, {Home})}
ActiveDocuments == {Home}

=============================================================================
