------------------------------- MODULE Features -------------------------------
(****************************************************************************)
(* What the client is shown of an analysed unit: go to definition and       *)
(* references (features/FeatureUtil.h, Definition.cpp, References.cpp), the *)
(* outline (DocumentSymbols.cpp) and folds (Folding.cpp).  They change      *)
(* nothing; what can go wrong is that they disagree with the analysis.      *)
(****************************************************************************)
EXTENDS Semantics

CONSTANT Layouts   \* how a unit's statements may lie in its files

\* A unit holds each file once, its statements in their order (UnitBuilder's
\* SplicedInOrder), so that where they stand grows with their place in `order`.
Before(p, q) == p[1] < q[1] \/ (p[1] = q[1] /\ p[2] < q[2])
ASSUME LayoutsAssumption ==
    \A layout \in Layouts :
        /\ \A i \in DOMAIN layout : {layout[i].line, layout[i].col} \subseteq Nat
        /\ \A i, j \in DOMAIN layout :
              i < j /\ layout[i].file = layout[j].file =>
                  Before(<<layout[i].line, layout[i].col>>, <<layout[j].line, layout[j].col>>)

\* A layout says where each statement of `order` stands, and which of the plain
\* ones are bookmarks or sub-bookmarks.  Only a label leaves room on its line.
Fits(layout) ==
    /\ DOMAIN layout = DOMAIN order
    /\ \A i \in DOMAIN order :
          /\ layout[i].what # "" => order[i].op = "plain"
          /\ i > 1 /\ order[IF i > 1 THEN i - 1 ELSE i].op # "label" =>
                layout[i - 1].file # layout[i].file \/ layout[i - 1].line < layout[i].line
Lies == {layout \in Layouts : Fits(layout)}
Here(layout, f) == {i \in DOMAIN order : layout[i].file = f}
Files(layout) == {layout[i].file : i \in DOMAIN layout}
Lines(layout, f) == 1 + Max({layout[i].line : i \in Here(layout, f)})   \* lineCount

\* Places in a file, and the ranges of a definition: `range` is the label or the
\* whole def, `selRange` its name.
Span(start, end) == [start |-> start, end |-> end]
RangeAt(at, from, to) == Span(<<at.line, at.col + from>>, <<at.line, at.col + to>>)
DefRange(at, d) == RangeAt(at, 0, IF d.kind \in {"Constant", "LocalConstant"} THEN 3 ELSE 1)
SelRange(at, d) == IF d.kind \in {"Constant", "LocalConstant"} THEN RangeAt(at, 1, 2) ELSE RangeAt(at, 0, 1)
Encloses(r, p) == ~Before(p, r.start) /\ ~Before(r.end, p)

-----------------------------------------------------------------------------

\* A name in the unit: the one a statement is about, or the one in a def's value.
Name(i, part) == [seq |-> i, part |-> part]
NameOf(ref) == Name(ref.seq, IF order[ref.seq].op = "def" THEN "value" ELSE "name")

\* symbolAt, with the cursor on a word of a name: the definition a reference
\* resolved to, the definition there, or what has that word for a name or for the
\* end of one.  (ByWord looks for the word alone.)
ByWord(name, word) ==
    LET local == {d \in DOMAIN m_defs : Len(m_defs[d].name) = 2 /\ m_defs[d].name[2] = word}
    IN IF IndexOf(<<word>>) # 0 \/ local = {} THEN IndexOf(<<word>>) ELSE Min(local)
SymbolAt(name, word) ==
    LET targets == {r.target : r \in {r \in Range(m_refs) : NameOf(r) = name}} \ {0}
        defined == {d \in DOMAIN m_defs : Name(m_defs[d].seq, "name") = name}
    IN CASE targets # {} -> Min(targets)
         [] targets = {} /\ defined # {} -> Min(defined)
         [] OTHER -> ByWord(name, word)

\* Locations are names; there is none for 0.  References are asked for with their
\* declaration.
ProvideDefinition(name, word) ==
    LET idx == SymbolAt(name, word) IN IF idx = 0 THEN {} ELSE {Name(m_defs[idx].seq, "name")}
ProvideReferences(name, word) ==
    LET idx == SymbolAt(name, word)
    IN ProvideDefinition(name, word)
         \cup {NameOf(r) : r \in {r \in Range(m_refs) : idx # 0 /\ r.target = idx}}

-----------------------------------------------------------------------------

\* The definitions of a file that satisfy Test.  m_defs has labels in the order of
\* the file, so that one comes after another if its index is larger, and sorting
\* them by line (Folding.cpp) moves none but those on one line.
DefsIn(layout, f, Test(_)) ==
    {d \in DOMAIN m_defs : layout[m_defs[d].seq].file = f /\ Test(m_defs[d])}
IsLocal(d) == d.kind \in {"LocalLabel", "LocalConstant"}
GlobalLabels(layout, f) == DefsIn(layout, f, LAMBDA d : d.kind = "GlobalLabel")
LineOf(layout, d) == layout[m_defs[d].seq].line
\* The line at which the next global label of a file starts, or the file ends.
NextLine(layout, f, g) ==
    LET later == {e \in GlobalLabels(layout, f) : e > g}
    IN IF later = {} THEN Lines(layout, f) ELSE LineOf(layout, Min(later))

\* The last line before one.  (OverNext takes that one, too.)
OverNext(line) == line
LineAbove(line) == IF line > 0 THEN line - 1 ELSE 0

\* provideDocumentSymbols.  A global label's range goes to the last line before
\* the next one, but never ends before its name does.
GlobalRange(layout, f, g) ==
    LET at == layout[m_defs[g].seq]
        end == <<LineAbove(NextLine(layout, f, g)), 0>>
        name == SelRange(at, m_defs[g])
    IN Span(<<at.line, at.col>>, IF Before(end, name.end) THEN name.end ELSE end)

\* The label that a local symbol is put under, the last of its parent's name; none
\* if that is not where the symbol stands.  (AnyRange does not look.)
ParentOf(d) == IF Len(m_defs[d].name) = 2 THEN SubSeq(m_defs[d].name, 1, 1) ELSE <<>>
AnyRange(layout, f, d, g) == TRUE
InRange(layout, f, d, g) ==
    Encloses(GlobalRange(layout, f, g), SelRange(layout[m_defs[d].seq], m_defs[d]).start)
Under(layout, f, d) ==
    LET last == Max({0} \cup {g \in GlobalLabels(layout, f) : m_defs[g].name = ParentOf(d)})
    IN IF last # 0 /\ InRange(layout, f, d, last) THEN {last} ELSE {}

Symbol(d, range, children) == [of |-> d, range |-> range, children |-> children]
ProvideDocumentSymbols(layout, f) ==
    LET locals == DefsIn(layout, f, IsLocal)
        constants == DefsIn(layout, f, LAMBDA d : d.kind = "Constant")
        orphans == {d \in locals : Under(layout, f, d) = {}}
    IN {Symbol(g, GlobalRange(layout, f, g), {d \in locals : Under(layout, f, d) = {g}}) :
            g \in GlobalLabels(layout, f)}
         \cup {Symbol(d, DefRange(layout[m_defs[d].seq], m_defs[d]), {}) : d \in constants \cup orphans}

-----------------------------------------------------------------------------

Fold(start, end) == [start |-> start, end |-> end]
Proper(folds) == {r \in folds : r.end > r.start}

\* Folding.cpp, first: the scopes of global labels.
LabelFolds(layout, f) ==
    Proper({Fold(LineOf(layout, g), LineAbove(NextLine(layout, f, g))) : g \in GlobalLabels(layout, f)})

\* Second: sections, by the statement that opens them.  A section ends above the
\* first bookmark below it, if one of the two is no sub-bookmark.
Bookmarks(layout, f) == {i \in Here(layout, f) : layout[i].what \in {"bmk", "sbmk"}}
EndsSection(layout, i, j) == j > i /\ (layout[j].what = "bmk" \/ layout[i].what = "bmk")
SectionLine(layout, f, i) ==
    LET next == {j \in Bookmarks(layout, f) : EndsSection(layout, i, j)}
    IN IF next = {} THEN Lines(layout, f) ELSE layout[Min(next)].line
SectionFolds(layout, f) ==
    Proper({Fold(layout[i].line, LineAbove(SectionLine(layout, f, i))) : i \in Bookmarks(layout, f)})

-----------------------------------------------------------------------------

\* Where the names of the unit stand, with what they mean there: the statement
\* that the analysis of the whole stream says, 0 for none.
UsedNames ==
    {Name(i, "name") : i \in {i \in DOMAIN order : order[i].op \in {"use", "undef", "jump"}}}
    \cup {Name(i, "value") : i \in {i \in DOMAIN order : order[i].op = "def" /\ order[i].value.of # NoName}}
WrittenAt(name) ==
    IF name.part = "value" THEN order[name.seq].value.of
    ELSE IF order[name.seq].op = "jump" THEN [dot |-> FALSE, name |-> order[name.seq].name]
    ELSE order[name.seq].name
Meant(name) ==
    LET i == name.seq
        q == Meaning(WrittenAt(name), i)
    IN CASE order[i].op = "jump" -> IF order[i].dir = "" THEN 0 ELSE Nearest(i)
         [] order[i].op = "undef" -> InForce(q, i)
         [] OTHER -> Referent(q, i)
Ambiguous(name) ==
    LET q == Meaning(WrittenAt(name), name.seq)
    IN order[name.seq].op # "jump" /\ Labels(q) # {} /\ DefsOf(q) # {}

\* "Jump to any label or constant", "every use of a label or constant across all
\* the files" (README): from any name, on any word of it, the client gets to what
\* the name means there, and from there to exactly the names that mean it.
LeadsToReferent ==
    pass = 3 =>
        LET names == {name \in UsedNames : ~Ambiguous(name) /\ Meant(name) # 0}
        IN \A name \in names :
              LET words == Range(WrittenAt(name).name)
                  there == Name(Meant(name), "name")
              IN \A word \in words :
                    /\ ProvideDefinition(name, word) = {there}
                    /\ ProvideReferences(name, word) = ProvideReferences(there, word)
                    /\ ProvideReferences(there, word) =
                          {there} \cup {n \in names : Meant(n) = Meant(name)}

\* "Outline with ... locals nested under their scope" (README): every symbol of a
\* file but its reusable labels is shown once, inside the range of what it is
\* shown under.  What is under a label is in its scope, and all that is in its
\* scope and in its file is under it, unless the label is not the only one of its
\* name or the scope ends on that line.
OutlineComplete ==
    pass = 3 =>
        \A layout \in Lies : \A f \in Files(layout) :
            LET outline == ProvideDocumentSymbols(layout, f)
                Start(d) == SelRange(layout[m_defs[d].seq], m_defs[d]).start
                InScope(d, g) == Scope(m_defs[d].seq) = m_defs[g].name
                Goes(d, g) == /\ Cardinality(Named(m_defs[g].name)) = 1
                              /\ LineOf(layout, d) + 1 < NextLine(layout, f, g)
            IN /\ \A d \in DefsIn(layout, f, LAMBDA d : d.kind # "ReusableLabel") :
                    Cardinality({e \in outline : e.of = d}) + Cardinality({e \in outline : d \in e.children}) = 1
               /\ \A e \in outline : \A d \in {e.of} \cup e.children : Encloses(e.range, Start(d))
               /\ \A g \in GlobalLabels(layout, f), d \in DefsIn(layout, f, IsLocal) :
                    LET under == \E e \in outline : e.of = g /\ d \in e.children
                    IN (under => InScope(d, g)) /\ (InScope(d, g) /\ Goes(d, g) => under)

\* "Each global label scope" (Folding.cpp): folds never overlap, and a line is
\* folded with the label whose scope it is in, if that is in the same file and the
\* line is all its own.
LabelFoldsAreScopes ==
    pass = 3 =>
        \A layout \in Lies : \A f \in Files(layout) : \A i \in Here(layout, f) :
            LET line == layout[i].line
                globals == {j \in DOMAIN order : order[j].op = "label" /\ order[j].kind = "Global"}
                scope == Max({0} \cup {j \in globals : j < i})
                alone == \A j \in globals : j > scope => layout[j].line # line \/ layout[j].file # f
                starts == {r.start : r \in {r \in LabelFolds(layout, f) : r.start <= line /\ line <= r.end}}
            IN /\ Cardinality(starts) <= 1
               /\ scope # 0 /\ alone /\ (scope # 0 => layout[scope].file = f /\ layout[scope].line < line) =>
                    starts = {layout[scope].line}

\* The folds of the bookmarks of a file never cross, whatever levels follow each
\* other, and none runs over a bmk.
SectionsNest ==
    pass = 3 =>
        \A layout \in Lies : \A f \in Files(layout) :
            LET folds == SectionFolds(layout, f)
                Within(r, s) == s.start <= r.start /\ r.end <= s.end
                Apart(r, s) == r.end < s.start \/ s.end < r.start
            IN \A r \in folds :
                  /\ \A s \in folds : Apart(r, s) \/ Within(r, s) \/ Within(s, r)
                  /\ \A j \in Bookmarks(layout, f) :
                        layout[j].what = "bmk" => layout[j].line \notin r.start + 1 .. r.end

\* "Fold 1", "Fold 2" (Folding.cpp): the folds that a client is sent for labels follow
\* the scopes of the analysis, and those for bookmarks lie in each other or apart.
FoldsAreScopes == LabelFoldsAreScopes /\ SectionsNest

=============================================================================
