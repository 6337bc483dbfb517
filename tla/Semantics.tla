------------------------------ MODULE Semantics ------------------------------
(***************************************************************************)
(* Names in a compilation unit (lang/SemanticAnalyzer.cpp over             *)
(* lang/SymbolTable.cpp): two passes over the include-expanded statement   *)
(* stream that UnitBuilder calls `order`.  Pass 1 collects the labels,     *)
(* pass 2 defines and removes constants and resolves every reference.      *)
(*                                                                         *)
(* A qualified name is a sequence: <<f>> for f, <<f, x>> for f.x.  The     *)
(* indices of statements and definitions count from 1, and 0 is the code's *)
(* -1.  A statement refers to one name at most.  What the knowledge base   *)
(* says of mnemonics, operands and types is left out, and of a constant's  *)
(* value what is kept is whether it has one and whether that is a float.   *)
(***************************************************************************)
EXTENDS Naturals, Sequences, FiniteSets, FiniteSetsExt, SequencesExt

CONSTANTS Word,    \* what names are made of
          Entry,   \* qualified names of the entry points
          NoName,  \* no reference in a constant's value
          Units    \* the statement streams considered

QName == {<<w>> : w \in Word} \cup {<<v, w>> : v, w \in Word}
\* A name as written: `dot` for .x, otherwise x or f.x.
Written == [dot : {TRUE}, name : {<<w>> : w \in Word}] \cup [dot : {FALSE}, name : QName]
Value == [lit : {"int", "float"}, of : Written \cup {NoName}]
Stmt == [op : {"label"}, kind : {"Global", "Local", "Reusable"}, name : {<<w>> : w \in Word}]
        \cup [op : {"def"}, isLocal : BOOLEAN, name : {<<w>> : w \in Word}, value : Value]
        \cup [op : {"undef", "use"}, name : Written]
        \cup [op : {"jump"}, name : {<<w>> : w \in Word}, dir : {"-", "+", ""}] \* @name-, @name+
        \cup [op : {"exit", "plain"}]

ASSUME UnitsAssumption == Units \subseteq Seq(Stmt)
ASSUME EntryAssumption == Entry \subseteq {<<w>> : w \in Word} /\ NoName \notin Written

VARIABLES order,           \* m_unit.order, with the statements themselves
          pass,            \* 1, 2, or 3 when both are over
          m_seq,           \* the statement being analysed
          m_currentGlobal, \* the enclosing global label, <<>> if none
          m_defs,          \* SymbolTable::m_defs
          m_refs,          \* SymbolTable::m_refs
          m_liveConsts,
          entryPoints,     \* of pass 2: the entry labels met, [at, hasExit]
          currentEntry,    \* index into entryPoints, 0 if none
          diags            \* [at : statement, what]

vars == <<order, pass, m_seq, m_currentGlobal, m_defs, m_refs, m_liveConsts, entryPoints,
          currentEntry, diags>>

-----------------------------------------------------------------------------

\* m_defIndex: the last definition of a name, 0 if none.
Named(q) == {i \in DOMAIN m_defs : m_defs[i].name = q /\ m_defs[i].kind # "ReusableLabel"}
IndexOf(q) == Max({0} \cup Named(q))

\* findReusable: the nearest one above or below.  (FirstAbove takes the first
\* there is.)
Reusable(base) == {i \in DOMAIN m_defs : m_defs[i].kind = "ReusableLabel" /\ m_defs[i].name = base}
AtSeq(seq) == CHOOSE i \in DOMAIN m_defs : m_defs[i].kind = "ReusableLabel" /\ m_defs[i].seq = seq
FirstAbove(base, seq, above) ==
    LET found == {m_defs[i].seq : i \in {j \in Reusable(base) :
                                         IF above THEN m_defs[j].seq <= seq ELSE m_defs[j].seq > seq}}
    IN IF found = {} THEN 0 ELSE AtSeq(Min(found))
FindReusable(base, seq, above) ==
    LET found == {m_defs[i].seq : i \in {j \in Reusable(base) :
                                         IF above THEN m_defs[j].seq <= seq ELSE m_defs[j].seq > seq}}
    IN IF found = {} THEN 0 ELSE AtSeq(IF above THEN Max(found) ELSE Min(found))

Qualify(w) == IF w.dot THEN m_currentGlobal \o w.name ELSE w.name

\* A label, or a constant that is defined now.  (OnceDefined forgets undef.)
OnceDefined(q) == IndexOf(q) # 0
IsKnownSymbol(q) ==
    /\ IndexOf(q) # 0
    /\ m_defs[IndexOf(q)].kind \in {"Constant", "LocalConstant"} => q \in m_liveConsts

Emit(what) == {[at |-> m_seq, what |-> what]}
Current == order[m_seq]

\* The loop of either pass takes its next statement.
Visit(p, op) == pass = p /\ m_seq <= Len(order) /\ Current.op = op

Def(name, kind, value) == [name |-> name, kind |-> kind, value |-> value, seq |-> m_seq]

Init ==
    /\ order \in Units
    /\ pass = 1 /\ m_seq = 1
    /\ m_currentGlobal = <<>> /\ m_defs = <<>> /\ m_refs = <<>> /\ m_liveConsts = {}
    /\ entryPoints = <<>> /\ currentEntry = 0 /\ diags = {}

\* Pass 1, on a label of qualified name q.
LabelKind(kind) == CASE kind = "Global"   -> "GlobalLabel"
                     [] kind = "Local"    -> "LocalLabel"
                     [] kind = "Reusable" -> "ReusableLabel"
Opened(s, q) == IF s.kind = "Global" THEN q ELSE m_currentGlobal
Collect ==
    /\ Visit(1, "label")
    /\ LET s == Current
           q == IF s.kind = "Local" THEN m_currentGlobal \o s.name ELSE s.name
           taken == s.kind # "Reusable" /\ IndexOf(q) # 0
           orphan == s.kind = "Local" /\ m_currentGlobal = <<>>
       IN /\ m_defs' = Append(m_defs, Def(q, LabelKind(s.kind), "none"))
          /\ diags' = diags \cup (IF taken THEN Emit("duplicate") ELSE {})
                            \cup (IF orphan THEN Emit("orphan") ELSE {})
          /\ m_currentGlobal' = Opened(s, q)
    /\ m_seq' = m_seq + 1
    /\ UNCHANGED <<order, pass, m_refs, m_liveConsts, entryPoints, currentEntry>>

PassOver ==
    /\ pass = 1 /\ m_seq <= Len(order) /\ Current.op # "label"
    /\ m_seq' = m_seq + 1
    /\ UNCHANGED <<order, pass, m_currentGlobal, m_defs, m_refs, m_liveConsts, entryPoints,
                   currentEntry, diags>>

\* Pass 2 begins, outside any scope.
StartPass2 ==
    /\ pass = 1 /\ m_seq > Len(order)
    /\ pass' = 2 /\ m_seq' = 1 /\ m_currentGlobal' = <<>>
    /\ UNCHANGED <<order, m_defs, m_refs, m_liveConsts, entryPoints, currentEntry, diags>>

\* A global label opens a scope and ends an entry point.  (EntryGoesOn lets an
\* entry point end at the next entry point only.)
EntryGoesOn(name) == IF name \in Entry THEN Len(entryPoints) + 1 ELSE currentEntry
EntryAt(name) == IF name \in Entry THEN Len(entryPoints) + 1 ELSE 0
Label ==
    /\ Visit(2, "label")
    /\ IF Current.kind = "Global"
       THEN /\ m_currentGlobal' = Current.name
            /\ currentEntry' = EntryAt(Current.name)
            /\ entryPoints' = IF Current.name \in Entry
                              THEN Append(entryPoints, [at |-> m_seq, hasExit |-> FALSE])
                              ELSE entryPoints
       ELSE UNCHANGED <<m_currentGlobal, currentEntry, entryPoints>>
    /\ m_seq' = m_seq + 1
    /\ UNCHANGED <<order, pass, m_defs, m_refs, m_liveConsts, diags>>

\* addReference of a plain name, and what its callers report.
Target(w) == IF IsKnownSymbol(Qualify(w)) THEN IndexOf(Qualify(w)) ELSE 0
Reference(w) == [name |-> Qualify(w), seq |-> m_seq, target |-> Target(w)]
Unknown(w) == IF IsKnownSymbol(Qualify(w)) THEN {} ELSE Emit("unknown")

\* An instruction or data that names w.
Use ==
    /\ Visit(2, "use")
    /\ m_refs' = Append(m_refs, Reference(Current.name))
    /\ diags' = diags \cup Unknown(Current.name)
    /\ m_seq' = m_seq + 1
    /\ UNCHANGED <<order, pass, m_currentGlobal, m_defs, m_liveConsts, entryPoints, currentEntry>>

\* addReference of a reusable label, in a direction.
Jump ==
    /\ Visit(2, "jump") /\ Current.dir # ""
    /\ LET t == FindReusable(Current.name, m_seq, Current.dir = "-")
       IN /\ m_refs' = Append(m_refs, [name |-> Current.name, seq |-> m_seq, target |-> t])
          /\ diags' = diags \cup (IF t = 0 THEN Emit("noLabel") ELSE {})
    /\ m_seq' = m_seq + 1
    /\ UNCHANGED <<order, pass, m_currentGlobal, m_defs, m_liveConsts, entryPoints, currentEntry>>

\* addReference of a reusable label without one.
NoDirection ==
    /\ Visit(2, "jump") /\ Current.dir = ""
    /\ diags' = diags \cup Emit("noDirection")
    /\ m_seq' = m_seq + 1
    /\ UNCHANGED <<order, pass, m_currentGlobal, m_defs, m_refs, m_liveConsts, entryPoints,
                   currentEntry>>

\* evaluate: none when a name has no value now; a float is contagious.
\* (EvaluateLast does not ask whether the constant is defined now.)
EvaluateLast(v) ==
    IF v.of = NoName THEN v.lit
    ELSE IF IndexOf(Qualify(v.of)) = 0 THEN "none"
    ELSE m_defs[IndexOf(Qualify(v.of))].value
Evaluate(v) ==
    IF v.of = NoName THEN v.lit
    ELSE LET q == Qualify(v.of)
         IN IF IndexOf(q) = 0 \/ q \notin m_liveConsts THEN "none"
            ELSE LET of == m_defs[IndexOf(q)].value
                 IN IF of = "int" THEN v.lit ELSE of

Define ==
    /\ Visit(2, "def")
    /\ LET s == Current
           q == IF s.isLocal THEN m_currentGlobal \o s.name ELSE s.name
           label == IndexOf(q) # 0 /\ m_defs[IndexOf(q)].kind \in {"GlobalLabel", "LocalLabel"}
       IN /\ m_refs' = IF s.value.of = NoName THEN m_refs ELSE Append(m_refs, Reference(s.value.of))
          /\ diags' = diags \cup (IF s.value.of = NoName THEN {} ELSE Unknown(s.value.of))
                            \cup (IF label THEN Emit("isLabel")
                                  ELSE IF q \in m_liveConsts THEN Emit("redefined") ELSE {})
          /\ m_defs' = Append(m_defs, Def(q, IF s.isLocal THEN "LocalConstant" ELSE "Constant",
                                          Evaluate(s.value)))
          /\ m_liveConsts' = m_liveConsts \cup {q}
    /\ m_seq' = m_seq + 1
    /\ UNCHANGED <<order, pass, m_currentGlobal, entryPoints, currentEntry>>

\* (UndefAsWritten erases the name without its scope.)
UndefAsWritten(w) == m_liveConsts \ {w.name}
Erased(w) == m_liveConsts \ {Qualify(w)}
Undef ==
    /\ Visit(2, "undef")
    /\ IF Qualify(Current.name) \in m_liveConsts
       THEN /\ m_refs' = Append(m_refs, Reference(Current.name))
            /\ m_liveConsts' = Erased(Current.name)
            /\ UNCHANGED diags
       ELSE /\ diags' = diags \cup Emit("notDefined")
            /\ UNCHANGED <<m_refs, m_liveConsts>>
    /\ m_seq' = m_seq + 1
    /\ UNCHANGED <<order, pass, m_currentGlobal, m_defs, entryPoints, currentEntry>>

\* The instructions exit and yield, which end an entry point's run.
Exit ==
    /\ Visit(2, "exit")
    /\ entryPoints' = IF currentEntry = 0 THEN entryPoints
                      ELSE [entryPoints EXCEPT ![currentEntry].hasExit = TRUE]
    /\ m_seq' = m_seq + 1
    /\ UNCHANGED <<order, pass, m_currentGlobal, m_defs, m_refs, m_liveConsts, currentEntry, diags>>

\* Anything else: no name, no exit.
Plain ==
    /\ Visit(2, "plain")
    /\ m_seq' = m_seq + 1
    /\ UNCHANGED <<order, pass, m_currentGlobal, m_defs, m_refs, m_liveConsts, entryPoints,
                   currentEntry, diags>>

\* Hints for the entry points without an exit end pass 2.
Finish ==
    /\ pass = 2 /\ m_seq > Len(order)
    /\ pass' = 3
    /\ diags' = diags \cup {[at |-> e.at, what |-> "noExit"] :
                                e \in {x \in Range(entryPoints) : ~x.hasExit}}
    /\ UNCHANGED <<order, m_seq, m_currentGlobal, m_defs, m_refs, m_liveConsts, entryPoints,
                   currentEntry>>

\* analyze has returned.
Analysed == pass = 3 /\ UNCHANGED vars

Next ==
    \/ Collect \/ PassOver \/ StartPass2
    \/ Label \/ Use \/ Jump \/ NoDirection \/ Define \/ Undef \/ Exit \/ Plain \/ Finish \/ Analysed

Spec == Init /\ [][Next]_vars

-----------------------------------------------------------------------------
(* What the names mean, by looking at the whole stream.                    *)

\* The scope of a statement: the last global label above it.
Scope(i) ==
    LET above == {j \in 1 .. i - 1 : order[j].op = "label" /\ order[j].kind = "Global"}
    IN IF above = {} THEN <<>> ELSE order[Max(above)].name
Meaning(w, i) == IF w.dot THEN Scope(i) \o w.name ELSE w.name

LabelName(i) == IF order[i].kind = "Local" THEN Scope(i) \o order[i].name ELSE order[i].name
ConstName(i) == IF order[i].isLocal THEN Scope(i) \o order[i].name ELSE order[i].name
Labels(q) == {i \in DOMAIN order : /\ order[i].op = "label" /\ order[i].kind # "Reusable"
                                   /\ q = LabelName(i)}
DefsOf(q) == {i \in DOMAIN order : order[i].op = "def" /\ q = ConstName(i)}
UndefsOf(q) == {i \in DOMAIN order : order[i].op = "undef" /\ Meaning(order[i].name, i) = q}

\* The def of q in force before statement i, 0 if none: the last one above
\* unless an undef came after it.
InForce(q, i) ==
    LET last == Max({0} \cup ((DefsOf(q) \cup UndefsOf(q)) \cap 1 .. i - 1))
    IN IF last \in DefsOf(q) THEN last ELSE 0
\* The statement that q refers to at i: a constant in force, else a label
\* anywhere in the unit (the last, if there are several).
Referent(q, i) == IF InForce(q, i) # 0 THEN InForce(q, i) ELSE Max({0} \cup Labels(q))

\* "Constants (define-before-use)" (SemanticAnalyzer.h): at each point of pass 2
\* the constants that are live are those in force there, in the right scopes.
ConstantsInForce ==
    pass = 2 => m_liveConsts = {q \in QName : InForce(q, m_seq) # 0}

\* "Every reference is resolved to its definition" (CHANGELOG, 1.1.0): a name
\* that is not both a label and a constant resolves to what it means where it
\* stands, forward to labels only, and an error says so when it means nothing.
RefersTo(t, i) == IF t = 0 THEN i = 0 ELSE i = m_defs[t].seq
ResolvedInScope ==
    pass = 3 =>
        \A r \in {x \in Range(m_refs) : order[x.seq].op # "jump"} :
            Labels(r.name) = {} \/ DefsOf(r.name) = {} =>
                /\ RefersTo(r.target, Referent(r.name, r.seq))
                /\ r.target = 0 <=> [at |-> r.seq, what |-> "unknown"] \in diags

\* "@name- (nearest above) or @name+ (nearest below)" (addReference), across
\* the scopes and the files of the unit.
Nearest(i) ==
    LET all == {j \in DOMAIN order : /\ order[j].op = "label" /\ order[j].kind = "Reusable"
                                     /\ order[j].name = order[i].name}
    IN IF order[i].dir = "-" THEN Max({0} \cup {j \in all : j < i})
       ELSE IF \E j \in all : j > i THEN Min({j \in all : j > i}) ELSE 0
NearestReusable ==
    pass = 3 =>
        \A r \in {x \in Range(m_refs) : order[x.seq].op = "jump"} :
            /\ RefersTo(r.target, Nearest(r.seq))
            /\ Nearest(r.seq) = 0 <=> [at |-> r.seq, what |-> "noLabel"] \in diags

\* An entry point is flagged exactly when no exit or yield stands between its
\* label and the next global label, each occurrence on its own.
EntryPointsExit ==
    pass = 3 =>
        \A i \in DOMAIN order :
            [at |-> i, what |-> "noExit"] \in diags <=>
                /\ order[i].op = "label" /\ order[i].kind = "Global" /\ order[i].name \in Entry
                /\ \A j \in i + 1 .. Len(order) :
                      order[j].op = "exit" =>
                          \E k \in i + 1 .. j - 1 : order[k].op = "label" /\ order[k].kind = "Global"

\* "Assemble-time value of a constant" (SemanticAnalyzer.h): the value recorded
\* for a def is what the defs in force there say, through any chain of them.
ValueAt[i \in 1 .. Len(order)] ==
    LET v == order[i].value
        from == IF v.of = NoName THEN 0 ELSE InForce(Meaning(v.of, i), i)
    IN IF v.of = NoName THEN v.lit
       ELSE IF from = 0 THEN "none"
       ELSE IF ValueAt[from] = "int" THEN v.lit ELSE ValueAt[from]
ValuesInForce ==
    \A i \in DOMAIN m_defs :
        m_defs[i].kind \in {"Constant", "LocalConstant"} =>
            m_defs[i].value = ValueAt[m_defs[i].seq]

=============================================================================
