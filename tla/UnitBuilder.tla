----------------------------- MODULE UnitBuilder -----------------------------
(***************************************************************************)
(* How one compilation unit is built (lang/Compilation.cpp, class          *)
(* UnitBuilder, and the functions build* and analyse around it): the root  *)
(* file is walked statement by statement, an `include` splices the         *)
(* statements of the included file in at that point, every file at most    *)
(* once, and each file collects its diagnostics.                           *)
(*                                                                         *)
(* The recursion expand / handleInclude is the explicit `stack`: a frame   *)
(* is an activation of expand, its file and its loop variable.  Ids and    *)
(* statement indices count from 1 (the code's from 0): file 1 is the root. *)
(* A file is its key (SourceProvider::key); what path resolution makes of  *)
(* an include's string is already in the statement's field `to`.           *)
(***************************************************************************)
EXTENDS Naturals, Sequences, FiniteSets, Functions, FiniteSetsExt

CONSTANTS File,        \* file keys, those that exist and those that do not
          Root,        \* key of the unit's root file
          SourceExt,   \* keys whose path ends in .asm, .misa or .mnemo
          NoPath,      \* `to` of an include without a path string
          Unresolved,  \* `to` of a path that resolveIncludePath rejects
          NoBase,      \* `to` of a relative `emb` path in a file with no directory
          Programs,    \* the disks considered, see ProgramsAssumption
          MaxFiles     \* Compilation::MAX_FILES

Severity == {"Error", "Warning", "Hint"}
Status == {"Ok", "AlreadyIncluded", "Cycle", "NotFound", "Unresolved"}

\* A statement: "syntax" and "semantic" stand for statements the parser, the
\* semantic analyzer report an error in, "plain" for the others.
Stmt == [op : {"plain", "syntax", "semantic"}]
        \cup [op : {"include"}, to : File \cup {NoPath, Unresolved}]
        \* `emb file`: `alt` is the path tried from the root's directory,
        \* `known` says the extension is .png or .bin.
        \cup [op : {"emb"}, to : File \cup {Unresolved, NoBase},
              alt : File \cup {Unresolved}, known : BOOLEAN]

ASSUME FileAssumption ==
    /\ Root \in File /\ SourceExt \subseteq File
    /\ NoPath \notin File /\ Unresolved \notin File /\ NoPath # Unresolved
    /\ NoBase \notin File /\ NoBase # Unresolved

\* A program maps the files that exist to their parsed statements.
ASSUME ProgramsAssumption ==
    \A p \in Programs : \E D \in SUBSET File : p \in [D -> Seq(Stmt)]

ASSUME MaxFilesAssumption == MaxFiles \in Nat \ {0}

VARIABLES source,  \* the program being built: what m_o.sources serves
          files,   \* m_c.files
          order,   \* m_c.order, the include-expanded statement stream
          seen,    \* m_seen: key -> id of the file
          stack,   \* m_stack, with each activation's loop variable
          phase    \* where buildUnit stands

vars == <<source, files, order, seen, stack, phase>>

-----------------------------------------------------------------------------

\* Statements of a file; a root that cannot be read is empty (value_or("")).
Text(k) == IF k \in DOMAIN source THEN source[k] ELSE <<>>

SyntaxError(s) == s.op = "syntax" \/ (s.op = "include" /\ s.to = NoPath)

Diag(sev, at, why) == [sev |-> sev, at |-> at, why |-> why, errors |-> 0]

\* addFile: the file starts with the diagnostics of its lexer and parser.
NewFile(k, text) ==
    [key |-> k, includes |-> {}, embedded |-> {},
     diags |-> {Diag("Error", i, "syntax") :
                    i \in {j \in DOMAIN text : SyntaxError(text[j])}}]

\* The running activation of expand and the statement it is at.
Top == stack[Len(stack)]
Here == Text(files[Top.file].key)
Current == Here[Top.next]
Advanced == [stack EXCEPT ![Len(stack)].next = @ + 1]

\* The loop of expand takes its next statement.
Visit ==
    /\ phase = "expand" /\ stack # <<>> /\ Top.next <= Len(Here)
    /\ order' = Append(order, [file |-> Top.file, index |-> Top.next])

\* handleInclude files the include's record and reports on its line.  (ReportedOnly
\* files none of an include that leads nowhere.)
ReportedOnly(status, target, diags) ==
    [files EXCEPT
        ![Top.file].includes = IF target = 0 THEN @ ELSE
                                   @ \cup {[stmt |-> Top.next, status |-> status, target |-> target]},
        ![Top.file].diags = @ \cup diags]
Recorded(status, target, diags) ==
    [files EXCEPT
        ![Top.file].includes = @ \cup {[stmt |-> Top.next, status |-> status,
                                        target |-> target]},
        ![Top.file].diags = @ \cup diags]

Init ==
    /\ source \in Programs
    /\ files = <<NewFile(Root, Text(Root))>>
    /\ order = <<>>
    /\ seen = [k \in {Root} |-> 1]
    /\ stack = <<[file |-> 1, next |-> 1]>>
    /\ phase = "expand"

\* Neither an include with a path nor `emb file`: nothing beyond the order.
OtherStatement ==
    /\ Visit
    /\ \/ Current.op \in {"plain", "syntax", "semantic"}
       \/ Current.op = "include" /\ Current.to = NoPath
    /\ stack' = Advanced
    /\ UNCHANGED <<source, files, seen, phase>>

IncludeUnresolved ==
    /\ Visit
    /\ Current.op = "include" /\ Current.to = Unresolved
    /\ files' = Recorded("Unresolved", 0, {Diag("Error", Top.next, "include")})
    /\ stack' = Advanced
    /\ UNCHANGED <<source, seen, phase>>

\* The file is in the unit: a cycle when it is still being expanded.  (OnTop
\* sees only files that include themselves; RepeatAsOk records every repeat
\* as Ok.)
OnTop(f) == Top.file = f
OnStack(f) == \E n \in DOMAIN stack : stack[n].file = f
RepeatAsOk(f) == IF OnStack(f) THEN "Cycle" ELSE "Ok"
RepeatStatus(f) == IF OnStack(f) THEN "Cycle" ELSE "AlreadyIncluded"
IncludeSeen ==
    /\ Visit
    /\ Current.op = "include" /\ Current.to \in DOMAIN seen
    /\ LET t == seen[Current.to]
       IN files' = Recorded(RepeatStatus(t), t, {Diag("Hint", Top.next, "include")})
    /\ stack' = Advanced
    /\ UNCHANGED <<source, seen, phase>>

\* The file cannot be read, or the unit is full.  (AnyInclude is the guard
\* without the look at m_seen, OverFull the limit off by one.)
AnyInclude == Current.op = "include" /\ Current.to \in File
NewInclude == Current.op = "include" /\ Current.to \in File \ DOMAIN seen
OverFull == Len(files) > MaxFiles
Full == Len(files) >= MaxFiles
IncludeRefused ==
    /\ Visit
    /\ NewInclude /\ (Current.to \notin DOMAIN source \/ Full)
    /\ files' = Recorded("NotFound", 0, {Diag("Error", Top.next, "include")})
    /\ stack' = Advanced
    /\ UNCHANGED <<source, seen, phase>>

\* The file joins the unit and is expanded before the next statement here.
\* (IdAfterPush takes the id after addFile; ExpandLater expands the file when
\* the files above it are done.)
IdAfterPush == Len(files) + 2
NextId == Len(files) + 1
ExpandLater(f) == <<[file |-> f, next |-> 1]>> \o Advanced
ExpandNow(f) == Append(Advanced, [file |-> f, next |-> 1])
IncludeExpanded ==
    /\ Visit
    /\ NewInclude /\ Current.to \in DOMAIN source /\ ~Full
    /\ LET k == Current.to
           new == NextId
           ext == IF k \in SourceExt THEN {}
                  ELSE {Diag("Warning", Top.next, "extension")}
       IN /\ files' = Append(Recorded("Ok", new, ext), NewFile(k, Text(k)))
          /\ seen' = [x \in DOMAIN seen \cup {k} |-> IF x = k THEN new ELSE seen[x]]
          /\ stack' = ExpandNow(new)
    /\ UNCHANGED <<source, phase>>

\* handleEmbFile; the root's own directory is not tried twice.
EmbExists(e, f) ==
    /\ e.to \in File
    /\ e.to \in DOMAIN source \/ (f # 1 /\ e.alt \in DOMAIN source)
EmbFile ==
    /\ Visit
    /\ Current.op = "emb"
    /\ LET found == EmbExists(Current, Top.file)
           sev == CASE ~Current.known -> {"Error"}
                    [] Current.known /\ ~found /\ Current.to # NoBase -> {"Warning"}
                    [] OTHER -> {}
       IN files' = [files EXCEPT
                      ![Top.file].embedded = @ \cup {[stmt |-> Top.next, exists |-> found]},
                      ![Top.file].diags = @ \cup {Diag(s, Top.next, "embed") : s \in sev}]
    /\ stack' = Advanced
    /\ UNCHANGED <<source, seen, phase>>

\* End of expand's loop: m_stack.pop_back().
LeaveFile ==
    /\ phase = "expand" /\ stack # <<>> /\ Top.next > Len(Here)
    /\ stack' = SubSeq(stack, 1, Len(stack) - 1)
    /\ UNCHANGED <<source, files, order, seen, phase>>

\* SemanticAnalyzer::analyze over the finished order.
Analyse ==
    /\ phase = "expand" /\ stack = <<>>
    /\ files' = [f \in DOMAIN files |->
           LET text == Text(files[f].key)
               bad == {i \in DOMAIN text : text[i].op = "semantic"}
           IN [files[f] EXCEPT !.diags = @ \cup {Diag("Error", i, "semantic") : i \in bad}]]
    /\ phase' = "summaries"
    /\ UNCHANGED <<source, order, seen, stack>>

\* addIncludeErrorSummaries: own[id], and total[id] as sum(id) fills it in,
\* a file's own errors (before the summaries; OwnSyntaxErrors counts them
\* before analyse) and those below its Ok includes.
OkIncludes(f) == {r \in files[f].includes : r.status = "Ok"}
OwnSyntaxErrors(f) ==
    Cardinality({d \in files[f].diags : d.sev = "Error" /\ d.why # "semantic"})
OwnErrors(f) == Cardinality({d \in files[f].diags : d.sev = "Error"})
AllErrors == MapThenSumSet(OwnErrors, DOMAIN files)
IsTotal(total) ==
    \A f \in DOMAIN files :
        total[f] = OwnErrors(f) + MapThenSumSet(LAMBDA r : total[r.target], OkIncludes(f))
AddSummaries ==
    /\ phase = "summaries"
    /\ \E total \in {t \in [DOMAIN files -> 0 .. AllErrors] : IsTotal(t)} :
           files' = [f \in DOMAIN files |->
               [files[f] EXCEPT !.diags = @ \cup
                   {[Diag("Warning", r.stmt, "summary") EXCEPT !.errors = total[r.target]] :
                        r \in {q \in OkIncludes(f) : total[q.target] > 0}}]]
    /\ phase' = "done"
    /\ UNCHANGED <<source, order, seen, stack>>

\* The unit has been returned to the caller.
Returned == phase = "done" /\ UNCHANGED vars

Next ==
    \/ OtherStatement \/ IncludeUnresolved \/ IncludeSeen \/ IncludeRefused
    \/ IncludeExpanded \/ EmbFile \/ LeaveFile
    \/ Analyse \/ AddSummaries \/ Returned

Spec == Init /\ [][Next]_vars

-----------------------------------------------------------------------------
(* What a finished unit promises.                                          *)

FileIds == DOMAIN files
Refs == [file : FileIds, index : Nat]
IncludeRecord == [stmt : Nat, status : Status, target : Nat]
Diagnostic == [sev : Severity, at : Nat, errors : Nat,
               why : {"syntax", "include", "extension", "embed", "semantic", "summary"}]
SourceFile == [key : File, includes : SUBSET IncludeRecord,
               embedded : SUBSET [stmt : Nat, exists : BOOLEAN], diags : SUBSET Diagnostic]

\* Shape of the state.
TypeOK ==
    /\ \E D \in SUBSET File : source \in [D -> Seq(Stmt)]
    /\ files \in Seq(SourceFile)
    /\ files # <<>>
    /\ order \in Seq(Refs)
    /\ \E D \in SUBSET File : seen \in [D -> FileIds]
    /\ stack \in Seq([file : FileIds, next : Nat \ {0}])
    /\ phase \in {"expand", "summaries", "done"}

\* "A root file plus everything it includes, each file once" (Compilation.h):
\* no key is in the unit twice and m_seen names exactly the unit's files,
\* however the includes cross and whatever the limit refuses.
IncludeOnce ==
    /\ \A f, g \in FileIds : files[f].key = files[g].key => f = g
    /\ DOMAIN seen = {files[f].key : f \in FileIds}
    /\ \A f \in FileIds : seen[files[f].key] = f

\* "Ok-edges form a tree" (addIncludeErrorSummaries): each file but the root
\* is the target of one Ok include, of a file with a smaller id.  The
\* memoised recursion of sum() terminates and counts no error twice for it.
OkTree ==
    /\ \A f \in FileIds : \A r \in OkIncludes(f) : r.target \in FileIds /\ r.target > f
    /\ \A t \in FileIds \ {1} : \E f \in FileIds : \E r \in OkIncludes(f) : r.target = t
    /\ \A f, g \in FileIds : \A r \in OkIncludes(f), q \in OkIncludes(g) :
           r.target = q.target => f = g /\ r = q

\* The files spliced in below f, f itself among them.
Subtree[f \in 1 .. Len(files)] ==
    {f} \cup UNION {Subtree[r.target] : r \in OkIncludes(f)}

StatementsOf(f) == {[file |-> f, index |-> i] : i \in DOMAIN Text(files[f].key)}
Pos(f, i) == CHOOSE p \in DOMAIN order : order[p] = [file |-> f, index |-> i]

\* `order` is the textual insertion the assembler performs: it holds every
\* statement of every file once, each file's in their own order, and the
\* statements below an Ok include are the block right after it.
SplicedInOrder ==
    phase = "done" =>
        /\ IsInjective(order)
        /\ Range(order) = UNION {StatementsOf(f) : f \in FileIds}
        /\ \A p, q \in DOMAIN order :
               order[p].file = order[q].file /\ p < q => order[p].index < order[q].index
        /\ \A f \in FileIds : \A r \in OkIncludes(f) :
               LET below == UNION {StatementsOf(g) : g \in Subtree[r.target]}
                   at == Pos(f, r.stmt)
               IN below = {order[p] : p \in at + 1 .. at + Cardinality(below)}

\* Include statuses tell the truth (IncludeRecord::Status): a Cycle target
\* is one of the includers, and AlreadyIncluded means everything the target
\* splices in comes earlier in the order, so the include has no effect.
RepeatedIncludes ==
    phase = "done" =>
        \A f \in FileIds : \A r \in files[f].includes :
            /\ r.status = "Cycle" => f \in Subtree[r.target]
            /\ r.status = "AlreadyIncluded" =>
                   \A g \in Subtree[r.target] : \A s \in StatementsOf(g) :
                       Pos(s.file, s.index) < Pos(f, r.stmt)

\* The keys an include chain from the root reaches through existing files:
\* the least set that holds the root and is closed under including.
Named(k) == {s.to : s \in {x \in Range(Text(k)) : x.op = "include"}} \ {NoPath}
IncludedBy(k) == Named(k) \cap DOMAIN source
ClosedUnit(S) == Root \in S /\ \A k \in S : IncludedBy(k) \subseteq S
Reachable == {k \in File : \A S \in SUBSET File : ClosedUnit(S) => k \in S}

\* The unit is what the root reaches, all of it unless the limit was hit,
\* and then exactly MaxFiles files of it.
UnitIsReachable ==
    phase = "done" =>
        LET keys == {files[f].key : f \in FileIds}
        IN /\ keys \subseteq Reachable /\ Len(files) <= MaxFiles
           /\ keys # Reachable => Len(files) = MaxFiles

\* The sources as AbstractUnit takes them, a path standing for the key it resolves
\* to.  NotThere is a text that no file has.
NotThere == [incs |-> {NoPath}, defs |-> {}, uses |-> {}]
Sources ==
    [k \in File \cup {NoPath} |->
        IF k \in DOMAIN source THEN [incs |-> Named(k), defs |-> {}, uses |-> {}] ELSE NotThere]
Abstract == INSTANCE AbstractUnit WITH
    Key <- File, NoKey <- NoPath, DirOf <- [k \in File \cup {NoPath} |-> NoPath],
    Resolve <- [x \in (File \cup {Unresolved}) \X {NoPath} \X {NoPath} |-> x[1]],
    EmptyText <- [incs |-> {}, defs |-> {}, uses |-> {}], Missing <- NotThere

\* The unit is the one that a Workspace counts on: it holds the files that
\* AbstractUnit says, and the includes that it has on record as failed are those
\* that fail there.  Not so for a unit that is full and left a file out.
Failed(f) == {r \in files[f].includes : r.status \in {"NotFound", "Unresolved"}}
LeftOut(f) == {r \in Failed(f) : Text(files[f].key)[r.stmt].to \in DOMAIN source}
UnitIsAbstract ==
    phase = "done" /\ (Len(files) < MaxFiles \/ \A f \in FileIds : LeftOut(f) = {}) =>
        LET unit == Abstract!Unit(Root, Sources, NoPath)
        IN /\ DOMAIN unit.text = {files[f].key : f \in FileIds}
           /\ \A f \in FileIds :
                 unit.diags[files[f].key] =
                    {<<"missing", Text(files[f].key)[r.stmt].to>> : r \in Failed(f)}

\* "Warn on each include line when the included file (or anything it
\* includes) has errors, so problems in closed files are visible from the
\* includer": the line carries a warning exactly then, and it counts each
\* error below the include once.
ErrorsVisible ==
    phase = "done" =>
        \A f \in FileIds : \A r \in OkIncludes(f) :
            LET below == UNION {{<<g, d>> : d \in {x \in files[g].diags : x.sev = "Error"}} :
                                    g \in Subtree[r.target]}
                warned == {d \in files[f].diags : d.why = "summary" /\ d.at = r.stmt}
            IN {d.errors : d \in warned} = {Cardinality(below)} \ {0}

=============================================================================
