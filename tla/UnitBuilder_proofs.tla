-------------------------- MODULE UnitBuilder_proofs --------------------------
(***************************************************************************)
(* For every program and every MAX_FILES.  First the shape of a unit: the  *)
(* builder's state keeps its own, no file is in it twice, the Ok includes  *)
(* form a tree, and the finished unit is what includes reach from the      *)
(* root.  Then what the finished unit looks like: its order is the textual *)
(* insertion of the included files, the records of repeated includes are   *)
(* true, and the summaries count the errors below an include.  The walk is *)
(* a preorder of the include tree (WInv), so the files below one have      *)
(* consecutive ids and their statements are one block; sums over the tree  *)
(* are the sizes of disjoint sets (EInv).  The unit is the one of          *)
(* AbstractUnit, as each include that was passed has a true record (TInv). *)
(***************************************************************************)
EXTENDS UnitBuilder, NaturalsLemmas, SequenceTheorems, FiniteSetTheorems

Frame == [file : FileIds, next : Nat \ {0}]

\* The statements of a file, and of a file that cannot be read.
LEMMA TextType == ASSUME TypeOK, NEW k PROVE Text(k) \in Seq(Stmt)
<1>1. PICK D \in SUBSET File : source \in [D -> Seq(Stmt)]
    BY DEF TypeOK
<1>2. CASE k \in DOMAIN source
    BY <1>1, <1>2 DEF Text
<1>3. CASE k \notin DOMAIN source
    BY <1>3, EmptySeq DEF Text
<1> QED BY <1>2, <1>3

\* A new file is a file.
LEMMA NewFileType ==
    ASSUME NEW k \in File, NEW text \in Seq(Stmt)
    PROVE /\ NewFile(k, text) \in SourceFile
          /\ NewFile(k, text).key = k /\ NewFile(k, text).includes = {}
<1>1. DOMAIN text \subseteq Nat
    BY LenProperties
<1>2. \A i \in Nat : Diag("Error", i, "syntax") \in Diagnostic
    BY DEF Diag, Diagnostic, Severity
<1> QED BY <1>1, <1>2 DEF NewFile, SourceFile

\* Where the walk stands when it takes a statement.
LEMMA VisitFacts ==
    ASSUME TypeOK, Visit
    PROVE /\ Len(stack) \in Nat \ {0} /\ Top \in Frame /\ Current \in Stmt
          /\ Advanced \in Seq(Frame) /\ order' \in Seq(Refs)
<1>1. stack \in Seq(Frame) /\ stack # <<>>
    BY DEF TypeOK, Visit, Frame
<1>2. Len(stack) \in Nat \ {0} /\ Len(stack) \in 1 .. Len(stack)
    BY <1>1, EmptySeq
<1>3. Top \in Frame
    BY <1>1, <1>2, ElementOfSeq DEF Top
<1>4. Here \in Seq(Stmt)
    BY TextType DEF Here
<1>5. Top.next \in 1 .. Len(Here)
    BY <1>3, <1>4, LenProperties DEF Visit, Frame
<1>6. Current \in Stmt
    BY <1>4, <1>5, ElementOfSeq DEF Current
<1>7. [Top EXCEPT !.next = @ + 1] \in Frame
    BY <1>3 DEF Frame
<1>8. Advanced = [stack EXCEPT ![Len(stack)] = [Top EXCEPT !.next = @ + 1]]
    BY DEF Advanced, Top
<1>9. Advanced \in Seq(Frame)
    BY <1>1, <1>2, <1>7, <1>8, ExceptSeq
<1>10. [file |-> Top.file, index |-> Top.next] \in Refs
    BY <1>3 DEF Frame, Refs
<1>11. order' \in Seq(Refs)
    BY <1>10 DEF Visit, TypeOK
<1> QED BY <1>2, <1>3, <1>6, <1>9, <1>11

\* Filing an include: one file gets one more record, nothing else changes.
LEMMA RecordedFacts ==
    ASSUME TypeOK, Top \in Frame, NEW s \in Status, NEW t \in Nat, NEW d \in SUBSET Diagnostic
    PROVE /\ Recorded(s, t, d) \in Seq(SourceFile) /\ Len(Recorded(s, t, d)) = Len(files)
          /\ \A f \in FileIds :
                /\ Recorded(s, t, d)[f].key = files[f].key
                /\ Recorded(s, t, d)[f].includes =
                      files[f].includes \cup
                      (IF f = Top.file THEN {[stmt |-> Top.next, status |-> s, target |-> t]}
                       ELSE {})
<1> DEFINE old == files[Top.file]
           rec == [stmt |-> Top.next, status |-> s, target |-> t]
           new == [old EXCEPT !.includes = @ \cup {rec}, !.diags = @ \cup d]
<1>1. files \in Seq(SourceFile) /\ FileIds = 1 .. Len(files) /\ Top.file \in 1 .. Len(files)
    BY LenProperties DEF TypeOK, FileIds, Frame
<1>2. old \in SourceFile
    BY <1>1, ElementOfSeq
<1>3. rec \in IncludeRecord
    BY DEF IncludeRecord, Frame
<1>4. new \in SourceFile /\ new.key = old.key /\ new.includes = old.includes \cup {rec}
    BY <1>2, <1>3 DEF SourceFile
<1>5. Recorded(s, t, d) = [files EXCEPT ![Top.file] = new]
    BY <1>1, <1>2 DEF Recorded, SourceFile
<1> HIDE DEF new
<1>6. /\ Recorded(s, t, d) \in Seq(SourceFile) /\ Len(Recorded(s, t, d)) = Len(files)
      /\ \A f \in FileIds : Recorded(s, t, d)[f] = IF f = Top.file THEN new ELSE files[f]
    BY <1>1, <1>4, <1>5, ExceptSeq
<1> QED BY <1>4, <1>6

\* A step that adds no file and no Ok include keeps the tree.
SameFiles ==
    /\ files' \in Seq(SourceFile) /\ Len(files') = Len(files)
    /\ \A f \in FileIds : /\ files'[f].key = files[f].key
                          /\ OkIncludes(f)' = OkIncludes(f)

\* Nor any other record of an include.
SameIncludes == \A f \in FileIds : files'[f].includes = files[f].includes

\* Such a step keeps the tree and the ids.
LEMMA SameFilesKeep ==
    ASSUME TypeOK, IncludeOnce, OkTree, SameFiles, UNCHANGED seen
    PROVE /\ FileIds' = FileIds /\ Refs' = Refs /\ files' # <<>>
          /\ IncludeOnce' /\ OkTree'
<1>1. FileIds = 1 .. Len(files) /\ Len(files) \in Nat \ {0}
    BY LenProperties, EmptySeq DEF TypeOK, FileIds
<1>2. FileIds' = 1 .. Len(files)
    BY LenProperties DEF SameFiles, FileIds
<1>3. Refs' = Refs
    BY <1>1, <1>2 DEF Refs
<1>4. files' # <<>>
    BY <1>1, EmptySeq DEF SameFiles
<1>5. IncludeOnce'
    BY <1>1, <1>2 DEF SameFiles, IncludeOnce
<1>6. OkTree'
    BY <1>1, <1>2 DEF SameFiles, OkTree
<1> QED BY <1>1, <1>2, <1>3, <1>4, <1>5, <1>6

\* The three outcomes of an include that expand nothing.
LEMMA RecordedSame ==
    ASSUME TypeOK, Top \in Frame, NEW s \in Status \ {"Ok"}, NEW t \in Nat,
           NEW d \in SUBSET Diagnostic, files' = Recorded(s, t, d)
    PROVE SameFiles
<1>1. s \in Status
    OBVIOUS
<1>2. \A f \in FileIds : files'[f].key = files[f].key /\ OkIncludes(f)' = OkIncludes(f)
    BY <1>1, RecordedFacts DEF OkIncludes
<1>3. files' \in Seq(SourceFile) /\ Len(files') = Len(files)
    BY <1>1, RecordedFacts
<1> QED BY <1>2, <1>3 DEF SameFiles

IInv == TypeOK /\ IncludeOnce /\ OkTree

\* A statement that leaves the files as they are, save for such a record.
LEMMA StepOverKeep ==
    ASSUME IInv, Visit, SameFiles, stack' = Advanced, UNCHANGED <<source, seen, phase>>
    PROVE IInv'
<1>1. /\ FileIds' = FileIds /\ Refs' = Refs /\ files' # <<>> /\ IncludeOnce' /\ OkTree'
    BY SameFilesKeep DEF IInv
<1>2. stack' \in Seq(Frame) /\ order' \in Seq(Refs)
    BY VisitFacts DEF IInv
<1>3. TypeOK'
    BY <1>1, <1>2 DEF IInv, TypeOK, SameFiles, Frame
<1> QED BY <1>1, <1>3 DEF IInv

\* Steps that leave the files alone are such steps.
LEMMA UnchangedSame == ASSUME TypeOK, UNCHANGED files PROVE SameFiles /\ SameIncludes
BY DEF SameFiles, SameIncludes, TypeOK, OkIncludes

\* The statements with no effect on the files.
LEMMA OtherStatementSame == ASSUME IInv, OtherStatement PROVE SameFiles /\ SameIncludes
BY UnchangedSame DEF OtherStatement, IInv

\* They keep the invariant.
LEMMA OtherStatementKeeps == ASSUME IInv, OtherStatement PROVE IInv'
BY OtherStatementSame, StepOverKeep DEF OtherStatement

\* Diagnostics are diagnostics.
LEMMA DiagType ==
    ASSUME NEW sev \in Severity, NEW at \in Nat,
           NEW why \in {"syntax", "include", "extension", "embed", "semantic", "summary"}
    PROVE Diag(sev, at, why) \in Diagnostic
BY DEF Diag, Diagnostic

\* An include whose path is rejected adds no file.
LEMMA IncludeUnresolvedSame == ASSUME IInv, IncludeUnresolved PROVE SameFiles
<1>1. Top \in Frame
    BY VisitFacts DEF IInv, IncludeUnresolved
<1>2. Diag("Error", Top.next, "include") \in Diagnostic
    BY <1>1, DiagType DEF Frame, Severity
<1> QED BY <1>1, <1>2, RecordedSame DEF IInv, IncludeUnresolved, Status

\* It keeps the invariant.
LEMMA IncludeUnresolvedKeeps == ASSUME IInv, IncludeUnresolved PROVE IInv'
BY IncludeUnresolvedSame, StepOverKeep DEF IncludeUnresolved

\* An include of a missing file, or into a full unit, adds no file.
LEMMA IncludeRefusedSame == ASSUME IInv, IncludeRefused PROVE SameFiles
<1>1. Top \in Frame
    BY VisitFacts DEF IInv, IncludeRefused
<1>2. Diag("Error", Top.next, "include") \in Diagnostic
    BY <1>1, DiagType DEF Frame, Severity
<1> QED BY <1>1, <1>2, RecordedSame DEF IInv, IncludeRefused, Status

\* It keeps the invariant.
LEMMA IncludeRefusedKeeps == ASSUME IInv, IncludeRefused PROVE IInv'
BY IncludeRefusedSame, StepOverKeep DEF IncludeRefused

\* An include of a file of the unit adds no file.
LEMMA IncludeSeenSame == ASSUME IInv, IncludeSeen PROVE SameFiles
<1> DEFINE t == seen[Current.to]
<1>1. Top \in Frame
    BY VisitFacts DEF IInv, IncludeSeen
<1>2. Diag("Hint", Top.next, "include") \in Diagnostic
    BY <1>1, DiagType DEF Frame, Severity
<1>3. t \in Nat
    BY LenProperties DEF IInv, TypeOK, IncludeSeen, FileIds
<1>4. RepeatStatus(t) \in Status \ {"Ok"}
    BY DEF RepeatStatus, Status
<1> QED BY <1>1, <1>2, <1>3, <1>4, RecordedSame DEF IInv, IncludeSeen

\* It keeps the invariant.
LEMMA IncludeSeenKeeps == ASSUME IInv, IncludeSeen PROVE IInv'
BY IncludeSeenSame, StepOverKeep DEF IncludeSeen

\* emb file: a record of another kind, and diagnostics.
LEMMA EmbFileSame == ASSUME IInv, EmbFile PROVE SameFiles /\ SameIncludes
<1>1. Top \in Frame
    BY VisitFacts DEF IInv, EmbFile
<1>2. PICK e \in SUBSET [stmt : Nat, exists : BOOLEAN], d \in SUBSET Diagnostic :
          files' = [files EXCEPT ![Top.file].embedded = @ \cup e, ![Top.file].diags = @ \cup d]
  <2> DEFINE found == EmbExists(Current, Top.file)
             sev == CASE ~Current.known -> {"Error"}
                      [] Current.known /\ ~found /\ Current.to # NoBase -> {"Warning"}
                      [] OTHER -> {}
             e == {[stmt |-> Top.next, exists |-> found]}
             d == {Diag(x, Top.next, "embed") : x \in sev}
  <2>1. found \in BOOLEAN
      BY DEF EmbExists
  <2>2. e \in SUBSET [stmt : Nat, exists : BOOLEAN]
      BY <1>1, <2>1 DEF Frame
  <2>3. sev \subseteq Severity
      BY DEF Severity
  <2>4. d \in SUBSET Diagnostic
      BY <1>1, <2>3, DiagType DEF Frame
  <2>5. files' = [files EXCEPT ![Top.file].embedded = @ \cup e, ![Top.file].diags = @ \cup d]
      BY DEF EmbFile
  <2> QED BY <2>2, <2>4, <2>5
<1>3. SameFiles /\ SameIncludes
  <2> DEFINE new == [files[Top.file] EXCEPT !.embedded = @ \cup e, !.diags = @ \cup d]
  <2>1. files \in Seq(SourceFile) /\ FileIds = 1 .. Len(files) /\ Top.file \in 1 .. Len(files)
      BY <1>1, LenProperties DEF IInv, TypeOK, FileIds, Frame
  <2>2. files[Top.file] \in SourceFile
      BY <2>1, ElementOfSeq
  <2>3. /\ new \in SourceFile /\ new.key = files[Top.file].key
        /\ new.includes = files[Top.file].includes
      BY <2>2 DEF SourceFile
  <2>4. files' = [files EXCEPT ![Top.file] = new]
      BY <1>2, <2>1, <2>2 DEF SourceFile
  <2> HIDE DEF new
  <2>5. /\ files' \in Seq(SourceFile) /\ Len(files') = Len(files)
        /\ \A f \in FileIds : files'[f] = IF f = Top.file THEN new ELSE files[f]
      BY <2>1, <2>3, <2>4, ExceptSeq
  <2> QED BY <2>3, <2>5 DEF SameFiles, SameIncludes, OkIncludes
<1> QED BY <1>3

\* It keeps the invariant.
LEMMA EmbFileKeeps == ASSUME IInv, EmbFile PROVE IInv'
BY EmbFileSame, StepOverKeep DEF EmbFile

\* Popping the stack keeps the invariant.
LEMMA LeaveFileKeeps == ASSUME IInv, LeaveFile PROVE IInv'
<1>1. SameFiles
    BY UnchangedSame DEF IInv, LeaveFile
<1>2. FileIds' = FileIds /\ Refs' = Refs /\ files' # <<>> /\ IncludeOnce' /\ OkTree'
    BY <1>1, SameFilesKeep DEF IInv, LeaveFile
<1>3. stack' \in Seq(Frame)
  <2>1. stack \in Seq(Frame) /\ Len(stack) \in Nat
      BY LenProperties DEF IInv, TypeOK, Frame
  <2>2. \A i \in 1 .. Len(stack) - 1 : stack[i] \in Frame
      BY <2>1, ElementOfSeq
  <2> QED BY <2>1, <2>2, SubSeqProperties DEF LeaveFile
<1>4. TypeOK'
    BY <1>2, <1>3 DEF IInv, TypeOK, LeaveFile, Frame
<1> QED BY <1>2, <1>4 DEF IInv

\* Both passes over the finished files only add diagnostics.
LEMMA DiagnosedSame ==
    ASSUME TypeOK, NEW d \in [FileIds -> SUBSET Diagnostic],
           files' = [f \in FileIds |-> [files[f] EXCEPT !.diags = @ \cup d[f]]]
    PROVE SameFiles /\ SameIncludes
<1>1. files \in Seq(SourceFile) /\ FileIds = 1 .. Len(files) /\ Len(files) \in Nat
    BY LenProperties DEF TypeOK, FileIds
<1>2. \A f \in FileIds : files[f] \in SourceFile
    BY <1>1, ElementOfSeq
<1>3. \A f \in FileIds : /\ files'[f] \in SourceFile /\ files'[f].key = files[f].key
                         /\ files'[f].includes = files[f].includes
    BY <1>2 DEF SourceFile
<1>4. files' \in [1 .. Len(files) -> SourceFile]
    BY <1>1, <1>3
<1>5. files' \in Seq(SourceFile)
    BY <1>1, <1>4, SeqDef
<1>6. Len(files') = Len(files)
    BY <1>1, <1>4, <1>5, LenProperties
<1> QED BY <1>3, <1>5, <1>6 DEF SameFiles, SameIncludes, OkIncludes

\* The semantic analysis adds diagnostics.
LEMMA AnalyseSame == ASSUME IInv, Analyse PROVE SameFiles /\ SameIncludes
<1> DEFINE bad(f) == {i \in DOMAIN Text(files[f].key) : Text(files[f].key)[i].op = "semantic"}
           d == [f \in FileIds |-> {Diag("Error", i, "semantic") : i \in bad(f)}]
<1>1. \A k : DOMAIN Text(k) \subseteq Nat
    BY TextType, LenProperties DEF IInv
<1>2. d \in [FileIds -> SUBSET Diagnostic]
    BY <1>1, DiagType DEF Severity
<1>3. files' = [f \in FileIds |-> [files[f] EXCEPT !.diags = @ \cup d[f]]]
    BY DEF Analyse, FileIds
<1> QED BY <1>2, <1>3, DiagnosedSame DEF IInv

\* It keeps the invariant.
LEMMA AnalyseKeeps == ASSUME IInv, Analyse PROVE IInv'
<1>1. SameFiles BY AnalyseSame
<1>2. FileIds' = FileIds /\ Refs' = Refs /\ files' # <<>> /\ IncludeOnce' /\ OkTree'
    BY <1>1, SameFilesKeep DEF IInv, Analyse
<1>3. TypeOK'
    BY <1>1, <1>2 DEF IInv, TypeOK, Analyse, SameFiles
<1> QED BY <1>2, <1>3 DEF IInv

\* The summaries are diagnostics.
LEMMA AddSummariesSame == ASSUME IInv, AddSummaries PROVE SameFiles /\ SameIncludes
<1>1. PICK total \in [FileIds -> 0 .. AllErrors] :
          files' = [f \in FileIds |->
               [files[f] EXCEPT !.diags = @ \cup
                   {[Diag("Warning", r.stmt, "summary") EXCEPT !.errors = total[r.target]] :
                        r \in {q \in OkIncludes(f) : total[q.target] > 0}}]]
    BY DEF AddSummaries, FileIds
<1> DEFINE of(f) == {q \in OkIncludes(f) : total[q.target] > 0}
           note(r) == [Diag("Warning", r.stmt, "summary") EXCEPT !.errors = total[r.target]]
           d == [f \in FileIds |-> {note(r) : r \in of(f)}]
<1>2. \A f \in FileIds : \A r \in OkIncludes(f) : r.stmt \in Nat /\ total[r.target] \in Nat
  <2>1. \A f \in FileIds : files[f] \in SourceFile
      BY LenProperties, ElementOfSeq DEF IInv, TypeOK, FileIds
  <2>2. \A f \in FileIds : \A r \in OkIncludes(f) : r \in IncludeRecord /\ r.target \in FileIds
      BY <2>1 DEF OkIncludes, SourceFile, IInv, OkTree
  <2> QED BY <2>2 DEF IncludeRecord
<1>3. \A f \in FileIds : \A r \in of(f) : note(r) \in Diagnostic
    BY <1>2, DiagType DEF Diag, Diagnostic, Severity
<1>4. d \in [FileIds -> SUBSET Diagnostic]
    BY <1>3
<1>5. files' = [f \in FileIds |-> [files[f] EXCEPT !.diags = @ \cup d[f]]]
    BY <1>1
<1> QED BY <1>4, <1>5, DiagnosedSame DEF IInv

\* They keep the invariant.
LEMMA AddSummariesKeeps == ASSUME IInv, AddSummaries PROVE IInv'
<1>1. SameFiles BY AddSummariesSame
<1>2. FileIds' = FileIds /\ Refs' = Refs /\ files' # <<>> /\ IncludeOnce' /\ OkTree'
    BY <1>1, SameFilesKeep DEF IInv, AddSummaries
<1>3. TypeOK'
    BY <1>1, <1>2 DEF IInv, TypeOK, AddSummaries, SameFiles
<1> QED BY <1>2, <1>3 DEF IInv

\* The one step that adds a file: its key is new, and the includer gets a
\* record that names its id.
Grown(k, n) ==
    /\ n \in Nat \ {0} /\ n = Len(files) /\ FileIds = 1 .. n /\ Top.file \in 1 .. n
    /\ files' \in Seq(SourceFile) /\ Len(files') = n + 1 /\ files' # <<>> /\ FileIds' = 1 .. n + 1
    /\ \A f \in 1 .. n :
          /\ files'[f].key = files[f].key
          /\ files'[f].includes = files[f].includes \cup
                (IF f = Top.file THEN {[stmt |-> Top.next, status |-> "Ok", target |-> n + 1]}
                 ELSE {})
    /\ files'[n + 1] = NewFile(k, Text(k)) /\ files'[n + 1].key = k /\ files'[n + 1].includes = {}
    /\ k = Current.to /\ k \in File /\ k \notin DOMAIN seen
    /\ seen' = [x \in DOMAIN seen \cup {k} |-> IF x = k THEN n + 1 ELSE seen[x]]
    /\ stack' = Append(Advanced, [file |-> n + 1, next |-> 1])

\* Expanding an include is that step.
LEMMA IncludeExpandedGrows == ASSUME IInv, IncludeExpanded PROVE Grown(Current.to, Len(files))
<1> DEFINE k == Current.to
           n == Len(files)
           ext == IF k \in SourceExt THEN {} ELSE {Diag("Warning", Top.next, "extension")}
           rec == [stmt |-> Top.next, status |-> "Ok", target |-> n + 1]
           old == Recorded("Ok", n + 1, ext)
           new == NewFile(k, Text(k))
<1>1. Top \in Frame /\ order' \in Seq(Refs) /\ Advanced \in Seq(Frame)
    BY VisitFacts DEF IInv, IncludeExpanded
<1>2. files \in Seq(SourceFile) /\ n \in Nat \ {0} /\ FileIds = 1 .. n /\ Top.file \in 1 .. n
    BY <1>1, LenProperties, EmptySeq DEF IInv, TypeOK, FileIds, Frame
<1>3. k \in File /\ k \notin DOMAIN seen
    BY DEF IncludeExpanded, NewInclude
<1>4. ext \in SUBSET Diagnostic
    BY <1>1, DiagType DEF Frame, Severity
<1>5. "Ok" \in Status /\ n + 1 \in Nat
    BY <1>2 DEF Status
<1>6. /\ old \in Seq(SourceFile) /\ Len(old) = n
      /\ \A f \in 1 .. n :
            /\ old[f].key = files[f].key
            /\ old[f].includes = files[f].includes \cup (IF f = Top.file THEN {rec} ELSE {})
  <2> DEFINE id == n + 1
  <2>1. id \in Nat
      BY <1>5
  <2> HIDE DEF ext, id
  <2>2. /\ Recorded("Ok", id, ext) \in Seq(SourceFile)
        /\ Len(Recorded("Ok", id, ext)) = Len(files)
        /\ \A f \in FileIds :
              /\ Recorded("Ok", id, ext)[f].key = files[f].key
              /\ Recorded("Ok", id, ext)[f].includes = files[f].includes \cup
                    (IF f = Top.file THEN {[stmt |-> Top.next, status |-> "Ok", target |-> id]}
                     ELSE {})
      BY <1>1, <1>4, <1>5, <2>1, RecordedFacts DEF IInv
  <2> QED BY <1>2, <2>2 DEF id
<1>7. new \in SourceFile /\ new.key = k /\ new.includes = {}
    BY <1>3, NewFileType, TextType DEF IInv
<1>8. /\ files' = Append(old, new) /\ stack' = Append(Advanced, [file |-> n + 1, next |-> 1])
      /\ seen' = [x \in DOMAIN seen \cup {k} |-> IF x = k THEN n + 1 ELSE seen[x]]
      /\ UNCHANGED <<source, phase>>
    BY DEF IncludeExpanded, NextId, ExpandNow
<1> HIDE DEF old, new, ext
<1>9. /\ files' \in Seq(SourceFile) /\ Len(files') = n + 1 /\ files' # <<>>
      /\ \A f \in 1 .. n : files'[f] = old[f]
      /\ files'[n + 1] = new
    BY <1>2, <1>6, <1>7, <1>8, AppendProperties
<1>10. FileIds' = 1 .. n + 1
    BY <1>9, LenProperties DEF FileIds
<1>11. (\A f \in 1 .. n : files'[f].key = files[f].key) /\ files'[n + 1].key = k
       /\ files'[n + 1].includes = {}
    BY <1>6, <1>7, <1>9
<1>12. \A f \in 1 .. n : files'[f].includes = files[f].includes \cup
                                                 (IF f = Top.file THEN {rec} ELSE {})
    BY <1>6, <1>9
<1> QED BY <1>2, <1>3, <1>8, <1>9, <1>10, <1>11, <1>12 DEF Grown, new

\* The record of this include is the only Ok one that names the new id.
LEMMA IncludeExpandedKeeps == ASSUME IInv, IncludeExpanded PROVE IInv'
<1>1. PICK k, n : k = Current.to /\ n = Len(files) OBVIOUS
<1> DEFINE rec == [stmt |-> Top.next, status |-> "Ok", target |-> n + 1]
           was == [f \in 1 .. n |-> OkIncludes(f)]
           is == [f \in 1 .. n + 1 |-> {r \in files'[f].includes : r.status = "Ok"}]
<1>2. Top \in Frame /\ order' \in Seq(Refs) /\ Advanced \in Seq(Frame)
    BY VisitFacts DEF IInv, IncludeExpanded
<1>3. Grown(k, n) BY <1>1, IncludeExpandedGrows
<1>4. n \in Nat \ {0} /\ n = Len(files) /\ FileIds = 1 .. n /\ Top.file \in 1 .. n
    BY <1>3 DEF Grown
<1>5. k \in File /\ k \notin DOMAIN seen
    BY <1>3 DEF Grown
<1>6. /\ stack' = Append(Advanced, [file |-> n + 1, next |-> 1])
      /\ seen' = [x \in DOMAIN seen \cup {k} |-> IF x = k THEN n + 1 ELSE seen[x]]
      /\ UNCHANGED <<source, phase>>
    BY <1>3 DEF Grown, IncludeExpanded
<1>7. files' \in Seq(SourceFile) /\ Len(files') = n + 1 /\ files' # <<>>
    BY <1>3 DEF Grown
<1>8. FileIds' = 1 .. n + 1
    BY <1>3 DEF Grown
<1>9. /\ \A f \in 1 .. n : files'[f].includes = files[f].includes \cup
                                                     (IF f = Top.file THEN {rec} ELSE {})
      /\ files'[n + 1].includes = {}
    BY <1>3 DEF Grown
<1>10. (\A f \in 1 .. n : files'[f].key = files[f].key) /\ files'[n + 1].key = k
    BY <1>3 DEF Grown
<1>11. IncludeOnce'
  <2>1. \A f \in 1 .. n : files[f].key \in DOMAIN seen /\ files[f].key # k
      BY <1>4, <1>5 DEF IInv, IncludeOnce
  <2>2. \A f, g \in 1 .. n + 1 : files'[f].key = files'[g].key => f = g
      BY <1>4, <1>10, <2>1 DEF IInv, IncludeOnce
  <2>3. DOMAIN seen' = {files'[f].key : f \in 1 .. n + 1}
    <3>1. DOMAIN seen' = {files[f].key : f \in 1 .. n} \cup {k}
        BY <1>4, <1>6 DEF IInv, IncludeOnce
    <3>2. \A f \in 1 .. n + 1 : f \in 1 .. n \/ f = n + 1
        BY <1>4
    <3>3. 1 .. n \subseteq 1 .. n + 1 /\ n + 1 \in 1 .. n + 1
        BY <1>4
    <3> QED BY <1>10, <3>1, <3>2, <3>3
  <2>4. \A f \in 1 .. n + 1 : seen'[files'[f].key] = f
    <3> SUFFICES ASSUME NEW f \in 1 .. n + 1 PROVE seen'[files'[f].key] = f
        OBVIOUS
    <3>1. CASE f \in 1 .. n
      <4>1. files'[f].key \in DOMAIN seen /\ files'[f].key # k /\ seen[files'[f].key] = f
          BY <1>4, <1>10, <2>1, <3>1 DEF IInv, IncludeOnce
      <4> QED BY <1>6, <4>1
    <3>2. CASE f = n + 1
      <4> QED BY <1>6, <1>10, <3>2
    <3> QED BY <1>4, <3>1, <3>2
  <2> QED BY <1>8, <2>2, <2>3, <2>4 DEF IncludeOnce
<1>12. OkTree'
  <2>1. /\ \A f \in 1 .. n : \A r \in was[f] : r.target \in 1 .. n /\ r.target > f
        /\ \A t \in 1 .. n \ {1} : \E f \in 1 .. n : \E r \in was[f] : r.target = t
        /\ \A f, g \in 1 .. n : \A r \in was[f], q \in was[g] :
              r.target = q.target => f = g /\ r = q
      BY <1>4 DEF IInv, OkTree
  <2>2. /\ \A f \in 1 .. n : is[f] = was[f] \cup (IF f = Top.file THEN {rec} ELSE {})
        /\ is[n + 1] = {}
      BY <1>4, <1>9 DEF OkIncludes
  <2> HIDE DEF is, was
  <2> DEFINE ids == 1 .. n + 1
  <2>3. \A f \in ids : \A r \in is[f] : (f \in 1 .. n /\ r \in was[f]) \/ (f = Top.file /\ r = rec)
      BY <1>4, <2>2
  <2>4. rec.target = n + 1 /\ rec \in is[Top.file]
      BY <1>4, <2>2
  <2>5. \A f \in ids : \A r \in is[f] : r.target \in ids /\ r.target > f
    <3> SUFFICES ASSUME NEW f \in ids, NEW r \in is[f] PROVE r.target \in ids /\ r.target > f
        OBVIOUS
    <3>1. CASE f \in 1 .. n /\ r \in was[f]
      <4>1. r.target \in 1 .. n /\ r.target > f
          BY <2>1, <3>1
      <4> QED BY <1>4, <4>1
    <3>2. CASE f = Top.file /\ r = rec
      <4>1. r.target = n + 1 /\ f \in 1 .. n
          BY <1>4, <2>4, <3>2
      <4> QED BY <1>4, <4>1
    <3> QED BY <2>3, <3>1, <3>2
  <2>6. \A t \in ids \ {1} : \E f \in ids : \E r \in is[f] : r.target = t
    <3>1. \A t \in 1 .. n \ {1} : \E f \in 1 .. n : \E r \in is[f] : r.target = t
        BY <2>1, <2>2
    <3> QED BY <1>4, <2>4, <3>1
  <2>7. \A f, g \in ids : \A r \in is[f], q \in is[g] : r.target = q.target => f = g /\ r = q
    <3>1. \A f \in 1 .. n : \A r \in was[f] : r.target # rec.target
        BY <1>4, <2>1, <2>4
    <3> QED BY <2>1, <2>3, <3>1
  <2>8. \A f \in ids : OkIncludes(f)' = is[f]
      BY DEF is, OkIncludes
  <2> QED BY <1>8, <2>5, <2>6, <2>7, <2>8 DEF OkTree
<1>13. TypeOK'
  <2>1. stack' \in Seq(Frame')
    <3>1. Frame \subseteq Frame' /\ [file |-> n + 1, next |-> 1] \in Frame'
        BY <1>4, <1>8 DEF Frame
    <3>2. Advanced \in Seq(Frame')
        BY <1>2, <3>1, SeqMonotonic
    <3> QED BY <1>6, <3>1, <3>2, AppendProperties
  <2>2. order' \in Seq(Refs')
    <3>1. Refs \subseteq Refs'
        BY <1>4, <1>8 DEF Refs
    <3> QED BY <1>2, <3>1, SeqMonotonic
  <2>3. \E D \in SUBSET File : seen' \in [D -> FileIds']
    <3>1. PICK D \in SUBSET File : seen \in [D -> 1 .. n]
        BY <1>4 DEF IInv, TypeOK
    <3>2. seen' \in [D \cup {k} -> 1 .. n + 1]
        BY <1>4, <1>6, <3>1
    <3> QED BY <1>5, <1>8, <3>2
  <2> QED BY <1>6, <1>7, <2>1, <2>2, <2>3 DEF IInv, TypeOK, Frame
<1> QED BY <1>11, <1>12, <1>13 DEF IInv

\* A unit that is only its root.
LEMMA InitIInv == Init => IInv
<1> SUFFICES ASSUME Init PROVE IInv
    OBVIOUS
<1>1. PICK D \in SUBSET File : source \in [D -> Seq(Stmt)]
    BY ProgramsAssumption DEF Init
<1>2. Text(Root) \in Seq(Stmt)
    BY <1>1, EmptySeq DEF Text
<1> DEFINE root == NewFile(Root, Text(Root))
<1>3. root \in SourceFile /\ root.key = Root /\ root.includes = {}
    BY <1>2, NewFileType, FileAssumption
<1>4. files = <<root>>
    BY DEF Init
<1> HIDE DEF root
<1>5. files \in Seq(SourceFile) /\ files # <<>> /\ Len(files) = 1 /\ files[1] = root
    BY <1>3, <1>4
<1>6. FileIds = {1}
    BY <1>5, LenProperties DEF FileIds
<1>7. IncludeOnce
    BY <1>3, <1>5, <1>6 DEF Init, IncludeOnce
<1>8. OkIncludes(1) = {}
    BY <1>3, <1>5 DEF OkIncludes
<1>9. OkTree
    BY <1>6, <1>8 DEF OkTree
<1>10. seen \in [{Root} -> FileIds] /\ {Root} \in SUBSET File
    BY <1>6, FileAssumption DEF Init
<1>11. stack \in Seq([file : FileIds, next : Nat \ {0}]) /\ order \in Seq(Refs)
    BY <1>6, EmptySeq DEF Init
<1>12. TypeOK
    BY <1>1, <1>5, <1>10, <1>11 DEF Init, TypeOK
<1> QED BY <1>7, <1>9, <1>12 DEF IInv

\* Nothing changes.
LEMMA StutterKeeps == ASSUME IInv, UNCHANGED vars PROVE IInv'
<1>1. FileIds' = FileIds /\ Refs' = Refs /\ files' # <<>> /\ IncludeOnce' /\ OkTree'
    BY UnchangedSame, SameFilesKeep DEF IInv, vars
<1>2. TypeOK'
    BY <1>1 DEF IInv, TypeOK, vars
<1> QED BY <1>1, <1>2 DEF IInv

\* Every step keeps the invariant.
LEMMA NextKeeps == IInv /\ [Next]_vars => IInv'
<1> SUFFICES ASSUME IInv, [Next]_vars PROVE IInv'
    OBVIOUS
<1>1. CASE OtherStatement BY <1>1, OtherStatementKeeps
<1>2. CASE IncludeUnresolved BY <1>2, IncludeUnresolvedKeeps
<1>3. CASE IncludeSeen BY <1>3, IncludeSeenKeeps
<1>4. CASE IncludeRefused BY <1>4, IncludeRefusedKeeps
<1>5. CASE IncludeExpanded BY <1>5, IncludeExpandedKeeps
<1>6. CASE EmbFile BY <1>6, EmbFileKeeps
<1>7. CASE LeaveFile BY <1>7, LeaveFileKeeps
<1>8. CASE Analyse BY <1>8, AnalyseKeeps
<1>9. CASE AddSummaries BY <1>9, AddSummariesKeeps
<1>10. CASE Returned BY <1>10, StutterKeeps DEF Returned
<1>11. CASE UNCHANGED vars BY <1>11, StutterKeeps
<1> QED BY <1>1, <1>2, <1>3, <1>4, <1>5, <1>6, <1>7, <1>8, <1>9, <1>10, <1>11 DEF Next

\* The inductive invariant of the walk: its types, each file once, the Ok includes a tree.
THEOREM Invariance == Spec => []IInv
<1> QED BY InitIInv, NextKeeps, PTL DEF Spec

\* The state of a build always has its shape.
THEOREM TypeCorrect == Spec => []TypeOK
<1>1. IInv => TypeOK BY DEF IInv
<1> QED BY <1>1, Invariance, PTL

\* "Each file once": a unit never holds a key twice, and m_seen names
\* exactly its files, for every program and limit.
THEOREM IncludedOnce == Spec => []IncludeOnce
<1>1. IInv => IncludeOnce BY DEF IInv
<1> QED BY <1>1, Invariance, PTL

\* "Ok-edges form a tree", which the memoised error sums rely on.
THEOREM OkEdgesFormATree == Spec => []OkTree
<1>1. IInv => OkTree BY DEF IInv
<1> QED BY <1>1, Invariance, PTL

-----------------------------------------------------------------------------
(* The unit is what the root reaches.                                      *)

\* Statement i of file f has been visited, unless an activation of f that is
\* still running has not come to it yet.
Passed(f, i) == \A n \in DOMAIN stack : stack[n].file = f => i < stack[n].next

\* An include that has been visited has brought its file into the unit, if
\* there was room.
PassedIncludes ==
    \A f \in FileIds : \A i \in DOMAIN Text(files[f].key) :
        LET s == Text(files[f].key)[i]
        IN Passed(f, i) /\ s.op = "include" /\ s.to \in DOMAIN source
               => s.to \in DOMAIN seen \/ Len(files) = MaxFiles

RInv ==
    /\ files[1].key = Root /\ Len(files) <= MaxFiles
    /\ \A f \in FileIds : files[f].key \in Reachable
    /\ phase # "expand" => stack = <<>>
    /\ PassedIncludes

\* Taking a statement passes that statement and no other.
LEMMA AdvancedIsPast ==
    ASSUME TypeOK, Visit
    PROVE  /\ DOMAIN Advanced = DOMAIN stack
           /\ \A f : \A i \in Nat :
                 (\A n \in DOMAIN Advanced : Advanced[n].file = f => i < Advanced[n].next)
                     => Passed(f, i) \/ (f = Top.file /\ i = Top.next)
<1>1. Len(stack) \in Nat \ {0} /\ Top \in Frame /\ DOMAIN stack = 1 .. Len(stack)
    BY VisitFacts, LenProperties DEF TypeOK
<1>2. /\ DOMAIN Advanced = DOMAIN stack
      /\ \A n \in DOMAIN stack : Advanced[n].file = stack[n].file
      /\ \A n \in DOMAIN stack \ {Len(stack)} : Advanced[n] = stack[n]
      /\ Advanced[Len(stack)].next = Top.next + 1
  <2>1. stack \in Seq(Frame) BY DEF TypeOK, Frame
  <2>2. \A n \in DOMAIN stack : stack[n] \in Frame BY <1>1, <2>1, ElementOfSeq
  <2> QED BY <1>1, <2>2 DEF Advanced, Top, Frame
<1>3. ASSUME NEW f, NEW i \in Nat, ~(f = Top.file /\ i = Top.next),
             \A n \in DOMAIN Advanced : Advanced[n].file = f => i < Advanced[n].next
      PROVE  Passed(f, i)
  <2> SUFFICES ASSUME NEW n \in DOMAIN stack, stack[n].file = f PROVE i < stack[n].next
      BY DEF Passed
  <2>1. i < Advanced[n].next BY <1>2, <1>3
  <2>2. CASE n = Len(stack) BY <1>1, <1>2, <1>3, <2>1, <2>2 DEF Top, Frame
  <2>3. CASE n # Len(stack) BY <1>2, <2>1, <2>3
  <2> QED BY <2>2, <2>3
<1> QED BY <1>2, <1>3

\* The root is reachable, and what a reachable file includes; a set with this
\* property holds all that is.
LEMMA ReachableFacts ==
    /\ Root \in Reachable
    /\ \A k \in Reachable : IncludedBy(k) \cap File \subseteq Reachable
    /\ \A S \in SUBSET File : ClosedUnit(S) => Reachable \subseteq S
BY FileAssumption DEF Reachable, ClosedUnit

\* A step without a new file, if it passes no include that is missing.
LEMMA NoFileAdded ==
    ASSUME IInv, RInv, SameFiles, UNCHANGED <<source, seen>>, phase' # "expand" => stack' = <<>>,
           \A f \in FileIds : \A i \in DOMAIN Text(files[f].key) :
               LET s == Text(files[f].key)[i]
               IN Passed(f, i)' /\ s.op = "include" /\ s.to \in DOMAIN source
                      => Passed(f, i) \/ s.to \in DOMAIN seen \/ Len(files) = MaxFiles
    PROVE  RInv'
<1>1. FileIds' = FileIds /\ Len(files') = Len(files) BY SameFilesKeep DEF IInv, SameFiles
<1>2. \A f \in FileIds : files'[f].key = files[f].key BY DEF SameFiles
<1>3. 1 \in FileIds BY LenProperties, EmptySeq DEF IInv, TypeOK, FileIds
<1>4. Reachable' = Reachable BY DEF Reachable, ClosedUnit, IncludedBy, Named, Text
<1>5. \A k : Text(k)' = Text(k) BY DEF Text
<1>6. PassedIncludes'
  <2> SUFFICES ASSUME NEW f \in FileIds, NEW i \in DOMAIN Text(files[f].key),
                      Passed(f, i)', Text(files[f].key)[i].op = "include",
                      Text(files[f].key)[i].to \in DOMAIN source
               PROVE  Text(files[f].key)[i].to \in DOMAIN seen \/ Len(files) = MaxFiles
      BY <1>1, <1>2, <1>5 DEF PassedIncludes, Text
  <2> QED BY DEF RInv, PassedIncludes
<1> QED BY <1>1, <1>2, <1>3, <1>4, <1>6 DEF RInv

\* What a file without a running activation, and the top one, have passed.
LEMMA LeavePassed ==
    ASSUME TypeOK, LeaveFile
    PROVE  /\ Top \in Frame /\ Len(stack) \in Nat \ {0}
           /\ \A f, i : Passed(f, i)' /\ i \in DOMAIN Text(files[f].key) => Passed(f, i)
<1>1. stack \in Seq(Frame) /\ stack # <<>> BY DEF TypeOK, LeaveFile, Frame
<1>2. /\ Len(stack) \in Nat \ {0} /\ DOMAIN stack = 1 .. Len(stack) /\ Top \in Frame
  BY <1>1, EmptySeq, LenProperties, ElementOfSeq DEF Top
<1>3. DOMAIN stack' = 1 .. Len(stack) - 1 /\ \A n \in 1 .. Len(stack) - 1 : stack'[n] = stack[n]
  BY <1>1, <1>2 DEF LeaveFile
<1>4. ASSUME NEW f, NEW i, Passed(f, i)', i \in DOMAIN Text(files[f].key) PROVE Passed(f, i)
  <2> SUFFICES ASSUME NEW n \in DOMAIN stack, stack[n].file = f PROVE i < stack[n].next
      BY DEF Passed
  <2>1. CASE n = Len(stack)
    <3>1. f = Top.file /\ stack[n] = Top BY <2>1 DEF Top
    <3>2. Here \in Seq(Stmt) /\ i \in DOMAIN Here BY <1>4, <3>1, TextType DEF Here
    <3>3. Top.next > Len(Here) /\ i \in 1 .. Len(Here) BY <3>2, LenProperties DEF LeaveFile
    <3> QED BY <1>2, <3>1, <3>2, <3>3, LenProperties DEF Frame
  <2>2. CASE n # Len(stack) BY <1>2, <1>3, <1>4, <2>2 DEF Passed
  <2> QED BY <2>1, <2>2
<1> QED BY <1>2, <1>4

\* The statements that add no file.
LEMMA StepOverReach ==
    ASSUME IInv, RInv, Visit, SameFiles, stack' = Advanced, UNCHANGED <<source, seen, phase>>,
           Current.op = "include" /\ Current.to \in DOMAIN source
               => Current.to \in DOMAIN seen \/ Len(files) = MaxFiles
    PROVE  RInv'
<1>1. Top \in Frame BY VisitFacts DEF IInv
<1>2. phase' = "expand" BY DEF Visit
<1>3. ASSUME NEW f \in FileIds, NEW i \in DOMAIN Text(files[f].key), Passed(f, i)',
             Text(files[f].key)[i].op = "include", Text(files[f].key)[i].to \in DOMAIN source
      PROVE  Passed(f, i) \/ Text(files[f].key)[i].to \in DOMAIN seen \/ Len(files) = MaxFiles
  <2>1. i \in Nat BY <1>3, TextType, LenProperties DEF IInv
  <2>2. Passed(f, i) \/ (f = Top.file /\ i = Top.next) BY <1>3, <2>1, AdvancedIsPast DEF IInv, Passed
  <2> QED BY <1>3, <2>2 DEF Current, Here
<1> QED BY <1>2, <1>3, NoFileAdded

\* The one that adds one: it is there because the top file includes it.
LEMMA ExpandReach == ASSUME IInv, RInv, IncludeExpanded PROVE RInv'
<1>0. PICK k, n : k = Current.to /\ n = Len(files) OBVIOUS
<1>1. Grown(k, n) BY <1>0, IncludeExpandedGrows
<1>2. /\ Top \in Frame /\ Advanced \in Seq(Frame) /\ Len(stack) \in Nat \ {0}
      /\ Visit /\ k \in DOMAIN source /\ Current.op = "include" /\ ~Full
      /\ source' = source /\ phase' = phase /\ phase = "expand"
  BY <1>0, VisitFacts DEF IInv, IncludeExpanded, NewInclude, Visit
<1>3. n < MaxFiles /\ Len(files') <= MaxFiles
  BY <1>1, <1>2, MaxFilesAssumption DEF Grown, Full
<1>4. /\ \A f \in 1 .. n : files'[f].key = files[f].key
      /\ files'[n + 1].key = k /\ FileIds = 1 .. n /\ FileIds' = 1 .. n + 1 /\ n \in Nat \ {0}
      /\ \A f \in 1 .. n + 1 : f \in 1 .. n \/ f = n + 1
      /\ 1 \in 1 .. n
  BY <1>1 DEF Grown
<1>5. /\ \A x : Text(x)' = Text(x)
      /\ Reachable' = Reachable
  BY <1>2 DEF Text, Reachable, ClosedUnit, IncludedBy, Named
<1>6. k \in Reachable
  <2>1. Here \in Seq(Stmt) /\ Top.next \in 1 .. Len(Here)
    <3>1. Here \in Seq(Stmt) BY TextType DEF Here, IInv
    <3> QED BY <1>2, <3>1, LenProperties DEF Frame, Visit
  <2>2. Current \in Range(Text(files[Top.file].key))
    BY <2>1, LenProperties DEF Current, Here, Range
  <2>3. k \in IncludedBy(files[Top.file].key) /\ k \in File
    BY <1>0, <1>1, <1>2, <2>2, FileAssumption DEF IncludedBy, Named, Grown
  <2> QED BY <1>1, <2>3, ReachableFacts DEF RInv, Grown
<1>7. \A f \in FileIds' : files'[f].key \in Reachable'
  BY <1>4, <1>5, <1>6 DEF RInv
<1>8. DOMAIN seen' = DOMAIN seen \cup {k} BY <1>1 DEF Grown
<1>9. /\ Len(Advanced) = Len(stack) /\ DOMAIN Advanced = 1 .. Len(stack)
      /\ DOMAIN stack' = 1 .. Len(stack) + 1
      /\ \A m \in 1 .. Len(stack) : stack'[m] = Advanced[m]
      /\ stack'[Len(stack) + 1] = [file |-> n + 1, next |-> 1]
  <2>1. Len(Advanced) = Len(stack) /\ DOMAIN Advanced = 1 .. Len(stack)
    <3>1. DOMAIN Advanced = DOMAIN stack /\ DOMAIN stack = 1 .. Len(stack)
      BY LenProperties DEF Advanced, IInv, TypeOK
    <3> QED BY <1>2, <3>1, LenProperties
  <2>2. PICK S : S = Frame \cup {[file |-> n + 1, next |-> 1]} OBVIOUS
  <2>3. Advanced \in Seq(S) /\ [file |-> n + 1, next |-> 1] \in S
    BY <1>2, <2>2, SeqMonotonic
  <2>4. stack' = Append(Advanced, [file |-> n + 1, next |-> 1]) BY <1>1 DEF Grown
  <2>5. /\ Len(stack') = Len(stack) + 1 /\ stack' \in Seq(S)
        /\ \A m \in 1 .. Len(stack) : stack'[m] = Advanced[m]
        /\ stack'[Len(stack) + 1] = [file |-> n + 1, next |-> 1]
    BY <2>1, <2>3, <2>4, AppendProperties
  <2> QED BY <2>1, <2>5, LenProperties
<1>10. PassedIncludes'
  <2> SUFFICES ASSUME NEW f \in 1 .. n + 1, NEW i \in DOMAIN Text(files'[f].key), Passed(f, i)',
                      Text(files'[f].key)[i].op = "include",
                      Text(files'[f].key)[i].to \in DOMAIN source
               PROVE  Text(files'[f].key)[i].to \in DOMAIN seen' \/ Len(files') = MaxFiles
    BY <1>2, <1>4, <1>5 DEF PassedIncludes, Text
  <2>1. i \in Nat \ {0} BY TextType, LenProperties DEF IInv
  <2>2. f \in 1 .. n
    <3>1. f = n + 1 => i < 1
      <4>1. Len(stack) + 1 \in DOMAIN stack' BY <1>2, <1>9
      <4> QED BY <1>9, <4>1 DEF Passed
    <3> QED BY <1>4, <2>1, <3>1
  <2>3. Passed(f, i) \/ (f = Top.file /\ i = Top.next)
    <3>1. \A m \in 1 .. Len(stack) : m \in DOMAIN stack' BY <1>2, <1>9
    <3>2. \A m \in DOMAIN Advanced : Advanced[m].file = f => i < Advanced[m].next
      BY <1>9, <3>1 DEF Passed
    <3> QED BY <1>2, <2>1, <3>2, AdvancedIsPast DEF IInv
  <2>4. Text(files[f].key) = Text(files'[f].key) BY <1>4, <2>2
  <2>5. CASE Passed(f, i)
    <3>1. Text(files[f].key)[i].to \in DOMAIN seen
      BY <1>3, <1>4, <1>1, <2>2, <2>4, <2>5 DEF RInv, PassedIncludes, Grown
    <3> QED BY <1>8, <2>4, <3>1
  <2>6. CASE f = Top.file /\ i = Top.next
    <3>1. Text(files[f].key)[i] = Current BY <2>6 DEF Current, Here
    <3> QED BY <1>0, <1>8, <2>4, <3>1
  <2> QED BY <2>3, <2>5, <2>6
<1> QED BY <1>2, <1>3, <1>4, <1>5, <1>7, <1>10 DEF RInv

\* At the start the unit is the root's file.
LEMMA InitRInv == Init => RInv
<1> SUFFICES ASSUME Init PROVE RInv OBVIOUS
<1>1. IInv BY InitIInv
<1>2. /\ Len(files) = 1 /\ FileIds = {1} /\ files[1].key = Root
  BY DEF Init, FileIds, NewFile
<1>3. 1 <= MaxFiles BY MaxFilesAssumption
<1>4. ASSUME NEW i \in DOMAIN Text(files[1].key) PROVE ~Passed(1, i)
  <2>1. i \in Nat \ {0} BY <1>1, <1>4, TextType, LenProperties DEF IInv
  <2>2. 1 \in DOMAIN stack /\ stack[1].file = 1 /\ stack[1].next = 1 BY DEF Init
  <2> QED BY <2>1, <2>2 DEF Passed
<1>5. PassedIncludes BY <1>2, <1>4 DEF PassedIncludes
<1> QED BY <1>2, <1>3, <1>5, ReachableFacts DEF RInv, Init

\* Every step keeps it.
LEMMA NextRInv == ASSUME IInv, RInv, [Next]_vars PROVE RInv'
<1>0. ASSUME Visit PROVE Current \in Stmt /\ DOMAIN source \subseteq File
    BY <1>0, VisitFacts DEF IInv, TypeOK
<1>1. CASE OtherStatement
  <2>1. ~(Current.op = "include" /\ Current.to \in DOMAIN source)
      BY <1>0, <1>1, FileAssumption DEF OtherStatement
  <2> QED BY <1>1, <2>1, OtherStatementSame, StepOverReach DEF OtherStatement
<1>2. CASE IncludeUnresolved
  <2>1. ~(Current.to \in DOMAIN source)
      BY <1>0, <1>2, FileAssumption DEF IncludeUnresolved
  <2> QED BY <1>2, <2>1, IncludeUnresolvedSame, StepOverReach DEF IncludeUnresolved
<1>3. CASE IncludeSeen
  BY <1>3, IncludeSeenSame, StepOverReach DEF IncludeSeen
<1>4. CASE IncludeRefused
  <2>1. Current.to \notin DOMAIN source \/ Len(files) = MaxFiles
    <3>1. Len(files) \in Nat BY LenProperties DEF IInv, TypeOK
    <3> QED BY <1>4, <3>1, MaxFilesAssumption DEF IncludeRefused, Full, RInv
  <2> QED BY <1>4, <2>1, IncludeRefusedSame, StepOverReach DEF IncludeRefused
<1>5. CASE IncludeExpanded BY <1>5, ExpandReach
<1>6. CASE EmbFile
  BY <1>6, EmbFileSame, StepOverReach DEF EmbFile
<1>7. CASE LeaveFile
  <2>1. SameFiles BY <1>7, UnchangedSame DEF IInv, LeaveFile
  <2>2. UNCHANGED <<source, seen>> /\ phase' = "expand" BY <1>7 DEF LeaveFile
  <2> QED BY <1>7, <2>1, <2>2, LeavePassed, NoFileAdded DEF IInv
<1>8. ASSUME SameFiles, UNCHANGED <<source, seen, stack>>, phase' # "expand" => stack = <<>>
      PROVE  RInv'
  <2>1. \A f, i : Passed(f, i)' <=> Passed(f, i) BY <1>8 DEF Passed
  <2>2. phase' # "expand" => stack' = <<>> BY <1>8
  <2>3. UNCHANGED <<source, seen>> BY <1>8
  <2> QED BY <1>8, <2>1, <2>2, <2>3, NoFileAdded
<1>9. CASE Analyse
  BY <1>8, <1>9, AnalyseSame DEF Analyse
<1>10. CASE AddSummaries
  BY <1>8, <1>10, AddSummariesSame DEF AddSummaries, RInv
<1>11. CASE Returned \/ UNCHANGED vars
  BY <1>8, <1>11, UnchangedSame DEF Returned, vars, RInv, IInv
<1> QED BY <1>1, <1>2, <1>3, <1>4, <1>5, <1>6, <1>7, <1>9, <1>10, <1>11 DEF Next

\* "A root file plus everything it includes" (Compilation.h): the finished unit
\* holds exactly the files that includes reach from the root, unless MAX_FILES
\* was hit, and it is never larger than that.
THEOREM UnitIsWhatTheRootReaches == Spec => []UnitIsReachable
<1>1. ASSUME IInv, RInv PROVE UnitIsReachable
  <2> SUFFICES ASSUME phase = "done"
               PROVE  LET keys == {files[f].key : f \in FileIds}
                      IN /\ keys \subseteq Reachable /\ Len(files) <= MaxFiles
                         /\ keys # Reachable => Len(files) = MaxFiles
    BY DEF UnitIsReachable
  <2> DEFINE keys == {files[f].key : f \in FileIds}
  <2>1. keys \subseteq Reachable /\ Len(files) <= MaxFiles BY <1>1 DEF RInv
  <2>2. ASSUME Len(files) # MaxFiles PROVE Reachable \subseteq keys
    <3>1. ASSUME NEW f \in FileIds PROVE IncludedBy(files[f].key) \subseteq keys
      <4> SUFFICES ASSUME NEW s \in Range(Text(files[f].key)), s.op = "include",
                          s.to \in DOMAIN source
                   PROVE  s.to \in keys
        BY DEF IncludedBy, Named
      <4>1. PICK i \in DOMAIN Text(files[f].key) : s = Text(files[f].key)[i] BY DEF Range
      <4>2. Passed(f, i) BY <1>1 DEF RInv, Passed
      <4>3. s.to \in DOMAIN seen BY <1>1, <2>2, <4>1, <4>2 DEF RInv, PassedIncludes
      <4> QED BY <1>1, <4>3 DEF IInv, IncludeOnce
    <3>2. Root \in keys
      <4>1. 1 \in FileIds BY <1>1, LenProperties, EmptySeq DEF IInv, TypeOK, FileIds
      <4> QED BY <1>1, <4>1 DEF RInv
    <3>3. keys \subseteq File
      <4>1. \A f \in FileIds : files[f] \in SourceFile
        BY <1>1, LenProperties, ElementOfSeq DEF IInv, TypeOK, FileIds
      <4> QED BY <4>1 DEF SourceFile
    <3>4. ClosedUnit(keys) BY <3>1, <3>2 DEF ClosedUnit
    <3> HIDE DEF keys
    <3> QED BY <3>3, <3>4, ReachableFacts
  <2> QED BY <2>1, <2>2
<1>2. Spec => [](IInv /\ RInv)
  <2>1. Init => IInv /\ RInv BY InitIInv, InitRInv
  <2>2. IInv /\ RInv /\ [Next]_vars => IInv' /\ RInv' BY NextKeeps, NextRInv
  <2> QED BY <2>1, <2>2, PTL DEF Spec
<1> QED BY <1>1, <1>2, PTL

-----------------------------------------------------------------------------
(* The walk is a preorder: the files below a file are those that follow it *)
(* up to the first one whose includer precedes it.                         *)

Link(f, t) == \E r \in OkIncludes(f) : r.target = t
Under(t) == {g \in FileIds : t <= g /\ \A h \in t + 1 .. g : \A f \in FileIds : Link(f, h) => t <= f}

\* The files being expanded are the includers of the top one; a file below one
\* of them has it above, and what is open is below what is open.
Chain ==
    /\ \A m, n \in DOMAIN stack : m < n => stack[m].file < stack[n].file
    /\ \A n \in DOMAIN stack : \A t \in FileIds : stack[n].file < t => t \in Under(stack[n].file)
    /\ \A n \in DOMAIN stack : \A t \in FileIds : stack[n].file \in Under(t) => OnStack(t)

\* Two includes never cross: the files below one are below the other, or apart.
NoCross == \A f, g, c, h \in FileIds : Link(f, c) /\ Link(g, h) /\ c < h => c <= g \/ g <= f

\* The order holds what has been visited, each file's statements in their own.
At(f, i) == [file |-> f, index |-> i]
OrderOK ==
    /\ \A p \in DOMAIN order : /\ order[p].file \in FileIds
                               /\ order[p].index \in DOMAIN Text(files[order[p].file].key)
    /\ \A f \in FileIds : \A i \in DOMAIN Text(files[f].key) :
          Passed(f, i) <=> \E p \in DOMAIN order : order[p] = At(f, i)
    /\ \A p, q \in DOMAIN order :
          p < q /\ order[p].file = order[q].file => order[p].index < order[q].index

\* The record of an include is made when its statement is visited; a cycle leads
\* to a file above, a repeat to one that is complete by then.
RecordsOK ==
    \A f \in FileIds : \A r \in files[f].includes :
        /\ \E p \in DOMAIN order : order[p] = At(f, r.stmt)
        /\ r.status = "Cycle" => r.target \in FileIds /\ f \in Under(r.target)
        /\ r.status = "AlreadyIncluded" =>
              /\ r.target \in FileIds /\ ~OnStack(r.target)
              /\ \A g \in Under(r.target) : \A i \in DOMAIN Text(files[g].key) :
                    \A q \in DOMAIN order : order[q] = At(f, r.stmt) =>
                        \E p \in DOMAIN order : p < q /\ order[p] = At(g, i)

\* What is below an include comes after it, with nothing in between.
Blocks ==
    \A f \in FileIds : \A r \in OkIncludes(f) : \A at \in DOMAIN order :
        order[at] = At(f, r.stmt) =>
            /\ \A p \in DOMAIN order : order[p].file \in Under(r.target) =>
                  at < p /\ \A q \in at + 1 .. p : order[q].file \in Under(r.target)
            /\ OnStack(r.target) =>
                  \A p \in DOMAIN order : at < p => order[p].file \in Under(r.target)

WInv == Chain /\ NoCross /\ OrderOK /\ RecordsOK /\ Blocks

-----------------------------------------------------------------------------
(* How the walk moves.                                                     *)

\* Taking a statement moves the top activation on, and no other.
LEMMA AdvancedFacts ==
    ASSUME TypeOK, Visit
    PROVE  /\ Len(stack) \in Nat \ {0} /\ DOMAIN stack = 1 .. Len(stack)
           /\ \A n \in DOMAIN stack : stack[n] \in Frame
           /\ Top \in Frame /\ Top = stack[Len(stack)] /\ Top.file \in FileIds
           /\ DOMAIN Advanced = DOMAIN stack /\ Len(Advanced) = Len(stack)
           /\ \A n \in DOMAIN stack : Advanced[n].file = stack[n].file
           /\ \A n \in DOMAIN stack \ {Len(stack)} : Advanced[n] = stack[n]
           /\ Advanced[Len(stack)].next = Top.next + 1
<1>1. /\ Len(stack) \in Nat \ {0} /\ Top \in Frame /\ Advanced \in Seq(Frame)
      /\ DOMAIN stack = 1 .. Len(stack)
  BY VisitFacts, LenProperties DEF TypeOK
<1>2. stack \in Seq(Frame) BY DEF TypeOK, Frame
<1>3. \A n \in DOMAIN stack : stack[n] \in Frame BY <1>1, <1>2, ElementOfSeq
<1>4. DOMAIN Advanced = DOMAIN stack BY DEF Advanced
<1>5. Len(Advanced) = Len(stack) BY <1>1, <1>4, LenProperties
<1>6. /\ \A n \in DOMAIN stack : Advanced[n].file = stack[n].file
      /\ \A n \in DOMAIN stack \ {Len(stack)} : Advanced[n] = stack[n]
      /\ Advanced[Len(stack)].next = Top.next + 1
  BY <1>1, <1>3 DEF Advanced, Top, Frame
<1> QED BY <1>1, <1>3, <1>4, <1>5, <1>6 DEF Top, Frame

\* What a stack has passed.
PassedBy(s, f, i) == \A n \in DOMAIN s : s[n].file = f => i < s[n].next

\* Visiting a statement passes that one and no other; its file has passed what is before it.
LEMMA PassedNow ==
    ASSUME TypeOK, Chain, Visit
    PROVE  /\ \A f : \A i \in Nat : PassedBy(Advanced, f, i) <=>
                                        Passed(f, i) \/ (f = Top.file /\ i = Top.next)
           /\ ~Passed(Top.file, Top.next)
           /\ \A f : \A i \in Nat : Passed(f, i) /\ f = Top.file => i < Top.next
<1>1. /\ Len(stack) \in Nat \ {0} /\ DOMAIN stack = 1 .. Len(stack)
      /\ Top \in Frame /\ Top = stack[Len(stack)] /\ DOMAIN Advanced = DOMAIN stack
      /\ \A n \in DOMAIN stack : Advanced[n].file = stack[n].file /\ stack[n] \in Frame
      /\ \A n \in DOMAIN stack \ {Len(stack)} : Advanced[n] = stack[n]
      /\ Advanced[Len(stack)].next = Top.next + 1
  BY AdvancedFacts
<1>2. Len(stack) \in DOMAIN stack /\ Top.next \in Nat BY <1>1 DEF Frame
<1>3. ASSUME NEW f, NEW i \in Nat, Passed(f, i) \/ (f = Top.file /\ i = Top.next)
      PROVE  PassedBy(Advanced, f, i)
  <2> SUFFICES ASSUME NEW n \in DOMAIN stack, stack[n].file = f PROVE i < Advanced[n].next
    BY <1>1 DEF PassedBy
  <2>1. CASE Passed(f, i)
    <3>1. i < stack[n].next BY <2>1 DEF Passed
    <3>2. CASE n = Len(stack) BY <1>1, <1>2, <3>1, <3>2
    <3>3. CASE n # Len(stack) BY <1>1, <3>1, <3>3
    <3> QED BY <3>2, <3>3
  <2>2. CASE f = Top.file /\ i = Top.next
    <3>1. n = Len(stack)
      <4> SUFFICES ASSUME n # Len(stack) PROVE FALSE OBVIOUS
      <4>1. n < Len(stack) BY <1>1
      <4>2. stack[n].file < stack[Len(stack)].file BY <1>2, <4>1 DEF Chain
      <4>3. stack[n].file = Top.file /\ Top.file \in Nat
        <5>1. FileIds = 1 .. Len(files) BY LenProperties DEF TypeOK, FileIds
        <5>2. Len(files) \in Nat BY LenProperties DEF TypeOK
        <5> QED BY <1>1, <2>2, <5>1, <5>2 DEF Frame
      <4> QED BY <1>1, <4>2, <4>3
    <3> QED BY <1>1, <1>2, <2>2, <3>1
  <2> QED BY <1>3, <2>1, <2>2
<1>4. ASSUME NEW f, NEW i \in Nat, PassedBy(Advanced, f, i)
      PROVE  Passed(f, i) \/ (f = Top.file /\ i = Top.next)
  BY <1>4, AdvancedIsPast DEF PassedBy
<1>5. \A i \in Nat : Passed(Top.file, i) => i < Top.next BY <1>1, <1>2 DEF Passed
<1>6. ~Passed(Top.file, Top.next) BY <1>2, <1>5
<1> QED BY <1>3, <1>4, <1>5, <1>6

\* The order gets the statement at its end.
LEMMA OrderNow ==
    ASSUME TypeOK, Visit
    PROVE  /\ Len(order) \in Nat /\ DOMAIN order = 1 .. Len(order)
           /\ DOMAIN order' = 1 .. Len(order) + 1
           /\ \A p \in DOMAIN order : p \in DOMAIN order' /\ order'[p] = order[p]
           /\ order'[Len(order) + 1] = At(Top.file, Top.next)
           /\ \A p \in DOMAIN order' : p \in DOMAIN order \/ p = Len(order) + 1
           /\ Top.file \in FileIds /\ Top.next \in DOMAIN Text(files[Top.file].key)
           /\ Top.next \in Nat
<1>1. PICK o, x : o = order /\ x = At(Top.file, Top.next) OBVIOUS
<1>2. o \in Seq(Refs) /\ order' = Append(o, x) BY <1>1 DEF TypeOK, Visit, At
<1>3. Top \in Frame BY VisitFacts
<1>4. x \in Refs BY <1>1, <1>3 DEF At, Refs, Frame
<1>5. /\ Len(o) \in Nat /\ DOMAIN o = 1 .. Len(o)
      /\ order' \in Seq(Refs) /\ Len(order') = Len(o) + 1
      /\ \A p \in 1 .. Len(o) : order'[p] = o[p]
      /\ order'[Len(o) + 1] = x
  BY <1>2, <1>4, LenProperties, AppendProperties
<1>6. DOMAIN order' = 1 .. Len(o) + 1 BY <1>5, LenProperties
<1>7. Top.next \in DOMAIN Here /\ Here = Text(files[Top.file].key)
  <2>1. Here \in Seq(Stmt) BY TextType DEF Here
  <2> QED BY <1>3, <2>1, LenProperties DEF Visit, Frame, Here
<1>8. Top.file \in FileIds /\ Top.next \in Nat BY <1>3 DEF Frame
<1> QED BY <1>1, <1>5, <1>6, <1>7, <1>8

\* The order stays an order when a statement is visited.
LEMMA OrderGrows ==
    ASSUME IInv, Chain, OrderOK, Visit, FileIds \subseteq FileIds', source' = source,
           \A f \in FileIds : files'[f].key = files[f].key,
           \A f \in FileIds' : \A i \in DOMAIN Text(files'[f].key) :
               Passed(f, i)' <=> f \in FileIds /\ (Passed(f, i) \/ (f = Top.file /\ i = Top.next))
    PROVE  OrderOK'
<1>1. PICK n, x : n = Len(order) /\ x = At(Top.file, Top.next) OBVIOUS
<1>2. /\ n \in Nat /\ DOMAIN order = 1 .. n /\ DOMAIN order' = 1 .. n + 1
      /\ \A p \in DOMAIN order : p \in DOMAIN order' /\ order'[p] = order[p]
      /\ order'[n + 1] = x /\ x.file = Top.file /\ x.index = Top.next
      /\ \A p \in DOMAIN order' : p \in DOMAIN order \/ p = n + 1
      /\ Top.file \in FileIds /\ Top.next \in DOMAIN Text(files[Top.file].key) /\ Top.next \in Nat
      /\ n + 1 \in DOMAIN order'
  BY <1>1, OrderNow DEF IInv, At
<1>3. \A k : Text(k)' = Text(k) BY DEF Text
<1>4. \A p \in DOMAIN order : order[p].index \in Nat
  <2>1. \A p \in DOMAIN order : order[p] \in Refs BY LenProperties, ElementOfSeq DEF IInv, TypeOK
  <2> QED BY <2>1 DEF Refs
<1>5. \A p \in DOMAIN order' : /\ order'[p].file \in FileIds'
                               /\ order'[p].index \in DOMAIN Text(files'[order'[p].file].key)
  BY <1>2 DEF OrderOK
<1>6. ASSUME NEW f \in FileIds', NEW i \in DOMAIN Text(files'[f].key)
      PROVE  Passed(f, i)' <=> \E p \in DOMAIN order' : order'[p] = At(f, i)
  <2>1. Passed(f, i)' <=> f \in FileIds /\ (Passed(f, i) \/ (f = Top.file /\ i = Top.next))
    OBVIOUS
  <2>2. ASSUME f \in FileIds, Passed(f, i) PROVE \E p \in DOMAIN order' : order'[p] = At(f, i)
    <3>1. i \in DOMAIN Text(files[f].key) BY <2>2
    <3>2. PICK p \in DOMAIN order : order[p] = At(f, i) BY <2>2, <3>1 DEF OrderOK
    <3> QED BY <1>2, <3>2
  <2>3. ASSUME f = Top.file, i = Top.next PROVE \E p \in DOMAIN order' : order'[p] = At(f, i)
    BY <1>1, <1>2, <2>3
  <2>4. ASSUME NEW p \in DOMAIN order', order'[p] = At(f, i)
        PROVE  f \in FileIds /\ (Passed(f, i) \/ (f = Top.file /\ i = Top.next))
    <3>1. CASE p \in DOMAIN order
      <4>1. order[p] = At(f, i) /\ order[p].file = f BY <1>2, <2>4, <3>1 DEF At
      <4>2. f \in FileIds BY <3>1, <4>1 DEF OrderOK
      <4>3. i \in DOMAIN Text(files[f].key) BY <4>2
      <4> QED BY <3>1, <4>1, <4>2, <4>3 DEF OrderOK
    <3>2. CASE p = n + 1 BY <1>1, <1>2, <2>4, <3>2 DEF At
    <3> QED BY <1>2, <3>1, <3>2
  <2> QED BY <2>1, <2>2, <2>3, <2>4
<1>7. ASSUME NEW p \in DOMAIN order', NEW q \in DOMAIN order', p < q,
             order'[p].file = order'[q].file
      PROVE  order'[p].index < order'[q].index
  <2>1. p \in DOMAIN order BY <1>2, <1>7
  <2>2. CASE q \in DOMAIN order BY <1>2, <1>7, <2>1, <2>2 DEF OrderOK
  <2>3. CASE q = n + 1
    <3>1. order[p].file = Top.file /\ order[p].index \in Nat BY <1>2, <1>4, <1>7, <2>1, <2>3
    <3>2. order[p] = At(Top.file, order[p].index)
      <4>1. order[p] \in Refs BY <2>1, LenProperties, ElementOfSeq DEF IInv, TypeOK
      <4> QED BY <3>1, <4>1 DEF Refs, At
    <3>3. order[p].index \in DOMAIN Text(files[Top.file].key) BY <2>1, <3>1 DEF OrderOK
    <3>4. Passed(Top.file, order[p].index) BY <1>2, <2>1, <3>2, <3>3 DEF OrderOK
    <3>5. order[p].index < Top.next BY <3>1, <3>4, PassedNow DEF IInv
    <3> QED BY <1>2, <2>1, <2>3, <3>5
  <2> QED BY <1>2, <2>2, <2>3
<1>8. \A f \in FileIds' : \A i \in DOMAIN Text(files'[f].key) :
          (Passed(f, i) <=> \E p \in DOMAIN order : order[p] = At(f, i))'
  BY <1>6 DEF At
<1> QED BY <1>5, <1>7, <1>8 DEF OrderOK, Text

-----------------------------------------------------------------------------
(* The tree and the stack.                                                 *)

\* What is known of the ids.
LEMMA Ids ==
    ASSUME IInv
    PROVE  /\ Len(files) \in Nat \ {0} /\ FileIds = 1 .. Len(files)
           /\ \A f \in FileIds : \A t : Link(f, t) => t \in FileIds /\ f < t
           /\ \A t \in FileIds : t \in Under(t) /\ Under(t) \subseteq FileIds
<1>1. Len(files) \in Nat \ {0} /\ FileIds = 1 .. Len(files)
  BY LenProperties, EmptySeq DEF IInv, TypeOK, FileIds
<1>2. \A f \in FileIds : \A t : Link(f, t) => t \in FileIds /\ f < t BY DEF IInv, OkTree, Link
<1>3. \A t \in FileIds : t + 1 .. t = {} /\ t <= t BY <1>1
<1> QED BY <1>1, <1>2, <1>3 DEF Under

\* A file is being expanded when the top one is it or below it.
LEMMA TopUnder ==
    ASSUME IInv, Chain, Visit, NEW t \in FileIds
    PROVE  /\ OnStack(t) <=> Top.file \in Under(t)
           /\ OnStack(t) => t <= Top.file
<1>1. /\ Len(stack) \in Nat \ {0} /\ DOMAIN stack = 1 .. Len(stack)
      /\ \A n \in DOMAIN stack : stack[n] \in Frame /\ stack[n].file \in FileIds
      /\ Top = stack[Len(stack)] /\ Top.file \in FileIds
  BY AdvancedFacts DEF IInv, Frame
<1>2. Len(stack) \in DOMAIN stack BY <1>1
<1>3. Top.file \in Under(t) => OnStack(t) BY <1>1, <1>2 DEF Chain
<1>4. ASSUME OnStack(t) PROVE Top.file \in Under(t) /\ t <= Top.file
  <2>1. PICK n \in DOMAIN stack : stack[n].file = t BY <1>4 DEF OnStack
  <2>2. CASE n = Len(stack) BY <1>1, <2>1, <2>2, Ids
  <2>3. CASE n # Len(stack)
    <3>1. n < Len(stack) BY <1>1, <2>1, <2>3
    <3>2. t < Top.file BY <1>1, <1>2, <2>1, <3>1 DEF Chain
    <3>3. Top.file \in Under(t) BY <1>1, <2>1, <3>2 DEF Chain
    <3>4. t <= Top.file BY <1>1, <3>2, Ids
    <3> QED BY <3>3, <3>4
  <2> QED BY <2>2, <2>3
<1> QED BY <1>3, <1>4

\* Without a new file the tree stays.
LEMMA UnderSame ==
    ASSUME IInv, SameFiles
    PROVE  /\ FileIds' = FileIds
           /\ \A f \in FileIds : \A t : Link(f, t)' <=> Link(f, t)
           /\ \A t : Under(t)' = Under(t)
<1>1. FileIds' = FileIds
  <2>1. FileIds = 1 .. Len(files) /\ FileIds' = 1 .. Len(files')
    BY LenProperties DEF IInv, TypeOK, SameFiles, FileIds
  <2> QED BY <2>1 DEF SameFiles
<1>2. \A f \in FileIds : \A t : Link(f, t)' <=> Link(f, t)
  <2> SUFFICES ASSUME NEW f \in FileIds, NEW t PROVE Link(f, t)' <=> Link(f, t) OBVIOUS
  <2>1. OkIncludes(f)' = OkIncludes(f) BY DEF SameFiles
  <2> QED BY <2>1 DEF Link
<1>3. \A t : Under(t)' = Under(t) BY <1>1, <1>2 DEF Under
<1> QED BY <1>1, <1>2, <1>3

\* A new file is below what is being expanded, and nothing is below it.
LEMMA UnderNow ==
    ASSUME IInv, Chain, Visit, NEW k, NEW n, Grown(k, n)
    PROVE  /\ \A f \in 1 .. n + 1 : \A t :
                 Link(f, t)' <=> (f \in 1 .. n /\ Link(f, t)) \/ (f = Top.file /\ t = n + 1)
           /\ \A t \in 1 .. n : Under(t)' = Under(t) \cup (IF OnStack(t) THEN {n + 1} ELSE {})
           /\ Under(n + 1)' = {n + 1}
<1>1. /\ n \in Nat \ {0} /\ FileIds = 1 .. n /\ FileIds' = 1 .. n + 1 /\ Top.file \in 1 .. n
      /\ \A f \in 1 .. n : files'[f].includes = files[f].includes \cup
               (IF f = Top.file THEN {[stmt |-> Top.next, status |-> "Ok", target |-> n + 1]} ELSE {})
      /\ files'[n + 1].includes = {}
      /\ \A f \in 1 .. n + 1 : f \in 1 .. n \/ f = n + 1
      /\ 1 .. n + 1 = (1 .. n) \cup {n + 1}
  BY DEF Grown
<1>2. ASSUME NEW f \in 1 .. n + 1, NEW t
      PROVE  Link(f, t)' <=> (f \in 1 .. n /\ Link(f, t)) \/ (f = Top.file /\ t = n + 1)
  <2>1. PICK rec : rec = [stmt |-> Top.next, status |-> "Ok", target |-> n + 1] OBVIOUS
  <2>2. rec.status = "Ok" /\ rec.target = n + 1 BY <2>1
  <2>3. OkIncludes(f)' = IF f = n + 1 THEN {}
                         ELSE OkIncludes(f) \cup (IF f = Top.file THEN {rec} ELSE {})
    <3>1. CASE f = n + 1 BY <1>1, <3>1 DEF OkIncludes
    <3>2. CASE f # n + 1
      <4>1. files'[f].includes = files[f].includes \cup (IF f = Top.file THEN {rec} ELSE {})
        BY <1>1, <2>1, <3>2
      <4> QED BY <2>2, <3>2, <4>1 DEF OkIncludes
    <3> QED BY <3>1, <3>2
  <2>4. f = n + 1 => f \notin 1 .. n /\ f # Top.file BY <1>1
  <2> QED BY <1>1, <2>2, <2>3, <2>4 DEF Link
<1>3. \A f \in 1 .. n : \A t : Link(f, t) => t \in 1 .. n /\ f < t BY <1>1, Ids
<1>4. ASSUME NEW t \in 1 .. n + 1, NEW g \in 1 .. n
      PROVE  g \in Under(t)' <=> t \in 1 .. n /\ g \in Under(t)
  <2>1. t <= g => t \in 1 .. n BY <1>1
  <2>2. ASSUME NEW h \in t + 1 .. g
        PROVE  (\A f \in 1 .. n + 1 : Link(f, h)' => t <= f) <=> (\A f \in 1 .. n : Link(f, h) => t <= f)
    <3>1. h # n + 1 BY <1>1
    <3>2. \A f \in 1 .. n + 1 : Link(f, h)' <=> f \in 1 .. n /\ Link(f, h) BY <1>2, <3>1
    <3> QED BY <1>1, <3>2
  <2>3. g \in Under(t)' <=> t <= g /\ \A h \in t + 1 .. g : \A f \in 1 .. n + 1 : Link(f, h)' => t <= f
    BY <1>1 DEF Under
  <2>4. g \in Under(t) <=> t <= g /\ \A h \in t + 1 .. g : \A f \in 1 .. n : Link(f, h) => t <= f
    BY <1>1 DEF Under
  <2> QED BY <2>1, <2>2, <2>3, <2>4
<1>5. ASSUME NEW t \in 1 .. n PROVE n + 1 \in Under(t)' <=> OnStack(t)
  <2>1. n + 1 \in Under(t)' <=>
            t <= n + 1 /\ \A h \in t + 1 .. n + 1 : \A f \in 1 .. n + 1 : Link(f, h)' => t <= f
    BY <1>1 DEF Under
  <2>2. t <= n + 1 /\ n + 1 \in t + 1 .. n + 1 BY <1>1
  <2>3. PICK top \in 1 .. n + 1 : top = Top.file BY <1>1
  <2>4. ASSUME n + 1 \in Under(t)' PROVE OnStack(t)
    <3>0. Link(top, n + 1)' BY <1>2, <2>3
    <3>1. t <= Top.file BY <2>1, <2>2, <2>3, <2>4, <3>0
    <3>2. \A h \in t + 1 .. Top.file : \A f \in 1 .. n : Link(f, h) => t <= f
      <4> SUFFICES ASSUME NEW h \in t + 1 .. Top.file, NEW f \in 1 .. n, Link(f, h) PROVE t <= f
        OBVIOUS
      <4>1. h \in t + 1 .. n + 1 /\ f \in 1 .. n + 1 BY <1>1
      <4>2. Link(f, h)' BY <1>2, <4>1
      <4> QED BY <2>1, <2>4, <4>1, <4>2
    <3>3. Top.file \in Under(t) BY <1>1, <3>1, <3>2 DEF Under
    <3> QED BY <1>1, <3>3, TopUnder
  <2>5. ASSUME OnStack(t) PROVE n + 1 \in Under(t)'
    <3>1. t <= Top.file BY <1>1, <2>5, TopUnder
    <3>2. t < n => n \in Under(t) BY <1>1, <2>5 DEF OnStack, Chain
    <3>3. \A h \in t + 1 .. n : \A f \in 1 .. n : Link(f, h) => t <= f
      <4>1. t = n => t + 1 .. n = {} BY <1>1
      <4>2. t < n \/ t = n BY <1>1
      <4> QED BY <1>1, <3>2, <4>1, <4>2 DEF Under
    <3>4. \A h \in t + 1 .. n + 1 : \A f \in 1 .. n + 1 : Link(f, h)' => t <= f
      <4> SUFFICES ASSUME NEW h \in t + 1 .. n + 1, NEW f \in 1 .. n + 1, Link(f, h)' PROVE t <= f
        OBVIOUS
      <4>1. CASE f \in 1 .. n /\ Link(f, h)
        <5>1. h \in t + 1 .. n BY <1>1, <1>3, <4>1
        <5> QED BY <3>3, <4>1, <5>1
      <4>2. CASE f = Top.file BY <3>1, <4>2
      <4> QED BY <1>2, <4>1, <4>2
    <3> QED BY <2>1, <2>2, <3>4
  <2> QED BY <2>4, <2>5
<1>6. \A t : Under(t)' \subseteq 1 .. n + 1 BY <1>1 DEF Under
<1>7. \A t : Under(t) \subseteq 1 .. n BY <1>1 DEF Under
<1>8. \A t \in 1 .. n : Under(t)' = Under(t) \cup (IF OnStack(t) THEN {n + 1} ELSE {})
  <2> TAKE t \in 1 .. n
  <2>1. t \in 1 .. n + 1 BY <1>1
  <2> QED BY <1>1, <1>4, <1>5, <1>6, <1>7, <2>1
<1>9. Under(n + 1)' = {n + 1}
  <2>1. n + 1 \in 1 .. n + 1 /\ n + 1 \notin 1 .. n BY <1>1
  <2>2. \A g \in 1 .. n : g \notin Under(n + 1)' BY <1>4, <2>1
  <2>3. n + 1 \in Under(n + 1)'
    <3>1. (n + 1) + 1 .. n + 1 = {} /\ n + 1 <= n + 1 BY <1>1
    <3> QED BY <1>1, <2>1, <3>1 DEF Under
  <2> QED BY <1>1, <1>6, <2>2, <2>3
<1> QED BY <1>2, <1>8, <1>9

-----------------------------------------------------------------------------
(* Visiting a statement.                                                   *)

\* What every visit has in common: at most one file joins, with no include
\* visited yet, and at most the top file's statement gets a record.
Moves(R) ==
    /\ Visit /\ source' = source /\ FileIds \subseteq FileIds'
    /\ \A f \in FileIds :
          /\ files'[f].key = files[f].key
          /\ files'[f].includes = files[f].includes \cup (IF f = Top.file THEN R ELSE {})
    /\ \A f \in FileIds' : f \notin FileIds => files'[f].includes = {}
    /\ \A t \in FileIds : /\ Under(t)' \cap FileIds = Under(t)
                          /\ ~OnStack(t) => Under(t)' = Under(t)
                          /\ OnStack(t)' <=> OnStack(t)
    /\ \A t \in FileIds' : t \notin FileIds => Under(t)' \cap FileIds = {}
    /\ \A f \in FileIds' : \A i \in DOMAIN Text(files'[f].key) :
           Passed(f, i)' <=> f \in FileIds /\ (Passed(f, i) \/ (f = Top.file /\ i = Top.next))
    /\ \A r \in R :
          /\ r.stmt = Top.next
          /\ r.status = "Ok" => r.target \in FileIds' /\ r.target \notin FileIds
          /\ r.status = "Cycle" => r.target \in FileIds /\ Top.file \in Under(r.target)
          /\ r.status = "AlreadyIncluded" => r.target \in FileIds /\ ~OnStack(r.target)

\* A statement with a record has been visited before, or just now.
LEMMA RecordPlaces ==
    ASSUME IInv, Chain, OrderOK, RecordsOK, NEW R, Moves(R)
    PROVE  /\ \A f \in FileIds : \A r \in files[f].includes : \A at \in DOMAIN order' :
                 order'[at] = At(f, r.stmt) => at \in DOMAIN order /\ order[at] = At(f, r.stmt)
           /\ \A at \in DOMAIN order' : order'[at] = At(Top.file, Top.next) => at = Len(order) + 1
<1>1. /\ Visit /\ DOMAIN order = 1 .. Len(order) /\ Len(order) \in Nat
      /\ \A p \in DOMAIN order : order'[p] = order[p]
      /\ order'[Len(order) + 1] = At(Top.file, Top.next)
      /\ \A p \in DOMAIN order' : p \in DOMAIN order \/ p = Len(order) + 1
      /\ Top.file \in FileIds /\ Top.next \in DOMAIN Text(files[Top.file].key)
  BY OrderNow DEF IInv, Moves
<1>2. ~Passed(Top.file, Top.next) BY <1>1, PassedNow DEF IInv
<1>3. \A p \in DOMAIN order : order[p] # At(Top.file, Top.next) BY <1>1, <1>2 DEF OrderOK
<1>4. ASSUME NEW f \in FileIds, NEW r \in files[f].includes, NEW at \in DOMAIN order',
             order'[at] = At(f, r.stmt)
      PROVE  at \in DOMAIN order /\ order[at] = At(f, r.stmt)
  <2>1. \E p \in DOMAIN order : order[p] = At(f, r.stmt) BY DEF RecordsOK
  <2>2. At(f, r.stmt) # At(Top.file, Top.next) BY <1>3, <2>1
  <2> QED BY <1>1, <1>4, <2>2
<1> QED BY <1>1, <1>3, <1>4

\* The records stay true.
LEMMA RecordsGrow ==
    ASSUME IInv, Chain, OrderOK, RecordsOK, NEW R, Moves(R)
    PROVE  RecordsOK'
<1>1. PICK n : n = Len(order) OBVIOUS
<1>2. /\ Visit /\ n \in Nat /\ DOMAIN order = 1 .. n /\ n + 1 \in DOMAIN order'
      /\ \A p \in DOMAIN order : p \in DOMAIN order' /\ order'[p] = order[p]
      /\ order'[n + 1] = At(Top.file, Top.next)
      /\ \A p \in DOMAIN order' : p \in DOMAIN order \/ p = n + 1
      /\ Top.file \in FileIds
  BY <1>1, OrderNow DEF IInv, Moves
<1>3. /\ \A f \in FileIds : \A r \in files[f].includes : \A at \in DOMAIN order' :
            order'[at] = At(f, r.stmt) => at \in DOMAIN order /\ order[at] = At(f, r.stmt)
      /\ \A at \in DOMAIN order' : order'[at] = At(Top.file, Top.next) => at = n + 1
  BY <1>1, RecordPlaces
<1> DEFINE Fine(f, r) ==
        /\ \E p \in DOMAIN order' : order'[p] = At(f, r.stmt)
        /\ r.status = "Cycle" => r.target \in FileIds' /\ f \in Under(r.target)'
        /\ r.status = "AlreadyIncluded" =>
              /\ r.target \in FileIds' /\ ~OnStack(r.target)'
              /\ \A g \in Under(r.target)' : \A i \in DOMAIN Text(files'[g].key) :
                    \A q \in DOMAIN order' : order'[q] = At(f, r.stmt) =>
                        \E p \in DOMAIN order' : p < q /\ order'[p] = At(g, i)
<1>5. \A t \in FileIds : Under(t) \subseteq FileIds /\ Under(t) \subseteq Under(t)'
  BY Ids DEF Moves
<1>6. ASSUME NEW f \in FileIds, NEW r \in files[f].includes PROVE Fine(f, r)
  <2>1. \E p \in DOMAIN order' : order'[p] = At(f, r.stmt) BY <1>2 DEF RecordsOK
  <2>2. r.status = "Cycle" => r.target \in FileIds' /\ f \in Under(r.target)'
    BY <1>5 DEF RecordsOK, Moves
  <2>3. ASSUME r.status = "AlreadyIncluded"
        PROVE  /\ r.target \in FileIds' /\ ~OnStack(r.target)'
               /\ \A g \in Under(r.target)' : \A i \in DOMAIN Text(files'[g].key) :
                    \A q \in DOMAIN order' : order'[q] = At(f, r.stmt) =>
                        \E p \in DOMAIN order' : p < q /\ order'[p] = At(g, i)
    <3>1. PICK t : t = r.target OBVIOUS
    <3>2. t \in FileIds /\ ~OnStack(t) BY <2>3, <3>1 DEF RecordsOK
    <3>3. t \in FileIds' /\ ~OnStack(t)' /\ Under(t)' = Under(t) BY <3>2 DEF Moves
    <3>4. ASSUME NEW g \in Under(t), NEW i \in DOMAIN Text(files'[g].key),
                 NEW q \in DOMAIN order', order'[q] = At(f, r.stmt)
          PROVE  \E p \in DOMAIN order' : p < q /\ order'[p] = At(g, i)
      <4>1. q \in DOMAIN order /\ order[q] = At(f, r.stmt) BY <1>3, <3>4
      <4>2. i \in DOMAIN Text(files[g].key) BY <1>5, <3>2, <3>4 DEF Moves
      <4>3. \E p \in DOMAIN order : p < q /\ order[p] = At(g, i)
        BY <2>3, <3>1, <3>4, <4>1, <4>2 DEF RecordsOK
      <4> QED BY <1>2, <4>3
    <3> QED BY <3>1, <3>3, <3>4
  <2> QED BY <2>1, <2>2, <2>3
<1>7. ASSUME NEW r \in R PROVE Fine(Top.file, r)
  <2>1. /\ r.stmt = Top.next
        /\ r.status = "Cycle" => r.target \in FileIds /\ Top.file \in Under(r.target)
        /\ r.status = "AlreadyIncluded" => r.target \in FileIds /\ ~OnStack(r.target)
    BY DEF Moves
  <2>2. \E p \in DOMAIN order' : order'[p] = At(Top.file, r.stmt) BY <1>2, <2>1
  <2>3. r.status = "Cycle" => r.target \in FileIds' /\ Top.file \in Under(r.target)'
    BY <1>5, <2>1 DEF Moves
  <2>4. ASSUME r.status = "AlreadyIncluded"
        PROVE  /\ r.target \in FileIds' /\ ~OnStack(r.target)'
               /\ \A g \in Under(r.target)' : \A i \in DOMAIN Text(files'[g].key) :
                    \A q \in DOMAIN order' : order'[q] = At(Top.file, r.stmt) =>
                        \E p \in DOMAIN order' : p < q /\ order'[p] = At(g, i)
    <3>1. PICK t : t = r.target OBVIOUS
    <3>2. t \in FileIds /\ ~OnStack(t) BY <2>1, <2>4, <3>1
    <3>3. t \in FileIds' /\ ~OnStack(t)' /\ Under(t)' = Under(t) BY <3>2 DEF Moves
    <3>4. ASSUME NEW g \in Under(t), NEW i \in DOMAIN Text(files'[g].key),
                 NEW q \in DOMAIN order', order'[q] = At(Top.file, r.stmt)
          PROVE  \E p \in DOMAIN order' : p < q /\ order'[p] = At(g, i)
      <4>1. q = n + 1 BY <1>3, <2>1, <3>4
      <4>2. g \in FileIds /\ i \in DOMAIN Text(files[g].key) BY <1>5, <3>2, <3>4 DEF Moves
      <4>3. ~OnStack(g) BY <3>2, <3>4, <4>2 DEF OnStack, Chain
      <4>4. Passed(g, i) BY <4>3 DEF OnStack, Passed
      <4>5. PICK p \in DOMAIN order : order[p] = At(g, i) BY <4>2, <4>4 DEF OrderOK
      <4> QED BY <1>2, <4>1, <4>5
    <3> QED BY <3>1, <3>3, <3>4
  <2> QED BY <2>2, <2>3, <2>4
<1>8. ASSUME NEW f \in FileIds', NEW r \in files'[f].includes PROVE Fine(f, r)
  <2>1. CASE f \notin FileIds BY <2>1 DEF Moves
  <2>2. CASE f \in FileIds
    <3>1. r \in files[f].includes \/ (f = Top.file /\ r \in R) BY <2>2 DEF Moves
    <3> HIDE DEF Fine
    <3> QED BY <1>6, <1>7, <2>2, <3>1
  <2> QED BY <2>1, <2>2
<1>9. source' = source BY DEF Moves
<1> QED BY <1>8, <1>9 DEF RecordsOK, Text, At

\* What is below an include stays together.
LEMMA BlocksGrow ==
    ASSUME IInv, Chain, OrderOK, RecordsOK, Blocks, NEW R, Moves(R)
    PROVE  Blocks'
<1>1. PICK n : n = Len(order) OBVIOUS
<1>2. /\ Visit /\ n \in Nat /\ DOMAIN order = 1 .. n /\ DOMAIN order' = 1 .. n + 1
      /\ \A p \in DOMAIN order : p \in DOMAIN order' /\ order'[p] = order[p]
      /\ order'[n + 1] = At(Top.file, Top.next) /\ order'[n + 1].file = Top.file
      /\ \A p \in DOMAIN order' : p \in DOMAIN order \/ p = n + 1
      /\ Top.file \in FileIds
  BY <1>1, OrderNow DEF IInv, Moves, At
<1>3. /\ \A f \in FileIds : \A r \in files[f].includes : \A at \in DOMAIN order' :
            order'[at] = At(f, r.stmt) => at \in DOMAIN order /\ order[at] = At(f, r.stmt)
      /\ \A at \in DOMAIN order' : order'[at] = At(Top.file, Top.next) => at = n + 1
  BY <1>1, RecordPlaces
<1>4. \A p \in DOMAIN order' : order'[p].file \in FileIds BY <1>2 DEF OrderOK
<1> DEFINE Fine(t, at) ==
        /\ \A p \in DOMAIN order' : order'[p].file \in Under(t)' =>
              at < p /\ \A q \in at + 1 .. p : order'[q].file \in Under(t)'
        /\ OnStack(t)' => \A p \in DOMAIN order' : at < p => order'[p].file \in Under(t)'
<1>5. ASSUME NEW f \in FileIds, NEW r \in OkIncludes(f), NEW at \in DOMAIN order',
             order'[at] = At(f, r.stmt)
      PROVE  Fine(r.target, at)
  <2>1. PICK t : t = r.target OBVIOUS
  <2>2. t \in FileIds BY <2>1 DEF IInv, OkTree
  <2>3. at \in DOMAIN order /\ order[at] = At(f, r.stmt) BY <1>3, <1>5 DEF OkIncludes
  <2>4. /\ \A p \in DOMAIN order : order[p].file \in Under(t) =>
              at < p /\ \A q \in at + 1 .. p : order[q].file \in Under(t)
        /\ OnStack(t) => \A p \in DOMAIN order : at < p => order[p].file \in Under(t)
    BY <2>1, <2>3 DEF Blocks
  <2>5. \A p \in DOMAIN order' : order'[p].file \in Under(t)' <=> order'[p].file \in Under(t)
    BY <1>4, <2>2 DEF Moves
  <2>6. Top.file \in Under(t) <=> OnStack(t) BY <1>2, <2>2, TopUnder
  <2>7. OnStack(t)' <=> OnStack(t) BY <2>2 DEF Moves
  <2>8. OnStack(t) => \A p \in DOMAIN order' : at < p => order'[p].file \in Under(t)
    BY <1>2, <2>4, <2>6
  <2>9. ASSUME NEW p \in DOMAIN order', order'[p].file \in Under(t)
        PROVE  at < p /\ \A q \in at + 1 .. p : order'[q].file \in Under(t)
    <3>1. CASE p \in DOMAIN order
      <4>1. at < p /\ \A q \in at + 1 .. p : order[q].file \in Under(t) BY <1>2, <2>4, <2>9, <3>1
      <4>2. \A q \in at + 1 .. p : q \in DOMAIN order BY <1>2, <2>3, <3>1
      <4> QED BY <1>2, <4>1, <4>2
    <3>2. CASE p = n + 1
      <4>1. OnStack(t) BY <1>2, <2>6, <2>9, <3>2
      <4>2. at < p /\ \A q \in at + 1 .. p : q \in DOMAIN order' /\ at < q BY <1>2, <2>3, <3>2
      <4> QED BY <2>8, <4>1, <4>2
    <3> QED BY <1>2, <3>1, <3>2
  <2>10. \A p \in DOMAIN order' : \A q \in at + 1 .. p : q \in DOMAIN order' BY <1>2, <2>3
  <2>11. Fine(t, at) BY <2>5, <2>7, <2>8, <2>9, <2>10
  <2> QED BY <2>1, <2>11
<1>6. ASSUME NEW r \in R, r.status = "Ok", NEW at \in DOMAIN order',
             order'[at] = At(Top.file, r.stmt)
      PROVE  Fine(r.target, at)
  <2>1. PICK t : t = r.target OBVIOUS
  <2>2. r.stmt = Top.next /\ t \in FileIds' /\ t \notin FileIds BY <1>6, <2>1 DEF Moves
  <2>3. at = n + 1 BY <1>3, <1>6, <2>2
  <2>4. \A p \in DOMAIN order' : order'[p].file \notin Under(t)' BY <1>4, <2>2 DEF Moves
  <2>5. \A p \in DOMAIN order' : ~(at < p) BY <1>2, <2>3
  <2>6. Fine(t, at) BY <2>4, <2>5
  <2> QED BY <2>1, <2>6
<1>7. ASSUME NEW f \in FileIds', NEW r \in files'[f].includes, r.status = "Ok",
             NEW at \in DOMAIN order', order'[at] = At(f, r.stmt)
      PROVE  Fine(r.target, at)
  <2>1. CASE f \notin FileIds BY <1>7, <2>1 DEF Moves
  <2>2. CASE f \in FileIds
    <3>1. r \in OkIncludes(f) \/ (f = Top.file /\ r \in R) BY <1>7, <2>2 DEF Moves, OkIncludes
    <3> HIDE DEF Fine
    <3> QED BY <1>5, <1>6, <1>7, <2>2, <3>1
  <2> QED BY <2>1, <2>2
<1> QED BY <1>7 DEF Blocks, OkIncludes, At

-----------------------------------------------------------------------------
(* Step by step.                                                           *)

\* What was apart stays apart when the files stay.
LEMMA NoCrossSame == ASSUME IInv, NoCross, SameFiles PROVE NoCross'
<1>1. FileIds' = FileIds /\ \A f \in FileIds : \A t : Link(f, t)' <=> Link(f, t) BY UnderSame
<1> QED BY <1>1 DEF NoCross

\* A statement that expands nothing.
LEMMA StepOverMoves ==
    ASSUME IInv, Chain, Visit, SameFiles, stack' = Advanced, source' = source, NEW R,
           \A f \in FileIds : files'[f].includes = files[f].includes \cup (IF f = Top.file THEN R ELSE {}),
           \A r \in R :
              /\ r.stmt = Top.next /\ r.status # "Ok"
              /\ r.status = "Cycle" => r.target \in FileIds /\ Top.file \in Under(r.target)
              /\ r.status = "AlreadyIncluded" => r.target \in FileIds /\ ~OnStack(r.target)
    PROVE  Moves(R) /\ Chain'
<1>1. FileIds' = FileIds /\ \A t : Under(t)' = Under(t) BY UnderSame
<1>2. \A f \in FileIds : files'[f].key = files[f].key BY DEF SameFiles
<1>3. /\ Len(stack) \in Nat \ {0} /\ DOMAIN stack = 1 .. Len(stack) /\ DOMAIN stack' = DOMAIN stack
      /\ \A m \in DOMAIN stack : stack'[m].file = stack[m].file
  BY AdvancedFacts DEF IInv
<1>4. \A t : OnStack(t)' <=> OnStack(t) BY <1>3 DEF OnStack
<1>5. \A f : \A i \in Nat : PassedBy(Advanced, f, i) <=>
                                Passed(f, i) \/ (f = Top.file /\ i = Top.next)
  BY PassedNow DEF IInv
<1>6. \A k : DOMAIN Text(k) \subseteq Nat BY TextType, LenProperties DEF IInv
<1>7. \A f : \A i \in Nat : Passed(f, i)' <=> Passed(f, i) \/ (f = Top.file /\ i = Top.next)
  BY <1>5 DEF Passed, PassedBy
<1>8. \A f \in FileIds' : \A i \in DOMAIN Text(files'[f].key) :
          Passed(f, i)' <=> f \in FileIds /\ (Passed(f, i) \/ (f = Top.file /\ i = Top.next))
  BY <1>1, <1>6, <1>7
<1>9. \A t \in FileIds : Under(t) \cap FileIds = Under(t) BY Ids
<1>10. Moves(R) BY <1>1, <1>2, <1>4, <1>8, <1>9 DEF Moves
<1>11. Chain'
  <2>1. \A m, j \in DOMAIN stack : m < j => stack'[m].file < stack'[j].file BY <1>3 DEF Chain
  <2>2. ASSUME NEW m \in DOMAIN stack, NEW f, f = stack[m].file
        PROVE  /\ f = stack'[m].file /\ \A t \in FileIds' : f < t => t \in Under(f)'
               /\ \A t \in FileIds' : f \in Under(t)' => OnStack(t)'
    BY <1>1, <1>3, <1>4, <2>2 DEF Chain
  <2> QED BY <1>3, <2>1, <2>2 DEF Chain, Under
<1> QED BY <1>10, <1>11

\* The statement that brings a file in.
LEMMA ExpandMoves ==
    ASSUME IInv, Chain, NoCross, IncludeExpanded
    PROVE  /\ \E R : Moves(R)
           /\ Chain' /\ NoCross'
<1>0. PICK k, n, top : k = Current.to /\ n = Len(files) /\ top = Top.file OBVIOUS
<1>1. Grown(k, n) BY <1>0, IncludeExpandedGrows
<1>2. Visit /\ source' = source BY DEF IncludeExpanded
<1> DEFINE R == {[stmt |-> Top.next, status |-> "Ok", target |-> n + 1]}
<1>3. /\ n \in Nat \ {0} /\ FileIds = 1 .. n /\ FileIds' = 1 .. n + 1 /\ top \in 1 .. n
      /\ \A f \in 1 .. n :
            /\ files'[f].key = files[f].key
            /\ files'[f].includes = files[f].includes \cup (IF f = Top.file THEN R ELSE {})
      /\ files'[n + 1].includes = {}
      /\ \A f \in 1 .. n + 1 : f \in 1 .. n \/ f = n + 1
      /\ n + 1 \notin 1 .. n
      /\ stack' = Append(Advanced, [file |-> n + 1, next |-> 1])
  BY <1>0, <1>1 DEF Grown
<1>4. /\ \A f \in 1 .. n + 1 : \A t :
            Link(f, t)' <=> (f \in 1 .. n /\ Link(f, t)) \/ (f = top /\ t = n + 1)
      /\ \A t \in 1 .. n : Under(t)' = Under(t) \cup (IF OnStack(t) THEN {n + 1} ELSE {})
      /\ Under(n + 1)' = {n + 1}
  BY <1>0, <1>1, <1>2, UnderNow
<1>5. /\ Len(stack) \in Nat \ {0} /\ DOMAIN stack = 1 .. Len(stack)
      /\ DOMAIN Advanced = DOMAIN stack /\ Len(Advanced) = Len(stack)
      /\ \A m \in DOMAIN stack : stack[m] \in Frame /\ stack[m].file \in 1 .. n
                                 /\ Advanced[m].file = stack[m].file
      /\ Advanced \in Seq(Frame)
  BY <1>2, <1>3, AdvancedFacts, VisitFacts DEF IInv, Frame
<1>6. /\ DOMAIN stack' = 1 .. Len(stack) + 1
      /\ \A m \in 1 .. Len(stack) : stack'[m] = Advanced[m]
      /\ stack'[Len(stack) + 1] = [file |-> n + 1, next |-> 1]
  <2>1. PICK S : S = Frame \cup {[file |-> n + 1, next |-> 1]} OBVIOUS
  <2>2. Advanced \in Seq(S) /\ [file |-> n + 1, next |-> 1] \in S
    BY <1>5, <2>1, SeqMonotonic
  <2>3. /\ Len(stack') = Len(stack) + 1 /\ stack' \in Seq(S)
        /\ \A m \in 1 .. Len(stack) : stack'[m] = Advanced[m]
        /\ stack'[Len(stack) + 1] = [file |-> n + 1, next |-> 1]
    BY <1>3, <1>5, <2>2, AppendProperties
  <2> QED BY <1>5, <2>3, LenProperties
<1>7. PICK l : l = Len(stack) OBVIOUS
<1>8. /\ l \in Nat \ {0} /\ DOMAIN stack = 1 .. l /\ DOMAIN stack' = 1 .. l + 1
      /\ \A m \in 1 .. l : stack'[m] = Advanced[m] /\ stack'[m].file = stack[m].file
      /\ stack'[l + 1].file = n + 1 /\ stack'[l + 1].next = 1
      /\ \A m \in 1 .. l + 1 : m \in 1 .. l \/ m = l + 1
      /\ l + 1 \in 1 .. l + 1
      /\ 1 .. l \subseteq 1 .. l + 1
  BY <1>5, <1>6, <1>7
<1>9. \A t \in 1 .. n : OnStack(t)' <=> OnStack(t)
  BY <1>3, <1>8 DEF OnStack
<1>10. OnStack(n + 1)' BY <1>8 DEF OnStack
<1>11. \A k2 : DOMAIN Text(k2) \subseteq Nat \ {0} BY TextType, LenProperties DEF IInv
<1>12. ASSUME NEW f \in 1 .. n + 1, NEW i \in DOMAIN Text(files'[f].key)
       PROVE  Passed(f, i)' <=> f \in 1 .. n /\ (Passed(f, i) \/ (f = Top.file /\ i = Top.next))
  <2>1. i \in Nat \ {0} BY <1>11
  <2>2. CASE f \in 1 .. n
    <3>1. PassedBy(stack', f, i) <=> PassedBy(Advanced, f, i)
      BY <1>3, <1>5, <1>8, <2>2 DEF PassedBy
    <3>2. PassedBy(Advanced, f, i) <=> Passed(f, i) \/ (f = Top.file /\ i = Top.next)
      BY <1>2, <2>1, PassedNow DEF IInv
    <3>3. Passed(f, i)' <=> PassedBy(stack', f, i) BY DEF Passed, PassedBy
    <3> QED BY <2>2, <3>1, <3>2, <3>3
  <2>3. CASE f = n + 1
    <3>1. ~(i < 1) BY <2>1
    <3>2. ~Passed(f, i)' BY <1>8, <2>3, <3>1 DEF Passed
    <3> QED BY <1>3, <2>3, <3>2
  <2> QED BY <1>3, <2>2, <2>3
<1>13. Moves(R)
  <2>1. \A t \in 1 .. n : Under(t) \subseteq 1 .. n BY <1>3, Ids
  <2>2. \A t \in 1 .. n : Under(t)' \cap (1 .. n) = Under(t) BY <1>3, <1>4, <2>1
  <2>3. \A t \in 1 .. n : ~OnStack(t) => Under(t)' = Under(t) BY <1>4
  <2>4. \A t \in 1 .. n + 1 : t \notin 1 .. n => Under(t)' \cap (1 .. n) = {} BY <1>3, <1>4
  <2>5. \A r \in R : r.stmt = Top.next /\ r.status = "Ok" /\ r.target = n + 1 OBVIOUS
  <2>6. 1 .. n \subseteq 1 .. n + 1 /\ n + 1 \in 1 .. n + 1 BY <1>3
  <2>7. \A f \in 1 .. n + 1 : f \notin 1 .. n => files'[f].includes = {} BY <1>3
  <2> HIDE DEF R
  <2>8. \A t \in FileIds : /\ Under(t)' \cap FileIds = Under(t)
                           /\ ~OnStack(t) => Under(t)' = Under(t)
                           /\ OnStack(t)' <=> OnStack(t)
    BY <1>3, <1>9, <2>2, <2>3
  <2>9. /\ \A t \in FileIds' : t \notin FileIds => Under(t)' \cap FileIds = {}
        /\ \A f \in FileIds' : f \notin FileIds => files'[f].includes = {}
    BY <1>3, <2>4, <2>7
  <2>10. \A f \in FileIds' : \A i \in DOMAIN Text(files'[f].key) :
             Passed(f, i)' <=> f \in FileIds /\ (Passed(f, i) \/ (f = Top.file /\ i = Top.next))
    BY <1>3, <1>12
  <2>11. \A r \in R : /\ r.stmt = Top.next
                      /\ r.status = "Ok" => r.target \in FileIds' /\ r.target \notin FileIds
                      /\ r.status \notin {"Cycle", "AlreadyIncluded"}
    BY <1>3, <2>5, <2>6
  <2> QED BY <1>2, <1>3, <2>6, <2>8, <2>9, <2>10, <2>11 DEF Moves
<1>14. Chain'
  <2>1. ASSUME NEW m \in 1 .. l + 1, NEW j \in 1 .. l + 1, m < j
        PROVE  stack'[m].file < stack'[j].file
    <3>1. m \in 1 .. l BY <1>8, <2>1
    <3>2. CASE j = l + 1
      <4>2. n \in Nat /\ stack[m].file \in 1 .. n BY <1>3, <1>5, <1>8, <3>1
      <4>1. stack[m].file < n + 1 BY <4>2
      <4> QED BY <1>8, <3>1, <3>2, <4>1
    <3>3. CASE j \in 1 .. l BY <1>8, <2>1, <3>1, <3>3 DEF Chain
    <3> QED BY <1>8, <3>2, <3>3
  <2>2. ASSUME NEW m \in 1 .. l + 1, NEW f, f = stack'[m].file
        PROVE  /\ \A t \in 1 .. n + 1 : f < t => t \in Under(f)'
               /\ \A t \in 1 .. n + 1 : f \in Under(t)' => OnStack(t)'
    <3>1. CASE m = l + 1
      <4>1. f = n + 1 BY <1>8, <2>2, <3>1
      <4>2. \A t \in 1 .. n + 1 : ~(f < t) BY <1>3, <4>1
      <4>3. \A t \in 1 .. n : Under(t) \subseteq 1 .. n BY <1>3, Ids
      <4>4. \A t \in 1 .. n : f \in Under(t)' => OnStack(t) BY <1>3, <1>4, <4>1, <4>3
      <4> QED BY <1>3, <1>9, <1>10, <4>2, <4>4
    <3>2. CASE m \in 1 .. l
      <4>1. f = stack[m].file /\ f \in 1 .. n /\ OnStack(f) BY <1>5, <1>8, <2>2, <3>2 DEF OnStack
      <4>2. Under(f)' = Under(f) \cup {n + 1} BY <1>4, <4>1
      <4>3. \A t \in 1 .. n : f < t => t \in Under(f) BY <1>3, <1>8, <3>2, <4>1 DEF Chain
      <4>4. \A t \in 1 .. n : f \in Under(t)' => OnStack(t)
        <5> TAKE t \in 1 .. n
        <5> HAVE f \in Under(t)'
        <5>1. f \in Under(t) BY <1>3, <1>4, <4>1
        <5> QED BY <1>3, <1>8, <3>2, <4>1, <5>1 DEF Chain
      <4> QED BY <1>3, <1>9, <1>10, <4>2, <4>3, <4>4
    <3> QED BY <1>8, <3>1, <3>2
  <2>3. \A m, j \in DOMAIN stack' : m < j => stack'[m].file < stack'[j].file BY <1>8, <2>1
  <2>4. ASSUME NEW m \in DOMAIN stack', NEW f, f = stack'[m].file
        PROVE  /\ \A t \in FileIds' : f < t => t \in Under(f)'
               /\ \A t \in FileIds' : f \in Under(t)' => OnStack(t)'
    BY <1>3, <1>8, <2>2, <2>4
  <2> QED BY <2>3, <2>4 DEF Chain, Under
<1>15. NoCross'
  <2> SUFFICES ASSUME NEW f \in 1 .. n + 1, NEW g \in 1 .. n + 1, NEW c \in 1 .. n + 1,
                      NEW h \in 1 .. n + 1, Link(f, c)', Link(g, h)', c < h
               PROVE  c <= g \/ g <= f
    BY <1>3 DEF NoCross
  <2>1. c \in 1 .. n BY <1>3
  <2>2. f \in 1 .. n /\ Link(f, c) BY <1>3, <1>4, <2>1
  <2>3. CASE h \in 1 .. n
    <3>1. g \in 1 .. n /\ Link(g, h) BY <1>3, <1>4, <2>3
    <3> QED BY <1>3, <2>1, <2>2, <2>3, <3>1 DEF NoCross
  <2>4. CASE h = n + 1
    <3>1. \A x \in FileIds : \A t : Link(x, t) => t \in FileIds BY Ids
    <3>2. g = top BY <1>3, <1>4, <2>4, <3>1
    <3>3. ASSUME top < c PROVE top <= f
      <4>1. top = stack[l].file /\ l \in DOMAIN stack BY <1>0, <1>7, <1>8 DEF Top
      <4>2. c \in Under(top) BY <1>3, <2>1, <3>3, <4>1 DEF Chain
      <4>3. c \in top + 1 .. c BY <1>3, <2>1, <3>3
      <4> QED BY <1>3, <2>2, <4>2, <4>3 DEF Under
    <3>4. top < c \/ c <= top BY <1>3, <2>1
    <3> QED BY <3>2, <3>3, <3>4
  <2> QED BY <1>3, <2>3, <2>4
<1> QED BY <1>13, <1>14, <1>15

\* A visit keeps what it moves.
LEMMA MovesKeep == ASSUME IInv, WInv, NEW R, Moves(R) PROVE OrderOK' /\ RecordsOK' /\ Blocks'
<1>1. OrderOK' BY OrderGrows DEF WInv, Moves
<1> QED BY <1>1, RecordsGrow, BlocksGrow DEF WInv

\* A step that takes no statement.
LEMMA QuietKeeps ==
    ASSUME IInv, WInv, SameFiles, SameIncludes, UNCHANGED <<source, order>>, Chain',
           \A t : OnStack(t)' => OnStack(t),
           \A f \in FileIds : \A i \in DOMAIN Text(files[f].key) : Passed(f, i)' <=> Passed(f, i)
    PROVE  WInv'
<1>1. /\ FileIds' = FileIds /\ \A f \in FileIds : \A t : Link(f, t)' <=> Link(f, t)
      /\ \A t : Under(t)' = Under(t)
  BY UnderSame
<1>2. /\ source' = source /\ order' = order
      /\ \A f \in FileIds : /\ files'[f].key = files[f].key /\ files'[f].includes = files[f].includes
                            /\ OkIncludes(f)' = OkIncludes(f)
                            /\ Text(files[f].key)' = Text(files[f].key)
  BY DEF SameFiles, SameIncludes, Text
<1>3. OrderOK'
  <2>1. \A p \in DOMAIN order : /\ order[p].file \in FileIds
                                /\ order[p].index \in DOMAIN Text(files'[order[p].file].key)
    BY <1>2 DEF WInv, OrderOK
  <2>2. \A f \in FileIds : \A i \in DOMAIN Text(files'[f].key) :
            Passed(f, i)' <=> \E p \in DOMAIN order : order[p] = At(f, i)
    BY <1>2 DEF WInv, OrderOK
  <2>3. \A p, q \in DOMAIN order :
            p < q /\ order[p].file = order[q].file => order[p].index < order[q].index
    BY DEF WInv, OrderOK
  <2> QED BY <1>1, <1>2, <2>1, <2>2, <2>3 DEF OrderOK, Text, At
<1>4. RecordsOK'
  <2>1. ASSUME NEW f \in FileIds, NEW r \in files[f].includes, NEW t, t = r.target
        PROVE  /\ \E p \in DOMAIN order : order[p] = At(f, r.stmt)
               /\ r.status = "Cycle" => t \in FileIds /\ f \in Under(t)'
               /\ r.status = "AlreadyIncluded" =>
                     /\ t \in FileIds /\ ~OnStack(t)'
                     /\ \A g \in Under(t)' : \A i \in DOMAIN Text(files'[g].key) :
                           \A q \in DOMAIN order : order[q] = At(f, r.stmt) =>
                               \E p \in DOMAIN order : p < q /\ order[p] = At(g, i)
    <3>1. t \in FileIds => Under(t) \subseteq FileIds BY Ids
    <3> QED BY <1>1, <1>2, <2>1, <3>1 DEF WInv, RecordsOK
  <2> QED BY <1>1, <1>2, <2>1 DEF RecordsOK, Text, At
<1>5. Blocks'
  <2>1. ASSUME NEW f \in FileIds, NEW r \in OkIncludes(f), NEW at \in DOMAIN order,
               order[at] = At(f, r.stmt), NEW t, t = r.target
        PROVE  /\ \A p \in DOMAIN order : order[p].file \in Under(t)' =>
                     at < p /\ \A q \in at + 1 .. p : order[q].file \in Under(t)'
               /\ OnStack(t)' => \A p \in DOMAIN order : at < p => order[p].file \in Under(t)'
    BY <1>1, <2>1 DEF WInv, Blocks
  <2> QED BY <1>1, <1>2, <2>1 DEF Blocks, At
<1>6. NoCross' BY NoCrossSame DEF WInv
<1> QED BY <1>3, <1>4, <1>5, <1>6 DEF WInv

\* A file that is done leaves the stack: nothing that follows is below it.
LEMMA LeaveFileOrder == ASSUME IInv, WInv, LeaveFile PROVE WInv'
<1>1. SameFiles /\ SameIncludes /\ UNCHANGED <<source, order>>
  BY UnchangedSame DEF IInv, LeaveFile
<1>2. PICK l : l = Len(stack) OBVIOUS
<1>3. /\ l \in Nat \ {0} /\ DOMAIN stack = 1 .. l /\ l \in 1 .. l
      /\ DOMAIN stack' = 1 .. l - 1 /\ \A n \in 1 .. l - 1 : n \in 1 .. l /\ stack'[n] = stack[n]
      /\ \A n \in 1 .. l : stack[n].file \in FileIds
  <2>1. stack \in Seq(Frame) /\ stack # <<>> BY DEF IInv, TypeOK, LeaveFile, Frame
  <2>2. l \in Nat \ {0} /\ DOMAIN stack = 1 .. l BY <1>2, <2>1, EmptySeq, LenProperties
  <2>3. DOMAIN stack' = 1 .. l - 1 /\ \A n \in 1 .. l - 1 : stack'[n] = stack[n]
    BY <1>2, <2>1, <2>2 DEF LeaveFile
  <2>4. \A n \in 1 .. l : stack[n] \in Frame BY <1>2, <2>1, ElementOfSeq
  <2>5. \A n \in 1 .. l : stack[n].file \in FileIds BY <2>4 DEF Frame
  <2> QED BY <2>2, <2>3, <2>5
<1>4. \A t : OnStack(t)' => OnStack(t) BY <1>3 DEF OnStack
<1>5. \A f \in FileIds : \A i \in DOMAIN Text(files[f].key) : Passed(f, i)' <=> Passed(f, i)
  <2>1. \A f, i : Passed(f, i) => Passed(f, i)' BY <1>3 DEF Passed
  <2> QED BY <2>1, LeavePassed DEF IInv
<1>6. FileIds' = FileIds /\ \A t : Under(t)' = Under(t) BY <1>1, UnderSame
<1>7. Chain'
  <2>1. \A m, j \in DOMAIN stack' : m < j => stack'[m].file < stack'[j].file
    BY <1>3 DEF WInv, Chain
  <2>2. ASSUME NEW m \in DOMAIN stack', NEW f, f = stack'[m].file
        PROVE  /\ \A t \in FileIds' : f < t => t \in Under(f)'
               /\ \A t \in FileIds' : f \in Under(t)' => OnStack(t)'
    <3>1. m \in 1 .. l /\ m < l /\ f = stack[m].file /\ f \in FileIds /\ f \in Nat
      <4>1. m \in 1 .. l - 1 BY <1>3
      <4>2. FileIds \subseteq Nat BY Ids
      <4> QED BY <1>3, <2>2, <4>1, <4>2
    <3>2. \A t \in FileIds : f < t => t \in Under(f) BY <1>3, <3>1 DEF WInv, Chain
    <3>3. ASSUME NEW t \in FileIds, f \in Under(t) PROVE OnStack(t)'
      <4>1. PICK j \in 1 .. l : stack[j].file = t BY <1>3, <3>1, <3>3 DEF WInv, Chain, OnStack
      <4>2. t <= f BY <3>3 DEF Under
      <4>3. f < stack[l].file BY <1>3, <3>1 DEF WInv, Chain
      <4>4. j # l
        <5>1. t \in Nat /\ f \in Nat BY <3>1, Ids
        <5> QED BY <4>1, <4>2, <4>3, <5>1
      <4>5. j \in 1 .. l - 1 BY <1>3, <4>4
      <4> QED BY <1>3, <4>1, <4>5 DEF OnStack
    <3> QED BY <1>6, <3>2, <3>3
  <2> QED BY <2>1, <2>2 DEF Chain, Under
<1> QED BY <1>1, <1>4, <1>5, <1>7, QuietKeeps

\* A statement that adds no file.
LEMMA StepOverOrder ==
    ASSUME IInv, WInv, Visit, SameFiles, stack' = Advanced, source' = source, NEW R,
           \A f \in FileIds : files'[f].includes = files[f].includes \cup (IF f = Top.file THEN R ELSE {}),
           \A r \in R :
              /\ r.stmt = Top.next /\ r.status # "Ok"
              /\ r.status = "Cycle" => r.target \in FileIds /\ Top.file \in Under(r.target)
              /\ r.status = "AlreadyIncluded" => r.target \in FileIds /\ ~OnStack(r.target)
    PROVE  WInv'
<1>1. Moves(R) /\ Chain' BY StepOverMoves DEF WInv
<1>2. NoCross' BY NoCrossSame DEF WInv
<1> QED BY <1>1, <1>2, MovesKeep DEF WInv

\* The empty order of a unit that is only its root.
LEMMA InitWInv == Init => WInv
<1> SUFFICES ASSUME Init PROVE WInv OBVIOUS
<1>1. IInv BY InitIInv
<1>2. /\ Len(files) = 1 /\ FileIds = {1} /\ files[1].includes = {} /\ order = <<>>
      /\ stack = <<[file |-> 1, next |-> 1]>>
  BY DEF Init, FileIds, NewFile
<1>3. DOMAIN order = {} /\ DOMAIN stack = {1} /\ stack[1].file = 1 /\ stack[1].next = 1 BY <1>2
<1>4. OkIncludes(1) = {} /\ \A t : ~Link(1, t) BY <1>2 DEF OkIncludes, Link
<1>5. Chain /\ NoCross /\ RecordsOK /\ Blocks
  BY <1>2, <1>3, <1>4 DEF Chain, NoCross, RecordsOK, Blocks, OnStack
<1>6. \A i \in DOMAIN Text(files[1].key) : ~Passed(1, i)
  <2>1. \A i \in DOMAIN Text(files[1].key) : i \in Nat \ {0} BY <1>1, TextType, LenProperties DEF IInv
  <2> QED BY <1>3, <2>1 DEF Passed
<1>7. OrderOK BY <1>2, <1>3, <1>6 DEF OrderOK
<1> QED BY <1>5, <1>7 DEF WInv

\* Every step keeps the walk a preorder.
LEMMA NextWInv == ASSUME IInv, WInv, [Next]_vars PROVE WInv'
<1>1. ASSUME Visit, SameFiles, SameIncludes, stack' = Advanced, source' = source PROVE WInv'
  <2>1. PICK R : R = {} OBVIOUS
  <2>2. \A f \in FileIds : files'[f].includes = files[f].includes \cup (IF f = Top.file THEN R ELSE {})
    BY <1>1, <2>1 DEF SameIncludes
  <2>3. \A q \in R :
            /\ q.stmt = Top.next /\ q.status # "Ok"
            /\ q.status = "Cycle" => q.target \in FileIds /\ Top.file \in Under(q.target)
            /\ q.status = "AlreadyIncluded" => q.target \in FileIds /\ ~OnStack(q.target)
    BY <2>1
  <2> QED BY <1>1, <2>2, <2>3, StepOverOrder
<1>2. ASSUME Visit, stack' = Advanced, source' = source, SameFiles, NEW s \in Status \ {"Ok"},
             NEW t \in Nat, NEW d \in SUBSET Diagnostic, files' = Recorded(s, t, d),
             s = "Cycle" => t \in FileIds /\ Top.file \in Under(t),
             s = "AlreadyIncluded" => t \in FileIds /\ ~OnStack(t)
      PROVE  WInv'
  <2>1. Top \in Frame /\ s \in Status BY <1>2, VisitFacts DEF IInv
  <2>2. PICK r : r = [stmt |-> Top.next, status |-> s, target |-> t] OBVIOUS
  <2>3. PICK R : R = {r} OBVIOUS
  <2>4. r.stmt = Top.next /\ r.status = s /\ r.target = t /\ s # "Ok" BY <2>2
  <2>5. \A f \in FileIds : files'[f].includes = files[f].includes \cup (IF f = Top.file THEN R ELSE {})
    BY <1>2, <2>1, <2>2, <2>3, RecordedFacts DEF IInv
  <2>6. \A q \in R :
            /\ q.stmt = Top.next /\ q.status # "Ok"
            /\ q.status = "Cycle" => q.target \in FileIds /\ Top.file \in Under(q.target)
            /\ q.status = "AlreadyIncluded" => q.target \in FileIds /\ ~OnStack(q.target)
    BY <1>2, <2>3, <2>4
  <2> QED BY <1>2, <2>5, <2>6, StepOverOrder
<1>3. CASE OtherStatement BY <1>1, <1>3, OtherStatementSame DEF OtherStatement
<1>4. CASE IncludeUnresolved
  <2>1. Top \in Frame BY <1>4, VisitFacts DEF IInv, IncludeUnresolved
  <2>2. {Diag("Error", Top.next, "include")} \in SUBSET Diagnostic
    BY <2>1, DiagType DEF Frame, Severity
  <2>3. "Unresolved" \in Status \ {"Ok"} /\ 0 \in Nat BY DEF Status
  <2> QED BY <1>2, <1>4, <2>2, <2>3, IncludeUnresolvedSame DEF IncludeUnresolved
<1>5. CASE IncludeRefused
  <2>1. Top \in Frame BY <1>5, VisitFacts DEF IInv, IncludeRefused
  <2>2. {Diag("Error", Top.next, "include")} \in SUBSET Diagnostic
    BY <2>1, DiagType DEF Frame, Severity
  <2>3. "NotFound" \in Status \ {"Ok"} /\ 0 \in Nat BY DEF Status
  <2> QED BY <1>2, <1>5, <2>2, <2>3, IncludeRefusedSame DEF IncludeRefused
<1>6. CASE IncludeSeen
  <2>1. PICK t : t = seen[Current.to] OBVIOUS
  <2>2. t \in FileIds /\ t \in Nat BY <1>6, <2>1, Ids DEF IInv, TypeOK, IncludeSeen
  <2>3. Visit /\ Top \in Frame BY <1>6, VisitFacts DEF IInv, IncludeSeen
  <2>4. {Diag("Hint", Top.next, "include")} \in SUBSET Diagnostic
    BY <2>3, DiagType DEF Frame, Severity
  <2>5. RepeatStatus(t) \in Status \ {"Ok"} BY DEF RepeatStatus, Status
  <2>6. /\ RepeatStatus(t) = "Cycle" => Top.file \in Under(t)
        /\ RepeatStatus(t) = "AlreadyIncluded" => ~OnStack(t)
    BY <2>2, <2>3, TopUnder DEF RepeatStatus, WInv
  <2>7. /\ files' = Recorded(RepeatStatus(t), t, {Diag("Hint", Top.next, "include")})
        /\ stack' = Advanced /\ source' = source
    BY <1>6, <2>1 DEF IncludeSeen
  <2> QED BY <1>2, <1>6, <2>2, <2>3, <2>4, <2>5, <2>6, <2>7, IncludeSeenSame
<1>7. CASE IncludeExpanded
  <2>1. (\E R : Moves(R)) /\ Chain' /\ NoCross' BY <1>7, ExpandMoves DEF WInv
  <2> QED BY <2>1, MovesKeep DEF WInv
<1>8. CASE EmbFile BY <1>1, <1>8, EmbFileSame DEF EmbFile
<1>9. CASE LeaveFile BY <1>9, LeaveFileOrder
<1>10. ASSUME SameFiles, SameIncludes, UNCHANGED <<source, order, stack>> PROVE WInv'
  <2>1. /\ \A t : OnStack(t)' <=> OnStack(t)
        /\ \A f, i : Passed(f, i)' <=> Passed(f, i)
        /\ FileIds' = FileIds /\ \A t : Under(t)' = Under(t) /\ stack' = stack
    BY <1>10, UnderSame DEF OnStack, Passed
  <2>2. ASSUME NEW m \in DOMAIN stack', NEW f, f = stack'[m].file
        PROVE  /\ \A t \in FileIds' : f < t => t \in Under(f)'
               /\ \A t \in FileIds' : f \in Under(t)' => OnStack(t)'
    BY <2>1, <2>2 DEF WInv, Chain
  <2>3. \A m, j \in DOMAIN stack' : m < j => stack'[m].file < stack'[j].file
    BY <2>1 DEF WInv, Chain
  <2>4. Chain' BY <2>2, <2>3 DEF Chain, Under
  <2>5. UNCHANGED <<source, order>> BY <1>10
  <2> QED BY <1>10, <2>1, <2>4, <2>5, QuietKeeps
<1>11. CASE Analyse BY <1>10, <1>11, AnalyseSame DEF Analyse
<1>12. CASE AddSummaries BY <1>10, <1>12, AddSummariesSame DEF AddSummaries
<1>13. CASE Returned \/ UNCHANGED vars BY <1>10, <1>13, UnchangedSame DEF Returned, vars, IInv
<1> QED BY <1>3, <1>4, <1>5, <1>6, <1>7, <1>8, <1>9, <1>11, <1>12, <1>13 DEF Next

-----------------------------------------------------------------------------
(* Below a file is what its Ok includes bring in, and what these do.       *)

\* One level of it.
LEMMA UnderStep ==
    ASSUME IInv, NoCross, NEW t \in FileIds
    PROVE  Under(t) = {t} \cup UNION {Under(r.target) : r \in OkIncludes(t)}
<1>1. PICK n : n = Len(files) OBVIOUS
<1>2. /\ n \in Nat \ {0} /\ FileIds = 1 .. n
      /\ \A f \in FileIds : \A c : Link(f, c) => c \in FileIds /\ f < c
      /\ t \in Under(t) /\ Under(t) \subseteq FileIds
  BY <1>1, Ids
<1>3. \A r \in OkIncludes(t) : Link(t, r.target) BY DEF Link
<1>4. ASSUME NEW c, Link(t, c), NEW g \in Under(c) PROVE g \in Under(t)
  <2>1. c \in FileIds /\ t < c /\ g \in FileIds /\ c <= g BY <1>2, <1>4 DEF Under
  <2>2. ASSUME NEW h \in t + 1 .. g, NEW f \in FileIds, Link(f, h) PROVE t <= f
    <3>1. h \in FileIds BY <1>2, <2>2
    <3>2. CASE h > c
      <4>1. c <= f
        <5>1. h \in c + 1 .. g BY <1>2, <2>1, <3>1, <3>2
        <5> QED BY <1>4, <2>2, <5>1 DEF Under
      <4> QED BY <1>2, <2>1, <4>1
    <3>3. CASE h = c
      <4>1. f = t BY <1>4, <2>2, <3>3 DEF Link, IInv, OkTree
      <4> QED BY <1>2, <4>1
    <3>4. CASE h < c
      <4>1. h <= t \/ t <= f BY <1>4, <2>1, <2>2, <3>1, <3>4 DEF NoCross
      <4> QED BY <1>2, <2>2, <4>1
    <3> QED BY <1>2, <2>1, <3>1, <3>2, <3>3, <3>4
  <2> QED BY <1>2, <2>1, <2>2 DEF Under
<1>5. ASSUME NEW g \in Under(t), g # t PROVE \E r \in OkIncludes(t) : g \in Under(r.target)
  <2>1. g \in FileIds /\ t < g /\ \A h \in t + 1 .. g : \A f \in FileIds : Link(f, h) => t <= f
    BY <1>2, <1>5 DEF Under
  <2>2. PICK C : C = {c \in t + 1 .. g : Link(t, c)} OBVIOUS
  <2>3. t + 1 \in C
    <3>1. t + 1 \in FileIds \ {1} /\ t + 1 \in t + 1 .. g BY <1>2, <2>1
    <3>2. PICK f \in FileIds : Link(f, t + 1) BY <3>1 DEF Link, IInv, OkTree
    <3>3. f < t + 1 /\ t <= f BY <1>2, <2>1, <3>1, <3>2
    <3>4. f = t BY <1>2, <3>3
    <3> QED BY <2>2, <3>1, <3>2, <3>4
  <2>4. C \in SUBSET Nat /\ \A c \in C : c <= g BY <1>2, <2>1, <2>2
  <2>5. PICK c \in C : \A m \in C : m <= c
    <3>1. g \in Nat /\ C # {} BY <1>2, <2>1, <2>3
    <3> QED BY <2>4, <3>1, LargestOf
  <2>6. c \in t + 1 .. g /\ Link(t, c) /\ c \in FileIds BY <1>2, <2>2, <2>5
  <2>7. ASSUME NEW h \in c + 1 .. g, NEW f \in FileIds, Link(f, h) PROVE c <= f
    <3>1. h \in t + 1 .. g /\ h \in FileIds /\ c < h BY <1>2, <2>1, <2>6, <2>7
    <3>2. t <= f BY <2>1, <2>7, <3>1
    <3>3. f # t
      <4> SUFFICES ASSUME f = t PROVE FALSE OBVIOUS
      <4>1. h \in C BY <2>2, <2>7, <3>1
      <4>2. h <= c BY <2>5, <4>1
      <4> QED BY <1>2, <2>6, <3>1, <4>2
    <3>4. c <= f \/ f <= t BY <2>6, <2>7, <3>1 DEF NoCross
    <3> QED BY <1>2, <3>2, <3>3, <3>4
  <2>8. g \in Under(c) BY <1>2, <2>1, <2>6, <2>7 DEF Under
  <2> QED BY <2>6, <2>8 DEF Link
<1> QED BY <1>2, <1>3, <1>4, <1>5

\* What Subtree says of a file.
Gathers(g, f) == {f} \cup UNION {g[r.target] : r \in OkIncludes(f)}

\* Under is a solution of the recursion.
LEMMA SubtreeExists ==
    ASSUME IInv, NoCross PROVE \E g : g = [f \in 1 .. Len(files) |-> Gathers(g, f)]
<1>1. PICK n : n = Len(files) OBVIOUS
<1>2. /\ n \in Nat \ {0} /\ FileIds = 1 .. n
      /\ \A f \in FileIds : \A r \in OkIncludes(f) : r.target \in FileIds /\ r.target > f
  BY <1>1, Ids DEF IInv, OkTree
<1>3. PICK g : g = [f \in 1 .. n |-> Under(f)] OBVIOUS
<1>4. ASSUME NEW f \in 1 .. n PROVE Under(f) = Gathers(g, f)
  <2>1. \A r \in OkIncludes(f) : g[r.target] = Under(r.target) BY <1>2, <1>3
  <2>2. Under(f) = {f} \cup UNION {Under(r.target) : r \in OkIncludes(f)} BY <1>2, UnderStep
  <2> QED BY <2>1, <2>2 DEF Gathers
<1>5. g = [f \in 1 .. n |-> Gathers(g, f)] BY <1>3, <1>4
<1> QED BY <1>1, <1>5

\* So Subtree, the solution chosen, obeys it.
LEMMA SubtreeSays ==
    ASSUME IInv, NoCross
    PROVE  \A f \in FileIds : Subtree[f] = {f} \cup UNION {Subtree[r.target] : r \in OkIncludes(f)}
<1>1. PICK a : a = Subtree OBVIOUS
<1>2. Subtree = CHOOSE g : g = [f \in 1 .. Len(files) |-> Gathers(g, f)] BY DEF Subtree, Gathers
<1>3. a = [f \in 1 .. Len(files) |-> Gathers(a, f)] BY <1>1, <1>2, SubtreeExists
<1>4. ASSUME NEW f \in FileIds PROVE a[f] = Gathers(a, f) BY <1>3, <1>4, Ids
<1> QED BY <1>1, <1>4 DEF Gathers

\* And there is no other one: a file it differs from Under at, the last such,
\* would have one below it.
LEMMA SubtreeIsUnder == ASSUME IInv, NoCross PROVE \A f \in FileIds : Subtree[f] = Under(f)
<1>1. PICK n : n = Len(files) OBVIOUS
<1>2. /\ n \in Nat \ {0} /\ FileIds = 1 .. n
      /\ \A f \in FileIds : \A r \in OkIncludes(f) : r.target \in FileIds /\ r.target > f
  BY <1>1, Ids DEF IInv, OkTree
<1>3. PICK bad : bad = {f \in 1 .. n : Subtree[f] # Under(f)} OBVIOUS
<1>4. SUFFICES ASSUME bad # {} PROVE FALSE BY <1>2, <1>3
<1>5. bad \in SUBSET Nat /\ \A f \in bad : f <= n BY <1>2, <1>3
<1>6. PICK f \in bad : \A m \in bad : m <= f BY <1>2, <1>4, <1>5, LargestOf
<1>7. f \in FileIds /\ Subtree[f] # Under(f) BY <1>2, <1>3
<1>8. ASSUME NEW r \in OkIncludes(f) PROVE Subtree[r.target] = Under(r.target)
  <2>1. r.target \in 1 .. n /\ r.target > f BY <1>2, <1>7
  <2>2. ~(r.target <= f) BY <1>2, <1>7, <2>1
  <2>3. r.target \notin bad BY <1>6, <2>2
  <2> QED BY <1>3, <2>1, <2>3
<1>9. Subtree[f] = {f} \cup UNION {Subtree[r.target] : r \in OkIncludes(f)} BY <1>7, SubtreeSays
<1>10. Under(f) = {f} \cup UNION {Under(r.target) : r \in OkIncludes(f)} BY <1>7, UnderStep
<1> QED BY <1>7, <1>8, <1>9, <1>10

-----------------------------------------------------------------------------
(* The finished order.                                                     *)

\* What a returned unit's order is: every statement is in it, at one place.
LEMMA FinishedOrder ==
    ASSUME IInv, RInv, WInv, phase = "done"
    PROVE  /\ stack = <<>> /\ Len(order) \in Nat /\ DOMAIN order = 1 .. Len(order)
           /\ \A p \in DOMAIN order : order[p] = At(order[p].file, order[p].index)
           /\ IsInjective(order)
           /\ \A f \in FileIds : \A i \in DOMAIN Text(files[f].key) :
                 Pos(f, i) \in DOMAIN order /\ order[Pos(f, i)] = At(f, i)
<1>1. stack = <<>> BY DEF RInv
<1>2. order \in Seq(Refs) /\ Len(order) \in Nat /\ DOMAIN order = 1 .. Len(order)
  BY LenProperties DEF IInv, TypeOK
<1>3. \A p \in DOMAIN order : order[p] = At(order[p].file, order[p].index) /\ order[p].index \in Nat
  <2>1. \A p \in DOMAIN order : order[p] \in Refs BY <1>2, ElementOfSeq
  <2> QED BY <2>1 DEF Refs, At
<1>4. ASSUME NEW p \in DOMAIN order, NEW q \in DOMAIN order, order[p] = order[q] PROVE p = q
  <2>1. ~(p < q) /\ ~(q < p) BY <1>3, <1>4 DEF WInv, OrderOK
  <2> QED BY <1>2, <2>1
<1>5. ASSUME NEW f \in FileIds, NEW i \in DOMAIN Text(files[f].key)
      PROVE  Pos(f, i) \in DOMAIN order /\ order[Pos(f, i)] = At(f, i)
  <2>1. Passed(f, i) BY <1>1 DEF Passed
  <2>2. \E p \in DOMAIN order : order[p] = At(f, i) BY <2>1 DEF WInv, OrderOK
  <2> QED BY <2>2 DEF Pos, At
<1> QED BY <1>1, <1>2, <1>3, <1>4, <1>5 DEF IsInjective

\* Where a statement stands in the finished order.
LEMMA PosIs ==
    ASSUME IInv, RInv, WInv, phase = "done", NEW p \in DOMAIN order, NEW f, NEW i, order[p] = At(f, i)
    PROVE  Pos(f, i) = p /\ f \in FileIds /\ i \in DOMAIN Text(files[f].key)
<1>1. order[p].file = f /\ order[p].index = i BY DEF At
<1>2. f \in FileIds /\ i \in DOMAIN Text(files[f].key) BY <1>1 DEF WInv, OrderOK
<1>3. Pos(f, i) \in DOMAIN order /\ order[Pos(f, i)] = order[p] BY <1>2, FinishedOrder
<1> QED BY <1>2, <1>3, FinishedOrder DEF IsInjective

\* The places of a block that starts after `at` and has no gap are counted by
\* the statements in it.
LEMMA BlockIsInterval ==
    ASSUME NEW n \in Nat, NEW ord, DOMAIN ord = 1 .. n, IsInjective(ord), NEW at \in 1 .. n,
           NEW B \in SUBSET (1 .. n), \A p \in B : at < p /\ \A q \in at + 1 .. p : q \in B
    PROVE  B = at + 1 .. at + Cardinality({ord[p] : p \in B})
<1>1. PICK b \in Nat : B = at + 1 .. at + b
  <2>1. CASE B = {}
    <3>1. B = at + 1 .. at + 0 BY <2>1
    <3> QED BY <3>1
  <2>2. CASE B # {}
    <3>1. B \in SUBSET Nat /\ \A p \in B : p <= n OBVIOUS
    <3>2. PICK m \in B : \A p \in B : p <= m BY <2>2, <3>1, LargestOf
    <3>3. B = at + 1 .. m
      <4>1. \A p \in B : p \in at + 1 .. m BY <3>1, <3>2
      <4>2. \A p \in at + 1 .. m : p \in B BY <3>2
      <4> QED BY <4>1, <4>2
    <3>4. m - at \in Nat /\ at + (m - at) = m BY <3>1, <3>2
    <3> QED BY <3>3, <3>4
  <2> QED BY <2>1, <2>2
<1>2. PICK T : T = {ord[p] : p \in B} OBVIOUS
<1>3. PICK f : f = [p \in B |-> ord[p]] OBVIOUS
<1>4. f \in Bijection(B, T)
  <2>1. f \in [B -> T] BY <1>2, <1>3
  <2>2. \A p, q \in B : f[p] = f[q] => p = q BY <1>3 DEF IsInjective
  <2>3. \A t \in T : \E p \in B : f[p] = t BY <1>2, <1>3
  <2> QED BY <2>1, <2>2, <2>3 DEF Bijection, Injection, Surjection, IsInjective
<1>5. IsFiniteSet(B) /\ Cardinality(B) = b
  <2>1. at + 1 \in Int /\ at + b \in Int BY <1>1
  <2>2. IsFiniteSet(at + 1 .. at + b) /\ Cardinality(at + 1 .. at + b) =
            IF at + 1 > at + b THEN 0 ELSE at + b - (at + 1) + 1
    BY <2>1, FS_Interval
  <2> QED BY <1>1, <2>2
<1>6. Cardinality(T) = b BY <1>4, <1>5, FS_Bijection DEF ExistsBijection
<1> QED BY <1>1, <1>2, <1>6

\* The statements below an Ok include are the block right after it.
LEMMA BlockAfterInclude ==
    ASSUME IInv, RInv, WInv, phase = "done", NEW f \in FileIds, NEW r \in OkIncludes(f)
    PROVE  LET below == UNION {StatementsOf(g) : g \in Subtree[r.target]}
               at == Pos(f, r.stmt)
           IN below = {order[p] : p \in at + 1 .. at + Cardinality(below)}
<1>0. PICK below, at : /\ below = UNION {StatementsOf(g) : g \in Subtree[r.target]}
                       /\ at = Pos(f, r.stmt)
  OBVIOUS
<1>1. PICK n : n = Len(order) OBVIOUS
<1>2. n \in Nat /\ DOMAIN order = 1 .. n /\ IsInjective(order) BY <1>1, FinishedOrder
<1>3. at \in 1 .. n /\ order[at] = At(f, r.stmt)
  <2>1. r \in files[f].includes BY DEF OkIncludes
  <2>2. PICK p \in DOMAIN order : order[p] = At(f, r.stmt) BY <2>1 DEF WInv, RecordsOK
  <2> QED BY <1>0, <1>2, <2>2, PosIs
<1>4. r.target \in FileIds BY DEF IInv, OkTree
<1>5. Subtree[r.target] = Under(r.target) /\ Under(r.target) \subseteq FileIds
  BY <1>4, SubtreeIsUnder, Ids DEF WInv
<1>6. PICK B : B = {p \in 1 .. n : order[p].file \in Under(r.target)} OBVIOUS
<1>7. \A p \in B : at < p /\ \A q \in at + 1 .. p : q \in B
  <2>1. ASSUME NEW p \in B PROVE at < p /\ \A q \in at + 1 .. p : order[q].file \in Under(r.target)
    BY <1>2, <1>3, <1>6 DEF WInv, Blocks
  <2>2. \A p \in B : \A q \in at + 1 .. p : q \in 1 .. n BY <1>2, <1>3, <1>6
  <2> QED BY <1>6, <2>1, <2>2
<1>8. below = {order[p] : p \in B}
  <2>1. ASSUME NEW p \in B PROVE order[p] \in below
    <3>1. /\ p \in DOMAIN order /\ order[p] = At(order[p].file, order[p].index)
          /\ order[p].file \in Under(r.target)
      BY <1>2, <1>6, FinishedOrder
    <3>2. order[p].index \in DOMAIN Text(files[order[p].file].key) BY <3>1, PosIs
    <3>3. order[p] \in StatementsOf(order[p].file) BY <3>1, <3>2 DEF StatementsOf, At
    <3> QED BY <1>0, <1>5, <3>1, <3>3
  <2>2. ASSUME NEW g \in Under(r.target), NEW s \in StatementsOf(g) PROVE \E p \in B : order[p] = s
    <3>1. PICK i \in DOMAIN Text(files[g].key) : s = At(g, i) BY <2>2 DEF StatementsOf, At
    <3>2. Pos(g, i) \in DOMAIN order /\ order[Pos(g, i)] = At(g, i)
      BY <1>5, FinishedOrder
    <3>3. order[Pos(g, i)].file = g BY <3>2 DEF At
    <3> QED BY <1>2, <1>6, <3>1, <3>2, <3>3
  <2> QED BY <1>0, <1>5, <2>1, <2>2
<1>9. B \in SUBSET (1 .. n) BY <1>6
<1>10. B = at + 1 .. at + Cardinality({order[p] : p \in B})
  <2>1. PICK o : o = order OBVIOUS
  <2>2. DOMAIN o = 1 .. n /\ IsInjective(o) BY <1>2, <2>1
  <2>3. B = at + 1 .. at + Cardinality({o[p] : p \in B})
    BY <1>2, <1>3, <1>7, <1>9, <2>2, BlockIsInterval
  <2> QED BY <2>1, <2>3
<1> QED BY <1>0, <1>8, <1>10

\* The walk's invariants, together.
LEMMA WalkInvariance == Spec => [](IInv /\ RInv /\ WInv)
<1>1. Init => IInv /\ RInv /\ WInv BY InitIInv, InitRInv, InitWInv
<1>2. IInv /\ RInv /\ WInv /\ [Next]_vars => IInv' /\ RInv' /\ WInv'
  BY NextKeeps, NextRInv, NextWInv
<1> QED BY <1>1, <1>2, PTL DEF Spec

\* The order handed to the semantic analyzer is the textual insertion the
\* assembler performs (the comment of expand): each statement of the unit once,
\* a file's in their order, and what an Ok include brings in right after it.
THEOREM OrderIsTextualInsertion == Spec => []SplicedInOrder
<1>1. ASSUME IInv, RInv, WInv, phase = "done"
      PROVE  Range(order) = UNION {StatementsOf(f) : f \in FileIds}
  <2>1. ASSUME NEW p \in DOMAIN order
        PROVE  \E f \in FileIds : \E i \in DOMAIN Text(files[f].key) : order[p] = At(f, i)
    BY <1>1, <2>1, FinishedOrder, PosIs
  <2>2. ASSUME NEW f \in FileIds, NEW i \in DOMAIN Text(files[f].key)
        PROVE  \E p \in DOMAIN order : order[p] = At(f, i)
    BY <1>1, <2>2, FinishedOrder
  <2> QED BY <2>1, <2>2 DEF Range, StatementsOf, At
<1>2. ASSUME IInv, RInv, WInv PROVE SplicedInOrder
  <2> SUFFICES ASSUME phase = "done"
               PROVE  /\ IsInjective(order)
                      /\ Range(order) = UNION {StatementsOf(f) : f \in FileIds}
                      /\ \A p, q \in DOMAIN order :
                            order[p].file = order[q].file /\ p < q => order[p].index < order[q].index
                      /\ \A f \in FileIds : \A r \in OkIncludes(f) :
                            LET below == UNION {StatementsOf(g) : g \in Subtree[r.target]}
                                at == Pos(f, r.stmt)
                            IN below = {order[p] : p \in at + 1 .. at + Cardinality(below)}
    BY Zenon DEF SplicedInOrder
  <2>1. IsInjective(order) BY <1>2, FinishedOrder
  <2>2. Range(order) = UNION {StatementsOf(f) : f \in FileIds} BY <1>1, <1>2
  <2>3. \A p, q \in DOMAIN order :
            order[p].file = order[q].file /\ p < q => order[p].index < order[q].index
    BY <1>2 DEF WInv, OrderOK
  <2>4. ASSUME NEW f \in FileIds, NEW r \in OkIncludes(f)
        PROVE  LET below == UNION {StatementsOf(g) : g \in Subtree[r.target]}
                   at == Pos(f, r.stmt)
               IN below = {order[p] : p \in at + 1 .. at + Cardinality(below)}
    BY <1>2, <2>4, BlockAfterInclude
  <2> QED BY <2>1, <2>2, <2>3, <2>4
<1> QED BY <1>2, WalkInvariance, PTL

\* What IncludeRecord says of a repeated include is true: a Cycle leads to a file
\* that includes this one, and after AlreadyIncluded nothing is left to bring in.
THEOREM StatusesTellTheTruth == Spec => []RepeatedIncludes
<1>1. ASSUME IInv, RInv, WInv, phase = "done", NEW f \in FileIds, NEW r \in files[f].includes
      PROVE  /\ r.status = "Cycle" => f \in Subtree[r.target]
             /\ r.status = "AlreadyIncluded" =>
                    \A g \in Subtree[r.target] : \A s \in StatementsOf(g) :
                        Pos(s.file, s.index) < Pos(f, r.stmt)
  <2>1. ASSUME r.status = "Cycle" PROVE f \in Subtree[r.target]
    <3>1. r.target \in FileIds /\ f \in Under(r.target) BY <1>1, <2>1 DEF WInv, RecordsOK
    <3> QED BY <1>1, <3>1, SubtreeIsUnder DEF WInv
  <2>2. ASSUME r.status = "AlreadyIncluded", NEW g \in Subtree[r.target], NEW s \in StatementsOf(g)
        PROVE  Pos(s.file, s.index) < Pos(f, r.stmt)
    <3>1. PICK q \in DOMAIN order : order[q] = At(f, r.stmt) BY <1>1 DEF WInv, RecordsOK
    <3>2. r.target \in FileIds BY <1>1, <2>2 DEF WInv, RecordsOK
    <3>3. g \in Under(r.target) BY <1>1, <2>2, <3>2, SubtreeIsUnder DEF WInv
    <3>4. PICK i \in DOMAIN Text(files[g].key) : s = At(g, i) BY <2>2 DEF StatementsOf, At
    <3>5. PICK p \in DOMAIN order : p < q /\ order[p] = At(g, i)
      BY <1>1, <2>2, <3>1, <3>3 DEF WInv, RecordsOK
    <3>6. Pos(g, i) = p /\ Pos(f, r.stmt) = q BY <1>1, <3>1, <3>5, PosIs
    <3>7. s.file = g /\ s.index = i BY <3>4 DEF At
    <3> QED BY <3>5, <3>6, <3>7
  <2> QED BY <2>1, <2>2
<1>2. ASSUME IInv, RInv, WInv PROVE RepeatedIncludes
  BY <1>1, <1>2 DEF RepeatedIncludes
<1> QED BY <1>2, WalkInvariance, PTL

-----------------------------------------------------------------------------
(* Counting what is below an include.                                      *)

Picked(s) == CHOOSE x \in s : TRUE
SumOver(c, S) == MapThenSumSet(LAMBDA r : c[r.target], S)
Adds(c, g, s) == IF s = {} THEN 0 ELSE c[Picked(s).target] + g[s \ {Picked(s)}]

\* The images of a finite set are finitely many.
LEMMA FiniteImage == ASSUME NEW J, IsFiniteSet(J), NEW f PROVE IsFiniteSet({f[i] : i \in J})
<1>1. PICK g, T : g = [i \in J |-> f[i]] /\ T = {f[i] : i \in J} OBVIOUS
<1>2. g \in Surjection(J, T) BY <1>1 DEF Surjection
<1> QED BY <1>1, <1>2, FS_Surjection

\* U is the union of the disjoint E[r], and c[r.target] is the size of each.
Counted(S, c, E, U) ==
    /\ IsFiniteSet(S) /\ \A r \in S : IsFiniteSet(E[r]) /\ c[r.target] = Cardinality(E[r])
    /\ \A r, q \in S : r # q => E[r] \cap E[q] = {}
    /\ U = UNION {E[r] : r \in S}

\* Then the sum of the sizes is the size of the union.
LEMMA SumCounts ==
    ASSUME NEW S, NEW c, NEW E, NEW U, Counted(S, c, E, U)
    PROVE  IsFiniteSet(U) /\ SumOver(c, S) = Cardinality(U)
<1>0. /\ IsFiniteSet(S) /\ \A r \in S : IsFiniteSet(E[r]) /\ c[r.target] = Cardinality(E[r])
      /\ \A r, q \in S : r # q => E[r] \cap E[q] = {}
      /\ U = UNION {E[r] : r \in S}
  BY DEF Counted
<1>1. PICK W : W = [s \in SUBSET S |-> UNION {E[r] : r \in s}] OBVIOUS
<1>2. ASSUME NEW s \in SUBSET S
      PROVE  IsFiniteSet(s) /\ IsFiniteSet(W[s]) /\ Cardinality(W[s]) \in Nat
  <2>1. IsFiniteSet(s) BY <1>0, FS_Subset
  <2>2. PICK F : F = {E[r] : r \in s} OBVIOUS
  <2>3. IsFiniteSet(F) BY <2>1, <2>2, FiniteImage
  <2>4. \A T \in F : IsFiniteSet(T) BY <1>0, <2>2
  <2>5. IsFiniteSet(UNION F) BY <2>3, <2>4, FS_UNION
  <2>6. W[s] = UNION F BY <1>1, <2>2
  <2> QED BY <2>1, <2>5, <2>6, FS_CardinalityType
<1>3. ASSUME NEW s \in SUBSET S, s # {}
      PROVE  /\ Picked(s) \in s
             /\ Cardinality(W[s]) = c[Picked(s).target] + Cardinality(W[s \ {Picked(s)}])
  <2>1. PICK x : x = Picked(s) OBVIOUS
  <2>2. x \in s BY <1>3, <2>1 DEF Picked
  <2>3. s \ {x} \in SUBSET S OBVIOUS
  <2>4. W[s] = E[x] \cup W[s \ {x}] BY <1>1, <2>2, <2>3
  <2>5. E[x] \cap W[s \ {x}] = {}
    <3>1. ASSUME NEW y \in E[x], NEW r \in s \ {x}, y \in E[r] PROVE FALSE
      <4>1. r \in S /\ x \in S /\ r # x BY <2>2, <3>1
      <4> QED BY <1>0, <3>1, <4>1
    <3> QED BY <1>1, <2>3, <3>1
  <2>6. IsFiniteSet(E[x]) /\ IsFiniteSet(W[s \ {x}]) /\ Cardinality(E[x]) \in Nat
        /\ Cardinality(W[s \ {x}]) \in Nat /\ c[x.target] = Cardinality(E[x])
    BY <1>0, <1>2, <2>2, <2>3, FS_CardinalityType
  <2>7. Cardinality(W[s]) = Cardinality(E[x]) + Cardinality(W[s \ {x}]) - Cardinality(E[x] \cap W[s \ {x}])
    <3>1. PICK A, B : A = E[x] /\ B = W[s \ {x}] OBVIOUS
    <3>2. Cardinality(A \cup B) = Cardinality(A) + Cardinality(B) - Cardinality(A \cap B)
      BY <2>6, <3>1, FS_Union
    <3> QED BY <2>4, <3>1, <3>2
  <2>8. Cardinality(E[x] \cap W[s \ {x}]) = 0 BY <2>5, FS_EmptySet
  <2> QED BY <2>1, <2>2, <2>6, <2>7, <2>8
<1>4. W[{}] = {} /\ Cardinality(W[{}]) = 0
  <2>1. W[{}] = {} BY <1>1
  <2> QED BY <2>1, FS_EmptySet
<1>5. \E g : g = [s \in SUBSET S |-> Adds(c, g, s)]
  <2>1. PICK g : g = [s \in SUBSET S |-> Cardinality(W[s])] OBVIOUS
  <2>2. ASSUME NEW s \in SUBSET S PROVE Cardinality(W[s]) = Adds(c, g, s)
    <3>1. CASE s = {} BY <1>4, <3>1 DEF Adds
    <3>2. CASE s # {}
      <4>1. g[s \ {Picked(s)}] = Cardinality(W[s \ {Picked(s)}]) BY <2>1
      <4> QED BY <1>3, <3>2, <4>1 DEF Adds
    <3> QED BY <3>1, <3>2
  <2>3. g = [s \in SUBSET S |-> Adds(c, g, s)] BY <2>1, <2>2
  <2> QED BY <2>3
<1>6. PICK a : a = CHOOSE g : g = [s \in SUBSET S |-> Adds(c, g, s)] OBVIOUS
<1>7. a = [s \in SUBSET S |-> Adds(c, a, s)] BY <1>5, <1>6
<1>8. SumOver(c, S) = a[S]
  <2>1. SumOver(c, S) = (CHOOSE g : g = [s \in SUBSET S |-> Adds(c, g, s)])[S]
    BY DEF SumOver, MapThenSumSet, MapThenFoldSet, Adds, Picked
  <2> QED BY <1>6, <2>1
<1>9. PICK bad : bad = {s \in SUBSET S : a[s] # Cardinality(W[s])} OBVIOUS
<1>10. bad = {}
  <2> SUFFICES ASSUME bad # {} PROVE FALSE OBVIOUS
  <2>1. PICK K : K = {Cardinality(s) : s \in bad} OBVIOUS
  <2>2. \A s \in bad : IsFiniteSet(s) /\ Cardinality(s) \in Nat BY <1>2, <1>9, FS_CardinalityType
  <2>3. K \in SUBSET Nat /\ K # {} BY <2>1, <2>2
  <2>4. PICK k \in K : \A m \in K : k <= m BY <2>3, SmallestOf
  <2>5. PICK s \in bad : k = Cardinality(s) BY <2>1
  <2>6. s \in SUBSET S /\ a[s] # Cardinality(W[s]) BY <1>9
  <2>7. a[s] = Adds(c, a, s) BY <1>7, <2>6
  <2>8. s # {} BY <1>4, <2>6, <2>7 DEF Adds
  <2>9. PICK x : x = Picked(s) OBVIOUS
  <2>10. x \in s /\ Cardinality(W[s]) = c[x.target] + Cardinality(W[s \ {x}])
    BY <1>3, <2>6, <2>8, <2>9
  <2>11. Cardinality(s \ {x}) = k - 1 BY <2>2, <2>5, <2>10, FS_RemoveElement
  <2>12. s \ {x} \notin bad
    <3> SUFFICES ASSUME s \ {x} \in bad PROVE FALSE OBVIOUS
    <3>1. k <= k - 1 BY <2>1, <2>4, <2>11
    <3> QED BY <2>3, <2>4, <3>1
  <2>13. a[s \ {x}] = Cardinality(W[s \ {x}]) BY <1>9, <2>6, <2>12
  <2> QED BY <2>6, <2>7, <2>8, <2>9, <2>10, <2>13 DEF Adds
<1>11. S \in SUBSET S OBVIOUS
<1>12. a[S] = Cardinality(W[S]) BY <1>9, <1>10, <1>11
<1>13. W[S] = U
  <2>1. W[S] = UNION {E[r] : r \in S} BY <1>1, <1>11
  <2> QED BY <1>0, <2>1
<1> QED BY <1>2, <1>8, <1>11, <1>12, <1>13

-----------------------------------------------------------------------------
(* What the diagnostics are before the summaries and after them.           *)

Errs(f) == {d \in files[f].diags : d.sev = "Error"}
Below(t) == UNION {{<<g, d>> : d \in Errs(g)} : g \in Under(t)}

OneRecordEach ==
    \A f \in FileIds : /\ IsFiniteSet(files[f].includes)
                       /\ \A r, q \in files[f].includes : r.stmt = q.stmt => r = q
NoSummaryYet ==
    \A f \in FileIds : IsFiniteSet(files[f].diags) /\ \A d \in files[f].diags : d.why # "summary"
Warned(f, r) == {d \in files[f].diags : d.why = "summary" /\ d.at = r.stmt}
CountsBelow ==
    \A f \in FileIds : \A r \in OkIncludes(f) :
        {d.errors : d \in Warned(f, r)} = {Cardinality(Below(r.target))} \ {0}

EInv == OneRecordEach /\ (phase # "done" => NoSummaryYet) /\ (phase = "done" => CountsBelow)

\* A step before the summaries adds a few diagnostics, and a record where there
\* was none.
LEMMA AddsAFew ==
    ASSUME EInv, phase # "done", phase' # "done", FileIds \subseteq FileIds',
           \A f \in FileIds' \ FileIds :
               /\ files'[f].includes = {} /\ IsFiniteSet(files'[f].diags)
               /\ \A d \in files'[f].diags : d.why # "summary",
           \A f \in FileIds : \E D : /\ files'[f].diags = files[f].diags \cup D
                                     /\ IsFiniteSet(D) /\ \A d \in D : d.why # "summary",
           \A f \in FileIds : \E R : /\ files'[f].includes = files[f].includes \cup R
                                     /\ IsFiniteSet(R)
                                     /\ \A r \in R : \A q \in files[f].includes \cup R :
                                           q.stmt = r.stmt => q = r
    PROVE  EInv'
<1>1. ASSUME NEW f \in FileIds'
      PROVE  /\ IsFiniteSet(files'[f].includes)
             /\ \A r, q \in files'[f].includes : r.stmt = q.stmt => r = q
  <2>1. CASE f \notin FileIds BY <2>1, FS_EmptySet
  <2>2. CASE f \in FileIds
    <3>1. PICK R : /\ files'[f].includes = files[f].includes \cup R /\ IsFiniteSet(R)
                   /\ \A r \in R : \A q \in files[f].includes \cup R : q.stmt = r.stmt => q = r
      BY <2>2
    <3>2. /\ IsFiniteSet(files[f].includes)
          /\ \A r, q \in files[f].includes : r.stmt = q.stmt => r = q
      BY <2>2 DEF EInv, OneRecordEach
    <3>3. PICK I : I = files[f].includes OBVIOUS
    <3>4. IsFiniteSet(I \cup R) BY <3>1, <3>2, <3>3, FS_Union
    <3> QED BY <3>1, <3>2, <3>3, <3>4
  <2> QED BY <2>1, <2>2
<1>2. ASSUME NEW f \in FileIds'
      PROVE  IsFiniteSet(files'[f].diags) /\ \A d \in files'[f].diags : d.why # "summary"
  <2>1. CASE f \in FileIds
    <3>1. PICK D : /\ files'[f].diags = files[f].diags \cup D
                   /\ IsFiniteSet(D) /\ \A d \in D : d.why # "summary"
      BY <2>1
    <3>2. IsFiniteSet(files[f].diags) /\ \A d \in files[f].diags : d.why # "summary"
      BY <2>1 DEF EInv, NoSummaryYet
    <3>3. PICK I : I = files[f].diags OBVIOUS
    <3>4. IsFiniteSet(I \cup D) BY <3>1, <3>2, <3>3, FS_Union
    <3> QED BY <3>1, <3>2, <3>3, <3>4
  <2> QED BY <2>1
<1> QED BY <1>1, <1>2 DEF EInv, OneRecordEach, NoSummaryYet

\* What filing an include adds to the diagnostics.
LEMMA RecordedDiags ==
    ASSUME TypeOK, Top \in Frame, NEW s \in Status, NEW t \in Nat, NEW d
    PROVE  \A f \in FileIds : Recorded(s, t, d)[f].diags =
               files[f].diags \cup (IF f = Top.file THEN d ELSE {})
<1>1. files \in Seq(SourceFile) /\ FileIds = 1 .. Len(files) /\ Top.file \in 1 .. Len(files)
  BY LenProperties DEF TypeOK, FileIds, Frame
<1>2. \A f \in FileIds : files[f] \in SourceFile BY <1>1, ElementOfSeq
<1>3. DOMAIN files = FileIds BY DEF FileIds
<1> QED BY <1>1, <1>2, <1>3 DEF Recorded, SourceFile

\* A statement that is being visited has no record yet.
LEMMA NoRecordYet ==
    ASSUME IInv, WInv, Visit
    PROVE  \A r \in files[Top.file].includes : r.stmt # Top.next
<1>1. Top.file \in FileIds /\ Top.next \in DOMAIN Text(files[Top.file].key) /\ Top.next \in Nat
  BY OrderNow DEF IInv
<1>2. ~Passed(Top.file, Top.next) BY PassedNow DEF IInv, WInv
<1>3. ASSUME NEW r \in files[Top.file].includes, r.stmt = Top.next PROVE FALSE
  <2>1. \E p \in DOMAIN order : order[p] = At(Top.file, Top.next)
    BY <1>1, <1>3 DEF WInv, RecordsOK
  <2> QED BY <1>1, <1>2, <2>1 DEF WInv, OrderOK
<1> QED BY <1>3

\* A file starts with finitely many syntax errors.
LEMMA NewFileDiags ==
    ASSUME TypeOK, NEW k
    PROVE  /\ IsFiniteSet(NewFile(k, Text(k)).diags)
           /\ \A d \in NewFile(k, Text(k)).diags : d.why # "summary"
<1>1. PICK text : text = Text(k) OBVIOUS
<1>2. text \in Seq(Stmt) BY <1>1, TextType
<1>3. DOMAIN text = 1 .. Len(text) /\ Len(text) \in Nat BY <1>2, LenProperties
<1>4. PICK J : J = {j \in DOMAIN text : SyntaxError(text[j])} OBVIOUS
<1>5. IsFiniteSet(1 .. Len(text)) BY <1>3, FS_Interval
<1>6. J \in SUBSET (1 .. Len(text)) BY <1>3, <1>4
<1>7. IsFiniteSet(J) BY <1>5, <1>6, FS_Subset
<1>8. PICK g : g = [i \in J |-> Diag("Error", i, "syntax")] OBVIOUS
<1>9. NewFile(k, text).diags = {g[i] : i \in J} BY <1>4, <1>8 DEF NewFile
<1>10. IsFiniteSet({g[i] : i \in J}) BY <1>7, FiniteImage
<1>11. \A i \in J : g[i].why = "syntax" BY <1>8 DEF Diag
<1> QED BY <1>1, <1>9, <1>10, <1>11

\* The four outcomes of an include.
LEMMA FilesAnInclude ==
    ASSUME IInv, WInv, EInv, Visit, phase' = phase, FileIds \subseteq FileIds',
           NEW s \in Status, NEW t \in Nat, NEW d, IsFiniteSet(d), \A x \in d : x.why # "summary",
           \A f \in FileIds : files'[f] = Recorded(s, t, d)[f],
           \A f \in FileIds' \ FileIds :
               /\ files'[f].includes = {} /\ IsFiniteSet(files'[f].diags)
               /\ \A x \in files'[f].diags : x.why # "summary",
           \A f \in FileIds : /\ Recorded(s, t, d)[f].includes = files[f].includes \cup
                                    (IF f = Top.file
                                     THEN {[stmt |-> Top.next, status |-> s, target |-> t]} ELSE {})
    PROVE  EInv'
<1>1. Top \in Frame BY VisitFacts DEF IInv
<1>2. phase # "done" /\ phase' # "done" BY DEF Visit
<1>3. \A f \in FileIds : files'[f].diags = files[f].diags \cup (IF f = Top.file THEN d ELSE {})
  BY <1>1, RecordedDiags DEF IInv
<1>4. ASSUME NEW f \in FileIds
      PROVE  \E D : /\ files'[f].diags = files[f].diags \cup D
                    /\ IsFiniteSet(D) /\ \A x \in D : x.why # "summary"
  BY <1>3, FS_EmptySet
<1>5. ASSUME NEW f \in FileIds
      PROVE  \E R : /\ files'[f].includes = files[f].includes \cup R /\ IsFiniteSet(R)
                    /\ \A r \in R : \A q \in files[f].includes \cup R : q.stmt = r.stmt => q = r
  <2>1. PICK rec : rec = [stmt |-> Top.next, status |-> s, target |-> t] OBVIOUS
  <2>2. PICK R : R = IF f = Top.file THEN {rec} ELSE {} OBVIOUS
  <2>3. files'[f].includes = files[f].includes \cup R BY <2>1, <2>2
  <2>4. IsFiniteSet(R) BY <2>2, FS_EmptySet, FS_Singleton
  <2>5. ASSUME NEW r \in R, NEW q \in files[f].includes \cup R, q.stmt = r.stmt PROVE q = r
    <3>1. r = rec /\ f = Top.file BY <2>2, <2>5
    <3>2. r.stmt = Top.next BY <2>1, <3>1
    <3>3. q \notin files[f].includes BY <2>5, <3>1, <3>2, NoRecordYet
    <3> QED BY <2>2, <2>5, <3>1, <3>3
  <2> QED BY <2>3, <2>4, <2>5
<1> QED BY <1>2, <1>4, <1>5, AddsAFew

\* Without a new file.
LEMMA FilesNoFile ==
    ASSUME IInv, WInv, EInv, Visit, phase' = phase, SameFiles, NEW s \in Status, NEW t \in Nat,
           NEW x \in Diagnostic, x.why # "summary", files' = Recorded(s, t, {x})
    PROVE  EInv'
<1>1. Top \in Frame BY VisitFacts DEF IInv
<1>2. FileIds' = FileIds BY UnderSame
<1>3. PICK d : d = {x} OBVIOUS
<1>4. d \in SUBSET Diagnostic /\ IsFiniteSet(d) /\ \A y \in d : y.why # "summary"
  BY <1>3, FS_Singleton
<1>5. \A f \in FileIds : Recorded(s, t, d)[f].includes = files[f].includes \cup
          (IF f = Top.file THEN {[stmt |-> Top.next, status |-> s, target |-> t]} ELSE {})
  BY <1>1, <1>4, RecordedFacts DEF IInv
<1>6. FileIds' \ FileIds = {} /\ \A f \in FileIds : files'[f] = Recorded(s, t, d)[f]
  BY <1>2, <1>3
<1> QED BY <1>2, <1>4, <1>5, <1>6, FilesAnInclude

\* With the file: it starts with its own syntax errors.
LEMMA ExpandErrors == ASSUME IInv, WInv, EInv, IncludeExpanded PROVE EInv'
<1>1. PICK k, n : k = Current.to /\ n = Len(files) OBVIOUS
<1>2. Grown(k, n) BY <1>1, IncludeExpandedGrows
<1>3. Visit /\ phase' = phase /\ Top \in Frame
  BY VisitFacts DEF IInv, IncludeExpanded
<1>4. PICK ext : ext = IF k \in SourceExt THEN {} ELSE {Diag("Warning", Top.next, "extension")}
  OBVIOUS
<1>5. ext \in SUBSET Diagnostic /\ IsFiniteSet(ext) /\ \A x \in ext : x.why # "summary"
  <2>1. Diag("Warning", Top.next, "extension") \in Diagnostic
    BY <1>3, DiagType DEF Frame, Severity
  <2>2. Diag("Warning", Top.next, "extension").why # "summary" BY DEF Diag
  <2> QED BY <1>4, <2>1, <2>2, FS_EmptySet, FS_Singleton
<1>6. files' = Append(Recorded("Ok", n + 1, ext), NewFile(k, Text(k)))
  BY <1>1, <1>4 DEF IncludeExpanded, NextId
<1>7. n \in Nat \ {0} /\ FileIds = 1 .. n /\ FileIds' = 1 .. n + 1 /\ files'[n + 1] = NewFile(k, Text(k))
      /\ files'[n + 1].includes = {} /\ k \in File
  BY <1>2 DEF Grown
<1>8. "Ok" \in Status /\ n + 1 \in Nat BY <1>7 DEF Status
<1>9. /\ Recorded("Ok", n + 1, ext) \in Seq(SourceFile) /\ Len(Recorded("Ok", n + 1, ext)) = n
      /\ \A f \in FileIds : Recorded("Ok", n + 1, ext)[f].includes = files[f].includes \cup
             (IF f = Top.file THEN {[stmt |-> Top.next, status |-> "Ok", target |-> n + 1]} ELSE {})
  BY <1>1, <1>3, <1>5, <1>8, RecordedFacts DEF IInv
<1>10. \A f \in FileIds : files'[f] = Recorded("Ok", n + 1, ext)[f]
  <2>1. NewFile(k, Text(k)) \in SourceFile BY <1>7, TextType, NewFileType DEF IInv
  <2> QED BY <1>6, <1>7, <1>9, <2>1, AppendProperties
<1>11. ASSUME NEW f \in FileIds' \ FileIds
       PROVE  /\ files'[f].includes = {} /\ IsFiniteSet(files'[f].diags)
              /\ \A x \in files'[f].diags : x.why # "summary"
  <2>1. f = n + 1 BY <1>7
  <2> QED BY <1>7, <2>1, NewFileDiags DEF IInv
<1>12. FileIds \subseteq FileIds' BY <1>7
<1> QED BY <1>3, <1>5, <1>8, <1>9, <1>10, <1>11, <1>12, FilesAnInclude

\* Steps that add diagnostics alone.
LEMMA DiagnosesMore ==
    ASSUME IInv, EInv, SameFiles, SameIncludes, phase # "done", phase' # "done",
           \A f \in FileIds : \E D : /\ files'[f].diags = files[f].diags \cup D
                                     /\ IsFiniteSet(D) /\ \A d \in D : d.why # "summary"
    PROVE  EInv'
<1>1. FileIds' = FileIds BY UnderSame
<1>2. ASSUME NEW f \in FileIds
      PROVE  \E R : /\ files'[f].includes = files[f].includes \cup R /\ IsFiniteSet(R)
                    /\ \A r \in R : \A q \in files[f].includes \cup R : q.stmt = r.stmt => q = r
  <2>1. PICK R : R = {} OBVIOUS
  <2>2. files'[f].includes = files[f].includes \cup R /\ IsFiniteSet(R)
    BY <2>1, FS_EmptySet DEF SameIncludes
  <2> QED BY <2>1, <2>2
<1> QED BY <1>1, <1>2, AddsAFew

\* `emb file` reports at most once.
LEMMA EmbErrors == ASSUME IInv, EInv, EmbFile PROVE EInv'
<1>1. Top \in Frame /\ phase # "done" /\ phase' # "done"
  BY VisitFacts DEF IInv, EmbFile, Visit
<1>2. PICK e, sev : /\ sev \subseteq {"Error", "Warning"}
                    /\ files' = [files EXCEPT
                          ![Top.file].embedded = @ \cup e,
                          ![Top.file].diags = @ \cup {Diag(s, Top.next, "embed") : s \in sev}]
  <2> DEFINE found == EmbExists(Current, Top.file)
             e == {[stmt |-> Top.next, exists |-> found]}
             sev == CASE ~Current.known -> {"Error"}
                      [] Current.known /\ ~found /\ Current.to # NoBase -> {"Warning"}
                      [] OTHER -> {}
  <2>1. sev \subseteq {"Error", "Warning"} OBVIOUS
  <2>2. files' = [files EXCEPT
                    ![Top.file].embedded = @ \cup e,
                    ![Top.file].diags = @ \cup {Diag(s, Top.next, "embed") : s \in sev}]
    BY DEF EmbFile
  <2> QED BY <2>1, <2>2
<1>3. PICK g : g = [s \in sev |-> Diag(s, Top.next, "embed")] OBVIOUS
<1>4. PICK D : D = {g[s] : s \in sev} OBVIOUS
<1>5. IsFiniteSet(D) /\ \A d \in D : d.why # "summary"
  <2>1. IsFiniteSet({"Error", "Warning"})
    <3>1. IsFiniteSet({"Error"}) BY FS_Singleton
    <3>2. IsFiniteSet({"Error"} \cup {"Warning"}) BY <3>1, FS_AddElement
    <3>3. {"Error"} \cup {"Warning"} = {"Error", "Warning"} OBVIOUS
    <3> QED BY <3>2, <3>3
  <2>2. IsFiniteSet(sev) BY <1>2, <2>1, FS_Subset
  <2>3. IsFiniteSet(D) BY <1>4, <2>2, FiniteImage
  <2> QED BY <1>3, <1>4, <2>3 DEF Diag
<1>6. files \in Seq(SourceFile) /\ FileIds = 1 .. Len(files) /\ Top.file \in 1 .. Len(files)
  BY <1>1, LenProperties DEF IInv, TypeOK, FileIds, Frame
<1>7. \A f \in FileIds : files[f] \in SourceFile BY <1>6, ElementOfSeq
<1>8. D = {Diag(s, Top.next, "embed") : s \in sev} BY <1>3, <1>4
<1>9. \A f \in FileIds : files'[f].diags = files[f].diags \cup (IF f = Top.file THEN D ELSE {})
  BY <1>2, <1>6, <1>7, <1>8 DEF SourceFile, FileIds
<1>10. \A f \in FileIds : \E X : /\ files'[f].diags = files[f].diags \cup X
                                /\ IsFiniteSet(X) /\ \A d \in X : d.why # "summary"
  BY <1>5, <1>9, FS_EmptySet
<1> QED BY <1>1, <1>10, EmbFileSame, DiagnosesMore

\* The semantic analysis reports at most once for each statement.
LEMMA AnalyseErrors == ASSUME IInv, EInv, Analyse PROVE EInv'
<1>1. phase # "done" /\ phase' # "done" BY DEF Analyse
<1>2. ASSUME NEW f \in FileIds
      PROVE  \E D : /\ files'[f].diags = files[f].diags \cup D
                    /\ IsFiniteSet(D) /\ \A d \in D : d.why # "summary"
  <2>1. PICK text : text = Text(files[f].key) OBVIOUS
  <2>2. text \in Seq(Stmt) BY <2>1, TextType DEF IInv
  <2>3. DOMAIN text = 1 .. Len(text) /\ Len(text) \in Nat BY <2>2, LenProperties
  <2>4. PICK bad : bad = {i \in DOMAIN text : text[i].op = "semantic"} OBVIOUS
  <2>5. IsFiniteSet(1 .. Len(text)) BY <2>3, FS_Interval
  <2>6. bad \in SUBSET (1 .. Len(text)) BY <2>3, <2>4
  <2>7. IsFiniteSet(bad) BY <2>5, <2>6, FS_Subset
  <2>8. PICK g : g = [i \in bad |-> Diag("Error", i, "semantic")] OBVIOUS
  <2>9. PICK D : D = {g[i] : i \in bad} OBVIOUS
  <2>10. IsFiniteSet(D) BY <2>7, <2>9, FiniteImage
  <2>11. \A d \in D : d.why # "summary" BY <2>8, <2>9 DEF Diag
  <2>12. D = {Diag("Error", i, "semantic") : i \in bad} BY <2>8, <2>9
  <2>13. files[f] \in SourceFile BY LenProperties, ElementOfSeq DEF IInv, TypeOK, FileIds
  <2>14. files'[f].diags = files[f].diags \cup D
    BY <2>1, <2>4, <2>12, <2>13 DEF Analyse, FileIds, SourceFile
  <2> QED BY <2>10, <2>11, <2>14
<1> QED BY <1>1, <1>2, AnalyseSame, DiagnosesMore

-----------------------------------------------------------------------------
(* The totals of addIncludeErrorSummaries.                                 *)

\* Nothing is below two includes of a file.
LEMMA ApartBelow ==
    ASSUME IInv, NoCross, NEW f \in FileIds, NEW r \in OkIncludes(f), NEW q \in OkIncludes(f), r # q
    PROVE  Under(r.target) \cap Under(q.target) = {}
<1>1. PICK n : n = Len(files) OBVIOUS
<1>2. /\ n \in Nat \ {0} /\ FileIds = 1 .. n
      /\ r.target \in FileIds /\ f < r.target /\ q.target \in FileIds /\ f < q.target
      /\ r.target # q.target
  BY <1>1, Ids DEF IInv, OkTree
<1>3. Link(f, r.target) /\ Link(f, q.target) BY DEF Link
<1>4. ASSUME NEW c \in FileIds, NEW h \in FileIds, Link(f, c), Link(f, h), c < h,
             NEW g \in Under(c), g \in Under(h)
      PROVE  FALSE
  <2>1. h <= g /\ g \in FileIds BY <1>4 DEF Under
  <2>2. h \in c + 1 .. g BY <1>2, <1>4, <2>1
  <2>3. c <= f BY <1>4, <2>2 DEF Under
  <2>4. f < c BY <1>4, Ids
  <2> QED BY <1>2, <1>4, <2>3, <2>4
<1>5. CASE r.target < q.target BY <1>2, <1>3, <1>4, <1>5
<1>6. CASE q.target < r.target BY <1>2, <1>3, <1>4, <1>6
<1> QED BY <1>2, <1>5, <1>6

\* What sum(id) adds up is the number of errors below the file, each once.
LEMMA TotalsCount ==
    ASSUME IInv, WInv, EInv, phase # "done", NEW total, IsTotal(total)
    PROVE  \A f \in FileIds : IsFiniteSet(Below(f)) /\ total[f] = Cardinality(Below(f))
<1>1. PICK n : n = Len(files) OBVIOUS
<1>2. /\ n \in Nat \ {0} /\ FileIds = 1 .. n
      /\ \A f \in FileIds : \A r \in OkIncludes(f) : r.target \in FileIds /\ r.target > f
  BY <1>1, Ids DEF IInv, OkTree
<1>3. PICK bad : bad = {f \in 1 .. n : ~(IsFiniteSet(Below(f)) /\ total[f] = Cardinality(Below(f)))}
  OBVIOUS
<1>4. SUFFICES ASSUME bad # {} PROVE FALSE BY <1>2, <1>3
<1>5. bad \in SUBSET Nat /\ \A f \in bad : f <= n BY <1>2, <1>3
<1>6. PICK f \in bad : \A m \in bad : m <= f BY <1>2, <1>4, <1>5, LargestOf
<1>7. f \in FileIds /\ ~(IsFiniteSet(Below(f)) /\ total[f] = Cardinality(Below(f))) BY <1>2, <1>3
<1>8. PICK S : S = OkIncludes(f) OBVIOUS
<1>9. PICK E : E = [r \in S |-> Below(r.target)] OBVIOUS
<1>10. ASSUME NEW r \in S PROVE IsFiniteSet(E[r]) /\ total[r.target] = Cardinality(E[r])
  <2>1. r.target \in 1 .. n /\ r.target > f BY <1>2, <1>7, <1>8
  <2>2. ~(r.target <= f) BY <1>2, <1>7, <2>1
  <2>3. r.target \notin bad BY <1>6, <2>2
  <2> QED BY <1>3, <1>9, <2>1, <2>3
<1>11. ASSUME NEW r \in S, NEW q \in S, r # q PROVE E[r] \cap E[q] = {}
  <2>1. Under(r.target) \cap Under(q.target) = {} BY <1>7, <1>8, <1>11, ApartBelow DEF WInv
  <2> QED BY <1>9, <2>1 DEF Below
<1>12. IsFiniteSet(S)
  <2>1. IsFiniteSet(files[f].includes) BY <1>7 DEF EInv, OneRecordEach
  <2>2. S \in SUBSET files[f].includes BY <1>8 DEF OkIncludes
  <2> QED BY <2>1, <2>2, FS_Subset
<1>13. PICK U : U = UNION {E[r] : r \in S} OBVIOUS
<1>14. IsFiniteSet(U) /\ SumOver(total, S) = Cardinality(U)
  <2>1. Counted(S, total, E, U) BY <1>10, <1>11, <1>12, <1>13 DEF Counted
  <2> QED BY <2>1, SumCounts
<1>15. PICK own, O : own = Errs(f) /\ O = {<<f, d>> : d \in own} OBVIOUS
<1>16. IsFiniteSet(O) /\ Cardinality(O) = OwnErrors(f) /\ Cardinality(O) \in Nat
  <2>1. IsFiniteSet(files[f].diags) BY <1>7 DEF EInv, NoSummaryYet
  <2>2. own \in SUBSET files[f].diags BY <1>15 DEF Errs
  <2>3. IsFiniteSet(own) BY <2>1, <2>2, FS_Subset
  <2>4. PICK g : g = [d \in own |-> <<f, d>>] OBVIOUS
  <2>5. g \in Bijection(own, O)
    BY <1>15, <2>4 DEF Bijection, Injection, Surjection, IsInjective
  <2>6. IsFiniteSet(O) /\ Cardinality(O) = Cardinality(own)
    BY <2>3, <2>5, FS_Bijection DEF ExistsBijection
  <2> QED BY <1>15, <2>6, FS_CardinalityType DEF OwnErrors, Errs
<1>17. Below(f) = O \cup U
  <2>1. Under(f) = {f} \cup UNION {Under(r.target) : r \in S}
    BY <1>7, <1>8, UnderStep DEF WInv
  <2>2. U = UNION {Below(r.target) : r \in S} BY <1>9, <1>13
  <2> QED BY <1>15, <2>1, <2>2 DEF Below
<1>18. O \cap U = {}
  <2>1. ASSUME NEW r \in S PROVE f \notin Under(r.target)
    <3>1. r.target > f /\ r.target \in 1 .. n /\ f \in 1 .. n BY <1>2, <1>7, <1>8
    <3> QED BY <1>2, <3>1 DEF Under
  <2> QED BY <1>9, <1>13, <1>15, <2>1 DEF Below
<1>19. Cardinality(U) \in Nat BY <1>14, FS_CardinalityType
<1>20. IsFiniteSet(Below(f)) /\ Cardinality(Below(f)) = Cardinality(O) + Cardinality(U)
  <2>1. /\ IsFiniteSet(O \cup U)
        /\ Cardinality(O \cup U) = Cardinality(O) + Cardinality(U) - Cardinality(O \cap U)
    BY <1>14, <1>16, FS_Union
  <2>2. Cardinality(O \cap U) = 0 BY <1>18, FS_EmptySet
  <2> QED BY <1>16, <1>17, <1>19, <2>1, <2>2
<1>21. total[f] = OwnErrors(f) + SumOver(total, S)
  BY <1>7, <1>8 DEF IsTotal, FileIds, SumOver
<1> QED BY <1>7, <1>14, <1>16, <1>20, <1>21

\* The pass over the finished files puts each total on the include's line.
LEMMA SummariesCount == ASSUME IInv, WInv, EInv, AddSummaries PROVE EInv'
<1>1. phase # "done" /\ phase' = "done" BY DEF AddSummaries
<1>2. PICK total \in {t \in [FileIds -> 0 .. AllErrors] : IsTotal(t)} :
          files' = [f \in FileIds |->
              [files[f] EXCEPT !.diags = @ \cup
                  {[Diag("Warning", r.stmt, "summary") EXCEPT !.errors = total[r.target]] :
                       r \in {q \in OkIncludes(f) : total[q.target] > 0}}]]
  BY Zenon DEF AddSummaries, FileIds
<1>3. \A f \in FileIds : IsFiniteSet(Below(f)) /\ total[f] = Cardinality(Below(f))
  BY <1>1, <1>2, TotalsCount
<1>4. /\ SameFiles /\ SameIncludes /\ FileIds' = FileIds /\ \A t : Under(t)' = Under(t)
      /\ \A f \in FileIds : OkIncludes(f)' = OkIncludes(f)
  BY AddSummariesSame, UnderSame DEF SameFiles
<1>5. OneRecordEach' BY <1>4 DEF EInv, OneRecordEach, SameIncludes
<1> DEFINE Note(r) == [Diag("Warning", r.stmt, "summary") EXCEPT !.errors = total[r.target]]
           Notes(f) == {Note(r) : r \in {q \in OkIncludes(f) : total[q.target] > 0}}
<1>6. \A r : /\ Note(r).sev = "Warning" /\ Note(r).why = "summary"
             /\ Note(r).at = r.stmt /\ Note(r).errors = total[r.target]
  BY DEF Diag
<1>7. ASSUME NEW f \in FileIds PROVE files'[f].diags = files[f].diags \cup Notes(f)
  <2>1. files[f] \in SourceFile BY LenProperties, ElementOfSeq DEF IInv, TypeOK, FileIds
  <2> QED BY <1>2, <1>7, <2>1 DEF SourceFile
<1> HIDE DEF Note
<1>8. ASSUME NEW f \in FileIds PROVE Errs(f)' = Errs(f)
  BY <1>6, <1>7, <1>8 DEF Errs
<1>9. ASSUME NEW t \in FileIds PROVE Below(t)' = Below(t)
  <2>1. Under(t)' = Under(t) /\ Under(t) \subseteq FileIds BY <1>4, Ids
  <2> QED BY <1>8, <2>1 DEF Below
<1>10. ASSUME NEW f \in FileIds, NEW r \in OkIncludes(f)
       PROVE  {d.errors : d \in Warned(f, r)'} = {Cardinality(Below(r.target))} \ {0}
  <2>1. r.target \in FileIds BY DEF IInv, OkTree
  <2>2. total[r.target] = Cardinality(Below(r.target)) /\ total[r.target] \in Nat
    BY <1>3, <2>1, FS_CardinalityType
  <2>3. Warned(f, r)' = {d \in Notes(f) : d.at = r.stmt}
    <3>1. \A d \in files[f].diags : d.why # "summary" BY <1>1 DEF EInv, NoSummaryYet
    <3>2. \A d \in Notes(f) : d.why = "summary" BY <1>6
    <3> QED BY <1>7, <3>1, <3>2 DEF Warned
  <2>4. \A q \in OkIncludes(f) : q.stmt = r.stmt => q = r
    BY <1>10 DEF EInv, OneRecordEach, OkIncludes
  <2>5. CASE total[r.target] > 0
    <3>1. Note(r) \in Warned(f, r)' BY <1>6, <2>3, <2>5
    <3>2. \A d \in Warned(f, r)' : d = Note(r) BY <1>6, <2>3, <2>4
    <3>3. {d.errors : d \in Warned(f, r)'} = {total[r.target]} BY <1>6, <3>1, <3>2
    <3> QED BY <2>2, <2>5, <3>3
  <2>6. CASE ~(total[r.target] > 0)
    <3>1. \A d \in Warned(f, r)' : FALSE BY <1>6, <2>3, <2>4, <2>6
    <3>2. total[r.target] = 0 BY <2>2, <2>6
    <3> QED BY <2>2, <3>1, <3>2
  <2> QED BY <2>5, <2>6
<1>11. CountsBelow'
  <2> SUFFICES ASSUME NEW f \in FileIds', NEW r \in OkIncludes(f)'
               PROVE  {d.errors : d \in Warned(f, r)'} = {Cardinality(Below(r.target)')} \ {0}
    BY DEF CountsBelow
  <2>1. f \in FileIds /\ r \in OkIncludes(f) BY <1>4
  <2>2. r.target \in FileIds BY <2>1 DEF IInv, OkTree
  <2> QED BY <1>9, <1>10, <2>1, <2>2
<1> QED BY <1>1, <1>5, <1>11 DEF EInv

\* The root's own syntax errors.
LEMMA InitEInv == Init => EInv
<1> SUFFICES ASSUME Init PROVE EInv OBVIOUS
<1>1. IInv BY InitIInv
<1>2. FileIds = {1} /\ files[1] = NewFile(Root, Text(Root)) /\ phase = "expand"
  BY DEF Init, FileIds
<1>3. files[1].includes = {} BY <1>2 DEF NewFile
<1>4. OneRecordEach BY <1>2, <1>3, FS_EmptySet DEF OneRecordEach
<1>5. NoSummaryYet BY <1>1, <1>2, NewFileDiags DEF NoSummaryYet, IInv
<1> QED BY <1>2, <1>4, <1>5 DEF EInv

\* Every step keeps the diagnostics in that shape.
LEMMA NextEInv == ASSUME IInv, WInv, EInv, [Next]_vars PROVE EInv'
<1>1. ASSUME SameFiles, files' = files, phase' = phase PROVE EInv'
  <2>1. /\ FileIds' = FileIds /\ \A t : Under(t)' = Under(t)
        /\ \A f \in FileIds : OkIncludes(f)' = OkIncludes(f)
    BY <1>1, UnderSame DEF SameFiles
  <2>2. OneRecordEach' /\ (NoSummaryYet => NoSummaryYet')
    BY <1>1, <2>1 DEF EInv, OneRecordEach, NoSummaryYet
  <2>3. \A t : Below(t)' = Below(t) BY <1>1, <2>1 DEF Below, Errs
  <2>4. \A f, r : Warned(f, r)' = Warned(f, r) BY <1>1 DEF Warned
  <2>5. CountsBelow => CountsBelow' BY <2>1, <2>3, <2>4 DEF CountsBelow
  <2> QED BY <1>1, <2>2, <2>5 DEF EInv
<1>2. CASE OtherStatement BY <1>1, <1>2, OtherStatementSame DEF OtherStatement
<1>3. CASE IncludeUnresolved
  <2>1. Visit /\ Top \in Frame BY <1>3, VisitFacts DEF IInv, IncludeUnresolved
  <2>2. PICK x : x = Diag("Error", Top.next, "include") OBVIOUS
  <2>3. x \in Diagnostic /\ x.why # "summary" BY <2>1, <2>2, DiagType DEF Frame, Severity, Diag
  <2>4. "Unresolved" \in Status /\ 0 \in Nat BY DEF Status
  <2>5. files' = Recorded("Unresolved", 0, {x}) /\ phase' = phase BY <1>3, <2>2 DEF IncludeUnresolved
  <2> QED BY <1>3, <2>1, <2>3, <2>4, <2>5, IncludeUnresolvedSame, FilesNoFile
<1>4. CASE IncludeRefused
  <2>1. Visit /\ Top \in Frame BY <1>4, VisitFacts DEF IInv, IncludeRefused
  <2>2. PICK x : x = Diag("Error", Top.next, "include") OBVIOUS
  <2>3. x \in Diagnostic /\ x.why # "summary" BY <2>1, <2>2, DiagType DEF Frame, Severity, Diag
  <2>4. "NotFound" \in Status /\ 0 \in Nat BY DEF Status
  <2>5. files' = Recorded("NotFound", 0, {x}) /\ phase' = phase BY <1>4, <2>2 DEF IncludeRefused
  <2> QED BY <1>4, <2>1, <2>3, <2>4, <2>5, IncludeRefusedSame, FilesNoFile
<1>5. CASE IncludeSeen
  <2>1. Visit /\ Top \in Frame BY <1>5, VisitFacts DEF IInv, IncludeSeen
  <2>2. PICK x, t : x = Diag("Hint", Top.next, "include") /\ t = seen[Current.to] OBVIOUS
  <2>3. x \in Diagnostic /\ x.why # "summary" BY <2>1, <2>2, DiagType DEF Frame, Severity, Diag
  <2>4. RepeatStatus(t) \in Status /\ t \in Nat
    <3>1. t \in FileIds /\ t \in Nat BY <1>5, <2>2, Ids DEF IInv, TypeOK, IncludeSeen
    <3> QED BY <3>1 DEF RepeatStatus, Status
  <2>5. files' = Recorded(RepeatStatus(t), t, {x}) /\ phase' = phase BY <1>5, <2>2 DEF IncludeSeen
  <2> QED BY <1>5, <2>1, <2>3, <2>4, <2>5, IncludeSeenSame, FilesNoFile
<1>6. CASE IncludeExpanded BY <1>6, ExpandErrors
<1>7. CASE EmbFile BY <1>7, EmbErrors
<1>8. CASE LeaveFile BY <1>1, <1>8, UnchangedSame DEF LeaveFile, IInv
<1>9. CASE Analyse BY <1>9, AnalyseErrors
<1>10. CASE AddSummaries BY <1>10, SummariesCount
<1>11. CASE Returned \/ UNCHANGED vars BY <1>1, <1>11, UnchangedSame DEF Returned, vars, IInv
<1> QED BY <1>2, <1>3, <1>4, <1>5, <1>6, <1>7, <1>8, <1>9, <1>10, <1>11 DEF Next

\* "Warn on each include line when the included file (or anything it includes)
\* has errors" (addIncludeErrorSummaries): the line of an Ok include carries the
\* number of the errors below it, each once however deep it lies, and no warning
\* when there is none.
THEOREM SummariesCountEachError == Spec => []ErrorsVisible
<1>1. ASSUME IInv, WInv, EInv PROVE ErrorsVisible
  <2> SUFFICES ASSUME phase = "done", NEW f \in FileIds, NEW r \in OkIncludes(f)
               PROVE  LET below == UNION {{<<g, d>> : d \in {x \in files[g].diags : x.sev = "Error"}} :
                                            g \in Subtree[r.target]}
                          warned == {d \in files[f].diags : d.why = "summary" /\ d.at = r.stmt}
                      IN {d.errors : d \in warned} = {Cardinality(below)} \ {0}
    BY DEF ErrorsVisible
  <2>1. r.target \in FileIds BY <1>1 DEF IInv, OkTree
  <2>2. Subtree[r.target] = Under(r.target) BY <1>1, <2>1, SubtreeIsUnder DEF WInv
  <2>3. {d.errors : d \in Warned(f, r)} = {Cardinality(Below(r.target))} \ {0}
    BY <1>1 DEF EInv, CountsBelow
  <2> QED BY <2>2, <2>3 DEF Warned, Below, Errs
<1>2. Spec => [](IInv /\ WInv /\ EInv)
  <2>1. Init => IInv /\ WInv /\ EInv BY InitIInv, InitWInv, InitEInv
  <2>2. IInv /\ WInv /\ EInv /\ [Next]_vars => IInv' /\ WInv' /\ EInv'
    BY NextKeeps, NextWInv, NextEInv
  <2> QED BY <2>1, <2>2, PTL DEF Spec
<1> QED BY <1>1, <1>2, PTL

-----------------------------------------------------------------------------
(* The unit is AbstractUnit's.                                             *)

\* An include with a path is on record once it is passed, with a status that
\* tells whether its file joined the unit.
Told(f, r) ==
    LET s == Text(files[f].key)[r.stmt]
    IN /\ r.stmt \in DOMAIN Text(files[f].key) /\ s.op = "include" /\ s.to # NoPath
       /\ r.status = "Unresolved" => s.to = Unresolved
       /\ r.status = "NotFound" => /\ s.to \in File \ {Root}
                                   /\ s.to \notin DOMAIN source \/ Len(files) = MaxFiles
       /\ r.status \notin {"Unresolved", "NotFound"} => s.to \in DOMAIN seen
OnRecord(f, i) == \E r \in files[f].includes : r.stmt = i
Filed(f) ==
    \A i \in DOMAIN Text(files[f].key) :
        LET s == Text(files[f].key)[i]
        IN s.op = "include" /\ s.to # NoPath /\ Passed(f, i) => OnRecord(f, i)
TInv ==
    /\ Root \in DOMAIN seen /\ DOMAIN seen \subseteq DOMAIN source \cup {Root}
    /\ \A f \in FileIds : \A r \in files[f].includes : Told(f, r)
    /\ \A f \in FileIds : Filed(f)

\* What a step must see to.
LEMMA ToldGrows ==
    ASSUME IInv, RInv', TInv, source' = source, FileIds \subseteq FileIds', Len(files') \in Nat,
           Len(files) <= Len(files'),
           DOMAIN seen \subseteq DOMAIN seen', DOMAIN seen' \subseteq DOMAIN seen \cup DOMAIN source,
           \A f \in FileIds : /\ files'[f].key = files[f].key
                              /\ files[f].includes \subseteq files'[f].includes,
           \A f \in FileIds : \A r \in files'[f].includes : r \in files[f].includes \/ Told(f, r)',
           \A f \in FileIds' : \/ f \in FileIds
                               \/ /\ files'[f].includes = {}
                                  /\ \A i \in DOMAIN Text(files'[f].key) : ~Passed(f, i)',
           \A f \in FileIds : \A i \in DOMAIN Text(files[f].key) :
               LET s == Text(files[f].key)[i]
               IN s.op = "include" /\ s.to # NoPath /\ Passed(f, i)' => Passed(f, i) \/ OnRecord(f, i)'
    PROVE  TInv'
<1>1. \A k : Text(k)' = Text(k) BY DEF Text
<1>2. Root \in DOMAIN seen' /\ DOMAIN seen' \subseteq DOMAIN source' \cup {Root} BY DEF TInv
<1>3. ASSUME NEW f \in FileIds, NEW r \in files[f].includes PROVE Told(f, r)'
  <2>1. PICK s, k : k = files[f].key /\ s = Text(k)[r.stmt] OBVIOUS
  <2>2. /\ r.stmt \in DOMAIN Text(k) /\ s.op = "include" /\ s.to # NoPath
        /\ r.status = "Unresolved" => s.to = Unresolved
        /\ r.status = "NotFound" => /\ s.to \in File \ {Root}
                                    /\ s.to \notin DOMAIN source \/ Len(files) = MaxFiles
        /\ r.status \notin {"Unresolved", "NotFound"} => s.to \in DOMAIN seen
    BY <1>3, <2>1 DEF TInv, Told
  <2>3. Len(files) = MaxFiles => Len(files') = MaxFiles BY MaxFilesAssumption DEF RInv
  <2>4. files'[f].key = k /\ Text(k)' = Text(k) /\ source' = source BY <1>1, <1>3, <2>1
  <2> QED BY <2>1, <2>2, <2>3, <2>4 DEF Told
<1>4. ASSUME NEW f \in FileIds' PROVE \A r \in files'[f].includes : Told(f, r)' BY <1>3, <1>4
<1>5. ASSUME NEW f \in FileIds' PROVE Filed(f)'
  <2>1. PICK k : k = files'[f].key OBVIOUS
  <2>2. SUFFICES ASSUME NEW i \in DOMAIN Text(k), NEW s, s = Text(k)[i], s.op = "include",
                        s.to # NoPath, Passed(f, i)'
                 PROVE  OnRecord(f, i)'
    BY <1>1, <2>1 DEF Filed, Text
  <2>3. f \in FileIds /\ files[f].key = k BY <1>5, <2>1, <2>2
  <2>4. Passed(f, i) \/ OnRecord(f, i)' BY <2>2, <2>3
  <2>5. ASSUME Passed(f, i) PROVE OnRecord(f, i) BY <2>2, <2>3, <2>5 DEF TInv, Filed
  <2>6. OnRecord(f, i) => OnRecord(f, i)' BY <2>3 DEF OnRecord
  <2> QED BY <2>4, <2>5, <2>6
<1> QED BY <1>2, <1>4, <1>5 DEF TInv

\* A statement that brings in no file.
LEMMA StepOverTold ==
    ASSUME IInv, RInv', TInv, Visit, SameFiles, stack' = Advanced, UNCHANGED <<source, seen>>,
           NEW g, g = Top.file, NEW j, j = Top.next,
           \A f \in FileIds : files[f].includes \subseteq files'[f].includes,
           \A f \in FileIds : \A r \in files'[f].includes : r \in files[f].includes \/ Told(f, r)',
           Current.op = "include" /\ Current.to # NoPath => OnRecord(g, j)'
    PROVE  TInv'
<1>1. FileIds' = FileIds /\ Len(files') = Len(files) /\ Len(files) \in Nat
  BY Ids, UnderSame DEF SameFiles
<1>2. \A f \in FileIds : files'[f].key = files[f].key BY DEF SameFiles
<1>3. ASSUME NEW f \in FileIds, NEW i \in DOMAIN Text(files[f].key), NEW s,
             s = Text(files[f].key)[i], s.op = "include", s.to # NoPath, Passed(f, i)'
      PROVE  Passed(f, i) \/ OnRecord(f, i)'
  <2>1. i \in Nat BY TextType, LenProperties DEF IInv
  <2>2. Passed(f, i) \/ (f = g /\ i = j) BY <1>3, <2>1, AdvancedIsPast DEF IInv, Passed
  <2>3. f = g /\ i = j => s = Current BY <1>3 DEF Current, Here
  <2> QED BY <1>3, <2>2, <2>3
<1> QED BY <1>1, <1>2, <1>3, ToldGrows

\* One that files a record.
LEMMA RecordTold ==
    ASSUME IInv, RInv', TInv, Visit, SameFiles, stack' = Advanced, UNCHANGED <<source, seen>>,
           NEW s \in Status \ {"Ok"}, NEW t \in Nat, NEW d \in SUBSET Diagnostic,
           files' = Recorded(s, t, d), Current.op = "include", Current.to # NoPath,
           s = "Unresolved" => Current.to = Unresolved,
           s = "NotFound" => /\ Current.to \in File \ {Root}
                             /\ Current.to \notin DOMAIN source \/ Len(files) = MaxFiles,
           s \notin {"Unresolved", "NotFound"} => Current.to \in DOMAIN seen
    PROVE  TInv'
<1>1. PICK g, j, r, c : /\ g = Top.file /\ j = Top.next /\ c = Current
                        /\ r = [stmt |-> j, status |-> s, target |-> t]
  OBVIOUS
<1>2. r.stmt = j /\ r.status = s BY <1>1
<1>3. Top \in Frame /\ s \in Status BY VisitFacts DEF IInv
<1>4. /\ g \in FileIds
      /\ \A f \in FileIds : files'[f].includes = files[f].includes \cup (IF f = g THEN {r} ELSE {})
  <2>1. g \in FileIds BY <1>1, <1>3 DEF Frame
  <2> QED BY <1>1, <1>3, <2>1, RecordedFacts DEF IInv
<1>5. PICK k : k = files[g].key OBVIOUS
<1>6. files'[g].key = k /\ Len(files') = Len(files) BY <1>4, <1>5 DEF SameFiles
<1>7. j \in DOMAIN Text(k) /\ Text(k)[j] = c
  <2>1. Here = Text(k) BY <1>1, <1>5 DEF Here
  <2>2. Here \in Seq(Stmt) BY <2>1, TextType DEF IInv
  <2>3. j \in 1 .. Len(Here) BY <1>1, <1>3, <2>2, LenProperties DEF Visit, Frame
  <2> QED BY <1>1, <2>1, <2>2, <2>3, LenProperties DEF Current
<1>8. Told(g, r)'
  <2>1. Text(k)' = Text(k) BY DEF Text
  <2>2. /\ c.op = "include" /\ c.to # NoPath
        /\ s = "Unresolved" => c.to = Unresolved
        /\ s = "NotFound" => c.to \in File \ {Root}
        /\ s = "NotFound" => c.to \notin DOMAIN source \/ Len(files) = MaxFiles
        /\ s \notin {"Unresolved", "NotFound"} => c.to \in DOMAIN seen
    BY <1>1
  <2> QED BY <1>2, <1>6, <1>7, <2>1, <2>2 DEF Told
<1>9. OnRecord(g, j)' BY <1>2, <1>4 DEF OnRecord
<1>10. /\ \A f \in FileIds : files[f].includes \subseteq files'[f].includes
       /\ \A f \in FileIds : \A q \in files'[f].includes : q \in files[f].includes \/ Told(f, q)'
  BY <1>4, <1>8
<1> QED BY <1>1, <1>9, <1>10, StepOverTold

\* The include that brings a file in.
LEMMA ExpandTold == ASSUME IInv, RInv', TInv, WInv, IncludeExpanded PROVE TInv'
<1>1. PICK k, n, g, j, r : /\ k = Current.to /\ n = Len(files) /\ g = Top.file /\ j = Top.next
                           /\ r = [stmt |-> j, status |-> "Ok", target |-> n + 1]
  OBVIOUS
<1>2. Grown(k, n) BY <1>1, IncludeExpandedGrows
<1>3. Visit /\ source' = source /\ Current.op = "include" /\ k \in DOMAIN source
  BY <1>1 DEF IncludeExpanded, NewInclude
<1>4. PICK R : Moves(R) BY <1>3, ExpandMoves DEF WInv
<1>5. /\ n \in Nat /\ Len(files') = n + 1 /\ FileIds = 1 .. n /\ FileIds' = 1 .. n + 1 /\ g \in FileIds
      /\ \A f \in FileIds :
            /\ files'[f].key = files[f].key
            /\ files'[f].includes = files[f].includes \cup (IF f = g THEN {r} ELSE {})
      /\ files'[n + 1].includes = {} /\ k \in File
      /\ DOMAIN seen' = DOMAIN seen \cup {k}
  BY <1>1, <1>2 DEF Grown
<1>6. r.stmt = j /\ r.status = "Ok" BY <1>1
<1>7. PICK key : key = files[g].key OBVIOUS
<1>8. j \in DOMAIN Text(key) /\ Text(key)[j] = Current
  <2>1. Here = Text(key) BY <1>1, <1>7 DEF Here
  <2>2. Here \in Seq(Stmt) BY <2>1, TextType DEF IInv
  <2>3. Top \in Frame BY <1>3, VisitFacts DEF IInv
  <2>4. j \in 1 .. Len(Here) BY <1>1, <1>3, <2>2, <2>3, LenProperties DEF Visit, Frame
  <2> QED BY <1>1, <2>1, <2>2, <2>4, LenProperties DEF Current
<1>9. Told(g, r)'
  <2>1. Text(key)' = Text(key) BY <1>3 DEF Text
  <2>2. PICK c : c = Current OBVIOUS
  <2>3. c.op = "include" /\ c.to = k /\ k # NoPath /\ k \in DOMAIN seen'
    BY <1>1, <1>3, <1>5, <2>2, FileAssumption
  <2>4. files'[g].key = key BY <1>5, <1>7
  <2> QED BY <1>6, <1>8, <2>1, <2>2, <2>3, <2>4 DEF Told
<1>10. OnRecord(g, j)' BY <1>5, <1>6 DEF OnRecord
<1>11. ASSUME NEW f \in FileIds' PROVE \/ f \in FileIds
                                       \/ /\ files'[f].includes = {}
                                          /\ \A i \in DOMAIN Text(files'[f].key) : ~Passed(f, i)'
  <2>1. f \in FileIds \/ f = n + 1 BY <1>5
  <2>2. f \notin FileIds => \A i \in DOMAIN Text(files'[f].key) : ~Passed(f, i)'
    BY <1>4 DEF Moves
  <2> QED BY <1>5, <2>1, <2>2
<1>12. ASSUME NEW f \in FileIds, NEW i \in DOMAIN Text(files[f].key), Passed(f, i)'
       PROVE  Passed(f, i) \/ OnRecord(f, i)'
  <2>1. Passed(f, i) \/ (f = g /\ i = j) BY <1>1, <1>4, <1>5, <1>12 DEF Moves
  <2> QED BY <1>10, <2>1
<1>13. /\ FileIds \subseteq FileIds' /\ Len(files') \in Nat /\ Len(files) <= Len(files')
       /\ DOMAIN seen \subseteq DOMAIN seen' /\ DOMAIN seen' \subseteq DOMAIN seen \cup DOMAIN source
  BY <1>1, <1>3, <1>5
<1>14. /\ \A f \in FileIds : /\ files'[f].key = files[f].key
                             /\ files[f].includes \subseteq files'[f].includes
       /\ \A f \in FileIds : \A q \in files'[f].includes : q \in files[f].includes \/ Told(f, q)'
  BY <1>5, <1>9
<1> QED BY <1>3, <1>11, <1>12, <1>13, <1>14, ToldGrows

\* The root alone has no records yet.
LEMMA InitTInv == Init => TInv
<1> SUFFICES ASSUME Init PROVE TInv OBVIOUS
<1>1. IInv BY InitIInv
<1>2. FileIds = {1} /\ files[1].includes = {} /\ DOMAIN seen = {Root}
  BY DEF Init, FileIds, NewFile
<1>3. ASSUME NEW i \in DOMAIN Text(files[1].key) PROVE ~Passed(1, i)
  <2>1. i \in Nat \ {0} BY <1>1, <1>3, TextType, LenProperties DEF IInv
  <2>2. 1 \in DOMAIN stack /\ stack[1].file = 1 /\ stack[1].next = 1 BY DEF Init
  <2> QED BY <2>1, <2>2 DEF Passed
<1>4. Filed(1) BY <1>3 DEF Filed
<1> QED BY <1>2, <1>4 DEF TInv

\* Every step keeps the records telling.
LEMMA NextTInv == ASSUME IInv, RInv, RInv', WInv, TInv, [Next]_vars PROVE TInv'
<1>0. /\ Visit => Current \in Stmt /\ Top \in Frame
      /\ DOMAIN seen \subseteq File /\ Len(files) \in Nat
  BY VisitFacts, LenProperties DEF IInv, TypeOK
<1>1. ASSUME Visit, SameFiles, SameIncludes, stack' = Advanced, UNCHANGED <<source, seen>>,
             ~(Current.op = "include" /\ Current.to # NoPath)
      PROVE  TInv'
  <2>1. PICK g, j : g = Top.file /\ j = Top.next OBVIOUS
  <2>2. /\ \A f \in FileIds : files[f].includes \subseteq files'[f].includes
        /\ \A f \in FileIds : \A r \in files'[f].includes : r \in files[f].includes \/ Told(f, r)'
    BY <1>1 DEF SameIncludes
  <2> QED BY <1>1, <2>1, <2>2, StepOverTold
<1>2. ASSUME SameFiles, SameIncludes, UNCHANGED <<source, seen>>,
             \A f \in FileIds : \A i \in DOMAIN Text(files[f].key) : Passed(f, i)' => Passed(f, i)
      PROVE  TInv'
  <2>1. FileIds' = FileIds /\ Len(files') = Len(files) BY <1>2, UnderSame DEF SameFiles
  <2>2. \A f \in FileIds : files'[f].key = files[f].key BY <1>2 DEF SameFiles
  <2>3. \A f \in FileIds : files'[f].includes = files[f].includes BY <1>2 DEF SameIncludes
  <2>4. source' = source /\ DOMAIN seen' = DOMAIN seen /\ Len(files') \in Nat /\ Len(files) <= Len(files')
    BY <1>0, <1>2, <2>1
  <2>5. \A f \in FileIds : \A i \in DOMAIN Text(files[f].key) :
            LET s == Text(files[f].key)[i]
            IN s.op = "include" /\ s.to # NoPath /\ Passed(f, i)' => Passed(f, i) \/ OnRecord(f, i)'
    BY <1>2
  <2> QED BY <2>1, <2>2, <2>3, <2>4, <2>5, ToldGrows
<1>3. CASE OtherStatement
  <2>1. ~(Current.op = "include" /\ Current.to # NoPath) BY <1>3 DEF OtherStatement
  <2> QED BY <1>1, <1>3, <2>1, OtherStatementSame DEF OtherStatement
<1>4. CASE EmbFile
  <2>1. ~(Current.op = "include" /\ Current.to # NoPath) BY <1>4 DEF EmbFile
  <2> QED BY <1>1, <1>4, <2>1, EmbFileSame DEF EmbFile
<1>5. CASE IncludeUnresolved
  <2>1. Visit /\ Top \in Frame BY <1>0, <1>5 DEF IncludeUnresolved
  <2>2. PICK d \in SUBSET Diagnostic : d = {Diag("Error", Top.next, "include")}
    BY <2>1, DiagType DEF Frame, Severity
  <2>3. "Unresolved" \in Status \ {"Ok"} /\ 0 \in Nat BY DEF Status
  <2>4. /\ files' = Recorded("Unresolved", 0, d) /\ stack' = Advanced /\ UNCHANGED <<source, seen>>
        /\ Current.op = "include" /\ Current.to = Unresolved /\ Current.to # NoPath
    BY <1>5, <2>2, FileAssumption DEF IncludeUnresolved
  <2> QED BY <1>5, <2>1, <2>3, <2>4, IncludeUnresolvedSame, RecordTold
<1>6. CASE IncludeRefused
  <2>1. Visit /\ Top \in Frame BY <1>0, <1>6 DEF IncludeRefused
  <2>2. PICK d \in SUBSET Diagnostic : d = {Diag("Error", Top.next, "include")}
    BY <2>1, DiagType DEF Frame, Severity
  <2>3. "NotFound" \in Status \ {"Ok"} /\ 0 \in Nat BY DEF Status
  <2>4. /\ files' = Recorded("NotFound", 0, d) /\ stack' = Advanced /\ UNCHANGED <<source, seen>>
        /\ Current.op = "include" /\ Current.to \in File \ {Root} /\ Current.to # NoPath
        /\ Current.to \notin DOMAIN source \/ Full
    BY <1>6, <2>2, FileAssumption DEF IncludeRefused, NewInclude, TInv
  <2>5. Full => Len(files) = MaxFiles BY <1>0, MaxFilesAssumption DEF Full, RInv
  <2> QED BY <1>6, <2>1, <2>3, <2>4, <2>5, IncludeRefusedSame, RecordTold
<1>7. CASE IncludeSeen
  <2>1. Visit /\ Top \in Frame BY <1>0, <1>7 DEF IncludeSeen
  <2>2. PICK d \in SUBSET Diagnostic : d = {Diag("Hint", Top.next, "include")}
    BY <2>1, DiagType DEF Frame, Severity
  <2>3. PICK t : t = seen[Current.to] OBVIOUS
  <2>4. t \in Nat BY <1>7, <2>3, Ids DEF IInv, TypeOK, IncludeSeen
  <2>5. PICK s \in Status \ {"Ok"} : s = RepeatStatus(t) /\ s \notin {"Unresolved", "NotFound"}
    BY DEF RepeatStatus, Status
  <2>6. /\ files' = Recorded(s, t, d) /\ stack' = Advanced /\ UNCHANGED <<source, seen>>
        /\ Current.op = "include" /\ Current.to \in DOMAIN seen
    BY <1>7, <2>2, <2>3, <2>5 DEF IncludeSeen
  <2>7. Current.to # NoPath BY <1>0, <2>6, FileAssumption
  <2> QED BY <1>7, <2>1, <2>4, <2>5, <2>6, <2>7, IncludeSeenSame, RecordTold
<1>8. CASE IncludeExpanded BY <1>8, ExpandTold
<1>9. CASE LeaveFile
  <2>1. SameFiles /\ SameIncludes BY <1>9, UnchangedSame DEF IInv, LeaveFile
  <2>2. \A f, i : Passed(f, i)' /\ i \in DOMAIN Text(files[f].key) => Passed(f, i)
    BY <1>9, LeavePassed DEF IInv
  <2>3. UNCHANGED <<source, seen>> BY <1>9 DEF LeaveFile
  <2> QED BY <1>2, <2>1, <2>2, <2>3
<1>10. ASSUME SameFiles, SameIncludes, UNCHANGED <<source, seen, stack>> PROVE TInv'
  <2>1. \A f, i : Passed(f, i)' <=> Passed(f, i) BY <1>10 DEF Passed
  <2>2. UNCHANGED <<source, seen>> BY <1>10
  <2> QED BY <1>2, <1>10, <2>1, <2>2
<1>11. CASE Analyse BY <1>10, <1>11, AnalyseSame DEF Analyse
<1>12. CASE AddSummaries BY <1>10, <1>12, AddSummariesSame DEF AddSummaries
<1>13. CASE Returned \/ UNCHANGED vars BY <1>10, <1>13, UnchangedSame DEF Returned, vars, IInv
<1> QED BY <1>3, <1>4, <1>5, <1>6, <1>7, <1>8, <1>9, <1>11, <1>12, <1>13 DEF Next

\* What AbstractUnit takes of a file: the paths it names, and none of a missing one.
LEMMA SourceFacts ==
    ASSUME TypeOK, NEW k \in File \cup {NoPath}
    PROVE  /\ Abstract!Held(Sources)[k].incs = (IF k = NoPath THEN {} ELSE Named(k))
           /\ Abstract!Held(Sources)[k].uses = {}
           /\ Sources[k] # NotThere <=> k \in DOMAIN source
           /\ Named(k) \subseteq File \cup {Unresolved}
<1>1. DOMAIN source \subseteq File BY DEF TypeOK
<1>2. Named(k) \subseteq File \cup {Unresolved}
  <2>1. Text(k) \in Seq(Stmt) BY TextType
  <2>2. \A x \in Range(Text(k)) : x \in Stmt
    <3>1. \A i \in DOMAIN Text(k) : Text(k)[i] \in Stmt BY <2>1, LenProperties, ElementOfSeq
    <3> QED BY <3>1 DEF Range
  <2> QED BY <2>2 DEF Named, Stmt
<1>3. k \notin DOMAIN source => Named(k) = {}
  <2>1. Range(<<>>) = {} BY DEF Range
  <2> QED BY <2>1 DEF Named, Text
<1>4. NoPath \notin Named(k) BY DEF Named
<1>5. Sources[k] = IF k \in DOMAIN source THEN [incs |-> Named(k), defs |-> {}, uses |-> {}] ELSE NotThere
  BY DEF Sources
<1>6. Sources[k] # NotThere <=> k \in DOMAIN source
  <2>1. [incs |-> Named(k), defs |-> {}, uses |-> {}].incs # NotThere.incs BY <1>4 DEF NotThere
  <2> QED BY <1>5, <2>1
<1>7. Abstract!Held(Sources)[k] =
          IF Sources[k] = NotThere THEN [incs |-> {}, defs |-> {}, uses |-> {}] ELSE Sources[k]
  BY DEF Abstract!Held, Abstract!Keys
<1>8. k = NoPath => k \notin DOMAIN source BY <1>1, FileAssumption
<1> QED BY <1>2, <1>3, <1>5, <1>6, <1>7, <1>8

\* A path stands for what it resolves to.
LEMMA TargetIs ==
    ASSUME NEW i \in File \cup {Unresolved}, NEW k \in File \cup {NoPath}
    PROVE  Abstract!Target(i, k, NoPath) = i
<1>1. [x \in (File \cup {Unresolved}) \X {NoPath} \X {NoPath} |-> x[1]][<<i, NoPath, NoPath>>] = i
  OBVIOUS
<1>2. [key \in File \cup {NoPath} |-> NoPath][k] = NoPath OBVIOUS
<1> QED BY <1>1, <1>2 DEF Abstract!Target

\* AbstractUnit's files are those that the root reaches.
LEMMA MembersAre == ASSUME TypeOK PROVE Abstract!Members(Root, Sources, NoPath) = Reachable
<1> DEFINE into == [k \in File \cup {NoPath} |->
                       {Abstract!Target(i, k, NoPath) : i \in Abstract!Held(Sources)[k].incs} \ {Unresolved}]
           closed == {S \in SUBSET (File \cup {NoPath}) : Root \in S /\ \A k \in S :
                         \A j \in into[k] : Sources[j] # NotThere => j \in S}
<1>1. Abstract!Members(Root, Sources, NoPath) = {k \in File \cup {NoPath} : \A S \in closed : k \in S}
  BY DEF Abstract!Members, Abstract!Keys
<1>2. DOMAIN source \subseteq File /\ Root \in File /\ NoPath \notin File BY FileAssumption DEF TypeOK
<1>3. ASSUME NEW k \in File \cup {NoPath}
      PROVE  into[k] = IF k = NoPath THEN {} ELSE Named(k) \ {Unresolved}
  <2>1. PICK I : I = Abstract!Held(Sources)[k].incs OBVIOUS
  <2>2. I = (IF k = NoPath THEN {} ELSE Named(k)) /\ I \subseteq File \cup {Unresolved}
    BY <2>1, SourceFacts
  <2>3. \A i \in I : Abstract!Target(i, k, NoPath) = i BY <2>2, TargetIs
  <2>4. into[k] = {Abstract!Target(i, k, NoPath) : i \in I} \ {Unresolved} BY <2>1
  <2> QED BY <2>2, <2>3, <2>4
<1>4. \A j \in File \cup {NoPath} : Sources[j] # NotThere <=> j \in DOMAIN source BY SourceFacts
<1>5. \A k \in File : Named(k) \subseteq File \cup {Unresolved} BY SourceFacts
<1> HIDE DEF into
<1>6. Reachable \in closed
  <2>1. Reachable \in SUBSET (File \cup {NoPath}) /\ Reachable \subseteq File BY DEF Reachable
  <2>2. ASSUME NEW k \in Reachable, NEW j \in into[k], Sources[j] # NotThere PROVE j \in Reachable
    <3>1. k \in File BY <2>1
    <3>2. j \in Named(k) /\ j \in File BY <1>2, <1>3, <1>5, <2>2, <3>1
    <3>3. j \in DOMAIN source BY <1>4, <2>2, <3>2
    <3>4. j \in IncludedBy(k) BY <3>2, <3>3 DEF IncludedBy
    <3> QED BY <3>2, <3>4, ReachableFacts
  <2> QED BY <2>1, <2>2, ReachableFacts
<1>7. ASSUME NEW S \in closed PROVE Reachable \subseteq S
  <2>1. ASSUME NEW k \in S \cap File, NEW j \in IncludedBy(k) PROVE j \in S \cap File
    <3>1. j \in Named(k) /\ j \in DOMAIN source /\ j \in File BY <1>2, <2>1 DEF IncludedBy
    <3>2. j # Unresolved BY <3>1, FileAssumption
    <3>3. j \in into[k] BY <1>2, <1>3, <2>1, <3>1, <3>2
    <3>4. Sources[j] # NotThere BY <1>4, <3>1
    <3> QED BY <1>7, <2>1, <3>1, <3>3, <3>4
  <2>2. ClosedUnit(S \cap File) BY <1>2, <1>7, <2>1 DEF ClosedUnit
  <2> QED BY <2>2, ReachableFacts
<1>8. Reachable \subseteq File BY DEF Reachable
<1> HIDE DEF closed
<1> QED BY <1>1, <1>6, <1>7, <1>8

\* AbstractUnit's unit, in the terms of the builder.
LEMMA AbstractUnitIs ==
    ASSUME TypeOK, NEW unit, unit = Abstract!Unit(Root, Sources, NoPath)
    PROVE  /\ DOMAIN unit.text = Reachable
           /\ \A k \in Reachable :
                 unit.diags[k] =
                    {<<"missing", x>> : x \in {x \in Named(k) : x = Unresolved \/ x \notin DOMAIN source \cup {Root}}}
<1>1. PICK M : M = Abstract!Members(Root, Sources, NoPath) OBVIOUS
<1>2. M = Reachable /\ M \subseteq File BY <1>1, MembersAre DEF Reachable
<1>3. PICK labels : labels = UNION {Abstract!Held(Sources)[k].defs : k \in M} OBVIOUS
<1>4. /\ DOMAIN unit.text = M
      /\ unit.diags = [k \in M |->
              {<<"undefined", n>> : n \in Abstract!Held(Sources)[k].uses \ labels}
              \cup {<<"missing", i>> : i \in {x \in Abstract!Held(Sources)[k].incs :
                                                  Abstract!Dead(x, k, Root, Sources, NoPath)}}]
  BY <1>1, <1>3 DEF Abstract!Unit
<1>5. ASSUME NEW k \in M
      PROVE  unit.diags[k] =
          {<<"missing", x>> : x \in {x \in Named(k) : x = Unresolved \/ x \notin DOMAIN source \cup {Root}}}
  <2>1. k \in File /\ k # NoPath BY <1>2, FileAssumption
  <2>2. /\ Abstract!Held(Sources)[k].incs = Named(k) /\ Abstract!Held(Sources)[k].uses = {}
        /\ Named(k) \subseteq File \cup {Unresolved}
    BY <2>1, SourceFacts
  <2>3. ASSUME NEW x \in Named(k)
        PROVE  Abstract!Dead(x, k, Root, Sources, NoPath)
                   <=> x = Unresolved \/ x \notin DOMAIN source \cup {Root}
    <3>1. x \in File \cup {Unresolved} BY <2>2
    <3>2. Abstract!Target(x, k, NoPath) = x BY <2>1, <3>1, TargetIs
    <3>3. x \in File => (Sources[x] = NotThere <=> x \notin DOMAIN source) BY SourceFacts
    <3> QED BY <3>1, <3>2, <3>3 DEF Abstract!Dead
  <2>4. unit.diags[k] = {<<"undefined", n>> : n \in {} \ labels}
              \cup {<<"missing", i>> : i \in {x \in Named(k) : Abstract!Dead(x, k, Root, Sources, NoPath)}}
    BY <1>4, <2>2
  <2>5. {x \in Named(k) : Abstract!Dead(x, k, Root, Sources, NoPath)}
            = {x \in Named(k) : x = Unresolved \/ x \notin DOMAIN source \cup {Root}}
    BY <2>3
  <2> QED BY <2>4, <2>5
<1> QED BY <1>2, <1>4, <1>5

\* What the records of a finished file say of its includes.
LEMMA FailedAre ==
    ASSUME IInv, RInv, TInv, phase = "done", NEW f \in FileIds, NEW k, k = files[f].key,
           Len(files) < MaxFiles \/ LeftOut(f) = {}
    PROVE  /\ IncludedBy(k) \subseteq DOMAIN seen
           /\ {Text(k)[r.stmt].to : r \in Failed(f)}
                  = {x \in Named(k) : x = Unresolved \/ x \notin DOMAIN source \cup {Root}}
<1>1. DOMAIN source \subseteq File BY DEF IInv, TypeOK
<1>2. Len(files) \in Nat /\ MaxFiles \in Nat BY Ids, MaxFilesAssumption
<1>3. ASSUME NEW r \in files[f].includes, NEW x, x = Text(k)[r.stmt].to
      PROVE  /\ x \in Named(k) /\ (r \in Failed(f) => x = Unresolved \/ x \notin DOMAIN source \cup {Root})
             /\ r \notin Failed(f) => x \in DOMAIN seen
  <2>1. PICK s : s = Text(k)[r.stmt] OBVIOUS
  <2>2. /\ r.stmt \in DOMAIN Text(k) /\ s.op = "include" /\ s.to = x /\ x # NoPath
        /\ r.status = "Unresolved" => x = Unresolved
        /\ r.status = "NotFound" => x \in File \ {Root} /\ (x \notin DOMAIN source \/ Len(files) = MaxFiles)
        /\ r.status \notin {"Unresolved", "NotFound"} => x \in DOMAIN seen
    BY <1>3, <2>1 DEF TInv, Told
  <2>3. x \in Named(k)
    <3>1. s \in Range(Text(k)) BY <2>1, <2>2 DEF Range
    <3> QED BY <2>2, <3>1 DEF Named
  <2>4. r \in Failed(f) /\ x \in DOMAIN source => r \in LeftOut(f) BY <1>3 DEF LeftOut
  <2>5. r.status = "NotFound" => x \notin DOMAIN source
    BY <1>2, <1>3, <2>2, <2>4 DEF Failed
  <2> QED BY <1>3, <2>2, <2>3, <2>5 DEF Failed
<1>4. ASSUME NEW x \in Named(k)
      PROVE  \E r \in files[f].includes : Text(k)[r.stmt].to = x
  <2>1. PICK i \in DOMAIN Text(k) : Text(k)[i].op = "include" /\ Text(k)[i].to = x /\ x # NoPath
    BY DEF Named, Range
  <2>2. Passed(f, i) BY DEF RInv, Passed
  <2>3. OnRecord(f, i) BY <2>1, <2>2 DEF TInv, Filed
  <2> QED BY <2>1, <2>3 DEF OnRecord
<1>5. ASSUME NEW x \in IncludedBy(k) PROVE x \in DOMAIN seen
  <2>1. x \in Named(k) /\ x \in DOMAIN source /\ x # Unresolved
    BY <1>1, FileAssumption DEF IncludedBy
  <2>2. PICK r \in files[f].includes : Text(k)[r.stmt].to = x BY <1>4, <2>1
  <2> QED BY <1>3, <2>1, <2>2
<1>6. ASSUME NEW x \in Named(k), x = Unresolved \/ x \notin DOMAIN source \cup {Root}
      PROVE  \E r \in Failed(f) : Text(k)[r.stmt].to = x
  <2>1. PICK r \in files[f].includes : Text(k)[r.stmt].to = x BY <1>4
  <2>2. x \notin DOMAIN seen
    <3>1. Unresolved \notin DOMAIN source \cup {Root} BY <1>1, FileAssumption
    <3> QED BY <1>6, <3>1 DEF TInv
  <2> QED BY <1>3, <2>1, <2>2
<1>7. Failed(f) \subseteq files[f].includes BY DEF Failed
<1> QED BY <1>3, <1>5, <1>6, <1>7

\* UnitIsAbstract: what Workspace takes for the unit of a root, the least closed set
\* of files with the includes that lead nowhere, is what the walk builds.
THEOREM UnitsAreAbstract == Spec => []UnitIsAbstract
<1>1. ASSUME IInv, RInv, TInv PROVE UnitIsAbstract
  <2>1. PICK unit, keys : /\ unit = Abstract!Unit(Root, Sources, NoPath)
                          /\ keys = {files[f].key : f \in FileIds}
    OBVIOUS
  <2>2. SUFFICES ASSUME phase = "done", Len(files) < MaxFiles \/ \A f \in FileIds : LeftOut(f) = {}
                 PROVE  /\ DOMAIN unit.text = keys
                        /\ \A f \in FileIds :
                              unit.diags[files[f].key] =
                                 {<<"missing", Text(files[f].key)[r.stmt].to>> : r \in Failed(f)}
    BY <2>1 DEF UnitIsAbstract
  <2>3. keys = DOMAIN seen /\ keys \subseteq File
    <3>1. \A f \in FileIds : files[f] \in SourceFile
      BY <1>1, LenProperties, ElementOfSeq DEF IInv, TypeOK, FileIds
    <3> QED BY <1>1, <2>1, <3>1 DEF IInv, IncludeOnce, SourceFile
  <2>4. \A f \in FileIds :
            /\ IncludedBy(files[f].key) \subseteq DOMAIN seen
            /\ {Text(files[f].key)[r.stmt].to : r \in Failed(f)}
                   = {x \in Named(files[f].key) : x = Unresolved \/ x \notin DOMAIN source \cup {Root}}
    BY <1>1, <2>2, FailedAre
  <2>5. keys = Reachable
    <3>1. keys \subseteq Reachable BY <1>1, <2>1 DEF RInv
    <3>2. ClosedUnit(keys) BY <1>1, <2>1, <2>3, <2>4 DEF ClosedUnit, TInv
    <3> QED BY <2>3, <3>1, <3>2, ReachableFacts
  <2>6. /\ DOMAIN unit.text = Reachable
        /\ \A k \in Reachable :
              unit.diags[k] =
                 {<<"missing", x>> : x \in {x \in Named(k) : x = Unresolved \/ x \notin DOMAIN source \cup {Root}}}
    BY <1>1, <2>1, AbstractUnitIs DEF IInv
  <2>7. ASSUME NEW f \in FileIds, NEW k, k = files[f].key
        PROVE  unit.diags[k] = {<<"missing", Text(k)[r.stmt].to>> : r \in Failed(f)}
    <3>1. k \in Reachable BY <2>1, <2>5, <2>7
    <3>2. PICK F, D : /\ F = {Text(k)[r.stmt].to : r \in Failed(f)}
                      /\ D = {x \in Named(k) : x = Unresolved \/ x \notin DOMAIN source \cup {Root}}
      OBVIOUS
    <3>3. F = D BY <2>4, <2>7, <3>2
    <3>4. unit.diags[k] = {<<"missing", x>> : x \in D} BY <2>6, <3>1, <3>2
    <3>5. {<<"missing", Text(k)[r.stmt].to>> : r \in Failed(f)} = {<<"missing", x>> : x \in F}
      BY <3>2
    <3> QED BY <3>3, <3>4, <3>5
  <2> QED BY <2>5, <2>6, <2>7
<1>2. Spec => [](IInv /\ RInv /\ WInv /\ TInv)
  <2>1. Init => IInv /\ RInv /\ WInv /\ TInv BY InitIInv, InitRInv, InitWInv, InitTInv
  <2>2. IInv /\ RInv /\ WInv /\ TInv /\ [Next]_vars => IInv' /\ RInv' /\ WInv' /\ TInv'
    BY NextKeeps, NextRInv, NextWInv, NextTInv
  <2> QED BY <2>1, <2>2, PTL DEF Spec
<1> QED BY <1>1, <1>2, PTL

===============================================================================
