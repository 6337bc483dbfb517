------------------------------- MODULE Includes -------------------------------
(***************************************************************************)
(* What the paths of a document designate: the includes it writes, its URI *)
(* and the project around it, over the files of SourceProvider.            *)
(***************************************************************************)
EXTENDS SourceProvider

CONSTANTS Cases,  \* what to look at: the path of a document, normalised and
                  \* absolute; the path an include in it writes; the virtual
                  \* folders, a directory for each letter; the files' texts
          Active  \* bound: the documents around which files change

ASSUME CasesAssumption ==
    \A c \in Cases :
        /\ c.document \in Seq(STRING) /\ IsAbsolute(c.document) /\ Normalize(c.document) = c.document
        /\ c.raw \in Seq(STRING)
        /\ \A letter \in DOMAIN c.config : c.config[letter] \in Seq(STRING)

VARIABLES document, raw, config

includeVars == <<document, raw, config>>

IncludesInit ==
    \E c \in Cases :
        /\ InitWith(c.texts)
        /\ document = c.document /\ raw = c.raw /\ config = c.config

IncludesNext ==
    /\ document \in Active /\ raw = Nowhere
    /\ Next
    /\ UNCHANGED includeVars

IncludesSpec == IncludesInit /\ [][IncludesNext]_<<vars, includeVars>>

-----------------------------------------------------------------------------

\* The segments of a path, wherever they stand, and the names among them that
\* no later ".." takes back: the ".." that follow a name never come to
\* outnumber the names that follow it.
SegmentsAt(p) ==
    {s \in (1 .. Len(p)) \X (1 .. Len(p)) :
        /\ s[1] <= s[2]
        /\ \A k \in s[1] .. s[2] : ~IsSep(p[k])
        /\ s[1] = 1 \/ IsSep(p[s[1] - 1])
        /\ s[2] = Len(p) \/ IsSep(p[s[2] + 1])}
Text(p, s) == SubSeq(p, s[1], s[2])
NamesAt(p) == {s \in SegmentsAt(p) : Text(p, s) \notin {<<".">>, Up}}
UpsAt(p) == {s \in SegmentsAt(p) : Text(p, s) = Up}
KeptAt(p) ==
    {s \in NamesAt(p) : \A last \in SegmentsAt(p) :
        LET between(S) == {t \in S : s[1] < t[1] /\ t[1] <= last[1]}
        IN Cardinality(between(UpsAt(p))) <= Cardinality(between(NamesAt(p)))}
Kept(p) ==
    LET at == KeptAt(p)
        Nth(i) == CHOOSE s \in at : Cardinality({t \in at : t[1] <= s[1]}) = i
    IN [i \in 1 .. Cardinality(at) |-> Text(p, Nth(i))]

\* Where an absolute path starts, a drive in lower case, and what follows.
RootOf(p) ==
    CASE IsSep(p[1]) /\ Len(p) > 1 /\ IsSep(p[2]) -> Unc
      [] IsDriveAt(p) -> <<Lower(p[1]), ":", "/">>
      [] OTHER -> <<"/">>
Below(p) == SubSeq(p, Len(RootOf(p)) + 1, Len(p))

\* The path that the author of the include walks, from where it stands.  It is
\* relative below a virtual folder whose setting is, and then leads nowhere.
Walked ==
    CASE IsVirtual(raw, config) -> config[Lower(raw[2])] \o <<"/">> \o SubSeq(raw, 4, Len(raw))
      [] IsAbsolute(raw) /\ ~IsVirtual(raw, config) -> raw
      [] OTHER -> Dirname(document) \o <<"/">> \o raw
\* In a file of the root directory join makes a UNC path out of "/" and a name.
InRoot == Dirname(document) = <<"/">> /\ ~IsAbsolute(raw)

Target == Resolve(raw, Dirname(document), config)

\* An include leads to the file its author walks to: from the including file's
\* folder, the virtual folder or the root, name by name, ".." undoing the last
\* name and stopping at the root; its path is the one normal spelling of that
\* place, which include-once and every cache take for the file's identity.
LandsWhereItWalks ==
    Target.error = "None" /\ IsAbsolute(Walked) /\ ~InRoot =>
        LET names == Kept(Below(Walked))
        IN Target.path = RootOf(Walked) \o Slashes(names)

\* Paths that no URI names: a folder of a POSIX root that looks like a drive,
\* and a UNC path without a host of its own.
LooksLikeDrive(p) == p[1] = "/" /\ IsDriveAt(Tail(p))
NoHost(p) == p = Unc \/ p = Unc \o Localhost \/ IsPrefix(Unc \o Localhost \o <<"/">>, p)

\* The URI that diagnostics and links give for a file leads back to the very
\* path: an editor that opens what the server named opens the same document,
\* on every platform, and its key is that of the include.
UriRoundTrip ==
    /\ Target.error = "None" /\ IsAbsolute(Walked)
    /\ ~LooksLikeDrive(Target.path) /\ ~NoHost(Target.path)
    => UriToPath(PathToUri(Target.path)) = Target.path

-----------------------------------------------------------------------------

\* The folders that hold the document, by how many names lead to them from its
\* root.
Folder(k) == RootOf(document) \o Slashes(SubSeq(Segments(Below(document)), 1, k))
Level == Len(Segments(Below(document))) - 1
MarkedLevels == {k \in 0 .. Level : Exists(Folder(k) \o <<"/", ProjectFile>>)}

\* A document belongs to the main file of the innermost folder around it that
\* has a project file, if that folder is within the depth limit and has a main
\* file; a folder further out never takes over.
InnermostProject ==
    Below(document) # <<>> =>
    FindProjectMain(document) =
        IF MarkedLevels = {} THEN Nowhere
        ELSE LET k == CHOOSE k \in MarkedLevels : \A l \in MarkedLevels : l <= k
                 main == Folder(k) \o <<"/", MainFile>>
             IN IF Level - k < MaxDepth /\ Exists(main) THEN main ELSE Nowhere

=============================================================================
