-------------------------------- MODULE Path --------------------------------
(****************************************************************************)
(* File paths and file:// URIs (fs/Path.cpp).  A text is the sequence of    *)
(* the characters that the code tells apart; any run of others is one word, *)
(* such as "x.asm", so that "." and "/" are themselves and a name is what   *)
(* stands between separators.                                               *)
(****************************************************************************)
EXTENDS Naturals, SequencesExt

CONSTANTS LowerCase,   \* the lower case of each letter: a function
          Reserved     \* characters that a URI encodes as %XX

IsSep(c) == c \in {"/", "\\"}

ASSUME LowerCaseAssumption ==
    \A c \in DOMAIN LowerCase :
        /\ c \in STRING /\ ~IsSep(c)
        /\ LowerCase[c] \in DOMAIN LowerCase /\ LowerCase[LowerCase[c]] = LowerCase[c]

Lower(c) == IF c \in DOMAIN LowerCase THEN LowerCase[c] ELSE c
IsDriveAt(p) == Len(p) >= 2 /\ p[1] \in DOMAIN LowerCase /\ p[2] = ":"

Nowhere == <<>>
Up == <<".", ".">>
Unc == <<"/", "/">>
Localhost == <<"localhost">>

-----------------------------------------------------------------------------

\* normalize, its prefix: what an already slashed path is anchored to.  The
\* prefix stands for as many characters of the path as it has itself.
Anchor(p) ==
    CASE IsPrefix(Unc, p) -> Unc
      [] IsDriveAt(p) -> <<Lower(p[1]), ":">> \o (IF Len(p) > 2 /\ p[3] = "/" THEN <<"/">> ELSE <<>>)
      [] ~IsPrefix(Unc, p) /\ IsPrefix(<<"/">>, p) -> <<"/">>
      [] OTHER -> <<>>
Anchored(anchor) == anchor # <<>> /\ Last(anchor) = "/"

Slashed(in) == [i \in DOMAIN in |-> IF in[i] = "\\" THEN "/" ELSE in[i]]

\* The segments between slashes, empty ones included.
Segments(p) ==
    LET Grow(segs, c) == IF c = "/" THEN Append(segs, <<>>)
                         ELSE [segs EXCEPT ![Len(segs)] = Append(@, c)]
    IN FoldLeft(Grow, << <<>> >>, p)

\* One turn of normalize's loop: ".." takes the last name away, is kept in
\* front of a relative path and lost at a root.  StepOut keeps it there too.
StepOut(absolute, parts, seg) ==
    CASE seg \in {<<>>, <<".">>} -> parts
      [] seg = Up /\ parts # <<>> /\ Last(parts) # Up -> Front(parts)
      [] OTHER -> Append(parts, seg)
Step(absolute, parts, seg) ==
    CASE seg \in {<<>>, <<".">>} -> parts
      [] seg = Up /\ parts # <<>> /\ Last(parts) # Up -> Front(parts)
      [] seg = Up /\ parts = <<>> /\ absolute -> parts
      [] OTHER -> Append(parts, seg)

Slashes(parts) ==
    FoldLeft(LAMBDA out, seg : IF out = <<>> THEN seg ELSE out \o <<"/">> \o seg, <<>>, parts)

OrHere(out) == IF out = <<>> THEN <<".">> ELSE out
Rejoined(p, anchor) ==
    anchor \o Slashes(FoldLeft(LAMBDA parts, seg : Step(Anchored(anchor), parts, seg), <<>>,
                               Segments(SubSeq(p, Len(anchor) + 1, Len(p)))))
Normalize(in) == OrHere(Rejoined(Slashed(in), Anchor(Slashed(in))))

IsAbsolute(p) ==
    \/ p # <<>> /\ IsSep(p[1])
    \/ Len(p) > 2 /\ IsDriveAt(p) /\ IsSep(p[3])

\* The slash that ends the anchor stays, any other goes with the name.
Before(p, slash) ==
    CASE slash = 0 -> IF IsDriveAt(p) THEN SubSeq(p, 1, 2) ELSE <<>>
      [] slash \in 1 .. Len(Anchor(p)) -> SubSeq(p, 1, slash)
      [] OTHER -> SubSeq(p, 1, slash - 1)
Dirname(path) ==
    LET Parent(p) == Before(p, SelectLastInSeq(p, LAMBDA c : c = "/"))
    IN Parent(Normalize(path))

Join(dir, rel) == IF dir = <<>> THEN Normalize(rel) ELSE Normalize(dir \o <<"/">> \o rel)

-----------------------------------------------------------------------------

\* A URI travels as its authority and its path, each character of the path
\* plain or as %XX.
Encoded(c, pct) == [c |-> c, pct |-> pct]
Decode(chars) == [i \in DOMAIN chars |-> chars[i].c]

\* uriToPath of a file URI.  (Other schemes have no path: Workspace.)
UriToPathKeepSlash(uri) ==
    IF uri.authority \notin {<<>>, Localhost}
    THEN Normalize(Unc \o uri.authority \o Decode(uri.path))
    ELSE Normalize(Decode(uri.path))
UriToPath(uri) ==
    LET path == Decode(uri.path)
        isDrive == IsPrefix(<<"/">>, path) /\ IsDriveAt(Tail(path))
    IN CASE uri.authority \notin {<<>>, Localhost} -> Normalize(Unc \o uri.authority \o path)
         [] uri.authority \in {<<>>, Localhost} /\ isDrive -> Normalize(Tail(path))
         [] OTHER -> Normalize(path)

Uri(authority, path) ==
    [authority |-> authority,
     path |-> [i \in DOMAIN path |-> Encoded(path[i], path[i] \in Reserved)]]
PathToUri(path) ==
    LET OnHost(host, slash) == IF slash = 0 THEN Uri(host, <<"/">>)
                               ELSE Uri(SubSeq(host, 1, slash - 1), SubSeq(host, slash, Len(host)))
        Shared(host) == OnHost(host, SelectInSeq(host, LAMBDA c : c = "/"))
        Of(p) == CASE IsPrefix(Unc, p) -> Shared(SubSeq(p, 3, Len(p)))
                   [] p[1] # "/" -> Uri(<<>>, <<"/">> \o p)
                   [] OTHER -> Uri(<<>>, p)
    IN Of(Normalize(path))

-----------------------------------------------------------------------------

\* resolveIncludePath.  A virtual folder is @ and a letter of cfg; Nowhere as
\* its directory says that it is not configured, as for the code's strings.
Unresolved(error) == [path |-> Nowhere, error |-> error]
Resolved(path) == [path |-> path, error |-> "None"]
IsVirtual(raw, cfg) ==
    Len(raw) >= 3 /\ raw[1] = "@" /\ IsSep(raw[3]) /\ Lower(raw[2]) \in DOMAIN cfg
Resolve(raw, base, cfg) ==
    CASE raw = <<>> -> Unresolved("EmptyPath")
      [] IsVirtual(raw, cfg) ->
            IF cfg[Lower(raw[2])] = Nowhere THEN Unresolved("FolderUnset")
            ELSE Resolved(Join(cfg[Lower(raw[2])], SubSeq(raw, 4, Len(raw))))
      [] IsAbsolute(raw) /\ ~IsVirtual(raw, cfg) -> Resolved(Normalize(raw))
      [] OTHER -> IF base = Nowhere THEN Unresolved("RelativeWithoutBase")
                  ELSE Resolved(Join(base, raw))

=============================================================================
