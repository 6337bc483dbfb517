----------------------------- MODULE MCWorkspace -----------------------------
(* Small workspaces. *)
EXTENDS Workspace, TLC

CONSTANTS U1, U2, U3,        \* URIs
          K1, K2, K3, K4  \* file keys

T(i, d, u) == [incs |-> i, defs |-> d, uses |-> u]
MCEmptyText == T({}, {}, {})

\* One project folder: K1 = main.asm, K2 = a library next to it,
\* K3 = project.mnemonimov; U1 and U2 are the URIs of K1 and K2.
ProjectUri == {U1, U2}
ProjectKey == {K1, K2, K3}
ProjectKeyOf == (U1 :> K1) @@ (U2 :> K2)
ProjectDir == {"p"}
ProjectDirOf == [k \in ProjectKey \cup {NoKey} |-> IF k = NoKey THEN NoDir ELSE "p"]
ProjectChain == ("p" :> <<"p">>) @@ (NoDir :> <<>>)
ProjectMarkerOf == ("p" :> K3)
ProjectMainOf == ("p" :> K1)
ProjectTextsOf == (K1 :> {T({"lib"}, {"x"}, {}), MCEmptyText})
                  @@ (K2 :> {T({}, {}, {"x"}), MCEmptyText}) @@ (K3 :> {MCEmptyText})
ProjectText == {T({"lib"}, {"x"}, {}), T({}, {}, {"x"}), MCEmptyText}
OneConfig == {"none"}
ProjectResolve == [i \in {"lib"}, d \in {"p", NoDir}, c \in OneConfig |->
                      IF d = NoDir THEN Unresolved ELSE K2]

\* Virtual folder and unsaved document: K2 is a file and K3 = U3 a document
\* without a path; both may include "lib", which is K1 under configuration
\* "set" and cannot be resolved under "unset".  K4 never exists.
VirtualUri == {U1, U2, U3}
VirtualFileUri == {U1, U2}
VirtualKey == {K1, K2, K3, K4}
VirtualKeyOf == (U1 :> K1) @@ (U2 :> K2) @@ (U3 :> K3)
VirtualDirOf == [k \in VirtualKey \cup {NoKey} |-> IF k \in {K3, NoKey} THEN NoDir ELSE "p"]
VirtualMarkerOf == ("p" :> K4)
VirtualTextsOf == (K1 :> {T({}, {"x"}, {})}) @@ (K2 :> {T({"lib"}, {}, {"x"})})
                  @@ (K3 :> {T({"lib"}, {}, {"x"}), MCEmptyText}) @@ (K4 :> {})
VirtualText == {T({}, {"x"}, {}), T({"lib"}, {}, {"x"}), MCEmptyText}
TwoConfigs == {"unset", "set"}
VirtualResolve == [i \in {"lib"}, d \in {"p", NoDir}, c \in TwoConfigs |->
                      IF c = "set" THEN K1 ELSE Unresolved]

\* Two spellings of one path: U1 and U2 name K1.
AliasKey == {K1, K4}
AliasKeyOf == (U1 :> K1) @@ (U2 :> K1)
AliasDirOf == [k \in AliasKey \cup {NoKey} |-> IF k = NoKey THEN NoDir ELSE "p"]
AliasTextsOf == (K1 :> {MCEmptyText}) @@ (K4 :> {})
AliasText == {MCEmptyText}
AliasResolve == [i \in {"lib"}, d \in {"p", NoDir}, c \in OneConfig |-> Unresolved]

=============================================================================
