---------------------------- MODULE MCUnitBuilder ----------------------------
(* Small programs for UnitBuilder. *)
EXTENDS UnitBuilder, TLC

CONSTANTS A, B, C, D  \* four files; A is the root, C is not a source file by name

MCFile == {A, B, C, D}
MCSourceExt == {A, B, D}
Three == {A, B, C}

Plain == {[op |-> o] : o \in {"plain"}}
Faulty == {[op |-> o] : o \in {"syntax", "semantic"}}
Include(k) == [op |-> "include", to |-> k]
Includes == {Include(k) : k \in Three}
Odd == {[op |-> "include", to |-> k] : k \in {NoPath, Unresolved}}
Embeds == {[op |-> "emb", to |-> t, alt |-> x, known |-> b] :
              t \in {B, C, NoBase}, x \in {C, Unresolved}, b \in BOOLEAN}

Texts(S, n) == UNION {[1 .. m -> S] : m \in 0 .. n}
Disks(S, n) == UNION {[on -> Texts(S, n)] : on \in SUBSET Three}

\* Crossing, repeated and circular includes, each file's faults.
ExpansionPrograms ==
    {p \in Disks(Includes \cup {[op |-> "plain"]}, 2) : A \in DOMAIN p}
    \cup {p \in [Three -> Texts(Includes \cup {[op |-> "semantic"]}, 2)] :
              p[A] \in [1 .. 2 -> Includes \ {Include(A)}]}

\* Every kind of statement, shorter files, disks without the root.
MixedPrograms ==
    {p \in Disks(Includes \cup Odd \cup Faulty \cup Embeds, 1) :
        A \in DOMAIN p => p[A] # <<>>}
    \cup {(A :> <<Include(B), s, Include(C)>>)
             @@ (B :> <<t>>) @@ (C :> <<u>>) :
             s \in Includes \cup Odd \cup Faulty, t \in Includes \cup Odd \cup Faulty \cup Embeds,
             u \in Faulty \cup Embeds}

\* Four files, one more than the limit.
LimitPrograms ==
    {(A :> a) @@ others : a \in [1 .. 3 -> {Include(k) : k \in MCFile \ {A}}],
                          others \in [MCFile \ {A} -> Texts({Include(k) : k \in MCFile}, 1)]}

MCPrograms == ExpansionPrograms \cup MixedPrograms \cup LimitPrograms

=============================================================================
