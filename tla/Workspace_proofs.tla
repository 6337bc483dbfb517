--------------------------- MODULE Workspace_proofs ---------------------------
(***************************************************************************)
(* Proofs about Workspace, for every set of files, directories, texts and  *)
(* configurations, and every bound on the disk events on their way: the    *)
(* safety invariants of the runs `project` and `virtual`.                  *)
(*                                                                         *)
(* Two hypotheses are stated by name.  OneSpelling: no two URIs name one   *)
(* file; the run `alias` shows lookup throwing without it.  Shallow, for   *)
(* FreshUnlessBlind only: no directory is deeper than MAX_PROJECT_DEPTH,   *)
(* for a lookup that gives up early caches its failure for all of the      *)
(* directories it passed, some of which a fresh lookup would get past.     *)
(*                                                                         *)
(* The argument: what one reconcile leaves behind is computed first        *)
(* (Outcome, Announced), whatever the iteration order of m_open.  IInv     *)
(* says of the units where their texts came from (UnitsBuilt) and of the   *)
(* project cache that it is right while nothing came or went unnoticed     *)
(* (CacheRight); ClientInv says what the client will show once it has      *)
(* taken what is queued.  Every action preserves both.                     *)
(***************************************************************************)
EXTENDS Workspace, NaturalsLemmas, SequenceTheorems, FiniteSetTheorems, TLAPS

Content == Text \cup {Missing}
Readings == [Keys -> Content]

\* What a file holds is a text.
LEMMA HeldType == ASSUME NEW src \in Readings PROVE Held(src) \in [Keys -> Text]
BY TextAssumption DEF Held, Readings, Content

\* Where an include leads.
LEMMA TargetType ==
    ASSUME NEW k \in Keys, NEW cfg \in Config, NEW t \in Text, NEW i \in t.incs
    PROVE  Target(i, k, cfg) \in Key \cup {Unresolved}
<1>1. Resolve[<<i, DirOf[k], cfg>>] \in Key \cup {Unresolved}
    BY ResolveAssumption, Zenon
<1> QED BY <1>1 DEF Target

\* A set of files that contains the existing files its includes name.
Closed(S, src, cfg) ==
    \A k \in S : \A i \in Held(src)[k].incs :
        LET j == Target(i, k, cfg)
        IN j # Unresolved /\ src[j] # Missing => j \in S

\* Members is the least such set around the root; all of it but the root exists.
LEMMA MembersFacts ==
    ASSUME NEW src \in Readings, NEW cfg \in Config, NEW r \in Keys
    PROVE  LET M == Members(r, src, cfg)
           IN /\ r \in M /\ M \subseteq Keys
              /\ \A k \in M \ {r} : src[k] # Missing
              /\ Closed(M, src, cfg)
              /\ \A S \in SUBSET Keys : r \in S /\ Closed(S, src, cfg) => M \subseteq S
<1> DEFINE text == Held(src)
           into == [k \in Keys |-> {Target(i, k, cfg) : i \in text[k].incs} \ {Unresolved}]
           closed == {S \in SUBSET Keys : r \in S /\ \A k \in S :
                      \A j \in into[k] : src[j] # Missing => j \in S}
           M == {k \in Keys : \A S \in closed : k \in S}
<1>1. M = Members(r, src, cfg)
    BY DEF Members
<1>2. \A S \in SUBSET Keys : S \in closed <=> r \in S /\ Closed(S, src, cfg)
    BY DEF Closed
<1>3. \A k \in Keys : \A j \in into[k] : j \in Keys
    BY HeldType, TargetType DEF Keys
<1>4. {k \in Keys : k = r \/ src[k] # Missing} \in closed
    BY <1>3
<1>5. r \in M /\ M \in SUBSET Keys /\ \A k \in M \ {r} : src[k] # Missing
    BY <1>4
<1>6. M \in closed
    BY <1>3, <1>5
<1>7. \A S \in closed : M \subseteq S
    OBVIOUS
<1> HIDE DEF closed, M
<1> QED BY <1>1, <1>2, <1>5, <1>6, <1>7

\* A unit holds the texts of its members, and diagnostics for the same files.
LEMMA UnitFacts ==
    ASSUME NEW src \in Readings, NEW cfg \in Config, NEW r \in Keys
    PROVE  LET unit == Unit(r, src, cfg)
           IN /\ DOMAIN unit.text = Members(r, src, cfg)
              /\ DOMAIN unit.diags = Members(r, src, cfg)
              /\ r \in DOMAIN unit.text /\ DOMAIN unit.text \subseteq Keys
              /\ \A k \in DOMAIN unit.text : /\ unit.text[k] = Held(src)[k]
                                             /\ k = r \/ src[k] # Missing
BY MembersFacts DEF Unit

\* A unit depends on what its files hold and on which files it does not
\* contain are missing, on nothing else.
LEMMA UnitAgrees ==
    ASSUME NEW one \in Readings, NEW two \in Readings, NEW cfg \in Config, NEW r \in Keys,
           \A k \in Members(r, one, cfg) : Held(one)[k] = Held(two)[k],
           \A k \in Members(r, one, cfg) \ {r} : two[k] # Missing,
           \A k \in Keys \ {r} : one[k] = Missing =>
               \/ two[k] = Missing
               \/ \A m \in Members(r, one, cfg) : \A i \in Held(one)[m].incs : Target(i, m, cfg) # k
    PROVE  Unit(r, one, cfg) = Unit(r, two, cfg)
<1> DEFINE M1 == Members(r, one, cfg)
           M2 == Members(r, two, cfg)
<1>1. /\ r \in M1 /\ M1 \subseteq Keys /\ Closed(M1, one, cfg)
      /\ r \in M2 /\ M2 \subseteq Keys /\ Closed(M2, two, cfg)
      /\ \A S \in SUBSET Keys : r \in S /\ Closed(S, one, cfg) => M1 \subseteq S
      /\ \A S \in SUBSET Keys : r \in S /\ Closed(S, two, cfg) => M2 \subseteq S
    BY MembersFacts
<1>2. \A k \in M1 : \A i \in Held(one)[k].incs : Target(i, k, cfg) \in Key \cup {Unresolved}
    BY <1>1, HeldType, TargetType
<1> HIDE DEF M1, M2
<1>3. \A k \in M1 : \A i \in Held(one)[k].incs :
          Target(i, k, cfg) \notin {Unresolved, r} =>
              (one[Target(i, k, cfg)] = Missing <=> two[Target(i, k, cfg)] = Missing)
    <2> SUFFICES ASSUME NEW k \in M1, NEW i \in Held(one)[k].incs, NEW j, j = Target(i, k, cfg),
                        j # Unresolved, j # r
                 PROVE  one[j] = Missing <=> two[j] = Missing
        OBVIOUS
    <2>1. j \in Key /\ j \in Keys
        BY <1>2 DEF Keys
    <2>2. one[j] = Missing => two[j] = Missing
        BY <2>1 DEF M1
    <2>3. CASE one[j] # Missing
        <3>1. j \in M1
            BY <1>1, <2>3 DEF Closed
        <3> QED BY <3>1, <2>3 DEF M1
    <2> QED BY <2>2, <2>3
<1>4. Closed(M1, two, cfg)
    BY <1>1, <1>2, <1>3 DEF Closed, M1
<1>5. M2 \subseteq M1
    BY <1>1, <1>4
<1>6. Closed(M2, one, cfg)
    BY <1>1, <1>2, <1>3, <1>5 DEF Closed, M1
<1>7. M1 = M2
    BY <1>1, <1>5, <1>6
<1>8. \A k \in M1 : Held(one)[k] = Held(two)[k]
    BY DEF M1
<1>9. \A k \in M1 : \A i \in Held(one)[k].incs : Dead(i, k, r, one, cfg) <=> Dead(i, k, r, two, cfg)
    BY <1>3 DEF Dead
<1>10. [k \in M1 |-> Held(one)[k]] = [k \in M2 |-> Held(two)[k]]
    BY <1>7, <1>8
<1>11. UNION {Held(one)[k].defs : k \in M1} = UNION {Held(two)[k].defs : k \in M2}
    BY <1>7, <1>8
<1> DEFINE Diags(src, M) ==
        [k \in M |-> {<<"undefined", n>> : n \in Held(src)[k].uses \ UNION {Held(src)[m].defs : m \in M}}
                      \cup {<<"missing", i>> : i \in {x \in Held(src)[k].incs : Dead(x, k, r, src, cfg)}}]
<1>12. Diags(one, M1) = Diags(two, M2)
    <2> SUFFICES ASSUME NEW k \in M1
                 PROVE  Diags(one, M1)[k] = Diags(two, M1)[k]
        BY <1>7
    <2>1. Held(one)[k] = Held(two)[k]
        BY <1>8
    <2>2. {x \in Held(one)[k].incs : Dead(x, k, r, one, cfg)}
            = {x \in Held(two)[k].incs : Dead(x, k, r, two, cfg)}
        BY <2>1, <1>9
    <2>3. UNION {Held(one)[m].defs : m \in M1} = UNION {Held(two)[m].defs : m \in M1}
        BY <1>7, <1>11
    <2> QED BY <2>1, <2>2, <2>3
<1> HIDE DEF Diags
<1>13. Unit(r, one, cfg) = [text |-> [k \in M1 |-> Held(one)[k]], diags |-> Diags(one, M1)]
    BY DEF Unit, Diags, M1
<1>14. Unit(r, two, cfg) = [text |-> [k \in M2 |-> Held(two)[k]], diags |-> Diags(two, M2)]
    BY DEF Unit, Diags, M2
<1> QED BY <1>10, <1>12, <1>13, <1>14

-----------------------------------------------------------------------------
(* The project cache.                                                      *)

\* A project's main.asm is never a document without a path.
Mains == DiskKey \cup {NoMain}
CacheOK(c) == DOMAIN c \subseteq Dir /\ \A d \in DOMAIN c : c[d] \in Mains
CachedMain(c, d) == IF d \in DOMAIN c THEN c[d] ELSE NoMain

\* What a document without a path would be found under does not exist.
OnDisk(src) == src \in Readings /\ \A k \in Key \ DiskKey : src[k] = Missing

\* The directories a climb visits: none above a document without a path.
LEMMA ChainFacts ==
    ASSUME NEW d \in Dir \cup {NoDir}
    PROVE  /\ Chain[d] \in Seq(Dir) /\ Len(Chain[d]) \in Nat
           /\ DOMAIN Chain[d] = 1 .. Len(Chain[d])
           /\ d \in Dir => Len(Chain[d]) > 0 /\ Chain[d][1] = d
           /\ d = NoDir => Len(Chain[d]) = 0 /\ d \notin Dir
BY DirAssumption, LenProperties, EmptySeq

\* The climb from d ends at `last`, the first directory that is cached or holds
\* a project, and everything passed on the way is cached.
LEMMA ProjectMainForFacts ==
    ASSUME NEW c, CacheOK(c), NEW d \in Dir \cup {NoDir}, NEW src, OnDisk(src)
    PROVE  LET p == ProjectMainFor(c, d, src)
           IN /\ p.main \in Mains /\ CacheOK(p.cache)
              /\ \A e \in DOMAIN c : e \in DOMAIN p.cache /\ p.cache[e] = c[e]
              /\ p.main = CachedMain(p.cache, d)
              /\ d \in Dir => d \in DOMAIN p.cache
<1> DEFINE whole == Chain[d]
           n == IF Len(whole) < MaxDepth THEN Len(whole) ELSE MaxDepth
           climb == SubSeq(whole, 1, n)
           stops == {i \in DOMAIN climb : \/ climb[i] \in DOMAIN c
                                       \/ disk[MarkerOf[climb[i]]] # Missing}
           last == IF stops = {} THEN Len(climb) ELSE Min(stops)
           main == IF stops = {} THEN NoMain
                ELSE IF climb[last] \in DOMAIN c THEN c[climb[last]]
                ELSE IF src[MainOf[climb[last]]] # Missing THEN MainOf[climb[last]]
                ELSE NoMain
           visited == {climb[i] : i \in 1 .. last} \ DOMAIN c
           cache == [e \in DOMAIN c \cup visited |-> IF e \in DOMAIN c THEN c[e] ELSE main]
<1>1. ProjectMainFor(c, d, src) = [main |-> main, cache |-> cache]
    BY DEF ProjectMainFor
<1>2. /\ n \in Nat /\ n <= Len(whole)
      /\ climb \in Seq(Dir) /\ Len(climb) = n /\ DOMAIN climb = 1 .. n
      /\ \A i \in 1 .. n : climb[i] = whole[i] /\ climb[i] \in Dir
    <2>1. n \in Nat /\ n <= Len(whole)
        BY ChainFacts, BoundAssumption
    <2>2. CASE n = 0
        <3>1. climb = <<>>
            BY <2>2, ChainFacts, SubSeqProperties
        <3> QED BY <2>1, <2>2, <3>1, EmptySeq
    <2>3. CASE n # 0
        <3>1. 1 \in 1 .. Len(whole) + 1 /\ n \in 0 .. Len(whole)
            BY <2>1, <2>3, ChainFacts
        <3>2. climb \in Seq(Dir) /\ Len(climb) = n
              /\ \A i \in 1 .. n : climb[i] = whole[i]
            BY <2>1, <2>3, <3>1, ChainFacts, SubSeqProperties
        <3>3. \A i \in 1 .. n : whole[i] \in Dir
            BY <2>1, ChainFacts, ElementOfSeq
        <3> QED BY <2>1, <3>2, <3>3, LenProperties
    <2> QED BY <2>2, <2>3
<1> HIDE DEF climb, n
<1>3. /\ stops \in SUBSET (1 .. n) /\ last \in 0 .. n
      /\ stops # {} => last \in stops /\ \A i \in stops : last <= i
    <2>1. stops \in SUBSET (1 .. n) /\ stops \in SUBSET Nat
        BY <1>2
    <2>4. last = IF stops = {} THEN n ELSE Min(stops)
        BY <1>2
    <2> HIDE DEF stops, last
    <2>2. CASE stops = {}
        BY <1>2, <2>1, <2>2, <2>4
    <2>3. CASE stops # {}
        <3>1. Min(stops) \in stops /\ \A i \in stops : Min(stops) <= i
            BY <2>1, <2>3, MinFacts
        <3>2. last = Min(stops)
            BY <2>3, <2>4
        <3>3. last \in 1 .. n /\ n \in Nat
            BY <1>2, <2>1, <3>1, <3>2
        <3>4. last \in 0 .. n
            BY <3>3
        <3> QED BY <2>1, <3>1, <3>2, <3>4
    <2> QED BY <2>2, <2>3
<1>4. /\ stops = {} => main = NoMain
      /\ stops # {} /\ climb[last] \in DOMAIN c => main = c[climb[last]]
      /\ stops # {} /\ climb[last] \notin DOMAIN c =>
            main = IF src[MainOf[climb[last]]] # Missing THEN MainOf[climb[last]] ELSE NoMain
    OBVIOUS
<1>5. 1 \in stops <=> n # 0 /\ (climb[1] \in DOMAIN c \/ disk[MarkerOf[climb[1]]] # Missing)
    BY <1>2
<1> HIDE DEF stops, last, main
<1>6. main \in Mains
    <2>1. CASE stops # {} /\ climb[last] \notin DOMAIN c
        <3>1. climb[last] \in Dir /\ MainOf[climb[last]] \in Key
            BY <1>2, <1>3, <2>1, DirAssumption
        <3> QED BY <1>4, <2>1, <3>1 DEF Mains, OnDisk
    <2> QED BY <1>4, <2>1 DEF CacheOK, Mains
<1>7. CacheOK(cache)
    BY <1>2, <1>3, <1>6 DEF CacheOK
<1>8. \A e \in DOMAIN c : e \in DOMAIN cache /\ cache[e] = c[e]
    OBVIOUS
<1>9. main = CachedMain(cache, d) /\ (d \in Dir => d \in DOMAIN cache)
    <2>1. CASE d = NoDir
        <3>1. n = 0 /\ d \notin Dir
            BY <1>2, <2>1, ChainFacts
        <3>2. stops = {}
            BY <1>3, <3>1
        <3> QED BY <1>4, <1>7, <3>1, <3>2 DEF CachedMain, CacheOK
    <2>2. CASE d \in Dir
        <3>1. n > 0
            BY <2>2, ChainFacts, BoundAssumption DEF n
        <3>2. climb[1] = d
            BY <1>2, <2>2, <3>1, ChainFacts
        <3>3. CASE d \in DOMAIN c
            <4>1. last = 1 /\ stops # {}
                BY <1>3, <1>5, <3>1, <3>2, <3>3
            <4> QED BY <1>4, <1>8, <3>2, <3>3, <4>1 DEF CachedMain
        <3>4. CASE d \notin DOMAIN c
            <4>1. last >= 1
                BY <1>2, <1>3, <3>1 DEF last
            <4>2. d \in visited
                BY <1>3, <3>2, <3>4, <4>1
            <4> QED BY <3>4, <4>2 DEF CachedMain
        <3> QED BY <3>3, <3>4
    <2> QED BY <2>1, <2>2
<1> HIDE DEF cache
<1> QED BY <1>1, <1>6, <1>7, <1>8, <1>9

\* The walk to a project reaches the root of the file system.
Shallow == \A d \in Dir : Len(Chain[d]) <= MaxDepth

\* What a lookup without a cache finds, and a cache that agrees with it.
Found(d, src) == ProjectMainFor(Empty, d, src).main
Right(c, src) == \A d \in DOMAIN c : c[d] = Found(d, src)

\* The directories above d that hold a project.
Marked(d) == {i \in DOMAIN Chain[d] : disk[MarkerOf[Chain[d][i]]] # Missing}
MainAt(d, src) == IF src[MainOf[d]] # Missing THEN MainOf[d] ELSE NoMain

\* A shallow climb is not cut off.
LEMMA ClimbIsChain ==
    ASSUME Shallow, NEW d \in Dir \cup {NoDir}
    PROVE  SubSeq(Chain[d], 1, IF Len(Chain[d]) < MaxDepth THEN Len(Chain[d]) ELSE MaxDepth)
              = Chain[d]
<1>1. Chain[d] \in Seq(Dir) /\ Len(Chain[d]) \in Nat /\ Len(Chain[d]) <= MaxDepth
    BY ChainFacts, BoundAssumption DEF Shallow
<1>2. (IF Len(Chain[d]) < MaxDepth THEN Len(Chain[d]) ELSE MaxDepth) = Len(Chain[d])
    BY <1>1, BoundAssumption
<1>3. SubSeq(Chain[d], 1, Len(Chain[d])) = Chain[d]
    BY <1>1, SubSeqFull
<1> QED BY <1>2, <1>3

\* Without a cache the climb ends at the first project.
LEMMA FoundFacts ==
    ASSUME Shallow, NEW d \in Dir \cup {NoDir}, NEW src
    PROVE  Found(d, src) = IF Marked(d) = {} THEN NoMain ELSE MainAt(Chain[d][Min(Marked(d))], src)
<1> DEFINE climb == SubSeq(Chain[d], 1, IF Len(Chain[d]) < MaxDepth THEN Len(Chain[d]) ELSE MaxDepth)
           stops == {i \in DOMAIN climb : \/ climb[i] \in DOMAIN Empty
                                       \/ disk[MarkerOf[climb[i]]] # Missing}
           last == IF stops = {} THEN Len(climb) ELSE Min(stops)
           main == IF stops = {} THEN NoMain
                ELSE IF climb[last] \in DOMAIN Empty THEN Empty[climb[last]]
                ELSE IF src[MainOf[climb[last]]] # Missing THEN MainOf[climb[last]]
                ELSE NoMain
<1>1. Found(d, src) = main
    BY DEF Found, ProjectMainFor
<1>2. DOMAIN Empty = {}
    BY DEF Empty
<1>3. climb = Chain[d]
    BY ClimbIsChain
<1> HIDE DEF climb
<1>4. stops = Marked(d)
    BY <1>2, <1>3 DEF Marked
<1> HIDE DEF stops
<1> QED BY <1>1, <1>2, <1>3, <1>4 DEF MainAt

\* On the way to the first project every directory finds the same.
LEMMA FoundOnTheWay ==
    ASSUME Shallow, NEW d \in Dir, NEW src,
           NEW i \in DOMAIN Chain[d], \A j \in Marked(d) : i <= j
    PROVE  Chain[d][i] \in Dir /\ Found(Chain[d][i], src) = Found(d, src)
<1> DEFINE e == Chain[d][i]
           len == Len(Chain[d])
<1>1. /\ Chain[d] \in Seq(Dir) /\ len \in Nat /\ DOMAIN Chain[d] = 1 .. len
      /\ i \in 1 .. len
    BY ChainFacts
<1>2. e \in Dir
    BY <1>1, ElementOfSeq
<1>3. Chain[e] = SubSeq(Chain[d], i, len)
    BY DirAssumption
<1>4. /\ DOMAIN Chain[e] = 1 .. len - i + 1
      /\ \A j \in 1 .. len - i + 1 : Chain[e][j] = Chain[d][i + j - 1]
    <2>1. i \in 1 .. len + 1 /\ len \in i - 1 .. len
        BY <1>1
    <2>2. PICK whole, part : whole = Chain[d] /\ part = Chain[e]
        OBVIOUS
    <2>3. whole \in Seq(Dir) /\ Len(whole) = len /\ part = SubSeq(whole, i, len)
        BY <1>1, <1>3, <2>2
    <2>4. DOMAIN part = 1 .. Len(part)
        BY <1>2, <2>2, ChainFacts
    <2> HIDE DEF e, len
    <2>5. Len(part) = len - i + 1 /\ \A j \in 1 .. len - i + 1 : part[j] = whole[i + j - 1]
        BY <1>1, <2>1, <2>3, SubSeqProperties
    <2>6. DOMAIN part = 1 .. len - i + 1
        BY <2>4, <2>5
    <2> QED BY <2>2, <2>5, <2>6
<1> HIDE DEF e, len
<1>5. \A j \in 1 .. len - i + 1 : j \in Marked(e) <=> i + j - 1 \in Marked(d)
    <2> TAKE j \in 1 .. len - i + 1
    <2>1. i + j - 1 \in 1 .. len
        BY <1>1
    <2>2. j \in DOMAIN Chain[e] /\ i + j - 1 \in DOMAIN Chain[d] /\ Chain[e][j] = Chain[d][i + j - 1]
        BY <1>1, <1>4, <2>1
    <2> QED BY <2>2 DEF Marked
<1>6. /\ Marked(d) \in SUBSET Nat /\ Marked(d) \subseteq 1 .. len
      /\ Marked(e) \in SUBSET Nat /\ Marked(e) \subseteq 1 .. len - i + 1
    BY <1>1, <1>4 DEF Marked
<1>7. CASE Marked(d) = {}
    <2>1. Marked(e) = {}
        BY <1>1, <1>5, <1>6, <1>7
    <2> QED BY <1>2, <1>7, <2>1, FoundFacts DEF e
<1>8. CASE Marked(d) # {}
    <2> DEFINE m == Min(Marked(d))
    <2>1. m \in Marked(d) /\ \A j \in Marked(d) : m <= j
        BY <1>6, <1>8, MinFacts
    <2> HIDE DEF m
    <2>2. m \in Nat /\ i <= m /\ m <= len
        BY <1>6, <2>1
    <2>3. m - i + 1 \in 1 .. len - i + 1 /\ i + (m - i + 1) - 1 = m
        BY <1>1, <2>2
    <2>4. m - i + 1 \in Marked(e)
        BY <1>5, <2>1, <2>3
    <2>5. \A j \in Marked(e) : m - i + 1 <= j
        <3> TAKE j \in Marked(e)
        <3>1. j \in 1 .. len - i + 1 /\ i + j - 1 \in Marked(d)
            BY <1>5, <1>6
        <3>2. m <= i + j - 1
            BY <2>1, <3>1
        <3> QED BY <1>1, <2>2, <3>1, <3>2
    <2>6. Min(Marked(e)) = m - i + 1
        BY <1>6, <2>4, <2>5, MinFacts
    <2>7. Chain[e][Min(Marked(e))] = Chain[d][m]
        BY <1>4, <2>3, <2>6
    <2>8. Found(e, src) = MainAt(Chain[e][Min(Marked(e))], src)
        BY <1>2, <2>4, FoundFacts
    <2>9. Found(d, src) = MainAt(Chain[d][m], src)
        BY <1>8, FoundFacts DEF m
    <2> QED BY <1>2, <2>7, <2>8, <2>9 DEF e
<1> QED BY <1>7, <1>8

\* A right cache stays right, and answers as a lookup without one.
LEMMA RightExtends ==
    ASSUME Shallow, NEW c, CacheOK(c), NEW d \in Dir \cup {NoDir}, NEW src, OnDisk(src),
           Right(c, src)
    PROVE  LET p == ProjectMainFor(c, d, src)
           IN Right(p.cache, src) /\ p.main = Found(d, src)
<1> DEFINE climb == SubSeq(Chain[d], 1, IF Len(Chain[d]) < MaxDepth THEN Len(Chain[d]) ELSE MaxDepth)
           stops == {i \in DOMAIN climb : \/ climb[i] \in DOMAIN c
                                       \/ disk[MarkerOf[climb[i]]] # Missing}
           last == IF stops = {} THEN Len(climb) ELSE Min(stops)
           main == IF stops = {} THEN NoMain
                ELSE IF climb[last] \in DOMAIN c THEN c[climb[last]]
                ELSE IF src[MainOf[climb[last]]] # Missing THEN MainOf[climb[last]]
                ELSE NoMain
           visited == {climb[i] : i \in 1 .. last} \ DOMAIN c
           cache == [e \in DOMAIN c \cup visited |-> IF e \in DOMAIN c THEN c[e] ELSE main]
<1>1. ProjectMainFor(c, d, src) = [main |-> main, cache |-> cache]
    BY DEF ProjectMainFor
<1>2. climb = Chain[d] /\ DOMAIN climb = 1 .. Len(climb) /\ Len(climb) \in Nat
    BY ClimbIsChain, ChainFacts
<1> HIDE DEF climb
<1>3. /\ stops \in SUBSET (1 .. Len(climb)) /\ last \in 0 .. Len(climb)
      /\ stops # {} => last \in stops
      /\ \A i \in stops : last <= i
      /\ Marked(d) \subseteq stops
    <2>1. stops \in SUBSET (1 .. Len(climb)) /\ stops \in SUBSET Nat
        BY <1>2
    <2>2. Marked(d) \subseteq stops
        BY <1>2 DEF Marked
    <2>5. last = IF stops = {} THEN Len(climb) ELSE Min(stops)
        OBVIOUS
    <2> HIDE DEF stops, last
    <2>3. CASE stops = {}
        BY <1>2, <2>1, <2>2, <2>3, <2>5
    <2>4. CASE stops # {}
        <3>1. Min(stops) \in stops /\ \A i \in stops : Min(stops) <= i
            BY <2>1, <2>4, MinFacts
        <3>2. last = Min(stops)
            BY <2>4, <2>5
        <3>3. last \in 1 .. Len(climb) /\ Len(climb) \in Nat
            BY <1>2, <2>1, <3>1, <3>2
        <3>4. last \in 0 .. Len(climb)
            BY <3>3
        <3> QED BY <2>1, <2>2, <3>1, <3>2, <3>4
    <2> QED BY <2>3, <2>4
<1>4. stops # {} => climb[last] \in DOMAIN c \/ last \in Marked(d)
    BY <1>2, <1>3 DEF Marked
<1>5. /\ stops = {} => main = NoMain
      /\ stops # {} /\ climb[last] \in DOMAIN c => main = c[climb[last]]
      /\ stops # {} /\ climb[last] \notin DOMAIN c => main = MainAt(climb[last], src)
    BY DEF MainAt
<1> HIDE DEF stops, last, main
<1>6. d = NoDir => Len(climb) = 0 /\ d \notin Dir
    BY <1>2, ChainFacts
<1>7. \A i \in 1 .. last : climb[i] \in Dir /\ Found(climb[i], src) = Found(d, src)
    <2> SUFFICES ASSUME NEW i \in 1 .. last
                 PROVE  climb[i] \in Dir /\ Found(climb[i], src) = Found(d, src)
        OBVIOUS
    <2>1. i \in DOMAIN Chain[d] /\ d \in Dir
        BY <1>2, <1>3, <1>6
    <2>2. \A j \in Marked(d) : i <= j
        <3> TAKE j \in Marked(d)
        <3>1. j \in 1 .. Len(climb) /\ last <= j
            BY <1>3
        <3> QED BY <1>2, <1>3, <3>1
    <2> QED BY <1>2, <2>1, <2>2, FoundOnTheWay
<1>8. main = Found(d, src)
    <2>1. CASE stops = {}
        BY <1>3, <1>5, <2>1, FoundFacts
    <2>2. CASE stops # {} /\ climb[last] \in DOMAIN c
        <3>1. last \in 1 .. last
            BY <1>3, <2>2
        <3> QED BY <1>5, <1>7, <2>2, <3>1 DEF Right
    <2>3. CASE stops # {} /\ climb[last] \notin DOMAIN c
        <3>1. last \in Marked(d) /\ \A j \in Marked(d) : last <= j
            BY <1>3, <1>4, <2>3
        <3>2. Marked(d) \in SUBSET Nat
            BY <1>2 DEF Marked
        <3>3. Min(Marked(d)) = last
            BY <3>1, <3>2, MinFacts
        <3> QED BY <1>2, <1>5, <2>3, <3>1, <3>3, FoundFacts
    <2> QED BY <2>1, <2>2, <2>3
<1>9. Right(cache, src)
    BY <1>7, <1>8 DEF Right
<1> HIDE DEF cache
<1> QED BY <1>1, <1>8, <1>9

-----------------------------------------------------------------------------
(* One reconcile.                                                          *)

\* What m_open may hold: a document under the key of its URI.
Document == [uri : Uri, path : Key \cup {NoPath}, key : Key, text : Text, owner : Keys]
OpenOK(open) ==
    /\ DOMAIN open \subseteq Key /\ IsFiniteSet(DOMAIN open)
    /\ \A k \in DOMAIN open :
          /\ open[k] \in Document /\ open[k].key = k /\ KeyOf[open[k].uri] = k
          /\ open[k].path = IF open[k].uri \in FileUri THEN k ELSE NoPath

\* An order of a finite set lists every member once.
LEMMA OrderFacts ==
    ASSUME NEW S, IsFiniteSet(S), NEW order \in Orders(S)
    PROVE  /\ Cardinality(S) \in Nat
           /\ order \in [1 .. Cardinality(S) -> S]
           /\ DOMAIN order = 1 .. Cardinality(S) /\ Len(order) = Cardinality(S)
           /\ order \in Seq(S)
           /\ \A k \in S : \E i \in DOMAIN order : order[i] = k
           /\ \A i, j \in DOMAIN order : order[i] = order[j] => i = j
<1>1. Cardinality(S) \in Nat
    BY FS_CardinalityType
<1>2. /\ order \in [1 .. Cardinality(S) -> S]
      /\ \A i, j \in DOMAIN order : order[i] = order[j] => i = j
    BY DEF Orders, IsInjective
<1>3. IsFiniteSet(1 .. Cardinality(S)) /\ Cardinality(1 .. Cardinality(S)) = Cardinality(S)
    BY <1>1, FS_Interval
<1>4. order \in Injection(1 .. Cardinality(S), S)
    BY <1>2 DEF Injection, IsInjective
<1>5. order \in Surjection(1 .. Cardinality(S), S)
    BY <1>3, <1>4, FS_Injection
<1>6. \A k \in S : \E i \in DOMAIN order : order[i] = k
    BY <1>2, <1>5 DEF Surjection
<1>7. order \in Seq(S) /\ Len(order) = Cardinality(S)
    BY <1>1, <1>2
<1> QED BY <1>1, <1>2, <1>6, <1>7

\* The lookups happen one after the other.
LEMMA LookupsDefined ==
    ASSUME NEW open, NEW order, Len(order) \in Nat, NEW c, NEW src
    PROVE  LET after == Lookups(open, order, c, src)
           IN /\ after[0] = [main |-> NoMain, cache |-> c]
              /\ \A i \in 1 .. Len(order) :
                    after[i] = LookedUp(after[i - 1].cache, open[order[i]], src)
<1> DEFINE base == [main |-> NoMain, cache |-> c]
           Step(x, i) == LookedUp(x.cache, open[order[i]], src)
           Body(g, m) == [i \in 0 .. m |-> IF i = 0 THEN base ELSE Step(g[i - 1], i)]
           n == Len(order)
           after == Lookups(open, order, c, src)
<1>1. after = CHOOSE g : g = Body(g, n)
    BY DEF Lookups
<1> HIDE DEF base, Step, after
<1>2. \A m \in 0 .. n : \E g : g = Body(g, m)
    <2> DEFINE bad == {m \in 0 .. n : ~ \E g : g = Body(g, m)}
    <2>1. SUFFICES ASSUME bad # {} PROVE FALSE
        OBVIOUS
    <2>2. bad \in SUBSET Nat
        OBVIOUS
    <2>3. PICK m \in bad : \A k \in bad : m <= k
        BY <2>1, <2>2, SmallestOf
    <2>4. CASE m = 0
        <3> DEFINE g == [i \in 0 .. 0 |-> base]
        <3>1. g = Body(g, 0)
            OBVIOUS
        <3> HIDE DEF Body
        <3> QED BY <2>3, <2>4, <3>1
    <2>5. CASE m # 0
        <3>1. m - 1 \in 0 .. n /\ m \in Nat /\ m - 1 \notin bad
            BY <2>3, <2>5
        <3>2. PICK g : g = Body(g, m - 1)
            BY <3>1
        <3> DEFINE h == [i \in 0 .. m |-> IF i = m THEN Step(g[m - 1], m) ELSE g[i]]
        <3>3. \A i \in 0 .. m - 1 : g[i] = IF i = 0 THEN base ELSE Step(g[i - 1], i)
            BY <3>2
        <3>4. \A i \in 0 .. m : h[i] = IF i = 0 THEN base ELSE Step(h[i - 1], i)
            <4> TAKE i \in 0 .. m
            <4>1. CASE i = m
                BY <2>5, <3>1, <4>1
            <4>2. CASE i # m
                <5>1. i \in 0 .. m - 1 /\ (i # 0 => i - 1 \in 0 .. m /\ i - 1 # m)
                    BY <3>1, <4>2
                <5> QED BY <3>3, <4>2, <5>1
            <4> QED BY <4>1, <4>2
        <3>5. h = Body(h, m)
            BY <3>4
        <3> HIDE DEF Body, h
        <3> QED BY <2>3, <3>5
    <2> QED BY <2>4, <2>5
<1>3. n \in 0 .. n
    OBVIOUS
<1>4. after = Body(after, n)
    <2> HIDE DEF Body, n
    <2> QED BY <1>1, <1>2, <1>3
<1>5. after[0] = base /\ \A i \in 1 .. n : after[i] = Step(after[i - 1], i)
    <2>1. \A i \in 0 .. n : after[i] = IF i = 0 THEN base ELSE Step(after[i - 1], i)
        BY <1>4
    <2> QED BY <2>1
<1> QED BY <1>5 DEF after, base, Step

\* The project main of a document, by the cache the lookups leave behind.
MainIn(c, doc) == IF doc.path = NoPath THEN NoMain ELSE CachedMain(c, DirOf[doc.path])
Cached(c, doc) == doc.path # NoPath /\ DirOf[doc.path] \in Dir => DirOf[doc.path] \in DOMAIN c
Extends(c, old) == \A e \in DOMAIN old : e \in DOMAIN c /\ c[e] = old[e]

\* After the lookups of one reconcile the cache answers for every document as its
\* lookup did, and it is right if it was.
LEMMA LookupsFacts ==
    ASSUME NEW open, OpenOK(open), NEW order \in Orders(DOMAIN open),
           NEW c, CacheOK(c), NEW src, OnDisk(src)
    PROVE  LET after == Lookups(open, order, c, src)
               last == after[Len(order)].cache
           IN /\ CacheOK(last)
              /\ Shallow /\ Right(c, src) => Right(last, src)
              /\ \A i \in DOMAIN order : /\ after[i].main = MainIn(last, open[order[i]])
                                       /\ Cached(last, open[order[i]])
<1> DEFINE n == Len(order)
           after == Lookups(open, order, c, src)
           doc(i) == open[order[i]]
<1>1. /\ n \in Nat /\ DOMAIN order = 1 .. n
      /\ \A i \in 1 .. n : /\ order[i] \in Keys /\ open[order[i]].path \in {order[i], NoPath}
    BY OrderFacts DEF OpenOK, Keys
<1>2. /\ after[0] = [main |-> NoMain, cache |-> c]
      /\ \A i \in 1 .. n : after[i] = LookedUp(after[i - 1].cache, doc(i), src)
    BY <1>1, LookupsDefined
<1> HIDE DEF n, after
<1>3. \A i \in 1 .. n : doc(i).path # NoPath => DirOf[doc(i).path] \in Dir \cup {NoDir}
    BY <1>1, DirAssumption
<1>4. NoDir \notin Dir
    BY ChainFacts
<1> DEFINE Good(i) == /\ CacheOK(after[i].cache)
                      /\ Shallow /\ Right(c, src) => Right(after[i].cache, src)
                      /\ \A j \in 1 .. i : after[j].main = MainIn(after[i].cache, doc(j))
                      /\ \A j \in 1 .. i : doc(j).path # NoPath /\ DirOf[doc(j).path] \in Dir =>
                             DirOf[doc(j).path] \in DOMAIN after[i].cache
<1>5. Good(0)
    BY <1>2
<1>6. ASSUME NEW i \in 1 .. n, Good(i - 1)
      PROVE  Good(i)
    <2> DEFINE old == after[i - 1].cache
               new == after[i].cache
    <2>1. /\ CacheOK(old) /\ (Shallow /\ Right(c, src) => Right(old, src))
          /\ \A j \in 1 .. i - 1 : after[j].main = MainIn(old, doc(j))
          /\ \A j \in 1 .. i - 1 : doc(j).path # NoPath /\ DirOf[doc(j).path] \in Dir =>
                             DirOf[doc(j).path] \in DOMAIN old
        BY <1>6
    <2>2. after[i] = LookedUp(old, doc(i), src)
        BY <1>2
    <2> HIDE DEF old
    <2>3. /\ CacheOK(new) /\ (Shallow /\ Right(c, src) => Right(new, src))
          /\ Extends(new, old)
          /\ after[i].main = MainIn(new, doc(i))
          /\ doc(i).path # NoPath /\ DirOf[doc(i).path] \in Dir => DirOf[doc(i).path] \in DOMAIN new
        <3>1. CASE doc(i).path = NoPath
            <4>1. after[i] = [main |-> NoMain, cache |-> old]
                BY <2>2, <3>1 DEF LookedUp
            <4> QED BY <2>1, <3>1, <4>1 DEF MainIn, Extends
        <3>2. CASE doc(i).path # NoPath
            <4>1. after[i] = ProjectMainFor(old, DirOf[doc(i).path], src)
                BY <2>2, <3>2 DEF LookedUp
            <4>2. DirOf[doc(i).path] \in Dir \cup {NoDir}
                BY <1>3, <3>2
            <4> HIDE DEF doc
            <4>3. /\ CacheOK(new) /\ Extends(new, old)
                  /\ after[i].main = CachedMain(new, DirOf[doc(i).path])
                  /\ DirOf[doc(i).path] \in Dir => DirOf[doc(i).path] \in DOMAIN new
                BY <2>1, <4>1, <4>2, ProjectMainForFacts DEF Extends
            <4>4. Shallow /\ Right(c, src) => Right(new, src)
                BY <2>1, <4>1, <4>2, RightExtends
            <4> QED BY <3>2, <4>3, <4>4 DEF MainIn
        <3> QED BY <3>1, <3>2
    <2> HIDE DEF new
    <2>4. \A j \in 1 .. i - 1 : /\ after[j].main = MainIn(new, doc(j))
                                /\ doc(j).path # NoPath /\ DirOf[doc(j).path] \in Dir =>
                                      DirOf[doc(j).path] \in DOMAIN new
        <3> SUFFICES ASSUME NEW j \in 1 .. i - 1
                     PROVE  /\ after[j].main = MainIn(new, doc(j))
                            /\ doc(j).path # NoPath /\ DirOf[doc(j).path] \in Dir =>
                                  DirOf[doc(j).path] \in DOMAIN new
            OBVIOUS
        <3>0. j \in 1 .. n
            BY <1>1
        <3>1. CASE doc(j).path = NoPath
            BY <2>1, <3>1 DEF MainIn
        <3>2. CASE doc(j).path # NoPath /\ DirOf[doc(j).path] \in Dir
            BY <2>1, <2>3, <3>2 DEF MainIn, CachedMain, Extends
        <3>3. CASE doc(j).path # NoPath /\ DirOf[doc(j).path] = NoDir
            BY <1>4, <2>1, <2>3, <3>3 DEF MainIn, CachedMain, CacheOK
        <3> HIDE DEF doc
        <3> QED BY <1>3, <3>0, <3>1, <3>2, <3>3
    <2>5. \A j \in 1 .. i : j = i \/ j \in 1 .. i - 1
        BY <1>1
    <2> HIDE DEF doc
    <2> QED BY <2>3, <2>4, <2>5 DEF new
<1> HIDE DEF Good
<1>7. \A i \in 0 .. n : Good(i)
    <2> DEFINE bad == {i \in 0 .. n : ~ Good(i)}
    <2>1. SUFFICES ASSUME bad # {} PROVE FALSE
        OBVIOUS
    <2>2. bad \in SUBSET Nat
        OBVIOUS
    <2>3. PICK i \in bad : \A k \in bad : i <= k
        BY <2>1, <2>2, SmallestOf
    <2>4. i # 0
        BY <1>5, <2>3
    <2>5. i \in 1 .. n /\ i - 1 \in 0 .. n /\ i - 1 \notin bad
        BY <1>1, <2>3, <2>4
    <2> QED BY <1>6, <2>3, <2>5
<1>8. Good(n)
    BY <1>1, <1>7
<1> QED BY <1>1, <1>8 DEF Good, Cached, n, after

\* What a unit built now reads: the text of a document without a path is its
\* root's only.
ReadFor(open, src, r) ==
    IF r \in DOMAIN open /\ open[r].path = NoPath THEN [src EXCEPT ![r] = open[r].text] ELSE src

\* The unit under r once step 2 is through, and the owner it gives a document.
UnitAt(r, open, src, cfg, kept) ==
    IF r \in kept THEN m_units[r] ELSE Unit(r, ReadFor(open, src, r), cfg)
Owns(k, main, units) ==
    IF main \notin {NoMain, k} /\ k \in DOMAIN units[main].text THEN main ELSE k

\* ensureUnit builds from the text of the document only when that has no path.
LEMMA EnsuredFacts ==
    ASSUME NEW open, OpenOK(open), NEW src, NEW cfg, NEW kept, NEW r
    PROVE  Ensured(r, open, src, cfg, kept) = UnitAt(r, open, src, cfg, kept)
BY DEF Ensured, UnitAt, ReadFor, OpenOK

\* Steps 1 to 3, whatever the order of the documents: the new cache answers for
\* every document, and owners and units follow from its answers.
Outcome(open, src, cfg, c, kept) ==
    LET main == [k \in DOMAIN open |-> MainIn(m_projectMain', open[k])]
        unit(r) == UnitAt(r, open, src, cfg, kept)
    IN /\ CacheOK(m_projectMain')
       /\ Shallow /\ Right(c, src) => Right(m_projectMain', src)
       /\ \A k \in DOMAIN open : Cached(m_projectMain', open[k])
       /\ m_open' = [k \in DOMAIN open |-> [open[k] EXCEPT !.owner =
                        OwnerOf(k, main[k], k \in DOMAIN unit(main[k]).text)]]
       /\ m_units' = [r \in Live({m_open'[k].owner : k \in DOMAIN open},
                                 {main[k] : k \in DOMAIN open}) |-> unit(r)]

\* A reconcile has this outcome whatever the iteration order of m_open.
LEMMA ReconcileFacts ==
    ASSUME NEW open, OpenOK(open), NEW buffers, OnDisk(Overlay(buffers)),
           NEW cfg, NEW c, CacheOK(c), NEW published, NEW pending, NEW dirty, NEW all,
           Reconcile(open, buffers, cfg, c, published, pending, dirty, all)
    PROVE  Outcome(open, Overlay(buffers), cfg, c, Kept(dirty, all))
<1> DEFINE src == Overlay(buffers)
           main == [k \in DOMAIN open |-> MainIn(m_projectMain', open[k])]
           kept == Kept(dirty, all)
<1>1. PICK order \in Orders(DOMAIN open) :
        LET after == Lookups(open, order, c, src)
            Main(k) == after[CHOOSE i \in DOMAIN order : order[i] = k].main
            Built(r) == Ensured(r, open, src, cfg, kept)
        IN /\ m_projectMain' = after[Len(order)].cache
           /\ m_open' = [k \in DOMAIN open |-> [open[k] EXCEPT !.owner =
                            OwnerOf(k, Main(k), k \in DOMAIN Built(Main(k)).text)]]
           /\ m_units' = [r \in Live({m_open'[k].owner : k \in DOMAIN open},
                                     {Main(k) : k \in DOMAIN open}) |-> Built(r)]
    BY DEF Reconcile
<1> DEFINE after == Lookups(open, order, c, src)
           Main(k) == after[CHOOSE i \in DOMAIN order : order[i] = k].main
<1> HIDE DEF src, kept
<1>2. OnDisk(src)
    BY DEF src
<1>3. /\ CacheOK(m_projectMain')
      /\ Shallow /\ Right(c, src) => Right(m_projectMain', src)
      /\ \A i \in DOMAIN order : /\ after[i].main = MainIn(m_projectMain', open[order[i]])
                               /\ Cached(m_projectMain', open[order[i]])
    <2>1. m_projectMain' = after[Len(order)].cache
        BY <1>1
    <2>2. /\ CacheOK(after[Len(order)].cache)
          /\ Shallow /\ Right(c, src) => Right(after[Len(order)].cache, src)
          /\ \A i \in DOMAIN order : /\ after[i].main = MainIn(after[Len(order)].cache, open[order[i]])
                                   /\ Cached(after[Len(order)].cache, open[order[i]])
        BY <1>2, LookupsFacts
    <2> QED BY <2>1, <2>2
<1>4. \A k \in DOMAIN open : \E i \in DOMAIN order : order[i] = k
    BY OrderFacts DEF OpenOK
<1> HIDE DEF after
<1>5. \A k \in DOMAIN open : Main(k) = main[k]
    BY <1>3, <1>4
<1> HIDE DEF Main, main
<1>6. \A r : Ensured(r, open, src, cfg, kept) = UnitAt(r, open, src, cfg, kept)
    BY EnsuredFacts
<1>7. m_open' = [k \in DOMAIN open |-> [open[k] EXCEPT !.owner =
                    OwnerOf(k, main[k], k \in DOMAIN UnitAt(main[k], open, src, cfg, kept).text)]]
    <2> DEFINE Doc(k) == [open[k] EXCEPT !.owner =
                  OwnerOf(k, Main(k), k \in DOMAIN Ensured(Main(k), open, src, cfg, kept).text)]
               doc(k) == [open[k] EXCEPT !.owner =
                  OwnerOf(k, main[k], k \in DOMAIN UnitAt(main[k], open, src, cfg, kept).text)]
    <2>1. m_open' = [k \in DOMAIN open |-> Doc(k)]
        BY <1>1, Zenon DEF after, Main
    <2>2. \A k \in DOMAIN open : Doc(k) = doc(k)
        BY <1>5, <1>6
    <2> HIDE DEF Doc, doc
    <2>3. m_open' = [k \in DOMAIN open |-> doc(k)]
        BY <2>1, <2>2
    <2> QED BY <2>3, Zenon DEF doc
<1>8. {Main(k) : k \in DOMAIN open} = {main[k] : k \in DOMAIN open}
    BY <1>5
<1>9. m_units' = [r \in Live({m_open'[k].owner : k \in DOMAIN open},
                             {main[k] : k \in DOMAIN open}) |-> UnitAt(r, open, src, cfg, kept)]
    <2>1. m_units' = [r \in Live({m_open'[k].owner : k \in DOMAIN open},
                             {Main(k) : k \in DOMAIN open}) |-> Ensured(r, open, src, cfg, kept)]
        BY <1>1, Zenon DEF after, Main
    <2> QED BY <2>1, <1>6, <1>8
<1>10. \A k \in DOMAIN open : Cached(m_projectMain', open[k])
    BY <1>3, <1>4
<1> QED BY <1>3, <1>7, <1>9, <1>10 DEF src, main, kept, Outcome

\* Every open document is analysed by its project's main.asm when that includes
\* it and by itself otherwise, in a unit that exists and contains it.
OwnersOK ==
    \A k \in DOMAIN m_open : \E main \in {MainIn(m_projectMain, m_open[k])} :
        /\ main # NoMain => main \in DOMAIN m_units
        /\ m_open[k].owner = Owns(k, main, m_units)
        /\ m_open[k].owner \in DOMAIN m_units
        /\ k \in DOMAIN m_units[m_open[k].owner].text
        /\ Cached(m_projectMain, m_open[k])

\* Every unit is somebody's owner or somebody's main.
UnitsUsed ==
    \A r \in DOMAIN m_units : \E k \in DOMAIN m_open :
        \/ r = m_open[k].owner
        \/ r = MainIn(m_projectMain, m_open[k]) /\ r # NoMain

RootsOK == /\ DOMAIN m_units \subseteq DiskKey \cup DOMAIN m_open
           /\ \A r \in DOMAIN m_units : r \in DOMAIN m_units[r].text

\* What a unit reads differs from the overlay at its root only.
LEMMA ReadForType ==
    ASSUME NEW open, OpenOK(open), NEW src, OnDisk(src), NEW r
    PROVE  /\ ReadFor(open, src, r) \in Readings
           /\ \A k \in Key \ DiskKey : k # r => ReadFor(open, src, r)[k] = Missing
           /\ \A k \in Keys : k # r => ReadFor(open, src, r)[k] = src[k]
<1>1. src \in Readings
    BY DEF OnDisk
<1>2. CASE r \in DOMAIN open /\ open[r].path = NoPath
    <2>1. open[r].text \in Text /\ r \in Keys
        BY <1>2 DEF OpenOK, Document, Keys
    <2> QED BY <1>1, <1>2, <2>1 DEF ReadFor, Readings, Content, OnDisk, Keys
<1>3. CASE ~(r \in DOMAIN open /\ open[r].path = NoPath)
    BY <1>1, <1>3 DEF ReadFor, OnDisk
<1> QED BY <1>2, <1>3

\* What one reconcile leaves behind, save for the diagnostics.
LEMMA Reconciled ==
    ASSUME NEW open, OpenOK(open), NEW buffers, OnDisk(Overlay(buffers)),
           NEW cfg \in Config, NEW c, CacheOK(c),
           NEW published, NEW pending, NEW dirty, NEW all, RootsOK,
           Reconcile(open, buffers, cfg, c, published, pending, dirty, all)
    PROVE  LET src == Overlay(buffers)
           IN /\ CacheOK(m_projectMain')
              /\ Shallow /\ Right(c, src) => Right(m_projectMain', src)
              /\ OpenOK(m_open') /\ DOMAIN m_open' = DOMAIN open
              /\ \A k \in DOMAIN open : /\ m_open'[k].uri = open[k].uri
                                        /\ m_open'[k].path = open[k].path
                                        /\ m_open'[k].text = open[k].text
              /\ \A r \in DOMAIN m_units' :
                    m_units'[r] = UnitAt(r, open, src, cfg, Kept(dirty, all))
              /\ OwnersOK' /\ UnitsUsed' /\ RootsOK'
<1> DEFINE src == Overlay(buffers)
           kept == Kept(dirty, all)
           main == [k \in DOMAIN open |-> MainIn(m_projectMain', open[k])]
           unit(r) == UnitAt(r, open, src, cfg, kept)
           owner == [k \in DOMAIN open |-> OwnerOf(k, main[k], k \in DOMAIN unit(main[k]).text)]
           live == Live({m_open'[k].owner : k \in DOMAIN open}, {main[k] : k \in DOMAIN open})
<1>1. /\ CacheOK(m_projectMain')
      /\ Shallow /\ Right(c, src) => Right(m_projectMain', src)
      /\ \A k \in DOMAIN open : Cached(m_projectMain', open[k])
      /\ m_open' = [k \in DOMAIN open |-> [open[k] EXCEPT !.owner =
                       OwnerOf(k, main[k], k \in DOMAIN unit(main[k]).text)]]
      /\ m_units' = [r \in live |-> unit(r)]
    <2>1. Outcome(open, src, cfg, c, kept)
        BY ReconcileFacts
    <2> QED BY <2>1, Zenon DEF Outcome
<1>2. \A k \in DOMAIN open : /\ open[k] \in Document /\ open[k].key = k /\ k \in Key
                             /\ KeyOf[open[k].uri] = k
                             /\ open[k].path = IF open[k].uri \in FileUri THEN k ELSE NoPath
    BY DEF OpenOK
<1>3. \A k \in DOMAIN open : main[k] \in Mains
    BY <1>1 DEF MainIn, CachedMain, CacheOK, Mains
<1>4. \A r \in Keys : r \in DOMAIN unit(r).text
    <2> SUFFICES ASSUME NEW r \in Keys PROVE r \in DOMAIN unit(r).text
        OBVIOUS
    <2>1. CASE r \in kept
        BY <2>1 DEF UnitAt, Kept, RootsOK
    <2>2. CASE r \notin kept
        <3>1. r \in DOMAIN Unit(r, ReadFor(open, src, r), cfg).text
            BY ReadForType, UnitFacts
        <3> QED BY <2>2, <3>1 DEF UnitAt
    <2> QED BY <2>1, <2>2
<1> HIDE DEF unit, kept, src, main
<1>5. \A k \in DOMAIN open : owner[k] \in {k, main[k]} /\ owner[k] \in Key
    BY <1>2, <1>3, UriAssumption DEF OwnerOf, Mains, DiskKey
<1>6. m_open' = [k \in DOMAIN open |-> [open[k] EXCEPT !.owner = owner[k]]]
    BY <1>1
<1>7. \A k \in DOMAIN open : owner[k] = OwnerOf(k, main[k], k \in DOMAIN unit(main[k]).text)
    OBVIOUS
<1> HIDE DEF owner
<1>8. /\ DOMAIN m_open' = DOMAIN open
      /\ \A k \in DOMAIN open : /\ m_open'[k] \in Document /\ m_open'[k].key = k
                                /\ m_open'[k].uri = open[k].uri /\ m_open'[k].path = open[k].path
                                /\ m_open'[k].text = open[k].text
                                /\ m_open'[k].owner = owner[k]
    BY <1>2, <1>5, <1>6 DEF Document, Keys
<1>9. OpenOK(m_open')
    BY <1>2, <1>8 DEF OpenOK
<1>10. \A k \in DOMAIN open : MainIn(m_projectMain', m_open'[k]) = main[k]
    BY <1>8 DEF MainIn, main
<1>11. /\ DOMAIN m_units' = live
       /\ \A r \in live : m_units'[r] = unit(r)
    BY <1>1
<1>12. \A r : r \in live <=> \E k \in DOMAIN open : r = owner[k] \/ (r = main[k] /\ r # NoMain)
    BY <1>8 DEF Live
<1> HIDE DEF live
<1>13. OwnersOK'
    <2> SUFFICES ASSUME NEW k \in DOMAIN open
                 PROVE  /\ main[k] # NoMain => main[k] \in live
                        /\ m_open'[k].owner = Owns(k, main[k], m_units')
                        /\ m_open'[k].owner \in live
                        /\ k \in DOMAIN m_units'[m_open'[k].owner].text
                        /\ Cached(m_projectMain', m_open'[k])
        BY <1>8, <1>10, <1>11 DEF OwnersOK
    <2>1. (main[k] # NoMain => main[k] \in live) /\ owner[k] \in live
        BY <1>12
    <2>2. owner[k] = Owns(k, main[k], m_units')
        BY <1>7, <1>11, <2>1 DEF OwnerOf, Owns
    <2>3. k \in DOMAIN m_units'[owner[k]].text
        <3>1. CASE owner[k] = k
            BY <1>2, <1>4, <1>11, <2>1, <3>1 DEF Keys
        <3>2. CASE owner[k] # k
            BY <2>2, <3>2 DEF Owns
        <3> QED BY <3>1, <3>2
    <2>4. Cached(m_projectMain', m_open'[k])
        BY <1>1, <1>8 DEF Cached
    <2> QED BY <1>8, <2>1, <2>2, <2>3, <2>4
<1>14. UnitsUsed'
    BY <1>8, <1>10, <1>11, <1>12 DEF UnitsUsed
<1>15. RootsOK'
    <2>1. \A r \in live : r \in DiskKey \cup DOMAIN open
        BY <1>3, <1>5, <1>12, UriAssumption DEF Mains
    <2>2. DiskKey \cup DOMAIN open \subseteq Keys
        BY <1>2 DEF DiskKey, Keys
    <2> QED BY <1>4, <1>8, <1>11, <2>1, <2>2 DEF RootsOK
<1> QED BY <1>1, <1>8, <1>9, <1>11, <1>13, <1>14, <1>15 DEF src, unit, kept

-----------------------------------------------------------------------------
(* The inductive invariant.                                                *)

\* No two URIs name one file (see the run `alias` for what happens otherwise).
OneSpelling == \A u, v \in Uri : KeyOf[u] = KeyOf[v] => u = v

DiskOK == disk \in [Key -> Content] /\ \A k \in Key \ DiskKey : disk[k] = Missing
WatchOK == watch \in Seq([key : DiskKey, change : {"Created", "Changed", "Deleted"}])

\* The server holds open what the editor does, with the same texts: in a
\* buffer over the disk or, without a path, in the document itself.
EditorOK ==
    /\ OpenOK(m_open)
    /\ editor \in [{m_open[k].uri : k \in DOMAIN m_open} -> Text]
    /\ m_uriToKey = [u \in DOMAIN editor |-> KeyOf[u]]
    /\ DOMAIN m_buffers = {k \in DOMAIN m_open : m_open[k].path # NoPath}
    /\ \A k \in DOMAIN m_open : editor[m_open[k].uri] =
           IF m_open[k].path = NoPath THEN m_open[k].text ELSE m_buffers[k]

Event(k, change) == \E i \in DOMAIN watch : watch[i].key = k /\ watch[i].change = change

\* Each unit was built under this configuration, from sources in which a file
\* was missing only if it still is, or its creation is on the way, or was
\* missed for good; and the files it expanded exist, or their deletion is on
\* the way.
BuiltFrom(r, src) ==
    /\ m_units[r] = Unit(r, src, m_cfg)
    /\ \A k \in Keys \ {r} : src[k] = Missing =>
           k \in blind \/ Overlay(m_buffers)[k] = Missing \/ Event(k, "Created")
    /\ \A k \in DOMAIN m_units[r].text \ {r} :
           Overlay(m_buffers)[k] = Missing => Event(k, "Deleted")
    /\ \A k \in Key \ DiskKey : k # r => src[k] = Missing
UnitsBuilt == \A r \in DOMAIN m_units : \E src \in Readings : BuiltFrom(r, src)

\* The cache answers as a fresh lookup while nothing that it rests on has come
\* or gone unnoticed.
ProjectsKnown ==
    /\ blind \cap ProjectFiles = {}
    /\ \A i \in DOMAIN watch : watch[i].key \in ProjectFiles => watch[i].change = "Changed"
CacheRight == Shallow /\ ProjectsKnown => Right(m_projectMain, Overlay(m_buffers))

IInv ==
    /\ DiskOK /\ WatchOK /\ m_cfg \in Config /\ EditorOK
    /\ CacheOK(m_projectMain) /\ OwnersOK /\ UnitsUsed /\ RootsOK
    /\ UnitsHoldSources /\ UnitsBuilt /\ CacheRight

\* Buffers lie over files, never over a document without a path.
LEMMA OverlayOnDisk ==
    ASSUME OneSpelling, DiskOK, NEW open, OpenOK(open), NEW buffers,
           DOMAIN buffers = {k \in DOMAIN open : open[k].path # NoPath},
           \A k \in DOMAIN buffers : buffers[k] \in Text
    PROVE  OnDisk(Overlay(buffers))
<1>1. Overlay(buffers) \in Readings
    BY DEF Overlay, Readings, Content, DiskOK, Keys
<1>2. \A k \in DOMAIN buffers : k \in DiskKey
    <2> SUFFICES ASSUME NEW k \in DOMAIN buffers PROVE k \in DiskKey
        OBVIOUS
    <2>1. k \in Key /\ open[k].uri \in FileUri /\ open[k].uri \in Uri /\ KeyOf[open[k].uri] = k
        BY UriAssumption DEF OpenOK, Document
    <2> QED BY <2>1 DEF OneSpelling, DiskKey
<1>3. \A k \in Key \ DiskKey : Overlay(buffers)[k] = Missing
    BY <1>2 DEF Overlay, DiskOK, Keys
<1> QED BY <1>1, <1>3 DEF OnDisk

\* In a unit, only the root can be a document without a path.
LEMMA ReadForIsSource ==
    ASSUME NEW open, OpenOK(open), NEW src, OnDisk(src), NEW r \in Keys, NEW k \in Keys,
           k = r \/ src[k] # Missing
    PROVE  ReadFor(open, src, r)[k] =
              IF k \in DOMAIN open /\ open[k].path = NoPath THEN open[k].text ELSE src[k]
<1>1. CASE k = r
    BY <1>1 DEF ReadFor, OnDisk, Readings
<1>2. CASE k # r
    <2>1. src[k] # Missing /\ ReadFor(open, src, r)[k] = src[k]
        BY <1>2, ReadForType
    <2>2. k \in DOMAIN open => k \in DiskKey
        BY <2>1 DEF OnDisk, OpenOK
    <2>3. k \in DOMAIN open => open[k].path # NoPath
        BY <2>2, UriAssumption DEF OpenOK, Document, DiskKey
    <2> QED BY <2>1, <2>3
<1> QED BY <1>1, <1>2

\* A reconcile after which nothing but the dirty files reads differently keeps
\* the units true to their sources.
Steady(open, buffers, cfg, dirty) ==
    /\ cfg = m_cfg
    /\ \A k \in Keys \ dirty :
          /\ k \in DOMAIN open <=> k \in DOMAIN m_open
          /\ k \in DOMAIN open => open[k].path = m_open[k].path /\ open[k].text = m_open[k].text
          /\ Overlay(buffers)[k] = Overlay(m_buffers)[k]
          /\ Reported(k)' /\ k \notin DOMAIN open => Reported(k)
          /\ Event(k, "Deleted") /\ Overlay(buffers)[k] = Missing => Event(k, "Deleted")'
    /\ \A k \in Keys :
          k \in blind \/ Overlay(m_buffers)[k] = Missing \/ Event(k, "Created") =>
              k \in blind' \/ Overlay(buffers)[k] = Missing \/ Event(k, "Created")'

\* A reconcile keeps the units true to the sources, rebuilding all of them or, with
\* nothing but the dirty files read differently, those with a dirty file.
LEMMA ReconcileKeeps ==
    ASSUME OneSpelling, DiskOK, RootsOK, UnitsHoldSources, UnitsBuilt,
           NEW open, OpenOK(open), NEW buffers, OnDisk(Overlay(buffers)),
           NEW cfg \in Config, NEW c, CacheOK(c),
           NEW published, NEW pending, NEW dirty, NEW all,
           all \in BOOLEAN, all \/ Steady(open, buffers, cfg, dirty),
           disk' = disk, m_buffers' = buffers, m_cfg' = cfg,
           Reconcile(open, buffers, cfg, c, published, pending, dirty, all)
    PROVE  UnitsHoldSources' /\ UnitsBuilt'
<1> DEFINE src == Overlay(buffers)
           kept == Kept(dirty, all)
<1>1. /\ OpenOK(m_open') /\ DOMAIN m_open' = DOMAIN open
      /\ \A k \in DOMAIN open : m_open'[k].path = open[k].path /\ m_open'[k].text = open[k].text
      /\ \A r \in DOMAIN m_units' : m_units'[r] = UnitAt(r, open, src, cfg, kept)
      /\ RootsOK'
    BY Reconciled
<1>2. Overlay(m_buffers)' = src
    BY DEF Overlay
<1>3. \A r \in DOMAIN m_units' : r \in Keys /\ r \in DOMAIN m_units'[r].text
    BY <1>1 DEF RootsOK, OpenOK, DiskKey, Keys
<1>4. OnDisk(src) /\ src \in Readings
    BY DEF OnDisk
<1>5. \A k \in Keys : SourceText(k)' =
          LET now == IF k \in DOMAIN open /\ open[k].path = NoPath THEN open[k].text ELSE src[k]
          IN IF now = Missing THEN EmptyText ELSE now
    BY <1>1, <1>2 DEF SourceText, Sources, Held
<1>6. \A k \in Keys : SourceText(k) =
          LET was == IF k \in DOMAIN m_open /\ m_open[k].path = NoPath THEN m_open[k].text
                     ELSE Overlay(m_buffers)[k]
          IN IF was = Missing THEN EmptyText ELSE was
    BY DEF SourceText, Sources, Held
<1>7. ASSUME NEW r \in DOMAIN m_units', r \notin kept
      PROVE  /\ \A k \in DOMAIN m_units'[r].text : m_units'[r].text[k] = SourceText(k)'
             /\ \E old \in Readings : BuiltFrom(r, old)'
    <2>0. PICK read \in Readings : read = ReadFor(open, src, r)
        BY <1>4, ReadForType
    <2>1. m_units'[r] = Unit(r, read, cfg)
        BY <1>1, <1>7, <2>0 DEF UnitAt
    <2>2. /\ read \in Readings
          /\ \A k \in Key \ DiskKey : k # r => read[k] = Missing
          /\ \A k \in Keys : k # r => read[k] = src[k]
        BY <1>4, <2>0, ReadForType
    <2>3. \A k \in Keys : k = r \/ src[k] # Missing =>
              read[k] = IF k \in DOMAIN open /\ open[k].path = NoPath THEN open[k].text ELSE src[k]
        BY <1>3, <1>4, <2>0, ReadForIsSource
    <2> HIDE DEF src
    <2>4. /\ DOMAIN m_units'[r].text \subseteq Keys
          /\ \A k \in DOMAIN m_units'[r].text : /\ m_units'[r].text[k] = Held(read)[k]
                                                /\ k = r \/ read[k] # Missing
        BY <1>3, <2>1, <2>2, UnitFacts
    <2>5. ASSUME NEW k \in DOMAIN m_units'[r].text
          PROVE  m_units'[r].text[k] = SourceText(k)'
        <3>1. k \in Keys /\ (k = r \/ src[k] # Missing)
            BY <2>2, <2>4
        <3>2. m_units'[r].text[k] = IF read[k] = Missing THEN EmptyText ELSE read[k]
            BY <2>4, <3>1 DEF Held
        <3> QED BY <1>5, <2>3, <3>1, <3>2
    <2>6. BuiltFrom(r, read)'
        BY <1>2, <2>1, <2>2, <2>4 DEF BuiltFrom
    <2> QED BY <2>2, <2>5, <2>6
<1>8. ASSUME NEW r \in DOMAIN m_units', r \in kept
      PROVE  /\ r \in DOMAIN m_units /\ m_units'[r] = m_units[r]
             /\ \A k \in DOMAIN m_units[r].text : k \notin dirty
             /\ ~all
    BY <1>1, <1>8 DEF UnitAt, Kept
<1>9. ASSUME NEW r \in DOMAIN m_units', r \in kept
      PROVE  /\ \A k \in DOMAIN m_units'[r].text : k \in DOMAIN m_open' \/ Reported(k)' =>
                    m_units'[r].text[k] = SourceText(k)'
             /\ \E old \in Readings : BuiltFrom(r, old)'
    <2>1. /\ r \in DOMAIN m_units /\ m_units'[r] = m_units[r]
          /\ \A k \in DOMAIN m_units[r].text : k \notin dirty
          /\ Steady(open, buffers, cfg, dirty)
        BY <1>8, <1>9
    <2>2. PICK old \in Readings : BuiltFrom(r, old)
        BY <2>1 DEF UnitsBuilt
    <2> HIDE DEF src
    <2>3. r \in Keys /\ DOMAIN m_units[r].text \subseteq Keys /\ cfg = m_cfg
        BY <1>3, <2>1, <2>2, UnitFacts DEF BuiltFrom, Steady
    <2>4. ASSUME NEW k \in DOMAIN m_units[r].text
          PROVE  /\ k \in Keys \ dirty
                 /\ k \in DOMAIN open <=> k \in DOMAIN m_open
                 /\ k \in DOMAIN open => open[k].path = m_open[k].path /\ open[k].text = m_open[k].text
                 /\ src[k] = Overlay(m_buffers)[k]
                 /\ Reported(k)' /\ k \notin DOMAIN open => Reported(k)
                 /\ Event(k, "Deleted") /\ src[k] = Missing => Event(k, "Deleted")'
        BY <2>1, <2>3 DEF Steady, src
    <2>5. ASSUME NEW k \in DOMAIN m_units[r].text, k \in DOMAIN m_open' \/ Reported(k)'
          PROVE  m_units[r].text[k] = SourceText(k)'
        <3>1. k \in DOMAIN m_open \/ Reported(k)
            BY <1>1, <2>4, <2>5
        <3>2. m_units[r].text[k] = SourceText(k)
            BY <2>1, <3>1 DEF UnitsHoldSources
        <3>3. SourceText(k)' = SourceText(k)
            BY <1>5, <1>6, <2>4
        <3> QED BY <3>2, <3>3
    <2>6. \A k \in Keys \ {r} : old[k] = Missing =>
              k \in blind' \/ src[k] = Missing \/ Event(k, "Created")'
        BY <2>1, <2>2 DEF BuiltFrom, Steady, src
    <2>7. \A k \in DOMAIN m_units[r].text \ {r} : src[k] = Missing => Event(k, "Deleted")'
        BY <2>2, <2>4 DEF BuiltFrom
    <2>8. BuiltFrom(r, old)'
        BY <1>2, <2>1, <2>2, <2>3, <2>6, <2>7 DEF BuiltFrom
    <2> QED BY <2>1, <2>5, <2>8
<1>10. UnitsHoldSources'
    BY <1>7, <1>9 DEF UnitsHoldSources
<1>11. UnitsBuilt'
    BY <1>7, <1>9 DEF UnitsBuilt
<1> QED BY <1>10, <1>11

\* What a lookup finds rests on which markers and main.asm exist.
LEMMA FoundAgrees ==
    ASSUME Shallow, NEW d \in Dir \cup {NoDir}, NEW one, NEW two,
           \A x \in Dir : disk'[MarkerOf[x]] = Missing <=> disk[MarkerOf[x]] = Missing,
           \A x \in Dir : two[MainOf[x]] = Missing <=> one[MainOf[x]] = Missing
    PROVE  Found(d, two)' = Found(d, one)
<1> DEFINE climb == SubSeq(Chain[d], 1, IF Len(Chain[d]) < MaxDepth THEN Len(Chain[d]) ELSE MaxDepth)
           stops(now) == {i \in DOMAIN climb : \/ climb[i] \in DOMAIN Empty
                                               \/ now[MarkerOf[climb[i]]] # Missing}
           last(S) == IF S = {} THEN Len(climb) ELSE Min(S)
           main(S, src) == IF S = {} THEN NoMain
                ELSE IF climb[last(S)] \in DOMAIN Empty THEN Empty[climb[last(S)]]
                ELSE IF src[MainOf[climb[last(S)]]] # Missing THEN MainOf[climb[last(S)]]
                ELSE NoMain
<1>1. Found(d, one) = main(stops(disk), one)
    BY DEF Found, ProjectMainFor
<1>2. Found(d, two)' = main(stops(disk'), two)
    BY DEF Found, ProjectMainFor
<1>3. climb = Chain[d]
    BY ClimbIsChain
<1> HIDE DEF climb
<1>4. DOMAIN climb = 1 .. Len(climb) /\ Len(climb) \in Nat /\ \A i \in DOMAIN climb : climb[i] \in Dir
    BY <1>3, ChainFacts, ElementOfSeq
<1>5. stops(disk) = stops(disk')
    BY <1>4
<1>6. stops(disk) # {} => last(stops(disk)) \in DOMAIN climb
    BY <1>4, MinFacts
<1> HIDE DEF stops, last
<1>7. main(stops(disk), one) = main(stops(disk), two)
    <2>1. CASE stops(disk) = {}
        BY <2>1
    <2>2. CASE stops(disk) # {}
        BY <1>4, <1>6, <2>2
    <2> QED BY <2>1, <2>2
<1> QED BY <1>1, <1>2, <1>5, <1>7

\* A cache that no project file's coming or going has made wrong stays right.
LEMMA RightStays ==
    ASSUME Shallow, NEW c, CacheOK(c), NEW one, NEW two, Right(c, one),
           \A x \in Dir : disk'[MarkerOf[x]] = Missing <=> disk[MarkerOf[x]] = Missing,
           \A x \in Dir : two[MainOf[x]] = Missing <=> one[MainOf[x]] = Missing
    PROVE  \A d \in DOMAIN c : c[d] = Found(d, two)'
BY FoundAgrees DEF Right, CacheOK

\* A cache stays right when the same main.asm exist.
LEMMA RightSame ==
    ASSUME Shallow, NEW c, CacheOK(c), NEW one, NEW two, Right(c, one),
           \A x \in Dir : two[MainOf[x]] = Missing <=> one[MainOf[x]] = Missing
    PROVE  Right(c, two)
<1> SUFFICES ASSUME NEW d \in Dir PROVE Found(d, one) = Found(d, two)
    BY DEF Right, CacheOK
<1>1. CASE Marked(d) = {}
    BY <1>1, FoundFacts
<1>2. CASE Marked(d) # {}
    <2>1. Marked(d) \in SUBSET Nat /\ Marked(d) \subseteq DOMAIN Chain[d]
        BY ChainFacts DEF Marked
    <2>2. Min(Marked(d)) \in DOMAIN Chain[d]
        BY <1>2, <2>1, MinFacts
    <2>3. Chain[d][Min(Marked(d))] \in Dir
        BY <2>2, ChainFacts, ElementOfSeq
    <2> QED BY <1>2, <2>3, FoundFacts DEF MainAt
<1> QED BY <1>1, <1>2

\* The same, of the cache and the overlay of the state a step leads to.
LEMMA RightNow ==
    ASSUME Shallow, CacheOK(m_projectMain), Right(m_projectMain, Overlay(m_buffers)),
           m_projectMain' = m_projectMain,
           \A x \in Dir : disk'[MarkerOf[x]] = Missing <=> disk[MarkerOf[x]] = Missing,
           \A x \in Dir : Overlay(m_buffers)'[MainOf[x]] = Missing
                             <=> Overlay(m_buffers)[MainOf[x]] = Missing
    PROVE  Right(m_projectMain, Overlay(m_buffers))'
<1>1. PICK src : src = Overlay(m_buffers)'
    OBVIOUS
<1>2. \A d \in DOMAIN m_projectMain : m_projectMain[d] = Found(d, src)'
    BY <1>1, RightStays
<1> QED BY <1>1, <1>2 DEF Right

\* The step lemma of the methods that end in a reconcile.
LEMMA ReconcileInv ==
    ASSUME OneSpelling, IInv, NEW open, OpenOK(open), NEW buffers,
           DOMAIN buffers = {k \in DOMAIN open : open[k].path # NoPath},
           editor' \in [{open[k].uri : k \in DOMAIN open} -> Text],
           m_uriToKey' = [u \in DOMAIN editor' |-> KeyOf[u]],
           \A k \in DOMAIN open : editor'[open[k].uri] =
               IF open[k].path = NoPath THEN open[k].text ELSE buffers[k],
           NEW cfg \in Config, NEW c, CacheOK(c),
           NEW published, NEW pending, NEW dirty, NEW all \in BOOLEAN,
           all \/ Steady(open, buffers, cfg, dirty),
           Shallow /\ ProjectsKnown' => Right(c, Overlay(buffers)),
           WatchOK', disk' = disk, m_buffers' = buffers, m_cfg' = cfg,
           Reconcile(open, buffers, cfg, c, published, pending, dirty, all)
    PROVE  IInv'
<1>1. DiskOK /\ RootsOK /\ UnitsHoldSources /\ UnitsBuilt
    BY DEF IInv
<1>2. \A k \in DOMAIN buffers : buffers[k] \in Text
    <2> SUFFICES ASSUME NEW k \in DOMAIN buffers PROVE buffers[k] \in Text
        OBVIOUS
    <2>1. k \in DOMAIN open /\ buffers[k] = editor'[open[k].uri]
        OBVIOUS
    <2> QED BY <2>1
<1>3. OnDisk(Overlay(buffers))
    BY <1>1, <1>2, OverlayOnDisk
<1>4. UnitsHoldSources' /\ UnitsBuilt'
    BY <1>1, <1>3, ReconcileKeeps
<1>5. /\ CacheOK(m_projectMain')
      /\ Shallow /\ Right(c, Overlay(buffers)) => Right(m_projectMain', Overlay(buffers))
      /\ OpenOK(m_open') /\ DOMAIN m_open' = DOMAIN open
      /\ \A k \in DOMAIN open : /\ m_open'[k].uri = open[k].uri
                                /\ m_open'[k].path = open[k].path
                                /\ m_open'[k].text = open[k].text
      /\ OwnersOK' /\ UnitsUsed' /\ RootsOK'
    BY <1>1, <1>3, Reconciled
<1>6. Overlay(m_buffers)' = Overlay(buffers)
    BY DEF Overlay
<1>7. CacheRight'
    <2> SUFFICES ASSUME Shallow, ProjectsKnown'
                 PROVE  Right(m_projectMain, Overlay(m_buffers))'
        BY DEF CacheRight
    <2>1. PICK src : src = Overlay(buffers)
        OBVIOUS
    <2>2. Right(m_projectMain', src)
        BY <1>5, <2>1
    <2>3. \A d \in Dir : Found(d, src)' = Found(d, src)
        BY FoundAgrees
    <2>4. \A d \in DOMAIN m_projectMain' : m_projectMain'[d] = Found(d, src)'
        BY <1>5, <2>2, <2>3 DEF Right, CacheOK
    <2>5. Overlay(m_buffers)' = src
        BY <1>6, <2>1
    <2> QED BY <2>4, <2>5 DEF Right
<1>8. {m_open'[k].uri : k \in DOMAIN m_open'} = {open[k].uri : k \in DOMAIN open}
    BY <1>5
<1>9. EditorOK'
    BY <1>5, <1>8 DEF EditorOK
<1>10. DiskOK'
    BY <1>1 DEF DiskOK
<1> QED BY <1>4, <1>5, <1>7, <1>9, <1>10 DEF IInv

-----------------------------------------------------------------------------
(* The steps.                                                              *)

\* A server starts with nothing open and nothing built.
LEMMA InitInv == Init => IInv
<1> SUFFICES ASSUME Init PROVE IInv
    OBVIOUS
<1>1. DOMAIN Empty = {}
    BY DEF Empty
<1>2. DiskOK
    <2>1. disk \in [Key -> Content]
        BY DEF Init, Content
    <2>2. \A k \in Key \ DiskKey : disk[k] = Missing
        BY DEF Init
    <2> QED BY <2>1, <2>2 DEF DiskOK
<1>3. WatchOK
    BY DEF Init, WatchOK
<1>4. m_cfg \in Config
    BY DEF Init
<1>5. EditorOK
    <2>1. OpenOK(m_open)
        BY <1>1, FS_EmptySet DEF Init, OpenOK
    <2>2. {m_open[k].uri : k \in DOMAIN m_open} = {}
        BY <1>1 DEF Init
    <2>3. editor \in [{} -> Text] /\ m_uriToKey = [u \in DOMAIN editor |-> KeyOf[u]]
        BY DEF Init, Empty
    <2>4. DOMAIN m_buffers = {k \in DOMAIN m_open : m_open[k].path # NoPath}
        BY <1>1 DEF Init
    <2> QED BY <1>1, <2>1, <2>2, <2>3, <2>4 DEF EditorOK, Init
<1>6. /\ DOMAIN m_units = {} /\ DOMAIN m_open = {} /\ DOMAIN m_projectMain = {}
    BY <1>1 DEF Init
<1>7. CacheOK(m_projectMain) /\ OwnersOK /\ UnitsUsed /\ RootsOK /\ UnitsHoldSources /\ UnitsBuilt /\ CacheRight
    BY <1>6 DEF CacheOK, OwnersOK, UnitsUsed, RootsOK, UnitsHoldSources, UnitsBuilt, CacheRight, Right
<1> QED BY <1>2, <1>3, <1>4, <1>5, <1>7 DEF IInv

\* Where the documents of the editor are.
LEMMA EditorFacts ==
    ASSUME OneSpelling, EditorOK
    PROVE  /\ DOMAIN m_uriToKey = DOMAIN editor /\ DOMAIN editor \subseteq Uri
           /\ \A u \in DOMAIN editor :
                 /\ m_uriToKey[u] = KeyOf[u] /\ KeyOf[u] \in DOMAIN m_open
                 /\ m_open[KeyOf[u]].uri = u
           /\ \A u \in Uri \ DOMAIN editor : KeyOf[u] \notin DOMAIN m_open
           /\ \A k \in DOMAIN m_open : /\ k \in Key /\ m_open[k].uri \in DOMAIN editor
                                       /\ m_open[k].path = NoPath <=> k \notin DiskKey
                                       /\ m_open[k].path \in {k, NoPath}
           /\ \A k \in DOMAIN m_buffers : k \in DiskKey /\ m_buffers[k] \in Text
<1>1. /\ DOMAIN editor = {m_open[k].uri : k \in DOMAIN m_open}
      /\ m_uriToKey = [u \in DOMAIN editor |-> KeyOf[u]]
      /\ \A u \in DOMAIN editor : editor[u] \in Text
    BY DEF EditorOK
<1>2. \A k \in DOMAIN m_open :
         /\ m_open[k].uri \in Uri /\ KeyOf[m_open[k].uri] = k /\ k \in Key
         /\ m_open[k].path = IF m_open[k].uri \in FileUri THEN k ELSE NoPath
    BY DEF EditorOK, OpenOK, Document
<1>3. \A u \in DOMAIN editor : /\ u \in Uri /\ KeyOf[u] \in DOMAIN m_open /\ m_open[KeyOf[u]].uri = u
    BY <1>1, <1>2
<1>4. \A u \in Uri \ DOMAIN editor : KeyOf[u] \notin DOMAIN m_open
    BY <1>1, <1>2 DEF OneSpelling
<1>5. \A k \in DOMAIN m_open : m_open[k].path = NoPath <=> k \notin DiskKey
    <2> SUFFICES ASSUME NEW k \in DOMAIN m_open
                 PROVE  m_open[k].path = NoPath <=> k \notin DiskKey
        OBVIOUS
    <2>1. CASE m_open[k].uri \in FileUri
        <3>1. \A u \in Uri \ FileUri : KeyOf[u] # k
            BY <1>2, <2>1, UriAssumption DEF OneSpelling
        <3> QED BY <1>2, <2>1, <3>1, UriAssumption DEF DiskKey
    <2>2. CASE m_open[k].uri \notin FileUri
        BY <1>2, <2>2 DEF DiskKey
    <2> QED BY <2>1, <2>2
<1>6. \A k \in DOMAIN m_buffers : k \in DiskKey /\ m_buffers[k] \in Text
    BY <1>1, <1>2, <1>5 DEF EditorOK
<1> QED BY <1>1, <1>2, <1>3, <1>4, <1>5, <1>6

\* The files a project is known by.
LEMMA MainsAreFiles ==
    \A x \in Dir : /\ MarkerOf[x] \in ProjectFiles /\ MainOf[x] \in ProjectFiles
                   /\ MainOf[x] \in Keys /\ MainOf[x] \in Key
BY DirAssumption DEF ProjectFiles, Range, Keys

\* open keeps the invariant: a buffer that hides a missing file is recorded in blind,
\* unless it is a document without a path.
LEMMA OpenedInv ==
    ASSUME OneSpelling, IInv, NEW u \in Uri, NEW t \in TextsOf[KeyOf[u]], u \notin DOMAIN editor,
           Opened(u, t), editor' = Put(editor, u, t), UNCHANGED <<world, client, m_cfg>>
    PROVE  IInv'
<1> DEFINE k == KeyOf[u]
           doc == [uri |-> u, path |-> IF u \in FileUri THEN k ELSE NoPath, key |-> k,
                   text |-> IF u \in FileUri THEN EmptyText ELSE t, owner |-> NoKey]
           open == Put(m_open, k, doc)
           buffers == IF u \in FileUri THEN Put(m_buffers, k, t) ELSE m_buffers
<1>1. /\ EditorOK /\ DiskOK /\ WatchOK /\ m_cfg \in Config /\ CacheOK(m_projectMain) /\ CacheRight
      /\ OpenOK(m_open)
    BY DEF IInv, EditorOK
<1>2. k \in Key /\ k \notin DOMAIN m_open /\ t \in Text
    BY <1>1, EditorFacts, UriAssumption, TextAssumption
<1>3. /\ m_uriToKey' = Put(m_uriToKey, u, k) /\ m_buffers' = buffers
      /\ Reconcile(open, buffers, m_cfg, m_projectMain, m_published, m_pending, {k}, FALSE)
      /\ blind' = blind \cup (IF Overlay(m_buffers)[k] = Missing /\ u \in FileUri THEN {k} ELSE {})
    BY DEF Opened, KeyFor
<1>4. doc \in Document
    BY <1>2, TextAssumption DEF Document, Keys
<1>5. /\ DOMAIN open = DOMAIN m_open \cup {k} /\ open[k] = doc
      /\ \A j \in DOMAIN m_open : j # k /\ open[j] = m_open[j]
    BY <1>2 DEF Put
<1>6. /\ doc.uri = u /\ doc.key = k /\ doc.path = IF u \in FileUri THEN k ELSE NoPath
      /\ doc.text = IF u \in FileUri THEN EmptyText ELSE t
    OBVIOUS
<1> HIDE DEF open, doc
<1>7. OpenOK(open)
    <2>1. IsFiniteSet(DOMAIN open) /\ DOMAIN open \subseteq Key
        BY <1>1, <1>2, <1>5, FS_AddElement DEF OpenOK
    <2> QED BY <1>1, <1>4, <1>5, <1>6, <2>1 DEF OpenOK
<1>8. /\ DOMAIN buffers = {j \in DOMAIN open : open[j].path # NoPath}
      /\ u \in FileUri => buffers[k] = t
      /\ \A j \in DOMAIN m_open : j \in DOMAIN buffers <=> j \in DOMAIN m_buffers
      /\ \A j \in DOMAIN m_buffers : buffers[j] = m_buffers[j]
    <2>1. DOMAIN m_buffers = {j \in DOMAIN m_open : m_open[j].path # NoPath}
        BY <1>1 DEF EditorOK
    <2>2. CASE u \in FileUri
        <3>1. DOMAIN buffers = DOMAIN m_buffers \cup {k} /\ buffers[k] = t
              /\ \A j \in DOMAIN m_buffers : j # k => buffers[j] = m_buffers[j]
            BY <2>2 DEF Put
        <3>2. open[k].path # NoPath
            BY <1>2, <1>5, <1>6, <2>2, UriAssumption
        <3> HIDE DEF buffers, k
        <3>3. DOMAIN buffers = {j \in DOMAIN open : open[j].path # NoPath}
            BY <1>5, <2>1, <3>1, <3>2
        <3>4. \A j \in DOMAIN m_open : j \in DOMAIN buffers <=> j \in DOMAIN m_buffers
            BY <1>5, <3>1
        <3>5. \A j \in DOMAIN m_buffers : buffers[j] = m_buffers[j]
            BY <1>5, <2>1, <3>1
        <3> QED BY <3>1, <3>3, <3>4, <3>5
    <2>3. CASE u \notin FileUri
        <3>1. buffers = m_buffers /\ open[k].path = NoPath
            BY <1>5, <1>6, <2>3
        <3> HIDE DEF buffers, k
        <3> QED BY <1>5, <2>1, <2>3, <3>1
    <2> QED BY <2>2, <2>3
<1>9. \A j \in Keys \ {k} : Overlay(buffers)[j] = Overlay(m_buffers)[j]
    BY DEF Overlay, Put
<1>10. u \notin FileUri => Overlay(buffers)[k] = Overlay(m_buffers)[k]
    OBVIOUS
<1>11. u \in FileUri => Overlay(buffers)[k] = t
    BY <1>2, <1>5, <1>6, <1>8, UriAssumption DEF Overlay, Keys
<1> HIDE DEF buffers
<1>12. /\ DOMAIN editor' = DOMAIN editor \cup {u} /\ editor'[u] = t
       /\ \A v \in DOMAIN editor : v # u /\ editor'[v] = editor[v] /\ editor[v] \in Text
    BY <1>1 DEF Put, EditorOK
<1>13. editor' \in [{open[j].uri : j \in DOMAIN open} -> Text]
    <2>1. {open[j].uri : j \in DOMAIN open} = {m_open[j].uri : j \in DOMAIN m_open} \cup {u}
        BY <1>5, <1>6
    <2>2. DOMAIN editor' = {open[j].uri : j \in DOMAIN open}
        BY <1>1, <1>12, <2>1 DEF EditorOK
    <2>3. \A v \in DOMAIN editor' : editor'[v] \in Text
        BY <1>2, <1>12
    <2>4. editor' = [v \in DOMAIN editor' |-> editor'[v]]
        BY DEF Put
    <2> QED BY <2>2, <2>3, <2>4
<1>14. m_uriToKey' = [v \in DOMAIN editor' |-> KeyOf[v]]
    BY <1>1, <1>3, <1>12 DEF Put, EditorOK
<1>15. \A j \in DOMAIN open : editor'[open[j].uri] =
           IF open[j].path = NoPath THEN open[j].text ELSE buffers[j]
    <2>1. editor'[open[k].uri] = IF open[k].path = NoPath THEN open[k].text ELSE buffers[k]
        BY <1>2, <1>5, <1>6, <1>8, <1>12, UriAssumption
    <2>2. ASSUME NEW j \in DOMAIN m_open
          PROVE  editor'[open[j].uri] = IF open[j].path = NoPath THEN open[j].text ELSE buffers[j]
        <3>1. m_open[j].uri \in DOMAIN editor
            BY <1>1 DEF EditorOK
        <3>2. m_open[j].path # NoPath => j \in DOMAIN m_buffers /\ buffers[j] = m_buffers[j]
            BY <1>1, <1>8 DEF EditorOK
        <3> QED BY <1>1, <1>5, <1>12, <3>1, <3>2 DEF EditorOK
    <2> QED BY <1>5, <2>1, <2>2
<1>16. Steady(open, buffers, m_cfg, {k})
    <2>1. watch' = watch
        BY DEF world
    <2>2. \A j : /\ Reported(j)' <=> Reported(j)
                 /\ Event(j, "Created")' <=> Event(j, "Created")
                 /\ Event(j, "Deleted")' <=> Event(j, "Deleted")
        BY <2>1 DEF Reported, Event
    <2>3. \A j \in Keys \ {k} : (j \in DOMAIN open <=> j \in DOMAIN m_open)
                             /\ (j \in DOMAIN open => open[j] = m_open[j])
        BY <1>5
    <2>4. \A j \in blind : j \in blind'
        BY <1>3
    <2>5. Overlay(m_buffers)[k] = Missing => k \in blind' \/ Overlay(buffers)[k] = Missing
        BY <1>3, <1>10
    <2> HIDE DEF k
    <2> QED BY <1>9, <2>2, <2>3, <2>4, <2>5 DEF Steady
<1>17. Shallow /\ ProjectsKnown' => Right(m_projectMain, Overlay(buffers))
    <2> SUFFICES ASSUME Shallow, ProjectsKnown' PROVE Right(m_projectMain, Overlay(buffers))
        OBVIOUS
    <2>1. watch' = watch /\ disk' = disk
        BY DEF world
    <2>2. ProjectsKnown
        BY <1>3, <2>1 DEF ProjectsKnown
    <2>3. Right(m_projectMain, Overlay(m_buffers))
        BY <1>1, <2>2 DEF CacheRight
    <2>4. \A x \in Dir : Overlay(buffers)[MainOf[x]] = Missing <=> Overlay(m_buffers)[MainOf[x]] = Missing
        <3> SUFFICES ASSUME NEW x \in Dir
                     PROVE  Overlay(buffers)[MainOf[x]] = Missing <=> Overlay(m_buffers)[MainOf[x]] = Missing
            OBVIOUS
        <3>1. CASE MainOf[x] # k
            BY <1>9, <3>1, MainsAreFiles
        <3>2. CASE MainOf[x] = k /\ u \notin FileUri
            BY <1>10, <3>2
        <3>3. CASE MainOf[x] = k /\ u \in FileUri
            <4>1. k \in ProjectFiles /\ k \notin blind'
                BY <3>3, MainsAreFiles DEF ProjectsKnown
            <4>2. Overlay(m_buffers)[k] # Missing
                BY <1>3, <3>3, <4>1
            <4> QED BY <1>2, <1>11, <3>3, <4>2, TextAssumption
        <3> QED BY <3>1, <3>2, <3>3
    <2> QED BY <1>1, <2>1, <2>3, <2>4, RightSame
<1>18. WatchOK' /\ disk' = disk /\ m_cfg' = m_cfg
    BY <1>1 DEF WatchOK, world
<1> QED BY <1>1, <1>3, <1>7, <1>8, <1>13, <1>14, <1>15, <1>16, <1>17, <1>18, ReconcileInv

\* change keeps it: the units with the document are rebuilt, and a file neither comes
\* nor goes.
LEMMA ChangedInv ==
    ASSUME OneSpelling, IInv, NEW u \in Uri, NEW t \in TextsOf[KeyOf[u]], u \in DOMAIN m_uriToKey,
           Changed(u, t), editor' = Put(editor, u, t), UNCHANGED <<world, client, m_cfg>>
    PROVE  IInv'
<1> DEFINE k == KeyOf[u]
           doc == m_open[k]
           filed == doc.path # NoPath
           buffers == IF filed THEN Put(m_buffers, k, t) ELSE m_buffers
           new == IF filed THEN doc ELSE [doc EXCEPT !.text = t]
           open == Put(m_open, k, new)
<1>1. /\ EditorOK /\ DiskOK /\ WatchOK /\ m_cfg \in Config /\ CacheOK(m_projectMain) /\ CacheRight
      /\ OpenOK(m_open)
    BY DEF IInv, EditorOK
<1>2. /\ m_uriToKey[u] = k /\ u \in DOMAIN editor /\ k \in Key /\ k \in DOMAIN m_open /\ t \in Text
      /\ doc \in Document /\ doc.uri = u /\ doc.key = k /\ doc.path \in {k, NoPath}
      /\ m_uriToKey = [v \in DOMAIN editor |-> KeyOf[v]]
    <2>1. t \in Text
        BY UriAssumption, TextAssumption
    <2>2. u \in DOMAIN editor /\ m_uriToKey[u] = k /\ k \in DOMAIN m_open /\ k \in Key /\ doc.uri = u
          /\ doc.path \in {k, NoPath}
        BY <1>1, EditorFacts
    <2> QED BY <1>1, <2>1, <2>2 DEF OpenOK, EditorOK
<1>3. /\ m_buffers' = buffers
      /\ Reconcile(open, buffers, m_cfg, m_projectMain, m_published, m_pending, {k}, FALSE)
      /\ m_uriToKey' = m_uriToKey /\ blind' = blind
    <2>1. DocAt(k) = doc
        BY <1>2 DEF DocAt
    <2>2. /\ m_buffers' = IF doc.path = NoPath THEN m_buffers ELSE Put(m_buffers, doc.path, t)
          /\ Reconcile(Put(m_open, k, IF doc.path = NoPath THEN [doc EXCEPT !.text = t] ELSE doc),
                  IF doc.path = NoPath THEN m_buffers ELSE Put(m_buffers, doc.path, t),
                  m_cfg, m_projectMain, m_published, m_pending, {doc.key}, FALSE)
          /\ m_uriToKey' = m_uriToKey /\ blind' = blind
        BY <1>2, <2>1, Zenon DEF Changed
    <2>3. (IF doc.path = NoPath THEN m_buffers ELSE Put(m_buffers, doc.path, t)) = buffers
        BY <1>2
    <2>4. (IF doc.path = NoPath THEN [doc EXCEPT !.text = t] ELSE doc) = new /\ doc.key = k
        BY <1>2
    <2> QED BY <2>2, <2>3, <2>4
<1>4. /\ new \in Document /\ new.uri = u /\ new.key = k /\ new.path = doc.path
      /\ ~filed => new.text = t
    BY <1>2 DEF Document
<1>5. /\ DOMAIN open = DOMAIN m_open /\ open[k] = new
      /\ \A j \in DOMAIN m_open : j # k => open[j] = m_open[j]
    BY <1>2 DEF Put
<1> HIDE DEF open, new
<1>6. OpenOK(open)
    BY <1>1, <1>2, <1>4, <1>5 DEF OpenOK
<1>7. DOMAIN m_buffers = {j \in DOMAIN m_open : m_open[j].path # NoPath}
    BY <1>1 DEF EditorOK
<1>8. /\ DOMAIN buffers = DOMAIN m_buffers
      /\ filed => buffers[k] = t /\ k \in DOMAIN buffers
      /\ \A j \in DOMAIN m_buffers : j # k => buffers[j] = m_buffers[j]
    BY <1>2, <1>7 DEF Put
<1>9. /\ \A j \in Keys \ {k} : Overlay(buffers)[j] = Overlay(m_buffers)[j]
      /\ ~filed => Overlay(buffers)[k] = Overlay(m_buffers)[k]
    BY DEF Overlay, Put
<1>10. Overlay(buffers)[k] = Missing <=> Overlay(m_buffers)[k] = Missing
    <2>1. CASE filed
        <3>1. Overlay(buffers)[k] = t /\ Overlay(m_buffers)[k] = m_buffers[k]
            BY <1>2, <1>8, <2>1 DEF Overlay, Keys
        <3>2. m_buffers[k] \in Text
            BY <1>1, <1>8, <2>1, EditorFacts
        <3> QED BY <1>2, <3>1, <3>2, TextAssumption
    <2> QED BY <1>9, <2>1
<1> HIDE DEF buffers
<1>11. DOMAIN buffers = {j \in DOMAIN open : open[j].path # NoPath}
    BY <1>4, <1>5, <1>7, <1>8
<1>12. /\ DOMAIN editor' = DOMAIN editor /\ editor'[u] = t
       /\ \A v \in DOMAIN editor : editor'[v] \in Text /\ (v # u => editor'[v] = editor[v])
       /\ editor' = [v \in DOMAIN editor' |-> editor'[v]]
    BY <1>1, <1>2 DEF Put, EditorOK
<1>13. editor' \in [{open[j].uri : j \in DOMAIN open} -> Text]
    <2>1. {open[j].uri : j \in DOMAIN open} = {m_open[j].uri : j \in DOMAIN m_open}
        BY <1>2, <1>4, <1>5
    <2> QED BY <1>1, <1>12, <2>1 DEF EditorOK
<1>14. m_uriToKey' = [v \in DOMAIN editor' |-> KeyOf[v]]
    BY <1>2, <1>3, <1>12
<1>15. \A j \in DOMAIN open : editor'[open[j].uri] =
           IF open[j].path = NoPath THEN open[j].text ELSE buffers[j]
    <2>1. editor'[open[k].uri] = IF open[k].path = NoPath THEN open[k].text ELSE buffers[k]
        BY <1>4, <1>5, <1>8, <1>12
    <2>2. ASSUME NEW j \in DOMAIN m_open, j # k
          PROVE  editor'[open[j].uri] = IF open[j].path = NoPath THEN open[j].text ELSE buffers[j]
        <3>1. m_open[j].uri \in DOMAIN editor /\ m_open[j].uri # u
            BY <1>1, <1>2, <2>2 DEF EditorOK, OpenOK
        <3>2. m_open[j].path # NoPath => buffers[j] = m_buffers[j]
            BY <1>7, <1>8, <2>2
        <3> QED BY <1>1, <1>5, <1>12, <2>2, <3>1, <3>2 DEF EditorOK
    <2> QED BY <1>5, <2>1, <2>2
<1>16. watch' = watch /\ disk' = disk /\ m_cfg' = m_cfg
    BY DEF world
<1>17. Steady(open, buffers, m_cfg, {k})
    <2>1. \A j : /\ Reported(j)' <=> Reported(j)
                 /\ Event(j, "Created")' <=> Event(j, "Created")
                 /\ Event(j, "Deleted")' <=> Event(j, "Deleted")
        BY <1>16 DEF Reported, Event
    <2>2. \A j \in Keys \ {k} : (j \in DOMAIN open <=> j \in DOMAIN m_open)
                             /\ (j \in DOMAIN open => open[j] = m_open[j])
        BY <1>5
    <2> HIDE DEF k
    <2> QED BY <1>3, <1>9, <1>10, <2>1, <2>2 DEF Steady
<1>18. Shallow /\ ProjectsKnown' => Right(m_projectMain, Overlay(buffers))
    <2> SUFFICES ASSUME Shallow, ProjectsKnown' PROVE Right(m_projectMain, Overlay(buffers))
        OBVIOUS
    <2>1. Right(m_projectMain, Overlay(m_buffers))
        BY <1>1, <1>3, <1>16 DEF CacheRight, ProjectsKnown
    <2>2. \A x \in Dir : Overlay(buffers)[MainOf[x]] = Missing <=> Overlay(m_buffers)[MainOf[x]] = Missing
        <3> HIDE DEF k
        <3> QED BY <1>9, <1>10, MainsAreFiles
    <2> QED BY <1>1, <2>1, <2>2, RightSame
<1>19. WatchOK'
    BY <1>1, <1>16 DEF WatchOK
<1> QED BY <1>1, <1>3, <1>6, <1>11, <1>13, <1>14, <1>15, <1>16, <1>17, <1>18, <1>19, ReconcileInv

\* close keeps it: the disk's text shows again, or the file is gone for the units with it,
\* and for m_projectMain, which blind records.
LEMMA CloseInv ==
    ASSUME OneSpelling, IInv, NEW u \in Uri, Close(u)
    PROVE  IInv'
<1> DEFINE k == KeyOf[u]
           doc == m_open[k]
           filed == doc.path # NoPath
           buffers == IF filed THEN Drop(m_buffers, k) ELSE m_buffers
           open == Drop(m_open, k)
<1>1. /\ EditorOK /\ DiskOK /\ WatchOK /\ m_cfg \in Config /\ CacheOK(m_projectMain) /\ CacheRight
      /\ OpenOK(m_open)
    BY DEF IInv, EditorOK
<1>2. /\ m_uriToKey[u] = k /\ u \in DOMAIN editor /\ k \in Key /\ k \in DOMAIN m_open
      /\ doc.uri = u /\ doc.path \in {k, NoPath} /\ (doc.path = NoPath <=> k \notin DiskKey)
      /\ m_uriToKey = [v \in DOMAIN editor |-> KeyOf[v]]
    BY <1>1, EditorFacts DEF EditorOK, Close
<1>3. /\ m_buffers' = buffers /\ m_uriToKey' = Drop(m_uriToKey, u)
      /\ Reconcile(open, buffers, m_cfg, m_projectMain, Unpublished(u),
                   Append(m_pending, [uri |-> u, diags |-> {}]), {k}, FALSE)
      /\ blind' = blind \cup (IF k \in ProjectFiles /\ disk[k] = Missing THEN {k} ELSE {})
      /\ editor' = Drop(editor, u) /\ UNCHANGED <<world, client, m_cfg>>
    <2>1. DocAt(k) = doc
        BY <1>2 DEF DocAt
    <2>2. (IF doc.path = NoPath THEN m_buffers ELSE Drop(m_buffers, doc.path)) = buffers
        BY <1>2
    <2> QED BY <1>2, <2>1, <2>2 DEF Close
<1>4. /\ DOMAIN open = DOMAIN m_open \ {k}
      /\ \A j \in DOMAIN open : open[j] = m_open[j]
    BY DEF Drop
<1> HIDE DEF open
<1>5. OpenOK(open)
    <2>1. IsFiniteSet(DOMAIN open)
        BY <1>1, <1>4, FS_RemoveElement DEF OpenOK
    <2> QED BY <1>1, <1>4, <2>1 DEF OpenOK
<1>6. DOMAIN m_buffers = {j \in DOMAIN m_open : m_open[j].path # NoPath}
    BY <1>1 DEF EditorOK
<1>7. /\ DOMAIN buffers = DOMAIN m_buffers \ {k}
      /\ \A j \in DOMAIN buffers : buffers[j] = m_buffers[j]
    BY <1>2, <1>6 DEF Drop
<1>8. \A j \in Keys \ {k} : Overlay(buffers)[j] = Overlay(m_buffers)[j]
    BY <1>7 DEF Overlay
<1>9. /\ Overlay(buffers)[k] = disk[k]
      /\ ~filed => Overlay(m_buffers)[k] = Missing /\ disk[k] = Missing
      /\ filed => Overlay(m_buffers)[k] # Missing
    <2>1. Overlay(buffers)[k] = disk[k]
        BY <1>2, <1>7 DEF Overlay, Keys
    <2>2. CASE filed
        <3>1. k \in DOMAIN m_buffers /\ m_buffers[k] \in Text
            BY <1>1, <1>2, <1>6, <2>2, EditorFacts
        <3> QED BY <1>2, <2>1, <2>2, <3>1, TextAssumption DEF Overlay, Keys
    <2>3. CASE ~filed
        <3>1. k \notin DOMAIN m_buffers /\ disk[k] = Missing
            BY <1>1, <1>2, <1>6, <2>3 DEF DiskOK
        <3> QED BY <1>2, <2>1, <2>3, <3>1 DEF Overlay, Keys
    <2> QED BY <2>1, <2>2, <2>3
<1> HIDE DEF buffers
<1>10. DOMAIN buffers = {j \in DOMAIN open : open[j].path # NoPath}
    BY <1>4, <1>6, <1>7
<1>11. /\ DOMAIN editor' = DOMAIN editor \ {u}
       /\ \A v \in DOMAIN editor' : editor'[v] \in Text /\ editor'[v] = editor[v]
       /\ editor' = [v \in DOMAIN editor' |-> editor'[v]]
    BY <1>1, <1>3 DEF Drop, EditorOK
<1>12. \A j \in DOMAIN open : open[j].uri \in DOMAIN editor'
    BY <1>1, <1>2, <1>4, <1>11 DEF EditorOK, OpenOK
<1>13. editor' \in [{open[j].uri : j \in DOMAIN open} -> Text]
    <2>1. \A v \in DOMAIN editor' : \E j \in DOMAIN open : v = open[j].uri
        BY <1>1, <1>2, <1>4, <1>11 DEF EditorOK
    <2>2. DOMAIN editor' = {open[j].uri : j \in DOMAIN open}
        BY <1>12, <2>1
    <2> QED BY <1>11, <2>2
<1>14. m_uriToKey' = [v \in DOMAIN editor' |-> KeyOf[v]]
    BY <1>2, <1>3, <1>11 DEF Drop
<1>15. \A j \in DOMAIN open : editor'[open[j].uri] =
           IF open[j].path = NoPath THEN open[j].text ELSE buffers[j]
    BY <1>1, <1>4, <1>7, <1>10, <1>11, <1>12 DEF EditorOK
<1>16. watch' = watch /\ disk' = disk /\ m_cfg' = m_cfg
    BY <1>3 DEF world
<1>17. Steady(open, buffers, m_cfg, {k})
    <2>1. \A j : /\ Reported(j)' <=> Reported(j)
                 /\ Event(j, "Created")' <=> Event(j, "Created")
                 /\ Event(j, "Deleted")' <=> Event(j, "Deleted")
        BY <1>16 DEF Reported, Event
    <2>2. \A j \in Keys \ {k} : (j \in DOMAIN open <=> j \in DOMAIN m_open)
                             /\ (j \in DOMAIN open => open[j] = m_open[j])
        BY <1>4
    <2>3. \A j \in blind : j \in blind'
        BY <1>3
    <2>4. Overlay(m_buffers)[k] = Missing => Overlay(buffers)[k] = Missing
        BY <1>9
    <2> HIDE DEF k
    <2> QED BY <1>8, <2>1, <2>2, <2>3, <2>4 DEF Steady
<1>18. Shallow /\ ProjectsKnown' => Right(m_projectMain, Overlay(buffers))
    <2> SUFFICES ASSUME Shallow, ProjectsKnown' PROVE Right(m_projectMain, Overlay(buffers))
        OBVIOUS
    <2>1. ProjectsKnown
        BY <1>3, <1>16 DEF ProjectsKnown
    <2>2. Right(m_projectMain, Overlay(m_buffers))
        BY <1>1, <2>1 DEF CacheRight
    <2>3. \A x \in Dir : Overlay(buffers)[MainOf[x]] = Missing <=> Overlay(m_buffers)[MainOf[x]] = Missing
        <3> SUFFICES ASSUME NEW x \in Dir
                     PROVE  Overlay(buffers)[MainOf[x]] = Missing <=> Overlay(m_buffers)[MainOf[x]] = Missing
            OBVIOUS
        <3>1. CASE MainOf[x] # k
            BY <1>8, <3>1, MainsAreFiles
        <3>2. CASE MainOf[x] = k
            <4>1. k \in ProjectFiles /\ k \notin blind'
                BY <3>2, MainsAreFiles DEF ProjectsKnown
            <4>2. disk[k] # Missing
                BY <1>3, <4>1
            <4> QED BY <1>9, <3>2, <4>2
        <3> QED BY <3>1, <3>2
    <2> QED BY <1>1, <2>2, <2>3, RightSame
<1>19. WatchOK'
    BY <1>1, <1>16 DEF WatchOK
<1> QED BY <1>1, <1>3, <1>5, <1>10, <1>13, <1>14, <1>15, <1>16, <1>17, <1>18, <1>19, ReconcileInv

WatchEvent == [key : DiskKey, change : {"Created", "Changed", "Deleted"}]

\* Delivering the oldest event takes nothing else from the client's list.
LEMMA Delivered ==
    ASSUME WatchOK, watch # <<>>, watch' = Tail(watch)
    PROVE  /\ WatchOK' /\ Head(watch) \in WatchEvent
           /\ \A j, c : Event(j, c) => Event(j, c)' \/ (j = Head(watch).key /\ c = Head(watch).change)
           /\ \A j : Reported(j)' /\ j # Head(watch).key => Reported(j)
           /\ \A i \in DOMAIN watch : watch[i] = Head(watch) \/ \E n \in DOMAIN watch' : watch'[n] = watch[i]
<1>1. watch \in Seq(WatchEvent)
    BY DEF WatchOK, WatchEvent
<1>2. /\ Head(watch) \in WatchEvent /\ Head(watch) = watch[1]
      /\ watch' \in Seq(WatchEvent) /\ Len(watch') = Len(watch) - 1
      /\ \A i \in 1 .. Len(watch') : watch'[i] = watch[i + 1]
    BY <1>1, HeadTailProperties
<1>3. /\ DOMAIN watch = 1 .. Len(watch) /\ DOMAIN watch' = 1 .. Len(watch')
      /\ Len(watch) \in Nat /\ Len(watch') \in Nat
    BY <1>1, <1>2, LenProperties
<1>4. \A i \in DOMAIN watch : watch[i] = Head(watch) \/ \E n \in DOMAIN watch' : watch'[n] = watch[i]
    <2> SUFFICES ASSUME NEW i \in DOMAIN watch, i # 1
                 PROVE  \E n \in DOMAIN watch' : watch'[n] = watch[i]
        BY <1>2
    <2>1. i - 1 \in DOMAIN watch' /\ (i - 1) + 1 = i
        BY <1>2, <1>3
    <2>2. watch'[i - 1] = watch[i]
        BY <1>2, <1>3, <2>1
    <2> QED BY <2>1, <2>2
<1>5. WatchOK'
    BY <1>2 DEF WatchOK, WatchEvent
<1>6. \A j, c : Event(j, c) => Event(j, c)' \/ (j = Head(watch).key /\ c = Head(watch).change)
    BY <1>4 DEF Event
<1>7. \A j : Reported(j)' /\ j # Head(watch).key => Reported(j)
    BY <1>4 DEF Reported
<1> QED BY <1>2, <1>4, <1>5, <1>6, <1>7

\* An event for a file that the editor holds open: nothing is served anew.
LEMMA IgnoredInv ==
    ASSUME OneSpelling, IInv, watch # <<>>, watch' = Tail(watch),
           Head(watch).key \in DOMAIN m_open,
           blind' = blind \cup
               (IF Head(watch).change = "Created"
                   \/ (Head(watch).change = "Deleted" /\ Head(watch).key \in ProjectFiles)
                THEN {Head(watch).key} ELSE {}),
           UNCHANGED <<served, disk, editor>>
    PROVE  IInv'
<1> DEFINE k == Head(watch).key
           change == Head(watch).change
<1>1. /\ EditorOK /\ DiskOK /\ WatchOK /\ m_cfg \in Config /\ CacheOK(m_projectMain) /\ CacheRight
      /\ OwnersOK /\ UnitsUsed /\ RootsOK /\ UnitsHoldSources /\ UnitsBuilt
    BY DEF IInv
<1>2. /\ WatchOK' /\ k \in DiskKey /\ change \in {"Created", "Changed", "Deleted"}
      /\ \A j, c : Event(j, c) => Event(j, c)' \/ (j = k /\ c = change)
      /\ \A j : Reported(j)' /\ j # k => Reported(j)
      /\ \A i \in DOMAIN watch : watch[i] = Head(watch) \/ \E n \in DOMAIN watch' : watch'[n] = watch[i]
    BY <1>1, Delivered DEF WatchEvent
<1>3. /\ m_buffers' = m_buffers /\ m_cfg' = m_cfg /\ m_open' = m_open /\ m_uriToKey' = m_uriToKey
      /\ m_units' = m_units /\ m_projectMain' = m_projectMain /\ disk' = disk /\ editor' = editor
    BY DEF served
<1>4. EditorOK' /\ DiskOK' /\ CacheOK(m_projectMain)' /\ OwnersOK' /\ UnitsUsed' /\ RootsOK'
    BY <1>1, <1>3 DEF EditorOK, OpenOK, DiskOK, CacheOK, OwnersOK, UnitsUsed, RootsOK, Owns, MainIn, CachedMain, Cached
<1>5. \A j : SourceText(j)' = SourceText(j)
    BY <1>3 DEF SourceText, Sources, Overlay
<1>6. Overlay(m_buffers)' = Overlay(m_buffers)
    BY <1>3 DEF Overlay
<1>7. k \in Keys /\ Overlay(m_buffers)[k] # Missing
    <2>1. k \in DOMAIN m_buffers /\ m_buffers[k] \in Text
        BY <1>1, <1>2, EditorFacts DEF EditorOK
    <2> QED BY <1>2, <2>1, TextAssumption DEF Overlay, DiskKey, Keys
<1>8. /\ \A j \in blind : j \in blind'
      /\ change = "Created" => k \in blind'
      /\ change = "Deleted" /\ k \in ProjectFiles => k \in blind'
    OBVIOUS
<1> HIDE DEF k, change
<1>9. UnitsHoldSources'
    <2> SUFFICES ASSUME NEW r \in DOMAIN m_units, NEW j \in DOMAIN m_units[r].text,
                        j \in DOMAIN m_open \/ Reported(j)'
                 PROVE  m_units[r].text[j] = SourceText(j)
        BY <1>3, <1>5 DEF UnitsHoldSources
    <2>1. j \in DOMAIN m_open \/ Reported(j)
        BY <1>2 DEF k
    <2> QED BY <1>1, <2>1 DEF UnitsHoldSources
<1>10. UnitsBuilt'
    <2> SUFFICES ASSUME NEW r \in DOMAIN m_units PROVE \E src \in Readings : BuiltFrom(r, src)'
        BY <1>3 DEF UnitsBuilt
    <2>1. PICK src \in Readings : BuiltFrom(r, src)
        BY <1>1 DEF UnitsBuilt
    <2>2. \A j \in Keys \ {r} : src[j] = Missing =>
              j \in blind' \/ Overlay(m_buffers)[j] = Missing \/ Event(j, "Created")'
        BY <1>2, <1>8, <2>1 DEF BuiltFrom
    <2>3. \A j \in DOMAIN m_units[r].text \ {r} :
              Overlay(m_buffers)[j] = Missing => Event(j, "Deleted")'
        BY <1>2, <1>7, <2>1 DEF BuiltFrom
    <2>4. BuiltFrom(r, src)'
        BY <1>3, <1>6, <2>1, <2>2, <2>3 DEF BuiltFrom
    <2> QED BY <2>4
<1>11. CacheRight'
    <2> SUFFICES ASSUME Shallow, ProjectsKnown' PROVE Right(m_projectMain, Overlay(m_buffers))'
        BY DEF CacheRight
    <2>1. ProjectsKnown
        <3>1. blind \cap ProjectFiles = {}
            BY <1>8 DEF ProjectsKnown
        <3>2. ASSUME NEW i \in DOMAIN watch, watch[i].key \in ProjectFiles
              PROVE  watch[i].change = "Changed"
            <4>1. CASE watch[i] = Head(watch)
                <5>1. k \in ProjectFiles /\ k \notin blind'
                    BY <3>2, <4>1 DEF k, ProjectsKnown
                <5>2. change = "Changed"
                    BY <1>2, <1>8, <5>1
                <5> QED BY <4>1, <5>2 DEF change
            <4>2. CASE \E n \in DOMAIN watch' : watch'[n] = watch[i]
                BY <3>2, <4>2 DEF ProjectsKnown
            <4> QED BY <1>2, <4>1, <4>2
        <3> QED BY <3>1, <3>2 DEF ProjectsKnown
    <2>2. Right(m_projectMain, Overlay(m_buffers))
        BY <1>1, <2>1 DEF CacheRight
    <2> QED BY <1>1, <1>3, <1>6, <2>2, RightNow
<1>12. m_cfg' \in Config
    BY <1>1, <1>3
<1> QED BY <1>2, <1>4, <1>9, <1>10, <1>11, <1>12 DEF IInv

\* A step that leaves the editor alone leaves the documents' texts alone.
LEMMA SameEditor ==
    ASSUME EditorOK, editor' = editor, m_uriToKey' = m_uriToKey
    PROVE  /\ OpenOK(m_open)
           /\ DOMAIN m_buffers = {k \in DOMAIN m_open : m_open[k].path # NoPath}
           /\ editor' \in [{m_open[k].uri : k \in DOMAIN m_open} -> Text]
           /\ m_uriToKey' = [u \in DOMAIN editor' |-> KeyOf[u]]
           /\ \A k \in DOMAIN m_open : editor'[m_open[k].uri] =
                 IF m_open[k].path = NoPath THEN m_open[k].text ELSE m_buffers[k]
BY DEF EditorOK

\* A cleared cache is right.
LEMMA EmptyRight == CacheOK(Empty) /\ \A src : Right(Empty, src)
BY DEF Empty, CacheOK, Right

\* fileChanged keeps it: a file that came or went rebuilds everything and clears the
\* cache, a changed one rebuilds the units with it, and an open one changes nothing.
LEMMA FileChangedInv == ASSUME OneSpelling, IInv, FileChanged PROVE IInv'
<1> DEFINE k == Head(watch).key
           change == Head(watch).change
           exists == change # "Changed"
<1>1. /\ EditorOK /\ DiskOK /\ WatchOK /\ m_cfg \in Config /\ CacheOK(m_projectMain) /\ CacheRight
    BY DEF IInv
<1>2. watch # <<>> /\ watch' = Tail(watch) /\ disk' = disk /\ editor' = editor
    BY DEF FileChanged
<1>3. /\ WatchOK' /\ change \in {"Created", "Changed", "Deleted"}
      /\ \A j, c : Event(j, c) => Event(j, c)' \/ (j = k /\ c = change)
      /\ \A j : Reported(j)' /\ j # k => Reported(j)
      /\ \A i \in DOMAIN watch : watch[i] = Head(watch) \/ \E n \in DOMAIN watch' : watch'[n] = watch[i]
    BY <1>1, <1>2, Delivered DEF WatchEvent
<1>4. CASE k \in DOMAIN m_open
    <2>1. /\ blind' = blind \cup
               (IF change = "Created" \/ (change = "Deleted" /\ k \in ProjectFiles) THEN {k} ELSE {})
          /\ UNCHANGED served
        BY <1>4 DEF FileChanged
    <2> QED BY <1>2, <1>4, <2>1, IgnoredInv
<1>5. CASE k \notin DOMAIN m_open
    <2> DEFINE cache == CacheAfter(k, change)
               dirty == IF exists THEN {} ELSE {k}
    <2>1. /\ Reconcile(m_open, m_buffers, m_cfg, cache, m_published, m_pending, dirty, exists)
          /\ blind' = (IF exists THEN {} ELSE blind)
          /\ m_buffers' = m_buffers /\ m_cfg' = m_cfg /\ m_uriToKey' = m_uriToKey
        BY <1>5 DEF FileChanged
    <2>2. CacheOK(cache) /\ cache \in {Empty, m_projectMain} /\ (exists => cache = Empty)
        BY <1>1, EmptyRight DEF CacheAfter
    <2>3. exists \/ Steady(m_open, m_buffers, m_cfg, dirty)
        <3> SUFFICES ASSUME change = "Changed" PROVE Steady(m_open, m_buffers, m_cfg, {k})
            OBVIOUS
        <3>1. \A j : /\ Event(j, "Created") => Event(j, "Created")'
                     /\ Event(j, "Deleted") => Event(j, "Deleted")'
            BY <1>3
        <3>2. \A j \in Keys \ {k} : Reported(j)' => Reported(j)
            BY <1>3
        <3>3. blind' = blind
            BY <2>1
        <3> HIDE DEF k, change
        <3> QED BY <3>1, <3>2, <3>3 DEF Steady
    <2>4. Shallow /\ ProjectsKnown' => Right(cache, Overlay(m_buffers))
        <3> SUFFICES ASSUME Shallow, ProjectsKnown', ~exists, cache = m_projectMain
                     PROVE  Right(m_projectMain, Overlay(m_buffers))
            BY <2>2, EmptyRight
        <3>1. \A i \in DOMAIN watch : watch[i].key \in ProjectFiles => watch[i].change = "Changed"
            BY <1>3 DEF ProjectsKnown
        <3>2. ProjectsKnown
            BY <2>1, <3>1 DEF ProjectsKnown
        <3> QED BY <1>1, <3>2 DEF CacheRight
    <2> HIDE DEF cache, k, change, dirty
    <2>5. exists \in BOOLEAN
        OBVIOUS
    <2> HIDE DEF exists
    <2>6. /\ OpenOK(m_open)
          /\ DOMAIN m_buffers = {j \in DOMAIN m_open : m_open[j].path # NoPath}
          /\ editor' \in [{m_open[j].uri : j \in DOMAIN m_open} -> Text]
          /\ m_uriToKey' = [u \in DOMAIN editor' |-> KeyOf[u]]
          /\ \A j \in DOMAIN m_open : editor'[m_open[j].uri] =
                IF m_open[j].path = NoPath THEN m_open[j].text ELSE m_buffers[j]
        BY <1>1, <1>2, <2>1, SameEditor
    <2> QED BY <1>1, <1>2, <1>3, <2>1, <2>2, <2>3, <2>4, <2>5, <2>6, ReconcileInv
<1> QED BY <1>4, <1>5

\* setPathConfig keeps it: all units are rebuilt, and the cache stays as right as it was.
LEMMA SetPathConfigInv == ASSUME OneSpelling, IInv, NEW cfg \in Config, SetPathConfig(cfg) PROVE IInv'
<1>1. /\ EditorOK /\ WatchOK /\ CacheOK(m_projectMain) /\ CacheRight
    BY DEF IInv
<1>2. /\ m_cfg' = cfg /\ blind' = blind \cap ProjectFiles
      /\ Reconcile(m_open, m_buffers, cfg, m_projectMain, m_published, m_pending, {}, TRUE)
      /\ watch' = watch /\ disk' = disk /\ editor' = editor
      /\ m_buffers' = m_buffers /\ m_uriToKey' = m_uriToKey
    BY DEF SetPathConfig, world
<1>3. WatchOK'
    BY <1>1, <1>2 DEF WatchOK
<1>4. Shallow /\ ProjectsKnown' => Right(m_projectMain, Overlay(m_buffers))
    <2>1. ProjectsKnown' => ProjectsKnown
        BY <1>2 DEF ProjectsKnown
    <2> QED BY <1>1, <2>1 DEF CacheRight
<1>5. /\ OpenOK(m_open)
      /\ DOMAIN m_buffers = {j \in DOMAIN m_open : m_open[j].path # NoPath}
      /\ editor' \in [{m_open[j].uri : j \in DOMAIN m_open} -> Text]
      /\ m_uriToKey' = [u \in DOMAIN editor' |-> KeyOf[u]]
      /\ \A j \in DOMAIN m_open : editor'[m_open[j].uri] =
            IF m_open[j].path = NoPath THEN m_open[j].text ELSE m_buffers[j]
    BY <1>1, <1>2, SameEditor
<1> QED BY <1>1, <1>2, <1>3, <1>4, <1>5, ReconcileInv

\* A change of the disk keeps it: the event on the way excuses what is out of date.
LEMMA DiskChangeInv ==
    ASSUME OneSpelling, IInv, NEW k \in DiskKey, NEW t \in TextsOf[k] \cup {Missing}, DiskChange(k, t)
    PROVE  IInv'
<1>1. /\ EditorOK /\ DiskOK /\ WatchOK /\ m_cfg \in Config /\ CacheOK(m_projectMain) /\ CacheRight
      /\ OwnersOK /\ UnitsUsed /\ RootsOK /\ UnitsHoldSources /\ UnitsBuilt
    BY DEF IInv
<1>2. /\ disk' = [disk EXCEPT ![k] = t] /\ disk[k] # t
      /\ editor' = editor /\ blind' = blind
      /\ m_buffers' = m_buffers /\ m_cfg' = m_cfg /\ m_open' = m_open /\ m_uriToKey' = m_uriToKey
      /\ m_units' = m_units /\ m_projectMain' = m_projectMain
    BY DEF DiskChange, served
<1>3. k \in Key /\ k \in Keys /\ t \in Content
    BY TextAssumption DEF DiskKey, Keys, Content
<1>4. PICK change \in {"Created", "Changed", "Deleted"} :
          /\ watch' = Append(watch, [key |-> k, change |-> change])
          /\ change = "Created" <=> disk[k] = Missing
          /\ t = Missing => change = "Deleted"
          /\ change = "Changed" => disk[k] # Missing /\ t # Missing
    BY <1>2 DEF DiskChange
<1> DEFINE event == [key |-> k, change |-> change]
<1>5. DiskOK'
    BY <1>1, <1>2, <1>3 DEF DiskOK, DiskKey
<1>6. /\ WatchOK' /\ \E n \in DOMAIN watch' : watch'[n] = event
      /\ \A i \in DOMAIN watch : \E n \in DOMAIN watch' : watch'[n] = watch[i]
    <2>1. watch \in Seq(WatchEvent) /\ event \in WatchEvent
        BY <1>1, <1>4 DEF WatchOK, WatchEvent
    <2>2. /\ watch' \in Seq(WatchEvent) /\ Len(watch') = Len(watch) + 1
          /\ \A i \in 1 .. Len(watch) : watch'[i] = watch[i]
          /\ watch'[Len(watch) + 1] = event
        BY <1>4, <2>1, AppendProperties
    <2>3. /\ DOMAIN watch = 1 .. Len(watch) /\ DOMAIN watch' = 1 .. Len(watch')
          /\ Len(watch) \in Nat
        BY <2>1, <2>2, LenProperties
    <2>4. Len(watch) + 1 \in DOMAIN watch' /\ DOMAIN watch \subseteq DOMAIN watch'
        BY <2>2, <2>3
    <2> QED BY <2>2, <2>3, <2>4 DEF WatchOK, WatchEvent
<1>7. /\ \A j, c : Event(j, c) => Event(j, c)'
      /\ Event(k, change)'
      /\ \A j : Reported(j)' => Reported(j) /\ j # k
    BY <1>6 DEF Event, Reported
<1>8. /\ \A j \in Keys \ {k} : Overlay(m_buffers)'[j] = Overlay(m_buffers)[j]
      /\ k \in DOMAIN m_buffers => Overlay(m_buffers)'[k] = Overlay(m_buffers)[k]
      /\ k \notin DOMAIN m_buffers => Overlay(m_buffers)'[k] = t /\ Overlay(m_buffers)[k] = disk[k]
    BY <1>1, <1>2, <1>3 DEF Overlay, DiskOK
<1>9. EditorOK' /\ CacheOK(m_projectMain)' /\ OwnersOK' /\ UnitsUsed' /\ RootsOK'
    BY <1>1, <1>2 DEF EditorOK, OpenOK, CacheOK, OwnersOK, UnitsUsed, RootsOK, Owns, MainIn, CachedMain, Cached
<1>10. \A j \in Keys : SourceText(j)' =
          LET now == IF j \in DOMAIN m_open /\ m_open[j].path = NoPath THEN m_open[j].text
                     ELSE Overlay(m_buffers)'[j]
          IN IF now = Missing THEN EmptyText ELSE now
    BY <1>2 DEF SourceText, Sources, Held
<1>11. \A j \in Keys : SourceText(j) =
          LET was == IF j \in DOMAIN m_open /\ m_open[j].path = NoPath THEN m_open[j].text
                     ELSE Overlay(m_buffers)[j]
          IN IF was = Missing THEN EmptyText ELSE was
    BY DEF SourceText, Sources, Held
<1>12. k \in DOMAIN m_open => k \in DOMAIN m_buffers
    BY <1>1, EditorFacts DEF EditorOK
<1>13. \A r \in DOMAIN m_units : r \in Keys /\ DOMAIN m_units[r].text \subseteq Keys
    <2> SUFFICES ASSUME NEW r \in DOMAIN m_units PROVE r \in Keys /\ DOMAIN m_units[r].text \subseteq Keys
        OBVIOUS
    <2>1. r \in Keys
        BY <1>1, EditorFacts DEF RootsOK, DiskKey, Keys
    <2>2. PICK src \in Readings : m_units[r] = Unit(r, src, m_cfg)
        BY <1>1 DEF UnitsBuilt, BuiltFrom
    <2> QED BY <1>1, <2>1, <2>2, UnitFacts
<1>14. UnitsHoldSources'
    <2> SUFFICES ASSUME NEW r \in DOMAIN m_units, NEW j \in DOMAIN m_units[r].text,
                        j \in DOMAIN m_open \/ Reported(j)'
                 PROVE  m_units[r].text[j] = SourceText(j)'
        BY <1>2 DEF UnitsHoldSources
    <2>1. j \in DOMAIN m_open \/ Reported(j)
        BY <1>7
    <2>2. j \in Keys /\ (j = k => j \in DOMAIN m_buffers)
        BY <1>7, <1>12, <1>13
    <2>3. Overlay(m_buffers)'[j] = Overlay(m_buffers)[j]
        BY <1>8, <2>2
    <2>4. SourceText(j)' = SourceText(j)
        BY <1>10, <1>11, <2>2, <2>3
    <2> QED BY <1>1, <2>1, <2>4 DEF UnitsHoldSources
<1>15. UnitsBuilt'
    <2> SUFFICES ASSUME NEW r \in DOMAIN m_units PROVE \E src \in Readings : BuiltFrom(r, src)'
        BY <1>2 DEF UnitsBuilt
    <2>1. PICK src \in Readings : BuiltFrom(r, src)
        BY <1>1 DEF UnitsBuilt
    <2>2. \A j \in Keys \ {r} : src[j] = Missing =>
              j \in blind \/ Overlay(m_buffers)'[j] = Missing \/ Event(j, "Created")'
        <3> SUFFICES ASSUME NEW j \in Keys \ {r}, src[j] = Missing
                     PROVE  j \in blind \/ Overlay(m_buffers)'[j] = Missing \/ Event(j, "Created")'
            OBVIOUS
        <3>1. j \in blind \/ Overlay(m_buffers)[j] = Missing \/ Event(j, "Created")
            BY <2>1 DEF BuiltFrom
        <3>2. CASE j # k \/ k \in DOMAIN m_buffers
            BY <1>7, <1>8, <3>1, <3>2
        <3>3. CASE j = k /\ k \notin DOMAIN m_buffers
            BY <1>4, <1>7, <1>8, <3>1, <3>3
        <3> QED BY <3>2, <3>3
    <2>3. \A j \in DOMAIN m_units[r].text \ {r} :
              Overlay(m_buffers)'[j] = Missing => Event(j, "Deleted")'
        <3> SUFFICES ASSUME NEW j \in DOMAIN m_units[r].text \ {r}, Overlay(m_buffers)'[j] = Missing
                     PROVE  Event(j, "Deleted")'
            OBVIOUS
        <3>1. j \in Keys /\ (Overlay(m_buffers)[j] = Missing => Event(j, "Deleted"))
            BY <1>13, <2>1 DEF BuiltFrom
        <3>2. CASE j # k \/ k \in DOMAIN m_buffers
            BY <1>7, <1>8, <3>1, <3>2
        <3>3. CASE j = k /\ k \notin DOMAIN m_buffers
            BY <1>4, <1>7, <1>8, <3>3
        <3> QED BY <3>2, <3>3
    <2>4. BuiltFrom(r, src)'
        BY <1>2, <2>1, <2>2, <2>3 DEF BuiltFrom
    <2> QED BY <2>4
<1>16. CacheRight'
    <2> SUFFICES ASSUME Shallow, ProjectsKnown' PROVE Right(m_projectMain, Overlay(m_buffers))'
        BY DEF CacheRight
    <2>1. ProjectsKnown
        <3>1. \A i \in DOMAIN watch : watch[i].key \in ProjectFiles => watch[i].change = "Changed"
            BY <1>6 DEF ProjectsKnown
        <3> QED BY <1>2, <3>1 DEF ProjectsKnown
    <2>2. k \in ProjectFiles => disk[k] # Missing /\ t # Missing
        BY <1>4, <1>6 DEF ProjectsKnown
    <2>3. \A x \in Key : x = k \/ disk'[x] = disk[x]
        BY <1>1, <1>2 DEF DiskOK
    <2>4. disk'[k] = t
        BY <1>1, <1>2, <1>3 DEF DiskOK
    <2>5. \A x \in Dir : disk'[MarkerOf[x]] = Missing <=> disk[MarkerOf[x]] = Missing
        BY <2>2, <2>3, <2>4, MainsAreFiles, DirAssumption
    <2>6. \A x \in Dir : Overlay(m_buffers)'[MainOf[x]] = Missing
                             <=> Overlay(m_buffers)[MainOf[x]] = Missing
        BY <1>8, <2>2, MainsAreFiles
    <2>7. Right(m_projectMain, Overlay(m_buffers))
        BY <1>1, <2>1 DEF CacheRight
    <2> QED BY <1>1, <1>2, <2>5, <2>6, <2>7, RightNow
<1>17. m_cfg' \in Config
    BY <1>1, <1>2
<1> QED BY <1>5, <1>6, <1>9, <1>14, <1>15, <1>16, <1>17 DEF IInv

\* takePendingDiagnostics and stuttering keep it.
LEMMA SameInv == ASSUME IInv, UNCHANGED <<world, editor, served, blind>> PROVE IInv'
<1>1. /\ m_buffers' = m_buffers /\ m_cfg' = m_cfg /\ m_open' = m_open /\ m_uriToKey' = m_uriToKey
      /\ m_units' = m_units /\ m_projectMain' = m_projectMain /\ disk' = disk /\ editor' = editor
      /\ watch' = watch /\ blind' = blind
    BY DEF served, world
<1>2. /\ EditorOK /\ DiskOK /\ WatchOK /\ m_cfg \in Config /\ CacheOK(m_projectMain) /\ CacheRight
      /\ OwnersOK /\ UnitsUsed /\ RootsOK /\ UnitsHoldSources /\ UnitsBuilt
    BY DEF IInv
<1>3. /\ EditorOK' /\ CacheOK(m_projectMain)' /\ OwnersOK' /\ UnitsUsed' /\ RootsOK'
      /\ DiskOK' /\ WatchOK' /\ m_cfg' \in Config
    BY <1>1, <1>2 DEF EditorOK, OpenOK, CacheOK, OwnersOK, UnitsUsed, RootsOK, Owns, MainIn,
                      CachedMain, Cached, DiskOK, WatchOK
<1>4. Overlay(m_buffers)' = Overlay(m_buffers)
    BY <1>1 DEF Overlay
<1>5. UnitsHoldSources'
    BY <1>1, <1>2, <1>4 DEF UnitsHoldSources, SourceText, Sources, Reported
<1>6. UnitsBuilt'
    BY <1>1, <1>2, <1>4 DEF UnitsBuilt, BuiltFrom, Event
<1>7. CacheRight'
    <2> SUFFICES ASSUME Shallow, ProjectsKnown' PROVE Right(m_projectMain, Overlay(m_buffers))'
        BY DEF CacheRight
    <2>1. Right(m_projectMain, Overlay(m_buffers))
        BY <1>1, <1>2 DEF CacheRight, ProjectsKnown
    <2> QED BY <1>1, <1>2, <1>4, <2>1, RightNow
<1> QED BY <1>3, <1>5, <1>6, <1>7 DEF IInv

\* Every step keeps the invariant.
LEMMA NextInv == ASSUME OneSpelling, IInv, [Next]_vars PROVE IInv'
<1>1. EditorOK
    BY DEF IInv
<1>2. ASSUME NEW u \in Uri, NEW t \in TextsOf[KeyOf[u]], Open(u, t)
      PROVE  IInv'
    BY <1>2, OpenedInv DEF Open
<1>3. ASSUME NEW u \in Uri, NEW t \in TextsOf[KeyOf[u]], ChangeText(u, t)
      PROVE  IInv'
    <2>1. editor' = Put(editor, u, t) /\ UNCHANGED <<world, client, m_cfg>>
        BY <1>3 DEF ChangeText
    <2>2. CASE u \in DOMAIN m_uriToKey
        BY <1>3, <2>1, <2>2, ChangedInv DEF ChangeText
    <2>3. CASE u \notin DOMAIN m_uriToKey
        <3>1. u \notin DOMAIN editor
            BY <1>1, <2>3, EditorFacts
        <3> QED BY <1>3, <2>1, <2>3, <3>1, OpenedInv DEF ChangeText
    <2> QED BY <2>2, <2>3
<1>4. ASSUME NEW u \in Uri, Close(u) PROVE IInv'
    BY <1>4, CloseInv
<1>5. ASSUME NEW cfg \in Config, SetPathConfig(cfg) PROVE IInv'
    BY <1>5, SetPathConfigInv
<1>6. ASSUME NEW k \in DiskKey, NEW t \in TextsOf[k] \cup {Missing}, DiskChange(k, t)
      PROVE  IInv'
    BY <1>6, DiskChangeInv
<1>7. CASE FileChanged
    BY <1>7, FileChangedInv
<1>8. CASE TakePending
    BY <1>8, SameInv DEF TakePending
<1>9. CASE UNCHANGED vars
    BY <1>9, SameInv DEF vars
<1> QED BY <1>2, <1>3, <1>4, <1>5, <1>6, <1>7, <1>8, <1>9 DEF Next, Outside

\* The invariant holds of every run of the server in which each file has one URI.
THEOREM Inductive == ASSUME OneSpelling PROVE Spec => []IInv
<1>1. Init => IInv
    BY InitInv
<1>2. IInv /\ [Next]_vars => IInv'
    BY NextInv
<1> QED BY <1>1, <1>2, PTL DEF Spec

-----------------------------------------------------------------------------
(* What follows.                                                           *)

\* What is held of an open document is what the editor shows.
LEMMA EditorIsSource ==
    ASSUME OneSpelling, EditorOK, NEW u \in DOMAIN editor
    PROVE  SourceText(KeyOf[u]) = editor[u] /\ editor[u] \in Text
<1> DEFINE k == KeyOf[u]
<1>1. k \in DOMAIN m_open /\ m_open[k].uri = u /\ k \in Key /\ k \in Keys
    BY EditorFacts DEF Keys
<1>2. editor[u] = IF m_open[k].path = NoPath THEN m_open[k].text ELSE m_buffers[k]
    BY <1>1 DEF EditorOK
<1>3. editor[u] \in Text /\ editor[u] # Missing
    BY <1>1, TextAssumption DEF EditorOK
<1>4. m_open[k].path # NoPath => k \in DOMAIN m_buffers
    BY <1>1 DEF EditorOK
<1>5. Sources[k] = editor[u]
    BY <1>1, <1>2, <1>4 DEF Sources, Overlay
<1> QED BY <1>1, <1>3, <1>5 DEF SourceText, Held

\* lookup's at() calls succeed: the owner of a document is a unit that holds it.
LEMMA Serves == ASSUME OneSpelling, IInv PROVE LookupServes
<1> SUFFICES ASSUME NEW u \in DOMAIN editor
             PROVE  /\ u \in DOMAIN m_uriToKey /\ m_uriToKey[u] \in DOMAIN m_open
                    /\ LET doc == m_open[m_uriToKey[u]]
                       IN /\ doc.owner \in DOMAIN m_units
                          /\ doc.key \in DOMAIN m_units[doc.owner].text
                          /\ m_units[doc.owner].text[doc.key] = editor[u]
    BY DEF LookupServes
<1>1. EditorOK /\ OwnersOK /\ UnitsHoldSources
    BY DEF IInv
<1>2. /\ u \in DOMAIN m_uriToKey /\ m_uriToKey[u] = KeyOf[u] /\ KeyOf[u] \in DOMAIN m_open
    BY <1>1, EditorFacts
<1>3. m_open[KeyOf[u]].key = KeyOf[u]
    BY <1>1, <1>2 DEF EditorOK, OpenOK
<1>4. /\ m_open[KeyOf[u]].owner \in DOMAIN m_units
      /\ KeyOf[u] \in DOMAIN m_units[m_open[KeyOf[u]].owner].text
    BY <1>1, <1>2 DEF OwnersOK
<1>5. m_units[m_open[KeyOf[u]].owner].text[KeyOf[u]] = SourceText(KeyOf[u])
    BY <1>1, <1>2, <1>4 DEF UnitsHoldSources
<1> QED BY <1>1, <1>2, <1>3, <1>4, <1>5, EditorIsSource

\* A unit is live because a document has it as its owner or its project's main.asm.
LEMMA Used == ASSUME OneSpelling, IInv PROVE NoStrayUnits
<1> SUFFICES ASSUME NEW r \in DOMAIN m_units
             PROVE  \E k \in DOMAIN m_open :
                        \/ m_open[k].owner = r
                        \/ m_open[k].path # NoPath /\ DirOf[k] \in DOMAIN m_projectMain
                           /\ m_projectMain[DirOf[k]] = r
    BY DEF NoStrayUnits
<1>1. EditorOK /\ UnitsUsed
    BY DEF IInv
<1>2. PICK k \in DOMAIN m_open :
          \/ r = m_open[k].owner
          \/ r = MainIn(m_projectMain, m_open[k]) /\ r # NoMain
    BY <1>1 DEF UnitsUsed
<1>3. m_open[k].path \in {k, NoPath}
    BY <1>1, EditorFacts
<1> QED BY <1>2, <1>3 DEF MainIn, CachedMain

\* m_uriToKey names documents that are open.
LEMMA Throwless == ASSUME OneSpelling, IInv PROVE LookupNeverThrows
BY EditorFacts DEF IInv, LookupNeverThrows

\* With no event on the way and nothing missed, the sources a unit was built from and
\* the present ones agree on its files and on what is missing, and the cache is right.
LEMMA Fresh == ASSUME OneSpelling, Shallow, IInv PROVE FreshUnlessBlind
<1> SUFFICES ASSUME watch = <<>>, blind = {}
             PROVE  /\ \A r \in DOMAIN m_units : m_units[r] = FreshUnit(r)
                    /\ \A k \in DOMAIN m_open : m_open[k].owner = FreshOwner(k)
    BY DEF FreshUnlessBlind
<1>1. /\ EditorOK /\ DiskOK /\ CacheOK(m_projectMain) /\ CacheRight /\ m_cfg \in Config
      /\ OwnersOK /\ RootsOK /\ UnitsHoldSources /\ UnitsBuilt
    BY DEF IInv
<1>2. \A k, change : ~Event(k, change) /\ Reported(k)
    BY DEF Event, Reported
<1>3. PICK src : src = Overlay(m_buffers)
    OBVIOUS
<1>4. OnDisk(src) /\ src \in Readings
    <2>1. OpenOK(m_open) /\ DOMAIN m_buffers = {k \in DOMAIN m_open : m_open[k].path # NoPath}
        BY <1>1 DEF EditorOK
    <2>2. \A k \in DOMAIN m_buffers : m_buffers[k] \in Text
        BY <1>1, EditorFacts
    <2> QED BY <1>1, <1>3, <2>1, <2>2, OverlayOnDisk DEF OnDisk
<1>5. Right(m_projectMain, src)
    BY <1>1, <1>2, <1>3 DEF CacheRight, ProjectsKnown
<1>6. ASSUME NEW r \in DOMAIN m_units
      PROVE  m_units[r] = FreshUnit(r)
    <2>1. PICK old \in Readings : BuiltFrom(r, old)
        BY <1>1 DEF UnitsBuilt
    <2>2. PICK now : now = [src EXCEPT ![r] = Sources[r]]
        OBVIOUS
    <2>3. r \in Keys /\ (r \in DOMAIN m_open \/ r \in DiskKey)
        BY <1>1, EditorFacts DEF RootsOK, DiskKey, Keys
    <2>4. /\ now \in Readings
          /\ now[r] = Sources[r]
          /\ \A k \in Keys \ {r} : now[k] = src[k]
        <3>1. Sources[r] \in Content
            BY <1>1, <1>3, <1>4, <2>3 DEF Sources, EditorOK, OpenOK, Document, Readings, Content
        <3> QED BY <1>4, <2>2, <2>3, <3>1 DEF Readings
    <2>5. m_units[r] = Unit(r, old, m_cfg)
        BY <2>1 DEF BuiltFrom
    <2>6. /\ DOMAIN m_units[r].text = Members(r, old, m_cfg)
          /\ DOMAIN m_units[r].text \subseteq Keys
          /\ \A k \in DOMAIN m_units[r].text : m_units[r].text[k] = Held(old)[k]
        BY <1>1, <2>3, <2>5, UnitFacts
    <2>7. \A k \in DOMAIN m_units[r].text : m_units[r].text[k] = Held(Sources)[k]
        BY <1>1, <1>2 DEF UnitsHoldSources, SourceText
    <2>8. \A k \in Members(r, old, m_cfg) \ {r} : src[k] # Missing
        BY <1>2, <1>3, <2>1, <2>6 DEF BuiltFrom
    <2>9. \A k \in Members(r, old, m_cfg) : Held(Sources)[k] = Held(now)[k]
        <3> SUFFICES ASSUME NEW k \in Members(r, old, m_cfg)
                     PROVE  Sources[k] = now[k]
            BY <2>6 DEF Held
        <3>1. CASE k = r
            BY <2>4, <3>1
        <3>2. CASE k # r
            <4>1. src[k] # Missing /\ k \in Keys /\ now[k] = src[k]
                BY <2>4, <2>6, <2>8, <3>2
            <4>2. k \in DOMAIN m_open => k \in DiskKey
                BY <1>1, <1>4, <4>1, EditorFacts DEF OnDisk
            <4>3. ~(k \in DOMAIN m_open /\ m_open[k].path = NoPath)
                BY <1>1, <4>2, EditorFacts
            <4> QED BY <1>3, <4>1, <4>3 DEF Sources
        <3> QED BY <3>1, <3>2
    <2>10. \A k \in Members(r, old, m_cfg) : Held(old)[k] = Held(now)[k]
        BY <2>6, <2>7, <2>9
    <2>11. \A k \in Keys \ {r} : old[k] = Missing => now[k] = Missing
        BY <1>2, <1>3, <2>1, <2>4 DEF BuiltFrom
    <2>12. \A k \in Members(r, old, m_cfg) \ {r} : now[k] # Missing
        BY <2>4, <2>6, <2>8
    <2>13. Unit(r, old, m_cfg) = Unit(r, now, m_cfg)
        BY <1>1, <2>3, <2>4, <2>10, <2>11, <2>12, UnitAgrees
    <2> QED BY <1>3, <2>2, <2>5, <2>13 DEF FreshUnit
<1>7. ASSUME NEW k \in DOMAIN m_open
      PROVE  m_open[k].owner = FreshOwner(k)
    <2>1. PICK main : main = MainIn(m_projectMain, m_open[k])
        OBVIOUS
    <2>2. /\ main # NoMain => main \in DOMAIN m_units
          /\ m_open[k].owner = Owns(k, main, m_units)
          /\ Cached(m_projectMain, m_open[k])
        BY <1>1, <2>1 DEF OwnersOK
    <2>3. k \in Keys /\ m_open[k].path \in {k, NoPath}
        BY <1>1, EditorFacts DEF Keys
    <2>4. main = IF m_open[k].path = NoPath THEN NoMain ELSE FreshMain(k)
        <3>1. CASE m_open[k].path = NoPath
            BY <2>1, <3>1 DEF MainIn
        <3>2. CASE m_open[k].path # NoPath
            <4>1. m_open[k].path = k /\ main = CachedMain(m_projectMain, DirOf[k])
                BY <2>1, <2>3, <3>2 DEF MainIn
            <4>2. DirOf[k] \in Dir \cup {NoDir}
                BY <2>3, DirAssumption
            <4>3. FreshMain(k) = Found(DirOf[k], src)
                BY <1>3 DEF FreshMain, Found
            <4>4. CASE DirOf[k] \in Dir
                <5>1. DirOf[k] \in DOMAIN m_projectMain
                    BY <2>2, <3>2, <4>1, <4>4 DEF Cached
                <5> QED BY <1>5, <3>2, <4>1, <4>3, <5>1 DEF CachedMain, Right
            <4>5. CASE DirOf[k] = NoDir
                <5>1. NoDir \notin Dir /\ Marked(NoDir) = {}
                    BY ChainFacts DEF Marked
                <5>2. Found(NoDir, src) = NoMain
                    BY <5>1, FoundFacts
                <5>3. CachedMain(m_projectMain, NoDir) = NoMain
                    BY <1>1, <5>1 DEF CachedMain, CacheOK
                <5> QED BY <3>2, <4>1, <4>3, <4>5, <5>2, <5>3
            <4> QED BY <4>2, <4>4, <4>5
        <3> QED BY <3>1, <3>2
    <2>5. main # NoMain => m_units[main] = FreshUnit(main)
        BY <1>6, <2>2
    <2> QED BY <2>2, <2>4, <2>5 DEF FreshOwner, Owns
<1> QED BY <1>6, <1>7

-----------------------------------------------------------------------------
(* What the client shows.                                                  *)

\* What is shown under u once the queue p has been delivered.
Mine(p, u) == {i \in DOMAIN p : p[i].uri = u}
Shown(p, u, before) == IF Mine(p, u) = {} THEN before ELSE p[Max(Mine(p, u))].diags

\* The diagnostics of an open document: those its unit has for it.
Told(k) == LET unit == m_units[m_open[k].owner]
           IN IF k \in DOMAIN unit.diags THEN unit.diags[k] ELSE {}

\* m_published is what the open documents were last told, and what the client
\* will show once it has taken what is queued.
Queued == m_pending \in Seq(Range(m_pending))
PublishedOK ==
    /\ DOMAIN m_published = {m_open[k].uri : k \in DOMAIN m_open}
    /\ \A k \in DOMAIN m_open : m_published[m_open[k].uri] = Told(k)
WillShow(pending, published) ==
    \A u \in Uri : Shown(pending, u, client[u]) = IF u \in DOMAIN published THEN published[u] ELSE {}
ClientInv == Queued /\ PublishedOK /\ WillShow(m_pending, m_published)

\* Of two queues in a row the second has the last word.
LEMMA ShownConcat ==
    ASSUME NEW S, NEW p \in Seq(S), NEW q \in Seq(S), NEW u, NEW before
    PROVE  Shown(p \o q, u, before) = Shown(q, u, Shown(p, u, before))
<1> DEFINE r == p \o q
<1>1. /\ Len(p) \in Nat /\ DOMAIN p = 1 .. Len(p) /\ Len(q) \in Nat /\ DOMAIN q = 1 .. Len(q)
      /\ r \in Seq(S) /\ DOMAIN r = 1 .. Len(p) + Len(q)
      /\ \A i \in 1 .. Len(p) + Len(q) : r[i] = IF i <= Len(p) THEN p[i] ELSE q[i - Len(p)]
    BY ConcatProperties, LenProperties
<1> HIDE DEF r
<1>2. /\ \A i \in Mine(p, u) : i \in Mine(r, u) /\ i <= Len(p)
      /\ \A i \in Mine(q, u) : i + Len(p) \in Mine(r, u)
      /\ \A i \in Mine(r, u) : IF i <= Len(p) THEN i \in Mine(p, u) ELSE i - Len(p) \in Mine(q, u)
    <2>1. \A i \in 1 .. Len(p) : i \in 1 .. Len(p) + Len(q) /\ i <= Len(p) /\ r[i] = p[i]
        BY <1>1
    <2>2. \A i \in 1 .. Len(q) : /\ i + Len(p) \in 1 .. Len(p) + Len(q) /\ ~(i + Len(p) <= Len(p))
                                 /\ (i + Len(p)) - Len(p) = i
        BY <1>1
    <2>3. \A i \in 1 .. Len(q) : r[i + Len(p)] = q[i]
        BY <1>1, <2>2
    <2>4. \A i \in 1 .. Len(p) + Len(q) : IF i <= Len(p) THEN i \in 1 .. Len(p) /\ r[i] = p[i]
                                          ELSE i - Len(p) \in 1 .. Len(q) /\ r[i] = q[i - Len(p)]
        BY <1>1
    <2> QED BY <1>1, <2>1, <2>2, <2>3, <2>4 DEF Mine
<1>3. /\ Mine(p, u) \in SUBSET Nat /\ \A i \in Mine(p, u) : i <= Len(p)
      /\ Mine(q, u) \in SUBSET Nat /\ \A i \in Mine(q, u) : i <= Len(q)
      /\ Mine(r, u) \in SUBSET Nat /\ \A i \in Mine(r, u) : i <= Len(p) + Len(q)
      /\ Len(p) + Len(q) \in Nat
    BY <1>1 DEF Mine
<1>4. CASE Mine(q, u) # {}
    <2>1. PICK m : m = Max(Mine(q, u))
        OBVIOUS
    <2>2. m \in Mine(q, u) /\ \A i \in Mine(q, u) : i <= m
        BY <1>1, <1>3, <1>4, <2>1, MaxFacts
    <2>3. m + Len(p) \in Mine(r, u) /\ \A i \in Mine(r, u) : i <= m + Len(p)
        <3>1. \A i \in Mine(r, u) : i <= Len(p) \/ i - Len(p) <= m
            BY <1>2, <2>2
        <3> QED BY <1>1, <1>2, <1>3, <2>2, <3>1
    <2>4. Max(Mine(r, u)) = m + Len(p)
        BY <1>3, <2>3, MaxFacts
    <2>5. r[m + Len(p)] = q[m]
        BY <1>1, <1>3, <2>2 DEF Mine
    <2> QED BY <1>4, <2>1, <2>3, <2>4, <2>5 DEF Shown, r
<1>5. CASE Mine(q, u) = {} /\ Mine(p, u) # {}
    <2>1. PICK m : m = Max(Mine(p, u))
        OBVIOUS
    <2>2. m \in Mine(p, u) /\ \A i \in Mine(p, u) : i <= m
        BY <1>1, <1>3, <1>5, <2>1, MaxFacts
    <2>3. Mine(r, u) = Mine(p, u)
        BY <1>2, <1>5
    <2>4. r[m] = p[m]
        BY <1>1, <1>3, <2>2 DEF Mine
    <2> QED BY <1>5, <2>1, <2>3, <2>4 DEF Shown, r
<1>6. CASE Mine(q, u) = {} /\ Mine(p, u) = {}
    <2>1. Mine(r, u) = {}
        BY <1>2, <1>6
    <2> QED BY <1>6, <2>1 DEF Shown, r
<1> QED BY <1>4, <1>5, <1>6

\* Who says one thing only is shown with it.
LEMMA ShownOnce ==
    ASSUME NEW q, DOMAIN q \in SUBSET Nat, NEW i \in DOMAIN q, NEW before,
           \A j \in DOMAIN q : q[j].uri = q[i].uri => j = i
    PROVE  Shown(q, q[i].uri, before) = q[i].diags
<1>1. Mine(q, q[i].uri) = {i}
    BY DEF Mine
<1>2. Max({i}) = i
    BY MaxFacts
<1> QED BY <1>1, <1>2 DEF Shown

\* The documents whose diagnostics are not what was published of them.
NewsOf(open, published) ==
    {k \in DOMAIN open : open[k].uri \in DOMAIN published => published[open[k].uri] # Told(k)'}

\* Step 4 queues each of them once and brings m_published up to date.
Announced(open, published, pending) ==
    /\ DOMAIN m_open' = DOMAIN open
    /\ \A k \in DOMAIN open : m_open'[k].uri = open[k].uri
    /\ \E queue \in Orders(NewsOf(open, published)) :
           m_pending' = pending \o [i \in DOMAIN queue |->
                            [uri |-> open[queue[i]].uri, diags |-> Told(queue[i])']]
    /\ DOMAIN m_published' = DOMAIN published \cup {open[k].uri : k \in DOMAIN open}
    /\ \A k \in DOMAIN open : m_published'[open[k].uri] = Told(k)'

\* Whatever the iteration order, step 4 queues the news once each.
LEMMA QueueFacts ==
    ASSUME NEW open, OpenOK(open), NEW buffers, NEW cfg, NEW c,
           NEW published, NEW pending, NEW dirty, NEW all,
           Reconcile(open, buffers, cfg, c, published, pending, dirty, all)
    PROVE  Announced(open, published, pending)
<1> DEFINE Diags(k) == LET unit == m_units'[m_open'[k].owner]
                       IN IF k \in DOMAIN unit.diags THEN unit.diags[k] ELSE {}
           News(k) == open[k].uri \in DOMAIN published => published[open[k].uri] # Diags(k)
<1>1. PICK order \in Orders(DOMAIN open) :
          /\ \E owner : m_open' = [k \in DOMAIN open |-> [open[k] EXCEPT !.owner = owner[k]]]
          /\ \E queue \in Queues({k \in DOMAIN open : News(k)}, order) :
                m_pending' = pending \o [i \in DOMAIN queue |->
                                 [uri |-> open[queue[i]].uri, diags |-> Diags(queue[i])]]
          /\ m_published' = [u \in DOMAIN published \cup {open[k].uri : k \in DOMAIN open} |->
                IF \E k \in DOMAIN open : open[k].uri = u
                THEN Diags(CHOOSE k \in DOMAIN open : open[k].uri = u)
                ELSE published[u]]
    <2>1. PICK order \in Orders(DOMAIN open) :
            LET src == Overlay(buffers)
                after == Lookups(open, order, c, src)
                Main(k) == after[CHOOSE i \in DOMAIN order : order[i] = k].main
                Built(r) == Ensured(r, open, src, cfg, Kept(dirty, all))
            IN /\ m_open' = [k \in DOMAIN open |-> [open[k] EXCEPT !.owner =
                                OwnerOf(k, Main(k), k \in DOMAIN Built(Main(k)).text)]]
               /\ \E queue \in Queues({k \in DOMAIN open : News(k)}, order) :
                     m_pending' = pending \o [i \in DOMAIN queue |->
                                 [uri |-> open[queue[i]].uri, diags |-> Diags(queue[i])]]
               /\ m_published' = [u \in DOMAIN published \cup {open[k].uri : k \in DOMAIN open} |->
                     IF \E k \in DOMAIN open : open[k].uri = u
                     THEN Diags(CHOOSE k \in DOMAIN open : open[k].uri = u)
                     ELSE published[u]]
        BY Zenon DEF Reconcile
    <2> DEFINE src == Overlay(buffers)
               after == Lookups(open, order, c, src)
               Main(k) == after[CHOOSE i \in DOMAIN order : order[i] = k].main
               Built(r) == Ensured(r, open, src, cfg, Kept(dirty, all))
               owner == [k \in DOMAIN open |-> OwnerOf(k, Main(k), k \in DOMAIN Built(Main(k)).text)]
    <2>2. \A k \in DOMAIN open : owner[k] = OwnerOf(k, Main(k), k \in DOMAIN Built(Main(k)).text)
        OBVIOUS
    <2>3. m_open' = [k \in DOMAIN open |-> [open[k] EXCEPT !.owner =
                                OwnerOf(k, Main(k), k \in DOMAIN Built(Main(k)).text)]]
        BY <2>1, Zenon
    <2> HIDE DEF Main, Built, owner
    <2>4. m_open' = [k \in DOMAIN open |-> [open[k] EXCEPT !.owner = owner[k]]]
        BY <2>2, <2>3
    <2> QED BY <2>1, <2>4
<1>2. \A k \in DOMAIN open : open[k] \in Document
    BY DEF OpenOK
<1>3. DOMAIN m_open' = DOMAIN open /\ \A k \in DOMAIN open : m_open'[k].uri = open[k].uri
    BY <1>1, <1>2 DEF Document
<1>4. \A k : Diags(k) = Told(k)'
    BY DEF Told
<1>5. \A k \in DOMAIN open : (CHOOSE j \in DOMAIN open : open[j].uri = open[k].uri) = k
    BY DEF OpenOK
<1> HIDE DEF Diags
<1>6. /\ DOMAIN m_published' = DOMAIN published \cup {open[k].uri : k \in DOMAIN open}
      /\ \A k \in DOMAIN open : m_published'[open[k].uri] = Told(k)'
    BY <1>1, <1>4, <1>5
<1>7. PICK queue \in Orders({k \in DOMAIN open : News(k)}) :
          m_pending' = pending \o [i \in DOMAIN queue |->
                           [uri |-> open[queue[i]].uri, diags |-> Diags(queue[i])]]
    BY <1>1 DEF Queues
<1>8. [i \in DOMAIN queue |-> [uri |-> open[queue[i]].uri, diags |-> Diags(queue[i])]]
        = [i \in DOMAIN queue |-> [uri |-> open[queue[i]].uri, diags |-> Told(queue[i])']]
    BY <1>4
<1>9. {k \in DOMAIN open : News(k)}
        = NewsOf(open, published)
    BY <1>4 DEF NewsOf
<1> HIDE DEF News
<1> QED BY <1>3, <1>6, <1>7, <1>8, <1>9 DEF Announced

\* The methods' part of the client's invariant: what a queue that the client
\* will take leaves it showing is brought up to date.
LEMMA ReconcileShows ==
    ASSUME NEW open, OpenOK(open), NEW buffers, NEW cfg, NEW c,
           NEW published, NEW pending, NEW dirty, NEW all,
           DOMAIN published \subseteq {open[k].uri : k \in DOMAIN open},
           NEW S, pending \in Seq(S), WillShow(pending, published), client' = client,
           Reconcile(open, buffers, cfg, c, published, pending, dirty, all)
    PROVE  ClientInv'
<1> DEFINE news == NewsOf(open, published)
<1>0. Announced(open, published, pending)
    BY QueueFacts
<1>1. /\ DOMAIN m_open' = DOMAIN open
      /\ \A k \in DOMAIN open : m_open'[k].uri = open[k].uri
      /\ DOMAIN m_published' = {open[k].uri : k \in DOMAIN open}
      /\ \A k \in DOMAIN open : m_published'[open[k].uri] = Told(k)'
    BY <1>0 DEF Announced
<1>2. PICK queue \in Orders(news) :
          m_pending' = pending \o [i \in DOMAIN queue |->
                           [uri |-> open[queue[i]].uri, diags |-> Told(queue[i])']]
    BY <1>0 DEF Announced
<1>3. PICK told : told = [k \in DOMAIN open |-> Told(k)']
    OBVIOUS
<1>4. PICK q : q = [i \in DOMAIN queue |-> [uri |-> open[queue[i]].uri, diags |-> Told(queue[i])']]
    OBVIOUS
<1>5. /\ \A k \in DOMAIN open : told[k] = Told(k)'
      /\ news = {k \in DOMAIN open : open[k].uri \in DOMAIN published => published[open[k].uri] # told[k]}
    BY <1>3 DEF NewsOf
<1>6. IsFiniteSet(news)
    <2>1. IsFiniteSet(DOMAIN open) /\ news \subseteq DOMAIN open
        BY DEF OpenOK, NewsOf
    <2> QED BY <2>1, FS_Subset
<1>7. /\ Cardinality(news) \in Nat /\ DOMAIN queue = 1 .. Cardinality(news)
      /\ \A i \in DOMAIN queue : queue[i] \in news
      /\ \A k \in news : \E i \in DOMAIN queue : queue[i] = k
      /\ \A i, j \in DOMAIN queue : queue[i] = queue[j] => i = j
    <2> HIDE DEF news
    <2> QED BY <1>6, OrderFacts
<1> HIDE DEF news
<1>8. /\ DOMAIN q = 1 .. Cardinality(news)
      /\ \A i \in DOMAIN q : /\ queue[i] \in news /\ queue[i] \in DOMAIN open
                             /\ q[i].uri = open[queue[i]].uri /\ q[i].diags = told[queue[i]]
    BY <1>4, <1>5, <1>7
<1>9. \A i, j \in DOMAIN q : q[i].uri = q[j].uri => i = j
    BY <1>7, <1>8 DEF OpenOK
<1>10. PICK T : T = S \cup Range(q)
    OBVIOUS
<1>11. q \in Seq(T) /\ pending \in Seq(T)
    <2>1. \A i \in DOMAIN q : q[i] \in T
        BY <1>10 DEF Range
    <2>2. q = [i \in 1 .. Cardinality(news) |-> q[i]]
        BY <1>4, <1>8
    <2>3. pending \in Seq(T)
        BY <1>10, ElementOfSeq, LenProperties
    <2> QED BY <1>7, <1>8, <2>1, <2>2, <2>3
<1>12. m_pending' = pending \o q
    BY <1>2, <1>4
<1>13. Queued'
    <2>1. m_pending' \in Seq(T)
        BY <1>11, <1>12, ConcatProperties
    <2>2. m_pending' \in Seq(Range(m_pending'))
        BY <2>1, LenProperties DEF Range
    <2> QED BY <2>2 DEF Queued
<1>14. PublishedOK'
    BY <1>1 DEF PublishedOK
<1>15. ASSUME NEW u \in Uri
       PROVE  Shown(m_pending', u, client'[u]) =
                  IF u \in DOMAIN m_published' THEN m_published'[u] ELSE {}
    <2>1. PICK before : before = IF u \in DOMAIN published THEN published[u] ELSE {}
        OBVIOUS
    <2>2. Shown(pending, u, client[u]) = before
        BY <2>1 DEF WillShow
    <2>3. Shown(m_pending', u, client'[u]) = Shown(q, u, before)
        BY <1>11, <1>12, <2>2, ShownConcat
    <2>4. CASE \E i \in DOMAIN q : q[i].uri = u
        <3>1. PICK i \in DOMAIN q : q[i].uri = u
            BY <2>4
        <3>2. \A j \in DOMAIN q : q[j].uri = q[i].uri => j = i
            BY <1>9
        <3>3. DOMAIN q \in SUBSET Nat
            BY <1>7, <1>8
        <3>5. Shown(q, q[i].uri, before) = q[i].diags
            BY <3>2, <3>3, ShownOnce
        <3>4. u = open[queue[i]].uri /\ queue[i] \in DOMAIN open /\ q[i].diags = told[queue[i]]
            BY <1>8, <3>1
        <3> QED BY <1>1, <1>5, <2>3, <3>1, <3>4, <3>5
    <2>5. CASE \A i \in DOMAIN q : q[i].uri # u
        <3>1. Shown(q, u, before) = before
            BY <2>5 DEF Shown, Mine
        <3>2. CASE u \in DOMAIN m_published'
            <4>1. PICK k \in DOMAIN open : open[k].uri = u
                BY <1>1, <3>2
            <4>2. k \notin news
                BY <1>7, <1>8, <2>5, <4>1
            <4>3. u \in DOMAIN published /\ published[u] = told[k]
                BY <1>5, <4>1, <4>2
            <4> QED BY <1>1, <1>5, <2>1, <2>3, <3>1, <3>2, <4>1, <4>3
        <3>3. CASE u \notin DOMAIN m_published'
            <4>1. u \notin DOMAIN published
                BY <1>1, <3>3
            <4> QED BY <2>1, <2>3, <3>1, <3>3, <4>1
        <3> QED BY <3>2, <3>3
    <2> QED BY <2>4, <2>5
<1>16. WillShow(m_pending, m_published)'
    BY <1>15 DEF WillShow
<1> QED BY <1>13, <1>14, <1>16 DEF ClientInv

\* A document opened or changed is one under its key.
LEMMA PutDocument ==
    ASSUME NEW open, OpenOK(open), NEW u \in Uri, NEW doc \in Document,
           doc.uri = u, doc.key = KeyOf[u], doc.path = IF u \in FileUri THEN KeyOf[u] ELSE NoPath
    PROVE  /\ OpenOK(Put(open, KeyOf[u], doc))
           /\ DOMAIN Put(open, KeyOf[u], doc) = DOMAIN open \cup {KeyOf[u]}
           /\ \A j \in DOMAIN open : j # KeyOf[u] => Put(open, KeyOf[u], doc)[j] = open[j]
           /\ Put(open, KeyOf[u], doc)[KeyOf[u]] = doc
<1> DEFINE k == KeyOf[u]
           put == Put(open, k, doc)
<1>1. /\ DOMAIN put = DOMAIN open \cup {k} /\ put[k] = doc
      /\ \A j \in DOMAIN open : j # k => put[j] = open[j]
    BY DEF Put
<1>2. k \in Key
    BY UriAssumption
<1> HIDE DEF put
<1>3. IsFiniteSet(DOMAIN put) /\ DOMAIN put \subseteq Key
    BY <1>1, <1>2, FS_AddElement DEF OpenOK
<1>4. OpenOK(put)
    BY <1>1, <1>3 DEF OpenOK
<1> QED BY <1>1, <1>4 DEF put

\* The client's invariant rests on nothing else that a step can change.
LEMMA ClientSame ==
    ASSUME ClientInv, UNCHANGED <<m_pending, m_published, m_open, m_units, client>>
    PROVE  ClientInv'
BY DEF ClientInv, Queued, PublishedOK, WillShow, Told

\* takePendingDiagnostics delivers what was queued.
LEMMA ClientTakes == ASSUME IInv, ClientInv, TakePending PROVE ClientInv'
<1>1. /\ client' = [u \in Uri |-> Shown(m_pending, u, client[u])]
      /\ m_pending' = <<>> /\ m_published' = m_published /\ m_open' = m_open /\ m_units' = m_units
    BY DEF TakePending, served, Shown, Mine
<1>2. Queued' /\ PublishedOK'
    BY <1>1 DEF ClientInv, Queued, PublishedOK, Told
<1>3. \A u : Mine(<<>>, u) = {}
    BY DEF Mine
<1>4. WillShow(m_pending, m_published)'
    BY <1>1, <1>3 DEF ClientInv, WillShow, Shown
<1> QED BY <1>2, <1>4 DEF ClientInv

\* open publishes the new document.
LEMMA ClientOpened ==
    ASSUME OneSpelling, IInv, ClientInv, NEW u \in Uri, NEW t \in TextsOf[KeyOf[u]],
           Opened(u, t), client' = client, u \notin DOMAIN editor
    PROVE  ClientInv'
<1> DEFINE k == KeyOf[u]
           doc == [uri |-> u, path |-> IF u \in FileUri THEN k ELSE NoPath, key |-> k,
                   text |-> IF u \in FileUri THEN EmptyText ELSE t, owner |-> NoKey]
           open == Put(m_open, k, doc)
           buffers == IF u \in FileUri THEN Put(m_buffers, k, t) ELSE m_buffers
<1>1. EditorOK /\ OpenOK(m_open)
    BY DEF IInv, EditorOK
<1>2. k \in Key /\ k \notin DOMAIN m_open /\ t \in Text
    BY <1>1, EditorFacts, UriAssumption, TextAssumption
<1>3. Reconcile(open, buffers, m_cfg, m_projectMain, m_published, m_pending, {k}, FALSE)
    BY DEF Opened, KeyFor
<1>4. /\ doc \in Document /\ doc.uri = u /\ doc.key = k
      /\ doc.path = IF u \in FileUri THEN k ELSE NoPath
    BY <1>2, TextAssumption DEF Document, Keys
<1> HIDE DEF doc
<1>5. /\ OpenOK(open) /\ \A j \in DOMAIN m_open : j \in DOMAIN open /\ (j # k => open[j] = m_open[j])
    <2>1. PICK was : was = m_open
        OBVIOUS
    <2>2. PICK d : d = doc
        OBVIOUS
    <2>3. /\ OpenOK(Put(was, KeyOf[u], d))
          /\ DOMAIN Put(was, KeyOf[u], d) = DOMAIN was \cup {KeyOf[u]}
          /\ \A j \in DOMAIN was : j # KeyOf[u] => Put(was, KeyOf[u], d)[j] = was[j]
        BY <1>1, <1>4, <2>1, <2>2, PutDocument
    <2> QED BY <2>1, <2>2, <2>3
<1>6. DOMAIN m_published \subseteq {open[j].uri : j \in DOMAIN open}
    <2> HIDE DEF open
    <2> QED BY <1>2, <1>5 DEF ClientInv, PublishedOK
<1>7. m_pending \in Seq(Range(m_pending)) /\ WillShow(m_pending, m_published)
    BY DEF ClientInv, Queued
<1> HIDE DEF open, buffers, k
<1> QED BY <1>3, <1>5, <1>6, <1>7, ReconcileShows

\* change publishes what became different.
LEMMA ClientChanged ==
    ASSUME OneSpelling, IInv, ClientInv, NEW u \in Uri, NEW t \in TextsOf[KeyOf[u]],
           Changed(u, t), client' = client, u \in DOMAIN m_uriToKey
    PROVE  ClientInv'
<1> DEFINE k == KeyOf[u]
           doc == m_open[k]
           new == IF doc.path = NoPath THEN [doc EXCEPT !.text = t] ELSE doc
           open == Put(m_open, k, new)
           buffers == IF doc.path = NoPath THEN m_buffers ELSE Put(m_buffers, doc.path, t)
<1>1. EditorOK /\ OpenOK(m_open)
    BY DEF IInv, EditorOK
<1>2. /\ m_uriToKey[u] = k /\ k \in DOMAIN m_open /\ doc.uri = u /\ t \in Text
    BY <1>1, EditorFacts, UriAssumption, TextAssumption
<1>3. /\ doc \in Document /\ doc.key = k /\ doc.path = IF u \in FileUri THEN k ELSE NoPath
    BY <1>1, <1>2 DEF OpenOK
<1>4. Reconcile(open, buffers, m_cfg, m_projectMain, m_published, m_pending, {doc.key}, FALSE)
    BY <1>2, Zenon DEF Changed, DocAt
<1>5. /\ new \in Document /\ new.uri = u /\ new.key = k
      /\ new.path = IF u \in FileUri THEN k ELSE NoPath
    BY <1>2, <1>3 DEF Document
<1> HIDE DEF new
<1>6. /\ OpenOK(open) /\ \A j \in DOMAIN m_open : j \in DOMAIN open /\ (j # k => open[j] = m_open[j])
      /\ open[k] = new
    <2>1. PICK was : was = m_open
        OBVIOUS
    <2>2. PICK d : d = new
        OBVIOUS
    <2>3. /\ OpenOK(Put(was, KeyOf[u], d))
          /\ DOMAIN Put(was, KeyOf[u], d) = DOMAIN was \cup {KeyOf[u]}
          /\ \A j \in DOMAIN was : j # KeyOf[u] => Put(was, KeyOf[u], d)[j] = was[j]
          /\ Put(was, KeyOf[u], d)[KeyOf[u]] = d
        BY <1>1, <1>5, <2>1, <2>2, PutDocument
    <2> QED BY <2>1, <2>2, <2>3
<1>7. DOMAIN m_published \subseteq {open[j].uri : j \in DOMAIN open}
    <2>1. \A j \in DOMAIN m_open : j \in DOMAIN open /\ open[j].uri = m_open[j].uri
        BY <1>2, <1>5, <1>6
    <2> HIDE DEF open
    <2> QED BY <2>1 DEF ClientInv, PublishedOK
<1>8. m_pending \in Seq(Range(m_pending)) /\ WillShow(m_pending, m_published)
    BY DEF ClientInv, Queued
<1> HIDE DEF open, buffers, k, doc
<1> QED BY <1>4, <1>6, <1>7, <1>8, ReconcileShows

\* close tells the client to show nothing and forgets what was published.
LEMMA ClientClosed ==
    ASSUME OneSpelling, IInv, ClientInv, NEW u \in Uri, Close(u)
    PROVE  ClientInv'
<1> DEFINE k == KeyOf[u]
           open == Drop(m_open, k)
           buffers == IF m_open[k].path = NoPath THEN m_buffers ELSE Drop(m_buffers, m_open[k].path)
           line == [uri |-> u, diags |-> {}]
           pending == Append(m_pending, line)
           S == Range(m_pending) \cup {line}
<1>1. EditorOK /\ OpenOK(m_open)
    BY DEF IInv, EditorOK
<1>2. m_uriToKey[u] = k /\ k \in DOMAIN m_open /\ m_open[k].uri = u
    BY <1>1, EditorFacts DEF Close
<1>3. /\ Reconcile(open, buffers, m_cfg, m_projectMain, Unpublished(u), pending, {k}, FALSE)
      /\ client' = client
    <2>1. DocAt(k) = m_open[k]
        BY <1>2 DEF DocAt
    <2>2. /\ Reconcile(open, IF DocAt(k).path = NoPath THEN m_buffers ELSE Drop(m_buffers, DocAt(k).path),
                       m_cfg, m_projectMain, Unpublished(u), pending, {k}, FALSE)
          /\ client' = client
        BY <1>2 DEF Close
    <2> QED BY <2>1, <2>2
<1>4. DOMAIN open = DOMAIN m_open \ {k} /\ \A j \in DOMAIN open : open[j] = m_open[j]
    BY DEF Drop
<1> HIDE DEF open, buffers
<1>5. OpenOK(open)
    <2>1. IsFiniteSet(DOMAIN open)
        BY <1>1, <1>4, FS_RemoveElement DEF OpenOK
    <2> QED BY <1>1, <1>4, <2>1 DEF OpenOK
<1>6. /\ DOMAIN Unpublished(u) = DOMAIN m_published \ {u}
      /\ \A v \in DOMAIN Unpublished(u) : Unpublished(u)[v] = m_published[v]
    BY DEF Unpublished, Drop
<1>7. DOMAIN Unpublished(u) \subseteq {open[j].uri : j \in DOMAIN open}
    BY <1>2, <1>4, <1>6 DEF ClientInv, PublishedOK
<1>8. m_pending \in Seq(S) /\ <<line>> \in Seq(S) /\ pending = m_pending \o <<line>> /\ pending \in Seq(S)
    <2>1. m_pending \in Seq(Range(m_pending))
        BY DEF ClientInv, Queued
    <2>2. m_pending \in Seq(S) /\ line \in S
        BY <2>1, ElementOfSeq, LenProperties
    <2> HIDE DEF S, line
    <2>3. <<line>> \in Seq(S)
        BY <2>2
    <2> QED BY <2>2, <2>3, AppendIsConcat, AppendProperties
<1>9. WillShow(pending, Unpublished(u))
    <2> SUFFICES ASSUME NEW v \in Uri
                 PROVE  Shown(pending, v, client[v]) =
                            IF v \in DOMAIN Unpublished(u) THEN Unpublished(u)[v] ELSE {}
        BY DEF WillShow
    <2>1. PICK before : before = Shown(m_pending, v, client[v])
        OBVIOUS
    <2>2. before = IF v \in DOMAIN m_published THEN m_published[v] ELSE {}
        BY <2>1 DEF ClientInv, WillShow
    <2>3. Shown(pending, v, client[v]) = Shown(<<line>>, v, before)
        <3>1. PICK p, q, T : p = m_pending /\ q = <<line>> /\ T = S
            OBVIOUS
        <3>2. p \in Seq(T) /\ q \in Seq(T) /\ pending = p \o q /\ before = Shown(p, v, client[v])
            BY <1>8, <2>1, <3>1
        <3>3. Shown(p \o q, v, client[v]) = Shown(q, v, before)
            BY <3>2, ShownConcat
        <3> HIDE DEF pending
        <3> QED BY <3>1, <3>2, <3>3
    <2>4. CASE v = u
        <3>1. DOMAIN <<line>> = {1} /\ <<line>>[1] = line /\ line.uri = v /\ line.diags = {}
            BY <2>4
        <3>2. Shown(<<line>>, <<line>>[1].uri, before) = <<line>>[1].diags
            <4> HIDE DEF line
            <4> QED BY <3>1, ShownOnce
        <3> QED BY <1>6, <2>3, <2>4, <3>1, <3>2
    <2>5. CASE v # u
        <3>1. Mine(<<line>>, v) = {}
            BY <2>5 DEF Mine
        <3> QED BY <1>6, <2>2, <2>3, <2>5, <3>1 DEF Shown
    <2> QED BY <2>4, <2>5
<1> HIDE DEF pending, S, k
<1> QED BY <1>3, <1>5, <1>7, <1>8, <1>9, ReconcileShows

\* fileChanged and setPathConfig leave the documents alone.
LEMMA ClientRebuilt ==
    ASSUME IInv, ClientInv, client' = client,
           NEW cfg, NEW c, NEW dirty, NEW all,
           Reconcile(m_open, m_buffers, cfg, c, m_published, m_pending, dirty, all)
    PROVE  ClientInv'
<1>1. OpenOK(m_open)
    BY DEF IInv, EditorOK
<1>2. /\ DOMAIN m_published \subseteq {m_open[k].uri : k \in DOMAIN m_open}
      /\ m_pending \in Seq(Range(m_pending)) /\ WillShow(m_pending, m_published)
    BY DEF ClientInv, PublishedOK, Queued
<1> QED BY <1>1, <1>2, ReconcileShows

\* Every step keeps the client's invariant.
LEMMA ClientNext == ASSUME OneSpelling, IInv, ClientInv, [Next]_vars PROVE ClientInv'
<1>1. EditorOK
    BY DEF IInv
<1>2. ASSUME NEW u \in Uri, NEW t \in TextsOf[KeyOf[u]], Open(u, t)
      PROVE  ClientInv'
    BY <1>2, ClientOpened DEF Open
<1>3. ASSUME NEW u \in Uri, NEW t \in TextsOf[KeyOf[u]], ChangeText(u, t)
      PROVE  ClientInv'
    <2>1. CASE u \in DOMAIN m_uriToKey
        BY <1>3, <2>1, ClientChanged DEF ChangeText
    <2>2. CASE u \notin DOMAIN m_uriToKey
        <3>1. u \notin DOMAIN editor
            BY <1>1, <2>2, EditorFacts
        <3> QED BY <1>3, <2>2, <3>1, ClientOpened DEF ChangeText
    <2> QED BY <2>1, <2>2
<1>4. ASSUME NEW u \in Uri, Close(u) PROVE ClientInv'
    BY <1>4, ClientClosed
<1>5. ASSUME NEW cfg \in Config, SetPathConfig(cfg) PROVE ClientInv'
    BY <1>5, ClientRebuilt DEF SetPathConfig
<1>6. ASSUME NEW k \in DiskKey, NEW t \in TextsOf[k] \cup {Missing}, DiskChange(k, t)
      PROVE  ClientInv'
    BY <1>6, ClientSame DEF DiskChange, served
<1>7. CASE FileChanged
    <2>1. CASE Head(watch).key \in DOMAIN m_open
        BY <1>7, <2>1, ClientSame DEF FileChanged, served
    <2>2. CASE Head(watch).key \notin DOMAIN m_open
        BY <1>7, <2>2, ClientRebuilt DEF FileChanged
    <2> QED BY <2>1, <2>2
<1>8. CASE TakePending
    BY <1>8, ClientTakes
<1>9. CASE UNCHANGED vars
    BY <1>9, ClientSame DEF vars, served
<1> QED BY <1>2, <1>3, <1>4, <1>5, <1>6, <1>7, <1>8, <1>9 DEF Next, Outside

\* Nothing is shown at first.
LEMMA ClientInit == Init => ClientInv
<1> SUFFICES ASSUME Init PROVE ClientInv
    OBVIOUS
<1>1. /\ m_pending = <<>> /\ DOMAIN m_published = {} /\ DOMAIN m_open = {}
      /\ \A u \in Uri : client[u] = {}
    BY DEF Init, Empty
<1>2. Queued
    BY <1>1 DEF Queued
<1>3. PublishedOK
    BY <1>1 DEF PublishedOK
<1>4. \A u : Mine(<<>>, u) = {}
    BY DEF Mine
<1>5. WillShow(m_pending, m_published)
    BY <1>1, <1>4 DEF WillShow, Shown
<1> QED BY <1>2, <1>3, <1>5 DEF ClientInv

\* Once the queue is empty, what will be shown is shown.
LEMMA ClientSees == ASSUME OneSpelling, IInv, ClientInv PROVE ClientShowsUnits
<1> SUFFICES ASSUME m_pending = <<>>, NEW u \in Uri
             PROVE  client[u] = IF u \in DOMAIN editor
                        THEN m_units[m_open[m_uriToKey[u]].owner].diags[m_uriToKey[u]]
                        ELSE {}
    BY DEF ClientShowsUnits
<1>1. /\ EditorOK /\ OwnersOK /\ RootsOK /\ UnitsBuilt /\ m_cfg \in Config
      /\ PublishedOK /\ WillShow(m_pending, m_published)
    BY DEF IInv, ClientInv
<1>2. Mine(<<>>, u) = {}
    BY DEF Mine
<1>3. client[u] = IF u \in DOMAIN m_published THEN m_published[u] ELSE {}
    BY <1>1, <1>2 DEF WillShow, Shown
<1>4. DOMAIN m_published = DOMAIN editor
    BY <1>1 DEF PublishedOK, EditorOK
<1>5. ASSUME u \in DOMAIN editor
      PROVE  m_published[u] = m_units[m_open[KeyOf[u]].owner].diags[KeyOf[u]]
    <2> DEFINE k == KeyOf[u]
               r == m_open[k].owner
    <2>1. k \in DOMAIN m_open /\ m_open[k].uri = u
        BY <1>1, <1>5, EditorFacts
    <2>2. r \in DOMAIN m_units /\ k \in DOMAIN m_units[r].text
        BY <1>1, <2>1 DEF OwnersOK
    <2>3. r \in Keys
        BY <1>1, <2>2, EditorFacts DEF RootsOK, DiskKey, Keys
    <2>4. PICK src \in Readings : m_units[r] = Unit(r, src, m_cfg)
        BY <1>1, <2>2 DEF UnitsBuilt, BuiltFrom
    <2>5. k \in DOMAIN m_units[r].diags
        BY <1>1, <2>2, <2>3, <2>4, UnitFacts
    <2> QED BY <1>1, <2>1, <2>5 DEF PublishedOK, Told
<1> QED BY <1>1, <1>3, <1>4, <1>5, EditorFacts

-----------------------------------------------------------------------------
(* The theorems.                                                           *)

\* LookupServes: whatever was opened, changed, closed or reported, lookup
\* finds every document the editor holds, in a unit that exists, with the text
\* the editor shows: Workspace's at() calls never throw on the way.
THEOREM LookupsServe == ASSUME OneSpelling PROVE Spec => []LookupServes
<1>1. IInv => LookupServes
    BY Serves
<1> QED BY <1>1, Inductive, PTL

\* UnitsHoldSources: no unit survives a reconcile with an outdated text of a
\* file it contains, unless the file is closed and its event is on the way.
THEOREM UnitsAreCurrent == ASSUME OneSpelling PROVE Spec => []UnitsHoldSources
<1>1. IInv => UnitsHoldSources
    BY DEF IInv
<1> QED BY <1>1, Inductive, PTL

\* NoStrayUnits: reconcile's third step leaves no unit that nobody needs.
THEOREM NoUnitStays == ASSUME OneSpelling PROVE Spec => []NoStrayUnits
<1>1. IInv => NoStrayUnits
    BY Used
<1> QED BY <1>1, Inductive, PTL

\* FreshUnlessBlind: with every disk event delivered and none missed, the
\* units that survived and the owners the project cache gave are those of a
\* workspace that starts now.
THEOREM IncrementalIsFresh == ASSUME OneSpelling, Shallow PROVE Spec => []FreshUnlessBlind
<1>1. IInv => FreshUnlessBlind
    BY Fresh
<1> QED BY <1>1, Inductive, PTL

\* ClientShowsUnits: although only changed diagnostics are queued, a client
\* that has taken the queue shows for each open document what its unit says,
\* and nothing for any other.
THEOREM ClientKeepsUp == ASSUME OneSpelling PROVE Spec => []ClientShowsUnits
<1>1. Init => IInv /\ ClientInv
    BY InitInv, ClientInit
<1>2. (IInv /\ ClientInv) /\ [Next]_vars => (IInv /\ ClientInv)'
    BY NextInv, ClientNext
<1>3. IInv /\ ClientInv => ClientShowsUnits
    BY ClientSees
<1> QED BY <1>1, <1>2, <1>3, PTL DEF Spec

\* LookupNeverThrows, which two spellings of one file break (the run `alias`),
\* holds where each file has one.
THEOREM OneSpellingNeverThrows == ASSUME OneSpelling PROVE Spec => []LookupNeverThrows
<1>1. IInv => LookupNeverThrows
    BY Throwless
<1> QED BY <1>1, Inductive, PTL

===============================================================================
