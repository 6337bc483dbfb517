------------------------------ MODULE Workspace ------------------------------
(***************************************************************************)
(* The open documents and the compilation units that analyse them          *)
(* (server/Workspace.{h,cpp}), over the overlay of editor buffers on the   *)
(* disk (fs::OverlaySourceProvider).                                       *)
(*                                                                         *)
(* One action per method: open, change, close, fileChanged, setPathConfig  *)
(* and takePendingDiagnostics, each with the reconcile() it ends in.  The  *)
(* server is single-threaded, so a method is one step; what interleaves    *)
(* with it is the disk, whose changes reach the server later, through      *)
(* `watch`, and the editor.  What one unit holds is AbstractUnit's Unit,   *)
(* which UnitBuilder's UnitIsAbstract relates to the code that builds it.  *)
(* The parse cache is left out: parseCached reuses an entry only when its  *)
(* whole text is equal, so it cannot change a unit.                        *)
(***************************************************************************)
EXTENDS AbstractUnit, Naturals, Sequences, FiniteSets, Functions, FiniteSetsExt

CONSTANTS
    Uri,        \* the URIs the client uses
    FileUri,    \* those of them with a path (fs::uriToPath)
    KeyOf,      \* [Uri -> Key]
    Dir,        \* directories
    Chain,      \* [Dir \cup {NoDir} -> Seq(Dir)]: a directory, its parent, ...
    MarkerOf,   \* [Dir -> Key]: its project.mnemonimov
    MainOf,     \* [Dir -> Key]: its main.asm
    Text,       \* contents: [incs : paths included, defs, uses : label names]
    TextsOf,    \* [Key -> SUBSET Text]: what a file may hold on disk or open
    Config,     \* path configurations
    MaxDepth,   \* MAX_PROJECT_DEPTH
    MaxWatch,   \* bound: disk events the client has not delivered yet
    MaxPending, \* bound: diagnostics queued before takePendingDiagnostics
    NoUri, NoPath, NoDir, \* the empty string, as a URI, a path, ...
    NoMain      \* no project main: nullopt

DiskKey == Key \ {KeyOf[u] : u \in Uri \ FileUri}
ProjectFiles == Range(MarkerOf) \cup Range(MainOf)

ASSUME UriAssumption ==
    /\ FileUri \subseteq Uri /\ KeyOf \in [Uri -> Key]
    /\ NoUri \notin Uri /\ NoKey \notin Key /\ NoPath \notin Key /\ NoMain \notin Key
ASSUME DirAssumption ==
    /\ DirOf \in [Keys -> Dir \cup {NoDir}] /\ DirOf[NoKey] = NoDir
    /\ \A u \in Uri \ FileUri : DirOf[KeyOf[u]] = NoDir
    /\ Chain \in [Dir \cup {NoDir} -> Seq(Dir)] /\ Chain[NoDir] = <<>>
    /\ \A d \in Dir : /\ Chain[d] # <<>> /\ Chain[d][1] = d
                      /\ \A i \in DOMAIN Chain[d] :
                            Chain[Chain[d][i]] = SubSeq(Chain[d], i, Len(Chain[d]))
    /\ MarkerOf \in [Dir -> Key] /\ MainOf \in [Dir -> Key]
ASSUME TextAssumption ==
    /\ TextsOf \in [Key -> SUBSET Text] /\ EmptyText \in Text /\ Missing \notin Text
    /\ EmptyText.incs = {} /\ Unresolved \notin Key
ASSUME ResolveAssumption ==
    \A k \in Keys : \A t \in Text : \A i \in t.incs : \A cfg \in Config :
        Resolve[<<i, DirOf[k], cfg>>] \in Key \cup {Unresolved}
ASSUME BoundAssumption == MaxDepth \in Nat \ {0} /\ {MaxWatch, MaxPending} \subseteq Nat

VARIABLES
    disk,         \* the files: [Key -> Text or Missing]
    watch,        \* disk events on their way to the server, oldest first
    editor,       \* uri -> text: what the client holds open
    client,       \* uri -> the diagnostics the client shows
    m_buffers,    \* m_src's open buffers: key -> text
    m_cfg,
    m_open,       \* key -> OpenDoc
    m_uriToKey,
    m_units,      \* root key -> unit
    m_projectMain, \* dir -> main.asm or NoMain, as cached
    m_published,  \* uri -> diagnostics last queued
    m_pending,    \* diagnostics queued, in order
    blind         \* ghost: files that appeared or vanished unnoticed, see below

world == <<disk, watch>>
served == <<m_buffers, m_cfg, m_open, m_uriToKey, m_units, m_projectMain, m_published>>
vars == <<world, editor, client, served, m_pending, blind>>

Put(f, x, v) == [y \in DOMAIN f \cup {x} |-> IF y = x THEN v ELSE f[y]]
Drop(f, x) == [y \in DOMAIN f \ {x} |-> f[y]]
Empty == [x \in {} |-> x]

-----------------------------------------------------------------------------
(* Reading files and building a unit.                                      *)

\* OverlaySourceProvider::read, for every key.
Overlay(buffers) ==
    [k \in Keys |-> IF k \in DOMAIN buffers THEN buffers[k]
                    ELSE IF k \in Key THEN disk[k] ELSE Missing]

\* projectMainFor: climb until a directory is cached or holds a project.
ProjectMainFor(cache, dir, src) ==
    LET whole == Chain[dir]
        climb == SubSeq(whole, 1, IF Len(whole) < MaxDepth THEN Len(whole) ELSE MaxDepth)
        stops == {i \in DOMAIN climb : \/ climb[i] \in DOMAIN cache
                                       \/ disk[MarkerOf[climb[i]]] # Missing}
        last == IF stops = {} THEN Len(climb) ELSE Min(stops)
        main == IF stops = {} THEN NoMain
                ELSE IF climb[last] \in DOMAIN cache THEN cache[climb[last]]
                ELSE IF src[MainOf[climb[last]]] # Missing THEN MainOf[climb[last]]
                ELSE NoMain
        visited == {climb[i] : i \in 1 .. last} \ DOMAIN cache
    IN [main |-> main,
        cache |-> [d \in DOMAIN cache \cup visited |->
                      IF d \in DOMAIN cache THEN cache[d] ELSE main]]

\* The lookups of one reconcile, in the iteration order of m_open.
LookedUp(cache, doc, src) ==
    IF doc.path = NoPath THEN [main |-> NoMain, cache |-> cache]
    ELSE ProjectMainFor(cache, DirOf[doc.path], src)
Lookups(open, order, cache0, src) ==
    LET after[i \in 0 .. Len(order)] ==
            IF i = 0 THEN [main |-> NoMain, cache |-> cache0]
            ELSE LookedUp(after[i - 1].cache, open[order[i]], src)
    IN after

Orders(S) == {o \in [1 .. Cardinality(S) -> S] : IsInjective(o)}
\* The members of S in the order that all the documents have (there is one).
Queues(S, order) ==
    {q \in Orders(S) : \A i, j \in DOMAIN order :
        i < j /\ {order[i], order[j]} \subseteq S =>
            \E m, n \in DOMAIN q : m < n /\ q[m] = order[i] /\ q[n] = order[j]}

\* Step 1: units without a dirty file survive.  (KeptByRoot and KeptAlways are
\* the mistakes of looking at a unit's root only and of ignoring `all`.)
KeptByRoot(dirty, all) == {r \in DOMAIN m_units : ~all /\ r \notin dirty}
KeptAlways(dirty, all) == {r \in DOMAIN m_units : DOMAIN m_units[r].text \cap dirty = {}}
Kept(dirty, all) == {r \in DOMAIN m_units : ~all /\ DOMAIN m_units[r].text \cap dirty = {}}

\* Step 2: ensureUnit builds what is missing, from the text of a document
\* without a path.
Ensured(r, open, src, cfg, kept) ==
    IF r \in kept THEN m_units[r]
    ELSE IF r \in DOMAIN open /\ open[r].path = NoPath
    THEN Unit(open[r].key, [src EXCEPT ![open[r].key] = open[r].text], cfg)
    ELSE Unit(r, src, cfg)

\* A document belongs to the project's main.asm when that includes it, which
\* OwnerUnchecked takes for granted.
OwnerUnchecked(k, main, includes) == IF main = NoMain THEN k ELSE main
OwnerOf(k, main, includes) == IF main \notin {NoMain, k} /\ includes THEN main ELSE k

\* Step 3: the owners and the mains live, other units are forgotten, save in
\* LiveForever.
LiveForever(owners, mains) == owners \cup (mains \ {NoMain}) \cup DOMAIN m_units
Live(owners, mains) == owners \cup (mains \ {NoMain})

\* reconcile(dirty, all), on the values the calling method leaves behind.
Reconcile(open, buffers, cfg, cache0, published, pending, dirty, all) ==
    \E order \in Orders(DOMAIN open) :
      LET src == Overlay(buffers)
          after == Lookups(open, order, cache0, src)
          Main(k) == after[CHOOSE i \in DOMAIN order : order[i] = k].main
          UnitAt(r) == Ensured(r, open, src, cfg, Kept(dirty, all))
          \* Step 4: diagnostics of an open document, and who must hear of them.
          Diags(k) == LET unit == m_units'[m_open'[k].owner]
                      IN IF k \in DOMAIN unit.diags THEN unit.diags[k] ELSE {}
          News(k) == open[k].uri \in DOMAIN published => published[open[k].uri] # Diags(k)
      IN /\ m_projectMain' = after[Len(order)].cache
         /\ m_open' = [k \in DOMAIN open |-> [open[k] EXCEPT !.owner =
                          OwnerOf(k, Main(k), k \in DOMAIN UnitAt(Main(k)).text)]]
         /\ m_units' = [r \in Live({m_open'[k].owner : k \in DOMAIN open},
                                   {Main(k) : k \in DOMAIN open}) |-> UnitAt(r)]
         \* (Two documents never share a URI, save for Phantoms, below: the code
         \* queues the empty URI once, this model once for each of them.)
         /\ \E queue \in Queues({k \in DOMAIN open : News(k)}, order) :
               m_pending' = pending \o [i \in DOMAIN queue |->
                                          [uri |-> open[queue[i]].uri, diags |-> Diags(queue[i])]]
         /\ m_published' = [u \in DOMAIN published \cup {open[k].uri : k \in DOMAIN open} |->
                IF \E k \in DOMAIN open : open[k].uri = u
                THEN Diags(CHOOSE k \in DOMAIN open : open[k].uri = u)
                ELSE published[u]]

-----------------------------------------------------------------------------
(* The methods, as the server calls them.                                  *)

\* Server::dispatch flushes after every notification.
Ready == m_pending = <<>>

\* keyFor: a URI without a path is its own key.
KeyFor(u) == KeyOf[u]

Opened(u, t) ==
    LET k == KeyFor(u)
        filed == u \in FileUri
        doc == [uri |-> u, path |-> IF filed THEN k ELSE NoPath, key |-> k,
                text |-> IF filed THEN EmptyText ELSE t, owner |-> NoKey]
        buffers == IF filed THEN Put(m_buffers, k, t) ELSE m_buffers
    IN /\ m_uriToKey' = Put(m_uriToKey, u, k)
       /\ m_buffers' = buffers
       /\ Reconcile(Put(m_open, k, doc), buffers, m_cfg, m_projectMain,
                    m_published, m_pending, {k}, FALSE)
       /\ blind' = blind \cup (IF Overlay(m_buffers)[k] = Missing /\ filed THEN {k} ELSE {})

\* open: LSP lets a client open a document it does not hold open.
Open(u, t) ==
    /\ Ready /\ u \notin DOMAIN editor
    /\ Opened(u, t)
    /\ editor' = Put(editor, u, t)
    /\ UNCHANGED <<world, client, m_cfg>>

\* What m_open[key] makes of a key that is gone: a default OpenDoc.
Phantom == [uri |-> NoUri, path |-> NoPath, key |-> NoKey, text |-> EmptyText, owner |-> NoKey]
DocAt(k) == IF k \in DOMAIN m_open THEN m_open[k] ELSE Phantom

\* change, of a document the server knows or, falling back to open, not.
Changed(u, t) ==
    LET k == m_uriToKey[u]
        doc == DocAt(k)
        buffers == IF doc.path = NoPath THEN m_buffers ELSE Put(m_buffers, doc.path, t)
    IN /\ m_buffers' = buffers
       /\ Reconcile(Put(m_open, k, IF doc.path = NoPath THEN [doc EXCEPT !.text = t] ELSE doc),
                    buffers, m_cfg, m_projectMain, m_published, m_pending, {doc.key}, FALSE)
       /\ UNCHANGED <<m_uriToKey, blind>>
ChangeText(u, t) ==
    /\ Ready
    /\ IF u \in DOMAIN m_uriToKey THEN Changed(u, t) ELSE Opened(u, t)
    /\ editor' = Put(editor, u, t)
    /\ UNCHANGED <<world, client, m_cfg>>

\* A closed document is reported anew when it is opened again; KeepPublished
\* is close without its m_published.erase.
KeepPublished(u) == m_published
Unpublished(u) == Drop(m_published, u)

Close(u) ==
    /\ Ready /\ u \in DOMAIN m_uriToKey
    /\ LET k == m_uriToKey[u]
           doc == DocAt(k)
           buffers == IF doc.path = NoPath THEN m_buffers ELSE Drop(m_buffers, doc.path)
       IN /\ m_buffers' = buffers
          /\ m_uriToKey' = Drop(m_uriToKey, u)
          /\ Reconcile(Drop(m_open, k), buffers, m_cfg, m_projectMain, Unpublished(u),
                       Append(m_pending, [uri |-> u, diags |-> {}]), {k}, FALSE)
          /\ blind' = blind \cup (IF k \in ProjectFiles /\ disk[k] = Missing THEN {k} ELSE {})
    /\ editor' = Drop(editor, u)
    /\ UNCHANGED <<world, client, m_cfg>>

\* The project cache goes when a file came or went, or with a project file;
\* CacheKept is fileChanged without the clear.
CacheKept(k, change) == m_projectMain
CacheAfter(k, change) ==
    IF change # "Changed" \/ k \in ProjectFiles THEN Empty ELSE m_projectMain

\* fileChanged: dropped while the file is open in the editor.
FileChanged ==
    /\ watch # <<>> /\ Len(m_pending) <= MaxPending
    /\ watch' = Tail(watch)
    /\ LET k == Head(watch).key
           change == Head(watch).change
           exists == change # "Changed"
       IN IF k \in DOMAIN m_open
          THEN /\ blind' = blind \cup
                     (IF change = "Created" \/ (change = "Deleted" /\ k \in ProjectFiles)
                      THEN {k} ELSE {})
               /\ UNCHANGED <<served, m_pending>>
          ELSE /\ Reconcile(m_open, m_buffers, m_cfg, CacheAfter(k, change), m_published, m_pending,
                            IF exists THEN {} ELSE {k}, exists)
               /\ blind' = IF exists THEN {} ELSE blind
               /\ UNCHANGED <<m_buffers, m_cfg, m_uriToKey>>
    /\ UNCHANGED <<disk, editor, client>>

\* setPathConfig: every unit is rebuilt, the project cache is kept.
SetPathConfig(cfg) ==
    /\ Ready /\ cfg # m_cfg
    /\ m_cfg' = cfg
    /\ Reconcile(m_open, m_buffers, cfg, m_projectMain, m_published, m_pending, {}, TRUE)
    /\ blind' = blind \cap ProjectFiles
    /\ UNCHANGED <<world, editor, client, m_buffers, m_uriToKey>>

\* takePendingDiagnostics: the client gets the queue in order.
TakePending ==
    /\ m_pending # <<>>
    /\ client' = [u \in Uri |->
           LET mine == {i \in DOMAIN m_pending : m_pending[i].uri = u}
           IN IF mine = {} THEN client[u] ELSE m_pending[Max(mine)].diags]
    /\ m_pending' = <<>>
    /\ UNCHANGED <<world, editor, served, blind>>

-----------------------------------------------------------------------------
(* The disk, changed by other programs and by the editor saving; the       *)
(* client's file watcher reports every change, some time later.            *)

DiskChange(k, t) ==
    /\ Len(watch) < MaxWatch /\ disk[k] # t
    /\ disk' = [disk EXCEPT ![k] = t]
    /\ watch' = Append(watch, [key |-> k,
                               change |-> CASE disk[k] = Missing -> "Created"
                                            [] t = Missing -> "Deleted"
                                            [] OTHER -> "Changed"])
    /\ UNCHANGED <<editor, client, served, m_pending, blind>>

Init ==
    /\ disk \in {d \in [Key -> Text \cup {Missing}] :
                    \A k \in Key : d[k] \in {Missing} \cup (IF k \in DiskKey THEN TextsOf[k] ELSE {})}
    /\ m_cfg \in Config
    /\ watch = <<>> /\ m_pending = <<>>
    /\ client = [u \in Uri |-> {}]
    /\ blind = {}
    /\ editor = Empty /\ m_buffers = Empty /\ m_open = Empty /\ m_uriToKey = Empty
    /\ m_units = Empty /\ m_projectMain = Empty /\ m_published = Empty

\* What the user and other programs do, and what the server does about it.
Outside ==
    \/ \E u \in Uri : \E t \in TextsOf[KeyOf[u]] : Open(u, t) \/ ChangeText(u, t)
    \/ \E u \in Uri : Close(u)
    \/ \E cfg \in Config : SetPathConfig(cfg)
    \/ \E k \in DiskKey : \E t \in TextsOf[k] \cup {Missing} : DiskChange(k, t)
Next == Outside \/ FileChanged \/ TakePending

Spec == Init /\ [][Next]_vars

\* The client delivers the events it holds and the server, which waits for
\* nothing but its input, handles each and flushes.
FairSpec == Spec /\ WF_vars(FileChanged) /\ WF_vars(TakePending)

-----------------------------------------------------------------------------
(* Correctness.                                                            *)

\* "The unit analysing an open document, and that document inside it"
\* (Workspace.h, lookup): whatever was opened, closed, edited or reported,
\* every document the editor holds is found, in a unit that exists, with the
\* text the editor shows.  m_units.at and m_open.at never throw.
LookupServes ==
    \A u \in DOMAIN editor :
        /\ u \in DOMAIN m_uriToKey /\ m_uriToKey[u] \in DOMAIN m_open
        /\ LET doc == m_open[m_uriToKey[u]]
           IN /\ doc.owner \in DOMAIN m_units
              /\ doc.key \in DOMAIN m_units[doc.owner].text
              /\ m_units[doc.owner].text[doc.key] = editor[u]

\* What a unit built now would read for a file: the editor's text before the
\* disk's, and nothing for a root that cannot be read.
Sources ==
    [k \in Keys |-> IF k \in DOMAIN m_open /\ m_open[k].path = NoPath THEN m_open[k].text
                    ELSE Overlay(m_buffers)[k]]
SourceText(k) == Held(Sources)[k]
Reported(k) == \A i \in DOMAIN watch : watch[i].key # k

\* "Units are rebuilt when any of their files changes (open buffer or disk)"
\* (Workspace.h): no unit keeps an outdated text of a file it contains, save
\* of a closed file whose disk event has not been delivered yet.
UnitsHoldSources ==
    \A r \in DOMAIN m_units : \A k \in DOMAIN m_units[r].text :
        k \in DOMAIN m_open \/ Reported(k) => m_units[r].text[k] = SourceText(k)

\* The owner and the units a workspace without any memory would compute.
FreshMain(k) == ProjectMainFor(Empty, DirOf[k], Overlay(m_buffers)).main
FreshUnit(r) == Unit(r, [Overlay(m_buffers) EXCEPT ![r] = Sources[r]], m_cfg)
FreshOwner(k) ==
    LET main == IF m_open[k].path = NoPath THEN NoMain ELSE FreshMain(k)
    IN IF main \notin {NoMain, k} /\ k \in DOMAIN FreshUnit(main).text THEN main ELSE k

\* Incremental invalidation is as good as rebuilding everything: with every
\* event delivered, units and owners are those of a fresh start, unless a
\* file appeared or vanished in one of the ways `blind` records.  Those are:
\* a buffer opened on a path the disk does not have, a creation reported
\* while the file is open, and a project.mnemonimov or main.asm that goes
\* away while it is open.  reconcile({key}) cannot reach the units that
\* recorded the file as missing, nor m_projectMain.
FreshUnlessBlind ==
    watch = <<>> /\ blind = {} =>
        /\ \A r \in DOMAIN m_units : m_units[r] = FreshUnit(r)
        /\ \A k \in DOMAIN m_open : m_open[k].owner = FreshOwner(k)

\* Diagnostics are queued when they change and only then, yet the client is
\* never left behind: after a flush each open document shows what its unit
\* says, and a closed one shows nothing.
ClientShowsUnits ==
    m_pending = <<>> =>
        \A u \in Uri :
            client[u] = IF u \in DOMAIN editor
                        THEN m_units[m_open[m_uriToKey[u]].owner].diags[m_uriToKey[u]]
                        ELSE {}

\* "Overlays unsaved editor buffers on the disk, and rebuilds the units a
\* change affects" (README): with every event delivered, an include reported
\* as missing names a file that neither the editor nor the disk has.
MissingIsMissing ==
    watch = <<>> =>
        \A r \in DOMAIN m_units : \A k \in DOMAIN m_units[r].diags :
            \A i \in {x \in m_units[r].text[k].incs : <<"missing", x>> \in m_units[r].diags[k]} :
                LET j == Target(i, k, m_cfg) IN j = Unresolved \/ Sources[j] = Missing

\* lookup's m_open.at(key) finds the document of every URI it is asked about.
LookupNeverThrows == \A u \in DOMAIN m_uriToKey : m_uriToKey[u] \in DOMAIN m_open

\* No unit outlives its use (reconcile, step 3): each is the owner of an open
\* document or the main.asm of the project of one.
NoStrayUnits ==
    \A r \in DOMAIN m_units :
        \E k \in DOMAIN m_open :
            \/ m_open[k].owner = r
            \/ m_open[k].path # NoPath /\ DirOf[k] \in DOMAIN m_projectMain
               /\ m_projectMain[DirOf[k]] = r

\* Once the disk, the editor's texts and the configuration no longer change,
\* the client ends up showing, for good, what a server started now would tell.
Quiet == <>[][FALSE]_<<disk, editor, m_cfg>>
ShowsTruth ==
    blind = {} =>
        \A u \in DOMAIN editor : \E r \in {FreshOwner(KeyOf[u])} :
            client[u] = FreshUnit(r).diags[KeyOf[u]]
Converges == Quiet => <>[]ShowsTruth

=============================================================================
