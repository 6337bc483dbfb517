# A formal model of misa-lsp

misa-lsp is a language server for the MISA assembler of Mnemonimov. This
directory models its core in TLA+, checks the models with TLC on small instances
and proves some of their theorems with TLAPS. Paths below are those of the
repository.

## The system

One process, one thread. `Server::run` reads a message, dispatches it to a
handler and writes the answer. Handlers call `Workspace`, which keeps the open
documents and the *compilation units* that analyse them; a unit is built by
`Compilation`, which reads files through a `SourceProvider`, lexes, parses and
analyses them. The feature providers answer requests from a finished unit. What
runs concurrently with the server is the world outside: the editor, which opens,
edits and closes documents, the disk, which other programs change, and the
client's file watcher, which reports those changes some time later.

| Component | State | Operations | What makes it correct |
|---|---|---|---|
| `server/Workspace` | `m_open`, `m_uriToKey`, `m_units`, `m_projectMain`, `m_published`, `m_pending`, the open buffers | open, change, close, fileChanged, setPathConfig, takePendingDiagnostics, lookup; `reconcile` after each | every open document has a unit that holds its text; incremental invalidation equals a rebuild from nothing; the client shows what the units say |
| `lang/Compilation` | the unit under construction: `files`, `order`, `m_seen`, `m_stack` | buildUnit, buildText: expand, handleInclude, handleEmbFile, analyse, addIncludeErrorSummaries | each file once, in the assembler's textual order; cycles end; errors of closed files are visible from the includer |
| `fs/SourceProvider` | open buffers, a disk cache by modification time and size | read, exists, key, findProjectMain | a read returns the buffer or a text that the file has under the timestamp it bears; a document finds its innermost project |
| `server/Server` | `m_initialized`, `m_shutdown` | dispatch, the handlers, run | every request is answered once; diagnostics are flushed; the process outlives its messages, which it does not always |
| `text/TextDocument` | text and line offsets | offset to UTF-16 position and back | the two are inverse on character boundaries |
| `fs/Path` | none | normalize, dirname, join, resolveIncludePath, URIs | an include leads where its author walks; one place has one spelling; a URI leads back to its path |
| `lang/SymbolTable`, `lang/SemanticAnalyzer` | definitions, references, the tables of known names | two passes over `order` | a reference sees the definition in force where it stands |
| `lang/Lexer`, `Parser`, `ExprParser` | cursor, tokens, diagnostics | tokenize, parse | nothing is dropped without a report; an error stays on its line; precedence |
| `features` | none | one provider per request | definition and references lead to what the analysis says; outline and folds follow the scopes; what is offered on a line being typed fits what the parser will make of it |
| `kb`, `protocol` | static tables; JSON conversion | lookups | not modelled: no behaviour |
| `transport` | the standard streams | readMessage, write | what readMessage returns or throws, and the write that throws, are in Server; the framing is not modelled |
| `tools/lint`, `main` | none | build one unit, print it | not modelled: front ends |

Most of the hard behaviours are in the first three rows. `Workspace` caches five
things about a world that changes behind its back, and each event invalidates
only what `reconcile` works out from it: a unit is found by the files it
*contains*, so a file that it looked for and missed cannot invalidate it, and
the project cache is cleared by disk events only. `UnitBuilder` recurses through
a graph that may be cyclic while it appends to the vectors it walks.
`SourceProvider` reads files that other programs write meanwhile. The other
components are functions of a text or of a unit: nothing runs beside them, and
what is hard to test there is the number of cases. The hazards are listed, each
at its line, in `PROJECT.json`.

## Modules

### UnitBuilder

The construction of one unit (`lang/Compilation.cpp`) as a step machine. The
recursion `expand`/`handleInclude` is an explicit `stack` whose frames hold an
activation's file and loop variable; `files`, `order` and `seen` are the code's
`m_c.files`, `m_c.order` and `m_seen`. There is an action for each way a
statement is handled: `OtherStatement`, `IncludeUnresolved`, `IncludeSeen` (a
cycle or a repeat), `IncludeRefused` (not found, or the unit is full),
`IncludeExpanded`, `EmbFile`; `LeaveFile` is the return from `expand`, `Analyse`
and `AddSummaries` are the two passes that follow. Ids and indices start at 1.

Abstracted: a file is its key, an include's `to` is what path resolution made of
its string, a diagnostic is its severity, statement and origin. A statement
carries at most one diagnostic of each origin. What the semantic analyzer finds
wrong is part of the program (a "semantic" statement). The source must not
change during a build: the code reads each file once, so a unit is always a unit
of *some* mixture of texts, and which mixture is Workspace's concern.

`MCUnitBuilder` gives the programs.

- `Units.cfg`: every include graph over three files with up to two statements
  each, missing files included; every kind of statement in shorter files, with
  and without a root; and four files of includes under a limit of three. Three
  files are the least with a cycle that does not pass through the root, a
  diamond and a repeated include below another include; the fourth is the one
  that the limit refuses. Checks `TypeOK`, `IncludeOnce`, `OkTree`,
  `SplicedInOrder` (the order is the textual insertion, the statements below an
  include are one block right after it), `RepeatedIncludes` (statuses tell the
  truth about the finished unit), `ErrorsVisible` (an include line warns exactly
  when something below it has errors, and counts each once), `UnitIsReachable`
  (the unit is the least set that is closed under including, unless the limit
  was hit, and then it is exactly full), `UnitIsAbstract` (the unit is the one
  that Workspace counts on, next section).

### Workspace

`server/Workspace.cpp` over `fs::OverlaySourceProvider`. One action per method,
each with the `reconcile` it ends in, since the server is single-threaded:
`Open`, `ChangeText` (with its fall back to open), `Close`, `FileChanged`,
`SetPathConfig`, `TakePending`. `m_open` is an unordered map, so `reconcile` may
visit the documents in any order: `\E order \in Orders(...)`. `DiskChange` is
the outside world, `watch` the events under way, `client` what the editor shows;
`Ready` says that `Server::dispatch` flushes after each notification, while the
events of one `didChangeWatchedFiles` are handled in a row. A unit is the
`Unit` of `AbstractUnit`, its members and diagnostics: the least closed set of
files and the includes that lead nowhere, which `UnitIsAbstract` shows to be what
the builder computes. Labels defined and used stand for
the semantic diagnostics, so that diagnostics of one file depend on the text of
others.

`blind` is a ghost variable. It records files that appeared or vanished in a way
the invalidation cannot see: a buffer opened on a path the disk does not have, a
creation reported while the file is open, a project file that goes away while
open. `FreshUnlessBlind` says that these are the *only* ways: with `blind` empty
and no event under way, all units and owners are those of a workspace started
now. The findings below show where they go wrong.

`MCWorkspace` gives the workspaces.

- `Project.cfg`: main.asm, a library and project.mnemonimov in one folder, both
  sources opened, edited and closed while all three come and go on disk, two
  events under way. Checks `LookupServes` (no `at` throws and the unit shows the
  editor's text), `UnitsHoldSources`, `FreshUnlessBlind`, `ClientShowsUnits`
  (not sending unchanged diagnostics never leaves the client behind) and
  `NoStrayUnits`.
- `Virtual.cfg`: a virtual folder that `SetPathConfig` moves, a document without
  a path that includes a file through it, and a file that only opens. Checks,
  under fairness, `Converges`: once disk, editor and configuration are quiet, the
  client ends up showing, for good, what a fresh server would tell.

Bounds: `MaxWatch` events under way (two let a second change of a file overtake
the report of the first), `MaxPending` diagnostics queued before a flush, texts
of at most one include and one label, one directory. The depth limit never binds
in these workspaces (`Files.cfg` has it bind). It would break
`FreshUnlessBlind`: a climb that `MAX_PROJECT_DEPTH` cuts short caches "no
project" for every directory it passed, the ones within the limit included.

Assumed: the disk does not change *within* one `reconcile`; all paths of one key
lie in one directory; the client's watcher reports every change, in order; and
the process lives: a flush that ends it, as Server has it, ends the workspace
too.

### Server

`server/Server.cpp`, the loop `run` and `dispatch`. `script` is what the client
sends, `out` everything written, tagged with the message that caused it. `Read`,
`ReadThrows`, `EndOfStream` and `AwaitExit` are the loop; `Notification`,
`Reject`, `Fail`, `Handle`, `Abort`, `Respond` and `Flush` are the ways through
`dispatch`. A handler is what it queues in the Workspace and how it ends.
Requests throw only before they change the workspace (`onInitialize` reads its
parameters first, the features change nothing), notifications also after, as
when the second change of a `didChangeWatchedFiles` is not an object.

`dispatch` has two try blocks, around the handlers, and `main` has no catch: what
is thrown elsewhere ends the process, `pc = "dead"`. Those places are

- reading (`ReadThrows`): a `Content-Length` that is no number or too large
  (`JsonRpcStream.cpp:33`), a JSON body that is no object or whose method is no
  string (`Server.cpp:211`, and `:276` while the loop waits for exit). A script
  has `Deadly` for them;
- a result whose text is not all UTF-8, which nlohmann's `dump` refuses: a hover
  or a completion may quote a file on the disk, and `writeResponse`
  (`Server.cpp:257`) is not in the try block (`Respond`);
- a diagnostic whose text is not all UTF-8: `Lexer.cpp:314` and `:155` put a
  single byte of a multi-byte character into a message. `Flush` has taken the
  queue, writes what comes before and loses the rest;
- a parameter that is not there: nlohmann's `operator[]` of a constant object
  asserts it (`Abort`). The build that `CMakeLists.txt` asks for has assertions;
  in one without, what follows is undefined, and the model does not cover it.

The other texts the server writes (errors, log messages, URIs as far as the
client gave them) come from JSON it has parsed, so they can be written.
nlohmann's json is outside the repository; the above is how version 3.11.3,
which `CMakeLists.txt` fetches, treats the calls.

`Lifecycle.cfg` takes every script of up to three messages of nineteen kinds and
of four messages whose last alone may be fatal: early, unknown, failing, after a
shutdown, with and without an id, unparsable, and seven kinds that the process
dies of. Four hold an initialize, a notification that fails half-way, a request
that could overtake its diagnostics, and a shutdown. Checks

- `TypeOK`, `InOrder`;
- `AnsweredOnce` and `Published`: what the messages that the server is done with
  are due, they have had, once; and if the process dies, what its last message
  had had by then;
- `DiesOf`: it dies of the first message that it cannot survive and of no other;
  in particular an exception of a handler never ends it;
- under fairness, as the input ends, `Returns`: the loop ends with 1 exactly when
  the stream ends between a shutdown and its exit, and with 0 otherwise, unless
  the process has died.

`Published` is what Workspace's guard `Ready` rests on: diagnostics are taken
before the next message is looked at. `Uncaught.cfg` checks what `Server.h`
promises without such reservations, that the loop returns, and finds it violated
(under Findings).

### TextDocument

`text/TextDocument.cpp`: the line index, `offsetToPosition`, `positionToOffset`,
`lineText` as the code walks bytes (`Width`, `CodePoint`, `Units`
read a lead byte as it does), against definitions that count characters
and the lines of the protocol (`PositionOf`, `OffsetOf`): those end at `\n`, at
`\r\n` and at a `\r` alone, and no position lies inside `\r\n`. A character is
bytes of the shape that UTF-8 gives it, a lead byte that says its length and
continuation bytes, so lead bytes are the only ones that the walks meet.
`Update` replaces the text, as every change does.

`Positions.cfg` takes every text of up to four characters out of one-, two-,
three- and four-byte characters, carriage returns and newlines: every
neighbourhood of a line break and of two widths. `RoundTrip` holds for all of
them, since both directions count alike. The other two are about the texts in
which no `\r` stands alone (`NoLoneReturn`), because the server ends a line at
`\n` only (`TextDocument.cpp:20`), so that in others its lines are not the
protocol's, and all positions below are off. `BasicPositions`: positions are the
protocol's where no four-byte character precedes on the line, and a column
beyond the line is clamped to its end; but at the end of a line that `\r\n`
ends, the server clamps between the two characters, where the protocol has no
position (`InTheReturn`). `LineIsItsCharacters`: `lineText`, from which hover,
completion and signature help cut by columns, is the protocol's line without its
break; it covers `\r\n`, empty lines and a missing final newline. `LspPositions`
(`TextSupplementary.cfg`, under Findings) is the comment's claim without these
conditions. Not modelled: `lineRange`, which nothing calls; its range ends
before the newline, although `TextDocument.h:28` says that it includes it.

### Semantics

`lang/SemanticAnalyzer.cpp` over `lang/SymbolTable.cpp`: the two passes, one
statement a step. `Collect` and `PassOver` are pass 1; `Label`, `Use`, `Jump`,
`NoDirection`, `Define`, `Undef`, `Exit` and `Plain` are pass 2; `Finish` adds
the hints. `m_defs`, `m_refs`, `m_liveConsts` and `m_currentGlobal` are the
code's, the map `m_defIndex` is `IndexOf`. A qualified name is a sequence of
words. A statement names one thing; arity, operand kinds and types are lookups
in static tables and left out; of a constant's value it is kept whether there is
one and whether it is a float, which is contagious. The reference definitions
(`Scope`, `InForce`, `Referent`, `ValueAt`) look at the whole stream at once.

`Names.cfg` takes three families of streams: two scopes with a local label,
local and global constants, `undef` and references (four statements); reusable
labels and entry points (four); constants through constants (five, as
define-use-undef-define in a scope needs). Checks `ConstantsInForce`,
`ResolvedInScope`, `NearestReusable`, `EntryPointsExit`, `ValuesInForce`.
`ResolvedInScope` leaves out names that are both a label and a constant, an
error that the analyzer reports. (A `def` of a label's name replaces the label
in `m_defIndex`, `SymbolTable.cpp:8`, and after its `undef` the label is
reported as unknown, although `SemanticAnalyzer.h:47` says that a label is
known.)

### Features

What the client is shown of a unit that `Semantics` has analysed, so this module
extends it. `SymbolAt` is `FeatureUtil.h`'s `symbolAt` with the cursor on one
word of a name, `ProvideDefinition` and `ProvideReferences` are the providers.
`ProvideDocumentSymbols` is the outline, `LabelFolds` and `SectionFolds` two of
the three kinds of folds. Where the statements stand is a `layout`, a file, line
and column for each; it matters only here, so the properties quantify over it
instead of the state holding one. The parts of a name are columns one apart. The
definitions of a file are a set: their indices give their order.

`Names.cfg` also checks, in every analysed stream:

- `LeadsToReferent`: from any name, on any word of it, definition leads to what
  the name means there according to the reference definitions, and references
  lists exactly the names that mean the same;
- `OutlineComplete`: every symbol of a file but reusable labels is shown once,
  within the range of what it is under, and under the label in whose scope it
  is;
- `FoldsAreScopes`: label folds do not overlap, and a line is folded with the
  label in whose scope it is (`LabelFoldsAreScopes`); the folds of bookmarks never
  cross each other and none runs over a `bmk` (`SectionsNest`).

The layouts are all ways to lay up to three statements on lines, two to a line
after a label, indented or not, with any stretch of them in an included file,
and some for four; and six bookmarks of any levels, perhaps with another
statement among them. `OutlineComplete` leaves out duplicate labels (the last
one takes all) and the last line of a scope: `DocumentSymbols.cpp:52` ends a
label's range at column 0 of that line, so that a local there that is indented
is shown at the top level, although `README.md:39` promises locals "nested under
their scope". `LeadsToReferent` speaks of the names that mean something: one
that does not falls back to the word under the cursor and may lead to a constant
of that name in another scope. Not modelled: folds of doc comments (which join
blocks across blank lines and `#` lines, since the parser makes no statement of
those), document links.

### Path and Includes

`Path` is `fs/Path.cpp` over sequences of characters; a run of characters that
the code does not tell apart is one element, so `"."` is itself and `"x"` a
name. `Normalize` is the loop over segments, `Step` one turn of it. A URI is its
authority and its path, each character plain or encoded. `Includes` puts it to
use: a `document` with an include `raw` in it, the virtual folders `config`, and
the files of `SourceProvider`.

`Files.cfg` takes every include path of up to four characters out of both
slashes, `.`, a drive letter, `:`, `@` and the letter of a virtual folder, and
every walk of up to five pieces of `/`, a name, `.` and `..`; from documents two
folders deep, on a drive and on a server. The theorems say the same of every
path. Checks

- `LandsWhereItWalks`: the path is the root and the names that no later `..`
  takes back. The reference definition balances names and `..` over the whole
  path, without a loop; it says at the same time that one place has one
  spelling. Both this and the next speak of absolute paths: a virtual folder
  whose setting is relative leads to a relative path, which names no place;
- `UriRoundTrip`: the URI that the server sends for a resolved path leads back
  to it;
- `InnermostProject`: with project files and main files placed in any of the
  folders above a document, the drive's root among them, `findProjectMain` gives
  the main file of the innermost folder that has a project file, if it is within
  the depth limit, here 2, and has one.

Where the properties stop: `join("/", name)` makes the UNC path `//name`
(`InRoot`), and so does the search for a project in a POSIX root, which the
model answers by that path's own file; `..` takes away the server of
`//server/../x`, and `@u/../x` leaves its folder, as `LandsWhereItWalks` says
too; `normalize` is not idempotent on a relative `./C:/a`; the URI of a UNC path
whose host is `localhost` or holds a `%`, of `//`, and of a POSIX `/c:/x` leads
elsewhere.

### SourceProvider and FileTexts

`SourceProvider` is `fs/SourceProvider.cpp`: the overlay of open buffers over
the disk with its cache. A read of the disk is two steps, `Stat` and `Load`,
since other programs write in between; `ReadStatus` is a read that the status
alone answers. `Tick`, `Write` and `Delete` are those other programs. `held` is
a ghost: the texts that a file has had since its timestamp last changed.

`FileTexts` is what the server relies on, and `ReadsHeldTexts` is the
refinement: reads go to the buffer, to nothing, or to one text of `held`. The
cache does not do better: a file rewritten within one tick of the clock to a
text of the same size is served from it. `Files.cfg` checks it with one file
under two spellings, three texts of two sizes and three ticks: enough for a
stale entry, a write between `Stat` and `Load`, a removal and a buffer in any
order; the theorem covers the rest. Assumed: the file system's timestamps do not
go back, there are no links, and `key` is `normalize` (as it is then; on Windows
case is folded too).

### Lexer, Tokens, ExprParser, Parser and FrontEnd

`Lexer` is `lang/Lexer.cpp`, `ExprParser` and `Parser` are theirs; `Tokens` and
`FrontEnd` run them one after the other, as `ParsedFile::parse` does, and state
the properties. `Tokens` is the first half, which can be proved about; the
parser is recursive. A character is a string: a run of letters that belongs
together, such as `def`, is one, and one beyond ASCII is its bytes, each an
element, since the lexer reads bytes: outside strings and comments each is an
error of its own, and the length of a character literal counts them. A token is
its type and its place. A tree is made of positions in the token list. Loops
that move a cursor are written as where they stop (`Past`, `EndOfText`,
`SkipToNewline`), and the two main loops as folds with one turn each (`ReadOn`,
`ParseTurn`). Left out: the values of literals, the wording of errors (what kind
they are is kept), spans of statements.

`FrontEnd.cfg` takes some 87,000 texts: all of up to three characters out of 18
that the lexer tells apart; strings, escapes and character literals of up to
five; all lines of three words out of 18; all pairs of lines of two words out of
14; instructions with five pieces; expressions of five pieces out of names, `*`,
`**`, `-` and parentheses, and of three infix operators out of all 20 with a
prefix operator and a cast among them. Words are enough to start, end and break
every statement; pairs of lines show recovery. Checks

- `TokensTile`: tokens follow each other through the text, only blanks stand
  between, and each line feed is a token of its own;
- `LinesApart`: the tokens, statements and errors of a text are those of its
  lines, each read alone;
- `EveryTokenCounts`: each token has its place in one statement, once, or an
  error was reported at or before it on its line;
- `ReadsAsPrecedence`: the tree of a well-formed operand is the one that a
  reference definition gives, which looks for the loosest operator of the whole;
- `SlotsAgree` (in `LineContext`, below).

What they do not ask: where an operand is missing, the parser makes up a 0
without a word, so that `op a, # c` (the comment counts as an operand), `op
a,,b` and `op ## doc` have one operand too many. `Parser.h:32` says that
skipNewlines skips doc comments; it does not, they are statements.

### LineContext

Completion and signature help do not use the parser: they read the mnemonic and
count the commas on the line being typed, twice over (`Completion.cpp:32`,
`SignatureHelp.cpp:39`). `SlotsAgree` says that both agree with what lexer and
parser make of the line, wherever the cursor stands behind the mnemonic: the
same mnemonic, and as many commas as there are comma tokens. It leaves out lines
with literals or comments before the cursor, whose commas both count, with
characters that the lexer rejects, and with a second label, which neither skips.
For a syscall, `SignatureHelp.cpp:96` reads the parameters of `sig` after it was
moved from, so that the active parameter is always the first.

### Findings

Four runs violate what the repository says of itself. `PROJECT.json` quotes the
lines.

| Run | What happens |
|---|---|
| `Alias.cfg` | Two URIs that name one file (two spellings) share `m_open[key]`; closing one makes `lookup` of the other throw. |
| `OpenMissing.cfg` | A library includes a file the disk does not have; the editor opens a buffer at that path; the library keeps its error. If the buffer is then saved and closed the error stays: the creation was dropped because the file was open, and closing reaches only units that contain it. |
| `TextSupplementary.cfg` | A character outside the basic plane counts as one UTF-16 unit: the test for it looks at the bits of the lead byte only. |
| `Uncaught.cfg` | A document with an accented letter outside strings and comments is opened. The lexer's message holds one byte of it, `dump` throws while the diagnostics are published, and the process ends; what was queued is lost and no later message answered. A hover over a doc comment of a file that is not UTF-8 ends it in `writeResponse`, the request unanswered, and a batch (a JSON array) in `msg.value`. |

One more was met in `Workspace` and has no run of its own: main.asm first exists
as an open buffer; documents next to it, cached as projectless
(`Workspace.cpp:112`), are not moved to its unit, since the cache is cleared by
disk events only. `blind` records those files, so `FreshUnlessBlind` excludes
them. Another is in `Features`: the fold of a bookmark section ends at the first
sub-bookmark in it, and that of a sub-bookmark runs over the ones that follow
(`Folding.cpp:61`), although the comment at line 46 has a section go on "to next
bmk/sbmk at same or higher level"; the model does as the code does. Smaller ones
stand with the module they were met in.

## Fairness

`Workspace`: `WF(FileChanged)` (the client delivers its events) and
`WF(TakePending)` (the loop flushes after each message); nothing is assumed of
the user or the disk. `Server`: `WF(Next)`, the loop runs while there is input,
and a script ends. The other specifications have safety properties only: their
loops run over data that does not change, and nothing makes a client or another
program act. That lexer and parser come to an end shows in their definitions,
folds over the text and the tokens.

## Proofs

Everything below is proved for all values of the constants that satisfy the
named assumptions, and those are evaluated by TLC on the runs. The theorems have
the form `Spec => []P` with the `P` of a run, so that a run shows on an instance
what the proof says of all. Each rests on an inductive invariant, which TLC finds
to hold on the same kinds of instances, somewhat smaller.

| Module | Theorem | Property |
|---|---|---|
| `UnitBuilder_proofs` | `TypeCorrect`, `IncludedOnce`, `OkEdgesFormATree` | `TypeOK`, `IncludeOnce`, `OkTree` |
| | `UnitIsWhatTheRootReaches` | `UnitIsReachable` |
| | `OrderIsTextualInsertion` | `SplicedInOrder` |
| | `StatusesTellTheTruth` | `RepeatedIncludes` |
| | `SummariesCountEachError` | `ErrorsVisible` |
| | `UnitsAreAbstract` | `UnitIsAbstract` |
| `Workspace_proofs` | `LookupsServe`, `OneSpellingNeverThrows` | `LookupServes`, `LookupNeverThrows` |
| | `UnitsAreCurrent`, `NoUnitStays` | `UnitsHoldSources`, `NoStrayUnits` |
| | `IncrementalIsFresh` | `FreshUnlessBlind` |
| | `ClientKeepsUp` | `ClientShowsUnits` |
| `Server_proofs` | `TypeCorrect`, `OutputInOrder` | `TypeOK`, `InOrder` |
| | `EveryRequestAnswered`, `EverythingPublished` | `AnsweredOnce`, `Published` |
| | `DiesOnlyOfThose` | `DiesOf` |
| `Includes_proofs` | `LandsThere`, `UriLeadsBack` | `LandsWhereItWalks`, `UriRoundTrip` |
| | `InnermostDecides` | `InnermostProject` |
| | `NormalIsNormal` | (`Normalize` twice is once) |
| | `ReadsAreHeld` | `ReadsHeldTexts` (refinement) |
| `Features_proofs` | `ConstantsAreInForce`, `ReferencesResolve` | `ConstantsInForce`, `ResolvedInScope` |
| | `JumpsGoToNearest`, `EntriesWithoutExit`, `ValuesAreInForce` | `NearestReusable`, `EntryPointsExit`, `ValuesInForce` |
| | `NamesLeadToReferents` | `LeadsToReferent` |
| | `OutlineFollowsScopes`, `FoldsFollowScopes` | `OutlineComplete`, `FoldsAreScopes` |
| `TextDocument_proofs` | `RoundTripHolds`, `BasicPositionsHold` | `RoundTrip`, `BasicPositions` |
| | `LinesHold` | `LineIsItsCharacters` |
| `Tokens_proofs` | `TokensTileTheText` | `TokensTile` |
| | `LexerTypes` | (types of tokens and errors) |

`NaturalsLemmas` holds facts about numbers that several of them need: a
non-empty set of naturals has a least element, a bounded one a largest. They
stand in for induction: what is said of all numbers, or all depths of a tree, is
proved of a least counterexample.

### UnitBuilder

From `FileAssumption`, `ProgramsAssumption` and `MaxFilesAssumption`, in layers.

- `IInv` is `TypeOK`, `IncludeOnce` and `OkTree`. `IncludeOnce` alone is not
  inductive: that the new id is not in use needs the type of `seen`; `OkTree`
  needs that the target of an `Ok` include is a new id, which is `Len(files) +
  1` because every earlier target is an id of `files`. Most actions add no file
  and no `Ok` include; `SameFilesKeep` treats those at once.
- `RInv` adds for `UnitIsReachable` that every file is reachable and that every
  include that the walk has passed (`Passed`) leads to a file of the unit, or
  was refused. At the end all are passed, so the unit is closed.
- `WInv` says that the walk is a preorder of the include tree. `Chain`: ids grow
  up the stack, and the files with larger ids are exactly those below an
  activation. `NoCross`: what is below two includes is nested or apart.
  `OrderOK`: `order` holds exactly the passed statements, those of one file in
  their order. `RecordsOK`: a cycle leads to a file that the include is below, a
  repeat to one that is over and lies before. `Blocks`: what is below an `Ok`
  include is the block after it, and reaches to the end of `order` while it is
  open. `SplicedInOrder` says nothing of includes that are open, hence the
  conditions on the stack.
- `EInv` says that a statement has one record, that diagnostics are finitely
  many and that the totals of the summaries count the errors below an include:
  the sum over its children is the size of a union of disjoint sets, by
  induction on the largest id.
- `TInv` says that a record tells the truth of its statement (`Told`): an
  unresolved one has no path, one not found names no file of the sources, or the
  unit is full, and any other names a file of the unit; and that every include
  passed has its record (`Filed`). With `RInv` that gives `UnitIsAbstract`,
  which joins this module to Workspace: `AbstractUnit` says what a unit is, and
  Workspace takes its units from there.

### Workspace

From its five assumptions and two hypotheses. `OneSpelling`, no two URIs name one
file, is what the finding `alias` shows to be needed: with two spellings `lookup`
throws. `Shallow`, needed for `FreshUnlessBlind` only, says that no directory is
deeper than `MAX_PROJECT_DEPTH`: a climb that is cut short caches "no project"
for the directories it passed, and a fresh one that starts at those would get
further. Both hold of the workspaces of `Project.cfg` and `Virtual.cfg`.

What one `reconcile` leaves behind is computed first (`Outcome`, `Announced`)
and shown not to depend on the order in which it visits `m_open`. Then `IInv`:
the server has open what the editor has, with the same texts (`EditorOK`); the
project cache is right while no project file came or went unseen (`CacheRight`);
each document's owner is the one that the cache leads to, a unit that exists and
holds it (`OwnersOK`), every unit is an owner or a main (`UnitsUsed`) and holds
its root (`RootsOK`); a unit has the current texts of its files
(`UnitsHoldSources`), but for closed ones whose event is on its way; and it was
computed from *some* sources (`UnitsBuilt`) in which a file was missing only if
it still is, or its creation is on the way, or was missed. That last part is
what makes `FreshUnlessBlind` inductive: an invalidation finds a unit through
its members, and a unit that is kept is the one that would be built now, since
the least closed set depends only on the texts of its members and on which of
the files they name exist. `ClientInv` says what the client will show once it
has taken the queue, which several reconciles may have filled (`WillShow`).

### Server

From `ScriptsAssumption`, with scripts of any length. `InOrder` needs to know
that nothing was written yet for the message in hand (`NotYetWritten`), that the
queue is empty between messages and holds only that message's diagnostics
(`PendingIsMine`), and that a message in hand could be parsed (`Working`). For
`AnsweredOnce`, `Published` and `DiesOf` the invariant is an account of the
output: `FlagsOK`, that `m_initialized` and `m_shutdown` are what the messages
handled so far make them; and `Accounts`, that the messages handled have their
answers and diagnostics, each once, and none of them is one to die of; that what
the message in hand is to publish waits in the queue (`InHand`); and that the
message the process died of is one it cannot survive and has what was written
before (`Fatal`). The theorems thus say what holds up to a crash and at it; that
a request is answered at all, or the loop left, whatever the message, is false
of the code, and the runs under Findings show it.

### SourceProvider

From `TextsAssumption` and `PathsAssumption`. Every step maps to a step of
FileTexts or to a stutter; only the answer of a read needs more, `IInv`: a
cached text is in `held` if its timestamp is the file's (`HeldTexts`). For
`Load` to keep that, timestamps must not run ahead of the clock, and a status
seen not ahead of the file's (`Past`): if the file was written since the `Stat`,
either the clock has moved and the entry does not match, or it has not, and
`held` has grown.

### Path and Includes

From `LowerCaseAssumption` (letters are no separators and lower case stays lower
case), `CasesAssumption` (a document's path is absolute and normal, as its key
is; nothing is asked of what an include or a setting says) and `DepthAssumption`,
for paths of any length over any characters, any number of folders and any disk.
No step changes what is looked at (`CasesStay`), so the invariants come down to
facts about `Normalize`, and those to its loop. `FoldLeft` of the community
modules chooses a function on sets of positions; `SetFoldExists` and
`SetFoldRuns` show that there is one and that it is the loop from left to right,
and `SegmentsGrow`, `SlashesGrow` and `PartsGrow` say what one turn of each loop
does. `Growing` and `Splitting` then carry a fact from a text to the text with a
character, or a segment, more.

- `NormalForm`: an absolute path is normalised to its root (a slash, two, or a
  drive in lower case) and clean names, `At(root, names)`; `AtIsNormal`: such a
  path is normal already, which gives `NormalIsNormal`.
- `PathRoundTrip`, by root: the URI of `At(root, names)` decodes to that text, up
  to the slash in front of a drive or the authority of a server, and normalising
  it changes nothing. With `TargetFacts` (what an include leads to is
  `Normalize(Walked)`) that is `UriLeadsBack`.
- `DirnameIs`: the directory of such a path has the same root and one name less,
  and that of a root is the root. So the climb passes the folders one by one and
  stops at the root (`OutwardsFacts`, `AboveIs`), and the first with a project
  file is the one with the most names (`NearestIs`).
- `ReadsNorm` compares the loop with the reference definition, segment by
  segment. The invariant is `Listed`: the names that the loop holds are, in
  order, those kept by what was read, and the *i*-th from the end has exactly *i*
  - 1 more names than `..` behind it. That count is what makes it inductive: a
  `..` more takes back the names whose surplus is nothing, and there is one, the
  last (`ListedLess`); a name more takes back none (`ListedMore`).

### Semantics and Features

From `UnitsAssumption`, with streams of any length. The invariant is a
conjunction of what the two passes have done up to `m_seq`: `Place` (the current
scope is the one that the stream says), `DefsOK` (the definitions are those of
the statements walked, once each, and `m_defIndex` finds the last of a name),
`Live` (the live constants), `RefsOK` (each name walked has the reference it
should), `EntriesOK` (which entry points have met an exit, and which one is
open). `ValuesInForce` is inductive with them. The value of a constant is defined
by recursion through the stream; that it exists and is what the code records is
proved of a least statement at which it were not. `NamesOK` adds for
`LeadsToReferent` that each name walked has a reference, of its own meaning, and
each reference such a name.

`OutlineComplete` and `FoldsAreScopes` need no more than `Place` and `DefsOK`,
and `LayoutsAssumption`: where the statements of a file stand grows with their
place in the stream, which `OrderIsTextualInsertion` says of every unit that
`UnitBuilder` builds. So the definitions of a file are in the order of its
lines, and the next label of the file is the next place at which its scopes can
change. Of two bookmarks the section of the first ends above the second, unless
both are sub-bookmarks with no `bmk` between them: then the same bookmark, or the
end of the file, ends both (`SectionsOfTwo`).

### TextDocument

From `TextsAssumption` and `ColumnAssumption`, for texts of any length and any
columns. The invariant is only that the index is that of the text (`TextOK`);
the rest is arithmetic. Bytes are reached from places between characters:
`OffsetGrows` and `PlaceReads` say what a loop over bytes finds at the offset of
a place, and that a newline byte is a newline character. Every recursive
function over bytes is shown to exist, by a run of the loop that it stands for
(`LoopRuns`, `WalkExists`), and then to step from place to place: the line index
holds the start of each line (`LineStarts`), `utf16Len` counts characters
(`UnitsBetween`), `positionToOffset` stops at the column or the end of the line
(`WalkStops`). The places of a line are an interval (`LinesSpan`). All that is
about lines that `\n` ends (`Breaks`, `LfStart`), as the code has them; where no
`\r` stands alone those are the protocol's (`LinesAgree`), and the places of
such a line that the protocol has a position for are all but one (`DenotedOf`).

### Tokens

From `LettersAssumption`, no letter is a line feed, and `TextsAssumption`, for
texts of any length. The theorems are of `Lexing`, the lexer's half of
`FrontEnd`, which the parser's step leaves alone. Every reader gives a token that
starts where it was called, ends in the text, and takes a line feed with it only
if it is that line feed (`Good`, one lemma for each reader, `TokenGood` for all).
`LexRun` turns the fold over the characters into the run of a loop, and `Loop` is
its invariant: the tokens so far follow each other up to `pos`, and nothing but
blanks is left out of what the loop has passed.

### Only model-checked

- Liveness: `Converges`, `Returns`. That a unit's construction ends is not
  asked: each step passes a statement or leaves a file, and `MAX_FILES` bounds
  the files.
- ExprParser, Parser, LineContext: their properties compare recursive
  definitions over trees and token lists; a proof is an induction over data.
- That the labels undefined in a unit are those of no file in it: AbstractUnit
  has them reported, UnitBuilder has only that there is something to report, and
  Semantics has the names; no theorem joins the three.

## Not modelled

- Hover, the items of completion, the texts of signatures, `kb`: wording and
  lookups over static tables, without state or choice.
- `protocol`: conversion field by field; `transport`: the framing of messages.
- Arity, operand kinds and types in `SemanticAnalyzer`: lookups in `kb`'s
  tables. Constant arithmetic (`SemanticAnalyzer.cpp:395`): 64-bit integers and
  doubles, beyond TLC's integers; `Semantics` keeps whether there is a value and
  whether it is a float.
- Files that are not valid UTF-8 in `TextDocument`.
- The parse cache of `Workspace`: its key is the whole text.
- `tools/lint` and `main`: front ends that build one unit and print it.

## Plan

1. Done: all modules above; the proofs listed.
2. Operand kinds and types of `SemanticAnalyzer`, with the tables of `kb` as
   constants.
