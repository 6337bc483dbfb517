---------------------------- MODULE SourceProvider ----------------------------
(***************************************************************************)
(* Reading files (fs/SourceProvider.cpp): the disk with its cache by       *)
(* modification time and size, the open buffers layered over it, and the   *)
(* climb to a project.  A read of the disk is not atomic: it looks at the  *)
(* file's status, then opens it, and other programs may write in between.  *)
(***************************************************************************)
EXTENDS Path, FiniteSets

CONSTANTS Files,     \* the files there may be: normalised paths
          Written,   \* those that other programs write
          Paths,     \* the spellings in which files are asked for
          Texts, NoText,
          Size,      \* the size of each text
          MaxClock,  \* bound: ticks of the file system's clock
          MaxDepth,  \* findProjectMain's maxDepth
          ProjectFile, MainFile  \* the names project.mnemonimov and main.asm

ASSUME TextsAssumption == NoText \notin Texts /\ Size \in [Texts -> Nat]
ASSUME DepthAssumption == MaxDepth \in Nat
ASSUME PathsAssumption == Written \subseteq Files /\ \A p \in Paths : Normalize(p) \in Files

VARIABLES disk,     \* per file: its text, or NoText, and its modification time
          clock,    \* the file system's
          m_cache,  \* per key: what was last read, and the status seen before
          m_buffers,
          reading,  \* the read between its status and its open, or Idle
          answer,   \* the last read
          held      \* ghost: the texts each file has had under its timestamp

vars == <<disk, clock, m_cache, m_buffers, reading, answer, held>>

Entry(text, mtime, size) == [text |-> text, mtime |-> mtime, size |-> size]
NotCached == Entry(NoText, 0, 0)
Idle == [busy |-> FALSE, file |-> <<>>, mtime |-> 0, size |-> 0]

\* key.  weakly_canonical resolves "." and ".." on the disk; there are no links.
Key(path) == Normalize(path)

InitWith(texts) ==
    /\ disk = [f \in Files |-> [text |-> texts[f], mtime |-> 0]]
    /\ clock = 0
    /\ m_cache = [f \in Files |-> NotCached]
    /\ m_buffers = [f \in Files |-> NoText]
    /\ reading = Idle
    /\ answer = [file |-> CHOOSE f \in Files : TRUE, text |-> NoText]
    /\ held = [f \in Files |-> {texts[f]} \ {NoText}]

Init == \E texts \in [Files -> Texts \cup {NoText}] : InitWith(texts)

-----------------------------------------------------------------------------

\* The world outside.
Tick ==
    /\ clock < MaxClock
    /\ clock' = clock + 1
    /\ UNCHANGED <<disk, m_cache, m_buffers, reading, answer, held>>

Write(f, t) ==
    /\ disk' = [disk EXCEPT ![f] = [text |-> t, mtime |-> clock]]
    /\ held' = [held EXCEPT ![f] = {t} \cup (IF disk[f].mtime = clock THEN @ ELSE {})]
    /\ UNCHANGED <<clock, m_cache, m_buffers, reading, answer>>

Delete(f) ==
    /\ disk[f].text # NoText
    /\ disk' = [disk EXCEPT ![f].text = NoText]
    /\ UNCHANGED <<clock, m_cache, m_buffers, reading, answer, held>>

\* setBuffer and clearBuffer
SetBuffer(path, t) ==
    /\ ~reading.busy
    /\ m_buffers' = [m_buffers EXCEPT ![Key(path)] = t]
    /\ UNCHANGED <<disk, clock, m_cache, reading, answer, held>>

-----------------------------------------------------------------------------

\* OverlaySourceProvider::read, and DiskSourceProvider::read up to its status.
ReadBuffer(path) ==
    /\ ~reading.busy
    /\ m_buffers[Key(path)] # NoText
    /\ answer' = [file |-> Key(path), text |-> m_buffers[Key(path)]]
    /\ UNCHANGED <<disk, clock, m_cache, m_buffers, reading, held>>

SizeOf(f) == IF disk[f].text = NoText THEN 0 ELSE Size[disk[f].text]
SizeHit(f) == m_cache[f] # NotCached /\ m_cache[f].size = SizeOf(f)
Hit(f) ==
    /\ m_cache[f] # NotCached
    /\ m_cache[f].mtime = disk[f].mtime
    /\ m_cache[f].size = SizeOf(f)

\* Nothing there, or the status is that of the last read: answered at once.
ReadStatus(path) ==
    LET f == Key(path) IN
    /\ ~reading.busy
    /\ m_buffers[f] = NoText
    /\ disk[f].text = NoText \/ Hit(f)
    /\ answer' = [file |-> f, text |-> IF disk[f].text = NoText THEN NoText ELSE m_cache[f].text]
    /\ UNCHANGED <<disk, clock, m_cache, m_buffers, reading, held>>

Stat(path) ==
    LET f == Key(path) IN
    /\ ~reading.busy
    /\ m_buffers[f] = NoText
    /\ disk[f].text # NoText /\ ~Hit(f)
    /\ reading' = [busy |-> TRUE, file |-> f, mtime |-> disk[f].mtime, size |-> SizeOf(f)]
    /\ UNCHANGED <<disk, clock, m_cache, m_buffers, answer, held>>

\* The file is opened, if it is still there, and what it holds by now is kept
\* under the status seen before.
Load ==
    LET f == reading.file IN
    /\ reading.busy
    /\ reading' = Idle
    /\ answer' = [file |-> f, text |-> disk[f].text]
    /\ m_cache' = IF disk[f].text = NoText THEN m_cache
                  ELSE [m_cache EXCEPT ![f] = Entry(disk[f].text, reading.mtime, reading.size)]
    /\ UNCHANGED <<disk, clock, m_buffers, held>>

Next ==
    \/ Tick
    \/ \E f \in Written : Delete(f) \/ \E t \in Texts : Write(f, t)
    \/ \E path \in Paths :
          \/ \E t \in Texts \cup {NoText} : SetBuffer(path, t)
          \/ ReadBuffer(path) \/ ReadStatus(path) \/ Stat(path)
    \/ Load

Spec == Init /\ [][Next]_vars

-----------------------------------------------------------------------------

\* exists, of the overlay and of the disk below it.
Exists(path) ==
    LET f == Key(path) IN f \in Files /\ (m_buffers[f] # NoText \/ disk[f].text # NoText)

\* findProjectMain.  The climb passes at most MaxDepth folders, from the file's
\* own, each once; the first with a project file decides.  FindProjectAbove
\* climbs on where the project has no main file.
Above(path) ==
    LET dir[d \in Nat] == Dirname(IF d = 0 THEN path ELSE dir[d - 1])
    IN [d \in 0 .. MaxDepth - 1 |-> dir[d]]
Passed(dir) ==
    {d \in DOMAIN dir : dir[d] # Nowhere /\ \A e \in 1 .. d : dir[e] # dir[e - 1]}
Nearest(dir, ends) ==
    IF ends = {} THEN Nowhere ELSE dir[CHOOSE d \in ends : \A e \in ends : d <= e]
MainIn(dir) == IF dir = Nowhere THEN Nowhere ELSE dir \o <<"/", MainFile>>
HasProject(dir) == Exists(dir \o <<"/", ProjectFile>>)

FindProjectAbove(path) ==
    LET At(dir) == Nearest(dir, {d \in Passed(dir) : HasProject(dir[d]) /\ Exists(MainIn(dir[d]))})
    IN MainIn(At(Above(path)))
FindProjectMain(path) ==
    LET At(dir) == Nearest(dir, {d \in Passed(dir) : HasProject(dir[d])})
        IfThere(main) == IF main # Nowhere /\ Exists(main) THEN main ELSE Nowhere
    IN IfThere(MainIn(At(Above(path))))

-----------------------------------------------------------------------------

FileTextsOfDisk == INSTANCE FileTexts WITH
    current <- [f \in Files |-> disk[f].text], buffer <- m_buffers

\* Reading through the cache, whatever other programs write before, between and
\* after a read's two steps, gives what an uncached file would give at one
\* moment: the buffer, nothing, or a text that the file has had under the
\* timestamp it bears; every spelling of a path reads the same file.
ReadsHeldTexts == FileTextsOfDisk!Spec

=============================================================================
