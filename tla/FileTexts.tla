------------------------------ MODULE FileTexts ------------------------------
(****************************************************************************)
(* What the server relies on when it reads a file (fs/SourceProvider.h): an *)
(* open buffer is read as it is, a file that is not there is not read, and  *)
(* any other read gives a text that the file has had under the timestamp it *)
(* bears: the current text, unless the file was rewritten within one tick.  *)
(****************************************************************************)
EXTENDS Naturals

CONSTANTS Files,   \* what there is to read: the keys
          Texts,   \* contents of a file
          NoText   \* no such file, no such buffer

VARIABLES current,  \* per file: its text on the disk, or NoText
          held,     \* per file: its texts under its current timestamp
          buffer,   \* per file: the text of its open buffer, or NoText
          answer    \* the last read: the file and what was read

vars == <<current, held, buffer, answer>>

Init ==
    /\ current \in [Files -> Texts \cup {NoText}]
    /\ held = [f \in Files |-> {current[f]} \ {NoText}]
    /\ buffer = [f \in Files |-> NoText]
    /\ answer = [file |-> CHOOSE f \in Files : TRUE, text |-> NoText]

\* Other programs write and remove the file; time passes between some writes.
Write(f, t) ==
    /\ current' = [current EXCEPT ![f] = t]
    /\ \E before \in {{}, held[f]} : held' = [held EXCEPT ![f] = before \cup {t}]
    /\ UNCHANGED <<buffer, answer>>

Delete(f) ==
    /\ current' = [current EXCEPT ![f] = NoText]
    /\ UNCHANGED <<held, buffer, answer>>

SetBuffer(f, t) ==
    /\ buffer' = [buffer EXCEPT ![f] = t]
    /\ UNCHANGED <<current, held, answer>>

Readable(f) ==
    CASE buffer[f] # NoText -> {buffer[f]}
      [] buffer[f] = NoText /\ current[f] = NoText -> {NoText}
      [] OTHER -> held[f]
Read(f) ==
    /\ \E t \in Readable(f) : answer' = [file |-> f, text |-> t]
    /\ UNCHANGED <<current, held, buffer>>

Next ==
    \E f \in Files :
        \/ \E t \in Texts : Write(f, t)
        \/ Delete(f)
        \/ \E t \in Texts \cup {NoText} : SetBuffer(f, t)
        \/ Read(f)

Spec == Init /\ [][Next]_vars

=============================================================================
