------------------------------ MODULE MCServer ------------------------------
(* Every script of up to four messages of each kind the server tells apart,  *)
(* those that the process dies of last.                                      *)
EXTENDS Server

\* A message that queues diagnostics q and ends so.
Says(m, id, q, ends) == [method |-> m, hasId |-> id, queues |-> q, ends |-> ends, utf8 |-> TRUE]
Request(m, q, ends) == Says(m, TRUE, q, ends)
Notice(m, q, ends) == Says(m, FALSE, q, ends)
GarbledHover == [Request("feature", <<>>, "returns") EXCEPT !.utf8 = FALSE]

Kinds ==
    {Request("initialize", <<>>, "throws"), Request("initialize", <<TRUE>>, "returns"),
     Request("shutdown", <<>>, "returns"), Request("feature", <<>>, "returns"),
     Request("feature", <<>>, "throws"), Request("unknown", <<>>, "returns"),
     Request("exit", <<>>, "returns"), Notice("sync", <<TRUE>>, "throws"),
     Notice("sync", <<TRUE, TRUE>>, "returns"), Notice("initialize", <<>>, "returns"),
     Notice("exit", <<>>, "returns"), Malformed}
FatalKinds ==
    {Deadly, GarbledHover, Request("feature", <<>>, "asserts"), Notice("sync", <<>>, "asserts"),
     Request("initialize", <<FALSE>>, "returns"), Notice("sync", <<TRUE, FALSE>>, "returns"),
     Notice("sync", <<FALSE, TRUE>>, "throws")}

Upto(S, n) == UNION {[1 .. m -> S] : m \in 0 .. n}
Scripts4 ==
    Upto(Kinds, 4) \cup Upto(Kinds \cup FatalKinds, 3)
      \cup {Append(s, m) : s \in Upto(Kinds, 3), m \in FatalKinds}

\* Short sessions with one message that is fatal: a document with an accent outside
\* a string, a hover over a comment that is not UTF-8, and a batch.
Start == Request("initialize", <<>>, "returns")
FatalScripts ==
    {<<Start, Notice("sync", <<FALSE, TRUE>>, "returns")>>,
     <<Start, Notice("sync", <<TRUE>>, "returns"), GarbledHover>>,
     <<Start, Deadly, Request("shutdown", <<>>, "returns"), Notice("exit", <<>>, "returns")>>}

=============================================================================
