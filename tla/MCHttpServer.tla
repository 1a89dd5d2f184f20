---------------------------- MODULE MCHttpServer ----------------------------
(* Small instances of HttpServer for TLC. *)
EXTENDS HttpServer

CONSTANTS c1, c2, u, short, long, renamed, ended, good1, good2, bad

OneConn == {c1}
TwoConns == {c1, c2}
OneUri == {u}

\* A payload of one line, and three of several lines that begin with it: plain
\* ones, one that is a key of the file, and one that is the end of a record.
TwoBodies == {short, long}
AllBodies == {short, long, renamed, ended}
Cut(bodies) == [b \in bodies |-> short]
CutAll == Cut(AllBodies)
CutTwo == Cut(TwoBodies)
NamesU == [b \in AllBodies |-> IF b = renamed THEN [pad |-> 2, uri |-> u] ELSE Null]
NamesNone == [b \in TwoBodies |-> Null]
Ended == {ended}

AllCerts == {good1, good2, bad}
Accepted == {good1, good2}
OneCert == {good1}
Both == {"http", "https"}
PlainOnly == {"http"}
=============================================================================
