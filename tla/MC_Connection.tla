--------------------------- MODULE MC_Connection ---------------------------
(***************************************************************************)
(* Model-checking instance of Connection: two database objects (enough for *)
(* a move from one into the other while both are live), two statements    *)
(* (a plain statement and a selecter) and three native handles (enough for *)
(* both databases to reconnect once).                                      *)
(***************************************************************************)
EXTENDS Connection, TLC

CONSTANTS d1, d2, s1, s2, h1, h2, h3

MCDatabases == {d1, d2}
MCStatements == {s1, s2}
MCSelecters == {s2}
MCHandles == {h1, h2, h3}

\* Database objects are interchangeable, and so are native handles.
MCSymmetry == Permutations(MCDatabases) \cup Permutations(MCHandles)

=============================================================================
