------------------------------ MODULE Inserter ------------------------------
(***************************************************************************)
(* sqlite3pp's inserter::insert() (sqlite3pp.cpp in src/unnamed/part_000)  *)
(* against the rowid table it inserts into.                                *)
(*                                                                         *)
(* insert() steps its statement and then asks the database for            *)
(* sqlite3_last_insert_rowid, which is a property of the connection: the   *)
(* rowid of the most recent successful INSERT by any statement on it, left *)
(* alone by a statement that inserts nothing and by DELETE.                *)
(*                                                                         *)
(* The inserter's SQL is one of three forms: INSERT that lets the engine   *)
(* choose the rowid ("auto"), INSERT with a rowid the client binds         *)
(* ("explicit"), and INSERT OR IGNORE with a bound rowid ("ignore").       *)
(* Rowids are scaled down to MinRowid..MaxRowid, MaxRowid standing for the *)
(* largest rowid (2^63 - 1), at which the engine stops counting up.        *)
(***************************************************************************)
EXTENDS Integers

CONSTANTS MinRowid, MaxRowid   \* MinRowid <= 1 <= MaxRowid

Rowids == MinRowid..MaxRowid
Forms == {"auto", "explicit", "ignore"}
NoResult == [code |-> "void", id |-> 0, ins |-> {}]

VARIABLES
    rows,       \* engine: the rowids in the table
    lastRowid,  \* engine: sqlite3_last_insert_rowid of the connection
    result      \* the last insert(): its result code, the rowid it returned
                \* (id) and the rows its step really inserted (ins)

vars == <<rows, lastRowid, result>>

-----------------------------------------------------------------------------
(* The engine                                                              *)

\* The rowids an INSERT that leaves the choice to the engine can get: one
\* past the largest in use (1 in an empty table) and, once the largest
\* possible rowid is in use, any unused one (none: SQLITE_FULL).
AutoRowids ==
    IF rows = {} THEN {1}
    ELSE LET top == CHOOSE m \in rows : \A n \in rows : n <= m
         IN  IF top < MaxRowid THEN {top + 1} ELSE Rowids \ rows

\* The rowids an INSERT of form f with bound rowid r may insert: none when
\* r is taken (a constraint error, or nothing for OR IGNORE).
NewRowids(f, r) ==
    IF f = "auto" THEN AutoRowids ELSE IF r \in rows THEN {} ELSE {r}

-----------------------------------------------------------------------------
(* inserter                                                                 *)

\* The result of insert() once the step succeeded, inserting the rows ins:
\* database::last_insert_rowid() is the rowid when it is positive, else
\* None, which insert() turns into SQLITE_MISUSE.
Returned(id, ins) ==
    IF id > 0 THEN [code |-> "ok", id |-> id, ins |-> ins]
    ELSE [code |-> "misuse", id |-> 0, ins |-> ins]

\* inserter::insert(): step(); its error is returned; then the connection's
\* last_insert_rowid, or SQLITE_MISUSE.
Insert ==
    \E f \in Forms, r \in Rowids :
       \/ \* the step fails: SQLITE_BUSY or I/O at any time, a constraint
          \* error when an explicit rowid is taken, SQLITE_FULL when no
          \* rowid is left
          /\ result' = [code |-> "error", id |-> 0, ins |-> {}]
          /\ UNCHANGED <<rows, lastRowid>>
       \/ \* the step inserts row n
          \E n \in NewRowids(f, r) :
             /\ rows' = rows \cup {n}
             /\ lastRowid' = n
             /\ result' = Returned(n, {n})
       \/ \* INSERT OR IGNORE on a taken rowid: done, nothing inserted
          /\ f = "ignore" /\ r \in rows
          /\ result' = Returned(lastRowid, {})
          /\ UNCHANGED <<rows, lastRowid>>

\* Another statement on the connection (database::execute) inserts a row.
ExecuteInsert ==
    /\ \E n \in AutoRowids :
          /\ rows' = rows \cup {n}
          /\ lastRowid' = n
    /\ UNCHANGED result

\* Another statement on the connection deletes a row; last_insert_rowid
\* keeps its value.
ExecuteDelete ==
    /\ \E n \in rows : rows' = rows \ {n}
    /\ UNCHANGED <<lastRowid, result>>

-----------------------------------------------------------------------------

Init ==
    /\ rows = {}
    /\ lastRowid = 0
    /\ result = NoResult

Next == Insert \/ ExecuteInsert \/ ExecuteDelete

Spec == Init /\ [][Next]_vars

-----------------------------------------------------------------------------
(* Properties                                                              *)

TypeOK ==
    /\ rows \subseteq Rowids
    /\ lastRowid \in Rowids \cup {0}
    /\ result.code \in {"void", "ok", "error", "misuse"}
    /\ result.id \in Rowids \cup {0}
    /\ result.ins \subseteq Rowids

\* insert() returns a rowid exactly when its step inserted a row, and then
\* the rowid of that row, never one an earlier statement inserted.
InsertReportsOwnRow ==
    /\ result.code = "ok" <=> result.ins # {}
    /\ result.code = "ok" => result.ins = {result.id}

=============================================================================
