----------------------------- MODULE Connection -----------------------------
(***************************************************************************)
(* Handle ownership in sqlite3pp (sqlite3pp.cpp, the current version that  *)
(* is the first part of src/unnamed/part_000).                             *)
(*                                                                         *)
(* A client program creates `database` wrapper objects, which own a native *)
(* sqlite3* connection handle in their member db_, and `statement`         *)
(* wrapper objects (or the derived `selecter`), which own a native         *)
(* sqlite3_stmt* in their member stmt_ and hold a reference db_ to the     *)
(* database object they were built on.  The native engine is modelled only *)
(* as far as the wrapper depends on it: a pool of connection handles that  *)
(* sqlite3_open_v2 hands out, sqlite3_close refusing (SQLITE_BUSY) while   *)
(* the connection still has unfinalized statements, and the run state of   *)
(* each native statement as sqlite3_step / sqlite3_reset see it.           *)
(*                                                                         *)
(* Every operation of the client is one action and models the whole       *)
(* wrapper method, including the methods it calls (connect() calls         *)
(* disconnect(), prepare() calls finish(), exec() calls reset()).  The     *)
(* build is a release build: assert() is a no-op.                          *)
(***************************************************************************)


CONSTANTS
    Databases,   \* database wrapper objects the client may create
    Statements,  \* statement wrapper objects the client may create
    Selecters,   \* those of them whose dynamic type is selecter
    Handles,     \* native connection handles sqlite3_open_v2 can return
    NULL,        \* the null pointer
    Garbage      \* an indeterminate pointer value (an uninitialised member)

ASSUME ConstantsAssumption ==
    /\ Selecters \subseteq Statements
    /\ NULL \notin Handles
    /\ Garbage \notin Handles \cup {NULL}
    /\ Databases \cap Statements = {}

VARIABLES
    dbLife,   \* lifetime of each database object: "unborn", "alive", "dead"
    db_,      \* database::db_, the connection handle a database object holds
    hstate,   \* engine: each handle is "free" (never opened), "open", "closed"
    stLife,   \* lifetime of each statement object
    stDb,     \* statement::db_, the database object a statement refers to
    stmt_,    \* statement::stmt_, as the connection its native statement is on
    vm,       \* engine: run state of the native statement of each wrapper
    ub,       \* the code paths that have read an indeterminate value
    rc        \* result code of the last wrapper call

dbVars == <<dbLife, db_, hstate>>
stVars == <<stLife, stDb, stmt_, vm>>
vars == <<dbLife, db_, hstate, stLife, stDb, stmt_, vm, ub, rc>>

Life == {"unborn", "alive", "dead"}
VmStates == {"ready", "row", "done", "error"}
Codes == {"void", "ok", "error", "busy", "misuse", "nomem",
          "row", "done", "true", "false", "range", "throw", "value",
          "default", "undefined"}
UbSites == {"ctor_uninit_db", "clear_bindings_null"}

-----------------------------------------------------------------------------
(* The native engine, as far as the wrapper observes it.                   *)

\* sqlite3_close returns SQLITE_BUSY while a statement of h is unfinalized.
CanClose(h) == \A s \in Statements : stmt_[s] # h

\* The handle table after database::disconnect() tried to close handle c.
AfterClose(c) ==
    IF c \in Handles /\ CanClose(c) THEN [hstate EXCEPT ![c] = "closed"]
                                    ELSE hstate

\* Outcomes of sqlite3_prepare_v2 on connection c: a compiled statement,
\* no statement (the text held only a comment or an empty statement), or a
\* compile error; a NULL connection is reported as SQLITE_MISUSE.
PrepareResults(c) ==
    IF c = NULL THEN {[stmt |-> NULL, code |-> "misuse"]}
    ELSE {[stmt |-> c, code |-> "ok"], [stmt |-> NULL, code |-> "ok"],
          [stmt |-> NULL, code |-> "error"]}

\* sqlite3_step on a statement: a row, the end, or an error (SQLITE_BUSY,
\* a constraint, ...).  A statement that is done or failed is reset
\* automatically by the next sqlite3_step.
StepOutcomes == {"row", "done", "error"}

\* sqlite3_reset returns the error of the last step if that step failed;
\* sqlite3_reset(NULL) is a harmless no-op.
ResetCode(s) == IF stmt_[s] # NULL /\ vm[s] = "error" THEN "error" ELSE "ok"

-----------------------------------------------------------------------------
(* database                                                                *)

\* sqlite3_open_v2(dbname, &db_, ...) writing into database d, the handle
\* table being hs.  A handle is returned even when the open fails; only
\* when the engine cannot allocate one is NULL written.
OpenInto(d, hs) ==
    \/ \E h \in Handles :
          /\ hs[h] = "free"
          /\ hstate' = [hs EXCEPT ![h] = "open"]
          /\ db_' = [db_ EXCEPT ![d] = h]
          /\ rc' \in {"ok", "error"}
    \/ /\ hstate' = hs
       /\ db_' = [db_ EXCEPT ![d] = NULL]
       /\ rc' = "nomem"

\* A disconnect that closes the connection but forgets to clear db_.
DisconnectKeepHandle(d) ==
    \/ /\ db_[d] = NULL
       /\ rc' = "ok"
       /\ UNCHANGED <<db_, hstate>>
    \/ /\ db_[d] \in Handles
       /\ CanClose(db_[d])
       /\ hstate' = [hstate EXCEPT ![db_[d]] = "closed"]
       /\ rc' = "ok"
       /\ UNCHANGED db_
    \/ /\ db_[d] \in Handles
       /\ ~CanClose(db_[d])
       /\ rc' = "busy"
       /\ UNCHANGED <<db_, hstate>>

\* database::disconnect(): db_ is cleared only when sqlite3_close succeeds.
DisconnectEffect(d) ==
    \/ /\ db_[d] = NULL
       /\ rc' = "ok"
       /\ UNCHANGED <<db_, hstate>>
    \/ /\ db_[d] \in Handles
       /\ CanClose(db_[d])
       /\ hstate' = [hstate EXCEPT ![db_[d]] = "closed"]
       /\ db_' = [db_ EXCEPT ![d] = NULL]
       /\ rc' = "ok"
    \/ /\ db_[d] \in Handles
       /\ ~CanClose(db_[d])
       /\ rc' = "busy"
       /\ UNCHANGED <<db_, hstate>>

\* database::database(): db_(nullptr).
DatabaseDefault(d) ==
    /\ dbLife[d] = "unborn"
    /\ dbLife' = [dbLife EXCEPT ![d] = "alive"]
    /\ db_' = [db_ EXCEPT ![d] = NULL]
    /\ rc' = "void"
    /\ UNCHANGED <<hstate, stVars, ub>>

\* database::database(dbname, flags, vfs) calls connect() without
\* initialising db_, so disconnect() reads an indeterminate pointer: it is
\* either null, or sqlite3_close is called on a wild pointer.
DatabaseNamed(d) ==
    /\ dbLife[d] = "unborn"
    /\ dbLife' = [dbLife EXCEPT ![d] = "alive"]
    /\ \E wild \in BOOLEAN :
          ub' = IF wild THEN ub \cup {"ctor_uninit_db"} ELSE ub
    /\ OpenInto(d, hstate)
    /\ UNCHANGED stVars

\* A move constructor that forgets to null the source.
DatabaseMoveKeepSource(dst, src) ==
    /\ dbLife[dst] = "unborn"
    /\ dbLife[src] = "alive"
    /\ dbLife' = [dbLife EXCEPT ![dst] = "alive"]
    /\ db_' = [db_ EXCEPT ![dst] = db_[src]]
    /\ rc' = "void"
    /\ UNCHANGED <<hstate, stVars, ub>>

\* database::database(database&& db): take the handle, null the source.
DatabaseMove(dst, src) ==
    /\ dbLife[dst] = "unborn"
    /\ dbLife[src] = "alive"
    /\ dbLife' = [dbLife EXCEPT ![dst] = "alive"]
    /\ db_' = [db_ EXCEPT ![dst] = db_[src], ![src] = NULL]
    /\ rc' = "void"
    /\ UNCHANGED <<hstate, stVars, ub>>

\* database::operator=(database&& db): db_ = db.db_; db.db_ = nullptr;
\* the handle dst held before is not closed.  dst may be src itself.
DatabaseMoveAssign(dst, src) ==
    /\ dbLife[dst] = "alive"
    /\ dbLife[src] = "alive"
    /\ db_' = [[db_ EXCEPT ![dst] = db_[src]] EXCEPT ![src] = NULL]
    /\ rc' = "void"
    /\ UNCHANGED <<dbLife, hstate, stVars, ub>>

\* database::~database() calls disconnect() and ignores its result.  The
\* client destroys a database only after every statement referring to it.
DatabaseDestroy(d) ==
    /\ dbLife[d] = "alive"
    /\ \A s \in Statements : stLife[s] = "alive" => stDb[s] # d
    /\ dbLife' = [dbLife EXCEPT ![d] = "dead"]
    /\ DisconnectEffect(d)
    /\ UNCHANGED <<stVars, ub>>

\* database::connect(): disconnect() (its result discarded), then open.
Connect(d) ==
    /\ dbLife[d] = "alive"
    /\ OpenInto(d, AfterClose(db_[d]))
    /\ UNCHANGED <<dbLife, stVars, ub>>

\* database::disconnect().
Disconnect(d) ==
    /\ dbLife[d] = "alive"
    /\ DisconnectEffect(d)
    /\ UNCHANGED <<dbLife, stVars, ub>>

-----------------------------------------------------------------------------
(* statement, selecter                                                     *)

\* statement::statement(db, stmt): an empty text leaves stmt_ null;
\* otherwise prepare(), and a failure throws out of the constructor, so the
\* object never comes to life.
StatementCreate(s, d) ==
    /\ stLife[s] = "unborn"
    /\ dbLife[d] = "alive"
    /\ stDb' = [stDb EXCEPT ![s] = d]
    /\ \/ /\ stLife' = [stLife EXCEPT ![s] = "alive"]
          /\ rc' = "void"
          /\ UNCHANGED <<stmt_, vm>>
       \/ \E p \in PrepareResults(db_[d]) :
             /\ stmt_' = [stmt_ EXCEPT ![s] = p.stmt]
             /\ stLife' = [stLife EXCEPT ![s] =
                              IF p.code = "ok" THEN "alive" ELSE "dead"]
             /\ rc' = p.code
             /\ UNCHANGED vm
    /\ UNCHANGED <<dbVars, ub>>

\* statement::prepare(): finish() (sqlite3_reset then sqlite3_finalize,
\* which therefore succeeds) then sqlite3_prepare_v2 on db_.db_.
Prepare(s) ==
    /\ stLife[s] = "alive"
    /\ dbLife[stDb[s]] = "alive"
    /\ \E p \in PrepareResults(db_[stDb[s]]) :
          /\ stmt_' = [stmt_ EXCEPT ![s] = p.stmt]
          /\ rc' = p.code
    /\ vm' = [vm EXCEPT ![s] = "ready"]
    /\ UNCHANGED <<dbVars, stLife, stDb, ub>>

\* statement::finish().
Finish(s) ==
    /\ stLife[s] = "alive"
    /\ stmt_' = [stmt_ EXCEPT ![s] = NULL]
    /\ vm' = [vm EXCEPT ![s] = "ready"]
    /\ rc' = "ok"
    /\ UNCHANGED <<dbVars, stLife, stDb, ub>>

\* statement::step(): sqlite3_step(NULL) is SQLITE_MISUSE.
Step(s) ==
    /\ stLife[s] = "alive"
    /\ \/ /\ stmt_[s] = NULL
          /\ rc' = "misuse"
          /\ UNCHANGED vm
       \/ /\ stmt_[s] \in Handles
          /\ \E o \in StepOutcomes :
                /\ vm' = [vm EXCEPT ![s] = o]
                /\ rc' = o
    /\ UNCHANGED <<dbVars, stLife, stDb, stmt_, ub>>

\* statement::exec(): reset(), returning its error before stepping, then
\* one sqlite3_step whose row or end both count as success.
StatementExec(s) ==
    /\ stLife[s] = "alive"
    /\ s \notin Selecters
    /\ \/ /\ stmt_[s] = NULL
          /\ rc' = "misuse"
          /\ UNCHANGED vm
       \/ /\ stmt_[s] \in Handles
          /\ ResetCode(s) = "error"
          /\ vm' = [vm EXCEPT ![s] = "ready"]
          /\ rc' = "error"
       \/ /\ stmt_[s] \in Handles
          /\ ResetCode(s) = "ok"
          /\ \E o \in StepOutcomes :
                /\ vm' = [vm EXCEPT ![s] = o]
                /\ rc' = IF o = "error" THEN "error" ELSE "ok"
    /\ UNCHANGED <<dbVars, stLife, stDb, stmt_, ub>>

\* selecter::exec() overrides exec(): only reset(), so that next() sees the
\* first row.
SelecterExec(s) ==
    /\ stLife[s] = "alive"
    /\ s \in Selecters
    /\ \/ /\ stmt_[s] = NULL
          /\ rc' = "misuse"
          /\ UNCHANGED vm
       \/ /\ stmt_[s] \in Handles
          /\ vm' = [vm EXCEPT ![s] = "ready"]
          /\ rc' = ResetCode(s)
    /\ UNCHANGED <<dbVars, stLife, stDb, stmt_, ub>>

\* selecter::next(): step(), an error read as the end of the rows.
SelecterNext(s) ==
    /\ stLife[s] = "alive"
    /\ s \in Selecters
    /\ \/ /\ stmt_[s] = NULL
          /\ rc' = "false"
          /\ UNCHANGED vm
       \/ /\ stmt_[s] \in Handles
          /\ \E o \in StepOutcomes :
                /\ vm' = [vm EXCEPT ![s] = o]
                /\ rc' = IF o = "row" THEN "true" ELSE "false"
    /\ UNCHANGED <<dbVars, stLife, stDb, stmt_, ub>>

\* selecter::get_row() and a read through the row view (row::get<T>(idx),
\* get<T>(name), getter() >> v, get_all, type, bytes, is_null): the view
\* reads the selecter's current native row.  A name column_index() does not
\* find yields T() (the assert is compiled out); sqlite3_column_* off a row
\* (before next(), after its false) is undefined and in practice a NULL
\* value, as it is on a null statement.
RowRead(s) ==
    /\ stLife[s] = "alive"
    /\ s \in Selecters
    /\ \E byName, known \in BOOLEAN :
          rc' = CASE byName /\ ~(known /\ stmt_[s] \in Handles) -> "default"
                  [] stmt_[s] \in Handles /\ vm[s] = "row"      -> "value"
                  [] OTHER                                     -> "undefined"
    /\ UNCHANGED <<dbVars, stVars, ub>>

\* statement::reset().
Reset(s) ==
    /\ stLife[s] = "alive"
    /\ vm' = [vm EXCEPT ![s] = "ready"]
    /\ rc' = ResetCode(s)
    /\ UNCHANGED <<dbVars, stLife, stDb, stmt_, ub>>

\* What sqlite3_bind_* returns for s: SQLITE_MISUSE on a null statement
\* and on one that has been stepped and not reset, SQLITE_RANGE for an
\* index outside the statement's parameters.
BindCode(s, inRange) ==
    CASE stmt_[s] = NULL \/ vm[s] # "ready" -> "misuse"
      [] ~inRange                          -> "range"
      [] OTHER                             -> "ok"

\* statement::bind(idx, value), every overload: sqlite_call of the
\* sqlite3_bind_* call (an empty Option binds NULL).
Bind(s) ==
    /\ stLife[s] = "alive"
    /\ \E inRange \in BOOLEAN : rc' = BindCode(s, inRange)
    /\ UNCHANGED <<dbVars, stVars, ub>>

\* statement::bind(name, value [, fcopy]) (inline templates): bind_index()
\* returns SQLITE_MISUSE when sqlite3_bind_parameter_index finds no such
\* parameter (always, on a null statement), else bind() at that index.
BindNamed(s) ==
    /\ stLife[s] = "alive"
    /\ \E known \in BOOLEAN :
          rc' = IF known /\ stmt_[s] \in Handles THEN BindCode(s, TRUE)
                ELSE "misuse"
    /\ UNCHANGED <<dbVars, stVars, ub>>

\* statement::binder(idx) << value: bind() at the stream's index; on an
\* error the assert is compiled out and database_error is thrown, else the
\* index moves on (past the last parameter the next bind is SQLITE_RANGE).
BindStream(s) ==
    /\ stLife[s] = "alive"
    /\ \E inRange \in BOOLEAN :
          rc' = IF BindCode(s, inRange) = "ok" THEN "ok" ELSE "throw"
    /\ UNCHANGED <<dbVars, stVars, ub>>

\* statement::clear_bindings(): sqlite3_clear_bindings dereferences its
\* argument without a null check.
ClearBindings(s) ==
    /\ stLife[s] = "alive"
    /\ ub' = IF stmt_[s] = NULL THEN ub \cup {"clear_bindings_null"} ELSE ub
    /\ rc' = "ok"
    /\ UNCHANGED <<dbVars, stVars>>

\* statement::~statement() (and the empty ~selecter) calls finish().
StatementDestroy(s) ==
    /\ stLife[s] = "alive"
    /\ stLife' = [stLife EXCEPT ![s] = "dead"]
    /\ stmt_' = [stmt_ EXCEPT ![s] = NULL]
    /\ vm' = [vm EXCEPT ![s] = "ready"]
    /\ rc' = "void"
    /\ UNCHANGED <<dbVars, stDb, ub>>

-----------------------------------------------------------------------------

Init ==
    /\ dbLife = [d \in Databases |-> "unborn"]
    /\ db_ = [d \in Databases |-> Garbage]
    /\ hstate = [h \in Handles |-> "free"]
    /\ stLife = [s \in Statements |-> "unborn"]
    /\ stDb = [s \in Statements |-> NULL]
    /\ stmt_ = [s \in Statements |-> NULL]
    /\ vm = [s \in Statements |-> "ready"]
    /\ ub = {}
    /\ rc = "void"

\* The operations class database declares that change its state (the
\* readers is_connected, err_msg, filename... are left out).
DatabaseOps ==
    \/ \E d \in Databases :
          \/ DatabaseDefault(d) \/ DatabaseNamed(d) \/ DatabaseDestroy(d)
          \/ Connect(d) \/ Disconnect(d)
    \/ \E dst, src \in Databases :
          DatabaseMove(dst, src) \/ DatabaseMoveAssign(dst, src)

\* The operations of class statement and of its subclass selecter.
StatementOps ==
    \/ \E s \in Statements, d \in Databases : StatementCreate(s, d)
    \/ \E s \in Statements :
          \/ Prepare(s) \/ Finish(s) \/ Step(s) \/ StatementExec(s)
          \/ SelecterExec(s) \/ SelecterNext(s) \/ RowRead(s) \/ Reset(s)
          \/ Bind(s) \/ BindNamed(s) \/ BindStream(s)
          \/ ClearBindings(s) \/ StatementDestroy(s)

Next == DatabaseOps \/ StatementOps

Spec == Init /\ [][Next]_vars

-----------------------------------------------------------------------------
(* Properties                                                              *)

TypeOK ==
    /\ dbLife \in [Databases -> Life]
    /\ db_ \in [Databases -> Handles \cup {NULL, Garbage}]
    /\ hstate \in [Handles -> {"free", "open", "closed"}]
    /\ stLife \in [Statements -> Life]
    /\ stDb \in [Statements -> Databases \cup {NULL}]
    /\ stmt_ \in [Statements -> Handles \cup {NULL}]
    /\ vm \in [Statements -> VmStates]
    /\ ub \in SUBSET UbSites
    /\ rc \in Codes

\* Handle ownership (move constructor and move assignment null the source):
\* no connection is held by two live database objects, so no connection is
\* ever closed twice.
UniqueOwnership ==
    \A d1, d2 \in Databases :
        /\ d1 # d2
        /\ dbLife[d1] = "alive" /\ dbLife[d2] = "alive"
        /\ db_[d1] \in Handles
        => db_[d1] # db_[d2]

\* No use after close (disconnect clears db_ exactly when sqlite3_close
\* succeeded, and the engine refuses to close a connection with statements):
\* every handle a live database object holds, and every connection a native
\* statement lives on, is open.
NoUseAfterClose ==
    /\ \A d \in Databases :
          dbLife[d] = "alive" /\ db_[d] \in Handles => hstate[db_[d]] = "open"
    /\ \A s \in Statements :
          stmt_[s] \in Handles => hstate[stmt_[s]] = "open"

\* The glossary's ownership rule: every open connection is owned by one
\* live database object (disconnect, the destructor, connect and move
\* assignment never let a connection go unreleased).
NoLeak ==
    \A h \in Handles :
        hstate[h] = "open" => \E d \in Databases :
                                  dbLife[d] = "alive" /\ db_[d] = h

\* database::connect() succeeds only after the connection the object held
\* before has been closed.
ConnectClosesPrevious ==
    [][\A d \in Databases :
          Connect(d) /\ db_[d] \in Handles /\ rc' = "ok"
             => hstate'[db_[d]] = "closed"]_vars

\* statement::exec() executes the statement: a call on a prepared statement
\* always steps it, whatever the previous execution returned.
ExecRunsStatement ==
    [][\A s \in Statements :
          StatementExec(s) /\ stmt_[s] \in Handles => vm'[s] \in StepOutcomes]_vars

\* The facts the ownership invariants rest on: every handle an object holds
\* was handed out by the engine, a constructed database never holds the
\* indeterminate value, and a live statement refers to a database object.
HandlesAllocated ==
    /\ \A d \in Databases : db_[d] \in Handles => hstate[db_[d]] # "free"
    /\ \A d \in Databases : dbLife[d] # "unborn" => db_[d] \in Handles \cup {NULL}
    /\ \A s \in Statements : stLife[s] = "alive" => stDb[s] \in Databases

\* The inductive invariant of handle ownership.
OwnershipInv ==
    /\ TypeOK
    /\ HandlesAllocated
    /\ UniqueOwnership
    /\ NoUseAfterClose

=============================================================================
