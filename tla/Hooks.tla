------------------------------- MODULE Hooks -------------------------------
(***************************************************************************)
(* The callbacks of sqlite3pp's database (sqlite3pp.cpp in                 *)
(* src/unnamed/part_000): set_busy_handler, set_commit_handler,            *)
(* set_rollback_handler, set_update_handler, set_authorize_handler and the *)
(* static set_error_handler.                                               *)
(*                                                                         *)
(* A setter stores the std::function in a member (bh_, ch_, ...) and hands *)
(* SQLite a trampoline (busy_handler_impl, ...) with the ADDRESS of that   *)
(* member as its context pointer.  The engine later calls the trampoline,  *)
(* which calls the std::function found at that address.  The five          *)
(* per-connection setters are the same code; Kinds stands for them.       *)
(*                                                                         *)
(* The statements of a connection are abstracted to whether it has any     *)
(* unfinalized (pinned): that is what makes sqlite3_close return           *)
(* SQLITE_BUSY, and a pinned connection can still run statements and so   *)
(* call its hooks.  Connection.tla models the statements themselves.       *)
(***************************************************************************)
EXTENDS Naturals

CONSTANTS
    Databases,  \* database objects the client may create
    Handles,    \* connection handles sqlite3_open_v2 can return
    Kinds,      \* the per-connection handler members (bh_, ch_, rh_, ...)
    NULL        \* the null pointer

VARIABLES
    dbLife,      \* each database object: "unborn", "alive", "dead"
    db_,         \* database::db_
    fn,          \* fn[d][k]: the handler member k of d is a non-empty function
    hstate,      \* engine: each handle "free", "open", "closed"
    pinned,      \* engine: the handle has unfinalized statements
    reg,         \* engine: reg[h][k], the database whose member k's address
                 \* is registered as hook k of h, or NULL
    initialized, \* engine: sqlite3_initialize has run
    eh,          \* database::eh_ (static) is a non-empty function
    logReg,      \* engine: error_logger_impl is the SQLITE_CONFIG_LOG logger
    ub,          \* history: the kinds of stray callback that happened
    rc           \* the result of the last call

vars == <<dbLife, db_, fn, hstate, pinned, reg, initialized, eh, logReg,
          ub, rc>>

\* The database object's members: db_, the handlers bh_, ch_, rh_, uh_,
\* ah_ and the static eh_.  The engine's own steps never change them.
members == <<db_, fn, eh>>

NoHook == [k \in Kinds |-> NULL]

-----------------------------------------------------------------------------
(* database                                                                *)

\* sqlite3_close on d's connection succeeds: it is not pinned.
CloseSucceeds(d) == db_[d] \in Handles /\ ~pinned[db_[d]]

\* The handle table after database::disconnect() on d.
HandlesAfterDisconnect(d) ==
    IF CloseSucceeds(d) THEN [hstate EXCEPT ![db_[d]] = "closed"] ELSE hstate

\* database::disconnect() on d: nothing when db_ is null; sqlite3_close
\* fails with SQLITE_BUSY on a pinned connection (db_ kept); on success
\* the handle and its hooks are gone and db_ is cleared.
DisconnectEffect(d) ==
    /\ hstate' = HandlesAfterDisconnect(d)
    /\ db_' = IF CloseSucceeds(d) THEN [db_ EXCEPT ![d] = NULL] ELSE db_
    /\ rc' = IF db_[d] \in Handles /\ ~CloseSucceeds(d) THEN "busy" ELSE "ok"

\* database::database(): db_(nullptr), empty handlers.
DatabaseDefault(d) ==
    /\ dbLife[d] = "unborn"
    /\ dbLife' = [dbLife EXCEPT ![d] = "alive"]
    /\ db_' = [db_ EXCEPT ![d] = NULL]
    /\ fn' = [fn EXCEPT ![d] = [k \in Kinds |-> FALSE]]
    /\ rc' = "ok"
    /\ UNCHANGED <<hstate, pinned, reg, initialized, eh, logReg, ub>>

\* The value a std::function has after it was moved from: valid but
\* unspecified, so empty or still the old function.
MovedFrom(f) == {g \in [Kinds -> BOOLEAN] : \A k \in Kinds : g[k] => f[k]}

\* database::database(database&& src): db_ and the five handlers move; the
\* engine keeps the addresses of src's members; src.db_ = nullptr.
DatabaseMove(dst, src) ==
    /\ dbLife[dst] = "unborn" /\ dbLife[src] = "alive"
    /\ dbLife' = [dbLife EXCEPT ![dst] = "alive"]
    /\ db_' = [db_ EXCEPT ![dst] = db_[src], ![src] = NULL]
    /\ \E left \in MovedFrom(fn[src]) :
          fn' = [fn EXCEPT ![dst] = fn[src], ![src] = left]
    /\ rc' = "ok"
    /\ UNCHANGED <<hstate, pinned, reg, initialized, eh, logReg, ub>>

\* database::operator=(database&& src): the same moves over a live object
\* (what dst held before is Connection's concern); self-move is left out.
DatabaseMoveAssign(dst, src) ==
    /\ dst # src
    /\ dbLife[dst] = "alive" /\ dbLife[src] = "alive"
    /\ db_' = [db_ EXCEPT ![dst] = db_[src], ![src] = NULL]
    /\ \E left \in MovedFrom(fn[src]) :
          fn' = [fn EXCEPT ![dst] = fn[src], ![src] = left]
    /\ rc' = "ok"
    /\ UNCHANGED <<dbLife, hstate, pinned, reg, initialized, eh, logReg, ub>>

\* database::~database(): disconnect(), its result ignored.
DatabaseDestroy(d) ==
    /\ dbLife[d] = "alive"
    /\ dbLife' = [dbLife EXCEPT ![d] = "dead"]
    /\ DisconnectEffect(d)
    /\ UNCHANGED <<fn, pinned, reg, initialized, eh, logReg, ub>>

\* database::connect(): disconnect(), result ignored, then sqlite3_open_v2
\* into db_, which initializes the library and yields a handle with no
\* hooks, even when the open fails (NULL only when the engine cannot
\* allocate one).
Connect(d) ==
    /\ dbLife[d] = "alive"
    /\ \/ \E h \in Handles :
             /\ hstate[h] = "free"
             /\ hstate' = [HandlesAfterDisconnect(d) EXCEPT ![h] = "open"]
             /\ db_' = [db_ EXCEPT ![d] = h]
             /\ reg' = [reg EXCEPT ![h] = NoHook]
             /\ rc' \in {"ok", "error"}
       \/ /\ hstate' = HandlesAfterDisconnect(d)
          /\ db_' = [db_ EXCEPT ![d] = NULL]
          /\ rc' = "nomem"
          /\ UNCHANGED reg
    /\ initialized' = TRUE
    /\ UNCHANGED <<dbLife, fn, pinned, eh, logReg, ub>>

\* database::disconnect() called by the client.
Disconnect(d) ==
    /\ dbLife[d] = "alive"
    /\ DisconnectEffect(d)
    /\ UNCHANGED <<dbLife, fn, pinned, reg, initialized, eh, logReg, ub>>

-----------------------------------------------------------------------------
(* handlers                                                                *)

\* database::set_busy_handler(h) and its four siblings, for member k of d:
\* the member is assigned, then the trampoline (or 0 for an empty
\* function) is registered with &member on db_.  On a null db_ the call
\* dereferences it unless SQLite was built with API armor: either outcome.
SetHandler(d, k) ==
    /\ dbLife[d] = "alive"
    /\ \E nonEmpty \in BOOLEAN :
          /\ fn' = [fn EXCEPT ![d][k] = nonEmpty]
          /\ IF db_[d] \in Handles
             THEN /\ reg' = [reg EXCEPT ![db_[d]][k] =
                                            IF nonEmpty THEN d ELSE NULL]
                  /\ UNCHANGED ub
             ELSE /\ ub' \in {ub, ub \cup {"nulldb"}}
                  /\ UNCHANGED reg
    /\ rc' = "void"
    /\ UNCHANGED <<dbLife, db_, hstate, pinned, initialized, eh, logReg>>

\* database::set_error_handler(h) (static): eh_ is assigned, then
\* sqlite3_config(SQLITE_CONFIG_LOG, ...), which is refused with
\* SQLITE_MISUSE once the library is initialized; the result is dropped.
SetErrorHandler ==
    /\ \E nonEmpty \in BOOLEAN :
          /\ eh' = nonEmpty
          /\ logReg' = IF initialized THEN logReg ELSE nonEmpty
    /\ rc' = "void"
    /\ UNCHANGED <<dbLife, db_, fn, hstate, pinned, reg, initialized, ub>>

-----------------------------------------------------------------------------
(* engine                                                                  *)

\* A statement is prepared on the open connection h (statement::prepare).
Pin(h) ==
    /\ hstate[h] = "open"
    /\ pinned' = [pinned EXCEPT ![h] = TRUE]
    /\ UNCHANGED members
    /\ UNCHANGED <<dbLife, hstate, reg, initialized, logReg, ub, rc>>

\* The last statement on h is finalized (statement::finish).
Unpin(h) ==
    /\ pinned[h]
    /\ pinned' = [pinned EXCEPT ![h] = FALSE]
    /\ UNCHANGED members
    /\ UNCHANGED <<dbLife, hstate, reg, initialized, logReg, ub, rc>>

\* The engine calls hook k of the open connection h while a statement runs
\* on it (one of its own, or one its owner executes): busy_handler_impl and
\* its siblings cast the context pointer back to the member and call the
\* std::function there.  A destroyed object, or an empty function
\* (std::bad_function_call thrown through SQLite's C frames), is a stray
\* call.
HookCall(h, k) ==
    /\ hstate[h] = "open"
    /\ pinned[h] \/ \E d \in Databases : dbLife[d] = "alive" /\ db_[d] = h
    /\ reg[h][k] # NULL
    /\ LET d == reg[h][k] IN
          ub' = ub \cup (IF dbLife[d] = "dead" THEN {"dangling"}
                         ELSE IF ~fn[d][k] THEN {"empty"} ELSE {})
    /\ rc' = "called"
    /\ UNCHANGED members
    /\ UNCHANGED <<dbLife, hstate, pinned, reg, initialized, logReg>>

\* The engine logs an error through error_logger_impl, which calls eh_.
ErrorLog ==
    /\ initialized /\ logReg
    /\ ub' = ub \cup (IF eh THEN {} ELSE {"emptylog"})
    /\ rc' = "called"
    /\ UNCHANGED members
    /\ UNCHANGED <<dbLife, hstate, pinned, reg, initialized, logReg>>

-----------------------------------------------------------------------------

Init ==
    /\ dbLife = [d \in Databases |-> "unborn"]
    /\ db_ = [d \in Databases |-> NULL]
    /\ fn = [d \in Databases |-> [k \in Kinds |-> FALSE]]
    /\ hstate = [h \in Handles |-> "free"]
    /\ pinned = [h \in Handles |-> FALSE]
    /\ reg = [h \in Handles |-> NoHook]
    /\ initialized = FALSE
    /\ eh = FALSE
    /\ logReg = FALSE
    /\ ub = {}
    /\ rc = "void"

Next ==
    \/ \E d \in Databases :
          \/ DatabaseDefault(d) \/ DatabaseDestroy(d)
          \/ Connect(d) \/ Disconnect(d)
          \/ \E k \in Kinds : SetHandler(d, k)
    \/ \E dst, src \in Databases :
          DatabaseMove(dst, src) \/ DatabaseMoveAssign(dst, src)
    \/ SetErrorHandler
    \/ \E h \in Handles :
          \/ Pin(h) \/ Unpin(h)
          \/ \E k \in Kinds : HookCall(h, k)
    \/ ErrorLog

Spec == Init /\ [][Next]_vars

-----------------------------------------------------------------------------
(* Properties                                                              *)

TypeOK ==
    /\ dbLife \in [Databases -> {"unborn", "alive", "dead"}]
    /\ db_ \in [Databases -> Handles \cup {NULL}]
    /\ fn \in [Databases -> [Kinds -> BOOLEAN]]
    /\ hstate \in [Handles -> {"free", "open", "closed"}]
    /\ pinned \in [Handles -> BOOLEAN]
    /\ reg \in [Handles -> [Kinds -> Databases \cup {NULL}]]
    /\ initialized \in BOOLEAN /\ eh \in BOOLEAN /\ logReg \in BOOLEAN
    /\ ub \subseteq {"nulldb", "dangling", "empty", "emptylog"}

\* Every callback the engine makes through a wrapper's trampoline reaches
\* a live database object holding a non-empty handler, whatever the client
\* did between setting the handler and the call: moving the object,
\* destroying it while its connection is still busy, or resetting the
\* static error handler after the library was initialized.
NoStrayCallback == ub \cap {"dangling", "empty", "emptylog"} = {}

=============================================================================
