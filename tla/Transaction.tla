----------------------------- MODULE Transaction -----------------------------
(***************************************************************************)
(* The transaction guard of sqlite3pp (class transaction, sqlite3pp.cpp in *)
(* src/unnamed/part_000) on one connected database object.                 *)
(*                                                                         *)
(* A guard holds db_, a pointer to the database object, and fcommit_.      *)
(* Its constructor sends BEGIN through database::begin(), its destructor   *)
(* COMMIT or ROLLBACK according to fcommit_, and commit() / rollback()     *)
(* send theirs once and null db_ first.  Guards are created and destroyed  *)
(* in any order (they may be nested, or live on the heap).                 *)
(*                                                                         *)
(* The engine is the connection's transaction flag (sqlite3_get_autocommit *)
(* = 0): BEGIN fails inside a transaction, BEGIN IMMEDIATE may meet        *)
(* SQLITE_BUSY, COMMIT may meet SQLITE_BUSY and then leaves the            *)
(* transaction open, COMMIT and ROLLBACK fail outside a transaction, and   *)
(* an error of a statement run inside the transaction (SQLITE_FULL,        *)
(* SQLITE_IOERR, SQLITE_NOMEM, ...) may roll it back automatically.        *)
(*                                                                         *)
(* Revisions selects commit() and rollback() of the current file, of the  *)
(* previous revision (src/unnamed/part_001, no null check), or both: a    *)
(* property that holds with both holds for a program built with either.  *)
(***************************************************************************)
EXTENDS Naturals

CONSTANTS
    Guards,     \* transaction objects the client may create
    Revisions   \* the revisions of commit() / rollback() the client calls

ASSUME RevisionsAssumption == Revisions \subseteq {"current", "previous"}

VARIABLES
    gLife,    \* lifetime of each guard: "unborn", "alive", "dead"
    held,     \* transaction::db_ # nullptr
    fcommit,  \* transaction::fcommit_
    inTxn,    \* engine: the connection is inside a transaction
    opener,   \* history: the guard whose BEGIN opened the open transaction
    began,    \* history: the guard's BEGIN succeeded
    ends,     \* history: COMMIT / ROLLBACK statements the guard has sent
    ub,       \* history: the guard dereferenced a null db_
    rc        \* result of the last call

\* The guard object: its lifetime and its members db_ and fcommit_.
guardVars == <<gLife, held, fcommit>>
vars == <<gLife, held, fcommit, inTxn, opener, began, ends, ub, rc>>

NoGuard == "none"
Codes == {"void", "ok", "error", "busy", "misuse"}

-----------------------------------------------------------------------------
(* The engine: the result codes sqlite3_exec can return for each           *)
(* transaction statement; the transaction flag afterwards follows from the *)
(* code.                                                                    *)

\* BEGIN [IMMEDIATE]: an error inside a transaction; only IMMEDIATE takes a
\* write lock at once and can meet SQLITE_BUSY.
BeginCodes(immediate) ==
    IF inTxn THEN {"error"}
    ELSE IF immediate THEN {"ok", "busy"} ELSE {"ok"}

\* COMMIT (commit = TRUE) or ROLLBACK: an error outside a transaction; a
\* COMMIT that meets SQLITE_BUSY leaves the transaction open.
EndCodes(commit) ==
    IF ~inTxn THEN {"error"}
    ELSE IF commit THEN {"ok", "busy"} ELSE {"ok"}

\* database::commit() (commit = TRUE) or database::rollback() called on
\* behalf of guard g: execute("COMMIT") or execute("ROLLBACK").
SendEnd(g, commit) ==
    /\ \E c \in EndCodes(commit) :
          /\ rc' = c
          /\ inTxn' = (commit /\ c = "busy")
    /\ ends' = [ends EXCEPT ![g] = @ + 1]

-----------------------------------------------------------------------------
(* transaction                                                              *)

\* A constructor that keeps db_ when BEGIN fails.
ConstructKeepHandle(g) ==
    /\ gLife[g] = "unborn"
    /\ gLife' = [gLife EXCEPT ![g] = "alive"]
    /\ \E fc, immediate \in BOOLEAN : \E c \in BeginCodes(immediate) :
          /\ fcommit' = [fcommit EXCEPT ![g] = fc]
          /\ held' = [held EXCEPT ![g] = TRUE]
          /\ began' = [began EXCEPT ![g] = (c = "ok")]
          /\ inTxn' = (inTxn \/ c = "ok")
          /\ opener' = IF c = "ok" THEN g ELSE opener
          /\ rc' = c
    /\ UNCHANGED <<ends, ub>>

\* transaction::transaction(db, fcommit, immediate): db_ = &db; BEGIN; on
\* failure db_ = nullptr (the assert(false) is compiled out).
Construct(g) ==
    /\ gLife[g] = "unborn"
    /\ gLife' = [gLife EXCEPT ![g] = "alive"]
    /\ \E fc, immediate \in BOOLEAN : \E c \in BeginCodes(immediate) :
          /\ fcommit' = [fcommit EXCEPT ![g] = fc]
          /\ held' = [held EXCEPT ![g] = (c = "ok")]
          /\ began' = [began EXCEPT ![g] = (c = "ok")]
          /\ inTxn' = (inTxn \/ c = "ok")
          /\ opener' = IF c = "ok" THEN g ELSE opener
          /\ rc' = c
    /\ UNCHANGED <<ends, ub>>

\* transaction::~transaction(): nothing if db_ is null, else COMMIT or
\* ROLLBACK according to fcommit_, the result ignored.
Destroy(g) ==
    /\ gLife[g] = "alive"
    /\ gLife' = [gLife EXCEPT ![g] = "dead"]
    /\ \/ /\ ~held[g]
          /\ rc' = "void"
          /\ UNCHANGED <<inTxn, ends>>
       \/ /\ held[g]
          /\ SendEnd(g, fcommit[g])
    /\ UNCHANGED <<held, fcommit, opener, began, ub>>

\* transaction::commit() / rollback(): SQLITE_MISUSE if db_ is null, else
\* null db_ and send the statement.
End(g, commit) ==
    /\ gLife[g] = "alive"
    /\ \/ /\ ~held[g]
          /\ rc' = "misuse"
          /\ UNCHANGED <<held, inTxn, ends>>
       \/ /\ held[g]
          /\ held' = [held EXCEPT ![g] = FALSE]
          /\ SendEnd(g, commit)
    /\ UNCHANGED <<gLife, fcommit, opener, began, ub>>

Commit(g) == End(g, TRUE)
Rollback(g) == End(g, FALSE)

\* The previous revision's commit() / rollback(): db_->execute(...) with no
\* check, so a second call dereferences a null pointer.
PrevEnd(g, commit) ==
    /\ gLife[g] = "alive"
    /\ \/ /\ ~held[g]
          /\ ub' = ub \cup {g}
          /\ rc' = "void"
          /\ UNCHANGED <<inTxn, ends>>
       \/ /\ held[g]
          /\ SendEnd(g, commit)
          /\ UNCHANGED ub
    /\ held' = [held EXCEPT ![g] = FALSE]
    /\ UNCHANGED <<gLife, fcommit, opener, began>>

PrevCommit(g) == PrevEnd(g, TRUE)
PrevRollback(g) == PrevEnd(g, FALSE)

\* The engine rolls the open transaction back after an error of a statement
\* the client ran inside it.
AutoRollback ==
    /\ inTxn
    /\ inTxn' = FALSE
    /\ rc' = "error"
    /\ UNCHANGED guardVars
    /\ UNCHANGED <<opener, began, ends, ub>>

-----------------------------------------------------------------------------

Init ==
    /\ gLife = [g \in Guards |-> "unborn"]
    /\ held = [g \in Guards |-> FALSE]
    /\ fcommit = [g \in Guards |-> FALSE]
    /\ inTxn = FALSE
    /\ opener = NoGuard
    /\ began = [g \in Guards |-> FALSE]
    /\ ends = [g \in Guards |-> 0]
    /\ ub = {}
    /\ rc = "void"

Next ==
    \/ \E g \in Guards :
          \/ Construct(g) \/ Destroy(g)
          \/ "current" \in Revisions /\ (Commit(g) \/ Rollback(g))
          \/ "previous" \in Revisions /\ (PrevCommit(g) \/ PrevRollback(g))
    \/ AutoRollback

Spec == Init /\ [][Next]_vars

-----------------------------------------------------------------------------
(* Properties                                                              *)

TypeOK ==
    /\ gLife \in [Guards -> {"unborn", "alive", "dead"}]
    /\ held \in [Guards -> BOOLEAN]
    /\ fcommit \in [Guards -> BOOLEAN]
    /\ inTxn \in BOOLEAN
    /\ opener \in Guards \cup {NoGuard}
    /\ began \in [Guards -> BOOLEAN]
    /\ ends \in [Guards -> Nat]
    /\ ub \subseteq Guards
    /\ rc \in Codes

\* A guard ends at most the one transaction it began: a guard whose BEGIN
\* failed (a nested guard inside an open transaction) never sends COMMIT or
\* ROLLBACK, so it cannot end the outer guard's transaction, and a guard
\* that began one sends its COMMIT or ROLLBACK once, whatever mix of
\* commit(), rollback() and the destructor the client calls.
EndsOnlyOwnBegin ==
    \A g \in Guards : ends[g] <= IF began[g] THEN 1 ELSE 0

\* A transaction a guard opened stays in the hands of that guard: while it
\* is open, the guard is alive and still holds the database, so that its
\* destructor or commit() / rollback() will end it.
TxnManaged ==
    inTxn /\ opener \in Guards => gLife[opener] = "alive" /\ held[opener]

\* The inductive invariant behind EndsOnlyOwnBegin.
GuardInv ==
    /\ TypeOK
    /\ \A g \in Guards :
          /\ held[g] => began[g]
          /\ gLife[g] = "alive" /\ held[g] => ends[g] = 0
          /\ ends[g] <= IF began[g] THEN 1 ELSE 0
          /\ gLife[g] = "unborn" => ~held[g] /\ ~began[g] /\ ends[g] = 0

\* The refinement mapping to GuardProtocol: a guard not yet constructed has
\* not tried BEGIN; one that sent a COMMIT or ROLLBACK has ended; the others
\* have begun or failed according to their BEGIN.  The open transaction
\* belongs to the guard whose BEGIN opened it.
GuardPhase ==
    [g \in Guards |->
        IF gLife[g] = "unborn" THEN "none"
        ELSE IF ends[g] > 0 THEN "ended"
        ELSE IF began[g] THEN "begun" ELSE "failed"]

TxnOwner == IF inTxn THEN opener ELSE NoGuard

Protocol == INSTANCE GuardProtocol
            WITH phase <- GuardPhase, owner <- TxnOwner, NoOwner <- NoGuard

\* The guards implement GuardProtocol: in particular a guard's COMMIT or
\* ROLLBACK (destructor, commit(), rollback()) ends only the transaction
\* its own BEGIN opened.  The destructor and commit() / rollback() take a
\* non-null db_ to mean that the guard's transaction is still open; after
\* the engine rolled it back and another guard began, they end the other
\* guard's transaction.
GuardRefines == Protocol!Spec

=============================================================================
