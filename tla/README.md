# A TLA+ model of sqlite3pp

sqlite3pp is a thin C++ wrapper over SQLite. Its current implementation is
the first part of `src/unnamed/part_000`, lines 1-863, with the interface in
`src/src/sqlite3pp.h`. The rest of `part_000` (from line 864) and
`part_001` are older revisions of the same file. The wrapper has no threads,
and SQLite itself (`sqlite3.c`) is not in the repository. What can go wrong
is therefore the order of calls a client program makes on several wrapper
objects that share native resources. This project models those objects,
and the part of the engine they depend on, as state machines. It then
checks every interleaving of the client's calls on small instances. It
proves the handle-ownership properties, that a guard ends only a
transaction its own BEGIN opened and at most once, the batch order, and
that `execute_all` reports success only for a completed script, for all
instances.

## 1. Inventory

### Components

| Part | Code | State | Operations |
|---|---|---|---|
| `database` | part_000 130-369 | `db_` (a `sqlite3*`), five handler `std::function`s, a static error handler | two constructors, move constructor, move assignment, destructor, `connect`, `disconnect`, the handler setters, `execute(f)`, `begin`/`commit`/`rollback`, pragmas |
| `statement` | 371-599 | `db_` (reference to a `database`), `stmt_` (a `sqlite3_stmt*`) | constructor, destructor, `prepare`, `finish`, `step`, `exec`, `reset`, `clear_bindings`, `bind` (16 overloads), `bind_index`, `bindstream` |
| `selecter` | 679-795 | as `statement`, plus `row` views | `exec` (override), `next`, row accessors, `column_index` |
| `inserter` | 797-814 | as `statement` | `insert` |
| `batch` | 601-677 | `db_`, `data_` (an optional copy), `orig_`, `state_` (views into the SQL text) | constructor, `prepare`, `reset`, `execute_next`, `execute_all` |
| `transaction` | 816-854 | `db_` (a `database*`), `fcommit_` | constructor (BEGIN), destructor, `commit`, `rollback` |
| `sql_str` | 76-81 | an owned `char*` | move, destructor |
| SQLite (not in repo) | - | connection handles and their open state, the statements of each connection, each statement's run state, the autocommit flag, the rowid, registered callbacks | `open_v2`, `close`, `prepare_v2`, `step`, `reset`, `finalize`, `bind_*`, hooks, `config` |

### How the parts interact

- A `statement` holds a reference to its `database`, and prepares on the
  database's current `db_`. A native statement keeps its connection alive:
  `sqlite3_close` returns `SQLITE_BUSY` while any statement of the
  connection is unfinalized.
- `database::connect` calls `disconnect` and ignores its result.
  `disconnect` clears `db_` only when the close succeeded.
- `statement::exec` calls `reset` and then steps. `prepare` calls `finish`,
  which resets and then finalizes.
- `batch` builds a temporary `statement` for each piece of its script.
- `transaction` drives `database::begin`/`commit`/`rollback`.
- The handler setters give SQLite the address of the member that holds the
  handler, and the moves do not re-register it.

### Hard behaviours

There is no concurrency inside the wrapper. The hard cases are all about
sequencing:

- a connection still in use by statements when its owner is reconnected,
  moved over or destroyed;
- error codes that SQLite reports late (`sqlite3_reset` returns the previous
  step's error);
- a `COMMIT` that fails with `SQLITE_BUSY` and leaves the transaction open;
- a script whose tail is only a comment;
- undefined behaviour from uninitialised or null pointers.

The full list, each item at its source line, is under `hazards` in
`PROJECT.json`.

### The properties each component should have

- **database**:
  - Each open connection is owned by exactly one live object (the glossary
    of `spec.md`).
  - No live object or native statement refers to a closed connection.
  - `connect` closes what it held before.
  - No indeterminate pointer is ever read.
- **statement**:
  - `exec` executes the statement.
  - `bind` succeeds only on a reset statement.
  - Nothing is ever called on a null statement where SQLite dereferences it.
- **transaction**:
  - Once the guard is destroyed, no transaction it opened is still open.
  - `commit`/`rollback` succeed at most once.
- **batch**:
  - `execute_all` terminates, having run every statement of the script once
    and in order, or having reported an error.
  - A copy-semantics batch never refers to the caller's buffer.
- **handlers**: the engine calls back only live handler objects.
- **inserter**: `insert()` returns a rowid exactly when its step inserted
  a row, and then that row's rowid.

## 2. Modules and how they correspond to the code

### `Connection.tla`: database, statement and selecter, with the engine parts they use

The constants are:

- `Databases` and `Statements`: the wrapper objects the client can create.
- `Selecters`: the subset of `Statements` whose dynamic type is `selecter`.
- `Handles`: the connection handles `sqlite3_open_v2` can return.
- `NULL` and `Garbage`: the null pointer and an indeterminate pointer.

| Variable | Code |
|---|---|
| `dbLife`, `stLife` | whether the C++ object has not been constructed yet, is alive, or has been destroyed |
| `db_` | `database::db_` |
| `hstate` | engine: handle never opened, open, or closed |
| `stDb` | `statement::db_` (the reference) |
| `stmt_` | `statement::stmt_`, represented by the connection the native statement lives on, or `NULL` |
| `vm` | engine: `ready`, `row`, `done` or `error`, the state `sqlite3_reset` reports from |
| `ub` | the sites that have executed undefined behaviour |
| `rc` | the result of the last call |

`DatabaseOps` and `StatementOps` list the operations that class `database`
and class `statement` (with `selecter`) declare in the header; `Next` is
their disjunction. Each public method is one action, and includes the
methods it calls:

| Code | Action |
|---|---|
| `database()` | `DatabaseDefault` |
| `database(dbname)` | `DatabaseNamed`, which runs `connect()` on an indeterminate `db_` |
| `database(database&&)` | `DatabaseMove` |
| `operator=` | `DatabaseMoveAssign` |
| `~database` | `DatabaseDestroy` (`disconnect()`, result ignored) |
| `connect` | `Connect` (`disconnect()` result ignored, then `OpenInto`) |
| `disconnect` | `Disconnect` |
| `statement()` | `StatementCreate` (empty text, or `prepare()`; a failed prepare throws, so the object is never alive) |
| `prepare` | `Prepare` (`finish()` then `sqlite3_prepare_v2`) |
| `finish` | `Finish` |
| `step` | `Step` |
| `exec` | `StatementExec` (`reset()`, its error returned, then one step) |
| `selecter::exec` | `SelecterExec` |
| `selecter::next` | `SelecterNext` |
| `reset` | `Reset` |
| `bind(idx, ...)`, every overload | `Bind`, whose result is `BindCode`: MISUSE on a null or stepped statement, RANGE for an index outside the parameters |
| `bind(name, ...)` (header 240-254) | `BindNamed`: `bind_index` MISUSE for an unknown name, else `Bind` at that index |
| `binder() << v` (header 256-278) | `BindStream`: throws `database_error` when the bind fails |
| `row::get` by index or name, `getter() >>`, `get_all`, `type`, `bytes`, `is_null` (header 308-359) | `RowRead`: a value on a row, `T()` for an unknown name, an undefined (in practice NULL) value off a row |
| `clear_bindings` | `ClearBindings` |
| `~statement` | `StatementDestroy` |

Abstractions:

- SQL text and values are not modelled. A prepare on a handle yields a
  statement, no statement (comment-only text) or a compile error.
- A statement is represented by its connection, which is all that
  ownership depends on.
- The build is a release build, so `assert` does nothing.
- The client destroys a database only after the statements that refer to
  it (C++ reference lifetime). This is the one guard that comes from the
  client rather than the code.

### `MC_Connection.tla`

Two databases, two statements (one a `selecter`) and three handles.

- Two databases let a move happen between two live objects, and let one
  object's statements pin a connection while the other reconnects.
- Three handles let both objects reconnect after a refused close.
- Databases and handles are interchangeable, so symmetry over them is sound.
  Statements are not, because one is a selecter.

The instance has 226,697 distinct states, and TLC checks it in about half a
minute.

### `Transaction.tla`: the transaction guard and the engine's transaction flag

The constants are `Guards`, the guard objects the client may create, and
`Revisions`. `Revisions` selects `commit()`/`rollback()` of the current file
(part_000 838-854), of the older revision (part_001 610-622), or both.
The passing run takes both. Its behaviours include those of a program
built with either revision, so a safety property that holds there holds
for each.

| Variable | Code |
|---|---|
| `gLife` | whether the guard has not been constructed yet, is alive, or has been destroyed |
| `held` | `transaction::db_ != nullptr` |
| `fcommit` | `transaction::fcommit_` |
| `inTxn` | engine: `sqlite3_get_autocommit() == 0` |
| `opener`, `began`, `ends` | history: the guard that opened the open transaction, whether each guard's BEGIN succeeded, and how many COMMIT/ROLLBACKs each guard sent |
| `ub` | guards that dereferenced a null `db_` (older revision; recorded, but no run states it, since the current revision has the null check) |
| `rc` | the result of the last call |

The actions are:

- `Construct`: the constructor. It sends BEGIN or BEGIN IMMEDIATE. On
  failure it nulls `db_`, because the `assert` is compiled out.
- `Destroy`: the destructor. It sends COMMIT or ROLLBACK according to
  `fcommit_` if `db_` is set, and ignores the result.
- `Commit`/`Rollback` (`End`): return MISUSE on a null `db_`. Otherwise they
  null `db_` and then send.
- `PrevCommit`/`PrevRollback` (`PrevEnd`): the older revision, with no null
  check.
- `AutoRollback`: the engine rolls back after an error of a client
  statement inside the transaction.

`SendEnd` is `database::commit()`/`rollback()`. The engine's answers are
`BeginCodes` and `EndCodes`:

- BEGIN fails inside a transaction.
- Only BEGIN IMMEDIATE may be BUSY.
- COMMIT may be BUSY, and then the transaction stays open.
- COMMIT and ROLLBACK fail outside a transaction.

`guardVars` is the guard object itself (`db_`, `fcommit_`, its lifetime),
which the engine's `AutoRollback` leaves alone.

**Refinement, and why it fails.** `GuardProtocol.tla` is what a guard
promises, written without its members. Each guard has a `phase`: `none`,
then `failed` or `begun` (its one BEGIN), then `ended` (its one COMMIT or
ROLLBACK). `owner` is the guard whose transaction is open, or `NoOwner`.

- `Begin` opens a transaction, owned by the guard, only when none is open.
- `End(g)` is allowed only from `begun`. If `g` owns the open transaction
  it closes it, or leaves it open (a COMMIT that met BUSY); otherwise it
  leaves the connection as it is: a guard never ends another guard's
  transaction.
- `Abort` is the engine's rollback.

`Transaction` records `opener`, the guard whose BEGIN opened the current
transaction, and maps onto the protocol with `phase <- GuardPhase` and
`owner <- TxnOwner` (`opener` while `inTxn`). `GuardPhase` reads `gLife`,
`ends` and `began`: `none` before construction, `ended` once a
COMMIT/ROLLBACK was sent, and otherwise `begun` or `failed` by the BEGIN.
`GuardRefines == Protocol!Spec`. The constructor maps to `Begin`, a send
to `End`, `AutoRollback` to `Abort`, and every call on a null `db_` to a
stutter.

The code does not implement it (run `transaction_cross_end`). The
destructor, `commit` and `rollback` take a non-null `db_` to mean that the
guard's transaction is still open (line 831). TLC's shortest trace:
guard 1 begins, the engine rolls back, guard 2 begins, and guard 1's
destructor sends ROLLBACK, which ends guard 2's transaction. With scopes
that nest, the same happens when guard 1's `commit()` or `rollback()` is
called inside guard 2's scope.

`MC_Transaction.tla` uses three guards, which is enough for a nested guard
inside an outer one plus a third after both. The guards are
interchangeable, so `Permutations` symmetry is sound.

### `Batch.tla`: the SQL script runner

The SQL text is a sequence of tokens: a statement that compiles, one that
does not, a lone `;`, and a comment. Whitespace is left out, because
`ltrim` removes it. `state_` is `pos`, the index of its first token.
`owner` says whether `orig_`/`state_` point into the caller's buffer or the
batch's own `data_`.

| Code | Action |
|---|---|
| `batch(db)` | `Init` |
| `batch(db, stmt, fcopy)`, `prepare` | `Prepare`: the `fcopy` test of line 617 as written, on the enumerator values of `copy_semantic` (`CopySemantic`, header 204) |
| `reset` | `Reset` |
| `execute_next` | `ExecuteNext`, whose body is `ExecuteNextEffect` |
| `execute_all` | `ExecuteAll` (the call) and `ExecuteAllLoop` (one iteration) |
| the caller frees its text | `FreeCallerText`, allowed when it asked for copy semantics |

`ExecuteNextEffect` folds the temporary `statement` into its outcome:

- a compile error is returned, and `state_` stays;
- a comment-only rest or a lone `;` gives a NULL statement, whose step is
  `SQLITE_MISUSE`;
- a step error is returned, and `state_` stays;
- otherwise `state_` moves to the tail, and the call returns whether text
  is left.

Reading the caller's text after the caller freed it sets `ub`.
`executed` is a history variable: the statements run since the last
`prepare` or `reset`.

`MC_Batch.tla` enumerates every script of up to three tokens, which gives
64 scripts of length 3. That is enough for an error between two good
statements, a trailing comment after a statement, and a retry.

`CompleteOnSuccess` relates `execute_all`'s result to the history: when it
has returned success, every statement of the script is in `executed`. The
loop returns the error of a failed step or compile, and success only after
`execute_next` said that no text is left.

### `Inserter.tla`: `inserter::insert` and the rowids of the table

`insert()` (part_000 805-814) steps its statement and returns
`database::last_insert_rowid()` (279-285). That is
`sqlite3_last_insert_rowid`, which belongs to the connection: it is the
rowid of the most recent successful INSERT by any statement on it. A
statement that inserts nothing leaves it alone, and so does a DELETE.

| Variable | Code |
|---|---|
| `rows` | engine: the rowids in the table |
| `lastRowid` | engine: `sqlite3_last_insert_rowid` |
| `result` | the last `insert()`: the result code, the rowid returned, and the rows its step inserted (a history part) |

`Insert` takes the SQL form of the inserter: plain INSERT with an engine
rowid, INSERT with a bound rowid, or INSERT OR IGNORE with a bound rowid.
Its step may:

- fail (BUSY, I/O, a taken rowid, `SQLITE_FULL`);
- insert a row;
- be ignored on a taken rowid, and return `last_insert_rowid` as it stands.

`Returned` is the `id > 0` test of `last_insert_rowid`. A rowid of 0 or
below gives `SQLITE_MISUSE`. `AutoRowids` is the engine's choice: one past
the largest rowid, then any free one once the largest possible rowid is
used. `ExecuteInsert`/`ExecuteDelete` are other statements on the
connection.

`MC_Inserter` uses rowids 1..3, where 3 stands for the largest rowid.

### `Hooks.tla`: handler setters and the callbacks the engine makes

A setter stores a `std::function` in a member (`bh_`, `ch_`, `rh_`, `uh_`,
`ah_`). It then registers a trampoline (`busy_handler_impl`, ...) with
SQLite, with the member's address as context. The five per-connection
setters are the same code, so the constant `Kinds` stands for them. The
instance uses one kind.

| Variable | Code |
|---|---|
| `dbLife`, `db_`, `hstate` | as in `Connection.tla` |
| `fn` | whether each handler member holds a non-empty function |
| `reg` | engine: for each handle and kind, the object whose member address is registered |
| `pinned` | engine: the connection has unfinalized statements, which is what makes `sqlite3_close` return BUSY; Connection models the statements themselves |
| `initialized`, `logReg`, `eh` | engine: `sqlite3_initialize` has run; `error_logger_impl` is installed; the static `eh_` is non-empty |
| `ub` | the kinds of stray call that happened |

The actions cover:

- the database's constructor, move constructor, move assignment,
  destructor, `connect` and `disconnect`;
- `SetHandler`, for any of the five setters, and `SetErrorHandler`;
- `Pin`/`Unpin`: a statement prepared or finalized;
- `HookCall` and `ErrorLog`: the engine calling a trampoline.

A moved-from `std::function` is valid but unspecified, so `MovedFrom`
lets it be empty or keep its function. A setter on a null `db_` is
undefined unless SQLite has API armor, so both outcomes are allowed.

`MC_Hooks.tla` uses two databases and three handles, with the same
reasoning as `MC_Connection`.

### `ConnectionProofs.tla`, `TransactionProofs.tla`, `BatchProofs.tla`

These modules hold the TLAPS proofs (see section 4).

## 3. Runs

| Run | Expect | What it shows |
|---|---|---|
| `connection_ownership` | pass | `UniqueOwnership` (no connection held by two live objects, so no double close), `NoUseAfterClose` (no live object or native statement refers to a closed connection) hold over every interleaving. |
| `connection_noleak` | violation of `NoLeak` | `operator=` overwrites `db_` without closing it. `d = std::move(d)` loses the connection entirely. |
| `connect_closes_previous` | violation of `ConnectClosesPrevious` | With a statement alive, `disconnect()` inside `connect()` gets `SQLITE_BUSY`. `connect()` ignores it and opens a new connection over `db_`. |
| `exec_stale_error` | violation of `ExecRunsStatement` | After a failed step, `exec()` returns the old error from `reset()` without stepping. |
| `transaction_guard` | pass | `EndsOnlyOwnBegin`: a nested guard whose BEGIN failed never ends the outer transaction, and a guard sends COMMIT/ROLLBACK at most once, through any mix of `commit`, `rollback` and the destructor. Both revisions of `commit`/`rollback`. |
| `transaction_cross_end` | violation of `GuardRefines` | After an automatic rollback, a guard that still holds `db_` ends the transaction a second guard opened (see section 2). |
| `transaction_busy_commit` | violation of `TxnManaged` | `commit()` nulls `db_` before sending COMMIT. A BUSY COMMIT leaves the transaction open with no guard to end it, and the destructor then does nothing. |
| `batch_order` | pass | `InOrderOnce`: the statements run are exactly those before `state_`, in order, through errors, retries, resets and re-prepares. `AllTerminates`: `execute_all` returns. `CompleteOnSuccess`: `execute_all` reports success only when the whole script ran. |
| `batch_trailing_comment` | violation of `NoMisuse` | A script whose rest is a comment or a lone `;` makes `execute_next` step a NULL statement, and `execute_all` report `SQLITE_MISUSE`. |
| `hooks_stray_callback` | violation of `NoStrayCallback` | The moves do not re-register the handlers, so after `d2 = std::move(d1)` a hook calls `d1`'s emptied member, and after `d1` is destroyed it calls freed memory. Other paths: a destructor whose close is refused leaves the hooks pointing into the dead object, and `set_error_handler` with an empty function after initialisation is ignored by SQLite while `eh_` is emptied. |
| `inserter_stale_rowid` | violation of `InsertReportsOwnRow` | An INSERT OR IGNORE on a taken rowid inserts nothing, and `insert()` still returns the rowid of the row an earlier statement inserted, as if it were its own. |
| `batch_copy_inverted` | violation of `NoDanglingRead` | `prepare` tests `fcopy` as a bool, but `copy_semantic::copy` is 0. The text is copied for `nocopy` only, and a caller that asked for a copy and freed its text makes the batch read freed memory. |

Deadlock is not checked: the client's program ends when it stops calling.

**Fairness.** Only `AllTerminates` assumes any: weak fairness of
`inAll /\ ExecuteAllLoop`. `execute_all` is a plain `do ... while` loop in
the caller's thread, so once it is called its next iteration is the only
thing that can happen. No fairness is assumed of the client's own calls.

The bounds are small, but the violations need only two to four steps and
two objects. The ownership and guard arguments are proved for every bound
(section 4).

Each property of a passing run is checked to be breakable by a plausible
code bug (`mutants` in `PROJECT.json`):

- a move constructor that keeps the source's handle;
- a `disconnect` that closes but keeps `db_`;
- a guard constructor that keeps `db_` when BEGIN fails;
- an `execute_next` that moves `state_` past a statement whose step failed;
- an `execute_all` that loops on after an error;
- an `execute_all` that breaks out of its loop on an error and reports
  success.

## 4. What is proved

`ConnectionProofs.tla` proves, for all sets of databases, statements and
handles under `ConstantsAssumption`, the following theorems:

- `UniqueOwnershipHolds`: `Spec => []UniqueOwnership`.
- `NoUseAfterCloseHolds`: `Spec => []NoUseAfterClose`.
- `TypeCorrect`: `Spec => []TypeOK`.

All three are corollaries of `OwnershipInvariant`, `Spec => []OwnershipInv`,
where `OwnershipInv` is the inductive strengthening below.

`UniqueOwnership` and `NoUseAfterClose` are not inductive by themselves, for
three reasons:

- `connect` takes a handle in state `free`. That the handle is held by
  nobody needs `HandlesAllocated`: every handle an object or statement holds
  has left `free`.
- A statement prepared on a live database gets a handle or `NULL`. This
  needs constructed databases never to hold `Garbage`, and live statements
  to refer to a database.
- The close in `connect` and `disconnect` touches one handle, and only when
  no statement is on it. The open-handle facts of other objects then carry
  over by `UniqueOwnership`.

The proof has:

- one lemma per group of actions (`DatabaseStep`, `MoveStep`,
  `StatementStep`);
- `NextOwnership`, which combines them;
- the temporal theorem, by PTL.

The `Connect` case is split into the handle chosen by `sqlite3_open_v2` and
the out-of-memory branch.

`TransactionProofs.tla` proves, for every set of guards and both
revisions (so no run is needed for the older `commit`/`rollback`):

- `EndsOnlyOwnBeginHolds`: `Spec => []EndsOnlyOwnBegin`, from
  `GuardInvariant`, `Spec => []GuardInv`.

`EndsOnlyOwnBegin` is not inductive, because the destructor sends whenever
`db_` is set. `GuardInv` adds three facts:

- a guard holding `db_` has begun;
- a live guard holding `db_` has sent nothing yet, because `commit` and
  `rollback` null `db_` before they send, and the constructor nulls it
  when BEGIN fails;
- a guard not yet constructed holds nothing.

There is one lemma per action (`ConstructStep`, `DestroyStep`, `EndStep`,
the last covering both revisions), and `NextGuard` combines them.

`GuardInv` and `OwnershipInv` are the proofs' inductive invariants, not
properties of their own: TLC checks the properties they imply.

`BatchProofs.tla` proves, for scripts of every length (any `MaxScript`):

- `InOrderOnceHolds`: `Spec => []InOrderOnce`.
- `CompleteOnSuccessHolds`: `Spec => []CompleteOnSuccess`.
- `TypeCorrect`: `Spec => []TypeOK`.

The lemmas `ElemsAppend` (the elements of `Append(sq, x)`) and
`IncreasingAppend` (appending a larger number keeps a sequence strictly
increasing) are stated once for any sequence and cited by `RunStep`.

`InOrderOnce` is stated with sets, not by filtering the script: `executed`
is strictly increasing, and its elements are `StmtsBefore(pos)`, the
statement indices before `state_`. It is inductive once `TypeOK` is known
(`IInv == TypeOK /\ InOrderOnce /\ DoneAtEnd`), since `pos` must be an index of the
script and `executed` a sequence of indices. The argument runs as follows:

- `FirstTokenStmt`: the token `execute_next` finds (`FirstToken`, a
  `CHOOSE` of the least non-comment index) is a statement at some `k`,
  with only comments between `pos` and `k`. Its existence rests on
  `LeastExists`, the least element of a nonempty set of naturals, taken
  from `WellFoundedInduction`'s `WFMin`.
- `RunStep`: appending `k` and moving `pos` to `k + 1` keeps `IInv`. The
  new statements before `pos` are the old ones plus `k`, because the
  indices in between are comments. `k` is larger than every run
  statement.
- `EffectStep`: every outcome of `ExecuteNextEffect` either leaves
  `pos`/`executed` alone or is a `RunStep`.
- `DoneAtEnd` (`rc = "ok" => pos = Len(script) + 1`) is what
  `CompleteOnSuccess` needs: with `InOrderOnce`, `pos` past the end means
  every statement has run. `EffectFalse` gives it: `execute_next` returns
  false only with `pos` past the end, either already or because the
  statement it ran was the last token.
- `NextIInv` has one case per action, and the theorems follow by PTL.

These stay with TLC:

- the properties that are violated;
- `AllTerminates`, since TLAPS does not handle liveness, `ENABLED` or
  fairness.

## 5. Not modelled, and why

- **SQL text and values; the value conversions of `get<T>`,
  `column_name`, `column_decltype`; `sql_str`**: these only convert values,
  and the model abstracts values away. The control of the row accessors
  and of `bindstream` (the name lookup, the throw, the read off a row) is
  modelled in `RowRead`, `BindNamed` and `BindStream`. `sql_str` is a
  move-only owner of the `sqlite3_expanded_sql` buffer. Its move
  constructor nulls the source and it has no move assignment, so there is
  no ownership sequence to check. Its one hazard, `to_string()` on a null
  pointer (the statement was empty, or expansion ran out of memory), is a
  single call.
- **`attach`/`detach`/`execute`/`executef`/pragmas**: each is a single
  `sqlite3_exec` whose result is returned. They matter only through
  `begin`/`commit`/`rollback` (Transaction) and the engine errors that
  `AutoRollback` stands for.
- **The older revisions**: modelled only where they differ in a way that
  matters. These are `transaction::commit`/`rollback` (part_001 610-622)
  and the `database(dbname)` initialiser. The older `batch` (part_000 1360-1436) is the current one
  except for `prepare`'s return value.
- **The uninitialised `db_` of `database(const char*)`** (line 136): the
  constructor has no `db_(nullptr)`, unlike `database()` and the older
  revision (part_001 line 115), so `connect()`'s `disconnect()` reads an
  indeterminate pointer. `DatabaseNamed` models the read as a choice
  between null and a wild pointer passed to `sqlite3_close`, and records
  it in `ub`. No property is checked on it: it would only restate that
  choice.
- **SQLite internals**: only the observable behaviour listed in section 2.
- **`meson.build`**: no run-time behaviour.

## 6. Plan for the next sittings

1. **Statement properties**: `bind` only on a reset statement (line 526),
   and `clear_bindings` on a null statement (line 498).
2. **Inserter**: a passing run that keeps inserts away from IGNORE, to
   state that otherwise `insert()` reports its own row; a proof of it.
3. **Proofs**: the `NoDanglingRead` strengthening for a corrected
   `prepare`; `InsertReportsOwnRow` for inserters without `OR IGNORE`.
   For connections, an abstract ownership protocol (each open handle has
   at most one owner, which moves pass on) is not yet written. It would
   have to allow the leaks that `connection_noleak` shows, and its mapping
   needs a `CHOOSE` of the owner. `UniqueOwnership` and `NoUseAfterClose`
   already state its safety part, and both are proved.
