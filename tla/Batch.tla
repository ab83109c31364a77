------------------------------- MODULE Batch -------------------------------
(***************************************************************************)
(* sqlite3pp's batch (sqlite3pp.cpp in src/unnamed/part_000, lines        *)
(* 601-677): a script of SQL statements run one at a time on a database.   *)
(*                                                                         *)
(* The SQL text is abstracted to a sequence of tokens, whitespace between  *)
(* them left out (state_.ltrim() removes it):                              *)
(*   "stmt"    a statement that compiles, with its ';'                     *)
(*   "bad"     a statement that does not compile                           *)
(*   "semi"    an empty statement, a ';' on its own                        *)
(*   "comment" a comment, which the SQLite tokenizer skips                 *)
(* orig_ and state_ are views of the text; state_ is the index pos of the  *)
(* first token it still covers, and owner says whose memory the views     *)
(* point into: the caller's buffer or the batch's own copy data_.         *)
(*                                                                         *)
(* execute_all() is a loop in the caller's thread; each iteration is one   *)
(* step (ExecuteAllLoop) and nothing else runs until it returns.           *)
(***************************************************************************)
EXTENDS Naturals, Sequences

CONSTANT MaxScript   \* the longest script the client passes, in tokens

ASSUME MaxScriptAssumption == MaxScript \in Nat

Tokens == {"stmt", "bad", "semi", "comment"}
Scripts == UNION {[1..n -> Tokens] : n \in 0..MaxScript}
Results == {"true", "false", "error", "misuse"}

\* enum copy_semantic : uint8_t { copy, nocopy }: the value of each
\* enumerator, which is what a test of fcopy as a bool sees.
CopySemantic == [copy |-> 0, nocopy |-> 1]

VARIABLES
    script,      \* the SQL text last given to prepare()
    owner,       \* whose memory orig_ / state_ point into: "caller", "copy"
    callerAlive, \* the caller's buffer still exists
    pos,         \* state_, as the index of its first token
    executed,    \* history: indices of the statements run since the text
                 \* was given or reset, in the order they ran
    inAll,       \* execute_all() is running
    released,    \* the caller asked for copy semantics: it may free its text
    ub,          \* history: the batch has read freed memory
    rc           \* the value the last call returned

\* The batch object's members: orig_ (the text), data_ (whether it owns a
\* copy) and state_.
batchVars == <<script, owner, pos>>
vars == <<script, owner, callerAlive, pos, executed, inAll, released, ub, rc>>

-----------------------------------------------------------------------------

\* The first token at or after p that the tokenizer does not skip, or
\* Len(script) + 1 when only comments are left.
FirstToken(p) ==
    LET S == {i \in p..Len(script) : script[i] # "comment"}
    IN  IF S = {} THEN Len(script) + 1
        ELSE CHOOSE i \in S : \A j \in S : i <= j

\* The token at index k, "end" past the end of the text.
TokenAt(k) == IF k <= Len(script) THEN script[k] ELSE "end"

\* The statements the script holds before index p.
StmtsBefore(p) == {i \in 1..(p - 1) : script[i] = "stmt"}

\* The elements of a sequence.
Elems(sq) == {sq[i] : i \in DOMAIN sq}

\* An execute_next() that moves state_ past a statement whose step failed.
ExecuteNextSkipOnError(res) ==
    IF pos > Len(script)
    THEN /\ res = "false"
         /\ UNCHANGED <<pos, executed, ub>>
    ELSE LET k == FirstToken(pos)
             t == TokenAt(k)
         IN
         /\ ub' = (ub \/ (owner = "caller" /\ ~callerAlive))
         /\ \/ /\ t \in {"end", "semi"}
               /\ res = "misuse"
               /\ UNCHANGED <<pos, executed>>
            \/ /\ t = "bad"
               /\ res = "error"
               /\ UNCHANGED <<pos, executed>>
            \/ /\ t = "stmt"
               /\ res = "error"
               /\ pos' = k + 1
               /\ UNCHANGED executed
            \/ /\ t = "stmt"
               /\ executed' = Append(executed, k)
               /\ pos' = k + 1
               /\ res = IF k + 1 <= Len(script) THEN "true" ELSE "false"

\* batch::execute_next() with the result res: ltrim, an empty view returns
\* false; else a temporary statement prepares the text at state_ (a
\* compile error is returned), steps it (sqlite3_step on the NULL statement
\* that a comment-only rest or an empty statement yields is SQLITE_MISUSE;
\* a step error is returned), finishes it, moves state_ to the tail and
\* returns whether text is left.  Reading the text after the caller freed
\* it is undefined behaviour.
ExecuteNextEffect(res) ==
    IF pos > Len(script)
    THEN /\ res = "false"
         /\ UNCHANGED <<pos, executed, ub>>
    ELSE LET k == FirstToken(pos)
             t == TokenAt(k)
         IN
         /\ ub' = (ub \/ (owner = "caller" /\ ~callerAlive))
         /\ \/ /\ t \in {"end", "semi"}
               /\ res = "misuse"
               /\ UNCHANGED <<pos, executed>>
            \/ /\ t = "bad"
               /\ res = "error"
               /\ UNCHANGED <<pos, executed>>
            \/ /\ t = "stmt"
               /\ res = "error"
               /\ UNCHANGED <<pos, executed>>
            \/ /\ t = "stmt"
               /\ executed' = Append(executed, k)
               /\ pos' = k + 1
               /\ res = IF k + 1 <= Len(script) THEN "true" ELSE "false"

\* batch::batch(db, stmt, fcopy) and batch::prepare(stmt, fcopy): the text
\* is copied when it is non-empty and fcopy is true, and copy_semantic::copy
\* is 0, so it is copy_semantic::nocopy that copies.
Prepare ==
    /\ ~inAll
    /\ \E s \in Scripts, fcopy \in DOMAIN CopySemantic :
          /\ script' = s
          /\ owner' = IF s # <<>> /\ CopySemantic[fcopy] # 0
                       THEN "copy" ELSE "caller"
          /\ released' = (fcopy = "copy")
    /\ callerAlive' = TRUE
    /\ pos' = 1
    /\ executed' = <<>>
    /\ rc' = "void"
    /\ UNCHANGED <<inAll, ub>>

\* The caller frees its text, which the copy semantics it asked for allows.
FreeCallerText ==
    /\ ~inAll
    /\ released /\ callerAlive
    /\ callerAlive' = FALSE
    /\ UNCHANGED batchVars
    /\ UNCHANGED <<executed, inAll, released, ub, rc>>

\* batch::reset(): state_ = orig_.
Reset ==
    /\ ~inAll
    /\ pos' = 1
    /\ executed' = <<>>
    /\ rc' = "void"
    /\ UNCHANGED <<script, owner, callerAlive, inAll, released, ub>>

\* batch::execute_next() called by the client.
ExecuteNext ==
    /\ ~inAll
    /\ \E res \in Results : ExecuteNextEffect(res) /\ rc' = res
    /\ UNCHANGED <<script, owner, callerAlive, inAll, released>>

\* An execute_all() loop that goes on after an error.
ExecuteAllLoopRetry ==
    /\ \E res \in Results :
          /\ ExecuteNextEffect(res)
          /\ inAll' = (res # "false")
          /\ rc' = CASE res = "true" -> "void"
                     [] res = "false" -> "ok"
                     [] OTHER -> res
    /\ UNCHANGED <<script, owner, callerAlive, released>>

\* An execute_all() loop that leaves on an error (break) and then reports
\* success.
ExecuteAllLoopSwallow ==
    /\ \E res \in Results :
          /\ ExecuteNextEffect(res)
          /\ inAll' = (res = "true")
          /\ rc' = IF res = "true" THEN "void" ELSE "ok"
    /\ UNCHANGED <<script, owner, callerAlive, released>>

\* batch::execute_all(): one iteration of its loop, which stops on an error
\* or when execute_next() returns false.
ExecuteAllLoop ==
    /\ \E res \in Results :
          /\ ExecuteNextEffect(res)
          /\ inAll' = (res = "true")
          /\ rc' = CASE res = "true" -> "void"
                     [] res = "false" -> "ok"
                     [] OTHER -> res
    /\ UNCHANGED <<script, owner, callerAlive, released>>

\* The call of execute_all().
ExecuteAll ==
    /\ ~inAll
    /\ inAll' = TRUE
    /\ rc' = "void"
    /\ UNCHANGED <<script, owner, callerAlive, pos, executed, released, ub>>

-----------------------------------------------------------------------------

\* batch::batch(db): empty views.
Init ==
    /\ script = <<>>
    /\ owner = "caller"
    /\ callerAlive = TRUE
    /\ pos = 1
    /\ executed = <<>>
    /\ inAll = FALSE
    /\ released = FALSE
    /\ ub = FALSE
    /\ rc = "void"

Next ==
    \/ Prepare \/ FreeCallerText \/ Reset \/ ExecuteNext
    \/ ExecuteAll \/ (inAll /\ ExecuteAllLoop)

\* execute_all() is a plain loop in the caller's thread: once called it
\* keeps iterating.  The client's own calls are not assumed to happen.
Fairness == WF_vars(inAll /\ ExecuteAllLoop)

Spec == Init /\ [][Next]_vars
FairSpec == Spec /\ Fairness

-----------------------------------------------------------------------------
(* Properties                                                              *)

TypeOK ==
    /\ script \in Scripts
    /\ owner \in {"caller", "copy"}
    /\ callerAlive \in BOOLEAN
    /\ pos \in 1..(Len(script) + 1)
    /\ executed \in Seq(1..Len(script))
    /\ inAll \in BOOLEAN
    /\ released \in BOOLEAN
    /\ ub \in BOOLEAN
    /\ rc \in Results \cup {"void", "ok"}

\* Every statement of the script runs exactly once and in script order: the
\* statements run since the text was given (or the batch reset) are the
\* statements before state_, none skipped, none repeated, whatever step
\* errors, compile errors and retries happened on the way.  (A strictly
\* increasing sequence is the only ordering of its elements.)
InOrderOnce ==
    /\ \A i, j \in DOMAIN executed : i < j => executed[i] < executed[j]
    /\ Elems(executed) = StmtsBefore(pos)

\* execute_all() returns: the loop ends with the script consumed or an
\* error.
AllTerminates == inAll ~> ~inAll

\* execute_all() reports success only when every statement of the script
\* has run: it returns no error only once execute_next() has said that no
\* text is left, never after a step or compile error stopped its loop.
CompleteOnSuccess ==
    rc = "ok" => Elems(executed) = StmtsBefore(Len(script) + 1)

\* A script of statements that compile, comments and empty statements never
\* makes the batch call SQLite out of sequence (SQLITE_MISUSE).
NoMisuse == rc # "misuse"

\* A batch never reads text the caller was allowed to free, whatever copy
\* semantics the caller asked for.
NoDanglingRead == ~ub

=============================================================================
