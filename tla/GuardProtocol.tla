---------------------------- MODULE GuardProtocol ----------------------------
(***************************************************************************)
(* What a transaction guard is for, written without its members: each     *)
(* guard tries BEGIN once, when it is constructed; a BEGIN that succeeds   *)
(* opens a transaction that belongs to that guard; a guard whose BEGIN     *)
(* succeeded ends its own transaction once (COMMIT or ROLLBACK), and a     *)
(* guard whose BEGIN failed ends none.  Ending never touches a transaction *)
(* that belongs to another guard: when the guard's own transaction is      *)
(* gone, its COMMIT or ROLLBACK does nothing.  A COMMIT that meets         *)
(* SQLITE_BUSY leaves the guard's transaction open.  The engine may roll   *)
(* the open transaction back by itself.                                    *)
(***************************************************************************)

CONSTANTS
    Guards,
    NoOwner     \* no transaction is open

VARIABLES
    phase,  \* where each guard is: "none", "failed", "begun", "ended"
    owner   \* the guard whose transaction is open, or NoOwner

vars == <<phase, owner>>

Init ==
    /\ phase = [g \in Guards |-> "none"]
    /\ owner = NoOwner

\* The guard's BEGIN: it opens its own transaction, or fails (inside a
\* transaction, or SQLITE_BUSY) and leaves the connection alone.
Begin(g) ==
    /\ phase[g] = "none"
    /\ \/ /\ owner = NoOwner
          /\ phase' = [phase EXCEPT ![g] = "begun"]
          /\ owner' = g
       \/ /\ phase' = [phase EXCEPT ![g] = "failed"]
          /\ UNCHANGED owner

\* The guard's one COMMIT or ROLLBACK: it closes the guard's transaction
\* (or leaves it open after SQLITE_BUSY) and no other.
End(g) ==
    /\ phase[g] = "begun"
    /\ phase' = [phase EXCEPT ![g] = "ended"]
    /\ owner' \in IF owner = g THEN {NoOwner, g} ELSE {owner}

\* The engine rolls the open transaction back.
Abort ==
    /\ owner # NoOwner
    /\ owner' = NoOwner
    /\ UNCHANGED phase

Next ==
    \/ \E g \in Guards : Begin(g) \/ End(g)
    \/ Abort

Spec == Init /\ [][Next]_vars

=============================================================================
