------------------------- MODULE TransactionProofs -------------------------
(***************************************************************************)
(* Proof that a transaction guard sends at most one COMMIT or ROLLBACK,    *)
(* and none unless its own BEGIN succeeded, for any number of guards and   *)
(* both revisions of commit() / rollback().                                *)
(*                                                                         *)
(* EndsOnlyOwnBegin is not inductive: the destructor sends a statement     *)
(* whenever db_ is set, so the proof needs that a live guard holding db_   *)
(* has begun and sent nothing yet (commit() and rollback() null db_        *)
(* before they send, and the constructor nulls it when BEGIN fails), and   *)
(* that a guard not yet constructed holds nothing.  GuardInv adds these.   *)
(***************************************************************************)
EXTENDS Transaction, TLAPS

\* What sending a COMMIT or ROLLBACK does to the typed part of the state.
LEMMA SendEndType ==
  ASSUME TypeOK, NEW g \in Guards, NEW commit \in BOOLEAN, SendEnd(g, commit)
  PROVE  /\ inTxn' \in BOOLEAN
         /\ rc' \in Codes
         /\ ends' = [ends EXCEPT ![g] = ends[g] + 1]
  <1>1. \A c \in EndCodes(commit) : c \in Codes
    BY DEF EndCodes, Codes, TypeOK
  <1> QED
    BY <1>1 DEF SendEnd

LEMMA InitGuard == Init => GuardInv
  <1> SUFFICES ASSUME Init PROVE GuardInv
    OBVIOUS
  <1>1. TypeOK
    BY DEF Init, TypeOK, Codes, NoGuard
  <1> QED
    BY <1>1 DEF Init, GuardInv

LEMMA ConstructStep ==
  ASSUME GuardInv, NEW g \in Guards, Construct(g)
  PROVE  GuardInv'
  <1> USE DEF GuardInv, TypeOK
  <1>1. PICK fc \in BOOLEAN, immediate \in BOOLEAN :
               \E c \in BeginCodes(immediate) :
                  /\ fcommit' = [fcommit EXCEPT ![g] = fc]
                  /\ held' = [held EXCEPT ![g] = (c = "ok")]
                  /\ began' = [began EXCEPT ![g] = (c = "ok")]
                  /\ inTxn' = (inTxn \/ c = "ok")
                  /\ opener' = IF c = "ok" THEN g ELSE opener
                  /\ rc' = c
    BY DEF Construct
  <1>2. PICK c \in BeginCodes(immediate) :
                  /\ fcommit' = [fcommit EXCEPT ![g] = fc]
                  /\ held' = [held EXCEPT ![g] = (c = "ok")]
                  /\ began' = [began EXCEPT ![g] = (c = "ok")]
                  /\ inTxn' = (inTxn \/ c = "ok")
                  /\ opener' = IF c = "ok" THEN g ELSE opener
                  /\ rc' = c
    BY <1>1
  <1>3. c \in Codes
    BY DEF BeginCodes, Codes
  <1>4. ends[g] = 0 /\ UNCHANGED <<ends, ub>>
    BY DEF Construct
  <1> QED
    BY <1>2, <1>3, <1>4 DEF Construct, NoGuard

LEMMA DestroyStep ==
  ASSUME GuardInv, NEW g \in Guards, Destroy(g)
  PROVE  GuardInv'
  <1> USE DEF GuardInv, TypeOK
  <1>1. CASE ~held[g] /\ rc' = "void" /\ UNCHANGED <<inTxn, ends>>
    BY <1>1 DEF Destroy, Codes
  <1>2. CASE held[g] /\ SendEnd(g, fcommit[g])
    <2>1. /\ inTxn' \in BOOLEAN
          /\ rc' \in Codes
          /\ ends' = [ends EXCEPT ![g] = ends[g] + 1]
      BY <1>2, SendEndType
    <2>2. began[g] /\ ends[g] = 0
      BY <1>2 DEF Destroy
    <2> QED
      BY <2>1, <2>2 DEF Destroy
  <1> QED
    BY <1>1, <1>2 DEF Destroy

LEMMA EndStep ==
  ASSUME GuardInv, NEW g \in Guards,
         NEW commit \in BOOLEAN,
         End(g, commit) \/ PrevEnd(g, commit)
  PROVE  GuardInv'
  <1> USE DEF GuardInv, TypeOK
  <1>1. CASE End(g, commit) /\ ~held[g]
    BY <1>1 DEF End, Codes
  <1>2. CASE PrevEnd(g, commit) /\ ~held[g]
    BY <1>2 DEF PrevEnd, Codes
  <1>3. CASE (End(g, commit) \/ PrevEnd(g, commit)) /\ held[g]
    <2>1. SendEnd(g, commit) /\ held' = [held EXCEPT ![g] = FALSE]
          /\ UNCHANGED <<gLife, fcommit, opener, began>>
      BY <1>3 DEF End, PrevEnd
    <2>2. /\ inTxn' \in BOOLEAN
          /\ rc' \in Codes
          /\ ends' = [ends EXCEPT ![g] = ends[g] + 1]
      BY <2>1, SendEndType
    <2>3. ub' \subseteq Guards
      BY <1>3 DEF End, PrevEnd
    <2>4. began[g] /\ ends[g] = 0 /\ gLife[g] = "alive"
      BY <1>3 DEF End, PrevEnd
    <2> QED
      BY <2>1, <2>2, <2>3, <2>4
  <1> QED
    BY <1>1, <1>2, <1>3

LEMMA NextGuard == GuardInv /\ [Next]_vars => GuardInv'
  <1> SUFFICES ASSUME GuardInv, [Next]_vars PROVE GuardInv'
    OBVIOUS
  <1>1. ASSUME NEW g \in Guards, Construct(g) PROVE GuardInv'
    BY <1>1, ConstructStep
  <1>2. ASSUME NEW g \in Guards, Destroy(g) PROVE GuardInv'
    BY <1>2, DestroyStep
  <1>3. ASSUME NEW g \in Guards,
               \/ Commit(g) \/ Rollback(g)
               \/ PrevCommit(g) \/ PrevRollback(g)
        PROVE  GuardInv'
    BY <1>3, EndStep DEF Commit, Rollback, PrevCommit, PrevRollback
  <1>4. CASE AutoRollback
    BY <1>4 DEF AutoRollback, guardVars, GuardInv, TypeOK, Codes
  <1>5. CASE UNCHANGED vars
    BY <1>5 DEF vars, GuardInv, TypeOK
  <1> QED
    BY <1>1, <1>2, <1>3, <1>4, <1>5 DEF Next

\* Every reachable state satisfies the guard invariant.
THEOREM GuardInvariant == Spec => []GuardInv
  BY InitGuard, NextGuard, PTL DEF Spec

\* A transaction guard whose BEGIN failed never sends COMMIT or ROLLBACK
\* (a nested guard cannot end the outer transaction), and one that began a
\* transaction sends its COMMIT or ROLLBACK at most once, through any mix of
\* commit(), rollback() and the destructor.
THEOREM EndsOnlyOwnBeginHolds == Spec => []EndsOnlyOwnBegin
  <1>1. GuardInv => EndsOnlyOwnBegin
    BY DEF GuardInv, EndsOnlyOwnBegin
  <1> QED
    BY <1>1, GuardInvariant, PTL

=============================================================================
