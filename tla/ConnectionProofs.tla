-------------------------- MODULE ConnectionProofs --------------------------
(***************************************************************************)
(* Proofs that the handle ownership invariants of Connection hold for all  *)
(* numbers of database objects, statements and handles.                    *)
(*                                                                         *)
(* UniqueOwnership and NoUseAfterClose are not inductive by themselves:    *)
(* that connect() hands out a handle nobody holds needs HandlesAllocated   *)
(* (every handle held has left the "free" state), and that prepare()       *)
(* yields a handle or NULL needs that a constructed database never holds   *)
(* the indeterminate value and a live statement refers to a database.      *)
(* OwnershipInv is their conjunction, and is inductive.                    *)
(***************************************************************************)
EXTENDS Connection, TLAPS

USE ConstantsAssumption

LEMMA InitOwnership == Init => OwnershipInv
  BY DEF Init, OwnershipInv, TypeOK, HandlesAllocated, UniqueOwnership,
         NoUseAfterClose, Life, VmStates, Codes

\* The outcomes of sqlite3_prepare_v2 on a connection c are statements on c
\* or none.
LEMMA PrepareResultsType ==
  ASSUME NEW c
  PROVE  \A p \in PrepareResults(c) :
            /\ p.stmt \in {c, NULL}
            /\ p.code \in Codes
  BY DEF PrepareResults, Codes

\* What every step of the database side leaves alone.
LEMMA DatabaseStep ==
  ASSUME OwnershipInv, NEW d \in Databases,
         \/ DatabaseDefault(d) \/ DatabaseNamed(d) \/ DatabaseDestroy(d)
         \/ Connect(d) \/ Disconnect(d)
  PROVE  OwnershipInv'
  <1> USE DEF OwnershipInv, TypeOK, HandlesAllocated, UniqueOwnership,
              NoUseAfterClose, Life, Codes, UbSites, VmStates, dbVars, stVars
  <1>1. CASE DatabaseDefault(d)
    BY <1>1 DEF DatabaseDefault
  <1>2. CASE DatabaseNamed(d)
    BY <1>2 DEF DatabaseNamed, OpenInto
  <1>3. CASE DatabaseDestroy(d)
    BY <1>3 DEF DatabaseDestroy, DisconnectEffect, CanClose
  <1>4. CASE Connect(d)
    <2> DEFINE hs == AfterClose(db_[d])
    <2>1. /\ hs \in [Handles -> {"free", "open", "closed"}]
          /\ \A h \in Handles : hs[h] = "free" <=> hstate[h] = "free"
          /\ \A h \in Handles : h # db_[d] => hs[h] = hstate[h]
          /\ \A s \in Statements : stmt_[s] \in Handles =>
                                      hs[stmt_[s]] = hstate[stmt_[s]]
      BY DEF AfterClose, CanClose
    <2>2. OpenInto(d, hs) /\ UNCHANGED <<dbLife, stVars, ub>>
      BY <1>4 DEF Connect
    <2>3. CASE \E h \in Handles :
                 /\ hs[h] = "free"
                 /\ hstate' = [hs EXCEPT ![h] = "open"]
                 /\ db_' = [db_ EXCEPT ![d] = h]
                 /\ rc' \in {"ok", "error"}
      <3> PICK h \in Handles :
                 /\ hs[h] = "free"
                 /\ hstate' = [hs EXCEPT ![h] = "open"]
                 /\ db_' = [db_ EXCEPT ![d] = h]
                 /\ rc' \in {"ok", "error"}
        BY <2>3
      <3>1. \A e \in Databases : db_[e] # h
        BY <2>1
      <3>2. \A s \in Statements : stmt_[s] # h
        BY <2>1
      <3>3. TypeOK'
        BY <2>1, <2>2
      <3>4. HandlesAllocated'
        BY <2>1, <2>2
      <3>5. UniqueOwnership'
        BY <2>2, <3>1
      <3>6. NoUseAfterClose'
        <4>1. dbLife[d] = "alive"
          BY <1>4 DEF Connect
        <4>2. ASSUME NEW e \in Databases, dbLife'[e] = "alive",
                     db_'[e] \in Handles
              PROVE  hstate'[db_'[e]] = "open"
          <5>1. CASE e = d
            BY <5>1, <2>1
          <5>2. CASE e # d
            <6>1. db_'[e] = db_[e] /\ db_[e] # h /\ db_[e] # db_[d]
              BY <5>2, <4>1, <4>2, <2>2, <3>1
            <6>2. hs[db_[e]] = hstate[db_[e]] /\ hstate[db_[e]] = "open"
              BY <6>1, <4>2, <2>1, <2>2
            <6> QED
              BY <6>1, <6>2, <2>1
          <5> QED
            BY <5>1, <5>2
        <4>3. ASSUME NEW t \in Statements, stmt_'[t] \in Handles
              PROVE  hstate'[stmt_'[t]] = "open"
          BY <4>3, <2>1, <2>2, <3>2
        <4> QED
          BY <4>2, <4>3
      <3> QED
        BY <3>3, <3>4, <3>5, <3>6
    <2>4. CASE /\ hstate' = hs
               /\ db_' = [db_ EXCEPT ![d] = NULL]
               /\ rc' = "nomem"
      <3>1. dbLife[d] = "alive"
        BY <1>4 DEF Connect
      <3>2. TypeOK' /\ HandlesAllocated' /\ UniqueOwnership'
        BY <2>1, <2>2, <2>4
      <3>3. ASSUME NEW e \in Databases, dbLife'[e] = "alive",
                   db_'[e] \in Handles
            PROVE  hstate'[db_'[e]] = "open"
        <4>1. e # d /\ db_'[e] = db_[e] /\ db_[e] # db_[d]
          BY <3>1, <3>3, <2>2, <2>4
        <4> QED
          BY <4>1, <3>3, <2>1, <2>2, <2>4
      <3>4. ASSUME NEW t \in Statements, stmt_'[t] \in Handles
            PROVE  hstate'[stmt_'[t]] = "open"
        BY <3>4, <2>1, <2>2, <2>4
      <3> QED
        BY <3>2, <3>3, <3>4
    <2> QED
      BY <2>2, <2>3, <2>4 DEF OpenInto
  <1>5. CASE Disconnect(d)
    BY <1>5 DEF Disconnect, DisconnectEffect, CanClose
  <1> QED
    BY <1>1, <1>2, <1>3, <1>4, <1>5

LEMMA MoveStep ==
  ASSUME OwnershipInv, NEW dst \in Databases, NEW src \in Databases,
         DatabaseMove(dst, src) \/ DatabaseMoveAssign(dst, src)
  PROVE  OwnershipInv'
  <1> USE DEF OwnershipInv, TypeOK, HandlesAllocated, UniqueOwnership,
              NoUseAfterClose, Life, Codes, UbSites, VmStates, dbVars, stVars
  <1>1. CASE DatabaseMove(dst, src)
    BY <1>1 DEF DatabaseMove
  <1>2. CASE DatabaseMoveAssign(dst, src)
    BY <1>2 DEF DatabaseMoveAssign
  <1> QED
    BY <1>1, <1>2

\* A step that leaves the database objects and the connections alone keeps
\* the invariant when its statements stay well typed, live ones on a
\* database and native ones on an open connection.
LEMMA StatementFrame ==
  ASSUME OwnershipInv,
         UNCHANGED <<dbLife, db_, hstate, ub>>,
         stLife' \in [Statements -> Life],
         stDb' \in [Statements -> Databases \cup {NULL}],
         stmt_' \in [Statements -> Handles \cup {NULL}],
         vm' \in [Statements -> VmStates],
         rc' \in Codes,
         \A t \in Statements : stLife'[t] = "alive" => stDb'[t] \in Databases,
         \A t \in Statements : stmt_'[t] \in Handles => hstate[stmt_'[t]] = "open"
  PROVE  OwnershipInv'
  <1>1. TypeOK'
    BY DEF OwnershipInv, TypeOK
  <1>2. HandlesAllocated'
    BY DEF OwnershipInv, HandlesAllocated
  <1>3. UniqueOwnership'
    BY DEF OwnershipInv, UniqueOwnership
  <1>4. NoUseAfterClose'
    BY DEF OwnershipInv, NoUseAfterClose
  <1> QED
    BY <1>1, <1>2, <1>3, <1>4 DEF OwnershipInv

LEMMA StatementStep ==
  ASSUME OwnershipInv, NEW s \in Statements,
         \/ \E d \in Databases : StatementCreate(s, d)
         \/ Prepare(s) \/ Finish(s) \/ Step(s) \/ StatementExec(s)
         \/ SelecterExec(s) \/ SelecterNext(s) \/ RowRead(s) \/ Reset(s)
         \/ Bind(s) \/ BindNamed(s) \/ BindStream(s)
         \/ ClearBindings(s) \/ StatementDestroy(s)
  PROVE  OwnershipInv'
  <1> USE DEF OwnershipInv, TypeOK, HandlesAllocated, UniqueOwnership,
              NoUseAfterClose, Life, Codes, VmStates, UbSites, dbVars, stVars
  <1>1. CASE \E d \in Databases : StatementCreate(s, d)
    <2> PICK d \in Databases : StatementCreate(s, d)
      BY <1>1
    <2>1. db_[d] \in Handles => hstate[db_[d]] = "open"
      BY DEF StatementCreate
    <2>2. db_[d] \in Handles \cup {NULL}
      BY DEF StatementCreate
    <2>3. CASE /\ stLife' = [stLife EXCEPT ![s] = "alive"]
               /\ rc' = "void"
               /\ UNCHANGED <<stmt_, vm>>
      <3>1. UNCHANGED <<dbLife, db_, hstate, ub>> /\ stDb' = [stDb EXCEPT ![s] = d]
        BY DEF StatementCreate
      <3>2. \A t \in Statements : stLife'[t] = "alive" => stDb'[t] \in Databases
        BY <2>3, <3>1
      <3>3. stLife' \in [Statements -> Life] /\ stDb' \in [Statements -> Databases \cup {NULL}]
        BY <2>3, <3>1
      <3> QED
        BY <2>3, <3>1, <3>2, <3>3, StatementFrame
    <2>4. CASE \E p \in PrepareResults(db_[d]) :
                 /\ stmt_' = [stmt_ EXCEPT ![s] = p.stmt]
                 /\ stLife' = [stLife EXCEPT ![s] =
                                  IF p.code = "ok" THEN "alive" ELSE "dead"]
                 /\ rc' = p.code
                 /\ UNCHANGED vm
      <3> PICK p \in PrepareResults(db_[d]) :
                 /\ stmt_' = [stmt_ EXCEPT ![s] = p.stmt]
                 /\ stLife' = [stLife EXCEPT ![s] =
                                  IF p.code = "ok" THEN "alive" ELSE "dead"]
                 /\ rc' = p.code
                 /\ UNCHANGED vm
        BY <2>4
      <3>1. p.stmt \in {db_[d], NULL} /\ p.code \in Codes
        BY PrepareResultsType
      <3>2. UNCHANGED <<dbLife, db_, hstate, ub>> /\ stDb' = [stDb EXCEPT ![s] = d]
        BY DEF StatementCreate
      <3>3. \A t \in Statements : stLife'[t] = "alive" => stDb'[t] \in Databases
        BY <3>2
      <3>4. stLife' \in [Statements -> Life] /\ stDb' \in [Statements -> Databases \cup {NULL}]
        BY <3>2
      <3>5. stmt_' \in [Statements -> Handles \cup {NULL}]
        BY <2>2, <3>1
      <3>6. \A t \in Statements : stmt_'[t] \in Handles => hstate[stmt_'[t]] = "open"
        BY <2>1, <3>1, <3>2
      <3> QED
        BY <3>1, <3>2, <3>3, <3>4, <3>5, <3>6, StatementFrame
    <2> QED
      BY <2>3, <2>4 DEF StatementCreate
  <1>2. CASE Prepare(s)
    <2> DEFINE d == stDb[s]
    <2> PICK p \in PrepareResults(db_[d]) :
               /\ stmt_' = [stmt_ EXCEPT ![s] = p.stmt]
               /\ rc' = p.code
      BY <1>2 DEF Prepare
    <2>1. p.stmt \in {db_[d], NULL} /\ p.code \in Codes
      BY PrepareResultsType
    <2>2. d \in Databases /\ dbLife[d] = "alive"
      BY <1>2 DEF Prepare
    <2>3. db_[d] \in Handles \cup {NULL}
      BY <2>2
    <2>4. db_[d] \in Handles => hstate[db_[d]] = "open"
      BY <2>2
    <2>5. /\ UNCHANGED <<dbLife, db_, hstate, ub, stLife, stDb>>
          /\ vm' = [vm EXCEPT ![s] = "ready"]
      BY <1>2 DEF Prepare
    <2>6. stmt_' \in [Statements -> Handles \cup {NULL}]
      BY <2>1, <2>3
    <2>7. \A t \in Statements : stmt_'[t] \in Handles => hstate[stmt_'[t]] = "open"
      BY <2>1, <2>4, <2>5
    <2>8. vm' \in [Statements -> VmStates]
      BY <2>5
    <2>9. \A t \in Statements : stLife'[t] = "alive" => stDb'[t] \in Databases
      BY <2>5
    <2> QED
      BY <2>1, <2>5, <2>6, <2>7, <2>8, <2>9, StatementFrame
  <1>3. CASE Finish(s)
    BY <1>3 DEF Finish
  <1>4. CASE Step(s)
    BY <1>4 DEF Step, StepOutcomes
  <1>5. CASE StatementExec(s)
    BY <1>5 DEF StatementExec, StepOutcomes, ResetCode
  <1>6. CASE SelecterExec(s)
    BY <1>6 DEF SelecterExec, ResetCode
  <1>7. CASE SelecterNext(s)
    BY <1>7 DEF SelecterNext, StepOutcomes
  <1>8. CASE Reset(s)
    BY <1>8 DEF Reset, ResetCode
  <1>9. CASE Bind(s) \/ BindNamed(s) \/ BindStream(s) \/ RowRead(s)
    <2>1. rc' \in Codes
      <3>1. CASE Bind(s)
        BY <3>1 DEF Bind, BindCode
      <3>2. CASE BindNamed(s)
        BY <3>2 DEF BindNamed, BindCode
      <3>3. CASE BindStream(s)
        BY <3>3 DEF BindStream
      <3>4. CASE RowRead(s)
        BY <3>4 DEF RowRead
      <3> QED
        BY <1>9, <3>1, <3>2, <3>3, <3>4
    <2>2. UNCHANGED <<dbLife, db_, hstate, stLife, stDb, stmt_, vm, ub>>
      BY <1>9 DEF Bind, BindNamed, BindStream, RowRead
    <2> QED
      BY <2>1, <2>2
  <1>10. CASE ClearBindings(s)
    BY <1>10 DEF ClearBindings
  <1>11. CASE StatementDestroy(s)
    BY <1>11 DEF StatementDestroy
  <1> QED
    BY <1>1, <1>2, <1>3, <1>4, <1>5, <1>6, <1>7, <1>8, <1>9, <1>10, <1>11

LEMMA NextOwnership == OwnershipInv /\ [Next]_vars => OwnershipInv'
  <1> SUFFICES ASSUME OwnershipInv, [Next]_vars PROVE OwnershipInv'
    OBVIOUS
  <1>1. CASE \E d \in Databases :
               \/ DatabaseDefault(d) \/ DatabaseNamed(d) \/ DatabaseDestroy(d)
               \/ Connect(d) \/ Disconnect(d)
    BY <1>1, DatabaseStep
  <1>2. CASE \E dst, src \in Databases :
               DatabaseMove(dst, src) \/ DatabaseMoveAssign(dst, src)
    BY <1>2, MoveStep
  <1>3. CASE \E s \in Statements, d \in Databases : StatementCreate(s, d)
    BY <1>3, StatementStep
  <1>4. CASE \E s \in Statements :
               \/ Prepare(s) \/ Finish(s) \/ Step(s) \/ StatementExec(s)
               \/ SelecterExec(s) \/ SelecterNext(s) \/ RowRead(s)
               \/ Reset(s) \/ Bind(s) \/ BindNamed(s) \/ BindStream(s)
               \/ ClearBindings(s) \/ StatementDestroy(s)
    BY <1>4, StatementStep
  <1>5. CASE UNCHANGED vars
    BY <1>5 DEF vars, OwnershipInv, TypeOK, HandlesAllocated,
                UniqueOwnership, NoUseAfterClose
  <1> QED
    BY <1>1, <1>2, <1>3, <1>4, <1>5 DEF Next, DatabaseOps, StatementOps

\* Handle ownership: no connection is ever held by two live database
\* objects, and no live object uses a closed connection (move construction
\* and assignment null the source; disconnect clears db_ only on success).
THEOREM OwnershipInvariant == Spec => []OwnershipInv
  BY InitOwnership, NextOwnership, PTL DEF Spec

\* Type correctness of the model of the database and statement wrappers.
THEOREM TypeCorrect == Spec => []TypeOK
  BY OwnershipInvariant, PTL DEF OwnershipInv

\* No connection is ever held by two live database objects.
THEOREM UniqueOwnershipHolds == Spec => []UniqueOwnership
  BY OwnershipInvariant, PTL DEF OwnershipInv

\* No live database object or native statement uses a closed connection.
THEOREM NoUseAfterCloseHolds == Spec => []NoUseAfterClose
  BY OwnershipInvariant, PTL DEF OwnershipInv

=============================================================================
