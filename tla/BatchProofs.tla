----------------------------- MODULE BatchProofs -----------------------------
(***************************************************************************)
(* Proofs about Batch: every statement of the script runs once and in      *)
(* order (InOrderOnce), and execute_all() reports success only when the    *)
(* whole script ran (CompleteOnSuccess), for scripts of any length.        *)
(***************************************************************************)
EXTENDS Batch, WellFoundedInduction, TLAPS

\* execute_all() returns success only when execute_next() said that no text
\* is left, and then state_ is past the end of the script.
DoneAtEnd == rc = "ok" => pos = Len(script) + 1

\* The inductive invariant: InOrderOnce is inductive once the types are
\* known (pos inside the script, executed a sequence of its indices);
\* CompleteOnSuccess follows from it with DoneAtEnd.
IInv == TypeOK /\ InOrderOnce /\ DoneAtEnd

-----------------------------------------------------------------------------
(* Lemmas on the script and the tokenizer                                  *)

\* A nonempty set of naturals has a least element.
LEMMA LeastExists ==
    ASSUME NEW T \in SUBSET Nat, T # {}
    PROVE  \E x \in T : \A y \in T : x <= y
  <1>1. PICK x \in T : \A y \in T : ~(<<y, x>> \in OpToRel(<, Nat))
    BY NatLessThanWellFounded, WFMin
  <1>2. \A y \in T : ~(y < x)
    BY <1>1, Zenon DEF OpToRel
  <1> QED
    BY <1>2

\* A script is a sequence of tokens.
LEMMA ScriptIsSeq ==
    ASSUME NEW s \in Scripts
    PROVE  s \in Seq(Tokens)
  BY MaxScriptAssumption DEF Scripts

\* When the first token execute_next() finds at pos is a statement, it is
\* at an index k of the script, and everything between pos and k is a
\* comment.
LEMMA FirstTokenStmt ==
    ASSUME TypeOK, pos <= Len(script), TokenAt(FirstToken(pos)) = "stmt"
    PROVE  /\ FirstToken(pos) \in pos..Len(script)
           /\ script[FirstToken(pos)] = "stmt"
           /\ \A m \in pos..(FirstToken(pos) - 1) : script[m] = "comment"
  <1> DEFINE S == {i \in pos..Len(script) : script[i] # "comment"}
             k == FirstToken(pos)
  <1>1. script \in Seq(Tokens) /\ pos \in Nat
    BY ScriptIsSeq DEF TypeOK
  <1>2. S # {}
    BY <1>1 DEF FirstToken, TokenAt
  <1>3. \E i \in S : \A j \in S : i <= j
    <2>1. S \in SUBSET Nat
      BY <1>1
    <2> QED
      BY <1>2, <2>1, LeastExists
  <1>4. k \in S /\ \A j \in S : k <= j
    BY <1>2, <1>3 DEF FirstToken
  <1>5. script[k] = "stmt"
    BY <1>1, <1>4 DEF TokenAt
  <1> QED
    BY <1>1, <1>4, <1>5

-----------------------------------------------------------------------------
(* Lemmas on execute_next                                                  *)

\* One call of execute_next() either leaves state_ and the history alone or
\* runs the statement it finds first.
LEMMA EffectCases ==
    ASSUME TypeOK, NEW res, ExecuteNextEffect(res)
    PROVE  /\ ub' \in BOOLEAN
           /\ \/ UNCHANGED <<pos, executed>>
              \/ /\ pos <= Len(script)
                 /\ TokenAt(FirstToken(pos)) = "stmt"
                 /\ executed' = Append(executed, FirstToken(pos))
                 /\ pos' = FirstToken(pos) + 1
  <1>1. Len(script) \in Nat /\ pos \in Nat
    BY ScriptIsSeq DEF TypeOK
  <1>2. CASE pos > Len(script)
    BY <1>2 DEF ExecuteNextEffect, TypeOK
  <1>3. CASE pos <= Len(script)
    <2> DEFINE k == FirstToken(pos)
               t == TokenAt(k)
    <2>1. ub' = (ub \/ (owner = "caller" /\ ~callerAlive))
      BY <1>1, <1>3 DEF ExecuteNextEffect
    <2>2. \/ UNCHANGED <<pos, executed>>
          \/ /\ t = "stmt"
             /\ executed' = Append(executed, k)
             /\ pos' = k + 1
      BY <1>1, <1>3 DEF ExecuteNextEffect
    <2> QED
      BY <1>3, <2>1, <2>2 DEF TypeOK
  <1> QED
    BY <1>1, <1>2, <1>3

\* The elements of a sequence with x appended are its elements and x.
LEMMA ElemsAppend ==
    ASSUME NEW S, NEW sq \in Seq(S), NEW x
    PROVE  Elems(Append(sq, x)) = Elems(sq) \cup {x}
  <1>1. /\ DOMAIN sq = 1..Len(sq)
        /\ DOMAIN Append(sq, x) = 1..(Len(sq) + 1)
        /\ \A i \in 1..Len(sq) : Append(sq, x)[i] = sq[i]
        /\ Append(sq, x)[Len(sq) + 1] = x
    OBVIOUS
  <1> QED
    BY <1>1 DEF Elems

\* Appending to a strictly increasing sequence of numbers a number larger
\* than each of its elements keeps it strictly increasing.
LEMMA IncreasingAppend ==
    ASSUME NEW sq \in Seq(Int), NEW x \in Int,
           \A i, j \in DOMAIN sq : i < j => sq[i] < sq[j],
           \A j \in DOMAIN sq : sq[j] < x
    PROVE  \A i, j \in DOMAIN Append(sq, x) :
              i < j => Append(sq, x)[i] < Append(sq, x)[j]
  OBVIOUS

\* Running the first statement at pos keeps InOrderOnce: that statement
\* comes after every statement run so far.
LEMMA RunStep ==
    ASSUME IInv,
           NEW k \in pos..Len(script),
           script[k] = "stmt",
           \A m \in pos..(k - 1) : script[m] = "comment",
           executed' = Append(executed, k),
           pos' = k + 1,
           script' = script
    PROVE  /\ pos' \in 1..(Len(script') + 1)
           /\ executed' \in Seq(1..Len(script'))
           /\ InOrderOnce'
  <1>1. /\ k \in pos..Len(script)
        /\ script[k] = "stmt"
        /\ \A m \in pos..(k - 1) : script[m] = "comment"
    OBVIOUS
  <1>2. /\ script \in Seq(Tokens)
        /\ pos \in 1..(Len(script) + 1)
        /\ executed \in Seq(1..Len(script))
        /\ \A i, j \in DOMAIN executed : i < j => executed[i] < executed[j]
        /\ Elems(executed) = StmtsBefore(pos)
    BY ScriptIsSeq DEF IInv, TypeOK, InOrderOnce
  <1>3. \A j \in DOMAIN executed : executed[j] < k
    <2>1. \A j \in DOMAIN executed : executed[j] \in StmtsBefore(pos)
      BY <1>2, Zenon DEF Elems
    <2>2. \A x \in StmtsBefore(pos) : x < pos
      BY <1>2 DEF StmtsBefore
    <2> QED
      BY <1>1, <1>2, <2>1, <2>2
  <1>4. pos' \in 1..(Len(script') + 1) /\ executed' \in Seq(1..Len(script'))
    BY <1>1, <1>2
  <1>5. \A i, j \in DOMAIN executed' :
           i < j => executed'[i] < executed'[j]
    <2>1. executed \in Seq(Int) /\ k \in Int
      BY <1>1, <1>2
    <2> QED
      BY <1>2, <1>3, <2>1, IncreasingAppend
  <1>6. Elems(executed') = StmtsBefore(pos')
    <2>1. Elems(executed') = Elems(executed) \cup {k}
      BY <1>2, ElemsAppend
    <2>2. StmtsBefore(k + 1) = StmtsBefore(pos) \cup {k}
      BY <1>1, <1>2 DEF StmtsBefore
    <2> QED
      BY <1>2, <2>1, <2>2
  <1>9. StmtsBefore(pos)' = StmtsBefore(pos')
    BY DEF StmtsBefore
  <1> QED
    BY <1>4, <1>5, <1>6, <1>9 DEF InOrderOnce

\* One execute_next() keeps InOrderOnce and the types.
LEMMA EffectStep ==
    ASSUME IInv, NEW res, ExecuteNextEffect(res), script' = script
    PROVE  /\ pos' \in 1..(Len(script') + 1)
           /\ executed' \in Seq(1..Len(script'))
           /\ InOrderOnce'
           /\ ub' \in BOOLEAN
  <1>1. /\ ub' \in BOOLEAN
        /\ \/ UNCHANGED <<pos, executed>>
           \/ /\ pos <= Len(script)
              /\ TokenAt(FirstToken(pos)) = "stmt"
              /\ executed' = Append(executed, FirstToken(pos))
              /\ pos' = FirstToken(pos) + 1
    BY EffectCases DEF IInv
  <1>2. CASE UNCHANGED <<pos, executed>>
    BY <1>1, <1>2 DEF IInv, TypeOK, InOrderOnce, StmtsBefore, Elems
  <1>3. CASE /\ pos <= Len(script)
             /\ TokenAt(FirstToken(pos)) = "stmt"
             /\ executed' = Append(executed, FirstToken(pos))
             /\ pos' = FirstToken(pos) + 1
    <2>0. FirstToken(pos) \in pos..Len(script)
      BY <1>3, FirstTokenStmt DEF IInv
    <2>1. PICK k \in pos..Len(script) : k = FirstToken(pos)
      BY <2>0
    <2>2. /\ k \in pos..Len(script)
          /\ script[k] = "stmt"
          /\ \A m \in pos..(k - 1) : script[m] = "comment"
      BY <1>3, <2>1, FirstTokenStmt DEF IInv
    <2>3. executed' = Append(executed, k) /\ pos' = k + 1
      BY <1>3, <2>1
    <2> QED
      BY <1>1, <2>2, <2>3, RunStep
  <1> QED
    BY <1>1, <1>2, <1>3

\* When execute_next() returns false, no text is left: state_ is past the
\* end of the script, whether it was there already or the statement run was
\* the last one.
LEMMA EffectFalse ==
    ASSUME TypeOK, ExecuteNextEffect("false")
    PROVE  pos' = Len(script) + 1
  <1>1. Len(script) \in Nat /\ pos \in Nat
    BY ScriptIsSeq DEF TypeOK
  <1>2. CASE pos > Len(script)
    BY <1>1, <1>2 DEF ExecuteNextEffect, TypeOK
  <1>3. CASE pos <= Len(script)
    <2>1. /\ TokenAt(FirstToken(pos)) = "stmt"
          /\ pos' = FirstToken(pos) + 1
          /\ ~(FirstToken(pos) + 1 <= Len(script))
      BY <1>1, <1>3 DEF ExecuteNextEffect
    <2>2. FirstToken(pos) \in pos..Len(script)
      BY <1>3, <2>1, FirstTokenStmt
    <2> QED
      BY <1>1, <2>1, <2>2
  <1> QED
    BY <1>1, <1>2, <1>3

-----------------------------------------------------------------------------
(* The invariant                                                           *)

LEMMA InitIInv == Init => IInv
  <1> SUFFICES ASSUME Init PROVE IInv
    OBVIOUS
  <1>1. <<>> \in Scripts
    BY MaxScriptAssumption DEF Scripts
  <1>2. TypeOK
    <2>1. Len(script) = 0 /\ pos \in 1..(Len(script) + 1)
      BY DEF Init
    <2>2. executed \in Seq(1..Len(script))
      BY DEF Init
    <2> QED
      BY <1>1, <2>1, <2>2 DEF Init, TypeOK
  <1>3. StmtsBefore(pos) = {} /\ Elems(executed) = {}
    BY DEF Init, StmtsBefore, Elems
  <1>4. DOMAIN executed = {}
    BY DEF Init
  <1> QED
    BY <1>2, <1>3, <1>4 DEF Init, IInv, InOrderOnce, DoneAtEnd

LEMMA NextIInv == IInv /\ [Next]_vars => IInv'
  <1> SUFFICES ASSUME IInv, [Next]_vars PROVE IInv'
    OBVIOUS
  <1>1. CASE Prepare
    <2>1. PICK s \in Scripts, fcopy \in DOMAIN CopySemantic :
                 /\ script' = s
                 /\ owner' = IF s # <<>> /\ CopySemantic[fcopy] # 0
                             THEN "copy" ELSE "caller"
                 /\ released' = (fcopy = "copy")
      BY <1>1 DEF Prepare
    <2>2. s \in Seq(Tokens)
      BY ScriptIsSeq
    <2> QED
      BY <1>1, <2>1, <2>2
      DEF Prepare, IInv, TypeOK, InOrderOnce, DoneAtEnd, StmtsBefore, Elems
  <1>2. CASE FreeCallerText
    BY <1>2 DEF FreeCallerText, batchVars, IInv, TypeOK, InOrderOnce,
                DoneAtEnd, StmtsBefore, Elems
  <1>3. CASE Reset
    BY <1>3 DEF Reset, IInv, TypeOK, InOrderOnce, DoneAtEnd, StmtsBefore,
                Elems
  <1>4. CASE ExecuteNext
    <2>1. PICK res \in Results : ExecuteNextEffect(res) /\ rc' = res
      BY <1>4 DEF ExecuteNext
    <2>2. UNCHANGED <<script, owner, callerAlive, inAll, released>>
      BY <1>4 DEF ExecuteNext
    <2>3. DoneAtEnd'
      BY <2>1 DEF DoneAtEnd, Results
    <2> QED
      BY <2>1, <2>2, <2>3, EffectStep DEF IInv, TypeOK
  <1>5. CASE ExecuteAll
    BY <1>5 DEF ExecuteAll, IInv, TypeOK, InOrderOnce, DoneAtEnd,
                StmtsBefore, Elems
  <1>6. CASE inAll /\ ExecuteAllLoop
    <2>1. PICK res \in Results :
                 /\ ExecuteNextEffect(res)
                 /\ inAll' = (res = "true")
                 /\ rc' = CASE res = "true" -> "void"
                            [] res = "false" -> "ok"
                            [] OTHER -> res
      BY <1>6 DEF ExecuteAllLoop
    <2>2. UNCHANGED <<script, owner, callerAlive, released>>
      BY <1>6 DEF ExecuteAllLoop
    <2>3. rc' \in Results \cup {"void", "ok"}
      BY <2>1 DEF Results
    <2>4. DoneAtEnd'
      <3>1. CASE res = "false"
        <4>1. pos' = Len(script) + 1
          BY <2>1, <3>1, EffectFalse DEF IInv
        <4> QED
          BY <2>2, <4>1 DEF DoneAtEnd
      <3>2. CASE res # "false"
        <4>1. rc' # "ok"
          BY <2>1, <3>2 DEF Results
        <4> QED
          BY <4>1 DEF DoneAtEnd
      <3> QED
        BY <3>1, <3>2
    <2> QED
      BY <2>1, <2>2, <2>3, <2>4, EffectStep DEF IInv, TypeOK
  <1>7. CASE UNCHANGED vars
    BY <1>7 DEF vars, IInv, TypeOK, InOrderOnce, DoneAtEnd, StmtsBefore,
                Elems
  <1> QED
    BY <1>1, <1>2, <1>3, <1>4, <1>5, <1>6, <1>7 DEF Next


\* Every statement of every script runs once and in order: the sequence
\* of the statements batch::execute_next() has run (also from inside
\* execute_all()) increases and holds exactly the statements before state_.
THEOREM InOrderOnceHolds == Spec => []InOrderOnce
  <1>1. IInv => InOrderOnce
    BY DEF IInv
  <1> QED
    BY <1>1, InitIInv, NextIInv, PTL DEF Spec

\* Every reachable state of the batch is well typed: state_ stays inside
\* the script or just past it, and what has run are indices of the script.
THEOREM TypeCorrect == Spec => []TypeOK
  <1>1. IInv => TypeOK
    BY DEF IInv
  <1> QED
    BY <1>1, InitIInv, NextIInv, PTL DEF Spec

\* execute_all() reports success only when every statement of the script
\* has run: a step or compile error that stops its loop is returned, and
\* the loop ends without one only once no text is left.
THEOREM CompleteOnSuccessHolds == Spec => []CompleteOnSuccess
  <1>1. IInv => CompleteOnSuccess
    BY DEF IInv, InOrderOnce, DoneAtEnd, CompleteOnSuccess
  <1> QED
    BY <1>1, InitIInv, NextIInv, PTL DEF Spec

=============================================================================
