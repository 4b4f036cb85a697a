------------------------ MODULE OneShotTokensProofs ------------------------
(***************************************************************************)
(* Proofs about the abstract specification, for any number of tokens.      *)
(***************************************************************************)
EXTENDS OneShotTokens, TLAPS

\* A grant keeps TokenInv: the session it opens is a new one.
LEMMA GrantInv == ASSUME TokenInv, NEW t \in Token, Grant(t) PROVE TokenInv'
  <1> USE DEF TokenInv, Grant
  <1>1. TypeOK'
    BY DEF TypeOK, Status
  <1>2. SessionsGranted'
    BY DEF TypeOK, SessionsGranted
  <1>3. AtMostOneLive'
    BY DEF TypeOK, SessionsGranted, AtMostOneLive, Live
  <1> QED
    BY <1>1, <1>2, <1>3

\* A rotation keeps TokenInv: it spends the only live token of its session.
LEMMA RotateInv ==
    ASSUME TokenInv, NEW old \in Token, NEW new \in Token, Rotate(old, new)
    PROVE  TokenInv'
  <1> USE DEF TokenInv, Rotate
  <1>1. TypeOK'
    BY DEF TypeOK, Status
  <1>2. SessionsGranted'
    BY DEF TypeOK, SessionsGranted
  <1>3. AtMostOneLive'
    BY DEF TypeOK, SessionsGranted, AtMostOneLive, Live
  <1> QED
    BY <1>1, <1>2, <1>3

\* Spending tokens keeps TokenInv.
LEMMA SpendInv == ASSUME TokenInv, NEW S \in SUBSET Token, Spend(S) PROVE TokenInv'
  <1> USE DEF TokenInv, Spend
  <1>1. TypeOK'
    BY DEF TypeOK, Status
  <1>2. SessionsGranted'
    BY DEF TypeOK, SessionsGranted
  <1>3. AtMostOneLive'
    BY DEF TypeOK, AtMostOneLive, Live
  <1> QED
    BY <1>1, <1>2, <1>3

\* The promise keeps its invariant: one live token per session, for any
\* number of tokens and rotations.
THEOREM PromiseInvariant == Spec => []TokenInv
  <1>1. Init => TokenInv
    BY DEF Init, TokenInv, TypeOK, Status, SessionsGranted, AtMostOneLive, Live
  <1>2. TokenInv /\ [Next]_vars => TokenInv'
    <2> SUFFICES ASSUME TokenInv, [Next]_vars PROVE TokenInv'
      OBVIOUS
    <2>1. CASE UNCHANGED vars
      BY <2>1 DEF vars, TokenInv, TypeOK, SessionsGranted, AtMostOneLive, Live
    <2> QED
      BY <2>1, GrantInv, RotateInv, SpendInv DEF Next
  <1> QED
    BY <1>1, <1>2, PTL DEF Spec

\* No step revives a session that is over.
LEMMA NextOver ==
    ASSUME TokenInv, [Next]_vars, NEW s \in Token, Over(s)
    PROVE  Over(s)'
  <1> USE DEF TokenInv, Over, Live
  <1>1. ASSUME NEW t \in Token, Grant(t) PROVE Over(s)'
    BY <1>1 DEF Grant, TypeOK
  <1>2. ASSUME NEW old \in Token, NEW new \in Token, Rotate(old, new) PROVE Over(s)'
    BY <1>2 DEF Rotate, TypeOK
  <1>3. ASSUME NEW S \in SUBSET Token, Spend(S) PROVE Over(s)'
    BY <1>3 DEF Spend, TypeOK
  <1> QED
    BY <1>1, <1>2, <1>3 DEF Next, vars

\* A session whose tokens are all spent never has a live one again.
THEOREM OverForever == Spec => OverIsOver
  <1>1. TokenInv /\ [Next]_vars => [\A s \in Token : Over(s) => Over(s)']_vars
    BY NextOver
  <1> QED
    BY <1>1, PromiseInvariant, PTL DEF Spec, OverIsOver
=============================================================================
