------------------------ MODULE TokenRotationProofs ------------------------
(***************************************************************************)
(* Proofs about TokenRotation, for every value of its constants: first for *)
(* any number of workers, then for the one that entrypoint.sh starts.      *)
(***************************************************************************)
EXTENDS TokenRotation, TLAPS

-----------------------------------------------------------------------------
(***************************************************************************)
(* Types                                                                   *)
(***************************************************************************)

\* TypeOK is inductive together with what a handler holds at its calls.
TypeInv == TypeOK /\ \A w \in Workers : CallState(w)

\* The idle request and the empty transaction have their types.
LEMMA EmptyTypes == NoRequest \in Request /\ NoWrites \in Writes
  BY DEF NoRequest, Request, Ops, Replies, NoWrites, Writes

\* The next call and request of one worker: r and s fit together.
Fits(r, s) ==
    /\ r \in Request /\ s \in Steps
    /\ s \in {"exists", "insert_user"} => r.op = "register" /\ r.email \in Emails
    /\ s = "by_email" => r.op = "login" /\ r.email \in Emails
    /\ s \in {"by_jti", "owner"} => r.op = "refresh"
    /\ s \in {"revoke", "update"} => r.op \in {"refresh", "logout"}
    /\ s = "issue" => r.op \in {"register", "login", "refresh"}
    /\ r.op \in {"refresh", "logout"} => r.jti \in Jtis

\* A worker that moves to a fitting call and request keeps TypeInv's part
\* about workers.
LEMMA WorkerMoves ==
    ASSUME TypeInv, NEW w \in Workers, NEW r, NEW s, Fits(r, s),
           req' = [req EXCEPT ![w] = r], pc' = [pc EXCEPT ![w] = s]
    PROVE  /\ req' \in [Workers -> Request]
           /\ pc' \in [Workers -> Steps]
           /\ \A v \in Workers : CallState(v)'
  <1>1. req' \in [Workers -> Request] /\ pc' \in [Workers -> Steps]
    BY DEF TypeInv, TypeOK, Fits
  <1>2. ASSUME NEW v \in Workers PROVE CallState(v)'
    <2>1. CASE v = w
      <3>1. req'[v] = r /\ pc'[v] = s
        BY <2>1 DEF TypeInv, TypeOK
      <3> QED
        BY <3>1 DEF Fits, CallState
    <2>2. CASE v # w
      <3>1. req'[v] = req[v] /\ pc'[v] = pc[v]
        BY <2>2 DEF TypeInv, TypeOK
      <3> QED
        BY <3>1 DEF TypeInv, CallState
    <2> QED
      BY <2>1, <2>2
  <1> QED
    BY <1>1, <1>2

\* A worker at a call has a fitting request.
LEMMA WorkerFits ==
    ASSUME TypeInv, NEW w \in Workers
    PROVE  Fits(req[w], pc[w]) /\ tx[w] \in Writes
  BY DEF TypeInv, TypeOK, CallState, Fits

\* A reply keeps the worker's part of TypeInv.
LEMMA AnswerType ==
    ASSUME TypeInv, NEW w \in Workers, NEW x \in Replies, Answer(w, x)
    PROVE  /\ req' \in [Workers -> Request]
           /\ pc' \in [Workers -> Steps]
           /\ \A v \in Workers : CallState(v)'
  <1> DEFINE r == [req[w] EXCEPT !.reply = x]
  <1>1. r \in Request /\ r.op = req[w].op /\ r.jti = req[w].jti
    BY WorkerFits DEF Fits, Request
  <1>2. Fits(r, "teardown")
    BY <1>1, WorkerFits DEF Fits, Steps
  <1>3. req' = [req EXCEPT ![w] = r] /\ pc' = [pc EXCEPT ![w] = "teardown"]
    BY DEF Answer, Goto
  <1> QED
    BY <1>2, <1>3, WorkerMoves

\* An error keeps TypeInv.
LEMMA FailType ==
    ASSUME TypeInv, NEW w \in Workers, Fail(w)
    PROVE  TypeInv'
  <1> DEFINE r == [req[w] EXCEPT !.reply = "INTERNAL_ERROR", !.out = NoJti]
  <1>1. r \in Request /\ r.op = req[w].op /\ r.jti = req[w].jti
    BY WorkerFits DEF Fits, Request, Replies
  <1>2. Fits(r, "teardown")
    BY <1>1, WorkerFits DEF Fits, Steps
  <1>3. req' = [req EXCEPT ![w] = r] /\ pc' = [pc EXCEPT ![w] = "teardown"]
    BY DEF Fail, Goto
  <1>4. tx' \in [Workers -> Writes]
    BY EmptyTypes DEF Fail, TypeInv, TypeOK
  <1> HIDE DEF r
  <1>5. /\ req' \in [Workers -> Request]
        /\ pc' \in [Workers -> Steps]
        /\ \A v \in Workers : CallState(v)'
    BY <1>2, <1>3, WorkerMoves
  <1> QED
    BY <1>4, <1>5 DEF Fail, Goto, TypeInv, TypeOK, store, claims, history

\* A worker that only moves to another call of the same handler keeps the
\* worker's part of TypeInv.
LEMMA GotoType ==
    ASSUME TypeInv, NEW w \in Workers, NEW s, Fits(req[w], s), Goto(w, s), UNCHANGED req
    PROVE  /\ req' \in [Workers -> Request]
           /\ pc' \in [Workers -> Steps]
           /\ \A v \in Workers : CallState(v)'
  <1>1. req' = [req EXCEPT ![w] = req[w]]
    BY DEF TypeInv, TypeOK
  <1> QED
    BY <1>1, WorkerMoves DEF Goto

\* A client's request keeps TypeInv.
LEMMA StartType ==
    ASSUME TypeInv, NEW w \in Workers, Start(w)
    PROVE  TypeInv'
  <1> USE DEF store, claims, history
  <1>1. ASSUME NEW e \in Emails, StartRegister(w, e) \/ StartLogin(w, e)
        PROVE  TypeInv'
    <2>1. PICK op \in {"register", "login"}, s \in {"exists", "by_email"} :
              /\ op = "register" <=> s = "exists"
              /\ req' = [req EXCEPT ![w] = [NoRequest EXCEPT !.op = op, !.email = e]]
              /\ pc' = [pc EXCEPT ![w] = s]
      BY <1>1 DEF StartRegister, StartLogin, Goto
    <2> DEFINE r == [NoRequest EXCEPT !.op = op, !.email = e]
    <2>2. Fits(r, s)
      BY <2>1 DEF Fits, NoRequest, Request, Ops, Replies, Steps
    <2> HIDE DEF r
    <2>3. /\ req' \in [Workers -> Request]
          /\ pc' \in [Workers -> Steps]
          /\ \A v \in Workers : CallState(v)'
      BY <2>1, <2>2, WorkerMoves DEF r
    <2> QED
      BY <1>1, <2>3 DEF StartRegister, StartLogin, Goto, TypeInv, TypeOK
  <1>2. ASSUME NEW j \in handed, StartRefresh(w, j) \/ StartLogout(w, j)
        PROVE  TypeInv'
    <2>1. PICK op \in {"refresh", "logout"}, x \in Replies, s \in {"by_jti", "revoke", "teardown"} :
              /\ req' = [req EXCEPT ![w] = [NoRequest EXCEPT !.op = op, !.jti = j, !.reply = x]]
              /\ pc' = [pc EXCEPT ![w] = s]
              /\ s = "by_jti" => op = "refresh"
      BY <1>2 DEF StartRefresh, StartLogout, Goto, Replies
    <2> DEFINE r == [NoRequest EXCEPT !.op = op, !.jti = j, !.reply = x]
    <2>2. j \in Jtis
      BY DEF TypeInv, TypeOK
    <2>3. Fits(r, s)
      BY <2>1, <2>2 DEF Fits, NoRequest, Request, Ops, Steps
    <2> HIDE DEF r
    <2>4. /\ req' \in [Workers -> Request]
          /\ pc' \in [Workers -> Steps]
          /\ \A v \in Workers : CallState(v)'
      BY <2>1, <2>3, WorkerMoves DEF r
    <2> QED
      BY <1>2, <2>4 DEF StartRefresh, StartLogout, Goto, TypeInv, TypeOK
  <1> QED
    BY <1>1, <1>2 DEF Start

\* Creating an account keeps TypeInv.
LEMMA CreateUserType ==
    ASSUME TypeInv, NEW w \in Workers, CreateUser(w)
    PROVE  TypeInv'
  <1> USE DEF store, claims, history
  <1>1. CASE Fail(w)
    BY <1>1, FailType
  <1>2. CASE ~Fail(w)
    <2>1. PICK u \in Users :
            /\ req' = [req EXCEPT ![w].user = u]
            /\ \/ /\ tx' = [tx EXCEPT ![w].user = u]
                  /\ UNCHANGED <<userRow, byEmail>>
               \/ /\ userRow' = [userRow EXCEPT ![u] = "present"]
                  /\ byEmail' = [byEmail EXCEPT ![req[w].email] = u]
                  /\ UNCHANGED tx
      BY <1>2 DEF CreateUser, CreateUserSql, CreateUserMemory, FreshUsers
    <2>2. pc' = [pc EXCEPT ![w] = "issue"] /\ UNCHANGED <<backend, tok, claims, expired, history>>
      BY <1>2 DEF CreateUser, CreateUserSql, CreateUserMemory, Goto
    <2> DEFINE r == [req[w] EXCEPT !.user = u]
    <2>3. pc[w] = "insert_user" /\ req[w] \in Request /\ tx[w] \in Writes
      BY WorkerFits DEF CreateUser, Fits
    <2>4. r \in Request /\ r.user = u /\ r.op = req[w].op /\ r.jti = req[w].jti
      BY <2>3 DEF Request
    <2>5. Fits(r, "issue")
      BY <2>3, <2>4, WorkerFits DEF Fits, Steps
    <2>6. [tx[w] EXCEPT !.user = u] \in Writes
      BY <2>3 DEF Writes
    <2>7. tx' \in [Workers -> Writes]
      BY <2>1, <2>6 DEF TypeInv, TypeOK
    <2>8. userRow' \in [Users -> {"absent", "present", "deleted"}]
          /\ byEmail' \in [Emails -> Users \cup {NoUser}]
      BY <2>1 DEF TypeInv, TypeOK
    <2>9. req' = [req EXCEPT ![w] = r]
      BY <2>1
    <2> HIDE DEF r
    <2>10. /\ req' \in [Workers -> Request]
           /\ pc' \in [Workers -> Steps]
           /\ \A v \in Workers : CallState(v)'
      BY <2>2, <2>5, <2>9, WorkerMoves
    <2> QED
      BY <2>2, <2>7, <2>8, <2>10 DEF TypeInv, TypeOK
  <1> QED
    BY <1>1, <1>2

\* Minting a token keeps TypeInv.
LEMMA IssueTokensType ==
    ASSUME TypeInv, NEW w \in Workers, IssueTokens(w)
    PROVE  TypeInv'
  <1> USE DEF store, claims, history
  <1>1. PICK j \in Jtis :
            /\ owner' = [owner EXCEPT ![j] = req[w].user]
            /\ family' = [family EXCEPT ![j] = Session(w, j)]
            /\ \/ /\ tx' = [tx EXCEPT ![w].created = @ \cup {j}]
                  /\ UNCHANGED tok
               \/ /\ tok' = [tok EXCEPT ![j] = "live"]
                  /\ UNCHANGED tx
            /\ req' = [req EXCEPT ![w] = [@ EXCEPT !.out = j, !.reply = "tokens"]]
    BY DEF IssueTokens, FreshJtis
  <1> DEFINE r == [req[w] EXCEPT !.out = j, !.reply = "tokens"]
  <1>2. req[w] \in Request /\ tx[w] \in Writes /\ req[w].user \in Users \cup {NoUser}
    BY WorkerFits DEF IssueTokens, Fits, Request
  <1>3. r \in Request /\ r.op = req[w].op /\ r.jti = req[w].jti
    BY <1>2 DEF Request, Replies
  <1>4. Fits(r, "teardown")
    BY <1>3, WorkerFits DEF Fits, Steps
  <1>5. [tx[w] EXCEPT !.created = @ \cup {j}] \in Writes
    BY <1>2 DEF Writes
  <1>6. tx' \in [Workers -> Writes] /\ tok' \in [Jtis -> TokenRow]
    BY <1>1, <1>5 DEF TypeInv, TypeOK, TokenRow
  <1>7. Session(w, j) \in Jtis \cup {NoJti}
    BY WorkerFits DEF Session, TypeInv, TypeOK, Fits
  <1>8. /\ owner' \in [Jtis -> Users \cup {NoUser}]
        /\ family' \in [Jtis -> Jtis \cup {NoJti}]
    BY <1>1, <1>2, <1>7 DEF TypeInv, TypeOK
  <1>9. /\ req' = [req EXCEPT ![w] = r]
        /\ pc' = [pc EXCEPT ![w] = "teardown"]
        /\ UNCHANGED backend
    BY <1>1 DEF IssueTokens, Goto
  <1> HIDE DEF r
  <1>10. /\ req' \in [Workers -> Request]
         /\ pc' \in [Workers -> Steps]
         /\ \A v \in Workers : CallState(v)'
    BY <1>4, <1>9, WorkerMoves
  <1> QED
    BY <1>6, <1>8, <1>9, <1>10 DEF IssueTokens, TypeInv, TypeOK

\* Reading the user by e-mail or by the row's user_id keeps TypeInv.
LEMMA ReadUserType ==
    ASSUME TypeInv, NEW w \in Workers, GetByEmail(w) \/ GetOwner(w)
    PROVE  TypeInv'
  <1> USE DEF store, claims, history
  <1>1. UNCHANGED <<backend, store, claims, expired, history, tx>>
    BY DEF GetByEmail, GetOwner, Answer, Goto
  <1>2. CASE \E x \in Replies : Answer(w, x)
    BY <1>1, <1>2, AnswerType DEF TypeInv, TypeOK
  <1>3. CASE ~ \E x \in Replies : Answer(w, x)
    <2>1. ~Answer(w, "INVALID_CREDENTIALS") /\ ~Answer(w, "TOKEN_INVALID")
      BY <1>3 DEF Replies
    <2>2. PICK u : /\ req' = [req EXCEPT ![w].user = u]
                   /\ pc' = [pc EXCEPT ![w] = "issue"]
                   /\ \/ /\ pc[w] = "by_email"
                         /\ u = byEmail[req[w].email]
                         /\ u # NoUser
                      \/ /\ pc[w] = "owner"
                         /\ u = owner[req[w].jti]
                         /\ userRow[u] = "present"
      BY <2>1 DEF GetByEmail, GetOwner, Goto
    <2>3. u \in Users \cup {NoUser}
      BY <2>2, WorkerFits DEF Fits, TypeInv, TypeOK
    <2> DEFINE r == [req[w] EXCEPT !.user = u]
    <2>4. r \in Request /\ r.op = req[w].op /\ r.jti = req[w].jti
      BY <2>3, WorkerFits DEF Fits, Request
    <2>5. Fits(r, "issue")
      BY <2>2, <2>4, WorkerFits DEF Fits, Steps
    <2>6. req' = [req EXCEPT ![w] = r]
      BY <2>2
    <2> HIDE DEF r
    <2>7. /\ req' \in [Workers -> Request]
          /\ pc' \in [Workers -> Steps]
          /\ \A v \in Workers : CallState(v)'
      BY <2>2, <2>5, <2>6, WorkerMoves
    <2> QED
      BY <1>1, <2>7 DEF TypeInv, TypeOK
  <1> QED
    BY <1>2, <1>3

\* The revocation keeps TypeInv.
LEMMA RevokeType ==
    ASSUME TypeInv, NEW w \in Workers,
           RevokeSelect(w) \/ RevokeUpdate(w) \/ RevokeMemory(w)
    PROVE  TypeInv'
  <1> USE DEF store, claims, history
  <1>1. ASSUME AfterRevoke(w)
        PROVE  /\ req' \in [Workers -> Request]
               /\ pc' \in [Workers -> Steps]
               /\ \A v \in Workers : CallState(v)'
    <2>1. CASE Answer(w, "no_content")
      BY <2>1, AnswerType DEF Replies
    <2>2. CASE req[w].op = "refresh" /\ Goto(w, "owner") /\ UNCHANGED req
      <3>1. Fits(req[w], "owner")
        BY <2>2, WorkerFits DEF Fits, Steps
      <3> QED
        BY <2>2, <3>1, GotoType
    <2> QED
      BY <1>1, <2>1, <2>2 DEF AfterRevoke
  <1>2. CASE RevokeSelect(w)
    <2>1. CASE AfterRevoke(w)
      BY <1>1, <1>2, <2>1 DEF RevokeSelect, AfterRevoke, Answer, Goto, TypeInv, TypeOK
    <2>2. CASE Goto(w, "update") /\ UNCHANGED req
      <3>1. Fits(req[w], "update")
        BY <1>2, WorkerFits DEF RevokeSelect, Fits, Steps
      <3>2. /\ req' \in [Workers -> Request]
            /\ pc' \in [Workers -> Steps]
            /\ \A v \in Workers : CallState(v)'
        BY <2>2, <3>1, GotoType
      <3> QED
        BY <1>2, <2>2, <3>2 DEF RevokeSelect, Goto, TypeInv, TypeOK
    <2> QED
      BY <1>2, <2>1, <2>2 DEF RevokeSelect
  <1>3. CASE RevokeUpdate(w)
    <2>1. req[w].jti \in Jtis /\ tx[w] \in Writes
      BY <1>3, WorkerFits DEF RevokeUpdate, Fits
    <2>2. [tx[w] EXCEPT !.revoked = @ \cup {req[w].jti}] \in Writes
      BY <2>1 DEF Writes
    <2>3. tx' \in [Workers -> Writes]
      BY <1>3, <2>2 DEF RevokeUpdate, TypeInv, TypeOK
    <2> QED
      BY <1>1, <1>3, <2>3 DEF RevokeUpdate, AfterRevoke, Answer, Goto, TypeInv, TypeOK
  <1>4. CASE RevokeMemory(w)
    <2>1. tok' \in [Jtis -> TokenRow]
      BY <1>4 DEF RevokeMemory, TypeInv, TypeOK, TokenRow
    <2> QED
      BY <1>1, <1>4, <2>1 DEF RevokeMemory, AfterRevoke, Answer, Goto, TypeInv, TypeOK
  <1> QED
    BY <1>2, <1>3, <1>4

\* The checks at the head of register and refresh keep TypeInv.
LEMMA CheckType ==
    ASSUME TypeInv, NEW w \in Workers, ExistsByEmail(w) \/ GetByJti(w)
    PROVE  TypeInv'
  <1>1. UNCHANGED <<backend, store, claims, expired, history, tx>>
    BY DEF ExistsByEmail, GetByJti, Answer, Goto
  <1>2. /\ req' \in [Workers -> Request]
        /\ pc' \in [Workers -> Steps]
        /\ \A v \in Workers : CallState(v)'
    <2>1. CASE Answer(w, "EMAIL_TAKEN") \/ Answer(w, "TOKEN_INVALID")
      BY <2>1, AnswerType DEF Replies
    <2>2. CASE ExistsByEmail(w) /\ Goto(w, "insert_user") /\ UNCHANGED req
      <3>1. Fits(req[w], "insert_user")
        BY <2>2, WorkerFits DEF ExistsByEmail, Fits, Steps
      <3> QED
        BY <2>2, <3>1, GotoType
    <2>3. CASE GetByJti(w) /\ Goto(w, "revoke") /\ UNCHANGED req
      <3>1. Fits(req[w], "revoke")
        BY <2>3, WorkerFits DEF GetByJti, Fits, Steps
      <3> QED
        BY <2>3, <3>1, GotoType
    <2> QED
      BY <2>1, <2>2, <2>3 DEF ExistsByEmail, GetByJti
  <1> QED
    BY <1>1, <1>2 DEF TypeInv, TypeOK, store, claims, history

\* The end of a request, answered or not, committed or not, keeps TypeInv.
LEMMA FinishType ==
    ASSUME TypeInv, NEW w \in Workers,
           Teardown(w) \/ TeardownCommitFails(w) \/ ReplyLost(w) \/ Crash(w)
    PROVE  TypeInv'
  <1> USE DEF store, claims, history
  <1>1. Finish(w)
    BY DEF Teardown, TeardownCommitFails, ReplyLost, Crash
  <1>2. Fits(NoRequest, "idle")
    BY EmptyTypes DEF Fits, NoRequest, Steps
  <1>3. /\ req' \in [Workers -> Request]
        /\ pc' \in [Workers -> Steps]
        /\ \A v \in Workers : CallState(v)'
    BY <1>1, <1>2, WorkerMoves DEF Finish, Goto
  <1>4. tx' \in [Workers -> Writes]
    BY <1>1, EmptyTypes DEF Finish, TypeInv, TypeOK
  <1>5. handed' \in SUBSET Jtis /\ loggedOut' \in SUBSET Jtis
    <2>1. CASE UNCHANGED history
      BY <2>1 DEF TypeInv, TypeOK
    <2>2. CASE Deliver(w)
      <3>1. req[w].op = "logout" => req[w].jti \in Jtis
        BY WorkerFits DEF Fits
      <3> QED
        BY <2>2, <3>1 DEF Deliver, TypeInv, TypeOK
    <2> QED
      BY <2>1, <2>2 DEF Teardown, TeardownCommitFails, ReplyLost, Crash
  <1>6. /\ userRow' \in [Users -> {"absent", "present", "deleted"}]
        /\ byEmail' \in [Emails -> Users \cup {NoUser}]
        /\ tok' \in [Jtis -> TokenRow]
    <2>1. CASE UNCHANGED store
      BY <2>1 DEF TypeInv, TypeOK
    <2>2. CASE Commit(w)
      BY <2>2, WorkerFits DEF Commit, TypeInv, TypeOK, TokenRow, Writes
    <2> QED
      BY <2>1, <2>2 DEF Teardown, TeardownCommitFails, ReplyLost, Crash
  <1> QED
    BY <1>1, <1>3, <1>4, <1>5, <1>6 DEF Finish, Goto, TypeInv, TypeOK

\* Every step keeps TypeInv.
LEMMA NextType == TypeInv /\ [Next]_vars => TypeInv'
  <1> SUFFICES ASSUME TypeInv, [Next]_vars PROVE TypeInv'
    OBVIOUS
  <1> USE DEF store, claims, history
  <1>1. ASSUME NEW w \in Workers, Start(w) PROVE TypeInv'
    BY <1>1, StartType
  <1>2. ASSUME NEW w \in Workers, Step(w) PROVE TypeInv'
    BY <1>2, CheckType, CreateUserType, ReadUserType, IssueTokensType, FailType,
       RevokeType, FinishType DEF Step, IssueTokensFails, RevokeUpdateFails
  <1>3. ASSUME NEW w \in Workers, Fault(w) PROVE TypeInv'
    BY <1>3, FinishType, FailType DEF Fault, StatementFails
  <1>4. ASSUME NEW j \in handed, Expire(j) PROVE TypeInv'
    BY <1>4 DEF Expire, TypeInv, TypeOK, CallState
  <1>5. ASSUME NEW u \in Users, DeleteUser(u) PROVE TypeInv'
    <2>1. /\ userRow' \in [Users -> {"absent", "present", "deleted"}]
          /\ byEmail' \in [Emails -> Users \cup {NoUser}]
          /\ tok' \in [Jtis -> TokenRow]
      BY <1>5 DEF DeleteUser, TypeInv, TypeOK, TokenRow
    <2> QED
      BY <1>5, <2>1 DEF DeleteUser, TypeInv, TypeOK, CallState
  <1>6. CASE UNCHANGED vars
    BY <1>6 DEF vars, TypeInv, TypeOK, CallState
  <1> QED
    BY <1>1, <1>2, <1>3, <1>4, <1>5, <1>6 DEF Next

\* The initial state satisfies TypeInv.
LEMMA InitType == Init => TypeInv
  BY EmptyTypes DEF Init, TypeInv, TypeOK, CallState, NoRequest, TokenRow, Steps

LEMMA TypeInvariance == Spec => []TypeInv
  BY InitType, NextType, PTL DEF Spec

\* Type correctness: rows, requests and transactions always have their types,
\* for any number of workers, on either backend, under every failure.
THEOREM TypeCorrect == Spec => []TypeOK
  <1>1. TypeInv => TypeOK
    BY DEF TypeInv
  <1> QED
    BY <1>1, TypeInvariance, PTL

-----------------------------------------------------------------------------
(***************************************************************************)
(* Uncommitted writes, for any number of workers                           *)
(***************************************************************************)

\* A step of worker w leaves the backend and the other workers as they are.
Others(w) ==
    /\ backend' = backend
    /\ \A v \in Workers \ {w} : req'[v] = req[v] /\ pc'[v] = pc[v] /\ tx'[v] = tx[v]

LEMMA OthersWait ==
    ASSUME TypeInv, NEW w \in Workers, Start(w) \/ Step(w) \/ Fault(w)
    PROVE  Others(w)
  <1> USE DEF Others, TypeInv, TypeOK, Goto, Answer, store, claims, history
  <1>1. CASE Start(w)
    BY <1>1 DEF Start, StartRegister, StartLogin, StartRefresh, StartLogout
  <1>2. CASE Fail(w)
    BY <1>2 DEF Fail
  <1>3. CASE ExistsByEmail(w) \/ GetByEmail(w) \/ GetByJti(w) \/ GetOwner(w)
    BY <1>3 DEF ExistsByEmail, GetByEmail, GetByJti, GetOwner
  <1>4. CASE CreateUser(w)
    BY <1>2, <1>4 DEF CreateUser, CreateUserSql, CreateUserMemory
  <1>5. CASE IssueTokens(w)
    BY <1>5 DEF IssueTokens
  <1>6. CASE RevokeSelect(w) \/ RevokeUpdate(w) \/ RevokeMemory(w)
    BY <1>6 DEF RevokeSelect, RevokeUpdate, RevokeMemory, AfterRevoke
  <1>7. CASE Teardown(w) \/ TeardownCommitFails(w) \/ ReplyLost(w) \/ Crash(w)
    BY <1>7 DEF Teardown, TeardownCommitFails, ReplyLost, Crash, Finish
  <1> QED
    BY <1>1, <1>2, <1>3, <1>4, <1>5, <1>6, <1>7
       DEF Step, Fault, IssueTokensFails, RevokeUpdateFails, StatementFails

\* A step of w that touches only its own call and request keeps WritesInv.
LEMMA QuietWrites ==
    ASSUME TypeInv, WritesInv, NEW w \in Workers, Others(w),
           UNCHANGED <<store, claims, history, tx>>,
           req'[w].out = req[w].out,
           tx[w].user # NoUser => req'[w].email = req[w].email,
           HandlerState(w)'
    PROVE  WritesInv'
  <1> USE DEF store, claims, history
  <1>1. \A v \in Workers : req'[v].out = req[v].out
    BY DEF Others
  <1>2. \A v \in Workers : tx[v].user # NoUser => req'[v].email = req[v].email
    BY DEF Others
  <1>3. ASSUME NEW v \in Workers PROVE TokenWrites(v)'
    BY <1>1 DEF WritesInv, TokenWrites, Minted, HasRow
  <1>4. ASSUME NEW v \in Workers PROVE UserWrites(v)'
    BY <1>2 DEF WritesInv, UserWrites
  <1>5. ASSUME NEW v \in Workers PROVE HandlerState(v)'
    BY DEF Others, WritesInv, HandlerState, CallState, Sql
  <1> QED
    BY <1>3, <1>4, <1>5 DEF WritesInv, Minted

\* A registration or a login is neither a refresh nor a logout.
LEMMA StartedAccount ==
    ASSUME TypeInv, NEW w \in Workers, NEW e \in Emails,
           StartRegister(w, e) \/ StartLogin(w, e)
    PROVE  req'[w].out = NoJti /\ req'[w].op \notin {"refresh", "logout"}
  <1> USE DEF NoRequest
  <1> DOMAIN req = Workers
    BY DEF TypeInv, TypeOK
  <1>1. CASE StartRegister(w, e)
    BY <1>1 DEF StartRegister
  <1>2. CASE StartLogin(w, e)
    BY <1>2 DEF StartLogin
  <1> QED
    BY <1>1, <1>2

\* A request starts with nothing minted, and with a token that was handed out.
LEMMA StartedRequest ==
    ASSUME TypeInv, NEW w \in Workers, Start(w)
    PROVE  /\ req'[w].out = NoJti
           /\ req'[w].op \in {"refresh", "logout"} => req'[w].jti \in handed
  <1> USE DEF NoRequest
  <1> DOMAIN req = Workers
    BY DEF TypeInv, TypeOK
  <1>1. ASSUME NEW j \in handed, StartRefresh(w, j) \/ StartLogout(w, j)
        PROVE  req'[w].out = NoJti /\ req'[w].jti = j
    <2>1. CASE StartRefresh(w, j)
      BY <2>1 DEF StartRefresh
    <2>2. CASE StartLogout(w, j)
      BY <2>2 DEF StartLogout
    <2> QED
      BY <1>1, <2>1, <2>2
  <1> QED
    BY <1>1, StartedAccount DEF Start

\* Clients' requests and the reading calls keep WritesInv.
LEMMA ReadsKeepWrites ==
    ASSUME TypeInv, WritesInv, TypeInv', NEW w \in Workers, Others(w),
           \/ Start(w) \/ ExistsByEmail(w) \/ GetByEmail(w) \/ GetByJti(w)
           \/ RevokeSelect(w) \/ GetOwner(w)
    PROVE  WritesInv'
  <1> USE DEF Goto, Answer
  <1> CallState(w)'
    BY DEF TypeInv
  <1> TypeOK /\ HandlerState(w)
    BY DEF TypeInv, WritesInv
  <1>1. CASE Start(w)
    <2>1. UNCHANGED <<store, claims, history, tx>> /\ pc[w] = "idle" /\ pc'[w] # "issue"
      BY <1>1 DEF Start, StartRegister, StartLogin, StartRefresh, StartLogout, TypeOK
    <2>2. req'[w].out = NoJti
      BY <1>1, StartedRequest
    <2>3. req[w].out = NoJti /\ tx[w] = NoWrites
      BY <2>1 DEF HandlerState
    <2>4. req'[w].op \in {"refresh", "logout"} => req'[w].jti \in handed
      BY <1>1, StartedRequest
    <2>5. HandlerState(w)'
      BY <2>1, <2>2, <2>3, <2>4 DEF HandlerState, NoWrites, history, Others, Sql
    <2> QED
      BY <2>1, <2>2, <2>3, <2>5, QuietWrites DEF NoWrites
  <1>2. CASE ~Start(w)
    <2>1. UNCHANGED <<store, claims, history, tx>>
      BY <1>2 DEF ExistsByEmail, GetByEmail, GetByJti, RevokeSelect, GetOwner
    <2>2. /\ req'[w].out = req[w].out
          /\ req'[w].email = req[w].email
          /\ req'[w].jti = req[w].jti
          /\ req'[w].op = req[w].op
          /\ pc[w] \notin {"idle", "teardown"}
          /\ pc'[w] \notin {"idle", "exists"}
          /\ pc'[w] = "insert_user" => pc[w] = "exists"
      BY <1>2 DEF ExistsByEmail, GetByEmail, GetByJti, RevokeSelect, GetOwner, AfterRevoke,
                  TypeOK, Request
    <2>3. pc'[w] = "issue" => req'[w].user \in Users
      <3>1. CASE GetByEmail(w)
        BY <3>1 DEF GetByEmail, HandlerState, CallState, TypeOK, Request
      <3>2. CASE GetOwner(w)
        <4>1. req[w].jti \in handed
          BY <3>2 DEF GetOwner, HandlerState, CallState
        <4>2. owner[req[w].jti] \in Users
          BY <4>1 DEF WritesInv, Minted, TypeOK
        <4> QED
          BY <3>2, <4>2 DEF GetOwner, TypeOK, Request
      <3> QED
        BY <1>2, <3>1, <3>2 DEF ExistsByEmail, GetByJti, RevokeSelect, AfterRevoke, TypeOK
    <2>4. HandlerState(w)'
      BY <2>1, <2>2, <2>3 DEF HandlerState, history, Others, Sql
    <2> QED
      BY <2>1, <2>2, <2>4, QuietWrites
  <1> QED
    BY <1>1, <1>2

\* An error, which rolls the transaction back, keeps WritesInv.
LEMMA FailKeepsWrites ==
    ASSUME TypeInv, WritesInv, TypeInv', NEW w \in Workers, Others(w), Fail(w)
    PROVE  WritesInv'
  <1> USE DEF store, claims, history
  <1>1. /\ req'[w].out = NoJti /\ req'[w].op = req[w].op /\ req'[w].jti = req[w].jti
        /\ pc'[w] = "teardown" /\ tx'[w] = NoWrites
    BY DEF Fail, Goto, TypeInv, TypeOK, Request
  <1>2. UNCHANGED <<userRow, byEmail, tok, owner, family, handed, loggedOut>>
    BY DEF Fail
  <1>3. ASSUME NEW v \in Workers PROVE TokenWrites(v)'
    BY <1>1, <1>2 DEF WritesInv, TokenWrites, Minted, HasRow, Others, NoWrites
  <1>4. ASSUME NEW v \in Workers PROVE UserWrites(v)'
    BY <1>1, <1>2 DEF WritesInv, UserWrites, Others, NoWrites
  <1>5. HandlerState(w)'
    BY <1>1, <1>2 DEF HandlerState, TypeInv, WritesInv, Others, Sql
  <1>6. ASSUME NEW v \in Workers \ {w} PROVE HandlerState(v)'
    BY <1>2, <1>6 DEF Others, WritesInv, HandlerState, CallState, Sql
  <1> QED
    BY <1>2, <1>3, <1>4, <1>5, <1>6 DEF WritesInv, Minted


\* Before it mints a token, a handler has no row to create.
LEMMA NothingCreated ==
    ASSUME TypeInv, WritesInv, NEW w \in Workers, pc[w] # "teardown"
    PROVE  tx[w].created = {}
  <1>1. req[w].out = NoJti /\ tx[w].created \subseteq {req[w].out}
    BY DEF WritesInv, HandlerState, TokenWrites
  <1>2. tx[w].created \subseteq Jtis
    BY DEF TypeInv, TypeOK, Writes
  <1> QED
    BY <1>1, <1>2, ConstantsAssumption

\* On the memory backend there are no uncommitted writes.
LEMMA MemoryWrites ==
    ASSUME WritesInv, ~Sql, NEW w \in Workers
    PROVE  tx[w].user = NoUser /\ tx[w].revoked = {} /\ tx[w].created = {}
  BY DEF WritesInv, HandlerState, NoWrites

\* The INSERT of a user keeps WritesInv: the UNIQUE constraint, or the wait
\* for another uncommitted user of the same e-mail, protects the index.
LEMMA CreateUserKeepsWrites ==
    ASSUME TypeInv, WritesInv, TypeInv', NEW w \in Workers, Others(w), CreateUser(w)
    PROVE  WritesInv'
  <1> USE DEF claims, history
  <1>1. pc[w] = "insert_user" /\ req[w].op = "register" /\ req[w].email \in Emails
    BY DEF CreateUser, TypeInv, CallState
  <1>2. CASE Fail(w)
    BY <1>2, FailKeepsWrites
  <1>3. CASE CreateUserSql(w) /\ ~Fail(w)
    <2>1. PICK u \in FreshUsers :
              /\ tx' = [tx EXCEPT ![w].user = u]
              /\ req' = [req EXCEPT ![w].user = u]
              /\ byEmail[req[w].email] = NoUser
              /\ pc' = [pc EXCEPT ![w] = "issue"]
              /\ UNCHANGED <<store, claims, expired, history>>
      BY <1>3 DEF CreateUserSql, Goto
    <2>2. u \in Users /\ u # NoUser /\ userRow[u] = "absent" /\ \A v \in Workers : tx[v].user # u
      BY ConstantsAssumption DEF FreshUsers
    <2>3. /\ req'[w].user = u /\ req'[w].out = req[w].out /\ req'[w].op = req[w].op
          /\ req'[w].email = req[w].email /\ req'[w].jti = req[w].jti
          /\ pc'[w] = "issue"
      BY <2>1 DEF TypeInv, TypeOK, Request
    <2>4. tx'[w].user = u /\ tx'[w].created = tx[w].created /\ tx'[w].revoked = tx[w].revoked
      BY <2>1 DEF TypeInv, TypeOK, Writes
    <2>5. \A v \in Workers : req'[v].email = req[v].email /\ req'[v].out = req[v].out
      BY <2>3 DEF Others
    <2>6. UNCHANGED <<userRow, byEmail, tok, owner, family, handed, loggedOut>>
      BY <2>1 DEF store
    <2>7. ASSUME NEW v \in Workers PROVE TokenWrites(v)'
      <3>1. tx[w].created = {}
        BY <1>1, NothingCreated
      <3> QED
        BY <2>4, <2>5, <2>6, <3>1 DEF WritesInv, TokenWrites, Minted, HasRow, Others
    <2>8. \A v \in Workers \ {w} : tx[v].user # NoUser => req[v].email # req[w].email
      BY <1>3 DEF CreateUserSql, EmailLocked, Fail, Goto
    <2>9. ASSUME NEW v \in Workers PROVE UserWrites(v)'
      <3>1. CASE v = w
        BY <1>1, <2>1, <2>2, <2>4, <2>5, <2>6, <2>8, <3>1 DEF UserWrites, Others
      <3>2. CASE v # w
        BY <2>2, <2>4, <2>5, <2>6, <2>8, <3>2 DEF WritesInv, UserWrites, Others
      <3> QED
        BY <3>1, <3>2
    <2>10. HandlerState(w)'
      BY <1>1, <1>3, <2>2, <2>3, <2>6 DEF WritesInv, HandlerState, TypeInv, CreateUserSql, Others, Sql
    <2>11. ASSUME NEW v \in Workers \ {w} PROVE HandlerState(v)'
      BY <2>6 DEF Others, WritesInv, HandlerState, CallState, Sql
    <2> QED
      BY <2>6, <2>7, <2>9, <2>10, <2>11 DEF WritesInv, Minted
  <1>4. CASE CreateUserMemory(w)
    <2>1. PICK u \in FreshUsers :
              /\ userRow' = [userRow EXCEPT ![u] = "present"]
              /\ req' = [req EXCEPT ![w].user = u]
      BY <1>4 DEF CreateUserMemory
    <2>2. u \in Users /\ \A j \in Jtis : owner[j] # u
      BY DEF FreshUsers
    <2>3. /\ req'[w].user = u /\ req'[w].out = req[w].out /\ req'[w].op = req[w].op
          /\ req'[w].jti = req[w].jti /\ pc'[w] = "issue"
      BY <1>4, <2>1 DEF CreateUserMemory, Goto, TypeInv, TypeOK, Request
    <2>4. UNCHANGED <<tok, owner, family, handed, loggedOut, tx>>
      BY <1>4 DEF CreateUserMemory
    <2>5. \A v \in Workers : tx[v].user = NoUser /\ tx[v].revoked = {} /\ tx[v].created = {}
      BY <1>4, MemoryWrites DEF CreateUserMemory
    <2>6. ASSUME NEW v \in Workers PROVE TokenWrites(v)' /\ UserWrites(v)'
      BY <2>3, <2>4, <2>5 DEF WritesInv, TokenWrites, UserWrites, Minted, Others
    <2>7. HandlerState(w)'
      BY <1>1, <2>2, <2>3, <2>4 DEF WritesInv, HandlerState, TypeInv, Others, Sql
    <2>8. ASSUME NEW v \in Workers \ {w} PROVE HandlerState(v)'
      BY <2>4 DEF Others, WritesInv, HandlerState, CallState, Sql
    <2>9. \A j \in Jtis : userRow'[owner[j]] = userRow[owner[j]]
      BY <2>1, <2>2 DEF TypeInv, TypeOK
    <2> QED
      BY <2>4, <2>6, <2>7, <2>8, <2>9 DEF WritesInv, Minted
  <1> QED
    BY <1>2, <1>3, <1>4 DEF CreateUser


\* Minting a token keeps WritesInv: its id is new to every row and request.
LEMMA IssueKeepsWrites ==
    ASSUME TypeInv, WritesInv, TypeInv', NEW w \in Workers, Others(w), IssueTokens(w)
    PROVE  WritesInv'
  <1> USE DEF claims, history
  <1>1. PICK j \in FreshJtis :
            /\ owner' = [owner EXCEPT ![j] = req[w].user]
            /\ \/ /\ Sql
                  /\ tx' = [tx EXCEPT ![w].created = @ \cup {j}]
                  /\ UNCHANGED tok
               \/ /\ ~Sql
                  /\ tok' = [tok EXCEPT ![j] = "live"]
                  /\ UNCHANGED tx
            /\ req' = [req EXCEPT ![w] = [@ EXCEPT !.out = j, !.reply = "tokens"]]
    BY DEF IssueTokens
  <1>2. /\ pc[w] = "issue" /\ pc'[w] = "teardown" /\ UserVisible(w) /\ req[w].user \in Users
        /\ UNCHANGED <<userRow, byEmail, handed, loggedOut>>
    BY DEF IssueTokens, Goto, TypeInv, TypeOK, WritesInv, HandlerState
  <1>3. /\ req'[w].out = j /\ req'[w].op = req[w].op /\ req'[w].user = req[w].user
        /\ req'[w].email = req[w].email /\ req'[w].jti = req[w].jti
    BY <1>1 DEF TypeInv, TypeOK, Request
  <1>4. /\ j \in Jtis /\ j # NoJti /\ owner[j] = NoUser
        /\ tok[j] = "absent" /\ j \notin handed
    BY ConstantsAssumption DEF FreshJtis, Minted, WritesInv
  <1>5. /\ owner'[j] = req[w].user /\ owner'[j] # NoUser
        /\ \A i \in Jtis \ {j} : owner'[i] = owner[i]
    BY <1>1, <1>2, <1>4, ConstantsAssumption DEF TypeInv, TypeOK
  <1>6. Minted' = Minted \cup {j}
    BY <1>4, <1>5 DEF Minted
  <1>7. /\ tx'[w].user = tx[w].user /\ tx'[w].revoked = tx[w].revoked
        /\ tx'[w].created \in {{}, {j}}
        /\ ~Sql => tx'[w] = tx[w]
    <2>1. tx[w].created = {}
      BY <1>2, NothingCreated
    <2> QED
      BY <1>1, <2>1 DEF TypeInv, TypeOK, Writes
  <1>8. /\ \A i \in Jtis \ {j} : tok'[i] = tok[i]
        /\ tok'[j] \in {"absent", "live"}
        /\ Sql => tok' = tok
    BY <1>1, <1>4 DEF TypeInv, TypeOK
  <1>9. TokenWrites(w)'
    <2>1. \A v \in Workers \ {w} : req'[v].out # j
      BY <1>4, <1>6 DEF Others, WritesInv, TokenWrites, FreshJtis, Minted
    <2>2. \A i \in tx'[w].revoked : HasRow(i)'
      BY <1>4, <1>7, <1>8 DEF WritesInv, TokenWrites, HasRow, TypeInv, TypeOK, Writes
    <2>3. ~Sql => tx'[w].created = {}
      BY <1>7, MemoryWrites
    <2> QED
      BY <1>2, <1>3, <1>4, <1>5, <1>6, <1>7, <1>8, <2>1, <2>2, <2>3
         DEF TokenWrites, UserVisible
  <1>10. ASSUME NEW v \in Workers \ {w} PROVE TokenWrites(v)'
    <2>1. TokenWrites(v) /\ tx[v] \in Writes
      BY DEF WritesInv, TypeInv, TypeOK
    <2>2. j \notin tx[v].created /\ j \notin tx[v].revoked /\ req[v].out # j
      BY <1>4, <2>1 DEF TokenWrites, Minted, HasRow
    <2>3. \A i \in tx[v].created \cup tx[v].revoked : tok'[i] = tok[i] /\ owner'[i] = owner[i]
      BY <1>5, <1>8, <2>1, <2>2 DEF Writes
    <2>4. \A u \in Workers \ {v} : req[v].out # NoJti => req'[u].out # req[v].out
      BY <1>3, <2>1, <2>2 DEF TokenWrites, Others
    <2>5. req'[v] = req[v] /\ tx'[v] = tx[v]
      BY DEF Others
    <2> QED
      BY <1>2, <1>6, <2>1, <2>3, <2>4, <2>5 DEF TokenWrites, HasRow
  <1>11. ASSUME NEW v \in Workers PROVE UserWrites(v)'
    BY <1>2, <1>3, <1>7 DEF WritesInv, UserWrites, Others
  <1>12. HandlerState(w)'
    BY <1>2, <1>3, <1>7 DEF WritesInv, HandlerState, TypeInv, Others, Sql
  <1>13. ASSUME NEW v \in Workers \ {w} PROVE HandlerState(v)'
    BY <1>2 DEF Others, WritesInv, HandlerState, CallState, Sql
  <1>14. \A i \in Jtis \ Minted' : tok'[i] = "absent" /\ i \notin handed'
    BY <1>2, <1>6, <1>8 DEF WritesInv
  <1>15. \A i \in Jtis : tok'[i] = "deleted" => userRow'[owner'[i]] = "deleted"
    BY <1>2, <1>5, <1>8 DEF WritesInv
  <1> QED
    BY <1>9, <1>10, <1>11, <1>12, <1>13, <1>14, <1>15 DEF WritesInv


\* A revocation keeps WritesInv: its row is there, and stays there.
LEMMA RevokeKeepsWrites ==
    ASSUME TypeInv, WritesInv, TypeInv', NEW w \in Workers, Others(w),
           RevokeUpdate(w) \/ RevokeMemory(w)
    PROVE  WritesInv'
  <1> USE DEF claims, history, store
  <1>1. /\ pc[w] \in {"revoke", "update"} /\ pc'[w] \in {"teardown", "owner"}
        /\ req'[w].out = req[w].out /\ req'[w].op = req[w].op /\ req'[w].jti = req[w].jti
        /\ req'[w].email = req[w].email
        /\ UNCHANGED <<userRow, byEmail, owner, handed, loggedOut>>
    BY DEF RevokeUpdate, RevokeMemory, AfterRevoke, Answer, Goto, TypeInv, TypeOK, Request
  <1>2. req[w].jti \in handed /\ req[w].jti \in Minted
    BY <1>1 DEF WritesInv, HandlerState, TypeInv, TypeOK, CallState
  <1>3. \A v \in Workers : req'[v].out = req[v].out /\ req'[v].email = req[v].email
    BY <1>1 DEF Others
  <1>4. CASE RevokeUpdate(w)
    <2>1. /\ tx'[w].user = tx[w].user /\ tx'[w].created = tx[w].created
          /\ tx'[w].revoked = tx[w].revoked \cup {req[w].jti}
          /\ HasRow(req[w].jti) /\ Sql /\ UNCHANGED tok
      BY <1>4 DEF RevokeUpdate, TypeInv, TypeOK, Writes
    <2>2. ASSUME NEW v \in Workers PROVE TokenWrites(v)' /\ UserWrites(v)'
      BY <1>1, <1>3, <2>1 DEF WritesInv, TokenWrites, UserWrites, Minted, HasRow, Others
    <2>3. HandlerState(w)'
      BY <1>1, <1>2, <2>1 DEF WritesInv, HandlerState, TypeInv, Others, Sql
    <2>4. ASSUME NEW v \in Workers \ {w} PROVE HandlerState(v)'
      BY <1>1 DEF Others, WritesInv, HandlerState, CallState, Sql
    <2> QED
      BY <1>1, <2>1, <2>2, <2>3, <2>4 DEF WritesInv, Minted
  <1>5. CASE RevokeMemory(w)
    <2>1. /\ UNCHANGED tx
          /\ \A j \in Jtis \ {req[w].jti} : tok'[j] = tok[j]
          /\ tok[req[w].jti] = "live" => tok'[req[w].jti] = "revoked"
          /\ tok[req[w].jti] # "live" => tok'[req[w].jti] = tok[req[w].jti]
      BY <1>2, <1>5 DEF RevokeMemory, TypeInv, TypeOK
    <2>2. \A v \in Workers : tx[v].user = NoUser /\ tx[v].revoked = {} /\ tx[v].created = {}
      BY <1>5, MemoryWrites DEF RevokeMemory
    <2>3. ASSUME NEW v \in Workers PROVE TokenWrites(v)' /\ UserWrites(v)'
      BY <1>1, <1>3, <2>1, <2>2 DEF WritesInv, TokenWrites, UserWrites, Minted
    <2>4. HandlerState(w)'
      BY <1>1, <1>2, <2>1 DEF WritesInv, HandlerState, TypeInv, Others, Sql
    <2>5. ASSUME NEW v \in Workers \ {w} PROVE HandlerState(v)'
      BY <1>1 DEF Others, WritesInv, HandlerState, CallState, Sql
    <2>6. /\ \A j \in Jtis \ Minted : tok'[j] = "absent"
          /\ \A j \in Jtis : tok'[j] = "deleted" => tok[j] = "deleted"
      BY <1>2, <2>1 DEF WritesInv
    <2> QED
      BY <1>1, <2>3, <2>4, <2>5, <2>6 DEF WritesInv, Minted
  <1> QED
    BY <1>4, <1>5

\* The end of a request, committed or not, keeps WritesInv: the rows of two
\* transactions are different ones.
LEMMA FinishKeepsWrites ==
    ASSUME TypeInv, WritesInv, TypeInv', NEW w \in Workers, Others(w),
           Teardown(w) \/ TeardownCommitFails(w) \/ ReplyLost(w) \/ Crash(w)
    PROVE  WritesInv'
  <1> USE DEF claims, history, store
  <1>1. /\ req'[w].out = NoJti /\ req'[w].op = "none" /\ pc'[w] = "idle"
        /\ tx'[w] = NoWrites /\ UNCHANGED <<owner, family>>
    BY DEF Teardown, TeardownCommitFails, ReplyLost, Crash, Finish, Goto, NoRequest,
           TypeInv, TypeOK
  <1>2. handed \subseteq handed' /\ handed' \subseteq handed \cup ({req[w].out} \cap Jtis)
    BY DEF Teardown, TeardownCommitFails, ReplyLost, Crash, Deliver
  <1>3. UNCHANGED store \/ Commit(w)
    BY DEF Teardown, TeardownCommitFails, ReplyLost, Crash
  <1>4. /\ \A u \in Users : u # tx[w].user => userRow'[u] = userRow[u]
        /\ \A u \in Users : userRow'[u] # userRow[u] => userRow'[u] = "present"
    BY <1>3 DEF Commit, TypeInv, TypeOK
  <1>5. \A e \in Emails : tx[w].user = NoUser \/ e # req[w].email => byEmail'[e] = byEmail[e]
    BY <1>3 DEF Commit
  <1>6. /\ \A j \in Jtis : j \notin tx[w].created \cup tx[w].revoked => tok'[j] = tok[j]
        /\ \A j \in Jtis : tok'[j] # tok[j] => tok'[j] \in {"live", "revoked"}
    BY <1>3 DEF Commit
  <1>7. tx[w].user # NoUser => userRow[tx[w].user] = "absent"
    BY DEF WritesInv, UserWrites
  <1>8. TokenWrites(w)
    BY DEF WritesInv
  <1>9. \A j \in Jtis \ Minted' : tok'[j] = "absent" /\ j \notin handed'
    <2> SUFFICES ASSUME NEW j \in Jtis, j \notin Minted
                 PROVE  tok'[j] = "absent" /\ j \notin handed'
      BY <1>1 DEF Minted
    <2>1. tok[j] = "absent" /\ j \notin handed
      BY DEF WritesInv
    <2>2. j # req[w].out
      BY <1>8, ConstantsAssumption DEF TokenWrites
    <2>3. j \notin tx[w].created /\ j \notin tx[w].revoked
      BY <1>8, <2>1, <2>2 DEF TokenWrites, HasRow
    <2> QED
      BY <1>2, <1>6, <2>1, <2>2, <2>3
  <1>10. \A j \in Jtis : tok'[j] = "deleted" => userRow'[owner'[j]] = "deleted"
    <2> SUFFICES ASSUME NEW j \in Jtis, tok'[j] = "deleted"
                 PROVE  userRow'[owner[j]] = "deleted"
      BY <1>1
    <2>1. tok[j] = "deleted" /\ userRow[owner[j]] = "deleted"
      BY <1>6 DEF WritesInv
    <2>2. j \in Minted /\ owner[j] \in Users
      BY <2>1 DEF WritesInv, Minted, TypeInv, TypeOK
    <2>3. owner[j] # tx[w].user
      BY <1>7, <2>1, <2>2, ConstantsAssumption
    <2> QED
      BY <1>4, <2>1, <2>2, <2>3
  <1>11. ASSUME NEW v \in Workers \ {w} PROVE TokenWrites(v)'
    <2>1. req'[v] = req[v] /\ tx'[v] = tx[v]
      BY DEF Others
    <2>2. TokenWrites(v) /\ tx[v] \in Writes
      BY DEF WritesInv, TypeInv, TypeOK
    <2>3. req[v].out # NoJti => /\ req[v].out \in Minted' \ handed'
                                /\ \A u \in Workers \ {v} : req'[u].out # req[v].out
      BY <1>1, <1>2, <2>2 DEF TokenWrites, Minted, Others
    <2>4. ASSUME NEW j \in tx[v].created
          PROVE  /\ tok'[j] = "absent"
                 /\ userRow'[owner[j]] = "present" \/ tx[v].user = owner[j]
      <3>1. /\ j \in Jtis /\ j = req[v].out /\ tok[j] = "absent"
            /\ userRow[owner[j]] = "present" \/ tx[v].user = owner[j]
        BY <2>2 DEF TokenWrites, Writes
      <3>2. j \notin tx[w].created /\ j \notin tx[w].revoked
        BY <1>8, <2>2, <3>1, ConstantsAssumption DEF TokenWrites, HasRow
      <3>3. owner[j] \in Users
        BY <2>2, <3>1, ConstantsAssumption DEF TokenWrites, Minted, TypeInv, TypeOK
      <3> QED
        BY <1>4, <1>6, <3>1, <3>2, <3>3
    <2>5. \A j \in tx[v].revoked : HasRow(j)'
      BY <1>6, <2>2 DEF TokenWrites, HasRow, Writes
    <2> QED
      BY <1>1, <2>1, <2>2, <2>3, <2>4, <2>5 DEF TokenWrites
  <1>12. ASSUME NEW v \in Workers \ {w} PROVE UserWrites(v)'
    <2> SUFFICES ASSUME tx[v].user # NoUser PROVE UserWrites(v)'
      BY DEF UserWrites, Others
    <2>1. /\ userRow[tx[v].user] = "absent" /\ req[v].email \in Emails
          /\ byEmail[req[v].email] = NoUser /\ tx[v].user \in Users
          /\ \A u \in Workers \ {v} : tx[u].user # NoUser =>
                tx[u].user # tx[v].user /\ req[u].email # req[v].email
      BY DEF WritesInv, UserWrites, TypeInv, TypeOK, Writes
    <2>2. userRow'[tx[v].user] = "absent" /\ byEmail'[req[v].email] = NoUser
      BY <1>4, <1>5, <2>1
    <2> QED
      BY <1>1, <2>1, <2>2 DEF UserWrites, Others, NoWrites
  <1>13. TokenWrites(w)' /\ UserWrites(w)'
    BY <1>1 DEF TokenWrites, UserWrites, NoWrites
  <1>14. HandlerState(w)'
    BY <1>1 DEF HandlerState, TypeInv, Others, Sql
  <1>15. ASSUME NEW v \in Workers \ {w} PROVE HandlerState(v)'
    BY <1>2 DEF Others, WritesInv, HandlerState, CallState, Sql
  <1> QED
    BY <1>9, <1>10, <1>11, <1>12, <1>13, <1>14, <1>15 DEF WritesInv


\* The operator's DELETE keeps WritesInv: it waits for the rows that open
\* transactions have written, and cascades to the account's tokens.
LEMMA DeleteKeepsWrites ==
    ASSUME TypeInv, WritesInv, NEW u \in Users, DeleteUser(u)
    PROVE  WritesInv'
  <1> USE DEF claims, history
  <1>1. /\ userRow[u] = "present" /\ userRow'[u] = "deleted"
        /\ \A v \in Users \ {u} : userRow'[v] = userRow[v]
        /\ UNCHANGED <<backend, owner, handed, loggedOut, pc, req, tx>>
    BY DEF DeleteUser, TypeInv, TypeOK
  <1>2. /\ \A j \in Jtis : tok'[j] = IF owner[j] = u /\ HasRow(j) THEN "deleted" ELSE tok[j]
        /\ \A e \in Emails : byEmail[e] = NoUser => byEmail'[e] = NoUser
    BY DEF DeleteUser
  <1>3. \A w \in Workers : \A j \in tx[w].revoked \cup tx[w].created : owner[j] # u
    BY DEF DeleteUser, UserLocked
  <1>4. ASSUME NEW w \in Workers PROVE TokenWrites(w)'
    <2>1. TokenWrites(w) /\ tx[w] \in Writes
      BY DEF WritesInv, TypeInv, TypeOK
    <2>2. \A j \in tx[w].revoked \cup tx[w].created : tok'[j] = tok[j]
      BY <1>2, <1>3, <2>1 DEF Writes
    <2>3. \A j \in tx[w].created : owner[j] \in Users
      BY <2>1, ConstantsAssumption DEF TokenWrites, Minted, Writes, TypeInv, TypeOK
    <2>4. \A j \in tx[w].created : userRow'[owner[j]] = userRow[owner[j]]
      BY <1>1, <1>3, <2>3
    <2> QED
      BY <1>1, <2>1, <2>2, <2>4 DEF TokenWrites, Minted, HasRow
  <1>5. ASSUME NEW w \in Workers PROVE UserWrites(w)'
    BY <1>1, <1>2 DEF WritesInv, UserWrites, TypeInv, TypeOK, Writes
  <1>6. ASSUME NEW w \in Workers PROVE HandlerState(w)'
    BY <1>1 DEF WritesInv, HandlerState, CallState, Sql
  <1>7. \A j \in Jtis \ Minted' : tok'[j] = "absent" /\ j \notin handed'
    BY <1>1, <1>2 DEF WritesInv, Minted, HasRow
  <1>8. \A j \in Jtis : tok'[j] = "deleted" => userRow'[owner'[j]] = "deleted"
    <2> SUFFICES ASSUME NEW j \in Jtis, tok'[j] = "deleted"
                 PROVE  userRow'[owner[j]] = "deleted"
      BY <1>1
    <2>1. CASE owner[j] = u
      BY <1>1, <2>1
    <2>2. CASE owner[j] # u
      <3>1. tok[j] = "deleted" /\ userRow[owner[j]] = "deleted"
        BY <1>2, <2>2 DEF WritesInv
      <3>2. owner[j] \in Users
        BY <3>1 DEF WritesInv, Minted, TypeInv, TypeOK
      <3> QED
        BY <1>1, <2>2, <3>1, <3>2
    <2> QED
      BY <2>1, <2>2
  <1> QED
    BY <1>4, <1>5, <1>6, <1>7, <1>8 DEF WritesInv

\* Every step keeps WritesInv.
LEMMA NextWrites == TypeInv /\ WritesInv /\ [Next]_vars => WritesInv'
  <1> SUFFICES ASSUME TypeInv, WritesInv, [Next]_vars PROVE WritesInv'
    OBVIOUS
  <1> TypeInv'
    BY NextType
  <1>1. ASSUME NEW w \in Workers, Start(w) \/ Step(w) \/ Fault(w) PROVE WritesInv'
    <2>1. Others(w)
      BY <1>1, OthersWait
    <2>2. CASE Start(w)
      BY <2>1, <2>2, ReadsKeepWrites
    <2>3. CASE Step(w)
      BY <2>1, <2>3, ReadsKeepWrites, FailKeepsWrites, CreateUserKeepsWrites,
         IssueKeepsWrites, RevokeKeepsWrites, FinishKeepsWrites
         DEF Step, IssueTokensFails, RevokeUpdateFails
    <2>4. CASE Fault(w)
      BY <2>1, <2>4, FailKeepsWrites, FinishKeepsWrites DEF Fault, StatementFails
    <2> QED
      BY <1>1, <2>2, <2>3, <2>4
  <1>2. ASSUME NEW j \in handed, Expire(j) PROVE WritesInv'
    BY <1>2 DEF Expire, store, claims, history, WritesInv, TokenWrites, UserWrites,
                HandlerState, CallState, Minted, HasRow, Sql
  <1>3. ASSUME NEW u \in Users, DeleteUser(u) PROVE WritesInv'
    BY <1>3, DeleteKeepsWrites
  <1>4. CASE UNCHANGED vars
    BY <1>4 DEF vars, store, claims, history, WritesInv, TokenWrites, UserWrites,
                HandlerState, CallState, Minted, HasRow, Sql
  <1> QED
    BY <1>1, <1>2, <1>3, <1>4 DEF Next

\* The initial state satisfies WritesInv.
LEMMA InitWrites == Init => WritesInv
  BY ConstantsAssumption
     DEF Init, WritesInv, TokenWrites, UserWrites, HandlerState, CallState,
         Minted, NoRequest, NoWrites

\* The locks, the UNIQUE e-mail and the foreign key keep the uncommitted
\* writes of any number of workers apart.
THEOREM WritesApart == Spec => []WritesInv
  <1>1. Init => TypeInv /\ WritesInv
    BY InitType, InitWrites
  <1>2. TypeInv /\ WritesInv /\ [Next]_vars => (TypeInv /\ WritesInv)'
    BY NextType, NextWrites
  <1> QED
    BY <1>1, <1>2, PTL DEF Spec


-----------------------------------------------------------------------------
(***************************************************************************)
(* What the tables guarantee, for any number of workers                    *)
(***************************************************************************)

\* The steps of a worker that change a committed table.
LEMMA StoreSteps ==
    ASSUME NEW w \in Workers, Start(w) \/ Step(w) \/ Fault(w)
    PROVE  \/ UNCHANGED <<store, owner>>
           \/ CreateUserMemory(w)
           \/ IssueTokens(w)
           \/ pc[w] = "revoke" /\ RevokeMemory(w)
           \/ Commit(w) /\ UNCHANGED owner
  <1> USE DEF claims
  <1>1. CASE Start(w)
    BY <1>1 DEF Start, StartRegister, StartLogin, StartRefresh, StartLogout
  <1>2. CASE Fail(w)
    BY <1>2 DEF Fail
  <1>3. CASE ExistsByEmail(w) \/ GetByEmail(w) \/ GetByJti(w) \/ GetOwner(w)
    BY <1>3 DEF ExistsByEmail, GetByEmail, GetByJti, GetOwner
  <1>4. CASE CreateUser(w)
    BY <1>2, <1>4 DEF CreateUser, CreateUserSql
  <1>5. CASE RevokeSelect(w) \/ RevokeUpdate(w) \/ RevokeMemory(w)
    BY <1>5 DEF RevokeSelect, RevokeUpdate, RevokeMemory
  <1>6. CASE Teardown(w) \/ TeardownCommitFails(w) \/ ReplyLost(w) \/ Crash(w)
    BY <1>6 DEF Teardown, TeardownCommitFails, ReplyLost, Crash, Finish
  <1> QED
    BY <1>1, <1>2, <1>3, <1>4, <1>5, <1>6
       DEF Step, Fault, IssueTokensFails, RevokeUpdateFails, StatementFails

\* The memory revoke turns a live row into a revoked one, and no other row.
LEMMA RevokeMemoryRows ==
    ASSUME TypeInv, WritesInv, NEW w \in Workers, pc[w] = "revoke", RevokeMemory(w)
    PROVE  /\ UNCHANGED <<userRow, byEmail, owner>>
           /\ \A j \in Jtis : tok'[j] = tok[j] \/ (tok[j] = "live" /\ tok'[j] = "revoked")
           /\ \A j \in Jtis \ handed : tok'[j] = tok[j]
  <1>1. req[w].jti \in Jtis /\ req[w].jti \in handed
    BY DEF TypeInv, CallState, WritesInv, HandlerState
  <1> QED
    BY <1>1 DEF RevokeMemory, TypeInv, TypeOK, claims

\* A minted token is new to the table, and its user is there.
LEMMA IssueRows ==
    ASSUME TypeInv, WritesInv, NEW w \in Workers, IssueTokens(w)
    PROVE  \E j \in Jtis :
              /\ j \notin handed /\ tok[j] = "absent"
              /\ UNCHANGED <<userRow, byEmail>>
              /\ \A i \in Jtis \ {j} : tok'[i] = tok[i] /\ owner'[i] = owner[i]
              /\ \/ tok'[j] = "absent"
                 \/ tok'[j] = "live" /\ userRow[owner'[j]] = "present"
  <1>1. PICK j \in FreshJtis :
            /\ owner' = [owner EXCEPT ![j] = req[w].user]
            /\ \/ UNCHANGED tok
               \/ ~Sql /\ tok' = [tok EXCEPT ![j] = "live"]
    BY DEF IssueTokens
  <1>2. j \in Jtis /\ j \notin handed /\ tok[j] = "absent"
    BY DEF FreshJtis, WritesInv
  <1>3. UserVisible(w) /\ UNCHANGED <<userRow, byEmail>> /\ req[w].user \in Users
    BY DEF IssueTokens, WritesInv, HandlerState
  <1>4. ~Sql => userRow[req[w].user] = "present"
    BY <1>3, MemoryWrites, ConstantsAssumption DEF UserVisible
  <1>5. owner'[j] = req[w].user
    BY <1>1, <1>2 DEF TypeInv, TypeOK
  <1> QED
    BY <1>1, <1>2, <1>3, <1>4, <1>5 DEF TypeInv, TypeOK

\* No step makes a token live again that a client holds and that is not live.
LEMMA NextSpent ==
    ASSUME TypeInv, WritesInv, [Next]_vars, NEW j \in handed, tok[j] # "live"
    PROVE  tok'[j] # "live"
  <1>1. j \in Jtis
    BY DEF TypeInv, TypeOK
  <1>2. ASSUME NEW w \in Workers, Start(w) \/ Step(w) \/ Fault(w) PROVE tok'[j] # "live"
    <2>1. CASE Commit(w)
      <3>1. j \notin tx[w].created
        BY <1>1, ConstantsAssumption DEF WritesInv, TokenWrites
      <3> QED
        BY <1>1, <2>1, <3>1 DEF Commit
    <2>2. CASE IssueTokens(w)
      BY <1>1, <2>2, IssueRows
    <2>3. CASE pc[w] = "revoke" /\ RevokeMemory(w)
      BY <1>1, <2>3, RevokeMemoryRows
    <2> QED
      BY <1>2, <2>1, <2>2, <2>3, StoreSteps DEF store, CreateUserMemory
  <1>3. ASSUME NEW i \in handed, Expire(i) PROVE tok'[j] # "live"
    BY <1>3 DEF Expire, store
  <1>4. ASSUME NEW u \in Users, DeleteUser(u) PROVE tok'[j] # "live"
    BY <1>1, <1>4 DEF DeleteUser
  <1> QED
    BY <1>2, <1>3, <1>4 DEF Next, vars, store

\* One-shot tokens never come back: a refresh token that a client holds and
\* that was rotated, logged out or deleted is never live again, whatever the
\* workers interleave and whatever fails.
THEOREM SpentForever == Spec => SpentTokenStaysSpent
  <1>1. TypeInv /\ WritesInv /\ [Next]_vars
          => [\A j \in handed : tok[j] # "live" => tok'[j] # "live"]_vars
    BY NextSpent
  <1> QED
    BY <1>1, TypeInvariance, WritesApart, PTL DEF Spec, SpentTokenStaysSpent


\* Every step keeps the user of every token row.
LEMMA NextUsers == TypeInv /\ WritesInv /\ TokensHaveUsers /\ [Next]_vars => TokensHaveUsers'
  <1> SUFFICES ASSUME TypeInv, WritesInv, TokensHaveUsers, [Next]_vars,
                      NEW j \in Jtis, HasRow(j)'
               PROVE  userRow'[owner'[j]] = "present"
    BY DEF TokensHaveUsers
  <1>1. HasRow(j) => owner[j] \in Users /\ userRow[owner[j]] = "present"
    BY DEF WritesInv, Minted, HasRow, TypeInv, TypeOK, TokensHaveUsers
  <1>2. ASSUME NEW w \in Workers, Start(w) \/ Step(w) \/ Fault(w)
        PROVE  userRow'[owner'[j]] = "present"
    <2>1. CASE UNCHANGED <<store, owner>>
      BY <1>1, <2>1 DEF store, HasRow
    <2>2. CASE CreateUserMemory(w)
      BY <1>1, <2>2 DEF CreateUserMemory, claims, HasRow, TypeInv, TypeOK
    <2>3. CASE IssueTokens(w)
      BY <1>1, <2>3, IssueRows DEF HasRow
    <2>4. CASE pc[w] = "revoke" /\ RevokeMemory(w)
      BY <1>1, <2>4, RevokeMemoryRows DEF HasRow
    <2>5. CASE Commit(w) /\ UNCHANGED owner
      <3>1. CASE j \in tx[w].created
        <4>1. /\ userRow[owner[j]] = "present" \/ tx[w].user = owner[j]
              /\ owner[j] \in Users
          BY <3>1, ConstantsAssumption DEF WritesInv, TokenWrites, Minted, TypeInv, TypeOK
        <4> QED
          BY <2>5, <4>1 DEF Commit
      <3>2. CASE j \notin tx[w].created
        <4>1. HasRow(j)
          BY <2>5, <3>2 DEF Commit, HasRow, WritesInv, TokenWrites
        <4> QED
          BY <1>1, <2>5, <4>1 DEF Commit
      <3> QED
        BY <3>1, <3>2
    <2> QED
      BY <1>2, <2>1, <2>2, <2>3, <2>4, <2>5, StoreSteps
  <1>3. ASSUME NEW i \in handed, Expire(i) PROVE userRow'[owner'[j]] = "present"
    BY <1>1, <1>3 DEF Expire, store, claims, HasRow
  <1>4. ASSUME NEW u \in Users, DeleteUser(u) PROVE userRow'[owner'[j]] = "present"
    <2>1. HasRow(j) /\ owner[j] # u /\ owner' = owner
      BY <1>4 DEF DeleteUser, claims, HasRow
    <2> QED
      BY <1>1, <1>4, <2>1 DEF DeleteUser, TypeInv, TypeOK
  <1> QED
    BY <1>1, <1>2, <1>3, <1>4 DEF Next, vars, store, claims, HasRow

\* A refresh-token row always has its user, on both backends, with accounts
\* deleted while handlers run.
THEOREM NoOrphanTokens == Spec => []TokensHaveUsers
  <1>1. Init => TokensHaveUsers
    BY DEF Init, TokensHaveUsers, HasRow
  <1> QED
    BY <1>1, NextUsers, TypeInvariance, WritesApart, PTL DEF Spec

\* The backend is the server's for as long as it runs.
LEMMA BackendKept == ASSUME TypeInv, [Next]_vars PROVE backend' = backend
  BY OthersWait DEF Others, Next, Expire, DeleteUser, vars

\* Every step keeps AccountsReachable.
LEMMA NextAccounts ==
    TypeInv /\ WritesInv /\ AccountsReachable /\ [Next]_vars => AccountsReachable'
  <1> SUFFICES ASSUME TypeInv, WritesInv, AccountsReachable, [Next]_vars, Sql
               PROVE  AccountsReachable'
    BY BackendKept DEF AccountsReachable, Sql
  <1>1. ASSUME NEW w \in Workers, Start(w) \/ Step(w) \/ Fault(w) PROVE AccountsReachable'
    <2>1. CASE UNCHANGED <<userRow, byEmail>>
      BY <2>1 DEF AccountsReachable
    <2>2. CASE Commit(w) /\ tx[w].user = NoUser
      <3>1. \A u \in Users : userRow'[u] = userRow[u]
        BY <2>2, ConstantsAssumption DEF Commit
      <3>2. \A e \in Emails : byEmail'[e] = byEmail[e]
        BY <2>2 DEF Commit
      <3> QED
        BY <3>1, <3>2 DEF AccountsReachable
    <2>3. CASE Commit(w) /\ tx[w].user # NoUser
      <3> DEFINE n == tx[w].user
                 m == req[w].email
      <3>1. /\ n \in Users /\ userRow[n] = "absent" /\ m \in Emails /\ byEmail[m] = NoUser
        BY <2>3 DEF WritesInv, UserWrites, TypeInv, TypeOK, Writes
      <3>2. /\ userRow'[n] = "present" /\ byEmail'[m] = n
            /\ \A u \in Users \ {n} : userRow'[u] = userRow[u]
            /\ \A e \in Emails \ {m} : byEmail'[e] = byEmail[e]
        BY <2>3, <3>1 DEF Commit
      <3> HIDE DEF n, m
      <3>3. \A e \in Emails : byEmail[e] # n
        BY <3>1 DEF AccountsReachable
      <3>4. ASSUME NEW u \in Users
            PROVE  userRow'[u] = "present" <=> \E e \in Emails : byEmail'[e] = u
        <4>1. CASE u = n
          BY <3>1, <3>2, <4>1
        <4>2. CASE u # n
          <5>1. \A e \in Emails : byEmail'[e] = u <=> byEmail[e] = u
            BY <3>1, <3>2, <4>2, ConstantsAssumption
          <5> QED
            BY <3>2, <4>2, <5>1 DEF AccountsReachable
        <4> QED
          BY <4>1, <4>2
      <3> QED
        BY <3>4 DEF AccountsReachable
    <2>4. CASE IssueTokens(w)
      BY <2>1, <2>4 DEF IssueTokens
    <2> QED
      BY <1>1, <2>1, <2>2, <2>3, <2>4, StoreSteps, RevokeMemoryRows
         DEF store, CreateUserMemory
  <1>2. ASSUME NEW j \in handed, Expire(j) PROVE AccountsReachable'
    BY <1>2 DEF Expire, store, AccountsReachable
  <1>3. ASSUME NEW d \in Users, DeleteUser(d) PROVE AccountsReachable'
    <2>1. /\ userRow'[d] = "deleted"
          /\ \A u \in Users \ {d} : userRow'[u] = userRow[u]
          /\ \A e \in Emails : byEmail'[e] = IF byEmail[e] = d THEN NoUser ELSE byEmail[e]
      BY <1>3 DEF DeleteUser, TypeInv, TypeOK
    <2> QED
      BY <2>1, ConstantsAssumption DEF AccountsReachable
  <1> QED
    BY <1>1, <1>2, <1>3 DEF Next, vars, store, AccountsReachable

\* On the SQL backend an e-mail leads to one account and every account has its
\* e-mail, however registrations of the same e-mail interleave.
THEOREM OneAccountPerEmail == Spec => []AccountsReachable
  <1>1. Init => AccountsReachable
    BY ConstantsAssumption DEF Init, AccountsReachable
  <1>2. TypeInv /\ WritesInv /\ AccountsReachable /\ [Next]_vars => AccountsReachable'
    BY NextAccounts
  <1> QED
    BY <1>1, <1>2, TypeInvariance, WritesApart, PTL DEF Spec


-----------------------------------------------------------------------------
(***************************************************************************)
(* What the replies promise, for any number of workers                     *)
(***************************************************************************)

\* A step of w leaves its own promise, if it makes one, in its transaction.
LEMMA OwnReply ==
    ASSUME TypeInv, WritesInv, RepliesInv, NEW w \in Workers,
           Start(w) \/ Step(w) \/ Fault(w)
    PROVE  LogoutReply(w)' /\ TokenReply(w)'
  <1> USE DEF claims, history, store, Sql
  <1>0. backend' = backend
    BY OthersWait DEF Others
  <1>1. CASE Fail(w)
    <2>1. req'[w].out = NoJti /\ req'[w].reply = "INTERNAL_ERROR"
      BY <1>1 DEF Fail, TypeInv, TypeOK, Request
    <2> QED
      BY <2>1 DEF LogoutReply, TokenReply
  <1>2. CASE Teardown(w) \/ TeardownCommitFails(w) \/ ReplyLost(w) \/ Crash(w)
    <2>1. req'[w].out = NoJti /\ req'[w].reply = "none"
      BY <1>2 DEF Teardown, TeardownCommitFails, ReplyLost, Crash, Finish, NoRequest,
                  TypeInv, TypeOK
    <2> QED
      BY <2>1 DEF LogoutReply, TokenReply
  <1>3. CASE Start(w)
    <2>1. req'[w].out = NoJti
      BY <1>3, StartedRequest
    <2>2. CASE \E e \in Emails : StartRegister(w, e) \/ StartLogin(w, e)
      <3>1. req'[w].op # "logout"
        BY <2>2, StartedAccount
      <3> QED
        BY <2>1, <3>1 DEF LogoutReply, TokenReply
    <2>3. CASE \E j \in handed : StartRefresh(w, j)
      <3>1. req'[w].op = "refresh"
        BY <2>3 DEF StartRefresh, NoRequest, TypeInv, TypeOK
      <3> QED
        BY <2>1, <3>1 DEF LogoutReply, TokenReply
    <2>4. CASE \E j \in handed : StartLogout(w, j)
      <3>1. PICK j \in handed : StartLogout(w, j)
        BY <2>4
      <3>2. /\ req'[w].jti = j
            /\ req'[w].reply = "no_content" => j \in expired
            /\ UNCHANGED expired
        BY <3>1 DEF StartLogout, NoRequest, TypeInv, TypeOK
      <3> QED
        BY <2>1, <3>2 DEF LogoutReply, TokenReply
    <2> QED
      BY <1>3, <2>2, <2>3, <2>4 DEF Start
  <1>4. CASE ExistsByEmail(w) \/ GetByEmail(w) \/ GetByJti(w) \/ GetOwner(w) \/ CreateUser(w)
    <2>1. CASE Fail(w)
      BY <1>1, <2>1
    <2>2. CASE ~Fail(w)
      <3>1. req[w].out = NoJti /\ req[w].op # "logout"
        BY <1>4 DEF ExistsByEmail, GetByEmail, GetByJti, GetOwner, CreateUser,
                    WritesInv, HandlerState, CallState
      <3>2. req'[w].out = req[w].out /\ req'[w].op = req[w].op
        BY <1>4, <2>2 DEF ExistsByEmail, GetByEmail, GetByJti, GetOwner, CreateUser,
                          CreateUserSql, CreateUserMemory, Answer, TypeInv, TypeOK, Request
      <3> QED
        BY <3>1, <3>2 DEF LogoutReply, TokenReply
    <2> QED
      BY <2>1, <2>2
  <1>5. CASE IssueTokens(w)
    <2>1. req[w].op # "logout" /\ req'[w].op = req[w].op
      BY <1>5 DEF IssueTokens, TypeInv, TypeOK, CallState, Request
    <2>2. PICK j \in FreshJtis :
              /\ \/ Sql /\ tx' = [tx EXCEPT ![w].created = @ \cup {j}]
                 \/ ~Sql /\ tok' = [tok EXCEPT ![j] = "live"]
              /\ req' = [req EXCEPT ![w] = [@ EXCEPT !.out = j, !.reply = "tokens"]]
      BY <1>5 DEF IssueTokens
    <2>3. req'[w].out = j /\ (Sql => j \in tx'[w].created) /\ (~Sql => tok'[j] = "live")
      BY <2>2 DEF FreshJtis, TypeInv, TypeOK, Request, Writes
    <2> QED
      BY <1>0, <2>1, <2>3 DEF LogoutReply, TokenReply
  <1>6. CASE RevokeSelect(w) \/ RevokeUpdate(w) \/ (pc[w] = "revoke" /\ RevokeMemory(w))
    <2>1. req[w].out = NoJti /\ pc[w] \in {"revoke", "update"} /\ req[w].jti \in Jtis
      BY <1>6 DEF RevokeSelect, RevokeUpdate, WritesInv, HandlerState, TypeInv, CallState
    <2>2. /\ req'[w].out = req[w].out /\ req'[w].jti = req[w].jti
          /\ req'[w].op = req[w].op
          /\ req'[w].reply = req[w].reply \/ AfterRevoke(w)
      BY <1>6 DEF RevokeSelect, RevokeUpdate, RevokeMemory, AfterRevoke, Answer,
                  TypeInv, TypeOK, Request
    <2>3. CASE RevokeSelect(w)
      <3>1. UNCHANGED <<tok, tx, expired>> /\ (tok[req[w].jti] # "live" \/ UNCHANGED req)
        BY <2>3 DEF RevokeSelect
      <3> QED
        BY <1>0, <2>1, <2>2, <3>1 DEF LogoutReply, TokenReply, RepliesInv
    <2>4. CASE RevokeUpdate(w)
      <3>1. req[w].jti \in tx'[w].revoked
        BY <2>4 DEF RevokeUpdate, TypeInv, TypeOK, Writes
      <3> QED
        BY <2>1, <2>2, <3>1 DEF LogoutReply, TokenReply
    <2>5. CASE pc[w] = "revoke" /\ RevokeMemory(w)
      <3>1. tok'[req[w].jti] # "live"
        BY <2>1, <2>5 DEF RevokeMemory, TypeInv, TypeOK
      <3> QED
        BY <2>1, <2>2, <3>1 DEF LogoutReply, TokenReply
    <2> QED
      BY <1>6, <2>3, <2>4, <2>5
  <1> QED
    BY <1>1, <1>2, <1>3, <1>4, <1>5, <1>6
       DEF Step, Fault, IssueTokensFails, RevokeUpdateFails, StatementFails, RevokeMemory


\* The steps of w leave the promises of the other workers in place.
LEMMA OtherReply ==
    ASSUME TypeInv, WritesInv, RepliesInv, [Next]_vars,
           NEW w \in Workers, Start(w) \/ Step(w) \/ Fault(w),
           NEW v \in Workers \ {w}
    PROVE  LogoutReply(v)' /\ TokenReply(v)'
  <1>1. req'[v] = req[v] /\ tx'[v] = tx[v] /\ backend' = backend
    BY OthersWait DEF Others
  <1>2. expired' = expired
    BY DEF Start, StartRegister, StartLogin, StartRefresh, StartLogout, Step, Fault,
           ExistsByEmail, CreateUser, CreateUserSql, CreateUserMemory, GetByEmail,
           IssueTokens, IssueTokensFails, GetByJti, RevokeSelect, RevokeUpdate,
           RevokeUpdateFails, RevokeMemory, GetOwner, Teardown, TeardownCommitFails,
           ReplyLost, Crash, StatementFails, Finish, Fail
  <1>3. LogoutReply(v)'
    <2>1. req[v].op = "logout" => req[v].jti \in handed
      BY DEF WritesInv, HandlerState
    <2> QED
      BY <1>1, <1>2, <2>1, NextSpent DEF RepliesInv, LogoutReply
  <1>4. TokenReply(v)'
    <2> SUFFICES ASSUME req[v].out # NoJti, ~Sql PROVE tok'[req[v].out] = "live"
      BY <1>1 DEF RepliesInv, TokenReply, Sql
    <2> DEFINE j == req[v].out
    <2>1. j \in Jtis /\ j \notin handed /\ tok[j] = "live"
      BY DEF WritesInv, TokenWrites, Minted, RepliesInv, TokenReply
    <2>2. tx[w].user = NoUser /\ tx[w].created = {} /\ tx[w].revoked = {}
      BY MemoryWrites
    <2> HIDE DEF j
    <2>3. tok'[j] = "live"
      <3>1. CASE Commit(w)
        BY <2>1, <2>2, <3>1 DEF Commit
      <3>2. CASE IssueTokens(w)
        BY <2>1, <3>2, IssueRows
      <3>3. CASE pc[w] = "revoke" /\ RevokeMemory(w)
        BY <2>1, <3>3, RevokeMemoryRows
      <3> QED
        BY <2>1, <3>1, <3>2, <3>3, StoreSteps DEF store, CreateUserMemory
    <2> QED
      BY <2>3 DEF j
  <1> QED
    BY <1>3, <1>4

\* Every step keeps RepliesInv.
LEMMA NextReplies == TypeInv /\ WritesInv /\ RepliesInv /\ [Next]_vars => RepliesInv'
  <1> SUFFICES ASSUME TypeInv, WritesInv, RepliesInv, [Next]_vars, NEW v \in Workers
               PROVE  LogoutReply(v)' /\ TokenReply(v)'
    BY DEF RepliesInv
  <1>1. ASSUME NEW w \in Workers, Start(w) \/ Step(w) \/ Fault(w)
        PROVE  LogoutReply(v)' /\ TokenReply(v)'
    BY <1>1, OwnReply, OtherReply
  <1>2. CASE \/ \E j \in handed : Expire(j)
             \/ UNCHANGED vars
    BY <1>2 DEF Expire, vars, store, RepliesInv, LogoutReply, TokenReply, Sql
  <1>3. ASSUME NEW u \in Users, DeleteUser(u) PROVE LogoutReply(v)' /\ TokenReply(v)'
    <2>1. UNCHANGED <<backend, req, tx, expired>>
      BY <1>3 DEF DeleteUser
    <2>2. req[v].op = "logout" => req[v].jti \in handed
      BY DEF WritesInv, HandlerState
    <2>3. LogoutReply(v)'
      BY <2>1, <2>2, NextSpent DEF RepliesInv, LogoutReply
    <2>4. Sql
      BY <1>3 DEF DeleteUser
    <2> QED
      BY <2>1, <2>3, <2>4 DEF RepliesInv, TokenReply, Sql
  <1> QED
    BY <1>1, <1>2, <1>3 DEF Next

\* When a request ends and its commit does not fail, what it promised is in
\* the table.
LEMMA KeptPromises ==
    ASSUME TypeInv, WritesInv, RepliesInv, NEW w \in Workers, Teardown(w)
    PROVE  /\ \A j \in handed' \ handed : tok'[j] = "live"
           /\ \A j \in loggedOut' \ loggedOut : tok'[j] # "live" \/ j \in expired
  <1>1. Commit(w) /\ Deliver(w)
    BY DEF Teardown
  <1>2. ASSUME NEW j \in handed' \ handed PROVE tok'[j] = "live"
    <2>1. j = req[w].out /\ j \in Jtis /\ j # NoJti
      BY <1>1, <1>2, ConstantsAssumption DEF Deliver
    <2>2. CASE Sql
      BY <1>1, <2>1, <2>2 DEF Commit, RepliesInv, TokenReply
    <2>3. CASE ~Sql
      <3>1. tok[j] = "live" /\ tx[w].revoked = {}
        BY <2>1, <2>3, MemoryWrites DEF RepliesInv, TokenReply
      <3> QED
        BY <1>1, <2>1, <3>1 DEF Commit
    <2> QED
      BY <2>2, <2>3
  <1>3. ASSUME NEW j \in loggedOut' \ loggedOut PROVE tok'[j] # "live" \/ j \in expired
    <2>1. j = req[w].jti /\ req[w].op = "logout" /\ req[w].reply = "no_content"
      BY <1>1, <1>3 DEF Deliver
    <2>2. j \in handed /\ j \in Jtis
      BY <2>1 DEF WritesInv, HandlerState, TypeInv, CallState
    <2>3. j \notin tx[w].created
      BY <2>2, ConstantsAssumption DEF WritesInv, TokenWrites
    <2>4. tok[j] # "live" \/ j \in expired \/ j \in tx[w].revoked
      BY <2>1 DEF RepliesInv, LogoutReply
    <2> QED
      BY <1>1, <2>2, <2>3, <2>4 DEF Commit
  <1> QED
    BY <1>2, <1>3

\* The replies reach the clients at the end of a request only.
LEMMA HistorySteps ==
    ASSUME [Next]_vars
    PROVE  \/ UNCHANGED history
           \/ \E w \in Workers : Teardown(w) \/ TeardownCommitFails(w)
  BY DEF Next, Start, StartRegister, StartLogin, StartRefresh, StartLogout, Step, Fault,
         ExistsByEmail, CreateUser, CreateUserSql, CreateUserMemory, GetByEmail,
         IssueTokens, IssueTokensFails, GetByJti, RevokeSelect, RevokeUpdate,
         RevokeUpdateFails, RevokeMemory, GetOwner, ReplyLost, Crash, StatementFails,
         Fail, Expire, DeleteUser, vars, history

\* The expiry of a token is final.
LEMMA ExpiredGrows == ASSUME [Next]_vars PROVE expired \subseteq expired'
  BY DEF Next, Start, StartRegister, StartLogin, StartRefresh, StartLogout, Step, Fault,
         ExistsByEmail, CreateUser, CreateUserSql, CreateUserMemory, GetByEmail,
         IssueTokens, IssueTokensFails, GetByJti, RevokeSelect, RevokeUpdate,
         RevokeUpdateFails, RevokeMemory, GetOwner, Teardown, TeardownCommitFails,
         ReplyLost, Crash, StatementFails, Finish, Fail, Expire, DeleteUser, vars

\* What a handler is about to answer is already in its transaction, or stored:
\* a logout whose 204 is not yet sent has marked its token revoked, and a token
\* not yet sent has its row, whatever other requests do to both.
THEOREM RepliesInvariance == Spec => []RepliesInv
  <1>1. Init => RepliesInv
    BY DEF Init, RepliesInv, LogoutReply, TokenReply, NoRequest
  <1> QED
    BY <1>1, NextReplies, TypeInvariance, WritesApart, PTL DEF Spec

\* Where no commit fails, a refresh token reaches a client only with a live
\* row behind it: "the row is guaranteed present" of _issue_tokens.
THEOREM DeliveredLive ==
    ASSUME "commit" \notin Environment PROVE Spec => DeliveredTokenIsLive
  <1>1. TypeInv /\ WritesInv /\ RepliesInv /\ [Next]_vars
          => [\A j \in handed' \ handed : tok'[j] = "live"]_vars
    BY HistorySteps, KeptPromises DEF history, TeardownCommitFails
  <1> QED
    BY <1>1, TypeInvariance, WritesApart, RepliesInvariance, PTL
       DEF Spec, DeliveredTokenIsLive

\* Where no commit fails, a token whose logout was answered 204 is useless
\* for ever, whatever refreshes and logouts of it were under way.
THEOREM LogoutIsFinal ==
    ASSUME "commit" \notin Environment PROVE Spec => []LogoutHolds
  <1> DEFINE Held == LogoutHolds /\ loggedOut \subseteq handed
  <1>1. Init => Held
    BY DEF Init, LogoutHolds
  <1>2. TypeInv /\ WritesInv /\ RepliesInv /\ Held /\ [Next]_vars => Held'
    <2> SUFFICES ASSUME TypeInv, WritesInv, RepliesInv, Held, [Next]_vars
                 PROVE  Held'
      OBVIOUS
    <2>1. \A j \in loggedOut : tok'[j] # "live" \/ j \in expired'
      BY NextSpent, ExpiredGrows DEF LogoutHolds
    <2>2. CASE UNCHANGED history
      BY <2>1, <2>2 DEF history, LogoutHolds
    <2>3. ASSUME NEW w \in Workers, Teardown(w) PROVE Held'
      <3>1. \A j \in loggedOut' \ loggedOut : tok'[j] # "live" \/ j \in expired'
        BY <2>3, KeptPromises, ExpiredGrows
      <3>2. handed \subseteq handed' /\ loggedOut' \subseteq loggedOut \cup handed
        BY <2>3 DEF Teardown, Deliver, WritesInv, HandlerState
      <3> QED
        BY <2>1, <3>1, <3>2 DEF LogoutHolds
    <2> QED
      BY <2>2, <2>3, HistorySteps DEF TeardownCommitFails
  <1>3. Held => LogoutHolds
    OBVIOUS
  <1> HIDE DEF Held
  <1> QED
    BY <1>1, <1>2, <1>3, TypeInvariance, WritesApart, RepliesInvariance, PTL DEF Spec
-----------------------------------------------------------------------------
(***************************************************************************)
(* Rotation with one worker, the deployment of entrypoint.sh: a login      *)
(* session never has two live refresh tokens, on either backend, and an    *)
(* ended session stays ended on SQL.  With two workers both fail (see the  *)
(* run race_refresh).                                                      *)
(***************************************************************************)

Alone(w) == Workers = {w}

Inv == TypeInv /\ WritesInv /\ RotationInv

\* The ids of a session are minted ids.
LEMMA LiveMinted ==
    ASSUME Inv, NEW f, NEW i \in LiveIn(f)
    PROVE  i \in Minted /\ f \in Minted /\ i \in Jtis
  BY DEF Inv, LiveIn, WritesInv, RotationInv

\* Nothing the sessions are made of changes.
LEMMA QuietSessions ==
    ASSUME UNCHANGED <<tok, family>>, NEW f
    PROVE  LiveIn(f)' = LiveIn(f)
  BY DEF LiveIn

\* A request that is not a rotation, and has minted nothing, has no part in
\* RotationInv.
LEMMA OutsideRotation ==
    ASSUME Inv, NEW w \in Workers, Alone(w), UNCHANGED <<tok, owner, family>>,
           req'[w].op # "refresh" \/ pc'[w] \notin {"revoke", "update", "owner", "issue"},
           tx'[w].created = {}
    PROVE  RotationInv'
  <1>1. RotationState(w)'
    BY DEF RotationState
  <1>2. SuccessorState(w)'
    BY DEF SuccessorState
  <1>3. OneLivePerSession'
    BY QuietSessions DEF Inv, RotationInv, OneLivePerSession
  <1>4. Workers' = Workers
    OBVIOUS
  <1> QED
    BY <1>1, <1>2, <1>3 DEF Inv, RotationInv, Minted, Alone

\* Requests, e-mail look-ups, new accounts and errors keep RotationInv.
LEMMA OutsideSteps ==
    ASSUME Inv, NEW w \in Workers, Alone(w),
           \/ Start(w) \/ ExistsByEmail(w) \/ GetByEmail(w) \/ CreateUser(w) \/ Fail(w)
    PROVE  RotationInv'
  <1> USE DEF store, claims, Inv
  <1>1. CASE Fail(w)
    <2>1. pc'[w] = "teardown" /\ tx'[w].created = {} /\ UNCHANGED <<tok, owner, family>>
      BY <1>1 DEF Fail, Goto, NoWrites, TypeInv, TypeOK
    <2> QED
      BY <2>1, OutsideRotation
  <1>2. CASE Start(w)
    <2>1. /\ pc'[w] \notin {"revoke", "update", "owner", "issue"} \/ req'[w].op = "logout"
          /\ pc[w] = "idle" /\ UNCHANGED <<tok, owner, family, tx>>
      <3>1. CASE \E e \in Emails : StartRegister(w, e) \/ StartLogin(w, e)
        BY <3>1 DEF StartRegister, StartLogin, Goto, TypeInv, TypeOK
      <3>2. CASE \E j \in handed : StartRefresh(w, j)
        BY <3>2 DEF StartRefresh, Goto, TypeInv, TypeOK
      <3>3. CASE \E j \in handed : StartLogout(w, j)
        BY <3>3 DEF StartLogout, Goto, NoRequest, TypeInv, TypeOK
      <3> QED
        BY <1>2, <3>1, <3>2, <3>3 DEF Start
    <2> QED
      BY <2>1, NothingCreated, OutsideRotation
  <1>3. CASE ExistsByEmail(w) \/ GetByEmail(w)
    <2>1. /\ pc[w] \in {"exists", "by_email"} /\ req'[w].op = req[w].op
          /\ UNCHANGED <<tok, owner, family, tx>>
      BY <1>3 DEF ExistsByEmail, GetByEmail, Answer, TypeInv, TypeOK, Request
    <2>2. req[w].op # "refresh"
      BY <2>1 DEF TypeInv, CallState
    <2> QED
      BY <2>1, <2>2, NothingCreated, OutsideRotation
  <1>4. CASE CreateUser(w) /\ ~Fail(w)
    <2>1. /\ pc[w] = "insert_user" /\ req'[w].op = req[w].op
          /\ tx'[w].created = tx[w].created
          /\ UNCHANGED <<tok, owner, family>>
      BY <1>4 DEF CreateUser, CreateUserSql, CreateUserMemory, TypeInv, TypeOK, Request, Writes
    <2>2. req[w].op # "refresh"
      BY <2>1 DEF TypeInv, CallState
    <2> QED
      BY <2>1, <2>2, NothingCreated, OutsideRotation
  <1> QED
    BY <1>1, <1>2, <1>3, <1>4

\* A step of a rotation before its new token keeps RotationInv if it keeps
\* the state of the rotation and makes no token live.
LEMMA InsideRotation ==
    ASSUME Inv, NEW w \in Workers, Alone(w), UNCHANGED <<owner, family>>,
           \A j \in Jtis : tok'[j] = "live" => tok[j] = "live",
           tx'[w].created = {},
           RotationState(w)'
    PROVE  RotationInv'
  <1>1. SuccessorState(w)'
    BY DEF SuccessorState
  <1>2. OneLivePerSession'
    BY DEF Inv, RotationInv, OneLivePerSession, LiveIn
  <1> QED
    BY <1>1, <1>2 DEF Inv, RotationInv, Minted, Alone

\* The look-up, the revocation and the owner check keep RotationInv.
LEMMA InsideSteps ==
    ASSUME Inv, NEW w \in Workers, Alone(w),
           \/ GetByJti(w) \/ RevokeSelect(w) \/ RevokeUpdate(w)
           \/ RevokeMemory(w) \/ GetOwner(w)
    PROVE  RotationInv'
  <1> USE DEF store, claims, Inv
  <1>1. /\ pc[w] \in {"by_jti", "revoke", "update", "owner"}
        /\ req'[w].op = req[w].op /\ req'[w].jti = req[w].jti
        /\ tx'[w].created = tx[w].created
        /\ UNCHANGED <<backend, owner, family, userRow>>
    BY DEF GetByJti, RevokeSelect, RevokeUpdate, RevokeMemory, GetOwner, AfterRevoke, Answer,
           Goto, TypeInv, TypeOK, Request, Writes
  <1>2. tx'[w].created = {}
    BY <1>1, NothingCreated
  <1>3. req[w].jti \in Jtis /\ RotationState(w) /\ OneLivePerSession
    BY <1>1 DEF TypeInv, CallState, RotationInv
  <1>4. CASE GetByJti(w)
    <2>1. LiveIn(family[req[w].jti])' = LiveIn(family[req[w].jti])
      BY <1>1, <1>4 DEF GetByJti, LiveIn
    <2>2. tok[req[w].jti] = "live" => LiveIn(family[req[w].jti]) \subseteq {req[w].jti}
      BY <1>3 DEF OneLivePerSession, LiveIn, RotationInv, WritesInv, Minted
    <2>3. RotationState(w)'
      BY <1>1, <1>3, <1>4, <2>1, <2>2 DEF GetByJti, Answer, Goto, RotationState, TypeInv, TypeOK
    <2> QED
      BY <1>1, <1>2, <1>4, <2>3, InsideRotation DEF GetByJti
  <1>5. CASE RevokeSelect(w)
    <2>1. LiveIn(family[req[w].jti])' = LiveIn(family[req[w].jti])
      BY <1>1, <1>5 DEF RevokeSelect, LiveIn
    <2>2. RotationState(w)'
      BY <1>1, <1>3, <1>5, <2>1
         DEF RevokeSelect, AfterRevoke, Answer, Goto, RotationState, TypeInv, TypeOK
    <2> QED
      BY <1>1, <1>2, <1>5, <2>2, InsideRotation DEF RevokeSelect
  <1>6. CASE RevokeUpdate(w)
    <2>1. LiveIn(family[req[w].jti])' = LiveIn(family[req[w].jti])
      BY <1>1, <1>6 DEF RevokeUpdate, LiveIn
    <2>2. /\ req[w].jti \in tx'[w].revoked /\ UNCHANGED tok /\ HasRow(req[w].jti)
          /\ pc[w] = "update" /\ Sql
      BY <1>6 DEF RevokeUpdate, TypeInv, TypeOK, Writes
    <2>3. pc'[w] \in {"owner", "teardown"}
      BY <1>6 DEF RevokeUpdate, AfterRevoke, Answer, Goto, TypeInv, TypeOK
    <2>4. RotationState(w)'
      BY <1>1, <1>3, <2>1, <2>2, <2>3 DEF RotationState, Spent, HasRow, Sql
    <2> QED
      BY <1>1, <1>2, <2>2, <2>4, InsideRotation
  <1>7. CASE RevokeMemory(w)
    <2>1. /\ \A j \in Jtis : tok'[j] = "live" => tok[j] = "live"
          /\ tok[req[w].jti] = "live" => tok'[req[w].jti] = "revoked"
          /\ tok[req[w].jti] = "deleted" => tok'[req[w].jti] = "deleted"
          /\ pc[w] = "revoke" /\ ~Sql
      BY <1>3, <1>7 DEF RevokeMemory, TypeInv, TypeOK
    <2>2. pc'[w] \in {"owner", "teardown"}
      BY <1>7 DEF RevokeMemory, AfterRevoke, Answer, Goto, TypeInv, TypeOK
    <2>3. LiveIn(family[req[w].jti])' \subseteq LiveIn(family[req[w].jti])
      BY <1>1, <2>1 DEF LiveIn
    <2>4. RotationState(w)'
      BY <1>1, <1>3, <2>1, <2>2, <2>3 DEF RotationState, Spent, Sql
    <2> QED
      BY <1>1, <1>2, <2>1, <2>4, InsideRotation
  <1>8. CASE GetOwner(w)
    <2>1. /\ LiveIn(family[req[w].jti])' = LiveIn(family[req[w].jti])
          /\ UNCHANGED <<tok, tx>> /\ pc[w] = "owner"
      BY <1>1, <1>8 DEF GetOwner, LiveIn
    <2>2. /\ pc'[w] \in {"issue", "teardown"}
          /\ pc'[w] = "issue" => userRow[owner[req[w].jti]] = "present"
      BY <1>8 DEF GetOwner, Answer, Goto, TypeInv, TypeOK
    <2>3. pc'[w] = "issue" => tok[req[w].jti] # "deleted"
      BY <1>3, <2>2 DEF WritesInv
    <2>4. RotationState(w)'
      BY <1>1, <1>3, <2>1, <2>2, <2>3 DEF RotationState, Spent, Sql
    <2> QED
      BY <1>1, <1>2, <2>1, <2>4, InsideRotation
  <1> QED
    BY <1>4, <1>5, <1>6, <1>7, <1>8


\* Minting keeps RotationInv: a session of its own is new, and in a rotation
\* the only live token of the session is the one being spent.
LEMMA IssueStep ==
    ASSUME Inv, NEW w \in Workers, Alone(w), IssueTokens(w)
    PROVE  RotationInv'
  <1> USE DEF Inv
  <1>1. PICK j \in FreshJtis :
            /\ owner' = [owner EXCEPT ![j] = req[w].user]
            /\ family' = [family EXCEPT ![j] = Session(w, j)]
            /\ \/ /\ Sql
                  /\ tx' = [tx EXCEPT ![w].created = @ \cup {j}]
                  /\ UNCHANGED tok
               \/ /\ ~Sql
                  /\ tok' = [tok EXCEPT ![j] = "live"]
                  /\ UNCHANGED tx
    BY DEF IssueTokens
  <1>2. /\ pc[w] = "issue" /\ pc'[w] = "teardown" /\ req[w].user \in Users
        /\ tx[w].created = {}
    BY NothingCreated DEF IssueTokens, Goto, TypeInv, TypeOK, WritesInv, HandlerState
  <1>3. j \in Jtis /\ j \notin Minted /\ tok[j] = "absent" /\ family[j] = NoJti
    BY DEF FreshJtis, WritesInv, RotationInv
  <1>4. /\ \A i \in Jtis \ {j} : owner'[i] = owner[i] /\ family'[i] = family[i]
        /\ owner'[j] # NoUser /\ family'[j] = Session(w, j)
        /\ Minted' = Minted \cup {j}
    BY <1>1, <1>2, <1>3, ConstantsAssumption DEF Minted, TypeInv, TypeOK
  <1>f. PICK f : f = Session(w, j)
    OBVIOUS
  <1>5. \/ f = j
        \/ req[w].op = "refresh" /\ req[w].jti \in Minted /\ f = family[req[w].jti]
    BY <1>2, <1>f DEF Session, WritesInv, HandlerState, TypeInv, CallState
  <1>6. f \in Minted \cup {j}
    BY <1>3, <1>5 DEF RotationInv, Minted
  <1>7. \/ LiveIn(f) = {}
        \/ /\ Sql /\ f = family[req[w].jti] /\ req[w].jti \in Jtis
           /\ LiveIn(f) \subseteq tx[w].revoked
           /\ req[w].jti \in tx[w].revoked /\ tok[req[w].jti] = "live"
    <2>1. CASE f = j
      BY <1>3, <2>1, LiveMinted
    <2>2. CASE req[w].op = "refresh" /\ req[w].jti \in Minted /\ f = family[req[w].jti]
      <3>1. LiveIn(f) \subseteq {req[w].jti} /\ Spent(w) /\ req[w].jti \in Jtis
        BY <1>2, <2>2 DEF RotationInv, RotationState, Minted
      <3> QED
        BY <2>2, <3>1 DEF Spent, LiveIn
    <2> QED
      BY <1>5, <2>1, <2>2
  <1>8. RotationState(w)'
    BY <1>2 DEF RotationState
  <1>9. CASE Sql
    <2>1. /\ UNCHANGED tok /\ tx'[w].created = {j} /\ tx'[w].revoked = tx[w].revoked
      BY <1>1, <1>2, <1>9 DEF TypeInv, TypeOK, Writes
    <2>2. ASSUME NEW g PROVE LiveIn(g)' = LiveIn(g)
      BY <1>3, <1>4, <2>1 DEF LiveIn
    <2>3. OneLivePerSession'
      BY <2>2 DEF OneLivePerSession, RotationInv
    <2>4. family'[j] = f /\ LiveIn(f)' = LiveIn(f)
      BY <1>4, <1>f, <2>2
    <2>5. f = j \/ \E t \in tx'[w].revoked : tok'[t] = "live" /\ family'[t] = f
      <3>1. CASE f = j
        BY <3>1
      <3>2. CASE f # j
        <4>1. req[w].op = "refresh" /\ f = family[req[w].jti] /\ req[w].jti \in Minted
          BY <1>5, <3>2
        <4>2. Spent(w) /\ req[w].jti \in Jtis /\ req[w].jti # j
          BY <1>2, <1>3, <4>1 DEF RotationInv, RotationState, Minted
        <4> QED
          BY <1>4, <1>9, <2>1, <4>1, <4>2 DEF Spent, Sql
      <3> QED
        BY <3>1, <3>2
    <2>6. LiveIn(f)' \subseteq tx'[w].revoked
      BY <1>7, <2>1, <2>4
    <2>7. SuccessorState(w)'
      BY <2>1, <2>4, <2>5, <2>6 DEF SuccessorState, LiveIn
    <2>8. \A i \in Jtis : IF i \in Minted' THEN family'[i] \in Minted' ELSE family'[i] = NoJti
      BY <1>4, <1>6, <2>4 DEF RotationInv
    <2> QED
      BY <1>8, <2>3, <2>7, <2>8 DEF RotationInv, Alone
  <1>10. CASE ~Sql
    <2>1. /\ \A i \in Jtis \ {j} : tok'[i] = tok[i]
          /\ tx'[w].created = {}
      BY <1>1, <1>2, <1>10 DEF TypeInv, TypeOK
    <2>2. LiveIn(f) = {}
      BY <1>7, <1>10
    <2>3. ASSUME NEW g \in Jtis, NEW i \in LiveIn(g)', NEW k \in LiveIn(g)' PROVE i = k
      <3>1. i \in Jtis /\ k \in Jtis /\ tok'[i] = "live" /\ tok'[k] = "live"
            /\ family'[i] = g /\ family'[k] = g
        BY <2>3 DEF LiveIn
      <3>2. CASE g = f
        BY <1>4, <2>1, <2>2, <3>1, <3>2 DEF LiveIn
      <3>3. CASE g # f
        <4>1. i # j /\ k # j
          BY <1>4, <1>f, <3>1, <3>3
        <4>2. i \in LiveIn(g) /\ k \in LiveIn(g)
          BY <1>4, <2>1, <3>1, <4>1 DEF LiveIn
        <4> QED
          BY <4>2 DEF RotationInv, OneLivePerSession
      <3> QED
        BY <3>2, <3>3
    <2>4. OneLivePerSession'
      BY <2>3 DEF OneLivePerSession
    <2>5. SuccessorState(w)'
      BY <2>1 DEF SuccessorState
    <2>6. \A i \in Jtis : IF i \in Minted' THEN family'[i] \in Minted' ELSE family'[i] = NoJti
      BY <1>4, <1>6, <1>f DEF RotationInv
    <2> QED
      BY <1>8, <2>4, <2>5, <2>6 DEF RotationInv, Alone
  <1> QED
    BY <1>9, <1>10

\* What a commit does to the live tokens of a session.
LEMMA CommitSession ==
    ASSUME Inv, NEW w \in Workers, Commit(w), UNCHANGED family, NEW g
    PROVE  /\ \A i, k \in LiveIn(g)' : i \notin LiveIn(g) /\ k \notin LiveIn(g) => i = k
           /\ \A i \in LiveIn(g)' : i \in LiveIn(g) \/ i \in tx[w].created
           /\ (\E i \in LiveIn(g)' : i \in tx[w].created) => LiveIn(g) \cap LiveIn(g)' = {}
  <1> USE DEF Inv
  <1>1. /\ tx[w].created \subseteq {req[w].out}
        /\ \A j \in tx[w].created : tok[j] = "absent"
    BY DEF WritesInv, TokenWrites
  <1>2. \A i \in LiveIn(g)' : i \in LiveIn(g) \/ i \in tx[w].created
    BY DEF LiveIn, Commit
  <1>3. ASSUME NEW i \in LiveIn(g)', i \in tx[w].created PROVE LiveIn(g) \cap LiveIn(g)' = {}
    <2>1. family[i] = g /\ LiveIn(g) \subseteq tx[w].revoked
      BY <1>3 DEF LiveIn, RotationInv, SuccessorState
    <2> QED
      BY <1>1, <2>1 DEF LiveIn, Commit
  <1> QED
    BY <1>1, <1>2, <1>3

\* The end of a request keeps RotationInv.
LEMMA FinishStep ==
    ASSUME Inv, NEW w \in Workers, Alone(w),
           Teardown(w) \/ TeardownCommitFails(w) \/ ReplyLost(w) \/ Crash(w)
    PROVE  RotationInv'
  <1> USE DEF Inv, store, claims
  <1>1. /\ req'[w].op = "none" /\ tx'[w].created = {} /\ UNCHANGED <<owner, family>>
    BY DEF Teardown, TeardownCommitFails, ReplyLost, Crash, Finish, NoRequest, NoWrites,
           TypeInv, TypeOK
  <1>2. CASE UNCHANGED store
    BY <1>1, <1>2, OutsideRotation
  <1>3. CASE Commit(w)
    <2>1. OneLivePerSession'
      BY <1>1, <1>3, CommitSession DEF OneLivePerSession, RotationInv
    <2>2. RotationState(w)' /\ SuccessorState(w)'
      BY <1>1 DEF RotationState, SuccessorState
    <2> QED
      BY <1>1, <2>1, <2>2 DEF RotationInv, Minted, Alone
  <1> QED
    BY <1>2, <1>3 DEF Teardown, TeardownCommitFails, ReplyLost, Crash


\* The operator's DELETE keeps RotationInv: it waits for a rotation that has
\* written one of the account's rows.
LEMMA DeleteStep ==
    ASSUME Inv, NEW w \in Workers, Alone(w), NEW u \in Users, DeleteUser(u)
    PROVE  RotationInv'
  <1> USE DEF Inv, claims
  <1>1. /\ \A j \in Jtis : tok'[j] = IF owner[j] = u /\ HasRow(j) THEN "deleted" ELSE tok[j]
        /\ \A j \in tx[w].revoked \cup tx[w].created : owner[j] # u
        /\ UNCHANGED <<backend, owner, family, pc, req, tx>>
        /\ Sql
    BY DEF DeleteUser, UserLocked
  <1>2. \A j \in tx[w].revoked : j \in Jtis => tok'[j] = tok[j]
    BY <1>1
  <1>3. \A g : LiveIn(g)' \subseteq LiveIn(g)
    BY <1>1 DEF LiveIn
  <1>4. OneLivePerSession'
    BY <1>3 DEF RotationInv, OneLivePerSession
  <1>5. RotationState(w)'
    <2> SUFFICES ASSUME req[w].op = "refresh" PROVE RotationState(w)'
      BY <1>1 DEF RotationState
    <2> DEFINE j == req[w].jti
    <2>1. j \in Jtis /\ RotationState(w)
      BY DEF TypeInv, CallState, RotationInv
    <2>2. LiveIn(family[j])' \subseteq LiveIn(family[j])
      BY <1>1, <1>3
    <2>3. tok[j] \in {"live", "deleted"} => tok'[j] \in {"live", "deleted"}
      BY <1>1, <2>1 DEF HasRow
    <2>4. tok[j] = "deleted" => tok'[j] = "deleted"
      BY <1>1, <2>1 DEF HasRow
    <2>5. Spent(w) => Spent(w)'
      BY <1>1, <1>2, <2>1 DEF Spent, Sql
    <2> QED
      BY <1>1, <2>1, <2>2, <2>3, <2>4, <2>5 DEF RotationState
  <1>6. SuccessorState(w)'
    <2>1. SuccessorState(w)
      BY DEF RotationInv
    <2>2. tx[w].revoked \subseteq Jtis
      BY DEF TypeInv, TypeOK, Writes
    <2> QED
      BY <1>1, <1>2, <1>3, <2>1, <2>2 DEF SuccessorState
  <1> QED
    BY <1>1, <1>4, <1>5, <1>6 DEF RotationInv, Minted, Alone

\* With one worker every step keeps RotationInv.
LEMMA NextRotation ==
    ASSUME NEW w \in Workers, Alone(w)
    PROVE  Inv /\ [Next]_vars => RotationInv'
  <1> SUFFICES ASSUME Inv, [Next]_vars PROVE RotationInv'
    OBVIOUS
  <1>1. CASE Start(w) \/ Step(w) \/ Fault(w)
    BY <1>1, OutsideSteps, InsideSteps, IssueStep, FinishStep
       DEF Step, Fault, IssueTokensFails, RevokeUpdateFails, StatementFails
  <1>2. CASE \/ \E j \in handed : Expire(j)
             \/ UNCHANGED vars
    BY <1>2 DEF Inv, Expire, vars, store, claims, RotationInv, RotationState, SuccessorState,
                Spent, Sql, OneLivePerSession, LiveIn, Minted
  <1>3. ASSUME NEW u \in Users, DeleteUser(u) PROVE RotationInv'
    BY <1>3, DeleteStep
  <1> QED
    BY <1>1, <1>2, <1>3 DEF Next, Alone

LEMMA Rotations == ASSUME NEW w \in Workers, Alone(w) PROVE Spec => []Inv
  <1>1. Init => RotationInv
    BY DEF Init, RotationInv, RotationState, SuccessorState, OneLivePerSession, LiveIn,
           Minted, NoRequest, NoWrites
  <1>2. Inv /\ [Next]_vars => RotationInv'
    BY NextRotation
  <1>3. Inv <=> TypeInv /\ WritesInv /\ RotationInv
    BY DEF Inv
  <1> QED
    BY <1>1, <1>2, <1>3, TypeInvariance, WritesApart, PTL DEF Spec

\* What one worker at a time adds, the strengthening behind the theorems below:
\* between the look-up of a rotation and its commit the presented token is the
\* only live one of its session, and the successor waits in the transaction
\* that spends it.
THEOREM RotationsAlone ==
    ASSUME NEW w \in Workers, Alone(w) PROVE Spec => []RotationInv
  <1>1. Inv => RotationInv
    BY DEF Inv
  <1> QED
    BY <1>1, Rotations, PTL

\* With one worker, a login session never has two live refresh tokens: on
\* either backend, for any number of accounts, sessions and rotations, and
\* whatever fails around the handlers.
THEOREM OneLiveToken ==
    ASSUME NEW w \in Workers, Alone(w) PROVE Spec => []OneLivePerSession
  <1>1. Inv => OneLivePerSession
    BY DEF Inv, RotationInv
  <1> QED
    BY <1>1, Rotations, PTL

\* With one worker on SQL no step revives a session without a live token.
LEMMA NextEnded ==
    ASSUME Sql, NEW w \in Workers, Alone(w), Inv, [Next]_vars,
           NEW f \in Jtis, tok[f] # "absent", LiveIn(f) = {}
    PROVE  LiveIn(f)' = {}
  <1> USE DEF Inv
  <1>1. CASE Commit(w) /\ UNCHANGED family
    <2> SUFFICES ASSUME NEW k \in LiveIn(f)' PROVE FALSE
      OBVIOUS
    <2>1. k \in tx[w].created /\ family[k] = f /\ tok[k] = "absent"
      BY <1>1 DEF LiveIn, Commit, WritesInv, TokenWrites
    <2>2. \E t \in tx[w].revoked : tok[t] = "live" /\ family[t] = f
      BY <2>1 DEF RotationInv, SuccessorState
    <2> QED
      BY <2>2 DEF LiveIn, TypeInv, TypeOK, Writes
  <1>2. CASE IssueTokens(w)
    <2>1. UNCHANGED tok /\ \E j \in FreshJtis : \A i \in Jtis \ {j} : family'[i] = family[i]
      BY <1>2 DEF IssueTokens, TypeInv, TypeOK
    <2>2. \A j \in FreshJtis : tok[j] = "absent"
      BY DEF FreshJtis, WritesInv
    <2> QED
      BY <2>1, <2>2 DEF LiveIn
  <1>3. CASE UNCHANGED <<tok, family>>
    BY <1>3, QuietSessions
  <1>4. CASE Start(w) \/ Step(w) \/ Fault(w)
    <2>1. \/ Commit(w) /\ UNCHANGED family
          \/ IssueTokens(w)
          \/ UNCHANGED <<tok, family>>
      BY <1>4 DEF Start, StartRegister, StartLogin, StartRefresh, StartLogout, Step, Fault,
                  ExistsByEmail, CreateUser, CreateUserSql, CreateUserMemory, GetByEmail,
                  IssueTokensFails, GetByJti, RevokeSelect, RevokeUpdate,
                  RevokeUpdateFails, RevokeMemory, GetOwner, Teardown, TeardownCommitFails,
                  ReplyLost, Crash, StatementFails, Finish, Fail, store, claims
    <2> QED
      BY <1>1, <1>2, <1>3, <2>1
  <1>5. ASSUME NEW u \in Users, DeleteUser(u) PROVE LiveIn(f)' = {}
    BY <1>5 DEF DeleteUser, claims, LiveIn, HasRow
  <1> QED
    BY <1>3, <1>4, <1>5 DEF Next, Alone, Expire, store, claims, vars

\* With one worker on SQL a login session that has ended, by a logout or
\* with its account, is never brought back.
THEOREM EndedForever ==
    ASSUME NEW w \in Workers, Alone(w) PROVE Spec => EndedSessionStaysEnded
  <1>1. Inv /\ [Next]_vars
          => [Sql => \A f \in Jtis : tok[f] # "absent" /\ LiveIn(f) = {} => LiveIn(f)' = {}]_vars
    BY NextEnded
  <1> QED
    BY <1>1, Rotations, PTL DEF Spec, EndedSessionStaysEnded

-----------------------------------------------------------------------------
(***************************************************************************)
(* The refinement.  With one worker the account endpoints implement        *)
(* OneShotTokens, on either backend and whatever fails around them.  The   *)
(* proof follows the mapping of TokenRotation: on SQL the commit of a      *)
(* rotation is the one step of the promise, on memory the storing of the   *)
(* new token.                                                              *)
(***************************************************************************)

\* What a transaction has written is what its request asks for: a logout
\* revokes its token and creates none, a login or a registration creates the
\* first token of a session and revokes none, and a refresh does both.
TxState(w) ==
    /\ tx[w].revoked \subseteq {req[w].jti}
    /\ tx[w].revoked # {} => req[w].op \in {"refresh", "logout"}
    /\ \A k \in tx[w].created :
          IF req[w].op = "refresh"
          THEN /\ family[k] = family[req[w].jti]
               /\ req[w].jti \in tx[w].revoked
               /\ tok[req[w].jti] = "live"
          ELSE family[k] = k /\ tx[w].revoked = {}

\* Accounts are deleted in the database only.
MemoryKeeps == ~Sql => \A j \in Jtis : tok[j] # "deleted"

PInv == MemoryKeeps /\ \A w \in Workers : TxState(w)

-----------------------------------------------------------------------------
(***************************************************************************)
(* The invariant                                                           *)
(***************************************************************************)

\* A transaction that has written nothing agrees with any request.
LEMMA Unwritten ==
    ASSUME NEW w, tx'[w].revoked = {}, tx'[w].created = {} PROVE TxState(w)'
  BY DEF TxState

\* A request goes on: what it has written stays, and stands for the same.
LEMMA SameWrites ==
    ASSUME PInv, NEW w \in Workers, UNCHANGED <<tx, tok, family>>,
           req'[w].op = req[w].op, req'[w].jti = req[w].jti
    PROVE  TxState(w)'
  BY DEF PInv, TxState

\* The steps of a handler keep what the transaction stands for.
LEMMA StepTx ==
    ASSUME Inv, PInv, NEW w \in Workers, Alone(w), Start(w) \/ Step(w) \/ Fault(w)
    PROVE  TxState(w)'
  <1> USE DEF Inv, store, claims
  <1>1. CASE Fail(w)
    <2>1. tx'[w].revoked = {} /\ tx'[w].created = {}
      BY <1>1 DEF Fail, NoWrites, TypeInv, TypeOK
    <2> QED
      BY <2>1, Unwritten
  <1>2. CASE Start(w)
    <2>1. pc[w] = "idle" /\ UNCHANGED tx
      BY <1>2 DEF Start, StartRegister, StartLogin, StartRefresh, StartLogout
    <2>2. tx'[w].revoked = {} /\ tx'[w].created = {}
      BY <2>1 DEF WritesInv, HandlerState, NoWrites
    <2> QED
      BY <2>2, Unwritten
  <1>3. CASE ExistsByEmail(w) \/ GetByEmail(w) \/ GetByJti(w) \/ RevokeSelect(w) \/ GetOwner(w)
    <2>1. UNCHANGED <<tx, tok, family>> /\ req'[w].op = req[w].op /\ req'[w].jti = req[w].jti
      BY <1>3 DEF ExistsByEmail, GetByEmail, GetByJti, RevokeSelect, GetOwner, AfterRevoke, Answer,
                  TypeInv, TypeOK, Request
    <2> QED
      BY <2>1, SameWrites
  <1>4. CASE CreateUser(w) /\ ~Fail(w)
    <2>1. /\ pc[w] = "insert_user" /\ tx'[w].created = tx[w].created /\ tx'[w].revoked = tx[w].revoked
          /\ req'[w].op = req[w].op /\ req'[w].jti = req[w].jti
          /\ UNCHANGED <<tok, family>>
      BY <1>4 DEF CreateUser, CreateUserSql, CreateUserMemory, TypeInv, TypeOK, Request, Writes
    <2> QED
      BY <2>1 DEF PInv, TxState
  <1>5. CASE IssueTokens(w)
    <2>1. PICK j \in FreshJtis :
            /\ family' = [family EXCEPT ![j] = Session(w, j)]
            /\ \/ Sql /\ tx' = [tx EXCEPT ![w].created = @ \cup {j}] /\ UNCHANGED tok
               \/ ~Sql /\ UNCHANGED tx
      BY <1>5 DEF IssueTokens
    <2>2. /\ pc[w] = "issue" /\ req'[w].op = req[w].op /\ req'[w].jti = req[w].jti
          /\ tx[w].created = {} /\ TxState(w) /\ j \in Jtis /\ tok[j] = "absent"
      BY <1>5, <2>1, NothingCreated
         DEF IssueTokens, TypeInv, TypeOK, Request, PInv, FreshJtis, WritesInv
    <2>3. CASE ~Sql
      <3>1. tx'[w] = NoWrites
        BY <2>1, <2>3 DEF WritesInv, HandlerState
      <3> QED
        BY <3>1, Unwritten DEF NoWrites
    <2>4. CASE Sql
      <3>1. tx'[w].created = {j} /\ tx'[w].revoked = tx[w].revoked /\ UNCHANGED tok
        BY <2>1, <2>2, <2>4 DEF TypeInv, TypeOK, Writes
      <3>2. family'[j] = Session(w, j) /\ \A i \in Jtis \ {j} : family'[i] = family[i]
        BY <2>1, <2>2 DEF TypeInv, TypeOK
      <3>3. CASE req[w].op = "refresh"
        <4>1. /\ req[w].jti \in Jtis /\ req[w].jti \in tx[w].revoked /\ tok[req[w].jti] = "live"
          BY <2>2, <2>4, <3>3 DEF TypeInv, CallState, RotationInv, RotationState, Spent
        <4> QED
          BY <2>2, <3>1, <3>2, <3>3, <4>1 DEF TxState, Session
      <3>4. CASE req[w].op # "refresh"
        <4>1. tx[w].revoked = {}
          BY <2>2, <3>4 DEF TxState, TypeInv, CallState
        <4> QED
          BY <2>2, <3>1, <3>2, <3>4, <4>1 DEF TxState, Session
      <3> QED
        BY <3>3, <3>4
    <2> QED
      BY <2>3, <2>4
  <1>6. CASE RevokeUpdate(w)
    <2>1. /\ pc[w] = "update" /\ req'[w].op = req[w].op /\ req'[w].jti = req[w].jti
          /\ tx'[w].created = tx[w].created /\ tx'[w].revoked = tx[w].revoked \cup {req[w].jti}
      BY <1>6 DEF RevokeUpdate, AfterRevoke, Answer, TypeInv, TypeOK, Request, Writes
    <2>2. tx'[w].created = {} /\ req[w].op \in {"refresh", "logout"} /\ TxState(w)
      BY <2>1, NothingCreated DEF TypeInv, CallState, PInv
    <2> QED
      BY <2>1, <2>2 DEF TxState
  <1>7. CASE RevokeMemory(w)
    <2>1. tx'[w] = NoWrites
      BY <1>7 DEF RevokeMemory, WritesInv, HandlerState
    <2> QED
      BY <2>1, Unwritten DEF NoWrites
  <1>8. CASE Teardown(w) \/ TeardownCommitFails(w) \/ ReplyLost(w) \/ Crash(w)
    <2>1. tx'[w] = NoWrites
      BY <1>8 DEF Teardown, TeardownCommitFails, ReplyLost, Crash, Finish, TypeInv, TypeOK
    <2> QED
      BY <2>1, Unwritten DEF NoWrites
  <1> QED
    BY <1>1, <1>2, <1>3, <1>4, <1>5, <1>6, <1>7, <1>8
       DEF Step, Fault, IssueTokensFails, RevokeUpdateFails, StatementFails

\* No step on the memory backend deletes a token.
LEMMA StepMemory ==
    ASSUME Inv, PInv, [Next]_vars PROVE MemoryKeeps'
  <1> USE DEF Inv, store, claims
  <1> SUFFICES ASSUME ~Sql', NEW j \in Jtis PROVE tok'[j] # "deleted"
    BY DEF MemoryKeeps
  <1>1. UNCHANGED backend
    BY DEF Next, vars, Start, StartRegister, StartLogin, StartRefresh, StartLogout, Step, Fault,
           ExistsByEmail, CreateUser, CreateUserSql, CreateUserMemory, GetByEmail, IssueTokens,
           IssueTokensFails, GetByJti, RevokeSelect, RevokeUpdate, RevokeUpdateFails, RevokeMemory,
           GetOwner, Teardown, TeardownCommitFails, ReplyLost, Crash, StatementFails, Finish, Fail,
           AfterRevoke, Answer, Goto, Expire, DeleteUser
  <1>2. ~Sql /\ tok[j] # "deleted"
    BY <1>1 DEF PInv, MemoryKeeps, Sql
  <1>3. tok'[j] = tok[j] \/ tok'[j] \in {"live", "revoked"}
    <2>1. ASSUME NEW w \in Workers, Start(w) \/ Step(w) \/ Fault(w)
          PROVE  tok'[j] = tok[j] \/ tok'[j] \in {"live", "revoked"}
      BY <1>2, <2>1
         DEF Start, StartRegister, StartLogin, StartRefresh, StartLogout, Step, Fault,
             ExistsByEmail, CreateUser, CreateUserSql, CreateUserMemory, GetByEmail, IssueTokens,
             IssueTokensFails, GetByJti, RevokeSelect, RevokeUpdate, RevokeUpdateFails, RevokeMemory,
             GetOwner, Teardown, TeardownCommitFails, ReplyLost, Crash, StatementFails, Finish, Fail,
             Commit, TypeInv, TypeOK
    <2> QED
      BY <1>2, <2>1 DEF Next, Expire, DeleteUser, vars
  <1> QED
    BY <1>2, <1>3

\* With one worker every step keeps the invariant.
LEMMA NextPInv ==
    ASSUME Inv, PInv, NEW w \in Workers, Alone(w), [Next]_vars PROVE PInv'
  <1>1. MemoryKeeps'
    BY StepMemory
  <1>2. CASE Start(w) \/ Step(w) \/ Fault(w)
    BY <1>1, <1>2, StepTx DEF PInv, Alone
  <1>3. ASSUME NEW u \in Users, DeleteUser(u) PROVE TxState(w)'
    <2>1. /\ \A j \in tx[w].revoked : j \in Jtis => tok'[j] = tok[j]
          /\ UNCHANGED <<family, req, tx>> /\ TxState(w)
      BY <1>3 DEF DeleteUser, UserLocked, claims, PInv
    <2>2. tx[w].revoked \subseteq Jtis
      BY DEF Inv, TypeInv, TypeOK, Writes
    <2> QED
      BY <2>1, <2>2 DEF TxState
  <1>4. CASE (\E j \in handed : Expire(j)) \/ UNCHANGED vars
    <2>1. UNCHANGED <<tx, tok, family, req>>
      BY <1>4 DEF Expire, vars, store, claims
    <2> QED
      BY <1>1, <2>1, SameWrites DEF PInv, Alone
  <1> QED
    BY <1>1, <1>2, <1>3, <1>4 DEF Next, Alone, PInv

-----------------------------------------------------------------------------
(***************************************************************************)
(* The refinement                                                          *)
(***************************************************************************)

Promised == [Promise!Next]_(Promise!vars)

\* With one worker a token is being rotated when that worker rotates it.
RotatedBy(w, j) == pc[w] \in {"owner", "issue"} /\ req[w].op = "refresh" /\ req[w].jti = j

LEMMA RotatingAlone ==
    ASSUME NEW w \in Workers, Alone(w), NEW j
    PROVE  (Rotating(j) <=> RotatedBy(w, j)) /\ (Rotating(j)' <=> RotatedBy(w, j)')
  BY DEF Rotating, RotatedBy, Alone

\* What the promise sees of a token follows from its row and, on memory, from
\* the rotation it is in.
LEMMA Stutter ==
    ASSUME UNCHANGED <<backend, tok>>,
           \A j \in Jtis : tok[j] # "absent" => family'[j] = family[j],
           ~Sql => \A j \in Jtis : Rotating(j)' <=> Rotating(j)
    PROVE  Promised
  <1>1. Status' = Status
    BY DEF Status, Sql
  <1>2. SessionOf' = SessionOf
    BY DEF SessionOf
  <1> QED
    BY <1>1, <1>2 DEF Promised, Promise!vars

\* Tokens are spent.
LEMMA Spending ==
    ASSUME NEW S \in SUBSET Jtis,
           \A t \in Jtis : Status'[t] = IF t \in S THEN "spent" ELSE Status[t],
           \A t \in S : Status[t] = "live",
           SessionOf' = SessionOf
    PROVE  Promised
  <1>1. Status' = [t \in Jtis |-> IF t \in S THEN "spent" ELSE Status[t]]
    BY DEF Status
  <1> QED
    BY <1>1 DEF Promised, Promise!Next, Promise!Spend

\* A session opens with token k.
LEMMA Granting ==
    ASSUME NEW k \in Jtis, Status[k] = "unknown", Status'[k] = "live", SessionOf'[k] = k,
           \A t \in Jtis \ {k} : Status'[t] = Status[t] /\ SessionOf'[t] = SessionOf[t]
    PROVE  Promised
  <1>1. Status' = [Status EXCEPT ![k] = "live"] /\ SessionOf' = [SessionOf EXCEPT ![k] = k]
    BY DEF Status, SessionOf
  <1> QED
    BY <1>1 DEF Promised, Promise!Next, Promise!Grant

\* Token old is traded for k.
LEMMA Trading ==
    ASSUME NEW old \in Jtis, NEW k \in Jtis, Status[old] = "live", Status[k] = "unknown",
           Status'[old] = "spent", Status'[k] = "live",
           SessionOf'[k] = SessionOf[old], SessionOf'[old] = SessionOf[old],
           \A t \in Jtis \ {old, k} : Status'[t] = Status[t] /\ SessionOf'[t] = SessionOf[t]
    PROVE  Promised
  <1>1. Status' = [Status EXCEPT ![old] = "spent", ![k] = "live"]
    BY DEF Status
  <1>2. SessionOf' = [SessionOf EXCEPT ![k] = SessionOf[old]]
    BY DEF SessionOf
  <1> QED
    BY <1>1, <1>2 DEF Promised, Promise!Next, Promise!Rotate

\* Requests, look-ups, new accounts and errors on SQL are no steps of the promise.
LEMMA QuietPromise ==
    ASSUME Inv, PInv, NEW w \in Workers, Alone(w),
           \/ Start(w) \/ ExistsByEmail(w) \/ GetByEmail(w) \/ CreateUser(w)
           \/ GetByJti(w) \/ RevokeSelect(w) \/ RevokeUpdate(w)
           \/ Fail(w) /\ (Sql \/ pc[w] = "update")
           \/ TeardownCommitFails(w) \/ Crash(w)
    PROVE  Promised
  <1> USE DEF Inv, store, claims
  <1>1. UNCHANGED <<backend, tok, family>>
    BY DEF Start, StartRegister, StartLogin, StartRefresh, StartLogout, ExistsByEmail, GetByEmail,
           CreateUser, CreateUserSql, CreateUserMemory, GetByJti, RevokeSelect, RevokeUpdate, Fail,
           TeardownCommitFails, Crash, Finish, AfterRevoke, Answer, Goto
  <1>2. ASSUME ~Sql, NEW j \in Jtis PROVE Rotating(j)' <=> Rotating(j)
    <2>1. pc[w] \notin {"owner", "issue"} \/ req[w].op # "refresh"
      BY <1>2 DEF Start, StartRegister, StartLogin, StartRefresh, StartLogout, ExistsByEmail, GetByEmail,
                  CreateUser, GetByJti, RevokeSelect, RevokeUpdate, TeardownCommitFails, Crash
    <2>2. pc'[w] \notin {"owner", "issue"} \/ req'[w].op # "refresh"
      <3>1. CASE Start(w)
        BY <3>1 DEF Start, StartRegister, StartLogin, StartRefresh, StartLogout, Goto, TypeInv, TypeOK
      <3>2. CASE ExistsByEmail(w) \/ GetByEmail(w) \/ CreateUser(w)
        BY <1>2, <3>2 DEF ExistsByEmail, GetByEmail, CreateUser, CreateUserSql, CreateUserMemory,
                          Answer, Goto, TypeInv, TypeOK, CallState, Request
      <3>3. CASE GetByJti(w) \/ Fail(w)
        BY <3>3 DEF GetByJti, Fail, Answer, Goto, TypeInv, TypeOK
      <3> QED
        BY <1>2, <3>1, <3>2, <3>3 DEF RevokeSelect, RevokeUpdate, TeardownCommitFails, Crash
    <2> QED
      BY <2>1, <2>2, RotatingAlone DEF RotatedBy
  <1> QED
    BY <1>1, <1>2, Stutter

\* The steps of a rotation on memory: the revocation is not seen by the
\* promise, the end of the rotation without a successor spends the token.
LEMMA MemoryPromise ==
    ASSUME Inv, PInv, NEW w \in Workers, Alone(w), ~Sql,
           RevokeMemory(w) \/ GetOwner(w) \/ (pc[w] = "issue" /\ Fail(w))
    PROVE  Promised
  <1> USE DEF Inv, store, claims
  <1> DEFINE old == req[w].jti
  <1>1. /\ UNCHANGED <<backend, family>> /\ req'[w].op = req[w].op /\ req'[w].jti = old
        /\ ~Sql' /\ MemoryKeeps
    <2>1. UNCHANGED <<backend, family>> /\ MemoryKeeps
      BY DEF RevokeMemory, GetOwner, Fail, AfterRevoke, Answer, Goto, PInv
    <2>2. req'[w].op = req[w].op /\ req'[w].jti = old
      <3>1. UNCHANGED req \/ (\E r : req' = [req EXCEPT ![w].reply = r])
            \/ req' = [req EXCEPT ![w].user = owner[old]]
            \/ req' = [req EXCEPT ![w] = [@ EXCEPT !.reply = "INTERNAL_ERROR", !.out = NoJti]]
        BY DEF RevokeMemory, GetOwner, Fail, AfterRevoke, Answer
      <3>2. req \in [Workers -> Request] /\ req[w] \in Request
        BY DEF TypeInv, TypeOK
      <3>3. CASE UNCHANGED req
        BY <3>3
      <3>4. CASE \E r : req' = [req EXCEPT ![w].reply = r]
        <4>1. PICK r : req' = [req EXCEPT ![w].reply = r]
          BY <3>4
        <4> HIDE DEF Inv, old
        <4>2. req'[w] = [req[w] EXCEPT !.reply = r]
          BY <3>2, <4>1
        <4> QED
          BY <3>2, <4>2 DEF Request, old
      <3>5. CASE req' = [req EXCEPT ![w].user = owner[old]]
        <4> HIDE DEF Inv, old
        <4>1. req'[w] = [req[w] EXCEPT !.user = owner[old]]
          BY <3>2, <3>5
        <4> QED
          BY <3>2, <4>1 DEF Request, old
      <3>6. CASE req' = [req EXCEPT ![w] = [@ EXCEPT !.reply = "INTERNAL_ERROR", !.out = NoJti]]
        <4> HIDE DEF Inv, old
        <4>1. req'[w] = [req[w] EXCEPT !.reply = "INTERNAL_ERROR", !.out = NoJti]
          BY <3>2, <3>6
        <4> QED
          BY <3>2, <4>1 DEF Request, old
      <3> QED
        BY <3>1, <3>3, <3>4, <3>5, <3>6
    <2> QED
      BY <2>1, <2>2 DEF Sql
  <1>2. CASE RevokeMemory(w) /\ req[w].op = "refresh"
    <2>1. /\ pc[w] = "revoke" /\ pc'[w] = "owner" /\ old \in Jtis
          /\ tok' = [tok EXCEPT ![old] = IF @ = "live" THEN "revoked" ELSE @]
      BY <1>2 DEF RevokeMemory, AfterRevoke, Goto, TypeInv, TypeOK, CallState
    <2>2. tok[old] = "live" /\ tok'[old] = "revoked"
      BY <1>1, <1>2, <2>1 DEF RotationInv, RotationState, MemoryKeeps, TypeInv, TypeOK
    <2>3. \A j \in Jtis : Rotating(j)' <=> j = old
      BY <1>1, <1>2, <2>1, RotatingAlone DEF RotatedBy
    <2>4. \A j \in Jtis : ~Rotating(j)
      BY <2>1, RotatingAlone DEF RotatedBy
    <2>5. \A j \in Jtis \ {old} : tok'[j] = tok[j]
      BY <2>1 DEF TypeInv, TypeOK
    <2>6. Status' = Status
      BY <1>1, <2>1, <2>2, <2>3, <2>4, <2>5 DEF Status
    <2>7. SessionOf' = SessionOf
      BY <1>1, <2>2, <2>5 DEF SessionOf
    <2> QED
      BY <2>6, <2>7 DEF Promised, Promise!vars
  <1>3. CASE RevokeMemory(w) /\ req[w].op = "logout"
    <2> DEFINE S == {j \in {old} : tok[j] = "live"}
    <2>1. /\ pc[w] = "revoke" /\ old \in Jtis
          /\ \A j \in Jtis : tok'[j] = IF j \in S THEN "revoked" ELSE tok[j]
      BY <1>3 DEF RevokeMemory, TypeInv, TypeOK, CallState
    <2>2. \A j \in Jtis : ~Rotating(j) /\ ~Rotating(j)'
      BY <1>1, <1>3, RotatingAlone DEF RotatedBy
    <2>3. \A j \in Jtis : Status'[j] = IF j \in S THEN "spent" ELSE Status[j]
      BY <1>1, <2>1, <2>2 DEF Status
    <2>4. \A j \in S : Status[j] = "live"
      BY <2>1 DEF Status
    <2>5. SessionOf' = SessionOf
      BY <1>1, <2>1 DEF SessionOf
    <2>6. S \in SUBSET Jtis
      BY <2>1
    <2> QED
      BY <2>3, <2>4, <2>5, <2>6, Spending
  <1>4. CASE GetOwner(w) \/ (pc[w] = "issue" /\ Fail(w))
    <2>1. UNCHANGED tok /\ SessionOf' = SessionOf
      BY <1>1, <1>4 DEF GetOwner, Fail, SessionOf
    <2>2. CASE pc'[w] = "issue" \/ req[w].op # "refresh"
      <3>1. pc[w] \in {"owner", "issue"} /\ (pc'[w] = "issue" => pc[w] = "owner")
        BY <1>4 DEF GetOwner, Fail, Goto, TypeInv, TypeOK
      <3>2. \A j \in Jtis : Rotating(j)' <=> Rotating(j)
        BY <1>1, <2>2, <3>1, RotatingAlone DEF RotatedBy
      <3> QED
        BY <1>1, <2>1, <3>2, Stutter
    <2>3. CASE pc'[w] = "teardown" /\ req[w].op = "refresh"
      <3>1. pc[w] \in {"owner", "issue"} /\ old \in Jtis
        BY <1>4, <2>3 DEF GetOwner, TypeInv, CallState
      <3>2. \A j \in Jtis : (Rotating(j) <=> j = old) /\ ~Rotating(j)'
        BY <2>3, <3>1, RotatingAlone DEF RotatedBy
      <3>3. tok[old] = "revoked"
        BY <2>3, <3>1, <1>1 DEF RotationInv, RotationState, Spent, MemoryKeeps
      <3>4. \A j \in Jtis : Status'[j] = IF j \in {old} THEN "spent" ELSE Status[j]
        BY <1>1, <2>1, <3>2, <3>3 DEF Status
      <3>5. Status[old] = "live"
        BY <3>1, <3>2, <3>3 DEF Status
      <3> QED
        BY <2>1, <3>1, <3>4, <3>5, Spending
    <2> QED
      BY <1>4, <2>2, <2>3 DEF GetOwner, Fail, Answer, Goto, TypeInv, TypeOK
  <1> QED
    BY <1>2, <1>3, <1>4 DEF RevokeMemory, AfterRevoke

\* A new token: on SQL it is not seen before the commit, on memory it opens a
\* session or ends a rotation.
LEMMA IssuePromise ==
    ASSUME Inv, PInv, NEW w \in Workers, Alone(w), IssueTokens(w) PROVE Promised
  <1> USE DEF Inv
  <1> DEFINE old == req[w].jti
  <1>1. PICK j \in FreshJtis :
            /\ family' = [family EXCEPT ![j] = Session(w, j)]
            /\ \/ Sql /\ UNCHANGED tok
               \/ ~Sql /\ tok' = [tok EXCEPT ![j] = "live"]
    BY DEF IssueTokens
  <1>2. /\ j \in Jtis /\ tok[j] = "absent" /\ pc[w] = "issue" /\ pc'[w] = "teardown"
        /\ UNCHANGED backend /\ (Sql' <=> Sql)
    BY <1>1 DEF IssueTokens, FreshJtis, WritesInv, Goto, TypeInv, TypeOK, Sql
  <1>3. family'[j] = Session(w, j) /\ \A i \in Jtis \ {j} : family'[i] = family[i]
    BY <1>1, <1>2 DEF TypeInv, TypeOK
  <1>4. CASE Sql
    BY <1>1, <1>2, <1>3, <1>4, Stutter
  <1>5. CASE ~Sql
    <2>1. tok'[j] = "live" /\ \A i \in Jtis \ {j} : tok'[i] = tok[i]
      BY <1>1, <1>2, <1>5 DEF TypeInv, TypeOK
    <2>2. \A i \in Jtis : ~Rotating(i)'
      BY <1>2, RotatingAlone DEF RotatedBy
    <2>3. Status[j] = "unknown" /\ Status'[j] = "live" /\ SessionOf'[j] = Session(w, j)
      BY <1>2, <1>3, <2>1 DEF Status, SessionOf
    <2>4. \A i \in Jtis \ {j} : SessionOf'[i] = SessionOf[i]
      BY <1>3, <2>1 DEF SessionOf
    <2>5. CASE req[w].op # "refresh"
      <3>1. \A i \in Jtis : ~Rotating(i)
        BY <2>5, RotatingAlone DEF RotatedBy
      <3>2. \A i \in Jtis \ {j} : Status'[i] = Status[i]
        BY <1>2, <2>1, <2>2, <3>1 DEF Status
      <3> QED
        BY <1>2, <2>3, <2>4, <2>5, <3>2, Granting DEF Session
    <2>6. CASE req[w].op = "refresh"
      <3>1. old \in Jtis /\ tok[old] = "revoked" /\ old # j
        BY <1>2, <1>5, <2>6 DEF TypeInv, CallState, RotationInv, RotationState, Spent
      <3>2. \A i \in Jtis : Rotating(i) <=> i = old
        BY <1>2, <2>6, RotatingAlone DEF RotatedBy
      <3>3. Status[old] = "live" /\ Status'[old] = "spent" /\ SessionOf[old] = family[old]
        BY <1>2, <1>5, <2>1, <2>2, <3>1, <3>2 DEF Status, SessionOf
      <3>4. \A i \in Jtis \ {old, j} : Status'[i] = Status[i]
        BY <1>2, <2>1, <2>2, <3>2 DEF Status
      <3> QED
        BY <1>2, <2>3, <2>4, <2>6, <3>1, <3>3, <3>4, Trading DEF Session
    <2> QED
      BY <2>5, <2>6
  <1> QED
    BY <1>4, <1>5

\* A commit spends tokens, opens a session, or trades one token for another.
LEMMA CommitPromise ==
    ASSUME Inv, PInv, NEW w \in Workers, Alone(w), pc[w] = "teardown", pc'[w] = "idle",
           Commit(w), UNCHANGED <<backend, family>>
    PROVE  Promised
  <1> USE DEF Inv
  <1> DEFINE old == req[w].jti
             C == tx[w].created
             R == tx[w].revoked
  <1>1. /\ C \subseteq {req[w].out} /\ TxState(w) /\ C \subseteq Jtis /\ R \subseteq Jtis
        /\ \A j \in C : tok[j] = "absent"
        /\ \A j \in R : tok[j] \in {"live", "revoked"}
    BY DEF WritesInv, TokenWrites, PInv, TypeInv, TypeOK, Writes, HasRow
  <1>2. /\ \A j \in Jtis : ~Rotating(j) /\ ~Rotating(j)'
        /\ Sql' <=> Sql
    BY RotatingAlone DEF RotatedBy, Sql
  <1>3. \A j \in Jtis : tok'[j] = IF j \in C THEN "live" ELSE IF j \in R THEN "revoked" ELSE tok[j]
    BY DEF Commit
  <1>4. /\ \A j \in Jtis : Status[j] = IF tok[j] = "absent" THEN "unknown"
                                       ELSE IF tok[j] = "live" THEN "live" ELSE "spent"
        /\ \A j \in Jtis : Status'[j] = IF tok'[j] = "absent" THEN "unknown"
                                        ELSE IF tok'[j] = "live" THEN "live" ELSE "spent"
    BY <1>2 DEF Status
  <1>5. \A j \in Jtis \ C : SessionOf'[j] = SessionOf[j]
    BY <1>1, <1>3 DEF SessionOf
  <1>6. \A j \in Jtis \ (C \cup R) : Status'[j] = Status[j]
    BY <1>3, <1>4
  <1>7. CASE C = {}
    <2> DEFINE S == {j \in R : tok[j] = "live"}
    <2>1. SessionOf' = SessionOf
      BY <1>5, <1>7 DEF SessionOf
    <2>2. \A j \in Jtis : Status'[j] = IF j \in S THEN "spent" ELSE Status[j]
      BY <1>1, <1>3, <1>4, <1>7
    <2>3. S \in SUBSET Jtis /\ \A j \in S : Status[j] = "live"
      BY <1>1, <1>4
    <2> QED
      BY <2>1, <2>2, <2>3, Spending
  <1>8. ASSUME NEW k \in C PROVE Promised
    <2>1. C = {k} /\ k \in Jtis /\ Status[k] = "unknown" /\ Status'[k] = "live" /\ SessionOf'[k] = family[k]
      BY <1>1, <1>3, <1>4, <1>8 DEF SessionOf
    <2>2. CASE req[w].op = "refresh"
      <3>1. R = {old} /\ old \in Jtis /\ tok[old] = "live" /\ old # k /\ family[k] = family[old]
        BY <1>1, <1>8, <2>2 DEF TxState
      <3>2. Status[old] = "live" /\ Status'[old] = "spent" /\ SessionOf[old] = family[old]
        BY <1>3, <1>4, <2>1, <3>1 DEF SessionOf
      <3> QED
        BY <1>5, <1>6, <2>1, <3>1, <3>2, Trading
    <2>3. CASE req[w].op # "refresh"
      <3>1. R = {} /\ family[k] = k
        BY <1>1, <1>8, <2>3 DEF TxState
      <3> QED
        BY <1>5, <1>6, <2>1, <3>1, Granting
    <2> QED
      BY <2>2, <2>3
  <1> QED
    BY <1>7, <1>8

\* The operator's DELETE spends the live tokens of the account.
LEMMA DeletePromise ==
    ASSUME Inv, PInv, NEW u \in Users, DeleteUser(u) PROVE Promised
  <1> USE DEF Inv, claims
  <1> DEFINE S == {j \in Jtis : owner[j] = u /\ tok[j] = "live"}
  <1>1. /\ Sql /\ Sql' /\ UNCHANGED family
        /\ \A j \in Jtis : tok'[j] = IF owner[j] = u /\ HasRow(j) THEN "deleted" ELSE tok[j]
    BY DEF DeleteUser, Sql
  <1>2. \A j \in Jtis : Status'[j] = IF j \in S THEN "spent" ELSE Status[j]
    BY <1>1 DEF Status, HasRow
  <1>3. \A j \in S : Status[j] = "live"
    BY DEF Status
  <1>4. SessionOf' = SessionOf
    BY <1>1 DEF SessionOf, HasRow
  <1> QED
    BY <1>2, <1>3, <1>4, Spending

\* With one worker every step is a step of the promise, or none.
LEMMA NextPromise ==
    ASSUME Inv, PInv, NEW w \in Workers, Alone(w), [Next]_vars PROVE Promised
  <1> USE DEF store, claims
  <1>1. CASE Teardown(w) \/ ReplyLost(w)
    BY <1>1, CommitPromise DEF Teardown, ReplyLost, Finish, Goto, Inv, TypeInv, TypeOK
  <1>2. CASE IssueTokensFails(w) \/ RevokeUpdateFails(w) \/ StatementFails(w)
    BY <1>2, QuietPromise, MemoryPromise DEF IssueTokensFails, RevokeUpdateFails, StatementFails
  <1>3. CASE RevokeMemory(w) \/ GetOwner(w)
    <2>1. CASE Sql
      <3>1. UNCHANGED <<backend, tok, family>>
        BY <1>3, <2>1 DEF RevokeMemory, GetOwner, Answer, Goto
      <3> QED
        BY <2>1, <3>1, Stutter
    <2>2. CASE ~Sql
      BY <1>3, <2>2, MemoryPromise
    <2> QED
      BY <2>1, <2>2
  <1>4. CASE Start(w) \/ Step(w) \/ Fault(w)
    BY <1>1, <1>2, <1>3, <1>4, QuietPromise, IssuePromise DEF Step, Fault
  <1>5. CASE (\E j \in handed : Expire(j)) \/ UNCHANGED vars
    <2>1. UNCHANGED <<backend, tok, family, pc, req>>
      BY <1>5 DEF Expire, vars
    <2>2. \A j \in Jtis : Rotating(j)' <=> Rotating(j)
      BY <2>1 DEF Rotating
    <2> QED
      BY <2>1, <2>2, Stutter
  <1> QED
    BY <1>4, <1>5, DeletePromise DEF Next, Alone

\* No request has been made, no token granted.
LEMMA InitPromise == Init => PInv /\ Promise!Init
  <1> SUFFICES ASSUME Init PROVE PInv /\ Promise!Init
    OBVIOUS
  <1>1. PInv
    BY DEF Init, PInv, MemoryKeeps, TxState, NoWrites
  <1>2. Promise!Init
    BY DEF Init, Promise!Init, Status, SessionOf
  <1> QED
    BY <1>1, <1>2

\* With one worker, the deployment of entrypoint.sh, the account endpoints
\* implement the one-shot tokens of OneShotTokens: for any number of accounts,
\* sessions and rotations, on either backend, whatever fails around them.
THEOREM EndpointsImplementPromise ==
    ASSUME NEW w \in Workers, Alone(w) PROVE Spec => PromiseSpec
  <1>1. Inv /\ PInv /\ [Next]_vars => PInv' /\ [Promise!Next]_(Promise!vars)
    BY NextPInv, NextPromise DEF Promised
  <1> QED
    BY <1>1, InitPromise, Rotations, PTL DEF Spec, PromiseSpec, Promise!Spec
=============================================================================
