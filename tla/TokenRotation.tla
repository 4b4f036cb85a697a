--------------------------- MODULE TokenRotation ---------------------------
(***************************************************************************)
(* The account endpoints of app/api/v1/auth.py over the user and refresh-  *)
(* token repositories, inside the request-scoped session of                *)
(* app/__init__.py.                                                        *)
(*                                                                         *)
(* A worker serves one request at a time.  Every repository call is one    *)
(* step.  On the SQL backend a call reads committed rows (READ COMMITTED), *)
(* its writes stay in the worker's transaction tx[w] until the teardown    *)
(* hook commits them, and a statement waits while another transaction      *)
(* holds the row, or the e-mail, it writes.  On the memory backend a call  *)
(* takes effect at once.  The reply is chosen by the handler and leaves    *)
(* after the teardown hook, whether or not the commit succeeded.           *)
(***************************************************************************)
EXTENDS FiniteSets, Naturals

CONSTANTS
    Workers,        \* gunicorn workers (SQL) or server threads (memory)
    Emails,         \* normalized e-mail addresses
    Users,          \* user ids; a bound on how many are ever created
    Jtis,           \* refresh-token ids; a bound on how many are ever minted
    NoEmail, NoUser, NoJti,
    Backends,       \* what REPO_BACKEND may say when the server starts
    Environment     \* what the run lets happen around the handlers

Events == {"expiry",        \* the clock passes a refresh token's exp
           "delete_user",   \* an operator deletes an account in the database
           "statement",     \* a statement fails: lost connection, timeout
           "commit",        \* the commit of the teardown hook fails
           "lost_reply",    \* the reply does not reach the client
           "crash"}         \* the worker dies in the middle of a request

ASSUME ConstantsAssumption ==
    /\ NoEmail \notin Emails            \* the absent values are not values
    /\ NoUser \notin Users
    /\ NoJti \notin Jtis
    /\ Backends \subseteq {"sql", "memory"}
    /\ Environment \subseteq Events

VARIABLES
    backend,    \* "sql" or "memory", for as long as the server runs
    userRow,    \* users table: "absent", "present" or "deleted"
    byEmail,    \* committed e-mail index (the UNIQUE users.email)
    tok,        \* refresh_tokens table, a row's liveness by jti
    owner,      \* the user a token was minted for: its sub claim, its user_id
    family,     \* history: the token that opened the login session
    expired,    \* tokens whose exp has passed
    handed,     \* tokens that reached a client in a reply
    loggedOut,  \* tokens for which a logout was answered 204
    pc,         \* the next call of the worker's handler
    req,        \* the request a worker serves and what its handler knows
    tx          \* the uncommitted writes of the worker's session

store   == <<userRow, byEmail, tok>>
claims  == <<owner, family>>
history == <<handed, loggedOut>>
vars    == <<backend, store, claims, expired, history, pc, req, tx>>

Sql == backend = "sql"

TokenRow == {"absent", "live", "revoked", "deleted"}
Ops      == {"none", "register", "login", "refresh", "logout"}
Steps    == {"idle", "exists", "insert_user", "by_email", "by_jti", "revoke",
             "update", "owner", "issue", "teardown"}
Replies  == {"none", "tokens", "no_content", "EMAIL_TAKEN", "INVALID_CREDENTIALS",
             "TOKEN_INVALID", "TOKEN_EXPIRED", "INTERNAL_ERROR"}

Request == [op : Ops, email : Emails \cup {NoEmail}, jti : Jtis \cup {NoJti},
            user : Users \cup {NoUser}, out : Jtis \cup {NoJti}, reply : Replies]

Writes == [user : Users \cup {NoUser}, revoked : SUBSET Jtis, created : SUBSET Jtis]

NoRequest == [op |-> "none", email |-> NoEmail, jti |-> NoJti,
              user |-> NoUser, out |-> NoJti, reply |-> "none"]

NoWrites == [user |-> NoUser, revoked |-> {}, created |-> {}]

\* Every variable has its type: the rows, the requests and the transactions
\* of app/db/models.py and app/api/v1/auth.py.
TypeOK ==
    /\ backend \in Backends
    /\ userRow \in [Users -> {"absent", "present", "deleted"}]
    /\ byEmail \in [Emails -> Users \cup {NoUser}]
    /\ tok \in [Jtis -> TokenRow]
    /\ owner \in [Jtis -> Users \cup {NoUser}]
    /\ family \in [Jtis -> Jtis \cup {NoJti}]
    /\ expired \in SUBSET Jtis
    /\ handed \in SUBSET Jtis
    /\ loggedOut \in SUBSET Jtis
    /\ pc \in [Workers -> Steps]
    /\ req \in [Workers -> Request]
    /\ tx \in [Workers -> Writes]

Init ==
    /\ backend \in Backends
    /\ userRow = [u \in Users |-> "absent"]
    /\ byEmail = [e \in Emails |-> NoUser]
    /\ tok = [j \in Jtis |-> "absent"]
    /\ owner = [j \in Jtis |-> NoUser]
    /\ family = [j \in Jtis |-> NoJti]
    /\ expired = {}
    /\ handed = {}
    /\ loggedOut = {}
    /\ pc = [w \in Workers |-> "idle"]
    /\ req = [w \in Workers |-> NoRequest]
    /\ tx = [w \in Workers |-> NoWrites]

-----------------------------------------------------------------------------
(***************************************************************************)
(* Helpers.                                                                *)
(***************************************************************************)

Minted == {j \in Jtis : owner[j] # NoUser}

\* Mutant of FreshJtis: an id is taken again once its row is not live.
ReusedJtis == {j \in Jtis : tok[j] # "live"}

\* uuid4().hex never repeats: an id nobody holds and no row or transaction has.
FreshJtis == Jtis \ Minted

FreshUsers == {u \in Users : /\ userRow[u] = "absent"
                             /\ \A j \in Jtis : owner[j] # u
                             /\ \A w \in Workers : tx[w].user # u}

\* Bounds.  A request that may mint a token, or create a user, is accepted
\* only while an unused id is left for it and for every one under way.
Minting(w) == \/ req[w].op \in {"register", "refresh"} /\ pc[w] \notin {"idle", "teardown"}
              \/ pc[w] = "issue"

RoomForToken == Cardinality(FreshJtis) > Cardinality({w \in Workers : Minting(w)})

RoomForUser ==
    Cardinality(FreshUsers) >
        Cardinality({w \in Workers : req[w].op = "register" /\ pc[w] \in {"exists", "insert_user"}})

\* get_by_jti and the SELECT of revoke: the row, revoked or not, is there.
HasRow(j) == tok[j] \in {"live", "revoked"}

\* The row locks of the database: another transaction has written the row.
JtiLocked(w, j) == \E v \in Workers \ {w} : j \in tx[v].revoked

EmailLocked(w, e) == \E v \in Workers \ {w} : tx[v].user # NoUser /\ req[v].email = e

UserLocked(u) == \E w \in Workers : \E j \in tx[w].revoked \cup tx[w].created : owner[j] = u

Goto(w, step) == pc' = [pc EXCEPT ![w] = step] /\ UNCHANGED backend

\* The handler returns, or raises an ApiError that the error handler answers.
Answer(w, reply) ==
    /\ Goto(w, "teardown")
    /\ req' = [req EXCEPT ![w].reply = reply]

\* A flush raises: SQLAlchemy rolls the transaction back at once, and the
\* catch-all error handler answers 500.
Fail(w) ==
    /\ Goto(w, "teardown")
    /\ req' = [req EXCEPT ![w] = [@ EXCEPT !.reply = "INTERNAL_ERROR", !.out = NoJti]]
    /\ tx' = [tx EXCEPT ![w] = NoWrites]
    /\ UNCHANGED <<store, claims, expired, history>>

-----------------------------------------------------------------------------
(***************************************************************************)
(* POST /register                                                          *)
(***************************************************************************)

StartRegister(w, e) ==
    /\ pc[w] = "idle"
    /\ RoomForUser /\ RoomForToken
    /\ Goto(w, "exists")
    /\ req' = [req EXCEPT ![w] = [NoRequest EXCEPT !.op = "register", !.email = e]]
    /\ UNCHANGED <<store, claims, expired, history, tx>>

\* exists_by_email reads committed rows only.
ExistsByEmail(w) ==
    /\ pc[w] = "exists"
    /\ \/ /\ byEmail[req[w].email] # NoUser
          /\ Answer(w, "EMAIL_TAKEN")
       \/ /\ byEmail[req[w].email] = NoUser
          /\ Goto(w, "insert_user")
          /\ UNCHANGED req
    /\ UNCHANGED <<store, claims, expired, history, tx>>

\* Mutant of CreateUserSql: users.email has lost its UNIQUE constraint.
CreateUserNotUnique(w) ==
    /\ Sql
    /\ \E u \in FreshUsers :
          /\ tx' = [tx EXCEPT ![w].user = u]
          /\ req' = [req EXCEPT ![w].user = u]
    /\ Goto(w, "issue")
    /\ UNCHANGED <<store, claims, expired, history>>

\* The INSERT waits for another uncommitted user of the same e-mail; the
\* UNIQUE constraint then lets it in or raises IntegrityError.
CreateUserSql(w) ==
    /\ Sql
    /\ ~EmailLocked(w, req[w].email)
    /\ \/ /\ byEmail[req[w].email] # NoUser
          /\ Fail(w)
       \/ /\ byEmail[req[w].email] = NoUser
          /\ \E u \in FreshUsers :
                /\ tx' = [tx EXCEPT ![w].user = u]
                /\ req' = [req EXCEPT ![w].user = u]
          /\ Goto(w, "issue")
          /\ UNCHANGED <<store, claims, expired, history>>

\* The dictionary of the memory backend overwrites the e-mail's entry.
CreateUserMemory(w) ==
    /\ ~Sql
    /\ \E u \in FreshUsers :
          /\ userRow' = [userRow EXCEPT ![u] = "present"]
          /\ byEmail' = [byEmail EXCEPT ![req[w].email] = u]
          /\ req' = [req EXCEPT ![w].user = u]
    /\ Goto(w, "issue")
    /\ UNCHANGED <<tok, claims, expired, history, tx>>

CreateUser(w) ==
    /\ pc[w] = "insert_user"
    /\ CreateUserSql(w) \/ CreateUserMemory(w)

-----------------------------------------------------------------------------
(***************************************************************************)
(* POST /login                                                             *)
(***************************************************************************)

StartLogin(w, e) ==
    /\ pc[w] = "idle"
    /\ Goto(w, "by_email")
    /\ req' = [req EXCEPT ![w] = [NoRequest EXCEPT !.op = "login", !.email = e]]
    /\ UNCHANGED <<store, claims, expired, history, tx>>

\* get_by_email, then the password check, which succeeds or not.
GetByEmail(w) ==
    /\ pc[w] = "by_email"
    /\ \/ Answer(w, "INVALID_CREDENTIALS")
       \/ /\ byEmail[req[w].email] # NoUser
          /\ RoomForToken
          /\ Goto(w, "issue")
          /\ req' = [req EXCEPT ![w].user = byEmail[req[w].email]]
    /\ UNCHANGED <<store, claims, expired, history, tx>>

-----------------------------------------------------------------------------
(***************************************************************************)
(* _issue_tokens, shared by register, login and refresh                    *)
(***************************************************************************)

\* The session the new token belongs to.
Session(w, j) == IF req[w].op = "refresh" THEN family[req[w].jti] ELSE j

\* Mutant of UserVisible: refresh_tokens.user_id is not a foreign key.
NoForeignKey(w) == req[w].user \in Users

\* The foreign key of refresh_tokens.user_id: the user is committed, or is
\* this transaction's own.
UserVisible(w) == userRow[req[w].user] = "present" \/ tx[w].user = req[w].user

\* Mutant of IssueTokens: the pair is returned without the repository's create.
IssueUnsaved(w) ==
    /\ pc[w] = "issue"
    /\ UserVisible(w)
    /\ \E j \in FreshJtis :
          /\ owner' = [owner EXCEPT ![j] = req[w].user]
          /\ family' = [family EXCEPT ![j] = Session(w, j)]
          /\ req' = [req EXCEPT ![w] = [@ EXCEPT !.out = j, !.reply = "tokens"]]
    /\ Goto(w, "teardown")
    /\ UNCHANGED <<store, expired, history, tx>>

IssueTokens(w) ==
    /\ pc[w] = "issue"
    /\ UserVisible(w)
    /\ \E j \in FreshJtis :
          /\ owner' = [owner EXCEPT ![j] = req[w].user]
          /\ family' = [family EXCEPT ![j] = Session(w, j)]
          /\ \/ /\ Sql
                /\ tx' = [tx EXCEPT ![w].created = @ \cup {j}]
                /\ UNCHANGED tok
             \/ /\ ~Sql
                /\ tok' = [tok EXCEPT ![j] = "live"]
                /\ UNCHANGED tx
          /\ req' = [req EXCEPT ![w] = [@ EXCEPT !.out = j, !.reply = "tokens"]]
    /\ Goto(w, "teardown")
    /\ UNCHANGED <<userRow, byEmail, expired, history>>

\* The user was deleted since the handler read it: IntegrityError.
IssueTokensFails(w) ==
    /\ pc[w] = "issue"
    /\ ~UserVisible(w)
    /\ Fail(w)

-----------------------------------------------------------------------------
(***************************************************************************)
(* POST /refresh and POST /logout                                          *)
(***************************************************************************)

\* decode_token checks the signature, the type and exp; only a token this
\* server signed, and that reached a client, can pass.
StartRefresh(w, j) ==
    /\ pc[w] = "idle"
    /\ RoomForToken
    /\ req' = [req EXCEPT ![w] = [NoRequest EXCEPT !.op = "refresh", !.jti = j,
                    !.reply = IF j \in expired THEN "TOKEN_EXPIRED" ELSE "none"]]
    /\ Goto(w, IF j \in expired THEN "teardown" ELSE "by_jti")
    /\ UNCHANGED <<store, claims, expired, history, tx>>

\* Mutant of GetByJti: the row is looked up, its revoked_at is not.
GetByJtiUnchecked(w) ==
    /\ pc[w] = "by_jti"
    /\ \/ /\ ~HasRow(req[w].jti)
          /\ Answer(w, "TOKEN_INVALID")
       \/ /\ HasRow(req[w].jti)
          /\ Goto(w, "revoke")
          /\ UNCHANGED req
    /\ UNCHANGED <<store, claims, expired, history, tx>>

GetByJti(w) ==
    /\ pc[w] = "by_jti"
    /\ \/ /\ tok[req[w].jti] # "live"
          /\ Answer(w, "TOKEN_INVALID")
       \/ /\ tok[req[w].jti] = "live"
          /\ Goto(w, "revoke")
          /\ UNCHANGED req
    /\ UNCHANGED <<store, claims, expired, history, tx>>

\* An expired token skips the revocation and is answered 204 all the same.
StartLogout(w, j) ==
    /\ pc[w] = "idle"
    /\ req' = [req EXCEPT ![w] = [NoRequest EXCEPT !.op = "logout", !.jti = j,
                    !.reply = IF j \in expired THEN "no_content" ELSE "none"]]
    /\ Goto(w, IF j \in expired THEN "teardown" ELSE "revoke")
    /\ UNCHANGED <<store, claims, expired, history, tx>>

\* Both handlers ignore what revoke returns.
AfterRevoke(w) ==
    \/ /\ req[w].op = "logout"
       /\ Answer(w, "no_content")
    \/ /\ req[w].op = "refresh"
       /\ Goto(w, "owner")
       /\ UNCHANGED req

\* The SELECT of the SQL revoke: a row that is not live is left alone.
RevokeSelect(w) ==
    /\ pc[w] = "revoke"
    /\ Sql
    /\ \/ /\ tok[req[w].jti] # "live"
          /\ AfterRevoke(w)
       \/ /\ tok[req[w].jti] = "live"
          /\ Goto(w, "update")
          /\ UNCHANGED req
    /\ UNCHANGED <<store, claims, expired, history, tx>>

\* Mutant of RevokeUpdate: revoked_at is set on a detached copy of the row.
RevokeUpdateLost(w) ==
    /\ pc[w] = "update"
    /\ Sql
    /\ ~JtiLocked(w, req[w].jti)
    /\ AfterRevoke(w)
    /\ UNCHANGED <<store, claims, expired, history, tx>>

\* The UPDATE of the SQL revoke, by primary key: it waits for the row's lock
\* and writes revoked_at whatever the row says by then.
RevokeUpdate(w) ==
    /\ pc[w] = "update"
    /\ Sql
    /\ ~JtiLocked(w, req[w].jti)
    /\ HasRow(req[w].jti)
    /\ tx' = [tx EXCEPT ![w].revoked = @ \cup {req[w].jti}]
    /\ AfterRevoke(w)
    /\ UNCHANGED <<store, claims, expired, history>>

\* The row is gone when the UPDATE comes: StaleDataError.
RevokeUpdateFails(w) ==
    /\ pc[w] = "update"
    /\ ~HasRow(req[w].jti)
    /\ Fail(w)

\* Mutant of RevokeMemory: the entry that is marked is a copy.
RevokeMemoryLost(w) ==
    /\ pc[w] = "revoke"
    /\ ~Sql
    /\ AfterRevoke(w)
    /\ UNCHANGED <<store, claims, expired, history, tx>>

\* The memory revoke tests and sets under its lock.
RevokeMemory(w) ==
    /\ pc[w] = "revoke"
    /\ ~Sql
    /\ tok' = [tok EXCEPT ![req[w].jti] = IF @ = "live" THEN "revoked" ELSE @]
    /\ AfterRevoke(w)
    /\ UNCHANGED <<userRow, byEmail, claims, expired, history, tx>>

\* get_by_id(row.user_id).
GetOwner(w) ==
    /\ pc[w] = "owner"
    /\ \/ /\ userRow[owner[req[w].jti]] # "present"
          /\ Answer(w, "TOKEN_INVALID")
       \/ /\ userRow[owner[req[w].jti]] = "present"
          /\ req' = [req EXCEPT ![w].user = owner[req[w].jti]]
          /\ Goto(w, "issue")
    /\ UNCHANGED <<store, claims, expired, history, tx>>

-----------------------------------------------------------------------------
(***************************************************************************)
(* The end of a request: the teardown hook, then the reply                 *)
(***************************************************************************)

\* session.commit(): the rows the transaction wrote become visible at once.
Commit(w) ==
    /\ userRow' = [u \in Users |-> IF u = tx[w].user THEN "present" ELSE userRow[u]]
    /\ byEmail' = [e \in Emails |-> IF e = req[w].email /\ tx[w].user # NoUser
                                    THEN tx[w].user ELSE byEmail[e]]
    /\ tok' = [j \in Jtis |-> IF j \in tx[w].created THEN "live"
                              ELSE IF j \in tx[w].revoked THEN "revoked"
                              ELSE tok[j]]

\* Mutant of Deliver: a reply without a refresh token counts as one.
DeliverAnything(w) ==
    /\ handed' = handed \cup {req[w].out}
    /\ loggedOut' = IF req[w].op = "logout" /\ req[w].reply = "no_content"
                    THEN loggedOut \cup {req[w].jti} ELSE loggedOut

\* The reply reaches the client, with the token it carries.
Deliver(w) ==
    /\ handed' = handed \cup ({req[w].out} \cap Jtis)
    /\ loggedOut' = IF req[w].op = "logout" /\ req[w].reply = "no_content"
                    THEN loggedOut \cup {req[w].jti} ELSE loggedOut

\* Mutant of Finish: the session is not closed, its row locks stay.
FinishUnclosed(w) ==
    /\ Goto(w, "idle")
    /\ req' = [req EXCEPT ![w] = NoRequest]
    /\ UNCHANGED <<claims, expired, tx>>

\* session.close(), and the worker takes its next request.
Finish(w) ==
    /\ Goto(w, "idle")
    /\ req' = [req EXCEPT ![w] = NoRequest]
    /\ tx' = [tx EXCEPT ![w] = NoWrites]
    /\ UNCHANGED <<claims, expired>>

\* Every exception has been turned into a reply by an error handler, so the
\* hook is called with exception = None and commits, whatever the reply.
Teardown(w) ==
    /\ pc[w] = "teardown"
    /\ Commit(w)
    /\ Deliver(w)
    /\ Finish(w)

\* A failed commit is logged and rolled back; the reply is already made.
TeardownCommitFails(w) ==
    /\ Sql /\ "commit" \in Environment
    /\ pc[w] = "teardown"
    /\ Deliver(w)
    /\ Finish(w)
    /\ UNCHANGED store

-----------------------------------------------------------------------------
(***************************************************************************)
(* What happens around the handlers.  Deleted accounts, failing statements *)
(* and commits need a database; a server without one survives no crash.    *)
(***************************************************************************)

ReplyLost(w) ==
    /\ "lost_reply" \in Environment
    /\ pc[w] = "teardown"
    /\ Commit(w)
    /\ Finish(w)
    /\ UNCHANGED history

\* The database rolls back what a dead worker left behind.
Crash(w) ==
    /\ Sql /\ "crash" \in Environment
    /\ pc[w] # "idle"
    /\ Finish(w)
    /\ UNCHANGED <<store, history>>

StatementFails(w) ==
    /\ Sql /\ "statement" \in Environment
    /\ pc[w] \notin {"idle", "teardown"}
    /\ Fail(w)

Expire(j) ==
    /\ "expiry" \in Environment
    /\ expired' = expired \cup {j}
    /\ UNCHANGED <<backend, store, claims, history, pc, req, tx>>

\* DELETE FROM users, with ON DELETE CASCADE to refresh_tokens; it waits for
\* the rows that open transactions have written.
DeleteUser(u) ==
    /\ Sql /\ "delete_user" \in Environment
    /\ userRow[u] = "present"
    /\ ~UserLocked(u)
    /\ userRow' = [userRow EXCEPT ![u] = "deleted"]
    /\ byEmail' = [e \in Emails |-> IF byEmail[e] = u THEN NoUser ELSE byEmail[e]]
    /\ tok' = [j \in Jtis |-> IF owner[j] = u /\ HasRow(j) THEN "deleted" ELSE tok[j]]
    /\ UNCHANGED <<backend, claims, expired, history, pc, req, tx>>

-----------------------------------------------------------------------------

\* A client sends a request to an idle worker.
Start(w) ==
    \/ \E e \in Emails : StartRegister(w, e) \/ StartLogin(w, e)
    \/ \E j \in handed : StartRefresh(w, j) \/ StartLogout(w, j)

\* The worker makes the next call of its handler, or ends the request.
Step(w) ==
    \/ ExistsByEmail(w) \/ CreateUser(w)
    \/ GetByEmail(w)
    \/ IssueTokens(w) \/ IssueTokensFails(w)
    \/ GetByJti(w) \/ RevokeSelect(w) \/ RevokeUpdate(w) \/ RevokeUpdateFails(w)
    \/ RevokeMemory(w) \/ GetOwner(w)
    \/ Teardown(w)

Fault(w) == TeardownCommitFails(w) \/ ReplyLost(w) \/ Crash(w) \/ StatementFails(w)

Next ==
    \/ \E w \in Workers : Start(w) \/ Step(w) \/ Fault(w)
    \/ \E j \in handed : Expire(j)
    \/ \E u \in Users : DeleteUser(u)

Spec == Init /\ [][Next]_vars

\* A running handler goes on; a statement that waits for a row lock gets it
\* in its turn (PostgreSQL queues the waiters of a lock).
Fairness == \A w \in Workers : /\ WF_vars(Step(w))
                               /\ SF_vars(CreateUser(w))
                               /\ SF_vars(RevokeUpdate(w))

FairSpec == Spec /\ Fairness

-----------------------------------------------------------------------------
(***************************************************************************)
(* Properties                                                              *)
(***************************************************************************)

LiveIn(f) == {j \in Jtis : tok[j] = "live" /\ family[j] = f}

\* A login session never has two live refresh tokens: rotation spends the
\* presented token (auth.py, refresh_handler).
OneLivePerSession == \A f \in Jtis : \A i, j \in LiveIn(f) : i = j

\* A session without a live token (logged out, or its account deleted) is
\* over: no refresh under way and no replayed token brings it back.  (On the
\* memory backend a rotation revokes before it stores the successor.)
EndedSessionStaysEnded ==
    [][Sql => \A f \in Jtis : tok[f] # "absent" /\ LiveIn(f) = {} => LiveIn(f)' = {}]_vars

\* A refresh token a client has received and that is not live, because it
\* was rotated, logged out, or deleted, is never accepted again.
SpentTokenStaysSpent ==
    [][\A j \in handed : tok[j] # "live" => tok'[j] # "live"]_vars

\* A refresh token reaches a client only with a live row behind it
\* (auth.py, _issue_tokens; tokens.py, encode_refresh_token).
DeliveredTokenIsLive ==
    [][\A j \in handed' \ handed : tok'[j] = "live"]_vars

\* Once a logout has been answered 204, the token it presented is useless:
\* its row is not live, or its exp has passed (auth.py, logout_handler).
LogoutHolds == \A j \in loggedOut : tok[j] # "live" \/ j \in expired

\* Every account is the one its e-mail leads to: two registrations of the
\* same e-mail never leave a second account behind (UNIQUE users.email; the
\* memory backend accepts that they do).
AccountsReachable ==
    Sql => \A u \in Users : userRow[u] = "present" <=> \E e \in Emails : byEmail[e] = u

\* A refresh-token row always has its user: the foreign key of
\* refresh_tokens.user_id, against accounts deleted while a handler runs.
TokensHaveUsers == \A j \in Jtis : HasRow(j) => userRow[owner[j]] = "present"

\* Every accepted request is answered, locks and failures notwithstanding.
RequestsAreAnswered == \A w \in Workers : pc[w] # "idle" ~> pc[w] = "idle"

-----------------------------------------------------------------------------
(***************************************************************************)
(* Inductive invariants                                                    *)
(***************************************************************************)

\* What the locks and constraints of the database guarantee about the
\* uncommitted writes of any number of workers (TokenRotationProofs).
TokenWrites(w) ==
    /\ req[w].out # NoJti => /\ req[w].out \in Minted \ handed
                             /\ \A v \in Workers \ {w} : req[v].out # req[w].out
    /\ tx[w].created \subseteq {req[w].out}
    /\ \A j \in tx[w].created : /\ tok[j] = "absent"
                                /\ \/ userRow[owner[j]] = "present"
                                   \/ tx[w].user = owner[j]
    /\ \A j \in tx[w].revoked : HasRow(j)

UserWrites(w) ==
    tx[w].user # NoUser =>
        /\ userRow[tx[w].user] = "absent"
        /\ req[w].email \in Emails
        /\ byEmail[req[w].email] = NoUser
        /\ \A v \in Workers \ {w} : tx[v].user # NoUser =>
              tx[v].user # tx[w].user /\ req[v].email # req[w].email

\* What the handler of w has in its hands at each of its calls.
CallState(w) ==
    /\ pc[w] \in {"exists", "insert_user"} => req[w].op = "register" /\ req[w].email \in Emails
    /\ pc[w] = "by_email" => req[w].op = "login" /\ req[w].email \in Emails
    /\ pc[w] \in {"by_jti", "owner"} => req[w].op = "refresh"
    /\ pc[w] \in {"revoke", "update"} => req[w].op \in {"refresh", "logout"}
    /\ pc[w] = "issue" => req[w].op \in {"register", "login", "refresh"}
    /\ req[w].op \in {"refresh", "logout"} => req[w].jti \in Jtis

HandlerState(w) ==
    /\ CallState(w)
    /\ pc[w] \in {"exists", "insert_user"} => tx[w].user = NoUser
    /\ pc[w] = "issue" => req[w].user \in Users
    /\ req[w].op \in {"refresh", "logout"} => req[w].jti \in handed
    /\ pc[w] # "teardown" => req[w].out = NoJti
    /\ pc[w] = "idle" \/ ~Sql => tx[w] = NoWrites

WritesInv ==
    /\ \A j \in Jtis \ Minted : tok[j] = "absent" /\ j \notin handed
    /\ \A j \in Jtis : tok[j] = "deleted" => userRow[owner[j]] = "deleted"
    /\ \A w \in Workers : TokenWrites(w) /\ UserWrites(w) /\ HandlerState(w)

\* What a worker is about to answer is already in its transaction: the
\* revocation of a logout, the row of a new token.
LogoutReply(w) ==
    req[w].op = "logout" /\ req[w].reply = "no_content" =>
        LET j == req[w].jti
        IN  tok[j] # "live" \/ j \in expired \/ j \in tx[w].revoked

TokenReply(w) ==
    req[w].out # NoJti =>
        IF Sql THEN req[w].out \in tx[w].created ELSE tok[req[w].out] = "live"

RepliesInv == \A w \in Workers : LogoutReply(w) /\ TokenReply(w)

\* What one worker at a time adds: the token a rotation is about to spend is
\* the only live one of its session until the commit.
Spent(w) == IF Sql THEN req[w].jti \in tx[w].revoked /\ tok[req[w].jti] = "live"
                   ELSE tok[req[w].jti] = "revoked"

RotationState(w) ==
    req[w].op = "refresh" =>
        /\ pc[w] \in {"revoke", "update", "owner", "issue"} =>
              LiveIn(family[req[w].jti]) \subseteq {req[w].jti}
        /\ pc[w] \in {"revoke", "update"} => tok[req[w].jti] \in {"live", "deleted"}
        /\ pc[w] = "owner" => Spent(w) \/ tok[req[w].jti] = "deleted"
        /\ pc[w] = "issue" => Spent(w)

SuccessorState(w) ==
    \A k \in tx[w].created :
        /\ \/ family[k] = k
           \/ \E t \in tx[w].revoked : tok[t] = "live" /\ family[t] = family[k]
        /\ LiveIn(family[k]) \subseteq tx[w].revoked

RotationInv ==
    /\ \A j \in Jtis : IF j \in Minted THEN family[j] \in Minted ELSE family[j] = NoJti
    /\ OneLivePerSession
    /\ \A w \in Workers : RotationState(w) /\ SuccessorState(w)

-----------------------------------------------------------------------------
(***************************************************************************)
(* The abstract specification.  A token is spent from the revocation that  *)
(* is committed; on the memory backend, whose revocation is visible before *)
(* the new token is stored, from the end of the rotation.                  *)
(***************************************************************************)

Rotating(j) == \E w \in Workers : /\ pc[w] \in {"owner", "issue"}
                                  /\ req[w].op = "refresh"
                                  /\ req[w].jti = j

Status == [j \in Jtis |->
              IF tok[j] = "absent" THEN "unknown"
              ELSE IF tok[j] = "live" \/ (~Sql /\ Rotating(j)) THEN "live"
              ELSE "spent"]

SessionOf == [j \in Jtis |-> IF tok[j] = "absent" THEN NoJti ELSE family[j]]

Promise == INSTANCE OneShotTokens
           WITH Token <- Jtis, NoToken <- NoJti, status <- Status, session <- SessionOf

\* The endpoints implement one-shot tokens.
PromiseSpec == Promise!Spec
=============================================================================
