----------------------------- MODULE ApiClient -----------------------------
(***************************************************************************)
(* api_client.py: the HTTP client of the Streamlit page, over the API it   *)
(* talks to.  A public method of ApiClient is one call; a call is one      *)
(* request, or, when its access token is refused, three: the request, a    *)
(* refresh, and the request again.                                         *)
(*                                                                         *)
(* The API is what TokenRotation and Resources show one worker of it to    *)
(* be: each request takes effect in one step.  The network may lose the    *)
(* reply, refuse the request, or hold it back until after the client has   *)
(* given up waiting.                                                       *)
(***************************************************************************)
EXTENDS Naturals

CONSTANTS
    Token,          \* token pairs: a refresh token and the access token minted with it
    User,           \* accounts, and who may open one
    Profile,        \* profile ids; a bound on how many are ever drawn
    Skill,
    NoToken, NoUser, NoRow,
    MaxLost,        \* bound: how often the client is left without an answer
    Environment     \* what the run lets happen around the page

Events == {"access_expiry",     \* the exp of an access token passes (15 minutes)
           "refresh_expiry",    \* the exp of a refresh token passes
           "delete_user",       \* an operator deletes an account
           "no_reply",          \* timeout, dropped connection, 429 or 5xx
           "late"}              \* a request reaches the API after its timeout

ASSUME ClientAssumption ==
    /\ NoToken \notin Token
    /\ NoUser \notin User
    /\ NoRow \notin [id : Profile, skills : SUBSET Skill]
    /\ NoRow \notin [user : User, skills : SUBSET Skill]
    /\ MaxLost \in Nat
    /\ Environment \subseteq Events

VARIABLES
    status, session,    \* the refresh tokens, as OneShotTokens has them
    holder,     \* the account a pair was minted for
    stale,      \* pairs whose access token has expired
    ended,      \* history: pairs the clock or an operator has ended
    account,    \* "none", "open" or "deleted"
    profile,    \* the profile rows: their owner and their skills
    client,     \* the ApiClient object: _access, _refresh and _warm
    call,       \* the call the page is blocked in
    late,       \* requests given up by the client, not yet seen by the API
    lost        \* how often the client was left without an answer, up to MaxLost

Server == INSTANCE OneShotTokens

tokens    == <<status, session, holder>>
server    == <<tokens, ended, account, profile>>
clientVars == <<server, stale, client, call, late, lost>>

PublicOps == {"login", "register", "logout", "parse_resume", "list_jobs"}
AuthedOps == {"create_profile", "update_profile", "create_analysis",
              "create_roadmap", "update_resource"}
Stores    == {"register", "login", "refresh", "logout", "create_profile", "update_profile"}
Ops       == PublicOps \cup AuthedOps
Phases    == {"request", "refresh", "retry"}

\* A profile, or the analysis made of it, as the page sees it.
Row == [id : Profile, skills : SUBSET Skill]

\* token is the access token of an authed request, the refresh token of a
\* refresh or a logout; row is the profile the request names.
Request == [op : Ops \cup {"refresh"}, token : Token \cup {NoToken}, user : User \cup {NoUser},
            row : Row \cup {NoRow}, add : SUBSET Skill, remove : SUBSET Skill]

\* The replies of the API, and the result the page's code sees: a value, an
\* AuthExpiredError, or another ApiError.
Replies == {"none", "ok", "unauthorized", "refused"}
Results == {"none", "ok", "expired", "error"}

CallState == [req : Request, phase : Phases,
              step : {"none", "warmup", "sent", "answered", "returned"},
              sent : Nat, ran : Nat,      \* requests sent, and how often the operation was done
              silent : BOOLEAN,           \* history: the API gave the call no usable answer
              reply : Replies, result : Results,
              token : Token \cup {NoToken}, row : Row \cup {NoRow}]

NoRequest == [op |-> "list_jobs", token |-> NoToken, user |-> NoUser, row |-> NoRow,
              add |-> {}, remove |-> {}]

NoCall == [req |-> NoRequest, phase |-> "request", step |-> "none", sent |-> 0, ran |-> 0,
           silent |-> FALSE, reply |-> "none", result |-> "none", token |-> NoToken, row |-> NoRow]

ClientInit ==
    /\ Server!Init
    /\ holder = [t \in Token |-> NoUser]
    /\ stale = {}
    /\ ended = {}
    /\ account = [u \in User |-> "none"]
    /\ profile = [p \in Profile |-> NoRow]
    /\ client = [access |-> NoToken, refresh |-> NoToken, warm |-> FALSE]
    /\ call = NoCall
    /\ late = {}
    /\ lost = 0

-----------------------------------------------------------------------------
(***************************************************************************)
(* The API.  A request it handles is the one the client waits for, or one  *)
(* the client has given up, whose reply goes nowhere.                      *)
(***************************************************************************)

Fresh == {t \in Token : status[t] = "unknown"}

\* What require_auth lets in: a token in time, of an account that exists.
Authorized(t) == t \notin stale /\ account[holder[t]] = "open"

\* Deleting an account cascades to its profiles, and ids are never used again.
Stored(p) == profile[p] # NoRow /\ account[profile[p].user] # "deleted"

\* The row is there and its owner sent the request.
Owns(r) == r.row # NoRow /\ Stored(r.row.id) /\ profile[r.row.id].user = holder[r.token]

Patched(r) == (profile[r.row.id].skills \cup r.add) \ r.remove

\* The reply of a request reaches the client if the client still waits for it.
Reply(r, awaited, kind, token, row) ==
    IF awaited
    THEN /\ call' = [call EXCEPT !.step = "answered", !.reply = kind, !.token = token, !.row = row,
                         !.ran = IF kind = "ok" /\ r.op # "refresh" THEN @ + 1 ELSE @]
         /\ UNCHANGED late
    ELSE late' = late \ {r} /\ UNCHANGED call

Refuse(r, awaited, kind) == Reply(r, awaited, kind, NoToken, NoRow) /\ UNCHANGED server

\* A login session opens.
Open(r, awaited) ==
    \E t \in Fresh :
        /\ Server!Grant(t)
        /\ holder' = [holder EXCEPT ![t] = r.user]
        /\ Reply(r, awaited, "ok", t, NoRow)
        /\ UNCHANGED <<ended, profile>>

Register(r, awaited) ==
    /\ r.op = "register"
    /\ \/ /\ account[r.user] = "none"
          /\ account' = [account EXCEPT ![r.user] = "open"]
          /\ Open(r, awaited)
       \/ Refuse(r, awaited, "refused")

\* The password is right or it is not.
Login(r, awaited) ==
    /\ r.op = "login"
    /\ \/ /\ account[r.user] = "open"
          /\ UNCHANGED account
          /\ Open(r, awaited)
       \/ Refuse(r, awaited, "refused")

\* Bound: without an unused pair left the API answers as if it were busy.
Refresh(r, awaited) ==
    /\ r.op = "refresh"
    /\ \/ /\ status[r.token] # "live"
          /\ Refuse(r, awaited, "unauthorized")
       \/ /\ status[r.token] = "live"
          /\ Fresh = {}
          /\ Refuse(r, awaited, "refused")
       \/ \E t \in Fresh :
             /\ Server!Rotate(r.token, t)
             /\ holder' = [holder EXCEPT ![t] = holder[r.token]]
             /\ Reply(r, awaited, "ok", t, NoRow)
             /\ UNCHANGED <<ended, account, profile>>

\* Idempotent: 204 whatever the token.
Logout(r, awaited) ==
    /\ r.op = "logout"
    /\ Server!Spend({r.token} \cap {t \in Token : status[t] = "live"})
    /\ Reply(r, awaited, "ok", NoToken, NoRow)
    /\ UNCHANGED <<holder, ended, account, profile>>

Read(r, awaited) ==
    /\ r.op \in {"parse_resume", "list_jobs"}
    /\ Reply(r, awaited, "ok", NoToken, NoRow)
    /\ UNCHANGED server

\* An authed handler: what it stores, and the row it answers with.
CreateProfile(r, awaited) ==
    /\ r.op = "create_profile"
    /\ \/ /\ r.add # {}
          /\ \E p \in Profile :
                /\ profile[p] = NoRow
                /\ profile' = [profile EXCEPT ![p] = [user |-> holder[r.token], skills |-> r.add]]
                /\ Reply(r, awaited, "ok", NoToken, [id |-> p, skills |-> r.add])
          /\ UNCHANGED <<tokens, ended, account>>
       \/ /\ r.add = {} \/ \A p \in Profile : profile[p] # NoRow      \* bound: no id left
          /\ Refuse(r, awaited, "refused")

UpdateProfile(r, awaited) ==
    /\ r.op = "update_profile"
    /\ IF Owns(r) /\ Patched(r) # {}
       THEN /\ profile' = [profile EXCEPT ![r.row.id].skills = Patched(r)]
            /\ Reply(r, awaited, "ok", NoToken, [id |-> r.row.id, skills |-> Patched(r)])
            /\ UNCHANGED <<tokens, ended, account>>
       ELSE Refuse(r, awaited, "refused")

\* An analysis describes the profile as it is; a roadmap, and the flag of
\* one of its resources, answer with the analysis they belong to.
Derive(r, awaited) ==
    /\ r.op \in {"create_analysis", "create_roadmap", "update_resource"}
    /\ IF Owns(r)
       THEN /\ Reply(r, awaited, "ok", NoToken,
                     IF r.op = "create_analysis"
                     THEN [id |-> r.row.id, skills |-> profile[r.row.id].skills] ELSE r.row)
            /\ UNCHANGED server
       ELSE Refuse(r, awaited, "refused")

Authed(r, awaited) ==
    /\ r.op \in AuthedOps
    /\ IF Authorized(r.token)
       THEN CreateProfile(r, awaited) \/ UpdateProfile(r, awaited) \/ Derive(r, awaited)
       ELSE Refuse(r, awaited, "unauthorized")

Handle(r, awaited) ==
    /\ \/ Register(r, awaited) \/ Login(r, awaited) \/ Refresh(r, awaited)
       \/ Logout(r, awaited) \/ Read(r, awaited) \/ Authed(r, awaited)
    /\ UNCHANGED <<stale, client, lost>>

-----------------------------------------------------------------------------
(***************************************************************************)
(* The client.                                                             *)
(***************************************************************************)

\* What is on its way: the call's own request, or its refresh.
Outgoing ==
    IF call.phase = "refresh"
    THEN [NoRequest EXCEPT !.op = "refresh", !.token = client.refresh]
    ELSE [call.req EXCEPT !.token = IF call.req.op \in AuthedOps THEN client.access
                                    ELSE IF call.req.op = "logout" THEN client.refresh ELSE NoToken]

Send(c, phase) == [c EXCEPT !.phase = phase, !.step = "sent", !.sent = @ + 1]

Return(c, result) == [c EXCEPT !.step = "returned", !.result = result]

\* The head of _request, past the warmup: an authed call without an access
\* token never reaches the network.
Head(c, r) ==
    LET new == [NoCall EXCEPT !.req = r]
    IN  IF r.op \in AuthedOps /\ c.access = NoToken
        THEN Return(new, "expired") ELSE Send(new, "request")

\* The page's code calls a method of client c: there may be nothing to log
\* out of, and the first call of a client warms the API up.
Start(c, r) ==
    IF r.op = "logout" /\ c.refresh = NoToken THEN Return([NoCall EXCEPT !.req = r], "ok")
    ELSE IF c.warm THEN Head(c, r)
    ELSE [NoCall EXCEPT !.req = r, !.step = "warmup"]

\* Timeout, dropped connection, 429 or 5xx.
Unanswered ==
    /\ "no_reply" \in Environment /\ lost < MaxLost
    /\ lost' = lost + 1

\* The warmup polls /health until it answers, or gives up.
Warmup ==
    /\ call.step = "warmup"
    /\ UNCHANGED <<server, stale, late>>
    /\ \/ /\ Unanswered
          /\ call' = Return([call EXCEPT !.silent = TRUE], "error")
          /\ UNCHANGED client
       \/ /\ UNCHANGED lost
          /\ client' = [client EXCEPT !.warm = TRUE]
          /\ call' = Head(client, call.req)

\* Mutant of Received: the status is handed on as it came.
ReceivedRaw(c) == Return(c, c.reply)

\* The body of a 2xx, or the exception of any other status.
Received(c) == Return(c, IF c.reply = "ok" THEN "ok" ELSE "error")

\* _clear_tokens, then AuthExpiredError.
Expire(c) ==
    /\ client' = [client EXCEPT !.access = NoToken, !.refresh = NoToken]
    /\ call' = Return(c, "expired")

\* Mutants of Reauthorize: a refused retry is refreshed again, and a 401 is
\* taken for the end of the session.
ReauthorizeAgain ==
    /\ call.phase # "refresh" /\ call.req.op \in AuthedOps /\ call.reply = "unauthorized"
    /\ IF client.refresh = NoToken
       THEN Expire(call)
       ELSE call' = Send(call, "refresh") /\ UNCHANGED client
ReauthorizeNever ==
    /\ call.phase = "request" /\ call.req.op \in AuthedOps /\ call.reply = "unauthorized"
    /\ Expire(call)

\* A 401 to an authed request: one refresh, if there is a token to refresh with.
Reauthorize ==
    /\ call.phase = "request" /\ call.req.op \in AuthedOps /\ call.reply = "unauthorized"
    /\ IF client.refresh = NoToken
       THEN Expire(call)
       ELSE call' = Send(call, "refresh") /\ UNCHANGED client

\* The pair of a refresh replaces both tokens, and the request goes out once more.
Retry ==
    /\ call.phase = "refresh" /\ call.reply = "ok"
    /\ client' = [client EXCEPT !.access = call.token, !.refresh = call.token]
    /\ call' = Send(call, "retry")

\* The refresh was refused, or the retry was: the session is gone.
GoneForGood ==
    /\ \/ call.phase = "refresh" /\ call.reply # "ok"
       \/ call.phase = "retry" /\ call.reply = "unauthorized"
    /\ Expire([call EXCEPT !.silent = @ \/ call.reply = "refused"])

Deliver ==
    /\ call.phase # "refresh"
    /\ ~(call.req.op \in AuthedOps /\ call.reply = "unauthorized")
    /\ call' = Received(call)
    /\ UNCHANGED client

Receive ==
    /\ call.step = "answered"
    /\ Reauthorize \/ Retry \/ GoneForGood \/ Deliver
    /\ UNCHANGED <<server, stale, late, lost>>

\* Mutant of GiveUp: a refresh without an answer fails as any other request
\* does, and the client keeps its pair for another try.
GiveUpKeeps ==
    /\ Unanswered
    /\ call.step \in {"sent", "answered"}
    /\ \/ UNCHANGED late
       \/ /\ "late" \in Environment /\ call.step = "sent" /\ Outgoing.op \in Stores
          /\ late' = late \cup {Outgoing}
    /\ call' = Return([call EXCEPT !.silent = TRUE], "error") /\ UNCHANGED client
    /\ UNCHANGED <<server, stale>>

\* No usable reply.  _request turns any ApiError of the refresh into an
\* AuthExpiredError; any other request fails with the error as it is.  A
\* request the API has not handled yet may be lost, or may still reach it; one
\* that stores nothing makes no difference then.
GiveUp ==
    /\ Unanswered
    /\ call.step \in {"sent", "answered"}
    /\ \/ UNCHANGED late
       \/ /\ "late" \in Environment /\ call.step = "sent" /\ Outgoing.op \in Stores
          /\ late' = late \cup {Outgoing}
    /\ IF call.phase = "refresh"
       THEN Expire([call EXCEPT !.silent = TRUE])
       ELSE call' = Return([call EXCEPT !.silent = TRUE], "error") /\ UNCHANGED client
    /\ UNCHANGED <<server, stale>>

-----------------------------------------------------------------------------
(***************************************************************************)
(* What happens around the client                                          *)
(***************************************************************************)

HandleAwaited == call.step = "sent" /\ Handle(Outgoing, TRUE)

HandleLate(r) == Handle(r, FALSE)

\* Tokens that may still be presented; when another one expires, nobody sees it.
Presentable == ({client.access, client.refresh} \cup {r.token : r \in late}) \ {NoToken}

\* A call lasts seconds and an access token 15 minutes: the one a call has
\* just been given outlives it.
AccessExpires(t) ==
    /\ "access_expiry" \in Environment
    /\ t \notin stale /\ call.phase # "retry"
    /\ stale' = stale \cup {t}
    /\ UNCHANGED <<server, client, call, late, lost>>

RefreshExpires(t) ==
    /\ "refresh_expiry" \in Environment
    /\ status[t] = "live"
    /\ Server!Spend({t})
    /\ ended' = ended \cup {t}
    /\ UNCHANGED <<holder, stale, account, profile, client, call, late, lost>>

\* The operator's DELETE, with the cascade to the tokens and profiles.
DeleteUser(u) ==
    /\ "delete_user" \in Environment
    /\ account[u] = "open"
    /\ account' = [account EXCEPT ![u] = "deleted"]
    /\ Server!Spend({t \in Token : status[t] = "live" /\ holder[t] = u})
    /\ ended' = ended \cup {t \in Token : status[t] = "live" /\ holder[t] = u}
    /\ UNCHANGED <<holder, profile, stale, client, call, late, lost>>

AroundClock ==
    \/ \E t \in Presentable : AccessExpires(t) \/ RefreshExpires(t)
    \/ \E u \in User : DeleteUser(u)
=============================================================================
