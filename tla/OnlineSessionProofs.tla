-------------------------- MODULE OnlineSessionProofs --------------------------
(***************************************************************************)
(* The session of the page: whose tokens it holds, that they are the last  *)
(* ones the API granted, and when a user is signed out without having      *)
(* asked for it.  For any number of accounts, pairs and lost replies.      *)
(***************************************************************************)
EXTENDS OnlinePageProofs

\* A request the client has given up may still spend its token.
LateSpends == {r.token : r \in {q \in late : q.op \in {"refresh", "logout"}}}

\* Nothing but the clock or an operator has ended t, or may end it.
Usable(t) == (status[t] = "live" \/ t \in ended) /\ t \notin LateSpends

\* The API has rotated the pair of the client, which does not know it yet.
Rotated == call.phase = "refresh" /\ call.step = "answered" /\ call.reply = "ok"

\* The call has found that the session is over.
Expired == call.step = "returned" /\ call.result = "expired"

\* A logout has spent the tokens of the client, or may have.
LoggedOut == call.req.op = "logout" /\ call.step \in {"answered", "returned"}

\* A login or a registration has succeeded.
SignInOk ==
    /\ call.req.op \in {"login", "register"}
    /\ \/ call.step = "answered" /\ call.reply = "ok"
       \/ call.step = "returned" /\ call.result = "ok"

\* The API refused an access token the client had just got, or its refresh.
Refused == call.phase # "request" /\ call.step = "answered" /\ call.reply = "unauthorized"

\* What the tokens of the API, and the late requests, are known to be.
BackInv ==
    /\ stale \subseteq Granted /\ ended \subseteq Granted
    /\ \A r \in late : r.token \in Held
    /\ \A t \in Granted : status[t] = "live" => account[holder[t]] = "open"

\* The page holds one pair, of the account it shows.
PagePair ==
    /\ page.access = page.refresh
    /\ SignedIn <=> page.refresh # NoToken
    /\ SignedIn => holder[page.refresh] = page.user

\* The client holds the page's pair, or a later one of its session.
ClientPair ==
    /\ client.access = client.refresh
    /\ client.refresh # NoToken =>
           /\ SignedIn /\ session[client.refresh] = session[page.refresh]
           /\ holder[client.refresh] = page.user
    /\ SignedIn /\ client.refresh = NoToken => Expired
    /\ Expired => client.refresh = NoToken
    /\ call.phase = "request" /\ ~Expired => client.refresh = page.refresh
    /\ client.refresh # NoToken /\ ~Rotated /\ ~LoggedOut => Usable(client.refresh)

\* What the call was made for.
CallFor ==
    /\ script.stage = "idle" => call = NoCall
    /\ call.step \in {"none", "warmup"} => call.phase = "request"
    /\ call.step = "answered" => call.reply # "none"
    /\ call.phase # "request" \/ Expired => call.req.op \in AuthedOps
    /\ call.req.op \in {"login", "register"} => call.req.user = script.user
    /\ call.req.op = "logout" => script.click = "logout"

\* What the tokens of an answer are.
CallPair ==
    /\ SignInOk => call.token # NoToken /\ holder[call.token] = call.req.user /\ Usable(call.token)
    /\ Rotated => /\ session[call.token] = session[client.refresh]
                  /\ holder[call.token] = holder[client.refresh]
                  /\ Usable(call.token) /\ call.token # client.refresh
                  /\ call.token \notin stale /\ call.token \notin {r.token : r \in late}
    /\ call.phase = "retry" /\ call.step \in {"sent", "answered"} => client.access \notin stale
    /\ Refused => client.refresh \in ended
    /\ Expired /\ SignedIn /\ ~call.silent => \E t \in ended : session[t] = session[page.refresh]

SInv == BackInv /\ PagePair /\ ClientPair /\ CallFor /\ CallPair

-----------------------------------------------------------------------------
(***************************************************************************)
(* The API: whom a token is granted to, and which tokens a request spends  *)
(***************************************************************************)

LiveOpen == \A t \in Granted : status[t] = "live" => account[holder[t]] = "open"

\* A granted token keeps its account and its session.
Kept == \A t \in Granted : holder'[t] = holder[t] /\ session'[t] = session[t]

\* Only a refresh or a logout spends a token, and only its own.
SpendsOnly(r) ==
    \A t \in Granted : status[t] = "live" /\ status'[t] # "live"
                           => r.op \in {"refresh", "logout"} /\ t = r.token

\* What an answer of the kind, with token t, says of the state.
Told(r, kind, t) ==
    /\ kind # "none"
    /\ kind # "ok" => UNCHANGED status
    /\ kind = "ok" /\ r.op \in {"login", "register"} =>
           t \in Fresh /\ status'[t] = "live" /\ holder'[t] = r.user
    /\ kind = "ok" /\ r.op = "refresh" =>
           /\ t \in Fresh /\ status'[t] = "live"
           /\ holder'[t] = holder[r.token] /\ session'[t] = session[r.token]
    /\ kind = "unauthorized" => IF r.op = "refresh" THEN status[r.token] # "live"
                                ELSE r.op \in AuthedOps /\ ~Authorized(r.token)

Served(r, awaited) ==
    /\ Kept /\ SpendsOnly(r) /\ LiveOpen' /\ UNCHANGED ended
    /\ \E kind, t, row : Reply(r, awaited, kind, t, row) /\ Told(r, kind, t)

\* The tokens and the accounts stay as they are.
LEMMA StillServed ==
    ASSUME Inv, LiveOpen, NEW r, NEW awaited \in BOOLEAN, NEW kind, NEW t, NEW row,
           UNCHANGED <<tokens, ended, account>>, Reply(r, awaited, kind, t, row), Told(r, kind, t)
    PROVE  Served(r, awaited)
  <1>1. UNCHANGED <<status, session, holder, ended, account>>
    BY DEF tokens
  <1>2. Kept /\ SpendsOnly(r) /\ LiveOpen'
    BY <1>1 DEF Kept, SpendsOnly, LiveOpen, Granted
  <1> QED
    BY <1>1, <1>2 DEF Served

LEMMA RefusedServed ==
    ASSUME Inv, LiveOpen, NEW r, NEW awaited \in BOOLEAN, Refuse(r, awaited, "refused")
    PROVE  Served(r, awaited)
  <1>1. Told(r, "refused", NoToken) /\ UNCHANGED <<tokens, ended, account>>
    BY DEF Told, Refuse, server, tokens
  <1> QED
    BY <1>1, StillServed DEF Refuse

LEMMA UnauthorizedServed ==
    ASSUME Inv, LiveOpen, NEW r, NEW awaited \in BOOLEAN, Refuse(r, awaited, "unauthorized"),
           IF r.op = "refresh" THEN status[r.token] # "live"
           ELSE r.op \in AuthedOps /\ ~Authorized(r.token)
    PROVE  Served(r, awaited)
  <1>1. Told(r, "unauthorized", NoToken) /\ UNCHANGED <<tokens, ended, account>>
    BY DEF Told, Refuse, server, tokens
  <1> QED
    BY <1>1, StillServed DEF Refuse

\* An operation that is neither a sign-in nor a refresh, and touches no token.
LEMMA QuietServed ==
    ASSUME Inv, LiveOpen, NEW r, r.op \notin {"login", "register", "refresh"}, NEW awaited \in BOOLEAN,
           NEW row, UNCHANGED <<tokens, ended, account>>, Reply(r, awaited, "ok", NoToken, row)
    PROVE  Served(r, awaited)
  <1>1. Told(r, "ok", NoToken)
    BY DEF Told
  <1> QED
    BY <1>1, StillServed

LEMMA OpenServed ==
    ASSUME Inv, LiveOpen, NEW r, Sound(r), r.op \in {"login", "register"}, NEW awaited \in BOOLEAN,
           Open(r, awaited), account' = [account EXCEPT ![r.user] = "open"]
    PROVE  Served(r, awaited)
  <1>1. PICK t \in Fresh :
            /\ Server!Grant(t)
            /\ holder' = [holder EXCEPT ![t] = r.user]
            /\ Reply(r, awaited, "ok", t, NoRow)
            /\ UNCHANGED <<ended, profile>>
    BY DEF Open
  <1>2. t \in Token /\ r.user \in User /\ t \notin Granted
    BY DEF Fresh, Sound, Granted
  <1> USE DEF Inv, ApiInv, Server!TypeOK, Server!Grant
  <1>3. Kept /\ SpendsOnly(r)
    BY <1>1, <1>2 DEF Kept, SpendsOnly, Granted
  <1>4. LiveOpen'
    BY <1>1, <1>2 DEF LiveOpen, Granted
  <1>5. Told(r, "ok", t)
    BY <1>1, <1>2 DEF Told
  <1> QED
    BY <1>1, <1>3, <1>4, <1>5 DEF Served

LEMMA RefreshServed ==
    ASSUME Inv, LiveOpen, NEW r, Sound(r), NEW awaited \in BOOLEAN, Refresh(r, awaited)
    PROVE  Served(r, awaited)
  <1>1. CASE status[r.token] # "live" /\ Refuse(r, awaited, "unauthorized")
    BY <1>1, UnauthorizedServed DEF Refresh
  <1>2. CASE Refuse(r, awaited, "refused")
    BY <1>2, RefusedServed
  <1>3. ASSUME NEW t \in Fresh, Server!Rotate(r.token, t),
               holder' = [holder EXCEPT ![t] = holder[r.token]],
               Reply(r, awaited, "ok", t, NoRow), UNCHANGED <<ended, account, profile>>
        PROVE  Served(r, awaited)
    <2>1. t \in Token /\ t \notin Granted /\ r.token \in Granted /\ r.op = "refresh"
      BY DEF Fresh, Sound, Refresh, Granted
    <2> USE DEF Inv, ApiInv, Server!TypeOK, Server!Rotate
    <2>2. Kept /\ SpendsOnly(r)
      BY <1>3, <2>1 DEF Kept, SpendsOnly, Granted
    <2>3. LiveOpen'
      BY <1>3, <2>1 DEF LiveOpen, Granted
    <2>4. Told(r, "ok", t)
      BY <1>3, <2>1 DEF Told, Granted
    <2> QED
      BY <1>3, <2>2, <2>3, <2>4 DEF Served
  <1> QED
    BY <1>1, <1>2, <1>3 DEF Refresh

LEMMA LogoutServed ==
    ASSUME Inv, LiveOpen, NEW r, NEW awaited \in BOOLEAN, Logout(r, awaited)
    PROVE  Served(r, awaited)
  <1>1. /\ r.op = "logout" /\ UNCHANGED <<session, holder, ended, account>>
        /\ status' = [t \in Token |-> IF t \in {r.token} \cap {u \in Token : status[u] = "live"}
                                      THEN "spent" ELSE status[t]]
        /\ Reply(r, awaited, "ok", NoToken, NoRow)
    BY DEF Logout, Server!Spend
  <1>2. Kept /\ SpendsOnly(r) /\ LiveOpen'
    BY <1>1 DEF Kept, SpendsOnly, LiveOpen, Granted, Inv, ApiInv, Server!TypeOK
  <1>3. Told(r, "ok", NoToken)
    BY <1>1 DEF Told
  <1> QED
    BY <1>1, <1>2, <1>3 DEF Served

LEMMA AuthedServed ==
    ASSUME Inv, LiveOpen, NEW r, NEW awaited \in BOOLEAN, Authed(r, awaited)
    PROVE  Served(r, awaited)
  <1>1. r.op \in AuthedOps /\ r.op \notin {"login", "register", "refresh"}
    BY DEF Authed, AuthedOps
  <1>2. CASE ~Authorized(r.token)
    BY <1>1, <1>2, UnauthorizedServed DEF Authed
  <1>3. CASE Refuse(r, awaited, "refused")
    BY <1>3, RefusedServed
  <1>4. CASE \E row : Reply(r, awaited, "ok", NoToken, row) /\ UNCHANGED <<tokens, ended, account>>
    BY <1>1, <1>4, QuietServed
  <1>5. Authorized(r.token) =>
            \/ Refuse(r, awaited, "refused")
            \/ \E row : Reply(r, awaited, "ok", NoToken, row) /\ UNCHANGED <<tokens, ended, account>>
    BY DEF Authed, CreateProfile, UpdateProfile, Derive, server
  <1> QED
    BY <1>2, <1>3, <1>4, <1>5

LEMMA HandleServed ==
    ASSUME Inv, LiveOpen, NEW r, Sound(r), NEW awaited \in BOOLEAN, Handle(r, awaited)
    PROVE  Served(r, awaited)
  <1>1. CASE Register(r, awaited)
    BY <1>1, RefusedServed, OpenServed DEF Register
  <1>2. CASE Login(r, awaited)
    <2>1. CASE account[r.user] = "open" /\ UNCHANGED account /\ Open(r, awaited)
      <3>1. account' = [account EXCEPT ![r.user] = "open"]
        BY <2>1 DEF Inv, ApiInv
      <3> QED
        BY <1>2, <2>1, <3>1, OpenServed DEF Login
    <2> QED
      BY <1>2, <2>1, RefusedServed DEF Login
  <1>3. CASE Read(r, awaited)
    BY <1>3, QuietServed DEF Read, server
  <1> QED
    BY <1>1, <1>2, <1>3, RefreshServed, LogoutServed, AuthedServed DEF Handle

-----------------------------------------------------------------------------
(***************************************************************************)
(* The API answers                                                         *)
(***************************************************************************)

\* A usable token stays so while a late request is answered that does not
\* spend it.
LEMMA UsableKept ==
    ASSUME NEW r, SpendsOnly(r), UNCHANGED ended, late' \subseteq late, NEW t \in Granted, Usable(t),
           r.op \in {"refresh", "logout"} => t # r.token
    PROVE  Usable(t)'
  <1>1. LateSpends' \subseteq LateSpends
    BY DEF LateSpends
  <1> QED
    BY <1>1 DEF Usable, SpendsOnly

\* The tokens of the client side are granted, where there are any.
LEMMA HeldTokens ==
    ASSUME Inv
    PROVE  /\ client.access # NoToken => client.access \in Granted
           /\ client.refresh # NoToken => client.refresh \in Granted
           /\ page.refresh # NoToken => page.refresh \in Granted
           /\ call.token # NoToken => call.token \in Granted
  BY DEF Inv, ClientInv, PageInv, CallInv, Held

LEMMA LateTokensHeld ==
    ASSUME BackInv PROVE LateSpends \subseteq Held /\ {r.token : r \in late} \subseteq Held
  BY DEF BackInv, LateSpends

\* A new token is nobody's yet.
LEMMA FreshApart ==
    ASSUME Inv, BackInv, NEW t \in Fresh
    PROVE  /\ t \notin stale /\ t \notin LateSpends /\ t \notin {r.token : r \in late}
           /\ t # client.refresh /\ t # NoToken
  <1>1. t \notin Held /\ t # NoToken
    BY ClientAssumption DEF Fresh, Held, Granted
  <1> QED
    BY <1>1, LateTokensHeld DEF BackInv, Inv, ClientInv, Held

\* What does not change with an answer.
LEMMA ServedBack ==
    ASSUME Inv, SInv, NEW r, Served(r, TRUE) \/ Served(r, FALSE), Granted \subseteq Granted',
           late' \subseteq late, UNCHANGED <<stale, page>>
    PROVE  BackInv' /\ PagePair'
  <1>1. BackInv'
    BY DEF Served, LiveOpen, SInv, BackInv, Held
  <1>2. page.refresh # NoToken => holder'[page.refresh] = holder[page.refresh]
    BY HeldTokens DEF Served, Kept
  <1>3. PagePair'
    BY <1>2 DEF SInv, PagePair, SignedIn
  <1> QED
    BY <1>1, <1>3

LEMMA HandleLateSInv ==
    ASSUME Inv, SInv, NEW r \in late, HandleLate(r), UNCHANGED <<page, script>>
    PROVE  SInv'
  <1>1. Sound(r) /\ LiveOpen /\ UNCHANGED <<stale, client>>
    BY DEF Inv, LateInv, SInv, BackInv, LiveOpen, HandleLate, Handle
  <1>2. Served(r, FALSE) /\ Granted \subseteq Granted'
    BY <1>1, HandleServed, HandleOK DEF HandleLate, Handled
  <1>3. UNCHANGED call /\ late' \subseteq late /\ Kept /\ SpendsOnly(r) /\ UNCHANGED ended
    BY <1>2 DEF Served, Reply
  <1>4. BackInv' /\ PagePair'
    BY <1>1, <1>2, <1>3, ServedBack
  <1>5. \A t \in Granted : Usable(t) => Usable(t)'
    <2> SUFFICES ASSUME NEW t \in Granted, Usable(t) PROVE Usable(t)'
      OBVIOUS
    <2>1. r.op \in {"refresh", "logout"} => t # r.token
      BY DEF Usable, LateSpends
    <2> QED
      BY <1>3, <2>1, UsableKept
  <1>6. ClientPair'
    BY <1>1, <1>3, <1>5, HeldTokens DEF SInv, ClientPair, PagePair, Kept, SignedIn, Expired, Rotated, LoggedOut
  <1>7. CallFor'
    BY <1>3 DEF SInv, CallFor, Expired
  <1>8. CallPair'
    <2>1. (SignInOk' <=> SignInOk) /\ (Rotated' <=> Rotated) /\ (Refused' <=> Refused) /\ (Expired' <=> Expired)
      BY <1>3 DEF SignInOk, Rotated, Refused, Expired
    <2>2. SignInOk => call.token # NoToken /\ holder'[call.token] = call.req.user /\ Usable(call.token)'
      BY <1>3, <1>5, HeldTokens DEF SInv, CallPair, Kept
    <2>3. Rotated => call.token # NoToken /\ client.refresh # NoToken
      BY DEF Inv, CallInv, CallOK, Equipped, Rotated
    <2>4. Rotated => /\ session'[call.token] = session'[client.refresh]
                     /\ holder'[call.token] = holder'[client.refresh]
                     /\ Usable(call.token)'
      BY <1>3, <1>5, <2>3, HeldTokens DEF SInv, CallPair, Kept
    <2>5. Expired /\ SignedIn /\ ~call.silent => \E t \in ended : session'[t] = session'[page.refresh]
      <3> SUFFICES ASSUME Expired, SignedIn, ~call.silent
                   PROVE  \E t \in ended : session'[t] = session'[page.refresh]
        OBVIOUS
      <3>1. PICK t \in ended : session[t] = session[page.refresh]
        BY DEF SInv, CallPair
      <3>2. page.refresh \in Granted
        BY HeldTokens DEF SInv, PagePair
      <3>3. session'[page.refresh] = session[page.refresh]
        BY <1>3, <3>2 DEF Kept
      <3>4. session'[t] = session[t]
        BY <1>3 DEF SInv, BackInv, Kept
      <3> QED
        BY <3>1, <3>3, <3>4
    <2> QED
      BY <1>1, <1>3, <2>1, <2>2, <2>4, <2>5 DEF SInv, CallPair, SignedIn
  <1> QED
    BY <1>4, <1>6, <1>7, <1>8 DEF SInv

\* The call has its answer.
LEMMA HandleAwaitedSInv ==
    ASSUME Inv, SInv, HandleAwaited, UNCHANGED <<page, script>> PROVE SInv'
  <1> DEFINE r == Outgoing
  <1>1. /\ call.step = "sent" /\ Sound(r) /\ (r.op = "refresh" <=> call.phase = "refresh")
        /\ LiveOpen /\ UNCHANGED <<stale, client>>
    BY OutgoingSound DEF SInv, BackInv, LiveOpen, HandleAwaited, Handle
  <1>2. Served(r, TRUE) /\ Granted \subseteq Granted'
    BY <1>1, HandleServed, HandleOK DEF HandleAwaited, Handled
  <1>3. PICK kind, t, row : Reply(r, TRUE, kind, t, row) /\ Told(r, kind, t)
    BY <1>2 DEF Served
  <1>4. Kept /\ SpendsOnly(r) /\ UNCHANGED ended /\ UNCHANGED late
    BY <1>2, <1>3 DEF Served, Reply
  <1>5. /\ call'.req = call.req /\ call'.phase = call.phase /\ call'.silent = call.silent
        /\ call'.step = "answered" /\ call'.reply = kind /\ call'.token = t
    BY <1>3 DEF Reply, Inv, CallInv, CallOK, CallState
  <1>6. BackInv' /\ PagePair'
    BY <1>1, <1>2, <1>4, ServedBack
  <1>7. /\ call.phase = "refresh" => r.op = "refresh" /\ r.token = client.refresh /\ client.refresh # NoToken
        /\ call.phase # "refresh" => /\ r.op = call.req.op /\ r.user = call.req.user
                                     /\ r.op \in AuthedOps => r.token = client.access /\ client.access # NoToken
                                     /\ r.op = "logout" => r.token = client.refresh
    <2>1. call.req \in Request /\ Equipped(call, client)
      BY <1>1 DEF Inv, CallInv, CallOK, CallState
    <2> QED
      BY <2>1 DEF Outgoing, Equipped, NoRequest, Request, AuthedOps
  <1> HIDE DEF r
  <1>8. ~Expired /\ ~Expired' /\ ~Rotated /\ ~LoggedOut
    BY <1>1, <1>5 DEF Expired, Rotated, LoggedOut
  <1>9. client.refresh # NoToken => client.refresh \in Granted /\ Usable(client.refresh)
    BY <1>8, HeldTokens DEF SInv, ClientPair
  <1>10. client.refresh # NoToken /\ ~Rotated' /\ ~LoggedOut' => Usable(client.refresh)'
    <2> DEFINE t0 == client.refresh
    <2> SUFFICES ASSUME t0 # NoToken, ~Rotated', ~LoggedOut'
                 PROVE  (status'[t0] = "live" \/ t0 \in ended') /\ t0 \notin LateSpends'
      BY <1>1 DEF Usable
    <2>1. (status[t0] = "live" \/ t0 \in ended) /\ t0 \notin LateSpends /\ t0 \in Granted
      BY <1>9 DEF Usable
    <2>2. UNCHANGED <<ended, LateSpends>>
      BY <1>4 DEF LateSpends
    <2>3. CASE r.op = "refresh"
      <3>1. kind # "ok"
        BY <1>1, <1>5, <2>3 DEF Rotated
      <3>2. UNCHANGED status
        BY <1>3, <3>1 DEF Told
      <3> QED
        BY <2>1, <2>2, <3>2
    <2>4. CASE r.op # "refresh"
      <3>1. r.op # "logout"
        BY <1>1, <1>5, <1>7, <2>4 DEF LoggedOut
      <3>2. status[t0] = "live" => status'[t0] = "live"
        BY <1>4, <2>1, <2>4, <3>1 DEF SpendsOnly
      <3> QED
        BY <2>1, <2>2, <3>2
    <2> QED
      BY <2>3, <2>4
  <1>11. ClientPair'
    <2>1. client.refresh # NoToken =>
              /\ SignedIn /\ session'[client.refresh] = session'[page.refresh]
              /\ holder'[client.refresh] = page.user
      BY <1>4, HeldTokens DEF SInv, ClientPair, PagePair, Kept
    <2> QED
      BY <1>1, <1>5, <1>8, <1>10, <2>1 DEF SInv, ClientPair, SignedIn
  <1>12. CallFor'
    BY <1>1, <1>3, <1>5, <1>8 DEF SInv, CallFor, Told, NoCall
  <1>13. t \in Fresh => Usable(t)' \/ status'[t] # "live"
    BY <1>4, FreshApart DEF SInv, Usable, LateSpends
  <1>14. SignInOk' => t # NoToken /\ holder'[t] = call.req.user /\ Usable(t)'
    <2> SUFFICES ASSUME SignInOk' PROVE t # NoToken /\ holder'[t] = call.req.user /\ Usable(t)'
      OBVIOUS
    <2>1. call.req.op \in {"login", "register"} /\ kind = "ok"
      BY <1>5 DEF SignInOk
    <2>2. call.phase = "request"
      BY <2>1 DEF SInv, CallFor, AuthedOps
    <2>3. t \in Fresh /\ status'[t] = "live" /\ holder'[t] = call.req.user
      BY <1>3, <1>7, <2>1, <2>2 DEF Told
    <2> QED
      BY <1>13, <2>3, FreshApart DEF SInv
  <1>15. Rotated' => /\ session'[t] = session'[client.refresh] /\ holder'[t] = holder'[client.refresh]
                     /\ Usable(t)' /\ t # client.refresh /\ t \notin stale /\ t \notin {q.token : q \in late}
    <2> SUFFICES ASSUME Rotated'
                 PROVE  /\ session'[t] = session'[client.refresh] /\ holder'[t] = holder'[client.refresh]
                        /\ Usable(t)' /\ t # client.refresh /\ t \notin stale
                        /\ t \notin {q.token : q \in late}
      OBVIOUS
    <2>1. call.phase = "refresh" /\ kind = "ok"
      BY <1>5 DEF Rotated
    <2>2. /\ t \in Fresh /\ status'[t] = "live"
          /\ holder'[t] = holder[client.refresh] /\ session'[t] = session[client.refresh]
      BY <1>3, <1>7, <2>1 DEF Told
    <2>3. client.refresh \in Granted
      BY <1>7, <1>9, <2>1
    <2> QED
      BY <1>4, <1>13, <2>2, <2>3, FreshApart DEF SInv, Kept
  <1>16. Refused' => client.refresh \in ended
    <2> SUFFICES ASSUME Refused' PROVE client.refresh \in ended
      OBVIOUS
    <2>1. call.phase # "request" /\ kind = "unauthorized" /\ call.req.op \in AuthedOps
      BY <1>5 DEF Refused, SInv, CallFor
    <2>2. client.access = client.refresh
      BY DEF SInv, ClientPair
    <2>3. client.refresh # NoToken
      BY <1>7, <2>1, <2>2
    <2>4. status[client.refresh] # "live"
      <3>1. CASE call.phase = "refresh"
        BY <1>3, <1>7, <2>1, <3>1 DEF Told
      <3>2. CASE call.phase = "retry"
        <4>1. client.access \notin stale
          BY <1>1, <3>2 DEF SInv, CallPair
        <4>2. ~Authorized(client.access)
          BY <1>1, <1>3, <1>7, <2>1, <3>2 DEF Told
        <4>3. account[holder[client.refresh]] # "open"
          BY <2>2, <4>1, <4>2 DEF Authorized
        <4> QED
          BY <1>1, <1>9, <2>3, <4>3 DEF LiveOpen
      <3>3. call.phase \in {"refresh", "retry"}
        BY <2>1 DEF Inv, CallInv, CallOK, CallState, Phases
      <3> QED
        BY <3>1, <3>2, <3>3
    <2> QED
      BY <1>9, <2>3, <2>4 DEF Usable
  <1>17. CallPair'
    BY <1>1, <1>4, <1>5, <1>8, <1>14, <1>15, <1>16 DEF SInv, CallPair
  <1> QED
    BY <1>6, <1>11, <1>12, <1>17 DEF SInv

-----------------------------------------------------------------------------
(***************************************************************************)
(* The client                                                              *)
(***************************************************************************)

\* Nothing happens at the API, and nothing more is on its way.
LEMMA BackStays ==
    ASSUME Inv, SInv, UNCHANGED <<server, stale, page, late>>
    PROVE  BackInv' /\ PagePair' /\ \A t \in Token : Usable(t)' <=> Usable(t)
  <1>1. UNCHANGED <<status, session, holder, ended, account, stale, page, late>>
    BY DEF server, tokens
  <1> QED
    BY <1>1 DEF SInv, BackInv, PagePair, Granted, Held, SignedIn, Usable, LateSpends

\* What the head of a call makes of it.
LEMMA HeadFacts ==
    ASSUME NEW k, NEW r
    PROVE  /\ Head(k, r).req = r /\ Head(k, r).phase = "request" /\ ~Head(k, r).silent
           /\ \/ Head(k, r).step = "sent" /\ Head(k, r).result = "none"
              \/ /\ Head(k, r).step = "returned" /\ Head(k, r).result = "expired"
                 /\ r.op \in AuthedOps /\ k.access = NoToken
  BY DEF Head, Return, Send, NoCall

LEMMA StartFacts ==
    ASSUME NEW k, NEW r
    PROVE  /\ Start(k, r).req = r /\ Start(k, r).phase = "request" /\ ~Start(k, r).silent
           /\ \/ Start(k, r).step \in {"sent", "warmup"}
              \/ Start(k, r).step = "returned" /\ Start(k, r).result = "ok" /\ r.op = "logout"
              \/ /\ Start(k, r).step = "returned" /\ Start(k, r).result = "expired"
                 /\ r.op \in AuthedOps /\ k.access = NoToken
  <1>1. CASE r.op = "logout" /\ k.refresh = NoToken
    BY <1>1 DEF Start, Return, NoCall
  <1>2. CASE ~(r.op = "logout" /\ k.refresh = NoToken) /\ k.warm
    <2>1. Start(k, r) = Head(k, r)
      BY <1>2 DEF Start
    <2> QED
      BY <2>1, HeadFacts
  <1>3. CASE ~(r.op = "logout" /\ k.refresh = NoToken) /\ ~k.warm
    BY <1>3 DEF Start, NoCall
  <1> QED
    BY <1>1, <1>2, <1>3

\* The tokens of the client survive while the API is left alone and no
\* request is left behind.
LEMMA SameRoles ==
    ASSUME Inv, SInv, UNCHANGED <<server, stale, page, script, late>>, CallFor',
           client'.access = client.access, client'.refresh = client.refresh, ~Expired, ~Expired',
           call'.phase = "request" => call.phase = "request",
           client.refresh # NoToken => Usable(client.refresh) \/ LoggedOut',
           SignInOk' => SignInOk /\ call'.token = call.token /\ call'.req = call.req,
           ~Rotated', ~Refused', call'.phase # "retry"  \/ call'.step = "returned"
    PROVE  SInv'
  <1>1. BackInv' /\ PagePair' /\ \A t \in Token : Usable(t)' <=> Usable(t)
    BY BackStays
  <1>2. UNCHANGED <<session, holder, page>>
    BY DEF server, tokens
  <1>3. client.refresh # NoToken => client.refresh \in Token
    BY HeldTokens DEF Granted
  <1>4. \A t \in Token : Usable(t) => (status'[t] = "live" \/ t \in ended') /\ t \notin LateSpends'
    BY <1>1 DEF Usable
  <1>5. client'.refresh # NoToken /\ ~Rotated' /\ ~LoggedOut' => Usable(client.refresh)'
    <2> SUFFICES ASSUME client.refresh # NoToken, ~LoggedOut'
                 PROVE  (status'[client'.refresh] = "live" \/ client'.refresh \in ended')
                        /\ client'.refresh \notin LateSpends'
      BY DEF Usable
    <2> QED
      BY <1>3, <1>4
  <1>6. ClientPair'
    BY <1>2, <1>5 DEF SInv, ClientPair, SignedIn
  <1>7. SignInOk' => /\ call'.token # NoToken /\ holder'[call'.token] = call'.req.user
                     /\ Usable(call.token)'
    <2> SUFFICES ASSUME SignInOk'
                 PROVE  /\ call'.token # NoToken /\ holder'[call'.token] = call'.req.user
                        /\ (status'[call'.token] = "live" \/ call'.token \in ended')
                        /\ call'.token \notin LateSpends'
      BY DEF Usable
    <2>1. call.token # NoToken /\ holder[call.token] = call.req.user /\ Usable(call.token)
      BY DEF SInv, CallPair
    <2>2. call.token \in Token
      BY <2>1, HeldTokens DEF Granted
    <2> QED
      BY <1>2, <1>4, <2>1, <2>2
  <1>8. CallPair'
    BY <1>7 DEF CallPair
  <1> QED
    BY <1>1, <1>6, <1>8 DEF SInv

\* The tokens are cleared: the session is over, or an answer is missing.
LEMMA ExpireSInv ==
    ASSUME Inv, SInv, NEW c \in CallState, Expire(c), UNCHANGED <<server, stale, page, script>>, BackInv',
           c.req = call.req, c.phase = call.phase, call.req.op \in AuthedOps, call.step # "none",
           c.silent \/ ~SignedIn \/ \E t \in ended : session[t] = session[page.refresh]
    PROVE  SInv'
  <1>1. /\ client'.access = NoToken /\ client'.refresh = NoToken
        /\ call'.step = "returned" /\ call'.result = "expired"
        /\ call'.req = call.req /\ call'.phase = call.phase /\ call'.silent = c.silent
    BY DEF Expire, Return, Inv, ClientInv, Holding, CallState
  <1>2. Expired' /\ ~Rotated' /\ ~Refused' /\ ~SignInOk'
    BY <1>1 DEF Expired, Rotated, Refused, SignInOk
  <1>3. UNCHANGED <<session, holder, ended, page, script>>
    BY DEF server, tokens
  <1>4. PagePair'
    BY <1>3 DEF SInv, PagePair, SignedIn
  <1>5. ClientPair'
    BY <1>1, <1>2 DEF ClientPair
  <1>6. CallFor'
    BY <1>1, <1>2, <1>3 DEF SInv, CallFor, NoCall, AuthedOps
  <1>7. CallPair'
    BY <1>1, <1>2, <1>3 DEF CallPair, SignedIn
  <1> QED
    BY <1>4, <1>5, <1>6, <1>7 DEF SInv

LEMMA WarmupSInv ==
    ASSUME Inv, SInv, Warmup, UNCHANGED <<page, script, doubt>> PROVE SInv'
  <1>1. /\ call.step = "warmup" /\ call.phase = "request" /\ call \in CallState
        /\ script.stage # "idle" /\ UNCHANGED <<server, stale, late>>
    BY DEF SInv, CallFor, Inv, CallInv, CallOK, Warmup, NoCall
  <1>2. ~Expired /\ ~Rotated /\ ~LoggedOut /\ ~SignInOk /\ client.refresh = page.refresh
    BY <1>1 DEF Expired, Rotated, LoggedOut, SignInOk, SInv, ClientPair
  <1>3. client.refresh # NoToken => Usable(client.refresh)
    BY <1>2 DEF SInv, ClientPair
  <1>4. CASE call' = Return([call EXCEPT !.silent = TRUE], "error") /\ UNCHANGED client
    <2>1. /\ call'.step = "returned" /\ call'.result = "error"
          /\ call'.req = call.req /\ call'.phase = "request"
      BY <1>1, <1>4 DEF Return, CallState
    <2>2. ~Expired' /\ ~Rotated' /\ ~Refused' /\ ~SignInOk'
      BY <2>1 DEF Expired, Rotated, Refused, SignInOk
    <2>3. CallFor'
      BY <1>1, <2>1, <2>2 DEF SInv, CallFor
    <2> QED
      BY <1>1, <1>2, <1>3, <1>4, <2>1, <2>2, <2>3, SameRoles
  <1>5. CASE client' = [client EXCEPT !.warm = TRUE] /\ call' = Head(client, call.req)
    <2>1. client'.access = client.access /\ client'.refresh = client.refresh
      BY <1>5 DEF Inv, ClientInv, Holding
    <2>2. /\ call'.req = call.req /\ call'.phase = "request" /\ ~call'.silent
          /\ \/ call'.step = "sent"
             \/ /\ call'.step = "returned" /\ call'.result = "expired"
                /\ call.req.op \in AuthedOps /\ client.access = NoToken
      BY <1>5, HeadFacts
    <2>3. ~Rotated' /\ ~Refused' /\ ~SignInOk'
      BY <2>2 DEF Rotated, Refused, SignInOk
    <2>4. CallFor'
      BY <1>1, <2>2 DEF SInv, CallFor, Expired
    <2>5. CASE call'.step = "sent"
      <3>1. ~Expired'
        BY <2>5 DEF Expired
      <3> QED
        BY <1>1, <1>2, <1>3, <2>1, <2>2, <2>3, <2>4, <3>1, SameRoles
    <2>6. CASE call'.step = "returned"
      <3>1. client.refresh = NoToken /\ ~SignedIn
        BY <1>2, <2>2, <2>6 DEF SInv, ClientPair, PagePair
      <3>2. Expired' /\ ~SignedIn'
        BY <2>2, <2>6, <3>1 DEF Expired, SignedIn
      <3>3. BackInv' /\ PagePair'
        BY <1>1, BackStays
      <3>4. ClientPair'
        BY <2>1, <3>1, <3>2 DEF SInv, ClientPair
      <3>5. CallPair'
        BY <2>2, <2>3, <3>2 DEF CallPair
      <3> QED
        BY <2>4, <3>3, <3>4, <3>5 DEF SInv
    <2> QED
      BY <2>2, <2>5, <2>6
  <1> QED
    BY <1>4, <1>5 DEF Warmup

LEMMA ReceiveSInv ==
    ASSUME Inv, SInv, Receive, UNCHANGED <<page, script, doubt>> PROVE SInv'
  <1>1. /\ call.step = "answered" /\ call \in CallState /\ Equipped(call, client)
        /\ UNCHANGED <<server, stale, late>>
    BY OutBounds DEF Receive
  <1>2. script.stage # "idle" /\ ~Expired /\ BackInv' /\ call.reply # "none"
    BY <1>1, BackStays DEF SInv, CallFor, NoCall, Expired
  <1>3. client.access = client.refresh
    BY DEF SInv, ClientPair
  <1>4. CASE Reauthorize
    <2>1. call.phase = "request" /\ call.req.op \in AuthedOps
      BY <1>4 DEF Reauthorize
    <2>2. client.refresh # NoToken
      BY <1>1, <1>3, <2>1 DEF Equipped
    <2>3. call' = Send(call, "refresh") /\ UNCHANGED client
      BY <1>4, <2>2 DEF Reauthorize
    <2>4. call'.phase = "refresh" /\ call'.step = "sent" /\ call'.req = call.req
      BY <1>1, <2>3 DEF Send, CallState
    <2>5. ~Expired' /\ ~Rotated' /\ ~Refused' /\ ~SignInOk'
      BY <2>4 DEF Expired, Rotated, Refused, SignInOk
    <2>6. Usable(client.refresh)
      BY <2>1, <2>2 DEF SInv, ClientPair, Rotated, LoggedOut, AuthedOps
    <2>7. CallFor'
      BY <1>2, <2>1, <2>4, <2>5 DEF SInv, CallFor
    <2> QED
      BY <1>1, <1>2, <2>3, <2>4, <2>5, <2>6, <2>7, SameRoles
  <1>5. CASE Retry
    <2>1. Rotated /\ call.req.op \in AuthedOps /\ client.refresh # NoToken
      BY <1>1, <1>5 DEF Retry, Rotated, SInv, CallFor, Equipped
    <2>2. /\ client'.access = call.token /\ client'.refresh = call.token
          /\ call'.phase = "retry" /\ call'.step = "sent" /\ call'.req = call.req
      BY <1>1, <1>5 DEF Retry, Send, CallState, Inv, ClientInv, Holding
    <2>3. ~Expired' /\ ~Rotated' /\ ~Refused' /\ ~SignInOk' /\ ~LoggedOut'
      BY <2>2 DEF Expired, Rotated, Refused, SignInOk, LoggedOut
    <2>4. UNCHANGED <<status, session, holder, ended, stale, late, page, script>>
      BY <1>1 DEF server, tokens
    <2>5. call.token # NoToken
      BY <1>1, <1>5 DEF Retry, Inv, CallInv, CallOK
    <2>6. /\ SignedIn /\ session[call.token] = session[page.refresh] /\ holder[call.token] = page.user
          /\ Usable(call.token) /\ call.token \notin stale
      BY <2>1 DEF SInv, CallPair, ClientPair
    <2>7. PagePair'
      BY <1>1, BackStays
    <2>8. (status'[client'.refresh] = "live" \/ client'.refresh \in ended')
             /\ client'.refresh \notin LateSpends'
      BY <2>2, <2>4, <2>6 DEF Usable, LateSpends
    <2>9. ClientPair'
      BY <2>2, <2>3, <2>4, <2>5, <2>6, <2>8 DEF ClientPair, Usable, SignedIn
    <2>10. CallFor'
      BY <1>2, <2>1, <2>2, <2>3, <2>4 DEF SInv, CallFor, AuthedOps
    <2>11. CallPair'
      BY <2>2, <2>3, <2>4, <2>6 DEF CallPair
    <2> QED
      BY <1>2, <2>7, <2>9, <2>10, <2>11 DEF SInv
  <1>6. CASE GoneForGood
    <2> DEFINE c == [call EXCEPT !.silent = @ \/ call.reply = "refused"]
    <2>1. /\ c \in CallState /\ c.req = call.req /\ c.phase = call.phase
          /\ c.silent <=> (call.silent \/ call.reply = "refused")
      BY <1>1 DEF CallState
    <2>2. Expire(c)
      BY <1>6 DEF GoneForGood
    <2> HIDE DEF c
    <2>3. call.phase # "request" /\ call.req.op \in AuthedOps /\ client.refresh # NoToken
      BY <1>1, <1>3, <1>6 DEF GoneForGood, SInv, CallFor, Equipped
    <2>4. call.reply # "refused" => call.reply = "unauthorized"
      BY <1>1, <1>2, <1>6 DEF GoneForGood, CallState, Replies
    <2>5. call.reply = "unauthorized" => \E t \in ended : session[t] = session[page.refresh]
      <3> SUFFICES ASSUME call.reply = "unauthorized"
                   PROVE  \E t \in ended : session[t] = session[page.refresh]
        OBVIOUS
      <3>1. client.refresh \in ended /\ session[client.refresh] = session[page.refresh]
        BY <1>1, <2>3 DEF SInv, CallPair, ClientPair, Refused
      <3> QED
        BY <3>1
    <2> QED
      BY <1>1, <1>2, <2>1, <2>2, <2>3, <2>4, <2>5, ExpireSInv
  <1>7. CASE Deliver
    <2> DEFINE x == IF call.reply = "ok" THEN "ok" ELSE "error"
    <2>1. call' = Return(call, x) /\ UNCHANGED client /\ call.phase # "refresh"
      BY <1>7 DEF Deliver, Received
    <2>2. /\ call'.step = "returned" /\ call'.result = x /\ call'.req = call.req
          /\ call'.phase = call.phase /\ call'.token = call.token
      BY <1>1, <2>1 DEF Return, CallState
    <2>3. ~Expired' /\ ~Rotated /\ ~Rotated' /\ ~Refused'
      BY <2>1, <2>2 DEF Expired, Rotated, Refused
    <2>4. (SignInOk' <=> SignInOk) /\ (LoggedOut' <=> LoggedOut)
      BY <1>1, <2>2 DEF SignInOk, LoggedOut
    <2>5. client.refresh # NoToken => Usable(client.refresh) \/ LoggedOut'
      BY <2>3, <2>4 DEF SInv, ClientPair
    <2>6. CallFor'
      BY <1>2, <2>2, <2>3 DEF SInv, CallFor
    <2> QED
      BY <1>1, <1>2, <2>1, <2>2, <2>3, <2>4, <2>5, <2>6, SameRoles
  <1> QED
    BY <1>4, <1>5, <1>6, <1>7 DEF Receive

LEMMA GiveUpSInv ==
    ASSUME Inv, SInv, GiveUp, UNCHANGED <<page, script, doubt>> PROVE SInv'
  <1> DEFINE c == [call EXCEPT !.silent = TRUE]
  <1>1. /\ call \in CallState /\ call.step \in {"sent", "answered"} /\ UNCHANGED <<server, stale>>
        /\ c \in CallState /\ c.req = call.req /\ c.phase = call.phase /\ c.silent
        /\ c.token = call.token
    BY OutBounds DEF GiveUp, CallState
  <1>2. UNCHANGED <<status, session, holder, ended, account, stale, page, script>>
    BY <1>1 DEF server, tokens
  <1>3. late' = late \/ (call.step = "sent" /\ late' = late \cup {Outgoing})
    BY DEF GiveUp
  <1>4. Outgoing.token \in {client.access, client.refresh, NoToken}
    BY <1>1 DEF Outgoing, NoRequest, CallState, Request
  <1>5. BackInv'
    <2>1. Granted' = Granted /\ Held' = Held
      BY <1>2 DEF Granted, Held
    <2>2. Outgoing.token \in Held
      BY <1>4 DEF Inv, ClientInv, Held
    <2> QED
      BY <1>2, <1>3, <2>1, <2>2 DEF SInv, BackInv
  <1>6. script.stage # "idle" /\ ~Expired
    BY <1>1 DEF Expired, SInv, CallFor, NoCall
  <1>7. CASE call.phase = "refresh"
    <2>1. Expire(c) /\ call.req.op \in AuthedOps
      BY <1>7 DEF GiveUp, SInv, CallFor
    <2> HIDE DEF c
    <2> QED
      BY <1>1, <1>5, <2>1, ExpireSInv
  <1>8. CASE call.phase # "refresh"
    <2>1. call' = Return(c, "error") /\ UNCHANGED client
      BY <1>8 DEF GiveUp
    <2>2. /\ call'.step = "returned" /\ call'.result = "error" /\ call'.req = call.req
          /\ call'.phase = call.phase
      BY <1>1, <2>1 DEF Return, CallState
    <2>3. ~Expired' /\ ~Rotated /\ ~Rotated' /\ ~Refused' /\ ~SignInOk'
      BY <1>8, <2>2 DEF Expired, Rotated, Refused, SignInOk
    <2>4. Outgoing.op = call.req.op
      BY <1>1, <1>8 DEF Outgoing, CallState, Request
    <2>5. ~LoggedOut' => LateSpends' = LateSpends /\ ~LoggedOut
      <3> SUFFICES ASSUME ~LoggedOut' PROVE LateSpends' = LateSpends /\ ~LoggedOut
        OBVIOUS
      <3>1. call.req.op # "logout"
        BY <2>2 DEF LoggedOut
      <3>2. call.req.op # "refresh"
        BY <1>1 DEF Inv, CallInv, CallOK, Ops, PublicOps, AuthedOps
      <3> QED
        BY <1>3, <2>4, <3>1, <3>2 DEF LateSpends, LoggedOut
    <2>6. client.refresh # NoToken /\ ~LoggedOut' =>
              (status'[client.refresh] = "live" \/ client.refresh \in ended')
                 /\ client.refresh \notin LateSpends'
      BY <1>2, <2>3, <2>5 DEF SInv, ClientPair, Usable
    <2>7. PagePair'
      BY <1>2 DEF SInv, PagePair, SignedIn
    <2>8. ClientPair'
      BY <1>2, <1>6, <2>1, <2>2, <2>3, <2>6 DEF SInv, ClientPair, Usable, SignedIn
    <2>9. CallFor'
      BY <1>2, <1>6, <2>2, <2>3 DEF SInv, CallFor
    <2>10. CallPair'
      BY <2>2, <2>3 DEF CallPair
    <2> QED
      BY <1>5, <2>7, <2>8, <2>9, <2>10 DEF SInv
  <1> QED
    BY <1>7, <1>8

-----------------------------------------------------------------------------
(***************************************************************************)
(* The page                                                                *)
(***************************************************************************)

\* A page whose pair can be handed to the client.
GoodPair(p) ==
    /\ p.access = p.refresh
    /\ p.user # NoUser <=> p.refresh # NoToken
    /\ p.user # NoUser => holder[p.refresh] = p.user
    /\ p.refresh # NoToken => Usable(p.refresh)

\* What the script calls the API for.
LEMMA RequestFor ==
    ASSUME NEW p \in Page, NEW s, Callable(s), s.stage # "idle"
    PROVE  /\ RequestOf(s, p).op \in {"login", "register"} => RequestOf(s, p).user = s.user
           /\ RequestOf(s, p).op = "logout" => s.click = "logout"
  <1>1. CASE s.stage = "auth"
    <2>1. RequestOf(s, p) = [NoRequest EXCEPT !.op = s.click, !.user = s.user]
      BY <1>1 DEF RequestOf
    <2> QED
      BY <2>1 DEF NoRequest
  <1>2. CASE s.stage = "resume"
    BY <1>2 DEF RequestOf, NoRequest
  <1>3. CASE s.stage = "form"
    <2>1. SaveRequest(p, s.form).op \in {"create_profile", "update_profile"}
      BY <1>3, SaveRequestOK DEF Callable, Script
    <2> QED
      BY <1>3, <2>1 DEF RequestOf
  <1>4. CASE s.stage = "jobs"
    BY <1>4 DEF RequestOf, NoRequest
  <1>5. CASE s.stage = "analyse"
    BY <1>5 DEF RequestOf, NoRequest
  <1>6. CASE s.stage = "roadmap"
    BY <1>6 DEF RequestOf, NoRequest
  <1>7. CASE s.stage = "done"
    BY <1>7 DEF RequestOf, NoRequest
  <1> QED
    BY <1>1, <1>2, <1>3, <1>4, <1>5, <1>6, <1>7 DEF Callable, Script, Stages

\* The script goes on with page p and a client that holds its pair.
LEMMA EnterSInv ==
    ASSUME Inv, SInv, UNCHANGED <<server, stale, late>>, GoodPair(page'), page' \in Page,
           NEW c, c.access = page'.refresh, c.refresh = page'.refresh,
           NEW s, Callable(s), Enter(page', c, s)
    PROVE  SInv'
  <1>1. UNCHANGED <<status, session, holder, ended, account, stale, late>>
    BY DEF server, tokens
  <1>2. BackInv'
    BY <1>1 DEF SInv, BackInv, Granted, Held
  <1>3. PagePair'
    BY <1>1 DEF GoodPair, PagePair, SignedIn
  <1>4. client' = c
    BY DEF Enter
  <1>5. /\ call'.phase = "request" /\ ~call'.silent
        /\ \/ call'.step \in {"none", "sent", "warmup"}
           \/ call'.step = "returned" /\ call'.result = "ok" /\ call'.req.op = "logout"
           \/ /\ call'.step = "returned" /\ call'.result = "expired"
              /\ call'.req.op \in AuthedOps /\ c.access = NoToken
    <2>1. CASE s.stage = "idle"
      BY <2>1 DEF Enter, NoCall
    <2>2. CASE s.stage # "idle"
      <3>1. call' = Start(c, RequestOf(s, page'))
        BY <2>2 DEF Enter
      <3> QED
        BY <3>1, StartFacts
    <2> QED
      BY <2>1, <2>2
  <1>6. /\ Expired' => call'.req.op \in AuthedOps /\ page'.refresh = NoToken
        /\ ~Rotated' /\ ~Refused' /\ ~SignInOk'
    BY <1>5 DEF Expired, Rotated, Refused, SignInOk, AuthedOps
  <1>7. ~Expired' => call'.req.op = "logout" \/ call'.step # "returned"
    BY <1>5 DEF Expired
  <1>8. SignedIn' <=> page'.refresh # NoToken
    BY DEF GoodPair, SignedIn
  <1>9. page'.refresh # NoToken =>
            /\ holder'[page'.refresh] = page'.user
            /\ status'[page'.refresh] = "live" \/ page'.refresh \in ended'
            /\ page'.refresh \notin LateSpends'
    BY <1>1 DEF GoodPair, Usable, LateSpends
  <1>10. ClientPair'
    BY <1>4, <1>5, <1>6, <1>8, <1>9 DEF ClientPair, Usable
  <1>11. CallFor'
    <2>1. CASE s.stage = "idle"
      <3>1. call' = NoCall /\ script' = Idle
        BY <2>1 DEF Enter
      <3> QED
        BY <3>1 DEF CallFor, NoCall, NoRequest, Expired
    <2>2. CASE s.stage # "idle"
      <3>1. script' = s /\ call' = Start(c, RequestOf(s, page'))
        BY <2>2 DEF Enter
      <3>2. call'.req = RequestOf(s, page')
        BY <3>1, StartFacts
      <3>3. /\ call'.req.op \in {"login", "register"} => call'.req.user = s.user
            /\ call'.req.op = "logout" => s.click = "logout"
        BY <2>2, <3>2, RequestFor
      <3> QED
        BY <1>5, <1>6, <2>2, <3>1, <3>3 DEF CallFor
    <2> QED
      BY <2>1, <2>2
  <1>12. CallPair'
    BY <1>5, <1>6, <1>8 DEF CallPair
  <1> QED
    BY <1>2, <1>3, <1>10, <1>11, <1>12 DEF SInv

\* A new run hands the page's pair to the client.
LEMMA RunSInv ==
    ASSUME Inv, SInv, UNCHANGED <<server, stale, late>>, GoodPair(page'), page' \in Page,
           NEW s \in Script, Run(page', s), s.click \in {"login", "register"} => s.user \in User
    PROVE  SInv'
  <1> DEFINE r == [s EXCEPT !.stage = FromAuth(page', s.click)]
             c == Attached(page')
  <1>1. FromAuth(page', s.click) \in Stages
        /\ (FromAuth(page', s.click) = "auth" => s.click \in {"login", "register", "logout"})
    BY NextStages
  <1>2. Callable(r)
    BY <1>1 DEF Callable, Script
  <1>3. c.access = page'.refresh /\ c.refresh = page'.refresh
    BY DEF Attached, GoodPair, Inv, ClientInv, Holding
  <1>4. Enter(page', c, r)
    BY DEF Run
  <1> HIDE DEF r, c
  <1> QED
    BY <1>2, <1>3, <1>4, EnterSInv

LEMMA RerunSInv ==
    ASSUME Inv, SInv, UNCHANGED <<server, stale, late>>, GoodPair(page'), page' \in Page, Rerun
    PROVE  SInv'
  <1>1. Idle \in Script /\ Idle.click = "none"
    BY DEF Idle, Script, Stages, Clicks
  <1> QED
    BY <1>1, RunSInv DEF Rerun

\* The same run goes on, with the client it has.
LEMMA GoOnSInv ==
    ASSUME Inv, SInv, UNCHANGED <<server, stale, late>>, GoodPair(page'), page' \in Page,
           client.refresh = page'.refresh, NEW stage \in Stages \ {"auth"}, GoOn(stage)
    PROVE  SInv'
  <1> DEFINE s == [script EXCEPT !.stage = stage]
  <1>1. Callable(s)
    BY DEF Callable, Script, Inv, PageInv
  <1>2. Enter(page', client, s)
    BY DEF GoOn
  <1>3. client.access = page'.refresh
    BY DEF SInv, ClientPair
  <1> HIDE DEF s
  <1> QED
    BY <1>1, <1>2, <1>3, EnterSInv

\* Before a call of nobody's session the page's pair is the client's, and live.
LEMMA PublicPair ==
    ASSUME Inv, SInv, call.req.op \in PublicOps \ {"logout"}
    PROVE  GoodPair(page) /\ client.refresh = page.refresh
  <1>1. call.req.op \notin AuthedOps
    BY DEF PublicOps, AuthedOps
  <1>2. call.phase = "request" /\ ~Expired
    BY <1>1 DEF SInv, CallFor
  <1>3. client.refresh = page.refresh /\ ~Rotated /\ ~LoggedOut
    BY <1>2 DEF SInv, ClientPair, Rotated, LoggedOut
  <1> QED
    BY <1>3 DEF SInv, ClientPair, PagePair, GoodPair, SignedIn

\* After a call that did not end the session the client's pair is the page's.
LEMMA PersistedPair ==
    ASSUME Inv, SInv, call.step = "returned", ~Expired, call.req.op # "logout"
    PROVE  GoodPair(Persisted(page)) /\ client.refresh = Persisted(page).refresh
  <1>1. ~Rotated /\ ~LoggedOut /\ page \in Page /\ client.access = client.refresh
    BY DEF Rotated, LoggedOut, Inv, PageInv, SInv, ClientPair
  <1>2. CASE client.refresh # NoToken
    <2>1. /\ Persisted(page).access = client.refresh /\ Persisted(page).refresh = client.refresh
          /\ Persisted(page).user = page.user
      BY <1>1, <1>2 DEF Persisted, Page
    <2> QED
      BY <1>1, <1>2, <2>1 DEF SInv, ClientPair, GoodPair, SignedIn
  <1>3. CASE client.refresh = NoToken
    <2>1. /\ Persisted(page).access = page.access /\ Persisted(page).refresh = page.refresh
          /\ Persisted(page).user = page.user
      BY <1>1, <1>3 DEF Persisted, Page
    <2>2. ~SignedIn
      BY <1>3 DEF SInv, ClientPair
    <2> QED
      BY <1>3, <2>1, <2>2 DEF SInv, PagePair, GoodPair, SignedIn
  <1> QED
    BY <1>2, <1>3

\* What a section of the page takes over leaves the pair alone.
LEMMA TakenOverSInv ==
    ASSUME Inv, SInv, UNCHANGED <<server, stale, late>>, call.step = "returned", ~Expired,
           call.req.op # "logout", page' \in Page,
           page'.access = Persisted(page).access, page'.refresh = Persisted(page).refresh,
           page'.user = Persisted(page).user,
           Rerun \/ \E stage \in Stages \ {"auth"} : GoOn(stage)
    PROVE  SInv'
  <1>1. GoodPair(page') /\ client.refresh = page'.refresh
    BY PersistedPair DEF GoodPair
  <1> QED
    BY <1>1, RerunSInv, GoOnSInv

LEMMA EndErrorSInv ==
    ASSUME Inv, SInv, UNCHANGED <<server, stale, late>>, NEW op, op # "logout",
           NEW stage \in Stages \ {"auth"}, EndError(op, stage)
    PROVE  SInv'
  <1>1. page' = Persisted(page) /\ page' \in Page
    BY GoodNow DEF EndError, GoodPage
  <1>2. call.step = "returned" /\ ~Expired /\ call.req.op # "logout" /\ GoOn(stage)
    BY DEF EndError, Returned, Expired
  <1> QED
    BY <1>1, <1>2, TakenOverSInv

\* The page takes rows over from a call that succeeded.
LEMMA RowsSInv ==
    ASSUME Inv, SInv, UNCHANGED <<server, stale, late>>, NEW op, op # "logout", Returned(op), Ok,
           page' \in Page, page'.access = Persisted(page).access,
           page'.refresh = Persisted(page).refresh, page'.user = Persisted(page).user,
           Rerun \/ \E stage \in Stages \ {"auth"} : GoOn(stage)
    PROVE  SInv'
  <1>1. call.step = "returned" /\ ~Expired /\ call.req.op # "logout"
    BY DEF Returned, Ok, Expired
  <1> QED
    BY <1>1, TakenOverSInv

LEMMA EndSignInSInv ==
    ASSUME Inv, SInv, UNCHANGED <<server, stale, late>>, EndSignIn PROVE SInv'
  <1>1. call.req.op \in {"login", "register"} /\ call.step = "returned"
    BY DEF EndSignIn, Returned
  <1>2. page' \in Page
    BY EndSignInOK DEF GoodPage, Inv
  <1>3. CASE Ok
    <2>1. SignInOk
      BY <1>1, <1>3 DEF SignInOk, Ok
    <2>2. /\ call.token # NoToken /\ holder[call.token] = script.user /\ Usable(call.token)
          /\ script.user \in User
      BY <1>1, <2>1 DEF SInv, CallPair, CallFor, Inv, CallInv, CallOK
    <2>3. /\ page'.access = call.token /\ page'.refresh = call.token /\ page'.user = script.user
      BY <1>3 DEF EndSignIn, Inv, PageInv, Page
    <2>4. GoodPair(page')
      BY <2>2, <2>3, ClientAssumption DEF GoodPair
    <2> QED
      BY <1>2, <1>3, <2>4, RerunSInv DEF EndSignIn
  <1>4. CASE ~Ok
    <2>1. UNCHANGED page /\ GoOn("idle") /\ "idle" \in Stages \ {"auth"}
      BY <1>4 DEF EndSignIn, Stages
    <2>2. GoodPair(page) /\ client.refresh = page.refresh
      BY <1>1, PublicPair DEF PublicOps
    <2> QED
      BY <1>2, <2>1, <2>2, GoOnSInv
  <1> QED
    BY <1>3, <1>4

LEMMA EndSignOutSInv ==
    ASSUME Inv, SInv, UNCHANGED <<server, stale, late>>, EndSignOut \/ EndExpired PROVE SInv'
  <1>1. page' \in Page /\ Rerun /\ page \in Page
    BY EndSignOutOK DEF GoodPage, EndSignOut, EndExpired, Inv, PageInv
  <1>2. page'.access = NoToken /\ page'.refresh = NoToken /\ page'.user = NoUser
    <2>1. CASE EndSignOut
      BY <1>1, <2>1 DEF EndSignOut, SignedOut, Page
    <2>2. CASE EndExpired
      <3>1. client.access = NoToken /\ client.refresh = NoToken
        BY <2>2 DEF EndExpired, Expired, SInv, ClientPair
      <3> QED
        BY <1>1, <2>2, <3>1 DEF EndExpired, Persisted, SignedOut, Page
    <2> QED
      BY <2>1, <2>2
  <1>3. GoodPair(page')
    BY <1>2 DEF GoodPair
  <1> QED
    BY <1>1, <1>3, RerunSInv

LEMMA EndParseResumeSInv ==
    ASSUME Inv, SInv, UNCHANGED <<server, stale, late>>, EndParseResume PROVE SInv'
  <1>1. UNCHANGED page /\ page' \in Page /\ GoOn(FromForm(page, script.click))
    BY DEF EndParseResume, Inv, PageInv
  <1>2. GoodPair(page) /\ client.refresh = page.refresh
    BY PublicPair DEF EndParseResume, Returned, PublicOps
  <1> QED
    BY <1>1, <1>2, NextStages, GoOnSInv

LEMMA SectionsSInv ==
    ASSUME Inv, SInv, UNCHANGED <<server, stale, late>>,
           EndSave \/ EndJobs \/ EndAnalyse \/ EndRoadmap \/ EndDone
    PROVE  SInv'
  <1>1. Persisted(page) \in Page /\ call.row \in Row \cup {NoRow} /\ "idle" \in Stages \ {"auth"}
    BY GoodNow DEF GoodPage, Page, Stages
  <1>2. CASE EndSave
    <2>1. PICK op \in {"create_profile", "update_profile"} :
            \/ /\ Returned(op) /\ Ok /\ Rerun
               /\ page' = [Persisted(page) EXCEPT !.profile = call.row, !.gap = NoRow, !.roadmap = NoRow]
            \/ EndError(op, FromJobs(page))
      BY <1>2 DEF EndSave
    <2>2. CASE /\ Returned(op) /\ Ok /\ Rerun
               /\ page' = [Persisted(page) EXCEPT !.profile = call.row, !.gap = NoRow, !.roadmap = NoRow]
      <3>1. /\ page' \in Page /\ page'.access = Persisted(page).access
            /\ page'.refresh = Persisted(page).refresh /\ page'.user = Persisted(page).user
        BY <1>1, <2>2 DEF Page
      <3> QED
        BY <2>2, <3>1, RowsSInv
    <2> QED
      BY <2>1, <2>2, NextStages, EndErrorSInv
  <1>3. CASE EndJobs
    <2>1. CASE EndError("list_jobs", FromRoadmap(page, script.click))
      BY <2>1, NextStages, EndErrorSInv
    <2>2. CASE /\ Returned("list_jobs") /\ Ok /\ page' = Persisted(page)
               /\ GoOn(FromAnalyse(page, script.click))
      BY <1>1, <2>2, NextStages, RowsSInv
    <2> QED
      BY <1>3, <2>1, <2>2 DEF EndJobs
  <1>4. CASE EndAnalyse
    <2>1. CASE EndError("create_analysis", FromRoadmap(page, script.click))
      BY <2>1, NextStages, EndErrorSInv
    <2>2. CASE /\ Returned("create_analysis") /\ Ok /\ Rerun
               /\ page' = [Persisted(page) EXCEPT !.gap = call.row, !.roadmap = NoRow]
      <3>1. /\ page' \in Page /\ page'.access = Persisted(page).access
            /\ page'.refresh = Persisted(page).refresh /\ page'.user = Persisted(page).user
        BY <1>1, <2>2 DEF Page
      <3> QED
        BY <2>2, <3>1, RowsSInv
    <2> QED
      BY <1>4, <2>1, <2>2 DEF EndAnalyse
  <1>5. CASE EndRoadmap \/ EndDone
    <2>1. CASE EndError("create_roadmap", "idle") \/ EndError("update_resource", "idle")
      BY <1>1, <2>1, EndErrorSInv
    <2>2. CASE /\ Returned("create_roadmap") \/ Returned("update_resource")
               /\ Ok /\ page' = [Persisted(page) EXCEPT !.roadmap = call.row]
               /\ Rerun \/ GoOn(FromDone(script.click))
      <3>1. /\ page' \in Page /\ page'.access = Persisted(page).access
            /\ page'.refresh = Persisted(page).refresh /\ page'.user = Persisted(page).user
        BY <1>1, <2>2 DEF Page
      <3> QED
        BY <2>2, <3>1, NextStages, RowsSInv
    <2> QED
      BY <1>5, <2>1, <2>2 DEF EndRoadmap, EndDone
  <1> QED
    BY <1>2, <1>3, <1>4, <1>5

LEMMA ResumeSInv == ASSUME Inv, SInv, Resume PROVE SInv'
  BY EndSignInSInv, EndSignOutSInv, EndParseResumeSInv, SectionsSInv DEF Resume

LEMMA InteractSInv == ASSUME Inv, SInv, NEW click \in Clicks, Interact(click) PROVE SInv'
  <1>1. PICK form \in SUBSET Skill, u \in User \cup {NoUser} :
            /\ click \in {"login", "register"} => u \in User
            /\ Run(page, [Idle EXCEPT !.click = click, !.form = form, !.user = u])
    <2>1. \E form \in (IF click = "save" THEN SUBSET Skill ELSE {{}}) :
          \E u \in (IF click \in {"login", "register"} THEN User ELSE {NoUser}) :
             Run(page, [Idle EXCEPT !.click = click, !.form = form, !.user = u])
      BY DEF Interact
    <2> QED
      BY <2>1
  <1> DEFINE s == [Idle EXCEPT !.click = click, !.form = form, !.user = u]
  <1>2. s \in Script /\ s.click = click /\ s.user = u
    BY DEF Idle, Script, Stages
  <1>3. Run(page, s)
    BY <1>1
  <1> HIDE DEF s
  <1>4. call = NoCall
    BY DEF Interact, SInv, CallFor
  <1>5. GoodPair(page) /\ UNCHANGED page /\ page \in Page
    BY <1>4, PublicPair DEF NoCall, NoRequest, PublicOps, Interact, Inv, PageInv
  <1> QED
    BY <1>1, <1>2, <1>3, <1>5, RunSInv DEF Interact

-----------------------------------------------------------------------------
(***************************************************************************)
(* The clock and the operator                                              *)
(***************************************************************************)

\* Tokens that end are still usable in the sense of Usable.
LEMMA EndedSInv ==
    ASSUME Inv, SInv, NEW S \in SUBSET Token, Server!Spend(S), ended' = ended \cup S, LiveOpen',
           UNCHANGED <<holder, stale, client, call, late, page, script>>
    PROVE  SInv'
  <1>1. Granted' = Granted /\ Held' = Held /\ S \subseteq Granted
    BY DEF Granted, Held, Server!Spend, Inv, ApiInv, Server!TypeOK
  <1>2. UNCHANGED <<session, holder, stale, client, call, late, page, script, LateSpends>>
        /\ ended \subseteq ended'
    BY DEF Server!Spend, LateSpends
  <1>3. \A t \in Token : Usable(t) => (status'[t] = "live" \/ t \in ended') /\ t \notin LateSpends'
    BY <1>2 DEF Usable, Server!Spend
  <1>4. BackInv'
    BY <1>1, <1>2 DEF SInv, BackInv, LiveOpen
  <1>5. PagePair'
    BY <1>2 DEF SInv, PagePair, SignedIn
  <1>6. /\ client.refresh # NoToken => client.refresh \in Token
        /\ call.token # NoToken => call.token \in Token
    BY HeldTokens DEF Granted
  <1>7. (SignedIn' <=> SignedIn) /\ (Expired' <=> Expired) /\ (Rotated' <=> Rotated)
        /\ (LoggedOut' <=> LoggedOut) /\ (SignInOk' <=> SignInOk) /\ (Refused' <=> Refused)
    BY <1>2 DEF SignedIn, Expired, Rotated, LoggedOut, SignInOk, Refused
  <1>8. ClientPair'
    <2>1. client.refresh # NoToken /\ ~Rotated /\ ~LoggedOut =>
              (status'[client.refresh] = "live" \/ client.refresh \in ended') /\ client.refresh \notin LateSpends'
      BY <1>3, <1>6 DEF SInv, ClientPair
    <2> QED
      BY <1>2, <1>7, <2>1 DEF SInv, ClientPair, Usable
  <1>9. CallFor'
    BY <1>2, <1>7 DEF SInv, CallFor
  <1>10. CallPair'
    <2>1. Rotated => call.token # NoToken
      BY DEF Rotated, Inv, CallInv, CallOK
    <2>2. SignInOk \/ Rotated =>
              (status'[call.token] = "live" \/ call.token \in ended') /\ call.token \notin LateSpends'
      BY <1>3, <1>6, <2>1 DEF SInv, CallPair
    <2> QED
      BY <1>2, <1>7, <2>2 DEF SInv, CallPair, Usable
  <1> QED
    BY <1>4, <1>5, <1>8, <1>9, <1>10 DEF SInv

\* An access token that expires is not the one an open refresh has brought.
LEMMA AccessExpiresSInv ==
    ASSUME Inv, SInv, NEW t \in Presentable, AccessExpires(t), UNCHANGED <<page, script>>
    PROVE  SInv'
  <1>1. UNCHANGED <<status, session, holder, ended, account, client, call, late, page, script>>
        /\ stale' = stale \cup {t} /\ call.phase # "retry"
    BY DEF AccessExpires, server, tokens
  <1>2. t \in {client.access, client.refresh} \cup {r.token : r \in late} /\ t \in Token /\ t # NoToken
    BY PresentableGranted DEF Presentable
  <1>3. t \in Granted
    BY <1>2 DEF Inv, ClientInv, SInv, BackInv, Held
  <1>4. BackInv'
    BY <1>1, <1>3 DEF SInv, BackInv, Granted, Held
  <1>5. PagePair' /\ CallFor'
    BY <1>1 DEF SInv, PagePair, SignedIn, CallFor, Expired
  <1>6. ClientPair'
    BY <1>1 DEF SInv, ClientPair, SignedIn, Expired, Rotated, LoggedOut, Usable, LateSpends
  <1>7. Rotated => t # call.token
    BY <1>2 DEF SInv, CallPair, ClientPair
  <1>8. CallPair'
    BY <1>1, <1>7 DEF SInv, CallPair, SignedIn, Expired, Rotated, SignInOk, Refused, Usable, LateSpends
  <1> QED
    BY <1>4, <1>5, <1>6, <1>8 DEF SInv

LEMMA AroundClockSInv ==
    ASSUME Inv, SInv, AroundClock, UNCHANGED <<page, script>> PROVE SInv'
  <1>1. ASSUME NEW t \in Presentable, RefreshExpires(t) PROVE SInv'
    <2>1. {t} \in SUBSET Token
      BY PresentableGranted
    <2>2. Server!Spend({t}) /\ UNCHANGED <<holder, account>>
      BY <1>1 DEF RefreshExpires
    <2>3. LiveOpen'
      BY <2>2 DEF SInv, BackInv, LiveOpen, Granted, Server!Spend, Inv, ApiInv, Server!TypeOK
    <2> QED
      BY <1>1, <2>1, <2>2, <2>3, EndedSInv DEF RefreshExpires
  <1>2. ASSUME NEW u \in User, DeleteUser(u) PROVE SInv'
    <2> DEFINE S == {t \in Token : status[t] = "live" /\ holder[t] = u}
    <2>1. /\ S \in SUBSET Token /\ Server!Spend(S) /\ ended' = ended \cup S
          /\ account' = [account EXCEPT ![u] = "deleted"] /\ UNCHANGED holder
      BY <1>2 DEF DeleteUser
    <2>2. LiveOpen'
      BY <2>1 DEF SInv, BackInv, LiveOpen, Granted, Server!Spend, Inv, ApiInv, Server!TypeOK
    <2> HIDE DEF S
    <2> QED
      BY <1>2, <2>1, <2>2, EndedSInv DEF DeleteUser
  <1> QED
    BY <1>1, <1>2, AccessExpiresSInv DEF AroundClock

-----------------------------------------------------------------------------
(***************************************************************************)
(* The specification                                                       *)
(***************************************************************************)

LEMMA InitSInv == Init => SInv
  <1> SUFFICES ASSUME Init PROVE SInv
    OBVIOUS
  <1> USE DEF Init, ClientInit
  <1>1. Granted = {}
    BY DEF Server!Init, Granted
  <1>2. BackInv /\ PagePair /\ ~SignedIn
    BY <1>1 DEF BackInv, PagePair, SignedIn
  <1>3. ~Expired /\ ~Rotated /\ ~SignInOk /\ ~Refused
    BY DEF Expired, Rotated, SignInOk, Refused, NoCall
  <1>4. ClientPair /\ CallFor
    BY <1>2, <1>3 DEF ClientPair, CallFor, NoCall, NoRequest
  <1>5. CallPair
    BY <1>3 DEF CallPair, NoCall
  <1> QED
    BY <1>2, <1>4, <1>5 DEF SInv

LEMMA NextSInv == ASSUME Inv, SInv, [Next]_vars PROVE SInv'
  <1>1. CASE UNCHANGED vars
    <2>1. UNCHANGED <<status, session, holder, ended, account, stale, client, call, late, page, script>>
      BY <1>1 DEF vars, clientVars, server, tokens
    <2>2. BackInv' /\ PagePair' /\ ClientPair' /\ CallFor'
      BY <2>1 DEF SInv, BackInv, PagePair, ClientPair, CallFor, Granted, Held, SignedIn, Expired,
                  Rotated, LoggedOut, Usable, LateSpends
    <2>3. CallPair'
      BY <2>1 DEF SInv, CallPair, SignedIn, Expired, Rotated, SignInOk, Refused, Usable, LateSpends
    <2> QED
      BY <2>2, <2>3 DEF SInv
  <1>2. CASE ClientStep
    BY <1>2, WarmupSInv, HandleAwaitedSInv, ReceiveSInv, GiveUpSInv DEF ClientStep
  <1>3. CASE Outside
    BY <1>3, AroundClockSInv, HandleLateSInv DEF Outside
  <1> QED
    BY <1>1, <1>2, <1>3, InteractSInv, ResumeSInv DEF Next

LEMMA SessionAlways == Spec => [](Inv /\ SInv)
  <1>1. Init => Inv /\ SInv
    BY InitInv, InitSInv
  <1>2. Inv /\ SInv /\ [Next]_vars => (Inv /\ SInv)'
    BY NextInv, NextSInv
  <1> QED
    BY <1>1, <1>2, PTL DEF Spec

\* Whoever is signed in holds one pair of that account's own, and the client
\* the same one or a later one of its session.
THEOREM SessionIsOne == Spec => []SessionInv
  <1>1. Inv /\ SInv => SessionInv
    <2> SUFFICES ASSUME Inv, SInv PROVE SessionInv
      OBVIOUS
    <2>1. script.stage = "idle" => client.refresh = page.refresh
      <3> SUFFICES ASSUME script.stage = "idle" PROVE client.refresh = page.refresh
        OBVIOUS
      <3>1. call = NoCall
        BY DEF SInv, CallFor
      <3> QED
        BY <3>1, PublicPair DEF NoCall, NoRequest, PublicOps
    <2> QED
      BY <2>1 DEF SInv, PagePair, ClientPair, SessionInv
  <1> QED
    BY <1>1, SessionAlways, PTL

\* Between two runs the page's pair can be handed to the client.
LEMMA IdlePair == ASSUME Inv, SInv, script.stage = "idle" PROVE GoodPair(page)
  <1>1. call = NoCall
    BY DEF SInv, CallFor
  <1> QED
    BY <1>1, PublicPair DEF NoCall, NoRequest, PublicOps

\* Between two interactions the page's refresh token is live, unless the
\* clock or an operator has ended it: no rotation is ever forgotten by a page
\* whose every run ends before the next click.
THEOREM HeldIsLive == Spec => []HeldTokenIsLive
  <1>1. Inv /\ SInv => HeldTokenIsLive
    BY IdlePair DEF HeldTokenIsLive, GoodPair, SInv, PagePair, Usable
  <1> QED
    BY <1>1, SessionAlways, PTL

\* Between two interactions no refresh or logout that may still reach the API
\* names the token the page holds: a client that gives up a refresh has
\* cleared its pair, and one that gives up a logout is signed out.
THEOREM LateIsElsewhere == Spec => []LateSpendsElsewhere
  <1>1. Inv /\ SInv => LateSpendsElsewhere
    BY IdlePair DEF LateSpendsElsewhere, GoodPair, SInv, PagePair, Usable, LateSpends
  <1> QED
    BY <1>1, SessionAlways, PTL

\* Only a click on logout, the end of the session, or a missing answer signs
\* the user out: an expired access token never does.
THEOREM ExpiryUnseen == Spec => ExpiryIsInvisible
  <1> DEFINE Unseen == SignedIn /\ ~SignedIn' =>
                           \/ script.click = "logout"
                           \/ call.silent
                           \/ \E t \in ended : session[t] = session[page.refresh]
  <1>1. Inv /\ SInv /\ [Next]_vars => Unseen
    <2> SUFFICES ASSUME Inv, SInv, [Next]_vars, SignedIn, ~SignedIn'
                 PROVE  \/ script.click = "logout"
                        \/ call.silent
                        \/ \E t \in ended : session[t] = session[page.refresh]
      OBVIOUS
    <2>1. page' # page
      BY DEF SignedIn
    <2>2. Resume
      BY <2>1 DEF Next, vars, Interact, ClientStep, Outside
    <2>3. page.user # NoUser /\ page'.user = NoUser /\ page \in Page
      BY DEF SignedIn, Inv, PageInv
    <2>4. CASE EndSignIn
      <3>1. Ok /\ page'.user = script.user
        BY <2>1, <2>3, <2>4 DEF EndSignIn, Page
      <3>2. SignInOk
        BY <2>4, <3>1 DEF EndSignIn, Returned, SignInOk, Ok
      <3>3. script.user \in User
        BY <3>2 DEF SignInOk, SInv, CallFor, Inv, CallInv, CallOK
      <3> QED
        BY <2>3, <3>1, <3>3, ClientAssumption
    <2>5. CASE EndSignOut
      BY <2>5 DEF EndSignOut, Returned, SInv, CallFor
    <2>6. CASE EndExpired
      BY <2>6 DEF EndExpired, Expired, SInv, CallPair
    <2>7. CASE EndParseResume
      BY <2>1, <2>7 DEF EndParseResume
    <2>8. CASE EndSave \/ EndJobs \/ EndAnalyse \/ EndRoadmap \/ EndDone
      <3>1. Persisted(page).user = page.user /\ Persisted(page) \in Page
        BY <2>3, GoodNow DEF Persisted, Page, GoodPage
      <3>2. page'.user = Persisted(page).user
        BY <2>8, <3>1 DEF EndSave, EndJobs, EndAnalyse, EndRoadmap, EndDone, EndError, Page
      <3> QED
        BY <2>3, <3>1, <3>2
    <2> QED
      BY <2>2, <2>4, <2>5, <2>6, <2>7, <2>8 DEF Resume
  <1>2. Unseen => [Unseen]_vars
    OBVIOUS
  <1> QED
    BY <1>1, SessionAlways, PTL DEF Spec, ExpiryIsInvisible

-----------------------------------------------------------------------------
(***************************************************************************)
(* A logout that was answered has ended the session                        *)
(***************************************************************************)

\* The API has answered a logout.
Confirmed == Succeeded({"logout"})

\* A pair that the clock or an operator ended was the last of its session, and
\* the session is over once its logout is answered.
EndsInv ==
    /\ \A t \in ended : Server!Over(session[t])
    /\ Confirmed /\ SignedIn => Server!Over(session[page.refresh])

\* A granted token belongs to a session that keeps its name.
LEMMA SessionNamed ==
    ASSUME Server!TokenInv, Kept, NEW t \in Granted
    PROVE  \E s \in Token : s = session[t] /\ s = session'[t] /\ status[s] # "unknown"
  BY DEF Granted, Server!TokenInv, Server!SessionsGranted, Kept

\* The session of t stays over.
LEMMA OverStays ==
    ASSUME Server!TokenInv, Promised, Kept, NEW t \in Granted, Server!Over(session[t])
    PROVE  Server!Over(session[t])'
  <1>1. PICK s \in Token : s = session[t] /\ s = session'[t]
    BY SessionNamed
  <1>2. Server!Over(s)'
    BY <1>1, OverKept
  <1> QED
    BY <1>1, <1>2 DEF Server!Over, Server!Live

\* Spending the live token of a session ends it.
LEMMA SpentIsOver ==
    ASSUME Server!TokenInv, Kept, NEW S \in SUBSET Token, Server!Spend(S), NEW t \in S
    PROVE  Server!Over(session[t])'
  <1>1. t \in Granted /\ status[t] = "live" /\ t \in Token
    BY DEF Granted, Server!Spend
  <1>2. PICK s \in Token : s = session[t] /\ s = session'[t] /\ status[s] # "unknown"
    BY <1>1, SessionNamed
  <1>3. status'[s] # "unknown"
    BY <1>2 DEF Server!Spend
  <1>4. ASSUME NEW u \in Token, status'[u] = "live", session'[u] = s PROVE FALSE
    <2>1. u \notin S /\ status[u] = "live" /\ session[u] = s
      BY <1>4 DEF Server!Spend
    <2>2. u = t
      BY <1>1, <1>2, <2>1 DEF Server!TokenInv, Server!AtMostOneLive, Server!Live
    <2> QED
      BY <2>1, <2>2
  <1> QED
    BY <1>2, <1>3, <1>4 DEF Server!Over, Server!Live

\* Nothing has ended, and no logout has just been answered.
LEMMA EndsStay ==
    ASSUME Inv, SInv, Server!TokenInv, EndsInv, Promised, Kept, UNCHANGED ended,
           Confirmed' /\ SignedIn' => Confirmed /\ SignedIn /\ page'.refresh = page.refresh
    PROVE  EndsInv'
  <1>1. \A t \in ended : Server!Over(session[t])'
    BY OverStays DEF SInv, BackInv, EndsInv
  <1>2. ASSUME Confirmed', SignedIn' PROVE Server!Over(session[page.refresh])'
    <2>1. PICK t \in Granted : t = page.refresh /\ t = page'.refresh
      BY <1>2, HeldTokens DEF SInv, PagePair
    <2>2. Server!Over(session[t])
      BY <1>2, <2>1 DEF EndsInv
    <2>3. Server!Over(session[t])'
      BY <2>2, OverStays
    <2> QED
      BY <2>1, <2>3 DEF Server!Over, Server!Live
  <1> QED
    BY <1>1, <1>2 DEF EndsInv

\* The tokens are left alone.
LEMMA TokensKept == ASSUME UNCHANGED tokens PROVE Kept
  BY DEF Kept, tokens

LEMMA SpendEnds ==
    ASSUME Inv, SInv, Server!TokenInv, EndsInv, Promised, NEW S \in SUBSET Token, Server!Spend(S),
           ended' = ended \cup S, UNCHANGED <<holder, call, page>>
    PROVE  EndsInv'
  <1>1. Kept
    BY DEF Kept, Server!Spend
  <1>2. \A t \in ended' : Server!Over(session[t])'
    BY <1>1, OverStays, SpentIsOver DEF SInv, BackInv, EndsInv
  <1>3. ASSUME Confirmed', SignedIn' PROVE Server!Over(session[page.refresh])'
    <2>1. Confirmed /\ SignedIn
      BY <1>3 DEF Confirmed, Succeeded, Good, SignedIn
    <2>2. PICK t \in Granted : t = page.refresh /\ t = page'.refresh
      BY <2>1, HeldTokens DEF SInv, PagePair
    <2>3. Server!Over(session[t])'
      BY <1>1, <2>1, <2>2, OverStays DEF EndsInv
    <2> QED
      BY <2>2, <2>3 DEF Server!Over, Server!Live
  <1> QED
    BY <1>2, <1>3 DEF EndsInv

\* A step of the client alone brings no answer the API did not give.
LEMMA ClientGood ==
    ASSUME Inv, Warmup \/ Receive \/ GiveUp, Good(call)'
    PROVE  Good(call) /\ call'.req = call.req
  <1>1. call \in CallState /\ call'.step # "sent"
    BY DEF Inv, CallInv, CallOK, Good
  <1>2. ASSUME NEW c \in CallState, NEW result \in {"expired", "error"}, call' = Return(c, result)
        PROVE  FALSE
    BY <1>2, ReturnRow DEF Good
  <1>3. ASSUME NEW phase, call' = Send(call, phase) PROVE FALSE
    BY <1>1, <1>3, SendRow
  <1>4. [call EXCEPT !.silent = TRUE] \in CallState
        /\ [call EXCEPT !.silent = @ \/ call.reply = "refused"] \in CallState
    BY <1>1 DEF CallState
  <1>5. CASE Warmup
    <2>1. call' # Head(client, call.req)
      BY <1>1, HeadFacts DEF Good
    <2> QED
      BY <1>2, <1>4, <1>5, <2>1 DEF Warmup
  <1>6. CASE GiveUp
    BY <1>2, <1>4, <1>6 DEF GiveUp, Expire
  <1>7. CASE Reauthorize \/ Retry \/ GoneForGood
    BY <1>1, <1>2, <1>3, <1>4, <1>7 DEF Reauthorize, Retry, GoneForGood, Expire
  <1>8. CASE call.step = "answered" /\ Deliver
    <2>1. call.phase # "refresh" /\ call' = Return(call, IF call.reply = "ok" THEN "ok" ELSE "error")
      BY <1>8 DEF Deliver, Received
    <2>2. call.reply = "ok"
      BY <1>1, <1>2, <2>1
    <2>3. call'.req = call.req
      BY <1>1, <2>1, ReturnRow
    <2> QED
      BY <1>8, <2>1, <2>2, <2>3 DEF Good
  <1> QED
    BY <1>5, <1>6, <1>7, <1>8 DEF Receive

\* The answer to a logout: its token was live and is spent, or had ended.
LEMMA AwaitedEnds ==
    ASSUME Inv, SInv, Server!TokenInv, EndsInv, Promised, HandleAwaited, UNCHANGED page
    PROVE  EndsInv'
  <1>1. /\ call.step = "sent" /\ Sound(Outgoing) /\ Handle(Outgoing, TRUE) /\ LiveOpen
    BY OutgoingSound DEF SInv, BackInv, LiveOpen, HandleAwaited
  <1>2. Served(Outgoing, TRUE)
    BY <1>1, HandleServed
  <1>3. Kept /\ UNCHANGED ended /\ call'.req = call.req
    BY <1>2 DEF Served, Reply, Inv, CallInv, CallOK, CallState
  <1>4. CASE ~(Confirmed' /\ SignedIn')
    BY <1>3, <1>4, EndsStay
  <1>5. CASE Confirmed' /\ SignedIn'
    <2>1. call.req.op = "logout" /\ SignedIn
      BY <1>3, <1>5 DEF Confirmed, Succeeded, SignedIn
    <2>2. call.phase = "request" /\ ~Expired /\ ~Rotated /\ ~LoggedOut
      BY <1>1, <2>1 DEF SInv, CallFor, AuthedOps, Expired, Rotated, LoggedOut
    <2>3. PICK t \in Granted : t = page.refresh /\ t = page'.refresh /\ t = client.refresh
      BY <2>1, <2>2, HeldTokens DEF SInv, PagePair, ClientPair
    <2>4. Usable(t)
      BY <2>1, <2>2, <2>3 DEF SInv, ClientPair, PagePair
    <2>5. Outgoing.op = "logout" /\ Outgoing.token = t
      BY <2>1, <2>2, <2>3 DEF Outgoing, Inv, CallInv, CallOK, CallState, Request, AuthedOps
    <2>6. Logout(Outgoing, TRUE)
      BY <1>1, <2>5 DEF Handle, Register, Login, Refresh, Read, Authed, CreateProfile, UpdateProfile, Derive, AuthedOps
    <2>7. Server!Over(session[t])'
      <3>1. CASE status[t] = "live"
        <4>1. Server!Spend({t} \cap {u \in Token : status[u] = "live"}) /\ t \in Token
          BY <2>5, <2>6 DEF Logout, Granted
        <4> QED
          BY <1>3, <3>1, <4>1, SpentIsOver
      <3>2. CASE t \in ended
        BY <1>3, <3>2, OverStays DEF EndsInv
      <3> QED
        BY <2>4, <3>1, <3>2 DEF Usable
    <2>8. \A u \in ended : Server!Over(session[u])'
      BY <1>3, OverStays DEF SInv, BackInv, EndsInv
    <2> QED
      BY <1>3, <2>3, <2>7, <2>8 DEF EndsInv, Server!Over, Server!Live
  <1> QED
    BY <1>4, <1>5

\* A run that starts or goes on has no answer yet, but to a logout of nothing.
LEMMA PageEnds ==
    ASSUME Inv, SInv, SInv', Server!TokenInv, EndsInv, Promised, UNCHANGED server, Entered
    PROVE  EndsInv'
  <1>1. Kept /\ UNCHANGED ended
    BY TokensKept DEF server
  <1>2. Confirmed' => client'.refresh = NoToken /\ ~Expired'
    BY DEF Confirmed, Succeeded, Entered, Good, Expired
  <1>3. ~(Confirmed' /\ SignedIn')
    BY <1>2 DEF SInv, ClientPair
  <1> QED
    BY <1>1, <1>3, EndsStay

LEMMA NextEnds ==
    ASSUME Inv, SInv, Server!TokenInv, EndsInv, [Next]_vars PROVE EndsInv'
  <1>1. Promised /\ SInv'
    BY NextInv, NextSInv
  <1>2. ASSUME UNCHANGED <<server, page>>, Good(call)' => Good(call) /\ call'.req = call.req
        PROVE  EndsInv'
    <2>1. Kept /\ UNCHANGED ended
      BY <1>2, TokensKept DEF server
    <2>2. Confirmed' /\ SignedIn' => Confirmed /\ SignedIn /\ page'.refresh = page.refresh
      BY <1>2 DEF Confirmed, Succeeded, SignedIn
    <2> QED
      BY <1>1, <2>1, <2>2, EndsStay
  <1>3. CASE UNCHANGED vars
    BY <1>2, <1>3 DEF vars, clientVars, Good
  <1>4. CASE ClientStep
    <2>1. CASE HandleAwaited
      BY <1>1, <1>4, <2>1, AwaitedEnds DEF ClientStep
    <2>2. CASE Warmup \/ Receive \/ GiveUp
      <3>1. UNCHANGED <<server, page>>
        BY <1>4, <2>2 DEF ClientStep, Warmup, Receive, GiveUp
      <3> QED
        BY <1>2, <2>2, <3>1, ClientGood
    <2> QED
      BY <1>4, <2>1, <2>2 DEF ClientStep
  <1>5. CASE Outside
    <2>1. UNCHANGED page
      BY <1>5 DEF Outside
    <2>2. ASSUME NEW r \in late, HandleLate(r) PROVE EndsInv'
      <3>1. Sound(r) /\ LiveOpen
        BY DEF Inv, LateInv, SInv, BackInv, LiveOpen
      <3>2. Served(r, FALSE)
        BY <2>2, <3>1, HandleServed DEF HandleLate
      <3>3. Kept /\ UNCHANGED <<ended, call>>
        BY <3>2 DEF Served, Reply
      <3>4. Confirmed' /\ SignedIn' => Confirmed /\ SignedIn /\ page'.refresh = page.refresh
        BY <2>1, <3>3 DEF Confirmed, Succeeded, Good, SignedIn
      <3> QED
        BY <1>1, <3>3, <3>4, EndsStay
    <2>3. ASSUME NEW t \in Presentable, AccessExpires(t) PROVE EndsInv'
      BY <1>2, <2>1, <2>3 DEF AccessExpires, Good
    <2>4. ASSUME NEW t \in Presentable, RefreshExpires(t) PROVE EndsInv'
      <3>1. {t} \in SUBSET Token
        BY PresentableGranted
      <3> QED
        BY <1>1, <2>1, <2>4, <3>1, SpendEnds DEF RefreshExpires
    <2>5. ASSUME NEW u \in User, DeleteUser(u) PROVE EndsInv'
      <3> DEFINE S == {t \in Token : status[t] = "live" /\ holder[t] = u}
      <3>1. S \in SUBSET Token /\ Server!Spend(S) /\ ended' = ended \cup S /\ UNCHANGED <<holder, call>>
        BY <2>5 DEF DeleteUser
      <3> HIDE DEF S
      <3> QED
        BY <1>1, <2>1, <3>1, SpendEnds
    <2> QED
      BY <1>5, <2>2, <2>3, <2>4, <2>5 DEF Outside, AroundClock
  <1>6. CASE Resume
    BY <1>1, <1>6, ResumeEnters, PageEnds DEF Resume
  <1>7. ASSUME NEW click \in Clicks, Interact(click) PROVE EndsInv'
    BY <1>1, <1>7, InteractEnters, PageEnds DEF Interact
  <1> QED
    BY <1>3, <1>4, <1>5, <1>6, <1>7 DEF Next

\* A logout that the API has answered leaves no live token of the session it
\* was asked to end, whatever was rotated, given up or sent late before.
THEOREM LogoutEnds == Spec => []LogoutEndsSession
  <1>1. Init => EndsInv
    BY DEF Init, ClientInit, EndsInv, Confirmed, Succeeded, Good, NoCall
  <1>2. Inv /\ SInv /\ Server!TokenInv /\ EndsInv /\ [Next]_vars => EndsInv'
    BY NextEnds
  <1>3. EndsInv => LogoutEndsSession
    BY DEF EndsInv, LogoutEndsSession, Confirmed, Succeeded, Good, Returned, Ok
  <1> QED
    BY <1>1, <1>2, <1>3, SessionAlways, PromiseKept, PTL DEF Spec
=============================================================================
