-------------------------- MODULE OnlinePageProofs --------------------------
(***************************************************************************)
(* The page and its client over the API, for any number of accounts, token *)
(* pairs, profiles and lost replies: the types, the bound on the requests  *)
(* of a call, and that the rows the page shows, and what a save stores,    *)
(* are what the API keeps.                                                 *)
(***************************************************************************)
EXTENDS OnlinePage, TLAPS

Granted == {t \in Token : status[t] # "unknown"}

Held == Granted \cup {NoToken}

Holding == [access : Token \cup {NoToken}, refresh : Token \cup {NoToken}, warm : BOOLEAN]

\* The API: the types of its state, and a token that was granted has its account.
ApiInv ==
    /\ Server!TypeOK
    /\ holder \in [Token -> User \cup {NoUser}]
    /\ stale \subseteq Token /\ ended \subseteq Token
    /\ account \in [User -> {"none", "open", "deleted"}]
    /\ profile \in [Profile -> [user : User, skills : SUBSET Skill] \cup {NoRow}]
    /\ \A t \in Granted : holder[t] \in User

\* A request whose token and user are there where the API looks them up.
Sound(r) ==
    /\ r \in Request
    /\ r.op \in AuthedOps \cup {"refresh"} => r.token \in Granted
    /\ r.op \in {"login", "register"} => r.user \in User

LateInv == \A r \in late : Sound(r)

\* The tokens of the client side were granted.
ClientInv == client \in Holding /\ client.access \in Held /\ client.refresh \in Held

PageInv ==
    /\ page \in Page /\ page.access \in Held /\ page.refresh \in Held
    /\ script \in Script /\ doubt \in {"none", "lost", "overtaken"}

\* Which request of the call is out.
Nth(phase) == IF phase = "request" THEN 1 ELSE IF phase = "refresh" THEN 2 ELSE 3

\* The tokens the client needs for what it has sent.
Equipped(c, k) ==
    /\ c.req.op \in AuthedOps => k.access # NoToken
    /\ c.phase = "refresh" => k.refresh # NoToken

\* A call asks for an operation of its own, counts its requests, and has not
\* done its operation before a request for it was answered well.
CallOK(c, k) ==
    /\ c \in CallState
    /\ c.req.op \in Ops
    /\ c.req.op \in {"login", "register"} => c.req.user \in User
    /\ c.step \in {"none", "warmup"} => c.sent = 0 /\ c.ran = 0
    /\ c.step \in {"sent", "answered"} => c.sent = Nth(c.phase) /\ Equipped(c, k)
    /\ c.step = "sent" => c.ran = 0
    /\ c.step = "answered" => c.ran <= (IF c.reply = "ok" /\ c.phase # "refresh" THEN 1 ELSE 0)
    /\ c.step = "answered" /\ c.phase = "refresh" /\ c.reply = "ok" => c.token # NoToken
    /\ c.step = "returned" => c.sent <= 3 /\ c.ran <= 1

CallInv == CallOK(call, client) /\ call.token \in Held

Inv == ApiInv /\ LateInv /\ ClientInv /\ PageInv /\ CallInv /\ lost \in 0..MaxLost

\* The tokens of the API take a step of the promise, or none.
Promised == [Server!Next]_<<status, session>>

\* The API has answered r with a token that was granted, if with any.
Answered(r, awaited) ==
    \E kind \in Replies, row \in Row \cup {NoRow}, t \in Held' :
        /\ Reply(r, awaited, kind, t, row)
        /\ r.op = "refresh" /\ kind = "ok" => t # NoToken

Handled(r, awaited) == ApiInv' /\ Granted \subseteq Granted' /\ Promised /\ Answered(r, awaited)

-----------------------------------------------------------------------------
\* Pieces of records have their types.

LEMMA NoRequestType == NoRequest \in Request /\ NoRequest.op \in Ops
  BY DEF NoRequest, Request, Ops, PublicOps

LEMMA NoCallType == NoCall \in CallState
  BY NoRequestType DEF NoCall, CallState, Phases, Replies, Results

-----------------------------------------------------------------------------
(***************************************************************************)
(* The API: what each operation does to its state, and what it answers.    *)
(***************************************************************************)

LEMMA RefuseOK ==
    ASSUME Inv, NEW r, NEW awaited \in BOOLEAN, NEW kind \in {"unauthorized", "refused"},
           Refuse(r, awaited, kind), UNCHANGED stale
    PROVE  Handled(r, awaited)
  <1>1. UNCHANGED <<status, session, holder, stale, ended, account, profile>>
    BY DEF Refuse, server, tokens
  <1>2. ApiInv' /\ Granted' = Granted /\ NoToken \in Held'
    BY <1>1 DEF Inv, ApiInv, Granted, Held, Server!TypeOK
  <1>3. kind \in Replies /\ kind # "ok" /\ NoRow \in Row \cup {NoRow}
    BY DEF Replies
  <1>4. Answered(r, awaited)
    BY <1>2, <1>3 DEF Answered, Refuse
  <1> QED
    BY <1>1, <1>2, <1>4 DEF Handled, Promised

LEMMA OpenOK ==
    ASSUME Inv, NEW r, Sound(r), r.op \in {"login", "register"}, NEW awaited \in BOOLEAN,
           Open(r, awaited), account' \in [User -> {"none", "open", "deleted"}], UNCHANGED stale
    PROVE  Handled(r, awaited)
  <1>1. PICK t \in Fresh :
            /\ Server!Grant(t)
            /\ holder' = [holder EXCEPT ![t] = r.user]
            /\ Reply(r, awaited, "ok", t, NoRow)
            /\ UNCHANGED <<ended, profile>>
    BY DEF Open
  <1>2. t \in Token /\ r.user \in User
    BY DEF Fresh, Sound
  <1>3. Granted' = Granted \cup {t}
    BY <1>1, <1>2 DEF Granted, Server!Grant, Inv, ApiInv, Server!TypeOK
  <1>4. Server!TypeOK'
    BY <1>1, <1>2 DEF Server!Grant, Inv, ApiInv, Server!TypeOK, Server!Status
  <1>5. holder' \in [Token -> User \cup {NoUser}] /\ \A u \in Granted' : holder'[u] \in User
    BY <1>1, <1>2, <1>3 DEF Inv, ApiInv, Granted
  <1>6. ApiInv'
    BY <1>1, <1>4, <1>5 DEF Inv, ApiInv
  <1>7. Promised
    BY <1>1, <1>2 DEF Promised, Server!Next
  <1>8. t \in Held' /\ t # NoToken
    BY <1>2, <1>3, ClientAssumption DEF Held
  <1>9. Answered(r, awaited)
    BY <1>1, <1>8 DEF Answered, Replies
  <1> QED
    BY <1>3, <1>6, <1>7, <1>9 DEF Handled

LEMMA RefreshOK ==
    ASSUME Inv, NEW r, Sound(r), NEW awaited \in BOOLEAN, Refresh(r, awaited), UNCHANGED stale
    PROVE  Handled(r, awaited)
  <1>1. CASE \E kind \in {"unauthorized", "refused"} : Refuse(r, awaited, kind)
    BY <1>1, RefuseOK
  <1>2. ASSUME NEW t \in Fresh, Server!Rotate(r.token, t),
               holder' = [holder EXCEPT ![t] = holder[r.token]],
               Reply(r, awaited, "ok", t, NoRow), UNCHANGED <<ended, account, profile>>
        PROVE  Handled(r, awaited)
    <2>1. t \in Token /\ r.token \in Token /\ holder[r.token] \in User
      BY DEF Fresh, Sound, Refresh, Inv, ApiInv, Granted
    <2>2. Granted' = Granted \cup {t}
      BY <1>2, <2>1 DEF Granted, Server!Rotate, Inv, ApiInv, Server!TypeOK
    <2>3. Server!TypeOK'
      BY <1>2, <2>1 DEF Server!Rotate, Inv, ApiInv, Server!TypeOK, Server!Status
    <2>4. holder' \in [Token -> User \cup {NoUser}] /\ \A u \in Granted' : holder'[u] \in User
      BY <1>2, <2>1, <2>2 DEF Inv, ApiInv, Granted
    <2>5. ApiInv'
      BY <1>2, <2>3, <2>4 DEF Inv, ApiInv
    <2>6. Promised
      BY <1>2, <2>1 DEF Promised, Server!Next
    <2>7. t \in Held' /\ t # NoToken
      BY <2>1, <2>2, ClientAssumption DEF Held
    <2>8. Answered(r, awaited)
      BY <1>2, <2>7 DEF Answered, Replies
    <2> QED
      BY <2>2, <2>5, <2>6, <2>8 DEF Handled
  <1> QED
    BY <1>1, <1>2 DEF Refresh

LEMMA LogoutOK ==
    ASSUME Inv, NEW r, NEW awaited \in BOOLEAN, Logout(r, awaited), UNCHANGED stale
    PROVE  Handled(r, awaited)
  <1> DEFINE S == {r.token} \cap {t \in Token : status[t] = "live"}
  <1>1. S \in SUBSET Token /\ Server!Spend(S)
    BY DEF Logout
  <1> HIDE DEF S
  <1>2. Server!TypeOK'
    BY <1>1 DEF Server!Spend, Inv, ApiInv, Server!TypeOK, Server!Status
  <1>3. Granted' = Granted
    BY <1>1 DEF Granted, Server!Spend, Inv, ApiInv, Server!TypeOK
  <1>4. UNCHANGED <<holder, ended, account, profile>>
    BY DEF Logout
  <1>5. ApiInv'
    BY <1>2, <1>3, <1>4 DEF Inv, ApiInv
  <1>6. Promised
    BY <1>1 DEF Promised, Server!Next
  <1>7. Answered(r, awaited)
    BY DEF Answered, Replies, Held, Logout
  <1> QED
    BY <1>3, <1>5, <1>6, <1>7 DEF Handled

\* An answer that leaves the tokens, the accounts and the clock alone.
LEMMA QuietOK ==
    ASSUME Inv, NEW r, NEW awaited \in BOOLEAN, NEW row \in Row \cup {NoRow}, r.op # "refresh",
           Reply(r, awaited, "ok", NoToken, row), UNCHANGED <<tokens, stale, ended, account>>,
           profile' \in [Profile -> [user : User, skills : SUBSET Skill] \cup {NoRow}]
    PROVE  Handled(r, awaited)
  <1>1. UNCHANGED <<status, session, holder, stale, ended, account>>
    BY DEF tokens
  <1>2. ApiInv' /\ Granted' = Granted /\ NoToken \in Held'
    BY <1>1 DEF Inv, ApiInv, Granted, Held, Server!TypeOK
  <1>3. Answered(r, awaited)
    BY <1>2 DEF Answered, Replies
  <1> QED
    BY <1>1, <1>2, <1>3 DEF Handled, Promised

LEMMA ReadOK ==
    ASSUME Inv, NEW r, NEW awaited \in BOOLEAN, Read(r, awaited), UNCHANGED stale
    PROVE  Handled(r, awaited)
  BY QuietOK DEF Read, server, Inv, ApiInv

LEMMA CreateProfileOK ==
    ASSUME Inv, NEW r, Sound(r), NEW awaited \in BOOLEAN, CreateProfile(r, awaited), UNCHANGED stale
    PROVE  Handled(r, awaited)
  <1>1. CASE Refuse(r, awaited, "refused")
    BY <1>1, RefuseOK
  <1>2. ASSUME NEW p \in Profile,
               profile' = [profile EXCEPT ![p] = [user |-> holder[r.token], skills |-> r.add]],
               Reply(r, awaited, "ok", NoToken, [id |-> p, skills |-> r.add]),
               UNCHANGED <<tokens, ended, account>>
        PROVE  Handled(r, awaited)
    <2>1. r.add \in SUBSET Skill /\ r.token \in Granted /\ r.op # "refresh"
      BY DEF Sound, Request, CreateProfile, AuthedOps
    <2>2. [user |-> holder[r.token], skills |-> r.add] \in [user : User, skills : SUBSET Skill]
      BY <2>1 DEF Inv, ApiInv
    <2>3. profile' \in [Profile -> [user : User, skills : SUBSET Skill] \cup {NoRow}]
      BY <1>2, <2>2 DEF Inv, ApiInv
    <2>4. [id |-> p, skills |-> r.add] \in Row \cup {NoRow}
      BY <2>1 DEF Row
    <2> QED
      BY <1>2, <2>1, <2>3, <2>4, QuietOK
  <1> QED
    BY <1>1, <1>2 DEF CreateProfile

LEMMA UpdateProfileOK ==
    ASSUME Inv, NEW r, Sound(r), NEW awaited \in BOOLEAN, UpdateProfile(r, awaited), UNCHANGED stale
    PROVE  Handled(r, awaited)
  <1>1. CASE ~(Owns(r) /\ Patched(r) # {})
    BY <1>1, RefuseOK DEF UpdateProfile
  <1>2. CASE Owns(r) /\ Patched(r) # {}
    <2>1. r.row \in Row /\ profile[r.row.id] # NoRow /\ r.op # "refresh"
      BY <1>2 DEF Owns, Stored, UpdateProfile, Sound, Request
    <2>2. r.row.id \in Profile
      BY <2>1 DEF Row
    <2>3. profile[r.row.id] \in [user : User, skills : SUBSET Skill]
      BY <2>1, <2>2 DEF Inv, ApiInv
    <2>4. Patched(r) \in SUBSET Skill
      BY <2>3 DEF Patched, Sound, Request
    <2>5. profile' = [profile EXCEPT ![r.row.id].skills = Patched(r)]
      BY <1>2 DEF UpdateProfile
    <2> DEFINE new == [profile[r.row.id] EXCEPT !.skills = Patched(r)]
    <2>6. new \in [user : User, skills : SUBSET Skill]
      BY <2>3, <2>4
    <2>7. profile' = [profile EXCEPT ![r.row.id] = new]
      BY <2>2, <2>5 DEF Inv, ApiInv
    <2> HIDE DEF new
    <2>8. profile' \in [Profile -> [user : User, skills : SUBSET Skill] \cup {NoRow}]
      BY <2>6, <2>7 DEF Inv, ApiInv
    <2>9. [id |-> r.row.id, skills |-> Patched(r)] \in Row \cup {NoRow}
      BY <2>2, <2>4 DEF Row
    <2> QED
      BY <1>2, <2>1, <2>8, <2>9, QuietOK DEF UpdateProfile
  <1> QED
    BY <1>1, <1>2

LEMMA DeriveOK ==
    ASSUME Inv, NEW r, Sound(r), NEW awaited \in BOOLEAN, Derive(r, awaited), UNCHANGED stale
    PROVE  Handled(r, awaited)
  <1>1. CASE ~Owns(r)
    BY <1>1, RefuseOK DEF Derive
  <1>2. CASE Owns(r)
    <2> DEFINE row == IF r.op = "create_analysis"
                      THEN [id |-> r.row.id, skills |-> profile[r.row.id].skills] ELSE r.row
    <2>1. r.row \in Row /\ profile[r.row.id] # NoRow /\ r.op # "refresh"
      BY <1>2 DEF Owns, Stored, Derive, Sound, Request
    <2>2. r.row.id \in Profile
      BY <2>1 DEF Row
    <2>3. profile[r.row.id].skills \in SUBSET Skill
      BY <2>1, <2>2 DEF Inv, ApiInv
    <2>4. row \in Row \cup {NoRow}
      BY <2>1, <2>2, <2>3 DEF Row
    <2>5. Reply(r, awaited, "ok", NoToken, row) /\ UNCHANGED <<tokens, ended, account, profile>>
      BY <1>2 DEF Derive, server
    <2> HIDE DEF row
    <2>6. profile' \in [Profile -> [user : User, skills : SUBSET Skill] \cup {NoRow}]
      BY <2>5 DEF Inv, ApiInv
    <2> QED
      BY <2>1, <2>4, <2>5, <2>6, QuietOK
  <1> QED
    BY <1>1, <1>2

\* Whatever the API does with a request, its state and its answer are sound.
LEMMA HandleOK ==
    ASSUME Inv, NEW r, Sound(r), NEW awaited \in BOOLEAN, Handle(r, awaited)
    PROVE  Handled(r, awaited)
  <1> UNCHANGED stale
    BY DEF Handle
  <1>1. CASE Register(r, awaited)
    <2>1. CASE Refuse(r, awaited, "refused")
      BY <2>1, RefuseOK
    <2>2. CASE account' = [account EXCEPT ![r.user] = "open"] /\ Open(r, awaited)
      <3>1. account' \in [User -> {"none", "open", "deleted"}]
        BY <2>2 DEF Inv, ApiInv
      <3> QED
        BY <1>1, <2>2, <3>1, OpenOK DEF Register
    <2> QED
      BY <1>1, <2>1, <2>2 DEF Register
  <1>2. CASE Login(r, awaited)
    <2>1. CASE Refuse(r, awaited, "refused")
      BY <2>1, RefuseOK
    <2>2. CASE UNCHANGED account /\ Open(r, awaited)
      <3>1. account' \in [User -> {"none", "open", "deleted"}]
        BY <2>2 DEF Inv, ApiInv
      <3> QED
        BY <1>2, <2>2, <3>1, OpenOK DEF Login
    <2> QED
      BY <1>2, <2>1, <2>2 DEF Login
  <1>3. CASE Authed(r, awaited)
    BY <1>3, RefuseOK, CreateProfileOK, UpdateProfileOK, DeriveOK DEF Authed
  <1> QED
    BY <1>1, <1>2, <1>3, RefreshOK, LogoutOK, ReadOK DEF Handle

-----------------------------------------------------------------------------
(***************************************************************************)
(* The client                                                              *)
(***************************************************************************)

\* More tokens granted take nothing away from what is on its way.
LEMMA LateKept ==
    ASSUME LateInv, Granted \subseteq Granted', late' \subseteq late
    PROVE  LateInv'
  BY DEF LateInv, Sound

LEMMA HoldersKept ==
    ASSUME Inv, Granted \subseteq Granted', UNCHANGED <<client, page, script>>,
           doubt' \in {"none", "lost", "overtaken"}
    PROVE  ClientInv' /\ PageInv'
  BY DEF Inv, ClientInv, PageInv, Held

\* The request that is out has the token it needs.
LEMMA OutgoingSound ==
    ASSUME Inv, call.step = "sent"
    PROVE  Sound(Outgoing) /\ (Outgoing.op = "refresh" <=> call.phase = "refresh")
  <1>1. /\ call.req \in Request /\ call.req.op \in Ops /\ Equipped(call, client)
        /\ call.req.op \in {"login", "register"} => call.req.user \in User
        /\ client.access \in Held /\ client.refresh \in Held
    BY DEF Inv, CallInv, CallOK, CallState, ClientInv
  <1>2. Held \subseteq Token \cup {NoToken}
    BY DEF Held, Granted
  <1>3. "refresh" \notin Ops
    BY DEF Ops, PublicOps, AuthedOps
  <1>4. CASE call.phase = "refresh"
    <2>1. Outgoing = [NoRequest EXCEPT !.op = "refresh", !.token = client.refresh]
      BY <1>4 DEF Outgoing
    <2>2. client.refresh \in Granted
      BY <1>1, <1>4 DEF Equipped, Held
    <2>3. /\ [NoRequest EXCEPT !.op = "refresh", !.token = client.refresh] \in Request
          /\ [NoRequest EXCEPT !.op = "refresh", !.token = client.refresh].op = "refresh"
          /\ [NoRequest EXCEPT !.op = "refresh", !.token = client.refresh].token = client.refresh
      BY <1>1, <1>2 DEF NoRequest, Request
    <2> QED
      BY <1>4, <2>1, <2>2, <2>3 DEF Sound, AuthedOps
  <1>5. CASE call.phase # "refresh"
    <2> DEFINE t == IF call.req.op \in AuthedOps THEN client.access
                    ELSE IF call.req.op = "logout" THEN client.refresh ELSE NoToken
    <2>1. Outgoing = [call.req EXCEPT !.token = t]
      BY <1>5 DEF Outgoing
    <2>2. t \in Token \cup {NoToken} /\ (call.req.op \in AuthedOps => t \in Granted)
      BY <1>1, <1>2 DEF Equipped, Held
    <2> HIDE DEF t
    <2>3. /\ [call.req EXCEPT !.token = t] \in Request
          /\ [call.req EXCEPT !.token = t].op = call.req.op
          /\ [call.req EXCEPT !.token = t].user = call.req.user
          /\ [call.req EXCEPT !.token = t].token = t
      BY <1>1, <2>2 DEF Request
    <2> QED
      BY <1>1, <1>3, <1>5, <2>1, <2>2, <2>3 DEF Sound
  <1> QED
    BY <1>4, <1>5

\* The answer of the call's own request leaves a sound call.
LEMMA AnsweredCall ==
    ASSUME Inv, call.step = "sent", NEW kind \in Replies, NEW row \in Row \cup {NoRow},
           NEW t \in Token \cup {NoToken}, Reply(Outgoing, TRUE, kind, t, row),
           call.phase = "refresh" /\ kind = "ok" => t # NoToken
    PROVE  CallOK(call', client) /\ call'.token = t /\ UNCHANGED late
  <1> DEFINE n == IF kind = "ok" /\ Outgoing.op # "refresh" THEN call.ran + 1 ELSE call.ran
  <1>1. /\ call \in CallState /\ call.ran = 0 /\ call.sent = Nth(call.phase)
        /\ Equipped(call, client) /\ call.req.op \in Ops
        /\ call.req.op \in {"login", "register"} => call.req.user \in User
    BY DEF Inv, CallInv, CallOK, CallState
  <1>2. n = IF kind = "ok" /\ call.phase # "refresh" THEN 1 ELSE 0
    BY <1>1, OutgoingSound
  <1>3. /\ call' = [call EXCEPT !.step = "answered", !.reply = kind, !.token = t, !.row = row, !.ran = n]
        /\ UNCHANGED late
    BY DEF Reply
  <1> HIDE DEF n
  <1>4. n \in Nat
    BY <1>2
  <1>5. /\ call' \in CallState /\ call'.step = "answered" /\ call'.reply = kind /\ call'.token = t
        /\ call'.ran = n /\ call'.req = call.req /\ call'.phase = call.phase
        /\ call'.sent = call.sent
    BY <1>1, <1>3, <1>4 DEF CallState
  <1>6. Equipped(call', client)
    BY <1>1, <1>5 DEF Equipped
  <1>7. n <= (IF kind = "ok" /\ call.phase # "refresh" THEN 1 ELSE 0)
    BY <1>2
  <1> QED
    BY <1>1, <1>3, <1>5, <1>6, <1>7 DEF CallOK

LEMMA HandleAwaitedInv ==
    ASSUME Inv, HandleAwaited, UNCHANGED <<page, script, doubt>>
    PROVE  Inv' /\ Promised
  <1>1. call.step = "sent" /\ Sound(Outgoing) /\ (Outgoing.op = "refresh" <=> call.phase = "refresh")
    BY OutgoingSound DEF HandleAwaited
  <1>2. Handled(Outgoing, TRUE) /\ UNCHANGED <<client, lost>>
    BY <1>1, HandleOK DEF HandleAwaited, Handle
  <1>3. PICK kind \in Replies, row \in Row \cup {NoRow}, t \in Held' :
            /\ Reply(Outgoing, TRUE, kind, t, row)
            /\ Outgoing.op = "refresh" /\ kind = "ok" => t # NoToken
    BY <1>2 DEF Handled, Answered
  <1>4. t \in Token \cup {NoToken}
    BY DEF Held, Granted
  <1>5. CallOK(call', client) /\ call'.token = t /\ UNCHANGED late
    BY <1>1, <1>3, <1>4, AnsweredCall
  <1>6. CallInv'
    BY <1>2, <1>3, <1>5 DEF CallInv
  <1>7. LateInv'
    BY <1>2, <1>5, LateKept DEF Handled, Inv
  <1>8. ClientInv' /\ PageInv'
    BY <1>2, HoldersKept DEF Handled, Inv, PageInv
  <1> QED
    BY <1>2, <1>6, <1>7, <1>8 DEF Inv, Handled

\* A late request: its answer goes nowhere.
LEMMA HandleLateInv ==
    ASSUME Inv, NEW r \in late, HandleLate(r), UNCHANGED <<page, script>>,
           doubt' \in {"none", "lost", "overtaken"}
    PROVE  Inv' /\ Promised
  <1>1. Handled(r, FALSE) /\ UNCHANGED <<client, lost>>
    BY HandleOK DEF HandleLate, Handle, Inv, LateInv
  <1>2. UNCHANGED call /\ late' \subseteq late
    BY <1>1 DEF Handled, Answered, Reply
  <1>3. LateInv'
    BY <1>1, <1>2, LateKept DEF Handled, Inv
  <1>4. ClientInv' /\ PageInv'
    BY <1>1, HoldersKept DEF Handled
  <1>5. CallInv'
    BY <1>1, <1>2 DEF Handled, Inv, CallInv, Held
  <1> QED
    BY <1>1, <1>3, <1>4, <1>5 DEF Inv, Handled

\* The steps of the client that leave the API alone.
LEMMA ClientSide ==
    ASSUME Inv, UNCHANGED <<server, stale, page, script, doubt>>, LateInv', lost' \in 0..MaxLost,
           client' \in Holding, client'.access \in Held, client'.refresh \in Held,
           CallOK(call', client'), call'.token \in Held
    PROVE  Inv' /\ Promised
  <1>1. UNCHANGED <<status, session, holder, stale, ended, account, profile, page, script, doubt>>
    BY DEF server, tokens
  <1>2. Granted' = Granted /\ Held' = Held
    BY <1>1 DEF Granted, Held
  <1>3. ApiInv'
    BY <1>1, <1>2 DEF Inv, ApiInv, Server!TypeOK
  <1> QED
    BY <1>1, <1>2, <1>3 DEF Inv, ClientInv, PageInv, CallInv, Promised

\* What a call is once it has returned.
LEMMA ReturnOK ==
    ASSUME NEW k, NEW c \in CallState, c.req.op \in Ops, c.sent <= 3, c.ran <= 1,
           c.req.op \in {"login", "register"} => c.req.user \in User,
           NEW result \in Results
    PROVE  CallOK(Return(c, result), k) /\ Return(c, result).token = c.token
  <1>1. /\ Return(c, result) \in CallState /\ Return(c, result).req = c.req
        /\ Return(c, result).sent = c.sent /\ Return(c, result).ran = c.ran
        /\ Return(c, result).step = "returned" /\ Return(c, result).token = c.token
    BY DEF Return, CallState
  <1> QED
    BY <1>1 DEF CallOK

\* A call that is out, with whatever history, may return.
LEMMA OutBounds ==
    ASSUME Inv, call.step \in {"sent", "answered"}
    PROVE  /\ call \in CallState /\ call.req.op \in Ops /\ call.sent <= 3 /\ call.ran <= 1
           /\ call.req.op \in {"login", "register"} => call.req.user \in User
           /\ call.token \in Held /\ Equipped(call, client) /\ call.sent = Nth(call.phase)
  <1>1. /\ call \in CallState /\ call.req.op \in Ops /\ call.sent = Nth(call.phase)
        /\ call.req.op \in {"login", "register"} => call.req.user \in User
        /\ call.token \in Held /\ Equipped(call, client)
        /\ call.step = "sent" => call.ran = 0
        /\ call.step = "answered" => call.ran <= (IF call.reply = "ok" /\ call.phase # "refresh" THEN 1 ELSE 0)
    BY DEF Inv, CallInv, CallOK
  <1>2. call.ran \in Nat
    BY <1>1 DEF CallState
  <1>3. call.ran <= 1
    BY <1>1, <1>2
  <1>4. call.sent <= 3
    BY <1>1 DEF Nth
  <1> QED
    BY <1>1, <1>3, <1>4

\* A request goes out, the next one of its call.
LEMMA SendOK ==
    ASSUME NEW k, NEW c \in CallState, c.req.op \in Ops, NEW phase \in Phases,
           c.req.op \in {"login", "register"} => c.req.user \in User,
           c.sent + 1 = Nth(phase), c.ran = 0,
           c.req.op \in AuthedOps => k.access # NoToken,
           phase = "refresh" => k.refresh # NoToken
    PROVE  CallOK(Send(c, phase), k) /\ Send(c, phase).token = c.token
  <1> DEFINE n == c.sent + 1
  <1>1. n \in Nat /\ n = Nth(phase)
    BY DEF CallState
  <1>2. Send(c, phase) = [c EXCEPT !.phase = phase, !.step = "sent", !.sent = n]
    BY DEF Send
  <1> HIDE DEF n
  <1>3. /\ Send(c, phase) \in CallState /\ Send(c, phase).req = c.req
        /\ Send(c, phase).sent = n /\ Send(c, phase).ran = c.ran
        /\ Send(c, phase).step = "sent" /\ Send(c, phase).token = c.token
        /\ Send(c, phase).phase = phase
    BY <1>1, <1>2 DEF CallState
  <1>4. Equipped(Send(c, phase), k)
    BY <1>3 DEF Equipped
  <1> QED
    BY <1>1, <1>3, <1>4 DEF CallOK

\* The head of a call whose warmup has ended.
LEMMA HeadOK ==
    ASSUME NEW k \in Holding, NEW r \in Request, r.op \in Ops,
           r.op \in {"login", "register"} => r.user \in User
    PROVE  CallOK(Head(k, r), k) /\ Head(k, r).token = NoToken
  <1> DEFINE new == [NoCall EXCEPT !.req = r]
  <1>1. /\ new \in CallState /\ new.req = r /\ new.token = NoToken /\ new.ran = 0
        /\ new.sent = 0 /\ new.phase = "request"
    BY NoCallType DEF NoCall, CallState
  <1>2. Head(k, r) = IF r.op \in AuthedOps /\ k.access = NoToken
                     THEN Return(new, "expired") ELSE Send(new, "request")
    BY DEF Head
  <1> HIDE DEF new
  <1>3. CallOK(Return(new, "expired"), k) /\ Return(new, "expired").token = NoToken
    BY <1>1, ReturnOK DEF Results
  <1>4. ~(r.op \in AuthedOps /\ k.access = NoToken)
           => CallOK(Send(new, "request"), k) /\ Send(new, "request").token = NoToken
    BY <1>1, SendOK DEF Nth, Phases
  <1> QED
    BY <1>2, <1>3, <1>4

\* A call begins well.
LEMMA StartOK ==
    ASSUME NEW k \in Holding, NEW r \in Request, r.op \in Ops,
           r.op \in {"login", "register"} => r.user \in User
    PROVE  CallOK(Start(k, r), k) /\ Start(k, r).token = NoToken
  <1> DEFINE new == [NoCall EXCEPT !.req = r]
  <1>1. /\ new \in CallState /\ new.req = r /\ new.token = NoToken /\ new.ran = 0
        /\ new.sent = 0 /\ new.phase = "request"
    BY NoCallType DEF NoCall, CallState
  <1> HIDE DEF new
  <1>2. CallOK(Return(new, "ok"), k) /\ Return(new, "ok").token = NoToken
    BY <1>1, ReturnOK DEF Results
  <1>3. [NoCall EXCEPT !.req = r, !.step = "warmup"] = [new EXCEPT !.step = "warmup"]
    BY DEF new, NoCall
  <1>4. /\ [new EXCEPT !.step = "warmup"] \in CallState
        /\ [new EXCEPT !.step = "warmup"].req = r /\ [new EXCEPT !.step = "warmup"].token = NoToken
        /\ [new EXCEPT !.step = "warmup"].ran = 0 /\ [new EXCEPT !.step = "warmup"].sent = 0
        /\ [new EXCEPT !.step = "warmup"].step = "warmup"
    BY <1>1 DEF CallState
  <1>5. CallOK([new EXCEPT !.step = "warmup"], k)
    BY <1>4 DEF CallOK
  <1>6. CASE r.op = "logout" /\ k.refresh = NoToken
    <2>1. Start(k, r) = Return(new, "ok")
      BY <1>6 DEF Start, new
    <2> QED
      BY <2>1, <1>2
  <1>7. CASE ~(r.op = "logout" /\ k.refresh = NoToken) /\ k.warm
    <2>1. Start(k, r) = Head(k, r)
      BY <1>7 DEF Start
    <2> QED
      BY <2>1, HeadOK
  <1>8. CASE ~(r.op = "logout" /\ k.refresh = NoToken) /\ ~k.warm
    <2>1. Start(k, r) = [new EXCEPT !.step = "warmup"]
      BY <1>8, <1>3 DEF Start
    <2> QED
      BY <2>1, <1>4, <1>5
  <1> QED
    BY <1>6, <1>7, <1>8

\* The tokens are cleared, and the call returns.
LEMMA ExpireOK ==
    ASSUME Inv, NEW c \in CallState, Expire(c), c.req.op \in Ops, c.sent <= 3, c.ran <= 1,
           c.req.op \in {"login", "register"} => c.req.user \in User, c.token \in Held
    PROVE  /\ client' \in Holding /\ client'.access \in Held /\ client'.refresh \in Held
           /\ CallOK(call', client') /\ call'.token \in Held
  <1>1. client' = [client EXCEPT !.access = NoToken, !.refresh = NoToken]
    BY DEF Expire
  <1>2. client' \in Holding /\ client'.access = NoToken /\ client'.refresh = NoToken
    BY <1>1 DEF Inv, ClientInv, Holding
  <1>3. CallOK(call', client') /\ call'.token = c.token
    BY ReturnOK DEF Expire, Results
  <1> QED
    BY <1>2, <1>3 DEF Held

LEMMA WarmupInv ==
    ASSUME Inv, Warmup, UNCHANGED <<page, script, doubt>> PROVE Inv' /\ Promised
  <1>1. /\ call \in CallState /\ call.req \in Request /\ call.req.op \in Ops
        /\ call.sent = 0 /\ call.ran = 0 /\ call.token \in Held
        /\ call.req.op \in {"login", "register"} => call.req.user \in User
    BY DEF Inv, CallInv, CallOK, CallState, Warmup
  <1>2. LateInv'
    BY DEF Warmup, server, tokens, Inv, LateInv, Sound, Granted
  <1>3. CASE Unanswered /\ call' = Return([call EXCEPT !.silent = TRUE], "error") /\ UNCHANGED client
    <2> DEFINE c == [call EXCEPT !.silent = TRUE]
    <2>1. c \in CallState /\ c.req = call.req /\ c.sent = 0 /\ c.ran = 0 /\ c.token = call.token
      BY <1>1 DEF CallState
    <2> HIDE DEF c
    <2>2. CallOK(Return(c, "error"), client) /\ Return(c, "error").token = call.token
      BY <1>1, <2>1, ReturnOK DEF Results
    <2>3. call' = Return(c, "error")
      BY <1>3 DEF c
    <2>4. lost' \in 0..MaxLost
      BY <1>3, ClientAssumption DEF Unanswered, Inv
    <2> QED
      BY <1>1, <1>2, <1>3, <2>2, <2>3, <2>4, ClientSide DEF Warmup, Inv, ClientInv
  <1>4. CASE UNCHANGED lost /\ client' = [client EXCEPT !.warm = TRUE] /\ call' = Head(client, call.req)
    <2>1. CallOK(call', client) /\ call'.token = NoToken
      BY <1>1, <1>4, HeadOK DEF Inv, ClientInv
    <2>2. client' \in Holding /\ client'.access = client.access /\ client'.refresh = client.refresh
      BY <1>4 DEF Inv, ClientInv, Holding
    <2>3. CallOK(call', client')
      BY <2>1, <2>2 DEF CallOK, Equipped
    <2> QED
      BY <1>2, <1>4, <2>1, <2>2, <2>3, ClientSide DEF Warmup, Inv, ClientInv, Held
  <1> QED
    BY <1>3, <1>4 DEF Warmup

LEMMA ReceiveInv ==
    ASSUME Inv, Receive, UNCHANGED <<page, script, doubt>> PROVE Inv' /\ Promised
  <1>1. /\ call \in CallState /\ call.req \in Request /\ call.req.op \in Ops /\ call.sent <= 3 /\ call.ran <= 1
        /\ call.req.op \in {"login", "register"} => call.req.user \in User
        /\ call.token \in Held /\ Equipped(call, client) /\ call.sent = Nth(call.phase)
        /\ call.step = "answered" /\ call.phase \in Phases
    BY OutBounds DEF Receive, CallState
  <1>2. call.ran <= (IF call.reply = "ok" /\ call.phase # "refresh" THEN 1 ELSE 0) /\ call.ran \in Nat
    BY <1>1 DEF Inv, CallInv, CallOK, CallState
  <1>3. LateInv' /\ lost' \in 0..MaxLost
    BY DEF Receive, server, tokens, Inv, LateInv, Sound, Granted
  <1>4. SUFFICES /\ client' \in Holding /\ client'.access \in Held /\ client'.refresh \in Held
                 /\ CallOK(call', client') /\ call'.token \in Held
    BY <1>3, ClientSide DEF Receive
  <1>5. client \in Holding /\ client.access \in Held /\ client.refresh \in Held
    BY DEF Inv, ClientInv
  <1>6. CASE Reauthorize
    <2>1. call.phase = "request" /\ call.reply = "unauthorized" /\ call.req.op \in AuthedOps
      BY <1>6 DEF Reauthorize
    <2>2. CASE client.refresh = NoToken
      BY <1>1, <1>6, <2>2, ExpireOK DEF Reauthorize
    <2>3. CASE client.refresh # NoToken
      <3>1. call' = Send(call, "refresh") /\ UNCHANGED client
        BY <1>6, <2>3 DEF Reauthorize
      <3>2. call.ran = 0 /\ call.sent + 1 = Nth("refresh") /\ "refresh" \in Phases
        BY <1>1, <1>2, <2>1 DEF Nth, Phases
      <3>3. client.access # NoToken
        BY <1>1, <2>1 DEF Equipped
      <3>4. CallOK(Send(call, "refresh"), client) /\ Send(call, "refresh").token = call.token
        BY <1>1, <2>3, <3>2, <3>3, SendOK
      <3> QED
        BY <1>1, <1>5, <3>1, <3>4
    <2> QED
      BY <2>2, <2>3
  <1>7. CASE Retry
    <2>1. /\ call.phase = "refresh" /\ call.reply = "ok" /\ call' = Send(call, "retry")
          /\ client' = [client EXCEPT !.access = call.token, !.refresh = call.token]
      BY <1>7 DEF Retry
    <2>2. call.token # NoToken
      BY <1>1, <2>1 DEF Inv, CallInv, CallOK
    <2>3. Held \subseteq Token \cup {NoToken}
      BY DEF Held, Granted
    <2>4. client' \in Holding /\ client'.access = call.token /\ client'.refresh = call.token
      BY <1>1, <1>5, <2>1, <2>3 DEF Holding
    <2>5. call.ran = 0 /\ call.sent + 1 = Nth("retry") /\ "retry" \in Phases
      BY <1>1, <1>2, <2>1 DEF Nth, Phases
    <2>6. CallOK(Send(call, "retry"), client') /\ Send(call, "retry").token = call.token
      BY <1>1, <2>2, <2>4, <2>5, SendOK
    <2> QED
      BY <1>1, <2>1, <2>4, <2>6
  <1>8. CASE GoneForGood
    <2> DEFINE c == [call EXCEPT !.silent = @ \/ call.reply = "refused"]
    <2>1. /\ c \in CallState /\ c.req = call.req /\ c.sent = call.sent /\ c.ran = call.ran
          /\ c.token = call.token
      BY <1>1 DEF CallState
    <2>2. Expire(c)
      BY <1>8 DEF GoneForGood
    <2> HIDE DEF c
    <2> QED
      BY <1>1, <2>1, <2>2, ExpireOK
  <1>9. CASE Deliver
    <2>1. \A x \in Results : CallOK(Return(call, x), client) /\ Return(call, x).token = call.token
      BY <1>1, ReturnOK
    <2>2. call' = Return(call, IF call.reply = "ok" THEN "ok" ELSE "error") /\ UNCHANGED client
      BY <1>9 DEF Deliver, Received
    <2> QED
      BY <1>1, <1>5, <2>1, <2>2 DEF Results
  <1> QED
    BY <1>6, <1>7, <1>8, <1>9 DEF Receive

LEMMA GiveUpInv ==
    ASSUME Inv, GiveUp, UNCHANGED <<page, script, doubt>> PROVE Inv' /\ Promised
  <1>1. /\ call \in CallState /\ call.req.op \in Ops /\ call.sent <= 3 /\ call.ran <= 1
        /\ call.req.op \in {"login", "register"} => call.req.user \in User
        /\ call.token \in Held
    BY OutBounds DEF GiveUp
  <1>2. LateInv'
    <2>1. UNCHANGED status
      BY DEF GiveUp, server, tokens
    <2>2. CASE UNCHANGED late
      BY <2>1, <2>2 DEF Inv, LateInv, Sound, Granted
    <2>3. CASE call.step = "sent" /\ late' = late \cup {Outgoing}
      BY <2>1, <2>3, OutgoingSound DEF Inv, LateInv, Sound, Granted
    <2> QED
      BY <2>2, <2>3 DEF GiveUp
  <1>3. lost' \in 0..MaxLost
    BY ClientAssumption DEF GiveUp, Unanswered, Inv
  <1> DEFINE c == [call EXCEPT !.silent = TRUE]
  <1>4. /\ c \in CallState /\ c.req = call.req /\ c.sent = call.sent /\ c.ran = call.ran
        /\ c.token = call.token
    BY <1>1 DEF CallState
  <1>5. Expire(c) \/ (call' = Return(c, "error") /\ UNCHANGED client)
    BY DEF GiveUp
  <1> HIDE DEF c
  <1>6. /\ client' \in Holding /\ client'.access \in Held /\ client'.refresh \in Held
        /\ CallOK(call', client') /\ call'.token \in Held
    <2>1. CASE Expire(c)
      BY <1>1, <1>4, <2>1, ExpireOK
    <2>2. CASE call' = Return(c, "error") /\ UNCHANGED client
      <3>1. CallOK(Return(c, "error"), client) /\ Return(c, "error").token = c.token
        BY <1>1, <1>4, ReturnOK DEF Results
      <3> QED
        BY <1>1, <1>4, <2>2, <3>1 DEF Inv, ClientInv
    <2> QED
      BY <1>5, <2>1, <2>2
  <1> QED
    BY <1>2, <1>3, <1>6, ClientSide DEF GiveUp

LEMMA ClientStepInv == ASSUME Inv, ClientStep PROVE Inv' /\ Promised
  BY WarmupInv, HandleAwaitedInv, ReceiveInv, GiveUpInv DEF ClientStep

-----------------------------------------------------------------------------
(***************************************************************************)
(* The page                                                                *)
(***************************************************************************)

GoodPage(p) == p \in Page /\ p.access \in Held /\ p.refresh \in Held

\* A stage whose call can be made: the sidebar calls for a click of its own,
\* and an account is named by who signs in.
Callable(s) ==
    /\ s \in Script
    /\ s.stage = "auth" => s.click \in {"login", "register", "logout"}
    /\ s.stage = "auth" /\ s.click # "logout" => s.user \in User

\* The answer of the API is there, and it is good.
Good(c) ==
    \/ c.step = "answered" /\ c.reply = "ok" /\ c.phase # "refresh"
    \/ c.step = "returned" /\ c.result = "ok"

\* The client, the call and the script after a step of the page.
Entered ==
    /\ client' \in Holding /\ client'.access \in Held /\ client'.refresh \in Held
    /\ CallOK(call', client') /\ call'.token \in Held /\ script' \in Script
    /\ Good(call') => client'.refresh = NoToken

\* A call that succeeds at once is a logout with nothing to log out of.
LEMMA StartGood == ASSUME NEW k, NEW r, Good(Start(k, r)) PROVE k.refresh = NoToken
  <1>1. CASE k.warm
    BY <1>1 DEF Start, Head, Return, Send, NoCall, Good
  <1>2. CASE ~k.warm
    BY <1>2 DEF Start, Return, NoCall, Good
  <1> QED
    BY <1>1, <1>2

LEMMA SaveRequestOK ==
    ASSUME NEW p \in Page, NEW form \in SUBSET Skill
    PROVE  SaveRequest(p, form) \in Request /\ SaveRequest(p, form).op \in {"create_profile", "update_profile"}
  <1>1. CASE p.profile = NoRow
    <2>1. SaveRequest(p, form) = [NoRequest EXCEPT !.op = "create_profile", !.add = form]
      BY <1>1 DEF SaveRequest
    <2> QED
      BY <2>1 DEF NoRequest, Request, Ops, AuthedOps
  <1>2. CASE p.profile # NoRow
    <2> DEFINE more == form \ p.profile.skills
               less == p.profile.skills \ form
    <2>1. p.profile \in Row
      BY <1>2 DEF Page
    <2>2. more \in SUBSET Skill /\ less \in SUBSET Skill
      BY <2>1 DEF Row
    <2>3. SaveRequest(p, form) = [NoRequest EXCEPT !.op = "update_profile", !.row = p.profile,
                                                   !.add = more, !.remove = less]
      BY <1>2 DEF SaveRequest
    <2> HIDE DEF more, less
    <2> QED
      BY <2>1, <2>2, <2>3 DEF NoRequest, Request, Ops, AuthedOps
  <1> QED
    BY <1>1, <1>2

LEMMA RequestOfOK ==
    ASSUME NEW p \in Page, NEW s, Callable(s), s.stage # "idle"
    PROVE  /\ RequestOf(s, p) \in Request /\ RequestOf(s, p).op \in Ops
           /\ RequestOf(s, p).op \in {"login", "register"} => RequestOf(s, p).user \in User
  <1>1. CASE s.stage = "auth"
    <2>1. RequestOf(s, p) = [NoRequest EXCEPT !.op = s.click, !.user = s.user]
      BY <1>1 DEF RequestOf
    <2>2. s.click \in PublicOps /\ s.user \in User \cup {NoUser}
      BY <1>1 DEF Callable, Script, PublicOps
    <2> QED
      BY <1>1, <2>1, <2>2 DEF Callable, NoRequest, Request, Ops
  <1>2. CASE s.stage = "resume"
    <2>1. RequestOf(s, p) = [NoRequest EXCEPT !.op = "parse_resume"]
      BY <1>2 DEF RequestOf
    <2> QED
      BY <2>1 DEF NoRequest, Request, Ops, PublicOps
  <1>3. CASE s.stage = "form"
    <2>1. RequestOf(s, p) = SaveRequest(p, s.form) /\ s.form \in SUBSET Skill
      BY <1>3 DEF RequestOf, Callable, Script
    <2>2. SaveRequest(p, s.form) \in Request /\ SaveRequest(p, s.form).op \in {"create_profile", "update_profile"}
      BY <2>1, SaveRequestOK
    <2> QED
      BY <2>1, <2>2 DEF Ops, AuthedOps
  <1>4. CASE s.stage = "jobs"
    <2>1. RequestOf(s, p) = [NoRequest EXCEPT !.op = "list_jobs"]
      BY <1>4 DEF RequestOf
    <2> QED
      BY <2>1 DEF NoRequest, Request, Ops, PublicOps
  <1>5. CASE s.stage \in {"analyse", "roadmap", "done"}
    <2>1. PICK op \in {"create_analysis", "create_roadmap", "update_resource"}, row \in Row \cup {NoRow} :
             RequestOf(s, p) = [NoRequest EXCEPT !.op = op, !.row = row]
      <3>1. p.profile \in Row \cup {NoRow} /\ p.gap \in Row \cup {NoRow} /\ p.roadmap \in Row \cup {NoRow}
        BY DEF Page
      <3>2. CASE s.stage = "analyse"
        BY <3>1, <3>2 DEF RequestOf
      <3>3. CASE s.stage = "roadmap"
        BY <3>1, <3>3 DEF RequestOf
      <3>4. CASE s.stage = "done"
        BY <3>1, <3>4 DEF RequestOf
      <3> QED
        BY <1>5, <3>2, <3>3, <3>4
    <2> QED
      BY <2>1 DEF NoRequest, Request, Ops, AuthedOps
  <1>6. s.stage \in Stages
    BY DEF Callable, Script
  <1> QED
    BY <1>1, <1>2, <1>3, <1>4, <1>5, <1>6 DEF Stages

LEMMA EnterOK ==
    ASSUME NEW p \in Page, NEW c \in Holding, c.access \in Held, c.refresh \in Held,
           NEW s, Callable(s), Enter(p, c, s)
    PROVE  Entered
  <1>1. client' = c /\ NoToken \in Held
    BY DEF Enter, Held
  <1>2. CASE s.stage = "idle"
    <2>1. script' = Idle /\ call' = NoCall
      BY <1>2 DEF Enter
    <2>2. Idle \in Script
      BY DEF Idle, Script, Stages, Clicks
    <2>3. CallOK(NoCall, c) /\ NoCall.token = NoToken /\ ~Good(NoCall)
      BY NoCallType, NoRequestType DEF CallOK, NoCall, NoRequest, Good
    <2> QED
      BY <1>1, <2>1, <2>2, <2>3 DEF Entered
  <1>3. CASE s.stage # "idle"
    <2>1. script' = s /\ call' = Start(c, RequestOf(s, p))
      BY <1>3 DEF Enter
    <2>2. CallOK(call', c) /\ call'.token = NoToken
      BY <1>3, <2>1, RequestOfOK, StartOK
    <2>3. Good(call') => c.refresh = NoToken
      BY <2>1, StartGood
    <2> QED
      BY <1>1, <2>1, <2>2, <2>3 DEF Entered, Callable
  <1> QED
    BY <1>2, <1>3

\* The stages the script goes on to.
LEMMA NextStages ==
    ASSUME NEW p, NEW click
    PROVE  /\ FromForm(p, click) \in Stages \ {"auth"} /\ FromAnalyse(p, click) \in Stages \ {"auth"}
           /\ FromRoadmap(p, click) \in Stages \ {"auth"} /\ FromDone(click) \in Stages \ {"auth"}
           /\ FromJobs(p) \in Stages \ {"auth"} /\ FromResume(p, click) \in Stages \ {"auth"}
           /\ FromAuth(p, click) \in Stages
           /\ FromAuth(p, click) = "auth" => click \in {"login", "register", "logout"}
  BY DEF FromForm, FromAnalyse, FromRoadmap, FromDone, FromJobs, FromResume, FromAuth, Stages

LEMMA RunOK ==
    ASSUME Inv, NEW p, GoodPage(p), NEW s \in Script, Run(p, s),
           s.click \in {"login", "register"} => s.user \in User
    PROVE  Entered
  <1> DEFINE r == [s EXCEPT !.stage = FromAuth(p, s.click)]
             c == Attached(p)
  <1>1. FromAuth(p, s.click) \in Stages /\ (FromAuth(p, s.click) = "auth" => s.click \in {"login", "register", "logout"})
    BY NextStages
  <1>2. Callable(r)
    BY <1>1 DEF Callable, Script
  <1>3. c \in Holding /\ c.access \in Held /\ c.refresh \in Held
    BY DEF Attached, GoodPage, Page, Inv, ClientInv, Holding
  <1>4. Enter(p, c, r)
    BY DEF Run
  <1> HIDE DEF r, c
  <1> QED
    BY <1>2, <1>3, <1>4, EnterOK DEF GoodPage

LEMMA RerunOK ==
    ASSUME Inv, NEW p, GoodPage(p), Run(p, Idle) PROVE Entered
  <1>1. Idle \in Script /\ Idle.click = "none"
    BY DEF Idle, Script, Stages, Clicks
  <1> QED
    BY <1>1, RunOK

LEMMA GoOnOK ==
    ASSUME Inv, NEW p, GoodPage(p), NEW stage \in Stages \ {"auth"},
           Enter(p, client, [script EXCEPT !.stage = stage])
    PROVE  Entered
  <1> DEFINE s == [script EXCEPT !.stage = stage]
  <1>1. Callable(s)
    BY DEF Callable, Script, Inv, PageInv
  <1> HIDE DEF s
  <1>2. Enter(p, client, s)
    BY DEF s
  <1> QED
    BY <1>1, <1>2, EnterOK DEF Inv, ClientInv, GoodPage

\* A step of the page touches neither the API nor what is on its way.
LEMMA PageSide ==
    ASSUME Inv, UNCHANGED <<server, stale, late, lost>>, GoodPage(page'),
           doubt' \in {"none", "lost", "overtaken"}, Entered
    PROVE  Inv' /\ Promised
  <1>1. UNCHANGED <<status, session, holder, stale, ended, account, profile, late, lost>>
    BY DEF server, tokens
  <1>2. Granted' = Granted /\ Held' = Held
    BY <1>1 DEF Granted, Held
  <1>3. ApiInv' /\ LateInv'
    BY <1>1, <1>2 DEF Inv, ApiInv, Server!TypeOK, LateInv, Sound
  <1> QED
    BY <1>1, <1>2, <1>3 DEF Inv, ClientInv, PageInv, CallInv, Entered, GoodPage, Promised

LEMMA PersistedOK ==
    ASSUME Inv, NEW p, GoodPage(p) PROVE GoodPage(Persisted(p))
  <1> DEFINE a == IF client.access # NoToken THEN client.access ELSE p.access
             f == IF client.refresh # NoToken THEN client.refresh ELSE p.refresh
  <1>1. a \in Held /\ f \in Held
    BY DEF Inv, ClientInv, GoodPage
  <1>2. Held \subseteq Token \cup {NoToken}
    BY DEF Held, Granted
  <1>3. Persisted(p) = [p EXCEPT !.access = a, !.refresh = f]
    BY DEF Persisted, GoodPage, Page
  <1> HIDE DEF a, f
  <1> QED
    BY <1>1, <1>2, <1>3 DEF GoodPage, Page

LEMMA SignedOutOK ==
    ASSUME NEW p, GoodPage(p) PROVE GoodPage(SignedOut(p))
  BY DEF GoodPage, Page, SignedOut, Held

LEMMA GoodNow == ASSUME Inv PROVE GoodPage(page) /\ GoodPage(Persisted(page)) /\ call.row \in Row \cup {NoRow}
  <1>1. GoodPage(page)
    BY DEF Inv, PageInv, GoodPage
  <1> QED
    BY <1>1, PersistedOK DEF Inv, CallInv, CallOK, CallState

\* The rows of the page change, and the tokens do not.
LEMMA RowsOK ==
    ASSUME NEW p, GoodPage(p), NEW a \in Row \cup {NoRow}, NEW b \in Row \cup {NoRow}, NEW c \in Row \cup {NoRow}
    PROVE  GoodPage([p EXCEPT !.profile = a, !.gap = b, !.roadmap = c])
  BY DEF GoodPage, Page

LEMMA EndErrorOK ==
    ASSUME Inv, NEW op, NEW stage \in Stages \ {"auth"}, EndError(op, stage)
    PROVE  GoodPage(page') /\ Entered
  <1>1. page' = Persisted(page) /\ GoodPage(page')
    BY GoodNow DEF EndError
  <1>2. Enter(page', client, [script EXCEPT !.stage = stage])
    BY DEF EndError, GoOn
  <1> QED
    BY <1>1, <1>2, GoOnOK

\* The page has taken a result over, and runs again or goes on.
LEMMA TakenOver ==
    ASSUME Inv, GoodPage(page'),
           Rerun \/ \E stage \in Stages \ {"auth"} : GoOn(stage)
    PROVE  GoodPage(page') /\ Entered
  <1>1. CASE Run(page', Idle)
    BY <1>1, RerunOK
  <1>2. ASSUME NEW stage \in Stages \ {"auth"}, Enter(page', client, [script EXCEPT !.stage = stage])
        PROVE  Entered
    BY <1>2, GoOnOK
  <1> QED
    BY <1>1, <1>2 DEF Rerun, GoOn

LEMMA EndSignInOK == ASSUME Inv, EndSignIn PROVE GoodPage(page') /\ Entered
  <1>1. CASE Ok
    <2>1. page' = [page EXCEPT !.access = call.token, !.refresh = call.token, !.user = script.user]
      BY <1>1 DEF EndSignIn
    <2>2. call.token \in Held /\ call.token \in Token \cup {NoToken} /\ script.user \in User \cup {NoUser}
      BY DEF Inv, CallInv, CallOK, CallState, PageInv, Script
    <2>3. GoodPage(page')
      BY <2>1, <2>2, GoodNow DEF GoodPage, Page
    <2> QED
      BY <1>1, <2>3, TakenOver DEF EndSignIn
  <1>2. CASE ~Ok
    <2>1. GoodPage(page') /\ GoOn("idle") /\ "idle" \in Stages \ {"auth"}
      BY <1>2, GoodNow DEF EndSignIn, Stages
    <2> QED
      BY <2>1, TakenOver
  <1> QED
    BY <1>1, <1>2

LEMMA EndSignOutOK ==
    ASSUME Inv, EndSignOut \/ EndExpired PROVE GoodPage(page') /\ Entered
  <1>1. GoodPage(SignedOut(page)) /\ GoodPage(Persisted(SignedOut(page)))
    BY GoodNow, SignedOutOK, PersistedOK
  <1>2. Rerun /\ page' \in {SignedOut(page), Persisted(SignedOut(page))}
    BY DEF EndSignOut, EndExpired
  <1> QED
    BY <1>1, <1>2, TakenOver

LEMMA EndParseResumeOK == ASSUME Inv, EndParseResume PROVE GoodPage(page') /\ Entered
  <1>1. GoodPage(page') /\ GoOn(FromForm(page, script.click))
    BY GoodNow DEF EndParseResume
  <1> QED
    BY <1>1, NextStages, TakenOver

LEMMA EndSaveOK ==
    ASSUME Inv, EndSave PROVE GoodPage(page') /\ Entered /\ doubt' \in {"none", "lost", "overtaken"}
  <1>1. doubt' \in {"none", "lost"}
    BY DEF EndSave
  <1>2. PICK op \in {"create_profile", "update_profile"} :
            \/ page' = [Persisted(page) EXCEPT !.profile = call.row, !.gap = NoRow, !.roadmap = NoRow] /\ Rerun
            \/ EndError(op, FromJobs(page))
    BY DEF EndSave
  <1>3. CASE EndError(op, FromJobs(page))
    BY <1>1, <1>3, NextStages, EndErrorOK
  <1>4. CASE /\ page' = [Persisted(page) EXCEPT !.profile = call.row, !.gap = NoRow, !.roadmap = NoRow]
             /\ Rerun
    <2>1. GoodPage(page')
      BY <1>4, GoodNow, RowsOK
    <2> QED
      BY <1>1, <1>4, <2>1, TakenOver
  <1> QED
    BY <1>2, <1>3, <1>4

LEMMA EndJobsOK == ASSUME Inv, EndJobs PROVE GoodPage(page') /\ Entered
  <1>1. CASE EndError("list_jobs", FromRoadmap(page, script.click))
    BY <1>1, NextStages, EndErrorOK
  <1>2. CASE page' = Persisted(page) /\ GoOn(FromAnalyse(page, script.click))
    BY <1>2, GoodNow, NextStages, TakenOver
  <1> QED
    BY <1>1, <1>2 DEF EndJobs

LEMMA EndAnalyseOK == ASSUME Inv, EndAnalyse PROVE GoodPage(page') /\ Entered
  <1>1. CASE EndError("create_analysis", FromRoadmap(page, script.click))
    BY <1>1, NextStages, EndErrorOK
  <1>2. CASE page' = [Persisted(page) EXCEPT !.gap = call.row, !.roadmap = NoRow] /\ Rerun
    <2>1. GoodPage(page')
      BY <1>2, GoodNow DEF GoodPage, Page
    <2> QED
      BY <1>2, <2>1, TakenOver
  <1> QED
    BY <1>1, <1>2 DEF EndAnalyse

LEMMA EndRoadmapOK == ASSUME Inv, EndRoadmap \/ EndDone PROVE GoodPage(page') /\ Entered
  <1>1. "idle" \in Stages \ {"auth"}
    BY DEF Stages
  <1>2. CASE EndError("create_roadmap", "idle") \/ EndError("update_resource", "idle")
    BY <1>1, <1>2, EndErrorOK
  <1>3. CASE /\ page' = [Persisted(page) EXCEPT !.roadmap = call.row]
             /\ Rerun \/ GoOn(FromDone(script.click))
    <2>1. GoodPage(page')
      BY <1>3, GoodNow DEF GoodPage, Page
    <2> QED
      BY <1>3, <2>1, NextStages, TakenOver
  <1> QED
    BY <1>2, <1>3 DEF EndRoadmap, EndDone

LEMMA ResumeEnters == ASSUME Inv, Resume PROVE GoodPage(page') /\ Entered
  BY EndSignInOK, EndSignOutOK, EndParseResumeOK, EndSaveOK, EndJobsOK, EndAnalyseOK, EndRoadmapOK DEF Resume

LEMMA ResumeInv == ASSUME Inv, Resume PROVE Inv' /\ Promised
  <1>1. CASE EndSave
    BY <1>1, EndSaveOK, PageSide DEF Resume
  <1>2. CASE ~EndSave
    <2>1. GoodPage(page') /\ Entered
      BY ResumeEnters
    <2>2. UNCHANGED doubt
      BY <1>2 DEF Resume, EndSignIn, EndSignOut, EndParseResume, EndExpired, EndJobs, EndAnalyse,
                  EndRoadmap, EndDone
    <2> QED
      BY <2>1, <2>2, PageSide DEF Resume, Inv, PageInv
  <1> QED
    BY <1>1, <1>2

LEMMA InteractEnters == ASSUME Inv, NEW click \in Clicks, Interact(click) PROVE Entered
  <1>1. PICK form \in SUBSET Skill, u \in User \cup {NoUser} :
            /\ click \in {"login", "register"} => u \in User
            /\ Run(page, [Idle EXCEPT !.click = click, !.form = form, !.user = u])
    <2>1. \E form \in (IF click = "save" THEN SUBSET Skill ELSE {{}}) :
          \E u \in (IF click \in {"login", "register"} THEN User ELSE {NoUser}) :
             Run(page, [Idle EXCEPT !.click = click, !.form = form, !.user = u])
      BY DEF Interact
    <2> QED
      BY <2>1
  <1> DEFINE s == [Idle EXCEPT !.click = click, !.form = form, !.user = u]
  <1>2. s \in Script /\ s.click = click /\ s.user = u
    BY DEF Idle, Script, Stages
  <1> HIDE DEF s
  <1>3. Run(page, s)
    BY <1>1 DEF s
  <1> QED
    BY <1>1, <1>2, <1>3, GoodNow, RunOK

LEMMA InteractInv == ASSUME Inv, NEW click \in Clicks, Interact(click) PROVE Inv' /\ Promised
  BY InteractEnters, GoodNow, PageSide DEF Interact, Inv, PageInv

-----------------------------------------------------------------------------
(***************************************************************************)
(* The clock, the operator, and the network's late requests                *)
(***************************************************************************)

\* Tokens end, by the clock or with their account.
LEMMA EndedInv ==
    ASSUME Inv, NEW S \in SUBSET Token, Server!Spend(S), ended' \subseteq Token,
           account' \in [User -> {"none", "open", "deleted"}],
           UNCHANGED <<holder, stale, profile, client, call, late, lost, page, script, doubt>>
    PROVE  Inv' /\ Promised
  <1>1. Server!TypeOK'
    BY DEF Server!Spend, Inv, ApiInv, Server!TypeOK, Server!Status
  <1>2. Granted' = Granted /\ Held' = Held
    BY DEF Granted, Held, Server!Spend, Inv, ApiInv, Server!TypeOK
  <1>3. ApiInv'
    BY <1>1, <1>2 DEF Inv, ApiInv
  <1>4. LateInv' /\ ClientInv' /\ PageInv' /\ CallInv'
    BY <1>2, LateKept, HoldersKept DEF Inv, CallInv, PageInv
  <1> QED
    BY <1>3, <1>4 DEF Inv, Promised, Server!Next

\* The types of an access token, and of the tokens the clock can end.
LEMMA PresentableGranted == ASSUME Inv PROVE Presentable \subseteq Token
  <1>1. {client.access, client.refresh} \subseteq Token \cup {NoToken}
    BY DEF Inv, ClientInv, Held, Granted
  <1>2. {r.token : r \in late} \subseteq Token \cup {NoToken}
    BY DEF Inv, LateInv, Sound, Request
  <1> QED
    BY <1>1, <1>2 DEF Presentable

LEMMA AroundClockInv ==
    ASSUME Inv, AroundClock, UNCHANGED <<page, script, doubt>> PROVE Inv' /\ Promised
  <1>1. ASSUME NEW t \in Presentable, AccessExpires(t) PROVE Inv' /\ Promised
    <2>1. UNCHANGED <<status, session, holder, ended, account, profile, client, call, late, lost>>
      BY <1>1 DEF AccessExpires, server, tokens
    <2>2. stale' \subseteq Token
      BY <1>1, PresentableGranted DEF AccessExpires, Inv, ApiInv
    <2>3. Granted' = Granted /\ Held' = Held
      BY <2>1 DEF Granted, Held
    <2>4. ApiInv' /\ LateInv'
      BY <2>1, <2>2, <2>3 DEF Inv, ApiInv, Server!TypeOK, LateInv, Sound
    <2> QED
      BY <2>1, <2>3, <2>4 DEF Inv, ClientInv, PageInv, CallInv, Promised
  <1>2. ASSUME NEW t \in Presentable, RefreshExpires(t) PROVE Inv' /\ Promised
    <2>1. t \in Token
      BY PresentableGranted
    <2>2. {t} \in SUBSET Token /\ ended' \subseteq Token
      BY <1>2, <2>1 DEF RefreshExpires, Inv, ApiInv
    <2> QED
      BY <1>2, <2>2, EndedInv DEF RefreshExpires, Inv, ApiInv
  <1>3. ASSUME NEW u \in User, DeleteUser(u) PROVE Inv' /\ Promised
    <2> DEFINE S == {t \in Token : status[t] = "live" /\ holder[t] = u}
    <2>1. S \in SUBSET Token /\ Server!Spend(S) /\ ended' = ended \cup S
      BY <1>3 DEF DeleteUser
    <2> HIDE DEF S
    <2>2. ended' \subseteq Token /\ account' \in [User -> {"none", "open", "deleted"}]
      BY <1>3, <2>1 DEF DeleteUser, Inv, ApiInv
    <2> QED
      BY <1>3, <2>1, <2>2, EndedInv DEF DeleteUser
  <1> QED
    BY <1>1, <1>2, <1>3 DEF AroundClock

LEMMA OutsideInv == ASSUME Inv, Outside PROVE Inv' /\ Promised
  <1>1. CASE AroundClock /\ UNCHANGED doubt
    BY <1>1, AroundClockInv DEF Outside
  <1>2. ASSUME NEW r \in late, HandleLate(r),
               doubt' = IF profile' = profile THEN doubt
                        ELSE IF call.req.op = "update_profile" THEN "overtaken" ELSE "lost"
        PROVE  Inv' /\ Promised
    <2>1. doubt' \in {"none", "lost", "overtaken"}
      BY <1>2 DEF Inv, PageInv
    <2> QED
      BY <1>2, <2>1, HandleLateInv DEF Outside
  <1> QED
    BY <1>1, <1>2 DEF Outside

-----------------------------------------------------------------------------
(***************************************************************************)
(* The specification                                                       *)
(***************************************************************************)

LEMMA InitInv == Init => Inv
  <1> SUFFICES ASSUME Init PROVE Inv
    OBVIOUS
  <1> USE DEF Init, ClientInit
  <1>1. ApiInv
    BY DEF ApiInv, Server!Init, Server!TypeOK, Server!Status, Granted
  <1>2. LateInv /\ ClientInv
    BY DEF LateInv, ClientInv, Holding, Held
  <1>3. PageInv
    BY DEF PageInv, Page, Script, Idle, Stages, Clicks, Held
  <1>4. CallInv
    <2>1. CallOK(NoCall, client) /\ NoCall.token = NoToken
      BY NoCallType, NoRequestType DEF CallOK, NoCall, NoRequest
    <2> QED
      BY <2>1 DEF CallInv, Held
  <1>5. lost \in 0..MaxLost
    BY ClientAssumption
  <1> QED
    BY <1>1, <1>2, <1>3, <1>4, <1>5 DEF Inv

LEMMA NextInv == ASSUME Inv, [Next]_vars PROVE Inv' /\ Promised
  <1>1. CASE UNCHANGED vars
    <2>1. /\ UNCHANGED <<status, session, holder, ended, account, profile>>
          /\ UNCHANGED <<stale, client, call, late, lost, page, script, doubt>>
      BY <1>1 DEF vars, clientVars, server, tokens
    <2>2. Granted' = Granted /\ Held' = Held
      BY <2>1 DEF Granted, Held
    <2>3. ApiInv' /\ LateInv'
      BY <2>1, <2>2 DEF Inv, ApiInv, Server!TypeOK, LateInv, Sound
    <2> QED
      BY <2>1, <2>2, <2>3 DEF Inv, ClientInv, PageInv, CallInv, Promised
  <1> QED
    BY <1>1, InteractInv, ClientStepInv, ResumeInv, OutsideInv DEF Next

LEMMA InvAlways == Spec => []Inv
  <1>1. Inv /\ [Next]_vars => Inv'
    BY NextInv
  <1> QED
    BY <1>1, InitInv, PTL DEF Spec

\* The state keeps its types: every request names an account and a token the
\* API looks up, for any number of accounts, pairs and lost replies.
THEOREM PageTypes == Spec => []TypeOK
  <1>1. Inv => TypeOK
    BY DEF Inv, ApiInv, LateInv, Sound, ClientInv, Holding, PageInv, CallInv, CallOK, TypeOK
  <1> QED
    BY <1>1, InvAlways, PTL

\* A call never sends more than three requests, nor does its operation twice.
THEOREM CallBounded == Spec => []CallIsBounded
  <1>1. Inv => CallIsBounded
    <2> SUFFICES ASSUME Inv PROVE CallIsBounded
      OBVIOUS
    <2>1. call \in CallState /\ call.step \in {"none", "warmup", "sent", "answered", "returned"}
      BY DEF Inv, CallInv, CallOK, CallState
    <2>2. CASE call.step \in {"sent", "answered"}
      BY <2>2, OutBounds DEF CallIsBounded
    <2>3. CASE call.step \in {"none", "warmup", "returned"}
      BY <2>3 DEF Inv, CallInv, CallOK, CallIsBounded
    <2> QED
      BY <2>1, <2>2, <2>3
  <1> QED
    BY <1>1, InvAlways, PTL

-----------------------------------------------------------------------------
\* The tokens of the API take only the steps of OneShotTokens, each action being
\* written with them, so what is proved of the promise holds of the API here.
Promise == INSTANCE OneShotTokensProofs

LEMMA SamePromise ==
    /\ Server!Init <=> Promise!Init
    /\ [Server!Next]_<<status, session>> <=> [Promise!Next]_<<status, session>>
    /\ Server!TokenInv <=> Promise!TokenInv
  BY DEF Server!Init, Promise!Init, Server!Next, Promise!Next, Server!Grant, Promise!Grant,
         Server!Rotate, Promise!Rotate, Server!Spend, Promise!Spend,
         Server!TokenInv, Promise!TokenInv, Server!TypeOK, Promise!TypeOK, Server!Live, Promise!Live,
         Server!Status, Promise!Status, Server!SessionsGranted, Promise!SessionsGranted,
         Server!AtMostOneLive, Promise!AtMostOneLive

LEMMA PromiseKept == Spec => []Server!TokenInv
  <1>1. Init => Promise!Init
    BY SamePromise DEF Init, ClientInit
  <1>2. Inv /\ [Next]_vars => [Promise!Next]_<<status, session>>
    BY NextInv, SamePromise DEF Promised
  <1>3. Spec => Promise!Spec
    BY <1>1, <1>2, InvAlways, PTL DEF Spec, Promise!Spec, Promise!vars
  <1> QED
    BY <1>3, SamePromise, Promise!PromiseInvariant, PTL

\* A session that is over is not revived by a step of the API.
LEMMA OverKept ==
    ASSUME Server!TokenInv, Promised, NEW s \in Token, Server!Over(s)
    PROVE  Server!Over(s)'
  <1>1. \A u \in Token : (Server!Over(u) <=> Promise!Over(u)) /\ (Server!Over(u)' <=> Promise!Over(u)')
    BY DEF Server!Over, Promise!Over, Server!Live, Promise!Live
  <1>2. Promise!TokenInv /\ [Promise!Next]_<<status, session>>
    BY SamePromise DEF Promised
  <1> QED
    BY <1>1, <1>2, Promise!NextOver DEF Promise!vars

-----------------------------------------------------------------------------
(***************************************************************************)
(* The rows: what the page shows is what the API stores                    *)
(***************************************************************************)

\* The profile of a row is, or was, in the database.
Real(row) == row # NoRow => profile[row.id] # NoRow

Succeeded(ops) == call.req.op \in ops /\ Good(call)

Saves == {"create_profile", "update_profile"}

\* What the script is blocked in is the call of its stage.
AskedInv == IF script.stage = "idle" THEN call = NoCall ELSE call.req = RequestOf(script, page)

RealInv ==
    /\ \A r \in late : Real(r.row)
    /\ Real(page.profile) /\ Real(page.gap) /\ Real(page.roadmap) /\ Real(call.row)

\* An operation that was done is answered, or its answer was given up.
RanInv ==
    call.ran > 0 =>
        \/ Good(call)
        \/ call.step = "returned" /\ call.result = "error" /\ call.silent /\ call.sent > 0

\* The page's copies, until an update that it waits for has taken effect.
CopyInv ==
    doubt = "none" =>
        /\ page.profile # NoRow => \/ ~Stored(page.profile.id)
                                   \/ profile[page.profile.id].skills = page.profile.skills
                                   \/ call.req.op = "update_profile" /\ call.ran > 0
        /\ page.gap # NoRow => page.gap = page.profile
        /\ page.roadmap # NoRow => page.roadmap = page.gap

\* The row has the skills a request adds, and none of those it removes.
Carries(row, r) == r.add \subseteq row.skills /\ r.remove \cap row.skills = {}

\* The row a save answers with is the stored one, and has what was asked for.
SavedInv ==
    Succeeded(Saves) =>
        /\ call.row # NoRow
        /\ doubt # "overtaken" \/ call.req.op = "create_profile" =>
              ~Stored(call.row.id) \/ profile[call.row.id].skills = call.row.skills
        /\ doubt = "none" \/ call.req.op = "create_profile" => call.row.skills = script.form
        /\ call.req.op = "update_profile" => Carries(call.row, call.req)
        /\ call.req.op = "create_profile" => \A r \in late : r.row # NoRow => r.row.id # call.row.id

\* The rows the other calls answer with are the page's own.
DerivedInv ==
    /\ Succeeded({"create_analysis"}) /\ doubt = "none" => call.row = page.profile
    /\ Succeeded({"create_roadmap", "update_resource"}) => call.row = call.req.row

RowsInv == AskedInv /\ RealInv /\ RanInv /\ CopyInv /\ SavedInv /\ DerivedInv

\* What a request may do to the accounts and the rows.
Grows ==
    \A p \in Profile : profile[p] # NoRow => profile'[p] # NoRow /\ (Stored(p)' => Stored(p))

\* What the answer of the kind, with this row, says of the rows.
RowTold(r, kind, row) ==
    /\ row # NoRow => row \in Row /\ profile'[row.id] # NoRow
    /\ profile' # profile =>
          /\ kind = "ok" /\ r.op \in Saves
          /\ \A p \in Profile : p # row.id => profile'[p] = profile[p]
    /\ kind = "ok" /\ r.op \in Saves => row # NoRow /\ profile'[row.id].skills = row.skills
    /\ kind = "ok" /\ r.op = "create_profile" => profile[row.id] = NoRow /\ row.skills = r.add
    /\ kind = "ok" /\ r.op = "update_profile" =>
          r.row # NoRow /\ row.id = r.row.id /\ Stored(r.row.id) /\ row.skills = Patched(r)
    /\ kind = "ok" /\ r.op = "create_analysis" =>
          /\ r.row # NoRow /\ Stored(r.row.id)
          /\ row = [id |-> r.row.id, skills |-> profile[r.row.id].skills]
    /\ kind = "ok" /\ r.op \in {"create_roadmap", "update_resource"} => row = r.row

Recorded(r, awaited) ==
    Grows /\ \E kind, t, row : Reply(r, awaited, kind, t, row) /\ RowTold(r, kind, row)

\* A deleted account stays deleted, and a row keeps its account.
LEMMA GrowsBy ==
    ASSUME Inv, \A u \in User : account[u] = "deleted" => account'[u] = "deleted",
           \A p \in Profile : profile[p] # NoRow => profile'[p] # NoRow /\ profile'[p].user = profile[p].user
    PROVE  Grows
  <1> SUFFICES ASSUME NEW p \in Profile, profile[p] # NoRow, Stored(p)' PROVE Stored(p)
    BY DEF Grows
  <1>1. profile[p].user \in User
    BY DEF Inv, ApiInv
  <1> QED
    BY <1>1 DEF Stored

\* A request that stores nothing, and is answered without a row.
LEMMA SilentRecorded ==
    ASSUME Inv, NEW r, NEW awaited \in BOOLEAN, NEW kind, NEW t, Reply(r, awaited, kind, t, NoRow),
           \A u \in User : account[u] = "deleted" => account'[u] = "deleted",
           UNCHANGED profile, kind = "ok" => r.op \notin AuthedOps
    PROVE  Recorded(r, awaited)
  <1>1. Grows
    BY GrowsBy
  <1>2. RowTold(r, kind, NoRow)
    BY DEF RowTold, AuthedOps, Saves
  <1> QED
    BY <1>1, <1>2 DEF Recorded

LEMMA RefusedRecorded ==
    ASSUME Inv, NEW r, NEW awaited \in BOOLEAN, NEW kind \in {"refused", "unauthorized"},
           Refuse(r, awaited, kind)
    PROVE  Recorded(r, awaited)
  BY SilentRecorded DEF Refuse, server

LEMMA OpenRecorded ==
    ASSUME Inv, NEW r, Sound(r), NEW awaited \in BOOLEAN, r.op \in {"login", "register"},
           \/ UNCHANGED account
           \/ account[r.user] = "none" /\ account' = [account EXCEPT ![r.user] = "open"],
           Open(r, awaited)
    PROVE  Recorded(r, awaited)
  <1>1. PICK t : Reply(r, awaited, "ok", t, NoRow) /\ UNCHANGED profile
    BY DEF Open
  <1>2. \A u \in User : account[u] = "deleted" => account'[u] = "deleted"
    BY DEF Sound, Inv, ApiInv
  <1> QED
    BY <1>1, <1>2, SilentRecorded DEF AuthedOps

LEMMA CreateRecorded ==
    ASSUME Inv, NEW r, Sound(r), NEW awaited \in BOOLEAN, CreateProfile(r, awaited)
    PROVE  Recorded(r, awaited)
  <1>1. CASE Refuse(r, awaited, "refused")
    BY <1>1, RefusedRecorded
  <1>2. ASSUME NEW p \in Profile, profile[p] = NoRow,
               profile' = [profile EXCEPT ![p] = [user |-> holder[r.token], skills |-> r.add]],
               Reply(r, awaited, "ok", NoToken, [id |-> p, skills |-> r.add]),
               UNCHANGED account
        PROVE  Recorded(r, awaited)
    <2> DEFINE row == [id |-> p, skills |-> r.add]
               new == [user |-> holder[r.token], skills |-> r.add]
    <2>1. r.op = "create_profile" /\ r.add \in SUBSET Skill /\ r.token \in Granted
      BY DEF CreateProfile, Sound, Request, AuthedOps
    <2>2. row \in Row /\ row.id = p /\ row.skills = r.add
      BY <2>1 DEF Row
    <2>3. new \in [user : User, skills : SUBSET Skill] /\ new.skills = r.add
      BY <2>1 DEF Inv, ApiInv
    <2>4. row # NoRow /\ new # NoRow
      BY <2>2, <2>3, ClientAssumption DEF Row
    <2> HIDE DEF new, row
    <2>5. profile'[p] = new /\ \A q \in Profile : q # p => profile'[q] = profile[q]
      BY <1>2 DEF Inv, ApiInv, new
    <2>6. Grows
      BY <1>2, <2>5, GrowsBy
    <2>7. RowTold(r, "ok", row)
      BY <1>2, <2>1, <2>2, <2>3, <2>4, <2>5 DEF RowTold, Saves
    <2> QED
      BY <1>2, <2>6, <2>7 DEF Recorded, row
  <1> QED
    BY <1>1, <1>2 DEF CreateProfile

LEMMA UpdateRecorded ==
    ASSUME Inv, NEW r, Sound(r), NEW awaited \in BOOLEAN, UpdateProfile(r, awaited)
    PROVE  Recorded(r, awaited)
  <1>1. CASE ~(Owns(r) /\ Patched(r) # {})
    BY <1>1, RefusedRecorded DEF UpdateProfile
  <1>2. CASE Owns(r) /\ Patched(r) # {}
    <2> DEFINE p == r.row.id
               row == [id |-> r.row.id, skills |-> Patched(r)]
    <2>1. /\ r.op = "update_profile" /\ r.row # NoRow /\ r.row \in Row /\ Stored(p) /\ profile[p] # NoRow
          /\ p \in Profile
      BY <1>2 DEF UpdateProfile, Owns, Stored, Sound, Request, Row
    <2>2. profile[p] \in [user : User, skills : SUBSET Skill]
      BY <2>1 DEF Inv, ApiInv
    <2>3. Patched(r) \in SUBSET Skill
      BY <2>2 DEF Patched, Sound, Request
    <2>4. /\ profile' = [profile EXCEPT ![r.row.id].skills = Patched(r)]
          /\ Reply(r, awaited, "ok", NoToken, row) /\ UNCHANGED account
      BY <1>2 DEF UpdateProfile
    <2>5. /\ profile'[p] \in [user : User, skills : SUBSET Skill] /\ profile'[p].user = profile[p].user
          /\ profile'[p].skills = Patched(r)
          /\ \A q \in Profile : q # p => profile'[q] = profile[q]
      BY <2>1, <2>2, <2>3, <2>4 DEF Inv, ApiInv
    <2>6. row \in Row /\ row.id = p /\ row.skills = Patched(r)
      BY <2>1, <2>3 DEF Row
    <2>7. row # NoRow /\ profile'[p] # NoRow
      BY <2>5, <2>6, ClientAssumption DEF Row
    <2> HIDE DEF row
    <2>8. Grows
      BY <2>4, <2>5, <2>7, GrowsBy
    <2>9. RowTold(r, "ok", row)
      BY <2>1, <2>5, <2>6, <2>7 DEF RowTold, Saves
    <2> QED
      BY <2>4, <2>8, <2>9 DEF Recorded
  <1> QED
    BY <1>1, <1>2

LEMMA DeriveRecorded ==
    ASSUME Inv, NEW r, Sound(r), NEW awaited \in BOOLEAN, Derive(r, awaited)
    PROVE  Recorded(r, awaited)
  <1>1. CASE ~Owns(r)
    BY <1>1, RefusedRecorded DEF Derive
  <1>2. CASE Owns(r)
    <2> DEFINE p == r.row.id
               row == IF r.op = "create_analysis" THEN [id |-> p, skills |-> profile[p].skills] ELSE r.row
    <2>1. /\ r.row # NoRow /\ r.row \in Row /\ Stored(p) /\ profile[p] # NoRow /\ p \in Profile
          /\ r.op \in {"create_analysis", "create_roadmap", "update_resource"}
      BY <1>2 DEF Derive, Owns, Stored, Sound, Request, Row
    <2>2. profile[p] \in [user : User, skills : SUBSET Skill]
      BY <2>1 DEF Inv, ApiInv
    <2>3. Reply(r, awaited, "ok", NoToken, row) /\ UNCHANGED <<account, profile>>
      BY <1>2 DEF Derive, server
    <2>4. row \in Row /\ row.id = p
      BY <2>1, <2>2 DEF Row
    <2>5. Grows
      BY <2>3, GrowsBy
    <2>6. RowTold(r, "ok", row)
      <3>1. /\ r.op = "create_analysis" => row = [id |-> p, skills |-> profile[p].skills]
            /\ r.op # "create_analysis" => row = r.row
        OBVIOUS
      <3> HIDE DEF row
      <3> QED
        BY <2>1, <2>3, <2>4, <3>1 DEF RowTold, Saves
    <2> QED
      BY <2>3, <2>5, <2>6 DEF Recorded
  <1> QED
    BY <1>1, <1>2

\* Whatever the API does with a request.
LEMMA HandleRecorded ==
    ASSUME Inv, NEW r, Sound(r), NEW awaited \in BOOLEAN, Handle(r, awaited)
    PROVE  Recorded(r, awaited)
  <1>1. CASE Register(r, awaited) \/ Login(r, awaited)
    BY <1>1, RefusedRecorded, OpenRecorded DEF Register, Login
  <1>2. CASE Authed(r, awaited)
    BY <1>2, RefusedRecorded, CreateRecorded, UpdateRecorded, DeriveRecorded DEF Authed
  <1>3. CASE Refresh(r, awaited)
    <2>1. CASE Refuse(r, awaited, "unauthorized") \/ Refuse(r, awaited, "refused")
      BY <2>1, RefusedRecorded
    <2>2. CASE \E t \in Fresh : Reply(r, awaited, "ok", t, NoRow) /\ UNCHANGED <<account, profile>>
      BY <1>3, <2>2, SilentRecorded DEF Refresh, AuthedOps
    <2> QED
      BY <1>3, <2>1, <2>2 DEF Refresh
  <1>4. CASE Logout(r, awaited)
    BY <1>4, SilentRecorded DEF Logout, AuthedOps
  <1>5. CASE Read(r, awaited)
    BY <1>5, SilentRecorded DEF Read, server, AuthedOps
  <1> QED
    BY <1>1, <1>2, <1>3, <1>4, <1>5 DEF Handle


-----------------------------------------------------------------------------
\* What the request that is out asks for.
LEMMA OutgoingRow ==
    ASSUME Inv, call.step = "sent"
    PROVE  /\ call.phase = "refresh" => Outgoing.op = "refresh" /\ Outgoing.row = NoRow
           /\ call.phase # "refresh" =>
                  /\ Outgoing.op = call.req.op /\ Outgoing.row = call.req.row
                  /\ Outgoing.add = call.req.add /\ Outgoing.remove = call.req.remove
  <1>1. call.req \in Request
    BY DEF Inv, CallInv, CallOK, CallState
  <1>2. CASE call.phase = "refresh"
    BY <1>2 DEF Outgoing, NoRequest
  <1>3. CASE call.phase # "refresh"
    <2> DEFINE t == IF call.req.op \in AuthedOps THEN client.access
                    ELSE IF call.req.op = "logout" THEN client.refresh ELSE NoToken
    <2>1. Outgoing = [call.req EXCEPT !.token = t]
      BY <1>3 DEF Outgoing
    <2> HIDE DEF t
    <2> QED
      BY <1>1, <1>3, <2>1 DEF Request
  <1> QED
    BY <1>2, <1>3

\* The request of a stage, as far as it is about rows.
AsksOf(r, p, s) ==
    /\ r.row \in {NoRow, p.profile, p.gap, p.roadmap}
    /\ r.op = "create_profile" => p.profile = NoRow /\ r.add = s.form
    /\ r.op = "update_profile" =>
           /\ p.profile # NoRow /\ r.row = p.profile
           /\ r.add = s.form \ p.profile.skills /\ r.remove = p.profile.skills \ s.form
    /\ r.op = "create_analysis" => r.row = p.profile
    /\ r.op = "create_roadmap" => r.row = p.gap
    /\ r.op = "update_resource" => r.row = p.roadmap

LEMMA StageRows ==
    ASSUME NEW p \in Page, NEW s \in Script, s.stage # "idle"
    PROVE  AsksOf(RequestOf(s, p), p, s)
  <1> SUFFICES ASSUME NEW r, r = RequestOf(s, p) PROVE AsksOf(r, p, s)
    OBVIOUS
  <1>1. s.stage \in Stages /\ s.click \in Clicks
    BY DEF Script
  <1>2. CASE s.stage = "auth"
    <2>1. r = [NoRequest EXCEPT !.op = s.click, !.user = s.user]
      BY <1>2 DEF RequestOf
    <2>2. r.op \in Clicks /\ r.row = NoRow
      BY <1>1, <2>1 DEF NoRequest
    <2> QED
      BY <2>2 DEF AsksOf, Clicks
  <1>3. CASE s.stage = "form"
    <2>1. r = SaveRequest(p, s.form)
      BY <1>3 DEF RequestOf
    <2>2. CASE p.profile = NoRow
      <3>1. r = [NoRequest EXCEPT !.op = "create_profile", !.add = s.form]
        BY <2>1, <2>2 DEF SaveRequest
      <3>2. r.op = "create_profile" /\ r.add = s.form /\ r.row = NoRow
        BY <3>1 DEF NoRequest
      <3> QED
        BY <2>2, <3>2 DEF AsksOf
    <2>3. CASE p.profile # NoRow
      <3> DEFINE more == s.form \ p.profile.skills
                 less == p.profile.skills \ s.form
      <3>1. r = [NoRequest EXCEPT !.op = "update_profile", !.row = p.profile, !.add = more, !.remove = less]
        BY <2>1, <2>3 DEF SaveRequest
      <3> HIDE DEF more, less
      <3>2. r.op = "update_profile" /\ r.row = p.profile /\ r.add = more /\ r.remove = less
        BY <3>1 DEF NoRequest
      <3> QED
        BY <2>3, <3>2 DEF AsksOf, more, less
    <2> QED
      BY <2>2, <2>3
  <1>4. CASE s.stage \in {"resume", "jobs"}
    <2>1. r = [NoRequest EXCEPT !.op = "parse_resume"] \/ r = [NoRequest EXCEPT !.op = "list_jobs"]
      <3>1. CASE s.stage = "resume"
        BY <3>1 DEF RequestOf
      <3>2. CASE s.stage = "jobs"
        BY <3>2 DEF RequestOf
      <3> QED
        BY <1>4, <3>1, <3>2
    <2>2. r.op \in {"parse_resume", "list_jobs"} /\ r.row = NoRow
      BY <2>1 DEF NoRequest
    <2> QED
      BY <2>2 DEF AsksOf
  <1>5. CASE s.stage = "analyse"
    <2>1. r = [NoRequest EXCEPT !.op = "create_analysis", !.row = p.profile]
      BY <1>5 DEF RequestOf
    <2>2. r.op = "create_analysis" /\ r.row = p.profile
      BY <2>1 DEF NoRequest
    <2> QED
      BY <2>2 DEF AsksOf
  <1>6. CASE s.stage = "roadmap"
    <2>1. r = [NoRequest EXCEPT !.op = "create_roadmap", !.row = p.gap]
      BY <1>6 DEF RequestOf
    <2>2. r.op = "create_roadmap" /\ r.row = p.gap
      BY <2>1 DEF NoRequest
    <2> QED
      BY <2>2 DEF AsksOf
  <1>7. CASE s.stage = "done"
    <2>1. r = [NoRequest EXCEPT !.op = "update_resource", !.row = p.roadmap]
      BY <1>7 DEF RequestOf
    <2>2. r.op = "update_resource" /\ r.row = p.roadmap
      BY <2>1 DEF NoRequest
    <2> QED
      BY <2>2 DEF AsksOf
  <1> QED
    BY <1>1, <1>2, <1>3, <1>4, <1>5, <1>6, <1>7 DEF Stages

\* The script that waits for a call asked for it.
LEMMA Asked ==
    ASSUME Inv, AskedInv, call.step # "none"
    PROVE  script.stage # "idle" /\ call.req = RequestOf(script, page)
  BY DEF AskedInv, NoCall

\* A row that was drawn stays drawn.
LEMMA RealKept ==
    ASSUME Grows, NEW row \in Row \cup {NoRow}, Real(row) PROVE Real(row)'
  BY DEF Grows, Real, Row

\* The rows that are about.
LEMMA RowTypes ==
    ASSUME Inv
    PROVE  /\ page \in Page /\ script \in Script /\ call \in CallState
           /\ page.profile \in Row \cup {NoRow} /\ page.gap \in Row \cup {NoRow}
           /\ page.roadmap \in Row \cup {NoRow} /\ call.row \in Row \cup {NoRow}
           /\ script.form \in SUBSET Skill
           /\ \A r \in late : r.row \in Row \cup {NoRow}
           /\ call.req.op # "refresh"
  BY DEF Inv, PageInv, Page, Script, CallInv, CallOK, CallState, LateInv, Sound, Request,
         Ops, PublicOps, AuthedOps

\* The API answers the call: the rows it tells of are the stored ones.
LEMMA HandleAwaitedRows ==
    ASSUME Inv, RowsInv, HandleAwaited, UNCHANGED <<page, script, doubt>>
    PROVE  RowsInv'
  <1>1. /\ call.step = "sent" /\ Sound(Outgoing) /\ Handle(Outgoing, TRUE)
        /\ Outgoing.op = "refresh" <=> call.phase = "refresh"
    BY OutgoingSound DEF HandleAwaited
  <1>2. Recorded(Outgoing, TRUE)
    BY <1>1, HandleRecorded
  <1> DEFINE r == Outgoing
  <1>3. PICK kind, t, row : Reply(r, TRUE, kind, t, row) /\ RowTold(r, kind, row)
    BY <1>2 DEF Recorded
  <1> DEFINE n == IF kind = "ok" /\ r.op # "refresh" THEN call.ran + 1 ELSE call.ran
  <1>4. call \in CallState /\ call.ran = 0 /\ call.row \in Row \cup {NoRow}
    BY <1>1, RowTypes DEF Inv, CallInv, CallOK
  <1>5. /\ call' = [call EXCEPT !.step = "answered", !.reply = kind, !.token = t, !.row = row, !.ran = n]
        /\ UNCHANGED late
    BY <1>3 DEF Reply
  <1>6. n = IF kind = "ok" /\ call.phase # "refresh" THEN 1 ELSE 0
    BY <1>1, <1>4
  <1> HIDE DEF n
  <1>7. /\ call'.step = "answered" /\ call'.reply = kind /\ call'.row = row /\ call'.ran = n
        /\ call'.req = call.req /\ call'.phase = call.phase
    BY <1>4, <1>5 DEF CallState
  <1>8. Grows
    BY <1>2 DEF Recorded
  <1>9. /\ script.stage # "idle" /\ call.req = RequestOf(script, page)
    BY <1>1, Asked DEF RowsInv
  <1>10. Good(call)' <=> kind = "ok" /\ call.phase # "refresh"
    BY <1>7 DEF Good
  <1>11. Good(call)' => r.op = call.req.op /\ r.row = call.req.row /\ r.add = call.req.add /\ r.remove = call.req.remove
    BY <1>1, <1>10, OutgoingRow
  <1> HIDE DEF r
  <1>12. AskedInv'
    BY <1>7, <1>9 DEF AskedInv
  <1>13. RealInv'
    <2>1. Real(call.row)'
      BY <1>3, <1>7 DEF RowTold, Real
    <2>2. \A q \in late' : Real(q.row)'
      BY <1>5, <1>8, RowTypes, RealKept DEF RowsInv, RealInv
    <2>3. Real(page.profile)' /\ Real(page.gap)' /\ Real(page.roadmap)'
      BY <1>8, RowTypes, RealKept DEF RowsInv, RealInv
    <2> QED
      BY <2>1, <2>2, <2>3 DEF RealInv
  <1>14. RanInv'
    BY <1>6, <1>7, <1>10 DEF RanInv
  \* The page's copy is of the stored row, while it is stored.
  <1>15. doubt = "none" /\ page.profile # NoRow /\ Stored(page.profile.id)
            => profile[page.profile.id].skills = page.profile.skills
    BY <1>4 DEF RowsInv, CopyInv
  <1>16. page.profile # NoRow => page.profile \in Row /\ page.profile.id \in Profile
                                 /\ profile[page.profile.id] # NoRow
    BY RowTypes DEF RowsInv, RealInv, Real, Row
  <1>17. profile' # profile => Good(call)' /\ call.req.op \in Saves
    BY <1>1, <1>3, <1>10, <1>11 DEF RowTold, Saves, r
  <1>18. CopyInv'
    <2> SUFFICES ASSUME doubt' = "none", page'.profile # NoRow, Stored(page.profile.id)',
                        ~(call'.req.op = "update_profile" /\ call'.ran > 0)
                 PROVE  profile'[page.profile.id].skills = page.profile.skills
      BY DEF CopyInv, RowsInv
    <2>1. Stored(page.profile.id)
      BY <1>8, <1>16 DEF Grows
    <2>2. CASE profile' = profile
      BY <1>15, <2>1, <2>2
    <2>3. CASE profile' # profile
      <3>1. call.req.op = "create_profile" /\ Good(call)'
        BY <1>6, <1>7, <1>10, <1>17, <2>3 DEF Saves
      <3>2. profile[row.id] = NoRow
        BY <1>3, <1>10, <1>11, <3>1 DEF RowTold
      <3>3. profile'[page.profile.id] = profile[page.profile.id]
        BY <1>3, <1>16, <2>3, <3>2 DEF RowTold
      <3> QED
        BY <1>15, <2>1, <3>3
    <2> QED
      BY <2>2, <2>3
  <1>19. SavedInv'
    <2> SUFFICES ASSUME call.req.op \in Saves, Good(call)'
                 PROVE  /\ row # NoRow /\ profile'[row.id].skills = row.skills
                        /\ doubt = "none" \/ call.req.op = "create_profile" => row.skills = script.form
                        /\ call.req.op = "update_profile" => Carries(row, call.req)
                        /\ call.req.op = "create_profile" => \A q \in late : q.row # NoRow => q.row.id # row.id
      BY <1>5, <1>7 DEF SavedInv, Succeeded, Carries
    <2>1. kind = "ok" /\ r.op = call.req.op /\ r.row = call.req.row /\ r.add = call.req.add
          /\ r.remove = call.req.remove
      BY <1>10, <1>11
    <2>2. row # NoRow /\ profile'[row.id].skills = row.skills
      BY <1>3, <2>1 DEF RowTold
    <2>3. CASE call.req.op = "create_profile"
      <3>1. profile[row.id] = NoRow /\ row.skills = call.req.add
        BY <1>3, <2>1, <2>3 DEF RowTold
      <3>2. call.req.add = script.form
        BY <1>9, <2>3, RowTypes, StageRows DEF AsksOf
      <3>3. \A q \in late : q.row # NoRow => q.row.id # row.id
        BY <3>1 DEF RowsInv, RealInv, Real
      <3> QED
        BY <2>2, <2>3, <3>1, <3>2, <3>3
    <2>4. CASE call.req.op = "update_profile"
      <3>1. /\ r.row # NoRow /\ row.id = r.row.id /\ Stored(r.row.id) /\ row.skills = Patched(r)
        BY <1>3, <2>1, <2>4 DEF RowTold
      <3>2. /\ page.profile # NoRow /\ r.row = page.profile
            /\ r.add = script.form \ page.profile.skills /\ r.remove = page.profile.skills \ script.form
        BY <1>9, <2>1, <2>4, RowTypes, StageRows DEF AsksOf
      <3>3. doubt = "none" => profile[r.row.id].skills = page.profile.skills
        BY <1>15, <3>1, <3>2
      <3>4. doubt = "none" => Patched(r) = script.form
        BY <3>2, <3>3 DEF Patched
      <3>5. Carries(row, call.req)
        BY <2>1, <3>1, <3>2 DEF Carries, Patched
      <3> QED
        BY <2>2, <2>4, <3>1, <3>4, <3>5
    <2> QED
      BY <2>3, <2>4 DEF Saves
  <1>20. DerivedInv'
    <2>1. ASSUME call.req.op = "create_analysis", Good(call)', doubt = "none"
          PROVE  row = page.profile
      <3>1. /\ r.row # NoRow /\ Stored(r.row.id) /\ r.row = call.req.row
            /\ row = [id |-> r.row.id, skills |-> profile[r.row.id].skills]
        BY <1>3, <1>10, <1>11, <2>1 DEF RowTold
      <3>2. r.row = page.profile
        BY <1>9, <2>1, <3>1, RowTypes, StageRows DEF AsksOf
      <3>3. row = [id |-> page.profile.id, skills |-> page.profile.skills]
        BY <1>15, <2>1, <3>1, <3>2
      <3> QED
        BY <1>16, <3>1, <3>2, <3>3 DEF Row
    <2>2. ASSUME call.req.op \in {"create_roadmap", "update_resource"}, Good(call)'
          PROVE  row = call.req.row
      BY <1>3, <1>10, <1>11, <2>2 DEF RowTold
    <2> QED
      BY <1>7, <2>1, <2>2 DEF DerivedInv, Succeeded
  <1> QED
    BY <1>12, <1>13, <1>14, <1>18, <1>19, <1>20 DEF RowsInv

-----------------------------------------------------------------------------
\* A call that returns, or goes out again, keeps what it was made for.
LEMMA ReturnRow ==
    ASSUME NEW c \in CallState, NEW result
    PROVE  /\ Return(c, result).req = c.req /\ Return(c, result).row = c.row
           /\ Return(c, result).ran = c.ran /\ Return(c, result).sent = c.sent
           /\ Return(c, result).silent = c.silent
           /\ Return(c, result).step = "returned" /\ Return(c, result).result = result
  BY DEF Return, CallState

LEMMA SendRow ==
    ASSUME NEW c \in CallState, NEW phase
    PROVE  /\ Send(c, phase).req = c.req /\ Send(c, phase).row = c.row
           /\ Send(c, phase).ran = c.ran /\ Send(c, phase).step = "sent"
  BY DEF Send, CallState

\* A call that begins has no row, and has done nothing; only a logout with
\* nothing to log out of succeeds at once.
Fresher(c, r) ==
    /\ c.req = r /\ c.row = NoRow /\ c.ran = 0
    /\ c.step # "answered" /\ (c.step = "returned" /\ c.result = "ok" => r.op = "logout")

LEMMA NewCall ==
    ASSUME NEW r \in Request
    PROVE  LET c == [NoCall EXCEPT !.req = r] IN
           /\ c \in CallState /\ c.req = r /\ c.row = NoRow /\ c.ran = 0
           /\ [NoCall EXCEPT !.req = r, !.step = "warmup"].req = r
           /\ [NoCall EXCEPT !.req = r, !.step = "warmup"].row = NoRow
           /\ [NoCall EXCEPT !.req = r, !.step = "warmup"].ran = 0
           /\ [NoCall EXCEPT !.req = r, !.step = "warmup"].step = "warmup"
  BY NoCallType DEF NoCall, CallState

LEMMA HeadRow == ASSUME NEW k, NEW r \in Request PROVE Fresher(Head(k, r), r)
  <1> DEFINE c == [NoCall EXCEPT !.req = r]
  <1>1. c \in CallState /\ c.req = r /\ c.row = NoRow /\ c.ran = 0
    BY NewCall
  <1>2. Head(k, r) = Return(c, "expired") \/ Head(k, r) = Send(c, "request")
    BY DEF Head
  <1> HIDE DEF c
  <1>3. Fresher(Return(c, "expired"), r)
    BY <1>1, ReturnRow DEF Fresher
  <1>4. Fresher(Send(c, "request"), r)
    BY <1>1, SendRow DEF Fresher
  <1> QED
    BY <1>2, <1>3, <1>4

LEMMA StartRow == ASSUME NEW k, NEW r \in Request PROVE Fresher(Start(k, r), r)
  <1> DEFINE c == [NoCall EXCEPT !.req = r]
             w == [NoCall EXCEPT !.req = r, !.step = "warmup"]
  <1>1. c \in CallState /\ c.req = r /\ c.row = NoRow /\ c.ran = 0
    BY NewCall
  <1>2. w.req = r /\ w.row = NoRow /\ w.ran = 0 /\ w.step = "warmup"
    BY NewCall
  <1>3. \/ r.op = "logout" /\ Start(k, r) = Return(c, "ok")
        \/ Start(k, r) = Head(k, r)
        \/ Start(k, r) = w
    BY DEF Start
  <1> HIDE DEF c, w
  <1>4. r.op = "logout" => Fresher(Return(c, "ok"), r)
    BY <1>1, ReturnRow DEF Fresher
  <1>5. Fresher(w, r)
    BY <1>2 DEF Fresher
  <1> QED
    BY <1>3, <1>4, <1>5, HeadRow

\* A step of the client: the call keeps its row, or loses it and is not answered well.
CallGoesOn ==
    /\ call'.req = call.req /\ call'.ran = call.ran
    /\ Good(call)' => Good(call) /\ call'.row = call.row
    /\ call'.row \in {call.row, NoRow}
    /\ RanInv'
    /\ \A r \in late' : r \in late \/ (Real(r.row) /\ ~Good(call)')

LEMMA ClientRows ==
    ASSUME Inv, RowsInv, call.step # "none", CallGoesOn,
           UNCHANGED <<profile, account, page, script, doubt>>
    PROVE  RowsInv'
  <1>1. AskedInv'
    BY Asked DEF RowsInv, AskedInv, CallGoesOn
  <1>2. RealInv'
    BY DEF RowsInv, RealInv, CallGoesOn, Real
  <1>3. CopyInv'
    BY DEF RowsInv, CopyInv, CallGoesOn, Stored
  <1>4. SavedInv'
    BY DEF RowsInv, SavedInv, Succeeded, CallGoesOn, Stored, Carries
  <1>5. DerivedInv'
    BY DEF RowsInv, DerivedInv, Succeeded, CallGoesOn
  <1> QED
    BY <1>1, <1>2, <1>3, <1>4, <1>5 DEF RowsInv, CallGoesOn

LEMMA WarmupRows ==
    ASSUME Inv, RowsInv, Warmup, UNCHANGED <<page, script, doubt>> PROVE RowsInv'
  <1>1. /\ call \in CallState /\ call.req \in Request /\ call.step = "warmup" /\ call.ran = 0
        /\ UNCHANGED <<profile, account, late>>
    BY DEF Inv, CallInv, CallOK, CallState, Warmup, server
  <1>2. CASE call' = Return([call EXCEPT !.silent = TRUE], "error")
    <2> DEFINE c == [call EXCEPT !.silent = TRUE]
    <2>1. c \in CallState /\ c.req = call.req /\ c.row = call.row /\ c.ran = 0
      BY <1>1 DEF CallState
    <2>2. call' = Return(c, "error")
      BY <1>2
    <2> HIDE DEF c
    <2>3. /\ call'.req = call.req /\ call'.row = call.row /\ call'.ran = 0
          /\ call'.step = "returned" /\ call'.result = "error"
      BY <2>1, <2>2, ReturnRow
    <2>4. ~Good(call)'
      BY <2>3 DEF Good
    <2>5. CallGoesOn
      BY <1>1, <2>3, <2>4 DEF CallGoesOn, RanInv
    <2> QED
      BY <1>1, <2>5, ClientRows
  <1>3. CASE call' = Head(client, call.req)
    <2>1. Fresher(call', call.req) /\ call'.result # "ok"
      <3> DEFINE c == [NoCall EXCEPT !.req = call.req]
      <3>1. c \in CallState /\ c.result = "none"
        BY <1>1, NoCallType DEF NoCall, CallState
      <3>2. call' = Return(c, "expired") \/ call' = Send(c, "request")
        BY <1>3 DEF Head
      <3> HIDE DEF c
      <3>3. call'.result # "ok"
        BY <3>1, <3>2 DEF Return, Send, CallState
      <3> QED
        BY <1>1, <1>3, <3>3, HeadRow
    <2>2. ~Good(call)'
      BY <2>1 DEF Fresher, Good
    <2>3. CallGoesOn
      BY <1>1, <2>1, <2>2 DEF Fresher, CallGoesOn, RanInv
    <2> QED
      BY <1>1, <2>3, ClientRows
  <1> QED
    BY <1>2, <1>3 DEF Warmup

LEMMA ReceiveRows ==
    ASSUME Inv, RowsInv, Receive, UNCHANGED <<page, script, doubt>> PROVE RowsInv'
  <1>1. /\ call \in CallState /\ call.step = "answered"
        /\ UNCHANGED <<profile, account, late>>
    BY DEF Inv, CallInv, CallOK, Receive, server
  <1>2. call.ran > 0 => call.reply = "ok" /\ call.phase # "refresh"
    BY <1>1 DEF Inv, CallInv, CallOK, CallState
  <1>3. SUFFICES /\ call'.req = call.req /\ call'.row = call.row /\ call'.ran = call.ran
                 /\ \/ Good(call)' /\ Good(call)
                    \/ ~Good(call)' /\ ~(call.reply = "ok" /\ call.phase # "refresh")
    <2>1. CallGoesOn
      BY <1>1, <1>2, <1>3 DEF CallGoesOn, RanInv
    <2> QED
      BY <1>1, <2>1, ClientRows
  <1>4. ASSUME NEW c \in CallState, c.req = call.req, c.row = call.row, c.ran = call.ran, Expire(c),
               ~(call.reply = "ok" /\ call.phase # "refresh")
        PROVE  /\ call'.req = call.req /\ call'.row = call.row /\ call'.ran = call.ran /\ ~Good(call)'
    <2>1. call' = Return(c, "expired")
      BY <1>4 DEF Expire
    <2> QED
      BY <1>4, <2>1, ReturnRow DEF Good
  <1>5. ASSUME NEW phase, call' = Send(call, phase)
        PROVE  /\ call'.req = call.req /\ call'.row = call.row /\ call'.ran = call.ran /\ ~Good(call)'
    BY <1>1, <1>5, SendRow DEF Good
  <1>6. CASE Reauthorize
    <2>1. call.reply = "unauthorized" /\ (Expire(call) \/ call' = Send(call, "refresh"))
      BY <1>6 DEF Reauthorize
    <2> QED
      BY <1>1, <1>4, <1>5, <2>1
  <1>7. CASE Retry
    <2>1. call.phase = "refresh" /\ call' = Send(call, "retry")
      BY <1>7 DEF Retry
    <2> QED
      BY <1>5, <2>1
  <1>8. CASE GoneForGood
    <2> DEFINE c == [call EXCEPT !.silent = @ \/ call.reply = "refused"]
    <2>1. c \in CallState /\ c.req = call.req /\ c.row = call.row /\ c.ran = call.ran
      BY <1>1 DEF CallState
    <2>2. Expire(c) /\ ~(call.reply = "ok" /\ call.phase # "refresh")
      BY <1>8 DEF GoneForGood
    <2> HIDE DEF c
    <2> QED
      BY <1>4, <2>1, <2>2
  <1>9. CASE Deliver
    <2>1. call.phase # "refresh" /\ call' = Return(call, IF call.reply = "ok" THEN "ok" ELSE "error")
      BY <1>9 DEF Deliver, Received
    <2>2. CASE call.reply = "ok"
      <3>1. call' = Return(call, "ok")
        BY <2>1, <2>2
      <3> QED
        BY <1>1, <2>1, <2>2, <3>1, ReturnRow DEF Good
    <2>3. CASE call.reply # "ok"
      <3>1. call' = Return(call, "error")
        BY <2>1, <2>3
      <3> QED
        BY <1>1, <2>3, <3>1, ReturnRow DEF Good
    <2> QED
      BY <2>2, <2>3
  <1> QED
    BY <1>6, <1>7, <1>8, <1>9 DEF Receive

LEMMA GiveUpRows ==
    ASSUME Inv, RowsInv, GiveUp, UNCHANGED <<page, script, doubt>> PROVE RowsInv'
  <1>1. /\ call \in CallState /\ call.step \in {"sent", "answered"} /\ call.sent > 0
        /\ UNCHANGED <<profile, account>>
    BY OutBounds DEF GiveUp, server, Nth
  <1>2. call.ran > 0 => call.phase # "refresh"
    BY <1>1 DEF Inv, CallInv, CallOK, CallState
  <1>3. \A r \in late' : r \in late \/ Real(r.row)
    <2>1. CASE call.step = "sent" /\ late' = late \cup {Outgoing}
      <3>1. Outgoing.row = NoRow \/ Outgoing.row = call.req.row
        BY <2>1, OutgoingRow
      <3>2. call.req.row \in {NoRow, page.profile, page.gap, page.roadmap}
        BY <1>1, Asked, StageRows, RowTypes DEF RowsInv, AsksOf
      <3>3. Real(Outgoing.row)
        BY <3>1, <3>2 DEF RowsInv, RealInv, Real
      <3> QED
        BY <2>1, <3>3
    <2> QED
      BY <2>1 DEF GiveUp
  <1> DEFINE c == [call EXCEPT !.silent = TRUE]
  <1>4. /\ c \in CallState /\ c.req = call.req /\ c.row = call.row /\ c.ran = call.ran
        /\ c.sent = call.sent /\ c.silent = TRUE
    BY <1>1 DEF CallState
  <1>5. call' = Return(c, IF call.phase = "refresh" THEN "expired" ELSE "error")
    BY DEF GiveUp, Expire
  <1> HIDE DEF c
  <1>6. /\ call'.req = call.req /\ call'.row = call.row /\ call'.ran = call.ran
        /\ call'.sent = call.sent /\ call'.silent /\ call'.step = "returned"
        /\ call'.result = IF call.phase = "refresh" THEN "expired" ELSE "error"
    BY <1>4, <1>5, ReturnRow
  <1>7. ~Good(call)'
    BY <1>6 DEF Good
  <1>8. RanInv'
    BY <1>1, <1>2, <1>6 DEF RanInv
  <1>9. CallGoesOn
    BY <1>3, <1>6, <1>7, <1>8 DEF CallGoesOn
  <1> QED
    BY <1>1, <1>9, ClientRows

LEMMA ClientStepRows ==
    ASSUME Inv, RowsInv, ClientStep PROVE RowsInv'
  BY WarmupRows, HandleAwaitedRows, ReceiveRows, GiveUpRows DEF ClientStep

-----------------------------------------------------------------------------
\* What the page shows when no call is under way.
Shown ==
    /\ Real(page.profile) /\ Real(page.gap) /\ Real(page.roadmap)
    /\ doubt = "none" =>
          /\ page.profile # NoRow => \/ ~Stored(page.profile.id)
                                     \/ profile[page.profile.id].skills = page.profile.skills
          /\ page.gap # NoRow => page.gap = page.profile
          /\ page.roadmap # NoRow => page.roadmap = page.gap

\* A step of the page leaves the rows and what is on its way alone.
Aside == UNCHANGED <<account, profile, late>>

LEMMA EnterRows ==
    ASSUME Inv, RowsInv, Aside, page' \in Page, Shown', NEW c, NEW s, Callable(s), Enter(page', c, s)
    PROVE  RowsInv'
  <1>1. /\ AskedInv' /\ call'.row = NoRow /\ call'.ran = 0
        /\ Good(call)' => call'.req.op = "logout"
    <2>1. CASE s.stage = "idle"
      <3>1. script'.stage = "idle" /\ call' = NoCall
        BY <2>1 DEF Enter, Idle
      <3> QED
        BY <3>1 DEF AskedInv, NoCall, Good
    <2>2. CASE s.stage # "idle"
      <3>1. script' = s /\ call' = Start(c, RequestOf(s, page'))
        BY <2>2 DEF Enter
      <3>2. Fresher(call', RequestOf(s, page'))
        BY <2>2, <3>1, RequestOfOK, StartRow
      <3> QED
        BY <2>2, <3>1, <3>2 DEF Fresher, AskedInv, Good
    <2> QED
      BY <2>1, <2>2
  <1>2. RealInv'
    BY <1>1 DEF Aside, RowsInv, RealInv, Real, Shown
  <1>3. RanInv'
    BY <1>1 DEF RanInv
  <1>4. CopyInv'
    BY DEF Shown, CopyInv
  <1>5. SavedInv' /\ DerivedInv'
    BY <1>1 DEF SavedInv, DerivedInv, Succeeded, Saves
  <1> QED
    BY <1>1, <1>2, <1>3, <1>4, <1>5 DEF RowsInv

LEMMA RunRows ==
    ASSUME Inv, RowsInv, Aside, page' \in Page, Shown', NEW s \in Script, Run(page', s),
           s.click \in {"login", "register"} => s.user \in User
    PROVE  RowsInv'
  <1> DEFINE r == [s EXCEPT !.stage = FromAuth(page', s.click)]
             c == Attached(page')
  <1>1. /\ FromAuth(page', s.click) \in Stages
        /\ FromAuth(page', s.click) = "auth" => s.click \in {"login", "register", "logout"}
    BY NextStages
  <1>2. Callable(r)
    BY <1>1 DEF Callable, Script
  <1>3. Enter(page', c, r)
    BY DEF Run
  <1> HIDE DEF r, c
  <1> QED
    BY <1>2, <1>3, EnterRows

\* The page has taken a result over, and runs again or goes on.
LEMMA TakenOverRows ==
    ASSUME Inv, RowsInv, Aside, GoodPage(page'), Shown',
           Rerun \/ \E stage \in Stages \ {"auth"} : GoOn(stage)
    PROVE  RowsInv'
  <1>1. page' \in Page
    BY DEF GoodPage
  <1>2. CASE Run(page', Idle)
    <2>1. Idle \in Script /\ Idle.click = "none"
      BY DEF Idle, Script, Stages, Clicks
    <2> QED
      BY <1>1, <1>2, <2>1, RunRows
  <1>3. ASSUME NEW stage \in Stages \ {"auth"}, Enter(page', client, [script EXCEPT !.stage = stage])
        PROVE  RowsInv'
    <2> DEFINE s == [script EXCEPT !.stage = stage]
    <2>1. Callable(s) /\ Enter(page', client, s)
      BY <1>3 DEF Callable, Script, Inv, PageInv
    <2> HIDE DEF s
    <2> QED
      BY <1>1, <2>1, EnterRows
  <1> QED
    BY <1>2, <1>3 DEF Rerun, GoOn

\* The tokens of the page change, and the rows do not.
LEMMA TokensOnly ==
    ASSUME NEW p \in Page
    PROVE  /\ Persisted(p).profile = p.profile /\ Persisted(p).gap = p.gap
           /\ Persisted(p).roadmap = p.roadmap
           /\ SignedOut(p).profile = p.profile /\ SignedOut(p).gap = p.gap
           /\ SignedOut(p).roadmap = p.roadmap
  BY DEF Persisted, SignedOut, Page

\* The rows of the page stay, after a call that has updated none.
LEMMA StillShown ==
    ASSUME Inv, RowsInv, Aside, doubt' = "none" => doubt = "none",
           page'.profile = page.profile, page'.gap = page.gap, page'.roadmap = page.roadmap,
           doubt' = "none" => call.req.op # "update_profile" \/ call.ran = 0
    PROVE  Shown'
  <1>1. Real(page.profile)' /\ Real(page.gap)' /\ Real(page.roadmap)'
    BY DEF Aside, RowsInv, RealInv, Real
  <1>2. call.ran = 0 => ~(call.ran > 0)
    OBVIOUS
  <1>3. ASSUME doubt' = "none"
        PROVE  /\ page.profile # NoRow => \/ ~Stored(page.profile.id)
                                          \/ profile[page.profile.id].skills = page.profile.skills
               /\ page.gap # NoRow => page.gap = page.profile
               /\ page.roadmap # NoRow => page.roadmap = page.gap
    BY <1>2, <1>3 DEF RowsInv, CopyInv
  <1> QED
    BY <1>1, <1>3 DEF Shown, Aside, Stored

LEMMA EndErrorRows ==
    ASSUME Inv, RowsInv, Aside, NEW op, NEW stage \in Stages \ {"auth"}, EndError(op, stage),
           doubt' = "none" => doubt = "none",
           doubt' = "none" => op # "update_profile" \/ call.ran = 0
    PROVE  RowsInv'
  <1>1. page' = Persisted(page) /\ GoodPage(page') /\ GoOn(stage) /\ call.req.op = op
    BY GoodNow DEF EndError, Returned
  <1>2. Shown'
    BY <1>1, RowTypes, TokensOnly, StillShown
  <1> QED
    BY <1>1, <1>2, TakenOverRows

LEMMA EndSignInRows ==
    ASSUME Inv, RowsInv, Aside, EndSignIn \/ EndSignOut \/ EndParseResume PROVE RowsInv'
  <1>1. /\ UNCHANGED doubt /\ call.req.op \in {"login", "register", "logout", "parse_resume"}
        /\ GoodPage(page')
    BY EndSignInOK, EndSignOutOK, EndParseResumeOK DEF EndSignIn, EndSignOut, EndParseResume, Returned
  <1>2. page'.profile = page.profile /\ page'.gap = page.gap /\ page'.roadmap = page.roadmap
    <2>1. CASE EndSignIn
      BY <2>1, RowTypes DEF EndSignIn, Page
    <2>2. CASE EndSignOut
      BY <2>2, RowTypes, TokensOnly DEF EndSignOut
    <2>3. CASE EndParseResume
      BY <2>3 DEF EndParseResume
    <2> QED
      BY <2>1, <2>2, <2>3
  <1>3. Shown'
    BY <1>1, <1>2, StillShown
  <1>4. Rerun \/ \E stage \in Stages \ {"auth"} : GoOn(stage)
    <2>1. "idle" \in Stages \ {"auth"} /\ FromForm(page, script.click) \in Stages \ {"auth"}
      BY NextStages DEF Stages
    <2> QED
      BY <2>1 DEF EndSignIn, EndSignOut, EndParseResume
  <1> QED
    BY <1>1, <1>3, <1>4, TakenOverRows

LEMMA EndExpiredRows == ASSUME Inv, RowsInv, Aside, EndExpired PROVE RowsInv'
  <1>1. UNCHANGED doubt /\ GoodPage(page') /\ page' = Persisted(SignedOut(page)) /\ Rerun
    BY EndSignOutOK DEF EndExpired
  <1>2. call.ran = 0
    <2>1. call.ran \in Nat /\ ~(call.ran > 0)
      BY RowTypes DEF EndExpired, RowsInv, RanInv, Good, CallState
    <2> QED
      BY <2>1
  <1>3. page'.profile = page.profile /\ page'.gap = page.gap /\ page'.roadmap = page.roadmap
    <2>1. SignedOut(page) \in Page
      BY GoodNow, SignedOutOK DEF GoodPage
    <2> QED
      BY <1>1, <2>1, RowTypes, TokensOnly
  <1>4. Shown'
    BY <1>1, <1>2, <1>3, StillShown
  <1> QED
    BY <1>1, <1>4, TakenOverRows

\* A save takes the stored row over, or learns nothing and says so.
LEMMA EndSaveRows == ASSUME Inv, RowsInv, Aside, EndSave PROVE RowsInv'
  <1>1. PICK op \in Saves :
            \/ /\ Returned(op) /\ Ok
               /\ page' = [Persisted(page) EXCEPT !.profile = call.row, !.gap = NoRow, !.roadmap = NoRow]
               /\ Rerun
               /\ doubt' = IF doubt = "overtaken" THEN "lost" ELSE "none"
            \/ /\ EndError(op, FromJobs(page))
               /\ doubt' = IF doubt # "none" \/ (call.silent /\ call.sent > 0) THEN "lost" ELSE "none"
    BY DEF EndSave, Saves
  <1>2. CASE /\ Returned(op) /\ Ok
             /\ page' = [Persisted(page) EXCEPT !.profile = call.row, !.gap = NoRow, !.roadmap = NoRow]
             /\ Rerun
             /\ doubt' = IF doubt = "overtaken" THEN "lost" ELSE "none"
    <2>1. Persisted(page) \in Page
      BY GoodNow DEF GoodPage
    <2>2. page'.profile = call.row /\ page'.gap = NoRow /\ page'.roadmap = NoRow
      BY <1>2, <2>1 DEF Page
    <2>3. Succeeded(Saves)
      BY <1>2 DEF Succeeded, Good, Returned, Ok
    <2>4. doubt # "overtaken" => ~Stored(call.row.id) \/ profile[call.row.id].skills = call.row.skills
      BY <2>3 DEF RowsInv, SavedInv
    <2>5. Real(page.profile)' /\ Real(page.gap)' /\ Real(page.roadmap)'
      BY <2>2 DEF Aside, RowsInv, RealInv, Real
    <2>6. Shown'
      BY <1>2, <2>2, <2>4, <2>5 DEF Shown, Aside, Stored
    <2>7. GoodPage(page')
      BY EndSaveOK
    <2> QED
      BY <1>2, <2>6, <2>7, TakenOverRows
  <1>3. CASE /\ EndError(op, FromJobs(page))
             /\ doubt' = IF doubt # "none" \/ (call.silent /\ call.sent > 0) THEN "lost" ELSE "none"
    <2>1. doubt' = "none" => doubt = "none" /\ ~(call.silent /\ call.sent > 0)
      BY <1>3
    <2>2. call.step = "returned" /\ call.result = "error" /\ call.ran \in Nat
      BY <1>3, RowTypes DEF EndError, Returned, CallState
    <2>3. ~Good(call)
      BY <2>2 DEF Good
    <2>4. doubt' = "none" => ~(call.ran > 0)
      BY <2>1, <2>3 DEF RowsInv, RanInv
    <2>5. doubt' = "none" => call.ran = 0
      BY <2>2, <2>4
    <2> QED
      BY <1>3, <2>1, <2>5, NextStages, EndErrorRows
  <1> QED
    BY <1>1, <1>2, <1>3

LEMMA EndJobsRows == ASSUME Inv, RowsInv, Aside, EndJobs PROVE RowsInv'
  <1>1. UNCHANGED doubt /\ call.req.op = "list_jobs"
    BY DEF EndJobs, EndError, Returned
  <1>2. CASE EndError("list_jobs", FromRoadmap(page, script.click))
    BY <1>1, <1>2, NextStages, EndErrorRows
  <1>3. CASE page' = Persisted(page) /\ GoOn(FromAnalyse(page, script.click))
    <2>1. Shown'
      BY <1>1, <1>3, RowTypes, TokensOnly, StillShown
    <2> QED
      BY <1>3, <2>1, EndJobsOK, NextStages, TakenOverRows
  <1> QED
    BY <1>2, <1>3 DEF EndJobs

\* What holds of the page's rows while no update has been done.
LEMMA RowsNow ==
    ASSUME Inv, RowsInv, call.req.op # "update_profile", doubt = "none"
    PROVE  /\ page.profile # NoRow => \/ ~Stored(page.profile.id)
                                      \/ profile[page.profile.id].skills = page.profile.skills
           /\ page.gap # NoRow => page.gap = page.profile
           /\ page.roadmap # NoRow => page.roadmap = page.gap
  BY DEF RowsInv, CopyInv

LEMMA EndAnalyseRows == ASSUME Inv, RowsInv, Aside, EndAnalyse PROVE RowsInv'
  <1>1. UNCHANGED doubt /\ call.req.op = "create_analysis" /\ GoodPage(page')
    BY EndAnalyseOK DEF EndAnalyse, EndError, Returned
  <1>2. CASE EndError("create_analysis", FromRoadmap(page, script.click))
    BY <1>1, <1>2, NextStages, EndErrorRows
  <1>3. CASE /\ Returned("create_analysis") /\ Ok
             /\ page' = [Persisted(page) EXCEPT !.gap = call.row, !.roadmap = NoRow] /\ Rerun
    <2>1. Persisted(page) \in Page /\ Persisted(page).profile = page.profile
      BY GoodNow, TokensOnly DEF GoodPage
    <2>2. page'.profile = page.profile /\ page'.gap = call.row /\ page'.roadmap = NoRow
      BY <1>3, <2>1 DEF Page
    <2>3. doubt = "none" => call.row = page.profile
      BY <1>3 DEF Succeeded, Good, Returned, Ok, RowsInv, DerivedInv
    <2>4. Real(page.profile)' /\ Real(page.gap)' /\ Real(page.roadmap)'
      BY <2>2 DEF Aside, RowsInv, RealInv, Real
    <2>5. Shown'
      BY <1>1, <2>2, <2>3, <2>4, RowsNow DEF Shown, Aside, Stored
    <2> QED
      BY <1>1, <1>3, <2>5, TakenOverRows
  <1> QED
    BY <1>2, <1>3 DEF EndAnalyse

LEMMA EndRoadmapRows == ASSUME Inv, RowsInv, Aside, EndRoadmap \/ EndDone PROVE RowsInv'
  <1>1. /\ UNCHANGED doubt /\ call.req.op \in {"create_roadmap", "update_resource"}
        /\ GoodPage(page') /\ "idle" \in Stages \ {"auth"}
    BY EndRoadmapOK DEF EndRoadmap, EndDone, EndError, Returned, Stages
  <1>2. CASE EndError("create_roadmap", "idle") \/ EndError("update_resource", "idle")
    BY <1>1, <1>2, EndErrorRows
  <1>3. CASE /\ call.step = "returned" /\ Ok /\ page' = [Persisted(page) EXCEPT !.roadmap = call.row]
             /\ Rerun \/ GoOn(FromDone(script.click))
    <2>1. Persisted(page) \in Page /\ Persisted(page).profile = page.profile /\ Persisted(page).gap = page.gap
      BY GoodNow, TokensOnly DEF GoodPage
    <2>2. page'.profile = page.profile /\ page'.gap = page.gap /\ page'.roadmap = call.row
      BY <1>3, <2>1 DEF Page
    <2>3. call.row = call.req.row
      BY <1>1, <1>3 DEF Succeeded, Good, Ok, RowsInv, DerivedInv
    <2>4. call.req.row = page.gap \/ call.req.row = page.roadmap
      BY <1>1, <1>3, Asked, StageRows, RowTypes DEF RowsInv, AsksOf
    <2>5. Real(page.profile)' /\ Real(page.gap)' /\ Real(page.roadmap)'
      BY <2>2 DEF Aside, RowsInv, RealInv, Real
    <2>6. Shown'
      BY <1>1, <2>2, <2>3, <2>4, <2>5, RowsNow DEF Shown, Aside, Stored
    <2> QED
      BY <1>1, <1>3, <2>6, NextStages, TakenOverRows
  <1> QED
    BY <1>2, <1>3 DEF EndRoadmap, EndDone, Returned

LEMMA ResumeRows == ASSUME Inv, RowsInv, Resume PROVE RowsInv'
  <1>1. Aside
    BY DEF Resume, server, Aside
  <1> QED
    BY <1>1, EndSignInRows, EndExpiredRows, EndSaveRows, EndJobsRows, EndAnalyseRows, EndRoadmapRows
    DEF Resume

LEMMA InteractRows == ASSUME Inv, RowsInv, NEW click \in Clicks, Interact(click) PROVE RowsInv'
  <1>1. PICK form \in SUBSET Skill, u \in User \cup {NoUser} :
            /\ click \in {"login", "register"} => u \in User
            /\ Run(page, [Idle EXCEPT !.click = click, !.form = form, !.user = u])
    <2>1. \E form \in (IF click = "save" THEN SUBSET Skill ELSE {{}}) :
          \E u \in (IF click \in {"login", "register"} THEN User ELSE {NoUser}) :
             Run(page, [Idle EXCEPT !.click = click, !.form = form, !.user = u])
      BY DEF Interact
    <2> QED
      BY <2>1
  <1> DEFINE s == [Idle EXCEPT !.click = click, !.form = form, !.user = u]
  <1>2. s \in Script /\ s.click = click /\ s.user = u
    BY DEF Idle, Script, Stages
  <1> HIDE DEF s
  <1>3. Run(page', s) /\ Aside /\ page' = page /\ UNCHANGED doubt
    BY <1>1 DEF s, Interact, Aside, server
  <1>4. call.ran = 0
    BY DEF Interact, RowsInv, AskedInv, NoCall
  <1>5. Shown'
    BY <1>3, <1>4, StillShown
  <1> QED
    BY <1>1, <1>2, <1>3, <1>5, RowTypes, RunRows

-----------------------------------------------------------------------------
\* An account is deleted, or the clock moves: rows only cease to be stored.
LEMMA OnlyGoneRows ==
    ASSUME Inv, RowsInv, Grows, UNCHANGED <<profile, call, late, page, script, doubt>> PROVE RowsInv'
  <1>1. \A row \in Row : Real(row) /\ row # NoRow /\ Stored(row.id)' => Stored(row.id)
    BY DEF Grows, Real, Row
  <1>2. AskedInv' /\ RealInv' /\ RanInv' /\ DerivedInv'
    BY DEF RowsInv, AskedInv, RealInv, Real, RanInv, DerivedInv, Succeeded, Good
  <1>3. CopyInv'
    <2>1. page.profile # NoRow /\ Stored(page.profile.id)' => Stored(page.profile.id)
      BY <1>1, RowTypes DEF RowsInv, RealInv
    <2> QED
      BY <2>1 DEF RowsInv, CopyInv
  <1>4. SavedInv'
    <2>1. call.row # NoRow /\ Stored(call.row.id)' => Stored(call.row.id)
      BY <1>1, RowTypes DEF RowsInv, RealInv
    <2> QED
      BY <2>1 DEF RowsInv, SavedInv, Succeeded, Good, Carries
  <1> QED
    BY <1>2, <1>3, <1>4 DEF RowsInv

LEMMA AroundClockRows ==
    ASSUME Inv, RowsInv, AroundClock, UNCHANGED <<page, script, doubt>> PROVE RowsInv'
  <1>1. UNCHANGED <<profile, call, late>>
    BY DEF AroundClock, AccessExpires, RefreshExpires, DeleteUser, server
  <1>2. \A u \in User : account[u] = "deleted" => account'[u] = "deleted"
    <2>1. CASE UNCHANGED account
      BY <2>1
    <2>2. ASSUME NEW u \in User, account' = [account EXCEPT ![u] = "deleted"]
          PROVE  \A v \in User : account[v] = "deleted" => account'[v] = "deleted"
      BY <2>2 DEF Inv, ApiInv
    <2> QED
      BY <2>1, <2>2 DEF AroundClock, AccessExpires, RefreshExpires, DeleteUser, server
  <1>3. Grows
    BY <1>1, <1>2, GrowsBy
  <1> QED
    BY <1>1, <1>3, OnlyGoneRows

\* A request that arrives late changes a row under the page: the page is in
\* doubt from then on, and a row just created is not the one it changes.
LEMMA HandleLateRows ==
    ASSUME Inv, RowsInv, NEW r \in late, HandleLate(r), UNCHANGED <<page, script>>,
           doubt' = IF profile' = profile THEN doubt
                    ELSE IF call.req.op = "update_profile" THEN "overtaken" ELSE "lost"
    PROVE  RowsInv'
  <1>1. Recorded(r, FALSE)
    BY HandleRecorded DEF HandleLate, Inv, LateInv
  <1>2. PICK kind, t, row : Reply(r, FALSE, kind, t, row) /\ RowTold(r, kind, row)
    BY <1>1 DEF Recorded
  <1>3. UNCHANGED call /\ late' \subseteq late
    BY <1>2 DEF Reply
  <1>4. Grows
    BY <1>1 DEF Recorded
  <1>5. \A q \in Row : Real(q) /\ q # NoRow /\ Stored(q.id)' => Stored(q.id)
    BY <1>4 DEF Grows, Real, Row
  <1>6. AskedInv' /\ RanInv'
    BY <1>3 DEF RowsInv, AskedInv, RanInv, Good
  <1>7. RealInv'
    BY <1>3, <1>4, RowTypes, RealKept DEF RowsInv, RealInv
  <1>8. doubt' = "none" => doubt = "none" /\ profile' = profile
    OBVIOUS
  <1>9. CopyInv'
    <2>1. page.profile # NoRow /\ Stored(page.profile.id)' => Stored(page.profile.id)
      BY <1>5, RowTypes DEF RowsInv, RealInv
    <2> QED
      BY <1>3, <1>8, <2>1 DEF RowsInv, CopyInv
  <1>10. DerivedInv'
    BY <1>3, <1>8 DEF RowsInv, DerivedInv, Succeeded, Good
  <1>11. SavedInv'
    <2> SUFFICES ASSUME Succeeded(Saves)
                 PROVE  /\ call.row # NoRow
                        /\ doubt' # "overtaken" \/ call.req.op = "create_profile" =>
                              ~Stored(call.row.id)' \/ profile'[call.row.id].skills = call.row.skills
                        /\ doubt' = "none" \/ call.req.op = "create_profile" => call.row.skills = script.form
                        /\ call.req.op = "update_profile" => Carries(call.row, call.req)
                        /\ call.req.op = "create_profile" =>
                              \A q \in late' : q.row # NoRow => q.row.id # call.row.id
      BY <1>3 DEF SavedInv, Succeeded, Good, Carries
    <2>1. /\ call.row # NoRow
          /\ doubt # "overtaken" \/ call.req.op = "create_profile" =>
                ~Stored(call.row.id) \/ profile[call.row.id].skills = call.row.skills
          /\ doubt = "none" \/ call.req.op = "create_profile" => call.row.skills = script.form
          /\ call.req.op = "update_profile" => Carries(call.row, call.req)
          /\ call.req.op = "create_profile" =>
                \A q \in late : q.row # NoRow => q.row.id # call.row.id
      BY DEF RowsInv, SavedInv
    <2>2. /\ call.row \in Row /\ call.row.id \in Profile /\ profile[call.row.id] # NoRow
          /\ Stored(call.row.id)' => Stored(call.row.id)
      <3>1. call.row \in Row /\ Real(call.row)
        BY <2>1, RowTypes DEF RowsInv, RealInv
      <3>2. Stored(call.row.id)' => Stored(call.row.id)
        BY <1>3, <1>5, <2>1, <3>1
      <3> QED
        BY <2>1, <3>1, <3>2 DEF Real, Row
    <2>3. CASE profile' = profile
      BY <1>3, <1>8, <2>1, <2>2, <2>3
    <2>4. CASE profile' # profile
      <3>1. doubt' # "none" /\ call.req.op \in Saves /\ (call.req.op = "update_profile" => doubt' = "overtaken")
        BY <2>4 DEF Succeeded
      <3>2. CASE call.req.op = "create_profile"
        <4>1. /\ kind = "ok" /\ r.op \in Saves
              /\ row.id # call.row.id => profile'[call.row.id] = profile[call.row.id]
          BY <1>2, <2>2, <2>4 DEF RowTold
        <4>2. row.id # call.row.id
          <5>1. CASE r.op = "create_profile"
            BY <1>2, <2>2, <4>1, <5>1 DEF RowTold
          <5>2. CASE r.op = "update_profile"
            BY <1>2, <2>1, <3>2, <4>1, <5>2 DEF RowTold
          <5> QED
            BY <4>1, <5>1, <5>2 DEF Saves
        <4> QED
          BY <1>3, <2>1, <2>2, <3>1, <3>2, <4>1, <4>2
      <3>3. CASE call.req.op = "update_profile"
        BY <2>1, <3>1, <3>3
      <3> QED
        BY <3>1, <3>2, <3>3 DEF Saves
    <2> QED
      BY <2>3, <2>4
  <1> QED
    BY <1>6, <1>7, <1>9, <1>10, <1>11 DEF RowsInv

LEMMA OutsideRows == ASSUME Inv, RowsInv, Outside PROVE RowsInv'
  <1>1. CASE AroundClock /\ UNCHANGED doubt
    BY <1>1, AroundClockRows DEF Outside
  <1>2. ASSUME NEW r \in late, HandleLate(r),
               doubt' = IF profile' = profile THEN doubt
                        ELSE IF call.req.op = "update_profile" THEN "overtaken" ELSE "lost"
        PROVE  RowsInv'
    BY <1>2, HandleLateRows DEF Outside
  <1> QED
    BY <1>1, <1>2 DEF Outside

LEMMA InitRows == Init => RowsInv
  <1> SUFFICES ASSUME Init PROVE RowsInv
    OBVIOUS
  <1>1. AskedInv /\ RealInv /\ RanInv
    BY DEF Init, ClientInit, Idle, NoCall, AskedInv, RealInv, Real, RanInv
  <1>2. CopyInv /\ SavedInv /\ DerivedInv
    BY DEF Init, ClientInit, NoCall, NoRequest, CopyInv, SavedInv, DerivedInv, Succeeded, Good
  <1> QED
    BY <1>1, <1>2 DEF RowsInv

LEMMA NextRows == ASSUME Inv, RowsInv, [Next]_vars PROVE RowsInv'
  <1>1. CASE UNCHANGED vars
    <2>1. /\ UNCHANGED <<account, profile, call, late>>
          /\ UNCHANGED <<page, script, doubt>>
      BY <1>1 DEF vars, clientVars, server
    <2>2. Grows
      BY <2>1, GrowsBy
    <2> QED
      BY <2>1, <2>2, OnlyGoneRows
  <1> QED
    BY <1>1, InteractRows, ClientStepRows, ResumeRows, OutsideRows DEF Next

LEMMA RowsAlways == Spec => [](Inv /\ RowsInv)
  <1>1. Init => Inv /\ RowsInv
    BY InitInv, InitRows
  <1>2. Inv /\ RowsInv /\ [Next]_vars => (Inv /\ RowsInv)'
    BY NextInv, NextRows
  <1> QED
    BY <1>1, <1>2, PTL DEF Spec

\* What the page shows is what the API stores, after any number of saves,
\* retries, lost replies and late arrivals that left no save in doubt: the
\* page never shows an analysis of another profile, nor a stale profile.
THEOREM PageShowsStored == Spec => []PageAgrees
  <1>1. Inv /\ RowsInv => PageAgrees
    <2> SUFFICES ASSUME RowsInv, doubt = "none", script.stage = "idle"
                 PROVE  /\ page.profile # NoRow => \/ ~Stored(page.profile.id)
                                                   \/ profile[page.profile.id].skills = page.profile.skills
                        /\ page.gap # NoRow => page.gap = page.profile
                        /\ page.roadmap # NoRow => page.roadmap = page.gap
      BY DEF PageAgrees
    <2>1. call.ran = 0
      BY DEF RowsInv, AskedInv, NoCall
    <2> QED
      BY <2>1 DEF RowsInv, CopyInv
  <1> QED
    BY <1>1, RowsAlways, PTL

\* A save that succeeds has stored every change to the skills the form came up
\* with, whatever was lost or arrived late before it; it has stored the form
\* itself when it creates the profile, or no save is in doubt.
THEOREM SavesTheForm == Spec => []FormIsSaved
  <1>1. Inv /\ RowsInv => FormIsSaved
    <2> SUFFICES ASSUME Inv, RowsInv, call.step = "returned", Ok, call.req.op \in Saves
                 PROVE  LET shown == IF page.profile = NoRow THEN {} ELSE page.profile.skills
                        IN  /\ script.form \ shown \subseteq call.row.skills
                            /\ (shown \ script.form) \cap call.row.skills = {}
                            /\ doubt = "none" \/ page.profile = NoRow => call.row.skills = script.form
      BY DEF FormIsSaved, Saves
    <2>1. /\ doubt = "none" \/ call.req.op = "create_profile" => call.row.skills = script.form
          /\ call.req.op = "update_profile" => Carries(call.row, call.req)
      BY DEF RowsInv, SavedInv, Succeeded, Good, Ok
    <2>2. AsksOf(call.req, page, script)
      BY Asked, StageRows, RowTypes DEF RowsInv
    <2>3. CASE call.req.op = "create_profile"
      BY <2>1, <2>2, <2>3 DEF AsksOf
    <2>4. CASE call.req.op = "update_profile"
      BY <2>1, <2>2, <2>4 DEF AsksOf, Carries
    <2> QED
      BY <2>3, <2>4 DEF Saves
  <1> QED
    BY <1>1, RowsAlways, PTL
=============================================================================
