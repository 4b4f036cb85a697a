----------------------------- MODULE OnlinePage -----------------------------
(***************************************************************************)
(* The online mode of app.py: the script Streamlit runs from the top at    *)
(* every interaction, over the ApiClient it keeps between the runs.  The   *)
(* script is sequential: it is in one stage, or blocked in one call.       *)
(***************************************************************************)
EXTENDS ApiClient

VARIABLES
    page,       \* st.session_state: the keys of _SESSION_KEYS that matter
    script,     \* the stage the script is in, the widget clicked, the form
    doubt       \* history: "lost", a save was given up and none has succeeded since;
                \* "overtaken", such a save was stored while another one was under way

vars == <<clientVars, page, script, doubt>>

\* auth: the sidebar; resume, form, jobs, analyse, roadmap, done: the widgets
\* further down, in the order of the script.
Stages == {"idle", "auth", "resume", "form", "jobs", "analyse", "roadmap", "done"}

Clicks == {"none", "login", "register", "logout", "extract", "save", "analyse", "done"}

\* A roadmap is kept as the analysis it was made for.
Page == [access : Token \cup {NoToken}, refresh : Token \cup {NoToken}, user : User \cup {NoUser},
         profile : Row \cup {NoRow}, gap : Row \cup {NoRow}, roadmap : Row \cup {NoRow}]

Script == [stage : Stages, click : Clicks, form : SUBSET Skill, user : User \cup {NoUser}]

Idle == [stage |-> "idle", click |-> "none", form |-> {}, user |-> NoUser]

Init ==
    /\ ClientInit
    /\ page = [access |-> NoToken, refresh |-> NoToken, user |-> NoUser,
               profile |-> NoRow, gap |-> NoRow, roadmap |-> NoRow]
    /\ script = Idle
    /\ doubt = "none"

SignedIn == page.user # NoUser

\* The job analysed asks for every skill.
Missing(gap) == gap # NoRow /\ gap.skills # Skill

\* The widgets the last run of the script left on the page.
Offered ==
    IF ~SignedIn THEN {"none", "login", "register"}
    ELSE {"none", "logout", "extract", "save"}
         \cup (IF page.profile # NoRow THEN {"analyse"} ELSE {})
         \cup (IF page.profile # NoRow /\ Missing(page.gap) /\ page.roadmap # NoRow THEN {"done"} ELSE {})

-----------------------------------------------------------------------------
(***************************************************************************)
(* One run of the script, from the top, with the widget that was clicked.  *)
(* A step takes it from one call to the API to the next, or to its end.    *)
(***************************************************************************)

\* The first call the script makes from a place on, given the page's state p.
FromDone(click) == IF click = "done" THEN "done" ELSE "idle"

\* _render_roadmap makes the roadmap of the analysis shown when there is none.
FromRoadmap(p, click) ==
    IF ~Missing(p.gap) THEN "idle"
    ELSE IF p.roadmap = NoRow THEN "roadmap" ELSE FromDone(click)

FromAnalyse(p, click) == IF click = "analyse" THEN "analyse" ELSE FromRoadmap(p, click)

\* The catalog is listed whenever there is a profile.
FromJobs(p) == IF p.profile = NoRow THEN "idle" ELSE "jobs"

FromForm(p, click) == IF click = "save" THEN "form" ELSE FromJobs(p)

FromResume(p, click) == IF click = "extract" THEN "resume" ELSE FromForm(p, click)

\* render_auth_sidebar, and the st.stop of a page nobody is signed in to.
FromAuth(p, click) ==
    IF click \in {"login", "register", "logout"} THEN "auth"
    ELSE IF p.user = NoUser THEN "idle" ELSE FromResume(p, click)

\* Mutant of SaveRequest: skills that were unticked are not sent.
SaveRequestAdds(p, form) ==
    IF p.profile = NoRow
    THEN [NoRequest EXCEPT !.op = "create_profile", !.add = form]
    ELSE [NoRequest EXCEPT !.op = "update_profile", !.row = p.profile, !.add = form \ p.profile.skills]

\* The form creates a profile, or sends what differs from the page's copy of it.
SaveRequest(p, form) ==
    IF p.profile = NoRow
    THEN [NoRequest EXCEPT !.op = "create_profile", !.add = form]
    ELSE [NoRequest EXCEPT !.op = "update_profile", !.row = p.profile,
                           !.add = form \ p.profile.skills, !.remove = p.profile.skills \ form]

RequestOf(s, p) ==
    CASE s.stage = "auth"    -> [NoRequest EXCEPT !.op = s.click, !.user = s.user]
      [] s.stage = "resume"  -> [NoRequest EXCEPT !.op = "parse_resume"]
      [] s.stage = "form"    -> SaveRequest(p, s.form)
      [] s.stage = "jobs"    -> [NoRequest EXCEPT !.op = "list_jobs"]
      [] s.stage = "analyse" -> [NoRequest EXCEPT !.op = "create_analysis", !.row = p.profile]
      [] s.stage = "roadmap" -> [NoRequest EXCEPT !.op = "create_roadmap", !.row = p.gap]
      [] s.stage = "done"    -> [NoRequest EXCEPT !.op = "update_resource", !.row = p.roadmap]

\* The script blocks in the call of stage s.stage, or ends.
Enter(p, c, s) ==
    /\ script' = IF s.stage = "idle" THEN Idle ELSE s
    /\ call' = IF s.stage = "idle" THEN NoCall ELSE Start(c, RequestOf(s, p))
    /\ client' = c

\* get_or_create_client: a run starts by handing the page's tokens to the client.
Attached(p) == [client EXCEPT !.access = p.access, !.refresh = p.refresh]

Run(p, s) == Enter(p, Attached(p), [s EXCEPT !.stage = FromAuth(p, s.click)])

Interact(click) ==
    /\ script.stage = "idle" /\ click \in Offered
    /\ \E form \in (IF click = "save" THEN SUBSET Skill ELSE {{}}) :
       \E u \in (IF click \in {"login", "register"} THEN User ELSE {NoUser}) :
          Run(page, [Idle EXCEPT !.click = click, !.form = form, !.user = u])
    /\ UNCHANGED <<server, stale, late, lost, page, doubt>>

-----------------------------------------------------------------------------
(***************************************************************************)
(* What the script does with the result of a call                          *)
(***************************************************************************)

Returned(op) == call.step = "returned" /\ call.req.op = op

Ok == call.result = "ok"

\* Mutant of Persisted: the page keeps the tokens it had.
PersistedNot(p) == p

\* _persist_tokens: the client's tokens, where it has any.
Persisted(p) == [p EXCEPT !.access  = IF client.access # NoToken THEN client.access ELSE @,
                          !.refresh = IF client.refresh # NoToken THEN client.refresh ELSE @]

\* Mutant of SignedOut: current_user is left behind.
SignedOutHalf(p) == [p EXCEPT !.access = NoToken, !.refresh = NoToken]

SignedOut(p) == [p EXCEPT !.access = NoToken, !.refresh = NoToken, !.user = NoUser]

\* st.rerun, or on with the same run.
Rerun == Run(page', Idle)
GoOn(stage) == Enter(page', client, [script EXCEPT !.stage = stage])

\* _login_form and _register_form.
EndSignIn ==
    /\ Returned("login") \/ Returned("register")
    /\ IF Ok
       THEN /\ page' = [page EXCEPT !.access = call.token, !.refresh = call.token, !.user = script.user]
            /\ Rerun
       ELSE UNCHANGED page /\ GoOn("idle")
    /\ UNCHANGED doubt

\* _handle_logout: whatever the API said, the keys are popped.
EndSignOut ==
    /\ Returned("logout")
    /\ page' = SignedOut(page)
    /\ Rerun
    /\ UNCHANGED doubt

EndParseResume ==
    /\ Returned("parse_resume")
    /\ UNCHANGED <<page, doubt>>
    /\ GoOn(FromForm(page, script.click))

\* _render_api_error of an AuthExpiredError, then st.rerun.
EndExpired ==
    /\ call.step = "returned" /\ call.result = "expired"
    /\ page' = Persisted(SignedOut(page))
    /\ Rerun
    /\ UNCHANGED doubt

\* Another error leaves the page as it is, and the section ends.
EndError(op, stage) ==
    /\ Returned(op) /\ call.result = "error"
    /\ page' = Persisted(page)
    /\ GoOn(stage)

\* Mutant of EndSave: the analysis and the roadmap stay.
EndSaveKeeps ==
    \E op \in {"create_profile", "update_profile"} :
        \/ /\ Returned(op) /\ Ok
           /\ page' = [Persisted(page) EXCEPT !.profile = call.row]
           /\ Rerun
           /\ doubt' = IF doubt = "overtaken" THEN "lost" ELSE "none"
        \/ /\ EndError(op, FromJobs(page))
           /\ doubt' = IF doubt # "none" \/ (call.silent /\ call.sent > 0) THEN "lost" ELSE "none"

\* A save invalidates the analysis and the roadmap.
EndSave ==
    \E op \in {"create_profile", "update_profile"} :
        \/ /\ Returned(op) /\ Ok
           /\ page' = [Persisted(page) EXCEPT !.profile = call.row, !.gap = NoRow, !.roadmap = NoRow]
           /\ Rerun
           /\ doubt' = IF doubt = "overtaken" THEN "lost" ELSE "none"
        \/ /\ EndError(op, FromJobs(page))
           /\ doubt' = IF doubt # "none" \/ (call.silent /\ call.sent > 0) THEN "lost" ELSE "none"

EndJobs ==
    /\ \/ /\ Returned("list_jobs") /\ Ok
          /\ page' = Persisted(page)
          /\ GoOn(FromAnalyse(page, script.click))
       \/ EndError("list_jobs", FromRoadmap(page, script.click))
    /\ UNCHANGED doubt

\* A new analysis busts the roadmap.
EndAnalyse ==
    /\ \/ /\ Returned("create_analysis") /\ Ok
          /\ page' = [Persisted(page) EXCEPT !.gap = call.row, !.roadmap = NoRow]
          /\ Rerun
       \/ EndError("create_analysis", FromRoadmap(page, script.click))
    /\ UNCHANGED doubt

EndRoadmap ==
    /\ \/ /\ Returned("create_roadmap") /\ Ok
          /\ page' = [Persisted(page) EXCEPT !.roadmap = call.row]
          /\ GoOn(FromDone(script.click))
       \/ EndError("create_roadmap", "idle")
    /\ UNCHANGED doubt

EndDone ==
    /\ \/ /\ Returned("update_resource") /\ Ok
          /\ page' = [Persisted(page) EXCEPT !.roadmap = call.row]
          /\ Rerun
       \/ EndError("update_resource", "idle")
    /\ UNCHANGED doubt

Resume ==
    /\ \/ EndSignIn \/ EndSignOut \/ EndParseResume \/ EndExpired
       \/ EndSave \/ EndJobs \/ EndAnalyse \/ EndRoadmap \/ EndDone
    /\ UNCHANGED <<server, stale, late, lost>>

-----------------------------------------------------------------------------

ClientStep == /\ Warmup \/ HandleAwaited \/ Receive \/ GiveUp
              /\ UNCHANGED <<page, script, doubt>>

Outside ==
    /\ \/ /\ AroundClock
          /\ UNCHANGED doubt
       \/ \E r \in late :
             /\ HandleLate(r)
             /\ doubt' = IF profile' = profile THEN doubt
                         ELSE IF call.req.op = "update_profile" THEN "overtaken" ELSE "lost"
    /\ UNCHANGED <<page, script>>

Next ==
    \/ \E click \in Clicks : Interact(click)
    \/ ClientStep
    \/ Resume
    \/ Outside

Spec == Init /\ [][Next]_vars

\* The script runs on by itself, and a request is handled, or its timeout
\* passes.  Nobody has to click, and a late request may never arrive.
FairSpec == Spec /\ WF_vars(ClientStep \/ Resume)

-----------------------------------------------------------------------------

\* Types of the state.
TypeOK ==
    /\ Server!TypeOK
    /\ holder \in [Token -> User \cup {NoUser}]
    /\ stale \subseteq Token /\ ended \subseteq Token
    /\ account \in [User -> {"none", "open", "deleted"}]
    /\ profile \in [Profile -> [user : User, skills : SUBSET Skill] \cup {NoRow}]
    /\ client \in [access : Token \cup {NoToken}, refresh : Token \cup {NoToken}, warm : BOOLEAN]
    /\ call \in CallState /\ late \subseteq Request /\ lost \in 0..MaxLost
    /\ page \in Page /\ script \in Script /\ doubt \in {"none", "lost", "overtaken"}

\* A call sends at most three requests, and its operation is done at most
\* once, whatever the network loses: ADR-020's P1, and what makes the retry
\* of _request safe for a POST.
CallIsBounded == call.sent <= 3 /\ call.ran <= 1

\* Somebody is signed in exactly when the page holds both tokens of one pair,
\* and the pair was minted for that account; the client has the same pair, a
\* later one of the same session, or none.
SessionInv ==
    /\ page.access = page.refresh
    /\ SignedIn <=> page.refresh # NoToken
    /\ SignedIn => holder[page.refresh] = page.user
    /\ client.access = client.refresh
    /\ client.refresh # NoToken => SignedIn /\ session[client.refresh] = session[page.refresh]
    /\ script.stage = "idle" => client.refresh \in {page.refresh, NoToken}

\* Between two interactions the page never sits on a spent refresh token,
\* unless the clock or an operator has ended it: every rotation reaches the
\* session state, on the error paths too, and a rotation whose reply is lost
\* signs the user out.  Each run ends before the next click here: Streamlit may
\* stop a run for a click during its call, and that run would not get to
\* _persist_tokens (app.py:371).
HeldTokenIsLive ==
    script.stage = "idle" /\ SignedIn => status[page.refresh] = "live" \/ page.refresh \in ended

\* A logout the API has answered ends the session the page was in, whatever the
\* client rotated, gave up or sent late before: no live token of the session is
\* left behind, in particular none a rotation minted that the page did not
\* take over (app.py:396, _handle_logout; api_client.py:337, logout).
LogoutEndsSession ==
    Returned("logout") /\ Ok /\ SignedIn => Server!Over(session[page.refresh])

\* No request the client has given up can still spend the token the page holds:
\* when a refresh gets no answer it may be on its way, which is why
\* api_client.py:585 clears the pair and does not keep it for another try.
LateSpendsElsewhere ==
    script.stage = "idle" /\ SignedIn =>
        \A r \in late : r.op \in {"refresh", "logout"} => r.token # page.refresh

\* A user who did not log out is signed out only when the session has ended,
\* or the API gave the refresh no usable answer: an access token that has
\* expired is invisible.
ExpiryIsInvisible ==
    [][SignedIn /\ ~SignedIn' =>
          \/ script.click = "logout"
          \/ call.silent
          \/ \E t \in ended : session[t] = session[page.refresh]]_vars

\* What the page shows is what the API stores: its profile is the row, its
\* analysis is of that profile, and its roadmap is of that analysis, unless a
\* save got no answer or the row is gone.
PageAgrees ==
    doubt = "none" /\ script.stage = "idle" =>
        /\ page.profile # NoRow => \/ ~Stored(page.profile.id)
                                   \/ profile[page.profile.id].skills = page.profile.skills
        /\ page.gap # NoRow => page.gap = page.profile
        /\ page.roadmap # NoRow => page.roadmap = page.gap

\* A save that succeeds has stored every change the user made to the skills the
\* form came up with, although it sends only these changes: what was ticked is
\* in the row answered, what was unticked is not.  The row is the form itself
\* when it creates the profile, and when no save is in doubt; the exception is
\* the save after one that was stored unanswered or late, where the page's copy
\* at app.py:654 is not the row and the rest of the row stays as it is.
FormIsSaved ==
    call.step = "returned" /\ Ok /\ call.req.op \in {"create_profile", "update_profile"} =>
        LET shown == IF page.profile = NoRow THEN {} ELSE page.profile.skills
        IN  /\ script.form \ shown \subseteq call.row.skills
            /\ (shown \ script.form) \cap call.row.skills = {}
            /\ doubt = "none" \/ page.profile = NoRow => call.row.skills = script.form

\* Every run of the script ends: the page never spins between reruns and
\* refreshes.
ScriptEnds == script.stage # "idle" ~> script.stage = "idle"
=============================================================================
