----------------------------- MODULE Resources -----------------------------
(***************************************************************************)
(* The handlers of app/api/v1/profiles.py, analyses.py and roadmaps.py     *)
(* over their repositories, call by call, inside the request-scoped        *)
(* session.  As in TokenRotation a SQL worker reads committed rows, holds  *)
(* its write until the teardown hook commits it, and waits for rows that   *)
(* another open transaction has written; a memory repository writes at     *)
(* once and keeps the owner of a row in a dictionary of its own.           *)
(***************************************************************************)
EXTENDS ResourceData

CONSTANTS
    Workers,        \* gunicorn workers (SQL) or server threads (memory)
    Backends,       \* the backends pick_backend may choose when the server starts
    Requests,       \* the endpoints the clients of a run call
    Environment     \* what the run lets happen around the handlers

Creations == {"create_profile", "create_analysis", "create_roadmap"}
Ops == Creations \cup {"get_profile", "patch_profile", "delete_profile",
                       "get_analysis", "patch_resource"}

Events == {"bad_shape",     \* the categorizer returns groups of another shape
           "statement",     \* a statement fails: lost connection, timeout
           "commit",        \* the commit of the teardown hook fails
           "crash"}         \* the worker dies in the middle of a request

ASSUME ConstantsAssumption ==
    /\ Backends \subseteq {"memory", "sqlite", "postgres"}
    /\ Requests \subseteq Ops
    /\ Environment \subseteq Events

VARIABLES
    backend,                        \* "memory", "sqlite" or "postgres"
    profile, analysis, roadmap,     \* the rows, or NoRow
    owner,      \* the user_id of a row; on memory the _owners dictionaries
    author,     \* history: the user whose request drew the id
    pc,         \* the next call of the worker's handler
    req,        \* the request a worker serves and what its handler knows
    dirty       \* whether its session holds an uncommitted write

store == <<profile, analysis, roadmap, owner>>
vars  == <<backend, store, author, pc, req, dirty>>

Sql == backend # "memory"

\* Mutant of ForeignKeys: the column is declared without its constraint.
NoForeignKeys == FALSE

\* build_engine switches foreign keys on nowhere, and SQLite has them off.
ForeignKeys == backend = "postgres"

Steps == {"idle", "read", "get", "select", "update", "disown", "delete", "insert",
          "own", "gate", "recheck", "teardown"}

Errors == {"NOT_FOUND", "PROFILE_INVALID", "PROFILE_NOT_FOUND", "JOB_NOT_FOUND",
           "ANALYSIS_NOT_FOUND", "ROADMAP_NOT_FOUND", "RESOURCE_NOT_FOUND",
           "INTERNAL_ERROR"}
Replies == {"none", "created", "ok", "no_content"} \cup Errors

Request == [op : Ops \cup {"none"},
            user : Users \cup {NoUser},
            id : Ids \cup {NoId},               \* the row it is about
            ref : Ids \cup {NoId},              \* the parent of the row it creates
            patch : Patches \cup {NoRow},
            resource : Skills \cup {NoSkill},
            completed : BOOLEAN,
            row : ProfileRow \cup {NoRow},      \* the profile to write
            base : ProfileRow \cup {NoRow},     \* the profile the session loaded
            done : SUBSET Skills,               \* the phases to write
            readable : BOOLEAN,                 \* the shape of the categorization
            reply : Replies]

NoRequest == [op |-> "none", user |-> NoUser, id |-> NoId, ref |-> NoId,
              patch |-> NoRow, resource |-> NoSkill, completed |-> FALSE,
              row |-> NoRow, base |-> NoRow, done |-> {}, readable |-> TRUE,
              reply |-> "none"]

\* Every variable has its type: the rows of app/db/models.py and the
\* requests of the three blueprints.
TypeOK ==
    /\ backend \in Backends
    /\ profile \in [Profiles -> ProfileRow \cup {NoRow}]
    /\ analysis \in [Analyses -> AnalysisRow \cup {NoRow}]
    /\ roadmap \in [Roadmaps -> RoadmapRow \cup {NoRow}]
    /\ owner \in [Ids -> Users \cup {NoUser}]
    /\ author \in [Ids -> Users \cup {NoUser}]
    /\ pc \in [Workers -> Steps]
    /\ req \in [Workers -> Request]
    /\ dirty \in [Workers -> BOOLEAN]

Init ==
    /\ backend \in Backends
    /\ profile = [p \in Profiles |-> NoRow]
    /\ analysis = [a \in Analyses |-> NoRow]
    /\ roadmap = [r \in Roadmaps |-> NoRow]
    /\ owner = [i \in Ids |-> NoUser]
    /\ author = [i \in Ids |-> NoUser]
    /\ pc = [w \in Workers |-> "idle"]
    /\ req = [w \in Workers |-> NoRequest]
    /\ dirty = [w \in Workers |-> FALSE]

-----------------------------------------------------------------------------
(***************************************************************************)
(* Helpers.                                                                *)
(***************************************************************************)

Drawn == {i \in Ids : author[i] # NoUser}

TableOf(op) == CASE op = "create_profile" -> Profiles
                 [] op = "create_analysis" -> Analyses
                 [] op = "create_roadmap" -> Roadmaps

\* uuid4().hex never repeats.
Fresh(op) == TableOf(op) \ Drawn

\* Bound.  A creation is accepted only while an id is left for it and for
\* every one under way.
RoomFor(op) ==
    Cardinality(Fresh(op)) >
        Cardinality({w \in Workers : req[w].op = op /\ req[w].id = NoId})

\* The resources of a roadmap stand for the missing skills of its analysis.
ResourcesOf(r) == analysis[roadmap[r].analysis].missing

\* Mutants of ProfileVisible, AnalysisVisible and RoadmapVisible: the lookup by
\* id alone, as before accounts.
ProfileOfAnyone(p, u)  == profile[p] # NoRow
AnalysisOfAnyone(a, u) == analysis[a] # NoRow
RoadmapOfAnyone(r, u)  == roadmap[r] # NoRow

\* The user a *_for_user query filters on: the column of the row, the
\* memory dictionary, or for a roadmap in SQL the join with its analysis.
ProfileVisible(p, u) == profile[p] # NoRow /\ owner[p] = u

AnalysisVisible(a, u) == analysis[a] # NoRow /\ owner[a] = u

RoadmapVisible(r, u) ==
    /\ roadmap[r] # NoRow
    /\ IF Sql THEN owner[roadmap[r].analysis] = u ELSE owner[r] = u

\* The flag of a resource is set or cleared.
Flagged(done, resource, completed) ==
    IF completed THEN done \cup {resource} ELSE done \ {resource}

\* The row locks a statement of w waits for.  PostgreSQL locks the row a
\* transaction wrote, and lets an INSERT that refers to a row share it with
\* updates but not with its deletion; SQLite locks the file.
Writing(w, ops, i) ==
    \E v \in Workers \ {w} : /\ dirty[v]
                             /\ backend = "sqlite" \/ (req[v].op \in ops /\ req[v].id = i)

\* Mutant of Referring: the INSERT of an analysis takes no lock on its profile.
ReferringUnlocked(w, p) == FALSE

Referring(w, p) ==
    \E v \in Workers \ {w} : dirty[v] /\ req[v].op = "create_analysis" /\ req[v].ref = p

\* The backend is the server's for as long as it runs.
Goto(w, step) == pc' = [pc EXCEPT ![w] = step] /\ UNCHANGED backend

\* A call that only reads, or touches the worker's own request.
ReadOnly == UNCHANGED <<store, author, dirty>>

\* The handler returns, or raises an ApiError that the error handler answers.
Answer(w, reply) ==
    /\ Goto(w, "teardown")
    /\ req' = [req EXCEPT ![w].reply = reply]

\* The write of w waits in its transaction.
Write(w) ==
    /\ dirty' = [dirty EXCEPT ![w] = TRUE]
    /\ UNCHANGED store

\* Mutant of Fail: the statement is tried again, for ever.
FailRetried(w) ==
    /\ Goto(w, pc[w])
    /\ UNCHANGED req
    /\ ReadOnly

\* A flush raises: the transaction is rolled back and the catch-all error
\* handler answers 500.
Fail(w) ==
    /\ Answer(w, "INTERNAL_ERROR")
    /\ dirty' = [dirty EXCEPT ![w] = FALSE]
    /\ UNCHANGED <<store, author>>

\* require_auth has resolved the user; the body has been validated.
Begin(w, op, step, r) ==
    /\ pc[w] = "idle"
    /\ op \in Requests
    /\ op \in Creations => RoomFor(op)
    /\ Goto(w, step)
    /\ req' = [req EXCEPT ![w] = [r EXCEPT !.op = op]]
    /\ ReadOnly

At(w, step, ops) == pc[w] = step /\ req[w].op \in ops

-----------------------------------------------------------------------------
(***************************************************************************)
(* The requests                                                            *)
(***************************************************************************)

\* create_profile has accepted the fields: an invalid body changes nothing.
StartCreateProfile(w, u) ==
    \E row \in ProfileRow :
        /\ ValidSkills(row.skills)
        /\ Begin(w, "create_profile", "insert", [NoRequest EXCEPT !.user = u, !.row = row])

StartProfile(w, u, p) ==
    LET r == [NoRequest EXCEPT !.user = u, !.id = p]
    IN  \/ Begin(w, "get_profile", "read", r)
        \/ \E patch \in Patches : Begin(w, "patch_profile", "get", [r EXCEPT !.patch = patch])
        \/ Begin(w, "delete_profile", "select", r)
        \/ Begin(w, "create_analysis", "get", [NoRequest EXCEPT !.user = u, !.ref = p])

StartAnalysis(w, u, a) ==
    \/ Begin(w, "get_analysis", "read", [NoRequest EXCEPT !.user = u, !.id = a])
    \/ Begin(w, "create_roadmap", "get", [NoRequest EXCEPT !.user = u, !.ref = a])

StartRoadmap(w, u, r) ==
    \E s \in Skills, c \in BOOLEAN :
        Begin(w, "patch_resource", "gate",
              [NoRequest EXCEPT !.user = u, !.id = r, !.resource = s, !.completed = c])

-----------------------------------------------------------------------------
(***************************************************************************)
(* Profiles                                                                *)
(***************************************************************************)

GetProfile(w) ==
    /\ At(w, "read", {"get_profile"})
    /\ Answer(w, IF ProfileVisible(req[w].id, req[w].user) THEN "ok" ELSE "NOT_FOUND")
    /\ ReadOnly

\* get_for_user and the new row patch_profile_handler computes from it.
GetForPatch(w) ==
    /\ At(w, "get", {"patch_profile"})
    /\ \/ /\ ~ProfileVisible(req[w].id, req[w].user)
          /\ Answer(w, "NOT_FOUND")
       \/ /\ ProfileVisible(req[w].id, req[w].user)
          /\ LET row == Patched(profile[req[w].id], req[w].patch)
             IN  \/ /\ ~ValidSkills(row.skills)
                    /\ Answer(w, "PROFILE_INVALID")
                 \/ /\ ValidSkills(row.skills)
                    /\ Goto(w, IF Sql THEN "select" ELSE "update")
                    /\ req' = [req EXCEPT ![w].row = row]
    /\ ReadOnly

\* The SELECT of the SQL update_for_user and delete_for_user; on memory the
\* owner check of delete_for_user.
SelectProfile(w) ==
    /\ At(w, "select", {"patch_profile", "delete_profile"})
    /\ \/ /\ ~ProfileVisible(req[w].id, req[w].user)
          /\ Answer(w, "NOT_FOUND")
       \/ /\ ProfileVisible(req[w].id, req[w].user)
          /\ Goto(w, IF req[w].op = "patch_profile" THEN "update"
                     ELSE IF Sql THEN "delete" ELSE "disown")
          /\ req' = [req EXCEPT ![w].base = profile[req[w].id]]
    /\ ReadOnly

\* The UPDATE of the flush waits for the row, and finds it or not.
UpdateProfileSql(w) ==
    /\ Sql
    /\ At(w, "update", {"patch_profile"})
    /\ ~Writing(w, {"patch_profile", "delete_profile"}, req[w].id)
    /\ profile[req[w].id] # NoRow
    /\ Write(w)
    /\ Answer(w, "ok")
    /\ UNCHANGED author

\* The row is gone: StaleDataError.
UpdateProfileFails(w) ==
    /\ Sql
    /\ At(w, "update", {"patch_profile"})
    /\ profile[req[w].id] = NoRow
    /\ Fail(w)

\* The memory update replaces the whole record, under the lock.
UpdateProfileMemory(w) ==
    /\ ~Sql
    /\ At(w, "update", {"patch_profile"})
    /\ \/ /\ ~ProfileVisible(req[w].id, req[w].user)
          /\ Answer(w, "NOT_FOUND")
          /\ UNCHANGED profile
       \/ /\ ProfileVisible(req[w].id, req[w].user)
          /\ profile' = [profile EXCEPT ![req[w].id] = req[w].row]
          /\ Answer(w, "ok")
    /\ UNCHANGED <<analysis, roadmap, owner, author, dirty>>

\* The DELETE waits for the row and for INSERTs that refer to it; that
\* another DELETE came first is only a warning.
DeleteProfileSql(w) ==
    /\ At(w, "delete", {"delete_profile"})
    /\ Sql
    /\ ~Writing(w, {"patch_profile", "delete_profile"}, req[w].id)
    /\ ForeignKeys => ~Referring(w, req[w].id)
    /\ Write(w)
    /\ Answer(w, "no_content")
    /\ UNCHANGED author

\* Mutant of DisownProfile: the owner stays in the dictionary.
DisownLater(w) ==
    /\ At(w, "disown", {"delete_profile"})
    /\ Goto(w, "delete")
    /\ UNCHANGED req
    /\ ReadOnly

\* The memory delete drops the owner, then the record.
DisownProfile(w) ==
    /\ At(w, "disown", {"delete_profile"})
    /\ owner' = [owner EXCEPT ![req[w].id] = NoUser]
    /\ Goto(w, "delete")
    /\ UNCHANGED <<profile, analysis, roadmap, author, req, dirty>>

DeleteProfileMemory(w) ==
    /\ At(w, "delete", {"delete_profile"})
    /\ ~Sql
    /\ Answer(w, IF profile[req[w].id] = NoRow THEN "NOT_FOUND" ELSE "no_content")
    /\ profile' = [profile EXCEPT ![req[w].id] = NoRow]
    /\ UNCHANGED <<analysis, roadmap, owner, author, dirty>>

-----------------------------------------------------------------------------
(***************************************************************************)
(* Analyses                                                                *)
(***************************************************************************)

\* The response schema refuses groups of another shape.
GetAnalysis(w) ==
    /\ At(w, "read", {"get_analysis"})
    /\ Answer(w, IF ~AnalysisVisible(req[w].id, req[w].user) THEN "ANALYSIS_NOT_FOUND"
                 ELSE IF analysis[req[w].id].readable THEN "ok" ELSE "INTERNAL_ERROR")
    /\ ReadOnly

\* The model's answer may parse and still have groups of another shape.
Shapes == IF "bad_shape" \in Environment THEN BOOLEAN ELSE {TRUE}

\* The profile, then the job, then the gap and its categorization.
GetForAnalysis(w) ==
    /\ At(w, "get", {"create_analysis"})
    /\ \/ /\ ~ProfileVisible(req[w].ref, req[w].user)
          /\ Answer(w, "PROFILE_NOT_FOUND")
       \/ /\ ProfileVisible(req[w].ref, req[w].user)
          /\ \/ Answer(w, "JOB_NOT_FOUND")
             \/ /\ Goto(w, "insert")
                /\ \E readable \in Shapes :
                      req' = [req EXCEPT ![w].row = profile[req[w].ref],
                                         ![w].readable = readable]
    /\ ReadOnly

-----------------------------------------------------------------------------
(***************************************************************************)
(* Roadmaps                                                                *)
(***************************************************************************)

\* analysis_record_from_row raises on groups that are no mapping.
GetForRoadmap(w) ==
    /\ At(w, "get", {"create_roadmap"})
    /\ \/ /\ ~AnalysisVisible(req[w].ref, req[w].user)
          /\ Answer(w, "ANALYSIS_NOT_FOUND")
       \/ /\ AnalysisVisible(req[w].ref, req[w].user)
          /\ \/ /\ Sql /\ ~analysis[req[w].ref].readable
                /\ Answer(w, "INTERNAL_ERROR")
             \/ /\ Goto(w, "insert")
                /\ UNCHANGED req
    /\ ReadOnly

\* The ownership gate of update_resource_for_user.
GateResource(w) ==
    /\ At(w, "gate", {"patch_resource"})
    /\ Goto(w, IF ~RoadmapVisible(req[w].id, req[w].user) THEN "recheck"
               ELSE IF Sql THEN "select" ELSE "update")
    /\ UNCHANGED req
    /\ ReadOnly

\* The SQL update_resource loads the phases and sets the flag in its copy.
SelectRoadmap(w) ==
    /\ At(w, "select", {"patch_resource"})
    /\ LET r == roadmap[req[w].id]
       IN  \/ /\ req[w].resource \notin ResourcesOf(req[w].id)
              /\ Goto(w, "recheck")
              /\ UNCHANGED req
           \/ /\ req[w].resource \in ResourcesOf(req[w].id)
              /\ Goto(w, "update")
              /\ req' = [req EXCEPT ![w].done =
                            Flagged(r.done, req[w].resource, req[w].completed)]
    /\ ReadOnly

\* Mutant of UpdateRoadmapSql: without flag_modified nothing is written.
UpdateUnflagged(w) ==
    /\ Sql
    /\ At(w, "update", {"patch_resource"})
    /\ Answer(w, "ok")
    /\ ReadOnly

\* flag_modified: the UPDATE writes the whole phases column.
UpdateRoadmapSql(w) ==
    /\ Sql
    /\ At(w, "update", {"patch_resource"})
    /\ ~Writing(w, {"patch_resource"}, req[w].id)
    /\ Write(w)
    /\ Answer(w, "ok")
    /\ UNCHANGED author

\* The memory update_resource finds and sets the flag under its lock.
UpdateRoadmapMemory(w) ==
    /\ ~Sql
    /\ At(w, "update", {"patch_resource"})
    /\ LET r == req[w].id
           s == req[w].resource
       IN  \/ /\ s \notin ResourcesOf(r)
              /\ Goto(w, "recheck")
              /\ UNCHANGED <<roadmap, req>>
           \/ /\ s \in ResourcesOf(r)
              /\ roadmap' = [roadmap EXCEPT ![r].done = Flagged(@, s, req[w].completed)]
              /\ Answer(w, "ok")
    /\ UNCHANGED <<profile, analysis, owner, author, dirty>>

\* patch_resource_handler asks again which of the two it has not found.
Recheck(w) ==
    /\ At(w, "recheck", {"patch_resource"})
    /\ Answer(w, IF RoadmapVisible(req[w].id, req[w].user) THEN "RESOURCE_NOT_FOUND"
                 ELSE "ROADMAP_NOT_FOUND")
    /\ ReadOnly

-----------------------------------------------------------------------------
(***************************************************************************)
(* create_for_user of the three repositories                               *)
(***************************************************************************)

\* The row w creates.
NewAnalysis(w) == [profile |-> req[w].ref, missing |-> Missing(req[w].row),
                   readable |-> req[w].readable]
NewRoadmap(w)  == [analysis |-> req[w].ref, done |-> {}]

\* The response is built after the row was stored: what it refuses is stored
\* all the same.
Serialized(w) == IF req[w].readable THEN "created" ELSE "INTERNAL_ERROR"

\* The id is drawn; the INSERT of an analysis waits while its profile is
\* being deleted.
InsertSql(w) ==
    /\ Sql
    /\ At(w, "insert", Creations)
    /\ ~Writing(w, IF ForeignKeys THEN {"delete_profile"} ELSE {}, req[w].ref)
    /\ ForeignKeys /\ req[w].op = "create_analysis" => profile[req[w].ref] # NoRow
    /\ \E i \in Fresh(req[w].op) :
          /\ author' = [author EXCEPT ![i] = req[w].user]
          /\ req' = [req EXCEPT ![w] = [@ EXCEPT !.id = i, !.reply = Serialized(w)]]
    /\ Goto(w, "teardown")
    /\ Write(w)

\* The profile was deleted since the handler read it: IntegrityError.
InsertFails(w) ==
    /\ ForeignKeys
    /\ At(w, "insert", {"create_analysis"})
    /\ profile[req[w].ref] = NoRow
    /\ Fail(w)

\* create: the record is stored, nobody owns it yet.
InsertMemory(w) ==
    /\ ~Sql
    /\ At(w, "insert", Creations)
    /\ \E i \in Fresh(req[w].op) :
          /\ author' = [author EXCEPT ![i] = req[w].user]
          /\ req' = [req EXCEPT ![w].id = i]
          /\ profile' = IF i \in Profiles THEN [profile EXCEPT ![i] = req[w].row] ELSE profile
          /\ analysis' = IF i \in Analyses THEN [analysis EXCEPT ![i] = NewAnalysis(w)] ELSE analysis
          /\ roadmap' = IF i \in Roadmaps THEN [roadmap EXCEPT ![i] = NewRoadmap(w)] ELSE roadmap
    /\ Goto(w, "own")
    /\ UNCHANGED <<owner, dirty>>

\* The owner is stored, under a second acquisition of the lock.
Own(w) ==
    /\ At(w, "own", Creations)
    /\ owner' = [owner EXCEPT ![req[w].id] = req[w].user]
    /\ Answer(w, Serialized(w))
    /\ UNCHANGED <<profile, analysis, roadmap, author, dirty>>

-----------------------------------------------------------------------------
(***************************************************************************)
(* The end of a request                                                    *)
(***************************************************************************)

Writes(w, op, i) == dirty[w] /\ req[w].op = op /\ req[w].id = i

\* The UPDATE of a profile names the columns that differ from what the
\* session loaded; the other columns keep what the row holds.
Merged(w, row) ==
    [name   |-> IF req[w].row.name # req[w].base.name THEN req[w].row.name ELSE row.name,
     skills |-> IF req[w].row.skills # req[w].base.skills THEN req[w].row.skills ELSE row.skills]

\* session.commit().  A deleted profile is unlinked from its analyses where
\* foreign keys are enforced (ON DELETE SET NULL).
Commit(w) ==
    /\ profile' = [p \in Profiles |->
          IF Writes(w, "create_profile", p) THEN req[w].row
          ELSE IF Writes(w, "patch_profile", p) THEN Merged(w, profile[p])
          ELSE IF Writes(w, "delete_profile", p) THEN NoRow
          ELSE profile[p]]
    /\ analysis' = [a \in Analyses |->
          IF Writes(w, "create_analysis", a) THEN NewAnalysis(w)
          ELSE IF /\ ForeignKeys /\ dirty[w] /\ req[w].op = "delete_profile"
                  /\ analysis[a] # NoRow /\ analysis[a].profile = req[w].id
               THEN [analysis[a] EXCEPT !.profile = NoId]
          ELSE analysis[a]]
    /\ roadmap' = [r \in Roadmaps |->
          IF Writes(w, "create_roadmap", r) THEN NewRoadmap(w)
          ELSE IF Writes(w, "patch_resource", r) THEN [roadmap[r] EXCEPT !.done = req[w].done]
          ELSE roadmap[r]]
    /\ owner' = [i \in Ids |->
          IF i \in Profiles \cup Analyses /\ \E op \in Creations : Writes(w, op, i) THEN req[w].user
          ELSE IF Writes(w, "delete_profile", i) THEN NoUser
          ELSE owner[i]]

\* The session is closed and the worker takes its next request.
Finish(w) ==
    /\ Goto(w, "idle")
    /\ req' = [req EXCEPT ![w] = NoRequest]
    /\ dirty' = [dirty EXCEPT ![w] = FALSE]
    /\ UNCHANGED author

\* The hook commits whatever the reply, since no exception reaches it.
Teardown(w) ==
    /\ pc[w] = "teardown"
    /\ Commit(w)
    /\ Finish(w)

\* A failed commit, logged only, or a dead worker: the write is lost.  Below
\* the memory repositories nothing fails.
TeardownCommitFails(w) ==
    /\ Sql
    /\ "commit" \in Environment
    /\ pc[w] = "teardown"
    /\ Finish(w)
    /\ UNCHANGED store

Crash(w) ==
    /\ Sql
    /\ "crash" \in Environment
    /\ pc[w] # "idle"
    /\ Finish(w)
    /\ UNCHANGED store

StatementFails(w) ==
    /\ Sql
    /\ "statement" \in Environment
    /\ pc[w] \notin {"idle", "teardown"}
    /\ Fail(w)

-----------------------------------------------------------------------------

\* A client names any row whose id was ever drawn, its own or not.
Start(w) ==
    \E u \in Users :
        \/ StartCreateProfile(w, u)
        \/ \E p \in Profiles \cap Drawn : StartProfile(w, u, p)
        \/ \E a \in Analyses \cap Drawn : StartAnalysis(w, u, a)
        \/ \E r \in Roadmaps \cap Drawn : StartRoadmap(w, u, r)

Step(w) ==
    \/ GetProfile(w) \/ GetForPatch(w) \/ SelectProfile(w)
    \/ UpdateProfileSql(w) \/ UpdateProfileFails(w) \/ UpdateProfileMemory(w)
    \/ DeleteProfileSql(w) \/ DisownProfile(w) \/ DeleteProfileMemory(w)
    \/ GetAnalysis(w) \/ GetForAnalysis(w) \/ GetForRoadmap(w)
    \/ GateResource(w) \/ SelectRoadmap(w) \/ Recheck(w)
    \/ UpdateRoadmapSql(w) \/ UpdateRoadmapMemory(w)
    \/ InsertSql(w) \/ InsertFails(w) \/ InsertMemory(w) \/ Own(w)
    \/ Teardown(w)

Fault(w) == TeardownCommitFails(w) \/ Crash(w) \/ StatementFails(w)

Next == \E w \in Workers : Start(w) \/ Step(w) \/ Fault(w)

Spec == Init /\ [][Next]_vars

\* A running handler goes on, and a statement that waits for a lock gets it
\* in its turn.
Fairness == \A w \in Workers : /\ WF_vars(Step(w))
                               /\ SF_vars(UpdateProfileSql(w))
                               /\ SF_vars(DeleteProfileSql(w))
                               /\ SF_vars(UpdateRoadmapSql(w))
                               /\ SF_vars(InsertSql(w))

FairSpec == Spec /\ Fairness

-----------------------------------------------------------------------------
(***************************************************************************)
(* Properties                                                              *)
(***************************************************************************)

Succeeded(w) == req[w].reply \in {"ok", "created", "no_content"}

\* What a request about a row that does not exist may be answered.
Concealing == {"none", "NOT_FOUND", "PROFILE_NOT_FOUND", "ANALYSIS_NOT_FOUND",
               "ROADMAP_NOT_FOUND", "INTERNAL_ERROR"}

\* No user learns that a row of another user exists, let alone what is in
\* it, nor derives a row from it: any other reply is about rows its user
\* drew (ADR-015, the *_for_user methods).
RepliesAreOwn ==
    \A w \in Workers : req[w].reply \notin Concealing =>
        /\ req[w].id # NoId => author[req[w].id] = req[w].user
        /\ req[w].ref # NoId => author[req[w].ref] = req[w].user

\* Who owns a row never changes hands, and what hangs together (a profile,
\* its analyses, their roadmaps) is one user's.
OwnershipInv ==
    /\ \A i \in Ids : owner[i] \in {NoUser, author[i]}
    /\ \A a \in Analyses : analysis[a] # NoRow =>
          /\ author[a] # NoUser
          /\ analysis[a].profile # NoId => author[analysis[a].profile] = author[a]
    /\ \A r \in Roadmaps : roadmap[r] # NoRow =>
          author[r] # NoUser /\ author[roadmap[r].analysis] = author[r]

\* A request changes rows of its own user only.
WritesAreOwn ==
    [][\A w \in Workers : pc'[w] # pc[w] =>
          /\ \A p \in Profiles : profile'[p] # profile[p] => author'[p] = req[w].user
          /\ \A a \in Analyses : analysis'[a] # analysis[a] => author'[a] = req[w].user
          /\ \A r \in Roadmaps : roadmap'[r] # roadmap[r] => author'[r] = req[w].user]_vars

\* On the deployed backend an analysis names a profile that is there, or
\* none (AnalysisORM: "analyses survive profile deletion but lose the link").
LinksHold ==
    \A a \in Analyses : backend = "postgres" /\ analysis[a] # NoRow =>
        analysis[a].profile = NoId \/ profile[analysis[a].profile] # NoRow

\* What a step of w writes for a PATCH is what the PATCH names.
NamesWhatChanges(w) ==
    /\ \A p \in Profiles :
          LET old == profile[p]
              new == profile'[p]
              patch == req[w].patch
          IN  req[w].op = "patch_profile" /\ new # old =>
                  /\ patch.name = NoName => new.name = old.name
                  /\ new.skills \ old.skills \subseteq patch.add
                  /\ old.skills \ new.skills \subseteq patch.remove
    /\ \A r \in Roadmaps :
          LET old == roadmap[r].done
              new == roadmap'[r].done
          IN  req[w].op = "patch_resource" /\ roadmap'[r] # roadmap[r] =>
                  (new \ old) \cup (old \ new) \subseteq {req[w].resource}

PatchesNameTheirChanges ==
    \A w \in Workers : pc'[w] # pc[w] => NamesWhatChanges(w)

\* A PATCH changes nothing it does not name: neither another column or
\* skill of the profile, nor another resource of the roadmap.
PatchesAreLocal == [][PatchesNameTheirChanges]_vars

\* What a success reports is stored by the time it leaves: the new or the
\* changed row is there, the flag has its value, the deleted row is gone.  (On memory another
\* thread may have changed it again by then.)
SuccessIsStored ==
    [][\A w \in Workers : Sql /\ pc[w] = "teardown" /\ pc'[w] = "idle" /\ Succeeded(w) =>
          LET i == req[w].id
          IN  CASE req[w].op = "create_profile" -> profile'[i] = req[w].row
                [] req[w].op = "create_analysis" -> analysis'[i].profile = req[w].ref
                [] req[w].op = "create_roadmap" -> roadmap'[i].analysis = req[w].ref
                [] req[w].op = "patch_profile" -> profile'[i] # NoRow
                [] req[w].op = "delete_profile" -> profile'[i] = NoRow
                [] req[w].op = "patch_resource" ->
                       (req[w].resource \in roadmap'[i].done) = req[w].completed
                [] OTHER -> TRUE]_vars

\* A request that is answered 500 leaves the store as it was (ADR-009:
\* "rollback happens automatically").
ErrorsStoreNothing ==
    [][\A w \in Workers : pc'[w] # pc[w] /\ req[w].reply = "INTERNAL_ERROR"
          => UNCHANGED store]_vars

\* Every accepted request is answered.
RequestsAreAnswered == \A w \in Workers : pc[w] # "idle" ~> pc[w] = "idle"

-----------------------------------------------------------------------------
(***************************************************************************)
(* The inductive invariants behind the safety properties                   *)
(***************************************************************************)

\* The next call s, the request r and the write flag d of a worker fit
\* together: what a handler has in its hands at each call.
Fits(r, s, d) ==
    /\ r \in Request /\ s \in Steps /\ d \in BOOLEAN
    /\ s = "idle" => r = NoRequest
    /\ s # "idle" => r.op \in Ops /\ r.user \in Users
    /\ s # "teardown" => ~d /\ r.reply = "none"
    /\ d => Sql
    /\ s \in {"own", "disown"} => ~Sql
    /\ r.op \notin Creations => r.ref = NoId
    /\ r.op = "create_profile" => r.ref = NoId /\ r.row \in ProfileRow
    /\ r.op = "create_analysis" => r.ref \in Profiles
    /\ r.op = "create_roadmap" => r.ref \in Analyses
    /\ r.op \in Creations => r.id \in TableOf(r.op) \cup {NoId}
    /\ r.op \in Creations /\ (d \/ s = "own") => r.id # NoId
    /\ r.op \in Creations /\ s \in {"get", "insert"} => r.id = NoId
    /\ r.op \in {"get_profile", "patch_profile", "delete_profile"} => r.id \in Profiles
    /\ r.op = "get_analysis" => r.id \in Analyses
    /\ r.op = "patch_resource" => r.id \in Roadmaps /\ r.resource \in Skills
    /\ r.op = "patch_profile" => r.patch \in Patches
    /\ r.op = "patch_profile" /\ (d \/ s \in {"select", "update"}) => r.row \in ProfileRow
    /\ r.op = "patch_profile" /\ (d \/ (Sql /\ s = "update")) => r.base \in ProfileRow

\* The handler has asked a *_for_user method, or drawn the row itself.
Cleared(r, s, d) ==
    \/ s \in {"update", "insert", "own", "disown", "delete"}
    \/ s = "select" /\ r.op # "delete_profile"
    \/ d
    \/ r.reply \notin Concealing

OwnRows(r) ==
    /\ r.id # NoId => author[r.id] = r.user
    /\ r.ref # NoId => author[r.ref] = r.user

\* From there on the rows it works on are its user's.
HandlerInv ==
    \A w \in Workers :
        /\ Fits(req[w], pc[w], dirty[w])
        /\ Cleared(req[w], pc[w], dirty[w]) => OwnRows(req[w])
        /\ req[w].op = "patch_resource" /\ (dirty[w] \/ pc[w] \in {"select", "update"})
              => roadmap[req[w].id] # NoRow

\* What the row locks and the foreign key guarantee of uncommitted writes:
\* one write of a profile row at a time, to a row that is there, and no
\* analysis of a profile that is being deleted.
WritesInv ==
    \A w \in Workers : dirty[w] =>
        /\ req[w].op = "patch_profile" => profile[req[w].id] # NoRow
        /\ req[w].op = "patch_profile" =>
              \A v \in Workers : dirty[v] /\ req[v].op = "delete_profile" => req[v].id # req[w].id
        /\ req[w].op = "create_analysis" /\ ForeignKeys =>
              /\ profile[req[w].ref] # NoRow
              /\ \A v \in Workers : dirty[v] /\ req[v].op = "delete_profile" => req[v].id # req[w].ref

\* What a success has reported waits in the session, and a flag waits with
\* the value that was asked for.
Waiting(r, s, d) ==
    /\ s = "teardown" /\ r.reply \in {"ok", "created", "no_content"}
          => d \/ r.op \in {"get_profile", "get_analysis"}
    /\ r.op = "patch_resource" /\ (d \/ s = "update") => (r.resource \in r.done) = r.completed

WaitingInv == Sql => \A w \in Workers : Waiting(req[w], pc[w], dirty[w])

-----------------------------------------------------------------------------
(***************************************************************************)
(* The abstract specification.  A row is there once its owner is, and a    *)
(* roadmap belongs to whom the ownership gate says.                        *)
(***************************************************************************)

OwnerOf == [i \in Ids |-> IF ~Sql \/ i \notin Roadmaps THEN owner[i]
                          ELSE IF roadmap[i] = NoRow THEN NoUser
                          ELSE owner[roadmap[i].analysis]]

Seen(table, i) == IF OwnerOf[i] = NoUser THEN NoRow ELSE table[i]

Store == INSTANCE OwnedStore
         WITH profile <- [p \in Profiles |-> Seen(profile, p)],
              gap <- [a \in Analyses |-> IF Seen(analysis, a) = NoRow THEN NoRow
                                         ELSE analysis[a].missing],
              roadmap <- [r \in Roadmaps |-> Seen(roadmap, r)],
              owner <- OwnerOf

\* Every request is one atomic step on the rows of its user.
StoreSpec == Store!Spec
=============================================================================
