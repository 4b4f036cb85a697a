----------------------------- MODULE StoreProofs -----------------------------
(***************************************************************************)
(* With one worker, the deployment of entrypoint.sh, the handlers of       *)
(* Resources implement OwnedStore, call by call, and a PATCH changes only  *)
(* what it names.                                                          *)
(***************************************************************************)
EXTENDS ResourcesProofs

\* The container runs one worker, gunicorn --workers 1.
Alone(w) == Workers = {w}

\* The request r of the one worker, about to make call s, with its write
\* waiting when d: what its handler has read still holds.
Known(r, s, d) ==
    /\ r.op = "create_profile" /\ (d \/ s \in {"insert", "own"}) => ValidSkills(r.row.skills)
    /\ r.op = "patch_profile" /\ (d \/ s \in {"select", "update"}) =>
          /\ ProfileVisible(r.id, r.user)
          /\ r.row = Patched(profile[r.id], r.patch)
          /\ ValidSkills(r.row.skills)
          /\ Sql /\ s # "select" => r.base = profile[r.id]
    /\ r.op = "delete_profile" /\ (d \/ s = "disown" \/ (Sql /\ s = "delete")) =>
          ProfileVisible(r.id, r.user)
    /\ r.op = "delete_profile" /\ ~Sql /\ s = "delete" => owner[r.id] = NoUser
    /\ r.op = "create_analysis" /\ (d \/ s \in {"insert", "own"}) =>
          ProfileVisible(r.ref, r.user) /\ r.row = profile[r.ref]
    /\ r.op = "create_roadmap" /\ (d \/ s \in {"insert", "own"}) => AnalysisVisible(r.ref, r.user)
    /\ r.op \in Creations /\ (d \/ s = "own") => owner[r.id] = NoUser
    /\ r.op = "create_roadmap" /\ d => roadmap[r.id] = NoRow
    /\ s = "own" =>
          /\ r.op = "create_profile" => profile[r.id] = r.row
          /\ r.op = "create_analysis" =>
                analysis[r.id] # NoRow /\ analysis[r.id].missing = Missing(r.row)
          /\ r.op = "create_roadmap" => roadmap[r.id] = [analysis |-> r.ref, done |-> {}]
    /\ r.op = "patch_resource" /\ (d \/ s \in {"select", "update"}) =>
          /\ RoadmapVisible(r.id, r.user)
          /\ Sql /\ s # "select" =>
                /\ r.resource \in ResourcesOf(r.id)
                /\ r.done = Flagged(roadmap[r.id].done, r.resource, r.completed)

\* A roadmap hangs on an analysis that is there and has an owner.
PlansHold ==
    \A x \in Roadmaps : roadmap[x] # NoRow =>
        analysis[roadmap[x].analysis] # NoRow /\ owner[roadmap[x].analysis] # NoUser

KInv == PlansHold /\ \A w \in Workers : Known(req[w], pc[w], dirty[w])

-----------------------------------------------------------------------------
(***************************************************************************)
(* The store that users see                                                *)
(***************************************************************************)

SeenProfile == [p \in Profiles |-> Seen(profile, p)]
SeenGap     == [a \in Analyses |-> IF Seen(analysis, a) = NoRow THEN NoRow
                                   ELSE analysis[a].missing]
SeenRoadmap == [r \in Roadmaps |-> Seen(roadmap, r)]

Promised == [Store!Next]_(Store!vars)

\* The instance computes with the same data.
LEMMA SameData ==
    /\ Store!ProfileRow = ProfileRow
    /\ \A S : Store!ValidSkills(S) <=> ValidSkills(S)
    /\ \A row, patch : Store!Patched(row, patch) = Patched(row, patch)
    /\ \A row : Store!Missing(row) = Missing(row)
    /\ Store!Ids = Ids
  <1>1. Store!ProfileRow = ProfileRow
    BY DEF Store!ProfileRow, ProfileRow
  <1>2. \A S : Store!ValidSkills(S) <=> ValidSkills(S)
    BY Zenon DEF Store!ValidSkills, ValidSkills, Store!Cardinality, Cardinality
  <1>3. \A row, patch : Store!Patched(row, patch) = Patched(row, patch)
    BY DEF Store!Patched, Patched
  <1>4. \A row : Store!Missing(row) = Missing(row)
    BY DEF Store!Missing, Missing
  <1>5. Store!Ids = Ids
    BY DEF Store!Ids, Ids
  <1> QED
    BY <1>1, <1>2, <1>3, <1>4, <1>5

\* Two stores that show the same rows, but for one, differ in that one.
LEMMA Pointwise ==
    /\ (\A p \in Profiles : SeenProfile'[p] = SeenProfile[p]) => UNCHANGED SeenProfile
    /\ (\A a \in Analyses : SeenGap'[a] = SeenGap[a]) => UNCHANGED SeenGap
    /\ (\A r \in Roadmaps : SeenRoadmap'[r] = SeenRoadmap[r]) => UNCHANGED SeenRoadmap
    /\ (\A i \in Ids : OwnerOf'[i] = OwnerOf[i]) => UNCHANGED OwnerOf
    /\ \A p \in Profiles : (\A o \in Profiles \ {p} : SeenProfile'[o] = SeenProfile[o])
          => SeenProfile' = [SeenProfile EXCEPT ![p] = SeenProfile'[p]]
    /\ \A a \in Analyses : (\A o \in Analyses \ {a} : SeenGap'[o] = SeenGap[o])
          => SeenGap' = [SeenGap EXCEPT ![a] = SeenGap'[a]]
    /\ \A r \in Roadmaps : (\A o \in Roadmaps \ {r} : SeenRoadmap'[o] = SeenRoadmap[o])
          => SeenRoadmap' = [SeenRoadmap EXCEPT ![r] = SeenRoadmap'[r]]
    /\ \A i \in Ids : (\A o \in Ids \ {i} : OwnerOf'[o] = OwnerOf[o])
          => OwnerOf' = [OwnerOf EXCEPT ![i] = OwnerOf'[i]]
  <1> SeenProfile = [p \in Profiles |-> SeenProfile[p]] /\ SeenProfile' = [p \in Profiles |-> SeenProfile'[p]]
    BY DEF SeenProfile
  <1> SeenGap = [a \in Analyses |-> SeenGap[a]] /\ SeenGap' = [a \in Analyses |-> SeenGap'[a]]
    BY DEF SeenGap
  <1> SeenRoadmap = [r \in Roadmaps |-> SeenRoadmap[r]] /\ SeenRoadmap' = [r \in Roadmaps |-> SeenRoadmap'[r]]
    BY DEF SeenRoadmap
  <1> OwnerOf = [i \in Ids |-> OwnerOf[i]] /\ OwnerOf' = [i \in Ids |-> OwnerOf'[i]]
    BY DEF OwnerOf
  <1> QED
    OBVIOUS

\* What users see, on each backend.
LEMMA Views ==
    /\ \A p \in Profiles : SeenProfile[p] = IF OwnerOf[p] = NoUser THEN NoRow ELSE profile[p]
    /\ \A a \in Analyses : SeenGap[a] = IF OwnerOf[a] = NoUser \/ analysis[a] = NoRow THEN NoRow
                                        ELSE analysis[a].missing
    /\ \A r \in Roadmaps : SeenRoadmap[r] = IF OwnerOf[r] = NoUser THEN NoRow ELSE roadmap[r]
    /\ \A p \in Profiles : OwnerOf[p] = owner[p]
    /\ \A a \in Analyses : OwnerOf[a] = owner[a]
    /\ \A r \in Roadmaps : OwnerOf[r] = IF ~Sql THEN owner[r]
                                        ELSE IF roadmap[r] = NoRow THEN NoUser
                                        ELSE owner[roadmap[r].analysis]
  BY DataAssumption, Tables DEF SeenProfile, SeenGap, SeenRoadmap, Seen, OwnerOf

LEMMA ViewsNext ==
    /\ \A p \in Profiles : SeenProfile'[p] = IF OwnerOf'[p] = NoUser THEN NoRow ELSE profile'[p]
    /\ \A a \in Analyses : SeenGap'[a] = IF OwnerOf'[a] = NoUser \/ analysis'[a] = NoRow THEN NoRow
                                         ELSE analysis'[a].missing
    /\ \A r \in Roadmaps : SeenRoadmap'[r] = IF OwnerOf'[r] = NoUser THEN NoRow ELSE roadmap'[r]
    /\ \A p \in Profiles : OwnerOf'[p] = owner'[p]
    /\ \A a \in Analyses : OwnerOf'[a] = owner'[a]
    /\ \A r \in Roadmaps : OwnerOf'[r] = IF ~Sql' THEN owner'[r]
                                         ELSE IF roadmap'[r] = NoRow THEN NoUser
                                         ELSE owner'[roadmap'[r].analysis]
  BY DataAssumption, Tables DEF SeenProfile, SeenGap, SeenRoadmap, Seen, OwnerOf

\* A step no user sees.
LEMMA Stutter ==
    ASSUME \A p \in Profiles : SeenProfile'[p] = SeenProfile[p],
           \A a \in Analyses : SeenGap'[a] = SeenGap[a],
           \A r \in Roadmaps : SeenRoadmap'[r] = SeenRoadmap[r],
           \A i \in Ids : OwnerOf'[i] = OwnerOf[i]
    PROVE  Promised
  BY Pointwise DEF Promised, Store!vars, SeenProfile, SeenGap, SeenRoadmap

\* A step that leaves the rows alone.
LEMMA QuietStep ==
    ASSUME UNCHANGED <<backend, store>> PROVE Promised
  <1>1. UNCHANGED <<SeenProfile, SeenGap, SeenRoadmap, OwnerOf>>
    BY DEF SeenProfile, SeenGap, SeenRoadmap, OwnerOf, Seen, Sql, store
  <1> QED
    BY <1>1, Stutter

\* A profile comes to its owner.
LEMMA CreatedProfile ==
    ASSUME NEW u \in Users, NEW p \in Profiles, NEW row \in ProfileRow, ValidSkills(row.skills),
           OwnerOf[p] = NoUser, OwnerOf'[p] = u, SeenProfile'[p] = row,
           \A i \in Ids \ {p} : OwnerOf'[i] = OwnerOf[i],
           \A o \in Profiles \ {p} : SeenProfile'[o] = SeenProfile[o],
           \A a \in Analyses : SeenGap'[a] = SeenGap[a],
           \A r \in Roadmaps : SeenRoadmap'[r] = SeenRoadmap[r]
    PROVE  Promised
  <1>1. /\ OwnerOf' = [OwnerOf EXCEPT ![p] = u]
        /\ SeenProfile' = [SeenProfile EXCEPT ![p] = row]
        /\ UNCHANGED <<SeenGap, SeenRoadmap>>
    BY Pointwise, Tables
  <1>2. Store!CreateProfile(u, p)
    BY <1>1, SameData DEF Store!CreateProfile, Store!Grant, SeenProfile, SeenGap, SeenRoadmap
  <1> QED
    BY <1>2 DEF Promised, Store!Next

\* A patch is applied to a profile of its owner.
LEMMA PatchedProfile ==
    ASSUME NEW u \in Users, NEW p \in Profiles, NEW patch \in Patches,
           OwnerOf[p] = u, ValidSkills(Patched(SeenProfile[p], patch).skills),
           SeenProfile'[p] = Patched(SeenProfile[p], patch),
           \A i \in Ids : OwnerOf'[i] = OwnerOf[i],
           \A o \in Profiles \ {p} : SeenProfile'[o] = SeenProfile[o],
           \A a \in Analyses : SeenGap'[a] = SeenGap[a],
           \A r \in Roadmaps : SeenRoadmap'[r] = SeenRoadmap[r]
    PROVE  Promised
  <1>1. /\ SeenProfile' = [SeenProfile EXCEPT ![p] = Patched(SeenProfile[p], patch)]
        /\ UNCHANGED <<SeenGap, SeenRoadmap, OwnerOf>>
    BY Pointwise
  <1>2. Store!PatchProfile(u, p)
    BY <1>1, SameData DEF Store!PatchProfile, SeenProfile, SeenGap, SeenRoadmap
  <1> QED
    BY <1>2 DEF Promised, Store!Next

\* A profile goes.
LEMMA DeletedProfile ==
    ASSUME NEW u \in Users, NEW p \in Profiles,
           OwnerOf[p] = u, OwnerOf'[p] = NoUser, SeenProfile'[p] = NoRow,
           \A i \in Ids \ {p} : OwnerOf'[i] = OwnerOf[i],
           \A o \in Profiles \ {p} : SeenProfile'[o] = SeenProfile[o],
           \A a \in Analyses : SeenGap'[a] = SeenGap[a],
           \A r \in Roadmaps : SeenRoadmap'[r] = SeenRoadmap[r]
    PROVE  Promised
  <1>1. /\ OwnerOf' = [OwnerOf EXCEPT ![p] = NoUser]
        /\ SeenProfile' = [SeenProfile EXCEPT ![p] = NoRow]
        /\ UNCHANGED <<SeenGap, SeenRoadmap>>
    BY Pointwise, Tables
  <1>2. Store!DeleteProfile(u, p)
    BY <1>1 DEF Store!DeleteProfile, SeenProfile, SeenGap, SeenRoadmap
  <1> QED
    BY <1>2 DEF Promised, Store!Next

\* An analysis describes a profile of its owner as it is.
LEMMA Analyzed ==
    ASSUME NEW u \in Users, NEW a \in Analyses, NEW p \in Profiles,
           OwnerOf[p] = u, OwnerOf[a] = NoUser, OwnerOf'[a] = u,
           SeenGap'[a] = Missing(SeenProfile[p]),
           \A i \in Ids \ {a} : OwnerOf'[i] = OwnerOf[i],
           \A o \in Profiles : SeenProfile'[o] = SeenProfile[o],
           \A o \in Analyses \ {a} : SeenGap'[o] = SeenGap[o],
           \A r \in Roadmaps : SeenRoadmap'[r] = SeenRoadmap[r]
    PROVE  Promised
  <1>1. /\ OwnerOf' = [OwnerOf EXCEPT ![a] = u]
        /\ SeenGap' = [SeenGap EXCEPT ![a] = Missing(SeenProfile[p])]
        /\ UNCHANGED <<SeenProfile, SeenRoadmap>>
    BY Pointwise, Tables
  <1>2. Store!Analyze(u, a, p)
    BY <1>1, SameData DEF Store!Analyze, Store!Grant, SeenProfile, SeenGap, SeenRoadmap
  <1> QED
    BY <1>2 DEF Promised, Store!Next

\* A roadmap comes to the owner of its analysis.
LEMMA Planned ==
    ASSUME NEW u \in Users, NEW r \in Roadmaps, NEW a \in Analyses,
           OwnerOf[a] = u, OwnerOf[r] = NoUser, OwnerOf'[r] = u,
           SeenRoadmap'[r] = [analysis |-> a, done |-> {}],
           \A i \in Ids \ {r} : OwnerOf'[i] = OwnerOf[i],
           \A p \in Profiles : SeenProfile'[p] = SeenProfile[p],
           \A o \in Analyses : SeenGap'[o] = SeenGap[o],
           \A o \in Roadmaps \ {r} : SeenRoadmap'[o] = SeenRoadmap[o]
    PROVE  Promised
  <1>1. /\ OwnerOf' = [OwnerOf EXCEPT ![r] = u]
        /\ SeenRoadmap' = [SeenRoadmap EXCEPT ![r] = [analysis |-> a, done |-> {}]]
        /\ UNCHANGED <<SeenProfile, SeenGap>>
    BY Pointwise, Tables
  <1>2. Store!Plan(u, r, a)
    BY <1>1 DEF Store!Plan, Store!Grant, SeenProfile, SeenGap, SeenRoadmap
  <1> QED
    BY <1>2 DEF Promised, Store!Next

\* A flag of a roadmap is set or cleared by its owner.
LEMMA FlaggedRoadmap ==
    ASSUME NEW u \in Users, NEW r \in Roadmaps, NEW s \in Skills, NEW completed \in BOOLEAN,
           OwnerOf[r] = u, s \in SeenGap[SeenRoadmap[r].analysis],
           SeenRoadmap'[r] = [SeenRoadmap[r] EXCEPT !.done =
                                 Flagged(SeenRoadmap[r].done, s, completed)],
           \A i \in Ids : OwnerOf'[i] = OwnerOf[i],
           \A p \in Profiles : SeenProfile'[p] = SeenProfile[p],
           \A o \in Analyses : SeenGap'[o] = SeenGap[o],
           \A o \in Roadmaps \ {r} : SeenRoadmap'[o] = SeenRoadmap[o]
    PROVE  Promised
  <1>1. /\ SeenRoadmap' = [SeenRoadmap EXCEPT ![r].done =
                              IF completed THEN @ \cup {s} ELSE @ \ {s}]
        /\ UNCHANGED <<SeenProfile, SeenGap, OwnerOf>>
    BY Pointwise DEF Flagged
  <1>2. Store!Flag(u, r, s, completed)
    BY <1>1 DEF Store!Flag, SeenProfile, SeenGap, SeenRoadmap
  <1> QED
    BY <1>2 DEF Promised, Store!Next

-----------------------------------------------------------------------------
(***************************************************************************)
(* What the one worker knows                                               *)
(***************************************************************************)

\* At its first calls, and once it has answered without writing, it knows nothing.
LEMMA KnowsNothing ==
    ASSUME NEW r, NEW s \in {"idle", "read", "get", "gate", "recheck", "teardown"}
    PROVE  Known(r, s, FALSE)
  BY DEF Known

\* A step of the one worker that keeps the plans and what it knows.
LEMMA OneWorker ==
    ASSUME Inv, NEW w \in Workers, Alone(w), NEW r, NEW s, NEW d,
           pc' = [pc EXCEPT ![w] = s], req' = [req EXCEPT ![w] = r],
           dirty' = [dirty EXCEPT ![w] = d],
           Known(r, s, d)', PlansHold'
    PROVE  KInv'
  <1>1. pc'[w] = s /\ req'[w] = r /\ dirty'[w] = d
    BY DEF Inv, TypeOK
  <1>2. Known(req[w], pc[w], dirty[w])'
    BY <1>1 DEF Known
  <1> QED
    BY <1>2 DEF KInv, Alone

\* A step that leaves the store alone.
LEMMA QuietKnown ==
    ASSUME Inv, KInv, NEW w \in Workers, Alone(w), NEW r, NEW s, NEW d,
           UNCHANGED <<backend, store>>,
           pc' = [pc EXCEPT ![w] = s], req' = [req EXCEPT ![w] = r],
           dirty' = [dirty EXCEPT ![w] = d],
           Known(r, s, d)
    PROVE  KInv' /\ Promised
  <1>1. Known(r, s, d)'
    BY DEF Known, ProfileVisible, AnalysisVisible, RoadmapVisible, ResourcesOf, Sql, store
  <1>2. PlansHold'
    BY DEF KInv, PlansHold, store
  <1> QED
    BY <1>1, <1>2, OneWorker, QuietStep

\* An answer of a handler that has written nothing.
LEMMA AnswerKnown ==
    ASSUME Inv, KInv, NEW w \in Workers, Alone(w), pc[w] \notin {"idle", "teardown"},
           NEW reply \in Replies, Answer(w, reply), UNCHANGED store,
           dirty' = dirty \/ dirty' = [dirty EXCEPT ![w] = FALSE]
    PROVE  KInv' /\ Promised
  <1>1. PICK q \in Request : Answered(q, w, reply)
    BY Answers
  <1>2. UNCHANGED backend /\ dirty' = [dirty EXCEPT ![w] = FALSE]
    BY Answers, UnderWay DEF Inv, TypeOK
  <1> QED
    BY <1>1, <1>2, KnowsNothing, QuietKnown DEF Answered

\* The next call of a handler that only reads.
LEMMA GotoKnown ==
    ASSUME Inv, KInv, NEW w \in Workers, Alone(w), NEW q, NEW s,
           dirty[w] = FALSE, Goto(w, s), req' = [req EXCEPT ![w] = q], ReadOnly, Known(q, s, FALSE)
    PROVE  KInv' /\ Promised
  <1>1. dirty' = [dirty EXCEPT ![w] = FALSE] /\ pc' = [pc EXCEPT ![w] = s]
        /\ UNCHANGED <<backend, store>>
    BY DEF Goto, ReadOnly, Inv, TypeOK
  <1> QED
    BY <1>1, QuietKnown

\* A write that waits keeps what the handler has read.
LEMMA WriteKnown ==
    ASSUME Inv, KInv, NEW w \in Workers, Alone(w), pc[w] \notin {"idle", "teardown"}, Sql,
           NEW reply \in Replies, Write(w), Answer(w, reply),
           \/ req[w].op \in {"patch_profile", "patch_resource"} /\ pc[w] = "update"
           \/ req[w].op = "delete_profile" /\ pc[w] = "delete"
    PROVE  KInv' /\ Promised
  <1>1. PICK q : q = [req[w] EXCEPT !.reply = reply]
    OBVIOUS
  <1>2. /\ pc' = [pc EXCEPT ![w] = "teardown"] /\ req' = [req EXCEPT ![w] = q]
        /\ dirty' = [dirty EXCEPT ![w] = TRUE] /\ UNCHANGED <<backend, store>>
    BY <1>1 DEF Answer, Goto, Write, Inv, TypeOK
  <1>3. req[w] \in Request /\ \A f \in DOMAIN NoRequest \ {"reply"} : q[f] = req[w][f]
    BY <1>1, UnderWay DEF Request, NoRequest
  <1>4. Known(req[w], pc[w], FALSE)
    BY UnderWay DEF KInv
  <1>5. Known(q, "teardown", TRUE)
    BY <1>3, <1>4 DEF Known, NoRequest, Creations
  <1> QED
    BY <1>2, <1>5, QuietKnown

\* A request that begins has asked nothing yet.
LEMMA StartKnown ==
    ASSUME Inv, KInv, NEW w \in Workers, Alone(w), Start(w)
    PROVE  KInv' /\ Promised
  <1>1. \E s \in {"read", "get", "gate", "select", "insert"} : \E q :
           /\ pc[w] = "idle" /\ Goto(w, s) /\ ReadOnly /\ req' = [req EXCEPT ![w] = q]
           /\ s = "select" => q.op = "delete_profile"
           /\ s = "insert" => q.op = "create_profile" /\ ValidSkills(q.row.skills)
    <2> DEFINE Begun == \E s \in {"read", "get", "gate", "select", "insert"} : \E q :
           /\ pc[w] = "idle" /\ Goto(w, s) /\ ReadOnly /\ req' = [req EXCEPT ![w] = q]
           /\ s = "select" => q.op = "delete_profile"
           /\ s = "insert" => q.op = "create_profile" /\ ValidSkills(q.row.skills)
    <2>1. ASSUME NEW r, NEW op, NEW s \in {"read", "get", "gate"}, Begin(w, op, s, r)
          PROVE  Begun
      BY <2>1 DEF Begin
    <2>2. ASSUME NEW u \in Users, StartCreateProfile(w, u) PROVE Begun
      <3>1. PICK row \in ProfileRow :
               /\ ValidSkills(row.skills)
               /\ Begin(w, "create_profile", "insert", [NoRequest EXCEPT !.user = u, !.row = row])
        BY <2>2 DEF StartCreateProfile
      <3> DEFINE q == [[NoRequest EXCEPT !.user = u, !.row = row] EXCEPT !.op = "create_profile"]
      <3>2. q.op = "create_profile" /\ q.row = row
        BY DEF NoRequest
      <3>3. pc[w] = "idle" /\ Goto(w, "insert") /\ ReadOnly /\ req' = [req EXCEPT ![w] = q]
        BY <3>1 DEF Begin
      <3> QED
        BY <3>1, <3>2, <3>3
    <2>3. ASSUME NEW u \in Users, NEW p \in Profiles, StartProfile(w, u, p) PROVE Begun
      <3> DEFINE q == [[NoRequest EXCEPT !.user = u, !.id = p] EXCEPT !.op = "delete_profile"]
      <3>1. q.op = "delete_profile"
        BY DEF NoRequest
      <3>2. Begin(w, "delete_profile", "select", [NoRequest EXCEPT !.user = u, !.id = p]) => Begun
        BY <3>1 DEF Begin
      <3> QED
        BY <2>1, <2>3, <3>2 DEF StartProfile
    <2>4. ASSUME NEW u \in Users, NEW a \in Analyses, StartAnalysis(w, u, a) PROVE Begun
      BY <2>1, <2>4 DEF StartAnalysis
    <2>5. ASSUME NEW u \in Users, NEW x \in Roadmaps, StartRoadmap(w, u, x) PROVE Begun
      BY <2>1, <2>5 DEF StartRoadmap
    <2> QED
      BY <2>2, <2>3, <2>4, <2>5 DEF Start
  <1>2. PICK s \in {"read", "get", "gate", "select", "insert"} : \E q :
           /\ pc[w] = "idle" /\ Goto(w, s) /\ ReadOnly /\ req' = [req EXCEPT ![w] = q]
           /\ s = "select" => q.op = "delete_profile"
           /\ s = "insert" => q.op = "create_profile" /\ ValidSkills(q.row.skills)
    BY <1>1
  <1>3. PICK q :
           /\ pc[w] = "idle" /\ Goto(w, s) /\ ReadOnly /\ req' = [req EXCEPT ![w] = q]
           /\ s = "select" => q.op = "delete_profile"
           /\ s = "insert" => q.op = "create_profile" /\ ValidSkills(q.row.skills)
    BY <1>2
  <1>4. dirty[w] = FALSE
    BY <1>3 DEF Inv, TypeOK, HandlerInv, Fits
  <1>5. Known(q, s, FALSE)
    BY <1>2, <1>3 DEF Known
  <1> QED
    BY <1>3, <1>4, <1>5, GotoKnown

-----------------------------------------------------------------------------
(***************************************************************************)
(* The steps that leave the store alone                                    *)
(***************************************************************************)

\* Answers that read only, or that give up.
LEMMA AnswersKnown ==
    ASSUME Inv, KInv, NEW w \in Workers, Alone(w),
           \/ GetProfile(w) \/ GetAnalysis(w) \/ Recheck(w)
           \/ UpdateProfileFails(w) \/ InsertFails(w) \/ StatementFails(w)
    PROVE  KInv' /\ Promised
  <1>1. CASE GetProfile(w) \/ GetAnalysis(w) \/ Recheck(w)
    <2>1. pc[w] \notin {"idle", "teardown"} /\ ReadOnly /\ \E reply \in Replies : Answer(w, reply)
      BY <1>1 DEF GetProfile, GetAnalysis, Recheck, At, Replies, Errors
    <2> QED
      BY <2>1, AnswerKnown DEF ReadOnly, store
  <1>2. CASE UpdateProfileFails(w) \/ InsertFails(w) \/ StatementFails(w)
    <2>1. pc[w] \notin {"idle", "teardown"} /\ Fail(w) /\ "INTERNAL_ERROR" \in Replies
      BY <1>2 DEF UpdateProfileFails, InsertFails, StatementFails, At, Replies, Errors
    <2> QED
      BY <2>1, AnswerKnown DEF Fail, store
  <1> QED
    BY <1>1, <1>2

\* The writes that wait in the session.
LEMMA SqlWritesKnown ==
    ASSUME Inv, KInv, NEW w \in Workers, Alone(w),
           UpdateProfileSql(w) \/ DeleteProfileSql(w) \/ UpdateRoadmapSql(w)
    PROVE  KInv' /\ Promised
  <1> "ok" \in Replies /\ "no_content" \in Replies
    BY DEF Replies
  <1>1. CASE UpdateProfileSql(w)
    <2>1. Sql /\ Write(w) /\ Answer(w, "ok") /\ pc[w] = "update" /\ req[w].op = "patch_profile"
      BY <1>1 DEF UpdateProfileSql, At
    <2> QED
      BY <2>1, WriteKnown
  <1>2. CASE DeleteProfileSql(w)
    <2>1. Sql /\ Write(w) /\ Answer(w, "no_content") /\ pc[w] = "delete" /\ req[w].op = "delete_profile"
      BY <1>2 DEF DeleteProfileSql, At
    <2> QED
      BY <2>1, WriteKnown
  <1>3. CASE UpdateRoadmapSql(w)
    <2>1. Sql /\ Write(w) /\ Answer(w, "ok") /\ pc[w] = "update" /\ req[w].op = "patch_resource"
      BY <1>3 DEF UpdateRoadmapSql, At
    <2> QED
      BY <2>1, WriteKnown
  <1> QED
    BY <1>1, <1>2, <1>3

\* The read of a PATCH, and the row computed from it.
LEMMA GetForPatchKnown ==
    ASSUME Inv, KInv, NEW w \in Workers, Alone(w), GetForPatch(w)
    PROVE  KInv' /\ Promised
  <1> DEFINE p == req[w].id
             row == Patched(profile[p], req[w].patch)
             s == IF Sql THEN "select" ELSE "update"
  <1>1. pc[w] = "get" /\ req[w].op = "patch_profile" /\ ReadOnly
    BY DEF GetForPatch, At
  <1>2. req[w] \in Request /\ dirty[w] = FALSE
    BY <1>1, UnderWay
  <1>3. CASE Answer(w, "NOT_FOUND") \/ Answer(w, "PROFILE_INVALID")
    BY <1>1, <1>3, AnswerKnown DEF ReadOnly, store, Replies, Errors
  <1>4. CASE /\ ProfileVisible(p, req[w].user) /\ ValidSkills(row.skills)
             /\ Goto(w, s) /\ req' = [req EXCEPT ![w].row = row]
    <2>1. PICK q : q = [req[w] EXCEPT !.row = row]
      OBVIOUS
    <2>2. q.row = row /\ \A f \in DOMAIN NoRequest \ {"row"} : q[f] = req[w][f]
      BY <1>2, <2>1 DEF Request, NoRequest
    <2>3. req' = [req EXCEPT ![w] = q]
      BY <1>4, <2>1 DEF Inv, TypeOK
    <2>4. Known(q, s, FALSE)
      BY <1>1, <1>4, <2>2 DEF Known, NoRequest, Creations
    <2> QED
      BY <1>1, <1>2, <1>4, <2>3, <2>4, GotoKnown
  <1> QED
    BY <1>3, <1>4 DEF GetForPatch

\* The SELECT finds what the PATCH was computed from.
LEMMA SelectProfileKnown ==
    ASSUME Inv, KInv, NEW w \in Workers, Alone(w), SelectProfile(w)
    PROVE  KInv' /\ Promised
  <1> DEFINE p == req[w].id
             s == IF req[w].op = "patch_profile" THEN "update" ELSE IF Sql THEN "delete" ELSE "disown"
  <1>1. pc[w] = "select" /\ req[w].op \in {"patch_profile", "delete_profile"} /\ ReadOnly
    BY DEF SelectProfile, At
  <1>2. req[w] \in Request /\ dirty[w] = FALSE /\ Known(req[w], "select", FALSE)
    BY <1>1, UnderWay DEF KInv
  <1>3. CASE Answer(w, "NOT_FOUND")
    BY <1>1, <1>3, AnswerKnown DEF ReadOnly, store, Replies, Errors
  <1>4. CASE /\ ProfileVisible(p, req[w].user)
             /\ Goto(w, s) /\ req' = [req EXCEPT ![w].base = profile[p]]
    <2>1. PICK q : q = [req[w] EXCEPT !.base = profile[p]]
      OBVIOUS
    <2>2. q.base = profile[p] /\ \A f \in DOMAIN NoRequest \ {"base"} : q[f] = req[w][f]
      BY <1>2, <2>1 DEF Request, NoRequest
    <2>3. req' = [req EXCEPT ![w] = q]
      BY <1>4, <2>1 DEF Inv, TypeOK
    <2>4. Known(q, s, FALSE)
      BY <1>1, <1>2, <1>4, <2>2 DEF Known, NoRequest, Creations
    <2> QED
      BY <1>1, <1>2, <1>4, <2>3, <2>4, GotoKnown
  <1> QED
    BY <1>3, <1>4 DEF SelectProfile

\* The profile an analysis is made of.
LEMMA GetForAnalysisKnown ==
    ASSUME Inv, KInv, NEW w \in Workers, Alone(w), GetForAnalysis(w)
    PROVE  KInv' /\ Promised
  <1> DEFINE p == req[w].ref
  <1>1. pc[w] = "get" /\ req[w].op = "create_analysis" /\ ReadOnly
    BY DEF GetForAnalysis, At
  <1>2. req[w] \in Request /\ dirty[w] = FALSE
    BY <1>1, UnderWay
  <1>3. CASE Answer(w, "PROFILE_NOT_FOUND") \/ Answer(w, "JOB_NOT_FOUND")
    BY <1>1, <1>3, AnswerKnown DEF ReadOnly, store, Replies, Errors
  <1>4. ASSUME ProfileVisible(p, req[w].user), NEW readable, Goto(w, "insert"),
               req' = [req EXCEPT ![w].row = profile[p], ![w].readable = readable]
        PROVE  KInv' /\ Promised
    <2>1. PICK q : q = [req[w] EXCEPT !.row = profile[p], !.readable = readable]
      OBVIOUS
    <2>2. q.row = profile[p] /\ \A f \in DOMAIN NoRequest \ {"row", "readable"} : q[f] = req[w][f]
      BY <1>2, <2>1 DEF Request, NoRequest
    <2>3. req' = [req EXCEPT ![w] = q]
      BY <1>4, <2>1 DEF Inv, TypeOK
    <2>4. Known(q, "insert", FALSE)
      BY <1>1, <1>4, <2>2 DEF Known, NoRequest, Creations
    <2> QED
      BY <1>1, <1>2, <1>4, <2>3, <2>4, GotoKnown
  <1> QED
    BY <1>3, <1>4 DEF GetForAnalysis

\* The analysis a roadmap is made of.
LEMMA GetForRoadmapKnown ==
    ASSUME Inv, KInv, NEW w \in Workers, Alone(w), GetForRoadmap(w)
    PROVE  KInv' /\ Promised
  <1>1. pc[w] = "get" /\ req[w].op = "create_roadmap" /\ ReadOnly
    BY DEF GetForRoadmap, At
  <1>2. dirty[w] = FALSE
    BY <1>1, UnderWay
  <1>3. CASE Answer(w, "ANALYSIS_NOT_FOUND") \/ Answer(w, "INTERNAL_ERROR")
    BY <1>1, <1>3, AnswerKnown DEF ReadOnly, store, Replies, Errors
  <1>4. CASE AnalysisVisible(req[w].ref, req[w].user) /\ Goto(w, "insert") /\ UNCHANGED req
    <2>1. Known(req[w], "insert", FALSE) /\ req' = [req EXCEPT ![w] = req[w]]
      BY <1>1, <1>4 DEF Known, Creations, Inv, TypeOK
    <2> QED
      BY <1>1, <1>2, <1>4, <2>1, GotoKnown
  <1> QED
    BY <1>3, <1>4 DEF GetForRoadmap

\* Behind the gate the roadmap is its user's.
LEMMA GateResourceKnown ==
    ASSUME Inv, KInv, NEW w \in Workers, Alone(w), GateResource(w)
    PROVE  KInv' /\ Promised
  <1> DEFINE s == IF ~RoadmapVisible(req[w].id, req[w].user) THEN "recheck"
                  ELSE IF Sql THEN "select" ELSE "update"
  <1>1. /\ pc[w] = "gate" /\ req[w].op = "patch_resource" /\ ReadOnly
        /\ Goto(w, s) /\ req' = [req EXCEPT ![w] = req[w]]
    BY DEF GateResource, At, Inv, TypeOK
  <1>2. dirty[w] = FALSE
    BY <1>1, UnderWay
  <1>3. Known(req[w], s, FALSE)
    BY <1>1 DEF Known, Creations
  <1> QED
    BY <1>1, <1>2, <1>3, GotoKnown

\* The session loads the phases and sets the flag.
LEMMA SelectRoadmapKnown ==
    ASSUME Inv, KInv, NEW w \in Workers, Alone(w), SelectRoadmap(w)
    PROVE  KInv' /\ Promised
  <1> DEFINE x == req[w].id
             done == Flagged(roadmap[x].done, req[w].resource, req[w].completed)
  <1>1. pc[w] = "select" /\ req[w].op = "patch_resource" /\ ReadOnly
    BY DEF SelectRoadmap, At
  <1>2. req[w] \in Request /\ dirty[w] = FALSE /\ Known(req[w], "select", FALSE)
    BY <1>1, UnderWay DEF KInv
  <1>3. CASE Goto(w, "recheck") /\ UNCHANGED req
    <2>1. Known(req[w], "recheck", FALSE) /\ req' = [req EXCEPT ![w] = req[w]]
      BY <1>3, KnowsNothing DEF Inv, TypeOK
    <2> QED
      BY <1>1, <1>2, <1>3, <2>1, GotoKnown
  <1>4. CASE req[w].resource \in ResourcesOf(x) /\ Goto(w, "update")
             /\ req' = [req EXCEPT ![w].done = done]
    <2>1. PICK q : q = [req[w] EXCEPT !.done = done]
      OBVIOUS
    <2>2. q.done = done /\ \A f \in DOMAIN NoRequest \ {"done"} : q[f] = req[w][f]
      BY <1>2, <2>1 DEF Request, NoRequest
    <2>3. req' = [req EXCEPT ![w] = q]
      BY <1>4, <2>1 DEF Inv, TypeOK
    <2>4. Known(q, "update", FALSE)
      BY <1>1, <1>2, <1>4, <2>2 DEF Known, NoRequest, Creations
    <2> QED
      BY <1>1, <1>2, <1>4, <2>3, <2>4, GotoKnown
  <1> QED
    BY <1>3, <1>4 DEF SelectRoadmap

\* The INSERT draws an id nobody has.
LEMMA InsertSqlKnown ==
    ASSUME Inv, KInv, NEW w \in Workers, Alone(w), InsertSql(w)
    PROVE  KInv' /\ Promised
  <1>1. /\ Sql /\ pc[w] = "insert" /\ req[w].op \in Creations
        /\ Goto(w, "teardown") /\ Write(w)
    BY DEF InsertSql, At
  <1>2. PICK i \in Fresh(req[w].op) :
           /\ author' = [author EXCEPT ![i] = req[w].user]
           /\ req' = [req EXCEPT ![w] = [@ EXCEPT !.id = i, !.reply = Serialized(w)]]
    BY DEF InsertSql
  <1>3. PICK q : q = [req[w] EXCEPT !.id = i, !.reply = Serialized(w)]
    OBVIOUS
  <1>4. req[w].user \in Users /\ req[w] \in Request /\ Known(req[w], "insert", FALSE)
    BY <1>1, UnderWay DEF KInv
  <1>5. i \in TableOf(req[w].op) /\ author[i] = NoUser /\ owner[i] = NoUser
    BY <1>1, <1>2, <1>4, FreshIds
  <1>6. req[w].op = "create_roadmap" => roadmap[i] = NoRow
    BY <1>5 DEF TableOf, Inv, OwnershipInv
  <1>7. /\ q.id = i
        /\ \A f \in DOMAIN NoRequest \ {"id", "reply"} : q[f] = req[w][f]
    BY <1>3, <1>4 DEF Request, NoRequest
  <1>8. Known(q, "teardown", TRUE)
    BY <1>1, <1>4, <1>5, <1>6, <1>7 DEF Known, NoRequest, Creations
  <1>9. /\ pc' = [pc EXCEPT ![w] = "teardown"] /\ req' = [req EXCEPT ![w] = q]
        /\ dirty' = [dirty EXCEPT ![w] = TRUE] /\ UNCHANGED <<backend, store>>
    BY <1>1, <1>2, <1>3 DEF Goto, Write, Inv, TypeOK
  <1> QED
    BY <1>8, <1>9, QuietKnown

-----------------------------------------------------------------------------
(***************************************************************************)
(* The steps of the memory repositories                                    *)
(***************************************************************************)

\* What the one worker has in its hands in the middle of a request.
LEMMA Holds ==
    ASSUME Inv, KInv, NEW w \in Workers, pc[w] \notin {"idle", "teardown"}
    PROVE  /\ Known(req[w], pc[w], FALSE) /\ Fits(req[w], pc[w], FALSE)
           /\ req[w].user \in Users /\ req[w].user # NoUser
  BY UnderWay, Absent DEF KInv

\* An answer after which the plans still hold.
LEMMA AnswerKeeps ==
    ASSUME Inv, KInv, NEW w \in Workers, Alone(w), pc[w] \notin {"idle", "teardown"},
           NEW reply \in Replies, Answer(w, reply), UNCHANGED dirty, PlansHold'
    PROVE  KInv'
  <1>1. PICK q \in Request : Answered(q, w, reply)
    BY Answers
  <1>2. dirty' = [dirty EXCEPT ![w] = FALSE]
    BY UnderWay DEF Inv, TypeOK
  <1>3. Known(q, "teardown", FALSE)'
    BY DEF Known
  <1> QED
    BY <1>1, <1>2, <1>3, OneWorker DEF Answered

\* The memory update applies the patch to the profile as it is.
LEMMA UpdateProfileMemoryKnown ==
    ASSUME Inv, KInv, NEW w \in Workers, Alone(w), UpdateProfileMemory(w)
    PROVE  KInv' /\ Promised
  <1> DEFINE p == req[w].id
  <1>1. /\ ~Sql /\ pc[w] = "update" /\ req[w].op = "patch_profile"
        /\ UNCHANGED <<analysis, roadmap, owner, author, dirty>>
    BY DEF UpdateProfileMemory, At
  <1>2. /\ ProfileVisible(p, req[w].user) /\ req[w].row = Patched(profile[p], req[w].patch)
        /\ ValidSkills(req[w].row.skills) /\ p \in Profiles /\ req[w].patch \in Patches
        /\ req[w].user \in Users /\ req[w].user # NoUser
    BY <1>1, Holds DEF Known, Fits
  <1>3. profile' = [profile EXCEPT ![p] = req[w].row] /\ Answer(w, "ok")
    BY <1>2 DEF UpdateProfileMemory
  <1>4. KInv'
    <2>1. PlansHold'
      BY <1>1 DEF KInv, PlansHold
    <2> QED
      BY <1>1, <1>3, <2>1, AnswerKeeps DEF Replies
  <1>5. Promised
    <2>1. ~Sql' /\ profile'[p] = req[w].row /\ \A o \in Profiles \ {p} : profile'[o] = profile[o]
      BY <1>1, <1>2, <1>3 DEF Answer, Goto, Sql, Inv, TypeOK
    <2>2. OwnerOf[p] = req[w].user /\ SeenProfile[p] = profile[p] /\ \A i \in Ids : OwnerOf'[i] = OwnerOf[i]
      BY <1>1, <1>2, <2>1, Views, ViewsNext DEF ProfileVisible, Ids
    <2>3. /\ SeenProfile'[p] = req[w].row
          /\ \A o \in Profiles \ {p} : SeenProfile'[o] = SeenProfile[o]
          /\ \A a \in Analyses : SeenGap'[a] = SeenGap[a]
          /\ \A r \in Roadmaps : SeenRoadmap'[r] = SeenRoadmap[r]
      BY <1>1, <1>2, <2>1, <2>2, Tables, Views, ViewsNext
    <2> QED
      BY <1>2, <2>2, <2>3, PatchedProfile
  <1> QED
    BY <1>4, <1>5

\* The memory delete takes the profile from its owner.
LEMMA DisownProfileKnown ==
    ASSUME Inv, KInv, NEW w \in Workers, Alone(w), DisownProfile(w)
    PROVE  KInv' /\ Promised
  <1>0. PICK q : q = req[w]
    OBVIOUS
  <1> DEFINE p == q.id
  <1>1. /\ pc[w] = "disown" /\ q.op = "delete_profile"
        /\ owner' = [owner EXCEPT ![p] = NoUser]
        /\ pc' = [pc EXCEPT ![w] = "delete"]
        /\ UNCHANGED <<backend, profile, analysis, roadmap, author, req, dirty>>
    BY <1>0 DEF DisownProfile, At, Goto
  <1>2. /\ ProfileVisible(p, q.user) /\ p \in Profiles /\ ~Sql
        /\ q.user \in Users /\ q.user # NoUser
    BY <1>0, <1>1, Holds DEF Known, Fits
  <1>3. owner'[p] = NoUser /\ \A i \in Ids \ {p} : owner'[i] = owner[i]
    BY <1>1, <1>2, Tables DEF Inv, TypeOK
  <1>4. KInv'
    <2>1. req' = [req EXCEPT ![w] = q] /\ dirty' = [dirty EXCEPT ![w] = FALSE]
      BY <1>0, <1>1, UnderWay DEF Inv, TypeOK
    <2>2. Known(q, "delete", FALSE)'
      BY <1>1, <1>2, <1>3 DEF Known, Sql, Creations
    <2>3. PlansHold'
      <3>1. \A x \in Roadmaps : roadmap[x] # NoRow => roadmap[x].analysis \in Ids \ {p}
        BY <1>2, Tables, DataAssumption DEF Inv, TypeOK, RoadmapRow
      <3> QED
        BY <1>1, <1>3, <3>1 DEF KInv, PlansHold
    <2> QED
      BY <1>1, <2>1, <2>2, <2>3, OneWorker
  <1>5. Promised
    <2>1. ~Sql'
      BY <1>1, <1>2 DEF Sql
    <2>2. /\ OwnerOf[p] = q.user /\ OwnerOf'[p] = NoUser /\ \A i \in Ids \ {p} : OwnerOf'[i] = OwnerOf[i]
      BY <1>2, <1>3, <2>1, Views, ViewsNext DEF ProfileVisible, Ids
    <2>3. \A i \in Analyses \cup Roadmaps : i \in Ids \ {p}
      BY <1>2, Tables, DataAssumption
    <2>4. /\ SeenProfile'[p] = NoRow
          /\ \A o \in Profiles \ {p} : SeenProfile'[o] = SeenProfile[o]
          /\ \A a \in Analyses : SeenGap'[a] = SeenGap[a]
          /\ \A r \in Roadmaps : SeenRoadmap'[r] = SeenRoadmap[r]
      BY <1>1, <1>2, <2>2, <2>3, Tables, Views, ViewsNext
    <2> QED
      BY <1>2, <2>2, <2>4, DeletedProfile
  <1> QED
    BY <1>4, <1>5

\* The record it drops afterwards was nobody's.
LEMMA DeleteProfileMemoryKnown ==
    ASSUME Inv, KInv, NEW w \in Workers, Alone(w), DeleteProfileMemory(w)
    PROVE  KInv' /\ Promised
  <1> DEFINE p == req[w].id
  <1>1. /\ ~Sql /\ pc[w] = "delete" /\ req[w].op = "delete_profile"
        /\ profile' = [profile EXCEPT ![p] = NoRow]
        /\ UNCHANGED <<analysis, roadmap, owner, author, dirty>>
    BY DEF DeleteProfileMemory, At
  <1>2. PICK reply \in Replies : Answer(w, reply)
    BY DEF DeleteProfileMemory, Replies, Errors
  <1>3. owner[p] = NoUser /\ p \in Profiles
    BY <1>1, Holds DEF Known, Fits
  <1>4. PlansHold'
    BY <1>1 DEF KInv, PlansHold
  <1>5. ~Sql' /\ \A o \in Profiles \ {p} : profile'[o] = profile[o]
    BY <1>1, <1>2 DEF Answer, Goto, Sql, Inv, TypeOK
  <1>6. \A i \in Ids : OwnerOf'[i] = OwnerOf[i]
    BY <1>1, <1>5, Views, ViewsNext DEF Ids
  <1>7. Promised
    BY <1>1, <1>3, <1>5, <1>6, Tables, Views, ViewsNext, Stutter
  <1> QED
    BY <1>1, <1>2, <1>4, <1>7, AnswerKeeps

\* The memory update sets the flag in the roadmap as it is.
LEMMA UpdateRoadmapMemoryKnown ==
    ASSUME Inv, KInv, NEW w \in Workers, Alone(w), UpdateRoadmapMemory(w)
    PROVE  KInv' /\ Promised
  <1> DEFINE x == req[w].id
             s == req[w].resource
             done == Flagged(roadmap[x].done, s, req[w].completed)
             a == roadmap[x].analysis
  <1>1. /\ ~Sql /\ pc[w] = "update" /\ req[w].op = "patch_resource"
        /\ UNCHANGED <<profile, analysis, owner, author, dirty>>
    BY DEF UpdateRoadmapMemory, At
  <1>2. /\ RoadmapVisible(x, req[w].user) /\ x \in Roadmaps /\ s \in Skills
        /\ req[w].user \in Users /\ req[w].user # NoUser
        /\ req[w].completed \in BOOLEAN
    BY <1>1, Holds, UnderWay DEF Known, Fits, Request
  <1>3. CASE Goto(w, "recheck") /\ UNCHANGED <<roadmap, req>>
    <2>1. Known(req[w], "recheck", FALSE) /\ req' = [req EXCEPT ![w] = req[w]] /\ dirty[w] = FALSE
      BY <1>1, <1>3, KnowsNothing, UnderWay DEF Inv, TypeOK
    <2> QED
      BY <1>1, <1>3, <2>1, GotoKnown DEF ReadOnly, store
  <1>4. CASE /\ s \in ResourcesOf(x) /\ Answer(w, "ok")
             /\ roadmap' = [roadmap EXCEPT ![x].done = done]
    <2>1. roadmap[x] # NoRow /\ roadmap[x] \in RoadmapRow /\ a \in Analyses
      BY <1>2 DEF RoadmapVisible, Inv, TypeOK, RoadmapRow
    <2>2. /\ roadmap'[x] = [roadmap[x] EXCEPT !.done = done]
          /\ roadmap'[x].analysis = a
          /\ \A r \in Roadmaps \ {x} : roadmap'[r] = roadmap[r]
      BY <1>2, <1>4, <2>1 DEF Inv, TypeOK, RoadmapRow
    <2>3. PlansHold'
      BY <1>1, <2>1, <2>2 DEF KInv, PlansHold
    <2>4. ~Sql'
      BY <1>1, <1>4 DEF Answer, Goto, Sql
    <2>5. OwnerOf[x] = req[w].user /\ \A i \in Ids : OwnerOf'[i] = OwnerOf[i]
      BY <1>1, <1>2, <2>4, Views, ViewsNext DEF Ids, RoadmapVisible
    <2>6. SeenRoadmap[x] = roadmap[x] /\ SeenGap[a] = analysis[a].missing
      BY <1>2, <2>1, <2>5, Views DEF KInv, PlansHold
    <2>7. /\ SeenRoadmap'[x] = roadmap'[x]
          /\ \A p \in Profiles : SeenProfile'[p] = SeenProfile[p]
          /\ \A o \in Analyses : SeenGap'[o] = SeenGap[o]
          /\ \A o \in Roadmaps \ {x} : SeenRoadmap'[o] = SeenRoadmap[o]
      BY <1>1, <1>2, <2>2, <2>5, Tables, Views, ViewsNext
    <2>8. s \in SeenGap[SeenRoadmap[x].analysis]
      BY <1>4, <2>6 DEF ResourcesOf
    <2>9. SeenRoadmap'[x] = [SeenRoadmap[x] EXCEPT !.done =
                               Flagged(SeenRoadmap[x].done, s, req[w].completed)]
      BY <2>2, <2>6, <2>7
    <2>10. Promised
      <3> HIDE DEF x, s, done, a
      <3> QED
        BY <1>2, <2>5, <2>7, <2>8, <2>9, FlaggedRoadmap
    <2> QED
      BY <1>1, <1>4, <2>3, <2>10, AnswerKeeps DEF Replies
  <1> QED
    BY <1>3, <1>4 DEF UpdateRoadmapMemory

\* The record is stored; nobody sees it yet.
LEMMA InsertMemoryKnown ==
    ASSUME Inv, KInv, NEW w \in Workers, Alone(w), InsertMemory(w)
    PROVE  KInv' /\ Promised
  <1>1. ~Sql /\ pc[w] = "insert" /\ req[w].op \in Creations /\ UNCHANGED <<backend, owner, dirty>>
        /\ pc' = [pc EXCEPT ![w] = "own"]
    BY DEF InsertMemory, At, Goto
  <1>2. PICK i \in Fresh(req[w].op) :
          /\ author' = [author EXCEPT ![i] = req[w].user]
          /\ req' = [req EXCEPT ![w].id = i]
          /\ profile' = IF i \in Profiles THEN [profile EXCEPT ![i] = req[w].row] ELSE profile
          /\ analysis' = IF i \in Analyses THEN [analysis EXCEPT ![i] = NewAnalysis(w)] ELSE analysis
          /\ roadmap' = IF i \in Roadmaps THEN [roadmap EXCEPT ![i] = NewRoadmap(w)] ELSE roadmap
    BY DEF InsertMemory
  <1>3. PICK q : q = [req[w] EXCEPT !.id = i]
    OBVIOUS
  <1>4. /\ Known(req[w], "insert", FALSE) /\ Fits(req[w], "insert", FALSE)
        /\ req[w].user \in Users /\ req[w].user # NoUser /\ req[w] \in Request
    BY <1>1, Holds, UnderWay
  <1>5. i \in TableOf(req[w].op) /\ i \in Ids /\ author[i] = NoUser /\ owner[i] = NoUser
    BY <1>1, <1>2, <1>4, FreshIds
  <1>6. q.id = i /\ \A f \in DOMAIN NoRequest \ {"id"} : q[f] = req[w][f]
    BY <1>3, <1>4 DEF Request, NoRequest
  <1>7. /\ req[w].op = "create_profile" => i \in Profiles /\ i \notin Analyses /\ i \notin Roadmaps
        /\ req[w].op = "create_analysis" => i \in Analyses /\ i \notin Profiles /\ i \notin Roadmaps
        /\ req[w].op = "create_roadmap" => i \in Roadmaps /\ i \notin Profiles /\ i \notin Analyses
    BY <1>5, DataAssumption DEF TableOf
  <1>8. /\ \A p \in Profiles \ {i} : profile'[p] = profile[p]
        /\ \A a \in Analyses \ {i} : analysis'[a] = analysis[a]
        /\ \A r \in Roadmaps \ {i} : roadmap'[r] = roadmap[r]
        /\ req[w].op = "create_profile" => profile'[i] = q.row
        /\ req[w].op = "create_analysis" =>
              analysis'[i] \in AnalysisRow /\ analysis'[i].missing = Missing(q.row)
        /\ req[w].op = "create_roadmap" => roadmap'[i] = [analysis |-> q.ref, done |-> {}]
    <2>1. /\ \A p \in Profiles \ {i} : profile'[p] = profile[p]
          /\ \A a \in Analyses \ {i} : analysis'[a] = analysis[a]
          /\ \A r \in Roadmaps \ {i} : roadmap'[r] = roadmap[r]
          /\ i \in Profiles => profile'[i] = req[w].row
          /\ i \in Analyses => analysis'[i] = NewAnalysis(w)
          /\ i \in Roadmaps => roadmap'[i] = NewRoadmap(w)
      BY <1>2 DEF Inv, TypeOK
    <2>2. q.row = req[w].row /\ q.ref = req[w].ref
      BY <1>6 DEF NoRequest
    <2>3. NewAnalysis(w).missing = Missing(req[w].row)
      BY DEF NewAnalysis
    <2>4. req[w].op = "create_analysis" => NewAnalysis(w) \in AnalysisRow
      BY NewRowTypes DEF Inv, HandlerInv
    <2> QED
      BY <1>7, <2>1, <2>2, <2>3, <2>4 DEF NewRoadmap
  <1>9. q.op = req[w].op /\ q.ref = req[w].ref /\ q.user = req[w].user /\ q.row = req[w].row
    BY <1>6 DEF NoRequest
  <1>10. /\ req[w].op = "create_profile" => ValidSkills(q.row.skills)
         /\ req[w].op = "create_analysis" => /\ q.ref \in Profiles \ {i}
                                             /\ ProfileVisible(q.ref, q.user) /\ q.row = profile[q.ref]
         /\ req[w].op = "create_roadmap" => q.ref \in Analyses \ {i} /\ AnalysisVisible(q.ref, q.user)
    BY <1>4, <1>7, <1>9 DEF Known, Fits
  <1>11. Known(q, "own", FALSE)'
    <2>1. owner'[q.id] = NoUser /\ ~Sql'
      BY <1>1, <1>5, <1>6 DEF Sql
    <2>2. q.op = "create_analysis" => ProfileVisible(q.ref, q.user)' /\ q.row = profile'[q.ref]
      BY <1>1, <1>8, <1>9, <1>10 DEF ProfileVisible
    <2>3. q.op = "create_roadmap" => AnalysisVisible(q.ref, q.user)'
      BY <1>1, <1>8, <1>9, <1>10 DEF AnalysisVisible
    <2> QED
      BY <1>1, <1>6, <1>8, <1>9, <1>10, <2>1, <2>2, <2>3, Absent DEF Known, Creations
  <1>12. PlansHold'
    <2>1. \A r \in Roadmaps : roadmap[r] # NoRow => roadmap[r].analysis \in Analyses
      BY DEF Inv, TypeOK, RoadmapRow
    <2>2. i \in Analyses => req[w].op = "create_analysis"
      BY <1>1, <1>7 DEF Creations
    <2>3. i \in Roadmaps => req[w].op = "create_roadmap"
      BY <1>1, <1>7 DEF Creations
    <2>4. \A a \in Analyses : analysis[a] # NoRow => analysis'[a] # NoRow
      BY <1>8, <2>2, Absent
    <2>5. ASSUME NEW r \in Roadmaps \ {i}, roadmap'[r] # NoRow
          PROVE  analysis'[roadmap'[r].analysis] # NoRow /\ owner'[roadmap'[r].analysis] # NoUser
      BY <1>1, <1>8, <2>1, <2>4, <2>5 DEF KInv, PlansHold
    <2>6. ASSUME i \in Roadmaps
          PROVE  analysis'[roadmap'[i].analysis] # NoRow /\ owner'[roadmap'[i].analysis] # NoUser
      <3>1. roadmap'[i].analysis = q.ref
        BY <1>8, <2>3, <2>6
      <3> QED
        BY <1>1, <1>4, <1>9, <1>10, <2>3, <2>4, <2>6, <3>1 DEF AnalysisVisible
    <2> QED
      BY <2>5, <2>6 DEF PlansHold
  <1>13. KInv'
    <2>1. req' = [req EXCEPT ![w] = q] /\ dirty' = [dirty EXCEPT ![w] = FALSE]
      BY <1>1, <1>2, <1>3, UnderWay DEF Inv, TypeOK
    <2> QED
      BY <1>1, <1>11, <1>12, <2>1, OneWorker
  <1>14. Promised
    <2>1. ~Sql'
      BY <1>1 DEF Sql
    <2>2. \A j \in Ids : OwnerOf'[j] = OwnerOf[j]
      BY <1>1, <2>1, Views, ViewsNext DEF Ids
    <2> QED
      BY <1>1, <1>5, <1>8, <2>1, <2>2, Tables, Views, ViewsNext, Stutter
  <1> QED
    BY <1>13, <1>14

\* The owner comes, and with the owner the row.
LEMMA OwnKnown ==
    ASSUME Inv, KInv, NEW w \in Workers, Alone(w), Own(w)
    PROVE  KInv' /\ Promised
  <1> DEFINE i == req[w].id
             u == req[w].user
  <1>1. /\ pc[w] = "own" /\ req[w].op \in Creations
        /\ owner' = [owner EXCEPT ![i] = u]
        /\ Answer(w, Serialized(w)) /\ Serialized(w) \in Replies
        /\ UNCHANGED <<profile, analysis, roadmap, author, dirty>>
    BY DEF Own, At, Serialized, Replies, Errors
  <1>2. /\ Known(req[w], "own", FALSE) /\ Fits(req[w], "own", FALSE)
        /\ u \in Users /\ u # NoUser
    BY <1>1, Holds
  <1>3. ~Sql /\ ~Sql' /\ i \in TableOf(req[w].op) /\ i \in Ids /\ owner[i] = NoUser
    BY <1>1, <1>2, Tables DEF Known, Fits, Answer, Goto, Sql
  <1>4. owner'[i] = u /\ \A j \in Ids \ {i} : owner'[j] = owner[j]
    BY <1>1, <1>3 DEF Inv, TypeOK
  <1>5. KInv'
    <2>1. \A r \in Roadmaps : roadmap[r] # NoRow => roadmap[r].analysis \in Ids
      BY Tables DEF Inv, TypeOK, RoadmapRow
    <2>2. PlansHold'
      BY <1>1, <1>2, <1>4, <2>1 DEF KInv, PlansHold
    <2> QED
      BY <1>1, <2>2, AnswerKeeps
  <1>6. /\ OwnerOf[i] = NoUser /\ OwnerOf'[i] = u
        /\ \A j \in Ids \ {i} : OwnerOf'[j] = OwnerOf[j]
    BY <1>3, <1>4, Views, ViewsNext DEF Ids
  <1>7. /\ \A o \in Profiles \ {i} : SeenProfile'[o] = SeenProfile[o]
        /\ \A o \in Analyses \ {i} : SeenGap'[o] = SeenGap[o]
        /\ \A o \in Roadmaps \ {i} : SeenRoadmap'[o] = SeenRoadmap[o]
    BY <1>1, <1>6, Tables, Views, ViewsNext
  <1>8. CASE req[w].op = "create_profile"
    <2>1. i \in Profiles /\ i \notin Analyses /\ i \notin Roadmaps
      BY <1>3, <1>8, DataAssumption DEF TableOf
    <2>2. /\ SeenProfile'[i] = req[w].row /\ req[w].row \in ProfileRow
          /\ ValidSkills(req[w].row.skills)
      BY <1>1, <1>2, <1>6, <1>8, <2>1, ViewsNext DEF Known, Fits
    <2> QED
      BY <1>2, <1>5, <1>6, <1>7, <2>1, <2>2, CreatedProfile
  <1>9. CASE req[w].op = "create_analysis"
    <2> DEFINE p == req[w].ref
    <2>1. i \in Analyses /\ i \notin Profiles /\ i \notin Roadmaps
      BY <1>3, <1>9, DataAssumption DEF TableOf
    <2>2. p \in Profiles /\ ProfileVisible(p, u) /\ req[w].row = profile[p]
      BY <1>2, <1>9 DEF Known, Fits
    <2>3. OwnerOf[p] = u /\ SeenProfile[p] = profile[p]
      BY <1>2, <2>2, Views DEF ProfileVisible
    <2>4. analysis[i] # NoRow /\ analysis[i].missing = Missing(req[w].row)
      BY <1>2, <1>9 DEF Known
    <2>5. SeenGap'[i] = Missing(SeenProfile[p])
      BY <1>1, <1>2, <1>6, <2>1, <2>2, <2>3, <2>4, ViewsNext
    <2> QED
      BY <1>2, <1>5, <1>6, <1>7, <2>1, <2>2, <2>3, <2>5, Analyzed
  <1>10. CASE req[w].op = "create_roadmap"
    <2> DEFINE a == req[w].ref
    <2>1. i \in Roadmaps /\ i \notin Profiles /\ i \notin Analyses
      BY <1>3, <1>10, DataAssumption DEF TableOf
    <2>2. a \in Analyses /\ AnalysisVisible(a, u) /\ roadmap[i] = [analysis |-> a, done |-> {}]
      BY <1>2, <1>10 DEF Known, Fits
    <2>3. OwnerOf[a] = u /\ SeenRoadmap'[i] = [analysis |-> a, done |-> {}]
      BY <1>1, <1>2, <1>6, <2>1, <2>2, Views, ViewsNext DEF AnalysisVisible
    <2> QED
      BY <1>2, <1>5, <1>6, <1>7, <2>1, <2>2, <2>3, Planned
  <1> QED
    BY <1>1, <1>8, <1>9, <1>10 DEF Creations

-----------------------------------------------------------------------------
(***************************************************************************)
(* The commit                                                              *)
(***************************************************************************)

\* A session that has written nothing commits nothing.
LEMMA CommitNothing ==
    ASSUME Inv, NEW w \in Workers, ~dirty[w], Commit(w) PROVE UNCHANGED store
  <1>1. \A op, i : ~Writes(w, op, i)
    BY DEF Writes
  <1>2. /\ profile' = [p \in Profiles |-> profile[p]] /\ analysis' = [a \in Analyses |-> analysis[a]]
        /\ roadmap' = [r \in Roadmaps |-> roadmap[r]] /\ owner' = [i \in Ids |-> owner[i]]
    BY <1>1 DEF Commit
  <1> QED
    BY <1>2 DEF Inv, TypeOK, store

\* An analysis loses its link at most.
SameGap(a) ==
    /\ analysis'[a] = NoRow <=> analysis[a] = NoRow
    /\ analysis[a] # NoRow => analysis'[a].missing = analysis[a].missing

\* What a commit changes, row by row.
LEMMA CommitRows ==
    ASSUME Inv, NEW w \in Workers, dirty[w], Commit(w)
    PROVE  /\ \A p \in Profiles : profile'[p] =
                  IF req[w].op = "create_profile" /\ p = req[w].id THEN req[w].row
                  ELSE IF req[w].op = "patch_profile" /\ p = req[w].id THEN Merged(w, profile[p])
                  ELSE IF req[w].op = "delete_profile" /\ p = req[w].id THEN NoRow
                  ELSE profile[p]
           /\ \A a \in Analyses :
                  IF req[w].op = "create_analysis" /\ a = req[w].id
                  THEN analysis'[a] = NewAnalysis(w) ELSE SameGap(a)
           /\ \A r \in Roadmaps : roadmap'[r] =
                  IF req[w].op = "create_roadmap" /\ r = req[w].id THEN NewRoadmap(w)
                  ELSE IF req[w].op = "patch_resource" /\ r = req[w].id
                  THEN [roadmap[r] EXCEPT !.done = req[w].done]
                  ELSE roadmap[r]
           /\ \A i \in Ids : owner'[i] =
                  IF req[w].op \in {"create_profile", "create_analysis"} /\ i = req[w].id THEN req[w].user
                  ELSE IF req[w].op = "delete_profile" /\ i = req[w].id THEN NoUser
                  ELSE owner[i]
  <1>1. \A op, i : Writes(w, op, i) <=> req[w].op = op /\ req[w].id = i
    BY DEF Writes
  <1>2. \A a \in Analyses :
           /\ req[w].op = "create_analysis" /\ a = req[w].id => analysis'[a] = NewAnalysis(w)
           /\ ~(req[w].op = "create_analysis" /\ a = req[w].id) =>
                 \/ analysis'[a] = analysis[a]
                 \/ analysis[a] # NoRow /\ analysis'[a] = [analysis[a] EXCEPT !.profile = NoId]
    BY <1>1 DEF Commit
  <1>3. \A a \in Analyses : analysis[a] # NoRow =>
           /\ [analysis[a] EXCEPT !.profile = NoId] \in AnalysisRow
           /\ [analysis[a] EXCEPT !.profile = NoId].missing = analysis[a].missing
    BY DEF Inv, TypeOK, AnalysisRow
  <1>4. \A a \in Analyses : ~(req[w].op = "create_analysis" /\ a = req[w].id) => SameGap(a)
    BY <1>2, <1>3, Absent DEF SameGap
  <1>5. \A i : (\E op \in Creations : Writes(w, op, i)) <=> req[w].op \in Creations /\ i = req[w].id
    BY <1>1
  <1>6. \A i \in Ids : owner'[i] =
                  IF req[w].op \in {"create_profile", "create_analysis"} /\ i = req[w].id THEN req[w].user
                  ELSE IF req[w].op = "delete_profile" /\ i = req[w].id THEN NoUser
                  ELSE owner[i]
    <2>1. req[w].op \in Creations => req[w].id \in TableOf(req[w].op)
      BY DEF Inv, HandlerInv, Fits
    <2>2. ASSUME NEW i \in Ids
          PROVE  i \in Profiles \cup Analyses /\ req[w].op \in Creations /\ i = req[w].id
                 <=> req[w].op \in {"create_profile", "create_analysis"} /\ i = req[w].id
      BY <2>1, DataAssumption DEF TableOf, Creations
    <2>3. \A i \in Ids : owner'[i] =
             IF i \in Profiles \cup Analyses /\ req[w].op \in Creations /\ i = req[w].id THEN req[w].user
             ELSE IF req[w].op = "delete_profile" /\ i = req[w].id THEN NoUser ELSE owner[i]
      BY <1>1, <1>5 DEF Commit
    <2> QED
      BY <2>2, <2>3
  <1>7. \A p \in Profiles : profile'[p] =
                     IF req[w].op = "create_profile" /\ p = req[w].id THEN req[w].row
                     ELSE IF req[w].op = "patch_profile" /\ p = req[w].id THEN Merged(w, profile[p])
                     ELSE IF req[w].op = "delete_profile" /\ p = req[w].id THEN NoRow ELSE profile[p]
    BY <1>1 DEF Commit
  <1>8. \A r \in Roadmaps : roadmap'[r] =
                     IF req[w].op = "create_roadmap" /\ r = req[w].id THEN NewRoadmap(w)
                     ELSE IF req[w].op = "patch_resource" /\ r = req[w].id
                     THEN [roadmap[r] EXCEPT !.done = req[w].done]
                     ELSE roadmap[r]
    BY <1>1 DEF Commit
  <1> QED
    BY <1>2, <1>4, <1>6, <1>7, <1>8

\* The columns that differ from what was loaded, over what was loaded, are
\* the patched row.
LEMMA MergedIsPatched ==
    ASSUME NEW w \in Workers, req[w].row \in ProfileRow, req[w].base \in ProfileRow
    PROVE  Merged(w, req[w].base) = req[w].row
  BY DEF Merged, ProfileRow

\* A roadmap hangs on an analysis, not on a profile.
LEMMA PlansOn ==
    ASSUME Inv PROVE \A r \in Roadmaps : roadmap[r] # NoRow => roadmap[r].analysis \in Analyses
  BY DEF Inv, TypeOK, RoadmapRow

\* The plans hold after a commit.
LEMMA CommitPlans ==
    ASSUME Inv, KInv, NEW w \in Workers, dirty[w], Commit(w)
    PROVE  PlansHold'
  <1> DEFINE id == req[w].id
  <1>1. /\ Known(req[w], pc[w], TRUE) /\ Fits(req[w], pc[w], TRUE)
        /\ req[w].user \in Users /\ req[w].user # NoUser
    <2>1. dirty[w] = TRUE /\ Fits(req[w], pc[w], dirty[w]) /\ Known(req[w], pc[w], dirty[w])
      BY DEF Inv, TypeOK, HandlerInv, KInv
    <2> QED
      BY <2>1, Absent DEF Fits
  <1>2. \A a \in Analyses : analysis[a] # NoRow => analysis'[a] # NoRow
    BY CommitRows, NewRowTypes, Absent DEF Inv, HandlerInv, SameGap
  <1>3. \A a \in Analyses : owner[a] # NoUser => owner'[a] # NoUser
    <2>1. req[w].op = "delete_profile" => id \in Profiles
      BY <1>1 DEF Fits
    <2> QED
      BY <1>1, <2>1, CommitRows, Tables, DataAssumption
  <1> SUFFICES ASSUME NEW r \in Roadmaps, roadmap'[r] # NoRow
               PROVE  analysis'[roadmap'[r].analysis] # NoRow /\ owner'[roadmap'[r].analysis] # NoUser
    BY DEF PlansHold
  <1>4. CASE req[w].op = "create_roadmap" /\ r = id
    <2>0. roadmap'[r] = NewRoadmap(w)
      BY <1>4, CommitRows
    <2>1. roadmap'[r].analysis = req[w].ref
      BY <2>0 DEF NewRoadmap
    <2>2. req[w].ref \in Analyses /\ AnalysisVisible(req[w].ref, req[w].user)
      BY <1>1, <1>4 DEF Known, Fits
    <2> QED
      BY <1>1, <1>2, <1>3, <2>1, <2>2 DEF AnalysisVisible
  <1>5. CASE req[w].op = "patch_resource" /\ r = id
    <2>0. roadmap'[r] = [roadmap[r] EXCEPT !.done = req[w].done]
      BY <1>5, CommitRows
    <2>1. roadmap[r] # NoRow /\ roadmap[r] \in RoadmapRow
      BY <1>1, <1>5 DEF Known, RoadmapVisible, Inv, TypeOK
    <2>2. roadmap'[r].analysis = roadmap[r].analysis
      BY <2>0, <2>1 DEF RoadmapRow
    <2> QED
      BY <1>2, <1>3, <2>1, <2>2, PlansOn DEF KInv, PlansHold
  <1>6. CASE ~(req[w].op \in {"create_roadmap", "patch_resource"} /\ r = id)
    <2>1. roadmap'[r] = roadmap[r]
      BY <1>6, CommitRows
    <2> QED
      BY <1>2, <1>3, <2>1, PlansOn DEF KInv, PlansHold
  <1> QED
    BY <1>4, <1>5, <1>6

\* The commit of a write is the one step of its request.
LEMMA CommitPromise ==
    ASSUME Inv, KInv, NEW w \in Workers, dirty[w], Commit(w), UNCHANGED backend
    PROVE  Promised
  <1> DEFINE op == req[w].op
             i == req[w].id
             u == req[w].user
  <1>1. /\ Known(req[w], pc[w], TRUE) /\ Fits(req[w], pc[w], TRUE) /\ pc[w] = "teardown"
        /\ u \in Users /\ u # NoUser /\ op \in Ops /\ Sql /\ Sql' /\ req[w] \in Request
    <2>1. dirty[w] = TRUE /\ Fits(req[w], pc[w], dirty[w]) /\ Known(req[w], pc[w], dirty[w])
      BY DEF Inv, TypeOK, HandlerInv, KInv
    <2> QED
      BY <2>1, Absent DEF Fits, Sql
  <1>2. \A r \in Roadmaps : roadmap[r] # NoRow => roadmap[r].analysis \in Analyses
    BY PlansOn
  <1>3. \A r \in Roadmaps : roadmap[r] # NoRow => owner[roadmap[r].analysis] # NoUser
    BY DEF KInv, PlansHold
  <1>4. CASE op = "create_profile"
    <2>1. /\ i \in Profiles /\ i \notin Analyses /\ i \notin Roadmaps
          /\ owner[i] = NoUser /\ req[w].row \in ProfileRow /\ ValidSkills(req[w].row.skills)
      BY <1>1, <1>4, DataAssumption DEF Known, Fits, Creations, TableOf
    <2>2. /\ profile'[i] = req[w].row /\ owner'[i] = u
          /\ \A p \in Profiles \ {i} : profile'[p] = profile[p]
          /\ \A a \in Analyses : SameGap(a)
          /\ \A r \in Roadmaps : roadmap'[r] = roadmap[r]
          /\ \A j \in Ids \ {i} : owner'[j] = owner[j]
      BY <1>4, <2>1, CommitRows, Tables
    <2>3. \A r \in Roadmaps : OwnerOf'[r] = OwnerOf[r]
      BY <1>1, <1>2, <2>1, <2>2, Tables, Views, ViewsNext
    <2>4. /\ OwnerOf[i] = NoUser /\ OwnerOf'[i] = u
          /\ \A j \in Ids \ {i} : OwnerOf'[j] = OwnerOf[j]
      BY <2>1, <2>2, <2>3, Views, ViewsNext DEF Ids
    <2>5. /\ SeenProfile'[i] = req[w].row
          /\ \A p \in Profiles \ {i} : SeenProfile'[p] = SeenProfile[p]
          /\ \A a \in Analyses : SeenGap'[a] = SeenGap[a]
          /\ \A r \in Roadmaps : SeenRoadmap'[r] = SeenRoadmap[r]
      BY <1>1, <2>1, <2>2, <2>3, <2>4, Tables, Views, ViewsNext DEF SameGap
    <2> QED
      BY <1>1, <2>1, <2>4, <2>5, CreatedProfile
  <1>5. CASE op = "patch_profile"
    <2>1. /\ i \in Profiles /\ ProfileVisible(i, u) /\ req[w].patch \in Patches
          /\ req[w].row = Patched(profile[i], req[w].patch) /\ ValidSkills(req[w].row.skills)
          /\ req[w].base = profile[i] /\ req[w].base \in ProfileRow /\ req[w].row \in ProfileRow
      BY <1>1, <1>5 DEF Known, Fits
    <2>2. /\ profile'[i] = Merged(w, profile[i])
          /\ \A p \in Profiles \ {i} : profile'[p] = profile[p]
          /\ \A a \in Analyses : SameGap(a)
          /\ \A r \in Roadmaps : roadmap'[r] = roadmap[r]
          /\ \A j \in Ids : owner'[j] = owner[j]
      <3>1. /\ profile'[i] = Merged(w, profile[i])
            /\ \A p \in Profiles \ {i} : profile'[p] = profile[p]
        BY <1>5, <2>1, CommitRows
      <3>2. /\ \A a \in Analyses : SameGap(a)
            /\ \A j \in Ids : owner'[j] = owner[j]
        BY <1>5, CommitRows
      <3>3. \A r \in Roadmaps : roadmap'[r] = roadmap[r]
        BY <1>5, CommitRows
      <3> QED
        BY <3>1, <3>2, <3>3
    <2>3. profile'[i] = req[w].row
      BY <2>1, <2>2, MergedIsPatched
    <2>4. \A r \in Roadmaps : OwnerOf'[r] = OwnerOf[r]
      BY <1>1, <1>2, <2>2, Tables, Views, ViewsNext
    <2>5. OwnerOf[i] = u /\ \A j \in Ids : OwnerOf'[j] = OwnerOf[j]
      BY <2>1, <2>2, <2>4, Views, ViewsNext DEF Ids, ProfileVisible
    <2>6. /\ SeenProfile[i] = profile[i] /\ SeenProfile'[i] = req[w].row
          /\ \A p \in Profiles \ {i} : SeenProfile'[p] = SeenProfile[p]
          /\ \A a \in Analyses : SeenGap'[a] = SeenGap[a]
          /\ \A r \in Roadmaps : SeenRoadmap'[r] = SeenRoadmap[r]
      BY <1>1, <2>1, <2>2, <2>3, <2>5, Tables, Views, ViewsNext DEF SameGap
    <2> QED
      BY <1>1, <2>1, <2>5, <2>6, PatchedProfile
  <1>6. CASE op = "delete_profile"
    <2>1. i \in Profiles /\ i \notin Analyses /\ i \notin Roadmaps /\ ProfileVisible(i, u)
      BY <1>1, <1>6, DataAssumption DEF Known, Fits
    <2>2. /\ profile'[i] = NoRow /\ owner'[i] = NoUser
          /\ \A p \in Profiles \ {i} : profile'[p] = profile[p]
          /\ \A a \in Analyses : SameGap(a)
          /\ \A r \in Roadmaps : roadmap'[r] = roadmap[r]
          /\ \A j \in Ids \ {i} : owner'[j] = owner[j]
      BY <1>6, <2>1, CommitRows, Tables
    <2>3. \A r \in Roadmaps : OwnerOf'[r] = OwnerOf[r]
      BY <1>1, <1>2, <2>1, <2>2, Tables, Views, ViewsNext
    <2>4. /\ OwnerOf[i] = u /\ OwnerOf'[i] = NoUser
          /\ \A j \in Ids \ {i} : OwnerOf'[j] = OwnerOf[j]
      BY <2>1, <2>2, <2>3, Views, ViewsNext DEF Ids, ProfileVisible
    <2>5. /\ SeenProfile'[i] = NoRow
          /\ \A p \in Profiles \ {i} : SeenProfile'[p] = SeenProfile[p]
          /\ \A a \in Analyses : SeenGap'[a] = SeenGap[a]
          /\ \A r \in Roadmaps : SeenRoadmap'[r] = SeenRoadmap[r]
      BY <2>1, <2>2, <2>3, <2>4, Tables, Views, ViewsNext DEF SameGap
    <2> QED
      BY <1>1, <2>1, <2>4, <2>5, DeletedProfile
  <1>7. CASE op = "create_analysis"
    <2> DEFINE p == req[w].ref
    <2>1. /\ i \in Analyses /\ i \notin Profiles /\ i \notin Roadmaps /\ owner[i] = NoUser
          /\ p \in Profiles /\ ProfileVisible(p, u) /\ req[w].row = profile[p]
      BY <1>1, <1>7, DataAssumption DEF Known, Fits, Creations, TableOf
    <2>2. /\ analysis'[i] = NewAnalysis(w) /\ owner'[i] = u
          /\ \A o \in Profiles : profile'[o] = profile[o]
          /\ \A a \in Analyses \ {i} : SameGap(a)
          /\ \A r \in Roadmaps : roadmap'[r] = roadmap[r]
          /\ \A j \in Ids \ {i} : owner'[j] = owner[j]
      BY <1>7, <2>1, CommitRows, Tables
    <2>3. analysis'[i] # NoRow /\ analysis'[i].missing = Missing(profile[p])
      <3>1. NewAnalysis(w) \in AnalysisRow
        BY <1>7, NewRowTypes DEF Inv, HandlerInv
      <3> QED
        BY <2>1, <2>2, <3>1, Absent DEF NewAnalysis
    <2>4. \A r \in Roadmaps : OwnerOf'[r] = OwnerOf[r]
      <3>1. \A r \in Roadmaps : roadmap[r] # NoRow => roadmap[r].analysis \in Ids \ {i}
        BY <1>2, <1>3, <2>1, Tables
      <3> QED
        BY <1>1, <2>2, <3>1, Views, ViewsNext
    <2>5. /\ OwnerOf[i] = NoUser /\ OwnerOf'[i] = u /\ OwnerOf[p] = u
          /\ \A j \in Ids \ {i} : OwnerOf'[j] = OwnerOf[j]
      BY <2>1, <2>2, <2>4, Views, ViewsNext DEF Ids, ProfileVisible
    <2>6. /\ SeenProfile[p] = profile[p] /\ SeenGap'[i] = Missing(SeenProfile[p])
          /\ \A o \in Profiles : SeenProfile'[o] = SeenProfile[o]
          /\ \A a \in Analyses \ {i} : SeenGap'[a] = SeenGap[a]
          /\ \A r \in Roadmaps : SeenRoadmap'[r] = SeenRoadmap[r]
      BY <1>1, <2>1, <2>2, <2>3, <2>4, <2>5, Tables, Views, ViewsNext DEF SameGap
    <2> QED
      BY <1>1, <2>1, <2>5, <2>6, Analyzed
  <1>8. CASE op = "create_roadmap"
    <2> DEFINE a == req[w].ref
    <2>1. /\ i \in Roadmaps /\ i \notin Profiles /\ i \notin Analyses /\ roadmap[i] = NoRow
          /\ a \in Analyses /\ AnalysisVisible(a, u)
      BY <1>1, <1>8, DataAssumption DEF Known, Fits, Creations, TableOf
    <2>2. /\ roadmap'[i] = NewRoadmap(w)
          /\ \A p \in Profiles : profile'[p] = profile[p]
          /\ \A o \in Analyses : SameGap(o)
          /\ \A r \in Roadmaps \ {i} : roadmap'[r] = roadmap[r]
          /\ \A j \in Ids : owner'[j] = owner[j]
      BY <1>8, <2>1, CommitRows, Tables
    <2>3. /\ roadmap'[i] = [analysis |-> a, done |-> {}] /\ roadmap'[i].analysis = a
          /\ roadmap'[i] \in RoadmapRow /\ roadmap'[i] # NoRow
      BY <2>1, <2>2, Absent DEF NewRoadmap, RoadmapRow
    <2>4. \A r \in Roadmaps \ {i} : OwnerOf'[r] = OwnerOf[r]
      BY <1>1, <1>2, <2>2, Tables, Views, ViewsNext
    <2>5. OwnerOf[i] = NoUser /\ OwnerOf'[i] = u
      BY <1>1, <2>1, <2>2, <2>3, Tables, Views, ViewsNext DEF AnalysisVisible
    <2>6. OwnerOf[a] = u /\ \A j \in Ids \ {i} : OwnerOf'[j] = OwnerOf[j]
      BY <2>1, <2>2, <2>4, Views, ViewsNext DEF Ids, AnalysisVisible
    <2>7. /\ SeenRoadmap'[i] = [analysis |-> a, done |-> {}]
          /\ \A p \in Profiles : SeenProfile'[p] = SeenProfile[p]
          /\ \A o \in Analyses : SeenGap'[o] = SeenGap[o]
          /\ \A r \in Roadmaps \ {i} : SeenRoadmap'[r] = SeenRoadmap[r]
      BY <1>1, <2>1, <2>2, <2>3, <2>4, <2>5, <2>6, Tables, Views, ViewsNext DEF SameGap
    <2> QED
      BY <1>1, <2>1, <2>5, <2>6, <2>7, Planned
  <1>9. CASE op = "patch_resource"
    <2> DEFINE s == req[w].resource
               a == roadmap[i].analysis
               done == Flagged(roadmap[i].done, s, req[w].completed)
    <2>1. /\ i \in Roadmaps /\ s \in Skills /\ RoadmapVisible(i, u) /\ s \in ResourcesOf(i)
          /\ req[w].done = done /\ req[w].completed \in BOOLEAN
      BY <1>1, <1>9 DEF Known, Fits, Request
    <2>2. /\ roadmap'[i] = [roadmap[i] EXCEPT !.done = req[w].done]
          /\ \A p \in Profiles : profile'[p] = profile[p]
          /\ \A o \in Analyses : SameGap(o)
          /\ \A r \in Roadmaps \ {i} : roadmap'[r] = roadmap[r]
          /\ \A j \in Ids : owner'[j] = owner[j]
      BY <1>9, <2>1, CommitRows, Tables
    <2>3. /\ roadmap[i] # NoRow /\ roadmap[i] \in RoadmapRow /\ a \in Analyses
          /\ analysis[a] # NoRow /\ owner[a] # NoUser
      BY <1>2, <2>1 DEF RoadmapVisible, KInv, PlansHold, Inv, TypeOK
    <2>4. roadmap'[i].analysis = a /\ roadmap'[i] # NoRow
      <3>1. req[w].done \subseteq Skills
        BY <1>1 DEF Request
      <3>2. roadmap'[i] \in RoadmapRow /\ roadmap'[i].analysis = a
        BY <2>2, <2>3, <3>1 DEF RoadmapRow
      <3> QED
        BY <3>2, Absent
    <2>5. \A r \in Roadmaps : OwnerOf'[r] = OwnerOf[r]
      <3>1. OwnerOf'[i] = owner'[a] /\ OwnerOf[i] = owner[a]
        <4>1. OwnerOf'[i] = owner'[roadmap'[i].analysis]
          BY <1>1, <2>1, <2>4, ViewsNext
        <4>2. OwnerOf[i] = owner[a]
          BY <1>1, <2>1, <2>3, Views
        <4> QED
          BY <2>4, <4>1, <4>2
      <3> QED
        BY <1>1, <1>2, <2>2, <2>3, <3>1, Tables, Views, ViewsNext
    <2>6. OwnerOf[i] = u /\ \A j \in Ids : OwnerOf'[j] = OwnerOf[j]
      BY <1>1, <2>1, <2>2, <2>5, Views, ViewsNext DEF Ids, RoadmapVisible
    <2>7. /\ SeenRoadmap[i] = roadmap[i] /\ SeenGap[a] = analysis[a].missing
          /\ SeenRoadmap'[i] = roadmap'[i]
          /\ \A p \in Profiles : SeenProfile'[p] = SeenProfile[p]
          /\ \A o \in Analyses : SeenGap'[o] = SeenGap[o]
          /\ \A r \in Roadmaps \ {i} : SeenRoadmap'[r] = SeenRoadmap[r]
      BY <1>1, <2>1, <2>2, <2>3, <2>4, <2>6, Tables, Views, ViewsNext DEF SameGap
    <2> QED
      BY <1>1, <2>1, <2>2, <2>6, <2>7, FlaggedRoadmap DEF ResourcesOf
  <1>10. CASE op \in {"get_profile", "get_analysis"}
    <2>1. /\ \A p \in Profiles : profile'[p] = profile[p]
          /\ \A o \in Analyses : SameGap(o)
          /\ \A r \in Roadmaps : roadmap'[r] = roadmap[r]
          /\ \A j \in Ids : owner'[j] = owner[j]
      <3> op \notin {"create_profile", "patch_profile", "delete_profile",
                     "create_analysis", "create_roadmap", "patch_resource"}
        BY <1>10
      <3>1. \A p \in Profiles : profile'[p] = profile[p]
        BY CommitRows
      <3>2. \A o \in Analyses : SameGap(o)
        BY CommitRows
      <3>3. \A r \in Roadmaps : roadmap'[r] = roadmap[r]
        BY CommitRows
      <3>4. \A j \in Ids : owner'[j] = owner[j]
        BY CommitRows
      <3> QED
        BY <3>1, <3>2, <3>3, <3>4
    <2>2. \A r \in Roadmaps : OwnerOf'[r] = OwnerOf[r]
      BY <1>1, <1>2, <2>1, Tables, Views, ViewsNext
    <2>3. \A j \in Ids : OwnerOf'[j] = OwnerOf[j]
      BY <2>1, <2>2, Views, ViewsNext DEF Ids
    <2> QED
      BY <2>1, <2>3, Tables, Views, ViewsNext, Stutter DEF SameGap
  <1> QED
    BY <1>1, <1>4, <1>5, <1>6, <1>7, <1>8, <1>9, <1>10 DEF Ops, Creations

\* The session is closed, with or without its commit.
LEMMA FinishKnown ==
    ASSUME Inv, KInv, NEW w \in Workers, Alone(w),
           Teardown(w) \/ TeardownCommitFails(w) \/ Crash(w)
    PROVE  KInv' /\ Promised
  <1>1. Finish(w) /\ UNCHANGED backend
    BY DEF Teardown, TeardownCommitFails, Crash, Finish, Goto
  <1>2. /\ pc' = [pc EXCEPT ![w] = "idle"] /\ req' = [req EXCEPT ![w] = NoRequest]
        /\ dirty' = [dirty EXCEPT ![w] = FALSE]
    BY <1>1 DEF Finish, Goto
  <1>3. CASE UNCHANGED store
    BY <1>1, <1>2, <1>3, KnowsNothing, QuietKnown
  <1>4. CASE dirty[w] /\ Commit(w)
    <2>1. Known(NoRequest, "idle", FALSE)'
      BY DEF Known
    <2>2. KInv'
      BY <1>2, <1>4, <2>1, CommitPlans, OneWorker
    <2> QED
      BY <1>1, <1>4, <2>2, CommitPromise
  <1>5. Commit(w) /\ ~dirty[w] => UNCHANGED store
    BY CommitNothing
  <1> QED
    BY <1>3, <1>4, <1>5 DEF Teardown, TeardownCommitFails, Crash

-----------------------------------------------------------------------------
(***************************************************************************)
(* The theorems                                                            *)
(***************************************************************************)

\* Nothing is stored, nothing is known.
LEMMA InitKnown == Init => KInv /\ Store!Init
  <1> SUFFICES ASSUME Init PROVE KInv /\ Store!Init
    OBVIOUS
  <1>1. KInv
    BY KnowsNothing DEF Init, KInv, PlansHold
  <1>2. \A i \in Ids : OwnerOf[i] = NoUser
    BY DEF Init, OwnerOf
  <1>3. OwnerOf = [i \in Ids |-> NoUser]
    BY <1>2 DEF OwnerOf
  <1>4. /\ \A p \in Profiles : Seen(profile, p) = NoRow
        /\ \A a \in Analyses : Seen(analysis, a) = NoRow
        /\ \A r \in Roadmaps : Seen(roadmap, r) = NoRow
    BY <1>2, Tables DEF Seen
  <1>5. Store!Init
    BY <1>3, <1>4, SameData DEF Store!Init
  <1> QED
    BY <1>1, <1>5

\* With one worker every step is a step of the store, or none.
LEMMA NextKnown ==
    ASSUME Inv, KInv, NEW w \in Workers, Alone(w), [Next]_vars
    PROVE  KInv' /\ Promised
  <1>1. CASE UNCHANGED vars
    <2>1. KInv'
      BY <1>1 DEF vars, store, KInv, PlansHold, Known, ProfileVisible, AnalysisVisible,
                  RoadmapVisible, ResourcesOf, Sql
    <2> QED
      BY <1>1, <2>1, QuietStep DEF vars
  <1>2. CASE Start(w)
    BY <1>2, StartKnown
  <1>3. CASE Step(w)
    BY <1>3, AnswersKnown, SqlWritesKnown, GetForPatchKnown, SelectProfileKnown,
       GetForAnalysisKnown, GetForRoadmapKnown, GateResourceKnown, SelectRoadmapKnown,
       InsertSqlKnown, UpdateProfileMemoryKnown, DisownProfileKnown, DeleteProfileMemoryKnown,
       UpdateRoadmapMemoryKnown, InsertMemoryKnown, OwnKnown, FinishKnown DEF Step
  <1>4. CASE Fault(w)
    BY <1>4, AnswersKnown, FinishKnown DEF Fault
  <1> QED
    BY <1>1, <1>2, <1>3, <1>4 DEF Next, Alone

\* With one worker what the handler has read holds until it answers.
LEMMA AlwaysKnown ==
    ASSUME NEW w \in Workers, Alone(w) PROVE Spec => []KInv
  <1>1. Inv /\ KInv /\ [Next]_vars => KInv'
    BY NextKnown
  <1> QED
    BY <1>1, InitKnown, AlwaysInv, PTL DEF Spec

\* With one worker, the deployment of entrypoint.sh, the handlers of profiles,
\* analyses and roadmaps implement OwnedStore: every request is one atomic step
\* on the rows of its user, on memory, SQLite and PostgreSQL alike, whatever
\* fails, for any number of users, rows and skills.
THEOREM HandlersImplementStore ==
    ASSUME NEW w \in Workers, Alone(w) PROVE Spec => StoreSpec
  <1>1. Inv /\ KInv /\ [Next]_vars => KInv' /\ [Store!Next]_(Store!vars)
    BY NextKnown DEF Promised
  <1> QED
    BY <1>1, InitKnown, AlwaysInv, AlwaysKnown, PTL DEF Spec, StoreSpec, Store!Spec

\* A patch changes what it names.
LEMMA PatchNames ==
    ASSUME NEW row \in ProfileRow, NEW patch \in Patches
    PROVE  LET new == Patched(row, patch)
           IN  /\ patch.name = NoName => new.name = row.name
               /\ new.skills \ row.skills \subseteq patch.add
               /\ row.skills \ new.skills \subseteq patch.remove
  BY DEF Patched

\* The profile a step of w writes for a PATCH is the patched one.
LEMMA ProfilePatched ==
    ASSUME Inv, KInv, NEW w \in Workers, Alone(w), Next, req[w].op = "patch_profile",
           NEW p \in Profiles, profile'[p] # profile[p]
    PROVE  /\ profile[p] \in ProfileRow /\ req[w].patch \in Patches
           /\ profile'[p] = Patched(profile[p], req[w].patch)
  <1>1. CASE UpdateProfileMemory(w)
    <2>1. /\ profile' = [profile EXCEPT ![req[w].id] = req[w].row] \/ UNCHANGED profile
          /\ pc[w] = "update"
      BY <1>1 DEF UpdateProfileMemory, At
    <2>2. p = req[w].id /\ profile'[p] = req[w].row
      BY <2>1 DEF Inv, TypeOK
    <2>3. /\ ProfileVisible(p, req[w].user) /\ req[w].patch \in Patches
          /\ req[w].row = Patched(profile[p], req[w].patch)
      BY <2>1, <2>2, Holds DEF Known, Fits
    <2> QED
      BY <2>2, <2>3 DEF ProfileVisible, Inv, TypeOK
  <1>2. CASE dirty[w] /\ Commit(w)
    <2>1. Known(req[w], "teardown", TRUE) /\ Fits(req[w], "teardown", TRUE) /\ Sql
      <3>1. dirty[w] = TRUE /\ Fits(req[w], pc[w], dirty[w]) /\ Known(req[w], pc[w], dirty[w])
        BY <1>2 DEF Inv, TypeOK, HandlerInv, KInv
      <3> QED
        BY <3>1 DEF Fits
    <2>2. p = req[w].id /\ profile'[p] = Merged(w, profile[p])
      BY <1>2, CommitRows
    <2>3. /\ ProfileVisible(p, req[w].user) /\ req[w].patch \in Patches
          /\ req[w].row = Patched(profile[p], req[w].patch)
          /\ req[w].base = profile[p] /\ req[w].base \in ProfileRow /\ req[w].row \in ProfileRow
      BY <2>1, <2>2 DEF Known, Fits
    <2> QED
      BY <2>2, <2>3, MergedIsPatched
  <1>3. Commit(w) => dirty[w]
    BY CommitNothing DEF store
  <1>4. Start(w) \/ Step(w) \/ Fault(w)
    BY DEF Next, Alone
  <1> QED
    <2>1. CASE Teardown(w)
      BY <1>2, <1>3, <2>1 DEF Teardown
    <2>2. CASE DeleteProfileMemory(w) \/ InsertMemory(w)
      BY <2>2 DEF DeleteProfileMemory, InsertMemory, At, Creations
    <2>3. CASE Start(w) \/ Fault(w)
      <3>1. UNCHANGED profile
        BY <2>3 DEF Start, StartCreateProfile, StartProfile, StartAnalysis, StartRoadmap, Begin,
                    Fault, TeardownCommitFails, Crash, StatementFails, Fail, ReadOnly, store
      <3> QED
        BY <3>1
    <2>4. CASE /\ Step(w) /\ ~Teardown(w) /\ ~DeleteProfileMemory(w) /\ ~InsertMemory(w)
               /\ ~UpdateProfileMemory(w)
      <3>1. UNCHANGED profile
        BY <2>4 DEF Step, GetProfile, GetForPatch, SelectProfile, UpdateProfileSql,
                    UpdateProfileFails, DeleteProfileSql, DisownProfile, GetAnalysis,
                    GetForAnalysis, GetForRoadmap, GateResource, SelectRoadmap, Recheck,
                    UpdateRoadmapSql, UpdateRoadmapMemory, InsertSql, InsertFails, Own,
                    Fail, Write, ReadOnly, store
      <3> QED
        BY <3>1
    <2> QED
      BY <1>1, <1>4, <2>1, <2>2, <2>3, <2>4

\* The roadmap a step of w writes for a PATCH has the one flag changed.
LEMMA RoadmapFlagged ==
    ASSUME Inv, KInv, NEW w \in Workers, Alone(w), Next, req[w].op = "patch_resource",
           NEW r \in Roadmaps, roadmap'[r] # roadmap[r]
    PROVE  /\ roadmap[r] \in RoadmapRow
           /\ roadmap'[r].done = Flagged(roadmap[r].done, req[w].resource, req[w].completed)
  <1>1. CASE UpdateRoadmapMemory(w)
    <2> DEFINE x == req[w].id
               done == Flagged(roadmap[x].done, req[w].resource, req[w].completed)
    <2>1. pc[w] = "update" /\ (roadmap' = [roadmap EXCEPT ![x].done = done] \/ UNCHANGED roadmap)
      BY <1>1 DEF UpdateRoadmapMemory, At
    <2>2. r = x /\ roadmap'[r] = [roadmap[x] EXCEPT !.done = done]
      BY <2>1 DEF Inv, TypeOK
    <2>3. RoadmapVisible(r, req[w].user)
      BY <1>1, <2>1, <2>2, Holds DEF Known
    <2>4. roadmap[r] \in RoadmapRow
      BY <2>3 DEF RoadmapVisible, Inv, TypeOK
    <2> QED
      BY <2>2, <2>4 DEF RoadmapRow
  <1>2. CASE dirty[w] /\ Commit(w)
    <2>1. Known(req[w], "teardown", TRUE) /\ Sql
      <3>1. dirty[w] = TRUE /\ Fits(req[w], pc[w], dirty[w]) /\ Known(req[w], pc[w], dirty[w])
        BY <1>2 DEF Inv, TypeOK, HandlerInv, KInv
      <3> QED
        BY <3>1 DEF Fits
    <2>2. r = req[w].id /\ roadmap'[r] = [roadmap[r] EXCEPT !.done = req[w].done]
      <3>1. roadmap'[r] = IF r = req[w].id THEN [roadmap[r] EXCEPT !.done = req[w].done]
                          ELSE roadmap[r]
        BY <1>2, CommitRows
      <3> QED
        BY <3>1
    <2>3. /\ RoadmapVisible(r, req[w].user)
          /\ req[w].done = Flagged(roadmap[r].done, req[w].resource, req[w].completed)
      BY <2>1, <2>2 DEF Known
    <2>4. roadmap[r] \in RoadmapRow
      BY <2>3 DEF RoadmapVisible, Inv, TypeOK
    <2> QED
      BY <2>2, <2>3, <2>4 DEF RoadmapRow
  <1>3. Commit(w) => dirty[w]
    BY CommitNothing DEF store
  <1>4. Start(w) \/ Step(w) \/ Fault(w)
    BY DEF Next, Alone
  <1> QED
    <2>1. CASE Teardown(w)
      BY <1>2, <1>3, <2>1 DEF Teardown
    <2>2. CASE InsertMemory(w)
      BY <2>2 DEF InsertMemory, At, Creations
    <2>3. CASE Start(w) \/ Fault(w)
      <3>1. UNCHANGED roadmap
        BY <2>3 DEF Start, StartCreateProfile, StartProfile, StartAnalysis, StartRoadmap, Begin,
                    Fault, TeardownCommitFails, Crash, StatementFails, Fail, ReadOnly, store
      <3> QED
        BY <3>1
    <2>4. CASE Step(w) /\ ~Teardown(w) /\ ~InsertMemory(w) /\ ~UpdateRoadmapMemory(w)
      <3>1. UNCHANGED roadmap
        BY <2>4 DEF Step, GetProfile, GetForPatch, SelectProfile, UpdateProfileSql,
                    UpdateProfileFails, UpdateProfileMemory, DeleteProfileSql, DisownProfile,
                    DeleteProfileMemory, GetAnalysis, GetForAnalysis, GetForRoadmap, GateResource,
                    SelectRoadmap, Recheck, UpdateRoadmapSql, InsertSql, InsertFails, Own,
                    Fail, Write, ReadOnly, store
      <3> QED
        BY <3>1
    <2> QED
      BY <1>1, <1>4, <2>1, <2>2, <2>3, <2>4

\* A PATCH changes nothing it does not name: the columns and skills of a profile
\* (update_for_user), the one resource of a roadmap (update_resource_for_user).
THEOREM PatchesNameWhatChanges ==
    ASSUME NEW v \in Workers, Alone(v) PROVE Spec => PatchesAreLocal
  <1>1. ASSUME Inv, KInv, Next, NEW w \in Workers
        PROVE  NamesWhatChanges(w)
    <2>1. w = v
      BY DEF Alone
    <2>2. ASSUME NEW p \in Profiles, req[w].op = "patch_profile", profile'[p] # profile[p]
          PROVE  /\ req[w].patch.name = NoName => profile'[p].name = profile[p].name
                 /\ profile'[p].skills \ profile[p].skills \subseteq req[w].patch.add
                 /\ profile[p].skills \ profile'[p].skills \subseteq req[w].patch.remove
      BY <1>1, <2>1, <2>2, ProfilePatched, PatchNames
    <2>3. ASSUME NEW r \in Roadmaps, req[w].op = "patch_resource", roadmap'[r] # roadmap[r]
          PROVE  (roadmap'[r].done \ roadmap[r].done) \cup (roadmap[r].done \ roadmap'[r].done)
                    \subseteq {req[w].resource}
      <3>1. roadmap'[r].done = Flagged(roadmap[r].done, req[w].resource, req[w].completed)
        BY <1>1, <2>1, <2>3, RoadmapFlagged
      <3> QED
        BY <3>1 DEF Flagged
    <2> QED
      BY <2>2, <2>3 DEF NamesWhatChanges
  <1>2. Inv /\ KInv /\ [Next]_vars =>
           [PatchesNameTheirChanges]_vars
    BY <1>1 DEF PatchesNameTheirChanges
  <1>3. Spec => []KInv
    BY AlwaysKnown
  <1> QED
    BY <1>2, <1>3, AlwaysInv, PTL DEF Spec, PatchesAreLocal
=============================================================================
