-------------------------- MODULE ResourcesProofs --------------------------
(***************************************************************************)
(* Proofs about Resources, for every value of its constants.               *)
(***************************************************************************)
EXTENDS Resources, TLAPS

\* Types, what handlers hold, who owns what, what the locks guarantee and the
\* links are inductive together.
Inv == TypeOK /\ HandlerInv /\ OwnershipInv /\ WritesInv /\ LinksHold

\* What a worker that has written must not share with the other workers.
Admits(w, r) ==
    /\ r.op = "patch_profile" =>
          /\ profile[r.id] # NoRow
          /\ \A v \in Workers \ {w} :
                dirty[v] /\ req[v].op = "delete_profile" => req[v].id # r.id
    /\ r.op = "create_analysis" /\ ForeignKeys =>
          /\ profile[r.ref] # NoRow
          /\ \A v \in Workers \ {w} :
                dirty[v] /\ req[v].op = "delete_profile" => req[v].id # r.ref
    /\ r.op = "delete_profile" =>
          \A v \in Workers \ {w} : dirty[v] =>
             /\ req[v].op = "patch_profile" => req[v].id # r.id
             /\ req[v].op = "create_analysis" /\ ForeignKeys => req[v].ref # r.id

\* The request r of worker w, at call s, keeps the invariant.
Sound(w, r, s, d) ==
    /\ Fits(r, s, d)
    /\ Cleared(r, s, d) => OwnRows(r)
    /\ r.op = "patch_resource" /\ (d \/ s \in {"select", "update"}) => roadmap[r.id] # NoRow
    /\ d => Admits(w, r)

-----------------------------------------------------------------------------
(***************************************************************************)
(* Facts about the data                                                    *)
(***************************************************************************)

\* The absent values are not values.
LEMMA Absent ==
    /\ NoUser \notin Users /\ NoId \notin Ids
    /\ NoRow \notin ProfileRow /\ NoRow \notin AnalysisRow /\ NoRow \notin RoadmapRow
  BY DataAssumption

\* The three tables are the ids.
LEMMA Tables ==
    /\ Profiles \subseteq Ids /\ Analyses \subseteq Ids /\ Roadmaps \subseteq Ids
    /\ \A op \in Creations : TableOf(op) \subseteq Ids
  BY DEF Ids, Creations, TableOf

\* A patch makes a profile of a profile.
LEMMA PatchedType ==
    ASSUME NEW row \in ProfileRow, NEW patch \in Patches
    PROVE  Patched(row, patch) \in ProfileRow
  BY DataAssumption DEF Patch, Patched, ProfileRow

\* The idle request.
LEMMA NoRequestType ==
    /\ NoRequest \in Request
    /\ NoRequest.op \notin Ops /\ NoRequest.reply = "none"
    /\ NoRequest.ref = NoId /\ NoRequest.id = NoId
  BY DEF NoRequest, Request, Ops, Creations, Replies

\* A row its user sees is a row its user drew.
LEMMA VisibleIsOwn ==
    ASSUME TypeOK, OwnershipInv, NEW u \in Users
    PROVE  /\ \A p \in Profiles : ProfileVisible(p, u) => author[p] = u
           /\ \A a \in Analyses : AnalysisVisible(a, u) => author[a] = u
           /\ \A r \in Roadmaps : RoadmapVisible(r, u) => author[r] = u
  <1>1. \A i \in Ids : owner[i] = u => author[i] = u
    BY Absent DEF OwnershipInv
  <1>2. \A r \in Roadmaps : roadmap[r] # NoRow => roadmap[r].analysis \in Analyses
    BY DEF TypeOK, RoadmapRow
  <1> QED
    BY <1>1, <1>2, Tables DEF ProfileVisible, AnalysisVisible, RoadmapVisible, OwnershipInv

-----------------------------------------------------------------------------
(***************************************************************************)
(* Steps that touch one worker only                                        *)
(***************************************************************************)

\* What the invariant says of one worker.
LEMMA SoundWorker ==
    ASSUME Inv, NEW w \in Workers
    PROVE  Sound(w, req[w], pc[w], dirty[w])
  BY DEF Inv, HandlerInv, WritesInv, Sound, Admits

\* What handlers hold survives a step of w that keeps w in order, re-draws no
\* id and removes no roadmap.
LEMMA HandlersKept ==
    ASSUME Inv, NEW w \in Workers, NEW r, NEW s, NEW d,
           UNCHANGED backend,
           pc' = [pc EXCEPT ![w] = s], req' = [req EXCEPT ![w] = r],
           dirty' = [dirty EXCEPT ![w] = d],
           Fits(r, s, d),
           Cleared(r, s, d) => OwnRows(r)',
           r.op = "patch_resource" /\ (d \/ s \in {"select", "update"}) => roadmap'[r.id] # NoRow,
           \A i \in Ids : author[i] # NoUser => author'[i] = author[i],
           \A x \in Roadmaps : roadmap[x] # NoRow => roadmap'[x] # NoRow
    PROVE  /\ HandlerInv'
           /\ pc' \in [Workers -> Steps] /\ req' \in [Workers -> Request]
           /\ dirty' \in [Workers -> BOOLEAN] /\ backend' \in Backends
  <1>1. /\ pc'[w] = s /\ req'[w] = r /\ dirty'[w] = d
        /\ \A v \in Workers \ {w} : pc'[v] = pc[v] /\ req'[v] = req[v] /\ dirty'[v] = dirty[v]
    BY DEF Inv, TypeOK
  <1>2. HandlerInv'
    <2> SUFFICES ASSUME NEW v \in Workers
                 PROVE  /\ Fits(req[v], pc[v], dirty[v])'
                        /\ (Cleared(req[v], pc[v], dirty[v]) => OwnRows(req[v]))'
                        /\ (req[v].op = "patch_resource" /\ (dirty[v] \/ pc[v] \in {"select", "update"})
                              => roadmap[req[v].id] # NoRow)'
      BY DEF HandlerInv
    <2>1. CASE v = w
      BY <1>1, <2>1 DEF Fits, Cleared, OwnRows, Sql
    <2>2. CASE v # w
      <3>1. Fits(req[v], pc[v], dirty[v])
        BY DEF Inv, HandlerInv
      <3>2. Fits(req[v], pc[v], dirty[v])'
        BY <1>1, <2>2, <3>1 DEF Fits, Sql
      <3>3. Cleared(req[v], pc[v], dirty[v])' => Cleared(req[v], pc[v], dirty[v])
        BY <1>1, <2>2 DEF Cleared
      <3>4. Cleared(req[v], pc[v], dirty[v]) => OwnRows(req[v]) /\ req[v].user \in Users
        <4>1. Cleared(req[v], pc[v], dirty[v]) => OwnRows(req[v])
          BY DEF Inv, HandlerInv
        <4>2. pc[v] = "idle" => ~Cleared(req[v], pc[v], dirty[v])
          BY <3>1, NoRequestType DEF Fits, Cleared, Concealing
        <4> QED
          BY <3>1, <4>1, <4>2 DEF Fits
      <3>5. req[v].id \in Ids \cup {NoId} /\ req[v].ref \in Ids \cup {NoId}
        BY <3>1 DEF Fits, Request
      <3>6. OwnRows(req[v]) /\ req[v].user \in Users => OwnRows(req[v])'
        BY <1>1, <2>2, <3>5, Absent DEF OwnRows
      <3>7. req[v].op = "patch_resource" => req[v].id \in Roadmaps
        BY <3>1 DEF Fits
      <3>8. req[v].op = "patch_resource" /\ (dirty[v] \/ pc[v] \in {"select", "update"})
              => roadmap[req[v].id] # NoRow
        BY DEF Inv, HandlerInv
      <3> QED
        BY <1>1, <2>2, <3>2, <3>3, <3>4, <3>6, <3>7, <3>8
    <2> QED
      BY <2>1, <2>2
  <1> QED
    BY <1>2 DEF Inv, TypeOK, Fits

\* What the locks guarantee survives a step of w that writes no profile.
LEMMA LocksKept ==
    ASSUME Inv, NEW w \in Workers, NEW r, NEW d,
           UNCHANGED <<backend, profile>>,
           req' = [req EXCEPT ![w] = r], dirty' = [dirty EXCEPT ![w] = d],
           d => Admits(w, r)
    PROVE  WritesInv'
  <1>1. /\ req'[w] = r /\ dirty'[w] = d
        /\ \A v \in Workers \ {w} : req'[v] = req[v] /\ dirty'[v] = dirty[v]
    BY DEF Inv, TypeOK
  <1> SUFFICES ASSUME NEW v \in Workers, dirty'[v], NEW x \in Workers,
                      dirty'[x] /\ req'[x].op = "delete_profile"
               PROVE  /\ req'[v].op = "patch_profile" => req'[x].id # req'[v].id
                      /\ req'[v].op = "create_analysis" /\ ForeignKeys => req'[x].id # req'[v].ref
    <2> SUFFICES ASSUME NEW v \in Workers, dirty'[v]
                 PROVE  /\ req'[v].op = "patch_profile" => profile[req'[v].id] # NoRow
                        /\ req'[v].op = "create_analysis" /\ ForeignKeys => profile[req'[v].ref] # NoRow
      BY DEF WritesInv, ForeignKeys
    <2> QED
      BY <1>1 DEF Inv, WritesInv, Admits
  <1>2. CASE v = w /\ x # w
    BY <1>1, <1>2 DEF Admits
  <1>3. CASE v # w /\ x = w
    BY <1>1, <1>3 DEF Admits
  <1>4. CASE v # w /\ x # w
    BY <1>1, <1>4 DEF Inv, WritesInv
  <1> QED
    BY <1>1, <1>2, <1>3, <1>4

\* A step that leaves the store alone and keeps its worker sound.
LEMMA LocalStep ==
    ASSUME Inv, NEW w \in Workers, NEW r, NEW s, NEW d,
           UNCHANGED <<backend, store, author>>,
           pc' = [pc EXCEPT ![w] = s], req' = [req EXCEPT ![w] = r],
           dirty' = [dirty EXCEPT ![w] = d],
           Sound(w, r, s, d)
    PROVE  Inv'
  <1>1. /\ Fits(r, s, d) /\ (d => Admits(w, r))
        /\ Cleared(r, s, d) => OwnRows(r)'
        /\ r.op = "patch_resource" /\ (d \/ s \in {"select", "update"}) => roadmap'[r.id] # NoRow
    BY DEF Sound, OwnRows, store
  <1>2. /\ HandlerInv'
        /\ pc' \in [Workers -> Steps] /\ req' \in [Workers -> Request]
        /\ dirty' \in [Workers -> BOOLEAN] /\ backend' \in Backends
    BY <1>1, HandlersKept DEF store
  <1>3. WritesInv'
    BY <1>1, LocksKept DEF store
  <1>4. TypeOK' /\ OwnershipInv' /\ LinksHold'
    BY <1>2 DEF Inv, TypeOK, OwnershipInv, LinksHold, store
  <1> QED
    BY <1>2, <1>3, <1>4 DEF Inv

\* On memory nothing is held back, and no link is checked: a step has the
\* types, the owners and its own worker to keep in order.
LEMMA MemoryStep ==
    ASSUME Inv, ~Sql, NEW w \in Workers, NEW r, NEW s,
           UNCHANGED <<backend, dirty>>,
           pc' = [pc EXCEPT ![w] = s], req' = [req EXCEPT ![w] = r],
           Fits(r, s, FALSE),
           Cleared(r, s, FALSE) => OwnRows(r)',
           r.op = "patch_resource" /\ s \in {"select", "update"} => roadmap'[r.id] # NoRow,
           \A i \in Ids : author[i] # NoUser => author'[i] = author[i],
           \A x \in Roadmaps : roadmap[x] # NoRow => roadmap'[x] # NoRow,
           profile' \in [Profiles -> ProfileRow \cup {NoRow}],
           analysis' \in [Analyses -> AnalysisRow \cup {NoRow}],
           roadmap' \in [Roadmaps -> RoadmapRow \cup {NoRow}],
           owner' \in [Ids -> Users \cup {NoUser}],
           author' \in [Ids -> Users \cup {NoUser}],
           OwnershipInv'
    PROVE  Inv'
  <1>1. \A v \in Workers : dirty[v] = FALSE
    BY DEF Inv, TypeOK, HandlerInv, Fits
  <1>2. dirty' = [dirty EXCEPT ![w] = FALSE]
    BY <1>1 DEF Inv, TypeOK
  <1>3. /\ HandlerInv'
        /\ pc' \in [Workers -> Steps] /\ req' \in [Workers -> Request]
        /\ dirty' \in [Workers -> BOOLEAN] /\ backend' \in Backends
    BY <1>2, HandlersKept
  <1>4. WritesInv' /\ LinksHold'
    BY <1>1 DEF WritesInv, LinksHold, Sql
  <1> QED
    BY <1>3, <1>4 DEF Inv, TypeOK

-----------------------------------------------------------------------------
(***************************************************************************)
(* The steps, action by action                                             *)
(***************************************************************************)

\* A request under way: what its worker has in its hands.
LEMMA UnderWay ==
    ASSUME Inv, NEW w \in Workers, pc[w] \notin {"idle", "teardown"}
    PROVE  /\ Fits(req[w], pc[w], FALSE) /\ dirty[w] = FALSE
           /\ req[w] \in Request /\ req[w].op \in Ops /\ req[w].user \in Users
           /\ req[w].id \in Ids \cup {NoId} /\ req[w].ref \in Ids \cup {NoId}
           /\ req[w].reply = "none"
           /\ Cleared(req[w], pc[w], FALSE) => OwnRows(req[w])
  <1>1. /\ Fits(req[w], pc[w], dirty[w])
        /\ Cleared(req[w], pc[w], dirty[w]) => OwnRows(req[w])
    BY DEF Inv, HandlerInv
  <1>2. /\ dirty[w] = FALSE /\ req[w] \in Request /\ req[w].reply = "none"
        /\ req[w].op \in Ops /\ req[w].user \in Users
    BY <1>1 DEF Fits
  <1>3. req[w].id \in Ids \cup {NoId} /\ req[w].ref \in Ids \cup {NoId}
    BY <1>2 DEF Request
  <1> QED
    BY <1>1, <1>2, <1>3

\* The request q is that of w, answered.
Answered(q, w, reply) ==
    /\ Fits(q, "teardown", FALSE)
    /\ pc' = [pc EXCEPT ![w] = "teardown"] /\ req' = [req EXCEPT ![w] = q]
    /\ q.reply = reply
    /\ q.op = req[w].op /\ q.id = req[w].id /\ q.ref = req[w].ref /\ q.user = req[w].user

\* What a handler that has written nothing leaves to the teardown.
LEMMA Answers ==
    ASSUME Inv, NEW w \in Workers, pc[w] \notin {"idle", "teardown"},
           NEW reply \in Replies, Answer(w, reply)
    PROVE  UNCHANGED backend /\ \E q \in Request : Answered(q, w, reply)
  <1> DEFINE q == [req[w] EXCEPT !.reply = reply]
  <1>1. q \in Request /\ q.reply = reply /\ \A f \in DOMAIN NoRequest \ {"reply"} : q[f] = req[w][f]
    BY UnderWay DEF Request, NoRequest
  <1>2. Fits(req[w], pc[w], FALSE) /\ req[w].op \in Ops /\ req[w].user \in Users
    BY UnderWay
  <1>3. Fits(q, "teardown", FALSE)
    BY <1>1, <1>2 DEF Fits, Steps, NoRequest
  <1>4. UNCHANGED backend /\ pc' = [pc EXCEPT ![w] = "teardown"] /\ req' = [req EXCEPT ![w] = q]
    BY DEF Answer, Goto, Inv, TypeOK
  <1>5. q.op = req[w].op /\ q.id = req[w].id /\ q.ref = req[w].ref /\ q.user = req[w].user
    BY <1>1 DEF NoRequest
  <1> QED
    BY <1>1, <1>3, <1>4, <1>5 DEF Answered

\* An answer other than a concealing one is about the user's own rows.
LEMMA AnswerStep ==
    ASSUME Inv, NEW w \in Workers, pc[w] \notin {"idle", "teardown"},
           NEW reply \in Replies, Answer(w, reply), UNCHANGED <<store, author>>,
           dirty' = dirty \/ dirty' = [dirty EXCEPT ![w] = FALSE],
           reply \notin Concealing => OwnRows(req[w])
    PROVE  Inv'
  <1>1. PICK q \in Request : Answered(q, w, reply)
    BY Answers
  <1>2. UNCHANGED backend /\ dirty' = [dirty EXCEPT ![w] = FALSE]
    BY Answers, UnderWay DEF Inv, TypeOK
  <1>3. Sound(w, q, "teardown", FALSE)
    BY <1>1 DEF Answered, Sound, Cleared, OwnRows
  <1> QED
    BY <1>1, <1>2, <1>3, LocalStep DEF Answered

\* A request that fails before it is answered.
LEMMA FailStep ==
    ASSUME Inv, NEW w \in Workers, pc[w] \notin {"idle", "teardown"}, Fail(w)
    PROVE  Inv'
  BY AnswerStep DEF Fail, Replies, Errors, Concealing

\* A worker that drops its request.
LEMMA FinishStep ==
    ASSUME Inv, NEW w \in Workers, Finish(w), UNCHANGED store
    PROVE  Inv'
  <1>1. Sound(w, NoRequest, "idle", FALSE)
    BY NoRequestType DEF Sound, Fits, Cleared, Steps, Ops, Creations, Concealing
  <1> QED
    BY <1>1, LocalStep DEF Finish, Goto

\* A new request q that fits its first call has asked nothing yet.
LEMMA BeginStep ==
    ASSUME Inv, NEW w \in Workers, NEW q, NEW step \in {"read", "get", "select", "insert", "gate"},
           pc[w] = "idle", Goto(w, step), req' = [req EXCEPT ![w] = q], ReadOnly,
           Fits(q, step, FALSE),
           step = "select" => q.op = "delete_profile",
           step = "insert" => q.ref = NoId /\ q.id = NoId
    PROVE  Inv'
  <1>1. dirty' = [dirty EXCEPT ![w] = FALSE] /\ pc' = [pc EXCEPT ![w] = step]
    BY DEF Goto, ReadOnly, Inv, TypeOK, HandlerInv, Fits
  <1>2. q.reply = "none"
    BY DEF Fits
  <1>3. Sound(w, q, step, FALSE)
    BY <1>2 DEF Sound, Cleared, OwnRows, Concealing
  <1> QED
    BY <1>1, <1>3, LocalStep DEF Goto, ReadOnly

\* require_auth and the validators leave the worker with a fitting request.
LEMMA StartKeepsInv ==
    ASSUME Inv, NEW w \in Workers, Start(w)
    PROVE  Inv'
  <1> PICK u \in Users :
         \/ StartCreateProfile(w, u)
         \/ \E p \in Profiles \cap Drawn : StartProfile(w, u, p)
         \/ \E a \in Analyses \cap Drawn : StartAnalysis(w, u, a)
         \/ \E r \in Roadmaps \cap Drawn : StartRoadmap(w, u, r)
    BY DEF Start
  <1> USE DEF Creations, Ops, Steps, Replies, TableOf
  <1>1. CASE StartCreateProfile(w, u)
    <2>0. PICK row \in ProfileRow :
             Begin(w, "create_profile", "insert", [NoRequest EXCEPT !.user = u, !.row = row])
      BY <1>1 DEF StartCreateProfile
    <2> DEFINE q == [[NoRequest EXCEPT !.user = u, !.row = row] EXCEPT !.op = "create_profile"]
    <2>1. /\ pc[w] = "idle" /\ Goto(w, "insert") /\ ReadOnly
          /\ req' = [req EXCEPT ![w] = q]
      BY <2>0 DEF Begin
    <2>2. Fits(q, "insert", FALSE) /\ q.ref = NoId /\ q.id = NoId
      BY DEF Fits, NoRequest, Request
    <2> QED
      BY <2>1, <2>2, BeginStep
  <1>2. ASSUME NEW p \in Profiles, StartProfile(w, u, p)
        PROVE  Inv'
    <2> DEFINE r == [NoRequest EXCEPT !.user = u, !.id = p]
    <2> p \in Ids
      BY DEF Ids
    <2>1. CASE Begin(w, "get_profile", "read", r)
      <3> DEFINE q == [r EXCEPT !.op = "get_profile"]
      <3>1. /\ pc[w] = "idle" /\ Goto(w, "read") /\ ReadOnly
            /\ req' = [req EXCEPT ![w] = q]
        BY <2>1 DEF Begin
      <3>2. Fits(q, "read", FALSE)
        BY DEF Fits, NoRequest, Request
      <3> QED
        BY <3>1, <3>2, BeginStep
    <2>2. ASSUME NEW patch \in Patches, Begin(w, "patch_profile", "get", [r EXCEPT !.patch = patch])
          PROVE  Inv'
      <3> DEFINE q == [[r EXCEPT !.patch = patch] EXCEPT !.op = "patch_profile"]
      <3>1. /\ pc[w] = "idle" /\ Goto(w, "get") /\ ReadOnly
            /\ req' = [req EXCEPT ![w] = q]
        BY <2>2 DEF Begin
      <3>2. Fits(q, "get", FALSE)
        BY DEF Fits, NoRequest, Request
      <3> QED
        BY <3>1, <3>2, BeginStep
    <2>3. CASE Begin(w, "delete_profile", "select", r)
      <3> DEFINE q == [r EXCEPT !.op = "delete_profile"]
      <3>1. /\ pc[w] = "idle" /\ Goto(w, "select") /\ ReadOnly
            /\ req' = [req EXCEPT ![w] = q]
        BY <2>3 DEF Begin
      <3>2. Fits(q, "select", FALSE) /\ q.op = "delete_profile"
        BY DEF Fits, NoRequest, Request
      <3> QED
        BY <3>1, <3>2, BeginStep
    <2>4. CASE Begin(w, "create_analysis", "get", [NoRequest EXCEPT !.user = u, !.ref = p])
      <3> DEFINE q == [[NoRequest EXCEPT !.user = u, !.ref = p] EXCEPT !.op = "create_analysis"]
      <3>1. /\ pc[w] = "idle" /\ Goto(w, "get") /\ ReadOnly
            /\ req' = [req EXCEPT ![w] = q]
        BY <2>4 DEF Begin
      <3>2. Fits(q, "get", FALSE)
        BY DEF Fits, NoRequest, Request
      <3> QED
        BY <3>1, <3>2, BeginStep
    <2> QED
      BY <1>2, <2>1, <2>2, <2>3, <2>4 DEF StartProfile
  <1>3. ASSUME NEW a \in Analyses, StartAnalysis(w, u, a)
        PROVE  Inv'
    <2> a \in Ids
      BY DEF Ids
    <2>1. CASE Begin(w, "get_analysis", "read", [NoRequest EXCEPT !.user = u, !.id = a])
      <3> DEFINE q == [[NoRequest EXCEPT !.user = u, !.id = a] EXCEPT !.op = "get_analysis"]
      <3>1. /\ pc[w] = "idle" /\ Goto(w, "read") /\ ReadOnly
            /\ req' = [req EXCEPT ![w] = q]
        BY <2>1 DEF Begin
      <3>2. Fits(q, "read", FALSE)
        BY DEF Fits, NoRequest, Request
      <3> QED
        BY <3>1, <3>2, BeginStep
    <2>2. CASE Begin(w, "create_roadmap", "get", [NoRequest EXCEPT !.user = u, !.ref = a])
      <3> DEFINE q == [[NoRequest EXCEPT !.user = u, !.ref = a] EXCEPT !.op = "create_roadmap"]
      <3>1. /\ pc[w] = "idle" /\ Goto(w, "get") /\ ReadOnly
            /\ req' = [req EXCEPT ![w] = q]
        BY <2>2 DEF Begin
      <3>2. Fits(q, "get", FALSE)
        BY DEF Fits, NoRequest, Request
      <3> QED
        BY <3>1, <3>2, BeginStep
    <2> QED
      BY <1>3, <2>1, <2>2 DEF StartAnalysis
  <1>4. ASSUME NEW x \in Roadmaps, StartRoadmap(w, u, x)
        PROVE  Inv'
    <2> x \in Ids
      BY DEF Ids
    <2>0. PICK s \in Skills, c \in BOOLEAN :
             Begin(w, "patch_resource", "gate",
                   [NoRequest EXCEPT !.user = u, !.id = x, !.resource = s, !.completed = c])
      BY <1>4 DEF StartRoadmap
    <2> DEFINE q == [[NoRequest EXCEPT !.user = u, !.id = x, !.resource = s, !.completed = c] EXCEPT !.op = "patch_resource"]
    <2>1. /\ pc[w] = "idle" /\ Goto(w, "gate") /\ ReadOnly
          /\ req' = [req EXCEPT ![w] = q]
      BY <2>0 DEF Begin
    <2>2. Fits(q, "gate", FALSE)
      BY DEF Fits, NoRequest, Request
    <2> QED
      BY <2>1, <2>2, BeginStep
  <1> QED
    BY <1>1, <1>2, <1>3, <1>4

\* Who reads a profile, an analysis or a roadmap and goes on has asked for
\* it by user.
LEMMA ReadsKeepInv ==
    ASSUME Inv, NEW w \in Workers,
           GetProfile(w) \/ GetAnalysis(w) \/ Recheck(w)
    PROVE  Inv'
  <1> USE DEF At
  <1>1. pc[w] \notin {"idle", "teardown"} /\ UNCHANGED <<store, author, dirty>>
    BY DEF GetProfile, GetAnalysis, Recheck, ReadOnly
  <1>2. Fits(req[w], pc[w], FALSE) /\ req[w].user \in Users
    BY <1>1, UnderWay
  <1>3. TypeOK /\ OwnershipInv
    BY DEF Inv
  <1>4. CASE GetProfile(w)
    <2>1. req[w].id \in Profiles /\ req[w].ref = NoId
      BY <1>2, <1>4 DEF GetProfile, Fits, Creations
    <2>2. ProfileVisible(req[w].id, req[w].user) => OwnRows(req[w])
      BY <1>2, <1>3, <2>1, VisibleIsOwn DEF OwnRows
    <2> QED
      BY <1>1, <1>4, <2>2, AnswerStep DEF GetProfile, Replies, Errors, Concealing
  <1>5. CASE GetAnalysis(w)
    <2>1. req[w].id \in Analyses /\ req[w].ref = NoId
      BY <1>2, <1>5 DEF GetAnalysis, Fits, Creations
    <2>2. AnalysisVisible(req[w].id, req[w].user) => OwnRows(req[w])
      BY <1>2, <1>3, <2>1, VisibleIsOwn DEF OwnRows
    <2> QED
      BY <1>1, <1>5, <2>2, AnswerStep DEF GetAnalysis, Replies, Errors, Concealing
  <1>6. CASE Recheck(w)
    <2>1. req[w].id \in Roadmaps /\ req[w].ref = NoId
      BY <1>2, <1>6 DEF Recheck, Fits, Creations
    <2>2. RoadmapVisible(req[w].id, req[w].user) => OwnRows(req[w])
      BY <1>2, <1>3, <2>1, VisibleIsOwn DEF OwnRows
    <2> QED
      BY <1>1, <1>6, <2>2, AnswerStep DEF Recheck, Replies, Errors, Concealing
  <1> QED
    BY <1>4, <1>5, <1>6

\* A handler that goes on to its next call.
LEMMA GotoStep ==
    ASSUME Inv, NEW w \in Workers, pc[w] \notin {"idle", "teardown"},
           NEW s, NEW q, Goto(w, s), req' = [req EXCEPT ![w] = q], ReadOnly,
           Fits(q, s, FALSE),
           OwnRows(q) \/ s = "recheck",
           s \in {"select", "update"} => q.op # "patch_resource" \/ roadmap[q.id] # NoRow
    PROVE  Inv'
  <1>1. dirty' = [dirty EXCEPT ![w] = FALSE] /\ pc' = [pc EXCEPT ![w] = s]
    BY UnderWay DEF Goto, ReadOnly, Inv, TypeOK
  <1>2. s = "recheck" => ~Cleared(q, s, FALSE)
    BY DEF Fits, Cleared, Concealing
  <1>3. Sound(w, q, s, FALSE)
    BY <1>2 DEF Sound
  <1> QED
    BY <1>1, <1>3, LocalStep DEF Goto, ReadOnly

\* The profile patch_profile_handler works on is its user's.
LEMMA GetForPatchKeepsInv ==
    ASSUME Inv, NEW w \in Workers, GetForPatch(w)
    PROVE  Inv'
  <1> DEFINE p == req[w].id
             row == Patched(profile[p], req[w].patch)
             q == [req[w] EXCEPT !.row = row]
             s == IF Sql THEN "select" ELSE "update"
  <1>1. pc[w] = "get" /\ req[w].op = "patch_profile" /\ ReadOnly
    BY DEF GetForPatch, At
  <1>2. Fits(req[w], "get", FALSE) /\ req[w].user \in Users /\ req[w] \in Request
    BY <1>1, UnderWay
  <1>3. p \in Profiles /\ req[w].ref = NoId /\ req[w].patch \in Patches
    BY <1>1, <1>2 DEF Fits, Creations
  <1>4. CASE Answer(w, "NOT_FOUND") \/ Answer(w, "PROFILE_INVALID")
    <2>1. Answer(w, "PROFILE_INVALID") => ProfileVisible(p, req[w].user) \/ Answer(w, "NOT_FOUND")
      BY DEF GetForPatch, Answer
    <2>2. ProfileVisible(p, req[w].user) => OwnRows(req[w])
      BY <1>2, <1>3, VisibleIsOwn DEF OwnRows, Inv
    <2> QED
      BY <1>1, <1>4, <2>1, <2>2, AnswerStep DEF ReadOnly, Replies, Errors, Concealing
  <1>5. CASE /\ ProfileVisible(p, req[w].user)
             /\ Goto(w, s) /\ req' = [req EXCEPT ![w].row = row]
    <2>1. profile[p] \in ProfileRow /\ row \in ProfileRow
      BY <1>3, <1>5, PatchedType DEF ProfileVisible, Inv, TypeOK
    <2>2. req' = [req EXCEPT ![w] = q]
      BY <1>5 DEF Inv, TypeOK
    <2>3. q \in Request /\ q.row = row
          /\ \A f \in DOMAIN NoRequest \ {"row"} : q[f] = req[w][f]
      BY <1>2, <2>1 DEF Request, NoRequest
    <2>4. Fits(q, s, FALSE)
      BY <1>1, <1>2, <1>3, <2>1, <2>3 DEF Fits, NoRequest, Steps, Creations
    <2>5. author[p] = req[w].user
      BY <1>2, <1>3, <1>5, VisibleIsOwn DEF Inv
    <2>6. OwnRows(q) /\ q.op = "patch_profile"
      BY <1>1, <1>3, <2>3, <2>5 DEF OwnRows, NoRequest
    <2> QED
      BY <1>1, <1>5, <2>2, <2>4, <2>6, GotoStep
  <1> QED
    BY <1>4, <1>5 DEF GetForPatch

\* The SELECT before an UPDATE or a DELETE asks by user again.
LEMMA SelectProfileKeepsInv ==
    ASSUME Inv, NEW w \in Workers, SelectProfile(w)
    PROVE  Inv'
  <1> DEFINE p == req[w].id
             q == [req[w] EXCEPT !.base = profile[p]]
             s == IF req[w].op = "patch_profile" THEN "update" ELSE IF Sql THEN "delete" ELSE "disown"
  <1>1. pc[w] = "select" /\ req[w].op \in {"patch_profile", "delete_profile"} /\ ReadOnly
    BY DEF SelectProfile, At
  <1>2. Fits(req[w], "select", FALSE) /\ req[w].user \in Users /\ req[w] \in Request
    BY <1>1, UnderWay
  <1>3. p \in Profiles /\ req[w].ref = NoId
    BY <1>1, <1>2 DEF Fits, Creations
  <1>4. CASE Answer(w, "NOT_FOUND")
    BY <1>1, <1>4, AnswerStep DEF ReadOnly, Replies, Errors, Concealing
  <1>5. CASE /\ ProfileVisible(p, req[w].user)
             /\ Goto(w, s) /\ req' = [req EXCEPT ![w].base = profile[p]]
    <2>1. profile[p] \in ProfileRow
      BY <1>3, <1>5 DEF ProfileVisible, Inv, TypeOK
    <2>2. req' = [req EXCEPT ![w] = q]
      BY <1>5 DEF Inv, TypeOK
    <2>3. q \in Request /\ q.base = profile[p]
          /\ \A f \in DOMAIN NoRequest \ {"base"} : q[f] = req[w][f]
      BY <1>2, <2>1 DEF Request, NoRequest
    <2>4. Fits(q, s, FALSE)
      BY <1>1, <1>2, <1>3, <2>1, <2>3 DEF Fits, NoRequest, Steps, Creations
    <2>5. author[p] = req[w].user
      BY <1>2, <1>3, <1>5, VisibleIsOwn DEF Inv
    <2>6. OwnRows(q) /\ q.op # "patch_resource"
      BY <1>1, <1>3, <2>3, <2>5 DEF OwnRows, NoRequest
    <2> QED
      BY <1>1, <1>5, <2>2, <2>4, <2>6, GotoStep
  <1> QED
    BY <1>4, <1>5 DEF SelectProfile

\* An analysis is drawn from a profile of its user.
LEMMA GetForAnalysisKeepsInv ==
    ASSUME Inv, NEW w \in Workers, GetForAnalysis(w)
    PROVE  Inv'
  <1> DEFINE p == req[w].ref
  <1>1. pc[w] = "get" /\ req[w].op = "create_analysis" /\ ReadOnly
    BY DEF GetForAnalysis, At
  <1>2. Fits(req[w], "get", FALSE) /\ req[w].user \in Users /\ req[w] \in Request
    BY <1>1, UnderWay
  <1>3. p \in Profiles /\ req[w].id = NoId
    BY <1>1, <1>2 DEF Fits, Creations
  <1>4. CASE Answer(w, "PROFILE_NOT_FOUND")
    BY <1>1, <1>4, AnswerStep DEF ReadOnly, Replies, Errors, Concealing
  <1>5. CASE ProfileVisible(p, req[w].user)
    <2>1. author[p] = req[w].user
      BY <1>2, <1>3, <1>5, VisibleIsOwn DEF Inv
    <2>2. CASE Answer(w, "JOB_NOT_FOUND")
      BY <1>1, <1>3, <2>1, <2>2, AnswerStep DEF ReadOnly, Replies, Errors, OwnRows
    <2>3. ASSUME NEW readable \in BOOLEAN, Goto(w, "insert"),
                 req' = [req EXCEPT ![w].row = profile[p], ![w].readable = readable]
          PROVE  Inv'
      <3> DEFINE q == [req[w] EXCEPT !.row = profile[p], !.readable = readable]
      <3>1. profile[p] \in ProfileRow
        BY <1>3, <1>5 DEF ProfileVisible, Inv, TypeOK
      <3>2. req' = [req EXCEPT ![w] = q]
        BY <2>3, <1>2 DEF Inv, TypeOK, Request
      <3>3. q \in Request /\ q.row = profile[p]
            /\ \A f \in DOMAIN NoRequest \ {"row", "readable"} : q[f] = req[w][f]
        BY <1>2, <3>1 DEF Request, NoRequest
      <3>4. Fits(q, "insert", FALSE)
        BY <1>1, <1>2, <1>3, <3>1, <3>3 DEF Fits, NoRequest, Steps, Creations
      <3>5. OwnRows(q)
        BY <1>3, <2>1, <3>3 DEF OwnRows, NoRequest
      <3> QED
        BY <1>1, <2>3, <3>2, <3>4, <3>5, GotoStep
    <2>4. Shapes \subseteq BOOLEAN
      BY DEF Shapes
    <2> QED
      BY <1>5, <2>2, <2>3, <2>4 DEF GetForAnalysis
  <1> QED
    BY <1>4, <1>5 DEF GetForAnalysis

\* A roadmap is drawn from an analysis of its user.
LEMMA GetForRoadmapKeepsInv ==
    ASSUME Inv, NEW w \in Workers, GetForRoadmap(w)
    PROVE  Inv'
  <1> DEFINE a == req[w].ref
  <1>1. pc[w] = "get" /\ req[w].op = "create_roadmap" /\ ReadOnly
    BY DEF GetForRoadmap, At
  <1>2. Fits(req[w], "get", FALSE) /\ req[w].user \in Users
    BY <1>1, UnderWay
  <1>3. a \in Analyses /\ req[w].id = NoId
    BY <1>1, <1>2 DEF Fits, Creations
  <1>4. CASE Answer(w, "ANALYSIS_NOT_FOUND") \/ Answer(w, "INTERNAL_ERROR")
    BY <1>1, <1>4, AnswerStep DEF ReadOnly, Replies, Errors, Concealing
  <1>5. CASE AnalysisVisible(a, req[w].user) /\ Goto(w, "insert") /\ UNCHANGED req
    <2>1. author[a] = req[w].user
      BY <1>2, <1>3, <1>5, VisibleIsOwn DEF Inv
    <2>2. OwnRows(req[w])
      BY <1>3, <2>1 DEF OwnRows
    <2>3. Fits(req[w], "insert", FALSE)
      BY <1>1, <1>2 DEF Fits, Steps, Creations
    <2>4. req' = [req EXCEPT ![w] = req[w]]
      BY <1>5 DEF Inv, TypeOK
    <2> QED
      BY <1>1, <1>5, <2>2, <2>3, <2>4, GotoStep
  <1> QED
    BY <1>4, <1>5 DEF GetForRoadmap

\* The ownership gate of a roadmap.
LEMMA GateResourceKeepsInv ==
    ASSUME Inv, NEW w \in Workers, GateResource(w)
    PROVE  Inv'
  <1> DEFINE x == req[w].id
             s == IF ~RoadmapVisible(x, req[w].user) THEN "recheck"
                  ELSE IF Sql THEN "select" ELSE "update"
  <1>1. /\ pc[w] = "gate" /\ req[w].op = "patch_resource" /\ ReadOnly
        /\ Goto(w, s) /\ req' = [req EXCEPT ![w] = req[w]]
    BY DEF GateResource, At, Inv, TypeOK
  <1>2. Fits(req[w], "gate", FALSE) /\ req[w].user \in Users
    BY <1>1, UnderWay
  <1>3. x \in Roadmaps /\ req[w].ref = NoId
    BY <1>1, <1>2 DEF Fits, Creations
  <1>4. RoadmapVisible(x, req[w].user) => OwnRows(req[w]) /\ roadmap[x] # NoRow
    BY <1>2, <1>3, VisibleIsOwn DEF OwnRows, Inv, RoadmapVisible
  <1>5. Fits(req[w], s, FALSE)
    BY <1>1, <1>2 DEF Fits, Steps, Creations
  <1>6. s = "recheck" <=> ~RoadmapVisible(x, req[w].user)
    OBVIOUS
  <1> QED
    BY <1>1, <1>4, <1>5, <1>6, GotoStep

\* The session loads the phases of the roadmap behind the gate.
LEMMA SelectRoadmapKeepsInv ==
    ASSUME Inv, NEW w \in Workers, SelectRoadmap(w)
    PROVE  Inv'
  <1> DEFINE x == req[w].id
             done == Flagged(roadmap[x].done, req[w].resource, req[w].completed)
             q == [req[w] EXCEPT !.done = done]
  <1>1. pc[w] = "select" /\ req[w].op = "patch_resource" /\ ReadOnly
    BY DEF SelectRoadmap, At
  <1>2. Fits(req[w], "select", FALSE) /\ req[w] \in Request /\ OwnRows(req[w])
    BY <1>1, UnderWay DEF Cleared
  <1>3. x \in Roadmaps /\ req[w].resource \in Skills
    BY <1>1, <1>2 DEF Fits
  <1>4. roadmap[x] # NoRow /\ roadmap[x] \in RoadmapRow
    BY <1>1, <1>3 DEF Inv, HandlerInv, TypeOK
  <1>5. CASE Goto(w, "recheck") /\ UNCHANGED req
    <2>1. Fits(req[w], "recheck", FALSE)
      BY <1>1, <1>2 DEF Fits, Steps, Creations
    <2>2. req' = [req EXCEPT ![w] = req[w]]
      BY <1>5 DEF Inv, TypeOK
    <2> QED
      BY <1>1, <1>5, <2>1, <2>2, GotoStep
  <1>6. CASE Goto(w, "update") /\ req' = [req EXCEPT ![w].done = done]
    <2>1. done \subseteq Skills
      BY <1>3, <1>4 DEF Flagged, RoadmapRow
    <2>2. req' = [req EXCEPT ![w] = q]
      BY <1>6 DEF Inv, TypeOK
    <2>3. q \in Request /\ \A f \in DOMAIN NoRequest \ {"done"} : q[f] = req[w][f]
      BY <1>2, <2>1 DEF Request, NoRequest
    <2>4. Fits(q, "update", FALSE)
      BY <1>1, <1>2, <2>3 DEF Fits, NoRequest, Steps, Creations
    <2>5. OwnRows(q) /\ roadmap[q.id] # NoRow
      BY <1>2, <1>4, <2>3 DEF OwnRows, NoRequest
    <2> QED
      BY <1>1, <1>6, <2>2, <2>4, <2>5, GotoStep
  <1> QED
    BY <1>5, <1>6 DEF SelectRoadmap

\* The locks a statement has waited for: none of the others holds the row.
LEMMA NotWriting ==
    ASSUME NEW w \in Workers, NEW ops, NEW i, ~Writing(w, ops, i)
    PROVE  \A v \in Workers \ {w} : dirty[v] /\ req[v].op \in ops => req[v].id # i
  BY DEF Writing

\* A write that waits in its transaction until the teardown.
LEMMA WriteStep ==
    ASSUME Inv, NEW w \in Workers, pc[w] \notin {"idle", "teardown"}, Sql,
           NEW reply \in Replies, Write(w), Answer(w, reply), UNCHANGED author,
           req[w].op \in {"patch_profile", "delete_profile", "patch_resource"},
           Fits(req[w], "update", FALSE) \/ req[w].op = "delete_profile",
           OwnRows(req[w]), Admits(w, req[w]),
           req[w].op = "patch_resource" => roadmap[req[w].id] # NoRow
    PROVE  Inv'
  <1> DEFINE r == [req[w] EXCEPT !.reply = reply]
  <1>1. /\ pc' = [pc EXCEPT ![w] = "teardown"] /\ req' = [req EXCEPT ![w] = r]
        /\ dirty' = [dirty EXCEPT ![w] = TRUE]
    BY DEF Answer, Goto, Write, Inv, TypeOK
  <1>2. Fits(req[w], pc[w], FALSE) /\ req[w] \in Request
    BY UnderWay
  <1>3. r \in Request /\ \A f \in DOMAIN NoRequest \ {"reply"} : r[f] = req[w][f]
    BY <1>2 DEF Request, NoRequest
  <1>4. Fits(r, "teardown", TRUE)
    BY <1>2, <1>3 DEF Fits, Steps, Creations, NoRequest
  <1>5. OwnRows(r) /\ Admits(w, r)
    BY <1>3 DEF OwnRows, Admits, NoRequest
  <1>6. r.op = "patch_resource" => roadmap[r.id] # NoRow
    BY <1>3 DEF NoRequest
  <1>7. Sound(w, r, "teardown", TRUE)
    BY <1>4, <1>5, <1>6 DEF Sound
  <1> QED
    BY <1>1, <1>7, LocalStep DEF Answer, Goto, Write

\* The UPDATE and the DELETE of a profile, and the UPDATE of a roadmap.
LEMMA SqlWritesKeepInv ==
    ASSUME Inv, NEW w \in Workers,
           UpdateProfileSql(w) \/ DeleteProfileSql(w) \/ UpdateRoadmapSql(w)
    PROVE  Inv'
  <1>1. CASE UpdateProfileSql(w)
    <2>1. /\ pc[w] = "update" /\ req[w].op = "patch_profile" /\ Sql
          /\ Write(w) /\ Answer(w, "ok") /\ UNCHANGED author
      BY <1>1 DEF UpdateProfileSql, At
    <2>2. Fits(req[w], "update", FALSE) /\ OwnRows(req[w])
      BY <2>1, UnderWay DEF Cleared
    <2>3. Admits(w, req[w])
      BY <1>1, <2>1, NotWriting DEF UpdateProfileSql, Admits
    <2> QED
      BY <2>1, <2>2, <2>3, WriteStep DEF Replies
  <1>2. CASE DeleteProfileSql(w)
    <2>1. /\ pc[w] = "delete" /\ req[w].op = "delete_profile" /\ Sql
          /\ Write(w) /\ Answer(w, "no_content") /\ UNCHANGED author
      BY <1>2 DEF DeleteProfileSql, At
    <2>2. OwnRows(req[w])
      BY <2>1, UnderWay DEF Cleared
    <2>3. Admits(w, req[w])
      BY <1>2, <2>1, NotWriting DEF DeleteProfileSql, Referring, Admits
    <2> QED
      BY <2>1, <2>2, <2>3, WriteStep DEF Replies
  <1>3. CASE UpdateRoadmapSql(w)
    <2>1. /\ pc[w] = "update" /\ req[w].op = "patch_resource" /\ Sql
          /\ Write(w) /\ Answer(w, "ok") /\ UNCHANGED author
      BY <1>3 DEF UpdateRoadmapSql, At
    <2>2. Fits(req[w], "update", FALSE) /\ OwnRows(req[w])
      BY <2>1, UnderWay DEF Cleared
    <2>3. Admits(w, req[w]) /\ roadmap[req[w].id] # NoRow
      BY <2>1 DEF Admits, Inv, HandlerInv
    <2> QED
      BY <2>1, <2>2, <2>3, WriteStep DEF Replies
  <1> QED
    BY <1>1, <1>2, <1>3

\* A fresh id is drawn for the user.
LEMMA FreshIds ==
    ASSUME Inv, NEW op \in Creations, NEW i \in Fresh(op), NEW u \in Users,
           author' = [author EXCEPT ![i] = u]
    PROVE  /\ i \in TableOf(op) /\ i \in Ids /\ author[i] = NoUser /\ i # NoId
           /\ author' \in [Ids -> Users \cup {NoUser}] /\ author'[i] = u
           /\ \A j \in Ids : author[j] # NoUser => author'[j] = author[j]
           /\ \A j \in Ids \ {i} : author'[j] = author[j]
           /\ owner[i] = NoUser
  <1>1. i \in TableOf(op) /\ i \in Ids /\ author[i] = NoUser
    BY Tables DEF Fresh, Drawn
  <1> QED
    BY <1>1, Absent DEF Inv, TypeOK, OwnershipInv

\* The INSERT: the id is drawn, the row waits in its transaction.
LEMMA InsertSqlKeepsInv ==
    ASSUME Inv, NEW w \in Workers, InsertSql(w)
    PROVE  Inv'
  <1>1. /\ Sql /\ pc[w] = "insert" /\ req[w].op \in Creations
        /\ Goto(w, "teardown") /\ Write(w)
    BY DEF InsertSql, At
  <1>2. PICK i \in Fresh(req[w].op) :
           /\ author' = [author EXCEPT ![i] = req[w].user]
           /\ req' = [req EXCEPT ![w] = [@ EXCEPT !.id = i, !.reply = Serialized(w)]]
    BY DEF InsertSql
  <1>0. PICK q : q = [req[w] EXCEPT !.id = i, !.reply = Serialized(w)]
    OBVIOUS
  <1>3. /\ Fits(req[w], "insert", FALSE) /\ OwnRows(req[w])
        /\ req[w].user \in Users /\ req[w] \in Request
    BY <1>1, UnderWay DEF Cleared
  <1>4. /\ i \in TableOf(req[w].op) /\ i \in Ids /\ author[i] = NoUser /\ i # NoId
        /\ author' \in [Ids -> Users \cup {NoUser}] /\ author'[i] = req[w].user
        /\ \A j \in Ids : author[j] # NoUser => author'[j] = author[j]
    BY <1>1, <1>2, <1>3, FreshIds
  <1>5. /\ pc' = [pc EXCEPT ![w] = "teardown"] /\ req' = [req EXCEPT ![w] = q]
        /\ dirty' = [dirty EXCEPT ![w] = TRUE] /\ UNCHANGED <<backend, store>>
    BY <1>0, <1>1, <1>2 DEF Goto, Write, Inv, TypeOK
  <1>6. /\ q \in Request /\ q.id = i
        /\ \A f \in DOMAIN NoRequest \ {"id", "reply"} : q[f] = req[w][f]
    <2>1. Serialized(w) \in Replies
      BY DEF Serialized, Replies, Errors
    <2> QED
      BY <1>0, <1>3, <1>4, <2>1 DEF Request, NoRequest
  <1>7. Fits(q, "teardown", TRUE)
    BY <1>1, <1>3, <1>4, <1>6 DEF Fits, Steps, NoRequest, Creations
  <1>8. OwnRows(q)'
    BY <1>3, <1>4, <1>6, Absent DEF OwnRows, NoRequest, Fits, Request
  <1>9. q.op # "patch_resource"
    BY <1>1, <1>6 DEF Creations, NoRequest
  <1>10. Admits(w, q)
    <2>1. /\ ForeignKeys /\ req[w].op = "create_analysis" => profile[req[w].ref] # NoRow
          /\ ForeignKeys => ~Writing(w, {"delete_profile"}, req[w].ref)
      BY DEF InsertSql
    <2> QED
      BY <1>1, <1>6, <2>1, NotWriting DEF Admits, NoRequest, Creations
  <1>11. /\ HandlerInv'
         /\ pc' \in [Workers -> Steps] /\ req' \in [Workers -> Request]
         /\ dirty' \in [Workers -> BOOLEAN] /\ backend' \in Backends
    BY <1>4, <1>5, <1>7, <1>8, <1>9, HandlersKept DEF store
  <1>12. WritesInv'
    BY <1>5, <1>10, LocksKept DEF store
  <1>13. TypeOK' /\ LinksHold'
    BY <1>4, <1>5, <1>11 DEF Inv, TypeOK, LinksHold, store
  <1>14. OwnershipInv'
    <2>1. \A j \in Ids : owner[j] \in {NoUser, author[j]}
      BY DEF Inv, OwnershipInv
    <2>2. \A a \in Analyses : analysis[a] # NoRow /\ analysis[a].profile # NoId => analysis[a].profile \in Ids
      BY Tables DEF Inv, TypeOK, AnalysisRow
    <2>3. \A x \in Roadmaps : roadmap[x] # NoRow => roadmap[x].analysis \in Ids
      BY Tables DEF Inv, TypeOK, RoadmapRow
    <2> QED
      BY <1>4, <1>5, <2>1, <2>2, <2>3, Tables DEF Inv, OwnershipInv, store
  <1> QED
    BY <1>11, <1>12, <1>13, <1>14 DEF Inv

\* What an INSERT stores is a row of its table.
LEMMA NewRowTypes ==
    ASSUME Inv, NEW w \in Workers, Fits(req[w], pc[w], dirty[w])
    PROVE  /\ req[w].op = "create_analysis" => NewAnalysis(w) \in AnalysisRow
           /\ req[w].op = "create_roadmap" => NewRoadmap(w) \in RoadmapRow
  BY DataAssumption DEF Fits, Request, NewAnalysis, NewRoadmap, AnalysisRow, RoadmapRow, Missing

\* The memory update of a profile.
LEMMA UpdateProfileMemoryKeepsInv ==
    ASSUME Inv, NEW w \in Workers, UpdateProfileMemory(w)
    PROVE  Inv'
  <1>1. /\ ~Sql /\ pc[w] = "update" /\ req[w].op = "patch_profile"
        /\ UNCHANGED <<analysis, roadmap, owner, author, dirty>>
    BY DEF UpdateProfileMemory, At
  <1>2. Fits(req[w], "update", FALSE) /\ OwnRows(req[w])
    BY <1>1, UnderWay DEF Cleared
  <1>3. CASE Answer(w, "NOT_FOUND") /\ UNCHANGED profile
    BY <1>1, <1>3, AnswerStep DEF Replies, Errors, Concealing, store
  <1>4. CASE profile' = [profile EXCEPT ![req[w].id] = req[w].row] /\ Answer(w, "ok")
    <2>1. UNCHANGED backend /\ \E q \in Request : Answered(q, w, "ok")
      BY <1>1, <1>4, Answers DEF Replies
    <2>2. PICK q \in Request : Answered(q, w, "ok")
      BY <2>1
    <2>3. OwnRows(q)'
      BY <1>1, <1>2, <2>2 DEF OwnRows, Answered
    <2>4. profile' \in [Profiles -> ProfileRow \cup {NoRow}]
      BY <1>1, <1>2, <1>4 DEF Inv, TypeOK, Fits
    <2>5. OwnershipInv' /\ Inv
      BY <1>1 DEF Inv, OwnershipInv
    <2> QED
      BY <1>1, <2>1, <2>2, <2>3, <2>4, <2>5, MemoryStep DEF Inv, TypeOK, Answered
  <1> QED
    BY <1>3, <1>4 DEF UpdateProfileMemory

\* The memory delete drops the owner first.
LEMMA DisownProfileKeepsInv ==
    ASSUME Inv, NEW w \in Workers, DisownProfile(w)
    PROVE  Inv'
  <1>1. /\ pc[w] = "disown" /\ req[w].op = "delete_profile"
        /\ owner' = [owner EXCEPT ![req[w].id] = NoUser]
        /\ pc' = [pc EXCEPT ![w] = "delete"]
        /\ UNCHANGED <<backend, profile, analysis, roadmap, author, req, dirty>>
    BY DEF DisownProfile, At, Goto
  <1>2. Fits(req[w], "disown", FALSE) /\ OwnRows(req[w]) /\ dirty[w] = FALSE
    BY <1>1, UnderWay DEF Cleared
  <1>0. PICK q : q = req[w]
    OBVIOUS
  <1>3. /\ Fits(q, "delete", FALSE) /\ OwnRows(q) /\ q.op = "delete_profile"
        /\ req' = [req EXCEPT ![w] = q] /\ dirty' = [dirty EXCEPT ![w] = FALSE]
    BY <1>0, <1>1, <1>2 DEF Fits, Steps, Creations, Inv, TypeOK
  <1>4. OwnRows(q)'
    BY <1>1, <1>3 DEF OwnRows
  <1>5. /\ HandlerInv'
        /\ pc' \in [Workers -> Steps] /\ req' \in [Workers -> Request]
        /\ dirty' \in [Workers -> BOOLEAN] /\ backend' \in Backends
    BY <1>1, <1>3, <1>4, HandlersKept
  <1>6. owner' \in [Ids -> Users \cup {NoUser}] /\ \A i \in Ids : owner'[i] \in {NoUser, author[i]}
    BY <1>1 DEF Inv, TypeOK, OwnershipInv
  <1>7. TypeOK' /\ OwnershipInv'
    BY <1>1, <1>5, <1>6 DEF Inv, TypeOK, OwnershipInv
  <1>8. WritesInv'
    BY <1>1, LocksKept, <1>3
  <1>9. LinksHold'
    BY <1>1 DEF Inv, LinksHold
  <1> QED
    BY <1>5, <1>7, <1>8, <1>9 DEF Inv

\* Then the memory delete drops the record.
LEMMA DeleteProfileMemoryKeepsInv ==
    ASSUME Inv, NEW w \in Workers, DeleteProfileMemory(w)
    PROVE  Inv'
  <1>1. /\ ~Sql /\ pc[w] = "delete" /\ req[w].op = "delete_profile"
        /\ profile' = [profile EXCEPT ![req[w].id] = NoRow]
        /\ UNCHANGED <<analysis, roadmap, owner, author, dirty>>
    BY DEF DeleteProfileMemory, At
  <1>2. PICK reply \in Replies : Answer(w, reply)
    BY DEF DeleteProfileMemory, Replies, Errors
  <1>3. OwnRows(req[w])
    BY <1>1, UnderWay DEF Cleared
  <1>4. UNCHANGED backend /\ \E q \in Request : Answered(q, w, reply)
    BY <1>1, <1>2, Answers
  <1>5. PICK q \in Request : Answered(q, w, reply)
    BY <1>4
  <1>6. OwnRows(q)'
    BY <1>1, <1>3, <1>5 DEF OwnRows, Answered
  <1>7. profile' \in [Profiles -> ProfileRow \cup {NoRow}] /\ OwnershipInv'
    BY <1>1 DEF Inv, TypeOK, OwnershipInv
  <1> QED
    BY <1>1, <1>4, <1>5, <1>6, <1>7, MemoryStep DEF Inv, TypeOK, Answered

\* The memory update of a flag.
LEMMA UpdateRoadmapMemoryKeepsInv ==
    ASSUME Inv, NEW w \in Workers, UpdateRoadmapMemory(w)
    PROVE  Inv'
  <1> DEFINE x == req[w].id
             row == [roadmap[x] EXCEPT !.done = Flagged(@, req[w].resource, req[w].completed)]
  <1>1. /\ ~Sql /\ pc[w] = "update" /\ req[w].op = "patch_resource"
        /\ UNCHANGED <<profile, analysis, owner, author, dirty>>
    BY DEF UpdateRoadmapMemory, At
  <1>2. Fits(req[w], "update", FALSE) /\ OwnRows(req[w])
    BY <1>1, UnderWay DEF Cleared
  <1>3. x \in Roadmaps /\ req[w].resource \in Skills
    BY <1>1, <1>2 DEF Fits
  <1>4. roadmap[x] # NoRow /\ roadmap[x] \in RoadmapRow
    BY <1>1, <1>3 DEF Inv, HandlerInv, TypeOK
  <1>5. CASE Goto(w, "recheck") /\ UNCHANGED <<roadmap, req>>
    <2>1. Fits(req[w], "recheck", FALSE)
      BY <1>1, <1>2 DEF Fits, Steps, Creations
    <2>2. req' = [req EXCEPT ![w] = req[w]] /\ ReadOnly
      BY <1>1, <1>5 DEF Inv, TypeOK, ReadOnly, store
    <2> QED
      BY <1>1, <1>5, <2>1, <2>2, GotoStep
  <1>6. CASE roadmap' = [roadmap EXCEPT ![x] = row] /\ Answer(w, "ok")
    <2>1. UNCHANGED backend /\ \E q \in Request : Answered(q, w, "ok")
      BY <1>1, <1>6, Answers DEF Replies
    <2>2. PICK q \in Request : Answered(q, w, "ok")
      BY <2>1
    <2>3. OwnRows(q)'
      BY <1>1, <1>2, <2>2 DEF OwnRows, Answered
    <2>4. row \in RoadmapRow /\ row.analysis = roadmap[x].analysis /\ row # NoRow
      BY <1>3, <1>4, Absent DEF RoadmapRow, Flagged
    <2>5. /\ roadmap' \in [Roadmaps -> RoadmapRow \cup {NoRow}]
          /\ \A y \in Roadmaps : (roadmap'[y] # NoRow <=> roadmap[y] # NoRow)
          /\ \A y \in Roadmaps : roadmap[y] # NoRow => roadmap'[y].analysis = roadmap[y].analysis
      BY <1>3, <1>4, <1>6, <2>4 DEF Inv, TypeOK
    <2>6. OwnershipInv'
      BY <1>1, <2>5 DEF Inv, OwnershipInv
    <2> QED
      BY <1>1, <2>1, <2>2, <2>3, <2>5, <2>6, MemoryStep DEF Inv, TypeOK, Answered
  <1> QED
    BY <1>5, <1>6 DEF UpdateRoadmapMemory

\* The memory creation stores the owner last.
LEMMA OwnKeepsInv ==
    ASSUME Inv, NEW w \in Workers, Own(w)
    PROVE  Inv'
  <1>1. /\ pc[w] = "own" /\ req[w].op \in Creations
        /\ owner' = [owner EXCEPT ![req[w].id] = req[w].user]
        /\ Answer(w, Serialized(w))
        /\ UNCHANGED <<profile, analysis, roadmap, author, dirty>>
    BY DEF Own, At
  <1>2. /\ Fits(req[w], "own", FALSE) /\ OwnRows(req[w]) /\ req[w].user \in Users
        /\ dirty' = [dirty EXCEPT ![w] = FALSE]
    BY <1>1, UnderWay DEF Cleared, Inv, TypeOK
  <1>3. author[req[w].id] = req[w].user
    BY <1>1, <1>2 DEF Fits, OwnRows
  <1>4. UNCHANGED backend /\ \E q \in Request : Answered(q, w, Serialized(w))
    BY <1>1, Answers DEF Serialized, Replies, Errors
  <1>5. PICK q \in Request : Answered(q, w, Serialized(w))
    BY <1>4
  <1>6. OwnRows(q)' /\ q.op # "patch_resource"
    BY <1>1, <1>2, <1>5 DEF OwnRows, Answered, Creations
  <1>7. /\ HandlerInv'
        /\ pc' \in [Workers -> Steps] /\ req' \in [Workers -> Request]
        /\ dirty' \in [Workers -> BOOLEAN] /\ backend' \in Backends
    BY <1>1, <1>2, <1>4, <1>5, <1>6, HandlersKept DEF Answered
  <1>8. owner' \in [Ids -> Users \cup {NoUser}] /\ \A i \in Ids : owner'[i] \in {NoUser, author[i]}
    BY <1>1, <1>2, <1>3 DEF Inv, TypeOK, OwnershipInv
  <1>9. TypeOK' /\ OwnershipInv' /\ LinksHold'
    BY <1>1, <1>4, <1>7, <1>8 DEF Inv, TypeOK, OwnershipInv, LinksHold
  <1>10. WritesInv'
    BY <1>1, <1>2, <1>4, <1>5, LocksKept DEF Answered
  <1> QED
    BY <1>7, <1>9, <1>10 DEF Inv

\* The memory creation stores the record.
LEMMA InsertMemoryKeepsInv ==
    ASSUME Inv, NEW w \in Workers, InsertMemory(w)
    PROVE  Inv'
  <1>1. /\ ~Sql /\ pc[w] = "insert" /\ req[w].op \in Creations
        /\ UNCHANGED <<backend, owner, dirty>> /\ pc' = [pc EXCEPT ![w] = "own"]
    BY DEF InsertMemory, At, Goto
  <1>2. PICK i \in Fresh(req[w].op) :
          /\ author' = [author EXCEPT ![i] = req[w].user]
          /\ req' = [req EXCEPT ![w].id = i]
          /\ profile' = IF i \in Profiles THEN [profile EXCEPT ![i] = req[w].row] ELSE profile
          /\ analysis' = IF i \in Analyses THEN [analysis EXCEPT ![i] = NewAnalysis(w)] ELSE analysis
          /\ roadmap' = IF i \in Roadmaps THEN [roadmap EXCEPT ![i] = NewRoadmap(w)] ELSE roadmap
    BY DEF InsertMemory
  <1>3. /\ Fits(req[w], "insert", FALSE) /\ OwnRows(req[w])
        /\ req[w].user \in Users /\ req[w] \in Request /\ Fits(req[w], pc[w], dirty[w])
    BY <1>1, UnderWay DEF Cleared
  <1>4. /\ i \in TableOf(req[w].op) /\ i \in Ids /\ author[i] = NoUser /\ i # NoId
        /\ author' \in [Ids -> Users \cup {NoUser}] /\ author'[i] = req[w].user
        /\ \A j \in Ids : author[j] # NoUser => author'[j] = author[j]
        /\ owner[i] = NoUser
    BY <1>1, <1>2, <1>3, FreshIds
  <1>5. PICK q : q = [req[w] EXCEPT !.id = i]
    OBVIOUS
  <1>6. /\ req' = [req EXCEPT ![w] = q] /\ q \in Request /\ q.id = i
        /\ \A f \in DOMAIN NoRequest \ {"id"} : q[f] = req[w][f]
    BY <1>2, <1>3, <1>4, <1>5 DEF Request, NoRequest, Inv, TypeOK
  <1>7. Fits(q, "own", FALSE)
    BY <1>1, <1>3, <1>4, <1>6 DEF Fits, Steps, NoRequest, Creations
  <1>8. OwnRows(q)' /\ q.op # "patch_resource"
    BY <1>1, <1>3, <1>4, <1>6, Absent DEF OwnRows, NoRequest, Fits, Request, Creations
  <1>9. /\ req[w].op = "create_profile" => i \in Profiles /\ req[w].row \in ProfileRow
        /\ req[w].op = "create_analysis" =>
              /\ i \in Analyses /\ NewAnalysis(w) \in AnalysisRow
              /\ NewAnalysis(w).profile = req[w].ref /\ author[req[w].ref] = req[w].user
        /\ req[w].op = "create_roadmap" =>
              /\ i \in Roadmaps /\ NewRoadmap(w) \in RoadmapRow
              /\ NewRoadmap(w).analysis = req[w].ref /\ author[req[w].ref] = req[w].user
    BY <1>3, <1>4, NewRowTypes, Absent, Tables
       DEF Fits, OwnRows, TableOf, NewAnalysis, NewRoadmap, Creations, Ids
  <1>10. /\ i \in Profiles => req[w].op = "create_profile"
         /\ i \in Analyses => req[w].op = "create_analysis"
         /\ i \in Roadmaps => req[w].op = "create_roadmap"
    BY <1>1, <1>9, DataAssumption DEF Creations
  <1>11. /\ profile' \in [Profiles -> ProfileRow \cup {NoRow}]
         /\ analysis' \in [Analyses -> AnalysisRow \cup {NoRow}]
         /\ roadmap' \in [Roadmaps -> RoadmapRow \cup {NoRow}]
         /\ owner' \in [Ids -> Users \cup {NoUser}]
    BY <1>1, <1>2, <1>9, <1>10 DEF Inv, TypeOK
  <1>12. \A x \in Roadmaps : roadmap[x] # NoRow => roadmap'[x] # NoRow
    BY <1>2, <1>9, <1>10, Absent DEF Inv, TypeOK
  <1>13. OwnershipInv'
    <2>1. \A j \in Ids : owner'[j] \in {NoUser, author'[j]}
      BY <1>1, <1>4, Absent DEF Inv, OwnershipInv, TypeOK
    <2>2. ASSUME NEW a \in Analyses, analysis'[a] # NoRow
          PROVE  /\ author'[a] # NoUser
                 /\ analysis'[a].profile # NoId => author'[analysis'[a].profile] = author'[a]
      <3>1. CASE a = i
        BY <1>2, <1>3, <1>4, <1>9, <1>10, <3>1, Absent, Tables DEF Fits, Inv, TypeOK
      <3>2. CASE a # i
        <4>1. analysis'[a] = analysis[a] /\ analysis[a] \in AnalysisRow /\ a \in Ids
          BY <1>2, <2>2, <3>2, Tables DEF Inv, TypeOK
        <4>2. /\ author[a] # NoUser
              /\ analysis[a].profile # NoId => author[analysis[a].profile] = author[a]
          BY <2>2, <4>1 DEF Inv, OwnershipInv
        <4>3. analysis[a].profile # NoId => analysis[a].profile \in Ids
          BY <4>1, Tables DEF AnalysisRow
        <4> QED
          BY <1>4, <4>1, <4>2, <4>3
      <3> QED
        BY <3>1, <3>2
    <2>3. ASSUME NEW x \in Roadmaps, roadmap'[x] # NoRow
          PROVE  author'[x] # NoUser /\ author'[roadmap'[x].analysis] = author'[x]
      <3>1. CASE x = i
        BY <1>2, <1>3, <1>4, <1>9, <1>10, <3>1, Absent, Tables DEF Fits, Inv, TypeOK
      <3>2. CASE x # i
        <4>1. roadmap'[x] = roadmap[x] /\ roadmap[x] \in RoadmapRow /\ x \in Ids
          BY <1>2, <2>3, <3>2, Tables DEF Inv, TypeOK
        <4>2. author[x] # NoUser /\ author[roadmap[x].analysis] = author[x]
          BY <2>3, <4>1 DEF Inv, OwnershipInv
        <4>3. roadmap[x].analysis \in Ids
          BY <4>1, Tables DEF RoadmapRow
        <4> QED
          BY <1>4, <4>1, <4>2, <4>3
      <3> QED
        BY <3>1, <3>2
    <2> QED
      BY <2>1, <2>2, <2>3 DEF OwnershipInv
  <1> QED
    BY <1>1, <1>4, <1>6, <1>7, <1>8, <1>11, <1>12, <1>13, MemoryStep

\* A commit stores rows, keeps roadmaps, and takes no profile away but the one
\* its request deletes.
LEMMA CommitTypes ==
    ASSUME Inv, NEW w \in Workers, Commit(w)
    PROVE  /\ profile' \in [Profiles -> ProfileRow \cup {NoRow}]
           /\ analysis' \in [Analyses -> AnalysisRow \cup {NoRow}]
           /\ roadmap' \in [Roadmaps -> RoadmapRow \cup {NoRow}]
           /\ owner' \in [Ids -> Users \cup {NoUser}]
           /\ \A x \in Roadmaps : roadmap[x] # NoRow => roadmap'[x] # NoRow
           /\ \A p \in Profiles : profile[p] # NoRow /\ ~Writes(w, "delete_profile", p) => profile'[p] # NoRow
  <1>1. Fits(req[w], pc[w], dirty[w]) /\ req[w] \in Request
    BY DEF Inv, HandlerInv, Fits
  <1>2. dirty[w] => req[w].user \in Users
    BY <1>1, NoRequestType DEF Fits, Sql
  <1>3. ASSUME NEW p \in Profiles
        PROVE  /\ profile'[p] \in ProfileRow \cup {NoRow}
               /\ profile[p] # NoRow /\ ~Writes(w, "delete_profile", p) => profile'[p] # NoRow
    <2>1. profile[p] \in ProfileRow \cup {NoRow}
      BY DEF Inv, TypeOK
    <2>2. Writes(w, "create_profile", p) => req[w].row \in ProfileRow
      BY <1>1 DEF Writes, Fits
    <2>3. Writes(w, "patch_profile", p) => Merged(w, profile[p]) \in ProfileRow
      <3> SUFFICES ASSUME Writes(w, "patch_profile", p)
                   PROVE  Merged(w, profile[p]) \in ProfileRow
        OBVIOUS
      <3>1. req[w].row \in ProfileRow
        BY <1>1 DEF Writes, Fits
      <3>2. profile[p] \in ProfileRow
        BY <2>1 DEF Writes, Inv, WritesInv
      <3> QED
        BY <3>1, <3>2 DEF Merged, ProfileRow
    <2>4. profile'[p] = IF Writes(w, "create_profile", p) THEN req[w].row
                        ELSE IF Writes(w, "patch_profile", p) THEN Merged(w, profile[p])
                        ELSE IF Writes(w, "delete_profile", p) THEN NoRow
                        ELSE profile[p]
      BY DEF Commit
    <2> QED
      BY <2>1, <2>2, <2>3, <2>4, Absent
  <1>4. ASSUME NEW a \in Analyses
        PROVE  analysis'[a] \in AnalysisRow \cup {NoRow}
    <2>1. analysis[a] \in AnalysisRow \cup {NoRow}
      BY DEF Inv, TypeOK
    <2>2. Writes(w, "create_analysis", a) => NewAnalysis(w) \in AnalysisRow
      BY <1>1, NewRowTypes DEF Writes
    <2>3. analysis[a] # NoRow => [analysis[a] EXCEPT !.profile = NoId] \in AnalysisRow
      BY <2>1 DEF AnalysisRow
    <2> QED
      BY <2>1, <2>2, <2>3 DEF Commit
  <1>5. ASSUME NEW x \in Roadmaps
        PROVE  /\ roadmap'[x] \in RoadmapRow \cup {NoRow}
               /\ roadmap[x] # NoRow => roadmap'[x] # NoRow
    <2>1. roadmap[x] \in RoadmapRow \cup {NoRow}
      BY DEF Inv, TypeOK
    <2>2. Writes(w, "create_roadmap", x) => NewRoadmap(w) \in RoadmapRow
      BY <1>1, NewRowTypes DEF Writes
    <2>3. Writes(w, "patch_resource", x) => roadmap[x] # NoRow
      BY DEF Writes, Inv, HandlerInv
    <2>4. roadmap[x] # NoRow => [roadmap[x] EXCEPT !.done = req[w].done] \in RoadmapRow
      BY <1>1, <2>1 DEF RoadmapRow, Request
    <2>5. roadmap'[x] = IF Writes(w, "create_roadmap", x) THEN NewRoadmap(w)
                        ELSE IF Writes(w, "patch_resource", x) THEN [roadmap[x] EXCEPT !.done = req[w].done]
                        ELSE roadmap[x]
      BY DEF Commit
    <2> QED
      BY <2>1, <2>2, <2>3, <2>4, <2>5, Absent
  <1>6. ASSUME NEW i \in Ids
        PROVE  owner'[i] \in Users \cup {NoUser}
    BY <1>2 DEF Commit, Writes, Inv, TypeOK
  <1>7. /\ profile' = [p \in Profiles |-> profile'[p]] /\ analysis' = [a \in Analyses |-> analysis'[a]]
        /\ roadmap' = [x \in Roadmaps |-> roadmap'[x]] /\ owner' = [i \in Ids |-> owner'[i]]
    BY DEF Commit
  <1> QED
    BY <1>3, <1>4, <1>5, <1>6, <1>7

\* A commit stores rows of its own user, and links to rows of that user.
LEMMA CommitOwns ==
    ASSUME Inv, NEW w \in Workers, Commit(w), UNCHANGED author
    PROVE  OwnershipInv'
  <1>1. Fits(req[w], pc[w], dirty[w]) /\ (dirty[w] => OwnRows(req[w]))
    BY DEF Inv, HandlerInv, Cleared
  <1>2. dirty[w] => req[w].user \in Users
    BY <1>1, NoRequestType DEF Fits, Sql
  <1>3. \A op, i : Writes(w, op, i) => dirty[w] /\ req[w].op = op /\ req[w].id = i
    BY DEF Writes
  <1>4. ASSUME NEW i \in Ids
        PROVE  owner'[i] \in {NoUser, author'[i]}
    <2>1. \A op \in Creations : Writes(w, op, i) => author[i] = req[w].user
      BY <1>1, <1>3 DEF OwnRows, Fits
    <2> QED
      BY <2>1 DEF Commit, Inv, OwnershipInv
  <1>5. ASSUME NEW a \in Analyses, analysis'[a] # NoRow
        PROVE  /\ author'[a] # NoUser
               /\ analysis'[a].profile # NoId => author'[analysis'[a].profile] = author'[a]
    <2>1. CASE Writes(w, "create_analysis", a)
      <3>1. analysis'[a] = NewAnalysis(w)
        BY <2>1 DEF Commit
      <3>2. req[w].id # NoId /\ req[w].ref \in Profiles /\ req[w].id = a
        BY <1>1, <1>3, <2>1 DEF Fits, Creations
      <3>3. author[a] = req[w].user /\ author[req[w].ref] = req[w].user
        BY <1>1, <1>3, <2>1, <3>2, Absent, Tables DEF OwnRows
      <3> QED
        BY <1>2, <1>3, <2>1, <3>1, <3>3, Absent DEF NewAnalysis
    <2>2. CASE ~Writes(w, "create_analysis", a)
      <3>1. \/ analysis'[a] = analysis[a]
            \/ analysis[a] # NoRow /\ analysis'[a] = [analysis[a] EXCEPT !.profile = NoId]
        BY <2>2 DEF Commit
      <3>2. analysis[a] # NoRow
        BY <1>5, <3>1
      <3>3. analysis[a] \in AnalysisRow
        BY <3>2 DEF Inv, TypeOK
      <3>4. analysis'[a].profile \in {NoId, analysis[a].profile}
        BY <3>1, <3>3 DEF AnalysisRow
      <3> QED
        BY <3>2, <3>4 DEF Inv, OwnershipInv
    <2> QED
      BY <2>1, <2>2
  <1>6. ASSUME NEW x \in Roadmaps, roadmap'[x] # NoRow
        PROVE  author'[x] # NoUser /\ author'[roadmap'[x].analysis] = author'[x]
    <2>1. CASE Writes(w, "create_roadmap", x)
      <3>1. roadmap'[x].analysis = req[w].ref
        BY <2>1 DEF Commit, NewRoadmap
      <3>2. req[w].id # NoId /\ req[w].ref \in Analyses /\ req[w].id = x
        BY <1>1, <1>3, <2>1 DEF Fits, Creations
      <3>3. author[x] = req[w].user /\ author[req[w].ref] = req[w].user
        BY <1>1, <1>3, <2>1, <3>2, Absent, Tables DEF OwnRows
      <3> QED
        BY <1>2, <1>3, <2>1, <3>1, <3>3, Absent
    <2>2. CASE ~Writes(w, "create_roadmap", x)
      <3>1. roadmap[x] # NoRow
        BY <1>6, <2>2 DEF Commit, Writes, Inv, HandlerInv
      <3>2. roadmap[x] \in RoadmapRow
        BY <3>1 DEF Inv, TypeOK
      <3>3. \/ roadmap'[x] = roadmap[x]
            \/ roadmap'[x] = [roadmap[x] EXCEPT !.done = req[w].done]
        BY <2>2 DEF Commit
      <3>4. roadmap'[x].analysis = roadmap[x].analysis
        BY <3>2, <3>3 DEF RoadmapRow
      <3> QED
        BY <3>1, <3>4 DEF Inv, OwnershipInv
    <2> QED
      BY <2>1, <2>2
  <1> QED
    BY <1>4, <1>5, <1>6 DEF OwnershipInv

\* The links of a committed analysis: its profile was locked while it waited,
\* and a deleted profile is unlinked from its analyses.
LEMMA CommitLinks ==
    ASSUME Inv, NEW w \in Workers, Commit(w), UNCHANGED backend
    PROVE  LinksHold'
  <1> SUFFICES ASSUME NEW a \in Analyses, ForeignKeys, analysis'[a] # NoRow,
                      analysis'[a].profile # NoId
               PROVE  profile'[analysis'[a].profile] # NoRow
    BY DEF LinksHold, ForeignKeys
  <1>1. Fits(req[w], pc[w], dirty[w])
    BY DEF Inv, HandlerInv
  <1>2. CASE Writes(w, "create_analysis", a)
    <2>1. analysis'[a].profile = req[w].ref /\ req[w].ref \in Profiles
      BY <1>1, <1>2 DEF Commit, NewAnalysis, Writes, Fits
    <2>2. profile[req[w].ref] # NoRow /\ ~Writes(w, "delete_profile", req[w].ref)
      BY <1>2 DEF Writes, Inv, WritesInv
    <2> QED
      BY <2>1, <2>2, CommitTypes
  <1>3. CASE ~Writes(w, "create_analysis", a)
    <2>1. analysis[a] # NoRow
      BY <1>3 DEF Commit
    <2>2. analysis[a] \in AnalysisRow
      BY <2>1 DEF Inv, TypeOK
    <2>3. analysis'[a] = analysis[a] /\ analysis[a].profile \in Profiles
      BY <1>3, <2>2 DEF Commit, AnalysisRow
    <2>4. profile[analysis[a].profile] # NoRow
      BY <2>1, <2>3 DEF Inv, LinksHold, ForeignKeys
    <2>5. ~Writes(w, "delete_profile", analysis[a].profile)
      <3> SUFFICES ASSUME Writes(w, "delete_profile", analysis[a].profile)
                   PROVE  FALSE
        OBVIOUS
      <3>1. analysis'[a] = [analysis[a] EXCEPT !.profile = NoId]
        BY <1>3, <2>1 DEF Commit, Writes
      <3> QED
        BY <2>2, <3>1 DEF AnalysisRow
    <2> QED
      BY <2>3, <2>4, <2>5, CommitTypes
  <1> QED
    BY <1>2, <1>3

\* The writes that still wait keep their locks.
LEMMA CommitLocks ==
    ASSUME Inv, NEW w \in Workers, Commit(w), Finish(w)
    PROVE  WritesInv'
  <1>1. /\ \A v \in Workers : dirty'[v] => v # w /\ dirty[v]
        /\ \A v \in Workers \ {w} : req'[v] = req[v] /\ dirty'[v] = dirty[v]
        /\ UNCHANGED backend
    BY DEF Finish, Goto, Inv, TypeOK
  <1>2. ASSUME NEW v \in Workers, dirty'[v], req'[v].op = "patch_profile"
        PROVE  profile'[req'[v].id] # NoRow
    <2>1. profile[req[v].id] # NoRow /\ ~Writes(w, "delete_profile", req[v].id)
      BY <1>1, <1>2 DEF Inv, WritesInv, Writes
    <2>2. req[v].id \in Profiles /\ req'[v] = req[v]
      BY <1>1, <1>2 DEF Inv, HandlerInv, Fits
    <2> QED
      BY <2>1, <2>2, CommitTypes
  <1>3. ASSUME NEW v \in Workers, dirty'[v], req'[v].op = "create_analysis", ForeignKeys
        PROVE  profile'[req'[v].ref] # NoRow
    <2>1. profile[req[v].ref] # NoRow /\ ~Writes(w, "delete_profile", req[v].ref)
      BY <1>1, <1>3 DEF Inv, WritesInv, Writes
    <2>2. req[v].ref \in Profiles /\ req'[v] = req[v]
      BY <1>1, <1>3 DEF Inv, HandlerInv, Fits
    <2> QED
      BY <2>1, <2>2, CommitTypes
  <1>4. ASSUME NEW v \in Workers, dirty'[v], NEW x \in Workers,
               dirty'[x] /\ req'[x].op = "delete_profile"
        PROVE  /\ req'[v].op = "patch_profile" => req'[x].id # req'[v].id
               /\ req'[v].op = "create_analysis" /\ ForeignKeys => req'[x].id # req'[v].ref
    BY <1>1, <1>4 DEF Inv, WritesInv
  <1> QED
    BY <1>1, <1>2, <1>3, <1>4 DEF WritesInv, ForeignKeys

\* The teardown hook commits and closes the session.
LEMMA TeardownKeepsInv ==
    ASSUME Inv, NEW w \in Workers, Teardown(w)
    PROVE  Inv'
  <1>1. Commit(w) /\ Finish(w) /\ UNCHANGED <<backend, author>>
    BY DEF Teardown, Finish, Goto
  <1>2. Fits(NoRequest, "idle", FALSE) /\ OwnRows(NoRequest)' /\ NoRequest.op # "patch_resource"
    BY NoRequestType DEF Fits, Steps, Ops, Creations, OwnRows
  <1>3. /\ HandlerInv'
        /\ pc' \in [Workers -> Steps] /\ req' \in [Workers -> Request]
        /\ dirty' \in [Workers -> BOOLEAN] /\ backend' \in Backends
    BY <1>1, <1>2, CommitTypes, HandlersKept DEF Finish, Goto
  <1>4. TypeOK'
    BY <1>1, <1>3, CommitTypes DEF Inv, TypeOK
  <1> QED
    BY <1>1, <1>3, <1>4, CommitOwns, CommitLinks, CommitLocks DEF Inv

\* The steps that fail.
LEMMA FaultsKeepInv ==
    ASSUME Inv, NEW w \in Workers,
           UpdateProfileFails(w) \/ InsertFails(w) \/ Fault(w)
    PROVE  Inv'
  <1>1. CASE UpdateProfileFails(w) \/ InsertFails(w) \/ StatementFails(w)
    BY <1>1, FailStep DEF UpdateProfileFails, InsertFails, StatementFails, At
  <1>2. CASE TeardownCommitFails(w) \/ Crash(w)
    BY <1>2, FinishStep DEF TeardownCommitFails, Crash
  <1> QED
    BY <1>1, <1>2 DEF Fault

-----------------------------------------------------------------------------
(***************************************************************************)
(* Theorems                                                                *)
(***************************************************************************)

\* Nothing is stored when the server starts.
LEMMA InitInv == Init => Inv
  <1> SUFFICES ASSUME Init
               PROVE  Inv
    OBVIOUS
  <1> USE DEF Init
  <1>1. TypeOK
    BY NoRequestType DEF TypeOK, Steps
  <1>2. Fits(NoRequest, "idle", FALSE) /\ ~Cleared(NoRequest, "idle", FALSE)
    BY NoRequestType DEF Fits, Cleared, Steps, Ops, Creations, Concealing
  <1>3. HandlerInv
    BY <1>2, NoRequestType DEF HandlerInv, Ops
  <1>4. OwnershipInv /\ WritesInv /\ LinksHold
    BY DEF OwnershipInv, WritesInv, LinksHold
  <1> QED
    BY <1>1, <1>3, <1>4 DEF Inv

\* Every step of every worker keeps the invariant.
LEMMA NextInv == Inv /\ [Next]_vars => Inv'
  <1> SUFFICES ASSUME Inv, [Next]_vars
               PROVE  Inv'
    OBVIOUS
  <1>1. ASSUME NEW w \in Workers, Start(w) \/ Step(w) \/ Fault(w)
        PROVE  Inv'
    BY <1>1, StartKeepsInv, ReadsKeepInv, GetForPatchKeepsInv, SelectProfileKeepsInv,
       GetForAnalysisKeepsInv, GetForRoadmapKeepsInv, GateResourceKeepsInv,
       SelectRoadmapKeepsInv, SqlWritesKeepInv, InsertSqlKeepsInv,
       UpdateProfileMemoryKeepsInv, DisownProfileKeepsInv, DeleteProfileMemoryKeepsInv,
       UpdateRoadmapMemoryKeepsInv, OwnKeepsInv, InsertMemoryKeepsInv,
       TeardownKeepsInv, FaultsKeepInv DEF Step
  <1>2. CASE UNCHANGED vars
    BY <1>2 DEF vars, store, Inv, TypeOK, HandlerInv, OwnershipInv, WritesInv, LinksHold,
                Fits, Cleared, OwnRows, Sql, ForeignKeys
  <1> QED
    BY <1>1, <1>2 DEF Next

LEMMA AlwaysInv == Spec => []Inv
  <1> QED
    BY InitInv, NextInv, PTL DEF Spec

\* The rows, the requests and the calls of the handlers keep their types,
\* whatever the backend and however many workers there are.
THEOREM StoreTypes == Spec => []TypeOK
  BY AlwaysInv, PTL DEF Inv

\* Rows never change hands, and a profile, its analyses and their roadmaps
\* belong to one user.
THEOREM RowsKeepOwners == Spec => []OwnershipInv
  BY AlwaysInv, PTL DEF Inv

\* A reply that tells more than "not found" is about the user's own rows.
THEOREM RepliesConceal == Spec => []RepliesAreOwn
  <1>1. Inv => RepliesAreOwn
    BY DEF Inv, HandlerInv, Cleared, OwnRows, RepliesAreOwn
  <1> QED
    BY <1>1, AlwaysInv, PTL

\* The row locks keep an uncommitted write from the row another one deletes.
THEOREM LocksGuard == Spec => []WritesInv
  BY AlwaysInv, PTL DEF Inv

\* On PostgreSQL an analysis names a profile that is there, or none.
THEOREM LinksKept == Spec => []LinksHold
  BY AlwaysInv, PTL DEF Inv

\* A step moves one worker on, and leaves the others what they have.
LEMMA OneWorkerSteps ==
    ASSUME Inv, NEW w \in Workers, Start(w) \/ Step(w) \/ Fault(w)
    PROVE  /\ \A v \in Workers \ {w} : pc'[v] = pc[v] /\ req'[v] = req[v] /\ dirty'[v] = dirty[v]
           /\ UNCHANGED backend
  <1> USE DEF Goto, Answer, Fail, Finish, Write, ReadOnly, Inv, TypeOK
  <1>1. CASE Start(w)
    BY <1>1 DEF Start, StartCreateProfile, StartProfile, StartAnalysis, StartRoadmap, Begin
  <1>2. CASE GetProfile(w) \/ GetForPatch(w) \/ SelectProfile(w) \/ GetAnalysis(w)
             \/ GetForAnalysis(w) \/ GetForRoadmap(w) \/ GateResource(w) \/ SelectRoadmap(w)
             \/ Recheck(w)
    BY <1>2 DEF GetProfile, GetForPatch, SelectProfile, GetAnalysis, GetForAnalysis,
                GetForRoadmap, GateResource, SelectRoadmap, Recheck
  <1>3. CASE UpdateProfileSql(w) \/ UpdateProfileFails(w) \/ UpdateProfileMemory(w)
             \/ DeleteProfileSql(w) \/ DisownProfile(w) \/ DeleteProfileMemory(w)
             \/ UpdateRoadmapSql(w) \/ UpdateRoadmapMemory(w)
    BY <1>3 DEF UpdateProfileSql, UpdateProfileFails, UpdateProfileMemory, DeleteProfileSql,
                DisownProfile, DeleteProfileMemory, UpdateRoadmapSql, UpdateRoadmapMemory
  <1>4. CASE InsertSql(w) \/ InsertFails(w) \/ InsertMemory(w) \/ Own(w) \/ Teardown(w) \/ Fault(w)
    BY <1>4 DEF InsertSql, InsertFails, InsertMemory, Own, Teardown, Fault,
                TeardownCommitFails, Crash, StatementFails
  <1> QED
    BY <1>1, <1>2, <1>3, <1>4 DEF Step

\* The rows a step of w writes are its user's.
WritesOwn(w) ==
    /\ \A p \in Profiles : profile'[p] # profile[p] => author'[p] = req[w].user
    /\ \A a \in Analyses : analysis'[a] # analysis[a] => author'[a] = req[w].user
    /\ \A r \in Roadmaps : roadmap'[r] # roadmap[r] => author'[r] = req[w].user

\* The memory repositories write rows the handler has been cleared for.
LEMMA MemoryWritesOwn ==
    ASSUME Inv, NEW w \in Workers,
           UpdateProfileMemory(w) \/ DeleteProfileMemory(w) \/ UpdateRoadmapMemory(w) \/ InsertMemory(w)
    PROVE  WritesOwn(w)
  <1>1. pc[w] \in {"update", "delete", "insert"}
    BY DEF UpdateProfileMemory, DeleteProfileMemory, UpdateRoadmapMemory, InsertMemory, At
  <1>2. Fits(req[w], pc[w], FALSE) /\ OwnRows(req[w]) /\ req[w].user \in Users
    BY <1>1, UnderWay DEF Cleared
  <1>3. CASE UpdateProfileMemory(w) \/ DeleteProfileMemory(w)
    <2>1. req[w].id \in Profiles
      BY <1>2, <1>3 DEF Fits, UpdateProfileMemory, DeleteProfileMemory, At
    <2>2. author[req[w].id] = req[w].user
      BY <1>2, <2>1, Absent, Tables DEF OwnRows
    <2>3. \A p \in Profiles \ {req[w].id} : profile'[p] = profile[p]
      BY <1>3 DEF UpdateProfileMemory, DeleteProfileMemory, Inv, TypeOK
    <2>4. UNCHANGED <<author, analysis, roadmap>>
      BY <1>3 DEF UpdateProfileMemory, DeleteProfileMemory
    <2> QED
      BY <2>2, <2>3, <2>4 DEF WritesOwn
  <1>4. CASE UpdateRoadmapMemory(w)
    <2>1. req[w].id \in Roadmaps
      BY <1>2, <1>4 DEF Fits, UpdateRoadmapMemory, At
    <2>2. author[req[w].id] = req[w].user
      BY <1>2, <2>1, Absent, Tables DEF OwnRows
    <2>3. \A x \in Roadmaps \ {req[w].id} : roadmap'[x] = roadmap[x]
      BY <1>4 DEF UpdateRoadmapMemory, Inv, TypeOK
    <2>4. UNCHANGED <<author, profile, analysis>>
      BY <1>4 DEF UpdateRoadmapMemory
    <2> QED
      BY <2>2, <2>3, <2>4 DEF WritesOwn
  <1>5. CASE InsertMemory(w)
    <2>1. PICK i \in Fresh(req[w].op) :
            /\ author' = [author EXCEPT ![i] = req[w].user]
            /\ profile' = IF i \in Profiles THEN [profile EXCEPT ![i] = req[w].row] ELSE profile
            /\ analysis' = IF i \in Analyses THEN [analysis EXCEPT ![i] = NewAnalysis(w)] ELSE analysis
            /\ roadmap' = IF i \in Roadmaps THEN [roadmap EXCEPT ![i] = NewRoadmap(w)] ELSE roadmap
      BY <1>5 DEF InsertMemory
    <2>2. author'[i] = req[w].user
      BY <1>2, <1>5, <2>1, FreshIds DEF InsertMemory, At
    <2>3. /\ \A p \in Profiles \ {i} : profile'[p] = profile[p]
          /\ \A a \in Analyses \ {i} : analysis'[a] = analysis[a]
          /\ \A x \in Roadmaps \ {i} : roadmap'[x] = roadmap[x]
      BY <2>1 DEF Inv, TypeOK
    <2> QED
      BY <2>2, <2>3 DEF WritesOwn
  <1> QED
    BY <1>3, <1>4, <1>5

\* A commit stores rows of its request's user, and unlinks analyses of the
\* profile that user deletes.
LEMMA CommitWritesOwn ==
    ASSUME Inv, NEW w \in Workers, Teardown(w)
    PROVE  WritesOwn(w)
  <1>1. Commit(w) /\ UNCHANGED author
    BY DEF Teardown, Finish
  <1>2. Fits(req[w], pc[w], dirty[w]) /\ (dirty[w] => OwnRows(req[w]))
    BY DEF Inv, HandlerInv, Cleared
  <1>3. \A op, i : Writes(w, op, i) /\ i \in Ids => author[i] = req[w].user
    BY <1>2, Absent DEF Writes, OwnRows
  <1>4. ASSUME NEW p \in Profiles, profile'[p] # profile[p]
        PROVE  author'[p] = req[w].user
    BY <1>1, <1>3, <1>4, Tables DEF Commit
  <1>5. ASSUME NEW a \in Analyses, analysis'[a] # analysis[a]
        PROVE  author'[a] = req[w].user
    <2>1. CASE Writes(w, "create_analysis", a)
      BY <1>1, <1>3, <2>1, Tables
    <2>2. CASE /\ dirty[w] /\ req[w].op = "delete_profile"
               /\ analysis[a] # NoRow /\ analysis[a].profile = req[w].id
      <3>1. req[w].id \in Profiles
        BY <1>2, <2>2 DEF Fits
      <3>2. author[req[w].id] = req[w].user /\ req[w].id # NoId
        BY <1>2, <2>2, <3>1, Absent, Tables DEF OwnRows
      <3>3. author[a] = author[req[w].id]
        BY <2>2, <3>2 DEF Inv, OwnershipInv
      <3> QED
        BY <1>1, <3>2, <3>3
    <2> QED
      BY <1>1, <1>5, <2>1, <2>2 DEF Commit
  <1>6. ASSUME NEW x \in Roadmaps, roadmap'[x] # roadmap[x]
        PROVE  author'[x] = req[w].user
    BY <1>1, <1>3, <1>6, Tables DEF Commit
  <1> QED
    BY <1>4, <1>5, <1>6 DEF WritesOwn

\* No other step changes a row.
LEMMA StepWritesOwn ==
    ASSUME Inv, NEW w \in Workers, Start(w) \/ Step(w) \/ Fault(w)
    PROVE  WritesOwn(w)
  <1>1. UNCHANGED <<profile, analysis, roadmap>> => WritesOwn(w)
    BY DEF WritesOwn
  <1>2. CASE Start(w)
    BY <1>1, <1>2 DEF Start, StartCreateProfile, StartProfile, StartAnalysis, StartRoadmap,
                      Begin, ReadOnly, store
  <1>3. CASE GetProfile(w) \/ GetForPatch(w) \/ SelectProfile(w) \/ GetAnalysis(w)
             \/ GetForAnalysis(w) \/ GetForRoadmap(w) \/ GateResource(w) \/ SelectRoadmap(w)
             \/ Recheck(w)
    BY <1>1, <1>3 DEF GetProfile, GetForPatch, SelectProfile, GetAnalysis, GetForAnalysis,
                      GetForRoadmap, GateResource, SelectRoadmap, Recheck, ReadOnly, store
  <1>4. CASE UpdateProfileSql(w) \/ UpdateProfileFails(w) \/ DeleteProfileSql(w)
             \/ DisownProfile(w) \/ UpdateRoadmapSql(w) \/ InsertSql(w) \/ InsertFails(w) \/ Own(w)
             \/ Fault(w)
    BY <1>1, <1>4 DEF UpdateProfileSql, UpdateProfileFails, DeleteProfileSql, DisownProfile,
                      UpdateRoadmapSql, InsertSql, InsertFails, Own, Fault, TeardownCommitFails,
                      Crash, StatementFails, Write, Fail, store
  <1> QED
    BY <1>2, <1>3, <1>4, MemoryWritesOwn, CommitWritesOwn DEF Step

\* A request changes rows of its own user only, whatever the other workers
\* do meanwhile.
THEOREM WritesStayOwn == Spec => WritesAreOwn
  <1>1. Inv /\ [Next]_vars => [\A w \in Workers : pc'[w] # pc[w] => WritesOwn(w)]_vars
    BY OneWorkerSteps, StepWritesOwn DEF Next
  <1>2. (\A w \in Workers : pc'[w] # pc[w] => WritesOwn(w)) <=>
          \A w \in Workers : pc'[w] # pc[w] =>
             /\ \A p \in Profiles : profile'[p] # profile[p] => author'[p] = req[w].user
             /\ \A a \in Analyses : analysis'[a] # analysis[a] => author'[a] = req[w].user
             /\ \A r \in Roadmaps : roadmap'[r] # roadmap[r] => author'[r] = req[w].user
    BY DEF WritesOwn
  <1> QED
    BY <1>1, <1>2, AlwaysInv, PTL DEF Spec, WritesAreOwn

-----------------------------------------------------------------------------
(***************************************************************************)
(* What a success reports is stored                                        *)
(***************************************************************************)

\* After the step of w, what its session holds is what its handler will
\* have reported.
WaitingNext(w) == Waiting(req'[w], pc'[w], dirty'[w])

\* An answer that is no success, or is one about a row that was only read.
LEMMA AnswerWaits ==
    ASSUME Inv, NEW w \in Workers, pc[w] \notin {"idle", "teardown"},
           NEW reply \in Replies, Answer(w, reply),
           \/ reply \notin {"ok", "created", "no_content"}
           \/ req[w].op \in {"get_profile", "get_analysis"},
           dirty'[w] = FALSE
    PROVE  WaitingNext(w)
  <1>1. PICK q \in Request : Answered(q, w, reply)
    BY Answers
  <1> QED
    BY <1>1 DEF Answered, WaitingNext, Waiting, Inv, TypeOK

\* An answer given once the write waits in the session.
LEMMA WriteWaits ==
    ASSUME Inv, WaitingInv, Sql, NEW w \in Workers, pc[w] \notin {"idle", "teardown"},
           req[w].op = "patch_resource" => pc[w] = "update",
           NEW reply \in Replies, Answer(w, reply), Write(w)
    PROVE  WaitingNext(w)
  <1>1. PICK q \in Request : Answered(q, w, reply)
    BY Answers
  <1>2. q = req'[w] /\ req' = [req EXCEPT ![w].reply = reply] /\ dirty'[w] = TRUE /\ req[w] \in Request
    BY <1>1 DEF Answered, Answer, Write, Inv, TypeOK
  <1>3. q.op = req[w].op /\ q.resource = req[w].resource /\ q.done = req[w].done
        /\ q.completed = req[w].completed
    BY <1>2 DEF Request, Inv, TypeOK
  <1>4. CASE req[w].op # "patch_resource"
    BY <1>2, <1>3, <1>4 DEF WaitingNext, Waiting
  <1>5. CASE req[w].op = "patch_resource"
    BY <1>2, <1>3, <1>5 DEF WaitingNext, Waiting, WaitingInv
  <1> QED
    BY <1>4, <1>5

\* A call that goes on to one before the write of a flag.
LEMMA GotoWaits ==
    ASSUME NEW w \in Workers, NEW s, Goto(w, s), Inv, s # "teardown",
           dirty'[w] = FALSE, s = "update" => req'[w].op # "patch_resource"
    PROVE  WaitingNext(w)
  BY DEF Goto, WaitingNext, Waiting, Inv, TypeOK

\* Every step keeps in the session what its worker reports.
LEMMA StepWaits ==
    ASSUME Inv, WaitingInv, Sql, NEW w \in Workers, Start(w) \/ Step(w) \/ Fault(w)
    PROVE  WaitingNext(w)
  <1> USE DEF At
  <1>1. pc[w] # "teardown" => dirty[w] = FALSE /\ req[w] \in Request
    BY DEF Inv, HandlerInv, Fits
  <1>2. CASE Start(w)
    <2>1. PICK s \in {"read", "get", "select", "insert", "gate"} :
            pc[w] = "idle" /\ Goto(w, s) /\ ReadOnly
      BY <1>2 DEF Start, StartCreateProfile, StartProfile, StartAnalysis, StartRoadmap, Begin
    <2> QED
      BY <1>1, <2>1, GotoWaits DEF ReadOnly
  <1>3. CASE GetProfile(w) \/ GetAnalysis(w) \/ Recheck(w)
    <2>1. /\ pc[w] \notin {"idle", "teardown"} /\ dirty'[w] = FALSE
      BY <1>1, <1>3 DEF GetProfile, GetAnalysis, Recheck, ReadOnly
    <2>2. PICK reply \in Replies : Answer(w, reply)
                                  /\ \/ reply \notin {"ok", "created", "no_content"}
                                     \/ req[w].op \in {"get_profile", "get_analysis"}
      BY <1>3 DEF GetProfile, GetAnalysis, Recheck, Replies, Errors
    <2> QED
      BY <2>1, <2>2, AnswerWaits
  <1>4. CASE GetForPatch(w) \/ SelectProfile(w) \/ GetForAnalysis(w) \/ GetForRoadmap(w)
    <2>1. pc[w] \in {"get", "select"} /\ dirty'[w] = FALSE /\ req[w].op # "patch_resource"
      BY <1>1, <1>4 DEF GetForPatch, SelectProfile, GetForAnalysis, GetForRoadmap, ReadOnly
    <2>2. \/ \E reply \in Replies \ {"ok", "created", "no_content"} : Answer(w, reply)
          \/ \E s \in Steps \ {"teardown"} : Goto(w, s) /\ req'[w].op = req[w].op
      <3> req[w] \in Request /\ req \in [Workers -> Request]
        BY DEF Inv, TypeOK
      <3> USE DEF Replies, Errors, Steps, Request
      <3>1. CASE GetForPatch(w)
        BY <3>1 DEF GetForPatch
      <3>2. CASE SelectProfile(w)
        BY <3>2 DEF SelectProfile
      <3>3. CASE GetForAnalysis(w)
        BY <3>3 DEF GetForAnalysis
      <3>4. CASE GetForRoadmap(w)
        BY <3>4 DEF GetForRoadmap
      <3> QED
        BY <1>4, <3>1, <3>2, <3>3, <3>4
    <2> QED
      BY <2>1, <2>2, AnswerWaits, GotoWaits
  <1>5. CASE GateResource(w)
    BY <1>1, <1>5, GotoWaits DEF GateResource, ReadOnly
  <1>6. CASE SelectRoadmap(w)
    <2>1. dirty'[w] = FALSE /\ pc[w] = "select"
      BY <1>1, <1>6 DEF SelectRoadmap, ReadOnly
    <2>2. CASE Goto(w, "recheck")
      BY <2>1, <2>2, GotoWaits
    <2>3. CASE /\ Goto(w, "update")
               /\ req' = [req EXCEPT ![w].done =
                              Flagged(roadmap[req[w].id].done, req[w].resource, req[w].completed)]
      <3>1. /\ req'[w].done = Flagged(roadmap[req[w].id].done, req[w].resource, req[w].completed)
            /\ req'[w].resource = req[w].resource /\ req'[w].completed = req[w].completed
            /\ req[w].completed \in BOOLEAN
        BY <1>1, <2>1, <2>3 DEF Inv, TypeOK, Request
      <3>2. (req'[w].resource \in req'[w].done) = req'[w].completed
        BY <3>1 DEF Flagged
      <3>3. pc'[w] = "update"
        BY <2>3 DEF Goto, Inv, TypeOK
      <3> QED
        BY <3>2, <3>3 DEF WaitingNext, Waiting
    <2> QED
      BY <1>6, <2>2, <2>3 DEF SelectRoadmap
  <1>7. CASE UpdateProfileSql(w) \/ DeleteProfileSql(w) \/ UpdateRoadmapSql(w)
    BY <1>7, WriteWaits DEF UpdateProfileSql, DeleteProfileSql, UpdateRoadmapSql, Replies
  <1>8. CASE InsertSql(w)
    <2>1. req'[w].op \in Creations /\ dirty'[w] = TRUE
      BY <1>1, <1>8 DEF InsertSql, Write, Inv, TypeOK, Request
    <2> QED
      BY <2>1 DEF WaitingNext, Waiting, Creations
  <1>9. CASE UpdateProfileFails(w) \/ InsertFails(w) \/ StatementFails(w)
    BY <1>9, AnswerWaits DEF UpdateProfileFails, InsertFails, StatementFails, Fail, Replies,
                             Errors, Inv, TypeOK
  <1>10. CASE UpdateProfileMemory(w) \/ DisownProfile(w) \/ DeleteProfileMemory(w)
              \/ UpdateRoadmapMemory(w) \/ InsertMemory(w) \/ Own(w)
    BY <1>10 DEF UpdateProfileMemory, DisownProfile, DeleteProfileMemory, UpdateRoadmapMemory,
                 InsertMemory, Own, Inv, HandlerInv, Fits
  <1>11. CASE Teardown(w) \/ TeardownCommitFails(w) \/ Crash(w)
    BY <1>11, GotoWaits DEF Teardown, TeardownCommitFails, Crash, Finish, Inv, TypeOK
  <1> QED
    BY <1>2, <1>3, <1>4, <1>5, <1>6, <1>7, <1>8, <1>9, <1>10, <1>11 DEF Step, Fault

LEMMA InitWaiting == Init => WaitingInv
  <1>1. Waiting(NoRequest, "idle", FALSE)
    BY DEF Waiting, NoRequest
  <1> QED
    BY <1>1 DEF Init, WaitingInv

LEMMA NextWaiting == Inv /\ WaitingInv /\ [Next]_vars => WaitingInv'
  <1> SUFFICES ASSUME Inv, WaitingInv, [Next]_vars, Sql'
               PROVE  \A w \in Workers : Waiting(req'[w], pc'[w], dirty'[w])
    BY DEF WaitingInv
  <1>1. ASSUME NEW v \in Workers, Start(v) \/ Step(v) \/ Fault(v), NEW w \in Workers
        PROVE  Waiting(req'[w], pc'[w], dirty'[w])
    <2>1. Sql
      BY <1>1, OneWorkerSteps DEF Sql
    <2>2. CASE w = v
      BY <1>1, <2>1, <2>2, StepWaits DEF WaitingNext
    <2>3. CASE w # v
      BY <1>1, <2>1, <2>3, OneWorkerSteps DEF WaitingInv
    <2> QED
      BY <2>2, <2>3
  <1>2. CASE UNCHANGED vars
    BY <1>2 DEF vars, WaitingInv, Sql
  <1> QED
    BY <1>1, <1>2 DEF Next

LEMMA AlwaysWaiting == Spec => []WaitingInv
  <1> QED
    BY InitWaiting, NextWaiting, AlwaysInv, PTL DEF Spec

\* What the success of w reports is in the store.
StoredNext(w) ==
    LET i == req[w].id
    IN  CASE req[w].op = "create_profile" -> profile'[i] = req[w].row
          [] req[w].op = "create_analysis" -> analysis'[i].profile = req[w].ref
          [] req[w].op = "create_roadmap" -> roadmap'[i].analysis = req[w].ref
          [] req[w].op = "patch_profile" -> profile'[i] # NoRow
          [] req[w].op = "delete_profile" -> profile'[i] = NoRow
          [] req[w].op = "patch_resource" ->
                 (req[w].resource \in roadmap'[i].done) = req[w].completed
          [] OTHER -> TRUE

\* A commit stores what the reply has announced.
LEMMA TeardownStores ==
    ASSUME Inv, WaitingInv, Sql, NEW w \in Workers, Teardown(w), Succeeded(w)
    PROVE  StoredNext(w)
  <1> DEFINE i == req[w].id
  <1>1. Commit(w) /\ pc[w] = "teardown"
    BY DEF Teardown
  <1>2. Fits(req[w], "teardown", dirty[w]) /\ Waiting(req[w], "teardown", dirty[w])
    BY <1>1 DEF Inv, HandlerInv, WaitingInv
  <1>3. req[w].op \in Ops /\ (dirty[w] \/ req[w].op \in {"get_profile", "get_analysis"})
    BY <1>2 DEF Fits, Waiting, Succeeded
  <1>4. CASE req[w].op = "create_profile"
    <2>1. i \in Profiles /\ Writes(w, "create_profile", i)
      BY <1>2, <1>3, <1>4 DEF Fits, Creations, TableOf, Writes
    <2> QED
      BY <1>1, <1>4, <2>1 DEF Commit, StoredNext
  <1>5. CASE req[w].op = "create_analysis"
    <2>1. i \in Analyses /\ Writes(w, "create_analysis", i)
      BY <1>2, <1>3, <1>5 DEF Fits, Creations, TableOf, Writes
    <2> QED
      BY <1>1, <1>5, <2>1 DEF Commit, StoredNext, NewAnalysis
  <1>6. CASE req[w].op = "create_roadmap"
    <2>1. i \in Roadmaps /\ Writes(w, "create_roadmap", i)
      BY <1>2, <1>3, <1>6 DEF Fits, Creations, TableOf, Writes
    <2> QED
      BY <1>1, <1>6, <2>1 DEF Commit, StoredNext, NewRoadmap
  <1>7. CASE req[w].op = "patch_profile"
    <2>1. /\ i \in Profiles /\ profile[i] # NoRow
          /\ ~Writes(w, "delete_profile", i)
      BY <1>2, <1>3, <1>7 DEF Fits, Writes, Inv, WritesInv
    <2>2. profile'[i] # NoRow
      BY <1>1, <2>1, CommitTypes
    <2> QED
      BY <1>7, <2>2 DEF StoredNext
  <1>8. CASE req[w].op = "delete_profile"
    <2>1. i \in Profiles /\ Writes(w, "delete_profile", i)
          /\ ~Writes(w, "create_profile", i) /\ ~Writes(w, "patch_profile", i)
      BY <1>2, <1>3, <1>8 DEF Fits, Writes
    <2> QED
      BY <1>1, <1>8, <2>1 DEF Commit, StoredNext
  <1>9. CASE req[w].op = "patch_resource"
    <2>1. /\ i \in Roadmaps /\ roadmap[i] # NoRow
          /\ Writes(w, "patch_resource", i) /\ ~Writes(w, "create_roadmap", i)
      BY <1>2, <1>3, <1>9 DEF Fits, Writes, Inv, HandlerInv
    <2>2. roadmap'[i] = [roadmap[i] EXCEPT !.done = req[w].done] /\ roadmap[i] \in RoadmapRow
      BY <1>1, <2>1 DEF Commit, Inv, TypeOK
    <2>3. roadmap'[i].done = req[w].done
      BY <2>2 DEF RoadmapRow
    <2>4. (req[w].resource \in req[w].done) = req[w].completed
      BY <1>2, <1>3, <1>9 DEF Waiting
    <2> QED
      BY <1>9, <2>3, <2>4 DEF StoredNext
  <1>10. CASE req[w].op \in {"get_profile", "get_analysis"}
    BY <1>10 DEF StoredNext
  <1> QED
    BY <1>3, <1>4, <1>5, <1>6, <1>7, <1>8, <1>9, <1>10 DEF Ops, Creations

\* Only the teardown takes a worker from its answer to its next request.
LEMMA OnlyTeardown ==
    ASSUME Inv, Environment \cap {"commit", "crash"} = {},
           NEW w \in Workers, NEW v \in Workers, Start(v) \/ Step(v) \/ Fault(v),
           pc[w] = "teardown", pc'[w] = "idle"
    PROVE  Teardown(w)
  <1>1. v = w
    BY OneWorkerSteps
  <1>2. ~Start(w)
    BY DEF Start, StartCreateProfile, StartProfile, StartAnalysis, StartRoadmap, Begin
  <1>3. ~Fault(w)
    BY DEF Fault, TeardownCommitFails, Crash, StatementFails
  <1>4. Step(w) => Teardown(w)
    BY DEF Step, At, GetProfile, GetForPatch, SelectProfile, UpdateProfileSql, UpdateProfileFails,
           UpdateProfileMemory, DeleteProfileSql, DisownProfile, DeleteProfileMemory, GetAnalysis,
           GetForAnalysis, GetForRoadmap, GateResource, SelectRoadmap, Recheck, UpdateRoadmapSql,
           UpdateRoadmapMemory, InsertSql, InsertFails, InsertMemory, Own
  <1> QED
    BY <1>1, <1>2, <1>3, <1>4

\* Where commits do not fail and workers do not die, what a success reports
\* is stored by the time it leaves.
THEOREM SuccessesAreStored ==
    ASSUME Environment \cap {"commit", "crash"} = {}
    PROVE  Spec => SuccessIsStored
  <1>1. Inv /\ WaitingInv /\ [Next]_vars =>
          [\A w \in Workers : Sql /\ pc[w] = "teardown" /\ pc'[w] = "idle" /\ Succeeded(w)
                                 => StoredNext(w)]_vars
    BY OnlyTeardown, TeardownStores DEF Next
  <1> QED
    BY <1>1, AlwaysInv, AlwaysWaiting, PTL DEF Spec, SuccessIsStored, StoredNext
=============================================================================
