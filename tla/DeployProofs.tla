---------------------------- MODULE DeployProofs ----------------------------
(***************************************************************************)
(* The stuck-state repair of entrypoint.sh keeps the schema complete for   *)
(* any number of containers and releases, whatever races, fails or dies,   *)
(* unless the upgrade of an older schema fails; and a client that pages    *)
(* through the catalog meanwhile misses no job.                            *)
(***************************************************************************)
EXTENDS Deploy, FiniteSetTheorems, TLAPS

\* A database at version 0 has no table, so the probe tells it from the rest.
LEMMA EmptyAtZero == SchemaOf(0) = {}
<1>1. 1..0 = {}
  OBVIOUS
<1> QED
  BY <1>1 DEF SchemaOf

\* Applying the pending migrations makes the schema that of the latest version.
LEMMA PendingComplete ==
    ASSUME NEW v \in 0..Latest
    PROVE  SchemaOf(v) \cup UNION {Added(w) : w \in (v + 1)..Latest} = SchemaOf(Latest)
<1>1. 1..Latest = (1..v) \cup ((v + 1)..Latest)
  BY DEF Latest
<1> QED
  BY <1>1, Zenon DEF SchemaOf

\* What a version has, the latest version has.
LEMMA SchemaBound == ASSUME NEW v \in 0..Latest PROVE SchemaOf(v) \subseteq SchemaOf(Latest)
  BY PendingComplete, Zenon

LEMMA BootInit == Init => BootInv
<1> SUFFICES ASSUME Init PROVE BootInv
  OBVIOUS
<1>1. world \in Worlds /\ world.version \in 0..Latest
  BY DeployAssumption DEF Init
<1>2. schema = SchemaOf(version) /\ version = world.version
  BY DEF Init
<1>3. schema \subseteq SchemaOf(Latest)
  BY <1>1, <1>2, SchemaBound
<1>4. 1 \in Release
  BY DeployAssumption DEF Release
<1>5. TypeOK
  <2>1. Off \in [phase : Phases, release : Release, base : 0..Latest, found : SUBSET Slug]
    BY <1>4 DEF Off, Phases, Latest
  <2>2. box \in [Container -> [phase : Phases, release : Release, base : 0..Latest, found : SUBSET Slug]]
    BY <2>1 DEF Init
  <2> QED
    BY <1>1, <1>2, <1>3, <2>2 DEF Init, TypeOK
<1>6. \A c \in Container : box[c].phase = "off"
  BY DEF Init, Off
<1> QED
  BY <1>2, <1>5, <1>6 DEF Init, BootInv, At, Past

\* Each action, with what the invariant needs of it.  Only Upgrade and Stamp
\* touch the version row; the others keep all but their container's phase.
LEMMA BootStep ==
    ASSUME BootInv, [Next]_vars
    PROVE  BootInv'
<1> USE DEF At, Goto, Happens
<1>1. /\ TypeOK /\ version \in {world.version, Latest}
      /\ misled => version = Latest /\ "failure" \in world.events /\ world.version \in Older
      /\ ~misled => schema = SchemaOf(version)
      /\ world \in Worlds /\ world.version \in 0..Latest /\ version \in 0..Latest
      /\ misled \in BOOLEAN
      /\ box \in [Container -> [phase : Phases, release : Release, base : 0..Latest, found : SUBSET Slug]]
      /\ \A c \in Container :
            /\ box[c].phase = "upgrade" => box[c].base \in {world.version, version}
            /\ box[c].phase = "probe" => version = Latest \/ "failure" \in world.events
            /\ box[c].phase = "stamp" =>
                  version = Latest \/ ("failure" \in world.events /\ version \in Older)
            /\ box[c].phase \in Past => version = Latest
  BY DeployAssumption DEF BootInv, TypeOK
<1>2. ASSUME NEW c \in Container, NEW r \in Release, Boot(c, r) PROVE BootInv'
  <2>1. TypeOK'
    BY <1>1, <1>2 DEF Boot, TypeOK, Off, Phases
  <2> QED
    BY <1>1, <1>2, <2>1 DEF Boot, BootInv, Off, Past
<1>3. ASSUME NEW c \in Container, Upgrade(c) PROVE BootInv'
  <2>1. CASE version = box[c].base /\ version' = Latest /\ Goto(c, "seed")
                /\ schema' = schema \cup UNION {Added(v) : v \in (version + 1)..Latest}
    <3>1. ~misled => schema' = SchemaOf(Latest)
      BY <1>1, <2>1, PendingComplete
    <3>2. misled => schema' = schema
      <4>1. Latest + 1 .. Latest = {}
        BY DEF Latest
      <4> QED
        BY <1>1, <2>1, <4>1
    <3>3. TypeOK'
      BY <1>1, <1>3, <2>1, <3>1, <3>2 DEF Upgrade, TypeOK, Phases, Latest
    <3> QED
      BY <1>1, <1>3, <2>1, <3>1, <3>3 DEF Upgrade, BootInv, Past
  <2>2. CASE (version # box[c].base \/ "failure" \in world.events)
                /\ Goto(c, "probe") /\ UNCHANGED <<schema, version>>
    <3>1. version = Latest \/ "failure" \in world.events
      BY <1>1, <1>3, <2>2 DEF Upgrade
    <3>2. TypeOK'
      BY <1>1, <1>3, <2>2 DEF Upgrade, TypeOK, Phases
    <3> QED
      BY <1>1, <1>3, <2>2, <3>1, <3>2 DEF Upgrade, BootInv, Past
  <2> QED
    BY <1>3, <2>1, <2>2 DEF Upgrade
<1>4. ASSUME NEW c \in Container, Probe(c) PROVE BootInv'
  <2>1. box'[c].phase = "stamp" => version = Latest \/ ("failure" \in world.events /\ version \in Older)
    <3>1. SUFFICES ASSUME box'[c].phase = "stamp", version # Latest
                   PROVE  "failure" \in world.events /\ version \in Older
      BY <1>1
    <3>2. "users" \in schema /\ ~misled
      BY <1>1, <1>4, <3>1 DEF Probe
    <3>3. version # 0
      BY <1>1, <3>2, EmptyAtZero
    <3> QED
      BY <1>1, <1>4, <3>1, <3>3 DEF Probe, Older, Latest
  <2>2. TypeOK'
    BY <1>1, <1>4 DEF Probe, TypeOK, Phases
  <2> QED
    BY <1>1, <1>4, <2>1, <2>2 DEF Probe, BootInv, Past
<1>5. ASSUME NEW c \in Container, Stamp(c) PROVE BootInv'
  <2>1. CASE version' = Latest /\ misled' = (misled \/ version \in Older) /\ Goto(c, "again")
    <3>1. version \in Older => "failure" \in world.events /\ world.version = version
      BY <1>1, <1>5 DEF Stamp, Older, Latest
    <3>2. version \notin Older => version = Latest
      BY <1>1, <1>5 DEF Stamp
    <3>3. TypeOK'
      BY <1>1, <1>5, <2>1 DEF Stamp, TypeOK, Phases, Latest
    <3> QED
      BY <1>1, <1>5, <2>1, <3>1, <3>2, <3>3 DEF Stamp, BootInv, Past
  <2>2. CASE Goto(c, "dead") /\ UNCHANGED <<version, misled>>
    <3>1. TypeOK'
      BY <1>1, <1>5, <2>2 DEF Stamp, TypeOK, Phases
    <3> QED
      BY <1>1, <1>5, <2>2, <3>1 DEF Stamp, BootInv, Past
  <2> QED
    BY <1>5, <2>1, <2>2 DEF Stamp
<1>6. ASSUME NEW c \in Container, UpgradeAgain(c) PROVE BootInv'
  <2>1. TypeOK'
    BY <1>1, <1>6 DEF UpgradeAgain, TypeOK, Phases
  <2> QED
    BY <1>1, <1>6, <2>1 DEF UpgradeAgain, BootInv, Past
<1>7. ASSUME NEW c \in Container, SeedReads(c) PROVE BootInv'
  <2>1. TypeOK'
    BY <1>1, <1>7 DEF SeedReads, TypeOK, Phases
  <2> QED
    BY <1>1, <1>7, <2>1 DEF SeedReads, BootInv, Past
<1>8. ASSUME NEW c \in Container, SeedCommits(c) PROVE BootInv'
  <2>1. Jobs[box[c].release] \subseteq Slug
    BY <1>1 DEF Slug
  <2>2. TypeOK'
    BY <1>1, <1>8, <2>1 DEF SeedCommits, TypeOK, Phases
  <2> QED
    BY <1>1, <1>8, <2>2 DEF SeedCommits, BootInv, Past
<1>9. ASSUME NEW c \in Container, Stop(c) PROVE BootInv'
  <2>1. TypeOK'
    BY <1>1, <1>9, DeployAssumption DEF Stop, TypeOK, Off, Phases, Latest
  <2> QED
    BY <1>1, <1>9, <2>1 DEF Stop, BootInv, Off, Past
<1>10. CASE UNCHANGED <<world, schema, version, jobs, box, misled>>
  BY <1>10 DEF BootInv, TypeOK
<1> QED
  BY <1>2, <1>3, <1>4, <1>5, <1>6, <1>7, <1>8, <1>9, <1>10
  DEF Next, Open, Turn, Close, vars

\* Races and deaths never mislead the stuck-state repair of entrypoint.sh: in
\* every state the version row is where the run began or at the latest, and it
\* claims more than the schema has only after an upgrade of an older schema
\* failed.
THEOREM BootIsSafe == Spec => []BootInv
<1> QED
  BY BootInit, BootStep, PTL DEF Spec

\* A container that serves has the complete schema, but for that one stamp.
THEOREM CompleteSchemaServed == Spec => []ServesCompleteSchema
<1>1. BootInv => ServesCompleteSchema
  BY DEF BootInv, ServesCompleteSchema, At, Past
<1> QED
  BY <1>1, BootIsSafe, PTL
-----------------------------------------------------------------------------
(***************************************************************************)
(* GET /api/v1/jobs, page by page, while releases are seeded               *)
(***************************************************************************)

\* Why no job is skipped: a catalog only grows, so a job never moves to an earlier page,
\* and the reader has what is before the end of its page.
ReadInv ==
    /\ IsFiniteSet(jobs) /\ jobs \subseteq Slug
    /\ reader \in [page : Nat, start : SUBSET Slug, seen : SUBSET Slug]
    /\ reader.page # 0 =>
          \A j \in reader.start : j \in jobs /\ (Rank(j) < reader.page * Limit => j \in reader.seen)

\* A page ends where the next begins, and the last one not before the rows do.
LEMMA LastPage ==
    ASSUME NEW count \in Nat, NEW size \in Nat \ {0}, NEW n \in Nat, n >= (count + size - 1) \div size
    PROVE  count <= n * size
<1> DEFINE a == count + size - 1
           q == a \div size
<1>1. a \in Nat /\ count = a - size + 1
  OBVIOUS
<1> HIDE DEF a
<1>2. q \in Nat /\ a < q * size + size
  BY <1>1
<1>3. q * size \in Nat /\ n * size \in Nat /\ q * size <= n * size
  <2>1. n >= q
    BY <1>1 DEF a
  <2> HIDE DEF q
  <2> QED
    BY <1>2, <2>1
<1> HIDE DEF q
<1> QED
  BY <1>1, <1>2, <1>3

\* As rows are added a job comes no earlier, and always before their number.
LEMMA RankBound ==
    ASSUME IsFiniteSet(jobs), jobs \subseteq Nat, NEW j \in jobs
    PROVE  Rank(j) \in Nat /\ Rank(j) < Cardinality(jobs)
<1> DEFINE before == {k \in jobs : k < j}
<1>1. before \subseteq jobs /\ j \notin before
  OBVIOUS
<1>2. before # jobs
  BY <1>1
<1>3. Rank(j) = Cardinality(before)
  BY DEF Rank
<1> HIDE DEF before
<1>4. /\ IsFiniteSet(before) /\ Cardinality(before) <= Cardinality(jobs)
      /\ Cardinality(before) # Cardinality(jobs)
  BY <1>1, <1>2, FS_Subset
<1>5. Cardinality(before) \in Nat /\ Cardinality(jobs) \in Nat
  BY <1>4, FS_CardinalityType
<1> QED
  BY <1>3, <1>4, <1>5

LEMMA RankGrows ==
    ASSUME IsFiniteSet(jobs'), jobs \subseteq jobs', NEW j
    PROVE  Rank(j) <= Rank(j)' /\ Rank(j) \in Nat /\ Rank(j)' \in Nat
<1> DEFINE before == {k \in jobs : k < j}
           after == {k \in jobs' : k < j}
<1>1. before \subseteq after /\ after \subseteq jobs'
  OBVIOUS
<1>2. Rank(j) = Cardinality(before) /\ Rank(j)' = Cardinality(after)
  BY DEF Rank
<1> HIDE DEF before, after
<1>3. IsFiniteSet(after) /\ IsFiniteSet(before) /\ Cardinality(before) <= Cardinality(after)
  BY <1>1, FS_Subset
<1> QED
  BY <1>2, <1>3, FS_CardinalityType

\* Only a seed that commits changes the rows, and it only adds some.
LEMMA RowsGrow ==
    ASSUME TypeOK, [Next]_vars, IsFiniteSet(jobs), jobs \subseteq Slug
    PROVE  jobs \subseteq jobs' /\ IsFiniteSet(jobs') /\ jobs' \subseteq Slug
<1>1. CASE UNCHANGED jobs
  BY <1>1
<1>2. ASSUME NEW c \in Container, SeedCommits(c), ~UNCHANGED jobs
      PROVE  jobs \subseteq jobs' /\ IsFiniteSet(jobs') /\ jobs' \subseteq Slug
  <2> DEFINE shipped == Jobs[box[c].release]
  <2>1. box[c].release \in Release
    BY DEF TypeOK
  <2>2. IsFiniteSet(shipped) /\ shipped \subseteq Slug
    BY <2>1, DeployAssumption DEF Slug
  <2>3. jobs' = jobs \cup (shipped \ box[c].found)
    BY <1>2 DEF SeedCommits
  <2> HIDE DEF shipped
  <2>4. IsFiniteSet(shipped \ box[c].found)
    BY <2>2, FS_Subset
  <2> QED
    BY <2>2, <2>3, <2>4, FS_Union
<1> QED
  BY <1>1, <1>2 DEF Next, Boot, Upgrade, Probe, Stamp, UpgradeAgain, SeedReads, Stop,
                    Open, Turn, Close, vars

LEMMA ReadInit == Init => ReadInv
<1>1. IsFiniteSet({})
  BY FS_EmptySet
<1> QED
  BY <1>1 DEF Init, ReadInv, NoReader

LEMMA ReadStep ==
    ASSUME TypeOK, ReadInv, [Next]_vars
    PROVE  ReadInv'
<1>1. /\ IsFiniteSet(jobs) /\ jobs \subseteq Slug
      /\ reader \in [page : Nat, start : SUBSET Slug, seen : SUBSET Slug]
  BY DEF ReadInv
<1>2. jobs \subseteq jobs' /\ IsFiniteSet(jobs') /\ jobs' \subseteq Slug
  BY <1>1, RowsGrow
<1>3. Limit \in Nat
  BY DeployAssumption
<1>4. CASE UNCHANGED reader
  <2>1. ASSUME reader.page # 0, NEW j \in reader.start, Rank(j)' < reader.page * Limit
        PROVE  Rank(j) < reader.page * Limit
    <3>1. reader.page * Limit \in Nat
      BY <1>1, <1>3
    <3> QED
      BY <1>2, <2>1, <3>1, RankGrows
  <2> QED
    BY <1>1, <1>2, <1>4, <2>1 DEF ReadInv
<1>5. CASE Open
  <2>1. jobs' = jobs /\ reader' = [page |-> 1, start |-> jobs, seen |-> Page(1)]
    BY <1>5 DEF Open
  <2>2. \A j \in jobs : Rank(j)' = Rank(j) /\ Rank(j) \in Nat
    BY <1>2, <2>1, RankGrows DEF Rank
  <2>3. (1 - 1) * Limit = 0 /\ 1 * Limit = Limit
    BY <1>3
  <2>4. ASSUME NEW j \in jobs, Rank(j) < 1 * Limit PROVE j \in Page(1)
    BY <1>3, <2>2, <2>3, <2>4 DEF Page
  <2>5. Page(1) \subseteq jobs
    BY DEF Page
  <2> QED
    BY <1>1, <1>2, <2>1, <2>2, <2>4, <2>5 DEF ReadInv
<1>6. CASE Turn
  <2> DEFINE p == reader.page
  <2>1. /\ jobs' = jobs /\ p # 0 /\ p \in Nat
        /\ reader' = [reader EXCEPT !.page = @ + 1, !.seen = @ \cup Page(reader.page + 1)]
    BY <1>1, <1>6 DEF Turn
  <2>2. reader'.page = p + 1 /\ reader'.start = reader.start /\ reader'.seen = reader.seen \cup Page(p + 1)
    BY <1>1, <2>1
  <2>3. Page(p + 1) \subseteq jobs
    BY DEF Page
  <2>4. reader' \in [page : Nat, start : SUBSET Slug, seen : SUBSET Slug]
    <3>1. reader' = [page |-> p + 1, start |-> reader.start, seen |-> reader.seen \cup Page(p + 1)]
      BY <1>1, <2>1
    <3>2. reader.seen \cup Page(p + 1) \subseteq Slug /\ reader.start \subseteq Slug
      BY <1>1, <2>3
    <3> QED
      BY <2>1, <3>1, <3>2
  <2>5. ASSUME NEW j \in reader.start
        PROVE  j \in jobs' /\ (Rank(j)' < (p + 1) * Limit => j \in reader'.seen)
    <3>1. j \in jobs /\ (Rank(j) < p * Limit => j \in reader.seen)
      BY <2>1 DEF ReadInv
    <3>2. Rank(j)' = Rank(j) /\ Rank(j) \in Nat
      BY <1>2, <2>1, RankGrows DEF Rank
    <3>3. ((p + 1) - 1) * Limit = p * Limit /\ p * Limit \in Nat
      <4>1. (p + 1) - 1 = p
        BY <2>1
      <4> HIDE DEF p
      <4> QED
        BY <1>3, <2>1, <4>1
    <3> SUFFICES ASSUME Rank(j)' < (p + 1) * Limit PROVE j \in reader'.seen
      BY <2>1, <3>1
    <3>4. CASE Rank(j) < p * Limit
      BY <2>1, <2>2, <3>1, <3>4
    <3>5. CASE ~(Rank(j) < p * Limit)
      <4>1. p * Limit <= Rank(j)
        BY <3>2, <3>3, <3>5
      <4>2. j \in Page(p + 1)
        BY <3>1, <3>2, <3>3, <4>1 DEF Page
      <4> QED
        BY <2>1, <2>2, <3>1, <4>2
    <3> QED
      BY <3>4, <3>5
  <2>6. reader'.page = p + 1 /\ reader'.start = reader.start
    BY <2>2
  <2> HIDE DEF p
  <2> QED
    BY <1>2, <2>4, <2>5, <2>6 DEF ReadInv
<1>7. CASE Close
  BY <1>1, <1>2, <1>7 DEF Close, NoReader, ReadInv
<1> QED
  BY <1>4, <1>5, <1>6, <1>7 DEF Next, Boot, Upgrade, Probe, Stamp, UpgradeAgain, SeedReads,
                               SeedCommits, Stop, vars

\* A client that pages through GET /jobs to the end has seen every job that was
\* there when it began, whichever releases are seeded between its pages and
\* however often: rows are added, and a row added early only moves the others
\* to later pages, where the reader meets them again.
THEOREM PagingIsComplete == Spec => []NoJobIsSkipped
<1>1. ReadInv => NoJobIsSkipped
  <2> SUFFICES ASSUME ReadInv, AtEnd, NEW j \in reader.start PROVE j \in reader.seen
    BY DEF NoJobIsSkipped
  <2> DEFINE n == reader.page
  <2>1. n \in Nat /\ n # 0 /\ n >= Pages
    BY DEF ReadInv, AtEnd
  <2>2. j \in jobs /\ (Rank(j) < n * Limit => j \in reader.seen)
    BY <2>1 DEF ReadInv
  <2>3. IsFiniteSet(jobs) /\ jobs \subseteq Nat
    <3>1. Slug \subseteq Nat
      BY DeployAssumption DEF Slug
    <3> QED
      BY <3>1 DEF ReadInv
  <2>4. Rank(j) \in Nat /\ Rank(j) < Cardinality(jobs) /\ Cardinality(jobs) \in Nat
    BY <2>2, <2>3, RankBound, FS_CardinalityType
  <2>5. Cardinality(jobs) <= n * Limit /\ n * Limit \in Nat
    <3> HIDE DEF n
    <3>1. n * Limit \in Nat
      BY <2>1, DeployAssumption
    <3> QED
      BY <2>1, <2>4, <3>1, LastPage, DeployAssumption DEF Pages
  <2>6. Rank(j) < n * Limit
    BY <2>4, <2>5
  <2> QED
    BY <2>2, <2>6
<1>2. BootInv => TypeOK
  BY DEF BootInv
<1> QED
  BY <1>1, <1>2, ReadInit, ReadStep, BootIsSafe, PTL DEF Spec
=============================================================================
