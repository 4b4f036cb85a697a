------------------------------- MODULE Deploy -------------------------------
(***************************************************************************)
(* A container of the API boots over a PostgreSQL database that others may *)
(* be booting over or serving from: entrypoint.sh, the three migrations,   *)
(* scripts/seed_db.py, and a client that pages through the job catalog     *)
(* while a release is rolled out.                                          *)
(*                                                                         *)
(* Alembic runs all pending migrations in one transaction here, because    *)
(* PostgreSQL's DDL is transactional: they are applied when it commits, or *)
(* not at all.                                                             *)
(***************************************************************************)
EXTENDS Naturals, FiniteSets

CONSTANTS
    Container,
    Jobs,           \* Jobs[r]: the slugs of the catalog that release r ships
    Limit,          \* the page size the reader asks for
    Worlds          \* what a run starts from: [version |-> 0..3, events |-> SUBSET Events]

Events  == {"failure",      \* a connection, a lock timeout or a statement fails
            "crash"}        \* a container dies at any moment
Release == DOMAIN Jobs
Latest    == 3
Slug    == UNION {Jobs[r] : r \in Release}

ASSUME DeployAssumption ==
    /\ 1 \in Release       \* what Off holds before the first boot
    /\ \A r \in Release : Jobs[r] \subseteq Nat /\ IsFiniteSet(Jobs[r])
    /\ Limit \in Nat \ {0}
    /\ Worlds \subseteq [version : 0..Latest, events : SUBSET Events]

\* What each migration brings.
Added(v) ==
    CASE v = 1 -> {"users", "jobs", "profiles", "analyses", "roadmaps"}
      [] v = 2 -> {"owner_not_null"}
      [] v = 3 -> {"refresh_tokens"}

SchemaOf(v) == UNION {Added(w) : w \in 1..v}

VARIABLES
    world,      \* the member of Worlds this behaviour started from
    schema, version,    \* the tables and constraints; alembic_version's row, or 0
    jobs,       \* the slugs in the jobs table
    box,        \* the containers: the line of entrypoint.sh they are at, and what
                \* their transaction has read
    reader,     \* a client that pages through GET /jobs
    misled      \* history: head was stamped over an older schema

vars == <<world, schema, version, jobs, box, reader, misled>>

Phases == {"off", "upgrade", "probe", "stamp", "again", "seed", "seeding", "serving", "dead"}

Off == [phase |-> "off", release |-> 1, base |-> 0, found |-> {}]

NoReader == [page |-> 0, start |-> {}, seen |-> {}]

Init ==
    /\ world \in Worlds
    /\ version = world.version
    /\ schema = SchemaOf(world.version)
    /\ jobs = {}
    /\ box = [c \in Container |-> Off]
    /\ reader = NoReader
    /\ misled = FALSE

At(c, phase) == box[c].phase = phase

Goto(c, phase) == box' = [box EXCEPT ![c].phase = phase]

Happens(e) == e \in world.events

-----------------------------------------------------------------------------
(***************************************************************************)
(* entrypoint.sh                                                           *)
(***************************************************************************)

\* A container starts, and alembic upgrade head reads the version row.
Boot(c, r) ==
    /\ At(c, "off")
    /\ box' = [box EXCEPT ![c] = [Off EXCEPT !.phase = "upgrade", !.release = r, !.base = version]]
    /\ UNCHANGED <<world, schema, version, jobs, reader, misled>>

\* Mutant of Upgrade: each migration is a transaction of its own.
UpgradeEach(c) ==
    /\ At(c, "upgrade")
    /\ \/ /\ version = box[c].base
          /\ version' = IF version = Latest THEN Latest ELSE version + 1
          /\ schema' = schema \cup Added(version')
          /\ box' = [box EXCEPT ![c].base = version',
                                ![c].phase = IF version' = Latest THEN "seed" ELSE "upgrade"]
       \/ /\ version # box[c].base \/ Happens("failure")
          /\ Goto(c, "probe")
          /\ UNCHANGED <<schema, version>>
    /\ UNCHANGED <<world, jobs, reader, misled>>

\* All migrations from the version read commit together.  If another container
\* has committed since, a CREATE TABLE or the UPDATE of the version row fails.
Upgrade(c) ==
    /\ At(c, "upgrade")
    /\ \/ /\ version = box[c].base
          /\ schema' = schema \cup UNION {Added(v) : v \in (version + 1)..Latest}
          /\ version' = Latest
          /\ Goto(c, "seed")
       \/ /\ version # box[c].base \/ Happens("failure")
          /\ Goto(c, "probe")
          /\ UNCHANGED <<schema, version>>
    /\ UNCHANGED <<world, jobs, reader, misled>>

\* Mutant of Probe: every failed upgrade is taken for the known stuck state.
ProbeNothing(c) ==
    /\ At(c, "probe")
    /\ Goto(c, "stamp")
    /\ UNCHANGED <<world, schema, version, jobs, reader, misled>>

\* The stuck-state check looks for one table.  The script ends when it is not
\* there, or cannot be looked for.
Probe(c) ==
    /\ At(c, "probe")
    /\ \/ "users" \in schema /\ Goto(c, "stamp")
       \/ ("users" \notin schema \/ Happens("failure")) /\ Goto(c, "dead")
    /\ UNCHANGED <<world, schema, version, jobs, reader, misled>>

\* The versions at which there is a users table and something is missing.
Older == 1..(Latest - 1)

\* alembic stamp head, and the second upgrade, under set -e.
Stamp(c) ==
    /\ At(c, "stamp")
    /\ \/ /\ version' = Latest
          /\ misled' = (misled \/ version \in Older)
          /\ Goto(c, "again")
       \/ Happens("failure") /\ Goto(c, "dead") /\ UNCHANGED <<version, misled>>
    /\ UNCHANGED <<world, schema, jobs, reader>>

UpgradeAgain(c) ==
    /\ At(c, "again")
    /\ \/ version = Latest /\ Goto(c, "seed")
       \/ Happens("failure") /\ Goto(c, "dead")
    /\ UNCHANGED <<world, schema, version, jobs, reader, misled>>

\* seed_db looks every slug of its release up, and adds the missing ones.
SeedReads(c) ==
    /\ At(c, "seed")
    /\ box' = [box EXCEPT ![c].phase = "seeding", ![c].found = jobs \cap Jobs[box[c].release]]
    /\ UNCHANGED <<world, schema, version, jobs, reader, misled>>

\* Mutant of SeedCommits: jobs the release no longer ships are deleted.
SeedCommitsOnly(c) ==
    /\ At(c, "seeding")
    /\ jobs' = Jobs[box[c].release]
    /\ Goto(c, "serving")
    /\ UNCHANGED <<world, schema, version, reader, misled>>

\* One transaction: it fails as a whole when another container has added one
\* of the rows since, and the container serves all the same.
SeedCommits(c) ==
    LET missing == Jobs[box[c].release] \ box[c].found
    IN  /\ At(c, "seeding")
        /\ \/ /\ "jobs" \in schema /\ missing \cap jobs = {}
              /\ jobs' = jobs \cup missing
           \/ /\ "jobs" \notin schema \/ missing \cap jobs # {} \/ Happens("failure")
              /\ UNCHANGED jobs
        /\ Goto(c, "serving")
        /\ UNCHANGED <<world, schema, version, reader, misled>>

\* A container is stopped or dies; a transaction it had open is rolled back.
Stop(c) ==
    /\ At(c, "serving") \/ At(c, "dead") \/ (Happens("crash") /\ ~At(c, "off"))
    /\ box' = [box EXCEPT ![c] = Off]
    /\ UNCHANGED <<world, schema, version, jobs, reader, misled>>

-----------------------------------------------------------------------------
(***************************************************************************)
(* GET /api/v1/jobs, page by page                                          *)
(***************************************************************************)

\* SqlJobRepository.list: the rows are in the order of their slugs, and this
\* many come before j.
Rank(j) == Cardinality({k \in jobs : k < j})

Page(n) == {j \in jobs : (n - 1) * Limit <= Rank(j) /\ Rank(j) < n * Limit}

\* page_count.
Pages == (Cardinality(jobs) + Limit - 1) \div Limit

Served == \E c \in Container : At(c, "serving") /\ "jobs" \in schema

Open ==
    /\ Served /\ reader.page = 0
    /\ reader' = [page |-> 1, start |-> jobs, seen |-> Page(1)]
    /\ UNCHANGED <<world, schema, version, jobs, box, misled>>

Turn ==
    /\ Served /\ reader.page \in 1..(Pages - 1)
    /\ reader' = [reader EXCEPT !.page = @ + 1, !.seen = @ \cup Page(reader.page + 1)]
    /\ UNCHANGED <<world, schema, version, jobs, box, misled>>

\* The reader has the last page of the catalog as it is now, and starts over.
AtEnd == reader.page # 0 /\ reader.page >= Pages

Close ==
    /\ AtEnd
    /\ reader' = NoReader
    /\ UNCHANGED <<world, schema, version, jobs, box, misled>>

-----------------------------------------------------------------------------

Next ==
    \/ \E c \in Container :
          \/ \E r \in Release : Boot(c, r)
          \/ Upgrade(c) \/ Probe(c) \/ Stamp(c) \/ UpgradeAgain(c)
          \/ SeedReads(c) \/ SeedCommits(c) \/ Stop(c)
    \/ Open \/ Turn \/ Close

Spec == Init /\ [][Next]_vars

\* Types of the state; the reader's sets are sets of slugs by construction.
TypeOK ==
    /\ world \in Worlds
    /\ schema \subseteq SchemaOf(Latest) /\ version \in 0..Latest
    /\ jobs \subseteq Slug /\ misled \in BOOLEAN
    /\ box \in [Container -> [phase : Phases, release : Release, base : 0..Latest, found : SUBSET Slug]]

\* A container that serves has every table and constraint the code relies on,
\* whichever containers booted over each other, failed or died before: what
\* entrypoint.sh's stuck-state repair is meant to keep.  The exception is a
\* stamp over an older schema, whose users table entrypoint.sh:49 takes for
\* all of it.
ServesCompleteSchema ==
    \A c \in Container : At(c, "serving") => schema = SchemaOf(Latest) \/ misled

Past == {"again", "seed", "seeding", "serving"}

\* Why it holds, and how far the exception goes.  The version row moves in one
\* step from where the run found it to the latest, so a container that lost a
\* race to upgrade finds it there and stamping changes nothing; races and
\* deaths alone never mislead the repair, nor does an empty database: that
\* takes the failure of an upgrade from an older schema.
BootInv ==
    /\ TypeOK
    /\ version \in {world.version, Latest}
    /\ misled => version = Latest /\ Happens("failure") /\ world.version \in Older
    /\ ~misled => schema = SchemaOf(version)
    /\ \A c \in Container :
          /\ At(c, "upgrade") => box[c].base \in {world.version, version}
          /\ At(c, "probe") => version = Latest \/ Happens("failure")
          /\ At(c, "stamp") => version = Latest \/ (Happens("failure") /\ version \in Older)
          /\ box[c].phase \in Past => version = Latest

\* A client that pages to the end has seen every job that was there when it
\* began, although releases are seeded between its pages.
NoJobIsSkipped == AtEnd => reader.start \subseteq reader.seen
=============================================================================
