# Skill-Bridge Career Navigator: verification project

TLA+ modules for Skill-Bridge (a Flask API over SQLAlchemy or in-memory
repositories, the Streamlit page and HTTP client in front of it, and the
container that boots it), the TLC runs that model-check them, and theorems about
them checked by TLAPS. This file says what the system is made of, which module
models which part, what the runs and the theorems show, and what is left.

## 1. Inventory of the system

| Component | State | Operations | Talks to |
|---|---|---|---|
| Account endpoints and refresh-token rotation (`app/api/v1/auth.py`, `app/auth/tokens.py`, user and refresh-token repositories) | `users`, `refresh_tokens` rows (or two dictionaries) | register, login, refresh, logout, me | the request-scoped session; the API client |
| Request-scoped SQL session (`app/__init__.py`, `app/db/session.py`, `app/utils/errors.py`) | one SQLAlchemy session per request | open before the request, commit, rollback and close in the teardown hook | every repository |
| Profiles, analyses, roadmaps (`app/api/v1/{profiles,analyses,roadmaps}.py` and their repositories) | three tables, or dictionaries with `_owners` sidecars | create, read, list, patch, delete; roadmap resource flags | session, gap analyzer, roadmap generator, skill categorizer |
| API client (`api_client.py`) | access and refresh token, warm flag | warm-up, request, refresh on 401 and one retry, login, logout | the whole API |
| Streamlit UI session (`app.py`) | `session_state`: tokens, user, profile, analysis, roadmap | pages, reruns, expiry handling | API client |
| Container boot, migrations, seed (`entrypoint.sh`, `migrations/`, `scripts/seed_db.py`) | schema, `alembic_version`, `jobs` rows | probe, stamp, upgrade 0001 to 0003, seed | database |
| Job catalog (`job_catalog.py`, job repositories) | job list or `jobs` table | load, slug, page, search | analyses |
| Core algorithms (`app/core/`) | none | gap analysis, roadmap phases, profile updates | handlers |
| Categorizer and resume parser | none | external model call, fallback | analyses, resume endpoint |
| Rate limiter, configuration, logging, CORS, hashing, health | counters of the limiter | - | all |

Where the behaviour is hard:

* **Account endpoints.** A refresh is a sequence of repository calls (read the
  row, revoke it, read the user, mint, insert) in one transaction under READ
  COMMITTED. Another worker runs between any two of them; any statement, the
  commit, or the delivery of the reply may fail. It is correct when a login
  session has at most one live refresh token, a token once spent stays spent, a
  logout that was answered 204 holds, a delivered token has a row, rows never
  lose their user, and two accounts never share an e-mail.
* **Request-scoped session.** The hook commits after the reply has been built.
  All exceptions are turned into replies by an error handler, so the hook sees
  `exception = None` and commits even after an error reply; the failure of a
  commit is logged only. It is correct when what a reply says is what was stored.
* **Profiles, analyses, roadmaps.** Read-modify-write handlers without version
  checks (lost updates of a profile, of a resource flag in the JSON of a
  roadmap), a profile deleted while an analysis is computed, ownership kept
  beside the record on the memory backend and through a JOIN in SQL.
  Correct when nobody reads or changes another user's data, both backends agree,
  and a reply never describes something that was not stored.
* **API client and UI.** Retries over a server that rotates tokens: a lost reply
  leaves the client with a spent token. A failed refresh, whatever its cause,
  clears the tokens. Reruns of the page reuse `session_state`. Correct when a
  request is retried at most once, an expired access token is invisible to the
  user while the session is live, and one user's data never appears in the
  session of the next.
* **Boot.** Migrations that stop half-way and a heuristic that stamps a schema
  it finds. Correct when every boot ends with the schema at head or stops.
* **Job catalog, algorithms.** Pure: slugs unique, pages a partition, SQL and
  memory filters equal, gap plus strengths equal to the job's skills.

`PROJECT.json` lists each hazard at its line, with the properties that cover it
or the reason why none does yet.

## 2. Plan

Modules, most important first; all of these are written.

1. `OneShotTokens`: the abstract promise of the refresh-token endpoints.
2. `TokenRotation`: the account endpoints call by call, on both backends,
   composed with the request-scoped session; `MCTokenRotation`; the proofs in
   `OneShotTokensProofs` and `TokenRotationProofs` (any number of workers, then one).
3. `ResourceData`, `OwnedStore`, `Resources`, `MCResources`: profiles, analyses
   and roadmaps with their owners, the cascade of a deleted profile, lost
   updates, and the abstract store that says what an owner sees; the proofs in
   `ResourcesProofs` (any number of workers) and `StoreProofs` (one worker).
4. `ApiClient`: the HTTP client over an API that uses `OneShotTokens` and
   handles each request in one step, which 2 and 3 show of one worker.
5. `OnlinePage`, `MCOnlinePage`: the script of the page over `ApiClient`; the
   proofs in `OnlinePageProofs` (types, bounded calls, the rows) and
   `OnlineSessionProofs` (the session of the page).
6. `Deploy`, `MCDeploy`: boot, migrations, repair, seed, and a reader of the
   catalog; the proofs in `DeployProofs`.
7. `CoreAlgorithms`, `OfflinePage`, `MCOfflinePage`: the pure functions of
   `app/core` and the offline page that calls them; the proofs in `OfflinePageProofs`.

Left to do, in the order of what it would add:

* the counters of the rate limiter, if a property is found that its 429, which
  the client takes for no answer, does not already have.

## 3. Modules

### OneShotTokens

Two functions: `status[t]` (unknown, live, spent) and `session[t]`, the first
token of the login `t` descends from. `Grant` is a register or a login,
`Rotate` a refresh in one step, `Spend` a logout or the deletion of an account.
It promises `AtMostOneLive` and `OverIsOver`: a session that has no live token
is never revived.

### TokenRotation

| In the module | In the code |
|---|---|
| `userRow`, `byEmail` | the `users` table and the UNIQUE index of `users.email`; `_by_id` and `_by_email` on memory |
| `tok[j]`, `owner[j]`, `expired` | a row of `refresh_tokens` (none, `revoked_at` null, `revoked_at` set, cascaded away), its `user_id` and the `sub` of the JWT, its `exp` |
| `tx[w]` | what the request's session has flushed and not committed |
| `pc[w]`, `req[w]` | the next call of the handler worker `w` runs, and its local variables |
| `family`, `handed`, `loggedOut` | history: the login a token descends from, the tokens that reached a client, the tokens of the logouts answered 204 |

One action per repository call, because that is where another worker can run.
`StartX` is the part of a handler before its first call (body validation and
`decode_token` included); `ExistsByEmail`, `CreateUser`, `GetByEmail`,
`GetByJti`, `RevokeSelect`, `RevokeUpdate`, `RevokeMemory`, `GetOwner` and
`IssueTokens` are the calls; `Teardown` is the hook `_db_session_end`, the
closing of the session and the delivery of the reply. The SQL `revoke` has two
steps, its SELECT and the UPDATE of its flush.

On SQL a call reads committed rows only (its own transaction never reads what
it wrote before, in these handlers, except the user of a registration through
the foreign key). A statement that writes a row, or a unique key, another open
transaction has written is not enabled until that transaction ends: PostgreSQL
blocks it. The UPDATE of `revoke` names the row by primary key only, as the
ORM emits it, so it succeeds whatever `revoked_at` has become while it waited.
A flush that raises (IntegrityError, StaleDataError, a lost connection) makes
SQLAlchemy roll the whole transaction back at once; the catch-all error handler
answers 500 and the later commit commits nothing (`Fail`).

`Environment` selects what happens around the handlers: a token's `exp` passes,
an operator deletes an account in the database (there is no endpoint for it;
`refresh_tokens` cascades and `refresh_handler` names that case), a statement
fails, the commit fails, the reply is lost, the worker dies.

A password check succeeds or not without a reason. A token that does not decode
is answered without a change of state and is not modelled; a token can be
presented only after a reply delivered it, because it is signed by the server.
A request that fails validation, or is refused by the rate limiter, changes
nothing and is the same as a request that never came.

`MCTokenRotation` adds the symmetry sets. The SQL backend of this module is
PostgreSQL, the deployed one: `TokensHaveUsers` rests on its foreign key, which
SQLite does not enforce.

### ResourceData and OwnedStore

`ResourceData` has the rows and what the core functions compute from them:
`Patched` (`update_profile` and the overrides of the PATCH handler), `ValidSkills`
(the 1 to 30 skills), `Missing` (`analyze_gap`). A skill stands for its normal form
(stripped, lower case), a profile's other columns for one column `name`, a
learning resource for the missing skill it was generated for.

`OwnedStore` is the promise: each request is one atomic step on rows its user
owns, a PATCH applies to the row as it is, an analysis says what the profile lacks
as it is, a flag is set in the row as it is.

### Resources

| In the module | In the code |
|---|---|
| `profile`, `analysis`, `roadmap` | the rows of the three tables, or the `_records` dictionaries |
| `owner` | `user_id` of a profile or an analysis; on memory the `_owners` dictionaries (roadmaps included, which have no column in SQL: `RoadmapVisible` is the JOIN) |
| `pc[w]`, `req[w]` | the next repository call of the handler worker `w` runs, and its local variables |
| `dirty[w]` | whether the request's session has flushed a write it has not committed |
| `author` | history: whose request drew an id |

One action per repository call again, with the same reading of a session: a
statement sees committed rows, a write waits until the transactions that wrote
the row have ended, and `Teardown` commits and closes whatever the reply.
`backend` is `memory`, `sqlite` or `postgres`, chosen once as in `pick_backend`; they differ in
what the code and the database make of the same handler:

* The SQL `update_for_user` selects the row again (the object of the first
  read is gone from the identity map), assigns every column and flushes: SQLAlchemy
  writes the columns that differ from what that second SELECT loaded (`Merged`),
  so a lost update happens column by column. The UPDATE of a row that is gone
  raises StaleDataError (`UpdateProfileFails`); the DELETE of one is a warning.
* The memory `update` replaces the whole record. Creation stores the record and
  then its owner, deletion drops the owner and then the record, each under an
  acquisition of the lock of its own (`Own`, `DisownProfile`).
* The SQL `update_resource` writes the whole `phases` column (`flag_modified`); the
  memory one sets the flag under its lock.
* PostgreSQL enforces the foreign keys: the INSERT of an analysis fails when its
  profile is gone, and a deleted profile is unlinked from its analyses. SQLite
  does neither, since nothing switches its foreign keys on, and locks the file.

A categorization whose groups are not lists of skills (`readable`) raises after the
INSERT: when the reply is built, and on SQL possibly already when the row is
mapped back. `GetForAnalysis` chooses it, `Serialized` and `GetAnalysis` meet it.

Accounts exist throughout: no endpoint deletes one. Bodies that do not validate,
and requests that fail `require_auth`, change nothing and are not modelled. Any
id that was ever drawn may be named by any user, guessed ones included.

### ApiClient

| In the module | In the code |
|---|---|
| `status`, `session`, `holder` | the refresh tokens of the API as `OneShotTokens` has them, and whose they are; the access token minted with a refresh token is the same member of `Token` (a pair) |
| `account`, `profile` | the accounts and the profile rows the API stores; `Stored` is the cascade of a deleted account |
| `client` | `_access`, `_refresh` and `_warm` of the `ApiClient` object |
| `call` | the method the page is blocked in: what `_request` has sent, to what answer |
| `late` | requests the client has given up, still on their way |
| `stale`, `ended`, `lost` | access tokens past their `exp`; history: refresh tokens the clock or an operator ended; how often no answer came |

A call goes through `Start` (an authed call without a token is refused before it
is sent; the first call of a client warms the API up), `Warmup`,
`HandleAwaited` (the API does the request, in one step), `Receive`
(`Reauthorize`, `Retry`, `GoneForGood` and `Deliver`: the branches of `_request`), or
`GiveUp`. A time-out, a dropped connection, a 429 and a 5xx are one event, "no_reply":
`_request` makes an error of each. A request that was given up may be lost, may have been
done, or may reach the API later; only operations that store something are kept in
`late`, since the others leave no trace there. `MaxLost` bounds the missing answers.

The profile of an account is the one resource with content. An analysis or a
roadmap is kept as the row it was made of: nothing in the client depends on
more. An access token that a refresh has just brought does not expire before the
retry it was fetched for (`AccessExpires`): 15 minutes against a time-out in seconds.

`DeleteUser` is an operator who removes an account with all its rows, in one step.
No endpoint does this, and the database only does part of it: SQLite runs without foreign keys,
and on PostgreSQL the key of the profiles does not cascade (finding 7), so the operator
deletes the profiles first.

### OnlinePage

| In the module | In the code |
|---|---|
| `page` | `st.session_state`: the two tokens, `current_user`, `profile`, `gap_result`, `roadmap` |
| `script` | the section of the script that is running, the widget that was clicked, the form it reads |
| `doubt` | history: a save whose fate the page cannot know |

Streamlit runs the script from its top at each click. `Run` is that: it hands the
tokens of `session_state` to the client (`get_or_create_client`) and goes to the first section
that calls the API; the operators `From...` say which one that is. A step of `Resume` takes
the result of a call, changes `session_state`, and goes on to the next call, to `st.rerun`, or
to the end. `EndExpired` is `_render_api_error` with its pops; `Persisted` is `_persist_tokens`,
which every section calls on its error path too. The logout clears the tokens of the page; the
client loses its own at the rerun that follows, because `Run` hands it none.

The script is sequential, and each run ends before the next click. Streamlit does take a click
while the script is blocked in a call: it lets the call return, stops the script at its next
access to `st.session_state`, and starts another run. That is not modelled, and what the properties say of the page is
claimed of a user who waits; the end of section 5 says what a user who does not may see. `Offered` allows a little more than the
page draws. The job of the analyses asks for every skill: what is missing is then the
complement, and the roadmap section appears and disappears.

### Deploy

One action per command of `entrypoint.sh`: `Boot` (`alembic upgrade head` reads
the version), `Upgrade` (it commits, or fails), `Probe`, `Stamp`, `UpgradeAgain`, `SeedReads` and
`SeedCommits` (`seed_db.py`), then the container serves. Several containers do so over one
database, each with a catalog of its own release; any may fail at a command or be stopped at any
time. `Added` is what each of the three migrations brings. All pending migrations are one
transaction, since `migrations/env.py` configures no `transaction_per_migration` and DDL is
transactional on PostgreSQL, the only database a container runs on. `world` is
what a behaviour starts from: the version the database is at, and whether commands may fail.
`reader` is a client that pages through `GET /api/v1/jobs` meanwhile. Slugs are numbers, in
their order, and a page holds the jobs whose rank by slug falls in it (`ORDER BY`, `LIMIT`, `OFFSET`). `misled` records that head was stamped over an older schema, the
exception `ServesCompleteSchema` has to make (finding 4).

### CoreAlgorithms and OfflinePage

`CoreAlgorithms` has `analyze_gap`, `generate_roadmap`, `mark_completed`,
`recalculate_match`, `update_profile` and `search_jobs` as operators over sequences of skills,
with the order the code keeps (it decides the phase a skill lands in) and with Python's
rounding. A filter of a list is written with `FlattenSeq` of its elements, each kept or not, because a proof can
expand that. `CoreAssumption` and `OfflineAssumption` say what the shipped `data/` files are: a list of resources,
jobs whose required and preferred skills are apart. `OfflinePage` is the offline script: one action per button, each ending with what the third
section of the script does at the rerun (`Render`). `reanalysed` and `recreated` are history:
a second analysis keeps the roadmap of the first (`app.py:233`), and the profile form keeps the analysis,
so the properties except these two. The grouping of skills, the match shown before an
update and the skills read from a resume are left out: nothing reads them back.

## 4. Runs

| Run | Instance | Shows |
|---|---|---|
| `single` | SQL and memory, 1 worker, every fault (on SQL) | the deployment of `entrypoint.sh` (`gunicorn --workers 1`): the inductive invariant `RotationInv`, one live token per session, no session comes back, and `PromiseSpec`: the endpoints implement `OneShotTokens` |
| `workers` | SQL and memory, 2 workers (or threads); expiry, deleted accounts, failing statements | what the database alone still guarantees: `WritesInv` and `RepliesInv` (the inductive invariants), no token without its user, one account for each e-mail, no spent token revived, a logout that holds, a delivered token that has a row |
| `liveness` | SQL, 2 workers, `FairSpec` | every accepted request is answered: no deadlock on row locks, no lock left behind |
| `race_refresh` | SQL, 2 workers | violation: one session with two live tokens |
| `store_single` | each backend, 1 worker, every fault on SQL | types, tenancy, links, PATCHes change what they name, and `StoreSpec`: the handlers implement `OwnedStore` on memory, SQLite and PostgreSQL alike |
| `store_workers` | each backend, 2 workers or threads, 2 users | tenancy of rows, replies and writes; what the row locks guarantee of uncommitted writes (`WritesInv`); analyses never dangle on PostgreSQL; what a success reports is stored on SQL |
| `store_liveness` | PostgreSQL, 2 workers, `FairSpec` | every request is answered |
| `error_commits` | PostgreSQL, 1 worker | violation: a request answered 500 is committed |
| `client` | 1 account, 3 pairs, 1 profile of 2 skills, 1 missing answer; expiring access tokens, a deleted account, late requests | a call is bounded (`CallIsBounded`), the page's token is live (`HeldTokenIsLive`), an expired access token is invisible (`ExpiryIsInvisible`), the page shows what is stored (`PageAgrees`), a save stores what was ticked and unticked (`FormIsSaved`), an answered logout ends the session (`LogoutEndsSession`), and no request given up can spend the page's token (`LateSpendsElsewhere`) |
| `client_ends` | 2 accounts, 2 pairs, 1 missing answer; both tokens expire; `FairSpec` | the page belongs to one account at a time (`SessionInv`), and every run of the script ends (`ScriptEnds`) |
| `deploy` | 2 containers, 2 releases of 3 and 4 jobs, pages of 2; from version 0, 1, 2 and 3, with and without failures, with deaths | why the repair is safe (`BootInv`), no container serves an incomplete schema (`ServesCompleteSchema`), no page of the catalog hides a job (`NoJobIsSkipped`) |
| `offline` | 2 jobs over 5 skills, profiles of up to 2 skills | the roadmap teaches what the analysis found missing, in the right order (`RoadmapTeachesGap`), and the two match numbers agree (`MatchesAgree`) |

Bounds of the account runs. One e-mail is enough because the handlers of two e-mails touch disjoint
rows (a login or a registration reads and writes only its own e-mail, a token
only its own user); the second user id lets an account be deleted and its e-mail
registered again, and lets two registrations race. Three tokens give a session,
its successor and either a second successor (the race) or the first token of a
second session. Two workers give every pairwise race, and the row locks are
pairwise; what the theorems state holds for any number. `RoomForToken` and
`RoomForUser` are the bounds in the guards: a request is accepted only while an
unused id is left for it and for every request under way, so that no handler is
stuck for want of an id. Deadlock is checked in every run: an idle worker
can always accept a login or a request that the model has room for.

For the resources, two users are an owner and a stranger. One profile and one
roadmap are enough because no handler touches two rows of these tables; two
analyses in `store_single` let one describe a profile before and one after a patch,
or be left behind by a deletion. Three skills, two of them required and at most
two in a profile, reach the empty and the full list the validation refuses and
roadmaps with sibling resources. The patches are one per column and direction.
`SuccessIsStored` is for SQL: a memory thread's write is visible before its reply,
and another thread may have changed it again by then. `store_liveness` has one patch
and one name: locks do not depend on the values. `RoomFor` bounds the creations.

For the page, three pairs are a login, the refresh of its expired access token, and a
second refresh or a second login; when none is left, `Refresh` answers as a busy
API does. One missing answer is enough to leave the page with a spent token or an unknown save,
and with the late request that follows from it; the theorems hold for any number. Two skills tell
a ticked, an unticked and an untouched one apart in a save. `client_ends` swaps the deleted account
for a second one, whose login follows the logout or the expiry of the first.

For `deploy`, two containers race pairwise over each command, and their releases differ in a job
that is dropped and in two that sort before and between the others, which shifts the pages. For
`offline`, the jobs miss up to three required and up to three preferred skills, so both lists are split
over two phases, one skill has no resource and gets the placeholder, and one is in no job.
`MaxSkills` stands for 30: two skills
leave a job with none, some or all of its list missing.

Symmetry is used only in runs without liveness. `IdSymmetry` permutes the ids
(users, tokens, and for the page profiles and skills), `WorkerSymmetry` workers,
`ActorSymmetry` workers and users, `TableSymmetry` users and analyses,
`BoxSymmetry` containers; no definition tells their members apart.

Fairness. In `TokenRotation`, `WF(Step(w))`: gunicorn keeps running a request it has
accepted. `SF(CreateUser(w))`, `SF(RevokeUpdate(w))`: PostgreSQL queues the
waiters of a row or key lock, so a statement whose lock is free infinitely often
gets it. Nothing is assumed of clients or of faults. `RequestsAreAnswered`
has no `crash`, for a dead worker answers nothing. In `Resources` the four
statements that wait for a lock get `SF` for the same reason. In `OnlinePage`,
`WF(ClientStep \/ Resume)`: the script runs on by itself, and a request is handled or its
time-out passes, for every request of the client has one. Nobody has to click, and a late request may never
arrive.

## 5. Findings

`race_refresh` and `error_commits` are runs that TLC must find violated. The other findings, 7 apart, are about what the
named property of a passing run leaves out, and say what to check to see it; each was seen that way.

1. `race_refresh`: both handlers ignore what `revoke` returns, so two concurrent
   refreshes of a token both mint a successor. `auth.py:222-223` promises the
   opposite, and ADR-009 calls several workers safe on the SQL backend. With one
   worker, as deployed, it cannot happen (`OneLiveToken` below).
2. A flag is lost: with two workers, PATCHes of two resources of a roadmap lose
   one of the flags: `phases` is read, changed and written back whole. The memory
   backend avoids exactly this with its lock, and ADR-009:69 calls several workers
   safe. `store_single` and `PatchesNameWhatChanges` show that one worker keeps `PatchesAreLocal`;
   give `store_single` two workers on PostgreSQL, without faults and `patch_profile`, and TLC finds the lost flag.
3. `error_commits`: since every exception is handled before the teardown hook
   runs, the hook commits after an error. The exception here is a categorization
   that parses as JSON but is not what the response schema expects: only what the
   categorizer itself raises falls back, although `analyses.py:16-17` says the API
   never returns 5xx for Groq issues. Every later read of the stored analysis fails.
4. A stamped schema: the stuck-state repair of `entrypoint.sh:49` looks for a `users` table, which the
   schemas at 0001 and 0002 have as well. When the upgrade of such a schema fails for a passing
   reason, head is stamped over it, and the container serves without `refresh_tokens`; no
   later boot adds the table. `ServesCompleteSchema` excepts `misled`, and `BootInv` says it needs just that:
   an older schema and a failure.
5. A refresh without an answer: whatever the refresh failed with, a time-out or a 429 included, `api_client.py:582` clears
   the tokens and the user is told that the session has expired, while the comment there and the docstring of
   `AuthExpiredError` name terminal states only. `ExpiryIsInvisible` excepts `call.silent`. Clearing is the
   safe choice, as `LateSpendsElsewhere` shows: a pair that is kept may be spent by the refresh that was given up.
6. The next user: a logout, and the end of a session, leave the profile, the analysis and the roadmap on the
   page (`app.py:401`). The next account sees them, and each of its saves is a PATCH of a profile that is not its
   own, answered 404. `PageAgrees` therefore does not say whose profile the page shows.
7. `0002_users_not_null_fk.py:235`: on PostgreSQL the migration makes `user_id` NOT NULL but leaves
   the foreign keys at ON DELETE SET NULL, so an account with profiles cannot be deleted, where
   the docstring promises CASCADE. Seen while translating the migration; no run shows it.
8. A patch is lost: with two workers a PATCH of a profile hands all columns to `update_for_user`, computed from
   a row another worker has changed since, and the ORM writes those that differ from its second
   SELECT: a column the PATCH left out is put back (`profiles.py:138`), where `profiles.py:127` says "leave
   unchanged". On the memory backend the lock does not cover the first read either. The
   instance of finding 2 with `create_profile` and `patch_profile` alone shows it.
9. A commit fails: the reply is made before the commit, whose failure the teardown hook only logs
   (`app/__init__.py:146`), so a logout answered 204 may leave its token live. `LogoutIsFinal` and
   `DeliveredLive` assume that no commit fails; `LogoutHolds` with `commit` in `Environment` shows it.
10. A stale save: a save sends the difference to the copy in `session_state`. After a save that was stored but not
   answered this copy is old, and the next save leaves in the row what the lost one added. `FormIsSaved` says what holds
   all the same; its last conjunct without `doubt` shows it.
11. A second analysis: the offline page keeps the roadmap of the first job under the analysis of the
   second, since only `Update & Re-Analyze` (`app.py:280`, `:291`) marks it stale. The same button on the online page drops it, with the reason
   in a comment (`app.py:755-757`). `RoadmapTeachesGap` excepts `reanalysed`.

Also met while modelling:

* A click during a call stops the old run before `_persist_tokens` (`app.py:371`, the access at `:381`). If the call has rotated
  the pair, the page keeps the spent token, and its next refresh ends a live session. This rests on how Streamlit
  stops scripts, which is not in the repository: no run shows it.
* The loser of a registration race is answered 500, where `sql_user_repo.py:36-38`
  expects a 409: `workers` with `req[w].reply # "INTERNAL_ERROR"` and no faults.
* `auth.py:221-222` says the old token is already revoked when the new one cannot be
  stored; both are in one transaction and roll back together.
* `LinksHold` is stated for PostgreSQL only: SQLite runs without foreign keys (nothing
  switches them on), so there, as on memory, the analyses of a deleted profile keep
  its id, while `AnalysisORM` says they lose the link.
* On the offline page the two match numbers differ after a second analysis, or after the profile form
  (`MatchesAgree` without its exceptions).

## 6. Theorems

### The account endpoints and their promise

All are proved for any sets of workers, e-mails, users and tokens, from
`ConstantsAssumption` (the absent values are no values, `Backends` holds backends and
`Environment` events). Database faults are guarded by the backend in the actions, and
`OneShotTokens` assumes nothing.

| Theorem | States | Also assumes |
|---|---|---|
| `TypeCorrect` | `Spec => []TypeOK` | |
| `WritesApart` | `Spec => []WritesInv` | |
| `SpentForever` | `Spec => SpentTokenStaysSpent` | |
| `NoOrphanTokens` | `Spec => []TokensHaveUsers` | SQL |
| `OneAccountPerEmail` | `Spec => []AccountsReachable` | SQL |
| `RepliesInvariance` | `Spec => []RepliesInv` | |
| `DeliveredLive` | `Spec => DeliveredTokenIsLive` | no failing commit |
| `LogoutIsFinal` | `Spec => []LogoutHolds` | no failing commit |
| `RotationsAlone` | `Spec => []RotationInv` | one worker |
| `OneLiveToken` | `Spec => []OneLivePerSession` | one worker |
| `EndedForever` | `Spec => EndedSessionStaysEnded` | one worker, SQL |
| `EndpointsImplementPromise` | `Spec => PromiseSpec`: the endpoints implement `OneShotTokens` | one worker |
| `PromiseInvariant`, `OverForever` | the promise itself | |

The argument. `TypeOK` alone is not inductive: `GetOwner` reads the owner of
`req[w].jti`, which is a token only because the handler is a refresh, so
`CallState` (what a handler has in its hands at each call) goes with it.
`WritesInv` is what row locks, the unique key and the foreign key guarantee of
uncommitted writes: no two transactions insert the same token, user or e-mail,
what a transaction inserts is not there yet, what it revokes is there. From it
follow the token, user and account theorems for any number of workers, since the
commit can only move rows forward. `RepliesInv` relates a reply not yet sent to
the transaction: the revocation a 204 reports and the row behind a token are
already written, so a commit that succeeds makes them true before the
client reads the reply. `RotationInv` is what one worker adds: between the read
of a live row and the commit nothing else can revoke it or mint a sibling, so
the token a rotation is about to spend is the only live one of its session. It
fails with two workers (`race_refresh`), which is why those theorems assume
`Alone(w)`. On the memory backend `EndedSessionStaysEnded` does not hold: the
revocation is visible before the successor is stored, so a session has no live
token for a moment. The refinement mapping counts a token that is being rotated
as live there. The refinement is proved from `RotationInv` and two
facts more: what a transaction has written is what its request asks for (`TxState`), and
no token is ever deleted on memory (`MemoryKeeps`). On SQL the commit is then the one step
of the promise, whatever the handler wrote call by call; on memory it is the
storing of the new token; every other step of a handler is a stutter.

### Profiles, analyses and roadmaps

Proved for any sets of workers, users, rows, skills and patches, on each
backend, from `DataAssumption` (the three tables draw their ids apart, the
absent values are no values, the required skills are skills).

| Theorem | States | Also assumes |
|---|---|---|
| `StoreTypes` | `Spec => []TypeOK` | |
| `RowsKeepOwners` | `Spec => []OwnershipInv` | |
| `RepliesConceal` | `Spec => []RepliesAreOwn` | |
| `WritesStayOwn` | `Spec => WritesAreOwn` | |
| `LocksGuard` | `Spec => []WritesInv` | |
| `LinksKept` | `Spec => []LinksHold` | |
| `SuccessesAreStored` | `Spec => SuccessIsStored` | commits do not fail, workers do not die |
| `HandlersImplementStore` | `Spec => StoreSpec`: the handlers implement `OwnedStore` | one worker |
| `PatchesNameWhatChanges` | `Spec => PatchesAreLocal` | one worker |

The argument. None of the properties is inductive alone. `HandlerInv` adds what a
handler knows: `Fits` is the shape of its request at each call, and from the moment a
`*_for_user` method has answered (`Cleared`) the rows it works on are its user's
(`OwnRows`). This survives the steps of the others because an id is drawn once
(`author` changes at fresh ids only) and no row changes hands, not even while the handler
waits: a row that is deleted meanwhile keeps its author. `WritesInv` is what makes
`LinksHold` inductive: the INSERT of an analysis shares its profile's row with updates
but not with its deletion, so at its commit the profile is still there; and the commit
of a deletion unlinks every analysis already stored. `WaitingInv` relates a reply that
has not left to the session: a success other than a read has its write waiting, a flag
with the value that was asked for, so a commit that succeeds makes it true. It fails where the
commit may fail, since the reply is made before it. `HandlersKept`, `LocksKept`,
`LocalStep` and `MemoryStep` say once what a step must respect; each action then has a
lemma of its own.

The last two (`StoreProofs`) add `KInv`: what the one worker's handler has read still holds at
each later call and at its commit (`Known`: the row it loaded is the stored row, the row it
will write is that row with the patch applied, the new id is not taken), and every roadmap
hangs on an analysis that is there (`PlansHold`). Nothing else guarantees `Known`: the check of an owner,
the read, the write and the commit are separate steps, and with two workers another request runs between
them. On SQL the commit is then the one step of `OwnedStore`; on memory it is the call that stores
the owner, updates the row or disowns it; every other step is a stutter.

### The container boot

Proved for any number of containers, releases and starting versions, from `DeployAssumption`.

| Theorem | States |
|---|---|
| `BootIsSafe` | `Spec => []BootInv` |
| `CompleteSchemaServed` | `Spec => []ServesCompleteSchema` |
| `PagingIsComplete` | `Spec => []NoJobIsSkipped` |

`BootInv` is the inductive invariant: the version row has two values, the one found and the latest,
so an upgrade that lost a race finds the latest, and the stamp that the repair makes then changes nothing.
Only an upgrade that failed with the version still old can stamp over something missing.

`PagingIsComplete` rests on `ReadInv`: of the jobs that were there when the client began, it has seen every one
that ranks before the end of its page. A seed only adds rows, so a rank only grows (`RankGrows`, a fact about
finite cardinalities): a job may move to a later page, where the client meets it again, never to one it has read. The
last page ends after the last rank (`LastPage`). A seed that deleted the rows its release dropped would break it.

### The client and the page

Proved for any sets of accounts, pairs, profiles and skills, any `MaxLost` and any `Environment`, from
`ClientAssumption` (the absent values are no values).

| Theorem | States |
|---|---|
| `PageTypes` | `Spec => []TypeOK` |
| `CallBounded` | `Spec => []CallIsBounded` |
| `SessionIsOne` | `Spec => []SessionInv` |
| `HeldIsLive` | `Spec => []HeldTokenIsLive` |
| `LateIsElsewhere` | `Spec => []LateSpendsElsewhere` |
| `LogoutEnds` | `Spec => []LogoutEndsSession` |
| `ExpiryUnseen` | `Spec => ExpiryIsInvisible` |
| `PageShowsStored` | `Spec => []PageAgrees` |
| `SavesTheForm` | `Spec => []FormIsSaved` |

All are about `Spec`: each run of the script ends before the next click. The first two rest on `Inv` (`OnlinePageProofs`): types; every token somebody holds, in the client, on the page or in a
late request, has been granted; a call has what its request needs; and the number of requests it sent and
of times it was done follow from its phase. `TypeOK` alone is not inductive, since `Refresh`
reads the holder of the token it is sent. Each action of the API is written as a grant, a rotation or a spending
of `OneShotTokens`, so what that module promises holds here by the way the model is built; it is stated as
two lemmas, `PromiseKept` and `OverKept`, and not as a result about the client.

The next five rest on `SInv` (`OnlineSessionProofs`): a live token belongs to an open account (`BackInv`); the page
holds one pair or none (`PagePair`); the client holds the page's pair, or, while a call is running, a later one
of the same session (`ClientPair`); what a call is for and whom (`CallFor`); what its answer carries
(`CallPair`). The notion that makes it inductive is `Usable`: a token is live or ended from outside, and no request still on its
way can spend it. A refresh given up by the client may spend its token at any later time, which is
why `HeldTokenIsLive` and `LateSpendsElsewhere` depend on the client clearing the tokens whenever a refresh is given up; and a pair that was
just rotated cannot be refused in the retry, except for an account that is gone, which is
why an expired access token stays invisible. `LogoutEnds` adds `EndsInv`: the session of a pair that was ended from outside
is over, and so is the page's once its logout is answered. Only the live token of a session
ends it when it is spent, so this needs to know that the token the logout presents is that one, or one
of a session that was over (`Usable`), and the two lemmas of the promise. The same invariants were checked by TLC first.

The last two rest on `RowsInv` (the second half of `OnlinePageProofs`), which follows the copies of a row:

* `AskedInv`: what the script is blocked in is the request of its stage, made from the page as it still is. This is
  what relates the answer, several steps later, to the form and to the copy it was computed from.
* `RealInv`: every copy, on the page, in an answer or in a late request, is of a row that was drawn. So a profile
  just created is none of theirs, and no late PATCH can name it.
* `RanInv`: an operation that was done is answered well, or its answer was given up and the page knows it (the call
  is `silent`, so the save leaves `doubt`). An expired session in particular means nothing was stored.
* `CopyInv`: while nothing is in doubt the page's profile is the row, until the update it waits for has been done; the
  analysis is of the profile, the roadmap of the analysis.
* `SavedInv`, `DerivedInv`: what an answer carries. For a save: the row as it is now, with every skill the request adds and
  none it removes (`Carries`), whatever the row was; and the form itself when the save creates the row or nothing is in doubt.
  That the difference to the page's copy amounts to the form needs `CopyInv` at the moment the API does
  the update: the row is then what the difference was computed from. In doubt it need not be, which is the exception
  `FormIsSaved` states (finding 10).

`doubt = "overtaken"` is the one case in which an answer that says "ok" is not the row any more: a save given
up before was stored after it. `HandleLateRows` is where that is met. `Recorded` says once what a request may do to
the rows, whichever it is; `CallGoesOn` what a step of the client keeps of its call; `Shown` what a step of the page must leave.

### The core algorithms and the offline page

Proved for any catalog, resources and profiles, from `CoreAssumption` and `OfflineAssumption`.

| Theorem | States |
|---|---|
| `RoadmapTeachesTheMissing` | of `analyze_gap` and `generate_roadmap`, for any profile and job: the phases teach exactly what is missing, and no required skill comes after a preferred one |
| `RoadmapsTeach` | `Spec => []RoadmapTeachesGap` |
| `MatchNumbersAgree` | `Spec => []MatchesAgree` |

The functions flatten lists of any length, so this is an induction over data. The library's induction theorems take an
operator, which the provers cannot instantiate; here a property is given as the set of numbers that have it
(`Induction`), and a definition by recursion as the function its steps make (`Recursion`). Both come from the least
member of a set of numbers (`LeastNat`), which well-founded sets give through the intervals `0..n`. With them `FlattenSteps`
shows that the community module's `FlattenSeq`, a fold, has the partial concatenations it is meant to have, and
`Flattened` which elements the result has. Then `Lesson` is what a phase teaches as a set, and the rest is about sets:
`Lessons` splits two lists into three phases, and `MarkedTeaches` says that a completed resource changes no lesson.

`PageInv` is the inductive invariant of the page: types; the missing lists are apart (`ListsApart`); a
roadmap of an older profile is not shown (`StaleIsHidden`); the roadmap's phases are the lessons of the
analysis shown (`LessonsKept`), under the exception the property makes; and `MatchesAgree` itself, since marking a
resource updates one number from the other's ingredients.

### Model-checked only

`RequestsAreAnswered` in both modules and `ScriptEnds`: liveness is out of the prover's reach. What the code violates
is shown by a counterexample and is no theorem, except under the assumption that excludes it: `OneLivePerSession` and `PatchesAreLocal`
are theorems with one worker, `LogoutHolds` is one without failing commits. Every other property of the runs
is stated by a theorem. What a recursive *operator* would compute is not at issue: no module declares one.

## 7. Not modelled, and why

* `/me` and the access token read only. Rate limiting only refuses requests.
* Password hashing: a nondeterministic outcome of `GetByEmail`.
* SQLite for the account endpoints. Its file lock excludes more interleavings
  than row locks, and its "database is locked" is the failing statement.
* The unscoped repository methods (`get`, `update`, `delete`, `create` without a user)
  that no handler calls, `mark_completed` and `recalculate_match`, which only the
  pages use.
* The in-memory user repository under a registration race: `user_repo.py:53-57`
  documents the overwritten e-mail entry, so `AccountsReachable` is stated for
  SQL only.
* The methods of `ApiClient` the page never calls (`me`, `refresh`, `get_job`,
  `get_profile`, `get_analysis`, `delete_profile`): they go through the same `_request`. The
  wording of errors, the layout of the page, and the skills read from a resume, which only preset a form.
* Downgrades, which nothing in the deployment runs, and migrations on SQLite, whose DDL does not
  roll back and which no container uses.
* How a slug is made of a title (`job_repo.py:54`: the numbered slug of one title can
  be the slug of another): a property of it needs titles character by character, and the titles
  shipped have distinct slugs. The text filters of `GET /api/v1/jobs` for the same reason.
* The rate limiter counts requests per address; what the page meets is its 429, a missing answer.
* The categorizer's prompt, its fallback grouping and the resume parser are text matching
  without state; only whether a categorization has the expected shape matters to the handlers.
* Configuration, logging, CORS, hashing, health, CI, the shims at the root
  (`ai_engine.py`, `gap_analyzer.py`, ...): no state of their own.
