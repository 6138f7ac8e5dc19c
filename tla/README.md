# Pindoc in TLA+

Pindoc is a wiki that agents write and people read: a Go server (MCP tools and
an HTTP API, both in `internal/pindoc`) in front of PostgreSQL, a web reader and
a few commands. Everything the server keeps is in PostgreSQL, and any number of
agents, browsers and server processes use it at once. The interesting part is
therefore what concurrent handlers, each a handful of SQL statements in READ
COMMITTED transactions, do to the same rows.

## Inventory

| Component | State | Operations | Hard behaviour | What makes it correct |
|---|---|---|---|---|
| Artifact updates (`mcp/tools/artifact_propose*.go`) | `artifacts` row (head), `artifact_revisions` | propose with `update_of`, meta_patch | reads outside the transaction, retries, lost replies | append-only gapless history, no lost update, head = newest revision |
| Task lifecycle (`task_*.go`, `httpapi/task_meta.go`) | `task_meta` of the row, checkboxes in the body | acceptance_transition, claim_done, assign, HTTP task-meta, reconcile sweep | several writers decide on stale reads | claimed_done only over a resolved checklist; a cancelled Task stays so |
| Area moves (`artifact_set_area.go`) | `area_id` | set_area, single and bulk | row locks of artifacts and areas | only active artifacts move; no waiting for ever |
| Create, slugs, titles (`artifact_propose.go`) | new rows, slug and title uniqueness | propose without `update_of`, `supersede_of` | check-then-insert, retry after a unique violation | all or nothing, one slug per artifact, successors newer than what they replace |
| Index (`indexstate`, `cmd/pindoc-reembed`) | chunks, index state | refresh in the writer's transaction, re-embed job | overlapping refreshes, provider failure, stale plan | an index that says indexed has exactly the chunks of the content it names |
| Visibility (`artifact_set_visibility.go`, `project_set_visibility.go`, HTTP) | visibility of project and artifact, `visibility_change` revisions | set, bulk set, PATCH, set of the project | the check against the project's value is in or outside the transaction | the PATCH never makes an artifact broader than its project; the revisions are the history |
| Receipts (`receipts`) | in-memory map with TTL | issue, consume, sweep | one-use tokens, concurrent use, restarts | a one-use receipt admits one create |
| Areas, taxonomy (`area_*.go`, `taxonomy_change*.go`) | areas, plans | create, archive, plan, apply | plan applied to a changed tree | no artifact in an archived area |
| Review inbox (`httpapi/inbox.go`, `policy`) | `review_state`, `status` | approve, reject | races with supersede, promotion and another reviewer | decision and status agree, a superseded artifact stays superseded |
| Migrations (`db/migrate.go`) | ledger table, advisory lock | migrate at start-up | two servers, a crash in the middle, a binary of another build | every migration once; a server works only on the schema it knows |
| OAuth (`auth`) | clients, codes, tokens, consents, nonces in memory | authorize, confirm, token, refresh, revoke, DCR | no transaction around fosite's statements; replay, restart | codes stand for consented scopes, a nonce confirms once, a replayed or revoked family is dead |
| Projects, members, invites, organizations, users | their tables | create, issue, join, extend, revoke, remove, first owner | concurrent membership changes | a project keeps an owner; an invite is settled once and in time |
| Telemetry (`telemetry`) | bounded channel, batch | record, flush, close | full buffer, shutdown with calls under way | what was accepted before the shutdown is written |
| Toolset notification (`mcp/toolset_notify.go`) | one row | compare and store at start, announce to sessions | several processes, a missing row | one process notices a change |
| Read state, change groups, task queue, search, export | derived | queries | pure algorithms | agree with a reference definition |
| Web reader, commands, sidecar, seeds | - | - | - | not modelled |

Components interact through the database only, except that a writer of an
artifact calls the embedder within its transaction, `pindoc.ping` runs the
reconcile sweep, and receipts, consent nonces and telemetry live in the server's
memory.  The version recorded by telemetry is also what a server that finds no
stored toolset version takes for the former one.

## Modules

* `TaskArtifact` - the data: bodies reduced to the markers of their acceptance
  checkboxes, `task_meta` to status and assignee, the requests of each tool,
  their gates (`BodyAdmits`, `HttpAdmits`, `ClaimAdmits`, ...) and what an
  accepted request writes (`NewHead`, `Revision`). Pure operators.
* `RevisionLog` - the promise: an accepted request happens at one instant,
  against the row it finds then, and adds exactly the next revision.
* `ArtifactRevisions` - the code: every handler as a sequence of steps, one per
  SQL statement that matters (`Select`, `InsertRevision`, `ForeignKeyCheck`,
  `UpdateHead`, `Commit`, ...), any number of them interleaved, each of which
  can fail anywhere; callers that send a failed request again.
* `IndexState` - the search index of an artifact: the writers' refresh inside
  the transaction that writes the body, and `pindoc-reembed`, which refreshes
  from a plan, statement by statement and any number at once.
* `ArtifactLifecycle` - how artifacts come to be, are replaced and are reviewed:
  the create path of propose with its receipt gate, title conflict and slug
  allocation, `supersede_of`, the review inbox and the update that promotes an
  artifact to settled; the receipt store in the server's memory, errors and
  restarts.
* `ProjectAccess` - who belongs to a project and who sees its artifacts: invites
  from issue to join, revocation and extension, removal of members, the first
  owner at boot and at signup, the project's visibility and the three ways to
  change an artifact's.
* `ArtifactCatalog` - the promise of `ArtifactLifecycle`: an accepted call has had
  its effect on the rows whole and at one instant, a slug is given once, and any
  other call has had no effect.
* `AccessTables` - the promise of `ProjectAccess`: a call that succeeds has had its
  effect on the rows as they were then, by the time it goes by, and a call that
  fails has changed nothing. The exceptions are the issue and the extension of an
  invite: what follows their effect may fail, and the invite stays as it is then.
* `OAuthTokens` - the OAuth server: consent page, nonce, consent and code, the
  statements that fosite runs on the store to exchange, refresh and revoke, and
  the clients' registration, pruning, seeding and deletion.
* `ServerProcess` - a server from boot to exit beside others: Migrate, the
  recording of the toolset version, the notice to sessions, and the telemetry
  flusher through shutdown.
* `MC<module>` for each of the five with state - the instances for TLC.
* `<module>_proofs` for each, `TaskArtifact_proofs` and
  `ArtifactRevisions_refinement` - the theorems.

`IndexState` and `ArtifactRevisions` meet where a writer calls the index refresh
between its UPDATE and its commit. `ArtifactRevisions` shows that of the writers
of an artifact one at a time gets that far, with the next revision number;
`IndexState` starts from there (`RowFree`).

`ArtifactLifecycle` and `ArtifactRevisions` look at the same rows from two
sides. `ArtifactRevisions` has the history of artifacts that exist, with
`supersede_of` as one of the writers of a row; `ArtifactLifecycle` has the rows
that come, their `status`, `review_state` and `superseded_by`, and of the updates
only what the inbox gets to see. That an update overtaken by another one fails
(`Promote`) is what `ArtifactRevisions` shows.

The last three are around these. `ServerProcess` comes first in time: no handler
of any other module runs before Migrate has ended (`SchemaIsMigrated`), and none
after `Exit`. `OAuthTokens` decides which user a bearer token stands for,
`ProjectAccess` which role this user has in a project; the modules of artifacts
start from a caller who may call. A change of visibility adds a revision as well:
`ProjectAccess` has its number by itself (`SetArtifact` fails if it is taken), and
`ArtifactRevisions` leaves this writer out, since it changes neither body nor
`task_meta`.

### How the state corresponds to the code

`head[a]` is the committed `artifacts` row, `revs[a]` the committed
`artifact_revisions` of it by `revision_number`. For each caller `c`: `req[c]`
the arguments, `pc[c]` the statement its handler runs next, `seen[c]` the local
variables filled by the SELECT (`lastRev`, `currentBody`, ...), `at[c]` the
artifact of the current statement and `todo[c]` the rest of the sweep's loop,
`ins[c]` and `rows[c]` the uncommitted revision and artifacts rows, `share[c]`
and `excl[c]` the row locks held, `reply[c]` and `tries[c]` what the client
knows.

A handler reads (`Select`), checks its gates on what it read, begins, inserts
revision `seen.rev + 1` (`InsertRevision`: waits for a transaction that holds the
same key uncommitted, fails if it is committed), takes KEY SHARE on the artifact
(`ForeignKeyCheck`), updates the row (`UpdateHead`) and commits. The sweep runs
UPDATE before INSERT, for each of its candidates, in one transaction.
`set_area` begins with SELECT ... FOR UPDATE (`LockStatement`, `LockRow`,
`LockArea`), which also locks the area the artifact is in, and ends with KEY
SHARE on the target area (`AreaForeignKey`). `claim_done` may store edges and
pins first (`AttachEvidence`). `Fail` is any error of any statement, the index
refresh and the events insert included; `ContentGate` is a check on text the
model does not see.

What PostgreSQL contributes is stated at the head of `ArtifactRevisions` and is
modelled from how the code uses it: the unique key, row locks, the deadlock
detector, atomic commit. `Retry` and `Submit` are the clients.

In `IndexState`, `head`, `rev`, `chunks` and `state` are the committed rows of an
artifact (a *content* is a title and a body, told apart by their hashes), `work`
is the RefreshInput of a running transaction, `doomed` the chunks its DELETE has
found, `del` those it has deleted, `ins` how many it has inserted (the title
first) and `outcome` and `count` what it records. `Write` is a writer at its
UPDATE, `LoadPlans` and `ReembedOne` are `pindoc-reembed`; `Embedded` and
`ProviderFails` are the two ends of `prepare`; `Delete`, `Deleted`,
`InsertChunk` and `Record` are `replace`, `markFailed` and `MarkUnknown`;
`ChunkKeyTaken` is the unique violation that ends a refresh which lost a race.
A refresh of an artifact that is being created has no competitor and is left
out, as are archived artifacts, `-only` and `-dry-run`.

In `ArtifactLifecycle`, `rows[a]` is the committed row of artifact `a`; every create
makes the artifact that has its name, so that two calls never make the same one,
and `born` numbers the rows by the commits that made them. `receipts` is the map
of `receipts.Store` (a receipt is in it as long as `Verify` accepts it), `draft[c]`
the row a transaction has inserted and not committed, `target[c]` the local
variable `supersedeTargetID`, or the row that the inbox or the update has found,
`seen[c]` whether `currentCompleteness` was settled. `VerifyReceipt`,
`ResolveSupersede`, `TitleCheck`, `FindPending` and `ReadHead` are the reads
before or at the start of a transaction; `Insert`, `SlugTaken` and `InsertAgain`
are the slug loop; `Supersede`, `Decide` and `Promote` the UPDATEs, which take the
row lock; `CommitCreate`, `CommitReview` and `CommitUpdate` the commits. The
project's `sensitive_ops` may be set at any time and is therefore any of its two
values at every use. `Refuse` stands for the gates whose data is not modelled and
for `dry_run`, `Fault` for an error of any statement, `Restart` for a server that
stops, which loses its receipts and, through PostgreSQL, its open transactions.
All artifacts are of one project and one area.

In `ProjectAccess` there is one project; `role`, `invites`, `project`, `tier` and
`revisions` are its committed rows. For each call `req[c]` are its arguments,
`at[c]` the time the handler takes for `now`, `seen[c]` what it has read, and
`pc[c]` the next statement. The rows a transaction has locked follow from where
it is (`Held`), so that nothing is said twice. `Snapshot` is the
`max(revision_number)` that the locking SELECT evaluates before it waits,
`LockArtifact` the row it then reads again. What a transaction writes is visible
at COMMIT; UPDATE or DELETE and COMMIT are one step, and its guard
`Free(c, TheProject)` is the wait of the foreign key's KEY SHARE for who holds the
project's row. `SetAll` is the bulk form, which fails as soon as it has something
to change. Two statements come after an effect that stays: `Lookup` is the read
with which `Issue` (invites.go:101) returns the invite it has inserted - without a
lock and by a clock of its own, so that an invite revoked or expired meanwhile is
refused - and `Audit` the event of an extension or a permanent invite. The read of
an extended invite that precedes its event (invites.go:419) decides nothing and
fails with it. A `Fault` there leaves the invite and fails the call.

In `OAuthTokens` a *family* is what one authorization gives, fosite's request_id;
`grant`, `code` and `pkce` are by family, `access` and `refresh` by token, and a
token, nonce or client has the name of the call that makes it. `pc[c]` is the next
statement in fosite's order: the code is read, its PKCE row read and deleted, the
code read again and invalidated, access and refresh token inserted, each in a
transaction of its own. `crowded` is a history variable: the calls that met
another on their family or at the registration.

In `ServerProcess`, `ledger`, `stored` and `rows` are the tables
`schema_migrations`, `mcp_runtime_state` and `mcp_tool_calls`, `applied` counts
how often a migration's SQL has been committed, `lock` is the advisory lock and
`rowLock` the runtime row's. `where[e]` is where a telemetry entry is - in the
channel, in the batch, left behind by an exit, or gone to the database. `Record`
sends when the channel has room, `Cancel` is the signal, `SeeCancel` the flusher's
`ctx.Done` branch, `Close` and `Exit` the end of main; `Die` is a kill or a failed
statement of Migrate, with which the session's locks end. The CREATE and ALTER of
the ledger table are left out. A recording whose COMMIT is not answered is both a
failed and a done one (`RecordingFails`).

The three abstract specifications have the committed tables of the detailed ones
under the same names, and instead of `pc`, locks and local variables a `status` of
each call, which is what its caller can know: `Status` says which statement is
which. `RevisionLog` needs no status, since a revision says whose it is. What the
handlers do not promise, because they decide it on a read before their
transaction, is named at the head of each and left open there: that the caller may
still ask and that the project keeps an owner in `AccessTables`; that a title is
free, that what is superseded is not in the archive, that what is reviewed waits
for a review in `ArtifactCatalog`.

Abstracted in `ArtifactRevisions`: title, tags, completeness, `artifact_meta`, authors, events, pins
and edges (but for the lock they take), the chunks. An artifact is a published
Task; `life` distinguishes active from superseded.

## Runs

| Run | Instance | Shows |
|---|---|---|
| `one_task` | 1 Task, 1 checkbox, 2 callers, 2 tries, every kind of request | all safety properties and the refinement |
| `two_tasks` | 2 Tasks in 1 or 2 areas, 2 callers, the writers that lock in different orders, fairness | every request is answered |
| `index_refresh` | 1 artifact, 1 write, 2 `pindoc-reembed` processes, 3 embedder settings, 1 fault, fairness | chunks are never a mixture and change only as a whole, attempts are counted, needs-refresh runs converge |
| `lifecycle` | 1 seed, 3 calls of 8 kinds, 1 one-use receipt, 1 fault, fairness | creates are all or nothing and use a receipt once, successors are newer, decision and status agree, every call ends; the refinement of `ArtifactCatalog` |
| `project_access` | 3 users, 1 invite and what calls issue, 1 artifact, 3 calls of 11 kinds, 1 tick, 1 fault, fairness | an invite is settled once and in time, extensions stay, the PATCH keeps the cap, the revisions are the history, every call ends; the refinement of `AccessTables` |
| `oauth_tokens` | 1 user, 2 scopes, 2 clients, 2 families, 3 calls of 9 kinds, 1 error or restart | scopes are consented, a nonce confirms once, ended families stay dead, overlaps are the only exceptions |
| `server` | 2 servers of 3 builds, 2 migrations, 2 starts, 2 entries, a channel of 1, 1 fault, fairness | the schema is migrated once and known, a change noticed once, earlier calls flushed, boot and Close end |
| `claim_gate_misses_patch` | 1 caller | the claimed_done gate does not see a patched body |
| `repair_spoils` | 1 write, 1 `pindoc-reembed` | a stale plan replaces a current index |
| `slug_retry` | as `lifecycle` | a taken slug fails the create |
| `last_owner_race` | as `project_access`, removals only | two owners remove each other |
| `bulk_visibility` | as `project_access`, the bulk form only | a confirmed bulk change fails |

Bounds: `MaxTries` is how often a caller sends its request, `MaxVer` the largest
`expected_version` a request carries. Two callers with two tries reach three
revisions beyond the first; every conflict here (key, row lock, stale read, lost
reply) is between two transactions, and a retry after a lost reply needs two
tries. One checkbox suffices because checklists are only asked whether all
boxes are resolved. The callers are symmetric in `one_task`, which has no
liveness property; `two_tasks` uses no symmetry. Deadlock checking is off: when
both callers are answered the system is idle.

In `index_refresh` one content has no body chunk and the other one, so that sets
of different size replace each other; three transactions on one artifact
(`MaxRev` 2 is one write) are enough for one to delete, one to wait and one to
record a failure; `MaxAttempts` is where the model stops counting attempts,
which lets runs repeat for ever, and `MaxFaults` bounds provider failures and
crashes together. Artifacts do not interact here, so one is enough; the proofs
have any number.

In `lifecycle` the requests are chosen so that any two meet in something: slug
`new` is wanted by a create and a supersede, `newer` by three, the receipt by two
creates, the seed's title by a create, its row by a supersede, two decisions and
a promotion, and one supersede replaces what another call has made. Three calls
are enough for one to hold a row, one to hold a slug and wait for the row, and
one to wait for the slug, for a chain of two supersessions, and for reject,
promotion and approval of one artifact; `ExemptionLimit` 2 is passed by the seed
and one create; `MaxFaults` bounds errors and restarts together. The run is
checked for deadlock by `EveryCallEnds` instead of TLC's check: after its calls
the system rightly stops.

In `project_access` any two calls meet in a row: the invite is joined, revoked and
extended, the artifact changed by both routes while the project's tier changes,
members are removed while others join or sign up. One call issues an invite,
permanent or for a time of 1: the latter has expired at its lookup if the clock has
moved, and others may revoke or join either before its issuer has it. Two calls suffice for each race
and the third makes one wait behind another; `MaxTime` 1 is the invite's expiry
passing before or during a wait, `Extension` 1 an extension that moves it beyond.
In `oauth_tokens` family `fresh` has a code that nobody has redeemed and `used` a
session at work; three calls are a use, its replay and what is sent after, and the
tokens of one call are sent by another. `DcrMax` 2 leaves room for one client
besides `old`, which may expire. In `server` the second start may be the same
binary, a newer one or one with an edited migration; `BufferSize` 1 makes the
second entry wait or drop, `BatchSize` 2 is more than the channel holds, so that
the ticker as well as a full batch occur; entries recorded before and after the
signal need two. `MaxFaults` is again errors and deaths together. All three stop
when the calls are done, hence no deadlock check; `EveryCallEnds` and
`EveryPhaseEnds` take its place where locks are waited for, and `OAuthTokens` has
no step that waits.

Fairness: `FairSpec` assumes weak fairness of `Progress(c)` - a goroutine that
can run does, a lock that can be granted is, and PostgreSQL's deadlock detector
runs. Nothing is assumed of clients (`Submit`, `Retry`) or of failures.
`IndexState!FairSpec` assumes the same of the steps of a transaction, and that
`pindoc-reembed -state needs-refresh` is run again and again and goes through its
plan, which is what the documentation asks the operator to do; `Recovers` says
that this is enough once requests and faults end. `ArtifactLifecycle!FairSpec` is
weaker: as long as some handler can take a step, some handler does. There are
finitely many calls, each of finitely many statements, and no lock is waited for
by one that holds what its holder waits for, so this suffices for all to end.
`ProjectAccess!FairSpec` is the same. `ServerProcess!FairSpec` assumes weak fairness of
each server's `Boot` and of its flusher and exit: Go schedules the goroutines, and
PostgreSQL wakes who waits for the advisory lock or the row; nothing is assumed of
starts, signals, calls, or of failures. `OAuthTokens` states no liveness.

## Disagreements found

* `ClaimedDoneIsGated`: the gate at `artifact_propose.go:2408` counts the
  checkboxes of `body_markdown`, which is empty when a `body_patch` was sent; the
  comment above it promises 100%. `DoneMeansResolved` is the property that does
  hold, with this exception spelled out.
* `RepairNeverSpoils`: `pindoc-reembed` embeds what it read when it started, up
  to 30 minutes ago (`cmd/pindoc-reembed/main.go:235`), and so can turn an index
  a writer has just refreshed stale; `docs/27-data-integrity-operations.md` calls
  it repairing only rows that need work. `IndexedIsExact` is what holds: the row
  then says which content it is of, and `Recovers` that the next run repairs it.
* `SlugRetrySettles`: the loop at `artifact_propose.go:1068` tries the next suffix
  in the transaction that the unique violation has aborted; PostgreSQL refuses
  every further statement and the create fails. The comment at line 998 and
  `docs/12-m1-implementation-plan.md` promise the suffix.
* `ProjectKeepsOwner`: `RemoveProjectMember` (`projects/members.go:150`) locks the
  row of the member it removes and counts the owners without a lock; two owners
  removed at once leave none, against the comment at line 133.
* `BulkApplies`: `setVisibilityBulk` (`artifact_set_visibility.go:269`) writes on the
  connection whose rows it is still reading, which pgx refuses; the description
  at line 59 says that a confirmed call applies. The bulk form of set_area
  collects its rows first and says why (`artifact_set_area.go:283`).

Read in the code and not the subject of a run:

* The UPDATE at `artifact_propose.go:1664` lets the automatic claim win over a
  `task_meta` the caller sent; `docs/04-data-model.md` calls it send-to-overwrite.
* `task_reconcile.go:101` stores a body with shape meta_patch;
  `docs/18-revision-shapes-spec.md` says NULL.
* The inbox publishes on every approval (`httpapi/inbox.go:248`); its conditions
  are in a subquery, which PostgreSQL does not test again after a lock wait, and
  they admit superseded rows, so that `status` may go back, against
  `docs/04-data-model.md:138`. `ReviewMatchesStatus` is what holds.
* `telemetry.go:164` says that Close blocks until outstanding entries are flushed.
  The flusher returns on `ctx.Done`, and what handlers record after that is neither
  written nor counted; a call that ends after Close sends on a closed channel and
  panics (`RecordAfterClose`). `EarlierCallsAreFlushed` is what holds.
* The cap of a single artifact.set_visibility is read before its transaction
  (`artifact_set_visibility.go:114`), and a project that is lowered leaves its
  artifacts alone: only `PatchKeepsCap` can be stated.
* Two signups may both pass the first-owner gate and both become owners, and a
  sole owner who accepts an invite gets the invite's role: `ProjectKeepsOwner` has
  more counterexamples than the run of removals shows.
* A server that notices a change and stops before a session is initialized takes
  the announcement with it.

## Proofs

All theorems hold for every set of artifacts, items, agents, areas, callers and
requests, and any `MaxTries`, under the named assumptions: the sets are not
empty (`NonEmpty`), requests are requests (`RequestsAreRequests`), initial rows
are active rows (`InitialTasksAreRows`), `MaxTriesIsPositive`, and the creator of
revision 1 is no caller (`CreatorIsNoCaller`).

`ArtifactRevisions_proofs`: `RevisionsContiguous` is not inductive - a handler
writes a number it read long ago. `Numbers` adds why that is harmless: no read
is of a revision that does not exist (`ReadsAreBounded`); whoever holds an
uncommitted revision read the newest number, still the newest
(`InsertsAreLatest`), and is alone with it (`InsertsAreExclusive`); `Positions`
ties the program counter to what is held. It yields `TypeCorrect`, `Contiguous`
and `AppendOnly` (`HistoryIsAppendOnly`, which no run lists since `ImplementsLog`
implies it; so it is with `SupersededStaysInArea`).

`ArtifactRevisions_refinement`: `Fresh` adds what the rows need. A read whose
revision is still the newest has the same body, task_meta and area as the
current row (`ReadsFresh`; only supersede_of changes a row without a revision,
and changes none of these), an uncommitted row is what the request makes of the
committed one (`RowsCurrent`), a row locked by set_area stays as read
(`LocksHold`), the gates held on the read (`Checked`), two transactions never own
one row (`Apart`). Then a commit is one step of `RevisionLog` and every other
step a stutter (`Refinement`), from which `DoneIsResolved`, `CancelledIsKept` and
`SupersededIsKept` follow by looking at what one sequential step does, and so does
`HeadIsNewest`: a revision stores the body its commit leaves in the row, or none
where it leaves the body alone (`RevisionBody`, `NewestBodyExtend`). `RetriesApplyOnce`
and `AcceptedStaysRecorded` rest on `History`: a revision whose caller sent
expected_version v has number v + 1 (`Attributed`), and a request stays as it was
sent (`CallerStep`, `Promised`).

`IndexState_proofs`: `IndexedIsExact` is not inductive either - it says nothing of
a transaction in flight. `IInv` adds that the committed chunks are always one
whole set (`ChunksWhole`); that a DELETE finds all of them or none, and that only
a transaction which deleted all of them inserts (`Found`: if it deleted none
while there were some, the title's key is taken); that two transactions on one
artifact never both hold deleted chunks, inserted chunks or the state row
(`Apart`); and what each transaction has done by statement (`Local`). It yields
`IndexTypeCorrect`, `IndexIsExact` and, since only `Commit` publishes,
`ChunksAreOnlyReplaced` and `AttemptsAreCounted`, for any artifacts, contents,
chunk counts, embedders and processes; the assumptions are that there is an
artifact and a content (`SomeArtifact`), that chunk counts are numbers
(`ChunkCounts`), that `pindoc-reembed` has an embedder (`ReembedHasModel`: it
refuses to start without), that a process is of one kind (`ProcsDiffer`), and
`Bounds`.

`ArtifactLifecycle_proofs`: `OneUseReceiptAdmitsOneCreate` looks at creates that
have ended; its inductive form `ReceiptsOnce` is about those under way - a call
that Verify accepted and that has not been given up (`Uses`) is the only one with
its receipt, and the receipt is out of the store. `SupersessionMovesForward` needs
that a new row is younger than all others (`BornBefore`) and that nobody leads to
the row of a call that has not committed (`AllOrNothing`), `ReviewMatchesStatus`
that an uncommitted row is published and not rejected (`HasDraft`) and that what a
transaction has found does not go away (`HasTarget`). Every step that writes no
table is an instance of one lemma (`OneMoves`), every commit of an UPDATE of
another (`RewriteInv`).

`LifecycleImplementsCatalog` is the refinement. What a commit publishes was
computed several statements earlier, so `CatalogInv` says that it still fits:
nobody has or is given the slug of an uncommitted row, which is what its request
makes it (`DraftFits`); what a call found by a slug keeps that slug, and an update
that is about to commit has read `settled` as it is (`TargetFits`); and open
transactions have inserted different slugs and written different rows (`Apart`).
The last is what makes the others last: `QuietFits` is the step that writes no
row, `CommitFits` the commit of somebody else. Then each commit is one `Apply` of
`ArtifactCatalog`, each end without success a `Fail`, `Restart` a `Fail` of all
calls under way, `Submit` an `Ask`, and every other step a stutter
(`ShowsNothing`). The assumptions: calls make new artifacts
(`CallsAreNew`), one-use receipts are receipts (`OneUseReceipts`), requests and
seeds have their types (`RequestTypes`, `SeedTypes`), sets are not empty
(`SomeOfEach`), `Bounds`.

`ProjectAccess_proofs`: what a transaction read under a lock is still so when it
writes (`Reads`), because no two hold one row (`LocksApart`); `WritersApart` turns
this into "nobody else settles the invite, changes the tier". With it
`InviteSettledOnce`, `JoinedInTime` and `HistoryIsComplete` are inductive, and the
steps of `ExtensionsAreKept` and `PatchKeepsCap` follow from what a writer has
read. `HistoryIsComplete` uses the one lemma on Append (`HistoryGrows`): the
number read before the wait is that of the last revision, or the INSERT fails.
`AccessImplements` maps every step: a commit is an `Apply` on the rows it finds,
because what it read under its locks is what they hold (`Reads` again); an issue or an
extension is `applied` with its INSERT or commit and `accepted` or `failed` after
its lookup and its audit event, whichever it has (`LookupApplies`, for which
`Issues` says that a call at its lookup has its invite in the table); reads, locks and reading the clock anew are stutters or an `Ask`.
`OwnersSurviveOneAtATime` says what the run `last_owner_race` leaves: under
`OneAtATime` - an owner is lost only to a removal, and not while another removal of
an owner stands between its count and its commit - the project keeps an owner. The
hypothesis rules out the race and the owner who joins again as something less,
and nothing else; the count is a cardinality, hence the assumption that the users
are finitely many.
For any users, loopback users, seeds, requests and times (`CallsAreNew`,
`LoopbackUsers`, `RequestTypes`, `SeedTypes`, `Bounds`).

`OAuthTokens_proofs`: `Shape` says what a call asks for at each statement and what
bears its name only after it ran. `ConsentInv` adds the calls about to make a code;
`NonceInv` that a live nonce is of a page that was shown and that nothing confirmed.
`FamilyInv` is about overlaps: two calls at work on one family are both crowded
(`Overlap`); no tokens before the code is used (`CodeFirst`) and no used code
becomes active (`PastCode`); when a refresh token is about to be made, those that
work are of crowded calls (`Alone`); what the end of a family has done so far, and
that no call stands between reading a token and making the next (`Ending`).
`RegisterInv` counts the clients that did not overlap. `CodesRedeemOnce`: whoever
has gone past the invalidation of a code finds it spent for ever, and who is between
the first reading of an unused code and its invalidation is crowded with everyone
who has got there (`RedeemInv`), so two requests that both get tokens for one code
have overlapped. Beside types, the
assumptions are that the tables at the start are of this code's making: codes
consented (`SeedsConsented`), unused codes without tokens (`SeedsUnused`), the
limit kept (`SeedsBounded`).

`ServerProcess_proofs`: `LedgerInv` - whoever is in Migrate has the advisory lock,
its reading of the ledger is right from the migration it is at, and what is before
is as its binary knows it; `VersionInv` - who is about to save a version holds the
row and read what it holds; `FlusherInv` - a flusher that has seen the end has only
late entries before it. Min and Max of a set of entries are shown to be elements
by well-foundedness of strict subsets, since the library has no theorem on them.
The three parts do not interact, and each has a frame lemma (`LedgerFrame`,
`VersionFrame`, `FlusherFrame`) for the steps of the others. For any servers,
builds, migrations, versions and sizes (`NoneIsNone`, `BinaryTypes`, `SeedTypes`,
`Bounds`).

Waiting: four modules have locks, and for each the safety half of "nobody waits for
ever" is a theorem, for any number of callers. `WaitsFor(c, d)` says that `c`'s next
statement needs a row, a key or a lock that `d` has; the lemmas `WaitersStay` show
that it is the wait of the model, since a call that waits for anyone takes no step
of its own.
`AccessNeverDeadlocks`, `LifecycleNeverDeadlocks` and `RefreshesNeverDeadlock` say
that among any callers one waits for none of the others: each gives the callers a
level that grows along every wait (an invite is locked before a member and an
artifact before the project; a slug is inserted before a row is updated; one
transaction at a time has touched the chunks of an index, and does so before it
takes the state row).
`LocksComeBack`: the advisory lock and the row lock of a server are held at
statements that wait for nothing, and never by a server that is down. That the
caller who waits for nobody can indeed take a step is a statement on ENABLED, and
that it then does is fairness: both stay with TLC (`EveryCallEnds`, `EveryPhaseEnds`,
`Recovers`). `ArtifactRevisions` really has deadlocks, which PostgreSQL breaks;
`EveryRequestAnswered` shows on an instance that this suffices.

Only model-checked: liveness (`Recovers`, `EveryRequestAnswered`, `EveryCallEnds`,
`EveryPhaseEnds`), which this prover does not do, and the five disagreements, which
are counterexamples.

## Not modelled

* Areas and taxonomy: archives and plans lock nothing in common with the writers
  that read an area, and the code promises nothing about their overlap.
* `add_pin` is a meta_patch in shape; wording fixes, translation and relocation
  call propose. The bulk area move has the locks of the single one.
* Of the OAuth server: the signing key, the exchange with GitHub, the addresses of
  the rate limiter (`MayRegister` may refuse), expiry of tokens, idle clients and
  `last_used_at`. Of membership: creation and settings of projects, organizations
  and users, the user row a signup creates, the session cookie that ends a GitHub
  callback (it fails only if the provider is removed while the callback runs), what
  events say. Of the bulk change: the area filter, which only chooses artifacts. Of
  migrations: their SQL and the health report, which only reads.
* A COMMIT, or a statement that commits by itself, whose answer is lost: it is a
  step of `ArtifactRevisions`, where the request is sent again, and of the toolset row
  in `ServerProcess`. In the other modules a fault comes before a statement's effect,
  and in this sense `ArtifactCatalog` and `AccessTables` say that a failure has
  changed nothing.
* Text and data without concurrency: section patches, diffs, title guides,
  preflight lint, read states, change groups. What they compute is covered by unit
  tests over examples; a model would repeat the function.
* Read-only queries (task queue, search, context, history, export), the web reader,
  assets, settings and providers, commands but for `pindoc-reembed`, and the
  embedding sidecar, which `IndexState` has as a provider that answers or fails.

## Plan

1. Done: artifact updates and the Task lifecycle, the index, creates, receipts,
   supersession and review, with their proofs.
2. Done: project access, OAuth, the server process, with their proofs; the
   refinements of `AccessTables` and `ArtifactCatalog`; freedom from deadlock.
3. Next: the archive of empty areas against creates and moves in flight, and
   taxonomy plans that are applied to a tree that has changed.
4. An abstract specification of token families for `OAuthTokens`, with its proof.
5. Pure algorithms (section patches, checkbox transitions) against references.
