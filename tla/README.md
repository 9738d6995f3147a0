# Verification of the Gerege Nexus App Store

TLA+ models of the App Store registry (`src/modules`, `src/cmd/appstore-import`),
TLC runs over small instances, and TLAPS proofs for instances of any size.

## 1. The system

The App Store is three modules over one PostgreSQL database, mounted in the Gerege
Nexus platform (login, tenants, HTTP server and the core's migrations are external).
There is no in-memory state besides the signing key: all handlers of all requests
share the tables, and almost all of the difficulty is what happens between two
statements of one handler.

| Component | State | Operations |
|---|---|---|
| Registry store (`registry/store.go`) | `store_publishers`, `store_apps`, `store_app_texts`, `store_app_versions`, `store_external_registrations`, `store_review_events`, `store_registry_state.revision` | `UpsertPublisher`, `SetPublisherVerified`, `UpsertApp`, `SubmitVersion`, `DecideVersion`, each one transaction; listings |
| Publisher studio (`publisher/publisher.go`) | none of its own | save profile, register or edit an app, submit a version |
| Store review (`review/review.go`) | none of its own | publish, reject, yank a version; verify a publisher |
| Catalogue service (`registry/catalog.go`, `public.go`) | `store_catalog_snapshots`, `store_private_snapshots` | `GET /catalog`: find the audience, read the revision, serve the cached document or build, sign, save and prune; rebuild |
| Platform audiences (`registry/platforms.go`, `platform_handlers.go`) | `store_platforms`, `store_app_grants` | register, enable, disable, grant, revoke, discard the private cache |
| Key handling (`registry/registry.go`) | the signing key of the process | loaded at start; rotation is a restart and a rebuild |
| Import tool (`cmd/appstore-import`) | the same tables | one transaction that copies an older registry |

How they interact: the studio and review write the rows a catalogue is built from and
move `revision` in the same transaction; the catalogue service reads the revision
first and files the document it builds under that number; a document is served from
the cache only while its number is the current one. Operators change who may see what
(grants), which moves no revision, so those handlers delete the platform's cached
documents instead.

What is hard:

- **No transaction on the read side.** Audience, grants, revision, cached row,
  catalogue rows, the translations of each app, the save and the prune are separate
  statements; publications, other builds, grants and revocations fall between them.
- **Statements that fail and are only logged**: the save, the prune, the discard, the
  touch.
- **Restarts** that keep rows and lose handlers, and may change the key.
- **Check, then write** on the write side: the owner of an id, the app's type and the
  status of a version are read before the write, or not at all.
- **Two clocks**: `NOW()` is the start of a transaction, its effects appear at commit.
- **Row locks** of several statements in one transaction, and the deadlocks they allow.
- **Clients that keep what they hold**: an instance keeps its document on a 304 and when
  an answer is cut short.
- **An import that is not a snapshot**: every table is read by a query of its own from a
  registry that goes on working, and the tool is interrupted and run again.

What makes each part correct: a cached document is what its revision says (catalogue
service); a platform sees no private app it was not granted (audiences); a commit that
changes a catalogue moves the revision, an app stays with its publisher, and what the
public sees was reviewed (store, studio, review); after a rotation nothing is served
under the old key (keys); each platform is offered the newest version it can run
(selection); a publication reaches every instance that keeps polling (instances); and the
import loses nothing and arrives in the end (import tool).

## 2. Modules

| Module | Role |
|---|---|
| `CatalogSource` | abstract write side: the rows a catalogue is built from and the three transactions that change them, each moving the revision |
| `CatalogDocument` | extends it: what a catalogue lists for a channel, a platform version and an audience |
| `CatalogService` | extends it: the catalogue endpoint, both caches, the operator endpoints, restarts |
| `Selection` | extends `CatalogDocument`: the loop of `build`, row by row, and `generated_at` |
| `Polling` | extends `CatalogService`: composes it with the Nexus instances that poll it |
| `Publishing` | detailed write side: studio and review handlers in flight, all seven tables; instantiates `CatalogSource` with a refinement mapping |
| `Transactions` | extends `Publishing`: its commits as statements under row locks; implements it |
| `Import` | the import tool between two registries; instantiates `CatalogSource` with a refinement mapping |
| `MCCatalogService`, `MCSelection`, `MCPolling`, `MCPublishing`, `MCTransactions`, `MCImport` | small instances |
| `CatalogDocumentProofs` | lemmas: the tables stay well-formed, the chosen document is |
| `CatalogServiceProofs` | types, signatures and cache bound of the catalogue service |
| `CacheCoherenceProofs` | coherence of both caches and of the answers |
| `PollingProofs` | the composition implements the service; every answer was true |
| `SelectionProofs` | the loop of `build` computes what `CatalogDocument` defines |
| `PublishingProofs` | types, refinement, ownership and history of the write side |
| `TransactionsProofs` | the statements implement the commits; which deadlocks there are |
| `ImportProofs` | history, refinement and ownership after an import |

Two chains of refinement meet in `CatalogSource`: `Transactions` implements `Publishing`
implements `CatalogSource`, and `Import` implements it too; what `CatalogService`
guarantees rests on nothing else.

### CatalogSource and CatalogDocument

`app`, `trans`, `published`, `revision` are what the catalogue query reads. What an
entry says is one text, its translations another; `published[a]` is the set of version
numbers with status `published`. `UpsertApp`, `DecideVersion` and the import tool's
transaction (`Import`: rows that are not there yet, any of them) each move the revision.
The tables may hold anything at the start.

`Catalogue(k, G)` is the document for key `k` (channel and platform version) and granted
apps `G`. `Offers` says which version of which app is on a key's channel and passes
`platformAllows` there: both are immutable columns of a version. Here `Versions` are
numbers in semver order, so two versions of equal precedence (build metadata) are one;
`Selection` tells them apart. `generated_at` is not part of the document here.

### CatalogService

One request is a record in `req` that passes through `Arrive` (`PlatformByToken`),
`ReadGrants` (`GrantedAppIDs`, `TouchPlatform`), `ReadRevision`, `LoadSnapshot`,
`BuildRows`, `ReadTexts` once per listed app, `SaveSnapshot`, `PruneSnapshots`,
`Answer`; `Abort` is the 500 of any statement. One action is one statement
(`TouchPlatform`, whose column nothing else reads, is joined to the query before it).
Operators are records in `op`: `GrantCheck`, `Grant`, `Revoke`, `SetPlatformEnabled`,
then `DiscardPrivateSnapshots`; `CreatePlatform` and `RebuildSnapshots` are single
statements. `Restart` clears all handlers and picks a key or none.

Abstractions: a document is the rows and translations read for it; signing is the key.
The prune is one atomic statement; under READ COMMITTED its subselect is older than the
rows it deletes, so a row saved in between is left out of account. `newer` is the order of
`built_at`, taken as the order of the saves. A token is the platform that holds it.
`Faults` selects the failures of a run. One process runs at a time: a rolling deployment
in which two processes sign with two keys is not modelled.
`everGranted` and `rotated` are history variables.

### Selection

`Query` is the catalogue query of one `build`, `ScanRow` one iteration of its loop (the
`platformAllows` skip, the `IsNewerVersion` skip, `chosen`, `generatedAt`), `Sign` the
rest, `Return` the end or any error. Between them `Edit`, `Decide` and `ImportVersions`
move the tables. `Rank` is semver precedence, so that versions may tie. `stamp` is
`published_at`: a decision takes any time up to now, since `NOW()` is the start of its
transaction; the import tool copies times. `Second` is the number of ticks that RFC 3339
without fractions cannot tell apart. `IsNewerVersion` belongs to the core and is modelled
as "greater precedence", as its use says. Left out: a published version without a
`published_at`, and two publications of one app in the same microsecond (their order
would be the database's choice).

### Polling

Each handler of `CatalogService` serves one instance `r` without a credential. `Poll` is
a new request for one of `KeysOf[r]` (an upgraded instance asks for another platform
version), `Deliver` the answer that arrives, with `etagMatches` deciding between 304 and
document, `CutShort` the answer that does not, and `Commit` a publication. The other
actions are the handler's statements. `since` and `past` are history variables.

### Publishing

A handler is a record in `writer`. `CheckOwner` and `OwnApp` are the reads,
`UpsertApp`, `SubmitVersion` and `DecideVersion` the commits of the transactions,
`Rollback` every way out without a commit (a slug, a handle or another unique column
refused, a 404, a failure). `OwnApp` and `BeginDecision` also fix what `NOW()` will be
(`at`). A transaction's writes appear at its commit; `Transactions` shows that the row
locks give this. `submitter` and `editor` are history: which organisation acted. The
refinement mapping shows `CatalogSource` the visibility and text of an app row and the
numbers whose status is `published`.

### Transactions

`tx[w].todo` is the list of statements that transaction `w` has left
(`UpsertStatements`, `SubmitStatements`, `DecideStatements`); a statement waits while
another transaction holds a row lock that clashes with one it needs (`Locks`, `Clash`),
reads the rows as they are when it has its locks, and keeps its locks and its writes to
itself until `Commit`. `Aborts` is the deferred `Rollback`. `Refuse` is a unique column
or a missing row; `DetectDeadlock` is PostgreSQL's. What PostgreSQL locks is external:
`store_apps.slug` is unique, so an upsert excludes the foreign key checks of
new versions, and a slug that is being given up makes those who want it wait. The texts
of one app are one row: only an upsert of that app writes them, and it already holds the
app's row.

### Import

`source` and `target` are the tables of the two registries as sets of rows, `of` the row
a row refers to. `Read` reads the next table of the source, in the order of the code and
by a query of its own, while `SourceWorks` goes on; `Commit` does everything the run's
one transaction writes: the loop over the publishers (`EnsureTenant`, `EnsureUser`,
`Joins`, the upsert of the profile), the copies with `ON CONFLICT DO NOTHING`, and the
revision. `Rollback` is a dry run or a refused statement (`Accepted` says which are: a
missing referent, a profile whose tenant or handle is another's, an app whose slug is, a
version number that is taken), `Interrupt` the timeout and the crash. Before the first run
the source has any publishers and apps of theirs; both registries register apps and edit
them, slugs included, by `UpsertApp` (`Upserted`).

`roles` are the tenants that have an admin role. Who gives a tenant its roles is the
platform's business: it may do so at any time (`SetUpRoles`), or never, and a tenant that
a run creates has none at first. `ensureAdminMembership` grants the role if it is there
when the run comes to the publisher; a run looks once, after the query of the publishers
(`run.roles`), and one loop is one look at them.

`TargetWorks` and `TargetPublishes` happen between two runs only, which is a restriction:
the tool is run by an administrator at a cutover. Left out: names and the `verified` flag
of a profile (a run writes them over what the target has), and the fallback for a
publisher without a slug.

## 3. Runs

Passing runs (TLC explores every state of the instance, with deadlock checked):

| Run | Instance | Shows |
|---|---|---|
| `coherence` | 2 requests, 2 apps, 2 publications, 2 keys, failing saves and prunes, aborts, restarts | `PublicCacheCoherent`, `AnswerCurrent`: no document is filed or served under a revision it does not describe; `PublicResigned`: nor served under an old key after the rebuild |
| `audience` | 1 request, 1 operator, 2 platforms, 1 publication, failing discards | `TypeOK`, `PrivateCacheCoherent`, `AnswerCurrent`: no document lists a private app its platform was never granted |
| `publishing` | 2 organisations, 2 handlers, 2 versions, 4 timed transactions | `TypeOK`, `ProvenanceReviewed`, `OutcomesRecorded`, `SubmittedByOwner`, `OwnerIsForever`, and the refinement `ImplementsSource` |
| `selection` | 3 versions, 2 of one precedence and 1 for newer platforms, 2 platform versions, 2 transactions | `NewestRunnable`, `GeneratedAtNewest`, `AgreesWithDocument`, `PublishingHidesNothing` |
| `answers` | 2 instances, 2 platform versions, room for 1 document, 1 publication, failing saves, aborts | `AnswerWasTrue`, `CacheBounded`, `LeastRecentDropped` |
| `polling` | 1 instance, 2 keys, 1 publication, every failure, lost answers, restarts | `PublicationArrives` |
| `transactions` | 2 apps that may swap slugs, 2 handlers, 4 transactions | `ImplementsPublishing`, `OnlySlugsDeadlock`, `EveryHandlerReturns` |
| `import` | 1 publisher on each side, 1 owner, 1 tenant with or without the role, 2 apps and 2 slugs in both registries, 1 version on each side, 2 transactions or interruptions from any start with publishers and apps, 3 committed runs or publications | `StatusExplained`, `OwnersCanAct`, `ImplementsSource`, `RunsOnlyAdd`, `EverythingArrives` |

Why the bounds are enough: every race of interest is between one handler and at most
two other commits, or between two handlers over one row, so two handlers, one or two
apps and two publications let each of them happen; each property has a mutant of the
code (a revision read at the save, a lost comparison, a lost WHERE, one cache for all
audiences, a rebuild that spares current rows, an off-by-one, `publisher_id` in the
update, the newest version chosen in SQL, an ETag made of the revision, the revision
computed in Go, a lost `Rollback`, the trail read before the versions, a role granted with
a new membership only, ...) that these
instances refute. `MaxRevision`, `MaxClock` and `MaxWork` bound the number of
transactions, `MaxSnapshots` stands for 64. The import starts from any publishers and apps
of the source, so that two transactions are a submission and its decision, or an app that
gives up its slug and one that takes it. With one handle no publisher is renamed there:
that is in the proofs only, and in none of them for `EverythingArrives`. The proofs of section 4 remove the bounds for
every safety property.

`CacheBounded` is stated for prunes that succeed: a failed one leaves its row until the
next request of the channel prunes. `LeastRecentDropped` holds whatever fails: each prune that
happens brings its channel back to the bound and drops no row newer than one it leaves.

### Fairness

Three runs check liveness, each under the least that makes it true:

- `polling`: strong fairness of an instance's polls, of each statement of its handler and
  of the delivery. A failing statement ends the handler (or is skipped) and the next poll
  starts over, so this says that what is tried again and again does not fail every time.
  Weak fairness of a start with a key after a start without one: an operator who sees the
  503. Nothing is assumed of publications, of the rebuild or of crashes: the property
  speaks of times after which they rest.
- `transactions`: strong fairness of a transaction's next statement, which is that
  PostgreSQL queues those who wait for a row, and weak fairness of its deadlock detector.
  No handler has to start, fail or roll back.
- `import`: weak fairness of the steps of a run and strong fairness of starting a
  run that commits: an administrator runs the tool again. Interruptions are bounded by
  `MaxWork`.

### What the repository says and the code does otherwise

Four runs show it, and `findings` in `PROJECT.json` quotes the lines:

| Run | Property | What happens |
|---|---|---|
| `revocation` | `RevokedIsGone` | a build that read the grants before a revocation saves after the discard; the revoked app is on file again under the current revision, and stays until a publication |
| `registration_race` | `OnlyOwnerEdits` | two publishers register one id; the second's data lands in the first's entry |
| `history_order` | `HistoryEndsInStatus` | the history is ordered by transaction start, the status by commit; the decision that begins first may do so before or after the submission |
| `generated_at` | `OlderLooksOlder` | hiding or yanking the newest publication moves `generated_at` back, so the older document looks newer than the current one |

The following are plain from one or two statements each and have no run.

- A decision does not look at the status a version has (`store.go:749`), so a version in
  review can be yanked, though `store.go:33` says "a published version can be yanked".
- A recognised platform without grants goes on as the anonymous audience, so its
  `last_seen_at` is not set (`public.go:89`), though the migration says it records "when
  the credential was last accepted".
- `DiscardSnapshots` "throws away every cached document" (`store.go:163`) but deletes
  `store_catalog_snapshots` only: a platform's private documents keep the old signature
  after a rotation until the next publication.
- `handleGrant` refuses a grant for a public app because it would say the wrong thing "if
  the app were ever made private" (`platform_handlers.go:136`); making a granted app
  public keeps exactly such a row.
- `SubmitVersion` writes `store_external_registrations`, which the storefront shows
  (`public.go:160`), before any review, though `store.go:760` gives reviewing first as the
  reason to write the app row at publication.
- `ensureAdminMembership` "puts the owner in their tenant with the admin role, so somebody
  can act for the publisher the moment the import finishes" (`main.go:321`, and `:35`). It
  selects the role from the tenant's roles (`main.go:333`): where the tenant has no admin
  role by then, as one that `ensureTenant` has just inserted (`main.go:292` writes the
  tenant's row and nothing else), it grants nothing, and neither fails nor says so. Nothing
  in this repository gives a tenant its roles; once the platform has, another run grants
  them. Hence `OwnersCanAct` promises every owner an account and a membership, and the role
  where the run found it.
- The import tool copies everything "as it stands" (`main.go:37`), and a rerun finishes an
  earlier run: but a version decided in the source between two runs keeps its earlier
  status in the target and gets the later event, since a row that is there is never
  updated; and a publisher renamed in the source moves to another tenant with the next
  run.
- "An interrupted run is finished by running it again" (`main.go:40`), and so is one that
  was refused a row it had read too early; but where the two registries hold one handle,
  one app slug or one version number in different rows (`Clash` in `Import`), every run is
  refused until somebody resolves it. For slugs the source alone is enough: an app that
  was imported is renamed, another takes its slug, and the new row finds the slug taken
  here by the old one, since `ON CONFLICT` names the id only and keeps the old row
  (`main.go:212`).

## 4. Proofs

Every invariant and every safety action property of the passing runs is proved, for
instances of any size. Left to TLC are the three liveness properties
(`PublicationArrives`, `EveryHandlerReturns`, `EverythingArrives`), since the provers
handle neither fairness nor `ENABLED` here, and the four violated properties, which have
counterexamples.

### Assumptions

Version numbers are positive; where a catalogue is built there is a greatest
(`SourceAssumption`). The bounds of a run are natural numbers and `MaxSnapshots` and
`Second` are positive. `Rank` respects the order of the numbers, as semver precedence
does. `None` is no value of a column, of a row or of a document. In `Import`, ids created
in the source while the tool runs are not ids of the target's own rows, which are UUIDs.
Nothing is assumed of the number of apps, handlers, platforms, tenants, publishers or
texts, nor of the failures that happen, with one exception: `CacheStaysBounded` is about
runs in which every save is followed by its prune (`EveryPruneHappens`: no `prune` and no
`restart` among `Faults`), because the property is false otherwise.

### What is proved, and why it is inductive

**Documents** (`CatalogDocumentProofs`). That a listed app has a version needs that a set
of version numbers that is not empty has a greatest member (`GreatestVersion`, from the
well-foundedness of the natural numbers).

**Types** (`TypeCorrect` of each component). `TypeOK` is not inductive: `CatalogService`
needs that an app without a row has no versions or translations (`ForeignKeys`) and that
a handler past its first statement has a key or platform (`Addressed`).

**Coherence** (`PublicCacheIsCoherent`, `PrivateCacheIsCoherent`, `AnswersAreCurrent`).
The invariant `Coherent` follows a document through its life: a handler whose revision is
still the current one has, between two statements of `build`, exactly the rows and the
translations that the tables hold now (`AssemblyCurrent`); what it carries when finished
is a current catalogue (`RequestCoherent`); and so is what is on file
(`SnapshotCoherent`). A publication makes all three vacuous by moving the revision past
every number read: this is where "the revision is read first" and "bumped in the same
commit" are used. `PublicIsResigned` is inductive over the types.

**The cache bound** (`CacheStaysBounded`, `OldestRowsDropped`). `newer` orders the rows of
a channel totally, the rows are finitely many (`OrderInv`), and then the prune, which
keeps the rows with fewer than `MaxSnapshots` newer ones, leaves at most that many. With
every prune happening, a row beyond the bound belongs to a handler between its save and
its prune; each of these is counted once.

**Polling** (`PollingImplementsService`, `PolledServiceCoherent`, `AnswersWereTrue`). With
its clients the service takes no step it would not take alone, so the theorems above hold
while instances poll. `AnswerWasTrue` is stronger than coherence, since it also speaks of
the answers that a publication overtook: for everything on file and in flight there is a
revision since the request arrived at which its rows were true, and one for each
translation (`AllTrue`). A document filed under revision `n` was true at `n` or later, and
a request takes it only if it read `n` itself, after it arrived.

**Selection** (`NewestIsListed`, `GeneratedAtIsNewest`, `LoopComputesDocument`). The
invariant of the loop (`LoopInv`): what is chosen is the best of the rows scanned so far,
of equal precedence the one published first, and `generated_at` is the newest time among
the rows whose version is held. It may be compared with every row taken, replaced ones
included, because the rows of an app come in the order of `published_at`: what replaces
a version was published later. `SelectionInv` adds that the rows of a build are those of
the tables while the revision stands, which makes the result the document of
`CatalogDocument`. `PublishingOnlyAdds` follows from the tables alone.

**Publishing** (`PublishingImplementsSource`, `OwnerNeverChanges`, `OnlyOwnersSubmit`,
`EveryOutcomeIsRecorded`, `ProvenanceIsReviewed`). The commits of `UpsertApp` and
`DecideVersion` are actions of `CatalogSource`; a submission changes nothing it sees (its
number was free and its status is not `published`). No step moves an app; hence what
`ownApp` found stays true until the insert (`SubmittersOwn`). `HistoryInv` joins the two
properties of the trail: the last event is the status, the first a submission, and the
number that an app row names as its provenance has a publication in its trail, which no
later event takes away.

**Transactions** (`TransactionsImplementPublishing`, `StatementsKeepHistory`,
`TransactionsImplementSource`, `DeadlocksAreAboutSlugs`). `TxInv` says that locks of two
transactions on one row do not exclude each other (`LocksExclude`); that what a
transaction wrote under a lock is what it would write if it read the row now (`Kept`),
which is how READ COMMITTED loses no update: nobody else could change the row since; and
that revisions suffice for the transactions in flight (`RoomLeft`, about the bound
`MaxRevision` only). So at its `Commit` a transaction does what the atomic action does,
and the composition with the proof above gives `CatalogSource`. The deadlock theorem is an
argument by levels: statements take rows in the order version, app, texts, revision
(`Level`), a transaction waits for the row of its next statement and holds rows of lower
levels only (`LocksInOrder`), so along a cycle of waits levels would have to rise, unless
somebody waits for a slug, which is locked at a level below the one it is waited for at.
`RowLevel` has the exception in it.

**Import** (`EveryStatusIsExplained`, `RunsTakeNothing`, `ImportImplementsSource`,
`EveryOwnerCanAct`). `ImportInv` says of the source, the target and what a run has read
that ids are keys, and of all three that each status has its event, for the rows read so
far against what the source has now: the versions are read before the events, and an
event is never deleted, so the event of a status read earlier is among the events read
later. That an event's id determines it makes `ON CONFLICT DO NOTHING` harmless.
`EveryOwnerCanAct` is about the loop over the publishers, which `Publishers` writes as a
recursive function of the number of turns. That there is such a function is proved from
the well-foundedness of the natural numbers (there is no least number of turns at which it
is stuck, `LoopEnds`). The loop starts from profiles whose owners may be unable to
act: their tenant got its roles after the last run. `TurnInv` says that after the k-th turn
every such profile is one whose turn is to come (`Waiting`); each turn keeps it, by the same
argument so do all of them, and after the last nobody waits. That the loop comes to every
profile with an owner is `OwnersInv`: such profiles came from the source, the source
deletes none, and what a run has read of it includes them. Nothing is assumed of when
tenants get their roles.

### Two chains

`Transactions` implements `Publishing` implements `CatalogSource`, and `Import` implements
`CatalogSource`; `Polling` implements `CatalogService`, whose tables change by the actions
of `CatalogSource` and in no other way. The two chains share that module; no theorem
states them in one formula. Together they say: whatever the statements of studio, review
and import do under PostgreSQL's locks, what a polling instance is given under the current
revision is the catalogue that the tables hold.

## 5. Not modelled

The bytes of the document and Ed25519 (the golden test), routing and its gates
(`route_policy_test.go`), bundled data, deployment files, the platform itself.
`created_at`'s default `NOW()`, the unique indexes and the foreign keys belong to the
core's migrations and are taken from how this code uses them.

The storefront (`handleListApps`, `handleGetApp`, `handleListVersions`,
`handleChronicle`), `AppBySlug`, the review queue and the state endpoint are reads of the
moment that keep nothing and that nothing else reads. Two of them mix what was written at
different times: `handleGetApp` shows the manifest of the newest published version of any
channel next to a `latest_version` of the stable channel, and the external registration
of the latest submission. Neither contradicts a line of the repository, and both are
plain from the query. The reserved ids, locales, categories and the rest of the input
checks are decided by one request's own data.

## 6. Plan

Done: the catalogue service, audiences, keys, the write side down to its statements, the
selection loop, the polling instances and the import tool, with the refinements between
them.

Proved: every safety property the runs check, and the refinements.

What remains worth doing:

1. State the two chains in one formula: the service over the write side's statements.
2. Shorter proofs where the steps of `TransactionsProofs` and `ImportProofs` differ only
   in the statement or the table.
3. The rolling deployment with two processes and two keys, should it be supported one day:
   `signingKey` becomes a function of the process.
