# Verification of stift

TLA+ models of [stift](../src/README.md): a server that keeps the versioned
configuration ("units": skills, commands, subagents), files and session
archives of an organisation, a public registry of published skills on the same
server, a command line and daemon that keep several machines in step with it,
and a web app.  The modules are checked with TLC on small instances, and what matters most
is proved with TLAPS for every size.

## The system

| Part | Source (`src/`) | State it keeps | Operations that change it | What must hold | Module |
|---|---|---|---|---|---|
| Unit store | `apps/server/src/storage/store.ts` (bundles), `routes/bundles.ts` | Postgres `bundles` (head, owner), `bundle_versions` | PUT and DELETE `/v1/bundles/...` | no accepted push overwrites a version it had not seen; every version downloadable; owner kept; skill limit | `BundleStore` |
| Blob store | `storage/blobs.ts`, `routes/blobs.ts` | S3 objects by digest, Postgres `blobs` | PUT `/v1/blobs/{sha}` | a row is backed by the right object, through crashes | `BlobStore` |
| Published skills | `storage/published.ts`, `routes/published.ts` | `published_skills`, `published_versions` | publish, unpublish, restore | a ref keeps its files; `latest` is the newest visible; no duplicates | `Published` |
| Org slug | `auth/orgs.ts`, `auth/bootstrap.ts`, `routes/org.ts` | `orgs.slug` | PATCH `/v1/org`, start with `STIFT_ORG_SLUG` | a slug with published skills does not move | `Published` |
| Public registry | `storage/registry.ts`, `routes/registry.ts` | none | none; resolve and search read | refs resolve as promised | `PublicRegistry` (promise) |
| Session store | `storage/store.ts` (sessions), `routes/sessions.ts` | `sessions`, S3 archives | POST, DELETE `/v1/sessions` | a row's archive is there and is the one the row describes; a session is updated in place; session limit | `SessionStore` |
| Members and tokens | `auth/members.ts`, `auth/tokens.ts`, `auth/jwt.ts`, `routes/members.ts`, `routes/tokens.ts` | `users`, `memberships`, `tokens`, a cache of roles | add, role, remove, mint, revoke, provision | removed members lose access; an admin remains; names unique; seats | `Members` |
| Org limits | `limits.ts`, `routes/service.ts` | `orgs.max_*` | PUT `/v1/service/.../limits` | creates respect the limit in force | the four stores above |
| Permissions | `auth/permissions.ts` | none | | | `Can` in `BundleStore`, `IsAdmin` in `Members` |
| Unit sync | `cli/internal/skillsync/skillsync.go`, `cli/internal/bundle`, `cli/internal/daemon/skills.go`, `cli/cmd_skills.go`, the unit's page of `apps/web` | a machine's files, the unit's entry in `state.json`, the debouncer | push, pull, a daemon's pass, roll back, save, delete | local edits are never lost; remote changes are not undone unseen | `SkillSync` |
| Daemon | `cli/internal/daemon`, `cli/engine/archive` | `sync-state.json`, session files | a pass every interval; link, push, pull beside it | sessions pushed and restored in the end, nothing overwritten | `SessionSync` |
| Installs | `cli/internal/skillsync/install.go`, the mirror and links of `skillsync.go` | `state.json` (installs), mirror, links, copies | install, upgrade, subscribe, unsubscribe | a directory has one owner, is as recorded, and keeps what the user wrote | `Installs` |
| Web app | `apps/web/src`: `api`, `auth`, `screens`, `components`, `router.tsx` | `localStorage`, the provider's session, the query cache, requests and writes under way | login, sign-out, screens, queries, writes, another tab, a change of session | nothing of another's is shown; a screen does not go back behind a write it made | `WebApp` |

The command line, the daemon and the web app call the server over HTTP; a push first uploads the
files the server lacks (`BlobStore`), then puts a manifest that names them
(`BundleStore`).  Publishing copies the manifest of an org-scope unit
(`Published`), so the unit may change or go afterwards.  The server is one
Node process whose handlers interleave at every `await`; between them stand
only Postgres row locks, unique keys and the order of the calls.  On a machine
the daemon, the commands and the user share the disk and two state files, and
nothing locks anything: each process loads a state file when it starts and
saves all it has loaded.  The client modules therefore take the server's calls
as single steps, which is what the server modules show, and interleave
everything on the machine.  A browser tab has one thread, but its requests are
answered in any order, and tabs share `localStorage` and the provider's session
with nothing that tells one of the other (`WebApp`).

Hard behaviours: handlers interleaving between two statements (all server
modules); row locks that cover some of a handler's reads and not others
(`BundleStore`, `Published`, `Members`); a bounded pool of connections
(`BundleStore`); two stores that cannot be written together and a crash between
them (`BlobStore`, `SessionStore`); a slug that names an org while it is not its
identity (`Published`); a cache that answers for a row that is gone (`Members`);
files changing under a sync that reads them one at a time, syncs cut short, and
state files saved over each other (`SkillSync`, `SessionSync`, `Installs`);
answers to requests of a credential, or a time, that has passed (`WebApp`).  The
full list with lines is `hazards` in `PROJECT.json`.

## Modules

| Module | What it is |
|---|---|
| `VersionedUnits` | Abstract: a unit is a history of versions that is extended, created within the limit, and removed in single steps. |
| `BundleStore` | The handlers of `/v1/bundles`, statement by statement; `AbsSpec` is `VersionedUnits` through the histories. |
| `BlobStore` | The upload of a blob, call by call, with failures and crashes. |
| `StoreProofs` | The proofs about `BundleStore` and `BlobStore`, and about the two together: their names are disjoint, so one module extends both. |
| `SessionStore`, `SessionStoreProofs` | Push and delete of a session: a row and an object, with rollbacks between the two. |
| `PublicRegistry` | Abstract: what a ref `@slug/name` shows. |
| `Published`, `PublishedProofs` | publish, unpublish, restore and moves of orgs; `AbsSpec` is `PublicRegistry` through the slugs. |
| `Members`, `MembersProofs` | Members, roles, tokens and provisioning of one org, statement by statement. |
| `SkillSync`, `SkillSyncProofs` | One unit on the machines that sync it, against the unit's history on the server. |
| `SessionSync`, `SessionSyncProofs` | One agent session on the machines whose daemons push and restore it. |
| `Installs`, `InstallsProofs` | One unit's directory in an agent, which a subscription or a copy of some source has. |
| `WebApp`, `WebAppProofs` | One tab of the web app: credential, screen, query cache, requests and writes. |
| `MC*` | Instances for TLC; one `.cfg` for each run. |

### How the server modules correspond to the code

A member of `Requests` (`Uploads` in `BlobStore`) is one run of a handler.
`pc[r]` (`at[u]`) says where it is, `req[r]` (`put[u]`) what the client asked for, and the remaining
per-request variables what it has read and will use later.  A step is one
database statement or object-store call with the code up to the next one; the
code in between touches nothing that is shared.  Answers are the control points
`accepted`, `refused` and `stored`; which of the error statuses a refusal has
is not distinguished.

Postgres runs at READ COMMITTED.  What a transaction writes is applied by its
last step, because nobody else sees it before, with two exceptions that are
modelled: rows another transaction has inserted and not committed make an
insert of the same key wait (`Upsert` in `BundleStore`), and a transaction sees
its own writes (`Marked` in `Published`).  Row locks are derived from the
control points (`Holds`, `OrgLocked`, `SkillLocked`, `OrgFree` in `Members`).
Primary keys, unique indexes, foreign keys, cascades and `SET NULL` are guards
and effects of the steps that meet them.  `Abort` is a lost connection or a
restart at any point.

`BundleStore`: `StartPut` and `StartDelete` include the permission check
(`denyWrite`), which is a statement of its own.  `CheckBlobs` is the check
before the transaction, `Recheck` the one under the lock, on another
connection.  `versions` carry two fields the database has not, `by` and
`forced`: whose request wrote the version and whether it was forced.
`BlobStore`: a file is identified with its digest.  `Promote` and `Index` may
fail or not; a crash loses what was in flight and keeps what was written.
`rows` are the rows of `blobs` and `Indexed` their digests, which is the `index`
that `BundleStore` reads; its `IndexBlob` is `BlobStore`'s last step.
`SessionStore`: `put` promotes the archive while its transaction is open, so a
rollback after `Promote` leaves a row and an object of two pushes; `torn` is
history and names the sessions this has happened to.  `Cut` ends a transaction
while the object store is still copying (a lost connection or a restart), and
`Land` is the copy arriving afterwards, beside whoever has the row by then.
`newId()` is random, so a session has the id of the request that creates it.
Who pushes is left out: whether `can()` refuses a delete is a choice.
`Published`: the source manifest is fetched before the transaction, so it is
any file list at all.  `promised` is history: the refs ever published.
`Members`: `who[r]` is `c.var.identity`, the caller and role as they were when
the request was authenticated, which nothing reads again.  Ids and secrets are
random, so what is created is something no row and no request refers to
(`Fresh`, `Unused`); users of an identity provider have their subject as id and
come back with the next JWT.  `cache` is the authenticator's memory of roles,
and `Expire` the minute passing, which may happen at any time.  `disturbed` is
history: requests since whose reads an admin stopped being one, or the name
they are adding was added.

### How the client modules correspond to the code

A process is a command or a daemon's pass.  `job[q]` holds what it has read:
the state file as loaded (`mem`), what it built from disk, the server's
version, and while a manifest is applied the paths still to be looked at
(`todo`), the one being written (`at`) and what was found there (`found`).
A step is one call to the server, one look at the disk, one file replaced or
removed, or one save of a state file.  `bundle.Apply` is `Check` and `Write`
path by path, so that edits, other processes and crashes come between two
paths, and between the comparison of a file and its replacement.  `Fail` is a
call or file operation that fails and the end of a process, at any point.
Contents are values; a digest is the content it is of.

`SkillSync`: the unit's history on the server is `server`, with `life` counting
how often it was deleted.  A pass is one run of `skillsPass` as far as it is
about the unit: `List`, `Build` (with `DecidePull`), then either the
application of a version, or a removal, or the push through `Consider` (the
debouncer), `Upload`, `Put` and `Record`.  `SaveOther` is the save of the state
file on behalf of another unit, with this unit's entry as it was when the file
was loaded.  `Open`, `Save` and `RollBack` are the unit's page in the browser
and `stift skills rollback`; both publish on top of the head they have read.
History: `edited`, the paths the user has changed since they were in sync;
`upset`, the machines where a sync was cut short, ran beside another one, or
recorded files that it had just removed; `ever`, what the server has ever had.

`SessionSync`: contents are numbered in the order the agent writes them, and
the content a cut-off write leaves is the negative of the whole one.  The key
of a session has the host in it, so every machine has a row of its own, and a
restored session is pushed under a second row.  A daemon's `mem` lasts from one
pass to the next and is saved at the end of each; commands load it, and save it
like `stift link` does.  `own` is history: what the agent of a machine wrote.
`forgone` is history too: machines whose row or files were deleted, where two
processes were pushing at once, or where an unpack wrote over a file.  `Marked`
are the ids in `restored` of the daemon, the commands and the state file.

`Installs`: `place` is what the agent's directory has at the unit's path,
`files` what is in it if it is a directory, and `mirror` the files of the
subscription, which paths lead to while the place is a link (`Disk`).  Versions
of a source never change (`RefsKept` for the registry, and the histories of
`BundleStore`), so `Catalog` is a constant; `Mine` are contents only the user
writes, which is how a property can tell the user's files from copies.

### How the web app corresponds to the code

`stored` is the token in `localStorage`, `session` the provider's session (the
user and org `session()` names), and `Who` the one `bearer()` speaks for.
`PageOf` is the route table: what the queries of each screen and of the
components in it are, and which writes they offer.  `WriteOf` says of each
mutation what has to be loaded before its button is there, and what its
`onSuccess` removes and invalidates.  `cache[k]` is the answer under a query
key: whose it is, of which version of the server, and whether it was
invalidated; a version is the number of writes made so far, so that "older" has
a meaning.  `fetch[k]` is the request under way: `Ask` reads the bearer and
sends it, `Serve` is the server's reading of what it has, and the answer is
taken up by `Deliver` any time later.  A refusal (`Refused`, `LeftAlone`), a lost
answer (`Fail`) or a second try (`Retry`) can come instead of it.  What TanStack
Query does is modelled from how `api/` uses it: a query that is mounted runs
unless it is running or fresh (`Open`); an invalidation marks the answer and
asks again at once for what is shown, forgetting a request under way if there
was an answer before (`AskedAgain`); an answer nothing shows is forgotten
(`Collect`).  Other filters of a list, other files and other units are other
keys of the same kind, and are not told apart.

`Elsewhere` is another tab that logs in or out: `localStorage` changes and
nothing tells this tab.  `SessionChange` has the two cases of `useAuth`: from one
session to another one the queries are reset; to or from none they are kept.
History: `inherited`, set while the tab has gone over from one credential to
another's and kept something of the first (cases of that are listed below), until
it is cleared; `acked[k]`, the last acknowledged write of the tab that
invalidated `k` when no request that could bring something older was left.

A definition that stands just before another one with the same parameters and
is used nowhere else (`NoRowLock` before `RowFree`, `StaleIfAhead` before
`Stale`, `KeepsBase` before `Left`...) is that one with a plausible mistake in
it.  The mutants in `PROJECT.json` put it in the other's place; every property
that is listed there fails on its mutant, so none of them holds by the shape of
the model.

## Runs

| Run | Instance | What it shows |
|---|---|---|
| `MCBundleStore_units` | 2 units (1 of a user, there without owner or not at all, and 1 org-scope, not there), an admin and a member, 1 digest, limits 1 and none, 2 requests, 3 connections | `IInv`, `NoLostUpdate`, `ManifestsStored`, `OwnerKept`, `SkillLimitHeld`, `EveryRequestAnswered`, and that the handlers implement `VersionedUnits` |
| `MCBundleStore_pool` | 2 units, 2 requests, 2 connections | violated: every request waits for a second connection |
| `MCBlobStore_store` | 3 files, two of one size and one too large, 2 uploads, a limit of 0 or 1 bytes | `BlobIInv`, `IndexSound`, `OvershootBounded` |
| `MCPublished_registry` | 2 orgs, 3 slugs, 1 name, 2 source units, 2 file lists, 3 requests | `IInv`, `RefsKept`, `LatestNewest`, and that the handlers implement `PublicRegistry` |
| `MCSessionStore_store` | 2 sessions, 3 archives, limits 1 and none, 3 requests | `IInv`, `Described`, `UpdatedInPlace`, `SessionLimitHeld`, `EveryRequestAnswered` |
| `MCSessionStore_unchanged` | 1 session, 2 archives, 3 requests | violated: `UnchangedIsStored` |
| `MCMembers_org` | 3 users, one of them a provider's, 2 names, 2 tokens, seat limits 2 and none, 2 requests at a time | `IInv`, `TokensOfMembers`, `LastAdminKept`, `SeatLimitHeld`, `NamesDistinct` |
| `MCSkillSync_sync` | 1 machine with a daemon and a command, 1 page, 2 paths, 2 contents, both scopes | `IInv`, `EditsKept`, `OthersKept`, `ConflictsEarned` |
| `MCSkillSync_removed` | a daemon and a page, user scope | violated: `EntryWasOnDisk` |
| `MCSessionSync_daemon` | 2 machines with daemons, 1 command, 1 file | `IInv`, `RestoredThere`, `LocalKept`, `EditsReachServer`, `SessionsArrive` |
| `MCInstalls_copies` | 2 processes on 1 machine, 2 sources of 2 versions, 2 paths, 3 contents of which 1 is the user's | `IInv`, `CopyAsRecorded`, `LinksTracked`, `UserFilesKept` |
| `MCWebApp_tab` | a token of one user, sessions of two, the identity and the members, 3 screens and the login, 1 write by a button, 1 write in all | `IInv`, `CacheOwned`, `OwnWritesShown` |

**Bounds.**  On the server the races are between two handlers, or between two
and a third that changes what they read (a delete between two pushes; a publish
between two unpublishes), so three requests show them; in `BundleStore` what
comes between is also done by `IndexBlob`, `SetLimit`, `RemoveUser` and `Abort`,
so two requests do, and the theorems are about any number.  A unit that is
there from the start, without an owner, stands for a push before; where it is
not there either, the two requests may create two units at once, with room for
one (`SkillLimitHeld`).  Requests of
`BundleStore`, `Published` and `SessionStore` serve once, which bounds version
numbers and histories by the number of requests; uploads and the requests of
`Members` are slots that serve for ever, since blobs are bounded by the digests
and rows by the users, names and tokens.  One digest is enough to tell stored
from missing; three files, two of one size, tell a wrong size from a wrong
digest, and three archives let two pushes of one session differ from each other
and from what is stored.  Parents 0 and 1 are, beside the heads that occur, a
right and a stale one.

On the client `MaxActs` (3) bounds what the users do: edits, saves and
commands; a daemon's passes are not bounded.  Three are enough for a version
from elsewhere, an edit, and a command or second version that meets it.
`MaxVersion` (2) and `MaxLives` (1) let a unit be published, changed, deleted
and published again under a number that was used before.  Two paths separate
what has been applied from what has not, and what was edited from what was not.
The other machines of a unit are played by the page, which publishes over any
head it has read, so one machine with two processes is enough for TLC; the
proofs are about any number.  `SessionSync` needs two machines for TLC, since a
restored session is another machine's, and `MaxFails` (1) is the one failure or
restart a behaviour may have.  Its liveness properties hold from then on, so
failures that end are what is covered.

`WebApp` has two keys for TLC, since what distinguishes keys is whether they age
and are tried again (`members`) or not (`whoami`), and one write in all, which
tells older from newer.  Its writes there are those of the members' page; the
entry of the org, which a write replaces (`Renamed`), and those a write removes
are covered by the proofs only, as are several writes at once.

Requests, uploads, processes, paths and contents that are interchangeable are
symmetric where only safety is checked.  `CHECK_DEADLOCK FALSE` stands where
every request has been served, or the users have done all they may, and nothing
is left to do.

**Fairness.**  A handler that can run its next statement eventually does
(`Progress` in `BundleStore` and `SessionStore`): Node
resumes every resolved promise and Postgres grants a free lock.  Weak fairness
for the whole handler suffices, since a lock that is waited for is released by a
handler that is itself fair.  `MCBundleStore_units` has one connection more than
requests, without which `MCBundleStore_pool` shows that they need not end.  In
`SessionSync` the daemons are fair (`Run(h)`): the ticker of `daemon.go` starts a
pass every interval and a pass goes on to its end.  No fairness is assumed of
clients, users, commands, lost connections, failures or crashes.  Whether the
body of an upload ends is up to the client and to Node's streams, so of
`BlobStore`, where nothing waits for anything else, only safety is checked;
`Stage` has the body arrive whole, be refused or be lost.  `WebApp` has safety
properties only.

## Proofs

TLAPS proves these for all values of the constants that satisfy the named
assumptions (`ASSUME` in the modules), none of which is more than a type, "this
null is not a value", or, in `Installs`, that no published version holds what
only a user writes.

| Module | Theorem | Statement |
|---|---|---|
| `StoreProofs`, `BundleStore` | `Invariance` | `Spec => []IInv` |
| | `TypeCorrect`, `LostUpdateFree`, `ManifestsAlwaysStored` | `TypeOK`, `NoLostUpdate`, `ManifestsStored` |
| | `SkillLimitSafe`, `OwnerSafe` | the action properties `SkillLimitHeld` and `OwnerKept` |
| | `Refinement` | `Spec` implements `VersionedUnits` |
| `StoreProofs`, `BlobStore` | `BlobInvariance`, `IndexAlwaysSound`, `AcknowledgedIsStored` | `BlobIInv`, `IndexSound`, `AckedStored` |
| | `OvershootAlwaysBounded` | `OvershootBounded` |
| `StoreProofs`, both | `EveryVersionDownloadable` | `Spec /\ BlobSpec /\ []SharedIndex => []VersionsDownloadable` |
| `SessionStoreProofs` | `Invariance` | `Spec => []IInv` |
| | `RowsAlwaysBacked`, `AlwaysDescribed` | its parts `RowsBacked` and `Described` |
| | `AlwaysInPlace`, `SessionLimitSafe` | the action properties `UpdatedInPlace` and `SessionLimitHeld` |
| `PublishedProofs` | `Invariance` | `Spec => []IInv` |
| | `RefsAlwaysKept`, `LatestAlwaysNewest`, `NeverDuplicated`, `DefaultNeverPublished` | its parts `RefsKept`, `LatestNewest`, `NoDuplicates`, `DefaultUnpublished` |
| | `Refinement` | `Spec` implements `PublicRegistry` |
| `MembersProofs` | `Invariance`, `MembersTokens` | `IInv`, `TokensOfMembers` |
| | `LastAdmin`, `SeatLimit`, `DistinctNames` | the action properties `LastAdminKept`, `SeatLimitHeld`, `NamesDistinct` |
| `SkillSyncProofs` | `Invariance` | `Spec => []IInv` |
| | `EditsSafe`, `OthersSafe`, `ConflictsOfEdits` | the action properties `EditsKept`, `OthersKept`, `ConflictsEarned` |
| | `Refinement` | `Spec` implements `VersionedUnits`, with the one unit |
| `SessionSyncProofs` | `Invariance`, `Served`, `MarkedIsThere` | `IInv`, and its parts `PushedIsServed` and `RestoredThere` |
| | `LiveFilesKept` | the action property `LocalKept` |
| `InstallsProofs` | `Invariance`, `CopiesAsRecorded`, `TrackedLinks` | `IInv`, `CopyAsRecorded`, `LinksTracked` |
| | `UsersFiles` | the action property `UserFilesKept` |
| `WebAppProofs` | `Invariance`, `CacheAlwaysOwned`, `OwnWritesAlwaysShown` | `IInv`, `CacheOwned`, `OwnWritesShown` |

**Arguments.**  None of the properties is inductive.  In `BundleStore` a push
commits on what it read, so the invariant has to say that what it read is still
so: two requests never hold the same row (`LocksExclusive`); a request that
holds a row has the row's committed head and owner, or an insert of its own
beside which there is no committed row (`RowsFresh`); and each check it has
passed still holds (`ChecksHold`) - the blobs because none is ever removed, the
parent because the head is locked, the limit because the org row is.  Then
`Commit` appends version HEAD+1 with parent HEAD, which is `Extend` or `Create`
of `VersionedUnits`, and every other step leaves the histories alone.
`Published` has the same shape with two locks.  A move of an org holds the
org's row from its count of published skills to its commit, and a publish holds
it from its reading the slug to its commit, so each excludes the other; the
seeded slug, which a restart moves without counting, has no published skills
because publish refuses it under the lock (`DefaultUnpublished`).  The
refinement rests on `SlugsUnique`: a ref shows the skill of exactly one org or
none, and moves are invisible because only orgs without published skills move.
In `BlobStore` there are no locks; that a key never holds another file's
content (`ContentAddressed`) is what makes overwriting harmless.

How far uploads that run at once may exceed the storage limit is a statement
about a sum, which `BlobStore` writes as the size of a set (`Total`: a member x
of size n is n pairs <<x, i>>), so that the facts needed of it are facts about
cardinalities: adding a member adds its size (`TotalAdd`), members of at most m
bytes are m times as many at most (`TotalBound`), and a set of fewer or smaller
members has a smaller total (`TotalMonotone`).  `OvershootBounded` bounds what is
stored together with what is admitted and still to come.  It is inductive beside
`BlobIInv`: an upload that is admitted has compared what is stored with its
limit, beside which there are at most the other uploads' files of `MaxBlob` each;
when it is indexed its size passes from one side of the sum to the other, and
everything else only takes from it.

`EveryVersionDownloadable` joins the two modules: under one index
(`SharedIndex`) `ManifestsStored` says that what a version lists is indexed, and
`BlobIInv` that what is indexed is in the object store unaltered.  Neither
module says it alone, and no lock is held from the upload to the push.

In `SessionStore` the invariant has to join the two stores: a push that has
promoted still holds the row it found (`RowsFresh`), and its archive is in
place unless a copy that outlived its transaction landed on it
(`PromotedStored`); the id of a row is that of the push that created it
(`IdsOwn`), so no two sessions share an object and a delete removes the object
of no row (`UnlinkedGone`).

In `Members` only the adding of a member is under the org's row, and its lock
keeps the seat it has counted (`SeatHeld`, `OneSeated`).  Everything else is
read before and not again, so the invariant says what is still true of it
unless somebody was disturbed: the caller of a request is an admin
(`CallersAdmin`), the name it found free is free (`NamesFree`).  `disturbed` is
exactly what the code leaves open, and the theorems name it.  A token belongs to
a member because its row and the membership are inserted and removed under the
same foreign key (`RowsReferenced`, `UsersAreMembers`).

On a machine nothing is locked, so the invariants have two halves.  What holds
always is about values: everything a state file, a job or a base manifest has
was published (`EntriesPublished`, `RecordsPublished`), and a file about to be
replaced was found to be Absent, of that base, or given up with `--force`
(`JobsSound`); this is what keeps edits, whatever fails or overlaps.  What holds
of a machine that is not `upset` is about the whole: one process at a time has
it (`OneAtATime`, `AloneSound`), it holds what is saved, and between two syncs
what is on disk is what is recorded, but for the user's edits (`RecordsTrue`);
while a manifest is applied, the paths still to do are as recorded and the
others as the version has them (`JobsTrue`).  In `SkillSync` "recorded" means
that the server has it under that number, which a deletion ends; `IsVersion`
says so for one life of the unit.  `OthersSafe` follows at `Put`: the parent is
the head, so what was built differs from the head by edits only.

In `SessionSync` the push pass reads the disk twice, for the fingerprint and for
the archive, and the agent writes meanwhile.  What is remembered is the first
reading, so it may be taken for pushed only while the disk still is as it was
then; `PackedSound` says that a file that has changed since it was packed is
neither as that reading nor as anything else remembered has it, because contents
are never written again (`Grown`, `Written`) and files that were seen stay
(`SeenThere`).  So where the disk is as remembered, the archive is what is on
disk, and `PushedIsServed` holds after the push.  A second process that packs for
the same machine breaks this, and an unpack that writes over a file may; both
are `forgone`.  `LocalKept` needs where the agent's contents can be: a file that
is missing, or that an unpack has found missing, has none of the contents the
agent wrote before, anywhere (`OwnSound`).

A machine marks the id of a row as restored only at the end of the archive, and
what it has marked it never restores again, so `RestoredThere` has to follow from
what an unpack has been through: its archive has the file by which a session is
detected, because every row has it (`MainThere`: no push packs less than what was
detected), and what it no longer has to do is on disk, written or skipped because
it was there (`UnpackedThere`).  Marks move between the daemon, the commands and
the state file, each of which may put an older set back; none of them brings a
mark that was nowhere on the machine, and files go only by the user's hand
(`forgone`).  That part of the invariant is proved on top of the rest (`Core` and
`Arrived` in `SessionSyncProofs`).

In `WebApp` the two properties are about what is shown, and become inductive
when they are also said of what is still to come.  `OneSpeaks` says that
everything in the tab - answers, requests, the login form's own request, a
rename under way, whose answer is put into the cache - is of the one who speaks;
every step by which another comes to speak either clears the queries, and then
only what it does not clear can be another's (`Loose`), or sets `inherited` when
something is kept (`SpeaksNext`, `SpeaksCleared`).  `Current` says that an answer
on its way is not older than what was acknowledged: a request that is sent after
the write is answered after it, and one sent before is gone for every key that
`acked` is raised for, because an invalidation forgets it or, where it does not
(a first answer still to come, a key nothing shows), `Settled` does not hold.

**Only model-checked**: the liveness properties, since TLAPS does not reason
about `ENABLED`.  Every invariant and every action property of the runs is
stated by a theorem.

## Where code and documentation differ

Shown by a run:

1. `putBundle` queries on a second connection from inside its transaction
   (`store.ts:366`).  With as many such transactions as the pool has
   connections nobody is ever answered (`MCBundleStore_pool`).
2. `put` compares the digest of a pushed archive with the row's
   (`store.ts:171`).  After a push that was rolled back behind its promotion
   the object is another one; a push of the archive the row describes is then
   answered `unchanged`, which `README.md:133` calls a no-op on what is there,
   and the other archive stays (`MCSessionStore_unchanged`).
3. A pass that removes a unit which is gone from the server goes on to push the
   manifest it had built before the removal (`skills.go:153`), and records files
   that are no longer on disk (`MCSkillSync_removed`); `bundle/state.go:13` says
   an entry is what "was on disk right after that sync".

Met while modelling; the models have the behaviour, and where a property is
named it says what still holds:

4. `denyWrite` reads the owner before the transaction (`routes/bundles.ts:59`),
   so a member may write a user-scope unit that became another's meanwhile,
   which the table at `permissions.ts:21` says they may not.  The ownership does
   not change (`OwnerKept`).
5. `putBlob` compares with the storage limit before the body is read and not
   again (`store.ts:309`); uploads at the same time can take the org over the
   limit that `store.ts:53` says is refused, by at most one largest file for
   each upload beside the first (`OvershootBounded`).
6. Two admins who demote or remove each other at once each count the other, and
   the org has none left, which `README.md:279` says is refused
   (`LastAdminKept` allows this race only).  Likewise two members may be added
   under one name (`NamesDistinct`).
7. A file that an unpack leaves cut short counts as there: the next
   reconciliation skips it and marks the session restored
   (`archive.go:123`), and `daemon/state.go:12` says of the mark that the
   session was written.  So does a file that was there before.  `RestoredThere`
   says what is left of that: the files are there, whole or not; and a version
   that is pushed later under a row that is marked is not restored
   (`SessionsArrive` asks for the files and the mark only).
8. A first install that fails "leaves no trace" (`install.go:156`) only if no
   file was written: `os.Remove` keeps a directory that has one.  And
   `--replace` has removed the link before the checks that may refuse
   (`install.go:119`).
9. A unit that is deleted and pushed again between two passes has a version not
   above the recorded one, and `decidePull` skips it until it is.
   (`OthersKept` excepts heads of a later life.)
10. `stift push` beside the daemon may answer after it and leave the older of
    two archives on the server, until the session changes again (`forgone`).
11. `provider.ts:11` says that a change of `session()` "means every cached
    response belongs to someone else".  `useAuth` resets the queries only between
    two sessions (`auth.ts:73`): when one ends and another begins the identity,
    which never goes stale, stays the first one's.  On a sign-out `logout` clears
    the cache before the provider's session has ended, and what is on the screen
    can be asked for again in between (`inherited`).
12. Another tab that logs in as somebody else changes the token this one sends,
    and this one keeps what it shows (`inherited`).  A 401 for the token before
    drops the one stored since (`auth.ts:118`), and so does a login form whose
    request fails (`auth.ts:142`).
13. `auth.ts:2` and `sessions.ts:2` say that any 401 signs out; those of
    mutations and downloads do not pass through the query cache.
14. A first answer still to come when a write is acknowledged is not asked for
    again, so it may show what was there before the write, as current
    (`acked` is not raised for it).  The answer of a rename replaces the org's
    entry whatever is newer by then (`OwnWritesShown` excepts `org`).
15. A change of one's own role does not refresh the identity, and a token that is
    created does not refresh the members' list, which counts tokens
    (`members.ts:18`, `tokens.ts:19`).

## Not modelled

- Search with its cursor, and the listings: they only read.  A page of a search
  may repeat or miss a skill that moves to the front meanwhile.
- Downloads, whose headers come from the row and whose body from the object.
- Install reports: one upsert each, which no other component reads.
- The creation of orgs, display names, migrations, and the server's wiring.
- Verification of JWTs, validators, frontmatter and argument parsing: functions
  of strings; the inputs of the models are those that pass.
- Which directories are units or sessions (globs and scans), and two saves of a
  state file through one temporary file at the same time.
- The web app's markup, forms, filters and downloads, the website, generated
  clients and type declarations; the background service (pid files and service
  managers).

`PROJECT.json` gives the reason for each component.

## Plan

What is left, in this order: the composition of `SkillSync` with several units
of one state file, in which `SaveOther` is another unit's step; `RegistrySearch`
(paging by `(updated_at, id)` under concurrent publishes) and downloads beside
pushes.
