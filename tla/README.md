# A verification project for mcp-knowledge2

mcp-knowledge2 stores a user's knowledge objects encrypted, shares them with
groups, and offers them over REST and MCP. This directory holds TLA+ models of
its core, the TLC configurations that check them, and TLAPS proofs about them.
Paths below are relative to the repository (`src/storage/...` is the
implementation, `drizzle/migrations/...` the database schema and its row-level
security, `docs/...` the documents).

Three sorts of result:

* **checked** - a property TLC finds true in every state (or behaviour) of a
  small instance;
* **proved** - a theorem TLAPS checks for every value of the constants;
* **found** - a statement of a document or comment that the code does not keep:
  a run that ends in a counterexample, listed under *Findings*.

## 1. The system

One Node process (or several, behind a load balancer) serves requests with
Hono; each operation runs in one or several PostgreSQL transactions at READ
COMMITTED, as a role row-level security (RLS) applies to. Large bodies go to an
S3-like bucket, keys to a KMS, and pg-boss runs cron jobs in the same process.
Nothing outside a transaction is atomic with it: neither the bucket, nor the
KMS, nor the caches, nor the transaction that comes next.

| Component | State it keeps | Operations | What makes it correct |
|---|---|---|---|
| group key hierarchy (`storage/groups.ts`, `group-crypto.ts`) | `groups` (owner, master version, archived), `group_members` (status, role, wrapped master, its version) | createGroup, addMember, removeMember with rotation, transfer, archive | a version label tells the truth about the wrap; removed members do not have the current master; a rotation forgets nobody; an owner can administer |
| shares (`storage/shares.ts`) | `share_grants` (wrapped object key, master version) | createShareWithGroup, revokeShare | a grant holds the object's key and opens with the group's master |
| rewrap worker (`storage/rewrap.ts`) | `rewrap_jobs` | one tick per `POST /internal/rewrap-tick`: take a job, re-wrap it in batches | after a large rotation every grant is under the new master in the end |
| uploads (`storage/uploads.ts`, `crons/sweep.ts`) | `uploads`, blobs `uploads/<id>` | init, presigned PUT, finalize, sweep, purge | one finalize wins; the blob of a finalized upload stays; every upload is settled |
| erasure (`routes/internal.ts`, `crons/sweep.ts`) | `blob_deletion_queue`, blobs `objects/<id>` | erase-user, immediate deletes, weekly job | no live row loses its body; no deleted row's body stays for ever unqueued |
| object store (`storage/objects.ts`, `lazy-migration.ts`) | `objects`, `object_revisions`, blobs | create, update, read, delete, migrate to an own key | the body opens; no acknowledged update is lost |
| ownership moves (`storage/group-ownership-crypto.ts`) | `objects.owner_id`, `owning_group_id` | move to group, move back, transfer | as object store |
| quotas (`quota/check.ts`) | `user_quotas` | charge and release objects and bytes, count embeddings per day | never more stored than charged, never more calls than the cap |
| idempotency (`middleware/idempotency.ts`) | `idempotency_records` | look up, replay, store, hourly cleanup | a replay is the answer of a request that was carried out |
| refs, cascade shares (`storage/refs.ts`) | `object_refs`, `objects.refcount`, `is_subdoc`, cascade rows of `share_grants` | add, remove, share and revoke with the reference, delete unless referenced | no cycle, counts agree with rows, a cascade share has a reference |
| OAuth facade (`auth/oauth_facade/*`) | `oauth_auth_codes`, `oauth_refresh_tokens` | mint and consume a code, rotate a refresh token, revoke a family | a family never forks, a token goes to its client once, a replay ends the family |
| signing keys (`auth/signing_keys.ts`) | `signing_keys`, a cache per process | bootstrap, rotate, sign, publish | verifiers know every key in use; one active key |
| user registry (`users/api.ts`) | `users`, `invites` | login through Google, push from approval2 | one first admin; external ids are final; erased users do not come back |
| request authentication (`auth/on_behalf_of.ts`, `erase_receipt.ts`) | `obo_jti_seen` | verify a token, enter its jti, sweep | a token is accepted once although its jti is forgotten |
| MCP tools (`mcp/register_tools.ts`, `mcp/tools/*`) | none of their own | the operations above, several transactions per call | what a call read still holds when it writes, or the loss is known |
| search and bundles (`search/*`, `storage/refs.ts`, `mcp/tools/memorize.ts`, `skills.ts`) | none of their own | hybrid search, grouping, memo search, object with referenced bodies | no hit is lost, answers are in order, budgets are kept, while others write |
| tags, adapters, rate limit, observability, scripts | see PROJECT.json | | |

Interactions: routes and MCP tools call storage functions; `createShareWithGroup`
joins object store (row lock, lazy migration) and group keys (master, RLS);
erase-user joins object store, queue and bucket; the cron jobs share the bucket
with every request; a create passes idempotency, two quotas and the object store,
each a transaction of its own.

### What is hard here

* **Locks taken by some.** `removeMember`, `transferGroupOwnership` and
  `archiveGroup` lock the `groups` row; `addMember` and `createShareWithGroup`
  read it without a lock. `createShareWithGroup` locks the object row;
  `updateObject` reads it without a lock. Those that read without meet the lock
  later, at the foreign-key check of what they insert, with what they read
  before.
* **RLS decides at the statement, foreign keys after it.** The WITH CHECK of an
  INSERT is evaluated before its foreign key waits for a lock. So the check may
  have passed before a removal or transfer and the row still appears after it.
* **Bucket and database.** Every put comes before the commit, every delete after
  the decision, the key of a body is the same for all its versions, and a
  rollback undoes no put.
* **Retries.** Finalize calls, idempotent requests, cron jobs with pg-boss
  retries, and a crash between any two steps.
* **Several transactions per call.** The tools of MCP read in one transaction and
  write in the next, a search is six statements at READ COMMITTED, a bundle one
  transaction per body, a token request one for the rotation and one for the key.
* **Reads without locks that decide.** Is the user table empty, has the row an
  external id, is there an active key, does the edge close a cycle: each is asked
  first and acted on later.
* **Boundaries.** The last object of a quota, the end of an embedding window with
  requests that read the clock earlier, the sync limit of a rotation.

`PROJECT.json` lists the hazards one by one, each at its line, with the
properties that would notice it, or the reason why none does yet.

## 2. The modules

| Module | Models | EXTENDS / uses |
|---|---|---|
| `GroupKeys` | one group: members, grants, rewrap jobs, requests under way | INSTANCE of `GroupEpochs` |
| `GroupEpochs` | what a group's key management promises, abstractly | |
| `GroupKeysProofs` | 16 lemmas and 9 theorems | `GroupKeys`, `TLAPS` |
| `Uploads` | one upload: row, blob, PUTs, finalize calls, sweep, purge, erase | |
| `Erasure` | one user's bodies: rows, bucket, queue, erase-user, weekly job | |
| `BlobsProofs` | the theorems about uploads and about erasure | `Uploads`, `Erasure`, `TLAPS` |
| `ObjectBody`, `ObjectBodyProofs` | one object's body: row, bucket, revisions, updates, shares and migration | INSTANCE of `VersionedBody` |
| `Creates` | POST /v1/objects by one user: idempotency, quotas, commit | |
| `Refs`, `RefsProofs` | one user's objects: references, counters, cascade shares, the tools that use them | |
| `SigningKeys` | the active signing key of several processes with caches | |
| `Tokens`, `TokensProofs` | the token endpoint: codes, refresh-token families | EXTENDS `SigningKeys` |
| `Users` | the user registry: logins and pushes | |
| `OboTokens`, `OboTokensProofs` | on-behalf-of tokens and erase receipts | EXTENDS `Users` |
| `Lists` | one text object that several calls edit | INSTANCE of `VersionedBody` |
| `WritesProofs` | the theorems about creates and about lists | `Creates`, `Lists`, `TLAPS` |
| `VersionedBody` | what versions and revisions promise of a body, abstractly: compare and swap on a history that only grows | |
| `Catalogue` | what readers see of objects and references, and the writes between two statements | |
| `Search`, `Bundles` | a hybrid search; an object with the bodies it refers to | EXTEND `Catalogue` |
| `Reads`, `ReadsProofs` | one of the two while others write | EXTENDS `Search`, `Bundles` |
| `MC...` | the small sets each run uses | the module of the same name |

Each module is about one group, one upload, one object or one user: rows of
different groups, uploads, objects and users do not touch each other in the
operations modelled, except where the module has several (Erasure, because queue
batches choose among objects; Refs, Reads and OboTokens, because references,
answers and external ids relate several rows). Three compositions are modules:
Tokens joins the endpoint to the keys, OboTokens joins tokens to the registry
whose users they name, Reads joins readers to writers.

### GroupKeys (`storage/groups.ts`, `shares.ts`, `rewrap.ts`)

A master key is identified with the version it was generated for. A row says in
`ver` which version it is *labelled* with and in `key` which master it *really*
holds; the program knows only the label. That the two agree is a property
(`LabelsAreTrue`), not an assumption. AES-GCM has the version in its AAD, so a
wrap opens for its own label only (`UnwrapsAt`).

| Code | Actions |
|---|---|
| createGroup | `Init` |
| addMember: SELECT group; open own row and wrap; INSERT's RLS check; FK and PK check | `AddRead`, `AddWrap`, `AddAdmit`, `AddInsert`, `AddRollback` |
| removeMember (group row FOR UPDATE) | `RemoveMember`, with `RewrapGrantsNow` up to the sync limit and `RewrapGrantsLater` beyond |
| transferGroupOwnership, archiveGroup (FOR UPDATE) | `TransferGroupOwnership`, `ArchiveGroup` |
| createShareWithGroup (object FOR UPDATE, group only read) | `ShareRead`, `ShareWrap`, `ShareAdmit`, `ShareInsert`, `ShareRollback` |
| revokeShare under the policy `grants_self` | `RevokeShare` |
| one tick of the worker | `RewrapTick` |

Operations that hold the group's lock while they change anything are one action,
since no other operation on these rows can come in between; those that do not
are four. `transferGroupOwnership` changes `owner_id` first, so its two role
updates meet `group_members_owner_modify` (migration 0022) as somebody who is no
longer the owner, and change no row: `MayModifyMembers`.

### Uploads (`storage/uploads.ts`, `crons/sweep.ts`)

A blob is a body and how often it was sealed. `finalizeUpload` is load, get, put,
mark (`FinalizeLoad` ... `FinalizeMark`) and may fail after each. A presigned PUT is
checked when it starts and arrives when it likes. `clock` says whether `expires_at`
has passed and whether the purge's extra delay has. The purge is one
transaction around a delete it cannot undo: `PurgeSelect`, `PurgeDelete`,
`PurgeCommit`, `PurgeAborts`.

### Erasure (`routes/internal.ts`, `crons/sweep.ts`, `storage/objects.ts`)

Rows, bucket and queue of one user. `EraseSelect` and `EraseCommit` are the two
statements of `hardDeleteByOwner` (READ COMMITTED: writes may commit between
them); `EraseDelete` and `EraseDequeue` are the immediate pass, `Cron*` the weekly
job with its attempts cap and age cap decided on the row as selected. Writers of
bodies (`CreatePut`, `UpdatePut`, ...) run beside them. An update may shrink a body
to inline; what was in the bucket then stays there. `gaveUp` and `astray` are
history variables: keys the job gave up, and bodies a write left in the bucket
where erase-user does not look for them.

### ObjectBody (`storage/objects.ts`, `lazy-migration.ts`, `shares.ts`, `group-ownership-crypto.ts`)

A ciphertext is a body and the key it was sealed with. The row names a key, a
nonce and a place; `Opens` says whether what is held there fits. `UpdateRead`
remembers the row, `UpdateCommit` uses what was remembered: it waits for the row
lock (`share = Unlocked`) only at the foreign key of `object_revisions`, and the
primary key `(object_id, version)` refuses a version that is there. A share is
`ShareLock`, `MigrateOpen`, `MigratePut`, `ShareCommit`. The moves of an object make
the same migration and end in `ShareFails`: `moveObjectToGroup` always, as the CHECK
constraint of migration 0019 lines 44-55 is still in force (0027 drops one of another
name), `transferObjectOwnership` because row-level security (0028, WITH CHECK) refuses
a row that is no longer the caller's. It lets the transfer through when a grant to
write is left to the caller; that case is not modelled.
`clashed` is a history variable: a put was rolled back, or an update outlived a
migration.

### Creates (`middleware/idempotency.ts`, `quota/check.ts`, `routes/objects.ts`)

Each request goes through lookup or replay, the object charge, the embedding
charge in two UPDATEs, the create, and the storing of the answer. `CreateUnanswered` is a
COMMIT that took effect and whose answer was lost. `clock` in a request is what it
read before its transaction, so it may be old by the time it is used.

### Refs (`storage/refs.ts`, `storage/shares.ts`, `mcp/tools/skills.ts`, `docs.ts`, `sharing.ts`)

| Code | Actions |
|---|---|
| addRef: checks; one search step per depth; INSERT; UPDATE of the counter; COMMIT; shares of the child afterwards | `AddRef`, `Walk` / `WalkEnds`, `InsertRef`, `CountUp`, `CommitAdd`, `CascadeShare` / `CascadeFails` |
| removeRef: DELETE, counter, scan for another resource reference, COMMIT, revocation afterwards | `DeleteRef`, `CountDown`, `Scan`, `CommitRemove`, `RevokeCascade` / `RevokeFails` |
| objects.add_ref, skills.attach_resource, docs.attach_to, skills.put | `Begin`, `Attach`, `AttachTo`, `PutCreate`, `PutRead`, `PutOutgoing`, `PutUpdate`, with `Continue` from one reference to the next |
| docs.delete and skills.delete, objects.delete, restore | `DeleteCheck`, `DeleteCommit`, `DeleteForced`, `Restore` |
| skills.share_with_group, revokeShare | `Share`, `Revoke` |

The search sees what is committed (`Walk` reads `refs`), the INSERT waits for a
row of the same primary key (`RefFree`), the counter's UPDATE holds the target's
row to the end of the transaction (`RowFree`, `lock`). An object shared with the
user read-only (`Foreign`) is visible, and the UPDATE of its counter matches no
row: references to it are not counted, and the invariant is about the user's own
objects. Deleting at erase (`ON DELETE CASCADE`) and quotas are elsewhere.
`missed` and `strays` are history: the references that were committed while a
call was looking, and the cascade shares made after the reference had gone.

### SigningKeys and Tokens (`auth/signing_keys.ts`, `auth/oauth_facade/`)

`getActiveSigningKey` is `UseCached`, or `LookUp` and then, by what the SELECT finds,
`LoadActive` and `CacheLoaded`, or `Bootstrap` and the transaction `Deactivate`, `LockRows`, `StoreKey`: the UPDATE
takes the rows that are active when it starts and waits for those another
transaction is turning off. `RestartKeys` empties a process's cache.

A token request is `SelectToken` (SELECT FOR UPDATE), `RotateToken` (COMMIT),
`WrongClient` or `TouchClient`, `AskForKey`, the steps of SigningKeys,
`AnswerTokens`; it may fail after each, and then its client has neither token.
`ReplayToken` does what a presented revoked token does: the family's revocation is
in the transaction that the next line's exception rolls back, so nothing
changes but the answer. `ConsumeAuthCode` never succeeds: the UPDATE of
`storage.ts:190` asks for `consumed_at = NULL`.

### Users and OboTokens (`users/api.ts`, `auth/on_behalf_of.ts`, `auth/erase_receipt.ts`)

`provisionFromGoogleLogin` is `LoginRead`, then `LoginUpdate`, or `LoginLooks`,
`FindInvite`, `LoginInsert`. `syncFromApproval2` is `SyncRead`, then `SyncCreate` or
`SyncUpdate`, which writes the fields that differed from the row it *read*
(`saw`). Email and external id are unique: a violation is the transaction's
failure. A request on behalf of a user is `VerifyToken`, `ResolveUser`, `SpendId`;
an erase receipt skips the user. `Permitted` (a write needs an approval id) is
asked when the jti is spent already, so a refused write costs its token. Receipts
write milliseconds into a column that the sweep compares with seconds, so their
rows stay for ever, which is why `TokensAreSpentOnce` holds of them without the
exception for slow requests.

### Lists (`mcp/tools/lists.ts`, `storage/objects.ts`)

The body is the sequence of its items. `AddItem`, `Toggle` and `Put` are the first
transaction and the call's computation. `updateObject` is `SelectRow`, for a body
above the limit of inline bodies (`Large`) `PutBlob`, and `WriteBody` (INSERT of the
revision, UPDATE, COMMIT). All versions share the one key `objects/<id>`: a put goes
over the ciphertext of the current version, which its own revision will name, and
stays when the primary key refuses the revision or the call fails (`Fail`). `blob` is
the version whose ciphertext the bucket holds, `putter` the call under way that put it
there. A large body that is not in the bucket fails to decrypt (`Readable`), and the
list tools, which read first, are refused until another write replaces it; clients
that send a whole body are not. `History` is what is on record: which body each
version was, and `AcknowledgedIsKept` says when the bucket still holds a large one:
until a put goes over it (`PutOver`), be it of a later version, of a call under way,
or of one that came to nothing (`struck`, a history variable). The list tools expect
no version; clients of objects.update, docs.put and PATCH may (`expect`). Edits of the
meta data alone do not count the version up and are not in the model.

### Catalogue, Search, Bundles, Reads (`search/`, `storage/refs.ts`, `mcp/tools/memorize.ts`, `skills.ts`)

`state` is what row-level security shows the reader: an object is shown, deleted
(its owner still sees the row) or hidden. Each statement of `hybridSearch` is an
action that reads the catalogue as it is by then: `FtsSelect` and `VectorSelect`
choose any ranking of rows that match (what matches is free), `MetaSelect` fuses
them and reads the rows again, `SubdocSelect` and `ParentSelect` find the parents
and group the hits, `MemoSelect` is memorize.search's own filter and ranking.
Scores are exact: `RankUnit` is a common multiple of the denominators of reciprocal
rank fusion. `BundleBegin`, `RefsSelect`, `SizesSelect`, `NextBody` are the
transactions of objects.get with bodies, `AttachmentSelect` and `ReadAttached`
those of skills.read_resource.

## 3. What is checked

All passing runs finish on a laptop in well under five minutes.

| Run | Bounds | States | Properties |
|---|---|---|---|
| `group_keys` | 3 users, 2 documents of 2 owners, sync limit 1, master version up to 3, 1 request under way | 1.5 M | `LabelsAreTrue`, `RemovedLostTheMaster`, `OwnerIsMember`, `RotationIsComplete`, `RemovedRowsAreFrozen`, `ImplementsEpochs` |
| `uploads` | 2 PUTs, 3 finalize calls | 145 k | `OneFinalizeWins`, `FinalizedKeepsItsBlob`, `LifeIsOneWay`, `EventuallySettled` |
| `erasure` | 2 objects, 2 attempts, batches of 1 | 370 k | `LiveRowKeepsBody`, `ErasedBodiesAreQueued`, `QueueDrains` |
| `object_body` | 3 updates, 2 groups, 2 random keys | 250 k | `GrantsHoldTheKey`, `AckedUpdatesAreOnRecord`, `ReadableUnlessClashed`, `ImplementsVersioned` |
| `refs` | 2 skills, 1 document, 1 foreign object, 1 group, 2 calls at a time, 3 in all, cycles searched to depth 2 | 1.0 M | `CountsAreExact`, `CyclesComeFromOverlaps`, `CascadeGrantsHaveACause`, `DeletedUnderNoOlderRef` |
| `tokens` | 2 processes, 3 requests, 3 keys, 3 refresh tokens, 2 clients, 1 code | 0.9 M | `FamiliesAreChains`, `IssuedOnce`, `SignedKeysArePublished`, `ActiveKeysOverlapped` |
| `obo_tokens` | 2 users, 2 external ids, 2 logins, 2 pushes and 2 requests at a time, 3 calls in all, clock to 4, grace 2 | 165 k | `FirstAdminsOverlapped`, `TokensAreSpentOnce`, `ExternalIdIsKept`, `ErasedByLaterIsFinal` |
| `lists` | 3 calls, 1 text, lists of 2 items of which 1 fits inline, version up to 4 | 1.1 M | `AcknowledgedIsKept`, `ExpectedBodyIsReplaced`, `UndoneOnlyByOverlap`, `ImplementsVersioned` |
| `reads` | 4 objects, 1 request, 1 write during it, 1 object deleted or hidden before it, limits 1 and 2, page cap 4 | 2.1 M | `OnlyKnownLosses`, `AnswersAreRanked`, `OverBudgetOnlyIfTouched` |
| `creates` | 4 requests under 2 keys, room for 2 objects, 1 embedding per window, 2 ticks of a day | 190 k | `QuotaCoversObjects`, `WindowsKeepTheCap`, `RecordsTellTheTruth`, `LiveRecordsAreStable` |

Why these bounds are enough:

* *group_keys*: two rotations let an unlocked request that started before the
  first meet the second; three users are an owner, one who leaves and one who
  stays; two documents with a sync limit of 1 reach both branches of the
  rotation. One request under way at once suffices for the races of a request
  with the locked operations; two unlocked requests touch each other only at the
  primary key or the partial unique index, and the proofs, which have no such
  bound, cover those.
* *uploads*: two finalize calls that overlap and one retry; two PUTs with
  different bodies, so that a late PUT is told from an early one.
* *erasure*: a batch smaller than the queue makes the job choose; two attempts
  are one retry and the cap.
* *object_body*: two updates that race each other and the migration, one after
  them; a second group for the second grant and the second key.
* *creates*: three requests under one key, one under another; more requests than
  quota and cap; two ticks reach the end of a window and of a record's life.

* *refs*: two calls that overlap and one before or after them; a cycle through two
  references and one through three; a foreign target, a deleted one, and a skill
  that skills.put creates.
* *tokens*: two requests of one process and one of another; one family, rotated
  twice, so that a token in its middle can be replayed; one client that owns it and
  one that does not; requests that bootstrap a key while another rotates.
* *obo_tokens*: two of each kind race; three calls are a race and what follows it.
  The clock passes the expiry of a token (1) and the sweep of its row (4).
* *lists*: two calls that overlap and a third; bodies of no, one and two items, so that
  positions shift and the largest is put into the bucket; four versions, so that two
  large ones come after each other or with a small one between them. Items differ in
  being done; the text decides only which of them a call names.
* *reads*: a chain of three objects puts a child under a child; three children of
  one parent exceed the two shown; one write at every point of the request. Sizes
  2 and 5 are below and above the budget of 3, 5 is above the cap per reference of
  4. A search reads no sizes, so they are all equal there (`Alike`).

`refs`, `tokens`, `obo_tokens` and `lists` use symmetry of calls, requests,
keys and other names nothing tells apart; none of them checks liveness. The other
sets are not symmetric (`ObjectOwner`, `KeyOf`, `Embeds`, the references of `reads`).

`CHECK_DEADLOCK FALSE` is said where the system stops: an upload is settled, all
requests are answered, the bounded calls, versions or writes are used up.

Type invariants are proved (`...Types`, `TypeCorrect`) and are not run again. The
two violation runs, `object_body_migration` and `tokens_replay`, have the bounds of
`object_body` and `tokens`.

Every action of every next-state relation fires in a passing run, and for every
property a mutant of the code (an action or helper with a plausible bug,
`\* Mutant:` in the modules) makes the same run fail.

### Fairness

* `Uploads`: the sweep runs every 30 minutes and the purge hourly
  (`crons/runner.ts` schedules both), so `SweepExpiredUploads` and `PurgeSelect` are
  weakly fair; time passes (`Tick`). `PurgeDelete` and `PurgeCommit` are strongly fair: a purge may
  abort (`PurgeAborts`) and is then taken up by the next hour's, and the assumption
  is that the database does not fail each of them at the same point for ever.
  Nothing is assumed of clients and finalize calls.
* `Erasure`: the weekly schedule and pg-boss's retries run the job again and
  again; `CronSelect`, `CronTries`, `CronSettles` are strongly fair for the same reason. The
  bucket may refuse every delete: `CronTries` includes the failing one.

The code has no other progress that could be asserted without inventing a fair
client, so the other modules have safety properties only.

## 4. What is proved

For every set of users, documents, groups, calls, requests, and every limit:

| Module | Theorems | Inductive invariant |
|---|---|---|
| `GroupKeysProofs` | `TypeCorrect`, `LabelsCorrect`, `LabelsBounded`, `RemovalWorks`, `OwnerStays`, `RemovedRowsStayFrozen`, `RotationsComplete`, `GroupImplementsEpochs` | `IInv`: types, `LabelsAreTrue`, `NoLabelFromTheFuture`, `RemovedLostTheMaster`, `OwnerIsMember`, `InFlightVersions` |
| `BlobsProofs` (uploads) | `FinalizeHasOneWinner`, `FinalizedBlobStays`, `UploadLifeIsOneWay`, `UploadTypes` | `UInv`: types, the two invariants, `WinnerPinsStatus`, `PurgeSawExpired`, `SealedIsThere` |
| `BlobsProofs` (erasure) | `ErasureTypes`, `LiveRowsKeepTheirBody`, `QueueForgetsNothing` | `EInv`: types, `LiveRowKeepsBody`, `WritesInv`, `ErasedInv`, `EntriesInv`; on top of it `QInv`: `SettledInv`, `NamedInv` |
| `ObjectBodyProofs` | `BodyTypes`, `GrantsOpenTheRow`, `UpdatesAreKept`, `ReadableButForClashes`, `BodyImplementsVersioned` | `BInv`: types, `GrantsHoldTheKey`, `AckedUpdatesAreOnRecord`, `VersionsAreKept`, `ShareHoldsTheRow`; for `ReadableButForClashes` with `BucketInv`, for `BodyImplementsVersioned` with `OneRecordEach` |
| `WritesProofs` (creates) | `QuotaTypes`, `QuotaCounts`, `WindowsHold`, `ReplaysAreTrue`, `LiveRecordsStay` | `CInv`: types, `QuotaCoversObjects`, `StagesTell`, `RecordsAreAnswers`, `WindowIsCounted` |
| `WritesProofs` (lists) | `ListTypes`, `AcknowledgedStays`, `ExpectedIsReplaced`, `UndoneByOverlap`, `ListImplementsVersioned` | `LInv`: types, `RevisionsAreThePast`, `CallsKnowThePast`, `IdleExpectsNothing`, `AcknowledgedIsOnRecord`, `PuttersHavePut`, `LargeAreHeld` |
| `TokensProofs` | `TokenTypes`, `FamiliesStayChains`, `TokensGoToTheirClient`, `SigningKeysArePublished`, `KeysOverlapped` | `KeysInv`: types, the two invariants, `KidsAreKeys`, `LoadedArePublished`, `LeftActiveAreMet`, `StorersMet`; `ChainInv`: types, the two invariants, `SuccessorsAreThere`, `HeldAreLive`, `IssuedAreThere` |
| `OboTokensProofs` | `OboTypes`, `OneFirstAdminButForOverlaps`, `IdsAreSpentOnce`, `ExternalIdsStay`, `ErasedStays` | `RegistryInv`: types, `FirstAdminsOverlapped`, `AbsentHaveNoId`, `OlderAreThere`, `FirstAreThere`, `BootstrapsMet`, `PushesRead`; `SpentInv`: types, `TokensAreSpentOnce`, `SpentAreRemembered`, `VerifiedInTime` |
| `RefsProofs` | `RefTypes`, `CountsStayExact`, `CyclesNeedOverlaps`, `CascadesAreAccountedFor`, `DeletesMissOnlyLaterRefs` | `RInv`: types, the three invariants, `CallsInv` (what a call knows at each of its steps), `WritersAreApart` |
| `ReadsProofs` | `ReadsTypes`, `NoHitIsLost`, `AnswersStayRanked`, `BudgetsAreKept` | `ReadsInv`: `CatalogueTypeOK`, `SearchInv` (what each statement of a search holds), `BundleInv` (sizes, bodies and budget of a bundle) |

The arguments in short.

*Labels and rotations.* A label is written together with the key it is about, by
an operation that holds the lock or by a request that carries both from one
read. `InFlightVersions` says a request under way has a version the group has had,
1 at least: the `Admit` of the refinement asks for an epoch that has begun. A removed member's wrap is
older than the master because the rotation that removes it makes the next one.
`NoLabelFromTheFuture` is part of the invariant; no run checks it, `LabelsBounded`
proves it.
`NextInv` has one lemma per group of actions (`AddInv`, `ShareInv`, `RemoveInv`, `OwnerInv`,
`WorkerInv`).

*The refinement.* `GroupImplementsEpochs` proves `Spec => Epochs!Spec` under the
mapping in `GroupKeys` (epoch = master version, keys = what the rows hold): an
`AddInsert` is an `Admit` with some epoch that has begun, a removal is an
`Expel`, a transfer a `HandOver`, all else stutters.

*Uploads.* Once a call has won, the status is no longer pending
(`WinnerPinsStatus`), so nobody else can win; a purge is under way only for a row
that was expired (`PurgeSawExpired`), and from expired no way leads back.

*Erasure.* What erase-user and the job have in hand are keys of rows that were
deleted (`ErasedInv`, `EntriesInv`), and a deleted row's id is not used again, so no
delete takes a live body. For the converse, that no body is forgotten, `QInv`
accounts for every body in the bucket that no row names: it is queued, given up,
astray, or an update under way has just put it (`NamedInv`). A queue row goes only
after a delete of its key; what the bucket holds of the key by then, an update has
put since (`SettledInv`). `QInv` is inductive only relative to `EInv`: a key in hand
belongs to an erased row, so no create or commit can name it again.

*Object body.* The versions below the row's version are exactly the versions of
`object_revisions` (`VersionsAreKept`). So an update that read an old version meets
the primary key, and of updates that read the same version one commits: the
ciphertext it replaces is the one it puts on record in the revisions. (On record
is what is proved: the revision of a large body names a blob that is overwritten,
finding 8.) The holder of the
row lock holds the row's key (`ShareHoldsTheRow`), whence all grants hold one key.

*Creates.* Each request counts at most once in the quota (`QuotaCoversObjects` is
inductive with `StagesTell`, which says what each stage implies about commits);
`WindowIsCounted` relates the requests let through in the present window to the
counter, and says that no window is ever opened twice: a reset makes the end of
the window later.

*Readable bodies.* As long as nothing has clashed, the row's ciphertext is under the
row's key, and the bucket holds it, or its re-encryption by the share that is about
to commit, or the ciphertext of an update that has put and not yet committed
(`BucketInv`); when an update leaves without committing after a put, that is a
clash. So the body opens unless `clashed`.

*One history.* `BodyImplementsVersioned` maps what is on record, followed by the body in the
row, to the history of `VersionedBody`: a commit is a `Replace` by an update that
read the end of it, a failure a `GiveUp`, and a share's migration, which seals the
body with another key, stutters. `OneRecordEach` says that no version is on record
twice, so that the history is well defined. `Lists` implements the same
specification with an expected version that comes from the client.

*Lists.* The revisions are exactly the versions below the row's
(`RevisionsAreThePast`), and a call that read the present version read the present
body (`CallsKnowThePast`). A call that commits has a base version without
a revision, so its base is the row's version: what it read under an expected
version is what it replaces. `ListImplementsVersioned` maps the revisions followed by
the current body to one history: a write that commits appends to it (`WriteAppends`),
by `Replace` if the call expected a version and by `Overwrite` if not; the first
transaction of a call is an `Expect` or a `GiveUp`, a refusal, a key violation or a
failure a `GiveUp`, and the rest, puts included, stutters. That history is of what is
on record and says nothing of the bucket. `LargeAreHeld` does: the ciphertext of each
large version is there, or something was put over it. A commit keeps this because the
row it commits names what its own call has put (`PuttersHavePut`), or another call has
put over that, and the older large versions are under a put of the same call or were
not touched by it (`BucketAfterWrite`). `AcknowledgedStays` is the two together.

*Keys.* A request that is about to commit a key holds every row that was active
when its UPDATE started and still is; an active key it does not hold was committed
since, by a request whose transaction overlapped (`LeftActiveAreMet`), and two
requests under way have met (`StorersMet`).

*Families.* A held token is live and held once (`HeldAreLive`), a successor exists and
is nobody else's (`SuccessorsAreThere`), so a rotation appends to the one end of
the chain.

*Registry.* A login that is about to make the first admin found the table empty; a
first admin that has come in since has met it (`BootstrapsMet`). A push carries the
row as it read it (`PushesRead`), which is what the two action properties name.

*Ids.* A token that was let through has its id in the table, or its time and grace
are over (`SpentAreRemembered`); a request that verified the token earlier did so
before its expiry (`VerifiedInTime`). If it comes to the table after the sweep, it
took longer than the grace.

*References.* From the UPDATE of a counter to its commit a call holds the target's row
(`Holds`), so what it has read of the other references to the target is still true
(`ScanIsTrue`); no two calls have the same reference uncommitted (`WritersAreApart`),
and an uncommitted INSERT is of a row that is not there (`WritesFit`). So a commit
changes the rows and the counter alike, and `CountsAreExact` is a matter of cardinalities
(`CommitAddStep`, `CommitRemoveStep`). The search for a cycle has followed every reference
that was there all the time from the objects behind its frontier, or has used as many
references as it has made levels (`Thorough`, `ReachesFar`). If a commit closes a
cycle of which it missed nothing, then some of that cycle's other references
form one already (`OlderCycle`), and an older cycle is accounted for. A delete knows of
every reference that was added since it read the counter as 0 (`DeleteKnows`).

*Answers.* The sorts of the code are put by rank, not by recursion: the n-th element of
`InOrder(ahead)` is the one with n - 1 elements ahead of it, and `InOrderIs` shows that
for a strict order this is a sequence of all elements in that order; `Kept` does the
same for a filter (`KeptIs`).
`GroupedIs` says what grouping does to any list of hits: each hit is the head of an
entry, or a child that is shown, or is below the limit (`CutOff`), or one of more
than two children of its parent (`Crowded`), or a child whose parent is itself a
child (`Grandchild`, the loss of section 5). `SearchInv` carries these from statement to statement,
together with the fact that the two rankings name each object once, so that the
fused list does too (`FusedIs`).

*Budgets.* `Sums` is a function that adds up a sequence; that it exists, and that two
sequences which agree on a prefix have the same sums there, is proved by the least
place where it would fail (`LeastOne`, `SumsExist`, `SumsOfPrefix`), since the
induction theorems are out of reach. `BundleInv` then says that the budget used is the sum
of the sizes as the request knows them, and is within the budget; a body that
nobody has touched is as long as known. So an answer beyond its budget has a
touched body in it.

The assumptions are the named `ASSUME`s of the modules: constants have the types
their comments say, a name that stands for "none" is not in the set it is
compared with, limits are natural numbers, the embedding cap and the attempts
cap are at least 1.

### Only model-checked

`EventuallySettled` and `QueueDrains`: liveness under fairness is out of TLAPS's reach.
Every invariant and every action property that a passing run checks, and all three
refinements, are stated by a theorem of the table.

## 5. Findings

Two runs end in a counterexample to a statement of a document or comment, which
`PROJECT.json` quotes:

1. `object_body_migration` (`CipherFitsTheKey`): an update that read the row before a
   migration leaves a ciphertext that does not fit the key the row names.
2. `tokens_replay` (`ReplayRevokesTheFamily`): "token family revoked" is answered by
   a transaction that is rolled back; the family's token stays live
   (`storage.ts:319`).

More of the same sort, without a run of their own. The first six are definitions in
the modules: a copy of the module's configuration that names one as its INVARIANT
ends in a counterexample.

3. `GroupKeys!GrantsExcludeTheRemoved`: a share that wrapped before a removal inserts
   after it, under the master the removed member holds (`shares.ts:228`, against
   docs/security/CRYPTO-REVIEW-GROUP-SHARING-2026-05-17.md:250). The next removal
   within the sync limit then fails, as it opens every grant.
4. `GroupKeys!OwnerOpensTheMaster`: a member added across a rotation has a stale
   wrap and may become an owner who can neither add nor remove (`groups.ts:230`,
   against the comment at 493).
5. `GroupKeys!JobsDoNotFail`: the worker indexes a driver result as an array, and
   every job ends as failed (`rewrap.ts:134`).
6. `Uploads!RecordedIsThePlaintext`: a repeated finalize measures and seals a
   ciphertext (`uploads.ts:116`, against the comment at 140).
7. `Erasure!EraseQueuesEveryBlob`: a body that reaches the bucket between the SELECT
   and the DELETE of `hardDeleteByOwner` is not queued (`objects.ts:775`, against
   the comment at `internal.ts:127`). Nor is one that an update shrank to inline
   before the erase (`objects.ts:609`), or whose update was rolled back after its
   put. `ErasedBodiesAreQueued`, proved, says that these are the
   only ways, but for a key the job gives up.
8. `ObjectBody!RevisionsAreHeld`: an update of a large body replaces, under the same
   blob key, the ciphertext its own revision names (`objects.ts:617`). When it is
   refused or rolled back after its put, the current body is gone as well
   (`ReadableUnlessClashed`, `Lists!AcknowledgedIsKept` have the exceptions).

Seen while modelling, and in the models as the code has it:

* No authorization code can be redeemed: the UPDATE of `oauth_facade/storage.ts:190`
  compares with NULL by equality (`MatchedByUpdate`).
* A request of the wrong client rotates the token before it is refused
  (`token.ts:168`), so the owner's next use counts as a replay.
* `rotateSigningKey` and `purgeOAuthState` have no caller;
  docs/runbooks/runbook-token-rotation.md:24 says a cron job calls the first.
* The comment at `refs.ts:234` promises a retry of cascade shares by adding the
  reference again; the row is there, so nothing is cascaded. `skills.share_with_group`
  shares the skill and not its resources, and revoking it leaves the children's
  cascade shares.
* skills.put gives the quota back when seeding its resources fails, although the
  skill exists (`skills.ts:309`).
* A receipt's jti is spent before the erase begins (`internal.ts:61`): an erase that
  fails needs a new receipt.
* A hit whose parent is itself grouped under another hit appears nowhere in the
  answer (`hybrid.ts:358`), and the comment at 261 expects deleted objects to be
  dropped, which the second read does not do.
* The role updates of a transfer change no row (`MayModifyMembers`), so a new owner's
  row keeps the role `member`; nothing in the code decides by that role.
* The reset branch of the embedding quota admits one call whatever the cap, and a
  create refused for its embedding keeps its object charge (`objects.ts:93` of the
  routes).

## 6. Abstractions

* Encryption is a record of what was sealed with which key; opening works for
  the right key, label and nonce only. That AES-GCM and HKDF do this is assumed.
* Bodies, users and keys are model values; sizes matter only for "inline or
  bucket", which is a free choice, in `Lists` a matter of the number of items.
* `Lists` has no shares: that a migration puts the body too, and under which key a
  ciphertext is, is in `ObjectBody`.
* A lost process is an action that stops the request at any step: the database
  rolls back, the bucket keeps what it has.
* Expiry of grants, visibility and audit events are left out: nothing modelled
  reads them.
* In `Refs` all calls are of one user; quotas are those of `Creates`; roles are
  "resource" and the rest, as only that one bundles, counts as a subdoc and cascades.
* In `Tokens` a client is registered from the beginning, the exchange with Google
  always succeeds, and expiry is a step that may come at any time.
* In `Reads` a request is one per behaviour, the order in which rows of the same
  rank come is free, and a body is its size.
* Two replays of one family may deadlock on row locks in the database, which then
  fails one of them; the model lets the first finish before the second begins.
* The byte quota moves in the same statement as the object count and is
  represented by it.
* An embedding cap of 0 is excluded by assumption: the code's reset branch then
  lets one call through per day.

### Not modelled

`PROJECT.json` marks as `not_modelled` what has no state a model could get wrong or
none in this repository: tags (one idempotent statement per call), the KMS and
embedding adapters (external services, each call of which the models let fail), rate
limit and retry (two sequential functions of one process), observability (writes
that nothing reads back), backup and operator scripts (procedures around a stopped
service). Of the parts marked `partly`, these stay out:

* functions that nothing in `src/` calls: `setUserRole`, `setUserStatus`,
  `inviteUser`, `revokeInvite`, `purgeExpiredInvites`, `markUserErased`,
  `purgeExpiredEraseReceiptJtis`, `purgeOAuthState`, `listIncomingForBatch`;
* `moveObjectToPersonal`, which needs a group-owned object that cannot come about,
  a transfer of an object that the caller also has a grant to write, and the rewrap
  worker's batch loop, which is not reached;
* token checks that change no state (service JWT, service token, JWKS fetches),
  listing and browsing tools, metadata-only updates, and formatting.

## 7. Plan

Modelled in this order: group keys, object bodies, uploads, erasure and creates;
then references, the token endpoint with its keys, the registry with on-behalf-of
tokens, edits of one body, reads. What would come next:

1. Abstract specifications of the upload life cycle, of the deletion queue and of a
   token family (alive until its first reuse), with refinement proofs like those of
   `GroupKeys` and `Lists`.
2. A composition of `Uploads` and `Erasure`: the blobs of an erased user's uploads are
   not queued (`internal.ts:92`).
3. The worker's batch loop, once its first read works: does each grant reach the
   newest master when a second rotation overtakes a job?
4. Sliding-window limit and retry with backoff against reference definitions.
