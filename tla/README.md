# SiteSpy: a formal model of the backend

SiteSpy's backend is a set of AWS Lambda handlers (`src/sitespy/handlers/`) over
one DynamoDB table, one S3 bucket, one SQS queue and a Cognito user pool.
Nothing runs between two requests except what the services do on their own. The
hard part of the code is therefore not in any handler but between them: each
handler is a short sequence of remote calls with no lock and, for the most part,
no condition on its writes, and any other handler may run between two of them.
The modules here model handlers at that granularity -- **one action per remote
call, together with the code up to the next call** -- next to what the table's
TTL sweep, the bucket's lifecycle rules and the queue do by themselves.

Paths below are relative to the repository; `S/` stands for `src/sitespy/`.

## Inventory

| Component | State it keeps | Operations | What is hard | What makes it correct |
|---|---|---|---|---|
| **Out-of-hours snapshots** `S/handlers/snapshots_out_of_hours.py`, `ingest.py` | `OOH_IMG#` item (`s3_key`, `promoted`, `ttl`); object under `security/` or `preserved/` | capture, promote, download, list; TTL sweep; lifecycle rule | promotion is copy / commit / delete over two stores, with a rollback; overlaps, retries, expiry in between | what was answered 200 is kept for good; a listed record has its object; nothing is left behind |
| **Ingest** `S/handlers/ingest.py` | `IMG#`, `OOH_IMG#`, `LIVE_IMG#` items and objects | POST with a camera token | reads before writes (cadence, session), four writes in two stores, fail-open and fail-closed reads | no hole in the timelapse behind an answered upload; the cadence; record implies object |
| **Live sessions** `S/handlers/live_session.py` | `SESSION#` item | POST, GET, DELETE | check-then-act on a lease with lazy expiry | one session at a time |
| **Timelapse jobs** `S/handlers/timelapse_{post,worker,get}.py` | `JOB#` item; SQS message; MP4 under `timelapse/` | submit, render, poll; redelivery and redrive | at-least-once delivery, crashes between upload and update, footage deleted meanwhile | a complete job has its artifact; statuses settle and stay; messages drain |
| **Timelapse listing** `S/handlers/timelapse_list.py` | none (a cursor in the client's hands) | GET with filters, limit, cursor | a paging loop inside a paging client, over a table that changes | nothing twice, nothing skipped, it ends |
| **Camera registry** `S/handlers/cameras_{post,patch,rotate,delete,transfer}.py` | `SITE#..#CAM#` item with the ingest token | create, rename, rotate, delete, transfer | every handler reads and later writes; half of the writes are unconditional upserts | a camera is in one place, none is lost, no retired token comes back |
| **Snapshot deletion** `S/handlers/snapshots_delete.py` | `IMG#` items and objects | DELETE of a list of timestamps | object and record deleted one after the other, in a loop that may stop half-way | what is answered as deleted is gone; a dead link is one a retry removes |
| **Flags** `S/handlers/flags.py` | `FLAG#` items and their copy in the index `GSI1` | report, list, change status | duplicate suppression and transitions decided on a stale read, and on an index that lags | one live flag per camera and reason; closed stays closed; a listing loses none; tenants are apart |
| **Users** `S/handlers/users_post.py`, `users_get.py` | Cognito user and group, `USER#` item | create, list | three writes in two services | an account is what one request asked for and its maker could grant, or less |
| **Tenants, sites, logos, sandbox** | `TENANT#`, `SITE#` items, `logos/` objects | create, read, patch, upload | object then record; an upsert in `update_site` | no orphan, no resurrected site |
| **Retention classification** `S/retention.py`, `S/handlers/sites_patch.py` | `working_hours`, the older `ingest_hours`, and `timezone` of the `SITE#` item | `classify`, `resolve_working_hours`; PATCH of the site | windows that pass midnight, clocks that change, hours of two generations | footage expires only if nobody was at work by the hours asked for |
| **Snapshot listing** `S/handlers/snapshots.py`, `S/timelapse.py` | none (a cursor in the client's hands) | pages, sample, latest, frames of a timelapse | boundaries of pages, buckets and rounded indices, while footage comes and goes | nothing twice, nothing lost, evenly spread |

Interactions: ingest reads what live sessions and cameras write; promotion reads
what ingest wrote; the render worker reads what ingest wrote and
`snapshots_delete` removes; the status poll and the listing read what the worker
writes; ingest classifies by what PATCH of a site writes; every handler acts on
the claims of an account that `users_post` made. They share state only through the table, the bucket and the queue.

## Modules

| Module | Models | Lines of Python it stands for |
|---|---|---|
| `OohRetention` | the promise about one out-of-hours snapshot, as three transitions and a clock | (abstract) |
| `OohPromotion` | ingest's out-of-hours branch, promote, download, sweep, lifecycle, crashes, stale reads | `snapshots_out_of_hours.py`, `ingest.py`, `data.py` |
| `OohPromotionProofs` | theorems about `OohPromotion` | |
| `SessionLease` | the promise about a camera's live session: a lease | (abstract) |
| `LiveSession` | POST, DELETE, GET live-session, with sweep and lifecycle; actions only | `live_session.py`, `data.py` |
| `Ingest` | the whole upload, composed with `LiveSession` | `ingest.py`, `data.py` |
| `TimelapseJobs` | one job: submission, queue, worker, artifact, poll, expiry | `timelapse_post.py`, `timelapse_worker.py`, `timelapse_get.py`, `template.yaml` |
| `TimelapseListing` | the paging loop and its client | `timelapse_list.py`, `data.py` |
| `CameraRegistry` | all writes to the rows of one camera id, over several places | `cameras_*.py`, `data.py` |
| `WorkingHours` | the resolution of hours, the window, the retention class; operators only | `retention.py`, `sites_patch.py` |
| `Footage` | one camera's footage: classification, PATCH of the hours, every read of it, DELETE; extends `WorkingHours` | `snapshots.py`, `snapshots_delete.py`, `snapshots_out_of_hours.py` (list), `timelapse.py`, `ingest.py`, `data.py` |
| `Accounts` | the three calls of `users_post`; actions only | `users_post.py`, `data.py` |
| `Flags` | report, status change and listing over the lagging index, composed with `Accounts` | `flags.py`, `data.py` |
| `AccountsProofs` | theorems about `Accounts` within `Flags` | |
| `FlagsProofs` | theorems about the life of flags; extends `AccountsProofs` | |
| `IngestProofs` | theorems about uploads and live sessions | |
| `TimelapseJobsProofs`, `TimelapseListingProofs` | theorems about one job, and about paging through all | |
| `CameraRegistryProofs` | theorems about the rows of a camera | |
| `FootageProofs` | theorems about hours, reads and deletion of footage | |
| `MCOohPromotion`, `MCIngest`, `MCCameraRegistry`, `MCFootage`, `MCFlags` | symmetry sets and instances for TLC | |

How state corresponds to code. A table item is a record variable (`record`,
`job`, `session`, `rows`), with a distinguished value for "no item"; a set of
items with the same prefix is a set of their sort-key times. A set of objects is
the set of the prefixes, or times, they are stored under. Each invocation has a
`step` -- the remote call it is about to make -- and the local variables that
survive from one call to the next (`source`, `stamp`, `ts`, `due`, `seen`...).
When a handler answers, `step` holds the answer if a property speaks about it,
and its locals are reset. Variables whose comment says what they *record* rather
than what the code stores (`afterAck`, `clean`, `steady`, `recorded`, `unseen`,
`checked`, `current`, `deleted`, `overtaken`, `stale`, `mixed`, `asked`,
`legacyKept`, `stable`, `gone`, `origin`, `blind`, `contended`, `owed`) are
history: no guard of a modelled handler reads them. `submitted` in
`TimelapseListing` says which job ids are taken: a job id is a fresh UUID, so
`Submit` never uses one again.

What is abstracted everywhere: request validation, logging and metrics, the
bytes of an image. Authentication and the role checks are modelled in `Accounts`
and `Flags`; elsewhere every caller is allowed. A token, a name or a job id is
the invocation that made it. Where a module says nothing of replicas, a read
returns the last write, although most reads do not ask for it (`OohPromotion`
and the index of `Flags` do without that assumption).

Failures are of three kinds: a call that raises without effect, a call that is
applied and whose reply is lost, an invocation that is killed. Where one of these
cannot leave a state that another does not, it is left out and the action's
comment says so. `OohPromotion`, `TimelapseJobs` and `Ingest` name in the constant
`Faults` which calls may fail, and then they may fail every time;
`CameraRegistry`, `Footage`, `Accounts` and `Flags` let any write fail and bound how
often (`MaxFaults`).

The SDK sends a write again when its reply is lost (`_BOTO_CONFIG`). In `Flags` a
put or an update that is sent again may arrive after other requests have written
the row, because such a write goes by key and carries a status. A conditional put
that is sent again meets its own row and answers 409. In `CameraRegistry` the
second send of an edit or of a delete follows the first at once; with other
requests in between it would reach whatever camera is at the place by then, and
that is left out.

### Out-of-hours promotion

`LoadRecord`, `CopyObject`, `CommitPromotion`, `Rollback`, `DeleteSource` are the
handler's steps; `Verdict` is its list of checks in their order. `Readable` is
what GetItem may answer: the handler does not ask for a consistent read, so with
`StaleReads` a lagging replica may answer with the item before the last write.
`TtlSweep` and `LifecycleExpire` are independent of each other and may be late by
any amount. The refinement mapping reads `OohRetention!status` off both stores
(`Status`): with `promoted` set and no object under `preserved/` it is "lost",
which the abstract specification has no step to.

### Timelapse jobs

A copy of the message goes `visible -> in_flight -> visible | deleted`, and
`dead` after `MaxReceives` receives, as `template.yaml` configures it. The
visibility timeout (1800 s) is six times the worker's own timeout, so two
deliveries of the *same* copy never overlap; a second copy stands for the SDK's
retry of SendMessage. `footage` moves from `present` to `objects_lost` to `gone`,
the order in which `snapshots_delete` works.

### Listing

A job is the rank of its random key, `created` the rank of its time, so every
order of submission is an initial state. `Query` is one round of the loop in
`_collect_page`; `Answer` is what follows the loop.

### Cameras

All handlers act on one `camera_id` in several places (tenant and site). A row's
token and name are the invocations that set them, `current` remembers what the
camera was last given. Nothing keeps the operators apart: creations, edits,
deletes and transfers overlap in every way, as they do in the code.

What the code loses by that is in the properties, each exception as narrow as the
trace that needs it. `overtaken` holds the invocations that have read a row which
somebody has since changed (for a transfer), removed or moved (for an edit, too):
only what they then write is excused. `stale` holds the cameras an overtaken
transfer has written: only they may carry a retired token or name. `mixed` holds
the two cameras of a transfer that put the one it had read at the target and
deleted another from the source, which the condition of the transaction lets it:
only they may be in two places, or be gone without a DELETE.

### Ingest and live sessions

`CheckCadence` reads the later of the last `IMG#` and the last `OOH_IMG#` item
(two queries in the code, one step here) and fails open; `CheckSession` fails
closed, returns early, or fixes the capture instant and the retention class.
Then follow object and record, and live object and live record. A client of
`live-session` calls again and again and keeps no answer. `unseen` holds the
pairs of uploads of which one could not have seen the other when it checked.

### Footage

A snapshot is named by its capture instant and one is captured at every instant,
its object and record in one step (`Ingest` has them apart). `Capture` classifies
by the site as it is then; a site that cannot be read means in-hours, as in the
code. Instants, the day and the week are counted in the unit of `DayLength`, so
that the arithmetic of `InWindow`, `From`, `To` and `TimeBuckets` is the code's
with smaller numbers. `Offset` is the zone database: local time minus UTC, per
instant. `AtWork`, the reference, is written without a window at all: work begins
on certain days and goes on until the clock shows `end`.

There is one read at a time, of one of the kinds of `Requests`; what it has been
answered is in `listed`, `found` and `chosen`, and `stable` is what was in its
range when it began and still is. One DynamoDB query is one step, so captures
and deletes fall between the pages, between the sixteen-way queries of a sample
(`FetchBucket`, in any order) and between the pages of the worker. A client that
pages sends `from` and `to` with every page. `SelectFrames` answers a set: where
the float quotient lies half-way between two indices the model takes either.

A DELETE is `CheckRecord`, `DeleteObject`, `DeleteRecord` per timestamp; each of
the last two may raise with or without having been applied, and the answer is
then 500 with the rest of the batch undone. PATCH is bounded to precede the
first read or DELETE, with which it shares nothing.

`asked` is what `docs/api_handover.md` says is in force: the `working_hours` of the
last PATCH that names them, null meaning none, or what the record resolved to
before any. `legacyKept` is set while the last PATCH that names them said null and the
record's legacy `ingest_hours` are still in it.

### Accounts and flags

`pool` is Cognito, `users` the table. An account's `group` is its role as every
handler resolves it: no group is a user. `CreateAccount` checks the caller
against the pool and calls AdminCreateUser; the SDK's retry of a call whose reply
was lost meets the account it made and answers 409. `origin` remembers the request
that made an account. Calls of `flags.py` read the caller in the pool when they
begin, as a token just issued.

`flags` is the table, `index` its copy by status, which `Propagate` brings up to
date a row at a time, in any order. A report is `Report`, two `FindDuplicate` and
`PutFlag`; a status change `PatchLoad` and `PatchUpdate`; a listing `ListFlags`
and two `QueryFlags`. There is one camera per site. A put or an update whose
reply is lost is sent again (`ResendFlag`, and a `PatchUpdate` that is not the
last), over whatever has become of the row. `blind` holds the pairs of reports of which one could not have
seen the other's flag, because they overlapped or because the index had not
caught up with a flag. `overtaken` holds the requests at whose row another one has
written since they read it, or wrote it for the first time; `contended` the keys
of the rows such a request has then written. It is the row that counts: PATCH
looks a flag up by its id and updates by key, and a report of the same second
takes the row over in between. Reads that raise answer 500 and change nothing; a listing whose range spans more than one page of the index
(1 MB) is left out.

## What each run checks

| Run | Expect | Question | Bounds, and why they are enough |
|---|---|---|---|
| `ooh_concurrent` | pass | overlapping promotions, stale reads, clean failures of put, read and source delete | 3 promotions, 1 upload, 1 download, `Ttl` 1, clock to 2: the expiry falls before, between and after any two calls; three promotions are the first number where one can act between two steps of each of two others |
| `ooh_serial` | pass | can promoted footage always be downloaded? One promotion at a time, everything may fail cleanly, crashes anywhere | 3 promotions in sequence: a failed one, its retry, and a retry after success; 2 downloads |
| `ooh_rollback_race` | violation | is an answered success kept when an UpdateItem fails? | 2 promotions |
| `timelapse_jobs` | pass | at-least-once delivery with every fault | 2 copies, 3 receives (the configured value): every pair of overlapping deliveries |
| `timelapse_listing` | pass | paging while the table changes | 4 jobs, pages of 2, 2 events: full pages, short pages, and a page whose matches straddle two queries |
| `timelapse_listing_gap` | violation | does a filtered listing skip nothing? | 4 jobs, nothing changes |
| `camera_registry` | pass | all writers of a camera row, in every order | 3 places, 2 creations, 2 transfers, 1 delete, 1 rotation, 1 renaming, `MaxFaults` 1, 3.1 million states: two transfers of one camera to two targets, or of two cameras to one; a camera that is deleted and created anew, or edited, under a transfer; an edit whose camera is deleted or moved under it |
| `camera_stale_transfer` | violation | may a retired token come back? | 1 creation, 1 rotation, 1 transfer, no fault |
| `ingest_live` | pass | uploads against sessions and each other, reads and writes failing | 2 uploads, 2 starters, 1 stopper, 1 viewer, at most `MaxRunning` = 2 at once (every property is about a pair), clock to 4 with a session and a cadence of 2: a session can expire and be replaced, an upload be skipped and the next one be due |
| `footage` | pass | classification under changing hours; every read, and DELETE, over footage that changes | a week of 2 days of 3 instants, 6 captures: windows inside a day, over midnight and over the end of the week, and a clock that goes forward in the middle; at most 2 PATCH before; pages of 2 (first, middle, short), samples of 1 to 4 in windows of 1 to 6 instants (buckets longer, shorter and equal to an instant), 2 and 3 frames of up to 6; 2 DELETE, a batch of 1 and one of 2, 1 failure; reads and DELETE from the fifth instant on (`FirstRequest`), after at most 1 PATCH (`PatchesFirst`) |
| `footage_cleared_hours` | violation | is footage filed by the hours the API says are in force? | 1 PATCH, then captures; nothing fails |
| `administration` | pass | accounts that are half-made, colliding reports and status changes, listings; two tenants that both call a site s1 | 2 creations, 2 reports, 2 PATCH, 1 listing, at most 3 calls in all (every property is about two calls and a third that makes the difference), 1 failing call or lost reply, 2 seconds, 2 flags to begin with, limit 2 (a third flag cuts a listing), 1.3 million states; a super admin acts in the second tenant, whose admin is one of the accounts made |

`CHECK_DEADLOCK FALSE` stands in the runs whose system really stops: all
invocations answered and the clock at its bound. `TimelapseJobs` never stops, a
client may always poll.

### What the passing runs show

*Out-of-hours.* `RecordedKeyResolves`, `AnsweredSuccessIsKept`, `NoOrphanCopy`
and `PromotedIsDownloadable` relate record, object and answer at every
interleaving point; `KeepsPromise` is the refinement of `OohRetention`;
`EventuallyKeptOrErased` says the two stores end in agreement.

*Jobs.* `CompleteHasArtifact`, `UnavailableOnlyExpired` and `DrainedIsSettled`
hold with every fault, and so does the half of `SettledIsFinal` that says
`completed_at` is stamped once. The other half holds as long as no
message is duplicated or outlives its acknowledgement (`clean`); beyond that the
worker's unconditional "processing" does reopen a settled job, and a redelivery
after the footage was deleted turns a complete job into a failed one.

*Listing.* `NoDuplicate` and `EveryListingEnds` hold with filters and with a
changing table. `UnfilteredSkipsNothing` holds because an unfiltered request
takes a single Query; with a filter it does not (below).

*Cameras.* `NeverOverwritten` holds without exception: the conditions of POST and
of the transfer's transaction suffice. `OnePlace` and `NoCameraLost` hold for every
camera that no transfer took for another. The code has no condition on edits,
and the other two say exactly what follows: `GhostsOnlyFromOvertakenEdits`, that a
row without a camera is made by an edit whose camera was deleted or moved after
the edit had found it, and by nothing else -- not by an edit that came too late to
find it; and `RevertsOnlyWhenOvertaken`, that a retired token or name comes back in
nothing but a camera written by a transfer whose read was out of date.

*Ingest and sessions.* `OneSession` refines `SessionLease`: the condition of the
put, evaluated with a time stamp that may be old, is what keeps two POSTs from
both having a session. `AnsweredIsCovered`: behind every 201 and every "skipped"
stands a listed snapshot, with its object, younger than the cadence.
`CadenceKept` holds for every two uploads of which the second could see the
first, over both retention classes. `ShownImageResolves`: the presigned link of
a live image is not dead within the object's day.

*Footage.* `ClassifiedUnlessLegacyKept` compares what ingest did with `AtWork`
under the hours the API documents to be in force, so it spans the migration of legacy
hours, the window arithmetic and the clock change. It excepts the time in which
legacy hours outlive a null, and that time only: the next PATCH with hours ends it.
`ListingIsFaithful`: a key that names a deleted item still resumes at the right
place, in both directions.
`SampleIsFaithful`: no snapshot lies more than a bucket after its representative,
and none is shown twice. `FramesSpanFootage`: rounding keeps first and last
frame, the order, and an even spacing. `DeletedIsGone`: an answered DELETE has
left nothing, and a record without its object is one somebody was answered 500
for, or is about to be.

*Accounts and flags.* `AccountsAsRequested`: no failure and no collision gives an
account more than the request that made it asked for and its maker could grant,
and a user record never contradicts the account. `TenantsAreIsolated`: no shown,
answered or changed flag is outside the caller's account, though both tenants
name a site s1 and share the index. `DuplicatesOnlyFromOverlap`: the order
open-then-acknowledged never misses a flag that moves in between. What it excepts
is the code's: reports that could not see each other both raise a flag.
`StatusMovesForward` names the steps in which a flag may be reopened, or its
acknowledgement taken back: the write of a PATCH, or of a flag that is sent again, when
another request has written the row since. No other step does, and no row is
excepted for what was once done to it. `LiveFlagsAreListed` excepts the rows such
a step has written.

### What the violations show

1. **A rollback deletes another promotion's footage**
   (`ooh_rollback_race`, `S/handlers/snapshots_out_of_hours.py:390`). All
   promotions of a snapshot share one destination key. A failed UpdateItem makes
   a promotion delete it, though an overlapping one has committed and answered
   200. `docs/api_handover.md:372` promises the snapshot survives. The same
   happens with a stale GetItem, or when the reply to an applied UpdateItem is
   lost.
2. **A filtered listing skips jobs** (`timelapse_listing_gap`,
   `S/handlers/timelapse_list.py:343`). The page is cut to `limit`, the cursor is
   past everything that was scanned. `docs/api_handover.md:704` and
   `tests/sitespy/test_timelapse_list_properties.py:11` say otherwise.
3. **A transfer revives a rotated token** (`camera_stale_transfer`,
   `S/handlers/cameras_transfer.py:209`). It writes the token it read, without a
   condition. `docs/api_handover.md:1082`: "The old token is immediately
   invalidated."
4. **Clearing the hours of a site does not clear its old ones**
   (`footage_cleared_hours`, `S/data.py:1296`). `working_hours: null` on a site
   that still has `ingest_hours` leaves them in the record, and
   `resolve_working_hours` goes on reading them: what is captured outside them
   expires after 7 days. `docs/api_handover.md:1243` heads this body "clear working
   hours (treat all snapshots as in-hours)", `:1279` says "When `working_hours` is
   `null`, every snapshot is treated as in-hours", `:1281` "The next successful
   `working_hours` write removes the legacy attribute."

### What the exceptions of the passing properties are

Each stands for something the code does, and all of it happens in the runs. Where a document says otherwise:

- `GhostsOnlyFromOvertakenEdits`: `update_camera` has no condition
  (`S/data.py:1138`), so PATCH of a camera that is deleted between the handler's
  read and its write makes a row with a name, no token and no `created_at`, and
  answers 200. `docs/api_handover.md:1061` lists "404 -- camera does not exist".
- `OnePlace`, `NoCameraLost` (`mixed`): the transaction's Delete asks for some row at
  the source (`S/data.py:1733`). If the camera was deleted and its id created anew
  in between, the transfer puts the deleted camera with its token at the target,
  and deletes the new one. `docs/api_handover.md:1406`: "The camera record moves to
  the target tenant/site".
- `DuplicatesOnlyFromOverlap` (`blind`): two reports that overlap, or meet an index
  that lags, both create a flag (`S/handlers/flags.py:467`);
  `docs/api_handover.md:445` promises that a duplicate is answered with the flag
  there is. Two reports of one camera in one second have one key, and the second
  replaces the first.
- `StatusMovesForward` (`overtaken`): a PATCH that has checked its transition writes
  after another has closed the flag (`S/handlers/flags.py:650`): the flag is
  acknowledged, the answer 200. `docs/api_handover.md:523`: "Invalid transitions
  return `409 CONFLICT`."

### Seen on the way

Checked by no run:

- A job none of whose objects can be downloaded is never "failed": every delivery
  raises (`S/handlers/timelapse_worker.py:147`), the message is dead-lettered, the
  status stays "processing". `docs/api_handover.md:643` shows "failed" with the
  reason "No frames could be decoded in the requested range." `TimelapseJobs` has
  the case; `DrainedIsSettled` therefore speaks of messages that were acknowledged.
- A job that is stored but whose SendMessage fails stays queued with no message
  behind it; a DELETE of a live session ends whatever session is there when it gets
  to it; GET shows a new session the last image of the one before; a duplicate
  upload of the same second that arrives after a promotion un-promotes the snapshot
  (`put_out_of_hours_img_record` is unconditional).
- The cursor of a listing of flags that was cut to `limit` is not a key the index
  accepts, plain strings where typed attributes are due
  (`S/handlers/flags.py:232`): the second page is always 500, where
  `docs/api_handover.md:762` pages on. And a user's flags are picked after the
  cut: his listing may be short, or empty, while he has flags.
- After a failure between AdminCreateUser and put_user every retry answers 409:
  the account stays, without its group or its record, and no endpoint repairs it.
- A listing with the default window recomputes it for every page, so a cursor near
  its end may fall out of it, and `from` after `to` is refused by the table: both
  answer 500.

## Fairness

`OohPromotion`: weak fairness on the steps of an invocation that has begun (a
Lambda runs on; being killed is a step of its own), on the clock, the sweep and
the lifecycle rule (the services do expire what is due). Nobody is obliged to
call. `TimelapseJobs`: weak fairness on SendMessage, on the queue's deliveries
and redrive, and on a worker's next step. Nothing makes a client poll or
footage disappear. `TimelapseListing`: the client goes on paging and a request
goes on to its next Query. No strong fairness is assumed anywhere.

## What is proved

Every safety invariant and every action property that a passing run checks is
also a theorem, as are both refinements (`KeepsPromise`, `OneSession`), each for
every value of the constants that meets the assumptions named below. The bounds
of the runs (clock, calls, events, failures) are constants like any other: the
theorems hold for every one of them. Each module's named ASSUME says no more
than that the constants are of their types and the sets of invocations do not
share names, unless it is explained here; TLC evaluates each of them.

| Module | Theorem | Says |
|---|---|---|
| `OohPromotionProofs` | `TypeCorrect` | `Spec => []TypeOK` |
| | `Inductive` (1) | `Spec => []IInv` |
| | `LinksResolve` (1) | `Spec => []RecordedKeyResolves` |
| | `SuccessIsKept` (1) | `Spec => []AnsweredSuccessIsKept` |
| | `ImplementsRetention` (1) | `Spec => KeepsPromise`: the handlers implement `OohRetention` |
| | `CopiesHaveRecords` (1, 2) | `Spec => []NoOrphanCopy` |
| | `PromotedDownloads` (1, 3) | `Spec => []PromotedIsDownloadable` |
| `TimelapseJobsProofs` | `TypeCorrect`, `Inductive` | `Spec => []TypeOK`, `Spec => []IInv` |
| | `CompleteIsDownloadable` | `Spec => []CompleteHasArtifact` |
| | `UnavailableIsExpired` | `Spec => []UnavailableOnlyExpired` |
| | `DrainedHasSettled` | `Spec => []DrainedIsSettled` |
| | `SettledStays` | `Spec => SettledIsFinal` |
| `TimelapseListingProofs` | `TypeCorrect`, `Inductive` | `Spec => []TypeOK`, `Spec => []PInv` |
| | `ShownOnce` | `Spec => NoDuplicate` |
| | `AllAreShown` | `Spec => []UnfilteredSkipsNothing` |
| `CameraRegistryProofs` | `TypeCorrect`, `NoOverwrite` | `Spec => []TypeOK`, `Spec => NeverOverwritten` |
| | `Inductive` | `Spec => []IInv` |
| | `InOnePlace`, `NoneIsLost` | `Spec => []OnePlace`, `Spec => []NoCameraLost` |
| | `GhostsExplained` | `Spec => GhostsOnlyFromOvertakenEdits` |
| | `ReversionExplained` | `Spec => []RevertsOnlyWhenOvertaken` |
| `IngestProofs` | `TypeCorrect`, `Inductive` | `Spec => []TypeOK`, `Spec => []IInv` |
| | `NoHole`, `Apart` | `Spec => []AnsweredIsCovered`, `Spec => []CadenceKept` |
| | `ShownIsThere` | `Spec => []ShownImageResolves` |
| | `RowIsLease` | `Spec => OneSession`: the handlers implement `SessionLease` |
| `AccountsProofs` | `AccountsHold`, `TenantsApart` | `Spec => []AccountsAsRequested`, `Spec => []TenantsAreIsolated` |
| `FlagsProofs` | `TypeCorrect`, `LifeInductive` | `Spec => []TypeOK`, `Spec => [](AInv /\ FInv /\ KInv)` |
| | `OnlyOverlapDuplicates` | `Spec => []DuplicatesOnlyFromOverlap` |
| | `LiveAreListed` | `Spec => []LiveFlagsAreListed` |
| | `NeverReopened` | `Spec => StatusMovesForward` |
| `FootageProofs` | `TypeCorrect` | `Spec => []TypeOK` |
| | `FiledUnlessLegacyKept` | `Spec => ClassifiedUnlessLegacyKept` |
| | `FiledOnNewSites` (4) | `Spec => ClassifiedAsAsked` |
| | `AnsweredIsDeleted` | `Spec => []DeletedIsGone` |
| | `PagesAreFaithful` | `Spec => []ListingIsFaithful` |
| | `SamplesAreFaithful`, `TimelapsesSpan` | `Spec => []SampleIsFaithful`, `Spec => []FramesSpanFootage` |

What the numbers stand for, each a hypothesis of the theorem and not of the
module, so that the runs that violate it stay possible:

1. `OneUpload` (one upload captured the second) and `CommitIsClean`: an UpdateItem
   that was applied does not raise, and one that fails does so only when
   promotions are serial and reads are not stale. Both are needed: finding 1
   breaks `SuccessIsKept` without the second, the duplicate upload breaks it
   without the first.
2. `CopiesAreCleared`: no CopyObject that raises, no rollback that fails and no
   promotion that is killed. Each of these leaves a copy with no record, and the
   code has nothing that looks for it later.
3. `~StaleReads`: a replica that has not seen the promotion may hide the record
   from a download. Crashes and failing calls are allowed.
4. No site begins with hours under the legacy name. No site that the present API
   makes has them: `sites_post` writes `working_hours` or none, and `sites_patch`
   refuses `ingest_hours`. `footage_cleared_hours` begins with a site of
   before and shows that the hypothesis is needed.

Where an assumption on constants says more than types: `TableAssumption` of
`Flags` (the flags there are to begin with are rows of the table with keys and
ids of their own, none a duplicate of another, and nobody of the model raised
them; no invocation is both a report and a PATCH), `AccountsAssumption`
(founders and bodies are typed and `None` is no account) and `FootageAssumption` (a site's record has hours of one version, as
`update_site` keeps it).

### The invariants

Hardly any of the properties is inductive by itself. What each proof adds:

*`OohPromotion`.* `AnsweredSuccessIsKept` needs that a promotion about to answer
has committed, which needs that what it committed still has its copy, which needs
that nobody is rolling back unless the record is gone or nobody else runs. `IInv`
says, beyond types: the item has one of three shapes and the replica is never
ahead of it (`RecordShape`); before the upload's second write nothing else has
begun (`UploadFirst`); the item's object is there (`ObjectOfRecord`); and, per
promotion, what its step implies of the record and the copy (`PromoterInv`). The
refinement maps each step to a step of `OohRetention` or a stutter, using
`StatusFacts`: under `IInv` the status is never "lost". On top of it,
`CopyIsOwned` (a copy without a promoted record has a promotion about to commit
or remove it) gives `NoOrphanCopy`, and `DownloadOK` (a download that began after
the 200 has read the promoted record) gives `PromotedIsDownloadable`.

*`TimelapseJobs`.* `ArtifactFirst`: whoever is about to write "complete", or has
read it, can rely on the MP4. `UnsettledIsOwed`: while a job has not settled, a
copy of its message is still visible, dead, or with a worker that has not
answered -- which is what `DrainedIsSettled` comes down to. `OneCopyOnce`: without
duplicates and lost acknowledgements there is one copy, and a settled job is what
its last delivery made of it; `AgedIsQuiet`: retention outlives the message.

*`TimelapseListing`.* `InOrderOfKeys`: what was shown and what was collected lie
before the position the next Query starts from. `Unfiltered`: what was there all
along and lies before that position has been shown or collected; it is here that
an unfiltered page takes all that its one Query returns. Both rest on lemmas
about `Max` over finite sets and about the `Limit` smallest keys.

*`CameraRegistry`.* `ReadHolds`: what an edit or a transfer has read is still so,
unless it was overtaken -- all that a read is good for without a condition on the
write. `Fresh`: what an invocation is going to make is nowhere yet; `TokensKnown`: a
token is of one camera, in the rows and in what transfers have read.
`DoublesAreMixed`: a camera in two places was mixed and is stale. The last is
stronger than `OnePlace` needs, and `RevertsOnlyWhenOvertaken` needs it: an edit
brings one of the two up to date and leaves the other behind. Each write is first
reduced to what it does to rows and history (`Outcome`), and every part of the
invariant is then carried over each outcome.

*`Ingest` with `LiveSession`.* `SkippedIsCovered`: whoever is not due had a record
younger than the cadence when it looked; records stay (`RecordStays`), so it has
still. `OverlapIsUnseen` and `DueIsApart`: two uploads under way have not seen
each other, and one that is due is a cadence apart from every record it could
see; `Progress` orders the check before the capture. `StampIsPast`: a POST decides
with a time that is past, so that the condition of its put is no weaker than the
lease's. The refinement to `SessionLease` needs nothing else.

*`Accounts` within `Flags`.* `AInv`: of an email, at most one request is past
AdminCreateUser at a time (`OneCreator`), because the pool refuses the second;
until its group call that account has no group and no record (`CreatorOK`); and
the one who made it is an admin, who stays one (`AccountOK`). `FInv` rests on it:
an account only gains, so what a caller could reach when he was checked he can
reach ever after (`ReachGrows`), and what a report, a PATCH or a listing remembers
between its calls is within its caller's reach.

*`Flags`.* `KInv` relates the table to what lags behind it. `IndexBehind`: GSI1
shows a flag at a status from which the present one is an allowed move.
`PatchAllowed`: a PATCH that nobody has overtaken makes an allowed transition, or
none when it writes a second time. `ResendsOK`: the flag that is sent again is the
row that is there, unless its report was overtaken. `CrossingKeeps` says what a
write does to the excuses: it adds them and takes none away. `Looked`: a flag that a
report has looked for and not found is one it is blind to, or of a contended row
-- inductive only because `StatusesForward` says no status leads back to open, so a
flag the open-query missed is found by the acknowledged one. `ListingsOwe` is the
same for listings.

*`Footage`.* `HoursInv`: the hours in force are what the record resolves to, unless
legacy hours were kept, which `NoLegacyInv` rules out for new sites;
`WindowIsWork` then says, for every length of day and week, every window and
every local time, that `InWindow` is `AtWork`, by cases on whether work began
today, yesterday or neither (`DayBefore` is the arithmetic of the turn of the
week). `DeletionInv`: a timestamp a DELETE has passed is gone (`PassedAreGone`),
and a half-deleted one has a DELETE at it (`HalfIsHeld`). `ReadInv`: what a reader
has in hand is a sorted list of everything that stayed and lies before its cursor
(`PagesOK`), one bucket at a time for a sample (`SampleOK`), or everything up to
the cursor for frames (`FramesOK`). The lemmas carry the algorithms:
`AscendingIsSorted` and `PageIsNext` (what a Query answers), `PageExtends` (a page
appended to pages is still one), `BucketsAre` (buckets tile the window, none is
longer than its share rounded up), `SelectedIs`, and `PicksAreClose`,
`PicksAreSpaced`, `FramesAre`, `SpacedSpan` (rounded, deduplicated indices keep
both ends and an even spacing, whichever way a half is rounded).

### What the proofs changed in the models

- `contended` held flags; the proof of `StatusMovesForward` failed for the flag
  that takes over a row while two PATCH requests are under way to it. It now holds
  rows, and only those an overtaken request has written.
- Writes that are sent again turned a report into a writer like PATCH:
  `TableAssumption` keeps the names of the two apart.
- `RegistryAssumption` now says that no invocation is of two kinds.
- `TimelapseListing` kept an expired job's id free to be submitted again, which a
  UUID never is; hence `submitted`.
- `Hours` is parenthesised: TLC and the provers read `SUBSET Days \ {{}}`
  differently.
- `Ascending`, `Given`, `SiteRecords`, `SiteUpdates` and `Reads` state as
  definitions what TLC's library or the instance provided before.

### What is not proved

Liveness (`EventuallyKeptOrErased`, `EveryMessageDrains`, `EveryListingEnds`) needs
fairness and ENABLED, which the provers at hand do not do: TLC checks it on the
instances. The violations are TLC's traces. Nothing else that a run checks is
without a theorem.

## What is not modelled, and the plan

Next, in this order:

1. Proofs: the same results under weaker hypotheses where they hold -- stale reads
   in `PromotedDownloads` up to the 404, crashes in `CopiesHaveRecords` up to the
   copy of the killed promotion.
2. The registry composed with ingest: a transfer, or a rotation, during an upload.
3. Edits and deletes of `CameraRegistry` that the SDK sends again late.
4. The logo of a tenant (object, then record).

Left out because a model would say nothing that the code does not: the creation of
tenants and sites, each a single conditional PutItem; the plain reads of
`tenants.py`, `sites.py` and `users_get.py`; the sandbox bootstrap, two idempotent
conditional puts that no deployed handler calls.

Left out for good: Cognito's own behaviour beyond the calls the handlers make,
the weather lookup (a call whose failure is swallowed), ffmpeg, the shell
scripts, and HTTP formatting.
