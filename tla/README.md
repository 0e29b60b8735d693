# Kelal Studio: TLA+ models

Kelal Studio turns a caption idea into a post: text, an image or a short video.
A Go backend keeps accounts, quotas, brand kits, assets and generation jobs; a
Flutter app edits, drafts and exports; a React portal holds brand kits and the
admin pages. This directory specifies the parts where requests, callbacks and
failures meet.

- `<Component>.tla`: the specification of one component, with the properties
  it must have and, beside the definition each one changes, the *mutations* a
  run must be able to tell from the code;
- `MC<Name>.tla` and `*.cfg`: small instances for TLC;
- `*Proofs.tla`: theorems for every value of the constants, checked by TLAPS.
  `AuthSessionsProofs`, `QuotaProofs`, `VideoJobsProofs`, `GenerationProofs` and
  `HashtagsProofs` are about the component they are named after; `ServicesProofs`
  is about the components of the run `Backend`, `SessionProofs` about the sessions
  of the app and the portal, `EditorProofs` about the editor and the drafts;
- `PROJECT.json`: which lines each definition stands for, the runs, mutations,
  hazards, findings and theorems.

Run `tlc -config Backend.cfg MCBackend` to check an instance and
`tlapm QuotaProofs.tla` to check proofs.

## The system

| Part | State it keeps | Operations | What is hard | What makes it correct | Module |
|---|---|---|---|---|---|
| Accounts and sessions (`features/auth`) | `users`, `refresh_tokens` | register, login, refresh, reset, delete | every handler reads, decides and writes in separate statements; bcrypt between them | a token is rotated once; reuse is noticed; a lock follows too many failures; a reset link works once | `AuthSessions` |
| Signed tokens and verification (`platform/auth`, `features/auth`) | what was signed and delivered, `email_verified_at` | mint, parse, verify, the gates | three kinds of tokens share a secret and differ in the claims they lack | a token does what it was minted for | `Verification` |
| Daily quota (`features/quota`) | `quota_consumptions`, one row per user and day | charge and check, read | charge and check are two statements; midnight; two adapters that differ | no more calls than the cap | `Quota` |
| Generation (`features/generation`, moderation, provider chains) | `generation_records`, `moderation_flags` | text, image, video requests | charge, moderation, providers, storage: each may fail, and the client may leave | nothing leaves before moderation and charge; what is answered was stored | `Generation` |
| Video jobs (`features/generation`, `platform/queue`) | `jobs`, a bounded channel | submit, consume, poll | channel full, cancelled contexts, shutdown, crash | a finished job can be downloaded; no job is forgotten silently | `VideoJobs` |
| Assets (`features/asset`) and blob store (`platform/storage`) | `assets`, files | upload, download, put, get, delete | bytes and row in two places; crash in a write | a row has its bytes; files are whole | `Generation`, `FileStore`, `BlobStore` |
| Hashtag bank (`features/hashtag`) | constant tables | suggest, merge | loops that stop by different tests | enough tags, none twice, the provider's first | `Hashtags` |
| Brand kit (`features/brandkit`) | `brand_kits` | get, upsert | two first saves | one owner, no overwrite | `BrandKits` |
| Admin (`features/admin`) | `moderation_flags`, `users`, `admin_audit_log` | review, set limits, list, summary | two admins at once; change and audit row | one review and one audit entry per act | `AdminReview` |
| Reminders (`features/reminder`) | `reminders` | create, fire every minute | crash between mark and delivery | a due reminder is fired, and notified at most once | `Reminders` |
| Rate limiter (`platform/httpx/middleware`) | a bucket per key | allow | created on demand by concurrent requests | no more than the burst and the rate | `RateLimit` |
| Configuration and start (`platform/config`, `cmd/*`) | none | load, validate, wire | fourteen variables, defaults and refusals | production runs on what production needs | `Startup` |
| Mobile session (`AuthInterceptor`, `SecureTokenStorage`, `AuthRepositoryImpl`) | two stored tokens, one shared future, the auth stream | call, refresh, login, logout, start | code runs at every `await`; answers lost; app killed | one refresh at a time; no token presented twice; every call ends | `TokenClient` |
| Mobile drafts (`features/drafts`) | SQLite rows, images, a debounce timer, a list state | autosave, evict, delete, resume, remind | saves overlap, deletions and evictions meet saves | the latest scene is stored; a deleted draft stays deleted | `Drafts` |
| Canvas editor (`features/canvas_editor`) | scene, selection | gestures, ratio | clamping at the edges | layers stay clear of the covered bands | `CanvasEditor` |
| Web portal session (`web/src/api`, `auth`) | a refresh token in `sessionStorage`, an access token in memory | call, refresh, login, logout, reload | callers share a promise; reloads | as the mobile session | `WebSession` |
| Mobile generation, video teaser, brand kit, quota badge, export; screens | bloc states | one request each | little: see *Not modelled* | the screen shows the latest request | |

Interactions: the HTTP handlers of `features/*` call services, services call
repositories (one SQL statement per call) and platform ports (queue, storage,
providers, mail). `GenerateVideo` charges the quota, writes a job row and hands
the job to the channel; the consumer goroutine of `cmd/api` calls
`ProcessVideoJob`, which runs the providers and stores the result. The app calls
the API through Dio with `AuthInterceptor`, whose refreshes end in
`Service.Refresh` of the backend. `main` ties the lifetimes together.

Three modules describe the same code from several sides. `Generation` follows a
request from the handler to the downloadable asset and *uses* `Quota` (an
instance of it: its charging and checking steps are `Quota`'s own actions) and
the promise of `BlobStore`; `FileStore` shows that the files keep that promise;
`VideoJobs` has the queue and the process between the two halves of a video
request, which `Generation` takes as one step. `AuthSessions` follows passwords,
sessions and locks, `Verification` what each token may be used for.

## What is modelled, and how it corresponds to the code

### AuthSessions

State: the columns of `users` (existence, `token_version`,
`failed_login_attempts`, `locked_until`) and of `refresh_tokens` (existence and
`revoked_at`, `user_id`, `rotated_from_id`, expiry), and for each handler
goroutine the repository call it makes next with what it has read. A password is
identified with the `token_version` it was set under: `UpdateUserPassword` is the
only writer of both and changes them in one statement.

One action is one SQL statement, with the computation that leads to the next:
`Login` is `LoginRightPassword` or `LoginWrongPassword` (the read, the lock check
and the bcrypt comparison, decided on what was read), then `LoginFail`,
`LoginLock` or `LoginClear`, then `IssueSession`. `Refresh` is `RefreshFind`,
then `RefreshReuse`, or `RefreshRevoke`, `RefreshLookup` and `IssueSession`.
`ConfirmReset` and `ResetSweep`, `DeleteAccount`, `DeleteSweep` and `SoftDelete`
are the reset and the deletion. `Abort` ends a handler between two statements:
a statement failed, the client left, or the process died, which for rows is the
same. Reset links are kept as the pairs of account and version signed into them;
they may be used again and again and are never withdrawn, so replays and double
submits are included. What overlapping requests may do is kept in history
variables: sessions opened for deleted accounts (`lateTokens`), locks that were
never written (`lostLocks`), the password a session goes back to (`credential`) and
the one the last sweep saw (`swept`), tokens two refreshes had both found live
(`contested`), what happened to an account since a handler read it (`passed`) and
the rows such a handler inserted after a sweep (`outlived`).

### Verification

A token is what it was signed with and the claims the routes look at: secret,
user, `jti`, purpose, role, `email_verified`. A claim its JSON does not have is
decoded as the empty value, which is what keeps the kinds apart: reset,
verification and refresh tokens are signed with the same secret. Every route
(`PresentRefresh`, `VerifyEmail`, `ConfirmReset`, `DeleteAccount`) takes *any*
token in circulation, filtered only by its parser. `serving` is what each handler
is at: a login, a refresh, a reset, a resend and a registration read the account
(`Login`, `FindAccount`, `RequestPasswordReset`, `ResendVerification`, `Register`)
and sign in a later step (`IssueSession`, `SendMail`), a refresh revokes
(`RevokePresented`) before it looks the account up, and a deletion sweeps
(`RevokeAllOf`) before `SoftDelete`. Any of them may end between two statements
(`GivesUp`), so mail may not arrive. The two secrets are taken to differ: nothing
in the code compares them.

### Quota

One user. State: the row of each day (whether it exists, the counters by
type) and the requests between the charge and the check. `UpsertAndCheck` is the
upsert, `Check` is `GetTodayUsage` with the comparison; each takes the day from
the clock, and `Midnight` may fall between them. `CountsFirst` selects the
adapter: the in-memory one counts the call that creates the row, the Postgres one
inserts zeros and increments only on conflict.

### Generation

State: per request the step of its handler (then of the worker), what it asks
for, whether its client has left, how many providers were tried, what the client
was told; and the stored things, each named by the request that makes it: flag,
blob, asset row, record. `Charge` and `Enforce` are `Q!UpsertAndCheck` and
`Q!Check` of `Quota`. `Moderate` takes the verdicts each checker may give: the
outside classifier is free to answer anything, and only a well-formed answer that
flags nothing lets a request through. `Attempt` is one turn of the failover loop,
with `Reply` and `Parsed` for what an API may send and what the adapter makes of
it. `Put`, `CreateAsset`, `Cleanup` are `persistAsset`, `Record` the record.
A statement on Postgres fails when its context is done, that is when `left`; any
statement or file operation may fail, and an insert may take effect although its
answer is lost. `Dies` is a crash or a panic at any point.

### BlobStore and FileStore

`BlobStore` is what the `Store` and `Reader` ports promise, and what
`memory.go` does: a map on which each call takes effect at once between its call
and its return, or fails without effect. It has a second map, of what a loss of
power brings back. `FileStore` is `fsStore`: `CreateTemp`, `Write`, `Sync`,
`Close`, `Rename`, the deferred `RemoveTemp`, with callers that overlap on one
key, a failure at each step, a kill and a loss of power anywhere. `FlushEntry` is
the kernel writing a directory entry whenever it likes, since nothing syncs the
directory: an entry `Put` has returned for may be lost with the power, as it may
in `BlobStore`; half a file may not be.

### VideoJobs

State: the job and asset rows and the blobs, which survive the process; the
channel, the handlers and the consumer, which do not; and the process
itself (running, told to stop, down). `GenerateVideo` creates the row; `Enqueue`
and `EnqueueCancelled` are the two cases of the `select`, and `EnqueueFailed` the
update that follows the second. The consumer's steps are `Take`, `MarkRunning`,
`RunProviders`, `Put`, `CreateAsset`, `DeleteBlob`, `MarkDone`, `MarkFailed`.
`CtxChecked` says whether the repository refuses statements of a context that
is done: Postgres does, the in-memory adapter does not look. `Faults` lets any
statement or file operation fail by itself, and a statement take effect although its
answer is lost; after such an insert the code deletes the blob and leaves the row,
which `unanswered` remembers. `Boot` restarts the program, which
reads nothing back. On a signal the consumer stops at once, while the HTTP server
drains for up to fifteen seconds.

### Hashtags

`Suggest`, `MatchTopic` and `MergeHashtags` as functions. A tag is a sequence of
symbols, and the tables keep their sizes and their overlaps, which is what the
loops can tell apart. The loop that looks at the length after appending
(`AppendNew`) and the one that looks on every turn (`TopUp`) are kept apart,
because they stop differently; each is a recursive function over the positions
of its list, with one turn of the loop as an operator (`AppendTurn`,
`TopUpTurn`). The property is stated against a reference: the
distinct tags of provider, bank and fallbacks, in this order, cut off.

### AdminReview, BrandKits, Reminders, RateLimit

- `AdminReview`: `FindFlag`/`ClaimFlag` and `FindOwner`/`WriteCaps` are the read
  and the transaction of a review and of the overrides of a user; the
  transaction contains the audit row, and its commit may succeed with its answer
  lost. `audits` is the *set* of requests that have a row. A row names the admin,
  the action and the target; it holds no caps, its `created_at` is taken by the
  service before the transaction begins and its id is random, so the table neither
  orders the commits nor says which values are the latest. `CountNext` is the
  usage summary, seven `COUNT`s that do not share a snapshot.
- `BrandKits`: a PUT is `FindKit`, then `Replace` or `Insert`, for kits under ids
  that clients choose. The nil uuid stands apart: `BeforeCreate` replaces it, so
  each PUT of it creates another kit.
- `Reminders`: the sweep of the ticker is `FindDue` (the batch, ordered), then
  `Mark` and `Notify` per reminder; `MarkErrs` is a write that failed, or that
  took effect although its answer was lost; `Restart` kills the process anywhere.
- `RateLimit`: a request passes the limiter of its address, and on some routes
  that of its user. `LookUp` finds or makes the bucket under the lock, `Take` asks
  it for a token after it, so both interleave with other requests. The bucket is
  the library's.

### Startup

`Load` completes an environment with defaults, `Validate` refuses, and each step
of `run` makes one adapter from the result, or ends the process: database,
migration, blob store, mail, router, repositories, chains, moderation, quota. The
three ways to start (`api`, `-migrate-only`, the worker, which consumes nothing
in this version) share the module.

### TokenClient

State: the server's view of each token pair (only what a client can tell), the
two entries of the secure storage, the latest value of the auth stream, the API
calls, the futures of `_refresh`, `_refreshInFlight`, and the login or logout in
progress. Dart runs one piece of code at a time and switches at an `await`, so an
action is the code between two awaits; the storage writes of a pair are two
actions. `Returns` completes a future: its waiters resume before any other code,
and each sets `_refreshInFlight` to null. `RefreshRejected` leaves the future in
the step `waits`: the answer of the refresh request passes through the
interceptor it was sent from; `CallsEndUnlessRefused` excepts the calls that meet
it. A request may always fail; `Losses` also allows the answer to a rotation to
get lost and the app to be killed, and `mislaid` remembers the tokens whose
successor never reached the storage; `SessionsEnd` lets stored refresh tokens expire
or be revoked.
Budgets (`MaxPairs`) only stop new calls and logins, never a refresh.

### WebSession

The same for the portal in one tab. JavaScript's storage is synchronous, so what
runs between two awaits is larger than in Dart: `StorePair` stores both tokens
and resumes the waiters in one step. `ShareOrBegin` is
`refreshInFlight ??= refresh()`, `Settles` the promise that resolves and its
`finally`. `Reload` starts the page again with what is in `sessionStorage`, while
a refresh that was sent may still reach the server. A tab of its own is the unit:
`sessionStorage` is not shared, except that a duplicated tab starts with a copy,
which is not modelled.

### Drafts

State: per editing session the scene shown, the scene the timer would save and
the last one it fired for; per session and scene how far the save is; the image
files; the rows in the order of `lastSavedAt`; the statements waiting for the
database, which takes one at a time; the list the bloc shows, and what its two
handlers that await have read before. `TimerFires`, `OpenImage`, `WriteImage`,
`SaveCommits` are `DraftAutosaveCubit` with `DraftRepositoryImpl.save`, eviction
included; `DeleteCommits`, `Resumed` and `ReminderSet` are the handlers of
`DraftsListBloc`, with `droppable()` and `sequential()` as guards;
`ListUpdated` is the watched query. `DraftsKilled` kills the app anywhere.

### CanvasEditor

One synchronous handler of `CanvasEditorBloc` per action. Positions are fractions of
the canvas in units of 1/3,456,000, in which every height that can occur with the
real constants (fonts 24, 64 and 220, a line of 1.55 times the font, canvases of
1024, 1080 and 1350 pixels, bands of 10 % and 15 %) is a whole number, so that
clamping is exact. Only the targets of drags and pinches are sampled.

### Composites

`MCBackend` and `MCClients` check the components that share no state in one run
each: a behaviour chooses one of them at the start (`focus`) and runs it alone,
the others stay at rest. This loses nothing, as none reads another's variables,
and it avoids the product of their states; `BackendIsItsParts` and
`ClientsAreTheirParts` prove that each composite implements the specification of
every part, so that a theorem about a part holds of the composite. Two components are split further:
the summary of `AdminReview` interleaves with records, not with reviews
(`usage`), and the list of `Drafts` is checked with two sessions and no
failures (`list`), the saves with three sessions and all of them (`drafts`).

## What the runs check

| Run | Instance | Properties |
|---|---|---|
| `AuthRotation` | 1 account, 3 tokens, 2 overlapping requests, threshold 1, one reset | `RotatedIsRevoked`, `RotatedOnce`, `LateTokensAreDeadEnds`, `NoSessionOutlivesReset`, `ResetSpendsCurrentLink`, `ThresholdLocks`, `LockStands` |
| `VideoFaults` | 3 jobs, channel of 1, Postgres, every fault, stops and restarts | `ResultsAreStored`, `NothingForgotten`, `FinalStands`, `JobsSettle` |
| `Generation` | 3 overlapping requests of one user on Postgres, a chain of Gemini and the stub, caps of 1 | `VerdictsStand`, `SpendCapped`, `AnswersAreBacked`, `NoOrphans`, `FailoverIsComplete`, `UsesQuota` |
| `Backend` | the in-memory quota, the file store, hashtags, admin, summary, kits, reminders, rate limiters, tokens, start-up | `BackendTypeOK`, `DailyCap`, `EveryCallCounted`, `ActsAsBlobStore`, `TagsAsPromised`, `StateIsAudited`, `AdminsToldTruth`, `KitsSafe`, `NotifiedOnce`, `AllFire`, `RateKept`, `TokensKeepTheirWord`, `DeletedIsOut`, `ServesAsConfigured` |
| `Clients` | the mobile session with 2 calls and 2 futures, losses, kills and ended sessions; the editor; drafts; the portal | `ClientsTypeOK`, `OneRefresh`, `NoFalseAlarm`, `StoredIsUsable`, `CallsEndUnlessRefused`, `LayersClear`, `DraftsKept`, `DraftsLeave`, `PortalRefreshSound` |

Seven runs show where the code departs from what its comments say; each is a
finding in `PROJECT.json`.

| Run | Property | What happens |
|---|---|---|
| `QuotaFirstCall` | `EveryCallCounted` | with Postgres the first call of a day creates a row of zeros and is not counted, so the cap is one higher for its type |
| `VideoEnqueue` | `EnqueueFailureRecorded` | the update that marks a job failed runs under the cancelled context that made `Enqueue` fail; the job stays queued for ever |
| `TokenSelfWait` | `CallsEnd` | a refresh answered 401 awaits itself, and every later 401 awaits it: no call that needs a refresh ends |
| `TokenLogout` | `LogoutClears` | a refresh in flight at logout stores its tokens after they were cleared |
| `HashtagsExact` | `ExactlyAsAsked` | the tags of the provider are never cut and the length is compared after one of the bank was appended, so a caption gets more than the `n` tags that `bank.go:362-363` promises |
| `ProductionChecker` | `ProductionIsModerated` | with a `MODERATION_PROVIDER` it does not know, a production server starts with the permissive checker, which `permissive.go:11` says never happens |
| `CanvasRatio` | `StaysSafe` | a layer that was clear of the lower band at 4:5 overlaps it at 1:1: its height in pixels is a larger part of the canvas, and nothing is clamped when the ratio changes |

### What the properties leave room for

Writing a property so that it holds showed where the code promises less than a
reader may think.

- *Auth.* Three promises hold with exceptions, and each property names who is
  excepted. Two refreshes that had both found a token live both rotate it, as
  `RevokeRefreshToken` does not look at the rows affected (`RotatedOnce` excepts
  the tokens contested so, and no others). A login or refresh that read before a
  reset swept issues its session after (`NoSessionOutlivesReset` excepts these rows
  and their successors). A right password read before the lock was written clears
  the lock (`LockStands`).
- *Deleted accounts.* A handler that had found the account still signs for it once:
  a login or a refresh issues a pair, a reset or a resend mails its link.
  `DeletedIsOut` says that no handler joins those few after the deletion, and
  `LateTokensAreDeadEnds` that their sessions are never extended.
- *Video.* As in `Generation`, an insert whose answer is lost is followed by the
  removal of the bytes: the row stays without them. `ResultsAreStored` excepts such
  rows, which no finished job links to.
- *Quota.* A call charged before midnight is measured against the next day, which
  is why `DailyCap` speaks of the calls let through on the day they were charged;
  calls that overlap at the cap may all be refused.
- *Generation.* The charge of a request that is refused or fails is not given
  back. A caption may come back with its English half empty, and the image adapter
  always makes 1024x1024. An insert whose answer is lost is followed by the
  removal of the bytes, which leaves a row without them (`NoOrphans` excepts it).
  On Postgres a missing asset is a 500, in the mock a 404.
- *Hashtags.* `TagsAsPromised` says what `MergeHashtags` does return, since it is not
  `n` tags (`HashtagsExact`): all of the provider's and at most one more. `Suggest`
  returns one too many when the topic's tags fill the list and the fallback was
  not among them. Capitals are dropped, not lowered, and keywords match inside
  words.
- *Admin.* The audit log tells who changed the overrides of a user, not to what nor
  in which order: `StateIsAudited` says that what a user has was sent by one of the
  requests with a row about him. The overrides are written and audited, but
  nothing outside the admin feature reads them, although `models/user.go:44-50` says they override the
  caps. A 500 may hide a commit. The counts of a summary may disagree, in one
  direction only.
- *Start-up.* `ServesAsConfigured` reads every adapter off the environment, the
  permissive checker for a provider it does not know included (`ProductionChecker`).
  `GLOBAL_DAILY_SPEND_CEILING` is never read, the API ignores `QUEUE_DRIVER`, and
  `VideoMaxAttempts` is used as the size of the channel.
- *Mobile session.* A token whose successor was lost on its way to the storage is
  presented again, and the server ends every session: `NoFalseAlarm` and
  `StoredIsUsable` except these tokens and no others. A failed refresh clears the tokens and leaves the auth stream
  at true.
- *Drafts.* Closing the editor cancels the timer, so edits of the last two seconds
  are not saved. When two saves overlap the older scene may be stored last. A list
  read before an await is shown again after it, so a deleted draft may reappear
  until the next change, and deleting it again emits nothing. Images of deleted or
  evicted drafts stay, and so do their reminders.
- *Portal.* A refresh that completes after a logout restores the tokens, possibly
  over another account's; one that fails clears a newer login's; and the status
  stays `authenticated` after a failed refresh. With storage blocked the session
  ends with the access token, although `tokens.ts:40` says it works until the tab
  is closed.

### Bounds

A violation of the properties needs few actors: two handlers and a third token
(a token, the successor, and one issued late) for rotation; one more call than
the cap for the quota; one job in the consumer, one in the channel and one
waiting for `VideoJobs`; a call that starts a refresh, and one that joins it or is
answered after it, for `TokenClient`; an image, which creates the row of the day,
and two texts that compete for a cap of one for `Generation`; two callers on one
key and two contents for the store; two requests of one admin and one of
another; for `Verification` one account, no admin, and two handlers, one of which
deletes it: handlers change only rows of their own account, so that a second one
would meet nothing of the first, and the theorems are about any number of both;
three PUTs, of which two by one owner; three reminders for a batch of two; three
requests for a burst of two; three drafts for a shelf of two; two requests and
two promises for the portal, so that one can outlive the other.

`MaxAttempts`, `MaxVersion`, `MaxDay`, `MaxCalls`, `MaxPairs`, `MaxWebPairs`,
`MaxRecords`, `MaxClock`, `MaxTicks` and `MaxTokens` bound counters and sets; each
appears in the guard of the action that would pass it, and otherwise only in
types and ranges. A bounded action only stops happening, so no state is cut off
halfway through a handler. `MaxTokens` counts the tokens that have not expired: a
token that would exceed it is issued once another has expired.

The environments of `Startup` are the product of the values that a branch tells
apart, in two groups: a deployed backend, and a machine with mock data or wrong
values. `Drafts` takes the times of two saves to be distinct, as the column they
are ordered by has a resolution of one second and saves of one session are two
seconds apart.

Requests and tokens are interchangeable and are symmetry sets in `AuthRotation` and
`Generation`. `Clients` and `VideoFaults` check liveness and use none.

### Fairness

Three specifications state fairness, each for what the code keeps doing.

- `VideoJobs!FairSpec`: each handler and the consumer keep going (goroutines that
  can run are run, providers end within their timeouts); clients, signals and the
  process are not fair. `JobsSettle` is about behaviours in which the process
  keeps running. Weak fairness is enough: each job competes for channel space once.
- `TokenClient!FairSpec`: requests are answered or time out, and the event loop
  runs every continuation; users are not fair. Weak fairness.
- `Reminders!ReminderFairness`: the ticker ticks and its sweep goes on. Finding and
  marking are strongly fair: a restart or a failing statement disables them for
  a while, and a database that refuses *every* write fires nothing, which is no
  fault of the sweep. `Notify` is weakly fair.

## What is proved

All theorems are for any value of the constants that satisfies the named
assumptions: any number of accounts, tokens, requests, jobs, calls, callers, keys,
flags, kits, posts, visitors, sessions and layers, any caps, chains, thresholds,
rates and capacities. Every safety property of a passing run is stated by a
theorem.

| Theorem | Establishes |
|---|---|
| `AuthSessionsProofs!TypeCorrect`, `RotationSafe`, `DeletionEndsChains`, `LockoutEngages`, `ResetSingleUse` | `TypeOK`, `RotatedIsRevoked`, `LateTokensAreDeadEnds`, `ThresholdLocks`, `ResetSpendsCurrentLink`, however requests overlap |
| `AuthSessionsProofs!RotatesOnce`, `ResetEndsSessions`, `LockLiftsInTime` | `RotatedOnce`, `NoSessionOutlivesReset` and `LockStands`, for any number of overlapping requests |
| `QuotaProofs!TypeCorrect`, `CapHolds`, `MemoryCountsEveryCall` | `TypeOK`, `DailyCap`, and `EveryCallCounted` for the in-memory adapter |
| `GenerationProofs!TypeCorrect`, `QuotaUsed` | `TypeOK`, and `UsesQuota`: every step of the studio is a step of `Quota` or leaves it alone |
| `GenerationProofs!NothingUnchecked`, `SpendIsCapped`, `AnswersBacked`, `NothingOrphaned`, `FailoverComplete` | `VerdictsStand`, `SpendCapped`, `AnswersAreBacked`, `NoOrphans`, `FailoverIsComplete` |
| `VideoJobsProofs!TypeCorrect`, `FinishedIsStored`, `NothingIsForgotten`, `DecidedOnce` | `TypeOK`, `ResultsAreStored`, `NothingForgotten`, `FinalStands` |
| `ServicesProofs!ImplementsBlobStore`, `NeverTorn` | `ActsAsBlobStore` (`FileSpec => Blobs!Spec`), and that no name ever shows part of a blob |
| `ServicesProofs!LogTellsAll`, `ToldTruth`, `FirstReviewStands` | `StateIsAudited`, `AdminsToldTruth`, and that the reviewer and verdict of a flag are never replaced |
| `ServicesProofs!WordKept`, `OutForGood` | `TokensKeepTheirWord`, `DeletedIsOut` |
| `ServicesProofs!KitsAreSafe`, `OwnersStay` | `KitsSafe`, and that a kit keeps its owner and a write changes one kit |
| `ServicesProofs!NobodyIsToldTwice` | `NotifiedOnce` |
| `ServicesProofs!TheRateIsKept` | `RateKept` |
| `ServicesProofs!ServerIsAsConfigured` | `ServesAsConfigured` |
| `ServicesProofs!BackendIsItsParts`, `BackendTyped` | the composite of the run `Backend` implements each of its parts; `BackendTypeOK` |
| `HashtagsProofs!TagsKeepTheirPromise` | `TagsAsPromised`, for any lists of a provider and any count |
| `SessionProofs!TypeCorrect`, `RefreshIsShared` | `TypeOK`, `OneRefresh` of the app, whatever is lost |
| `SessionProofs!NeverReplays`, `StorageIsUsable` | `NoFalseAlarm` and `StoredIsUsable`, whatever is lost |
| `SessionProofs!PortalRefreshesSoundly` | `PortalRefreshSound` |
| `EditorProofs!TouchedLayersAreClear` | `LayersClear`, for any scene, drag and pinch |
| `EditorProofs!WhatIsSavedIsKept`, `DraftsLeaveByRule` | `DraftsKept`, `DraftsLeave` |
| `EditorProofs!ClientsAreTheirParts`, `ClientsTyped` | the composite of the run `Clients` implements each of its parts; `ClientsTypeOK` |

### The assumptions

Most say that a model value is none of the others (`NoneAssumption`,
`ContentAssumption`, `LayerAssumption`, `ExchangeAssumption`), that a set of
actors is finite, or that a bound is a number. Those that say something about the
program:

- `KitAssumption`: a kit sent under the nil uuid gets one that no client has chosen
  (`BeforeCreate` draws a random uuid).
- `ReminderAssumption`: the batch of a sweep is not empty.
- `RateAssumption` takes any configured rate, negative ones too: the code makes a
  rate below one one. No address is a user, and requests without a user are apart.
- `EnvironmentAssumption`: a variable is unset, or what its parser makes of it.
- `SceneAssumption`: an image is at least 1024 pixels high, as those of both
  providers are (`gemini/image.go:275-276`, `stub/image_stub.go:58-60`), and the
  layers of a scene have different ids and are where the editor can have left
  them: within the width, with a font between the two limits. How far down they
  are is free.
- `DraftAssumption`: the shelf has room for one draft.
- `TagAssumption`: a provider returns lists of strings and a caller asks for a
  number, which may be negative.
- `ChainAssumption`: the chain is not empty (`factory.go` makes an empty one the
  stub).

### The invariants and why they are stronger than the properties

- *Auth.* A property about rows is kept only because of what handlers in flight
  know: `Knows(r)` says that a handler about to issue a successor holds a revoked
  token of its own account, and not one issued too late. `RowsOwned` ties rows to
  registered owners, `UnregisteredIsClean` starts the counter at zero. Three
  theorems add what a handler knows of the others: `Claims` (two that replace one
  token have contested it), `UpToDate` (what a handler about to open a session read
  is no older than the last sweep, unless the sweep came after the reading) and
  `ClearsNoLock` (a lock that a login about to clear the counter meets was set after
  its reading).
- *Quota.* `Accounting`: counter plus the uncounted call equals calls settled
  plus calls waiting. Then a call let through below the cap finds its place among
  the counted ones, whatever waits.
- *Generation.* `InOrder(r)` says of each request what must be true at its step
  (allowed from the providers on, no check of the quota under way outside
  `Enforce`, bytes stored from the row on, and so forth); `Spending` says that what was let through by the quota covers what
  was sent to providers. The quota's own theorems are instantiated
  (`QP == INSTANCE QuotaProofs WITH req <- charging`) and apply because of
  `QuotaUsed`, so the cap is not proved a second time.
- *Video.* `OneHolder`: a job is in one pair of hands. `WorkerKnows`: what the
  consumer has stored at each step, a row that it takes for missing being an
  unanswered one. Neither alone is inductive: two holders could
  decide twice, and a consumer that forgot a step could mark a lost result done.
- *File store.* `FileTypeOK`, `NeverCorrupt`, `ArgumentsKept` (a temporary file
  holds what its caller asked to store from the write on) and `SyncedFirst` (a file
  that is about to take its name has no bytes only in memory). The refinement maps
  the steps before `Rename` to stuttering, `Rename` to `Commit` and `FlushEntry` to
  `Flush`; without `SyncedFirst` a flush could write half a file.
- *Admin.* `TasksOK` and `RowsOK` (an audit row is that of a request that has ended,
  and whoever was told of success has one) with `StateIsAudited`; `Covering` orders
  the counts taken so far below those still to come.
- *Verification.* Every token in circulation was minted by one of the four
  generators (all tokens are genuine), and `RequestsHold` says that what a
  handler read of its account still holds: it exists, and is verified if it was. For
  `DeletedIsOut`, `StaysOut` is checked of each action on its own: only those that
  look an account up add a handler to the ones about to sign.
- *Brand kits.* `PutsOK`: the kit a request found, and is about to replace, is its
  sender's still, since owners never change; and a row under an id drawn for a
  request was made by it alone.
- *Reminders.* `SweepOK`: what a sweep has still to go through is due, named once,
  pending and told to nobody, but for the first, which is marked before its user is
  notified. It starts at the batch, which the query makes without repetition.
- *Rate limiters.* `VisitsOK` (a request that holds a bucket holds the one in the
  map, whoever made it) and `BucketsOK`: what is in a bucket and what was taken
  from it make up its burst and at most the refills. A sum is inductive where the
  bound on what was taken is not.
- *Start-up.* `ConfigOK` and `WiredOK` say step by step what is known of the
  configuration and which adapters are wired by then; the order of the steps is
  what makes them true.
- *Hashtags.* `TagInv` says that the lists are what the two functions return; the
  work is in the functions. The library's induction takes a predicate as a
  parameter, so induction over the positions of a list is derived from `WFMin`,
  whose parameter is a set (`InductionUpTo`), and so is the existence of the
  recursive functions (`StepsExist`). A *run* over the concatenation of three
  lists is what appending every unseen tag of it gives after each position: the
  loops stop somewhere on the run (`AppendRuns`, `TopUpRuns`), and a run only
  grows, by at most one tag a turn (`RunGrows`), which gives the order, the cut
  and the one tag too many.
- *Mobile session.* `Shape` is the type invariant with `HoldersHold` and
  `OneRefresh`, which need each other: a slot names a future at work. `Fresh` says
  that what a refresh is about to present or store, and a login's pair, was not
  rotated.
- *Portal.* `WebHolders` (what the tab holds was issued) and `WebFresh`, which says
  where a rotated token may still be: in storage while the answer that replaces it
  is awaited, and where a reload has cut that answer off.
- *Editor.* The invariant is the property with the types and the ids; the proof is
  arithmetic. For any canvas of at least 1024 pixels the tallest layer leaves room
  between the bands, so clamping has an interval to clamp into.
- *Drafts.* `SavesOK` (scenes are saved in the order they are shown, one at a time
  where no save overlapped), `JobsOK` (a save waits for the database once),
  `ListsOK` and `BuriedOK` (what lists name, and what was deleted, has no save
  under way), `ImagesOK` (an image that is not whole is still being written or has
  no row), `LatestOK` and `FeedOK`. The eviction of a row is the case that needs
  them all.

Each proof has `Init => IInv`, one lemma or step per action for
`IInv /\ [Next]_vars => IInv'`, and `IInv => Property`. The type invariants of
`AuthSessions`, `VideoJobs`, `TokenClient` and `Generation` are proved and not run.

Only model-checked: the liveness properties `JobsSettle`, `CallsEndUnlessRefused`
and `AllFire` (fairness and ENABLED are out of the prover's reach), and the
properties of the seven runs that find a violation. `EveryCallCounted` is among
these for the Postgres adapter and proved for the in-memory one.

## Not modelled

`PROJECT.json` lists each part with its status.

- *Mobile generation and composer*: `droppable()` lets no second request start
  before the first was answered, so nothing interleaves.
- *Video teaser*: the repository behind its polling is a stand-in that answers
  after a fixed second; there is no exchange with the backend to model.
- *Mobile brand kit*: its page disables saving while a save or an upload is under
  way, so its handlers run one at a time. *Quota badge* and *export* are one
  request each and keep no state that another part reads.
- Screens, themes, navigation, validation of request bodies, logging, API
  documentation: formatting and static content, no state.
- Signatures, bcrypt and the SMTP dialogue: tokens and links are what the server
  signed, and passwords are right or wrong.
- Prompts, decoding and image encoding in the provider adapters and the upload;
  only whether they succeed, and how they fail, matters to a request.

Inside the modelled parts: reads that only report (`GetUsage`, `GetJob`, lists),
the text, colour and logo of a scene (`CanvasEditor`), the verification flag and
the pending address of the app (`TokenClient`), duplicated tabs (`WebSession`), and
several instances of the backend: the code assumes one, with its limiter, channel
and ticker in memory.

## Plan

Done: accounts, quota, video jobs and the mobile session, then generation with
the stores it writes to, the smaller backend components, start-up, and the
clients. Next, in this order:

1. An abstract session client that `TokenClient` and `WebSession` both implement,
   as far as they agree, with the refinement proved.
2. `Generation` and `VideoJobs` joined: the step `Enqueue` of the one refined by
   the channel of the other.
3. Duplicated tabs in `WebSession`, and the exchange of the video teaser once it
   has one.
