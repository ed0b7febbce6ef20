# KodaClaw Community in TLA+

KodaClaw Community is a marketplace of skills for agents: a Go server (gin,
PostgreSQL, Redis, files on disk), an optional WebSocket relay that pushes
events to the instances of its users, and a command line client. These modules
model the parts of it where requests, goroutines and failures meet; TLC checks
them on small instances and TLAPS proves the main results for every instance.

Contents: [inventory](#inventory), [plan](#plan), [the modules and the
code](#the-modules-and-the-code), [the runs](#the-runs), [what the runs
found](#what-the-runs-found), [proofs](#proofs), [what is only
model-checked](#what-is-only-model-checked), [what is not
modelled](#what-is-not-modelled).

## Inventory

The server is one process. Every HTTP request has a goroutine; handlers keep
nothing between requests but the relay hub, the rate limiters and the record of
key notices, and otherwise meet in the database and on disk. Only one handler
opens a transaction that spans two tables (creating an asset with its first
version); everything else is a sequence of statements with no lock held over
two of them.

| Component | State | Operations | Meets |
|---|---|---|---|
| Relay hub and clients (`internal/relay`) | `Hub.clients` under a mutex; per client `done`, `outCh` (64 frames), a socket, two goroutines | `Register`, `Unregister`, `Disconnect`, `OnEvent`, `IsOnline`; `Run`, `readPump`, `writePump`, `close`, `send` | webhooks, notifications and bind codes call `OnEvent`; `RegenerateSecret` calls `Disconnect` |
| Relay instances (`handler/relay.go`) | rows of `relay_instances`: account id, hashed secret, webhook secret | create, delete, regenerate either secret, test | read by the handshake and by webhooks |
| Asset review (`handler/asset.go`, `handler/admin.go`) | status, current version and content of `assets`; status of `asset_versions` | `Create`, `UploadVersion`, `SetCurrentVersion`, `Update`, `Delete`; `Approve`, `Reject`, `ApproveVersion`, `RejectVersion` | author and administrators on the same rows |
| Asset files (same handlers) | `storage/{asset}/{version}/{name}` and `asset_versions.file_key` | upload, scan, extract, remove; `CleanupOrphans` | files without a lock, rows and files without a transaction |
| Webhook ingress (`handler/webhook.go`) | none of its own; Redis list for events of offline instances | verify time and signature, deliver or store | keys, instances, hub |
| Webhook keys, expiry notices (`repository/webhook_key.go`, `service/webhook_key_checker.go`) | rows of `relay_webhook_keys`; `notifiedExpiringKeys` in memory | create, disable, delete, verify; a check every five minutes | notifications |
| Notifications (`service/notification_service.go`) | rows of `notifications` | store, then push to each instance of the user | hub |
| Accounts (`handler/auth.go`, `github.go`, `bind.go`, `reset_key.go`, `instance_select.go`) | rows of `users` with bind code, reset token, API key; one-use selection tokens in Redis; sessions and JWTs | register, log in, bind, reset, select | GitHub, Redis, hub |
| Engagement (`handler/review.go`, `repository/favorite.go`, `asset_install.go`, `asset_dependency.go`) | rows of `reviews`, `favorites`, `asset_installs`; counters and an average in `assets` | rate, toggle, install | a goroutine recomputes the average |
| Rate limiting (`middleware/ratelimit*.go`) | windows by key, under a mutex | `Allow` | every route |
| Command line (`cmd/cli`) | `installed.json`, credentials | install, update, remove | the server's public routes |
| Public reading, dashboard, wiring, pages | none, or append-only records | reads | all of the above |

What is hard in each, and what makes it correct:

* **Relay.** Connections of one account overlap when a client reconnects, and
  the deferred `Unregister` of the old one runs after the `Register` of the new
  one; `OnEvent` drops the lock between looking a client up and sending to it;
  `RegenerateSecret` races a handshake past its check; `close` leaves the
  socket open; the writer may die before the reader. Correct: the map holds
  only clients that serve its account, `close` is never reached twice, no
  event reaches another account, a refused event is nowhere, frames are
  written once and in order, a connection told to end ends.
* **Review.** Two uploads, an edit and a decision, two decisions, with any
  statement of a handler failing between two others. Correct: an approved
  asset or version was approved by an administrator, a version still waiting
  is set aside by the next upload, nothing is shown that was never approved.
* **Files.** Uploads of the same version write the same path before either
  has its row; a duplicate removes the directory; a cleanup works from an old
  list. Correct: the file and the content of a version are those its upload
  sent, and a cleanup removes what has no row and nothing else.
* **Webhooks and keys.** No deduplication, a window of plus and minus five
  minutes, a fallback secret read before the keys that rule it out, a migration
  at each start that turns that secret into a key; a notice marked as given before
  it is stored. Correct: what is let through is signed with a secret in force, a
  restart does not change which secrets are, and the owner of a key that expired
  is told.
* **Accounts.** Codes, tokens and names are looked up in one statement and used in
  another, any statement may be the last, and a sign-in is answered to the page its
  state names. Correct: no flow tells a party the key of another's account unless a
  sign-in of the owner was answered to it, a reset is answered with the key that
  stands, a code binds one observer, a reset that breaks off can be tried again.
* **Engagement.** A toggle tests and then writes; a review starts a goroutine that
  nobody waits for; counts are raised in a transaction with the row they count.
  Correct: counts are numbers of rows, an average settles on the reviews, an answered
  toggle or review took effect, and one answered with an error did not.
* **Rate limiting.** The boundary of a window, and the purge of windows by others'
  calls. Correct: never more than twice the limit in a window's length, no caller pays
  for another, the headers are kept.
* **Command line.** A release between the two downloads of one install; two commands on
  one file; a command killed while it writes. Correct: the list tells what is in the
  files, a command leaves the other skills alone, an update catches up.

`PROJECT.json` lists these hazards at their lines, with the properties that
cover them. Where the code simply loses what a hazard names (an event accepted just
before its connection ends, a record of a command that overlaps another), no property
can say otherwise: the entry has a note that says what is exempt and what the
properties say of the rest.

## Plan

Ordered by what a mistake would cost, and carried out in this order.

1. `RelayHub`, with the abstract `RelayLink` (frames) and `Registry` (connections);
   proofs in `RelayHubProofs` (the map, its secrets, the frames, and the refinements).
2. `AssetReview`, with the abstract `ReviewLedger`; proofs in `AssetReviewProofs`.
3. `AssetFiles`; proofs in `AssetFilesProofs`.
4. `WebhookKeys` and, on top of it, `Webhooks`; proofs in `WebhooksProofs`.
5. `UserRows` and, on top of it, `Accounts`, with the abstract `Credentials`; proofs in
   `AccountsProofs`.
6. `RateLimit`, with the abstract `CallerWindow`; proofs in `RateLimitProofs`.
7. `Engagement`, with the abstract `AssetRecord`; proofs in `EngagementProofs`.
8. `SkillInstall`; proofs in `SkillInstallProofs`.

What would come next: abstract specifications of `AssetFiles`, `Webhooks` and
`SkillInstall`; the reading and marking of notifications; the dependencies of assets.

## The modules and the code

Each module maps its definitions to lines in `PROJECT.json`. An access to the
hub under its mutex, a channel operation, a database statement and a call on the
file system are one step each; what lies between two of them may be interleaved
with any other goroutine. A guard is the condition under which the code goes on;
an error path that changes nothing but the response is not an action.

Most modules hold a few actions under the heading "wrong forms": a slip a maintainer
might make in that very place (an unlocked read, a missing test, two statements
swapped). No next-state relation uses them. They stand there to show that the
properties can tell the code from its neighbours: each property is violated when the
right form is replaced by one of them.

### RelayHub, RelayLink, Registry

One element of `Conns` is one `*Client`, used once. `pc` follows the goroutine of `Run`
(`idle`, `auth`, `checked`, `registered`, `pumping`, `leaving`, `closed`), `writer` that of
`writePump`. `AuthCheck` reads the row and compares the secret, `Register` is `Hub.Register`
under its lock and closes the client it replaces, `Depart` is the deferred `Unregister` and
the close of the socket. `OnEvent` is `OnEventLookup` and `OnEventSend`; `RegenerateSecret`
is `RegenFind`, `RegenUpdate` or `RegenAbort`, `DisconnectRemove`, `DisconnectClose`.
`outbox` is `outCh`, `holding` the frame being written, `sent` what was written. Ids and the
secrets that `RegenerateSecret` makes are numbers drawn from a counter, so two are never
equal by chance; `MaxIssued` bounds it. The caller of `CreateInstance` may choose the secret
(`relay.go:56`), so it may be any there has been. `met` is a history variable: the
connections served at the same time as another one of their account. `TestConnection` and
`IsOnline` only read.

A write on a broken socket may succeed or fail: the operating system buffers it.
An inactive instance is a refused handshake; no code changes `is_active`.

`RelayLink` is the promise: each connection has a line of frames; a frame joins
one line at most once, a prefix of the line is written, and a cut link stays
cut. Under the refinement the line is what was sent, what is being written and
the outbox, in that order.

`Registry` is the promise of the map itself: a connection is found under one account,
once; the next one takes its place and hangs it up in the same step; what has gone
offline does not come back and is hung up at most once, and nothing else is. It has no
lock, no rows and no goroutines. Under the refinement `online` is the map, `over` the
connections that were registered and are no longer in it, `hung` those whose `done` is
closed.

### AssetReview, ReviewLedger

One asset, the versions of a set `Versions`, and `Requests`, each the goroutine
of one HTTP call, reused. `req[r].at` names the statement a request is about to
issue, with the version, the status or the list it has read. Versions in
`Documented` carry a README or a skill file: only those sync their content. The
content of an asset is named by the version it came from. `Faulty` lets every
statement fail; where the code returns, the request ends (`Abort`), where it
drops the error the next statement follows. Reads whose result cannot change any
more (the author of an asset, the asset of a version) are joined to the next
statement.

`first`, `reviewed` and `before` are history variables: the version the asset was
created with, those ever approved, and what each upload had set aside or seen
decided when its row went in. They take no part in any guard.

`ReviewLedger` is the promise: a version is submitted once; an upload sets aside
everything that waits and nothing else; a decision is an administrator's; what is
shown was approved at some time or opened the asset. It does not promise
that what is shown is *still* approved: the code does not keep that (see below).

### AssetFiles

One asset's directory. An upload is one call of `Create` (`creates`) or
`UploadVersion` and stands for the bytes it sends. `file` holds the bytes at a
path, the handles open on it and whether two were open at once: `os.Create`
truncates, two writers mix their bytes (`Torn`, or either of the two), a handle
whose file was removed writes into nothing. `Scan` reads the path again and
removes it when it refuses it. `Refuse` is what only `Create` checks after that.
`CreateFail` and `VersionFail` are a duplicate number or a failed statement; the
first removes the directory of the asset, the second that of the version. `CleanupOrphans` is
`SweepKeys`, `SweepScan`, one `SweepRemove` per directory, `SweepCheck` and
`SweepLast`. The first walk over an asset's directory keeps, of the versions listed, those
whose directory is there; the second only looks whether anything is left, and if neither
found anything the directory of the asset goes (`admin.go:321`), with whatever was made in
it meanwhile. A walk is one step: `SweepRemove` keeps the removals apart from it and from
one another, and from the uploads between. `raced` and `tidy` are history variables.

### WebhookKeys, Webhooks

`WebhookKeys` holds one instance: `hook` is its `webhook_secret`, `key` its rows of
`relay_webhook_keys`. Secrets are random in the code and numbers from a counter
here, bounded by `MaxIssued`; `due` is where the clock stands against `expires_at`
(`far` more than a day, `soon` less, `past` reached), and only `Age` moves it. The
handlers check the owner, then make one write that finds no row if the key is
gone: one action each. `Migrate` is the insertion of `RunRelayMigrations`.

`Webhooks` adds their users. A call reads the instance (`Receive`), then the keys
(`Verify`), whatever has changed in between, and ends in `Push` or
`StoreOffline`; it carries a secret, which stands for the signatures made with it, and
perhaps the id or the name of a key. Refusals for the form, the time or the
content of the request read no state. The check is one goroutine: `CheckList`
is its query and the filter by the record, then one `Notify...` per key, with the
record made before the notice; `Forget` is a record a day old. Since a record is
made at most a day before its key expires, it is never forgotten while the key is
still about to expire: that is the guard of `Forget`, and the reason why one
notice is enough. `Restart` runs the migration, ends the calls and the check and
empties the record.

### UserRows, Accounts, Credentials

`UserRows` is the table `users` and the statements of `repository/user.go` on it. A key or a
reset token is a number drawn from a counter (`MaxIssued` bounds it), since both are random;
a bind code stands for its row; `recent` says that `updated_at` is less than a day old and
`live` that the reset token is (`MaxTokens` bounds those). Every UPDATE sets `updated_at`,
whatever it is for, so every update makes the bind code of the row recent again. `owner` is
no column: it is the party the row was made for, a GitHub identity or who registered, and
properties alone read it.

`Accounts` has the handlers, one statement a step: `Register` (`RegisterCheck`,
`Register`), `Login`, the GitHub callback with its flows (`GitHubFind`, `GitHubMiss`
and `GitHubInsert` are `findOrCreateUser`; `GitHubStray` and `GitHubReset` the reset),
`ResetKeyConfirm` (`ConfirmFind`, `ConfirmKey`, `ConfirmClear`), `ResetKeyDirect`
(`DirectAuth`, `Direct`) and `Bind` (`BindAuth`, `BindCode`, `Bind`). A look-up that
fails counts as none in the code, and so it does here: the insertion, with its unique
names and identities, tells. `keys` and `tokens` are what each party was told, and all it
can present besides its password; `Passwords` are those who gave one when they
registered, since nobody is told the one the code makes up (`auth.go:53`).

The callback of a sign-in sends the key, or for the direct login a JWT, to the page its
`state` names, which the code takes from whoever started the sign-in (`github.go:144`,
`github.go:164`). So the party answered (`to`) may be another than the identity, and
`strayed` remembers which party was sent something of which row. A JWT is used within a
day and depends on nothing that changes, so that the direct login and the use of its JWT
are one step (`SignedIn`).

The answer of a reset is a step of its own (`Answer`), so that it may be lost after the
key has changed. A key that was just read or made for a new row is told with its
statement, or not at all: nothing but the row could change in between. `BreakOff` ends a
request at any statement.

`Credentials` is what all flows promise of keys together: an account is opened once, by
one party and under a name nobody has, with a key; from then on the key is only ever
replaced by one that was never used before, and the party, or one the account was shared
with, is told or reminded of keys made for it. Under the refinement an account is a row,
it is shared with the pages its sign-ins were answered to, and reset tokens, bind codes
and requests disappear.

### Engagement, AssetRecord

The rows of `favorites`, `reviews`, `asset_installs` and `downloads` of some assets, and
the columns of `assets` computed from them. `ToggleFavorite` is `ToggleTest` and then
`ToggleDelete` or `ToggleInsert`; a review is `ReviewFind`, then `ReviewUpdate` or
`ReviewCreate`, which starts one of `Goroutines`, and then `AnswerReview`, which two
requests may reach in another order than their statements. `told` is a history variable:
the scores that may stand, that is those answered, or lost with a restart or a failure,
since the last time no answer was outstanding. `AverageRead` is the statement seeing
the rows, `AverageWrite` the update once the asset is not locked, `AverageFail` a
failure nobody looks at. The average is represented by the reviews it was computed
from. `InstallAsset` and the count of `Download` are one transaction each: `InsertRow`
(or `InsertNothing` on a conflict), `UpdateCount`, which locks the asset and computes the
new count, `Commit`; a row not yet committed keeps others from inserting it. `Delete`
fails while a favourite or a download refers to the asset, for no cascade stands on
them; notifications keep their rows and lose the reference (`main.go:297`).
`Restart` ends requests, goroutines and open transactions.

`AssetRecord` is what is left of this when every request is one step: a row comes with one
more in its count, or neither comes; a favourite or a review changes for its user alone;
an asset takes its record with it and does not come back. It has no requests, transactions
or locks, and no average, which is only settled now and then (`AverageSettles`).

### RateLimit, CallerWindow

One window for each limiter (a role and an operation) and each header. `AllowFirst`
opens a window, and may purge the limiter's windows that are over (`lazyCleanup`);
`AllowNext` and `Refuse` count. The clock is a number that `Elapse` moves on by any
amount; `resetAt.Unix()` drops the part of a second, so `Second` is its unit.
`passed` is a history of the calls let through; `told` is what the last answer
said.

`CallerWindow` is the limiter of a single caller: a window opened by a call when none is in
force, which lets `Limit` calls through and is over after `Duration`, and calls refused that
change nothing. `CallersApart` says that `RateLimit` is one of these for every tier and
header. The window in force is the one in the map unless it is over: a window that is over
and still in the map, one that was purged and one never opened are the same, and so are
one that is full and one whose count goes on past the limit with the calls refused.

### SkillInstall

One workspace: `disk` has the version of each SKILL.md, `records` what `installed.json`
held when it was last whole, and `file` whether it is absent, empty or whole, since
`os.WriteFile` empties it before it writes (`Truncate`, `Write`). A command is a
process: `install` is `InstallFetch` and `InstallRead`, `update` `UpdateRead` and then
per skill `UpdateInfo` and one of `UpdateContent`, `UpdateRefused` (a 404, a 429 or a 500,
whose body becomes SKILL.md and whose version is noted, for `update` does not look at the
status), `UpdateSkip` (no answer, nothing written) and `UpdateSpoil` (the file could not be
written: it is truncated, `Partial`, and the version not noted). `install` does look at the
status, but its file may fail likewise (`InstallSpoil`). `uninstall` is `UninstallRemove` and
`UninstallFilter`; `Kill` may take any of them anywhere.
The server is reduced to what the public routes show: whether a skill is approved, its
current version, and the version its content is of, with the two writes of a release in
either order (`Point`, `Sync`), as `AssetReview` has them. Names of assets are not unique,
and `GetByName` returns any approved row: two assets of one name look like a skill that is
released between two calls. `unsure`, `spoilt` and `loose` are history: skills whose files
and records were disturbed by something the command cannot know of, skills whose last file
was a refusal or could not be written, and commands that overlapped another.

## The runs

| Run | Instance | Checks | Distinct states |
|---|---|---|---|
| `relay_hub` | 1 account, 3 connections, 2 callers, 2 ids or secrets | `HubHoldsServing`, `ClosedOnce`, `LoneClientIsOnline`, `RegistrySpec`, `OutdatedOnlyByLateRegister` | 1 062 160 |
| `relay_delivery` | 2 accounts, 2 connections, an event and a ping, outbox of 1 | `TypeOK`, `EventsWhereTold`, `LinkSpec`, `SignalledLeaves`, `QueuedIsWritten` | 73 800 |
| `relay_online` | 1 account, 2 connections, 1 caller | `IsOnlineWhenConnected`, violated | |
| `asset_review` | 2 versions (1 documented), 2 requests, any statement may fail | `PendingTogetherOverlapped`, `LedgerSpec`, `OnlyReviewPublishes`, `RejectionStands` | 178 344 |
| `asset_current` | 1 version, 1 request, no failure | `CurrentIsApproved`, violated | |
| `asset_files` | 2 versions, 2 names, 3 uploads (1 unsafe), 1 cleanup | `TypeOK`, `ServedAsReviewed`, `SweptWasRaced`, `TidyLeavesNoOrphan` | 253 543 |
| `asset_sweep` | 1 version, 1 upload, 1 cleanup | `SweptHasNoRow`, violated | |
| `webhooks` | 2 keys, 1 name, 1 call, 3 secrets, 1 restart | `TypeOK`, `WarnedOnce`, `ExpiredIsTold`, `LetThroughInForce`, `RestartKeepsForce` | 369 817 |
| `rate_limit` | 1 limiter of 2 calls, 2 headers, windows of 3 ticks, 7 ticks | `AtMostTwice`, `CallersApart`, `RefusedHadLimit`, `ToldIsKept` | 467 444 |
| `accounts` | 2 rows, 2 names, 1 GitHub identity, 1 registrant, 2 requests, 3 keys, 2 tokens | `KeyGoesToOwner`, `AnsweredKeyWorks`, `CredentialsSpec`, `CodeBindsOnce`, `TokenOutlivesFailure` | 1 045 667 |
| `engagement` | 1 asset, 1 user, 2 holders, 2 scores, 2 requests, 2 goroutines | `CountsMatch`, `FavouriteParity`, `ToldReviewStands`, `AverageSettles`, `RecordSpec` | 2 664 720 |
| `skill_install` | 2 skills (1 changing), 2 versions, 2 commands | `ListTellsFiles`, `BystandersKept`, `UpdateCatchesUp` | 2 343 810 |

`TypeOK` is proved for every module. `relay_delivery`, `asset_files` and `webhooks` check it
as well, because there it says more than types (an outbox within its channel, no file
without its directory, no key without its instance).

**Bounds.** Three connections are needed for a client to be replaced by one that
is itself replaced while the first leaves; two callers for two `Disconnect` calls
at once; two secrets for a change after the first. Accounts share nothing in
the hub but the mutex, so two show isolation and one is enough elsewhere. An
outbox of one is at its limit at once, and the limit is a comparison with
`OutboxCap` only; the proofs take any capacity. With one event and one ping, one
frame fills the outbox and the other is refused by it. A race of handlers over an
asset is between two requests, repeated without bound (requests are reused). Three
uploads are one that is there, one that collides with it and one that is refused.
Three secrets are the webhook secret and those of two keys, or a webhook secret
replaced after the migration gave the old one to a key; the two keys share a name,
so that one can take the place of the other. Calls do not meet one another in what
they read, so one is enough; two restarts differ from one only in how often a
notice is repeated.

A limit of two is the smallest that tells "at the limit" from "the first"; seven ticks hold
two windows of three and the start of a third; two refusals are enough for a header to be
told twice, and a crowd of two reaches the purge. Two rows, one of a registrant and one of
an identity that would like the same name, are all that two requests can touch; three keys
are one for each and a replacement, and two reset tokens are one that is pending and a newer
one. A count and an average differ after two writes out of order, so two requests that start
two goroutines on one asset suffice; a favourite needs one user with both requests. Two
commands meet in one file; the second skill is the bystander.

**Symmetry.** Connections and callers are only compared for equality, and
so are requests, rows of accounts, goroutines, commands, headers, uploads that are
safe, documented versions, and the versions and names of files. Symmetry is used in
runs of safety properties only; `relay_delivery` and `webhooks` check liveness and
use none.

**Deadlock** is an error in `engagement` and `skill_install`, whose users may always
ask for something. In the others it is not: when the bounded connections, ids,
keys, ticks and uploads are used up, or the asset is deleted, nothing is left
to do.

**Fairness of the relay** (`RelayHub.Fairness`, in `relay_delivery`). Weak fairness of the
steps of a connection's own goroutines: the Go scheduler runs a goroutine that is ready. A
handshake that gets no frame fails by its read deadline (60 s); `readPump` fails when the
socket is broken, or when the writer has stopped and no ping asks for the pong that would
extend the deadline; a writer with `done` closed leaves its `select` after finitely many
frames, because a `select` picks at random among the ready cases and the frames are finite.
Nothing is assumed of handlers or of senders of events, and of peers only that their pongs
answer pings: one that sends pongs unasked would extend the read deadline for ever.

**Fairness of the notices** (`Webhooks.Fairness`, in `webhooks`). The
ticker of `periodicTask` fires again (`CheckList`), a day passes (`Forget`), and a
check attempts all of its notices, one way or the other. The strong fairness of
`NotifyExpired` says that the database does not refuse every notice of a key: one
that is refused is attempted again at the next check, because only the records
of keys about to expire hold notices back. Nothing is assumed of owners, of
expiry or of restarts.

The other modules state no fairness and no liveness: each of their requests ends after
a fixed number of statements, and a client may go away between any two. What must have
been done by the end is a safety property of the state in which nothing is under way
(`AverageSettles`, `ListTellsFiles`) or of the step that ends (`UpdateCatchesUp`).

## What the runs found

* `relay_online`: `Unregister` deletes by account. A client that reconnects while
  its previous connection is leaving is taken out of the hub by the deferred call of
  the previous one: it runs, its socket is open, and it gets no event and counts
  as offline until it reconnects (`hub.go:43`). `LoneClientIsOnline` says when this
  cannot happen: to a connection that was never served together with another.
* `asset_current`: rejecting the current version of an approved asset leaves it
  current, and the public routes go on serving it (`admin.go:448`), while
  `README.md:89` says users install a reviewed version.
* `asset_sweep`: `CleanupOrphans` removes the directory of a version inserted after
  it listed the keys (`admin.go:253`).

Met on the way, and not findings of a run, because no document promises otherwise or
because the properties have them as conditions:

* The comment at `webhook_key_checker.go:52` says that an expired key is announced at
  every check, but the record of an earlier notice of near expiry holds that back for up
  to a day (`ExpiredIsTold` allows it). Once the migration or its owner has given an
  instance a key, `RegenerateWebhookSecret` returns a secret that signs nothing as
  long as a key is active.
* The file of a version is its upload's only if no other upload of the same number was
  tried and no cleanup overlapped it (`ServedAsReviewed`): two uploads of one number
  write one path before either has its row, and the one refused removes the directory of
  the other (`asset.go:618`, `asset.go:668`). And versions of overlapping
  uploads can wait together (`PendingTogetherOverlapped`). `ApproveVersion` writes the
  pointer and then the content with no transaction (`admin.go:370`), so two approvals at
  once can leave the pointer of one with the content of the other: the `Point` and `Sync`
  of `SkillInstall` come in either order for that reason.
* The day a bind code lasts is counted from `updated_at`, which every UPDATE of the row
  sets: a change of the avatar makes an old code good again. A registered account can never
  use the reset by GitHub, for no statement gives an existing row a GitHub identity. A JWT
  stays good after the key is reset. Two confirmations at once of one token both answer with
  a key, and the first may be void already (`AnsweredKeyWorks` excludes requests that
  `crossed`). A reset whose answer is lost leaves who registered without a password no way
  to the new key, and whoever is sent the answer of a sign-in has the key (`KeyGoesToOwner`
  has it as its condition).
* The headers announce a limit that is not the limiter's (30 and 5, against 100 and
  20: `main.go:106`, `router.go:60`), and `X-RateLimit-Reset` drops the part of a second:
  who comes back at the second told may be refused once more (`ToldIsKept` has it as its
  condition).
* An `update` writes whatever the server answers, a refusal too, into SKILL.md, since it
  does not look at the status, and notes the version, so that later updates leave the
  page there (`ErrorPage`). Commands that overlap, or one killed while it writes, lose
  records of other skills (`BystandersKept` has both as conditions).
* An asset that has a favourite or a download cannot be deleted, for lack of a cascade.
  Averages computed at once may be written in either order, and the older one stays until
  the next review (`AverageSettles` excludes them).

## Proofs

All theorems are about `Spec`, for any sets of the constants and under the named
assumptions of the modules (`RelayAssumption`, `ReviewAssumption`, `FilesAssumption`,
`KeysAssumption`, `WebhooksAssumption`, `RowsAssumption`, `AccountsAssumption`,
`EngagementAssumption`, `RateAssumption`, `SkillAssumption`), which say that `None`, and
what stands for no version, is nothing else, that
events are not pongs, that the outbox has room for one frame, that limits and windows are
positive, that sets are subsets of what they are drawn from, and that the bounds are
numbers. TLC evaluates them in every run.

**`RelayHubProofs`**: `TypeCorrect` (`TypeOK`), `MapCorrect` (`HubHoldsServing`),
`CloseSafe` (`ClosedOnce`), `LoneOnline` (`LoneClientIsOnline`), `OutdatedCorrect`
(`OutdatedOnlyByLateRegister`), `RegistryCorrect` (the refinement of `Registry`).
`MapCorrect` to `LoneOnline` are inductive only together with the types and two facts:
`Handshake` relates where `Run` is to the account it has (none before the check, one after
it, and no `done` before `Register`), and `HeldVictim` says what a `Disconnect` between its
unlock and its `close` holds: a client that is registered, not closed and in the map of no
account. Without `HeldVictim`, a second `Disconnect` could be imagined to hold the same
client, and `ClosedOnce` would not survive `DisconnectClose`. The actions split into those
that touch neither the map nor a `Run` (`QuietStep`), those that move one `Run` on
(`RunStep`), and `Register`, `Depart`, and the two halves of `Disconnect`, each with a
lemma. `OutdatedCorrect` needs `Numbered` besides: ids start from one, so the UPDATE of
`RegenerateSecret`, which names the id it found, never meets an account without a row.
`RegistryCorrect` adds `HeldRegistered`: the victim of a `Disconnect` has been found in the
map, so its late `close` hangs up what has gone offline and not what was never online.
`SpentForGood` is the other side of `OutdatedCorrect`: when no client in the hub has an old
secret and no registration with it is under way, only a `CreateInstance` whose caller chose
that secret brings it back: the new secrets of `RegenerateSecret` were never used
(`SpentStep`). For `LoneOnline` a client that is not in the map though nobody closed it must
have `met` another.

The rest follows the frames, on top of that invariant: `EventsCorrect`
(`EventsWhereTold`) and `LinkCorrect` (the refinement of `RelayLink`). `TargetOfDest`: the
client `OnEvent` holds between lookup and send is of the account the event is for, though
it may have left the map since. `AcceptedFirst`: a frame is on the one connection that
accepted it. `HoldsOnlyWriting`: the writer starts once and holds a frame only between
taking it and writing it; without it the line of the abstract link would be cut when a
writer starts. A step maps to a stutter when it leaves lines, written lengths and stopped
writers alone (`LinkStutter`). `OnceCorrect` is read off the link and not off the code: since
a frame joins a line only if it was never in one, no frame stands twice in the lines
(`Single`), and none is written twice or to two connections.

`SignalledLeaves` is liveness and so not proved, but all that it needs besides fairness
is. `NotStranded`: a connection told to close, or whose peer is gone, is never in a state
where it waits for anybody else; until its `Run` has returned, the guard of a step named in
`Fairness` holds (`Piped`: the socket is open until the end, and the pumps have started
once `Run` reads). `OnlyForward`: it stays told, and no step takes it back a stage, of which
there are seven.

**`AssetReviewProofs`**: `TypeCorrect`, `PendingCorrect` (`PendingTogetherOverlapped`),
`LedgerCorrect` (the refinement of `ReviewLedger`), `PublishCorrect`
(`OnlyReviewPublishes`), `RejectionCorrect` (`RejectionStands`), `ShownCorrect`
(`ShownPassed`, below) and `DecidedForGood` (a version that was decided or set aside never
waits again, also after the asset is deleted), with any statement failing or none (`Faulty`
is either). The inductive invariant has four parts besides the types. `Untouched`: before
the creation there is nothing, and after it there is a first version; the ledger's `Open`
needs the first half, its `Submit` the second. `ShownPassed`: the pointer and the content
name a version approved at some time or the first one. `InHand`: so does the version a
request is about to write, whatever has happened to it since it was read; without it a late
`SetCurrentPoint` could show anything. `AsideStays`: what an upload has set aside or found
decided never waits again, as long as the asset exists, which is `PendingTogetherOverlapped`
once the row is there. The two action properties need the types only, and a lemma that says
which handlers change the status of an asset (`StatusStep`). `DecidedForGood` follows a
version that does not wait: no handler writes `pending` into a row that is there
(`DecidedStep`), and a row that is gone stays so, because its asset has gone with it
(`GoneStays`).

**`AssetFilesProofs`**: `TypeCorrect`, `RacedCorrect` (`SweptWasRaced`), `TidyCorrect`
(`TidyLeavesNoOrphan`), `LoneSweepCorrect`, `ServedCorrect` (`ServedAsReviewed`), for any
number of uploads and of cleanups at once. `Sparing`: what a cleanup still has to remove is
not among what it found in the database; and `Noted`, on which `RacedCorrect` rests: an
upload served beside a cleanup is in `raced`, and a version that has its row, and that the
cleanup does not know of, is of such an upload. `Knowing`: a cleanup that nothing has
disturbed still knows the rows and, after its walk, every directory. `LoneSweepCorrect` is
the finding `SweptHasNoRow` under the condition that makes it true: a cleanup that no
upload, deletion or earlier cleanup overlaps has no version with a row on its list
(`Avoids`), so it removes only what `admin.go:242` says it removes. `ServedCorrect` rests on
`Created` (the upload that creates the asset comes before all others), `Owned` (files and
rows are those of uploads that were there) and `LoneInv`: of an upload that alone tried its
version and met no cleanup, the handles, the file and the content are its own at every
statement, there is no cleanup before its row, and every later one finds the row. Its lemmas
are one per actor: the upload itself (`OwnStep`), the others (`OthersStay`), the cleanups
(`SweepHarmless`).

**`WebhooksProofs`**: `TypeCorrect`, `WarnedCorrect` (`WarnedOnce`),
`LetThroughCorrect` (`LetThroughInForce`), `RestartCorrect` (`RestartKeepsForce`),
`WithdrawnForGood`.
The inductive invariant adds two parts to the types. `FallbackRead`: a call that
has read the instance holds a secret, so it cannot match that of an instance
deleted since. `NoticesAccounted` relates, for each key, the notices given to the
record: a notice still to come has no record, and a key that may still be announced
has a record or was not announced since the last restart; without the second
half a record forgotten early could not be told from one never made. The steps
of the owner and the migration are split off as lemmas on the keys alone
(`KeyStepOK`, `MigrateOK`, `KeyChange`), then there is one lemma for each actor.
`WithdrawnForGood` is about a secret that neither the instance nor a key carries, once the
calls that had read it from the instance are over: no webhook passes with it any more. What
could bring it back are the writes of secrets, and each writes a new one or, in the
migration, that of the instance (`WithdrawnStep`). The condition on the calls is needed:
TLC finds the call that read the old secret passing with it when it is dropped.

**`AccountsProofs`**: `TypeCorrect`, `KeysCorrect` (`KeyGoesToOwner`), `AnswerCorrect`
(`AnsweredKeyWorks`), `BindCorrect` (`CodeBindsOnce`), `TokenCorrect`
(`TokenOutlivesFailure`), `PromiseCorrect` (the refinement of `Credentials`) and, from that,
`ReplacedStaysVoid` (a key that was replaced is never again the key of any account).
`RowInv` is the table: the key a row holds was made for it. `Told`: a party knows the keys
of the rows it holds only, its own and those of `strayed`, and no reset token of another's.
`Calling`: a request is about to change a row its party holds, and has that row's key in
hand. The table only grows (`Grow`: rows, their owners and the numbers handed out stay), so
that what was told or read before stays true whatever step follows (`ToldKept`, `ReqsKept`);
the statements are proved to grow it first, and the handlers use that alone. `Answers` is
for `AnswerCorrect`: of requests that reset the key of a row without having crossed there is
one at most, and from its statement on the key it made is the row's. `PromiseCorrect` adds
`Unmade`, that a number not handed out is nobody's key; its lemmas say which abstract step
each statement is: most are a stutter (`PromiseStutter`), the insertions open an account,
`UpdateAPIKey` replaces a key, a login or an answered confirmation reminds.
`ReplacedStaysVoid` uses only that every step is one of `Credentials` (`MadeBefore`), and so
holds of any other flows that keep its promise.

**`EngagementProofs`**: `TypeCorrect`, `CountsCorrect` (`CountsMatch`), `ParityCorrect`
(`FavouriteParity`), `ToldCorrect` (`ToldReviewStands`), `AverageCorrect`
(`AverageSettles`), `RecordCorrect` (the refinement of `AssetRecord`). `FavInv`: of a
favourite not crossed one toggle at most has tested, and it has seen how things stand.
`ToldInv`: the score that stands is one that was told or lost, or one that a request still
has to answer. `AvgInv` says, of assets not missed, that a goroutine has still to read the
reviews, or the only one has read those that stand, or there is none and the average is
theirs. `CountInv`: a count is the number of committed rows, transactions under way insert
different rows that are not there yet, one at a time has counted for an asset (it holds its
lock), and what it has in hand (`InHand`) is one more than the count. The counts are
cardinalities, by the library's theorems on finite sets. In `RecordCorrect` a transaction is
one step of the record at its `Commit` and a stutter before: the count it has in hand is one
more than the count only because it holds the lock of the asset, which is `CountInv` again.

**`RateLimitProofs`**: `TypeCorrect`, `TwiceCorrect` (`AtMostTwice`), `RefusalCorrect`
(`RefusedHadLimit`), `ToldCorrect` (`ToldIsKept`), `ApartCorrect` (`CallersApart`). The
invariant is about each limiter and header by itself (`SlotInv`): calls passed within a
window that had begun (`Sane`); two calls a limit apart belong to windows a duration apart
(`Spaced`); and the window that is open holds the last calls passed, as many as it counts
(`Fits`). Twice the limit spans two such gaps. `Heard`: the headers of the last answer tell
of the window that is open. For `ApartCorrect` a call that opens a window is a step of its
own caller and a stutter of the others whose windows it purges, since those are over
(`FirstBegins`); only the clock moves them all (`ClockElapses`).

**`SkillInstallProofs`**: `TypeCorrect`, `ListCorrect` (`ListTellsFiles`),
`BystandersCorrect` (`BystandersKept`), `UpdateCorrect` (`UpdateCatchesUp`). `Shape` says
what each place of a command tells of it. `Overlap`: of commands that overlap each knows,
and then nothing is sure; so of a skill that is, one command at most is at work. `Kept`:
the list a command holds differs from the one in the file only where its work is done.
`Work` is what a command knows of a skill that nothing disturbed: an install has the
server's version in the file before it asks for it, an uninstall no file, and an update
has the version in record and file of each skill it is through with, the file of a
`spoilt` one excepted. The first lemmas turn
each action into what it makes of its command (`Call`, `Changes`, `Starts`), so that the
other lemmas compare fields of records and not records with exceptions.

## What is only model-checked

Liveness of the relay (`SignalledLeaves`, `QueuedIsWritten`) and of the notices
(`ExpiredIsTold`): fairness is beyond this prover, and what `SignalledLeaves` needs besides
it is proved (`NotStranded`, `OnlyForward`). Every other property of a passing run
has a theorem. The three violated runs are counterexamples
and have none.

## What is not modelled

* Dependencies of assets (a check for cycles, then an insertion) and the rights of
  administrators over users: single statements on tables no other modelled code reads.
* The choice of an instance after the bind code (`instance_select.go`): its tokens are
  issued by a route that the router does not have. `middleware/session.go` is not wired
  in either.
* Of the command line: the commands that are one call to the server and the printing of
  its answer, and the file of credentials.
* Reads: search, lists, statistics, the dashboard, the activity of users. They change
  nothing but append-only records.
* The reading and marking of notifications, and the audit records that the
  review handlers write after their decision: no handler reads them back.
* The ingress of webhooks has no deduplication, so there is nothing to model of it: a
  repeated call is another call.
* Formats: frames, JSON, HTML escaping, hashes, file names, versions of skills. Which
  archives `ScanZip` refuses is a constant (`Unsafe`); what it refuses is not the subject.
* Restarts of the server in `RelayHub`, `AssetReview`, `AssetFiles` and `RateLimit`: the
  hub and the windows start empty, which is `Init` with other rows; requests that a
  restart cuts off end where `Faulty` lets them end, except between the two statements
  whose errors are dropped, where the second is skipped just as when it fails. `Webhooks`
  and `Engagement` have a `Restart`, and a request of `Accounts` may break off anywhere.
* The configuration, the schema's migrations, the web pages and the logs.
