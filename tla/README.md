# Laetoli Data in TLA+

Laetoli Data is a self-hosted backend: TypeScript services around one
PostgreSQL database, and a browser library. This directory holds TLA+ modules
that model the services' control flow, TLC configurations that check them on
small instances, and proofs that TLAPS checks for every instance.

Contents: [Inventory](#inventory) · [Modules](#modules) ·
[Runs](#runs-and-bounds) · [Fairness](#fairness) · [Findings](#findings) ·
[Proofs](#proofs) · [Not modelled](#not-modelled) · [Plan](#plan)

Run from this directory: `tlc -workers 2 -config X.cfg M` for each row of the
runs table, `tlapm M.tla` for each module `M` whose name ends in `Proofs`.

## Inventory

Every service is one node process, so a callback runs to its next `await`
without interruption; the interleavings are those of callbacks, of processes
with the database, and of the network. All durable state is in PostgreSQL,
except the bytes of stored objects and the backup files.

| Component | State | Operations | Interacts through | Hard parts | What makes it correct |
|---|---|---|---|---|---|
| webhooks: LISTEN source (`webhooks/src/listener.ts`, same code in `realtime/`) | current `pg.Client`, `healthy`, `stopped`, back-off, timers | start, connect, reconnect, stop | NOTIFY, `/health` | one lost connection is reported more than once; reconnects overlap | never deaf without a timer; health is true; comes back |
| webhooks: dispatcher (`dispatcher.ts`, `core.ts`, `db.ts`) | deliveries in flight, `webhooks.endpoints`, `webhooks.deliveries` | handle, deliver, retry, record | NOTIFY, HTTP, SQL | retries against late answers, edits during a delivery, crash | each received change delivered once and logged truthfully |
| webhooks: pg_net bridge (`netBridge.ts`, `netQueue.ts`, migration 0017) | `net.http_request_queue`, `net.http_response`, `draining`, `drainAgain` | http_post, drain, process, complete | SQL, NOTIFY, HTTP | overlapping drains, two-statement completion, crash, lost NOTIFY | no lost request, no lost outcome, repeats only after interruption |
| scheduler (`executor.ts`, `core.ts`, `server.ts`, `db.ts`) | `scheduler.jobs.next_run`, runs in flight | tick, run-now, advance | timer, HTTP, SQL | overlapping ticks, edits during a run, crash before advance | each due instant runs once; schedule only advances |
| realtime server (`hub.ts`, `server.ts`) | clients, subscriptions, presence, sockets | connect, auth, subscribe, unsubscribe, broadcast, track, dispatch, remove | WebSocket, NOTIFY | any order of frames, error and close; rosters; owner gate | rosters equal the registry; rows reach their owner only |
| client: realtime (`client/src/realtime.ts`) | socket, channels, outbox, timer, rosters | channel, subscribe, track, disconnect, reconnect | WebSocket | reconnects, stale sockets, queued messages | active channels are served; one socket |
| client: auth (`client/src/auth.ts`, `storage.ts`) | session in memory, in localStorage and in the URL; listeners | sign in/up/out, redirect, reload, subscribe, factor calls | auth service, tabs of one browser | listeners that call back into the client; stale copies of a session | listeners agree with the tab; a session signed out of stays out |
| auth service (`auth/src`) | users, refresh families, one-time tokens, OTPs, factors and challenges, rate windows | sign up/in, refresh, recover, OTP, MFA, OAuth | HTTP, SQL, mail | rotation and reuse detection, single use, attempts, statements of two requests in between | a stolen token dies with its family; tokens and challenges used once; factors are their owner's |
| storage (`storage/src`) | files, cached variants, `storage.objects`, `storage.buckets` | upload, download, transform, sign, delete, buckets | HTTP, disk, SQL | bytes and row change in two steps, downloads read three times | row and bytes agree; a download is of one upload; ownership |
| API key guard (`storage/`, `functions/` `apikeyGuard.ts`, `admin/src/apikeys.ts`) | `keys.*`, sliding windows | mint, revoke, look up, admit, count | HTTP, SQL | key revoked during the lookup, usage not awaited, window edge | dead keys stay out; the limit holds; usage adds up |
| functions service (`functions/server`) | module cache, imports and handlers under way | load, invoke, reload | HTTP, files | reload during an import, answer after the timeout | one answer, always; current code |
| backup (`backup/src`) | dump and archive files, mirror, timer, status | dump, archive, mirror, push, prune, restore | disk, child processes | partial dumps, retention, crash, restore beside a dump, calendar | the newest good dump survives; status is true; dumps on time |
| admin (`admin/src`) | none of its own | users, table rows, projects and keys, SQL, buckets | HTTP, SQL | changes against live sessions and open screens | disabled users lose access; writes hit one row |
| cli migrations (`cli/src`) | `_laetoli_migrations`, `backups/` | migrate, backup, restore | SQL, psql, pg_dump | two runs at once, failure midway, old dumps | each migration applied once, in order |
| client: query, objects, functions, vectors | none | request builders | HTTP | none | - |
| schema and policies (`db/`) | tables, RLS | - | - | - | used where a service relies on them |
| studio (`studio/src`) | useState of each screen | load, page, edit, delete, create and revoke keys | admin service | answers out of order, reloads of stale closures, unmounted screens | the grid is its page; a secret is seen; no endless spinner |
| sites, examples, metrics, deployment | none relevant | display, configuration | - | - | - |

PROJECT.json lists the hazards with the line at which each bites.

## Modules

| Module | Models | Composed of |
|---|---|---|
| `NetQueue` | what `net.http_*` promises SQL code (abstract) | |
| `NetBridge` | the bridge, its process, its database rows | implements `NetQueue` (`NQ`) |
| `PgListener` | `createPgListener()` | |
| `Dispatcher` | the webhooks worker's table-change half | extends `PgListener` |
| `WebhooksProofs` | theorems about the three parts of the webhooks worker | extends `NetBridge`, `Dispatcher` |
| `Scheduler` | executor, tick loop, run-now, operator | |
| `RealtimeHub` | hub, presence registry, connection handlers | |
| `RealtimeProofs` | theorems about `RealtimeHub` and `RealtimeClient` | extends `RealtimeClient` |
| `RealtimeClient` | browser library, with the server at the other end | extends `RealtimeHub` |
| `AuthSessions` | accounts, sessions, one-time tokens and Google sign-in of the auth service, with the admin service's user operations | |
| `AuthSessionsProofs` | theorems about `AuthSessions` | extends `AuthSessions` |
| `Mfa` | TOTP factors and challenges of the auth service | |
| `ClientSession` | `AuthClient` in the tabs of a browser | extends `Mfa` |
| `ApiKeys` | `keys.*`, the admin service's key operations, the guard | |
| `FunctionsService` | loader, runner and routes of the functions service | extends `ApiKeys` |
| `FunctionsServiceProofs` | theorems about `FunctionsService` and `ApiKeys` | extends `FunctionsService` |
| `ObjectStorage` | the storage service: rows, bytes, variants | |
| `ObjectStorageProofs` | theorems about `ObjectStorage` | extends `ObjectStorage` |
| `Cron` | cron fields and the next matching minute | |
| `Backup` | the backup daemon and `laetoli-restore` | extends `Cron` |
| `DaemonProofs` | theorems about `Backup`, `Cron` and `Scheduler` | extends `Backup` and `Scheduler` |
| `Migrations` | migrate, backup and restore of the CLI | |
| `MigrationsProofs` | theorems about `Migrations` | extends `Migrations` |
| `AdminTables` | rows of a table as the admin service reads and writes them | |
| `TableEditor` | the Studio's rows panel | extends `AdminTables` |
| `KeyScreen` | the Studio's screen of projects and keys | |
| `Studio` | the App: one screen at a time | extends `TableEditor`, instantiates `KeyScreen` (`K`) |
| `BrowserProofs` | theorems about `ClientSession`, `Mfa` and `Studio` | extends `ClientSession` and `Studio` |
| `MC*` | values of the constants for TLC | |

Definitions marked "mutant" by a comment are not part of the model. Each is a
plausible bug; put in place of the definition it varies it makes TLC report the
property it belongs to.

### NetBridge

`drain()` has awaits at the queue's SELECT, the HTTP call, the INSERT and the
DELETE, and other callbacks run at each, so each is an action. Every activation
past the guard is a "pass" with its own snapshot, request in hand and result
(`batch`, `cur`, `result`). `Drain` is the guard, `LeavePass` the `finally`
block; the code re-enters `drain()` there in the same turn, so the model does
too. `Post` is one commit: row and NOTIFY. The connection is a flag here;
`PgListener` has its detail. History variables count calls, interrupted rounds
and failed INSERTs. Names that both halves of the worker would have (`Init`,
`Crash`, `faults`) carry `Bridge` here and `Worker` in `Dispatcher`, so that one
proof module can extend both.

### PgListener and Dispatcher

Every `pg.Client` that `connect()` creates is an actor that lives until its own
connection ends, whatever the closure's `client` refers to. `pg` is outside the
repository: a lost connection raises `'error'` (`ErrorEvents` says how often),
and one lost under a query also rejects the query.

`Dispatcher` sends each committed change to every live client, which is how a
notification is lost (none live) or doubled (two live). `handle(c)` is the
callback up to the query of endpoints, `Load` the fan-out, `Attempt` one POST
from sending to settling, `Wake` the end of a back-off, `Record` the INSERT.
`Attempt` may be accepted by the receiver and still look like a failure to the
worker. `Load` takes the endpoint rows as they are at the query; edits come at
any time. HMAC, body, headers and delays are left out: no property is about
them. `Crash` also stands for the end of `close()`.

### Scheduler

Time is in minutes. A cron string is abstracted to the period of the instants
it matches (0: does not parse). An activation is one `maybeRun()` or run-now in
flight, with the row as it read it; `Dispatch` is a whole tick up to each job's
first await. The operator edits `cron`, `next_run` and `active` in SQL at any
time. `MayOverlap` says whether a job may outlast the tick interval.

### RealtimeHub and RealtimeClient

One handler is one action, since it does not await. Frames go to a wire per
socket and the browser reads them later, in order; `seen` is what the frames
read so far amount to. Values are `<<kind, text>>`, because `ownerMatches` and
`valuesEqual` compare numbers with strings. A closing socket still delivers
messages. `remove` announces its leaves in the order in which the registry holds
the channels: some `place` for each channel, the same for every listener.

`RealtimeClient` adds the library's fields (`this.ws` is `cur`), the direction
from browser to server (`up`), the application's calls, the token, a peer, and
the loss of a connection. Sockets that are no longer `this.ws` keep their
handlers, as in the code. A WebSocket object is reused when neither end has any
use for it. `OfflineCalls` and `PendingCalls` restrict when the application
calls what, because unrestricted it meets the findings below.

### AuthSessions

A request is a row of `reqs` whose `pc` names its next SQL statement: the first
read and each later statement of a handler of `auth/src/handlers.ts` is an
action, and any other request may run in between, as it may at each `await`.
`Refresh`, `FindUser`, `RevokeToken`, `Issue` are `handleRefresh`; `Logout`,
`Revoke` are `handleLogout`; `Present`, `Mark`, `Password`, `Revoke` are
`handlePasswordReset`; and so on, with shared statements shared. `Fail` is a
statement that throws (answered with 500) or a process that stops: what was
committed stays. Tables are sequences of rows in order of insertion; a deleted
row has `here` unset. Expiry may come at any time (`Expire`), and `Cleanup` is
the nightly SQL function.

Some fields are history only. `condemned` holds the families whose end was
asked for (log-out, reuse). `late` on a request, and `exempt` on the token it
mints or that a failed revocation leaves, mark the two ways a session may
outlive a revocation in this code: a rotation or sign-in that had read its row
before, and a revocation that threw. The properties say there is no third way.
`raced` marks a row that two requests had read before either wrote, `wins`
counts how often a one-time token was accepted, `blocked` says that the account
has been suspended since the request began.

### Mfa and ClientSession

A `/factors` request is a slot whose phase names its next statement, as in
`AuthSessions`; verification reads the factor, reads the challenge, checks the
code and marks both rows in two statements. The clock counts TOTP steps and a
code is the step it was computed for. The nightly clean-up and the admin
service's reset and deletion come at any time. `overlapped` marks challenges
that two calls checked before either marked them.

A tab is one JavaScript thread; the loop of `setSession()` over its listeners is
a stack of emissions, because a listener may sign in or out, or subscribe,
while it is being called. Tabs share `storage` and nothing else; a reload
forgets memory and in-flight requests, a redirect puts a session into the URL
(`hash`), `CleanHash` is the `history.replaceState` after reading it.

### ApiKeys and FunctionsService

`ApiKeys` has the tables of schema `keys`, the admin service's operations
(`createKey` looks up the project in one statement and inserts in another), and
the guard: `Arrive`, the lookup under way, its answer, `Admit` or `OverLimit`,
and the usage write that nobody awaits. `dead` on a request says that its key
was dead when it came. `FunctionsService` puts the routes behind it: an
admitted request loads its function (an import reads the file at one instant
between call and answer), runs it and is answered by the handler or its
deadline. `Reload` and edits come at any time. `floor` is the edit that the last
clean reload saw.

### ObjectStorage

A file is an inode, the upload whose bytes it holds and whether they are all
there, since `put()` truncates in place and a reader may hold the inode of a
deleted file. `Upsert`, `RemoveBytes`, `DropRow`, `ReadRow`, `StatFile`,
`LookUpVariant`, `Render` and `Stream` are the awaits of the handlers. `clean`
and `alone` are history: the last change of the object, and the download, had
the object to themselves.

### Cron and Backup

`Cron` is the parser as functions of segments (base, bounds, step) and the
search for the first minute that matches, over a calendar that is a constant. `OnSchedule`
states what an expression means on its own, by crontab's words (`Covers`,
`Planned`), and not by the operators that model the code.

`Backup` follows `runOnce()`: `Fire`, `Snapshot` (where pg_dump sees the
database), `DumpSettles` or `DumpFails`, `ArchiveSettles`, `OffsiteSettles`,
with mirror, retention and re-arming as part of the step that the code does them
in: a process whose expression names no minute any more exits there (`Settle`).
`runRestore`, `OpenDump`, `psqlRestore` and `extractStorage` are the restore
command in another process. `db.mixed` is a database half restored.

### Migrations

Each terminal runs one command at a time. `cmdMigrate` reads the files,
`ensureTrackingTable` and `appliedMigrations` are its first statements,
`applyMigration` opens the transaction of one file and `Commit` ends it, so a
second terminal may do anything in between. Contents are a text and its line
ends; `checksum` ignores the latter. A restore drops and creates in two steps
and goes on after errors.

### AdminTables, TableEditor, KeyScreen and Studio

A screen is a React component: an action is an event or the continuation of a
promise. Each load remembers the offset its closure was made with and whether
its effect has been cleaned up; a save remembers the row it was opened on. The
service's reads and writes are steps in between, and other writers change the
table. `KeyScreen` follows the secret of a new key from the answer to the
dialog (`secret`), and `crowded` marks keys whose creation met another request
or the operator's departure. `answers` says whether the service answers lists
as arrays, as the Studio expects, or as this admin service does.

## Runs and bounds

Each run checks safety and, where its row names one marked L, liveness. Several
rows name a conjunction, whose parts are named properties of the module, the
types of its state first.

| Run | Checks | Shows |
|---|---|---|
| `NetBridge` | `NoNeedlessRepeat`, `OutcomeKept`, `ImplementsNetQueue`, `DrainedUnlessDisturbed` (L) | the bridge is right through one fault of every kind, and refines `NetQueue` |
| `Dispatcher` | `ListenerSound`, `DeliveriesAccounted`, `ComesBack` (L) | listener and deliveries through a lost connection and one other fault |
| `Scheduler` | `RunsCounted`, `ScheduleKept`, `DueJobRuns` (L) | jobs shorter than the tick interval |
| `RealtimeHub` | `ClientsToldTheTruth`, `OwnerScoped` | presence, acks and the owner gate under any order of events |
| `RealtimeClient` | `EndsAgree`, `SocketDiscipline`, `EventuallyServed` (L) | library and server together |
| `AuthSessions` | `RevocationsTake`, `UsedUp`, `OneAccountPerIdentity` | what ends, blocks or uses up sessions and tokens, with two requests interleaving at every SQL statement |
| `ClientSession` | `ListenersAgree`, `SignedOutStaysOut`, `VerificationSound`, `FactorsStayWithOwner` | two tabs, their listeners, and factors at the other end |
| `FunctionsService` | `BooksBalance`, `OnlyLiveKeysRun`, `ReloadTakes`, `EveryRequestAnswered` (L) | guard, loader and runner beside the admin service, edits and a restart |
| `ObjectStorage` | `RowsMatchBytes`, `DownloadsMatch`, `OwnershipHolds` | bytes and rows through races, a crash and a bucket's deletion |
| `Backup` | `RetentionSound`, `StatusTruthful`, `OnSchedule`, `DumpsGoOn` (L) | six configurations through a failure, a crash and a restore |
| `Migrations` | `LedgerTruthful`, `EditedFilesRefused`, `CatchesUp` (L) | two terminals, an edit, a failure and two restores |
| `Studio` | `GridTruthful`, `KeysTruthful`, `SavesAreFaithful`, `LoadingEnds` (L) | two screens over the admin service, other writers, failures anywhere |

Bounds, and why they are enough to meet the cases of interest:

- **NetBridge**: two requests (a snapshot that is outdated while it is worked
  on), two pass slots (enough to see an overlap; the proof shows one is ever
  used), one or two clients forwarding a NOTIFY, one fault of each of five kinds.
- **Dispatcher**: two changes, two endpoints (one bare, one qualified, each
  matching one change), two activations at once, two attempts, one failure of a
  connection (which already leaves two live clients when it hits the LISTEN
  query), and one crash, failed query or edit. `MaxBackoff` is 3 s instead of
  30 s so that the cap is met.
- **Scheduler**: one job (jobs share nothing but the tick), two activations of
  it, three minutes, one edit, one run-now, one fault of each kind. `CountCap`
  stops the history counters beyond anything the properties tell apart.
- **RealtimeHub**: two sockets, two channels (with symmetry: channels are
  interchangeable in every property), one frame waiting on a wire while new
  input is handled, and for each channel a row of a numeric owner, of two owner
  columns, a deleted row, a row of nobody and a truncated one. One of the two
  subscribes with a filter.
- **RealtimeClient**: one channel, three application calls or token changes, one
  lost connection, two sockets of the library and one of a peer.
- **AuthSessions**: one username, address, phone number and Google account each
  (uniqueness is then contended), two users, three refresh tokens (a family of
  three, or two families), two one-time tokens, two requests in flight, four
  requests in all and two faults, one OTP attempt allowed and two passwords.
- **ClientSession**: two tabs, two listeners, two accounts, one factor with one
  challenge and two requests on it at once (the second is what makes a race).
  A behaviour draws one of three budgets: sign-ins and other calls, factor
  requests in one session, or factor requests across two.
- **FunctionsService**: two requests, one key with a limit of one per two ticks
  (so that the second request meets the limit or the edge), one function with
  two edits, one restart.
- **ObjectStorage**: one object (objects share only the bucket), two users, two
  requests at once, three uploads and four requests in all, one crash or failed
  write, one deletion of the bucket, and a query of every kind `parseTransform`
  tells apart.
- **Backup**: a day of one hour of two minutes, a month of two days, so that the
  minutes meet every field; six environments (daily with archives; once, in the
  first hour, after which the process exits; restricted
  days of both kinds with day 7, mirror and push; a rejected expression; an
  interval with a bad `BACKUP_KEEP`; a wait beyond setTimeout's range), one
  upload, one restore, one fault, one crash. `Horizon` is beyond the last
  instant a run asks for.
- **Migrations**: two terminals, two migrations of which one cannot be repeated,
  two texts, one edit, one failure, two restores.
- **Studio**: two rows on pages of one, two loads and two saves at once, two
  projects, two keys; three actions of the operator alone, or two beside a write
  of somebody else, and one action on the service as it is.

`CHECK_DEADLOCK FALSE`: the bounded systems stop when their budgets are used
up; the hub stops when every socket is closed, the worker after `stop()`.

## Fairness

Nothing is assumed of applications, SQL code, peers, handlers of functions or
faults, and of operators only that they repeat a migrate that failed. Assumed
are: the container restarts a process that is down (`restart: unless-stopped`),
start-up runs on, node runs timers and callbacks that are due, a query is
answered or fails, an HTTP call settles (the abort timer), a connection attempt
settles, child processes of the backup end, time passes, and the network
delivers what it does not lose. These are weak fairness conditions. Two are
strong: `Tick` of the scheduler, since only the bound `Depth` disables it while
it is due, and `ServerReceive` in `RealtimeClient`, since only the bound on a
wire does.

`Dispatcher` needs fairness for the listener only, because its delivery property
is stated for the moment the worker is idle. `FunctionsService` has it for the
service's own steps (`Serve`): a handler may never settle, its deadline fires.
`Studio` has it for answers only: a request is answered or given up by the
browser; the operator owes nothing, so `LoadingEnds` excepts an operator who
changes screens for ever. `AuthSessions`, `ClientSession`, `ObjectStorage` and
`RealtimeHub` state safety only: a request that fails is not resumed, and
nothing is promised of it.

## Findings

What the code does against a document, comment or test. The runs above pass,
with the behaviours below named as exceptions in their properties or kept out by
a bound; the last sentence of each finding in PROJECT.json says what to change
for TLC to show it.

1. *A missed NOTIFY strands a pg_net request.* `netBridge.ts:7-8` promises the
   opposite; the code drains at start-up and on NOTIFY, but not when LISTEN
   comes (back) up later.
2. *Two LISTEN clients.* `listener.ts` speaks of a single dedicated client. A
   connection lost under the LISTEN query reaches both the `'error'` handler and
   the `catch`, which schedule a reconnect each; from then on every change is
   delivered twice.
3. *A job longer than the tick interval runs again for the same instant*, since
   `next_run` is advanced only after the run.
4. *A cron string edited into an invalid one keeps firing on every tick*, though
   the comment says it will not fire until fixed.
5. *An unsubscribe queued offline undoes a later subscribe*, because the outbox
   is drained after the re-subscriptions.
6. *A subscribe while a reconnect is pending opens a second socket*: the timer
   does not look at the socket it finds.
7. *With an expired token in the URL the queue is sent to a socket the server
   refuses*, and is lost: `onopen` counts a token as authentication.
8. *A first Google sign-in with an email another account has fails with a 500*,
   where the documentation says it creates a new user: the unique index on
   `auth.users.email` rejects the row.
9. *`signOut()` of the library revokes nothing*: it posts no refresh token, and
   `/logout` looks at nothing else.
10. *A monthly backup runs without pause*: setTimeout takes a wait of more than
    24.8 days for 1 ms.
11. *The documented default of `BACKUP_CRON` is not one*: unset means an
    interval of 24 hours.
12. *`--latest` may pick the file of a failed dump*, which psql has applied in
    part when gunzip reports its end.
13. *The CLI's restore reports success although statements failed*
    (`ON_ERROR_STOP` is not set), and
14. *its backup keeps a dump cut short by a signal*, since the runner turns the
    missing exit code into 0.
15. *A reload during an import is lost*: the import caches what it read before.
16. *Any authenticated user overwrites the object of another*, and a delete may
    take away a row created after its owner check.
17. *Races between uploads and deletes leave rows without bytes, bytes without
    rows, or bytes under the size and type of others*; a crash in `put()` leaves
    a truncated file.
18. *A challenge verifies twice* when two calls overlap.
19. *The Studio's screen of keys throws on the answers of the admin service*,
    which wraps lists in objects.
20. *The secret of a new key is lost* if the reload that follows its creation
    fails, or the operator leaves.
21. *After a page turn, a save shows rows of the old page under the new numbers*.
22. *A save rewrites columns nobody edited*: empty text becomes NULL, the text
    007 a number.

Also seen: a rotation, sign-in or one-time token read before a revocation and
finished after it leaves a usable session (`exempt`, `raced`); retries in flight
still call an endpoint that has been switched off or deleted; a request whose
outcome cannot be inserted loses it, which `netQueue.ts` accepts; a listener of
the auth client that signs out inside a callback makes later listeners hear the
events in reverse (`reentered`); a sign-in answered after `signOut()` signs in
again; an `INITIAL_SESSION` is delivered after its listener unsubscribed; a
sign-out in an old tab removes the newer session of another from the storage.
The Studio says "Row updated." or "Row deleted." when no row matched, and a save
that succeeds closes whichever form is open.

## Proofs

Every theorem below holds for every value of the constants that satisfies the
named assumptions of the modules (listed at the end of this section); TLC
evaluates those in the runs. "Run" is the property of a run that the theorem
states.

| Module | Theorem | States | Run |
|---|---|---|---|
| `WebhooksProofs` | `BridgeTypeCorrect`, `OnePassAlways` | `SpecBridge => []TypeOKBridge`, `[]OnePass` | |
| | `NoNeedlessRepeatAlways` | `[]NoNeedlessRepeat` | yes |
| | `OutcomeKeptAlways` | `[]OutcomeKept` | yes |
| | `BridgeRefinement` | `NQ!Spec` | yes |
| | `ListenerSoundAlone` | `Spec => []ListenerSound` | |
| | `ListenerSoundAlways` | `SpecWorker => []ListenerSound` | yes |
| | `DeliveriesAlwaysAccounted` | `SpecWorker => []DeliveriesAccounted` | yes |
| `DaemonProofs` | `RunsAlwaysCounted` | `Prompt => (Spec => []RunsCounted)` | yes |
| | `ScheduleAlwaysKept` | `Prompt => (Spec => ScheduleKept)` (action property) | yes |
| | `RetentionAlwaysSound` | `SpecBackup => []RetentionSound` | yes |
| | `StatusAlwaysTruthful` | `SpecBackup => []StatusTruthful` | yes |
| | `AlwaysOnSchedule` | `SpecBackup => []OnSchedule` | yes |
| `AuthSessionsProofs` | `SpecTyped` | `[]Typed`: rows and requests, and what they refer to | |
| | `RevocationsAlwaysTake` | `[]RevocationsTake` | yes |
| | `OneAccountAlways` | `[]OneAccountPerIdentity` | yes |
| | `UsedUpAlways` | `[]UsedUp` | yes |
| `ObjectStorageProofs` | `RowsAlwaysMatchBytes` | `[]RowsMatchBytes` | yes |
| | `DownloadsAlwaysMatch` | `[]DownloadsMatch` | yes |
| | `OwnershipAlwaysHolds` | `OwnershipHolds` (action property) | yes |
| `MigrationsProofs` | `LedgerAlwaysTruthful` | `[]LedgerTruthful` | yes |
| | `EditedFilesAlwaysRefused` | `EditedFilesRefused` (action property) | yes |
| `FunctionsServiceProofs` | `OnlyLiveKeysAlwaysRun` | `[]OnlyLiveKeysRun` | yes |
| | `ReloadAlwaysTakes` | `[]ReloadTakes` | yes |
| | `BooksAlwaysBalance` | `[]BooksBalance` | yes |
| `BrowserProofs` | `VerificationAlwaysSound` | `[]VerificationSound` | yes |
| | `ListenersAlwaysAgree` | `[]ListenersAgree` | yes |
| | `SignedOutAlwaysStaysOut` | `[]SignedOutStaysOut` | yes |
| | `FactorsAlwaysStayWithOwner` | `FactorsStayWithOwner` (action property) | yes |
| | `GridAlwaysTruthful` | `SpecStudio => []GridTruthful` | yes |
| | `KeysAlwaysTruthful` | `SpecStudio => []KeysTruthful` | yes |
| | `SavesAlwaysFaithful` | `SpecStudio => SavesAreFaithful` (action property) | yes |
| `RealtimeProofs` | `SpecIInv` | `[]IInv(Socket)`: types, registry, and what browsers are told | |
| | `ClientsAlwaysToldTheTruth` | `[]ClientsToldTheTruth` | yes |
| | `OwnerAlwaysScoped` | `[]OwnerScoped` | yes |
| | `SocketAlwaysDisciplined` | `Prudent` implies `SpecClient => []SocketDiscipline` | yes |
| | `EndsAlwaysAgree` | `Prudent`, no offline unsubscribe: `SpecClient => []EndsAgree` | yes |

Each rests on an inductive invariant, which TLC confirmed on the instance of the
run before it was proved, with one lemma or step per action.

**NetBridge.** `BridgeInv == TypeOKBridge /\ DrainingExact /\ WorkQueued /\ Accounted /\
OutcomeInHand`. `OnePass` alone is not inductive: that two passes cannot start
needs the link between the flags and the passes (`DrainingExact`: `draining`
holds exactly while one pass runs). `NoNeedlessRepeat` needs to know that what a
pass still has to do is in the queue (`WorkQueued`), which holds only because no
other pass deletes it, and an exact count of calls against interrupted rounds
(`Accounted`). `OutcomeKept` needs that a pass about to delete has its outcome
recorded or its INSERT failed (`OutcomeInHand`). The refinement maps `calls`,
`queue` and `response` to themselves; a step of the bridge is one step of
`NetQueue` or a stutter, by `BridgeInv`.

**PgListener.** `ListenerInv` adds to `ListenerSound` that finitely many clients
are open and that before `start()` there is neither client nor timer.
`ChainsConserved` counts timers and open clients against the chains that
connections lost twice have added (finding 2), so each step needs how it changes
the cardinality of the open clients. In the worker, `CrashListenerInv` is the
one lemma more: a new process is a new listener.

**Dispatcher.** A copy of a change that a LISTEN client was sent is a token: it
lies in that client's inbox (`Inboxed`), then is held, once for each endpoint,
by the activation of `handle()` that took it (`Holding`), and ends as a row of
the log or as a loss. `CopiesPaid` says, for each change and endpoint, that rows
and tokens together are at most the copies sent, exactly so while nothing has
been disturbed. The attempts need a second account: those that deliveries in
flight have made are pairs of an activation and a number (`Done`), those the
rows count are pairs of a row and a number (`Logged`); together they are POSTs
that went out, and what went out is paid by the tokens that are spent, at
`MaxAttempts` each. That at most one token of a change lies in each inbox, and
none of a change that is not committed, is `InboxesSound`; that a slot holds a
token for an endpoint only in the stage that the code would be in,
`StagesAgree`. `PaidKept`, `PaidMoved`, `PaidPosted`, `PaidRecorded` and
`PaidCommitted` are the five things a step can do to an account.

**Scheduler.** The two theorems have the hypothesis `Prompt`: no job outlasts the
tick interval and every cron string that an operator may write parses. Findings
3 and 4 are what happens otherwise, and the run leaves both out in the same way.
Under it, with nothing in flight before the priming tick (`Quiet`), there is one
cron round of a job at a time (`OneRound`), which finds `next_run` as it read it
or reset by the operator and is going to write an instant after the one it ran
(`RoundKept`). `Counted` gives every instant one execution, and one more for
each round that was cut short: the instant that is next, or is being run, still
has one to spare. `EditsPaid` counts the executions at an instant of an old cron
string together with those the row and the round in flight still owe, against
the edits. The history counters stop at `CountCap`; `Within` says what the
counts mean short of it.

**Backup.** Dumps and archives are pruned apart from each other, each to its
newest `BACKUP_KEEP`. What keeps the two in step is in `Directory`: the dumps in
the directory are an end of those begun, none is gone that is younger than one
that is there. So the archives younger than a dump are no more than the dumps
younger than it, and an archive that goes takes no kept dump's uploads with it
(`PruneKeeps`). `RetentionSound` also needs that a dump's snapshot is older than
its archive (`InFlightRun`) and that the bytes never fall behind the rows of any
dump that a restore may load (`ContentTyped`). `StatusKept` holds across
retention because the run in flight is the last one begun, and the newest file
is never the one to go. For `OnSchedule`, `TimerKept` says that the clock never
passes what is armed, that nothing was begun since it was armed, and that a wait
which overflows ends within the minute. `PlannedMatches` is the lemma about
`Cron`: an expression that parseCron() accepts matches exactly the minutes that
crontab's words name, whatever the calendar.

**AuthSessions.** `Typed` says how each request's program counter, kind and
fields belong together (`Formed`), and that rows are never removed, only marked.
`Sessions` is the invariant behind revocation: of every live token *and of every
request that may still mint one* (`Session`), it says that whatever should have
ended it has, or is a revocation in progress (`Ending`, `Resetting`,
`Suspending`), or was overlapped (`exempt`, `late`), or will be refused
(`blocked`). The tokens alone are not enough, because a request in flight carries
a session the table does not show. `Using` is the invariant behind single use: a
row with two readers in flight, or a winner beside a reader, is `raced`; and
wrong guesses counted plus requests that have passed the check of the counter
stay below the limit plus the number of requests.

**ObjectStorage.** `RowsMatchBytes` is kept by an upload or delete that is alone
(`Sole`, `Midway`: how far it has come), and disturbed only by steps that clear
`clean`. For downloads, `Undisturbed` says that what was read is still so, and
`Captured` that a variant, in the cache or about to be put there, is faithful to
the state of the file it is filed under as long as the file can be in that state
(`Over`: no upload whose bytes look complete is still writing, so no state comes
back). `Numbered`, `IdsFresh` and `Checked` carry the ownership.

**Migrations.** Per terminal, `InOrder` (what is applied, known and pending
partitions the files, in order), `Seen` (what is recorded was read, or recorded
meanwhile by another: `stale`) and `Dropped` (an undisturbed restore has dropped
what it creates); for the dump, `DumpMatches`. That a next migration exists uses
the well-foundedness of the naturals, cited from the library.

**FunctionsService.** `KeysInv` (a key being minted has no row, writes under way
are admissions counted), `RequestsInv` (a request of a dead key has not found its
row: a dead key stays dead, `DeadStays`), `CallsInv`, `FilesInv` (no reload was
of an edit to come) and `StagesInv` (an invocation holds a module exactly while
its request is admitted). The rate bound has an invariant of its own, `RatesInv`:
a key's window holds every hit that is young enough to count in an interval that
is still to come, so that a hit that joins it when it has room (`HitJoins`) fills
no interval that ends now beyond the limit, and the intervals that ended before
do not see it.

**Mfa and ClientSession.** `MfaInv` follows a `/factors` call through its awaits:
`Found` (a call that has found its factor is its owner's, and the status it read
errs in one direction only), `Proven` (a call that marks has a challenge of that
factor, or has had one accepted) and `SpentSound` (an accepted challenge is not
open, and whoever marks it beside or after another has checked it beside
another). `Grows`, what every statement does to the rows, keeps every call of
that kind sound at once. `TabsInv` says that a session that is held, stored or
left comes of a sign-in that is done, so an answer or a URL brings a new one and
a reload can only bring what is stored. `ListenersInv` says what a loop over the
listeners guarantees on its way: where no callback has changed the session there is
one loop at most, of the session the tab has, and only those still to be called may
have heard of another (`TabAgrees`).

**Studio.** The two screens share only the operator, so `StudioInv` is the
conjunction of one invariant for each, and `StudioSteps` says what a step of the
Studio is to either. `GridTruthful` speaks of a settled grid; the invariant
speaks of the loads as well: one that the effect started, and that is to be
shown, is of the page on the screen (`EffectLoadsPage`), and unless loads
overlapped there is one to be shown, which has seen the writes reported before it
read the rows (`OneLoad`). For the keys, a secret that waits is that of the panel
on the screen, which is loading, has failed or has lost its project, and behind a
load unless its creation was disturbed (`SecretsHeld`); so the creation that is to
be shown has the panel to itself, with nothing revealed (`CreationsAlone`).
`PanelReplaced` is the one lemma for the five ways a panel comes or goes. That a
revoked key stays revoked needs that no creation of it is still to be carried out
(`KeysMadeOnce`); that a list without it is shown, that the last load has read the
keys after what was reported (`ListFresh`).

**RealtimeHub.** `RosterCurrent` and `AckAgrees` speak of the last frame only and
are not inductive: once the browser has read it, the frame is gone. `Sound`
follows the whole wire instead, behind what was read: `OnAfter` is what a reader
holds after the first *n* frames, so `Tells` (after all of them it knows its
subscriptions), `Brackets` (before each content frame it is subscribed) and
`Shows` (the last roster, read or not, is the registry) survive a read unchanged.
A step that pushes frames then only has to show that they `Fit`: no content for
a channel the reader has left, and a current roster wherever the registry
changed. For `remove` that needs every listener to be told of *all* the channels
they shared (`NoticesListed`: an injective list of a finite set's members has
them all). `Brackets` holds also of a socket that is closing, whose
acknowledgements are dropped while its messages still change its subscriptions;
`Tells` and `Shows` do not, and the invariant does not claim them there.
`Registered` keeps references apart because those given out are below the next.
The invariant is `IInv(A)`, of the browsers `A` only: every socket of the hub alone,
none or `this.ws` where a browser that has gone may lose what was on its wire.

**RealtimeClient.** `Prudent` says that the server accepts every token the
application has and that it neither subscribes nor tracks while a reconnect is
pending; `EndsAgree` also needs that it does not unsubscribe while the socket is
not ready. Findings 5 to 7 are what happens otherwise, and the run leaves the same
three things out. `OneSocket` gives that `this.ws` is the one socket not torn
down, and that there is none while the timer runs. `SignedIn` is why `send()` may
trust its own flag: the library holds itself signed in only where the server does,
because a token in the URL has been accepted by the time the socket opens and an
`authenticated` frame can only be on a wire the server has authenticated; until
then nothing but the token is sent. That the two ends agree when settled is not
inductive, as a message in flight changes what the server serves. `InStep`
follows all that is on its way: once the messages up have been handled the server
will serve the active channels and no other (`Agrees`), since the last message
about a channel is the one that counts, and each active channel's roster is shown,
or on its way, or a subscribe that will be answered with it is (`Shown`). A flush
establishes it from nothing (`FlushAgrees`), which is why it does not matter what
was lost. Of the server, the library's steps need only what is left of
a socket by steps of others: nothing changes but frames behind those on the wire,
none of them `authenticated` (`Aside`).

Only model-checked, because out of the prover's reach:

- liveness under fairness: `DrainedUnlessDisturbed`, `ComesBack`, `DueJobRuns`,
  `EventuallyServed`, `EveryRequestAnswered`, `DumpsGoOn`, `CatchesUp`,
  `LoadingEnds`.

The assumptions that a reader could wonder about: connection attempts are
numbered, at most two reports come of one lost connection and the first back-off
is not above its cap (`PgListener`); the library's sockets are numbered, in the
order it uses them (`RealtimeClient`); the changes are a sequence
(`Dispatcher`); slots for requests are finite (`AuthSessions`, `ApiKeys`), as
are the rows of a table (`AdminTables`); there is at least one object, project
and function for an idle slot to name (`ObjectStorage`, `ApiKeys`,
`FunctionsService`); a checkout has a last migration, there is a text a file can
hold, and `None` is no text, content or dump (`Migrations`); the calendar
reaches as far as the search does and has days of the week 0 to 6 (`Backup`,
`Cron`); limits are above zero, budgets are numbers. None restricts how many of
anything there are, except to be finite where they are counted.

## Not modelled

Metrics, logs, HTTP status pages, the sites, the examples and the deployment
files carry no state the properties could be about. The request builders of the
client library (`query.ts`, `objectstore.ts`, `functions.ts`, `vectors.ts`) are
stateless, so the only thing to check in them is the text they build. The other
screens of the Studio load and show, or repeat the pattern of the two modelled.
Row-level policies are evaluated by PostgreSQL. Of the auth service, the rate
limiter, the OAuth state parameter, the signing of tokens and the delivery of
mail and SMS are left out; of the admin service the SQL console, invitations and
read-only listings; of the storage service listings and HTTP ranges. The pixels
of image transforms are the work of an external library.

## Plan

The components worth modelling have their modules. What is left, in order:

1. Abstract specifications beyond `NetQueue`: an at-most-once delivery log for
   `Dispatcher`, a presence set for `RealtimeHub`, a single-use token for
   `AuthSessions` and `Mfa`.
2. The fixed window of the auth service's rate limiter, against a reference
   count, as the sliding window of `ApiKeys` is.
