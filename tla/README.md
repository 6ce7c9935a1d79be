# Challoupe: a TLA+ model

Challoupe is a self-hosted Docker manager. `apps/server` is one Node process, one
event loop, one SQLite file, the local Docker daemon and any number of remote
daemons over SSH; `apps/web` is a single-page application that talks to it by
REST and WebSockets. This directory holds TLA+ models of both, the TLC
configurations that check them on small instances, and proofs, checked by
TLAPS, that hold for every instance.

Paths below are relative to `apps/server/src/`, those that begin with `web/` to
`apps/web/src/`.

## 1. The system

| Component | State | Operations | Modules |
|---|---|---|---|
| Host registry, SSH client cache: `hostManager.ts`, `hosts.ts`, `controllers/hosts.controller.ts` | `hosts` table; `clients`, the cached client per string an id was spelled with | `getClient`, `invalidate`, `close`/`error` listeners; create, update, remove; test a connection | `HostManager` |
| Docker event broadcaster: `dockerEvents.ts` | `activeHosts`, `subscribers`, retry timers, a stream per host | `start`, `startHost`, `scheduleRetry`, `subscribe`, `broadcast`, `notify` | `DockerEvents`, `Alerts`, `Feed` |
| Accounts, sessions, second factors: `auth.ts`, `totp.ts`, `controllers/auth.controller.ts`, `controllers/users.controller.ts` | `users` table, session store | setup, login, TOTP, backup codes, logout, administration | `Accounts` |
| Single sign-on: `integrations/oidc` | cached configuration, `oidc` in a session | login, callback, discovery, reset of the cache | `Accounts`, `OidcConfig` |
| Backup, restore: `backup.ts`, `controllers/backup.controller.ts` | none; reads and replaces settings, users, stacks | build, export, restore | `Backups`, `Accounts`, `Stacks`, `Settings` |
| Settings, factory reset: `settings.ts`, `controllers/settings.controller.ts` | `settings` table, secrets in it encrypted | get, update, reset | `Settings`, `Accounts`, `Stacks` |
| Stacks, deploy webhooks: `stacks.ts`, `stackWebhooks.ts`, their controllers | compose files, `stack_webhooks` table, containers | create, import, update, deploy, down, delete, webhook | `Stacks` |
| Scheduled backups: `scheduledBackups.ts` | a timer, the backup directory | run, prune, delete, restart | `Backups`, `Settings` |
| Watchdogs: `resourceWatchdog.ts`, `auditWatchdog.ts`, `containerWatchdog.ts` | a timer, `lastNotifiedAt`, `lastCheckedAt` | check, diagnose, restart | `ResourceWatchdog`, `AuditWatchdog`, `Alerts`, `Settings` |
| Image updates: `imageUpdates.ts`, `integrations/registry` | `statusCache`, a timer | check one, check all | `ImageUpdates`, `Settings` |
| Notifications: `integrations/notifications` | none | send to the webhook and to ntfy | `Alerts` |
| Audit log: `audit.ts` | `audit_log` table | record, list, clear | `AuditWatchdog`, `Engine` |
| Container, image, volume and network routes, Trivy: `controllers/*`, `docker.ts`, `integrations/trivy` | none; Docker's | create, start, act, pull, build, scan, remove, prune | `Engine` |
| WebSocket bridges: `ws.ts`, `wsAuth.ts`, `LogDemuxer` of `docker.ts` | per socket: attached stream, pending input and resize, incomplete frame | exec, logs, stats, chat, diagnosis, stack generation, events | `Sockets`, `Terminal`, `Streams`, `Chat`, `OneShot`, `Feed` |
| Web: hooks with a socket: `web/components/ContainerTerminal.tsx`, `web/hooks/` | the socket in use, what is on the page | connect, send, clear, leave | the same, with the server's end |
| Web: sign-in and permissions: `web/auth.tsx`, `web/pages/Login.tsx`, ... | the copies of the user and of the feature flags | refresh, login, logout, the settings query | `Session`, with the guards of the routes |
| Web: list pages: `web/services/`, `web/hooks/useBulkAction.ts`, `web/hosts.tsx` | query cache, ticked rows, selected host | fetch, act on a row or on many | `ListPages` |
| Web: stack editor: `web/pages/StackEdit.tsx` | the text, queries, mutations | load, edit, save, deploy, delete | `StackEdit` |
| Web: settings page: `web/pages/Settings.tsx` | the form, its query | load, edit, save | `SettingsForm` |
| What is left out | | | section 5 |

How they interact:

- every REST route and WebSocket of a host, the resource watchdog, the image
  check and the event broadcaster get their client from `hostManager.getClient`;
- the hosts controller writes a row, then calls `invalidate` (update, remove) or
  `dockerEventBroadcaster.startHost` (create);
- restore and factory reset replace the `users` table under every session and
  every request that is under way;
- sessions live in the same database as the accounts but are never deleted with
  them;
- a stack is a directory, a compose project of the Docker daemon and perhaps a
  webhook row: nothing keeps the three together but the order of the awaits in
  the handlers, and restore and factory reset write and delete stacks too;
- update and factory reset restart the four schedulers after they wrote the
  settings; a restore writes the settings and restarts none;
- an event goes from the broadcaster to every subscribed tab and through the
  container watchdog to the notification targets;
- a hook of the web application and a handler of `ws.ts` share a socket and
  nothing else; a page shares with the server only requests and their answers.

What is hard: a handler is atomic only up to its next `await`; whatever it read
before (a host's row, a session, an account's backup codes, the settings) may
have changed after it. SSH connections, event streams and sockets fail at any
moment and report it late. Timers retry, and checks overlap with, what may have
been done meanwhile by another caller. A restart keeps the database and nothing
else. In the browser a component outlives what its URL names, an answer comes
when the page shows something else, and the callbacks of a mutation are those of
another render than its function. `PROJECT.json` lists each such place as a
hazard, at its line.

What each component owes its callers:

- *cache*: never a dead client; never one with the credentials of an older row;
  no connection that nobody can close;
- *broadcaster*: one stream per registered host, always, and none for a removed one;
- *accounts*: there is an administrator, or the first-run setup is open; a
  backup code works once; replacing the accounts signs everybody out;
- *stacks*: whole or not there; a deletion takes containers and webhook with it;
  only the present token deploys;
- *schedulers*: they do what the settings say, and the settings can be read;
- *backups*: what was written is removed only for something newer;
- *watchdogs and notifications*: everything is told, once, and not too often;
- *bridges*: what goes in comes out, in order, and nothing outlives its socket;
- *Docker routes*: what was done is in the audit log, what was made is within
  the quota;
- *pages*: they show what the server has, save what was edited, and offer what
  the server accepts.

## 2. Modules

```
HostManager ──► MCHostManager            HostStale.cfg
   │  └──────► LinkProofs (with Sockets)
   ▼                   │
DockerEvents ─► MCDockerEvents           DockerEvents.cfg, DockerEventsDeadId.cfg
                       └─────────┐
Accounts ─────► MCAccounts       │       Accounts.cfg, AccountsSso.cfg, AccountsReset.cfg
   └─────────► AccountsProofs    │
Stacks ───────► MCStacks         │       Stacks.cfg, StacksReset.cfg
   └─────────► StacksProofs      │
Sockets ──┬─► Chat, Feed ────────┴─► MCLiveness         DockerEventsLive.cfg
          │                             └─────► LiveProofs (with LinkProofs)
          └─► Terminal, Streams, OneShot ─► MCConnections  Connections.cfg
                │ (with MCHostManager)  └─────► ConnectionsProofs (with SocketProofs)
                └─────► SocketProofs (with LinkProofs)
Settings, OidcConfig, Backups, Engine ────┐
   │                                      │
ResourceWatchdog, AuditWatchdog, Alerts,  ├─► MCParts   MCParts.cfg
ImageUpdates ──────────────────────────── ┤             StackEditDeploys.cfg
   └─────────► ServerProofs               │
StackEdit, Session, SettingsForm,         │
ListPages ────────────────────────────────┘
   └─────────► PageProofs (with MCParts and ServerProofs)
Pipe ◄── Terminal
```

### HostManager

`getClient` caches under the string it was asked with and finds the row by
`Number(hostId)`; routes and upgrades hand it the segment of the URL as it is. So
`clients` is a map from `Spellings`, `IdOf` is the conversion, and `Hosts` are the
spellings that are `String(id)`, which the web application and the broadcaster use
and the only ones that the controllers invalidate. A connection (`Conns`) is one call of
`connectSsh`: `free`, `connecting` until `ready`, `open`, `ended`. `getClient`
has one `await` that leaves the event loop; `GetClient` is the part before it,
`ConnReady` and `ConnFailed` the part after it. `ConnError` and `ConnClose` are
the listeners, which delete the entry of the *key*, whichever connection it
holds. `UpdateHost` and `RemoveHost` are the handlers: the row, then
`Invalidate` of `String(id)`. A host's credentials are counted (`version`), and a connection
remembers the count it was opened with (`cred`).

Two history variables name the situations in which the code promises less:
`crossed`, the connections during whose connect `invalidate` was called, and
`solo`, those that never had another connection of their key (`KeyOf`) beside them.

### DockerEvents

Extends `HostManager` by the broadcaster: `active` is `activeHosts`, a stream is
one call of `startEventStream` with a `phase`, `timers` counts the pending
`setTimeout`s per host. `StartHosts(F)` is `startHost` for each host of `F` in
one handler, with the `getClient` it calls; it serves boot, subscribers, the
retry timer and the creation of a host. Its null branch (a host without a row)
leaves `activeHosts` as it was. `ConnReady`, `ConnFailed` and `ConnClose` are
composed with what they do to the streams that wait for, or run over, the
connection. `OtherGetClient` is every other user of the cache. `Crash` drops
everything but the rows; `Boot` is the start in `index.ts`.

### Accounts

`users[i]` is the row with id `i`; ids are AUTOINCREMENT. `store` is the session
store. A request that is between two parts of its handler is in `reqs` with the
copy of the session it was given. express-session is external: at the end of a
response it stores the copy if the handler changed it (`Save`), `regenerate()`
and `destroy()` act on the store at once. Handlers without an `await`
(setup, login, all of the users controller) are one action. Handlers with one
are two: `TotpVerify`/`TotpVerifyDone`, `TotpConfirm`/`..Done`,
`SsoLogin`/`..Done`, `SsoCallback`/`..Done`, `Restore`/`RestoreDone`,
`Reset`/`ResetDone` or `ResetFailed`. `TotpVerify` awaits otplib only for six
digits: `verifyTotpToken` answers `false` to anything else at once, in the same
turn of the event loop, and this is what makes a backup code's read and write
one step.

A token is six digits, right or wrong, or one backup code. Backup codes are
members of `CodeSets`, a set for each time codes are generated.

`old` (a session from before the accounts were last replaced), `retired` (codes
used, replaced or taken away) and `crossed` (accounts replaced under a sign-on
callback) are history. The first restore or reset under which a session lived
marks it; only signing in anew clears it. A restore brings back the rows of the
file with the codes they had: those leave `retired`.

### Stacks

`disk[n]` is the directory of a stack: not there, there without a compose file
(`empty`), or with one. `hook[n]` is its row in `stack_webhooks`: the number of
the token, 0 for none. `running` are the compose projects with containers.

A request in `reqs` awaits one operation `op`: `access`, `mkdir`, `write`,
`rm` of the file system, `up` or `down` of `docker compose`, Portainer, the list
of directories. The operation takes effect in an action of its own (`Access`,
`Mkdir`, ...), which leaves in `ret` what the promise will resolve to; a later
action is the handler's code from there to its next await. `docker compose up`
takes effect twice: it reads the file (`ComposeUp`) and, up to ten minutes later,
starts the containers (`ComposeStart`). `rm` may fail half way. Handlers share
their steps where they share the code: `Write`, `Made` are
`StackService.write`, under create, import, update and restore; `DeleteDown` is
`StackService.delete`, under remove and reset.

`retired` (tokens replaced or revoked), `torn` (stacks whose write or deletion
failed), `left` (rows left without a stack) and `orphaned` (containers that
escaped a deletion) are history. The last three are what the code cannot avoid;
they are added to in the one step that causes each, so that the properties say
that there is no other cause, and `left` and `orphaned` are taken back when the
stack is written again.

### Sockets, Terminal and Pipe

`Sockets` is a WebSocket: the browser's end, the server's end, a queue each way.
It is external, and is what its users rely on: messages arrive in order, the
close frame behind them; after `close()` nothing is handed to the page; a lost
connection takes with it what was in flight. The upgrade, awaited by
`attachWebSocketServer`, may find the socket gone.

`Terminal` is `ContainerTerminal.tsx` over it and `handleExec` at the other end.
`task` is where the handler's asynchronous function is: it awaits `exec`,
`resize` and `start`, and keeps what is typed meanwhile in `pending`
(`pendingInput`) and `resize` (`pendingResize`). Keys are numbered as they are
typed. `Pipe` is the abstract specification: what comes out of a channel is the
beginning of what was put in. `InputPipe` instantiates it with the keys typed
into each socket and what its shell read.

### Streams

The logs and statistics of a container: the hook, the handler, and `LogDemuxer`
between them. A byte is a record of the unit (a frame, a line, a character) it
belongs to and its place in it; Docker sends them in chunks cut anywhere
(`Chunk(c, n)` takes any length). `Passed` and `Kept` are what `push` emits of its
buffer and what it keeps; `DemuxLogs` is the function that looks at all bytes at
once. The page changes its target at any moment.

### Chat and OneShot

`useOllamaChat` with `handleChat`: one socket, turn after turn, cleared in the
middle of any; `useOllamaStream` with `handleDiagnose` and `handleGenerateStack`:
a socket for each question. `runOllamaStream` is the answer in preparation
(`job`, `reply`); an answer is the sequence of its tokens, each of which names
its turn, so that one in the wrong place is seen.

### Feed

`useDockerEventNotifications`, which connects again three seconds after a close,
and the subscribers of the broadcaster. Notifications have the container and the
second for a key: `Twins` are the events that share it with the one before, and
replace its notification.

### Settings, OidcConfig

A setting is a row or the default. `stored` has per scheduler the rows of its
group, `sealed` per secret the installation whose key file encrypted it: a
restored backup may be another installation's, and then `get()` throws.
`Restarted` is what `restartScheduler` sets a timer to: the period, none, or, for
one that 32 bits of milliseconds cannot hold, 0. `Update` is the body merged and
written, then the schedulers; `FactoryReset`, `RestoreSettings`, `StartServer`
likewise. `OidcConfig` is the one cached configuration with its key, and any
number of sign-ons whose discovery is under way when it is reset.

### Backups, ImageUpdates

`builds` are the runs under way: listing the stacks, then reading each, while
stacks come, are half written and go. A file is named by the time it was built;
`FinishBuild` writes and prunes in one turn. `ImageUpdates` has the checks that
await the registry, which may ask for a token and be asked again, and the
scheduler's round over the hosts, one after the other.

### ResourceWatchdog, AuditWatchdog, Alerts

A check of resources has the time at which it began and the samples it still
waits for. Its decision (`Decide`) compares with the time it began, as the code
does. A sample that is refused rejects the check, and with it, unhandled, the
process. `AuditWatchdog` is synchronous; its window of 30 minutes and of the last
rows slides over a log that grows, is cleared and is switched off. `Alerts` is
`notify()` from the event to the last target, each step with the settings of its
own moment. `Diagnose` is the container watchdog's part of it; `looks` remembers
for each event whether a diagnosis began, and when. The watchdog starts the
cooldown before it looks for a model, so that an event that comes without one
silences the next that would have one.

### Engine

A request to Docker is one to four calls. Docker does or refuses each; the
connection may be lost after it did; the process may end, also because
`collect()` of `trivy.ts` rejects before anything awaits it. `made` remembers for
each container who made it and the quota of that moment; `did` the calls that
were done. Reading handlers, and requests that a schema, permission or quota
turns away, change nothing and are left out.

### ListPages, Session, StackEdit, SettingsForm

`ListPages` is one machine for all lists, with a record per service hook of what
it offers (`takes`, `does`, `refetches`, `bulk`, `polls`). TanStack Query is
external: a fetch is read by the server and answered later, an invalidation
refetches what is on the page and replaces a running fetch only if there is data.
`Session` keeps the browser's copy of the user against the server's session, with
requests handled and answered in any order, and compares what each page offers
(`Offered`) with what the routes accept (`Accepted`), each by its own copy of the
user and of the feature flags: the page's come with the `['settings']` query, and a
feature passes for being on as long as there are none (`Believed`). What the
sign-in page remembers goes with it when the page is left (`Orphaned`). `StackEdit` follows the text
of the editor, and of the mutations it started, from stack to stack: a text is
named for the stack it was loaded for. `SettingsForm` is the form over all
settings beside another administrator who saves.

### Exceptions

Like `crossed`, `torn` or `left`, history variables name what the code does not
avoid, each set in the one step that causes it, so that a property says that
there is no other way:

| Module | Variable | The code does not promise it when |
|---|---|---|
| `HostManager` | `crossed`; keys outside `Hosts` | `invalidate` was called during the connect; the id is spelled in another way |
| `Terminal` | `twice` | Connect is pressed beside a socket still in use |
| `Streams` | `cut` | a chunk of a TTY ends within a character (`toString('utf8')` of each chunk) |
| `Chat` | `stale` | the error event of an abandoned socket comes during another one's answer |
| `OneShot` | `lateError` | likewise |
| `Feed` | `missed` | nobody was subscribed, or the connection was lost |
| `Settings` | `unstarted`, `foreign` | the settings were restored; from another installation's backup |
| `Backups` | `deleted`, `torn` | an administrator deleted the file; a crash cut it off |
| `ImageUpdates` | `overlaps` | two checks of one image were under way at once |
| `AuditWatchdog` | `steady` | the timer was restarted or the log cleared |
| `Alerts` | `steadyOn` | the watchdog, its model or a target was off meanwhile |
| `Engine` | `severed`, `silent`, `requoted` | the answer was lost, the log was off, the quota changed meanwhile |
| `Engine` | 0 CPUs | a number of CPUs, asked for or as the quota, rounds to none |
| `ListPages` | `missed` | the list changed elsewhere, or the page moved to another host |
| `Session` | `late` | the session ended elsewhere, or a status was read before it changed |
| `Session` | `Believed \ features` | a feature is off, and the page's settings are missing or older |
| `Session` | `SettingsOwn` | the settings page asks for it by itself |
| `StackEdit` | `shown` | the page's stack has not been loaded yet |
| `SettingsForm` | `unseen` | somebody else changed the field after the form was filled |

## 3. Model checking

| Run | Instance | Checks |
|---|---|---|
| `Connections` | 4 kinds of connections, each by itself; below | `ConnectionsTypeOK`, `CachedIsOpen`, `StaleOnlyIfCrossed`, `SoloIsCached`, `PageHasItsSockets`, `FeedIsWhole` and the refinement `InputIsPipe`; below |
| `HostStale` | 2 remote hosts, one with a second spelling; 2, 1 and 1 connections; 2 versions | `FreshAfterInvalidate` is violated |
| `DockerEvents` | local daemon, 1 remote host, 3 connections, 2 streams each | `TypeOK`, `OneStreamPerHost`, `NeverAbandoned`, `StreamIsCurrent` |
| `DockerEventsLive` | the same with 2 connections; a chat of 2 turns, a tab with 2 connections and 3 events; fairness | `HostsAreFollowed`, `HostsAreLetGo`, `ChatStaysInOrder`, `ChatGoesOn`, `TabIsTold`, `TabIsReconnected` |
| `DockerEventsDeadId` | the same with 2 connections | `RetryEndsForRemovedHost` is violated |
| `Accounts` | 2 names, 2 ids, 2 sessions, 1 request, 2 generations of codes | `TypeOK`, `RetiredCodesStayRetired`, `ReplacedSessionsSignedOut` |
| `AccountsSso` | 2 names, 2 ids, 2 sessions, 2 requests, single sign-on | `AdminUnlessCrossed`, `ReplacedSessionsSignedOut` |
| `AccountsReset` | the same | `AdminOrSetup` is violated |
| `Stacks` | 2 stacks, 2 requests, 1 token | `TypeOK`, `NoHalfStack`, `HookHasStack`, `NoOrphans`, `RetiredTokensNeverDeploy` |
| `StacksReset` | the same | `ResetKeepsOnlyAuditLog` is violated |
| `Parts` | 12 components, each by itself; below | 13 invariants; below |
| `StackEditDeploys` | 2 stacks, 1 text, 1 click | `DeploysReviewed` is violated |

Each module states its properties, with what they mean, at its end. Every
property of a passing run has a mutant in `PROJECT.json`: a plausible bug (a
listener or a guard dropped, `end()` forgotten, ids that start over, otplib
asked about every token) under which TLC finds it violated.

### The runs Connections and Parts

The components of each of these runs share no state with each other, so that a run
of each would say the same as one run of their sum: `part` is chosen in the initial
state, the others rest in an initial state, and a view (`ConnectionsView`,
`PartsView`) is what tells two states apart. `MCLiveness` does the same for the
three parts with liveness.

| Part of `Connections` | Instance | Property |
|---|---|---|
| `hosts` | 2 remote hosts, one with a second spelling; 2, 1 and 1 connections; 2 versions | `CachedIsOpen`, `StaleOnlyIfCrossed`, `SoloIsCached` |
| `terminal` | 2 sockets, 2 keys or faults | `OneLiveShell`, `InputIsPipe` |
| `streams` | 2 targets, 2 sockets, frames of 2 lengths cut anywhere, 5 bytes, 1 loss | `ViewIsOfTarget`, `FeedIsWhole` |
| `oneShot` | 2 sockets, 2 tokens | `LastAskIsShown` |

| Part of `Parts` | Instance | Property |
|---|---|---|
| `settings` | 2 schedulers, one of them with a period no timer holds, 1 secret, 2 changes | `SettingsInForce` |
| `backups` | 2 runs at a time, 1 stack, keeping 1 or 2, 3 moments | `BackupsKept` |
| `imageUpdates` | 2 hosts, 2 versions, 2 checks or rounds | `UpdatesAreTold` |
| `resources` | 2 places, a cooldown of 2 intervals, 3 ticks | `OncePerCooldown` |
| `audit` | 1 user, a burst of 2, intervals of 1 and 2, a lookback of 3, 5 ticks | `BurstsAreFlagged` |
| `alerts` | 2 events, 1 container id on 2 hosts, a cooldown of 2 ticks, 2 ticks, 1 change of the settings | `EventsAreTold` |
| `oidc` | 2 providers, 2 sign-ons | `ConfigIsOfSettings` |
| `engine` | 2 requests, 1 name, a quota of both, one of CPUs that rounds to none, wishes within, at and above them, 1 mishap | `DockerIsToldRight` |
| `editor` | 2 stacks, 1 text, 1 click | `SavesOwnStack` |
| `lists` | 5 of the pages, 2 hosts, 2 rows, 1 action | `ListsKeepUp` |
| `session` | an administrator and two users, with each permission one of them; at most 2 requests under way when one is sent; 1 change of the account or of a flag, 1 reload or lost answer | `SessionIsTrue` |
| `form` | 2 fields, 2 saves, 1 edit | `FormKeepsEdits` |

`ConnectionsTypeOK` and `PartsTypeOK` are the type invariant of the part that moves.
A property of the tables is often the conjunction of several that the module names:
`ViewIsOfTarget`, for one, says that the text is the target's, that no stream
outlives its socket and that "connected" is true. Three parts share the variables of
`Sockets`, so that `PageHasItsSockets` says `OneLiveShell`, `ViewIsOfTarget` or
`LastAskIsShown` of the one that moves. Other parts state their property of an
initial state while they rest.

### Bounds, and why they are enough

- `Conns`: a rival needs two connections of one key; the third lets another
  caller race a stream that has one. A key's connections are interchangeable,
  so the next free one is taken. A second spelling has one: what matters is that
  `invalidate` of its host passes it by. The runs of the broadcaster have no
  other spelling, as its own callers never use one.
- `MaxVersion = 2`: an old and a new row. `MaxTimers = 2`: no subscriber while a
  host has two timers; a host has at most one timer per stream that ended, and
  one new one needs another caller of `startHost` in between.
- `Streams`: two for each host, one more than the code should ever have, so
  that a second one would be seen.
- `MaxId = 2`: an account before and one after a restore or reset, or two at a
  time. Ids run out, so the runs of `Accounts`, `HostStale` and `Connections` end: deadlock is
  not checked there. `DockerEvents` never ends and is checked for deadlock.
- `Sids`, `Reqs`: sessions and requests at a time; two of each are an
  interleaving. Codes and sign-on are in separate runs (`CodeSets = {}` or
  `Provider = FALSE`): codes matter to local accounts only, sign-on to accounts
  without codes.
- `Stacks`: two stacks, so that a reset or restore has a next one; two requests
  that overlap are what each property takes to break; one token can be revoked
  under a call that presents it (two tokens, where it can also be replaced, are
  covered by the proof). The next token waits for the bound, a crash is always
  possible, so there is no deadlock.
- The parts: two of whatever can overlap (sockets, runs, checks, discoveries,
  requests, stacks an editor moves between) and one of each disturbance; the
  proofs of section 4 have no such bound. Clocks end, sockets and bounded
  actions run out, so that deadlock is not checked in `Connections`,
  `Parts`, `DockerEventsLive` and `StackEditDeploys`. The streams take five bytes of two
  frames: enough for a cut inside a header, inside a body, and between frames.
  Of the list pages those are looked at whose service hooks differ in what the
  model tells apart.
- `Pause = 2` and two ticks: a diagnosis may come in the tick of the one before,
  one after, or when the cooldown is over.
- `MCGrants`: each permission is lacked by one user and held by another, so that
  every guard on a page meets its guard on the server both ways. `MaxCalls = 2`:
  a third request is only sent after an answer; the handlers of sign-in send one
  of their own. The account begins as one of the users and every flag as on; the
  bounded change makes it another or switches one off.
- one export at a time is kept, and the file that is restored is one the server
  wrote: an edited file is not modelled.
- `Symmetry` permutes names, sessions, requests and the codes of one
  generation; no safety run tells them apart, and no liveness run uses it.

### What the modelling takes for granted

- A handler runs to its next `await` without interruption; promises that are
  already resolved (a cached client, a missing row) continue in the same turn.
- better-sqlite3 and its session store are synchronous, so `regenerate()` and
  `destroy()` complete in the turn that calls them.
- A stream emits `error` or `end`, not both; a connection that closes breaks the
  streams over it.
- Ids of hosts and users are never used again (AUTOINCREMENT).
- An operation of the file system or `docker compose` takes effect at one moment
  between its call and its return (`up` at two), and a failing one has done
  nothing or, for `up`, `down` and `rm`, part of its work.
- No name of a token is guessed: a webhook call presents one that was issued.
- React runs the callbacks of an event together and renders before the next;
  TanStack Query and the browser's WebSocket behave as their users rely on
  (above). antd shows one notification per key.
- Docker does a call or refuses it; a prune may remove anything of its kind.
- A timer of Node fires at once when its delay does not fit 32 bits.
- A crash drops the requests under way; in `Accounts` this is each of them
  ending in its failing branch, so there is no action for it.

### Fairness

`FairSpec` of `DockerEvents` assumes weak fairness of what the platform does by
itself: a process that is down is started, a due timer fires, a connect settles
(ssh2's `readyTimeout` is 15 s), an ended connection closes, `getEvents` settles,
a broken stream emits its error. It assumes strong fairness of success only: a
host that is tried again and again is reached some time (`FeedReady`,
`FeedAttached`); without it "is followed" cannot hold of an unreachable host.
Nothing is assumed of users, of other callers, or of connections and streams
failing or not failing; the process may crash again and again.

`ChatFairness` assumes that both ends handle what arrives and that every answer
comes to its end (the request to Ollama has a timeout of five minutes);
`FeedFairness` that a timer fires and that both ends handle what arrives. Nobody
has to ask, to clear, to stay or to lose a connection. `MCLiveness` restates the
three for the behaviours of each part: it asks nothing of a part that rests.

### Findings, each a run that violates what the repository says

1. `HostStale`. `getClient` caches the connection it waited for without looking
   whether `invalidate` was called meanwhile (`hostManager.ts:76`). After an
   update the old credentials stay in use; after a removal the removed host
   stays reachable, as long as that connection lives. `StaleOnlyIfCrossed` is
   proved: for a client cached under `String(id)` this is the only way. One cached
   under another spelling is the first of the shortcomings below.
2. `DockerEventsDeadId`. "don't keep retrying a dead id" (`dockerEvents.ts:109`)
   holds only if no connect was in flight when the host was removed: otherwise
   a client of it is cached, `getClient` does not return null and the host is
   followed again. `RemovedHostLetGo` says when this ends.
3. `AccountsReset`. A sign-on callback waiting for the provider while an
   administrator does a factory reset inserts an ordinary account into the empty
   table (`integrations/oidc/oidc.controller.ts:60`): setup answers 409, nobody
   is an administrator, and only the database file can be repaired.
   `AdminUnlessCrossed` is proved: this is the only way.
4. `StacksReset`. A factory reset deletes the stacks with `stackService.delete`,
   which leaves `stack_webhooks` alone (`controllers/settings.controller.ts:75`);
   only `StacksController.remove` revokes. The rows stay, where a test says that
   only the audit log is kept, and a later stack of the same name would accept
   the old token.
5. `StackEditDeploys`. "Deploying an existing stack changes what's actually
   running, so pending edits get a diff-and-confirm step first"
   (`web/pages/StackEdit.tsx:262`), but before the stack's query has data there is
   nothing to compare with: Deploy writes and deploys what the editor holds, the
   template or the text of the stack shown before.

### Known shortcomings, in the models but without a run

These are behaviours of the code that contradict no line of it. They are in the
models, as steps or as the exceptions of section 2.

- A client that was asked for with another spelling of a host's id
  (`/api/hosts/01/...`) is cached where no `invalidate` reaches it
  (`hostManager.ts:60`, `controllers/hosts.controller.ts:70`): it outlives the
  update and the removal of the host.
- The container watchdog starts the cooldown of a container before it finds that
  no model is set (`containerWatchdog.ts:26`): the next event within the hour has
  no diagnosis even if a model is set by then.
- The AI buttons and the scan are offered while the settings are not there yet or
  are up to a minute old (`web/components/AppLayout.tsx:464`), and refused
  (`ws.ts:56`, `integrations/trivy/trivy.controller.ts:15`).
- A page of the application whose first status fails shows a spinner and no way
  to try again; only the sign-in page has Retry (`web/pages/Login.tsx:92`).
- One host that cannot be reached, or a Docker daemon that is down, rejects
  `checkNow` of the resource watchdog; nothing handles the rejection and Node ends
  the process (`resourceWatchdog.ts:141`). `HostsMayBeAway` of `ResourceWatchdog`
  says that it should not; it is no property of a run because it does not hold.
- The restore of another installation's backup makes `decryptSecret` throw in
  every `get()`, at the next start too (`hostCrypto.ts:31`).
- Periods of 597 hours or more overflow a timer (`scheduledBackups.ts:72`,
  `imageUpdates.ts:152`); the form allows 720.
- A directory without a compose file makes every backup fail (`backup.ts:39`).
- A pull leaves the cached update status as it was.
- A create whose `start()` fails leaves a container, and perhaps a pulled image,
  without an audit entry; a number of CPUs below 5e-10, asked for or as the quota,
  rounds to no limit (`controllers/containers.controller.ts:107`).
- `collect()` of `trivy.ts:57` may reject before it is awaited, which ends the
  process.
- The editor offers Save before the stack has been loaded, and a refetch after a
  save overwrites what was typed meanwhile.
- The settings page saves all fields, so that it puts back what another
  administrator changed since it was loaded; a late answer overwrites edits; the
  cache is not cleared at logout, reset or restore.
- A selection of rows survives the change of the host; a mutation refetches the
  list of the host that is selected when it ends; an invalidation during a first
  fetch does not replace it.
- A status that is answered after logout shows the user as signed in again.
- The settings page asks, for a user who is no administrator, two queries the
  server refuses, each with an audit entry: three visits in half an hour look
  like an attack to the audit watchdog (`SettingsQueries` of `Session`).
- Two events of one container and second share a notification: an out-of-memory
  kill is replaced by the exit that follows it (`Twins` of `Feed`).

## 4. Proofs

For every value of the constants that satisfies the named assumptions: typing of
`IdOf`, `KeyOf` and `FeedOf`, with `String(id)` read as that id; sentinels outside
the sets they complete, `MaxVersion` and the cooldown of diagnoses positive,
clocks and bounds natural numbers, amounts of memory that are not zero,
`keepCount`s that have a largest, something that a live view can show, parts that
are among the twelve of `MCParts`, and that Docker sends streams of frames, lines
and characters (`WireAssumption`; a stream may end anywhere). In particular for
any number of hosts, connections, accounts, sessions, requests, checks, sockets,
keys, rows and files.

- `LinkProofs`. `HostInv` adds to the three safety properties what makes
  them inductive: a connect that no `invalidate` crossed uses the row the host
  has *now* (`ConnectIsCurrent` carries freshness from the call to `ready`), and a
  solo connection is the only one of its key (`SoloIsAlone`: the listeners that
  delete by key can then only hit its own entry). One lemma per action;
  `ConnectSshInv` is stated for any set of keys so that the broadcaster reuses it.
  The module also holds what the proofs about web sockets share: for each step of
  `Sockets`, what it does to the two queues of the socket, and that it leaves the
  others alone; and induction over numbers, from the least element of a set
  (`LeastNat`, `UpTo`), with which a function that is defined step by step over a
  sequence is followed to its end (`StepByStep`).
- `AccountsProofs`. `IInv` is four parts. *TableInv*: ids below `nextId`, no two
  accounts share a code. *SessionsInv*: every session, stored or in a request
  under way, names ids that were handed out, and an old one none that exists:
  ids that are not used again are why a restore signs everybody out. It also
  says that a request that awaits has six digits for a token, which is why a
  stale set of codes is never written back. *BackupInv*: the same of the file.
  *AdminInv*: sign-on is enabled, and a callback under way, only beside an
  administrator, in the file too, as long as `crossed` is false.

- `StacksProofs`. `IInv` adds two things to the properties. `DownIsDone`: a
  deletion that has its `down` behind it has left no container that is not
  counted as orphaned; it carries `NoOrphans` from the `down` over every step of
  the others to the `rm`. `HooksInv`: the tokens of the rows are distinct and not
  retired, so that `Trigger`, which compares with the row in the step that
  goes on to deploy, cannot pass a retired one. `Quiet` is the common lemma of the
  steps that only move a request on: such a step must not drop a write or a
  revocation it owes, nor get past a `down`.

- `ServerProofs`. Of `OidcConfig`: a cached configuration is the one of its key
  (`CacheIsOfKey`), because both are set in one turn from what the call read before
  its await; that is what lets `get()` answer by comparing keys. Of `Settings`:
  `SettingsInForce` with the types is inductive as it stands; the work is that
  whatever `get()` reads from typed rows is typed (`GetTyped`), so that every
  restart follows (`RestartFollows`). Of `Backups`: two facts of `Pruned`, for any
  set of files: what it leaves is newer than what it removes, by comparing how
  many files are newer than each (`PrunedIsOld`), and is no more than the count,
  by counting from the oldest left (`PrunedIsFew`). Of `Engine`: `Lives` says
  for each point a request can be at what Docker has done and the log holds by
  then; `Allowed` carries the quota that bounded a create to the container it
  makes (`MadeWithin`), unless the quota changed under it. Of `ResourceWatchdog`,
  `LastIsLatest`: the one time kept per signature is the last of
  all at which it was told, and there is none only as long as nothing was found.
  The two halves of `OncePerCooldown` follow although a check may decide with a
  time before that of the last. Of `Alerts`: what stayed on is on (`SteadyIsOn`),
  an event's targets are told in turn (`InTurn`), and the time kept per container
  is that of its last event that was not skipped (`LastIsLook`, with
  `LooksAreOfEvents`), so that two diagnoses of one container are a cooldown apart
  (`LooksApart`). Of `AuditWatchdog`:
  `FlaggedInTime`, that the first check after a burst flagged it or fell into its
  cooldown. Bursts are of any length, so `CheckSeesBurst` compares cardinalities:
  the rows of a burst are among those a check reads because the rows since its
  first are (`InOrder`: ids are in the order of times). Of `ImageUpdates`: a host
  that has an update for sure is still to be checked, is being checked with the
  digest it has, or an update was found (`SureIsTold`); and a check under way of
  an image without overlaps began after the one whose answer is shown
  (`LastIsKept`).
- `PageProofs`. Of `StackEdit`: once the page has shown its stack, its text came
  from that stack (`TextIsOfPage`); `WorksAreHonest` carries this in the mutation
  from the click to the write, over every move of the page in between. Of
  `Session`: a status under way that names a user was read from a session that is
  there (`ReadFromSession`), or a logout that ended it has answered
  (`LogoutAnswered`); and the finite tables of controls against those of routes, for any user and any
  flags on either side (`PagesOfferRoutes`). Of `SettingsForm`: the form shows the data it was filled
  from (`FormIsOfData`), and what a save under way carries would do no harm if it
  were handled now (`Harmless`). Of `ListPages`: a list on the screen is the
  server's or a mutation under way owes a fetch (`FreshOrOwed`); the rows a bulk
  action tried and those it has yet to try are the ticked ones, by their number
  too (`BulkCounts`). Of `MCParts`: a behaviour of the components side by side is a
  behaviour of each of them (`PartsAreComponents`), so that what is proved of a
  component is true of what the run `Parts` explores; from which `PartsTypes`. Types
  bound the counters, and that is seldom inductive: the image update checks asked for
  and the hosts a round has yet to ask are together within the bound
  (`UpdatesMore`), two requests of one group of buttons are never under way at once,
  the editor asks for a confirmation only on the page of a stack, and a save or an
  answer under way holds only values the settings had (`FormTypes`).
- `SocketProofs`. Of `Terminal`, `PipeInv`: what the listener has read is the
  beginning of what was typed, and as long as messages get through, the inputs in
  the queue are the rest. "Are the rest" is `Carries`: some ranks number the keys
  that the queue has behind each message, which is how a statement about the
  subsequence of inputs is made without recursion. `QuietStep` serves all steps
  that type and read nothing. `ExecImplementsPipe` is the refinement: each step of
  `Terminal` is a `Put`, a `Get` or a `Rest` of each channel. Of `OneShot`: the
  queue brings the answer from the message after the last one shown (`Line`), and
  the number shown and that on the way are the number sent (`Answering`); a prompt
  is in one place, so that no second answer begins (`Asked`).
- `ConnectionsProofs`. Of `Streams`: only the socket of the present view is
  listened to, and Docker is asked only for a connection that was made and is still
  there (`Viewing`). That logs and statistics are shown whole (`FeedIsShownWhole`)
  needs the edges between the units of what Docker sends. The listener holds the
  bytes from the last edge on and nothing else, whatever the chunks (`RestOf`);
  that it stops at this edge is followed frame by frame, or taken from the last
  newline (`FramesStop`, `LinesStop`). So what it has passed on at any time is what one
  pass over all of the bytes would give, `demuxLogs` (`DemuxWhole`), and a step adds
  the units between two edges, the headers of frames removed (`ChunkKept`,
  `BodiesConcat`). The text on the page with what is on the way to it has the last
  lines of that (`Shows`); cutting the text after each message loses nothing that
  cutting it once would keep (`LastLinesLater`). TTY output has no frames: its
  chunks are shown whole as long as none has split a character (`UncutAtEdges`).
  `ConnectionsInv` puts the
  four kinds of connections side by side, each for the part that moves, which proves the properties of
  the run `Connections` as they stand there.
- `LiveProofs`. Of `DockerEvents`, `EventsInv`: `HostInv` with the broadcaster's
  types, `OneStreamPerHost` and `NeverAbandoned`. `StartHostsStarts` is the
  core: whatever calls `startHost`, the streams it launches belong to hosts that
  had none, and every registered host it was asked for is active afterwards.
  `NeverAbandoned` then needs `OneStreamPerHost`: the stream that ends is the
  only one, so its timer is what is left of the host. `StreamIsCurrent` follows
  from `HostInv` alone. Of `Chat`: `ChatWires` says what may be on which socket
  and holds always; `ChatOrder` holds until `stale`. It follows a question from the
  page to the handler (`Asking`: it is in one place, and only the last one is on a
  socket the page listens to) and its answer back (`Answering`: the queue brings
  the rest of the last answer, and nothing at all when the input is enabled, so
  that a turn begins on an empty queue). Of `Feed`: what is on its way is newer than
  what is shown, in order (`Upcoming`), and every event that the tab could be told
  of is shown or on its way over its one connection (`AllTold`); a notification is
  only ever replaced by a later one of its key (`OfOtherKeys`, followed step by step).

`PROJECT.json` lists the theorems with the run that checks the same property.

Only model-checked: the liveness properties, which are beyond the prover, and the
violated ones. Every invariant and every action property of the passing runs is proved.

## 5. Not modelled

- *Compositions.* Backup, restore and factory reset are in several modules, each
  with its own part of the state; nothing composes the accounts with the stacks
  and the settings of one restore. Their product is far beyond what TLC can
  explore, and what one part does to another is in each of them as a step.
- *Passwords*: `changePassword` and the password of `update` write one column that
  only a comparison reads. *Permissions* as stored: their use is in `Session`.
- *Stack drift, compose conversion* (`stackDrift.ts`, `containerCompose.ts`): pure
  functions of YAML text and image names.
- *Statistics token* (`systemStatsToken.ts`): one row, handlers without an await.
- *Encryption* (`hostCrypto.ts`) but for which key opens what; *samples*
  (`hostStats.ts`), *schemas* and *formatting*: data that no property tells apart.
- *Reading handlers*: they return what Docker or a table says.
- *The rest of the web application*: dashboard, search, app store, layout,
  favourites; in the editor the webhook card and the drift; in the settings the
  cards with buttons of their own; in the hosts page the connection test, whose
  failure leaves its status at "testing".
