# PowerNode in TLA+

PowerNode is a control panel for game servers: a panel backend in Go with PostgreSQL and
Redis, a daemon (`wingsd`) on every node that drives Docker, a React frontend (the *web panel*) and a mobile
client. This directory specifies the parts of it where several actors meet — requests
that overlap in the database, calls between panel and daemon that fail half-way, goroutines
that race, handlers of a page whose answers cross — checks them with TLC on small instances,
and proves the central results with TLAPS for instances of any size.

Paths below are relative to `src/`; `handlers/` is `backend/internal/api/handlers/`.

1. [The system](#1-the-system): components, state, operations, what is hard, what must hold
2. [How they interact](#2-how-the-components-interact)
3. [Modules](#3-modules): what models what
4. [Runs](#4-runs): what each shows, bounds, fairness
5. [Proofs](#5-proofs)
6. [Disagreements found](#6-disagreements-found)
7. [What is not modelled, and the plan](#7-what-is-not-modelled-and-the-plan)

## 1. The system

`PROJECT.json` lists every component, and the hazards at their lines with the properties that
would catch them. The core:

| component | state it keeps | operations | what is hard | what makes it correct |
|---|---|---|---|---|
| **Server provisioning** `handlers/server_handler.go` | rows of `servers`; a container and a volume on a node | Create, Update, rebuild after an update, Delete | sums over a node and counts over an owner, checked in one transaction and spent at its commit, with a daemon call in the middle; three kinds of row lock | capacity and limits are never spent twice; what was checked is true at the commit; no server on a node that is gone or without a container; no lock cycle |
| **Power, suspension, status** `server_handler.go`, `scheduler.go`, `ws/hub.go`, `cmd/panel/main.go` | `is_suspended`, `status`, the container's real state | Power, Suspend, Unsuspend, a schedule's power task, the status poller | two columns with different writers; reports that arrive late; flags read before a slow call | the columns agree about a suspension; the status settles on what the daemon says |
| **Console streaming** `ws/hub.go` | rooms of tabs, one session per server, pumps, redials | subscribe, dial, install, pump, disconnect, redial, unsubscribe | dials made outside the hub's lock, so several may succeed or outlive the tabs that wanted them | one live feed, no forgotten connection, no tab that waits for nobody |
| **Ports** `handlers/server_allocation_handler.go`, `allocation_handler.go` | rows of `allocations`; the ports a container publishes | add, remove, undo; pool administration; claims by Create; release when a server goes | booking (database) and publishing (a rebuild on the node) are two steps that can each fail | what is booked is published; a failed add leaves nothing; the pool loses no row |
| **Container lifecycle** `daemon/internal/docker/manager.go`, `daemon/internal/api/handlers.go` | the container `srv-x`, and `srv-x-rebuild` while it is replaced | CreateContainer, RecreateContainer, restoreContainer, Start, Stop, Remove | nine Docker calls under no lock, each of which may fail (two unnoticed: the inspection and the sweep), beside other requests, and cut off when the panel stops waiting | one container at rest, or an error that says why not; never two up; a rebuild looks like one step |
| **Backups** `handlers/server_backup_handler.go`, `scheduler.go`, `daemon/internal/backup/backup.go` | rows of `server_backups`; archives on the node | create (user or schedule), restore, delete; the server's own deletion | a row first, a file over minutes, then the row again; users leave, daemons die, admins delete servers by force | the counted slot is free; only whole archives are restored; rows and files agree |
| **Nodes** `handlers/node_handler.go` | rows of `nodes`: capacity, admission, cores, plugin host flag, daemon token | Create, Update, Status (reported cores), Delete | changes while servers are placed; exclusivity of the flag | settings change only between checks and commits; one plugin host |
| **Users** `handlers/user_handler.go` | rows of `users`: admin, active, limit, token version | Create, Update, Delete | "last admin" is counted outside a transaction | an active admin remains |
| **Schedules** `scheduler/scheduler.go` | `last_run_at`; a goroutine per run | the minute tick, the claim, tasks with offsets | overlapping ticks, stale conditions | one run per minute and schedule |
| **Sessions and 2FA** `handlers/auth_handler.go`, `twofa_handler.go`, `auth/` | token version, TOTP secret and flag; tokens in the hands of clients | login, refresh, password change, setup, verify, disable | read, compute, write without a lock | what is revoked stays revoked |
| **Domains** `handlers/server_domain_handler.go`, `domainretry/`, `daemon/internal/proxy/` | rows of `server_domains`; nginx sites; certificates | add, remove, a retry loop | two systems and a loop that works from a list it read earlier | rows and sites agree in the end |
| **Databases** `handlers/server_database_handler.go`, `mysqlhost/` | rows of `server_databases`; MySQL databases and users | create, delete | two systems, undone by hand | rows and databases agree |
| **Files, SFTP** `daemon/internal/files/`, `sftpd/` | files of a volume | write, rename, delete, … | a modification time compared before a long copy | no edit lost unnoticed |
| **Daemon console** `daemon/internal/console/hub.go` | one writer per server | attach, pump, command, clear | two connections share one entry | a command reaches the container |
| **Streamer plugins** `handlers/{overlay,song_request,spotify,twitch,twitch_bot,stripe,analytics}_handler.go` | layouts, queues, tokens, subscriptions, donations, sessions | webhooks, saves, token refresh | deliveries repeated or reordered by others; check-then-insert | each event counts once |
| **Web panel: session** `frontend/src/api/client.ts`, `App.tsx`, `pages/Login.tsx`, `components/TwoFactorGate.tsx` | tokens in `localStorage`, shared by a browser's tabs; `refreshInFlight`; the user a tab shows; the console's socket | login, logout, reload, request, refresh, repeat, reconnect | one refresh for many waiters; tokens that change under a request; a socket that outlives its token | a request acts for the user who is shown; nothing waits for ever; the console comes back |
| **Web panel: pages** `frontend/src/pages/`, `frontend/src/components/` | what a part of a page has fetched; the flags that disable its controls; handlers under way | about 80 handlers in 35 parts | answers that are late, refused or out of order beside handlers that fail half-way | what was changed is shown; controls come back; nothing is submitted twice |
| **Rate limiter** `ratelimit/ratelimit.go` | counters in Redis | Allow | two commands that are not one | every window ends |

## 2. How the components interact

* **Panel → PostgreSQL.** Handlers run statement by statement at READ COMMITTED. Ordering
  comes from `SELECT … FOR UPDATE` on a server, a node or a user, from the implicit locks of
  UPDATE and DELETE, and from foreign keys. In `Provisioning` a lock is not a variable: who
  holds it follows from the statement each request has reached.
* **Panel → daemon.** HTTP calls of `daemonclient/client.go`, with a timeout of 15 or 120
  seconds and the context of the user's request. Every one of them may fail before the daemon
  acted, fail after it acted, or be given up while the daemon carries on. Each module has these
  outcomes as disjuncts of the action that makes the call.
* **Daemon → Docker.** A sequence of calls with the context of the panel's request: when the
  panel hangs up, the next Docker call fails too, and so does the one that would repair.
* **Hub.** Tabs and daemon connections meet in maps under `h.mu`, which is released during
  dials. The hub's poller calls back into the panel to write the `status` column.
* **Web panel → panel.** `request()` reads the token when it sends. After a 401 it waits for the
  refresh that all requests and sockets of a tab share, and repeats once. The pages call it
  through the functions of `api`; nothing cancels a call when its page is left.
* **Scheduler.** Goroutines in the panel that call the same daemon client without a handler's
  checks and locks.

## 3. Modules

Every module is named after a component, each action after the handler or the step of it
that it stands for; `PROJECT.json` maps each definition to its lines. Operators with the
name of an action and a suffix (`InstallAlways`, `NodeDeleteUncounted`, …) are variants of
that action with a plausible bug. They belong to no specification; replacing the action by
its variant must violate the property it is paired with in `PROJECT.json`.

| module | role |
|---|---|
| `Capacity` | the arithmetic of `Create` and `Update`: what is booked on a node, what fits, who is under the limit |
| `ServerLedger` | abstract: a server appears, is resized and disappears in one step that sees node, limit and totals as they are |
| `Provisioning` | the handlers statement by statement, with `NodeHandler.Update/Status/Delete` and `UserHandler.Update` beside them; implements `ServerLedger` |
| `ServerPower` | power, suspension, schedules and the poller, for one server |
| `ConsoleHub` | the console half of the hub, for one server (the maps are keyed by server) |
| `Ports` | allocations of one node, their owners' requests, the pool, and what containers publish |
| `Container` | abstract: the server's container is started, halted, replaced, removed, each in one step |
| `ContainerRebuild` | `RecreateContainer` Docker call by Docker call; implements `Container` |
| `Backups` | rows and archives of the backups of one node's servers |
| `PanelSession` | one tab of the web panel: tokens, requests, the shared refresh, the console socket; other tabs and the server are its environment |
| `PanelApi` | the calls of `api`: what each shows and what it changes; the shape of a table |
| `PanelPages` | a part of a page, given as a table: what it has fetched, its flags, its handlers under way |
| `ServerTabs`, `AdminPages`, `AccountPages`, `StreamerPages` | the tables of the 35 parts, one definition per component, and what disables their controls |
| `MC…` | instances for TLC: definitions of the constants a `.cfg` cannot write, and symmetries |
| `…Proofs` | theorems, each module extending the one it is about |

**Provisioning.** `pc[r]` is the next statement of request `r` (`c_…` Create, `u_…` Update,
`d_…` Delete, `rebuild`), `call[r]` what it asked for and has read. `row`, `node` and `limit`
are the committed tables. The INSERT of `Create` is not visible before its commit, so `row`
changes in `CreateCommit` only; the uuid is fresh (`Fresh`). `container[s]` is the shape of the daemon's container:
the part of a demand that Docker enforces (memory and cpu; disk is booked, never enforced).
Checks that only refuse a request because of its form are left out. `ReapplyBegin` is the
rebuild of `applyPorts` and of `recreateMissingContainer`, which read the row without a lock.

**ServerPower.** `suspended` and `status` are the columns, `container` is what Docker has: `"running"`, `"starting"` (Docker is
restarting it), `"offline"` or `"missing"`. `Report` is what `Stats` answers of it, which reaches the column as it is; while
Docker does not answer an inspection (`hidden`) that is `"offline"`.
`PowerBegin` reads the flag once; the call is a later step, a restart two. A schedule reads
the status column (`only_when_online`) and nothing else. `poll` holds a report between
`FetchStats` and `PersistStatus`. `Suspend` writes both columns in one UPDATE and stops the
container afterwards as far as it can. `Crash` is the restart policy at work.

**ConsoleHub.** The steps of a goroutine are its critical sections and its dials. `stage[t]`
is where a tab is in `ServeConsoleSocket`; `stage[c]` where the redial is that the loss of connection
`c` started; `dialled[x]` is a connection that exists and is not installed. A
connection name is used again when nothing refers to it any more. `told` are the tabs that
received "could not reconnect to node daemon" since the last session was installed.

**Ports.** `alloc[p]` is the row of port `p` with its id, `published[s]` the ports of the
container. `work[r]` walks through count, claim, read, rebuild and, if the rebuild fails,
release. A rebuild that fails may have published the new ports all the same, left the old container, lost it or brought back
one that was lost, as `ContainerRebuild` shows; `lost` are the servers that have none since. The server's life has the state in between the daemon's removal and the row's. The
foreign key's ON DELETE SET NULL is part of `ServerGone`. `Calm` servers are those whose
owners send one request after the other and stay until it ends; all others are wild.

**ContainerRebuild.** `main` and `old` are the containers of the two names. `work[r].step` is the next
Docker call of `RecreateContainer`; `wasRunning` and `had` are the local variables the code
branches on. Every call has a disjunct that fails although Docker could have done it. The inspection and the sweep are
the two whose error the code ignores; after the others it returns an error, through `restoreContainer` where the code does.
`Abort` ends the context: every later call fails, `restoreContainer` included,
so the rebuild just stops where it is. `regime` is chosen at the start and says what may run
beside a rebuild (`overlap`) and what may fail (`faults`). `told` is what the last rebuild answered, and `failed` a history of
what has gone wrong that is ignored or leaves something behind: no action reads it, the properties name their exceptions by it.

**Backups.** `rows[b]` and `archive[b]` are the two halves of a backup. `work[r].waits` says
whether the panel still waits for the daemon: `Abort` during a call leaves the daemon at work.
The daemon writes to the final path, so `archive[b].whole` is known to nobody. A creation that fails removes its file, or
leaves it: an error of `os.Remove` is ignored, and one of the last `Stat` or `Close` does not try. A server's deletion removes
its archives, or some of them (`os.RemoveAll`'s error is ignored), or none, when an admin forces it without the daemon; the rows
go in any case. `litter` is a history of what was left in these ways. `Calm` servers: requests are not cut off, a backup is
deleted only when nothing concerns it, and the server only while nothing is unpacked; anything may fail for them too.

**PanelSession.** `store` is `localStorage`: whose tokens, whether the access token has expired
(`fresh`) and whether the refresh token is of the user's current `token_version` (`live`).
`call[c]` is a request with the token it went out with; `refresh` the one refresh under way;
`tab` what `App` shows. `RefreshOk` and `RefreshFails` are one step with everything that waits
for them, because the continuations of one promise run before any other event. A handler may answer 401
for a wrong code or password too, so any request may be refused. `handleLogout` leaves refreshes and
requests under way. `mixed` is a history variable: tokens of another user than the one shown were stored since the page was
opened.

**PanelPages.** `unit` is the part that is open. `reads[l]` are the requests of list `l` that are not
answered, `shown[l]` what is shown of it: `"behind"` misses a change this part has made,
`"lost"` misses one because a request failed or an older answer came last. `busy[f]` are the rows
a flag is raised for: a flag for the page (`useState(false)`), for one row (an id) or for each row (a map
of ids). `runs[s]` is a handler that awaits its `step`-th call. A call that fails may have acted; an answer
to a list may be refused, which hides the list, empties it or leaves it, as its `catch` says.
The code of the parts has one shape — raise a flag, await calls, reset the form, reload, catch, lower
the flag — so a component is a table: its `loads` (the functions that fetch, and what they do when refused),
its `flags`, its `handlers` with their calls in order, the lists they fetch anew (`anew`), take from the answer
(`takes`) or change themselves (`amends`), whether they lower the flag `always` (in `finally`) or only when
they `failed` (because they leave the page), whether they only count the calls that fail (`settles`: the bulk actions of
`ServerList`, one call per selected server, which the model lets take effect one after the other), and its `offers`, from the
JSX: what disables the control.
A handler that returns early because its own flag is up (`handlePower`) has the flag in its offer.

## 4. Runs

| run | instance | distinct states | question |
|---|---|---|---|
| `provisioning` | 2 nodes, an owner and an admin, 2 servers (one may exist before), 2 requests of any kind, two settings per node, limits {1, none}, aborts and daemon failures; no cores reported | 336 516 | do the handlers, interleaved statement by statement, do what `ServerLedger` does in single steps? |
| `provisioning_liveness` | 1 node, 2 servers, 3 requests, reported cores | 142 996 | do all requests finish? |
| `server_power` | 3 requests, 1 schedule, 2 tabs, start/stop/restart; a daemon that fails, a container that exits and is restarted, inspections that fail | 888 098 | do flag, status and container stay in step? |
| `server_power_suspended` | 1 request, 1 schedule | violation | does suspension block starting? (no: section 6) |
| `console_hub` | 2 tabs, 3 connections, 2 attempts | 227 754 | is the room fed once, is nothing forgotten, is nobody left waiting? |
| `ports` | a wild and a calm server, 2 ports, 2 requests, limit 1, ids 0–1 | 1 336 459 (view) | are booked ports published, and the pool conserved? |
| `ports_release` | 2 wild servers, 1 port, 1 id | violation | does a failed add undo only its own booking? (no) |
| `container_rebuild` | 2 rebuilds, one after the other, 2 specifications, any call failing and a cut-off anywhere; beside them power actions, crashes and removal, or nothing | 128 584 | does a rebuild leave one container, are two ever up, is an undisturbed one a step of `Container`? |
| `backups` | a wild and a calm server, 2 backups, 2 requests, limit 0–1, users and schedules, forced deletion | about 802 000 (view) | slots, half and unfinished archives, stranded archives |
| `backups_left` | 1 server, 1 backup, 1 request | violation | does a backup whose user left complete? (no) |
| `panel_session` | 1 tab with 2 requests and the console, 2 users, other tabs | 91 532 | does a request act for the user who is shown, does every one end, does the console come back? |
| `panel_pages` | each of the 35 parts, 2 handlers at a time, 2 rows, 2 answers per list | 101 977 (view) | does a part show what it changed, do its controls come back, is nothing submitted twice? |

### What the properties say

* `CapacityRespected`, `LimitRespected`, `BornWithContainer` are about the step in which a row
  appears or changes. They cannot be state invariants: an administrator may lower a capacity or
  a limit below what is booked. `ChecksStillHold` is the reason for them: between the check
  and the commit nothing the check depended on changes. `NodeStands` is the foreign key and
  the lock together. `ImplementsLedger` says all of it at once. `NoLockCycle`: no group of requests waits only for
  its own members. It is about the row locks of the three handlers; the run breaks it with an order that locks the node first.
* `SuspensionIsShown` (`suspended <=> status = "suspended"`) fails as soon as one writer of
  `status` does not know about suspension; the guard is in a callback in `main.go`.
  `StatusCatchesUp`: for a watched server of whose container the daemon says the same from some time on, the column becomes
  that and stays that, `starting` included. Whether what it says is true is another question: while an inspection fails the
  daemon says `offline`.
* `FedOnce`, `NoOrphanConnection`, `NoSilentTab`, `SilenceEnds`: see the comments in
  `ConsoleHub`. The daemon may stay away for ever; the tab is then told. A session installed after the last tab has left
  (`hub.go:276`) is owned by its pump, so `NoOrphanConnection` says nothing against it, and nothing closes it until it breaks
  or a later last tab leaves.
* `BookedForLiving`, `PoolConserved` hold for all servers; `BookedIsPublished` for calm ones,
  while wild servers take and release the same ports. A calm server may be left without a container by a failed rebuild
  (`lost`) and then publishes nothing, with its ports booked; the property speaks of it again once a later rebuild has made or
  brought back one.
* `OneContainerAtRest`, for rebuilds that follow each other, whatever fails, is cut off or runs beside them: after a success
  there is one container, under its name. None there after an error only if putting it back failed or the request was cut
  off; a second one only for these reasons or because it could not be removed, and if later rebuilds succeed beside it only
  because sweeping it has failed as well. With two rebuilds at a time (`overlap` `"all"`) none of this holds.
* `OneUp` and `ImplementsContainer` are about rebuilds beside which nothing runs. Each call may fail, each rebuild be cut off
  anywhere, and power actions come between rebuilds. Both except what the code does not notice: an inspection
  that fails makes a running container look stopped, so that it is renamed without a stop, and a rebuild that then succeeds
  leaves the server stopped; after a sweep that fails an older container stays beside the new one. The exceptions are in the
  properties (`failed`), and without them TLC finds both traces.
* `SlotStillFree`, `RestoresWhole` hold for all; `NothingStrands`, `SuccessIsStored`, `NothingUnfinished` for calm owners:
  every archive has its row, every successful row its archive, and every archive at rest is of a successful backup. The first
  and the last except servers whose deletion was forced or ignored an error, and the last also a creation that could not close or
  remove its file (`litter`): these leave archives behind, which the model shows.
* `ActsAsShown` excuses a page under which tokens of another user were stored (`mixed`): by another tab, or by a refresh
  that a logout did not stop, which is what happens at `client.ts:97`. Everything else — expiry, revocation, logout, login as another user, a request that
  waited — leaves the token and the page together.
* `ShowsWhatItDid` excuses what is `"lost"`: after a failed request a page may be behind, and if two answers
  to one list overtake each other the older one stays (nothing in the code orders them, so "what was changed last is on the
  page" is not true and not claimed). `Forgotten` are two lists that their parts change and do not fetch again:
  `CreateServerForm` offers a port that its last submission has taken, and `ServerList` shows the servers it has suspended
  or unsuspended in bulk (`ServerList.tsx:137`) as they were. The run has both, and `ShowsWhatItDid` leaves them out.
* `OneAtATime` is not claimed for flags that hold the id of one row: naming a second row unlocks the first.

### Bounds, and why they are enough

Two requests give every pair of handlers in every order, and each request can start while the other
holds any lock; the third in the liveness run allows a cycle of three, one more than the two kinds of lock an
`Update` and a `Create` share. Two nodes are needed for the owner who creates on both at once, two units of memory for demands that fit alone and not
together. In `ConsoleHub` three connections are a session, a dial of a tab and one of a redial
at the same time; with two attempts a redial fails once and goes on, and fails and gives up. In `Ports` a second
server is needed for a port that changes hands, and a second id for one that returns as another row.
In `PanelSession` two requests
wait for one refresh or find it begun, one of them being the `me()` that can answer after a new login; two users are what
can be confused. In `PanelPages` two handlers and two answers cross in every way; a third waits behind one of them.
`MaxReads` keeps a reload back while two answers of the list are on their way. A part has its own state
only, so one at a time is open.
`MaxId` bounds the ids the table hands out, `MaxLimit` the backup limit, `Attempts` (5 in the code) the redials, `Archives`
the number of backups ever made. Requests of `Provisioning` and `ServerPower` are used once each; those
of `Ports`, `ContainerRebuild` and `Backups` return to idle and start again, so that sequences are unbounded
apart from the ids. Symmetry is used in runs without liveness properties only.

`ports`, `backups` and `panel_pages` give TLC a `VIEW` (`Visible` in their MC modules): two states are one if they differ only in what no
property asks and no later step passes on to what one asks. In `Ports` that is what wild servers publish or have lost; in
`Backups` the limit of a server that is gone or of a request whose row is inserted, whether the panel waits for a restore, and
archives that no property or request concerns and that cannot be restored. Everything the action property `PoolConserved` speaks
of is in the view. In `PanelPages` it is the order in which a list's answers were asked for, which of the two slots a handler
has, its row where its flag names none, and whether its change was overtaken where it takes nothing from the answer. Under
`backups`, where symmetry is used too, the number of states varies a little with the workers.

`Reported` is empty in `provisioning`: with cores that change as well the run takes more than five minutes. A capacity that
changes in the middle of a request is there in the administrator's settings (`NodeUpdate`), which wait for the same lock as
`NodeReport`; reports are in `provisioning_liveness`, and the theorems hold for any `Reported`.

Deadlock is checked where the system never stops by itself. `Ports`, `ContainerRebuild` and
`Backups` end when all servers are deleted (and the ids are used up) and say so in their `.cfg`.

### Fairness

* `Provisioning`: weak fairness of each request's `Progress`. Statements and daemon calls end:
  the pool hands out connections, PostgreSQL queues lock waiters, `http.Client` has a timeout.
  Nothing is assumed about arrivals and administrators.
* `ConsoleHub`: weak fairness of what each goroutine does next. Dials return; tabs need not
  come or go and the daemon need not return.
* `ServerPower`: calls to the daemon end, the ticker of the poller ticks and a fetch succeeds
  again. With a daemon that never answers the column cannot follow.

* `PanelSession`: a request ends one way or the other, timers fire and a reload loads; the panel is reachable again and again
  (strong fairness of a successful refresh while the socket waits for one, and of a successful dial). A revoked session is excused.
  `PanelPages` has no liveness property: that a raised flag has a handler that lowers it is an invariant.

## 5. Proofs

| module | theorem | property |
|---|---|---|
| `ProvisioningProofs` | `TypeCorrect`, `ServersStandOnNodes`, `ChecksAreNotStale`, `CapacityNeverOverspent`, `LimitNeverExceeded`, `ServersBornWithContainer`, `LocksNeverDeadlock`, `Refinement`; `RequestsOnlyMoveOn` | `TypeOK`, `NodeStands`, `ChecksStillHold`, `CapacityRespected`, `LimitRespected`, `BornWithContainer`, `NoLockCycle`, `ImplementsLedger` |
| `ConsoleHubProofs` | `TypeCorrect`, `RoomFedOnce`, `ConnectionsAreOwned`, `TabsAreNotForgotten`; `SessionsFollowEachOther` | `TypeOK`, `FedOnce`, `NoOrphanConnection`, `NoSilentTab` |
| `ServerPowerProofs` | `TypeCorrect`, `SuspensionAlwaysShown` | `TypeOK`, `SuspensionIsShown` |
| `PortsProofs` | `TypeCorrect`, `NoPortOfTheGone`, `PoolKept`, `FailedAddLeavesNothing`; `IdsNameRows`, `CalmReleasesTakeTheirOwn` | `TypeOK`, `BookedForLiving`, `PoolConserved`, `BookedIsPublished` |
| `ContainerRebuildProofs` | `TypeCorrect`, `RebuildLeavesOne`, `NeverTwoUp`, `RebuildIsOneStep` | `TypeOK`, `OneContainerAtRest`, `OneUp`, `ImplementsContainer` |
| `BackupsProofs` | `TypeCorrect`, `CountedSlotHolds`, `OnlyWholeRestored`, `NoStrandedArchive`, `SuccessMeansStored`, `FinishedOrRemoved`; `WaitedForCompletes` | `TypeOK`, `SlotStillFree`, `RestoresWhole`, `NothingStrands`, `SuccessIsStored`, `NothingUnfinished` |
| `PanelSessionProofs` | `SessionTypeCorrect`, `SessionActsAsShown` | `SessionTypeOK`, `ActsAsShown` |
| `PanelPagesProofs` | `PagesTypeCorrect`, `ButtonsAlwaysComeBack`, `OneHandlerAtATime`, `PagesShowWhatTheyDid`; `PanelKeepsItsPromises` | `PagesTypeOK`, `ButtonsComeBack`, `OneAtATime`, `ShowsWhatItDid` |

Theorems after a semicolon state what no passing run checks as a property: lemmas worth knowing, and properties that hold only
under a further hypothesis.

They hold for any sets of requests, servers, nodes, ports and so on, under the named
assumptions beside the CONSTANTS: finite sets where the code counts, model values that are not rows. TLC
evaluates them in every run. Two theorems about the parts of a page have a hypothesis on the tables: `Guarded`
(a control that raises a flag is disabled by it) and `Reloads` (a handler that stays on the page fetches, takes or makes
every change of its calls, but for the lists in `Forgotten`). `PanelKeepsItsPromises` discharges them for the panel's own 35
tables: for the panel as it is, with its two `Forgotten` lists, nothing else is needed, with any number of handlers, rows and
answers on their way.

**Provisioning.** `ChecksStillHold` is not inductive by itself. It needs that a lock has one holder
(`LocksExclusive`), that nobody else knows the uuid of an uncommitted server
(`CreationsPrivate`), and that the row an update has locked stays on its node
(`LockedRowStays`). Then a commit of another request can only change what is booked on other nodes
(`FitsStable`, `BookedMonotone`) or what other owners hold, and administrators
wait. Capacity is proved with a sum that is the cardinality of a set of units
(`Units`), because a recursive sum is out of the provers' reach. The action properties and the refinement follow from the
invariant and one step; `SameChecks` relates the checks of the two modules. `NoLockCycle` needs no invariant: who holds a
server's row waits at most for a node's, who holds a node's at most for an owner's, and who holds an owner's for nothing, so a
chain of waiting requests has at most three links. With `RequestsOnlyMoveOn` (each step raises `Distance`) it is the part of
`RequestsFinish` that does not speak of fairness.

**ConsoleHub.** The core is who owns a connection: its dialler until it is installed
(`DialledPrivate`), then the session and its pump (`SessionPumped`, `LiveIsSession`), and
never a pump and a redial at once (`PumpOrRedial`). `NoSilentTab` also needs that a redial
that dials has an attempt left (`TriesLeft`) and that the room is the set of tabs that are not away. From the same
invariant `SessionsFollowEachOther` says when a session may end at all: it broke, or the last tab left.

**ServerPower.** The column takes whatever `InspectState` answers, or `suspended`. Both columns change together or, in `PollPersist`, under a guard; the type
invariant is all that is needed beside it.

**Ports.** A calm server has at most one request (`OneAtATime`), which finds it alive
(`WorkedIsLive`). While that request is between booking and publishing, the server publishes all
its ports but the row the request has booked, found by its id (`LacksPending`), and what it has
read for the rebuild lacks nothing (`SeenIsEnough`). `published` keeps what a lost
container had, and the invariant (`BookedWasPublished`) speaks of it too, since a later rebuild may bring it back. So a release by id removes just what is missing.
That a release hits no other server (`UndoesItsOwn`) is false, see section 6; `CalmReleasesTakeTheirOwn` proves it under the
hypothesis `Calm = Servers`, from unique ids (`IdsDiffer`) and from `PendingIsOwn`: the row a request knows by its id is its
server's. Beside a wild server it fails for calm ones too: the wild request may free the row the calm one has booked from
the pool in between, and so a third server can get it.

**ContainerRebuild.** Each theorem has its invariant. For `RebuildLeavesOne` it is `LeftInv`: `Place` says for each step of a
rebuild which of the two names is taken (the first before the rename and after the creation, the second in between), and,
where that is not so, which earlier mishap is the cause (`Lost`: a restore failed or a rebuild was cut off; `Littered`: that or
a remove failed; `Unswept`: the sweep failed on top of it); `OneLeft` says it of what is at rest. Mishaps only accumulate,
so a cause that was named stays one. For `NeverTwoUp` it is `UpInv`: `Halted` says that
beside a container of the first name the one of the second is never up, that `wasRunning`
is still true when the container is renamed, and that a container has been halted before its successor is created. It is
inductive as long as no inspection and no sweep has failed (`Noticed`).
`RebuildIsOneStep` maps the pair of names to one container (`Owners`): at rest and up to the rename it is the one of the first
name, then the halted one as it was, and after the creation the new one, up if the old one was up. Every Docker call is a
stutter, a replacement or a failed replacement of `Container`. The proof needs `WayInv`: a rebuild under way is the only one,
and has a container where `Owners` looks for it, in the state `wasRunning` says (`OnItsWay`), as long as no inspection has failed.

**Backups.** Two invariants: `Inv` for all servers (a lock has one holder; a backup, its file and
the requests about it belong to one server; a backup has one maker and is not successful before
that one is done; the archive of a successful one is whole or gone) and `CalmInv` on top of it for the
calm ones (the panel waits, a removed server has no files, nobody makes what is being deleted). Nothing is assumed about
forced deletions and ignored errors: where they leave an archive, its server or the archive itself is in `litter`.
`NothingUnfinished` is inductive on top of both; with `Calm = Servers` it gives `LeftCompletes` (`WaitedForCompletes`), so the
disagreement of section 6 needs a request that is cut off.

**PanelSession.** `SessionInv` adds that, unless `mixed`, the stored tokens are those of the user who is shown or gone
(`StoreIsShown`), and that at the login form no page waits for a request (`NobodyWaits`). A refresh that stores
another user's tokens under a page sets `mixed` in the same step.

**PanelPages.** `ButtonsComeBack` and `OneAtATime` go by pairs: a row in `busy[f]` has a run, a run has its row
in `busy[f]` (`FlagsUp`). `ShowsWhatItDid` needs `NothingMissing`: what is behind is made good by a handler that still
has to finish (`HasHit`) or by an answer that is still to come (`Coming`). Taking one answer from a sequence
keeps the others (`WithoutValue`), and a finished handler leaves the hits of the others (`OtherHitsStay`). For the panel's
tables the values of `Api` are computed once (`ApiValue`), and each of the 35 tables has a lemma (`…Holds`) with the two halves
of its proof: every flag disables its control (`GuardedTable`), and every handler that stays makes up for what its calls change
(`RefetchingTable`), but in the two lists of `Forgotten`.

**Only model-checked.** Liveness (`RequestsFinish`, `SilenceEnds`, `StatusCatchesUp`, `CallsSettle`, `SocketRecovers`), because
TLAPS cannot reason about fairness and ENABLED. Every invariant, action property and refinement a passing run checks has a
theorem. No definition is recursive, so nothing depends on induction over data.

## 6. Disagreements found

* `SuspendBlocksStart`: a scheduled start does not look at `is_suspended`
  (`scheduler.go:215`), although `website/public/api.html:226` says suspension blocks starting.
* `UndoesItsOwn`: `releaseAllocation` goes by the row's id after a rebuild of up to two minutes
  (`server_allocation_handler.go:450`). If the server was deleted meanwhile and the pool's row
  given to another server, that one loses its port.
* `LeftCompletes`: a backup whose user leaves the page is completed by the daemon and stays
  failed in the panel (`server_backup_handler.go:178`), although the guide
  (`frontend/src/i18n/locales/en.ts:391`) says "leave it and it'll complete".

The models show further behaviour that no document excludes, listed under the hazards: two
overlapping updates that rebuild in the other order, two overlapping adds that exceed
`allocation_limit`, two schedules that exceed `backup_limit`, and two overlapping rebuilds of which one sweeps away what the
other has set aside (with an `overlap` that lets rebuilds meet), a running server that is replaced by a stopped one because
Docker did not answer one inspection (`manager.go:135`), ports that stay booked for a server that a failed rebuild has left without
a container, and archives that outlive a server deleted by force (`server_handler.go:661`). In the web panel: a refresh that outlasts a logout
stores its tokens and logs the browser in again; a wrong 2FA code is answered with 401 and so ends in the login form; a bulk suspension is not shown
on the dashboard (`ServerList.tsx:137`); and whatever a failed reload leaves on a page stays until the next one.

## 7. What is not modelled, and the plan

Left out for good: wording, layout and bytes (logs, console output, archives' contents), mail, encryption, activity log,
routing, egg variable rules (pure validation with a unit test), the mobile client, the website and the
installer. They keep no state that another component depends on, or do one statement at a time.

Of the web panel: texts, types, layout and the fields of forms; which directory, node, date or search a
list was fetched for, and so an answer for one that was left (`FileManager.tsx:55`, `Nodes.tsx:188`); what a call sends when it is
computed from the rows on the page (`SubuserManager.tsx:56`, `Users.tsx:61`); modification times of files and keys
(`ServerView.tsx:294`); lists that hide while they are fetched count as shown; the layout editor, which can save an empty
layout over one it failed to load (`Overlay.tsx:52`); two sockets that only show events; the requests of
widgets without a session. Two parts of one page do not share state but the session, and are open one at a time in the model.

Smaller hazards that no property covers and that the list in `PROJECT.json` leaves out: input typed
while no console session is installed is dropped (`hub.go:110`); a tab that stops reading may hold the hub's
read lock (`hub.go:181`); a creation with a negative amount of memory lowers a node's sum
(`server_handler.go:120`); an add may exceed `allocation_limit` when two overlap
(`server_allocation_handler.go:199`); a schedule's `only_when_online` trusts a column nobody refreshes without a
tab (`scheduler.go:182`); `RemoveContainer` knows the main name only (`manager.go:233`), and the sweep of
one rebuild may remove what another has set aside (`manager.go:139`); two restores may mix (`backup.go:172`), and a download does
not ask whether the backup succeeded (`server_backup_handler.go:296`); things made at MySQL, Twitch or nginx
before or after the row that records them (`server_database_handler.go:174`, `song_request_handler.go:164`,
`twitch_handler.go:307`, `server_domain_handler.go:162`); two refreshes of one Spotify token
(`spotify_handler.go:181`); the console writer two daemon connections share (`console/hub.go:119`);
a pump and a redial that write to one tab at a time (`hub.go:190`); two layouts saved at a time (`overlay_handler.go:168`), two
notices that a stream is online (`analytics_handler.go:309`); a second plugin host (`node_handler.go:80`); two ticks that claim one schedule
(`scheduler.go:155`); a 2FA secret replaced while its predecessor is verified (`twofa_handler.go:127`); domains retried
with another port or after their deletion (`domainretry.go:39`, `:79`); a rate limit's key that never expires (`ratelimit.go:26`);
two overlapping changes of one server's ports (`server_allocation_handler.go:403`).

Planned, in this order; each with its MC module, a run, properties and, where it says so, theorems:

1. `NodeRegistry` — plugin host flag and tokens; exclusivity against overlapping Create and Update.
2. `Accounts` — admins, token versions, refresh, password change, 2FA; a revoked session stays revoked (theorem); the last admin.
3. `Scheduler` — ticks, the atomic claim, tasks with offsets; one run per minute (theorem).
4. `Domains` — rows, nginx sites and the retry loop; sites and rows agree once nothing is pending.
5. `DaemonConsole` — the shared writer; composed with `ConsoleHub` into the path from a tab to the container.
6. `FileWrite`, `Overlay`, `Databases` — small protocols of two writers or two systems.
7. `SongRequests`, `StreamSessions` — repeated and reordered deliveries.
8. `SemVer` — the order of versions against a reference definition over bounded inputs.
9. `RateLimit` — the window that may never end.
10. `ServerLife` — composition of `Provisioning`, `Ports` and `Backups` around the deletion of a server; the lock cycle of three.
11. Proofs: invariants of the modules above.
