# Formal models of the GRE manager hub

This directory holds TLA+ models of the GRE manager (the hub under `src/hub/server`
and the shell manager `src/gre-manager.sh` on the servers), the TLC configurations
that check them on small instances, and TLAPS proofs of theorems about them. Every
definition is a translation of the source; `PROJECT.json` says which lines each one
stands for. Operators introduced by a comment "Mutant of X" are deliberately broken
variants of X: replacing X by one of them must make the named property fail, which
shows that the property can tell right code from wrong. No specification uses them.

## 1. The system

The hub is one Node.js process: an HTTP API, an SQLite database, and SSH sessions to
IRAN and FOREIGN servers on which `gre-manager.sh` creates GRE peers and nodes,
forwards ports and keeps a watchdog. A *route* publishes a port of an IRAN server,
carries it over a GRE tunnel to a FOREIGN server and ends in an inbound of a 3x-ui
panel there. JavaScript code runs without interruption between two awaits, so the
interleavings that matter are those of handlers, background runs, timers and remote
answers at the awaits.

| Component | State it keeps | Operations | What makes it correct |
|---|---|---|---|
| Discovery queue (`discovery-queue.js`) | `pending`, `inFlight`, `active`, counters | `run`, `#pump`, settle, `.finally`, `has`, `snapshot` | at most `concurrency` sessions, one job per key, no lost wake-up, FIFO, every caller answered |
| Server probing (`routes.js`, `discovery.js`) | `servers`, `snapshots`, `server_probe_state` | discover, rediscover, health, refresh after an action, delete, carry-over at start; classification of a reply | the stored topology never goes back and was read as it is, health and discovery verdicts do not mix |
| Servers page (`app.js`, `discovery-response.js`, `server-topology.js`) | the list, the row of the open drawer, the refresh flag | load, discover from card or drawer, apply a reply, timer, sign in and out | card and drawer agree, the page catches up with the database |
| Route runs (`route-orchestrator.js`, `route-live-preflight.js`) | `gre_routes`, the map `running`, remote peers, nodes, inbounds, clients | preflight, port verification, pairing, node, peer, inbound, client, validation, activation, rollback, timeout | a run owns its port, a rollback removes all that was made, a reservation ends |
| Route requests (`route-orchestrator.js`, `routes.js`, `index.js`) | the same rows | create, PATCH, retry, reconcile, delete, startup sweep | the status says what exists, registry and status agree, a delete removes only its own |
| Port registry (`port_allocations`, `db.js`) | one row per route, two partial unique indexes | reserve, move, release, activate | no port held twice, the registry mirrors the row |
| Clients of routes (`route-orchestrator.js`, `route-credential-fastpath.js`, `xui.js`) | clients of a panel with credential and attachments, ownership flags, the captured credential | create, attach, undo, edit, delete with the look at other uses, link | nobody else loses a client, the link has a credential of its own run |
| Event log and long poll (`route-orchestrator.js`, `routes.js`) | `route_events`, waiters, attempts | append, read after an id, wait, sweep | no event missed, no wake-up lost |
| Provisioning timelines (`app.js`, `connections-ui.js`) | the dialog, the chains of requests behind it, a generation | open, poll, finish, refresh, share link, close | a stopped chain does nothing, a finished timeline is complete, polling ends |
| Panels and the client picker (`routes.js`, `xui.js`, `app.js`) | `client_model` of a panel, the offered list, its cache and request number | probe, add, delete; first page, search, pick, submit | the stored model is one the panel has had, no older answer replaces a newer one |
| Connection MTU (`connection-mtu.js`) | `edit_operations`, lock, MTU and backup on both servers | diagnose, plan, apply, restore, roll back, summary | the value fits what was measured, the summary is what the tunnels have |
| Connection health and repairs (`connection-health.js`) | the same journal and lock | check, merge, plan a repair, apply, check again | healthy means two clean ends |
| Server actions and connectivity (`app.js`, `routes.js`, `connectivity.js`) | the form, its suggestions, `connectivity_checks` | open, suggest, submit, two pings, run | nothing is built but between registered servers that reach each other, no value of another server |
| Web terminal (`app.js`, `routes.js`, `index.js`, `ssh.js`) | `termState`, tickets, sockets, shells | connect, ticket, socket, type, destroy | what is typed reaches the server that is shown |
| Sessions, lockout, 2FA (`auth.js`, `totp.js`, `routes.js`, `app.js`) | sessions, counters, secrets, recovery codes | set up, sign in, change the password, enrol, confirm, disable | nobody is locked out by an enrolment, expiry, single use of codes |
| Key provisioning (`provision.js`, `routes.js`, `ssh.js`) | `auth_type`, `secret_enc`, `password_enc`, `key_installed`, `password_verified_at` of a server; remote `authorized_keys` | create, reinstall, remove the key, offer and drop a fallback, type a secret | one verified access method always remains, a verified mark is earned, key and password are never confused |
| Connection edits and migrations (`connections.js`, `connection-planner.js`) | the connection's `gre_routes` row, the peer and the node of that name on two servers, in-memory locks, `edit_operations` | plan, apply, migrate, roll back | one operation per connection and server, a move never leaves the connection without a path, what is committed is in place, what is rolled back is restored |
| Connection edit dialogs (`connections-ui.js`) | the form and what it was filled from | open, type, review, apply | a field nobody touched is not changed |
| Shell manager (`gre-manager.sh`) | peer and node files, GRE interfaces, iptables rules, watchdog state | peer/node add, edit, remove, apply, suggest, watchdog, boot, MTU, check, repair, update | no collision of names, subnets and ports; an edit is all or nothing; rules are those of the files; every interface comes back |
| SSH transport and quoting, crypto, schema, version, installer | - | transport, quoting, files | (outcomes only) |

**Interaction.** Handlers call the queue and await its promise; the queue runs the
probe, whose tail writes the database. `POST /gre-routes` and retry start a run that
nobody awaits; the run, the handlers of PATCH, retry, reconcile and DELETE, and the
15 minute timer share the row of a route, its allocation and the map `running`. Runs
of different routes meet in the registry, in the names the CLI suggests and on the
panel. MTU changes, checks and repairs share the lock table and the journal with the
edits of connections. The page knows the hub through replies only, which come late, in
another order, or not at all, and every callback of the page writes into whatever dialog
or drawer is open by then. A restart drops all memory and keeps the database and the
servers.

**What is hard here.** A request works on the row it read before its first await; the
timer declares a run failed while the run goes on; a lost reply is a mutation nobody
remembers; a peer name is used again after a rollback; the promise of a job is
resolved before its key leaves the map; migrations run on every start; on the servers
systemd starts the watchdog in the middle of a command, and a command can fail, or be
cut off, between the file, the interface and the rules it changes; two servers that are
changed together can end up different, and a journal has to tell so; on the page several
chains of requests share one dialog, one drawer and one terminal. The complete
list, each with its line, is under "hazards" in `PROJECT.json`.

## 2. Modules

| Module | Stands for |
|---|---|
| `ProbeSlots` | abstract specification of the queue: keys enter, hold a session, leave |
| `DiscoveryQueue` | `discovery-queue.js`, with the refinement of `ProbeSlots` (`ImplementsSlots`) |
| `ProbeOutcome` | `discovery.js`: what a reply of a probe is taken for (operators only) |
| `DiscoveryService` | EXTENDS both: the handlers that probe servers, their rows, deletion, restart |
| `ServersPage` | EXTENDS the service: the page that lists the servers |
| `PortLedger` | abstract specification of the port registry: routes take free ports and give them back |
| `RouteRuns` | a provisioning run step by step, the registry, the timeout, the rollback |
| `RouteLifecycle` | EXTENDS the runs: the requests on routes and a restart of the hub, with the refinement of `PortLedger` (`ImplementsLedger`) |
| `PanelClients` | the clients of one panel, and what routes do with them |
| `EventLog` | stages of routes, readers that wait for them, attempts and their end |
| `Timelines` | EXTENDS the log: the dialogs of a page that show the stages |
| `ConnectionEdit` | plan, apply, migrate and rollback of connections, with the tables of the CLI on the servers |
| `EditWizard` | the dialogs for it on several pages |
| `MtuAdvice`, `HealthReport` | the diagnosis of an MTU, the report of two ends (operators only) |
| `ConnectionCare` | EXTENDS both: MTU changes, restores, checks and repairs of one connection |
| `KeyProvisioning` | the requests that change the credentials of servers, with the hub's keys on their hosts |
| `WebTerminal` | the terminal of the drawer, with tickets, sockets and shells |
| `ServerActions` | EXTENDS the terminal (they share the drawer): the action forms, the connectivity checks, the action |
| `Access` | signing in, sessions, password, second factor |
| `PanelProbe` | what the hub stores of a panel's kind |
| `ClientPicker` | EXTENDS the probe: the choice of a client when a route is created |
| `HostManager` | `gre-manager.sh` on one server: commands, edit transaction, watchdog, boot, with files, interfaces and rules |
| `DiscoveryServiceProofs` (queue, service and page), `RouteLifecycleProofs`, `PanelClientsProofs`, `ConnectionEditProofs`, `ConnectionCareProofs`, `KeyProvisioningProofs`, `ConsoleProofs`, `HostManagerProofs` | theorems |
| `MCDiscoveryQueue`, `MCDiscoveryService`, `MCRouteLifecycle`, `MCPanelClients`, `MCConnectionEdit`, `MCConnectionCare`, `MCKeyProvisioning`, `MCConsole`, `MCHostManager` | instances for TLC |

### DiscoveryQueue

A *job* is one push on `pending`, that is one promise. `phase` follows it from
`queued` through `running` (shifted by `#pump`) and `settled` (its task's promise
settled, the continuations are scheduled) to `done` (`.finally` has run). `Run` is
`Join` or `Enqueue`; `Enqueue` and `Finalize` contain the pump they call. `waiting[c]`
is the promise a caller awaits. Job ids are handed out in order, hence "first in,
first out" is an order on ids. `settled` is a state of its own because a caller that
is answered may call `run()` again before `.finally` has removed the key: it joins the
finished job.

### DiscoveryService

Keys are server ids. The topology of a server is a version number (`truth`) that an
action increments; a full discovery reads it at the moment its command runs
(`ReadServer`), some time before its tail writes the row (`ProbeEnds`) with the outcome
that `ProbeOutcome` gives the reply: the script of a probe may stop before its first marker, in the
middle or never, the manager may be missing, and its `status --json` may fail, time out
or print no object while the script ends well. An object of a schema that `extractRoles`
does not know gives no roles and counts as a success in the code (`discovery.js:117`);
`HostAssumption` leaves such a manager out: what the status says is what the server is. The
texts of the errors are dropped, their classes kept. `Drained` in the
guards says that requests, timers and SSH replies are macrotasks. `WriteProbeColumn`
is the INSERT ... ON CONFLICT DO NOTHING followed by the UPDATE of its kind;
`CarryOver` is what `openDb` does on every start.

### ServersPage

`listed` is the list of `state.servers` and `drawer` the object behind the open drawer, which is the
list's own object while its server is listed and may be another afterwards. `asked[c]` is
a request of the page and its reply on the way. `HubAnswers` is the continuation of the
handler that awaited the queue, `DiscoverReturns` the page's `applyDiscoverResult`,
`LoadReturns` the replacement of the list, `RefreshAllServers` the tick of the timer with
its flag. A reply may be lost, a session may end at any time (`SignOut`, a 401), and the
page signs in again. `Card` and `Overview` are what the two renderings say, reduced to
the facts they state. The page also asks for probes of its own (health of all servers,
rediscovery every six minutes) without waiting for them.

### RouteRuns and RouteLifecycle

`route` and `alloc` are the rows of `gre_routes` and `port_allocations`. `runs[u]` are
the local variables of run `u`: the port and name it read, `made` (the `*Created`
flags), `undone`, `dirty` (rollback PARTIAL) and `late` (the race was lost to the
timer). `lost` is not in the code: it records the parts whose creation took effect
without an acknowledgement, so that properties can speak about them. Each action ends
at an await: `Preflight`, `KeepPort`/`MovePort` (verifyPort), `Reach`, `Pair`,
`AddNode`, `AddPeer`, `AddInbound`, `AddClient`, `Validate`, `Activate`; `Throw` enters
the catch block from any of them, `Rollback` removes one part, `Fail` writes FAILED.
`Abort` and `TimeOut` are the catch of `startProvisioning`. A remote mutation answers
`ok`, `refused` (nothing happened) or `lost` (it happened, nobody knows).

`ops[h]` is a request: its kind, the step it awaits, and the columns of the row *as
read at its start*. Retry is a reconcile followed by `RetryReserve`. `Restart`
empties memory; `sweepAbandoned` marks an arbitrary subset of the RESERVED rows STALE,
because it picks rows by age, and time is not in the model.

The QR code is drawn after the transaction that sets ACTIVE (`route-orchestrator.js:883`);
that it cannot be drawn, and the run enters its catch block with an ACTIVE row, is not a
step of the model. The two UPDATEs of a PATCH (`:1256`, `:1260`) are one step: there is no
await between them, and a stop of the hub just there is left out.

Abstractions: all routes are on one pair of servers and one panel in
`external_proxy` mode, so managed hosts do not occur. A name stands for its subnet,
which is derived from it. Ports, names and inbound ids are small sets. An inbound's id
is the run that made it (the panel never reuses ids). Of an edit the change of the
port is kept. Ownership of the panel client is one flag. `Conflict` is
`registryConflict`, and the two partial unique indexes, for one pair of servers.

### PanelClients

A client is an e-mail address with a credential (a number that grows with every new one)
and the inbounds it is attached to; `row[r]` the columns of a route that concern it,
`task[r]` what its request or run has learned, `cache` the captured credentials.
`PanelHand` is everything people do on the panel. A run asks (`PreflightAsks`), judges the
answer later, adds the inbound, creates or attaches the client and activates, or undoes
both. The credential of the link is the one the run has given to the client it created
(`CreatedByRun`), whatever has become of it on the panel since, or the captured one, or
what the inbound says. Retry, edit and delete ask first and act on what they were told; an
edit may name another client (`EditAsks`), and until it writes the row it is about that one
(`Email`). `serial` is chosen at the start: requests on the
panel overlap, or they do not. `floor` is not in the code: the oldest credential that a
request, or one it overlapped, can have met.

### EventLog and Timelines

`log[r]` are the events of a route, `attempt[r]` its run, `running` the map of promises,
`executing` the attempts that still go on, also after their 15 minutes. `event()` appends
and wakes all waiters in one turn of the event loop, so it is part of every action that
logs. A waiter is a client with the last id it has. `Restart` drops runs and waiters;
`sweepAbandoned` takes rows by age and so any subset.

A task of `Timelines` is one chain of requests and callbacks of the page: the one that
follows a run (`tick`), the timeline of a row with its refresh, the timeline of a
connection, a dialog that is filled by a late answer. The page has one dialog, whose
elements are looked up by id when a callback runs, so the state is one dialog and many
tasks. The hub's answering (`Answer`) and the page's receiving it (`Callback`) are
separate steps.

### ConnectionEdit

`rows` are the columns of `gre_routes` that `loadConnection` reads; `peers` and
`nodes` are what `gre iran peer` and `gre node` keep on each server, by name. A CLI
command checks and changes its server as one transaction, so a server is the table of
its configurations and the refusals of the CLI are `CanEditPeer`, `CanEditNode`,
`CanAddNode` and `CanAddPeer`. `ops[o]` are the local variables of request `o` with its
row of `edit_operations`: `row` is the connection it loaded, `cur` the state it planned
from, `want` what it is to become; `sound` is not in the code and records that the
connection worked when the operation took its locks. `locks` is the map of
`connections.js`: server and connection ids are keys of one map.

A request (`PlanEdit`, `PutEdit`, `PutBack`) plans at once when the tunnel parameters
are recorded and asks the IRAN server first when they are not (`ReadPeer`, `Learn`: the
answer is written to the row as it is by then, and the request is planned again from it: one
that was sent as an edit and has become a move, because another operation has moved the
connection meanwhile, is run as an edit of the servers it was read with, as `apply()` asks
`can_apply` of other classes only, `connections.js:492`). `Begin` takes all locks or none.
Class A is `EditPeer`, class B `EditNode`, `EditPeer`, class C the steps from
`CheckTargets` to `RemoveOldAndCommit`; both ends of a class A or B edit are read back in
`FinishEdit`. A `Command` has four outcomes: done, done with the reply lost, refused,
failed and put back. A failed edit ends at once, because its rollback throws; a failed
move goes through `Undo`, `CleanUp`, `Recheck`. `Restart` empties memory and leaves
`RUNNING` rows in the journal: nothing resumes them.

Abstractions: params stand for subnet base, index and GRE key, ports for both port lists
and the MSS clamp, and an address for the server that has it. The drift check against a
plan the client holds, the guard against a connection that route provisioning is
building, and requests for servers or host keys the hub does not know are left out: each
only refuses. Port lists of the small instances do not overlap.

### EditWizard

`connection` are the fields of a connection; a page holds the list it loaded once and, in
its wizard, what the form was filled with and what was typed. `Body` is the request: the
fields that differ from what was filled in. The plan and the PUT are made against the
connection as it is then.

### MtuAdvice, HealthReport and ConnectionCare

The operators of `MtuAdvice` are the pure part of `connection-mtu.js`: the view of one
side, the lower capacity of both, the recommendation, the refusals of a plan and the two
verifications. `HealthReport` merges two reports. Both are part of what `ConnectionCare`
checks, for every combination of answers.

`live` is the MTU of the tunnel on each side, `backup` what `gre mtu restore` would write,
`broken` what else is wrong on a side, `ops` the rows of the journal with the local
variables of the request that wrote them, `lock` the holder of the connection's lock. An MTU change
goes `ReadBothEndpoints`, `SendChange` (IRAN first, then FOREIGN), `VerifyInterfaces`,
`SetExplicitly` (of a restore), `VerifyConnectivity`, and back by `UndoChange`,
`UndoExplicitly`, `VerifyUndone`. A check is one step, because nothing is changed; a
repair is planned without the lock (`PlanRepair`), then `StartRepair`, `ApplyRepair`,
`VerifyRepair`. A command is done, done with its reply lost, refused, or failed and put
back; `Break` is the world: something goes wrong on a server at any time. A restart ends
every request and leaves its row RUNNING. The summary of the list of connections
(`MtuSummary`) is the latest success among the latest `Window` rows of changes and restores,
the refused ones included; the code takes 20 (`connection-mtu.js:545`) and shows no value
when there is no success among them, although the tunnels have one.

Abstractions: one connection; sizes are small numbers; probes measure exactly the path of
their side or nothing. `CliProbes` says whether probes are sent at all: the command the
hub sends today asks for none (`AnsweringIsMeasured`, section 3), and with `CliProbes` FALSE
every change is refused, so the runs take it TRUE. The probe measured is the inner one,
which is all the script knows (`gre-manager.sh:6027`): it reports neither an `outer_probe`,
which `connection-mtu.js:238` prefers, nor the state PASS. It also exits non-zero when one of
its checks is FAIL (`:6258`), and the hub then has no answer of that side, which is one of
the outcomes of `Diagnose`. A health check answers with a verdict and its findings; a JSON
object without either, which the script never prints, would be merged as UNKNOWN without
findings and so as HEALTHY (`connection-health.js:189`, `:401`).

### WebTerminal and ServerActions

A call of `connectTerminal` has a number, and so have its ticket, socket and shell; the
record `termState` keeps the one terminal that is shown and the one socket. `drawer` is
the server the drawer is open on. `ServerActions` shares it: `form` is the action form with
where each of its values came from (nobody, the operator, or a server), `loads` the
suggestion requests under way with the form they were asked for, `runs` the actions at the
hub. An action that builds an end of a tunnel is `ReceiveAction`, `PingThere`, `PingBack`
with the write of the pair (refused when one of the servers is gone) and `RunAction`. The drawer of `ServersPage`
is another view of the same element and is modelled there without these tabs.

### Access

One operator, several pages in several browsers; the pages of one browser share a cookie.
Passwords, secrets and sessions are numbered as they are made; `owner` is what the
operator has kept: the secrets in the authenticator and the recovery codes. A handler is
one step, because it does not give way to another; its reply may be lost. The settings
that `Enable2fa` writes are separate statements, and the hub may stop between them. TOTP
is what a code proves; the time step and the reuse of a code within it are left out.

### PanelProbe and ClientPicker

`served[p]` is what panel `p` is now and `had[p]` what it has been; a probe asks two
questions at once, each answered, refused or lost, and writes its row when it likes, maybe
long after. The picker is one dialog: the panel chosen, the text, the searches under way
with their numbers, the cache by panel and text, what is offered and what was picked.

### KeyProvisioning

`rows` are the columns of `servers` that hold credentials. A host accepts one password
and the hub's lines of `authorized_keys`; several servers of the hub may be users or
ports of one host and share the file. `Within` says whose comments contain whose,
because `grep -vF` of `gre-hub-1` also drops the line of `gre-hub-10`. A key is the
number of the request that made it, key 0 one from before.

`ops[o]` are the local variables of a request: `row` is the server as it was read at the
start. A command is sent when `pc` is set, takes effect in `Serve`, and its answer is
acted on by the hub later; other requests, an operator at the host (`ChangePassword`)
and a restart come between. A `Session` works, or fails, or works and its reply is lost.
`InstallLine` is stage B, where the purge may succeed and the append fail; stages A and D
are `TryPassword`, stage C `TryKey`. `PasswordProved` to `BackToPassword` are the writes
between two awaits, `GiveUp` every refusal.

`still` and `alone` are not in the code. `still` says that nobody has changed the
password of the host since the request began, without which no proof of a password is
worth anything; `alone` that the request has met no other on its host, nor a direct edit
of a row. Both appear in `AccessSurvives` only. A server with a working fallback needs no
`alone`: its access survives every overlap. A server without one does not: a
provisioning, or a removal, of a server on the same host may drop its line, and a
`DELETE /fallback-password` during a removal of the key, followed by a restart, leaves
nothing. Also seen: a provisioning that began before the fallback was dropped stores it
again, although routes.js:657 says that provisioning never does.

Not modelled here: host key mismatches (each ends a request as a refusal does), two
`ssh-keygen` runs on the same file (their outcome is a key that does not verify), the
deletion of a server, and a change of its host, port or user.

### HostManager

`conf` are the files `foreigns/<name>.conf` of an IRAN server or `nodes/<name>.conf` of a
FOREIGN one, `tun` the interfaces `gre-<name>`, `rules` the iptables rules that carry a
comment of the manager. `cli` is the command being run and `pass` the run of the watchdog
or of `--apply` at boot. The value of `cli.pc` is the step that comes next, and every step
is one change of a file, an interface or a group of rules, so that a fault can come
between any two:

- `BeginAdd`, `BeginEdit`, `BeginRemove`, `BeginApply` are the checks of the CLI commands;
  `BeginEdit` is `edit_connection_txn` up to its first change, with the snapshot it takes.
- An IRAN edit goes `Unrule`, `CreateDone` (class B), `Rule`, `Verify`, `Commit`, a FOREIGN
  one `CreateDone`, `Verify`, `Commit`, `Accept`; after a rename `Unfile` and `Untun` take
  the old file and the old interface away. `edit_rollback` is `Down`, `Back`, `Rebuild`, and
  `Rerule` on an IRAN or `Reverify` on a FOREIGN server.
- `Stop` and `Drop` are a removal, and what an addition does when `create_tunnel` failed.
- `BeginWatch`, `Skip`, `NeedsApply`, `ApplyGone`, `ApplyTun`, `ApplyRules`, `EndPass` are
  the loop of the watchdog, which reads each file anew when it comes to it and holds what
  it read while it builds the interface; at boot the same loop takes every file.
- `Kill` ends a command between two steps, `Reboot` takes interfaces and rules away, keeps
  the files and starts `--apply`.

The script has no lock. That commands do not overlap each other is what the hub's lock on
the server gives (`MutationsExclude`, for the commands of connection edits); the jobs of
systemd overlap everything. `raced` and `torn` are not in the code: `raced` are the names
that a command and a job handled at once or that a killed command left half done, `torn`
the pairs of names of a rename cut short between its two files. `NoStaleRules` and
`UpForwards` exempt raced names, because there the code gives nothing: a watchdog that has
read the old file installs its rules after the edit took them out, and a connection
killed while its rules were out stays up without them, which a ping does not show.
`TunnelsComeBack` has no exemption: the watchdog repairs interfaces whatever happened.

Abstractions: `net` is subnet base and index, `link` the two endpoints and the key, and
`mss` the clamp, whose value follows from the MTU. iptables does not fail; `create_tunnel`
may fail at each of its `ip` commands. A far end that does not answer makes the watchdog
rebuild a sound interface. Of the FOREIGN whitelist the ACCEPT rules are kept. Not
modelled: the MTU commands and their journal, `connections.identity`, migration from
v1, import, purge, uninstall, `--stop`, the menus, the ICMP rules, and rules of releases
that wrote no comments.

## 3. What is checked

Passing runs:

| Run | Instance | Distinct states | What it shows |
|---|---|---|---|
| `queue` | 3 keys, 3 callers, 1 slot, 4 jobs | 178,185 | FIFO; the refinement, and with it the bound on sessions and one job per key; every call returns |
| `service` | 1 server, 2 callers, 2 slots, 3 jobs, 2 versions, 1 restart, 1 lost reply, 1 sign-out | 556,384 | stored topology never goes back; groups are what was read; card and drawer agree; the page catches up |
| `route_overlap` | 1 route, 2 ports, 2 runs, 2 handlers, timeouts, 1 restart, 1 fault | 1.38 M | the registry mirrors the row although edits, retries and late runs overlap; a CLEAN rollback left only what was never acknowledged |
| `route_serial` | 2 routes, 2 runs, all four requests, one at a time per route, failing probes and foreign ports, 1 fault | 863,458 | the rows are a ledger of ports, none with two routes; registry and status agree; an ACTIVE route is what its run built |
| `route_live` | 1 route, 2 runs, edit, retry, delete, timeouts, 1 fault | 114,825 | a reservation ends |
| `clients` | 2 routes, 2 clients, 3 runs, 2 actions of people, 1 fault; overlapping or not | 3.07 M | a link is not older than its run; a route takes away no client another ACTIVE route uses |
| `keys` | 2 servers on 1 host, nested comments, 2 passwords, 2 overlapping requests, 1 change of a password, 1 fault | 538,818 | a fallback shown as verified was accepted; a working way in survives every step of a request |
| `connection_edit` | 2 connections, 2 IRAN and 2 FOREIGN servers, 3 names, 3 requests out of 11 edits and moves, plans and put-backs, 1 fault | 358,583 | operations leave no lock; a move keeps a path at every step; what is committed is in place and what is rolled back is restored |
| `care` | 1 connection, paths of 4 and 3 units, 2 requests with 2 faults, or 3 MTU changes with 1; a summary of 2 rows; 2 codes | 1.00 M | the summary is what the tunnels have, and no value once the last success is out of its sight; a changed MTU fits what was measured; healthy is said of two clean ends only |
| `console` | one part in play at a time, see below | 531,809 | timelines, terminal, action forms, sign-in, panel probes, client picker, edit dialogs |
| `host` | 2 names, 2 subnets, 2 ports, 3 configurations, IRAN and FOREIGN, 3 events | 772,379 | files stay disjoint; edits are all or nothing; no stale rule, no connection up without rules; every interface comes back |

In `console` the parts share no state, so that checking one at a time loses nothing; the
choice is made in the initial state (`play`):

| Part | Bounds | Properties |
|---|---|---|
| timelines over the log | 2 routes, 2 attempts, 2 stages each, 2 clicks, 1 lost reply, 1 restart; split into retries of one route, timeouts with a restart, two routes, and a client of the API | `FinishedShowsAll`, `StaleIsNeutral`, `FollowEnds`, `NoLostWakeup` |
| terminal | 2 servers, 2 calls | `TypedWhereShown` |
| action forms and actions | 2 servers, 2 forms, 2 suggestion requests, 1 action with its pings, 1 outage | `SuggestedFromItsServer`, `BuiltOnAKnownPair` |
| access | 2 pages in one or two browsers, 2 sessions, 2 passwords, 2 secrets, 1 wrong guess | `SecondFactorHeld` |
| panel probes | 1 panel in play, 2 overlapping probes, 1 upgrade or downgrade | `StoredModelWasServed` |
| client picker | 2 panels of the two kinds, 2 terms, 3 requests | `OffersNewest` |
| edit dialogs | 2 pages, 2 fields, one that may be emptied, 2 edits | `UntouchedFieldsStay` |

`service` is split the same way: the service alone with three probes, or the page with two
probes, or with one probe and one kind of disturbance (actions, a deletion, the network, a
restart, a session).

`AllocationFollowsStatus` and `ActiveIsWhatWasBuilt` are checked under
`OneRequestPerRoute`: the operator waits for a request, or a run, to end before the
next one on the same route. They do not hold without it (a late run may activate a
route that was declared FAILED and edited since; two retries may both start a run);
the safety properties that hold under every overlap are `ImplementsLedger`, `PortMirror`
and `RollbackComplete`, which are proved without it. `ReservationEnds` is checked with edits, retries and deletes but without
reconcile: a reconcile that overlaps an activation writes RESERVED over ACTIVE, and
nothing ends that reservation but the sweep of the next start.

The properties of `connection_edit` are about operations that start from a working
connection, and those on moves leave out moves that also give a new name (`Plain`): such a
move commits a name that no server knows, and when the name has been taken meanwhile it
loses its old side and is reported as rolled back. In its instance a connection is named
as its peer; what a move does to one that is not is below.

`SummaryIsLive` is about the rows after the latest success: none of them may be cut
short, be of a failed rollback, or have been refused by IRAN (whose answer may have been
lost), and no repair may have set the MTU; each of these leaves a known gap. While that
success is among the latest `Window` rows, the summary is what the tunnels have; when more
rows without a success have followed, it must be no value.
`OthersKeepTheirClient` is about behaviours in which requests on one panel do not overlap
and excepts the deletion that could not read who else uses the client; `LinkNotOlder` is
about all. `FinishedShowsAll` excepts a chain whose last events were not read,
`StaleIsNeutral` one whose request for the share link fails, `FollowEnds` a row that a
restart has abandoned. `SuggestedFromItsServer` is about forms that build something.
`UntouchedFieldsStay` says nothing of two edits that overlap in a field.

One run finds a disagreement between the code and what the repository says of it (details
and quotations under "findings"):

| Run | Property | What happens |
|---|---|---|
| `connection_restore` | `FailedEditRestored` | an edit that fails after its first command restores nothing: the rollback names a variable that is out of scope |

**Refuted, without a run.** These definitions state what a comment or document says; no
run lists them, and adding one to the cfg of the module's run shows the counterexample:

| Definition | What happens |
|---|---|
| `DeleteRemovesOwn` (`RouteLifecycle`) | deleting a FAILED route removes the live peer of another route that was given its name (`route-orchestrator.js:1538`; `CHANGELOG.md:1165` "Delete removes only the resources the route owns") |
| `ReinstallUsesKey` (`KeyProvisioning`) | reinstalling the key of a key server always fails: stage B presents the private key as a password (`provision.js:157`; `hub/README.md:33`) |
| `NodesAccepted` (`HostManager`) | renaming or re-addressing a node leaves no ACCEPT rule for it: the command never reads GRE_WHITELIST (`gre-manager.sh:4493`; the comment at `:4488`) |
| `CommitInPlace` (`ConnectionEdit`, with `Start <- SamePeerStart`) | a move of a connection whose route has a name of its own (`route-orchestrator.js:716`) builds and verifies both sides under the peer name (`connections.js:800`) but commits the route's name as the peer's (`:971`): after SUCCEEDED the row names a peer and a node that no server has, although a connection "already holds both server ids, the peer name, the tunnel parameters and the port pair" (`CHANGELOG.md:163`) |
| `RepairSucceededMeansFixed` (`ConnectionCare`) | a repair is re-checked in quick mode (`connection-health.js:881`), which does not see what only the full check sees, although "Success is claimed only when the code is gone from every side" (`:786`); `gre repair apply` has no handler for such a code and fails, and the failure is not looked at |
| `AnsweringIsMeasured` (`ConnectionCare`, with `CliProbes = FALSE`) | the hub's `mtu_diagnose` (`actions.js:234`) asks for no probe, so the inner probe is UNKNOWN and every MTU change is REJECTED; the fake server of the tests (`_fake-gre-ssh.js:443`) answers PASS |
| `EditTakesItsClamp` (`HostManager`) | an edit that turns the clamp off leaves it in place: the deletion asks for a comment with a literal `*` and without `--set-mss` (`gre-manager.sh:1078`), which no clamp of this release has, although "removing every rule this connection owns is both sufficient and complete" (`:1076`); the iptables of the tests (`tests/stubs/iptables:36`) takes comments for patterns |
| `PreexistingKept` (`PanelClients`) | a client that existed before is deleted: the flag of its creation survives a CLEAN rollback (`route-orchestrator.js:814`), and a failed look at the other attachments counts as none (`:1483`), although a shared client is only to be detached (`:1476`, `:1415`) |

**Also seen** in the models, or by reading next to them:

- *Probing.* A discovery that joins a health probe is answered ok without a snapshot. A
  slower, older answer to `GET /servers` replaces a newer list. `/servers/health` asks for
  `has('health:id')`, a key the queue never has.
- *Routes.* An inspection that fails counts as "absent" when a route is deleted, so the row
  goes and the tunnel stays. A rollback deletes a client it created although another route
  has attached it since. Overlapping reads of one client share the captured credential. A
  FAILED route whose run recorded no name is reconciled to NEEDS_REVIEW.
- *Timelines.* When the last events request fails, the timeline ends without the last
  stages, although `app.js:2429` says "keep polling". A stale chain whose share link
  request fails finishes into the dialog of another route. Escape and a click beside the
  dialog close it without stopping its chain. A late answer of a MTU, health or timeline
  request replaces whatever dialog is open. The timeline of a connection shows the newest
  batch, not "Every stage of the last operation". A row abandoned by a quick restart is
  polled for ever. A 401 in a tick wipes what was typed into the sign-in form.
- *Connections.* A move to a server that has a node of the same name takes that node from
  its own connection. `openConnectionReview` reads `err.body`, which nothing sets.
- *MTU and health.* "Nothing was changed" is said although IRAN's reply was lost; after a
  lost reply of FOREIGN only IRAN is restored. `markInterrupted` (`connections.js:305`) has no
  caller, so a change cut short by a restart stays RUNNING and cannot be restored. A later
  REJECTED row hides the drift of a ROLLBACK_FAILED one. Edits and deletions of routes and
  `POST /servers/:id/action` do not take the lock. The MTU dialog applies the value typed
  although its plan is for the preset.
- *Terminal.* The ticket of an abandoned call opens an SSH session nobody closes
  (`termState.ws` is overwritten), and the status line may name another server.
- *Actions.* The live discovery that fills the select of a removal form fills the one of
  another server's form of the same kind (`app.js:1301`). A success closes whatever dialog
  is open (`:1382`). The first suggestions overwrite ports typed meanwhile.
- *Access.* After a second sign-in in the same browser the other page keeps a stale CSRF
  token. A late 401 shows the sign-in form over a new session. Enabling the second factor
  is not one transaction; disabling it leaves the pending secret.
- *Picker.* Picking a client starts a search for its label, which may find nothing and wipe
  the pick, although "A slow response must not wipe what the user already committed to"
  (`app.js:1843`). A late first page replaces newer search results, and one of another
  panel gets into the cache of the new one.
- *Panels.* The answer of an older probe overwrites that of a newer one.

**Bounds.** `MaxJobs`, `MaxRuns`, `MaxFaults`, `MaxRestarts`, `MaxVersion`, `MaxNames`,
`MaxLost` and the like cap counters in the guards. Four jobs on one slot are a running job,
two waiting ones and a re-request. Two runs are what a retry after a failure, a timed out
run next to its successor, and two routes competing need; two ports let a run move and an
edit collide; one name makes its reuse happen at once. One fault is one lost reply, failed
removal or timeout at any point of the behaviour; the refusals that have no effect are
not limited. Two versions are before and after an action. Three runs on a panel are two
routes that share a client and a retry of one; two actions of people remove a client and
make it again. The second client is one of the people's, which they leave alone; while a
route has to do with it, requests do not overlap and runs and actions of people are three
together: a client changed by an edit between two runs, with the other route on either. `MaxOps` bounds the requests on connections: three are an edit or move, one
that meets it on a shared server or name, and a third that puts back what the first
recorded; in `care` two are a change and its restore, a repair or a check, with a fault in
each, or a lost reply and a failure of the rollback it causes; a third is made when all are
about the MTU and one fault at most has happened, so that a success with two unsuccessful
changes after it leaves the `Window` of two. Four servers let two moves
exchange their FOREIGN servers or go to the same one. On keys, `MaxOps` 2 are two requests
that overlap at any of their moments or follow each other; `MaxChanges` is one `passwd` on
the host or one secret typed unproved; one host makes every two requests meet. On a host
`MaxEvents` counts commands, failed creations, kills and restarts together: three are a
command, a failure in it and a failure in its rollback; or a command that is killed, and
one after it; passes of the watchdog are not counted. The initial states are all sets of
connections that exclude each other, so one command meets every neighbour; the three
configurations differ in ports and clamp, in subnet, endpoints and clamp, and in subnet,
endpoints and ports; two of them clash in the subnet and two in a port. On the pages two
of everything are an old and a new one: two calls of the terminal, two forms, two pages,
two secrets; three requests of the picker are a first page, a search and one that
overtakes it.

**Deadlock** is not checked: with its bounds used up, or with no request made, the hub
rests.

**Fairness.** In the queue a running task settles (every SSH command of `ssh.js` has a
timeout), `.finally` runs and continuations run (the microtask queue is drained). In
`FairSpec` of the routes each run takes its next step: every remote call of a run is bounded
by the timeout of SSH or of the panel client, and `Throw` or `Abort` is always among the next
steps. On the servers page a probe ends, the hub answers, the page takes what arrives and
its timer ticks; it stays visible. In `Timelines` a request is answered or fails, a
callback and a timer run, and a run of the hub publishes or is given up by its 15 minutes.
Requests and clicks of the operator need no fairness: `ReservationEnds` and `FollowEnds`
hold whether or not anything else happens. On a server a command runs to its end
(`WF_vars(CliStep)`: no step waits for anything; `Kill` is the exception and disables the
rest of it), and the timer of systemd starts the watchdog again and again
(`WF_vars(PassStep)`).

## 4. What is proved

TLAPS proves, for every value of the constants allowed by the named assumptions:

| Theorem | Statement |
|---|---|
| `QueueSafe` | `QueueTypeOK`, `BoundedInFlight`, `OneJobPerKey`, `NoIdleSlot`, `StartsInOrder` are invariants of `QueueSpec` |
| `QueueImplementsSlots` | `QueueSpec` implements `ProbeSlots` |
| `SnapshotAlwaysNewer` | the stored topology never goes back (`SnapshotNeverOlder`) |
| `FailuresClearedByDiscovery` | a discovery failure is cleared by a discovery only |
| `PageKeepsService` | `PageSpec` implements `ServiceSpec` |
| `GroupsAlwaysWereRead` | a card stands in a group its server was read to have (`GroupsWereRead`) |
| `CardAndDrawerAlwaysAgree` | card and drawer never contradict each other (`CardAndDrawerAgree`) |
| `RouteTypes` | `RouteTypeOK` is an invariant of `Spec` |
| `PortsAreExclusive` | no two routes ever hold the same port |
| `PortsAreMirrored` | the registry's port is the row's port |
| `RoutesImplementLedger` | `Spec` implements `PortLedger` |
| `RollbackLeavesNothing` | a clean rollback left only what was never acknowledged (`RollbackComplete`) |
| `RegistryFollows` | registry and status agree (`AllocationFollowsStatus`), if `Serial` |
| `ActiveWasBuilt` | an ACTIVE route is what its run built (`ActiveIsWhatWasBuilt`), if `Serial` |
| `LinksAreNotOlder` | a share link carries no credential given up before its request began (`LinkNotOlder`) |
| `OthersAlwaysKeepTheirClient` | a request takes no other ACTIVE route's client away (`OthersKeepTheirClient`) |
| `EditTypes` | `EditTypeOK` is an invariant of `ConnectionEdit` |
| `LocksAreExact` | the lock table is exactly what the operations under way need |
| `MutationsExclude` | operations under way share no connection and no server |
| `RollbacksRestore` | a move reported as rolled back has its old pair in place (`CleanRollback`), if `NamesApart` |
| `CommitsInPlace` | what is committed is on both servers (`CommitInPlace`), if `NamesApart` and `PeerIsName` |
| `MovesKeepAPath` | a move has a working pair at every step (`MoveKeepsAPath`) while at most one fault has happened, if `NamesApart`, `StartApart` and `PlainMoves` |
| `OneAtWork` | one MTU change, restore, check or repair is at work at a time, with the lock and its row |
| `AlwaysFitsWhatWasMeasured` | a changed MTU rests on a measurement and fits it (`FitsWhatWasMeasured`) |
| `AlwaysHealthyMeansBothClean` | HEALTHY is said of two clean ends only |
| `SummaryAlwaysLive` | the MTU that is shown is what the tunnels have, and none is shown once the last success is out of the `Window` (`SummaryIsLive`) |
| `KeyTypes` | `KeyTypeOK` is an invariant of `KeyProvisioning` |
| `VerifiedAccepted` | a fallback marked as verified has been accepted by its host |
| `AccessAlwaysSurvives` | no step of a request takes away a working way in (`AccessSurvives`) |
| `TypedAlwaysWhereShown` | what is typed reaches the server that is shown (`TypedWhereShown`) |
| `AlwaysBuiltOnAKnownPair` | nothing is built but between servers that reach each other (`BuiltOnAKnownPair`) |
| `AlwaysSuggestedFromItsServer` | a suggested value goes to the server that suggested it |
| `SecondFactorAlwaysHeld` | the secret of an enabled second factor is in the authenticator |
| `StoredModelAlwaysWasServed` | a stored client model is one the panel has had |
| `NoWakeupIsLost` | who waits at the log has all its events (`NoLostWakeup`) |
| `FinishedAlwaysShowsAll` | a finished timeline shows all stages logged by then (`FinishedShowsAll`) |
| `StaleAlwaysNeutral` | a chain that was stopped changes nothing any more (`StaleIsNeutral`) |
| `AlwaysOffersNewest` | what is offered is a first page or found by the newest search (`OffersNewest`) |
| `UntouchedFieldsAlwaysStay` | an edit changes only fields that were typed into (`UntouchedFieldsStay`) |
| `HostTypes` | `HostTypeOK` is an invariant of `HostManager` |
| `FilesAreDisjoint` | no two files claim one subnet or port, but the two of a rename |
| `EditsAreAllOrNothing` | an edit that ended is all in the files or not at all |
| `FilesAreKept` | a file goes with its connection only |
| `RulesAreCurrent` | between commands every rule is one its file stands for (`NoStaleRules`) |
| `UpMeansForwarding` | an IRAN connection whose interface is up has all its rules (`UpForwards`) |

*Queue.* The invariants are not inductive alone. `QInv` adds `QueueShape`: jobs up to
`created` have a phase and later ones have none; `pending` is strictly increasing and
holds exactly the queued jobs. With it a pump after one `push` or one freed slot
starts at most one job (`PumpNone`, `PumpOne`), namely the oldest, which is what
`StartsInOrder`, the count in `BoundedInFlight` and the choice in `Leave` of the
refinement rest on. The concurrency is any number from 1 to 32, as `readConcurrency`
guarantees.

*Service and page.* `ServiceInv` is the queue's invariant with the types, `Progress` (what
a job has read is no newer than the server and, while the job runs, no older than the
stored snapshot) and `Unsettled` (a job has no outcome before it ends). That a snapshot
never goes back does not follow from the types: two jobs of one key would break it, so
one job per key of the queue is used, and the restart has to drop all jobs. The page is
laid over the service as a refinement: every step of page, timers and losses is a step of
the service or leaves it alone (`PageKeepsService`), hence all that is proved of the
service holds beneath it. `PageInv` adds `DrawerIsListed`: the drawer has the list's own
object as long as its server is listed, which every action that touches either must keep.

*Routes.* `RouteInv` is the type invariant with `Shape` (a live run
and a request in progress are about a route); one lemma
per action class shows the step keeps it (`RunStepTypes`, `RequestStartTypes`,
`RequestStepTypes`, `RestartTypes`). Given the types, `PortExclusive` and `PortMirror`
are inductive: an action either leaves ports and liveness of allocations alone, or
releases one (`StatusPorts`), or writes one fresh port to both tables after the check
against the registry (`PortWritten`), and nothing but an `await` separates two actions.
`RoutesImplementLedger` follows: a step writes the port and the allocation of at most one
route (`StepWritesOneRow`), so the port that this route has after it was nobody's before.
The argument covers restarts, timeouts and any number of overlapping requests, beyond
what the runs enumerate. What a rollback leaves is a question about the run that made it:
`TraceInv` follows the objects of each run (`Objects`), which carry its name only, are
among those it has acknowledged or lost while it builds, and of which none is left that a
rollback without a failure has undone. A step of anything else makes no object of the run
(`Spared`, `SparedTrace`), so nothing is asked of overlaps. The other two need `Serial`:
requests on one route do not overlap (`OneRequestPerRoute`) and no run outlives its timer
(`~Timeouts`); restarts, and requests on other routes, are allowed. `SerialInv` then says
that a live run has its route for itself, RESERVED in row and registry, with the port and
name it read (`Exclusive`); what the registry says in each status (`Kept`); that a request
has its route for itself and the status that it copied is the row's, so that a verdict
cannot make a route ACTIVE that never was (`Alone`); and that an ACTIVE row is what a run
ended with (`Built`). A step that leaves a route alone keeps what is known of it
(`Same`), and one lemma per step of a run, a request and the restart does the rest.

*Panel clients.* `CredentialInv` says that a request meets no credential older than its
floor: not on the panel (`MeetsNewer`), not in an answer it has seen and not yet captured
(`SawNewer`), and not in the cache once it has asked (`CachedNewer`; before that the cache
may hold anything, which is why the preflight drops it). Every step is one turn of the panel,
after which a client is gone, keeps its credential or has the one issued last (`Turns`), and
one change of a task (`StepKeeps`), in which a request either ends or keeps the client it is about; only a new
row and the beginning of an edit name one. That the floor of a new request is below all of these is
a lemma about the least element of a set (`MinIsLeast`, `FloorFits`). For the second theorem
`SerialInv` says of requests that do not overlap that at most one is under way, and that a
client which it has created or is about to delete (`Doomed`) is attached to its own inbound
and the people's only; so a deletion (`UndoClient`, `DeleteClient`) meets no other route's.
Of the constants only `Emails # {}` and that "own" is no route are used.

*Connections.* `EditInv` is `Tables` (rows and server tables), `Requests` (every request
is `Formed`: one under way is about a connection and its row, and one that moves knows all
parameters) and `LocksExact`. Exclusion is not inductive without exactness: that an
operation finds its keys free says nothing about other operations unless every live one
holds all of its own. `GoesKeeps` shows it for a step of an operation that goes on with
its keys or ends, `AcquireKeeps` for one that takes them, and `OneMutationPerServer`
follows because a lock has one owner. `BeginKeeps` shows that what is wanted of a
connection has all parameters unless only its ports change. The constants need no bound:
the theorems hold for any numbers of connections, servers and requests, and any faults.

The promises of commits and rollbacks need to know what other operations cannot do to the
tables. `GroundInv` says of an operation that started from a working connection that its
row still names what it works on (`Grounded`): only the holder of the locks writes it, and
the answer of `ReadPeer` is written to rows without parameters only (`Asking`). `MoveInv`
says for every step of a move which of its two pairs is in place (`Moving`): the side that
is not pointed elsewhere stays as it was until the new pair is proved. A command on other
servers changes neither (`TouchesItsOwn`, from the locks), and one on the same servers is
its own. From this, `RollbacksRestore` asks of the constants only that names of connections
differ at first (`NamesApart`; `gre_routes.name` is UNIQUE), and `CommitsInPlace` also that
connections are named as their peers (`PeerIsName`), without which it is false (section 3). For `MovesKeepAPath` the old pair must be accepted when it is pointed
back. `PathInv` adds that no two peers or nodes of a server share a tunnel or ports
(`Apart`, kept by what the CLI refuses, with `StartApart` at first) and that nothing of
another name has what the old pair had (`NoClash`); and that a rollback finds the old pair
whole, or the new one if the fault came after the cutover (`OnePath`). With a second fault
neither need be, so the theorem is about behaviours with at most one. `PlainMoves` leaves
out requests that name both another server and an address: such a move does what it was
told, and an address that is not the server's makes no working pair. The instance of
`connection_edit` satisfies all four.

*MTU and health.* `CareInv` says of every row what its stage allows (`Good`): from the plan
on, an MTU change wants one value for both sides which fits what was measured
(`Weighed`), and nothing but its own step touches a row; `Locked` ties the one row that is
at work to the lock, which is what keeps a rollback, a repair and another change from
interleaving. That a plan that may be applied fits is a lemma about `PlanMtuChange` for any
two views, any margin and any tolerance; that HEALTHY needs two complete clean answers is
one about `MergeFindings` for any two reports. What the summary says is not inductive: a
change that is rolled back must bring back what was shown. `SummaryInv` says of the row at
work that what it goes back to (`Base`: the MTUs of the tunnels until it has read them, then
what it recorded) is what is shown, if all but this row would let the summary stand
(`Stands`), that no success is younger than it, and that it has what it wanted when it
begins to probe. What is shown is here the value of the latest success; that the summary
finds it exactly when it is among the latest `Window` rows is a lemma of its own
(`RecentReachesBack`), for any length of the window. Each step is then a change of one row: one that goes on, ends in doubt or
as it began, succeeds, stands beside the changes, or begins (`ToldGoesOn`, `ToldEnds`,
`ToldSucceeds`, `ToldBeside`, `ToldEnters`).

*Keys.* None of the three follows from the types, because a request acts on what it
learned earlier. `KeyInv` says of every request under way what it still knows: it works
from a well-formed row and a removal from the fallback of that row (`Formed`); the
password it has proved was accepted, and is the host's if that is `still` so, and a
fallback that awaits stage D is proved or has been dropped (`Knows`); a request that is
`alone` is the only one on its host and its row is unchanged (`Alone`). `StepKeeps` and
`QuietKeeps` show it for a step of a request, `BeginKeeps` for a new one, `BesideKeeps`
for an edit beside them. `ServeSpares` and `HubSpares` then show that access survives:
an installation is accepted only with the proved password (`InstallNeedsPassword`), the
switch to the key keeps it, and a removal goes back to it. Any number of servers may
share a host, with any comments.

*Console.* Each part has its own small invariant. `TypedWhereShown` needs that the terminal
on the screen belongs to the drawer's server (`ShowsTheDrawer`), because a late ticket may put
another socket into the shared record. `SuggestedFromItsServer` needs that requests carry
the number of a form that has been opened, and that numbers are not used again
(`FormsAreNumbered`). `BuiltOnAKnownPair` needs what each action has learned at each await
(`Checked`), with deletions and outages in between. `SecondFactorHeld` needs that the
secret a dialog shows has been kept (`ShownIsKept`), and `StoredModelWasServed` what the
answers of a probe say of the past (`AnswersTell`), since the row may be written long after.
`OffersNewest` needs that a search with the current number is one for the newest text and
that what is cached was found by its key (`PickerInv`, `Found`). `UntouchedFieldsStay` needs
that a form equals what it was filled with where nothing was typed, that a body has typed
fields only, and, while one is applied, that the lock keeps the connection as the plan saw it
(`OnlyTyped`). `NoLostWakeup` needs that what a client has heard is always a beginning of
the log (`HeardABeginning`), and of one that waits the whole log. `FinishedShowsAll` needs
of the chain that owns the dialog that the rows cover what its last event id says, at each of
its awaits, with a dialog that others may fill (`Owned`, `KeepsUp`). `StaleIsNeutral` needs
only the types: a click starts a chain with a number of its own.

*Host.* `HostInv` adds to the types which steps belong to which command (`Shape`) and where
the files are at each step of an edit (`Transaction`). Before the commit the old file is
the snapshot, the new name is free and the request collides with nobody (`Pending`);
without the last part the commit could not be shown to keep files disjoint, because the
collision check lies many steps and possibly a watchdog or a failed creation back. The
four theorems on files follow from it. For the rules, `RulesInv` says which rules every
name may have at every step of a command (`OwnOk`, by `EditRules` for an edit), that a
connection that is up and in nobody's hands has its rules (`UpOk`), what the command has
installed so far (`CommandOk`), and that a job about to install rules does so for the file
as it still is or for a raced name (`PassOk`). `CliFrame` shows that a command touches its own
names only, `EditGoesOn`, `OtherGoesOn` and `Ends` reduce a step to the rules of those
names, and there is one lemma per group of actions. Any number of names, subnets and
ports, any requests and any number of events are covered.

Only model-checked: all liveness, which is outside the prover's reach (`EveryCallReturns`,
`PageCatchesUp`, `ReservationEnds`, `TunnelsComeBack`, `FollowEnds`). Every invariant,
action property and refinement that a passing run checks is a theorem.

## 5. Not modelled

HTTP, SSH quoting and command building, encryption, the schema, rendering and the
installer are transport, wording or files; of the scripts on the servers appears what the
hub relies on. In particular:

- a change of the host, port or user of a server while it is probed or provisioned, and of
  the servers or the panel of a route;
- managed hosts of a panel, panels whose clients are embedded in the inbounds (but for the
  probe and the picker), and the legacy `prepare()` of a route;
- the drift check of an edit, and requests for servers the hub does not know;
- in the shell manager `connections.identity`, migration from v1, import, purge, uninstall,
  `--stop`, the menus, the ICMP rules, rules without comments, and self-update;
- the parts of the page that only show what they were sent.

`PROJECT.json` lists each component with its status.

## 6. Plan

Done: 1. queue and its abstract specification; 2. probing service, its outcomes and the
page on top of it; 3. route runs and requests; 4. connection edits and moves, and their
dialogs; 5. key provisioning; 6. the shell manager on one server; 7. the clients of a panel;
8. the event log and the timelines; 9. MTU changes, checks and repairs; 10. actions,
terminal, access, panels and picker; and the theorems of section 4.

What is left, in order of worth:

1. `HostManager` shown to implement the tables of `ConnectionEdit` and `ConnectionCare` when
   nothing fails or races.
2. A change of a server's host under probes and provisioning.
3. Self-update with its rollback.
