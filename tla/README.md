# A verification of rementor's routing daemon

rementor keeps, for each workspace, which of its applications are served by a
local process and which by a remote environment, and makes nginx serve them
that way. This directory holds TLA+ models of the daemon (`src/internal`,
`src/cmd/server`), the TLC configurations that check them on small instances,
and proofs that TLAPS checks for every instance.

Contents: [inventory](#1-the-system) · [what is hard](#2-what-is-hard-to-test) ·
[modules](#3-the-modules) · [runs](#4-the-runs) · [where code and comments
differ](#5-where-the-code-and-its-comments-differ) · [proofs](#6-the-proofs) ·
[limits](#7-what-is-left-out) · [plan](#8-plan)

## 1. The system

| Component | State | Operations | Correct when |
|---|---|---|---|
| Registry: route transactions (`services/registry.go`) | published workspaces (`workspaces`), version counter (`nextRouteVersion`), what nginx was last given (`effective*`), remembered answers (`routeIdempotency`) | `PlanRoute`, `ApplyRoutePlan`, `SyncRoute`, toggles, compatibility sync, update, alias, create, delete, `Load`, `reconcileRouteJournal` | callers read only durable states; a version means one state; a key takes effect once; a rollback report is true; "verified" means served |
| Registry: health and watchers (same file; `WatchHealth` of `rpc/service.go`, `lib/workspaces.tsx`) | run-time status of each application, subscriber counts, event streams | `warmHealth`, `refreshAllHealth`, the check after a toggle, `SubscribeHealth`, `SubscribeWorkspace`, `publishHealth` | a watched workspace is checked, an unwatched one in the end; counts have a stream behind them; an undisturbed console shows what the registry knows |
| Application identities (`config/config.go`, `registry.go`, `models`) | tables `application_identities`, `application_aliases`, the bindings of each workspace | registration, `RegisterApplicationAlias`, removal, session create and refresh, start, migration | a reference means one application, also after a restart |
| Route planning (`services/routes.go`) | none (pure) | `planForWorkspace`, `sortRoutes`, `conflictsForRoutes`, `resolveRoutes` | the route reported as the winner is the one nginx picks |
| Routing sessions (`services/sessions.go`, `rpc/sessions.go`) | a workspace for each session, with the baseline it branched from | create, preview and apply a refresh, edit, remove, close | local routing, overrides and removals survive a refresh; what nobody changed follows the environment; what is applied was previewed |
| Browser URL resolver (`services/browser_url.go`) | none | `ResolveBrowserURL` | agrees with the routes |
| Workspace store (`services/store.go`, `config/config.go`) | SQLite: workspaces, applications, `route_operations` | `LoadState`, `SaveState`, `ReplaceWorkspaces`, journal writes | each call is one transaction |
| nginx provider (`nginx/provider.go`, `nginx/workers.go`) | the generated file, `lastRendered`, `configFiles`, `pidFile` | `ApplyRouting`, `InspectRouting`, `LoadInitialConfig` | success means served, failure means undone |
| nginx rendering (`nginx/config.go`, `nginx/compact.go`) | a cache of fragments | rendering, `compactLocations` | compaction does not change which location answers |
| RPC services (`rpc/*.go`) | none, except what a handler reads before it calls the registry | one handler for each RPC | a registration that was answered is there |
| Validation, models | none | checks, identity hashes | - |
| Server process (`cmd/server/main.go`) | - | start, signals, shutdown | nothing answered is lost at shutdown |
| CLI and MCP (`cli/*`, `cmd/rementorctl`) | an MCP server: its client's session, its protocol | tools and commands of one or more RPCs; `rementorctl nginx` regenerates the file | a call stays in the scope it names; an answer was true during the call; a server speaks one protocol |
| Web console, generated code, examples | - | clients of the RPC services | - |

How they interact. An RPC handler calls a registry method. A method that
mutates takes `mutationMu`, clones the published workspaces, changes and
validates the clone, and then goes through the outside world in a fixed order:
journal (only `ApplyRoutePlan` and the repair of `SyncRoute`), nginx, SQLite,
then the publication of the clone, then the journal again. Each call may fail
and then undoes what came before. Readers take no part in that lock: a plan is
made from the published state and applied at any later time, with the version
it was made from as the compare-and-swap. The provider has its own lock, the
nginx master runs on its own, and the signal goroutine of `main` calls
`SaveState` without a lock.

## 2. What is hard to test

`PROJECT.json` lists every hazard at its line. The groups:

- **Partial failure.** Four systems change in turn (journal, nginx, SQLite,
  memory); every undo can fail too, and some undo steps ignore their errors.
- **Crash and recovery.** Recovery infers from versions alone whether an
  operation took effect. Versions of failed operations are given back and used
  again, and the counter is recomputed at a start.
- **Retry.** A caller whose answer was lost sends its key again, perhaps after
  a restart.
- **Stale knowledge.** Plans, the verified-route cache, the test the fast path
  skips, an inspection that reads files, a refresh preview, the workspace a
  settings dialog was opened on, the list of applications a handler composes.
- **Asynchronous reload.** Signals coalesce; the master reads the file when it
  gets to it; the old workers keep accepting; a timed-out candidate can still
  come up.
- **Shutdown.** A save that takes no lock.
- **Two computations of one thing.** The list of routes (`routes.go`) and the
  nginx locations (`nginx/config.go`) are computed separately from the
  applications, then locations are merged into regular expressions; plans and
  answers follow the one, requests the other.
- **Three-way merges.** Edits, toggles, removals and refreshes of a session in
  any order while its environment changes.
- **Results that come late.** A probe ends after a mutation has replaced the
  application it began with; updates, writes and readings of the console are
  separate steps, and a full buffer drops an update.
- **Two stores of one identity.** Bindings in memory and tables that only grow:
  an alias can be in one and not in the other until a restart.
- **Tools of several RPCs.** They compare, create, plan and toggle while other
  clients change the same workspace, each call with a selector of its own.

## 3. The modules

| Module | What it is |
|---|---|
| `RouteTransaction` | the registry's transactions, with nginx, SQLite, journal, crash and recovery |
| `RouteLedger` | what they promise of the durable state, without steps |
| `RouteTransactionProps` | the properties, and the refinement of `RouteLedger` |
| `MCRouteTransaction` | the symmetry sets for TLC |
| `RouteTransactionProofs` | the inductive invariant and the TLAPS proofs |
| `RouteShutdown` | `RouteTransaction` composed with the signal goroutine of `main` |
| `RoutingSessions` | worktree sessions and their environment, edited by concurrent clients |
| `MCRoutingSessions` | its symmetry sets for TLC |
| `RoutingSessionsProofs` | the inductive invariant of the sessions and the TLAPS proofs |
| `NginxReload` | the inside of the provider's `ApplyRouting`, against a concurrent master |
| `NginxReloadProofs` | its inductive invariant and the TLAPS proofs |
| `RouteLocations` | what an nginx server answers, and `compactLocations` |
| `RouteLocationsProofs` | the TLAPS proofs that compaction keeps the answers and that the first location answers |
| `RouteProjection` | a workspace as `routes.go` lists it and as `nginx/config.go` renders it |
| `RouteProjectionProofs` | its inductive invariant and the TLAPS proofs, among them that the list of routes and the servers agree |
| `MCRouteProjection` | registrations and requests for TLC |
| `HealthWatch` | health checks, the mutations that replace what they write to, streams and the console |
| `HealthWatchProofs` | its inductive invariant and the TLAPS proofs |
| `ApplicationCatalogue` | identities and aliases of applications, in memory and in SQLite |
| `MCApplicationCatalogue` | the registrations for TLC, and symmetry |
| `ApplicationCatalogueProofs` | its inductive invariant and the TLAPS proofs |
| `ControlClients` | MCP tools and `rementorctl` commands, RPC by RPC |
| `MCControlClients` | the calls and command lines for TLC |
| `ControlClientsProofs` | its inductive invariant and the TLAPS proofs |

Operators with the comment "Mutant" are not part of a
specification: each is a plausible bug, stated beside the definition it would
replace, and shows that a property notices it.

### RouteTransaction

`mutationMu` lets one mutation run at a time, so `op` is the mutation that
holds it and `pc` is its next step. A step is one external call, because that
is where it can fail and where the daemon can die: `Prepare`
(`BeginRouteOperation`), `Apply` (`applyRouting`), `Mark` and `Commit`
(`UpdateRouteOperation`), `Persist` (the save), `Publish`, and the undo steps
`UndoStore`, `UndoProxy`, `Close`. An operation of `mutate` starts at `Apply`
and ends at `Publish`; a journaled one has all of them. `PlanRoute` needs no
lock and is interleaved anywhere.

| Variable | In the code |
|---|---|
| `mem`, `db` | `Registry.workspaces`; the rows in SQLite |
| `file`, `running` | `workspaces.conf`; what the nginx workers serve |
| `eff` | `effectiveRoutes`, `effectiveVersions`, `effectiveStatus` |
| `nextVersion` | `nextRouteVersion` (`releaseOperationVersion` lowers it) |
| `journal`, `idem` | the `route_operations` table; `routeIdempotency` |
| `plans` | plans that callers hold |
| `reply` | the answer of the last mutation |
| `fate` | history: what became of each operation's durable write |

Abstractions. A workspace has one routed application, and its desired mode
stands for everything a route says; hashes and fingerprints of the state become
comparisons of that mode, so two states the code tells apart by hash differ in
the model as well. The operation identifier is a number instead of a random
string. The three saves stay distinct (`Persisted`): a toggle saves the rows of
one workspace, an apply those of all, the rest replaces everything.
`ApplyRoutePlan` also raises the counter when it is below the current version
(registry.go:643-646): `VersionsAhead`, part of the proved invariant, says it
never is, so the model does not have that branch. A candidate that validation
rejects is `CandidateRejected`: it has already consumed a version, and `mutate`
does not give it back.

The faults are a constant, one name for each call that can fail, and every run
says which of them it allows. The proxy's outcomes are summed up as `ProxyAccepts`
and `ProxyRejects`; `NginxReload` has the provider's steps and its invariant
`ContractKept` is the justification: success means file and nginx have the
candidate, an error leaves file and nginx as they were or nginx with the old
file, and only a failed undo (fault `undo`) leaves the candidate behind.

### NginxReload

Two processes. The provider follows `install`: rename the candidate into place,
test it with `nginx -T` or trust an earlier test (the fast path), capture the
workers, signal, wait up to two seconds for a new worker to prove the
candidate, retire the captured workers or wait 105 ms, and on any failure put
the file back and reload. The master coalesces signals (`hup`), reads the file
when it gets to it, starts workers, and lets the old ones accept until
`MasterRetire`. Worker identifiers are never used again in the model (see
section 7). Time is replaced by order: the 105 ms wait of `verifyServing`
becomes `GraceOver`, that is, the master's 100 ms for the workers older than the
one that gave the proof have passed.

### RoutingSessions

`mutate` runs one change at a time and a change that fails has no effect (that
is what `RouteTransaction` is about), so here a change is one step. What is left
to interleave is what clients read before a change: the token of a preview
(`Preview`, `ApplyRefresh`), the workspace whose settings a client saves
(`Read`, `SaveSettings`), the registrations from which `UpsertApplication` and
`DeleteApplication` of an environment compose their new list.

| Variable | In the code |
|---|---|
| `workspaces` | the environment and its sessions in `Registry.workspaces` |
| `baseline` | `RoutingSession.Baseline`, `BaselineRemoteURL` |
| `nextVersion` | `nextRouteVersion` |
| `held` | what each client has read and not yet used |
| `told` | history: what clients told each scope about an application and were answered |

A registration is four fields, because the code treats four kinds of field
differently: `meta` stands for one field of the ordinary metadata, each of which
the merge treats alike (name, paths, contexts, health, remote URL), `aliases`
for the fields in which empty means "keep" when a list is saved, `port` and
`active` are the local routing a session does not inherit.
What clients are shown is not what is stored: a missing name is shown as the
identifier (`ShownMeta`, service.go:522-525), and whoever sends back what it was
shown gives that name (`SentBack`). Of the fields that `meta` stands for, the
name is the one for which this can happen in a session: paths and contexts are
written out in a baseline (sessions.go:115-118), and a missing health path is
filled in wherever an application is made (registry.go:1675-1677).
`SaveSettings` is `UpdateWorkspace`: the console calls it for environments only
(App.tsx:210), the RPC takes sessions too (service.go:106-107), so the model has
both. `told.meta` counts a name that a session gets in this way
(`ToldAfterSave`), and nothing else that a save could change.
`Stored` is `applicationsFromConfigs`, `MergedApp` the merge of one application,
`TokenOf` the tuple the token hashes (so equal tokens are equal tuples).

Left out: `BaselineVersion` (nothing reads it but the token), route patterns and
`StripOrigin` (merged like `meta`), identifiers that are used again (they are
random), host ownership (each session has a host prefix of its own, and the
check of `sessionHostPrefixInUse` and `ValidateSessionHosts` is a condition on
strings), the deletion of the environment (refused while it has sessions), and
clients that save settings without an expected version (the field is optional
in the RPC; the dialog sends it).

### RouteLocations and RouteProjection

A path is a sequence of segments; a slash at the end is an empty last segment.
The generated prefixes all end in a slash, so comparing segments is comparing
text. `RouteLocations` has what nginx does with a request (exact location,
redirect to the slash, regular expression, longest prefix) and `compactLocations`.

`RouteProjection` has the applications of one workspace (`apps`, in the order
of registration), the list that `NormalizedRoutes` makes of them (`routes`) and
the server that nginx has for each host (`nginx`). A change is accepted when the
renderer accepts it, that is, when no unintended conflict is reported; how
a refused or failed change is undone is the subject of `RouteTransaction`. The
first half of the module is `routes.go`: `PatternEntries`, `HostRoutes`,
`Deduped`, `Conflicts`, `Resolved`. The second is `nginx/config.go`:
`AppLocations`, `FallbackLocation`, `FirstOfEach` (`dedupeLocations`), the two
kinds of server. The two halves share only what the code shares: the patterns
that the renderer collects from `NormalizedRoutes` (`Patterns`).

`ResolveBrowserURL` gives the URL and the target that `browser_url.go` reports
for an application; `BrowserUrlIsServed` compares both with what nginx answers.

`Register`, `Unregister`, `ToggleApp` and `UpdateRoutePattern` are the accepted
mutations; `ApplyPlan` is a plan applied to the state it was made from: `Planned`
is what `planForWorkspace` makes of the application, `DiffRoutes` the changes it
shows, and a plan that shows none is answered without being applied. `Wins` is
`routeConflictWinner`, `Reported` who wins against whom on each host.

Ports and URLs are numbers, `0` is the workspace's default remote URL.
Identifiers are numbers because ties are broken by comparing them. The way a
location treats a request (`how`) tells apart what compaction tells apart.

### HealthWatch

`mutate` clones every application and publishes the clone, so the applications
have generations: `objects[cur]` is what readers see, a check keeps writing to
the generation it began with. A goroutine of a check is a record in `checks`
with its next step. The order of its last two steps is the code's:
`refreshAllHealth` publishes and then writes, `warmHealth` writes and then
publishes, the check after a toggle only writes.

| Variable | In the code |
|---|---|
| `objects`, `cur` | `Registry.workspaces` and the snapshots goroutines still hold |
| `candidate`, `dropping` | the mutation that holds `mutationMu`; a delete before it forgets `subscribers` |
| `checks`, `todo` | the goroutines of a pass, and what it has yet to start |
| `subs`, `dropped` | `Registry.subscribers`; history: deleted workspaces |
| `watch` | the `WatchHealth` handler and its `healthStream`, by viewer |
| `shown`, `listed` | the console's state; a reading on its way to it |
| `up`, `fresh` | whether the application answers; history: nothing disturbed the console |

A workspace has one application. Its local and its remote status are probed,
compared, written and sent together, so they are one status. Listing the
workspaces and their subscribers takes several locks in turn and is one step
here: what could come between would be listed by the next pass.

### ApplicationCatalogue

Names are normalized tokens. A binding is what a workspace has of an
application; `service`, `repository` and `owner` are the tables, `rows` what
the tables of workspaces and applications hold. A change composes the new list
(`Named`, `Overlay` for `applicationsFromConfigs`), checks it (`Valid`) and
writes it in one transaction (`Commit`), which `Accepted` may refuse
(`ensureApplicationIdentityTx`). `UpsertApplication` and `DeleteApplication`
hold what they read before the change (`held`). `Stop` and `Start` are a restart
at any moment: `Backfilled` is the migration that fills empty tables, `Loaded` and
`LoadedApps` what the registry makes of the rows. `Init` has new stores and
legacy ones without identities.

### ControlClients

A call is a record with the label of its next RPC (`at`). An RPC is one step,
since the registry serves it under its lock or from one snapshot; the
registrations, removals and creations of an environment are two, because the
service reads before the registry changes anything. An answer can be lost after
the change (`... \/ Fails(c)`). A scope has at most one application: what the
tools decide on is whether it is there, its port and its route.

| Variable | In the code |
|---|---|
| `scopes`, `clock`, `opened` | `Registry.workspaces`, `nextRouteVersion`, sessions ever created |
| `home`, `selector` | `REMENTOR_SESSION`; `SessionID` of the server's client |
| `mode`, `spoken` | `mcpServer.mode`; history: the forms of its protocol-bearing answers |
| `call` | the request under way or the last one, with what it has read |
| `seen`, `touched` | history: the applications the scope had during the call; the scopes RPCs were served from |

`CallTool` and `RunCommand` begin a call, `Handle` is a request without an RPC,
`StartServer` another server process. `FirstOfTool` and `FirstOfCommand` say
with which RPC a tool or a command begins; where it goes on is in the RPC's
action. `OneProtocol` is about the four methods whose answer depends on the
protocol; notifications and unknown methods change nothing.

### RouteShutdown

The signal goroutine's read of the projection and its save are two steps, since
`SaveState` takes `workspacesMu` for the copy and no lock for the write. After
them `ProcessEnds`, as in a crash, because `Shutdown` waits ten seconds at most.

## 4. The runs

Bounds are constants: `MaxOps` operations begun, `MaxCrashes` crashes,
`MaxCalls` calls of the provider. Versions are bounded by operations. Two
operations already give the interplay of a failed one and a successor that
uses its version; a third lets a caller replay what a recovery restored. One
crash reaches every step; `route_faults` has two, because what a first
recovery leaves pending is decided by the next. `MaxVersion` bounds the changes
in `RoutingSessions`: four are a creation, two edits and a refresh, with any
number of previews and reads between them. One application is enough, since the
merge treats each on its own; three values of metadata are the missing name,
the identifier as a name, and another. One domain is enough: no property
compares more of it than that a refresh takes the environment's.
`health` has one workspace, one mutation of any kind, one change of the
application's real health, one goroutine at a time for each kind of check, and
streams that hold one update, so that the second is dropped; two viewers make
one count of two. A deletion and a creation of the same workspace take two
mutations: that case is in the theorem `SubscribersCounted`, which has no bound.
`catalogue` has two environments and a session, three names (two applications
and an alias between them), and four changes: register, alias, remove or
restart, register again. `clients` has one server and one command, three calls
together, two environments of which one does not exist yet, and one session: an
MCP tool interleaved with a command, and a third call that shows whether the
server kept anything of the first.
`MaxApps` is three in `projection`: two applications that compete and a root or
a third whose locations are merged with theirs. The registrations are one or
more of each kind the code has a branch for; the requests are one at, one under
and one beside each path. Plans and updates take patterns away (`NewPatterns`
has none but "no pattern"), which gives an application all that is under its path;
what a pattern takes from others is seen when it is registered. Plans that set
any pattern are in the theorem `PlansShowChanges`, which has no bound.

| Run | Shows |
|---|---|
| `route_txn` | with failures of proxy, undo, provider and store and a crash at any step: plans identify states, keys take effect once, the journal tells what happened, rollback reports are true |
| `route_faults` | two workspaces and all three saves, with a store, a journal and a first load that fail at any call, and two restarts: no operation stores a change of another workspace, durable and published states agree, the ledger is implemented, verified means served, when nginx's own undo works |
| `route_live` | with external edits of the file, creation and deletion: in-sync means served, every journal entry is closed in the end |
| `nginx_reload` | three provider calls, a configuration nginx rejects, all failures: the contract, applied means served, by somebody and by nobody else, undone means loaded |
| `sessions` | an environment and a session, two clients: local routing, overrides and removals survive refreshes, the rest follows the environment, what is applied was previewed, a refresh leaves nothing to do, and a version notices every change but an alias |
| `projection` | up to three applications of each kind in any order: the route that `ResolveRoute` reports is the one nginx serves, compaction is invisible, nobody loses a request to an application that is not reported as the winner of a conflict, a browser URL leads to its application and to the target that is reported with it, a toggle changes targets and never owners, and what a client notices of a plan or an update is among the changes that the plan shows |
| `health` | checks of three kinds, a mutation meanwhile, two viewers: counts have a handler behind them, a console that nothing disturbed shows the registry's status, watched and unwatched applications get their true status in the end |
| `catalogue` | registrations of seven shapes, aliases, removals, sessions, restarts and migration: a reference never means two applications, a restart changes none, the stored repository is one an environment gives now |
| `clients` | tools and commands interleaved RPC by RPC: no call leaves its scope, no successful answer is about something that was not so during the call, no server changes its protocol |

Which failures a property survives is part of what it says. `JournalTellsFate`,
`KeyTakesEffectOnce` and `ReplayIsOfADurableAnswer` are checked with journal
writes that succeed: with journal failures the last one is false (run
`journal_reuse`). `VerifiedIsServed` and `InSyncIsServed` are checked without
fault `undo`: with it the second is false (section 5). `VerifiedIsServed`
is about what the daemon knows, so it is checked without external edits.
`PlanBaseIdentifiesState` is checked for workspaces that are not deleted: with
deletions it is false (section 5). `ApplyIsPreviewed` is about registrations and
the remote URL; of the host it is false (`PreviewIsExact`, section 5). `VersionIdentifiesState` leaves
aliases out, for the reason in section 5. The properties of `RouteProjection`
are about requests that nginx does not redirect to a slash, workspaces with one
ordinary root application (`PlainRoots`) and domains with one application
(`OneServerPerHost`); section 5 says what happens otherwise. Where they compare
owners they leave out requests for which two applications tie (`Tied`); `BrowserUrlIsServed` leaves out applications that have only
a catch-all at their URL (`HasEntry`), `ToggleKeepsOwners`
those that give up their routes when they are not local (`KeepsRoutes`). The last two
exclusions came from the proofs: without them both properties are false, and the
instances checked until then had no application that showed it. `DurableMatchesPublished` and
`LedgerSpec` need no such restriction, and are proved.

Deadlock is not checked: every run ends when its bounds are used up.

Fairness. `JournalSettles` assumes `WF(Step)` and `WF(Start)`: each external call
of a mutation returns (nginx commands and requests have timeouts, a SQLite call returns or
fails), and systemd starts the daemon again (`Restart=always` in
`scripts/install-system.sh`). Requests, crashes and external edits have no
fairness. `WatchedConverges` and `UnwatchedConverges` assume that the ticker of
`StartHealthChecker` goes on, that a pass starts its goroutines, that a probe ends
(its timeout is five seconds), and that a mutation and the deferred calls of a
handler that began run to their end; nothing obliges a client to come, stay or
leave, nor a mutation to begin. `UndoneIsLoaded` assumes that the master acts on its signals and that
the provider's steps go on: the proof has a deadline.

## 5. Where the code and its comments differ

Three runs look for a violation on purpose. Each states what a comment says and
finds a short behaviour of the code that does otherwise; `PROJECT.json` quotes
the lines.

| Run | Behaviour |
|---|---|
| `journal_reuse` | The journal entry of a failed apply cannot be closed and its version is given back anyway. The next operation stores that version; after a restart recovery takes the failed apply for committed and answers its key with a success. |
| `shutdown_race` | The signal goroutine saves a projection it read before an operation was stored and published. |
| `compaction_redirect` | The exact location of one application is merged into a regular expression while another's wildcard below the same path stays a location: nginx redirects the exact URL to the wildcard's application. Toggling the latter is enough to bring it about, and no conflict is reported. |

More, which no run shows:

- `InspectRouting` compares the rendering with files, and `nginx -T` reads files
  too. When `install` restores the file and its reload fails
  (provider.go:115-128), the next sync answers in-sync while nginx serves the
  candidate, although registry.go:835-838 wants the loaded configuration
  compared. With fault `undo`, `InSyncIsServed` is false.
- An apply right after one that timed out does not know the late workers of the
  abandoned candidate, and returns while they accept (provider.go:298).
  `SettledApplyIsServed` is therefore stated for applies that begin with nginx
  at rest.
- `ResolveRoute` and nginx differ (routes.go:18-21 says the routes mirror what
  the renderer emits) in these cases. (a) A root application with an explicit
  pattern: the renderer collects the fallback's `/*` as a pattern of its own
  and serves it on the hosts of domain applications before their fallback.
  (b) Two applications that both allow an override register the same pattern:
  the resolver and the conflict report name the smaller identifier, although
  "insertion order must never decide ownership" (routes.go:702-704); nginx
  serves the first rendered (config.go:653), which a toggle can change.
  `ReportedWinnerServes` of `RouteProjection` is false. (c) A root application with a
  context and no remote URL of its own: the renderer's fallback passes it over
  (config.go:474), so other paths go to the default remote as "unknown".
  (d) A slash at the end, which the resolver strips. (e) An application with
  the pattern `/*` and no root application: the resolver reports the fallback.
  (f) Two applications with one domain: nginx ignores the second server.
- An application whose pattern is only `/x/*` has the browser URL `/x`, which
  nginx redirects to `/x/`; when its location is merged into a regular
  expression there is no redirect and the fallback answers.
- When an `nginx -T` fails, the file is put back without a reload
  (provider.go:96-98). If a reload was pending when the call began, the master
  may read the file while the rejected candidate is in place, ignore it, and
  never come back to the restored one. `ContractKept` is therefore stated for
  calls that begin with nginx at rest.
- Toggles, updates, creates and deletes are not journaled, so after a delete and
  a restart `Load` (registry.go:169) starts below versions that were handed out.
  A workspace that is created again can reach the version an old plan names as
  its base, although registry.go:1226 calls the version monotonic.
- A delete whose save fails and whose compensating reload fails too leaves the
  workspace published with its verified projection, while nginx has lost its
  routes: `recordEffectiveRoutes` (registry.go:2053) writes only the workspaces
  of the projection it is given.
- An alias goes to the bindings of all workspaces, and only the requested one
  gets the new version (registry.go:1029-1033). A settings dialog open on
  another workspace passes the version check; when the application has other
  aliases the list it saves drops the new one.
- A refresh that inherits an emptied repository, service id or list of aliases
  keeps the old one, because `applicationsFromConfigs` takes empty for "not
  given" (registry.go:1651-1659); the preview reports an update. Patterns and
  `StripOrigin` are put right afterwards (sessions.go:296-301).
- An application with a domain and no remote URL of its own has only the
  catch-all of its server when it is not local (routes.go:504-532). Its browser
  URL is resolved by its own routes alone, which "keeps
  precedence/effective-mode metadata identical to route inspection and nginx
  rendering" (browser_url.go:124-126), and is answered by a shared application
  with the same path. `BrowserUrlReachesApp` is false.
- The token of a refresh preview (sessions.go:213-221) does not cover the
  environment's local domain, from which the host of the session is made
  (290-294), although "SessionRefresh describes exactly what a preview will
  apply" (193-194). When the domain is saved in between, the session gets a host
  that the preview did not show. `PreviewIsExact` of `RoutingSessions` is false.
- The merge compares lists with `reflect.DeepEqual` (sessions.go:262) and finds
  the empty list of `NormalizedAliases` (models.go:470) and the nil one of
  `cloneSession` (sessions.go:23) different: an application without aliases
  never inherits any, although a refresh "preserves session overrides"
  (docs/plans/worktree-routing-sessions.md:87-88) and none was made.
  `AliasesAreRefreshed` of `RoutingSessions` says what was meant and is false.
- `UpdateWorkspace` on a session (service.go:106-107) pins names that nobody
  gave: `toProtoApplicationInWorkspace` shows the identifier for a missing name
  (service.go:522-525), a client that sends the applications back as it was shown
  them, as the dialog does (routing-dialogs.tsx:18), sends it as the name, and
  it is stored (service.go:432, registry.go:1668). The merge (sessions.go:262)
  then takes it for an override, and a name that the environment is given later
  does not reach the session. `SettingsLeaveMetadata` of `RoutingSessions` says
  that a save changes no metadata and is false. The console opens that dialog
  for environments; its dialog for one service of a session sends the shown name
  too (routing-dialogs.tsx:291-296), which the model has as an edit that gives one.
  In an environment the same save drops the legacy flags of an old registration,
  which are neither shown nor kept (service.go:431-437, registry.go:1668-1672),
  so that its `IngressPath` (models.go:320-334) is no longer the context.
- Two registrations in an environment read the same list (service.go:207, 283)
  and save it without a version (registry.go:1367-1369): the second drops the
  first, although "an agent's stale snapshot can erase another session"
  (docs/plans/worktree-routing-sessions.md:194-196) is the reason why sessions
  do otherwise (sessions.go:457-458). `RegistrationsAreKept` is false.
- `migrateSessionHostnames` (sessions.go:362-415) runs at every `Load`
  (registry.go:157-164), not once: it moves the host names of sessions to the
  environment's current domain without a preview, and when the result does not
  validate the daemon does not start.
- Health. An update that meets a full buffer is dropped and not sent again while
  the status stays, although "every client receives every health update"
  (registry.go:1041-1042). A mutation during a check makes its result go to an
  application nobody reads, while the update was sent; the next check compares
  with the old status. The check after a toggle sends no update (1553-1564), and
  a change from unknown to down is none (401). A subscription to a workspace
  that does not exist keeps full checks from running (1140-1159). A workspace
  that is deleted and created again has lost the count of those who still
  watch. `GetActiveWorkspaces` "returns all workspaces" without subscribers
  according to its comment (1110) and none in the code.
- Identities. An alias that was removed comes back with a restart, because its
  row stays, and can never be given to another application; neither can the
  identifier of a removed one. An application registered with a service id of
  its own and elsewhere without one is refused when it is saved: "preserve the
  globally registered service ID" (config.go:1276-1278) never applies, since the
  service id defaults to the identifier before. A session's change of the repository
  of an inherited application is lost with a restart. After a restart a
  session's application has the repository and aliases of the tables and its
  baseline the old ones, so that it counts as changed by the session and a
  refresh reports a conflict. An identifier in another spelling (capitals) is
  not found by name, and its omitted fields are not kept.
- service.go:259: a workspace that is deleted between the save of
  `UpsertApplication` and its `GetWorkspaceView` makes the handler dereference
  nil.
- `announce` is "idempotent register + activate" (announce.go:10), but it looks
  and then toggles: two of them can both find the application remote and leave it
  remote, and both report it activated. `ensureWorkspace` handles a "409 race"
  (announce.go:181), but only a creation that the service sees first gives 409
  (service.go:60); one that comes between its check and the registry's lock gives
  an internal error (97-100) and the announcement fails. The MCP tool has no second
  look at all.
- `rementor.app_set_route` "checks current state and toggles only if needed"; it
  plans and applies, so it can fail with a version conflict, and its answer is
  a later read that may show another route. An application with neither port
  nor remote target has no routes in either mode, and a change of its mode is
  answered as done without one. An MCP server in mode auto is modern after a
  request with an unsupported version, which it refuses, and then refuses
  `initialize`.
- As in any three-way merge, an override that coincides with the environment's
  value is no longer an override after the next refresh.

## 6. The proofs

`RouteTransactionProofs` proves, for every set of workspaces, clients and keys,
every set of faults and every bound (`BoundsAssumption`, `SwitchAssumption`,
`NoneAssumption`, `ForeignAssumption` are all it assumes; TLC evaluates them in
every run):

- `Invariant`: `Spec => []IInv`, the inductive invariant;
- `TypeCorrect`: `Spec => []TypeOK`;
- `DurableSafe`: `Spec => []DurableMatchesPublished`, that is, whatever fails,
  what callers read is what a restart would load, except between one
  operation's save and its publication;
- `Implements`: `Spec => LedgerSpec`, the refinement of `RouteLedger`.

Other promises hold only if some failures do not happen. Their theorems assume
just that of `Faults` and `Kinds`, which the configurations choose:

| Theorem | shows `Spec =>` | as long as there is no |
|---|---|---|
| `PlansSound` | `[]PlanBaseIdentifiesState` | deletion |
| `RollbackTrue` | `[]RollbackReportIsTrue` | hand edit; no alias, which does not insist on nginx |
| `VerifiedServed` | `[]VerifiedIsServed` | deletion, hand edit, failure of nginx's own undo |
| `InSyncServed` | `InSyncIsServed` | failure of nginx's own undo |
| `JournalTrue`, `KeyOnce`, `ReplayTrue` | `[]JournalTellsFate`, `[]KeyTakesEffectOnce`, `[]ReplayIsOfADurableAnswer` | failure of the journal or of the first load |

The violated runs and section 5 show that most of these exclusions are needed:
with a failing journal a version is used again, and a deletion forgets one.

`DurableMatchesPublished` is not inductive: that a save which fails and is
undone leaves SQLite as it was depends on the candidate touching only rows that
exist (`CandidateShape`), and that depends on who holds the lock
(`OperationHeld`). The refinement needs more: that a commit carries a version
above all stored ones follows from `VersionsAhead`, the counter being at or
above each published version and equal to the version of the operation in
progress, and that survives `Released` only because no other operation can have
taken a version meanwhile; that an operation takes effect once follows from
`FatesInOrder`. `IInv` is the conjunction of these with `TypeOK`. The proofs go
by action: lemmas for the groups `Request`, `Step` and `Start`, one step for
each action and under it one for each conjunct it can disturb. `HighestIsMax`,
which recovery's counter needs, is proved with a well-founded order and not by
induction over data.

Each restricted theorem adds its own invariant to `IInv`. `PlansBehind` says that
no plan is ahead of the durable state, so recounting the versions at a start
cannot reach a plan's base with another operation; a candidate is strictly ahead
(`CandidateIsAhead`). `ServedTrue` follows what the daemon believes of nginx
from the reload that established it to the publication of the same candidate
(`AcceptKeepsBelief`, `SkipKeepsBelief`, `RestKeepsBelief`). `JournalKept` says
of a pending entry that it is the only one, that its key was never committed,
and that the durable workspace is at its version exactly if its operation was
saved: this last is why recovery, which sees only versions, decides right. Every
way an entry is closed, by its operation, by the undo and by recovery, goes
through `CloseKeepsJournal`; every other step of an operation through
`MoveKeepsJournal`.

`NginxReloadProofs` proves, for every set of configurations, of invalid ones and
of faults and any number of calls (`ConfigAssumption`, `BoundAssumption`):
`Invariant`, `TypeCorrect`, `ApplyKeepsContract` (`[]ContractKept`) and
`AppliesAreServed` (`[]SettledApplyIsServed`). The first speaks of `Destined`,
which the master's own steps do not change (`MasterKeepsDestined`), so it follows
from what each step of the provider does to the file and the signal (`Testing`,
`Verifying`, `Undoing`); that a signal without a test cannot name a file nginx
refuses is `FastIsSafe`. The second speaks of who answers: an apply that begins
at rest has one old worker, so a worker as young as the prover is either it or
started for the candidate (`Verifying`, `ProveKeeps`), and the youngest is never
among those that are told to quit (`OldAreOlder`, `RetireLeaves`).

`RoutingSessionsProofs` proves, for every set of sessions, clients,
applications, metadata, aliases and domains and any number of changes
(`BoundAssumption`, `ScopeAssumption`, `NoneAssumption`, `HeldAssumption`):

- `Invariant`: `Spec => []IInv`, and from it `TypeCorrect`;
- `RoutingIsOwn`: `[]LocalRoutingIsOwn`; `UntouchedFollows`:
  `[]UntouchedIsInherited`; `RemovedStaysAway`: `[]RemovalsKept`;
- `VersionsTell`: `[]VersionIdentifiesState`;
- `AppliedIsPreviewed`: `ApplyIsPreviewed`; `RefreshesSettle`: `RefreshSettles`.

`LocalRoutingIsOwn` is not inductive, because `SaveSettings` writes back
registrations that a client read earlier. That they are still the current ones,
but for names that were missing (`SentBackFields`, `ToldAfterSaveFields`),
follows from the version check only if a version identifies a state
(`VersionIdentifiesState`), and that in turn holds across a change only if no
client holds a version the counter has yet to reach (`VersionsBelow`). A
refresh needs two more facts, both in `AppInv`: baselines are plain, without
port and inactive, so a merge has no local routing to bring; and what was removed is
known to the baseline, which is how the merge tells a removal from an
application the environment added. `MergeKeeps` is that merge for one
application, `CommitStep` what every change of one workspace owes the rest, and
each change has a lemma of its own.

`ApplyIsPreviewed` needs one more conjunct. A token covers what the merge reads
except the session's own remote URL, for which it has the session's version;
`PreviewsTell` says of every preview a client holds that it shows what its token
stands for (`MergedFrom`), and the remote URL as long as the version is the same.
That no version is given to two states (`VersionsStep`) keeps it so over every
change of anybody. `RefreshSettles` needs no more than types: after an apply the
baseline is the environment, merging with two equal sides changes nothing
(`MergeSettled`), neither does storing the result (`StoredAgain`).

`RouteLocationsProofs` proves `CompactionKeepsAnswers`: for every set of
locations and every URI that nginx redirects to its slash neither before nor
after, the compacted server gives the same answers. Two locations that hit one
URI overlap (`HittingOverlaps`), so of all locations with different proxies only
the default can hit what a regular expression hits; and a group is closed under
what lies within a merged location (`SafeIsClosed`), so the longest prefix of
all is in the regular expression that matches (`RegexHasLongest`). Among any
locations that hit a URI there is a first one (`FirstExists`, with the
well-founded order of lengths), and what the compacted server answers is what is
first among the locations (`CompactAnswersFirst`).

`RouteProjectionProofs` lifts it to workspaces, for every set of registrations,
patterns and requests (`RegistrationsAssumption` and its neighbours, which say
what an application and a request are):

| Theorem | shows `Spec =>` |
|---|---|
| `Invariant`, `TypeCorrect` | the list and the servers are those of the registered applications, which the renderer accepted |
| `CompactionNeverShows` | `[]CompactionIsInvisible` |
| `ResolverIsRight` | `[]ResolverAgrees` |
| `ShadowsReported` | `[]NothingIsShadowedSilently` |
| `BrowserUrlsServed` | `[]BrowserUrlIsServed` |
| `PlansShowChanges` | `PlanShowsWhatChanges` |
| `TogglesKeep` | `ToggleKeepsOwners` |

The list and the servers are computed apart, so the proof compares both with a
third thing, the entries an application has on a host (`EntriesAt`). The list has
a route for each entry and no other (`HostListing`, after duplicates went), and
the server has a location for each entry, with the same owner and target
(`EntriesAreServed`, `ServedAreListed`). What nginx answers is what is first
among the locations, hence what is first in the list (`ServedAreFirst`,
`ServedIsListed`), and `ResolveRoute` reports just that. From there on it is
about the list alone: a route that hits a request another application's route
comes before is a conflict (`ShadowsReported`); a list without conflicts, which
the invariant's `Accepted` gives when there are no overrides, has an
application's own route first at its browser URL; a request whose answer changes
has a route that came, went or changed; and the patterns an application claims do
not depend on its mode. `PlainRoots`, `OneServerPerHost` and the other
exclusions of section 4 are in the properties and not in the theorems.

`HealthWatchProofs` proves, for any workspaces, viewers and consoles, any
buffer size and any bounds (`SelectionAssumption`, `BoundAssumption`,
`ViewersAssumption`): `Invariant`, `TypeCorrect`, `SubscribersCounted`
(`[]CountsAreBacked`) and `UndisturbedConsole` (`[]ConsoleShowsStatus`). The
last is not inductive: what a console shows is decided by updates still in its
buffer, by a reading on its way and by a probe that has published and not yet
written. `InStep` says for each of them what it will make of the console, and
`FollowersInStep` that this is so as long as nothing disturbs it;
`ConsolesChoose` keeps consoles to one workspace.

`ApplicationCatalogueProofs` proves, for any environments, sessions, names,
inputs and bounds (`NamesAssumption`): `Invariant`, `TypeCorrect`, `MeaningKept`
(`[]ReferencesKeepMeaning`) and `RestartSafe` (`[]RestartKeepsReferences`).
References are resolved in the bindings and kept apart by the tables, so the
invariant relates them: the tables give a name one meaning (`TablesAgree`),
everything ever resolved is in them (`MeantIsStored`), so are the rows
(`RowsAreKnown`) and the published bindings (`MemoryIsStored`). That a refused
registration changes no table, and that an accepted one only adds to them, is
what carries it over a change; over a restart, that the migration fills the
tables only when they are empty. `RepositoriesCurrent` proves
`[]RepositoryIsCurrent`. The tables keep what was written last, and a commit
writes the bindings of sessions too (`SessionsAreMarked` says which workspaces
those are); of several writers of one transaction the last decides
(`LastWriterDecides`), and what a session pinned writes nothing that an earlier
workspace has, so the last is an environment, or a session that has the application
of its own (`CommitIsCurrent`).

`ControlClientsProofs` proves, for any agents, commands, requests, stored scopes
and number of calls (`ParentAssumption`, `StoredAssumption`, `RequestsAssumption`,
`HomesAssumption`, `NamesAssumption`, `BoundAssumption`, `ProtocolsAssumption`):
`Invariant`, `TypeCorrect`, `ScopeIsolation` (`[]CallsStayInScope`), `TrueAnswers`
(`[]AnswersAreTrue`) and `OneProtocolKept` (`[]OneProtocol`). That an answer is
true says nothing of a call under way; the invariant adds for every label which
tools get there (`Reaches`) and what they have established by then (`Progress`),
and that `seen` has what the scope has now (`SeenIsCurrent`). Both survive the
RPCs of other clients because `seen` only grows (`SoundGrows`). An RPC is then a
step of one client (`Stepped`): the server changes at most one scope (`Changes`),
and the call moves to a label about which it knows enough (`Moved`).
Nothing in it needs the version check of `ApplyRoute`: `TrueAnswers` is about
what callers are told, not about lost updates, which `RouteTransaction` has.

Only model-checked is the liveness of four runs (`JournalSettles`,
`UndoneIsLoaded`, `WatchedConverges`, `UnwatchedConverges`), since the prover has
neither fairness nor ENABLED. Every invariant and every action property that a
passing run checks is also a theorem; those of `RouteTransaction` with the
exclusions of the table above. `TypeOK` of `RouteProjection` and of
`ApplicationCatalogue` are theorems only.

## 7. What is left out

- Several applications in a workspace and conflicts between their routes are in
  `RouteProjection` only: in `RouteTransaction` planning is reduced to the
  desired mode, in `RoutingSessions` it is absent.
- Ownership of host names and the migration of hosts of old sessions
  (`migrateSessionHostnames`, run at every `Load`).
- In `HealthWatch`: several applications in a workspace (each has its own checks),
  the timing of ticks and timeouts, the web console's reconnection delay.
- In `ControlClients`: tools and commands of one read or one RPC that other
  modules have (status, lists, resolve, plan, apply, sync, alias, pattern, session
  refresh), flags and output, the framing of messages, a workspace name that is
  a session's identifier in an announcement, identifiers of sessions used again.
- In `RouteProjection`: workspaces of type local-apps (one location for each
  host), several workspaces in one configuration, trace locations, `StripOrigin`
  (it only keeps a location from being merged), and the checks of fields.
- The creation of tables and columns and the import of legacy JSON, the template
  text, validation of single fields, protobuf conversion, the rest of the web console.
- In `NginxReload`: the reuse of process identifiers, a restore that writes
  half a file (the restore is not a rename), `LoadInitialConfig` run by
  `rementorctl nginx` in another process at the same time.
- A crash within one SQLite transaction or within a rename: both are atomic.

## 8. Plan

In this order, each with its properties, mutants and, where it says so, proofs:

1. `RouteTransaction`, `RouteLedger`, `RouteTransactionProofs` - done.
2. `NginxReload`, `NginxReloadProofs`, `RouteShutdown` - done.
3. `RouteLocations`, `RouteProjection` and their proofs - done.
4. `RoutingSessions`, `RoutingSessionsProofs` - done.
5. `HealthWatch`, `HealthWatchProofs` - done.
6. `ApplicationCatalogue`, `ApplicationCatalogueProofs` - done.
7. `ControlClients`, `ControlClientsProofs` - done.
8. `NginxReload` with the second process of `rementorctl nginx`: two providers
   share the file, its temporary name and the signal, and nothing of the
   contract is promised then; worth a module once the code has a lock.
9. Workspaces of type local-apps in `RouteProjection`: one location for each
   host, without fallbacks; the entries of `RouteProjectionProofs` are stated by
   host, so that they extend to it.
