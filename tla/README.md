# GoDoxy: TLA+ models, model checking and proofs

GoDoxy is a reverse proxy that discovers its routes from containers, files and
agents, watches their health, balances load between them, puts idle containers
to sleep and wakes them on demand. This directory holds TLA+ modules translated
from its Go source, TLC configurations that check them on small instances, and
TLAPS proofs of the invariants that matter most, for every value of the
constants. `PROJECT.json` maps every definition to the lines it models and
lists runs, mutants, findings, hazards and theorems.

    tlc -workers 2 -config MCRoutes.cfg MCRoutes   # a run
    tlapm LifecycleProofs.tla                      # proofs

## 1. Inventory

| Component | State | Operations | Interacts with | Module |
| --- | --- | --- | --- | --- |
| `internal/config` | active and working state, each with a task, providers, servers, dispatcher; global agent pool | `Load`, `Reload`, `StartProviders`, `StartProxyServers` | the config watcher and the API call `Reload`; a state owns everything below it through its task | `ConfigReload` |
| `internal/serialization` (reader) | text read in chunks | `Read`, substitution of variables | configuration and route files | `EnvReader` |
| `internal/route/provider` | table of routes by alias | `LoadRoutes`, `Start`, `Handle` (add, remove, update) | events of `internal/watcher`; starts `internal/route` routes | `RouteProvider` |
| `internal/watcher` | event stream (up, failing, reconnecting), queue of a batch | stream, reconnect, force reload, flush | docker; providers; idlewatcher | within `RouteProvider`, `Idlewatcher` |
| `internal/docker` | shared clients with reference counts; containers and labels | new, close, cleaner; `FromDocker`, `ParseLabels` | watchers, providers, idlewatcher | `DockerClients`, `DockerLabels` |
| `internal/route`, `routes` | a route as read and as validated; registry of running routes, links of load balancers | `Validate`, `Finalize`, start, finish | providers, entrypoint, load balancer, homepage | `RouteValidate`, `RouteLinks` |
| `internal/idlewatcher` | container state in the program, two tickers, ready notification, singleflight, reload lock | `NewWatcher` (new and reload), `Wake`, `waitForReady`, `watchUntilDestroy` | requests of many clients; docker events; health checks; reloads of its route | `Idlewatcher` |
| `internal/health/monitor` | status, failure counters | first check, ticks, notifications | route; `internal/notif`; the load balancer reads its status | `HealthMonitor` |
| `internal/net/gphttp/loadbalancer` | pool, weights, per-algorithm state | add, remove, choose, sticky cookie | routes that share a link; health of the servers | `LoadBalancer` |
| `internal/notif` | global dispatcher, retry queue | notify, dispatch, retry | config (lifetime); health monitors, ACL | `NotifDispatcher`, `Mailbox` |
| `internal/route/stream` | UDP connection table, TCP accept loop | accept, read, write, idle cleanup, close | routes | `Streams` |
| `agent/pkg/agent`, `internal/agentpool`, enrolment API | pool, bundles of certificates, tunnels with their headers | create, verify, probe, dial, relay | providers of the active configuration; stream routes | `AgentEnroll`, `AgentTunnel` |
| `internal/proxmox` | node pool, table of resources, polled state | update, lookup, actions, watch | routes, idlewatcher | `Proxmox` |
| `internal/acl`, `internal/maxmind` | verdict cache, counters; database file, reader | check, summarise; download, exchange, lookup | listeners; notifications | `AccessControl` |
| `internal/entrypoint` | match domains, two maps of short links | find route, add, delete, redirect | registry; servers | `Entrypoint` |
| `internal/net/gphttp/middleware` | compiled chain, per-middleware state | compile, request part, response part | routes, entrypoint, auth | `Middleware` |
| `internal/auth`, `internal/jsonstore` | sessions and their refresh tokens, file | login, callback, refresh, logout, load, save | API, middleware, rules | `AuthSessions` |
| `internal/route/rules` | rules split by phase; texts | build, check, run; scan, split, expand | routes, auth, notifications | `Rules`, `RuleSyntax` |
| `internal/logging/accesslog` | shared file handles, buffers, policy | log, flush, rotate, close | entrypoint, ACL | `AccessLog`, `LogRotate`, `AccessFilter` |
| `internal/autocert` | certificates in memory and on disk, last failure, SNI matcher | load, obtain, renew, force, match | TLS server, API | `Autocert` |
| `internal/metrics` | rings of entries per period, file | poll, save, load, aggregate | health monitors, API | `Metrics` |
| `internal/homepage`, `api`, `logging/memlogger`, programs | presentation, thin handlers, a ring of log lines, wiring | | | not modelled |

What is hard here: many goroutines over lock-free state (the idlewatcher stores
whole states over each other, the load balancer reads its pool while it
changes), event streams that lose events, lifetimes that overlap while a
configuration is replaced, callbacks that run after the thing they belong to
was replaced, steps of which a later one fails, processes that die between two
writes (certificates, metrics, sessions, the country database), and texts that
two pieces of code must read in the same way.

What makes each part correct is stated with the modules below.

## 2. Modules

### Idlewatcher (`internal/idlewatcher`)

One watcher, its container, and any number of requests. `st` is the stored
`containerState` (status, ready, whether `startedAt` is set); `healthOn`,
`idleOn`, `quiet` are the tickers; `token` is the buffered `readyNotifyCh`;
`evQ`, `link` are docker's events on their way; `loop` is where
`watchUntilDestroy` is (it blocks in a health check and in a stop); `leader`
is the call that singleflight shares; `pc` is where each request is. Actions
follow the handlers: `LoopEvent`, `HealthTick`/`HealthResult` (a check that
began with an older state stores it back), `IdleTick`, `StopByMethod`,
`StopReturns`, `ReloadRead`/`ReloadStore` (`NewWatcher` for a watcher that
exists reads the container's status and stores it later), `Arrive`,
`CheckReady`, `Wake`, `WakeIfStopped`, `WakeCall`, `WaitCheck`,
`WaitNotified`. Docker is external: a container that is told to stop announces
`kill` first and exits later. `stale` and `sinceUse` are history variables.

| Property | Meaning |
| --- | --- |
| `StatusTracksContainer` | when all events are handled, the stored status is the container's, except where an older one was stored over it or an event was lost |
| `JoinedHaveLeader` | requests that joined a wake have a leader that will return, and only the leader talks to docker |
| `IdleStopAfterQuiet` | the container is put to sleep only after a full idle timeout without use |
| `StartResolves` | a start ends: ready, failed by the wake timeout, or stopped |
| `ReadyReleasesWaiters` | a request that waits for a container that is ready is let through |

`WatcherSound` is `TypeOK`, `StatusTracksContainer` and `JoinedHaveLeader`.

### LoadBalancer (`internal/net/gphttp/loadbalancer`)

One load balancer with its pool, weights and algorithm state, servers coming
and going with their routes, and requests. `AddServer` and `RemoveServer` hold
a lock that requests do not take, so that the callback into the algorithm is a
step of its own (`busy`); a request takes a list of available servers
(`Lookup`) and chooses from it later. `looked` is history: what was in service
when the request came in. A weight that gets the remainder of a division
depends on iteration order and is a choice.

| Property | Meaning |
| --- | --- |
| `CountsInFlight` | a counter of least_conn is the number of requests its server is serving |
| `ImplMirrorsPool` | after every callback the algorithm knows exactly the pool |
| `ServesAvailable` | a request goes to a server that was in service and healthy when it came in |
| `StickyStays` | a client leaves its sticky server only when that was not available |

`BalancerSound` is `TypeOK` with the first two, `PicksRight` the other two (about
steps).

### HealthMonitor (`internal/health/monitor`)

The goroutine of one monitor: the first check, ticks, the two counters (errors
in a row, failures in a row) and the notifications. Results are healthy,
unhealthy or an error, in any order.

| Property | Meaning |
| --- | --- |
| `DownNotifiedOnceWhenDue` | an outage is notified exactly once, with the failure that reaches the threshold |
| `GivesUpAfterNotifying` | a monitor that gives up has reported the service as down |
| `RecoveryNotified` | the end of a notified outage is notified |
| `CountersAgree` | the counters and the status agree: the strengthening the two first ones rest on |

`OutagesNotified` is `IInv` (`TypeOK`, `CountersAgree`,
`DownNotifiedOnceWhenDue`) and `GivesUpAfterNotifying`.

### DockerClients (`internal/docker/client.go`)

Clients shared by host, their `refCount` and `closedOn`, the cleaner, and users
that take one reference each: from `NewClient`, from `Clients`, or a unique
client. Only `NewClient`, the copy in `Clients` and the cleaner take the lock,
so that `ClientsAddRef`, `ClientsReset`, `CloseStore` and `CloseRelease` are
steps of their own, and so are the cleaner's look at the count, its look at
the time, and the close. `released` and `raced` are history.

| Property | Meaning |
| --- | --- |
| `RefsCounted` | the count of an open client is the number of its users |
| `HeldStaysOpen` | a client from `NewClient` is not closed while somebody has it |
| `ClosedAfterTTL` | the cleaner closes a client only when it has been unused for the TTL, unless `Clients` took a reference while it was deciding |

`ClientsSound` is `ClientsTypeOK` with the first two.

### NotifDispatcher and Mailbox (`internal/notif`)

One dispatcher: `Notify` (which looks at the context and then uses the
channel), the loop that receives and retries, one goroutine per message and
per provider, and the end of the dispatcher. An item is a message for one
provider; `retryMsg` holds the failed ones, `ripe` those whose backoff has
passed. `Mailbox` is what the dispatcher promises: an item is acknowledged at
most once or abandoned, never both.

| Property | Meaning |
| --- | --- |
| `NothingForgotten` | while the dispatcher runs, an item that was handed over is in exactly one place |
| `TrialsBounded` | a failing provider is tried once and then as often as the level allows |
| `ImplementsMailbox` | the refinement of `Mailbox` |
| `EveryoneInformed` | each item is acknowledged or given up in the end, unless the dispatcher ends |

`NotificationsKept` is `NotifTypeOK` with the first two.

### ConfigReload (`internal/config`)

`Reload` step by step, with callers (config watcher, API), each outcome of
`InitFromFile`, the end of the old state, the start of the new one, and what
runs in the background: providers, servers and the notification dispatcher of
each generation, and the globals `dispatcher` and agent pool. `task.Finish`
and `FinishAndWait` are those of goutils (external): they wait for the
subtasks.

| Property | Meaning |
| --- | --- |
| `OneGenerationRuns` | routes and servers of two generations never run side by side |
| `ActiveStateRuns` | after every reload, failed or not, the active state lives and is the working state |
| `NoOrphans` | a state that did not become active leaves no task and no dispatcher |
| `IInv` | the inductive invariant of the proofs |
| `ReloadEnds` | every reload ends |

`GenerationsSound` is `IInv` (`OneGenerationRuns` is part of it),
`ActiveStateRuns` and `NoOrphans`.

### RouteProvider (`internal/route/provider`, `internal/watcher`)

One docker provider: the containers (`world`), the event stream with outages,
the queue, `Start`, and `Handle` route by route: a change may come between any
two steps of it. `lost` and `unseen` record which changes no event told of.

| Property | Meaning |
| --- | --- |
| `Converged` | when all events are handled, the running routes are those of the containers |
| `OneRoutePerAlias` | two routes of one alias never run at once |
| `TableMatchesRegistry` | between batches the provider's table tells which routes run |
| `CancelEndsRoutes` | a cancelled provider leaves no route running |

`TableSound` is `ProviderTypeOK`, `OneRoutePerAlias` and
`TableMatchesRegistry`.

### RouteLinks (`internal/route/route.go`, `reverse_proxy.go`, `internal/routes`)

The lives of HTTP, load-balanced, file, stream and excluded routes against the
pools of the registry. Starting is several steps (task, link, pool); the end is
what `OnCancel` registered, then what `OnFinished` registered. The first route of a
link creates the balancer and puts it in the registry; `rlOwner` remembers it.

`RegistryFollows`: nothing of a finished route is left (`NothingOfTheDead`), and
a route that is up is found, alone or behind its balancer (`UpIsFound`).

### RouteValidate (`internal/route/route.go`)

One route through `Finalize`, `Validate`, the proxmox lookup, the decision to
exclude and the homepage item, over every combination of alias, scheme, host,
ports and container the code tells apart.

`ValidRouteConsistent`: the decision to exclude does not depend on when it is
asked (`ExclusionStable`), a port belongs to the host it is used with
(`PortOfHost`), and a route has a name to show (`NamedOnHomepage`).

### EnvReader (`internal/serialization/reader.go`)

`${NAME}` substituted while a text is read in chunks, against the substitution
in the whole text. `EnvReaderSound`: what was delivered, each value taken back
to a reference to the set name it came from, is the text up to where it was
read (`NothingLost`); of a text of at most two chunks, with names not longer
than the limit, the result is the substitution in the whole text, and fails
just when that does (`SubstitutesAll`).

### DockerLabels (`internal/docker`, `internal/route/provider/docker.go`)

From the labels of a container to its routes: nested paths, YAML values,
`#N` references and wildcards, and the choice of its network. Labels are a Go
map: every pass takes them in an order of its own, and `ParseLabels` walks
into the nested map part by part. `Wanted` reads the labels as a person would:
what a wildcard gives, else what the labels of the alias give by its name or its
number. `LabelsSound`: in whatever orders, when nothing is reported and the
labels of an alias put nothing below a place that another one sets (`Clear`), the
alias has just the wanted values (`LabelsApplied`), and the host is an address
the container has (`AddressHasIt`).

### AgentEnroll and AgentTunnel (`agent/pkg/agent`, `internal/api/v1/agent`, `internal/agentpool`)

`AgentEnroll`: bundles issued under a key that rotates, `Verify` requests for
one address, reloads of the configuration in between. `EnrolmentSound`: only
agents that proved their certificates are in the file and the pool
(`OnlyProven`); a verification succeeds or fails as a whole
(`VerifyAllOrNothing`).

`AgentTunnel`: one TLS or DTLS tunnel from header to end, with records lost and
overtaking over DTLS, probes, and headers that do not fit their fields.
`TunnelSound`: the agent dials what was asked for and nothing for a probe or a
payload taken for a header (`DialsWhatWasAsked`), relays each payload at most
once and over TCP in order (`RelaysOnce`), and the destination ends with the
tunnel (`DestinationEnds`).

### Proxmox (`internal/proxmox`, `internal/idlewatcher/provider/proxmox.go`)

Two clusters with the same ids, the node pool they share, the update of a
table, actions with the wait for their effect, and the polled watch.
`ProxmoxSound`: tables name their own containers, all or none (`TablesOwn`);
events alternate (`WatchTells`); done means done (`DoneIsDone`).

### Metrics (`internal/metrics`)

Rings per period, the poller, saves that truncate first, crashes in them,
loads. `MetricsSound`: a ring gives back the newest samples in order, after a
load too (`NewestInOrder`); intervals are those of the period
(`IntervalsRight`); a complete file is what a ring held (`FileSound`);
aggregates add up and pages lie within the list (`AggregatesRight`).

### AccessLog, LogRotate, AccessFilter (`internal/logging/accesslog`)

`AccessLog`: loggers that share the file of a path, with the reference count of
the handle, buffers, rotation and close. `AccessSound`: the count is right
(`AccessHandlesCounted`), every line is in the file, in a buffer or rotated
away (`AccessNothingLost`), in order (`AccessInOrder`). `AccessFileCloses`: the
file is closed in the end. In the one race the code has, a handle on its way
out is handed to a new logger; `alRaced` records it and the invariants except
it.

`LogRotate`: the retention policy, the backward scanner with its chunks, the
choice of lines and their move to the front. `RotateSound`: what is left is the
valid lines from one on, whole and in order: of "last N" at least N, and at
most one more per invalid line; of days back to the last one before the cutoff
(`RotateKeepsSuffix`). A move overwrites nothing that is still to move
(`MovesForward`).

`AccessFilter`: filters, field modes with their shortcuts, formats.
`LinesSound`: a client's value appears only where the mode of its key is keep,
in any list of cookies (`FieldsRespected`); negative filters are complements (`FiltersComplement`).

### Streams (`internal/route/stream`)

The UDP table filled by a goroutine per packet, emptied by the cleaner and by
`Close`, with the goroutine that reads answers; TCP connections with theirs.
`StreamsSound`: one open connection per client, found by its packets
(`OneConnPerClient`); every socket has a goroutine that will close it
(`SocketsOwned`). `StreamsDrain`: closed connections leave the table, and a
cancelled route lets go of all.

### Autocert (`internal/autocert`)

Loading or obtaining at start-up, the scheduler of each certificate, forced
renewals, the SNI matcher, crashes between the writes. `AutocertSound`: a name
some loaded certificate covers gets one that covers it (`ServesCovering`); no
request within the cool-down after a failure or a crash (`CooldownHolds`); what is
served is what is stored (`ServedIsStored`). `RenewalAnswered`: who asked for a
renewal and waits is answered.

### AccessControl (`internal/acl`, `internal/maxmind`)

Checks with their cache, listeners, the goroutine that summarises refusals;
the database with download, exchange under the lock, and crashes. `AclSound`:
deny wins (`DenyWins`); every refusal is counted once, for its address and in
the totals (`RefusalsCounted`); no lookup in a closed reader (`LookupsOnOpen`);
a broken download never replaces the database (`DatabaseSound`).

### Entrypoint (`internal/entrypoint`)

Lookup by host with and without match domains, and the two maps of short links
that starting and ending routes change concurrently. `EntrypointSound`: no link
outlives its route (`LinksLead`), a route has its link (`RoutesLinked`), a host
that is an alias is served (`HostsServed`).

### Middleware (`internal/net/gphttp/middleware`)

The chain in the order of priorities, bypass, the request and response parts of
each middleware, composed files. `MiddlewareSound`: every gate passes or is
bypassed before the upstream is asked (`GatesAgree`); a client's address is its
own unless a trusted peer says otherwise (`AddressHonest`); one answer
(`AnsweredOnce`); headers describe the body (`BodyDescribed`); two passes
resolve what files use of each other (`ComposeResolved`).

### AuthSessions (`internal/auth`, `internal/jsonstore`)

OIDC login and callback, refresh by several tabs at once, logout, restart and
crash; the provider is external. `AuthSound`: a refresh token is presented once
(`RefreshOnce`); a browser has only sessions of a login it began
(`StateBound`); a session that was logged out stays out (`LogoutEnds`); the cookie that is
left can be refreshed (`CookieUsable`).

### Rules and RuleSyntax (`internal/route/rules`)

`Rules`: rules split by phase around one upstream call, with checks and
commands of every kind. `RulesSound`: one party answers (`OneAnswer`), a gate
keeps the request from the upstream (`GatesHold`), response rules run last
(`ResponseRulesLast`).

`RuleSyntax`: every text over the alphabet the scanners tell apart.
`SyntaxSound`: the two scanners agree on quotes and brackets
(`ScannersAgree`), cut parts are balanced (`PartsBalanced`), quoted arguments
stay whole (`QuotesKeep`), templates expand without loss (`ExpandsAll`).

## 3. Runs

| Run | Instance | Result |
| --- | --- | --- |
| `idle_safety` | two requests, every stop method, failing calls, one foreign action on the container, one reload | pass |
| `idle_liveness` | one request of every kind, every check result, one outage, fair scheduling | pass |
| `idle_waiters` | two requests, healthy container | `ReadyReleasesWaiters` is violated: one buffered notification for many waiters |
| `lb_requests` | three servers, two requests, round robin and least_conn, sticky requests | pass |
| `lb_iphash` | ip_hash | `RemovedNotChosen` is violated: `slices.Delete(pool, i, 1)` |
| `services` | `HealthMonitor` with thresholds -1 (immediate), 1, 3, 5, 6; `DockerClients` with three users, one host, two clients; `NotifDispatcher` with two messages, two providers, one or two retries | pass |
| `docker_clients` | `DockerClients` as above | `CopiedStaysOpen` is violated: `Clients` takes its references after releasing the lock, and the cleaner comes in between |
| `lifecycles` | what must end, under fairness: `ConfigReload` with two callers and two reloads, `RouteProvider` with one alias, `AccessLog` with two loggers and three lines, `Streams` with one client of each kind, `Autocert` with two certificates and six server names | pass |
| `config_servers` | `ConfigReload`, two callers, three generations | `ProxyServersUp` is violated: an error of one provider skips `StartProxyServers` |
| `config_notify` | as above | `NotificationsDelivered` is violated: the old dispatcher resets the global after the new one was set |
| `routes` | `RouteProvider` with two aliases, every kind of definition, failing loads and starts, two changes, one outage; `EnvReader`, `DockerLabels`, `RouteValidate`, `RouteLinks`, `AgentEnroll`, `AgentTunnel`, `Proxmox`, `Metrics`, `LogRotate` | pass |
| `requests` | `AccessControl`, `AccessFilter`, `Entrypoint`, `Middleware`, `AuthSessions`, `Rules`, `RuleSyntax` | pass |

`MCServices`, `MCLifecycles`, `MCRoutes` and `MCRequests` put together modules
that share no state. Their steps commute, so that nothing is gained from
interleaving them: a behaviour lets one of them move (`part`) while the others
stay in an initial state. In `MCLifecycles` the fairness assumed is that of
the part that moves: a part that stands still would otherwise contradict its
own fairness and the properties would hold for want of behaviours.

A module with several invariants states them one by one, with a comment each, and
one conjunction of them is what a run checks (`TableSound`, `AuthSound`, ...).

Bounds. Two requests are enough to share a singleflight call, to compete for a
notification and for the least loaded server; three servers make the remainder
of the weights and the index of a removal matter. One outage, one reload and
one foreign action each can fall between any two steps of the others; two
changes of a container let one fall into the handling of the other. Thresholds
of the monitor lie below, at and above the limit of five errors. Three
users of a docker client are one who holds it, one who gives it back and one
who copies the map; time is long enough for a client to be reused and to time
out again. Three generations let a reload follow one that failed.

Texts of `EnvReader` have up to five pieces over chunks of six and reads of two
and nine characters, so that every piece is cut at every place; those of
`RuleSyntax` have five characters of thirteen, enough to open, nest and close a
quote and a bracket. `DockerLabels` has up to four labels of ten, so that
each rule (name, number, wildcard, YAML, nested) meets each other, with a value
of its own each. `AccessFilter` has up to three cookies, so that a key may
occur twice.
`RouteValidate` enumerates the records. `RouteLinks` has three routes of one
link, so that the creator may leave while two remain, and two that compete for an
alias. `AgentEnroll` has two requests, two keys and one reload; `AgentTunnel`
host names below, at and above the width of their field, and three payloads to
overtake each other. `Proxmox` has an id in both clusters and one failing
request. `Metrics` has rings of two slots, which wrap, and one restart.
`LogRotate` has files of three lines over chunks of two bytes, so that lines
straddle chunks. `AccessLog` has one logger more than one and buffers that
fill; `Streams` makes a second connection for a client whose first was closed;
`Autocert` has time to fail, cool down and succeed. `AccessControl` has two
versions of a database that disagree about an address, and one check at a time
beside the updater and the summaries: checks share only the caches, and an
entry is written in one step (the proof has any number of them). `Entrypoint` has three
aliases with one first label and four starts. `AuthSessions` has two tabs that
refresh at once, two browsers and one restart; `Rules` up to three rules of
twelve. What is proved (section 5) holds without these bounds.

`CHECK_DEADLOCK FALSE` is given where the model's environment is bounded and
may run out of moves (no more containers changing, no more reloads), never to
hide a stuck handler: liveness properties cover those.

Symmetry is used where the elements differ in nothing but identity (requests;
aliases of `RouteProvider`; servers without weights, clients with one hash) and
only in runs without liveness properties.

## 4. Fairness

- `Idlewatcher`: weak fairness of the goroutine's steps and strong fairness of
  handling an event and of the health ticker's case: Go's `select` picks among ready cases at random, so an
  event is not passed over for ever by tickers. Weak fairness of docker's own
  steps (a container told to stop exits, a call returns), of the passing of
  the wake timeout, of the second half of a reload and of each request's
  steps. None of outages, foreign actions, or clients giving up.
- `NotifDispatcher`: weak fairness of the loop, of each goroutine and of each
  caller of `Notify`; strong fairness of receiving and of retrying, which
  compete in a `select`. None of success, and none of the end.
- `ConfigReload`: weak fairness of a caller inside `Reload` and of background
  goroutines. None of new reloads.
- `RouteProvider`: weak fairness of the stream, of the handler and of the
  ending of routes; strong fairness of flush and exit of the queue, which
  compete in a `select` with arriving events.
- `AccessLog`: weak fairness of the second half of a rotation, of the end of a
  cancelled logger and of the goroutine that closes a handle. None of lines,
  rotations or cancellation.
- `Streams`: weak fairness of goroutines that do not wait for the network, of
  the cleaner's ticker and of the expiry of a closed connection; a read ends on
  a closed connection and, within `udpReadTimeout`, on a cancelled route; a
  pipe ends with its context. None of packets and answers.
- `Autocert`: weak fairness of each scheduler's step (a request to the ACME
  server ends, well or badly) and of the goroutine of a forced renewal. None of
  time.

## 5. Proofs

Every invariant and every action property that a passing run checks is stated
by a theorem; liveness is left to TLC. Seven modules hold the theorems, each
for components that share no state, and one the lemmas they have in common:

- `IdlewatcherProofs`;
- `ServicesProofs`: `HealthMonitor`, `DockerClients`, `NotifDispatcher`,
  `Metrics`;
- `LifecycleProofs`: `ConfigReload`, `Streams`, `AccessLog`, `LogRotate`,
  `Autocert`;
- `RoutesProofs`: `RouteProvider`, `RouteLinks`, `RouteValidate`,
  `AgentEnroll`, `AgentTunnel`, `Proxmox`;
- `RequestsProofs`: `AuthSessions`, `Entrypoint`, `AccessControl`, `Rules`;
- `UpstreamProofs`: `LoadBalancer`, `Middleware`;
- `TextProofs`: `RuleSyntax`, `AccessFilter`, `EnvReader`, `DockerLabels`;
- `DataInduction`: induction over numbers, finite sets, sequences and folds,
  in a form the provers can use. A theorem with a predicate for a parameter is
  beyond them, so a predicate is given as the set of values that have it: a set
  of naturals that has 0 and with each number the next one has all (since
  naturals are well-founded, a set of them has a least element), and likewise
  for finite sets, built one element at a time, and for what a fold computes.

Each theorem is about the specification of its component alone.

| What a run checks | Theorem | Inductive invariant |
| --- | --- | --- |
| `WatcherSound`, `IdleStopAfterQuiet` | `WatcherCorrect`, `SleepsOnlyUnused` | `WatcherTracks`, `TickerInvariant` |
| `OutagesNotified`, `RecoveryNotified` | `OutagesCorrect`, `RecoveryIsNotified` | `MonitorInvariant` |
| `GenerationsSound` | `GenerationsCorrect` | `ReloadInvariant` |
| `ClientsSound`, `ClosedAfterTTL` | `ClientsCorrect`, `CleanerWaitsTTL` | `Invariance`, `StampsInv` |
| `NotificationsKept`, `ImplementsMailbox` | `NothingIsForgotten`, `DispatcherIsMailbox` | `DispatcherInvariant` |
| `StreamsSound` | `StreamsKeepTheirSockets` | `StreamsInvariant` |
| `AccessSound` | `AccessLogsKeepTheirLines` | `AccessInvariant` |
| `AutocertSound` | `CertificatesAreSound` | `AutocertInvariant` |
| `TableSound`, `Converged` | `TableTellsWhatRuns`, `ProviderConverges` | `ProviderInvariant` |
| `RegistryFollows` | `RegistryFollowsRoutes` | `LinksInvariant` |
| `EnrolmentSound` | `EnrollingIsSound` | `EnrollInvariant` |
| `TunnelSound` | `TunnelRelaysSoundly` | `TunnelInvariant` |
| `ProxmoxSound` | `ProxmoxIsSound` | `ProxmoxInvariant` |
| `AuthSound` | `SessionsAreSound` | `AuthInvariant` |
| `EntrypointSound` | `EntrypointIsSound` | `EpInvariant` |
| `AclSound` | `AccessIsControlled` | `AclInvariant` |
| `BalancerSound` | `BalancerIsSound` | `CountInv`, `MirrorInv` |
| `PicksRight` | `PicksAreRight` | `PickInv` |
| `MiddlewareSound` | `MiddlewaresAreSound` | `MwInv` |
| `RulesSound` | `RulesAreSound` | `RulesInv` |
| `ValidRouteConsistent` | `ValidatedRoutesConsistent` | `ValidateInv` |
| `MetricsSound` | `MetricsAreSound` | `MetricsInv` |
| `RotateSound` | `RotationIsSound` | `LrOk` |
| `SyntaxSound` | `RuleSyntaxIsSound` | by induction over the text |
| `LinesSound` | `LinesAreSound` | by induction over the cookies |
| `EnvReaderSound` | `EnvReaderIsSound` | `ErInv` |
| `LabelsSound` | `LabelsAreSound` | `LabelsInv` |

Why the invariants are what they are:

- *HealthMonitor.* `DownNotifiedOnceWhenDue` is not inductive: nothing in it
  says that the counter `fails` counts the same failures as the outage. With
  `CountersAgree` and `TypeOK` it is (`MonitorInvariant`), by cases over
  came-up, stayed-up and the two forms of down. `NotifiedOnce`,
  `GivesUpInformed` and `RecoveryIsNotified` follow, for every threshold and
  every limit.
- *Idlewatcher.* `TypeCorrect`; `SingleFlight` (the equivalence of leader and
  position is inductive by itself); `SleepsOnlyUnused` from `TickerInvariant`
  (the ticker is never ahead of the time since the last use, while the loop
  selects); `WatcherTracks` from a per-event invariant: the status the pending
  events lead to is the container's, so that with none pending the stored one
  is. For any number of requests, outages, reloads and foreign actions.
- *ConfigReload.* `ReloadInvariant` proves `IInv`: only the holder of the lock
  is inside `Reload` (`Exclusive`); what is alive at each of its steps
  (`During`) and between reloads (`Between`); who owns routes and servers
  (`OnlyOwned`); that the active state is up (`ActiveUp`). `NoOverlap`,
  `ActiveAfterReload` and `NothingLeftBehind` follow, for any number of
  callers and reloads.
- *DockerClients.* `Invariance` proves `ClientsInv`. Counts are exact only for
  open clients; a closed one may keep more (`Counted`), and to show that no
  decrement goes below zero one needs that it is never less. That a held
  client is open needs that clients of the map are open and belong to one
  host (`MapOpen`), that a unique client has one user (`UniqueAlone`), that
  identities are fresh (`FreshUnused`), and that between the cleaner's look at
  the count and its close nobody gets the client from `NewClient`
  (`Unclaimed`). `RefsExact`, `HeldOpen` and `ClientsTypeCorrect` follow, for
  any number of users, hosts and clients. The action property
  `CleanerWaitsTTL` needs two facts about time on top (`StampsInv`): `closedOn`
  is the time of the last release unless somebody has the client who will
  store a new one (`StampsAgree`), and from the cleaner's look at the count
  until its close nobody has the client unless `Clients` raced (`LongUnused`).
- *NotifDispatcher.* A message is in the channel at most once, and only before
  it is dispatched (`MessageOnce`); its items are fresh until then
  (`FreshBefore`); an item is with one goroutine or in the retry queue, not in
  both (`Exclusive`); it was tried once more than it was retried (`Tried`); what
  was sent is in the channel, on its way or settled (`Accounted`). Under this
  invariant each action is a step of `Mailbox` or a stutter, which is the
  refinement.
- *Streams.* A connection in the table is found under its own client
  (`ConnsKeyed`), what the cleaner is about to delete is still what the table
  holds, and is closed (`CleanerSound`), and an open socket is in the hands of a
  goroutine that has not yet come to its close (`OpenHandled`, `TcpSockets`).
- *AccessLog.* The handle of the map is the only one that is not on its way out,
  and a logger has one from its creation on (`HandleLife`); unless the race
  occurred, the shared handle is at the end of the file, so that a write
  appends, and every line is in one place and older than those behind it
  (`FileSound`). Lines are
  positions in sequences: that a rotation and a write keep them, and their
  order, are lemmas about `SubSeq` and concatenation.
- *Autocert.* The files hold what is served, except between the two writes
  (`HasCert`); the time of a request that did not end well is on disk, also
  after a crash, and who is about to request has waited since then
  (`Cooled`); while serving, all
  providers have a certificate and are in the matcher, unless the main one is
  filling it (`Serving`).
- *RouteProvider.* What runs for an alias is what the table holds (`InTable`), and
  the other way round but for the routes `Start` has not come to (`TableRuns`);
  what the handler is about to start does not run, and what it is about to
  finish is all that runs (`Phase`); an alias with no event lost or on its way
  is as it should be or still to be handled in this batch (`Reconciling`).
- *RouteLinks.* A key of the registry is held by a route between the end of
  its start and the callback that removes the entry (`PoolHeld`, `ShortHeld`);
  each balancer was made by one route of its link (`BalancerLife`) and its
  servers are its routes that are up (`ServersUp`); a link names the balancer
  until its creator has ended (`LinkNamed`), and a route that shares its alias
  with none is found under it (`AloneFound`).
- *AgentEnroll, AgentTunnel.* The agent of a request is in the pool from `Add` on
  (`OwnerPooled`) and a certificate in the file is that of a request that
  succeeded (`FileProven`); requests that no reload has met see only each
  other, and the one whose provider is stored is the one whose agent is in the
  pool (`AloneOnes`). Under way is what this client has sent (`WireSound`),
  each payload is under way or relayed, once (`PayloadsOnce`), and over TCP
  what is under way continues what was relayed (`TcpOrder`).
- *Proxmox.* The rows of an update that were asked for so far are the
  cluster's own and the others are still to be asked for (`Polled`); a client in use
  finds its own node in the pool (`NodePooled`). The last is false when two
  clusters have a node of the same name (section 6), hence the hypothesis
  `NodesNamedApart` of the theorem.
- *AuthSessions.* That sessions belong to the browser that began the login is
  stated with a function from sessions to browsers that is never stored
  anywhere (`SomeOwner`); requests of a browser whose token expired all have the
  cookie's session, and what it is refreshed to is not refreshed in turn while
  they wait (`SameSession`, `Newest`); until a restart a token was
  presented only if its session is being refreshed or has been
  (`PresentedOnce`).
- *Entrypoint.* A route that has added its link and not yet removed it is in
  its map (`FqdnHeld`, `PlainHeld`), and an entry for a qualified name is the
  name itself or its first label, until the route it leads to releases it
  (`FqdnEntries`).
- *AccessControl.* No version of the database is newer than the published one
  and the one that was downloaded moves from the temporary file to the file to
  the reader (`VersionsKnown`); nobody looks up while the reader is exchanged
  (`LookupsLocked`); every decision that is cached or under way is right for a
  version that was there (`CacheJudged`, `ChecksJudged`); a write asks again
  only once the refusal is cached (`RefusedCached`). Refusals are counted
  with the cardinality of what is on its way to the counters, for any number
  of checks at once.
- *LoadBalancer.* A server is added once; before the callback of its addition
  nobody has counted it, and after its removal its counter never comes back
  (`CountersKnown`), which makes the counter the number of requests on their
  way (`CountersExact`). Between a change of the pool and the callback of the
  algorithm the algorithm lacks, or still has, just that one server (`Known`).
  Weights play no part.
- *Middleware.* Of the chain, what the gates passed so far have checked
  (`GateOK`); of the request, whose address, port and path it has by now
  (`RequestOK`); of the answer, who gave it and what its headers say of its
  body (`AnswerOK`).
- *Rules.* The trace of a request names rules, upstream and answers in the order
  in which the closure runs them (`TraceOK`); what the flags say is what the
  trace tells, in the request part, in the response part and once turned
  away (`RequestPart`, `ResponsePart`, `TurnedAway`).
- *RouteValidate.* What each stage has settled: the port with its host
  (`PortFits`), the facts the checks relied on (`ChecksHold`), and that they are
  still those of the route that is built (`RouteBuilt`).
- *Metrics.* A ring in closed form: slot i holds the sample that was added last
  at an index equal to i modulo its size (`Holds`), times ascend, and a file
  that was written to its end holds a ring that was (`FileHolds`).
- *LogRotate.* Where each line begins (`Layout`), which block the scanner is in
  and what it has given back (`ScanAt`), what was chosen and, of the blocks
  still to be moved, that they are where they were (`LrChosen`, `LrMoving`).
- *RuleSyntax.* No steps but an arbitrary text: each scanner is a fold, and
  what holds of its state holds after one more character. That the two agree
  is the equality of the parts of their states that quotes, brackets and
  escapes make up.
- *EnvReader.* What was delivered and what is buffered restore to a prefix of
  the text (`Restored`); of a text of at most two chunks no reference lies across
  the place the reader has come to (`Cut`), so that the substitutions on
  either side make up the one of the whole.
- *DockerLabels.* After each pass, for the alias in place k: labels of its name
  that are not left to convert have become labels of its number (`Converting`),
  then what a wildcard gives replaces what the number has (`RefsExpanded`). The
  nested map below a name is the tree of the labels that are done and of the
  parts of the one under way (`TreeOK`), because with `Clear` no path is a prefix of
  another (`ClearIsPrefixFree`); a route has the entries below the names of its
  alias that are not left (`RoutesOK`).

Every inductive invariant was checked by TLC on an instance before it was
proved. The proofs rest on the assumptions on the constants of the modules and
on nothing else:

- sizes and limits are naturals, sets of processes are finite, values that
  stand for "none" are not values of the set, a buffer holds a line
  (`NotifAssumption`, `StreamsAssumption`, `AccessAssumption`,
  `EnrollAssumption`, `ProviderAssumption`, `ClientsAssumption`, ...);
- `LinksAssumption`: a link is not the alias of a route that is not load
  balanced. Where it is, the two overwrite each other's entry, as two routes of
  one alias do;
- `EpAssumption`: an alias is a nonempty sequence of labels. A route without
  one is not started (`route/provider/docker.go:139`, `route/route.go:136`);
- `AutocertAssumption`: renewal is due before expiry, the cool-down of requests is
  not longer than that of renewals (constants of the code), names are not
  empty and a client sends no wildcard;
- `ProxmoxAssumption`: the watched container is one of a cluster, and each has
  an address;
- `AclAssumption`: no address is taken for the absence of a country, and
  loopback is an address;
- `SpecsAssumption` (`RouteValidate`): aliases and names are not empty, schemes
  are the known ones; `RulesAssumption`: commands are the known ones;
  `MiddlewareAssumption`: chains and files are finite; `MetricsAssumption`: a
  ring has a slot; `LogRotateAssumption`: lines that were written are not empty;
- `EnvReaderAssumption`: a reference fits into what the reader peeks at;
- `DockerLabelsAssumption`: labels have a path, aliases of a container are
  different and neither a wildcard nor a reference, and there are as many
  references as aliases and labels can use up (the code has 100 and panics
  with more).

Two theorems about the load balancer have hypotheses besides: `NoIpHash`, since
run `lb_iphash` shows that ip_hash does not keep what they state, and
`DistinctKeys`, since a server is removed by its key, whoever has it.

Only model-checked: liveness (`StartResolves`, `ReadyReleasesWaiters`,
`EveryoneInformed`, `ReloadEnds`, `CancelEndsRoutes`, `AccessFileCloses`,
`StreamsDrain`, `RenewalAnswered`), since fairness and `ENABLED` are beyond the
prover; and the properties that five runs show to be violated.

## 6. Deviations

Five are kept as runs (section 3). The following were seen while modelling and are
visible in the models, but have no run. Where a property excepts one of them its
comment says so.

- *Idlewatcher.* A notification left in `readyNotifyCh` lets a request of a
  later start through early (`WaitNotified`); a reload stores "running, not
  ready" without restarting the health ticker (`ReloadStore`); a container in
  the error state is not woken although the documentation says it is retried
  (`WakeIfStopped`); a start requested between `kill` and the exit of a
  container has no effect (`WakeCall`).
- *LoadBalancer.* The sum of weights drifts from 100 after an even distribution
  (`distributeEvenly`); a server is removed by its key, whoever has it now.
- *HealthMonitor.* The status turns unhealthy with the first failure, `Retries`
  only delays the notification (`checkUpdateHealth`).
- *ConfigReload, RouteProvider.* A failed reload keeps the agents of the failed
  configuration (`InitRouteProviders`); a container replaced during an outage
  keeps its old route after the force reload (`matchAny`); an excluded route
  has no callback that removes it from the table (`startRoute`).
- *NotifDispatcher.* `Notify` may send on the closed channel, or block on a
  full one.
- *RouteLinks.* The route that created a balancer takes the link out of the
  registry when it ends, although other servers remain; `checkExists` never
  finds a duplicate.
- *RouteValidate.* A docker route with the scheme `fileserver` becomes
  excluded; a proxmox node found by lookup has no name; a number that is a
  public port of one mapping and the private one of another is replaced.
- *EnvReader.* A second reference cut by the continued read is not
  substituted; names longer than the limit are not seen when cut.
- *DockerLabels.* Where one label is the prefix of another the outcome depends
  on the order of the map: a YAML label of a whole alias, by name or by number,
  and a wildcard overwrite each other, whichever comes last. A text of several
  lines under `proxy.*.x` is expanded at the root and not below `x`; an alias that
  only labels name, with a wildcard, yields a route named by its number; more
  than 100 aliases panic; the first network is any.
- *AgentEnroll, AgentTunnel.* A failed reload has already emptied the agent
  pool; a provider that exists already stays stored; a failed write of the
  certificates leaves the agent enrolled; a UDP tunnel whose closing alert is
  lost stays open.
- *Proxmox.* Resume and reboot are never recognised as done; nodes of two
  clusters with one name share an entry; one failing container fails the
  update; changes between polls are missed; a suspended container ends the watch.
- *Metrics.* Napping and starting count as idle while the comment says
  downtime; a save truncates first, so that a crash loses the file; a counter that
  was reset gives huge speeds.
- *AccessLog, LogRotate, AccessFilter.* A handle on its way out may be handed
  to a new logger; IPv6 lines of the common format do not parse and are
  dropped; "last N" keeps one more per invalid line; rotation by size keeps
  the oldest bytes; the host filter is never consulted.
- *Streams.* An accepted TCP connection leaks when `onRead` refuses it; a UDP
  connection closed by its read timeout stays in the table until the cleanup;
  packets that wait during `Close` may create connections after the table was
  cleared (they end with the context).
- *Autocert.* The timer is not reset after a failed renewal; a waiter may be
  released by another renewal; a crash between the writes of key and
  certificate leaves a pair that does not match; during a rebuild of the matcher
  a client gets the main certificate; without a main one nobody gets any.
- *AccessControl.* A UDP packet to a refused address is sent before it is
  refused; country rules do not apply without a database; the reader is closed
  without the lock at the end; a database downloaded at start-up is never
  updated; decisions by city are cached for good.
- *Entrypoint.* The first label of a host wins over an alias that is the whole
  host; a short key is not handed over when its owner ends.
- *Middleware.* The default priority is 0; Cloudflare's ranges reach the
  instance that fetched them; after a failed initialisation the OIDC
  middleware counts as initialised; its logout goes on to the upstream; an
  error page keeps `Content-Encoding`; a prefix added to the path may change
  what is bypassed on the way back.
- *AuthSessions.* A crash brings back sessions that were logged out; a restart within
  the grace period presents a token again; an error of a refresh is remembered
  for the life of the session; a logout during a refresh may leave a session.
- *Rules, RuleSyntax.* A default rule that does not terminate always runs
  first; commands before a final `bypass` are skipped; `log` after
  `require_auth` makes it a response rule; `&` is cut inside quotes, and
  brackets in quotes must balance; `$$x` is expanded.

## 7. Not modelled

Inside modelled parts: dependencies between idlewatchers and server-sent
events; waking of idle servers by the load balancer; `checkExists` across
providers; the file provider and the directory watcher; the individual health
checks; `Middleware.ServeHTTP` (chains outside a reverse proxy); password
login; regular expressions and globs, which match by equality here; the
configuration of ACME clients; the alternative prefix `$` of references to
aliases; consoles and statistics of proxmox; the layout
of log lines and messages; goutils' `task` package, taken as its use in the
source requires. The nil destination that `Close` of a UDP connection leaves
to a goroutine between its check and its read is not in `Streams`, where both
are one step.

Whole parts: the conversion by reflection (`serialization`, apart from its
reader) works on Go types that a model cannot have; `homepage` is
presentation; the API's handlers are thin wrappers of operations modelled with
their component; the memory logger and the programs are wiring and a buffer.

## 8. Plan

1. Idlewatcher dependencies, and an abstract waker that `Idlewatcher`
   implements; an abstract route table that `RouteProvider` implements.
2. `Streams` with the read of a connection in two steps.
3. The directory watcher with the file provider; the memory logger with its
   listeners.
