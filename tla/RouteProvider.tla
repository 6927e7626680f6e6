--------------------------- MODULE RouteProvider ---------------------------
(***************************************************************************)
(* internal/route/provider with internal/watcher and its event queue: one  *)
(* docker (or agent) provider.  It loads the routes of the containers,     *)
(* starts them, and from then on reconciles the routes it has with those   *)
(* it loads anew whenever the queue flushes a batch of events.             *)
(*                                                                         *)
(* A route is an alias and a definition (what the labels and the state of  *)
(* the container amount to).  world is what docker lists; a change of it   *)
(* is announced by an event only while the event stream is open.  Of a     *)
(* batch only the set of its events matters, so that the channel and the   *)
(* queue are sets.  Abstracted: names of containers (an alias stands for   *)
(* its container), logging, and what a definition contains.                *)
(***************************************************************************)
EXTENDS Naturals, FiniteSets

CONSTANTS
  Aliases,
  Defs,           \* definitions a route may have
  ExcludedDefs,   \* those for which ShouldExclude holds
  InvalidDefs,    \* those Validate refuses
  NoDef,
  LoadFailsWhen,  \* states of the event stream in which a load may fail
  StartsFail,     \* whether starting a route may fail
  MaxChanges,     \* bound: changes of the world
  MaxOutages      \* bound: failures of the event stream

ASSUME ProviderAssumption ==
  /\ NoDef \notin Defs /\ NoDef \notin Aliases /\ "reload" \notin Aliases
  /\ ExcludedDefs \subseteq Defs /\ InvalidDefs \subseteq Defs
  /\ StartsFail \in BOOLEAN
  /\ MaxChanges \in Nat /\ MaxOutages \in Nat

VARIABLES
  world,     \* what docker would list
  link,      \* the event stream
  pend,      \* events on their way to the queue
  queue,     \* EventQueue.queue
  task,      \* the provider's task
  routes,    \* p.routes
  running,   \* routes in the registry: the pools of internal/route/routes
  failed,    \* aliases whose last start failed
  h,         \* the handler: "start" (Provider.Start), "idle", "old", "new", "exited"
  batch, hOld, hNew,  \* its locals: events, oldRoutes, newRoutes
  todo, cur, \* aliases still to handle; the one whose new route starts now
  lost,      \* aliases whose last change was lost in an outage or given up
  unseen,    \* aliases that changed before the stream was opened
  changes, outages

envVars  == <<world, link, lost, unseen, changes, outages>>
handVars == <<h, batch, hOld, hNew, todo, cur>>
routeVars == <<routes, running, failed>>
rpVars == <<envVars, pend, queue, task, routeVars, handVars>>

Events == Aliases \cup {"reload"}
Table  == [Aliases -> Defs \cup {NoDef}]

ProviderTypeOK ==
  /\ world \in Table /\ link \in {"closed", "up", "down", "reopening"}
  /\ pend \subseteq Events /\ queue \subseteq Events /\ batch \subseteq Events
  /\ task \in {"up", "cancelled"}
  /\ routes \in Table /\ running \subseteq Aliases \X Defs
  /\ failed \subseteq Aliases /\ lost \subseteq Aliases /\ unseen \subseteq Aliases
  /\ h \in {"start", "idle", "old", "new", "exited"}
  /\ hOld \in Table /\ hNew \in Table
  /\ todo \subseteq Aliases /\ cur \in Aliases \cup {NoDef}
  /\ changes \in 0..MaxChanges /\ outages \in 0..MaxOutages

-----------------------------------------------------------------------------
(* Docker and its event stream (external), and EventsWithOptions.          *)

(* A container is created, removed, or replaced by one with other labels.  *)
WorldChanges(a, d) ==
  /\ changes < MaxChanges /\ changes' = changes + 1
  /\ world[a] # d /\ world' = [world EXCEPT ![a] = d]
  /\ CASE link = "up"   -> /\ pend' = pend \cup {a}
                           /\ lost' = lost \ {a} /\ unseen' = unseen \ {a}
       [] link = "down" -> lost' = lost \cup {a} /\ UNCHANGED <<pend, unseen>>
       [] OTHER         -> unseen' = unseen \cup {a} /\ UNCHANGED <<pend, lost>>
  /\ UNCHANGED <<link, outages, queue, task, routeVars, handVars>>

(* The goroutine opens the stream, at first and after an outage.           *)
StreamOpens ==
  /\ link \in {"closed", "reopening"} /\ h # "start" /\ link' = "up"
  /\ UNCHANGED <<world, lost, unseen, changes, outages, pend, queue, task, routeVars, handVars>>

(* The stream fails: what was not delivered may be lost, and a reload is   *)
(* triggered "(clear routes)".                                             *)
StreamFails ==
  /\ link = "up" /\ outages < MaxOutages /\ outages' = outages + 1
  /\ link' = "down"
  /\ \E L \in SUBSET (pend \ {"reload"}) :
       lost' = lost \cup L /\ pend' = (pend \ L) \cup {"reload"}
  /\ UNCHANGED <<world, unseen, changes, queue, task, routeVars, handVars>>

(* checkConnection succeeds: another reload, "(reload routes)".            *)
StreamReconnects ==
  /\ link = "down" /\ "reload" \notin pend  \* eventCh is unbuffered
  /\ link' = "reopening" /\ pend' = pend \cup {"reload"}
  /\ UNCHANGED <<world, lost, unseen, changes, outages, queue, task, routeVars, handVars>>

-----------------------------------------------------------------------------
(* The event queue.                                                        *)

QueueReceive(e) ==
  /\ h = "idle" /\ e \in pend
  /\ pend' = pend \ {e} /\ queue' = queue \cup {e}
  /\ UNCHANGED <<envVars, task, routeVars, handVars>>

(* The task is done: what is in the queue is discarded.                    *)
QueueExit ==
  /\ h = "idle" /\ task = "cancelled" /\ h' = "exited" /\ queue' = {}
  /\ UNCHANGED <<envVars, pend, task, routeVars, batch, hOld, hNew, todo, cur>>

-----------------------------------------------------------------------------
(* Starting and finishing one route.                                       *)

finishRoute(R, a, d) ==   \* FinishAndWait of the route, in the registry R
  /\ running' = R \ {<<a, d>>}
  /\ routes' = IF <<a, d>> \in R /\ d \notin ExcludedDefs
               THEN [routes EXCEPT ![a] = NoDef] ELSE routes

(* Mutant: an error leaves the route in the provider.                      *)
startRouteMutant(a, d) ==
  \/ /\ running' = running \cup {<<a, d>>} /\ routes' = [routes EXCEPT ![a] = d]
     /\ failed' = failed \ {a}
  \/ /\ StartsFail /\ UNCHANGED <<running, routes>> /\ failed' = failed \cup {a}

startRoute(a, d) ==
  \/ /\ running' = running \cup {<<a, d>>} /\ routes' = [routes EXCEPT ![a] = d]
     /\ failed' = failed \ {a}
  \/ /\ StartsFail /\ UNCHANGED running /\ routes' = [routes EXCEPT ![a] = NoDef]
     /\ failed' = failed \cup {a}

-----------------------------------------------------------------------------
(* Provider.Start: the loaded routes are started, in no particular order,  *)
(* and then the queue is started.                                          *)
ProviderStartRoute(a) ==
  /\ h = "start" /\ a \in todo /\ todo' = todo \ {a}
  /\ startRoute(a, hNew[a])
  /\ UNCHANGED <<envVars, pend, queue, task, h, batch, hOld, hNew, cur>>

noTable == [a \in Aliases |-> NoDef]

ProviderStarted ==
  /\ h = "start" /\ todo = {} /\ h' = "idle" /\ hNew' = noTable
  /\ UNCHANGED <<envVars, pend, queue, task, routeVars, batch, hOld, todo, cur>>

-----------------------------------------------------------------------------
(* EventHandler.Handle.                                                    *)

valid(d) == IF d \in InvalidDefs THEN NoDef ELSE d

(* loadRoutes: invalid routes are dropped with an error.                   *)
loaded == [a \in Aliases |-> valid(world[a])]
loadErr == \E a \in Aliases : world[a] \in InvalidDefs
noRoutes(t) == \A a \in Aliases : t[a] = NoDef

begin(new) ==
  /\ hOld' = routes /\ hNew' = new /\ h' = "old"
  /\ todo' = {a \in Aliases : routes[a] # NoDef}

giveUp ==
  /\ lost' = lost \cup (queue \ {"reload"})
  /\ UNCHANGED <<h, batch, hOld, hNew, todo>>

(* The ticker fires and the queue is not empty: Flush, up to the end of    *)
(* loadRoutes.  An error without any route is the end of it, except for a  *)
(* forced reload, which then removes all routes.                           *)
Flush ==
  /\ h = "idle" /\ queue # {} /\ queue' = {}
  /\ \/ /\ noRoutes(loaded) /\ loadErr /\ "reload" \notin queue /\ giveUp
     \/ /\ ~(noRoutes(loaded) /\ loadErr /\ "reload" \notin queue)
        /\ batch' = queue /\ begin(loaded) /\ UNCHANGED lost
     \/ /\ link \in LoadFailsWhen
        /\ IF "reload" \in queue
           THEN batch' = queue /\ begin(noTable) /\ lost' = Aliases
           ELSE giveUp
  /\ UNCHANGED <<world, link, unseen, changes, outages, pend, task, routeVars, cur>>

matchAny(a) == a \in batch

(* Mutant: a route that is gone is not removed.                            *)
HandleOldMutant2(a) ==
  /\ h = "old" /\ cur = NoDef /\ a \in todo /\ todo' = todo \ {a}
  /\ \/ /\ hNew[a] # NoDef /\ matchAny(a)
        /\ finishRoute(running, a, hOld[a]) /\ cur' = a /\ UNCHANGED failed
     \/ (hNew[a] = NoDef \/ ~matchAny(a)) /\ UNCHANGED <<routeVars, cur>>
  /\ UNCHANGED <<envVars, pend, queue, task, h, batch, hOld, hNew>>

(* One of the old routes: Remove, Update or leave alone.                   *)
HandleOld(a) ==
  /\ h = "old" /\ cur = NoDef /\ a \in todo /\ todo' = todo \ {a}
  /\ \/ /\ hNew[a] = NoDef
        /\ finishRoute(running, a, hOld[a]) /\ failed' = failed \ {a} /\ UNCHANGED cur
     \/ /\ hNew[a] # NoDef /\ matchAny(a)
        /\ finishRoute(running, a, hOld[a]) /\ cur' = a /\ UNCHANGED failed
     \/ hNew[a] # NoDef /\ ~matchAny(a) /\ UNCHANGED <<routeVars, cur>>
  /\ UNCHANGED <<envVars, pend, queue, task, h, batch, hOld, hNew>>

(* The second half of Update.                                              *)
UpdateStart ==
  /\ cur # NoDef /\ startRoute(cur, hNew[cur]) /\ cur' = NoDef
  /\ UNCHANGED <<envVars, pend, queue, task, h, batch, hOld, hNew, todo>>

HandleOldDone ==
  /\ h = "old" /\ cur = NoDef /\ todo = {} /\ h' = "new"
  /\ todo' = {a \in Aliases : hNew[a] # NoDef /\ hOld[a] = NoDef}
  /\ UNCHANGED <<envVars, pend, queue, task, routeVars, batch, hOld, hNew, cur>>

Add(a) ==
  /\ h = "new" /\ a \in todo /\ todo' = todo \ {a} /\ startRoute(a, hNew[a])
  /\ UNCHANGED <<envVars, pend, queue, task, h, batch, hOld, hNew, cur>>

HandleDone ==
  /\ h = "new" /\ todo = {} /\ h' = "idle"
  /\ batch' = {} /\ hOld' = noTable /\ hNew' = noTable  \* locals
  /\ UNCHANGED <<envVars, pend, queue, task, routeVars, todo, cur>>

-----------------------------------------------------------------------------
(* The provider's task is cancelled, and its routes, being subtasks, end.  *)
Cancel ==
  /\ task = "up" /\ h # "start" /\ task' = "cancelled"
  /\ UNCHANGED <<envVars, pend, queue, routeVars, handVars>>

(* Mutant: excluded routes have no callback.                               *)
RouteCancelledMutant(a, d) ==
  /\ task = "cancelled" /\ <<a, d>> \in running /\ d \notin ExcludedDefs
  /\ finishRoute(running, a, d)
  /\ UNCHANGED <<envVars, pend, queue, task, failed, handVars>>

RouteCancelled(a, d) ==
  /\ task = "cancelled" /\ <<a, d>> \in running /\ finishRoute(running, a, d)
  /\ UNCHANGED <<envVars, pend, queue, task, failed, handVars>>

-----------------------------------------------------------------------------
(* After LoadRoutes.                                                       *)
ProviderInit ==
  /\ world \in Table /\ link = "closed" /\ pend = {} /\ queue = {} /\ task = "up"
  /\ routes = [a \in Aliases |-> valid(world[a])] /\ running = {} /\ failed = {}
  /\ h = "start" /\ batch = {} /\ hOld = noTable /\ hNew = routes
  /\ todo = {a \in Aliases : routes[a] # NoDef} /\ cur = NoDef
  /\ lost = {} /\ unseen = {} /\ changes = 0 /\ outages = 0

Environment ==
  \/ \E a \in Aliases, d \in Defs \cup {NoDef} : WorldChanges(a, d)
  \/ StreamFails \/ Cancel

Stream == StreamOpens \/ StreamReconnects

Handler ==
  \/ \E e \in Events : QueueReceive(e)
  \/ QueueExit \/ Flush
  \/ \E a \in Aliases : ProviderStartRoute(a) \/ HandleOld(a) \/ Add(a)
  \/ ProviderStarted \/ UpdateStart \/ HandleOldDone \/ HandleDone

Ending == \E a \in Aliases, d \in Defs : RouteCancelled(a, d)

ProviderNext == Environment \/ Stream \/ Handler \/ Ending

ProviderSpec == ProviderInit /\ [][ProviderNext]_rpVars

(* The goroutines run; the flush ticker is not starved by the channel.     *)
ProviderFairness ==
  /\ WF_rpVars(Stream) /\ WF_rpVars(Handler) /\ SF_rpVars(Flush) /\ WF_rpVars(Ending)
  /\ SF_rpVars(QueueExit)

-----------------------------------------------------------------------------
(* Properties.                                                             *)

served(a, d) == <<a, d>> \in running

(* What runs for an alias is exactly its definition, or nothing when there *)
(* is none or when it failed to start.                                     *)
upToDate(a) ==
  \A d \in Defs : served(a, d) => d = valid(world[a])

complete(a) ==
  valid(world[a]) # NoDef => (served(a, valid(world[a])) \/ a \in failed)

Settled == /\ task = "up" /\ link = "up" /\ h = "idle"
           /\ pend = {} /\ queue = {}

(* Once all events are handled, the routes that run are those of the       *)
(* containers, whatever changed while earlier batches were being handled   *)
(* (events that arrive during Handle are kept for the next flush).  Not    *)
(* covered: changes no event told of, and batches given up.                *)
Converged ==
  Settled => \A a \in Aliases \ (lost \cup unseen) : upToDate(a) /\ complete(a)

(* At no time do two routes of one alias run: Update waits for the old one.*)
OneRoutePerAlias ==
  \A a \in Aliases : Cardinality({d \in Defs : served(a, d)}) <= 1

(* Between batches the provider's table tells which routes run (the API    *)
(* and the next Handle rely on it), excluded ones apart.                   *)
TableMatchesRegistry ==
  (h = "idle" /\ task = "up") =>
    \A a \in Aliases : \A d \in Defs \ ExcludedDefs : routes[a] = d <=> served(a, d)

(* The table of the provider, and what runs.                               *)
TableSound == ProviderTypeOK /\ OneRoutePerAlias /\ TableMatchesRegistry

(* When the provider is cancelled, no route is left running: also when a   *)
(* batch is being handled at that moment.                                  *)
CancelEndsRoutes == task = "cancelled" ~> [](running = {})

=============================================================================
