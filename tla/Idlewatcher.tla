---------------------------- MODULE Idlewatcher ----------------------------
(***************************************************************************)
(* internal/idlewatcher: one Watcher, the goroutine watchUntilDestroy that *)
(* follows the events of its container and puts it to sleep, the requests  *)
(* (HTTP and stream) that wake it, and a reload of the route, which enters *)
(* NewWatcher for a watcher that exists already.                           *)
(*                                                                         *)
(* The container runtime is external: what a call does to the container    *)
(* and which events it emits is modelled from the way the watcher uses it. *)
(* Events travel through the queue evQ; an outage of the event stream      *)
(* (docker_watcher.go) loses events and delivers "reload" instead.         *)
(*                                                                         *)
(* Abstracted: SSE broadcasting, log output, health-check counters, and    *)
(* durations.  Time is quiet (units since the idle ticker was reset) and   *)
(* overdue (WakeTimeout has passed since the container was started).       *)
(***************************************************************************)
EXTENDS Naturals, Sequences

CONSTANTS
  Handlers,      \* concurrent requests (HTTP handlers and stream dials)
  Kinds,         \* kinds of requests that arrive, a subset of AllKinds
  None,          \* no handler
  StopMethods,   \* values cfg.StopMethod may have: "stop", "kill", "pause"
  AutoSleep,     \* FALSE for a dependency (IdleTimeout = neverTick)
  IdleTimeout,   \* cfg.IdleTimeout in units of the model's clock
  CheckResults,  \* what a health check of a running container may answer
  CallsFail,     \* whether calls to the container runtime may fail
  ExtOps,        \* what others may do to the container
  MaxExt,        \* how often they do
  MaxOutages,    \* how often the event stream breaks
  MaxReloads,    \* how often the route is reloaded
  MaxPending     \* bound: the clock waits while so many events are pending

(* html: the client accepts the loading page.  noload: it does, but        *)
(* cfg.NoLoadingPage is set.  plain: it does not.  offpath: the request is *)
(* not for cfg.StartEndpoint.                                              *)
AllKinds == {"html", "noload", "plain", "stream", "offpath"}

AllExtOps == {"start", "stop", "pause", "unpause", "crash", "destroy"}

ASSUME ConstantsAssumption ==
  /\ None \notin Handlers
  /\ Kinds \subseteq AllKinds
  /\ StopMethods \subseteq {"stop", "kill", "pause"}
  /\ AutoSleep \in BOOLEAN
  /\ IdleTimeout \in Nat \ {0}
  /\ CheckResults \subseteq {"healthy", "unhealthy", "error"}
  /\ CallsFail \in BOOLEAN
  /\ ExtOps \subseteq AllExtOps
  /\ MaxExt \in Nat /\ MaxOutages \in Nat /\ MaxReloads \in Nat
  /\ MaxPending \in Nat \ {0}

VARIABLES
  cont,      \* the real container (external)
  evQ,       \* events emitted and not yet received by the watcher
  link,      \* the event stream: "up", "down" or "reopening"
  st,        \* w.state: the watcher's view of the container
  overdue,   \* more than cfg.WakeTimeout since st.startedAt
  token,     \* a notification is buffered in readyNotifyCh
  closed,    \* readyNotifyCh is closed
  idleOn,    \* idleTicker is running
  healthOn,  \* healthTicker is running
  quiet,     \* time since idleTicker was last reset
  sinceUse,  \* time since the container was last used or changed state
  loop,      \* where watchUntilDestroy is
  chk,       \* the state checkUpdateState loaded before CheckHealth
  pc, kind,  \* per request: where it is, and what it is
  leader,    \* the request that runs the singleflight call, or None
  method,    \* cfg.StopMethod
  rl,        \* reload: the status NewWatcher read and will store, or "none"
  stale,     \* the events still to come no longer tell the real status
  ext, outages, reloads  \* how often the environment has acted

contVars  == <<cont, evQ, link, stale>>
timerVars == <<idleOn, healthOn, quiet, sinceUse>>
loopVars  == <<loop, chk>>
readyVars == <<st, overdue, token, closed>>
reqVars   == <<pc, kind, leader>>
cfgVars   == <<rl, method>>
budget    == <<ext, outages, reloads>>
vars == <<contVars, timerVars, loopVars, readyVars, reqVars, cfgVars, budget>>

Containers == {"running", "stopping", "stopped", "paused", "destroyed"}
Actions    == {"start", "unpause", "kill", "die", "stop", "pause",
               "destroy", "reload"}
Statuses   == {"running", "stopped", "paused", "error"}
State      == [status : Statuses, ready : BOOLEAN, started : BOOLEAN]

Terminal == {"pass", "loading", "failed"}
PCs == {"idle", "check", "wake", "flight", "call", "joined", "wait0", "wait"}
         \cup Terminal

TypeOK ==
  /\ cont \in Containers /\ evQ \in Seq(Actions)
  /\ link \in {"up", "down", "reopening"}
  /\ st \in State /\ overdue \in BOOLEAN
  /\ token \in BOOLEAN /\ closed \in BOOLEAN
  /\ idleOn \in BOOLEAN /\ healthOn \in BOOLEAN
  /\ quiet \in 0..IdleTimeout /\ sinceUse \in 0..IdleTimeout
  /\ loop \in {"select", "checking", "idle", "stopping", "exited"}
  /\ chk \in State
  /\ pc \in [Handlers -> PCs] /\ kind \in [Handlers -> AllKinds]
  /\ leader \in Handlers \cup {None}
  /\ rl \in Statuses \cup {"none"} /\ method \in StopMethods
  /\ stale \in BOOLEAN
  /\ ext \in 0..MaxExt /\ outages \in 0..MaxOutages
  /\ reloads \in 0..MaxReloads

-----------------------------------------------------------------------------
(* The watcher's state.                                                    *)

mkState(status, isReady, started) ==
  [status |-> status, ready |-> isReady, started |-> started]

NoState == mkState("stopped", FALSE, FALSE)

running == st.status = "running"
ready   == st.ready

(* Mutant: readyNotifyCh is not written.                                   *)
setReadyMutant ==
  st' = mkState("running", TRUE, FALSE) /\ overdue' = FALSE /\ UNCHANGED token

setReady ==
  /\ st' = mkState("running", TRUE, FALSE) /\ overdue' = FALSE
  /\ token' = TRUE            \* dropped when the channel is full: same state

setStarting ==
  /\ st' = mkState("running", FALSE, TRUE) /\ overdue' = FALSE
  /\ UNCHANGED token

(* Mutant: the status of the event is not stored.                          *)
setNappingMutant(status) ==
  st' = mkState("stopped", FALSE, FALSE) /\ overdue' = FALSE /\ UNCHANGED token

setNapping(status) ==
  /\ st' = mkState(status, FALSE, FALSE) /\ overdue' = FALSE
  /\ UNCHANGED token

setError ==
  /\ st' = mkState("error", FALSE, FALSE) /\ overdue' = FALSE
  /\ UNCHANGED token

(* Mutant: the ticker is not reset.                                        *)
resetIdleTimerMutant == idleOn' = TRUE /\ quiet' = quiet

(* Reset of a Go ticker also discards a tick that was not yet received.    *)
resetIdleTimer == idleOn' = TRUE /\ quiet' = 0

wakeInProgress == st.started

-----------------------------------------------------------------------------
(* The container runtime and its event stream (external).                  *)

(* The status the watcher should hold for a container.                     *)
ContainerStatus(c) == CASE c = "running" -> "running"
                        [] c = "paused" -> "paused"
                        [] c = "destroyed" -> "gone"
                        [] OTHER -> "stopped"

(* What ContainerInspect reports; a stopping container still runs.         *)
InspectStatus == IF cont = "stopping" THEN "running" ELSE ContainerStatus(cont)

(* The container changes to c and the runtime emits evs; the watcher gets  *)
(* them only while its event stream is open.                               *)
Emit(c, evs) ==
  /\ cont' = c
  /\ IF link = "up" THEN evQ' = evQ \o evs /\ stale' = FALSE
                    ELSE evQ' = evQ /\ stale' = TRUE
  /\ UNCHANGED link

ExtStart   == cont = "stopped"  /\ Emit("running", <<"start">>)
ExtStop    == cont = "running"  /\ Emit("stopping", <<"kill">>)
ExtPause   == cont = "running"  /\ Emit("paused", <<"pause">>)
ExtUnpause == cont = "paused"   /\ Emit("running", <<"unpause">>)
ExtCrash   == cont = "running"  /\ Emit("stopped", <<"die">>)
ExtDestroy == cont = "stopped"  /\ Emit("destroyed", <<"destroy">>)

External(op) ==
  /\ ext < MaxExt /\ ext' = ext + 1
  /\ \/ op = "start" /\ ExtStart
     \/ op = "stop" /\ ExtStop
     \/ op = "pause" /\ ExtPause
     \/ op = "unpause" /\ ExtUnpause
     \/ op = "crash" /\ ExtCrash
     \/ op = "destroy" /\ ExtDestroy
  /\ UNCHANGED <<timerVars, loopVars, readyVars, reqVars, cfgVars, outages, reloads>>

(* A container that was told to stop exits.                                *)
ContainerExit ==
  /\ cont = "stopping" /\ Emit("stopped", <<"die", "stop">>)
  /\ UNCHANGED <<timerVars, loopVars, readyVars, reqVars, cfgVars, budget>>

(* The event stream fails: what was not delivered yet may be lost.  The    *)
(* docker watcher reports the error and sends a reload trigger.            *)
StreamFails ==
  /\ link = "up" /\ outages < MaxOutages /\ outages' = outages + 1
  /\ link' = "down"
  /\ \E n \in 0..Len(evQ) :
       /\ evQ' = Append(SubSeq(evQ, 1, n), "reload")
       /\ stale' = (stale \/ n < Len(evQ))
  /\ UNCHANGED <<cont, timerVars, loopVars, readyVars, reqVars, cfgVars, ext, reloads>>

(* checkConnection succeeds: a second trigger, and then the stream is      *)
(* opened again; what happens in between is not seen.                      *)
StreamReconnects ==
  /\ link = "down" /\ link' = "reopening" /\ evQ' = Append(evQ, "reload")
  /\ UNCHANGED <<cont, stale, timerVars, loopVars, readyVars, reqVars, cfgVars, budget>>

StreamReopens ==
  /\ link = "reopening" /\ link' = "up"
  /\ UNCHANGED <<cont, evQ, stale, timerVars, loopVars, readyVars, reqVars, cfgVars, budget>>

-----------------------------------------------------------------------------
(* Time.  IdleTimeout is much longer than the delivery of an event takes,   *)
(* which keeps the number of pending events finite.                        *)

ClockTick ==
  /\ Len(evQ) < MaxPending
  /\ quiet < IdleTimeout \/ sinceUse < IdleTimeout
  /\ quiet' = IF idleOn /\ quiet < IdleTimeout THEN quiet + 1 ELSE quiet
  /\ sinceUse' = IF sinceUse < IdleTimeout THEN sinceUse + 1 ELSE sinceUse
  /\ UNCHANGED <<contVars, idleOn, healthOn, loopVars, readyVars, reqVars, cfgVars, budget>>

WakeTimeoutPasses ==
  /\ st.started /\ ~overdue /\ overdue' = TRUE
  /\ UNCHANGED <<contVars, timerVars, loopVars, st, token, closed, reqVars, cfgVars, budget>>

-----------------------------------------------------------------------------
(* watchUntilDestroy: the goroutine of the watcher.                        *)

(* The epilogue of the goroutine: tickers stopped, setReady, close.        *)
exitLoop ==
  /\ loop' = "exited" /\ setReady /\ closed' = TRUE
  /\ idleOn' = FALSE /\ healthOn' = FALSE
  /\ UNCHANGED <<quiet, sinceUse, chk>>

IsContainerStart(e) == e \in {"start", "unpause"}
IsContainerStop(e)  == e \in {"stop", "kill", "die"}
IsContainerPause(e) == e = "pause"

stopTickers == idleOn' = FALSE /\ healthOn' = FALSE /\ quiet' = 0

handleEvent(e) ==
  \/ e = "destroy" /\ exitLoop
  \/ e = "reload" /\ UNCHANGED <<loopVars, timerVars, readyVars>>
  \/ /\ e \notin {"destroy", "reload"} /\ sinceUse' = 0
     /\ \/ IsContainerStart(e) /\ resetIdleTimer /\ setStarting /\ healthOn' = TRUE
        \/ IsContainerStop(e) /\ stopTickers /\ setNapping("stopped")
        \/ IsContainerPause(e) /\ stopTickers /\ setNapping("paused")
     /\ UNCHANGED <<loopVars, closed>>

LoopEvent ==
  /\ loop = "select" /\ evQ # <<>>
  /\ handleEvent(Head(evQ)) /\ evQ' = Tail(evQ)
  /\ UNCHANGED <<cont, link, stale, reqVars, cfgVars, budget>>

(* The task of the watcher is cancelled (the provider stops).              *)
LoopCancelled ==
  /\ loop = "select" /\ exitLoop
  /\ UNCHANGED <<contVars, reqVars, cfgVars, budget>>

(* Mutant: WakeTimeout is not looked at.                                   *)
HealthTickMutant ==
  /\ loop = "select" /\ healthOn /\ running /\ ~ready
  /\ loop' = "checking" /\ chk' = st
  /\ UNCHANGED <<contVars, timerVars, readyVars, reqVars, cfgVars, budget>>

(* healthTicker fires: checkUpdateState up to the health check.            *)
HealthTick ==
  /\ loop = "select" /\ healthOn /\ running /\ ~ready
  /\ IF st.started /\ overdue
     THEN setError /\ healthOn' = FALSE /\ UNCHANGED loopVars
     ELSE loop' = "checking" /\ chk' = st /\ UNCHANGED <<healthOn, st, overdue, token>>
  /\ UNCHANGED <<contVars, idleOn, quiet, sinceUse, closed, reqVars, cfgVars, budget>>

(* CheckHealth answers and checkUpdateState stores the result.  A          *)
(* container that does not run is not healthy.                             *)
HealthResult(res) ==
  /\ loop = "checking" /\ loop' = "select"
  /\ res = "healthy" => cont \in {"running", "stopping"}
  /\ \/ /\ res = "error" /\ setError /\ healthOn' = FALSE
        /\ UNCHANGED <<idleOn, quiet, sinceUse, stale>>
     \/ /\ res = "healthy" /\ setReady /\ resetIdleTimer /\ healthOn' = FALSE
        /\ sinceUse' = 0
        /\ stale' = (stale \/ cont # "running")
     \/ /\ res = "unhealthy" /\ st' = chk /\ UNCHANGED <<overdue, token, timerVars>>
        /\ stale' = (stale \/ (ContainerStatus(cont) # chk.status))
  /\ chk' = NoState       \* the local variable goes out of scope
  /\ UNCHANGED <<cont, evQ, link, closed, reqVars, cfgVars, budget>>

(* idleTicker fires: the ticker stops, and a running container is put to   *)
(* sleep.  The decision and the call to the runtime are separate steps.    *)
IdleTick ==
  /\ loop = "select" /\ AutoSleep /\ idleOn /\ quiet = IdleTimeout
  /\ idleOn' = FALSE
  /\ loop' = IF running THEN "idle" ELSE loop
  /\ UNCHANGED <<contVars, healthOn, quiet, sinceUse, chk, readyVars, reqVars, cfgVars, budget>>

(* stopByMethod: the call.  It is skipped when the state has changed to    *)
(* not running meanwhile (a reload), and refused by the runtime when the   *)
(* container is not running.                                               *)
StopByMethod ==
  /\ loop = "idle"
  /\ \/ /\ running /\ cont = "running"
        /\ \/ method = "stop" /\ Emit("stopping", <<"kill">>) /\ loop' = "stopping"
           \/ method = "kill" /\ Emit("stopping", <<"kill">>) /\ loop' = "select"
           \/ method = "pause" /\ Emit("paused", <<"pause">>) /\ loop' = "select"
     \/ /\ ~running \/ cont # "running" \/ CallsFail
        /\ loop' = "select" /\ UNCHANGED contVars
  /\ UNCHANGED <<timerVars, chk, readyVars, reqVars, cfgVars, budget>>

(* ContainerStop returns once the container exited, or after StopTimeout.  *)
StopReturns ==
  /\ loop = "stopping" /\ loop' = "select"
  /\ (cont # "stopping" \/ CallsFail)
  /\ UNCHANGED <<contVars, timerVars, chk, readyVars, reqVars, cfgVars, budget>>

-----------------------------------------------------------------------------
(* NewWatcher for a watcher that exists: the timer is reset, the status of *)
(* the container is read and stored, by another goroutine than the loop.   *)

ReloadRead ==
  /\ rl = "none" /\ loop # "exited"
  /\ reloads < MaxReloads /\ reloads' = reloads + 1
  /\ method' \in StopMethods             \* w.cfg takes the new values
  /\ resetIdleTimer /\ sinceUse' = 0
  /\ \/ cont # "destroyed" /\ rl' = InspectStatus
     \/ (cont = "destroyed" \/ CallsFail) /\ rl' = "none"    \* error returned
  /\ UNCHANGED <<contVars, healthOn, loopVars, readyVars, reqVars, ext, outages>>

ReloadStore ==
  /\ rl # "none" /\ rl' = "none"
  /\ st' = mkState(rl, FALSE, FALSE) /\ overdue' = FALSE
  /\ stale' = IF \A i \in 1..Len(evQ) : evQ[i] = "reload"
              THEN rl # ContainerStatus(cont) ELSE stale
  /\ UNCHANGED <<cont, evQ, link, timerVars, loopVars, token, closed, reqVars, method, budget>>

-----------------------------------------------------------------------------
(* Requests: wakeFromHTTP and wakeFromStream.                              *)

goto(h, l) == pc' = [pc EXCEPT ![h] = l]

Arrive(h, k) ==
  /\ pc[h] = "idle" /\ goto(h, "check") /\ kind' = [kind EXCEPT ![h] = k]
  /\ resetIdleTimer /\ sinceUse' = 0
  /\ UNCHANGED <<contVars, healthOn, loopVars, readyVars, leader, cfgVars, budget>>

(* Static files of the loading page, and data on an open stream (onRead),  *)
(* only reset the idle timer.                                              *)
Touch ==
  /\ resetIdleTimer /\ sinceUse' = 0
  /\ UNCHANGED <<contVars, healthOn, loopVars, readyVars, reqVars, cfgVars, budget>>

CheckReady(h) ==
  /\ pc[h] = "check"
  /\ goto(h, IF ready THEN "pass"
             ELSE IF kind[h] = "offpath" THEN "failed" ELSE "wake")
  /\ UNCHANGED <<contVars, timerVars, loopVars, readyVars, kind, leader, cfgVars, budget>>

(* Where a request goes after Wake returned.                               *)
afterWake(h, ok) ==
  CASE kind[h] = "html" -> "loading"
    [] kind[h] = "noload" -> "wait0"
    [] OTHER -> IF ok THEN "wait0" ELSE "failed"

(* Wake: nothing to do while a start is in progress; otherwise join the    *)
(* call in flight for this container, or make it.                          *)
Wake(h) ==
  /\ pc[h] = "wake"
  /\ \/ /\ wakeInProgress
        /\ goto(h, afterWake(h, TRUE)) /\ UNCHANGED leader
     \/ /\ ~wakeInProgress /\ leader = None
        /\ goto(h, "flight") /\ leader' = h
     \/ /\ ~wakeInProgress /\ leader # None
        /\ goto(h, "joined") /\ UNCHANGED leader
  /\ UNCHANGED <<contVars, timerVars, loopVars, readyVars, kind, cfgVars, budget>>

(* The call in flight returns to the leader and to all who joined it.      *)
flightReturns(h, ok) ==
  /\ pc' = [g \in Handlers |-> IF g = h \/ pc[g] = "joined"
                                 THEN afterWake(g, ok) ELSE pc[g]]
  /\ leader' = None

WakeIfStopped(h) ==
  /\ pc[h] = "flight"
  /\ \/ running /\ flightReturns(h, TRUE)
     \/ st.status \in {"stopped", "paused"} /\ goto(h, "call") /\ UNCHANGED leader
     \/ st.status = "error" /\ flightReturns(h, FALSE)
  /\ UNCHANGED <<contVars, timerVars, loopVars, readyVars, kind, cfgVars, budget>>

(* ContainerStart or ContainerUnpause.  Starting a container that runs is  *)
(* no error and has no effect; the runtime refuses the other mismatches.   *)
WakeCall(h) ==
  /\ pc[h] = "call"
  /\ \/ /\ st.status # "paused" /\ cont = "stopped"
        /\ Emit("running", <<"start">>) /\ flightReturns(h, TRUE)
     \/ /\ st.status # "paused" /\ cont \in {"running", "stopping"}
        /\ flightReturns(h, TRUE) /\ UNCHANGED contVars
     \/ /\ st.status = "paused" /\ cont = "paused"
        /\ Emit("running", <<"unpause">>) /\ flightReturns(h, TRUE)
     \/ /\ \/ cont = "destroyed" \/ CallsFail
           \/ (st.status = "paused") # (cont = "paused")
        /\ flightReturns(h, FALSE) /\ UNCHANGED contVars
  /\ UNCHANGED <<timerVars, loopVars, readyVars, kind, cfgVars, budget>>

(* waitForReady: first a look at the state, then the notification.         *)
passed(h) ==
  /\ goto(h, "pass")
  /\ IF kind[h] = "stream"
     THEN resetIdleTimer /\ sinceUse' = 0 /\ UNCHANGED healthOn
     ELSE UNCHANGED timerVars

WaitCheck(h) ==
  /\ pc[h] = "wait0"
  /\ IF ready THEN passed(h) ELSE goto(h, "wait") /\ UNCHANGED timerVars
  /\ UNCHANGED <<contVars, loopVars, readyVars, kind, leader, cfgVars, budget>>

WaitNotified(h) ==
  /\ pc[h] = "wait" /\ (token \/ closed)
  /\ passed(h) /\ token' = FALSE
  /\ UNCHANGED <<contVars, loopVars, st, overdue, closed, kind, leader, cfgVars, budget>>

(* The client gives up.                                                    *)
WaitCancelled(h) ==
  /\ pc[h] = "wait" /\ goto(h, "failed")
  /\ UNCHANGED <<contVars, timerVars, loopVars, readyVars, kind, leader, cfgVars, budget>>

(* The request is answered; another one may come.                          *)
Respond(h) ==
  /\ pc[h] \in Terminal /\ goto(h, "idle") /\ kind' = [kind EXCEPT ![h] = "html"]
  /\ UNCHANGED <<contVars, timerVars, loopVars, readyVars, leader, cfgVars, budget>>

-----------------------------------------------------------------------------
(* NewWatcher for a container seen for the first time.                     *)
Init ==
  /\ cont \in {"running", "stopped", "paused"}
  /\ evQ = <<>> /\ link = "up" /\ stale = FALSE
  /\ st = mkState(ContainerStatus(cont), FALSE, FALSE) /\ overdue = FALSE
  /\ token = FALSE /\ closed = FALSE
  /\ idleOn = TRUE /\ healthOn = TRUE /\ quiet = 0 /\ sinceUse = 0
  /\ loop = "select" /\ chk = NoState
  /\ pc = [h \in Handlers |-> "idle"] /\ kind = [h \in Handlers |-> "html"]
  /\ leader = None /\ rl = "none" /\ method \in StopMethods
  /\ ext = 0 /\ outages = 0 /\ reloads = 0

Environment ==
  \/ \E op \in ExtOps : External(op)
  \/ StreamFails \/ ClockTick \/ LoopCancelled \/ Touch \/ ReloadRead
  \/ \E h \in Handlers : WaitCancelled(h) \/ Respond(h)
  \/ \E h \in Handlers, k \in Kinds : Arrive(h, k)

Runtime == ContainerExit \/ StreamReconnects \/ StreamReopens

Loop ==
  \/ LoopEvent \/ HealthTick \/ IdleTick \/ StopByMethod \/ StopReturns
  \/ \E res \in CheckResults \cup {"unhealthy"} :
       /\ res \notin CheckResults => cont \notin {"running", "stopping"}
       /\ HealthResult(res)

Request(h) ==
  \/ CheckReady(h) \/ Wake(h) \/ WakeIfStopped(h) \/ WakeCall(h)
  \/ WaitCheck(h) \/ WaitNotified(h)

Next ==
  \/ Environment \/ Runtime \/ Loop \/ WakeTimeoutPasses \/ ReloadStore
  \/ \E h \in Handlers : Request(h)

Spec == Init /\ [][Next]_vars

(* What runs by itself: the goroutines once they can step, the runtime,    *)
(* and time.  Clients are under no obligation.                             *)
Fairness ==
  /\ WF_vars(Loop) /\ SF_vars(LoopEvent) /\ SF_vars(HealthTick)   \* select picks at random
  /\ WF_vars(Runtime)
  /\ WF_vars(WakeTimeoutPasses) /\ WF_vars(ReloadStore)
  /\ \A h \in Handlers : WF_vars(Request(h))

FairSpec == Spec /\ Fairness

-----------------------------------------------------------------------------
(* Properties.                                                             *)

(* The status each event announces (the switch of watchUntilDestroy).      *)
StatusOf(e) == CASE IsContainerStart(e) -> "running"
                 [] IsContainerPause(e) -> "paused"
                 [] e = "destroy" -> "gone"
                 [] OTHER -> "stopped"

(* Once every pending event is handled, the watcher's status is that of    *)
(* the real container: the last event pending tells it, and when none is   *)
(* pending the state does, unless a health check put it to "error".  The   *)
(* exceptions are those stale records: events lost in an outage, or a      *)
(* status that was out of date when a reload or a check stored it.         *)
StatusTracksContainer ==
  (loop # "exited" /\ ~stale) =>
    \/ /\ \A i \in 1..Len(evQ) : evQ[i] = "reload"
       /\ st.status \in {ContainerStatus(cont), "error"}
    \/ \E i \in 1..Len(evQ) :
         /\ evQ[i] # "reload"
         /\ \A j \in (i + 1)..Len(evQ) : evQ[j] = "reload"
         /\ StatusOf(evQ[i]) = ContainerStatus(cont)

(* The loop decides to put the container to sleep only after a whole       *)
(* IdleTimeout without a request, stream data or a change of state: every  *)
(* activity re-arms the ticker (resetIdleTimer).                           *)
IdleStopAfterQuiet ==
  [][(loop = "select" /\ loop' = "idle") => sinceUse = IdleTimeout]_vars

(* Why: while the idle ticker runs, it has not been running for longer     *)
(* than the container has been unused.                                     *)
TickerNotAhead == idleOn => quiet <= sinceUse

(* singleflight: whoever joined a call has a leader that will return, and  *)
(* only the leader talks to the runtime.                                   *)
JoinedHaveLeader ==
  /\ \A h \in Handlers : pc[h] \in {"flight", "call"} <=> leader = h
  /\ (\E h \in Handlers : pc[h] = "joined") => leader # None

(* The watcher's records: of the container, and of the calls under way.    *)
WatcherSound == TypeOK /\ StatusTracksContainer /\ JoinedHaveLeader

(* A start is never in progress for ever: the container becomes ready, or  *)
(* fails (WakeTimeout), or stops.                                          *)
StartResolves == st.started ~> ~st.started

(* A request that waits for a container which is ready is let through.     *)
ReadyReleasesWaiters ==
  \A h \in Handlers : (pc[h] = "wait" /\ ready) ~> (pc[h] # "wait" \/ ~ready)

=============================================================================
