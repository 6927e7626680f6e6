---------------------------- MODULE ConfigReload ----------------------------
(***************************************************************************)
(* internal/config: Reload replaces the active state (one generation of    *)
(* the configuration: its task, its route providers, its proxy servers) by *)
(* a new one.  It is called by the config file watcher and by the API.     *)
(*                                                                         *)
(* Initialising a state also changes globals of the process: the           *)
(* notification dispatcher (internal/notif) and the pool of agents         *)
(* (internal/agentpool).  The dispatcher's goroutine ends with the task of *)
(* the state that started it.                                              *)
(*                                                                         *)
(* States are numbered in the order they are made; the first one was       *)
(* loaded by Load when the program started.                                *)
(***************************************************************************)
EXTENDS Naturals

CONSTANTS
  Callers,     \* who calls Reload: the file watcher, the API
  None,
  MaxReloads,  \* bound: number of reloads
  Outcomes     \* what may go wrong: subset of {"parse", "init", "start"}

ASSUME ConstantsAssumption ==
  /\ None \notin Callers
  /\ MaxReloads \in Nat
  /\ Outcomes \subseteq {"parse", "init", "start"}

Ids == 1..(MaxReloads + 1)

VARIABLES
  mu,          \* reloadMu: its holder, or None
  pc, mine,    \* per caller: where it is in Reload, and its newState
  last,        \* the newest state made
  active,      \* config.ActiveState
  working,     \* config.WorkingState
  alive,       \* states whose task is not cancelled
  started,     \* states whose route providers run
  servers,     \* states whose proxy servers listen
  notifiers,   \* states configured with notification providers
  disp,        \* per state: its dispatcher's goroutine
  dispatcher,  \* the global notif.dispatcher: the state it belongs to, or None
  agents       \* the state whose agents are in the agent pool

callVars == <<mu, pc, mine, last>>
stateVars == <<active, working, alive>>
runVars == <<started, servers>>
globVars == <<notifiers, disp, dispatcher, agents>>
vars == <<callVars, stateVars, runVars, globVars>>

PCs == {"idle", "parse", "notif", "agents", "fail", "failing",
        "finish", "finishing", "providers", "servers"}

TypeOK ==
  /\ mu \in Callers \cup {None}
  /\ pc \in [Callers -> PCs] /\ mine \in [Callers -> Ids \cup {0}]
  /\ last \in Ids /\ active \in Ids /\ working \in Ids
  /\ alive \subseteq Ids /\ started \subseteq Ids /\ servers \subseteq Ids
  /\ notifiers \subseteq Ids /\ dispatcher \in Ids \cup {0}
  /\ disp \in [Ids -> {"none", "running", "finished", "gone"}]
  /\ agents \in Ids

goto(c, l) == pc' = [pc EXCEPT ![c] = l]

-----------------------------------------------------------------------------
(* Reload, up to the end of InitFromFile.                                  *)

(* reloadMu.Lock, NewState, WorkingState.Store.                            *)
ReloadBegin(c) ==
  /\ pc[c] = "idle" /\ mu = None /\ last < MaxReloads + 1
  /\ mu' = c /\ goto(c, "parse")
  /\ last' = last + 1 /\ mine' = [mine EXCEPT ![c] = last + 1]
  /\ working' = last + 1 /\ alive' = alive \cup {last + 1}
  /\ UNCHANGED <<active, runVars, globVars>>

(* UnmarshalValidate: an invalid file has no further effect.               *)
InitParse(c) ==
  /\ pc[c] = "parse"
  /\ goto(c, "notif") \/ ("parse" \in Outcomes /\ goto(c, "fail"))
  /\ UNCHANGED <<mu, mine, last, stateVars, runVars, globVars>>

(* initNotification: with providers configured, StartNotifDispatcher       *)
(* overwrites the global dispatcher.                                       *)
InitNotification(c) ==
  /\ pc[c] = "notif" /\ goto(c, "agents")
  /\ \/ /\ notifiers' = notifiers \cup {mine[c]}
        /\ disp' = [disp EXCEPT ![mine[c]] = "running"]
        /\ dispatcher' = mine[c]
     \/ UNCHANGED <<notifiers, disp, dispatcher>>
  /\ UNCHANGED <<mu, mine, last, stateVars, runVars, agents>>

(* loadRouteProviders: agentpool.RemoveAll, then the agents of the new     *)
(* configuration are added.  Errors of Init are collected, not returned    *)
(* at once.                                                                *)
InitRouteProviders(c) ==
  /\ pc[c] = "agents"
  /\ agents' = mine[c]
  /\ goto(c, "finish") \/ ("init" \in Outcomes /\ goto(c, "fail"))
  /\ UNCHANGED <<mu, mine, last, stateVars, runVars, notifiers, disp, dispatcher>>

-----------------------------------------------------------------------------
(* A state's task: FinishAndWait cancels it and waits for its subtasks.    *)

subtasksDone(s) == s \notin started /\ s \notin servers /\ disp[s] # "running"

(* Mutants: the old state is not waited for; the wrong task is waited for. *)
OldFinishedMutant(c) ==
  /\ pc[c] = "finishing"
  /\ active' = mine[c] /\ goto(c, "providers")
  /\ UNCHANGED <<mu, mine, last, working, alive, runVars, globVars>>

OldFinishedMutant2(c) ==
  /\ pc[c] = "finishing" /\ subtasksDone(mine[c])
  /\ active' = mine[c] /\ goto(c, "providers")
  /\ UNCHANGED <<mu, mine, last, working, alive, runVars, globVars>>

(* Reload fails: newState.Task().FinishAndWait, WorkingState restored.     *)
ReloadFail(c) ==
  /\ pc[c] = "fail" /\ goto(c, "failing") /\ alive' = alive \ {mine[c]}
  /\ UNCHANGED <<mu, mine, last, active, working, runVars, globVars>>

ReloadFailed(c) ==
  /\ pc[c] = "failing" /\ subtasksDone(mine[c])
  /\ working' = active /\ goto(c, "idle") /\ mu' = None
  /\ UNCHANGED <<mine, last, active, alive, runVars, globVars>>

(* The old state ends, completely, before the new one becomes active.      *)
FinishOld(c) ==
  /\ pc[c] = "finish" /\ goto(c, "finishing") /\ alive' = alive \ {active}
  /\ UNCHANGED <<mu, mine, last, active, working, runVars, globVars>>

OldFinished(c) ==
  /\ pc[c] = "finishing" /\ subtasksDone(active)
  /\ active' = mine[c] /\ goto(c, "providers")
  /\ UNCHANGED <<mu, mine, last, working, alive, runVars, globVars>>

(* StartProviders: the providers that can start do; an error is notified   *)
(* and ends Reload.                                                        *)
StartProviders(c) ==
  /\ pc[c] = "providers" /\ started' = started \cup {mine[c]}
  /\ \/ goto(c, "servers") /\ UNCHANGED mu
     \/ "start" \in Outcomes /\ goto(c, "idle") /\ mu' = None
  /\ UNCHANGED <<mine, last, stateVars, servers, globVars>>

StartProxyServers(c) ==
  /\ pc[c] = "servers" /\ servers' = servers \cup {active}
  /\ goto(c, "idle") /\ mu' = None
  /\ UNCHANGED <<mine, last, stateVars, started, globVars>>

-----------------------------------------------------------------------------
(* What ends with a cancelled task.                                        *)

ProvidersStop(s) ==
  /\ s \in started /\ s \notin alive /\ started' = started \ {s}
  /\ UNCHANGED <<callVars, stateVars, servers, globVars>>

ServersStop(s) ==
  /\ s \in servers /\ s \notin alive /\ servers' = servers \ {s}
  /\ UNCHANGED <<callVars, stateVars, started, globVars>>

(* Dispatcher.start returns: its deferred function finishes the task and   *)
(* then resets the global variable, whichever dispatcher that holds.       *)
DispatcherFinish(s) ==
  /\ disp[s] = "running" /\ s \notin alive
  /\ disp' = [disp EXCEPT ![s] = "finished"]
  /\ UNCHANGED <<callVars, stateVars, runVars, notifiers, dispatcher, agents>>

DispatcherReset(s) ==
  /\ disp[s] = "finished" /\ disp' = [disp EXCEPT ![s] = "gone"]
  /\ dispatcher' = 0
  /\ UNCHANGED <<callVars, stateVars, runVars, notifiers, agents>>

-----------------------------------------------------------------------------
(* After Load and the first StartProxyServers (cmd/main.go).               *)
Init ==
  /\ mu = None /\ pc = [c \in Callers |-> "idle"]
  /\ mine = [c \in Callers |-> 0] /\ last = 1
  /\ active = 1 /\ working = 1 /\ alive = {1} /\ started = {1} /\ servers = {1}
  /\ notifiers \in {{}, {1}}
  /\ disp = [s \in Ids |-> IF s \in notifiers THEN "running" ELSE "none"]
  /\ dispatcher = (IF 1 \in notifiers THEN 1 ELSE 0)
  /\ agents = 1

Call(c) ==
  \/ InitParse(c) \/ InitNotification(c) \/ InitRouteProviders(c)
  \/ ReloadFail(c) \/ ReloadFailed(c) \/ FinishOld(c) \/ OldFinished(c)
  \/ StartProviders(c) \/ StartProxyServers(c)

Background(s) ==
  \/ ProvidersStop(s) \/ ServersStop(s) \/ DispatcherFinish(s) \/ DispatcherReset(s)

Next ==
  \/ \E c \in Callers : ReloadBegin(c) \/ Call(c)
  \/ \E s \in Ids : Background(s)

Spec == Init /\ [][Next]_vars

(* A goroutine that can step does; nobody has to ask for a reload.         *)
Fairness ==
  /\ \A c \in Callers : WF_vars(Call(c))
  /\ \A s \in Ids : WF_vars(Background(s))

FairSpec == Spec /\ Fairness

-----------------------------------------------------------------------------
(* Properties.                                                             *)

Quiet == mu = None

(* Routes and proxy servers of two generations never run side by side, and *)
(* what runs belongs to a state that is, or was until now, the active one. *)
(* ("cancel all current subtasks -> wait -> replace config -> start")      *)
OneGenerationRuns == started \cup servers \subseteq {active}

(* When no reload is under way the active state lives, its providers run,  *)
(* and new routes see it as the working state: also after a failed reload. *)
ActiveStateRuns ==
  Quiet => (active \in alive /\ active \in started /\ working = active)

(* A state that did not become active leaves nothing behind that runs.     *)
NoOrphans ==
  Quiet => \A s \in Ids \ {active} : s \notin alive /\ disp[s] # "running"

(* The inductive invariant behind these three: reloadMu excludes, and at   *)
(* each point of Reload it is known which states live and run.             *)
Exclusive == \A c \in Callers : pc[c] # "idle" <=> mu = c

ActiveUp == active \in alive /\ active \in started

During(c) ==
  /\ mine[c] = last
  /\ pc[c] \in {"parse", "notif", "agents", "fail", "finish"} =>
       ActiveUp /\ mine[c] # active /\ working = mine[c] /\ mine[c] \in alive
  /\ pc[c] = "failing" => ActiveUp /\ mine[c] # active /\ mine[c] \notin alive
  /\ pc[c] = "finishing" => /\ active \notin alive /\ mine[c] # active
                            /\ working = mine[c] /\ mine[c] \in alive
  /\ pc[c] \in {"providers", "servers"} =>
       active = mine[c] /\ active \in alive /\ working = active
  /\ pc[c] = "servers" => active \in started

Between == Quiet => (ActiveUp /\ working = active)

OnlyOwned ==
  /\ active <= last
  /\ \A s \in Ids :
       (s # active /\ \A c \in Callers : pc[c] # "idle" => s # mine[c])
         => s \notin alive /\ disp[s] # "running"

IInv ==
  /\ TypeOK /\ Exclusive /\ OneGenerationRuns /\ Between /\ OnlyOwned
  /\ \A c \in Callers : pc[c] # "idle" => During(c)

(* Of the states that Reload makes, one runs, and the others are gone, at  *)
(* every point of every reload.                                            *)
GenerationsSound == IInv /\ ActiveStateRuns /\ NoOrphans

(* A reload comes to an end, whatever the outcome.                         *)
ReloadEnds == \A c \in Callers : pc[c] # "idle" ~> pc[c] = "idle"

(* After every reload the proxy listens.                                   *)
ProxyServersUp == Quiet => active \in servers

(* Notifications of the active configuration are delivered: once the       *)
(* goroutines of earlier dispatchers are gone, the global one is its own.  *)
NotificationsDelivered ==
  (Quiet /\ active \in notifiers /\ \A s \in Ids \ {active} : disp[s] \in {"none", "gone"})
    => dispatcher = active

=============================================================================
