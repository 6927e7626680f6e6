---------------------------- MODULE RoutesProofs ----------------------------
(***************************************************************************)
(* Proofs about the components of MCRoutes that share no state: the route  *)
(* provider, the registry of reverse proxy routes, the enrolment of an     *)
(* agent and its stream tunnel, Proxmox, and the validation of a route.    *)
(* Each has an inductive invariant and theorems of its own, for any        *)
(* routes, requests, payloads and clusters.                                *)
(***************************************************************************)
EXTENDS RouteProvider, RouteLinks, AgentEnroll, AgentTunnel, Proxmox, RouteValidate,
        DataInduction, SequenceTheorems

(***************************************************************************)
(* RouteProvider.                                                          *)
(***************************************************************************)
Silent(a) == \A d \in Defs : ~served(a, d)

(* A route that runs is the one in the table, so that at most one runs.    *)
InTable == \A a \in Aliases, d \in Defs : served(a, d) => routes[a] = d

(* Where the handler is in its loops: what it is about to start does not   *)
(* run, and what it is about to finish is all that runs for the alias.     *)
Phase ==
  /\ h # "old" => cur = NoDef
  /\ cur # NoDef => cur \notin todo /\ Silent(cur) /\ hNew[cur] # NoDef /\ hOld[cur] # NoDef
  /\ h = "start" => task = "up"
  /\ h = "exited" => task = "cancelled"
  /\ h \in {"start", "new"} => \A a \in todo : Silent(a) /\ hNew[a] # NoDef
  /\ h = "old" => \A a \in Aliases :
       /\ a \in todo => hOld[a] # NoDef /\ \A d \in Defs : served(a, d) => hOld[a] = d
       /\ hOld[a] = NoDef => Silent(a)

(* Until the provider is cancelled, a route of the table that is not       *)
(* excluded runs, except one that Provider.Start has not come to.          *)
TableRuns ==
  task = "up" => \A a \in Aliases, d \in Defs \ ExcludedDefs :
    routes[a] = d => served(a, d) \/ (h = "start" /\ a \in todo)

(* An alias nothing is outstanding for, neither lost nor on its way.       *)
Clean(a) == a \in Aliases /\ a \notin lost /\ a \notin unseen /\ a \notin pend /\ a \notin queue
Right(a) == upToDate(a) /\ complete(a)

(* The routes loaded for a batch are still those of the world for an alias *)
(* that did not change meanwhile, and the alias is as it should be or is   *)
(* still to be handled.                                                    *)
Reconciling ==
  task = "up" => \A a \in Aliases : Clean(a) =>
    /\ h # "idle" => hNew[a] = valid(world[a])
    /\ h = "idle" => Right(a)
    /\ h \in {"start", "new"} => a \in todo \/ Right(a)
    /\ h = "old" => hOld[a] = NoDef \/ a = cur \/ Right(a) \/ (a \in todo /\ a \in batch)

ProviderInv == ProviderTypeOK /\ InTable /\ Phase /\ TableRuns /\ Reconciling

-----------------------------------------------------------------------------
(* What starting a route changes, when none runs for its alias: it runs,   *)
(* or it failed, and other aliases are left alone.                         *)
LEMMA Starts ==
  ASSUME ProviderTypeOK, NEW a \in Aliases, NEW d \in Defs, startRoute(a, d), Silent(a)
  PROVE  /\ routes' \in Table /\ running' \subseteq Aliases \X Defs /\ failed' \subseteq Aliases
         /\ \A b \in Aliases : b # a =>
              /\ \A e \in Defs : served(b, e)' <=> served(b, e)
              /\ routes'[b] = routes[b] /\ (b \in failed' <=> b \in failed)
         /\ \A e \in Defs : served(a, e)' => e = d
         /\ \/ served(a, d)' /\ routes'[a] = d
            \/ Silent(a)' /\ routes'[a] = NoDef /\ a \in failed'
<1> USE ProviderAssumption DEF ProviderTypeOK, Table, served, Silent
<1>1. CASE /\ running' = running \cup {<<a, d>>} /\ routes' = [routes EXCEPT ![a] = d]
           /\ failed' = failed \ {a}
  BY <1>1
<1>2. CASE /\ UNCHANGED running /\ routes' = [routes EXCEPT ![a] = NoDef]
           /\ failed' = failed \cup {a}
  BY <1>2
<1> QED
  BY <1>1, <1>2 DEF startRoute

(* What finishing a route changes: it no longer runs, and the table        *)
(* forgets it unless it was excluded or did not run.                       *)
LEMMA Finishes ==
  ASSUME ProviderTypeOK, NEW a \in Aliases, NEW d \in Defs, finishRoute(running, a, d)
  PROVE  /\ routes' \in Table /\ running' \subseteq Aliases \X Defs
         /\ \A b \in Aliases : b # a =>
              (\A e \in Defs : served(b, e)' <=> served(b, e)) /\ routes'[b] = routes[b]
         /\ \A e \in Defs : served(a, e)' <=> served(a, e) /\ e # d
         /\ \/ served(a, d) /\ d \notin ExcludedDefs /\ routes'[a] = NoDef
            \/ (served(a, d) => d \in ExcludedDefs) /\ routes'[a] = routes[a]
<1> USE ProviderAssumption DEF ProviderTypeOK, Table, served
<1>1. running' = running \ {<<a, d>>}
  BY DEF finishRoute
<1>2. CASE <<a, d>> \in running /\ d \notin ExcludedDefs
  <2>1. routes' = [routes EXCEPT ![a] = NoDef]
    BY <1>2 DEF finishRoute
  <2> QED
    BY <1>1, <1>2, <2>1
<1>3. CASE ~(<<a, d>> \in running /\ d \notin ExcludedDefs)
  <2>1. routes' = routes
    BY <1>3 DEF finishRoute
  <2> QED
    BY <1>1, <1>3, <2>1
<1> QED
  BY <1>2, <1>3

(* What a load makes of the world.                                         *)
LEMMA LoadedTable ==
  ASSUME ProviderTypeOK
  PROVE  loaded \in Table /\ noTable \in Table /\ \A a \in Aliases : valid(world[a]) \in Defs \cup {NoDef}
BY DEF ProviderTypeOK, loaded, noTable, valid, Table

(* A step of the world, of the stream or of the channel: routes and        *)
(* handler stand still, and an alias whose definition changes is dirty.    *)
LEMMA OutsideInductive ==
  ASSUME ProviderInv, ProviderTypeOK', UNCHANGED <<routes, running, failed, h, batch, hOld, hNew, todo, cur>>,
         task' # "up" \/ task' = task,
         task' = task \/ (task' = "cancelled" /\ h # "start"),
         \A a \in Aliases : Clean(a)' => Clean(a) /\ world'[a] = world[a]
  PROVE  ProviderInv'
<1> USE DEF ProviderInv
<1>1. InTable' /\ \A a, d : served(a, d)' <=> served(a, d)
  BY DEF InTable, served
<1>2. Phase'
  BY <1>1 DEF Phase, Silent, served
<1>3. TableRuns'
  BY <1>1 DEF TableRuns, served
<1>4. Reconciling'
  <2> SUFFICES ASSUME task' = "up", NEW a \in Aliases, Clean(a)'
               PROVE  /\ h' # "idle" => hNew'[a] = valid(world'[a])
                      /\ h' = "idle" => Right(a)'
                      /\ h' \in {"start", "new"} => a \in todo' \/ Right(a)'
                      /\ h' = "old" => hOld'[a] = NoDef \/ a = cur' \/ Right(a)' \/ (a \in todo' /\ a \in batch')
    BY DEF Reconciling, valid
  <2>1. task = "up" /\ Clean(a) /\ world'[a] = world[a]
    OBVIOUS
  <2>2. Right(a) => Right(a)'
    BY <2>1 DEF Right, upToDate, complete, served, valid
  <2> QED
    BY <2>1, <2>2 DEF Reconciling
<1> QED
  BY <1>1, <1>2, <1>3, <1>4

LEMMA EnvironmentInductive ==
  ASSUME ProviderInv, Environment \/ Stream \/ \E e \in Events : QueueReceive(e)
  PROVE  ProviderInv'
<1> USE ProviderAssumption
<1> USE DEF ProviderInv
<1>1. ASSUME NEW a \in Aliases, NEW d \in Defs \cup {NoDef}, WorldChanges(a, d)
      PROVE  ProviderInv'
  <2> USE <1>1 DEF WorldChanges, routeVars, handVars
  <2>1. world' \in Table
    BY DEF ProviderTypeOK, Table
  <2>2. /\ pend' \subseteq Events /\ lost' \subseteq Aliases /\ unseen' \subseteq Aliases
        /\ \A b \in Aliases : Clean(b)' => Clean(b) /\ b # a
    BY DEF ProviderTypeOK, Events, Clean
  <2>3. ProviderTypeOK'
    BY <2>1, <2>2 DEF ProviderTypeOK
  <2>4. \A b \in Aliases : b # a => world'[b] = world[b]
    BY DEF ProviderTypeOK, Table
  <2> QED
    BY <2>2, <2>3, <2>4, OutsideInductive
<1>2. CASE StreamFails
  <2> USE <1>2 DEF StreamFails, routeVars, handVars
  <2>1. PICK L \in SUBSET (pend \ {"reload"}) : lost' = lost \cup L /\ pend' = (pend \ L) \cup {"reload"}
    OBVIOUS
  <2>2. ProviderTypeOK' /\ \A b \in Aliases : Clean(b)' => Clean(b)
    BY <2>1 DEF ProviderTypeOK, Events, Clean
  <2> QED
    BY <2>2, OutsideInductive
<1>3. CASE Cancel
  <2> USE <1>3 DEF Cancel, envVars, routeVars, handVars
  <2>1. ProviderTypeOK' /\ \A b \in Aliases : Clean(b)' => Clean(b)
    BY DEF ProviderTypeOK, Clean
  <2> QED
    BY <2>1, OutsideInductive
<1>4. CASE Stream
  <2> USE <1>4 DEF Stream, StreamOpens, StreamReconnects, routeVars, handVars
  <2>1. ProviderTypeOK' /\ \A b \in Aliases : Clean(b)' => Clean(b)
    BY DEF ProviderTypeOK, Events, Clean
  <2> QED
    BY <2>1, OutsideInductive
<1>5. ASSUME NEW e \in Events, QueueReceive(e)
      PROVE  ProviderInv'
  <2> USE <1>5 DEF QueueReceive, envVars, routeVars, handVars
  <2>1. ProviderTypeOK' /\ \A b \in Aliases : Clean(b)' => Clean(b)
    BY DEF ProviderTypeOK, Events, Clean
  <2> QED
    BY <2>1, OutsideInductive
<1> QED
  BY <1>1, <1>2, <1>3, <1>4, <1>5 DEF Environment

-----------------------------------------------------------------------------
(* A step that starts the new route of an alias: Provider.Start, the       *)
(* second half of Update, Add.                                             *)
LEMMA StartInductive ==
  ASSUME ProviderInv, NEW a \in Aliases, startRoute(a, hNew[a]),
         UNCHANGED <<envVars, pend, queue, task, h, batch, hOld, hNew>>,
         \/ h \in {"start", "new"} /\ a \in todo /\ todo' = todo \ {a} /\ cur' = cur
         \/ cur = a /\ cur' = NoDef /\ todo' = todo
  PROVE  ProviderInv'
<1> USE ProviderAssumption
<1> USE DEF ProviderInv
<1>0. Silent(a) /\ hNew[a] \in Defs
  BY DEF Phase, ProviderTypeOK, Table
<1>1. /\ routes' \in Table /\ running' \subseteq Aliases \X Defs /\ failed' \subseteq Aliases
      /\ \A b \in Aliases : b # a =>
           /\ \A e \in Defs : served(b, e)' <=> served(b, e)
           /\ routes'[b] = routes[b] /\ (b \in failed' <=> b \in failed)
      /\ \A e \in Defs : served(a, e)' => e = hNew[a]
      /\ \/ served(a, hNew[a])' /\ routes'[a] = hNew[a]
         \/ Silent(a)' /\ routes'[a] = NoDef /\ a \in failed'
  BY <1>0, Starts
<1>2. ProviderTypeOK'
  BY <1>1 DEF ProviderTypeOK, envVars
<1>3. \A e \in Defs : served(a, e)' => routes'[a] = e
  BY <1>1 DEF Silent
<1>4. InTable'
  BY <1>1, <1>3 DEF InTable
<1>5. \A b \in Aliases : b # a => (Silent(b)' <=> Silent(b))
  BY <1>1 DEF Silent
<1>6. Phase'
  BY <1>1, <1>5 DEF Phase, ProviderTypeOK
<1>7. TableRuns'
  <2> SUFFICES ASSUME task' = "up", NEW b \in Aliases, NEW d \in Defs \ ExcludedDefs, routes'[b] = d
               PROVE  served(b, d)' \/ (h' = "start" /\ b \in todo')
    BY DEF TableRuns
  <2>1. CASE b = a
    BY <2>1, <1>1
  <2>2. CASE b # a
    BY <2>2, <1>1 DEF TableRuns
  <2> QED
    BY <2>1, <2>2
<1>8. Reconciling'
  <2> SUFFICES ASSUME task' = "up", NEW b \in Aliases, Clean(b)'
               PROVE  /\ h' # "idle" => hNew'[b] = valid(world'[b])
                      /\ h' = "idle" => Right(b)'
                      /\ h' \in {"start", "new"} => b \in todo' \/ Right(b)'
                      /\ h' = "old" => hOld'[b] = NoDef \/ b = cur' \/ Right(b)' \/ (b \in todo' /\ b \in batch')
    BY DEF Reconciling, valid
  <2>1. task = "up" /\ Clean(b) /\ world' = world /\ h # "idle"
    BY DEF Clean, envVars, Phase
  <2>2. hNew[b] = valid(world[b])
    BY <2>1 DEF Reconciling
  <2>3. CASE b = a
    <3>1. Right(a)'
      BY <1>1, <2>1, <2>2, <2>3 DEF Right, upToDate, complete, valid, Silent
    <3> QED
      BY <2>1, <2>2, <2>3, <3>1 DEF valid
  <2>4. CASE b # a
    <3>1. Right(b) => Right(b)'
      <4>1. upToDate(b) => upToDate(b)'
        BY <1>1, <2>1, <2>4 DEF upToDate, valid
      <4>2. valid(world[b]) \in Defs \cup {NoDef}
        BY LoadedTable
      <4>3. complete(b) => complete(b)'
        BY <1>1, <2>1, <2>4, <4>2 DEF complete, valid
      <4> QED
        BY <4>1, <4>3 DEF Right
    <3> QED
      BY <2>1, <2>2, <2>4, <3>1 DEF Reconciling, valid
  <2> QED
    BY <2>3, <2>4
<1> QED
  BY <1>2, <1>4, <1>6, <1>7, <1>8

(* A step that finishes a route of an alias: by the handler, which may     *)
(* start its new route next, or because the provider was cancelled.        *)
LEMMA FinishInductive ==
  ASSUME ProviderInv, NEW a \in Aliases, NEW d \in Defs, finishRoute(running, a, d),
         UNCHANGED <<envVars, pend, queue, task, h, batch, hOld, hNew>>,
         failed' = failed \/ (failed' = failed \ {a} /\ hNew[a] = NoDef),
         \/ /\ h = "old" /\ cur = NoDef /\ a \in todo /\ todo' = todo \ {a} /\ d = hOld[a]
            /\ \/ hNew[a] = NoDef /\ cur' = NoDef
               \/ hNew[a] # NoDef /\ cur' = a
         \/ task = "cancelled" /\ UNCHANGED <<todo, cur>>
  PROVE  ProviderInv'
<1> USE ProviderAssumption
<1> USE DEF ProviderInv
<1>1. /\ routes' \in Table /\ running' \subseteq Aliases \X Defs
      /\ \A b \in Aliases : b # a =>
           (\A e \in Defs : served(b, e)' <=> served(b, e)) /\ routes'[b] = routes[b]
      /\ \A e \in Defs : served(a, e)' <=> served(a, e) /\ e # d
      /\ \/ served(a, d) /\ d \notin ExcludedDefs /\ routes'[a] = NoDef
         \/ (served(a, d) => d \in ExcludedDefs) /\ routes'[a] = routes[a]
  BY Finishes
<1>2. ProviderTypeOK'
  BY <1>1 DEF ProviderTypeOK, envVars
<1>3. InTable'
  BY <1>1 DEF InTable
<1>4. \A b \in Aliases : Silent(b) => Silent(b)'
  BY <1>1 DEF Silent
<1>5. task = "up" => Silent(a)'
  BY <1>1 DEF Silent, Phase
<1>6. Phase'
  BY <1>1, <1>4 DEF Phase, ProviderTypeOK, Silent
<1>7. TableRuns'
  BY <1>1 DEF TableRuns, Phase
<1>8. Reconciling'
  <2> SUFFICES ASSUME task' = "up", NEW b \in Aliases, Clean(b)'
               PROVE  /\ hNew'[b] = valid(world'[b])
                      /\ hOld'[b] = NoDef \/ b = cur' \/ Right(b)' \/ (b \in todo' /\ b \in batch')
    BY DEF Reconciling, valid
  <2>1. task = "up" /\ Clean(b) /\ world' = world /\ h = "old"
    BY DEF Clean, envVars, Phase
  <2>2. hNew[b] = valid(world[b])
    BY <2>1 DEF Reconciling
  <2>3. CASE b = a
    <3>1. hNew[a] = NoDef => Right(a)'
      BY <1>5, <2>1, <2>2, <2>3 DEF Right, upToDate, complete, valid, Silent
    <3> QED
      BY <2>1, <2>2, <2>3, <3>1 DEF valid
  <2>4. CASE b # a
    <3>1. Right(b) => Right(b)'
      <4>1. upToDate(b) => upToDate(b)'
        BY <1>1, <2>1, <2>4 DEF upToDate, valid
      <4>2. valid(world[b]) \in Defs \cup {NoDef}
        BY LoadedTable
      <4>3. complete(b) => complete(b)'
        BY <1>1, <2>1, <2>4, <4>2 DEF complete, valid
      <4> QED
        BY <4>1, <4>3 DEF Right
    <3> QED
      BY <2>1, <2>2, <2>4, <3>1 DEF Reconciling, valid
  <2> QED
    BY <2>3, <2>4
<1> QED
  BY <1>2, <1>3, <1>6, <1>7, <1>8

-----------------------------------------------------------------------------
(* The beginning of a batch: an alias whose event is in the batch is dealt *)
(* with in it, another clean alias is right already.                       *)
LEMMA FlushInductive ==
  ASSUME ProviderInv, Flush
  PROVE  ProviderInv'
<1> USE ProviderAssumption
<1> USE DEF ProviderInv, Flush, routeVars
<1>0. /\ loaded \in Table /\ noTable \in Table
      /\ \A a \in Aliases : loaded[a] = valid(world[a]) /\ noTable[a] = NoDef
  BY LoadedTable DEF loaded, noTable
<1>1. InTable' /\ \A a, d : served(a, d)' <=> served(a, d)
  BY DEF InTable, served
<1>2. \A a : Silent(a)' <=> Silent(a)
  BY <1>1 DEF Silent
<1>3. ASSUME giveUp PROVE ProviderInv'
  <2> USE <1>3 DEF giveUp
  <2>1. ProviderTypeOK'
    BY DEF ProviderTypeOK, Events
  <2>2. Phase' /\ TableRuns'
    BY <1>1, <1>2 DEF Phase, TableRuns
  <2>3. Reconciling'
    <3> SUFFICES ASSUME task' = "up", NEW a \in Aliases, Clean(a)'
                 PROVE  Right(a)'
      BY DEF Reconciling
    <3>1. Clean(a)
      BY DEF Clean
    <3>2. Right(a)
      BY <3>1 DEF Reconciling
    <3> QED
      BY <3>2, <1>1 DEF Right, upToDate, complete, valid
  <2> QED
    BY <1>1, <2>1, <2>2, <2>3
<1>4. ASSUME NEW new \in Table, batch' = queue, begin(new), lost' \subseteq Aliases,
             \A a \in Aliases : Clean(a)' => new[a] = valid(world[a]) /\ (Clean(a) \/ a \in queue)
      PROVE  ProviderInv'
  <2> USE <1>4 DEF begin
  <2>1. ProviderTypeOK'
    BY DEF ProviderTypeOK
  <2>2. \A a \in Aliases : routes[a] = NoDef => Silent(a)
    BY DEF InTable, Silent
  <2>3. Phase'
    BY <1>1, <1>2, <2>2 DEF Phase, InTable, ProviderTypeOK
  <2>4. TableRuns'
    BY <1>1 DEF TableRuns
  <2>5. Reconciling'
    <3> SUFFICES ASSUME task' = "up", NEW a \in Aliases, Clean(a)'
                 PROVE  /\ hNew'[a] = valid(world'[a])
                        /\ hOld'[a] = NoDef \/ Right(a)' \/ (a \in todo' /\ a \in batch')
      BY DEF Reconciling, valid
    <3>1. Clean(a) => Right(a)'
      BY <1>1 DEF Reconciling, Right, upToDate, complete, valid
    <3> QED
      BY <3>1 DEF valid
  <2> QED
    BY <1>1, <2>1, <2>3, <2>4, <2>5
<1>5. CASE batch' = queue /\ begin(loaded) /\ UNCHANGED lost
  <2>1. \A a \in Aliases : Clean(a)' => loaded[a] = valid(world[a]) /\ (Clean(a) \/ a \in queue)
    BY <1>0, <1>5 DEF Clean
  <2>2. lost' \subseteq Aliases
    BY <1>5 DEF ProviderTypeOK
  <2> QED
    BY <1>0, <1>4, <1>5, <2>1, <2>2
<1>6. CASE batch' = queue /\ begin(noTable) /\ lost' = Aliases
  <2>1. \A a \in Aliases : ~Clean(a)'
    BY <1>6 DEF Clean
  <2> QED
    BY <1>0, <1>4, <1>6, <2>1
<1> QED
  BY <1>3, <1>5, <1>6

(* The steps of the handler that start and finish nothing.                 *)
LEMMA TurnInductive ==
  ASSUME ProviderInv, ProviderTypeOK', UNCHANGED <<envVars, pend, task, routeVars, cur>>,
         \/ QueueExit \/ ProviderStarted \/ HandleOldDone \/ HandleDone
         \/ \E a \in Aliases : /\ h = "old" /\ cur = NoDef /\ todo' = todo \ {a}
                               /\ hNew[a] # NoDef /\ ~matchAny(a)
                               /\ UNCHANGED <<queue, h, batch, hOld, hNew>>
  PROVE  ProviderInv'
<1> USE ProviderAssumption
<1> USE DEF ProviderInv, envVars, routeVars
<1>1. InTable' /\ \A a, d : served(a, d)' <=> served(a, d)
  BY DEF InTable, served
<1>2. \A a : Silent(a)' <=> Silent(a)
  BY <1>1 DEF Silent
<1>3. world' = world /\ \A a : (Right(a)' <=> Right(a))
  BY <1>1 DEF Right, upToDate, complete, valid
<1>4. Phase'
  BY <1>2 DEF Phase, QueueExit, ProviderStarted, HandleOldDone, HandleDone, ProviderTypeOK, served
<1>5. TableRuns'
  BY <1>1 DEF TableRuns, QueueExit, ProviderStarted, HandleOldDone, HandleDone
<1>6. Reconciling'
  <2> SUFFICES ASSUME task' = "up", NEW b \in Aliases, Clean(b)'
               PROVE  /\ h' # "idle" => hNew'[b] = valid(world'[b])
                      /\ h' = "idle" => Right(b)'
                      /\ h' \in {"start", "new"} => b \in todo' \/ Right(b)'
                      /\ h' = "old" => hOld'[b] = NoDef \/ b = cur' \/ Right(b)' \/ (b \in todo' /\ b \in batch')
    BY DEF Reconciling, valid
  <2>1. task = "up" /\ ~QueueExit
    BY DEF QueueExit
  <2>2. Clean(b)
    BY <2>1 DEF Clean, ProviderStarted, HandleOldDone, HandleDone
  <2>3. CASE ProviderStarted \/ HandleDone
    BY <2>1, <2>2, <2>3, <1>3 DEF Reconciling, ProviderStarted, HandleDone
  <2>4. CASE HandleOldDone
    <3>1. hNew[b] = valid(world[b]) /\ (hOld[b] = NoDef \/ Right(b))
      BY <2>1, <2>2, <2>4 DEF Reconciling, HandleOldDone, ProviderTypeOK
    <3>2. hOld[b] = NoDef /\ hNew[b] = NoDef => Right(b)
      BY <2>4, <3>1 DEF Phase, HandleOldDone, Right, upToDate, complete, Silent
    <3> QED
      BY <2>4, <3>1, <3>2, <1>3 DEF HandleOldDone, valid
  <2>5. ASSUME NEW a \in Aliases, h = "old", cur = NoDef, todo' = todo \ {a},
               ~matchAny(a), UNCHANGED <<queue, h, batch, hOld, hNew>>
        PROVE  /\ hNew'[b] = valid(world'[b])
               /\ hOld'[b] = NoDef \/ b = cur' \/ Right(b)' \/ (b \in todo' /\ b \in batch')
    BY <2>1, <2>2, <2>5, <1>3 DEF Reconciling, matchAny, valid
  <2> QED
    BY <2>1, <2>3, <2>4, <2>5
<1> QED
  BY <1>1, <1>4, <1>5, <1>6

LEMMA HandlerInductive ==
  ASSUME ProviderInv, Handler
  PROVE  ProviderInv'
<1> USE ProviderAssumption
<1> USE DEF ProviderInv
<1>1. ASSUME NEW e \in Events, QueueReceive(e) PROVE ProviderInv'
  BY <1>1, EnvironmentInductive
<1>2. CASE Flush
  BY <1>2, FlushInductive
<1>3. ASSUME NEW a \in Aliases, ProviderStartRoute(a) \/ Add(a) PROVE ProviderInv'
  BY <1>3, StartInductive DEF ProviderStartRoute, Add
<1>4. CASE UpdateStart
  <2>1. cur \in Aliases
    BY <1>4 DEF UpdateStart, ProviderTypeOK
  <2> QED
    BY <1>4, <2>1, StartInductive DEF UpdateStart
<1>5. ASSUME NEW a \in Aliases, HandleOld(a) PROVE ProviderInv'
  <2> USE <1>5 DEF HandleOld
  <2>1. hOld[a] \in Defs
    BY DEF Phase, ProviderTypeOK, Table
  <2>2. CASE hNew[a] = NoDef
    BY <2>1, <2>2, FinishInductive
  <2>3. CASE hNew[a] # NoDef /\ matchAny(a)
    BY <2>1, <2>3, FinishInductive
  <2>4. CASE hNew[a] # NoDef /\ ~matchAny(a)
    <3>1. UNCHANGED <<envVars, pend, task, routeVars, cur>> /\ UNCHANGED <<queue, h, batch, hOld, hNew>>
      BY <2>4
    <3>2. ProviderTypeOK'
      BY <3>1 DEF ProviderTypeOK, envVars, routeVars
    <3> QED
      BY <2>4, <3>1, <3>2, TurnInductive
  <2> QED
    BY <2>2, <2>3, <2>4
<1>6. CASE QueueExit \/ ProviderStarted \/ HandleOldDone \/ HandleDone
  <2>1. noTable \in Table
    BY LoadedTable
  <2>2. ProviderTypeOK'
    BY <1>6, <2>1 DEF ProviderTypeOK, QueueExit, ProviderStarted, HandleOldDone, HandleDone, envVars, routeVars
  <2>3. UNCHANGED <<envVars, pend, task, routeVars, cur>>
    BY <1>6 DEF QueueExit, ProviderStarted, HandleOldDone, HandleDone
  <2> QED
    BY <1>6, <2>2, <2>3, TurnInductive
<1> QED
  BY <1>1, <1>2, <1>3, <1>4, <1>5, <1>6 DEF Handler

-----------------------------------------------------------------------------
LEMMA ProviderInitInv == ProviderInit => ProviderInv
<1> USE ProviderAssumption
<1> SUFFICES ASSUME ProviderInit PROVE ProviderInv
  OBVIOUS
<1> USE DEF ProviderInit
<1>1. ProviderTypeOK
  BY DEF ProviderTypeOK, noTable, valid, Table
<1>2. \A a : Silent(a)
  BY DEF Silent, served
<1>3. InTable /\ Phase /\ TableRuns
  BY <1>1, <1>2 DEF InTable, Phase, TableRuns, served, Table, ProviderTypeOK
<1>4. Reconciling
  BY <1>2 DEF Reconciling, Right, upToDate, complete, Silent
<1> QED
  BY <1>1, <1>3, <1>4 DEF ProviderInv

LEMMA ProviderStepInv == ProviderInv /\ [ProviderNext]_rpVars => ProviderInv'
<1> SUFFICES ASSUME ProviderInv, [ProviderNext]_rpVars PROVE ProviderInv'
  OBVIOUS
<1>1. CASE Environment \/ Stream
  BY <1>1, EnvironmentInductive
<1>2. CASE Handler
  BY <1>2, HandlerInductive
<1>3. CASE Ending
  BY <1>3, FinishInductive DEF Ending, RouteCancelled, handVars
<1>4. CASE UNCHANGED rpVars
  <2>1. ProviderTypeOK' /\ \A a \in Aliases : Clean(a)' => Clean(a)
    BY <1>4 DEF rpVars, envVars, routeVars, handVars, ProviderInv, ProviderTypeOK, Clean
  <2> QED
    BY <1>4, <2>1, OutsideInductive DEF rpVars, envVars, routeVars, handVars
<1> QED
  BY <1>1, <1>2, <1>3, <1>4 DEF ProviderNext

(* The inductive invariant holds in every state of the provider.           *)
THEOREM ProviderInvariant == ProviderSpec => []ProviderInv
BY ProviderInitInv, ProviderStepInv, PTL DEF ProviderSpec

(* No two routes of one alias ever run at the same time, also while Update *)
(* replaces one and while a cancelled provider ends; and between batches   *)
(* the table of a provider that was not cancelled tells exactly which      *)
(* routes run, excluded ones apart.                                        *)
THEOREM TableTellsWhatRuns == ProviderSpec => []TableSound
<1>1. ProviderInv => TableSound
  <2> SUFFICES ASSUME ProviderInv PROVE TableSound
    OBVIOUS
  <2> USE DEF ProviderInv
  <2>1. OneRoutePerAlias
    <3> SUFFICES ASSUME NEW a \in Aliases
                 PROVE  Cardinality({d \in Defs : served(a, d)}) <= 1
      BY DEF OneRoutePerAlias
    <3>1. CASE \E e \in Defs : served(a, e)
      <4>1. PICK e \in Defs : served(a, e)
        BY <3>1
      <4>2. {d \in Defs : served(a, d)} = {e}
        BY <4>1 DEF InTable
      <4> QED
        BY <4>2, FS_Singleton
    <3>2. CASE ~\E e \in Defs : served(a, e)
      <4>1. {d \in Defs : served(a, d)} = {}
        BY <3>2
      <4> QED
        BY <4>1, FS_EmptySet
    <3> QED
      BY <3>1, <3>2
  <2>2. TableMatchesRegistry
    BY DEF TableMatchesRegistry, TableRuns, InTable
  <2> QED
    BY <2>1, <2>2 DEF TableSound
<1> QED
  BY <1>1, ProviderInvariant, PTL

(* Once nothing is outstanding, the routes that run are those docker       *)
(* lists, for every alias whose last change was announced, whatever        *)
(* changed while earlier batches were being handled.                       *)
THEOREM ProviderConverges == ProviderSpec => []Converged
<1>1. ProviderInv => Converged
  BY DEF ProviderInv, Converged, Settled, Reconciling, Clean, Right
<1> QED
  BY <1>1, ProviderInvariant, PTL

(***************************************************************************)
(* RouteLinks.                                                             *)
(***************************************************************************)
LinkedPc == {"linked", "up", "cancelled", "ended"}

LinkTypes ==
  /\ rlPc \in [RLRoutes -> {"new", "begun", "failed"} \union LinkedPc]
  /\ rlPool \in [RLKeys -> RLRoutes \union {NoRoute}] /\ rlShort \subseteq RLKeys
  /\ rlBal \in [RLRoutes -> Balancers \union {0}]
  /\ rlServers \in [Balancers -> SUBSET RLRoutes]
  /\ rlOwner \in [Balancers -> RLRoutes \union {NoRoute}]
  /\ rlHealth \subseteq RLRoutes

(* Balancers are made one after the other, each by one route, and a load   *)
(* balanced route has one of its own link from addToLoadBalancer on.       *)
BalancerLife ==
  /\ \A r \in RLRoutes : /\ rlBal[r] # 0 <=> (KindOf[r] = "lb" /\ rlPc[r] \in LinkedPc)
                         /\ rlPc[r] = "linked" => KindOf[r] = "lb"
  /\ \A r \in RLRoutes : rlBal[r] # 0 =>
       rlOwner[rlBal[r]] \in RLRoutes /\ KeyOf[rlOwner[rlBal[r]]] = KeyOf[r]
  /\ \A b \in Balancers : rlOwner[b] # NoRoute => rlBal[rlOwner[b]] = b
  /\ \E m \in Balancers \union {0} : \A b \in Balancers : rlOwner[b] # NoRoute <=> b <= m

(* A route that an entry of a pool or of the short links may stand for:    *)
(* from the end of its Start to the callback that removes the entry.       *)
Holds(r) ==
  \/ KindOf[r] \in {"http", "stream", "excluded"} /\ rlPc[r] = "up"
  \/ KindOf[r] = "file" /\ rlPc[r] \in {"up", "cancelled"}
  \/ KindOf[r] = "lb" /\ rlPc[r] \in {"linked", "up", "cancelled"} /\ rlOwner[rlBal[r]] = r

PoolHeld == \A k \in RLKeys : rlPool[k] # NoRoute => KeyOf[rlPool[k]] = k /\ Holds(rlPool[k])

ShortHeld ==
  \A k \in rlShort : \E r \in RLRoutes : KeyOf[r] = k /\ KindOf[r] \in {"http", "file", "lb"} /\ Holds(r)

(* The link names the balancer of a creator that has not ended.            *)
LinkNamed ==
  \A b \in Balancers : rlOwner[b] # NoRoute /\ rlPc[rlOwner[b]] # "ended" =>
    rlPool[KeyOf[rlOwner[b]]] = rlOwner[b]

ServersUp == \A b \in Balancers, r \in RLRoutes : r \in rlServers[b] <=> (rlPc[r] = "up" /\ rlBal[r] = b)

HealthRuns == \A r \in rlHealth : rlPc[r] \in {"begun", "linked", "up"}

AloneFound ==
  \A r \in RLRoutes : rlPc[r] = "up" /\ KindOf[r] # "lb" /\ ~Shared(r) =>
    rlPool[KeyOf[r]] = r /\ (KindOf[r] \in {"http", "file"} => KeyOf[r] \in rlShort)

LinksInv ==
  LinkTypes /\ BalancerLife /\ PoolHeld /\ ShortHeld /\ LinkNamed /\ ServersUp /\ HealthRuns /\ AloneFound
-----------------------------------------------------------------------------
LBRoutes == {r \in RLRoutes : KindOf[r] = "lb"}

LEMMA BalancerCount ==
  /\ IsFiniteSet(LBRoutes) /\ Cardinality(LBRoutes) \in Nat
  /\ Balancers = 1..Cardinality(LBRoutes) /\ 0 \notin Balancers
<1>1. IsFiniteSet(LBRoutes)
  BY LinksAssumption, FS_Subset DEF LBRoutes
<1>2. Cardinality(LBRoutes) \in Nat
  BY <1>1, FS_CardinalityType
<1> QED
  BY <1>1, <1>2 DEF Balancers, LBRoutes

(* The invariant spelled out, for the steps that follow.                   *)
LEMMA LinksUnfolded ==
  ASSUME LinksInv
  PROVE  /\ rlPc \in [RLRoutes -> {"new", "begun", "failed"} \union LinkedPc]
         /\ rlPool \in [RLKeys -> RLRoutes \union {NoRoute}] /\ rlShort \subseteq RLKeys
         /\ rlBal \in [RLRoutes -> Balancers \union {0}]
         /\ rlServers \in [Balancers -> SUBSET RLRoutes]
         /\ rlOwner \in [Balancers -> RLRoutes \union {NoRoute}]
         /\ rlHealth \subseteq RLRoutes
         /\ \A r \in RLRoutes : KeyOf[r] \in RLKeys
         /\ \A r \in RLRoutes : KindOf[r] \in {"http", "lb", "file", "stream", "excluded"}
         /\ BalancerLife /\ PoolHeld /\ ShortHeld /\ LinkNamed /\ ServersUp /\ HealthRuns /\ AloneFound
BY LinksAssumption DEF LinksInv, LinkTypes, RLKeys

(* As long as a load balanced route has no balancer there is a fresh one:  *)
(* each balancer was made by another route.                                *)
LEMMA FreshExists ==
  ASSUME LinksInv, NEW r \in RLRoutes, KindOf[r] = "lb", rlBal[r] = 0
  PROVE  /\ FreshBalancer \in Balancers /\ rlOwner[FreshBalancer] = NoRoute
         /\ \A b \in Balancers : rlOwner[b] # NoRoute <=> b < FreshBalancer
<1> DEFINE N == Cardinality(LBRoutes)
<1>1. /\ rlOwner \in [Balancers -> RLRoutes \union {NoRoute}] /\ BalancerLife
      /\ IsFiniteSet(LBRoutes) /\ N \in Nat /\ Balancers = 1..N
  BY LinksUnfolded, BalancerCount
<1>2. PICK m \in Balancers \union {0} : \A b \in Balancers : rlOwner[b] # NoRoute <=> b <= m
  BY <1>1 DEF BalancerLife
<1>3. m # N
  <2> SUFFICES ASSUME m = N PROVE FALSE
    OBVIOUS
  <2>1. \A b \in Balancers : rlOwner[b] \in LBRoutes \ {r} /\ rlBal[rlOwner[b]] = b
    <3> TAKE b \in Balancers
    <3>1. rlOwner[b] \in RLRoutes /\ rlBal[rlOwner[b]] = b /\ b # 0
      BY <1>1, <1>2 DEF BalancerLife
    <3> QED
      BY <3>1, <1>1 DEF BalancerLife, LBRoutes
  <2>2. rlOwner \in [Balancers -> LBRoutes \ {r}] /\ \A b, c \in Balancers : rlOwner[b] = rlOwner[c] => b = c
    BY ONLY <2>1, <1>1
  <2>3. rlOwner \in Injection(1..N, LBRoutes \ {r})
    BY <2>2, <1>1 DEF Injection, IsInjective
  <2>4. IsFiniteSet(LBRoutes \ {r}) /\ Cardinality(LBRoutes \ {r}) = N - 1
    BY <1>1, FS_RemoveElement DEF LBRoutes
  <2>5. IsFiniteSet(1..N) /\ Cardinality(1..N) = N
    BY <1>1, FS_Interval
  <2>6. Cardinality(1..N) <= Cardinality(LBRoutes \ {r})
    BY <2>3, <2>4, FS_Injection DEF ExistsInjection
  <2> QED
    BY ONLY <2>4, <2>5, <2>6, <1>1
<1>4. m + 1 \in Balancers /\ m \in Nat
  BY <1>1, <1>2, <1>3
<1>5. rlOwner[m + 1] = NoRoute /\ \A c \in 1..(m + 1)-1 : rlOwner[c] # NoRoute
  BY <1>1, <1>2, <1>4
<1>6. /\ FreshBalancer \in Balancers /\ rlOwner[FreshBalancer] = NoRoute
      /\ \A c \in 1..FreshBalancer-1 : rlOwner[c] # NoRoute
  BY <1>4, <1>5 DEF FreshBalancer
<1>7. FreshBalancer = m + 1
  <2>1. FreshBalancer \in Nat /\ FreshBalancer > m
    BY <1>1, <1>2, <1>4, <1>6
  <2>2. m + 1 \notin 1..FreshBalancer-1
    BY <1>5, <1>6
  <2> QED
    BY <2>1, <2>2, <1>4
<1> QED
  BY <1>1, <1>2, <1>4, <1>6, <1>7

(* Steps of a Start before the registration.                               *)
LEMMA LinkStartInductive ==
  ASSUME LinksInv, NEW r \in RLRoutes, rlPc[r] = "new",
         NEW s \in {"begun", "failed"}, rlPc' = [rlPc EXCEPT ![r] = s],
         rlHealth' = rlHealth \/ (s = "begun" /\ rlHealth' = rlHealth \union {r}),
         UNCHANGED <<rlPool, rlShort, rlBal, rlServers, rlOwner>>
  PROVE  LinksInv'
<1> USE LinksUnfolded
<1>1. /\ rlPc' \in [RLRoutes -> {"new", "begun", "failed"} \union LinkedPc] /\ rlPc'[r] = s
      /\ \A o \in RLRoutes : o # r => rlPc'[o] = rlPc[o]
  OBVIOUS
<1>2. \A o \in RLRoutes : Holds(o)' <=> Holds(o)
  BY <1>1 DEF Holds
<1>3. LinkTypes'
  BY <1>1 DEF LinkTypes
<1>4. BalancerLife'
  BY <1>1 DEF BalancerLife, LinkedPc
<1>5. PoolHeld'
  BY <1>2 DEF PoolHeld
<1>6. ShortHeld'
  BY <1>2 DEF ShortHeld
<1>7. LinkNamed'
  <2>1. \A b \in Balancers : rlOwner[b] # NoRoute => rlOwner[b] # r
    <3>1. rlBal[r] = 0
      BY DEF BalancerLife, LinkedPc
    <3>2. 0 \notin Balancers
      BY BalancerCount
    <3>3. \A b \in Balancers : rlOwner[b] # NoRoute => rlBal[rlOwner[b]] = b
      BY DEF BalancerLife
    <3> QED
      BY ONLY <3>1, <3>2, <3>3
  <2> QED
    BY <2>1, <1>1 DEF LinkNamed
<1>8. ServersUp' /\ HealthRuns' /\ AloneFound'
  BY <1>1 DEF ServersUp, HealthRuns, AloneFound, Shared
<1> QED
  BY <1>3, <1>4, <1>5, <1>6, <1>7, <1>8 DEF LinksInv

(* A route that is not load balanced enters its pool.                      *)
LEMMA RegisterInductive ==
  ASSUME LinksInv, NEW r \in RLRoutes, Register(r) \/ StartExcluded(r)
  PROVE  LinksInv'
<1>0. /\ rlPc[r] \in {"new", "begun"} /\ KindOf[r] \in {"http", "file", "stream", "excluded"}
      /\ rlPool' = PoolAdd(r) /\ rlPc' = [rlPc EXCEPT ![r] = "up"]
      /\ rlShort' = rlShort \/ rlShort' = rlShort \union {KeyOf[r]}
      /\ KindOf[r] \in {"http", "file"} => rlShort' = rlShort \union {KeyOf[r]}
      /\ KindOf[r] \notin {"http", "file"} => rlShort' = rlShort
      /\ rlHealth' \subseteq rlHealth \union {r} /\ UNCHANGED <<rlBal, rlServers, rlOwner>>
  BY LinksUnfolded DEF Register, StartExcluded
<1> USE LinksUnfolded
<1>1. /\ rlPc' \in [RLRoutes -> {"new", "begun", "failed"} \union LinkedPc] /\ rlPc'[r] = "up"
      /\ \A o \in RLRoutes : o # r => rlPc'[o] = rlPc[o]
  BY <1>0 DEF LinkedPc
<1>2. /\ rlPool' \in [RLKeys -> RLRoutes \union {NoRoute}]
      /\ \A k \in RLKeys : rlPool'[k] = rlPool[k] \/ (k = KeyOf[r] /\ rlPool'[k] = r)
      /\ rlPool[KeyOf[r]] = NoRoute => rlPool'[KeyOf[r]] = r
  <2>1. CASE rlPool' = rlPool /\ rlPool[KeyOf[r]] # NoRoute
    BY <2>1
  <2>2. CASE rlPool' = [rlPool EXCEPT ![KeyOf[r]] = r]
    BY <2>2
  <2> QED
    BY <1>0, <2>1, <2>2 DEF PoolAdd
<1>3. /\ ~Holds(r) /\ Holds(r)' /\ \A o \in RLRoutes : o # r => (Holds(o)' <=> Holds(o))
      /\ \A o \in RLRoutes : Holds(o) => Holds(o)'
  BY <1>0, <1>1 DEF Holds
<1>4. LinkTypes'
  BY <1>0, <1>1, <1>2 DEF LinkTypes
<1>5. BalancerLife'
  BY <1>0, <1>1 DEF BalancerLife
<1>6. PoolHeld'
  <2> SUFFICES ASSUME NEW k \in RLKeys, rlPool'[k] # NoRoute
               PROVE  KeyOf[rlPool'[k]] = k /\ Holds(rlPool[k])'
    BY DEF PoolHeld
  <2>1. CASE rlPool'[k] = rlPool[k]
    <3>1. rlPool[k] \in RLRoutes /\ KeyOf[rlPool[k]] = k /\ Holds(rlPool[k])
      BY <2>1 DEF PoolHeld
    <3>2. PICK o \in RLRoutes : o = rlPool[k]
      BY <3>1
    <3> QED
      BY <3>1, <3>2, <2>1, <1>3 DEF Holds
  <2>2. CASE k = KeyOf[r] /\ rlPool'[k] = r
    BY <2>2, <1>3 DEF Holds
  <2> QED
    BY <1>2, <2>1, <2>2
<1>7. ShortHeld'
  BY <1>0, <1>3 DEF ShortHeld
<1>8. LinkNamed'
  <2> SUFFICES ASSUME NEW b \in Balancers, NEW o, o = rlOwner[b], o # NoRoute, rlPc'[o] # "ended"
               PROVE  rlPool'[KeyOf[o]] = o
    BY <1>0 DEF LinkNamed
  <2>1. o \in RLRoutes /\ rlBal[o] # 0 /\ KindOf[o] = "lb"
    BY BalancerCount DEF BalancerLife
  <2>2. o # r /\ KeyOf[o] # KeyOf[r]
    BY <2>1, <1>0, LinksAssumption
  <2>3. rlPool[KeyOf[o]] = o
    BY <2>1, <2>2, <1>1 DEF LinkNamed
  <2> QED
    BY <2>1, <2>2, <2>3, <1>2
<1>9. ServersUp'
  <2>1. rlBal[r] = 0 /\ 0 \notin Balancers
    BY <1>0, BalancerCount DEF BalancerLife
  <2> QED
    BY <2>1, <1>0, <1>1 DEF ServersUp
<1>10. HealthRuns'
  BY <1>0, <1>1 DEF HealthRuns
<1>11. AloneFound'
  <2> SUFFICES ASSUME NEW o \in RLRoutes, rlPc'[o] = "up", KindOf[o] # "lb", ~Shared(o)
               PROVE  rlPool'[KeyOf[o]] = o /\ (KindOf[o] \in {"http", "file"} => KeyOf[o] \in rlShort')
    BY DEF AloneFound, Shared
  <2>1. CASE o = r
    <3>1. rlPool[KeyOf[r]] = NoRoute
      BY <2>1, <1>3 DEF PoolHeld, Shared
    <3> QED
      BY <3>1, <2>1, <1>0, <1>2
  <2>2. CASE o # r
    <3>1. KeyOf[o] # KeyOf[r]
      BY <2>2 DEF Shared
    <3> QED
      BY <3>1, <2>2, <1>0, <1>1, <1>2 DEF AloneFound
  <2> QED
    BY <2>1, <2>2
<1> QED
  BY <1>4, <1>5, <1>6, <1>7, <1>8, <1>9, <1>10, <1>11 DEF LinksInv

(* A load balanced route takes the balancer of its link.                   *)
LEMMA JoinOldInductive ==
  ASSUME LinksInv, NEW r \in RLRoutes, JoinLink(r), rlPool[KeyOf[r]] # NoRoute
  PROVE  LinksInv'
<1> USE LinksUnfolded
<1>0. PICK p : /\ p = rlPool[KeyOf[r]] /\ rlBal' = [rlBal EXCEPT ![r] = rlBal[p]]
               /\ rlPc[r] = "begun" /\ KindOf[r] = "lb" /\ rlPc' = [rlPc EXCEPT ![r] = "linked"]
               /\ UNCHANGED <<rlPool, rlShort, rlOwner, rlServers, rlHealth>>
  BY DEF JoinLink
<1>1. /\ p \in RLRoutes /\ KeyOf[p] = KeyOf[r] /\ KindOf[p] = "lb" /\ rlOwner[rlBal[p]] = p
      /\ rlPc[p] \in {"linked", "up", "cancelled"} /\ p # r
  <2>1. p \in RLRoutes /\ KeyOf[p] = KeyOf[r] /\ Holds(p)
    BY <1>0 DEF PoolHeld
  <2>2. KindOf[p] = "lb"
    BY <2>1, <1>0, LinksAssumption
  <2> QED
    BY <2>1, <2>2, <1>0 DEF Holds
<1>2. rlBal[p] \in Balancers /\ rlBal[r] = 0 /\ 0 \notin Balancers
  BY <1>0, <1>1, BalancerCount DEF BalancerLife, LinkedPc
<1>3. /\ rlPc' \in [RLRoutes -> {"new", "begun", "failed"} \union LinkedPc] /\ rlPc'[r] = "linked"
      /\ \A o \in RLRoutes : o # r => rlPc'[o] = rlPc[o]
  BY <1>0 DEF LinkedPc
<1>4. /\ rlBal' \in [RLRoutes -> Balancers \union {0}] /\ rlBal'[r] = rlBal[p]
      /\ \A o \in RLRoutes : o # r => rlBal'[o] = rlBal[o]
  BY <1>0, <1>2
<1>5. ~Holds(r) /\ \A o \in RLRoutes : o # r => (Holds(o)' <=> Holds(o))
  BY <1>0, <1>3, <1>4 DEF Holds
<1>6. \A b \in Balancers : rlOwner[b] # r
  BY <1>2, LinksAssumption DEF BalancerLife
<1>7. LinkTypes'
  BY <1>0, <1>3, <1>4 DEF LinkTypes
<1>8. BalancerLife'
  <2>1. \A o \in RLRoutes : /\ rlBal'[o] # 0 <=> (KindOf[o] = "lb" /\ rlPc'[o] \in LinkedPc)
                            /\ rlPc'[o] = "linked" => KindOf[o] = "lb"
    BY <1>0, <1>2, <1>3, <1>4 DEF BalancerLife, LinkedPc
  <2>2. \A o \in RLRoutes : rlBal'[o] # 0 => rlOwner'[rlBal'[o]] \in RLRoutes /\ KeyOf[rlOwner'[rlBal'[o]]] = KeyOf[o]
    BY <1>0, <1>1, <1>4 DEF BalancerLife
  <2>3. \A b \in Balancers : rlOwner'[b] # NoRoute => rlBal'[rlOwner'[b]] = b
    BY <1>0, <1>4, <1>6 DEF BalancerLife
  <2>4. \E m \in Balancers \union {0} : \A b \in Balancers : rlOwner'[b] # NoRoute <=> b <= m
    BY <1>0 DEF BalancerLife
  <2> QED
    BY ONLY <2>1, <2>2, <2>3, <2>4 DEF BalancerLife
<1>9. PoolHeld'
  BY <1>0, <1>5 DEF PoolHeld
<1>10. ShortHeld'
  BY <1>0, <1>5 DEF ShortHeld
<1>11. LinkNamed'
  BY <1>0, <1>3, <1>6 DEF LinkNamed
<1>12. ServersUp' /\ HealthRuns'
  BY <1>0, <1>3, <1>4 DEF ServersUp, HealthRuns
<1>13. AloneFound'
  BY <1>0, <1>3 DEF AloneFound, Shared
<1> QED
  BY <1>7, <1>8, <1>9, <1>10, <1>11, <1>12, <1>13 DEF LinksInv

(* The first route of a link makes its balancer.                           *)
LEMMA JoinNewInductive ==
  ASSUME LinksInv, NEW r \in RLRoutes, JoinLink(r), rlPool[KeyOf[r]] = NoRoute
  PROVE  LinksInv'
<1> USE LinksUnfolded
<1>0. PICK f : /\ f = FreshBalancer /\ rlBal' = [rlBal EXCEPT ![r] = f]
               /\ rlOwner' = [rlOwner EXCEPT ![f] = r]
               /\ rlPool' = [rlPool EXCEPT ![KeyOf[r]] = r] /\ rlShort' = rlShort \union {KeyOf[r]}
               /\ rlPc[r] = "begun" /\ KindOf[r] = "lb" /\ rlPc' = [rlPc EXCEPT ![r] = "linked"]
               /\ UNCHANGED <<rlServers, rlHealth>>
  BY DEF JoinLink
<1>1. rlBal[r] = 0 /\ 0 \notin Balancers /\ r # NoRoute
  BY <1>0, BalancerCount, LinksAssumption DEF BalancerLife, LinkedPc
<1>2. /\ f \in Balancers /\ rlOwner[f] = NoRoute
      /\ \A b \in Balancers : rlOwner[b] # NoRoute <=> b < f
  BY <1>0, <1>1, FreshExists
<1>3. /\ rlPc' \in [RLRoutes -> {"new", "begun", "failed"} \union LinkedPc] /\ rlPc'[r] = "linked"
      /\ \A o \in RLRoutes : o # r => rlPc'[o] = rlPc[o]
  BY <1>0 DEF LinkedPc
<1>4. /\ rlBal' \in [RLRoutes -> Balancers \union {0}] /\ rlBal'[r] = f
      /\ \A o \in RLRoutes : o # r => rlBal'[o] = rlBal[o]
  BY <1>0, <1>2
<1>5. /\ rlOwner' \in [Balancers -> RLRoutes \union {NoRoute}] /\ rlOwner'[f] = r
      /\ \A b \in Balancers : b # f => rlOwner'[b] = rlOwner[b]
  BY <1>0, <1>2
<1>6. /\ rlPool' \in [RLKeys -> RLRoutes \union {NoRoute}] /\ rlPool'[KeyOf[r]] = r
      /\ \A k \in RLKeys : k # KeyOf[r] => rlPool'[k] = rlPool[k]
  BY <1>0
<1>7. \A o \in RLRoutes : rlBal[o] # 0 => rlBal[o] \in Balancers /\ rlBal[o] # f
  BY <1>1, <1>2, LinksAssumption DEF BalancerLife
<1>8. \A b \in Balancers : rlOwner[b] # r
  BY <1>1 DEF BalancerLife
<1>9. /\ Holds(r)' /\ \A o \in RLRoutes : Holds(o) => Holds(o)'
      /\ ~Holds(r)
  <2>1. \A o \in RLRoutes : KindOf[o] = "lb" /\ rlPc[o] \in LinkedPc => rlOwner'[rlBal'[o]] = rlOwner[rlBal[o]]
    <3> SUFFICES ASSUME NEW o \in RLRoutes, KindOf[o] = "lb", rlPc[o] \in LinkedPc
                 PROVE  rlOwner'[rlBal'[o]] = rlOwner[rlBal[o]]
      OBVIOUS
    <3>1. rlBal[o] # 0 /\ o # r
      BY <1>1 DEF BalancerLife
    <3> QED
      BY <3>1, <1>4, <1>5, <1>7
  <2>2. \A o \in RLRoutes : Holds(o) => o # r
    BY <1>0 DEF Holds
  <2> QED
    BY <1>0, <1>3, <1>4, <1>5, <2>1, <2>2 DEF Holds, LinkedPc
<1>10. LinkTypes'
  BY <1>0, <1>3, <1>4, <1>5, <1>6 DEF LinkTypes
<1>11. BalancerLife'
  <2>1. \A o \in RLRoutes : /\ rlBal'[o] # 0 <=> (KindOf[o] = "lb" /\ rlPc'[o] \in LinkedPc)
                            /\ rlPc'[o] = "linked" => KindOf[o] = "lb"
    BY <1>0, <1>1, <1>2, <1>3, <1>4 DEF BalancerLife, LinkedPc
  <2>2. \A o \in RLRoutes : rlBal'[o] # 0 => rlOwner'[rlBal'[o]] \in RLRoutes /\ KeyOf[rlOwner'[rlBal'[o]]] = KeyOf[o]
    BY <1>4, <1>5, <1>7 DEF BalancerLife
  <2>3. \A b \in Balancers : rlOwner'[b] # NoRoute => rlBal'[rlOwner'[b]] = b
    <3> TAKE b \in Balancers
    <3>1. CASE b = f
      BY <3>1, <1>4, <1>5
    <3>2. CASE b # f
      BY <3>2, <1>4, <1>5, <1>8 DEF BalancerLife
    <3> QED
      BY <3>1, <3>2
  <2>4. \A b \in Balancers : rlOwner'[b] # NoRoute <=> b <= f
    <3>1. f \in Nat /\ \A b \in Balancers : b \in Nat
      BY <1>2, BalancerCount
    <3> TAKE b \in Balancers
    <3>2. CASE b = f
      BY ONLY <3>1, <3>2, <1>1, <1>2, <1>5
    <3>3. CASE b # f
      <4>1. rlOwner'[b] = rlOwner[b] /\ (b <= f <=> b < f)
        BY ONLY <3>1, <3>3, <1>2, <1>5, b \in Balancers
      <4> QED
        BY ONLY <4>1, <1>2, b \in Balancers
    <3> QED
      BY ONLY <3>2, <3>3
  <2> QED
    BY <2>1, <2>2, <2>3, <2>4, <1>2 DEF BalancerLife
<1>12. PoolHeld'
  <2> SUFFICES ASSUME NEW k \in RLKeys, NEW o, o = rlPool'[k], o # NoRoute
               PROVE  KeyOf[o] = k /\ Holds(o)'
    BY DEF PoolHeld, Holds
  <2>1. CASE k = KeyOf[r]
    BY <2>1, <1>6, <1>9
  <2>2. CASE k # KeyOf[r]
    BY <2>2, <1>6, <1>9 DEF PoolHeld
  <2> QED
    BY <2>1, <2>2
<1>13. ShortHeld'
  BY <1>0, <1>9 DEF ShortHeld
<1>14. LinkNamed'
  <2> SUFFICES ASSUME NEW b \in Balancers, NEW o, o = rlOwner'[b], o # NoRoute, rlPc'[o] # "ended"
               PROVE  rlPool'[KeyOf[o]] = o
    BY DEF LinkNamed
  <2>1. CASE b = f
    BY <2>1, <1>5, <1>6
  <2>2. CASE b # f
    <3>1. o = rlOwner[b] /\ o \in RLRoutes /\ o # r
      BY <2>2, <1>5, <1>8
    <3>2. rlPool[KeyOf[o]] = o
      BY <3>1, <1>3 DEF LinkNamed
    <3> QED
      BY <3>1, <3>2, <1>6
  <2> QED
    BY <2>1, <2>2
<1>15. ServersUp' /\ HealthRuns'
  BY <1>0, <1>3, <1>4 DEF ServersUp, HealthRuns
<1>16. AloneFound'
  <2> SUFFICES ASSUME NEW o \in RLRoutes, rlPc'[o] = "up", KindOf[o] # "lb", ~Shared(o)
               PROVE  rlPool'[KeyOf[o]] = o /\ (KindOf[o] \in {"http", "file"} => KeyOf[o] \in rlShort')
    BY DEF AloneFound, Shared
  <2>1. o # r /\ KeyOf[o] # KeyOf[r]
    BY <1>0, LinksAssumption
  <2> QED
    BY <2>1, <1>0, <1>3, <1>6 DEF AloneFound
<1> QED
  BY <1>10, <1>11, <1>12, <1>13, <1>14, <1>15, <1>16 DEF LinksInv

(* The server of a route enters its balancer, or leaves it on OnCancel.    *)
LEMMA ServeInductive ==
  ASSUME LinksInv, NEW r \in RLRoutes, KindOf[r] = "lb", AddToBalancer(r) \/ CancelRoute(r)
  PROVE  LinksInv'
<1> USE LinksUnfolded
<1>0. /\ UNCHANGED <<rlPool, rlShort, rlBal, rlOwner>>
      /\ \/ /\ rlPc[r] = "linked" /\ rlPc' = [rlPc EXCEPT ![r] = "up"] /\ rlHealth' = rlHealth
            /\ rlServers' = [rlServers EXCEPT ![rlBal[r]] = @ \union {r}]
         \/ /\ rlPc[r] = "up" /\ rlPc' = [rlPc EXCEPT ![r] = "cancelled"] /\ rlHealth' = rlHealth \ {r}
            /\ rlServers' = [rlServers EXCEPT ![rlBal[r]] = @ \ {r}]
  <2>1. CASE AddToBalancer(r)
    BY <2>1 DEF AddToBalancer
  <2>2. CASE CancelRoute(r)
    BY <2>2 DEF CancelRoute, Cancelled
  <2> QED
    BY <2>1, <2>2
<1>1. rlBal[r] \in Balancers
  BY <1>0 DEF BalancerLife, LinkedPc
<1>2. /\ rlPc' \in [RLRoutes -> {"new", "begun", "failed"} \union LinkedPc]
      /\ \A o \in RLRoutes : o # r => rlPc'[o] = rlPc[o]
      /\ \/ rlPc[r] = "linked" /\ rlPc'[r] = "up"
         \/ rlPc[r] = "up" /\ rlPc'[r] = "cancelled"
  BY <1>0 DEF LinkedPc
<1>3. \A o \in RLRoutes : Holds(o)' <=> Holds(o)
  BY <1>0, <1>2 DEF Holds
<1>4. /\ rlServers' \in [Balancers -> SUBSET RLRoutes]
      /\ \A b \in Balancers, o \in RLRoutes : o \in rlServers'[b] <=> (rlPc'[o] = "up" /\ rlBal[o] = b)
  <2>1. CASE rlServers' = [rlServers EXCEPT ![rlBal[r]] = @ \union {r}] /\ rlPc'[r] = "up"
    BY <2>1, <1>1, <1>2 DEF ServersUp
  <2>2. CASE rlServers' = [rlServers EXCEPT ![rlBal[r]] = @ \ {r}] /\ rlPc'[r] = "cancelled"
    BY <2>2, <1>1, <1>2 DEF ServersUp
  <2> QED
    BY <1>0, <2>1, <2>2
<1>5. LinkTypes'
  <2>1. rlHealth' \subseteq RLRoutes
    BY <1>0
  <2> QED
    BY <2>1, <1>0, <1>2, <1>4 DEF LinkTypes
<1>6. BalancerLife'
  BY <1>0, <1>2 DEF BalancerLife, LinkedPc
<1>7. PoolHeld'
  BY <1>0, <1>3 DEF PoolHeld
<1>8. ShortHeld'
  BY <1>0, <1>3 DEF ShortHeld
<1>9. LinkNamed'
  BY <1>0, <1>2 DEF LinkNamed
<1>10. ServersUp'
  BY <1>0, <1>4 DEF ServersUp
<1>11. HealthRuns'
  BY <1>0, <1>2 DEF HealthRuns
<1>12. AloneFound'
  BY <1>0, <1>2 DEF AloneFound, Shared
<1> QED
  BY <1>5, <1>6, <1>7, <1>8, <1>9, <1>10, <1>11, <1>12 DEF LinksInv

(* Any other route is cancelled: all but a file server leave their pool.   *)
LEMMA CancelInductive ==
  ASSUME LinksInv, NEW r \in RLRoutes, KindOf[r] # "lb", CancelRoute(r)
  PROVE  LinksInv'
<1> USE LinksUnfolded
<1>0. /\ rlPc[r] = "up" /\ rlPc' = [rlPc EXCEPT ![r] = "cancelled"] /\ rlHealth' = rlHealth \ {r}
      /\ UNCHANGED <<rlBal, rlOwner, rlServers>>
      /\ \/ KindOf[r] = "file" /\ UNCHANGED <<rlPool, rlShort>>
         \/ /\ KindOf[r] \in {"http", "stream", "excluded"}
            /\ rlPool' = [rlPool EXCEPT ![KeyOf[r]] = NoRoute]
            /\ rlShort' = IF KindOf[r] = "http" THEN rlShort \ {KeyOf[r]} ELSE rlShort
  BY DEF CancelRoute, Cancelled, PoolDel
<1>1. /\ rlPc' \in [RLRoutes -> {"new", "begun", "failed"} \union LinkedPc] /\ rlPc'[r] = "cancelled"
      /\ \A o \in RLRoutes : o # r => rlPc'[o] = rlPc[o]
  BY <1>0 DEF LinkedPc
<1>2. /\ rlPool' \in [RLKeys -> RLRoutes \union {NoRoute}]
      /\ \A k \in RLKeys : k # KeyOf[r] => rlPool'[k] = rlPool[k]
      /\ rlPool'[KeyOf[r]] = NoRoute \/ (KindOf[r] = "file" /\ rlPool' = rlPool)
  BY <1>0
<1>3. /\ \A o \in RLRoutes : o # r => (Holds(o)' <=> Holds(o))
      /\ KindOf[r] = "file" => Holds(r)'
  BY <1>0, <1>1 DEF Holds
<1>4. LinkTypes'
  <2>1. rlHealth' \subseteq RLRoutes /\ rlShort' \subseteq RLKeys
    BY <1>0
  <2> QED
    BY <2>1, <1>0, <1>1, <1>2 DEF LinkTypes
<1>5. BalancerLife'
  BY <1>0, <1>1 DEF BalancerLife
<1>6. PoolHeld'
  <2> SUFFICES ASSUME NEW k \in RLKeys, NEW o, o = rlPool'[k], o # NoRoute
               PROVE  KeyOf[o] = k /\ Holds(o)'
    BY DEF PoolHeld, Holds
  <2>1. o = rlPool[k] /\ o \in RLRoutes /\ KeyOf[o] = k /\ Holds(o) /\ (k = KeyOf[r] => KindOf[r] = "file")
    BY <1>2 DEF PoolHeld
  <2> QED
    BY <2>1, <1>3
<1>7. ShortHeld'
  <2> SUFFICES ASSUME NEW k \in rlShort'
               PROVE  \E o \in RLRoutes : KeyOf[o] = k /\ KindOf[o] \in {"http", "file", "lb"} /\ Holds(o)'
    BY DEF ShortHeld
  <2>1. k \in rlShort /\ (KindOf[r] = "http" => k # KeyOf[r])
    BY <1>0
  <2>2. PICK o \in RLRoutes : KeyOf[o] = k /\ KindOf[o] \in {"http", "file", "lb"} /\ Holds(o)
    BY <2>1 DEF ShortHeld
  <2>3. o = r => KindOf[r] = "file"
    BY <2>1, <2>2
  <2> QED
    BY <2>2, <2>3, <1>3
<1>8. LinkNamed'
  <2> SUFFICES ASSUME NEW b \in Balancers, NEW o, o = rlOwner[b], o # NoRoute, rlPc'[o] # "ended"
               PROVE  rlPool'[KeyOf[o]] = o
    BY <1>0 DEF LinkNamed
  <2>1. o \in RLRoutes /\ rlBal[o] # 0 /\ KindOf[o] = "lb"
    BY BalancerCount DEF BalancerLife
  <2>2. o # r /\ KeyOf[o] # KeyOf[r]
    BY <2>1, LinksAssumption
  <2>3. rlPool[KeyOf[o]] = o
    BY <2>1, <2>2, <1>1 DEF LinkNamed
  <2> QED
    BY <2>1, <2>2, <2>3, <1>2
<1>9. ServersUp'
  <2>1. rlBal[r] = 0 /\ 0 \notin Balancers
    BY BalancerCount DEF BalancerLife
  <2> QED
    BY <2>1, <1>0, <1>1 DEF ServersUp
<1>10. HealthRuns'
  BY <1>0, <1>1 DEF HealthRuns
<1>11. AloneFound'
  <2> SUFFICES ASSUME NEW o \in RLRoutes, rlPc'[o] = "up", KindOf[o] # "lb", ~Shared(o)
               PROVE  rlPool'[KeyOf[o]] = o /\ (KindOf[o] \in {"http", "file"} => KeyOf[o] \in rlShort')
    BY DEF AloneFound, Shared
  <2>1. o # r /\ KeyOf[o] # KeyOf[r]
    BY <1>1 DEF Shared
  <2> QED
    BY <2>1, <1>0, <1>1, <1>2 DEF AloneFound
<1> QED
  BY <1>4, <1>5, <1>6, <1>7, <1>8, <1>9, <1>10, <1>11 DEF LinksInv

(* The task of a route has finished: a file server leaves its pool, and    *)
(* the creator of a balancer takes the link along.                         *)
LEMMA LinkFinishInductive ==
  ASSUME LinksInv, NEW r \in RLRoutes, FinishRoute(r)
  PROVE  LinksInv'
<1> USE LinksUnfolded
<1> DEFINE leaves == KindOf[r] = "file" \/ (KindOf[r] = "lb" /\ rlOwner[rlBal[r]] = r)
<1>0. /\ rlPc[r] = "cancelled" /\ rlPc' = [rlPc EXCEPT ![r] = "ended"]
      /\ UNCHANGED <<rlBal, rlOwner, rlServers, rlHealth>>
      /\ leaves => rlPool' = [rlPool EXCEPT ![KeyOf[r]] = NoRoute] /\ rlShort' = rlShort \ {KeyOf[r]}
      /\ ~leaves => UNCHANGED <<rlPool, rlShort>>
  BY DEF FinishRoute, PoolDel
<1>1. /\ rlPc' \in [RLRoutes -> {"new", "begun", "failed"} \union LinkedPc] /\ rlPc'[r] = "ended"
      /\ \A o \in RLRoutes : o # r => rlPc'[o] = rlPc[o]
  BY <1>0 DEF LinkedPc
<1>2. /\ rlPool' \in [RLKeys -> RLRoutes \union {NoRoute}]
      /\ \A k \in RLKeys : k # KeyOf[r] \/ ~leaves => rlPool'[k] = rlPool[k]
      /\ leaves => rlPool'[KeyOf[r]] = NoRoute
  BY <1>0
<1>3. /\ \A o \in RLRoutes : o # r => (Holds(o)' <=> Holds(o))
      /\ ~leaves => ~Holds(r)
  BY <1>0, <1>1 DEF Holds
<1>4. LinkTypes'
  <2>1. rlShort' \subseteq RLKeys
    BY <1>0
  <2> QED
    BY <2>1, <1>0, <1>1, <1>2 DEF LinkTypes
<1>5. BalancerLife'
  BY <1>0, <1>1 DEF BalancerLife, LinkedPc
<1> HIDE DEF leaves
<1>6. PoolHeld'
  <2> SUFFICES ASSUME NEW k \in RLKeys, NEW o, o = rlPool'[k], o # NoRoute
               PROVE  KeyOf[o] = k /\ Holds(o)'
    BY DEF PoolHeld, Holds
  <2>1. o = rlPool[k] /\ o \in RLRoutes /\ KeyOf[o] = k /\ Holds(o) /\ (k = KeyOf[r] => ~leaves)
    BY <1>2 DEF PoolHeld
  <2>2. o # r
    BY <2>1, <1>3
  <2> QED
    BY <2>1, <2>2, <1>3
<1>7. ShortHeld'
  <2> SUFFICES ASSUME NEW k \in rlShort'
               PROVE  \E o \in RLRoutes : KeyOf[o] = k /\ KindOf[o] \in {"http", "file", "lb"} /\ Holds(o)'
    BY DEF ShortHeld
  <2>1. k \in rlShort /\ (leaves => k # KeyOf[r])
    BY <1>0
  <2>2. PICK o \in RLRoutes : KeyOf[o] = k /\ KindOf[o] \in {"http", "file", "lb"} /\ Holds(o)
    BY <2>1 DEF ShortHeld
  <2>3. o # r
    BY <2>1, <2>2, <1>3
  <2> QED
    BY <2>2, <2>3, <1>3
<1>8. LinkNamed'
  <2> SUFFICES ASSUME NEW b \in Balancers, NEW o, o = rlOwner[b], o # NoRoute, rlPc'[o] # "ended"
               PROVE  rlPool'[KeyOf[o]] = o
    BY <1>0 DEF LinkNamed
  <2>1. o \in RLRoutes /\ rlBal[o] = b /\ KindOf[o] = "lb" /\ o # r
    BY BalancerCount, <1>1 DEF BalancerLife
  <2>2. rlPool[KeyOf[o]] = o
    BY <2>1, <1>1 DEF LinkNamed
  <2>3. KeyOf[o] # KeyOf[r] \/ ~leaves
    <3> SUFFICES ASSUME KeyOf[o] = KeyOf[r], leaves PROVE FALSE
      OBVIOUS
    <3>1. KindOf[r] = "lb" /\ rlOwner[rlBal[r]] = r
      BY <2>1, LinksAssumption DEF leaves
    <3>2. rlBal[r] \in Balancers /\ r # NoRoute
      BY <3>1, <1>0, LinksAssumption DEF BalancerLife, LinkedPc
    <3>3. rlPool[KeyOf[r]] = r
      BY <3>1, <3>2, <1>0 DEF LinkNamed
    <3> QED
      BY <3>3, <2>1, <2>2
  <2> QED
    BY <2>1, <2>2, <2>3, <1>2
<1>9. ServersUp' /\ HealthRuns'
  BY <1>0, <1>1 DEF ServersUp, HealthRuns
<1>10. AloneFound'
  <2> SUFFICES ASSUME NEW o \in RLRoutes, rlPc'[o] = "up", KindOf[o] # "lb", ~Shared(o)
               PROVE  rlPool'[KeyOf[o]] = o /\ (KindOf[o] \in {"http", "file"} => KeyOf[o] \in rlShort')
    BY DEF AloneFound, Shared
  <2>1. o # r /\ KeyOf[o] # KeyOf[r]
    BY <1>1 DEF Shared
  <2>2. rlShort' = rlShort \/ rlShort' = rlShort \ {KeyOf[r]}
    BY <1>0
  <2> QED
    BY <2>1, <2>2, <1>1, <1>2 DEF AloneFound
<1> QED
  BY <1>4, <1>5, <1>6, <1>7, <1>8, <1>9, <1>10 DEF LinksInv

LEMMA LinksInitially ==
  ASSUME LinksInit
  PROVE  LinksInv
<1> USE DEF LinksInit
<1>1. LinkTypes
  BY DEF LinkTypes
<1>2. BalancerLife
  <2>1. \A b \in Balancers : b \in Nat /\ b > 0
    BY BalancerCount
  <2> QED
    BY <2>1 DEF BalancerLife, LinkedPc
<1>3. PoolHeld /\ ShortHeld /\ LinkNamed /\ HealthRuns /\ AloneFound
  BY DEF PoolHeld, ShortHeld, LinkNamed, HealthRuns, AloneFound
<1>4. ServersUp
  BY DEF ServersUp
<1> QED
  BY <1>1, <1>2, <1>3, <1>4 DEF LinksInv

(* The inductive invariant of the registry: who an entry stands for, and   *)
(* which route made each balancer (Start, addToLoadBalancer, OnCancel and  *)
(* OnFinished of the routes).                                              *)
THEOREM LinksInvariant == LinksSpec => []LinksInv
<1>1. LinksInit => LinksInv
  BY LinksInitially
<1>2. LinksInv /\ [LinksNext]_rlVars => LinksInv'
  <2> SUFFICES ASSUME LinksInv, [LinksNext]_rlVars PROVE LinksInv'
    OBVIOUS
  <2>1. CASE UNCHANGED rlVars
    BY <2>1 DEF rlVars, LinksInv, LinkTypes, BalancerLife, PoolHeld, ShortHeld, Holds, LinkNamed,
                ServersUp, HealthRuns, AloneFound, Shared
  <2>2. CASE LinksNext
    <3>1. PICK r \in RLRoutes : \/ StartRoute(r) \/ StartFileServer(r) \/ StartStream(r) \/ StartExcluded(r)
                                \/ Register(r) \/ JoinLink(r) \/ AddToBalancer(r)
                                \/ CancelRoute(r) \/ FinishRoute(r)
      BY <2>2 DEF LinksNext
    <3>2. CASE StartRoute(r) \/ StartFileServer(r) \/ StartStream(r)
      <4>1. /\ rlPc[r] = "new" /\ UNCHANGED <<rlPool, rlShort, rlBal, rlServers, rlOwner>>
            /\ StartFails(r) \/ Begins(r) \/ (rlPc' = [rlPc EXCEPT ![r] = "begun"] /\ UNCHANGED rlHealth)
        BY <3>2 DEF StartRoute, StartFileServer, StartStream
      <4>2. \E s \in {"begun", "failed"} :
              /\ rlPc' = [rlPc EXCEPT ![r] = s]
              /\ rlHealth' = rlHealth \/ (s = "begun" /\ rlHealth' = rlHealth \union {r})
        BY <4>1 DEF StartFails, Begins
      <4> QED
        BY <4>1, <4>2, LinkStartInductive
    <3>3. CASE StartExcluded(r) \/ Register(r)
      BY <3>3, RegisterInductive
    <3>4. CASE JoinLink(r)
      BY <3>4, JoinOldInductive, JoinNewInductive
    <3>5. CASE AddToBalancer(r)
      <4>1. KindOf[r] = "lb"
        BY <3>5, LinksUnfolded DEF AddToBalancer, BalancerLife
      <4> QED
        BY <4>1, <3>5, ServeInductive
    <3>6. CASE CancelRoute(r)
      BY <3>6, ServeInductive, CancelInductive
    <3>7. CASE FinishRoute(r)
      BY <3>7, LinkFinishInductive
    <3> QED
      BY <3>1, <3>2, <3>3, <3>4, <3>5, <3>6, <3>7
  <2> QED
    BY <2>1, <2>2
<1> QED
  BY <1>1, <1>2, PTL DEF LinksSpec

(* The registry follows the lives of the routes, for any routes, aliases   *)
(* and links (Start, OnCancel and OnFinished of each kind, and             *)
(* addToLoadBalancer).                                                     *)
THEOREM RegistryFollowsRoutes == LinksSpec => []RegistryFollows
<1>1. LinksInv => RegistryFollows
  <2> SUFFICES ASSUME LinksInv PROVE RegistryFollows
    OBVIOUS
  <2> USE LinksUnfolded
  <2>1. \A r \in RLRoutes : Holds(r) => Running(r)
    BY DEF Holds, Running
  <2>2. NothingOfTheDead
    <3>1. \A k \in RLKeys : rlPool[k] # NoRoute => Running(rlPool[k])
      BY <2>1 DEF PoolHeld
    <3>2. \A k \in rlShort : \E r \in RLRoutes : KeyOf[r] = k /\ Running(r)
      BY <2>1 DEF ShortHeld
    <3>3. \A b \in Balancers : \A r \in rlServers[b] : rlPc[r] = "up"
      BY DEF ServersUp
    <3>4. \A r \in rlHealth : Running(r)
      BY DEF HealthRuns, Running
    <3> QED
      BY <3>1, <3>2, <3>3, <3>4 DEF NothingOfTheDead
  <2>3. UpIsFound
    <3> SUFFICES ASSUME NEW r \in RLRoutes, rlPc[r] = "up"
                 PROVE  IF KindOf[r] = "lb"
                          THEN /\ r \in rlServers[rlBal[r]]
                               /\ LET owner == rlOwner[rlBal[r]] IN
                                  rlPc[owner] # "ended" => rlPool[KeyOf[r]] = owner
                          ELSE ~Shared(r) => /\ rlPool[KeyOf[r]] = r
                                             /\ KindOf[r] \in {"http", "file"} => KeyOf[r] \in rlShort
      BY DEF UpIsFound
    <3>1. CASE KindOf[r] = "lb"
      <4>1. rlBal[r] \in Balancers
        BY <3>1 DEF BalancerLife, LinkedPc
      <4>2. r \in rlServers[rlBal[r]]
        BY <4>1 DEF ServersUp
      <4>3. rlOwner[rlBal[r]] \in RLRoutes /\ KeyOf[rlOwner[rlBal[r]]] = KeyOf[r]
        BY <4>1, BalancerCount DEF BalancerLife
      <4>4. rlPc[rlOwner[rlBal[r]]] # "ended" => rlPool[KeyOf[r]] = rlOwner[rlBal[r]]
        BY <4>1, <4>3, LinksAssumption DEF LinkNamed
      <4> QED
        BY <3>1, <4>2, <4>4
    <3>2. CASE KindOf[r] # "lb"
      BY <3>2 DEF AloneFound
    <3> QED
      BY <3>1, <3>2
  <2> QED
    BY <2>2, <2>3 DEF RegistryFollows
<1> QED
  BY <1>1, LinksInvariant, PTL

(***************************************************************************)
(* AgentEnroll.                                                            *)
(***************************************************************************)
Pooled == {"added", "loaded", "ok", "unsaved"}
Stored == {"stored"} \union Pooled

EnrollTypes ==
  /\ enPool.owner \in Int /\ enActive \in States /\ enNew \in States
  /\ enProv \in [States -> Int]
  /\ enPc \in [Verifiers -> {"new", "checked", "inited", "failed"} \union Stored]
  /\ enReq \in [Verifiers -> [bundle : Nat, state : States]]
  /\ enBundle \in Seq(Int) /\ enKey \in Int
  /\ enAlone \subseteq Verifiers

(* The agent of a request is in the pool from agentpool.Add on.            *)
OwnerPooled ==
  enPool.owner > 0 =>
    /\ enPool.owner \in Verifiers /\ enPc[enPool.owner] \in Pooled
    /\ enReq[enPool.owner].bundle = enPool.bundle

FileProven == enFile # 0 => \E v \in Verifiers : enReq[v].bundle = enFile /\ enPc[v] = "ok"

(* Requests that no reload has met see each other only: they work on the   *)
(* active configuration, the one whose provider is stored there is the one *)
(* whose agent is in the pool, and the others fail.                        *)
Undisturbed(v) ==
  /\ enPc[v] # "new" => enReq[v].state = enActive
  /\ \A s \in States : enProv[s] = v => enPc[v] \in Stored /\ s = enReq[v].state
  /\ enPc[v] \notin {"new", "failed"} => enPool.owner = 0 \/ enPool.owner \in enAlone
  /\ enPc[v] \in Stored => enProv[enActive] = v
  /\ enPc[v] \in Pooled => enPool.owner = v
  /\ enPc[v] = "ok" => enFile = enReq[v].bundle

AloneOnes ==
  /\ enAlone = {} \/ \A w \in Verifiers : w \in enAlone \/ Ended(w)
  /\ \A v \in enAlone : Undisturbed(v)

EnrollInv == EnrollTypes /\ OwnerPooled /\ FileProven /\ AloneOnes

-----------------------------------------------------------------------------
LEMMA VerifierPositive ==
  ASSUME NEW v \in Verifiers
  PROVE  v \in Nat /\ v > 0
BY EnrollAssumption

(* A step of request x that leaves the configurations alone.               *)
LEMMA RequestStep ==
  ASSUME EnrollInv, NEW x \in Verifiers, NEW from, NEW next, VGoto(x, from, next),
         from \notin {"ok", "failed", "unsaved"},
         next \in {"checked", "inited", "failed"} \union Stored
  PROVE  /\ enPc' \in [Verifiers -> {"new", "checked", "inited", "failed"} \union Stored]
         /\ enPc'[x] = next /\ enPc[x] = from /\ \A v \in Verifiers : v # x => enPc'[v] = enPc[v]
         /\ enAlone # {} => x \in enAlone
         /\ (UNCHANGED enAlone =>
               (enAlone' = {} \/ \A w \in Verifiers : w \in enAlone' \/ Ended(w)'))
<1>1. /\ enPc \in [Verifiers -> {"new", "checked", "inited", "failed"} \union Stored]
      /\ enPc[x] = from /\ enPc' = [enPc EXCEPT ![x] = next]
  BY DEF EnrollInv, EnrollTypes, VGoto
<1>2. /\ enPc' \in [Verifiers -> {"new", "checked", "inited", "failed"} \union Stored]
      /\ enPc'[x] = next /\ \A v \in Verifiers : v # x => enPc'[v] = enPc[v]
  BY <1>1
<1>3. enAlone # {} => x \in enAlone
  BY <1>1 DEF EnrollInv, AloneOnes, Ended
<1>4. UNCHANGED enAlone => (enAlone' = {} \/ \A w \in Verifiers : w \in enAlone' \/ Ended(w)')
  BY <1>2, <1>3 DEF EnrollInv, AloneOnes, Ended
<1> QED
  BY <1>1, <1>2, <1>3, <1>4

LEMMA CheckInductive ==
  ASSUME EnrollInv, NEW b \in DOMAIN enBundle, NEW x \in Verifiers, Check(x, b)
  PROVE  EnrollInv'
<1> USE EnrollAssumption
<1>0. PICK next \in {"checked", "failed"} :
        /\ VGoto(x, "new", next) /\ (next = "checked" => enPool.owner = 0)
        /\ enReq' = [enReq EXCEPT ![x] = [bundle |-> b, state |-> enActive]]
        /\ UNCHANGED <<enKey, enBundle, enFile, enPool, enActive, enProv, enNew, enAlone>>
  BY DEF Check
<1>1. /\ enPc' \in [Verifiers -> {"new", "checked", "inited", "failed"} \union Stored]
      /\ enPc'[x] = next /\ enPc[x] = "new" /\ \A v \in Verifiers : v # x => enPc'[v] = enPc[v]
      /\ enAlone' = {} \/ \A w \in Verifiers : w \in enAlone' \/ Ended(w)'
  BY <1>0, RequestStep
<1>2. /\ EnrollTypes /\ OwnerPooled /\ FileProven /\ \A v \in enAlone : v \in Verifiers /\ Undisturbed(v)
  BY DEF EnrollInv, EnrollTypes, AloneOnes
<1>3. /\ enReq' \in [Verifiers -> [bundle : Nat, state : States]] /\ enReq'[x].state = enActive
      /\ \A v \in Verifiers : v # x => enReq'[v] = enReq[v]
  BY <1>0, <1>2 DEF EnrollTypes
<1>4. EnrollTypes'
  BY <1>0, <1>1, <1>2, <1>3 DEF EnrollTypes
<1>5. OwnerPooled'
  BY <1>0, <1>1, <1>2, <1>3 DEF OwnerPooled, Pooled
<1>6. FileProven'
  BY <1>0, <1>1, <1>2, <1>3 DEF FileProven
<1>7. \A v \in enAlone' : Undisturbed(v)'
  <2> SUFFICES ASSUME NEW v \in enAlone PROVE Undisturbed(v)'
    BY <1>0
  <2>1. v \in Verifiers /\ Undisturbed(v)
    BY <1>2
  <2>2. CASE v = x
    <3>1. \A s \in States : enProv'[s] # v
      BY <2>1, <2>2, <1>0, <1>1 DEF Undisturbed, Stored, Pooled
    <3> QED
      BY <3>1, <2>2, <1>0, <1>1, <1>3 DEF Undisturbed, Stored, Pooled
  <2>3. CASE v # x
    BY <2>1, <2>3, <1>0, <1>1, <1>3 DEF Undisturbed
  <2> QED
    BY <2>2, <2>3
<1> QED
  BY <1>1, <1>4, <1>5, <1>6, <1>7 DEF EnrollInv, AloneOnes

LEMMA ConnectInductive ==
  ASSUME EnrollInv, NEW x \in Verifiers, InitWithCerts(x)
  PROVE  EnrollInv'
<1> USE EnrollAssumption
<1>0. PICK next \in {"inited", "failed"} :
        /\ VGoto(x, "checked", next)
        /\ UNCHANGED <<enKey, enBundle, enFile, enPool, enActive, enProv, enNew, enReq, enAlone>>
  BY DEF InitWithCerts
<1>1. /\ enPc' \in [Verifiers -> {"new", "checked", "inited", "failed"} \union Stored]
      /\ enPc'[x] = next /\ enPc[x] = "checked" /\ \A v \in Verifiers : v # x => enPc'[v] = enPc[v]
      /\ enAlone' = {} \/ \A w \in Verifiers : w \in enAlone' \/ Ended(w)'
  BY <1>0, RequestStep
<1>2. /\ EnrollTypes /\ OwnerPooled /\ FileProven /\ \A v \in enAlone : v \in Verifiers /\ Undisturbed(v)
  BY DEF EnrollInv, EnrollTypes, AloneOnes
<1>4. EnrollTypes'
  BY <1>0, <1>1, <1>2 DEF EnrollTypes
<1>5. OwnerPooled'
  BY <1>0, <1>1, <1>2 DEF OwnerPooled, Pooled
<1>6. FileProven'
  BY <1>0, <1>1, <1>2 DEF FileProven
<1>7. ASSUME NEW v \in enAlone'
      PROVE  Undisturbed(v)'
  <2>1. v \in enAlone /\ v \in Verifiers /\ Undisturbed(v)
    BY <1>0, <1>2
  <2>2. CASE v = x
    BY ONLY <2>1, <2>2, <1>0, <1>1 DEF Undisturbed, Stored, Pooled
  <2>3. CASE v # x
    BY <2>1, <2>3, <1>0, <1>1 DEF Undisturbed
  <2> QED
    BY <2>2, <2>3
<1> QED
  BY <1>1, <1>4, <1>5, <1>6, <1>7 DEF EnrollInv, AloneOnes

LEMMA StoreInductive ==
  ASSUME EnrollInv, NEW x \in Verifiers, StoreProvider(x)
  PROVE  EnrollInv'
<1> USE EnrollAssumption
<1>0. PICK next \in {"stored", "failed"} :
        /\ VGoto(x, "inited", next)
        /\ next = "failed" => enProv' = enProv
        /\ next = "stored" => /\ enProv[enReq[x].state] = 0
                              /\ enProv' = [enProv EXCEPT ![enReq[x].state] = x]
        /\ UNCHANGED <<enKey, enBundle, enFile, enPool, enActive, enNew, enReq, enAlone>>
  BY DEF StoreProvider
<1>1. /\ enPc' \in [Verifiers -> {"new", "checked", "inited", "failed"} \union Stored]
      /\ enPc'[x] = next /\ enPc[x] = "inited" /\ \A v \in Verifiers : v # x => enPc'[v] = enPc[v]
      /\ enAlone' = {} \/ \A w \in Verifiers : w \in enAlone' \/ Ended(w)'
      /\ enAlone # {} => x \in enAlone
  BY <1>0, RequestStep DEF Stored
<1>2. /\ EnrollTypes /\ OwnerPooled /\ FileProven /\ \A v \in enAlone : v \in Verifiers /\ Undisturbed(v)
  BY DEF EnrollInv, EnrollTypes, AloneOnes
<1>3. /\ enProv' \in [States -> Int] /\ enReq[x].state \in States
      /\ \A s \in States : enProv'[s] = enProv[s] \/ (s = enReq[x].state /\ enProv'[s] = x /\ enProv[s] = 0)
      /\ next = "stored" => enProv'[enReq[x].state] = x
  BY <1>0, <1>2 DEF EnrollTypes
<1>4. EnrollTypes'
  BY <1>0, <1>1, <1>2, <1>3 DEF EnrollTypes
<1>5. OwnerPooled'
  BY <1>0, <1>1, <1>2 DEF OwnerPooled, Pooled
<1>6. FileProven'
  BY <1>0, <1>1, <1>2 DEF FileProven
<1>7. \A v \in enAlone' : Undisturbed(v)'
  <2> SUFFICES ASSUME NEW v \in enAlone PROVE Undisturbed(v)'
    BY <1>0
  <2>1. x \in enAlone /\ enReq[x].state = enActive /\ v \in Verifiers /\ Undisturbed(v) /\ Undisturbed(x)
    BY <1>1, <1>2 DEF Undisturbed
  <2>2. CASE v = x
    BY <2>1, <2>2, <1>0, <1>1, <1>3 DEF Undisturbed, Stored, Pooled
  <2>3. CASE v # x
    <3>1. \A s \in States : enProv'[s] = v => enProv[s] = v
      BY <2>3, <1>3
    <3>2. enPc[v] \in Stored => enProv[enActive] = v /\ v # 0
      BY <2>1 DEF Undisturbed
    <3>3. enPc[v] \in Stored => enProv'[enActive] = v
      BY <3>2, <2>1, <1>2, <1>3 DEF EnrollTypes
    <3> QED
      BY <3>1, <3>3, <2>1, <2>3, <1>0, <1>1 DEF Undisturbed
  <2> QED
    BY <2>2, <2>3
<1> QED
  BY <1>1, <1>4, <1>5, <1>6, <1>7 DEF EnrollInv, AloneOnes

LEMMA AddInductive ==
  ASSUME EnrollInv, NEW x \in Verifiers, AddAgent(x)
  PROVE  EnrollInv'
<1> USE EnrollAssumption
<1>0. PICK next \in {"added", "failed"} :
        /\ VGoto(x, "stored", next)
        /\ next = "failed" => enPool' = enPool /\ enPool.owner # 0
        /\ next = "added" => enPool.owner = 0 /\ enPool' = [bundle |-> enReq[x].bundle, owner |-> x]
        /\ UNCHANGED <<enKey, enBundle, enFile, enActive, enProv, enNew, enReq, enAlone>>
  BY DEF AddAgent
<1>1. /\ enPc' \in [Verifiers -> {"new", "checked", "inited", "failed"} \union Stored]
      /\ enPc'[x] = next /\ enPc[x] = "stored" /\ \A v \in Verifiers : v # x => enPc'[v] = enPc[v]
      /\ enAlone' = {} \/ \A w \in Verifiers : w \in enAlone' \/ Ended(w)'
      /\ enAlone # {} => x \in enAlone
  BY <1>0, RequestStep DEF Stored, Pooled
<1>2. /\ EnrollTypes /\ OwnerPooled /\ FileProven /\ \A v \in enAlone : v \in Verifiers /\ Undisturbed(v)
  BY DEF EnrollInv, EnrollTypes, AloneOnes
<1>3. /\ next = "failed" => enPool' = enPool /\ enPool.owner # 0
      /\ next = "added" => /\ enPool.owner = 0 /\ enPool'.owner = x
                           /\ enPool'.bundle = enReq[x].bundle
  BY <1>0
<1>4. EnrollTypes'
  BY <1>0, <1>1, <1>2, <1>3 DEF EnrollTypes
<1>5. OwnerPooled'
  BY <1>0, <1>1, <1>2, <1>3 DEF OwnerPooled, Pooled
<1>6. FileProven'
  BY <1>0, <1>1, <1>2 DEF FileProven
<1>7. enAlone # {} => next = "added"
  <2> SUFFICES ASSUME x \in enAlone, enPool.owner # 0 PROVE FALSE
    BY <1>0, <1>1
  <2>1. enPool.owner \in enAlone /\ enProv[enActive] = x
    BY <1>1, <1>2 DEF Undisturbed, Stored
  <2>2. enPc[enPool.owner] \in Pooled
    <3>1. enPool.owner \in Verifiers /\ enPool.owner > 0
      BY <2>1, <1>2, VerifierPositive
    <3> QED
      BY <3>1, <1>2 DEF OwnerPooled
  <2>3. enProv[enActive] = enPool.owner
    BY <2>1, <2>2, <1>2 DEF Undisturbed, Stored
  <2> QED
    BY <2>1, <2>2, <2>3, <1>1 DEF Pooled
<1>8. \A v \in enAlone' : Undisturbed(v)'
  <2> SUFFICES ASSUME NEW v \in enAlone PROVE Undisturbed(v)'
    BY <1>0
  <2>1. x \in enAlone /\ v \in Verifiers /\ Undisturbed(v) /\ Undisturbed(x) /\ next = "added"
    BY <1>1, <1>2, <1>7
  <2>2. CASE v = x
    BY <2>1, <2>2, <1>0, <1>1, <1>3 DEF Undisturbed, Stored, Pooled
  <2>3. CASE v # x
    <3>1. enPc[v] \notin Pooled
      BY <2>1, <1>2, <1>3 DEF Undisturbed
    <3> QED
      BY <3>1, <2>1, <2>3, <1>0, <1>1, <1>3 DEF Undisturbed, Stored, Pooled
  <2> QED
    BY <2>2, <2>3
<1> QED
  BY <1>1, <1>4, <1>5, <1>6, <1>8 DEF EnrollInv, AloneOnes

LEMMA LoadInductive ==
  ASSUME EnrollInv, NEW x \in Verifiers, LoadRoutes(x)
  PROVE  EnrollInv'
<1> USE EnrollAssumption
<1>0. PICK next \in {"loaded", "failed"} :
        /\ VGoto(x, "added", next)
        /\ next = "loaded" => UNCHANGED <<enProv, enPool>>
        /\ next = "failed" => /\ enProv' = [enProv EXCEPT ![enReq[x].state] = 0]
                              /\ enPool' = NoAgent
        /\ UNCHANGED <<enKey, enBundle, enFile, enActive, enNew, enReq, enAlone>>
  BY DEF LoadRoutes, UndoAdd
<1>1. /\ enPc' \in [Verifiers -> {"new", "checked", "inited", "failed"} \union Stored]
      /\ enPc'[x] = next /\ enPc[x] = "added" /\ \A v \in Verifiers : v # x => enPc'[v] = enPc[v]
      /\ enAlone' = {} \/ \A w \in Verifiers : w \in enAlone' \/ Ended(w)'
      /\ enAlone # {} => x \in enAlone
  BY <1>0, RequestStep DEF Stored, Pooled
<1>2. /\ EnrollTypes /\ OwnerPooled /\ FileProven /\ \A v \in enAlone : v \in Verifiers /\ Undisturbed(v)
  BY DEF EnrollInv, EnrollTypes, AloneOnes
<1>3. /\ enProv' \in [States -> Int] /\ enReq[x].state \in States
      /\ \A s \in States : enProv'[s] = enProv[s] \/ enProv'[s] = 0
      /\ next = "failed" => enProv'[enReq[x].state] = 0 /\ enPool'.owner = 0
  BY <1>0, <1>2 DEF EnrollTypes, NoAgent
<1>4. EnrollTypes'
  BY <1>0, <1>1, <1>2, <1>3 DEF EnrollTypes
<1>5. OwnerPooled'
  BY <1>0, <1>1, <1>2, <1>3 DEF OwnerPooled, Pooled, EnrollTypes
<1>6. FileProven'
  BY <1>0, <1>1, <1>2 DEF FileProven
<1>7. \A v \in enAlone' : Undisturbed(v)'
  <2> SUFFICES ASSUME NEW v \in enAlone PROVE Undisturbed(v)'
    BY <1>0
  <2>1. x \in enAlone /\ v \in Verifiers /\ Undisturbed(v) /\ Undisturbed(x)
    BY <1>1, <1>2
  <2>2. CASE v = x
    BY <2>1, <2>2, <1>0, <1>1, <1>3 DEF Undisturbed, Stored, Pooled
  <2>3. CASE v # x
    <3>1. enPc[v] \notin Stored
      BY <2>1, <2>3, <1>1 DEF Undisturbed, Stored, Pooled
    <3> QED
      BY <3>1, <2>1, <2>3, <1>0, <1>1, <1>3 DEF Undisturbed, Stored, Pooled
  <2> QED
    BY <2>2, <2>3
<1> QED
  BY <1>1, <1>4, <1>5, <1>6, <1>7 DEF EnrollInv, AloneOnes

LEMMA SaveInductive ==
  ASSUME EnrollInv, NEW x \in Verifiers, SaveCerts(x)
  PROVE  EnrollInv'
<1> USE EnrollAssumption
<1>0. PICK next \in {"ok", "unsaved"} :
        /\ VGoto(x, "loaded", next)
        /\ next = "ok" => enFile' = enReq[x].bundle
        /\ next = "unsaved" => enFile' = enFile
        /\ UNCHANGED <<enKey, enBundle, enPool, enProv, enActive, enNew, enReq, enAlone>>
  BY DEF SaveCerts
<1>1. /\ enPc' \in [Verifiers -> {"new", "checked", "inited", "failed"} \union Stored]
      /\ enPc'[x] = next /\ enPc[x] = "loaded" /\ \A v \in Verifiers : v # x => enPc'[v] = enPc[v]
      /\ enAlone' = {} \/ \A w \in Verifiers : w \in enAlone' \/ Ended(w)'
      /\ enAlone # {} => x \in enAlone
  BY <1>0, RequestStep DEF Stored, Pooled
<1>2. /\ EnrollTypes /\ OwnerPooled /\ FileProven /\ \A v \in enAlone : v \in Verifiers /\ Undisturbed(v)
  BY DEF EnrollInv, EnrollTypes, AloneOnes
<1>4. EnrollTypes'
  BY <1>0, <1>1, <1>2 DEF EnrollTypes
<1>5. OwnerPooled'
  BY <1>0, <1>1, <1>2 DEF OwnerPooled, Pooled
<1>6. FileProven'
  BY <1>0, <1>1, <1>2 DEF FileProven
<1>7. \A v \in enAlone' : Undisturbed(v)'
  <2> SUFFICES ASSUME NEW v \in enAlone PROVE Undisturbed(v)'
    BY <1>0
  <2>1. x \in enAlone /\ v \in Verifiers /\ Undisturbed(v) /\ Undisturbed(x)
    BY <1>1, <1>2
  <2>2. CASE v = x
    BY <2>1, <2>2, <1>0, <1>1 DEF Undisturbed, Stored, Pooled
  <2>3. CASE v # x
    <3>1. enPc[v] \notin Pooled
      BY <2>1, <2>3, <1>1 DEF Undisturbed, Pooled
    <3> QED
      BY <3>1, <2>1, <2>3, <1>0, <1>1 DEF Undisturbed, Stored, Pooled
  <2> QED
    BY <2>2, <2>3
<1> QED
  BY <1>1, <1>4, <1>5, <1>6, <1>7 DEF EnrollInv, AloneOnes

(* A reload leaves alone only requests that have not begun.                *)
LEMMA ReloadInductive ==
  ASSUME EnrollInv, ReloadBegin \/ ReloadAgents \/ ReloadEnd
  PROVE  EnrollInv'
<1> USE EnrollAssumption
<1>0. /\ Met /\ UNCHANGED <<enKey, enBundle, enRuns, enFile, enPc, enReq>>
      /\ EnrollTypes /\ OwnerPooled /\ FileProven /\ AloneOnes
  BY DEF ReloadBegin, ReloadAgents, ReloadEnd, EnrollInv
<1>1. /\ enAlone' \subseteq enAlone
      /\ enAlone' = {} \/ \A w \in Verifiers : w \in enAlone' \/ Ended(w)'
      /\ \A v \in enAlone' : enPc[v] = "new"
  <2>1. CASE \A v \in Verifiers : enPc[v] = "new" \/ Ended(v)
    <3>1. enAlone' = {v \in enAlone : ~Ended(v)}
      BY <2>1, <1>0 DEF Met
    <3> QED
      BY <3>1, <2>1, <1>0 DEF AloneOnes, Ended, EnrollTypes
  <2>2. CASE ~(\A v \in Verifiers : enPc[v] = "new" \/ Ended(v))
    BY <2>2, <1>0 DEF Met
  <2> QED
    BY <2>1, <2>2
<1>2. \A v \in enAlone' : v \in Verifiers /\ \A s \in States : enProv[s] # v
  BY <1>0, <1>1 DEF AloneOnes, Undisturbed, Stored, Pooled, EnrollTypes
<1>3. /\ enPool'.owner \in Int /\ enActive' \in States /\ enNew' \in States /\ enProv' \in [States -> Int]
      /\ \A s \in States : enProv'[s] = enProv[s] \/ enProv'[s] < 0
      /\ enPool' = enPool \/ enPool'.owner <= 0
  <2>1. CASE ReloadBegin
    <3>1. enNew < MaxStates /\ enNew' = enNew + 1 /\ enPool' = NoAgent /\ UNCHANGED <<enActive, enProv>>
      BY <2>1 DEF ReloadBegin
    <3> QED
      BY <3>1, <1>0 DEF EnrollTypes, NoAgent, States
  <2>2. CASE ReloadAgents
    <3>1. /\ UNCHANGED <<enActive, enNew>>
          /\ enProv' = enProv \/ enProv' = [enProv EXCEPT ![enNew] = -enNew]
          /\ enPool' = enPool \/ enPool' = [bundle |-> enFile, owner |-> -enNew]
      BY <2>2 DEF ReloadAgents
    <3>2. enNew \in Int /\ enNew > 0
      BY <1>0 DEF EnrollTypes, States
    <3>3. enPool' = enPool \/ enPool'.owner = -enNew
      BY <3>1
    <3>4. enProv' \in [States -> Int] /\ \A s \in States : enProv'[s] = enProv[s] \/ enProv'[s] < 0
      BY <3>1, <3>2, <1>0 DEF EnrollTypes
    <3> QED
      BY <3>1, <3>2, <3>3, <3>4, <1>0 DEF EnrollTypes
  <2>3. CASE ReloadEnd
    BY <2>3, <1>0 DEF ReloadEnd, EnrollTypes
  <2> QED
    BY <2>1, <2>2, <2>3
<1>4. EnrollTypes'
  BY <1>0, <1>1, <1>3 DEF EnrollTypes
<1>5. OwnerPooled'
  BY <1>0, <1>3 DEF OwnerPooled
<1>6. FileProven'
  BY <1>0 DEF FileProven
<1>7. \A v \in enAlone' : Undisturbed(v)'
  <2> SUFFICES ASSUME NEW v \in enAlone' PROVE Undisturbed(v)'
    OBVIOUS
  <2>1. enPc'[v] = "new" /\ v \in Nat /\ \A s \in States : enProv'[s] # v
    <3>1. v \in Nat /\ v > 0 /\ enPc'[v] = "new" /\ \A s \in States : enProv[s] # v
      BY <1>0, <1>1, <1>2, VerifierPositive
    <3> QED
      BY ONLY <3>1, <1>3
  <2> QED
    BY <2>1 DEF Undisturbed, Stored, Pooled
<1> QED
  BY <1>1, <1>4, <1>5, <1>6, <1>7 DEF EnrollInv, AloneOnes

(* The inductive invariant of enrolling: requests that meet no reload see  *)
(* only each other (Create, Verify, verifyNewAgent, and Reload).           *)
THEOREM EnrollInvariant == EnrollSpec => []EnrollInv
<1> USE EnrollAssumption
<1>1. EnrollInit => EnrollInv
  <2> SUFFICES ASSUME EnrollInit PROVE EnrollInv
    OBVIOUS
  <2>1. EnrollTypes
    BY DEF EnrollInit, EnrollTypes, NoAgent, States
  <2>2. OwnerPooled /\ FileProven
    BY DEF EnrollInit, OwnerPooled, FileProven, NoAgent
  <2>3. AloneOnes
    BY DEF EnrollInit, AloneOnes, Undisturbed, Stored, Pooled, NoAgent
  <2> QED
    BY <2>1, <2>2, <2>3 DEF EnrollInv
<1>2. EnrollInv /\ [EnrollNext]_enVars => EnrollInv'
  <2> SUFFICES ASSUME EnrollInv, [EnrollNext]_enVars PROVE EnrollInv'
    OBVIOUS
  <2>1. CASE RotateKey \/ Create \/ (\E b \in DOMAIN enBundle : Deploy(b)) \/ UNCHANGED enVars
    <3>1. UNCHANGED <<enFile, enPool, enActive, enProv, enNew, enPc, enReq, enAlone>>
      BY <2>1 DEF RotateKey, Create, Deploy, enVars
    <3>2. enBundle' \in Seq(Int) /\ enKey' \in Int
      <4>1. enBundle \in Seq(Int) /\ enKey \in Int
        BY DEF EnrollInv, EnrollTypes
      <4>2. \/ UNCHANGED <<enBundle, enKey>>
            \/ enBundle' = Append(enBundle, enKey) /\ enKey' = enKey
            \/ enBundle' = enBundle /\ enKey' = enKey + 1
        BY <2>1 DEF RotateKey, Create, Deploy, enVars, NewAgent
      <4> QED
        BY ONLY <4>1, <4>2
    <3> QED
      BY <3>1, <3>2 DEF EnrollInv, EnrollTypes, OwnerPooled, FileProven, AloneOnes, Undisturbed, Ended
  <2>2. CASE ReloadBegin \/ ReloadAgents \/ ReloadEnd
    BY <2>2, ReloadInductive
  <2>3. CASE \E b \in DOMAIN enBundle, v \in Verifiers : Check(v, b)
    BY <2>3, CheckInductive
  <2>4. CASE \E v \in Verifiers : \/ InitWithCerts(v) \/ StoreProvider(v) \/ AddAgent(v)
                                  \/ LoadRoutes(v) \/ SaveCerts(v)
    BY <2>4, ConnectInductive, StoreInductive, AddInductive, LoadInductive, SaveInductive
  <2> QED
    BY <2>1, <2>2, <2>3, <2>4 DEF EnrollNext
<1> QED
  BY <1>1, <1>2, PTL DEF EnrollSpec

(* Nothing is stored or pooled that was not reached, and what no reload    *)
(* disturbs is done in full or not at all, for any requests and any number *)
(* of bundles and reloads (Verify, verifyNewAgent).                        *)
THEOREM EnrollingIsSound == EnrollSpec => []EnrolmentSound
<1>1. EnrollInv => EnrolmentSound
  <2> SUFFICES ASSUME EnrollInv PROVE EnrolmentSound
    OBVIOUS
  <2>1. OnlyProven
    BY DEF EnrollInv, OwnerPooled, FileProven, OnlyProven, Proven, Pooled
  <2>2. VerifyAllOrNothing
    <3> SUFFICES ASSUME NEW v \in enAlone
                 PROVE  /\ enPc[v] = "ok" => /\ enProv[enActive] = v /\ enPool.owner = v
                                             /\ enFile = enReq[v].bundle
                        /\ enPc[v] = "failed" => enProv[enActive] # v /\ enPool.owner # v
      BY DEF VerifyAllOrNothing
    <3>1. Undisturbed(v) /\ v \in Nat /\ v > 0 /\ enActive \in States
      BY EnrollAssumption DEF EnrollInv, AloneOnes, EnrollTypes
    <3>2. enPool.owner = v => enPc[v] \in Pooled
      BY <3>1 DEF EnrollInv, OwnerPooled
    <3> QED
      BY <3>1, <3>2 DEF Undisturbed, Stored, Pooled
  <2> QED
    BY <2>1, <2>2 DEF EnrolmentSound
<1> QED
  BY <1>1, EnrollInvariant, PTL

(***************************************************************************)
(* AgentTunnel.                                                            *)
(***************************************************************************)
Records ==
  {Fin, NewStreamHealthCheckHeader}
    \union {NewStreamRequestHeader(ho, p) : ho \in HostLens, p \in PortLens}
    \union {Payload(n) : n \in Nat}

TunnelTypes ==
  /\ tnWire \in Seq(Records) /\ tnSent \in Nat /\ tnGot \in Seq(Nat)
  /\ tnSrv \in {"none", "header", "partial", "relay", "closed"}
  /\ tnDst \in [state : {"none", "open", "closed"}, host : HostLens \union {0}, port : PortLens \union {0}]

IsData(r) == r.ver = "data"
OfThisAsk(r) == /\ r.ver = "0.1.0" /\ r.host = tnAsk.host /\ r.port = tnAsk.port
                /\ r.flag = tnAsk.probe

(* Under way is what this client has sent, and each payload is either      *)
(* under way or relayed, once.                                             *)
WireSound ==
  \A i \in 1..Len(tnWire) :
    \/ tnWire[i].ver = "fin"
    \/ IsData(tnWire[i]) /\ tnWire[i].n \in 1..tnSent
    \/ OfThisAsk(tnWire[i])

PayloadsOnce ==
  /\ \A i \in 1..Len(tnGot) : tnGot[i] \in 1..tnSent
  /\ \A i, j \in 1..Len(tnGot) : tnGot[i] = tnGot[j] => i = j
  /\ \A i, j \in 1..Len(tnWire) : IsData(tnWire[i]) /\ IsData(tnWire[j]) /\ tnWire[i].n = tnWire[j].n => i = j
  /\ \A i \in 1..Len(tnWire), j \in 1..Len(tnGot) : IsData(tnWire[i]) => tnWire[i].n # tnGot[j]

(* Over TCP: the header, then what is not yet relayed, then the end.       *)
HeaderFirst == IF tnSrv = "header" THEN 1 ELSE 0
TcpOrder ==
  tnAsk.proto = "tcp" =>
    /\ \A i \in 1..Len(tnGot) : tnGot[i] = i
    /\ tnSrv # "partial"
    /\ tnSrv = "header" => Len(tnGot) = 0 /\ Len(tnWire) >= 1 /\ tnWire[1].ver = "0.1.0"
    /\ tnSrv \in {"header", "relay"} =>
         /\ \A i \in 1..Len(tnWire) : i > HeaderFirst =>
              \/ IsData(tnWire[i]) /\ tnWire[i].n = Len(tnGot) + i - HeaderFirst
              \/ tnWire[i].ver = "fin" /\ i = Len(tnWire) /\ tnCli = "closed"
         /\ tnCli = "open" => Len(tnGot) + Len(tnWire) - HeaderFirst = tnSent

TunnelInv ==
  TunnelTypes /\ WireSound /\ PayloadsOnce /\ TcpOrder /\ DialsWhatWasAsked /\ DestinationEnds
-----------------------------------------------------------------------------
LEMMA RemovedAt ==
  ASSUME NEW S, NEW s \in Seq(S), NEW i \in 1..Len(s), NEW w, w = RemoveAt(s, i)
  PROVE  /\ w \in Seq(S) /\ Len(w) = Len(s) - 1
         /\ \A j \in 1..Len(w) : j < i => w[j] = s[j]
         /\ \A j \in 1..Len(w) : j >= i => w[j] = s[j + 1]
<1> DEFINE a == SubSeq(s, 1, i - 1)  b == SubSeq(s, i + 1, Len(s))  n == Len(s)
<1>1. n \in Nat /\ i \in Nat /\ i >= 1 /\ i <= n /\ \A j \in 1..n : s[j] \in S
  BY ElementOfSeq
<1>2. a \in Seq(S) /\ Len(a) = i - 1 /\ \A j \in 1..i - 1 : a[j] = s[j]
  <2>1. 1 \in Int /\ i - 1 \in Int /\ \A j \in 1..i - 1 : s[j] \in S
    BY <1>1
  <2>2. /\ a \in Seq(S) /\ Len(a) = IF 1 <= i - 1 THEN (i - 1) - 1 + 1 ELSE 0
        /\ \A j \in 1..(i - 1) - 1 + 1 : a[j] = s[1 + j - 1]
    BY <2>1, SubSeqProperties
  <2>3. (i - 1) - 1 + 1 = i - 1 /\ \A j \in 1..i - 1 : 1 + j - 1 = j
    BY <1>1
  <2> QED
    BY <2>2, <2>3, <1>1
<1>3. b \in Seq(S) /\ Len(b) = n - i /\ \A j \in 1..n - i : b[j] = s[i + j]
  <2>1. i + 1 \in Int /\ n \in Int /\ \A j \in i + 1..n : s[j] \in S
    BY <1>1
  <2>2. /\ b \in Seq(S) /\ Len(b) = IF i + 1 <= n THEN n - (i + 1) + 1 ELSE 0
        /\ \A j \in 1..n - (i + 1) + 1 : b[j] = s[(i + 1) + j - 1]
    BY <2>1, SubSeqProperties
  <2>3. n - (i + 1) + 1 = n - i /\ \A j \in 1..n - i : (i + 1) + j - 1 = i + j
    BY <1>1
  <2>4. (IF i + 1 <= n THEN n - (i + 1) + 1 ELSE 0) = n - i
    BY ONLY <1>1
  <2> QED
    BY ONLY <2>2, <2>3, <2>4
<1>4. w = a \o b
  BY DEF RemoveAt
<1> HIDE DEF a, b, n
<1>5. /\ w \in Seq(S) /\ Len(w) = Len(a) + Len(b)
      /\ \A j \in 1..Len(a) + Len(b) : w[j] = IF j <= Len(a) THEN a[j] ELSE b[j - Len(a)]
  BY <1>2, <1>3, <1>4, ConcatProperties
<1>6. Len(a) + Len(b) = n - 1
  BY <1>1, <1>2, <1>3
<1>7. \A j \in 1..n - 1 : j < i => j <= Len(a) /\ j \in 1..i - 1
  BY <1>1, <1>2
<1>8. \A j \in 1..n - 1 : j >= i => ~(j <= Len(a)) /\ j - Len(a) \in 1..n - i /\ i + (j - Len(a)) = j + 1
  BY <1>1, <1>2
<1> QED
  <2>1. \A j \in 1..n - 1 : j < i => w[j] = s[j]
    BY ONLY <1>2, <1>5, <1>6, <1>7
  <2>2. \A j \in 1..n - 1 : j >= i => w[j] = s[j + 1]
    <3> SUFFICES ASSUME NEW j \in 1..n - 1, j >= i
                 PROVE  w[j] = s[j + 1]
      OBVIOUS
    <3>1. w[j] = b[j - Len(a)] /\ j - Len(a) \in 1..n - i /\ i + (j - Len(a)) = j + 1
      BY ONLY <1>5, <1>6, <1>8, j \in 1..n - 1, j >= i
    <3> QED
      BY ONLY <1>3, <3>1
  <2> QED
    BY ONLY <1>5, <1>6, <2>1, <2>2 DEF n

LEMMA TunnelUnfolded ==
  ASSUME TunnelInv
  PROVE  /\ TunnelTypes /\ WireSound /\ PayloadsOnce /\ TcpOrder /\ DialsWhatWasAsked /\ DestinationEnds
         /\ Len(tnWire) \in Nat /\ Len(tnGot) \in Nat /\ \A i \in 1..Len(tnWire) : tnWire[i] \in Records
BY ElementOfSeq DEF TunnelInv, TunnelTypes

(* The deferred calls of the handler.                                      *)
LEMMA ServerClosed ==
  ASSUME TunnelInv, CloseServer, tnAsk' = tnAsk
  PROVE  /\ tnSrv' = "closed" /\ DialsWhatWasAsked' /\ DestinationEnds'
         /\ tnDst' \in [state : {"none", "open", "closed"}, host : HostLens \union {0}, port : PortLens \union {0}]
<1>1. /\ tnDst \in [state : {"none", "open", "closed"}, host : HostLens \union {0}, port : PortLens \union {0}]
      /\ DialsWhatWasAsked
  BY TunnelUnfolded DEF TunnelTypes
<1>2. CASE tnDst.state = "open"
  <2>1. tnDst' = [tnDst EXCEPT !.state = "closed"] /\ tnSrv' = "closed"
    BY <1>2 DEF CloseServer
  <2> QED
    BY <2>1, <1>1, <1>2 DEF DialsWhatWasAsked, DestinationEnds
<1>3. CASE tnDst.state # "open"
  <2>1. tnDst' = tnDst /\ tnSrv' = "closed"
    BY <1>3 DEF CloseServer
  <2> QED
    BY <2>1, <1>1, <1>3 DEF DialsWhatWasAsked, DestinationEnds
<1> QED
  BY <1>2, <1>3

(* A step that changes neither what is under way nor what was relayed.     *)
LEMMA ServerStep ==
  ASSUME TunnelInv, FetchInfo \/ HeaderTimeout \/ RelayEnds \/ ForwardEnds
                      \/ UNCHANGED <<tnCli, tnAsk, tnWire, tnSent, tnSrv, tnDst, tnGot>>
  PROVE  TunnelInv'
<1> USE TunnelUnfolded
<1>1. UNCHANGED <<tnCli, tnAsk, tnWire, tnSent, tnGot>>
  BY DEF FetchInfo, HeaderTimeout, RelayEnds, ForwardEnds
<1>2. WireSound' /\ PayloadsOnce'
  BY <1>1 DEF WireSound, PayloadsOnce, IsData, OfThisAsk
<1>3. CASE CloseServer
  <2>1. TcpOrder'
    BY <1>1, <1>3, ServerClosed DEF TcpOrder
  <2>2. TunnelTypes'
    BY <1>1, <1>3, ServerClosed DEF TunnelTypes
  <2> QED
    BY <2>1, <2>2, <1>1, <1>2, <1>3, ServerClosed DEF TunnelInv
<1>4. CASE UNCHANGED <<tnSrv, tnDst>>
  BY <1>1, <1>2, <1>4 DEF TunnelInv, TunnelTypes, TcpOrder, HeaderFirst, IsData, DialsWhatWasAsked, DestinationEnds
<1> QED
  BY <1>3, <1>4 DEF FetchInfo, HeaderTimeout, RelayEnds, ForwardEnds

(* A new tunnel: the header, and for a probe the end.                      *)
LEMMA TunnelOpened ==
  ASSUME TunnelInv, NEW proto, NEW ho, NEW p, NEW header \in Records, NEW cli, NEW rest,
         Open(proto, ho, p, header, cli, rest),
         header.ver = "0.1.0", header.host = ho, header.port = p,
         (rest = << >> /\ cli = "open") \/ (rest = <<Fin>> /\ cli = "closed")
  PROVE  TunnelInv'
<1>0. /\ tnAsk' = [proto |-> proto, host |-> ho, port |-> p, probe |-> header.flag]
      /\ tnCli' = cli /\ tnSrv' = "header" /\ tnWire' = <<header>> \o rest
      /\ tnSent' = 0 /\ tnGot' = << >> /\ tnDst' = NotDialled
  BY DEF Open
<1>1. Fin \in Records /\ Fin.ver = "fin"
  BY DEF Records, Fin
<1>2. /\ tnWire' \in Seq(Records) /\ Len(tnWire') \in Nat /\ Len(tnWire') >= 1 /\ tnWire'[1] = header
      /\ cli = "open" => Len(tnWire') = 1
      /\ \A i \in 1..Len(tnWire') : i > 1 => tnWire'[i] = Fin /\ i = Len(tnWire') /\ cli = "closed"
  <2>1. CASE rest = << >> /\ cli = "open"
    <3>1. tnWire' = <<header>>
      BY <1>0, <2>1
    <3> QED
      BY <3>1, <2>1
  <2>2. CASE rest = <<Fin>> /\ cli = "closed"
    <3>1. /\ <<header>> \in Seq(Records) /\ Len(<<header>>) = 1 /\ <<header>>[1] = header
          /\ <<Fin>> \in Seq(Records) /\ Len(<<Fin>>) = 1 /\ <<Fin>>[1] = Fin
      BY <1>1
    <3>2. /\ tnWire' \in Seq(Records) /\ Len(tnWire') = 1 + 1
          /\ \A i \in 1..1 + 1 : tnWire'[i] = IF i <= 1 THEN <<header>>[i] ELSE <<Fin>>[i - 1]
      BY ONLY <1>0, <2>2, <3>1, ConcatProperties
    <3> QED
      BY ONLY <3>1, <3>2, <2>2
  <2> QED
    BY <2>1, <2>2
<1>3. /\ tnAsk'.proto = proto /\ tnAsk'.host = ho /\ tnAsk'.port = p /\ tnAsk'.probe = header.flag
      /\ OfThisAsk(header)'
  BY <1>0 DEF OfThisAsk
<1>4. \A i \in 1..Len(tnWire') : (i = 1 /\ tnWire'[i] = header) \/ (i > 1 /\ tnWire'[i] = Fin)
  BY <1>2
<1>5. TunnelTypes'
  BY <1>0, <1>2 DEF TunnelTypes, NotDialled
<1>6. WireSound'
  BY <1>1, <1>3, <1>4 DEF WireSound, OfThisAsk
<1>7. PayloadsOnce'
  BY <1>0, <1>1, <1>4 DEF PayloadsOnce, IsData
<1>8. TcpOrder'
  BY <1>0, <1>1, <1>2 DEF TcpOrder, HeaderFirst
<1>9. DialsWhatWasAsked' /\ DestinationEnds'
  BY <1>0 DEF DialsWhatWasAsked, DestinationEnds, NotDialled
<1> QED
  BY <1>5, <1>6, <1>7, <1>8, <1>9 DEF TunnelInv

LEMMA HeadersFit ==
  /\ NewStreamHealthCheckHeader \in Records /\ NewStreamHealthCheckHeader.ver = "0.1.0"
  /\ NewStreamHealthCheckHeader.host = 0 /\ NewStreamHealthCheckHeader.port = 0
  /\ \A ho \in HostLens, p \in PortLens :
       /\ NewStreamRequestHeader(ho, p) \in Records /\ NewStreamRequestHeader(ho, p).ver = "0.1.0"
       /\ NewStreamRequestHeader(ho, p).host = ho /\ NewStreamRequestHeader(ho, p).port = p
<1>1. NewStreamHealthCheckHeader \in Records /\ \A ho \in HostLens, p \in PortLens : NewStreamRequestHeader(ho, p) \in Records
  BY DEF Records
<1> QED
  BY <1>1 DEF NewStreamHealthCheckHeader, NewStreamRequestHeader, Summed

(* The client writes, or closes its side.                                  *)
LEMMA ClientWrites ==
  ASSUME TunnelInv, WritePayload \/ CloseClient
  PROVE  TunnelInv'
<1> USE TunnelUnfolded
<1>0. PICK e \in Records :
        /\ tnCli = "open" /\ tnWire' = Append(tnWire, e) /\ UNCHANGED <<tnAsk, tnSrv, tnDst, tnGot>>
        /\ \/ e.ver = "data" /\ e.n = tnSent + 1 /\ tnSent' = tnSent + 1 /\ tnCli' = "open"
           \/ e.ver = "fin" /\ tnSent' = tnSent /\ tnCli' = "closed"
  <2>1. CASE WritePayload
    <3>1. /\ tnCli = "open" /\ tnWire' = Append(tnWire, Payload(tnSent + 1)) /\ tnSent' = tnSent + 1
          /\ UNCHANGED <<tnAsk, tnSrv, tnDst, tnGot, tnCli>>
      BY <2>1 DEF WritePayload
    <3>2. Payload(tnSent + 1) \in Records
      BY DEF Records, TunnelTypes
    <3>3. Payload(tnSent + 1).ver = "data" /\ Payload(tnSent + 1).n = tnSent + 1
      BY DEF Payload
    <3> QED
      BY <3>1, <3>2, <3>3
  <2>2. CASE CloseClient
    <3>1. Fin \in Records /\ Fin.ver = "fin"
      BY DEF Records, Fin
    <3> QED
      BY <2>2, <3>1 DEF CloseClient
  <2> QED
    BY <2>1, <2>2
<1>1. /\ tnWire \in Seq(Records) /\ tnSent \in Nat /\ tnSent' \in Nat /\ tnSent' >= tnSent
  BY <1>0 DEF TunnelTypes
<1>2. /\ tnWire' \in Seq(Records) /\ Len(tnWire') = Len(tnWire) + 1 /\ tnWire'[Len(tnWire) + 1] = e
      /\ \A i \in 1..Len(tnWire) : tnWire'[i] = tnWire[i]
  BY <1>0, <1>1, AppendProperties
<1>3. \A i \in 1..Len(tnWire') : i \in 1..Len(tnWire) \/ (i = Len(tnWire) + 1 /\ tnWire'[i] = e)
  BY <1>2
<1>4. \A n \in 1..tnSent : n \in 1..tnSent' /\ n # tnSent + 1
  BY <1>1
<1>5. TunnelTypes'
  BY <1>0, <1>1, <1>2 DEF TunnelTypes
<1>6. WireSound'
  <2> SUFFICES ASSUME NEW i \in 1..Len(tnWire')
               PROVE  \/ tnWire'[i].ver = "fin"
                      \/ IsData(tnWire'[i]) /\ tnWire'[i].n \in 1..tnSent'
                      \/ OfThisAsk(tnWire[i])'
    BY DEF WireSound, IsData, OfThisAsk
  <2>1. CASE i \in 1..Len(tnWire)
    BY <2>1, <1>0, <1>2, <1>4 DEF WireSound, IsData, OfThisAsk
  <2>2. CASE i = Len(tnWire) + 1 /\ tnWire'[i] = e
    BY <2>2, <1>0, <1>1 DEF IsData
  <2> QED
    BY <1>3, <2>1, <2>2
<1>7. \A i \in 1..Len(tnWire) : IsData(tnWire[i]) => tnWire[i].n \in 1..tnSent
  BY DEF WireSound, IsData, OfThisAsk
<1>8. PayloadsOnce'
  <2>1. \A i \in 1..Len(tnGot') : tnGot'[i] \in 1..tnSent'
    BY <1>0, <1>4 DEF PayloadsOnce
  <2>2. \A i, j \in 1..Len(tnGot') : tnGot'[i] = tnGot'[j] => i = j
    BY <1>0 DEF PayloadsOnce
  <2>3. IsData(e) => /\ \A i \in 1..Len(tnWire) : IsData(tnWire[i]) => tnWire[i].n # e.n
                     /\ \A j \in 1..Len(tnGot) : tnGot[j] # e.n
    BY <1>0, <1>4, <1>7 DEF PayloadsOnce, IsData
  <2>4. \A i, j \in 1..Len(tnWire') : IsData(tnWire'[i]) /\ IsData(tnWire'[j]) /\ tnWire'[i].n = tnWire'[j].n => i = j
    BY <1>2, <1>3, <2>3 DEF PayloadsOnce
  <2>5. \A i \in 1..Len(tnWire'), j \in 1..Len(tnGot') : IsData(tnWire'[i]) => tnWire'[i].n # tnGot'[j]
    BY <1>0, <1>2, <1>3, <2>3 DEF PayloadsOnce
  <2> QED
    BY ONLY <2>1, <2>2, <2>4, <2>5 DEF PayloadsOnce, IsData
<1>9. TcpOrder'
  <2> SUFFICES ASSUME tnAsk.proto = "tcp"
               PROVE  /\ \A i \in 1..Len(tnGot) : tnGot[i] = i
                      /\ tnSrv # "partial"
                      /\ tnSrv = "header" => Len(tnGot) = 0 /\ Len(tnWire') >= 1 /\ tnWire'[1].ver = "0.1.0"
                      /\ tnSrv \in {"header", "relay"} =>
                           /\ \A i \in 1..Len(tnWire') : i > HeaderFirst =>
                                \/ IsData(tnWire'[i]) /\ tnWire'[i].n = Len(tnGot) + i - HeaderFirst
                                \/ tnWire'[i].ver = "fin" /\ i = Len(tnWire') /\ tnCli' = "closed"
                           /\ tnCli' = "open" => Len(tnGot) + Len(tnWire') - HeaderFirst = tnSent'
    BY <1>0 DEF TcpOrder, HeaderFirst, IsData
  <2>1. /\ \A i \in 1..Len(tnGot) : tnGot[i] = i
        /\ tnSrv # "partial"
        /\ tnSrv = "header" => Len(tnGot) = 0 /\ Len(tnWire) >= 1 /\ tnWire[1].ver = "0.1.0"
    BY DEF TcpOrder
  <2>2. tnSrv = "header" => Len(tnWire') >= 1 /\ tnWire'[1].ver = "0.1.0"
    BY <2>1, <1>2
  <2>3. HeaderFirst \in Nat
    BY DEF HeaderFirst
  <2>4. ASSUME tnSrv \in {"header", "relay"}
        PROVE  /\ \A i \in 1..Len(tnWire) : i > HeaderFirst =>
                    IsData(tnWire[i]) /\ tnWire[i].n = Len(tnGot) + i - HeaderFirst
               /\ Len(tnGot) + Len(tnWire) - HeaderFirst = tnSent
    BY <2>4, <1>0 DEF TcpOrder
  <2>5. ASSUME tnSrv \in {"header", "relay"}
        PROVE  /\ \A i \in 1..Len(tnWire') : i > HeaderFirst =>
                    \/ IsData(tnWire'[i]) /\ tnWire'[i].n = Len(tnGot) + i - HeaderFirst
                    \/ tnWire'[i].ver = "fin" /\ i = Len(tnWire') /\ tnCli' = "closed"
               /\ tnCli' = "open" => Len(tnGot) + Len(tnWire') - HeaderFirst = tnSent'
    <3>1. tnSent + 1 = Len(tnGot) + (Len(tnWire) + 1) - HeaderFirst
      BY <2>3, <2>4, <2>5, <1>1
    <3>2. \/ IsData(e) /\ e.n = Len(tnGot) + (Len(tnWire) + 1) - HeaderFirst /\ tnSent' = tnSent + 1
          \/ e.ver = "fin" /\ tnCli' = "closed"
      BY <3>1, <1>0 DEF IsData
    <3>3. tnCli' = "open" => tnSent' = tnSent + 1
      BY <1>0
    <3> QED
      BY <2>4, <2>5, <3>1, <3>2, <3>3, <1>2, <1>3
  <2> QED
    BY <2>1, <2>2, <2>5
<1>10. DialsWhatWasAsked' /\ DestinationEnds'
  BY <1>0 DEF DialsWhatWasAsked, DestinationEnds
<1> QED
  BY <1>5, <1>6, <1>8, <1>9, <1>10 DEF TunnelInv

(* A record is read or lost.                                               *)
LEMMA RecordTaken ==
  ASSUME TunnelInv, NEW i \in 1..Len(tnWire), tnWire' = RemoveAt(tnWire, i), UNCHANGED <<tnAsk, tnSent>>
  PROVE  /\ tnWire' \in Seq(Records) /\ Len(tnWire') = Len(tnWire) - 1 /\ WireSound'
         /\ \A j \in 1..Len(tnWire') : \E k \in 1..Len(tnWire) : k # i /\ tnWire'[j] = tnWire[k]
         /\ \A j, l \in 1..Len(tnWire') :
              IsData(tnWire'[j]) /\ IsData(tnWire'[l]) /\ tnWire'[j].n = tnWire'[l].n => j = l
         /\ \A j \in 1..Len(tnWire'), l \in 1..Len(tnGot) : IsData(tnWire'[j]) => tnWire'[j].n # tnGot[l]
         /\ i = 1 => \A j \in 1..Len(tnWire') : tnWire'[j] = tnWire[j + 1]
<1> USE TunnelUnfolded
<1>1. tnWire \in Seq(Records) /\ i \in Nat
  BY DEF TunnelTypes
<1>2. /\ tnWire' \in Seq(Records) /\ Len(tnWire') = Len(tnWire) - 1
      /\ \A j \in 1..Len(tnWire') : j < i => tnWire'[j] = tnWire[j]
      /\ \A j \in 1..Len(tnWire') : j >= i => tnWire'[j] = tnWire[j + 1]
  BY <1>1, RemovedAt
<1>3. \A j \in 1..Len(tnWire') : j \in Nat /\ j \in 1..Len(tnWire) /\ j + 1 \in 1..Len(tnWire)
  BY <1>2
<1>4. \A j \in 1..Len(tnWire') : \E k \in 1..Len(tnWire) : k # i /\ tnWire'[j] = tnWire[k]
  <2> TAKE j \in 1..Len(tnWire')
  <2>1. CASE j < i
    BY <2>1, <1>1, <1>2, <1>3
  <2>2. CASE j >= i
    <3>1. j + 1 # i
      BY <2>2, <1>1, <1>3
    <3> QED
      BY <3>1, <2>2, <1>2, <1>3
  <2> QED
    BY <2>1, <2>2, <1>1, <1>3
<1>5. WireSound'
  BY <1>4 DEF WireSound, IsData, OfThisAsk
<1>5a. ASSUME NEW j \in 1..Len(tnWire')
       PROVE  \E k \in 1..Len(tnWire) : /\ tnWire'[j] = tnWire[k]
                                        /\ (k = j /\ j < i) \/ (k = j + 1 /\ j >= i)
  <2>1. CASE j < i
    BY ONLY <2>1, <1>2, <1>3, <1>5a
  <2>2. CASE j >= i
    BY ONLY <2>2, <1>2, <1>3, <1>5a
  <2>3. j < i \/ j >= i
    BY ONLY <1>1, <1>3, <1>5a
  <2> QED
    BY ONLY <2>1, <2>2, <2>3
<1>6. ASSUME NEW j \in 1..Len(tnWire'), NEW l \in 1..Len(tnWire'),
             IsData(tnWire'[j]), IsData(tnWire'[l]), tnWire'[j].n = tnWire'[l].n
      PROVE  j = l
  <2>1. PICK k \in 1..Len(tnWire) : /\ tnWire'[j] = tnWire[k]
                                    /\ (k = j /\ j < i) \/ (k = j + 1 /\ j >= i)
    BY <1>5a
  <2>2. PICK m \in 1..Len(tnWire) : /\ tnWire'[l] = tnWire[m]
                                    /\ (m = l /\ l < i) \/ (m = l + 1 /\ l >= i)
    BY <1>5a
  <2>3. k = m
    BY <1>6, <2>1, <2>2 DEF PayloadsOnce
  <2> QED
    BY ONLY <2>1, <2>2, <2>3, <1>1, <1>3
<1>7. i = 1 => \A j \in 1..Len(tnWire') : tnWire'[j] = tnWire[j + 1]
  BY <1>2, <1>3
<1>8. ASSUME NEW j \in 1..Len(tnWire'), NEW l \in 1..Len(tnGot), IsData(tnWire'[j])
      PROVE  tnWire'[j].n # tnGot[l]
  <2>1. PICK k \in 1..Len(tnWire) : tnWire'[j] = tnWire[k]
    BY <1>4
  <2> QED
    BY <1>8, <2>1 DEF PayloadsOnce
<1> QED
  BY <1>2, <1>4, <1>5, <1>6, <1>7, <1>8

LEMMA RecordLost ==
  ASSUME TunnelInv, NEW i \in 1..Len(tnWire), LoseRecord(i)
  PROVE  TunnelInv'
<1> USE TunnelUnfolded
<1>0. /\ tnAsk.proto = "udp" /\ tnWire' = RemoveAt(tnWire, i)
      /\ UNCHANGED <<tnCli, tnAsk, tnSent, tnSrv, tnDst, tnGot>>
  BY DEF LoseRecord
<1>1. /\ tnWire' \in Seq(Records) /\ WireSound'
      /\ \A j \in 1..Len(tnWire') : \E k \in 1..Len(tnWire) : tnWire'[j] = tnWire[k]
      /\ \A j, l \in 1..Len(tnWire') :
           IsData(tnWire'[j]) /\ IsData(tnWire'[l]) /\ tnWire'[j].n = tnWire'[l].n => j = l
      /\ \A j \in 1..Len(tnWire'), l \in 1..Len(tnGot) : IsData(tnWire'[j]) => tnWire'[j].n # tnGot[l]
  BY <1>0, RecordTaken
<1>2. PayloadsOnce'
  BY <1>0, <1>1 DEF PayloadsOnce, IsData
<1>3. TunnelTypes' /\ TcpOrder'
  BY <1>0, <1>1 DEF TunnelTypes, TcpOrder
<1>4. DialsWhatWasAsked' /\ DestinationEnds'
  BY <1>0 DEF DialsWhatWasAsked, DestinationEnds
<1> QED
  BY <1>1, <1>2, <1>3, <1>4 DEF TunnelInv

(* The agent reads what should be the header.                              *)
LEMMA HeaderIsRead ==
  ASSUME TunnelInv, NEW i \in 1..Len(tnWire), ReadHeader(i)
  PROVE  TunnelInv'
<1> USE TunnelUnfolded
<1>0. /\ tnSrv \in {"header", "partial"} /\ Deliverable(i) /\ tnWire' = RemoveAt(tnWire, i)
      /\ UNCHANGED <<tnCli, tnAsk, tnSent, tnGot>>
      /\ \/ /\ tnSrv = "header" /\ AcceptHeader(tnWire[i]) /\ tnSrv' = "relay"
            /\ tnDst' = IF tnWire[i].ver = "data" THEN [state |-> "open", host |-> 0, port |-> 0]
                        ELSE [state |-> "open", host |-> tnWire[i].host, port |-> tnWire[i].port]
         \/ IsData(tnWire[i]) /\ tnSrv' = "partial" /\ UNCHANGED tnDst
         \/ CloseServer
  BY DEF ReadHeader, Take, IsData
<1>1. /\ tnWire' \in Seq(Records) /\ Len(tnWire') = Len(tnWire) - 1 /\ WireSound'
      /\ \A j \in 1..Len(tnWire') : \E k \in 1..Len(tnWire) : tnWire'[j] = tnWire[k]
      /\ \A j, l \in 1..Len(tnWire') :
           IsData(tnWire'[j]) /\ IsData(tnWire'[l]) /\ tnWire'[j].n = tnWire'[l].n => j = l
      /\ \A j \in 1..Len(tnWire'), l \in 1..Len(tnGot) : IsData(tnWire'[j]) => tnWire'[j].n # tnGot[l]
      /\ i = 1 => \A j \in 1..Len(tnWire') : tnWire'[j] = tnWire[j + 1]
  BY <1>0, RecordTaken
<1>2. PayloadsOnce'
  BY <1>0, <1>1 DEF PayloadsOnce, IsData
<1>3. tnAsk.proto = "tcp" => tnSrv = "header" /\ i = 1 /\ tnWire[1].ver = "0.1.0" /\ Len(tnGot) = 0
  BY <1>0 DEF TcpOrder, Deliverable
<1>4. CASE CloseServer
  <2>1. TcpOrder'
    BY <1>0, <1>4, ServerClosed DEF TcpOrder
  <2>2. TunnelTypes'
    BY <1>0, <1>1, <1>4, ServerClosed DEF TunnelTypes
  <2> QED
    BY <2>1, <2>2, <1>0, <1>1, <1>2, <1>4, ServerClosed DEF TunnelInv
<1>5. CASE IsData(tnWire[i]) /\ tnSrv' = "partial" /\ UNCHANGED tnDst
  <2>1. tnAsk.proto # "tcp"
    BY <1>3, <1>5 DEF IsData
  <2> QED
    BY <2>1, <1>0, <1>1, <1>2, <1>5 DEF TunnelInv, TunnelTypes, TcpOrder, DialsWhatWasAsked, DestinationEnds
<1>6. CASE /\ tnSrv = "header" /\ AcceptHeader(tnWire[i]) /\ tnSrv' = "relay"
           /\ tnDst' = IF tnWire[i].ver = "data" THEN [state |-> "open", host |-> 0, port |-> 0]
                       ELSE [state |-> "open", host |-> tnWire[i].host, port |-> tnWire[i].port]
  <2>1. tnWire[i].ver = "0.1.0" /\ ~tnWire[i].flag
    BY <1>6 DEF AcceptHeader, Validate
  <2>2. OfThisAsk(tnWire[i])
    BY <2>1 DEF WireSound, IsData
  <2>3. tnWire[i].host \in HostLens \union {0} /\ tnWire[i].port \in PortLens \union {0}
    <3>1. tnWire[i] \in Records
      OBVIOUS
    <3>2. CASE tnWire[i] = Fin
      BY <3>2, <2>1 DEF Fin
    <3>3. CASE tnWire[i] = NewStreamHealthCheckHeader
      BY <3>3, HeadersFit
    <3>4. CASE \E ho \in HostLens, p \in PortLens : tnWire[i] = NewStreamRequestHeader(ho, p)
      BY <3>4, HeadersFit
    <3>5. CASE \E n \in Nat : tnWire[i] = Payload(n)
      BY <3>5, <2>1 DEF Payload
    <3> QED
      BY <3>1, <3>2, <3>3, <3>4, <3>5 DEF Records
  <2>4. tnDst' = [state |-> "open", host |-> tnWire[i].host, port |-> tnWire[i].port]
    BY <1>6, <2>1
  <2>5. TunnelTypes'
    BY <2>3, <2>4, <1>0, <1>1, <1>6 DEF TunnelTypes
  <2>6. DialsWhatWasAsked' /\ DestinationEnds'
    BY <2>1, <2>2, <2>4, <1>0, <1>6 DEF DialsWhatWasAsked, DestinationEnds, OfThisAsk
  <2>7. TcpOrder'
    <3> SUFFICES ASSUME tnAsk.proto = "tcp"
                 PROVE  /\ \A j \in 1..Len(tnGot) : tnGot[j] = j
                        /\ \A j \in 1..Len(tnWire') : j > 0 =>
                             \/ IsData(tnWire'[j]) /\ tnWire'[j].n = Len(tnGot) + j - 0
                             \/ tnWire'[j].ver = "fin" /\ j = Len(tnWire') /\ tnCli = "closed"
                        /\ tnCli = "open" => Len(tnGot) + Len(tnWire') - 0 = tnSent
      BY <1>0, <1>6 DEF TcpOrder, HeaderFirst, IsData
    <3>1. /\ \A j \in 1..Len(tnGot) : tnGot[j] = j
          /\ \A j \in 1..Len(tnWire) : j > 1 =>
               \/ IsData(tnWire[j]) /\ tnWire[j].n = Len(tnGot) + j - 1
               \/ tnWire[j].ver = "fin" /\ j = Len(tnWire) /\ tnCli = "closed"
          /\ tnCli = "open" => Len(tnGot) + Len(tnWire) - 1 = tnSent
      BY <1>6 DEF TcpOrder, HeaderFirst
    <3>2. Len(tnGot) = 0 /\ \A j \in 1..Len(tnWire') : tnWire'[j] = tnWire[j + 1]
      BY <1>1, <1>3
    <3>3. \A j \in 1..Len(tnWire') : /\ j \in Nat /\ j + 1 \in 1..Len(tnWire) /\ j + 1 > 1
                                     /\ j + 1 = Len(tnWire) <=> j = Len(tnWire')
      BY <1>1
    <3>4. ASSUME NEW j \in 1..Len(tnWire')
          PROVE  \/ IsData(tnWire'[j]) /\ tnWire'[j].n = Len(tnGot) + j - 0
                 \/ tnWire'[j].ver = "fin" /\ j = Len(tnWire') /\ tnCli = "closed"
      <4>1. Len(tnGot) + (j + 1) - 1 = Len(tnGot) + j - 0
        BY <3>2, <3>3
      <4> QED
        BY ONLY <3>1, <3>2, <3>3, <4>1, j \in 1..Len(tnWire')
    <3>5. tnCli = "open" => Len(tnGot) + Len(tnWire') - 0 = tnSent
      BY <3>1, <3>2, <1>1 DEF TunnelTypes
    <3> QED
      BY <3>1, <3>4, <3>5
  <2> QED
    BY <2>5, <2>6, <2>7, <1>1, <1>2 DEF TunnelInv
<1> QED
  BY <1>0, <1>4, <1>5, <1>6

(* A record is relayed to the destination, or the relay ends.              *)
LEMMA RecordRelayed ==
  ASSUME TunnelInv, NEW i \in 1..Len(tnWire), Relay(i)
  PROVE  TunnelInv'
<1> USE TunnelUnfolded
<1>0. /\ tnSrv = "relay" /\ Deliverable(i) /\ tnWire' = RemoveAt(tnWire, i)
      /\ UNCHANGED <<tnCli, tnAsk, tnSent>>
      /\ \/ IsData(tnWire[i]) /\ tnGot' = Append(tnGot, tnWire[i].n) /\ UNCHANGED <<tnSrv, tnDst>>
         \/ tnWire[i].ver = "0.1.0" /\ UNCHANGED <<tnGot, tnSrv, tnDst>>
         \/ CloseServer /\ UNCHANGED tnGot
  BY DEF Relay, Take, IsData
<1>1. /\ tnWire' \in Seq(Records) /\ Len(tnWire') = Len(tnWire) - 1 /\ WireSound'
      /\ \A j \in 1..Len(tnWire') : \E k \in 1..Len(tnWire) : k # i /\ tnWire'[j] = tnWire[k]
      /\ \A j, l \in 1..Len(tnWire') :
           IsData(tnWire'[j]) /\ IsData(tnWire'[l]) /\ tnWire'[j].n = tnWire'[l].n => j = l
      /\ \A j \in 1..Len(tnWire'), l \in 1..Len(tnGot) : IsData(tnWire'[j]) => tnWire'[j].n # tnGot[l]
      /\ i = 1 => \A j \in 1..Len(tnWire') : tnWire'[j] = tnWire[j + 1]
  BY <1>0, RecordTaken
<1>2. /\ tnAsk.proto = "tcp" => i = 1
      /\ tnAsk.proto = "tcp" =>
           /\ \A j \in 1..Len(tnGot) : tnGot[j] = j
           /\ \A j \in 1..Len(tnWire) : j > 0 =>
                \/ IsData(tnWire[j]) /\ tnWire[j].n = Len(tnGot) + j - 0
                \/ tnWire[j].ver = "fin" /\ j = Len(tnWire) /\ tnCli = "closed"
           /\ tnCli = "open" => Len(tnGot) + Len(tnWire) - 0 = tnSent
  BY <1>0 DEF TcpOrder, Deliverable, HeaderFirst
<1>3. CASE IsData(tnWire[i]) /\ tnGot' = Append(tnGot, tnWire[i].n) /\ UNCHANGED <<tnSrv, tnDst>>
  <2>1. tnGot \in Seq(Nat) /\ tnSent \in Nat /\ tnWire[i].n \in 1..tnSent /\ tnWire[i].n \in Nat
    BY <1>3 DEF TunnelTypes, WireSound, IsData, OfThisAsk
  <2>2. /\ tnGot' \in Seq(Nat) /\ Len(tnGot') = Len(tnGot) + 1
        /\ tnGot'[Len(tnGot) + 1] = tnWire[i].n /\ \A j \in 1..Len(tnGot) : tnGot'[j] = tnGot[j]
    BY <1>3, <2>1, AppendProperties
  <2>3. \A j \in 1..Len(tnGot') : j \in 1..Len(tnGot) \/ (j = Len(tnGot) + 1 /\ tnGot'[j] = tnWire[i].n)
    BY <2>2
  <2>4. TunnelTypes' /\ DialsWhatWasAsked' /\ DestinationEnds'
    BY <1>0, <1>1, <1>3, <2>2 DEF TunnelTypes, DialsWhatWasAsked, DestinationEnds
  <2>5. PayloadsOnce'
    <3>1. \A j \in 1..Len(tnGot') : tnGot'[j] \in 1..tnSent'
      BY <1>0, <2>1, <2>2, <2>3 DEF PayloadsOnce
    <3>2. \A j \in 1..Len(tnGot) : tnGot[j] # tnWire[i].n
      BY <1>3 DEF PayloadsOnce
    <3>3. \A j, l \in 1..Len(tnGot') : tnGot'[j] = tnGot'[l] => j = l
      BY <2>2, <2>3, <3>2 DEF PayloadsOnce
    <3>4. \A j \in 1..Len(tnWire') : IsData(tnWire'[j]) => tnWire'[j].n # tnWire[i].n
      <4> SUFFICES ASSUME NEW j \in 1..Len(tnWire'), IsData(tnWire'[j])
                   PROVE  tnWire'[j].n # tnWire[i].n
        OBVIOUS
      <4>1. PICK k \in 1..Len(tnWire) : k # i /\ tnWire'[j] = tnWire[k]
        BY <1>1
      <4> QED
        BY <4>1, <1>3 DEF PayloadsOnce
    <3>5. \A j \in 1..Len(tnWire'), l \in 1..Len(tnGot') : IsData(tnWire'[j]) => tnWire'[j].n # tnGot'[l]
      <4> SUFFICES ASSUME NEW j \in 1..Len(tnWire'), NEW l \in 1..Len(tnGot'), IsData(tnWire'[j])
                   PROVE  tnWire'[j].n # tnGot'[l]
        OBVIOUS
      <4>1. CASE l \in 1..Len(tnGot)
        <5>1. tnGot'[l] = tnGot[l]
          BY ONLY <4>1, <2>2
        <5> QED
          BY ONLY <5>1, <4>1, <1>1, j \in 1..Len(tnWire'), IsData(tnWire'[j])
      <4>2. CASE tnGot'[l] = tnWire[i].n
        BY <4>2, <3>4
      <4> QED
        BY <2>3, <4>1, <4>2
    <3> QED
      BY ONLY <3>1, <3>3, <3>5, <1>1 DEF PayloadsOnce, IsData
  <2>6. TcpOrder'
    <3> SUFFICES ASSUME tnAsk.proto = "tcp"
                 PROVE  /\ \A j \in 1..Len(tnGot') : tnGot'[j] = j
                        /\ \A j \in 1..Len(tnWire') : j > 0 =>
                             \/ IsData(tnWire'[j]) /\ tnWire'[j].n = Len(tnGot') + j - 0
                             \/ tnWire'[j].ver = "fin" /\ j = Len(tnWire') /\ tnCli = "closed"
                        /\ tnCli = "open" => Len(tnGot') + Len(tnWire') - 0 = tnSent
      BY <1>0, <1>3 DEF TcpOrder, HeaderFirst, IsData
    <3>1. tnWire[1].n = Len(tnGot) + 1 /\ i = 1
      <4>1. 1 \in 1..Len(tnWire) /\ 1 > 0 /\ Len(tnGot) + 1 - 0 = Len(tnGot) + 1
        BY <1>2
      <4> QED
        BY <4>1, <1>2, <1>3 DEF IsData
    <3>2. \A j \in 1..Len(tnGot') : tnGot'[j] = j
      BY <3>1, <2>2, <2>3, <1>2
    <3>3. \A j \in 1..Len(tnWire') : /\ j \in Nat /\ j + 1 \in 1..Len(tnWire) /\ j + 1 > 0
                                     /\ j + 1 = Len(tnWire) <=> j = Len(tnWire')
      BY <1>1
    <3>4. ASSUME NEW j \in 1..Len(tnWire')
          PROVE  \/ IsData(tnWire'[j]) /\ tnWire'[j].n = Len(tnGot') + j - 0
                 \/ tnWire'[j].ver = "fin" /\ j = Len(tnWire') /\ tnCli = "closed"
      <4>1. Len(tnGot) + (j + 1) - 0 = Len(tnGot') + j - 0 /\ tnWire'[j] = tnWire[j + 1]
        <5>1. j \in Nat /\ Len(tnGot) \in Nat /\ Len(tnGot') = Len(tnGot) + 1
          BY ONLY <3>3, <3>4, <2>1, <2>2
        <5>2. Len(tnGot) + (j + 1) - 0 = Len(tnGot') + j - 0
          BY ONLY <5>1
        <5>3. tnWire'[j] = tnWire[j + 1]
          BY ONLY <3>1, <3>4, <1>1
        <5> QED
          BY ONLY <5>2, <5>3
      <4>2. \/ IsData(tnWire[j + 1]) /\ tnWire[j + 1].n = Len(tnGot) + (j + 1) - 0
            \/ tnWire[j + 1].ver = "fin" /\ j + 1 = Len(tnWire) /\ tnCli = "closed"
        BY <3>3, <1>2
      <4> QED
        BY ONLY <3>3, <4>1, <4>2, j \in 1..Len(tnWire')
    <3>5. tnCli = "open" => Len(tnGot') + Len(tnWire') - 0 = tnSent
      <4>1. tnCli = "open" => Len(tnGot) + Len(tnWire) - 0 = tnSent
        BY <1>2
      <4>2. Len(tnGot) \in Nat /\ Len(tnWire) \in Nat
        OBVIOUS
      <4> QED
        BY ONLY <4>1, <4>2, <1>1, <2>2
    <3> QED
      BY <3>2, <3>4, <3>5
  <2> QED
    BY <2>4, <2>5, <2>6, <1>1 DEF TunnelInv
<1>4. CASE UNCHANGED tnGot
  <2>1. PayloadsOnce'
    BY <1>0, <1>1, <1>4 DEF PayloadsOnce, IsData
  <2>2. CASE CloseServer
    <3>1. TcpOrder'
      BY <1>0, <1>4, <2>2, ServerClosed DEF TcpOrder
    <3>2. TunnelTypes'
      BY <1>0, <1>1, <1>4, <2>2, ServerClosed DEF TunnelTypes
    <3> QED
      BY <3>1, <3>2, <2>1, <2>2, <1>0, <1>1, ServerClosed DEF TunnelInv
  <2>3. CASE tnWire[i].ver = "0.1.0" /\ UNCHANGED <<tnSrv, tnDst>>
    <3>1. tnAsk.proto # "tcp"
      BY <2>3, <1>2 DEF IsData
    <3> QED
      BY <3>1, <2>1, <2>3, <1>0, <1>1, <1>4
         DEF TunnelInv, TunnelTypes, TcpOrder, DialsWhatWasAsked, DestinationEnds
  <2>4. CASE IsData(tnWire[i]) /\ tnGot' = Append(tnGot, tnWire[i].n) /\ UNCHANGED <<tnSrv, tnDst>>
    BY <2>4, <1>3
  <2> QED
    BY <1>0, <2>2, <2>3, <2>4
<1> QED
  BY <1>0, <1>3, <1>4

(* The inductive invariant of a tunnel: what is under way, what was        *)
(* relayed, and their order over TCP (client and server of the agent's     *)
(* streams).                                                               *)
THEOREM TunnelInvariant == TunnelSpec => []TunnelInv
<1>1. TunnelInit => TunnelInv
  <2> SUFFICES ASSUME TunnelInit PROVE TunnelInv
    OBVIOUS
  <2>1. TunnelTypes
    BY DEF TunnelInit, TunnelTypes, NotDialled
  <2>2. WireSound /\ PayloadsOnce /\ TcpOrder
    BY DEF TunnelInit, WireSound, PayloadsOnce, TcpOrder
  <2>3. DialsWhatWasAsked /\ DestinationEnds
    BY DEF TunnelInit, DialsWhatWasAsked, DestinationEnds, NotDialled
  <2> QED
    BY <2>1, <2>2, <2>3 DEF TunnelInv
<1>2. TunnelInv /\ [TunnelNext]_tnVars => TunnelInv'
  <2> SUFFICES ASSUME TunnelInv, [TunnelNext]_tnVars PROVE TunnelInv'
    OBVIOUS
  <2>1. CASE FetchInfo \/ HeaderTimeout \/ RelayEnds \/ ForwardEnds \/ UNCHANGED tnVars
    BY <2>1, ServerStep DEF tnVars
  <2>2. CASE WritePayload \/ CloseClient
    BY <2>2, ClientWrites
  <2>3. ASSUME NEW proto \in {"tcp", "udp"}, NEW ho \in HostLens, NEW p \in PortLens, NewClient(proto, ho, p)
        PROVE  TunnelInv'
    <3>1. Open(proto, ho, p, NewStreamRequestHeader(ho, p), "open", << >>)
      BY <2>3 DEF NewClient
    <3> QED
      BY <3>1, HeadersFit, TunnelOpened
  <2>4. ASSUME NEW proto \in {"tcp", "udp"}, HealthCheck(proto)
        PROVE  TunnelInv'
    <3>1. CASE Open(proto, 0, 0, NewStreamHealthCheckHeader, "closed", <<Fin>>)
      BY <3>1, HeadersFit, TunnelOpened
    <3>2. CASE UNCHANGED <<tnCli, tnAsk, tnWire, tnSent, tnSrv, tnDst, tnGot>>
      BY <3>2, ServerStep
    <3> QED
      BY <2>4, <3>1, <3>2 DEF HealthCheck
  <2>5. CASE \E i \in 1..Len(tnWire) : LoseRecord(i) \/ ReadHeader(i) \/ Relay(i)
    BY <2>5, RecordLost, HeaderIsRead, RecordRelayed
  <2> QED
    BY <2>1, <2>2, <2>3, <2>4, <2>5 DEF TunnelNext
<1> QED
  BY <1>1, <1>2, PTL DEF TunnelSpec

(* The agent dials what was asked for and nothing for a probe, relays each *)
(* payload at most once and over TCP in order, and leaves no connection    *)
(* behind, for any hosts, ports and payloads (redirect, Validate, handle,  *)
(* handleDTLSConnection).                                                  *)
THEOREM TunnelRelaysSoundly == TunnelSpec => []TunnelSound
<1>1. TunnelInv => TunnelSound
  <2> SUFFICES ASSUME TunnelInv PROVE TunnelSound
    OBVIOUS
  <2> USE TunnelUnfolded
  <2>1. DOMAIN tnGot = 1..Len(tnGot)
    BY DEF TunnelTypes
  <2>2. IsInjective(tnGot) /\ ToSet(tnGot) \subseteq 1..tnSent
    BY <2>1 DEF PayloadsOnce, IsInjective, ToSet
  <2>3. tnAsk.proto = "tcp" => \A i \in DOMAIN tnGot : tnGot[i] = i
    BY <2>1 DEF TcpOrder
  <2> QED
    BY <2>2, <2>3 DEF TunnelSound, RelaysOnce
<1> QED
  BY <1>1, TunnelInvariant, PTL

(***************************************************************************)
(* Proxmox.                                                                *)
(***************************************************************************)
Ids == UNION {Lxc[c] : c \in Clusters}
Rows == [id : Ids, name : {LxcName[i] : i \in Ids}, ip : UNION {UNION {Address[c][i] : i \in Lxc[c]} : c \in Clusters}]
PxClient == [pc : {"init", "idle", "ips", "off"}, left : SUBSET Ids,
             got : SUBSET Rows, table : SUBSET Rows, polls : Nat]
LxcStates == {"running", "stopped", "suspended"}

PxTypes ==
  /\ client \in [Clusters -> PxClient]
  /\ act \in [pc : {"idle", "wait", "done", "failed"},
              action : {"none", "start", "shutdown", "suspend", "resume"},
              task : {"none", "running", "ended"}, saw : {"none"} \cup LxcStates]
  /\ watch \in [pc : {"off", "poll", "send", "ended"}, running : BOOLEAN,
                sent : Seq({"start", "stop"}), first : BOOLEAN]

(* The containers of a cluster have addresses of theirs.                   *)
PveSound ==
  /\ DOMAIN pve = Clusters
  /\ \A c \in Clusters : DOMAIN pve[c] = Lxc[c]
  /\ \A c \in Clusters : \A i \in Lxc[c] :
       /\ pve[c][i] \in [state : LxcStates, ip : UNION {UNION {Address[d][j] : j \in Lxc[d]} : d \in Clusters}]
       /\ pve[c][i].ip \in Address[c][i]

(* What a client has asked for so far are rows of its own cluster, and the *)
(* containers it has still to ask for are all the others.                  *)
OwnRows(c, rows) ==
  \A r \in rows : r.id \in Lxc[c] /\ r.ip \in Address[c][r.id] /\ r.name = LxcName[r.id]
Polled(c) ==
  /\ OwnRows(c, client[c].got) /\ OwnRows(c, client[c].table) /\ client[c].left \subseteq Lxc[c]
  /\ client[c].pc = "ips" => {r.id : r \in client[c].got} = Lxc[c] \ client[c].left
  /\ client[c].table # {} => {r.id : r \in client[c].table} = Lxc[c]

(* A client in use finds its own node in the pool.                         *)
NodePooled ==
  \A c \in Clusters : client[c].pc \in {"idle", "ips"} =>
    NodeName[c] \in DOMAIN nodes /\ nodes[NodeName[c]] = c

NothingSentYet == watch.pc = "off" => watch.sent = <<>>

ProxmoxInv ==
  /\ PxTypes /\ PveSound /\ NodePooled /\ (\A c \in Clusters : Polled(c))
  /\ NothingSentYet /\ WatchTells /\ DoneIsDone

(* Clusters whose nodes have different names: the pool that all clients    *)
(* share keeps one node for each name.                                     *)
NodesNamedApart == \A c, d \in Clusters : NodeName[c] = NodeName[d] => c = d

LEMMA ProxmoxInitInv == ProxmoxInit => ProxmoxInv
<1> SUFFICES ASSUME ProxmoxInit
             PROVE  ProxmoxInv
  OBVIOUS
<1>1. PxTypes
  BY DEF ProxmoxInit, PxTypes, PxClient, Clusters
<1>2. PveSound
  <2>1. \A c \in Clusters : \A i \in Lxc[c] : (CHOOSE a \in Address[c][i] : TRUE) \in Address[c][i]
    BY ProxmoxAssumption DEF Clusters
  <2>2. \A c \in Clusters : \A i \in Lxc[c] :
          pve[c][i] = [state |-> "stopped", ip |-> CHOOSE a \in Address[c][i] : TRUE]
    BY DEF ProxmoxInit
  <2>3. /\ DOMAIN pve = Clusters
        /\ \A c \in Clusters : DOMAIN pve[c] = Lxc[c]
    BY DEF ProxmoxInit
  <2>4. ASSUME NEW c \in Clusters, NEW i \in Lxc[c]
        PROVE  /\ pve[c][i] \in [state : LxcStates, ip : UNION {UNION {Address[d][j] : j \in Lxc[d]} : d \in Clusters}]
               /\ pve[c][i].ip \in Address[c][i]
    <3>1. PICK a \in Address[c][i] : pve[c][i] = [state |-> "stopped", ip |-> a]
      BY <2>1, <2>2
    <3> QED
      BY <3>1 DEF LxcStates
  <2> QED
    BY <2>3, <2>4 DEF PveSound
<1>3. NodePooled /\ \A c \in Clusters : Polled(c)
  BY DEF ProxmoxInit, NodePooled, Polled, OwnRows
<1>4. NothingSentYet /\ WatchTells /\ DoneIsDone
  BY DEF ProxmoxInit, NothingSentYet, WatchTells, DoneIsDone, Last
<1> QED
  BY <1>1, <1>2, <1>3, <1>4 DEF ProxmoxInv

(* A step of a client leaves the other clients alone.                      *)
LEMMA OtherClients ==
  ASSUME PxTypes, \A d \in Clusters : Polled(d), NEW c \in Clusters, NEW r, client' = [client EXCEPT ![c] = r],
         r \in PxClient,
         OwnRows(c, r.got), OwnRows(c, r.table), r.left \subseteq Lxc[c],
         r.pc = "ips" => {x.id : x \in r.got} = Lxc[c] \ r.left,
         r.table # {} => {x.id : x \in r.table} = Lxc[c]
  PROVE  /\ client' \in [Clusters -> PxClient]
         /\ client'[c] = r
         /\ \A d \in Clusters : d # c => client'[d] = client[d]
         /\ \A d \in Clusters : Polled(d)'
<1>1. /\ client'[c] = r
      /\ \A d \in Clusters : d # c => client'[d] = client[d]
  BY DEF PxTypes
<1>2. client' \in [Clusters -> PxClient]
  BY DEF PxTypes
<1>3. ASSUME NEW d \in Clusters
      PROVE  Polled(d)'
  <2>1. CASE d = c
    BY <2>1, <1>1 DEF Polled, OwnRows
  <2>2. CASE d # c
    BY <2>2, <1>1 DEF Polled, OwnRows
  <2> QED
    BY <2>1, <2>2
<1> QED
  BY <1>1, <1>2, <1>3

(* Polling keeps the tables their clusters' own.                           *)
LEMMA ClientsPoll ==
  ASSUME NodesNamedApart, ProxmoxInv, NEW c \in Clusters,
         \/ UpdateClusterInfo(c) \/ ListResources(c) \/ StoreResources(c)
         \/ \E i \in Lxc[c] : LXCGetIPs(c, i)
  PROVE  ProxmoxInv'
<1> DEFINE Good(r) ==
             /\ r \in PxClient
             /\ OwnRows(c, r.got) /\ OwnRows(c, r.table) /\ r.left \subseteq Lxc[c]
             /\ r.pc = "ips" => {x.id : x \in r.got} = Lxc[c] \ r.left
             /\ r.table # {} => {x.id : x \in r.table} = Lxc[c]
<1>1. /\ PxTypes /\ PveSound /\ NodePooled /\ (\A d \in Clusters : Polled(d)) /\ Polled(c)
      /\ client[c] \in PxClient
      /\ Lxc[c] \subseteq Ids
  BY DEF ProxmoxInv, PxTypes, Ids
<1>2. UNCHANGED <<pve, act, watch>>
  BY DEF UpdateClusterInfo, ListResources, StoreResources, LXCGetIPs, ClientOnly
<1>3. PveSound' /\ NothingSentYet' /\ WatchTells' /\ DoneIsDone'
  BY <1>2 DEF ProxmoxInv, PveSound, NothingSentYet, WatchTells, DoneIsDone
<1>4. ASSUME NEW r, Good(r), client' = [client EXCEPT ![c] = r], nodes' = nodes,
             r.pc \in {"idle", "ips"} => client[c].pc \in {"idle", "ips"}
      PROVE  ProxmoxInv'
  <2>1. /\ client' \in [Clusters -> PxClient]
        /\ client'[c] = r
        /\ \A d \in Clusters : d # c => client'[d] = client[d]
        /\ \A d \in Clusters : Polled(d)'
    BY <1>1, <1>4, OtherClients
  <2>2. PxTypes'
    BY <2>1, <1>1, <1>2 DEF PxTypes
  <2>3. NodePooled'
    BY <2>1, <1>1, <1>4 DEF NodePooled
  <2> QED
    BY <2>1, <2>2, <2>3, <1>3 DEF ProxmoxInv
<1>5. CASE UpdateClusterInfo(c)
  <2> DEFINE r(pc) == [client[c] EXCEPT !.pc = pc]
  <2>1. Good(r("idle")) /\ Good(r("off")) /\ r("idle").pc = "idle" /\ r("off").pc = "off"
    BY <1>1 DEF Polled, OwnRows, PxClient
  <2>2. CASE client' = [client EXCEPT ![c].pc = "off"] /\ UNCHANGED nodes
    <3>1. client' = [client EXCEPT ![c] = r("off")]
      BY <2>2
    <3> HIDE DEF r, Good
    <3> QED
      BY <3>1, <2>1, <2>2, <1>4
  <2>3. CASE /\ client' = [client EXCEPT ![c].pc = "idle"]
             /\ nodes' = [n \in DOMAIN nodes \cup {NodeName[c]} |-> IF n = NodeName[c] THEN c ELSE nodes[n]]
    <3>1. client' = [client EXCEPT ![c] = r("idle")]
      BY <2>3
    <3>2. /\ client' \in [Clusters -> PxClient]
          /\ client'[c] = r("idle")
          /\ \A d \in Clusters : d # c => client'[d] = client[d]
          /\ \A d \in Clusters : Polled(d)'
      <4> HIDE DEF r
      <4> QED
        BY <3>1, <2>1, <1>1, OtherClients
    <3>3. PxTypes'
      BY <3>2, <1>1, <1>2 DEF PxTypes
    <3>4. NodePooled'
      BY <3>2, <2>3, <1>1 DEF NodePooled, NodesNamedApart
    <3> QED
      BY <3>2, <3>3, <3>4, <1>3 DEF ProxmoxInv
  <2> QED
    BY Zenon, <1>5, <2>2, <2>3 DEF UpdateClusterInfo
<1>6. CASE ListResources(c)
  <2> DEFINE r == [client[c] EXCEPT !.pc = "ips", !.left = Lxc[c], !.got = {}, !.polls = @ + 1]
             q == [client[c] EXCEPT !.polls = @ + 1]
  <2>1. client[c].pc = "idle" /\ r.pc = "ips" /\ q.pc = "idle"
    BY <1>1, <1>6 DEF ListResources, PxClient
  <2>3. Good(r)
    <3>1. {x.id : x \in {}} = Lxc[c] \ Lxc[c]
      OBVIOUS
    <3>2. r.left = Lxc[c] /\ r.got = {} /\ r.table = client[c].table
      BY <1>1
    <3>3. r \in PxClient
      <4>1. \A x \in PxClient, l \in SUBSET Ids, n \in Nat :
              [x EXCEPT !.pc = "ips", !.left = l, !.got = {}, !.polls = n] \in PxClient
        BY DEF PxClient
      <4>2. client[c].polls + 1 \in Nat /\ r = [client[c] EXCEPT !.pc = "ips", !.left = Lxc[c], !.got = {}, !.polls = client[c].polls + 1]
        BY <1>1 DEF PxClient
      <4> QED
        BY <4>1, <4>2, <1>1
    <3> HIDE DEF r
    <3> QED
      BY <3>1, <3>2, <3>3, <1>1 DEF Polled, OwnRows
  <2>4. Good(q)
    BY <2>1, <1>1 DEF Polled, OwnRows, PxClient
  <2>2. nodes' = nodes /\ (client' = [client EXCEPT ![c] = r] \/ client' = [client EXCEPT ![c] = q])
    BY <1>6 DEF ListResources
  <2> HIDE DEF r, q, Good
  <2> QED
    BY <2>1, <2>2, <2>3, <2>4, <1>4
<1>7. CASE StoreResources(c)
  <2> DEFINE r == [client[c] EXCEPT !.pc = "idle", !.got = {}, !.table = client[c].got]
  <2>1. Good(r) /\ r.pc = "idle" /\ client[c].pc = "ips"
    BY <1>1, <1>7 DEF Polled, OwnRows, PxClient, StoreResources
  <2>2. nodes' = nodes /\ client' = [client EXCEPT ![c] = r]
    BY <1>7 DEF StoreResources
  <2> HIDE DEF r, Good
  <2> QED
    BY <2>1, <2>2, <1>4
<1>8. ASSUME NEW i \in Lxc[c], LXCGetIPs(c, i)
      PROVE  ProxmoxInv'
  <2> DEFINE row == [id |-> i, name |-> LxcName[i], ip |-> pve[c][i].ip]
             r == [client[c] EXCEPT !.left = @ \ {i}, !.got = @ \cup {row}]
             q == [client[c] EXCEPT !.pc = "idle", !.left = {}, !.got = {}]
  <2>1. client[c].pc = "ips" /\ i \in client[c].left /\ NodeClient(c) = c /\ nodes' = nodes
    BY <1>1, <1>8 DEF LXCGetIPs, NodeClient, NodePooled
  <2>2. pve[c][i].ip \in Address[c][i]
    BY <1>1 DEF PveSound
  <2>3. row \in Rows /\ OwnRows(c, {row})
    BY <2>2, <1>1 DEF Rows, OwnRows
  <2>4. Good(r) /\ r.pc = "ips"
    <3>1. r \in PxClient
      BY <2>3, <1>1 DEF PxClient
    <3>2. r.left = client[c].left \ {i} /\ r.got = client[c].got \cup {row} /\ r.table = client[c].table /\ r.pc = "ips"
      BY <2>1, <1>1
    <3>3. OwnRows(c, r.got) /\ OwnRows(c, r.table) /\ r.left \subseteq Lxc[c]
      BY <3>2, <2>3, <1>1 DEF OwnRows, Polled
    <3>4. {x.id : x \in r.got} = Lxc[c] \ r.left
      <4>1. row.id = i
        OBVIOUS
      <4>2. {x.id : x \in client[c].got} = Lxc[c] \ client[c].left
        BY <2>1, <1>1 DEF Polled
      <4> HIDE DEF row, r
      <4>3. {x.id : x \in r.got} = {x.id : x \in client[c].got} \cup {i}
        BY <3>2, <4>1
      <4> QED
        BY <3>2, <4>2, <4>3, <2>1
    <3>5. r.table # {} => {x.id : x \in r.table} = Lxc[c]
      BY <3>2, <1>1 DEF Polled
    <3> HIDE DEF r
    <3> QED
      BY <3>1, <3>2, <3>3, <3>4, <3>5
  <2>5. Good(q) /\ q.pc = "idle"
    BY <1>1 DEF Polled, OwnRows, PxClient
  <2>6. client' = [client EXCEPT ![c] = r] \/ client' = [client EXCEPT ![c] = q]
    BY <1>8, <2>1 DEF LXCGetIPs
  <2> HIDE DEF r, q, Good
  <2> QED
    BY <2>1, <2>4, <2>5, <2>6, <1>4
<1> QED
  BY <1>5, <1>6, <1>7, <1>8

(* An action on the container, its task and its wait.                      *)
LEMMA ActionSteps ==
  ASSUME ProxmoxInv,
         \/ \E action \in {"start", "shutdown", "suspend", "resume"} : LXCAction(action)
         \/ TaskEnds \/ CheckTask \/ ActionReturns
  PROVE  ProxmoxInv'
<1>1. /\ PxTypes /\ PveSound /\ DoneIsDone
      /\ act \in [pc : {"idle", "wait", "done", "failed"},
                  action : {"none", "start", "shutdown", "suspend", "resume"},
                  task : {"none", "running", "ended"}, saw : {"none"} \cup LxcStates]
  BY DEF ProxmoxInv, PxTypes
<1>2. UNCHANGED <<nodes, client, watch>>
  BY DEF LXCAction, TaskEnds, CheckTask, ActionReturns, WatchedOnly
<1>3. NodePooled' /\ (\A c \in Clusters : Polled(c)') /\ NothingSentYet' /\ WatchTells'
  BY <1>2 DEF ProxmoxInv, NodePooled, Polled, OwnRows, NothingSentYet, WatchTells
<1>4. Watched[1] \in Clusters /\ Watched[2] \in Lxc[Watched[1]]
  BY ProxmoxAssumption DEF Clusters
<1>5. State \in LxcStates
  BY <1>1, <1>4 DEF State, PveSound
<1>6. PveSound'
  <2>1. CASE pve' = pve
    BY <2>1, <1>1 DEF PveSound
  <2>2. CASE TaskEnds /\ pve' = [pve EXCEPT ![Watched[1]][Watched[2]].state = Effect(act.action)]
    <3>1. Effect(act.action) \in LxcStates
      BY <1>1 DEF Effect, LxcStates
    <3>2. DOMAIN pve' = Clusters /\ \A c \in Clusters : DOMAIN pve'[c] = Lxc[c]
      BY <2>2, <1>1 DEF PveSound
    <3>3. ASSUME NEW c \in Clusters, NEW i \in Lxc[c]
          PROVE  pve'[c][i] = pve[c][i] \/ pve'[c][i] = [pve[c][i] EXCEPT !.state = Effect(act.action)]
      BY <2>2, <1>1 DEF PveSound
    <3>4. ASSUME NEW c \in Clusters, NEW i \in Lxc[c]
          PROVE  /\ pve'[c][i] \in [state : LxcStates, ip : UNION {UNION {Address[d][j] : j \in Lxc[d]} : d \in Clusters}]
                 /\ pve'[c][i].ip \in Address[c][i]
      <4>1. /\ pve[c][i] \in [state : LxcStates, ip : UNION {UNION {Address[d][j] : j \in Lxc[d]} : d \in Clusters}]
            /\ pve[c][i].ip \in Address[c][i]
        BY <1>1 DEF PveSound
      <4>2. CASE pve'[c][i] = pve[c][i]
        BY <4>1, <4>2
      <4>3. CASE pve'[c][i] = [pve[c][i] EXCEPT !.state = Effect(act.action)]
        BY <4>1, <4>3, <3>1
      <4> QED
        BY <3>3, <4>2, <4>3
    <3> QED
      BY <3>2, <3>4 DEF PveSound
  <2> QED
    BY <2>1, <2>2 DEF LXCAction, TaskEnds, CheckTask, ActionReturns
<1>7. PxTypes' /\ DoneIsDone'
  <2>1. ASSUME NEW action \in {"start", "shutdown", "suspend", "resume"}, LXCAction(action)
        PROVE  PxTypes' /\ DoneIsDone'
    <3>1. CASE act' = [pc |-> "wait", action |-> action, task |-> "running", saw |-> "none"]
      BY <3>1, <1>1, <1>2 DEF PxTypes, DoneIsDone
    <3>2. CASE act' = [act EXCEPT !.pc = "failed", !.action = action]
      BY <3>2, <1>1, <1>2 DEF PxTypes, DoneIsDone
    <3> QED
      BY <2>1, <3>1, <3>2 DEF LXCAction
  <2>2. CASE TaskEnds
    BY <2>2, <1>1, <1>2 DEF TaskEnds, PxTypes, DoneIsDone
  <2>3. CASE CheckTask
    <3>1. HasEffect(act.action, State) => State = Effect(act.action)
      BY DEF HasEffect, Effect
    <3> QED
      BY <2>3, <3>1, <1>1, <1>2, <1>5 DEF CheckTask, PxTypes, DoneIsDone
  <2>4. CASE ActionReturns
    BY <2>4, <1>1, <1>2 DEF ActionReturns, PxTypes, DoneIsDone
  <2> QED
    BY <2>1, <2>2, <2>3, <2>4
<1> QED
  BY <1>3, <1>6, <1>7 DEF ProxmoxInv

(* The watch: what it sends alternates.                                    *)
LEMMA WatchSteps ==
  ASSUME ProxmoxInv, WatchBegins \/ PollState \/ SendEvent
  PROVE  ProxmoxInv'
<1>1. /\ PxTypes /\ NothingSentYet /\ WatchTells
      /\ watch \in [pc : {"off", "poll", "send", "ended"}, running : BOOLEAN,
                    sent : Seq({"start", "stop"}), first : BOOLEAN]
  BY DEF ProxmoxInv, PxTypes
<1>2. UNCHANGED <<nodes, client, pve, act>>
  BY DEF WatchBegins, PollState, SendEvent, WatchedOnly
<1>3. NodePooled' /\ (\A c \in Clusters : Polled(c)') /\ PveSound' /\ DoneIsDone'
  BY <1>2 DEF ProxmoxInv, NodePooled, Polled, OwnRows, PveSound, DoneIsDone
<1>4. CASE WatchBegins
  <2>1. /\ watch.pc = "off" /\ watch'.sent = <<>>
        /\ watch'.pc = "poll" => watch'.running = watch'.first
        /\ watch'.pc \in {"poll", "ended"}
        /\ watch' \in [pc : {"off", "poll", "send", "ended"}, running : BOOLEAN,
                       sent : Seq({"start", "stop"}), first : BOOLEAN]
    BY <1>1, <1>4 DEF WatchBegins, NothingSentYet
  <2>2. WatchTells'
    BY <2>1 DEF WatchTells
  <2> QED
    BY <2>1, <2>2, <1>1, <1>2, <1>3 DEF ProxmoxInv, PxTypes, NothingSentYet
<1>5. CASE PollState
  <2>1. /\ watch.pc = "poll" /\ watch'.sent = watch.sent /\ watch'.first = watch.first
        /\ \/ watch'.pc = "ended"
           \/ watch'.pc = "send" /\ watch'.running = ~watch.running
        /\ watch' \in [pc : {"off", "poll", "send", "ended"}, running : BOOLEAN,
                       sent : Seq({"start", "stop"}), first : BOOLEAN]
    BY <1>1, <1>5 DEF PollState
  <2>2. WatchTells'
    BY <2>1, <1>1 DEF WatchTells
  <2> QED
    BY <2>1, <2>2, <1>1, <1>2, <1>3 DEF ProxmoxInv, PxTypes, NothingSentYet
<1>6. CASE SendEvent
  <2> DEFINE e == IF watch.running THEN "start" ELSE "stop"
             n == Len(watch.sent)
  <2>0. /\ e \in {"start", "stop"} /\ Append(watch.sent, e) \in Seq({"start", "stop"})
        /\ watch.pc = "send" /\ watch' = [watch EXCEPT !.pc = "poll", !.sent = Append(watch.sent, e)]
    BY <1>1, <1>6 DEF SendEvent
  <2>1. /\ watch.pc = "send" /\ watch'.sent = Append(watch.sent, e) /\ watch'.first = watch.first
        /\ watch'.pc = "poll" /\ watch'.running = watch.running
        /\ watch' \in [pc : {"off", "poll", "send", "ended"}, running : BOOLEAN,
                       sent : Seq({"start", "stop"}), first : BOOLEAN]
    <3> HIDE DEF e
    <3> QED
      BY <2>0, <1>1
  <2>2. /\ n \in Nat /\ Len(watch'.sent) = n + 1 /\ watch'.sent[n + 1] = e /\ watch'.sent # <<>>
        /\ \A k \in 1..n : watch'.sent[k] = watch.sent[k]
        /\ e = "start" <=> watch.running
    BY <2>1, <1>1
  <2>3. Last(watch'.sent) = e
    BY <2>2 DEF Last
  <2>4. n # 0 => watch.sent[n] # e /\ watch.sent # <<>>
    BY <2>1, <2>2, <1>1 DEF WatchTells, Last
  <2>5. n = 0 => watch.first = ~watch.running /\ watch.sent = <<>>
    BY <2>1, <2>2, <1>1 DEF WatchTells
  <2> HIDE DEF e, n
  <2>6. \A k \in 1..(Len(watch'.sent) - 1) : watch'.sent[k] # watch'.sent[k + 1]
    <3> SUFFICES ASSUME NEW k \in 1..n
                 PROVE  watch'.sent[k] # watch'.sent[k + 1]
      BY <2>2
    <3>1. CASE k = n
      BY <3>1, <2>2, <2>4
    <3>2. CASE k # n
      <4>1. k \in 1..(n - 1) /\ k + 1 \in 1..n
        BY <3>2, <2>2
      <4>2. watch.sent[k] # watch.sent[k + 1]
        BY <4>1, <1>1 DEF WatchTells, n
      <4> QED
        BY <4>1, <4>2, <2>2
    <3> QED
      BY <3>1, <3>2
  <2>7. (watch'.sent[1] = "start") = ~watch'.first
    <3>1. CASE n = 0
      BY <3>1, <2>1, <2>2, <2>5, <1>1
    <3>2. CASE n # 0
      BY <3>2, <2>1, <2>2, <2>4, <1>1 DEF WatchTells
    <3> QED
      BY <3>1, <3>2
  <2>8. (Last(watch'.sent) = "start") = watch'.running
    BY <2>1, <2>2, <2>3, <1>1
  <2>9. WatchTells'
    BY <2>1, <2>2, <2>6, <2>7, <2>8 DEF WatchTells
  <2> QED
    BY <2>1, <2>9, <1>1, <1>2, <1>3 DEF ProxmoxInv, PxTypes, NothingSentYet
<1> QED
  BY <1>4, <1>5, <1>6

LEMMA ProxmoxStep ==
  ASSUME NodesNamedApart, ProxmoxInv, [ProxmoxNext]_pxVars
  PROVE  ProxmoxInv'
<1>1. ASSUME NEW c \in Clusters, NEW i \in Lxc[c], Changes(c, i)
      PROVE  ProxmoxInv'
  <2>1. PICK s \in {"running", "stopped"}, a \in Address[c][i] :
          pve' = [pve EXCEPT ![c][i] = [state |-> s, ip |-> a]]
    BY <1>1 DEF Changes
  <2>2. PveSound
    BY DEF ProxmoxInv
  <2>3. DOMAIN pve' = Clusters /\ \A d \in Clusters : DOMAIN pve'[d] = Lxc[d]
    BY <2>1, <2>2 DEF PveSound
  <2>4. ASSUME NEW d \in Clusters, NEW j \in Lxc[d]
        PROVE  \/ pve'[d][j] = pve[d][j]
               \/ d = c /\ j = i /\ pve'[d][j] = [state |-> s, ip |-> a]
    BY <2>1, <2>2 DEF PveSound
  <2>5. ASSUME NEW d \in Clusters, NEW j \in Lxc[d]
        PROVE  /\ pve'[d][j] \in [state : LxcStates, ip : UNION {UNION {Address[x][y] : y \in Lxc[x]} : x \in Clusters}]
               /\ pve'[d][j].ip \in Address[d][j]
    BY <2>2, <2>4 DEF PveSound, LxcStates
  <2>6. PveSound'
    BY <2>3, <2>5 DEF PveSound
  <2>7. UNCHANGED <<nodes, client, act, watch>>
    BY <1>1 DEF Changes
  <2> QED
    BY <2>6, <2>7 DEF ProxmoxInv, PxTypes, NodePooled, Polled, OwnRows, NothingSentYet, WatchTells, DoneIsDone
<1>2. CASE UNCHANGED pxVars
  BY <1>2 DEF pxVars, ProxmoxInv, PxTypes, PveSound, NodePooled, Polled, OwnRows, NothingSentYet,
              WatchTells, DoneIsDone
<1> QED
  BY <1>1, <1>2, ClientsPoll, ActionSteps, WatchSteps DEF ProxmoxNext

(* The inductive invariant, for any clusters whose nodes are named apart.  *)
THEOREM ProxmoxInvariant ==
  ASSUME NodesNamedApart
  PROVE  ProxmoxSpec => []ProxmoxInv
<1> QED
  BY ProxmoxInitInv, ProxmoxStep, PTL DEF ProxmoxSpec

(* Each cluster's table holds the containers of that cluster with their    *)
(* addresses, all or none, although ids repeat and the node pool is        *)
(* shared; the watch's events alternate and agree with what it knows; and  *)
(* an action that is done has had its effect: for any clusters, containers *)
(* and faults, if no two nodes have one name (src/internal/proxmox/node.go *)
(* keeps nodes by name).                                                   *)
THEOREM ProxmoxIsSound ==
  ASSUME NodesNamedApart
  PROVE  ProxmoxSpec => []ProxmoxSound
<1>1. ProxmoxInv => ProxmoxSound
  <2> SUFFICES ASSUME ProxmoxInv
               PROVE  TablesOwn
    BY DEF ProxmoxInv, ProxmoxSound
  <2> SUFFICES ASSUME NEW c \in Clusters
               PROVE  /\ \A r \in client[c].table : r.id \in Lxc[c] /\ r.ip \in Address[c][r.id]
                      /\ client[c].table # {} => {r.id : r \in client[c].table} = Lxc[c]
                      /\ \A i \in Lxc[c] : \A r \in ReverseLookupResource(c, "", LxcName[i], "") :
                           LxcName[r.id] = LxcName[i]
    BY DEF TablesOwn
  <2>1. Polled(c)
    BY DEF ProxmoxInv
  <2> QED
    BY <2>1 DEF Polled, OwnRows, ReverseLookupResource
<1> QED
  BY <1>1, ProxmoxInvariant, PTL

(***************************************************************************)
(* RouteValidate.                                                          *)
(***************************************************************************)
(* The fields of a route that is being validated.                          *)
RouteFields ==
  rv = [pc |-> rv.pc, in |-> rv.in, alias |-> rv.alias, scheme |-> rv.scheme,
        host |-> rv.host, lp |-> rv.lp, pp |-> rv.pp, cont |-> rv.cont, idle |-> rv.idle,
        lb |-> rv.lb, hcOff |-> rv.hcOff, agent |-> rv.agent, pve |-> rv.pve,
        lis |-> rv.lis, impl |-> rv.impl, atCheck |-> rv.atCheck,
        excluded |-> rv.excluded, auto |-> rv.auto, name |-> rv.name,
        category |-> rv.category]

(* What holds from ReadRoute on: the names of the route, and a container   *)
(* is never looked up in proxmox.                                          *)
RouteNamed ==
  /\ rv.alias # "" /\ rv.scheme \in Schemes \cup {""}
  /\ IsDocker(rv) => rv.cont.name # "" /\ rv.cont.image # "" /\ rv.pve = "none"
  /\ rv.pve \in {"none", "node", "lxc"}

(* From Finalize on: the scheme is known, and a port that was taken from a *)
(* container belongs to the host.                                          *)
PortFits ==
  IsDocker(rv) /\ rv.auto =>
    IF rv.host = rv.cont.publicHost
      THEN rv.pp \in PublicPorts(rv.cont) \cup {0}
      ELSE rv.pp \in PrivatePorts(rv.cont) \cup {0}

(* From the checks on: what they found still holds of the route.           *)
ChecksHold ==
  /\ ~(rv.scheme = "fileserver" /\ IsDocker(rv)) => rv.atCheck = ShouldExclude(rv)
  /\ rv.lis = (rv.scheme \in {"tcp", "udp"} /\ ~rv.atCheck)
  /\ ~(/\ ~IsAgent(rv) /\ ~rv.atCheck /\ rv.host = "localhost" /\ rv.pp \in ReservedPorts
       /\ rv.scheme \in ReverseProxied \cup {"tcp"})
  /\ UseLoadBalance(rv) \/ UseIdleWatcher(rv) => UseHealthCheck(rv)

(* From BuildRoute on: the implementation and the second exclusion.        *)
RouteBuilt ==
  /\ rv.excluded = ShouldExclude(rv)
  /\ rv.impl = IF rv.scheme = "fileserver" THEN "file"
               ELSE IF rv.scheme \in ReverseProxied THEN "http" ELSE "stream"

ValidatePCs == {"idle", "read", "final", "found", "looked", "checked", "built", "valid", "invalid"}
AfterFinal  == {"final", "found", "looked", "checked", "built", "valid"}
AfterCheck  == {"checked", "built", "valid"}

ValidateInv ==
  /\ rv.pc \in ValidatePCs
  /\ rv.pc # "idle" => RouteFields /\ RouteNamed
  /\ rv.pc \in AfterFinal => PortFits /\ rv.scheme \in Schemes
  /\ rv.pc \in AfterCheck => ChecksHold
  /\ rv.pc \in {"built", "valid"} => RouteBuilt
  /\ rv.pc = "valid" => NamedOnHomepage

(* The preferred port of a container is one of its ports, or 0.            *)
LEMMA PreferredPortOfKeys ==
  ASSUME NEW private, NEW k \in PreferredPort(private)
  PROVE  k \in DOMAIN private \cup {0}
<1> DEFINE hits == {i \in DOMAIN PreferredOrder : PreferredOrder[i] \in DOMAIN private}
<1>1. CASE hits # {}
  <2> DEFINE i == CHOOSE i \in hits : \A j \in hits : i <= j
  <2>1. k = PreferredOrder[i]
    BY <1>1 DEF PreferredPort
  <2>2. \E i_1 \in hits : \A j \in hits : i_1 <= j
    <3>1. hits \in SUBSET Nat
      BY DEF PreferredOrder
    <3> HIDE DEF hits
    <3> QED
      BY <1>1, <3>1, LeastNatural
  <2>3. i \in hits
    BY <2>2
  <2> QED
    BY <2>1, <2>3
<1>2. CASE hits = {}
  BY <1>2 DEF PreferredPort
<1> QED
  BY <1>1, <1>2

(* FinalPort gives a port of the host's side when it is given a public or  *)
(* a private port.                                                         *)
LEMMA FinalPortFits ==
  ASSUME NEW r, NEW host, NEW k \in PublicPorts(r.cont) \cup PrivatePorts(r.cont) \cup {0}
  PROVE  IF host = r.cont.publicHost
           THEN FinalPort(r, host, k) \in PublicPorts(r.cont) \cup {0}
           ELSE FinalPort(r, host, k) \in PrivatePorts(r.cont) \cup {0}
<1>1. CASE host = r.cont.publicHost
  <2>1. CASE k \in PrivatePorts(r.cont)
    <3>1. FinalPort(r, host, k) = (CHOOSE p \in r.cont.ports : p[2] = k)[1]
      BY <1>1, <2>1 DEF FinalPort, PublicOf
    <3>2. (CHOOSE p \in r.cont.ports : p[2] = k) \in r.cont.ports
      BY <2>1 DEF PrivatePorts
    <3> QED
      BY <1>1, <3>1, <3>2 DEF PublicPorts
  <2>2. CASE k \notin PrivatePorts(r.cont)
    BY <1>1, <2>2 DEF FinalPort
  <2> QED
    BY <2>1, <2>2
<1>2. CASE host # r.cont.publicHost
  <2>1. CASE k \in PublicPorts(r.cont)
    <3>1. FinalPort(r, host, k) = (CHOOSE p \in r.cont.ports : p[1] = k)[2]
      BY <1>2, <2>1 DEF FinalPort, PrivateOf
    <3>2. (CHOOSE p \in r.cont.ports : p[1] = k) \in r.cont.ports
      BY <2>1 DEF PublicPorts
    <3> QED
      BY <1>2, <3>1, <3>2 DEF PrivatePorts
  <2>2. CASE k \notin PublicPorts(r.cont)
    BY <1>2, <2>2 DEF FinalPort
  <2> QED
    BY <2>1, <2>2
<1> QED
  BY <1>1, <1>2

(* A scheme known for an image or an alias is one the parser accepts.      *)
LEMMA KnownScheme ==
  ASSUME NEW r, Known(r) # << >>
  PROVE  Known(r)[1][1] \in Schemes
<1> DEFINE img == IsDocker(r) /\ r.cont.image \in DOMAIN ImagePort
           al  == r.alias \in DOMAIN AliasPort
<1>1. CASE img
  <2>1. Known(r)[1] = ImagePort[r.cont.image]
    BY <1>1 DEF Known
  <2> QED
    BY <1>1, <2>1, SpecsAssumption
<1>2. CASE ~img /\ al
  <2>1. Known(r)[1] = AliasPort[r.alias]
    BY <1>2 DEF Known
  <2> QED
    BY <1>2, <2>1, SpecsAssumption
<1>3. CASE ~img /\ ~al
  BY <1>3 DEF Known
<1> QED
  BY <1>1, <1>2, <1>3

(* ReadRoute takes the fields of a specification.                          *)
LEMMA ReadRouteStep ==
  ASSUME ValidateInv, ReadRoute
  PROVE  ValidateInv'
<1>1. PICK s \in RouteSpecs :
       rv' = [pc |-> "read", in |-> s, alias |-> s.alias, scheme |-> s.scheme, host |-> s.host,
              lp |-> s.lp, pp |-> s.pp, cont |-> s.cont, idle |-> s.idle, lb |-> s.lb,
              hcOff |-> s.hcOff, agent |-> s.agent, pve |-> "none", lis |-> FALSE,
              impl |-> "none", atCheck |-> FALSE, excluded |-> FALSE, auto |-> FALSE,
              name |-> "", category |-> ""]
  BY DEF ReadRoute
<1>2. rv'.pc = "read" /\ RouteFields'
  BY <1>1 DEF RouteFields
<1>3. /\ rv'.alias = s.alias /\ rv'.scheme = s.scheme /\ rv'.cont = s.cont
      /\ rv'.pve = "none"
  BY <1>1
<1>4. RouteNamed'
  BY <1>3, SpecsAssumption DEF RouteNamed, IsDocker
<1> QED
  BY <1>2, <1>4 DEF ValidateInv, ValidatePCs, AfterFinal, AfterCheck

(* Finalize leaves a known scheme and a port of the host.                  *)
LEMMA FinalizeStep ==
  ASSUME ValidateInv, Finalize
  PROVE  ValidateInv'
<1> DEFINE known   == Known(rv)
           host    == DefaultHost(rv)
           scheme1 == IF rv.scheme = "" /\ known # << >> THEN known[1][1] ELSE rv.scheme
           pp1     == IF rv.pp = 0 /\ known # << >> THEN known[1][2] ELSE rv.pp
           c       == rv.cont
           ports   == IF pp1 # 0 THEN {pp1}
                      ELSE IF ~IsDocker(rv) THEN {IF scheme1 = "https" THEN 443 ELSE 80}
                      ELSE IF c.hostNet THEN PreferredPort([j \in PublicPorts(c) |-> PrivateOf(c, j)])
                      ELSE PreferredPort([j \in PrivatePorts(c) |-> j])
           udp(k)  == \E p \in c.ports : p[1] # 0 /\ p[2] = k /\ k \in c.udp
           scheme2(k) == IF IsDocker(rv) /\ scheme1 = "" /\ udp(k) THEN "udp" ELSE scheme1
           pp3(k)  == IF IsDocker(rv) THEN FinalPort(rv, host, k) ELSE k
           scheme3(k) == IF scheme2(k) # "" THEN scheme2(k)
                         ELSE IF rv.lp # 0 THEN "tcp"
                         ELSE IF pp3(k) % 1000 = 443 THEN "https" ELSE "http"
<1>1. rv.pc = "read" /\ RouteFields /\ RouteNamed
  BY DEF Finalize, ValidateInv
<1>2. PICK k \in ports :
        rv' = [rv EXCEPT !.pc = "final", !.host = host, !.pp = pp3(k), !.scheme = scheme3(k),
                         !.auto = (pp1 = 0)]
  BY DEF Finalize
<1>3. scheme1 \in Schemes \cup {""}
  BY <1>1, KnownScheme DEF RouteNamed
<1>4. scheme3(k) \in Schemes
  <2> HIDE DEF scheme1, pp3, udp
  <2>1. scheme2(k) \in Schemes \cup {""}
    BY <1>3 DEF Schemes
  <2> HIDE DEF scheme2
  <2> QED
    BY <2>1, ZenonT(60) DEF Schemes
<1>5. ASSUME IsDocker(rv), pp1 = 0
      PROVE  IF host = c.publicHost THEN pp3(k) \in PublicPorts(c) \cup {0}
                                    ELSE pp3(k) \in PrivatePorts(c) \cup {0}
  <2>1. k \in PublicPorts(c) \cup PrivatePorts(c) \cup {0}
    <3>1. CASE c.hostNet
      <4> DEFINE f == [j \in PublicPorts(c) |-> PrivateOf(c, j)]
      <4>1. k \in PreferredPort(f) /\ DOMAIN f = PublicPorts(c)
        BY <1>2, <1>5, <3>1
      <4> HIDE DEF f
      <4> QED
        BY <4>1, PreferredPortOfKeys
    <3>2. CASE ~c.hostNet
      <4> DEFINE f == [j \in PrivatePorts(c) |-> j]
      <4>1. k \in PreferredPort(f) /\ DOMAIN f = PrivatePorts(c)
        BY <1>2, <1>5, <3>2
      <4> HIDE DEF f
      <4> QED
        BY <4>1, PreferredPortOfKeys
    <3> QED
      BY <3>1, <3>2
  <2> HIDE DEF host
  <2>2. pp3(k) = FinalPort(rv, host, k)
    BY <1>5
  <2> HIDE DEF pp3
  <2>3. IF host = rv.cont.publicHost
          THEN FinalPort(rv, host, k) \in PublicPorts(rv.cont) \cup {0}
          ELSE FinalPort(rv, host, k) \in PrivatePorts(rv.cont) \cup {0}
    BY <2>1, FinalPortFits
  <2> QED
    BY <2>2, <2>3
<1> HIDE DEF host, pp3, scheme3, pp1
<1>6. /\ RouteFields' /\ rv'.pc = "final" /\ rv'.host = host /\ rv'.pp = pp3(k)
      /\ rv'.scheme = scheme3(k) /\ rv'.auto = (pp1 = 0)
      /\ rv'.alias = rv.alias /\ rv'.cont = rv.cont /\ rv'.pve = rv.pve
  BY <1>1, <1>2 DEF RouteFields
<1>7. RouteNamed'
  BY <1>1, <1>4, <1>6 DEF RouteNamed, IsDocker
<1>8. PortFits'
  BY <1>5, <1>6 DEF PortFits, IsDocker, PublicPorts, PrivatePorts
<1> QED
  BY <1>4, <1>6, <1>7, <1>8 DEF ValidateInv, ValidatePCs, AfterFinal, AfterCheck

(* The lookup in proxmox, and what a node or guest found there changes: it *)
(* is no container.                                                        *)
LEMMA ProxmoxSteps ==
  ASSUME ValidateInv, LookupProxmox \/ ValidateProxmox
  PROVE  ValidateInv'
<1>1. RouteFields /\ RouteNamed /\ PortFits /\ rv.scheme \in Schemes
  BY DEF LookupProxmox, ValidateProxmox, ValidateInv, AfterFinal
<1>2. CASE LookupProxmox
  <2>1. PICK found \in {"none", "node", "lxc"} :
          /\ found # "none" => ~IsDocker(rv)
          /\ rv' = [rv EXCEPT !.pc = "found", !.pve = found]
    BY <1>2 DEF LookupProxmox
  <2>2. /\ RouteFields' /\ rv'.pc = "found" /\ rv'.pve = found /\ rv'.host = rv.host
        /\ rv'.pp = rv.pp /\ rv'.scheme = rv.scheme /\ rv'.auto = rv.auto
        /\ rv'.alias = rv.alias /\ rv'.cont = rv.cont
    BY <1>1, <2>1 DEF RouteFields
  <2>3. RouteNamed' /\ PortFits'
    BY <1>1, <2>1, <2>2 DEF RouteNamed, PortFits, IsDocker, PublicPorts, PrivatePorts
  <2> QED
    BY <1>1, <2>2, <2>3 DEF ValidateInv, ValidatePCs, AfterFinal, AfterCheck
<1>3. CASE ValidateProxmox
  <2> DEFINE host(n) == IF rv.host = "localhost" THEN n ELSE rv.host
  <2>1. \/ rv' = [rv EXCEPT !.pc = "looked"]
        \/ /\ rv.pve = "node"
           /\ rv' = [rv EXCEPT !.pc = "looked", !.scheme = "https", !.pp = 8006, !.host = host("pve")]
        \/ /\ rv.pve = "lxc"
           /\ rv' = [rv EXCEPT !.pc = "looked", !.host = host("guest")]
    <3>1. CASE rv.pve = "node"
      BY <1>3, <3>1 DEF ValidateProxmox
    <3>2. CASE rv.pve = "lxc"
      BY <1>3, <3>2 DEF ValidateProxmox
    <3>3. CASE rv.pve = "none"
      BY <1>3, <3>3 DEF ValidateProxmox
    <3>4. rv.pve \in {"none", "node", "lxc"}
      BY <1>1 DEF RouteNamed
    <3> HIDE DEF host
    <3> QED
      BY <3>1, <3>2, <3>3, <3>4
  <2>2. CASE rv' = [rv EXCEPT !.pc = "looked"]
    <3>1. /\ RouteFields' /\ rv'.pc = "looked" /\ rv'.pve = rv.pve /\ rv'.host = rv.host
          /\ rv'.pp = rv.pp /\ rv'.scheme = rv.scheme /\ rv'.auto = rv.auto
          /\ rv'.alias = rv.alias /\ rv'.cont = rv.cont
      BY <1>1, <2>2 DEF RouteFields
    <3>2. RouteNamed' /\ PortFits'
      BY <1>1, <3>1 DEF RouteNamed, PortFits, IsDocker, PublicPorts, PrivatePorts
    <3> QED
      BY <1>1, <3>1, <3>2 DEF ValidateInv, ValidatePCs, AfterFinal, AfterCheck
  <2>3. CASE rv.pve # "none" /\ ~(rv' = [rv EXCEPT !.pc = "looked"])
    <3> HIDE DEF host
    <3>1. \E s \in {"https", rv.scheme} :
            /\ RouteFields' /\ rv'.pc = "looked" /\ rv'.pve = rv.pve /\ rv'.scheme = s
            /\ rv'.alias = rv.alias /\ rv'.cont = rv.cont
      <4>1. CASE rv' = [rv EXCEPT !.pc = "looked", !.scheme = "https", !.pp = 8006,
                                  !.host = host("pve")]
        <5> DEFINE api == 8006
                   atPve == host("pve")
        <5> HIDE DEF api, atPve
        <5>0. rv' = [rv EXCEPT !.pc = "looked", !.scheme = "https", !.pp = api, !.host = atPve]
          BY <4>1 DEF api, atPve
        <5>1. /\ RouteFields' /\ rv'.pc = "looked" /\ rv'.pve = rv.pve
              /\ rv'.scheme = "https" /\ rv'.alias = rv.alias /\ rv'.cont = rv.cont
          BY <1>1, <5>0 DEF RouteFields
        <5> QED
          BY <5>1
      <4>2. CASE rv' = [rv EXCEPT !.pc = "looked", !.host = host("guest")]
        BY <1>1, <4>2 DEF RouteFields
      <4> QED
        BY <2>1, <2>3, <4>1, <4>2
    <3>2. PICK s \in {"https", rv.scheme} :
            /\ RouteFields' /\ rv'.pc = "looked" /\ rv'.pve = rv.pve /\ rv'.scheme = s
            /\ rv'.alias = rv.alias /\ rv'.cont = rv.cont
      BY <3>1
    <3>3. ~IsDocker(rv) /\ s \in Schemes
      BY <1>1, <2>3 DEF RouteNamed, Schemes
    <3>4. RouteNamed' /\ PortFits'
      BY <1>1, <3>2, <3>3 DEF RouteNamed, PortFits, IsDocker
    <3> QED
      BY <3>2, <3>3, <3>4 DEF ValidateInv, ValidatePCs, AfterFinal, AfterCheck
  <2> QED
    BY <2>1, <2>2, <2>3
<1> QED
  BY <1>2, <1>3

(* A route that passes the checks keeps what they relied on: a file server *)
(* loses its host and port, and only for a container can that change the   *)
(* exclusion.                                                              *)
LEMMA CheckRouteStep ==
  ASSUME ValidateInv, CheckRoute
  PROVE  ValidateInv'
<1> DEFINE excl == ShouldExclude(rv)
           reserved == /\ ~IsAgent(rv) /\ ~excl /\ rv.host = "localhost" /\ rv.pp \in ReservedPorts
                       /\ rv.scheme \in ReverseProxied \union {"tcp"}
           listens == rv.scheme \in ReverseProxied /\ rv.lp # 0
           unchecked == ~UseHealthCheck(rv) /\ (UseLoadBalance(rv) \/ UseIdleWatcher(rv))
           file == rv.scheme = "fileserver"
<1>1. RouteFields /\ RouteNamed /\ PortFits /\ rv.scheme \in Schemes
  BY DEF CheckRoute, ValidateInv, AfterFinal
<1>2. CASE reserved \/ listens \/ unchecked
  <2>1. rv' = [rv EXCEPT !.pc = "invalid"]
    BY <1>2 DEF CheckRoute
  <2>2. /\ RouteFields' /\ rv'.pc = "invalid" /\ rv'.pve = rv.pve /\ rv'.scheme = rv.scheme
        /\ rv'.alias = rv.alias /\ rv'.cont = rv.cont
    BY <1>1, <2>1 DEF RouteFields
  <2>3. RouteNamed'
    BY <1>1, <2>2 DEF RouteNamed, IsDocker
  <2> QED
    BY <2>2, <2>3 DEF ValidateInv, ValidatePCs, AfterFinal, AfterCheck
<1>3. CASE ~(reserved \/ listens \/ unchecked)
  <2> DEFINE lis  == rv.scheme \in {"tcp", "udp"} /\ ~excl
             host == IF file THEN "" ELSE rv.host
             pp   == IF file THEN 0 ELSE rv.pp
  <2>1. rv' = [rv EXCEPT !.pc = "checked", !.atCheck = excl, !.lis = lis, !.host = host, !.pp = pp]
    BY <1>3 DEF CheckRoute
  <2> HIDE DEF lis, host, pp, excl
  <2>2. /\ RouteFields' /\ rv'.pc = "checked" /\ rv'.atCheck = excl /\ rv'.lis = lis
        /\ rv'.host = host /\ rv'.pp = pp
        /\ rv'.pve = rv.pve /\ rv'.scheme = rv.scheme /\ rv'.auto = rv.auto
        /\ rv'.alias = rv.alias /\ rv'.cont = rv.cont /\ rv'.idle = rv.idle /\ rv'.lb = rv.lb
        /\ rv'.hcOff = rv.hcOff /\ rv'.agent = rv.agent
    BY <1>1, <2>1 DEF RouteFields
  <2>3. RouteNamed'
    BY <1>1, <2>2 DEF RouteNamed, IsDocker
  <2>4. PortFits'
    BY <1>1, <2>2 DEF PortFits, IsDocker, PublicPorts, PrivatePorts, pp, host
  <2>5. ChecksHold'
    <3>1. ~(file /\ IsDocker(rv)) => excl = ShouldExclude(rv')
      <4>1. CASE ~file
        BY <2>2, <4>1 DEF excl, ShouldExclude, FindExcludedReason, IsDocker, UseIdleWatcher, pp
      <4>2. CASE file /\ ~IsDocker(rv)
        <5>1. ~IsDocker(rv') /\ rv'.scheme = "fileserver"
          BY <2>2, <4>2 DEF IsDocker
        <5> QED
          BY <2>2, <4>2, <5>1 DEF excl, ShouldExclude, FindExcludedReason
      <4> QED
        BY <4>1, <4>2
    <3>2. UseHealthCheck(rv') = UseHealthCheck(rv)
      BY <2>2 DEF UseHealthCheck, IsDocker, UseIdleWatcher
    <3>3. UseLoadBalance(rv') \/ UseIdleWatcher(rv') => UseHealthCheck(rv')
      BY <1>3, <2>2, <3>2 DEF UseLoadBalance, UseIdleWatcher
    <3>4. ~(/\ ~IsAgent(rv') /\ ~excl /\ rv'.host = "localhost" /\ rv'.pp \in ReservedPorts
            /\ rv'.scheme \in ReverseProxied \cup {"tcp"})
      BY <1>3, <2>2 DEF IsAgent, host, pp
    <3> QED
      BY <2>2, <3>1, <3>3, <3>4 DEF ChecksHold, lis, IsDocker
  <2> QED
    BY <1>1, <2>2, <2>3, <2>4, <2>5 DEF ValidateInv, ValidatePCs, AfterFinal, AfterCheck
<1> QED
  BY <1>2, <1>3

(* What later steps leave alone.                                           *)
SameRoute ==
  /\ rv'.pve = rv.pve /\ rv'.scheme = rv.scheme /\ rv'.auto = rv.auto /\ rv'.host = rv.host
  /\ rv'.pp = rv.pp /\ rv'.alias = rv.alias /\ rv'.cont = rv.cont /\ rv'.idle = rv.idle
  /\ rv'.lb = rv.lb /\ rv'.hcOff = rv.hcOff /\ rv'.agent = rv.agent
  /\ rv'.atCheck = rv.atCheck /\ rv'.lis = rv.lis
LEMMA SameRouteKeeps ==
  ASSUME SameRoute, RouteNamed, PortFits, ChecksHold, rv.scheme \in Schemes
  PROVE  /\ RouteNamed' /\ PortFits' /\ ChecksHold' /\ rv'.scheme \in Schemes
         /\ ShouldExclude(rv') = ShouldExclude(rv) /\ IsDocker(rv') = IsDocker(rv)
<1>1. /\ ShouldExclude(rv') = ShouldExclude(rv) /\ IsDocker(rv') = IsDocker(rv)
      /\ UseHealthCheck(rv') = UseHealthCheck(rv) /\ IsAgent(rv') = IsAgent(rv)
      /\ UseLoadBalance(rv') = UseLoadBalance(rv) /\ UseIdleWatcher(rv') = UseIdleWatcher(rv)
  BY DEF SameRoute, ShouldExclude, FindExcludedReason, IsDocker, UseIdleWatcher, UseHealthCheck,
     UseLoadBalance, IsAgent
<1>2. RouteNamed' /\ PortFits'
  BY <1>1 DEF SameRoute, RouteNamed, PortFits, PublicPorts, PrivatePorts
<1>3. ChecksHold'
  BY <1>1 DEF SameRoute, ChecksHold
<1> QED
  BY <1>1, <1>2, <1>3 DEF SameRoute

(* BuildRoute decides the exclusion once more, on the same fields.         *)
LEMMA BuildRouteStep ==
  ASSUME ValidateInv, BuildRoute
  PROVE  ValidateInv'
<1> DEFINE impl == CASE rv.scheme = "fileserver" -> "file"
                     [] rv.scheme \in ReverseProxied -> "http"
                     [] OTHER -> "stream"
           excl == ShouldExclude(rv)
<1>1. RouteFields /\ RouteNamed /\ PortFits /\ ChecksHold /\ rv.scheme \in Schemes
  BY DEF BuildRoute, ValidateInv, AfterFinal, AfterCheck
<1>2. rv' = [rv EXCEPT !.pc = "built", !.excluded = excl, !.impl = impl]
  BY DEF BuildRoute
<1>3. impl = IF rv.scheme = "fileserver" THEN "file"
             ELSE IF rv.scheme \in ReverseProxied THEN "http" ELSE "stream"
  BY DEF ReverseProxied
<1> HIDE DEF impl, excl
<1>4. /\ RouteFields' /\ rv'.pc = "built" /\ rv'.excluded = excl /\ rv'.impl = impl /\ SameRoute
  BY <1>1, <1>2 DEF RouteFields, SameRoute
<1>5. /\ RouteNamed' /\ PortFits' /\ ChecksHold' /\ rv'.scheme \in Schemes
      /\ ShouldExclude(rv') = ShouldExclude(rv)
  BY <1>1, <1>4, SameRouteKeeps
<1>6. RouteBuilt'
  BY <1>3, <1>4, <1>5 DEF RouteBuilt, SameRoute, excl
<1> QED
  BY <1>4, <1>5, <1>6 DEF ValidateInv, ValidatePCs, AfterFinal, AfterCheck

(* FinalizeHomepageConfig gives a name.                                    *)
LEMMA FinalizeHomepageStep ==
  ASSUME ValidateInv, FinalizeHomepage
  PROVE  ValidateInv'
<1>1. /\ RouteFields /\ RouteNamed /\ PortFits /\ ChecksHold /\ rv.scheme \in Schemes
      /\ RouteBuilt
  BY DEF FinalizeHomepage, ValidateInv, AfterFinal, AfterCheck
<1> DEFINE short == ShouldExclude(rv) /\ IsDocker(rv)
           name  == IF short THEN rv.cont.name ELSE References(rv)[1]
           cat   == IF UseLoadBalance(rv) THEN "Load-balanced"
                    ELSE IF IsDocker(rv) THEN "Docker" ELSE "Others"
<1>2. \/ rv' = [rv EXCEPT !.pc = "valid", !.name = name]
      \/ rv' = [rv EXCEPT !.pc = "valid", !.name = name, !.category = cat]
  BY DEF FinalizeHomepage
<1>3. rv.pve # "node" => name # ""
  <2>1. CASE IsDocker(rv)
    BY <1>1, <2>1 DEF RouteNamed, References
  <2>2. CASE ~IsDocker(rv)
    BY <1>1, <2>2 DEF RouteNamed, References
  <2> QED
    BY <2>1, <2>2
<1> HIDE DEF name, cat
<1>4. /\ RouteFields' /\ rv'.pc = "valid" /\ rv'.name = name /\ SameRoute
      /\ rv'.excluded = rv.excluded /\ rv'.impl = rv.impl
  <2>1. CASE rv' = [rv EXCEPT !.pc = "valid", !.name = name]
    BY <1>1, <2>1 DEF RouteFields, SameRoute
  <2>2. CASE rv' = [rv EXCEPT !.pc = "valid", !.name = name, !.category = cat]
    BY <1>1, <2>2 DEF RouteFields, SameRoute
  <2> QED
    BY <1>2, <2>1, <2>2
<1>5. /\ RouteNamed' /\ PortFits' /\ ChecksHold' /\ rv'.scheme \in Schemes
      /\ ShouldExclude(rv') = ShouldExclude(rv)
  BY <1>1, <1>4, SameRouteKeeps
<1>6. RouteBuilt' /\ NamedOnHomepage'
  BY <1>1, <1>3, <1>4, <1>5 DEF RouteBuilt, SameRoute, NamedOnHomepage
<1> QED
  BY <1>4, <1>5, <1>6 DEF ValidateInv, ValidatePCs, AfterFinal, AfterCheck

(* What the invariant says of a validated route.                           *)
LEMMA ValidateInvGives == ValidateInv => ValidRouteConsistent
<1> SUFFICES ASSUME ValidateInv, rv.pc = "valid" PROVE ValidRouteConsistent
  BY DEF ValidRouteConsistent, ExclusionStable, PortOfHost, NamedOnHomepage
<1>1. PortFits /\ ChecksHold /\ RouteBuilt /\ NamedOnHomepage /\ rv.scheme \in Schemes
  BY DEF ValidateInv, AfterFinal, AfterCheck
<1>2. PortOfHost
  BY <1>1 DEF PortOfHost, PortFits
<1>3. rv.atCheck # rv.excluded => rv.impl = "file" /\ IsDocker(rv)
  BY <1>1 DEF ChecksHold, RouteBuilt
<1>4. ASSUME ~rv.excluded
      PROVE  /\ rv.impl = "stream" <=> rv.lis
             /\ rv.impl # "file" /\ rv.pp = 0 => UseIdleWatcher(rv)
             /\ ~IsAgent(rv) /\ rv.impl = "http" => ~(rv.host = "localhost" /\ rv.pp \in ReservedPorts)
             /\ UseLoadBalance(rv) \/ UseIdleWatcher(rv) => UseHealthCheck(rv)
  <2>1. rv.impl # "file" => ~rv.atCheck
    BY <1>3, <1>4 DEF ChecksHold
  <2>2. rv.impl = "stream" <=> rv.lis
    BY <1>1, <2>1 DEF ChecksHold, RouteBuilt, Schemes, ReverseProxied
  <2>3. rv.impl # "file" /\ rv.pp = 0 => UseIdleWatcher(rv)
    <3>1. ~ShouldExclude(rv)
      BY <1>1, <1>4 DEF RouteBuilt
    <3>2. rv.impl # "file" => rv.scheme # "fileserver"
      BY <1>1 DEF RouteBuilt
    <3> QED
      BY <3>1, <3>2 DEF ShouldExclude, FindExcludedReason
  <2>4. ~IsAgent(rv) /\ rv.impl = "http" => ~(rv.host = "localhost" /\ rv.pp \in ReservedPorts)
    BY <1>1, <2>1 DEF ChecksHold, RouteBuilt
  <2> QED
    BY <1>1, <2>2, <2>3, <2>4 DEF ChecksHold
<1>5. ExclusionStable
  BY <1>1, <1>3, <1>4 DEF ExclusionStable, RouteBuilt
<1> QED
  BY <1>1, <1>2, <1>5 DEF ValidRouteConsistent

(* A validated route is consistent, whatever its provider read and proxmox *)
(* answered: the exclusion that start looks at is the one the checks saw,  *)
(* ports go with hosts, and it has a name.                                 *)
THEOREM ValidatedRoutesConsistent == ValidateSpec => []ValidRouteConsistent
<1>1. ValidateInit => ValidateInv
  BY DEF ValidateInit, ValidateInv, ValidatePCs, AfterFinal, AfterCheck
<1>2. ValidateInv /\ [ValidateNext]_rvVars => ValidateInv'
  <2> SUFFICES ASSUME ValidateInv, [ValidateNext]_rvVars PROVE ValidateInv'
    OBVIOUS
  <2>1. CASE UNCHANGED rvVars
    <3>1. rv' = rv
      BY <2>1 DEF rvVars
    <3> QED
      BY <3>1 DEF ValidateInv, RouteFields, RouteNamed, PortFits, ChecksHold, RouteBuilt,
         NamedOnHomepage
  <2> QED
    BY <2>1, ReadRouteStep, FinalizeStep, ProxmoxSteps, CheckRouteStep, BuildRouteStep,
       FinalizeHomepageStep DEF ValidateNext
<1> QED
  BY <1>1, <1>2, ValidateInvGives, PTL DEF ValidateSpec
=============================================================================
