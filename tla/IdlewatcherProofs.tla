------------------------- MODULE IdlewatcherProofs -------------------------
(***************************************************************************)
(* Theorems about Idlewatcher for any number of requests, any timeout and  *)
(* any bounds: type correctness, the singleflight discipline of Wake, and  *)
(* that the watcher only puts an unused container to sleep.                *)
(***************************************************************************)
EXTENDS Idlewatcher, SequenceTheorems, TLAPS

-----------------------------------------------------------------------------
(* Types.                                                                  *)

(* The state the program builds with mkState is a State.                   *)
LEMMA mkStateType ==
  ASSUME NEW s \in Statuses, NEW r \in BOOLEAN, NEW b \in BOOLEAN
  PROVE  mkState(s, r, b) \in State
  BY DEF mkState, State

(* An event or two at the end of the queue.                                *)
LEMMA EmitType ==
  ASSUME TypeOK, NEW c \in Containers, NEW evs \in Seq(Actions), Emit(c, evs)
  PROVE  cont' \in Containers /\ evQ' \in Seq(Actions) /\ stale' \in BOOLEAN
         /\ link' \in {"up", "down", "reopening"}
<1>1. evQ \in Seq(Actions) /\ link' = link /\ link \in {"up", "down", "reopening"} /\ cont' = c
  BY DEF Emit, TypeOK
<1>2. CASE link = "up"
  <2>1. evQ' = evQ \o evs /\ stale' = FALSE
    BY <1>2 DEF Emit
  <2>2. evQ \o evs \in Seq(Actions)
    BY <1>1
  <2> QED
    BY <1>1, <2>1, <2>2
<1>3. CASE link # "up"
  BY <1>1, <1>3 DEF Emit
<1> QED
  BY <1>2, <1>3

(* Where a request goes after Wake is a place a request can be.            *)
LEMMA afterWakeType ==
  ASSUME NEW h \in Handlers, NEW ok \in BOOLEAN
  PROVE  afterWake(h, ok) \in {"loading", "wait0", "failed"}
  BY DEF afterWake

(* The watcher starts with values of the right types.                      *)
LEMMA InitType == Init => TypeOK
<1> SUFFICES ASSUME Init PROVE TypeOK
  OBVIOUS
<1>1. st \in State /\ chk \in State
  BY mkStateType DEF Init, ContainerStatus, Statuses, NoState
<1>2. evQ \in Seq(Actions)
  BY DEF Init
<1>3. pc \in [Handlers -> PCs] /\ kind \in [Handlers -> AllKinds]
  BY DEF Init, PCs, AllKinds
<1>4. /\ quiet \in 0..IdleTimeout /\ sinceUse \in 0..IdleTimeout
      /\ ext \in 0..MaxExt /\ outages \in 0..MaxOutages /\ reloads \in 0..MaxReloads
  BY ConstantsAssumption DEF Init
<1>5. cont \in Containers
  BY DEF Init, Containers
<1> QED
  BY <1>1, <1>2, <1>3, <1>4, <1>5 DEF Init, TypeOK

(* Every step keeps the types.                                             *)
LEMMA NextType == TypeOK /\ [Next]_vars => TypeOK'
<1> SUFFICES ASSUME TypeOK, [Next]_vars PROVE TypeOK'
  OBVIOUS
<1> USE ConstantsAssumption
    DEF contVars, timerVars, loopVars, readyVars, reqVars, cfgVars, budget
<1>0. 0 \in 0..IdleTimeout
  OBVIOUS
<1>1. ASSUME NEW op \in ExtOps, External(op) PROVE TypeOK'
  <2>0. /\ \A e \in Actions : <<e>> \in Seq(Actions)
        /\ {"start", "kill", "pause", "unpause", "die", "destroy"} \subseteq Actions
        /\ {"running", "stopping", "paused", "stopped", "destroyed"} \subseteq Containers
    BY DEF Containers, Actions
  <2>1. \E c \in Containers : \E e \in Actions : Emit(c, <<e>>)
    BY <1>1, <2>0
    DEF External, ExtStart, ExtStop, ExtPause, ExtUnpause, ExtCrash, ExtDestroy
  <2>2. cont' \in Containers /\ evQ' \in Seq(Actions) /\ stale' \in BOOLEAN
        /\ link' \in {"up", "down", "reopening"}
    BY <2>0, <2>1, EmitType
  <2>3. ext' \in 0..MaxExt
    BY <1>1 DEF External, TypeOK
  <2> QED
    BY <1>1, <2>2, <2>3 DEF External, TypeOK
<1>2. CASE ContainerExit
  <2>1. "stopped" \in Containers /\ <<"die", "stop">> \in Seq(Actions)
    BY DEF Containers, Actions
  <2> QED
    BY <1>2, <2>1, EmitType, ZenonT(60) DEF ContainerExit, TypeOK
<1>3. CASE StreamFails
  <2>1. ASSUME NEW n \in 0..Len(evQ) PROVE Append(SubSeq(evQ, 1, n), "reload") \in Seq(Actions)
    BY DEF TypeOK, Actions
  <2> QED
    BY <1>3, <2>1 DEF StreamFails, TypeOK
<1>4. CASE StreamReconnects
  BY <1>4 DEF StreamReconnects, TypeOK, Actions
<1>5. CASE StreamReopens
  BY <1>5 DEF StreamReopens, TypeOK
<1>6. CASE ClockTick
  BY <1>6 DEF ClockTick, TypeOK
<1>7. CASE WakeTimeoutPasses
  BY <1>7 DEF WakeTimeoutPasses, TypeOK
<1>8. CASE LoopEvent
  <2>1. evQ' \in Seq(Actions) /\ Head(evQ) \in Actions
    BY <1>8 DEF LoopEvent, TypeOK
  <2>2. st' \in State /\ overdue' \in BOOLEAN /\ token' \in BOOLEAN
    BY <1>8, <2>1, mkStateType
    DEF LoopEvent, TypeOK, handleEvent, exitLoop, setReady, setStarting, setNapping, Statuses
  <2>3. idleOn' \in BOOLEAN /\ healthOn' \in BOOLEAN /\ quiet' \in 0..IdleTimeout
        /\ sinceUse' \in 0..IdleTimeout
    <3>1. idleOn' \in BOOLEAN /\ healthOn' \in BOOLEAN
      BY <1>8 DEF LoopEvent, TypeOK, handleEvent, exitLoop, stopTickers, resetIdleTimer
    <3>2. quiet' \in 0..IdleTimeout /\ sinceUse' \in 0..IdleTimeout
      BY <1>0, <1>8 DEF LoopEvent, TypeOK, handleEvent, exitLoop, stopTickers, resetIdleTimer
    <3> QED
      BY <3>1, <3>2
  <2>4. loop' \in {"select", "checking", "idle", "stopping", "exited"}
        /\ chk' \in State /\ closed' \in BOOLEAN
    BY <1>8 DEF LoopEvent, TypeOK, handleEvent, exitLoop
  <2> QED
    BY <1>8, <2>1, <2>2, <2>3, <2>4 DEF LoopEvent, TypeOK
<1>9. CASE LoopCancelled
  BY <1>9, mkStateType DEF LoopCancelled, exitLoop, setReady, TypeOK, Statuses
<1>10. CASE HealthTick
  BY <1>10, mkStateType, ZenonT(60) DEF HealthTick, setError, TypeOK, Statuses
<1>11. ASSUME NEW res \in {"healthy", "unhealthy", "error"}, HealthResult(res) PROVE TypeOK'
  <2>1. st' \in State /\ chk' \in State /\ overdue' \in BOOLEAN /\ token' \in BOOLEAN
    BY <1>11, mkStateType DEF HealthResult, setError, setReady, NoState, TypeOK, Statuses
  <2>2. stale' \in BOOLEAN
    BY <1>11 DEF HealthResult, TypeOK
  <2>3. idleOn' \in BOOLEAN /\ healthOn' \in BOOLEAN /\ quiet' \in 0..IdleTimeout
        /\ sinceUse' \in 0..IdleTimeout
    <3>1. idleOn' \in BOOLEAN /\ healthOn' \in BOOLEAN
      BY <1>11 DEF HealthResult, resetIdleTimer, TypeOK
    <3>2. quiet' \in 0..IdleTimeout /\ sinceUse' \in 0..IdleTimeout
      BY <1>0, <1>11 DEF HealthResult, resetIdleTimer, TypeOK
    <3> QED
      BY <3>1, <3>2
  <2> QED
    BY <1>11, <2>1, <2>2, <2>3 DEF HealthResult, TypeOK
<1>12. CASE IdleTick
  BY <1>12 DEF IdleTick, TypeOK
<1>13. CASE StopByMethod
  <2>1. CASE \E c \in {"stopping", "paused"} : \E e \in {"kill", "pause"} : Emit(c, <<e>>)
    <3>1. \A e \in {"kill", "pause"} : <<e>> \in Seq(Actions)
      BY DEF Actions
    <3>2. cont' \in Containers /\ evQ' \in Seq(Actions) /\ stale' \in BOOLEAN
          /\ link' \in {"up", "down", "reopening"}
      BY <2>1, <3>1, EmitType DEF Containers
    <3> QED
      BY <1>13, <3>2 DEF StopByMethod, TypeOK
  <2>2. CASE UNCHANGED contVars
    BY <1>13, <2>2 DEF StopByMethod, TypeOK
  <2> QED
    BY <1>13, <2>1, <2>2 DEF StopByMethod
<1>14. CASE StopReturns
  BY <1>14 DEF StopReturns, TypeOK
<1>15. CASE ReloadRead
  BY <1>15 DEF ReloadRead, resetIdleTimer, InspectStatus, ContainerStatus, TypeOK,
               Statuses, Containers
<1>16. CASE ReloadStore
  <2>1. st' \in State
    BY <1>16, mkStateType DEF ReloadStore, TypeOK
  <2>2. stale' \in BOOLEAN
    BY <1>16 DEF ReloadStore, TypeOK
  <2> QED
    BY <1>16, <2>1, <2>2 DEF ReloadStore, TypeOK
<1>17. ASSUME NEW h \in Handlers, NEW k \in Kinds, Arrive(h, k) PROVE TypeOK'
  BY <1>17 DEF Arrive, goto, resetIdleTimer, TypeOK, PCs
<1>18. CASE Touch
  BY <1>18 DEF Touch, resetIdleTimer, TypeOK
<1>19. ASSUME NEW h \in Handlers, CheckReady(h) PROVE TypeOK'
  BY <1>19 DEF CheckReady, goto, TypeOK, PCs, Terminal
<1>20. ASSUME NEW h \in Handlers, Wake(h) PROVE TypeOK'
  <2>1. pc' \in [Handlers -> PCs]
    BY <1>20, afterWakeType DEF Wake, goto, TypeOK, PCs, Terminal
  <2>2. leader' \in Handlers \cup {None}
    BY <1>20 DEF Wake, TypeOK
  <2> QED
    BY <1>20, <2>1, <2>2 DEF Wake, TypeOK
<1>21. ASSUME NEW h \in Handlers, NEW ok \in BOOLEAN, flightReturns(h, ok)
       PROVE pc' \in [Handlers -> PCs] /\ leader' \in Handlers \cup {None}
  BY <1>21, afterWakeType DEF flightReturns, TypeOK, PCs, Terminal
<1>22. ASSUME NEW h \in Handlers, WakeIfStopped(h) PROVE TypeOK'
  <2>1. pc' \in [Handlers -> PCs] /\ leader' \in Handlers \cup {None}
    BY <1>21, <1>22 DEF WakeIfStopped, goto, TypeOK, PCs
  <2> QED
    BY <1>22, <2>1 DEF WakeIfStopped, TypeOK
<1>23. ASSUME NEW h \in Handlers, WakeCall(h) PROVE TypeOK'
  <2>1. pc' \in [Handlers -> PCs] /\ leader' \in Handlers \cup {None}
    BY <1>21, <1>23 DEF WakeCall
  <2>2. CASE \E e \in {"start", "unpause"} : Emit("running", <<e>>)
    <3>1. \A e \in {"start", "unpause"} : <<e>> \in Seq(Actions)
      BY DEF Actions
    <3>2. cont' \in Containers /\ evQ' \in Seq(Actions) /\ stale' \in BOOLEAN
          /\ link' \in {"up", "down", "reopening"}
      BY <2>2, <3>1, EmitType DEF Containers
    <3> QED
      BY <1>23, <2>1, <3>2 DEF WakeCall, TypeOK
  <2>3. CASE UNCHANGED contVars
    BY <1>23, <2>1, <2>3 DEF WakeCall, TypeOK
  <2> QED
    BY <1>23, <2>2, <2>3 DEF WakeCall
<1>24. ASSUME NEW h \in Handlers, WaitCheck(h) PROVE TypeOK'
  <2>1. pc' \in [Handlers -> PCs]
    BY <1>24 DEF WaitCheck, passed, goto, TypeOK, PCs, Terminal
  <2>2. idleOn' \in BOOLEAN /\ healthOn' \in BOOLEAN /\ quiet' \in 0..IdleTimeout
        /\ sinceUse' \in 0..IdleTimeout
    <3>1. idleOn' \in BOOLEAN /\ healthOn' \in BOOLEAN
      BY <1>24 DEF WaitCheck, passed, resetIdleTimer, TypeOK
    <3>2. quiet' \in 0..IdleTimeout /\ sinceUse' \in 0..IdleTimeout
      BY <1>0, <1>24 DEF WaitCheck, passed, resetIdleTimer, TypeOK
    <3> QED
      BY <3>1, <3>2
  <2> QED
    BY <1>24, <2>1, <2>2 DEF WaitCheck, TypeOK
<1>25. ASSUME NEW h \in Handlers, WaitNotified(h) PROVE TypeOK'
  <2>1. pc' \in [Handlers -> PCs]
    BY <1>25 DEF WaitNotified, passed, goto, TypeOK, PCs, Terminal
  <2>2. idleOn' \in BOOLEAN /\ healthOn' \in BOOLEAN /\ quiet' \in 0..IdleTimeout
        /\ sinceUse' \in 0..IdleTimeout
    <3>1. idleOn' \in BOOLEAN /\ healthOn' \in BOOLEAN
      BY <1>25 DEF WaitNotified, passed, resetIdleTimer, TypeOK
    <3>2. quiet' \in 0..IdleTimeout /\ sinceUse' \in 0..IdleTimeout
      BY <1>0, <1>25 DEF WaitNotified, passed, resetIdleTimer, TypeOK
    <3> QED
      BY <3>1, <3>2
  <2> QED
    BY <1>25, <2>1, <2>2 DEF WaitNotified, TypeOK
<1>26. ASSUME NEW h \in Handlers, WaitCancelled(h) PROVE TypeOK'
  BY <1>26 DEF WaitCancelled, goto, TypeOK, PCs, Terminal
<1>27. ASSUME NEW h \in Handlers, Respond(h) PROVE TypeOK'
  BY <1>27 DEF Respond, goto, TypeOK, PCs, Terminal, AllKinds
<1>28. CASE UNCHANGED vars
  BY <1>28 DEF vars, TypeOK
<1>29. CASE Environment
  BY <1>1, <1>3, <1>6, <1>9, <1>15, <1>17, <1>18, <1>26, <1>27, <1>29 DEF Environment
<1>30. CASE Runtime
  BY <1>2, <1>4, <1>5, <1>30 DEF Runtime
<1>31. CASE Loop
  BY <1>8, <1>10, <1>11, <1>12, <1>13, <1>14, <1>31 DEF Loop
<1>32. ASSUME NEW h \in Handlers, Request(h) PROVE TypeOK'
  BY <1>19, <1>20, <1>22, <1>23, <1>24, <1>25, <1>32 DEF Request
<1> QED
  BY <1>7, <1>16, <1>28, <1>29, <1>30, <1>31, <1>32 DEF Next

(* The variables of the watcher keep their types.                          *)
THEOREM TypeCorrect == Spec => []TypeOK
<1> QED
  BY InitType, NextType, PTL DEF Spec

-----------------------------------------------------------------------------
(* singleflight.                                                           *)

(* At the start no request is under way.                                   *)
LEMMA InitLeader == Init => JoinedHaveLeader
  BY ConstantsAssumption DEF Init, JoinedHaveLeader

(* The call in flight is given up for the leader and all who joined.       *)
LEMMA FlightLeader ==
  ASSUME TypeOK, JoinedHaveLeader, NEW h \in Handlers, NEW ok \in BOOLEAN,
         pc[h] \in {"flight", "call"}, flightReturns(h, ok)
  PROVE  JoinedHaveLeader'
<1>1. \A g \in Handlers : afterWake(g, ok) \notin {"flight", "call", "joined"}
  BY afterWakeType
<1>2. leader = h /\ leader' = None /\ None \notin Handlers
  BY ConstantsAssumption DEF JoinedHaveLeader, flightReturns
<1>3. \A g \in Handlers : pc'[g] \notin {"flight", "call", "joined"}
  BY <1>1, <1>2 DEF JoinedHaveLeader, flightReturns, TypeOK
<1> QED
  BY <1>2, <1>3 DEF JoinedHaveLeader

(* A request that moves outside of the call leaves the rest alone.         *)
LEMMA MoveLeader ==
  ASSUME TypeOK, JoinedHaveLeader, NEW h \in Handlers, NEW l,
         pc[h] \notin {"flight", "call", "joined"}, l \notin {"flight", "call", "joined"},
         goto(h, l), UNCHANGED leader
  PROVE  JoinedHaveLeader'
  BY DEF JoinedHaveLeader, goto, TypeOK

(* Every step keeps the discipline.                                        *)
LEMMA NextLeader == TypeOK /\ JoinedHaveLeader /\ [Next]_vars => JoinedHaveLeader'
<1> SUFFICES ASSUME TypeOK, JoinedHaveLeader, [Next]_vars PROVE JoinedHaveLeader'
  OBVIOUS
<1> USE DEF reqVars
<1>1. CASE UNCHANGED <<pc, leader>>
  BY <1>1 DEF JoinedHaveLeader
<1>2. ASSUME NEW h \in Handlers, NEW k \in Kinds, Arrive(h, k) PROVE JoinedHaveLeader'
  BY <1>2, MoveLeader DEF Arrive
<1>3. ASSUME NEW h \in Handlers, CheckReady(h) PROVE JoinedHaveLeader'
  <2>1. \E l \in {"pass", "failed", "wake"} : goto(h, l)
    BY <1>3 DEF CheckReady
  <2> QED
    BY <1>3, <2>1, MoveLeader DEF CheckReady
<1>4. ASSUME NEW h \in Handlers, Wake(h) PROVE JoinedHaveLeader'
  <2>1. CASE wakeInProgress
    <3>1. goto(h, afterWake(h, TRUE)) /\ UNCHANGED leader
      BY <1>4, <2>1 DEF Wake
    <3> QED
      BY <1>4, <3>1, MoveLeader, afterWakeType DEF Wake
  <2>2. CASE ~wakeInProgress /\ leader = None
    <3>1. goto(h, "flight") /\ leader' = h
      BY <1>4, <2>2 DEF Wake
    <3> QED
      BY <1>4, <2>2, <3>1, ConstantsAssumption DEF JoinedHaveLeader, goto, TypeOK
  <2>3. CASE ~wakeInProgress /\ leader # None
    <3>1. goto(h, "joined") /\ UNCHANGED leader /\ pc[h] = "wake"
      BY <1>4, <2>3 DEF Wake
    <3> QED
      BY <2>3, <3>1 DEF JoinedHaveLeader, goto, TypeOK
  <2> QED
    BY <2>1, <2>2, <2>3
<1>5. ASSUME NEW h \in Handlers, WakeIfStopped(h) PROVE JoinedHaveLeader'
  <2>1. CASE goto(h, "call") /\ UNCHANGED leader
    BY <1>5, <2>1 DEF WakeIfStopped, JoinedHaveLeader, goto, TypeOK
  <2>2. CASE \E ok \in BOOLEAN : flightReturns(h, ok)
    BY <1>5, <2>2, FlightLeader DEF WakeIfStopped
  <2> QED
    BY <1>5, <2>1, <2>2 DEF WakeIfStopped
<1>6. ASSUME NEW h \in Handlers, WakeCall(h) PROVE JoinedHaveLeader'
  <2>1. pc[h] = "call" /\ \E ok \in BOOLEAN : flightReturns(h, ok)
    BY <1>6 DEF WakeCall
  <2> QED
    BY <2>1, FlightLeader
<1>7. ASSUME NEW h \in Handlers, WaitCheck(h) PROVE JoinedHaveLeader'
  <2>1. \E l \in {"pass", "wait"} : goto(h, l)
    BY <1>7 DEF WaitCheck, passed
  <2> QED
    BY <1>7, <2>1, MoveLeader DEF WaitCheck
<1>8. ASSUME NEW h \in Handlers, WaitNotified(h) PROVE JoinedHaveLeader'
  BY <1>8, MoveLeader DEF WaitNotified, passed
<1>9. ASSUME NEW h \in Handlers, WaitCancelled(h) PROVE JoinedHaveLeader'
  BY <1>9, MoveLeader DEF WaitCancelled
<1>10. ASSUME NEW h \in Handlers, Respond(h) PROVE JoinedHaveLeader'
  BY <1>10, MoveLeader DEF Respond, Terminal
<1>11. CASE Environment
  BY <1>1, <1>2, <1>9, <1>10, <1>11
  DEF Environment, External, StreamFails, ClockTick, LoopCancelled, Touch, ReloadRead
<1>12. CASE Runtime
  BY <1>1, <1>12 DEF Runtime, ContainerExit, StreamReconnects, StreamReopens
<1>13. CASE Loop
  BY <1>1, <1>13
  DEF Loop, LoopEvent, HealthTick, IdleTick, StopByMethod, StopReturns, HealthResult
<1>14. CASE WakeTimeoutPasses \/ ReloadStore \/ UNCHANGED vars
  BY <1>1, <1>14 DEF WakeTimeoutPasses, ReloadStore, vars
<1>15. ASSUME NEW h \in Handlers, Request(h) PROVE JoinedHaveLeader'
  BY <1>3, <1>4, <1>5, <1>6, <1>7, <1>8, <1>15 DEF Request
<1> QED
  BY <1>11, <1>12, <1>13, <1>14, <1>15 DEF Next

(* For any number of requests: only the leader of the call talks to the    *)
(* container runtime, and whoever joined the call has a leader.            *)
THEOREM SingleFlight == Spec => []JoinedHaveLeader
<1> QED
  BY InitLeader, NextLeader, TypeCorrect, PTL DEF Spec

-----------------------------------------------------------------------------
(* The idle ticker.                                                        *)

(* At the start the ticker is as old as the last use.                      *)
LEMMA InitTicker == Init => TickerNotAhead
  BY DEF Init, TickerNotAhead

(* Every step keeps the ticker behind the last use.                        *)
LEMMA NextTicker == TypeOK /\ TickerNotAhead /\ [Next]_vars => TickerNotAhead'
<1> SUFFICES ASSUME TypeOK, TickerNotAhead, [Next]_vars PROVE TickerNotAhead'
  OBVIOUS
<1> USE DEF timerVars
<1>0. quiet \in Nat /\ sinceUse \in Nat /\ quiet <= IdleTimeout /\ sinceUse <= IdleTimeout
      /\ IdleTimeout \in Nat
  BY ConstantsAssumption DEF TypeOK
<1>1. CASE UNCHANGED timerVars
  BY <1>1 DEF TickerNotAhead
<1>2. CASE resetIdleTimer /\ sinceUse' = 0
  BY <1>2 DEF resetIdleTimer, TickerNotAhead
<1>3. CASE idleOn' = FALSE
  BY <1>3 DEF TickerNotAhead
<1>4. CASE UNCHANGED <<idleOn, quiet, sinceUse>>
  BY <1>4 DEF TickerNotAhead
<1>5. CASE ClockTick
  <2>1. CASE idleOn
    <3>1. quiet <= sinceUse /\ idleOn' = idleOn
      BY <1>5, <2>1 DEF ClockTick, TickerNotAhead
    <3>2. quiet' <= sinceUse'
      BY <1>0, <1>5, <2>1, <3>1 DEF ClockTick
    <3> QED
      BY <3>2 DEF TickerNotAhead
  <2>2. CASE ~idleOn
    BY <1>5, <2>2 DEF ClockTick, TickerNotAhead
  <2> QED
    BY <2>1, <2>2
<1>6. CASE LoopEvent
  BY <1>1, <1>2, <1>3, <1>6 DEF LoopEvent, handleEvent, exitLoop, stopTickers
<1>7. CASE Environment
  BY <1>1, <1>2, <1>3, <1>5, <1>7
  DEF Environment, External, StreamFails, LoopCancelled, exitLoop, Touch, ReloadRead,
      WaitCancelled, Respond, Arrive
<1>8. CASE Runtime
  BY <1>1, <1>8 DEF Runtime, ContainerExit, StreamReconnects, StreamReopens
<1>9. CASE Loop
  <2>1. ASSUME NEW res, HealthResult(res) PROVE TickerNotAhead'
    BY <1>1, <1>2, <1>4, <2>1 DEF HealthResult
  <2> QED
    BY <1>1, <1>3, <1>4, <1>6, <1>9, <2>1 DEF Loop, HealthTick, IdleTick, StopByMethod, StopReturns
<1>10. CASE WakeTimeoutPasses \/ ReloadStore \/ UNCHANGED vars
  BY <1>1, <1>10 DEF WakeTimeoutPasses, ReloadStore, vars
<1>11. ASSUME NEW h \in Handlers, Request(h) PROVE TickerNotAhead'
  BY <1>1, <1>2, <1>11
  DEF Request, CheckReady, Wake, WakeIfStopped, WakeCall, WaitCheck, WaitNotified, passed
<1> QED
  BY <1>7, <1>8, <1>9, <1>10, <1>11 DEF Next

(* While the idle ticker runs it is not ahead of the last use.             *)
THEOREM TickerInvariant == Spec => []TickerNotAhead
<1> QED
  BY InitTicker, NextTicker, TypeCorrect, PTL DEF Spec

(* For every IdleTimeout and any number of requests: the loop decides to   *)
(* stop the container only when it has been unused for IdleTimeout.        *)
THEOREM SleepsOnlyUnused == Spec => IdleStopAfterQuiet
<1>1. TypeOK /\ TickerNotAhead /\ [Next]_vars
        => [(loop = "select" /\ loop' = "idle") => sinceUse = IdleTimeout]_vars
  <2> SUFFICES ASSUME TypeOK, TickerNotAhead, Next, loop = "select", loop' = "idle"
               PROVE  sinceUse = IdleTimeout
    OBVIOUS
  <2> USE DEF loopVars
  <2>1. CASE IdleTick
    <3>1. idleOn /\ quiet = IdleTimeout /\ quiet <= sinceUse
      BY <2>1 DEF IdleTick, TickerNotAhead
    <3> QED
      BY <3>1, ConstantsAssumption DEF TypeOK
  <2>2. CASE LoopEvent
    BY <2>2 DEF LoopEvent, handleEvent, exitLoop
  <2>3. CASE HealthTick \/ StopByMethod \/ StopReturns
    BY <2>3 DEF HealthTick, StopByMethod, StopReturns
  <2>4. ASSUME NEW res, HealthResult(res) PROVE FALSE
    BY <2>4 DEF HealthResult
  <2>5. CASE Environment
    BY <2>5 DEF Environment, External, StreamFails, ClockTick, LoopCancelled, exitLoop, Touch,
                ReloadRead, WaitCancelled, Respond, Arrive
  <2>6. CASE Runtime
    BY <2>6 DEF Runtime, ContainerExit, StreamReconnects, StreamReopens
  <2>7. CASE WakeTimeoutPasses \/ ReloadStore
    BY <2>7 DEF WakeTimeoutPasses, ReloadStore
  <2>8. ASSUME NEW h \in Handlers, Request(h) PROVE FALSE
    BY <2>8 DEF Request, CheckReady, Wake, WakeIfStopped, WakeCall, WaitCheck, WaitNotified
  <2> QED
    BY <2>1, <2>2, <2>3, <2>4, <2>5, <2>6, <2>7, <2>8 DEF Next, Loop
<1> QED
  BY <1>1, TypeCorrect, TickerInvariant, PTL DEF Spec, IdleStopAfterQuiet

-----------------------------------------------------------------------------
(* The watcher's status and the container.                                 *)

(* q tells that the container is c, with s as the status if it is silent.  *)
Silent(q) == \A i \in 1..Len(q) : q[i] = "reload"

Tells(q, c) ==
  \E i \in 1..Len(q) :
    /\ q[i] # "reload"
    /\ \A j \in (i + 1)..Len(q) : q[j] = "reload"
    /\ StatusOf(q[i]) = ContainerStatus(c)

(* StatusTracksContainer in these terms.                                   *)
LEMMA TracksDef ==
  StatusTracksContainer <=>
    ((loop # "exited" /\ ~stale) =>
       \/ Silent(evQ) /\ st.status \in {ContainerStatus(cont), "error"}
       \/ Tells(evQ, cont))
  BY DEF StatusTracksContainer, Silent, Tells

(* What the runtime emits ends with an event that tells the new status.    *)
LEMMA EmitTracks ==
  ASSUME TypeOK, NEW c \in Containers, NEW evs \in Seq(Actions), Emit(c, evs),
         evs # <<>>, evs[Len(evs)] # "reload",
         StatusOf(evs[Len(evs)]) = ContainerStatus(c)
  PROVE  stale' \/ Tells(evQ', cont')
<1>1. CASE link = "up"
  <2>1. evQ' = evQ \o evs /\ cont' = c /\ evQ \in Seq(Actions)
    BY <1>1 DEF Emit, TypeOK
  <2>2. /\ Len(evs) \in Nat \ {0} /\ Len(evQ) \in Nat
        /\ Len(evQ') = Len(evQ) + Len(evs)
        /\ evQ'[Len(evQ')] = evs[Len(evs)]
    BY <2>1
  <2>3. Len(evQ') \in 1..Len(evQ') /\ \A j \in (Len(evQ') + 1)..Len(evQ') : FALSE
    BY <2>2
  <2> QED
    BY <2>1, <2>2, <2>3 DEF Tells
<1>2. CASE link # "up"
  BY <1>2 DEF Emit
<1> QED
  BY <1>1, <1>2

(* A reload trigger at the end changes nothing.                            *)
LEMMA ReloadTracks ==
  ASSUME NEW q \in Seq(Actions), NEW c
  PROVE  /\ Silent(q) => Silent(Append(q, "reload"))
         /\ Tells(q, c) => Tells(Append(q, "reload"), c)
<1> DEFINE r == Append(q, "reload")
<1>1. /\ Len(q) \in Nat /\ Len(r) = Len(q) + 1 /\ r[Len(q) + 1] = "reload"
      /\ \A i \in 1..Len(q) : r[i] = q[i]
  OBVIOUS
<1> HIDE DEF r
<1>2. Silent(q) => Silent(r)
  BY <1>1 DEF Silent
<1>3. Tells(q, c) => Tells(r, c)
  <2> SUFFICES ASSUME NEW i \in 1..Len(q), q[i] # "reload",
                      \A j \in (i + 1)..Len(q) : q[j] = "reload",
                      StatusOf(q[i]) = ContainerStatus(c)
               PROVE  Tells(r, c)
    BY DEF Tells
  <2>1. i \in 1..Len(r) /\ r[i] = q[i] /\ \A j \in (i + 1)..Len(r) : r[j] = "reload"
    BY <1>1
  <2> QED
    BY <2>1 DEF Tells
<1> QED
  BY <1>2, <1>3 DEF r

(* The first event is taken from the queue.                                *)
LEMMA TailTracks ==
  ASSUME NEW q \in Seq(Actions), q # <<>>, NEW c
  PROVE  /\ Silent(q) => Silent(Tail(q)) /\ Head(q) = "reload"
         /\ Tells(q, c) =>
              \/ Tells(Tail(q), c)
              \/ /\ Silent(Tail(q)) /\ Head(q) # "reload"
                 /\ StatusOf(Head(q)) = ContainerStatus(c)
<1> DEFINE r == Tail(q)
<1>1. /\ Len(q) \in Nat \ {0} /\ Len(r) = Len(q) - 1 /\ Head(q) = q[1]
      /\ \A i \in 1..Len(r) : r[i] = q[i + 1]
  OBVIOUS
<1> HIDE DEF r
<1>2. Silent(q) => Silent(r) /\ Head(q) = "reload"
  BY <1>1 DEF Silent
<1>3. ASSUME NEW i \in 1..Len(q), q[i] # "reload",
             \A j \in (i + 1)..Len(q) : q[j] = "reload",
             StatusOf(q[i]) = ContainerStatus(c)
      PROVE  Tells(r, c) \/ /\ Silent(r) /\ Head(q) # "reload"
                            /\ StatusOf(Head(q)) = ContainerStatus(c)
  <2>1. CASE i = 1
    BY <1>1, <1>3, <2>1 DEF Silent
  <2>2. CASE i # 1
    <3>1. i - 1 \in 1..Len(r) /\ r[i - 1] = q[i]
      BY <1>1, <2>2
    <3>2. \A j \in ((i - 1) + 1)..Len(r) : r[j] = "reload"
      BY <1>1, <1>3, <2>2
    <3> QED
      BY <1>3, <3>1, <3>2 DEF Tells
  <2> QED
    BY <2>1, <2>2
<1> QED
  BY <1>2, <1>3 DEF r, Tells

(* The status that handleEvent stores is the one the event announces.      *)
LEMMA EventStatus ==
  ASSUME NEW e \in Actions, handleEvent(e), loop = "select", loop' # "exited"
  PROVE  IF e = "reload" THEN st' = st ELSE st'.status = StatusOf(e)
<1> USE DEF readyVars, loopVars
<1>1. CASE e = "reload"
  BY <1>1 DEF handleEvent
<1>2. CASE e = "destroy"
  BY <1>2 DEF handleEvent, exitLoop
<1>3. CASE e \notin {"reload", "destroy"}
  <2>1. \/ IsContainerStart(e) /\ setStarting
        \/ IsContainerStop(e) /\ setNapping("stopped")
        \/ IsContainerPause(e) /\ setNapping("paused")
    BY <1>3 DEF handleEvent
  <2> QED
    BY <1>3, <2>1 DEF setStarting, setNapping, mkState, StatusOf,
      IsContainerStart, IsContainerStop, IsContainerPause
<1> QED
  BY <1>1, <1>2, <1>3

(* At the start the status was just read.                                  *)
LEMMA InitTracks == Init => StatusTracksContainer
<1> SUFFICES ASSUME Init PROVE StatusTracksContainer
  OBVIOUS
<1>1. Silent(evQ)
  BY DEF Init, Silent
<1>2. st.status = ContainerStatus(cont)
  BY DEF Init, mkState
<1> QED
  BY <1>1, <1>2, TracksDef

(* Every step keeps the watcher informed, or marks it as stale.            *)
LEMMA NextTracks == TypeOK /\ StatusTracksContainer /\ [Next]_vars => StatusTracksContainer'
<1> DEFINE Good == \/ Silent(evQ) /\ st.status \in {ContainerStatus(cont), "error"}
                   \/ Tells(evQ, cont)
<1>a. StatusTracksContainer' <=> ((loop' # "exited" /\ ~stale') => Good')
  BY DEF StatusTracksContainer, Silent, Tells
<1> SUFFICES ASSUME TypeOK, StatusTracksContainer, [Next]_vars, loop' # "exited", ~stale'
             PROVE  Good'
  BY <1>a
<1> USE DEF contVars, timerVars, loopVars, readyVars, reqVars, cfgVars, budget
<1>0. evQ \in Seq(Actions) /\ ((loop # "exited" /\ ~stale) => Good)
  BY TracksDef DEF TypeOK
<1>1. CASE Good /\ UNCHANGED <<cont, evQ, st>>
  BY <1>1 DEF Silent, Tells
<1>2. CASE Tells(evQ', cont')
  BY <1>2
<1>3. CASE UNCHANGED <<contVars, loop, st>>
  BY <1>0, <1>1, <1>3
<1>4. ASSUME NEW e \in Actions, e # "reload", NEW c \in Containers, Emit(c, <<e>>),
             StatusOf(e) = ContainerStatus(c)
      PROVE  Good'
  <2>1. <<e>> \in Seq(Actions) /\ <<e>> # <<>> /\ <<e>>[Len(<<e>>)] = e
    OBVIOUS
  <2> QED
    BY <1>2, <1>4, <2>1, EmitTracks
<1>5. ASSUME NEW op \in ExtOps, External(op) PROVE Good'
  <2>1. PICK e \in Actions, c \in Containers :
          Emit(c, <<e>>) /\ e # "reload" /\ StatusOf(e) = ContainerStatus(c)
    BY <1>5 DEF External, ExtStart, ExtStop, ExtPause, ExtUnpause, ExtCrash, ExtDestroy,
      Actions, Containers, StatusOf, ContainerStatus,
      IsContainerStart, IsContainerStop, IsContainerPause
  <2> QED
    BY <1>4, <2>1
<1>6. CASE ContainerExit
  <2>1. /\ <<"die", "stop">> \in Seq(Actions) /\ "stopped" \in Containers
        /\ <<"die", "stop">> # <<>> /\ <<"die", "stop">>[Len(<<"die", "stop">>)] = "stop"
        /\ StatusOf("stop") = ContainerStatus("stopped")
    BY DEF Actions, Containers, StatusOf, ContainerStatus, IsContainerStart, IsContainerPause
  <2> QED
    BY <1>2, <1>6, <2>1, EmitTracks DEF ContainerExit
<1>7. CASE StreamFails
  <2>1. PICK n \in 0..Len(evQ) : /\ evQ' = Append(SubSeq(evQ, 1, n), "reload")
                                 /\ stale' = (stale \/ n < Len(evQ))
    BY <1>7 DEF StreamFails
  <2>2. ~stale /\ ~(n < Len(evQ))
    BY <2>1
  <2>3. SubSeq(evQ, 1, n) = evQ
    BY <1>0, <2>2
  <2>4. evQ' = Append(evQ, "reload") /\ UNCHANGED <<cont, st, loop>>
    BY <1>7, <2>1, <2>3 DEF StreamFails
  <2> QED
    BY <1>0, <2>2, <2>4, ReloadTracks
<1>8. CASE StreamReconnects
  BY <1>0, <1>8, ReloadTracks DEF StreamReconnects
<1>9. CASE LoopEvent
  <2>1. /\ loop = "select" /\ evQ # <<>> /\ evQ' = Tail(evQ) /\ UNCHANGED <<cont, stale>>
        /\ Head(evQ) \in Actions /\ handleEvent(Head(evQ))
    BY <1>0, <1>9 DEF LoopEvent
  <2>2. Good
    BY <1>0, <2>1
  <2>3. IF Head(evQ) = "reload" THEN st' = st ELSE st'.status = StatusOf(Head(evQ))
    BY <2>1, EventStatus
  <2> QED
    BY <1>0, <2>1, <2>2, <2>3, TailTracks
<1>10. CASE HealthTick
  <2>1. CASE setError
    BY <1>0, <1>10, <2>1 DEF HealthTick, setError, mkState
  <2>2. CASE UNCHANGED st
    BY <1>0, <1>1, <1>10, <2>2 DEF HealthTick
  <2> QED
    BY <1>10, <2>1, <2>2 DEF HealthTick
<1>11. ASSUME NEW res, HealthResult(res) PROVE Good'
  <2>1. loop # "exited" /\ UNCHANGED <<cont, evQ>>
    BY <1>11 DEF HealthResult
  <2>2. ~stale /\ st'.status \in {ContainerStatus(cont), "error"}
    <3>1. CASE res = "error" /\ setError /\ UNCHANGED stale
      BY <3>1 DEF setError, mkState
    <3>2. CASE res = "healthy" /\ setReady /\ stale' = (stale \/ cont # "running")
      BY <3>2 DEF setReady, mkState, ContainerStatus
    <3>3. CASE st' = chk /\ stale' = (stale \/ (ContainerStatus(cont) # chk.status))
      BY <3>3
    <3> QED
      BY <1>11, <3>1, <3>2, <3>3 DEF HealthResult
  <2> QED
    BY <1>0, <2>1, <2>2 DEF Silent, Tells
<1>12. CASE StopByMethod
  <2>1. CASE \E c \in {"stopping"} : Emit(c, <<"kill">>)
    BY <1>4, <2>1 DEF Actions, Containers, StatusOf, ContainerStatus,
      IsContainerStart, IsContainerPause
  <2>2. CASE Emit("paused", <<"pause">>)
    BY <1>4, <2>2 DEF Actions, Containers, StatusOf, ContainerStatus,
      IsContainerStart, IsContainerPause
  <2>3. CASE UNCHANGED contVars
    BY <1>0, <1>1, <1>12, <2>3 DEF StopByMethod
  <2> QED
    BY <1>12, <2>1, <2>2, <2>3 DEF StopByMethod
<1>13. CASE ReloadStore
  <2>1. UNCHANGED <<cont, evQ, loop>> /\ st'.status = rl
    BY <1>13 DEF ReloadStore, mkState
  <2>2. CASE Silent(evQ)
    <3>1. rl = ContainerStatus(cont)
      BY <1>13, <2>2 DEF ReloadStore, Silent
    <3> QED
      BY <2>1, <2>2, <3>1 DEF Silent
  <2>3. CASE ~Silent(evQ)
    <3>1. ~stale
      BY <1>13, <2>3 DEF ReloadStore, Silent
    <3> QED
      BY <1>0, <2>1, <2>3, <3>1 DEF Tells
  <2> QED
    BY <2>2, <2>3
<1>14. ASSUME NEW h \in Handlers, WakeCall(h) PROVE Good'
  <2>1. CASE \E e \in {"start", "unpause"} : Emit("running", <<e>>)
    <3>1. \A e \in {"start", "unpause"} :
            e \in Actions /\ e # "reload" /\ StatusOf(e) = ContainerStatus("running")
      BY DEF Actions, StatusOf, ContainerStatus, IsContainerStart, IsContainerPause
    <3> QED
      BY <1>4, <2>1, <3>1 DEF Containers
  <2>2. CASE UNCHANGED contVars
    BY <1>0, <1>1, <1>14, <2>2 DEF WakeCall
  <2> QED
    BY <1>14, <2>1, <2>2 DEF WakeCall
<1>15. CASE StreamReopens \/ ClockTick \/ WakeTimeoutPasses \/ Touch \/ ReloadRead
  BY <1>0, <1>1, <1>15 DEF StreamReopens, ClockTick, WakeTimeoutPasses, Touch, ReloadRead
<1>16. CASE IdleTick \/ StopReturns
  BY <1>0, <1>1, <1>16 DEF IdleTick, StopReturns
<1>17. CASE LoopCancelled
  BY <1>17 DEF LoopCancelled, exitLoop
<1>18. ASSUME NEW h \in Handlers, NEW k \in Kinds, Arrive(h, k) PROVE Good'
  BY <1>3, <1>18 DEF Arrive
<1>19. ASSUME NEW h \in Handlers, WaitCancelled(h) \/ Respond(h) PROVE Good'
  BY <1>3, <1>19 DEF WaitCancelled, Respond
<1>20. ASSUME NEW h \in Handlers, Request(h) PROVE Good'
  BY <1>3, <1>14, <1>20
  DEF Request, CheckReady, Wake, WakeIfStopped, WaitCheck, WaitNotified
<1>21. CASE UNCHANGED vars
  BY <1>3, <1>21 DEF vars
<1> HIDE DEF Good
<1>22. CASE Environment
  BY <1>5, <1>7, <1>15, <1>17, <1>18, <1>19, <1>22 DEF Environment
<1>23. CASE Runtime \/ WakeTimeoutPasses \/ ReloadStore
  BY <1>6, <1>8, <1>13, <1>15, <1>23 DEF Runtime
<1>24. CASE Loop
  BY <1>9, <1>10, <1>11, <1>12, <1>16, <1>24 DEF Loop
<1> QED
  BY <1>20, <1>21, <1>22, <1>23, <1>24 DEF Next

(* For any number of requests, reloads and outages: once the pending       *)
(* events are handled the watcher's status is that of the container,       *)
(* unless the status was lost or overwritten as stale records.             *)
THEOREM WatcherTracks == Spec => []StatusTracksContainer
<1> QED
  BY InitTracks, NextTracks, TypeCorrect, PTL DEF Spec
(* The invariant that the runs check: for any number of requests, the      *)
(* status follows the container, and a call that is joined has a leader.   *)
THEOREM WatcherCorrect == Spec => []WatcherSound
<1> QED
  BY TypeCorrect, WatcherTracks, SingleFlight, PTL DEF WatcherSound

=============================================================================
