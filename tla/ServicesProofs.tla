--------------------------- MODULE ServicesProofs ---------------------------
(***************************************************************************)
(* Proofs about the services that routes lean on and that share no state:  *)
(* HealthMonitor, DockerClients, NotifDispatcher and Metrics.              *)
(***************************************************************************)
EXTENDS HealthMonitor, DockerClients, NotifDispatcher, Metrics, DataInduction, SequenceTheorems

-----------------------------------------------------------------------------
(* HealthMonitor, for every set of thresholds, every limit of errors in a  *)
(* row and every bound of the run.                                         *)
(*                                                                         *)
(* DownNotifiedOnceWhenDue is not inductive: it speaks of run, which the   *)
(* code does not have.  IInv adds how the counters of the code             *)
(* (numConsecFailures, downNotificationSent, failures) go with run.        *)

(* A monitor starts with IInv: healthy, nothing counted, nothing notified. *)
LEMMA InitIInv == Init => IInv
<1> SUFFICES ASSUME Init PROVE IInv
  OBVIOUS
<1>1. TypeOK
  BY DEF Init, TypeOK, Statuses, Results
<1>2. retries \in Int \ {0}
  BY ConstantsAssumption DEF Init
<1>3. ~(run >= Threshold)
  BY <1>2 DEF Init, Threshold
<1>4. CountersAgree
  BY <1>2, <1>3 DEF Init, CountersAgree
<1>5. DownNotifiedOnceWhenDue
  BY <1>3 DEF Init, DownNotifiedOnceWhenDue
<1> QED
  BY <1>1, <1>4, <1>5 DEF IInv

(* checkUpdateHealth keeps the counters and the notifications in step with *)
(* the failures in a row.                                                  *)
LEMMA CheckKeeps ==
  ASSUME IInv, loop # "stopped", NEW res \in Results,
         checkUpdateHealth(res), status' = res, UNCHANGED retries
  PROVE  /\ fails' \in Nat /\ run' \in Nat /\ sent' \in BOOLEAN
         /\ notes' \in [up : Nat, down : Nat]
         /\ (status' = "healthy") <=> (run' = 0)
         /\ sent' <=> run' >= Threshold'
         /\ retries' > 0 => fails' = run'
         /\ DownNotifiedOnceWhenDue'
         /\ run' = IF res = "healthy" THEN 0 ELSE run + 1
<1>0. /\ retries \in Int \ {0} /\ fails \in Nat /\ run \in Nat
      /\ sent \in BOOLEAN /\ notes \in [up : Nat, down : Nat]
  BY ConstantsAssumption DEF IInv, TypeOK
<1>1. /\ notes.down = (IF run >= Threshold THEN 1 ELSE 0)
      /\ status = "healthy" <=> run = 0
      /\ sent <=> run >= Threshold
      /\ retries > 0 => fails = run
  BY DEF IInv, CountersAgree, DownNotifiedOnceWhenDue
<1>2. run' = IF res = "healthy" THEN 0 ELSE run + 1
  BY DEF checkUpdateHealth
<1>3. /\ Threshold \in Nat \ {0} /\ Threshold' = Threshold
      /\ IF retries < 0 THEN Threshold = 1 ELSE Threshold = retries
  BY <1>0 DEF Threshold
<1>4. /\ run' \in Nat
      /\ (status' = "healthy") <=> (run' = 0)
  BY <1>0, <1>2
<1>5. SUFFICES /\ fails' \in Nat /\ sent' \in BOOLEAN
               /\ notes' \in [up : Nat, down : Nat]
               /\ sent' <=> run' >= Threshold
               /\ retries' > 0 => fails' = run'
               /\ notes'.down = (IF run' >= Threshold THEN 1 ELSE 0)
  BY <1>2, <1>3, <1>4 DEF DownNotifiedOnceWhenDue
<1>6. CASE res = "healthy" /\ wasHealthy /\ stayedUp
  <2>1. run = 0 /\ run' = 0 /\ ~(run >= Threshold) /\ ~(run' >= Threshold)
    BY <1>1, <1>2, <1>3, <1>6 DEF wasHealthy
  <2> QED
    BY <1>0, <1>1, <1>6, <2>1 DEF stayedUp
<1>7. CASE res = "healthy" /\ ~wasHealthy /\ cameUp
  <2>1. run' = 0 /\ ~(run' >= Threshold)
    BY <1>2, <1>3, <1>7
  <2> QED
    BY <2>1, <1>7 DEF cameUp
<1>8. CASE res # "healthy" /\ retries < 0 /\ downImmediate
  <2>1. run' >= Threshold /\ (run >= Threshold <=> ~wasHealthy)
    BY <1>0, <1>1, <1>2, <1>3, <1>8 DEF wasHealthy
  <2>2. sent' = TRUE
    BY <1>1, <1>8, <2>1 DEF downImmediate
  <2>3. notes' \in [up : Nat, down : Nat] /\ notes'.down = 1 /\ fails' = fails
    BY <1>0, <1>1, <1>8, <2>1 DEF downImmediate
  <2> QED
    BY <1>0, <1>8, <2>1, <2>2, <2>3
<1>9. CASE res # "healthy" /\ retries > 0 /\ downThreshold
  <2>1. /\ fails = run /\ Threshold = retries /\ run' = run + 1
        /\ run' >= Threshold <=> (fails + 1 >= retries)
    BY <1>0, <1>1, <1>2, <1>3, <1>9
  <2>2. CASE run >= Threshold
    <3>1. sent /\ run' >= Threshold
      BY <1>0, <1>1, <1>3, <2>1, <2>2
    <3>2. sent' = TRUE
      BY <3>1, <1>9 DEF downThreshold
    <3>3. notes' \in [up : Nat, down : Nat] /\ notes'.down = 1 /\ fails' = run'
      BY <1>0, <1>1, <1>9, <2>1, <2>2, <3>1 DEF downThreshold
    <3> QED
      BY <1>0, <2>1, <3>1, <3>2, <3>3
  <2>3. CASE ~(run >= Threshold)
    <3>1. ~sent
      BY <1>1, <2>3
    <3>2. sent' \in BOOLEAN /\ (sent' <=> fails + 1 >= retries)
      <4>1. sent' = (sent \/ (fails + 1 >= retries /\ ~sent))
        BY <1>9 DEF downThreshold
      <4> QED
        BY Zenon, <3>1, <4>1
    <3>3. /\ notes' \in [up : Nat, down : Nat] /\ fails' = run'
          /\ notes'.down = (IF run' >= Threshold THEN 1 ELSE 0)
      BY <1>0, <1>1, <1>9, <2>1, <2>3, <3>1 DEF downThreshold
    <3> QED
      BY <1>0, <2>1, <3>2, <3>3
  <2> QED
    BY <2>2, <2>3
<1> QED
  BY <1>0, <1>6, <1>7, <1>8, <1>9 DEF checkUpdateHealth

(* Every step of the goroutine keeps IInv.                                 *)
LEMMA NextIInv == IInv /\ [Next]_vars => IInv'
<1> SUFFICES ASSUME IInv, [Next]_vars PROVE IInv'
  OBVIOUS
<1>0. TypeOK /\ CountersAgree
  BY DEF IInv
<1>1. ASSUME NEW res \in Results, FirstCheck(res) PROVE IInv'
  <2>1. loop # "stopped" /\ checkUpdateHealth(res) /\ status' = res /\ UNCHANGED retries
    BY <1>1 DEF FirstCheck
  <2>2. failures' \in Nat /\ failures' <= run'
    <3>1. failures = 0 /\ run' = (IF res = "healthy" THEN 0 ELSE run + 1) /\ run \in Nat
      BY <1>0, <1>1, <2>1, CheckKeeps DEF FirstCheck, TypeOK, CountersAgree
    <3> QED
      BY <1>1, <3>1 DEF FirstCheck
  <2>3. gaveUp' \in BOOLEAN /\ (gaveUp' => run' >= MaxFailures)
    BY <1>0, <1>1 DEF FirstCheck, TypeOK, CountersAgree
  <2>4. loop' = "ticking"
    BY <1>1 DEF FirstCheck
  <2> QED
    BY <1>0, <2>1, <2>2, <2>3, <2>4, CheckKeeps DEF IInv, TypeOK, CountersAgree, Statuses
<1>2. ASSUME NEW res \in Results, Tick(res) PROVE IInv'
  <2>1. loop # "stopped" /\ checkUpdateHealth(res) /\ status' = res /\ UNCHANGED retries
    BY <1>2 DEF Tick
  <2>2. failures' \in Nat /\ failures' <= run'
    BY <1>0, <1>2, <2>1, CheckKeeps DEF Tick, TypeOK, CountersAgree
  <2>3. gaveUp' \in BOOLEAN /\ (gaveUp' => run' >= MaxFailures)
    <3>1. gaveUp' = (loop' = "stopped") /\ (loop' = "stopped" => failures' >= MaxFailures)
      BY <1>2 DEF Tick
    <3>2. failures' >= MaxFailures => run' >= MaxFailures
      BY <2>1, <2>2, CheckKeeps, ConstantsAssumption
    <3> QED
      BY Zenon, <3>1, <3>2
  <2>4. loop' \in {"ticking", "stopped"}
    BY <1>2 DEF Tick
  <2> QED
    BY <1>0, <2>1, <2>2, <2>3, <2>4, CheckKeeps DEF IInv, TypeOK, CountersAgree, Statuses
<1>3. CASE Cancel
  BY <1>0, <1>3 DEF Cancel, IInv, TypeOK, CountersAgree, DownNotifiedOnceWhenDue,
                    Threshold, Statuses, Results
<1>4. CASE UNCHANGED vars
  BY <1>0, <1>4 DEF vars, IInv, TypeOK, CountersAgree, DownNotifiedOnceWhenDue, Threshold
<1> QED
  BY <1>1, <1>2, <1>3, <1>4 DEF Next

(* The inductive invariant.                                                *)
THEOREM MonitorInvariant == Spec => []IInv
<1> QED
  BY InitIInv, NextIInv, PTL DEF Spec

(* The variables of the monitor keep their types.                          *)
THEOREM TypeCorrect == Spec => []TypeOK
<1>1. IInv => TypeOK
  BY DEF IInv
<1> QED
  BY <1>1, MonitorInvariant, PTL

(* For every value of Retries: a service that goes down is notified once,  *)
(* at the Threshold-th failure in a row (checkUpdateHealth).               *)
THEOREM NotifiedOnce == Spec => []DownNotifiedOnceWhenDue
<1>1. IInv => DownNotifiedOnceWhenDue
  BY DEF IInv
<1> QED
  BY <1>1, MonitorInvariant, PTL

(* For every Retries that is not beyond the limit of errors: the goroutine *)
(* of Start gives up only on a service it has reported as down.            *)
THEOREM GivesUpInformed == Spec => []GivesUpAfterNotifying
<1>1. IInv => GivesUpAfterNotifying
  BY ConstantsAssumption
  DEF IInv, TypeOK, CountersAgree, DownNotifiedOnceWhenDue, GivesUpAfterNotifying, Threshold
<1> QED
  BY <1>1, MonitorInvariant, PTL

(* The end of an outage that was notified is notified, by the same step.   *)
THEOREM RecoveryIsNotified == Spec => RecoveryNotified
<1>1. IInv /\ [Next]_vars => [(notes.down = 1 /\ notes'.down = 0) => notes'.up = 1]_vars
  <2> SUFFICES ASSUME IInv, Next, notes.down = 1, notes'.down = 0 PROVE notes'.up = 1
    OBVIOUS
  <2>0. TypeOK /\ CountersAgree /\ DownNotifiedOnceWhenDue
    BY DEF IInv
  <2>1. ASSUME NEW res \in Results, checkUpdateHealth(res), loop # "stopped"
        PROVE notes'.up = 1
    <3> USE DEF wasHealthy, Threshold
    <3>1. CASE res = "healthy" /\ wasHealthy /\ stayedUp
      BY <2>0, <2>1, <3>1, ConstantsAssumption
      DEF stayedUp, TypeOK, CountersAgree, DownNotifiedOnceWhenDue
    <3>2. CASE res = "healthy" /\ ~wasHealthy /\ cameUp
      BY <3>2 DEF cameUp
    <3>3. CASE res # "healthy" /\ retries < 0 /\ downImmediate
      BY <2>0, <3>3 DEF downImmediate, TypeOK
    <3>4. CASE res # "healthy" /\ retries > 0 /\ downThreshold
      BY <2>0, <3>4 DEF downThreshold, TypeOK
    <3> QED
      BY <2>1, <3>1, <3>2, <3>3, <3>4 DEF checkUpdateHealth
  <2>2. CASE Cancel
    BY <2>2 DEF Cancel
  <2> QED
    BY <2>1, <2>2 DEF Next, FirstCheck, Tick
<1> QED
  BY <1>1, MonitorInvariant, PTL DEF Spec, RecoveryNotified
(* The invariant that the runs check: for every number of retries and      *)
(* limit of errors, an outage is notified once, when it is due, and before *)
(* checkUpdateHealth gives the service up.                                 *)
THEOREM OutagesCorrect == Spec => []OutagesNotified
<1> QED
  BY MonitorInvariant, GivesUpInformed, PTL DEF OutagesNotified

-----------------------------------------------------------------------------
(* DockerClients, for any number of users, hosts and clients: reference    *)
(* counts are exact, a client somebody holds stays open, and the cleaner   *)
(* closes what has not been used for the TTL.                              *)

(* Identities are given out in order, and what has not been created is in  *)
(* nobody's hands.                                                         *)
FreshUnused ==
  /\ \A u \in Users : step[u] # "idle" => client[u] \in 1..created
  /\ \A u \in Users : step[u] = "idle" => client[u] = NoClient
  /\ \A h \in Hosts : clientMap[h] # NoClient => clientMap[h] \in 1..created
  /\ closed \subseteq 1..created

(* A client of the map is open and belongs to one host; a unique client is *)
(* not in the map and has one user.                                        *)
MapOpen ==
  \A h \in Hosts : clientMap[h] # NoClient =>
    /\ clientMap[h] \notin closed
    /\ \A k \in Hosts : clientMap[k] = clientMap[h] => k = h

UniqueAlone ==
  \A u \in Users : step[u] = "unique" =>
    /\ \A h \in Hosts : clientMap[h] # client[u]
    /\ \A v \in Users : client[v] = client[u] => v = u

(* A closed client may keep a count (a unique one is closed without a      *)
(* decrement), but never less than its users: counts stay natural numbers. *)
Counted ==
  \A c \in ClientIds :
    /\ refCount[c] >= Cardinality(Holders(c))
    /\ c \notin closed => refCount[c] = Cardinality(Holders(c))

CountsNatural ==
  /\ refCount \in [ClientIds -> Nat] /\ closedOn \in [ClientIds -> Nat]
  /\ released \in [ClientIds -> Nat]

(* While the cleaner decides about a client, nobody who got it from        *)
(* NewClient has it: the lock keeps new ones out.                          *)
Deciding == cleaner \in {"counted", "timed"}
Unclaimed ==
  /\ unlocked => todo = {}
  /\ \A h \in todo : clientMap[h] # NoClient
  /\ Deciding =>
       /\ checking \notin todo /\ clientMap[checking] # NoClient
       /\ \A u \in Users : step[u] = "held" => client[u] # clientMap[checking]

ClientsInv ==
  /\ ClientsTypeOK /\ FreshUnused /\ MapOpen /\ UniqueAlone /\ Counted
  /\ HeldStaysOpen /\ Unclaimed

-----------------------------------------------------------------------------
(* The users of a client are a finite set.                                 *)
LEMMA HoldersFinite ==
  \A c : IsFiniteSet(Holders(c)) /\ Cardinality(Holders(c)) \in Nat
<1>1. \A c : Holders(c) \subseteq Users
  BY DEF Holders
<1>2. \A c : IsFiniteSet(Holders(c))
  BY <1>1, ClientsAssumption, FS_Subset
<1> QED BY <1>2, FS_CardinalityType

(* An open client without users has the count zero, and conversely.        *)
LEMMA NobodyHolds ==
  ASSUME ClientsTypeOK, Counted, NEW c \in ClientIds, c \notin closed
  PROVE  refCount[c] = 0 <=> Holders(c) = {}
<1>1. refCount[c] = Cardinality(Holders(c))
  BY DEF Counted
<1>2. Cardinality(Holders(c)) = 0 <=> Holders(c) = {}
  BY HoldersFinite, FS_EmptySet
<1> QED BY <1>1, <1>2

(* Counts stay exact when nobody's hold changes, whatever is closed.       *)
LEMMA HoldersKept ==
  ASSUME Counted, closed \subseteq closed', refCount' = refCount,
         \A c \in ClientIds : Holders(c)' = Holders(c)
  PROVE  Counted'
  BY DEF Counted

(* A user takes a reference, and the count is incremented.                 *)
LEMMA HolderJoins ==
  ASSUME ClientsTypeOK, Counted, NEW u, NEW c \in ClientIds,
         u \notin Holders(c), Holders(c)' = Holders(c) \cup {u},
         \A d \in ClientIds : d # c => Holders(d)' = Holders(d),
         refCount' = [refCount EXCEPT ![c] = @ + 1], closed' = closed
  PROVE  Counted'
<1>1. Cardinality(Holders(c) \cup {u}) = Cardinality(Holders(c)) + 1
  BY HoldersFinite, FS_AddElement
<1>2. refCount'[c] = refCount[c] + 1 /\ refCount[c] \in Nat
  BY DEF ClientsTypeOK
<1>3. \A d \in ClientIds : d # c => refCount'[d] = refCount[d]
  BY DEF ClientsTypeOK
<1>4. Cardinality(Holders(c)) \in Nat
  BY HoldersFinite
<1>5. ASSUME NEW d \in ClientIds, d # c
      PROVE  /\ refCount'[d] >= Cardinality(Holders(d)')
             /\ d \notin closed' => refCount'[d] = Cardinality(Holders(d)')
  BY <1>3, <1>5 DEF Counted
<1>6. /\ refCount'[c] >= Cardinality(Holders(c)')
      /\ c \notin closed' => refCount'[c] = Cardinality(Holders(c)')
  BY <1>1, <1>2, <1>4 DEF Counted
<1> QED BY <1>5, <1>6 DEF Counted

(* A user gives its reference back, and the count is decremented.          *)
LEMMA HolderLeaves ==
  ASSUME ClientsTypeOK, Counted, NEW u, NEW c \in ClientIds,
         u \in Holders(c), Holders(c)' = Holders(c) \ {u},
         \A d \in ClientIds : d # c => Holders(d)' = Holders(d),
         refCount' = [refCount EXCEPT ![c] = @ - 1], closed' = closed
  PROVE  Counted' /\ refCount' \in [ClientIds -> Nat]
<1>1. Cardinality(Holders(c) \ {u}) = Cardinality(Holders(c)) - 1
  BY HoldersFinite, FS_RemoveElement
<1>2. refCount'[c] = refCount[c] - 1 /\ refCount[c] \in Nat
  BY DEF ClientsTypeOK
<1>3. \A d \in ClientIds : d # c => refCount'[d] = refCount[d]
  BY DEF ClientsTypeOK
<1>4. Cardinality(Holders(c)) \in Nat /\ Cardinality(Holders(c)) # 0
  BY HoldersFinite, FS_EmptySet
<1>5. ASSUME NEW d \in ClientIds, d # c
      PROVE  /\ refCount'[d] >= Cardinality(Holders(d)')
             /\ d \notin closed' => refCount'[d] = Cardinality(Holders(d)')
  BY <1>3, <1>5 DEF Counted
<1>6. /\ refCount'[c] >= Cardinality(Holders(c)')
      /\ c \notin closed' => refCount'[c] = Cardinality(Holders(c)')
  BY <1>1, <1>2, <1>4 DEF Counted
<1>7. refCount[c] >= 1
  BY <1>2, <1>4 DEF Counted
<1>8. refCount' \in [ClientIds -> Nat]
  BY <1>2, <1>7 DEF ClientsTypeOK
<1> QED BY <1>5, <1>6, <1>8 DEF Counted

-----------------------------------------------------------------------------
(* The initial states satisfy the invariant.                               *)
LEMMA InitInv == ClientsInit => ClientsInv
<1> SUFFICES ASSUME ClientsInit PROVE ClientsInv
  OBVIOUS
<1>1. ClientsTypeOK
  <2>1. cleaner = "idle" /\ todo \subseteq Hosts /\ checking \in Hosts /\ raced \in BOOLEAN
    BY DEF ClientsInit
  <2>2. now \in Nat /\ scanNow \in Nat /\ created \in 0..MaxClients
    BY ClientsAssumption DEF ClientsInit
  <2>3. /\ clientMap \in [Hosts -> ClientIds \cup {NoClient}] /\ closed \subseteq ClientIds
        /\ refCount \in [ClientIds -> Nat] /\ closedOn \in [ClientIds -> Nat]
        /\ released \in [ClientIds -> Nat]
        /\ step \in [Users -> Steps] /\ client \in [Users -> ClientIds \cup {NoClient}]
    BY DEF ClientsInit, Steps
  <2> QED BY <2>1, <2>2, <2>3 DEF ClientsTypeOK
<1>2. FreshUnused /\ MapOpen /\ UniqueAlone /\ HeldStaysOpen /\ Unclaimed
  BY DEF ClientsInit, FreshUnused, MapOpen, UniqueAlone, HeldStaysOpen, Unclaimed,
         Deciding, unlocked
<1>3. \A c : Holders(c) = {}
  BY DEF ClientsInit, Holders
<1>4. Cardinality({}) = 0
  BY FS_EmptySet
<1>5. Counted
  BY <1>3, <1>4 DEF Counted, ClientsInit
<1> QED BY <1>1, <1>2, <1>5 DEF ClientsInv

(* An idle user takes a client that was just created.                      *)
LEMMA CreateInv ==
  ASSUME ClientsInv, NEW u \in Users, NEW s \in {"held", "unique"},
         step[u] = "idle", s = "unique" \/ unlocked,
         created < MaxClients, created' = created + 1, become(u, s, created + 1),
         refCount' = [refCount EXCEPT ![created + 1] = 1],
         \/ s = "unique" /\ clientMap' = clientMap
         \/ /\ s = "held"
            /\ \E h \in Hosts : clientMap[h] = NoClient
                                /\ clientMap' = [clientMap EXCEPT ![h] = created + 1],
         UNCHANGED <<closedOn, closed, released, now, cleanerVars, raced>>
  PROVE  ClientsInv'
<1> USE DEF ClientsInv
<1> PICK c : c = created + 1
  OBVIOUS
<1>0. /\ created \in Nat /\ MaxClients \in Nat /\ c \in ClientIds /\ c \in Nat
      /\ c \notin 1..created /\ 1..created \subseteq 1..c /\ c \in 1..c
      /\ NoClient \notin Nat
  BY ClientsAssumption DEF ClientsTypeOK, ClientIds
<1>1. ClientsTypeOK'
  <2>1. step' \in [Users -> Steps] /\ client' \in [Users -> ClientIds \cup {NoClient}]
    BY <1>0 DEF ClientsTypeOK, become, Steps
  <2>2. clientMap' \in [Hosts -> ClientIds \cup {NoClient}]
    BY <1>0 DEF ClientsTypeOK
  <2>3. refCount' \in [ClientIds -> Nat] /\ created' \in 0..MaxClients
    BY <1>0 DEF ClientsTypeOK
  <2> QED BY <2>1, <2>2, <2>3 DEF ClientsTypeOK, cleanerVars
<1>2. \A v \in Users : v # u => step'[v] = step[v] /\ client'[v] = client[v]
  BY DEF become, ClientsTypeOK
<1>3. step'[u] = s /\ client'[u] = c
  BY DEF become, ClientsTypeOK
<1>4. \A h \in Hosts : clientMap'[h] = clientMap[h] \/ (clientMap'[h] = c /\ s = "held")
  BY <1>0 DEF ClientsTypeOK
<1>5. /\ c \notin closed /\ \A v \in Users : client[v] # c
      /\ \A h \in Hosts : clientMap[h] # c
  BY <1>0 DEF FreshUnused
<1>6. FreshUnused'
  BY <1>0, <1>2, <1>3, <1>4 DEF FreshUnused
<1>7. MapOpen'
  <2>1. CASE s = "unique"
    BY <2>1 DEF MapOpen
  <2>2. CASE s = "held"
    <3>1. PICK h \in Hosts : clientMap[h] = NoClient
                             /\ clientMap' = [clientMap EXCEPT ![h] = c]
      BY <2>2
    <3>2. clientMap'[h] = c /\ \A k \in Hosts : k # h => clientMap'[k] = clientMap[k]
      BY <3>1 DEF ClientsTypeOK
    <3> QED BY <3>2, <1>5 DEF MapOpen
  <2> QED BY <2>1, <2>2
<1>8. UniqueAlone'
  <2> SUFFICES ASSUME NEW x \in Users, step'[x] = "unique"
               PROVE  /\ \A h \in Hosts : clientMap'[h] # client'[x]
                      /\ \A v \in Users : client'[v] = client'[x] => v = x
    BY DEF UniqueAlone
  <2>1. CASE x = u
    BY <2>1, <1>2, <1>3, <1>4, <1>5
  <2>2. CASE x # u
    BY <2>2, <1>2, <1>3, <1>4, <1>5 DEF UniqueAlone
  <2> QED BY <2>1, <2>2
<1>9. HeldStaysOpen'
  BY <1>2, <1>3, <1>5 DEF HeldStaysOpen, cleanerVars
<1>10. Counted'
  <2>1. Holders(c) = {}
    BY <1>5 DEF Holders
  <2>2. refCount[c] = 0
    BY <2>1, <1>0, <1>5, NobodyHolds
  <2>3. Holders(c)' = Holders(c) \cup {u}
    BY <1>2, <1>3, <1>5 DEF Holders
  <2>4. \A d \in ClientIds : d # c => Holders(d)' = Holders(d)
    BY <1>2, <1>3 DEF Holders
  <2>5. refCount' = [refCount EXCEPT ![c] = @ + 1]
    BY <2>2, <1>0 DEF ClientsTypeOK
  <2> QED BY <2>1, <2>3, <2>4, <2>5, <1>0, HolderJoins DEF cleanerVars
<1>11. Unclaimed'
  <2>1. CASE s = "unique"
    BY <2>1, <1>2, <1>3 DEF Unclaimed, Deciding, unlocked, cleanerVars
  <2>2. CASE s = "held"
    BY <2>2 DEF Unclaimed, Deciding, unlocked, cleanerVars
  <2> QED BY <2>1, <2>2
<1> QED BY <1>1, <1>6, <1>7, <1>8, <1>9, <1>10, <1>11

(* A user takes a client of the map, or moves on with the one it has; the  *)
(* map and what is closed stay as they are.                                *)
LEMMA MoveInv ==
  ASSUME ClientsInv, NEW u \in Users, NEW s \in Steps, NEW c,
         step[u] # "unique", s # "unique", become(u, s, c),
         \/ s = "idle" /\ c = NoClient
         \/ s # "idle" /\ step[u] # "idle" /\ c = client[u]
         \/ s # "idle" /\ c # NoClient /\ \E h \in Hosts : c = clientMap[h],
         s = "held" => c \notin closed /\ unlocked,
         UNCHANGED <<clientMap, created, closed, now, cleanerVars>>, raced' \in BOOLEAN,
         CountsNatural', Counted'
  PROVE  ClientsInv'
<1> USE DEF ClientsInv
<1>0. created \in Nat /\ NoClient \notin Nat /\ 1..created \subseteq ClientIds
  BY ClientsAssumption DEF ClientsTypeOK, ClientIds
<1>1. s # "idle" => c \in 1..created
  BY DEF FreshUnused
<1>2. \A v \in Users : v # u => step'[v] = step[v] /\ client'[v] = client[v]
  BY DEF become, ClientsTypeOK
<1>3. step'[u] = s /\ client'[u] = c
  BY DEF become, ClientsTypeOK
<1>4. ClientsTypeOK'
  <2>1. step' \in [Users -> Steps] /\ client' \in [Users -> ClientIds \cup {NoClient}]
    BY <1>0, <1>1 DEF ClientsTypeOK, become
  <2> QED BY <2>1 DEF ClientsTypeOK, CountsNatural, cleanerVars
<1>5. FreshUnused'
  BY <1>1, <1>2, <1>3 DEF FreshUnused
<1>6. MapOpen'
  BY DEF MapOpen
<1>7. UniqueAlone'
  <2> SUFFICES ASSUME NEW x \in Users, step'[x] = "unique"
               PROVE  /\ \A h \in Hosts : clientMap'[h] # client'[x]
                      /\ \A v \in Users : client'[v] = client'[x] => v = x
    BY DEF UniqueAlone
  <2>1. x # u /\ step[x] = "unique" /\ client'[x] = client[x] /\ client[x] \in 1..created
    BY <1>2, <1>3 DEF FreshUnused
  <2>2. c # client[x]
    <3>1. CASE s = "idle" /\ c = NoClient
      BY <3>1, <2>1, <1>0
    <3>2. CASE step[u] # "idle" /\ c = client[u]
      BY <3>2, <2>1 DEF UniqueAlone
    <3>3. CASE \E h \in Hosts : c = clientMap[h]
      BY <3>3, <2>1 DEF UniqueAlone
    <3> QED BY <3>1, <3>2, <3>3
  <2> QED BY <2>1, <2>2, <1>2, <1>3 DEF UniqueAlone
<1>8. HeldStaysOpen'
  BY <1>2, <1>3 DEF HeldStaysOpen, cleanerVars
<1>9. Unclaimed'
  BY <1>2, <1>3 DEF Unclaimed, Deciding, unlocked, cleanerVars
<1> QED BY <1>4, <1>5, <1>6, <1>7, <1>8, <1>9

(* Every step of every user and of the cleaner preserves the invariant.    *)
LEMMA StepInv ==
  ASSUME ClientsInv, ClientsNext
  PROVE  ClientsInv'
<1> USE DEF ClientsInv
<1>0. /\ created \in Nat /\ NoClient \notin Nat /\ 1..created \subseteq ClientIds
      /\ now \in Nat
  BY ClientsAssumption DEF ClientsTypeOK, ClientIds
<1>a. raced \in BOOLEAN
  BY DEF ClientsTypeOK
<1>1. ASSUME NEW u \in Users, NEW h \in Hosts, NewClient(u, h)
      PROVE  ClientsInv'
  <2>1. CASE clientMap[h] # NoClient
    <3> PICK c : c = clientMap[h]
      OBVIOUS
    <3>1. /\ step[u] = "idle" /\ unlocked /\ become(u, "held", c)
          /\ closedOn' = [closedOn EXCEPT ![c] = 0]
          /\ refCount' = [refCount EXCEPT ![c] = @ + 1]
          /\ UNCHANGED <<clientMap, created, closed, released, now, cleanerVars, raced>>
      BY <1>1, <2>1 DEF NewClient
    <3>2. c \in ClientIds /\ c \notin closed
      BY <2>1, <1>0 DEF FreshUnused, MapOpen
    <3>3. /\ u \notin Holders(c) /\ Holders(c)' = Holders(c) \cup {u}
          /\ \A d \in ClientIds : d # c => Holders(d)' = Holders(d)
      BY <3>1 DEF Holders, become, ClientsTypeOK
    <3>4. Counted'
      BY <3>1, <3>2, <3>3, HolderJoins
    <3>5. CountsNatural'
      BY <3>1, <3>2 DEF ClientsTypeOK, CountsNatural
    <3> QED BY <3>1, <3>2, <3>4, <3>5, <2>1, MoveInv, <1>a DEF Steps
  <2>2. CASE clientMap[h] = NoClient
    BY <1>1, <2>2, CreateInv DEF NewClient
  <2> QED BY <2>1, <2>2
<1>2. ASSUME NEW u \in Users, NewUniqueClient(u)
      PROVE  ClientsInv'
  BY <1>2, CreateInv DEF NewUniqueClient
<1>3. ASSUME NEW u \in Users, NEW h \in Hosts, Clients(u, h)
      PROVE  ClientsInv'
  <2> PICK c : c = clientMap[h]
    OBVIOUS
  <2>1. /\ step[u] = "idle" /\ c # NoClient /\ become(u, "copied", c)
        /\ UNCHANGED <<clientVars, now, cleanerVars, raced>>
    BY <1>3 DEF Clients
  <2>2. \A d \in ClientIds : Holders(d)' = Holders(d)
    BY <2>1 DEF Holders, become, ClientsTypeOK
  <2>3. Counted'
    BY <2>1, <2>2, HoldersKept DEF clientVars
  <2>4. CountsNatural'
    BY <2>1 DEF ClientsTypeOK, CountsNatural, clientVars
  <2> QED BY <2>1, <2>3, <2>4, MoveInv, <1>a DEF Steps, clientVars
<1>4. ASSUME NEW u \in Users, ClientsAddRef(u)
      PROVE  ClientsInv'
  <2> PICK c : c = client[u]
    OBVIOUS
  <2> PICK s \in {"first", "shared"} : become(u, s, c)
    BY <1>4 DEF ClientsAddRef
  <2>1. /\ step[u] = "copied" /\ refCount' = [refCount EXCEPT ![c] = @ + 1]
        /\ UNCHANGED <<clientMap, created, closedOn, closed, released, now, cleanerVars>>
    BY <1>4 DEF ClientsAddRef
  <2>6. raced' \in BOOLEAN
    BY <1>4 DEF ClientsAddRef
  <2>2. c \in ClientIds
    BY <2>1, <1>0 DEF FreshUnused
  <2>3. /\ u \notin Holders(c) /\ Holders(c)' = Holders(c) \cup {u}
        /\ \A d \in ClientIds : d # c => Holders(d)' = Holders(d)
    BY <2>1 DEF Holders, become, ClientsTypeOK
  <2>4. Counted'
    BY <2>1, <2>2, <2>3, HolderJoins
  <2>5. CountsNatural'
    BY <2>1, <2>2 DEF ClientsTypeOK, CountsNatural
  <2> QED BY <2>1, <2>4, <2>5, <2>6, MoveInv DEF Steps
<1>5. ASSUME NEW u \in Users, ClientsReset(u)
      PROVE  ClientsInv'
  <2> PICK c : c = client[u]
    OBVIOUS
  <2>1. /\ step[u] = "first" /\ become(u, "shared", c)
        /\ closedOn' = [closedOn EXCEPT ![c] = 0]
        /\ UNCHANGED <<clientMap, created, refCount, closed, released, now, cleanerVars, raced>>
    BY <1>5 DEF ClientsReset
  <2>2. \A d \in ClientIds : Holders(d)' = Holders(d)
    BY <2>1 DEF Holders, become, ClientsTypeOK
  <2>3. Counted'
    BY <2>1, <2>2, HoldersKept
  <2>4. CountsNatural'
    BY <2>1 DEF ClientsTypeOK, CountsNatural
  <2> QED BY <2>1, <2>3, <2>4, MoveInv, <1>a DEF Steps
<1>6. ASSUME NEW u \in Users, CloseUnique(u)
      PROVE  ClientsInv'
  <2> PICK c : c = client[u]
    OBVIOUS
  <2>1. /\ step[u] = "unique" /\ closed' = closed \cup {c} /\ become(u, "idle", NoClient)
        /\ UNCHANGED <<clientMap, created, refCount, closedOn, released, now, cleanerVars, raced>>
    BY <1>6 DEF CloseUnique
  <2>2. c \in 1..created /\ c \in ClientIds
    BY <2>1, <1>0 DEF FreshUnused
  <2>3. \A v \in Users : v # u => step'[v] = step[v] /\ client'[v] = client[v]
    BY <2>1 DEF become, ClientsTypeOK
  <2>4. step'[u] = "idle" /\ client'[u] = NoClient
    BY <2>1 DEF become, ClientsTypeOK
  <2>5. \A v \in Users : v # u => client[v] # c
    BY <2>1 DEF UniqueAlone
  <2>6. ClientsTypeOK'
    BY <2>1, <2>2 DEF ClientsTypeOK, become, Steps, cleanerVars
  <2>7. FreshUnused'
    BY <2>1, <2>2, <2>3, <2>4 DEF FreshUnused
  <2>8. MapOpen'
    BY <2>1 DEF MapOpen, UniqueAlone
  <2>9. UniqueAlone'
    BY <2>1, <2>3, <2>4, <1>0 DEF UniqueAlone, FreshUnused
  <2>10. HeldStaysOpen' /\ Unclaimed'
    BY <2>1, <2>3, <2>4, <2>5 DEF HeldStaysOpen, Unclaimed, Deciding, unlocked, cleanerVars
  <2>11. Counted'
    <3>1. Holders(c)' = {}
      BY <2>2, <2>3, <2>4, <2>5, <1>0 DEF Holders
    <3>2. \A d \in ClientIds : d # c => Holders(d)' = Holders(d)
      BY <2>3, <2>4, <1>0 DEF Holders, ClientIds
    <3>3. refCount'[c] \in Nat /\ Cardinality({}) = 0 /\ c \in closed'
      BY <2>1, <2>2, FS_EmptySet DEF ClientsTypeOK
    <3> QED BY <3>1, <3>2, <3>3, <2>1 DEF Counted
  <2> QED BY <2>6, <2>7, <2>8, <2>9, <2>10, <2>11
<1>7. ASSUME NEW u \in Users, CloseStore(u)
      PROVE  ClientsInv'
  <2> PICK c : c = client[u]
    OBVIOUS
  <2>1. /\ step[u] \in {"held", "shared"} /\ become(u, "closing", c)
        /\ closedOn' = [closedOn EXCEPT ![c] = now] /\ released' = [released EXCEPT ![c] = now]
        /\ UNCHANGED <<clientMap, created, refCount, closed, now, cleanerVars, raced>>
    BY <1>7 DEF CloseStore
  <2>2. \A d \in ClientIds : Holders(d)' = Holders(d)
    BY <2>1 DEF Holders, become, ClientsTypeOK
  <2>3. Counted'
    BY <2>1, <2>2, HoldersKept
  <2>4. CountsNatural'
    BY <2>1, <1>0 DEF ClientsTypeOK, CountsNatural
  <2> QED BY <2>1, <2>3, <2>4, MoveInv, <1>a DEF Steps
<1>8. ASSUME NEW u \in Users, CloseRelease(u)
      PROVE  ClientsInv'
  <2> PICK c : c = client[u]
    OBVIOUS
  <2>1. /\ step[u] = "closing" /\ become(u, "idle", NoClient)
        /\ refCount' = [refCount EXCEPT ![c] = @ - 1]
        /\ UNCHANGED <<clientMap, created, closedOn, closed, released, now, cleanerVars, raced>>
    BY <1>8 DEF CloseRelease
  <2>2. c \in ClientIds
    BY <2>1, <1>0 DEF FreshUnused
  <2>3. /\ u \in Holders(c) /\ Holders(c)' = Holders(c) \ {u}
        /\ \A d \in ClientIds : d # c => Holders(d)' = Holders(d)
    BY <2>1, <1>0 DEF Holders, become, ClientsTypeOK, ClientIds
  <2>4. Counted' /\ refCount' \in [ClientIds -> Nat]
    BY <2>1, <2>2, <2>3, HolderLeaves
  <2>5. CountsNatural'
    BY <2>1, <2>4 DEF ClientsTypeOK, CountsNatural
  <2> QED BY <2>1, <2>4, <2>5, MoveInv, <1>a DEF Steps
<1>9. CASE CleanerClose
  <2> PICK h \in Hosts : h = checking
    BY DEF ClientsTypeOK
  <2> PICK c : c = clientMap[h]
    OBVIOUS
  <2>1. /\ cleaner = "timed" /\ cleaner' = "scan" /\ closed' = closed \cup {c}
        /\ clientMap' = [clientMap EXCEPT ![h] = NoClient] /\ raced' = FALSE
        /\ UNCHANGED <<created, refCount, closedOn, released, step, client, now, todo,
                       checking, scanNow>>
    BY <1>9 DEF CleanerClose
  <2>2. /\ c # NoClient /\ h \notin todo
        /\ \A u \in Users : step[u] = "held" => client[u] # c
    BY <2>1 DEF Unclaimed, Deciding
  <2>3. c \in 1..created /\ c \in ClientIds /\ c \notin closed
    BY <2>2, <1>0 DEF FreshUnused, MapOpen
  <2>4. clientMap'[h] = NoClient /\ \A k \in Hosts : k # h => clientMap'[k] = clientMap[k]
    BY <2>1 DEF ClientsTypeOK
  <2>5. ClientsTypeOK'
    BY <2>1, <2>3 DEF ClientsTypeOK
  <2>6. FreshUnused'
    BY <2>1, <2>3, <2>4 DEF FreshUnused
  <2>7. MapOpen'
    <3>1. \A k \in Hosts : k # h => clientMap[k] # c
      BY <2>2 DEF MapOpen
    <3> QED BY <3>1, <2>1, <2>4 DEF MapOpen
  <2>8. UniqueAlone'
    BY <2>1, <2>4, <1>0 DEF UniqueAlone, FreshUnused
  <2>9. HeldStaysOpen'
    BY <2>1, <2>2 DEF HeldStaysOpen, UniqueAlone
  <2>10. \A d \in ClientIds : Holders(d)' = Holders(d)
    BY <2>1 DEF Holders
  <2>11. Counted'
    BY <2>1, <2>10, HoldersKept
  <2>12. Unclaimed'
    BY <2>1, <2>2, <2>4 DEF Unclaimed, Deciding, unlocked, ClientsTypeOK
  <2> QED BY <2>5, <2>6, <2>7, <2>8, <2>9, <2>11, <2>12
<1>10. CASE CleanerExit
  <2>1. /\ cleaner = "idle" /\ cleaner' = "ended"
        /\ closed \subseteq closed' /\ closed' \subseteq 1..created
        /\ clientMap' = [h \in Hosts |-> NoClient]
        /\ UNCHANGED <<created, refCount, closedOn, released, step, client, now, todo,
                       checking, scanNow, raced>>
    BY <1>10 DEF CleanerExit, FreshUnused
  <2>3. ClientsTypeOK'
    BY <2>1, <1>0 DEF ClientsTypeOK
  <2>4. FreshUnused' /\ MapOpen' /\ HeldStaysOpen'
    BY <2>1 DEF FreshUnused, MapOpen, HeldStaysOpen
  <2>5. UniqueAlone'
    BY <2>1, <1>0 DEF UniqueAlone, FreshUnused
  <2>6. \A d \in ClientIds : Holders(d)' = Holders(d)
    BY <2>1 DEF Holders
  <2>7. Counted'
    BY <2>1, <2>6, HoldersKept
  <2>8. Unclaimed'
    BY <2>1 DEF Unclaimed, Deciding, unlocked
  <2> QED BY <2>3, <2>4, <2>5, <2>7, <2>8
<1>12. ASSUME NEW h \in Hosts, CleanerCount(h)
       PROVE  ClientsInv'
  <2>1. /\ cleaner = "scan" /\ h \in todo /\ todo' = todo \ {h}
        /\ UNCHANGED <<clientVars, step, client, now, scanNow, raced>>
        /\ \/ refCount[clientMap[h]] = 0 /\ cleaner' = "counted" /\ checking' = h
           \/ cleaner' = cleaner /\ checking' = checking
    BY <1>12 DEF CleanerCount
  <2>2. ClientsTypeOK'
    BY <2>1 DEF ClientsTypeOK, clientVars
  <2>3. \A d \in ClientIds : Holders(d)' = Holders(d)
    BY <2>1 DEF Holders
  <2>4. Counted'
    BY <2>1, <2>3, HoldersKept DEF clientVars
  <2>5. Unclaimed'
    <3>1. CASE cleaner' = cleaner /\ checking' = checking
      BY <3>1, <2>1 DEF Unclaimed, Deciding, unlocked, clientVars
    <3>2. CASE refCount[clientMap[h]] = 0 /\ cleaner' = "counted" /\ checking' = h
      <4> PICK c : c = clientMap[h]
        OBVIOUS
      <4>1. c # NoClient /\ c \in ClientIds /\ c \notin closed
        BY <2>1, <1>0 DEF Unclaimed, FreshUnused, MapOpen
      <4>2. Holders(c) = {}
        BY <4>1, <3>2, NobodyHolds
      <4>3. \A u \in Users : step[u] = "held" => client[u] # c
        BY <4>2 DEF Holders
      <4> QED BY <4>1, <4>3, <3>2, <2>1 DEF Unclaimed, Deciding, unlocked, clientVars
    <3> QED BY <3>1, <3>2, <2>1
  <2> QED BY <2>1, <2>2, <2>4, <2>5
          DEF FreshUnused, MapOpen, UniqueAlone, HeldStaysOpen, clientVars
<1>13. CASE CleanerTick \/ CleanerTime \/ CleanerUnlock
  <2>0. /\ scanNow' \in Nat /\ todo' \subseteq Hosts
        /\ cleaner # "ended" /\ cleaner' \in {"idle", "scan", "timed"}
        /\ UNCHANGED <<clientVars, step, client, now, checking>>
    BY <1>13, <1>0 DEF CleanerTick, CleanerTime, CleanerUnlock, ClientsTypeOK
  <2>r. raced' \in BOOLEAN
    BY <1>13, <1>a DEF CleanerTick, CleanerTime, CleanerUnlock
  <2>1. /\ UNCHANGED <<clientMap, created, refCount, closedOn, closed, released, step,
                       client, now, checking>>
        /\ cleaner # "ended"
    BY <2>0 DEF clientVars
  <2>2. \A d \in ClientIds : Holders(d)' = Holders(d)
    BY <2>1 DEF Holders
  <2>3. Counted'
    BY <2>1, <2>2, HoldersKept
  <2>4. ClientsTypeOK'
    BY <2>0, <2>r, <2>1 DEF ClientsTypeOK
  <2>5. Unclaimed'
    BY <1>13, <2>1 DEF CleanerTick, CleanerTime, CleanerUnlock, Unclaimed, Deciding, unlocked
  <2> QED BY <2>1, <2>3, <2>4, <2>5 DEF FreshUnused, MapOpen, UniqueAlone, HeldStaysOpen
<1>11. CASE TimePasses
  <2>1. now' \in Nat /\ UNCHANGED <<clientMap, created, refCount, closedOn, closed,
                                    released, step, client, cleaner, todo,
                                    checking, scanNow, raced>>
    BY <1>11, <1>0 DEF TimePasses, clientVars, cleanerVars
  <2>2. \A d \in ClientIds : Holders(d)' = Holders(d)
    BY <2>1 DEF Holders
  <2>3. Counted'
    BY <2>1, <2>2, HoldersKept
  <2>4. ClientsTypeOK'
    BY <2>1 DEF ClientsTypeOK
  <2> QED BY <2>1, <2>3, <2>4 DEF FreshUnused, MapOpen, UniqueAlone, HeldStaysOpen,
                                  Unclaimed, Deciding, unlocked
<1> QED BY <1>1, <1>2, <1>3, <1>4, <1>5, <1>6, <1>7, <1>8, <1>9, <1>10, <1>11,
        <1>12, <1>13 DEF ClientsNext

(* The invariant holds in every state of every behaviour.                  *)
LEMMA Invariance == ClientsSpec => []ClientsInv
<1>1. ClientsInv /\ UNCHANGED dcVars => ClientsInv'
  <2> SUFFICES ASSUME ClientsInv, UNCHANGED dcVars PROVE ClientsInv'
    OBVIOUS
  <2>1. \A d \in ClientIds : Holders(d)' = Holders(d)
    BY DEF Holders, dcVars
  <2>2. Counted'
    BY <2>1, HoldersKept DEF ClientsInv, dcVars, clientVars
  <2> QED BY <2>2 DEF ClientsInv, ClientsTypeOK, FreshUnused, MapOpen, UniqueAlone,
                      HeldStaysOpen, Unclaimed, Deciding, unlocked, dcVars,
                      clientVars, cleanerVars
<1> QED BY <1>1, InitInv, StepInv, PTL DEF ClientsSpec

-----------------------------------------------------------------------------
(* The counters of NewClient, Clients and Close have their types: no count *)
(* is decremented below zero.                                              *)
THEOREM ClientsTypeCorrect == ClientsSpec => []ClientsTypeOK
<1>1. ClientsInv => ClientsTypeOK
  BY DEF ClientsInv
<1> QED BY <1>1, Invariance, PTL

(* For any number of users, hosts and clients, the reference count of an   *)
(* open client is the number of its users.                                 *)
THEOREM RefsExact == ClientsSpec => []RefsCounted
<1>1. ClientsInv => RefsCounted
  BY DEF ClientsInv, Counted, RefsCounted
<1> QED BY <1>1, Invariance, PTL

(* For any number of users, hosts and clients, nobody closes a client that *)
(* NewClient has returned to a user who has not given it back.             *)
THEOREM HeldOpen == ClientsSpec => []HeldStaysOpen
<1>1. ClientsInv => HeldStaysOpen
  BY DEF ClientsInv
<1> QED BY <1>1, Invariance, PTL

(* The invariant that the runs check: for any number of users, hosts and   *)
(* clients, counts are exact and a client that is held stays open.         *)
THEOREM ClientsCorrect == ClientsSpec => []ClientsSound
<1> QED BY ClientsTypeCorrect, RefsExact, HeldOpen, PTL DEF ClientsSound

-----------------------------------------------------------------------------
(* What the cleaner compares with the time is when the client was last     *)
(* given back, unless somebody has it who will store a new time.           *)
Keeping == {"held", "first", "shared"}
StampsAgree ==
  \A c \in ClientIds :
    closedOn[c] = released[c] \/ \E u \in Users : client[u] = c /\ step[u] \in Keeping

(* From the cleaner's look at the count to its close nobody has the        *)
(* client, unless Clients took a reference meanwhile, so that its time     *)
(* stays what it was.                                                      *)
Undisturbed == Deciding /\ ~raced
LongUnused ==
  /\ Undisturbed => Holders(clientMap[checking]) = {}
  /\ Undisturbed /\ cleaner = "timed" => scanNow > released[clientMap[checking]] + TTL
  /\ scanNow <= now

StampsInv == StampsAgree /\ LongUnused

(* A user moves: each client keeps its times and its user, or its times    *)
(* agree, or the user has it now.                                          *)
LEMMA StampsMove ==
  ASSUME ClientsTypeOK, StampsAgree, NEW u \in Users, NEW s, NEW d, become(u, s, d),
         \A c \in ClientIds :
           \/ /\ closedOn'[c] = closedOn[c] /\ released'[c] = released[c]
              /\ client[u] = c /\ step[u] \in Keeping => d = c /\ s \in Keeping
           \/ closedOn'[c] = released'[c]
           \/ d = c /\ s \in Keeping
  PROVE  StampsAgree'
<1>1. /\ step'[u] = s /\ client'[u] = d
      /\ \A v \in Users : v # u => step'[v] = step[v] /\ client'[v] = client[v]
  BY DEF become, ClientsTypeOK
<1> SUFFICES ASSUME NEW c \in ClientIds, closedOn'[c] # released'[c]
             PROVE  \E v \in Users : client'[v] = c /\ step'[v] \in Keeping
  BY DEF StampsAgree
<1>2. CASE d = c /\ s \in Keeping
  BY <1>1, <1>2
<1>3. CASE /\ closedOn'[c] = closedOn[c] /\ released'[c] = released[c]
           /\ client[u] = c /\ step[u] \in Keeping => d = c /\ s \in Keeping
  <2>1. PICK v \in Users : client[v] = c /\ step[v] \in Keeping
    BY <1>3 DEF StampsAgree
  <2> QED
    BY <1>1, <1>3, <2>1
<1> QED
  BY <1>2, <1>3

(* A user moves while the cleaner decides: not to its client.              *)
LEMMA UnusedMove ==
  ASSUME ClientsTypeOK, LongUnused, NEW u \in Users, NEW s, NEW d, become(u, s, d),
         UNCHANGED <<clientMap, now, cleanerVars>>, raced => raced',
         Undisturbed' => d # clientMap[checking] \/ s \in {"idle", "copied"},
         Undisturbed /\ Undisturbed' => released'[clientMap[checking]] = released[clientMap[checking]]
  PROVE  LongUnused'
<1>1. /\ UNCHANGED <<clientMap, now, cleaner, checking, scanNow>>
      /\ step'[u] = s /\ client'[u] = d
      /\ \A v \in Users : v # u => step'[v] = step[v] /\ client'[v] = client[v]
  BY DEF become, ClientsTypeOK, cleanerVars
<1>2. raced \in BOOLEAN
  BY DEF ClientsTypeOK
<1>3. Undisturbed' => Undisturbed
  BY <1>1 DEF Undisturbed, Deciding
<1>4. ASSUME Undisturbed'
      PROVE  Holders(clientMap[checking])' = {}
  <2>1. Holders(clientMap[checking]) = {}
    BY <1>3, <1>4 DEF LongUnused
  <2> SUFFICES ASSUME NEW v \in Users, client'[v] = clientMap[checking],
                      step'[v] \in {"held", "first", "shared", "unique", "closing"}
               PROVE  FALSE
    BY <1>1 DEF Holders
  <2>2. CASE v = u
    BY <2>2, <1>1, <1>4
  <2>3. CASE v # u
    BY <2>1, <2>3, <1>1 DEF Holders
  <2> QED
    BY <2>2, <2>3
<1>5. (scanNow <= now)'
  BY <1>1 DEF LongUnused
<1>6. ASSUME Undisturbed', cleaner = "timed"
      PROVE  (scanNow > released[clientMap[checking]] + TTL)'
  BY <1>1, <1>3, <1>6 DEF LongUnused
<1> QED
  BY <1>1, <1>4, <1>5, <1>6 DEF LongUnused

(* Nobody has the client that the cleaner decides about.                   *)
LEMMA NotTheChecked ==
  ASSUME LongUnused, Undisturbed, NEW u \in Users,
         step[u] \in {"held", "first", "shared", "unique", "closing"}
  PROVE  client[u] # clientMap[checking]
  BY DEF LongUnused, Holders

(* A step of a user keeps the times right.                                 *)
LEMMA UserStamps ==
  ASSUME ClientsInv, StampsInv, NEW u \in Users,
         \/ NewUniqueClient(u) \/ ClientsAddRef(u) \/ ClientsReset(u)
         \/ CloseUnique(u) \/ CloseStore(u) \/ CloseRelease(u)
         \/ \E h \in Hosts : NewClient(u, h) \/ Clients(u, h)
  PROVE  StampsInv'
<1>1. /\ ClientsTypeOK /\ FreshUnused /\ Unclaimed /\ StampsAgree /\ LongUnused
      /\ step \in [Users -> Steps] /\ client \in [Users -> ClientIds \cup {NoClient}]
      /\ closedOn \in [ClientIds -> Nat] /\ released \in [ClientIds -> Nat]
      /\ created \in 0..MaxClients /\ MaxClients \in Nat /\ raced \in BOOLEAN /\ NoClient \notin Nat
  BY ClientsAssumption DEF StampsInv, ClientsInv, ClientsTypeOK
<1>2. Deciding => ~unlocked
  BY DEF Deciding, unlocked
<1>3. Undisturbed' /\ UNCHANGED <<cleanerVars>> /\ (raced => raced') => Undisturbed
  BY <1>1 DEF Undisturbed, Deciding, cleanerVars
<1>4. CASE NewUniqueClient(u)
  <2>1. /\ become(u, "unique", created + 1) /\ step[u] = "idle"
        /\ UNCHANGED <<clientMap, closedOn, released, now, cleanerVars, raced>>
    BY <1>4 DEF NewUniqueClient
  <2>2. StampsAgree'
    BY <2>1, <1>1, StampsMove DEF Keeping
  <2>3. Undisturbed' => created + 1 # clientMap[checking]
    <3>1. Undisturbed' => Deciding
      BY <1>3, <2>1 DEF Undisturbed
    <3>2. Deciding => clientMap[checking] \in 1..created
      BY <1>1 DEF Unclaimed, FreshUnused, ClientsTypeOK
    <3> QED
      BY <3>1, <3>2, <1>1
  <2>4. LongUnused'
    BY <2>1, <2>3, <1>1, UnusedMove
  <2> QED
    BY <2>2, <2>4 DEF StampsInv
<1>5. CASE ClientsAddRef(u)
  <2>1. PICK s \in {"first", "shared"} : become(u, s, client[u])
    BY <1>5 DEF ClientsAddRef
  <2>2. /\ UNCHANGED <<clientMap, closedOn, released, now, cleanerVars>>
        /\ raced' = (raced \/ (cleaner \in {"counted", "timed"} /\ clientMap[checking] = client[u]))
    BY <1>5 DEF ClientsAddRef
  <2>3. StampsAgree'
    BY <2>1, <2>2, <1>1, StampsMove DEF Keeping
  <2>4. raced => raced'
    BY <2>2
  <2>5. Undisturbed' => client[u] # clientMap[checking]
    BY <2>2 DEF Undisturbed, Deciding, cleanerVars
  <2>6. LongUnused'
    BY <2>1, <2>2, <2>4, <2>5, <1>1, UnusedMove
  <2> QED
    BY <2>3, <2>6 DEF StampsInv
<1>6. CASE ClientsReset(u)
  <2>1. /\ become(u, "shared", client[u]) /\ step[u] = "first"
        /\ closedOn' = [closedOn EXCEPT ![client[u]] = 0]
        /\ UNCHANGED <<clientMap, released, now, cleanerVars, raced>>
    BY <1>6 DEF ClientsReset
  <2>2. \A c \in ClientIds : c # client[u] => closedOn'[c] = closedOn[c]
    BY <2>1, <1>1
  <2>3. StampsAgree'
    BY <2>1, <2>2, <1>1, StampsMove DEF Keeping
  <2>4. Undisturbed' => client[u] # clientMap[checking]
    BY <2>1, <1>1, <1>3, NotTheChecked
  <2>5. LongUnused'
    BY <2>1, <2>4, <1>1, UnusedMove
  <2> QED
    BY <2>3, <2>5 DEF StampsInv
<1>7. CASE CloseUnique(u) \/ CloseRelease(u)
  <2>1. /\ become(u, "idle", NoClient) /\ step[u] \in {"unique", "closing"}
        /\ UNCHANGED <<clientMap, closedOn, released, now, cleanerVars, raced>>
    BY <1>7 DEF CloseUnique, CloseRelease
  <2>2. StampsAgree'
    BY <2>1, <1>1, StampsMove DEF Keeping
  <2>3. LongUnused'
    BY <2>1, <1>1, UnusedMove
  <2> QED
    BY <2>2, <2>3 DEF StampsInv
<1>8. CASE CloseStore(u)
  <2>1. /\ become(u, "closing", client[u]) /\ step[u] \in {"held", "shared"}
        /\ closedOn' = [closedOn EXCEPT ![client[u]] = now]
        /\ released' = [released EXCEPT ![client[u]] = now]
        /\ UNCHANGED <<clientMap, now, cleanerVars, raced>>
    BY <1>8 DEF CloseStore
  <2>2. \A c \in ClientIds :
          \/ c # client[u] /\ closedOn'[c] = closedOn[c] /\ released'[c] = released[c]
          \/ closedOn'[c] = released'[c]
    BY <2>1, <1>1
  <2>3. StampsAgree'
    BY <2>1, <2>2, <1>1, StampsMove
  <2>4. Undisturbed' => client[u] # clientMap[checking]
    BY <2>1, <1>1, <1>3, NotTheChecked
  <2>5. Undisturbed' => released'[clientMap[checking]] = released[clientMap[checking]]
    BY <2>1, <2>4, <1>1
  <2>6. LongUnused'
    BY <2>1, <2>4, <2>5, <1>1, UnusedMove
  <2> QED
    BY <2>3, <2>6 DEF StampsInv
<1>9. ASSUME NEW h \in Hosts, NewClient(u, h)
      PROVE  StampsInv'
  <2>1. PICK d \in ClientIds : become(u, "held", d) /\ \A c \in ClientIds : c # d => closedOn'[c] = closedOn[c]
    <3>1. CASE clientMap[h] # NoClient
      BY <3>1, <1>1, <1>9 DEF NewClient, ClientsTypeOK
    <3>2. CASE clientMap[h] = NoClient
      BY <3>2, <1>1, <1>9 DEF NewClient, ClientIds
    <3> QED
      BY <3>1, <3>2
  <2>2. /\ step[u] = "idle" /\ unlocked /\ UNCHANGED <<released, now, cleanerVars, raced>>
    BY <1>9 DEF NewClient
  <2>3. StampsAgree'
    BY <2>1, <2>2, <1>1, StampsMove DEF Keeping
  <2>4. ~Undisturbed'
    BY <2>2, <1>2, <1>3 DEF Undisturbed
  <2>5. LongUnused'
    BY <2>2, <2>4, <1>1 DEF LongUnused, cleanerVars
  <2> QED
    BY <2>3, <2>5 DEF StampsInv
<1>10. ASSUME NEW h \in Hosts, Clients(u, h)
       PROVE  StampsInv'
  <2>1. /\ become(u, "copied", clientMap[h]) /\ step[u] = "idle"
        /\ UNCHANGED <<clientMap, closedOn, released, now, cleanerVars, raced>>
    BY <1>10 DEF Clients, clientVars
  <2>2. StampsAgree'
    BY <2>1, <1>1, StampsMove DEF Keeping
  <2>3. LongUnused'
    BY <2>1, <1>1, UnusedMove
  <2> QED
    BY <2>2, <2>3 DEF StampsInv
<1> QED
  BY <1>4, <1>5, <1>6, <1>7, <1>8, <1>9, <1>10

(* A step of the cleaner, or of time, keeps the times right.               *)
LEMMA CleanerStamps ==
  ASSUME ClientsInv, StampsInv,
         \/ \E h \in Hosts : CleanerCount(h)
         \/ CleanerTick \/ CleanerTime \/ CleanerClose \/ CleanerUnlock \/ CleanerExit
         \/ TimePasses \/ UNCHANGED dcVars
  PROVE  StampsInv'
<1>1. /\ ClientsTypeOK /\ Counted /\ FreshUnused /\ MapOpen /\ Unclaimed /\ StampsAgree /\ LongUnused
      /\ now \in Nat /\ scanNow \in Nat /\ created \in 0..MaxClients /\ MaxClients \in Nat /\ NoClient \notin Nat
  BY ClientsAssumption DEF StampsInv, ClientsInv, ClientsTypeOK
<1>2. UNCHANGED <<closedOn, released, step, client>>
  BY DEF CleanerCount, CleanerTick, CleanerTime, CleanerClose, CleanerUnlock, CleanerExit, TimePasses,
         dcVars, clientVars
<1>3. StampsAgree'
  BY <1>1, <1>2 DEF StampsAgree
<1>4. \A c : Holders(c)' = Holders(c)
  BY <1>2 DEF Holders
<1>5. ASSUME NEW h \in Hosts, CleanerCount(h)
      PROVE  LongUnused'
  <2>1. /\ cleaner = "scan" /\ h \in todo /\ UNCHANGED <<clientMap, closed, now, scanNow, raced>>
        /\ \/ refCount[clientMap[h]] = 0 /\ cleaner' = "counted" /\ checking' = h
           \/ cleaner' = "scan"
    BY <1>5 DEF CleanerCount, clientVars
  <2>2. CASE cleaner' = "scan"
    BY <2>1, <2>2, <1>1 DEF LongUnused, Undisturbed, Deciding
  <2>3. CASE refCount[clientMap[h]] = 0 /\ cleaner' = "counted" /\ checking' = h
    <3>1. clientMap[h] \in ClientIds /\ clientMap[h] \notin closed
      BY <2>1, <1>1 DEF Unclaimed, FreshUnused, MapOpen, ClientIds
    <3>2. Holders(clientMap[h]) = {}
      BY <3>1, <2>3, <1>1, NobodyHolds
    <3>3. Holders(clientMap[checking])' = {}
      BY <3>2, <2>1, <2>3, <1>2 DEF Holders
    <3> QED
      BY <3>3, <2>1, <2>3, <1>1 DEF LongUnused
  <2> QED
    BY <2>1, <2>2, <2>3
<1>6. ASSUME CleanerTime
      PROVE  LongUnused'
  <2>1. /\ cleaner = "counted" /\ UNCHANGED <<clientMap, now, scanNow, checking>>
        /\ \/ scanNow > closedOn[clientMap[checking]] + TTL /\ cleaner' = "timed" /\ raced' = raced
           \/ cleaner' = "scan"
    BY <1>6 DEF CleanerTime, clientVars
  <2>2. CASE cleaner' = "scan"
    BY <2>1, <2>2, <1>1 DEF LongUnused, Undisturbed, Deciding
  <2>3. CASE scanNow > closedOn[clientMap[checking]] + TTL /\ cleaner' = "timed" /\ raced' = raced
    <3>1. Undisturbed' => Undisturbed
      BY <2>1, <2>3 DEF Undisturbed, Deciding
    <3>2. clientMap[checking] \in ClientIds
      BY <2>1, <1>1 DEF Unclaimed, Deciding, ClientsTypeOK
    <3>3. Undisturbed => closedOn[clientMap[checking]] = released[clientMap[checking]]
      BY <3>2, <1>1 DEF StampsAgree, LongUnused, Holders, Keeping
    <3>4. Undisturbed' => Holders(clientMap[checking])' = {}
      BY <3>1, <2>1, <1>1, <1>2 DEF LongUnused, Holders
    <3> QED
      BY <3>1, <3>3, <3>4, <2>1, <2>3, <1>1, <1>2 DEF LongUnused
  <2> QED
    BY <2>1, <2>2, <2>3
<1>7. ASSUME CleanerTick \/ CleanerClose \/ CleanerUnlock \/ CleanerExit
      PROVE  LongUnused'
  <2>1. /\ cleaner' \in {"scan", "idle", "ended"} /\ now' = now
        /\ scanNow' \in {0, now, scanNow}
    BY <1>7 DEF CleanerTick, CleanerClose, CleanerUnlock, CleanerExit
  <2> QED
    BY <2>1, <1>1 DEF LongUnused, Undisturbed, Deciding
<1>8. ASSUME TimePasses \/ UNCHANGED dcVars
      PROVE  LongUnused'
  <2>1. /\ UNCHANGED <<clientMap, cleaner, checking, scanNow, raced>> /\ now' \in {now, now + 1}
    BY <1>8 DEF TimePasses, dcVars, clientVars, cleanerVars
  <2>2. Undisturbed' <=> Undisturbed
    BY <2>1 DEF Undisturbed, Deciding
  <2>3. Holders(clientMap[checking])' = Holders(clientMap[checking])
    BY <2>1, <1>2 DEF Holders
  <2> QED
    BY <2>1, <2>2, <2>3, <1>1, <1>2 DEF LongUnused
<1> QED
  BY <1>3, <1>5, <1>6, <1>7, <1>8 DEF StampsInv

(* The cleaner closes a client only when nobody has used it for longer     *)
(* than the TTL, for any number of users, hosts and clients: a client that *)
(* was taken and given back in the meantime has a new time, although Close *)
(* and Clients write it without a lock.                                    *)
THEOREM CleanerWaitsTTL == ClientsSpec => ClosedAfterTTL
<1>1. ClientsInit => StampsInv
  <2> SUFFICES ASSUME ClientsInit
               PROVE  StampsInv
    OBVIOUS
  <2>1. StampsAgree
    BY DEF ClientsInit, StampsAgree
  <2>2. LongUnused
    BY ClientsAssumption DEF ClientsInit, LongUnused, Undisturbed, Deciding
  <2> QED
    BY <2>1, <2>2 DEF StampsInv
<1>2. ClientsInv /\ StampsInv /\ [ClientsNext]_dcVars => StampsInv'
  BY UserStamps, CleanerStamps DEF ClientsNext
<1>3. ClientsInv /\ StampsInv /\ [ClientsNext]_dcVars =>
        [cleaner = "timed" /\ cleaner' = "scan" /\ ~raced =>
           now > released[clientMap[checking]] + TTL]_dcVars
  <2> SUFFICES ASSUME ClientsInv, StampsInv, cleaner = "timed", ~raced
               PROVE  now > released[clientMap[checking]] + TTL
    OBVIOUS
  <2>1. clientMap[checking] \in ClientIds
    BY DEF ClientsInv, Unclaimed, Deciding, ClientsTypeOK
  <2>2. /\ scanNow > released[clientMap[checking]] + TTL /\ scanNow <= now
        /\ now \in Nat /\ scanNow \in Nat /\ released[clientMap[checking]] \in Nat /\ TTL \in Nat
    BY <2>1, ClientsAssumption DEF StampsInv, LongUnused, Undisturbed, Deciding, ClientsInv, ClientsTypeOK
  <2> QED
    BY <2>2
<1> QED
  BY <1>1, <1>2, <1>3, Invariance, PTL DEF ClientsSpec, ClosedAfterTTL

-----------------------------------------------------------------------------
(* NotifDispatcher, for any messages, providers, retry limits and capacity *)
(* of the channel: no notification is lost or sent by two goroutines,      *)
(* retries are bounded, and the dispatcher implements Mailbox.             *)

(* The end of the goroutine of start: it alone closes the channel and      *)
(* forgets the providers.                                                  *)
LoopOwns ==
  /\ nloop # "ended" => providers = Providers /\ ~logChClosed
  /\ nloop = "ended" => ndone
  /\ nloop # "retry" => ready = {}

(* A message is in the channel once, and leaves it before it is dispatched.*)
Handed(m) == InChan(m) \/ m \in received
MessageOnce ==
  /\ \A j, k \in 1..Len(logCh) : logCh[j] = logCh[k] => j = k
  /\ \A m \in Msgs : InChan(m) => m \notin received
  /\ \A m \in Msgs : Handed(m) => notifier[m] = "sent"

(* Nothing has been done about an item before its message is dispatched.   *)
Fresh(i) ==
  /\ i \notin sending /\ i \notin retryMsg /\ i \notin ready /\ i \notin undelivered
  /\ attempts[i] = 0 /\ acks[i] = 0 /\ trials[i] = 0
FreshBefore ==
  \A i \in Items : notifier[i[1]] # "sent" \/ Handed(i[1]) => Fresh(i)

(* An item is nowhere twice.                                               *)
Exclusive ==
  \A i \in Items :
    /\ i \in sending => i \notin retryMsg /\ i \notin ready
    /\ i \in retryMsg => i \notin ready
    /\ i \in undelivered => i \notin sending /\ i \notin retryMsg /\ i \notin ready
    /\ acks[i] > 0 => i \notin sending /\ i \notin retryMsg /\ i \notin ready /\ i \notin undelivered

(* An item that is being sent was never tried; one that waits for a retry  *)
(* was tried once more than it was retried, and has a retry left.          *)
Tried ==
  \A i \in Items :
    /\ i \in sending => attempts[i] = 0 /\ trials[i] = 0
    /\ i \in retryMsg \cup ready =>
         attempts[i] = trials[i] + 1 /\ (trials[i] = 0 \/ trials[i] < MaxTrials[i[1]])
    /\ acks[i] \in {0, 1}

(* While the dispatcher runs, an item of a message that was handed over is *)
(* somewhere.                                                              *)
Somewhere(i) ==
  i \in sending \/ i \in retryMsg \/ i \in ready \/ acks[i] > 0 \/ i \in undelivered
Accounted ==
  ~ndone => \A m \in Msgs, p \in Providers :
    notifier[m] = "sent" /\ Meant(m, p) => Handed(m) \/ Somewhere(<<m, p>>)

NotifInv ==
  /\ NotifTypeOK /\ LoopOwns /\ MessageOnce /\ FreshBefore /\ Exclusive /\ Tried
  /\ Accounted /\ TrialsBounded

-----------------------------------------------------------------------------
(* What a send on the channel and a receive from it do to who is in it.    *)
LEMMA ChanAppend ==
  ASSUME NEW m \in Msgs, logCh \in Seq(Msgs), logCh' = Append(logCh, m)
  PROVE  /\ logCh' \in Seq(Msgs) /\ Len(logCh') = Len(logCh) + 1
         /\ \A k \in 1..Len(logCh) : logCh'[k] = logCh[k]
         /\ logCh'[Len(logCh) + 1] = m
         /\ \A n : InChan(n)' <=> InChan(n) \/ n = m
<1>1. /\ logCh' \in Seq(Msgs) /\ Len(logCh') = Len(logCh) + 1
      /\ \A k \in 1..Len(logCh) : logCh'[k] = logCh[k]
      /\ logCh'[Len(logCh) + 1] = m /\ Len(logCh) \in Nat
  OBVIOUS
<1>2. \A k : k \in 1..Len(logCh') <=> k \in 1..Len(logCh) \/ k = Len(logCh) + 1
  BY <1>1
<1>3. \A n : InChan(n)' <=> InChan(n) \/ n = m
  BY <1>1, <1>2 DEF InChan
<1> QED
  BY <1>1, <1>3

LEMMA ChanTail ==
  ASSUME logCh \in Seq(Msgs), logCh # <<>>, logCh' = Tail(logCh)
  PROVE  /\ logCh' \in Seq(Msgs) /\ Len(logCh') = Len(logCh) - 1
         /\ Head(logCh) \in Msgs /\ Head(logCh) = logCh[1]
         /\ \A k \in 1..Len(logCh') : k + 1 \in 1..Len(logCh) /\ logCh'[k] = logCh[k + 1]
         /\ \A n : InChan(n) <=> InChan(n)' \/ n = Head(logCh)
<1>1. /\ logCh' \in Seq(Msgs) /\ Len(logCh') = Len(logCh) - 1 /\ Len(logCh) \in Nat
      /\ Head(logCh) \in Msgs /\ Head(logCh) = logCh[1] /\ Len(logCh) > 0
      /\ \A k \in 1..Len(logCh') : logCh'[k] = logCh[k + 1]
  OBVIOUS
<1>2. \A k \in 1..Len(logCh') : k + 1 \in 1..Len(logCh) /\ logCh'[k] = logCh[k + 1]
  BY <1>1
<1>3. \A k \in 1..Len(logCh) : k = 1 \/ (k - 1 \in 1..Len(logCh') /\ logCh[k] = logCh'[k - 1])
  <2> SUFFICES ASSUME NEW k \in 1..Len(logCh), k # 1
               PROVE  k - 1 \in 1..Len(logCh') /\ logCh[k] = logCh'[k - 1]
    OBVIOUS
  <2>1. k - 1 \in 1..Len(logCh') /\ (k - 1) + 1 = k
    BY <1>1
  <2> QED
    BY <2>1, <1>1
<1>4. 1 \in 1..Len(logCh)
  BY <1>1
<1>5. \A n : InChan(n) <=> InChan(n)' \/ n = Head(logCh)
  <2> TAKE n
  <2>1. ASSUME InChan(n) PROVE InChan(n)' \/ n = Head(logCh)
    BY <2>1, <1>1, <1>3 DEF InChan
  <2>2. ASSUME InChan(n)' PROVE InChan(n)
    BY <2>2, <1>2 DEF InChan
  <2>3. ASSUME n = Head(logCh) PROVE InChan(n)
    BY <2>3, <1>1, <1>4 DEF InChan
  <2> QED
    BY <2>1, <2>2, <2>3
<1> QED
  BY <1>1, <1>2, <1>5

(* A call of Notify.                                                       *)
LEMMA NotifyInductive ==
  ASSUME NotifInv, NEW m \in Msgs, Notify(m)
  PROVE  NotifInv'
<1> USE NotifAssumption
<1> USE DEF NotifInv
<1>1. CASE NotifyCheck(m)
  <2> USE <1>1 DEF NotifyCheck, itemVars
  <2>1. NotifTypeOK'
    BY DEF NotifTypeOK
  <2>2. \A n : InChan(n)' <=> InChan(n)
    BY DEF InChan
  <2>3. LoopOwns' /\ Exclusive' /\ Tried' /\ TrialsBounded'
    BY DEF LoopOwns, Exclusive, Tried, TrialsBounded
  <2>4. \A n \in Msgs : notifier'[n] = "sent" <=> notifier[n] = "sent"
    BY DEF NotifTypeOK
  <2>5. MessageOnce'
    BY <2>2, <2>4 DEF MessageOnce, Handed
  <2>6. FreshBefore'
    BY <2>2, <2>4 DEF FreshBefore, Handed, Fresh, Items
  <2>7. Accounted'
    BY <2>2, <2>4 DEF Accounted, Handed, Somewhere, Meant
  <2> QED
    BY <2>1, <2>3, <2>5, <2>6, <2>7
<1>2. CASE NotifySend(m)
  <2> USE <1>2 DEF NotifySend, itemVars
  <2>1. LoopOwns' /\ Exclusive' /\ Tried' /\ TrialsBounded'
    BY DEF LoopOwns, Exclusive, Tried, TrialsBounded
  <2>2. CASE ~logChClosed /\ Len(logCh) < ChanCap /\ logCh' = Append(logCh, m)
             /\ notifier' = [notifier EXCEPT ![m] = "sent"]
    <3> USE <2>2
    <3>1. /\ logCh' \in Seq(Msgs) /\ Len(logCh') = Len(logCh) + 1
          /\ \A k \in 1..Len(logCh) : logCh'[k] = logCh[k]
          /\ logCh'[Len(logCh) + 1] = m
          /\ \A n : InChan(n)' <=> InChan(n) \/ n = m
      BY ChanAppend DEF NotifTypeOK
    <3>2. ~Handed(m) /\ \A p \in Providers : Fresh(<<m, p>>)
      BY DEF NotifTypeOK, MessageOnce, FreshBefore, Items
    <3>3. NotifTypeOK'
      BY <3>1 DEF NotifTypeOK
    <3>4. \A j, k \in 1..Len(logCh') : logCh'[j] = logCh'[k] => j = k
      <4>0. Len(logCh) \in Nat
        BY DEF NotifTypeOK
      <4>1. \A j \in 1..Len(logCh') : j \in 1..Len(logCh) \/ j = Len(logCh) + 1
        BY ONLY <3>1, <4>0
      <4>2. \A j \in 1..Len(logCh) : logCh[j] # m
        BY <3>2 DEF Handed, InChan
      <4> QED
        BY <4>1, <4>2, <3>1 DEF MessageOnce
    <3>5. MessageOnce'
      BY <3>1, <3>2, <3>4 DEF MessageOnce, Handed, NotifTypeOK
    <3>6. FreshBefore'
      BY <3>1, <3>2 DEF FreshBefore, Handed, Fresh, Items, NotifTypeOK
    <3>7. Accounted'
      BY <3>1 DEF Accounted, Handed, Somewhere, Meant, NotifTypeOK
    <3> QED
      BY <2>1, <3>3, <3>5, <3>6, <3>7
  <2>3. CASE logChClosed /\ UNCHANGED logCh /\ notifier' = [notifier EXCEPT ![m] = "panicked"]
    <3> USE <2>3
    <3>1. NotifTypeOK' /\ \A n : InChan(n)' <=> InChan(n)
      BY DEF NotifTypeOK, InChan
    <3>2. \A n \in Msgs : notifier'[n] = "sent" <=> notifier[n] = "sent"
      BY DEF NotifTypeOK
    <3>3. MessageOnce'
      BY <3>1, <3>2 DEF MessageOnce, Handed
    <3>4. FreshBefore'
      BY <3>1, <3>2 DEF FreshBefore, Handed, Fresh, Items
    <3>5. Accounted'
      BY <3>1, <3>2 DEF Accounted, Handed, Somewhere, Meant
    <3> QED
      BY <2>1, <3>1, <3>3, <3>4, <3>5
  <2> QED
    BY <2>2, <2>3
<1> QED
  BY <1>1, <1>2 DEF Notify

(* A step that leaves the channel and the callers of Notify alone.         *)
LEMMA ChanUnchanged ==
  ASSUME UNCHANGED chanVars
  PROVE  /\ \A n : InChan(n)' <=> InChan(n)
         /\ logCh' = logCh /\ notifier' = notifier /\ logChClosed' = logChClosed
BY DEF chanVars, InChan

LEMMA CountOneMore ==
  ASSUME NEW f \in [Items -> Nat], NEW i \in Items
  PROVE  inc(f, i) \in [Items -> Nat]
BY DEF inc

(* A step of the goroutine of start.                                       *)
LEMMA LoopInductive ==
  ASSUME NotifInv, Loop
  PROVE  NotifInv'
<1> USE NotifAssumption
<1> USE DEF NotifInv
<1>1. CASE Receive
  <2> USE <1>1 DEF Receive, itemVars
  <2>1. /\ logCh' \in Seq(Msgs) /\ Len(logCh') = Len(logCh) - 1
        /\ Head(logCh) \in Msgs /\ Head(logCh) = logCh[1]
        /\ \A k \in 1..Len(logCh') : k + 1 \in 1..Len(logCh) /\ logCh'[k] = logCh[k + 1]
        /\ \A n : InChan(n) <=> InChan(n)' \/ n = Head(logCh)
    BY ChanTail DEF NotifTypeOK
  <2>2. NotifTypeOK'
    BY <2>1 DEF NotifTypeOK
  <2>3. LoopOwns' /\ Exclusive' /\ Tried' /\ TrialsBounded'
    BY DEF LoopOwns, Exclusive, Tried, TrialsBounded
  <2>4. \A j, k \in 1..Len(logCh') : logCh'[j] = logCh'[k] => j = k
    <3> TAKE j, k \in 1..Len(logCh')
    <3>1. j + 1 \in 1..Len(logCh) /\ k + 1 \in 1..Len(logCh)
          /\ logCh'[j] = logCh[j + 1] /\ logCh'[k] = logCh[k + 1]
      BY <2>1
    <3>2. logCh'[j] = logCh'[k] => j + 1 = k + 1
      BY <3>1 DEF MessageOnce
    <3> QED
      BY ONLY <3>2, j \in 1..Len(logCh'), k \in 1..Len(logCh')
  <2>5. \A k \in 1..Len(logCh') : logCh'[k] # Head(logCh)
    <3> SUFFICES ASSUME NEW k \in 1..Len(logCh'), logCh'[k] = Head(logCh)
                 PROVE  FALSE
      OBVIOUS
    <3>1. k + 1 \in 1..Len(logCh) /\ logCh[k + 1] = logCh[1] /\ k + 1 # 1 /\ 1 \in 1..Len(logCh)
      BY <2>1 DEF NotifTypeOK
    <3> QED
      BY <3>1 DEF MessageOnce
  <2>6. \A m \in Msgs : Handed(m)' <=> Handed(m)
    BY <2>1 DEF Handed
  <2>7. MessageOnce'
    <3>1. \A m \in Msgs : InChan(m)' => m \notin received'
      <4> SUFFICES ASSUME NEW m \in Msgs, InChan(m)', m \in received'
                   PROVE  FALSE
        OBVIOUS
      <4>1. m # Head(logCh)
        BY <2>5 DEF InChan
      <4> QED
        BY <4>1, <2>1 DEF MessageOnce
    <3>2. \A m \in Msgs : Handed(m)' => notifier'[m] = "sent"
      BY <2>6 DEF MessageOnce
    <3> QED
      BY <2>4, <3>1, <3>2 DEF MessageOnce
  <2>8. FreshBefore'
    BY <2>6 DEF FreshBefore, Fresh, Items
  <2>9. Accounted'
    BY <2>6 DEF Accounted, Somewhere, Meant
  <2> QED
    BY <2>2, <2>3, <2>7, <2>8, <2>9
<1>2. CASE ProcessRetries
  <2> USE <1>2 DEF ProcessRetries
  <2>1. /\ \A n : InChan(n)' <=> InChan(n)
        /\ logCh' = logCh /\ notifier' = notifier /\ logChClosed' = logChClosed
    BY ChanUnchanged
  <2>2. NotifTypeOK'
    BY <2>1 DEF NotifTypeOK
  <2>3. ready = {} /\ ripe \subseteq retryMsg
    BY DEF LoopOwns, NotifTypeOK
  <2>4. LoopOwns' /\ TrialsBounded'
    BY <2>1 DEF LoopOwns, TrialsBounded
  <2>5. Exclusive' /\ Tried'
    BY <2>3 DEF Exclusive, Tried
  <2>6. MessageOnce' /\ FreshBefore'
    BY <2>1, <2>3 DEF MessageOnce, FreshBefore, Handed, Fresh
  <2>7. Accounted'
    BY <2>1, <2>3 DEF Accounted, Handed, Somewhere, Meant
  <2> QED
    BY <2>2, <2>4, <2>5, <2>6, <2>7
<1>3. CASE RetryDone
  <2> USE <1>3 DEF RetryDone, itemVars
  <2>1. /\ \A n : InChan(n)' <=> InChan(n)
        /\ logCh' = logCh /\ notifier' = notifier /\ logChClosed' = logChClosed
    BY ChanUnchanged
  <2>2. NotifTypeOK' /\ LoopOwns' /\ TrialsBounded' /\ Exclusive' /\ Tried'
    BY <2>1 DEF NotifTypeOK, LoopOwns, TrialsBounded, Exclusive, Tried
  <2>3. MessageOnce' /\ FreshBefore' /\ Accounted'
    BY <2>1 DEF MessageOnce, FreshBefore, Accounted, Handed, Fresh, Somewhere, Meant
  <2> QED
    BY <2>2, <2>3
<1>4. CASE End
  <2> USE <1>4 DEF End, itemVars
  <2>1. NotifTypeOK' /\ LoopOwns' /\ TrialsBounded' /\ Exclusive' /\ Tried'
    BY DEF NotifTypeOK, LoopOwns, TrialsBounded, Exclusive, Tried
  <2>2. MessageOnce' /\ FreshBefore' /\ Accounted'
    BY DEF MessageOnce, FreshBefore, Accounted, Handed, InChan, Fresh, Somewhere, Meant
  <2> QED
    BY <2>1, <2>2
<1>5. ASSUME NEW i \in Items, NEW ok \in BOOLEAN, Retry(i, ok)
      PROVE  NotifInv'
  <2> USE <1>5 DEF Retry
  <2>1. /\ \A n : InChan(n)' <=> InChan(n)
        /\ logCh' = logCh /\ notifier' = notifier /\ logChClosed' = logChClosed
    BY ChanUnchanged
  <2>2. /\ attempts[i] = trials[i] + 1 /\ (trials[i] = 0 \/ trials[i] < MaxTrials[i[1]])
        /\ i \notin sending /\ i \notin retryMsg /\ i \notin undelivered /\ acks[i] = 0
        /\ MaxTrials[i[1]] \in Nat
    BY DEF Tried, Exclusive, Items, NotifTypeOK
  <2>3. NotifTypeOK'
    <3>1. trials' \in [Items -> Nat] /\ attempts' \in [Items -> Nat] /\ acks' \in [Items -> Nat]
      <4>1. /\ trials' = trials \/ trials' = inc(trials, i)
            /\ attempts' = inc(attempts, i)
            /\ acks' = acks \/ acks' = inc(acks, i)
        OBVIOUS
      <4>2. trials \in [Items -> Nat] /\ attempts \in [Items -> Nat] /\ acks \in [Items -> Nat]
        BY DEF NotifTypeOK
      <4>3. inc(trials, i) \in [Items -> Nat] /\ inc(attempts, i) \in [Items -> Nat] /\ inc(acks, i) \in [Items -> Nat]
        BY ONLY <4>2, i \in Items, CountOneMore
      <4> QED
        BY ONLY <4>1, <4>2, <4>3
    <3>2. retryMsg' \subseteq Items /\ ripe' \subseteq retryMsg' /\ undelivered' \subseteq Items
      BY DEF NotifTypeOK
    <3> QED
      BY <2>1, <3>1, <3>2 DEF NotifTypeOK
  <2>4. LoopOwns'
    BY <2>1 DEF LoopOwns
  <2>5. Exclusive'
    BY <2>2 DEF Exclusive, NotifTypeOK, inc
  <2>6. Tried'
    BY <2>2 DEF Tried, NotifTypeOK, inc
  <2>7. TrialsBounded'
    BY <2>2 DEF TrialsBounded, NotifTypeOK, inc
  <2>8. MessageOnce'
    BY <2>1 DEF MessageOnce, Handed
  <2>9. FreshBefore'
    BY <2>1, <2>2 DEF FreshBefore, Handed, Fresh, NotifTypeOK, inc
  <2>10. Accounted'
    BY <2>1, <2>2 DEF Accounted, Handed, Somewhere, Meant, NotifTypeOK, Items, inc
  <2> QED
    BY <2>3, <2>4, <2>5, <2>6, <2>7, <2>8, <2>9, <2>10
<1> QED
  BY <1>1, <1>2, <1>3, <1>4, <1>5 DEF Loop

(* A step of a goroutine of dispatch, or the time of a retry.              *)
LEMMA GoroutineInductive ==
  ASSUME NotifInv, NEW i \in Items, Goroutine(i)
  PROVE  NotifInv'
<1> USE NotifAssumption
<1> USE DEF NotifInv
<1>1. CASE Dispatch(i[1])
  <2> DEFINE m == i[1]
  <2> HIDE DEF m
  <2>0. Dispatch(m) /\ m \in Msgs
    BY <1>1 DEF m, Items
  <2> USE <2>0 DEF Dispatch
  <2>1. /\ \A n : InChan(n)' <=> InChan(n)
        /\ logCh' = logCh /\ notifier' = notifier /\ logChClosed' = logChClosed
    BY ChanUnchanged
  <2>2. recipients(m) \subseteq Providers /\ notifier[m] = "sent"
    BY DEF recipients, NotifTypeOK, MessageOnce, Handed
  <2>3. /\ \A j \in Items : j \in sending' <=> j \in sending \/ (j[1] = m /\ j[2] \in recipients(m))
        /\ sending' \subseteq Items
    BY <2>2 DEF Items, NotifTypeOK
  <2>4. \A j \in Items : j[1] = m => Fresh(j)
    BY DEF FreshBefore, Handed
  <2>5. NotifTypeOK' /\ LoopOwns' /\ TrialsBounded'
    BY <2>1, <2>3 DEF NotifTypeOK, LoopOwns, TrialsBounded
  <2>6. Exclusive' /\ Tried'
    BY <2>3, <2>4 DEF Exclusive, Tried, Fresh
  <2>7. MessageOnce'
    BY <2>1 DEF MessageOnce, Handed
  <2>8. FreshBefore'
    <3> SUFFICES ASSUME NEW j \in Items, notifier'[j[1]] # "sent" \/ Handed(j[1])'
                 PROVE  Fresh(j)'
      BY DEF FreshBefore
    <3>1. j[1] # m
      BY <2>1, <2>2 DEF Handed, MessageOnce
    <3>2. notifier[j[1]] # "sent" \/ Handed(j[1])
      BY <2>1 DEF Handed
    <3> QED
      BY <3>1, <3>2, <2>3 DEF FreshBefore, Fresh
  <2>9. Accounted'
    <3> SUFFICES ASSUME ~ndone', NEW n \in Msgs, NEW p \in Providers, notifier'[n] = "sent", Meant(n, p),
                        ~Handed(n)'
                 PROVE  Somewhere(<<n, p>>)'
      BY DEF Accounted, Meant
    <3>1. CASE n = m
      <4>1. providers = Providers
        BY DEF LoopOwns
      <4>2. p \in recipients(m)
        BY <3>1, <4>1 DEF recipients, Meant
      <4>3. <<n, p>> \in sending'
        BY <3>1, <4>2
      <4> QED
        BY <4>3 DEF Somewhere
    <3>2. CASE n # m
      <4>1. ~Handed(n) /\ notifier[n] = "sent"
        BY <3>2, <2>1 DEF Handed
      <4>2. Somewhere(<<n, p>>)
        BY <4>1 DEF Accounted
      <4> QED
        BY <4>2 DEF Somewhere
    <3> QED
      BY <3>1, <3>2
  <2> QED
    BY <2>5, <2>6, <2>7, <2>8, <2>9
<1>2. ASSUME NEW ok \in BOOLEAN, Send(i, ok)
      PROVE  NotifInv'
  <2> USE <1>2 DEF Send
  <2>1. /\ \A n : InChan(n)' <=> InChan(n)
        /\ logCh' = logCh /\ notifier' = notifier /\ logChClosed' = logChClosed
    BY ChanUnchanged
  <2>2. /\ attempts[i] = 0 /\ trials[i] = 0 /\ acks[i] = 0 /\ MaxTrials[i[1]] \in Nat
        /\ i \notin ready /\ i \notin retryMsg /\ i \notin undelivered
    BY DEF Tried, Exclusive, Items, NotifTypeOK
  <2>3. NotifTypeOK' /\ LoopOwns'
    <3>1. trials' \in [Items -> Nat] /\ attempts' \in [Items -> Nat] /\ acks' \in [Items -> Nat]
      <4>1. /\ trials' = trials \/ trials' = inc(trials, i)
            /\ attempts' = inc(attempts, i)
            /\ acks' = acks \/ acks' = inc(acks, i)
        OBVIOUS
      <4>2. trials \in [Items -> Nat] /\ attempts \in [Items -> Nat] /\ acks \in [Items -> Nat]
        BY DEF NotifTypeOK
      <4>3. inc(trials, i) \in [Items -> Nat] /\ inc(attempts, i) \in [Items -> Nat] /\ inc(acks, i) \in [Items -> Nat]
        BY ONLY <4>2, i \in Items, CountOneMore
      <4> QED
        BY ONLY <4>1, <4>2, <4>3
    <3>2. retryMsg' \subseteq Items /\ ripe' \subseteq retryMsg'
      BY DEF NotifTypeOK
    <3> QED
      BY <2>1, <3>1, <3>2 DEF NotifTypeOK, LoopOwns
  <2>4. Exclusive'
    BY <2>2 DEF Exclusive, NotifTypeOK, inc
  <2>5. Tried'
    BY <2>2 DEF Tried, NotifTypeOK, inc
  <2>6. TrialsBounded'
    BY <2>2 DEF TrialsBounded, NotifTypeOK, inc
  <2>7. MessageOnce'
    BY <2>1 DEF MessageOnce, Handed
  <2>8. FreshBefore'
    BY <2>1, <2>2 DEF FreshBefore, Handed, Fresh, NotifTypeOK, inc
  <2>9. Accounted'
    BY <2>1, <2>2 DEF Accounted, Handed, Somewhere, Meant, NotifTypeOK, Items, inc
  <2> QED
    BY <2>3, <2>4, <2>5, <2>6, <2>7, <2>8, <2>9
<1>3. CASE Ripen(i)
  <2> USE <1>3 DEF Ripen
  <2>1. /\ \A n : InChan(n)' <=> InChan(n)
        /\ logCh' = logCh /\ notifier' = notifier /\ logChClosed' = logChClosed
    BY ChanUnchanged
  <2>2. NotifTypeOK' /\ LoopOwns' /\ TrialsBounded' /\ Exclusive' /\ Tried'
    BY <2>1 DEF NotifTypeOK, LoopOwns, TrialsBounded, Exclusive, Tried
  <2>3. MessageOnce' /\ FreshBefore' /\ Accounted'
    BY <2>1 DEF MessageOnce, FreshBefore, Accounted, Handed, Fresh, Somewhere, Meant
  <2> QED
    BY <2>2, <2>3
<1> QED
  BY <1>1, <1>2, <1>3 DEF Goroutine

-----------------------------------------------------------------------------
LEMMA NotifInitInv == NotifInit => NotifInv
<1> USE NotifAssumption
<1> SUFFICES ASSUME NotifInit PROVE NotifInv
  OBVIOUS
<1> USE DEF NotifInit, zero
<1>0. logCh \in Seq(Msgs) /\ Len(logCh) = 0
  OBVIOUS
<1>1. NotifTypeOK
  <2>1. zero \in [Items -> Nat] /\ notifier \in [Msgs -> {"new"}]
    OBVIOUS
  <2>2. Len(logCh) <= ChanCap
    BY <1>0
  <2> QED
    BY <1>0, <2>1, <2>2 DEF NotifTypeOK
<1>2. \A m : ~Handed(m)
  BY DEF Handed, InChan
<1>3. LoopOwns /\ MessageOnce /\ FreshBefore /\ Exclusive /\ Tried /\ Accounted
  BY <1>2 DEF LoopOwns, MessageOnce, FreshBefore, Fresh, Exclusive, Tried, Accounted
<1>4. TrialsBounded
  BY DEF TrialsBounded, Items
<1> QED
  BY <1>1, <1>3, <1>4 DEF NotifInv

LEMMA NotifStepInv == NotifInv /\ [NotifNext]_ndVars => NotifInv'
<1> SUFFICES ASSUME NotifInv, [NotifNext]_ndVars PROVE NotifInv'
  OBVIOUS
<1>1. CASE Loop
  BY <1>1, LoopInductive
<1>2. CASE DispatcherCancelled
  <2> USE <1>2 DEF DispatcherCancelled, itemVars, NotifInv
  <2>1. /\ \A n : InChan(n)' <=> InChan(n)
        /\ logCh' = logCh /\ notifier' = notifier /\ logChClosed' = logChClosed
    BY ChanUnchanged
  <2>2. NotifTypeOK' /\ LoopOwns' /\ TrialsBounded' /\ Exclusive' /\ Tried'
    BY <2>1 DEF NotifTypeOK, LoopOwns, TrialsBounded, Exclusive, Tried
  <2>3. MessageOnce' /\ FreshBefore' /\ Accounted'
    BY <2>1 DEF MessageOnce, FreshBefore, Accounted, Handed, Fresh
  <2> QED
    BY <2>2, <2>3
<1>3. ASSUME NEW m \in Msgs, Notify(m) PROVE NotifInv'
  BY <1>3, NotifyInductive
<1>4. ASSUME NEW i \in Items, Goroutine(i) PROVE NotifInv'
  BY <1>4, GoroutineInductive
<1>5. CASE UNCHANGED ndVars
  BY <1>5 DEF ndVars, chanVars, itemVars, NotifInv, NotifTypeOK, LoopOwns, MessageOnce, FreshBefore,
              Exclusive, Tried, Accounted, TrialsBounded, Handed, InChan, Fresh, Somewhere, Meant
<1> QED
  BY <1>1, <1>2, <1>3, <1>4, <1>5 DEF NotifNext

(* The inductive invariant holds in every state of the dispatcher.         *)
THEOREM DispatcherInvariant == NotifSpec => []NotifInv
BY NotifInitInv, NotifStepInv, PTL DEF NotifSpec

(* Of seven exclusive places of which one is taken, exactly one is.        *)
LEMMA OnePlace ==
  ASSUME NotifInv, ~ndone, NEW m \in Msgs, NEW p \in Providers,
         notifier[m] = "sent", Meant(m, p)
  PROVE  Cardinality({k \in 1..7 : Places(<<m, p>>)[k]}) = 1
<1> DEFINE i == <<m, p>>
           P  == {k \in 1..7 : Places(i)[k]}
<1>1. i \in Items /\ i[1] = m
  BY DEF Items
<1>2. Handed(m) \/ Somewhere(i)
  BY DEF NotifInv, Accounted
<1>3. Handed(m) => Fresh(i)
  BY <1>1 DEF NotifInv, FreshBefore
<1>4. \E k \in 1..7 : P = {k}
  <2>0. 1..7 = {1, 2, 3, 4, 5, 6, 7}
    OBVIOUS
  <2>9. /\ (Places(i)[1] <=> InChan(m)) /\ (Places(i)[2] <=> m \in received)
        /\ (Places(i)[3] <=> i \in sending) /\ (Places(i)[4] <=> i \in retryMsg)
        /\ (Places(i)[5] <=> i \in ready) /\ (Places(i)[6] <=> acks[i] > 0)
        /\ (Places(i)[7] <=> i \in undelivered)
    BY <1>1 DEF Places
  <2> HIDE DEF i
  <2>1. CASE InChan(m)
    <3>1. P = {1}
      BY <2>0, <2>9, <2>1, <1>1, <1>3 DEF NotifInv, MessageOnce, Handed, Fresh
    <3> QED
      BY <3>1
  <2>2. CASE m \in received
    <3>1. P = {2}
      BY <2>0, <2>9, <2>2, <1>1, <1>3 DEF NotifInv, MessageOnce, Handed, Fresh
    <3> QED
      BY <3>1
  <2>3. CASE ~Handed(m)
    <3>0. Somewhere(i) /\ ~InChan(m) /\ m \notin received
      BY <2>3, <1>2 DEF Handed
    <3>1. CASE i \in sending
      <4>1. P = {3}
        BY <2>0, <2>9, <3>0, <3>1, <1>1 DEF NotifInv, Exclusive, NotifTypeOK
      <4> QED
        BY <4>1
    <3>2. CASE i \in retryMsg
      <4>1. P = {4}
        BY <2>0, <2>9, <3>0, <3>2, <1>1 DEF NotifInv, Exclusive, NotifTypeOK
      <4> QED
        BY <4>1
    <3>3. CASE i \in ready
      <4>1. P = {5}
        BY <2>0, <2>9, <3>0, <3>3, <1>1 DEF NotifInv, Exclusive, NotifTypeOK
      <4> QED
        BY <4>1
    <3>4. CASE acks[i] > 0
      <4>1. P = {6}
        BY <2>0, <2>9, <3>0, <3>4, <1>1 DEF NotifInv, Exclusive, NotifTypeOK
      <4> QED
        BY <4>1
    <3>5. CASE i \in undelivered
      <4>1. P = {7}
        BY <2>0, <2>9, <3>0, <3>5, <1>1 DEF NotifInv, Exclusive, NotifTypeOK
      <4> QED
        BY <4>1
    <3> QED
      BY <3>0, <3>1, <3>2, <3>3, <3>4, <3>5 DEF Somewhere
  <2> QED
    BY <2>1, <2>2, <2>3 DEF Handed
<1> QED
  BY <1>4, FS_Singleton

(* While the dispatcher runs, every item of a message that Notify handed   *)
(* over is in exactly one place, so that it is neither forgotten nor sent  *)
(* by two goroutines at once, and a provider is called no more often than  *)
(* the level of the message allows.                                        *)
THEOREM NothingIsForgotten == NotifSpec => []NotificationsKept
<1>1. NotifInv => NotificationsKept
  BY OnePlace DEF NotificationsKept, NothingForgotten, NotifInv
<1> QED
  BY <1>1, DispatcherInvariant, PTL

-----------------------------------------------------------------------------
(* The dispatcher implements the mailbox: whatever the goroutines do, each *)
(* item is acknowledged at most once or given up, and a verdict is final.  *)
THEOREM DispatcherIsMailbox == NotifSpec => ImplementsMailbox
<1>1. NotifInit => Box!Init
  BY DEF NotifInit, Box!Init, zero
<1>2. NotifInv /\ [NotifNext]_ndVars => [Box!Next]_<<acks, undelivered>>
  <2> SUFFICES ASSUME NotifInv, NotifNext, ~UNCHANGED <<acks, undelivered>>
               PROVE  Box!Next
    BY DEF ndVars, itemVars
  <2>1. ASSUME NEW i \in Items, NEW ok \in BOOLEAN, Retry(i, ok)
        PROVE  Box!Next
    <3>1. acks[i] = 0 /\ i \notin undelivered
      BY <2>1 DEF Retry, NotifInv, Exclusive, Tried
    <3>2. Box!Deliver(i) \/ Box!GiveUp(i)
      BY <2>1, <3>1 DEF Retry, inc, Box!Deliver, Box!GiveUp, Box!Open, NotifInv, NotifTypeOK
    <3> QED
      BY <3>2 DEF Box!Next
  <2>2. ASSUME NEW i \in Items, NEW ok \in BOOLEAN, Send(i, ok)
        PROVE  Box!Next
    <3>1. acks[i] = 0 /\ i \notin undelivered
      BY <2>2 DEF Send, NotifInv, Exclusive, Tried
    <3>2. Box!Deliver(i)
      BY <2>2, <3>1 DEF Send, inc, Box!Deliver, Box!Open, NotifInv, NotifTypeOK
    <3> QED
      BY <3>2 DEF Box!Next
  <2>3. ASSUME Receive \/ ProcessRetries \/ RetryDone \/ End \/ DispatcherCancelled
        PROVE  FALSE
    BY <2>3 DEF Receive, ProcessRetries, RetryDone, End, DispatcherCancelled, itemVars
  <2>4. ASSUME NEW m \in Msgs, Notify(m) PROVE FALSE
    BY <2>4 DEF Notify, NotifyCheck, NotifySend, itemVars
  <2>5. ASSUME NEW i \in Items, Dispatch(i[1]) \/ Ripen(i) PROVE FALSE
    BY <2>5 DEF Dispatch, Ripen
  <2> QED
    BY <2>1, <2>2, <2>3, <2>4, <2>5 DEF NotifNext, Loop, Goroutine
<1> QED
  BY <1>1, <1>2, DispatcherInvariant, PTL DEF NotifSpec, ImplementsMailbox, Box!Spec


-----------------------------------------------------------------------------
(* Metrics, for every set of periods, every size of a ring and every       *)
(* schedule of polls, saves, crashes and loads.                            *)
(*                                                                         *)
(* MetricsSound speaks of what a ring gives back.  The invariant says how  *)
(* a ring that has wrapped around represents the samples it took (Holds),  *)
(* that their times ascend up to the clock, and that a complete file has   *)
(* the same property, which carries it through a save, a crash and a load. *)
Sample  == [at : Int, status : {"unknown", "healthy", "idle", "unhealthy"}, has : BOOLEAN]
RingRec == [entries : [0..(MaxEntries - 1) -> Sample], index : 0..(MaxEntries - 1),
            count : 0..MaxEntries, interval : Int, lastAdd : Int]

MetricsTypeOK ==
  /\ ring \in [DOMAIN Periods -> RingRec]
  /\ taken \in [DOMAIN Periods -> Seq(Sample)]
  /\ file \in {Unreadable} \cup [DOMAIN Periods -> [entries : Seq(Sample), interval : Int]]
  /\ poller \in {"down", "up", "saving", "ending", "ended"}
  /\ clock \in Nat /\ boots \in Nat

(* A ring r holds the newest samples of s: in order from slot 0 until it   *)
(* is full, and from its index on, around the end, afterwards.             *)
Holds(r, s) ==
  /\ r.count < MaxEntries =>
       /\ Len(s) = r.count /\ r.index = r.count
       /\ \A k \in 1..r.count : r.entries[k - 1] = s[k]
  /\ r.count = MaxEntries =>
       /\ Len(s) >= MaxEntries
       /\ \A k \in 1..MaxEntries :
            r.entries[(r.index + k - 1) % MaxEntries] = s[Len(s) - MaxEntries + k]

(* Times ascend, and none is later than t.                                 *)
Ascends(s)   == \A k \in 1..(Len(s) - 1) : s[k].at < s[k + 1].at
NotAfter(s, t) == \A k \in 1..Len(s) : s[k].at <= t

RingsHold == \A p \in DOMAIN Periods :
  Holds(ring[p], taken[p]) /\ Ascends(taken[p]) /\ NotAfter(taken[p], clock)

FileHolds == Readable => \A p \in DOMAIN Periods :
  Ascends(file[p].entries) /\ NotAfter(file[p].entries, clock)

(* In the first run what was loaded has times up to 0; a sample taken is   *)
(* no later than lastAdd and an interval after the one before.             *)
FirstRun == boots = 0 =>
  /\ poller = "down" => clock = 0
  /\ poller # "down" => \A p \in DOMAIN Periods :
       /\ \A k \in 1..Len(taken[p]) : taken[p][k].at > 0 => taken[p][k].at <= ring[p].lastAdd
       /\ \A k \in 1..(Len(taken[p]) - 1) :
            taken[p][k].at > 0 => taken[p][k + 1].at - taken[p][k].at >= Interval(p)

OwnInterval == poller # "down" => \A p \in DOMAIN Periods : ring[p].interval = Interval(p)

MetricsInv == MetricsTypeOK /\ RingsHold /\ FileHolds /\ FirstRun /\ OwnInterval

(* The wrap around of an index that is at most twice the size.             *)
LEMMA RingIndex ==
  ASSUME NEW a \in Int, 0 <= a, a < 2 * MaxEntries
  PROVE  a % MaxEntries = (IF a < MaxEntries THEN a ELSE a - MaxEntries)
BY MetricsAssumption

LEMMA IntervalType ==
  ASSUME NEW p \in DOMAIN Periods PROVE Interval(p) \in Int
BY MetricsAssumption DEF Interval, Greatest

(* A new ring is empty.                                                    *)
LEMMA NewRing ==
  ASSUME NEW p \in DOMAIN Periods, clock \in Nat
  PROVE  newEntries(p) \in RingRec /\ Holds(newEntries(p), <<>>)
<1>1. newEntries(p) \in RingRec
  BY MetricsAssumption, IntervalType DEF newEntries, RingRec, Sample, NoSample
<1>2. Holds(newEntries(p), <<>>)
  BY MetricsAssumption DEF newEntries, Holds
<1> QED
  BY <1>1, <1>2

(* Adding a sample to a ring keeps what it is.                             *)
LEMMA AddIsRing ==
  ASSUME NEW r \in RingRec, NEW t \in Int, NEW x \in Sample
  PROVE  /\ addWithTime(r, t, x) \in RingRec
         /\ addWithTime(r, t, x).interval = r.interval
         /\ addWithTime(r, t, x).lastAdd = t
         /\ addWithTime(r, t, x).count = (IF r.count < MaxEntries THEN r.count + 1 ELSE r.count)
         /\ addWithTime(r, t, x).index = (IF r.index + 1 < MaxEntries THEN r.index + 1 ELSE 0)
         /\ addWithTime(r, t, x).entries = [r.entries EXCEPT ![r.index] = x]
<1>1. r.index \in 0..(MaxEntries - 1) /\ MaxEntries \in Nat \ {0}
  BY MetricsAssumption DEF RingRec
<1>2. (r.index + 1) % MaxEntries = (IF r.index + 1 < MaxEntries THEN r.index + 1 ELSE 0)
  BY <1>1, RingIndex
<1>3. (r.index + 1) % MaxEntries \in 0..(MaxEntries - 1)
  BY <1>1, <1>2
<1> DEFINE slots == [r.entries EXCEPT ![r.index] = x]
           next  == (r.index + 1) % MaxEntries
           more  == IF r.count < MaxEntries THEN r.count + 1 ELSE r.count
<1>4. addWithTime(r, t, x) = [r EXCEPT !.entries = slots, !.index = next, !.count = more, !.lastAdd = t]
  BY DEF addWithTime
<1>5. slots \in [0..(MaxEntries - 1) -> Sample]
  BY <1>1 DEF RingRec
<1>6. more \in 0..MaxEntries
  BY <1>1 DEF RingRec
<1> HIDE DEF slots, next, more
<1>7. /\ addWithTime(r, t, x).interval = r.interval
      /\ addWithTime(r, t, x).lastAdd = t
      /\ addWithTime(r, t, x).count = more
      /\ addWithTime(r, t, x).index = next
      /\ addWithTime(r, t, x).entries = slots
      /\ next \in 0..(MaxEntries - 1) => addWithTime(r, t, x) \in RingRec
  BY <1>4, <1>5, <1>6 DEF RingRec
<1> QED
  BY <1>2, <1>3, <1>7 DEF slots, next, more

LEMMA AddInRing ==
  ASSUME NEW r \in RingRec, NEW t \in Int, NEW x \in Sample
  PROVE  addWithTime(r, t, x) \in RingRec
BY AddIsRing

(* A ring that holds s and takes x holds s with x after it.                *)
LEMMA AddHolds ==
  ASSUME NEW r \in RingRec, NEW t \in Int, NEW x \in Sample, NEW s \in Seq(Sample), Holds(r, s)
  PROVE  Holds(addWithTime(r, t, x), Append(s, x))
<1> DEFINE q == addWithTime(r, t, x)
           u == Append(s, x)
           M == MaxEntries
<1>1. /\ q.count = (IF r.count < M THEN r.count + 1 ELSE r.count)
      /\ q.index = (IF r.index + 1 < M THEN r.index + 1 ELSE 0)
      /\ q.entries = [r.entries EXCEPT ![r.index] = x]
  BY AddIsRing
<1>2. M \in Nat \ {0} /\ r.index \in 0..(M - 1) /\ r.count \in 0..M /\ Len(s) \in Nat
      /\ r.entries \in [0..(M - 1) -> Sample]
  BY MetricsAssumption DEF RingRec
<1>3. Len(u) = Len(s) + 1 /\ u[Len(s) + 1] = x /\ \A k \in 1..Len(s) : u[k] = s[k]
  OBVIOUS
<1>4. \A k \in 0..(M - 1) : q.entries[k] = IF k = r.index THEN x ELSE r.entries[k]
  BY <1>1, <1>2
<1> HIDE DEF q, u, M
<1>5. CASE r.count < M
  <2>1. Len(s) = r.count /\ r.index = r.count /\ \A k \in 1..r.count : r.entries[k - 1] = s[k]
    BY <1>5 DEF Holds, M
  <2>2. q.count = r.count + 1
    BY <1>1, <1>5
  <2>3. \A k \in 1..q.count : q.entries[k - 1] = u[k]
    <3> SUFFICES ASSUME NEW k \in 1..q.count PROVE q.entries[k - 1] = u[k]
      OBVIOUS
    <3>1. k \in Int /\ 1 <= k /\ k <= r.count + 1 /\ k - 1 \in 0..(M - 1)
      BY <1>2, <1>5, <2>2
    <3>2. CASE k = r.count + 1
      BY <1>2, <1>3, <1>4, <2>1, <3>1, <3>2
    <3>3. CASE k # r.count + 1
      BY <1>2, <1>3, <1>4, <2>1, <3>1, <3>3
    <3> QED
      BY <3>2, <3>3
  <2>4. CASE q.count < M
    BY <1>1, <1>2, <1>3, <2>1, <2>2, <2>3, <2>4 DEF Holds, M, q, u
  <2>5. CASE q.count = M
    <3>1. q.index = 0 /\ Len(u) = M
      BY <1>1, <1>2, <1>3, <2>1, <2>2, <2>5
    <3>2. ASSUME NEW k \in 1..M PROVE q.entries[(q.index + k - 1) % M] = u[Len(u) - M + k]
      <4>1. (q.index + k - 1) % M = k - 1
        <5>1. q.index + k - 1 = k - 1 /\ k - 1 \in Int /\ 0 <= k - 1 /\ k - 1 < M
          BY <1>2, <3>1
        <5> QED
          BY <1>2, <5>1, RingIndex DEF M
      <4>2. Len(u) - M + k = k
        BY <1>2, <3>1
      <4> QED
        BY <2>3, <2>5, <4>1, <4>2
    <3> QED
      BY <1>2, <2>5, <3>1, <3>2, SMTT(60) DEF Holds, M, q, u
  <2> QED
    BY <1>2, <1>5, <2>2, <2>4, <2>5
<1>6. CASE r.count = M
  <2>1. Len(s) >= M /\ \A k \in 1..M : r.entries[(r.index + k - 1) % M] = s[Len(s) - M + k]
    BY <1>6 DEF Holds, M
  <2>2. q.count = M
    BY <1>1, <1>2, <1>6
  <2>3. ASSUME NEW k \in 1..M PROVE q.entries[(q.index + k - 1) % M] = u[Len(u) - M + k]
    <3>1. k \in Int /\ 1 <= k /\ k <= M
      BY <1>2
    <3>2. q.index \in Int /\ 0 <= q.index /\ q.index < M
      BY <1>1, <1>2
    <3>3. (q.index + k - 1) % M = IF q.index + k - 1 < M THEN q.index + k - 1 ELSE q.index + k - 1 - M
      <4> DEFINE a == q.index + k - 1
      <4>1. a \in Int /\ 0 <= a /\ a < 2 * M
        BY <1>2, <3>1, <3>2
      <4> HIDE DEF a
      <4>2. a % M = IF a < M THEN a ELSE a - M
        BY <4>1, RingIndex DEF M
      <4> QED
        BY <1>2, <3>1, <3>2, <4>1, <4>2 DEF a
    <3>4. CASE k = M
      <4>1. (q.index + k - 1) % M = r.index
        <5>1. CASE r.index + 1 < M
          BY <1>1, <1>2, <3>3, <3>4, <5>1
        <5>2. CASE ~(r.index + 1 < M)
          BY <1>1, <1>2, <3>3, <3>4, <5>2
        <5> QED
          BY <5>1, <5>2
      <4>2. Len(u) - M + k = Len(s) + 1
        BY <1>2, <1>3, <3>4
      <4> QED
        BY <1>2, <1>3, <1>4, <4>1, <4>2
    <3>5. CASE k < M
      <4>1. k + 1 \in 1..M
        BY <1>2, <3>1, <3>5
      <4>2. r.entries[(r.index + (k + 1) - 1) % M] = s[Len(s) - M + (k + 1)]
        BY <2>1, <4>1
      <4>3. (r.index + k) % M = IF r.index + k < M THEN r.index + k ELSE r.index + k - M
        <5> DEFINE a == r.index + k
        <5>1. a \in Int /\ 0 <= a /\ a < 2 * M
          BY <1>2, <3>1, <3>5
        <5> HIDE DEF a
        <5>2. a % M = IF a < M THEN a ELSE a - M
          BY <5>1, RingIndex DEF M
        <5> QED
          BY <1>2, <5>1, <5>2 DEF a
      <4>4. (q.index + k - 1) % M = (r.index + k) % M
        <5>1. CASE r.index + 1 < M
          BY <1>1, <1>2, <3>1, <3>3, <4>3, <5>1
        <5>2. CASE ~(r.index + 1 < M)
          BY <1>1, <1>2, <3>1, <3>3, <3>5, <4>3, <5>2
        <5> QED
          BY <5>1, <5>2
      <4>5. (r.index + k) % M # r.index /\ (r.index + k) % M \in 0..(M - 1)
        <5> DEFINE a == (r.index + k) % M
        <5>1. a = IF r.index + k < M THEN r.index + k ELSE r.index + k - M
          BY <4>3
        <5>2. r.index \in Int /\ 0 <= r.index /\ r.index < M /\ k \in Int /\ 1 <= k /\ k < M
          BY <1>2, <3>1, <3>5
        <5> HIDE DEF a
        <5>3. a # r.index /\ a \in Int /\ 0 <= a /\ a <= M - 1
          BY <1>2, <5>1, <5>2
        <5> QED
          BY <1>2, <5>3 DEF a
      <4>6. Len(u) - M + k = Len(s) - M + (k + 1) /\ Len(s) - M + (k + 1) \in 1..Len(s)
        <5>1. Len(u) = Len(s) + 1
          BY <1>3
        <5>2. Len(s) >= M
          BY <2>1
        <5> QED
          BY <1>2, <3>1, <3>5, <5>1, <5>2
      <4>7. r.index + (k + 1) - 1 = r.index + k
        BY <1>2, <3>1
      <4> QED
        BY <1>3, <1>4, <4>2, <4>4, <4>5, <4>6, <4>7
    <3> QED
      BY <1>2, <3>1, <3>4, <3>5
  <2>4. Len(u) >= M
    BY <1>2, <1>3, <2>1
  <2> QED
    BY <1>2, <2>2, <2>3, <2>4 DEF Holds, M, q, u
<1> QED
  BY <1>2, <1>5, <1>6

(* What a ring gives back is the end of what it has taken.                 *)
LEMMA GetNewest ==
  ASSUME NEW r \in RingRec, NEW s \in Seq(Sample), Holds(r, s)
  PROVE  Get(r) = SubSeq(s, Greatest(1, Len(s) - MaxEntries + 1), Len(s))
<1> DEFINE M == MaxEntries
           n == Len(s)
<1>1. M \in Nat \ {0} /\ n \in Nat /\ r.count \in 0..M
  BY MetricsAssumption DEF RingRec
<1>2. CASE r.count < M
  <2>1. n = r.count /\ \A k \in 1..r.count : r.entries[k - 1] = s[k]
    BY <1>2 DEF Holds
  <2>2. Greatest(1, n - M + 1) = 1
    BY <1>1, <1>2, <2>1 DEF Greatest
  <2>3. SubSeq(s, 1, n) = [k \in 1..n |-> s[k]]
    OBVIOUS
  <2>4. Get(r) = [k \in 1..n |-> r.entries[k - 1]]
    BY <1>2, <2>1 DEF Get
  <2> QED
    BY <2>1, <2>2, <2>3, <2>4
<1>3. CASE r.count = M
  <2>1. n >= M /\ \A k \in 1..M : r.entries[(r.index + k - 1) % M] = s[n - M + k]
    BY <1>3 DEF Holds
  <2>2. Greatest(1, n - M + 1) = n - M + 1
    BY <1>1, <2>1 DEF Greatest
  <2>3. SubSeq(s, n - M + 1, n) = [k \in 1..M |-> s[n - M + k]]
    <3>1. SubSeq(s, n - M + 1, n) = [k \in 1..(n - (n - M + 1) + 1) |-> s[k + (n - M + 1) - 1]]
      BY <1>1
    <3>2. n - (n - M + 1) + 1 = M /\ \A k \in 1..M : k + (n - M + 1) - 1 = n - M + k
      BY <1>1
    <3> QED
      BY <3>1, <3>2
  <2>4. Get(r) = [k \in 1..M |-> r.entries[(r.index + k - 1) % M]]
    BY <1>1, <1>3 DEF Get
  <2> QED
    BY <2>1, <2>2, <2>3, <2>4
<1> QED
  BY <1>1, <1>2, <1>3

(* A part of samples in order is samples in order.                         *)
LEMMA PartAscends ==
  ASSUME NEW s \in Seq(Sample), NEW t \in Int, Ascends(s), NotAfter(s, t),
         NEW m \in Nat \ {0}, NEW n \in 0..Len(s)
  PROVE  /\ SubSeq(s, m, n) \in Seq(Sample) /\ Ascends(SubSeq(s, m, n))
         /\ NotAfter(SubSeq(s, m, n), t)
<1> DEFINE u == SubSeq(s, m, n)
<1>1. m \in Int /\ n \in Int /\ \A i \in m..n : i \in 1..Len(s)
  OBVIOUS
<1>2. \A i \in m..n : s[i] \in Sample
  BY <1>1
<1>3. u \in Seq(Sample) /\ Len(u) = (IF m <= n THEN n - m + 1 ELSE 0)
      /\ \A i \in 1..(n - m + 1) : u[i] = s[m + i - 1]
  BY <1>1, <1>2, SubSeqProperties
<1> HIDE DEF u
<1>4. ASSUME NEW k \in 1..Len(u) PROVE u[k] = s[m + k - 1] /\ m + k - 1 \in 1..n
  BY <1>1, <1>3
<1>5. Ascends(u)
  <2> SUFFICES ASSUME NEW k \in 1..(Len(u) - 1) PROVE u[k].at < u[k + 1].at
    BY DEF Ascends
  <2>1. k \in 1..Len(u) /\ k + 1 \in 1..Len(u)
    BY <1>3
  <2>2. u[k] = s[m + k - 1] /\ u[k + 1] = s[m + (k + 1) - 1] /\ m + (k + 1) - 1 \in 1..n
        /\ m + k - 1 \in 1..n
    BY <1>4, <2>1
  <2>3. m + (k + 1) - 1 = (m + k - 1) + 1 /\ m + k - 1 \in 1..(Len(s) - 1)
    BY <2>2
  <2> QED
    BY <2>2, <2>3 DEF Ascends
<1>6. NotAfter(u, t)
  BY <1>4 DEF NotAfter
<1> QED
  BY <1>3, <1>5, <1>6 DEF u

(* A sample taken after the others keeps the order.                        *)
LEMMA LaterAscends ==
  ASSUME NEW s \in Seq(Sample), NEW t \in Int, Ascends(s), NotAfter(s, t),
         NEW x \in Sample, NEW z \in Int, x.at > t, x.at <= z
  PROVE  Ascends(Append(s, x)) /\ NotAfter(Append(s, x), z)
<1> DEFINE u == Append(s, x)
<1>1. Len(s) \in Nat /\ Len(u) = Len(s) + 1 /\ u[Len(s) + 1] = x /\ \A k \in 1..Len(s) : u[k] = s[k]
  OBVIOUS
<1>2. ASSUME NEW k \in 1..Len(s) PROVE s[k].at \in Int
  <2>1. s[k] \in Sample
    OBVIOUS
  <2> QED
    BY <2>1 DEF Sample
<1>3. x.at \in Int
  BY DEF Sample
<1> HIDE DEF u
<1>4. Ascends(u)
  <2> SUFFICES ASSUME NEW k \in 1..(Len(u) - 1) PROVE u[k].at < u[k + 1].at
    BY DEF Ascends
  <2>1. k \in 1..Len(s) /\ u[k] = s[k] /\ s[k].at \in Int
    BY <1>1, <1>2
  <2>2. CASE k = Len(s)
    <3>1. s[k].at <= t /\ u[k + 1] = x
      BY <1>1, <2>1, <2>2 DEF NotAfter
    <3> QED
      BY <1>3, <2>1, <3>1
  <2>3. CASE k # Len(s)
    <3>1. k \in 1..(Len(s) - 1) /\ k + 1 \in 1..Len(s)
      BY <1>1, <2>1, <2>3
    <3> QED
      BY <1>1, <2>1, <3>1 DEF Ascends
  <2> QED
    BY <2>2, <2>3
<1>5. NotAfter(u, z)
  <2> SUFFICES ASSUME NEW k \in 1..Len(u) PROVE u[k].at <= z
    BY DEF NotAfter
  <2>1. CASE k = Len(s) + 1
    BY <1>1, <2>1
  <2>2. CASE k # Len(s) + 1
    <3>1. k \in 1..Len(s) /\ u[k] = s[k]
      BY <1>1, <2>2
    <3>2. s[k].at <= t /\ s[k].at \in Int
      BY <1>2, <3>1 DEF NotAfter
    <3> QED
      BY <1>3, <3>1, <3>2
  <2> QED
    BY <2>1, <2>2
<1> QED
  BY <1>4, <1>5 DEF u

(* A ring loaded from a file holds the entries that the load kept.         *)
LEMMA UnmarshalHolds ==
  ASSUME NEW r \in RingRec, Holds(r, <<>>), clock \in Nat,
         NEW saved \in [entries : Seq(Sample), interval : Int]
  PROVE  /\ Unmarshal(r, saved) \in RingRec
         /\ Holds(Unmarshal(r, saved), SubSeq(saved.entries, 1, Least(MaxEntries, Len(saved.entries))))
<1> DEFINE kept  == SubSeq(saved.entries, 1, Least(MaxEntries, Len(saved.entries)))
           At(k) == clock - (Len(kept) - k) * saved.interval
           n     == Len(kept)
           base  == [r EXCEPT !.interval = saved.interval]
           ks    == [k \in 1..n |-> k]
           IsFold(h) == h = [s \in SUBSET DOMAIN ks |->
             IF s = {} THEN base
             ELSE addWithTime(h[s \ {Max(s)}], At(ks[Max(s)]), kept[ks[Max(s)]])]
           fold  == CHOOSE h : IsFold(h)
           F     == [k \in 1..n |-> [v \in RingRec |-> addWithTime(v, At(k), kept[k])]]
<1>1. kept \in Seq(Sample) /\ n \in Nat
  <2>1. Least(MaxEntries, Len(saved.entries)) \in 0..Len(saved.entries)
    BY MetricsAssumption DEF Least
  <2> QED
    BY <2>1
<1>2. base \in RingRec /\ Holds(base, <<>>)
  BY DEF RingRec, Holds
<1>3. CASE kept = <<>>
  <2>1. Unmarshal(r, saved) = r
    BY <1>3 DEF Unmarshal
  <2> QED
    BY <1>3, <2>1
<1>4. CASE kept # <<>>
  <2>1. Unmarshal(r, saved) = fold[1..n]
    <3>1. DOMAIN ks = 1..n
      OBVIOUS
    <3>2. Unmarshal(r, saved) = fold[DOMAIN ks]
      BY <1>4 DEF Unmarshal, FoldLeft, MapThenFoldSet
    <3> QED
      BY <3>1, <3>2
  <2> HIDE DEF kept
  <2>2. ASSUME NEW k \in 1..n PROVE At(k) \in Int /\ kept[k] \in Sample
    BY <1>1
  <2>3. F \in [1..n -> [RingRec -> RingRec]]
    <3>1. ASSUME NEW k \in 1..n, NEW v \in RingRec PROVE addWithTime(v, At(k), kept[k]) \in RingRec
      BY <2>2, AddInRing
    <3> HIDE DEF At
    <3> QED
      BY <3>1
  <2>4. PICK h \in [SUBSET (1..n) -> RingRec] : LeftFold(h, n, RingRec, base, F)
    <3>1. n \in Nat /\ base \in RingRec
      BY <1>1, <1>2
    <3> HIDE DEF F, base, n
    <3> QED
      BY <2>3, <3>1, LeftFoldExists
  <2>5. IsFold(h)
    <3>1. DOMAIN ks = 1..n
      OBVIOUS
    <3>2. ASSUME NEW s \in SUBSET (1..n)
          PROVE  h[s] = IF s = {} THEN base
                        ELSE addWithTime(h[s \ {Max(s)}], At(ks[Max(s)]), kept[ks[Max(s)]])
      <4>1. CASE s = {}
        BY <2>4, <4>1 DEF LeftFold
      <4>2. CASE s # {}
        <5> DEFINE m == Max(s)
        <5>1. m \in 1..n /\ h[s \ {m}] \in RingRec /\ h[s] = F[m][h[s \ {m}]]
          BY <2>4, <4>2 DEF LeftFold
        <5> HIDE DEF m
        <5>2. h[s] = addWithTime(h[s \ {m}], At(m), kept[m]) /\ ks[m] = m
          <6> HIDE DEF At, n
          <6> QED
            BY <5>1
        <5> QED
          BY <4>2, <5>2 DEF m
      <4> QED
        BY <4>1, <4>2
    <3> QED
      BY <3>1, <3>2
  <2>6. IsFold(fold)
    BY <2>5
  <2>7. \A s \in SUBSET (1..n) :
          fold[s] = IF s = {} THEN base
                    ELSE addWithTime(fold[s \ {Max(s)}], At(ks[Max(s)]), kept[ks[Max(s)]])
    <3>1. DOMAIN ks = 1..n
      OBVIOUS
    <3> HIDE DEF fold
    <3> QED
      BY <2>6, <3>1
  <2>8. ASSUME NEW i \in 1..n PROVE fold[1..i] = addWithTime(fold[1..(i - 1)], At(i), kept[i])
    <3>1. Max(1..i) = i /\ (1..i) \ {i} = 1..(i - 1) /\ 1..i # {}
      <4>1. i \in Nat \ {0}
        BY <1>1
      <4> QED
        BY <4>1, PrefixMax
    <3>2. 1..i \in SUBSET (1..n) /\ ks[i] = i
      BY <1>1
    <3> HIDE DEF fold, At
    <3> QED
      BY <2>7, <3>1, <3>2
  <2> DEFINE T == {i \in 0..n : fold[1..i] \in RingRec /\ Holds(fold[1..i], SubSeq(kept, 1, i))}
  <2>9. 0 \in T
    <3>1. 1..0 = {} /\ SubSeq(kept, 1, 0) = <<>>
      BY <1>1
    <3>2. fold[{}] = base
      <4> HIDE DEF fold, base
      <4> QED
        BY <2>7
    <3> HIDE DEF fold, base
    <3>3. fold[1..0] \in RingRec /\ Holds(fold[1..0], SubSeq(kept, 1, 0))
      BY <1>2, <3>1, <3>2
    <3>4. 0 \in 0..n
      BY <1>1
    <3> QED
      BY <3>3, <3>4
  <2>10. ASSUME NEW i \in 0..(n - 1), i \in T PROVE i + 1 \in T
    <3>1. i + 1 \in 1..n /\ (i + 1) - 1 = i
      BY <1>1
    <3>2. SubSeq(kept, 1, i) \in Seq(Sample) /\ Append(SubSeq(kept, 1, i), kept[i + 1]) = SubSeq(kept, 1, i + 1)
      <4>1. 1 \in 1..Len(kept) /\ i + 1 \in 1..Len(kept)
        BY <1>1, <3>1
      <4>2. SubSeq(kept, 1, i + 1) = SubSeq(kept, 1, (i + 1) - 1) \o <<kept[i + 1]>>
        BY <1>1, <4>1, SubSeqRecursiveSecond
      <4>3. SubSeq(kept, 1, i) \in Seq(Sample)
        BY <1>1
      <4>4. kept[i + 1] \in Sample
        BY <1>1, <4>1
      <4> QED
        BY <3>1, <4>2, <4>3, <4>4, AppendIsConcat
    <3>3. fold[1..(i + 1)] = addWithTime(fold[1..i], At(i + 1), kept[i + 1])
      BY <2>8, <3>1
    <3>4. At(i + 1) \in Int /\ kept[i + 1] \in Sample
      BY <2>2, <3>1
    <3>5. fold[1..i] \in RingRec /\ Holds(fold[1..i], SubSeq(kept, 1, i))
      BY <2>10
    <3> HIDE DEF fold, At, n, T
    <3>6. fold[1..(i + 1)] \in RingRec
      BY <3>3, <3>4, <3>5, AddInRing
    <3>7. Holds(fold[1..(i + 1)], SubSeq(kept, 1, i + 1))
      BY <3>2, <3>3, <3>4, <3>5, AddHolds
    <3> QED
      BY <1>1, <3>1, <3>6, <3>7 DEF T
  <2> HIDE DEF T
  <2>11. 0..n \subseteq T
    BY <1>1, <2>9, <2>10, BoundedInduction
  <2>12. n \in T
    BY <1>1, <2>11
  <2>13. SubSeq(kept, 1, n) = kept
    BY <1>1, SubSeqFull
  <2> HIDE DEF fold
  <2> QED
    BY <2>1, <2>12, <2>13 DEF T, kept
<1> QED
  BY <1>3, <1>4

(* The entries that an aggregation keeps are in order like the others.     *)
LEMMA AggregateAscends ==
  ASSUME NEW got \in Seq(Sample), Ascends(got)
  PROVE  Aggregate(got) \in Seq(Sample) /\ Ascends(Aggregate(got))
<1> DEFINE n == Len(got)
           V == Seq(Sample)
           IsFold(h) == h = [s \in SUBSET DOMAIN got |->
             IF s = {} THEN <<>>
             ELSE IF got[Max(s)].has THEN Append(h[s \ {Max(s)}], got[Max(s)]) ELSE h[s \ {Max(s)}]]
           fold  == CHOOSE h : IsFold(h)
           F     == [k \in 1..n |-> [v \in V |-> IF got[k].has THEN Append(v, got[k]) ELSE v]]
<1>1. n \in Nat /\ DOMAIN got = 1..n /\ \A k \in 1..n : got[k] \in Sample
  OBVIOUS
<1>2. Aggregate(got) = fold[DOMAIN got]
  BY DEF Aggregate, FoldLeft, MapThenFoldSet
<1>3. F \in [1..n -> [V -> V]]
  <2>1. ASSUME NEW k \in 1..n, NEW v \in V
        PROVE  (IF got[k].has THEN Append(v, got[k]) ELSE v) \in V
    BY <1>1
  <2> HIDE DEF V, n
  <2> QED
    BY <2>1
<1>4. PICK h \in [SUBSET (1..n) -> V] : LeftFold(h, n, V, <<>>, F)
  <2>1. <<>> \in V
    OBVIOUS
  <2> HIDE DEF V, n, F
  <2> QED
    BY <1>1, <1>3, <2>1, LeftFoldExists
<1>5. IsFold(h)
  <2>1. ASSUME NEW s \in SUBSET (1..n)
        PROVE  h[s] = IF s = {} THEN <<>>
                      ELSE IF got[Max(s)].has THEN Append(h[s \ {Max(s)}], got[Max(s)])
                      ELSE h[s \ {Max(s)}]
    <3>1. CASE s = {}
      BY <1>4, <3>1 DEF LeftFold
    <3>2. CASE s # {}
      <4> DEFINE m == Max(s)
      <4>1. m \in 1..n /\ h[s \ {m}] \in V /\ h[s] = F[m][h[s \ {m}]]
        BY <1>4, <3>2 DEF LeftFold
      <4> HIDE DEF m, n, V
      <4>2. h[s] = IF got[m].has THEN Append(h[s \ {m}], got[m]) ELSE h[s \ {m}]
        BY <4>1
      <4> QED
        BY <3>2, <4>2 DEF m
    <3> QED
      BY <3>1, <3>2
  <2> QED
    BY <1>1, <2>1
<1>6. IsFold(fold)
  BY <1>5
<1>7. \A s \in SUBSET (1..n) :
        fold[s] = IF s = {} THEN <<>>
                  ELSE IF got[Max(s)].has THEN Append(fold[s \ {Max(s)}], got[Max(s)])
                  ELSE fold[s \ {Max(s)}]
  <2> HIDE DEF fold
  <2> QED
    BY <1>1, <1>6
<1> HIDE DEF fold
<1>8. ASSUME NEW i \in 1..n
      PROVE  fold[1..i] = IF got[i].has THEN Append(fold[1..(i - 1)], got[i]) ELSE fold[1..(i - 1)]
  <2>1. Max(1..i) = i /\ (1..i) \ {i} = 1..(i - 1) /\ 1..i # {}
    <3>1. i \in Nat \ {0}
      BY <1>1
    <3> QED
      BY <3>1, PrefixMax
  <2>2. 1..i \in SUBSET (1..n)
    BY <1>1
  <2> QED
    BY <1>7, <2>1, <2>2
<1> DEFINE t(i) == IF i = 0 THEN got[1].at - 1 ELSE got[i].at
           T    == {i \in 0..n : fold[1..i] \in V /\ Ascends(fold[1..i]) /\ NotAfter(fold[1..i], t(i))}
<1>9. 0 \in T
  <2>1. 1..0 = {}
    OBVIOUS
  <2>2. fold[1..0] = <<>>
    BY <1>7, <2>1
  <2>3. Ascends(<<>>) /\ NotAfter(<<>>, t(0)) /\ <<>> \in V
    BY DEF Ascends, NotAfter
  <2>4. 0 \in 0..n
    BY <1>1
  <2> QED
    BY <2>2, <2>3, <2>4
<1>10. ASSUME NEW i \in 0..(n - 1), i \in T PROVE i + 1 \in T
  <2>1. i + 1 \in 1..n /\ (i + 1) - 1 = i /\ i + 1 # 0 /\ i + 1 \in 0..n /\ 1 \in 1..n
    BY <1>1
  <2>2. \A k \in 1..n : got[k].at \in Int
    BY <1>1 DEF Sample
  <2>3. t(i) \in Int /\ t(i + 1) = got[i + 1].at /\ t(i) < got[i + 1].at
    <3>1. CASE i = 0
      BY <2>1, <2>2, <3>1
    <3>2. CASE i # 0
      <4>1. i \in 1..(n - 1) /\ i \in 1..n
        BY <1>1, <3>2
      <4>2. got[i].at < got[i + 1].at
        BY <4>1 DEF Ascends
      <4> QED
        BY <2>1, <2>2, <3>2, <4>1, <4>2
    <3> QED
      BY <3>1, <3>2
  <2>4. fold[1..i] \in V /\ Ascends(fold[1..i]) /\ NotAfter(fold[1..i], t(i))
    BY <1>10
  <2>5. got[i + 1] \in Sample /\ got[i + 1].at \in Int
    BY <1>1, <2>1, <2>2
  <2>6. fold[1..(i + 1)] = IF got[i + 1].has THEN Append(fold[1..i], got[i + 1]) ELSE fold[1..i]
    BY <1>8, <2>1
  <2>7. CASE got[i + 1].has
    <3>1. fold[1..(i + 1)] = Append(fold[1..i], got[i + 1])
      BY <2>6, <2>7
    <3>2. Ascends(fold[1..(i + 1)]) /\ NotAfter(fold[1..(i + 1)], got[i + 1].at)
      <4> HIDE DEF t, n, T
      <4> DEFINE x == got[i + 1]
                 f == fold[1..i]
      <4>1. x \in Sample /\ x.at \in Int /\ x.at > t(i) /\ x.at <= x.at /\ t(i) \in Int
        BY <2>3, <2>5
      <4>2. f \in Seq(Sample) /\ Ascends(f) /\ NotAfter(f, t(i))
        BY <2>4
      <4> HIDE DEF x, f
      <4>3. Ascends(Append(f, x)) /\ NotAfter(Append(f, x), x.at)
        BY <4>1, <4>2, LaterAscends
      <4> QED
        BY <3>1, <4>3 DEF x, f
    <3>3. fold[1..(i + 1)] \in V
      BY <2>4, <2>5, <3>1
    <3> QED
      BY <2>1, <2>3, <3>2, <3>3
  <2>8. CASE ~got[i + 1].has
    <3>1. fold[1..(i + 1)] = fold[1..i]
      BY <2>6, <2>8
    <3>2. NotAfter(fold[1..i], got[i + 1].at)
      <4> HIDE DEF t, n, T
      <4> SUFFICES ASSUME NEW k \in 1..Len(fold[1..i]) PROVE fold[1..i][k].at <= got[i + 1].at
        BY DEF NotAfter
      <4>1. fold[1..i][k].at <= t(i)
        BY <2>4 DEF NotAfter
      <4>2. fold[1..i][k] \in Sample
        BY <2>4
      <4>3. fold[1..i][k].at \in Int
        BY <4>2 DEF Sample
      <4> QED
        BY <2>3, <2>5, <4>1, <4>3
    <3> QED
      BY <2>1, <2>3, <2>4, <3>1, <3>2
  <2> QED
    BY <2>7, <2>8
<1> HIDE DEF T
<1>11. 0..n \subseteq T
  BY <1>1, <1>9, <1>10, BoundedInduction
<1>12. n \in T
  BY <1>1, <1>11
<1> QED
  BY <1>1, <1>2, <1>12 DEF T

(* The counts of the three known states add up to the total.               *)
LEMMA InfoAddsUp ==
  ASSUME NEW got \in Seq(Sample)
  PROVE  LET info == CalculateInfo(got) IN info.up + info.down + info.idle = info.total
<1> DEFINE Of(K) == {k \in DOMAIN got : got[k].status \in K}
           H == Of({"healthy"})
           I == Of({"idle"})
           U == Of({"unhealthy"})
<1>1. IsFiniteSet(DOMAIN got)
  <2>1. DOMAIN got = 1..Len(got) /\ Len(got) \in Nat
    OBVIOUS
  <2> QED
    BY <2>1, FS_Interval
<1>2. IsFiniteSet(H) /\ IsFiniteSet(I) /\ IsFiniteSet(U)
  BY <1>1, FS_Subset
<1>3. H \cap I = {} /\ (H \cup I) \cap U = {}
  OBVIOUS
<1>4. Of({"healthy", "idle", "unhealthy"}) = (H \cup I) \cup U
  OBVIOUS
<1> HIDE DEF H, I, U, Of
<1>5. Cardinality(H) \in Nat /\ Cardinality(I) \in Nat /\ Cardinality(U) \in Nat
  BY <1>2, FS_CardinalityType
<1>6. Cardinality({}) = 0
  BY FS_EmptySet
<1>7. IsFiniteSet(H \cup I) /\ Cardinality(H \cup I) = Cardinality(H) + Cardinality(I)
  <2>1. IsFiniteSet(H \cup I)
        /\ Cardinality(H \cup I) = Cardinality(H) + Cardinality(I) - Cardinality(H \cap I)
    BY <1>2, FS_Union
  <2>2. Cardinality(H \cap I) = 0
    BY <1>3, <1>6
  <2> QED
    BY <1>5, <2>1, <2>2
<1>8. Cardinality((H \cup I) \cup U) = Cardinality(H) + Cardinality(I) + Cardinality(U)
  <2> DEFINE HI == H \cup I
  <2>1. IsFiniteSet(HI) /\ Cardinality(HI) = Cardinality(H) + Cardinality(I) /\ HI \cap U = {}
    BY <1>3, <1>7
  <2> HIDE DEF HI
  <2>2. Cardinality(HI \cup U) = Cardinality(HI) + Cardinality(U) - Cardinality(HI \cap U)
    BY <1>2, <2>1, FS_Union
  <2>3. Cardinality(HI \cap U) = 0
    BY <1>6, <2>1
  <2>4. Cardinality(HI \cup U) = Cardinality(H) + Cardinality(I) + Cardinality(U)
    BY <1>5, <2>1, <2>2, <2>3
  <2> QED
    BY <2>4 DEF HI
<1> DEFINE info == CalculateInfo(got)
<1>9. /\ info.up = Cardinality(H) /\ info.idle = Cardinality(I) /\ info.down = Cardinality(U)
      /\ info.total = Cardinality((H \cup I) \cup U)
  BY <1>4 DEF CalculateInfo, Count, H, I, U, Of
<1> HIDE DEF info
<1> QED
  BY <1>5, <1>8, <1>9 DEF info

(* The pollers start with the invariant.                                   *)
LEMMA InitMetricsInv == MetricsInit => MetricsInv
<1> SUFFICES ASSUME MetricsInit PROVE MetricsInv
  OBVIOUS
<1> USE MetricsAssumption
<1>1. clock = 0 /\ boots = 0 /\ poller = "down"
  BY DEF MetricsInit
<1>2. \A p \in DOMAIN Periods : newEntries(p) \in RingRec /\ Holds(newEntries(p), <<>>)
  BY <1>1, NewRing
<1>3. /\ ring = [p \in DOMAIN Periods |-> newEntries(p)]
      /\ taken = [p \in DOMAIN Periods |-> <<>>]
  BY DEF MetricsInit
<1> DEFINE old == [k \in 1..(MaxEntries + 1) |-> [at |-> k - MaxEntries - 2, status |-> "unknown", has |-> TRUE]]
<1>4. old \in Seq(Sample) /\ Len(old) = MaxEntries + 1 /\ Ascends(old) /\ NotAfter(old, 0)
  <2>1. old \in Seq(Sample)
    BY DEF Sample
  <2>2. Len(old) = MaxEntries + 1
    OBVIOUS
  <2>3. \A k \in 1..(MaxEntries + 1) : old[k].at = k - MaxEntries - 2
    OBVIOUS
  <2> HIDE DEF old
  <2>4. Ascends(old)
    BY <2>2, <2>3 DEF Ascends
  <2>5. NotAfter(old, 0)
    BY <2>2, <2>3 DEF NotAfter
  <2> QED
    BY <2>1, <2>2, <2>4, <2>5
<1>5. \/ file = Unreadable
      \/ file = [p \in DOMAIN Periods |-> [entries |-> old, interval |-> Interval(p) + 1]]
  BY DEF MetricsInit
<1> HIDE DEF old
<1>6. MetricsTypeOK
  <2>1. ring \in [DOMAIN Periods -> RingRec]
    BY <1>2, <1>3
  <2>2. taken \in [DOMAIN Periods -> Seq(Sample)]
    BY <1>3
  <2>3. file \in {Unreadable} \cup [DOMAIN Periods -> [entries : Seq(Sample), interval : Int]]
    BY <1>4, <1>5, IntervalType
  <2> QED
    BY <1>1, <2>1, <2>2, <2>3 DEF MetricsTypeOK
<1>7. RingsHold
  <2>1. Ascends(<<>>) /\ NotAfter(<<>>, clock)
    BY DEF Ascends, NotAfter
  <2> QED
    BY <1>2, <1>3, <2>1 DEF RingsHold
<1>8. FileHolds
  <2>1. CASE file = Unreadable
    BY <2>1 DEF FileHolds, Readable, Unreadable
  <2>2. CASE file = [p \in DOMAIN Periods |-> [entries |-> old, interval |-> Interval(p) + 1]]
    BY <1>1, <1>4, <2>2 DEF FileHolds
  <2> QED
    BY <1>5, <2>1, <2>2
<1>9. FirstRun
  BY <1>1 DEF FirstRun
<1>10. OwnInterval
  BY <1>1 DEF OwnInterval
<1> QED
  BY <1>6, <1>7, <1>8, <1>9, <1>10 DEF MetricsInv

(* A readable file has an entry for each period.                           *)
LEMMA ReadableFile ==
  ASSUME MetricsTypeOK, Readable
  PROVE  file \in [DOMAIN Periods -> [entries : Seq(Sample), interval : Int]]
<1>1. DOMAIN Unreadable = {}
  BY DEF Unreadable
<1> QED
  BY <1>1 DEF MetricsTypeOK, Readable

(* A load takes what a complete file holds, and nothing from another.      *)
LEMMA LoadKeeps == MetricsInv /\ LoadMetrics => MetricsInv'
<1> SUFFICES ASSUME MetricsInv, LoadMetrics PROVE MetricsInv'
  OBVIOUS
<1> USE MetricsAssumption
<1> DEFINE P     == DOMAIN Periods
           kept(p) == SubSeq(file[p].entries, 1, Least(MaxEntries, Len(file[p].entries)))
<1>1. MetricsTypeOK /\ RingsHold /\ FileHolds /\ FirstRun
  BY DEF MetricsInv
<1>2. /\ poller = "down" /\ poller' = "up" /\ UNCHANGED <<file, clock, boots>>
      /\ clock \in Nat /\ boots \in Nat
  BY <1>1 DEF LoadMetrics, MetricsTypeOK
<1>3. \A p \in P : newEntries(p) \in RingRec /\ Holds(newEntries(p), <<>>)
  BY <1>2, NewRing
<1>4. \A p \in P : newEntries(p).interval = Interval(p)
  BY DEF newEntries
<1>5. ASSUME NEW p \in P
      PROVE  /\ ring'[p] \in RingRec /\ taken'[p] \in Seq(Sample)
             /\ Holds(ring'[p], taken'[p]) /\ Ascends(taken'[p]) /\ NotAfter(taken'[p], clock)
             /\ ring'[p].interval = Interval(p)
  <2>1. CASE ~Readable
    <3>1. ring'[p] = newEntries(p) /\ taken'[p] = <<>>
      BY <2>1 DEF LoadMetrics
    <3>2. Ascends(<<>>) /\ NotAfter(<<>>, clock)
      BY DEF Ascends, NotAfter
    <3> QED
      BY <1>3, <1>4, <3>1, <3>2
  <2>2. CASE Readable
    <3> DEFINE r == Unmarshal(newEntries(p), file[p])
    <3>1. ring'[p] = [r EXCEPT !.interval = Interval(p)] /\ taken'[p] = kept(p)
      BY <2>2 DEF LoadMetrics, ValidateAndFixIntervals
    <3>2. file[p] \in [entries : Seq(Sample), interval : Int]
      BY <1>1, <2>2, ReadableFile
    <3>3. r \in RingRec /\ Holds(r, kept(p))
      BY <1>2, <1>3, <3>2, UnmarshalHolds
    <3>4. Ascends(file[p].entries) /\ NotAfter(file[p].entries, clock)
      BY <1>1, <2>2 DEF FileHolds
    <3>5. file[p].entries \in Seq(Sample) /\ 1 \in Nat \ {0}
          /\ Least(MaxEntries, Len(file[p].entries)) \in 0..Len(file[p].entries)
      BY <3>2 DEF Least
    <3>6. kept(p) \in Seq(Sample) /\ Ascends(kept(p)) /\ NotAfter(kept(p), clock)
      BY <1>2, <3>4, <3>5, PartAscends
    <3> HIDE DEF r
    <3>7. [r EXCEPT !.interval = Interval(p)] \in RingRec
          /\ [r EXCEPT !.interval = Interval(p)].interval = Interval(p)
      BY <3>3, IntervalType DEF RingRec
    <3>8. Holds([r EXCEPT !.interval = Interval(p)], kept(p))
      <4> HIDE DEF kept
      <4> QED
        BY <3>3 DEF RingRec, Holds
    <3> QED
      BY <3>1, <3>6, <3>7, <3>8
  <2> QED
    BY <2>1, <2>2
<1>6. ring' \in [P -> RingRec] /\ taken' \in [P -> Seq(Sample)]
  <2>1. ring' = [p \in P |-> ring'[p]] /\ taken' = [p \in P |-> taken'[p]]
    BY DEF LoadMetrics, ValidateAndFixIntervals
  <2> QED
    BY <1>5, <2>1
<1>7. MetricsTypeOK'
  BY <1>1, <1>2, <1>6 DEF MetricsTypeOK
<1>8. RingsHold'
  BY <1>2, <1>5 DEF RingsHold
<1>9. FileHolds'
  BY <1>1, <1>2 DEF FileHolds, Readable
<1>10. FirstRun'
  <2> SUFFICES ASSUME boots = 0, NEW p \in P
               PROVE  \A k \in 1..Len(taken'[p]) : ~(taken'[p][k].at > 0)
    BY <1>2, <1>5 DEF FirstRun
  <2>1. clock = 0
    BY <1>1, <1>2 DEF FirstRun
  <2>2. NotAfter(taken'[p], clock) /\ taken'[p] \in Seq(Sample)
    BY <1>5
  <2> SUFFICES ASSUME NEW k \in 1..Len(taken'[p]) PROVE ~(taken'[p][k].at > 0)
    OBVIOUS
  <2>3. taken'[p][k] \in Sample /\ taken'[p][k].at <= 0
    BY <2>1, <2>2 DEF NotAfter
  <2>4. taken'[p][k].at \in Int
    BY <2>3 DEF Sample
  <2> QED
    BY <2>3, <2>4
<1>11. OwnInterval'
  BY <1>5 DEF OwnInterval
<1> QED
  BY <1>7, <1>8, <1>9, <1>10, <1>11 DEF MetricsInv

(* Later times are after what was not after an earlier one.                *)
LEMMA ClockAdvances ==
  ASSUME NEW s \in Seq(Sample), NEW t \in Int, NotAfter(s, t)
  PROVE  NotAfter(s, t + 1)
<1> SUFFICES ASSUME NEW k \in 1..Len(s) PROVE s[k].at <= t + 1
  BY DEF NotAfter
<1>1. s[k] \in Sample /\ s[k].at <= t
  BY DEF NotAfter
<1>2. s[k].at \in Int
  BY <1>1 DEF Sample
<1> QED
  BY <1>1, <1>2

(* The clock alone moves nothing that the rings or the file hold.          *)
LEMMA FileKeepsHolding ==
  ASSUME MetricsTypeOK, FileHolds, file' = file, clock' = clock + 1
  PROVE  FileHolds'
<1> SUFFICES ASSUME Readable, NEW p \in DOMAIN Periods
             PROVE  Ascends(file[p].entries) /\ NotAfter(file[p].entries, clock + 1)
  BY DEF FileHolds, Readable
<1>1. file[p].entries \in Seq(Sample) /\ clock \in Int
  BY ReadableFile DEF MetricsTypeOK
<1> QED
  BY <1>1, ClockAdvances DEF FileHolds

(* A poll adds its sample to the rings whose interval has passed.          *)
LEMMA PollKeeps ==
  ASSUME NEW health \in {"unknown", "healthy", "idle", "unhealthy"}, NEW has \in BOOLEAN,
         MetricsInv, pollWithTimeout([at |-> clock + 1, status |-> health, has |-> has])
  PROVE  MetricsInv'
<1> USE MetricsAssumption
<1> DEFINE P == DOMAIN Periods
           x == [at |-> clock + 1, status |-> health, has |-> has]
<1>1. MetricsTypeOK /\ RingsHold /\ FileHolds /\ FirstRun /\ OwnInterval
  BY DEF MetricsInv
<1>2. /\ poller = "up" /\ clock' = clock + 1 /\ UNCHANGED <<file, poller, boots>>
      /\ clock \in Nat /\ boots \in Nat
  BY <1>1 DEF pollWithTimeout, MetricsTypeOK
<1>3. x \in Sample /\ x.at = clock + 1
  BY <1>2 DEF Sample
<1>4. ring' = [p \in P |-> AddEntry(ring[p], clock', x)]
      /\ taken' = [p \in P |-> IF Accepts(ring[p], clock') THEN Append(taken[p], x) ELSE taken[p]]
  BY DEF pollWithTimeout
<1> HIDE DEF x
<1>5. ASSUME NEW p \in P
      PROVE  /\ ring[p] \in RingRec /\ taken[p] \in Seq(Sample)
             /\ Holds(ring[p], taken[p]) /\ Ascends(taken[p]) /\ NotAfter(taken[p], clock)
  BY <1>1 DEF MetricsTypeOK, RingsHold
<1>6. ASSUME NEW p \in P
      PROVE  /\ ring'[p] \in RingRec /\ taken'[p] \in Seq(Sample)
             /\ Holds(ring'[p], taken'[p]) /\ Ascends(taken'[p]) /\ NotAfter(taken'[p], clock + 1)
             /\ ring'[p].interval = Interval(p)
  <2>1. ring[p].interval = Interval(p)
    BY <1>1, <1>2 DEF OwnInterval
  <2>2. CASE Accepts(ring[p], clock')
    <3>1. ring'[p] = addWithTime(ring[p], clock + 1, x) /\ taken'[p] = Append(taken[p], x)
      BY <1>2, <1>4, <2>2 DEF AddEntry
    <3>2. clock + 1 \in Int /\ clock \in Int /\ x.at > clock /\ x.at <= clock + 1
      BY <1>2, <1>3
    <3>3. addWithTime(ring[p], clock + 1, x) \in RingRec
          /\ addWithTime(ring[p], clock + 1, x).interval = ring[p].interval
      BY <1>3, <1>5, <3>2, AddIsRing, ZenonT(60)
    <3>4. Holds(addWithTime(ring[p], clock + 1, x), Append(taken[p], x))
      BY <1>3, <1>5, <3>2, AddHolds
    <3>5. Ascends(Append(taken[p], x)) /\ NotAfter(Append(taken[p], x), clock + 1)
      BY <1>3, <1>5, <3>2, LaterAscends
    <3>6. Append(taken[p], x) \in Seq(Sample)
      BY <1>3, <1>5
    <3> QED
      BY <2>1, <3>1, <3>3, <3>4, <3>5, <3>6
  <2>3. CASE ~Accepts(ring[p], clock')
    <3>1. ring'[p] = ring[p] /\ taken'[p] = taken[p]
      BY <1>4, <2>3 DEF AddEntry
    <3>2. NotAfter(taken[p], clock + 1)
      BY <1>2, <1>5, ClockAdvances
    <3> QED
      BY <1>5, <2>1, <3>1, <3>2
  <2> QED
    BY <2>2, <2>3
<1>7. MetricsTypeOK'
  <2>1. ring' \in [P -> RingRec] /\ taken' \in [P -> Seq(Sample)]
    <3>1. ring' = [p \in P |-> ring'[p]] /\ taken' = [p \in P |-> taken'[p]]
      BY <1>4
    <3> QED
      BY <1>6, <3>1
  <2> QED
    BY <1>1, <1>2, <2>1 DEF MetricsTypeOK
<1>8. RingsHold'
  BY <1>2, <1>6 DEF RingsHold
<1>9. FileHolds'
  BY <1>1, <1>2, FileKeepsHolding
<1>10. FirstRun'
  <2> SUFFICES ASSUME boots = 0, NEW p \in P
               PROVE  /\ \A k \in 1..Len(taken'[p]) :
                           taken'[p][k].at > 0 => taken'[p][k].at <= ring'[p].lastAdd
                      /\ \A k \in 1..(Len(taken'[p]) - 1) :
                           taken'[p][k].at > 0 => taken'[p][k + 1].at - taken'[p][k].at >= Interval(p)
    BY <1>2 DEF FirstRun
  <2> DEFINE s == taken[p]
  <2>1. /\ \A k \in 1..Len(s) : s[k].at > 0 => s[k].at <= ring[p].lastAdd
        /\ \A k \in 1..(Len(s) - 1) : s[k].at > 0 => s[k + 1].at - s[k].at >= Interval(p)
    BY <1>1, <1>2 DEF FirstRun
  <2>2. CASE ~Accepts(ring[p], clock')
    BY <1>4, <2>1, <2>2 DEF AddEntry
  <2>3. CASE Accepts(ring[p], clock')
    <3> DEFINE u == Append(s, x)
    <3>1. ring'[p] = addWithTime(ring[p], clock + 1, x) /\ taken'[p] = u
      BY <1>2, <1>4, <2>3 DEF AddEntry
    <3>2. clock + 1 \in Int
      BY <1>2
    <3>3. ring'[p].lastAdd = clock + 1
      <4> DEFINE r == ring[p]
                 t == clock + 1
      <4>1. r \in RingRec /\ t \in Int /\ x \in Sample
        BY <1>3, <1>5, <3>2
      <4> HIDE DEF r, t
      <4>2. addWithTime(r, t, x).lastAdd = t
        BY ONLY <4>1, AddIsRing, ZenonT(60)
      <4> QED
        BY <3>1, <4>2 DEF r, t
    <3>4. NotAfter(u, clock + 1)
      BY <1>6, <3>1
    <3>5. s \in Seq(Sample) /\ Len(s) \in Nat
      BY <1>5
    <3>6. Len(u) = Len(s) + 1 /\ u[Len(s) + 1] = x /\ \A k \in 1..Len(s) : u[k] = s[k]
      BY <3>5
    <3> HIDE DEF u, s
    <3>7. ASSUME NEW k \in 1..(Len(u) - 1), u[k].at > 0 PROVE u[k + 1].at - u[k].at >= Interval(p)
      <4>1. k \in 1..Len(s) /\ u[k] = s[k]
        BY <3>5, <3>6
      <4>2. CASE k = Len(s)
        <5>1. s[k].at <= ring[p].lastAdd /\ u[k + 1] = x /\ s[k] \in Sample
          BY <2>1, <3>5, <3>6, <3>7, <4>1, <4>2
        <5>2. s[k].at \in Int /\ ring[p].lastAdd \in Int /\ Interval(p) \in Int
          BY <1>5, <5>1, IntervalType DEF Sample, RingRec
        <5>3. (clock + 1) - ring[p].lastAdd >= Interval(p)
          BY <1>1, <1>2, <2>3 DEF Accepts, OwnInterval
        <5> QED
          BY <1>2, <1>3, <4>1, <5>1, <5>2, <5>3
      <4>3. CASE k # Len(s)
        <5>1. k \in 1..(Len(s) - 1) /\ k + 1 \in 1..Len(s)
          BY <3>5, <4>1, <4>3
        <5> QED
          BY <2>1, <3>6, <3>7, <4>1, <5>1
      <4> QED
        BY <4>2, <4>3
    <3> QED
      BY <3>1, <3>3, <3>4, <3>7 DEF NotAfter
  <2> QED
    BY <2>2, <2>3
<1>11. OwnInterval'
  BY <1>6 DEF OwnInterval
<1> QED
  BY <1>7, <1>8, <1>9, <1>10, <1>11 DEF MetricsInv

(* A complete save writes what the rings give back.                        *)
LEMMA SaveKeeps == MetricsInv /\ SaveEnd => MetricsInv'
<1> SUFFICES ASSUME MetricsInv, SaveEnd PROVE MetricsInv'
  OBVIOUS
<1> USE MetricsAssumption
<1> DEFINE P == DOMAIN Periods
<1>1. MetricsTypeOK /\ RingsHold /\ FileHolds /\ FirstRun /\ OwnInterval
  BY DEF MetricsInv
<1>2. /\ poller # "down" /\ poller' \in {"up", "ended"} /\ UNCHANGED <<ring, taken, clock, boots>>
      /\ clock \in Nat
      /\ file' = [p \in P |-> [entries |-> Get(ring[p]), interval |-> ring[p].interval]]
  BY <1>1 DEF SaveEnd, MetricsTypeOK
<1>3. ASSUME NEW p \in P
      PROVE  /\ Get(ring[p]) \in Seq(Sample) /\ Ascends(Get(ring[p])) /\ NotAfter(Get(ring[p]), clock)
             /\ ring[p].interval \in Int
  <2> DEFINE s == taken[p]
             m == Greatest(1, Len(s) - MaxEntries + 1)
  <2>1. ring[p] \in RingRec /\ s \in Seq(Sample) /\ Holds(ring[p], s) /\ Ascends(s) /\ NotAfter(s, clock)
    BY <1>1 DEF MetricsTypeOK, RingsHold
  <2>2. Get(ring[p]) = SubSeq(s, m, Len(s))
    BY <2>1, GetNewest
  <2>3. m \in Nat \ {0} /\ Len(s) \in 0..Len(s)
    BY <2>1 DEF Greatest
  <2>4. ring[p].interval \in Int
    BY <2>1 DEF RingRec
  <2> HIDE DEF m, s
  <2> QED
    BY <1>2, <2>1, <2>2, <2>3, <2>4, PartAscends
<1>4. MetricsTypeOK'
  BY <1>1, <1>2, <1>3 DEF MetricsTypeOK
<1>5. RingsHold'
  BY <1>1, <1>2 DEF RingsHold
<1>6. FileHolds'
  BY <1>2, <1>3 DEF FileHolds
<1>7. FirstRun'
  BY <1>1, <1>2 DEF FirstRun
<1>8. OwnInterval'
  BY <1>1, <1>2 DEF OwnInterval
<1> QED
  BY <1>4, <1>5, <1>6, <1>7, <1>8 DEF MetricsInv

(* Each step of the pollers keeps the invariant.                           *)
LEMMA NextMetricsInv == MetricsInv /\ [MetricsNext]_meVars => MetricsInv'
<1> SUFFICES ASSUME MetricsInv, [MetricsNext]_meVars PROVE MetricsInv'
  OBVIOUS
<1>1. MetricsTypeOK /\ RingsHold /\ FileHolds /\ FirstRun /\ OwnInterval
  BY DEF MetricsInv
<1>2. CASE LoadMetrics
  BY <1>2, LoadKeeps
<1>3. CASE \E health \in {"unknown", "healthy", "idle", "unhealthy"}, has \in BOOLEAN :
             has = (health # "unknown")
               /\ pollWithTimeout([at |-> clock + 1, status |-> health, has |-> has])
  BY <1>3, PollKeeps
<1>4. CASE PollFails
  <2>1. poller # "down" /\ clock \in Nat /\ clock' = clock + 1 /\ UNCHANGED <<ring, taken, file, poller, boots>>
    BY <1>1, <1>4 DEF PollFails, MetricsTypeOK
  <2>2. MetricsTypeOK'
    BY <1>1, <2>1 DEF MetricsTypeOK
  <2>3. RingsHold'
    BY <1>1, <2>1, ClockAdvances DEF RingsHold, MetricsTypeOK
  <2>4. FileHolds'
    BY <1>1, <2>1, FileKeepsHolding
  <2>5. FirstRun' /\ OwnInterval'
    BY <1>1, <2>1 DEF FirstRun, OwnInterval
  <2> QED
    BY <2>2, <2>3, <2>4, <2>5 DEF MetricsInv
<1>5. CASE SaveBegin
  <2>1. /\ poller # "down" /\ poller' \in {"saving", "ending"} /\ file' = Unreadable
        /\ UNCHANGED <<ring, taken, clock, boots>>
    BY <1>5 DEF SaveBegin
  <2>2. FileHolds'
    BY <2>1 DEF FileHolds, Readable, Unreadable
  <2>3. MetricsTypeOK' /\ RingsHold'
    BY <1>1, <2>1 DEF MetricsTypeOK, RingsHold
  <2>4. FirstRun' /\ OwnInterval'
    BY <1>1, <2>1 DEF FirstRun, OwnInterval
  <2> QED
    BY <2>2, <2>3, <2>4 DEF MetricsInv
<1>6. CASE SaveEnd
  BY <1>6, SaveKeeps
<1>7. CASE StopPoller
  <2>1. poller' = "down" /\ boots' = boots + 1 /\ UNCHANGED <<ring, taken, file, clock>> /\ boots \in Nat
    BY <1>1, <1>7 DEF StopPoller, MetricsTypeOK
  <2>2. MetricsTypeOK' /\ RingsHold' /\ FileHolds'
    BY <1>1, <2>1 DEF MetricsTypeOK, RingsHold, FileHolds, Readable
  <2>3. FirstRun' /\ OwnInterval'
    BY <2>1 DEF FirstRun, OwnInterval
  <2> QED
    BY <2>2, <2>3 DEF MetricsInv
<1>8. CASE UNCHANGED meVars
  BY <1>1, <1>8 DEF MetricsInv, meVars, MetricsTypeOK, RingsHold, FileHolds, Readable, FirstRun, OwnInterval
<1> QED
  BY <1>2, <1>3, <1>4, <1>5, <1>6, <1>7, <1>8 DEF MetricsNext

(* The invariant gives the property.                                       *)
LEMMA MetricsInvSound == MetricsInv => MetricsSound
<1> SUFFICES ASSUME MetricsInv PROVE MetricsSound
  OBVIOUS
<1> USE MetricsAssumption
<1>1. MetricsTypeOK /\ RingsHold /\ FileHolds /\ FirstRun /\ OwnInterval
  BY DEF MetricsInv
<1>2. ASSUME NEW p \in DOMAIN Periods
      PROVE  /\ Get(ring[p]) = SubSeq(taken[p], Greatest(1, Len(taken[p]) - MaxEntries + 1), Len(taken[p]))
             /\ Get(ring[p]) \in Seq(Sample) /\ Ascends(Get(ring[p]))
  <2> DEFINE s == taken[p]
             m == Greatest(1, Len(s) - MaxEntries + 1)
  <2>1. ring[p] \in RingRec /\ s \in Seq(Sample) /\ Holds(ring[p], s) /\ Ascends(s) /\ NotAfter(s, clock)
    BY <1>1 DEF MetricsTypeOK, RingsHold
  <2>2. Get(ring[p]) = SubSeq(s, m, Len(s))
    BY <2>1, GetNewest
  <2>3. m \in Nat \ {0} /\ Len(s) \in 0..Len(s) /\ clock \in Int
    BY <1>1, <2>1 DEF Greatest, MetricsTypeOK
  <2> HIDE DEF m
  <2>4. Get(ring[p]) \in Seq(Sample) /\ Ascends(Get(ring[p]))
    <3> HIDE DEF s
    <3> QED
      BY <2>1, <2>2, <2>3, PartAscends
  <2> QED
    BY <2>2, <2>4 DEF m
<1>3. NewestInOrder
  BY <1>2 DEF NewestInOrder
<1>4. IntervalsRight
  BY <1>1 DEF OwnInterval, FirstRun, IntervalsRight
<1>5. FileSound
  BY <1>1 DEF FileHolds, FileSound, Ascends
<1>6. AggregatesRight
  <2> SUFFICES ASSUME NEW p \in DOMAIN Periods
               PROVE  LET got == Get(ring[p])  info == CalculateInfo(got)  chart == Aggregate(got) IN
                      /\ \A k \in 1..(Len(chart) - 1) : chart[k].at < chart[k + 1].at
                      /\ info.up + info.down + info.idle = info.total
                      /\ \A limit, offset \in 0..(MaxEntries + 1) :
                           LET page == CalculateBeginEnd(Len(got), limit, offset) IN
                           page # <<>> => 0 <= page[1] /\ page[1] < page[2] /\ page[2] <= Len(got)
    BY DEF AggregatesRight
  <2> DEFINE got == Get(ring[p])
  <2>1. got \in Seq(Sample) /\ Ascends(got)
    BY <1>2
  <2> HIDE DEF got
  <2>2. \A k \in 1..(Len(Aggregate(got)) - 1) : Aggregate(got)[k].at < Aggregate(got)[k + 1].at
    BY <2>1, AggregateAscends DEF Ascends
  <2>3. LET info == CalculateInfo(got) IN info.up + info.down + info.idle = info.total
    BY <2>1, InfoAddsUp
  <2>4. ASSUME NEW limit \in 0..(MaxEntries + 1), NEW offset \in 0..(MaxEntries + 1)
        PROVE  LET page == CalculateBeginEnd(Len(got), limit, offset) IN
               page # <<>> => 0 <= page[1] /\ page[1] < page[2] /\ page[2] <= Len(got)
    <3>1. Len(got) \in Nat /\ limit \in Nat /\ offset \in Nat
      BY <2>1
    <3> QED
      BY <3>1 DEF CalculateBeginEnd
  <2> QED
    BY <2>2, <2>3, <2>4 DEF got
<1> QED
  BY <1>3, <1>4, <1>5, <1>6 DEF MetricsSound

(* For every set of periods, every size of a ring and however polls, saves *)
(* and crashes fall: a ring gives back the newest samples it took in       *)
(* order, also after a wrap around, a save and a load; a complete file     *)
(* holds samples in order; the first run keeps the interval; and the       *)
(* aggregations of the API are in order, add up and stay in bounds         *)
(* (Entries.Add, Get, UnmarshalJSON; Poller.save, load).                   *)
THEOREM MetricsAreSound == MetricsSpec => []MetricsSound
<1>1. MetricsSpec => []MetricsInv
  BY InitMetricsInv, NextMetricsInv, PTL DEF MetricsSpec
<1> QED
  BY <1>1, MetricsInvSound, PTL
=============================================================================
