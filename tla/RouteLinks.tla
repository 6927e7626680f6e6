----------------------------- MODULE RouteLinks -----------------------------
(***************************************************************************)
(* The life of routes against the registry: HTTP routes, file servers,     *)
(* streams and excluded routes of several providers enter the pool of      *)
(* their kind and leave it when their task ends; routes that share a link  *)
(* make a load balancer, which the first of them creates and puts into the *)
(* registry.  What runs when a task is cancelled (OnCancel) runs before    *)
(* what runs when it has finished (OnFinished); the routes start and end   *)
(* in goroutines of their own.                                             *)
(***************************************************************************)
EXTENDS Integers, FiniteSets

CONSTANTS RLRoutes,    \* routes
          KindOf,      \* "http", "lb", "file", "stream" or "excluded"
          KeyOf,       \* key in the pool; for "lb" the link
          Ruled,       \* routes with rules
          Dockered     \* routes of containers

NoRoute == "none"

(* A link is not the alias of a route that is not load balanced: joining   *)
(* one takes the balancer of the route it finds there.                     *)
ASSUME LinksAssumption ==
  /\ IsFiniteSet(RLRoutes) /\ NoRoute \notin RLRoutes
  /\ KindOf \in [RLRoutes -> {"http", "lb", "file", "stream", "excluded"}]
  /\ \A r, o \in RLRoutes : KindOf[r] = "lb" /\ KeyOf[o] = KeyOf[r] => KindOf[o] = "lb"

VARIABLES
  rlPc,        \* each route: "new", "begun", "linked", "up", "failed", "cancelled", "ended"
  rlPool,      \* key -> route that answers for it (the creator, for a link)
  rlShort,     \* keys known to the short link matcher
  rlBal,       \* the load balancer of each lb route: the number of its creation, or 0
  rlServers,   \* servers of each load balancer
  rlOwner,     \* creator of each load balancer
  rlHealth     \* routes whose health monitor was started and not stopped

rlVars == <<rlPc, rlPool, rlShort, rlBal, rlServers, rlOwner, rlHealth>>

RLKeys == {KeyOf[r] : r \in RLRoutes}
Balancers == 1..Cardinality({r \in RLRoutes : KindOf[r] = "lb"})

LinksInit ==
  /\ rlPc = [r \in RLRoutes |-> "new"]
  /\ rlPool = [k \in RLKeys |-> NoRoute]
  /\ rlShort = {} /\ rlHealth = {}
  /\ rlBal = [r \in RLRoutes |-> 0]
  /\ rlServers = [b \in Balancers |-> {}]
  /\ rlOwner = [b \in Balancers |-> NoRoute]

-----------------------------------------------------------------------------
(* PreferOver: rules first, then explicit routes over containers, then the *)
(* new one.                                                                *)
PreferOver(r, o) ==
  IF (r \in Ruled) # (o \in Ruled) THEN r \in Ruled
  ELSE IF (r \in Dockered) # (o \in Dockered) THEN r \notin Dockered
  ELSE TRUE

(* pool.Add: a key that is taken goes to the preferred of the two.         *)
PoolAdd(r) ==
  LET old == rlPool[KeyOf[r]] IN
  IF old # NoRoute /\ ~PreferOver(r, old) THEN rlPool
  ELSE [rlPool EXCEPT ![KeyOf[r]] = r]

(* pool.Del: by key, whoever has it.                                       *)
PoolDel(r) == [rlPool EXCEPT ![KeyOf[r]] = NoRoute]

StartFails(r) == rlPc' = [rlPc EXCEPT ![r] = "failed"] /\ UNCHANGED rlHealth

Begins(r) ==
  /\ rlPc' = [rlPc EXCEPT ![r] = "begun"]
  /\ rlHealth' = rlHealth \union {r}

(* Start of an HTTP route up to the registration: the task, then the waker *)
(* or the health monitor and the access log, any of which may fail.        *)
(* checkExists is given the route itself, which is neither an HTTPRoute    *)
(* nor a StreamRoute, and finds no duplicate.                              *)
StartRoute(r) ==
  /\ rlPc[r] = "new" /\ KindOf[r] \in {"http", "lb"}
  /\ StartFails(r) \/ Begins(r)
  /\ UNCHANGED <<rlPool, rlShort, rlBal, rlServers, rlOwner>>

(* The same of a file server: its patterns, its access log, its monitor.   *)
StartFileServer(r) ==
  /\ rlPc[r] = "new" /\ KindOf[r] = "file"
  /\ StartFails(r) \/ Begins(r)
  /\ UNCHANGED <<rlPool, rlShort, rlBal, rlServers, rlOwner>>

(* A stream fails for its addresses or its waker; a monitor that does not  *)
(* start is only logged.                                                   *)
StartStream(r) ==
  /\ rlPc[r] = "new" /\ KindOf[r] = "stream"
  /\ \/ StartFails(r)
     \/ Begins(r)
     \/ rlPc' = [rlPc EXCEPT ![r] = "begun"] /\ UNCHANGED rlHealth
  /\ UNCHANGED <<rlPool, rlShort, rlBal, rlServers, rlOwner>>

(* An excluded route is not started: it enters its pool, and only its      *)
(* health is watched.                                                      *)
StartExcluded(r) ==
  /\ rlPc[r] = "new" /\ KindOf[r] = "excluded"
  /\ rlPool' = PoolAdd(r)
  /\ rlPc' = [rlPc EXCEPT ![r] = "up"]
  /\ rlHealth' = rlHealth \union {r}
  /\ UNCHANGED <<rlShort, rlBal, rlServers, rlOwner>>

(* The last lines of Start for a route that is not load balanced: into the *)
(* pool, and for HTTP routes into the short link matcher.                  *)
Register(r) ==
  /\ rlPc[r] = "begun" /\ KindOf[r] # "lb"
  /\ rlPool' = PoolAdd(r)
  /\ rlShort' = IF KindOf[r] \in {"http", "file"} THEN rlShort \union {KeyOf[r]} ELSE rlShort
  /\ rlPc' = [rlPc EXCEPT ![r] = "up"]
  /\ UNCHANGED <<rlBal, rlServers, rlOwner, rlHealth>>

FreshBalancer == CHOOSE b \in Balancers : rlOwner[b] = NoRoute /\ \A c \in 1..b-1 : rlOwner[c] # NoRoute

(* addToLoadBalancer under lbLock: the balancer of the link, or a new one  *)
(* that becomes the link.                                                  *)
JoinLink(r) ==
  /\ rlPc[r] = "begun" /\ KindOf[r] = "lb"
  /\ LET linked == rlPool[KeyOf[r]] IN
     IF linked # NoRoute
       THEN /\ rlBal' = [rlBal EXCEPT ![r] = rlBal[linked]]
            /\ UNCHANGED <<rlPool, rlShort, rlOwner>>
       ELSE /\ rlBal' = [rlBal EXCEPT ![r] = FreshBalancer]
            /\ rlOwner' = [rlOwner EXCEPT ![FreshBalancer] = r]
            /\ rlPool' = [rlPool EXCEPT ![KeyOf[r]] = r]
            /\ rlShort' = rlShort \union {KeyOf[r]}
  /\ rlPc' = [rlPc EXCEPT ![r] = "linked"]
  /\ UNCHANGED <<rlServers, rlHealth>>

(* The rest of it, after the lock: the server of the route.                *)
AddToBalancer(r) ==
  /\ rlPc[r] = "linked"
  /\ rlServers' = [rlServers EXCEPT ![rlBal[r]] = @ \union {r}]
  /\ rlPc' = [rlPc EXCEPT ![r] = "up"]
  /\ UNCHANGED <<rlPool, rlShort, rlBal, rlOwner, rlHealth>>

-----------------------------------------------------------------------------
(* Mutant: a load balanced route is not removed.                           *)
CancelledMutant(r) ==
  CASE KindOf[r] = "lb" -> UNCHANGED <<rlServers, rlPool, rlShort>>
    [] KindOf[r] = "file" -> UNCHANGED <<rlPool, rlShort, rlServers>>
    [] OTHER -> /\ rlPool' = PoolDel(r)
                /\ rlShort' = rlShort \ {KeyOf[r]}
                /\ UNCHANGED rlServers

(* What the routes registered with OnCancel: a server leaves its balancer, *)
(* a route leaves its pool; a file server does so when it has finished.    *)
Cancelled(r) ==
  CASE KindOf[r] = "lb" -> /\ rlServers' = [rlServers EXCEPT ![rlBal[r]] = @ \ {r}]
                           /\ UNCHANGED <<rlPool, rlShort>>
    [] KindOf[r] = "file" -> UNCHANGED <<rlPool, rlShort, rlServers>>
    [] OTHER -> /\ rlPool' = PoolDel(r)
                /\ rlShort' = IF KindOf[r] = "http" THEN rlShort \ {KeyOf[r]} ELSE rlShort
                /\ UNCHANGED rlServers

CancelRoute(r) ==
  /\ rlPc[r] = "up"
  /\ Cancelled(r)
  /\ rlPc' = [rlPc EXCEPT ![r] = "cancelled"]
  /\ rlHealth' = rlHealth \ {r}
  /\ UNCHANGED <<rlBal, rlOwner>>

(* What they registered with OnFinished: the creator of a link takes the   *)
(* link with it, whoever else is behind it.                                *)
FinishRoute(r) ==
  /\ rlPc[r] = "cancelled"
  /\ IF KindOf[r] = "file" \/ (KindOf[r] = "lb" /\ rlOwner[rlBal[r]] = r)
       THEN rlPool' = PoolDel(r) /\ rlShort' = rlShort \ {KeyOf[r]}
       ELSE UNCHANGED <<rlPool, rlShort>>
  /\ rlPc' = [rlPc EXCEPT ![r] = "ended"]
  /\ UNCHANGED <<rlBal, rlServers, rlOwner, rlHealth>>

LinksNext ==
  \E r \in RLRoutes : \/ StartRoute(r) \/ StartFileServer(r) \/ StartStream(r) \/ StartExcluded(r)
                      \/ Register(r) \/ JoinLink(r) \/ AddToBalancer(r)
                      \/ CancelRoute(r) \/ FinishRoute(r)

LinksSpec == LinksInit /\ [][LinksNext]_rlVars

-----------------------------------------------------------------------------
Running(r) == rlPc[r] \in {"begun", "linked", "up", "cancelled"}
Shared(r)  == \E o \in RLRoutes \ {r} : KeyOf[o] = KeyOf[r]

(* Nothing of a route outlives it: pools and short links name only keys of *)
(* routes that have not finished, balancers send requests only to servers  *)
(* of routes that are up, and no monitor is left behind.                   *)
NothingOfTheDead ==
  /\ \A k \in RLKeys : rlPool[k] # NoRoute => Running(rlPool[k])
  /\ \A k \in rlShort : \E r \in RLRoutes : KeyOf[r] = k /\ Running(r)
  /\ \A b \in Balancers : \A r \in rlServers[b] : rlPc[r] = "up"
  /\ \A r \in rlHealth : Running(r)

(* A route that is up is found: under its key if no other route has that   *)
(* key, and a load balanced one behind the balancer its link names, unless *)
(* the route that created this balancer has finished.                      *)
UpIsFound ==
  \A r \in RLRoutes : rlPc[r] = "up" =>
    IF KindOf[r] = "lb"
      THEN /\ r \in rlServers[rlBal[r]]
           /\ LET owner == rlOwner[rlBal[r]] IN
              rlPc[owner] # "ended" => rlPool[KeyOf[r]] = owner
      ELSE ~Shared(r) => /\ rlPool[KeyOf[r]] = r
                         /\ KindOf[r] \in {"http", "file"} => KeyOf[r] \in rlShort

(* The registry follows the lives of the routes (Start, OnCancel and       *)
(* OnFinished of each kind, and addToLoadBalancer).                        *)
RegistryFollows == NothingOfTheDead /\ UpIsFound
=============================================================================
