---------------------------- MODULE LoadBalancer ----------------------------
(***************************************************************************)
(* internal/net/gphttp/loadbalancer: one LoadBalancer, the servers that    *)
(* routes add to it and remove from it, its weights, its three algorithms  *)
(* and the requests it serves.                                             *)
(*                                                                         *)
(* A server is an object of the program: the pool tells servers apart by   *)
(* Key (the host of the URL), the algorithms by identity.  Iteration over  *)
(* the pool has no defined order: where the order decides who gets one     *)
(* unit of weight more, the choice is nondeterministic.                    *)
(***************************************************************************)
EXTENDS Integers, Sequences, FiniteSets, FiniteSetsExt, SequencesExt, Functions

CONSTANTS
  Servers,     \* server objects
  KeyOf,       \* [Servers -> keys]
  Weight0,     \* [Servers -> Nat], the weight of the configuration
  Reqs,        \* concurrent requests
  HashOf,      \* [Reqs -> Nat], the hash of the client's address
  Modes,       \* modes the configurations of the routes ask for
  Sticky,      \* lb.Sticky
  MaxWeight,   \* maxWeight, 100 in the code
  None

ASSUME ConstantsAssumption ==
  /\ None \notin Servers
  /\ IsFiniteSet(Servers) /\ IsFiniteSet(Reqs)
  /\ Weight0 \in [Servers -> Nat]
  /\ HashOf \in [Reqs -> Nat]
  /\ Modes \subseteq {"unset", "round_robin", "least_conn", "ip_hash"}
  /\ Sticky \in BOOLEAN
  /\ MaxWeight \in Nat \ {0}

VARIABLES
  life,       \* per server: "new", "added" or "removed" by its route
  pool,       \* lb.pool
  weight,     \* srv.weight
  sumWeight,  \* lb.sumWeight
  mode,       \* lb.Mode
  ipPool,     \* ipHash.pool
  nConn,      \* leastConn.nConn: counters of the servers it knows
  panicked,   \* OnRemoveServer of ipHash panicked
  busy,       \* the callback of the algorithm that is due, under poolMu
  good,       \* srv.Status().Good()
  pc, target, \* per request: where it is, and the server it got
  srvs,       \* per request: the servers availServers gave it
  looked,     \* per request: the servers in service at that moment (history)
  cookie      \* per client: the key of its sticky server, or None

poolVars == <<life, pool, weight, sumWeight, mode>>
implVars == <<ipPool, nConn, panicked>>
reqVars  == <<pc, target, srvs, looked, cookie>>
vars == <<poolVars, implVars, busy, good, reqVars>>

NoCall == <<"none", None>>

PCs == {"idle", "looked", "chosen", "counted", "serving"}

TypeOK ==
  /\ life \in [Servers -> {"new", "added", "removed"}]
  /\ pool \subseteq Servers
  /\ weight \in [Servers -> Int] /\ sumWeight \in Int
  /\ mode \in {"unset", "round_robin", "least_conn", "ip_hash"}
  /\ ipPool \in Seq(Servers)
  /\ DOMAIN nConn \subseteq Servers /\ \A s \in DOMAIN nConn : nConn[s] \in Int
  /\ panicked \in BOOLEAN /\ good \subseteq Servers
  /\ busy = NoCall \/ busy \in {"add", "remove"} \X Servers
  /\ srvs \in [Reqs -> SUBSET Servers] /\ looked \in [Reqs -> SUBSET Servers]
  /\ pc \in [Reqs -> PCs] /\ target \in [Reqs -> Servers \cup {None}]
  /\ cookie \in [Reqs -> {None} \cup {KeyOf[s] : s \in Servers}]

-----------------------------------------------------------------------------
(* rebalance.                                                              *)

Total(w, P) == SumFunctionOnSet(w, P)

distributeEvenly(P, w) ==
  LET n == Cardinality(P) IN
  \E extra \in kSubset(MaxWeight % n, P) :
    /\ weight' = [s \in Servers |->
         IF s \in P THEN (MaxWeight \div n) + (IF s \in extra THEN 1 ELSE 0) ELSE w[s]]
    /\ sumWeight' = n * (MaxWeight \div n)

(* int(float64(weight) * scaleFactor): truncated towards zero, and the     *)
(* product of two rounded floats may fall just short of an exact integer.  *)
(* Weights and their sum may be negative: the last loop of scaleEvenly     *)
(* takes units from servers of weight 0 too.                               *)
scaled(v, sum) ==
  LET abs(x) == IF x >= 0 THEN x ELSE -x
      sign   == IF (v >= 0) = (sum >= 0) THEN 1 ELSE -1
      q      == abs(v * MaxWeight) \div abs(sum)
      exact  == abs(v * MaxWeight) % abs(sum) = 0 /\ v # 0
  IN {sign * n : n \in IF exact THEN {q, q - 1} ELSE {q}}

scaleEvenly(P, w, sum) ==
  \E f \in [P -> UNION {scaled(w[s], sum) : s \in P}] :
    /\ \A s \in P : f[s] \in scaled(w[s], sum)
    /\ LET delta == MaxWeight - Total(f, P)
           n     == IF delta >= 0 THEN delta ELSE -delta
           m     == IF n < Cardinality(P) THEN n ELSE Cardinality(P)
           unit  == IF delta >= 0 THEN 1 ELSE -1
       IN \E bump \in kSubset(m, P) :
            /\ weight' = [s \in Servers |->
                 IF s \notin P THEN w[s] ELSE f[s] + (IF s \in bump THEN unit ELSE 0)]
            /\ sumWeight' = Total(f, P) + unit * m

(* P: the pool, w and sum: weights and sumWeight when rebalance is called. *)
rebalance(P, w, sum) ==
  \/ /\ sum = MaxWeight \/ P = {}
     /\ weight' = w /\ sumWeight' = sum
  \/ /\ sum = 0 /\ P # {} /\ distributeEvenly(P, w)
  \/ /\ sum \notin {0, MaxWeight} /\ P # {} /\ scaleEvenly(P, w, sum)

-----------------------------------------------------------------------------
(* The algorithm's callbacks.                                              *)

Without(f, S) == [s \in DOMAIN f \ S |-> f[s]]
With(f, s)    == [t \in DOMAIN f \cup {s} |-> IF t = s THEN 0 ELSE f[t]]

(* slices.Delete(pool, i, 1) with the 0-based index i: it removes the      *)
(* elements from i up to 1, and panics when i is greater.                  *)
ipDelete(seq, s) ==
  LET I == {i \in 1..Len(seq) : seq[i] = s} IN
  CASE I = {} -> <<seq, FALSE>>
    [] I # {} /\ Min(I) = 1 -> <<Tail(seq), FALSE>>
    [] I # {} /\ Min(I) = 2 -> <<seq, FALSE>>
    [] OTHER -> <<seq, TRUE>>

OnAddServer(s) ==
  /\ nConn' = IF mode = "least_conn" THEN With(nConn, s) ELSE nConn
  /\ ipPool' = IF mode = "ip_hash" THEN Append(ipPool, s) ELSE ipPool
  /\ UNCHANGED panicked

OnRemoveServer(s) ==
  /\ nConn' = IF mode = "least_conn" THEN Without(nConn, {s}) ELSE nConn
  /\ IF mode = "ip_hash"
     THEN LET del == ipDelete(ipPool, s) IN
          ipPool' = del[1] /\ panicked' = (panicked \/ del[2])
     ELSE UNCHANGED <<ipPool, panicked>>

(* AddServer and RemoveServer hold poolMu, which requests do not take: a   *)
(* request may run between the change of the pool and the callback of the  *)
(* algorithm.  busy is the callback that is still to be made.              *)
(* A server of the same key is replaced; the algorithm is told of the old  *)
(* one first, and when it panics nothing else is done.                     *)
AddServer(s) ==
  LET old == {t \in pool : KeyOf[t] = KeyOf[s]}
      P   == (pool \ old) \cup {s}
  IN /\ busy = NoCall
     /\ life[s] = "new" /\ life' = [life EXCEPT ![s] = "added"]
     /\ IF mode = "ip_hash" /\ \E t \in old : ipDelete(ipPool, t)[2]
        THEN /\ panicked' = TRUE /\ sumWeight' = sumWeight - Total(weight, old)
             /\ UNCHANGED <<pool, weight, ipPool, nConn, busy>>
        ELSE /\ pool' = P
             /\ rebalance(P, weight, sumWeight - Total(weight, old) + weight[s])
             /\ IF old = {} THEN UNCHANGED implVars
                ELSE OnRemoveServer(CHOOSE t \in old : TRUE)
             /\ busy' = <<"add", s>>
     /\ UNCHANGED <<mode, good, reqVars>>

(* Mutant: the server stays in the pool.                                   *)
RemoveServerMutant(s) ==
  /\ busy = NoCall
  /\ life[s] = "added" /\ life' = [life EXCEPT ![s] = "removed"]
  /\ busy' = <<"remove", s>>
  /\ UNCHANGED <<pool, weight, sumWeight, mode, implVars, good, reqVars>>

(* The route of s ends.  The pool is searched by key: it may hold another  *)
(* server with the key of s, which is then the one deleted.                *)
RemoveServer(s) ==
  LET old == {t \in pool : KeyOf[t] = KeyOf[s]} IN
  /\ busy = NoCall
  /\ life[s] = "added" /\ life' = [life EXCEPT ![s] = "removed"]
  /\ IF old = {} THEN UNCHANGED <<pool, weight, sumWeight, busy>>
     ELSE /\ pool' = pool \ old
          /\ rebalance(pool \ old, weight, sumWeight - weight[s])
          /\ busy' = <<"remove", s>>
  /\ UNCHANGED <<mode, good, implVars, reqVars>>

Callback ==
  /\ busy # NoCall /\ busy' = NoCall
  /\ IF busy[1] = "add" THEN OnAddServer(busy[2]) ELSE OnRemoveServer(busy[2])
  /\ UNCHANGED <<poolVars, good, reqVars>>

(* A route with a configuration joins: an unset mode is taken over from it *)
(* and the algorithm is created anew for the servers of the pool.          *)
UpdateConfigIfNeeded(m) ==
  /\ busy = NoCall /\ mode = "unset" /\ m # "unset" /\ mode' = m
  /\ nConn' = IF m = "least_conn" THEN [s \in pool |-> 0] ELSE nConn
  /\ ipPool' \in IF m = "ip_hash" THEN SetToSeqs(pool) ELSE {ipPool}
  /\ UNCHANGED <<life, pool, weight, sumWeight, panicked, good, busy, reqVars>>

HealthChanges(s) ==
  /\ good' = IF s \in good THEN good \ {s} ELSE good \cup {s}
  /\ UNCHANGED <<poolVars, implVars, busy, reqVars>>

-----------------------------------------------------------------------------
(* Requests.                                                               *)

availServers == pool \cap good

(* ChooseServer of the algorithm, as the set of its possible answers.      *)
ChooseServer(q, S) ==
  CASE mode = "least_conn" ->
         {s \in S \cap DOMAIN nConn :
            \A t \in S \cap DOMAIN nConn : nConn[s] <= nConn[t]}
    [] mode = "ip_hash" ->
         IF ipPool = <<>> THEN {} ELSE {ipPool[(HashOf[q] % Len(ipPool)) + 1]}
    [] OTHER -> S

goto(q, l, s) ==
  /\ pc' = [pc EXCEPT ![q] = l] /\ target' = [target EXCEPT ![q] = s]
  /\ srvs' = [srvs EXCEPT ![q] = {}] /\ looked' = [looked EXCEPT ![q] = {}]

(* A request takes the list of available servers; without any the answer   *)
(* is 503 and the request leaves no trace.                                 *)
Lookup(q) ==
  /\ pc[q] = "idle" /\ availServers # {}
  /\ pc' = [pc EXCEPT ![q] = "looked"] /\ srvs' = [srvs EXCEPT ![q] = availServers]
  /\ looked' = [looked EXCEPT ![q] = {s \in good : life[s] = "added"}]
  /\ UNCHANGED <<poolVars, implVars, good, busy, target, cookie>>

stickyServers(q) == {s \in srvs[q] : KeyOf[s] = cookie[q]}

(* A request of an idlewatcher page, and with lb.Sticky every request: the *)
(* client keeps the server of its cookie when that is available; otherwise *)
(* one is chosen and its key is set as the cookie.  These requests are not *)
(* counted by least_conn.                                                  *)
ServeSticky(q) ==
  /\ pc[q] = "looked"
  /\ \/ \E s \in stickyServers(q) : goto(q, "serving", s) /\ UNCHANGED cookie
     \/ /\ stickyServers(q) = {}
        /\ \E s \in ChooseServer(q, srvs[q]) :
             goto(q, "serving", s) /\ cookie' = [cookie EXCEPT ![q] = KeyOf[s]]
  /\ UNCHANGED <<poolVars, implVars, good, busy>>

(* Other requests.  ipHash takes the server its own list gives for the     *)
(* client, and answers 503 when that server is not in good health.         *)
Serve(q) ==
  /\ pc[q] = "looked" /\ ~Sticky
  /\ \E s \in ChooseServer(q, srvs[q]) :
       goto(q, IF mode = "least_conn" THEN "chosen" ELSE "serving", s)
         /\ (mode = "ip_hash" => s \in good)
  /\ UNCHANGED <<poolVars, implVars, good, busy, cookie>>

(* The algorithm knows none of the servers, or ipHash gave a bad one: 503. *)
Unavailable(q) ==
  /\ pc[q] = "looked"
  /\ LET C == ChooseServer(q, srvs[q]) IN
     C = {} \/ (mode = "ip_hash" /\ ~Sticky /\ C \cap good = {})
  /\ goto(q, "idle", None)
  /\ UNCHANGED <<poolVars, implVars, good, busy, cookie>>

(* leastConn.ServeHTTP: the counter is looked up after the choice; the     *)
(* server may be gone by then.                                             *)
CountConn(q) ==
  /\ pc[q] = "chosen"
  /\ LET s == target[q] IN
     IF s \in DOMAIN nConn
     THEN goto(q, "counted", s) /\ nConn' = [nConn EXCEPT ![s] = @ + 1]
     ELSE goto(q, "idle", None) /\ UNCHANGED nConn
  /\ UNCHANGED <<poolVars, ipPool, panicked, good, busy, cookie>>

(* Mutant: the counter is not decremented.                                 *)
DoneMutant(q) ==
  /\ pc[q] \in {"counted", "serving"} /\ goto(q, "idle", None)
  /\ UNCHANGED <<poolVars, implVars, good, busy, cookie>>

Done(q) ==
  /\ pc[q] \in {"counted", "serving"} /\ goto(q, "idle", None)
  /\ nConn' = IF pc[q] = "counted" /\ target[q] \in DOMAIN nConn
              THEN [nConn EXCEPT ![target[q]] = @ - 1] ELSE nConn
  /\ UNCHANGED <<poolVars, ipPool, panicked, good, busy, cookie>>

-----------------------------------------------------------------------------
Init ==
  /\ life = [s \in Servers |-> "new"] /\ pool = {}
  /\ weight = Weight0 /\ sumWeight = 0
  /\ mode \in Modes /\ ipPool = <<>> /\ nConn = [s \in {} |-> 0]
  /\ panicked = FALSE /\ busy = NoCall /\ good = Servers
  /\ srvs = [q \in Reqs |-> {}] /\ looked = [q \in Reqs |-> {}]
  /\ pc = [q \in Reqs |-> "idle"] /\ target = [q \in Reqs |-> None]
  /\ cookie = [q \in Reqs |-> None]

Next ==
  \/ \E s \in Servers : AddServer(s) \/ RemoveServer(s) \/ HealthChanges(s)
  \/ Callback
  \/ \E m \in Modes : UpdateConfigIfNeeded(m)
  \/ \E q \in Reqs : \/ Lookup(q) \/ ServeSticky(q) \/ Serve(q)
                     \/ Unavailable(q) \/ CountConn(q) \/ Done(q)

Spec == Init /\ [][Next]_vars

-----------------------------------------------------------------------------
(* Properties.                                                             *)

(* least_conn compares true loads: the counter of a server is the number   *)
(* of requests it is serving, also when servers come and go meanwhile.     *)
CountsInFlight ==
  \A s \in DOMAIN nConn :
    nConn[s] = Cardinality({q \in Reqs : pc[q] = "counted" /\ target[q] = s})

(* The algorithm knows exactly the servers of the pool, once its callback  *)
(* was made.                                                               *)
ImplMirrorsPool ==
  busy = NoCall =>
    /\ mode = "least_conn" => DOMAIN nConn = pool
    /\ mode = "ip_hash" => Range(ipPool) = pool

Choosing(q) == pc[q] = "looked" /\ target'[q] # None

(* A request goes to a server that was in service and in good health when  *)
(* it came in, however servers come, go and change while it is routed: not *)
(* to one that was removed before.                                         *)
ServesAvailable ==
  [][\A q \in Reqs : Choosing(q) => target'[q] \in looked[q]]_vars

(* A server whose removal was completed before the request came in is not  *)
(* chosen.                                                                 *)
RemovedNotChosen ==
  [][\A q \in Reqs : (Choosing(q) /\ busy = NoCall) =>
        life[target'[q]] = "added" \/ target'[q] \in srvs[q]]_vars

(* A client with a sticky cookie stays with its server unless that was not *)
(* in service, or not in good health, when the request came in.            *)
StickyStays ==
  [][\A q \in Reqs : (cookie'[q] # cookie[q]) =>
        \A s \in looked[q] : KeyOf[s] # cookie[q]]_vars

(* The bookkeeping of the pool and of its algorithms.                      *)
BalancerSound == TypeOK /\ CountsInFlight /\ ImplMirrorsPool

(* The server that ServeHTTP picks.                                        *)
PicksRight == ServesAvailable /\ StickyStays
=============================================================================
