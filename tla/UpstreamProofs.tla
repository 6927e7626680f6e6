--------------------------- MODULE UpstreamProofs ---------------------------
(***************************************************************************)
(* Proofs about what is between a route and its upstreams: the balancer    *)
(* that picks a server (LoadBalancer), and the chain of middlewares that a *)
(* request goes through (Middleware).  They share no state.                *)
(***************************************************************************)
EXTENDS LoadBalancer, Middleware, DataInduction

(***************************************************************************)
(* LoadBalancer, for any servers, weights, requests and keys: the counters *)
(* of least_conn are exact whatever comes and goes, the algorithm mirrors  *)
(* the pool, and a request goes to a server that was in service when it    *)
(* came in.                                                                *)
(***************************************************************************)
(* What the counters rest on.  A server is added once: before its callback *)
(* nobody can have counted a request for it, and after its removal the     *)
(* counter never comes back.                                               *)
CountersKnown ==
  /\ nConn \in [DOMAIN nConn -> Int]
  /\ \A s \in DOMAIN nConn : life[s] # "new" /\ busy # <<"add", s>>
  /\ \A s \in pool : life[s] = "added"
  /\ busy # NoCall => life[busy[2]] # "new"
CountedKnown ==
  \A q \in Reqs : pc[q] = "counted" =>
    target[q] \in Servers /\ life[target[q]] # "new" /\ busy # <<"add", target[q]>>
OnlyLeastConnCounts ==
  mode # "least_conn" => DOMAIN nConn = {} /\ \A q \in Reqs : pc[q] # "counted"
CountInv == TypeOK /\ CountersKnown /\ CountedKnown /\ OnlyLeastConnCounts /\ CountsInFlight

(* The sum of the weights of some servers is an integer.                   *)
LEMMA TotalInt ==
  ASSUME NEW P \in SUBSET Servers, NEW w, \A s \in P : w[s] \in Int
  PROVE  Total(w, P) \in Int
<1>1. IsFiniteSet(P)
  BY FS_Subset, ConstantsAssumption
<1> QED
  BY <1>1, SumIsInt DEF Total

(* A scaled weight is an integer.                                          *)
LEMMA ScaledInt ==
  ASSUME NEW v \in Int, NEW sum \in Int \ {0}, NEW x \in scaled(v, sum)
  PROVE  x \in Int
<1> DEFINE abs(y) == IF y >= 0 THEN y ELSE -y
           sign   == IF (v >= 0) = (sum >= 0) THEN 1 ELSE -1
           q      == abs(v * MaxWeight) \div abs(sum)
<1>1. v * MaxWeight \in Int
  BY ConstantsAssumption
<1>2. abs(v * MaxWeight) \in Nat /\ abs(sum) \in Nat \ {0}
  BY <1>1
<1>3. q \in Int /\ q - 1 \in Int
  BY <1>2
<1>4. x = sign * q \/ x = sign * (q - 1)
  BY DEF scaled
<1> HIDE DEF q
<1> QED
  BY <1>3, <1>4

(* rebalance leaves integers.                                              *)
LEMMA RebalanceInt ==
  ASSUME NEW P \in SUBSET Servers, NEW w \in [Servers -> Int], NEW sum \in Int,
         rebalance(P, w, sum)
  PROVE  weight' \in [Servers -> Int] /\ sumWeight' \in Int
<1>1. CASE weight' = w /\ sumWeight' = sum
  BY <1>1
<1>2. CASE P # {} /\ distributeEvenly(P, w)
  <2>1. Cardinality(P) \in Nat \ {0}
    BY <1>2, FS_Subset, FS_EmptySet, FS_CardinalityType, ConstantsAssumption
  <2>2. MaxWeight \div Cardinality(P) \in Int
    BY <2>1, ConstantsAssumption
  <2>3. Cardinality(P) * (MaxWeight \div Cardinality(P)) \in Int
    BY <2>1, <2>2
  <2> QED
    BY <1>2, <2>2, <2>3 DEF distributeEvenly
<1>3. CASE sum \notin {0, MaxWeight} /\ P # {} /\ scaleEvenly(P, w, sum)
  <2>1. PICK f \in [P -> UNION {scaled(w[s], sum) : s \in P}] :
          /\ \A s \in P : f[s] \in scaled(w[s], sum)
          /\ LET delta == MaxWeight - Total(f, P)
                 n     == IF delta >= 0 THEN delta ELSE -delta
                 m     == IF n < Cardinality(P) THEN n ELSE Cardinality(P)
                 unit  == IF delta >= 0 THEN 1 ELSE -1
             IN \E bump \in kSubset(m, P) :
                  /\ weight' = [s \in Servers |->
                       IF s \notin P THEN w[s] ELSE f[s] + (IF s \in bump THEN unit ELSE 0)]
                  /\ sumWeight' = Total(f, P) + unit * m
    BY <1>3 DEF scaleEvenly
  <2>2. ASSUME NEW s \in P PROVE f[s] \in Int
    <3>1. w[s] \in Int /\ sum \in Int \ {0}
      BY <1>3
    <3>2. f[s] \in scaled(w[s], sum)
      BY <2>1
    <3> QED
      BY <3>1, <3>2, ScaledInt
  <2>3. Total(f, P) \in Int
    BY <2>2, TotalInt
  <2>4. Cardinality(P) \in Nat
    BY FS_Subset, FS_CardinalityType, ConstantsAssumption
  <2> DEFINE delta == MaxWeight - Total(f, P)
             n     == IF delta >= 0 THEN delta ELSE -delta
             m     == IF n < Cardinality(P) THEN n ELSE Cardinality(P)
             unit  == IF delta >= 0 THEN 1 ELSE -1
  <2>5. delta \in Int
    BY <2>3, ConstantsAssumption
  <2>6. m \in Int /\ unit \in {1, -1}
    BY <2>4, <2>5
  <2>7. unit * m \in Int
    BY <2>6
  <2>8. sumWeight' \in Int
    BY <2>1, <2>3, <2>7
  <2>9. weight' \in [Servers -> Int]
    <3>1. PICK bump : weight' = [s \in Servers |->
            IF s \notin P THEN w[s] ELSE f[s] + (IF s \in bump THEN unit ELSE 0)]
      BY <2>1
    <3> HIDE DEF unit
    <3>2. ASSUME NEW s \in Servers PROVE weight'[s] \in Int
      BY <2>2, <2>6, <3>1
    <3> QED
      BY <3>1, <3>2
  <2> QED
    BY <2>8, <2>9
<1> QED
  BY <1>1, <1>2, <1>3 DEF rebalance

(* A balancer starts empty.                                                *)
LEMMA BalancerInit == Init => CountInv
<1> SUFFICES ASSUME Init PROVE CountInv
  OBVIOUS
<1> USE ConstantsAssumption DEF Init
<1>1. TypeOK
  <2>1. ipPool \in Seq(Servers) /\ panicked \in BOOLEAN /\ good \subseteq Servers
    <3>1. <<>> \in Seq(Servers)
      BY ONLY TRUE
    <3> QED
      BY <3>1
  <2>2. pc \in [Reqs -> PCs] /\ target \in [Reqs -> Servers \cup {None}]
    BY DEF PCs
  <2>3. weight \in [Servers -> Int] /\ sumWeight \in Int
    OBVIOUS
  <2>4. mode \in {"unset", "round_robin", "least_conn", "ip_hash"}
    OBVIOUS
  <2>5. DOMAIN nConn \subseteq Servers /\ \A s \in DOMAIN nConn : nConn[s] \in Int
    OBVIOUS
  <2> QED
    BY <2>1, <2>2, <2>3, <2>4, <2>5 DEF TypeOK
<1>2. DOMAIN nConn = {} /\ \A q \in Reqs : pc[q] = "idle"
  OBVIOUS
<1> QED
  BY <1>1, <1>2 DEF CountInv, CountersKnown, CountedKnown, OnlyLeastConnCounts,
     CountsInFlight

(* What the algorithm's callback for a removed server leaves.              *)
LEMMA OnRemoveServerKeeps ==
  ASSUME CountInv, NEW s \in Servers, OnRemoveServer(s)
  PROVE  /\ ipPool' \in Seq(Servers) /\ panicked' \in BOOLEAN
         /\ DOMAIN nConn' \subseteq DOMAIN nConn
         /\ nConn' \in [DOMAIN nConn' -> Int]
         /\ \A t \in DOMAIN nConn' : nConn'[t] = nConn[t]
<1> USE DEF CountInv, TypeOK, CountersKnown
<1>1. ipPool' \in Seq(Servers) /\ panicked' \in BOOLEAN
  <2>1. CASE mode # "ip_hash"
    BY <2>1 DEF OnRemoveServer
  <2>2. CASE mode = "ip_hash"
    <3> DEFINE I   == {i \in 1..Len(ipPool) : ipPool[i] = s}
               del == ipDelete(ipPool, s)
    <3>1. \/ del = <<ipPool, FALSE>> \/ del = <<ipPool, TRUE>>
          \/ I # {} /\ del = <<Tail(ipPool), FALSE>>
      <4>1. del = CASE I = {} -> <<ipPool, FALSE>>
                    [] I # {} /\ Min(I) = 1 -> <<Tail(ipPool), FALSE>>
                    [] I # {} /\ Min(I) = 2 -> <<ipPool, FALSE>>
                    [] OTHER -> <<ipPool, TRUE>>
        BY DEF ipDelete
      <4> DEFINE least == Min(I)
      <4> HIDE DEF I, del, least
      <4>2. del = CASE I = {} -> <<ipPool, FALSE>>
                    [] I # {} /\ least = 1 -> <<Tail(ipPool), FALSE>>
                    [] I # {} /\ least = 2 -> <<ipPool, FALSE>>
                    [] OTHER -> <<ipPool, TRUE>>
        BY <4>1 DEF least
      <4>3. least = 1 => least # 2
        OBVIOUS
      <4> QED
        BY <4>2, <4>3
    <3>2. I # {} => ipPool # <<>>
      OBVIOUS
    <3>3. I # {} => Tail(ipPool) \in Seq(Servers)
      BY <3>2
    <3>4. ipPool' = del[1] /\ panicked' = (panicked \/ del[2])
      BY <2>2 DEF OnRemoveServer
    <3> HIDE DEF del, I
    <3>5. del[1] \in Seq(Servers) /\ del[2] \in BOOLEAN
      <4>1. CASE del = <<ipPool, FALSE>>
        BY <4>1
      <4>2. CASE del = <<ipPool, TRUE>>
        BY <4>2
      <4>3. CASE I # {} /\ del = <<Tail(ipPool), FALSE>>
        BY <3>3, <4>3
      <4> QED
        BY <3>1, <4>1, <4>2, <4>3
    <3> QED
      BY <3>4, <3>5
  <2> QED
    BY <2>1, <2>2
<1>2. \/ nConn' = nConn
      \/ nConn' = [t \in DOMAIN nConn \ {s} |-> nConn[t]]
  BY DEF OnRemoveServer, Without
<1> QED
  BY <1>1, <1>2

(* Requests do not move while servers come and go: the counters that stay  *)
(* are still exact.                                                        *)
LEMMA CountsKept ==
  ASSUME CountInv, UNCHANGED <<pc, target>>,
         \A s \in DOMAIN nConn' : s \in DOMAIN nConn /\ nConn'[s] = nConn[s]
  PROVE  CountsInFlight'
BY DEF CountInv, CountsInFlight

(* AddServer: the server is new, so that nobody knows it yet.              *)
LEMMA AddServerStep ==
  ASSUME CountInv, NEW s \in Servers, AddServer(s)
  PROVE  CountInv'
<1> DEFINE old == {t \in pool : KeyOf[t] = KeyOf[s]}
           P   == (pool \ old) \cup {s}
<1> USE DEF CountInv
<1>0. old \in SUBSET Servers /\ P \in SUBSET Servers /\ weight[s] \in Int
  BY DEF TypeOK
<1>1. Total(weight, old) \in Int
  BY <1>0, TotalInt DEF TypeOK
<1>2. /\ busy = NoCall /\ life[s] = "new" /\ life' = [life EXCEPT ![s] = "added"]
      /\ UNCHANGED <<mode, good, pc, target, srvs, looked, cookie>>
  BY DEF AddServer, reqVars
<1>3. \/ /\ panicked' = TRUE /\ sumWeight' = sumWeight - Total(weight, old)
         /\ UNCHANGED <<pool, weight, ipPool, nConn, busy>>
      \/ /\ pool' = P
         /\ rebalance(P, weight, sumWeight - Total(weight, old) + weight[s])
         /\ old = {} => UNCHANGED <<ipPool, nConn, panicked>>
         /\ old # {} => OnRemoveServer(CHOOSE t \in old : TRUE)
         /\ busy' = <<"add", s>>
  BY DEF AddServer, implVars
<1>4. old # {} => (CHOOSE t \in old : TRUE) \in Servers
  BY <1>0
<1>5. /\ pool' \subseteq Servers /\ weight' \in [Servers -> Int] /\ sumWeight' \in Int
      /\ busy' = NoCall \/ busy' \in {"add", "remove"} \X Servers
  <2>1. sumWeight - Total(weight, old) + weight[s] \in Int
    BY <1>0, <1>1 DEF TypeOK
  <2>2. CASE sumWeight' = sumWeight - Total(weight, old) /\ UNCHANGED <<pool, weight, busy>>
    BY <1>1, <2>2 DEF TypeOK
  <2>3. CASE /\ pool' = P /\ busy' = <<"add", s>>
             /\ rebalance(P, weight, sumWeight - Total(weight, old) + weight[s])
    <3>1. weight \in [Servers -> Int]
      BY DEF TypeOK
    <3>2. weight' \in [Servers -> Int] /\ sumWeight' \in Int
      BY <1>0, <2>1, <2>3, <3>1, RebalanceInt
    <3> QED
      BY <1>0, <2>3, <3>2
  <2> QED
    BY <1>3, <2>2, <2>3
<1>6. /\ ipPool' \in Seq(Servers) /\ panicked' \in BOOLEAN
      /\ nConn' \in [DOMAIN nConn' -> Int]
      /\ DOMAIN nConn' \subseteq DOMAIN nConn
      /\ \A t \in DOMAIN nConn' : nConn'[t] = nConn[t]
  <2>1. CASE UNCHANGED <<ipPool, nConn>> /\ panicked' \in BOOLEAN
    BY <2>1 DEF TypeOK, CountersKnown
  <2>2. CASE old # {} /\ OnRemoveServer(CHOOSE t \in old : TRUE)
    BY <1>4, <2>2, OnRemoveServerKeeps
  <2> QED
    BY <1>3, <2>1, <2>2 DEF TypeOK
<1>7. TypeOK'
  BY <1>2, <1>5, <1>6 DEF TypeOK
<1>8. busy' = busy \/ busy' = <<"add", s>>
  BY <1>3
<1>9. CountersKnown'
  <2>1. ASSUME NEW t \in DOMAIN nConn' PROVE life'[t] # "new" /\ busy' # <<"add", t>>
    BY <1>2, <1>6, <1>8 DEF CountersKnown, TypeOK
  <2>2. ASSUME NEW t \in pool' PROVE life'[t] = "added"
    BY <1>2, <1>3 DEF CountersKnown, TypeOK
  <2>3. busy' # NoCall => life'[busy'[2]] # "new"
    BY <1>2, <1>8 DEF TypeOK
  <2> QED
    BY <1>6, <2>1, <2>2, <2>3 DEF CountersKnown, NoCall
<1>10. CountedKnown'
  BY <1>2, <1>8 DEF CountedKnown, TypeOK
<1>11. OnlyLeastConnCounts'
  BY <1>2, <1>6 DEF OnlyLeastConnCounts
<1>12. CountsInFlight'
  BY <1>2, <1>6, CountsKept
<1> QED
  BY <1>7, <1>9, <1>10, <1>11, <1>12

(* RemoveServer changes the pool; the counters wait for the callback.      *)
LEMMA RemoveServerStep ==
  ASSUME CountInv, NEW s \in Servers, RemoveServer(s)
  PROVE  CountInv'
<1> DEFINE old == {t \in pool : KeyOf[t] = KeyOf[s]}
<1> USE DEF CountInv
<1>1. /\ busy = NoCall /\ life[s] = "added" /\ life' = [life EXCEPT ![s] = "removed"]
      /\ UNCHANGED <<mode, good, ipPool, nConn, panicked, pc, target, srvs, looked, cookie>>
  BY DEF RemoveServer, implVars, reqVars
<1>2. \/ old = {} /\ UNCHANGED <<pool, weight, sumWeight, busy>>
      \/ /\ pool' = pool \ old /\ rebalance(pool \ old, weight, sumWeight - weight[s])
         /\ busy' = <<"remove", s>>
  BY DEF RemoveServer
<1>3. pool \ old \in SUBSET Servers /\ sumWeight - weight[s] \in Int
  BY DEF TypeOK
<1>4. /\ pool' \subseteq Servers /\ weight' \in [Servers -> Int] /\ sumWeight' \in Int
      /\ busy' = NoCall \/ busy' \in {"add", "remove"} \X Servers
  <2>1. CASE UNCHANGED <<pool, weight, sumWeight, busy>>
    BY <2>1 DEF TypeOK
  <2>2. CASE /\ pool' = pool \ old /\ busy' = <<"remove", s>>
             /\ rebalance(pool \ old, weight, sumWeight - weight[s])
    <3>1. weight \in [Servers -> Int]
      BY DEF TypeOK
    <3>2. weight' \in [Servers -> Int] /\ sumWeight' \in Int
      BY <1>3, <2>2, <3>1, RebalanceInt
    <3> QED
      BY <1>3, <2>2, <3>2
  <2> QED
    BY <1>2, <2>1, <2>2
<1>5. TypeOK'
  BY <1>1, <1>4 DEF TypeOK
<1>6. busy' = busy \/ busy' = <<"remove", s>>
  BY <1>2
<1>7. CountersKnown'
  <2>1. ASSUME NEW t \in DOMAIN nConn PROVE life'[t] # "new" /\ busy' # <<"add", t>>
    BY <1>1, <1>6 DEF CountersKnown, TypeOK
  <2>2. ASSUME NEW t \in pool' PROVE life'[t] = "added"
    BY <1>1, <1>2 DEF CountersKnown, TypeOK
  <2>3. busy' # NoCall => life'[busy'[2]] # "new"
    BY <1>1, <1>6 DEF TypeOK
  <2> QED
    BY <1>1, <2>1, <2>2, <2>3 DEF CountersKnown, NoCall
<1>8. CountedKnown'
  BY <1>1, <1>6 DEF CountedKnown, TypeOK
<1>9. OnlyLeastConnCounts'
  BY <1>1 DEF OnlyLeastConnCounts
<1>10. CountsInFlight'
  BY <1>1, CountsKept
<1> QED
  BY <1>5, <1>7, <1>8, <1>9, <1>10

(* The callback: a counter starts at 0 for a server nobody could choose    *)
(* before, or goes away.                                                   *)
LEMMA CallbackStep ==
  ASSUME CountInv, Callback
  PROVE  CountInv'
<1> USE DEF CountInv
<1>1. /\ busy # NoCall /\ busy' = NoCall
      /\ UNCHANGED <<life, pool, weight, sumWeight, mode, good, pc, target, srvs, looked, cookie>>
  BY DEF Callback, poolVars, reqVars
<1>2. busy \in {"add", "remove"} \X Servers
  BY <1>1 DEF TypeOK
<1>3. PICK s \in Servers : busy = <<"add", s>> \/ busy = <<"remove", s>>
  BY <1>2
<1>4. life[s] # "new"
  BY <1>1, <1>3 DEF CountersKnown
<1>5. \A t : busy' # <<"add", t>>
  BY <1>1 DEF NoCall
<1>6. CASE busy = <<"remove", s>>
  <2>1. OnRemoveServer(s)
    BY <1>6 DEF Callback
  <2>2. /\ ipPool' \in Seq(Servers) /\ panicked' \in BOOLEAN
        /\ DOMAIN nConn' \subseteq DOMAIN nConn
        /\ nConn' \in [DOMAIN nConn' -> Int]
        /\ \A t \in DOMAIN nConn' : nConn'[t] = nConn[t]
    BY <2>1, OnRemoveServerKeeps
  <2>3. TypeOK'
    BY <1>1, <2>2 DEF TypeOK
  <2>4. CountersKnown'
    BY <1>1, <1>5, <2>2 DEF CountersKnown
  <2>5. CountedKnown' /\ OnlyLeastConnCounts'
    BY <1>1, <1>5, <2>2 DEF CountedKnown, OnlyLeastConnCounts
  <2>6. CountsInFlight'
    BY <1>1, <2>2, CountsKept
  <2> QED
    BY <2>3, <2>4, <2>5, <2>6
<1>7. CASE busy = <<"add", s>>
  <2>1. OnAddServer(s)
    BY <1>7 DEF Callback
  <2>2. /\ mode = "least_conn" =>
             nConn' = [t \in DOMAIN nConn \cup {s} |-> IF t = s THEN 0 ELSE nConn[t]]
        /\ mode # "least_conn" => nConn' = nConn
        /\ ipPool' \in Seq(Servers) /\ panicked' = panicked
    BY <2>1 DEF OnAddServer, With, TypeOK
  <2>3. /\ nConn' \in [DOMAIN nConn' -> Int] /\ DOMAIN nConn' \subseteq DOMAIN nConn \cup {s}
        /\ \A t \in DOMAIN nConn' : t # s => t \in DOMAIN nConn /\ nConn'[t] = nConn[t]
        /\ mode = "least_conn" => nConn'[s] = 0
    BY <2>2 DEF CountersKnown
  <2>4. TypeOK'
    BY <1>1, <2>2, <2>3 DEF TypeOK
  <2>5. CountersKnown'
    <3>1. ASSUME NEW t \in DOMAIN nConn' PROVE life'[t] # "new"
      BY <1>1, <1>4, <2>3 DEF CountersKnown
    <3> QED
      BY <1>1, <1>5, <2>3, <3>1 DEF CountersKnown
  <2>6. CountedKnown'
    BY <1>1, <1>5 DEF CountedKnown
  <2>7. OnlyLeastConnCounts'
    BY <1>1, <2>2 DEF OnlyLeastConnCounts
  <2>8. CountsInFlight'
    <3> SUFFICES ASSUME NEW t \in DOMAIN nConn'
                 PROVE  nConn'[t] =
                        Cardinality({q \in Reqs : pc[q] = "counted" /\ target[q] = t})
      BY <1>1 DEF CountsInFlight
    <3>1. CASE t # s
      BY <2>3, <3>1 DEF CountsInFlight
    <3>2. CASE t = s
      <4>1. {q \in Reqs : pc[q] = "counted" /\ target[q] = t} = {}
        BY <1>7, <3>2 DEF CountedKnown
      <4>2. s \notin DOMAIN nConn
        BY <1>7 DEF CountersKnown
      <4>3. mode = "least_conn"
        BY <2>2, <3>2, <4>2
      <4>4. nConn'[t] = 0
        BY <2>3, <3>2, <4>3
      <4> QED
        BY <4>1, <4>4, FS_EmptySet
    <3> QED
      BY <3>1, <3>2
  <2> QED
    BY <2>4, <2>5, <2>6, <2>7, <2>8
<1> QED
  BY <1>3, <1>6, <1>7

(* A mode is taken over once, before any request has been counted.         *)
LEMMA UpdateConfigStep ==
  ASSUME CountInv, NEW m \in Modes, UpdateConfigIfNeeded(m)
  PROVE  CountInv'
<1> USE DEF CountInv
<1>1. /\ busy = NoCall /\ mode = "unset" /\ m # "unset" /\ mode' = m
      /\ UNCHANGED <<life, pool, weight, sumWeight, panicked, good, busy,
                     pc, target, srvs, looked, cookie>>
  BY DEF UpdateConfigIfNeeded, reqVars
<1>2. m \in {"unset", "round_robin", "least_conn", "ip_hash"}
  BY ConstantsAssumption
<1>3. DOMAIN nConn = {} /\ \A q \in Reqs : pc[q] # "counted"
  BY <1>1 DEF OnlyLeastConnCounts
<1>4. ipPool' \in Seq(Servers)
  <2>1. CASE m = "ip_hash"
    <3>1. ipPool' \in SetToSeqs(pool)
      BY <2>1 DEF UpdateConfigIfNeeded
    <3>2. ipPool' \in [1..Cardinality(pool) -> pool]
      BY <3>1 DEF SetToSeqs
    <3>3. Cardinality(pool) \in Nat /\ pool \subseteq Servers
      BY FS_Subset, FS_CardinalityType, ConstantsAssumption DEF TypeOK
    <3> QED
      BY <3>2, <3>3
  <2>2. CASE m # "ip_hash"
    BY <2>2 DEF UpdateConfigIfNeeded, TypeOK
  <2> QED
    BY <2>1, <2>2
<1>5. /\ m = "least_conn" => nConn' = [s \in pool |-> 0]
      /\ m # "least_conn" => nConn' = nConn
  BY DEF UpdateConfigIfNeeded
<1>6. /\ nConn' \in [DOMAIN nConn' -> Int] /\ DOMAIN nConn' \subseteq pool
      /\ \A s \in DOMAIN nConn' : nConn'[s] = 0
  <2>1. CASE m = "least_conn"
    BY <1>5, <2>1
  <2>2. CASE m # "least_conn"
    <3>1. nConn' = nConn /\ nConn \in [DOMAIN nConn -> Int]
      BY <1>5, <2>2 DEF CountersKnown
    <3> QED
      BY <1>3, <3>1
  <2> QED
    BY <2>1, <2>2
<1>7. TypeOK'
  BY <1>1, <1>2, <1>4, <1>6 DEF TypeOK
<1>8. CountersKnown'
  BY <1>1, <1>6 DEF CountersKnown, NoCall
<1>9. CountedKnown' /\ OnlyLeastConnCounts'
  BY <1>1, <1>3, <1>5 DEF CountedKnown, OnlyLeastConnCounts
<1>10. CountsInFlight'
  <2>1. ASSUME NEW s PROVE {q \in Reqs : pc[q] = "counted" /\ target[q] = s} = {}
    BY <1>3
  <2> QED
    BY <1>1, <1>6, <2>1, FS_EmptySet DEF CountsInFlight
<1> QED
  BY <1>7, <1>8, <1>9, <1>10

(* The steps of requests that no counter follows: the set of the requests  *)
(* counted for a server is the same before and after.                      *)
LEMMA QuietStep ==
  ASSUME CountInv, TypeOK', UNCHANGED <<poolVars, implVars, busy>>,
         \A r \in Reqs : (pc'[r] = "counted") = (pc[r] = "counted"),
         \A r \in Reqs : pc[r] = "counted" => target'[r] = target[r]
  PROVE  CountInv'
<1> USE DEF CountInv, poolVars, implVars
<1>1. CountersKnown' /\ CountedKnown' /\ OnlyLeastConnCounts'
  BY DEF CountersKnown, CountedKnown, OnlyLeastConnCounts
<1>2. ASSUME NEW s
      PROVE  {r \in Reqs : pc'[r] = "counted" /\ target'[r] = s}
               = {r \in Reqs : pc[r] = "counted" /\ target[r] = s}
  OBVIOUS
<1>3. CountsInFlight'
  BY <1>2 DEF CountsInFlight
<1> QED
  BY <1>1, <1>3

(* goto keeps the types.                                                   *)
LEMMA GotoTypes ==
  ASSUME TypeOK, NEW q \in Reqs, NEW l \in PCs, NEW s \in Servers \cup {None}, goto(q, l, s)
  PROVE  /\ srvs' \in [Reqs -> SUBSET Servers] /\ looked' \in [Reqs -> SUBSET Servers]
         /\ pc' \in [Reqs -> PCs] /\ target' \in [Reqs -> Servers \cup {None}]
         /\ pc'[q] = l /\ target'[q] = s /\ srvs'[q] = {} /\ looked'[q] = {}
         /\ \A r \in Reqs : r # q => /\ pc'[r] = pc[r] /\ target'[r] = target[r]
                                     /\ srvs'[r] = srvs[r] /\ looked'[r] = looked[r]
BY DEF TypeOK, goto

(* The algorithm answers with servers.                                     *)
LEMMA ChooseServerType ==
  ASSUME TypeOK, NEW q \in Reqs, NEW S \in SUBSET Servers
  PROVE  /\ ChooseServer(q, S) \subseteq Servers
         /\ mode # "ip_hash" => ChooseServer(q, S) \subseteq S
<1>1. CASE mode = "least_conn"
  BY <1>1 DEF ChooseServer
<1>2. CASE mode = "ip_hash"
  <2>1. CASE ipPool = <<>>
    BY <1>2, <2>1 DEF ChooseServer
  <2>2. CASE ipPool # <<>>
    <3>1. ipPool \in Seq(Servers) /\ Len(ipPool) \in Nat \ {0}
      BY <2>2 DEF TypeOK
    <3>2. HashOf[q] \in Nat
      BY ConstantsAssumption
    <3>3. (HashOf[q] % Len(ipPool)) + 1 \in 1..Len(ipPool)
      BY <3>1, <3>2
    <3> DEFINE i == (HashOf[q] % Len(ipPool)) + 1
    <3>4. ChooseServer(q, S) = {ipPool[i]}
      BY <1>2, <2>2 DEF ChooseServer
    <3> HIDE DEF i
    <3>5. ipPool[i] \in Servers
      BY <3>1, <3>3 DEF i
    <3> QED
      BY <1>2, <3>4, <3>5
  <2> QED
    BY <2>1, <2>2
<1>3. CASE mode \notin {"least_conn", "ip_hash"}
  BY <1>3 DEF ChooseServer
<1> QED
  BY <1>1, <1>2, <1>3

(* Lookup, and the choice of a server, are not counted.                    *)
LEMMA LookupStep ==
  ASSUME CountInv, NEW q \in Reqs, Lookup(q)
  PROVE  CountInv'
<1>1. TypeOK'
  BY DEF CountInv, TypeOK, Lookup, PCs, poolVars, implVars, availServers
<1>2. UNCHANGED <<poolVars, implVars, busy>>
  BY DEF Lookup
<1>3. \A r \in Reqs : /\ (pc'[r] = "counted") = (pc[r] = "counted")
                      /\ target'[r] = target[r]
  BY DEF Lookup, CountInv, TypeOK
<1> QED
  BY <1>1, <1>2, <1>3, QuietStep

(* A request that goes from "looked" to where no counter follows it.       *)
LEMMA LeaveLooked ==
  ASSUME CountInv, NEW q \in Reqs, pc[q] = "looked", NEW l \in PCs \ {"counted"},
         NEW s \in Servers \cup {None}, goto(q, l, s),
         UNCHANGED <<poolVars, implVars, good, busy>>,
         cookie' \in [Reqs -> {None} \cup {KeyOf[t] : t \in Servers}]
  PROVE  CountInv'
<1>1. /\ srvs' \in [Reqs -> SUBSET Servers] /\ looked' \in [Reqs -> SUBSET Servers]
      /\ pc' \in [Reqs -> PCs] /\ target' \in [Reqs -> Servers \cup {None}]
      /\ pc'[q] = l
      /\ \A r \in Reqs : r # q => pc'[r] = pc[r] /\ target'[r] = target[r]
  BY GotoTypes DEF CountInv
<1>2. TypeOK'
  BY <1>1 DEF CountInv, TypeOK, poolVars, implVars
<1>3. \A r \in Reqs : /\ (pc'[r] = "counted") = (pc[r] = "counted")
                      /\ pc[r] = "counted" => target'[r] = target[r]
  BY <1>1
<1> QED
  BY <1>2, <1>3, QuietStep

LEMMA ServeStickyStep ==
  ASSUME CountInv, NEW q \in Reqs, ServeSticky(q)
  PROVE  CountInv'
<1>1. pc[q] = "looked" /\ UNCHANGED <<poolVars, implVars, good, busy>>
  BY DEF ServeSticky
<1>2. TypeOK /\ srvs[q] \in SUBSET Servers
  BY DEF CountInv, TypeOK
<1>3. "serving" \in PCs \ {"counted"}
  BY DEF PCs
<1>4. PICK s \in Servers :
        /\ goto(q, "serving", s)
        /\ cookie' = cookie \/ cookie' = [cookie EXCEPT ![q] = KeyOf[s]]
  <2>1. CASE \E s \in stickyServers(q) : goto(q, "serving", s) /\ UNCHANGED cookie
    BY <1>2, <2>1 DEF stickyServers
  <2>2. CASE \E s \in ChooseServer(q, srvs[q]) :
               goto(q, "serving", s) /\ cookie' = [cookie EXCEPT ![q] = KeyOf[s]]
    <3>1. ChooseServer(q, srvs[q]) \subseteq Servers
      BY <1>2, ChooseServerType
    <3> QED
      BY <2>2, <3>1
  <2> QED
    BY <2>1, <2>2 DEF ServeSticky
<1>5. cookie' \in [Reqs -> {None} \cup {KeyOf[t] : t \in Servers}]
  BY <1>2, <1>4, ZenonT(60) DEF TypeOK
<1> QED
  BY <1>1, <1>3, <1>4, <1>5, LeaveLooked

LEMMA ServeStep ==
  ASSUME CountInv, NEW q \in Reqs, Serve(q)
  PROVE  CountInv'
<1>1. pc[q] = "looked" /\ UNCHANGED <<poolVars, implVars, good, busy, cookie>>
  BY DEF Serve
<1>2. TypeOK /\ srvs[q] \in SUBSET Servers
  BY DEF CountInv, TypeOK
<1> DEFINE l == IF mode = "least_conn" THEN "chosen" ELSE "serving"
<1>3. l \in PCs \ {"counted"}
  BY DEF PCs
<1>4. ChooseServer(q, srvs[q]) \subseteq Servers
  BY <1>2, ChooseServerType
<1>5. PICK s \in Servers : goto(q, l, s)
  BY <1>4 DEF Serve
<1>6. cookie' \in [Reqs -> {None} \cup {KeyOf[t] : t \in Servers}]
  BY <1>1, <1>2 DEF TypeOK
<1> HIDE DEF l
<1> QED
  BY <1>1, <1>3, <1>5, <1>6, LeaveLooked

LEMMA UnavailableStep ==
  ASSUME CountInv, NEW q \in Reqs, Unavailable(q)
  PROVE  CountInv'
<1>1. /\ pc[q] = "looked" /\ goto(q, "idle", None)
      /\ UNCHANGED <<poolVars, implVars, good, busy, cookie>>
  BY DEF Unavailable
<1>2. "idle" \in PCs \ {"counted"}
  BY DEF PCs
<1>3. cookie' \in [Reqs -> {None} \cup {KeyOf[t] : t \in Servers}]
  BY <1>1 DEF CountInv, TypeOK
<1> QED
  BY <1>1, <1>2, <1>3, LeaveLooked

(* Counted requests of a server are finitely many.                         *)
LEMMA CountedFinite ==
  ASSUME NEW R \in SUBSET Reqs
  PROVE  IsFiniteSet(R) /\ Cardinality(R) \in Nat
BY FS_Subset, FS_CardinalityType, ConstantsAssumption

(* leastConn.ServeHTTP before the request: the counter, when the server    *)
(* still has one, and the request go up together.                          *)
LEMMA CountConnStep ==
  ASSUME CountInv, NEW q \in Reqs, CountConn(q)
  PROVE  CountInv'
<1> DEFINE s == target[q]
<1> USE DEF CountInv
<1>1. pc[q] = "chosen" /\ UNCHANGED <<poolVars, ipPool, panicked, good, busy, cookie>>
  BY DEF CountConn
<1>2. TypeOK /\ nConn \in [DOMAIN nConn -> Int] /\ DOMAIN nConn \subseteq Servers
  BY DEF TypeOK, CountersKnown
<1>3. CASE s \in DOMAIN nConn
  <2>1. goto(q, "counted", s) /\ nConn' = [nConn EXCEPT ![s] = @ + 1]
    BY <1>3 DEF CountConn
  <2>2. "counted" \in PCs /\ s \in Servers
    BY <1>2, <1>3 DEF PCs
  <2>3. /\ srvs' \in [Reqs -> SUBSET Servers] /\ looked' \in [Reqs -> SUBSET Servers]
        /\ pc' \in [Reqs -> PCs] /\ target' \in [Reqs -> Servers \cup {None}]
        /\ pc'[q] = "counted" /\ target'[q] = s
        /\ \A r \in Reqs : r # q => pc'[r] = pc[r] /\ target'[r] = target[r]
    BY <1>2, <2>1, <2>2, GotoTypes
  <2>4. /\ nConn' \in [DOMAIN nConn -> Int] /\ DOMAIN nConn' = DOMAIN nConn
        /\ nConn'[s] = nConn[s] + 1
        /\ \A t \in DOMAIN nConn : t # s => nConn'[t] = nConn[t]
    BY <1>2, <1>3, <2>1
  <2>5. TypeOK'
    BY <1>1, <2>3, <2>4 DEF TypeOK, poolVars
  <2>6. CountersKnown'
    BY <1>1, <2>4 DEF CountersKnown, poolVars
  <2>7. CountedKnown'
    BY <1>1, <1>3, <2>2, <2>3 DEF CountedKnown, CountersKnown, poolVars
  <2>8. mode' = "least_conn"
    BY <1>1, <1>3 DEF OnlyLeastConnCounts, poolVars
  <2>9. CountsInFlight'
    <3> DEFINE R(t) == {r \in Reqs : pc[r] = "counted" /\ target[r] = t}
    <3> SUFFICES ASSUME NEW t \in DOMAIN nConn
                 PROVE  nConn'[t] =
                        Cardinality({r \in Reqs : pc'[r] = "counted" /\ target'[r] = t})
      BY <2>4 DEF CountsInFlight
    <3>1. nConn[t] = Cardinality(R(t))
      BY DEF CountsInFlight
    <3>2. CASE t # s
      <4>1. {r \in Reqs : pc'[r] = "counted" /\ target'[r] = t} = R(t)
        BY <1>1, <2>3, <3>2
      <4> QED
        BY <2>4, <3>1, <3>2, <4>1
    <3>3. CASE t = s
      <4>1. {r \in Reqs : pc'[r] = "counted" /\ target'[r] = t} = R(t) \cup {q}
        BY <2>3, <3>3
      <4>2. q \notin R(t) /\ R(t) \in SUBSET Reqs
        BY <1>1
      <4> HIDE DEF R
      <4>3. IsFiniteSet(R(t))
        BY <4>2, CountedFinite
      <4>4. Cardinality(R(t) \cup {q}) = Cardinality(R(t)) + 1
        BY <4>2, <4>3, FS_AddElement
      <4> QED
        BY <2>4, <3>1, <3>3, <4>1, <4>4
    <3> QED
      BY <3>2, <3>3
  <2> QED
    BY <2>5, <2>6, <2>7, <2>8, <2>9 DEF OnlyLeastConnCounts
<1>4. CASE s \notin DOMAIN nConn
  <2>1. goto(q, "idle", None) /\ UNCHANGED nConn
    BY <1>4 DEF CountConn
  <2>2. "idle" \in PCs
    BY DEF PCs
  <2>3. /\ srvs' \in [Reqs -> SUBSET Servers] /\ looked' \in [Reqs -> SUBSET Servers]
        /\ pc' \in [Reqs -> PCs] /\ target' \in [Reqs -> Servers \cup {None}]
        /\ pc'[q] = "idle"
        /\ \A r \in Reqs : r # q => pc'[r] = pc[r] /\ target'[r] = target[r]
    BY <1>2, <2>1, <2>2, GotoTypes
  <2>4. TypeOK'
    BY <1>1, <2>1, <2>3 DEF TypeOK, poolVars
  <2>5. \A r \in Reqs : /\ (pc'[r] = "counted") = (pc[r] = "counted")
                        /\ pc[r] = "counted" => target'[r] = target[r]
    BY <1>1, <2>3
  <2>6. UNCHANGED <<poolVars, implVars, busy>>
    BY <1>1, <2>1 DEF implVars
  <2> QED
    BY <2>4, <2>5, <2>6, QuietStep
<1> QED
  BY <1>3, <1>4

(* The request is over: the counter and the request go down together, or   *)
(* the counter went with its server.                                       *)
LEMMA DoneStep ==
  ASSUME CountInv, NEW q \in Reqs, Done(q)
  PROVE  CountInv'
<1> DEFINE s == target[q]
           R(t) == {r \in Reqs : pc[r] = "counted" /\ target[r] = t}
           N(t) == {r \in Reqs : pc'[r] = "counted" /\ target'[r] = t}
<1> USE DEF CountInv
<1>1. /\ pc[q] \in {"counted", "serving"} /\ goto(q, "idle", None)
      /\ UNCHANGED <<poolVars, ipPool, panicked, good, busy, cookie>>
  BY DEF Done
<1>2. TypeOK /\ nConn \in [DOMAIN nConn -> Int] /\ DOMAIN nConn \subseteq Servers
  BY DEF TypeOK, CountersKnown
<1>3. "idle" \in PCs
  BY DEF PCs
<1>4. /\ srvs' \in [Reqs -> SUBSET Servers] /\ looked' \in [Reqs -> SUBSET Servers]
      /\ pc' \in [Reqs -> PCs] /\ target' \in [Reqs -> Servers \cup {None}]
      /\ pc'[q] = "idle"
      /\ \A r \in Reqs : r # q => pc'[r] = pc[r] /\ target'[r] = target[r]
  BY <1>1, <1>2, <1>3, GotoTypes
<1>5. CASE pc[q] = "counted" /\ s \in DOMAIN nConn
  <2>1. nConn' = [nConn EXCEPT ![s] = @ - 1]
    BY <1>5 DEF Done
  <2>2. /\ nConn' \in [DOMAIN nConn -> Int] /\ DOMAIN nConn' = DOMAIN nConn
        /\ nConn'[s] = nConn[s] - 1
        /\ \A t \in DOMAIN nConn : t # s => nConn'[t] = nConn[t]
    BY <1>2, <1>5, <2>1
  <2>3. TypeOK'
    BY <1>1, <1>4, <2>2 DEF TypeOK, poolVars
  <2>4. CountersKnown'
    BY <1>1, <2>2 DEF CountersKnown, poolVars
  <2>5. CountedKnown'
    BY <1>1, <1>4 DEF CountedKnown, poolVars
  <2>6. mode' = "least_conn"
    BY <1>1, <1>5 DEF OnlyLeastConnCounts, poolVars
  <2>7. CountsInFlight'
    <3> SUFFICES ASSUME NEW t \in DOMAIN nConn PROVE nConn'[t] = Cardinality(N(t))
      BY <2>2 DEF CountsInFlight
    <3>1. nConn[t] = Cardinality(R(t))
      BY DEF CountsInFlight
    <3>2. CASE t # s
      <4>1. N(t) = R(t)
        BY <1>4, <3>2
      <4> QED
        BY <2>2, <3>1, <3>2, <4>1
    <3>3. CASE t = s
      <4>1. N(t) = R(t) \ {q}
        BY <1>4, <3>3
      <4>2. q \in R(t) /\ R(t) \in SUBSET Reqs
        BY <1>5, <3>3
      <4> HIDE DEF R, N
      <4>3. IsFiniteSet(R(t))
        BY <4>2, CountedFinite
      <4>4. Cardinality(R(t) \ {q}) = Cardinality(R(t)) - 1
        BY <4>2, <4>3, FS_RemoveElement
      <4> QED
        BY <2>2, <3>1, <3>3, <4>1, <4>4
    <3> QED
      BY <3>2, <3>3
  <2> QED
    BY <2>3, <2>4, <2>5, <2>6, <2>7 DEF OnlyLeastConnCounts
<1>6. CASE ~(pc[q] = "counted" /\ s \in DOMAIN nConn)
  <2>1. nConn' = nConn
    BY <1>6 DEF Done
  <2>2. TypeOK'
    BY <1>1, <1>4, <2>1 DEF TypeOK, poolVars
  <2>3. CountersKnown' /\ CountedKnown' /\ OnlyLeastConnCounts'
    BY <1>1, <1>4, <2>1 DEF CountersKnown, CountedKnown, OnlyLeastConnCounts, poolVars
  <2>4. CountsInFlight'
    <3> SUFFICES ASSUME NEW t \in DOMAIN nConn PROVE nConn[t] = Cardinality(N(t))
      BY <2>1 DEF CountsInFlight
    <3>1. N(t) = R(t)
      BY <1>1, <1>4, <1>6
    <3> QED
      BY <3>1 DEF CountsInFlight
  <2> QED
    BY <2>2, <2>3, <2>4
<1> QED
  BY <1>5, <1>6

(* Every step keeps the counters.                                          *)
LEMMA BalancerNext == CountInv /\ [Next]_vars => CountInv'
<1> SUFFICES ASSUME CountInv, [Next]_vars PROVE CountInv'
  OBVIOUS
<1>1. ASSUME NEW s \in Servers, AddServer(s) PROVE CountInv'
  BY <1>1, AddServerStep
<1>2. ASSUME NEW s \in Servers, RemoveServer(s) PROVE CountInv'
  BY <1>2, RemoveServerStep
<1>3. ASSUME NEW s \in Servers, HealthChanges(s) PROVE CountInv'
  <2>1. good' \subseteq Servers /\ UNCHANGED <<poolVars, implVars, busy, reqVars>>
    BY <1>3 DEF HealthChanges, CountInv, TypeOK
  <2>2. TypeOK'
    BY <2>1 DEF CountInv, TypeOK, poolVars, implVars, reqVars
  <2> QED
    BY <2>1, <2>2, QuietStep DEF reqVars
<1>4. CASE Callback
  BY <1>4, CallbackStep
<1>5. ASSUME NEW m \in Modes, UpdateConfigIfNeeded(m) PROVE CountInv'
  BY <1>5, UpdateConfigStep
<1>6. ASSUME NEW q \in Reqs,
             \/ Lookup(q) \/ ServeSticky(q) \/ Serve(q)
             \/ Unavailable(q) \/ CountConn(q) \/ Done(q)
      PROVE  CountInv'
  BY <1>6, LookupStep, ServeStickyStep, ServeStep, UnavailableStep, CountConnStep, DoneStep
<1>7. CASE UNCHANGED vars
  <2>1. TypeOK'
    BY <1>7 DEF CountInv, TypeOK, vars, poolVars, implVars, reqVars
  <2> QED
    BY <1>7, <2>1, QuietStep DEF vars, reqVars
<1> QED
  BY <1>1, <1>2, <1>3, <1>4, <1>5, <1>6, <1>7 DEF Next

(* The counter of every server that least_conn knows is the number of the  *)
(* requests it is serving, in every mode and also when keys are shared;    *)
(* weights stay integers through every rebalance.                          *)
THEOREM CountersExact == Spec => [](TypeOK /\ CountsInFlight)
<1>1. Init => CountInv
  BY BalancerInit
<1>2. CountInv /\ [Next]_vars => CountInv'
  BY BalancerNext
<1>3. CountInv => TypeOK /\ CountsInFlight
  BY DEF CountInv
<1> QED
  BY <1>1, <1>2, <1>3, PTL DEF Spec

-----------------------------------------------------------------------------
(* The algorithm and the pool, and the server a request gets.  Two things  *)
(* are assumed: routes of one balancer have different keys (a route that   *)
(* ends deletes the server of its key, whoever added it), and ip_hash,     *)
(* whose list loses track of the pool, is not configured.                  *)
DistinctKeys == \A s, t \in Servers : KeyOf[s] = KeyOf[t] => s = t
NoIpHash     == "ip_hash" \notin Modes

(* Between a change of the pool and its callback, the algorithm lacks the  *)
(* server that joined or still has the one that left.                      *)
Known ==
  IF busy[1] = "add" THEN pool \ {busy[2]}
  ELSE IF busy[1] = "remove" THEN pool \cup {busy[2]} ELSE pool
MirrorInv ==
  /\ mode # "ip_hash"
  /\ pool = {s \in Servers : life[s] = "added"}
  /\ busy[1] = "add" => busy[2] \in pool
  /\ busy[1] = "remove" => busy[2] \notin pool
  /\ mode = "least_conn" => DOMAIN nConn = Known
  /\ \A q \in Reqs : looked[q] = srvs[q]

(* What a request was given were servers in service, and it has no server  *)
(* until one is chosen.                                                    *)
PickInv ==
  \A q \in Reqs : /\ srvs[q] \subseteq looked[q]
                  /\ pc[q] \in {"idle", "looked"} => target[q] = None

(* PickInv needs nothing but the pool of CountersKnown.                    *)
LEMMA PickNext ==
  ASSUME CountInv, PickInv, [Next]_vars
  PROVE  PickInv'
<1>1. ASSUME UNCHANGED <<pc, target, srvs, looked>> PROVE PickInv'
  BY <1>1 DEF PickInv
<1>2. ASSUME NEW s \in Servers, AddServer(s) \/ RemoveServer(s) \/ HealthChanges(s)
      PROVE  PickInv'
  BY <1>1, <1>2 DEF AddServer, RemoveServer, HealthChanges, reqVars
<1>3. CASE Callback
  BY <1>1, <1>3 DEF Callback, reqVars
<1>4. ASSUME NEW m \in Modes, UpdateConfigIfNeeded(m) PROVE PickInv'
  BY <1>1, <1>4 DEF UpdateConfigIfNeeded, reqVars
<1>5. ASSUME NEW q \in Reqs, Lookup(q) PROVE PickInv'
  <2>1. availServers \subseteq {s \in good : life[s] = "added"}
    BY DEF availServers, CountInv, CountersKnown
  <2> QED
    BY <1>5, <2>1 DEF Lookup, PickInv, CountInv, TypeOK
<1>6. ASSUME NEW q \in Reqs, NEW l, NEW s, goto(q, l, s), l \in {"idle", "looked"} => s = None
      PROVE  PickInv'
  BY <1>6 DEF goto, PickInv, CountInv, TypeOK
<1>7. ASSUME NEW q \in Reqs, ServeSticky(q) PROVE PickInv'
  <2>1. \E s : goto(q, "serving", s)
    BY <1>7 DEF ServeSticky
  <2> QED
    BY <1>6, <2>1
<1>8. ASSUME NEW q \in Reqs, Serve(q) PROVE PickInv'
  <2>1. \E s, l : l \in {"chosen", "serving"} /\ goto(q, l, s)
    BY <1>8 DEF Serve
  <2> QED
    BY <1>6, <2>1
<1>9. ASSUME NEW q \in Reqs, Unavailable(q) \/ Done(q) PROVE PickInv'
  <2>1. goto(q, "idle", None)
    BY <1>9 DEF Unavailable, Done
  <2> QED
    BY <1>6, <2>1
<1>10. ASSUME NEW q \in Reqs, CountConn(q) PROVE PickInv'
  <2>1. goto(q, "counted", target[q]) \/ goto(q, "idle", None)
    BY <1>10 DEF CountConn
  <2> QED
    BY <1>6, <2>1
<1>11. CASE UNCHANGED vars
  BY <1>1, <1>11 DEF vars, reqVars
<1> QED
  BY <1>2, <1>3, <1>4, <1>5, <1>7, <1>8, <1>9, <1>10, <1>11 DEF Next

(* With different keys, AddServer replaces nobody and RemoveServer deletes *)
(* the server it was called for.                                           *)
LEMMA MirrorNext ==
  ASSUME DistinctKeys, NoIpHash, CountInv, MirrorInv, [Next]_vars
  PROVE  MirrorInv'
<1> USE DEF CountInv
<1>0. busy = NoCall => Known = pool
  BY DEF Known, NoCall
<1>1. ASSUME UNCHANGED <<life, pool, mode, busy>>, DOMAIN nConn' = DOMAIN nConn,
             \A q \in Reqs : looked'[q] = srvs'[q]
      PROVE  MirrorInv'
  BY <1>1 DEF MirrorInv, Known
<1>2. ASSUME NEW s \in Servers, AddServer(s) PROVE MirrorInv'
  <2> DEFINE old == {t \in pool : KeyOf[t] = KeyOf[s]}
  <2>1. life[s] = "new" /\ busy = NoCall /\ life' = [life EXCEPT ![s] = "added"]
    BY <1>2 DEF AddServer
  <2>2. s \notin pool
    BY <2>1 DEF MirrorInv
  <2>3. old = {}
    BY <2>2 DEF DistinctKeys, TypeOK
  <2>4. pool' = pool \cup {s} /\ busy' = <<"add", s>> /\ nConn' = nConn
    BY <1>2, <2>3 DEF AddServer, implVars, MirrorInv
  <2>5. UNCHANGED <<mode, looked, srvs>>
    BY <1>2 DEF AddServer, reqVars
  <2>6. Known' = pool
    BY <2>2, <2>4 DEF Known
  <2>7. pool' = {t \in Servers : life'[t] = "added"}
    BY <2>1, <2>4 DEF MirrorInv, TypeOK
  <2> QED
    BY <1>0, <2>1, <2>4, <2>5, <2>6, <2>7 DEF MirrorInv
<1>3. ASSUME NEW s \in Servers, RemoveServer(s) PROVE MirrorInv'
  <2> DEFINE old == {t \in pool : KeyOf[t] = KeyOf[s]}
  <2>1. life[s] = "added" /\ busy = NoCall /\ life' = [life EXCEPT ![s] = "removed"]
    BY <1>3 DEF RemoveServer
  <2>2. s \in pool
    BY <2>1 DEF MirrorInv
  <2>3. old = {s}
    BY <2>2 DEF DistinctKeys, TypeOK
  <2>4. pool' = pool \ {s} /\ busy' = <<"remove", s>>
    BY <1>3, <2>3 DEF RemoveServer
  <2>5. UNCHANGED <<mode, nConn, looked, srvs>>
    BY <1>3 DEF RemoveServer, reqVars, implVars
  <2>6. Known' = pool
    BY <2>2, <2>4 DEF Known
  <2>7. pool' = {t \in Servers : life'[t] = "added"}
    BY <2>1, <2>4 DEF MirrorInv, TypeOK
  <2> QED
    BY <1>0, <2>1, <2>4, <2>5, <2>6, <2>7 DEF MirrorInv
<1>4. ASSUME NEW s \in Servers, HealthChanges(s) PROVE MirrorInv'
  BY <1>1, <1>4 DEF HealthChanges, MirrorInv, poolVars, implVars, reqVars
<1>5. CASE Callback
  <2>1. /\ busy # NoCall /\ busy' = NoCall
        /\ UNCHANGED <<life, pool, mode, looked, srvs>>
    BY <1>5 DEF Callback, poolVars, reqVars
  <2>2. PICK s \in Servers : busy = <<"add", s>> \/ busy = <<"remove", s>>
    BY <2>1 DEF TypeOK
  <2>3. mode = "least_conn" => DOMAIN nConn' = pool
    <3>1. CASE busy = <<"add", s>>
      BY <1>5, <3>1 DEF Callback, OnAddServer, With, MirrorInv, Known
    <3>2. CASE busy = <<"remove", s>>
      BY <1>5, <3>2 DEF Callback, OnRemoveServer, Without, MirrorInv, Known
    <3> QED
      BY <2>2, <3>1, <3>2
  <2>4. Known' = pool
    BY <2>1 DEF Known, NoCall
  <2>5. busy'[1] = "none"
    BY <2>1 DEF NoCall
  <2> QED
    BY <2>1, <2>3, <2>4, <2>5 DEF MirrorInv
<1>6. ASSUME NEW m \in Modes, UpdateConfigIfNeeded(m) PROVE MirrorInv'
  <2>1. /\ busy = NoCall /\ mode' = m
        /\ UNCHANGED <<life, pool, busy, looked, srvs>>
        /\ m = "least_conn" => nConn' = [s \in pool |-> 0]
    BY <1>6 DEF UpdateConfigIfNeeded, reqVars
  <2>2. m # "ip_hash"
    BY DEF NoIpHash
  <2>3. Known' = pool
    BY <2>1 DEF Known, NoCall
  <2>4. m = "least_conn" => DOMAIN nConn' = pool
    BY <2>1
  <2> QED
    BY <2>1, <2>2, <2>3, <2>4 DEF MirrorInv
<1>7. ASSUME NEW q \in Reqs, Lookup(q) PROVE MirrorInv'
  <2>1. availServers = {s \in good : life[s] = "added"}
    BY DEF availServers, MirrorInv, TypeOK
  <2>2. \A r \in Reqs : looked'[r] = srvs'[r]
    BY <1>7, <2>1 DEF Lookup, MirrorInv, TypeOK
  <2> QED
    BY <1>1, <1>7, <2>2 DEF Lookup, poolVars, implVars
<1>8. ASSUME NEW q \in Reqs, NEW l, NEW s, goto(q, l, s), UNCHANGED <<poolVars, busy>>,
             DOMAIN nConn' = DOMAIN nConn
      PROVE  MirrorInv'
  <2>1. \A r \in Reqs : looked'[r] = srvs'[r]
    BY <1>8 DEF goto, MirrorInv, TypeOK
  <2> QED
    BY <1>1, <1>8, <2>1 DEF poolVars
<1>9. ASSUME NEW q \in Reqs, ServeSticky(q) \/ Serve(q) \/ Unavailable(q) PROVE MirrorInv'
  <2>1. UNCHANGED <<poolVars, busy>> /\ DOMAIN nConn' = DOMAIN nConn
    BY <1>9 DEF ServeSticky, Serve, Unavailable, implVars
  <2>2. \E l, s : goto(q, l, s)
    BY <1>9 DEF ServeSticky, Serve, Unavailable
  <2> QED
    BY <1>8, <2>1, <2>2
<1>10. ASSUME NEW q \in Reqs, CountConn(q) \/ Done(q) PROVE MirrorInv'
  <2>1. UNCHANGED <<poolVars, busy>>
    BY <1>10 DEF CountConn, Done
  <2>2. DOMAIN nConn' = DOMAIN nConn
    BY <1>10 DEF CountConn, Done, CountersKnown
  <2>3. \E l, s : goto(q, l, s)
    BY <1>10 DEF CountConn, Done
  <2> QED
    BY <1>8, <2>1, <2>2, <2>3
<1>11. CASE UNCHANGED vars
  BY <1>1, <1>11 DEF vars, MirrorInv, poolVars, implVars, reqVars
<1> QED
  BY <1>2, <1>3, <1>4, <1>5, <1>6, <1>7, <1>9, <1>10, <1>11 DEF Next

(* Nothing is known, given or chosen at the start.                         *)
LEMMA MirrorInit ==
  ASSUME NoIpHash, Init
  PROVE  MirrorInv /\ PickInv
BY ConstantsAssumption DEF Init, MirrorInv, PickInv, Known, NoCall, NoIpHash

(* ip_hash comes from a configuration.                                     *)
LEMMA ModeNext ==
  ASSUME NoIpHash, mode # "ip_hash", [Next]_vars
  PROVE  mode' # "ip_hash"
<1>1. CASE mode' = mode
  BY <1>1
<1>2. CASE \E m \in Modes : UpdateConfigIfNeeded(m)
  BY <1>2 DEF UpdateConfigIfNeeded, NoIpHash
<1> QED
  BY <1>1, <1>2 DEF Next, vars, AddServer, RemoveServer, HealthChanges, Callback, Lookup,
     ServeSticky, Serve, Unavailable, CountConn, Done, poolVars

(* A server that a step chooses is one of those the request was given, and *)
(* the step is one of the request.                                         *)
LEMMA ChosenIsGiven ==
  ASSUME CountInv, PickInv, mode # "ip_hash", [Next]_vars, NEW q \in Reqs, Choosing(q)
  PROVE  target'[q] \in srvs[q]
<1>0. pc[q] = "looked" /\ target'[q] # None /\ target[q] = None
  BY DEF Choosing, PickInv
<1>1. ASSUME target' = target PROVE FALSE
  BY <1>0, <1>1
<1>2. ASSUME NEW r \in Reqs, NEW l, NEW s, goto(r, l, s) PROVE r = q /\ target'[q] = s
  BY <1>0, <1>2 DEF goto, CountInv, TypeOK
<1>3. ASSUME NEW S \in SUBSET Servers PROVE ChooseServer(q, S) \subseteq S
  BY <1>3, ChooseServerType DEF CountInv
<1>4. srvs[q] \in SUBSET Servers
  BY DEF CountInv, TypeOK
<1>5. ASSUME NEW r \in Reqs, ServeSticky(r) PROVE target'[q] \in srvs[q]
  <2>1. PICK s : goto(r, "serving", s) /\ (s \in stickyServers(r) \/ s \in ChooseServer(r, srvs[r]))
    BY <1>5 DEF ServeSticky
  <2>2. r = q /\ target'[q] = s
    BY <1>2, <2>1
  <2> QED
    BY <1>3, <1>4, <2>1, <2>2 DEF stickyServers
<1>6. ASSUME NEW r \in Reqs, Serve(r) PROVE target'[q] \in srvs[q]
  <2>1. PICK s, l : goto(r, l, s) /\ s \in ChooseServer(r, srvs[r])
    BY <1>6 DEF Serve
  <2>2. r = q /\ target'[q] = s
    BY <1>2, <2>1
  <2> QED
    BY <1>3, <1>4, <2>1, <2>2
<1>7. ASSUME NEW r \in Reqs, Unavailable(r) \/ CountConn(r) \/ Done(r) PROVE FALSE
  <2>1. CASE goto(r, "idle", None)
    BY <1>0, <1>2, <2>1
  <2>2. CASE CountConn(r) /\ goto(r, "counted", target[r])
    BY <1>0, <1>2, <2>2 DEF CountConn
  <2> QED
    BY <1>7, <2>1, <2>2 DEF Unavailable, CountConn, Done
<1>8. ASSUME NEW r \in Reqs, Lookup(r) PROVE FALSE
  BY <1>1, <1>8 DEF Lookup
<1>9. ASSUME \/ \E s \in Servers : AddServer(s) \/ RemoveServer(s) \/ HealthChanges(s)
             \/ Callback \/ (\E m \in Modes : UpdateConfigIfNeeded(m)) \/ UNCHANGED vars
      PROVE  FALSE
  BY <1>1, <1>9 DEF AddServer, RemoveServer, HealthChanges, Callback, UpdateConfigIfNeeded,
     vars, reqVars
<1> QED
  BY <1>5, <1>6, <1>7, <1>8, <1>9 DEF Next

(* A cookie is set only when the request was given no server of its key.   *)
LEMMA CookieKept ==
  ASSUME CountInv, [Next]_vars, NEW q \in Reqs, cookie'[q] # cookie[q]
  PROVE  stickyServers(q) = {}
<1>0. cookie' # cookie
  OBVIOUS
<1>1. PICK r \in Reqs : ServeSticky(r)
  BY <1>0 DEF Next, AddServer, RemoveServer, HealthChanges, Callback, UpdateConfigIfNeeded,
     Lookup, Serve, Unavailable, CountConn, Done, vars, reqVars
<1>2. stickyServers(r) = {} /\ \E s : cookie' = [cookie EXCEPT ![r] = KeyOf[s]]
  BY <1>0, <1>1 DEF ServeSticky
<1>3. r = q
  BY <1>2 DEF CountInv, TypeOK
<1> QED
  BY <1>2, <1>3

(* The counters are exact and the algorithm knows exactly the servers of   *)
(* the pool whenever no callback is due.                                   *)
THEOREM BalancerIsSound ==
  ASSUME DistinctKeys, NoIpHash
  PROVE  Spec => []BalancerSound
<1>1. Init => CountInv /\ MirrorInv
  BY BalancerInit, MirrorInit
<1>2. (CountInv /\ MirrorInv) /\ [Next]_vars => (CountInv /\ MirrorInv)'
  BY BalancerNext, MirrorNext
<1>3. CountInv /\ MirrorInv => BalancerSound
  BY DEF CountInv, MirrorInv, BalancerSound, ImplMirrorsPool, Known, NoCall
<1> QED
  BY <1>1, <1>2, <1>3, PTL DEF Spec

(* A request goes to a server that was in service and in good health when  *)
(* it came in, also when keys are shared.                                  *)
THEOREM RequestsGoToAvailable ==
  ASSUME NoIpHash
  PROVE  Spec => ServesAvailable
<1> DEFINE Inv == CountInv /\ PickInv /\ mode # "ip_hash"
<1>1. Init => Inv
  BY BalancerInit, MirrorInit DEF MirrorInv
<1>2. Inv /\ [Next]_vars => Inv'
  BY BalancerNext, PickNext, ModeNext
<1>3. Inv /\ [Next]_vars => [\A q \in Reqs : Choosing(q) => target'[q] \in looked[q]]_vars
  <2>1. ASSUME Inv, [Next]_vars, NEW q \in Reqs, Choosing(q) PROVE target'[q] \in looked[q]
    <3>1. target'[q] \in srvs[q]
      BY <2>1, ChosenIsGiven
    <3> QED
      BY <2>1, <3>1 DEF PickInv
  <2> QED
    BY <2>1
<1> QED
  BY <1>1, <1>2, <1>3, PTL DEF Spec, ServesAvailable

(* The server that ServeHTTP picks: one in service, and the one of the     *)
(* client's cookie while that is in service and in good health.            *)
THEOREM PicksAreRight ==
  ASSUME DistinctKeys, NoIpHash
  PROVE  Spec => PicksRight
<1>1. Init => CountInv /\ MirrorInv
  BY BalancerInit, MirrorInit
<1>2. (CountInv /\ MirrorInv) /\ [Next]_vars => (CountInv /\ MirrorInv)'
  BY BalancerNext, MirrorNext
<1>3. (CountInv /\ MirrorInv) /\ [Next]_vars
        => [\A q \in Reqs : (cookie'[q] # cookie[q]) =>
              \A s \in looked[q] : KeyOf[s] # cookie[q]]_vars
  <2>1. ASSUME CountInv, MirrorInv, [Next]_vars, NEW q \in Reqs, cookie'[q] # cookie[q],
               NEW s \in looked[q]
        PROVE  KeyOf[s] # cookie[q]
    <3>1. stickyServers(q) = {}
      BY <2>1, CookieKept
    <3>2. s \in srvs[q]
      BY <2>1 DEF MirrorInv
    <3> QED
      BY <3>1, <3>2 DEF stickyServers
  <2> QED
    BY <2>1
<1>4. Spec => StickyStays
  BY <1>1, <1>2, <1>3, PTL DEF Spec, StickyStays
<1>5. Spec => ServesAvailable
  BY RequestsGoToAvailable
<1> QED
  BY <1>4, <1>5 DEF PicksRight

(***************************************************************************)
(* Middleware, for any middlewares in a chain, any trusted peers, any      *)
(* header values and any composed files.                                   *)
(*                                                                         *)
(* The invariant follows a request: the gates it has passed so far         *)
(* (GatesPassed), and what its middlewares may have made of its address,   *)
(* its path, its headers and its answer.                                   *)
(***************************************************************************)
MwFields == {"peer", "addr", "port", "claims", "xff", "path", "asked", "tls", "cookie", "identity"}
MwAnswers == [status : Int, html : BOOLEAN, plain : BOOLEAN, described : BOOLEAN, hits : Nat, upstream : BOOLEAN]

IsRequest(r) == DOMAIN r = MwFields /\ r.port \in BOOLEAN /\ r.identity \in BOOLEAN

MwTypeOK ==
  /\ Len(mwChain) \in Nat /\ DOMAIN mwChain = 1..Len(mwChain)
  /\ mwAt \in Nat /\ mwResp \in MwAnswers
  /\ mwPhase \in {"build", "idle", "before", "after"}
  /\ mwPhase \in {"before", "after"} => IsRequest(mwReq) /\ mwAt \in 1..(Len(mwChain) + 1)

(* What the request part of a middleware of a kind may do to a request r.  *)
Outcome(o, kind, r) ==
  /\ IsRequest(o.req) /\ o.req.peer = r.peer /\ o.req.asked = r.asked
  /\ r.peer \notin Trusted /\ r.addr = r.peer => o.req.addr = r.addr
  /\ o.req.port = FALSE \/ (o.req.port = r.port /\ o.req.addr = r.addr)
  /\ o.req.path = r.path \/ (kind = "prefix" /\ o.req.path = "prefixed")
  /\ o.req.identity = TRUE \/ (kind # "html" /\ o.req.identity = r.identity)
  /\ \/ kind \notin {"setxff", "hidexff"} /\ o.req.xff = r.xff
     \/ o.req.xff = "none"
     \/ r.port = TRUE /\ o.req.xff = r.addr
  /\ o.status \in Int
  /\ o.go = FALSE \/ o.status = 0 \/ r.path = "logout"

LEMMA SetRealIPOutcome ==
  ASSUME NEW r, IsRequest(r), NEW trusts \in {{}, Trusted}, NEW recursive \in BOOLEAN
  PROVE  LET q == setRealIP(r, trusts, recursive) IN
         /\ IsRequest(q) /\ q.peer = r.peer /\ q.asked = r.asked /\ q.path = r.path
         /\ q.identity = r.identity /\ q.xff = r.xff
         /\ r.peer \notin Trusted /\ r.addr = r.peer => q.addr = r.addr
         /\ q.port = FALSE \/ (q.port = r.port /\ q.addr = r.addr)
<1> DEFINE all == IF recursive THEN SelectSeq(r.claims, LAMBDA a : a \notin trusts) ELSE r.claims
           z   == Last(all)
           q   == setRealIP(r, trusts, recursive)
<1>1. \/ q = r
      \/ r.addr \in trusts /\ q = [r EXCEPT !.addr = z, !.port = FALSE, !.claims = <<z>>]
  BY DEF setRealIP
<1> HIDE DEF z, all, q
<1>2. CASE q = r
  BY <1>2 DEF q
<1>3. CASE r.addr \in trusts /\ q = [r EXCEPT !.addr = z, !.port = FALSE, !.claims = <<z>>]
  <2>1. DOMAIN q = DOMAIN r
    BY <1>3
  <2>2. /\ q.peer = r.peer /\ q.asked = r.asked /\ q.path = r.path
        /\ q.identity = r.identity /\ q.xff = r.xff /\ q.port = FALSE
    BY <1>3 DEF MwFields, IsRequest
  <2>3. r.addr \in Trusted
    BY <1>3
  <2>4. IsRequest(q)
    BY <2>1, <2>2 DEF IsRequest
  <2> QED
    BY <2>2, <2>3, <2>4 DEF q
<1> QED
  BY <1>1, <1>2, <1>3

(* The shape of an outcome, and what Go, Answer and Keep make of it.       *)
IsOutcome(o) == DOMAIN o = {"go", "req", "status", "st"} /\ o.go \in BOOLEAN

LEMMA GoShape ==
  ASSUME NEW q
  PROVE  IsOutcome(Go(q)) /\ Go(q).go = TRUE /\ Go(q).req = q /\ Go(q).status = 0
BY DEF Go, IsOutcome

LEMMA AnswerShape ==
  ASSUME NEW q, NEW code
  PROVE  IsOutcome(Answer(q, code)) /\ Answer(q, code).go = FALSE /\ Answer(q, code).req = q
         /\ Answer(q, code).status = code
BY DEF Answer, IsOutcome

LEMMA KeepShape ==
  ASSUME NEW o, IsOutcome(o), NEW st
  PROVE  IsOutcome(Keep(o, st)) /\ Keep(o, st).go = o.go /\ Keep(o, st).req = o.req
         /\ Keep(o, st).status = o.status
BY DEF Keep, IsOutcome

(* An outcome for the request as it came.                                  *)
Plain(o, r) ==
  /\ IsOutcome(o) /\ o.req = r /\ o.status \in Int
  /\ o.go = FALSE \/ o.status = 0 \/ r.path = "logout"

LEMMA GoPlain ==
  ASSUME NEW r
  PROVE  Plain(Go(r), r)
<1>1. IsOutcome(Go(r)) /\ Go(r).req = r /\ Go(r).status = 0
  BY GoShape
<1>2. Go(r).status \in Int
  BY <1>1
<1> QED
  BY <1>1, <1>2, Zenon DEF Plain

LEMMA AnswerPlain ==
  ASSUME NEW r, NEW code \in Int
  PROVE  Plain(Answer(r, code), r)
<1>1. IsOutcome(Answer(r, code)) /\ Answer(r, code).req = r /\ Answer(r, code).status = code
      /\ Answer(r, code).go = FALSE
  BY AnswerShape, ZenonT(60)
<1>2. Answer(r, code).status \in Int
  BY <1>1
<1> QED
  BY <1>1, <1>2, Zenon DEF Plain

LEMMA KeepPlain ==
  ASSUME NEW r, NEW o, Plain(o, r), NEW st
  PROVE  Plain(Keep(o, st), r)
BY KeepShape DEF Plain

LEMMA LogoutPlain ==
  ASSUME NEW r, r.path = "logout"
  PROVE  Plain([Go(r) EXCEPT !.status = 302], r)
<1> DEFINE o == [Go(r) EXCEPT !.status = 302]
<1>1. DOMAIN o = {"go", "req", "status", "st"}
  BY GoShape DEF IsOutcome
<1>2. o.go = TRUE
  BY DEF Go
<1>3. o.req = r
  BY DEF Go
<1>4. o.status = 302
  BY DEF Go
<1> HIDE DEF o
<1>5. o.status \in Int
  BY <1>4
<1>6. o.go \in BOOLEAN
  BY <1>2
<1>7. Plain(o, r)
  BY <1>1, <1>3, <1>5, <1>6, Zenon DEF Plain, IsOutcome
<1> QED
  BY <1>7 DEF o

LEMMA PlainOutcome ==
  ASSUME NEW r, IsRequest(r), NEW kind, kind \notin {"setxff", "hidexff", "html"}, NEW o, Plain(o, r)
  PROVE  Outcome(o, kind, r)
<1>1. o.req = r
  BY DEF Plain
<1>2. o.status \in Int
  BY DEF Plain
<1>3. o.go = FALSE \/ o.status = 0 \/ r.path = "logout"
  BY DEF Plain
<1>4. r.identity = TRUE \/ r.identity = FALSE
  BY DEF IsRequest
<1> QED
  BY <1>1, <1>2, <1>3, <1>4, Zenon DEF Outcome

LEMMA PassedOutcome ==
  ASSUME NEW r, IsRequest(r), NEW kind, NEW o, o.status = 0, IsRequest(o.req),
         o.req.peer = r.peer, o.req.asked = r.asked,
         r.peer \notin Trusted /\ r.addr = r.peer => o.req.addr = r.addr,
         o.req.port = FALSE \/ (o.req.port = r.port /\ o.req.addr = r.addr),
         o.req.path = r.path \/ (kind = "prefix" /\ o.req.path = "prefixed"),
         o.req.identity = TRUE \/ (kind # "html" /\ o.req.identity = r.identity),
         \/ kind \notin {"setxff", "hidexff"} /\ o.req.xff = r.xff
         \/ o.req.xff = "none"
         \/ r.port = TRUE /\ o.req.xff = r.addr
  PROVE  Outcome(o, kind, r)
BY DEF Outcome

LEMMA BeforeOutcome ==
  ASSUME NEW kind, NEW r, IsRequest(r), NEW o \in before(kind, r)
  PROVE  Outcome(o, kind, r)
<1>1. CASE kind \in {"realip", "cloudflare"}
  <2>1. \E trusts \in {{}, Trusted}, recursive \in BOOLEAN :
          o.status = 0 /\ o.req = setRealIP(r, trusts, recursive)
    <3>1. CASE kind = "realip"
      <4>1. o = Go(setRealIP(r, Trusted, FALSE))
        BY <3>1 DEF before
      <4>2. o.status = 0 /\ o.req = setRealIP(r, Trusted, FALSE)
        BY <4>1, GoShape
      <4> QED
        BY <4>2
    <3>2. CASE kind = "cloudflare"
      <4>1. o \in Cloudflare(r)
        BY <3>2 DEF before
      <4> DEFINE st == [mwState EXCEPT !.cidrs = TRUE]
                 q == setRealIP(r, Trusted, TRUE)
                 p == setRealIP(r, {}, TRUE)
      <4>2. o = Go(p) \/ o = Go(q) \/ o = Keep(Go(q), st)
        BY <4>1 DEF Cloudflare
      <4> HIDE DEF q, p, st
      <4>3. o.status = 0 /\ (o.req = p \/ o.req = q)
        <5>1. Go(p).status = 0 /\ Go(p).req = p
          BY GoShape
        <5>2. IsOutcome(Go(q)) /\ Go(q).status = 0 /\ Go(q).req = q
          BY GoShape
        <5>3. Keep(Go(q), st).status = Go(q).status /\ Keep(Go(q), st).req = Go(q).req
          BY <5>2, KeepShape
        <5> QED
          BY <4>2, <5>1, <5>2, <5>3
      <4> QED
        BY <4>3 DEF q, p
    <3> QED
      BY <1>1, <3>1, <3>2
  <2>2. PICK trusts \in {{}, Trusted}, recursive \in BOOLEAN :
          o.status = 0 /\ o.req = setRealIP(r, trusts, recursive)
    BY <2>1
  <2> DEFINE q == setRealIP(r, trusts, recursive)
  <2>3. /\ IsRequest(q) /\ q.peer = r.peer /\ q.asked = r.asked /\ q.path = r.path
        /\ q.identity = r.identity /\ q.xff = r.xff
        /\ r.peer \notin Trusted /\ r.addr = r.peer => q.addr = r.addr
        /\ q.port = FALSE \/ (q.port = r.port /\ q.addr = r.addr)
    BY SetRealIPOutcome
  <2>4. o.req = q /\ o.status = 0
    BY <2>2
  <2> HIDE DEF q
  <2>5. kind \notin {"html", "setxff", "hidexff"}
    BY <1>1
  <2> QED
    BY <2>3, <2>4, <2>5, PassedOutcome, Zenon
<1>2. CASE kind = "setxff"
  <2> DEFINE x == IF r.port THEN r.addr ELSE "none"
             q == [r EXCEPT !.xff = x]
  <2>1. o = Go(q)
    BY <1>2 DEF before, setXForwarded
  <2>2. x = "none" \/ (r.port = TRUE /\ x = r.addr)
    <3>1. CASE r.port = TRUE
      BY <3>1
    <3>2. CASE r.port = FALSE
      BY <3>2, Zenon
    <3> QED
      BY <3>1, <3>2 DEF IsRequest
  <2> HIDE DEF x
  <2>3. /\ IsRequest(q) /\ q.peer = r.peer /\ q.asked = r.asked /\ q.addr = r.addr /\ q.port = r.port
        /\ q.path = r.path /\ q.identity = r.identity /\ q.xff = x
    BY DEF IsRequest, MwFields
  <2>4. o.req = q /\ o.status = 0
    BY <2>1, GoShape
  <2> HIDE DEF q
  <2> QED
    BY <1>2, <2>2, <2>3, <2>4, PassedOutcome, Zenon
<1>3. CASE kind = "hidexff"
  <2> DEFINE q == [r EXCEPT !.xff = "none"]
  <2>1. o = Go(q)
    BY <1>3 DEF before, hideXForwarded
  <2>2. /\ IsRequest(q) /\ q.peer = r.peer /\ q.asked = r.asked /\ q.addr = r.addr /\ q.port = r.port
        /\ q.path = r.path /\ q.identity = r.identity /\ q.xff = "none"
    BY DEF IsRequest, MwFields
  <2>3. o.req = q /\ o.status = 0
    BY <2>1, GoShape
  <2> HIDE DEF q
  <2> QED
    BY <1>3, <2>2, <2>3, PassedOutcome, Zenon
<1>4. CASE kind = "prefix"
  <2> DEFINE q == [r EXCEPT !.path = "prefixed"]
  <2>1. o = Go(q)
    BY <1>4 DEF before, modifyRequest
  <2>2. /\ IsRequest(q) /\ q.peer = r.peer /\ q.asked = r.asked /\ q.addr = r.addr /\ q.port = r.port
        /\ q.path = "prefixed" /\ q.identity = r.identity /\ q.xff = r.xff
    BY DEF IsRequest, MwFields
  <2>3. o.req = q /\ o.status = 0
    BY <2>1, GoShape
  <2> HIDE DEF q
  <2> QED
    BY <1>4, <2>2, <2>3, PassedOutcome, Zenon
<1>5. CASE kind = "html"
  <2> DEFINE q == [r EXCEPT !.identity = TRUE]
  <2>1. o = Go(q)
    BY <1>5 DEF before
  <2>2. /\ IsRequest(q) /\ q.peer = r.peer /\ q.asked = r.asked /\ q.addr = r.addr /\ q.port = r.port
        /\ q.path = r.path /\ q.identity = TRUE /\ q.xff = r.xff
    BY DEF IsRequest, MwFields
  <2>3. o.req = q /\ o.status = 0
    BY <2>1, GoShape
  <2> HIDE DEF q
  <2> QED
    BY <1>5, <2>2, <2>3, PassedOutcome, Zenon
<1>6. CASE kind \notin {"realip", "cloudflare", "setxff", "hidexff", "prefix", "html"}
  <2>1. Plain(o, r)
    <3>1. CASE kind = "cidr"
      <4>1. o \in CheckIP(r)
        BY <3>1 DEF before
      <4>2. \E st : o = Keep(Go(r), st) \/ o = Keep(Answer(r, 403), st)
        BY <4>1, ZenonT(60) DEF CheckIP
      <4> QED
        BY <4>2, GoPlain, AnswerPlain, KeepPlain
    <3>2. CASE kind = "rate"
      <4>1. o \in limit(r)
        BY <3>2 DEF before
      <4>2. \E st : o = Keep(Go(r), st) \/ o = Answer(r, 500) \/ o = Answer(r, 429)
        BY <4>1 DEF limit
      <4> QED
        BY <4>2, GoPlain, AnswerPlain, KeepPlain
    <3>3. CASE kind = "redirect"
      <4>1. o = Go(r) \/ o = Answer(r, 308)
        BY <3>3 DEF before, redirectHTTP
      <4> QED
        BY <4>1, GoPlain, AnswerPlain, KeepPlain
    <3>4. CASE kind = "errorpage"
      <4>1. o = Go(r) \/ o = Answer(r, 200)
        BY <3>4 DEF before
      <4> QED
        BY <4>1, GoPlain, AnswerPlain, KeepPlain
    <3>5. CASE kind = "forwardauth"
      <4>1. o = Go(r) \/ o = Answer(r, 500) \/ o = Answer(r, 401)
        BY <3>5 DEF before, ForwardAuth
      <4> QED
        BY <4>1, GoPlain, AnswerPlain, KeepPlain
    <3>6. CASE kind = "crowdsec"
      <4>1. o = Go(r) \/ o = Answer(r, 500) \/ o = Answer(r, 403)
        BY <3>6 DEF before, Crowdsec
      <4> QED
        BY <4>1, GoPlain, AnswerPlain, KeepPlain
    <3>7. CASE kind = "captcha"
      <4>1. o \in Captcha(r)
        BY <3>7 DEF before
      <4> DEFINE st == [mwState EXCEPT !.session = TRUE]
      <4>2. \/ o = Go(r) \/ o = Answer(r, 403) \/ o = Answer(r, 401) \/ o = Answer(r, 200)
            \/ o = Keep(Answer(r, 302), st)
        BY <4>1 DEF Captcha
      <4> HIDE DEF st
      <4> QED
        BY <4>2, GoPlain, AnswerPlain, KeepPlain
    <3>8. CASE kind = "oidc"
      <4>1. o \in Oidc(r)
        BY <3>8 DEF before
      <4> DEFINE out   == [Go(r) EXCEPT !.status = 302]
                 ready == IF r.path = "logout" THEN {out} ELSE {Go(r), Answer(r, 302), Answer(r, 403)}
                 made  == [mwState EXCEPT !.oidc = "ready"]
                 lost  == [mwState EXCEPT !.oidc = "broken"]
      <4>2. \/ o \in ready \/ o = Keep(Answer(r, 500), lost) \/ o = Answer(r, 500)
            \/ \E x \in ready : o = Keep(x, made)
        <5>1. CASE mwState.oidc = "new"
          <6>1. Oidc(r) = {Keep(x, made) : x \in ready} \union {Keep(Answer(r, 500), lost)}
            BY <5>1 DEF Oidc
          <6> HIDE DEF ready, made, lost
          <6> QED
            BY <4>1, <6>1
        <5>2. CASE mwState.oidc = "ready"
          <6>1. Oidc(r) = ready
            BY <5>2 DEF Oidc
          <6> HIDE DEF ready
          <6> QED
            BY <4>1, <6>1
        <5>3. CASE mwState.oidc \notin {"new", "ready"}
          <6>1. Oidc(r) = {Answer(r, 500)}
            BY <5>3 DEF Oidc
          <6> QED
            BY <4>1, <6>1
        <5> QED
          BY <5>1, <5>2, <5>3
      <4>3. ASSUME NEW x \in ready PROVE Plain(x, r)
        <5>1. CASE r.path = "logout"
          <6>1. x = out
            BY <5>1
          <6> HIDE DEF ready
          <6> QED
            BY <5>1, <6>1, LogoutPlain
        <5>2. CASE r.path # "logout"
          <6>1. x = Go(r) \/ x = Answer(r, 302) \/ x = Answer(r, 403)
            BY <5>2
          <6> HIDE DEF ready, out
          <6> QED
            BY <6>1, GoPlain, AnswerPlain
        <5> QED
          BY <5>1, <5>2
      <4> HIDE DEF ready, made, lost, out
      <4>4. Plain(Answer(r, 500), r)
        BY AnswerPlain
      <4>5. Plain(Keep(Answer(r, 500), lost), r)
        BY <4>4, KeepPlain
      <4>6. \A x \in ready : Plain(Keep(x, made), r)
        BY <4>3, KeepPlain
      <4> QED
        BY <4>2, <4>3, <4>4, <4>5, <4>6
    <3>9. CASE kind \notin {"cidr", "rate", "redirect", "errorpage", "forwardauth", "crowdsec", "captcha", "oidc"}
      <4>1. o = Go(r)
        BY <1>6, <3>9 DEF before
      <4> QED
        BY <4>1, GoPlain, AnswerPlain, KeepPlain
    <3> QED
      BY <3>1, <3>2, <3>3, <3>4, <3>5, <3>6, <3>7, <3>8, <3>9
  <2> QED
    BY <1>6, <2>1, PlainOutcome
<1> QED
  BY <1>1, <1>2, <1>3, <1>4, <1>5, <1>6

(***************************************************************************)
(* The inductive invariant.                                                *)
(***************************************************************************)
Injected  == \E i \in mwSeen : Kind(i) = "html"
Forwarded == \E i \in mwSeen : Kind(i) \in {"setxff", "hidexff"}

RequestOK ==
  /\ IsRequest(mwReq)
  /\ mwReq.path = mwReq.asked \/ (mwReq.path = "prefixed" /\ Has("prefix"))
  /\ mwReq.port = TRUE => mwReq.addr = mwReq.peer
  /\ mwReq.peer \notin Trusted => mwReq.addr = mwReq.peer
  /\ Forwarded => mwReq.xff \in {"none", mwReq.peer}
  /\ Injected => mwReq.identity = TRUE

GateOK(i) ==
  Kind(i) \in Gates =>
    \/ i \in mwSeen
    \/ /\ mwReq.asked \in mwChain[i].bypass
       /\ Kind(i) = "oidc" => mwReq.asked \notin {"auth", "logout"}
    \/ mwReq.path = "prefixed" /\ "prefixed" \in mwChain[i].bypass /\ Has("prefix")

AnswerOK ==
  /\ mwPhase = "before" =>
       /\ mwResp.upstream = FALSE /\ (mwReq.asked # "logout" => mwResp.hits = 0)
       /\ \A i \in 1..(mwAt - 1) : GateOK(i)
  /\ mwResp.upstream = TRUE =>
       /\ \A i \in DOMAIN mwChain : GateOK(i)
       /\ Injected => mwResp.plain = TRUE /\ mwResp.described = TRUE
  /\ mwReq.asked # "logout" => mwResp.hits <= 1

NoRequest == mwReq = <<>> /\ mwPhase \in {"build", "idle"} /\ mwResp.upstream = FALSE

MwInv == MwTypeOK /\ (NoRequest \/ (RequestOK /\ AnswerOK /\ mwPhase # "build"))

LEMMA MwInitInv == MiddlewareInit => MwInv
<1> SUFFICES ASSUME MiddlewareInit PROVE MwInv
  OBVIOUS
<1>1. mwChain = <<>> /\ mwAt = 0 /\ mwPhase = "build" /\ mwReq = <<>> /\ mwResp = NoAnswer
  BY DEF MiddlewareInit
<1>2. mwResp \in MwAnswers /\ mwResp.upstream = FALSE
  BY <1>1 DEF NoAnswer, MwAnswers
<1>3. Len(mwChain) \in Nat /\ DOMAIN mwChain = 1..Len(mwChain)
  BY <1>1
<1> QED
  BY <1>1, <1>2, <1>3 DEF MwInv, MwTypeOK, NoRequest

LEMMA MwPatchInv == MwInv /\ PatchReverseProxy => MwInv'
<1> SUFFICES ASSUME MwInv, PatchReverseProxy PROVE MwInv'
  OBVIOUS
<1> USE DEF PatchReverseProxy
<1>1. PICK cfg \in MwConfigs : mwChain' \in compileMiddlewares(cfg)
  OBVIOUS
<1>2. mwChain' \in [1..Cardinality(cfg) -> cfg]
  BY <1>1 DEF compileMiddlewares, SetToSeqs
<1>3. Cardinality(cfg) \in Nat
  BY FS_CardinalityType, MiddlewareAssumption
<1>4. Len(mwChain') = Cardinality(cfg) /\ DOMAIN mwChain' = 1..Cardinality(cfg)
  BY <1>2, <1>3
<1>5. MwTypeOK'
  BY <1>3, <1>4 DEF MwInv, MwTypeOK
<1>6. NoRequest'
  BY DEF MwInv, NoRequest
<1> QED
  BY <1>5, <1>6 DEF MwInv

LEMMA MwArriveInv == MwInv /\ Arrive => MwInv'
<1> SUFFICES ASSUME MwInv, Arrive PROVE MwInv'
  OBVIOUS
<1>1. PICK p \in Peers, c \in Claims, x \in {"none", "forged"}, path \in {"open", "auth", "logout", "static"}, tls \in BOOLEAN :
        mwReq' = [peer |-> p, addr |-> p, port |-> TRUE, claims |-> c, xff |-> x, path |-> path, asked |-> path,
                  tls |-> tls, cookie |-> TRUE, identity |-> FALSE]
  BY DEF Arrive
<1>2. mwPhase' = "before" /\ mwAt' = 1 /\ mwResp' = NoAnswer /\ mwSeen' = {} /\ mwChain' = mwChain
  BY DEF Arrive
<1>3. mwResp' \in MwAnswers /\ mwResp'.upstream = FALSE /\ mwResp'.hits = 0
  BY <1>2 DEF NoAnswer, MwAnswers
<1>4. Len(mwChain) \in Nat /\ DOMAIN mwChain = 1..Len(mwChain)
  BY DEF MwInv, MwTypeOK
<1>5. DOMAIN mwReq' = MwFields /\ mwReq'.port \in BOOLEAN /\ mwReq'.identity \in BOOLEAN
  BY <1>1 DEF MwFields
<1>6. mwReq'.path = mwReq'.asked /\ mwReq'.addr = mwReq'.peer
  BY <1>1
<1>7. MwTypeOK'
  BY <1>2, <1>3, <1>4, <1>5 DEF MwTypeOK, IsRequest
<1>8. RequestOK'
  BY <1>2, <1>5, <1>6 DEF RequestOK, IsRequest, Forwarded, Injected
<1>9. AnswerOK'
  BY <1>2, <1>3 DEF AnswerOK
<1> QED
  BY <1>2, <1>7, <1>8, <1>9 DEF MwInv

(* A gate that let the request pass, or was bypassed, stays so: an address *)
(* or a path that changes later is one the bypass allows.                  *)
LEMMA GateStays ==
  ASSUME NEW i, GateOK(i), mwChain' = mwChain, mwSeen \subseteq mwSeen',
         mwReq'.asked = mwReq.asked, mwReq'.path = mwReq.path \/ mwReq'.path = "prefixed"
  PROVE  GateOK(i)'
BY DEF GateOK, Kind, Has

(* A request bypasses a middleware: that one did not have to agree.        *)
LEMMA BypassInv ==
  ASSUME MwInv, ChainBefore, Bypassed(mwChain[mwAt], mwReq.path)
  PROVE  MwInv'
<1>1. /\ mwPhase = "before" /\ mwAt <= Len(mwChain) /\ mwAt' = mwAt + 1
      /\ UNCHANGED <<mwReq, mwPhase, mwResp, mwState, mwSeen, mwChain, mwCount>>
  BY DEF ChainBefore
<1>2. MwTypeOK /\ RequestOK /\ AnswerOK
  BY <1>1 DEF MwInv, NoRequest
<1>3. mwAt \in 1..(Len(mwChain) + 1) /\ Len(mwChain) \in Nat /\ mwAt \in Nat
  BY <1>1, <1>2 DEF MwTypeOK
<1>4. MwTypeOK'
  BY <1>1, <1>2, <1>3 DEF MwTypeOK
<1>5. RequestOK'
  BY <1>1, <1>2 DEF RequestOK, Has, Kind, Forwarded, Injected
<1>6. GateOK(mwAt)
  <2>1. mwReq.path \in mwChain[mwAt].bypass
    BY DEF Bypassed
  <2>2. Kind(mwAt) = "oidc" => mwReq.path \notin {"auth", "logout"}
    BY DEF Bypassed, isEnforced, Kind
  <2>3. mwReq.path = mwReq.asked \/ (mwReq.path = "prefixed" /\ Has("prefix"))
    BY <1>2 DEF RequestOK
  <2> QED
    BY <2>1, <2>2, <2>3 DEF GateOK
<1>7. \A i \in 1..(mwAt' - 1) : GateOK(i)
  <2>1. \A i \in 1..(mwAt - 1) : GateOK(i)
    BY <1>1, <1>2 DEF AnswerOK
  <2>2. \A i \in 1..(mwAt' - 1) : i \in 1..(mwAt - 1) \/ i = mwAt
    BY <1>1, <1>3
  <2> QED
    BY <1>6, <2>1, <2>2
<1>8. \A i \in 1..(mwAt' - 1) : GateOK(i)'
  BY <1>1, <1>7 DEF GateOK, Kind, Has
<1>9. AnswerOK'
  BY <1>1, <1>2, <1>8 DEF AnswerOK
<1> QED
  BY <1>1, <1>4, <1>5, <1>9 DEF MwInv

(* The request part of a middleware runs.                                  *)
LEMMA BeforeInv ==
  ASSUME MwInv, ChainBefore, ~Bypassed(mwChain[mwAt], mwReq.path)
  PROVE  MwInv'
<1> DEFINE kind == mwChain[mwAt].kind
<1>1. mwPhase = "before" /\ mwAt <= Len(mwChain) /\ mwChain' = mwChain
  BY DEF ChainBefore
<1>2. PICK o \in before(kind, mwReq) :
        /\ mwReq' = o.req
        /\ mwResp' = IF o.status = 0 THEN mwResp ELSE [mwResp EXCEPT !.status = o.status, !.hits = @ + 1]
        /\ IF o.go THEN mwAt' = mwAt + 1 /\ mwSeen' = mwSeen \union {mwAt} /\ mwPhase' = mwPhase
                   ELSE mwPhase' = "idle" /\ mwAt' = mwAt /\ mwSeen' = mwSeen
  BY DEF ChainBefore
<1>3. MwTypeOK /\ RequestOK /\ AnswerOK
  BY <1>1 DEF MwInv, NoRequest
<1>4. mwAt \in 1..(Len(mwChain) + 1) /\ Len(mwChain) \in Nat /\ mwAt \in Nat /\ DOMAIN mwChain = 1..Len(mwChain)
  BY <1>1, <1>3 DEF MwTypeOK
<1>5. Outcome(o, kind, mwReq)
  BY <1>2, <1>3, BeforeOutcome DEF RequestOK
<1> HIDE DEF kind
<1>6. /\ IsRequest(mwReq') /\ mwReq'.peer = mwReq.peer /\ mwReq'.asked = mwReq.asked
      /\ mwReq.peer \notin Trusted /\ mwReq.addr = mwReq.peer => mwReq'.addr = mwReq.addr
      /\ mwReq'.port = FALSE \/ (mwReq'.port = mwReq.port /\ mwReq'.addr = mwReq.addr)
      /\ mwReq'.path = mwReq.path \/ (kind = "prefix" /\ mwReq'.path = "prefixed")
      /\ mwReq'.identity = TRUE \/ (kind # "html" /\ mwReq'.identity = mwReq.identity)
      /\ \/ kind \notin {"setxff", "hidexff"} /\ mwReq'.xff = mwReq.xff
         \/ mwReq'.xff = "none"
         \/ mwReq.port = TRUE /\ mwReq'.xff = mwReq.addr
  BY <1>2, <1>5 DEF Outcome
<1>7. o.status \in Int /\ (o.go = FALSE \/ o.status = 0 \/ mwReq.path = "logout")
  BY <1>5 DEF Outcome
<1>8. \/ mwAt' = mwAt + 1 /\ mwSeen' = mwSeen \union {mwAt} /\ mwPhase' = "before"
      \/ o.go # TRUE /\ mwPhase' = "idle" /\ mwAt' = mwAt /\ mwSeen' = mwSeen
  <2>1. CASE o.go
    BY <1>1, <1>2, <2>1
  <2>2. CASE ~o.go
    BY <1>2, <2>2
  <2> QED
    BY <2>1, <2>2
<1>9. /\ mwResp' \in MwAnswers /\ mwResp'.upstream = mwResp.upstream
      /\ mwResp'.hits = mwResp.hits \/ (o.status # 0 /\ mwResp'.hits = mwResp.hits + 1)
  <2>1. mwResp \in MwAnswers
    BY <1>3 DEF MwTypeOK
  <2>2. CASE o.status = 0
    BY <1>2, <2>1, <2>2
  <2>3. CASE o.status # 0
    <3>1. mwResp' = [mwResp EXCEPT !.status = o.status, !.hits = @ + 1]
      BY <1>2, <2>3
    <3>2. mwResp.hits \in Nat
      BY <2>1 DEF MwAnswers
    <3>3. mwResp'.hits = mwResp.hits + 1 /\ mwResp'.upstream = mwResp.upstream
      BY <2>1, <3>1 DEF MwAnswers
    <3>4. mwResp.hits + 1 \in Nat
      BY <3>2
    <3>5. mwResp' \in MwAnswers
      BY <1>7, <2>1, <3>1, <3>4 DEF MwAnswers
    <3> QED
      BY <2>3, <3>3, <3>5
  <2> QED
    BY <2>2, <2>3
<1>10. MwTypeOK'
  <2>1. mwAt' \in Nat /\ (mwPhase' = "before" => mwAt' \in 1..(Len(mwChain') + 1)) /\ mwPhase' \in {"idle", "before"}
    <3>1. CASE mwAt' = mwAt + 1 /\ mwPhase' = "before"
      BY <1>1, <1>4, <3>1
    <3>2. CASE mwAt' = mwAt /\ mwPhase' = "idle"
      BY <1>4, <3>2
    <3> QED
      BY <1>8, <3>1, <3>2
  <2> QED
    BY <1>1, <1>4, <1>6, <1>9, <2>1 DEF MwTypeOK
<1>11. RequestOK'
  <2>1. kind = "prefix" => Has("prefix")
    BY <1>1, <1>4 DEF Has, Kind, kind
  <2>2. Has("prefix")' <=> Has("prefix")
    BY <1>1 DEF Has, Kind
  <2>3. mwReq'.path = mwReq'.asked \/ (mwReq'.path = "prefixed" /\ Has("prefix")')
    BY <1>3, <1>6, <2>1, <2>2 DEF RequestOK
  <2>4. mwReq'.port = TRUE => mwReq'.addr = mwReq'.peer
    BY <1>3, <1>6 DEF RequestOK
  <2>5. mwReq'.peer \notin Trusted => mwReq'.addr = mwReq'.peer
    BY <1>3, <1>6 DEF RequestOK
  <2>6. Forwarded' => Forwarded \/ kind \in {"setxff", "hidexff"}
    BY <1>1, <1>8 DEF Forwarded, Kind, kind
  <2>7. Injected' => Injected \/ kind = "html"
    BY <1>1, <1>8 DEF Injected, Kind, kind
  <2>8. Forwarded' => mwReq'.xff \in {"none", mwReq'.peer}
    BY <1>3, <1>6, <2>6 DEF RequestOK
  <2>9. Injected' => mwReq'.identity = TRUE
    BY <1>3, <1>6, <2>7 DEF RequestOK
  <2> QED
    BY <1>6, <2>3, <2>4, <2>5, <2>8, <2>9 DEF RequestOK
<1>12. mwResp.upstream = FALSE /\ (mwReq.asked # "logout" => mwResp.hits = 0) /\ \A i \in 1..(mwAt - 1) : GateOK(i)
  BY <1>1, <1>3 DEF AnswerOK
<1>13. AnswerOK'
  <2>1. mwSeen \subseteq mwSeen'
    BY <1>8
  <2>2. ASSUME mwPhase' = "before", NEW i \in 1..(mwAt' - 1) PROVE GateOK(i)'
    <3>1. mwAt' = mwAt + 1
      BY <1>8, <2>2
    <3>2. i \in 1..(mwAt - 1) \/ i = mwAt
      BY <1>4, <2>2, <3>1
    <3>3. CASE i \in 1..(mwAt - 1)
      BY <1>1, <1>6, <1>12, <2>1, <3>3, GateStays
    <3>4. CASE i = mwAt
      <4>1. mwAt \in mwSeen'
        BY <1>8, <2>2
      <4> QED
        BY <3>4, <4>1 DEF GateOK
    <3> QED
      BY <3>2, <3>3, <3>4
  <2>3. mwReq'.asked # "logout" => mwReq.path # "logout" /\ mwResp.hits = 0
    BY <1>3, <1>6, <1>12 DEF RequestOK
  <2>4. mwPhase' = "before" /\ mwReq'.asked # "logout" => mwResp'.hits = 0
    <3> SUFFICES ASSUME mwPhase' = "before", mwReq'.asked # "logout" PROVE mwResp'.hits = 0
      OBVIOUS
    <3>1. CASE o.status = 0
      BY <1>9, <2>3, <3>1
    <3>2. CASE o.status # 0
      <4>1. o.go = FALSE
        BY <1>7, <2>3, <3>2
      <4>2. mwPhase' = "idle"
        BY <1>2, <4>1
      <4> QED
        BY <4>2
    <3> QED
      BY <3>1, <3>2
  <2>5. mwReq'.asked # "logout" => mwResp'.hits <= 1
    BY <1>9, <2>3
  <2>6. mwResp'.upstream = FALSE
    BY <1>9, <1>12
  <2> QED
    BY <2>2, <2>4, <2>5, <2>6 DEF AnswerOK
<1> QED
  BY <1>8, <1>10, <1>11, <1>13 DEF MwInv

LEMMA MwChainBeforeInv == MwInv /\ ChainBefore => MwInv'
BY BypassInv, BeforeInv

LEMMA UpstreamedInv == MwInv /\ Upstreamed => MwInv'
<1> SUFFICES ASSUME MwInv, Upstreamed PROVE MwInv'
  OBVIOUS
<1>1. /\ mwPhase = "before" /\ mwAt = Len(mwChain) + 1 /\ mwPhase' = "after" /\ mwAt' = 1
      /\ UNCHANGED <<mwChain, mwReq, mwState, mwSeen, mwCount>>
  BY DEF Upstreamed
<1>2. PICK s \in {200, 404}, h \in BOOLEAN, z \in BOOLEAN :
        /\ z => ~mwReq.identity
        /\ mwResp' = [status |-> s, html |-> h, plain |-> ~z, described |-> TRUE, hits |-> mwResp.hits + 1, upstream |-> TRUE]
  BY DEF Upstreamed
<1>3. MwTypeOK /\ RequestOK /\ AnswerOK
  BY <1>1 DEF MwInv, NoRequest
<1>4. mwResp.hits \in Nat
  BY <1>3 DEF MwTypeOK, MwAnswers
<1>5. mwResp'.hits = mwResp.hits + 1 /\ mwResp'.described = TRUE
  BY <1>2
<1>6. mwResp' \in MwAnswers
  BY <1>2, <1>4 DEF MwAnswers
<1>7. Len(mwChain) \in Nat /\ DOMAIN mwChain = 1..Len(mwChain)
  BY <1>3 DEF MwTypeOK
<1>8. MwTypeOK'
  BY <1>1, <1>3, <1>6, <1>7 DEF MwTypeOK
<1>9. RequestOK'
  BY <1>1, <1>3 DEF RequestOK, Has, Kind, Forwarded, Injected
<1>10. \A i \in DOMAIN mwChain' : GateOK(i)'
  <2>1. \A i \in 1..(mwAt - 1) : GateOK(i)
    BY <1>1, <1>3 DEF AnswerOK
  <2>2. \A i \in DOMAIN mwChain : GateOK(i)
    BY <1>1, <1>7, <2>1
  <2> QED
    BY <1>1, <2>2 DEF GateOK, Kind, Has
<1>11. Injected' => mwResp'.plain = TRUE
  <2> SUFFICES ASSUME Injected' PROVE mwResp'.plain = TRUE
    OBVIOUS
  <2>1. mwReq.identity = TRUE
    BY <1>1, <1>3 DEF RequestOK, Injected, Kind
  <2>2. z = FALSE
    BY <1>2, <2>1
  <2> QED
    BY <1>2, <2>2
<1>12. mwReq'.asked # "logout" => mwResp'.hits <= 1
  BY <1>1, <1>3, <1>5 DEF AnswerOK
<1>13. AnswerOK'
  BY <1>1, <1>5, <1>10, <1>11, <1>12 DEF AnswerOK
<1> QED
  BY <1>1, <1>8, <1>9, <1>13 DEF MwInv

(* The response parts keep a described body described: what they replace   *)
(* was plain, since the request asked for it.                              *)
LEMMA MwChainAfterInv == MwInv /\ ChainAfter => MwInv'
<1> SUFFICES ASSUME MwInv, ChainAfter PROVE MwInv'
  OBVIOUS
<1>1. /\ mwPhase = "after" /\ mwAt <= Len(mwChain) /\ mwAt' = mwAt + 1
      /\ UNCHANGED <<mwChain, mwReq, mwPhase, mwState, mwSeen, mwCount>>
  BY DEF ChainAfter
<1>2. mwResp' = mwResp \/ mwResp' = modifyHTML(mwResp) \/ mwResp' = customErrorPage(mwResp)
  BY DEF ChainAfter
<1>3. MwTypeOK /\ RequestOK /\ AnswerOK
  BY <1>1 DEF MwInv, NoRequest
<1>4. mwResp \in MwAnswers
  BY <1>3 DEF MwTypeOK
<1>5. /\ mwResp' \in MwAnswers /\ mwResp'.upstream = mwResp.upstream /\ mwResp'.hits = mwResp.hits
      /\ \/ mwResp'.plain = mwResp.plain /\ mwResp'.described = mwResp.described
         \/ mwResp'.plain = TRUE /\ mwResp'.described = mwResp.plain
  <2>1. CASE mwResp' = mwResp
    BY <1>4, <2>1
  <2>2. CASE mwResp' = [mwResp EXCEPT !.described = mwResp.plain, !.plain = TRUE]
    BY <1>4, <2>2 DEF MwAnswers
  <2>3. CASE mwResp' = [mwResp EXCEPT !.html = TRUE, !.described = mwResp.plain, !.plain = TRUE]
    BY <1>4, <2>3 DEF MwAnswers
  <2> QED
    BY <1>2, <2>1, <2>2, <2>3 DEF modifyHTML, customErrorPage
<1>6. Len(mwChain) \in Nat /\ DOMAIN mwChain = 1..Len(mwChain) /\ mwAt \in 1..(Len(mwChain) + 1)
  BY <1>1, <1>3 DEF MwTypeOK
<1>7. MwTypeOK'
  BY <1>1, <1>3, <1>5, <1>6 DEF MwTypeOK
<1>8. RequestOK'
  BY <1>1, <1>3 DEF RequestOK, Has, Kind, Forwarded, Injected
<1>9. \A i : GateOK(i)' <=> GateOK(i)
  BY <1>1 DEF GateOK, Kind, Has
<1>10. Injected' <=> Injected
  BY <1>1 DEF Injected, Kind
<1>11. AnswerOK'
  BY <1>1, <1>3, <1>5, <1>9, <1>10 DEF AnswerOK
<1> QED
  BY <1>1, <1>7, <1>8, <1>11 DEF MwInv

(* The other steps leave the request, its answer and the chain alone.      *)
LEMMA MwRestInv ==
  ASSUME MwInv, UNCHANGED <<mwChain, mwReq, mwAt, mwResp, mwSeen>>,
         mwPhase' = mwPhase \/ (mwPhase = "after" /\ mwPhase' = "idle")
  PROVE  MwInv'
<1>1. MwTypeOK'
  BY DEF MwInv, MwTypeOK
<1>2. CASE NoRequest
  BY <1>1, <1>2 DEF MwInv, NoRequest
<1>3. CASE RequestOK /\ AnswerOK /\ mwPhase # "build"
  <2>1. RequestOK'
    BY <1>3 DEF RequestOK, Has, Kind, Forwarded, Injected
  <2>2. \A i : GateOK(i)' <=> GateOK(i)
    BY DEF GateOK, Kind, Has
  <2>3. Injected' <=> Injected
    BY DEF Injected, Kind
  <2>4. AnswerOK'
    BY <1>3, <2>2, <2>3 DEF AnswerOK
  <2> QED
    BY <1>1, <1>3, <2>1, <2>4 DEF MwInv
<1> QED
  BY <1>2, <1>3 DEF MwInv

LEMMA MwNextInv == MwInv /\ [MiddlewareNext]_mwVars => MwInv'
<1> SUFFICES ASSUME MwInv, [MiddlewareNext]_mwVars PROVE MwInv'
  OBVIOUS
<1>1. CASE PatchReverseProxy
  BY <1>1, MwPatchInv
<1>2. CASE Arrive
  BY <1>2, MwArriveInv
<1>3. CASE ChainBefore
  BY <1>3, MwChainBeforeInv
<1>4. CASE Upstreamed
  BY <1>4, UpstreamedInv
<1>5. CASE ChainAfter
  BY <1>5, MwChainAfterInv
<1>6. CASE Responded
  BY <1>6, MwRestInv DEF Responded
<1>7. CASE MwRefill
  BY <1>7, MwRestInv DEF MwRefill
<1>8. CASE SessionExpires
  BY <1>8, MwRestInv DEF SessionExpires
<1>9. CASE UNCHANGED mwVars
  BY <1>9, MwRestInv DEF mwVars
<1> QED
  BY <1>1, <1>2, <1>3, <1>4, <1>5, <1>6, <1>7, <1>8, <1>9 DEF MiddlewareNext

(***************************************************************************)
(* A pass over the files of composed middlewares keeps what is known and   *)
(* adds every chain of known middlewares, whichever file it is in.         *)
(***************************************************************************)
LEMMA ComposePass ==
  ASSUME NEW B
  PROVE  /\ B \subseteq FoldLeft(LoadFile, B, ComposeFiles)
         /\ \A j \in DOMAIN ComposeFiles : \A name \in DOMAIN ComposeFiles[j] :
              ToSet(ComposeFiles[j][name]) \subseteq B => name \in FoldLeft(LoadFile, B, ComposeFiles)
<1> DEFINE files == ComposeFiles
           n == Len(files)
           U == B \union UNION {DOMAIN files[j] : j \in 1..n}
           V == SUBSET U
           IsFold(h) == h = [s \in SUBSET DOMAIN files |->
             IF s = {} THEN B ELSE LoadFile(h[s \ {Max(s)}], files[Max(s)])]
           fold  == CHOOSE h : IsFold(h)
           F     == [k \in 1..n |-> [v \in V |-> LoadFile(v, files[k])]]
<1>1. n \in Nat /\ DOMAIN files = 1..n
  BY MiddlewareAssumption
<1>2. FoldLeft(LoadFile, B, files) = fold[DOMAIN files]
  BY DEF FoldLeft, MapThenFoldSet
<1>3. F \in [1..n -> [V -> V]]
  <2>1. ASSUME NEW k \in 1..n, NEW v \in V PROVE LoadFile(v, files[k]) \in V
    <3>1. DOMAIN files[k] \subseteq U
      OBVIOUS
    <3> HIDE DEF U
    <3> QED
      BY <3>1 DEF LoadFile
  <2> HIDE DEF V, n, files
  <2> QED
    BY <2>1
<1>4. PICK h \in [SUBSET (1..n) -> V] : LeftFold(h, n, V, B, F)
  <2>1. B \in V
    OBVIOUS
  <2> HIDE DEF V, n, F
  <2> QED
    BY <1>1, <1>3, <2>1, LeftFoldExists
<1>5. IsFold(h)
  <2>1. ASSUME NEW s \in SUBSET (1..n)
        PROVE  h[s] = IF s = {} THEN B ELSE LoadFile(h[s \ {Max(s)}], files[Max(s)])
    <3>1. CASE s = {}
      BY <1>4, <3>1 DEF LeftFold
    <3>2. CASE s # {}
      <4> DEFINE m == Max(s)
      <4>1. m \in 1..n /\ h[s \ {m}] \in V /\ h[s] = F[m][h[s \ {m}]]
        BY <1>4, <3>2 DEF LeftFold
      <4> HIDE DEF m, n, V, files
      <4>2. h[s] = LoadFile(h[s \ {m}], files[m])
        BY <4>1
      <4> QED
        BY <3>2, <4>2 DEF m
    <3> QED
      BY <3>1, <3>2
  <2> QED
    BY <1>1, <2>1
<1>6. IsFold(fold)
  BY <1>5
<1>7. \A s \in SUBSET (1..n) :
        fold[s] = IF s = {} THEN B ELSE LoadFile(fold[s \ {Max(s)}], files[Max(s)])
  <2> HIDE DEF fold
  <2> QED
    BY <1>1, <1>6
<1> HIDE DEF fold
<1> DEFINE Loaded(i) == /\ B \subseteq fold[1..i]
                        /\ \A j \in 1..i : \A name \in DOMAIN files[j] :
                             ToSet(files[j][name]) \subseteq B => name \in fold[1..i]
           T == {i \in 0..n : Loaded(i)}
<1>8. 0 \in T
  <2>1. 1..0 = {} /\ 0 \in 0..n
    BY <1>1
  <2>2. fold[1..0] = B
    BY <1>7, <2>1
  <2> QED
    BY <2>1, <2>2
<1>9. ASSUME NEW i \in 0..(n - 1), i \in T PROVE i + 1 \in T
  <2> DEFINE m == i + 1
  <2>1. m \in Nat \ {0} /\ m - 1 = i /\ m \in 0..n /\ 1..m \in SUBSET (1..n) /\ (\A j \in 1..m : j \in 1..i \/ j = m)
    BY <1>1
  <2> HIDE DEF m
  <2>2. Max(1..m) = m /\ (1..m) \ {m} = 1..(m - 1) /\ 1..m # {}
    BY <2>1, PrefixMax
  <2>3. fold[1..m] = LoadFile(fold[1..i], files[m])
    BY <1>7, <2>1, <2>2
  <2>4. Loaded(i)
    BY <1>9
  <2> HIDE DEF files, n
  <2>5. B \subseteq fold[1..m]
    BY <2>3, <2>4 DEF LoadFile
  <2>6. ASSUME NEW j \in 1..m, NEW name \in DOMAIN files[j], ToSet(files[j][name]) \subseteq B
        PROVE  name \in fold[1..m]
    <3>1. CASE j \in 1..i
      BY <2>3, <2>4, <2>6, <3>1 DEF LoadFile
    <3>2. CASE j = m
      <4>1. ToSet(files[m][name]) \subseteq fold[1..i]
        BY <2>4, <2>6, <3>2
      <4> QED
        BY <2>3, <2>6, <3>2, <4>1 DEF LoadFile
    <3> QED
      BY <2>1, <3>1, <3>2
  <2>7. Loaded(m)
    BY <2>5, <2>6
  <2> HIDE DEF Loaded
  <2> QED
    BY <2>1, <2>7 DEF m
<1> HIDE DEF T
<1>10. 0..n \subseteq T
  BY <1>1, <1>8, <1>9, BoundedInduction
<1>11. Loaded(n)
  BY <1>1, <1>10 DEF T
<1> QED
  BY <1>1, <1>2, <1>11

(* Two passes resolve the chains that use chains of built-in ones.         *)
LEMMA TwoPasses == ComposeResolved
<1> DEFINE files == ComposeFiles
           defs == UNION {DOMAIN files[i] : i \in DOMAIN files}
           uses(n) == UNION {ToSet(files[i][n]) : i \in {j \in DOMAIN files : n \in DOMAIN files[j]}}
           plainOnes == {n \in defs : uses(n) \subseteq BuiltIn}
           once == FoldLeft(LoadFile, BuiltIn, files)
           twice == FoldLeft(LoadFile, once, files)
<1>1. ASSUME NEW n \in defs, NEW S, uses(n) \subseteq S
      PROVE  \E j \in DOMAIN files : n \in DOMAIN files[j] /\ ToSet(files[j][n]) \subseteq S
  <2>1. PICK j \in DOMAIN files : n \in DOMAIN files[j]
    OBVIOUS
  <2>2. ToSet(files[j][n]) \subseteq uses(n)
    BY <2>1
  <2> QED
    BY <1>1, <2>1, <2>2
<1>2. BuiltIn \subseteq once
  BY ComposePass
<1>3. ASSUME NEW n \in plainOnes PROVE n \in once
  <2>1. n \in defs /\ uses(n) \subseteq BuiltIn
    OBVIOUS
  <2>2. PICK j \in DOMAIN files : n \in DOMAIN files[j] /\ ToSet(files[j][n]) \subseteq BuiltIn
    BY <1>1, <2>1
  <2> QED
    BY <2>2, ComposePass
<1>4. ASSUME NEW n \in defs, uses(n) \subseteq BuiltIn \union plainOnes PROVE n \in twice
  <2>1. uses(n) \subseteq once
    BY <1>2, <1>3, <1>4
  <2>2. PICK j \in DOMAIN files : n \in DOMAIN files[j] /\ ToSet(files[j][n]) \subseteq once
    BY <1>1, <2>1
  <2> QED
    BY <2>2, ComposePass
<1>5. twice = LoadComposeFiles(files)
  BY DEF LoadComposeFiles
<1>6. {n \in defs : uses(n) \subseteq BuiltIn \union plainOnes} \subseteq LoadComposeFiles(files)
  BY <1>4, <1>5
<1> QED
  BY <1>6 DEF ComposeResolved

(***************************************************************************)
(* The chain is sound: the gates of a chain agree before the upstream is   *)
(* asked, the address a client has is the peer's own unless the peer is    *)
(* trusted, one answer is written, an injected body is described by its    *)
(* headers, and two passes resolve the composed middlewares.               *)
(***************************************************************************)
THEOREM MiddlewaresAreSound == MiddlewareSpec => []MiddlewareSound
<1>1. MwInv => GatesAgree
  <2> SUFFICES ASSUME MwInv, Reached, NEW i \in DOMAIN mwChain, Kind(i) \in Gates
               PROVE  \/ i \in mwSeen
                      \/ /\ mwReq.asked \in mwChain[i].bypass \/ mwReq.path \in mwChain[i].bypass
                         /\ Kind(i) = "oidc" => mwReq.asked \notin {"auth", "logout"} \/ Has("prefix")
    BY DEF GatesAgree
  <2>1. mwResp.upstream = TRUE
    BY DEF Reached, MwInv, MwTypeOK, MwAnswers
  <2>2. GateOK(i)
    BY <2>1 DEF MwInv, NoRequest, AnswerOK
  <2> QED
    BY <2>2 DEF GateOK
<1>2. MwInv => AddressHonest
  <2> SUFFICES ASSUME MwInv, mwPhase \in {"before", "after"}
               PROVE  /\ mwReq.peer \notin Trusted => mwReq.addr = mwReq.peer
                      /\ Forwarded => mwReq.xff \in {"none", mwReq.addr, mwReq.peer}
    BY DEF AddressHonest, Forwarded
  <2>1. RequestOK
    BY DEF MwInv, NoRequest
  <2> QED
    BY <2>1 DEF RequestOK
<1>3. MwInv => AnsweredOnce
  BY DEF MwInv, NoRequest, AnswerOK, AnsweredOnce
<1>4. MwInv => BodyDescribed
  <2> SUFFICES ASSUME MwInv, Reached, Injected PROVE mwResp.described
    BY DEF BodyDescribed, Injected
  <2>1. mwResp.upstream = TRUE
    BY DEF Reached, MwInv, MwTypeOK, MwAnswers
  <2>2. mwResp.described = TRUE
    BY <2>1 DEF MwInv, NoRequest, AnswerOK
  <2> QED
    BY <2>2
<1>5. MwInv => MiddlewareSound
  BY <1>1, <1>2, <1>3, <1>4, TwoPasses DEF MiddlewareSound
<1>6. MiddlewareSpec => []MwInv
  BY MwInitInv, MwNextInv, PTL DEF MiddlewareSpec
<1> QED
  BY <1>5, <1>6, PTL
=============================================================================
