-------------------------- MODULE LifecycleProofs --------------------------
(***************************************************************************)
(* Proofs about a configuration and what begins and ends with it or with   *)
(* its routes; they share no state with each other: the sockets of stream  *)
(* routes (Streams), for any clients and connections; the log file that    *)
(* routes share (AccessLog), for any loggers, lines and sizes, and its     *)
(* rotation in place (LogRotate), for any lines and reads of any size; the *)
(* certificates (Autocert), for any providers, names and cool-downs; and   *)
(* the generations themselves (ConfigReload), for any number of callers    *)
(* and reloads: Reload replaces one by the next without overlap and leaves *)
(* a working state behind whatever its outcome.                            *)
(***************************************************************************)
EXTENDS Streams, AccessLog, LogRotate, Autocert, ConfigReload, DataInduction, SequenceTheorems

(***************************************************************************)
(* Streams.                                                                *)
(***************************************************************************)
UConn == [key : UClients, open : BOOLEAN, handler : BOOLEAN, old : BOOLEAN]

StreamTypes ==
  /\ stDone \in BOOLEAN /\ stClosing \in {"no", "begun", "cleared", "closed"}
  /\ udConn \in [UIds -> UConn] /\ udMade \in 0..MaxUConns /\ udLock \in 0..udMade
  /\ udTable \in [UClients -> 0..udMade] /\ udSnap \in [UClients -> 0..udMade]
  /\ udRemoved \subseteq UClients
  /\ tcPc \in [TConns -> {"new", "preDial", "dial", "dialed", "pipe", "ended", "refused"}]
  /\ tcOpen \subseteq TConns \X {"src", "dst"}

(* A connection belongs to the client it is stored under; the one that the *)
(* goroutine with mu has made is not in the table, and its client has none *)
(* there; one that was not made is not open.                               *)
ConnsKeyed ==
  /\ \A c \in UClients : udTable[c] # 0 => udConn[udTable[c]].key = c /\ udTable[c] # udLock
  /\ udLock # 0 => udTable[udConn[udLock].key] = 0
  /\ \A i \in UIds : udConn[i].open => i <= udMade

(* Until Close clears the table, what the cleaner cloned is still in the   *)
(* table, and what it will delete is closed.                               *)
TableOpen == stClosing \in {"no", "begun"}
CleanerSound ==
  TableOpen => \A c \in UClients :
    /\ udSnap[c] # 0 => udTable[c] = udSnap[c]
    /\ c \in udRemoved => udTable[c] # 0 /\ ~udConn[udTable[c]].open

OpenHandled == \A i \in UIds : udConn[i].open => udConn[i].handler

(* Which sockets a TCP connection has at each step of handle.              *)
TcpSockets ==
  \A t \in TConns :
    /\ <<t, "src">> \in tcOpen <=> tcPc[t] \notin {"new", "ended"}
    /\ <<t, "dst">> \in tcOpen => tcPc[t] \in {"dialed", "pipe"}

StreamsInv ==
  /\ StreamTypes /\ ConnsKeyed /\ CleanerSound /\ OneConnPerClient /\ OpenHandled /\ TcpSockets

-----------------------------------------------------------------------------
(* Closing some connections changes nothing else of any.                   *)
LEMMA ClosesConns ==
  ASSUME udConn \in [UIds -> UConn], NEW ids
  PROVE  /\ CloseConns(ids) \in [UIds -> UConn]
         /\ \A i \in UIds :
              /\ CloseConns(ids)[i].key = udConn[i].key
              /\ CloseConns(ids)[i].handler = udConn[i].handler
              /\ CloseConns(ids)[i].open <=> udConn[i].open /\ i \notin ids
<1>1. \A i \in UIds : udConn[i] \in UConn
  OBVIOUS
<1>2. \A i \in UIds : CloseConns(ids)[i] = IF i \in ids THEN [udConn[i] EXCEPT !.open = FALSE] ELSE udConn[i]
  BY DEF CloseConns
<1>3. \A i \in UIds : [udConn[i] EXCEPT !.open = FALSE] \in UConn
  BY <1>1 DEF UConn
<1>4. CloseConns(ids) \in [UIds -> UConn]
  BY <1>1, <1>3 DEF CloseConns
<1> QED
  BY <1>1, <1>2, <1>4 DEF UConn

(* Where a step leaves the clients of the connections as they are and      *)
(* opens none, the table stays sound.                                      *)
LEMMA ConnsOnlyClose ==
  ASSUME StreamsInv, StreamTypes', CleanerSound', TcpSockets',
         UNCHANGED <<stClosing, udTable, udMade, udLock>>,
         \A i \in UIds : /\ udConn'[i].key = udConn[i].key
                         /\ udConn'[i].open => udConn[i].open /\ udConn'[i].handler
  PROVE  StreamsInv'
<1> USE StreamsAssumption
<1> USE DEF StreamsInv
<1>1. ConnsKeyed'
  BY DEF ConnsKeyed, StreamTypes, UIds
<1>2. OneConnPerClient'
  BY DEF OneConnPerClient
<1>3. OpenHandled'
  BY DEF OpenHandled
<1> QED
  BY <1>1, <1>2, <1>3

(* The steps of the UDP proxy.                                             *)
LEMMA UdpInductive ==
  ASSUME StreamsInv,
         \/ \E c \in UClients : ReadPacket(c) \/ FoundConn(c) \/ CreateConn(c) \/ CleanOne(c)
         \/ \E i \in UIds : forwardToDestination(i) \/ Answer(i) \/ HandlerEnds(i) \/ Expire(i)
         \/ StoreConn \/ CleanBegin \/ CleanEnd
  PROVE  StreamsInv'
<1> USE StreamsAssumption
<1> USE DEF StreamsInv, tcVars
<1>1. ASSUME NEW c \in UClients, ReadPacket(c) \/ FoundConn(c) PROVE StreamsInv'
  BY <1>1 DEF ReadPacket, FoundConn, StreamTypes, ConnsKeyed, CleanerSound, TableOpen, OneConnPerClient,
              OpenHandled, TcpSockets
<1>2. ASSUME NEW c \in UClients, CreateConn(c) PROVE StreamsInv'
  <2> USE <1>2 DEF CreateConn
  <2>1. CASE UNCHANGED <<udMade, udLock, udConn>>
    BY <2>1 DEF StreamTypes, ConnsKeyed, CleanerSound, TableOpen, OneConnPerClient, OpenHandled, TcpSockets
  <2>2. CASE /\ udMade < MaxUConns /\ udMade' = udMade + 1 /\ udLock' = udMade'
             /\ udConn' = [udConn EXCEPT ![udMade'] =
                              [key |-> c, open |-> TRUE, handler |-> TRUE, old |-> FALSE]]
    <3> DEFINE n == udMade + 1
    <3>1. n \in UIds /\ udMade \in Nat
      BY <2>2 DEF StreamTypes, UIds
    <3>2. /\ udConn'[n] = [key |-> c, open |-> TRUE, handler |-> TRUE, old |-> FALSE]
          /\ \A i \in UIds : i # n => udConn'[i] = udConn[i]
      BY <2>2, <3>1 DEF StreamTypes
    <3>3. StreamTypes'
      <4>1. udConn' \in [UIds -> UConn]
        BY <2>2, <3>1 DEF StreamTypes, UConn
      <4>2. udMade' \in 0..MaxUConns /\ udLock' \in 0..udMade' /\ 0..udMade \subseteq 0..udMade'
        BY <2>2, <3>1 DEF StreamTypes
      <4>3. udTable' \in [UClients -> 0..udMade'] /\ udSnap' \in [UClients -> 0..udMade']
        BY <4>2 DEF StreamTypes
      <4> QED
        BY <4>1, <4>2, <4>3 DEF StreamTypes
    <3>4. \A d \in UClients : /\ udTable[d] # n /\ (udTable[d] # 0 => udTable[d] \in UIds)
      BY <3>1 DEF StreamTypes, UIds
    <3>5. ConnsKeyed'
      BY <2>2, <3>1, <3>2, <3>4 DEF ConnsKeyed, StreamTypes, UIds
    <3>6. CleanerSound'
      BY <2>2, <3>2, <3>4 DEF CleanerSound, TableOpen
    <3>7. ~udConn[n].open /\ udLock = 0
      BY <3>1 DEF ConnsKeyed
    <3>8. OneConnPerClient'
      <4> SUFFICES ASSUME stClosing \in {"no", "begun"}, NEW i \in UIds, udConn'[i].open
                   PROVE  i \in {udLock', udTable'[udConn'[i].key]}
        BY DEF OneConnPerClient
      <4>1. CASE i = n
        BY <4>1, <2>2
      <4>2. CASE i # n
        <5>1. udConn[i].open /\ udConn'[i] = udConn[i] /\ i # 0
          BY <4>2, <3>2, <3>1 DEF UIds
        <5> QED
          BY <5>1, <3>7 DEF OneConnPerClient
      <4> QED
        BY <4>1, <4>2
    <3>9. OpenHandled' /\ TcpSockets'
      BY <3>1, <3>2 DEF OpenHandled, TcpSockets
    <3> QED
      BY <3>3, <3>5, <3>6, <3>8, <3>9
  <2> QED
    BY <2>1, <2>2
<1>3. CASE StoreConn
  <2> USE <1>3 DEF StoreConn
  <2> DEFINE k == udConn[udLock].key
  <2>1. udLock \in UIds /\ udLock \in 1..udMade /\ k \in UClients /\ udTable[k] = 0
    BY DEF StreamTypes, UIds, UConn, ConnsKeyed
  <2>2. CASE udConn[udLock].open
    <3>1. udTable' = [udTable EXCEPT ![k] = udLock]
      BY <2>2
    <3> HIDE DEF k
    <3>2. StreamTypes'
      <4>1. udTable' \in [UClients -> 0..udMade]
        BY <2>1, <3>1 DEF StreamTypes
      <4> QED
        BY <4>1 DEF StreamTypes
    <3>3. udTable'[k] = udLock /\ \A c \in UClients : c # k => udTable'[c] = udTable[c]
      BY <2>1, <3>1 DEF StreamTypes
    <3>4. ConnsKeyed'
      BY <2>1, <3>3 DEF ConnsKeyed, StreamTypes, k
    <3>5. CleanerSound'
      BY <2>1, <3>3 DEF CleanerSound, TableOpen
    <3>6. OneConnPerClient'
      BY <2>1, <3>3 DEF OneConnPerClient, k, StreamTypes, UConn
    <3>7. OpenHandled' /\ TcpSockets'
      BY DEF OpenHandled, TcpSockets
    <3> QED
      BY <3>2, <3>4, <3>5, <3>6, <3>7
  <2>3. CASE ~udConn[udLock].open
    BY <2>1, <2>3 DEF StreamTypes, ConnsKeyed, CleanerSound, TableOpen, OneConnPerClient, OpenHandled,
                      TcpSockets
  <2> QED
    BY <2>2, <2>3
<1>4. ASSUME NEW i \in UIds, forwardToDestination(i) \/ Answer(i) \/ HandlerEnds(i) \/ Expire(i)
      PROVE  StreamsInv'
  <2>1. UNCHANGED <<stDone, stClosing, udTable, udMade, udLock, udSnap, udRemoved, tcPc, tcOpen>>
    BY <1>4 DEF forwardToDestination, Answer, HandlerEnds, Expire
  <2>2. /\ udConn' \in [UIds -> UConn]
        /\ \A j \in UIds : /\ udConn'[j].key = udConn[j].key
                           /\ udConn'[j].open => udConn[j].open /\ udConn'[j].handler
    <3>1. CASE HandlerEnds(i)
      <4>1. /\ CloseConns({i}) \in [UIds -> UConn]
            /\ \A j \in UIds :
                 /\ CloseConns({i})[j].key = udConn[j].key
                 /\ CloseConns({i})[j].handler = udConn[j].handler
                 /\ CloseConns({i})[j].open <=> udConn[j].open /\ j \notin {i}
        BY ClosesConns DEF StreamTypes
      <4>2. udConn' = [CloseConns({i}) EXCEPT ![i].handler = FALSE]
        BY <3>1 DEF HandlerEnds, HandlerExit
      <4>3. \A j \in UIds : udConn[j].open => udConn[j].handler
        BY DEF OpenHandled
      <4> HIDE DEF CloseConns
      <4>4. /\ udConn' \in [UIds -> UConn]
            /\ \A j \in UIds : j # i => udConn'[j] = CloseConns({i})[j]
            /\ udConn'[i].key = CloseConns({i})[i].key /\ udConn'[i].open = CloseConns({i})[i].open
        BY ONLY <4>1, <4>2, i \in UIds DEF UConn
      <4> QED
        BY ONLY <4>1, <4>3, <4>4
    <3>2. CASE udConn' = udConn \/ udConn' = [udConn EXCEPT ![i].old = FALSE]
               \/ udConn' = [udConn EXCEPT ![i].old = TRUE]
      <4>1. udConn' \in [UIds -> UConn]
        <5>1. udConn \in [UIds -> UConn] /\ udConn[i] \in UConn
          BY DEF StreamTypes
        <5>2. \A b \in BOOLEAN : [udConn[i] EXCEPT !.old = b] \in UConn
          BY <5>1 DEF UConn
        <5> QED
          BY ONLY <3>2, <5>1, <5>2, i \in UIds
      <4>2. \A j \in UIds : /\ udConn'[j].key = udConn[j].key /\ udConn'[j].open = udConn[j].open
                            /\ udConn'[j].handler = udConn[j].handler
        BY <3>2 DEF StreamTypes, UConn
      <4> QED
        BY <4>1, <4>2 DEF OpenHandled
    <3> QED
      BY <1>4, <3>1, <3>2 DEF forwardToDestination, Answer, Expire
  <2>3. StreamTypes' /\ TcpSockets'
    BY <2>1, <2>2 DEF StreamTypes, TcpSockets
  <2>4. CleanerSound'
    <3>1. \A c \in UClients : udTable[c] # 0 => udTable[c] \in UIds
      BY DEF StreamTypes, UIds
    <3> SUFFICES ASSUME TableOpen, NEW c \in UClients
                 PROVE  /\ udSnap[c] # 0 => udTable[c] = udSnap[c]
                        /\ c \in udRemoved => udTable[c] # 0 /\ ~udConn'[udTable[c]].open
      BY <2>1 DEF CleanerSound, TableOpen
    <3> QED
      BY ONLY <2>2, <3>1, CleanerSound, TableOpen, c \in UClients DEF CleanerSound
  <2> QED
    BY ONLY <2>1, <2>2, <2>3, <2>4, StreamsInv, ConnsOnlyClose
<1>5. CASE CleanBegin
  BY <1>5 DEF CleanBegin, StreamTypes, ConnsKeyed, CleanerSound, TableOpen, OneConnPerClient,
              OpenHandled, TcpSockets
<1>6. ASSUME NEW c \in UClients, CleanOne(c) PROVE StreamsInv'
  <2> USE <1>6 DEF CleanOne
  <2>1. udSnap[c] \in UIds /\ \A d \in UClients : udTable[d] # 0 => udTable[d] \in UIds
    BY DEF StreamTypes, UIds
  <2>2. /\ udConn' \in [UIds -> UConn]
        /\ \A j \in UIds : /\ udConn'[j].key = udConn[j].key /\ udConn'[j].handler = udConn[j].handler
                           /\ udConn'[j].open => udConn[j].open
        /\ udRemoved' = udRemoved \/ (udRemoved' = udRemoved \union {c} /\ ~udConn'[udSnap[c]].open)
    <3>1. CASE udConn[udSnap[c]].old
      <4>1. udConn' = CloseConns({udSnap[c]}) /\ udRemoved' = udRemoved \union {c}
        BY <3>1
      <4> QED
        BY <4>1, <2>1, ClosesConns DEF StreamTypes
    <3>2. CASE ~udConn[udSnap[c]].old
      BY <3>2 DEF StreamTypes
    <3> QED
      BY <3>1, <3>2
  <2>3. udSnap' \in [UClients -> 0..udMade]
    BY DEF StreamTypes
  <2>4. StreamTypes' /\ TcpSockets'
    BY <2>2, <2>3 DEF StreamTypes, TcpSockets
  <2>5. CleanerSound'
    <3> SUFFICES ASSUME TableOpen, NEW d \in UClients
                 PROVE  /\ udSnap'[d] # 0 => udTable[d] = udSnap'[d]
                        /\ d \in udRemoved' => udTable[d] # 0 /\ ~udConn'[udTable[d]].open
      BY DEF CleanerSound, TableOpen
    <3>1. udSnap'[d] = (IF d = c THEN 0 ELSE udSnap[d]) /\ udTable[c] = udSnap[c]
      BY DEF StreamTypes, CleanerSound
    <3> QED
      BY ONLY <2>1, <2>2, <3>1, udSnap[c] # 0, CleanerSound, TableOpen, d \in UClients DEF CleanerSound
  <2>6. UNCHANGED <<stClosing, udTable, udMade, udLock>>
    OBVIOUS
  <2>7. \A j \in UIds : /\ udConn'[j].key = udConn[j].key
                        /\ udConn'[j].open => udConn[j].open /\ udConn'[j].handler
    BY ONLY <2>2, OpenHandled DEF OpenHandled
  <2> QED
    BY ONLY <2>4, <2>5, <2>6, <2>7, StreamsInv, ConnsOnlyClose
<1>7. CASE CleanEnd
  <2> USE <1>7 DEF CleanEnd, Cleaned
  <2>1. \A c \in UClients : udTable'[c] = IF c \in udRemoved THEN 0 ELSE udTable[c]
    OBVIOUS
  <2>2. StreamTypes'
    <3>1. udTable' \in [UClients -> 0..udMade]
      BY DEF StreamTypes
    <3> QED
      BY <3>1 DEF StreamTypes
  <2>3. ConnsKeyed' /\ OpenHandled' /\ TcpSockets'
    BY <2>1 DEF ConnsKeyed, OpenHandled, TcpSockets, StreamTypes
  <2>4. CleanerSound'
    BY <2>1 DEF CleanerSound, TableOpen, Nobody
  <2>5. OneConnPerClient'
    <3> SUFFICES ASSUME stClosing \in {"no", "begun"}, NEW i \in UIds, udConn[i].open
                 PROVE  i = udTable'[udConn[i].key]
      BY DEF OneConnPerClient
    <3>1. udConn[i].key \in UClients /\ i = udTable[udConn[i].key] /\ i # 0
      BY DEF OneConnPerClient, StreamTypes, UConn, UIds
    <3>2. udConn[i].key \notin udRemoved
      BY <3>1 DEF CleanerSound, TableOpen
    <3> QED
      BY <3>1, <3>2, <2>1
  <2> QED
    BY <2>2, <2>3, <2>4, <2>5
<1> QED
  BY <1>1, <1>2, <1>3, <1>4, <1>5, <1>6, <1>7

(* The end of the route, and the TCP proxy.                                *)
LEMMA CloseInductive ==
  ASSUME StreamsInv, CancelStream \/ CloseBegin \/ CloseTable \/ CloseListener
  PROVE  StreamsInv'
<1> USE StreamsAssumption
<1> USE DEF StreamsInv, tcVars, udVars
<1>1. CASE CancelStream \/ CloseBegin \/ CloseListener
  <2>1. /\ UNCHANGED <<udTable, udConn, udMade, udLock, udSnap, udRemoved, tcPc, tcOpen>>
        /\ stDone' \in BOOLEAN /\ stClosing' \in {stClosing, "begun", "closed"}
        /\ TableOpen' => TableOpen
    BY <1>1 DEF CancelStream, CloseBegin, CloseListener, StreamTypes, TableOpen
  <2>2. ConnsKeyed' /\ CleanerSound' /\ OpenHandled' /\ TcpSockets'
    BY <2>1 DEF ConnsKeyed, CleanerSound, OpenHandled, TcpSockets
  <2>3. OneConnPerClient'
    BY <2>1 DEF OneConnPerClient, TableOpen
  <2>4. StreamTypes'
    BY <2>1 DEF StreamTypes
  <2> QED
    BY <2>2, <2>3, <2>4
<1>2. CASE CloseTable
  <2> USE <1>2 DEF CloseTable
  <2> DEFINE ids == {udTable[c] : c \in UClients}
  <2>1. /\ udConn' \in [UIds -> UConn]
        /\ \A i \in UIds : /\ udConn'[i].key = udConn[i].key
                           /\ udConn'[i].handler = udConn[i].handler
                           /\ udConn'[i].open <=> udConn[i].open /\ i \notin ids
    BY ClosesConns DEF StreamTypes
  <2>2. StreamTypes'
    <3>1. udTable' \in [UClients -> 0..udMade]
      BY DEF StreamTypes, Nobody
    <3> QED
      BY <2>1, <3>1 DEF StreamTypes
  <2>3. ConnsKeyed'
    BY <2>1 DEF ConnsKeyed, Nobody
  <2>4. CleanerSound' /\ OneConnPerClient' /\ TcpSockets'
    BY DEF CleanerSound, TableOpen, OneConnPerClient, TcpSockets
  <2>5. OpenHandled'
    BY <2>1 DEF OpenHandled
  <2> QED
    BY <2>2, <2>3, <2>4, <2>5
<1> QED
  BY <1>1, <1>2

LEMMA TcpInductive ==
  ASSUME StreamsInv, NEW t \in TConns, Accept(t) \/ PreDial(t) \/ Dial(t) \/ Dialed(t) \/ PipeEnds(t)
  PROVE  StreamsInv'
<1> USE DEF StreamsInv, udVars
<1>1. UNCHANGED <<stDone, stClosing, udTable, udConn, udMade, udLock, udSnap, udRemoved>>
  BY DEF Accept, PreDial, Dial, Dialed, PipeEnds
<1>2. ConnsKeyed' /\ CleanerSound' /\ OneConnPerClient' /\ OpenHandled'
  BY <1>1 DEF ConnsKeyed, CleanerSound, TableOpen, OneConnPerClient, OpenHandled
<1>3. StreamTypes' /\ TcpSockets'
  <2> USE DEF StreamTypes, TcpSockets, TcpGoto, EndTCP
  <2>1. CASE Accept(t)
    BY <1>1, <2>1 DEF Accept
  <2>2. CASE PreDial(t)
    BY <1>1, <2>2 DEF PreDial
  <2>3. CASE Dial(t)
    BY <1>1, <2>3 DEF Dial
  <2>4. CASE Dialed(t) \/ PipeEnds(t)
    BY <1>1, <2>4 DEF Dialed, PipeEnds
  <2> QED
    BY <2>1, <2>2, <2>3, <2>4
<1> QED
  BY <1>2, <1>3

(* The inductive invariant of the stream proxies.                          *)
THEOREM StreamsInvariant == StreamsSpec => []StreamsInv
<1>1. StreamsInit => StreamsInv
  <2> SUFFICES ASSUME StreamsInit PROVE StreamsInv
    OBVIOUS
  <2> USE StreamsAssumption DEF StreamsInit, Nobody
  <2>1. (CHOOSE c \in UClients : TRUE) \in UClients
    OBVIOUS
  <2>2. udConn \in [UIds -> UConn] /\ \A i \in UIds : ~udConn[i].open
    BY <2>1 DEF UConn
  <2>3. StreamTypes
    <3>1. Nobody \in [UClients -> 0..0] /\ 0 \in 0..MaxUConns
      OBVIOUS
    <3> QED
      BY <2>2, <3>1 DEF StreamTypes
  <2>4. ConnsKeyed /\ CleanerSound /\ OneConnPerClient /\ OpenHandled /\ TcpSockets
    BY <2>2 DEF ConnsKeyed, CleanerSound, OneConnPerClient, OpenHandled, TcpSockets
  <2> QED
    BY <2>3, <2>4 DEF StreamsInv
<1>2. StreamsInv /\ [StreamsNext]_stVars => StreamsInv'
  <2> SUFFICES ASSUME StreamsInv, [StreamsNext]_stVars PROVE StreamsInv'
    OBVIOUS
  <2>1. CASE UNCHANGED stVars
    BY <2>1 DEF stVars, udVars, tcVars, StreamsInv, StreamTypes, ConnsKeyed, CleanerSound, TableOpen,
                OneConnPerClient, OpenHandled, TcpSockets
  <2>2. CASE StreamsNext
    BY <2>2, UdpInductive, CloseInductive, TcpInductive DEF StreamsNext
  <2> QED
    BY <2>1, <2>2
<1> QED
  BY <1>1, <1>2, PTL DEF StreamsSpec

(* Until Close clears the table, a client of the UDP proxy has at most one *)
(* open connection and the table leads to it, although the cleaner deletes *)
(* by key what it cloned under an earlier lock; and every socket of both   *)
(* proxies has a goroutine that closes it, refused TCP connections apart.  *)
THEOREM StreamsKeepTheirSockets == StreamsSpec => []StreamsSound
<1>1. StreamsInv => StreamsSound
  <2> SUFFICES ASSUME StreamsInv PROVE StreamsSound
    OBVIOUS
  <2> USE DEF StreamsInv
  <2>1. ASSUME NEW t \in TConns
        PROVE  /\ tcPc[t] = "ended" => \A s \in tcOpen : s[1] # t
               /\ <<t, "dst">> \in tcOpen => <<t, "src">> \in tcOpen
    <3>1. \A s \in tcOpen : s = <<s[1], "src">> \/ s = <<s[1], "dst">>
      BY DEF StreamTypes
    <3> QED
      BY <3>1 DEF TcpSockets
  <2> QED
    BY <2>1 DEF StreamsSound, SocketsOwned, OpenHandled
<1> QED
  BY <1>1, StreamsInvariant, PTL

(***************************************************************************)
(* AccessLog.                                                              *)
(***************************************************************************)
Users(h) == {l \in Loggers \ alClosed : alUse[l] = h}

HandleTypes ==
  /\ alOpened \in Handles \union {0}
  /\ alHandle \in [Handles -> {"none", "open", "zero", "deleted", "closed"}]
  /\ alRef \in [Handles -> Int]
  /\ alUse \in [Loggers -> Handles \union {0}]
  /\ alPc \in [Loggers -> {"none", "loop", "rotate", "closing", "ended"}]
  /\ alClosed \subseteq Loggers /\ alRaced \subseteq Loggers

(* A logger has a handle from its creation on, and is closed at its end;   *)
(* the handle of the map is the only one that is not on its way out.       *)
HandleLife ==
  /\ \A l \in Loggers : /\ alUse[l] = 0 <=> alPc[l] = "none"
                        /\ l \in alClosed <=> alPc[l] = "ended"
  /\ \A h \in Handles : alHandle[h] \in {"open", "zero"} <=> alOpened = h

Line == Loggers \X Nat
AllLines(f, b, r) == LinesIn(f) \union r \union UNION {LinesIn(b[l]) : l \in Loggers}

(* File f, buffers b and rotated lines r, of n lines: every line is there  *)
(* once, and each logger's in order.                                       *)
LinesOK(f, b, r, n) ==
  /\ n \in Nat /\ f \in Seq(Line) /\ b \in [Loggers -> Seq(Line)] /\ r \subseteq Line
  /\ \A l \in Loggers : \A x \in LinesIn(b[l]) : x[1] = l
  /\ Ordered(f) /\ \A l \in Loggers : Ordered(b[l])
  /\ \A x \in LinesIn(f), l \in Loggers : \A y \in LinesIn(b[l]) : Older(x, y)
  /\ \A x \in r, y \in LinesIn(f) : Older(x, y)
  /\ \A x \in r, l \in Loggers : \A y \in LinesIn(b[l]) : Older(x, y)
  /\ \A x \in AllLines(f, b, r) : x[2] \in 1..n
  /\ \A x, y \in AllLines(f, b, r) : x[2] = y[2] => x = y
  /\ \A k \in 1..n : \E x \in AllLines(f, b, r) : x[2] = k

(* Unless a logger was handed a handle on its way out, the handle that is  *)
(* shared is at the end of the file.                                       *)
FileSound ==
  alRaced = {} =>
    /\ LinesOK(alFile, alBuf, alRotated, alTotal)
    /\ alPos \in [Handles -> Nat]
    /\ alOpened # 0 => alPos[alOpened] = Len(alFile)

AccessInv == HandleTypes /\ HandleLife /\ AccessHandlesCounted /\ FileSound

-----------------------------------------------------------------------------
(* A write at the end of the file appends.                                 *)
LEMMA WrittenAtEnd ==
  ASSUME NEW f \in Seq(Line), NEW s \in Seq(Line), NEW w, w = Written(f, Len(f), s)
  PROVE  /\ w \in Seq(Line) /\ Len(w) = Len(f) + Len(s)
         /\ \A i \in 1..Len(f) : w[i] = f[i]
         /\ \A i \in 1..Len(w) : i > Len(f) => i - Len(f) \in 1..Len(s) /\ w[i] = s[i - Len(f)]
         /\ LinesIn(w) = LinesIn(f) \union LinesIn(s)
<1> DEFINE m == Len(f)  n == Len(f) + Len(s)
<1>1. m \in Nat /\ n \in Nat /\ Len(s) \in Nat /\ n >= m
  OBVIOUS
<1>2. w = [i \in 1..n |-> IF i \in m+1..n THEN s[i-m]
                          ELSE IF i <= m THEN f[i] ELSE <<"hole", 0>>]
  <2>1. (IF m + Len(s) > Len(f) THEN m + Len(s) ELSE Len(f)) = n
    BY <1>1
  <2> QED
    BY <2>1 DEF Written
<1>3. \A i \in 1..n : /\ i <= m => i \in 1..m /\ i \notin m+1..n
                      /\ i > m => i \in m+1..n /\ i - m \in 1..Len(s)
  BY <1>1
<1>4. /\ \A i \in 1..m : f[i] \in Line
      /\ \A i \in 1..Len(s) : s[i] \in Line
  BY ElementOfSeq
<1> HIDE DEF m, n
<1>5. \A i \in 1..n : /\ i <= m => w[i] = f[i]
                      /\ i > m => w[i] = s[i-m]
                      /\ i <= m \/ i > m
  BY <1>1, <1>2, <1>3
<1>6. w \in [1..n -> Line]
  <2>1. \A i \in 1..n : w[i] \in Line
    BY <1>3, <1>4, <1>5
  <2> QED
    BY <2>1, <1>2
<1>7. w \in Seq(Line)
  BY <1>1, <1>6, SeqDef
<1>8. Len(w) = n
  <2>1. DOMAIN w = 1..n /\ DOMAIN w = 1..Len(w) /\ Len(w) \in Nat
    BY <1>6, <1>7, LenProperties
  <2> QED
    BY <2>1, <1>1
<1>9. \A i \in 1..m : i \in 1..n /\ i <= m
  BY <1>1
<1>10. \A i \in 1..Len(s) : i + m \in 1..n /\ i + m > m /\ (i + m) - m = i
  BY <1>1 DEF n, m
<1>11. LinesIn(w) = LinesIn(f) \union LinesIn(s)
  <2>1. \A x : x \in LinesIn(w) => x \in LinesIn(f) \union LinesIn(s)
    BY <1>3, <1>5, <1>8 DEF LinesIn, m
  <2>2. \A x \in LinesIn(f) : x \in LinesIn(w)
    BY <1>5, <1>8, <1>9 DEF LinesIn, m
  <2>3. \A x \in LinesIn(s) : x \in LinesIn(w)
    <3> SUFFICES ASSUME NEW i \in 1..Len(s) PROVE s[i] \in LinesIn(w)
      BY DEF LinesIn
    <3>1. w[i + m] = s[i]
      BY <1>5, <1>10
    <3> QED
      BY <3>1, <1>8, <1>10 DEF LinesIn
  <2> QED
    BY <2>1, <2>2, <2>3
<1> QED
  BY <1>3, <1>5, <1>7, <1>8, <1>9, <1>11 DEF m, n

LEMMA InAllLines ==
  ASSUME NEW f, NEW b, NEW r, NEW x
  PROVE  x \in AllLines(f, b, r) <=>
           x \in LinesIn(f) \/ x \in r \/ \E l \in Loggers : x \in LinesIn(b[l])
BY DEF AllLines

(* A line that is logged is the newest.                                    *)
LEMMA LinesLogged ==
  ASSUME NEW f, NEW b, NEW r, NEW n, LinesOK(f, b, r, n), NEW l \in Loggers,
         NEW c, c = [b EXCEPT ![l] = Append(@, <<l, n + 1>>)]
  PROVE  LinesOK(f, c, r, n + 1)
<1> DEFINE new == <<l, n + 1>>
<1> USE DEF LinesOK
<1>0. n \in Nat /\ new \in Line /\ new[1] = l /\ new[2] = n + 1 /\ b[l] \in Seq(Line)
  BY DEF Line
<1> HIDE DEF new
<1>1. /\ c \in [Loggers -> Seq(Line)] /\ c[l] = Append(b[l], new)
      /\ \A k \in Loggers : k # l => c[k] = b[k]
  BY <1>0 DEF new
<1>2. /\ Len(c[l]) = Len(b[l]) + 1 /\ Len(b[l]) \in Nat /\ c[l][Len(b[l]) + 1] = new
      /\ \A i \in 1..Len(b[l]) : c[l][i] = b[l][i]
  BY <1>0, <1>1
<1>3. \A i \in 1..Len(c[l]) : i \in 1..Len(b[l]) \/ i = Len(b[l]) + 1
  BY <1>2
<1>4. LinesIn(c[l]) = LinesIn(b[l]) \union {new}
  <2>1. \A x \in LinesIn(c[l]) : x \in LinesIn(b[l]) \union {new}
    BY ONLY <1>2, <1>3 DEF LinesIn
  <2>2. new \in LinesIn(c[l]) /\ \A i \in 1..Len(b[l]) : i \in 1..Len(c[l])
    BY <1>2 DEF LinesIn
  <2>3. \A x \in LinesIn(b[l]) : x \in LinesIn(c[l])
    BY <1>2, <2>2 DEF LinesIn
  <2> QED
    BY <2>1, <2>2, <2>3
<1>5. AllLines(f, c, r) = AllLines(f, b, r) \union {new}
  <2>1. \A x : x \in AllLines(f, c, r) <=> x \in AllLines(f, b, r) \union {new}
    <3> TAKE x
    <3>1. (\E k \in Loggers : x \in LinesIn(c[k])) <=> (\E k \in Loggers : x \in LinesIn(b[k])) \/ x = new
      BY ONLY <1>1, <1>4, l \in Loggers
    <3> QED
      BY ONLY <3>1, InAllLines
  <2> QED
    BY ONLY <2>1
<1>6. \A x \in AllLines(f, b, r) : x[2] \in 1..n /\ Older(x, new)
  BY <1>0 DEF Older
<1>7. \A k \in Loggers : \A x \in LinesIn(c[k]) : x[1] = k /\ (x = new \/ x \in LinesIn(b[k]))
  BY <1>0, <1>1, <1>4
<1>8. Ordered(c[l])
  <2> SUFFICES ASSUME NEW i \in 1..Len(c[l]), NEW j \in 1..Len(c[l]), i < j
               PROVE  Older(c[l][i], c[l][j])
    BY DEF Ordered
  <2>1. i \in 1..Len(b[l])
    BY <1>2, <1>3
  <2>2. b[l][i] \in AllLines(f, b, r)
    BY <2>1 DEF AllLines, LinesIn
  <2>3. CASE j \in 1..Len(b[l])
    BY <2>1, <2>3, <1>2 DEF Ordered
  <2>4. CASE j = Len(b[l]) + 1
    BY <2>1, <2>2, <2>4, <1>2, <1>6
  <2> QED
    BY <1>3, <2>3, <2>4
<1>9. /\ \A x \in LinesIn(f), k \in Loggers : \A y \in LinesIn(c[k]) : Older(x, y)
      /\ \A x \in r, k \in Loggers : \A y \in LinesIn(c[k]) : Older(x, y)
  <2>1. \A x : x \in LinesIn(f) \/ x \in r => Older(x, new)
    BY ONLY <1>6, InAllLines
  <2>2. /\ \A x \in LinesIn(f), k \in Loggers : \A y \in LinesIn(b[k]) : Older(x, y)
        /\ \A x \in r, k \in Loggers : \A y \in LinesIn(b[k]) : Older(x, y)
    OBVIOUS
  <2> QED
    BY ONLY <2>1, <2>2, <1>7
<1>10. \A k \in Loggers : Ordered(c[k])
  BY <1>1, <1>8
<1>11. /\ \A x \in AllLines(f, c, r) : x[2] \in 1..(n + 1)
       /\ \A x, y \in AllLines(f, c, r) : x[2] = y[2] => x = y
  <2>1. \A x, y \in AllLines(f, b, r) : x[2] = y[2] => x = y
    OBVIOUS
  <2>2. \A x \in AllLines(f, b, r) : x[2] \in 1..(n + 1) /\ x[2] # new[2]
    BY ONLY <1>0, <1>6
  <2>3. new[2] \in 1..(n + 1)
    BY ONLY <1>0
  <2> QED
    BY ONLY <1>5, <2>1, <2>2, <2>3
<1>12. \A k \in 1..(n + 1) : \E x \in AllLines(f, c, r) : x[2] = k
  <2> TAKE k \in 1..(n + 1)
  <2>1. k \in 1..n \/ k = n + 1
    BY <1>0
  <2> QED
    BY <2>1, <1>0, <1>5
<1>13. /\ n + 1 \in Nat /\ f \in Seq(Line) /\ r \subseteq Line
       /\ Ordered(f) /\ \A x \in r, y \in LinesIn(f) : Older(x, y)
  BY <1>0
<1> QED
  BY ONLY <1>1, <1>7, <1>9, <1>10, <1>11, <1>12, <1>13 DEF LinesOK

(* A flush of a buffer to the end of the file loses nothing.               *)
LEMMA LinesFlushed ==
  ASSUME NEW f, NEW b, NEW r, NEW n, LinesOK(f, b, r, n), NEW l \in Loggers,
         NEW w, w = Written(f, Len(f), b[l]), NEW c, c = [b EXCEPT ![l] = << >>]
  PROVE  LinesOK(w, c, r, n) /\ Len(w) = Len(f) + Len(b[l])
<1>0. /\ n \in Nat /\ f \in Seq(Line) /\ b \in [Loggers -> Seq(Line)] /\ r \subseteq Line
      /\ \A k \in Loggers : \A x \in LinesIn(b[k]) : x[1] = k
      /\ Ordered(f) /\ \A k \in Loggers : Ordered(b[k])
  BY DEF LinesOK
<1>1. /\ \A x \in LinesIn(f), k \in Loggers : \A y \in LinesIn(b[k]) : Older(x, y)
      /\ \A x \in r, y \in LinesIn(f) : Older(x, y)
      /\ \A x \in r, k \in Loggers : \A y \in LinesIn(b[k]) : Older(x, y)
  BY DEF LinesOK
<1>2. /\ \A x \in AllLines(f, b, r) : x[2] \in 1..n
      /\ \A x, y \in AllLines(f, b, r) : x[2] = y[2] => x = y
      /\ \A k \in 1..n : \E x \in AllLines(f, b, r) : x[2] = k
  BY DEF LinesOK
<1>3. /\ c \in [Loggers -> Seq(Line)] /\ c[l] = << >>
      /\ \A k \in Loggers : k # l => c[k] = b[k]
  BY <1>0
<1>4. LinesIn(c[l]) = {} /\ Ordered(c[l])
  BY <1>3 DEF LinesIn, Ordered
<1>5. /\ w \in Seq(Line) /\ Len(w) = Len(f) + Len(b[l])
      /\ \A i \in 1..Len(f) : w[i] = f[i]
      /\ \A i \in 1..Len(w) : i > Len(f) => i - Len(f) \in 1..Len(b[l]) /\ w[i] = b[l][i - Len(f)]
      /\ LinesIn(w) = LinesIn(f) \union LinesIn(b[l])
  BY <1>0, WrittenAtEnd
<1>6. AllLines(w, c, r) = AllLines(f, b, r)
  <2>1. \A x : x \in AllLines(w, c, r) <=> x \in AllLines(f, b, r)
    <3> TAKE x
    <3>1. (\E k \in Loggers : x \in LinesIn(b[k]))
            <=> (\E k \in Loggers : x \in LinesIn(c[k])) \/ x \in LinesIn(b[l])
      BY ONLY <1>3, <1>4, l \in Loggers
    <3> QED
      BY ONLY <3>1, <1>5, InAllLines
  <2> QED
    BY ONLY <2>1
<1>7. Ordered(w)
  <2> SUFFICES ASSUME NEW i \in 1..Len(w), NEW j \in 1..Len(w), i < j
               PROVE  Older(w[i], w[j])
    BY DEF Ordered
  <2>0. Len(f) \in Nat /\ Len(w) \in Nat
    BY <1>0, <1>5
  <2>1. CASE j <= Len(f)
    <3>1. i \in 1..Len(f) /\ j \in 1..Len(f)
      BY <2>0, <2>1
    <3> QED
      BY <3>1, <1>0, <1>5 DEF Ordered
  <2>2. CASE i > Len(f)
    <3>1. /\ i - Len(f) \in 1..Len(b[l]) /\ j - Len(f) \in 1..Len(b[l]) /\ i - Len(f) < j - Len(f)
          /\ w[i] = b[l][i - Len(f)] /\ w[j] = b[l][j - Len(f)]
      <4>1. j > Len(f) /\ i \in Int /\ j \in Int
        BY ONLY <2>0, <2>2, i \in 1..Len(w), j \in 1..Len(w), i < j
      <4>2. /\ i - Len(f) \in 1..Len(b[l]) /\ w[i] = b[l][i - Len(f)]
            /\ j - Len(f) \in 1..Len(b[l]) /\ w[j] = b[l][j - Len(f)]
        BY ONLY <1>5, <2>2, <4>1, i \in 1..Len(w), j \in 1..Len(w)
      <4>3. i - Len(f) < j - Len(f)
        BY ONLY <2>0, <4>1, i < j
      <4> QED
        BY ONLY <4>2, <4>3
    <3> QED
      BY <3>1, <1>0 DEF Ordered
  <2>3. CASE i <= Len(f) /\ j > Len(f)
    <3>1. i \in 1..Len(f)
      BY <2>0, <2>3
    <3>2. w[i] \in LinesIn(f) /\ w[j] \in LinesIn(b[l])
      BY <3>1, <2>3, <1>5 DEF LinesIn
    <3> QED
      BY <3>2, <1>1
  <2> QED
    BY <2>0, <2>1, <2>2, <2>3
<1>8. /\ \A x \in LinesIn(w), k \in Loggers : \A y \in LinesIn(c[k]) : Older(x, y)
      /\ \A x \in r, y \in LinesIn(w) : Older(x, y)
      /\ \A x \in r, k \in Loggers : \A y \in LinesIn(c[k]) : Older(x, y)
  <2>1. \A x \in LinesIn(b[l]), k \in Loggers : k # l => \A y \in LinesIn(b[k]) : Older(x, y)
    BY <1>0 DEF Older
  <2> QED
    BY ONLY <2>1, <1>1, <1>3, <1>4, <1>5, l \in Loggers
<1>9. /\ \A k \in Loggers : \A x \in LinesIn(c[k]) : x[1] = k
      /\ \A k \in Loggers : Ordered(c[k])
  BY ONLY <1>0, <1>3, <1>4
<1> QED
  BY ONLY <1>0, <1>2, <1>3, <1>5, <1>6, <1>7, <1>8, <1>9 DEF LinesOK

(* A rotation drops the oldest lines of the file.                          *)
LEMMA LinesRotated ==
  ASSUME NEW f, NEW b, NEW r, NEW n, LinesOK(f, b, r, n), NEW cut \in 0..Len(f),
         NEW w, w = SubSeq(f, cut + 1, Len(f)), NEW q, q = r \union {f[i] : i \in 1..cut}
  PROVE  LinesOK(w, b, q, n)
<1>0. /\ n \in Nat /\ f \in Seq(Line) /\ b \in [Loggers -> Seq(Line)] /\ r \subseteq Line
      /\ \A k \in Loggers : \A x \in LinesIn(b[k]) : x[1] = k
      /\ Ordered(f) /\ \A k \in Loggers : Ordered(b[k])
  BY DEF LinesOK
<1>1. /\ \A x \in LinesIn(f), k \in Loggers : \A y \in LinesIn(b[k]) : Older(x, y)
      /\ \A x \in r, y \in LinesIn(f) : Older(x, y)
      /\ \A x \in r, k \in Loggers : \A y \in LinesIn(b[k]) : Older(x, y)
  BY DEF LinesOK
<1>2. /\ \A x \in AllLines(f, b, r) : x[2] \in 1..n
      /\ \A x, y \in AllLines(f, b, r) : x[2] = y[2] => x = y
      /\ \A k \in 1..n : \E x \in AllLines(f, b, r) : x[2] = k
  BY DEF LinesOK
<1>3. Len(f) \in Nat /\ cut \in Nat /\ cut <= Len(f) /\ \A i \in 1..Len(f) : f[i] \in Line
  BY <1>0, ElementOfSeq
<1>4. /\ w \in Seq(Line) /\ Len(w) = Len(f) - cut
      /\ \A i \in 1..Len(w) : cut + i \in 1..Len(f) /\ w[i] = f[cut + i]
  <2>1. /\ cut + 1 \in Int /\ Len(f) \in Int /\ \A i \in cut + 1..Len(f) : f[i] \in Line
    BY <1>3
  <2>2. /\ w \in Seq(Line) /\ Len(w) = IF cut + 1 <= Len(f) THEN Len(f) - (cut + 1) + 1 ELSE 0
        /\ \A i \in 1..Len(f) - (cut + 1) + 1 : w[i] = f[(cut + 1) + i - 1]
    BY <2>1, SubSeqProperties
  <2>3. Len(w) = Len(f) - cut /\ Len(f) - (cut + 1) + 1 = Len(f) - cut
    BY <2>2, <1>3
  <2>4. \A i \in 1..Len(w) : (cut + 1) + i - 1 = cut + i /\ cut + i \in 1..Len(f)
    <3> TAKE i \in 1..Len(w)
    <3>1. i \in Nat /\ i >= 1 /\ i <= Len(f) - cut
      BY ONLY <2>3, <1>3, i \in 1..Len(w)
    <3> QED
      BY ONLY <3>1, <1>3
  <2> QED
    BY <2>2, <2>3, <2>4
<1>5. LinesIn(f) = LinesIn(w) \union {f[i] : i \in 1..cut}
  <2>1. \A i \in 1..Len(f) : i \in 1..cut \/ (i - cut \in 1..Len(w) /\ cut + (i - cut) = i)
    BY <1>3, <1>4
  <2>2. \A i \in 1..cut : i \in 1..Len(f)
    BY <1>3
  <2>3. \A i \in 1..Len(f) : f[i] \in LinesIn(w) \union {f[k] : k \in 1..cut}
    <3> TAKE i \in 1..Len(f)
    <3>1. CASE i \in 1..cut
      BY <3>1
    <3>2. CASE i - cut \in 1..Len(w) /\ cut + (i - cut) = i
      <4>1. w[i - cut] = f[i]
        BY <3>2, <1>4
      <4> QED
        BY <4>1, <3>2 DEF LinesIn
    <3> QED
      BY <2>1, <3>1, <3>2
  <2>4. \A x \in LinesIn(w) : x \in LinesIn(f)
    BY <1>4 DEF LinesIn
  <2> QED
    BY <2>2, <2>3, <2>4 DEF LinesIn
<1>6. AllLines(w, b, q) = AllLines(f, b, r)
  <2>1. \A x : x \in AllLines(w, b, q) <=> x \in AllLines(f, b, r)
    BY ONLY <1>5, InAllLines, q = r \union {f[i] : i \in 1..cut}
  <2> QED
    BY ONLY <2>1
<1>7. Ordered(w)
  <2> SUFFICES ASSUME NEW i \in 1..Len(w), NEW j \in 1..Len(w), i < j
               PROVE  Older(w[i], w[j])
    BY DEF Ordered
  <2>1. cut + i < cut + j
    BY <1>3, <1>4
  <2> QED
    BY <2>1, <1>0, <1>4 DEF Ordered
<1>8. \A x \in {f[i] : i \in 1..cut}, y \in LinesIn(w) : Older(x, y)
  <2> SUFFICES ASSUME NEW i \in 1..cut, NEW j \in 1..Len(w) PROVE Older(f[i], w[j])
    BY DEF LinesIn
  <2>1. i \in 1..Len(f) /\ i < cut + j /\ cut + j \in 1..Len(f) /\ w[j] = f[cut + j]
    BY <1>3, <1>4
  <2> QED
    BY <2>1, <1>0 DEF Ordered
<1>9. /\ \A x \in LinesIn(w), k \in Loggers : \A y \in LinesIn(b[k]) : Older(x, y)
      /\ \A x \in q, y \in LinesIn(w) : Older(x, y)
      /\ \A x \in q, k \in Loggers : \A y \in LinesIn(b[k]) : Older(x, y)
  BY ONLY <1>1, <1>5, <1>8, q = r \union {f[i] : i \in 1..cut}
<1>10. q \subseteq Line
  <2>1. \A i \in 1..cut : i \in 1..Len(f)
    BY <1>3
  <2> QED
    BY <2>1, <1>0, <1>3
<1> QED
  BY ONLY <1>0, <1>2, <1>4, <1>6, <1>7, <1>9, <1>10 DEF LinesOK

-----------------------------------------------------------------------------
(* The loggers that hold a handle are finitely many.                       *)
LEMMA UsersFinite ==
  ASSUME NEW h
  PROVE  IsFiniteSet(Users(h)) /\ Cardinality(Users(h)) \in Nat
<1>1. Users(h) \subseteq Loggers
  BY DEF Users
<1>2. IsFiniteSet(Users(h))
  BY <1>1, AccessAssumption, FS_Subset
<1> QED
  BY <1>2, FS_CardinalityType

(* The handle of a logger that writes is the one of the map, and stands at *)
(* the end of the file.                                                    *)
LEMMA WriterAtEnd ==
  ASSUME AccessInv, alRaced = {}, NEW l \in Loggers, alUse[l] # 0, l \notin alClosed
  PROVE  /\ alUse[l] \in Handles /\ alHandle[alUse[l]] = "open" /\ alUse[l] = alOpened
         /\ alPos \in [Handles -> Nat] /\ alPos[alUse[l]] = Len(alFile) /\ alOpened # 0
<1>1. alUse[l] \in Handles /\ alHandle[alUse[l]] = "open"
  BY DEF AccessInv, HandleTypes, AccessHandlesCounted
<1>2. alUse[l] = alOpened
  BY <1>1 DEF AccessInv, HandleLife
<1> QED
  BY <1>1, <1>2 DEF AccessInv, FileSound

(* A flush of the buffer of a logger that holds its handle.                *)
LEMMA FlushSound ==
  ASSUME AccessInv, alRaced = {}, NEW l \in Loggers, alUse[l] # 0, l \notin alClosed, FlushBuffer(l)
  PROVE  /\ LinesOK(alFile', alBuf', alRotated, alTotal)
         /\ alPos' \in [Handles -> Nat] /\ alPos'[alOpened] = Len(alFile')
<1>1. /\ alUse[l] \in Handles /\ alHandle[alUse[l]] = "open" /\ alUse[l] = alOpened
      /\ alPos \in [Handles -> Nat] /\ alPos[alUse[l]] = Len(alFile)
  BY WriterAtEnd
<1>2. /\ alFile' = Written(alFile, Len(alFile), alBuf[l])
      /\ alPos' = [alPos EXCEPT ![alOpened] = @ + Len(alBuf[l])]
      /\ alBuf' = [alBuf EXCEPT ![l] = << >>]
  BY <1>1 DEF FlushBuffer, WritesOut
<1>3. LinesOK(alFile, alBuf, alRotated, alTotal)
  BY DEF AccessInv, FileSound
<1>4. LinesOK(alFile', alBuf', alRotated, alTotal) /\ Len(alFile') = Len(alFile) + Len(alBuf[l])
  <2> DEFINE w == Written(alFile, Len(alFile), alBuf[l])
             c == [alBuf EXCEPT ![l] = << >>]
  <2>1. LinesOK(w, c, alRotated, alTotal) /\ Len(w) = Len(alFile) + Len(alBuf[l])
    BY ONLY <1>3, l \in Loggers, LinesFlushed
  <2> QED
    BY ONLY <1>2, <2>1
<1>5. Len(alBuf[l]) \in Nat
  BY <1>3 DEF LinesOK
<1>6. alPos'[alOpened] = alPos[alOpened] + Len(alBuf[l])
  BY ONLY <1>1, <1>2
<1> QED
  BY ONLY <1>1, <1>2, <1>4, <1>5, <1>6

(* Steps that leave the handles and who holds them alone.                  *)
LEMMA HandlesUntouched ==
  ASSUME AccessInv, UNCHANGED <<alOpened, alHandle, alRef, alUse, alClosed, alRaced>>,
         alPc' \in [Loggers -> {"none", "loop", "rotate", "closing", "ended"}],
         \A l \in Loggers : /\ alPc'[l] = "none" <=> alPc[l] = "none"
                            /\ alPc'[l] = "ended" <=> alPc[l] = "ended"
  PROVE  HandleTypes' /\ HandleLife' /\ AccessHandlesCounted'
<1> USE DEF AccessInv
<1>1. HandleTypes' /\ HandleLife'
  BY DEF HandleTypes, HandleLife
<1>2. AccessHandlesCounted'
  BY DEF AccessHandlesCounted
<1> QED
  BY <1>1, <1>2

(* The goroutine of a logger that has not closed has a handle.             *)
LEMMA LoopHolds ==
  ASSUME AccessInv, NEW l \in Loggers, alPc[l] \in {"loop", "rotate", "closing"}
  PROVE  alUse[l] # 0 /\ l \notin alClosed
BY DEF AccessInv, HandleLife

LEMMA WriteInductive ==
  ASSUME AccessInv, NEW l \in Loggers,
         LogRequest(l) \/ CancelLogger(l) \/ RotateFlush(l) \/ RotateFile(l) \/ AdjustBuffer(l) \/ EndFlush(l)
  PROVE  AccessInv'
<1> USE AccessAssumption
<1>1. HandleTypes' /\ HandleLife' /\ AccessHandlesCounted'
  <2>1. UNCHANGED <<alOpened, alHandle, alRef, alUse, alClosed, alRaced>>
    BY DEF LogRequest, CancelLogger, RotateFlush, RotateFile, AdjustBuffer, EndFlush
  <2>2. alPc \in [Loggers -> {"none", "loop", "rotate", "closing", "ended"}]
    BY DEF AccessInv, HandleTypes
  <2>3. \/ alPc' = alPc
        \/ /\ alPc[l] \in {"loop", "rotate"}
           /\ \E s \in {"loop", "rotate", "closing"} : alPc' = [alPc EXCEPT ![l] = s]
    BY DEF LogRequest, CancelLogger, RotateFlush, RotateFile, AdjustBuffer, EndFlush
  <2>4. alPc' \in [Loggers -> {"none", "loop", "rotate", "closing", "ended"}]
    BY ONLY <2>2, <2>3
  <2>5. \A k \in Loggers : /\ alPc'[k] = "none" <=> alPc[k] = "none"
                           /\ alPc'[k] = "ended" <=> alPc[k] = "ended"
    BY ONLY <2>2, <2>3, l \in Loggers
  <2> QED
    BY ONLY AccessInv, <2>1, <2>4, <2>5, HandlesUntouched
<1>2. FileSound'
  <2> SUFFICES ASSUME alRaced' = {}
               PROVE  /\ LinesOK(alFile', alBuf', alRotated', alTotal') /\ alPos' \in [Handles -> Nat]
                      /\ alOpened' # 0 => alPos'[alOpened'] = Len(alFile')
    BY DEF FileSound
  <2>0. alRaced = {} /\ alOpened' = alOpened /\ LinesOK(alFile, alBuf, alRotated, alTotal)
        /\ alPos \in [Handles -> Nat] /\ (alOpened # 0 => alPos[alOpened] = Len(alFile))
    BY DEF LogRequest, CancelLogger, RotateFlush, RotateFile, AdjustBuffer, EndFlush, AccessInv, FileSound
  <2>1. CASE LogRequest(l)
    <3> DEFINE line == <<l, alTotal + 1>>
    <3>1. alUse[l] # 0 /\ l \notin alClosed /\ alRotated' = alRotated /\ alTotal' = alTotal + 1
      BY <2>1 DEF LogRequest
    <3>2. alBuf \in [Loggers -> Seq(Line)] /\ alTotal \in Nat
      BY <2>0 DEF LinesOK
    <3>3. CASE Len(alBuf[l]) = alSize[l]
      <4>1. WritesOut(l, alBuf[l]) /\ alBuf' = [alBuf EXCEPT ![l] = <<line>>]
        BY <2>1, <3>3 DEF LogRequest
      <4>2. /\ alUse[l] \in Handles /\ alHandle[alUse[l]] = "open" /\ alUse[l] = alOpened
            /\ alPos[alUse[l]] = Len(alFile)
        BY <2>0, <3>1, WriterAtEnd
      <4>3. /\ alFile' = Written(alFile, Len(alFile), alBuf[l])
            /\ alPos' = [alPos EXCEPT ![alOpened] = @ + Len(alBuf[l])]
        BY <4>1, <4>2 DEF WritesOut
      <4> DEFINE mid == [alBuf EXCEPT ![l] = << >>]
      <4>4. LinesOK(alFile', mid, alRotated, alTotal) /\ Len(alFile') = Len(alFile) + Len(alBuf[l])
        BY <2>0, <4>3, LinesFlushed
      <4>5. alBuf' = [mid EXCEPT ![l] = Append(@, line)]
        <5>1. mid \in [Loggers -> Seq(Line)] /\ mid[l] = << >> /\ Append(<< >>, line) = <<line>>
          BY <3>2
        <5> QED
          BY <5>1, <4>1, <3>2
      <4> HIDE DEF mid
      <4>6. LinesOK(alFile', alBuf', alRotated, alTotal + 1)
        BY <4>4, <4>5, LinesLogged
      <4>7. Len(alBuf[l]) \in Nat
        BY <3>2
      <4>8. alPos' \in [Handles -> Nat] /\ alPos'[alOpened] = Len(alFile')
        <5>1. alPos'[alOpened] = alPos[alOpened] + Len(alBuf[l])
          BY ONLY <2>0, <4>2, <4>3
        <5> QED
          BY ONLY <2>0, <4>2, <4>3, <4>4, <4>7, <5>1
      <4> QED
        BY <2>0, <3>1, <4>6, <4>8
    <3>4. CASE Len(alBuf[l]) # alSize[l]
      <4>1. UNCHANGED <<alFile, alPos>> /\ alBuf' = [alBuf EXCEPT ![l] = Append(@, line)]
        BY <2>1, <3>4 DEF LogRequest
      <4>2. LinesOK(alFile, alBuf', alRotated, alTotal + 1)
        BY <2>0, <4>1, LinesLogged
      <4> QED
        BY <2>0, <3>1, <4>1, <4>2
    <3> QED
      BY <3>3, <3>4
  <2>2. CASE CancelLogger(l)
    <3>1. UNCHANGED <<alFile, alBuf, alRotated, alTotal, alPos>>
      BY <2>2 DEF CancelLogger
    <3> QED
      BY ONLY <2>0, <3>1
  <2>3. CASE RotateFlush(l) \/ EndFlush(l)
    <3>1. FlushBuffer(l) /\ alPc[l] = "loop" /\ alRotated' = alRotated /\ alTotal' = alTotal
      BY <2>3 DEF RotateFlush, EndFlush
    <3> QED
      BY <2>0, <3>1, FlushSound, LoopHolds
  <2>4. CASE AdjustBuffer(l)
    <3>1. alPc[l] = "loop" /\ alRotated' = alRotated /\ alTotal' = alTotal
      BY <2>4 DEF AdjustBuffer
    <3>2. CASE FlushBuffer(l)
      BY <2>0, <3>1, <3>2, FlushSound, LoopHolds
    <3>3. CASE UNCHANGED <<alBuf, alFile, alPos>>
      BY ONLY <2>0, <3>1, <3>3
    <3> QED
      BY <2>4, <3>2, <3>3 DEF AdjustBuffer
  <2>5. CASE RotateFile(l)
    <3>1. alPc[l] = "rotate" /\ alBuf' = alBuf /\ alTotal' = alTotal
      BY <2>5 DEF RotateFile
    <3>2. alUse[l] = alOpened /\ alHandle[alUse[l]] = "open" /\ alUse[l] \in Handles
      BY <2>0, <3>1, WriterAtEnd, LoopHolds
    <3>3. /\ alFile' = SubSeq(alFile, NumCut + 1, Len(alFile))
          /\ alRotated' = alRotated \union {alFile[i] : i \in 1..NumCut}
          /\ alPos' = [alPos EXCEPT ![alOpened] = Len(alFile')]
      BY <2>5, <3>2 DEF RotateFile, SeekEnd
    <3>4. alFile \in Seq(Line) /\ Len(alFile) \in Nat
      BY <2>0 DEF LinesOK
    <3>5. NumCut \in 0..Len(alFile)
      BY <3>4 DEF NumCut
    <3>6. LinesOK(alFile', alBuf, alRotated', alTotal)
      BY <2>0, <3>3, <3>5, LinesRotated
    <3>7. Len(alFile') \in Nat
      BY <3>6 DEF LinesOK
    <3> QED
      BY ONLY <2>0, <3>1, <3>2, <3>3, <3>6, <3>7
  <2> QED
    BY <2>1, <2>2, <2>3, <2>4, <2>5
<1> QED
  BY <1>1, <1>2 DEF AccessInv

(* A logger takes the handle of the map, or a new one.                     *)
LEMMA OpenInductive ==
  ASSUME AccessInv, NEW l \in Loggers, OpenFile(l)
  PROVE  AccessInv'
<1>0. /\ HandleTypes /\ HandleLife /\ AccessHandlesCounted /\ FileSound
      /\ alUse[l] = 0 /\ alPc[l] = "none" /\ l \notin alClosed
  BY DEF AccessInv, OpenFile, HandleLife
<1>1. PICK h \in Handles :
        /\ alRef' = [alRef EXCEPT ![h] = @ + 1] /\ alUse' = [alUse EXCEPT ![l] = h]
        /\ alRaced' = IF alHandle[h] = "zero" THEN alRaced \union {l} ELSE alRaced
        /\ \/ alOpened # 0 /\ h = alOpened /\ UNCHANGED <<alOpened, alHandle, alPos>>
           \/ /\ alOpened = 0 /\ alHandle[h] = "none" /\ alOpened' = h
              /\ alHandle' = [alHandle EXCEPT ![h] = "open"]
              /\ alPos' = [alPos EXCEPT ![h] = Len(alFile)]
  BY DEF OpenFile, AddRef
<1>2. /\ alPc' = [alPc EXCEPT ![l] = "loop"]
      /\ UNCHANGED <<alFile, alBuf, alClosed, alTotal, alRotated>>
  BY DEF OpenFile
<1>3. h # 0 /\ 0 \notin Handles
  BY AccessAssumption, FS_CardinalityType DEF Handles
<1>4. /\ alOpened \in Handles \union {0}
      /\ alHandle \in [Handles -> {"none", "open", "zero", "deleted", "closed"}]
      /\ alRef \in [Handles -> Int] /\ alUse \in [Loggers -> Handles \union {0}]
      /\ alPc \in [Loggers -> {"none", "loop", "rotate", "closing", "ended"}]
      /\ alClosed \subseteq Loggers /\ alRaced \subseteq Loggers
  BY <1>0 DEF HandleTypes
<1>5. /\ alUse' \in [Loggers -> Handles \union {0}] /\ alUse'[l] = h
      /\ \A k \in Loggers : k # l => alUse'[k] = alUse[k]
  BY ONLY <1>1, <1>4, l \in Loggers
<1>6. /\ alRef' \in [Handles -> Int] /\ alRef'[h] = alRef[h] + 1
      /\ \A k \in Handles : k # h => alRef'[k] = alRef[k]
  BY ONLY <1>1, <1>4
<1>7. /\ alPc' \in [Loggers -> {"none", "loop", "rotate", "closing", "ended"}] /\ alPc'[l] = "loop"
      /\ \A k \in Loggers : k # l => alPc'[k] = alPc[k]
  BY ONLY <1>2, <1>4, l \in Loggers
<1>8. /\ alHandle' \in [Handles -> {"none", "open", "zero", "deleted", "closed"}]
      /\ \A k \in Handles : k # h => alHandle'[k] = alHandle[k]
      /\ alHandle'[h] \in {"open", "zero"} /\ alOpened' = h
      /\ alHandle[h] = "open" \/ alHandle[h] = "none" => alHandle'[h] = "open"
      /\ \A k \in Handles : k # h => alHandle[k] \notin {"open", "zero"}
  <2>1. CASE alOpened # 0 /\ h = alOpened /\ UNCHANGED <<alOpened, alHandle, alPos>>
    BY <2>1, <1>0, <1>4 DEF HandleLife
  <2>2. CASE alOpened = 0 /\ alOpened' = h /\ alHandle' = [alHandle EXCEPT ![h] = "open"]
    BY <2>2, <1>0, <1>3, <1>4 DEF HandleLife
  <2> QED
    BY <2>1, <2>2, <1>1
<1>9. HandleTypes'
  BY ONLY <1>1, <1>2, <1>4, <1>5, <1>6, <1>7, <1>8, l \in Loggers DEF HandleTypes
<1>10. HandleLife'
  <2>1. \A k \in Loggers : /\ alUse'[k] = 0 <=> alPc'[k] = "none"
                           /\ k \in alClosed' <=> alPc'[k] = "ended"
    BY <1>0, <1>2, <1>3, <1>5, <1>7 DEF HandleLife
  <2> QED
    BY <2>1, <1>8 DEF HandleLife
<1>11. \A k \in Handles : alRef'[k] = Cardinality(Users(k)')
  <2> TAKE k \in Handles
  <2>1. alRef[k] = Cardinality(Users(k))
    BY <1>0 DEF AccessHandlesCounted, Users
  <2>2. CASE k = h
    <3>1. Users(k)' = Users(k) \union {l} /\ l \notin Users(k)
      BY <2>2, <1>0, <1>2, <1>3, <1>5 DEF Users
    <3> QED
      <4>1. IsFiniteSet(Users(k))
        BY UsersFinite
      <4>2. Cardinality(Users(k) \union {l}) = Cardinality(Users(k)) + 1
        BY ONLY <4>1, <3>1, FS_AddElement
      <4> QED
        BY <4>2, <3>1, <2>1, <2>2, <1>6
  <2>3. CASE k # h
    <3>1. Users(k)' = Users(k)
      BY <2>3, <1>0, <1>2, <1>3, <1>5 DEF Users
    <3> QED
      BY <3>1, <2>1, <2>3, <1>6
  <2> QED
    BY <2>2, <2>3
<1>12. \A k \in Loggers \ (alClosed' \union alRaced') : alUse'[k] # 0 => alHandle'[alUse'[k]] = "open"
  <2> SUFFICES ASSUME NEW k \in Loggers, k \notin alClosed', k \notin alRaced', alUse'[k] # 0
               PROVE  alHandle'[alUse'[k]] = "open"
    OBVIOUS
  <2>1. CASE k = l
    <3>1. alHandle[h] # "zero"
      BY <1>1, <2>1
    <3>2. alHandle[h] = "open" \/ alHandle[h] = "none"
      BY <1>0, <1>1, <3>1 DEF HandleLife
    <3> QED
      BY <3>2, <2>1, <1>5, <1>8
  <2>2. CASE k # l
    <3>1. k \notin alClosed /\ k \notin alRaced /\ alUse'[k] = alUse[k] /\ alUse[k] \in Handles
      BY <2>2, <1>1, <1>2, <1>4, <1>5
    <3>2. alHandle[alUse[k]] = "open"
      BY <3>1, <1>0 DEF AccessHandlesCounted
    <3> QED
      BY <3>1, <3>2, <1>8
  <2> QED
    BY <2>1, <2>2
<1>13. AccessHandlesCounted'
  BY <1>11, <1>12 DEF AccessHandlesCounted, Users
<1>14. FileSound'
  <2> SUFFICES ASSUME alRaced' = {}
               PROVE  /\ LinesOK(alFile', alBuf', alRotated', alTotal') /\ alPos' \in [Handles -> Nat]
                      /\ alOpened' # 0 => alPos'[alOpened'] = Len(alFile')
    BY DEF FileSound
  <2>1. alRaced = {}
    BY <1>1
  <2>2. /\ LinesOK(alFile, alBuf, alRotated, alTotal) /\ alPos \in [Handles -> Nat]
        /\ alOpened # 0 => alPos[alOpened] = Len(alFile)
    BY <2>1, <1>0 DEF FileSound
  <2>3. Len(alFile) \in Nat
    BY <2>2 DEF LinesOK
  <2>4. alPos' \in [Handles -> Nat] /\ (alOpened' # 0 => alPos'[alOpened'] = Len(alFile'))
    <3>1. CASE alOpened # 0 /\ UNCHANGED <<alOpened, alHandle, alPos>>
      BY ONLY <3>1, <2>2, <1>2
    <3>2. CASE alOpened' = h /\ alPos' = [alPos EXCEPT ![h] = Len(alFile)]
      BY ONLY <3>2, <2>2, <2>3, <1>2, h \in Handles
    <3> QED
      BY <3>1, <3>2, <1>1
  <2> QED
    BY ONLY <2>2, <2>4, <1>2
<1> QED
  BY <1>9, <1>10, <1>13, <1>14 DEF AccessInv

(* A logger ends: its lines are flushed and its reference given back.      *)
LEMMA LoggerEndInductive ==
  ASSUME AccessInv, NEW l \in Loggers, Close(l)
  PROVE  AccessInv'
<1>0. /\ HandleTypes /\ HandleLife /\ AccessHandlesCounted /\ FileSound
      /\ alUse[l] # 0 /\ l \notin alClosed
  <2>1. alPc[l] = "closing"
    BY DEF Close
  <2> QED
    BY <2>1, LoopHolds DEF AccessInv
<1> PICK h : h = alUse[l]
  OBVIOUS
<1>1. /\ alOpened \in Handles \union {0}
      /\ alHandle \in [Handles -> {"none", "open", "zero", "deleted", "closed"}]
      /\ alRef \in [Handles -> Int] /\ alUse \in [Loggers -> Handles \union {0}]
      /\ alPc \in [Loggers -> {"none", "loop", "rotate", "closing", "ended"}]
      /\ alClosed \subseteq Loggers /\ alRaced \subseteq Loggers
  BY <1>0 DEF HandleTypes
<1>2. /\ h \in Handles /\ FlushBuffer(l) /\ alClosed' = alClosed \union {l}
      /\ alRef' = [alRef EXCEPT ![h] = @ - 1] /\ alHandle' = SubRef(h)
      /\ alPc' = [alPc EXCEPT ![l] = "ended"] /\ alPc[l] = "closing"
      /\ UNCHANGED <<alOpened, alUse, alTotal, alRotated, alRaced>>
  BY <1>0, <1>1 DEF Close
<1>3. /\ alRef' \in [Handles -> Int] /\ alRef'[h] = alRef[h] - 1
      /\ \A k \in Handles : k # h => alRef'[k] = alRef[k]
  BY ONLY <1>1, <1>2
<1>4. /\ alPc' \in [Loggers -> {"none", "loop", "rotate", "closing", "ended"}] /\ alPc'[l] = "ended"
      /\ \A k \in Loggers : k # l => alPc'[k] = alPc[k]
  BY ONLY <1>1, <1>2, l \in Loggers
<1>5. /\ alHandle' \in [Handles -> {"none", "open", "zero", "deleted", "closed"}]
      /\ \A k \in Handles : k # h => alHandle'[k] = alHandle[k]
      /\ alHandle'[h] = alHandle[h] \/ (alHandle'[h] = "zero" /\ alHandle[h] = "open" /\ alRef[h] = 1)
  <2>1. CASE alRef[h] = 1 /\ alHandle[h] = "open"
    <3>1. alHandle' = [alHandle EXCEPT ![h] = "zero"]
      BY ONLY <2>1, <1>2 DEF SubRef
    <3> QED
      BY ONLY <3>1, <2>1, <1>1, <1>2
  <2>2. CASE ~(alRef[h] = 1 /\ alHandle[h] = "open")
    <3>1. alHandle' = alHandle
      BY ONLY <2>2, <1>2 DEF SubRef
    <3> QED
      BY ONLY <3>1, <1>1
  <2> QED
    BY ONLY <2>1, <2>2
<1>6. HandleTypes'
  BY ONLY <1>1, <1>2, <1>3, <1>4, <1>5, l \in Loggers DEF HandleTypes
<1>7. HandleLife'
  <2>1. \A k \in Loggers : /\ alUse'[k] = 0 <=> alPc'[k] = "none"
                           /\ k \in alClosed' <=> alPc'[k] = "ended"
    BY <1>0, <1>2, <1>4 DEF HandleLife
  <2>2. \A k \in Handles : alHandle'[k] \in {"open", "zero"} <=> alOpened' = k
    BY <1>0, <1>2, <1>5 DEF HandleLife
  <2> QED
    BY <2>1, <2>2 DEF HandleLife
<1>8. \A k \in Handles : alRef[k] = Cardinality(Users(k))
  BY <1>0 DEF AccessHandlesCounted, Users
<1>9. Users(h)' = Users(h) \ {l} /\ l \in Users(h)
  BY <1>0, <1>2 DEF Users
<1>10. Cardinality(Users(h) \ {l}) = alRef[h] - 1
  BY <1>2, <1>8, <1>9, UsersFinite, FS_RemoveElement
<1>11. \A k \in Handles : alRef'[k] = Cardinality(Users(k)')
  <2> TAKE k \in Handles
  <2>1. CASE k = h
    BY <2>1, <1>3, <1>9, <1>10
  <2>2. CASE k # h
    <3>1. Users(k)' = Users(k)
      BY <2>2, <1>0, <1>2 DEF Users
    <3> QED
      BY <3>1, <2>2, <1>3, <1>8
  <2> QED
    BY <2>1, <2>2
<1>12. alRef[h] = 1 => Users(h) \ {l} = {}
  <2>1. IsFiniteSet(Users(h) \ {l})
    BY UsersFinite, FS_RemoveElement
  <2> QED
    BY <2>1, <1>10, FS_EmptySet
<1>13. \A k \in Loggers \ (alClosed' \union alRaced') : alUse'[k] # 0 => alHandle'[alUse'[k]] = "open"
  <2> SUFFICES ASSUME NEW k \in Loggers, k \notin alClosed', k \notin alRaced', alUse'[k] # 0
               PROVE  alHandle'[alUse'[k]] = "open"
    OBVIOUS
  <2>1. k \notin alClosed /\ k # l /\ k \notin alRaced /\ alUse'[k] = alUse[k] /\ alUse[k] \in Handles
    BY <1>1, <1>2
  <2>2. alHandle[alUse[k]] = "open"
    BY <2>1, <1>0 DEF AccessHandlesCounted
  <2>3. CASE alUse[k] = h
    <3>1. k \in Users(h) \ {l}
      BY <2>1, <2>3 DEF Users
    <3> QED
      BY <3>1, <2>1, <2>2, <2>3, <1>5, <1>12
  <2>4. CASE alUse[k] # h
    BY <2>1, <2>2, <2>4, <1>5
  <2> QED
    BY <2>3, <2>4
<1>14. AccessHandlesCounted'
  BY <1>11, <1>13 DEF AccessHandlesCounted, Users
<1>15. FileSound'
  <2> SUFFICES ASSUME alRaced' = {}
               PROVE  /\ LinesOK(alFile', alBuf', alRotated', alTotal') /\ alPos' \in [Handles -> Nat]
                      /\ alOpened' # 0 => alPos'[alOpened'] = Len(alFile')
    BY DEF FileSound
  <2>1. alRaced = {}
    BY <1>2
  <2>2. /\ LinesOK(alFile', alBuf', alRotated, alTotal)
        /\ alPos' \in [Handles -> Nat] /\ alPos'[alOpened] = Len(alFile')
    BY ONLY AccessInv, <2>1, <1>0, <1>2, l \in Loggers, FlushSound
  <2> QED
    BY ONLY <2>2, <1>2
<1> QED
  BY <1>6, <1>7, <1>14, <1>15 DEF AccessInv

(* The goroutine of a handle takes it out of the map, then closes it.      *)
LEMMA ReleaseInductive ==
  ASSUME AccessInv, NEW h \in Handles, DeleteHandle(h) \/ CloseHandle(h)
  PROVE  AccessInv'
<1>0. /\ HandleTypes /\ HandleLife /\ AccessHandlesCounted /\ FileSound
      /\ UNCHANGED <<alRef, alPos, alFile, alUse, alBuf, alPc, alClosed, alTotal, alRotated, alRaced>>
  BY DEF AccessInv, DeleteHandle, CloseHandle
<1>1. 0 \notin Handles
  BY AccessAssumption, FS_CardinalityType DEF Handles
<1>2. /\ alOpened \in Handles \union {0}
      /\ alHandle \in [Handles -> {"none", "open", "zero", "deleted", "closed"}]
      /\ \A k \in Handles : alHandle[k] \in {"open", "zero"} <=> alOpened = k
  BY <1>0 DEF HandleTypes, HandleLife
<1>3. /\ alHandle' \in [Handles -> {"none", "open", "zero", "deleted", "closed"}]
      /\ \A k \in Handles : k # h => alHandle'[k] = alHandle[k]
      /\ alHandle[h] # "open" /\ alHandle'[h] \notin {"open", "zero"}
      /\ alOpened' = 0 \/ alOpened' = alOpened
      /\ \A k \in Handles : alHandle'[k] \in {"open", "zero"} <=> alOpened' = k
  <2>1. CASE DeleteHandle(h)
    <3>1. alHandle[h] = "zero" /\ alHandle' = [alHandle EXCEPT ![h] = "deleted"] /\ alOpened' = 0
      BY <2>1 DEF DeleteHandle
    <3> QED
      BY ONLY <3>1, <1>1, <1>2, h \in Handles
  <2>2. CASE CloseHandle(h)
    <3>1. alHandle[h] = "deleted" /\ alHandle' = [alHandle EXCEPT ![h] = "closed"] /\ alOpened' = alOpened
      BY <2>2 DEF CloseHandle
    <3> QED
      BY ONLY <3>1, <1>2, h \in Handles
  <2> QED
    BY <2>1, <2>2
<1>4. HandleTypes' /\ HandleLife'
  BY <1>0, <1>2, <1>3 DEF HandleTypes, HandleLife
<1>5. AccessHandlesCounted'
  <2>1. \A k \in Handles : alRef'[k] = Cardinality({l \in Loggers \ alClosed' : alUse'[l] = k})
    BY <1>0 DEF AccessHandlesCounted
  <2>2. \A l \in Loggers \ (alClosed' \union alRaced') : alUse'[l] # 0 => alHandle'[alUse'[l]] = "open"
    BY <1>0, <1>3 DEF AccessHandlesCounted, HandleTypes
  <2> QED
    BY <2>1, <2>2 DEF AccessHandlesCounted
<1>6. FileSound'
  BY ONLY <1>0, <1>3 DEF FileSound
<1> QED
  BY <1>4, <1>5, <1>6 DEF AccessInv

LEMMA AccessInitially ==
  ASSUME AccessInit
  PROVE  AccessInv
<1> USE DEF AccessInit
<1>1. HandleTypes /\ HandleLife
  <2>1. 0 \notin Handles
    BY AccessAssumption, FS_CardinalityType DEF Handles
  <2> QED
    BY <2>1 DEF HandleTypes, HandleLife
<1>2. AccessHandlesCounted
  <2>1. 0 \notin Handles
    BY AccessAssumption, FS_CardinalityType DEF Handles
  <2>2. \A h \in Handles : {l \in Loggers \ alClosed : alUse[l] = h} = {}
    BY <2>1
  <2>3. \A h \in Handles : Cardinality({l \in Loggers \ alClosed : alUse[l] = h}) = 0
    BY <2>2, FS_EmptySet
  <2> QED
    BY <2>3 DEF AccessHandlesCounted
<1>3. LinesOK(alFile, alBuf, alRotated, alTotal)
  <2>1. LinesIn(alFile) = {} /\ \A l \in Loggers : LinesIn(alBuf[l]) = {}
    BY DEF LinesIn
  <2>2. AllLines(alFile, alBuf, alRotated) = {}
    BY <2>1 DEF AllLines
  <2>3. Ordered(alFile) /\ \A l \in Loggers : Ordered(alBuf[l])
    BY DEF Ordered
  <2>4. \A k \in 1..alTotal : FALSE
    OBVIOUS
  <2>5. alBuf \in [Loggers -> Seq(Line)] /\ alFile \in Seq(Line)
    OBVIOUS
  <2> QED
    BY <2>1, <2>2, <2>3, <2>4, <2>5 DEF LinesOK
<1>4. FileSound
  BY <1>3 DEF FileSound
<1> QED
  BY <1>1, <1>2, <1>4 DEF AccessInv

(* The inductive invariant of the access loggers: reference counts, the    *)
(* life of the handles and the position the shared handle writes at        *)
(* (AccessLog: OpenFile, write, Rotate, Close, closeOnZero).               *)
THEOREM AccessInvariant == AccessSpec => []AccessInv
<1>1. AccessInit => AccessInv
  BY AccessInitially
<1>2. AccessInv /\ [AccessNext]_alVars => AccessInv'
  <2> SUFFICES ASSUME AccessInv, [AccessNext]_alVars PROVE AccessInv'
    OBVIOUS
  <2>1. CASE UNCHANGED alVars
    BY <2>1 DEF alVars, AccessInv, HandleTypes, HandleLife, AccessHandlesCounted, FileSound
  <2>2. CASE \E l \in Loggers : \/ OpenFile(l) \/ LogRequest(l) \/ CancelLogger(l) \/ RotateFlush(l)
                                \/ RotateFile(l) \/ AdjustBuffer(l) \/ EndFlush(l) \/ Close(l)
    <3>1. PICK l \in Loggers : \/ OpenFile(l) \/ LogRequest(l) \/ CancelLogger(l) \/ RotateFlush(l)
                               \/ RotateFile(l) \/ AdjustBuffer(l) \/ EndFlush(l) \/ Close(l)
      BY <2>2
    <3>2. CASE OpenFile(l)
      BY <3>2, OpenInductive
    <3>3. CASE Close(l)
      BY <3>3, LoggerEndInductive
    <3>4. CASE ~OpenFile(l) /\ ~Close(l)
      BY <3>1, <3>4, WriteInductive
    <3> QED
      BY <3>2, <3>3, <3>4
  <2>3. CASE \E h \in Handles : DeleteHandle(h) \/ CloseHandle(h)
    BY <2>3, ReleaseInductive
  <2> QED
    BY <2>1, <2>2, <2>3 DEF AccessNext
<1> QED
  BY <1>1, <1>2, PTL DEF AccessSpec

(* As many lines as were logged: each number is on exactly one line.       *)
LEMMA LinesCounted ==
  ASSUME NEW f, NEW b, NEW r, NEW n, LinesOK(f, b, r, n)
  PROVE  Cardinality(AllLines(f, b, r)) = n
<1> DEFINE S == AllLines(f, b, r)
           g == [k \in 1..n |-> CHOOSE x \in S : x[2] = k]
<1>1. /\ n \in Nat /\ \A x \in S : x[2] \in 1..n
      /\ \A x, y \in S : x[2] = y[2] => x = y
      /\ \A k \in 1..n : \E x \in S : x[2] = k
  BY DEF LinesOK
<1> HIDE DEF S
<1>2. \A k \in 1..n : g[k] \in S /\ g[k][2] = k
  BY <1>1
<1>3. g \in [1..n -> S] /\ \A x \in S : \E k \in 1..n : g[k] = x
  BY <1>1, <1>2
<1>4. \A j, k \in 1..n : g[j] = g[k] => j = k
  BY <1>2
<1> HIDE DEF g
<1>5. g \in Bijection(1..n, S)
  BY <1>3, <1>4 DEF Bijection, Injection, Surjection, IsInjective
<1>6. IsFiniteSet(1..n) /\ Cardinality(1..n) = n
  BY <1>1, FS_Interval
<1> QED
  BY <1>5, <1>6, FS_Bijection DEF ExistsBijection, S

(* Reference counts, no lost line, order of the lines, for any number of   *)
(* loggers, lines and buffer sizes (AccessLog: OpenFile, write, Rotate,    *)
(* adjustBuffer, Close).                                                   *)
THEOREM AccessLogsKeepTheirLines == AccessSpec => []AccessSound
<1>1. AccessInv => AccessSound
  <2> SUFFICES ASSUME AccessInv PROVE AccessSound
    OBVIOUS
  <2>1. AccessHandlesCounted
    BY DEF AccessInv
  <2>2. AccessNothingLost
    <3> SUFFICES ASSUME alRaced = {}
                 PROVE  alTotal = Cardinality(LinesIn(alFile) \union alRotated \union Buffered)
      BY DEF AccessNothingLost
    <3>1. LinesOK(alFile, alBuf, alRotated, alTotal)
      BY DEF AccessInv, FileSound
    <3>2. AllLines(alFile, alBuf, alRotated) = LinesIn(alFile) \union alRotated \union Buffered
      BY DEF AllLines, Buffered
    <3> QED
      BY <3>1, <3>2, LinesCounted
  <2>3. AccessInOrder
    <3> SUFFICES ASSUME alRaced = {}
                 PROVE  /\ Ordered(alFile) /\ \A l \in Loggers : Ordered(alBuf[l])
                        /\ \A x \in LinesIn(alFile), y \in Buffered : Older(x, y)
                        /\ \A x \in alRotated, y \in LinesIn(alFile) \union Buffered : Older(x, y)
      BY DEF AccessInOrder
    <3>1. /\ Ordered(alFile) /\ \A l \in Loggers : Ordered(alBuf[l])
          /\ \A x \in LinesIn(alFile), l \in Loggers : \A y \in LinesIn(alBuf[l]) : Older(x, y)
          /\ \A x \in alRotated, y \in LinesIn(alFile) : Older(x, y)
          /\ \A x \in alRotated, l \in Loggers : \A y \in LinesIn(alBuf[l]) : Older(x, y)
      BY DEF AccessInv, FileSound, LinesOK
    <3>2. \A y \in Buffered : \E l \in Loggers : y \in LinesIn(alBuf[l])
      BY DEF Buffered
    <3> QED
      BY ONLY <3>1, <3>2
  <2> QED
    BY <2>1, <2>2, <2>3 DEF AccessSound
<1> QED
  BY <1>1, AccessInvariant, PTL

-----------------------------------------------------------------------------
(***************************************************************************)
(* Autocert.                                                               *)
(***************************************************************************)
CertPcs == {"load", "obtain", "request", "key", "cert", "rebuild", "fill", "clear",
            "ready", "failed", "idle", "ended"}
CertRecords == [tls : Nat, last : Int, timer : Int, force : {0, 1}, done : BOOLEAN,
                pc : CertPcs, mode : {"init", "needed", "force"}, new : Nat]
CertFiles == [key : Nat, crt : Nat, failure : Int]
Attempts  == [at : Int, early : BOOLEAN, failed : BOOLEAN]
Calls     == [pc : {"none", "force", "load", "wait"}, at : 0..Len(Certs), ok : BOOLEAN]

AutocertTypes ==
  /\ acClock \in Nat /\ acPhase \in {"init", "run", "failed", "stopped"}
  /\ issued \in Seq(Int) /\ matcher \subseteq CertProviders
  /\ prov \in [CertProviders -> CertRecords] /\ disk \in [CertProviders -> CertFiles]
  /\ asked \in [CertProviders -> Attempts]
  /\ forcer \in Calls /\ (forcer.pc # "none" => forcer.at # 0)

(* A provider, of its record r and its files d: every certificate it has   *)
(* was issued, the steps that use one have one, and the files hold what is *)
(* served but between the writes of the key and of the certificate.        *)
HasCert(p, r, d, n) ==
  /\ {r.tls, r.new, d.key, d.crt} \subseteq 0..n
  /\ r.pc \in {"rebuild", "fill", "clear", "ready"} => r.tls # 0
  /\ r.pc \in {"key", "cert"} => r.new # 0
  /\ r.pc \in {"rebuild", "fill"} => p = Main
  /\ r.pc = "cert" => d.key = r.new
  /\ r.tls # 0 /\ r.pc # "cert" => d.key = r.tls /\ d.crt = r.tls

(* After a request that did not end well its time is on disk, and what is  *)
(* in memory agrees; who is about to request was allowed to.               *)
Cooled(r, d, a, now) ==
  /\ r.pc = "load" => r.mode = "init"
  /\ a.failed =>
       /\ a.at \in Nat /\ d.failure = a.at /\ r.last \in {Never, a.at}
       /\ r.pc = "obtain" /\ r.mode = "init" => now - a.at >= RequestCooldown
       /\ r.pc = "obtain" /\ r.mode = "needed" => now - a.at >= RenewalCooldown
  /\ ~a.early

CertKept(p, r, d, a, n, now) == HasCert(p, r, d, n) /\ Cooled(r, d, a, now)

(* While renewals are scheduled every provider has a certificate, and all  *)
(* are in the matcher unless the main one is filling it.                   *)
Serving ==
  acPhase = "run" =>
    /\ \A p \in CertProviders : prov[p].tls # 0
    /\ matcher = CertProviders \/ prov[Main].pc = "fill"

AutocertInv ==
  /\ AutocertTypes /\ Serving
  /\ \A p \in CertProviders : CertKept(p, prov[p], disk[p], asked[p], Len(issued), acClock)

(* The main provider is one of them.                                       *)
LEMMA MainIsOne ==
  /\ Main \in CertProviders /\ Len(Certs) \in Nat \ {0}
  /\ \A k \in 1..Len(Certs) : Certs[k] \in CertProviders
<1>1. Certs \in Seq(STRING \ {""}) /\ Certs # << >>
  BY AutocertAssumption
<1>2. Len(Certs) \in Nat /\ Len(Certs) # 0 /\ DOMAIN Certs = 1..Len(Certs)
  BY <1>1, EmptySeq, LenProperties
<1> QED
  BY <1>2 DEF Main, CertProviders, ToSet

(* What a step of one provider has to keep.                                *)
LEMMA OwnStep ==
  ASSUME AutocertInv, NEW p \in CertProviders,
         NEW r \in CertRecords, NEW d \in CertFiles, NEW a \in Attempts,
         prov' = [prov EXCEPT ![p] = r], disk' = [disk EXCEPT ![p] = d],
         asked' = [asked EXCEPT ![p] = a],
         issued' \in Seq(Int), Len(issued') >= Len(issued),
         acClock' = acClock, acPhase' = acPhase,
         forcer' \in Calls, forcer'.pc # "none" => forcer'.at # 0,
         CertKept(p, r, d, a, Len(issued'), acClock),
         prov[p].tls # 0 => r.tls # 0,
         \/ matcher' = matcher /\ (prov[p].pc = "fill" => r.pc = "fill")
         \/ matcher' = {} /\ p = Main /\ r.pc = "fill"
         \/ matcher' = Loaded
  PROVE  AutocertInv'
<1>1. /\ prov \in [CertProviders -> CertRecords] /\ disk \in [CertProviders -> CertFiles]
      /\ asked \in [CertProviders -> Attempts] /\ matcher \subseteq CertProviders
      /\ issued \in Seq(Int) /\ Main \in CertProviders
  BY MainIsOne DEF AutocertInv, AutocertTypes
<1>2. AutocertTypes'
  BY <1>1 DEF AutocertInv, AutocertTypes, Loaded
<1>3. \A q \in CertProviders : prov'[q] = IF q = p THEN r ELSE prov[q]
  BY <1>1
<1>4. Serving'
  <2> SUFFICES ASSUME acPhase = "run"
               PROVE  /\ \A q \in CertProviders : prov'[q].tls # 0
                      /\ matcher' = CertProviders \/ prov'[Main].pc = "fill"
    BY DEF Serving
  <2>1. /\ \A q \in CertProviders : prov[q].tls # 0
        /\ matcher = CertProviders \/ prov[Main].pc = "fill"
    BY DEF AutocertInv, Serving
  <2>2. Loaded = CertProviders
    BY <2>1 DEF Loaded
  <2>3. \A q \in CertProviders : prov'[q].tls # 0
    BY <2>1, <1>3
  <2>4. matcher' = CertProviders \/ prov'[Main].pc = "fill"
    BY <2>1, <2>2, <1>3, <1>1
  <2> QED
    BY <2>3, <2>4
<1>5. ASSUME NEW q \in CertProviders
      PROVE  CertKept(q, prov'[q], disk'[q], asked'[q], Len(issued'), acClock)
  <2>1. CASE q = p
    BY <2>1, <1>1, <1>3
  <2>2. CASE q # p
    <3>1. prov'[q] = prov[q] /\ disk'[q] = disk[q] /\ asked'[q] = asked[q]
      BY <2>2, <1>1
    <3>2. CertKept(q, prov[q], disk[q], asked[q], Len(issued), acClock)
      BY DEF AutocertInv
    <3>3. 0..Len(issued) \subseteq 0..Len(issued')
      BY <1>1
    <3> QED
      BY <3>1, <3>2, <3>3 DEF CertKept, HasCert
  <2> QED
    BY <2>1, <2>2
<1> QED
  BY <1>2, <1>4, <1>5 DEF AutocertInv

(* The same when nothing is issued and the caller of the API is elsewhere. *)
LEMMA OwnQuietStep ==
  ASSUME AutocertInv, NEW p \in CertProviders,
         NEW r \in CertRecords, NEW d \in CertFiles, NEW a \in Attempts,
         prov' = [prov EXCEPT ![p] = r], disk' = [disk EXCEPT ![p] = d],
         asked' = [asked EXCEPT ![p] = a],
         UNCHANGED <<issued, acClock, acPhase, forcer>>,
         CertKept(p, r, d, a, Len(issued), acClock),
         prov[p].tls # 0 => r.tls # 0,
         \/ matcher' = matcher /\ (prov[p].pc = "fill" => r.pc = "fill")
         \/ matcher' = {} /\ p = Main /\ r.pc = "fill"
         \/ matcher' = Loaded
  PROVE  AutocertInv'
<1>1. /\ issued' \in Seq(Int) /\ Len(issued') >= Len(issued)
      /\ forcer' \in Calls /\ (forcer'.pc # "none" => forcer'.at # 0)
      /\ Len(issued') = Len(issued)
  BY DEF AutocertInv, AutocertTypes
<1> QED
  BY <1>1, OwnStep

(* Writing the fields of a record or of the files keeps their types.       *)
LEMMA RecordsWritten ==
  ASSUME NEW r \in CertRecords, NEW to \in CertPcs
  PROVE  /\ [r EXCEPT !.pc = to] \in CertRecords
         /\ [r EXCEPT !.timer = Never, !.mode = "needed"] \in CertRecords
         /\ [r EXCEPT !.force = 0, !.mode = "force", !.pc = to] \in CertRecords
         /\ [r EXCEPT !.done = TRUE, !.force = 1] \in CertRecords
         /\ [r EXCEPT !.last = Never, !.pc = to] \in CertRecords
         /\ [r EXCEPT !.pc = to, !.timer = Never] \in CertRecords
         /\ \A c \in Nat : [r EXCEPT !.new = c, !.pc = to] \in CertRecords
         /\ \A c \in Nat : [r EXCEPT !.tls = c, !.new = 0, !.pc = to] \in CertRecords
         /\ \A t \in Int : [r EXCEPT !.last = t, !.pc = to] \in CertRecords
         /\ \A t \in Int : [r EXCEPT !.pc = to, !.timer = t] \in CertRecords
         /\ \A t \in Int : [r EXCEPT !.last = Never, !.pc = to, !.timer = t, !.done = FALSE] \in CertRecords
<1>0. Never \in Int
  BY DEF Never
<1>1. [r EXCEPT !.pc = to] \in CertRecords
  BY <1>0 DEF CertRecords
<1>2. [r EXCEPT !.timer = Never, !.mode = "needed"] \in CertRecords
  BY <1>0 DEF CertRecords
<1>3. [r EXCEPT !.force = 0, !.mode = "force", !.pc = to] \in CertRecords
  BY <1>0 DEF CertRecords
<1>4. [r EXCEPT !.done = TRUE, !.force = 1] \in CertRecords
  BY <1>0 DEF CertRecords
<1>5. [r EXCEPT !.last = Never, !.pc = to] \in CertRecords
  BY <1>0 DEF CertRecords
<1>6. [r EXCEPT !.pc = to, !.timer = Never] \in CertRecords
  BY <1>0 DEF CertRecords
<1>7. \A c \in Nat : [r EXCEPT !.new = c, !.pc = to] \in CertRecords
  BY <1>0 DEF CertRecords
<1>8. \A c \in Nat : [r EXCEPT !.tls = c, !.new = 0, !.pc = to] \in CertRecords
  BY <1>0 DEF CertRecords
<1>9. \A t \in Int : [r EXCEPT !.last = t, !.pc = to] \in CertRecords
  BY <1>0 DEF CertRecords
<1>10. \A t \in Int : [r EXCEPT !.pc = to, !.timer = t] \in CertRecords
  BY <1>0 DEF CertRecords
<1>11. \A t \in Int : [r EXCEPT !.last = Never, !.pc = to, !.timer = t, !.done = FALSE] \in CertRecords
  BY <1>0 DEF CertRecords
<1> QED
  BY <1>1, <1>2, <1>3, <1>4, <1>5, <1>6, <1>7, <1>8, <1>9, <1>10, <1>11

LEMMA FilesWritten ==
  ASSUME NEW d \in CertFiles
  PROVE  /\ \A t \in Int : [d EXCEPT !.failure = t] \in CertFiles
         /\ \A c \in Nat : [d EXCEPT !.key = c] \in CertFiles /\ [d EXCEPT !.crt = c] \in CertFiles
  BY DEF CertFiles

(* The deferred failure of a provider's work.                              *)
LEMMA FailedKeeps ==
  ASSUME NEW p, NEW r \in CertRecords
  PROVE  /\ Failed(p, r) \in CertRecords
         /\ Failed(p, r).tls = r.tls /\ Failed(p, r).new = r.new
         /\ Failed(p, r).last = r.last /\ Failed(p, r).mode = r.mode
         /\ Failed(p, r).pc \in {"failed", "idle"}
<1>1. [r EXCEPT !.pc = "failed"] \in CertRecords /\ [r EXCEPT !.pc = "idle", !.done = FALSE] \in CertRecords
  BY DEF CertRecords, CertPcs
<1> QED
  BY <1>1 DEF Failed, CertRecords

(* A failure of a provider that is not writing its files keeps all.        *)
LEMMA FailedIsKept ==
  ASSUME NEW p, NEW r \in CertRecords, NEW s \in CertRecords,
         NEW d \in CertFiles, NEW a \in Attempts, NEW n, NEW now,
         CertKept(p, r, d, a, n, now), r.pc # "cert",
         s.tls = r.tls, s.new = r.new, s.last = r.last
  PROVE  CertKept(p, Failed(p, s), d, a, n, now)
<1> DEFINE f == Failed(p, s)
<1>1. f.tls = r.tls /\ f.new = r.new /\ f.last = r.last /\ f.pc \in {"failed", "idle"}
  BY FailedKeeps
<1> HIDE DEF f
<1>2. HasCert(p, f, d, n)
  BY <1>1 DEF CertKept, HasCert
<1>3. Cooled(f, d, a, now)
  BY <1>1 DEF CertKept, Cooled
<1> QED
  BY <1>2, <1>3 DEF CertKept, f

(* Nobody who is not cooling has asked within the cool-down.               *)
LEMMA NotCooling ==
  ASSUME AutocertInv, NEW p \in CertProviders, NEW t \in Nat, ~Cooling(p, t), asked[p].failed
  PROVE  acClock - asked[p].at >= t
<1>1. /\ asked[p].at \in Nat /\ disk[p].failure = asked[p].at
      /\ prov[p].last \in {Never, asked[p].at} /\ acClock \in Nat
  BY DEF AutocertInv, AutocertTypes, CertKept, Cooled
<1>2. GetLastFailure(p) = asked[p].at
  BY <1>1 DEF GetLastFailure
<1>3. ~(acClock - asked[p].at < t)
  BY <1>1, <1>2 DEF Cooling, Never
<1> QED
  BY <1>1, <1>3

(* loadCert keeps the invariant.                                           *)
LEMMA LoadCertStep ==
  ASSUME AutocertInv, NEW p \in CertProviders, loadCert(p)
  PROVE  AutocertInv'
<1> DEFINE r == prov[p]  d == disk[p]  a == asked[p]
           z == IF d.key = 0 \/ d.crt = 0
                  THEN IF Cooling(p, RequestCooldown) THEN Failed(p, r) ELSE [r EXCEPT !.pc = "obtain"]
                ELSE IF d.key # d.crt THEN Failed(p, r)
                ELSE [r EXCEPT !.tls = d.crt, !.pc = "ready"]
<1>1. /\ r \in CertRecords /\ d \in CertFiles /\ a \in Attempts /\ issued \in Seq(Int)
      /\ disk' = [disk EXCEPT ![p] = d] /\ asked' = [asked EXCEPT ![p] = a]
      /\ CertKept(p, r, d, a, Len(issued), acClock) /\ forcer \in Calls
  BY DEF AutocertInv, AutocertTypes, loadCert
<1>2. /\ r.pc = "load" /\ prov' = [prov EXCEPT ![p] = z] /\ UNCHANGED <<issued, acClock, acPhase, forcer, matcher>>
  BY DEF loadCert, Set, At, Unforced
<1>3. /\ z \in CertRecords /\ CertKept(p, z, d, a, Len(issued), acClock)
      /\ r.tls # 0 => z.tls # 0
  <2>1. CASE z = Failed(p, r)
    BY <2>1, <1>1, <1>2, FailedKeeps, FailedIsKept
  <2>2. CASE z = [r EXCEPT !.pc = "obtain"] /\ ~Cooling(p, RequestCooldown)
    <3>1. r.mode = "init" /\ (a.failed => acClock - a.at >= RequestCooldown)
      BY <2>2, <1>1, <1>2, NotCooling, AutocertAssumption DEF CertKept, Cooled
    <3>2. /\ z \in CertRecords /\ z.pc = "obtain" /\ z.tls = r.tls /\ z.new = r.new /\ z.last = r.last
          /\ z.mode = r.mode
      BY <2>2, <1>1 DEF CertRecords, CertPcs
    <3> HIDE DEF z
    <3> QED
      BY <3>1, <3>2, <1>1, <1>2 DEF CertKept, HasCert, Cooled
  <2>3. CASE z = [r EXCEPT !.tls = d.crt, !.pc = "ready"] /\ d.crt # 0 /\ d.key = d.crt
    BY <2>3, <1>1, <1>2 DEF CertKept, HasCert, Cooled, CertRecords, CertFiles, CertPcs
  <2> QED
    BY <2>1, <2>2, <2>3
<1> HIDE DEF z
<1> QED
  BY <1>1, <1>2, <1>3, OwnQuietStep

(* ObtainCert: the cool-down holds because the failure is on disk before   *)
(* the request is made.                                                    *)
LEMMA ObtainCertStep ==
  ASSUME AutocertInv, NEW p \in CertProviders, ObtainCert(p)
  PROVE  AutocertInv'
<1>1. /\ prov[p] \in CertRecords /\ disk[p] \in CertFiles /\ asked[p] \in Attempts /\ issued \in Seq(Int)
      /\ prov \in [CertProviders -> CertRecords] /\ disk \in [CertProviders -> CertFiles]
      /\ asked \in [CertProviders -> Attempts]
      /\ CertKept(p, prov[p], disk[p], asked[p], Len(issued), acClock) /\ forcer \in Calls /\ acClock \in Nat
  BY DEF AutocertInv, AutocertTypes
<1>2. /\ prov[p].pc = "obtain" /\ UNCHANGED <<issued, acClock, acPhase, forcer, matcher>>
  BY DEF ObtainCert, At, Unforced
<1>3. CASE Set(p, Failed(p, prov[p])) /\ UNCHANGED <<disk, asked>>
  <2>1. /\ disk' = [disk EXCEPT ![p] = disk[p]] /\ asked' = [asked EXCEPT ![p] = asked[p]]
        /\ prov' = [prov EXCEPT ![p] = Failed(p, prov[p])]
    BY <1>3, <1>1 DEF Set
  <2>2. /\ Failed(p, prov[p]) \in CertRecords /\ (prov[p].tls # 0 => Failed(p, prov[p]).tls # 0)
        /\ CertKept(p, Failed(p, prov[p]), disk[p], asked[p], Len(issued), acClock)
    BY <1>1, <1>2, FailedKeeps, FailedIsKept
  <2> QED
    BY <2>1, <2>2, <1>1, <1>2, OwnQuietStep
<1>4. CASE /\ UpdateLastFailure(p)
           /\ asked' = [asked EXCEPT ![p] =
                [at |-> acClock, failed |-> TRUE,
                 early |-> /\ asked[p].failed /\ prov[p].mode # "force"
                           /\ acClock - asked[p].at < IF prov[p].mode = "init" THEN RequestCooldown ELSE RenewalCooldown]]
  <2> DEFINE r == [prov[p] EXCEPT !.last = acClock, !.pc = "request"]
             d == [disk[p] EXCEPT !.failure = acClock]
             b == /\ asked[p].failed /\ prov[p].mode # "force"
                  /\ acClock - asked[p].at < IF prov[p].mode = "init" THEN RequestCooldown ELSE RenewalCooldown
             a == [at |-> acClock, failed |-> TRUE, early |-> b]
  <2>1. prov' = [prov EXCEPT ![p] = r] /\ disk' = [disk EXCEPT ![p] = d] /\ asked' = [asked EXCEPT ![p] = a]
    BY <1>4, <1>1 DEF UpdateLastFailure
  <2>2. ~b
    <3>1. prov[p].mode \in {"init", "needed", "force"}
      BY <1>1 DEF CertRecords
    <3>2. asked[p].failed =>
             /\ asked[p].at \in Nat
             /\ prov[p].mode = "init" => acClock - asked[p].at >= RequestCooldown
             /\ prov[p].mode = "needed" => acClock - asked[p].at >= RenewalCooldown
      BY <1>1, <1>2 DEF CertKept, Cooled
    <3>3. RequestCooldown \in Nat /\ RenewalCooldown \in Nat
      BY AutocertAssumption
    <3> QED
      BY <3>1, <3>2, <3>3, <1>1
  <2>3. r \in CertRecords /\ d \in CertFiles /\ a \in Attempts /\ a.failed /\ a.at = acClock /\ ~a.early
    <3>1. b = FALSE
      BY <2>2, Zenon
    <3> HIDE DEF b
    <3>2. r \in CertRecords
      <4>1. "request" \in CertPcs /\ acClock \in Int
        BY <1>1 DEF CertPcs
      <4> QED
        BY <4>1, <1>1, RecordsWritten
    <3>3. d \in CertFiles
      <4>1. acClock \in Int
        BY <1>1
      <4> QED
        BY <4>1, <1>1, FilesWritten
    <3>4. a = [at |-> acClock, failed |-> TRUE, early |-> FALSE]
      BY <3>1
    <3>5. a \in Attempts /\ a.failed /\ a.at = acClock /\ ~a.early
      <4> HIDE DEF a
      <4> QED
        BY <1>1, <3>4 DEF Attempts
    <3> QED
      BY <3>2, <3>3, <3>5
  <2>4. /\ r.pc = "request" /\ r.last = acClock /\ r.tls = prov[p].tls /\ r.new = prov[p].new
        /\ d.failure = acClock /\ d.key = disk[p].key /\ d.crt = disk[p].crt
    BY <1>1 DEF CertRecords, CertFiles
  <2> HIDE DEF r, d, a
  <2>5. CertKept(p, r, d, a, Len(issued), acClock)
    BY <2>3, <2>4, <1>1, <1>2 DEF CertKept, HasCert, Cooled
  <2> QED
    BY <2>1, <2>3, <2>4, <2>5, <1>1, <1>2, OwnQuietStep
<1> QED
  BY <1>3, <1>4 DEF ObtainCert

(* What the invariant says of one provider.                                *)
LEMMA OfProvider ==
  ASSUME AutocertInv, NEW p \in CertProviders
  PROVE  /\ prov[p] \in CertRecords /\ disk[p] \in CertFiles /\ asked[p] \in Attempts
         /\ prov \in [CertProviders -> CertRecords] /\ disk \in [CertProviders -> CertFiles]
         /\ asked \in [CertProviders -> Attempts]
         /\ disk = [disk EXCEPT ![p] = disk[p]] /\ asked = [asked EXCEPT ![p] = asked[p]]
         /\ HasCert(p, prov[p], disk[p], Len(issued)) /\ Cooled(prov[p], disk[p], asked[p], acClock)
         /\ forcer \in Calls /\ acClock \in Nat /\ issued \in Seq(Int) /\ Len(issued) \in Nat
  BY DEF AutocertInv, AutocertTypes, CertKept

LEMMA ObtainedStep ==
  ASSUME AutocertInv, NEW p \in CertProviders, Obtained(p)
  PROVE  AutocertInv'
<1>1. /\ prov[p].pc = "request" /\ UNCHANGED <<disk, asked, acClock, acPhase, forcer, matcher>>
  BY DEF Obtained, At, Unforced
<1>2. CASE Set(p, Failed(p, prov[p])) /\ UNCHANGED issued
  <2>1. /\ Failed(p, prov[p]) \in CertRecords /\ (prov[p].tls # 0 => Failed(p, prov[p]).tls # 0)
        /\ CertKept(p, Failed(p, prov[p]), disk[p], asked[p], Len(issued), acClock)
    BY <1>1, OfProvider, FailedKeeps, FailedIsKept DEF CertKept
  <2>2. /\ disk' = [disk EXCEPT ![p] = disk[p]] /\ asked' = [asked EXCEPT ![p] = asked[p]]
        /\ prov' = [prov EXCEPT ![p] = Failed(p, prov[p])]
    BY <1>1, <1>2, OfProvider DEF Set
  <2> QED
    <3>1. disk[p] \in CertFiles /\ asked[p] \in Attempts
      BY OfProvider
    <3>2. matcher' = matcher /\ (prov[p].pc = "fill" => Failed(p, prov[p]).pc = "fill")
      BY <1>1
    <3>3. UNCHANGED <<issued, acClock, acPhase, forcer>>
      BY <1>1, <1>2
    <3> QED
      BY ONLY AutocertInv, p \in CertProviders, <2>1, <2>2, <3>1, <3>2, <3>3, OwnQuietStep
<1>3. CASE /\ issued' = Append(issued, acClock + CertLife)
           /\ Set(p, [prov[p] EXCEPT !.new = Len(issued) + 1, !.pc = "key"])
  <2> DEFINE r == [prov[p] EXCEPT !.new = Len(issued) + 1, !.pc = "key"]
  <2>1. /\ prov' = [prov EXCEPT ![p] = r]
        /\ disk' = [disk EXCEPT ![p] = disk[p]] /\ asked' = [asked EXCEPT ![p] = asked[p]]
    BY <1>1, <1>3, OfProvider DEF Set
  <2>2. /\ issued' \in Seq(Int) /\ Len(issued') = Len(issued) + 1
    <3>1. CertLife \in Nat
      BY AutocertAssumption
    <3>2. acClock + CertLife \in Int /\ issued \in Seq(Int)
      BY <3>1, OfProvider
    <3> QED
      BY <3>2, <1>3, AppendProperties
  <2>3. r \in CertRecords
    <3>1. "key" \in CertPcs /\ Len(issued) + 1 \in Nat
      BY OfProvider DEF CertPcs
    <3> QED
      BY <3>1, OfProvider, RecordsWritten
  <2>4. /\ r.pc = "key" /\ r.new = Len(issued) + 1 /\ r.tls = prov[p].tls /\ r.last = prov[p].last
    BY OfProvider DEF CertRecords
  <2> HIDE DEF r
  <2>5. HasCert(p, r, disk[p], Len(issued'))
    <3>1. /\ HasCert(p, prov[p], disk[p], Len(issued)) /\ Len(issued) \in Nat
          /\ 0..Len(issued) \subseteq 0..Len(issued') /\ r.new \in 0..Len(issued') /\ r.new # 0
      BY <2>2, <2>4, OfProvider
    <3> QED
      BY <3>1, <2>4, <1>1 DEF HasCert
  <2>6. Cooled(r, disk[p], asked[p], acClock)
    BY <2>4, OfProvider DEF Cooled
  <2>7. CertKept(p, r, disk[p], asked[p], Len(issued'), acClock)
    BY <2>5, <2>6 DEF CertKept
  <2>8. /\ forcer' \in Calls /\ (forcer'.pc # "none" => forcer'.at # 0) /\ Len(issued') >= Len(issued)
    BY <1>1, <2>2, OfProvider DEF AutocertInv, AutocertTypes
  <2>9. /\ prov[p].tls # 0 => r.tls # 0
        /\ \/ matcher' = matcher /\ (prov[p].pc = "fill" => r.pc = "fill")
           \/ matcher' = {} /\ p = Main /\ r.pc = "fill"
           \/ matcher' = Loaded
        /\ disk[p] \in CertFiles /\ asked[p] \in Attempts
        /\ acClock' = acClock /\ acPhase' = acPhase
    BY <1>1, <2>4, OfProvider
  <2> QED
    BY <2>1, <2>2, <2>3, <2>7, <2>8, <2>9, OwnStep, Zenon
<1> QED
  BY <1>2, <1>3 DEF Obtained

LEMMA SaveKeyStep ==
  ASSUME AutocertInv, NEW p \in CertProviders, saveKey(p)
  PROVE  AutocertInv'
<1> DEFINE r == [prov[p] EXCEPT !.pc = "cert"]
           d == [disk[p] EXCEPT !.key = prov[p].new]
<1>1. /\ prov[p].pc = "key" /\ UNCHANGED <<issued, acClock, acPhase, forcer, matcher>>
      /\ prov' = [prov EXCEPT ![p] = r] /\ disk' = [disk EXCEPT ![p] = d]
      /\ asked' = [asked EXCEPT ![p] = asked[p]]
  BY OfProvider DEF saveKey, At, Unforced, Set
<1>2. r \in CertRecords /\ d \in CertFiles
  <2>1. "cert" \in CertPcs /\ prov[p].new \in Nat
    BY OfProvider DEF CertPcs, CertRecords
  <2> QED
    BY <2>1, OfProvider, RecordsWritten, FilesWritten
<1>3. /\ r.pc = "cert" /\ r.new = prov[p].new /\ r.tls = prov[p].tls /\ r.last = prov[p].last
      /\ d.key = prov[p].new /\ d.crt = disk[p].crt /\ d.failure = disk[p].failure
  BY OfProvider DEF CertRecords, CertFiles
<1> HIDE DEF r, d
<1>4. HasCert(p, r, d, Len(issued))
  BY <1>1, <1>3, OfProvider DEF HasCert
<1>5. Cooled(r, d, asked[p], acClock)
  BY <1>3, OfProvider DEF Cooled
<1> QED
  BY <1>1, <1>2, <1>3, <1>4, <1>5, OfProvider, OwnQuietStep DEF CertKept

LEMMA SaveCertStep ==
  ASSUME AutocertInv, NEW p \in CertProviders, saveCert(p)
  PROVE  AutocertInv'
<1> DEFINE to == IF p = Main THEN "rebuild" ELSE "clear"
           r == [prov[p] EXCEPT !.tls = prov[p].new, !.new = 0, !.pc = to]
           d == [disk[p] EXCEPT !.crt = prov[p].new]
<1>1. /\ prov[p].pc = "cert" /\ UNCHANGED <<issued, acClock, acPhase, forcer, matcher>>
      /\ prov' = [prov EXCEPT ![p] = r] /\ disk' = [disk EXCEPT ![p] = d]
      /\ asked' = [asked EXCEPT ![p] = asked[p]]
  BY OfProvider DEF saveCert, At, Unforced, Set
<1>2. to \in CertPcs /\ to \in {"rebuild", "clear"} /\ (to = "rebuild" => p = Main)
  BY DEF CertPcs
<1> HIDE DEF to
<1>3. r \in CertRecords /\ d \in CertFiles
  <2>1. prov[p].new \in Nat
    BY OfProvider DEF CertRecords
  <2> QED
    BY <2>1, <1>2, OfProvider, RecordsWritten, FilesWritten
<1>4. /\ r.pc = to /\ r.new = 0 /\ r.tls = prov[p].new /\ r.last = prov[p].last
      /\ d.key = disk[p].key /\ d.crt = prov[p].new /\ d.failure = disk[p].failure
  BY OfProvider DEF CertRecords, CertFiles
<1> HIDE DEF r, d
<1>5. HasCert(p, r, d, Len(issued)) /\ r.tls # 0
  BY <1>1, <1>2, <1>4, OfProvider DEF HasCert
<1>6. Cooled(r, d, asked[p], acClock)
  BY <1>2, <1>4, OfProvider DEF Cooled
<1> QED
  BY <1>1, <1>3, <1>4, <1>5, <1>6, OfProvider, OwnQuietStep DEF CertKept

(* A rebuild empties the matcher and fills it: only the main one makes it. *)
LEMMA RebuildStep ==
  ASSUME AutocertInv, NEW p \in CertProviders, RebuildClear(p) \/ RebuildFill(p)
  PROVE  AutocertInv'
<1> DEFINE to == IF RebuildClear(p) THEN "fill" ELSE "clear"
           r == [prov[p] EXCEPT !.pc = to]
<1>1. /\ prov[p].pc \in {"rebuild", "fill"} /\ UNCHANGED <<issued, acClock, acPhase, forcer>>
      /\ prov' = [prov EXCEPT ![p] = r] /\ disk' = [disk EXCEPT ![p] = disk[p]]
      /\ asked' = [asked EXCEPT ![p] = asked[p]]
      /\ (to = "fill" /\ matcher' = {}) \/ matcher' = Loaded
  BY OfProvider DEF RebuildClear, RebuildFill, At, Unforced, Set
<1>2. to \in CertPcs /\ to \in {"fill", "clear"}
  BY DEF CertPcs
<1> HIDE DEF to
<1>3. r \in CertRecords
  BY <1>2, OfProvider, RecordsWritten
<1>4. /\ r.pc = to /\ r.new = prov[p].new /\ r.tls = prov[p].tls /\ r.last = prov[p].last
  BY OfProvider DEF CertRecords
<1> HIDE DEF r
<1>5. HasCert(p, r, disk[p], Len(issued)) /\ p = Main
  BY <1>1, <1>2, <1>4, OfProvider DEF HasCert
<1>6. Cooled(r, disk[p], asked[p], acClock)
  BY <1>2, <1>4, OfProvider DEF Cooled
<1>7. CertKept(p, r, disk[p], asked[p], Len(issued), acClock)
  BY <1>5, <1>6 DEF CertKept
<1>8. (matcher' = {} /\ p = Main /\ r.pc = "fill") \/ matcher' = Loaded
  BY <1>1, <1>4, <1>5
<1> QED
  BY <1>1, <1>3, <1>4, <1>7, <1>8, OfProvider, OwnQuietStep

(* The renewal date is a number of ticks.                                  *)
LEMMA RenewOnIsNumber ==
  ASSUME AutocertInv, NEW p \in CertProviders
  PROVE  ShouldRenewOn(p) \in Int
<1>1. RenewBefore \in Nat /\ acClock \in Nat
  BY OfProvider, AutocertAssumption
<1>2. CASE prov[p].tls = 0
  BY <1>1, <1>2 DEF ShouldRenewOn
<1>3. CASE prov[p].tls # 0
  <2>1. prov[p].tls \in 1..Len(issued)
    <3>1. prov[p].tls \in 0..Len(issued) /\ Len(issued) \in Nat
      BY OfProvider DEF HasCert
    <3> QED
      BY <3>1, <1>3
  <2>2. issued[prov[p].tls] \in Int
    BY <2>1, OfProvider, ElementOfSeq
  <2> QED
    BY <1>1, <1>3, <2>2 DEF ShouldRenewOn, Expiry
<1> QED
  BY <1>2, <1>3

LEMMA ClearLastFailureStep ==
  ASSUME AutocertInv, NEW p \in CertProviders, ClearLastFailure(p)
  PROVE  AutocertInv'
<1> DEFINE t == ShouldRenewOn(p)
           r == IF prov[p].mode = "init" THEN [prov[p] EXCEPT !.last = Never, !.pc = "ready"]
                ELSE [prov[p] EXCEPT !.last = Never, !.pc = "idle", !.timer = t, !.done = FALSE]
           d == [disk[p] EXCEPT !.failure = Never]
           a == [asked[p] EXCEPT !.failed = FALSE]
<1>1. /\ prov[p].pc = "clear" /\ UNCHANGED <<issued, acClock, acPhase, forcer, matcher>>
      /\ prov' = [prov EXCEPT ![p] = r] /\ disk' = [disk EXCEPT ![p] = d]
      /\ asked' = [asked EXCEPT ![p] = a]
  BY OfProvider DEF ClearLastFailure, At, Unforced, Set
<1>2. t \in Int
  BY RenewOnIsNumber
<1> HIDE DEF t
<1>3. r \in CertRecords /\ d \in CertFiles
  <2>1. "ready" \in CertPcs /\ "idle" \in CertPcs /\ Never \in Int
    BY DEF CertPcs, Never
  <2>2. d \in CertFiles
    BY <2>1, OfProvider, FilesWritten
  <2>3. CASE prov[p].mode = "init"
    BY <2>1, <2>2, <2>3, OfProvider, RecordsWritten
  <2>4. CASE prov[p].mode # "init"
    <3>1. r = [prov[p] EXCEPT !.last = Never, !.pc = "idle", !.timer = t, !.done = FALSE]
      BY <2>4
    <3> HIDE DEF r
    <3> QED
      BY <3>1, <2>1, <2>2, <1>2, OfProvider, RecordsWritten
  <2> QED
    BY <2>3, <2>4
<1>4. /\ r.pc \in {"ready", "idle"} /\ r.new = prov[p].new /\ r.tls = prov[p].tls
      /\ d.key = disk[p].key /\ d.crt = disk[p].crt
  BY OfProvider DEF CertRecords, CertFiles
<1>5. a \in Attempts /\ ~a.failed /\ a.early = asked[p].early
  BY OfProvider DEF Attempts
<1> HIDE DEF r, d, a
<1>6. HasCert(p, r, d, Len(issued))
  BY <1>1, <1>4, OfProvider DEF HasCert
<1>7. Cooled(r, d, a, acClock)
  BY <1>4, <1>5, OfProvider DEF Cooled
<1>8. CertKept(p, r, d, a, Len(issued), acClock) /\ (prov[p].tls # 0 => r.tls # 0)
  BY <1>4, <1>6, <1>7 DEF CertKept
<1> QED
  BY <1>1, <1>3, <1>5, <1>8, OwnQuietStep

(* A renewal whose timer fired asks only after its cool-down.              *)
LEMMA RenewIfNeededStep ==
  ASSUME AutocertInv, NEW p \in CertProviders, RenewIfNeeded(p)
  PROVE  AutocertInv'
<1> DEFINE s == [prov[p] EXCEPT !.timer = Never, !.mode = "needed"]
           r == IF Cooling(p, RenewalCooldown) \/ certState(p) = "valid" THEN Failed(p, s)
                ELSE [s EXCEPT !.pc = "obtain"]
<1>1. /\ prov[p].pc = "idle" /\ UNCHANGED <<issued, acClock, acPhase, forcer, matcher>>
      /\ prov' = [prov EXCEPT ![p] = r] /\ disk' = [disk EXCEPT ![p] = disk[p]]
      /\ asked' = [asked EXCEPT ![p] = asked[p]]
  BY OfProvider DEF RenewIfNeeded, At, Unforced, Set
<1>2. /\ s \in CertRecords /\ s.mode = "needed" /\ s.tls = prov[p].tls /\ s.new = prov[p].new
      /\ s.last = prov[p].last
  <2>1. s \in CertRecords
    BY OfProvider, RecordsWritten DEF CertPcs
  <2> QED
    BY <2>1, OfProvider DEF CertRecords
<1> HIDE DEF s
<1>3. /\ r \in CertRecords /\ (prov[p].tls # 0 => r.tls # 0)
      /\ CertKept(p, r, disk[p], asked[p], Len(issued), acClock)
  <2>1. CASE Cooling(p, RenewalCooldown) \/ certState(p) = "valid"
    <3>1. r = Failed(p, s)
      BY <2>1
    <3>2. CertKept(p, prov[p], disk[p], asked[p], Len(issued), acClock)
      BY OfProvider DEF CertKept
    <3>3. CertKept(p, Failed(p, s), disk[p], asked[p], Len(issued), acClock)
      BY <3>2, <1>1, <1>2, OfProvider, FailedIsKept
    <3> QED
      BY <3>1, <3>3, <1>2, FailedKeeps
  <2>2. CASE ~(Cooling(p, RenewalCooldown) \/ certState(p) = "valid")
    <3>1. asked[p].failed => acClock - asked[p].at >= RenewalCooldown
      BY <2>2, NotCooling, AutocertAssumption
    <3>2. r = [s EXCEPT !.pc = "obtain"]
      BY <2>2
    <3> HIDE DEF r
    <3>3. r \in CertRecords
      BY <3>2, <1>2, RecordsWritten DEF CertPcs
    <3>4. r.pc = "obtain" /\ r.tls = prov[p].tls /\ r.new = prov[p].new /\ r.last = prov[p].last /\ r.mode = "needed"
      BY <3>2, <1>2 DEF CertRecords
    <3>5. HasCert(p, r, disk[p], Len(issued))
      BY <3>4, <1>1, OfProvider DEF HasCert
    <3>6. Cooled(r, disk[p], asked[p], acClock)
      BY <3>1, <3>4, OfProvider DEF Cooled
    <3> QED
      BY <3>3, <3>4, <3>5, <3>6 DEF CertKept
  <2> QED
    BY <2>1, <2>2
<1> HIDE DEF r
<1> QED
  BY <1>1, <1>3, OfProvider, OwnQuietStep

LEMMA RenewForcedStep ==
  ASSUME AutocertInv, NEW p \in CertProviders, RenewForced(p)
  PROVE  AutocertInv'
<1> DEFINE r == [prov[p] EXCEPT !.force = 0, !.mode = "force", !.pc = "obtain"]
<1>1. /\ prov[p].pc = "idle" /\ UNCHANGED <<issued, acClock, acPhase, forcer, matcher>>
      /\ prov' = [prov EXCEPT ![p] = r] /\ disk' = [disk EXCEPT ![p] = disk[p]]
      /\ asked' = [asked EXCEPT ![p] = asked[p]]
  BY OfProvider DEF RenewForced, At, Unforced, Set
<1>2. r \in CertRecords
  BY OfProvider, RecordsWritten DEF CertPcs
<1>3. r.pc = "obtain" /\ r.tls = prov[p].tls /\ r.new = prov[p].new /\ r.last = prov[p].last /\ r.mode = "force"
  BY OfProvider DEF CertRecords
<1> HIDE DEF r
<1>4. HasCert(p, r, disk[p], Len(issued))
  BY <1>3, <1>1, OfProvider DEF HasCert
<1>5. Cooled(r, disk[p], asked[p], acClock)
  BY <1>3, OfProvider DEF Cooled
<1>6. CertKept(p, r, disk[p], asked[p], Len(issued), acClock) /\ (prov[p].tls # 0 => r.tls # 0)
  BY <1>3, <1>4, <1>5 DEF CertKept
<1> QED
  BY <1>1, <1>2, <1>6, OfProvider, OwnQuietStep

(* A step of the caller of the API alone.                                  *)
LEMMA CallerStep ==
  ASSUME AutocertInv, forcer' \in Calls, forcer'.pc # "none" => forcer'.at # 0,
         UNCHANGED <<acClock, acPhase, disk, prov, matcher, issued, asked>>
  PROVE  AutocertInv'
<1>1. AutocertTypes'
  BY DEF AutocertInv, AutocertTypes
<1>2. Serving'
  BY DEF AutocertInv, Serving
<1> QED
  BY <1>1, <1>2 DEF AutocertInv

(* ForceBegin, WaitLoad, WaitDone and CallerLeaves.                        *)
LEMMA CallerSteps ==
  ASSUME AutocertInv, ForceBegin \/ WaitLoad \/ WaitDone \/ CallerLeaves
  PROVE  AutocertInv'
<1>1. NoCall \in Calls /\ NoCall.pc = "none" /\ [pc |-> "force", at |-> 1, ok |-> FALSE] \in Calls
  BY MainIsOne DEF NoCall, Calls
<1>2. /\ forcer \in Calls /\ (forcer.pc # "none" => forcer.at # 0) /\ Len(Certs) \in Nat
  BY MainIsOne DEF AutocertInv, AutocertTypes
<1>3. CASE ForceBegin
  BY <1>1, <1>3, CallerStep DEF ForceBegin
<1>4. CASE WaitLoad
  <2>1. [forcer EXCEPT !.pc = "wait"] \in Calls /\ [forcer EXCEPT !.pc = "wait"].at = forcer.at
    BY <1>2 DEF Calls
  <2> QED
    BY <1>1, <1>2, <1>4, <2>1, CallerStep DEF WaitLoad
<1>5. CASE WaitDone
  <2>1. ASSUME forcer.at # Len(Certs)
        PROVE  /\ [forcer EXCEPT !.pc = "load", !.at = @ + 1] \in Calls
               /\ [forcer EXCEPT !.pc = "load", !.at = @ + 1].at # 0
    <3>1. forcer.at + 1 \in 0..Len(Certs) /\ forcer.at + 1 # 0
      BY <1>2, <2>1 DEF Calls
    <3> QED
      BY <1>2, <3>1 DEF Calls
  <2> QED
    BY <1>1, <1>5, <2>1, CallerStep DEF WaitDone
<1>6. CASE CallerLeaves
  BY <1>1, <1>6, CallerStep DEF CallerLeaves
<1> QED
  BY <1>3, <1>4, <1>5, <1>6

LEMMA ForceExpiryStep ==
  ASSUME AutocertInv, ForceExpiry
  PROVE  AutocertInv'
<1> DEFINE k == forcer.at
<1>1. /\ forcer \in Calls /\ k \in 1..Len(Certs) /\ Len(Certs) \in Nat /\ forcer.pc = "force"
  BY MainIsOne DEF AutocertInv, AutocertTypes, ForceExpiry, Calls
<1>2. PICK p \in CertProviders : p = Certs[forcer.at]
  BY <1>1, MainIsOne
<1> DEFINE r == IF prov[p].done THEN prov[p] ELSE [prov[p] EXCEPT !.done = TRUE, !.force = 1]
<1>3. /\ forcer' \in Calls /\ (forcer'.pc # "none" => forcer'.at # 0)
  <2>1. NoCall \in Calls /\ NoCall.pc = "none" /\ [pc |-> "load", at |-> 1, ok |-> TRUE] \in Calls
    BY <1>1 DEF NoCall, Calls
  <2>2. ASSUME NEW ok \in BOOLEAN, k # Len(Certs)
        PROVE  [forcer EXCEPT !.at = @ + 1, !.ok = ok] \in Calls /\ [forcer EXCEPT !.at = @ + 1, !.ok = ok].at # 0
    <3>1. k + 1 \in 0..Len(Certs) /\ k + 1 # 0
      BY <1>1, <2>2
    <3> QED
      BY <1>1, <3>1 DEF Calls
  <2>3. PICK ok \in BOOLEAN, end \in BOOLEAN :
           /\ ~end => k # Len(Certs)
           /\ forcer' = IF ~end THEN [forcer EXCEPT !.at = @ + 1, !.ok = ok]
                        ELSE IF ok THEN [pc |-> "load", at |-> 1, ok |-> TRUE] ELSE NoCall
    <3> DEFINE end == k = Len(Certs) \/ (k = 1 /\ prov[p].done)
               ok == forcer.ok \/ (~prov[p].done /\ prov[p].force = 0)
    <3>1. /\ ~end => k # Len(Certs)
          /\ forcer' = IF ~end THEN [forcer EXCEPT !.at = @ + 1, !.ok = ok]
                       ELSE IF ok THEN [pc |-> "load", at |-> 1, ok |-> TRUE] ELSE NoCall
      BY <1>2 DEF ForceExpiry
    <3>2. ok \in BOOLEAN /\ end \in BOOLEAN
      OBVIOUS
    <3> HIDE DEF ok, end
    <3> QED
      BY <3>1, <3>2
  <2>4. CASE ~end
    BY <2>2, <2>3, <2>4
  <2>5. CASE end
    BY <2>1, <2>3, <2>5
  <2> QED
    BY <2>4, <2>5
<1>4. /\ UNCHANGED <<acClock, acPhase, disk, matcher, issued, asked>>
      /\ prov' = [prov EXCEPT ![p] = r]
  <2>1. /\ UNCHANGED <<acClock, acPhase, disk, matcher, issued, asked>>
        /\ prov' = IF prov[p].done THEN prov ELSE [prov EXCEPT ![p].done = TRUE, ![p].force = 1]
    BY <1>2 DEF ForceExpiry
  <2> QED
    BY <2>1, <1>2, OfProvider
<1>5. r \in CertRecords
  BY <1>2, OfProvider, RecordsWritten DEF CertPcs
<1>6. /\ r.pc = prov[p].pc /\ r.tls = prov[p].tls /\ r.new = prov[p].new /\ r.last = prov[p].last
      /\ r.mode = prov[p].mode
  BY <1>2, OfProvider DEF CertRecords
<1> HIDE DEF r
<1>7. CertKept(p, r, disk[p], asked[p], Len(issued), acClock)
  <2>1. HasCert(p, r, disk[p], Len(issued))
    BY <1>2, <1>6, OfProvider DEF HasCert
  <2>2. Cooled(r, disk[p], asked[p], acClock)
    BY <1>2, <1>6, OfProvider DEF Cooled
  <2> QED
    BY <2>1, <2>2 DEF CertKept
<1>8. /\ disk' = [disk EXCEPT ![p] = disk[p]] /\ asked' = [asked EXCEPT ![p] = asked[p]]
      /\ disk[p] \in CertFiles /\ asked[p] \in Attempts
      /\ issued' = issued /\ issued' \in Seq(Int) /\ Len(issued') >= Len(issued)
      /\ (prov[p].tls # 0 => r.tls # 0) /\ acClock' = acClock /\ acPhase' = acPhase
      /\ matcher' = matcher /\ (prov[p].pc = "fill" => r.pc = "fill")
  BY <1>2, <1>4, <1>6, OfProvider
<1>9. CertKept(p, r, disk[p], asked[p], Len(issued'), acClock)
  BY <1>7, <1>8
<1> QED
  BY <1>2, <1>3, <1>4, <1>5, <1>8, <1>9, OwnStep, Zenon

LEMMA AutocertStart ==
  ASSUME AutocertInit
  PROVE  AutocertInv
<1>1. CertLife \in Nat /\ Main \in CertProviders
  BY AutocertAssumption, MainIsOne
<1>2. issued \in Seq(Int) /\ Len(issued) = 1
  BY <1>1 DEF AutocertInit
<1>3. Fresh \in CertRecords
  BY DEF Fresh, CertRecords, CertPcs, Never
<1>4. ASSUME NEW p \in CertProviders
      PROVE  /\ prov[p] = Fresh /\ disk[p] \in CertFiles /\ asked[p] \in Attempts
             /\ {disk[p].key, disk[p].crt} \subseteq {0, 1} /\ ~asked[p].failed /\ ~asked[p].early
  BY DEF AutocertInit, CertFiles, Attempts, Never
<1>5. AutocertTypes
  <2>1. /\ prov \in [CertProviders -> CertRecords] /\ disk \in [CertProviders -> CertFiles]
        /\ asked \in [CertProviders -> Attempts]
    BY <1>3, <1>4 DEF AutocertInit
  <2>2. forcer \in Calls /\ forcer.pc = "none"
    BY MainIsOne DEF AutocertInit, NoCall, Calls
  <2> QED
    BY <1>2, <2>1, <2>2 DEF AutocertInit, AutocertTypes
<1>6. ASSUME NEW p \in CertProviders
      PROVE  CertKept(p, prov[p], disk[p], asked[p], Len(issued), acClock)
  BY <1>2, <1>4 DEF CertKept, HasCert, Cooled, Fresh
<1> QED
  BY <1>5, <1>6 DEF AutocertInv, Serving, AutocertInit

(* The start is over: unless one failed all have a certificate.            *)
LEMMA ScheduledStep ==
  ASSUME AutocertInv, Scheduled
  PROVE  AutocertInv'
<1>1. /\ UNCHANGED <<disk, issued, asked, forcer, acClock>> /\ matcher' = Loaded
      /\ \A p \in CertProviders : prov[p].pc \in {"ready", "failed"}
      /\ Loaded \subseteq CertProviders
  BY DEF Scheduled, Unforced, Loaded
<1>2. CASE acPhase' = "failed" /\ UNCHANGED prov
  <2>1. AutocertTypes'
    BY <1>1, <1>2 DEF AutocertInv, AutocertTypes
  <2> QED
    BY <1>1, <1>2, <2>1 DEF AutocertInv, Serving
<1>3. CASE /\ ~\E p \in CertProviders : At(p, "failed")
           /\ acPhase' = "run"
           /\ prov' = [p \in CertProviders |-> [prov[p] EXCEPT !.pc = "idle", !.timer = ShouldRenewOn(p)]]
  <2>1. ASSUME NEW p \in CertProviders
        PROVE  /\ prov'[p] \in CertRecords /\ prov'[p].tls # 0
               /\ CertKept(p, prov'[p], disk[p], asked[p], Len(issued), acClock)
    <3>1. prov[p].pc = "ready" /\ prov[p].tls # 0
      BY <1>1, <1>3, OfProvider DEF At, HasCert
    <3>2. PICK t \in Int : t = ShouldRenewOn(p)
      BY RenewOnIsNumber
    <3>3. prov'[p] = [prov[p] EXCEPT !.pc = "idle", !.timer = t]
      BY <1>3, <3>2
    <3>4. PICK r : r = prov'[p]
      OBVIOUS
    <3>5. r \in CertRecords
      <4>1. [prov[p] EXCEPT !.pc = "idle", !.timer = t] \in CertRecords
        BY OfProvider, RecordsWritten DEF CertPcs
      <4> QED
        BY <4>1, <3>3, <3>4
    <3>6. r.pc = "idle" /\ r.tls = prov[p].tls /\ r.new = prov[p].new /\ r.last = prov[p].last
      BY <3>3, <3>4, OfProvider DEF CertRecords
    <3>7. HasCert(p, r, disk[p], Len(issued))
      BY <3>1, <3>6, OfProvider DEF HasCert
    <3>8. Cooled(r, disk[p], asked[p], acClock)
      BY <3>6, OfProvider DEF Cooled
    <3> QED
      BY <3>1, <3>4, <3>5, <3>6, <3>7, <3>8 DEF CertKept
  <2>2. prov' \in [CertProviders -> CertRecords]
    BY <1>3, <2>1
  <2>3. AutocertTypes'
    BY <1>1, <1>3, <2>2 DEF AutocertInv, AutocertTypes
  <2>4. Loaded = CertProviders
    BY <1>1, <1>3, OfProvider DEF Loaded, At, HasCert
  <2>5. Serving'
    BY <1>1, <2>1, <2>4 DEF Serving
  <2> QED
    BY <1>1, <2>1, <2>3, <2>5 DEF AutocertInv
<1> QED
  BY <1>2, <1>3 DEF Scheduled

(* The schedulers leave, or the process dies and starts again.             *)
LEMMA EndSteps ==
  ASSUME AutocertInv, Stop \/ CrashRestart
  PROVE  AutocertInv'
<1>1. CASE Stop
  <2>1. ASSUME NEW p \in CertProviders
        PROVE  /\ prov'[p] \in CertRecords
               /\ CertKept(p, prov'[p], disk[p], asked[p], Len(issued), acClock)
    <3>1. prov[p].pc = "idle" /\ prov'[p] = [prov[p] EXCEPT !.pc = "ended", !.timer = Never]
      BY <1>1 DEF Stop, At
    <3>2. PICK r : r = prov'[p]
      OBVIOUS
    <3>3. r \in CertRecords
      <4>1. [prov[p] EXCEPT !.pc = "ended", !.timer = Never] \in CertRecords
        BY OfProvider, RecordsWritten DEF CertPcs
      <4> QED
        BY <4>1, <3>1, <3>2
    <3>4. r.pc = "ended" /\ r.tls = prov[p].tls /\ r.new = prov[p].new /\ r.last = prov[p].last
      BY <3>1, <3>2, OfProvider DEF CertRecords
    <3>5. HasCert(p, r, disk[p], Len(issued))
      BY <3>1, <3>4, OfProvider DEF HasCert
    <3>6. Cooled(r, disk[p], asked[p], acClock)
      BY <3>4, OfProvider DEF Cooled
    <3> QED
      BY <3>2, <3>3, <3>5, <3>6 DEF CertKept
  <2>2. /\ UNCHANGED <<disk, matcher, issued, asked, forcer, acClock>> /\ acPhase' = "stopped"
        /\ prov' \in [CertProviders -> CertRecords]
    BY <1>1, <2>1 DEF Stop, Unforced
  <2>3. AutocertTypes'
    BY <2>2 DEF AutocertInv, AutocertTypes
  <2> QED
    BY <2>1, <2>2, <2>3 DEF AutocertInv, Serving
<1>2. CASE CrashRestart
  <2>1. Fresh \in CertRecords /\ Fresh.tls = 0 /\ Fresh.new = 0 /\ Fresh.pc = "load" /\ Fresh.mode = "init"
        /\ Fresh.last = Never
    BY DEF Fresh, CertRecords, CertPcs, Never
  <2>2. /\ UNCHANGED <<acClock, disk, issued, asked>> /\ acPhase' = "init" /\ matcher' = {}
        /\ forcer' = NoCall /\ prov' = [p \in CertProviders |-> Fresh]
    BY <1>2 DEF CrashRestart
  <2>3. ASSUME NEW p \in CertProviders
        PROVE  CertKept(p, Fresh, disk[p], asked[p], Len(issued), acClock)
    <3>1. HasCert(p, Fresh, disk[p], Len(issued))
      BY <2>1, OfProvider DEF HasCert
    <3>2. Cooled(Fresh, disk[p], asked[p], acClock)
      BY <2>1, OfProvider DEF Cooled
    <3> QED
      BY <3>1, <3>2 DEF CertKept
  <2>4. forcer' \in Calls /\ forcer'.pc = "none"
    BY <2>2, MainIsOne DEF NoCall, Calls
  <2>5. AutocertTypes'
    BY <2>1, <2>2, <2>4 DEF AutocertInv, AutocertTypes
  <2> QED
    BY <2>2, <2>3, <2>5 DEF AutocertInv, Serving
<1> QED
  BY <1>1, <1>2

(* Time only lengthens what was waited.                                    *)
LEMMA AcTickStep ==
  ASSUME AutocertInv, AcTick
  PROVE  AutocertInv'
<1>1. /\ acClock' = acClock + 1
      /\ UNCHANGED <<acPhase, disk, prov, matcher, forcer, issued, asked>>
  BY DEF AcTick
<1>2. AutocertTypes'
  BY <1>1 DEF AutocertInv, AutocertTypes
<1>3. ASSUME NEW p \in CertProviders
      PROVE  CertKept(p, prov[p], disk[p], asked[p], Len(issued), acClock + 1)
  <2>1. RequestCooldown \in Nat /\ RenewalCooldown \in Nat
    BY AutocertAssumption
  <2>2. Cooled(prov[p], disk[p], asked[p], acClock + 1)
    BY <2>1, OfProvider DEF Cooled
  <2> QED
    BY <2>2, OfProvider DEF CertKept
<1> QED
  BY <1>1, <1>2, <1>3 DEF AutocertInv, Serving

(* The inductive invariant of certificates holds in every behaviour.       *)
THEOREM AutocertInvariant == AutocertSpec => []AutocertInv
<1>1. AutocertInit => AutocertInv
  BY AutocertStart
<1>2. AutocertInv /\ [AutocertNext]_acVars => AutocertInv'
  <2> SUFFICES ASSUME AutocertInv, [AutocertNext]_acVars
               PROVE  AutocertInv'
    OBVIOUS
  <2>1. ASSUME NEW p \in CertProviders, CertStep(p)
        PROVE  AutocertInv'
    BY <2>1, LoadCertStep, ObtainCertStep, ObtainedStep, SaveKeyStep, SaveCertStep, RebuildStep,
       ClearLastFailureStep, RenewIfNeededStep, RenewForcedStep DEF CertStep
  <2>2. CASE Scheduled
    BY <2>2, ScheduledStep
  <2>3. CASE Stop \/ CrashRestart
    BY <2>3, EndSteps
  <2>4. CASE AcTick
    BY <2>4, AcTickStep
  <2>5. CASE ForceBegin \/ ForceStep \/ CallerLeaves
    BY <2>5, CallerSteps, ForceExpiryStep DEF ForceStep
  <2>6. CASE UNCHANGED acVars
    BY <2>6, CallerStep DEF acVars, AutocertInv, AutocertTypes
  <2> QED
    BY <2>1, <2>2, <2>3, <2>4, <2>5, <2>6 DEF AutocertNext
<1> QED
  BY <1>1, <1>2, PTL DEF AutocertSpec

(* A set of numbers has a least one.                                       *)
LEMMA LeastIndex ==
  ASSUME NEW T, T \subseteq Nat, T # {}
  PROVE  \E x \in T : \A y \in T : x <= y
<1> DEFINE R == {ss \in Nat \X Nat : ss[1] < ss[2]}
<1>1. IsWellFoundedOn(R, Nat)
  BY NatLessThanWellFounded, Zenon DEF OpToRel
<1>2. PICK x \in T : \A y \in T : <<y, x>> \notin R
  <2> HIDE DEF R
  <2> QED
    BY <1>1, WFMin
<1>3. \A y \in T : ~(y < x)
  BY <1>2
<1> QED
  BY <1>3

(* The first provider in the matcher that has a name, if there is one.     *)
LEMMA FirstOfFinds ==
  ASSUME NEW having, matcher = CertProviders
  PROVE  \/ FirstOf(having) = "" /\ CertProviders \intersect having = {}
         \/ FirstOf(having) \in CertProviders \intersect having /\ FirstOf(having) # ""
<1> DEFINE ks == {k \in DOMAIN Certs : Certs[k] \in matcher \intersect having}
<1>1. /\ DOMAIN Certs = 1..Len(Certs) /\ Len(Certs) \in Nat
      /\ \A k \in DOMAIN Certs : Certs[k] \in STRING \ {""}
  <2>1. Certs \in Seq(STRING \ {""})
    BY AutocertAssumption
  <2>2. DOMAIN Certs = 1..Len(Certs) /\ Len(Certs) \in Nat
    BY ONLY <2>1, LenProperties
  <2>3. \A k \in 1..Len(Certs) : Certs[k] \in STRING \ {""}
    BY ONLY <2>1, ElementOfSeq
  <2> QED
    BY ONLY <2>2, <2>3
<1>2. CASE ks = {}
  <2>1. FirstOf(having) = ""
    BY <1>2 DEF FirstOf
  <2>2. CertProviders \intersect having = {}
    BY <1>2 DEF CertProviders, ToSet
  <2> QED
    BY <2>1, <2>2
<1>3. CASE ks # {}
  <2> DEFINE first == CHOOSE k \in ks : \A j \in ks : k <= j
  <2>1. ks \subseteq DOMAIN Certs /\ ks \subseteq Nat
    <3>1. ks \subseteq DOMAIN Certs
      OBVIOUS
    <3>2. DOMAIN Certs \subseteq Nat
      <4>1. DOMAIN Certs = 1..Len(Certs) /\ Len(Certs) \in Nat
        BY <1>1
      <4> QED
        BY ONLY <4>1
    <3> HIDE DEF ks
    <3> QED
      BY <3>1, <3>2
  <2>2. first \in ks
    <3> HIDE DEF ks
    <3>1. \E k \in ks : \A j \in ks : k <= j
      BY <1>3, <2>1, LeastIndex
    <3> QED
      BY <3>1
  <2>3. FirstOf(having) = Certs[first]
    BY <1>3 DEF FirstOf
  <2> HIDE DEF first
  <2> QED
    BY <2>2, <2>3, <1>1
<1> QED
  BY <1>2, <1>3

(* A wildcard is a star before the labels it covers.                       *)
LEMMA WildIsStar ==
  ASSUME NEW S, NEW m \in Seq(S), m # << >>, Wild(m)
  PROVE  m = <<"*">> \o Tail(m)
<1>1. /\ Tail(m) \in Seq(S) /\ Len(Tail(m)) = Len(m) - 1
      /\ \A i \in 1..Len(Tail(m)) : Tail(m)[i] = m[i + 1]
  BY HeadTailProperties
<1>2. m[1] = "*" /\ Len(m) \in Nat \ {0}
  BY EmptySeq DEF Wild
<1>3. <<"*">> \in Seq(S) /\ Len(<<"*">>) = 1 /\ <<"*">>[1] = "*"
  <2>1. "*" \in S
    BY HeadTailProperties DEF Wild
  <2> QED
    BY <2>1
<1>4. PICK t \in Seq(S) : t = Tail(m)
  BY <1>1
<1>5. PICK star \in Seq(S) : star = <<"*">>
  BY <1>3
<1>6. /\ star \o t \in Seq(S) /\ Len(star \o t) = Len(m)
      /\ \A i \in 1..Len(m) : (star \o t)[i] = IF i <= 1 THEN star[i] ELSE t[i - 1]
  BY <1>1, <1>2, <1>3, <1>4, <1>5, ConcatProperties
<1>7. \A i \in 1..Len(m) : (star \o t)[i] = m[i]
  <2> SUFFICES ASSUME NEW i \in 1..Len(m)
               PROVE  (star \o t)[i] = m[i]
    OBVIOUS
  <2>1. CASE i = 1
    BY <2>1, <1>2, <1>3, <1>5, <1>6
  <2>2. CASE i # 1
    <3>1. i - 1 \in 1..Len(Tail(m)) /\ (i - 1) + 1 = i /\ ~(i <= 1)
      BY <2>2, <1>1, <1>2
    <3>2. t[i - 1] = m[i]
      BY <3>1, <1>1, <1>4
    <3> QED
      BY <3>1, <3>2, <1>6
  <2> QED
    BY <2>1, <2>2
<1>8. star \o t = m
  BY <1>6, <1>7, SeqEqual
<1> QED
  BY <1>8, <1>4, <1>5

LEMMA StarIsWild ==
  ASSUME NEW S, "*" \in S, NEW t \in Seq(S)
  PROVE  Wild(<<"*">> \o t) /\ Tail(<<"*">> \o t) = t
<1>1. <<"*">> \in Seq(S) /\ Len(<<"*">>) = 1 /\ <<"*">>[1] = "*"
  OBVIOUS
<1>2. PICK star \in Seq(S) : star = <<"*">>
  BY <1>1
<1>3. PICK m : m = star \o t
  OBVIOUS
<1>4. /\ m \in Seq(S) /\ Len(m) = 1 + Len(t) /\ Len(t) \in Nat
      /\ \A i \in 1..(1 + Len(t)) : m[i] = IF i <= 1 THEN star[i] ELSE t[i - 1]
  BY <1>1, <1>2, <1>3, ConcatProperties
<1>5. m # << >> /\ m[1] = "*"
  BY <1>1, <1>2, <1>4, EmptySeq
<1>6. /\ Tail(m) \in Seq(S) /\ Len(Tail(m)) = Len(t)
      /\ \A i \in 1..Len(t) : Tail(m)[i] = m[i + 1]
  BY <1>4, <1>5, HeadTailProperties
<1>7. \A i \in 1..Len(t) : Tail(m)[i] = t[i]
  <2> SUFFICES ASSUME NEW i \in 1..Len(t)
               PROVE  Tail(m)[i] = t[i]
    OBVIOUS
  <2>1. i + 1 \in 1..(1 + Len(t)) /\ ~(i + 1 <= 1) /\ (i + 1) - 1 = i
    BY <1>4
  <2> QED
    BY <2>1, <1>4, <1>6
<1>8. Tail(m) = t
  BY <1>6, <1>7, SeqEqual
<1>9. Wild(m)
  BY <1>5, <1>4 DEF Wild
<1> QED
  BY <1>2, <1>3, <1>8, <1>9

(* While renewals are scheduled and outside a rebuild, a client is given a *)
(* certificate that covers its name if some provider has one.              *)
LEMMA CoveringIsServed ==
  ASSUME AutocertInv
  PROVE  ServesCovering
<1> SUFFICES ASSUME acPhase = "run", prov[Main].pc # "fill",
                    NEW n \in Hellos, NEW q \in CertProviders, Covers(q, n)
             PROVE  Covers(GetCert(n), n)
  BY DEF ServesCovering, At
<1>1. /\ matcher = CertProviders /\ Main \in CertProviders
      /\ \A p \in CertProviders : prov[p].tls # 0
  BY MainIsOne DEF AutocertInv, Serving
<1>2. n \in Seq(STRING) /\ n # << >> /\ ~Wild(n)
  BY AutocertAssumption DEF Wild
<1>3. GetCert(n) = IF match(n) # "" /\ prov[match(n)].tls # 0 THEN match(n) ELSE Main
  BY <1>1 DEF GetCert
<1> DEFINE exact == {p \in CertProviders : n \in ExactOf(p)}
           wild == {p \in CertProviders : Tail(n) \in WildOf(p)}
<1>4. match(n) = IF FirstOf(exact) # "" THEN FirstOf(exact) ELSE matchSuffixTree(n)
  BY DEF match
<1>5. CASE FirstOf(exact) # ""
  <2>1. FirstOf(exact) \in CertProviders /\ n \in ExactOf(FirstOf(exact))
    <3>1. FirstOf(exact) \in CertProviders \intersect exact
      BY <1>1, <1>5, FirstOfFinds
    <3> QED
      BY <3>1
  <2>2. GetCert(n) = FirstOf(exact)
    BY <1>1, <1>3, <1>4, <1>5, <2>1
  <2> QED
    BY <2>1, <2>2 DEF Covers, ExactOf
<1>6. CASE FirstOf(exact) = ""
  <2>1. CertProviders \intersect exact = {}
    BY <1>1, <1>6, FirstOfFinds
  <2>2. n \notin ToSet(CertNames[q])
    BY <2>1, <1>2 DEF ExactOf
  <2>3. Len(n) > 1 /\ <<"*">> \o Tail(n) \in ToSet(CertNames[q])
    BY <2>2 DEF Covers
  <2>4. Tail(n) \in WildOf(q)
    <3>1. Tail(n) \in Seq(STRING \union {"*"})
      <4>1. Tail(n) \in Seq(STRING)
        BY <1>2, HeadTailProperties
      <4>2. STRING \subseteq STRING \union {"*"}
        OBVIOUS
      <4> QED
        BY <4>1, <4>2, SeqMonotonic
    <3>2. Wild(<<"*">> \o Tail(n)) /\ Tail(<<"*">> \o Tail(n)) = Tail(n)
      BY <3>1, StarIsWild
    <3> QED
      BY <2>3, <3>2 DEF WildOf
  <2>5. FirstOf(wild) \in CertProviders \intersect wild /\ FirstOf(wild) # ""
    BY <1>1, <2>4, FirstOfFinds
  <2>6. GetCert(n) = FirstOf(wild)
    <3>1. Len(n) # 1
      <4>1. PICK k \in Nat : k = Len(n)
        BY <1>2, LenProperties
      <4>2. k > 1
        BY <4>1, <2>3
      <4> QED
        BY <4>1, <4>2
    <3>2. matchSuffixTree(n) = FirstOf(wild)
      BY <3>1 DEF matchSuffixTree
    <3> QED
      BY <3>2, <1>1, <1>3, <1>4, <1>6, <2>5
  <2>7. PICK w \in CertProviders : w = FirstOf(wild) /\ Tail(n) \in WildOf(w)
    BY <2>5
  <2>8. PICK m \in ToSet(CertNames[w]) : Wild(m) /\ Tail(m) = Tail(n)
    BY <2>7 DEF WildOf
  <2>9. m \in Seq(STRING) /\ m # << >>
    <3>1. CertNames[w] \in Seq(Seq(STRING) \ {<< >>})
      BY AutocertAssumption
    <3>2. \A k \in DOMAIN CertNames[w] : CertNames[w][k] \in Seq(STRING) \ {<< >>}
      BY <3>1, ElementOfSeq, LenProperties
    <3> QED
      BY <2>8, <3>2 DEF ToSet
  <2>10. m = <<"*">> \o Tail(n)
    BY <2>8, <2>9, WildIsStar
  <2> QED
    BY <2>3, <2>6, <2>7, <2>8, <2>10 DEF Covers
<1> QED
  BY <1>5, <1>6

(* Certificates, for any providers, names and cool-downs: outside a        *)
(* rebuild a client is given a certificate that covers the name it asks    *)
(* for whenever some provider has one (GetCert); after a failed or an      *)
(* interrupted request nothing is requested again within the cool-down     *)
(* unless it is asked for, also across crashes (UpdateLastFailure); and    *)
(* what is served is what is stored, but while it is being written.        *)
THEOREM CertificatesAreSound == AutocertSpec => []AutocertSound
<1>1. AutocertInv => AutocertSound
  <2> SUFFICES ASSUME AutocertInv
               PROVE  AutocertSound
    OBVIOUS
  <2>1. CooldownHolds
    BY OfProvider DEF CooldownHolds, Cooled
  <2>2. ServedIsStored
    BY OfProvider DEF ServedIsStored, HasCert
  <2> QED
    BY <2>1, <2>2, CoveringIsServed DEF AutocertSound
<1> QED
  BY <1>1, AutocertInvariant, PTL

-----------------------------------------------------------------------------
(***************************************************************************)
(* ConfigReload.                                                           *)
(***************************************************************************)
(* The first generation, started by Load, satisfies the invariant.         *)
LEMMA InitIInv == Init => IInv
<1> SUFFICES ASSUME Init PROVE IInv
  OBVIOUS
<1>1. 1 \in Ids /\ Ids \subseteq Nat
  BY ConstantsAssumption DEF Ids
<1>2. disp \in [Ids -> {"none", "running", "finished", "gone"}]
  BY DEF Init
<1>3. notifiers \subseteq Ids /\ dispatcher \in Ids \cup {0} /\ notifiers \subseteq {1}
  BY <1>1 DEF Init
<1>4. TypeOK
  BY <1>1, <1>2, <1>3 DEF Init, TypeOK, PCs
<1>5. \A s \in Ids : s # active => s \notin alive /\ disp[s] # "running"
  BY <1>3 DEF Init
<1>6. OnlyOwned
  BY <1>1, <1>5 DEF Init, OnlyOwned
<1>7. Exclusive
  BY ConstantsAssumption DEF Init, Exclusive
<1> QED
  BY <1>4, <1>6, <1>7 DEF Init, IInv, OneGenerationRuns, Between, ActiveUp

(* Every step of a caller or of a goroutine that ends keeps it.            *)
LEMMA NextIInv == IInv /\ [Next]_vars => IInv'
<1> SUFFICES ASSUME IInv, [Next]_vars PROVE IInv'
  OBVIOUS
<1> USE DEF callVars, stateVars, runVars, globVars
<1>0. /\ TypeOK /\ Exclusive /\ OneGenerationRuns /\ Between /\ OnlyOwned
      /\ \A c \in Callers : pc[c] # "idle" => During(c)
  BY DEF IInv
<1>i. Ids \subseteq Nat /\ (last < MaxReloads + 1 => last + 1 \in Ids) /\ last \in Nat
  BY <1>0, ConstantsAssumption DEF Ids, TypeOK
<1>1. ASSUME NEW c \in Callers, ReloadBegin(c) PROVE IInv'
  <2>1. /\ pc[c] = "idle" /\ mu = None /\ last + 1 \in Ids /\ pc' = [pc EXCEPT ![c] = "parse"]
        /\ mu' = c /\ last' = last + 1 /\ mine' = [mine EXCEPT ![c] = last + 1]
        /\ working' = last + 1 /\ alive' = alive \cup {last + 1}
        /\ UNCHANGED <<active, runVars, globVars>>
    BY <1>1, <1>i DEF ReloadBegin, goto
  <2>2. \A d \in Callers : pc[d] = "idle"
    BY <1>0, <2>1, ConstantsAssumption DEF Exclusive
  <2>3. ActiveUp /\ active <= last /\ active \in Nat
    BY <1>0, <1>i, <2>1 DEF Between, Quiet, OnlyOwned, TypeOK
  <2>4. TypeOK'
    BY <1>0, <2>1 DEF TypeOK, PCs
  <2>5. Exclusive'
    BY <1>0, <2>1, <2>2 DEF Exclusive, TypeOK
  <2>6. OneGenerationRuns' /\ Between'
    BY <1>0, <2>1, ConstantsAssumption DEF OneGenerationRuns, Between, Quiet
  <2>7. OnlyOwned'
    <3>1. active' <= last'
      BY <1>i, <2>1, <2>3
    <3>2. \A s \in Ids : (s # active /\ s # last + 1) => s \notin alive' /\ disp'[s] # "running"
      BY <1>0, <2>1, <2>2 DEF OnlyOwned
    <3>3. pc'[c] # "idle" /\ mine'[c] = last + 1
      BY <1>0, <2>1 DEF TypeOK
    <3> QED
      BY <2>1, <3>1, <3>2, <3>3 DEF OnlyOwned
  <2>8. \A d \in Callers : pc'[d] # "idle" => During(d)'
    <3> SUFFICES ASSUME NEW d \in Callers, pc'[d] # "idle" PROVE During(d)'
      OBVIOUS
    <3>1. d = c /\ pc'[c] = "parse" /\ mine'[c] = last + 1
      BY <1>0, <2>1, <2>2 DEF TypeOK
    <3>2. last + 1 # active
      BY <1>i, <2>3
    <3> QED
      BY <2>1, <2>3, <3>1, <3>2 DEF During, ActiveUp
  <2> QED
    BY <2>4, <2>5, <2>6, <2>7, <2>8 DEF IInv
<1>2. ASSUME NEW c \in Callers, pc[c] # "idle" PROVE mu = c /\ During(c) /\ mine[c] \in Ids
  BY <1>0, <1>2 DEF Exclusive, During, TypeOK
(* A step of the caller that holds the lock, which keeps the lock.         *)
<1>3. ASSUME NEW c \in Callers, NEW l, pc[c] # "idle", l \in PCs \ {"idle"},
             goto(c, l), UNCHANGED <<mu, mine, last>>
      PROVE  /\ pc' \in [Callers -> PCs] /\ Exclusive' /\ Between'
             /\ \A d \in Callers : pc'[d] = "idle" <=> pc[d] = "idle"
             /\ \A d \in Callers : pc'[d] # "idle" => d = c
             /\ pc'[c] = l /\ mine'[c] = mine[c]
  <2>1. /\ pc' = [pc EXCEPT ![c] = l] /\ pc \in [Callers -> PCs] /\ mu = c /\ c # None
    BY <1>0, <1>2, <1>3, ConstantsAssumption DEF goto, TypeOK
  <2> QED
    BY <1>0, <1>3, <2>1 DEF Exclusive, Between, Quiet
(* A step of the caller that holds the lock, which releases it.            *)
<1>4. ASSUME NEW c \in Callers, pc[c] # "idle", goto(c, "idle"), mu' = None
      PROVE  /\ pc' \in [Callers -> PCs] /\ Exclusive'
             /\ \A d \in Callers : pc'[d] = "idle"
  <2>1. /\ pc' = [pc EXCEPT ![c] = "idle"] /\ pc \in [Callers -> PCs] /\ mu = c
        /\ None \notin Callers
    BY <1>0, <1>2, <1>4, ConstantsAssumption DEF goto, TypeOK
  <2>2. "idle" \in PCs
    BY DEF PCs
  <2> QED
    BY <1>0, <1>4, <2>1, <2>2 DEF Exclusive
<1>5. ASSUME NEW c \in Callers, InitParse(c) PROVE IInv'
  <2>1. PICK l \in {"notif", "fail"} : goto(c, l)
    BY <1>5 DEF InitParse
  <2>2. pc[c] = "parse" /\ UNCHANGED <<mu, mine, last, stateVars, runVars, globVars>>
    BY <1>5 DEF InitParse
  <2>3. l \in PCs \ {"idle"}
    BY DEF PCs
  <2> QED
    BY <1>0, <1>2, <1>3, <2>1, <2>2, <2>3
    DEF IInv, TypeOK, OneGenerationRuns, OnlyOwned, During, ActiveUp
<1>6. ASSUME NEW c \in Callers, InitNotification(c) PROVE IInv'
  <2>1. /\ pc[c] = "notif" /\ goto(c, "agents") /\ "agents" \in PCs \ {"idle"}
        /\ UNCHANGED <<mu, mine, last, stateVars, runVars, agents>>
    BY <1>6 DEF InitNotification, PCs
  <2>2. /\ notifiers' \subseteq Ids /\ dispatcher' \in Ids \cup {0}
        /\ disp' \in [Ids -> {"none", "running", "finished", "gone"}]
        /\ \A s \in Ids : s # mine[c] => disp'[s] = disp[s]
    BY <1>0, <1>2, <1>6 DEF InitNotification, TypeOK
  <2>3. TypeOK'
    BY <1>0, <1>3, <2>1, <2>2 DEF TypeOK
  <2> QED
    BY <1>0, <1>2, <1>3, <2>1, <2>2, <2>3
    DEF IInv, OneGenerationRuns, OnlyOwned, During, ActiveUp
<1>7. ASSUME NEW c \in Callers, InitRouteProviders(c) PROVE IInv'
  <2>1. PICK l \in {"finish", "fail"} : goto(c, l)
    BY <1>7 DEF InitRouteProviders
  <2>2. /\ pc[c] = "agents" /\ agents' \in Ids
        /\ UNCHANGED <<mu, mine, last, stateVars, runVars, notifiers, disp, dispatcher>>
    BY <1>2, <1>7 DEF InitRouteProviders
  <2>3. l \in PCs \ {"idle"}
    BY DEF PCs
  <2> QED
    BY <1>0, <1>2, <1>3, <2>1, <2>2, <2>3
    DEF IInv, TypeOK, OneGenerationRuns, OnlyOwned, During, ActiveUp
<1>8. ASSUME NEW c \in Callers, ReloadFail(c) PROVE IInv'
  <2>1. /\ pc[c] = "fail" /\ goto(c, "failing") /\ "failing" \in PCs \ {"idle"}
        /\ alive' = alive \ {mine[c]}
        /\ UNCHANGED <<mu, mine, last, active, working, runVars, globVars>>
    BY <1>8 DEF ReloadFail, PCs
  <2> QED
    BY <1>0, <1>2, <1>3, <2>1
    DEF IInv, TypeOK, OneGenerationRuns, OnlyOwned, During, ActiveUp
<1>9. ASSUME NEW c \in Callers, ReloadFailed(c) PROVE IInv'
  <2>1. /\ pc[c] = "failing" /\ goto(c, "idle") /\ mu' = None /\ working' = active
        /\ disp[mine[c]] # "running"
        /\ UNCHANGED <<mine, last, active, alive, runVars, globVars>>
    BY <1>9 DEF ReloadFailed, subtasksDone
  <2>2. ActiveUp /\ mine[c] \notin alive
    BY <1>2, <2>1 DEF During
  <2>3. TypeOK' /\ Between'
    BY <1>0, <1>4, <2>1, <2>2 DEF TypeOK, Between, ActiveUp
  <2>4. OnlyOwned'
    BY <1>0, <1>2, <1>4, <2>1, <2>2 DEF OnlyOwned, Exclusive
  <2> QED
    BY <1>0, <1>4, <2>1, <2>3, <2>4 DEF IInv, OneGenerationRuns
<1>10. ASSUME NEW c \in Callers, FinishOld(c) PROVE IInv'
  <2>1. /\ pc[c] = "finish" /\ goto(c, "finishing") /\ "finishing" \in PCs \ {"idle"}
        /\ alive' = alive \ {active}
        /\ UNCHANGED <<mu, mine, last, active, working, runVars, globVars>>
    BY <1>10 DEF FinishOld, PCs
  <2> QED
    BY <1>0, <1>2, <1>3, <2>1
    DEF IInv, TypeOK, OneGenerationRuns, OnlyOwned, During, ActiveUp
<1>11. ASSUME NEW c \in Callers, OldFinished(c) PROVE IInv'
  <2>1. /\ pc[c] = "finishing" /\ goto(c, "providers") /\ "providers" \in PCs \ {"idle"}
        /\ active' = mine[c] /\ active \notin started \cup servers /\ disp[active] # "running"
        /\ UNCHANGED <<mu, mine, last, working, alive, runVars, globVars>>
    BY <1>11 DEF OldFinished, subtasksDone, PCs
  <2>2. /\ active \notin alive /\ mine[c] \in alive /\ working = mine[c] /\ mine[c] = last
    BY <1>2, <2>1 DEF During
  <2>3. started \cup servers = {}
    BY <1>0, <2>1 DEF OneGenerationRuns
  <2>4. TypeOK' /\ OneGenerationRuns'
    BY <1>0, <1>2, <1>3, <2>1, <2>3 DEF TypeOK, OneGenerationRuns
  <2>5. OnlyOwned'
    <3>1. active' <= last'
      BY <1>i, <2>1, <2>2
    <3>2. \A s \in Ids : s # mine[c] => s \notin alive /\ disp[s] # "running"
      BY <1>0, <1>2, <2>1, <2>2 DEF OnlyOwned, Exclusive
    <3> QED
      BY <2>1, <3>1, <3>2 DEF OnlyOwned
  <2>6. \A d \in Callers : pc'[d] # "idle" => During(d)'
    BY <1>3, <2>1, <2>2 DEF During
  <2> QED
    BY <1>3, <2>1, <2>4, <2>5, <2>6 DEF IInv
<1>12. ASSUME NEW c \in Callers, StartProviders(c) PROVE IInv'
  <2>1. /\ pc[c] = "providers" /\ started' = started \cup {mine[c]}
        /\ UNCHANGED <<mine, last, stateVars, servers, globVars>>
    BY <1>12 DEF StartProviders
  <2>2. active = mine[c] /\ active \in alive /\ working = active
    BY <1>2, <2>1 DEF During
  <2>3. CASE goto(c, "servers") /\ UNCHANGED mu
    BY <1>0, <1>2, <1>3, <2>1, <2>2, <2>3
    DEF IInv, TypeOK, OneGenerationRuns, OnlyOwned, During, PCs
  <2>4. CASE goto(c, "idle") /\ mu' = None
    <3>1. OnlyOwned'
      BY <1>0, <1>2, <1>4, <2>1, <2>2, <2>4 DEF OnlyOwned, Exclusive
    <3>2. TypeOK' /\ OneGenerationRuns' /\ Between'
      BY <1>0, <1>2, <1>4, <2>1, <2>2, <2>4
      DEF TypeOK, OneGenerationRuns, Between, ActiveUp
    <3> QED
      BY <1>4, <2>1, <2>4, <3>1, <3>2 DEF IInv
  <2> QED
    BY <1>12, <2>3, <2>4 DEF StartProviders
<1>13. ASSUME NEW c \in Callers, StartProxyServers(c) PROVE IInv'
  <2>1. /\ pc[c] = "servers" /\ servers' = servers \cup {active}
        /\ goto(c, "idle") /\ mu' = None
        /\ UNCHANGED <<mine, last, stateVars, started, globVars>>
    BY <1>13 DEF StartProxyServers
  <2>2. active = mine[c] /\ ActiveUp /\ working = active
    BY <1>2, <2>1 DEF During, ActiveUp
  <2>3. OnlyOwned'
    BY <1>0, <1>2, <1>4, <2>1, <2>2 DEF OnlyOwned, Exclusive
  <2>4. TypeOK' /\ OneGenerationRuns' /\ Between'
    BY <1>0, <1>4, <2>1, <2>2 DEF TypeOK, OneGenerationRuns, Between, ActiveUp
  <2> QED
    BY <1>4, <2>1, <2>3, <2>4 DEF IInv
<1>14. ASSUME NEW s \in Ids, ProvidersStop(s) PROVE IInv'
  <2>1. /\ s = active /\ active \notin alive /\ started' = started \ {s}
        /\ UNCHANGED <<callVars, stateVars, servers, globVars>>
    BY <1>0, <1>14 DEF ProvidersStop, OneGenerationRuns
  <2> QED
    BY <1>0, <2>1
    DEF IInv, TypeOK, Exclusive, OneGenerationRuns, Between, Quiet, OnlyOwned, During, ActiveUp
<1>15. ASSUME NEW s \in Ids, ServersStop(s) PROVE IInv'
  BY <1>0, <1>15
  DEF ServersStop, IInv, TypeOK, Exclusive, OneGenerationRuns, Between, Quiet, OnlyOwned,
      During, ActiveUp
<1>16. ASSUME NEW s \in Ids, DispatcherFinish(s) PROVE IInv'
  <2>1. \A t \in Ids : disp'[t] = "running" => disp[t] = "running"
    BY <1>0, <1>16 DEF DispatcherFinish, TypeOK
  <2>2. TypeOK'
    BY <1>0, <1>16 DEF DispatcherFinish, TypeOK
  <2> QED
    BY <1>0, <1>16, <2>1, <2>2
    DEF DispatcherFinish, IInv, Exclusive, OneGenerationRuns, Between, Quiet, OnlyOwned,
        During, ActiveUp
<1>17. ASSUME NEW s \in Ids, DispatcherReset(s) PROVE IInv'
  <2>1. \A t \in Ids : disp'[t] = "running" => disp[t] = "running"
    BY <1>0, <1>17 DEF DispatcherReset, TypeOK
  <2>2. TypeOK'
    BY <1>0, <1>17 DEF DispatcherReset, TypeOK
  <2> QED
    BY <1>0, <1>17, <2>1, <2>2
    DEF DispatcherReset, IInv, Exclusive, OneGenerationRuns, Between, Quiet, OnlyOwned,
        During, ActiveUp
<1>18. CASE UNCHANGED vars
  BY <1>0, <1>18
  DEF vars, IInv, TypeOK, Exclusive, OneGenerationRuns, Between, Quiet, OnlyOwned,
      During, ActiveUp
<1> QED
  BY <1>1, <1>5, <1>6, <1>7, <1>8, <1>9, <1>10, <1>11, <1>12, <1>13, <1>14, <1>15, <1>16,
     <1>17, <1>18
  DEF Next, Call, Background

(* The inductive invariant.                                                *)
THEOREM ReloadInvariant == Spec => []IInv
<1> QED
  BY InitIInv, NextIInv, PTL DEF Spec

(* For any number of callers and reloads: never do the routes or servers   *)
(* of two generations run side by side.                                    *)
THEOREM NoOverlap == Spec => []OneGenerationRuns
<1>1. IInv => OneGenerationRuns
  BY DEF IInv
<1> QED
  BY <1>1, ReloadInvariant, PTL

(* After every reload, failed or not, the active state lives, its          *)
(* providers run and it is the working state.                              *)
THEOREM ActiveAfterReload == Spec => []ActiveStateRuns
<1>1. IInv => ActiveStateRuns
  BY DEF IInv, Between, ActiveUp, ActiveStateRuns
<1> QED
  BY <1>1, ReloadInvariant, PTL

(* A state that is not the active one leaves no goroutine behind.          *)
THEOREM NothingLeftBehind == Spec => []NoOrphans
<1>1. IInv => NoOrphans
  BY ConstantsAssumption DEF IInv, OnlyOwned, Exclusive, NoOrphans, Quiet
<1> QED
  BY <1>1, ReloadInvariant, PTL
(* The invariant that the runs check: for any number of callers and        *)
(* reloads, what Reload leaves behind at each of its steps is known, the   *)
(* active state runs after it, and nothing of another one does.            *)
THEOREM GenerationsCorrect == Spec => []GenerationsSound
<1> QED
  BY ReloadInvariant, ActiveAfterReload, NothingLeftBehind, PTL DEF GenerationsSound

(***************************************************************************)
(* LogRotate, for files of any lines and reads of any size.                *)
(***************************************************************************)
(* FlattenSeq by positions: p[i] is where the piece i ends.                *)
LEMMA FlattenLayout ==
  ASSUME NEW Y, NEW q \in Seq(Seq(Y))
  PROVE  \E p \in [0..Len(q) -> Nat] :
           /\ p[0] = 0 /\ p[Len(q)] = Len(FlattenSeq(q))
           /\ \A i \in 1..Len(q) : p[i] = p[i - 1] + Len(q[i])
           /\ \A i \in 1..Len(q) : \A x \in 1..Len(q[i]) : FlattenSeq(q)[p[i - 1] + x] = q[i][x]
<1> DEFINE n == Len(q)
<1>0. n \in Nat
  OBVIOUS
<1>1. PICK P \in [0..n -> Seq(Y)] : Flattens(P, q)
  BY PrefixesExist
<1>2. FlattenSeq(q) = P[n]
  BY <1>1, FlattenIs
<1>3. P[0] = <<>> /\ \A i \in 1..n : P[i] = P[i - 1] \o q[i]
  BY <1>1 DEF Flattens
<1> DEFINE p == [i \in 0..n |-> Len(P[i])]
<1>4. ASSUME NEW i \in 0..n PROVE P[i] \in Seq(Y) /\ Len(P[i]) \in Nat /\ p[i] = Len(P[i])
  <2>1. P[i] \in Seq(Y)
    OBVIOUS
  <2>2. p[i] = Len(P[i])
    OBVIOUS
  <2> QED
    BY <2>1, <2>2, LenProperties
<1>5. p \in [0..n -> Nat]
  BY <1>4
<1>6. p[0] = 0 /\ p[n] = Len(FlattenSeq(q))
  <2>1. 0 \in 0..n /\ n \in 0..n
    BY <1>0
  <2>2. Len(<<>>) = 0
    OBVIOUS
  <2> QED
    BY <1>2, <1>3, <1>4, <2>1, <2>2
<1> HIDE DEF p
<1>7. ASSUME NEW i \in 1..n
      PROVE  /\ i - 1 \in 0..n /\ i \in 0..n /\ q[i] \in Seq(Y) /\ Len(q[i]) \in Nat
             /\ p[i] = p[i - 1] + Len(q[i])
             /\ \A x \in 1..p[i] : P[i][x] = IF x <= p[i - 1] THEN P[i - 1][x] ELSE q[i][x - p[i - 1]]
  <2>1. i - 1 \in 0..n /\ i \in 0..n
    BY <1>0
  <2>2. q[i] \in Seq(Y)
    OBVIOUS
  <2> DEFINE a == P[i - 1]
             b == q[i]
  <2>3. a \in Seq(Y) /\ b \in Seq(Y) /\ P[i] = a \o b
    BY <1>3, <1>4, <2>1, <2>2
  <2>4. p[i] = Len(P[i]) /\ p[i - 1] = Len(a)
    BY <1>4, <2>1
  <2> HIDE DEF a, b
  <2>5. /\ Len(a \o b) = Len(a) + Len(b) /\ Len(b) \in Nat
        /\ \A x \in 1..(Len(a) + Len(b)) : (a \o b)[x] = IF x <= Len(a) THEN a[x] ELSE b[x - Len(a)]
    BY <2>3, ConcatProperties, LenProperties
  <2> QED
    BY <2>1, <2>2, <2>3, <2>4, <2>5 DEF a, b
<1> DEFINE T == {k \in 0..n : \A i \in 1..k : \A x \in 1..Len(q[i]) : p[i - 1] + x \in 1..p[k] /\ P[k][p[i - 1] + x] = q[i][x]}
<1>8. 0 \in T
  BY <1>0
<1>9. ASSUME NEW k \in 0..(n - 1), k \in T PROVE k + 1 \in T
  <2> DEFINE m == k + 1
  <2>1. m \in 1..n /\ m - 1 = k /\ m \in 0..n /\ k \in 0..n
    BY <1>0
  <2>2. /\ p[m] = p[k] + Len(q[m]) /\ Len(q[m]) \in Nat /\ p[k] \in Nat
        /\ \A x \in 1..p[m] : P[m][x] = IF x <= p[k] THEN P[k][x] ELSE q[m][x - p[k]]
    <3> HIDE DEF m
    <3> QED
      BY <1>5, <1>7, <2>1
  <2>3. ASSUME NEW i \in 1..m, NEW x \in 1..Len(q[i]) PROVE p[i - 1] + x \in 1..p[m] /\ P[m][p[i - 1] + x] = q[i][x]
    <3> HIDE DEF m
    <3>1. CASE i = m
      <4>1. i - 1 = k /\ p[k] + x \in 1..p[m] /\ ~(p[k] + x <= p[k]) /\ (p[k] + x) - p[k] = x
        BY <2>1, <2>2, <3>1, SMTT(60)
      <4> QED
        BY <2>2, <3>1, <4>1
    <3>2. CASE i # m
      <4>1. i \in 1..k
        BY <2>1, <3>2
      <4> DEFINE z == p[i - 1] + x
      <4>2. z \in 1..p[k] /\ P[k][z] = q[i][x]
        BY <1>9, <4>1
      <4> HIDE DEF z
      <4>3. z \in 1..p[m] /\ z <= p[k]
        BY <2>2, <4>2, SMTT(60)
      <4> QED
        BY <2>2, <4>2, <4>3 DEF z
    <3> QED
      BY <3>1, <3>2
  <2> QED
    BY <2>1, <2>3
<1> HIDE DEF T
<1>10. 0..n \subseteq T
  BY <1>0, <1>8, <1>9, BoundedInduction
<1>11. n \in T
  BY <1>0, <1>10
<1>12. \A i \in 1..n : \A x \in 1..Len(q[i]) : FlattenSeq(q)[p[i - 1] + x] = q[i][x]
  BY <1>2, <1>11 DEF T
<1> QED
  BY <1>5, <1>6, <1>7, <1>12

(***************************************************************************)
(* LogRotate, for files of any length.                                     *)
(***************************************************************************)
LrBytes == Nat \X BOOLEAN
LineEnd(lines, i) == lines[i].len + 1
Layout(p, lines, bytes) ==
  /\ p \in [0..Len(lines) -> Nat] /\ p[0] = 0 /\ p[Len(lines)] = Len(bytes)
  /\ \A i \in 1..Len(lines) : p[i] = p[i - 1] + LineEnd(lines, i)
  /\ \A i \in 1..Len(lines) : \A x \in 1..LineEnd(lines, i) : bytes[p[i - 1] + x] = LineBytes(lines, i)[x]

LEMMA LineType ==
  ASSUME NEW lines \in Seq(LogLines), NEW i \in 1..Len(lines)
  PROVE  /\ LineEnd(lines, i) \in Nat /\ LineEnd(lines, i) >= 2
         /\ LineBytes(lines, i) \in Seq(LrBytes) /\ Len(LineBytes(lines, i)) = LineEnd(lines, i)
         /\ \A x \in 1..LineEnd(lines, i) : LineBytes(lines, i)[x] = <<i, x = LineEnd(lines, i)>>
<1>1. lines[i] \in LogLines /\ i \in Nat
  OBVIOUS
<1>2. lines[i].len \in Nat \ {0}
  BY <1>1, LogRotateAssumption
<1> DEFINE n == LineEnd(lines, i)
           b == LineBytes(lines, i)
<1>3. n \in Nat /\ n >= 2
  BY <1>2 DEF LineEnd
<1>4. b = [k \in 1..n |-> <<i, k = n>>]
  BY DEF LineBytes, LineEnd
<1> HIDE DEF n, b
<1>5. \A k \in 1..n : <<i, k = n>> \in LrBytes
  BY <1>1 DEF LrBytes
<1>6. b \in [1..n -> LrBytes] /\ \A x \in 1..n : b[x] = <<i, x = n>>
  BY <1>4, <1>5
<1>7. b \in Seq(LrBytes) /\ Len(b) = n
  BY <1>3, <1>6
<1> QED
  BY <1>3, <1>6, <1>7 DEF n, b

LEMMA LayoutExists ==
  ASSUME NEW lines \in Seq(LogLines)
  PROVE  BytesOf(lines) \in Seq(LrBytes) /\ \E p : Layout(p, lines, BytesOf(lines))
<1> DEFINE n == Len(lines)
           q == [i \in 1..n |-> LineBytes(lines, i)]
<1>0. n \in Nat
  OBVIOUS
<1>1. q \in [1..n -> Seq(LrBytes)]
  BY LineType
<1>2. \A i \in 1..n : q[i] = LineBytes(lines, i)
  OBVIOUS
<1>3. BytesOf(lines) = FlattenSeq(q)
  BY DEF BytesOf
<1> HIDE DEF q
<1>4. q \in Seq(Seq(LrBytes)) /\ Len(q) = n
  BY <1>0, <1>1
<1>5. FlattenSeq(q) \in Seq(LrBytes)
  BY <1>4, FlattenType
<1>6. PICK p \in [0..Len(q) -> Nat] :
           /\ p[0] = 0 /\ p[Len(q)] = Len(FlattenSeq(q))
           /\ \A i \in 1..Len(q) : p[i] = p[i - 1] + Len(q[i])
           /\ \A i \in 1..Len(q) : \A x \in 1..Len(q[i]) : FlattenSeq(q)[p[i - 1] + x] = q[i][x]
  BY <1>4, FlattenLayout
<1>7. \A i \in 1..n : Len(q[i]) = LineEnd(lines, i)
  BY <1>2, LineType
<1>8. Layout(p, lines, FlattenSeq(q))
  <2>1. p \in [0..n -> Nat] /\ p[0] = 0 /\ p[n] = Len(FlattenSeq(q))
    BY <1>4, <1>6
  <2>2. \A i \in 1..n : p[i] = p[i - 1] + LineEnd(lines, i)
    BY <1>4, <1>6, <1>7
  <2>3. ASSUME NEW i \in 1..n, NEW x \in 1..LineEnd(lines, i) PROVE FlattenSeq(q)[p[i - 1] + x] = LineBytes(lines, i)[x]
    <3>1. i \in 1..Len(q) /\ x \in 1..Len(q[i])
      BY <1>4, <1>7
    <3> QED
      BY <1>2, <1>6, <3>1
  <2> QED
    BY <2>1, <2>2, <2>3 DEF Layout
<1> QED
  BY <1>3, <1>5, <1>8

LEMMA LayoutIs ==
  ASSUME NEW lines \in Seq(LogLines), NEW bytes, NEW p, Layout(p, lines, bytes)
  PROVE  /\ Len(lines) \in Nat
         /\ \A i \in 0..Len(lines) : p[i] \in Nat
         /\ p[0] = 0 /\ p[Len(lines)] = Len(bytes)
         /\ \A i \in 1..Len(lines) : LineEnd(lines, i) \in Nat /\ p[i] = p[i - 1] + LineEnd(lines, i) /\ p[i] >= p[i - 1] + 2
         /\ \A i \in 1..Len(lines) : \A x \in 1..LineEnd(lines, i) : bytes[p[i - 1] + x] = <<i, x = LineEnd(lines, i)>>
<1>1. Len(lines) \in Nat
  OBVIOUS
<1>2. \A i \in 1..Len(lines) : i - 1 \in 0..Len(lines) /\ i \in 0..Len(lines)
  OBVIOUS
<1>3. ASSUME NEW i \in 1..Len(lines) PROVE LineEnd(lines, i) \in Nat /\ p[i] = p[i - 1] + LineEnd(lines, i) /\ p[i] >= p[i - 1] + 2
  <2>1. LineEnd(lines, i) \in Nat /\ LineEnd(lines, i) >= 2
    BY LineType
  <2>2. p[i - 1] \in Nat /\ p[i] = p[i - 1] + LineEnd(lines, i)
    BY <1>2 DEF Layout
  <2> QED
    BY <2>1, <2>2
<1>4. ASSUME NEW i \in 1..Len(lines), NEW x \in 1..LineEnd(lines, i) PROVE bytes[p[i - 1] + x] = <<i, x = LineEnd(lines, i)>>
  <2>1. bytes[p[i - 1] + x] = LineBytes(lines, i)[x]
    BY DEF Layout
  <2>2. LineBytes(lines, i)[x] = <<i, x = LineEnd(lines, i)>>
    BY LineType
  <2> QED
    BY <2>1, <2>2
<1> QED
  BY <1>1, <1>3, <1>4 DEF Layout

(* Positions grow with the lines.                                          *)
LEMMA LayoutGrows ==
  ASSUME NEW lines \in Seq(LogLines), NEW bytes, NEW p, Layout(p, lines, bytes),
         NEW c \in 0..Len(lines), NEW d \in c..Len(lines)
  PROVE  p[c] + 2 * (d - c) <= p[d]
<1> DEFINE n == Len(lines)
           m == d - c
           T == {e \in 0..m : p[c] + 2 * e <= p[c + e]}
<1>0. n \in Nat /\ m \in Nat /\ c \in Nat /\ c + m = d
  OBVIOUS
<1>1. (\A i \in 0..n : p[i] \in Nat) /\ \A i \in 1..n : p[i] >= p[i - 1] + 2
  BY LayoutIs
<1>2. 0 \in T
  <2>1. c + 0 = c /\ p[c] \in Nat
    BY <1>0, <1>1
  <2> QED
    BY <1>0, <2>1
<1>3. ASSUME NEW e \in 0..(m - 1), e \in T PROVE e + 1 \in T
  <2>1. c + e \in 0..n /\ c + e + 1 \in 0..n /\ c + e + 1 \in 1..n /\ (c + e + 1) - 1 = c + e /\ c + (e + 1) = c + e + 1
    BY <1>0
  <2>2. p[c + e] \in Nat /\ p[c + e + 1] \in Nat /\ p[c + e + 1] >= p[c + e] + 2 /\ p[c] \in Nat
    BY <1>1, <2>1
  <2>3. p[c] + 2 * e <= p[c + e]
    BY <1>3
  <2>4. p[c] + 2 * (e + 1) <= p[c + (e + 1)]
    BY <2>1, <2>2, <2>3, SMTT(60)
  <2> QED
    BY <1>0, <2>4
<1> HIDE DEF T
<1>4. 0..m \subseteq T
  BY <1>0, <1>2, <1>3, BoundedInduction
<1>5. m \in T
  BY <1>0, <1>4
<1> QED
  BY <1>0, <1>5 DEF T

KeptPieces(lines, S) == [i \in 1..Len(lines) |-> IF i \in S THEN LineBytes(lines, i) ELSE <<>>]
Keeps(K, lines, S) ==
  K \in [0..Len(lines) -> Seq(LrBytes)] /\ Flattens(K, KeptPieces(lines, S))

LEMMA KeepsExist ==
  ASSUME NEW lines \in Seq(LogLines), NEW S
  PROVE  \E K : Keeps(K, lines, S) /\ FlattenSeq(KeptPieces(lines, S)) = K[Len(lines)]
<1> DEFINE n == Len(lines)
           q == KeptPieces(lines, S)
<1>0. n \in Nat
  OBVIOUS
<1>1. q = [i \in 1..n |-> IF i \in S THEN LineBytes(lines, i) ELSE <<>>]
  BY DEF KeptPieces
<1>2. ASSUME NEW i \in 1..n PROVE (IF i \in S THEN LineBytes(lines, i) ELSE <<>>) \in Seq(LrBytes)
  <2>1. LineBytes(lines, i) \in Seq(LrBytes)
    BY LineType
  <2>2. <<>> \in Seq(LrBytes)
    OBVIOUS
  <2> QED
    BY <2>1, <2>2
<1> HIDE DEF q
<1>3. q \in [1..n -> Seq(LrBytes)]
  BY <1>1, <1>2
<1>4. q \in Seq(Seq(LrBytes)) /\ Len(q) = n
  BY <1>0, <1>3
<1>5. PICK K \in [0..Len(q) -> Seq(LrBytes)] : Flattens(K, q)
  BY <1>4, PrefixesExist
<1>6. FlattenSeq(q) = K[Len(q)]
  BY <1>4, <1>5, FlattenIs
<1> QED
  BY <1>4, <1>5, <1>6 DEF Keeps, q

LEMMA KeepsStep ==
  ASSUME NEW lines \in Seq(LogLines), NEW S, NEW K, Keeps(K, lines, S)
  PROVE  /\ K[0] = <<>>
         /\ \A i \in 0..Len(lines) : K[i] \in Seq(LrBytes) /\ Len(K[i]) \in Nat
         /\ \A i \in 1..Len(lines) : K[i] = IF i \in S THEN K[i - 1] \o LineBytes(lines, i) ELSE K[i - 1]
<1> DEFINE n == Len(lines)
           q == KeptPieces(lines, S)
<1>0. n \in Nat
  OBVIOUS
<1>1. q = [i \in 1..n |-> IF i \in S THEN LineBytes(lines, i) ELSE <<>>]
  BY DEF KeptPieces
<1>2. \A i \in 1..n : q[i] = IF i \in S THEN LineBytes(lines, i) ELSE <<>>
  BY <1>1
<1>3. Len(q) = n
  <2>1. DOMAIN q = 1..n
    BY <1>1
  <2> HIDE DEF q, n
  <2>2. q \in Seq(Range(q))
    <3>1. q \in [1..n -> Range(q)]
      <4>1. q = [i \in 1..n |-> q[i]]
        BY <1>1, <2>1
      <4>2. \A i \in 1..n : q[i] \in Range(q)
        BY <2>1 DEF Range
      <4> QED
        BY <4>1, <4>2
    <3> QED
      BY <1>0, <3>1
  <2> QED
    BY <1>0, <2>1, <2>2
<1>4. K \in [0..n -> Seq(LrBytes)] /\ Flattens(K, q)
  BY DEF Keeps
<1> HIDE DEF q
<1>5. K[0] = <<>> /\ \A i \in 1..n : K[i] = K[i - 1] \o q[i]
  BY <1>3, <1>4 DEF Flattens
<1>6. ASSUME NEW i \in 0..n PROVE K[i] \in Seq(LrBytes) /\ Len(K[i]) \in Nat
  <2>1. K[i] \in Seq(LrBytes)
    BY <1>4
  <2> QED
    BY <2>1, LenProperties
<1>7. ASSUME NEW i \in 1..n PROVE K[i] = IF i \in S THEN K[i - 1] \o LineBytes(lines, i) ELSE K[i - 1]
  <2>1. CASE i \in S
    BY <1>2, <1>5, <2>1
  <2>2. CASE i \notin S
    <3>1. i - 1 \in 0..n
      BY <1>0
    <3>2. K[i - 1] \in Seq(LrBytes)
      BY <1>6, <3>1
    <3>3. K[i - 1] \o <<>> = K[i - 1]
      BY <3>2, ConcatEmptySeq
    <3> QED
      BY <1>2, <1>5, <2>2, <3>3
  <2> QED
    BY <2>1, <2>2
<1> QED
  BY <1>5, <1>6, <1>7

LEMMA KeptGap ==
  ASSUME NEW lines \in Seq(LogLines), NEW S, NEW K, Keeps(K, lines, S),
         NEW c \in 0..Len(lines), NEW d \in c..Len(lines), \A i \in (c + 1)..d : i \notin S
  PROVE  K[d] = K[c]
<1> DEFINE n == Len(lines)
           m == d - c
           T == {e \in 0..m : K[c + e] = K[c]}
<1>0. n \in Nat /\ m \in Nat /\ c \in Nat /\ c + m = d
  OBVIOUS
<1>1. \A i \in 1..n : i \notin S => K[i] = K[i - 1]
  BY KeepsStep
<1>2. 0 \in T
  <2>1. c + 0 = c
    BY <1>0
  <2> QED
    BY <1>0, <2>1
<1>3. ASSUME NEW e \in 0..(m - 1), e \in T PROVE e + 1 \in T
  <2>1. c + (e + 1) \in 1..n /\ c + (e + 1) \in (c + 1)..d /\ (c + (e + 1)) - 1 = c + e
    BY <1>0
  <2>2. K[c + (e + 1)] = K[c + e]
    BY <1>1, <2>1
  <2>3. K[c + e] = K[c]
    BY <1>3
  <2> QED
    BY <1>0, <2>2, <2>3
<1> HIDE DEF T
<1>4. 0..m \subseteq T
  BY <1>0, <1>2, <1>3, BoundedInduction
<1>5. m \in T
  BY <1>0, <1>4
<1> QED
  BY <1>0, <1>5 DEF T

(* A block of kept lines is in the kept text as it is in the file.         *)
InBlock(K, p, bytes, c, d) ==
  /\ Len(K[d]) = Len(K[c]) + (p[d] - p[c])
  /\ \A x \in 1..Len(K[c]) : K[d][x] = K[c][x]
  /\ \A x \in 1..(p[d] - p[c]) : K[d][Len(K[c]) + x] = bytes[p[c] + x]

LEMMA KeptBlock ==
  ASSUME NEW lines \in Seq(LogLines), NEW bytes, NEW p, Layout(p, lines, bytes),
         NEW S, NEW K, Keeps(K, lines, S),
         NEW c \in 0..Len(lines), NEW d \in c..Len(lines), \A i \in (c + 1)..d : i \in S
  PROVE  InBlock(K, p, bytes, c, d)
<1> DEFINE n == Len(lines)
           m == d - c
           T == {e \in 0..m : InBlock(K, p, bytes, c, c + e)}
<1>0. n \in Nat /\ m \in Nat /\ c \in Nat /\ c + m = d /\ c \in 0..n
  OBVIOUS
<1>1. /\ \A i \in 1..n : i \in S => K[i] = K[i - 1] \o LineBytes(lines, i)
      /\ \A i \in 0..n : K[i] \in Seq(LrBytes) /\ Len(K[i]) \in Nat
  BY KeepsStep
<1>a. /\ \A i \in 0..n : p[i] \in Nat
      /\ \A i \in 1..n : p[i] = p[i - 1] + LineEnd(lines, i)
  BY LayoutIs
<1>b. \A i \in 1..n : \A x \in 1..LineEnd(lines, i) : bytes[p[i - 1] + x] = LineBytes(lines, i)[x]
  BY DEF Layout
<1>2. 0 \in T
  <2>1. c + 0 = c /\ p[c] - p[c] = 0 /\ Len(K[c]) \in Nat
    BY <1>0, <1>1, <1>a
  <2>2. InBlock(K, p, bytes, c, c)
    BY <2>1 DEF InBlock
  <2> QED
    BY <1>0, <2>1, <2>2
<1>3. ASSUME NEW e \in 0..(m - 1), e \in T PROVE e + 1 \in T
  <2> DEFINE i == c + (e + 1)
             j == c + e
             a == K[j]
             b == LineBytes(lines, i)
             l == Len(K[c])
  <2>1. i \in 1..n /\ i \in (c + 1)..d /\ i - 1 = j /\ i \in 0..n /\ j \in 0..n
    BY <1>0
  <2> HIDE DEF i, j
  <2>2. /\ K[i] = a \o b /\ a \in Seq(LrBytes) /\ Len(a) \in Nat /\ l \in Nat
        /\ p[i] = p[j] + LineEnd(lines, i) /\ p[j] \in Nat /\ p[i] \in Nat /\ p[c] \in Nat
    BY <1>0, <1>1, <1>a, <2>1
  <2>3. b \in Seq(LrBytes) /\ Len(b) = LineEnd(lines, i) /\ LineEnd(lines, i) \in Nat
    BY <2>1, LineType
  <2>b. \A x \in 1..LineEnd(lines, i) : bytes[p[j] + x] = b[x]
    BY <1>b, <2>1
  <2>4. /\ Len(a) = l + (p[j] - p[c])
        /\ \A x \in 1..l : a[x] = K[c][x]
        /\ \A x \in 1..(p[j] - p[c]) : a[l + x] = bytes[p[c] + x]
    BY <1>3 DEF InBlock, j
  <2> HIDE DEF a, b, l
  <2>5. /\ Len(a \o b) = Len(a) + Len(b)
        /\ \A x \in 1..(Len(a) + Len(b)) : (a \o b)[x] = IF x <= Len(a) THEN a[x] ELSE b[x - Len(a)]
    BY <2>2, <2>3, ConcatProperties
  <2>c. p[j] >= p[c]
    <3>1. j \in c..n /\ j - c \in Nat
      BY <1>0 DEF j
    <3>2. p[c] + 2 * (j - c) <= p[j]
      BY <3>1, LayoutGrows
    <3> QED
      BY <2>2, <3>1, <3>2
  <2>6. Len(K[i]) = l + (p[i] - p[c])
    BY <2>2, <2>3, <2>4, <2>5, SMTT(60)
  <2>7. ASSUME NEW x \in 1..l PROVE K[i][x] = K[c][x]
    <3>1. x \in 1..(Len(a) + Len(b)) /\ x <= Len(a)
      BY <2>2, <2>3, <2>4, <2>c, SMTT(60)
    <3> QED
      BY <2>2, <2>4, <2>5, <3>1
  <2>d. /\ l \in Nat /\ p[c] \in Nat /\ p[j] \in Nat /\ p[i] \in Nat /\ Len(a) \in Nat /\ Len(b) \in Nat
        /\ p[j] >= p[c] /\ Len(a) = l + (p[j] - p[c]) /\ Len(b) = p[i] - p[j] /\ LineEnd(lines, i) = Len(b)
    BY <2>2, <2>3, <2>4, <2>c
  <2>8. ASSUME NEW x \in 1..(p[i] - p[c]) PROVE K[i][l + x] = bytes[p[c] + x]
    <3>1. l + x \in 1..(Len(a) + Len(b))
      BY <2>d, SMTT(60)
    <3>2. CASE x <= p[j] - p[c]
      <4>1. l + x <= Len(a) /\ x \in 1..(p[j] - p[c])
        BY <2>2, <2>4, <3>2, SMTT(60)
      <4> QED
        BY <2>2, <2>4, <2>5, <3>1, <4>1
    <3>3. CASE ~(x <= p[j] - p[c])
      <4> DEFINE y == x - (p[j] - p[c])
      <4>1. ~(l + x <= Len(a)) /\ (l + x) - Len(a) = y /\ y \in 1..LineEnd(lines, i) /\ p[j] + y = p[c] + x
        <5>1. x \in Int /\ x > p[j] - p[c] /\ x <= p[i] - p[c]
          BY <2>d, <3>3
        <5>2. ~(l + x <= Len(a)) /\ (l + x) - Len(a) = y
          BY <2>d, <5>1
        <5>3. y \in Int /\ 1 <= y /\ y <= Len(b) /\ p[j] + y = p[c] + x
          <6> DEFINE v == p[j]
                     o == p[c]
                     f == p[i]
                     r == Len(b)
          <6>1. /\ x \in Int /\ v \in Nat /\ o \in Nat /\ f \in Nat /\ x > v - o /\ x <= f - o
                /\ r = f - v /\ y = x - (v - o)
            BY <2>d, <5>1
          <6> HIDE DEF v, o, f, r, y
          <6>2. y \in Int /\ 1 <= y /\ y <= r /\ v + y = o + x
            BY ONLY <6>1
          <6> QED
            BY <6>2 DEF v, o, r
        <5> HIDE DEF y
        <5> QED
          BY <2>d, <5>2, <5>3
      <4> HIDE DEF y
      <4> QED
        BY <2>2, <2>5, <2>b, <3>1, <4>1
    <3> QED
      BY <3>2, <3>3
  <2>9. InBlock(K, p, bytes, c, i)
    BY <2>6, <2>7, <2>8 DEF InBlock, l
  <2> QED
    BY <1>0, <2>9 DEF i
<1> HIDE DEF T
<1>4. 0..m \subseteq T
  BY <1>0, <1>2, <1>3, BoundedInduction
<1>5. m \in T
  BY <1>0, <1>4
<1> QED
  BY <1>0, <1>5 DEF T

LEMMA WindowIs ==
  ASSUME NEW X, NEW s \in Seq(X), NEW o \in Nat, NEW e \in 0..Len(s), o <= e
  PROVE  /\ SubSeq(s, o + 1, e) \in Seq(X) /\ Len(SubSeq(s, o + 1, e)) = e - o
         /\ \A k \in 1..(e - o) : SubSeq(s, o + 1, e)[k] = s[o + k]
<1> DEFINE t == SubSeq(s, o + 1, e)
<1>0. o + 1 \in Nat \ {0} /\ Len(s) \in Nat
  OBVIOUS
<1>1. /\ t \in Seq(X) /\ Len(t) = (IF o + 1 <= e THEN e - (o + 1) + 1 ELSE 0)
      /\ \A k \in 1..(e - (o + 1) + 1) : t[k] = s[(o + 1) + k - 1]
  BY <1>0, SubSeqType
<1>2. Len(t) = e - o
  BY <1>0, <1>1
<1>3. e - (o + 1) + 1 = e - o /\ \A k \in Nat : (o + 1) + k - 1 = o + k
  BY <1>0
<1> QED
  BY <1>1, <1>2, <1>3

LEMMA SubSeqInner ==
  ASSUME NEW X, NEW s \in Seq(X), NEW o \in Nat, NEW e \in 0..Len(s), o <= e,
         NEW a \in Nat \ {0}, NEW b \in 0..(e - o)
  PROVE  SubSeq(SubSeq(s, o + 1, e), a, b) = SubSeq(s, o + a, o + b)
<1> DEFINE t == SubSeq(s, o + 1, e)
           u == SubSeq(t, a, b)
           v == SubSeq(s, o + a, o + b)
<1>0. o + 1 \in Nat \ {0} /\ o + a \in Nat \ {0} /\ o + b \in 0..Len(s) /\ Len(s) \in Nat
  OBVIOUS
<1>1. /\ t \in Seq(X) /\ Len(t) = e - o /\ \A k \in 1..(e - o) : t[k] = s[o + k]
  BY WindowIs
<1> HIDE DEF t
<1>2. /\ u \in Seq(X) /\ Len(u) = (IF a <= b THEN b - a + 1 ELSE 0)
      /\ \A k \in 1..(b - a + 1) : u[k] = t[a + k - 1]
  BY <1>1, SubSeqType
<1>3. /\ v \in Seq(X) /\ Len(v) = (IF o + a <= o + b THEN (o + b) - (o + a) + 1 ELSE 0)
      /\ \A k \in 1..((o + b) - (o + a) + 1) : v[k] = s[(o + a) + k - 1]
  BY <1>0, SubSeqType
<1> HIDE DEF u, v
<1>4. Len(u) = Len(v)
  BY <1>0, <1>2, <1>3, SMTT(60)
<1>5. ASSUME NEW k \in 1..Len(u) PROVE u[k] = v[k]
  <2>1. /\ k \in 1..(b - a + 1) /\ k \in 1..((o + b) - (o + a) + 1)
        /\ a + k - 1 \in 1..(e - o) /\ o + (a + k - 1) = (o + a) + k - 1
    <3>1. k \in Int /\ 1 <= k /\ k <= Len(u) /\ a \in Int /\ b \in Int /\ o \in Int /\ e \in Int /\ 1 <= a /\ b <= e - o
      BY <1>0, <1>2
    <3>2. Len(u) \in Int /\ Len(u) = (IF a <= b THEN b - a + 1 ELSE 0)
      BY <1>2
    <3>3. k <= b - a + 1
      BY ONLY <3>1, <3>2
    <3> QED
      BY ONLY <3>1, <3>3
  <2> QED
    BY <1>1, <1>2, <1>3, <2>1
<1> QED
  BY <1>2, <1>3, <1>4, <1>5, SeqEqual DEF t, u, v

(* The last newline of a chunk.                                            *)
IsNewline(c, k) == c[k][2] = TRUE

LEMMA LastNewlineIs ==
  ASSUME NEW c \in Seq(LrBytes)
  PROVE  /\ (\A k \in 1..Len(c) : ~IsNewline(c, k)) => LastNewline(c) = 0
         /\ \A i \in 1..Len(c) : IsNewline(c, i) /\ (\A k \in (i + 1)..Len(c) : ~IsNewline(c, k)) => LastNewline(c) = i
<1> DEFINE I == {i \in 1..Len(c) : c[i][2]}
<1>0. Len(c) \in Nat
  OBVIOUS
<1>1. LastNewline(c) = IF I # {} THEN Max(I) ELSE 0
  BY DEF LastNewline, SelectLastInSeq
<1>2. ASSUME NEW k \in 1..Len(c) PROVE k \in I <=> IsNewline(c, k)
  <2>1. c[k] \in LrBytes
    OBVIOUS
  <2>2. c[k][2] \in BOOLEAN
    BY <2>1 DEF LrBytes
  <2> QED
    BY <2>2, Zenon DEF IsNewline
<1>3. I \subseteq 1..Len(c)
  OBVIOUS
<1> HIDE DEF I
<1>4. (\A k \in 1..Len(c) : ~IsNewline(c, k)) => LastNewline(c) = 0
  BY <1>1, <1>2, <1>3
<1>5. ASSUME NEW i \in 1..Len(c), IsNewline(c, i), \A k \in (i + 1)..Len(c) : ~IsNewline(c, k) PROVE LastNewline(c) = i
  <2>1. i \in I
    BY <1>2, <1>5
  <2>2. ASSUME NEW y \in I PROVE i >= y
    <3>1. y \in 1..Len(c) /\ IsNewline(c, y)
      BY <1>2, <1>3
    <3>2. y \notin (i + 1)..Len(c)
      BY <1>5, <3>1
    <3> QED
      BY <1>0, <3>1, <3>2
  <2>3. \A x \in I : (\A y \in I : x >= y) => x = i
    <3> SUFFICES ASSUME NEW x \in I, \A y \in I : x >= y PROVE x = i
      OBVIOUS
    <3>1. x >= i /\ i >= x /\ x \in 1..Len(c)
      BY <1>3, <2>1, <2>2
    <3> QED
      BY <1>0, <3>1
  <2>4. Max(I) = i
    BY <2>1, <2>2, <2>3 DEF Max
  <2> QED
    BY <1>1, <2>1, <2>4
<1> QED
  BY <1>4, <1>5

(* The newlines of the file: the last byte of each line and no other.      *)
LEMMA NewlinesAre ==
  ASSUME NEW lines \in Seq(LogLines), NEW bytes, NEW p, Layout(p, lines, bytes), NEW j \in 1..Len(lines)
  PROVE  /\ IsNewline(bytes, p[j])
         /\ \A z \in (p[j - 1] + 1)..(p[j] - 1) : ~IsNewline(bytes, z)
         /\ bytes[p[j - 1] + 1][1] = j
<1> DEFINE l == LineEnd(lines, j)
<1>1. /\ p[j] \in Nat /\ p[j - 1] \in Nat /\ l \in Nat /\ p[j] = p[j - 1] + l /\ p[j] >= p[j - 1] + 2
      /\ \A x \in 1..l : bytes[p[j - 1] + x] = <<j, x = l>>
  <2>1. j \in 0..Len(lines) /\ j - 1 \in 0..Len(lines)
    OBVIOUS
  <2> QED
    BY <2>1, LayoutIs
<1> HIDE DEF l
<1>2. ASSUME NEW x \in 1..l
      PROVE  /\ bytes[p[j - 1] + x][1] = j
             /\ x = l => bytes[p[j - 1] + x][2] = TRUE
             /\ x # l => bytes[p[j - 1] + x][2] = FALSE
  <2> DEFINE f == bytes[p[j - 1] + x]
  <2>a. f = <<j, x = l>>
    BY <1>1, Zenon
  <2>b. x \in Nat /\ l \in Nat
    BY <1>1
  <2>1. f = <<j, x = l>> /\ x \in Nat /\ l \in Nat
    BY <2>a, <2>b, Zenon
  <2> HIDE DEF f
  <2>2. f[1] = j
    BY <2>1
  <2>3. x = l => f[2] = TRUE
    BY <2>1
  <2>4. x # l => f[2] = FALSE
    BY <2>1
  <2> QED
    BY <2>2, <2>3, <2>4, Zenon DEF f
<1>3. IsNewline(bytes, p[j])
  <2>1. l \in 1..l
    BY <1>1
  <2> QED
    BY <1>1, <1>2, <2>1 DEF IsNewline
<1>4. ASSUME NEW z \in (p[j - 1] + 1)..(p[j] - 1) PROVE ~IsNewline(bytes, z)
  <2> DEFINE x == z - p[j - 1]
  <2>1. x \in 1..l /\ x # l /\ p[j - 1] + x = z
    BY <1>1, SMTT(60)
  <2> HIDE DEF x
  <2>2. bytes[z][2] = FALSE
    BY <1>2, <2>1
  <2> QED
    BY <2>2, Zenon DEF IsNewline
<1>5. 1 \in 1..l
  BY <1>1
<1> QED
  BY <1>2, <1>3, <1>4, <1>5

(* The scanner between two lines: j lines are ahead of it.                 *)
ScanAt(p, lines, orig, offset, chunk, j, e) ==
  /\ j \in 0..Len(lines) /\ offset \in Nat /\ e \in 0..Len(orig) /\ offset <= e
  /\ chunk = SubSeq(orig, offset + 1, e)
  /\ \/ j = Len(lines) /\ j >= 1 /\ e = p[j]
     \/ j >= 1 /\ e = p[j] - 1
     \/ j = 0 /\ e = 0

LEMMA ScanNewline ==
  ASSUME NEW lines \in Seq(LogLines), NEW orig \in Seq(LrBytes), NEW p, Layout(p, lines, orig),
         NEW offset, NEW chunk, NEW j, NEW e, ScanAt(p, lines, orig, offset, chunk, j, e)
  PROVE  /\ chunk \in Seq(LrBytes) /\ Len(chunk) = e - offset
         /\ \/ j >= 1 /\ e = p[j] /\ offset < e /\ LastNewline(chunk) = e - offset
            \/ j >= 1 /\ e = p[j] /\ offset = e /\ LastNewline(chunk) = 0
            \/ j >= 2 /\ e = p[j] - 1 /\ offset < p[j - 1] /\ LastNewline(chunk) = p[j - 1] - offset
            \/ j >= 1 /\ e = p[j] - 1 /\ offset >= p[j - 1] /\ LastNewline(chunk) = 0
            \/ j = 0 /\ e = 0 /\ offset = 0 /\ LastNewline(chunk) = 0
<1>0. /\ j \in 0..Len(lines) /\ offset \in Nat /\ e \in 0..Len(orig) /\ offset <= e /\ Len(orig) \in Nat /\ Len(lines) \in Nat
      /\ chunk = SubSeq(orig, offset + 1, e)
  BY DEF ScanAt
<1>1. chunk \in Seq(LrBytes) /\ Len(chunk) = e - offset /\ \A k \in 1..(e - offset) : chunk[k] = orig[offset + k]
  BY <1>0, WindowIs
<1>2. \A k \in 1..(e - offset) : IsNewline(chunk, k) <=> IsNewline(orig, offset + k)
  BY <1>1 DEF IsNewline
<1>3. (\A k \in 1..(e - offset) : ~IsNewline(orig, offset + k)) => LastNewline(chunk) = 0
  BY <1>1, <1>2, LastNewlineIs
<1>4. ASSUME NEW i \in 1..(e - offset), IsNewline(orig, offset + i), \A k \in (i + 1)..(e - offset) : ~IsNewline(orig, offset + k)
      PROVE  LastNewline(chunk) = i
  <2>1. i \in 1..Len(chunk) /\ IsNewline(chunk, i)
    BY <1>1, <1>2, <1>4
  <2>2. \A k \in (i + 1)..Len(chunk) : k \in 1..(e - offset) /\ ~IsNewline(chunk, k)
    <3> SUFFICES ASSUME NEW k \in (i + 1)..Len(chunk) PROVE k \in 1..(e - offset) /\ ~IsNewline(chunk, k)
      OBVIOUS
    <3>1. k \in 1..(e - offset) /\ k \in (i + 1)..(e - offset)
      BY <1>0, <1>1
    <3> QED
      BY <1>2, <1>4, <3>1
  <2> QED
    BY <1>1, <2>1, <2>2, LastNewlineIs
<1>5. ASSUME j \in 1..Len(lines)
      PROVE  /\ p[j] \in Nat /\ p[j - 1] \in Nat /\ p[j] >= p[j - 1] + 2 /\ IsNewline(orig, p[j])
             /\ \A z \in (p[j - 1] + 1)..(p[j] - 1) : ~IsNewline(orig, z)
             /\ j = 1 => p[j - 1] = 0
             /\ j > 1 => IsNewline(orig, p[j - 1])
  <2>1. j \in 0..Len(lines) /\ j - 1 \in 0..Len(lines) /\ (j > 1 => j - 1 \in 1..Len(lines)) /\ (j = 1 => j - 1 = 0)
    BY <1>0, <1>5
  <2>2. p[j] \in Nat /\ p[j - 1] \in Nat /\ p[j] >= p[j - 1] + 2 /\ p[0] = 0
    BY <1>5, <2>1, LayoutIs
  <2>3. IsNewline(orig, p[j]) /\ \A z \in (p[j - 1] + 1)..(p[j] - 1) : ~IsNewline(orig, z)
    BY <1>5, NewlinesAre
  <2>4. j > 1 => IsNewline(orig, p[j - 1])
    BY <2>1, NewlinesAre
  <2> QED
    BY <2>1, <2>2, <2>3, <2>4
<1>6. CASE j >= 1 /\ e = p[j]
  <2>1. j \in 1..Len(lines)
    BY <1>0, <1>6
  <2>2. CASE offset < e
    <3> DEFINE i == e - offset
    <3>1. i \in 1..(e - offset) /\ offset + i = e /\ \A k \in (i + 1)..(e - offset) : FALSE
      BY <1>0, <2>2
    <3>2. LastNewline(chunk) = i
      <4> HIDE DEF i
      <4> QED
        BY <1>4, <1>5, <1>6, <2>1, <3>1
    <3> QED
      BY <1>1, <1>6, <2>2, <3>2
  <2>3. CASE offset = e
    <3>1. \A k \in 1..(e - offset) : FALSE
      BY <1>0, <2>3
    <3> QED
      BY <1>1, <1>3, <1>6, <2>3, <3>1
  <2> QED
    BY <1>0, <2>2, <2>3
<1>7. CASE j >= 1 /\ e = p[j] - 1
  <2>1. j \in 1..Len(lines)
    BY <1>0, <1>7
  <2>a. p[j] \in Nat /\ p[j - 1] \in Nat /\ p[j] >= p[j - 1] + 2 /\ (j = 1 => p[j - 1] = 0)
        /\ (j > 1 => IsNewline(orig, p[j - 1])) /\ \A z \in (p[j - 1] + 1)..(p[j] - 1) : ~IsNewline(orig, z)
    BY <1>5, <2>1
  <2> DEFINE u == p[j - 1]
             w == p[j]
  <2>b. u \in Nat /\ w \in Nat /\ w >= u + 2 /\ e = w - 1 /\ offset \in Nat /\ e \in Int
    BY <1>0, <1>7, <2>a
  <2>2. CASE offset < p[j - 1]
    <3> DEFINE i == p[j - 1] - offset
    <3>0. j > 1
      BY <1>0, <2>1, <2>2, <2>a
    <3>1. i \in 1..(e - offset) /\ offset + i = p[j - 1]
      <4> HIDE DEF u, w
      <4> QED
        BY <2>2, <2>b DEF u
    <3>2. \A k \in (i + 1)..(e - offset) : offset + k \in (u + 1)..(w - 1)
      <4>1. i = u - offset /\ offset < u
        BY <2>2
      <4> HIDE DEF u, w, i
      <4> QED
        BY <2>b, <4>1
    <3> HIDE DEF i
    <3>3. \A k \in (i + 1)..(e - offset) : ~IsNewline(orig, offset + k)
      BY <2>a, <3>2
    <3>4. LastNewline(chunk) = i
      BY <1>4, <2>a, <3>0, <3>1, <3>3
    <3>5. j >= 2
      BY <1>0, <3>0
    <3> QED
      BY <1>1, <1>7, <2>2, <3>4, <3>5 DEF i
  <2>3. CASE ~(offset < p[j - 1])
    <3>1. \A k \in 1..(e - offset) : offset + k \in (u + 1)..(w - 1)
      <4>1. ~(offset < u)
        BY <2>3
      <4> HIDE DEF u, w
      <4> QED
        BY <2>b, <4>1
    <3>2. LastNewline(chunk) = 0
      BY <1>3, <2>a, <3>1
    <3>3. offset >= p[j - 1]
      BY <1>0, <2>3, <2>a
    <3> QED
      BY <1>1, <1>7, <3>2, <3>3
  <2> QED
    BY <2>2, <2>3
<1>8. CASE j = 0 /\ e = 0
  <2>1. offset = 0 /\ \A k \in 1..(e - offset) : FALSE
    BY <1>0, <1>8
  <2> QED
    BY <1>1, <1>3, <1>8, <2>1
<1> QED
  BY <1>6, <1>7, <1>8 DEF ScanAt

(* The line that is taken, in the file.                                    *)
TakenText(orig, p, j) == SubSeq(orig, p[j - 1] + 1, p[j] - 1)

LEMMA TakenLine ==
  ASSUME NEW lines \in Seq(LogLines), NEW orig \in Seq(LrBytes), NEW p, Layout(p, lines, orig), NEW j \in 1..Len(lines)
  PROVE  /\ TakenText(orig, p, j) # <<>> /\ Len(TakenText(orig, p, j)) + 1 = p[j] - p[j - 1]
         /\ TakenText(orig, p, j)[1][1] = j
<1> DEFINE u == p[j - 1]
           w == p[j]
           line == SubSeq(orig, u + 1, w - 1)
<1>0. j \in 0..Len(lines) /\ j - 1 \in 0..Len(lines) /\ Len(lines) \in Nat /\ Len(orig) \in Nat
  OBVIOUS
<1>1. u \in Nat /\ w \in Nat /\ w >= u + 2
  BY <1>0, LayoutIs
<1>2. w <= Len(orig)
  <2>1. Len(lines) \in j..Len(lines) /\ Len(lines) - j \in Nat
    BY <1>0
  <2>2. p[j] + 2 * (Len(lines) - j) <= p[Len(lines)] /\ p[Len(lines)] = Len(orig)
    BY <1>0, <2>1, LayoutGrows, LayoutIs
  <2> QED
    BY <1>0, <1>1, <2>1, <2>2
<1>3. orig[u + 1][1] = j
  BY NewlinesAre
<1> HIDE DEF u, w
<1>4. w - 1 \in 0..Len(orig) /\ u <= w - 1 /\ 1 \in 1..((w - 1) - u)
  BY <1>0, <1>1, <1>2
<1>5. line \in Seq(LrBytes) /\ Len(line) = (w - 1) - u /\ \A k \in 1..((w - 1) - u) : line[k] = orig[u + k]
  BY <1>1, <1>4, WindowIs
<1>6. line[1] = orig[u + 1]
  BY <1>4, <1>5
<1>7. line # <<>>
  <2>1. Len(<<>>) = 0
    OBVIOUS
  <2>2. Len(line) # 0
    BY <1>1, <1>4, <1>5, SMTT(60)
  <2> QED
    BY <2>1, <2>2
<1>8. Len(line) + 1 = w - u
  BY <1>1, <1>5
<1>9. line = TakenText(orig, p, j)
  BY DEF u, w, TakenText
<1> HIDE DEF line
<1> QED
  BY <1>3, <1>6, <1>7, <1>8, <1>9 DEF u, w

(* What a newline in the chunk ends: the file, or a line.                  *)
LEMMA ScanSplits ==
  ASSUME NEW lines \in Seq(LogLines), NEW orig \in Seq(LrBytes), NEW p, Layout(p, lines, orig),
         NEW offset, NEW chunk, NEW j, NEW e, ScanAt(p, lines, orig, offset, chunk, j, e),
         LastNewline(chunk) > 0
  PROVE  LET i    == LastNewline(chunk)
             line == SubSeq(chunk, i + 1, Len(chunk))
             rest == SubSeq(chunk, 1, i - 1)
         IN  \/ /\ line = <<>>
                /\ ScanAt(p, lines, orig, offset, rest, j, p[j] - 1)
             \/ /\ line # <<>> /\ j \in 1..Len(lines) /\ line = SubSeq(orig, p[j - 1] + 1, p[j] - 1)
                /\ ScanAt(p, lines, orig, offset, rest, j - 1, p[j - 1] - 1)
<1> DEFINE i    == LastNewline(chunk)
           line == SubSeq(chunk, i + 1, Len(chunk))
           rest == SubSeq(chunk, 1, i - 1)
<1>0. /\ j \in 0..Len(lines) /\ offset \in Nat /\ e \in 0..Len(orig) /\ offset <= e /\ Len(orig) \in Nat /\ Len(lines) \in Nat
      /\ chunk = SubSeq(orig, offset + 1, e)
  BY DEF ScanAt
<1>1. chunk \in Seq(LrBytes) /\ Len(chunk) = e - offset
  BY ScanNewline
<1>2. \/ j >= 1 /\ e = p[j] /\ offset < e /\ i = e - offset
      \/ j >= 2 /\ e = p[j] - 1 /\ offset < p[j - 1] /\ i = p[j - 1] - offset
  BY ScanNewline
<1>3. ASSUME i \in 1..(e - offset) PROVE rest = SubSeq(orig, offset + 1, offset + (i - 1))
  <2>1. i - 1 \in 0..(e - offset) /\ 1 \in Nat \ {0}
    BY <1>0, <1>3
  <2> DEFINE h == i - 1
  <2>2. /\ orig \in Seq(LrBytes) /\ offset \in Nat /\ e \in 0..Len(orig) /\ offset <= e
        /\ 1 \in Nat \ {0} /\ h \in 0..(e - offset)
    BY <1>0, <2>1
  <2> HIDE DEF h
  <2>3. SubSeq(SubSeq(orig, offset + 1, e), 1, h) = SubSeq(orig, offset + 1, offset + h)
    BY ONLY <2>2, SubSeqInner
  <2> QED
    BY <1>0, <2>3 DEF h
<1>4. CASE j >= 1 /\ e = p[j] /\ offset < e /\ i = e - offset
  <2>1. i \in 1..(e - offset) /\ offset + (i - 1) = e - 1 /\ e - 1 \in 0..Len(orig) /\ offset <= e - 1
    <3> HIDE DEF i
    <3> QED
      BY <1>0, <1>4, SMTT(60)
  <2>2. line = <<>>
    <3>1. i + 1 \in Int /\ Len(chunk) \in Int /\ Len(chunk) < i + 1
      <4> HIDE DEF i
      <4> QED
        BY <1>0, <1>1, <1>4
    <3> QED
      BY <3>1, SubSeqEmpty
  <2>3. rest = SubSeq(orig, offset + 1, e - 1)
    BY <1>3, <2>1
  <2>4. ScanAt(p, lines, orig, offset, rest, j, e - 1)
    <3> HIDE DEF rest
    <3> QED
      BY <1>0, <1>4, <2>1, <2>3 DEF ScanAt
  <2> QED
    BY <1>4, <2>2, <2>4
<1>5. CASE j >= 2 /\ e = p[j] - 1 /\ offset < p[j - 1] /\ i = p[j - 1] - offset
  <2> DEFINE u == p[j - 1]
             w == p[j]
  <2>0. j \in 1..Len(lines) /\ j - 1 \in 1..Len(lines) /\ j - 1 \in 0..Len(lines) /\ j - 1 >= 1
    BY <1>0, <1>5
  <2>1. u \in Nat /\ w \in Nat /\ w >= u + 2
    BY <1>0, <2>0, LayoutIs
  <2>a. e = w - 1 /\ offset < u /\ i = u - offset
    BY <1>5
  <2>2. line = SubSeq(orig, u + 1, w - 1)
    <3>1. i + 1 \in Nat \ {0} /\ e - offset \in 0..(e - offset) /\ offset + (i + 1) = u + 1 /\ offset + (e - offset) = w - 1
      <4> HIDE DEF i, u, w
      <4> QED
        BY <1>0, <2>1, <2>a
    <3> HIDE DEF i, u, w
    <3>2. SubSeq(SubSeq(orig, offset + 1, e), i + 1, e - offset) = SubSeq(orig, offset + (i + 1), offset + (e - offset))
      <4> DEFINE a == i + 1
                 b == e - offset
      <4>1. a \in Nat \ {0} /\ b \in 0..(e - offset)
        BY <3>1
      <4> HIDE DEF a, b
      <4>2. SubSeq(SubSeq(orig, offset + 1, e), a, b) = SubSeq(orig, offset + a, offset + b)
        BY <1>0, <4>1, SubSeqInner
      <4> QED
        BY <4>2 DEF a, b
    <3> QED
      BY <1>0, <1>1, <3>1, <3>2
  <2>3. line # <<>>
    <3>1. SubSeq(orig, u + 1, w - 1) # <<>>
      BY <2>0, TakenLine DEF TakenText
    <3> HIDE DEF line
    <3> QED
      BY <2>2, <3>1
  <2>4. i \in 1..(e - offset) /\ offset + (i - 1) = u - 1 /\ u - 1 \in 0..Len(orig) /\ offset <= u - 1
    <3> HIDE DEF i, u, w
    <3> QED
      BY <1>0, <2>1, <2>a
  <2>5. rest = SubSeq(orig, offset + 1, u - 1)
    BY <1>3, <2>4
  <2>6. ScanAt(p, lines, orig, offset, rest, j - 1, u - 1)
    <3> HIDE DEF rest
    <3> QED
      BY <1>0, <2>0, <2>4, <2>5 DEF ScanAt
  <2> QED
    BY <2>0, <2>2, <2>3, <2>6
<1> QED
  BY <1>2, <1>4, <1>5

(* At the front of the file: the first line, or nothing.                   *)
LEMMA ScanAtFront ==
  ASSUME NEW lines \in Seq(LogLines), NEW orig \in Seq(LrBytes), NEW p, Layout(p, lines, orig),
         NEW chunk, NEW j, NEW e, ScanAt(p, lines, orig, 0, chunk, j, e), LastNewline(chunk) = 0
  PROVE  \/ chunk = <<>> /\ j = 0
         \/ /\ chunk # <<>> /\ j = 1 /\ j \in 1..Len(lines) /\ chunk = SubSeq(orig, p[j - 1] + 1, p[j] - 1)
            /\ ScanAt(p, lines, orig, 0, <<>>, j - 1, 0)
<1>0. /\ j \in 0..Len(lines) /\ e \in 0..Len(orig) /\ Len(orig) \in Nat /\ Len(lines) \in Nat
      /\ chunk = SubSeq(orig, 0 + 1, e)
  BY DEF ScanAt
<1> DEFINE o == 0
<1>a. ScanAt(p, lines, orig, o, chunk, j, e) /\ o = 0
  OBVIOUS
<1> HIDE DEF o
<1>1. \/ j >= 1 /\ e = p[j] /\ o < e /\ LastNewline(chunk) = e - o
      \/ j >= 1 /\ e = p[j] /\ o = e /\ LastNewline(chunk) = 0
      \/ j >= 2 /\ e = p[j] - 1 /\ o < p[j - 1] /\ LastNewline(chunk) = p[j - 1] - o
      \/ j >= 1 /\ e = p[j] - 1 /\ o >= p[j - 1] /\ LastNewline(chunk) = 0
      \/ j = 0 /\ e = 0 /\ o = 0 /\ LastNewline(chunk) = 0
  <2>1. lines \in Seq(LogLines) /\ orig \in Seq(LrBytes) /\ Layout(p, lines, orig) /\ ScanAt(p, lines, orig, o, chunk, j, e)
    BY <1>a
  <2> QED
    BY ONLY <2>1, ScanNewline
<1>2. ASSUME j >= 1 PROVE j \in 1..Len(lines) /\ p[j] \in Nat /\ p[j - 1] \in Nat /\ p[j] >= p[j - 1] + 2 /\ (p[j - 1] <= 0 => j = 1) /\ p[j] <= Len(orig)
  <2>1. j \in 1..Len(lines) /\ j - 1 \in 0..Len(lines) /\ j \in 0..Len(lines)
    BY <1>0, <1>2
  <2>2. p[j] \in Nat /\ p[j - 1] \in Nat /\ p[j] >= p[j - 1] + 2 /\ p[0] = 0
    BY <2>1, LayoutIs
  <2>3. 0 \in 0..Len(lines) /\ j - 1 \in 0..Len(lines) /\ p[0] + 2 * ((j - 1) - 0) <= p[j - 1]
    BY <1>0, <2>1, LayoutGrows
  <2>4. p[j - 1] <= 0 => j = 1
    BY <1>0, <2>1, <2>2, <2>3
  <2>5. p[j] <= Len(orig)
    <3>1. Len(lines) \in j..Len(lines) /\ Len(lines) - j \in Nat
      BY <1>0, <2>1
    <3>2. p[j] + 2 * (Len(lines) - j) <= p[Len(lines)] /\ p[Len(lines)] = Len(orig)
      BY <2>1, <3>1, LayoutGrows, LayoutIs, SMTT(60)
    <3> QED
      BY <1>0, <2>2, <3>1, <3>2
  <2> QED
    BY <2>1, <2>2, <2>4, <2>5
<1>3. \/ j >= 1 /\ e = p[j] - 1 /\ 0 >= p[j - 1]
      \/ j = 0 /\ e = 0
  BY <1>0, <1>1, <1>2, <1>a
<1>4. CASE j >= 1 /\ e = p[j] - 1 /\ 0 >= p[j - 1]
  <2>1. j = 1 /\ p[j - 1] = 0 /\ p[j - 1] + 1 = 0 + 1
    BY <1>2, <1>4
  <2>2. chunk = SubSeq(orig, p[j - 1] + 1, p[j] - 1)
    BY <1>0, <1>4, <2>1
  <2>3. chunk # <<>>
    BY <1>2, <1>4, <2>2, TakenLine DEF TakenText
  <2>4. ScanAt(p, lines, orig, 0, <<>>, j - 1, 0)
    <3>1. SubSeq(orig, 0 + 1, 0) = <<>>
      BY SubSeqEmpty
    <3>2. j - 1 = 0 /\ j - 1 \in 0..Len(lines)
      BY <1>0, <2>1
    <3> QED
      BY <1>0, <3>1, <3>2 DEF ScanAt
  <2> QED
    BY <1>2, <1>4, <2>1, <2>2, <2>3, <2>4
<1>5. CASE j = 0 /\ e = 0
  <2>1. SubSeq(orig, 0 + 1, 0) = <<>>
    BY SubSeqEmpty
  <2> QED
    BY <1>0, <1>5, <2>1
<1> QED
  BY <1>3, <1>4, <1>5

(* A chunk that is read in front.                                          *)
LEMMA ScanExtends ==
  ASSUME NEW lines, NEW orig \in Seq(LrBytes), NEW p,
         NEW offset, NEW chunk, NEW j, NEW e, ScanAt(p, lines, orig, offset, chunk, j, e),
         NEW from \in Nat, from <= offset
  PROVE  ScanAt(p, lines, orig, from, SubSeq(orig, from + 1, offset) \o chunk, j, e)
<1>0. /\ j \in 0..Len(lines) /\ offset \in Nat /\ e \in 0..Len(orig) /\ offset <= e /\ Len(orig) \in Nat
      /\ chunk = SubSeq(orig, offset + 1, e)
  BY DEF ScanAt
<1>1. SubSeq(orig, from + 1, offset) \o SubSeq(orig, offset + 1, e) = SubSeq(orig, from + 1, e)
  <2> DEFINE m == from + 1
  <2>1. m \in 1..(Len(orig) + 1) /\ offset \in (m - 1)..Len(orig) /\ e \in offset..Len(orig)
    BY <1>0
  <2> HIDE DEF m
  <2>2. SubSeq(orig, m, offset) \o SubSeq(orig, offset + 1, e) = SubSeq(orig, m, e)
    BY <2>1, ConcatAdjacentSubSeq
  <2> QED
    BY <2>2 DEF m
<1>2. from <= e
  BY <1>0
<1> QED
  BY <1>0, <1>1, <1>2 DEF ScanAt

(***************************************************************************)
(* The blocks to keep: lines that are valid, from the last to the first,   *)
(* and every valid line from one on is in one.                             *)
(***************************************************************************)
ValidLines(lines, k) == {i \in k..Len(lines) : ParseLogTime(lines[i]) # 0}
BlockType == [pos : Nat, size : Nat]
IsBlock(p, lines, b, lo, hi) ==
  /\ lo <= hi /\ b.pos = p[lo - 1] /\ b.pos + b.size = p[hi]
  /\ \A i \in lo..hi : i \in ValidLines(lines, 1)
Holds(p, b, i) == b.pos <= p[i - 1] /\ p[i] <= b.pos + b.size
Blocks(p, lines, keep, k) ==
  /\ keep \in Seq(BlockType)
  /\ \A m \in 1..Len(keep) : \E lo, hi \in k..Len(lines) : IsBlock(p, lines, keep[m], lo, hi)
  /\ \A m, o \in 1..Len(keep) : m < o => keep[o].pos + keep[o].size <= keep[m].pos
  /\ \A i \in ValidLines(lines, k) : \E m \in 1..Len(keep) : Holds(p, keep[m], i)

LEMMA LayoutOrder ==
  ASSUME NEW lines \in Seq(LogLines), NEW bytes, NEW p, Layout(p, lines, bytes),
         NEW c \in 0..Len(lines), NEW d \in 0..Len(lines)
  PROVE  /\ p[c] \in Nat /\ p[d] \in Nat
         /\ c <= d <=> p[c] <= p[d]
         /\ c < d <=> p[c] < p[d]
         /\ c = d <=> p[c] = p[d]
<1>0. Len(lines) \in Nat /\ p[c] \in Nat /\ p[d] \in Nat
  BY LayoutIs
<1>1. c <= d => p[c] + 2 * (d - c) <= p[d]
  <2>1. c <= d => d \in c..Len(lines)
    BY <1>0
  <2> QED
    BY <2>1, LayoutGrows
<1>2. d <= c => p[d] + 2 * (c - d) <= p[c]
  <2>1. d <= c => c \in d..Len(lines)
    BY <1>0
  <2> QED
    BY <2>1, LayoutGrows
<1> DEFINE x == p[c]
           y == p[d]
<1>3. c \in Nat /\ d \in Nat /\ x \in Nat /\ y \in Nat /\ (c <= d => x + 2 * (d - c) <= y) /\ (d <= c => y + 2 * (c - d) <= x)
  BY <1>0, <1>1, <1>2
<1> HIDE DEF x, y
<1>4. (c <= d <=> x <= y) /\ (c < d <=> x < y) /\ (c = d <=> x = y)
  BY <1>3
<1> QED
  BY <1>0, <1>4 DEF x, y

LEMMA BlocksSkip ==
  ASSUME NEW lines \in Seq(LogLines), NEW p, NEW keep, NEW j \in 1..Len(lines),
         Blocks(p, lines, keep, j + 1), ParseLogTime(lines[j]) = 0
  PROVE  Blocks(p, lines, keep, j)
<1>0. Len(lines) \in Nat
  OBVIOUS
<1>1. \A i \in ValidLines(lines, j) : i \in ValidLines(lines, j + 1)
  <2> SUFFICES ASSUME NEW i \in ValidLines(lines, j) PROVE i \in ValidLines(lines, j + 1)
    OBVIOUS
  <2>1. i \in j..Len(lines) /\ ParseLogTime(lines[i]) # 0
    BY DEF ValidLines
  <2>2. i # j
    BY <2>1
  <2>3. i \in (j + 1)..Len(lines)
    BY <1>0, <2>1, <2>2
  <2> QED
    BY <2>1, <2>3 DEF ValidLines
<1>2. \A i \in (j + 1)..Len(lines) : i \in j..Len(lines)
  BY <1>0
<1> QED
  BY <1>1, <1>2 DEF Blocks

(* Every block lies behind the lines that were not taken.                  *)
LEMMA BlocksBehind ==
  ASSUME NEW lines \in Seq(LogLines), NEW bytes, NEW p, Layout(p, lines, bytes), NEW keep,
         NEW c \in 0..Len(lines), Blocks(p, lines, keep, c + 1), NEW m \in 1..Len(keep)
  PROVE  /\ keep[m].pos \in Nat /\ keep[m].size \in Nat /\ p[c] <= keep[m].pos
         /\ \E lo, hi \in (c + 1)..Len(lines) :
              /\ IsBlock(p, lines, keep[m], lo, hi) /\ lo \in 1..Len(lines) /\ hi \in 1..Len(lines)
              /\ lo - 1 \in 0..Len(lines) /\ hi \in 0..Len(lines) /\ c <= lo - 1
<1>0. Len(lines) \in Nat
  OBVIOUS
<1>1. keep[m] \in BlockType
  BY DEF Blocks
<1>2. keep[m].pos \in Nat /\ keep[m].size \in Nat
  BY <1>1 DEF BlockType
<1>3. PICK lo \in (c + 1)..Len(lines), hi \in (c + 1)..Len(lines) : IsBlock(p, lines, keep[m], lo, hi)
  BY DEF Blocks
<1>4. lo \in 1..Len(lines) /\ hi \in 1..Len(lines) /\ lo - 1 \in 0..Len(lines) /\ hi \in 0..Len(lines) /\ c <= lo - 1
  BY <1>0
<1>5. p[c] <= p[lo - 1]
  BY <1>4, LayoutOrder
<1> QED
  BY <1>2, <1>3, <1>4, <1>5 DEF IsBlock

LEMMA BlocksAppend ==
  ASSUME NEW lines \in Seq(LogLines), NEW bytes, NEW p, Layout(p, lines, bytes), NEW keep,
         NEW j \in 1..Len(lines), Blocks(p, lines, keep, j + 1), ParseLogTime(lines[j]) # 0
  PROVE  Blocks(p, lines, Append(keep, [pos |-> p[j - 1], size |-> p[j] - p[j - 1]]), j)
<1> DEFINE b == [pos |-> p[j - 1], size |-> p[j] - p[j - 1]]
           new == Append(keep, b)
           n == Len(lines)
           l == Len(keep)
<1>0. n \in Nat /\ j \in 0..n /\ j - 1 \in 0..n /\ j \in j..n
  OBVIOUS
<1>1. p[j] \in Nat /\ p[j - 1] \in Nat /\ p[j - 1] <= p[j]
  BY <1>0, LayoutOrder
<1>2. b \in BlockType /\ b.pos = p[j - 1] /\ b.size = p[j] - p[j - 1] /\ b.pos + b.size = p[j]
  BY <1>1 DEF BlockType
<1>3. keep \in Seq(BlockType) /\ l \in Nat
  BY DEF Blocks
<1> HIDE DEF b
<1>4. new \in Seq(BlockType) /\ Len(new) = l + 1 /\ new[l + 1] = b /\ \A m \in 1..l : new[m] = keep[m]
  BY <1>2, <1>3, AppendProperties
<1> HIDE DEF new, l
<1>a. l = Len(keep)
  BY DEF l
<1>5. IsBlock(p, lines, b, j, j)
  <2>1. j \in ValidLines(lines, 1)
    BY <1>0 DEF ValidLines
  <2>2. \A i \in j..j : i = j
    OBVIOUS
  <2>3. j <= j
    OBVIOUS
  <2> QED
    BY <1>2, <2>1, <2>2, <2>3 DEF IsBlock
<1>6. ASSUME NEW m \in 1..(l + 1) PROVE \E lo, hi \in j..n : IsBlock(p, lines, new[m], lo, hi)
  <2>1. CASE m = l + 1
    BY <1>0, <1>4, <1>5, <2>1
  <2>2. CASE m # l + 1
    <3>1. m \in 1..l
      BY <1>3, <2>2
    <3>2. PICK lo \in (j + 1)..n, hi \in (j + 1)..n : IsBlock(p, lines, keep[m], lo, hi)
      BY <1>a, <3>1 DEF Blocks
    <3>3. lo \in j..n /\ hi \in j..n
      BY <1>0
    <3> QED
      BY <1>4, <3>1, <3>2, <3>3
  <2> QED
    BY <2>1, <2>2
<1>7. ASSUME NEW m \in 1..(l + 1), NEW o \in 1..(l + 1), m < o PROVE new[o].pos + new[o].size <= new[m].pos
  <2>1. m \in 1..l
    BY <1>3, <1>7
  <2>2. CASE o = l + 1
    <3>1. p[j] <= keep[m].pos
      BY <1>0, <1>a, <2>1, BlocksBehind
    <3> QED
      BY <1>2, <1>4, <2>1, <2>2, <3>1
  <2>3. CASE o # l + 1
    <3>1. o \in 1..l
      BY <1>3, <2>3
    <3> QED
      BY <1>4, <1>7, <1>a, <2>1, <3>1 DEF Blocks
  <2> QED
    BY <2>2, <2>3
<1>8. ASSUME NEW i \in ValidLines(lines, j) PROVE \E m \in 1..(l + 1) : Holds(p, new[m], i)
  <2>0. i \in j..n /\ ParseLogTime(lines[i]) # 0
    BY DEF ValidLines
  <2>1. CASE i = j
    <3>1. Holds(p, b, j)
      BY <1>1, <1>2 DEF Holds
    <3>2. l + 1 \in 1..(l + 1)
      BY <1>3
    <3> QED
      BY <1>4, <2>1, <3>1, <3>2
  <2>2. CASE i # j
    <3>1. i \in (j + 1)..n
      BY <1>0, <2>0, <2>2
    <3>2. i \in ValidLines(lines, j + 1)
      BY <2>0, <3>1 DEF ValidLines
    <3>3. PICK m \in 1..l : Holds(p, keep[m], i)
      BY <1>a, <3>2 DEF Blocks
    <3>4. m \in 1..(l + 1)
      BY <1>3
    <3> QED
      BY <1>4, <3>3, <3>4
  <2> QED
    BY <2>1, <2>2
<1>9. Blocks(p, lines, new, j)
  BY <1>4, <1>6, <1>7, <1>8 DEF Blocks
<1> QED
  BY <1>9 DEF new, b

LEMMA BlocksMerge ==
  ASSUME NEW lines \in Seq(LogLines), NEW bytes, NEW p, Layout(p, lines, bytes), NEW keep,
         NEW j \in 1..Len(lines), Blocks(p, lines, keep, j + 1), ParseLogTime(lines[j]) # 0,
         keep # <<>>, keep[Len(keep)].pos = p[j], NEW new,
         new \in Seq(BlockType), Len(new) = Len(keep),
         \A m \in 1..Len(keep) : m # Len(keep) => new[m] = keep[m],
         new[Len(keep)].pos = p[j - 1],
         new[Len(keep)].pos + new[Len(keep)].size = keep[Len(keep)].pos + keep[Len(keep)].size
  PROVE  Blocks(p, lines, new, j)
<1> DEFINE n == Len(lines)
           l == Len(keep)
<1>0. n \in Nat /\ j \in 0..n /\ j - 1 \in 0..n /\ j \in j..n
  OBVIOUS
<1>1. p[j] \in Nat /\ p[j - 1] \in Nat /\ p[j - 1] <= p[j]
  BY <1>0, LayoutOrder
<1>2. keep \in Seq(BlockType) /\ l \in 1..l /\ l \in Nat
  <2>1. keep \in Seq(BlockType)
    BY DEF Blocks
  <2>2. Len(keep) \in Nat \ {0}
    BY <2>1, EmptySeq
  <2> QED
    BY <2>1, <2>2
<1>a. l = Len(keep)
  OBVIOUS
<1> HIDE DEF l
<1>3. PICK lo \in (j + 1)..n, hi \in (j + 1)..n :
        /\ IsBlock(p, lines, keep[l], lo, hi) /\ lo \in 1..n /\ hi \in 1..n
        /\ lo - 1 \in 0..n /\ hi \in 0..n /\ j <= lo - 1
  BY <1>0, <1>2, <1>a, BlocksBehind
<1>4. lo - 1 = j
  <2>1. p[lo - 1] = p[j]
    BY <1>3, <1>a DEF IsBlock
  <2> QED
    BY <1>0, <1>3, <2>1, LayoutOrder
<1>5. /\ keep[l].pos = p[j] /\ keep[l].pos + keep[l].size = p[hi] /\ p[j] <= p[hi]
      /\ new[l].pos = p[j - 1] /\ new[l].pos + new[l].size = p[hi]
  <2>1. p[j] <= p[hi]
    <3>1. j <= hi
      BY <1>0, <1>3
    <3> QED
      BY <1>0, <1>3, <3>1, LayoutOrder
  <2> QED
    BY <1>3, <1>a, <2>1 DEF IsBlock
<1>6. IsBlock(p, lines, new[l], j, hi)
  <2>1. j \in ValidLines(lines, 1)
    BY <1>0 DEF ValidLines
  <2>2. \A i \in j..hi : i \in ValidLines(lines, 1)
    <3> SUFFICES ASSUME NEW i \in j..hi PROVE i \in ValidLines(lines, 1)
      OBVIOUS
    <3>1. i = j \/ i \in lo..hi
      BY <1>0, <1>3, <1>4
    <3> QED
      BY <1>3, <2>1, <3>1 DEF IsBlock
  <2>3. j <= hi
    BY <1>0
  <2> QED
    BY <1>5, <2>2, <2>3 DEF IsBlock
<1>7. ASSUME NEW m \in 1..l PROVE \E x, y \in j..n : IsBlock(p, lines, new[m], x, y)
  <2>1. CASE m = l
    <3>1. hi \in j..n
      BY <1>0
    <3> QED
      BY <1>0, <1>6, <2>1, <3>1
  <2>2. CASE m # l
    <3>1. PICK x \in (j + 1)..n, y \in (j + 1)..n : IsBlock(p, lines, keep[m], x, y)
      BY <1>a DEF Blocks
    <3>2. x \in j..n /\ y \in j..n
      BY <1>0
    <3> QED
      BY <1>a, <2>2, <3>1, <3>2
  <2> QED
    BY <2>1, <2>2
<1>8. ASSUME NEW m \in 1..l, NEW o \in 1..l, m < o PROVE new[o].pos + new[o].size <= new[m].pos
  <2>1. m # l
    BY <1>2, <1>8
  <2>2. keep[o].pos + keep[o].size <= keep[m].pos /\ new[m] = keep[m]
    BY <1>8, <1>a, <2>1 DEF Blocks
  <2>3. CASE o = l
    BY <1>5, <2>2, <2>3
  <2>4. CASE o # l
    BY <1>a, <2>2, <2>4
  <2> QED
    BY <2>3, <2>4
<1>9. ASSUME NEW i \in ValidLines(lines, j) PROVE \E m \in 1..l : Holds(p, new[m], i)
  <2>0. i \in j..n /\ ParseLogTime(lines[i]) # 0
    BY DEF ValidLines
  <2>1. CASE i = j
    <3>1. Holds(p, new[l], j)
      BY <1>1, <1>5 DEF Holds
    <3> QED
      BY <1>2, <2>1, <3>1
  <2>2. CASE i # j
    <3>1. i \in (j + 1)..n
      BY <1>0, <2>0, <2>2
    <3>2. i \in ValidLines(lines, j + 1)
      BY <2>0, <3>1 DEF ValidLines
    <3>3. PICK m \in 1..l : Holds(p, keep[m], i)
      BY <1>a, <3>2 DEF Blocks
    <3>4. CASE m = l
      <4>1. i - 1 \in 0..n /\ i \in 0..n /\ j - 1 <= i - 1
        BY <1>0, <3>1
      <4>2. p[j - 1] <= p[i - 1]
        BY <1>0, <4>1, LayoutOrder
      <4> QED
        BY <1>5, <3>3, <3>4, <4>2 DEF Holds
    <3>5. CASE m # l
      BY <1>a, <3>3, <3>5
    <3> QED
      BY <3>4, <3>5
  <2> QED
    BY <2>1, <2>2
<1> QED
  BY <1>7, <1>8, <1>9, <1>a DEF Blocks

InvalidLines(lines, k) == (k..Len(lines)) \ ValidLines(lines, k)

LEMMA CountLines ==
  ASSUME NEW lines \in Seq(LogLines), NEW j \in 1..Len(lines)
  PROVE  /\ Cardinality(ValidLines(lines, j + 1)) \in Nat /\ Cardinality(InvalidLines(lines, j + 1)) \in Nat
         /\ ParseLogTime(lines[j]) = 0 =>
              /\ ValidLines(lines, j) = ValidLines(lines, j + 1)
              /\ Cardinality(InvalidLines(lines, j)) = Cardinality(InvalidLines(lines, j + 1)) + 1
         /\ ParseLogTime(lines[j]) # 0 =>
              /\ ValidLines(lines, j) = ValidLines(lines, j + 1) \cup {j}
              /\ Cardinality(ValidLines(lines, j)) = Cardinality(ValidLines(lines, j + 1)) + 1
              /\ InvalidLines(lines, j) = InvalidLines(lines, j + 1)
<1> DEFINE n == Len(lines)
           V == ValidLines(lines, j + 1)
           W == InvalidLines(lines, j + 1)
<1>0. n \in Nat /\ j..n = ((j + 1)..n) \cup {j} /\ j \notin (j + 1)..n
  OBVIOUS
<1>1. IsFiniteSet((j + 1)..n)
  BY <1>0, FS_Interval
<1>2. V \subseteq (j + 1)..n /\ W \subseteq (j + 1)..n
  BY DEF ValidLines, InvalidLines
<1>3. IsFiniteSet(V) /\ IsFiniteSet(W)
  BY <1>1, <1>2, FS_Subset
<1>4. Cardinality(V) \in Nat /\ Cardinality(W) \in Nat
  BY <1>3, FS_CardinalityType
<1>5. j \notin V /\ j \notin W
  BY <1>0, <1>2
<1>6. ASSUME ParseLogTime(lines[j]) = 0
      PROVE  ValidLines(lines, j) = V /\ InvalidLines(lines, j) = W \cup {j}
  <2>1. ValidLines(lines, j) = V
    BY <1>0, <1>6 DEF ValidLines
  <2> HIDE DEF V, W
  <2>2. W = ((j + 1)..n) \ V
    BY DEF W, V, InvalidLines
  <2> QED
    BY <1>0, <1>5, <2>1, <2>2 DEF InvalidLines
<1>7. ASSUME ParseLogTime(lines[j]) # 0
      PROVE  ValidLines(lines, j) = V \cup {j} /\ InvalidLines(lines, j) = W
  <2>1. ValidLines(lines, j) = V \cup {j}
    BY <1>0, <1>7 DEF ValidLines
  <2> HIDE DEF V, W
  <2>2. W = ((j + 1)..n) \ V
    BY DEF W, V, InvalidLines
  <2> QED
    BY <1>0, <1>5, <2>1, <2>2 DEF InvalidLines
<1>8. Cardinality(V \cup {j}) = Cardinality(V) + 1 /\ Cardinality(W \cup {j}) = Cardinality(W) + 1
  BY <1>3, <1>5, FS_AddElement
<1> QED
  BY <1>4, <1>6, <1>7, <1>8

LEMMA CountInvalid ==
  ASSUME NEW lines \in Seq(LogLines), NEW k \in 1..(Len(lines) + 1)
  PROVE  /\ Cardinality(InvalidLines(lines, k)) \in Nat /\ Cardinality(InvalidLines(lines, 1)) \in Nat
         /\ Cardinality(InvalidLines(lines, k)) <= Cardinality(InvalidLines(lines, 1))
         /\ Cardinality(ValidLines(lines, k)) \in Nat
<1> DEFINE n == Len(lines)
<1>0. n \in Nat /\ k..n \subseteq 1..n
  OBVIOUS
<1>1. IsFiniteSet(1..n)
  BY <1>0, FS_Interval
<1>2. InvalidLines(lines, 1) \subseteq 1..n /\ InvalidLines(lines, k) \subseteq InvalidLines(lines, 1) /\ ValidLines(lines, k) \subseteq 1..n
  BY <1>0 DEF InvalidLines, ValidLines
<1>3. IsFiniteSet(InvalidLines(lines, 1)) /\ IsFiniteSet(ValidLines(lines, k))
  BY <1>1, <1>2, FS_Subset
<1>4. IsFiniteSet(InvalidLines(lines, k)) /\ Cardinality(InvalidLines(lines, k)) <= Cardinality(InvalidLines(lines, 1))
  BY <1>2, <1>3, FS_Subset
<1> QED
  BY <1>3, <1>4, FS_CardinalityType

(***************************************************************************)
(* The inductive invariant.                                                *)
(***************************************************************************)
LrPolicies == [last : Nat, days : Nat, keep : Nat]
LrRecords ==
  [pc : {"scan", "chosen", "move", "done"}, p : LrPolicies, lines : Seq(LogLines),
   file : Seq(LrBytes), orig : Seq(LrBytes), offset : Nat, chunk : Seq(LrBytes), keep : Seq(BlockType),
   lastValid : BOOLEAN, nread : Nat, nkeep : Nat, nlines : Nat, ninvalid : Nat, wpos : Nat]

LrRecent(s, i) == ParseLogTime(s.lines[i]) >= Now - s.p.days + 1

(* A line from which on the policy keeps.                                  *)
LrSuits(s, k) ==
  IF s.p.last > 0
    THEN /\ k > 1 => Cardinality(ValidLines(s.lines, k)) >= s.p.last
         /\ Cardinality(ValidLines(s.lines, k)) <= s.p.last + Cardinality(InvalidLines(s.lines, 1))
    ELSE /\ \A i \in ValidLines(s.lines, k) : LrRecent(s, i)
         /\ k > 1 => ParseLogTime(s.lines[k - 1]) # 0 /\ ~LrRecent(s, k - 1)

LrAll(s, p, j) ==
  /\ s.nkeep <= Len(s.orig) - p[j]
  /\ s.nkeep = Len(s.orig) - p[j] => \A i \in (j + 1)..Len(s.lines) : i \in ValidLines(s.lines, 1)

(* All but j lines were taken.                                             *)
LrTaken(s, p, j) ==
  /\ s.file = s.orig /\ s.wpos = 0 /\ s.nread = Len(s.orig) - p[j]
  /\ Blocks(p, s.lines, s.keep, j + 1)
  /\ s.lastValid = TRUE => s.keep # <<>> /\ s.keep[Len(s.keep)].pos = p[j]
  /\ LrAll(s, p, j)
  /\ s.nlines = Cardinality(ValidLines(s.lines, j + 1))
  /\ s.ninvalid = Cardinality(InvalidLines(s.lines, j + 1))
  /\ s.p.last > 0 => s.nlines - s.ninvalid <= s.p.last
  /\ ~(s.p.last > 0) => \A i \in ValidLines(s.lines, j + 1) : LrRecent(s, i)

LrChosen(s, p, j) ==
  /\ j \in 0..Len(s.lines) /\ s.file = s.orig /\ s.wpos = 0
  /\ Blocks(p, s.lines, s.keep, j + 1) /\ LrSuits(s, j + 1) /\ LrAll(s, p, j)

(* The kept lines up to c are in front, those after it where they were.    *)
LrMoving(s, p, k, K, c) ==
  /\ k \in 1..(Len(s.lines) + 1) /\ LrSuits(s, k)
  /\ Keeps(K, s.lines, ValidLines(s.lines, k))
  /\ FlattenSeq(KeptPieces(s.lines, ValidLines(s.lines, k))) = K[Len(s.lines)]
  /\ c \in 0..Len(s.lines) /\ k <= c + 1 /\ Blocks(p, s.lines, s.keep, c + 1)
  /\ Len(s.file) = Len(s.orig) /\ s.wpos = Len(K[c]) /\ s.wpos <= p[c]
  /\ \A x \in 1..s.wpos : s.file[x] = K[c][x]
  /\ \A x \in (p[c] + 1)..Len(s.orig) : s.file[x] = s.orig[x]

LrDone(s) ==
  IsValid(s.p) /\ s.p.keep = 0 =>
    \E k \in 1..(Len(s.lines) + 1) :
      s.file = FlattenSeq(KeptPieces(s.lines, ValidLines(s.lines, k))) /\ LrSuits(s, k)

LrOk(s) ==
  \/ s = [pc |-> "idle"]
  \/ /\ s \in LrRecords
     /\ \/ s.pc = "done" /\ LrDone(s)
        \/ \E p : /\ Layout(p, s.lines, s.orig)
                  /\ \/ s.pc = "scan" /\ \E j, e : ScanAt(p, s.lines, s.orig, s.offset, s.chunk, j, e) /\ LrTaken(s, p, j)
                     \/ s.pc = "chosen" /\ \E j : LrChosen(s, p, j)
                     \/ s.pc = "move" /\ \E k, K, c : LrMoving(s, p, k, K, c)

LEMMA LrFields ==
  ASSUME NEW s \in LrRecords
  PROVE  /\ s.pc \in {"scan", "chosen", "move", "done"} /\ s.lines \in Seq(LogLines)
         /\ s.file \in Seq(LrBytes) /\ s.orig \in Seq(LrBytes) /\ s.offset \in Nat /\ s.chunk \in Seq(LrBytes)
         /\ s.keep \in Seq(BlockType) /\ s.lastValid \in BOOLEAN
         /\ s.nread \in Nat /\ s.nkeep \in Nat /\ s.nlines \in Nat /\ s.ninvalid \in Nat /\ s.wpos \in Nat
         /\ s.p \in LrPolicies /\ s.p.last \in Nat /\ s.p.days \in Nat /\ s.p.keep \in Nat
<1>1. s.p \in LrPolicies
  BY DEF LrRecords
<1> QED
  BY <1>1 DEF LrRecords, LrPolicies

LEMMA TimesAreNatural ==
  ASSUME NEW lines \in Seq(LogLines), NEW i \in 1..Len(lines)
  PROVE  ParseLogTime(lines[i]) \in Nat
<1>1. lines[i] \in LogLines
  OBVIOUS
<1> QED
  BY <1>1, LogRotateAssumption DEF ParseLogTime

(* One block moves.                                                        *)
AfterMove(s, b) ==
  [s EXCEPT !.keep = Front(@), !.wpos = @ + b.size,
            !.file = [i \in 1..Len(@) |-> IF i \in (s.wpos + 1)..(s.wpos + b.size)
                                          THEN @[i - s.wpos + b.pos] ELSE @[i]]]

LEMMA MoveStep ==
  ASSUME NEW s \in LrRecords, NEW p, Layout(p, s.lines, s.orig), NEW k, NEW K, NEW c, LrMoving(s, p, k, K, c),
         s.pc = "move", s.keep # <<>>, NEW b, b = s.keep[Len(s.keep)], NEW t, t = AfterMove(s, b)
  PROVE  t \in LrRecords /\ t.pc = "move" /\ t.lines = s.lines /\ t.orig = s.orig /\ \E d : LrMoving(t, p, k, K, d)
<1> DEFINE n == Len(s.lines)
           N == Len(s.orig)
           l == Len(s.keep)
           f == s.file
           w == s.wpos
           g == [i \in 1..Len(f) |-> IF i \in (w + 1)..(w + b.size) THEN f[i - w + b.pos] ELSE f[i]]
           S == ValidLines(s.lines, k)
<1>0. /\ s.lines \in Seq(LogLines) /\ s.orig \in Seq(LrBytes) /\ f \in Seq(LrBytes) /\ s.keep \in Seq(BlockType) /\ w \in Nat
      /\ n \in Nat /\ N \in Nat
  BY LrFields
<1>1. /\ k \in 1..(n + 1) /\ LrSuits(s, k) /\ Keeps(K, s.lines, S) /\ FlattenSeq(KeptPieces(s.lines, S)) = K[n]
      /\ c \in 0..n /\ k <= c + 1 /\ Blocks(p, s.lines, s.keep, c + 1)
      /\ Len(f) = N /\ w = Len(K[c]) /\ w <= p[c]
      /\ \A x \in 1..w : f[x] = K[c][x]
      /\ \A x \in (p[c] + 1)..N : f[x] = s.orig[x]
  BY DEF LrMoving
<1>2. l \in Nat /\ l \in 1..l /\ l >= 1
  <2>1. Len(s.keep) \in Nat \ {0}
    BY <1>0, EmptySeq
  <2> QED
    BY <2>1
<1>b. ASSUME NEW m \in 1..Len(s.keep)
      PROVE  /\ s.keep[m].pos \in Nat /\ s.keep[m].size \in Nat
             /\ \E lo, hi \in (c + 1)..Len(s.lines) :
                  /\ IsBlock(p, s.lines, s.keep[m], lo, hi) /\ lo \in 1..Len(s.lines) /\ hi \in 1..Len(s.lines)
                  /\ lo - 1 \in 0..Len(s.lines) /\ hi \in 0..Len(s.lines) /\ c <= lo - 1
  <2>1. s.lines \in Seq(LogLines) /\ Layout(p, s.lines, s.orig) /\ c \in 0..Len(s.lines) /\ Blocks(p, s.lines, s.keep, c + 1)
    BY <1>0, <1>1
  <2> QED
    BY ONLY <2>1, m \in 1..Len(s.keep), BlocksBehind
<1>3. PICK lo \in (c + 1)..n, hi \in (c + 1)..n :
        /\ IsBlock(p, s.lines, b, lo, hi) /\ lo \in 1..n /\ hi \in 1..n
        /\ lo - 1 \in 0..n /\ hi \in 0..n /\ c <= lo - 1
  <2>1. b = s.keep[l] /\ l \in 1..Len(s.keep)
    BY <1>2
  <2> QED
    BY <1>b, <2>1
<1>4. b.pos \in Nat /\ b.size \in Nat /\ b.pos = p[lo - 1] /\ b.pos + b.size = p[hi] /\ lo <= hi
  <2>1. b.pos \in Nat /\ b.size \in Nat
    BY <1>2, <1>b
  <2> QED
    BY <1>3, <2>1 DEF IsBlock
<1> DEFINE u == p[lo - 1]
           v == p[hi]
           z == p[c]
<1>5. u \in Nat /\ v \in Nat /\ z \in Nat /\ z <= u /\ u < v /\ v <= N
  <2>1. lo - 1 < hi
    BY <1>0, <1>3, <1>4
  <2>2. u \in Nat /\ v \in Nat /\ z \in Nat /\ z <= u /\ u < v
    BY <1>0, <1>1, <1>3, <2>1, LayoutOrder
  <2>3. n \in 0..n /\ hi <= n /\ p[n] = N
    BY <1>0, <1>3, LayoutIs, SMTT(60)
  <2>4. p[hi] <= p[n]
    BY <1>0, <1>3, <2>3, LayoutOrder
  <2> QED
    BY <2>2, <2>3, <2>4
<1>6. K[lo - 1] = K[c]
  <2>1. ASSUME NEW i \in (c + 1)..(lo - 1), i \in S PROVE FALSE
    <3>1. i \in (c + 1)..n /\ i - 1 \in 0..n /\ i \in 0..n /\ i - 1 < lo - 1
      <4>1. n \in Nat /\ c \in 0..n /\ lo \in 1..n /\ i \in (c + 1)..(lo - 1)
        BY <1>0, <1>1, <1>3
      <4> HIDE DEF n
      <4> QED
        BY ONLY <4>1
    <3>2. i \in ValidLines(s.lines, c + 1)
      BY <2>1, <3>1 DEF ValidLines
    <3>3. PICK m \in 1..l : Holds(p, s.keep[m], i)
      BY <1>1, <3>2 DEF Blocks
    <3>4. b.pos <= s.keep[m].pos
      <4>1. CASE m = l
        BY <1>4, <4>1
      <4>2. CASE m # l
        <5>1. m < l
          BY <1>2, <4>2
        <5>2. b.pos + b.size <= s.keep[m].pos
          BY <1>1, <1>2, <5>1 DEF Blocks
        <5>3. s.keep[m].pos \in Nat
          BY <1>b
        <5> QED
          BY <1>4, <5>2, <5>3, SMTT(60)
      <4> QED
        BY <4>1, <4>2
    <3>5. p[i - 1] < p[lo - 1]
      BY <1>0, <1>3, <3>1, LayoutOrder
    <3>6. p[i - 1] \in Nat
      BY <1>0, <3>1, LayoutIs
    <3>7. s.keep[m].pos \in Nat
      BY <1>b
    <3> QED
      BY <1>4, <3>3, <3>4, <3>5, <3>6, <3>7, SMTT(60) DEF Holds
  <2> DEFINE d == lo - 1
  <2>2. d \in c..n /\ \A i \in (c + 1)..d : i \notin S
    <3>1. n \in Nat /\ c \in 0..n /\ d \in 0..n /\ c <= d
      BY <1>0, <1>1, <1>3
    <3> HIDE DEF n, d
    <3>2. d \in c..n
      BY ONLY <3>1
    <3> QED
      BY <2>1, <3>2 DEF d
  <2>3. s.lines \in Seq(LogLines) /\ Keeps(K, s.lines, S) /\ c \in 0..Len(s.lines) /\ d \in c..Len(s.lines) /\ \A i \in (c + 1)..d : i \notin S
    BY <1>0, <1>1, <2>2
  <2> HIDE DEF d, S
  <2>4. K[d] = K[c]
    BY ONLY <2>3, KeptGap
  <2> QED
    BY <2>4 DEF d
<1>7. InBlock(K, p, s.orig, lo - 1, hi)
  <2>1. ASSUME NEW i \in ((lo - 1) + 1)..hi PROVE i \in S
    <3>1. i \in lo..hi /\ i \in k..n
      BY <1>0, <1>1, <1>3
    <3>2. i \in ValidLines(s.lines, 1)
      BY <1>3, <3>1 DEF IsBlock
    <3> QED
      BY <3>1, <3>2 DEF ValidLines
  <2> DEFINE q == lo - 1
  <2>2. q \in 0..n /\ hi \in q..n
    BY <1>0, <1>3, <1>4
  <2>3. \A i \in (q + 1)..hi : i \in S
    BY <2>1
  <2> HIDE DEF q
  <2>4. InBlock(K, p, s.orig, q, hi)
    BY <1>0, <1>1, <2>2, <2>3, KeptBlock
  <2> QED
    BY <2>4 DEF q
<1>8. /\ Len(K[hi]) = w + (v - u)
      /\ \A x \in 1..w : K[hi][x] = K[c][x]
      /\ \A x \in 1..(v - u) : K[hi][w + x] = s.orig[u + x]
  BY <1>1, <1>6, <1>7 DEF InBlock
<1>9. b.pos = u /\ b.size = v - u /\ w <= z /\ Len(f) = N
  <2>1. b.pos = u /\ b.pos + b.size = v /\ b.size \in Nat /\ u \in Nat /\ v \in Nat
    BY <1>4, <1>5
  <2>2. w <= z /\ Len(f) = N
    BY <1>1
  <2> HIDE DEF u, v, w, z, f, N
  <2>3. b.size = v - u
    BY ONLY <2>1
  <2> QED
    BY <2>1, <2>2, <2>3
<1>a. t = [s EXCEPT !.keep = Front(s.keep), !.wpos = w + b.size, !.file = g]
  BY DEF AfterMove
<1> HIDE DEF u, v, z, f, w
<1>10. g \in Seq(LrBytes) /\ Len(g) = N
       /\ \A i \in 1..N : g[i] = IF i \in (w + 1)..(w + b.size) THEN f[i - w + b.pos] ELSE f[i]
  <2>1. ASSUME NEW i \in 1..N PROVE (IF i \in (w + 1)..(w + b.size) THEN f[i - w + b.pos] ELSE f[i]) \in LrBytes
    <3>1. f[i] \in LrBytes
      BY <1>0, <1>9
    <3>2. ASSUME i \in (w + 1)..(w + b.size) PROVE f[i - w + b.pos] \in LrBytes
      <4> DEFINE y == i - w + b.pos
      <4>1. y \in 1..N
        BY <1>0, <1>5, <1>9, <3>2
      <4> HIDE DEF y
      <4>2. f[y] \in LrBytes
        BY <1>0, <1>9, <4>1
      <4> QED
        BY <4>2 DEF y
    <3> QED
      BY <3>1, <3>2
  <2>2. g \in [1..N -> LrBytes] /\ \A i \in 1..N : g[i] = IF i \in (w + 1)..(w + b.size) THEN f[i - w + b.pos] ELSE f[i]
    BY <1>9, <2>1
  <2> HIDE DEF g
  <2>3. g \in Seq(LrBytes) /\ Len(g) = N
    <3>1. N \in Nat /\ g \in [1..N -> LrBytes]
      BY <1>0, <2>2
    <3> HIDE DEF N
    <3> QED
      BY ONLY <3>1
  <2> QED
    BY <2>2, <2>3
<1> HIDE DEF g
<1>11. Front(s.keep) \in Seq(BlockType) /\ Len(Front(s.keep)) = l - 1 /\ \A m \in 1..(l - 1) : Front(s.keep)[m] = s.keep[m]
  <2>1. 1 \in Nat \ {0} /\ l - 1 \in 0..l
    BY <1>2
  <2>2. /\ SubSeq(s.keep, 1, l - 1) \in Seq(BlockType)
        /\ Len(SubSeq(s.keep, 1, l - 1)) = (IF 1 <= l - 1 THEN (l - 1) - 1 + 1 ELSE 0)
        /\ \A m \in 1..((l - 1) - 1 + 1) : SubSeq(s.keep, 1, l - 1)[m] = s.keep[1 + m - 1]
    BY <1>0, <2>1, SubSeqType
  <2>3. (l - 1) - 1 + 1 = l - 1 /\ \A m \in 1..(l - 1) : 1 + m - 1 = m
    BY <1>2
  <2>4. Len(SubSeq(s.keep, 1, l - 1)) = l - 1
    BY <1>2, <2>2
  <2> QED
    BY <2>2, <2>3, <2>4 DEF Front
<1> DEFINE fr == Front(s.keep)
           w2 == w + b.size
<1>12. w2 \in Nat /\ w2 = w + (v - u) /\ w2 <= v
  BY <1>0, <1>5, <1>9
<1> HIDE DEF fr, w2
<1>13. /\ t \in LrRecords /\ t.pc = "move" /\ t.lines = s.lines /\ t.orig = s.orig /\ t.p = s.p
       /\ t.keep = fr /\ t.wpos = w2 /\ t.file = g
  <2>1. s \in LrRecords /\ s.pc = "move" /\ fr \in Seq(BlockType) /\ w2 \in Nat /\ g \in Seq(LrBytes)
    BY <1>10, <1>11, <1>12 DEF fr
  <2>2. t = [s EXCEPT !.keep = fr, !.wpos = w2, !.file = g]
    BY <1>a DEF fr, w2
  <2> QED
    BY ONLY <2>1, <2>2 DEF LrRecords
<1>14. Blocks(p, s.lines, fr, hi + 1)
  <2>1. ASSUME NEW m \in 1..(l - 1) PROVE \E x, y \in (hi + 1)..n : IsBlock(p, s.lines, fr[m], x, y)
    <3>1. m \in 1..l /\ m < l
      BY <1>2
    <3>2. PICK x \in (c + 1)..n, y \in (c + 1)..n :
            /\ IsBlock(p, s.lines, s.keep[m], x, y) /\ x \in 1..n /\ y \in 1..n
            /\ x - 1 \in 0..n /\ y \in 0..n /\ c <= x - 1
      BY <1>b, <3>1
    <3>3. p[hi] <= p[x - 1]
      BY <1>1, <1>2, <1>4, <3>1, <3>2 DEF Blocks, IsBlock
    <3>4. hi <= x - 1
      BY <1>0, <1>3, <3>2, <3>3, LayoutOrder, SMTT(60)
    <3>5. x <= y
      BY <3>2 DEF IsBlock
    <3>6. x \in (hi + 1)..n /\ y \in (hi + 1)..n
      BY <1>0, <1>3, <3>2, <3>4, <3>5, SMTT(60)
    <3> QED
      BY <1>11, <3>2, <3>6 DEF fr
  <2>2. ASSUME NEW m \in 1..(l - 1), NEW o \in 1..(l - 1), m < o PROVE fr[o].pos + fr[o].size <= fr[m].pos
    <3>1. m \in 1..l /\ o \in 1..l
      BY <1>2
    <3> QED
      BY <1>1, <1>11, <2>2, <3>1 DEF Blocks, fr
  <2>3. ASSUME NEW i \in ValidLines(s.lines, hi + 1) PROVE \E m \in 1..(l - 1) : Holds(p, fr[m], i)
    <3>1. i \in (hi + 1)..n /\ ParseLogTime(s.lines[i]) # 0
      BY DEF ValidLines
    <3>2. i \in (c + 1)..n /\ i \in 0..n /\ hi < i
      BY <1>0, <1>1, <1>3, <3>1, SMTT(60)
    <3>3. i \in ValidLines(s.lines, c + 1)
      BY <3>1, <3>2 DEF ValidLines
    <3>4. PICK m \in 1..l : Holds(p, s.keep[m], i)
      BY <1>1, <3>3 DEF Blocks
    <3>5. m # l
      <4>1. p[hi] < p[i] /\ p[i] \in Nat /\ p[hi] \in Nat
        BY <1>0, <1>3, <3>2, LayoutOrder
      <4>2. m = l => p[i] <= p[hi]
        BY <1>4, <3>4 DEF Holds
      <4> QED
        BY <4>1, <4>2
    <3>6. m \in 1..(l - 1)
      BY <1>2, <3>5
    <3> QED
      BY <1>11, <3>4, <3>6 DEF fr
  <2> QED
    BY <1>11, <2>1, <2>2, <2>3 DEF Blocks, fr
<1>15. ASSUME NEW x \in 1..w2 PROVE g[x] = K[hi][x]
  <2>0. x \in 1..N
    BY <1>0, <1>5, <1>12
  <2>1. CASE x <= w
    <3>1. x \in 1..w /\ x \notin (w + 1)..(w + b.size)
      BY <1>0, <2>1
    <3> QED
      BY <1>1, <1>8, <1>10, <2>0, <3>1 DEF f, w
  <2>2. CASE ~(x <= w)
    <3> DEFINE y == x - w
    <3>1. x \in (w + 1)..(w + b.size) /\ y \in 1..(v - u) /\ w + y = x /\ y + b.pos = u + y /\ u + y \in (z + 1)..N
      <4>1. /\ x \in Int /\ 1 <= x /\ x <= w2 /\ ~(x <= w) /\ w \in Int /\ N \in Int /\ u \in Int /\ v \in Int /\ z \in Int
            /\ z <= u /\ u < v /\ v <= N /\ w2 = w + (v - u) /\ b.pos = u /\ b.size = v - u
        BY <1>0, <1>5, <1>9, <1>12, <2>2 DEF w
      <4> HIDE DEF N, w2
      <4> QED
        BY ONLY <4>1 DEF y
    <3>2. g[x] = f[u + y]
      BY <1>10, <2>0, <3>1
    <3> HIDE DEF y
    <3>3. f[u + y] = s.orig[u + y]
      BY <1>1, <3>1 DEF f, z
    <3>4. K[hi][w + y] = s.orig[u + y]
      BY <1>8, <3>1
    <3> QED
      BY <3>1, <3>2, <3>3, <3>4
  <2> QED
    BY <2>1, <2>2
<1>16. ASSUME NEW x \in (v + 1)..N PROVE g[x] = s.orig[x]
  <2>1. x \in 1..N /\ x \notin (w + 1)..(w + b.size) /\ x \in (z + 1)..N
    BY <1>0, <1>5, <1>9, <1>12, SMTT(60)
  <2> QED
    BY <1>1, <1>10, <2>1 DEF f, z
<1>17. LrSuits(t, k)
  BY <1>1, <1>13 DEF LrSuits, LrRecent
<1>18. k <= hi + 1
  BY <1>0, <1>1, <1>3
<1>19. LrMoving(t, p, k, K, hi)
  BY <1>1, <1>3, <1>8, <1>10, <1>12, <1>13, <1>14, <1>15, <1>16, <1>17, <1>18 DEF LrMoving, v
<1> QED
  BY <1>13, <1>19

LEMMA NoBlocks ==
  ASSUME NEW p, NEW lines, NEW c, Blocks(p, lines, <<>>, c)
  PROVE  ValidLines(lines, c) = {}
<1>1. Len(<<>>) = 0
  OBVIOUS
<1>2. \A m \in 1..0 : FALSE
  OBVIOUS
<1> QED
  BY <1>1, <1>2 DEF Blocks

(* After the last block the file is cut off.                               *)
LEMMA MoveEnds ==
  ASSUME NEW s \in LrRecords, NEW p, Layout(p, s.lines, s.orig), NEW k, NEW K, NEW c, LrMoving(s, p, k, K, c),
         s.keep = <<>>, NEW t, t = [s EXCEPT !.pc = "done", !.file = SubSeq(@, 1, s.wpos)]
  PROVE  t \in LrRecords /\ t.pc = "done" /\ LrDone(t)
<1> DEFINE n == Len(s.lines)
           N == Len(s.orig)
           f == s.file
           w == s.wpos
           S == ValidLines(s.lines, k)
<1>0. /\ s.lines \in Seq(LogLines) /\ s.orig \in Seq(LrBytes) /\ f \in Seq(LrBytes) /\ w \in Nat
      /\ n \in Nat /\ N \in Nat
  BY LrFields
<1>1. /\ k \in 1..(n + 1) /\ LrSuits(s, k) /\ Keeps(K, s.lines, S) /\ FlattenSeq(KeptPieces(s.lines, S)) = K[n]
      /\ c \in 0..n /\ k <= c + 1 /\ Blocks(p, s.lines, <<>>, c + 1)
      /\ Len(f) = N /\ w = Len(K[c]) /\ w <= p[c]
      /\ \A x \in 1..w : f[x] = K[c][x]
  BY DEF LrMoving
<1>2. \A i \in (c + 1)..n : i \notin S
  <2>1. ValidLines(s.lines, c + 1) = {}
    BY <1>1, NoBlocks
  <2> QED
    BY <2>1 DEF ValidLines
<1>3. n \in c..n
  BY <1>0, <1>1
<1>4. K[n] = K[c] /\ K[c] \in Seq(LrBytes)
  <2>1. K[n] = K[c]
    BY <1>0, <1>1, <1>2, <1>3, KeptGap, SMTT(60)
  <2>2. K[c] \in Seq(LrBytes)
    BY <1>0, <1>1, KeepsStep
  <2> QED
    BY <2>1, <2>2
<1>5. w \in 0..Len(f)
  <2>1. n \in 0..n /\ c <= n /\ p[n] = N
    BY <1>0, <1>1, LayoutIs
  <2>2. p[c] <= p[n] /\ p[c] \in Nat
    BY <1>0, <1>1, <2>1, LayoutOrder
  <2> QED
    BY <1>0, <1>1, <2>1, <2>2
<1>6. SubSeq(f, 1, w) \in Seq(LrBytes) /\ SubSeq(f, 1, w) = K[c]
  <2> DEFINE u == SubSeq(f, 1, w)
             r == K[c]
  <2>1. /\ u \in Seq(LrBytes) /\ Len(u) = (IF 1 <= w THEN w - 1 + 1 ELSE 0)
        /\ \A x \in 1..(w - 1 + 1) : u[x] = f[1 + x - 1]
    BY <1>0, <1>5, SubSeqType
  <2> HIDE DEF u, f, w, r
  <2>2. Len(u) = w /\ w - 1 + 1 = w /\ \A x \in 1..w : 1 + x - 1 = x
    BY <1>0, <2>1
  <2>3. \A x \in 1..w : u[x] = r[x]
    BY <1>1, <2>1, <2>2 DEF r
  <2>4. Len(r) = w /\ r \in Seq(LrBytes)
    BY <1>1, <1>4 DEF r
  <2>5. u = r
    BY <2>1, <2>2, <2>3, <2>4, SeqEqual
  <2> QED
    BY <2>1, <2>5 DEF u, r
<1>7. t \in LrRecords /\ t.pc = "done" /\ t.file = K[n] /\ t.lines = s.lines /\ t.p = s.p
  BY <1>4, <1>6 DEF LrRecords
<1>8. LrSuits(t, k)
  BY <1>1, <1>7 DEF LrSuits, LrRecent
<1>9. LrDone(t)
  BY <1>1, <1>7, <1>8 DEF LrDone
<1> QED
  BY <1>7, <1>9

(* What was chosen: nothing, everything, or the blocks to move.            *)
AfterChoice(s) ==
  IF s.keep = <<>> THEN [s EXCEPT !.pc = "done", !.file = <<>>]
  ELSE [s EXCEPT !.pc = IF s.nkeep = Len(s.orig) THEN "done" ELSE "move"]

LEMMA ChosenStep ==
  ASSUME NEW s \in LrRecords, NEW p, Layout(p, s.lines, s.orig), NEW j, LrChosen(s, p, j), NEW t,
         t = AfterChoice(s)
  PROVE  /\ t \in LrRecords /\ t.lines = s.lines /\ t.orig = s.orig
         /\ (t.pc = "done" /\ LrDone(t)) \/ (t.pc = "move" /\ \E k, K, c : LrMoving(t, p, k, K, c))
<1> DEFINE n == Len(s.lines)
           N == Len(s.orig)
           k == j + 1
           S == ValidLines(s.lines, k)
<1>0. s.lines \in Seq(LogLines) /\ s.orig \in Seq(LrBytes) /\ n \in Nat /\ N \in Nat /\ s.nkeep \in Nat
  BY LrFields
<1>1. /\ j \in 0..n /\ s.file = s.orig /\ s.wpos = 0 /\ Blocks(p, s.lines, s.keep, k) /\ LrSuits(s, k)
      /\ s.nkeep <= N - p[j] /\ (s.nkeep = N - p[j] => \A i \in k..n : i \in ValidLines(s.lines, 1))
  BY DEF LrChosen, LrAll
<1>2. k \in 1..(n + 1) /\ j \in Nat /\ 0 \in 0..n /\ n \in 0..n /\ j \in 0..j /\ n \in j..n
  BY <1>0, <1>1
<1>3. PICK K : Keeps(K, s.lines, S) /\ FlattenSeq(KeptPieces(s.lines, S)) = K[n]
  BY <1>0, KeepsExist
<1>4. K[j] = <<>>
  <2>1. \A i \in (0 + 1)..j : i \notin S
    <3>1. \A i \in (0 + 1)..j : i \notin k..n
      BY <1>2
    <3> QED
      BY <3>1 DEF ValidLines
  <2>2. K[j] = K[0]
    BY <1>0, <1>1, <1>2, <1>3, <2>1, KeptGap, SMTT(60)
  <2>3. K[0] = <<>>
    BY <1>0, <1>3, KeepsStep
  <2> QED
    BY <2>2, <2>3
<1>5. p[j] \in Nat /\ p[0] = 0 /\ p[n] = N /\ (j = 0 <=> p[j] = p[0])
  <2>1. p[0] = 0 /\ p[n] = N
    BY <1>0, LayoutIs
  <2> QED
    BY <1>0, <1>1, <1>2, <2>1, LayoutOrder
<1>6. <<>> \in Seq(LrBytes)
  OBVIOUS
<1>7. CASE s.keep = <<>>
  <2>1. t = [s EXCEPT !.pc = "done", !.file = <<>>]
    BY <1>7 DEF AfterChoice
  <2>2. t \in LrRecords /\ t.pc = "done" /\ t.file = <<>> /\ t.lines = s.lines /\ t.p = s.p /\ t.orig = s.orig
    BY <1>6, <2>1 DEF LrRecords
  <2>3. \A i \in (j + 1)..n : i \notin S
    <3>1. S = {}
      BY <1>1, <1>7, NoBlocks
    <3> QED
      BY <3>1
  <2>4. K[n] = K[j]
    BY <1>0, <1>1, <1>2, <1>3, <2>3, KeptGap, SMTT(60)
  <2>5. LrSuits(t, k)
    BY <1>1, <2>2 DEF LrSuits, LrRecent
  <2>6. LrDone(t)
    BY <1>2, <1>3, <1>4, <2>2, <2>4, <2>5 DEF LrDone
  <2> QED
    BY <2>2, <2>6
<1>8. CASE s.keep # <<>> /\ s.nkeep = N
  <2>1. t = [s EXCEPT !.pc = "done"]
    BY <1>8 DEF AfterChoice
  <2>2. t \in LrRecords /\ t.pc = "done" /\ t.file = s.orig /\ t.lines = s.lines /\ t.p = s.p /\ t.orig = s.orig
    BY <1>1, <2>1 DEF LrRecords
  <2>3. p[j] = 0
    BY <1>0, <1>1, <1>5, <1>8
  <2>4. j = 0 /\ s.nkeep = N - p[j]
    BY <1>0, <1>5, <1>8, <2>3
  <2>5. \A i \in (0 + 1)..n : i \in S
    <3>1. \A i \in 1..n : i \in ValidLines(s.lines, 1)
      BY <1>1, <2>4
    <3> QED
      BY <2>4, <3>1
  <2>6. InBlock(K, p, s.orig, 0, n)
    <3> DEFINE z == 0
    <3>1. z \in 0..n /\ n \in z..n /\ \A i \in (z + 1)..n : i \in S
      BY <1>0, <2>5
    <3> HIDE DEF z
    <3>2. InBlock(K, p, s.orig, z, n)
      BY <1>0, <1>3, <3>1, KeptBlock
    <3> QED
      BY <3>2 DEF z
  <2>7. K[n] = s.orig
    <3> DEFINE r == K[n]
               o == s.orig
    <3>1. K[0] = <<>> /\ r \in Seq(LrBytes)
      BY <1>0, <1>2, <1>3, KeepsStep
    <3>2. Len(<<>>) = 0
      OBVIOUS
    <3>3. Len(r) = 0 + (N - 0) /\ \A x \in 1..(N - 0) : r[0 + x] = o[0 + x]
      BY <1>5, <2>6, <3>1, <3>2 DEF InBlock
    <3> HIDE DEF r
    <3>4. Len(r) = N /\ N - 0 = N /\ \A x \in 1..N : 0 + x = x
      BY <1>0, <3>3
    <3>5. \A x \in 1..N : r[x] = o[x]
      BY <3>3, <3>4
    <3>6. Len(o) = N /\ o \in Seq(LrBytes)
      BY <1>0
    <3> HIDE DEF o, N
    <3>7. r = o
      BY <3>1, <3>4, <3>5, <3>6, SeqEqual
    <3> QED
      BY <3>7 DEF r, o
  <2>8. LrSuits(t, k)
    BY <1>1, <2>2 DEF LrSuits, LrRecent
  <2>9. LrDone(t)
    BY <1>2, <1>3, <2>2, <2>7, <2>8 DEF LrDone
  <2> QED
    BY <2>2, <2>9
<1>9. CASE s.keep # <<>> /\ s.nkeep # N
  <2>1. t = [s EXCEPT !.pc = "move"]
    BY <1>9 DEF AfterChoice
  <2>2. /\ t \in LrRecords /\ t.pc = "move" /\ t.file = s.orig /\ t.lines = s.lines /\ t.p = s.p /\ t.orig = s.orig
        /\ t.wpos = 0 /\ t.keep = s.keep
    BY <1>1, <2>1 DEF LrRecords
  <2>3. LrSuits(t, k)
    BY <1>1, <2>2 DEF LrSuits, LrRecent
  <2>4. Len(K[j]) = 0
    BY <1>4
  <2>5. \A x \in 1..0 : s.orig[x] = K[j][x]
    OBVIOUS
  <2>6. k <= j + 1 /\ 0 <= p[j]
    BY <1>2, <1>5
  <2>7. LrMoving(t, p, k, K, j)
    BY <1>1, <1>2, <1>3, <2>2, <2>3, <2>4, <2>5, <2>6 DEF LrMoving
  <2> QED
    BY <2>2, <2>7
<1> QED
  BY <1>7, <1>8, <1>9

(* What the loop's body makes of the line that was read.                   *)
LEMMA TakeStep ==
  ASSUME lr \in LrRecords, NEW p, Layout(p, lr.lines, lr.orig), NEW j \in 1..Len(lr.lines), LrTaken(lr, p, j),
         lr.pc = "scan", NEW line, line = TakenText(lr.orig, p, j),
         NEW chunk \in Seq(LrBytes), TakeLine(line, chunk)
  PROVE  /\ lr' \in LrRecords /\ lr'.lines = lr.lines /\ lr'.orig = lr.orig
         /\ lr'.offset = lr.offset /\ lr'.chunk = chunk
         /\ (lr'.pc = "scan" /\ LrTaken(lr', p, j - 1)) \/ (lr'.pc = "chosen" /\ LrChosen(lr', p, j))
<1> DEFINE n == Len(lr.lines)
           N == Len(lr.orig)
           l == Len(lr.keep)
           size == Len(line) + 1
           pos == N - lr.nread - size
           T == ParseLogTime(lr.lines[j])
           u == p[j - 1]
           v == p[j]
           i == j - 1
           V == ValidLines(lr.lines, j + 1)
           W == InvalidLines(lr.lines, j + 1)
           seen == [lr EXCEPT !.nread = @ + size, !.chunk = chunk]
           new == IF lr.lastValid THEN Merge(size, pos) ELSE Append(lr.keep, [pos |-> pos, size |-> size])
           kept == [seen EXCEPT !.keep = new, !.nkeep = @ + size, !.nlines = @ + 1, !.lastValid = TRUE]
<1>0. /\ lr.lines \in Seq(LogLines) /\ lr.orig \in Seq(LrBytes) /\ lr.keep \in Seq(BlockType)
      /\ lr.nread \in Nat /\ lr.nkeep \in Nat /\ lr.nlines \in Nat /\ lr.ninvalid \in Nat
      /\ lr.p.last \in Nat /\ lr.p.days \in Nat /\ n \in Nat /\ N \in Nat /\ lr.lastValid \in BOOLEAN /\ l \in Nat
  BY LrFields
<1>1. /\ lr.file = lr.orig /\ lr.wpos = 0 /\ lr.nread = N - v
      /\ Blocks(p, lr.lines, lr.keep, j + 1)
      /\ (lr.lastValid = TRUE => lr.keep # <<>> /\ lr.keep[l].pos = v)
      /\ lr.nkeep <= N - v /\ (lr.nkeep = N - v => \A x \in (j + 1)..n : x \in ValidLines(lr.lines, 1))
      /\ lr.nlines = Cardinality(V) /\ lr.ninvalid = Cardinality(W)
      /\ (lr.p.last > 0 => lr.nlines - lr.ninvalid <= lr.p.last)
      /\ (~(lr.p.last > 0) => \A x \in V : LrRecent(lr, x))
  BY DEF LrTaken, LrAll
<1>2. i \in 0..n /\ j \in 0..n /\ i + 1 = j /\ i < j /\ j \in j..n /\ j \in 1..(n + 1) /\ j + 1 \in 1..(n + 1)
  <2>1. n \in Nat /\ j \in 1..n
    BY <1>0
  <2> HIDE DEF n
  <2> QED
    BY ONLY <2>1 DEF i
<1>3. u \in Nat /\ v \in Nat /\ u < v /\ v <= N
  <2>1. u \in Nat /\ v \in Nat /\ u < v
    BY <1>0, <1>2, LayoutOrder
  <2>2. n \in 0..n /\ j <= n /\ p[n] = N
    BY <1>0, LayoutIs, SMTT(60)
  <2>3. p[j] <= p[n]
    BY <1>0, <1>2, <2>2, LayoutOrder
  <2> QED
    BY <2>1, <2>2, <2>3
<1>4. size = v - u /\ line[1][1] = j
  <2>1. lr.lines \in Seq(LogLines) /\ lr.orig \in Seq(LrBytes) /\ Layout(p, lr.lines, lr.orig) /\ j \in 1..Len(lr.lines)
    BY <1>0
  <2>2. Len(TakenText(lr.orig, p, j)) + 1 = p[j] - p[j - 1] /\ TakenText(lr.orig, p, j)[1][1] = j
    BY ONLY <2>1, TakenLine
  <2> QED
    BY <2>2
<1>5. T \in Nat
  BY <1>0, TimesAreNatural
<1> HIDE DEF size
<1>6. pos = u /\ size \in Nat
  <2>1. /\ lr.nread = N - v /\ size = v - u /\ N \in Nat /\ u \in Nat /\ v \in Nat /\ u < v
    BY <1>0, <1>1, <1>3, <1>4
  <2> HIDE DEF N, u, v
  <2> QED
    BY ONLY <2>1 DEF pos
<1>7. lr' = CASE T = 0 -> [seen EXCEPT !.ninvalid = @ + 1, !.lastValid = FALSE]
              [] T # 0 /\ ShouldStop(T) -> [seen EXCEPT !.pc = "chosen"]
              [] OTHER -> kept
  BY <1>4 DEF TakeLine, size
<1>8. lr.nread + size \in Nat
  BY <1>0, <1>6, SMTT(60)
<1>9. /\ seen \in LrRecords /\ seen.pc = "scan" /\ seen.p = lr.p /\ seen.lines = lr.lines /\ seen.file = lr.file /\ seen.orig = lr.orig
      /\ seen.offset = lr.offset /\ seen.chunk = chunk /\ seen.keep = lr.keep /\ seen.lastValid = lr.lastValid
      /\ seen.nread = lr.nread + size /\ seen.nkeep = lr.nkeep /\ seen.nlines = lr.nlines /\ seen.ninvalid = lr.ninvalid
      /\ seen.wpos = lr.wpos
  BY <1>8 DEF LrRecords
<1>10. lr.nread + size = N - u
  <2>1. /\ lr.nread = N - v /\ size = v - u /\ N \in Nat /\ u \in Nat /\ v \in Nat
    BY <1>1, <1>0, <1>3, <1>4
  <2> HIDE DEF N, u, v
  <2> QED
    BY ONLY <2>1
<1>c. /\ Cardinality(V) \in Nat /\ Cardinality(W) \in Nat
      /\ (T = 0 => ValidLines(lr.lines, j) = V /\ Cardinality(InvalidLines(lr.lines, j)) = Cardinality(W) + 1)
      /\ (T # 0 => /\ ValidLines(lr.lines, j) = V \cup {j} /\ Cardinality(ValidLines(lr.lines, j)) = Cardinality(V) + 1
                   /\ InvalidLines(lr.lines, j) = W)
  BY <1>0, CountLines
<1> HIDE DEF seen, new, V, W, T, u, v, pos
<1>11. CASE T = 0
  <2> DEFINE t == [seen EXCEPT !.ninvalid = @ + 1, !.lastValid = FALSE]
  <2>1. lr' = t
    BY <1>7, <1>11
  <2>2. /\ t \in LrRecords /\ t.pc = "scan" /\ t.p = lr.p /\ t.lines = lr.lines /\ t.file = lr.file /\ t.orig = lr.orig
        /\ t.offset = lr.offset /\ t.chunk = chunk /\ t.keep = lr.keep /\ t.lastValid = FALSE
        /\ t.nread = N - u /\ t.nkeep = lr.nkeep /\ t.nlines = lr.nlines /\ t.ninvalid = lr.ninvalid + 1 /\ t.wpos = lr.wpos
    <3>1. lr.ninvalid + 1 \in Nat
      BY <1>0
    <3>2. /\ t \in LrRecords /\ t.pc = "scan" /\ t.p = seen.p /\ t.lines = seen.lines /\ t.file = seen.file /\ t.orig = seen.orig
          /\ t.offset = seen.offset /\ t.chunk = seen.chunk /\ t.keep = seen.keep /\ t.lastValid = FALSE
          /\ t.nread = seen.nread /\ t.nkeep = seen.nkeep /\ t.nlines = seen.nlines /\ t.ninvalid = lr.ninvalid + 1 /\ t.wpos = seen.wpos
      BY <1>9, <3>1 DEF LrRecords
    <3> QED
      BY <1>9, <1>10, <3>2
  <2> HIDE DEF t
  <2>3. Blocks(p, lr.lines, lr.keep, j)
    BY <1>0, <1>1, <1>11, BlocksSkip DEF T
  <2>4. LrAll(t, p, i)
    <3>1. lr.nkeep <= N - u /\ lr.nkeep # N - u
      <4>1. lr.nkeep \in Nat /\ N \in Nat /\ lr.nkeep <= N - v /\ u \in Nat /\ v \in Nat /\ u < v
        BY <1>0, <1>1, <1>3
      <4> HIDE DEF N
      <4> QED
        BY ONLY <4>1
    <3> QED
      BY <2>2, <3>1 DEF LrAll, u
  <2>5. t.nlines = Cardinality(ValidLines(t.lines, j)) /\ t.ninvalid = Cardinality(InvalidLines(t.lines, j))
    BY <1>1, <1>11, <1>c, <2>2
  <2>6. t.p.last > 0 => t.nlines - t.ninvalid <= t.p.last
    BY <1>0, <1>1, <2>2
  <2>7. ~(t.p.last > 0) => \A x \in ValidLines(t.lines, j) : LrRecent(t, x)
    BY <1>1, <1>11, <1>c, <2>2 DEF LrRecent
  <2>8. t.lastValid # TRUE
    BY <2>2
  <2>9. LrTaken(t, p, i)
    BY <1>1, <1>2, <2>2, <2>3, <2>4, <2>5, <2>6, <2>7, <2>8 DEF LrTaken, u
  <2> QED
    BY <2>1, <2>2, <2>9
<1>12. CASE T # 0 /\ ShouldStop(T)
  <2> DEFINE t == [seen EXCEPT !.pc = "chosen"]
  <2>1. lr' = t
    BY <1>7, <1>12
  <2>2. /\ t \in LrRecords /\ t.pc = "chosen" /\ t.p = lr.p /\ t.lines = lr.lines /\ t.file = lr.file /\ t.orig = lr.orig
        /\ t.offset = lr.offset /\ t.chunk = chunk /\ t.keep = lr.keep /\ t.nkeep = lr.nkeep /\ t.wpos = lr.wpos
    BY <1>9 DEF LrRecords
  <2> HIDE DEF t
  <2>3. LrAll(t, p, j)
    BY <1>1, <2>2 DEF LrAll, v
  <2>4. LrSuits(t, j + 1)
    <3>1. CASE lr.p.last > 0
      <4>1. lr.nlines - lr.ninvalid = lr.p.last
        BY <1>12, <3>1 DEF ShouldStop
      <4> DEFINE J == Cardinality(InvalidLines(lr.lines, 1))
      <4>2. J \in Nat /\ Cardinality(W) <= J
        BY <1>0, <1>2, CountInvalid DEF W
      <4> HIDE DEF J
      <4>3. Cardinality(V) >= lr.p.last /\ Cardinality(V) <= lr.p.last + J
        BY <1>0, <1>1, <1>c, <4>1, <4>2, SMTT(60)
      <4> QED
        BY <2>2, <3>1, <4>3 DEF LrSuits, V, J
    <3>2. CASE ~(lr.p.last > 0)
      <4>1. T < Now - lr.p.days + 1
        BY <1>12, <3>2 DEF ShouldStop
      <4>2. ~(T >= Now - lr.p.days + 1)
        BY <1>0, <1>5, <4>1, LogRotateAssumption, SMTT(60)
      <4>3. (j + 1) - 1 = j
        BY <1>0
      <4>4. T # 0 /\ ~LrRecent(t, j)
        BY <1>12, <2>2, <4>2 DEF LrRecent, T
      <4>5. \A x \in ValidLines(t.lines, j + 1) : LrRecent(t, x)
        BY <1>1, <2>2, <3>2 DEF LrRecent, V
      <4> QED
        BY <2>2, <3>2, <4>3, <4>4, <4>5 DEF LrSuits, T
    <3> QED
      BY <3>1, <3>2
  <2>5. LrChosen(t, p, j)
    BY <1>1, <1>2, <2>2, <2>3, <2>4 DEF LrChosen
  <2> QED
    BY <2>1, <2>2, <2>5
<1>13. CASE T # 0 /\ ~ShouldStop(T)
  <2>1. lr' = kept
    BY <1>7, <1>13
  <2>2. Blocks(p, lr.lines, new, j) /\ new \in Seq(BlockType) /\ new # <<>> /\ new[Len(new)].pos = u
    <3>1. CASE lr.lastValid = TRUE
      <4>1. new = [lr.keep EXCEPT ![l] = [pos |-> @.pos - size, size |-> @.size + size]]
        BY <3>1 DEF new, Merge
      <4>2. lr.keep # <<>> /\ lr.keep[l].pos = v
        BY <1>1, <3>1
      <4>3. l \in 1..l
        <5>1. Len(lr.keep) \in Nat \ {0}
          BY <1>0, <4>2, EmptySeq
        <5> QED
          BY <5>1
      <4>a. lr.keep \in [1..l -> BlockType]
        BY <1>0
      <4>b. l = Len(lr.keep)
        OBVIOUS
      <4> HIDE DEF l
      <4>4. lr.keep[l].pos \in Nat /\ lr.keep[l].size \in Nat
        BY <4>3, <4>a DEF BlockType
      <4> DEFINE bl == [pos |-> lr.keep[l].pos - size, size |-> lr.keep[l].size + size]
      <4>5. bl \in BlockType /\ bl.pos = u /\ bl.pos + bl.size = lr.keep[l].pos + lr.keep[l].size
        <5>1. v - size = u
          BY <1>3, <1>4 DEF u, v
        <5>2. lr.keep[l].size + size \in Nat
          BY <1>6, <4>4
        <5>3. bl.pos = u /\ bl.size = lr.keep[l].size + size
          BY <4>2, <5>1
        <5>4. bl \in BlockType
          BY <1>3, <4>2, <5>1, <5>2 DEF BlockType
        <5> DEFINE y == lr.keep[l].size
        <5>5. y \in Nat /\ size \in Nat /\ u \in Nat /\ v \in Nat /\ v - size = u
          BY <1>3, <1>6, <4>4, <5>1
        <5> HIDE DEF y
        <5>6. u + (y + size) = v + y
          BY ONLY <5>5
        <5> QED
          BY <4>2, <5>3, <5>4, <5>6 DEF y
      <4>6. new = [lr.keep EXCEPT ![l] = bl]
        BY <4>1
      <4> HIDE DEF bl
      <4>7. new \in [1..l -> BlockType] /\ new[l] = bl /\ \A m \in 1..l : m # l => new[m] = lr.keep[m]
        BY <4>3, <4>5, <4>6, <4>a
      <4>8. new \in Seq(BlockType) /\ Len(new) = l
        BY <4>3, <4>7
      <4>9. Blocks(p, lr.lines, new, j)
        <5>1. /\ lr.lines \in Seq(LogLines) /\ Layout(p, lr.lines, lr.orig) /\ j \in 1..Len(lr.lines)
              /\ Blocks(p, lr.lines, lr.keep, j + 1) /\ ParseLogTime(lr.lines[j]) # 0
              /\ lr.keep # <<>> /\ lr.keep[Len(lr.keep)].pos = p[j] /\ new \in Seq(BlockType) /\ Len(new) = Len(lr.keep)
              /\ \A m \in 1..Len(lr.keep) : m # Len(lr.keep) => new[m] = lr.keep[m]
              /\ new[Len(lr.keep)].pos = p[j - 1]
              /\ new[Len(lr.keep)].pos + new[Len(lr.keep)].size = lr.keep[Len(lr.keep)].pos + lr.keep[Len(lr.keep)].size
          BY <1>0, <1>1, <1>13, <4>2, <4>5, <4>7, <4>8, <4>b DEF T, u, v
        <5> QED
          BY ONLY <5>1, BlocksMerge
      <4>10. new # <<>>
        BY <4>3, <4>8
      <4> QED
        BY <4>5, <4>7, <4>8, <4>9, <4>10
    <3>2. CASE lr.lastValid = FALSE
      <4> DEFINE bl == [pos |-> u, size |-> v - u]
      <4>1. new = Append(lr.keep, bl)
        BY <1>4, <1>6, <3>2 DEF new
      <4>2. bl \in BlockType /\ bl.pos = u
        BY <1>3 DEF BlockType
      <4>3. Blocks(p, lr.lines, new, j)
        BY <1>0, <1>1, <1>13, <4>1, BlocksAppend DEF T, u, v
      <4> HIDE DEF bl
      <4>4. new \in Seq(BlockType) /\ Len(new) = l + 1 /\ new[l + 1] = bl
        BY <1>0, <4>1, <4>2
      <4>5. new # <<>>
        BY <1>0, <4>4
      <4> QED
        BY <4>2, <4>3, <4>4, <4>5
    <3> QED
      BY <1>0, <3>1, <3>2
  <2>3. lr.nkeep + size \in Nat /\ lr.nlines + 1 \in Nat
    <3>1. lr.nkeep \in Nat /\ size \in Nat /\ lr.nlines \in Nat
      BY <1>0, <1>6
    <3> QED
      BY ONLY <3>1
  <2>4. /\ kept \in LrRecords /\ kept.pc = "scan" /\ kept.p = lr.p /\ kept.lines = lr.lines /\ kept.file = lr.file /\ kept.orig = lr.orig
        /\ kept.offset = lr.offset /\ kept.chunk = chunk /\ kept.keep = new
        /\ kept.nread = N - u /\ kept.nkeep = lr.nkeep + size /\ kept.nlines = lr.nlines + 1 /\ kept.ninvalid = lr.ninvalid /\ kept.wpos = lr.wpos
    BY <1>9, <1>10, <2>2, <2>3 DEF LrRecords
  <2> HIDE DEF kept
  <2>5. LrAll(kept, p, i)
    <3>1. lr.nkeep + size <= N - u /\ (lr.nkeep + size = N - u => lr.nkeep = N - v)
      <4>1. lr.nkeep \in Nat /\ N \in Nat /\ lr.nkeep <= N - v /\ u \in Nat /\ v \in Nat /\ size = v - u
        BY <1>0, <1>1, <1>3, <1>4 DEF u, v
      <4> HIDE DEF N
      <4> QED
        BY ONLY <4>1
    <3>2. j \in ValidLines(lr.lines, 1)
      BY <1>13 DEF ValidLines, T
    <3>3. \A x \in j..n : x = j \/ x \in (j + 1)..n
      BY <1>0
    <3>4. lr.nkeep + size = N - u => \A x \in j..n : x \in ValidLines(lr.lines, 1)
      BY <1>1, <3>1, <3>2, <3>3
    <3> QED
      BY <1>2, <2>4, <3>1, <3>4 DEF LrAll, u
  <2>6. kept.nlines = Cardinality(ValidLines(kept.lines, j)) /\ kept.ninvalid = Cardinality(InvalidLines(kept.lines, j))
    BY <1>1, <1>13, <1>c, <2>4
  <2>7. kept.p.last > 0 => kept.nlines - kept.ninvalid <= kept.p.last
    <3>1. ASSUME lr.p.last > 0 PROVE lr.nlines - lr.ninvalid # lr.p.last
      BY <1>13, <3>1 DEF ShouldStop
    <3>2. /\ lr.p.last \in Nat /\ lr.nlines \in Nat /\ lr.ninvalid \in Nat
          /\ (lr.p.last > 0 => lr.nlines - lr.ninvalid <= lr.p.last /\ lr.nlines - lr.ninvalid # lr.p.last)
      BY <1>0, <1>1, <3>1
    <3>3. lr.p.last > 0 => (lr.nlines + 1) - lr.ninvalid <= lr.p.last
      BY ONLY <3>2
    <3> QED
      BY <2>4, <3>3
  <2>8. ~(kept.p.last > 0) => \A x \in ValidLines(kept.lines, j) : LrRecent(kept, x)
    <3> SUFFICES ASSUME ~(lr.p.last > 0), NEW x \in V \cup {j} PROVE LrRecent(kept, x)
      BY <1>13, <1>c, <2>4
    <3>1. CASE x \in V
      BY <1>1, <2>4, <3>1 DEF LrRecent
    <3>2. CASE x = j
      <4>1. ~(T < Now - lr.p.days + 1)
        BY <1>13 DEF ShouldStop
      <4>2. T >= Now - lr.p.days + 1
        <5>1. lr.p.days \in Nat /\ T \in Nat /\ Now \in Int /\ ~(T < Now - lr.p.days + 1)
          BY <1>0, <1>5, <4>1, LogRotateAssumption
        <5> QED
          BY ONLY <5>1
      <4> QED
        BY <2>4, <3>2, <4>2 DEF LrRecent, T
    <3> QED
      BY <3>1, <3>2
  <2>9. LrTaken(kept, p, i)
    BY <1>1, <1>2, <2>2, <2>4, <2>5, <2>6, <2>7, <2>8 DEF LrTaken, u
  <2> QED
    BY <2>1, <2>4, <2>9
<1> QED
  BY <1>11, <1>12, <1>13

LEMMA PoliciesParse ==
  ASSUME NEW r \in Retentions
  PROVE  ParseRetention(r) \in LrPolicies
<1>1. r.n \in Nat
  BY LogRotateAssumption
<1>2. (IF r.unit = "last" THEN r.n ELSE 0) \in Nat
  BY <1>1
<1>3. (CASE r.unit = "days" -> r.n [] r.unit = "weeks" -> 7 * r.n
         [] r.unit = "months" -> 30 * r.n [] OTHER -> 0) \in Nat
  <2>1. 7 * r.n \in Nat /\ 30 * r.n \in Nat
    BY <1>1
  <2>2. CASE r.unit = "days"
    BY <1>1, <2>2
  <2>3. CASE r.unit = "weeks"
    BY <2>1, <2>3
  <2>4. CASE r.unit = "months"
    BY <2>1, <2>4
  <2>5. CASE r.unit # "days" /\ r.unit # "weeks" /\ r.unit # "months"
    BY <2>5
  <2> QED
    BY <2>2, <2>3, <2>4, <2>5
<1>4. (IF r.unit \in DOMAIN SizeOf THEN r.n * SizeOf[r.unit] ELSE 0) \in Nat
  <2>1. ASSUME r.unit \in DOMAIN SizeOf PROVE r.n * SizeOf[r.unit] \in Nat
    <3> DEFINE y == SizeOf[r.unit]
               x == r.n
    <3>1. x \in Nat /\ y \in Nat
      BY <1>1, <2>1, LogRotateAssumption
    <3> HIDE DEF x, y
    <3>2. x * y \in Nat
      BY ONLY <3>1
    <3> QED
      BY <3>2 DEF x, y
  <2> QED
    BY <2>1
<1> QED
  BY <1>2, <1>3, <1>4 DEF ParseRetention, LrPolicies

LEMMA StartStep ==
  ASSUME StartRotate
  PROVE  LrOk(lr')
<1>1. PICK lines \in UNION {[1..m -> LogLines] : m \in 0..MaxLogLines}, r \in Retentions :
        LET p == ParseRetention(r)
            bytes == BytesOf(lines)
            state == [pc |-> "done", p |-> p, lines |-> lines, file |-> bytes, orig |-> bytes,
                      offset |-> Len(bytes), chunk |-> << >>, keep |-> << >>, lastValid |-> FALSE,
                      nread |-> 0, nkeep |-> 0, nlines |-> 0, ninvalid |-> 0, wpos |-> 0] IN
        lr' = IF ~IsValid(p) \/ bytes = << >> THEN state
              ELSE IF p.keep > 0 THEN BySize(state)
              ELSE [state EXCEPT !.pc = "scan"]
  BY DEF StartRotate
<1> DEFINE pol == ParseRetention(r)
           bytes == BytesOf(lines)
           state == [pc |-> "done", p |-> pol, lines |-> lines, file |-> bytes, orig |-> bytes,
                     offset |-> Len(bytes), chunk |-> << >>, keep |-> << >>, lastValid |-> FALSE,
                     nread |-> 0, nkeep |-> 0, nlines |-> 0, ninvalid |-> 0, wpos |-> 0]
           n == Len(lines)
<1>2. lines \in Seq(LogLines) /\ n \in Nat
  <2>1. PICK m \in 0..MaxLogLines : lines \in [1..m -> LogLines]
    OBVIOUS
  <2>2. m \in Nat
    BY LogRotateAssumption
  <2> QED
    BY <2>1, <2>2
<1>3. pol \in LrPolicies
  BY PoliciesParse
<1>4. PICK q : Layout(q, lines, bytes) /\ bytes \in Seq(LrBytes)
  BY <1>2, LayoutExists
<1>5. lr' = IF ~IsValid(pol) \/ bytes = << >> THEN state
            ELSE IF pol.keep > 0 THEN BySize(state)
            ELSE [state EXCEPT !.pc = "scan"]
  BY <1>1
<1> HIDE DEF pol, bytes
<1>6. <<>> \in Seq(LrBytes) /\ <<>> \in Seq(BlockType) /\ Len(bytes) \in Nat /\ Len(<<>>) = 0
  <2>1. <<>> \in Seq(LrBytes) /\ <<>> \in Seq(BlockType) /\ Len(<<>>) = 0
    OBVIOUS
  <2> QED
    BY <1>4, <2>1
<1>7. /\ state \in LrRecords /\ state.pc = "done" /\ state.p = pol /\ state.lines = lines /\ state.file = bytes /\ state.orig = bytes
      /\ state.offset = Len(bytes) /\ state.chunk = <<>> /\ state.keep = <<>> /\ state.lastValid = FALSE
      /\ state.nread = 0 /\ state.nkeep = 0 /\ state.nlines = 0 /\ state.ninvalid = 0 /\ state.wpos = 0
  BY <1>2, <1>3, <1>4, <1>6 DEF LrRecords
<1> HIDE DEF state
<1>8. q[0] = 0 /\ q[n] = Len(bytes) /\ q[n] \in Nat /\ n \in 0..n /\ 0 \in 0..n /\ (n = 0 <=> q[n] = q[0])
  <2>1. n \in 0..n /\ 0 \in 0..n
    BY <1>2
  <2>2. q[0] = 0 /\ q[n] = Len(bytes)
    BY <1>2, <1>4, LayoutIs
  <2>3. q[n] \in Nat /\ (n = 0 <=> q[n] = q[0])
    BY <1>2, <1>4, <2>1, LayoutOrder
  <2> QED
    BY <2>1, <2>2, <2>3
<1>9. ASSUME NEW m \in Nat, m > n
      PROVE  /\ ValidLines(lines, m) = {} /\ InvalidLines(lines, m) = {}
             /\ Cardinality(ValidLines(lines, m)) = 0 /\ Cardinality(InvalidLines(lines, m)) = 0
  <2>1. m..n = {}
    BY <1>2, <1>9
  <2>2. ValidLines(lines, m) = {} /\ InvalidLines(lines, m) = {}
    BY <2>1 DEF ValidLines, InvalidLines
  <2>3. Cardinality({}) = 0
    BY FS_EmptySet
  <2> QED
    BY <2>2, <2>3
<1>10. CASE ~IsValid(pol)
  <2>1. lr' = state
    BY <1>5, <1>10
  <2>2. LrDone(lr')
    BY <1>7, <1>10, <2>1 DEF LrDone
  <2> QED
    BY <1>7, <2>1, <2>2 DEF LrOk
<1>11. CASE IsValid(pol) /\ bytes = <<>>
  <2>1. lr' = state
    BY <1>5, <1>11
  <2>2. n = 0
    BY <1>6, <1>8, <1>11
  <2>3. PICK K : Keeps(K, lines, ValidLines(lines, 1)) /\ FlattenSeq(KeptPieces(lines, ValidLines(lines, 1))) = K[n]
    BY <1>2, KeepsExist
  <2>4. K[n] = <<>>
    <3>1. lines \in Seq(LogLines) /\ Keeps(K, lines, ValidLines(lines, 1))
      BY <1>2, <2>3
    <3>2. K[0] = <<>>
      BY ONLY <3>1, KeepsStep
    <3> QED
      BY <2>2, <3>2
  <2>5. ValidLines(lines, 1) = {} /\ InvalidLines(lines, 1) = {} /\ Cardinality(ValidLines(lines, 1)) = 0 /\ Cardinality(InvalidLines(lines, 1)) = 0
    BY <1>9, <2>2
  <2>6. pol.last \in Nat
    BY <1>3 DEF LrPolicies
  <2>7. 0 <= pol.last + 0 /\ ~(1 > 1)
    BY <2>6
  <2>8. LrSuits(lr', 1)
    BY <1>7, <2>1, <2>5, <2>7 DEF LrSuits
  <2>9. 1 \in 1..(n + 1)
    BY <1>2
  <2>10. LrDone(lr')
    BY <1>7, <1>11, <2>1, <2>3, <2>4, <2>8, <2>9 DEF LrDone
  <2> QED
    BY <1>7, <2>1, <2>10 DEF LrOk
<1>12. CASE IsValid(pol) /\ bytes # <<>> /\ pol.keep > 0
  <2>1. lr' = BySize(state)
    BY <1>5, <1>12
  <2>2. pol.keep \in Nat /\ pol.keep # 0
    <3>1. pol.keep \in Nat
      BY <1>3 DEF LrPolicies
    <3> QED
      BY <1>12, <3>1
  <2>3. lr' \in LrRecords /\ lr'.pc = "done" /\ lr'.p = pol
    <3>1. CASE pol.keep >= Len(bytes)
      BY <1>7, <2>1, <3>1 DEF BySize
    <3>2. CASE ~(pol.keep >= Len(bytes))
      <4>1. lr' = [state EXCEPT !.file = SubSeq(bytes, 1, pol.keep)]
        BY <1>7, <2>1, <3>2 DEF BySize
      <4>2. pol.keep \in 0..Len(bytes) /\ 1 \in Nat \ {0}
        BY <1>6, <2>2, <3>2
      <4>3. SubSeq(bytes, 1, pol.keep) \in Seq(LrBytes)
        BY <1>4, <4>2, SubSeqType
      <4> QED
        BY <1>7, <4>1, <4>3 DEF LrRecords
    <3> QED
      BY <3>1, <3>2
  <2>4. LrDone(lr')
    BY <2>2, <2>3 DEF LrDone
  <2> QED
    BY <2>3, <2>4 DEF LrOk
<1>13. CASE IsValid(pol) /\ bytes # <<>> /\ ~(pol.keep > 0)
  <2> DEFINE t == [state EXCEPT !.pc = "scan"]
             e == Len(bytes)
  <2>1. lr' = t
    BY <1>5, <1>13
  <2>2. /\ t \in LrRecords /\ t.pc = "scan" /\ t.p = pol /\ t.lines = lines /\ t.file = bytes /\ t.orig = bytes
        /\ t.offset = e /\ t.chunk = <<>> /\ t.keep = <<>> /\ t.lastValid = FALSE
        /\ t.nread = 0 /\ t.nkeep = 0 /\ t.nlines = 0 /\ t.ninvalid = 0 /\ t.wpos = 0
    BY <1>7 DEF LrRecords
  <2> HIDE DEF t
  <2>3. e \in Nat \ {0} /\ n >= 1
    <3>1. e \in Nat \ {0}
      BY <1>4, <1>13, EmptySeq
    <3> QED
      BY <1>2, <1>8, <3>1
  <2>4. ScanAt(q, lines, bytes, e, <<>>, n, e)
    <3>1. SubSeq(bytes, e + 1, e) = <<>>
      BY <2>3, SubSeqEmpty
    <3>2. e \in 0..e /\ e <= e
      BY <2>3
    <3> QED
      BY <1>8, <2>3, <3>1, <3>2 DEF ScanAt
  <2>5. n + 1 \in Nat /\ n + 1 > n /\ (n + 1)..n = {}
    BY <1>2
  <2>6. /\ ValidLines(lines, n + 1) = {} /\ Cardinality(ValidLines(lines, n + 1)) = 0 /\ Cardinality(InvalidLines(lines, n + 1)) = 0
    <3> DEFINE m == n + 1
    <3> HIDE DEF m
    <3>1. m \in Nat /\ m > n
      BY <2>5 DEF m
    <3>2. ValidLines(lines, m) = {} /\ Cardinality(ValidLines(lines, m)) = 0 /\ Cardinality(InvalidLines(lines, m)) = 0
      BY <1>9, <3>1
    <3> QED
      BY <3>2 DEF m
  <2>7. Blocks(q, lines, <<>>, n + 1)
    <3>1. \A m \in 1..0 : FALSE
      OBVIOUS
    <3> QED
      BY <1>6, <2>6, <3>1 DEF Blocks
  <2>8. LrAll(t, q, n)
    <3>1. 0 <= e - e
      BY <2>3
    <3> QED
      BY <1>8, <2>2, <2>5, <3>1 DEF LrAll
  <2>9. t.p.last > 0 => 0 - 0 <= t.p.last
    <3>1. pol.last \in Nat
      BY <1>3 DEF LrPolicies
    <3> QED
      BY <2>2, <3>1
  <2>10. 0 = e - e
    BY <2>3
  <2>11. LrTaken(t, q, n)
    BY <1>8, <2>2, <2>6, <2>7, <2>8, <2>9, <2>10 DEF LrTaken
  <2> QED
    BY <1>4, <2>1, <2>2, <2>4, <2>11 DEF LrOk
<1> QED
  BY <1>10, <1>11, <1>12, <1>13

LEMMA ScanningStep ==
  ASSUME LrOk(lr), ScanInChunk \/ ScanReads \/ ScanEnds
  PROVE  LrOk(lr')
<1>1. lr.pc = "scan"
  BY DEF ScanInChunk, ScanReads, ScanEnds
<1>2. lr # [pc |-> "idle"]
  BY <1>1
<1>3. lr \in LrRecords
  BY <1>2 DEF LrOk
<1>4. PICK p : Layout(p, lr.lines, lr.orig) /\ \E j, e : ScanAt(p, lr.lines, lr.orig, lr.offset, lr.chunk, j, e) /\ LrTaken(lr, p, j)
  BY <1>1, <1>2 DEF LrOk
<1>5. PICK j, e : ScanAt(p, lr.lines, lr.orig, lr.offset, lr.chunk, j, e) /\ LrTaken(lr, p, j)
  BY <1>4
<1>6. lr.lines \in Seq(LogLines) /\ lr.orig \in Seq(LrBytes) /\ lr.offset \in Nat /\ lr.chunk \in Seq(LrBytes) /\ Len(lr.chunk) \in Nat
  BY <1>3, LrFields
<1>7. ASSUME NEW t, t \in LrRecords, t.pc = "scan", t.lines = lr.lines, t.orig = lr.orig, t.offset = lr.offset,
             NEW i, NEW x, ScanAt(p, lr.lines, lr.orig, lr.offset, t.chunk, i, x), LrTaken(t, p, i)
      PROVE  LrOk(t)
  <2>1. Layout(p, t.lines, t.orig) /\ ScanAt(p, t.lines, t.orig, t.offset, t.chunk, i, x)
    BY <1>4, <1>7
  <2> QED
    BY <1>7, <2>1 DEF LrOk
<1>8. ASSUME NEW line, NEW chunk \in Seq(LrBytes), TakeLine(line, chunk), j \in 1..Len(lr.lines),
             line = SubSeq(lr.orig, p[j - 1] + 1, p[j] - 1),
             NEW x, ScanAt(p, lr.lines, lr.orig, lr.offset, chunk, j - 1, x)
      PROVE  LrOk(lr')
  <2>1. line = TakenText(lr.orig, p, j)
    BY <1>8 DEF TakenText
  <2>2. /\ lr' \in LrRecords /\ lr'.lines = lr.lines /\ lr'.orig = lr.orig
        /\ lr'.offset = lr.offset /\ lr'.chunk = chunk
        /\ (lr'.pc = "scan" /\ LrTaken(lr', p, j - 1)) \/ (lr'.pc = "chosen" /\ LrChosen(lr', p, j))
    BY <1>1, <1>3, <1>4, <1>5, <1>8, <2>1, TakeStep
  <2>3. CASE lr'.pc = "scan" /\ LrTaken(lr', p, j - 1)
    BY <1>7, <1>8, <2>2, <2>3
  <2>4. CASE lr'.pc = "chosen" /\ LrChosen(lr', p, j)
    <3>1. Layout(p, lr'.lines, lr'.orig)
      BY <1>4, <2>2
    <3> QED
      BY <2>2, <2>4, <3>1 DEF LrOk
  <2> QED
    BY <2>2, <2>3, <2>4
<1>9. CASE ScanInChunk
  <2> DEFINE i == LastNewline(lr.chunk)
             line == SubSeq(lr.chunk, i + 1, Len(lr.chunk))
             rest == SubSeq(lr.chunk, 1, i - 1)
  <2>1. i > 0 /\ IF line = << >> THEN lr' = [lr EXCEPT !.chunk = rest] ELSE TakeLine(line, rest)
    BY <1>9 DEF ScanInChunk
  <2>2. \/ /\ line = <<>>
           /\ ScanAt(p, lr.lines, lr.orig, lr.offset, rest, j, p[j] - 1)
        \/ /\ line # <<>> /\ j \in 1..Len(lr.lines) /\ line = SubSeq(lr.orig, p[j - 1] + 1, p[j] - 1)
           /\ ScanAt(p, lr.lines, lr.orig, lr.offset, rest, j - 1, p[j - 1] - 1)
    BY <1>4, <1>5, <1>6, <2>1, ScanSplits
  <2> HIDE DEF i, line
  <2>3. rest \in Seq(LrBytes)
    <3>1. ASSUME NEW a, NEW b, ScanAt(p, lr.lines, lr.orig, lr.offset, rest, a, b) PROVE rest \in Seq(LrBytes)
      <4> HIDE DEF rest
      <4> QED
        BY <1>4, <1>6, <3>1, ScanNewline
    <3> QED
      BY <2>2, <3>1
  <2> HIDE DEF rest
  <2>4. CASE line = <<>>
    <3>1. lr' = [lr EXCEPT !.chunk = rest]
      BY <2>1, <2>4
    <3>2. /\ lr' \in LrRecords /\ lr'.pc = "scan" /\ lr'.lines = lr.lines /\ lr'.orig = lr.orig /\ lr'.offset = lr.offset
          /\ lr'.chunk = rest /\ lr'.file = lr.file /\ lr'.wpos = lr.wpos /\ lr'.nread = lr.nread /\ lr'.keep = lr.keep
          /\ lr'.lastValid = lr.lastValid /\ lr'.nkeep = lr.nkeep /\ lr'.nlines = lr.nlines /\ lr'.ninvalid = lr.ninvalid /\ lr'.p = lr.p
      BY <1>1, <1>3, <2>3, <3>1 DEF LrRecords
    <3>3. LrTaken(lr', p, j)
      BY <1>5, <3>2 DEF LrTaken, LrAll, LrRecent
    <3> QED
      BY <1>7, <2>2, <2>4, <3>2, <3>3
  <2>5. CASE line # <<>>
    BY <1>8, <2>1, <2>2, <2>3, <2>5
  <2> QED
    BY <2>4, <2>5
<1>10. CASE ScanReads
  <2> DEFINE from == IF lr.offset > ChunkSize THEN lr.offset - ChunkSize ELSE 0
             new == SubSeq(lr.file, from + 1, lr.offset) \o lr.chunk
  <2>1. lr' = [lr EXCEPT !.offset = from, !.chunk = new]
    BY <1>10 DEF ScanReads
  <2>2. from \in Nat /\ from <= lr.offset
    BY <1>6, LogRotateAssumption
  <2>3. lr.file = lr.orig
    BY <1>5 DEF LrTaken
  <2> HIDE DEF from
  <2>4. ScanAt(p, lr.lines, lr.orig, from, new, j, e)
    BY <1>5, <1>6, <2>2, <2>3, ScanExtends
  <2> HIDE DEF new
  <2>5. new \in Seq(LrBytes)
    BY <1>4, <1>6, <2>4, ScanNewline
  <2>6. /\ lr' \in LrRecords /\ lr'.pc = "scan" /\ lr'.lines = lr.lines /\ lr'.orig = lr.orig /\ lr'.offset = from
        /\ lr'.chunk = new /\ lr'.file = lr.file /\ lr'.wpos = lr.wpos /\ lr'.nread = lr.nread /\ lr'.keep = lr.keep
        /\ lr'.lastValid = lr.lastValid /\ lr'.nkeep = lr.nkeep /\ lr'.nlines = lr.nlines /\ lr'.ninvalid = lr.ninvalid /\ lr'.p = lr.p
    BY <1>1, <1>3, <2>1, <2>2, <2>5 DEF LrRecords
  <2>7. LrTaken(lr', p, j)
    BY <1>5, <2>6 DEF LrTaken, LrAll, LrRecent
  <2>8. Layout(p, lr'.lines, lr'.orig) /\ ScanAt(p, lr'.lines, lr'.orig, lr'.offset, lr'.chunk, j, e)
    BY <1>4, <2>4, <2>6
  <2> QED
    BY <2>6, <2>7, <2>8 DEF LrOk
<1>11. CASE ScanEnds
  <2>1. /\ LastNewline(lr.chunk) = 0 /\ lr.offset = 0
        /\ IF lr.chunk # << >> THEN TakeLine(lr.chunk, << >>) ELSE lr' = [lr EXCEPT !.pc = "chosen"]
    BY <1>11 DEF ScanEnds
  <2>2. ScanAt(p, lr.lines, lr.orig, 0, lr.chunk, j, e)
    BY <1>5, <2>1
  <2>3. \/ lr.chunk = <<>> /\ j = 0
        \/ /\ lr.chunk # <<>> /\ j = 1 /\ j \in 1..Len(lr.lines) /\ lr.chunk = SubSeq(lr.orig, p[j - 1] + 1, p[j] - 1)
           /\ ScanAt(p, lr.lines, lr.orig, 0, <<>>, j - 1, 0)
    BY <1>4, <1>6, <2>1, <2>2, ScanAtFront
  <2>4. CASE lr.chunk = <<>>
    <3>1. lr' = [lr EXCEPT !.pc = "chosen"] /\ j = 0
      BY <2>1, <2>3, <2>4
    <3>2. /\ lr' \in LrRecords /\ lr'.pc = "chosen" /\ lr'.lines = lr.lines /\ lr'.orig = lr.orig /\ lr'.file = lr.file
          /\ lr'.wpos = lr.wpos /\ lr'.keep = lr.keep /\ lr'.nkeep = lr.nkeep /\ lr'.p = lr.p
      BY <1>3, <3>1 DEF LrRecords
    <3>3. /\ lr.file = lr.orig /\ lr.wpos = 0 /\ Blocks(p, lr.lines, lr.keep, 0 + 1) /\ LrAll(lr, p, 0)
          /\ lr.nlines = Cardinality(ValidLines(lr.lines, 0 + 1)) /\ lr.ninvalid = Cardinality(InvalidLines(lr.lines, 0 + 1))
          /\ (lr.p.last > 0 => lr.nlines - lr.ninvalid <= lr.p.last)
          /\ (~(lr.p.last > 0) => \A x \in ValidLines(lr.lines, 0 + 1) : LrRecent(lr, x))
      BY <1>5, <3>1 DEF LrTaken
    <3>4. LrSuits(lr', 0 + 1)
      <4>1. 0 + 1 = 1 /\ ~(1 > 1)
        OBVIOUS
      <4>2. lr.nlines \in Nat /\ lr.ninvalid \in Nat /\ lr.p.last \in Nat
        BY <1>3, LrFields
      <4>3. lr.p.last > 0 => lr.nlines <= lr.p.last + lr.ninvalid
        BY <3>3, <4>2
      <4> QED
        BY <3>2, <3>3, <4>1, <4>3 DEF LrSuits, LrRecent
    <3>5. LrChosen(lr', p, 0)
      <4>1. 0 \in 0..Len(lr.lines)
        BY <1>6
      <4> QED
        BY <3>2, <3>3, <3>4, <4>1 DEF LrChosen, LrAll
    <3>6. Layout(p, lr'.lines, lr'.orig)
      BY <1>4, <3>2
    <3> QED
      BY <3>2, <3>5, <3>6 DEF LrOk
  <2>5. CASE lr.chunk # <<>>
    <3>1. <<>> \in Seq(LrBytes)
      OBVIOUS
    <3> QED
      BY <1>8, <2>1, <2>3, <2>5, <3>1
  <2> QED
    BY <2>4, <2>5
<1> QED
  BY <1>9, <1>10, <1>11

LEMMA LrNext ==
  ASSUME LrOk(lr), RotateNext
  PROVE  LrOk(lr')
<1>1. CASE StartRotate
  BY <1>1, StartStep
<1>2. CASE ScanInChunk \/ ScanReads \/ ScanEnds
  BY <1>2, ScanningStep
<1>3. CASE Chosen
  <2>1. /\ lr.pc = "chosen"
        /\ lr' = IF lr.keep = << >> THEN [lr EXCEPT !.pc = "done", !.file = << >>]
                 ELSE [lr EXCEPT !.pc = IF lr.nkeep = Len(lr.orig) THEN "done" ELSE "move"]
    BY <1>3 DEF Chosen
  <2>2. lr # [pc |-> "idle"]
    BY <2>1
  <2>3. PICK p, j : lr \in LrRecords /\ Layout(p, lr.lines, lr.orig) /\ LrChosen(lr, p, j)
    BY <2>1, <2>2 DEF LrOk
  <2>4. /\ lr' \in LrRecords /\ lr'.lines = lr.lines /\ lr'.orig = lr.orig
        /\ (lr'.pc = "done" /\ LrDone(lr')) \/ (lr'.pc = "move" /\ \E k, K, c : LrMoving(lr', p, k, K, c))
    <3>1. /\ lr \in LrRecords /\ Layout(p, lr.lines, lr.orig) /\ LrChosen(lr, p, j) /\ lr' = AfterChoice(lr)
      BY <2>1, <2>3 DEF AfterChoice
    <3> QED
      BY ONLY <3>1, ChosenStep
  <2>5. Layout(p, lr'.lines, lr'.orig)
    BY <2>3, <2>4
  <2> QED
    BY <2>4, <2>5 DEF LrOk
<1>4. CASE MoveBlock
  <2>1. lr.pc = "move"
    BY <1>4 DEF MoveBlock
  <2>2. lr # [pc |-> "idle"]
    BY <2>1
  <2>3. PICK p, k, K, c : lr \in LrRecords /\ Layout(p, lr.lines, lr.orig) /\ LrMoving(lr, p, k, K, c)
    BY <2>1, <2>2 DEF LrOk
  <2>4. CASE lr.keep = <<>>
    <3>1. lr' = [lr EXCEPT !.pc = "done", !.file = SubSeq(@, 1, lr.wpos)]
      BY <1>4, <2>4 DEF MoveBlock
    <3>2. lr' \in LrRecords /\ lr'.pc = "done" /\ LrDone(lr')
      BY <2>3, <2>4, <3>1, MoveEnds
    <3> QED
      BY <3>2 DEF LrOk
  <2>5. CASE lr.keep # <<>>
    <3> DEFINE b == lr.keep[Len(lr.keep)]
    <3>1. lr' = AfterMove(lr, b) /\ b = lr.keep[Len(lr.keep)]
      BY <1>4, <2>5 DEF MoveBlock, Last, AfterMove
    <3> HIDE DEF b
    <3>2. lr' \in LrRecords /\ lr'.pc = "move" /\ lr'.lines = lr.lines /\ lr'.orig = lr.orig /\ \E d : LrMoving(lr', p, k, K, d)
      <4>1. /\ lr \in LrRecords /\ Layout(p, lr.lines, lr.orig) /\ LrMoving(lr, p, k, K, c)
            /\ lr.pc = "move" /\ lr.keep # <<>> /\ b = lr.keep[Len(lr.keep)] /\ lr' = AfterMove(lr, b)
        BY <2>1, <2>3, <2>5, <3>1
      <4> QED
        BY ONLY <4>1, MoveStep
    <3>3. Layout(p, lr'.lines, lr'.orig)
      BY <2>3, <3>2
    <3> QED
      BY <3>2, <3>3 DEF LrOk
  <2> QED
    BY <2>4, <2>5
<1> QED
  BY <1>1, <1>2, <1>3, <1>4 DEF RotateNext

LEMMA SuffixIsKept ==
  ASSUME LrOk(lr)
  PROVE  RotateKeepsSuffix
<1> SUFFICES ASSUME lr.pc = "done", IsValid(lr.p), lr.p.keep = 0
             PROVE  \E k \in 1..Len(lr.lines)+1 :
                      /\ lr.file = FlattenSeq([i \in 1..Len(lr.lines) |-> IF i \in ValidFrom(k) THEN LineBytes(lr.lines, i) ELSE <<>>])
                      /\ IF lr.p.last > 0
                           THEN /\ k > 1 => Cardinality(ValidFrom(k)) >= lr.p.last
                                /\ Cardinality(ValidFrom(k)) <= lr.p.last + Cardinality((1..Len(lr.lines)) \ ValidFrom(1))
                           ELSE /\ \A i \in ValidFrom(k) : Recent(i)
                                /\ k > 1 => Valid(k - 1) /\ ~Recent(k - 1)
  BY DEF RotateKeepsSuffix
<1>1. lr # [pc |-> "idle"]
  OBVIOUS
<1>2. LrDone(lr)
  BY <1>1 DEF LrOk
<1>3. PICK k \in 1..(Len(lr.lines) + 1) : lr.file = FlattenSeq(KeptPieces(lr.lines, ValidLines(lr.lines, k))) /\ LrSuits(lr, k)
  BY <1>2 DEF LrDone
<1>4. \A x : ValidFrom(x) = ValidLines(lr.lines, x)
  BY DEF ValidFrom, ValidLines, Valid
<1>5. (1..Len(lr.lines)) \ ValidFrom(1) = InvalidLines(lr.lines, 1)
  BY <1>4 DEF InvalidLines
<1>6. KeptPieces(lr.lines, ValidLines(lr.lines, k)) = [i \in 1..Len(lr.lines) |-> IF i \in ValidFrom(k) THEN LineBytes(lr.lines, i) ELSE <<>>]
  BY <1>4 DEF KeptPieces
<1>7. IF lr.p.last > 0
        THEN /\ k > 1 => Cardinality(ValidFrom(k)) >= lr.p.last
             /\ Cardinality(ValidFrom(k)) <= lr.p.last + Cardinality((1..Len(lr.lines)) \ ValidFrom(1))
        ELSE /\ \A i \in ValidFrom(k) : Recent(i)
             /\ k > 1 => Valid(k - 1) /\ ~Recent(k - 1)
  <2>1. \A x : LrRecent(lr, x) <=> Recent(x)
    BY DEF LrRecent, Recent
  <2>2. \A x : ParseLogTime(lr.lines[x]) # 0 <=> Valid(x)
    BY DEF Valid
  <2> QED
    BY <1>3, <1>4, <1>5, <2>1, <2>2 DEF LrSuits
<1> QED
  BY <1>3, <1>6, <1>7

LEMMA BlocksUntouched ==
  ASSUME LrOk(lr)
  PROVE  MovesForward
<1> SUFFICES ASSUME lr.pc = "move", NEW i \in 1..Len(lr.keep)
             PROVE  /\ lr.wpos <= lr.keep[i].pos
                    /\ SubSeq(lr.file, lr.keep[i].pos + 1, lr.keep[i].pos + lr.keep[i].size)
                         = SubSeq(lr.orig, lr.keep[i].pos + 1, lr.keep[i].pos + lr.keep[i].size)
  BY DEF MovesForward
<1>1. lr # [pc |-> "idle"]
  OBVIOUS
<1>2. PICK p, k, K, c : lr \in LrRecords /\ Layout(p, lr.lines, lr.orig) /\ LrMoving(lr, p, k, K, c)
  BY <1>1 DEF LrOk
<1> DEFINE b == lr.keep[i]
           n == Len(lr.lines)
           N == Len(lr.orig)
           o == b.pos
           e == b.pos + b.size
           z == p[c]
<1>3. lr.lines \in Seq(LogLines) /\ lr.file \in Seq(LrBytes) /\ lr.orig \in Seq(LrBytes) /\ lr.wpos \in Nat /\ n \in Nat /\ N \in Nat
  BY <1>2, LrFields
<1>4. /\ c \in 0..n /\ Blocks(p, lr.lines, lr.keep, c + 1) /\ Len(lr.file) = N /\ lr.wpos <= z
      /\ \A x \in (z + 1)..N : lr.file[x] = lr.orig[x]
  BY <1>2 DEF LrMoving
<1>5. /\ b.pos \in Nat /\ b.size \in Nat /\ z <= b.pos
      /\ \E lo, hi \in (c + 1)..Len(lr.lines) :
           /\ IsBlock(p, lr.lines, b, lo, hi) /\ lo \in 1..Len(lr.lines) /\ hi \in 1..Len(lr.lines)
           /\ lo - 1 \in 0..Len(lr.lines) /\ hi \in 0..Len(lr.lines) /\ c <= lo - 1
  <2>1. /\ lr.lines \in Seq(LogLines) /\ Layout(p, lr.lines, lr.orig) /\ c \in 0..Len(lr.lines)
        /\ Blocks(p, lr.lines, lr.keep, c + 1) /\ i \in 1..Len(lr.keep)
    BY <1>2, <1>3, <1>4
  <2> QED
    BY ONLY <2>1, BlocksBehind DEF b, z
<1>6. PICK hi \in 0..n : e = p[hi]
  BY <1>5 DEF IsBlock
<1>7. z \in Nat /\ e <= N
  <2>1. n \in 0..n /\ hi <= n /\ p[n] = N
    BY <1>2, <1>3, LayoutIs
  <2>2. p[hi] <= p[n] /\ z \in Nat
    BY <1>2, <1>3, <1>4, <2>1, LayoutOrder
  <2> QED
    BY <1>6, <2>1, <2>2
<1>8. lr.wpos <= o
  BY <1>3, <1>4, <1>5, <1>7, SMTT(60)
<1>9. /\ o \in Nat /\ e \in 0..Len(lr.file) /\ e \in 0..Len(lr.orig) /\ o <= e
      /\ \A x \in 1..(e - o) : o + x \in (z + 1)..N
  <2>1. o \in Nat /\ b.size \in Nat /\ e = o + b.size /\ z \in Nat /\ z <= o /\ e <= N /\ N \in Nat /\ Len(lr.file) = N /\ Len(lr.orig) = N
    BY <1>3, <1>4, <1>5, <1>7
  <2> HIDE DEF o, e, z, N
  <2> QED
    BY ONLY <2>1, SMTT(60)
<1> DEFINE f == SubSeq(lr.file, o + 1, e)
           g == SubSeq(lr.orig, o + 1, e)
<1> HIDE DEF o, e, z
<1>10. f \in Seq(LrBytes) /\ Len(f) = e - o /\ \A x \in 1..(e - o) : f[x] = lr.file[o + x]
  BY <1>3, <1>9, WindowIs, SMTT(60)
<1>11. g \in Seq(LrBytes) /\ Len(g) = e - o /\ \A x \in 1..(e - o) : g[x] = lr.orig[o + x]
  BY <1>3, <1>9, WindowIs
<1> HIDE DEF f, g
<1>12. \A x \in 1..Len(f) : f[x] = g[x]
  BY <1>4, <1>9, <1>10, <1>11
<1>13. f = g
  BY <1>10, <1>11, <1>12, SeqEqual
<1> QED
  BY <1>8, <1>13 DEF f, g, o, e

(* Whatever the lines, the retention and the size of a read, the file      *)
(* rotateLogFileByPolicy leaves is the valid lines from one on, whole and  *)
(* in order, as many as the policy asks for, and no move overwrites a      *)
(* block that is still to be moved.                                        *)
THEOREM RotationIsSound == RotateSpec => []RotateSound
<1>1. RotateInit => LrOk(lr)
  BY DEF RotateInit, LrOk
<1>2. LrOk(lr) /\ [RotateNext]_lr => LrOk(lr)'
  <2> SUFFICES ASSUME LrOk(lr), [RotateNext]_lr PROVE LrOk(lr)'
    OBVIOUS
  <2>1. CASE RotateNext
    <3>1. LrOk(lr')
      BY <2>1, LrNext
    <3> QED
      BY <3>1
  <2>2. CASE UNCHANGED lr
    BY <2>2
  <2> QED
    BY <2>1, <2>2
<1>3. LrOk(lr) => RotateSound
  BY SuffixIsKept, BlocksUntouched DEF RotateSound
<1> QED
  BY <1>1, <1>2, <1>3, PTL DEF RotateSpec
=============================================================================
