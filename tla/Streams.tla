------------------------------ MODULE Streams -------------------------------
(***************************************************************************)
(* The stream proxies of stream routes.  The UDP proxy keeps a table of    *)
(* connections to the destination, one per client address, filled by a     *)
(* goroutine per packet and emptied by a cleaner and by Close; the         *)
(* goroutine that reads a connection's answers closes it.  The TCP proxy   *)
(* has a goroutine per accepted connection.  Both end with the task of     *)
(* their route: its context is cancelled, then Close is called.            *)
(***************************************************************************)
EXTENDS Integers, FiniteSets

CONSTANTS UClients,     \* addresses of UDP clients
          MaxPackets,   \* bound: packets that arrive
          MaxUConns,    \* bound: connections ever created
          TConns        \* TCP connections that may be accepted

ASSUME StreamsAssumption ==
  UClients # {} /\ MaxPackets \in Nat /\ MaxUConns \in Nat

UIds == 1..MaxUConns

VARIABLES
  stDone,      \* the context of the route is cancelled
  stClosing,   \* Close: "no", "begun" (closed is set), "cleared", "closed"
  udTable,     \* conns: client -> connection, 0 if absent
  udConn,      \* connections: key, open (not closed), handler (handleResponses runs), old (Expired)
  udMade,      \* connections created
  udLock,      \* connection made by the goroutine that holds mu, 0 when mu is free
  udWait,      \* packets whose goroutine has yet to take mu, by client
  udSend,      \* forwardToDestination goroutines, by connection
  udSeen,      \* packets that have arrived
  udSnap,      \* cleanUp: the clone of conns, entries not looked at yet
  udRemoved,   \* cleanUp: keys to delete
  udScan,      \* cleanUp is between its two locks
  stListen,    \* the listen goroutines of UDP and TCP that still read
  tcPc,        \* TCP connections: "new", "preDial", "dial", "dialed", "pipe", "ended", "refused"
  tcOpen       \* open sockets: <<connection, "src" or "dst">>

udVars == <<udTable, udConn, udMade, udLock, udWait, udSend, udSeen, udSnap, udRemoved, udScan>>
tcVars == <<tcPc, tcOpen>>
stVars == <<stDone, stClosing, stListen, udVars, tcVars>>

Nobody == [c \in UClients |-> 0]

StreamsInit ==
  /\ stDone = FALSE /\ stClosing = "no" /\ stListen = {"udp", "tcp"}
  /\ udTable = Nobody /\ udWait = Nobody /\ udSnap = Nobody
  /\ udConn = [i \in UIds |-> [key |-> CHOOSE c \in UClients : TRUE,
                               open |-> FALSE, handler |-> FALSE, old |-> FALSE]]
  /\ udMade = 0 /\ udLock = 0 /\ udSeen = 0
  /\ udSend = [i \in UIds |-> 0]
  /\ udRemoved = {} /\ udScan = FALSE
  /\ tcPc = [t \in TConns |-> "new"] /\ tcOpen = {}

closed == stClosing # "no"

-----------------------------------------------------------------------------
(* The loop of listen, back from the listener: it ends when the context is *)
(* done; a read or accept that was waiting then is still served.           *)
Served(proto) ==
  /\ proto \in stListen /\ stClosing # "closed"
  /\ stListen' = IF stDone THEN stListen \ {proto} ELSE stListen

(* UDP.  listen: a packet is read and given to a goroutine of its own.     *)
ReadPacket(c) ==
  /\ Served("udp") /\ udSeen < MaxPackets
  /\ udSeen' = udSeen + 1
  /\ udWait' = [udWait EXCEPT ![c] = @ + 1]
  /\ UNCHANGED <<stDone, stClosing, udTable, udConn, udMade, udLock, udSend,
                 udSnap, udRemoved, udScan, tcVars>>

(* getOrCreateConnection, when the client has a connection: another        *)
(* goroutine forwards the packet.                                          *)
FoundConn(c) ==
  /\ udWait[c] > 0 /\ udLock = 0 /\ udTable[c] # 0
  /\ udWait' = [udWait EXCEPT ![c] = @ - 1]
  /\ udSend' = [udSend EXCEPT ![udTable[c]] = @ + 1]
  /\ UNCHANGED <<stDone, stClosing, stListen, udTable, udConn, udMade, udLock, udSeen,
                 udSnap, udRemoved, udScan, tcVars>>

(* createConnection, under mu: preDial and dial may fail, and so may the   *)
(* first packet, which closes the new connection.                          *)
CreateConn(c) ==
  /\ udWait[c] > 0 /\ udLock = 0 /\ udTable[c] = 0
  /\ udWait' = [udWait EXCEPT ![c] = @ - 1]
  /\ \/ UNCHANGED <<udMade, udLock, udConn>>
     \/ /\ udMade < MaxUConns
        /\ udMade' = udMade + 1
        /\ udLock' = udMade'
        /\ udConn' = [udConn EXCEPT ![udMade'] =
                        [key |-> c, open |-> TRUE, handler |-> TRUE, old |-> FALSE]]
  /\ UNCHANGED <<stDone, stClosing, stListen, udTable, udSend, udSeen, udSnap, udRemoved, udScan, tcVars>>

(* ... and the end of getOrCreateConnection, which gives up mu.            *)
StoreConn ==
  /\ udLock # 0
  /\ udTable' = IF udConn[udLock].open THEN [udTable EXCEPT ![udConn[udLock].key] = udLock]
                ELSE udTable
  /\ udLock' = 0
  /\ UNCHANGED <<stDone, stClosing, stListen, udConn, udMade, udWait, udSend, udSeen,
                 udSnap, udRemoved, udScan, tcVars>>

(* forwardToDestination: a closed connection drops the packet, a failed    *)
(* write too; lastUsed moves only with a written packet.                   *)
forwardToDestination(i) ==
  /\ udSend[i] > 0
  /\ udSend' = [udSend EXCEPT ![i] = @ - 1]
  /\ \/ UNCHANGED udConn
     \/ udConn[i].open /\ udConn' = [udConn EXCEPT ![i].old = FALSE]
  /\ UNCHANGED <<stDone, stClosing, stListen, udTable, udMade, udLock, udWait, udSeen,
                 udSnap, udRemoved, udScan, tcVars>>

(* handleResponses: an answer is written back to the client.               *)
Answer(i) ==
  /\ udConn[i].handler /\ udConn[i].open /\ stClosing # "closed"
  /\ udConn' = [udConn EXCEPT ![i].old = FALSE]
  /\ UNCHANGED <<stDone, stClosing, stListen, udTable, udMade, udLock, udWait, udSend, udSeen,
                 udSnap, udRemoved, udScan, tcVars>>

(* conn.Close.                                                             *)
CloseConns(ids) == [i \in UIds |-> IF i \in ids THEN [udConn[i] EXCEPT !.open = FALSE]
                                   ELSE udConn[i]]

(* Mutant: the connection is not closed.                                   *)
HandlerExitMutant(i) == [udConn EXCEPT ![i].handler = FALSE]

(* The deferred Close of handleResponses.                                  *)
HandlerExit(i) == [CloseConns({i}) EXCEPT ![i].handler = FALSE]

(* handleResponses returns: the connection was closed, the context is done,*)
(* or nothing came for udpReadTimeout or the read failed.  The entry of    *)
(* the table stays.                                                        *)
HandlerEnds(i) ==
  /\ udConn[i].handler
  /\ udConn' = HandlerExit(i)
  /\ UNCHANGED <<stDone, stClosing, stListen, udTable, udMade, udLock, udWait, udSend, udSeen,
                 udSnap, udRemoved, udScan, tcVars>>

(* udpIdleTimeout passes since lastUsed.                                   *)
Expire(i) ==
  /\ i <= udMade /\ ~udConn[i].old
  /\ udConn' = [udConn EXCEPT ![i].old = TRUE]
  /\ UNCHANGED <<stDone, stClosing, stListen, udTable, udMade, udLock, udWait, udSend, udSeen,
                 udSnap, udRemoved, udScan, tcVars>>

(* cleanUp, at its ticks: the clone of the table; each of its expired      *)
(* connections closed; their keys deleted.                                 *)
CleanBegin ==
  /\ ~stDone /\ ~udScan /\ udLock = 0 /\ udTable # Nobody
  /\ udScan' = TRUE /\ udSnap' = udTable
  /\ UNCHANGED <<stDone, stClosing, stListen, udTable, udConn, udMade, udLock, udWait, udSend,
                 udSeen, udRemoved, tcVars>>

CleanOne(c) ==
  /\ udSnap[c] # 0
  /\ udSnap' = [udSnap EXCEPT ![c] = 0]
  /\ IF udConn[udSnap[c]].old
       THEN udConn' = CloseConns({udSnap[c]}) /\ udRemoved' = udRemoved \union {c}
       ELSE UNCHANGED <<udConn, udRemoved>>
  /\ UNCHANGED <<stDone, stClosing, stListen, udTable, udMade, udLock, udWait, udSend, udSeen, udScan, tcVars>>

(* Mutant: what was closed stays in the table.                             *)
CleanedMutant == udTable

Cleaned == [c \in UClients |-> IF c \in udRemoved THEN 0 ELSE udTable[c]]

CleanEnd ==
  /\ udScan /\ udSnap = Nobody /\ udLock = 0
  /\ udTable' = Cleaned /\ udRemoved' = {} /\ udScan' = FALSE
  /\ UNCHANGED <<stDone, stClosing, stListen, udConn, udMade, udLock, udWait, udSend, udSeen, udSnap, tcVars>>

-----------------------------------------------------------------------------
(* The task of the route is cancelled; OnCancel calls Close: closed is     *)
(* set, then (UDP) under mu the connections are closed and the table is    *)
(* cleared, then the listener is closed.                                   *)
CancelStream ==
  /\ ~stDone /\ stDone' = TRUE
  /\ UNCHANGED <<stClosing, stListen, udVars, tcVars>>

CloseBegin ==
  /\ stDone /\ stClosing = "no" /\ stClosing' = "begun"
  /\ UNCHANGED <<stDone, stListen, udVars, tcVars>>

CloseTable ==
  /\ stClosing = "begun" /\ udLock = 0 /\ stClosing' = "cleared"
  /\ udConn' = CloseConns({udTable[c] : c \in UClients})
  /\ udTable' = Nobody
  /\ UNCHANGED <<stDone, stListen, udMade, udLock, udWait, udSend, udSeen, udSnap, udRemoved, udScan, tcVars>>

CloseListener ==
  /\ stClosing = "cleared" /\ stClosing' = "closed"
  /\ UNCHANGED <<stDone, stListen, udVars, tcVars>>

-----------------------------------------------------------------------------
(* TCP.  listen accepts; when the hook onRead fails the accepted           *)
(* connection is neither handled nor closed.                               *)
Accept(t) ==
  /\ tcPc[t] = "new" /\ Served("tcp")
  /\ tcOpen' = tcOpen \union {<<t, "src">>}
  /\ \E next \in {"preDial", "refused"} : tcPc' = [tcPc EXCEPT ![t] = next]
  /\ UNCHANGED <<stDone, stClosing, udVars>>

TcpGoto(t, from, next) == tcPc[t] = from /\ tcPc' = [tcPc EXCEPT ![t] = next]

(* The deferred calls of handle.                                           *)
EndTCP(t) == tcOpen' = tcOpen \ {<<t, "src">>, <<t, "dst">>}

PreDial(t) ==
  /\ \/ TcpGoto(t, "preDial", "dial") /\ ~closed /\ UNCHANGED tcOpen
     \/ TcpGoto(t, "preDial", "ended") /\ EndTCP(t)
  /\ UNCHANGED <<stDone, stClosing, stListen, udVars>>

Dial(t) ==
  /\ \/ TcpGoto(t, "dial", "dialed") /\ tcOpen' = tcOpen \union {<<t, "dst">>}
     \/ TcpGoto(t, "dial", "ended") /\ EndTCP(t)
  /\ UNCHANGED <<stDone, stClosing, stListen, udVars>>

(* The last look at closed before the pipe.                                *)
Dialed(t) ==
  /\ IF closed THEN TcpGoto(t, "dialed", "ended") /\ EndTCP(t)
     ELSE TcpGoto(t, "dialed", "pipe") /\ UNCHANGED tcOpen
  /\ UNCHANGED <<stDone, stClosing, stListen, udVars>>

(* The pipe ends: end of file, an error (of the hook onRead too), or the   *)
(* context.                                                                *)
PipeEnds(t) ==
  /\ TcpGoto(t, "pipe", "ended") /\ EndTCP(t)
  /\ UNCHANGED <<stDone, stClosing, stListen, udVars>>

StreamsNext ==
  \/ \E c \in UClients : ReadPacket(c) \/ FoundConn(c) \/ CreateConn(c) \/ CleanOne(c)
  \/ \E i \in UIds : forwardToDestination(i) \/ Answer(i) \/ HandlerEnds(i) \/ Expire(i)
  \/ StoreConn \/ CleanBegin \/ CleanEnd
  \/ CancelStream \/ CloseBegin \/ CloseTable \/ CloseListener
  \/ \E t \in TConns : Accept(t) \/ PreDial(t) \/ Dial(t) \/ Dialed(t) \/ PipeEnds(t)

StreamsSpec == StreamsInit /\ [][StreamsNext]_stVars

(* Goroutines that are not waiting for the network go on; the ticker of    *)
(* the cleaner ticks; a connection that is not used expires; a read of a   *)
(* closed connection or, within udpReadTimeout, of a cancelled route ends; *)
(* dials end and pipes end with the context.                               *)
StreamsFairness ==
  /\ WF_stVars(StoreConn) /\ WF_stVars(CleanBegin) /\ WF_stVars(CleanEnd)
  /\ WF_stVars(CloseBegin) /\ WF_stVars(CloseTable) /\ WF_stVars(CloseListener)
  /\ \A c \in UClients : WF_stVars(FoundConn(c)) /\ WF_stVars(CreateConn(c)) /\ WF_stVars(CleanOne(c))
  /\ \A i \in UIds : /\ WF_stVars(forwardToDestination(i))
                     /\ WF_stVars((~udConn[i].open \/ stDone) /\ HandlerEnds(i))
                     /\ WF_stVars(~udConn[i].open /\ Expire(i))
  /\ \A t \in TConns : WF_stVars(PreDial(t)) /\ WF_stVars(Dial(t)) /\ WF_stVars(Dialed(t))
                       /\ WF_stVars(stDone /\ PipeEnds(t))

-----------------------------------------------------------------------------
(* While the stream is not closed a client has at most one open connection *)
(* and its packets find it: an open connection is the one in the table, or *)
(* the one about to be stored (getOrCreateConnection against the cleaner,  *)
(* which deletes by key what it has cloned before).                        *)
OneConnPerClient ==
  stClosing \in {"no", "begun"} =>
    \A i \in UIds : udConn[i].open => i \in {udLock, udTable[udConn[i].key]}

(* Every socket has a goroutine that will close it: an open connection to  *)
(* a UDP destination its handler, a socket of a TCP connection its handle  *)
(* (except the accepted ones that onRead refused).                         *)
SocketsOwned ==
  /\ \A i \in UIds : udConn[i].open => udConn[i].handler
  /\ \A t \in TConns : /\ tcPc[t] = "ended" => \A s \in tcOpen : s[1] # t
                       /\ <<t, "dst">> \in tcOpen => <<t, "src">> \in tcOpen

(* What ListenAndServe of the two proxies keeps of its sockets.            *)
StreamsSound == OneConnPerClient /\ SocketsOwned

UdpOpen == {i \in UIds : udConn[i].open}

(* A connection closed by its handler leaves the table, so that its client *)
(* is not cut off for good, and a cancelled route lets go of all its       *)
(* connections, even those made by packets that were waiting during Close. *)
StreamsDrain ==
  /\ \A c \in UClients : \A i \in UIds :
       (udTable[c] = i /\ ~udConn[i].open) ~> (udTable[c] # i \/ stDone)
  /\ stDone ~> (UdpOpen = {} /\ \A t \in TConns : tcPc[t] \in {"new", "ended", "refused"})
=============================================================================
