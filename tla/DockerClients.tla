--------------------------- MODULE DockerClients ---------------------------
(***************************************************************************)
(* internal/docker/client.go: clients shared by host, their reference      *)
(* counts, and the cleaner that closes clients nobody has used for a while.*)
(*                                                                         *)
(* A user stands for one reference that is taken, used and given back: by  *)
(* NewClient, by Clients (one for each client of the map it copies), or a  *)
(* unique client of its own.  The counters are atomics: NewClient and the  *)
(* cleaner work under clientMapMu, Clients takes its references after it   *)
(* has released it, Close takes no lock at all.  The cleaner reads the two *)
(* counters of a client one after the other, and closes it later still.    *)
(***************************************************************************)
EXTENDS Naturals, FiniteSets

CONSTANTS
  Users,
  Hosts,
  NoClient,
  TTL,          \* clientTTLSecs
  MaxClients,   \* bound: clients created
  MaxNow        \* bound: time

ASSUME ClientsAssumption ==
  /\ IsFiniteSet(Users) /\ NoClient \notin Nat
  /\ TTL \in Nat /\ MaxClients \in Nat /\ MaxNow \in Nat

VARIABLES
  clientMap,  \* by host
  created,    \* number of clients created so far: the last one's identity
  refCount, closedOn,   \* per client
  closed,     \* clients whose Client.Close was called
  step,       \* per user: where it is
  client,     \* per user: its client
  released,   \* per client: when a reference was last given back (history)
  now,        \* seconds
  cleaner,    \* where the cleaner is; it holds the lock from "scan" to "timed"
  todo,       \* hosts that closeTimedOutClients has still to look at
  checking,   \* the host it is looking at
  scanNow,    \* its now
  raced       \* a reference was taken since it saw a count of zero (history)

clientVars == <<clientMap, created, refCount, closedOn, closed, released>>
cleanerVars == <<cleaner, todo, checking, scanNow>>
dcVars == <<clientVars, step, client, now, cleanerVars, raced>>

ClientIds == 1..MaxClients

(* "held" by NewClient; "copied" from the map, "first" when the reference  *)
(* was the first and closedOn is still to be reset, then "shared"; "unique"*)
(* for a client of its own; "closing": closedOn is set, the count is not.  *)
Steps == {"idle", "held", "copied", "first", "shared", "unique", "closing"}

ClientsTypeOK ==
  /\ clientMap \in [Hosts -> ClientIds \cup {NoClient}]
  /\ created \in 0..MaxClients
  /\ refCount \in [ClientIds -> Nat] /\ closedOn \in [ClientIds -> Nat]
  /\ closed \subseteq ClientIds /\ released \in [ClientIds -> Nat]
  /\ step \in [Users -> Steps] /\ client \in [Users -> ClientIds \cup {NoClient}]
  /\ now \in Nat /\ scanNow \in Nat /\ raced \in BOOLEAN
  /\ cleaner \in {"idle", "scan", "counted", "timed", "ended"}
  /\ todo \subseteq Hosts /\ checking \in Hosts

unlocked == cleaner \in {"idle", "ended"}
become(u, s, c) == step' = [step EXCEPT ![u] = s] /\ client' = [client EXCEPT ![u] = c]

-----------------------------------------------------------------------------
(* A client that cannot be created leaves no trace.                        *)
NewClient(u, h) ==
  /\ step[u] = "idle" /\ unlocked
  /\ \/ LET c == clientMap[h] IN
        /\ c # NoClient /\ become(u, "held", c)
        /\ closedOn' = [closedOn EXCEPT ![c] = 0]
        /\ refCount' = [refCount EXCEPT ![c] = @ + 1]
        /\ UNCHANGED <<clientMap, created>>
     \/ LET c == created + 1 IN
        /\ clientMap[h] = NoClient /\ created < MaxClients /\ created' = c
        /\ become(u, "held", c) /\ clientMap' = [clientMap EXCEPT ![h] = c]
        /\ refCount' = [refCount EXCEPT ![c] = 1] /\ UNCHANGED closedOn
  /\ UNCHANGED <<closed, released, now, cleanerVars, raced>>

NewUniqueClient(u) ==
  /\ step[u] = "idle" /\ created < MaxClients /\ created' = created + 1
  /\ become(u, "unique", created + 1)
  /\ refCount' = [refCount EXCEPT ![created + 1] = 1]
  /\ UNCHANGED <<clientMap, closedOn, closed, released, now, cleanerVars, raced>>

Clients(u, h) ==
  /\ step[u] = "idle" /\ unlocked /\ clientMap[h] # NoClient
  /\ become(u, "copied", clientMap[h])
  /\ UNCHANGED <<clientVars, now, cleanerVars, raced>>

ClientsAddRef(u) ==
  LET c == client[u] IN
  /\ step[u] = "copied"
  /\ refCount' = [refCount EXCEPT ![c] = @ + 1]
  /\ \/ refCount[c] = 0 /\ become(u, "first", c)
     \/ refCount[c] # 0 /\ become(u, "shared", c)
  /\ raced' = (raced \/ (cleaner \in {"counted", "timed"} /\ clientMap[checking] = c))
  /\ UNCHANGED <<clientMap, created, closedOn, closed, released, now, cleanerVars>>

ClientsReset(u) ==
  /\ step[u] = "first" /\ become(u, "shared", client[u])
  /\ closedOn' = [closedOn EXCEPT ![client[u]] = 0]
  /\ UNCHANGED <<clientMap, created, refCount, closed, released, now, cleanerVars, raced>>

(* Close, of a unique client.                                              *)
CloseUnique(u) ==
  /\ step[u] = "unique" /\ closed' = closed \cup {client[u]}
  /\ become(u, "idle", NoClient)
  /\ UNCHANGED <<clientMap, created, refCount, closedOn, released, now, cleanerVars, raced>>

(* Mutant: the time is stored after the count was decremented, by a step   *)
(* that may come too late, here left out.                                  *)
CloseStoreMutant(u) ==
  /\ step[u] \in {"held", "shared"} /\ become(u, "closing", client[u])
  /\ released' = [released EXCEPT ![client[u]] = now]
  /\ UNCHANGED <<clientMap, created, refCount, closedOn, closed, now, cleanerVars, raced>>

CloseStore(u) ==
  /\ step[u] \in {"held", "shared"} /\ become(u, "closing", client[u])
  /\ closedOn' = [closedOn EXCEPT ![client[u]] = now]
  /\ released' = [released EXCEPT ![client[u]] = now]
  /\ UNCHANGED <<clientMap, created, refCount, closed, now, cleanerVars, raced>>

(* Mutant: the reference is given back twice.                              *)
CloseReleaseMutant(u) ==
  /\ step[u] = "closing" /\ become(u, "idle", NoClient)
  /\ refCount' = [refCount EXCEPT ![client[u]] = IF @ > 1 THEN @ - 2 ELSE 0]
  /\ UNCHANGED <<clientMap, created, closedOn, closed, released, now, cleanerVars, raced>>

CloseRelease(u) ==
  /\ step[u] = "closing" /\ become(u, "idle", NoClient)
  /\ refCount' = [refCount EXCEPT ![client[u]] = @ - 1]
  /\ UNCHANGED <<clientMap, created, closedOn, closed, released, now, cleanerVars, raced>>

-----------------------------------------------------------------------------
(* closeTimedOutClients, called on every tick.                             *)
CleanerTick ==
  /\ cleaner = "idle" /\ cleaner' = "scan" /\ scanNow' = now
  /\ todo' = {h \in Hosts : clientMap[h] # NoClient}
  /\ UNCHANGED <<clientVars, step, client, now, checking, raced>>

CleanerCount(h) ==
  /\ cleaner = "scan" /\ h \in todo /\ todo' = todo \ {h}
  /\ \/ refCount[clientMap[h]] = 0 /\ cleaner' = "counted" /\ checking' = h
     \/ refCount[clientMap[h]] # 0 /\ UNCHANGED <<cleaner, checking>>
  /\ UNCHANGED <<clientVars, step, client, now, scanNow, raced>>

CleanerTime ==
  /\ cleaner = "counted"
  /\ \/ scanNow > closedOn[clientMap[checking]] + TTL /\ cleaner' = "timed" /\ UNCHANGED raced
     \/ /\ scanNow <= closedOn[clientMap[checking]] + TTL
        /\ cleaner' = "scan" /\ raced' = FALSE
  /\ UNCHANGED <<clientVars, step, client, now, todo, checking, scanNow>>

CleanerClose ==
  /\ cleaner = "timed" /\ cleaner' = "scan" /\ raced' = FALSE
  /\ clientMap' = [clientMap EXCEPT ![checking] = NoClient]
  /\ closed' = closed \cup {clientMap[checking]}
  /\ UNCHANGED <<created, refCount, closedOn, released, step, client, now, todo,
                 checking, scanNow>>

CleanerUnlock ==
  /\ cleaner = "scan" /\ todo = {} /\ cleaner' = "idle" /\ scanNow' = 0
  /\ UNCHANGED <<clientVars, step, client, now, todo, checking, raced>>

(* The program exits: the cleaner closes what is in the map.               *)
CleanerExit ==
  /\ cleaner = "idle" /\ cleaner' = "ended"
  /\ closed' = closed \cup {clientMap[h] : h \in {x \in Hosts : clientMap[x] # NoClient}}
  /\ clientMap' = [h \in Hosts |-> NoClient]
  /\ UNCHANGED <<created, refCount, closedOn, released, step, client, now, todo,
                 checking, scanNow, raced>>

TimePasses ==
  /\ now < MaxNow /\ now' = now + 1
  /\ UNCHANGED <<clientVars, step, client, cleanerVars, raced>>

-----------------------------------------------------------------------------
(* Seconds since 1970: closedOn = 0 is longer ago than the TTL.            *)
ClientsInit ==
  /\ clientMap = [h \in Hosts |-> NoClient] /\ created = 0
  /\ refCount = [c \in ClientIds |-> 0] /\ closedOn = [c \in ClientIds |-> 0]
  /\ closed = {} /\ released = [c \in ClientIds |-> 0]
  /\ step = [u \in Users |-> "idle"] /\ client = [u \in Users |-> NoClient]
  /\ now = TTL + 1 /\ cleaner = "idle" /\ todo = {} /\ checking \in Hosts
  /\ scanNow = 0 /\ raced = FALSE

ClientsNext ==
  \/ \E u \in Users :
       \/ NewUniqueClient(u) \/ ClientsAddRef(u) \/ ClientsReset(u)
       \/ CloseUnique(u) \/ CloseStore(u) \/ CloseRelease(u)
       \/ \E h \in Hosts : NewClient(u, h) \/ Clients(u, h)
  \/ \E h \in Hosts : CleanerCount(h)
  \/ CleanerTick \/ CleanerTime \/ CleanerClose \/ CleanerUnlock \/ CleanerExit
  \/ TimePasses

ClientsSpec == ClientsInit /\ [][ClientsNext]_dcVars

-----------------------------------------------------------------------------
(* Properties.                                                             *)

Holders(c) == {u \in Users : client[u] = c /\
                  step[u] \in {"held", "first", "shared", "unique", "closing"}}

(* The count of a client is the number of its users at every step of every *)
(* interleaving, although NewClient, Clients and Close share no lock.      *)
RefsCounted ==
  \A c \in ClientIds \ closed : refCount[c] = Cardinality(Holders(c))

(* A client that NewClient returned is not closed while it is held, as     *)
(* long as the program runs: neither by the cleaner nor by other users     *)
(* giving it back.                                                         *)
HeldStaysOpen ==
  cleaner # "ended" => \A u \in Users : step[u] \in {"held", "unique"} => client[u] \notin closed

(* The counts, and what they are for.                                      *)
ClientsSound == ClientsTypeOK /\ RefsCounted /\ HeldStaysOpen

(* The cleaner closes a client only when more than the TTL has passed      *)
(* since a user gave it back, also when it was reused in the meantime, and *)
(* unless Clients took a reference between the cleaner's look and its      *)
(* close.                                                                  *)
ClosedAfterTTL ==
  [][cleaner = "timed" /\ cleaner' = "scan" /\ ~raced =>
       now > released[clientMap[checking]] + TTL]_dcVars

(* What Clients returns is kept from being closed by the reference that it *)
(* takes: "to prevent them from being closed before caller finished using  *)
(* them".                                                                  *)
CopiedStaysOpen ==
  cleaner # "ended" => \A u \in Users : step[u] = "shared" => client[u] \notin closed
=============================================================================
