------------------------------ MODULE Proxmox ------------------------------
(***************************************************************************)
(* Proxmox (internal/proxmox and the idlewatcher's provider for it): the   *)
(* table of LXC containers that each cluster's client polls and routes are *)
(* looked up in, the node pool that all clients share, actions on a        *)
(* container with the wait for their effect, and the watch that turns      *)
(* polled states into events.                                              *)
(*                                                                         *)
(* The clusters are external: containers change state and address at any   *)
(* time, and any request may fail.                                         *)
(***************************************************************************)
EXTENDS Integers, Sequences, SequencesExt

CONSTANTS NodeName,        \* [cluster -> the name of its node]
          Lxc,             \* [cluster -> the ids of its containers]
          Address,         \* [cluster -> [id -> the addresses it may have]]
          LxcName,         \* [id -> name]
          Watched,         \* <<cluster, id>> the idlewatcher is about
          MaxPolls, MaxPxFaults, MaxMoves      \* bounds

\* The idlewatcher's container is one of a cluster's, and each has an address.
ASSUME ProxmoxAssumption ==
  /\ Watched[1] \in DOMAIN NodeName /\ Watched[2] \in Lxc[Watched[1]]
  /\ \A c \in DOMAIN NodeName : \A i \in Lxc[c] : Address[c][i] # {}

VARIABLES pve,      \* [cluster -> [id -> [state, ip]]], external
          nodes,    \* the node pool: [name -> cluster]
          client,   \* [cluster -> [pc, left, got, table, polls]]
          act,      \* the action under way: [pc, action, task, saw]
          watch,    \* [pc, running, sent, first]
          pxFaults, moves

pxVars == <<pve, nodes, client, act, watch, pxFaults, moves>>

Clusters == DOMAIN NodeName
State == pve[Watched[1]][Watched[2]].state

ProxmoxInit ==
  /\ pve = [c \in Clusters |-> [i \in Lxc[c] |-> [state |-> "stopped", ip |-> CHOOSE a \in Address[c][i] : TRUE]]]
  /\ nodes = <<>>
  /\ client = [c \in Clusters |-> [pc |-> "init", left |-> {}, got |-> {}, table |-> {}, polls |-> 0]]
  /\ act = [pc |-> "idle", action |-> "none", task |-> "none", saw |-> "none"]
  /\ watch = [pc |-> "off", running |-> FALSE, sent |-> <<>>, first |-> FALSE]
  /\ pxFaults = 0 /\ moves = 0

PxFault == pxFaults < MaxPxFaults /\ pxFaults' = pxFaults + 1
NoFault == UNCHANGED pxFaults
ClientOnly == UNCHANGED <<pve, act, watch, moves>>
WatchedOnly == UNCHANGED <<nodes, client, moves>>

(***************************************************************************)
(* Init and the polling of resources.                                      *)
(***************************************************************************)
\* UpdateClusterInfo enters the nodes in the pool, by name; when it fails
\* the client is not used.
UpdateClusterInfo(c) ==
  /\ client[c].pc = "init" /\ ClientOnly
  /\ \/ /\ client' = [client EXCEPT ![c].pc = "idle"] /\ NoFault
        /\ nodes' = [n \in DOMAIN nodes \cup {NodeName[c]} |-> IF n = NodeName[c] THEN c ELSE nodes[n]]
     \/ PxFault /\ client' = [client EXCEPT ![c].pc = "off"] /\ UNCHANGED nodes

ListResources(c) ==
  /\ client[c].pc = "idle" /\ client[c].polls < MaxPolls /\ ClientOnly /\ UNCHANGED nodes
  /\ \/ client' = [client EXCEPT ![c].pc = "ips", ![c].left = Lxc[c], ![c].got = {}, ![c].polls = @ + 1] /\ NoFault
     \/ PxFault /\ client' = [client EXCEPT ![c].polls = @ + 1]

\* Each container's addresses are asked of the node in the pool, in any
\* order and at the same time; one that fails ends the update without
\* effect. Addresses of the interfaces before those of the configuration.
NodeClient(c) == nodes[NodeName[c]]

LXCGetIPs(c, i) ==
  /\ client[c].pc = "ips" /\ i \in client[c].left /\ ClientOnly /\ UNCHANGED nodes
  /\ \/ /\ LET from == NodeClient(c) IN
           client' = [client EXCEPT ![c].left = @ \ {i},
                                    ![c].got = @ \cup {[id |-> i, name |-> LxcName[i], ip |-> pve[from][i].ip]}]
        /\ NoFault
     \/ PxFault /\ client' = [client EXCEPT ![c].pc = "idle", ![c].left = {}, ![c].got = {}]

StoreResources(c) ==
  /\ client[c].pc = "ips" /\ client[c].left = {} /\ ClientOnly /\ NoFault /\ UNCHANGED nodes
  /\ client' = [client EXCEPT ![c].pc = "idle", ![c].got = {}, ![c].table = client[c].got]

\* ReverseLookupResource: the first of the map that fits by address, by the
\* host's first label or by the alias; "" stands for what is not asked.
ReverseLookupResource(c, ip, host, alias) ==
  {r \in client[c].table : (ip # "" /\ r.ip = ip) \/ (host # "" /\ r.name = host) \/ (alias # "" /\ r.name = alias)}

(***************************************************************************)
(* Actions on the watched container.                                       *)
(***************************************************************************)
Effect(action) ==
  CASE action = "shutdown" -> "stopped" [] action = "suspend" -> "suspended" [] OTHER -> "running"

LXCAction(action) ==
  /\ act.pc = "idle" /\ moves < MaxMoves /\ moves' = moves + 1
  /\ \/ act' = [pc |-> "wait", action |-> action, task |-> "running", saw |-> "none"] /\ NoFault
     \/ PxFault /\ act' = [act EXCEPT !.pc = "failed", !.action = action]
  /\ UNCHANGED <<pve, nodes, client, watch>>

\* The cluster's task ends, with its effect or without.
TaskEnds ==
  /\ act.task = "running" /\ WatchedOnly /\ UNCHANGED watch
  /\ act' = [act EXCEPT !.task = "ended"]
  /\ \/ pve' = [pve EXCEPT ![Watched[1]][Watched[2]].state = Effect(act.action)] /\ NoFault
     \/ PxFault /\ UNCHANGED pve

(* Mutant: the state is not looked at.                                     *)
HasEffectMutant(action, state) == TRUE

\* The ticker: done once the task has ended and the state is the one the
\* action is for; nothing counts as the effect of a resume or a reboot.
HasEffect(action, state) ==
  \/ action = "start" /\ state = "running"
  \/ action = "shutdown" /\ state = "stopped"
  \/ action = "suspend" /\ state = "suspended"

CheckTask ==
  /\ act.pc = "wait" /\ WatchedOnly /\ UNCHANGED <<pve, watch>>
  /\ \/ /\ act.task = "ended" /\ HasEffect(act.action, State) /\ NoFault
        /\ act' = [act EXCEPT !.pc = "done", !.saw = State]
     \/ PxFault /\ act' = [act EXCEPT !.pc = "failed"]      \* a request fails or the context ends

ActionReturns ==
  /\ act.pc \in {"done", "failed"} /\ act' = [act EXCEPT !.pc = "idle", !.task = "none"]
  /\ WatchedOnly /\ NoFault /\ UNCHANGED <<pve, watch>>

(***************************************************************************)
(* Watch.                                                                  *)
(***************************************************************************)
WatchBegins ==
  /\ watch.pc = "off" /\ WatchedOnly /\ UNCHANGED <<pve, act>>
  /\ \/ /\ watch' = [watch EXCEPT !.pc = "poll", !.running = (State = "running"), !.first = (State = "running")] /\ NoFault
     \/ PxFault /\ watch' = [watch EXCEPT !.pc = "ended"]

\* A state that is neither running nor stopped ends the watch with an error.
PollState ==
  /\ watch.pc = "poll" /\ WatchedOnly /\ UNCHANGED <<pve, act>>
  /\ \/ /\ State \notin {"running", "stopped"} /\ NoFault /\ watch' = [watch EXCEPT !.pc = "ended"]
     \/ PxFault /\ watch' = [watch EXCEPT !.pc = "ended"]
     \/ /\ State \in {"running", "stopped"} /\ watch.running # (State = "running") /\ NoFault
        /\ watch' = [watch EXCEPT !.pc = "send", !.running = ~@]

SendEvent ==
  /\ watch.pc = "send"
  /\ watch' = [watch EXCEPT !.pc = "poll", !.sent = Append(@, IF watch.running THEN "start" ELSE "stop")]
  /\ WatchedOnly /\ NoFault /\ UNCHANGED <<pve, act>>

\* External: somebody starts or stops a container, or it gets an address.
Changes(c, i) ==
  /\ moves < MaxMoves /\ moves' = moves + 1
  /\ \E s \in {"running", "stopped"}, a \in Address[c][i] :
       pve' = [pve EXCEPT ![c][i] = [state |-> s, ip |-> a]]
  /\ UNCHANGED <<nodes, client, act, watch>> /\ NoFault

ProxmoxNext ==
  \/ \E c \in Clusters :
       \/ UpdateClusterInfo(c) \/ ListResources(c) \/ StoreResources(c)
       \/ \E i \in Lxc[c] : LXCGetIPs(c, i) \/ Changes(c, i)
  \/ \E action \in {"start", "shutdown", "suspend", "resume"} : LXCAction(action)
  \/ TaskEnds \/ CheckTask \/ ActionReturns \/ WatchBegins \/ PollState \/ SendEvent

ProxmoxSpec == ProxmoxInit /\ [][ProxmoxNext]_pxVars

(***************************************************************************)
(* Properties.                                                             *)
(***************************************************************************)
\* A table names the containers of its own cluster with addresses of theirs,
\* all of them or none, although the node pool is shared and ids repeat in
\* clusters; a lookup that only one container fits finds that one.
TablesOwn ==
  \A c \in Clusters :
    /\ \A r \in client[c].table : r.id \in Lxc[c] /\ r.ip \in Address[c][r.id]
    /\ client[c].table # {} => {r.id : r \in client[c].table} = Lxc[c]
    /\ \A i \in Lxc[c] : \A r \in ReverseLookupResource(c, "", LxcName[i], "") : LxcName[r.id] = LxcName[i]

\* Events alternate and end with the state the watch knows: a consumer that
\* applies them in order never thinks otherwise than the watch, but for the
\* event that is being sent.
WatchTells ==
  LET told == IF watch.sent = <<>> THEN watch.first ELSE Last(watch.sent) = "start" IN
  /\ watch.pc \in {"poll", "send"} => (told = watch.running) = (watch.pc = "poll")
  /\ \A k \in 1..(Len(watch.sent) - 1) : watch.sent[k] # watch.sent[k + 1]
  /\ watch.sent # <<>> => (watch.sent[1] = "start") = ~watch.first

\* An action is reported as done only when the container was in the state it
\* is for, also when somebody else changes it at the same time.
DoneIsDone == act.pc = "done" => act.saw = Effect(act.action)

\* Proxmox as a whole.
ProxmoxSound == TablesOwn /\ WatchTells /\ DoneIsDone
=============================================================================
