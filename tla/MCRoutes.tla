------------------------------ MODULE MCRoutes ------------------------------
(***************************************************************************)
(* Small instances, for TLC, of what makes, keeps and measures routes:     *)
(* RouteProvider, the texts they are read from (EnvReader, DockerLabels),  *)
(* RouteValidate, RouteLinks, the agents and nodes they are found on       *)
(* (AgentEnroll, AgentTunnel, Proxmox), and their records (Metrics,        *)
(* LogRotate).  They share no state, so that their steps commute: a        *)
(* behaviour lets one of them move, and the others stay where they start.  *)
(***************************************************************************)
EXTENDS RouteProvider, EnvReader, DockerLabels, RouteValidate, RouteLinks,
        AgentEnroll, AgentTunnel, Proxmox, Metrics, LogRotate, TLC

CONSTANTS a1, a2, d1, ex, bad, ra, rb, rc, rd, rf

(* Provider: an ordinary definition, an excluded and an invalid one.       *)
TwoAliases == {a1, a2}
AliasSymmetry == Permutations(TwoAliases)

(* Texts of up to five pieces: a letter, the beginnings of a reference,    *)
(* references to a variable that is set and to one that is not.            *)
Pieces   == {<<"a">>, <<"$">>, <<"$", "{">>, <<"$", "{", "A", "}">>, <<"$", "{", "B", "}">>}
SomeTexts == {FlattenSeq(p) : p \in UNION {[1..n -> Pieces] : n \in 0..5}}
OneSet   == { <<"A">> }

(* Labels by name, by position and with a wildcard, plain and YAML, also   *)
(* nested and empty.                                                       *)
Text(v) == <<>> :> v
Yaml(s, v) == <<s>> :> v
SomeLabels ==
  {[path |-> <<"a", "host">>, value |-> Text("1")], [path |-> <<"#1", "port">>, value |-> Text("2")],
   [path |-> <<"b", "port">>, value |-> Text("3")], [path |-> <<"*", "port">>, value |-> Text("w")],
   [path |-> <<"*">>, value |-> Yaml("host", "y")], [path |-> <<"a", "hc", "path">>, value |-> Text("4")],
   [path |-> <<"a">>, value |-> Yaml("host", "5")], [path |-> <<"b">>, value |-> Text("")],
   [path |-> <<"#1">>, value |-> Yaml("port", "6")], [path |-> <<"*", "hc">>, value |-> Yaml("path", "z")]}
SomeLists    == {<<"a">>, <<"b", "a">>}
SixRefs    == <<"#1", "#2", "#3", "#4", "#5", "#6">>
FourNetworks == {[name |-> "n", address |-> "10.1"], [name |-> "n", address |-> ""],
                 [name |-> "p_n", address |-> "10.2"], [name |-> "m", address |-> "10.3"]}
OneCompose   == "n" :> "p_n"

(* Routes as they are read: of files, and of containers with every kind of *)
(* ports, networks, states and names.                                      *)
NoContainer == [id |-> "none"]
Container(ports, hostNet, running_, excl, black, name, image, priv) ==
  [id |-> "c", ports |-> ports, udp |-> {53}, hostNet |-> hostNet, running |-> running_,
   isExcluded |-> excl, isExplicit |-> FALSE, blacklisted |-> black, name |-> name,
   image |-> image, privateHost |-> priv, publicHost |-> "pub"]
PortLists == {{}, {<<8080, 80>>, <<0, 53>>}, {<<53, 53>>}, {<<9000, 7000>>, <<9001, 7001>>},
              {<<80, 3000>>, <<8080, 80>>}}
SomeContainers ==
  {Container(p, n, r, FALSE, FALSE, "app", "known", "priv") : p \in PortLists, n \in BOOLEAN, r \in BOOLEAN}
  \cup {Container(p, FALSE, TRUE, FALSE, FALSE, "app", "img", "") : p \in PortLists}
  \cup {Container({<<8080, 80>>, <<0, 53>>}, FALSE, TRUE, e, b, nm, "img", "priv") :
          e \in BOOLEAN, b \in BOOLEAN, nm \in {"app", "buildx"}}
SomeSpecs ==
  [alias : {"app", "portainer"}, scheme : {"", "https", "tcp", "fileserver"}, host : {"", "pub"},
   lp : {0, 9000}, pp : {0, 80}, cont : SomeContainers, idle : BOOLEAN, lb : BOOLEAN,
   hcOff : {FALSE}, agent : {FALSE}]
  \cup
  [alias : {"app", "portainer", "x-anchor", "app-old"}, scheme : {"", "http", "https", "udp", "fileserver"},
   host : {"", "pub"}, lp : {0, 9000}, pp : {0, 80, 8443}, cont : {NoContainer}, idle : {FALSE},
   lb : BOOLEAN, hcOff : BOOLEAN, agent : BOOLEAN]
KnownImages  == [known |-> <<"http", 3000>>]
KnownAliases == [portainer |-> <<"https", 9443>>]

(* Three routes of one load balancer; an ordinary one and a file server    *)
(* that compete for an alias.                                              *)
FiveRoutes == {ra, rb, rc, rd, rf}
SomeKinds  == [r \in FiveRoutes |-> CASE r \in {ra, rb, rc} -> "lb" [] r = rd -> "http" [] r = rf -> "file"]
SomeKeys   == [r \in FiveRoutes |-> IF r \in {ra, rb, rc} THEN "link" ELSE "app"]

(* Two clusters of one node each, with an LXC of the same id in both.      *)
TwoNodes   == [c1 |-> "pve1", c2 |-> "pve2"]
SomeLxc    == [c1 |-> {100, 101}, c2 |-> {100}]
SomeIPs    == [c1 |-> (100 :> {"x"} @@ 101 :> {"y", "z"}), c2 |-> (100 :> {"u"} @@ 101 :> {})]
LxcNames   == 100 :> "web" @@ 101 :> "db"
OneWatched == <<"c2", 100>>

TwoPeriods == [short |-> 2, long |-> 4]

(* Log lines of every format, of one byte and of two, of today and before. *)
SomeLines ==
  {[len |-> n, fmt |-> f[1], t |-> f[2]] : n \in {1, 2}, f \in {<<"json", 1>>, <<"common", 2>>}}
  \cup {[len |-> 1, fmt |-> "common6", t |-> 2], [len |-> 2, fmt |-> "junk", t |-> 0]}
SomeRetentions ==
  {[n |-> n, unit |-> "last"] : n \in 0..2} \cup {[n |-> n, unit |-> "days"] : n \in 1..2}
  \cup {[n |-> 1, unit |-> "weeks"], [n |-> 2, unit |-> "kb"], [n |-> 1, unit |-> "KB"]}
UnitSizes == [kb |-> 2, KB |-> 3]

VARIABLE part

(* The many initial states of one module go with the first of the others.  *)
RoutesInit ==
  /\ part \in {"provider", "env", "labels", "validate", "links", "enroll", "tunnel",
               "proxmox", "metrics", "rotate"}
  /\ ProviderInit /\ (part # "provider" => world = noTable)
  /\ EnvReaderInit /\ (part # "env" => er.text = <<>>)
  /\ DockerLabelsInit /\ (part # "labels" => dl.given = {} /\ Len(dl.aliases) = 1)
  /\ MetricsInit /\ (part # "metrics" => file = Unreadable)
  /\ ValidateInit /\ LinksInit /\ EnrollInit /\ TunnelInit /\ ProxmoxInit /\ RotateInit

RoutesNext ==
  \/ part = "provider" /\ ProviderNext
     /\ UNCHANGED <<part, er, dlVars, rv, rlVars, enVars, tnVars, pxVars, meVars, lr>>
  \/ part = "env" /\ EnvReaderNext
     /\ UNCHANGED <<part, rpVars, dlVars, rv, rlVars, enVars, tnVars, pxVars, meVars, lr>>
  \/ part = "labels" /\ DockerLabelsNext
     /\ UNCHANGED <<part, rpVars, er, rv, rlVars, enVars, tnVars, pxVars, meVars, lr>>
  \/ part = "validate" /\ ValidateNext
     /\ UNCHANGED <<part, rpVars, er, dlVars, rlVars, enVars, tnVars, pxVars, meVars, lr>>
  \/ part = "links" /\ LinksNext
     /\ UNCHANGED <<part, rpVars, er, dlVars, rv, enVars, tnVars, pxVars, meVars, lr>>
  \/ part = "enroll" /\ EnrollNext
     /\ UNCHANGED <<part, rpVars, er, dlVars, rv, rlVars, tnVars, pxVars, meVars, lr>>
  \/ part = "tunnel" /\ TunnelNext
     /\ UNCHANGED <<part, rpVars, er, dlVars, rv, rlVars, enVars, pxVars, meVars, lr>>
  \/ part = "proxmox" /\ ProxmoxNext
     /\ UNCHANGED <<part, rpVars, er, dlVars, rv, rlVars, enVars, tnVars, meVars, lr>>
  \/ part = "metrics" /\ MetricsNext
     /\ UNCHANGED <<part, rpVars, er, dlVars, rv, rlVars, enVars, tnVars, pxVars, lr>>
  \/ part = "rotate" /\ RotateNext
     /\ UNCHANGED <<part, rpVars, er, dlVars, rv, rlVars, enVars, tnVars, pxVars, meVars>>

RoutesSpec ==
  RoutesInit /\ [][RoutesNext]_<<part, rpVars, er, dlVars, rv, rlVars, enVars, tnVars, pxVars, meVars, lr>>
=============================================================================
