---------------------------- MODULE RouteValidate ----------------------------
(***************************************************************************)
(* Validation of one route, from what its provider read to the decision of *)
(* start: defaults for scheme, host and port, the lookup of a proxmox      *)
(* node, the checks, the implementation, the exclusion, and the homepage   *)
(* item.  A container maps public to private ports; a name stands for the  *)
(* class of names the code tells apart.                                    *)
(***************************************************************************)
EXTENDS Integers, Sequences, FiniteSets

CONSTANTS RouteSpecs,    \* routes as read: records
          ReservedPorts, \* ports of the program itself
          ImagePort,     \* image name -> <<scheme, port>> for known images
          AliasPort      \* alias -> <<scheme, port>> for known aliases

Schemes == {"http", "https", "h2c", "tcp", "udp", "fileserver"}

(* Aliases, containers and images have names, and schemes are the ones the *)
(* parser accepts.                                                         *)
ASSUME SpecsAssumption ==
  /\ \A s \in RouteSpecs :
       /\ s.alias # "" /\ s.scheme \in Schemes \cup {""}
       /\ s.cont.id # "none" => s.cont.name # "" /\ s.cont.image # ""
  /\ \A i \in DOMAIN ImagePort : ImagePort[i][1] \in Schemes
  /\ \A a \in DOMAIN AliasPort : AliasPort[a][1] \in Schemes

VARIABLE rv

rvVars == <<rv>>

ValidateInit == rv = [pc |-> "idle"]

ReadRoute ==
  /\ rv.pc = "idle"
  /\ \E s \in RouteSpecs :
       rv' = [pc |-> "read", in |-> s, alias |-> s.alias, scheme |-> s.scheme, host |-> s.host,
              lp |-> s.lp, pp |-> s.pp, cont |-> s.cont, idle |-> s.idle, lb |-> s.lb,
              hcOff |-> s.hcOff, agent |-> s.agent, pve |-> "none", lis |-> FALSE,
              impl |-> "none", atCheck |-> FALSE, excluded |-> FALSE, auto |-> FALSE,
              name |-> "", category |-> ""]

-----------------------------------------------------------------------------
IsDocker(r) == r.cont.id # "none"

(* Pairs <<public, private>> of a container: keyed by either; ports that   *)
(* are not published have public port 0 and are in the private map only.   *)
PublicPorts(c)  == {p[1] : p \in {q \in c.ports : q[1] # 0}}
PrivatePorts(c) == {p[2] : p \in c.ports}
PrivateOf(c, public)  == (CHOOSE p \in c.ports : p[1] = public)[2]
PublicOf(c, private)  == (CHOOSE p \in c.ports : p[2] = private)[1]

PreferredOrder == <<80, 8080, 3000, 8000, 443, 8443>>

(* preferredPort of public to private ports: the first preferred one that  *)
(* is mapped, or one with the lowest private port, or 0.                   *)
PreferredPort(private) ==
  LET keys == DOMAIN private
      hits == {i \in DOMAIN PreferredOrder : PreferredOrder[i] \in keys} IN
  IF hits # {} THEN {PreferredOrder[CHOOSE i \in hits : \A j \in hits : i <= j]}
  ELSE IF keys = {} THEN {0}
  ELSE {k \in keys : \A o \in keys : private[k] <= private[o]}

DefaultHost(r) ==
  IF r.host # "" THEN r.host
  ELSE IF ~IsDocker(r) THEN "localhost"
  ELSE IF r.cont.privateHost # "" THEN r.cont.privateHost ELSE r.cont.publicHost

(* Scheme and port known for an image or an alias, in this order.          *)
Known(r) ==
  LET byImage == IF IsDocker(r) /\ r.cont.image \in DOMAIN ImagePort
                   THEN <<ImagePort[r.cont.image]>> ELSE << >>
      byAlias == IF r.alias \in DOMAIN AliasPort THEN <<AliasPort[r.alias]>> ELSE << >> IN
  byImage \o byAlias

(* Mutant: the private port whatever the host name.                        *)
FinalPortMutant(r, host, pp) ==
  IF pp \in PublicPorts(r.cont) THEN PrivateOf(r.cont, pp) ELSE pp

(* Public ports for the public host name, private ones for the private.    *)
FinalPort(r, host, pp) ==
  IF host = r.cont.publicHost
    THEN IF pp \in PrivatePorts(r.cont) THEN PublicOf(r.cont, pp) ELSE pp
    ELSE IF pp \in PublicPorts(r.cont) THEN PrivateOf(r.cont, pp) ELSE pp

(* Finalize: what is not given comes from the image, the alias, the ports  *)
(* of the container and the scheme.                                        *)
Finalize ==
  /\ rv.pc = "read"
  /\ LET known == Known(rv)
         host == DefaultHost(rv)
         scheme1 == IF rv.scheme = "" /\ known # << >> THEN known[1][1] ELSE rv.scheme
         pp1 == IF rv.pp = 0 /\ known # << >> THEN known[1][2] ELSE rv.pp
         c == rv.cont
         ports == IF pp1 # 0 THEN {pp1}
                  ELSE IF ~IsDocker(rv) THEN {IF scheme1 = "https" THEN 443 ELSE 80}
                  ELSE IF c.hostNet THEN PreferredPort([k \in PublicPorts(c) |-> PrivateOf(c, k)])
                  ELSE PreferredPort([k \in PrivatePorts(c) |-> k]) IN
     \E pp2 \in ports :
       LET scheme2 == IF IsDocker(rv) /\ scheme1 = "" /\ (\E p \in c.ports : p[1] # 0 /\ p[2] = pp2 /\ pp2 \in c.udp)
                        THEN "udp" ELSE scheme1
           pp3 == IF IsDocker(rv) THEN FinalPort(rv, host, pp2) ELSE pp2
           scheme3 == IF scheme2 # "" THEN scheme2
                      ELSE IF rv.lp # 0 THEN "tcp"
                      ELSE IF pp3 % 1000 = 443 THEN "https" ELSE "http" IN
       rv' = [rv EXCEPT !.pc = "final", !.host = host, !.pp = pp3, !.scheme = scheme3,
                        !.auto = (pp1 = 0)]

(* The lookup of a proxmox node, then of a guest, by host, address or      *)
(* alias; containers are not looked up.                                    *)
LookupProxmox ==
  /\ rv.pc = "final"
  /\ \E found \in {"none", "node", "lxc"} :
       /\ found # "none" => ~IsDocker(rv)
       /\ rv' = [rv EXCEPT !.pc = "found", !.pve = found]

(* validateProxmox: a node is served at its API; for a guest without a     *)
(* host the first address that answers is taken, if one does.              *)
ValidateProxmox ==
  /\ rv.pc = "found"
  /\ \E reachable \in BOOLEAN :
       rv' = CASE rv.pve = "node" ->
                    [rv EXCEPT !.pc = "looked", !.scheme = "https", !.pp = 8006,
                               !.host = IF @ = "localhost" THEN "pve" ELSE @]
               [] rv.pve = "lxc" /\ reachable ->
                    [rv EXCEPT !.pc = "looked", !.host = IF @ = "localhost" THEN "guest" ELSE @]
               [] OTHER -> [rv EXCEPT !.pc = "looked"]

-----------------------------------------------------------------------------
UseIdleWatcher(r) == r.idle
UseLoadBalance(r) == r.lb
IsAgent(r) == r.agent

UseHealthCheck(r) ==
  /\ ~r.hcOff
  /\ IsDocker(r) => /\ r.cont.image # "godoxy-agent"
                    /\ r.cont.running \/ UseIdleWatcher(r)
                    /\ r.cont.name # "buildx"

(* findExcludedReason, while validation has not failed.                    *)
FindExcludedReason(r) ==
  IF IsDocker(r) /\ r.cont.isExcluded THEN "manual"
  ELSE IF IsDocker(r) /\ r.pp = 0 /\ ~UseIdleWatcher(r) THEN "no port in container"
  ELSE IF IsDocker(r) /\ ~r.cont.isExplicit /\ r.cont.blacklisted THEN "blacklisted"
  ELSE IF IsDocker(r) /\ r.cont.name = "buildx" THEN "buildx"
  ELSE IF ~IsDocker(r) /\ r.pp = 0 /\ r.scheme # "fileserver" THEN "no port"
  ELSE IF r.alias = "x-anchor" THEN "anchor"
  ELSE IF r.alias = "app-old" THEN "old"
  ELSE "none"

ShouldExclude(r) == FindExcludedReason(r) # "none"

ReverseProxied == {"http", "https", "h2c"}

(* The checks: ports of the program itself, a listening port where there   *)
(* is none, health checks where they are needed.  Streams get the address  *)
(* they listen on unless they are excluded.                                *)
CheckRoute ==
  /\ rv.pc = "looked"
  /\ LET excl == ShouldExclude(rv)
         reserved == /\ ~IsAgent(rv) /\ ~excl /\ rv.host = "localhost" /\ rv.pp \in ReservedPorts
                     /\ rv.scheme \in ReverseProxied \union {"tcp"}
         listens == rv.scheme \in ReverseProxied /\ rv.lp # 0
         unchecked == ~UseHealthCheck(rv) /\ (UseLoadBalance(rv) \/ UseIdleWatcher(rv)) IN
     rv' = IF reserved \/ listens \/ unchecked THEN [rv EXCEPT !.pc = "invalid"]
           ELSE [rv EXCEPT !.pc = "checked", !.atCheck = excl,
                           !.lis = rv.scheme \in {"tcp", "udp"} /\ ~excl,
                           !.host = IF rv.scheme = "fileserver" THEN "" ELSE @,
                           !.pp = IF rv.scheme = "fileserver" THEN 0 ELSE @]

(* The implementation of the scheme; the exclusion is decided once more.   *)
BuildRoute ==
  /\ rv.pc = "checked"
  /\ rv' = [rv EXCEPT !.pc = "built", !.excluded = ShouldExclude(rv),
              !.impl = CASE rv.scheme = "fileserver" -> "file"
                         [] rv.scheme \in ReverseProxied -> "http"
                         [] OTHER -> "stream"]

(* References: names under which metadata and icons are looked up.         *)
References(r) ==
  CASE IsDocker(r) /\ r.cont.name # r.alias -> <<r.cont.name, r.alias, r.cont.image>>
    [] IsDocker(r) /\ r.cont.name = r.alias -> <<r.cont.image, r.alias>>
    [] ~IsDocker(r) /\ r.pve = "node" -> <<"", r.alias>>
    [] ~IsDocker(r) /\ r.pve = "lxc" -> <<"guest", r.alias>>
    [] OTHER -> <<r.alias>>

(* FinalizeHomepageConfig, without metadata for any of the names.          *)
FinalizeHomepage ==
  /\ rv.pc = "built"
  /\ rv' = IF ShouldExclude(rv) /\ IsDocker(rv)
             THEN [rv EXCEPT !.pc = "valid", !.name = rv.cont.name]
             ELSE [rv EXCEPT !.pc = "valid", !.name = References(rv)[1],
                             !.category = IF UseLoadBalance(rv) THEN "Load-balanced"
                                          ELSE IF IsDocker(rv) THEN "Docker" ELSE "Others"]

ValidateNext == \/ ReadRoute \/ Finalize \/ LookupProxmox \/ ValidateProxmox \/ CheckRoute \/ BuildRoute
                \/ FinalizeHomepage

ValidateSpec == ValidateInit /\ [][ValidateNext]_rvVars

-----------------------------------------------------------------------------
(* The exclusion that start looks at is the one the checks relied on: a    *)
(* stream that is started knows where to listen, nothing that is started   *)
(* is aimed at the program itself, every route that can be reached has a   *)
(* port unless a sleeping container has yet to show it.  Only a file       *)
(* server for a container changes sides, since its port is taken away.     *)
ExclusionStable ==
  rv.pc = "valid" =>
    /\ rv.excluded = ShouldExclude(rv)
    /\ rv.atCheck # rv.excluded => rv.impl = "file" /\ IsDocker(rv)
    /\ ~rv.excluded =>
         /\ rv.impl = "stream" <=> rv.lis
         /\ rv.impl # "file" /\ rv.pp = 0 => UseIdleWatcher(rv)
         /\ ~IsAgent(rv) /\ rv.impl = "http" => ~(rv.host = "localhost" /\ rv.pp \in ReservedPorts)
         /\ UseLoadBalance(rv) \/ UseIdleWatcher(rv) => UseHealthCheck(rv)

(* A port taken from the ports of a container is one of the host that the  *)
(* route is sent to: published on the public one, private otherwise; zero  *)
(* if the chosen one is not published.                                     *)
PortOfHost ==
  rv.pc = "valid" /\ IsDocker(rv) /\ rv.auto /\ rv.impl # "file" =>
    IF rv.host = rv.cont.publicHost
      THEN rv.pp \in PublicPorts(rv.cont) \union {0}
      ELSE rv.pp \in PrivatePorts(rv.cont) \union {0}

(* Every route has a name to show, except a proxmox node found by lookup.  *)
NamedOnHomepage == rv.pc = "valid" /\ rv.pve # "node" => rv.name # ""

(* A validated route is consistent (validate, Finalize, findExcludedReason *)
(* and start look at the same fields at different times).                  *)
ValidRouteConsistent == ExclusionStable /\ PortOfHost /\ NamedOnHomepage
=============================================================================
