----------------------------- MODULE Entrypoint -----------------------------
(***************************************************************************)
(* The entrypoint (internal/entrypoint): which route a request's host      *)
(* leads to, and the short links, two maps that starting and ending routes *)
(* change concurrently while redirects read them.                          *)
(*                                                                         *)
(* A name is the sequence of its labels; one with several labels is fully  *)
(* qualified.                                                              *)
(***************************************************************************)
EXTENDS Integers, Sequences

CONSTANTS Aliases,          \* of the routes that may start
          EpHosts,          \* the names requests ask for, without the port
          MatchDomains,     \* the possible lists of match_domains
          ShortLinkPrefix,
          MaxStarts         \* bound: how often routes start

\* Names are sequences of labels; no route without an alias is started.
Labels ==
  LET of(name) == {name[i] : i \in DOMAIN name} IN
  UNION {of(n) : n \in Aliases \cup EpHosts}
    \cup UNION {UNION {of(ds[k]) : k \in DOMAIN ds} : ds \in MatchDomains}
ASSUME EpAssumption ==
  /\ Aliases \subseteq Seq(Labels) \ {<<>>} /\ EpHosts \subseteq Seq(Labels)
  /\ MatchDomains \subseteq Seq(Seq(Labels))

VARIABLES domains, suffix,  \* match_domains; the default domain, <<>> for none
          httpPool,         \* the aliases in routes.HTTP
          fqdnRoutes, subdomainRoutes,
          linker,           \* [alias -> where its route is in adding or removing its link]
          starts, answer    \* answer: what the last request got

epVars == <<domains, suffix, httpPool, fqdnRoutes, subdomainRoutes, linker, starts, answer>>

Qualified(name) == Len(name) > 1
Key(name) == <<name[1]>>
NoRoute == <<>>
NothingYet == [to |-> "nothing", name |-> NoRoute, host |-> NoRoute]

EpInit ==
  /\ domains \in MatchDomains
  /\ suffix = IF domains = <<>> THEN <<>> ELSE domains[1]
  /\ httpPool = {} /\ fqdnRoutes = <<>> /\ subdomainRoutes = {}
  /\ linker = [a \in Aliases |-> "out"] /\ starts = 0 /\ answer = NothingYet

(***************************************************************************)
(* A route that starts enters the pool, then the short links; one that     *)
(* ends leaves them in the same order.                                     *)
(***************************************************************************)
SetTo(map, k, v) == [x \in DOMAIN map \cup {k} |-> IF x = k THEN v ELSE map[x]]
Unlinked(map, k) == [x \in DOMAIN map \ {k} |-> map[x]]
Goes(a, pc) == linker' = [linker EXCEPT ![a] = pc]
LinksOnly == UNCHANGED <<domains, suffix, httpPool, starts, answer>>

PoolAdd(a) ==
  /\ linker[a] = "out" /\ starts < MaxStarts /\ starts' = starts + 1
  /\ httpPool' = httpPool \cup {a} /\ Goes(a, "adding")
  /\ UNCHANGED <<domains, suffix, fqdnRoutes, subdomainRoutes, answer>>

\* A plain alias has a link only where there is a default domain.
AddSubdomain(a) ==
  /\ linker[a] = "adding" /\ ~Qualified(a) /\ Goes(a, "in")
  /\ subdomainRoutes' = IF suffix = <<>> THEN subdomainRoutes ELSE subdomainRoutes \cup {a}
  /\ UNCHANGED fqdnRoutes /\ LinksOnly

AddFQDN(a) ==
  /\ linker[a] = "adding" /\ Qualified(a) /\ Goes(a, "claiming")
  /\ fqdnRoutes' = SetTo(fqdnRoutes, a, a)
  /\ UNCHANGED subdomainRoutes /\ LinksOnly

\* Its first label becomes a link too unless it is one; the look at the two
\* maps and the store are separate steps of other routes.
LooksAtKey(a) ==
  /\ linker[a] = "claiming"
  /\ Goes(a, IF Key(a) \in subdomainRoutes \/ Key(a) \in DOMAIN fqdnRoutes THEN "in" ELSE "storing")
  /\ UNCHANGED <<fqdnRoutes, subdomainRoutes>> /\ LinksOnly

StoreKey(a) ==
  /\ linker[a] = "storing" /\ Goes(a, "in")
  /\ fqdnRoutes' = SetTo(fqdnRoutes, Key(a), a)
  /\ UNCHANGED subdomainRoutes /\ LinksOnly

PoolDel(a) ==
  /\ linker[a] = "in" /\ httpPool' = httpPool \ {a} /\ Goes(a, "removing")
  /\ UNCHANGED <<domains, suffix, fqdnRoutes, subdomainRoutes, starts, answer>>

DelRoute(a) ==
  /\ linker[a] = "removing"
  /\ IF Qualified(a)
     THEN /\ fqdnRoutes' = Unlinked(fqdnRoutes, a) /\ Goes(a, "releasing")
          /\ UNCHANGED subdomainRoutes
     ELSE /\ subdomainRoutes' = subdomainRoutes \ {a} /\ Goes(a, "out")
          /\ UNCHANGED fqdnRoutes
  /\ LinksOnly

(* Mutant: the first label is never released.                              *)
OwnsKeyMutant(a) == FALSE

\* The first label is released by the route it leads to only.
OwnsKey(a) == Key(a) \in DOMAIN fqdnRoutes /\ fqdnRoutes[Key(a)] = a

ReleaseKey(a) ==
  /\ linker[a] = "releasing" /\ Goes(a, "out")
  /\ fqdnRoutes' = IF OwnsKey(a) THEN Unlinked(fqdnRoutes, Key(a)) ELSE fqdnRoutes
  /\ UNCHANGED subdomainRoutes /\ LinksOnly

(***************************************************************************)
(* Requests.                                                               *)
(***************************************************************************)
InPool(names) ==        \* the first of names that the pool has
  LET found == {k \in DOMAIN names : names[k] \in httpPool}
  IN  IF found = {} THEN NoRoute ELSE names[CHOOSE k \in found : \A j \in found : k <= j]

\* The first label, then the host: as it came (with a port it is no alias)
\* and without its port.
findRouteAnyDomain(host) ==
  InPool((IF Qualified(host) THEN <<Key(host)>> ELSE <<>>) \o <<host>>)

CutSuffix(name, domain) ==
  LET n == Len(name) - Len(domain) IN
  IF n > 0 /\ SubSeq(name, n + 1, Len(name)) = domain THEN SubSeq(name, 1, n) ELSE NoRoute

findRouteByDomains(host) ==
  InPool([k \in DOMAIN domains |-> CutSuffix(host, domains[k])] \o <<host>>)

findRoute(host) == IF domains = <<>> THEN findRouteAnyDomain(host) ELSE findRouteByDomains(host)

\* ServeHTTP: a route, else the short links for their host, else not found.
ServeHost(host) ==
  /\ answer' = [host |-> host, name |-> findRoute(host),
                to |-> IF findRoute(host) # NoRoute THEN "route"
                       ELSE IF host = ShortLinkPrefix THEN "shortlink" ELSE "notfound"]
  /\ UNCHANGED <<domains, suffix, httpPool, fqdnRoutes, subdomainRoutes, linker, starts>>

\* Where a short link of key redirects to.
TargetHost(key) ==
  IF key \in DOMAIN fqdnRoutes THEN fqdnRoutes[key]
  ELSE IF ~Qualified(key) /\ key \in subdomainRoutes /\ suffix # <<>> THEN key \o suffix ELSE NoRoute

EpNext ==
  \/ \E a \in Aliases :
       \/ PoolAdd(a) \/ AddSubdomain(a) \/ AddFQDN(a) \/ LooksAtKey(a) \/ StoreKey(a)
       \/ PoolDel(a) \/ DelRoute(a) \/ ReleaseKey(a)
  \/ \E host \in EpHosts : ServeHost(host)

EpSpec == EpInit /\ [][EpNext]_epVars

(***************************************************************************)
(* Properties.                                                             *)
(***************************************************************************)
\* A short link leads to a route that is there, or whose removal is under
\* way: no link outlives its route, in whatever order routes of the same
\* first label come and go.
LinksLead ==
  /\ \A k \in DOMAIN fqdnRoutes : linker[fqdnRoutes[k]] # "out"
  /\ \A k \in subdomainRoutes : linker[k] # "out"

\* A route that is there has a link: a qualified one under its own name, a
\* plain one where there is a default domain, unless a qualified name took
\* its label.
RoutesLinked ==
  \A a \in Aliases : linker[a] = "in" =>
    IF Qualified(a) THEN TargetHost(a) = a
    ELSE suffix # <<>> => TargetHost(a) = a \o suffix \/ Key(a) \in DOMAIN fqdnRoutes

\* Requests reach a route that the host names, whole or by its first part,
\* and a host that is itself an alias in the pool is never not found.
HostsServed ==
  \A host \in EpHosts :
    LET r == findRoute(host) IN
    /\ r # NoRoute => r \in httpPool /\ r = SubSeq(host, 1, Len(r))
    /\ host \in httpPool => r # NoRoute
    /\ r # NoRoute /\ domains # <<>> =>
         r = host \/ \E k \in DOMAIN domains : r \o domains[k] = host

\* The entrypoint as a whole.
EntrypointSound == LinksLead /\ RoutesLinked /\ HostsServed
=============================================================================
