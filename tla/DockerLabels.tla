---------------------------- MODULE DockerLabels ----------------------------
(***************************************************************************)
(* From a container to its routes (internal/docker FromDocker, ParseLabels *)
(* and routesFromContainerLabels of the docker provider). The labels are a *)
(* Go map: every pass over them goes in an order of its own, so each pass  *)
(* here takes the labels left in any order.                                *)
(*                                                                         *)
(* A label is its path below the proxy namespace and a value. A value is a *)
(* function from paths: a scalar from the empty path, a YAML text from the *)
(* paths of its scalars; the empty one, Node, stands for a nested map.     *)
(***************************************************************************)
EXTENDS Integers, Sequences, FiniteSets, SequencesExt

CONSTANTS Labels,          \* the labels a container may have: [path, value]
          AliasLists,      \* its possible aliases, by label or its name
          AliasRefs,       \* <<"#1", ...>>, the names by position
          Networks,        \* possible networks: [name, address], address "" for none
          ComposeOf,       \* [network name -> its name in the compose project]
          MaxLabels        \* bound

VARIABLES dl,      \* [phase, given, aliases, labels, left, wild, index, nested, cur, at, depth, errs, routes]
          net      \* [local, running, wanted, on, host, public, errs]

dlVars == <<dl, net>>

Wildcard == "*"
IsRef(a) == \E k \in DOMAIN AliasRefs : AliasRefs[k] = a
RefOf(a) == AliasRefs[dl.index[a] + 1]
Suffix(l) == Tail(l.path)
EmptyText == [s \in {<<>>} |-> ""]
Node == <<>>
Put(f, k, v) == [x \in DOMAIN f \cup {k} |-> IF x = k THEN v ELSE f[x]]
Over(f, g) == [x \in DOMAIN f \cup DOMAIN g |-> IF x \in DOMAIN g THEN g[x] ELSE f[x]]
Pass(phase, labels) == [dl EXCEPT !.phase = phase, !.labels = labels, !.left = labels]

(* Paths are not empty; aliases are different and no references (a route   *)
(* with a reference for a name is one that is out of range); the code has  *)
(* 100 references, and more aliases than that make it panic.               *)
ASSUME DockerLabelsAssumption ==
  /\ IsFiniteSet(Labels) /\ MaxLabels \in Nat
  /\ \A l \in Labels : l.path \in Seq(STRING) \ {<<>>} /\ DOMAIN l.value \in (SUBSET Seq(STRING)) \ {{}}
  /\ AliasRefs \in Seq(STRING) /\ IsInjective(AliasRefs) /\ ~IsRef(Wildcard)
  /\ \A aliases \in AliasLists :
       /\ aliases \in Seq(STRING) /\ IsInjective(aliases)
       /\ \A k \in DOMAIN aliases : ~IsRef(aliases[k]) /\ aliases[k] # Wildcard
       /\ Len(aliases) + MaxLabels <= Len(AliasRefs)

DockerLabelsInit ==
  /\ \E given \in SUBSET Labels, aliases \in AliasLists :
       /\ Cardinality(given) <= MaxLabels
       /\ \A l, m \in given : l.path = m.path => l = m
       /\ dl = [phase |-> "collect", given |-> given, aliases |-> aliases, labels |-> given, left |-> given,
                wild |-> <<>>, index |-> [a \in {aliases[k] : k \in DOMAIN aliases} |->
                                            (CHOOSE k \in DOMAIN aliases : aliases[k] = a) - 1],
                nested |-> <<>>, cur |-> <<>>, at |-> <<>>, depth |-> 0, errs |-> {}, routes |-> <<>>]
  /\ net = [phase |-> "list", local |-> TRUE, running |-> TRUE, wanted |-> "", on |-> {},
            host |-> "", public |-> "", errs |-> {}]

(***************************************************************************)
(* FromDocker: the address of the container.                               *)
(***************************************************************************)
HasIP(on, n) == \E x \in on : x.name = n /\ x.address # ""
IsOn(on, n) == \E x \in on : x.name = n
AddressOn(on, n) == (CHOOSE x \in on : x.name = n).address

\* Which address: on the network the label names, else on the network of
\* that name in the compose project, else none yet or an error; without a
\* label, on any network that has one.
setPrivateHostname(local, wanted, on) ==
  IF ~local THEN {<<"", {}>>}
  ELSE IF wanted = ""
  THEN LET some == {x \in on : x.address # ""} IN
       IF some = {} THEN {<<"", {}>>} ELSE {<<x.address, {}>> : x \in some}
  ELSE IF HasIP(on, wanted) THEN {<<AddressOn(on, wanted), {}>>}
  ELSE IF HasIP(on, ComposeOf[wanted]) THEN {<<AddressOn(on, ComposeOf[wanted]), {}>>}
  ELSE IF IsOn(on, wanted) \/ IsOn(on, ComposeOf[wanted]) THEN {<<"", {}>>}
  ELSE {<<"", {"network not found"}>>}

setPublicHostname(local, running) == IF ~running THEN "" ELSE IF local THEN "127.0.0.1" ELSE "dockerhost"

FromDocker(local, running, wanted, on) ==
  /\ net.phase = "list" /\ dl.given = {}      \* it shares nothing with the labels below
  /\ \E got \in setPrivateHostname(local, wanted, on) :
       LET public == setPublicHostname(local, running) IN
       net' = [phase |-> "got", local |-> local, running |-> running, wanted |-> wanted, on |-> on,
               host |-> got[1], public |-> public,
               errs |-> got[2] \cup IF got[1] = "" /\ public = "" /\ running THEN {"no network"} ELSE {}]
  /\ UNCHANGED dl

(***************************************************************************)
(* ExpandWildcard. First pass: wildcard labels are taken out, and aliases  *)
(* that only labels name are numbered as they come.                        *)
(***************************************************************************)
\* expandYamlWildcard ignores what is no mapping.
Flatten(v) == IF <<>> \in DOMAIN v THEN Node ELSE [s \in DOMAIN v |-> [e \in {<<>>} |-> v[s]]]

\* What a label sets, by suffix: one of a whole alias all that its text
\* has, and so does a text of several lines under any wildcard label.
Sets(l) ==
  IF Suffix(l) = <<>> \/ (l.path[1] = Wildcard /\ <<>> \notin DOMAIN l.value)
    THEN Flatten(l.value)
    ELSE [s \in {Suffix(l)} |-> l.value]

Collect(l) ==
  /\ dl.phase = "collect" /\ l \in dl.left
  /\ LET alias == l.path[1]  rest == [dl EXCEPT !.left = @ \ {l}] IN
     dl' = IF alias = Wildcard THEN [rest EXCEPT !.labels = @ \ {l}, !.wild = Over(@, Sets(l))]
           ELSE IF Suffix(l) = <<>> \/ IsRef(alias) \/ alias \in DOMAIN dl.index THEN rest
           ELSE [rest EXCEPT !.index = Put(@, alias, Cardinality(DOMAIN @))]
  /\ UNCHANGED net

Collected ==
  /\ dl.phase = "collect" /\ dl.left = {}
  /\ dl' = Pass(IF DOMAIN dl.wild = {} THEN "parse" ELSE "convert", dl.labels)
  /\ UNCHANGED net

\* Second pass: labels of known aliases become labels by number; one that a
\* wildcard gives too is dropped.
Overridden(l) == Suffix(l) \in DOMAIN dl.wild

ConvertLabel(l) ==
  /\ dl.phase = "convert" /\ l \in dl.left
  /\ LET kept == dl.labels \ {l}
         ref == [path |-> <<RefOf(l.path[1])>> \o Suffix(l), value |-> l.value] IN
     dl' = [dl EXCEPT !.left = @ \ {l},
              !.labels = IF IsRef(l.path[1]) \/ Suffix(l) = <<>> THEN @
                         ELSE IF Overridden(l) THEN kept
                         ELSE {m \in kept : m.path # ref.path} \cup {ref}]
  /\ UNCHANGED net

(* Mutant: a label by number wins over a wildcard.                         *)
SpreadMutant(labels, spread) == labels \cup {m \in spread : \A l \in labels : m.path # l.path}

\* Then every alias gets every wildcard label, over one it has by number.
Spread(labels, spread) == {l \in labels : \A m \in spread : m.path # l.path} \cup spread

Converted ==
  /\ dl.phase = "convert" /\ dl.left = {}
  /\ LET spread == {[path |-> <<RefOf(p[1])>> \o p[2], value |-> dl.wild[p[2]]] :
                      p \in (DOMAIN dl.index) \X (DOMAIN dl.wild)}
     IN  dl' = Pass("parse", Spread(dl.labels, spread))
  /\ UNCHANGED net

(***************************************************************************)
(* ParseLabels: one label after the other into a nested map, part by part. *)
(* A part that is a scalar already is an error, and the walk goes on from  *)
(* where it is; the last part is set, over whatever is there.              *)
(***************************************************************************)
Below(path, node) == Len(node) > Len(path) /\ \A i \in DOMAIN path : node[i] = path[i]

ParseLabel(l) ==
  /\ dl.phase = "parse" /\ l \in dl.left
  /\ dl' = [dl EXCEPT !.phase = "walk", !.left = @ \ {l}, !.cur = l, !.at = <<>>, !.depth = 0]
  /\ UNCHANGED net

WalkPart ==
  /\ dl.phase = "walk" /\ dl.depth + 1 < Len(dl.cur.path)
  /\ LET node == Append(dl.at, dl.cur.path[dl.depth + 1]) IN
     dl' = IF node \notin DOMAIN dl.nested \/ dl.nested[node] = EmptyText
           THEN [dl EXCEPT !.depth = @ + 1, !.at = node, !.nested = Put(@, node, Node)]
           ELSE IF dl.nested[node] = Node THEN [dl EXCEPT !.depth = @ + 1, !.at = node]
           ELSE [dl EXCEPT !.depth = @ + 1, !.errs = @ \cup {"expect mapping"}]
  /\ UNCHANGED net

SetValue ==
  /\ dl.phase = "walk" /\ dl.depth + 1 = Len(dl.cur.path)
  /\ LET node == Append(dl.at, dl.cur.path[dl.depth + 1])
         kept == [x \in {y \in DOMAIN dl.nested : ~Below(node, y)} |-> dl.nested[x]] IN
     dl' = [dl EXCEPT !.phase = "parse", !.nested = Put(kept, node, dl.cur.value)]
  /\ UNCHANGED net

Parsed ==
  /\ dl.phase = "parse" /\ dl.left = {}
  /\ dl' = [dl EXCEPT !.phase = "routes", !.left = {n \in DOMAIN dl.nested : Len(n) = 1},
                      !.routes = [a \in {dl.aliases[k] : k \in DOMAIN dl.aliases} |-> <<>>]]
  /\ UNCHANGED net

\* Each entry goes to its route: a number means the alias in that place, one
\* out of range is an error and the entry keeps the number as its name.
EntryOf(alias) ==
  IF dl.nested[<<alias>>] # Node THEN Flatten(dl.nested[<<alias>>])
  ELSE [s \in {Tail(n) : n \in {x \in DOMAIN dl.nested : Below(<<alias>>, x) /\ dl.nested[x] # Node}} |->
          dl.nested[<<alias>> \o s]]

RouteFromLabels(n) ==
  /\ dl.phase = "routes" /\ n \in dl.left
  /\ LET name == n[1]
         pos == IF IsRef(name) THEN CHOOSE k \in DOMAIN AliasRefs : AliasRefs[k] = name ELSE 0
         known == pos \in DOMAIN dl.aliases
         alias == IF known THEN dl.aliases[pos] ELSE name
         old == IF alias \in DOMAIN dl.routes THEN dl.routes[alias] ELSE <<>>
         scalar == <<>> \in DOMAIN dl.nested[n] /\ dl.nested[n] # EmptyText IN
     dl' = IF scalar THEN [dl EXCEPT !.left = @ \ {n}, !.errs = @ \cup {"not a mapping"}]
           ELSE [dl EXCEPT !.left = @ \ {n},
                           !.errs = @ \cup IF pos # 0 /\ ~known THEN {"out of range"} ELSE {},
                           !.routes = Put(@, alias, Over(old, EntryOf(name)))]
  /\ UNCHANGED net

DockerLabelsNext ==
  \/ \E l \in dl.left : Collect(l) \/ ConvertLabel(l) \/ ParseLabel(l) \/ RouteFromLabels(l)
  \/ Collected \/ Converted \/ WalkPart \/ SetValue \/ Parsed
  \/ \E local, running \in BOOLEAN, wanted \in {""} \cup DOMAIN ComposeOf, on \in SUBSET Networks :
       FromDocker(local, running, wanted, on)

DockerLabelsSpec == DockerLabelsInit /\ [][DockerLabelsNext]_dlVars

(***************************************************************************)
(* Properties.                                                             *)
(***************************************************************************)
\* The values that the labels give an alias, read as a person would: by its
\* name or its number, a wildcard before either.
AliasesOf == {dl.aliases[k] : k \in DOMAIN dl.aliases}
ByName(a) == {a} \cup {AliasRefs[k] : k \in {j \in DOMAIN dl.aliases : dl.aliases[j] = a}}
GivenBy(names, s) == {Sets(l)[s] : l \in {x \in dl.given : x.path[1] \in names /\ s \in DOMAIN Sets(x)}}
Wanted(a, s) == IF GivenBy({Wildcard}, s) # {} THEN GivenBy({Wildcard}, s) ELSE GivenBy(ByName(a), s)

\* Where the labels of an alias go, with those of its number and the
\* wildcards, no place is below another: given that, nothing is ambiguous.
Places(l) == IF l.path[1] = Wildcard THEN DOMAIN Sets(l) ELSE {Suffix(l)}
Clear ==
  \A a \in AliasesOf : \A l, m \in {x \in dl.given : x.path[1] \in ByName(a) \cup {Wildcard}} :
    \A s \in Places(l), t \in Places(m) : ~Below(s, t)

\* In whatever orders the passes go: when nothing is reported, every alias
\* of the container has just the values that its labels and the wildcards
\* give it, and no route has a number for a name.
LabelsApplied ==
  dl.phase = "routes" /\ dl.left = {} /\ dl.errs = {} /\ Clear =>
    /\ \A a \in DOMAIN dl.routes : ~IsRef(a)
    /\ \A a \in AliasesOf :
         /\ \A s \in DOMAIN dl.routes[a] : dl.routes[a][s] \in Wanted(a, s)
         /\ \A s \in UNION {DOMAIN Sets(l) : l \in dl.given} : Wanted(a, s) # {} => s \in DOMAIN dl.routes[a]

\* A container is reached at an address it has: with a network label on that
\* network or not at all, and one with no address anywhere is reported.
AddressHasIt ==
  net.phase = "got" =>
    /\ net.host # "" => \E x \in net.on : x.address = net.host
                          /\ (net.wanted # "" => x.name \in {net.wanted, ComposeOf[net.wanted]})
    /\ net.local /\ net.wanted = "" /\ (\E x \in net.on : x.address # "") => net.host # ""
    /\ net.running /\ net.errs = {} => net.host # "" \/ net.public # ""

\* Containers and their labels as a whole.
LabelsSound == LabelsApplied /\ AddressHasIt
=============================================================================
