----------------------------- MODULE MCRequests -----------------------------
(***************************************************************************)
(* Small instances, for TLC, of the modules a request passes: AccessControl*)
(* at the listener, Entrypoint, Middleware, AuthSessions, Rules (and       *)
(* RuleSyntax, their texts), and AccessFilter at its end.                  *)
(* They share no state, so that their steps commute: a behaviour lets one  *)
(* of them move, and the others stay where they start.                     *)
(***************************************************************************)
EXTENDS AccessControl, AccessFilter, Entrypoint, Middleware, AuthSessions,
        Rules, RuleSyntax

(* Access control: an address moves to another country in version 2 of the *)
(* database; a country denied, one allowed, and no rules at all.           *)
TwoVersions == << [i \in AclIPs |-> "US"], [i \in AclIPs |-> IF i = "a" THEN "FR" ELSE "US"] >>
ThreeAcls ==
  {[fallback |-> FALSE, local |-> FALSE, deny |-> <<"FR">>, allow |-> <<"a">>, notify |-> TRUE],
   [fallback |-> TRUE, local |-> TRUE, deny |-> <<"a">>, allow |-> <<"US">>, notify |-> TRUE],
   [fallback |-> FALSE, local |-> FALSE, deny |-> <<>>, allow |-> <<>>, notify |-> FALSE]}

(* Entrypoint: a plain alias, and two qualified ones with its short key.   *)
SomeAliases == {<<"a">>, <<"a", "x">>, <<"a", "y">>}
SomeHosts   == SomeAliases \cup {<<"b", "x">>, <<"go">>}
SomeDomains == {<<>>, << <<"x">> >>}
GoPrefix    == <<"go">>

(* Middleware: every kind, in chains whose order, by priority, matters; a  *)
(* file whose middlewares use one of a later file.                         *)
Ent(kind, prio, bypass) == [kind |-> kind, prio |-> prio, bypass |-> bypass]
FiveConfigs ==
  {{Ent("realip", 1, {}), Ent("cidr", 5, {"static"}), Ent("setxff", 10, {})},
   {Ent("cloudflare", 0, {}), Ent("rate", 0, {}), Ent("hidexff", 0, {})},
   {Ent("oidc", 0, {"open", "auth"}), Ent("prefix", 0, {}), Ent("crowdsec", 3, {})},
   {Ent("html", 0, {}), Ent("errorpage", 0, {}), Ent("redirect", 1, {})},
   {Ent("forwardauth", 0, {"open"}), Ent("captcha", 1, {}), Ent("html", 2, {"auth"})}}
TwoFiles   == << [x |-> <<"y">>], [y |-> <<"realip">>, z |-> <<"x">>] >>
SomeClaims == {<<>>, <<"v">>, <<"v", "t">>}

(* Auth: one browser of an allowed user, one of another.                   *)
UserOf == [b \in Browsers |-> IF b = "b1" THEN "u1" ELSE "u2"]

(* Rules: conditions and commands of every kind and phase, rules that end  *)
(* the request, rules that change what a later one looks at, and default   *)
(* rules that end it and that do not.                                      *)
Cmd(c, f, v)      == [c |-> c, f |-> f, v |-> v]
Chk(n, s, v)      == [neg |-> n, subj |-> s, val |-> v]
Rule(def, on, do) == [def |-> def, on |-> on, do |-> do]
TwelveRules ==
  {Rule(FALSE, << <<Chk(FALSE, "header", "any")>> >>, <<Cmd("require_auth", "", ""), Cmd("set", "header", "b")>>),
   Rule(FALSE, << <<Chk(TRUE, "path", "/"), Chk(FALSE, "cookie", "a")>> >>, <<Cmd("bypass", "", "")>>),
   Rule(FALSE, << <<Chk(FALSE, "header", "b")>>, <<Chk(FALSE, "method", "GET")>> >>, <<Cmd("error", "", 403)>>),
   Rule(FALSE, << <<Chk(FALSE, "form", "a")>> >>, <<Cmd("rewrite", "", "/x"), Cmd("proxy", "", "")>>),
   Rule(FALSE, <<>>, <<Cmd("add", "cookie", "a"), Cmd("remove", "header", "a"), Cmd("body", "", "")>>),
   Rule(FALSE, << <<Chk(FALSE, "status", 404)>> >>, <<Cmd("status", "", 200), Cmd("resp_body", "", "")>>),
   Rule(FALSE, <<>>, <<Cmd("set", "resp_header", "a"), Cmd("log", "", "")>>),
   Rule(FALSE, << <<Chk(FALSE, "resp_header", "a")>> >>, <<Cmd("notify", "", "")>>),
   Rule(TRUE, <<>>, <<Cmd("serve", "", "")>>),
   Rule(TRUE, <<>>, <<Cmd("remove", "cookie", "a")>>),
   Rule(TRUE, <<>>, <<Cmd("proxy", "", "")>>),
   Rule(TRUE, <<>>, <<Cmd("basic_auth", "", ""), Cmd("log", "", "")>>)}
SomeRequests ==
  {[NoRequest EXCEPT !.header = h, !.authed = a, !.answer = s, !.path = p] :
     h \in {<<>>, <<"a">>}, a \in BOOLEAN, s \in {200, 404}, p \in {"/", "/x"}}

(* Rule texts: the letters the scanners tell apart, one variable set.      *)
OneVariable == { <<"a">> }

VARIABLE part

allVars == <<part, aclVars, af, epVars, mwVars, auVars, ruVars, rxText>>

RequestsInit ==
  /\ part \in {"acl", "filter", "entry", "mw", "auth", "rules", "syntax"}
  /\ AclInit /\ (part # "acl" => acl.local /\ disk.file = 1)
  /\ EpInit /\ (part # "entry" => domains = <<>>)
  /\ AccessFilterInit /\ MiddlewareInit /\ AuthInit /\ RulesInit /\ SyntaxInit

RequestsNext ==
  \/ part = "acl" /\ AclNext
     /\ UNCHANGED <<part, af, epVars, mwVars, auVars, ruVars, rxText>>
  \/ part = "filter" /\ AccessFilterNext
     /\ UNCHANGED <<part, aclVars, epVars, mwVars, auVars, ruVars, rxText>>
  \/ part = "entry" /\ EpNext
     /\ UNCHANGED <<part, aclVars, af, mwVars, auVars, ruVars, rxText>>
  \/ part = "mw" /\ MiddlewareNext
     /\ UNCHANGED <<part, aclVars, af, epVars, auVars, ruVars, rxText>>
  \/ part = "auth" /\ AuthNext
     /\ UNCHANGED <<part, aclVars, af, epVars, mwVars, ruVars, rxText>>
  \/ part = "rules" /\ RulesNext
     /\ UNCHANGED <<part, aclVars, af, epVars, mwVars, auVars, rxText>>
  \/ part = "syntax" /\ SyntaxNext
     /\ UNCHANGED <<part, aclVars, af, epVars, mwVars, auVars, ruVars>>

RequestsSpec == RequestsInit /\ [][RequestsNext]_allVars
=============================================================================
