------------------------------- MODULE Rules --------------------------------
(***************************************************************************)
(* The rules of a route and what they do to one request: BuildHandler      *)
(* splits them into request rules, response rules and the default rule,    *)
(* and the handler runs them around the call of the upstream.  A rule is   *)
(* [def, on, do]: on is a sequence of lines, each a sequence of            *)
(* alternatives [neg, subj, val]; do is a sequence of commands [c, f, v].  *)
(* Checks read, and commands change, the same request and response.  One   *)
(* key stands for the keys of headers, queries, cookies and forms.         *)
(***************************************************************************)
EXTENDS Integers, Sequences, SequencesExt

CONSTANTS RuleTexts,   \* rules a configuration may have
          MaxRules,    \* bound: rules of the configuration
          Requests     \* requests: [header, cookie, path, method, authed, answer]

VARIABLES
  ruRules,    \* rules configured, in order
  ruPc,       \* "config", "default", "pre", "fallback", "up", "post", "last", "done"
  ruAt,       \* next request or response rule to look at
  ruReq,      \* the request and the response being built
  ruTrace,    \* what ran: [who, err, phase]
  ruGo,       \* shouldCallUpstream
  ruMatched   \* preMatched

ruVars == <<ruRules, ruPc, ruAt, ruReq, ruTrace, ruGo, ruMatched>>

NoRequest == [header |-> <<>>, cookie |-> <<>>, path |-> "/", method |-> "GET", authed |-> FALSE,
              answer |-> 0, resp_header |-> <<>>, status |-> 0, body |-> "", logged |-> 0]

(* A rule has commands; set, add and remove say of which field.            *)
ASSUME RulesAssumption ==
  /\ \A rule \in RuleTexts : Len(rule.do) \in Nat /\ DOMAIN rule.do = 1..Len(rule.do)
  /\ \A rule \in RuleTexts : \A i \in DOMAIN rule.do :
       rule.do[i].c \in {"set", "add", "remove"} => rule.do[i].f \in {"header", "cookie", "resp_header"}
  /\ \A rule \in RuleTexts : \A i \in DOMAIN rule.do :
       rule.do[i].c \in {"require_auth", "rewrite", "serve", "error", "basic_auth", "proxy", "log", "notify",
                         "status", "body", "resp_body", "bypass", "set", "add", "remove"}
  /\ \A q \in Requests : DOMAIN q = DOMAIN NoRequest

RulesInit ==
  /\ ruRules = <<>> /\ ruPc = "config" /\ ruAt = 1 /\ ruReq = NoRequest
  /\ ruTrace = <<>> /\ ruGo = TRUE /\ ruMatched = FALSE

-----------------------------------------------------------------------------
(* Conditions.  header, query, cookie: some value of the key, or one that  *)
(* matches; form: the first value; the others: one value each; status and  *)
(* resp_header look at the response.                                       *)
OnField(values, val) == IF val = "any" THEN values # <<>> ELSE \E i \in DOMAIN values : values[i] = val
OnForm(values, val)  == values # <<>> /\ (val = "any" \/ values[1] = val)
OnValue(value, val)  == value = val
OnStatus(code, val)  == IF code = 0 THEN val = 200 ELSE code = val

CheckOne(ch, q) ==
  LET hit == CASE ch.subj = "header"      -> OnField(q.header, ch.val)
               [] ch.subj = "cookie"      -> OnField(q.cookie, ch.val)
               [] ch.subj = "form"        -> OnForm(q.header, ch.val)
               [] ch.subj = "path"        -> OnValue(q.path, ch.val)
               [] ch.subj = "method"      -> OnValue(q.method, ch.val)
               [] ch.subj = "resp_header" -> OnField(q.resp_header, ch.val)
               [] ch.subj = "status"      -> OnStatus(q.status, ch.val)
  IN hit # ch.neg

(* CheckMatchAll of the lines, CheckMatchSingle within a line.             *)
CheckRule(rule, q) ==
  \A l \in DOMAIN rule.on : \E a \in DOMAIN rule.on[l] : CheckOne(rule.on[l][a], q)

-----------------------------------------------------------------------------
(* Commands.  Each gives the request it leaves and "nil", "term" for       *)
(* errTerminated, or "fail" for another error.                             *)
Ok(q)   == [q |-> q, err |-> "nil"]
Term(q) == [q |-> q, err |-> "term"]
Answered(q, code, body) == [q EXCEPT !.status = code, !.body = body]

CmdRequireAuth(q) == IF q.authed THEN Ok(q) ELSE Term(Answered(q, 302, "login"))
CmdRewrite(q, to) == Ok([q EXCEPT !.path = to])
CmdServe(q)       == Term(Answered(q, 200, "file"))
CmdError(q, code) == Term(Answered(q, code, "error"))
CmdBasicAuth(q)   == Term(Answered(q, 401, "login"))
CmdProxy(q)       == IF q.path = "/" THEN [q |-> q, err |-> "fail"]
                     ELSE Term(Answered(q, 200, "proxied"))
CmdLog(q)         == Ok([q EXCEPT !.logged = @ + 1])
CmdNotify(q)      == Ok([q EXCEPT !.logged = @ + 1])

(* set, add and remove: of a header or query all values of the key, of a   *)
(* cookie the first with the name.                                         *)
ModField(mod, f, values, v) ==
  CASE mod = "add" -> Append(values, v)
    [] mod = "set" -> IF f = "cookie" /\ values # <<>> THEN [values EXCEPT ![1] = v] ELSE <<v>>
    [] mod = "remove" -> IF f = "cookie" /\ values # <<>> THEN Tail(values) ELSE <<>>

CmdMod(q, cmd) ==
  Ok(CASE cmd.f = "header"      -> [q EXCEPT !.header = ModField(cmd.c, "header", @, cmd.v)]
       [] cmd.f = "cookie"      -> [q EXCEPT !.cookie = ModField(cmd.c, "cookie", @, cmd.v)]
       [] cmd.f = "resp_header" -> [q EXCEPT !.resp_header = ModField(cmd.c, "header", @, cmd.v)])

CmdStatus(q, code)  == Ok([q EXCEPT !.status = code])
CmdBody(q)          == Ok([q EXCEPT !.header = Append(@, "body")])
CmdResponseBody(q)  == Ok([q EXCEPT !.body = "template"])

RunCommand(cmd, q) ==
  CASE cmd.c = "require_auth" -> CmdRequireAuth(q)
    [] cmd.c = "rewrite"      -> CmdRewrite(q, cmd.v)
    [] cmd.c = "serve"        -> CmdServe(q)
    [] cmd.c = "error"        -> CmdError(q, cmd.v)
    [] cmd.c = "basic_auth"   -> CmdBasicAuth(q)
    [] cmd.c = "proxy"        -> CmdProxy(q)
    [] cmd.c = "log"          -> CmdLog(q)
    [] cmd.c = "notify"       -> CmdNotify(q)
    [] cmd.c = "status"       -> CmdStatus(q, cmd.v)
    [] cmd.c = "body"         -> CmdBody(q)
    [] cmd.c = "resp_body"    -> CmdResponseBody(q)
    [] cmd.c = "bypass"       -> Term(q)
    [] OTHER                  -> CmdMod(q, cmd)

IsTerminating(cmd)     == cmd.c \in {"serve", "error", "basic_auth", "proxy"}
IsResponseHandler(cmd) == cmd.c \in {"log", "notify", "resp_body"}

(* Commands.Handle: until the first error.                                 *)
Handle(rule, q) ==
  FoldLeft(LAMBDA acc, cmd : IF acc.err = "nil" THEN RunCommand(cmd, acc.q) ELSE acc, Ok(q), rule.do)

(* buildCmd: response handlers at the end, and before them a terminating   *)
(* or bypass command only as the last.                                     *)
buildCmd(do) ==
  LET requestPart == {i \in DOMAIN do : ~IsResponseHandler(do[i])} IN
  /\ \A i \in requestPart : \A j \in 1..i : j \in requestPart
  /\ \A i \in requestPart : IsTerminating(do[i]) \/ do[i].c = "bypass" =>
       \A j \in requestPart : j <= i

(* isBypass: the last command decides.                                     *)
isBypass(rule) == Last(rule.do).c = "bypass"

isTerminatingHandler(rule) == IsTerminating(Last(rule.do))

IsResponseRule(rule) ==
  \/ \E l \in DOMAIN rule.on : \E a \in DOMAIN rule.on[l] : rule.on[l][a].subj \in {"resp_header", "status"}
  \/ \E i \in DOMAIN rule.do : IsResponseHandler(rule.do[i])

-----------------------------------------------------------------------------
(* BuildHandler: one loop appends each rule to its list.                   *)
DefaultTexts == {r \in RuleTexts : r.def}
PreTexts     == {r \in RuleTexts : ~r.def /\ ~IsResponseRule(r)}
PostTexts    == {r \in RuleTexts : ~r.def /\ IsResponseRule(r)}

Those(S)  == FoldLeft(LAMBDA acc, r : IF r \in S THEN Append(acc, r) ELSE acc, <<>>, ruRules)
Default   == Those(DefaultTexts)
preRules  == Those(PreTexts)
postRules == Those(PostTexts)

hasDefaultRule    == Default # <<>>
isDefaultRulePost == hasDefaultRule /\ IsResponseRule(Default[1])
defaultTerminates == hasDefaultRule /\ isTerminatingHandler(Default[1])
OnlyDefault       == hasDefaultRule /\ Len(ruRules) = 1

(* A rule is parsed; a second default rule is refused (Rules.Validate).    *)
AddRule(rule) ==
  /\ ruPc = "config" /\ Len(ruRules) < MaxRules
  /\ buildCmd(rule.do) /\ ~(rule.def /\ hasDefaultRule)
  /\ ruRules' = Append(ruRules, rule)
  /\ UNCHANGED <<ruPc, ruAt, ruReq, ruTrace, ruGo, ruMatched>>

ServeRequest(q) ==
  /\ ruPc = "config" /\ ruRules # <<>>
  /\ ruPc' = "default"
  /\ ruReq' = [q EXCEPT !.status = 0]
  /\ UNCHANGED <<ruRules, ruAt, ruTrace, ruGo, ruMatched>>

(* A rule runs in a phase.                                                 *)
Ran(rule, phase) ==
  LET res == Handle(rule, ruReq) IN
  /\ ruReq' = res.q
  /\ ruTrace' = Append(ruTrace, [who |-> rule, err |-> res.err, phase |-> phase])

ErrOf(rule) == Handle(rule, ruReq).err

(* Mutant: a terminating command lets the request go on.                   *)
StopsMutant(err) == err = "fail"

(* err # nil keeps the request from the upstream, errTerminated too.       *)
Stops(err) == err # "nil"

(* A default rule that does not terminate runs before the others, and so   *)
(* does any request-phase default rule that is alone.                      *)
DefaultFirst ==
  /\ ruPc = "default" /\ ruPc' = "pre"
  /\ IF /\ hasDefaultRule /\ ~isDefaultRulePost /\ ~isBypass(Default[1])
        /\ ~defaultTerminates \/ OnlyDefault
       THEN Ran(Default[1], "default") /\ ruGo' = ~Stops(ErrOf(Default[1]))
       ELSE UNCHANGED <<ruReq, ruTrace, ruGo>>
  /\ UNCHANGED <<ruRules, ruAt, ruMatched>>

(* The loop over preRules: a bypass rule ends it, an error ends it and     *)
(* keeps the request from the upstream.                                    *)
PreRule ==
  /\ ruPc = "pre" /\ ruGo /\ ruAt <= Len(preRules)
  /\ LET rule == preRules[ruAt] IN
     IF ~CheckRule(rule, ruReq)
       THEN ruAt' = ruAt + 1 /\ UNCHANGED <<ruPc, ruReq, ruTrace, ruGo, ruMatched>>
       ELSE /\ ruMatched' = TRUE
            /\ IF isBypass(rule)
                 THEN /\ ruPc' = "fallback" /\ ruAt' = 1
                      /\ ruTrace' = Append(ruTrace, [who |-> rule, err |-> "bypass", phase |-> "pre"])
                      /\ UNCHANGED <<ruReq, ruGo>>
                 ELSE /\ Ran(rule, "pre")
                      /\ IF Stops(ErrOf(rule)) THEN ruGo' = FALSE /\ ruPc' = "fallback" /\ ruAt' = 1
                         ELSE ruAt' = ruAt + 1 /\ UNCHANGED <<ruGo, ruPc>>
  /\ UNCHANGED ruRules

PreEnd ==
  /\ ruPc = "pre" /\ (~ruGo \/ ruAt > Len(preRules))
  /\ ruPc' = "fallback" /\ ruAt' = 1
  /\ UNCHANGED <<ruRules, ruReq, ruTrace, ruGo, ruMatched>>

(* A default rule that terminates runs when no request rule has matched;   *)
(* an error other than errTerminated then skips even the response rules.   *)
Fallback ==
  /\ ruPc = "fallback"
  /\ IF hasDefaultRule /\ ~isDefaultRulePost /\ defaultTerminates /\ ~OnlyDefault /\ ruGo /\ ~ruMatched
       THEN /\ Ran(Default[1], "default")
            /\ ruGo' = ~Stops(ErrOf(Default[1]))
            /\ ruPc' = IF ErrOf(Default[1]) = "fail" THEN "done" ELSE "up"
       ELSE ruPc' = "up" /\ UNCHANGED <<ruReq, ruTrace, ruGo>>
  /\ UNCHANGED <<ruRules, ruAt, ruMatched>>

(* The upstream answers into the response modifier.                        *)
Upstream ==
  /\ ruPc = "up" /\ ruPc' = "post"
  /\ IF ruGo THEN /\ ruReq' = Answered(ruReq, ruReq.answer, "upstream")
                  /\ ruTrace' = Append(ruTrace, [who |-> "upstream", err |-> "nil", phase |-> "up"])
     ELSE UNCHANGED <<ruReq, ruTrace>>
  /\ UNCHANGED <<ruRules, ruAt, ruGo, ruMatched>>

PostRule ==
  /\ ruPc = "post" /\ ruAt <= Len(postRules)
  /\ LET rule == postRules[ruAt] IN
     IF CheckRule(rule, ruReq)
       THEN /\ Ran(rule, "post")
            /\ IF Stops(ErrOf(rule)) THEN ruPc' = "done" /\ UNCHANGED ruAt
               ELSE ruAt' = ruAt + 1 /\ UNCHANGED ruPc
       ELSE ruAt' = ruAt + 1 /\ UNCHANGED <<ruPc, ruReq, ruTrace>>
  /\ UNCHANGED <<ruRules, ruGo, ruMatched>>

DefaultLast ==
  /\ ruPc = "post" /\ ruAt > Len(postRules) /\ ruPc' = "done"
  /\ IF isDefaultRulePost THEN Ran(Default[1], "default") ELSE UNCHANGED <<ruReq, ruTrace>>
  /\ UNCHANGED <<ruRules, ruAt, ruGo, ruMatched>>

RulesNext ==
  \/ \E rule \in RuleTexts : AddRule(rule)
  \/ \E q \in Requests : ServeRequest(q)
  \/ DefaultFirst \/ PreRule \/ PreEnd \/ Fallback \/ Upstream \/ PostRule \/ DefaultLast

RulesSpec == RulesInit /\ [][RulesNext]_ruVars

-----------------------------------------------------------------------------
Entries(S) == {i \in DOMAIN ruTrace : ruTrace[i].phase \in S}
Refusals   == {i \in Entries({"pre", "default"}) : Stops(ruTrace[i].err) /\ ruTrace[i].err # "bypass"}

(* A request is answered by one party: the upstream, called once and only  *)
(* if no request rule before it has refused or answered; or the first rule *)
(* that did, after which no request rule runs (the chain of                *)
(* shouldCallUpstream in BuildHandler).                                    *)
OneAnswer ==
  /\ \A i \in Entries({"up"}), j \in DOMAIN ruTrace : j < i => ruTrace[j].err \in {"nil", "bypass"}
  /\ \A i \in Entries({"pre"}), j \in DOMAIN ruTrace : j < i => ruTrace[j].err = "nil"
  /\ ruPc = "done" =>
       \E i \in DOMAIN ruTrace : ruTrace[i].phase = "up" \/ ruTrace[i].err \in {"term", "fail"}

(* A request that a require_auth rule has turned away does not reach the   *)
(* upstream, nor does a fallback answer one that a request rule matched.   *)
GatesHold ==
  /\ Entries({"up"}) # {} =>
       \A i \in Entries({"pre"}) : ruTrace[i].err # "bypass" =>
         \A c \in DOMAIN ruTrace[i].who.do : ruTrace[i].who.do[c].c = "require_auth" => ruReq.authed
  /\ \A i \in Entries({"default"}), j \in Entries({"pre"}) :
       j < i => IsResponseRule(ruTrace[i].who)

(* Response rules run after the upstream or the refusal, in order, and     *)
(* also after a bypass.                                                    *)
ResponseRulesLast ==
  \A i \in Entries({"post"}) :
    /\ \A j \in Entries({"pre", "up"}) : j < i
    /\ ~ruGo \/ Entries({"up"}) # {}

(* What the handler built from rules promises a request.                   *)
RulesSound == OneAnswer /\ GatesHold /\ ResponseRulesLast
=============================================================================
