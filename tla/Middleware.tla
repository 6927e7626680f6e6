----------------------------- MODULE Middleware -----------------------------
(***************************************************************************)
(* Middlewares (internal/net/gphttp/middleware): the chain that a route's  *)
(* middlewares are compiled into, in the order of their priorities, and    *)
(* the way of requests and responses through it.                           *)
(*                                                                         *)
(* Addresses are model values; RemoteAddr is an address with or without a  *)
(* port.  A bypass rule is one on the path of the request.  A response is  *)
(* its status, whether its body is HTML, and whether its headers describe  *)
(* the body.  Composed middlewares are names that use names.               *)
(***************************************************************************)
EXTENDS Integers, Sequences, SequencesExt, FiniteSets

CONSTANTS MwConfigs,      \* sets of entries [kind, prio, bypass]; bypass is a set of paths
          ComposeFiles,   \* sequence of files: functions from names to sequences of names
          BuiltIn,        \* names of the built-in middlewares
          Peers, Trusted, \* peers of connections, and those the real-IP middlewares trust
          AllowedIPs,     \* addresses the whitelist allows
          Claims,         \* values of the real-IP header: sequences of addresses
          MwBurst, MaxMwRequests   \* the limiter's burst; a bound

ASSUME MiddlewareAssumption ==
  /\ \A cfg \in MwConfigs : IsFiniteSet(cfg)
  /\ Len(ComposeFiles) \in Nat /\ DOMAIN ComposeFiles = 1..Len(ComposeFiles)

VARIABLES mwChain,   \* the compiled chain, <<>> before
          mwReq,     \* the request on its way
          mwAt, mwPhase,    \* the middleware it is at; "build", "idle", "before", "after"
          mwResp,    \* the response
          mwState,   \* what the middlewares keep between requests
          mwSeen,    \* the entries whose request part ran and agreed
          mwCount
mwVars == <<mwChain, mwReq, mwAt, mwPhase, mwResp, mwState, mwSeen, mwCount>>

NoAnswer == [status |-> 0, html |-> FALSE, plain |-> TRUE, described |-> TRUE, hits |-> 0, upstream |-> FALSE]
Gates == {"cidr", "rate", "redirect", "forwardauth", "crowdsec", "oidc", "captcha"}
Addrs == Peers \union UNION {ToSet(c) : c \in Claims}

MiddlewareInit ==
  /\ mwChain = <<>> /\ mwAt = 0 /\ mwPhase = "build" /\ mwReq = <<>>
  /\ mwResp = NoAnswer /\ mwSeen = {} /\ mwCount = 0
  /\ mwState = [cached |-> <<>>, tokens |-> [a \in Addrs |-> MwBurst], cidrs |-> FALSE,
                oidc |-> "new", session |-> FALSE]

(***************************************************************************)
(* Compiling.  The middlewares of a map come in any order and are sorted,  *)
(* unstably, by priority.                                                  *)
(***************************************************************************)
Sorted(s) == \A i, j \in DOMAIN s : i < j => s[i].prio <= s[j].prio
compileMiddlewares(cfg) == {s \in SetToSeqs(cfg) : Sorted(s)}
PatchReverseProxy ==
  /\ mwPhase = "build" /\ mwPhase' = "idle"
  /\ \E cfg \in MwConfigs : mwChain' \in compileMiddlewares(cfg)
  /\ UNCHANGED <<mwReq, mwAt, mwResp, mwState, mwSeen, mwCount>>

\* Files of composed middlewares: one pass that loads what can be built, and a
\* second one "to resolve cross references".  A file's chains are built before
\* any of them is known.
LoadFile(known, file) == known \union {n \in DOMAIN file : ToSet(file[n]) \subseteq known}
LoadComposeFiles(files) == FoldLeft(LoadFile, FoldLeft(LoadFile, BuiltIn, files), files)

(***************************************************************************)
(* The request part of every middleware: the set of its outcomes.          *)
(***************************************************************************)
Go(r) == [go |-> TRUE, req |-> r, status |-> 0, st |-> mwState]
Answer(r, code) == [go |-> FALSE, req |-> r, status |-> code, st |-> mwState]
Keep(o, st) == [o EXCEPT !.st = st]

(* Mutant: the peer need not be trusted.                                   *)
setRealIPMutant(r, trusts, recursive) ==
  IF r.claims = <<>> THEN r ELSE [r EXCEPT !.addr = Last(r.claims), !.port = FALSE]

\* setRealIP: the header counts only when the peer's address is trusted.
setRealIP(r, trusts, recursive) ==
  LET all == IF recursive THEN SelectSeq(r.claims, LAMBDA a : a \notin trusts) ELSE r.claims IN
  IF r.claims = <<>> \/ r.addr \notin trusts \/ all = <<>> THEN r
  ELSE [r EXCEPT !.addr = Last(all), !.port = FALSE, !.claims = <<Last(all)>>]

\* The ranges of Cloudflare are fetched at most once an hour, whichever
\* instance asks; only the one that fetched them gets them.
Cloudflare(r) ==
  IF mwState.cidrs THEN {Go(setRealIP(r, {}, TRUE)), Go(setRealIP(r, Trusted, TRUE))}
  ELSE {Keep(Go(setRealIP(r, Trusted, TRUE)), [mwState EXCEPT !.cidrs = TRUE]), Go(setRealIP(r, {}, TRUE))}

CheckIP(r) ==
  LET key == <<r.addr, r.port>>
      hit == \E i \in DOMAIN mwState.cached : mwState.cached[i][1] = key
      allow == IF hit THEN \E i \in DOMAIN mwState.cached : mwState.cached[i] = <<key, TRUE>> ELSE r.addr \in AllowedIPs
      st == IF hit THEN mwState ELSE [mwState EXCEPT !.cached = Append(@, <<key, allow>>)] IN
  {Keep(IF allow THEN Go(r) ELSE Answer(r, 403), st)}

\* An address without a port is an internal error.
limit(r) ==
  IF ~r.port THEN {Answer(r, 500)}
  ELSE IF mwState.tokens[r.addr] = 0 THEN {Answer(r, 429)}
  ELSE {Keep(Go(r), [mwState EXCEPT !.tokens[r.addr] = @ - 1])}

\* The auth server's answer decides; without the route, or without an answer,
\* nothing passes.
ForwardAuth(r) == {Answer(r, 500), Answer(r, 401), Go(r)}
Crowdsec(r) == {Answer(r, 500), Answer(r, 403), Go(r)}

\* The first use makes the provider; after a failure it counts as made, and a
\* later request fails on the missing provider (the server answers 500).
Oidc(r) ==
  LET ready == IF r.path = "logout" THEN {[Go(r) EXCEPT !.status = 302]} ELSE {Go(r), Answer(r, 302), Answer(r, 403)} IN
  CASE mwState.oidc = "new" -> {Keep(o, [mwState EXCEPT !.oidc = "ready"]) : o \in ready}
                               \union {Keep(Answer(r, 500), [mwState EXCEPT !.oidc = "broken"])}
    [] mwState.oidc = "ready" -> ready
    [] OTHER -> {Answer(r, 500)}

Captcha(r) ==
  IF r.cookie /\ mwState.session THEN {Go(r)}
  ELSE {Answer(r, 403), Answer(r, 401), Answer(r, 200), Keep(Answer(r, 302), [mwState EXCEPT !.session = TRUE])}

redirectHTTP(r) == IF r.tls THEN Go(r) ELSE Answer(r, 308)
setXForwarded(r) == Go([r EXCEPT !.xff = IF r.port THEN r.addr ELSE "none"])
hideXForwarded(r) == Go([r EXCEPT !.xff = "none"])
modifyRequest(r) == Go([r EXCEPT !.path = "prefixed"])

before(kind, r) ==
  CASE kind = "realip"     -> {Go(setRealIP(r, Trusted, FALSE))}
    [] kind = "cloudflare" -> Cloudflare(r)
    [] kind = "cidr"       -> CheckIP(r)
    [] kind = "rate"       -> limit(r)
    [] kind = "redirect"   -> {redirectHTTP(r)}
    [] kind = "setxff"     -> {setXForwarded(r)}
    [] kind = "hidexff"    -> {hideXForwarded(r)}
    [] kind = "prefix"     -> {modifyRequest(r)}
    [] kind = "html"       -> {Go([r EXCEPT !.identity = TRUE])}
    [] kind = "errorpage"  -> {IF r.path = "static" THEN Answer(r, 200) ELSE Go(r)}
    [] kind = "forwardauth" -> ForwardAuth(r)
    [] kind = "crowdsec"   -> Crowdsec(r)
    [] kind = "oidc"       -> Oidc(r)
    [] kind = "captcha"    -> Captcha(r)
    [] OTHER -> {Go(r)}

\* The paths of the OIDC login are never bypassed.
isEnforced(e, path) == e.kind = "oidc" /\ path \in {"auth", "logout"}
Bypassed(e, path) == path \in e.bypass /\ ~isEnforced(e, path)

(***************************************************************************)
(* The way of a request.                                                   *)
(***************************************************************************)
Arrive ==
  /\ mwPhase = "idle" /\ mwCount < MaxMwRequests
  /\ \E p \in Peers, c \in Claims, x \in {"none", "forged"}, path \in {"open", "auth", "logout", "static"}, tls \in BOOLEAN :
       mwReq' = [peer |-> p, addr |-> p, port |-> TRUE, claims |-> c, xff |-> x, path |-> path, asked |-> path,
                 tls |-> tls, cookie |-> TRUE, identity |-> FALSE]
  /\ mwPhase' = "before" /\ mwAt' = 1 /\ mwResp' = NoAnswer /\ mwSeen' = {} /\ mwCount' = mwCount + 1
  /\ UNCHANGED <<mwChain, mwState>>

\* The loop of the chain over its request parts.
ChainBefore ==
  LET e == mwChain[mwAt] IN
  /\ mwPhase = "before" /\ mwAt <= Len(mwChain)
  /\ IF Bypassed(e, mwReq.path)
       THEN mwAt' = mwAt + 1 /\ UNCHANGED <<mwReq, mwPhase, mwResp, mwState, mwSeen>>
       ELSE \E o \in before(e.kind, mwReq) :
              /\ mwReq' = o.req /\ mwState' = o.st
              /\ mwResp' = IF o.status = 0 THEN mwResp ELSE [mwResp EXCEPT !.status = o.status, !.hits = @ + 1]
              /\ IF o.go THEN mwAt' = mwAt + 1 /\ mwSeen' = mwSeen \union {mwAt} /\ UNCHANGED mwPhase
                         ELSE mwPhase' = "idle" /\ UNCHANGED <<mwAt, mwSeen>>
  /\ UNCHANGED <<mwChain, mwCount>>

\* The upstream answers, compressed if it may.
Upstreamed ==
  /\ mwPhase = "before" /\ mwAt = Len(mwChain) + 1
  /\ \E s \in {200, 404}, h \in BOOLEAN, z \in BOOLEAN :
       /\ z => ~mwReq.identity
       /\ mwResp' = [status |-> s, html |-> h, plain |-> ~z, described |-> TRUE, hits |-> mwResp.hits + 1, upstream |-> TRUE]
  /\ mwPhase' = "after" /\ mwAt' = 1
  /\ UNCHANGED <<mwChain, mwReq, mwState, mwSeen, mwCount>>

\* The response parts: the injected HTML is always plain and described; the
\* error page replaces the body and its length, not its encoding.
modifyHTML(resp) == IF resp.html THEN [resp EXCEPT !.described = resp.plain, !.plain = TRUE] ELSE resp
customErrorPage(resp) ==
  IF resp.status = 200 THEN resp ELSE [resp EXCEPT !.html = TRUE, !.described = resp.plain, !.plain = TRUE]
ChainAfter ==
  LET e == mwChain[mwAt] IN
  /\ mwPhase = "after" /\ mwAt <= Len(mwChain)
  /\ mwResp' = IF Bypassed(e, mwReq.path) THEN mwResp
               ELSE IF e.kind = "html" THEN modifyHTML(mwResp)
               ELSE IF e.kind = "errorpage" THEN customErrorPage(mwResp) ELSE mwResp
  /\ mwAt' = mwAt + 1
  /\ UNCHANGED <<mwChain, mwReq, mwPhase, mwState, mwSeen, mwCount>>
Responded ==
  /\ mwPhase = "after" /\ mwAt = Len(mwChain) + 1
  /\ mwPhase' = "idle"
  /\ UNCHANGED <<mwChain, mwReq, mwAt, mwResp, mwState, mwSeen, mwCount>>

\* Time: a bucket has a token more; a captcha session expires.
MwRefill == \E a \in Addrs : /\ mwState.tokens[a] < MwBurst /\ mwPhase = "idle"
                             /\ mwState' = [mwState EXCEPT !.tokens[a] = @ + 1]
                             /\ UNCHANGED <<mwChain, mwReq, mwAt, mwPhase, mwResp, mwSeen, mwCount>>
SessionExpires == /\ mwState.session /\ mwPhase = "idle"
                  /\ mwState' = [mwState EXCEPT !.session = FALSE]
                  /\ UNCHANGED <<mwChain, mwReq, mwAt, mwPhase, mwResp, mwSeen, mwCount>>

MiddlewareNext ==
  \/ PatchReverseProxy \/ Arrive \/ ChainBefore \/ Upstreamed \/ ChainAfter \/ Responded
  \/ MwRefill \/ SessionExpires

MiddlewareSpec == MiddlewareInit /\ [][MiddlewareNext]_mwVars

(***************************************************************************)
(* Properties.                                                             *)
(***************************************************************************)
Kind(i) == mwChain[i].kind
Reached == mwResp.upstream
Has(k) == \E i \in DOMAIN mwChain : Kind(i) = k

(* A request reaches the upstream only after every gate of the chain let   *)
(* it pass or was bypassed for a path it may be bypassed for; the OIDC     *)
(* gate is never bypassed for its own paths.                               *)
GatesAgree ==
  Reached => \A i \in DOMAIN mwChain :
    Kind(i) \in Gates => \/ i \in mwSeen
                         \/ /\ mwReq.asked \in mwChain[i].bypass \/ mwReq.path \in mwChain[i].bypass
                            /\ Kind(i) = "oidc" => mwReq.asked \notin {"auth", "logout"} \/ Has("prefix")

(* A client chooses its address only through a trusted peer: for any other *)
(* peer the gates and the upstream see the peer's own, and with the        *)
(* middleware that sets it the client's X-Forwarded-For never passes.      *)
AddressHonest ==
  mwPhase \in {"before", "after"} =>
    /\ mwReq.peer \notin Trusted => mwReq.addr = mwReq.peer
    /\ Reached /\ (\E i \in mwSeen : Kind(i) \in {"setxff", "hidexff"}) => mwReq.xff \in {"none", mwReq.addr, mwReq.peer}

(* A request is answered once: who refuses writes the answer and the       *)
(* upstream is not asked (the logout path excepted, where the OIDC         *)
(* middleware answers and lets the request go on).                         *)
AnsweredOnce == mwReq # <<>> /\ mwReq.asked # "logout" => mwResp.hits <= 1

(* What the client gets is what the headers say it is, when HTML is        *)
(* injected: the request part asks for an unencoded body, so that neither  *)
(* the injection nor an error page makes a body its headers do not         *)
(* describe.                                                               *)
BodyDescribed == Reached /\ (\E i \in mwSeen : Kind(i) = "html") => mwResp.described

(* The second pass suffices for chains that use chains of built-in ones,   *)
(* in whatever order the files come.                                       *)
ComposeResolved ==
  LET defs == UNION {DOMAIN ComposeFiles[i] : i \in DOMAIN ComposeFiles}
      uses(n) == UNION {ToSet(ComposeFiles[i][n]) : i \in {j \in DOMAIN ComposeFiles : n \in DOMAIN ComposeFiles[j]}}
      plainOnes == {n \in defs : uses(n) \subseteq BuiltIn} IN
  {n \in defs : uses(n) \subseteq BuiltIn \union plainOnes} \subseteq LoadComposeFiles(ComposeFiles)

MiddlewareSound == GatesAgree /\ AddressHonest /\ AnsweredOnce /\ BodyDescribed /\ ComposeResolved
=============================================================================
