---------------------------- MODULE AuthSessions ----------------------------
(***************************************************************************)
(* Sessions of the OIDC login (internal/auth) and the store they are kept  *)
(* in (internal/jsonstore): the login and its callback, the refresh of an  *)
(* expired ID token by several requests of one browser at a time, logout,  *)
(* and what a restart keeps.                                               *)
(*                                                                         *)
(* A session is a number, given out once, with its refresh token object;   *)
(* requests keep a pointer to the object also when the store drops it.     *)
(* Everything of the identity provider is external: it accepts a code and  *)
(* a refresh token once, and may fail.                                     *)
(***************************************************************************)
EXTENDS Integers, Sequences, FiniteSets

CONSTANTS Browsers, AuthUser,     \* who uses each browser
          AllowedUsers,
          Tabs,                   \* concurrent requests of a browser
          MaxSessionIDs, MaxFlows, AuthBurst, MaxRestarts    \* bounds

VARIABLES jar,        \* [browser -> its cookies: [flow, token, session]]
          flow,       \* the logins begun: [by, done, spent]
          session,    \* the sessions made: [user, result, err, locked]
          live,       \* the sessions in the store
          saved,      \* the sessions in the file, written when the process ends
          dropping,   \* sessions whose delayed invalidation is under way
          tab,        \* [browser -> [tab -> [pc, id]]]
          presented,  \* how often each refresh token went to the provider
          revoked,    \* sessions logged out
          loginTokens, restarts, crashed

auVars == <<jar, flow, session, live, saved, dropping, tab, presented, revoked, loginTokens, restarts, crashed>>

NoCookies == [flow |-> 0, token |-> FALSE, session |-> 0]
IdleTab == [pc |-> "idle", id |-> 0]

AuthInit ==
  /\ jar = [b \in Browsers |-> NoCookies]
  /\ flow = <<>> /\ session = <<>> /\ live = {} /\ saved = {} /\ dropping = {}
  /\ tab = [b \in Browsers |-> [t \in Tabs |-> IdleTab]]
  /\ presented = <<>> /\ revoked = {} /\ loginTokens = AuthBurst /\ restarts = 0 /\ crashed = FALSE

Begun == UNCHANGED <<flow, loginTokens>>
Running == UNCHANGED <<saved, restarts, crashed>>
clearCookie(b) == [jar EXCEPT ![b].token = FALSE, ![b].session = 0]

(***************************************************************************)
(* Login and callback.                                                     *)
(***************************************************************************)
\* Without token and session: a state in a cookie, and off to the provider.
LoginHandler(b) ==
  /\ ~jar[b].token /\ jar[b].session = 0 /\ loginTokens > 0 /\ Len(flow) < MaxFlows
  /\ loginTokens' = loginTokens - 1
  /\ flow' = Append(flow, [by |-> b, done |-> FALSE, spent |-> FALSE])
  /\ jar' = [jar EXCEPT ![b].flow = Len(flow) + 1]
  /\ UNCHANGED <<session, live, dropping, tab, presented, revoked>> /\ Running

LoginTokensBack ==
  /\ loginTokens < AuthBurst /\ loginTokens' = loginTokens + 1
  /\ UNCHANGED <<jar, flow, session, live, dropping, tab, presented, revoked>> /\ Running

\* The user of the browser that began it signs in at the provider (external).
SignsIn(f) ==
  /\ ~flow[f].done /\ flow' = [flow EXCEPT ![f].done = TRUE]
  /\ UNCHANGED <<jar, session, live, dropping, tab, presented, revoked, loginTokens>> /\ Running

NewSession(user) == session' = Append(session, [user |-> user, result |-> 0, err |-> FALSE, locked |-> FALSE])
                    /\ presented' = Append(presented, 0)

\* The provider's answer to a flow may come from any browser.
StateOK(b, f) == jar[b].flow # 0 /\ jar[b].flow = f

PostAuthCallbackHandler(b, f) ==
  /\ flow[f].done
  /\ \/ /\ ~StateOK(b, f) \/ flow[f].spent
        /\ jar' = clearCookie(b) /\ UNCHANGED <<flow, session, live, presented>>
     \/ /\ StateOK(b, f) /\ ~flow[f].spent /\ Len(session) < MaxSessionIDs
        /\ flow' = [flow EXCEPT ![f].spent = TRUE]
        /\ \/ jar' = clearCookie(b) /\ UNCHANGED <<session, live, presented>>
           \/ \* without a refresh token there is no session
              jar' = [jar EXCEPT ![b].token = TRUE] /\ UNCHANGED <<session, live, presented>>
           \/ /\ NewSession(AuthUser[flow[f].by])
              /\ live' = live \union {Len(session) + 1}
              /\ jar' = [jar EXCEPT ![b].token = TRUE, ![b].session = Len(session) + 1]
  /\ UNCHANGED <<dropping, tab, revoked, loginTokens>> /\ Running

\* The ID token and its cookie expire; a request takes much less time.
IDTokenExpires(b) ==
  /\ jar[b].token /\ \A t \in Tabs : tab[b][t].pc = "idle"
  /\ jar' = [jar EXCEPT ![b].token = FALSE]
  /\ UNCHANGED <<session, live, dropping, tab, presented, revoked>> /\ Begun /\ Running

(***************************************************************************)
(* A refresh.                                                              *)
(***************************************************************************)
RequestSent(b, t) ==
  /\ tab[b][t].pc = "idle" /\ ~jar[b].token /\ jar[b].session # 0
  /\ tab' = [tab EXCEPT ![b][t] = [pc |-> "sent", id |-> jar[b].session]]
  /\ UNCHANGED <<jar, session, live, dropping, presented, revoked>> /\ Begun /\ Running

checkAllowed(id) == session[id].user \in AllowedUsers

\* getOAuthRefreshToken and checkAllowed: otherwise the cookies are cleared.
TryRefreshToken(b, t) ==
  LET id == tab[b][t].id IN
  /\ tab[b][t].pc = "sent"
  /\ IF id \in live /\ checkAllowed(id)
       THEN tab' = [tab EXCEPT ![b][t].pc = "lock"] /\ UNCHANGED jar
       ELSE tab' = [tab EXCEPT ![b][t] = IdleTab] /\ jar' = clearCookie(b)
  /\ UNCHANGED <<session, live, dropping, presented, revoked>> /\ Begun /\ Running

AnsweredWith(b, r) == IF r = 0 THEN clearCookie(b) ELSE [jar EXCEPT ![b].token = TRUE, ![b].session = r]

(* Mutant: the result of the first refresh is not looked at.               *)
AlreadyRefreshedMutant(id) == FALSE

\* Whoever comes after the refresh has its result.
AlreadyRefreshed(id) == session[id].result # 0 \/ session[id].err
RefreshLock(b, t) ==
  LET id == tab[b][t].id IN
  /\ tab[b][t].pc = "lock" /\ ~session[id].locked
  /\ IF AlreadyRefreshed(id)
       THEN /\ jar' = AnsweredWith(b, session[id].result)
            /\ tab' = [tab EXCEPT ![b][t] = IdleTab] /\ UNCHANGED <<session, presented>>
       ELSE /\ session' = [session EXCEPT ![id].locked = TRUE]
            /\ presented' = [presented EXCEPT ![id] = @ + 1]
            /\ tab' = [tab EXCEPT ![b][t].pc = "idp"] /\ UNCHANGED jar
  /\ UNCHANGED <<live, dropping, revoked>> /\ Begun /\ Running

\* The provider refuses (or fails), or gives a new token: a new session, and
\* the old one goes after a while.
doRefreshToken(b, t) ==
  LET id == tab[b][t].id  new == Len(session) + 1 IN
  /\ tab[b][t].pc = "idp"
  /\ \/ /\ session' = [session EXCEPT ![id].locked = FALSE, ![id].err = TRUE]
        /\ jar' = AnsweredWith(b, 0) /\ UNCHANGED <<live, dropping, presented>>
     \/ /\ presented[id] = 1 /\ new <= MaxSessionIDs
        /\ session' = Append([session EXCEPT ![id].locked = FALSE, ![id].result = new],
                             [user |-> session[id].user, result |-> 0, err |-> FALSE, locked |-> FALSE])
        /\ presented' = Append(presented, 0)
        /\ live' = live \union {new} /\ dropping' = dropping \union {id}
        /\ jar' = AnsweredWith(b, new)
  /\ tab' = [tab EXCEPT ![b][t] = IdleTab]
  /\ UNCHANGED revoked /\ Begun /\ Running

\* The delay ends, or the token expires, and the store drops it.
InvalidateLater(id) ==
  /\ id \in dropping
  /\ dropping' = dropping \ {id} /\ live' = live \ {id}
  /\ UNCHANGED <<jar, session, tab, presented, revoked>> /\ Begun /\ Running

LogoutHandler(b) ==
  /\ jar[b].session # 0
  /\ live' = live \ {jar[b].session} /\ revoked' = revoked \union {jar[b].session}
  /\ jar' = clearCookie(b)
  /\ UNCHANGED <<session, dropping, tab, presented>> /\ Begun /\ Running

(***************************************************************************)
(* The store is written when the program ends, and read when it starts; a  *)
(* session's result and error are not part of it.                          *)
(***************************************************************************)
RestartWith(kept) ==
  /\ restarts < MaxRestarts /\ restarts' = restarts + 1
  /\ live' = kept /\ saved' = kept /\ dropping' = {}
  /\ session' = [i \in DOMAIN session |-> [session[i] EXCEPT !.result = 0, !.err = FALSE, !.locked = FALSE]]
  /\ tab' = [b \in Browsers |-> [t \in Tabs |-> IdleTab]] /\ loginTokens' = AuthBurst
  /\ UNCHANGED <<jar, flow, presented, revoked>>
save == RestartWith(live) /\ UNCHANGED crashed
Crash == RestartWith(saved) /\ crashed' = TRUE

AuthNext ==
  \/ \E b \in Browsers : LoginHandler(b) \/ IDTokenExpires(b) \/ LogoutHandler(b)
  \/ \E f \in DOMAIN flow : SignsIn(f) \/ \E b \in Browsers : PostAuthCallbackHandler(b, f)
  \/ \E b \in Browsers, t \in Tabs :
       RequestSent(b, t) \/ TryRefreshToken(b, t) \/ RefreshLock(b, t) \/ doRefreshToken(b, t)
  \/ \E id \in dropping : InvalidateLater(id)
  \/ LoginTokensBack \/ save \/ Crash

AuthSpec == AuthInit /\ [][AuthNext]_auVars

(***************************************************************************)
(* Properties.                                                             *)
(***************************************************************************)
(* A refresh token goes to the provider once, however many requests of the *)
(* browser find the ID token expired at once (a provider that rotates its  *)
(* tokens would end the session on the second use), unless the process was *)
(* restarted in between.                                                   *)
RefreshOnce == restarts = 0 => \A i \in DOMAIN presented : presented[i] <= 1

(* A browser has only sessions of the login that it began itself: the      *)
(* answer to a login begun elsewhere does not sign it in.                  *)
StateBound == \A b \in Browsers : jar[b].session # 0 => session[jar[b].session].user = AuthUser[b]

(* A session that was logged out stays out: also a restart that follows    *)
(* the end of the program does not bring it back (a crash does, since the  *)
(* file is the one of the last regular end).                               *)
LogoutEnds == ~crashed => revoked \intersect live = {}

(* When its requests are through, the session in a browser's cookie is one *)
(* that can be refreshed: the answers leave the newest session behind, not *)
(* one that is about to be invalidated.  (A logout while a request is on   *)
(* its way may leave the logged-out session.)                              *)
CookieUsable ==
  \A b \in Browsers :
    (restarts = 0 /\ jar[b].session # 0 /\ \A t \in Tabs : tab[b][t].pc = "idle")
      => jar[b].session \in (live \ dropping) \union revoked

AuthSound == RefreshOnce /\ StateBound /\ LogoutEnds /\ CookieUsable
=============================================================================
