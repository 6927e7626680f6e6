--------------------------- MODULE RequestsProofs ---------------------------
(***************************************************************************)
(* Proofs about components of MCRequests that share no state: the sessions *)
(* of the OIDC login, the entrypoint with its short links, access control  *)
(* with its country database, and the rules of a route.                    *)
(***************************************************************************)
EXTENDS AuthSessions, Entrypoint, AccessControl, Rules, DataInduction, SequenceTheorems

(***************************************************************************)
(* AuthSessions.                                                           *)
(***************************************************************************)
Flows == [by : Browsers, done : BOOLEAN, spent : BOOLEAN]
TabStates == [pc : {"idle", "sent", "lock", "idp"}, id : Nat]
Cookies == [flow : Nat, token : BOOLEAN, session : Nat]
Sessions == [user : {AuthUser[b] : b \in Browsers}, result : Nat, err : BOOLEAN, locked : BOOLEAN]

AuthTypes ==
  /\ jar \in [Browsers -> Cookies]
  /\ flow \in Seq(Flows)
  /\ session \in Seq(Sessions) /\ presented \in Seq(Nat) /\ Len(presented) = Len(session)
  /\ tab \in [Browsers -> [Tabs -> TabStates]]
  /\ live \subseteq DOMAIN session /\ saved \subseteq DOMAIN session
  /\ dropping \subseteq DOMAIN session /\ revoked \subseteq DOMAIN session
  /\ restarts \in Nat /\ crashed \in BOOLEAN

(* The flow in a browser's cookie is one that it began.                    *)
OwnFlow == \A b \in Browsers :
             jar[b].flow # 0 => jar[b].flow \in DOMAIN flow /\ flow[jar[b].flow].by = b

InFlight(b, t) == tab[b][t].pc # "idle"

(* Every session is one browser's: those of its cookie, of its requests,   *)
(* and what they are refreshed to.                                         *)
Owned(own) ==
  /\ \A i \in DOMAIN session : session[i].user = AuthUser[own[i]]
  /\ \A i \in DOMAIN session : session[i].result # 0 =>
       session[i].result \in DOMAIN session /\ own[session[i].result] = own[i]
  /\ \A b \in Browsers : jar[b].session # 0 =>
       jar[b].session \in DOMAIN session /\ own[jar[b].session] = b
  /\ \A b \in Browsers, t \in Tabs : InFlight(b, t) =>
       tab[b][t].id \in DOMAIN session /\ own[tab[b][t].id] = b
SomeOwner == \E own \in [DOMAIN session -> Browsers] : Owned(own)

(* Requests that find the ID token expired all have the cookie's session.  *)
SameSession ==
  \A b \in Browsers : jar[b].session # 0 /\ ~jar[b].token =>
    \A t \in Tabs : InFlight(b, t) => tab[b][t].id = jar[b].session

(* The cookie's session was not refreshed yet, and while requests wait for *)
(* a refresh its result is not refreshed in turn.                          *)
Newest ==
  /\ \A b \in Browsers : jar[b].session # 0 => session[jar[b].session].result = 0
  /\ \A b \in Browsers, t \in Tabs : InFlight(b, t) =>
       LET r == session[tab[b][t].id].result IN
       r # 0 => /\ session[r].result = 0
                /\ \A u \in Tabs : InFlight(b, u) => tab[b][u].id # r

(* Until a restart, what was not refreshed is kept unless it was logged    *)
(* out, and what was presented is being refreshed or has been.             *)
Kept == restarts = 0 => \A i \in DOMAIN session :
          session[i].result = 0 => i \in (live \ dropping) \union revoked
PresentedOnce ==
  restarts = 0 => \A i \in DOMAIN session :
    /\ presented[i] <= 1
    /\ presented[i] = 0 \/ session[i].locked \/ AlreadyRefreshed(i)

AuthInv == /\ AuthTypes /\ OwnFlow /\ SomeOwner /\ SameSession /\ Newest
           /\ Kept /\ PresentedOnce /\ LogoutEnds

LEMMA AuthUnfolded ==
  ASSUME AuthInv
  PROVE  /\ AuthTypes /\ OwnFlow /\ SomeOwner /\ SameSession /\ Newest
         /\ Kept /\ PresentedOnce /\ LogoutEnds
         /\ DOMAIN session = 1..Len(session) /\ Len(session) \in Nat /\ DOMAIN flow = 1..Len(flow)
         /\ DOMAIN presented = DOMAIN session
         /\ \A i \in DOMAIN session : session[i] \in Sessions
         /\ \A b \in Browsers : jar[b] \in Cookies
BY DEF AuthInv, AuthTypes

(* An element of a sequence changes, the others do not.                    *)
LEMMA OneElement ==
  ASSUME NEW S, NEW s \in Seq(S), NEW i \in DOMAIN s, NEW e \in S, NEW s2, s2 = [s EXCEPT ![i] = e]
  PROVE  /\ s2 \in Seq(S) /\ Len(s2) = Len(s) /\ DOMAIN s2 = DOMAIN s
         /\ s2[i] = e /\ \A j \in DOMAIN s : j # i => s2[j] = s[j]
BY ExceptSeq

LEMMA IdleIsState == IdleTab \in TabStates
BY DEF IdleTab, TabStates

(* The cookies of one browser change.                                      *)
LEMMA OneJar ==
  ASSUME AuthTypes, NEW b \in Browsers, NEW v \in Cookies, jar' = [jar EXCEPT ![b] = v]
  PROVE  /\ jar' \in [Browsers -> Cookies] /\ jar'[b] = v
         /\ \A c \in Browsers : c # b => jar'[c] = jar[c]
BY DEF AuthTypes

LEMMA ClearedJar ==
  ASSUME AuthTypes, NEW b \in Browsers, jar' = clearCookie(b)
  PROVE  /\ jar' \in [Browsers -> Cookies]
         /\ jar'[b].flow = jar[b].flow /\ ~jar'[b].token /\ jar'[b].session = 0
         /\ \A c \in Browsers : c # b => jar'[c] = jar[c]
BY DEF AuthTypes, clearCookie, Cookies

LEMMA AnsweredJar ==
  ASSUME AuthTypes, NEW b \in Browsers, NEW r \in Nat, jar' = AnsweredWith(b, r)
  PROVE  /\ jar' \in [Browsers -> Cookies]
         /\ jar'[b].flow = jar[b].flow /\ jar'[b].session = r /\ (r # 0 => jar'[b].token)
         /\ \A c \in Browsers : c # b => jar'[c] = jar[c]
<1>1. CASE r = 0
  BY <1>1, ClearedJar DEF AnsweredWith
<1>2. CASE r # 0
  BY <1>2 DEF AnsweredWith, AuthTypes, Cookies
<1> QED
  BY <1>1, <1>2

(* What happens in the browsers leaves the store alone.                    *)
LEMMA StoreAlone ==
  ASSUME AuthInv, UNCHANGED <<session, live, saved, dropping, presented, revoked, restarts, crashed>>
  PROVE  Kept' /\ PresentedOnce' /\ LogoutEnds'
BY AuthUnfolded DEF Kept, PresentedOnce, LogoutEnds, AlreadyRefreshed

SameResults ==
  /\ DOMAIN session' = DOMAIN session
  /\ \A i \in DOMAIN session : session'[i].user = session[i].user /\ session'[i].result = session[i].result

(* Browsers change their cookies to nothing, or to the result of a request *)
(* of theirs, requests move on or end, and new ones have the cookie's      *)
(* session.                                                                *)
LEMMA BrowsersMove ==
  ASSUME AuthInv, AuthTypes', SameResults,
         \A b \in Browsers :
           \/ jar'[b].session = 0 \/ jar'[b].session = jar[b].session
           \/ \E t \in Tabs : InFlight(b, t) /\ jar'[b].session = session[tab[b][t].id].result,
         \A b \in Browsers, t \in Tabs : InFlight(b, t)' =>
           \/ InFlight(b, t) /\ tab'[b][t].id = tab[b][t].id
           \/ jar[b].session # 0 /\ ~jar[b].token /\ tab'[b][t].id = jar[b].session
  PROVE  SomeOwner' /\ Newest'
<1> USE AuthUnfolded
<1>1. PICK own \in [DOMAIN session -> Browsers] : Owned(own)
  BY DEF SomeOwner
<1>2. \A b \in Browsers, t \in Tabs : InFlight(b, t)' =>
        tab'[b][t].id \in DOMAIN session /\ own[tab'[b][t].id] = b
  BY <1>1 DEF Owned
<1>3. \A b \in Browsers : jar'[b].session # 0 =>
        jar'[b].session \in DOMAIN session /\ own[jar'[b].session] = b
  BY <1>1 DEF Owned
<1>4. SomeOwner'
  <2>1. Owned(own)'
    BY <1>1, <1>2, <1>3 DEF Owned, SameResults
  <2> QED
    BY <2>1 DEF SomeOwner, SameResults
<1>5. ASSUME NEW b \in Browsers, jar'[b].session # 0
      PROVE  session'[jar'[b].session].result = 0
  <2>1. jar'[b].session \in DOMAIN session
    BY <1>3, <1>5
  <2>2. \/ jar'[b].session = jar[b].session
        \/ \E t \in Tabs : InFlight(b, t) /\ jar'[b].session = session[tab[b][t].id].result
    BY <1>5
  <2>3. session'[jar'[b].session].result = session[jar'[b].session].result
    BY <2>1 DEF SameResults
  <2>4. Newest
    BY AuthUnfolded
  <2> QED
    BY ONLY <2>2, <2>3, <2>4, <1>5, b \in Browsers DEF Newest
<1>6. ASSUME NEW b \in Browsers, NEW t \in Tabs, NEW u \in Tabs, InFlight(b, t)',
             session'[tab'[b][t].id].result # 0
      PROVE  /\ session'[session'[tab'[b][t].id].result].result = 0
             /\ InFlight(b, u)' => tab'[b][u].id # session'[tab'[b][t].id].result
  <2>1. jar[b].session # 0 => session[jar[b].session].result = 0
    BY DEF Newest
  <2>0. /\ tab'[b][t].id \in DOMAIN session
        /\ session'[tab'[b][t].id].result = session[tab'[b][t].id].result
    BY <1>2, <1>6 DEF SameResults
  <2>2. InFlight(b, t) /\ tab'[b][t].id = tab[b][t].id
    BY <1>6, <2>0, <2>1
  <2>3. /\ session[session[tab[b][t].id].result].result = 0
        /\ InFlight(b, u) => tab[b][u].id # session[tab[b][t].id].result
    <3>1. Newest
      BY AuthUnfolded
    <3> QED
      BY ONLY <3>1, <1>6, <2>0, <2>2, b \in Browsers, t \in Tabs, u \in Tabs DEF Newest
  <2>4. ASSUME jar[b].session # 0, ~jar[b].token
        PROVE  tab[b][t].id = jar[b].session
    BY <2>2, <2>4 DEF SameSession
  <2>5. session[tab[b][t].id].result \in DOMAIN session
    BY <1>1, <1>6, <2>0, <2>2 DEF Owned
  <2> QED
    BY <1>6, <2>0, <2>1, <2>2, <2>3, <2>4, <2>5 DEF SameResults
<1> QED
  BY <1>4, <1>5, <1>6 DEF Newest

LEMMA LoginInductive ==
  ASSUME AuthInv, NEW b \in Browsers, LoginHandler(b)
  PROVE  AuthInv'
<1> USE AuthUnfolded
<1>0. /\ jar[b].session = 0 /\ jar' = [jar EXCEPT ![b].flow = Len(flow) + 1]
      /\ flow' = Append(flow, [by |-> b, done |-> FALSE, spent |-> FALSE])
      /\ UNCHANGED <<session, live, saved, dropping, tab, presented, revoked, restarts, crashed>>
  BY DEF LoginHandler, Running
<1>1. /\ Len(flow) \in Nat /\ jar' \in [Browsers -> Cookies]
      /\ jar'[b].flow = Len(flow) + 1 /\ jar'[b].session = 0
      /\ \A c \in Browsers : c # b => jar'[c] = jar[c]
  <2>1. Len(flow) \in Nat
    BY DEF AuthTypes
  <2>2. [jar[b] EXCEPT !.flow = Len(flow) + 1] \in Cookies
    BY <2>1 DEF Cookies
  <2> QED
    BY <1>0, <2>1, <2>2, OneJar DEF Cookies
<1>2. /\ flow' \in Seq(Flows)
      /\ DOMAIN flow' = 1..(Len(flow) + 1) /\ flow'[Len(flow) + 1].by = b
      /\ \A f \in DOMAIN flow : flow'[f] = flow[f]
  BY <1>0, AppendProperties DEF AuthTypes, Flows
<1>3. AuthTypes'
  BY <1>0, <1>1, <1>2 DEF AuthTypes
<1>4. OwnFlow'
  <2> SUFFICES ASSUME NEW c \in Browsers, jar'[c].flow # 0
               PROVE  jar'[c].flow \in DOMAIN flow' /\ flow'[jar'[c].flow].by = c
    BY DEF OwnFlow
  <2>1. CASE c = b
    BY <2>1, <1>1, <1>2
  <2>2. CASE c # b
    BY <2>2, <1>1, <1>2 DEF OwnFlow
  <2> QED
    BY <2>1, <2>2
<1>5. SomeOwner' /\ Newest'
  BY <1>0, <1>1, <1>3, BrowsersMove DEF InFlight, SameResults
<1>6. SameSession'
  BY <1>0, <1>1 DEF SameSession, InFlight
<1> QED
  BY <1>0, <1>3, <1>4, <1>5, <1>6, StoreAlone DEF AuthInv

LEMMA FlowStep ==
  ASSUME AuthTypes, NEW f \in DOMAIN flow,
         \/ flow' = [flow EXCEPT ![f].done = TRUE]
         \/ flow' = [flow EXCEPT ![f].spent = TRUE]
  PROVE  /\ flow' \in Seq(Flows)
         /\ DOMAIN flow' = DOMAIN flow /\ \A g \in DOMAIN flow : flow'[g].by = flow[g].by
<1>1. flow \in Seq(Flows) /\ flow[f] \in Flows
  BY DEF AuthTypes
<1>2. PICK e \in Flows : flow' = [flow EXCEPT ![f] = e] /\ e.by = flow[f].by
  <2>1. [flow[f] EXCEPT !.done = TRUE] \in Flows /\ [flow[f] EXCEPT !.done = TRUE].by = flow[f].by
    BY <1>1 DEF Flows
  <2>2. [flow[f] EXCEPT !.spent = TRUE] \in Flows /\ [flow[f] EXCEPT !.spent = TRUE].by = flow[f].by
    BY <1>1 DEF Flows
  <2> QED
    BY <2>1, <2>2
<1>3. /\ flow' \in Seq(Flows) /\ DOMAIN flow' = DOMAIN flow /\ flow'[f] = e
      /\ \A g \in DOMAIN flow : g # f => flow'[g] = flow[g]
  BY <1>1, <1>2, OneElement
<1> QED
  BY <1>2, <1>3

LEMMA SignsInInductive ==
  ASSUME AuthInv, NEW f \in DOMAIN flow, SignsIn(f)
  PROVE  AuthInv'
<1> USE AuthUnfolded
<1>0. /\ flow' = [flow EXCEPT ![f].done = TRUE]
      /\ UNCHANGED <<jar, session, live, saved, dropping, tab, presented, revoked, restarts, crashed>>
  BY DEF SignsIn, Running
<1>1. /\ flow' \in Seq(Flows) /\ DOMAIN flow' = DOMAIN flow
      /\ \A g \in DOMAIN flow : flow'[g].by = flow[g].by
  BY <1>0, FlowStep DEF AuthTypes
<1>2. AuthTypes' /\ OwnFlow'
  BY <1>0, <1>1 DEF AuthTypes, OwnFlow
<1>3. SomeOwner' /\ Newest'
  BY <1>0, <1>2, BrowsersMove DEF InFlight, SameResults
<1>4. SameSession'
  BY <1>0 DEF SameSession, InFlight
<1> QED
  BY <1>0, <1>2, <1>3, <1>4, StoreAlone DEF AuthInv

LEMMA ExpiresInductive ==
  ASSUME AuthInv, NEW b \in Browsers, IDTokenExpires(b)
  PROVE  AuthInv'
<1> USE AuthUnfolded
<1>0. /\ \A t \in Tabs : ~InFlight(b, t)
      /\ jar' = [jar EXCEPT ![b].token = FALSE]
      /\ UNCHANGED <<flow, session, live, saved, dropping, tab, presented, revoked, restarts, crashed>>
  BY DEF IDTokenExpires, InFlight, Begun, Running
<1>1. /\ jar' \in [Browsers -> Cookies]
      /\ \A c \in Browsers : /\ jar'[c].session = jar[c].session /\ jar'[c].flow = jar[c].flow
                             /\ c # b => jar'[c] = jar[c]
  BY <1>0 DEF AuthTypes, Cookies
<1>2. AuthTypes' /\ OwnFlow'
  BY <1>0, <1>1 DEF AuthTypes, OwnFlow
<1>3. SomeOwner' /\ Newest'
  BY <1>0, <1>1, <1>2, BrowsersMove DEF InFlight, SameResults
<1>4. SameSession'
  BY <1>0, <1>1 DEF SameSession, InFlight
<1> QED
  BY <1>0, <1>2, <1>3, <1>4, StoreAlone DEF AuthInv

LEMMA SentInductive ==
  ASSUME AuthInv, NEW b \in Browsers, NEW t \in Tabs, RequestSent(b, t)
  PROVE  AuthInv'
<1> USE AuthUnfolded
<1>0. /\ ~jar[b].token /\ jar[b].session # 0
      /\ tab' = [tab EXCEPT ![b][t] = [pc |-> "sent", id |-> jar[b].session]]
      /\ UNCHANGED <<jar, flow, session, live, saved, dropping, presented, revoked, restarts, crashed>>
  BY DEF RequestSent, Begun, Running
<1>1. /\ tab' \in [Browsers -> [Tabs -> TabStates]]
      /\ tab'[b][t] = [pc |-> "sent", id |-> jar[b].session]
      /\ \A c \in Browsers, u \in Tabs : c # b \/ u # t => tab'[c][u] = tab[c][u]
  <2>1. [pc |-> "sent", id |-> jar[b].session] \in TabStates
    BY DEF Cookies, TabStates
  <2>2. AuthTypes
    BY AuthUnfolded
  <2> QED
    BY ONLY <1>0, <2>1, <2>2, b \in Browsers, t \in Tabs DEF AuthTypes
<1>2. AuthTypes' /\ OwnFlow'
  BY <1>0, <1>1 DEF AuthTypes, OwnFlow
<1>3. SomeOwner' /\ Newest'
  BY <1>0, <1>1, <1>2, BrowsersMove DEF InFlight, SameResults
<1>4. SameSession'
  BY <1>0, <1>1 DEF SameSession, InFlight
<1> QED
  BY <1>0, <1>2, <1>3, <1>4, StoreAlone DEF AuthInv

LEMMA TryInductive ==
  ASSUME AuthInv, NEW b \in Browsers, NEW t \in Tabs, TryRefreshToken(b, t)
  PROVE  AuthInv'
<1> USE AuthUnfolded
<1>0. /\ InFlight(b, t) /\ tab[b][t] \in TabStates
      /\ UNCHANGED <<flow, session, live, saved, dropping, presented, revoked, restarts, crashed>>
  BY DEF TryRefreshToken, InFlight, Begun, Running, AuthTypes
<1>1. CASE UNCHANGED jar /\ tab' = [tab EXCEPT ![b][t].pc = "lock"]
  <2>0. [tab[b][t] EXCEPT !.pc = "lock"] \in TabStates
    BY <1>0 DEF TabStates
  <2>1. /\ tab' \in [Browsers -> [Tabs -> TabStates]]
        /\ tab'[b][t] = [tab[b][t] EXCEPT !.pc = "lock"]
        /\ \A c \in Browsers, u \in Tabs : c # b \/ u # t => tab'[c][u] = tab[c][u]
    <3>1. AuthTypes /\ tab' = [tab EXCEPT ![b][t] = [tab[b][t] EXCEPT !.pc = "lock"]]
      BY <1>1, AuthUnfolded DEF AuthTypes
    <3> QED
      BY ONLY <2>0, <3>1, b \in Browsers, t \in Tabs DEF AuthTypes
  <2>2. AuthTypes' /\ OwnFlow'
    BY <1>0, <1>1, <2>1 DEF AuthTypes, OwnFlow
  <2>3. \A c \in Browsers, u \in Tabs : InFlight(c, u)' => InFlight(c, u) /\ tab'[c][u].id = tab[c][u].id
    <3>1. [tab[b][t] EXCEPT !.pc = "lock"].id = tab[b][t].id
      BY <1>0 DEF TabStates
    <3> QED
      BY <1>0, <2>1, <3>1 DEF InFlight
  <2>4. SomeOwner' /\ Newest'
    BY <1>0, <1>1, <2>2, <2>3, BrowsersMove DEF SameResults
  <2>5. SameSession'
    BY <1>1, <2>3 DEF SameSession
  <2> QED
    BY <1>0, <2>2, <2>4, <2>5, StoreAlone DEF AuthInv
<1>2. CASE jar' = clearCookie(b) /\ tab' = [tab EXCEPT ![b][t] = IdleTab]
  <2>1. /\ tab' \in [Browsers -> [Tabs -> TabStates]] /\ tab'[b][t] = IdleTab
        /\ \A c \in Browsers, u \in Tabs : c # b \/ u # t => tab'[c][u] = tab[c][u]
    <3>1. AuthTypes
      BY AuthUnfolded
    <3> QED
      BY ONLY <1>2, <3>1, b \in Browsers, t \in Tabs, IdleIsState DEF AuthTypes
  <2>2. /\ jar' \in [Browsers -> Cookies] /\ jar'[b].flow = jar[b].flow /\ jar'[b].session = 0
        /\ \A c \in Browsers : c # b => jar'[c] = jar[c]
    BY <1>2, ClearedJar
  <2>3. AuthTypes' /\ OwnFlow'
    BY <1>0, <2>1, <2>2 DEF AuthTypes, OwnFlow
  <2>4. \A c \in Browsers, u \in Tabs : InFlight(c, u)' => InFlight(c, u) /\ tab'[c][u].id = tab[c][u].id
    BY <2>1 DEF InFlight, IdleTab
  <2>5. SomeOwner' /\ Newest'
    BY <1>0, <2>2, <2>3, <2>4, BrowsersMove DEF SameResults
  <2>6. SameSession'
    BY <2>2, <2>4 DEF SameSession
  <2> QED
    BY <1>0, <2>3, <2>5, <2>6, StoreAlone DEF AuthInv
<1> QED
  BY <1>1, <1>2 DEF TryRefreshToken

LEMMA LockInductive ==
  ASSUME AuthInv, NEW b \in Browsers, NEW t \in Tabs, RefreshLock(b, t)
  PROVE  AuthInv'
<1> USE AuthUnfolded
<1> DEFINE id == tab[b][t].id
<1>0. /\ InFlight(b, t) /\ tab[b][t] \in TabStates /\ ~session[id].locked
      /\ UNCHANGED <<flow, live, saved, dropping, revoked, restarts, crashed>>
  BY DEF RefreshLock, InFlight, Begun, Running, AuthTypes
<1>1. id \in DOMAIN session /\ session[id] \in Sessions
  BY <1>0 DEF SomeOwner, Owned
<1>2. CASE /\ jar' = AnsweredWith(b, session[id].result) /\ tab' = [tab EXCEPT ![b][t] = IdleTab]
           /\ UNCHANGED <<session, presented>>
  <2>1. /\ tab' \in [Browsers -> [Tabs -> TabStates]] /\ tab'[b][t] = IdleTab
        /\ \A c \in Browsers, u \in Tabs : c # b \/ u # t => tab'[c][u] = tab[c][u]
    <3>1. AuthTypes
      BY AuthUnfolded
    <3> QED
      BY ONLY <1>2, <3>1, b \in Browsers, t \in Tabs, IdleIsState DEF AuthTypes
  <2>2. session[id].result \in Nat
    BY <1>1 DEF Sessions
  <2>3. /\ jar' \in [Browsers -> Cookies] /\ jar'[b].flow = jar[b].flow
        /\ jar'[b].session = session[id].result /\ (jar'[b].session # 0 => jar'[b].token)
        /\ \A c \in Browsers : c # b => jar'[c] = jar[c]
    BY <1>2, <2>2, AnsweredJar
  <2>4. AuthTypes' /\ OwnFlow'
    <3>1. AuthTypes'
      BY <1>0, <1>2, <2>1, <2>3 DEF AuthTypes
    <3>2. OwnFlow'
      BY <1>0, <2>3 DEF OwnFlow
    <3> QED
      BY <3>1, <3>2
  <2>5. \A c \in Browsers, u \in Tabs : InFlight(c, u)' => InFlight(c, u) /\ tab'[c][u].id = tab[c][u].id
    BY <2>1 DEF InFlight, IdleTab
  <2>6. SomeOwner' /\ Newest'
    BY <1>0, <1>2, <2>3, <2>4, <2>5, BrowsersMove DEF SameResults
  <2>7. SameSession'
    BY <2>3, <2>5 DEF SameSession
  <2> QED
    BY <1>0, <1>2, <2>4, <2>6, <2>7, StoreAlone DEF AuthInv
<1>3. CASE /\ ~AlreadyRefreshed(id) /\ session' = [session EXCEPT ![id].locked = TRUE]
           /\ presented' = [presented EXCEPT ![id] = @ + 1]
           /\ tab' = [tab EXCEPT ![b][t].pc = "idp"] /\ UNCHANGED jar
  <2>0. [tab[b][t] EXCEPT !.pc = "idp"] \in TabStates
    BY <1>0 DEF TabStates
  <2>1. /\ tab' \in [Browsers -> [Tabs -> TabStates]]
        /\ tab'[b][t] = [tab[b][t] EXCEPT !.pc = "idp"]
        /\ \A c \in Browsers, u \in Tabs : c # b \/ u # t => tab'[c][u] = tab[c][u]
    <3>1. AuthTypes /\ tab' = [tab EXCEPT ![b][t] = [tab[b][t] EXCEPT !.pc = "idp"]]
      BY <1>3, AuthUnfolded DEF AuthTypes
    <3> QED
      BY ONLY <2>0, <3>1, b \in Browsers, t \in Tabs DEF AuthTypes
  <2>2. [session[id] EXCEPT !.locked = TRUE] \in Sessions
    BY <1>1 DEF Sessions
  <2>3. /\ session' \in Seq(Sessions) /\ Len(session') = Len(session) /\ DOMAIN session' = DOMAIN session
        /\ session'[id] = [session[id] EXCEPT !.locked = TRUE]
        /\ \A i \in DOMAIN session : i # id => session'[i] = session[i]
    BY <1>1, <1>3, <2>2, OneElement DEF AuthTypes
  <2>4. presented[id] \in Nat /\ presented[id] + 1 \in Nat /\ id \in DOMAIN presented
    BY <1>1 DEF AuthTypes
  <2>5. /\ presented' \in Seq(Nat) /\ Len(presented') = Len(presented)
        /\ presented'[id] = presented[id] + 1
        /\ \A i \in DOMAIN session : i # id => presented'[i] = presented[i]
    BY <1>3, <2>4, OneElement DEF AuthTypes
  <2>6. SameResults /\ \A i \in DOMAIN session : session'[i].err = session[i].err
    BY <1>1, <2>3 DEF SameResults, Sessions
  <2>7. AuthTypes' /\ OwnFlow'
    BY <1>0, <1>3, <2>1, <2>3, <2>5 DEF AuthTypes, OwnFlow
  <2>8. \A c \in Browsers, u \in Tabs : InFlight(c, u)' => InFlight(c, u) /\ tab'[c][u].id = tab[c][u].id
    <3>1. [tab[b][t] EXCEPT !.pc = "idp"].id = tab[b][t].id
      BY <1>0 DEF TabStates
    <3> QED
      BY <1>0, <2>1, <3>1 DEF InFlight
  <2>9. SomeOwner' /\ Newest'
    BY <1>3, <2>6, <2>7, <2>8, BrowsersMove
  <2>10. SameSession'
    BY <1>3, <2>8 DEF SameSession
  <2>11. Kept' /\ LogoutEnds'
    BY <1>0, <2>6 DEF Kept, LogoutEnds, SameResults
  <2>12. PresentedOnce'
    <3> SUFFICES ASSUME restarts = 0, NEW i \in DOMAIN session
                 PROVE  /\ presented'[i] <= 1
                        /\ presented'[i] = 0 \/ session'[i].locked \/ AlreadyRefreshed(i)'
      BY <1>0, <2>3 DEF PresentedOnce
    <3>1. /\ presented[i] <= 1
          /\ presented[i] = 0 \/ session[i].locked \/ AlreadyRefreshed(i)
      BY DEF PresentedOnce
    <3>2. CASE i = id
      <4>1. presented[i] = 0
        BY <1>0, <1>3, <3>1, <3>2
      <4> QED
        BY <4>1, <3>2, <2>3, <2>5, <1>1 DEF Sessions
    <3>3. CASE i # id
      BY <3>1, <3>3, <2>3, <2>5 DEF AlreadyRefreshed
    <3> QED
      BY <3>2, <3>3
  <2> QED
    BY <2>7, <2>9, <2>10, <2>11, <2>12 DEF AuthInv
<1> QED
  BY <1>2, <1>3 DEF RefreshLock

(* The provider refuses the token: the session stays, marked as failed.    *)
LEMMA RefusedInductive ==
  ASSUME AuthInv, NEW b \in Browsers, NEW t \in Tabs, InFlight(b, t),
         session' = [session EXCEPT ![tab[b][t].id].locked = FALSE, ![tab[b][t].id].err = TRUE],
         jar' = AnsweredWith(b, 0), tab' = [tab EXCEPT ![b][t] = IdleTab],
         UNCHANGED <<flow, live, saved, dropping, presented, revoked, restarts, crashed>>
  PROVE  AuthInv'
<1> USE AuthUnfolded
<1> DEFINE id == tab[b][t].id
           e == [session[id] EXCEPT !.locked = FALSE, !.err = TRUE]
<1>1. id \in DOMAIN session /\ session[id] \in Sessions
  BY DEF SomeOwner, Owned
<1>2. /\ e \in Sessions /\ e.user = session[id].user /\ e.result = session[id].result /\ e.err
  BY <1>1 DEF Sessions
<1>3. session' = [session EXCEPT ![id] = e]
  BY <1>1
<1>4. /\ session' \in Seq(Sessions) /\ Len(session') = Len(session) /\ DOMAIN session' = DOMAIN session
      /\ session'[id] = e /\ \A i \in DOMAIN session : i # id => session'[i] = session[i]
  <2> HIDE DEF e
  <2> QED
    BY <1>1, <1>2, <1>3, OneElement DEF AuthTypes
<1> HIDE DEF e
<1>5. /\ tab' \in [Browsers -> [Tabs -> TabStates]] /\ tab'[b][t] = IdleTab
      /\ \A c \in Browsers, u \in Tabs : c # b \/ u # t => tab'[c][u] = tab[c][u]
  <2>1. AuthTypes /\ tab' = [tab EXCEPT ![b][t] = IdleTab]
    BY AuthUnfolded
  <2> QED
    BY ONLY <2>1, b \in Browsers, t \in Tabs, IdleIsState DEF AuthTypes
<1>6. /\ jar' \in [Browsers -> Cookies] /\ jar'[b].flow = jar[b].flow /\ jar'[b].session = 0
      /\ \A c \in Browsers : c # b => jar'[c] = jar[c]
  BY AnsweredJar
<1>7. AuthTypes'
  BY <1>4, <1>5, <1>6 DEF AuthTypes
<1>8. OwnFlow'
  BY <1>6 DEF OwnFlow
<1>9. \A c \in Browsers, u \in Tabs : InFlight(c, u)' => InFlight(c, u) /\ tab'[c][u].id = tab[c][u].id
  BY <1>5 DEF InFlight, IdleTab
<1>10. SameResults
  BY <1>2, <1>4 DEF SameResults
<1>11. SomeOwner' /\ Newest'
  BY <1>6, <1>7, <1>9, <1>10, BrowsersMove
<1>12. SameSession'
  BY <1>6, <1>9 DEF SameSession
<1>13. Kept' /\ LogoutEnds'
  BY <1>10 DEF Kept, LogoutEnds, SameResults
<1>14. PresentedOnce'
  BY <1>2, <1>4 DEF PresentedOnce, AlreadyRefreshed
<1> QED
  BY <1>7, <1>8, <1>11, <1>12, <1>13, <1>14 DEF AuthInv

(* The provider gives a new token: a new session of the same browser.      *)
LEMMA RefreshedInductive ==
  ASSUME AuthInv, NEW b \in Browsers, NEW t \in Tabs, InFlight(b, t),
         session' = Append([session EXCEPT ![tab[b][t].id].locked = FALSE,
                                           ![tab[b][t].id].result = Len(session) + 1],
                           [user |-> session[tab[b][t].id].user, result |-> 0,
                            err |-> FALSE, locked |-> FALSE]),
         presented' = Append(presented, 0),
         live' = live \union {Len(session) + 1}, dropping' = dropping \union {tab[b][t].id},
         jar' = AnsweredWith(b, Len(session) + 1), tab' = [tab EXCEPT ![b][t] = IdleTab],
         UNCHANGED <<flow, saved, revoked, restarts, crashed>>
  PROVE  AuthInv'
<1> USE AuthUnfolded
<1> DEFINE id == tab[b][t].id
           new == Len(session) + 1
           e == [session[id] EXCEPT !.locked = FALSE, !.result = new]
           s == [session EXCEPT ![id] = e]
           r == [user |-> session[id].user, result |-> 0, err |-> FALSE, locked |-> FALSE]
<1>0. PICK own \in [DOMAIN session -> Browsers] : Owned(own)
  BY DEF SomeOwner
<1>1. id \in DOMAIN session /\ session[id] \in Sessions /\ own[id] = b
  BY <1>0 DEF Owned
<1>2. /\ new \in Nat /\ new # 0 /\ new \notin DOMAIN session /\ DOMAIN session \subseteq Nat
      /\ 1..new = DOMAIN session \union {new} /\ id # new
  BY <1>1
<1>3. /\ e \in Sessions /\ e.user = session[id].user /\ e.result = new
      /\ r \in Sessions /\ r.user = session[id].user /\ r.result = 0
  BY <1>1, <1>2 DEF Sessions
<1>4. s \in Seq(Sessions) /\ Len(s) = Len(session) /\ DOMAIN s = DOMAIN session
      /\ s[id] = e /\ \A i \in DOMAIN session : i # id => s[i] = session[i]
  <2> HIDE DEF e
  <2> QED
    BY <1>1, <1>3, OneElement DEF AuthTypes
<1>5. session' = Append(s, r)
  BY <1>1
<1> HIDE DEF e, r, s
<1>6. /\ session' \in Seq(Sessions) /\ Len(session') = new
      /\ DOMAIN session' = DOMAIN session \union {new}
      /\ session'[id] = e /\ session'[new] = r
      /\ \A i \in DOMAIN session : i # id => session'[i] = session[i]
  <2>1. /\ Append(s, r) \in Seq(Sessions) /\ Len(Append(s, r)) = Len(s) + 1
        /\ Append(s, r)[Len(s) + 1] = r /\ \A i \in 1..Len(s) : Append(s, r)[i] = s[i]
    BY ONLY <1>3, <1>4, AppendProperties
  <2>2. Len(s) + 1 = new /\ 1..Len(s) = DOMAIN session
    BY <1>4
  <2>3. session' \in Seq(Sessions) /\ Len(session') = new /\ session'[new] = r
    BY <2>1, <2>2, <1>5
  <2>4. \A i \in DOMAIN session : session'[i] = s[i]
    BY <2>1, <2>2, <1>5
  <2>5. DOMAIN session' = DOMAIN session \union {new}
    BY ONLY <2>3, <1>2
  <2> QED
    BY <2>3, <2>4, <2>5, <1>1, <1>4
<1>7. /\ presented' \in Seq(Nat) /\ Len(presented') = new /\ presented'[new] = 0
      /\ \A i \in DOMAIN session : presented'[i] = presented[i]
  BY AppendProperties DEF AuthTypes
<1>8. /\ tab' \in [Browsers -> [Tabs -> TabStates]] /\ tab'[b][t] = IdleTab
      /\ \A c \in Browsers, u \in Tabs : c # b \/ u # t => tab'[c][u] = tab[c][u]
  <2>1. AuthTypes /\ tab' = [tab EXCEPT ![b][t] = IdleTab]
    BY AuthUnfolded
  <2> QED
    BY ONLY <2>1, b \in Browsers, t \in Tabs, IdleIsState DEF AuthTypes
<1>9. /\ jar' \in [Browsers -> Cookies] /\ jar'[b].flow = jar[b].flow
      /\ jar'[b].session = new /\ jar'[b].token
      /\ \A c \in Browsers : c # b => jar'[c] = jar[c]
  BY <1>2, AnsweredJar
<1> HIDE DEF new
<1>10. AuthTypes'
  BY <1>1, <1>2, <1>6, <1>7, <1>8, <1>9 DEF AuthTypes
<1>11. OwnFlow'
  BY <1>9, SMTT(60) DEF OwnFlow
<1>12. \A c \in Browsers, u \in Tabs : InFlight(c, u)' => InFlight(c, u) /\ tab'[c][u].id = tab[c][u].id
  BY <1>8 DEF InFlight, IdleTab
<1>13. SomeOwner'
  <2>1. PICK own2 \in [DOMAIN session' -> Browsers] :
          own2[new] = b /\ \A i \in DOMAIN session : own2[i] = own[i]
    <3> DEFINE o == [i \in DOMAIN session' |-> IF i = new THEN b ELSE own[i]]
    <3>1. o \in [DOMAIN session' -> Browsers] /\ o[new] = b /\ \A i \in DOMAIN session : o[i] = own[i]
      BY <1>2, <1>6
    <3> QED
      BY <3>1
  <2>2. ASSUME NEW i \in DOMAIN session'
        PROVE  /\ session'[i].user = AuthUser[own2[i]]
               /\ session'[i].result # 0 =>
                    session'[i].result \in DOMAIN session' /\ own2[session'[i].result] = own2[i]
    <3>1. CASE i = new
      BY ONLY <3>1, <2>1, <1>0, <1>1, <1>2, <1>3, <1>6 DEF Owned
    <3>2. CASE i = id
      BY ONLY <3>2, <2>1, <1>0, <1>1, <1>2, <1>3, <1>6 DEF Owned
    <3>3. CASE i # new /\ i # id
      <4>1. i \in DOMAIN session /\ session'[i] = session[i] /\ own2[i] = own[i]
        BY <3>3, <2>1, <1>6
      <4>2. /\ session[i].user = AuthUser[own[i]]
            /\ session[i].result # 0 => session[i].result \in DOMAIN session /\ own[session[i].result] = own[i]
        BY <4>1, <1>0 DEF Owned
      <4> QED
        BY <4>1, <4>2, <2>1, <1>6
    <3> QED
      BY <3>1, <3>2, <3>3
  <2>3. ASSUME NEW c \in Browsers, jar'[c].session # 0
        PROVE  jar'[c].session \in DOMAIN session' /\ own2[jar'[c].session] = c
    <3>1. CASE c = b
      BY <3>1, <2>1, <1>6, <1>9
    <3>2. CASE c # b
      <4>1. jar'[c] = jar[c] /\ jar[c].session \in DOMAIN session /\ own[jar[c].session] = c
        BY ONLY <3>2, <2>3, <1>0, <1>9, c \in Browsers DEF Owned
      <4> QED
        BY <4>1, <2>1, <1>6
    <3> QED
      BY <3>1, <3>2
  <2>4. ASSUME NEW c \in Browsers, NEW u \in Tabs, InFlight(c, u)'
        PROVE  tab'[c][u].id \in DOMAIN session' /\ own2[tab'[c][u].id] = c
    <3>1. /\ tab'[c][u].id = tab[c][u].id
          /\ tab[c][u].id \in DOMAIN session /\ own[tab[c][u].id] = c
      BY <2>4, <1>0, <1>12 DEF Owned
    <3> QED
      BY <3>1, <2>1, <1>6
  <2>5. Owned(own2)'
    BY <2>2, <2>3, <2>4 DEF Owned
  <2> QED
    BY <2>1, <2>5 DEF SomeOwner
<1>14. SameSession'
  <2> SUFFICES ASSUME NEW c \in Browsers, jar'[c].session # 0, ~jar'[c].token, NEW u \in Tabs, InFlight(c, u)'
               PROVE  tab'[c][u].id = jar'[c].session
    BY DEF SameSession
  <2>1. c # b /\ jar'[c] = jar[c]
    BY <1>9
  <2>2. InFlight(c, u) /\ tab'[c][u].id = tab[c][u].id
    BY <1>12
  <2>3. SameSession
    BY AuthUnfolded
  <2> QED
    BY <2>1, <2>2, <2>3 DEF SameSession
<1>15. Newest'
  <2>1. ASSUME NEW c \in Browsers, jar'[c].session # 0
        PROVE  session'[jar'[c].session].result = 0
    <3>1. CASE c = b
      BY ONLY <3>1, <1>3, <1>6, <1>9
    <3>2. CASE c # b
      <4>1. jar'[c] = jar[c] /\ jar[c].session \in DOMAIN session /\ own[jar[c].session] = c
        BY <3>2, <2>1, <1>0, <1>9, SMTT(60) DEF Owned
      <4>2. jar[c].session # id
        BY <4>1, <3>2, <1>1
      <4> QED
        <5>1. Newest
          BY AuthUnfolded
        <5> QED
          BY ONLY <5>1, <4>1, <4>2, <2>1, <1>6, c \in Browsers DEF Newest
    <3> QED
      BY <3>1, <3>2
  <2>2. ASSUME NEW c \in Browsers, NEW u \in Tabs, NEW v \in Tabs, InFlight(c, u)',
               session'[tab'[c][u].id].result # 0
        PROVE  /\ session'[session'[tab'[c][u].id].result].result = 0
               /\ InFlight(c, v)' => tab'[c][v].id # session'[tab'[c][u].id].result
    <3>1. InFlight(c, u) /\ tab'[c][u].id = tab[c][u].id /\ tab[c][u].id \in DOMAIN session
      BY <2>2, <1>0, <1>12 DEF Owned
    <3>2. InFlight(c, v)' => InFlight(c, v) /\ tab'[c][v].id = tab[c][v].id /\ tab[c][v].id \in DOMAIN session
      BY <1>0, <1>12 DEF Owned
    <3>3. CASE tab[c][u].id = id
      BY ONLY <3>1, <3>2, <3>3, <1>2, <1>3, <1>6
    <3>4. CASE tab[c][u].id # id
      <4>1. session'[tab[c][u].id] = session[tab[c][u].id]
        BY <3>1, <3>4, <1>6
      <4>2. session[tab[c][u].id].result # 0
        BY <4>1, <3>1, <2>2
      <4>3. /\ session[session[tab[c][u].id].result].result = 0
            /\ \A w \in Tabs : InFlight(c, w) => tab[c][w].id # session[tab[c][u].id].result
        BY <4>2, <3>1 DEF Newest
      <4>4. session[tab[c][u].id].result \in DOMAIN session /\ own[session[tab[c][u].id].result] = c
        BY <4>2, <3>1, <1>0 DEF Owned
      <4>5. session[tab[c][u].id].result # id
        <5>1. CASE c = b
          BY <5>1, <4>3
        <5>2. CASE c # b
          BY <5>2, <4>4, <1>1
        <5> QED
          BY <5>1, <5>2
      <4> QED
        BY <4>1, <4>3, <4>4, <4>5, <3>1, <3>2, <1>6
    <3> QED
      BY <3>3, <3>4
  <2> QED
    BY <2>1, <2>2 DEF Newest
<1>16. Kept'
  <2> SUFFICES ASSUME restarts = 0, NEW i \in DOMAIN session', session'[i].result = 0
               PROVE  i \in (live' \ dropping') \union revoked'
    BY DEF Kept
  <2>1. CASE i = new
    BY <2>1, <1>2, <1>1 DEF AuthTypes, new
  <2>2. CASE i # new
    <3>1. i \in DOMAIN session /\ i # id
      BY <2>2, <1>2, <1>3, <1>6
    <3> QED
      BY <3>1, <1>6 DEF Kept
  <2> QED
    BY <2>1, <2>2
<1>17. PresentedOnce'
  <2> SUFFICES ASSUME restarts = 0, NEW i \in DOMAIN session'
               PROVE  /\ presented'[i] <= 1
                      /\ presented'[i] = 0 \/ session'[i].locked \/ AlreadyRefreshed(i)'
    BY DEF PresentedOnce
  <2>1. CASE i = new
    BY ONLY <2>1, <1>7
  <2>2. CASE i = id
    BY <2>2, <1>1, <1>2, <1>3, <1>6, <1>7 DEF PresentedOnce, AlreadyRefreshed
  <2>3. CASE i # new /\ i # id
    BY <2>3, <1>6, <1>7 DEF PresentedOnce, AlreadyRefreshed
  <2> QED
    BY <2>1, <2>2, <2>3
<1>18. LogoutEnds'
  BY <1>2 DEF LogoutEnds, AuthTypes, new
<1> QED
  BY <1>10, <1>11, <1>13, <1>14, <1>15, <1>16, <1>17, <1>18 DEF AuthInv

LEMMA RefreshInductive ==
  ASSUME AuthInv, NEW b \in Browsers, NEW t \in Tabs, doRefreshToken(b, t)
  PROVE  AuthInv'
<1>0. /\ InFlight(b, t) /\ tab' = [tab EXCEPT ![b][t] = IdleTab]
      /\ UNCHANGED <<flow, saved, revoked, restarts, crashed>>
  BY DEF doRefreshToken, InFlight, Begun, Running
<1> QED
  BY <1>0, RefusedInductive, RefreshedInductive DEF doRefreshToken

(* The callback makes no session: the flow is spent or not, and the        *)
(* cookies are cleared or the one of the ID token is set.                  *)
LEMMA NoSessionInductive ==
  ASSUME AuthInv, NEW b \in Browsers, NEW f \in DOMAIN flow,
         UNCHANGED flow \/ flow' = [flow EXCEPT ![f].spent = TRUE],
         jar' = clearCookie(b) \/ jar' = [jar EXCEPT ![b].token = TRUE],
         UNCHANGED <<session, live, saved, dropping, tab, presented, revoked, restarts, crashed>>
  PROVE  AuthInv'
<1> USE AuthUnfolded
<1>1. /\ flow' \in Seq(Flows) /\ DOMAIN flow' = DOMAIN flow
      /\ \A g \in DOMAIN flow : flow'[g].by = flow[g].by
  BY FlowStep DEF AuthTypes
<1>2. /\ jar' \in [Browsers -> Cookies] /\ jar'[b].flow = jar[b].flow
      /\ jar'[b].session = 0 \/ (jar'[b].session = jar[b].session /\ jar'[b].token)
      /\ \A c \in Browsers : c # b => jar'[c] = jar[c]
  <2>1. CASE jar' = clearCookie(b)
    BY <2>1, ClearedJar
  <2>2. CASE jar' = [jar EXCEPT ![b].token = TRUE]
    BY <2>2 DEF AuthTypes, Cookies
  <2> QED
    BY <2>1, <2>2
<1>3. AuthTypes'
  BY <1>1, <1>2 DEF AuthTypes
<1>4. OwnFlow'
  BY <1>1, <1>2 DEF OwnFlow
<1>5. \A c \in Browsers, u \in Tabs : InFlight(c, u)' => InFlight(c, u) /\ tab'[c][u].id = tab[c][u].id
  BY DEF InFlight
<1>6. SomeOwner' /\ Newest'
  BY <1>2, <1>3, <1>5, BrowsersMove DEF SameResults
<1>7. SameSession'
  BY <1>2, <1>5 DEF SameSession
<1> QED
  BY <1>3, <1>4, <1>6, <1>7, StoreAlone DEF AuthInv

(* The callback makes a session of the browser that began the flow.        *)
LEMMA NewSessionInductive ==
  ASSUME AuthInv, NEW b \in Browsers, NEW f \in DOMAIN flow, StateOK(b, f),
         flow' = [flow EXCEPT ![f].spent = TRUE], NewSession(AuthUser[flow[f].by]),
         live' = live \union {Len(session) + 1},
         jar' = [jar EXCEPT ![b].token = TRUE, ![b].session = Len(session) + 1],
         UNCHANGED <<saved, dropping, tab, revoked, restarts, crashed>>
  PROVE  AuthInv'
<1> USE AuthUnfolded
<1> DEFINE new == Len(session) + 1
           r == [user |-> AuthUser[flow[f].by], result |-> 0, err |-> FALSE, locked |-> FALSE]
<1>0. PICK own \in [DOMAIN session -> Browsers] : Owned(own)
  BY DEF SomeOwner
<1>1. flow[f].by = b /\ session' = Append(session, r) /\ presented' = Append(presented, 0)
  BY DEF StateOK, NewSession, OwnFlow
<1>2. /\ new \in Nat /\ new # 0 /\ new \notin DOMAIN session /\ DOMAIN session \subseteq Nat
      /\ 1..new = DOMAIN session \union {new}
  OBVIOUS
<1>3. r \in Sessions /\ r.user = AuthUser[b] /\ r.result = 0
  BY <1>1 DEF Sessions
<1> HIDE DEF r
<1>4. /\ session' \in Seq(Sessions) /\ Len(session') = new
      /\ DOMAIN session' = DOMAIN session \union {new} /\ session'[new] = r
      /\ \A i \in DOMAIN session : session'[i] = session[i]
  <2>1. /\ session' \in Seq(Sessions) /\ Len(session') = new
        /\ session'[new] = r /\ \A i \in 1..Len(session) : session'[i] = session[i]
    BY <1>1, <1>3, AppendProperties DEF AuthTypes
  <2> QED
    BY <2>1, <1>2
<1>5. /\ presented' \in Seq(Nat) /\ Len(presented') = new /\ presented'[new] = 0
      /\ \A i \in DOMAIN session : presented'[i] = presented[i]
  BY <1>1, AppendProperties DEF AuthTypes
<1>6. /\ jar' \in [Browsers -> Cookies] /\ jar'[b].flow = jar[b].flow
      /\ jar'[b].session = new /\ jar'[b].token
      /\ \A c \in Browsers : c # b => jar'[c] = jar[c]
  BY <1>2 DEF AuthTypes, Cookies
<1>7. /\ flow' \in Seq(Flows) /\ DOMAIN flow' = DOMAIN flow
      /\ \A g \in DOMAIN flow : flow'[g].by = flow[g].by
  BY FlowStep
<1> HIDE DEF new
<1>8. AuthTypes'
  BY <1>4, <1>5, <1>6, <1>7 DEF AuthTypes, new
<1>9. OwnFlow'
  BY <1>6, <1>7 DEF OwnFlow
<1>10. SomeOwner'
  <2>1. PICK own2 \in [DOMAIN session' -> Browsers] :
          own2[new] = b /\ \A i \in DOMAIN session : own2[i] = own[i]
    <3> DEFINE o == [i \in DOMAIN session' |-> IF i = new THEN b ELSE own[i]]
    <3>1. o \in [DOMAIN session' -> Browsers] /\ o[new] = b /\ \A i \in DOMAIN session : o[i] = own[i]
      BY <1>2, <1>4
    <3> QED
      BY <3>1
  <2>2. ASSUME NEW i \in DOMAIN session'
        PROVE  /\ session'[i].user = AuthUser[own2[i]]
               /\ session'[i].result # 0 =>
                    session'[i].result \in DOMAIN session' /\ own2[session'[i].result] = own2[i]
    <3>1. CASE i = new
      BY <3>1, <2>1, <1>3, <1>4
    <3>2. CASE i # new
      <4>1. i \in DOMAIN session /\ session'[i] = session[i] /\ own2[i] = own[i]
        BY <3>2, <2>1, <1>4
      <4>2. /\ session[i].user = AuthUser[own[i]]
            /\ session[i].result # 0 => session[i].result \in DOMAIN session /\ own[session[i].result] = own[i]
        BY <4>1, <1>0 DEF Owned
      <4> QED
        BY <4>1, <4>2, <2>1, <1>4
    <3> QED
      BY <3>1, <3>2
  <2>3. ASSUME NEW c \in Browsers, jar'[c].session # 0
        PROVE  jar'[c].session \in DOMAIN session' /\ own2[jar'[c].session] = c
    <3>1. CASE c = b
      BY <3>1, <2>1, <1>4, <1>6
    <3>2. CASE c # b
      <4>1. jar'[c] = jar[c] /\ jar[c].session \in DOMAIN session /\ own[jar[c].session] = c
        BY <3>2, <2>3, <1>0, <1>6 DEF Owned
      <4> QED
        BY <4>1, <2>1, <1>4
    <3> QED
      BY <3>1, <3>2
  <2>4. ASSUME NEW c \in Browsers, NEW u \in Tabs, InFlight(c, u)'
        PROVE  tab'[c][u].id \in DOMAIN session' /\ own2[tab'[c][u].id] = c
    <3>1. tab'[c][u].id \in DOMAIN session /\ own[tab'[c][u].id] = c
      BY <2>4, <1>0 DEF Owned, InFlight
    <3> QED
      BY <3>1, <2>1, <1>4
  <2>5. Owned(own2)'
    BY <2>2, <2>3, <2>4 DEF Owned
  <2> QED
    BY <2>1, <2>5 DEF SomeOwner
<1>11. SameSession'
  BY <1>6 DEF SameSession, InFlight
<1>12. Newest'
  <2>1. ASSUME NEW c \in Browsers, jar'[c].session # 0
        PROVE  session'[jar'[c].session].result = 0
    <3>1. CASE c = b
      BY <3>1, <1>3, <1>4, <1>6
    <3>2. CASE c # b
      <4>1. jar'[c] = jar[c] /\ jar[c].session \in DOMAIN session
        BY <3>2, <2>1, <1>0, <1>6 DEF Owned
      <4> QED
        BY <4>1, <2>1, <1>4 DEF Newest
    <3> QED
      BY <3>1, <3>2
  <2>2. ASSUME NEW c \in Browsers, NEW u \in Tabs, NEW v \in Tabs, InFlight(c, u)',
               session'[tab'[c][u].id].result # 0
        PROVE  /\ session'[session'[tab'[c][u].id].result].result = 0
               /\ InFlight(c, v)' => tab'[c][v].id # session'[tab'[c][u].id].result
    <3>1. /\ InFlight(c, u) /\ tab'[c][u].id = tab[c][u].id /\ tab[c][u].id \in DOMAIN session
          /\ InFlight(c, v)' => InFlight(c, v) /\ tab'[c][v].id = tab[c][v].id
      BY <2>2, <1>0 DEF Owned, InFlight
    <3>2. session'[tab[c][u].id] = session[tab[c][u].id] /\ session[tab[c][u].id].result # 0
      BY <3>1, <2>2, <1>4
    <3>3. session[tab[c][u].id].result \in DOMAIN session
      BY <3>1, <3>2, <1>0 DEF Owned
    <3>4. /\ session[session[tab[c][u].id].result].result = 0
          /\ InFlight(c, v) => tab[c][v].id # session[tab[c][u].id].result
      BY <3>1, <3>2 DEF Newest
    <3> QED
      BY <3>1, <3>2, <3>3, <3>4, <1>4
  <2> QED
    BY <2>1, <2>2 DEF Newest
<1>13. Kept'
  BY <1>2, <1>4 DEF Kept, AuthTypes, new
<1>14. PresentedOnce'
  BY <1>4, <1>5 DEF PresentedOnce, AlreadyRefreshed
<1>15. LogoutEnds'
  BY <1>2 DEF LogoutEnds, AuthTypes, new
<1> QED
  BY <1>8, <1>9, <1>10, <1>11, <1>12, <1>13, <1>14, <1>15 DEF AuthInv

LEMMA CallbackInductive ==
  ASSUME AuthInv, NEW b \in Browsers, NEW f \in DOMAIN flow, PostAuthCallbackHandler(b, f)
  PROVE  AuthInv'
<1>0. UNCHANGED <<saved, dropping, tab, revoked, restarts, crashed>>
  BY DEF PostAuthCallbackHandler, Running
<1> QED
  BY <1>0, NoSessionInductive, NewSessionInductive DEF PostAuthCallbackHandler

(* A session leaves the store: it was refreshed, or is logged out.         *)
LEMMA LeavesInductive ==
  ASSUME AuthInv, (\E b \in Browsers : LogoutHandler(b)) \/ (\E id \in dropping : InvalidateLater(id))
  PROVE  AuthInv'
<1> USE AuthUnfolded
<1>0. UNCHANGED <<flow, session, saved, tab, presented, restarts, crashed>>
  BY DEF LogoutHandler, InvalidateLater, Begun, Running
<1>1. CASE \E b \in Browsers : LogoutHandler(b)
  <2>0. PICK b \in Browsers : LogoutHandler(b)
    BY <1>1
  <2>1. /\ jar' = clearCookie(b) /\ live' = live \ {jar[b].session}
        /\ revoked' = revoked \union {jar[b].session} /\ dropping' = dropping
        /\ jar[b].session \in DOMAIN session
    BY <2>0 DEF LogoutHandler, SomeOwner, Owned
  <2>2. /\ jar' \in [Browsers -> Cookies] /\ jar'[b].flow = jar[b].flow /\ jar'[b].session = 0
        /\ \A c \in Browsers : c # b => jar'[c] = jar[c]
    BY <2>1, ClearedJar
  <2>3. AuthTypes' /\ OwnFlow'
    BY <1>0, <2>1, <2>2 DEF AuthTypes, OwnFlow
  <2>4. SomeOwner' /\ Newest'
    BY <1>0, <2>2, <2>3, BrowsersMove DEF SameResults, InFlight
  <2>5. SameSession'
    BY <1>0, <2>2 DEF SameSession, InFlight
  <2>6. Kept' /\ PresentedOnce' /\ LogoutEnds'
    BY <1>0, <2>1 DEF Kept, PresentedOnce, LogoutEnds, AlreadyRefreshed
  <2> QED
    BY <2>3, <2>4, <2>5, <2>6 DEF AuthInv
<1>2. CASE \E id \in dropping : InvalidateLater(id)
  <2>0. PICK id \in dropping : InvalidateLater(id)
    BY <1>2
  <2>1. dropping' = dropping \ {id} /\ live' = live \ {id} /\ UNCHANGED <<jar, revoked>>
    BY <2>0 DEF InvalidateLater
  <2>2. AuthTypes' /\ OwnFlow'
    BY <1>0, <2>1 DEF AuthTypes, OwnFlow
  <2>3. SomeOwner' /\ Newest'
    BY <1>0, <2>1, <2>2, BrowsersMove DEF SameResults, InFlight
  <2>4. SameSession'
    BY <1>0, <2>1 DEF SameSession, InFlight
  <2>5. Kept' /\ PresentedOnce' /\ LogoutEnds'
    BY <1>0, <2>1 DEF Kept, PresentedOnce, LogoutEnds, AlreadyRefreshed
  <2> QED
    BY <2>2, <2>3, <2>4, <2>5 DEF AuthInv
<1> QED
  BY <1>1, <1>2

(* The process starts again: no request is under way, no session has a     *)
(* result, and what was presented before no longer counts.                 *)
LEMMA RestartInductive ==
  ASSUME AuthInv, save \/ Crash
  PROVE  AuthInv'
<1> USE AuthUnfolded
<1>0. /\ (live' = live /\ crashed' = crashed) \/ (live' = saved /\ crashed' = TRUE)
      /\ saved' = live' /\ dropping' = {} /\ restarts' = restarts + 1
      /\ session' = [i \in DOMAIN session |->
                       [session[i] EXCEPT !.result = 0, !.err = FALSE, !.locked = FALSE]]
      /\ tab' = [b \in Browsers |-> [t \in Tabs |-> IdleTab]]
      /\ UNCHANGED <<jar, flow, presented, revoked>>
  BY DEF save, Crash, RestartWith
<1>1. \A i \in DOMAIN session : /\ session'[i] \in Sessions /\ session'[i].user = session[i].user
                                /\ session'[i].result = 0
  BY <1>0 DEF Sessions
<1>2. session' \in Seq(Sessions) /\ Len(session') = Len(session) /\ DOMAIN session' = DOMAIN session
  <2>1. DOMAIN session' = 1..Len(session) /\ session' \in [1..Len(session) -> Sessions]
    BY <1>0, <1>1
  <2> QED
    BY <2>1
<1>3. tab' \in [Browsers -> [Tabs -> TabStates]] /\ \A c \in Browsers, u \in Tabs : ~InFlight(c, u)'
  BY <1>0, IdleIsState DEF InFlight, IdleTab
<1>4. AuthTypes' /\ restarts' # 0
  <2>1. /\ live' \subseteq DOMAIN session /\ saved' \subseteq DOMAIN session
        /\ dropping' \subseteq DOMAIN session
    BY <1>0 DEF AuthTypes
  <2>3. crashed' \in BOOLEAN
    BY <1>0, Zenon DEF AuthTypes
  <2>4. restarts' \in Nat /\ restarts' # 0
    <3>1. restarts \in Nat /\ restarts' = restarts + 1
      BY <1>0 DEF AuthTypes
    <3> QED
      BY ONLY <3>1
  <2>2. /\ jar' \in [Browsers -> Cookies] /\ flow' \in Seq(Flows) /\ presented' \in Seq(Nat)
        /\ Len(presented') = Len(session) /\ revoked' \subseteq DOMAIN session
    BY <1>0 DEF AuthTypes
  <2> QED
    BY <2>1, <2>2, <2>3, <2>4, <1>2, <1>3 DEF AuthTypes
<1>5. OwnFlow'
  BY <1>0 DEF OwnFlow
<1>6. SomeOwner'
  <2>1. PICK own \in [DOMAIN session -> Browsers] : Owned(own)
    BY DEF SomeOwner
  <2>2. Owned(own)'
    BY <2>1, <1>0, <1>1, <1>2, <1>3 DEF Owned
  <2> QED
    BY <2>2, <1>2 DEF SomeOwner
<1>7. \A b \in Browsers : jar'[b].session # 0 => jar'[b].session \in DOMAIN session
  BY <1>0 DEF SomeOwner, Owned
<1>8. SameSession' /\ Newest'
  BY <1>1, <1>3, <1>7 DEF SameSession, Newest
<1>9. Kept' /\ PresentedOnce'
  BY <1>4 DEF Kept, PresentedOnce
<1>10. LogoutEnds'
  BY <1>0 DEF LogoutEnds
<1> QED
  BY <1>4, <1>5, <1>6, <1>8, <1>9, <1>10 DEF AuthInv

(* AuthInv holds for any browsers, users and tabs and any number of        *)
(* sessions, logins and restarts.                                          *)
THEOREM AuthInvariant == AuthSpec => []AuthInv
<1>1. AuthInit => AuthInv
  <2> SUFFICES ASSUME AuthInit PROVE AuthInv
    OBVIOUS
  <2>1. /\ session = << >> /\ presented = << >> /\ flow = << >> /\ live = {} /\ saved = {}
        /\ dropping = {} /\ revoked = {} /\ restarts = 0 /\ crashed = FALSE
    BY DEF AuthInit
  <2>2. /\ jar \in [Browsers -> Cookies] /\ \A b \in Browsers : jar[b].session = 0 /\ jar[b].flow = 0
    BY DEF AuthInit, NoCookies, Cookies
  <2>3. /\ tab \in [Browsers -> [Tabs -> TabStates]] /\ \A c \in Browsers, u \in Tabs : ~InFlight(c, u)
    BY IdleIsState DEF AuthInit, InFlight, IdleTab
  <2>4. AuthTypes /\ OwnFlow
    <3>1. << >> \in Seq(Flows) /\ << >> \in Seq(Sessions) /\ << >> \in Seq(Nat)
      OBVIOUS
    <3> QED
      BY <3>1, <2>1, <2>2, <2>3 DEF AuthTypes, OwnFlow
  <2>5. SomeOwner
    <3>1. [i \in DOMAIN session |-> i] \in [DOMAIN session -> Browsers]
      BY <2>1
    <3>2. Owned([i \in DOMAIN session |-> i])
      BY <2>1, <2>2, <2>3 DEF Owned
    <3> QED
      BY <3>1, <3>2 DEF SomeOwner
  <2>6. SameSession /\ Newest /\ Kept /\ PresentedOnce /\ LogoutEnds
    BY <2>1, <2>2, <2>3 DEF SameSession, Newest, Kept, PresentedOnce, LogoutEnds
  <2> QED
    BY <2>4, <2>5, <2>6 DEF AuthInv
<1>2. AuthInv /\ [AuthNext]_auVars => AuthInv'
  <2> SUFFICES ASSUME AuthInv, [AuthNext]_auVars PROVE AuthInv'
    OBVIOUS
  <2>1. CASE UNCHANGED <<jar, flow, session, live, saved, dropping, tab, presented, revoked, restarts, crashed>>
    <3>1. AuthTypes' /\ OwnFlow'
      BY <2>1, AuthUnfolded DEF AuthTypes, OwnFlow
    <3>2. SomeOwner' /\ Newest'
      BY <2>1, <3>1, BrowsersMove DEF InFlight, SameResults
    <3>3. SameSession'
      BY <2>1, AuthUnfolded DEF SameSession, InFlight
    <3> QED
      BY <2>1, <3>1, <3>2, <3>3, StoreAlone DEF AuthInv
  <2>2. CASE LoginTokensBack \/ UNCHANGED auVars
    BY <2>1, <2>2 DEF LoginTokensBack, Running, auVars
  <2>3. CASE \E b \in Browsers : LoginHandler(b) \/ IDTokenExpires(b) \/ LogoutHandler(b)
    BY <2>3, LoginInductive, ExpiresInductive, LeavesInductive
  <2>4. CASE \E f \in DOMAIN flow : SignsIn(f) \/ \E b \in Browsers : PostAuthCallbackHandler(b, f)
    BY <2>4, SignsInInductive, CallbackInductive
  <2>5. CASE \E b \in Browsers, t \in Tabs :
               RequestSent(b, t) \/ TryRefreshToken(b, t) \/ RefreshLock(b, t) \/ doRefreshToken(b, t)
    BY <2>5, SentInductive, TryInductive, LockInductive, RefreshInductive
  <2>6. CASE \E id \in dropping : InvalidateLater(id)
    BY <2>6, LeavesInductive
  <2>7. CASE save \/ Crash
    BY <2>7, RestartInductive
  <2> QED
    BY <2>2, <2>3, <2>4, <2>5, <2>6, <2>7 DEF AuthNext
<1> QED
  BY <1>1, <1>2, PTL DEF AuthSpec

(* A refresh token is presented once, a browser has only sessions of its   *)
(* own logins, a logout is final, and the cookie's session can be          *)
(* refreshed, for any browsers, tabs and sessions (OIDCProvider).          *)
THEOREM SessionsAreSound == AuthSpec => []AuthSound
<1>1. AuthInv => AuthSound
  <2> SUFFICES ASSUME AuthInv PROVE AuthSound
    OBVIOUS
  <2> USE AuthUnfolded
  <2>1. RefreshOnce
    BY DEF RefreshOnce, PresentedOnce
  <2>2. \A b \in Browsers : jar[b].session # 0 =>
          jar[b].session \in DOMAIN session /\ session[jar[b].session].user = AuthUser[b]
    BY DEF SomeOwner, Owned
  <2>3. StateBound
    BY <2>2 DEF StateBound
  <2>4. CookieUsable
    BY <2>2 DEF CookieUsable, Kept, Newest
  <2> QED
    BY <2>1, <2>3, <2>4 DEF AuthSound
<1> QED
  BY <1>1, AuthInvariant, PTL

(***************************************************************************)
(* Entrypoint.                                                             *)
(***************************************************************************)
EpTypes ==
  /\ linker \in [Aliases -> {"out", "adding", "claiming", "storing", "in", "removing", "releasing"}]
  /\ httpPool \subseteq Aliases /\ domains \in MatchDomains

(* Only qualified names are between the two maps' steps.                   *)
QualifiedPc == \A a \in Aliases : linker[a] \in {"claiming", "storing", "releasing"} => Qualified(a)

(* What is in the map of qualified names: the name itself until DelRoute   *)
(* deletes it, and a first label until the route it leads to releases it.  *)
FqdnEntries ==
  \A k \in DOMAIN fqdnRoutes :
    LET a == fqdnRoutes[k] IN
    /\ a \in Aliases /\ Qualified(a)
    /\ \/ k = a /\ linker[a] \in {"claiming", "storing", "in", "removing"}
       \/ k = Key(a) /\ linker[a] \in {"in", "removing", "releasing"}

FqdnHeld ==
  \A a \in Aliases : Qualified(a) /\ linker[a] \in {"claiming", "storing", "in", "removing"} =>
    a \in DOMAIN fqdnRoutes /\ fqdnRoutes[a] = a

PlainHeld ==
  subdomainRoutes =
    {a \in Aliases : ~Qualified(a) /\ suffix # << >> /\ linker[a] \in {"in", "removing"}}

EpInv == EpTypes /\ QualifiedPc /\ FqdnEntries /\ FqdnHeld /\ PlainHeld

(* A first label is no qualified name.                                     *)
LEMMA KeyPlain ==
  ASSUME NEW a, NEW b \in Aliases, Qualified(b)
  PROVE  Key(a) # b
BY EpAssumption DEF Key, Qualified

(* One route's links change.                                               *)
LEMMA LinkerMoves ==
  ASSUME EpTypes, NEW a \in Aliases, Goes(a, "out") \/ Goes(a, "adding") \/ Goes(a, "claiming")
           \/ Goes(a, "storing") \/ Goes(a, "in") \/ Goes(a, "removing") \/ Goes(a, "releasing")
  PROVE  /\ linker' \in [Aliases -> {"out", "adding", "claiming", "storing", "in", "removing", "releasing"}]
         /\ \A b \in Aliases : b # a => linker'[b] = linker[b]
BY DEF EpTypes, Goes

LEMMA PoolInductive ==
  ASSUME EpInv, NEW a \in Aliases, PoolAdd(a) \/ PoolDel(a)
  PROVE  EpInv'
<1>1. /\ UNCHANGED <<domains, suffix, fqdnRoutes, subdomainRoutes>> /\ httpPool' \subseteq httpPool \union {a}
      /\ \/ linker[a] = "out" /\ Goes(a, "adding")
         \/ linker[a] = "in" /\ Goes(a, "removing")
  BY DEF PoolAdd, PoolDel
<1>2. EpTypes /\ QualifiedPc /\ FqdnEntries /\ FqdnHeld /\ PlainHeld
  BY DEF EpInv
<1>3. /\ linker' \in [Aliases -> {"out", "adding", "claiming", "storing", "in", "removing", "releasing"}]
      /\ \A b \in Aliases : b # a => linker'[b] = linker[b]
      /\ (linker[a] = "out" /\ linker'[a] = "adding") \/ (linker[a] = "in" /\ linker'[a] = "removing")
  BY <1>1, <1>2, LinkerMoves DEF EpTypes, Goes
<1>4. EpTypes'
  BY <1>1, <1>2, <1>3 DEF EpTypes
<1>5. QualifiedPc' /\ FqdnHeld'
  BY <1>1, <1>2, <1>3 DEF QualifiedPc, FqdnHeld
<1>6. FqdnEntries'
  BY <1>1, <1>2, <1>3 DEF FqdnEntries
<1>7. PlainHeld'
  BY <1>1, <1>2, <1>3 DEF PlainHeld
<1> QED
  BY <1>4, <1>5, <1>6, <1>7 DEF EpInv

LEMMA PlainInductive ==
  ASSUME EpInv, NEW a \in Aliases, AddSubdomain(a) \/ (DelRoute(a) /\ ~Qualified(a))
  PROVE  EpInv'
<1>1. /\ UNCHANGED <<domains, suffix, fqdnRoutes, httpPool>> /\ ~Qualified(a)
      /\ \/ /\ linker[a] = "adding" /\ Goes(a, "in")
            /\ subdomainRoutes' = IF suffix = << >> THEN subdomainRoutes ELSE subdomainRoutes \union {a}
         \/ linker[a] = "removing" /\ Goes(a, "out") /\ subdomainRoutes' = subdomainRoutes \ {a}
  BY DEF AddSubdomain, DelRoute, LinksOnly
<1>2. EpTypes /\ QualifiedPc /\ FqdnEntries /\ FqdnHeld /\ PlainHeld
  BY DEF EpInv
<1>3. /\ linker' \in [Aliases -> {"out", "adding", "claiming", "storing", "in", "removing", "releasing"}]
      /\ \A b \in Aliases : b # a => linker'[b] = linker[b]
      /\ linker'[a] \in {"in", "out"}
  BY <1>1, <1>2, LinkerMoves DEF EpTypes, Goes
<1>4. EpTypes'
  BY <1>1, <1>2, <1>3 DEF EpTypes
<1>5. QualifiedPc' /\ FqdnHeld'
  BY <1>1, <1>2, <1>3 DEF QualifiedPc, FqdnHeld
<1>6. FqdnEntries'
  BY <1>1, <1>2, <1>3 DEF FqdnEntries
<1>7. PlainHeld'
  <2>1. CASE Goes(a, "in") /\ linker[a] = "adding"
    BY <2>1, <1>1, <1>2, <1>3 DEF PlainHeld, Goes, EpTypes
  <2>2. CASE Goes(a, "out") /\ linker[a] = "removing"
    BY <2>2, <1>1, <1>2, <1>3 DEF PlainHeld, Goes, EpTypes
  <2> QED
    BY <1>1, <2>1, <2>2
<1> QED
  BY <1>4, <1>5, <1>6, <1>7 DEF EpInv

(* A qualified name goes into the map, takes its label, or leaves it.      *)
LEMMA QualifiedInductive ==
  ASSUME EpInv, NEW a \in Aliases,
         \/ AddFQDN(a) \/ LooksAtKey(a) \/ StoreKey(a)
         \/ (DelRoute(a) /\ Qualified(a)) \/ ReleaseKey(a)
  PROVE  EpInv'
<1>2. EpTypes /\ QualifiedPc /\ FqdnEntries /\ FqdnHeld /\ PlainHeld
  BY DEF EpInv
<1>1. /\ UNCHANGED <<domains, suffix, subdomainRoutes, httpPool>> /\ Qualified(a)
      /\ \/ linker[a] = "adding" /\ Goes(a, "claiming") /\ fqdnRoutes' = SetTo(fqdnRoutes, a, a)
         \/ linker[a] = "claiming" /\ (Goes(a, "in") \/ Goes(a, "storing")) /\ fqdnRoutes' = fqdnRoutes
         \/ linker[a] = "storing" /\ Goes(a, "in") /\ fqdnRoutes' = SetTo(fqdnRoutes, Key(a), a)
         \/ linker[a] = "removing" /\ Goes(a, "releasing") /\ fqdnRoutes' = Unlinked(fqdnRoutes, a)
         \/ /\ linker[a] = "releasing" /\ Goes(a, "out")
            /\ fqdnRoutes' = IF OwnsKey(a) THEN Unlinked(fqdnRoutes, Key(a)) ELSE fqdnRoutes
  BY <1>2 DEF AddFQDN, LooksAtKey, StoreKey, DelRoute, ReleaseKey, LinksOnly, QualifiedPc
<1>3. /\ linker' \in [Aliases -> {"out", "adding", "claiming", "storing", "in", "removing", "releasing"}]
      /\ \A b \in Aliases : b # a => linker'[b] = linker[b]
  BY <1>1, <1>2, LinkerMoves
<1>4. EpTypes' /\ QualifiedPc' /\ PlainHeld'
  BY <1>1, <1>2, <1>3 DEF EpTypes, QualifiedPc, PlainHeld
<1>5. CASE linker[a] = "adding" /\ Goes(a, "claiming") /\ fqdnRoutes' = SetTo(fqdnRoutes, a, a)
  <2>1. linker'[a] = "claiming" /\ DOMAIN fqdnRoutes' = DOMAIN fqdnRoutes \union {a}
        /\ fqdnRoutes'[a] = a /\ \A k \in DOMAIN fqdnRoutes : k # a => fqdnRoutes'[k] = fqdnRoutes[k]
    BY <1>5, <1>2 DEF Goes, SetTo, EpTypes
  <2>2. FqdnEntries'
    BY <2>1, <1>1, <1>2, <1>3, <1>5 DEF FqdnEntries
  <2>3. FqdnHeld'
    BY <2>1, <1>2, <1>3 DEF FqdnHeld
  <2> QED
    BY <2>2, <2>3, <1>4 DEF EpInv
<1>6. CASE linker[a] = "claiming" /\ (Goes(a, "in") \/ Goes(a, "storing")) /\ fqdnRoutes' = fqdnRoutes
  <2>1. linker'[a] \in {"in", "storing"}
    BY <1>6, <1>2 DEF Goes, EpTypes
  <2>2. FqdnEntries'
    BY <2>1, <1>2, <1>3, <1>6 DEF FqdnEntries
  <2>3. FqdnHeld'
    BY <2>1, <1>2, <1>3, <1>6 DEF FqdnHeld
  <2> QED
    BY <2>2, <2>3, <1>4 DEF EpInv
<1>7. CASE linker[a] = "storing" /\ Goes(a, "in") /\ fqdnRoutes' = SetTo(fqdnRoutes, Key(a), a)
  <2>1. /\ linker'[a] = "in" /\ DOMAIN fqdnRoutes' = DOMAIN fqdnRoutes \union {Key(a)}
        /\ fqdnRoutes'[Key(a)] = a
        /\ \A k \in DOMAIN fqdnRoutes : k # Key(a) => fqdnRoutes'[k] = fqdnRoutes[k]
    BY <1>7, <1>2 DEF Goes, SetTo, EpTypes
  <2>2. FqdnEntries'
    BY <2>1, <1>1, <1>2, <1>3, <1>7 DEF FqdnEntries
  <2>3. FqdnHeld'
    BY <2>1, <1>2, <1>3, <1>7, KeyPlain DEF FqdnHeld
  <2> QED
    BY <2>2, <2>3, <1>4 DEF EpInv
<1>8. CASE linker[a] = "removing" /\ Goes(a, "releasing") /\ fqdnRoutes' = Unlinked(fqdnRoutes, a)
  <2>1. /\ linker'[a] = "releasing" /\ DOMAIN fqdnRoutes' = DOMAIN fqdnRoutes \ {a}
        /\ \A k \in DOMAIN fqdnRoutes : k # a => fqdnRoutes'[k] = fqdnRoutes[k]
    BY <1>8, <1>2 DEF Goes, Unlinked, EpTypes
  <2>2. FqdnEntries'
    BY <2>1, <1>1, <1>2, <1>3, <1>8 DEF FqdnEntries
  <2>3. FqdnHeld'
    BY <2>1, <1>2, <1>3 DEF FqdnHeld
  <2> QED
    BY <2>2, <2>3, <1>4 DEF EpInv
<1>9. CASE /\ linker[a] = "releasing" /\ Goes(a, "out")
           /\ fqdnRoutes' = IF OwnsKey(a) THEN Unlinked(fqdnRoutes, Key(a)) ELSE fqdnRoutes
  <2>1. linker'[a] = "out"
    BY <1>9, <1>2 DEF Goes, EpTypes
  <2>2. /\ DOMAIN fqdnRoutes' = {k \in DOMAIN fqdnRoutes : k # Key(a) \/ fqdnRoutes[k] # a}
        /\ \A k \in DOMAIN fqdnRoutes' : fqdnRoutes'[k] = fqdnRoutes[k]
    <3>1. CASE OwnsKey(a)
      BY <3>1, <1>9 DEF Unlinked, OwnsKey
    <3>2. CASE ~OwnsKey(a)
      BY <3>2, <1>9 DEF OwnsKey
    <3> QED
      BY <3>1, <3>2
  <2>3. \A k \in DOMAIN fqdnRoutes' : k \in DOMAIN fqdnRoutes /\ fqdnRoutes[k] # a
    BY <2>2, <1>2, <1>9 DEF FqdnEntries
  <2>4. FqdnEntries'
    BY <2>2, <2>3, <1>2, <1>3 DEF FqdnEntries
  <2>5. FqdnHeld'
    BY <2>1, <2>2, <1>2, <1>3, KeyPlain DEF FqdnHeld
  <2> QED
    BY <2>4, <2>5, <1>4 DEF EpInv
<1> QED
  BY <1>1, <1>5, <1>6, <1>7, <1>8, <1>9

(* A nonempty set of numbers has a least one.                              *)
LEMMA LeastNumber ==
  ASSUME NEW T, T \subseteq Nat, T # {}
  PROVE  \E x \in T : \A y \in T : x <= y
<1> DEFINE R == {ss \in Nat \X Nat : ss[1] < ss[2]}
<1>1. IsWellFoundedOn(R, Nat)
  BY NatLessThanWellFounded, Zenon DEF OpToRel
<1>2. PICK x \in T : \A y \in T : <<y, x>> \notin R
  <2> HIDE DEF R
  <2> QED
    BY <1>1, WFMin
<1>3. \A y \in T : ~(y < x)
  BY <1>2
<1> QED
  BY <1>3

(* What InPool finds is one of the names and in the pool, and it finds one *)
(* if there is one.                                                        *)
LEMMA InPoolFinds ==
  ASSUME NEW names, DOMAIN names \subseteq Nat
  PROVE  \/ InPool(names) = NoRoute /\ \A k \in DOMAIN names : names[k] \notin httpPool
         \/ InPool(names) \in httpPool /\ \E k \in DOMAIN names : InPool(names) = names[k]
<1> DEFINE found == {k \in DOMAIN names : names[k] \in httpPool}
<1>1. CASE found = {}
  BY <1>1 DEF InPool
<1>2. CASE found # {}
  <2> DEFINE first == CHOOSE k \in found : \A j \in found : k <= j
  <2>1. first \in found
    <3> HIDE DEF found
    <3>1. \E k \in found : \A j \in found : k <= j
      BY <1>2, LeastNumber DEF found
    <3> QED
      BY <3>1
  <2>2. InPool(names) = names[first]
    BY <1>2 DEF InPool
  <2> QED
    BY <2>1, <2>2
<1> QED
  BY <1>1, <1>2

(* What is left of a name without a domain at its end.                     *)
LEMMA CutSuffixCuts ==
  ASSUME NEW host \in Seq(Labels), NEW d \in Seq(Labels), CutSuffix(host, d) # NoRoute
  PROVE  /\ CutSuffix(host, d) = SubSeq(host, 1, Len(CutSuffix(host, d)))
         /\ CutSuffix(host, d) \o d = host
<1> DEFINE n == Len(host) - Len(d)
<1>1. /\ n > 0 /\ SubSeq(host, n + 1, Len(host)) = d /\ CutSuffix(host, d) = SubSeq(host, 1, n)
  BY DEF CutSuffix
<1>2. n \in 1..Len(host) /\ n \in Int
  BY <1>1
<1> HIDE DEF n
<1>3. Len(SubSeq(host, 1, n)) = n
  BY <1>2, SubSeqProperties
<1>4. SubSeq(host, 1, n) \o SubSeq(host, n + 1, Len(host)) = SubSeq(host, 1, Len(host))
  BY <1>2, ConcatAdjacentSubSeq
<1>5. SubSeq(host, 1, Len(host)) = host
  BY SubSeqFull
<1> QED
  BY <1>1, <1>3, <1>4, <1>5

(* Every request reaches a route that its host names.                      *)
LEMMA HostsAreServed ==
  ASSUME EpInv
  PROVE  HostsServed
<1> SUFFICES ASSUME NEW host \in EpHosts
             PROVE  /\ findRoute(host) # NoRoute =>
                         /\ findRoute(host) \in httpPool
                         /\ findRoute(host) = SubSeq(host, 1, Len(findRoute(host)))
                    /\ host \in httpPool => findRoute(host) # NoRoute
                    /\ findRoute(host) # NoRoute /\ domains # << >> =>
                         \/ findRoute(host) = host
                         \/ \E k \in DOMAIN domains : findRoute(host) \o domains[k] = host
  BY DEF HostsServed
<1>1. /\ host \in Seq(Labels) /\ domains \in Seq(Seq(Labels)) /\ NoRoute \notin httpPool
  BY EpAssumption DEF EpInv, EpTypes, NoRoute
<1>2. SubSeq(host, 1, Len(host)) = host
  BY <1>1, SubSeqFull
<1>3. CASE domains = << >>
  <2> DEFINE names == (IF Qualified(host) THEN <<Key(host)>> ELSE << >>) \o <<host>>
  <2>1. findRoute(host) = InPool(names)
    BY <1>3 DEF findRoute, findRouteAnyDomain
  <2>2. /\ DOMAIN names \subseteq Nat
        /\ \E k \in DOMAIN names : names[k] = host
        /\ \A k \in DOMAIN names : names[k] = host \/ (Qualified(host) /\ names[k] = Key(host))
    <3>1. CASE Qualified(host)
      <4>1. <<Key(host)>> \in Seq({Key(host), host}) /\ <<host>> \in Seq({Key(host), host})
        OBVIOUS
      <4>2. names = <<Key(host)>> \o <<host>> /\ Len(<<Key(host)>>) = 1 /\ Len(<<host>>) = 1
        BY <3>1
      <4>3. names \in Seq({Key(host), host}) /\ Len(names) = 2 /\ names[1] = Key(host) /\ names[2] = host
        <5> HIDE DEF names
        <5> QED
          BY <4>1, <4>2, ConcatProperties
      <4>4. DOMAIN names = 1..2
        BY <4>3
      <4> QED
        BY <4>3, <4>4, <3>1
    <3>2. CASE ~Qualified(host)
      <4>1. names = <<host>>
        BY <3>2
      <4> QED
        BY <4>1
    <3> QED
      BY <3>1, <3>2
  <2>3. Qualified(host) => Key(host) = SubSeq(host, 1, 1) /\ Len(Key(host)) = 1
    <3> SUFFICES ASSUME Qualified(host) PROVE Key(host) = SubSeq(host, 1, 1) /\ Len(Key(host)) = 1
      OBVIOUS
    <3>1. SubSeq(host, 1, 1) \in Seq(Labels) /\ Len(SubSeq(host, 1, 1)) = 1 /\ SubSeq(host, 1, 1)[1] = host[1]
      BY <1>1, SubSeqProperties DEF Qualified
    <3>2. Key(host) \in Seq(Labels) /\ Len(Key(host)) = 1 /\ Key(host)[1] = host[1]
      BY <1>1 DEF Key, Qualified
    <3> QED
      BY <3>1, <3>2, SeqEqual
  <2> HIDE DEF names
  <2> QED
    BY <1>1, <1>2, <1>3, <2>1, <2>2, <2>3, InPoolFinds
<1>4. CASE domains # << >>
  <2> DEFINE cut == [k \in DOMAIN domains |-> CutSuffix(host, domains[k])]
             names == cut \o <<host>>
             n == Len(domains)
  <2>1. findRoute(host) = InPool(names)
    BY <1>4 DEF findRoute, findRouteByDomains
  <2>2. /\ n \in Nat /\ DOMAIN domains = 1..n
        /\ \A k \in 1..n : domains[k] \in Seq(Labels) /\ cut[k] = CutSuffix(host, domains[k])
    BY <1>1
  <2>3. cut \in [1..n -> {CutSuffix(host, domains[k]) : k \in 1..n}]
    BY <2>2
  <2>4. cut \in Seq({CutSuffix(host, domains[k]) : k \in 1..n}) /\ Len(cut) = n
    BY <2>2, <2>3
  <2> HIDE DEF cut
  <2>5. /\ Len(names) = n + 1 /\ DOMAIN names = 1..(n + 1)
        /\ names[n + 1] = host /\ \A k \in 1..n : names[k] = CutSuffix(host, domains[k])
    <3> DEFINE S == {CutSuffix(host, domains[k]) : k \in 1..n} \union {host}
    <3>1. cut \in Seq(S) /\ <<host>> \in Seq(S) /\ Len(<<host>>) = 1 /\ <<host>>[1] = host
      BY <2>2, <2>3, <2>4
    <3> HIDE DEF S, n
    <3>2. /\ names \in Seq(S) /\ Len(names) = n + 1 /\ names[n + 1] = host
          /\ \A k \in 1..n : names[k] = cut[k]
      BY <3>1, <2>2, <2>4, ConcatProperties
    <3>3. DOMAIN names = 1..(n + 1)
      BY <3>2
    <3> QED
      BY <3>2, <3>3, <2>2
  <2> HIDE DEF n, names
  <2>6. /\ DOMAIN names \subseteq Nat /\ n + 1 \in DOMAIN names
        /\ \A k \in DOMAIN names : names[k] = host \/ (k \in DOMAIN domains /\ names[k] = CutSuffix(host, domains[k]))
    BY <2>2, <2>5
  <2>7. CASE InPool(names) = NoRoute /\ \A k \in DOMAIN names : names[k] \notin httpPool
    BY <2>1, <2>5, <2>6, <2>7
  <2>8. ASSUME InPool(names) \in httpPool, NEW k \in DOMAIN names, InPool(names) = names[k]
        PROVE  /\ findRoute(host) = SubSeq(host, 1, Len(findRoute(host)))
               /\ \/ findRoute(host) = host
                  \/ \E j \in DOMAIN domains : findRoute(host) \o domains[j] = host
    <3>1. CASE names[k] = host
      BY <3>1, <2>1, <2>8, <1>2
    <3>2. CASE k \in DOMAIN domains /\ names[k] = CutSuffix(host, domains[k])
      <4>1. CutSuffix(host, domains[k]) # NoRoute /\ domains[k] \in Seq(Labels)
        BY <3>2, <2>2, <2>8, <1>1
      <4>2. findRoute(host) = CutSuffix(host, domains[k])
        BY <3>2, <2>1, <2>8
      <4>3. /\ CutSuffix(host, domains[k]) = SubSeq(host, 1, Len(CutSuffix(host, domains[k])))
            /\ CutSuffix(host, domains[k]) \o domains[k] = host
        BY <4>1, <1>1, CutSuffixCuts
      <4> QED
        BY <4>2, <4>3, <3>2
    <3> QED
      BY <3>1, <3>2, <2>6
  <2> QED
    BY <1>1, <2>1, <2>6, <2>7, <2>8, InPoolFinds
<1> QED
  BY <1>3, <1>4

(* EpInv holds for any aliases, hosts and domains and any number of routes *)
(* that start and end concurrently.                                        *)
THEOREM EpInvariant == EpSpec => []EpInv
<1>1. EpInit => EpInv
  <2> SUFFICES ASSUME EpInit PROVE EpInv
    OBVIOUS
  <2>1. /\ fqdnRoutes = << >> /\ DOMAIN fqdnRoutes = {} /\ subdomainRoutes = {} /\ httpPool = {}
        /\ domains \in MatchDomains
        /\ linker \in [Aliases -> {"out"}] /\ \A a \in Aliases : linker[a] = "out"
    BY DEF EpInit
  <2> QED
    BY <2>1 DEF EpInv, EpTypes, QualifiedPc, FqdnEntries, FqdnHeld, PlainHeld
<1>2. EpInv /\ [EpNext]_epVars => EpInv'
  <2> SUFFICES ASSUME EpInv, [EpNext]_epVars PROVE EpInv'
    OBVIOUS
  <2>1. CASE UNCHANGED <<domains, suffix, httpPool, fqdnRoutes, subdomainRoutes, linker>>
    BY <2>1 DEF EpInv, EpTypes, QualifiedPc, FqdnEntries, FqdnHeld, PlainHeld
  <2>2. CASE UNCHANGED epVars \/ \E host \in EpHosts : ServeHost(host)
    BY <2>1, <2>2 DEF epVars, ServeHost
  <2>3. CASE \E a \in Aliases :
               \/ PoolAdd(a) \/ AddSubdomain(a) \/ AddFQDN(a) \/ LooksAtKey(a) \/ StoreKey(a)
               \/ PoolDel(a) \/ DelRoute(a) \/ ReleaseKey(a)
    BY <2>3, PoolInductive, PlainInductive, QualifiedInductive
  <2> QED
    BY <2>2, <2>3 DEF EpNext
<1> QED
  BY <1>1, <1>2, PTL DEF EpSpec

(* No short link outlives its route, whatever the order in which routes of *)
(* one label come and go, every route has its link, and every request      *)
(* reaches a route that its host names (ShortLinkMatcher, findRoute).      *)
THEOREM EntrypointIsSound == EpSpec => []EntrypointSound
<1>1. EpInv => EntrypointSound
  <2> SUFFICES ASSUME EpInv PROVE EntrypointSound
    OBVIOUS
  <2>1. EpTypes /\ FqdnEntries /\ FqdnHeld /\ PlainHeld
    BY DEF EpInv
  <2>2. LinksLead
    BY <2>1 DEF LinksLead, FqdnEntries, PlainHeld
  <2>3. RoutesLinked
    <3> SUFFICES ASSUME NEW a \in Aliases, linker[a] = "in"
                 PROVE  IF Qualified(a) THEN TargetHost(a) = a
                        ELSE suffix # << >> => TargetHost(a) = a \o suffix \/ Key(a) \in DOMAIN fqdnRoutes
      BY DEF RoutesLinked
    <3>1. CASE Qualified(a)
      BY <3>1, <2>1 DEF FqdnHeld, TargetHost
    <3>2. CASE ~Qualified(a) /\ suffix # << >> /\ a \notin DOMAIN fqdnRoutes
      BY <3>2, <2>1 DEF PlainHeld, TargetHost
    <3>3. CASE ~Qualified(a) /\ a \in DOMAIN fqdnRoutes
      <4>1. a \in Seq(Labels) /\ Len(a) = 1
        <5>1. a \in Seq(Labels) /\ a # << >>
          BY EpAssumption
        <5>2. Len(a) \in Nat /\ Len(a) # 0
          BY <5>1, EmptySeq
        <5>3. ~(Len(a) > 1)
          BY <3>3 DEF Qualified
        <5>4. Len(a) = 1
          BY ONLY <5>2, <5>3
        <5> QED
          BY <5>1, <5>4
      <4>2. Key(a) \in Seq(Labels) /\ Len(Key(a)) = 1 /\ Key(a)[1] = a[1]
        <5>1. a[1] \in Labels
          BY ONLY <4>1, ElementOfSeq
        <5> QED
          BY <5>1 DEF Key
      <4>3. Key(a) = a
        BY <4>1, <4>2, SeqEqual
      <4> QED
        BY <4>3, <3>3
    <3> QED
      BY <3>1, <3>2, <3>3
  <2> QED
    BY <2>2, <2>3, HostsAreServed DEF EntrypointSound
<1> QED
  BY <1>1, EpInvariant, PTL

(***************************************************************************)
(* AccessControl.                                                          *)
(***************************************************************************)
Countries == {NoCity} \cup {Geo[v][i] : v \in Nat, i \in AclIPs}
Checks == [pc : {"idle", "rules", "rlock", "lookup", "match", "log", "logrule", "record", "again"},
           op : {"none", "accept", "write"}, ip : AclIPs, city : Countries, allowed : BOOLEAN]
Decisions == [found : BOOLEAN, allow : BOOLEAN, at : Nat]
Counters == [refused : [AclIPs -> Nat], blocked : [AclIPs -> Nat], sent : [AclIPs -> Nat],
             total : Nat, verdicts : Nat]
Updaters == [pc : {"load", "update", "get", "test", "lock", "closed", "reopened", "idle", "failed",
                   "unscheduled", "ended"},
             scheduled : BOOLEAN, got : Int, last : Int, reader : Int, open : BOOLEAN]
Disks == [file : Int, stamp : Int, tmp : Int]

AclTypes ==
  /\ acl \in AclConfigs /\ check \in [Checkers -> Checks]
  /\ ipCache \in [AclIPs -> Decisions] /\ cityCache \in [AclIPs -> Countries]
  /\ queue \in Seq([ip : AclIPs, allowed : BOOLEAN]) /\ counts \in Counters
  /\ mm \in Updaters /\ disk \in Disks /\ remote \in Nat \ {0} /\ now \in Nat /\ faults \in Nat

(* No version is newer than the newest there is; from the download to its  *)
(* end the version that was got is in the new file, then in the file, and  *)
(* then open; a reader is open but while it is exchanged or at the end.    *)
VersionsKnown ==
  /\ disk.file <= remote /\ mm.got <= remote /\ mm.last <= remote /\ mm.reader \in 0..remote
  /\ mm.pc = "test" => disk.tmp = mm.got
  /\ mm.pc \in {"lock", "closed", "reopened"} => disk.file = mm.got
  /\ mm.pc \in {"test", "lock", "closed", "reopened"} => mm.got >= 1 /\ mm.got >= mm.last
  /\ mm.pc = "reopened" => mm.reader = mm.got
  /\ mm.reader # 0 /\ mm.pc \notin {"closed", "ended"} => mm.open

LookupsLocked == \A c \in Checkers : check[c].pc = "lookup" => mm.pc # "closed"

(* Where a country comes from, and what a decision was made with.          *)
CitiesOf(ip) == {NoCity} \cup {Geo[v][ip] : v \in 1..remote}
Judged(ip, ok) == \E city \in CitiesOf(ip) : ok = Verdict(ip, city)
LocalPass(ip) == ip \in Private /\ acl.local

CitiesKnown ==
  /\ \A c \in Checkers : check[c].city \in CitiesOf(check[c].ip)
  /\ \A i \in AclIPs : cityCache[i] \in CitiesOf(i)
CacheJudged == \A i \in AclIPs : ipCache[i].found /\ ~LocalPass(i) => Judged(i, ipCache[i].allow)
ChecksJudged ==
  \A c \in Checkers :
    check[c].pc \in {"log", "logrule", "record"} /\ ~LocalPass(check[c].ip) => Judged(check[c].ip, check[c].allowed)

(* A refused write asks again only once its refusal is in the cache.       *)
RefusedCached ==
  \A c \in Checkers :
    check[c].pc = "again" \/ (check[c].pc = "log" /\ ~check[c].allowed) => ipCache[check[c].ip].found

AclInv ==
  /\ AclTypes /\ VersionsKnown /\ DatabaseSound /\ LookupsLocked
  /\ CitiesKnown /\ CacheJudged /\ ChecksJudged /\ RefusedCached /\ RefusalsCounted

(* Decisions stay right when nothing but the newest version changes.       *)
LEMMA JudgementsStay ==
  ASSUME AclTypes, CitiesKnown, CacheJudged, ChecksJudged, RefusedCached,
         UNCHANGED <<acl, check, ipCache, cityCache>>, remote' \in {remote, remote + 1}
  PROVE  CitiesKnown' /\ CacheJudged' /\ ChecksJudged' /\ RefusedCached'
<1>1. \A i : CitiesOf(i) \subseteq CitiesOf(i)'
  <2>1. 1..remote \subseteq 1..remote'
    BY DEF AclTypes
  <2> QED
    BY <2>1 DEF CitiesOf
<1>2. \A i, ok : Judged(i, ok) => Judged(i, ok)'
  BY <1>1 DEF Judged, Verdict, Match
<1>3. \A i : LocalPass(i)' <=> LocalPass(i)
  BY DEF LocalPass
<1>4. CitiesKnown'
  BY <1>1 DEF CitiesKnown
<1>5. CacheJudged' /\ ChecksJudged'
  BY <1>2, <1>3 DEF CacheJudged, ChecksJudged
<1>6. RefusedCached'
  BY DEF RefusedCached
<1> QED
  BY <1>4, <1>5, <1>6

dbActions ==
  \/ LoadMaxMindDB \/ CheckLatest \/ Download \/ TestAndRename
  \/ CloseReader \/ Reopen \/ SetLastUpdate \/ Tick \/ CancelAcl \/ ScheduleEnds \/ Publish

(* Every step of the download keeps the database sound.                    *)
LEMMA DatabaseSteps ==
  ASSUME AclTypes, VersionsKnown, DatabaseSound, LookupsLocked, dbActions
  PROVE  /\ mm' \in Updaters /\ disk' \in Disks /\ remote' \in Nat \ {0} /\ faults' \in Nat
         /\ VersionsKnown' /\ DatabaseSound' /\ LookupsLocked'
<1> USE DEF AclTypes, VersionsKnown, DatabaseSound, LookupsLocked
<1> DEFINE UpdateSound == /\ mm' \in Updaters /\ disk' \in Disks /\ remote' \in Nat \ {0} /\ faults' \in Nat
                          /\ VersionsKnown' /\ DatabaseSound' /\ LookupsLocked'
<1>0. /\ mm \in Updaters /\ disk \in Disks /\ remote \in Nat \ {0} /\ faults \in Nat
      /\ mm.got \in Int /\ mm.last \in Int /\ mm.reader \in Int
      /\ disk.file \in Int /\ disk.stamp \in Int /\ disk.tmp \in Int
  BY DEF Updaters, Disks
<1>a. faults' \in Nat
  BY <1>0 DEF dbActions, LoadMaxMindDB, CheckLatest, Download, TestAndRename, CloseReader, Reopen,
              SetLastUpdate, Tick, CancelAcl, ScheduleEnds, Publish, Fault
<1>b. check' = check
  BY DEF dbActions, LoadMaxMindDB, CheckLatest, Download, TestAndRename, CloseReader, Reopen,
         SetLastUpdate, Tick, CancelAcl, ScheduleEnds, Publish, dbStep, checkVars
\* The updater goes to where no download is under way.
<1>c. ASSUME NEW p \in {"update", "get", "idle", "failed", "unscheduled"}, mm' = [mm EXCEPT !.pc = p],
             disk' \in Disks, disk'.file = disk.file, disk'.stamp = disk.stamp, remote' = remote,
             mm.pc \notin {"closed", "ended"}
      PROVE  UpdateSound
  <2>1. /\ mm' \in Updaters /\ mm'.pc = p /\ mm'.got = mm.got /\ mm'.last = mm.last
        /\ mm'.reader = mm.reader /\ mm'.open = mm.open
    BY <1>c, <1>0 DEF Updaters
  <2> QED
    BY <2>1, <1>0, <1>a, <1>b, <1>c
<1>1. CASE LoadMaxMindDB
  <2>1. CASE disk.file > 0
    <3>1. /\ mm' \in Updaters /\ mm'.pc = "update" /\ mm'.got = mm.got /\ mm'.last = disk.stamp
          /\ mm'.reader = disk.file /\ mm'.open = TRUE /\ disk' = disk /\ remote' = remote
      BY <1>1, <2>1, <1>0 DEF LoadMaxMindDB, Updaters
    <3> QED
      BY <2>1, <3>1, <1>0, <1>a, <1>b
  <2>2. CASE ~(disk.file > 0)
    BY <1>1, <2>2, <1>0, <1>c DEF LoadMaxMindDB
  <2> QED
    BY <2>1, <2>2
<1>2. CASE CheckLatest
  BY <1>2, <1>0, <1>c DEF CheckLatest, Step
<1>3. CASE Download
  <2>1. Failed \in {"idle", "failed"}
    BY DEF Failed
  <2>2. CASE Step(Failed) /\ disk' \in {disk, [disk EXCEPT !.tmp = -1]}
    <3>1. disk' \in Disks /\ disk'.file = disk.file /\ disk'.stamp = disk.stamp /\ remote' = remote /\ mm.pc = "get"
      BY <1>3, <2>2, <1>0 DEF Disks, Download
    <3> QED
      BY <2>1, <2>2, <3>1, <1>c DEF Step
  <2>3. CASE disk' = [disk EXCEPT !.tmp = remote] /\ mm' = [mm EXCEPT !.pc = "test", !.got = remote]
    <3>1. /\ disk' \in Disks /\ disk'.file = disk.file /\ disk'.stamp = disk.stamp /\ disk'.tmp = remote
          /\ mm' \in Updaters /\ mm'.pc = "test" /\ mm'.got = remote /\ mm'.last = mm.last
          /\ mm'.reader = mm.reader /\ mm'.open = mm.open /\ remote' = remote /\ mm.pc = "get"
      <4>1. remote \in Int /\ remote' = remote /\ mm.pc = "get"
        BY <1>3, <1>0 DEF Download
      <4>2. disk' \in Disks /\ disk'.file = disk.file /\ disk'.stamp = disk.stamp /\ disk'.tmp = remote
        BY <4>1, <2>3, <1>0 DEF Disks
      <4>3. /\ mm' \in Updaters /\ mm'.pc = "test" /\ mm'.got = remote /\ mm'.last = mm.last
            /\ mm'.reader = mm.reader /\ mm'.open = mm.open
        BY <4>1, <2>3, <1>0 DEF Updaters
      <4> QED
        BY <4>1, <4>2, <4>3
    <3> QED
      BY <3>1, <1>0, <1>a, <1>b
  <2> QED
    BY <1>3, <2>2, <2>3 DEF Download
<1>4. CASE TestAndRename
  <2>1. Failed \in {"idle", "failed"}
    BY DEF Failed
  <2>2. CASE Step(Failed) /\ disk' = [disk EXCEPT !.tmp = 0]
    <3>1. disk' \in Disks /\ disk'.file = disk.file /\ disk'.stamp = disk.stamp /\ remote' = remote /\ mm.pc = "test"
      BY <1>4, <2>2, <1>0 DEF Disks, TestAndRename
    <3> QED
      BY <2>1, <2>2, <3>1, <1>c DEF Step
  <2>3. CASE disk' = [file |-> disk.tmp, stamp |-> 0, tmp |-> 0] /\ mm' = [mm EXCEPT !.pc = "lock"]
    <3>1. /\ disk' \in Disks /\ disk'.file = disk.tmp /\ disk'.stamp = 0
          /\ mm' \in Updaters /\ mm'.pc = "lock" /\ mm'.got = mm.got /\ mm'.last = mm.last
          /\ mm'.reader = mm.reader /\ mm'.open = mm.open /\ remote' = remote /\ mm.pc = "test"
      <4>1. remote' = remote /\ mm.pc = "test"
        BY <1>4 DEF TestAndRename
      <4>2. disk' \in Disks /\ disk'.file = disk.tmp /\ disk'.stamp = 0
        BY ONLY <2>3, <1>0 DEF Disks
      <4>3. /\ mm' \in Updaters /\ mm'.pc = "lock" /\ mm'.got = mm.got /\ mm'.last = mm.last
            /\ mm'.reader = mm.reader /\ mm'.open = mm.open
        BY ONLY <2>3, <1>0 DEF Updaters
      <4> QED
        BY <4>1, <4>2, <4>3
    <3> QED
      BY <3>1, <1>0, <1>a, <1>b
  <2> QED
    BY <1>4, <2>2, <2>3 DEF TestAndRename, Step
<1>5. CASE CloseReader
  <2>1. /\ mm' \in Updaters /\ mm'.pc = "closed" /\ mm'.got = mm.got /\ mm'.last = mm.last
        /\ mm'.reader = mm.reader /\ mm'.open = FALSE /\ disk' = disk /\ remote' = remote /\ mm.pc = "lock"
    BY <1>5, <1>0 DEF Updaters, CloseReader
  <2> QED
    BY <1>5, <2>1, <1>0, <1>a, <1>b DEF CloseReader, NoLookups
<1>6. CASE Reopen
  <2>1. Failed \in {"idle", "failed"}
    BY DEF Failed
  <2>2. CASE mm' = [mm EXCEPT !.pc = Failed, !.reader = 0]
    <3>1. /\ mm' \in Updaters /\ mm'.pc = Failed /\ mm'.got = mm.got /\ mm'.last = mm.last
          /\ mm'.reader = 0 /\ mm'.open = mm.open /\ disk' = disk /\ remote' = remote
      <4>0. ASSUME NEW f \in {"idle", "failed"}, NEW m, m = [mm EXCEPT !.pc = f, !.reader = 0]
            PROVE  /\ m \in Updaters /\ m.pc = f /\ m.got = mm.got /\ m.last = mm.last
                   /\ m.reader = 0 /\ m.open = mm.open
        BY ONLY <4>0, mm \in Updaters, 0 \in Int DEF Updaters
      <4>1. /\ mm' \in Updaters /\ mm'.pc = Failed /\ mm'.got = mm.got /\ mm'.last = mm.last
            /\ mm'.reader = 0 /\ mm'.open = mm.open
        BY <4>0, <2>1, <2>2
      <4> QED
        BY <4>1, <1>6 DEF Reopen
    <3> QED
      BY <2>1, <3>1, <1>0, <1>a, <1>b
  <2>3. CASE mm' = [mm EXCEPT !.pc = "reopened", !.reader = disk.file, !.open = TRUE]
    <3>1. /\ mm' \in Updaters /\ mm'.pc = "reopened" /\ mm'.got = mm.got /\ mm'.last = mm.last
          /\ mm'.reader = disk.file /\ mm'.open = TRUE /\ disk' = disk /\ remote' = remote /\ mm.pc = "closed"
      BY <1>6, <2>3, <1>0 DEF Updaters, Reopen
    <3> QED
      BY <3>1, <1>0, <1>a, <1>b
  <2> QED
    BY <1>6, <2>2, <2>3 DEF Reopen
<1>7. CASE SetLastUpdate
  <2>1. UpdateDone \in {"idle", "unscheduled"}
    BY DEF UpdateDone
  <2>2. CASE Step(UpdateDone) /\ UNCHANGED disk
    BY <1>7, <2>1, <2>2, <1>0, <1>c DEF SetLastUpdate, Step
  <2>3. CASE mm' = [mm EXCEPT !.pc = UpdateDone, !.last = mm.got] /\ disk' = [disk EXCEPT !.stamp = mm.got]
    <3>1. /\ disk' \in Disks /\ disk'.file = disk.file /\ disk'.stamp = mm.got
          /\ mm' \in Updaters /\ mm'.pc = UpdateDone /\ mm'.got = mm.got /\ mm'.last = mm.got
          /\ mm'.reader = mm.reader /\ mm'.open = mm.open /\ remote' = remote /\ mm.pc = "reopened"
      BY <1>7, <2>1, <2>3, <1>0 DEF Disks, Updaters, SetLastUpdate
    <3> QED
      BY <2>1, <3>1, <1>0, <1>a, <1>b
  <2> QED
    BY <1>7, <2>2, <2>3 DEF SetLastUpdate
<1>8. CASE Tick
  BY <1>8, <1>0, <1>c DEF Tick, Step
<1>9. CASE CancelAcl
  BY <1>9, <1>0, <1>a, <1>b DEF CancelAcl
<1>10. CASE ScheduleEnds
  <2>1. /\ mm' \in Updaters /\ mm'.pc = "ended" /\ mm'.got = mm.got /\ mm'.last = mm.last
        /\ mm'.reader = mm.reader /\ disk' = disk /\ remote' = remote
    BY <1>10, <1>0 DEF Updaters, ScheduleEnds
  <2> QED
    BY <2>1, <1>0, <1>a, <1>b
<1>11. CASE Publish
  BY <1>11, <1>0, <1>a, <1>b DEF Publish
<1> QED
  BY <1>1, <1>2, <1>3, <1>4, <1>5, <1>6, <1>7, <1>8, <1>9, <1>10, <1>11 DEF dbActions

LEMMA DbPreserves ==
  ASSUME AclInv, dbActions
  PROVE  AclInv'
<1>1. UNCHANGED <<acl, now, check, ipCache, cityCache, queue, counts>>
  BY DEF dbActions, LoadMaxMindDB, CheckLatest, Download, TestAndRename, CloseReader, Reopen,
         SetLastUpdate, Tick, CancelAcl, ScheduleEnds, Publish, dbStep, checkVars
<1>2. remote' \in {remote, remote + 1}
  BY DEF dbActions, LoadMaxMindDB, CheckLatest, Download, TestAndRename, CloseReader, Reopen,
         SetLastUpdate, Tick, CancelAcl, ScheduleEnds, Publish
<1>3. /\ mm' \in Updaters /\ disk' \in Disks /\ remote' \in Nat \ {0} /\ faults' \in Nat
      /\ VersionsKnown' /\ DatabaseSound' /\ LookupsLocked'
  BY DatabaseSteps DEF AclInv
<1>4. AclTypes'
  BY <1>1, <1>3 DEF AclInv, AclTypes
<1>5. CitiesKnown' /\ CacheJudged' /\ ChecksJudged' /\ RefusedCached'
  BY <1>1, <1>2, JudgementsStay DEF AclInv
<1>6. RefusalsCounted'
  BY <1>1 DEF AclInv, RefusalsCounted, OnTheWay
<1> QED
  BY <1>3, <1>4, <1>5, <1>6 DEF AclInv

(* After a crash, a panic or at the start nothing is under way.            *)
LEMMA NothingWaits ==
  ASSUME check = [c \in Checkers |-> IdleCheck], queue = <<>>, counts = NoCounts
  PROVE  RefusalsCounted
<1>1. ASSUME NEW ips
      PROVE  OnTheWay(ips) = 0
  <2>1. {k \in DOMAIN queue : queue[k].ip \in ips /\ ~queue[k].allowed} = {}
    OBVIOUS
  <2>2. {c \in Checkers : check[c].pc \in {"log", "logrule"} /\ check[c].ip \in ips /\ ~check[c].allowed} = {}
    BY DEF IdleCheck
  <2> QED
    BY <2>1, <2>2, FS_EmptySet DEF OnTheWay
<1>2. /\ \A i \in AclIPs : counts.refused[i] = 0 /\ counts.sent[i] = 0 /\ counts.blocked[i] = 0
      /\ counts.verdicts = 0 /\ counts.total = 0
  BY DEF NoCounts, Cleared
<1> QED
  BY <1>1, <1>2 DEF RefusalsCounted

LEMMA AclInitInv == AclInit => AclInv
<1> SUFFICES ASSUME AclInit
             PROVE  AclInv
  OBVIOUS
<1>1. IdleCheck \in Checks /\ NotCached \in Decisions /\ NoCounts \in Counters /\ Starting \in Updaters
  BY AclAssumption DEF IdleCheck, Checks, Countries, NotCached, Decisions, NoCounts, Cleared, Counters,
                       Starting, Updaters
<1>2. AclTypes
  BY <1>1 DEF AclInit, AclTypes, Disks, Countries
<1>3. VersionsKnown /\ DatabaseSound /\ LookupsLocked
  BY DEF AclInit, Starting, IdleCheck, VersionsKnown, DatabaseSound, LookupsLocked
<1>4. CitiesKnown /\ CacheJudged /\ ChecksJudged /\ RefusedCached
  BY DEF AclInit, IdleCheck, NotCached, CitiesKnown, CitiesOf, CacheJudged, ChecksJudged, RefusedCached
<1>5. RefusalsCounted
  BY NothingWaits DEF AclInit
<1> QED
  BY <1>2, <1>3, <1>4, <1>5 DEF AclInv

LEMMA AclDies ==
  ASSUME AclInv, Died, faults' \in Nat
  PROVE  AclInv'
<1>1. IdleCheck \in Checks /\ NotCached \in Decisions /\ NoCounts \in Counters /\ Starting \in Updaters
  BY AclAssumption DEF IdleCheck, Checks, Countries, NotCached, Decisions, NoCounts, Cleared, Counters,
                       Starting, Updaters
<1>2. AclTypes'
  BY <1>1 DEF AclInv, Died, AclTypes, Countries
<1>3. VersionsKnown' /\ DatabaseSound' /\ LookupsLocked'
  BY DEF AclInv, AclTypes, Disks, Died, Starting, IdleCheck, VersionsKnown, DatabaseSound, LookupsLocked
<1>4. CitiesKnown' /\ CacheJudged' /\ ChecksJudged' /\ RefusedCached'
  BY DEF Died, IdleCheck, NotCached, CitiesKnown, CitiesOf, CacheJudged, ChecksJudged, RefusedCached
<1>5. RefusalsCounted'
  <2>1. ASSUME NEW ips
        PROVE  OnTheWay(ips)' = 0
    <3>1. {k \in DOMAIN queue' : queue'[k].ip \in ips /\ ~queue'[k].allowed} = {}
      BY DEF Died
    <3>2. {c \in Checkers : check'[c].pc \in {"log", "logrule"} /\ check'[c].ip \in ips /\ ~check'[c].allowed} = {}
      BY DEF Died, IdleCheck
    <3>3. OnTheWay(ips)' = Cardinality({}) + Cardinality({})
      BY Zenon, <3>1, <3>2 DEF OnTheWay
    <3> QED
      BY <3>3, FS_EmptySet
  <2>2. /\ \A i \in AclIPs : counts'.refused[i] = 0 /\ counts'.sent[i] = 0 /\ counts'.blocked[i] = 0
        /\ counts'.verdicts = 0 /\ counts'.total = 0
    BY DEF Died, NoCounts, Cleared
  <2> QED
    BY <2>1, <2>2 DEF RefusalsCounted
<1> QED
  BY <1>2, <1>3, <1>4, <1>5 DEF AclInv

(***************************************************************************)
(* Counting refusals on their way: one checker, or one entry of the        *)
(* channel, makes a difference of at most one.                             *)
(***************************************************************************)
One(b) == IF b THEN 1 ELSE 0
Waits(r, ips) == r.pc \in {"log", "logrule"} /\ r.ip \in ips /\ ~r.allowed
Bad(e, ips) == e.ip \in ips /\ ~e.allowed
Waiting(ips) == {c \in Checkers : Waits(check[c], ips)}
Queued(ips) == {k \in DOMAIN queue : Bad(queue[k], ips)}

LEMMA OnTheWayIs ==
  ASSUME queue \in Seq([ip : AclIPs, allowed : BOOLEAN]), NEW ips
  PROVE  /\ OnTheWay(ips) = Cardinality(Queued(ips)) + Cardinality(Waiting(ips))
         /\ IsFiniteSet(Queued(ips)) /\ IsFiniteSet(Waiting(ips))
         /\ Cardinality(Queued(ips)) \in Nat /\ Cardinality(Waiting(ips)) \in Nat
<1>1. OnTheWay(ips) = Cardinality(Queued(ips)) + Cardinality(Waiting(ips))
  BY Zenon DEF OnTheWay, Queued, Waiting, Bad, Waits
<1>2. IsFiniteSet(Queued(ips))
  <2>1. Queued(ips) \subseteq 1..Len(queue) /\ Len(queue) \in Nat
    BY DEF Queued
  <2>2. IsFiniteSet(1..Len(queue))
    BY <2>1, FS_Interval
  <2> QED
    BY <2>1, <2>2, FS_Subset
<1>3. IsFiniteSet(Waiting(ips))
  BY FS_Subset, AclAssumption DEF Waiting
<1> QED
  BY <1>1, <1>2, <1>3, FS_CardinalityType

(* A set that gains or loses one element.                                  *)
LEMMA OneMore ==
  ASSUME NEW S, NEW T, NEW x, IsFiniteSet(S), \A y : y # x => (y \in S <=> y \in T)
  PROVE  /\ IsFiniteSet(T)
         /\ Cardinality(T) = Cardinality(S) - One(x \in S) + One(x \in T)
<1>0. Cardinality(S) \in Nat
  BY FS_CardinalityType
<1>1. CASE x \in S /\ x \notin T
  <2>1. T = S \ {x}
    BY <1>1
  <2> QED
    BY <1>0, <1>1, <2>1, FS_RemoveElement DEF One
<1>2. CASE x \notin S /\ x \in T
  <2>1. T = S \cup {x}
    BY <1>2
  <2> QED
    BY <1>0, <1>2, <2>1, FS_AddElement DEF One
<1>3. CASE x \in S <=> x \in T
  <2>1. S = T
    BY <1>3
  <2> QED
    BY <1>0, <2>1, <1>3 DEF One
<1> QED
  BY <1>1, <1>2, <1>3

LEMMA CheckerMoves ==
  ASSUME AclTypes, NEW c \in Checkers, NEW r, check' = [check EXCEPT ![c] = r], NEW ips
  PROVE  Cardinality(Waiting(ips)') = Cardinality(Waiting(ips)) - One(Waits(check[c], ips)) + One(Waits(r, ips))
<1>1. /\ check'[c] = r
      /\ \A d \in Checkers : d # c => check'[d] = check[d]
  BY DEF AclTypes
<1>2. \A d : d # c => (d \in Waiting(ips) <=> d \in Waiting(ips)')
  BY <1>1 DEF Waiting
<1>3. c \in Waiting(ips) <=> Waits(check[c], ips)
  BY DEF Waiting
<1>4. c \in Waiting(ips)' <=> Waits(r, ips)
  BY <1>1 DEF Waiting
<1>5. IsFiniteSet(Waiting(ips))
  BY OnTheWayIs DEF AclTypes
<1>6. Cardinality(Waiting(ips)') = Cardinality(Waiting(ips)) - One(c \in Waiting(ips)) + One(c \in Waiting(ips)')
  BY <1>2, <1>5, OneMore
<1> QED
  BY <1>3, <1>4, <1>6 DEF One

LEMMA EntryQueued ==
  ASSUME queue \in Seq([ip : AclIPs, allowed : BOOLEAN]), NEW e \in [ip : AclIPs, allowed : BOOLEAN],
         queue' = Append(queue, e), NEW ips
  PROVE  Cardinality(Queued(ips)') = Cardinality(Queued(ips)) + One(Bad(e, ips))
<1> DEFINE n == Len(queue) + 1
<1>1. /\ n \in Nat /\ DOMAIN queue = 1..(n - 1) /\ DOMAIN queue' = 1..n /\ queue'[n] = e
      /\ \A k \in 1..(n - 1) : queue'[k] = queue[k]
  OBVIOUS
<1> HIDE DEF n
<1>2. \A k : k # n => (k \in Queued(ips) <=> k \in Queued(ips)')
  BY <1>1 DEF Queued
<1>3. n \notin Queued(ips) /\ (n \in Queued(ips)' <=> Bad(e, ips))
  BY <1>1 DEF Queued
<1>4. Cardinality(Queued(ips)') = Cardinality(Queued(ips)) - One(n \in Queued(ips)) + One(n \in Queued(ips)')
  BY <1>2, OnTheWayIs, OneMore
<1>5. Cardinality(Queued(ips)) \in Nat
  BY OnTheWayIs
<1> QED
  BY <1>3, <1>4, <1>5 DEF One

LEMMA EntryTaken ==
  ASSUME queue \in Seq([ip : AclIPs, allowed : BOOLEAN]), queue # <<>>, queue' = Tail(queue), NEW ips
  PROVE  Cardinality(Queued(ips)) = Cardinality(Queued(ips)') + One(Bad(Head(queue), ips))
<1> DEFINE n == Len(queue)
           Later == Queued(ips) \ {1}
           g == [k \in Queued(ips)' |-> k + 1]
<1>1. /\ n \in Nat \ {0} /\ DOMAIN queue = 1..n /\ DOMAIN queue' = 1..(n - 1) /\ Head(queue) = queue[1]
      /\ \A k \in 1..(n - 1) : queue'[k] = queue[k + 1]
      /\ queue' \in Seq([ip : AclIPs, allowed : BOOLEAN])
  OBVIOUS
<1> HIDE DEF n
<1>2. Queued(ips)' \subseteq 1..(n - 1) /\ Queued(ips) \subseteq 1..n
  BY <1>1 DEF Queued
<1>3. \A k \in Queued(ips)' : k + 1 \in Later
  BY <1>1, <1>2 DEF Queued
<1>4. \A j \in Later : j - 1 \in Queued(ips)' /\ (j - 1) + 1 = j
  <2> SUFFICES ASSUME NEW j \in Later
               PROVE  j - 1 \in Queued(ips)' /\ (j - 1) + 1 = j
    OBVIOUS
  <2>1. j \in 2..n /\ Bad(queue[j], ips)
    BY <1>1, <1>2 DEF Queued
  <2>2. j - 1 \in 1..(n - 1) /\ (j - 1) + 1 = j
    BY <2>1, <1>1
  <2> QED
    BY <2>1, <2>2, <1>1 DEF Queued
<1>5. g \in Bijection(Queued(ips)', Later)
  <2>1. g \in [Queued(ips)' -> Later]
    BY <1>3
  <2>2. \A j, k \in Queued(ips)' : g[j] = g[k] => j = k
    BY <1>2, <1>1
  <2>3. \A j \in Later : \E k \in Queued(ips)' : g[k] = j
    BY <1>4
  <2> QED
    BY <2>1, <2>2, <2>3 DEF Bijection, Injection, Surjection, IsInjective
<1>6. IsFiniteSet(Queued(ips)')
  <2>1. n - 1 \in Int /\ 1 \in Int
    BY <1>1
  <2>2. IsFiniteSet(1..(n - 1))
    BY <2>1, FS_Interval
  <2> QED
    BY <2>2, <1>2, FS_Subset
<1>7. Cardinality(Later) = Cardinality(Queued(ips)')
  BY <1>5, <1>6, FS_Bijection DEF ExistsBijection
<1>8. Cardinality(Later) = Cardinality(Queued(ips)) - One(1 \in Queued(ips)) + One(1 \in Later)
  <2>1. \A y : y # 1 => (y \in Queued(ips) <=> y \in Later)
    OBVIOUS
  <2> QED
    BY <2>1, OnTheWayIs, OneMore
<1>9. 1 \notin Later /\ (1 \in Queued(ips) <=> Bad(Head(queue), ips))
  BY <1>1 DEF Queued
<1>10. Cardinality(Queued(ips)) \in Nat
  BY OnTheWayIs
<1> QED
  BY <1>7, <1>8, <1>9, <1>10 DEF One

(* A check goes on: a refusal is counted when it is made.                  *)
LEMMA CheckCounted ==
  ASSUME AclTypes, RefusalsCounted, NEW c \in Checkers, NEW r \in Checks,
         check' = [check EXCEPT ![c] = r], UNCHANGED <<acl, queue>>, check[c].pc \notin {"log", "logrule"},
         \/ counts' = counts /\ (r.pc \notin {"log", "logrule"} \/ r.allowed)
         \/ counts' = Refused(r.ip) /\ r.pc \in {"log", "logrule"} /\ ~r.allowed
  PROVE  counts' \in Counters /\ RefusalsCounted'
<1>1. /\ queue \in Seq([ip : AclIPs, allowed : BOOLEAN]) /\ counts \in Counters /\ r.ip \in AclIPs
      /\ queue' \in Seq([ip : AclIPs, allowed : BOOLEAN])
  BY DEF AclTypes, Checks
<1>2. ASSUME NEW ips
      PROVE  OnTheWay(ips)' = OnTheWay(ips) + One(Waits(r, ips)) /\ OnTheWay(ips) \in Nat
  <2>1. ~Waits(check[c], ips)
    BY DEF Waits
  <2>2. Cardinality(Waiting(ips)') = Cardinality(Waiting(ips)) - One(Waits(check[c], ips)) + One(Waits(r, ips))
    BY CheckerMoves
  <2>3. Queued(ips)' = Queued(ips)
    BY DEF Queued
  <2>4. /\ OnTheWay(ips) = Cardinality(Queued(ips)) + Cardinality(Waiting(ips))
        /\ Cardinality(Queued(ips)) \in Nat /\ Cardinality(Waiting(ips)) \in Nat
    BY <1>1, OnTheWayIs
  <2>5. OnTheWay(ips)' = Cardinality(Queued(ips)') + Cardinality(Waiting(ips)')
    BY Zenon DEF OnTheWay, Queued, Waiting, Bad, Waits
  <2> QED
    BY <2>1, <2>2, <2>3, <2>4, <2>5 DEF One
<1>3. CASE counts' = counts /\ (r.pc \notin {"log", "logrule"} \/ r.allowed)
  <2>1. \A ips : ~Waits(r, ips)
    BY <1>3 DEF Waits
  <2>2. \A ips : OnTheWay(ips)' = OnTheWay(ips)
    BY <1>2, <2>1 DEF One
  <2> QED
    BY <1>1, <1>3, <2>2 DEF RefusalsCounted
<1>4. CASE counts' = Refused(r.ip) /\ r.pc \in {"log", "logrule"} /\ ~r.allowed
  <2>1. \A ips : Waits(r, ips) <=> r.ip \in ips
    BY <1>4 DEF Waits
  <2>2. /\ counts' \in Counters
        /\ counts'.refused = [counts.refused EXCEPT ![r.ip] = @ + 1] /\ counts'.verdicts = counts.verdicts + 1
        /\ counts'.sent = counts.sent /\ counts'.blocked = counts.blocked /\ counts'.total = counts.total
    <3> DEFINE f == [counts.refused EXCEPT ![r.ip] = counts.refused[r.ip] + 1]
               n == counts.verdicts + 1
    <3>1. f \in [AclIPs -> Nat] /\ n \in Nat
      BY <1>1 DEF Counters
    <3>2. counts' = [counts EXCEPT !.verdicts = n, !.refused = f]
      BY <1>4 DEF Refused
    <3> HIDE DEF f, n
    <3>3. /\ counts' \in Counters /\ counts'.refused = f /\ counts'.verdicts = n
          /\ counts'.sent = counts.sent /\ counts'.blocked = counts.blocked /\ counts'.total = counts.total
      BY <3>1, <3>2, <1>1 DEF Counters
    <3> QED
      BY <3>3 DEF f, n
  <2>3. counts.refused \in [AclIPs -> Nat] /\ counts.verdicts \in Nat /\ counts.total \in Nat
        /\ counts.sent \in [AclIPs -> Nat] /\ counts.blocked \in [AclIPs -> Nat]
    BY <1>1 DEF Counters
  <2>4. ASSUME acl.notify, NEW i \in AclIPs
        PROVE  counts'.refused[i] = counts'.sent[i] + counts'.blocked[i] + OnTheWay({i})'
    <3>1. OnTheWay({i})' = OnTheWay({i}) + One(r.ip = i) /\ OnTheWay({i}) \in Nat
      BY <1>2, <2>1 DEF One
    <3>2. counts.refused[i] = counts.sent[i] + counts.blocked[i] + OnTheWay({i})
      BY <2>4 DEF RefusalsCounted
    <3>3. counts'.refused[i] = counts.refused[i] + One(r.ip = i)
      BY <2>2, <2>3 DEF One
    <3> QED
      BY <3>1, <3>2, <3>3, <2>2, <2>3 DEF One
  <2>5. acl.notify => counts'.verdicts = counts'.total + OnTheWay(AclIPs)'
    <3>1. OnTheWay(AclIPs)' = OnTheWay(AclIPs) + 1 /\ OnTheWay(AclIPs) \in Nat
      BY <1>1, <1>2, <2>1 DEF One
    <3> QED
      BY <3>1, <2>2, <2>3 DEF RefusalsCounted
  <2> QED
    BY <2>2, <2>4, <2>5 DEF RefusalsCounted
<1> QED
  BY <1>3, <1>4

(* ... and stays counted when it is put in the channel.                    *)
LEMMA LogCounted ==
  ASSUME AclTypes, RefusalsCounted, NEW c \in Checkers, NEW r \in Checks,
         check' = [check EXCEPT ![c] = r], UNCHANGED <<acl, counts>>, check[c].pc \in {"log", "logrule"},
         r.pc \notin {"log", "logrule"},
         acl.notify => queue' = Append(queue, [ip |-> check[c].ip, allowed |-> check[c].allowed])
  PROVE  RefusalsCounted'
<1> SUFFICES ASSUME acl.notify
             PROVE  \A ips : OnTheWay(ips)' = OnTheWay(ips)
  BY DEF RefusalsCounted
<1> SUFFICES ASSUME NEW ips
             PROVE  OnTheWay(ips)' = OnTheWay(ips)
  OBVIOUS
<1> DEFINE e == [ip |-> check[c].ip, allowed |-> check[c].allowed]
<1>1. /\ queue \in Seq([ip : AclIPs, allowed : BOOLEAN])
      /\ e \in [ip : AclIPs, allowed : BOOLEAN] /\ e.ip = check[c].ip /\ e.allowed = check[c].allowed
  BY DEF AclTypes, Checks
<1>2. Waits(check[c], ips) <=> Bad(e, ips)
  BY DEF Waits, Bad
<1>3. ~Waits(r, ips)
  BY DEF Waits
<1> HIDE DEF e
<1>4. Cardinality(Waiting(ips)') = Cardinality(Waiting(ips)) - One(Waits(check[c], ips)) + One(Waits(r, ips))
  BY CheckerMoves
<1>5. Cardinality(Queued(ips)') = Cardinality(Queued(ips)) + One(Bad(e, ips))
  BY <1>1, EntryQueued DEF e
<1>6. /\ OnTheWay(ips) = Cardinality(Queued(ips)) + Cardinality(Waiting(ips))
      /\ Cardinality(Queued(ips)) \in Nat /\ Cardinality(Waiting(ips)) \in Nat
  BY <1>1, OnTheWayIs
<1>7. OnTheWay(ips)' = Cardinality(Queued(ips)') + Cardinality(Waiting(ips)')
  BY Zenon DEF OnTheWay, Queued, Waiting, Bad, Waits
<1> QED
  BY <1>2, <1>3, <1>4, <1>5, <1>6, <1>7 DEF One

(* The loop takes an entry from the channel, or sends a summary.           *)
LEMMA LoopCounts ==
  ASSUME AclInv, CountOne \/ Summarise
  PROVE  AclInv'
<1>1. /\ AclTypes /\ RefusalsCounted /\ queue \in Seq([ip : AclIPs, allowed : BOOLEAN]) /\ counts \in Counters
  BY DEF AclInv, AclTypes
<1>2. UNCHANGED <<acl, check, ipCache, cityCache, now, mm, disk, remote, faults>>
  BY DEF CountOne, Summarise, dbVars
<1>3. counts.refused \in [AclIPs -> Nat] /\ counts.verdicts \in Nat /\ counts.total \in Nat
      /\ counts.sent \in [AclIPs -> Nat] /\ counts.blocked \in [AclIPs -> Nat]
  BY <1>1 DEF Counters
<1>4. CitiesKnown' /\ CacheJudged' /\ ChecksJudged' /\ RefusedCached'
  BY <1>2, JudgementsStay DEF AclInv
<1>5. VersionsKnown' /\ DatabaseSound' /\ LookupsLocked'
  BY <1>2 DEF AclInv, VersionsKnown, DatabaseSound, LookupsLocked
<1>6. \A ips : Waiting(ips)' = Waiting(ips)
  BY <1>2 DEF Waiting
<1>7. CASE CountOne
  <2> DEFINE e == Head(queue)
  <2>1. /\ queue # <<>> /\ queue' = Tail(queue) /\ e \in [ip : AclIPs, allowed : BOOLEAN]
        /\ queue' \in Seq([ip : AclIPs, allowed : BOOLEAN])
    <3>1. queue # <<>> /\ queue' = Tail(queue)
      BY <1>7 DEF CountOne
    <3> QED
      BY <3>1, <1>1, HeadTailProperties
  <2>2. e.ip \in AclIPs
    BY <2>1
  <2>3. /\ e.allowed => counts' = counts
        /\ ~e.allowed => counts' = [counts EXCEPT !.blocked = [counts.blocked EXCEPT ![e.ip] = counts.blocked[e.ip] + 1],
                                                 !.total = counts.total + 1]
    BY Zenon, <1>7 DEF CountOne
  <2> HIDE DEF e
  <2>4. ASSUME NEW ips
        PROVE  OnTheWay(ips) = OnTheWay(ips)' + One(Bad(e, ips)) /\ OnTheWay(ips)' \in Nat
    <3>1. Cardinality(Queued(ips)) = Cardinality(Queued(ips)') + One(Bad(e, ips))
      BY <1>1, <2>1, EntryTaken DEF e
    <3>2. /\ OnTheWay(ips) = Cardinality(Queued(ips)) + Cardinality(Waiting(ips))
          /\ Cardinality(Queued(ips)) \in Nat /\ Cardinality(Waiting(ips)) \in Nat
      BY <1>1, OnTheWayIs
    <3>3. OnTheWay(ips)' = Cardinality(Queued(ips)') + Cardinality(Waiting(ips)')
      BY Zenon DEF OnTheWay, Queued, Waiting, Bad, Waits
    <3>4. Cardinality(Queued(ips)') \in Nat
      <4>1. Queued(ips)' \subseteq 1..Len(queue') /\ Len(queue') \in Int /\ 1 \in Int
        BY <2>1 DEF Queued
      <4>2. IsFiniteSet(1..Len(queue'))
        BY <4>1, FS_Interval
      <4> QED
        BY <4>1, <4>2, FS_Subset, FS_CardinalityType
    <3> QED
      BY <3>1, <3>2, <3>3, <3>4, <1>6 DEF One
  <2>5. CASE e.allowed
    <3>1. \A ips : OnTheWay(ips)' = OnTheWay(ips)
      BY <2>4, <2>5 DEF One, Bad
    <3>2. RefusalsCounted'
      BY <3>1, <2>3, <2>5, <1>1, <1>2 DEF RefusalsCounted
    <3> QED
      BY <3>2, <2>1, <2>3, <2>5, <1>1, <1>2, <1>4, <1>5 DEF AclInv, AclTypes
  <2>6. CASE ~e.allowed
    <3>1. /\ counts' \in Counters
          /\ counts'.blocked = [counts.blocked EXCEPT ![e.ip] = @ + 1] /\ counts'.total = counts.total + 1
          /\ counts'.sent = counts.sent /\ counts'.refused = counts.refused /\ counts'.verdicts = counts.verdicts
      <4> DEFINE f == [counts.blocked EXCEPT ![e.ip] = counts.blocked[e.ip] + 1]
                 n == counts.total + 1
      <4>1. f \in [AclIPs -> Nat] /\ n \in Nat /\ counts' = [counts EXCEPT !.blocked = f, !.total = n]
        BY <2>2, <2>3, <2>6, <1>3
      <4> HIDE DEF f, n
      <4>2. /\ counts' \in Counters /\ counts'.blocked = f /\ counts'.total = n
            /\ counts'.sent = counts.sent /\ counts'.refused = counts.refused /\ counts'.verdicts = counts.verdicts
        BY <4>1, <1>1 DEF Counters
      <4> QED
        BY <4>2 DEF f, n
    <3>2. ASSUME acl.notify, NEW i \in AclIPs
          PROVE  counts'.refused[i] = counts'.sent[i] + counts'.blocked[i] + OnTheWay({i})'
      <4>1. OnTheWay({i}) = OnTheWay({i})' + One(e.ip = i) /\ OnTheWay({i})' \in Nat
        BY <2>4, <2>6 DEF One, Bad
      <4>2. counts.refused[i] = counts.sent[i] + counts.blocked[i] + OnTheWay({i})
        BY <1>1, <3>2 DEF RefusalsCounted
      <4>3. counts'.blocked[i] = counts.blocked[i] + One(e.ip = i)
        BY <3>1, <2>2, <1>3 DEF One
      <4> QED
        BY <4>1, <4>2, <4>3, <3>1, <1>3 DEF One
    <3>3. acl.notify => counts'.verdicts = counts'.total + OnTheWay(AclIPs)'
      <4>1. OnTheWay(AclIPs) = OnTheWay(AclIPs)' + 1 /\ OnTheWay(AclIPs)' \in Nat
        BY <2>2, <2>4, <2>6 DEF One, Bad
      <4>2. acl.notify => counts.verdicts = counts.total + OnTheWay(AclIPs)
        BY <1>1 DEF RefusalsCounted
      <4> QED
        BY <4>1, <4>2, <3>1, <1>3
    <3>4. RefusalsCounted'
      BY <3>2, <3>3, <1>2 DEF RefusalsCounted
    <3> QED
      BY <3>1, <3>4, <2>1, <1>1, <1>2, <1>4, <1>5 DEF AclInv, AclTypes
  <2> QED
    BY <2>5, <2>6
<1>8. CASE Summarise
  <2>1. queue' = queue /\ counts' = [counts EXCEPT !.sent = [i \in AclIPs |-> counts.sent[i] + counts.blocked[i]], !.blocked = Cleared]
    BY <1>8 DEF Summarise
  <2>2. /\ counts' \in Counters
        /\ \A i \in AclIPs : counts'.sent[i] = counts.sent[i] + counts.blocked[i] /\ counts'.blocked[i] = 0
        /\ counts'.refused = counts.refused /\ counts'.verdicts = counts.verdicts /\ counts'.total = counts.total
    <3> DEFINE f == [i \in AclIPs |-> counts.sent[i] + counts.blocked[i]]
    <3>1. f \in [AclIPs -> Nat] /\ Cleared \in [AclIPs -> Nat]
      BY <1>3 DEF Cleared
    <3>2. \A i \in AclIPs : Cleared[i] = 0 /\ f[i] = counts.sent[i] + counts.blocked[i]
      BY DEF Cleared
    <3>3. counts' = [counts EXCEPT !.sent = f, !.blocked = Cleared]
      BY <2>1
    <3> HIDE DEF f
    <3>4. /\ counts' \in Counters /\ counts'.sent = f /\ counts'.blocked = Cleared
          /\ counts'.refused = counts.refused /\ counts'.verdicts = counts.verdicts /\ counts'.total = counts.total
      BY <3>1, <3>3, <1>1 DEF Counters
    <3> QED
      BY <3>2, <3>4
  <2>3. \A ips : OnTheWay(ips)' = OnTheWay(ips)
    BY <2>1, <1>2 DEF OnTheWay
  <2>4. \A i \in AclIPs : OnTheWay({i}) \in Nat
    BY <1>1, OnTheWayIs
  <2>5. RefusalsCounted'
    BY <2>2, <2>3, <2>4, <1>1, <1>2, <1>3 DEF RefusalsCounted
  <2> QED
    BY <2>1, <2>2, <2>5, <1>1, <1>2, <1>4, <1>5 DEF AclInv, AclTypes
<1> QED
  BY <1>7, <1>8

(* What a step of a check has to keep of the decisions.                    *)
LEMMA CheckJudged ==
  ASSUME AclInv, NEW c \in Checkers, NEW r \in Checks, check' = [check EXCEPT ![c] = r],
         UNCHANGED <<acl, mm, disk, remote>>,
         r.pc = "lookup" => mm.pc # "closed",
         r.city \in CitiesOf(r.ip),
         r.pc \in {"log", "logrule", "record"} /\ ~LocalPass(r.ip) => Judged(r.ip, r.allowed),
         r.pc = "again" \/ (r.pc = "log" /\ ~r.allowed) => ipCache'[r.ip].found,
         \A i \in AclIPs : cityCache'[i] \in CitiesOf(i),
         \A i \in AclIPs : ipCache[i].found => ipCache'[i].found,
         \A i \in AclIPs : ipCache'[i].found /\ ~LocalPass(i) => Judged(i, ipCache'[i].allow)
  PROVE  /\ check' \in [Checkers -> Checks]
         /\ VersionsKnown' /\ DatabaseSound' /\ LookupsLocked'
         /\ CitiesKnown' /\ CacheJudged' /\ ChecksJudged' /\ RefusedCached'
<1>1. /\ check \in [Checkers -> Checks] /\ check' \in [Checkers -> Checks] /\ check'[c] = r
      /\ \A d \in Checkers : d # c => check'[d] = check[d]
  BY DEF AclInv, AclTypes
<1>2. /\ \A i : CitiesOf(i)' = CitiesOf(i)
      /\ \A i : LocalPass(i)' <=> LocalPass(i)
  BY DEF CitiesOf, LocalPass
<1>3. \A i, ok : Judged(i, ok)' <=> Judged(i, ok)
  <2>1. \A i, city : Verdict(i, city)' = Verdict(i, city)
    BY Zenon DEF Verdict, Match
  <2> QED
    BY Zenon, <2>1, <1>2 DEF Judged
<1>4. VersionsKnown' /\ DatabaseSound'
  BY DEF AclInv, VersionsKnown, DatabaseSound
<1>5. LookupsLocked'
  BY <1>1 DEF AclInv, LookupsLocked
<1>6. CitiesKnown'
  BY <1>1, <1>2 DEF AclInv, CitiesKnown
<1>7. CacheJudged'
  BY <1>2, <1>3 DEF CacheJudged
<1>8. ChecksJudged'
  <2> SUFFICES ASSUME NEW d \in Checkers, check'[d].pc \in {"log", "logrule", "record"}, ~LocalPass(check'[d].ip)
               PROVE  Judged(check'[d].ip, check'[d].allowed)
    BY <1>2, <1>3 DEF ChecksJudged
  <2>1. CASE d = c
    BY <2>1, <1>1
  <2>2. CASE d # c
    BY <2>2, <1>1 DEF AclInv, ChecksJudged
  <2> QED
    BY <2>1, <2>2
<1>9. RefusedCached'
  <2> SUFFICES ASSUME NEW d \in Checkers,
                      check'[d].pc = "again" \/ (check'[d].pc = "log" /\ ~check'[d].allowed)
               PROVE  ipCache'[check'[d].ip].found
    BY DEF RefusedCached
  <2>1. CASE d = c
    BY <2>1, <1>1
  <2>2. CASE d # c
    <3>1. check[d].ip \in AclIPs /\ ipCache[check[d].ip].found
      BY <2>2, <1>1 DEF AclInv, RefusedCached, Checks
    <3> QED
      BY <2>2, <3>1, <1>1
  <2> QED
    BY <2>1, <2>2
<1> QED
  BY <1>1, <1>4, <1>5, <1>6, <1>7, <1>8, <1>9

(* The caches are as before.                                               *)
LEMMA CachesKept ==
  ASSUME AclInv, NEW c \in Checkers, NEW r \in Checks, check' = [check EXCEPT ![c] = r],
         UNCHANGED <<acl, ipCache, cityCache, queue, now, mm, disk, remote, faults>>,
         r.pc = "lookup" => mm.pc # "closed",
         r.city \in CitiesOf(r.ip),
         r.pc \in {"log", "logrule", "record"} /\ ~LocalPass(r.ip) => Judged(r.ip, r.allowed),
         r.pc = "again" \/ (r.pc = "log" /\ ~r.allowed) => ipCache[r.ip].found,
         check[c].pc \notin {"log", "logrule"},
         \/ counts' = counts /\ (r.pc \notin {"log", "logrule"} \/ r.allowed)
         \/ counts' = Refused(r.ip) /\ r.pc \in {"log", "logrule"} /\ ~r.allowed
  PROVE  AclInv'
<1>1. /\ check' \in [Checkers -> Checks]
      /\ VersionsKnown' /\ DatabaseSound' /\ LookupsLocked'
      /\ CitiesKnown' /\ CacheJudged' /\ ChecksJudged' /\ RefusedCached'
  BY CheckJudged DEF AclInv, CitiesKnown, CacheJudged
<1>2. counts' \in Counters /\ RefusalsCounted'
  BY CheckCounted DEF AclInv
<1> QED
  BY <1>1, <1>2 DEF AclInv, AclTypes

(* A check reads the rules, the caches and the database.                   *)
LEMMA ChecksStep ==
  ASSUME AclInv, NEW c \in Checkers,
         \/ \E ip \in AclIPs, op \in {"accept", "write"} : IPAllowed(c, op, ip)
         \/ LookupCity(c) \/ RLock(c) \/ MatchRules(c) \/ WriteAgain(c)
  PROVE  AclInv'
<1>1. /\ AclTypes /\ check \in [Checkers -> Checks] /\ check[c] \in Checks /\ remote \in Nat \ {0}
      /\ ipCache \in [AclIPs -> Decisions] /\ cityCache \in [AclIPs -> Countries]
      /\ CitiesKnown /\ CacheJudged /\ ChecksJudged /\ RefusedCached
      /\ check[c].ip \in AclIPs /\ check[c].city \in CitiesOf(check[c].ip)
  BY DEF AclInv, AclTypes, Checks, CitiesKnown
<1>2. \A i : NoCity \in CitiesOf(i) /\ CitiesOf(i) \subseteq CitiesOf(i) /\ NoCity \in Countries
  BY DEF CitiesOf, Countries
<1>3. UNCHANGED <<acl, ipCache, cityCache, queue, now, mm, disk, remote, faults>>
  BY DEF IPAllowed, LookupCity, RLock, MatchRules, WriteAgain, dbVars
<1>4. \A i, city : city \in CitiesOf(i) => Judged(i, Verdict(i, city))
  BY DEF Judged
<1>5. \A i, city : Verdict(i, city) \in BOOLEAN
  <2>1. acl.fallback \in BOOLEAN
    BY <1>1, AclAssumption DEF AclTypes
  <2> QED
    BY <2>1 DEF Verdict, Match
<1>6. ASSUME NEW ip \in AclIPs, NEW op \in {"accept", "write"}, IPAllowed(c, op, ip)
      PROVE  AclInv'
  <2> DEFINE hit == ipCache[ip].found /\ ~Expired(ip)
             local == ip \in Private /\ acl.local
             r(pc, ok) == [IdleCheck EXCEPT !.op = op, !.ip = ip, !.pc = pc, !.allowed = ok]
             entered(pc, ok) ==
               /\ check' = [check EXCEPT ![c] = r(pc, ok)]
               /\ counts' = IF ok \/ pc = "rules" THEN counts ELSE Refused(ip)
  <2>1. check[c].pc = "idle"
    BY <1>6 DEF IPAllowed
  <2>2. \/ ip = Loopback /\ UNCHANGED <<check, counts>>
        \/ local /\ entered("log", TRUE)
        \/ ~local /\ hit /\ entered("log", ipCache[ip].allow)
        \/ ~local /\ ~hit /\ entered("rules", FALSE)
    BY <1>6 DEF IPAllowed, IdleCheck
  <2>3. ASSUME NEW pc \in {"log", "rules"}, NEW ok \in BOOLEAN
        PROVE  /\ r(pc, ok) \in Checks /\ r(pc, ok).pc = pc /\ r(pc, ok).allowed = ok
               /\ r(pc, ok).ip = ip /\ r(pc, ok).city = NoCity
    BY <1>2 DEF IdleCheck, Checks
  <2>4. ipCache[ip].allow \in BOOLEAN /\ (ipCache[ip].found /\ ~local => Judged(ip, ipCache[ip].allow))
    BY <1>1 DEF Decisions, CacheJudged, LocalPass
  <2>5. local <=> LocalPass(ip)
    BY DEF LocalPass
  <2> HIDE DEF r, local
  <2>6. CASE ip = Loopback /\ UNCHANGED <<check, counts>>
    BY <2>6, <1>3, JudgementsStay DEF AclInv, AclTypes, VersionsKnown, DatabaseSound, LookupsLocked,
                                      RefusalsCounted, OnTheWay
  <2>7. CASE local /\ entered("log", TRUE)
    BY <2>7, <2>1, <2>3, <2>5, <1>2, <1>3, CachesKept
  <2>8. CASE ~local /\ hit /\ entered("log", ipCache[ip].allow)
    BY <2>8, <2>1, <2>3, <2>4, <2>5, <1>2, <1>3, CachesKept
  <2>9. CASE ~local /\ ~hit /\ entered("rules", FALSE)
    BY <2>9, <2>1, <2>3, <1>2, <1>3, CachesKept
  <2> QED
    BY <2>2, <2>6, <2>7, <2>8, <2>9
<1>7. CASE LookupCity(c) \/ RLock(c)
  <2> DEFINE r(pc, city) == [check[c] EXCEPT !.pc = pc, !.city = city]
  <2>1. ASSUME NEW pc \in {"match", "rlock", "lookup"}, NEW city \in CitiesOf(check[c].ip), city \in Countries
        PROVE  /\ r(pc, city) \in Checks /\ r(pc, city).pc = pc /\ r(pc, city).ip = check[c].ip
               /\ r(pc, city).city = city
    BY <2>1, <1>1 DEF Checks
  <2>2. check[c].pc \in {"rules", "rlock"} /\ counts' = counts
    BY <1>7 DEF LookupCity, RLock
  <2>3. /\ check[c].city \in CitiesOf(check[c].ip) /\ check[c].city \in Countries
        /\ cityCache[check[c].ip] \in CitiesOf(check[c].ip) /\ cityCache[check[c].ip] \in Countries
    BY <1>1 DEF CitiesKnown, Checks
  <2>4. \E pc \in {"match", "rlock", "lookup"}, city \in {check[c].city, cityCache[check[c].ip]} :
          check' = [check EXCEPT ![c] = r(pc, city)] /\ (pc = "lookup" => mm.pc # "closed")
    <3>1. [check[c] EXCEPT !.pc = "match"] = r("match", check[c].city) /\ [check[c] EXCEPT !.pc = "rlock"] = r("rlock", check[c].city)
          /\ [check[c] EXCEPT !.pc = "lookup"] = r("lookup", check[c].city)
      BY <1>1 DEF Checks
    <3>2. \/ check' = [check EXCEPT ![c] = [check[c] EXCEPT !.pc = "match"]]
          \/ check' = [check EXCEPT ![c] = r("match", cityCache[check[c].ip])]
          \/ check' = [check EXCEPT ![c] = [check[c] EXCEPT !.pc = "rlock"]]
          \/ check' = [check EXCEPT ![c] = [check[c] EXCEPT !.pc = "lookup"]] /\ mm.pc # "closed"
      BY <1>7, <1>1 DEF LookupCity, RLock, Locked
    <3> HIDE DEF r
    <3> QED
      BY <3>1, <3>2
  <2> HIDE DEF r
  <2>5. PICK pc \in {"match", "rlock", "lookup"}, city \in {check[c].city, cityCache[check[c].ip]} :
          check' = [check EXCEPT ![c] = r(pc, city)] /\ (pc = "lookup" => mm.pc # "closed")
    BY <2>4
  <2>6. /\ r(pc, city) \in Checks /\ r(pc, city).pc = pc /\ r(pc, city).ip = check[c].ip
        /\ r(pc, city).city \in CitiesOf(check[c].ip)
    BY <2>1, <2>3
  <2> QED
    BY <2>2, <2>5, <2>6, <1>3, CachesKept
<1>8. CASE MatchRules(c)
  <2> DEFINE ok == Verdict(check[c].ip, check[c].city)
             r == [check[c] EXCEPT !.allowed = ok, !.pc = "logrule"]
  <2>1. /\ check[c].pc \in {"match", "rules"} /\ check' = [check EXCEPT ![c] = r]
        /\ counts' = IF ok THEN counts ELSE Refused(check[c].ip)
    BY <1>8 DEF MatchRules
  <2>2. ok \in BOOLEAN /\ Judged(check[c].ip, ok)
    BY <1>1, <1>4, <1>5
  <2> HIDE DEF ok
  <2>3. r \in Checks /\ r.pc = "logrule" /\ r.allowed = ok /\ r.ip = check[c].ip /\ r.city = check[c].city
    BY <2>2, <1>1 DEF Checks
  <2> HIDE DEF r
  <2> QED
    BY <2>1, <2>2, <2>3, <1>1, <1>3, CachesKept
<1>9. CASE WriteAgain(c)
  <2> DEFINE ip == check[c].ip
             pc == IF Expired(ip) THEN "rules" ELSE "log"
             r == [check[c] EXCEPT !.pc = pc, !.allowed = ipCache[ip].allow, !.city = NoCity]
  <2>1. /\ check[c].pc = "again" /\ check' = [check EXCEPT ![c] = r]
        /\ counts' = IF ipCache[ip].allow \/ Expired(ip) THEN counts ELSE Refused(ip)
    BY <1>9 DEF WriteAgain
  <2>2. /\ ipCache[ip].allow \in BOOLEAN /\ ipCache[ip].found
        /\ ~LocalPass(ip) => Judged(ip, ipCache[ip].allow)
    BY <2>1, <1>1 DEF Decisions, RefusedCached, CacheJudged
  <2>3. pc \in {"rules", "log"} /\ (Expired(ip) <=> pc = "rules")
    OBVIOUS
  <2> HIDE DEF pc
  <2>4. r \in Checks /\ r.pc = pc /\ r.allowed = ipCache[ip].allow /\ r.ip = ip /\ r.city = NoCity
    BY <2>2, <2>3, <1>1, <1>2 DEF Checks
  <2> HIDE DEF r
  <2> QED
    BY <2>1, <2>2, <2>3, <2>4, <1>2, <1>3, CachesKept
<1> QED
  BY <1>6, <1>7, <1>8, <1>9

(* The database names a country of one of its versions, which is cached.   *)
LEMMA LookupStep ==
  ASSUME AclInv, NEW c \in Checkers, DbLookup(c)
  PROVE  AclInv'
<1>1. /\ AclTypes /\ check[c] \in Checks /\ check[c].ip \in AclIPs /\ remote \in Nat \ {0} /\ faults \in Nat
      /\ cityCache \in [AclIPs -> Countries] /\ CitiesKnown /\ mm.reader \in 0..remote
  BY DEF AclInv, AclTypes, Checks, VersionsKnown
<1>2. CASE mm.reader = 0 /\ UNCHANGED faults /\ Died
  BY <1>1, <1>2, AclDies
<1>3. CASE mm.reader # 0 /\ ~(mm.reader = 0 /\ UNCHANGED faults /\ Died)
  <2> DEFINE ip == check[c].ip
             city == IF mm.open THEN Geo[mm.reader][ip] ELSE NoCity
             r == [check[c] EXCEPT !.pc = "match", !.city = city]
  <2>1. /\ check[c].pc = "lookup" /\ check' = [check EXCEPT ![c] = r]
        /\ cityCache' = IF mm.open THEN [cityCache EXCEPT ![ip] = city] ELSE cityCache
        /\ UNCHANGED <<acl, ipCache, queue, counts, now, mm, disk, remote, faults>>
    BY <1>3 DEF DbLookup, dbVars
  <2>2. city \in CitiesOf(ip) /\ city \in Countries
    <3>1. mm.reader \in 1..remote /\ mm.reader \in Nat
      BY <1>1, <1>3
    <3> QED
      BY <3>1, <1>1 DEF CitiesOf, Countries
  <2> HIDE DEF city
  <2>3. r \in Checks /\ r.pc = "match" /\ r.ip = ip /\ r.city = city
    BY <2>2, <1>1 DEF Checks
  <2>4. cityCache' \in [AclIPs -> Countries] /\ \A i \in AclIPs : cityCache'[i] \in CitiesOf(i)
    BY <2>1, <2>2, <1>1 DEF CitiesKnown
  <2> HIDE DEF r
  <2>5. /\ check' \in [Checkers -> Checks]
        /\ VersionsKnown' /\ DatabaseSound' /\ LookupsLocked'
        /\ CitiesKnown' /\ CacheJudged' /\ ChecksJudged' /\ RefusedCached'
    BY <2>1, <2>2, <2>3, <2>4, CheckJudged DEF AclInv, CacheJudged
  <2>6. RefusalsCounted'
    BY <2>1, <2>3, CheckCounted DEF AclInv
  <2> QED
    BY <2>1, <2>4, <2>5, <2>6 DEF AclInv, AclTypes
<1> QED
  BY <1>2, <1>3 DEF DbLookup

(* Told a decision, a refused write asks again.                            *)
LEMMA ToldIs ==
  ASSUME NEW r \in Checks
  PROVE  /\ Told(r) \in Checks
         /\ Told(r) = IdleCheck \/ (Told(r) = [r EXCEPT !.pc = "again"] /\ ~r.allowed)
         /\ Told(r).pc \in {"idle", "again"} /\ Told(r).city \in {NoCity, r.city}
         /\ Told(r).pc = "again" => Told(r).ip = r.ip /\ Told(r).city = r.city /\ ~r.allowed
         /\ Told(r).city = NoCity \/ Told(r).ip = r.ip
<1>1. IdleCheck \in Checks /\ IdleCheck.pc = "idle" /\ IdleCheck.city = NoCity
  BY AclAssumption DEF IdleCheck, Checks, Countries
<1>2. [r EXCEPT !.pc = "again"] \in Checks
  BY DEF Checks
<1>3. /\ [r EXCEPT !.pc = "again"].pc = "again" /\ [r EXCEPT !.pc = "again"].ip = r.ip
      /\ [r EXCEPT !.pc = "again"].city = r.city
  BY DEF Checks
<1> QED
  BY <1>1, <1>2, <1>3 DEF Told

LEMMA RecordSteps ==
  ASSUME AclInv, NEW c \in Checkers, LogAndNotify(c) \/ CacheRecord(c)
  PROVE  AclInv'
<1>1. /\ AclTypes /\ check[c] \in Checks /\ check[c].ip \in AclIPs /\ check[c].allowed \in BOOLEAN
      /\ check[c].city \in CitiesOf(check[c].ip) /\ now \in Nat
      /\ ipCache \in [AclIPs -> Decisions] /\ queue \in Seq([ip : AclIPs, allowed : BOOLEAN])
      /\ CitiesKnown /\ CacheJudged /\ ChecksJudged /\ RefusedCached
  BY DEF AclInv, AclTypes, Checks, CitiesKnown
<1>2. \A i : NoCity \in CitiesOf(i)
  BY DEF CitiesOf
<1>3. CASE LogAndNotify(c)
  <2> DEFINE r == IF check[c].pc = "log" THEN Told(check[c]) ELSE [check[c] EXCEPT !.pc = "record"]
             e == [ip |-> check[c].ip, allowed |-> check[c].allowed]
  <2>1. /\ check[c].pc \in {"log", "logrule"} /\ check' = [check EXCEPT ![c] = r]
        /\ queue' = IF acl.notify THEN Append(queue, e) ELSE queue
        /\ UNCHANGED <<acl, ipCache, cityCache, counts, now, mm, disk, remote, faults>>
    BY <1>3 DEF LogAndNotify, dbVars
  <2>2. queue' \in Seq([ip : AclIPs, allowed : BOOLEAN])
    <3>1. e \in [ip : AclIPs, allowed : BOOLEAN]
      BY <1>1
    <3> HIDE DEF e
    <3>2. Append(queue, e) \in Seq([ip : AclIPs, allowed : BOOLEAN])
      BY <3>1, <1>1, AppendProperties
    <3> QED
      BY Zenon, <3>2, <2>1, <1>1
  <2>3. /\ r \in Checks /\ r.pc \in {"idle", "again", "record"} /\ r.city \in CitiesOf(r.ip)
        /\ r.pc = "record" => r.ip = check[c].ip /\ r.allowed = check[c].allowed
        /\ r.pc = "again" => r.ip = check[c].ip /\ check[c].pc = "log" /\ ~check[c].allowed
    <3>1. CASE check[c].pc = "log"
      <4>1. r = Told(check[c])
        BY <3>1
      <4> HIDE DEF r
      <4> QED
        BY <3>1, <4>1, <1>1, <1>2, ToldIs
    <3>2. CASE check[c].pc # "log"
      <4>1. r = [check[c] EXCEPT !.pc = "record"]
        BY <3>2
      <4> HIDE DEF r
      <4> QED
        BY <4>1, <1>1 DEF Checks
    <3> QED
      BY <3>1, <3>2
  <2> HIDE DEF r
  <2>4. r.pc \in {"log", "logrule", "record"} /\ ~LocalPass(r.ip) => Judged(r.ip, r.allowed)
    BY <2>1, <2>3, <1>1 DEF ChecksJudged
  <2>5. r.pc = "again" \/ (r.pc = "log" /\ ~r.allowed) => ipCache'[r.ip].found
    BY <2>1, <2>3, <1>1 DEF RefusedCached
  <2>6. /\ check' \in [Checkers -> Checks]
        /\ VersionsKnown' /\ DatabaseSound' /\ LookupsLocked'
        /\ CitiesKnown' /\ CacheJudged' /\ ChecksJudged' /\ RefusedCached'
    BY <2>1, <2>3, <2>4, <2>5, CheckJudged DEF AclInv, CitiesKnown, CacheJudged
  <2>7. RefusalsCounted'
    BY <2>1, <2>3, LogCounted DEF AclInv
  <2> QED
    BY <2>1, <2>2, <2>6, <2>7 DEF AclInv, AclTypes
<1>4. CASE CacheRecord(c)
  <2> DEFINE r == Told(check[c])
             d == [found |-> TRUE, allow |-> check[c].allowed, at |-> now]
  <2>1. /\ check[c].pc = "record" /\ check' = [check EXCEPT ![c] = r]
        /\ ipCache' = [ipCache EXCEPT ![check[c].ip] = d]
        /\ UNCHANGED <<acl, cityCache, queue, counts, now, mm, disk, remote, faults>>
    BY <1>4 DEF CacheRecord, dbVars
  <2>2. d \in Decisions /\ d.found = TRUE /\ d.allow = check[c].allowed
    BY <1>1 DEF Decisions
  <2> HIDE DEF d
  <2>3. /\ ipCache' \in [AclIPs -> Decisions] /\ ipCache'[check[c].ip] = d
        /\ \A i \in AclIPs : i # check[c].ip => ipCache'[i] = ipCache[i]
    BY <2>1, <2>2, <1>1
  <2>4. /\ r \in Checks /\ r.pc \in {"idle", "again"} /\ r.city \in CitiesOf(r.ip)
        /\ r.pc = "again" => r.ip = check[c].ip
    BY <1>1, <1>2, ToldIs
  <2> HIDE DEF r
  <2>5. ~LocalPass(check[c].ip) => Judged(check[c].ip, d.allow)
    BY <2>1, <2>2, <1>1 DEF ChecksJudged
  <2>6. /\ \A i \in AclIPs : ipCache[i].found => ipCache'[i].found
        /\ \A i \in AclIPs : ipCache'[i].found /\ ~LocalPass(i) => Judged(i, ipCache'[i].allow)
    BY <2>2, <2>3, <2>5, <1>1 DEF CacheJudged
  <2>7. /\ check' \in [Checkers -> Checks]
        /\ VersionsKnown' /\ DatabaseSound' /\ LookupsLocked'
        /\ CitiesKnown' /\ CacheJudged' /\ ChecksJudged' /\ RefusedCached'
    BY <2>1, <2>2, <2>3, <2>4, <2>6, CheckJudged DEF AclInv, CitiesKnown
  <2>8. RefusalsCounted'
    BY <2>1, <2>4, CheckCounted DEF AclInv
  <2> QED
    BY <2>1, <2>3, <2>7, <2>8 DEF AclInv, AclTypes
<1> QED
  BY <1>3, <1>4

LEMMA AclStep == AclInv /\ [AclNext]_aclVars => AclInv'
<1> SUFFICES ASSUME AclInv, [AclNext]_aclVars
             PROVE  AclInv'
  OBVIOUS
<1>1. faults \in Nat /\ now \in Nat
  BY DEF AclInv, AclTypes
<1>2. CASE AclCrash \/ CheckWithoutHeader
  BY <1>1, <1>2, AclDies DEF AclCrash, CheckWithoutHeader, Fault
<1>3. CASE TimePasses \/ UNCHANGED aclVars
  <2>1. /\ UNCHANGED <<acl, check, ipCache, cityCache, queue, counts, mm, disk, remote, faults>>
        /\ now' \in Nat
    BY <1>1, <1>3 DEF TimePasses, aclVars, checkVars
  <2>2. CitiesKnown' /\ CacheJudged' /\ ChecksJudged' /\ RefusedCached'
    BY <2>1, JudgementsStay DEF AclInv
  <2> QED
    BY <2>1, <2>2 DEF AclInv, AclTypes, VersionsKnown, DatabaseSound, LookupsLocked, RefusalsCounted, OnTheWay
<1>4. CASE \E c \in Checkers :
             \/ \E ip \in AclIPs, op \in {"accept", "write"} : IPAllowed(c, op, ip)
             \/ LookupCity(c) \/ RLock(c) \/ DbLookup(c) \/ MatchRules(c)
             \/ LogAndNotify(c) \/ CacheRecord(c) \/ WriteAgain(c)
  BY <1>4, ChecksStep, LookupStep, RecordSteps
<1>5. CASE dbActions
  BY <1>5, DbPreserves
<1>6. CASE CountOne \/ Summarise
  BY <1>6, LoopCounts
<1> QED
  BY <1>2, <1>3, <1>4, <1>5, <1>6 DEF AclNext, dbActions

(* The inductive invariant of access control and its country database.     *)
THEOREM AclInvariant == AclSpec => []AclInv
<1> QED
  BY AclInitInv, AclStep, PTL DEF AclSpec

(* For any number of concurrent checks, any rules, addresses and versions  *)
(* of the database: a decision is the one of the rules for some version    *)
(* that was there, cached or not; every refusal is counted once; no lookup *)
(* finds the database closed by an exchange; and what counts as the last   *)
(* update is in the file and in the reader, crashes included.              *)
THEOREM AccessIsControlled == AclSpec => []AclSound
<1>1. AclInv => AclSound
  <2> SUFFICES ASSUME AclInv
               PROVE  AclSound
    OBVIOUS
  <2>1. DenyWins
    <3> SUFFICES ASSUME NEW c \in Checkers, check[c].pc \in {"log", "logrule", "record"},
                        ~(check[c].ip \in Private /\ acl.local)
                 PROVE  \E city \in {NoCity} \cup {Geo[v][check[c].ip] : v \in 1..remote} :
                          check[c].allowed = /\ \A k \in DOMAIN acl.deny : acl.deny[k] \notin {check[c].ip, city} \ {NoCity}
                                             /\ \/ acl.fallback
                                                \/ \E k \in DOMAIN acl.allow : acl.allow[k] \in {check[c].ip, city} \ {NoCity}
      BY DEF DenyWins
    <3>1. PICK city \in CitiesOf(check[c].ip) : check[c].allowed = Verdict(check[c].ip, city)
      BY DEF AclInv, ChecksJudged, LocalPass, Judged
    <3>2. check[c].ip # NoCity /\ acl.fallback \in BOOLEAN
      BY AclAssumption DEF AclInv, AclTypes, Checks
    <3>3. \A m : m \in {check[c].ip, city} \ {NoCity} <=> m = check[c].ip \/ (city # NoCity /\ m = city)
      BY <3>2
    <3>4. Verdict(check[c].ip, city) =
            /\ \A k \in DOMAIN acl.deny : acl.deny[k] \notin {check[c].ip, city} \ {NoCity}
            /\ \/ acl.fallback
               \/ \E k \in DOMAIN acl.allow : acl.allow[k] \in {check[c].ip, city} \ {NoCity}
      BY <3>2, <3>3 DEF Verdict, Match
    <3> QED
      BY <3>1, <3>4 DEF CitiesOf
  <2>2. LookupsOnOpen
    BY DEF AclInv, LookupsOnOpen, LookupsLocked, VersionsKnown
  <2> QED
    BY <2>1, <2>2 DEF AclInv, AclSound
<1> QED
  BY <1>1, AclInvariant, PTL

(***************************************************************************)
(* Rules, for any rules and requests.                                      *)
(*                                                                         *)
(* RulesSound is about the order of what ran.  The invariant keeps that    *)
(* order for each pair of entries of the trace (TraceOK), and says what    *)
(* the handler's variables know of the trace at each point of its program. *)
(* That a rule with require_auth which did not fail saw a request with a   *)
(* login needs what Commands.Handle computes: an induction over commands.  *)
(***************************************************************************)
RuErrs == {"nil", "term", "fail"}

(* What a command may do to a request: its login stays.                    *)
LEMMA CommandSound ==
  ASSUME NEW rule \in RuleTexts, NEW i \in DOMAIN rule.do, NEW q, "authed" \in DOMAIN q
  PROVE  LET res == RunCommand(rule.do[i], q) IN
         /\ res.err \in RuErrs /\ "authed" \in DOMAIN res.q /\ res.q.authed = q.authed
         /\ res.err = "nil" /\ rule.do[i].c = "require_auth" => q.authed
<1> DEFINE cmd == rule.do[i]
           res == RunCommand(cmd, q)
<1> USE DEF Ok, Term, Answered, RuErrs
<1>1. /\ cmd.c \in {"set", "add", "remove"} => cmd.f \in {"header", "cookie", "resp_header"}
      /\ cmd.c \in {"require_auth", "rewrite", "serve", "error", "basic_auth", "proxy", "log", "notify",
                    "status", "body", "resp_body", "bypass", "set", "add", "remove"}
  BY RulesAssumption
<1> HIDE DEF cmd
<1>2. CASE cmd.c = "require_auth"
  <2>1. res = CmdRequireAuth(q)
    BY <1>2 DEF RunCommand
  <2> QED
    BY <1>2, <2>1 DEF CmdRequireAuth, cmd
<1>3. CASE cmd.c = "rewrite"
  BY <1>3 DEF RunCommand, CmdRewrite, cmd
<1>4. CASE cmd.c = "serve"
  BY <1>4 DEF RunCommand, CmdServe, cmd
<1>5. CASE cmd.c = "error"
  BY <1>5 DEF RunCommand, CmdError, cmd
<1>6. CASE cmd.c = "basic_auth"
  BY <1>6 DEF RunCommand, CmdBasicAuth, cmd
<1>7. CASE cmd.c = "proxy"
  BY <1>7 DEF RunCommand, CmdProxy, cmd
<1>8. CASE cmd.c = "log"
  BY <1>8 DEF RunCommand, CmdLog, cmd
<1>9. CASE cmd.c = "notify"
  BY <1>9 DEF RunCommand, CmdNotify, cmd
<1>10. CASE cmd.c = "status"
  BY <1>10 DEF RunCommand, CmdStatus, cmd
<1>11. CASE cmd.c = "body"
  BY <1>11 DEF RunCommand, CmdBody, cmd
<1>12. CASE cmd.c = "resp_body"
  BY <1>12 DEF RunCommand, CmdResponseBody, cmd
<1>13. CASE cmd.c = "bypass"
  BY <1>13 DEF RunCommand, cmd
<1>14. CASE cmd.c \in {"set", "add", "remove"}
  <2>1. res = CmdMod(q, cmd)
    BY <1>14 DEF RunCommand
  <2>2. \/ \E v : res = Ok([q EXCEPT !.header = v])
        \/ \E v : res = Ok([q EXCEPT !.cookie = v])
        \/ \E v : res = Ok([q EXCEPT !.resp_header = v])
    <3>1. CASE cmd.f = "header"
      BY <2>1, <3>1 DEF CmdMod
    <3>2. CASE cmd.f = "cookie"
      BY <2>1, <3>2 DEF CmdMod
    <3>3. CASE cmd.f = "resp_header"
      BY <2>1, <3>3 DEF CmdMod
    <3> QED
      BY <1>1, <1>14, <3>1, <3>2, <3>3
  <2>3. res.err = "nil" /\ "authed" \in DOMAIN res.q /\ res.q.authed = q.authed
    <3>1. CASE \E v : res = Ok([q EXCEPT !.header = v])
      BY <3>1
    <3>2. CASE \E v : res = Ok([q EXCEPT !.cookie = v])
      BY <3>2
    <3>3. CASE \E v : res = Ok([q EXCEPT !.resp_header = v])
      BY <3>3
    <3> QED
      BY <2>2, <3>1, <3>2, <3>3
  <2> QED
    BY <1>14, <2>3 DEF cmd
<1> QED
  BY <1>1, <1>2, <1>3, <1>4, <1>5, <1>6, <1>7, <1>8, <1>9, <1>10, <1>11, <1>12, <1>13, <1>14
     DEF cmd

(* Commands.Handle: the login of the request stays, and a rule that ended  *)
(* without an error saw it where a command required it.                    *)
LEMMA HandleSound ==
  ASSUME NEW rule \in RuleTexts, NEW q, "authed" \in DOMAIN q
  PROVE  LET res == Handle(rule, q) IN
         /\ res.err \in RuErrs /\ "authed" \in DOMAIN res.q /\ res.q.authed = q.authed
         /\ res.err = "nil" =>
              \A c \in DOMAIN rule.do : rule.do[c].c = "require_auth" => q.authed
<1> DEFINE n == Len(rule.do)
           S == DOMAIN rule.do
           Exec(v, i) == IF v.err = "nil" THEN RunCommand(rule.do[i], v.q) ELSE v
           b == Ok(q)
           At(h, s) == IF s = {} THEN b ELSE Exec(h[s \ {Max(s)}], Max(s))
           IsFold(h) == h = [s \in SUBSET S |-> At(h, s)]
           fold == CHOOSE h : IsFold(h)
<1>1. n \in Nat /\ S = 1..n
  BY RulesAssumption
<1>2. Handle(rule, q) = fold[S]
  BY DEF Handle, FoldLeft, MapThenFoldSet
<1>3. ASSUME NEW s \in SUBSET (1..n), s # {}
      PROVE  /\ Cardinality(s) \in Nat /\ Cardinality(s \ {Max(s)}) = Cardinality(s) - 1
             /\ s \ {Max(s)} \in SUBSET (1..n) /\ IsFiniteSet(s)
  <2>1. Chooses(MaxOf(n), 1..n) /\ IsFiniteSet(1..n)
    BY <1>1, MaxChooses
  <2>2. Max(s) \in s
    BY <1>3, <2>1 DEF Chooses, MaxOf
  <2>3. IsFiniteSet(s)
    BY <2>1, FS_Subset
  <2> QED
    BY <2>2, <2>3, FS_RemoveElement, FS_CardinalityType
<1> HIDE DEF Exec, b, n
<1>4. \E h : IsFold(h)
  <2> DEFINE Upto(h, k) == \A s \in SUBSET (1..n) : Cardinality(s) <= k => h[s] = At(h, s)
             N == {k \in Nat : \E h : Upto(h, k)}
  <2>1. IsFiniteSet(1..n) /\ Cardinality({}) = 0
    BY <1>1, FS_Interval, FS_EmptySet
  <2>2. ASSUME NEW s \in SUBSET (1..n), Cardinality(s) <= 0 PROVE s = {}
    <3>1. CASE s # {}
      <4>1. /\ Cardinality(s) \in Nat /\ Cardinality(s \ {Max(s)}) = Cardinality(s) - 1
            /\ IsFiniteSet(s \ {Max(s)})
        BY <1>3, <2>1, <3>1, FS_Subset
      <4>2. Cardinality(s \ {Max(s)}) \in Nat
        BY <4>1, FS_CardinalityType
      <4> QED
        BY <2>2, <4>1, <4>2
    <3> QED
      BY <3>1
  <2>3. 0 \in N
    <3> DEFINE h == [s \in SUBSET (1..n) |-> b]
    <3>1. Upto(h, 0)
      BY <2>2
    <3> QED
      BY <3>1
  <2>4. ASSUME NEW k \in Nat, k \in N PROVE k + 1 \in N
    <3>1. PICK h : Upto(h, k)
      BY <2>4
    <3> DEFINE g == [s \in SUBSET (1..n) |-> IF Cardinality(s) = k + 1 THEN At(h, s) ELSE h[s]]
    <3>2. ASSUME NEW s \in SUBSET (1..n), Cardinality(s) <= k + 1 PROVE g[s] = At(g, s)
      <4>1. CASE s = {}
        <5>1. Cardinality(s) <= k /\ Cardinality(s) # k + 1
          BY <2>1, <4>1
        <5>2. g[s] = h[s]
          BY <5>1
        <5>3. h[s] = At(h, s)
          BY <3>1, <5>1
        <5> QED
          BY <4>1, <5>2, <5>3
      <4>2. CASE s # {}
        <5>1. /\ Cardinality(s) \in Nat /\ Cardinality(s \ {Max(s)}) = Cardinality(s) - 1
              /\ s \ {Max(s)} \in SUBSET (1..n)
          BY <1>3, <4>2
        <5>2. g[s \ {Max(s)}] = h[s \ {Max(s)}]
          BY <3>2, <5>1
        <5>3. At(g, s) = At(h, s)
          BY <4>2, <5>2
        <5>4. g[s] = At(h, s)
          <6>1. CASE Cardinality(s) = k + 1
            BY <6>1
          <6>2. CASE Cardinality(s) <= k
            BY <3>1, <5>1, <6>2
          <6> QED
            BY <3>2, <5>1, <6>1, <6>2
        <5> QED
          BY <5>3, <5>4
      <4> QED
        BY <4>1, <4>2
    <3>3. Upto(g, k + 1)
      BY <3>2
    <3> HIDE DEF Upto, g
    <3> QED
      BY <3>3
  <2> HIDE DEF N
  <2>5. n \in N
    BY <1>1, <2>3, <2>4, SetInduction
  <2>6. PICK h : Upto(h, n)
    BY <2>5 DEF N
  <2>7. ASSUME NEW s \in SUBSET (1..n) PROVE h[s] = At(h, s)
    <3>1. Cardinality(s) <= Cardinality(1..n)
      BY <2>1, FS_Subset
    <3>2. Cardinality(1..n) = n
      BY <1>1, FS_Interval
    <3> QED
      BY <2>6, <3>1, <3>2
  <2> DEFINE g == [s \in SUBSET (1..n) |-> h[s]]
  <2>8. ASSUME NEW s \in SUBSET (1..n) PROVE g[s] = At(g, s)
    <3>1. CASE s = {}
      BY <2>7, <3>1
    <3>2. CASE s # {}
      <4>1. s \ {Max(s)} \in SUBSET (1..n)
        BY <1>3, <3>2
      <4>2. g[s \ {Max(s)}] = h[s \ {Max(s)}]
        BY <4>1
      <4> QED
        BY <2>7, <3>2, <4>2
    <3> QED
      BY <3>1, <3>2
  <2>9. g = [s \in SUBSET S |-> At(g, s)]
    <3>1. g = [s \in SUBSET (1..n) |-> g[s]]
      OBVIOUS
    <3> HIDE DEF g
    <3> QED
      BY <1>1, <2>8, <3>1
  <2> QED
    BY <2>9
<1>5. IsFold(fold)
  BY <1>4
<1>6. \A s \in SUBSET (1..n) : fold[s] = At(fold, s)
  <2>1. fold = [s \in SUBSET S |-> At(fold, s)]
    BY <1>5
  <2> HIDE DEF fold
  <2> QED
    BY <1>1, <2>1
<1> HIDE DEF fold
<1>7. ASSUME NEW i \in 1..n PROVE fold[1..i] = Exec(fold[1..(i - 1)], i)
  <2>1. Max(1..i) = i /\ (1..i) \ {i} = 1..(i - 1) /\ 1..i # {}
    <3>1. i \in Nat \ {0}
      BY <1>1
    <3> QED
      BY <3>1, PrefixMax
  <2>2. 1..i \in SUBSET (1..n)
    BY <1>1
  <2> QED
    BY <1>6, <2>1, <2>2
<1>8. fold[1..0] = b
  <2>1. 1..0 = {}
    OBVIOUS
  <2> QED
    BY <1>6, <2>1
<1> DEFINE Fine(v, i) ==
             /\ v.err \in RuErrs /\ "authed" \in DOMAIN v.q /\ v.q.authed = q.authed
             /\ v.err = "nil" => \A c \in 1..i : rule.do[c].c = "require_auth" => q.authed
           T == {i \in 0..n : Fine(fold[1..i], i)}
<1>9. 0 \in T
  <2>1. Fine(b, 0)
    BY DEF b, Ok, RuErrs
  <2> HIDE DEF Fine
  <2> QED
    BY <1>1, <1>8, <2>1
<1>10. ASSUME NEW i \in 0..(n - 1), i \in T PROVE i + 1 \in T
  <2> DEFINE v == fold[1..i]
             w == fold[1..(i + 1)]
  <2>1. i + 1 \in 1..n /\ (i + 1) - 1 = i /\ i + 1 \in 0..n /\ i + 1 \in DOMAIN rule.do
    BY <1>1
  <2>2. w = Exec(v, i + 1)
    BY <1>7, <2>1
  <2>3. Fine(v, i)
    BY <1>10
  <2> HIDE DEF v, w
  <2>4. CASE v.err = "nil"
    <3> DEFINE res == RunCommand(rule.do[i + 1], v.q)
    <3>1. w = res
      BY <2>2, <2>4 DEF Exec
    <3>2. /\ res.err \in RuErrs /\ "authed" \in DOMAIN res.q /\ res.q.authed = v.q.authed
          /\ res.err = "nil" /\ rule.do[i + 1].c = "require_auth" => v.q.authed
      BY <2>1, <2>3, CommandSound
    <3> HIDE DEF res
    <3>3. \A c \in 1..(i + 1) : c \in 1..i \/ c = i + 1
      BY <1>1
    <3>4. Fine(w, i + 1)
      BY <2>3, <2>4, <3>1, <3>2, <3>3
    <3> HIDE DEF Fine
    <3> QED
      BY <2>1, <3>4 DEF w
  <2>5. CASE v.err # "nil"
    <3>1. w = v
      BY <2>2, <2>5 DEF Exec
    <3>2. Fine(w, i + 1)
      BY <2>3, <2>5, <3>1
    <3> HIDE DEF Fine
    <3> QED
      BY <2>1, <3>2 DEF w
  <2> QED
    BY <2>4, <2>5
<1> HIDE DEF T
<1>11. 0..n \subseteq T
  BY <1>1, <1>9, <1>10, BoundedInduction
<1>12. n \in T
  BY <1>1, <1>11
<1> QED
  BY <1>1, <1>2, <1>12 DEF T

(* The lists of BuildHandler hold rules of their kind.                     *)
LEMMA ThoseKept ==
  ASSUME NEW S, ruRules \in Seq(RuleTexts)
  PROVE  Those(S) \in Seq(S)
<1> DEFINE n == Len(ruRules)
           V == Seq(S)
           IsFold(h) == h = [s \in SUBSET DOMAIN ruRules |->
             IF s = {} THEN <<>>
             ELSE IF ruRules[Max(s)] \in S THEN Append(h[s \ {Max(s)}], ruRules[Max(s)])
             ELSE h[s \ {Max(s)}]]
           fold  == CHOOSE h : IsFold(h)
           F     == [k \in 1..n |-> [v \in V |-> IF ruRules[k] \in S THEN Append(v, ruRules[k]) ELSE v]]
<1>1. n \in Nat /\ DOMAIN ruRules = 1..n
  OBVIOUS
<1>2. Those(S) = fold[DOMAIN ruRules]
  BY DEF Those, FoldLeft, MapThenFoldSet
<1>3. F \in [1..n -> [V -> V]]
  <2>1. ASSUME NEW k \in 1..n, NEW v \in V
        PROVE  (IF ruRules[k] \in S THEN Append(v, ruRules[k]) ELSE v) \in V
    OBVIOUS
  <2> HIDE DEF V, n
  <2> QED
    BY <2>1
<1>4. PICK h \in [SUBSET (1..n) -> V] : LeftFold(h, n, V, <<>>, F)
  <2>1. <<>> \in V
    OBVIOUS
  <2> HIDE DEF V, n, F
  <2> QED
    BY <1>1, <1>3, <2>1, LeftFoldExists
<1>5. IsFold(h)
  <2>1. ASSUME NEW s \in SUBSET (1..n)
        PROVE  h[s] = IF s = {} THEN <<>>
                      ELSE IF ruRules[Max(s)] \in S THEN Append(h[s \ {Max(s)}], ruRules[Max(s)])
                      ELSE h[s \ {Max(s)}]
    <3>1. CASE s = {}
      BY <1>4, <3>1 DEF LeftFold
    <3>2. CASE s # {}
      <4> DEFINE m == Max(s)
      <4>1. m \in 1..n /\ h[s \ {m}] \in V /\ h[s] = F[m][h[s \ {m}]]
        BY <1>4, <3>2 DEF LeftFold
      <4> HIDE DEF m, n, V
      <4>2. h[s] = IF ruRules[m] \in S THEN Append(h[s \ {m}], ruRules[m]) ELSE h[s \ {m}]
        BY <4>1
      <4> QED
        BY <3>2, <4>2 DEF m
    <3> QED
      BY <3>1, <3>2
  <2> QED
    BY <1>1, <2>1
<1>6. IsFold(fold)
  BY <1>5
<1>7. \A s \in SUBSET (1..n) :
        fold[s] = IF s = {} THEN <<>>
                  ELSE IF ruRules[Max(s)] \in S THEN Append(fold[s \ {Max(s)}], ruRules[Max(s)])
                  ELSE fold[s \ {Max(s)}]
  <2> HIDE DEF fold
  <2> QED
    BY <1>1, <1>6
<1> HIDE DEF fold
<1> DEFINE T == {i \in 0..n : fold[1..i] \in V}
<1>8. 0 \in T
  <2>1. 1..0 = {} /\ 0 \in 0..n
    BY <1>1
  <2>2. fold[1..0] = <<>>
    BY <1>7, <2>1
  <2>3. fold[1..0] \in V
    BY <2>2
  <2> HIDE DEF V
  <2> QED
    BY <2>1, <2>3
<1>9. ASSUME NEW i \in 0..(n - 1), i \in T PROVE i + 1 \in T
  <2> DEFINE m == i + 1
  <2>1. m \in Nat \ {0} /\ m - 1 = i /\ m \in 0..n /\ 1..m \in SUBSET (1..n)
    BY <1>1
  <2> HIDE DEF m
  <2>2. Max(1..m) = m /\ (1..m) \ {m} = 1..(m - 1) /\ 1..m # {}
    BY <2>1, PrefixMax
  <2>3. fold[1..m] = IF ruRules[m] \in S THEN Append(fold[1..i], ruRules[m]) ELSE fold[1..i]
    BY <1>7, <2>1, <2>2
  <2>4. fold[1..i] \in V
    BY <1>9
  <2>5. fold[1..m] \in V
    BY <2>3, <2>4
  <2> QED
    BY <2>1, <2>5 DEF m
<1> HIDE DEF T
<1>10. 0..n \subseteq T
  BY <1>1, <1>8, <1>9, BoundedInduction
<1>11. n \in T
  BY <1>1, <1>10
<1> QED
  BY <1>1, <1>2, <1>11 DEF T

RuEntry == [who : RuleTexts \cup {"upstream"}, err : {"nil", "term", "fail", "bypass"},
            phase : {"pre", "default", "up", "post"}]

RulesTypeOK ==
  /\ ruRules \in Seq(RuleTexts)
  /\ ruPc \in {"config", "default", "pre", "fallback", "up", "post", "last", "done"}
  /\ ruAt \in Nat \ {0} /\ "authed" \in DOMAIN ruReq
  /\ ruTrace \in Seq(RuEntry) /\ ruGo \in BOOLEAN /\ ruMatched \in BOOLEAN

(* The order of entries: only request rules and defaults without an error  *)
(* come before a request rule, and before the upstream; a default after a  *)
(* request rule is for responses; and a request rule without an error has  *)
(* seen the login that its commands require.                               *)
TraceOK(tr, authed) ==
  /\ \A i, j \in DOMAIN tr : j < i /\ tr[i].phase = "up" =>
       tr[j].err \in {"nil", "bypass"} /\ tr[j].phase \in {"pre", "default"}
  /\ \A i, j \in DOMAIN tr : j < i /\ tr[i].phase = "pre" =>
       tr[j].err = "nil" /\ tr[j].phase \in {"pre", "default"}
  /\ \A i, j \in DOMAIN tr : j < i /\ tr[i].phase = "default" /\ tr[j].phase = "pre" =>
       IsResponseRule(tr[i].who)
  /\ \A i \in DOMAIN tr : tr[i].phase = "pre" /\ tr[i].err = "nil" =>
       \A c \in DOMAIN tr[i].who.do : tr[i].who.do[c].c = "require_auth" => authed

(* What the program of the handler knows at each of its points.            *)
NoTraceYet == ruPc \in {"config", "default"} => ruTrace = <<>> /\ ruGo /\ ~ruMatched
RequestPart == ruPc \in {"config", "default", "pre", "fallback", "up"} =>
  /\ \A i \in DOMAIN ruTrace : ruTrace[i].phase \in {"pre", "default"}
  /\ ruGo => \A i \in DOMAIN ruTrace : ruTrace[i].err \in {"nil", "bypass"}
  /\ ruGo /\ ruPc = "pre" => \A i \in DOMAIN ruTrace : ruTrace[i].err = "nil"
ResponsePart == ruPc \in {"post", "done"} /\ ruGo => \E i \in DOMAIN ruTrace : ruTrace[i].phase = "up"
TurnedAway == ~ruGo => \E i \in DOMAIN ruTrace : ruTrace[i].err \in {"term", "fail"}
MatchKnown == \A i \in DOMAIN ruTrace : ruTrace[i].phase = "pre" => ruMatched

RulesInv == /\ RulesTypeOK /\ TraceOK(ruTrace, ruReq.authed) /\ ruPc # "last"
            /\ NoTraceYet /\ RequestPart /\ ResponsePart /\ TurnedAway /\ MatchKnown

(* One more entry.                                                         *)
LEMMA TraceGrows ==
  ASSUME NEW tr \in Seq(RuEntry), NEW e \in RuEntry, NEW authed, TraceOK(tr, authed),
         e.phase = "up" => \A j \in DOMAIN tr :
           tr[j].err \in {"nil", "bypass"} /\ tr[j].phase \in {"pre", "default"},
         e.phase = "pre" => \A j \in DOMAIN tr : tr[j].err = "nil" /\ tr[j].phase \in {"pre", "default"},
         e.phase = "default" => IsResponseRule(e.who) \/ \A j \in DOMAIN tr : tr[j].phase # "pre",
         e.phase = "pre" /\ e.err = "nil" =>
           \A c \in DOMAIN e.who.do : e.who.do[c].c = "require_auth" => authed
  PROVE  /\ TraceOK(Append(tr, e), authed) /\ Append(tr, e) \in Seq(RuEntry)
         /\ DOMAIN Append(tr, e) = DOMAIN tr \cup {Len(tr) + 1}
         /\ Append(tr, e)[Len(tr) + 1] = e /\ \A i \in DOMAIN tr : Append(tr, e)[i] = tr[i]
<1> DEFINE u == Append(tr, e)
           n == Len(tr)
<1>1. n \in Nat /\ DOMAIN tr = 1..n /\ DOMAIN u = 1..(n + 1) /\ u \in Seq(RuEntry)
  OBVIOUS
<1>2. u[n + 1] = e /\ \A i \in 1..n : u[i] = tr[i]
  OBVIOUS
<1>3. \A i \in DOMAIN u : i \in DOMAIN tr \/ i = n + 1
  BY <1>1
<1>4. \A i, j \in DOMAIN u : j < i => j \in DOMAIN tr
  BY <1>1
<1>5. DOMAIN u = DOMAIN tr \cup {n + 1}
  BY <1>1
<1> HIDE DEF u, n
<1>6. TraceOK(u, authed)
  <2>1. \A i, j \in DOMAIN u : j < i /\ u[i].phase = "up" =>
          u[j].err \in {"nil", "bypass"} /\ u[j].phase \in {"pre", "default"}
    BY <1>1, <1>2, <1>3, <1>4 DEF TraceOK
  <2>2. \A i, j \in DOMAIN u : j < i /\ u[i].phase = "pre" =>
          u[j].err = "nil" /\ u[j].phase \in {"pre", "default"}
    BY <1>1, <1>2, <1>3, <1>4 DEF TraceOK
  <2>3. \A i, j \in DOMAIN u : j < i /\ u[i].phase = "default" /\ u[j].phase = "pre" =>
          IsResponseRule(u[i].who)
    BY <1>1, <1>2, <1>3, <1>4 DEF TraceOK
  <2>4. \A i \in DOMAIN u : u[i].phase = "pre" /\ u[i].err = "nil" =>
          \A c \in DOMAIN u[i].who.do : u[i].who.do[c].c = "require_auth" => authed
    BY <1>1, <1>2, <1>3 DEF TraceOK
  <2> QED
    BY <2>1, <2>2, <2>3, <2>4 DEF TraceOK
<1> QED
  BY <1>1, <1>2, <1>5, <1>6 DEF u, n

(* What a rule that runs leaves.                                           *)
LEMMA RanLeaves ==
  ASSUME RulesTypeOK, NEW rule \in RuleTexts, NEW ph \in {"pre", "default", "post"}, Ran(rule, ph)
  PROVE  \E e \in RuEntry :
           /\ e.who = rule /\ e.err = ErrOf(rule) /\ e.phase = ph /\ e.err \in RuErrs
           /\ ruTrace' = Append(ruTrace, e)
           /\ "authed" \in DOMAIN ruReq' /\ ruReq'.authed = ruReq.authed
           /\ e.err = "nil" => \A c \in DOMAIN e.who.do : e.who.do[c].c = "require_auth" => ruReq.authed
<1> DEFINE res == Handle(rule, ruReq)
           e   == [who |-> rule, err |-> res.err, phase |-> ph]
<1>1. /\ res.err \in RuErrs /\ "authed" \in DOMAIN res.q /\ res.q.authed = ruReq.authed
      /\ res.err = "nil" =>
           \A c \in DOMAIN rule.do : rule.do[c].c = "require_auth" => ruReq.authed
  BY HandleSound DEF RulesTypeOK
<1>2. ruReq' = res.q /\ ruTrace' = Append(ruTrace, e) /\ ErrOf(rule) = res.err
  BY DEF Ran, ErrOf
<1> HIDE DEF res
<1>3. e \in RuEntry
  BY <1>1 DEF RuEntry, RuErrs
<1>4. e.who = rule /\ e.err = res.err /\ e.phase = ph
  OBVIOUS
<1> HIDE DEF e
<1> QED
  BY <1>1, <1>2, <1>3, <1>4

(* The rules that the handler takes from its lists.                        *)
LEMMA RulesTaken ==
  ASSUME RulesTypeOK
  PROVE  /\ hasDefaultRule => Default[1] \in RuleTexts
         /\ ruAt <= Len(preRules) => preRules[ruAt] \in RuleTexts
         /\ ruAt <= Len(postRules) => postRules[ruAt] \in RuleTexts
<1>1. ruRules \in Seq(RuleTexts) /\ ruAt \in Nat \ {0}
  BY DEF RulesTypeOK
<1>2. Default \in Seq(DefaultTexts) /\ preRules \in Seq(PreTexts) /\ postRules \in Seq(PostTexts)
  BY <1>1, ThoseKept DEF Default, preRules, postRules
<1>3. DefaultTexts \subseteq RuleTexts /\ PreTexts \subseteq RuleTexts /\ PostTexts \subseteq RuleTexts
  BY DEF DefaultTexts, PreTexts, PostTexts
<1>4. hasDefaultRule => Default[1] \in DefaultTexts
  BY <1>2 DEF hasDefaultRule
<1>5. ruAt <= Len(preRules) => preRules[ruAt] \in PreTexts
  BY <1>1, <1>2
<1>6. ruAt <= Len(postRules) => postRules[ruAt] \in PostTexts
  BY <1>1, <1>2
<1> QED
  BY <1>3, <1>4, <1>5, <1>6

(* Reading a configuration and taking a request leave the trace empty.     *)
LEMMA ConfigStep ==
  ASSUME RulesInv, (\E rule \in RuleTexts : AddRule(rule)) \/ (\E q \in Requests : ServeRequest(q))
  PROVE  RulesInv'
<1> USE DEF RulesInv
<1>1. CASE \E rule \in RuleTexts : AddRule(rule)
  <2>1. PICK rule \in RuleTexts : AddRule(rule)
    BY <1>1
  <2>2. UNCHANGED <<ruPc, ruAt, ruReq, ruTrace, ruGo, ruMatched>> /\ ruRules' \in Seq(RuleTexts)
    BY <2>1 DEF AddRule, RulesTypeOK
  <2> QED
    BY <2>2 DEF RulesTypeOK, NoTraceYet, RequestPart, ResponsePart, TurnedAway, MatchKnown
<1>2. CASE \E q \in Requests : ServeRequest(q)
  <2>1. PICK q \in Requests : ServeRequest(q)
    BY <1>2
  <2>2. ruTrace = <<>> /\ ruGo /\ ~ruMatched /\ ruPc' = "default" /\ ruReq' = [q EXCEPT !.status = 0]
        /\ UNCHANGED <<ruRules, ruAt, ruTrace, ruGo, ruMatched>>
    BY <2>1 DEF ServeRequest, NoTraceYet
  <2>3. "authed" \in DOMAIN ruReq'
    BY <2>2, RulesAssumption DEF NoRequest
  <2>4. RulesTypeOK'
    BY <2>2, <2>3 DEF RulesTypeOK
  <2>5. TraceOK(<<>>, ruReq'.authed)
    BY DEF TraceOK
  <2>6. TraceOK(ruTrace, ruReq.authed)'
    BY <2>2, <2>5
  <2> QED
    BY <2>2, <2>4, <2>6 DEF NoTraceYet, RequestPart, ResponsePart, TurnedAway, MatchKnown
<1> QED
  BY <1>1, <1>2

(* The default rule that runs first.                                       *)
LEMMA DefaultFirstStep == RulesInv /\ DefaultFirst => RulesInv'
<1> SUFFICES ASSUME RulesInv, DefaultFirst PROVE RulesInv'
  OBVIOUS
<1>1. RulesTypeOK /\ TraceOK(ruTrace, ruReq.authed) /\ NoTraceYet /\ ruPc = "default" /\ ruPc' = "pre"
      /\ UNCHANGED <<ruRules, ruAt, ruMatched>> /\ ruTrace = <<>> /\ ruGo /\ ~ruMatched
  BY DEF RulesInv, DefaultFirst, NoTraceYet
<1>2. CASE UNCHANGED <<ruReq, ruTrace, ruGo>>
  BY <1>1, <1>2 DEF RulesInv, RulesTypeOK, NoTraceYet, RequestPart, ResponsePart, TurnedAway, MatchKnown
<1>3. CASE hasDefaultRule /\ Ran(Default[1], "default") /\ ruGo' = ~Stops(ErrOf(Default[1]))
  <2>1. Default[1] \in RuleTexts
    BY <1>1, <1>3, RulesTaken
  <2>2. PICK e \in RuEntry :
           /\ e.err = ErrOf(Default[1]) /\ e.phase = "default" /\ e.err \in RuErrs
           /\ ruTrace' = Append(ruTrace, e)
           /\ "authed" \in DOMAIN ruReq' /\ ruReq'.authed = ruReq.authed
    BY <1>1, <1>3, <2>1, RanLeaves
  <2>3. ruTrace \in Seq(RuEntry) /\ \A j \in DOMAIN ruTrace : FALSE
    BY <1>1 DEF RulesTypeOK
  <2>4. /\ TraceOK(ruTrace', ruReq.authed) /\ ruTrace' \in Seq(RuEntry)
        /\ DOMAIN ruTrace' = DOMAIN ruTrace \cup {Len(ruTrace) + 1}
        /\ ruTrace'[Len(ruTrace) + 1] = e
    BY <1>1, <2>2, <2>3, TraceGrows
  <2>5. ruGo' = (e.err = "nil") /\ ruGo' \in BOOLEAN
    BY <1>3, <2>2 DEF Stops
  <2>6. RulesTypeOK'
    BY <1>1, <2>2, <2>4, <2>5 DEF RulesTypeOK
  <2>7. TraceOK(ruTrace, ruReq.authed)'
    BY <2>2, <2>4
  <2>8. RequestPart' /\ TurnedAway' /\ MatchKnown'
    BY <1>1, <2>2, <2>3, <2>4, <2>5 DEF RequestPart, TurnedAway, MatchKnown, RuErrs
  <2> QED
    BY <1>1, <2>6, <2>7, <2>8 DEF RulesInv, NoTraceYet, ResponsePart
<1> QED
  BY <1>2, <1>3 DEF DefaultFirst

(* A request rule.                                                         *)
LEMMA PreRuleStep == RulesInv /\ PreRule => RulesInv'
<1> SUFFICES ASSUME RulesInv, PreRule PROVE RulesInv'
  OBVIOUS
<1> DEFINE rule == preRules[ruAt]
           n    == Len(ruTrace)
<1>1. /\ RulesTypeOK /\ TraceOK(ruTrace, ruReq.authed) /\ RequestPart /\ TurnedAway /\ MatchKnown
      /\ ruPc = "pre" /\ ruGo /\ ruRules' = ruRules /\ ruAt <= Len(preRules)
  BY DEF RulesInv, PreRule
<1>2. rule \in RuleTexts
  BY <1>1, RulesTaken
<1>3. ruTrace \in Seq(RuEntry) /\ ruAt \in Nat \ {0}
      /\ \A j \in DOMAIN ruTrace : ruTrace[j].err = "nil" /\ ruTrace[j].phase \in {"pre", "default"}
  BY <1>1 DEF RulesTypeOK, RequestPart
<1>4. CASE ~CheckRule(rule, ruReq)
  <2>1. ruAt' = ruAt + 1 /\ UNCHANGED <<ruPc, ruReq, ruTrace, ruGo, ruMatched>>
    BY <1>4 DEF PreRule
  <2>2. RulesTypeOK'
    BY <1>1, <1>3, <2>1 DEF RulesTypeOK
  <2> QED
    BY <1>1, <2>1, <2>2 DEF RulesInv, NoTraceYet, RequestPart, ResponsePart, TurnedAway, MatchKnown
<1>5. CASE CheckRule(rule, ruReq) /\ isBypass(rule)
  <2> DEFINE e == [who |-> rule, err |-> "bypass", phase |-> "pre"]
  <2>1. /\ ruMatched' = TRUE /\ ruPc' = "fallback" /\ ruAt' = 1 /\ UNCHANGED <<ruReq, ruGo>>
        /\ ruTrace' = Append(ruTrace, e)
    BY <1>5 DEF PreRule
  <2>2. e \in RuEntry /\ e.phase = "pre" /\ e.err = "bypass"
    BY <1>2 DEF RuEntry
  <2> HIDE DEF e
  <2>3. /\ TraceOK(ruTrace', ruReq.authed) /\ ruTrace' \in Seq(RuEntry)
        /\ DOMAIN ruTrace' = DOMAIN ruTrace \cup {n + 1}
        /\ ruTrace'[n + 1] = e /\ \A i \in DOMAIN ruTrace : ruTrace'[i] = ruTrace[i]
    BY <1>1, <1>3, <2>1, <2>2, TraceGrows
  <2>4. RulesTypeOK'
    BY <1>1, <2>1, <2>3 DEF RulesTypeOK
  <2>5. RequestPart'
    BY <1>3, <2>1, <2>2, <2>3 DEF RequestPart
  <2> QED
    BY <1>1, <2>1, <2>3, <2>4, <2>5 DEF RulesInv, NoTraceYet, ResponsePart, TurnedAway, MatchKnown
<1>6. CASE CheckRule(rule, ruReq) /\ ~isBypass(rule)
  <2>1. /\ ruMatched' = TRUE /\ Ran(rule, "pre")
        /\ IF Stops(ErrOf(rule)) THEN ruGo' = FALSE /\ ruPc' = "fallback" /\ ruAt' = 1
           ELSE ruAt' = ruAt + 1 /\ UNCHANGED <<ruGo, ruPc>>
    BY <1>6 DEF PreRule
  <2>2. PICK e \in RuEntry :
           /\ e.err = ErrOf(rule) /\ e.phase = "pre" /\ e.err \in RuErrs
           /\ ruTrace' = Append(ruTrace, e)
           /\ "authed" \in DOMAIN ruReq' /\ ruReq'.authed = ruReq.authed
           /\ e.err = "nil" => \A c \in DOMAIN e.who.do : e.who.do[c].c = "require_auth" => ruReq.authed
    BY <1>1, <1>2, <2>1, RanLeaves
  <2> HIDE DEF rule
  <2>3. /\ TraceOK(ruTrace', ruReq.authed) /\ ruTrace' \in Seq(RuEntry)
        /\ DOMAIN ruTrace' = DOMAIN ruTrace \cup {n + 1}
        /\ ruTrace'[n + 1] = e /\ \A i \in DOMAIN ruTrace : ruTrace'[i] = ruTrace[i]
    BY <1>1, <1>3, <2>2, TraceGrows
  <2>4. \/ e.err = "nil" /\ ruGo' = ruGo /\ ruPc' = ruPc /\ ruAt' = ruAt + 1
        \/ e.err \in {"term", "fail"} /\ ruGo' = FALSE /\ ruPc' = "fallback" /\ ruAt' = 1
    BY <2>1, <2>2 DEF Stops, RuErrs
  <2>5. RulesTypeOK'
    <3>1. ruAt' \in Nat \ {0}
      BY <1>3, <2>4
    <3>2. ruGo' \in BOOLEAN /\ ruPc' \in {"pre", "fallback"}
      BY <1>1, <2>4 DEF RulesTypeOK
    <3>3. ruRules' \in Seq(RuleTexts) /\ ruMatched' \in BOOLEAN
      BY <1>1, <2>1 DEF RulesTypeOK
    <3>4. "authed" \in DOMAIN ruReq' /\ ruTrace' \in Seq(RuEntry)
      BY <2>2, <2>3
    <3> QED
      BY <3>1, <3>2, <3>3, <3>4 DEF RulesTypeOK
  <2>6. TraceOK(ruTrace, ruReq.authed)'
    BY <2>2, <2>3
  <2>7. RequestPart'
    BY <1>1, <1>3, <2>2, <2>3, <2>4, ZenonT(60) DEF RequestPart
  <2>8. TurnedAway'
    BY <1>1, <2>3, <2>4 DEF TurnedAway
  <2> QED
    BY <1>1, <2>1, <2>4, <2>5, <2>6, <2>7, <2>8 DEF RulesInv, NoTraceYet, ResponsePart, MatchKnown
<1> QED
  BY <1>4, <1>5, <1>6

(* The default rule that runs when no request rule has matched.            *)
LEMMA FallbackStep == RulesInv /\ Fallback => RulesInv'
<1> SUFFICES ASSUME RulesInv, Fallback PROVE RulesInv'
  OBVIOUS
<1> DEFINE n == Len(ruTrace)
<1>1. /\ RulesTypeOK /\ TraceOK(ruTrace, ruReq.authed) /\ RequestPart /\ TurnedAway /\ MatchKnown
      /\ ruPc = "fallback" /\ UNCHANGED <<ruRules, ruAt, ruMatched>>
  BY DEF RulesInv, Fallback
<1>2. CASE ruPc' = "up" /\ UNCHANGED <<ruReq, ruTrace, ruGo>>
  BY <1>1, <1>2 DEF RulesInv, RulesTypeOK, NoTraceYet, RequestPart, ResponsePart, TurnedAway, MatchKnown
<1>3. CASE /\ hasDefaultRule /\ ruGo /\ ~ruMatched /\ Ran(Default[1], "default")
           /\ ruGo' = ~Stops(ErrOf(Default[1]))
           /\ ruPc' = IF ErrOf(Default[1]) = "fail" THEN "done" ELSE "up"
  <2>1. Default[1] \in RuleTexts
    BY <1>1, <1>3, RulesTaken
  <2>2. PICK e \in RuEntry :
           /\ e.err = ErrOf(Default[1]) /\ e.phase = "default" /\ e.err \in RuErrs
           /\ ruTrace' = Append(ruTrace, e)
           /\ "authed" \in DOMAIN ruReq' /\ ruReq'.authed = ruReq.authed
    BY <1>1, <1>3, <2>1, RanLeaves
  <2>3. ruTrace \in Seq(RuEntry) /\ \A j \in DOMAIN ruTrace : ruTrace[j].phase # "pre"
    BY <1>1, <1>3 DEF RulesTypeOK, MatchKnown
  <2>4. /\ TraceOK(ruTrace', ruReq.authed) /\ ruTrace' \in Seq(RuEntry)
        /\ DOMAIN ruTrace' = DOMAIN ruTrace \cup {n + 1}
        /\ ruTrace'[n + 1] = e /\ \A i \in DOMAIN ruTrace : ruTrace'[i] = ruTrace[i]
    BY <1>1, <2>2, <2>3, TraceGrows
  <2>5. ruGo' = (e.err = "nil") /\ ruGo' \in BOOLEAN /\ ruPc' \in {"done", "up"}
        /\ (ruPc' = "done" => e.err = "fail")
    BY <1>3, <2>2 DEF Stops
  <2>6. RulesTypeOK'
    BY <1>1, <2>2, <2>4, <2>5 DEF RulesTypeOK
  <2>7. TraceOK(ruTrace, ruReq.authed)'
    BY <2>2, <2>4
  <2>8. RequestPart'
    BY <1>1, <1>3, <2>2, <2>4, <2>5 DEF RequestPart
  <2>9. TurnedAway' /\ MatchKnown' /\ ResponsePart'
    BY <1>1, <2>2, <2>3, <2>4, <2>5 DEF TurnedAway, MatchKnown, ResponsePart, RuErrs
  <2> QED
    BY <1>1, <2>5, <2>6, <2>7, <2>8, <2>9 DEF RulesInv, NoTraceYet
<1> QED
  BY <1>2, <1>3 DEF Fallback

(* The upstream.                                                           *)
LEMMA UpstreamStep == RulesInv /\ Upstream => RulesInv'
<1> SUFFICES ASSUME RulesInv, Upstream PROVE RulesInv'
  OBVIOUS
<1> DEFINE n == Len(ruTrace)
<1>1. /\ RulesTypeOK /\ TraceOK(ruTrace, ruReq.authed) /\ RequestPart /\ TurnedAway /\ MatchKnown
      /\ ruPc = "up" /\ ruPc' = "post" /\ UNCHANGED <<ruRules, ruAt, ruGo, ruMatched>>
  BY DEF RulesInv, Upstream
<1>2. CASE ~ruGo
  <2>1. UNCHANGED <<ruReq, ruTrace>>
    BY <1>2 DEF Upstream
  <2> QED
    BY <1>1, <1>2, <2>1 DEF RulesInv, RulesTypeOK, NoTraceYet, RequestPart, ResponsePart, TurnedAway, MatchKnown
<1>3. CASE ruGo
  <2> DEFINE e == [who |-> "upstream", err |-> "nil", phase |-> "up"]
  <2>1. ruReq' = Answered(ruReq, ruReq.answer, "upstream") /\ ruTrace' = Append(ruTrace, e)
    BY <1>3 DEF Upstream
  <2>2. "authed" \in DOMAIN ruReq' /\ ruReq'.authed = ruReq.authed
    BY <1>1, <2>1 DEF Answered, RulesTypeOK
  <2>3. e \in RuEntry /\ e.phase = "up" /\ e.err = "nil"
    BY DEF RuEntry
  <2> HIDE DEF e
  <2>4. ruTrace \in Seq(RuEntry)
        /\ \A j \in DOMAIN ruTrace : ruTrace[j].err \in {"nil", "bypass"} /\ ruTrace[j].phase \in {"pre", "default"}
    BY <1>1, <1>3 DEF RulesTypeOK, RequestPart
  <2>5. /\ TraceOK(ruTrace', ruReq.authed) /\ ruTrace' \in Seq(RuEntry)
        /\ DOMAIN ruTrace' = DOMAIN ruTrace \cup {n + 1}
        /\ ruTrace'[n + 1] = e /\ \A i \in DOMAIN ruTrace : ruTrace'[i] = ruTrace[i]
    BY <1>1, <2>1, <2>3, <2>4, TraceGrows
  <2>6. RulesTypeOK'
    BY <1>1, <2>2, <2>5 DEF RulesTypeOK
  <2>7. TraceOK(ruTrace, ruReq.authed)'
    BY <2>2, <2>5
  <2>8. ResponsePart' /\ MatchKnown'
    BY <1>1, <2>3, <2>5 DEF ResponsePart, MatchKnown
  <2> QED
    BY <1>1, <1>3, <2>6, <2>7, <2>8 DEF RulesInv, NoTraceYet, RequestPart, TurnedAway
<1> QED
  BY <1>2, <1>3

(* A response rule, or the default rule for responses.                     *)
LEMMA ResponseStep ==
  ASSUME RulesInv, NEW rule \in RuleTexts, NEW ph \in {"default", "post"}, Ran(rule, ph),
         ph = "default" => IsResponseRule(rule),
         ruPc = "post", ruPc' \in {"post", "done"}, ruAt' \in Nat \ {0}, UNCHANGED <<ruRules, ruGo, ruMatched>>
  PROVE  RulesInv'
<1> DEFINE n == Len(ruTrace)
<1>1. RulesTypeOK /\ TraceOK(ruTrace, ruReq.authed) /\ ResponsePart /\ TurnedAway /\ MatchKnown
  BY DEF RulesInv
<1>2. PICK e \in RuEntry :
         /\ e.who = rule /\ e.phase = ph /\ ruTrace' = Append(ruTrace, e)
         /\ "authed" \in DOMAIN ruReq' /\ ruReq'.authed = ruReq.authed
  BY <1>1, RanLeaves
<1>3. ruTrace \in Seq(RuEntry)
  BY <1>1 DEF RulesTypeOK
<1>4. /\ TraceOK(ruTrace', ruReq.authed) /\ ruTrace' \in Seq(RuEntry)
      /\ DOMAIN ruTrace' = DOMAIN ruTrace \cup {n + 1}
      /\ ruTrace'[n + 1] = e /\ \A i \in DOMAIN ruTrace : ruTrace'[i] = ruTrace[i]
  BY <1>1, <1>2, <1>3, TraceGrows
<1>5. RulesTypeOK'
  BY <1>1, <1>2, <1>4 DEF RulesTypeOK
<1>6. TraceOK(ruTrace, ruReq.authed)'
  BY <1>2, <1>4
<1>7. ResponsePart' /\ TurnedAway'
  BY <1>1, <1>4 DEF ResponsePart, TurnedAway
<1>8. MatchKnown'
  BY <1>1, <1>2, <1>4 DEF MatchKnown
<1> QED
  BY <1>5, <1>6, <1>7, <1>8 DEF RulesInv, NoTraceYet, RequestPart

(* Each step of the handler keeps the invariant.                           *)
LEMMA NextRulesInv == RulesInv /\ [RulesNext]_ruVars => RulesInv'
<1> SUFFICES ASSUME RulesInv, [RulesNext]_ruVars PROVE RulesInv'
  OBVIOUS
<1>1. RulesTypeOK
  BY DEF RulesInv
<1>2. CASE PreEnd
  BY <1>2 DEF PreEnd, RulesInv, RulesTypeOK, NoTraceYet, RequestPart, ResponsePart, TurnedAway, MatchKnown
<1>3. CASE PostRule
  <2> DEFINE rule == postRules[ruAt]
  <2>1. rule \in RuleTexts /\ ruAt \in Nat \ {0} /\ ruPc = "post" /\ UNCHANGED <<ruRules, ruGo, ruMatched>>
    BY <1>1, <1>3, RulesTaken DEF PostRule, RulesTypeOK
  <2>2. CASE CheckRule(rule, ruReq)
    <3>1. Ran(rule, "post") /\ ruPc' \in {"post", "done"} /\ ruAt' \in Nat \ {0}
      BY <1>3, <2>1, <2>2 DEF PostRule
    <3> HIDE DEF rule
    <3> QED
      BY <2>1, <3>1, ResponseStep
  <2>3. CASE ~CheckRule(rule, ruReq)
    <3>1. ruAt' = ruAt + 1 /\ UNCHANGED <<ruPc, ruReq, ruTrace>>
      BY <1>3, <2>3 DEF PostRule
    <3>2. RulesTypeOK'
      BY <1>1, <2>1, <3>1 DEF RulesTypeOK
    <3> QED
      BY <2>1, <3>1, <3>2 DEF RulesInv, NoTraceYet, RequestPart, ResponsePart, TurnedAway, MatchKnown
  <2> QED
    BY <2>2, <2>3
<1>4. CASE DefaultLast
  <2>1. ruPc = "post" /\ ruPc' = "done" /\ UNCHANGED <<ruRules, ruAt, ruGo, ruMatched>> /\ ruAt \in Nat \ {0}
    BY <1>1, <1>4 DEF DefaultLast, RulesTypeOK
  <2>2. CASE isDefaultRulePost
    <3>1. Ran(Default[1], "default") /\ Default[1] \in RuleTexts /\ IsResponseRule(Default[1])
      BY <1>1, <1>4, <2>2, RulesTaken DEF DefaultLast, isDefaultRulePost
    <3> QED
      BY <2>1, <3>1, ResponseStep
  <2>3. CASE ~isDefaultRulePost
    <3>1. UNCHANGED <<ruReq, ruTrace>>
      BY <1>4, <2>3 DEF DefaultLast
    <3> QED
      BY <2>1, <3>1 DEF RulesInv, RulesTypeOK, NoTraceYet, RequestPart, ResponsePart, TurnedAway, MatchKnown
  <2> QED
    BY <2>2, <2>3
<1>5. CASE UNCHANGED ruVars
  BY <1>5 DEF ruVars, RulesInv, RulesTypeOK, NoTraceYet, RequestPart, ResponsePart, TurnedAway, MatchKnown
<1> QED
  BY <1>2, <1>3, <1>4, <1>5, ConfigStep, DefaultFirstStep, PreRuleStep, FallbackStep, UpstreamStep
     DEF RulesNext

(* The invariant gives the property.                                       *)
LEMMA RulesInvSound == RulesInv => RulesSound
<1> SUFFICES ASSUME RulesInv PROVE RulesSound
  OBVIOUS
<1>1. /\ RulesTypeOK /\ TraceOK(ruTrace, ruReq.authed) /\ RequestPart /\ ResponsePart /\ TurnedAway
  BY DEF RulesInv
<1>2. ruTrace \in Seq(RuEntry) /\ \A i, j \in DOMAIN ruTrace : i < j \/ j < i \/ i = j
  BY <1>1 DEF RulesTypeOK
<1>3. OneAnswer
  BY <1>1 DEF OneAnswer, Entries, TraceOK, ResponsePart, TurnedAway
<1>4. GatesHold
  <2>1. ASSUME NEW u \in Entries({"up"}), NEW i \in Entries({"pre"}), ruTrace[i].err # "bypass",
               NEW c \in DOMAIN ruTrace[i].who.do, ruTrace[i].who.do[c].c = "require_auth"
        PROVE  ruReq.authed
    <3>1. u \in DOMAIN ruTrace /\ i \in DOMAIN ruTrace /\ ruTrace[u].phase = "up" /\ ruTrace[i].phase = "pre"
      BY DEF Entries
    <3>2. i < u
      BY <1>1, <1>2, <3>1 DEF TraceOK
    <3>3. ruTrace[i].err = "nil"
      BY <1>1, <2>1, <3>1, <3>2 DEF TraceOK
    <3> QED
      BY <1>1, <2>1, <3>1, <3>3 DEF TraceOK
  <2>2. \A i \in Entries({"default"}), j \in Entries({"pre"}) : j < i => IsResponseRule(ruTrace[i].who)
    BY <1>1 DEF Entries, TraceOK
  <2> QED
    BY <2>1, <2>2 DEF GatesHold
<1>5. ResponseRulesLast
  <2> SUFFICES ASSUME NEW i \in Entries({"post"})
               PROVE  (\A j \in Entries({"pre", "up"}) : j < i) /\ (~ruGo \/ Entries({"up"}) # {})
    BY DEF ResponseRulesLast
  <2>1. i \in DOMAIN ruTrace /\ ruTrace[i].phase = "post"
    BY DEF Entries
  <2>2. \A j \in Entries({"pre", "up"}) : j < i
    BY <1>1, <1>2, <2>1 DEF Entries, TraceOK
  <2>3. ruPc \in {"post", "done"}
    BY <1>1, <2>1 DEF RequestPart, RulesTypeOK, RulesInv
  <2> QED
    BY <1>1, <2>2, <2>3 DEF ResponsePart, Entries
<1> QED
  BY <1>3, <1>4, <1>5 DEF RulesSound

(* For any rules and requests: one party answers, the upstream after no    *)
(* rule that refused and a rule only before which nothing did; who has to  *)
(* log in does not reach the upstream without it; and response rules run   *)
(* last (the chain of shouldCallUpstream in Rules.BuildHandler).           *)
THEOREM RulesAreSound == RulesSpec => []RulesSound
<1>1. RulesInit => RulesInv
  <2> SUFFICES ASSUME RulesInit PROVE RulesInv
    OBVIOUS
  <2>1. RulesTypeOK
    <3>1. "authed" \in DOMAIN NoRequest
      BY DEF NoRequest
    <3>2. <<>> \in Seq(RuleTexts) /\ <<>> \in Seq(RuEntry)
      OBVIOUS
    <3>3. "authed" \in DOMAIN ruReq
      BY <3>1 DEF RulesInit
    <3>4. ruRules \in Seq(RuleTexts) /\ ruTrace \in Seq(RuEntry)
      BY <3>2 DEF RulesInit
    <3>5. ruPc = "config" /\ ruAt \in Nat \ {0}
      BY DEF RulesInit
    <3>6. ruGo \in BOOLEAN /\ ruMatched \in BOOLEAN
      BY DEF RulesInit
    <3> QED
      BY <3>3, <3>4, <3>5, <3>6 DEF RulesTypeOK
  <2> QED
    BY <2>1 DEF RulesInit, RulesInv, TraceOK, NoTraceYet, RequestPart, ResponsePart, TurnedAway, MatchKnown
<1>2. RulesSpec => []RulesInv
  BY <1>1, NextRulesInv, PTL DEF RulesSpec
<1> QED
  BY <1>2, RulesInvSound, PTL
=============================================================================
