------------------------------ MODULE Autocert ------------------------------
(***************************************************************************)
(* Certificates (internal/autocert): loading them at start-up or obtaining *)
(* them by ACME under a cool-down that survives a crash, the scheduler     *)
(* that renews each one before it expires or when it is asked to, and the  *)
(* choice of a certificate by the server name of a client.                 *)
(*                                                                         *)
(* A certificate is the number of its issue; issue 0 is "none".  Time is a *)
(* clock that advances at any moment.                                      *)
(***************************************************************************)
EXTENDS Integers, Sequences, SequencesExt, FiniteSets

CONSTANTS Certs,            \* the providers in order, the main one first
          CertNames,          \* the names of each one's certificate: sequences of labels
          Hellos,             \* server names that clients send, without wildcard
          CertLife, RenewBefore, RequestCooldown, RenewalCooldown,   \* in ticks
          OldDomains,         \* providers whose first certificate has other domains
          MaxClock, MaxIssues, MaxIncidents   \* bounds; an incident is a crash or a forced renewal

Main == Certs[1]
CertProviders == ToSet(Certs)

\* A name has a first label, and a client asks for no wildcard.
ASSUME AutocertAssumption ==
  /\ RenewBefore < CertLife /\ 0 < RequestCooldown /\ RequestCooldown <= RenewalCooldown
  /\ {CertLife, RenewBefore, RequestCooldown, RenewalCooldown} \subseteq Nat
  /\ Certs \in Seq(STRING \ {""}) /\ Certs # <<>>
  /\ CertNames \in [CertProviders -> Seq(Seq(STRING) \ {<<>>})]
  /\ Hellos \subseteq Seq(STRING) \ {<<>>} /\ \A n \in Hellos : Head(n) # "*"

VARIABLES acClock, acPhase,   \* "init", "run", "failed" (not scheduled) or "stopped"
          disk,               \* [provider -> [key, crt, failure]]
          prov,               \* [provider -> its fields in memory and the step of its goroutine]
          matcher,            \* the providers whose names are in the SNI matcher
          forcer,             \* the goroutine of an API request: [at, wait, ok, pc]
          issued,             \* the expiry of every issue so far
          asked,              \* [provider -> the ACME requests' times, and how the last ended]
          acIncidents

acVars == <<acClock, acPhase, disk, prov, matcher, forcer, issued, asked, acIncidents>>

Never == -1
Expiry(c) == issued[c]
Fresh == [tls |-> 0, last |-> Never, timer |-> Never, force |-> 0, done |-> FALSE,
          pc |-> "load", mode |-> "init", new |-> 0]
NoCall == [pc |-> "none", at |-> 0, ok |-> FALSE]

\* The main provider has a certificate of an earlier installation; the others
\* are new and have no files.
AutocertInit ==
  /\ acClock = 0 /\ acPhase = "init"
  /\ issued = <<CertLife>>
  /\ disk = [p \in CertProviders |-> LET c == IF p = Main THEN 1 ELSE 0 IN [key |-> c, crt |-> c, failure |-> Never]]
  /\ prov = [p \in CertProviders |-> Fresh]
  /\ matcher = {} /\ forcer = NoCall
  /\ asked = [p \in CertProviders |-> [at |-> Never, early |-> FALSE, failed |-> FALSE]]
  /\ acIncidents = 0

Set(p, r) == prov' = [prov EXCEPT ![p] = r]
At(p, pc) == prov[p].pc = pc
Unforced == UNCHANGED <<forcer, acIncidents, acClock>>

(***************************************************************************)
(* Obtaining.                                                              *)
(***************************************************************************)
GetLastFailure(p) == IF prov[p].last # Never THEN prov[p].last ELSE disk[p].failure
Cooling(p, d) == LET t == GetLastFailure(p) IN t # Never /\ acClock - t < d

(* Mutant: a failure does not answer whoever waits.                        *)
FailedMutant(p, r) ==
  IF r.mode = "init" THEN [r EXCEPT !.pc = "failed"] ELSE [r EXCEPT !.pc = "idle"]

\* The goroutine's work has failed: at start-up it ends, in the scheduler the
\* deferred function answers whoever waits, and the timer stays as it is.
Failed(p, r) ==
  IF r.mode = "init" THEN [r EXCEPT !.pc = "failed"]
                     ELSE [r EXCEPT !.pc = "idle", !.done = FALSE]

loadCert(p) ==
  /\ At(p, "load")
  /\ LET d == disk[p] IN
       Set(p, IF d.key = 0 \/ d.crt = 0
                 THEN IF Cooling(p, RequestCooldown) THEN Failed(p, prov[p]) ELSE [prov[p] EXCEPT !.pc = "obtain"]
              ELSE IF d.key # d.crt THEN Failed(p, prov[p])
              ELSE [prov[p] EXCEPT !.tls = d.crt, !.pc = "ready"])
  /\ Unforced /\ UNCHANGED <<acPhase, disk, matcher, issued, asked>>

(* Mutant: the failure is kept in memory only.                             *)
UpdateLastFailureMutant(p) ==
  /\ prov' = [prov EXCEPT ![p].last = acClock, ![p].pc = "request"]
  /\ UNCHANGED disk

UpdateLastFailure(p) ==
  /\ prov' = [prov EXCEPT ![p].last = acClock, ![p].pc = "request"]
  /\ disk' = [disk EXCEPT ![p].failure = acClock]

\* The client and the registration are made, the failure is marked and the
\* certificate is requested (a failure to make the client ends it before).
ObtainCert(p) ==
  /\ At(p, "obtain")
  /\ \/ /\ UpdateLastFailure(p)
        /\ asked' = [asked EXCEPT ![p] =
             [at |-> acClock, failed |-> TRUE,
              early |-> /\ asked[p].failed /\ prov[p].mode # "force"
                        /\ acClock - asked[p].at < IF prov[p].mode = "init" THEN RequestCooldown ELSE RenewalCooldown]]
     \/ Set(p, Failed(p, prov[p])) /\ UNCHANGED <<disk, asked>>
  /\ Unforced /\ UNCHANGED <<acPhase, matcher, issued>>

Obtained(p) ==
  /\ At(p, "request")
  /\ \/ /\ Len(issued) < MaxIssues
        /\ issued' = Append(issued, acClock + CertLife)
        /\ Set(p, [prov[p] EXCEPT !.new = Len(issued) + 1, !.pc = "key"])
     \/ Set(p, Failed(p, prov[p])) /\ UNCHANGED issued
  /\ Unforced /\ UNCHANGED <<acPhase, disk, matcher, asked>>

saveKey(p) ==
  /\ At(p, "key")
  /\ disk' = [disk EXCEPT ![p].key = prov[p].new]
  /\ Set(p, [prov[p] EXCEPT !.pc = "cert"])
  /\ Unforced /\ UNCHANGED <<acPhase, matcher, issued, asked>>

saveCert(p) ==
  /\ At(p, "cert")
  /\ disk' = [disk EXCEPT ![p].crt = prov[p].new]
  /\ Set(p, [prov[p] EXCEPT !.tls = prov[p].new, !.new = 0, !.pc = IF p = Main THEN "rebuild" ELSE "clear"])
  /\ Unforced /\ UNCHANGED <<acPhase, matcher, issued, asked>>

\* rebuildSNIMatcher empties the matcher that GetCert reads, then fills it.
Loaded == {p \in CertProviders : prov[p].tls # 0}
RebuildClear(p) ==
  /\ At(p, "rebuild") /\ matcher' = {}
  /\ Set(p, [prov[p] EXCEPT !.pc = "fill"])
  /\ Unforced /\ UNCHANGED <<acPhase, disk, issued, asked>>
RebuildFill(p) ==
  /\ At(p, "fill") /\ matcher' = Loaded
  /\ Set(p, [prov[p] EXCEPT !.pc = "clear"])
  /\ Unforced /\ UNCHANGED <<acPhase, disk, issued, asked>>

ShouldRenewOn(p) == IF prov[p].tls = 0 THEN acClock + RenewBefore ELSE Expiry(prov[p].tls) - RenewBefore

ClearLastFailure(p) ==
  /\ At(p, "clear")
  /\ disk' = [disk EXCEPT ![p].failure = Never]
  /\ asked' = [asked EXCEPT ![p].failed = FALSE]
  /\ Set(p, IF prov[p].mode = "init" THEN [prov[p] EXCEPT !.last = Never, !.pc = "ready"]
            ELSE [prov[p] EXCEPT !.last = Never, !.pc = "idle", !.timer = ShouldRenewOn(p), !.done = FALSE])
  /\ Unforced /\ UNCHANGED <<acPhase, matcher, issued>>

\* ObtainCertIfNotExistsAll waits for all; one failure fails the start of the
\* state, and no renewal is scheduled.
Scheduled ==
  /\ acPhase = "init"
  /\ \A p \in CertProviders : prov[p].pc \in {"ready", "failed"}
  /\ matcher' = Loaded
  /\ IF \E p \in CertProviders : At(p, "failed")
       THEN acPhase' = "failed" /\ UNCHANGED prov
       ELSE /\ acPhase' = "run"
            /\ prov' = [p \in CertProviders |-> [prov[p] EXCEPT !.pc = "idle", !.timer = ShouldRenewOn(p)]]
  /\ Unforced /\ UNCHANGED <<disk, issued, asked>>

(***************************************************************************)
(* The scheduler of a provider.                                            *)
(***************************************************************************)
certState(p) ==
  IF acClock >= ShouldRenewOn(p) THEN "expired"
  ELSE IF prov[p].tls = 1 /\ p \in OldDomains THEN "mismatch" ELSE "valid"

\* renew in the mode "if needed".
RenewIfNeeded(p) ==
  /\ At(p, "idle") /\ acPhase = "run"
  /\ prov[p].timer # Never /\ acClock >= prov[p].timer
  /\ LET r == [prov[p] EXCEPT !.timer = Never, !.mode = "needed"] IN
       Set(p, IF Cooling(p, RenewalCooldown) \/ certState(p) = "valid" THEN Failed(p, r)
              ELSE [r EXCEPT !.pc = "obtain"])
  /\ Unforced /\ UNCHANGED <<acPhase, disk, matcher, issued, asked>>

RenewForced(p) ==
  /\ At(p, "idle") /\ acPhase = "run" /\ prov[p].force = 1
  /\ Set(p, [prov[p] EXCEPT !.force = 0, !.mode = "force", !.pc = "obtain"])
  /\ Unforced /\ UNCHANGED <<acPhase, disk, matcher, issued, asked>>

\* The state's task ends: each scheduler returns to its select and leaves.
Stop ==
  /\ acPhase = "run" /\ \A p \in CertProviders : At(p, "idle")
  /\ acPhase' = "stopped"
  /\ prov' = [p \in CertProviders |-> [prov[p] EXCEPT !.pc = "ended", !.timer = Never]]
  /\ Unforced /\ UNCHANGED <<disk, matcher, issued, asked>>

\* The process dies and starts again; the disk stays.
CrashRestart ==
  /\ acIncidents < MaxIncidents
  /\ acIncidents' = acIncidents + 1
  /\ acPhase' = "init" /\ prov' = [p \in CertProviders |-> Fresh]
  /\ matcher' = {} /\ forcer' = NoCall
  /\ UNCHANGED <<acClock, disk, issued, asked>>

AcTick == acClock < MaxClock /\ acClock' = acClock + 1
          /\ UNCHANGED <<acPhase, disk, prov, matcher, forcer, issued, asked, acIncidents>>

(***************************************************************************)
(* A renewal asked for through the API: every provider in turn is marked   *)
(* as awaited and signalled, then each is waited for in turn.              *)
(***************************************************************************)
ForceBegin ==
  /\ forcer.pc = "none" /\ acPhase = "run" /\ acIncidents < MaxIncidents
  /\ acIncidents' = acIncidents + 1
  /\ forcer' = [pc |-> "force", at |-> 1, ok |-> FALSE]
  /\ UNCHANGED <<acClock, acPhase, disk, prov, matcher, issued, asked>>

\* The main provider refuses when a renewal is awaited, and all are left
\* alone; an extra one refuses for itself.
ForceExpiry ==
  LET p == Certs[forcer.at]
      busy == prov[p].done
      sent == ~busy /\ prov[p].force = 0
      ok == forcer.ok \/ sent
      last == forcer.at = Len(Certs) \/ (forcer.at = 1 /\ busy) IN
  /\ forcer.pc = "force"
  /\ prov' = IF busy THEN prov ELSE [prov EXCEPT ![p].done = TRUE, ![p].force = 1]
  /\ forcer' = IF ~last THEN [forcer EXCEPT !.at = @ + 1, !.ok = ok]
               ELSE IF ok THEN [pc |-> "load", at |-> 1, ok |-> TRUE] ELSE NoCall
  /\ UNCHANGED <<acClock, acPhase, disk, matcher, issued, asked, acIncidents>>

\* WaitRenewalDone: nothing to wait for (the renewal has ended meanwhile) ends
\* the call as if it was dropped; otherwise it waits until this renewal ends.
WaitLoad ==
  /\ forcer.pc = "load"
  /\ forcer' = IF prov[Certs[forcer.at]].done THEN [forcer EXCEPT !.pc = "wait"] ELSE NoCall
  /\ UNCHANGED <<acClock, acPhase, disk, prov, matcher, issued, asked, acIncidents>>
WaitDone ==
  /\ forcer.pc = "wait" /\ ~prov[Certs[forcer.at]].done
  /\ forcer' = IF forcer.at = Len(Certs) THEN NoCall ELSE [forcer EXCEPT !.pc = "load", !.at = @ + 1]
  /\ UNCHANGED <<acClock, acPhase, disk, prov, matcher, issued, asked, acIncidents>>
CallerLeaves ==
  /\ forcer.pc = "wait" /\ forcer' = NoCall
  /\ UNCHANGED <<acClock, acPhase, disk, prov, matcher, issued, asked, acIncidents>>

CertStep(p) ==
  \/ loadCert(p) \/ ObtainCert(p) \/ Obtained(p) \/ saveKey(p) \/ saveCert(p)
  \/ RebuildClear(p) \/ RebuildFill(p) \/ ClearLastFailure(p) \/ RenewIfNeeded(p) \/ RenewForced(p)

ForceStep == ForceExpiry \/ WaitLoad \/ WaitDone

AutocertNext ==
  \/ \E p \in CertProviders : CertStep(p)
  \/ Scheduled \/ Stop \/ CrashRestart \/ AcTick \/ ForceBegin \/ ForceStep \/ CallerLeaves

AutocertSpec == AutocertInit /\ [][AutocertNext]_acVars

AutocertFairness ==
  /\ \A p \in CertProviders : WF_acVars(CertStep(p))
  /\ WF_acVars(ForceStep)

(***************************************************************************)
(* GetCert.                                                                *)
(***************************************************************************)
Wild(n) == Head(n) = "*"
ExactOf(p) == {n \in ToSet(CertNames[p]) : ~Wild(n)}
WildOf(p) == {Tail(n) : n \in {m \in ToSet(CertNames[p]) : Wild(m)}}

\* Providers are added in their order, and the first one keeps a name.
FirstOf(having) ==
  LET ks == {k \in DOMAIN Certs : Certs[k] \in matcher \intersect having}
  IN  IF ks = {} THEN "" ELSE Certs[CHOOSE k \in ks : \A j \in ks : k <= j]

\* The walk down the tree of labels, from the last one on, ends at the node of
\* the name without its first label, if wildcards made one; the first provider
\* that put a wildcard there has it.
matchSuffixTree(n) == IF Len(n) = 1 THEN "" ELSE FirstOf({p \in CertProviders : Tail(n) \in WildOf(p)})
match(n) ==
  LET e == FirstOf({p \in CertProviders : n \in ExactOf(p)}) IN IF e # "" THEN e ELSE matchSuffixTree(n)

\* The provider whose certificate a client gets; "" when it gets none.
GetCert(n) == IF prov[Main].tls = 0 THEN "" ELSE LET p == match(n) IN IF p # "" /\ prov[p].tls # 0 THEN p ELSE Main

(***************************************************************************)
(* Properties.                                                             *)
(***************************************************************************)
\* A certificate covers a name as clients read it: the name, or a wildcard in
\* the place of its first label.
Covers(p, n) == n \in ToSet(CertNames[p]) \/ (Len(n) > 1 /\ <<"*">> \o Tail(n) \in ToSet(CertNames[p]))

(* Once the start is over and outside a rebuild, a client that asks for a  *)
(* name some loaded certificate covers is given a certificate that covers  *)
(* it, also after renewals in any order and after a restart.               *)
ServesCovering ==
  (acPhase = "run" /\ ~At(Main, "fill")) =>
    \A n \in Hellos : (\E p \in CertProviders : prov[p].tls # 0 /\ Covers(p, n)) => Covers(GetCert(n), n)

(* After an attempt that did not end well, or during which the process     *)
(* died, no further request goes to the ACME server within the cool-down   *)
(* unless somebody asks for it ("in case the process crashed / failed to   *)
(* renew, we put it on a cooldown").                                       *)
CooldownHolds == \A p \in CertProviders : ~asked[p].early

(* What is served is what is on disk, unless a renewal is just writing it: *)
(* a restart that comes between two renewals serves the same certificate.  *)
ServedIsStored ==
  \A p \in CertProviders :
    (prov[p].tls # 0 /\ prov[p].pc \notin {"key", "cert"}) => disk[p].key = prov[p].tls /\ disk[p].crt = prov[p].tls

AutocertSound == ServesCovering /\ CooldownHolds /\ ServedIsStored

(* Whoever asked for a renewal and waits is answered, and the renewal that *)
(* was signalled is begun, while the schedulers run.                       *)
RenewalAnswered ==
  /\ (forcer.pc # "none") ~> (forcer.pc = "none" \/ acPhase # "run")
  /\ \A p \in CertProviders : (prov[p].force = 1) ~> (prov[p].force = 0 \/ acPhase # "run")
=============================================================================
