---------------------------- MODULE MCLifecycles ----------------------------
(***************************************************************************)
(* Small instances, for TLC, of what must come to an end: reloads          *)
(* (ConfigReload), a route provider that is cancelled (RouteProvider), the *)
(* log file that routes share (AccessLog), stream routes (Streams) and     *)
(* renewals of certificates (Autocert).  They share no state, so that      *)
(* their steps commute: a behaviour lets one of them move.                 *)
(***************************************************************************)
EXTENDS ConfigReload, RouteProvider, AccessLog, Streams, Autocert

CONSTANTS watcher, api, a1, d1, ex, l1, l2, ca, t1

BothCallers == {watcher, api}

(* Two loggers of one file, one UDP client and one TCP connection.         *)
TwoLoggers    == {l1, l2}
OneClient     == {ca}
OneConnection == {t1}

(* A main certificate with a wildcard, and an extra one with a more        *)
(* special name and a deeper wildcard.                                     *)
TwoCerts == <<"main", "x">>
SomeNames ==
  [p \in {"main", "x"} |-> IF p = "main" THEN << <<"d">>, <<"*", "d">> >>
                           ELSE << <<"a", "d">>, <<"*", "b", "d">> >>]
SixHellos == {<<"d">>, <<"a", "d">>, <<"b", "d">>, <<"c", "b", "d">>, <<"a", "a", "d">>, <<"e">>}

VARIABLE part

LifecyclesInit ==
  /\ part \in {"reload", "provider", "log", "stream", "cert"}
  /\ Init /\ (part # "reload" => notifiers = {})
  /\ ProviderInit /\ (part # "provider" => world = noTable)
  /\ AccessInit /\ StreamsInit /\ AutocertInit

LifecyclesNext ==
  \/ part = "reload" /\ Next
     /\ UNCHANGED <<part, rpVars, alVars, stVars, acVars>>
  \/ part = "provider" /\ ProviderNext
     /\ UNCHANGED <<part, vars, alVars, stVars, acVars>>
  \/ part = "log" /\ AccessNext
     /\ UNCHANGED <<part, vars, rpVars, stVars, acVars>>
  \/ part = "stream" /\ StreamsNext
     /\ UNCHANGED <<part, vars, rpVars, alVars, acVars>>
  \/ part = "cert" /\ AutocertNext
     /\ UNCHANGED <<part, vars, rpVars, alVars, stVars>>

(* The goroutines of the part that moves are scheduled fairly; those of    *)
(* the other parts do not exist.                                           *)
LifecyclesFairness ==
  \/ part = "reload" /\ Fairness
  \/ part = "provider" /\ ProviderFairness
  \/ part = "log" /\ AccessFairness
  \/ part = "stream" /\ StreamsFairness
  \/ part = "cert" /\ AutocertFairness

LifecyclesSpec ==
  /\ LifecyclesInit
  /\ [][LifecyclesNext]_<<part, vars, rpVars, alVars, stVars, acVars>>
  /\ LifecyclesFairness
=============================================================================
