----------------------------- MODULE MCServices -----------------------------
(***************************************************************************)
(* Small instances of HealthMonitor, DockerClients and NotifDispatcher for *)
(* TLC.  The three share no state, so that their steps commute: a          *)
(* behaviour lets one of them move, and the others stay where they start.  *)
(***************************************************************************)
EXTENDS HealthMonitor, DockerClients, NotifDispatcher

CONSTANTS u1, u2, u3, hostA, m1, m2, p1, p2

(* Immediate notification, and thresholds below, at and above the limit of *)
(* errors in a row.                                                        *)
SomeRetries == {-1, 1, 3, 5, 6}

ThreeUsers == {u1, u2, u3}
OneHost    == {hostA}

(* A message for everyone with one retry, one for one provider with two.   *)
TwoMsgs      == {m1, m2}
TwoProviders == {p1, p2}
SomeTo       == [m \in Msgs |-> IF m = m2 THEN {p2} ELSE {}]
SomeTrials   == [m \in Msgs |-> IF m = m2 THEN 2 ELSE 1]

VARIABLE part

ServicesInit ==
  /\ Init /\ ClientsInit /\ NotifInit /\ part \in {"health", "clients", "notif"}
  /\ part # "health" => retries = 1

ServicesNext ==
  \/ part = "health" /\ Next /\ UNCHANGED <<dcVars, ndVars, part>>
  \/ part = "clients" /\ ClientsNext /\ UNCHANGED <<vars, ndVars, part>>
  \/ part = "notif" /\ NotifNext /\ UNCHANGED <<vars, dcVars, part>>

ServicesSpec == /\ ServicesInit /\ [][ServicesNext]_<<vars, dcVars, ndVars, part>>
                /\ NotifFairness
=============================================================================
