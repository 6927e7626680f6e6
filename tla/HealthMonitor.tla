--------------------------- MODULE HealthMonitor ---------------------------
(***************************************************************************)
(* internal/health/monitor: one monitor.  A goroutine checks the service   *)
(* once when it starts and then at every tick, records the status, decides *)
(* about notifications and gives up after maxFailures errors in a row.     *)
(*                                                                         *)
(* The check itself is external: it answers "healthy", "unhealthy" or      *)
(* "error" (err # nil).                                                    *)
(***************************************************************************)
EXTENDS Integers

CONSTANTS
  RetriesSet,   \* values of config.Retries after ApplyDefaults: never 0
  MaxFailures,  \* errors in a row after which the goroutine stops: 5
  MaxRun        \* bound: failed checks in a row

ASSUME ConstantsAssumption ==
  /\ RetriesSet \subseteq Int \ {0}
  /\ MaxFailures \in Nat \ {0}
  /\ MaxRun \in Nat \ {0}

VARIABLES
  retries,   \* config.Retries
  loop,      \* the goroutine: "first", "ticking" or "stopped"
  status,    \* mon.status
  fails,     \* mon.numConsecFailures
  sent,      \* mon.downNotificationSent
  failures,  \* the local counter of errors in a row
  run,       \* checks since the last healthy one
  notes,     \* notifications since the last healthy check, by kind
  gaveUp     \* stopped after MaxFailures errors

vars == <<retries, loop, status, fails, sent, failures, run, notes, gaveUp>>

Results  == {"healthy", "unhealthy", "error"}
Statuses == Results

TypeOK ==
  /\ retries \in RetriesSet
  /\ loop \in {"first", "ticking", "stopped"}
  /\ status \in Statuses
  /\ fails \in Nat /\ failures \in Nat /\ run \in Nat
  /\ sent \in BOOLEAN /\ gaveUp \in BOOLEAN
  /\ notes \in [up : Nat, down : Nat]

-----------------------------------------------------------------------------
(* checkUpdateHealth.                                                      *)

wasHealthy == status = "healthy"

(* Mutant: the recovery is not notified.                                   *)
cameUpMutant2 ==
  /\ fails' = 0 /\ sent' = FALSE
  /\ notes' = [up |-> 0, down |-> 0]

(* A change to healthy is notified and resets the counters.                *)
cameUp ==
  /\ fails' = 0 /\ sent' = FALSE
  /\ notes' = [up |-> 1, down |-> 0]

stayedUp ==
  /\ UNCHANGED <<fails, sent>>
  /\ notes' = [notes EXCEPT !.down = 0]

(* Without a threshold the change of status is notified at once.           *)
downImmediate ==
  /\ sent' = (sent \/ wasHealthy)
  /\ notes' = [up |-> 0, down |-> IF wasHealthy THEN notes.down + 1 ELSE notes.down]
  /\ UNCHANGED fails

(* Mutant: notified again and again.                                       *)
downThresholdMutant2 ==
  LET due == fails + 1 >= retries IN
  /\ fails' = fails + 1
  /\ sent' = (sent \/ due)
  /\ notes' = [up |-> 0, down |-> IF due THEN notes.down + 1 ELSE notes.down]

(* With a threshold it is notified after Retries failures, once.           *)
downThreshold ==
  LET due == fails + 1 >= retries /\ ~sent IN
  /\ fails' = fails + 1
  /\ sent' = (sent \/ due)
  /\ notes' = [up |-> 0, down |-> IF due THEN notes.down + 1 ELSE notes.down]

checkUpdateHealth(res) ==
  /\ \/ res = "healthy" /\ wasHealthy /\ stayedUp
     \/ res = "healthy" /\ ~wasHealthy /\ cameUp
     \/ res # "healthy" /\ retries < 0 /\ downImmediate
     \/ res # "healthy" /\ retries > 0 /\ downThreshold
  /\ run' = IF res = "healthy" THEN 0 ELSE run + 1

-----------------------------------------------------------------------------
(* The goroutine of Start.                                                 *)

FirstCheck(res) ==
  /\ loop = "first" /\ loop' = "ticking"
  /\ checkUpdateHealth(res) /\ status' = res
  /\ failures' = IF res = "error" THEN failures + 1 ELSE failures
  /\ UNCHANGED <<retries, gaveUp>>

Tick(res) ==
  LET n == IF res = "error" THEN failures + 1 ELSE 0 IN
  /\ loop = "ticking" /\ run < MaxRun
  /\ checkUpdateHealth(res) /\ status' = res
  /\ failures' = n
  /\ loop' = IF n >= MaxFailures THEN "stopped" ELSE "ticking"
  /\ gaveUp' = (loop' = "stopped")
  /\ UNCHANGED retries

(* The task is cancelled: the deferred function leaves "error" alone.      *)
Cancel ==
  /\ loop = "ticking" /\ loop' = "stopped"
  /\ status' = IF status = "error" THEN "error" ELSE "unhealthy"
  /\ UNCHANGED <<retries, fails, sent, failures, run, notes, gaveUp>>

Init ==
  /\ retries \in RetriesSet
  /\ loop = "first" /\ status = "healthy"
  /\ fails = 0 /\ sent = FALSE /\ failures = 0
  /\ run = 0 /\ notes = [up |-> 0, down |-> 0] /\ gaveUp = FALSE

Next == Cancel \/ \E res \in Results : FirstCheck(res) \/ Tick(res)

Spec == Init /\ [][Next]_vars

-----------------------------------------------------------------------------
(* Properties.                                                             *)

(* The failures in a row after which a service counts as down.             *)
Threshold == IF retries < 0 THEN 1 ELSE retries

(* A service that goes down is notified exactly once, at the Threshold-th  *)
(* failure in a row and not before, however failures, errors and           *)
(* recoveries alternate (numConsecFailures and downNotificationSent).      *)
DownNotifiedOnceWhenDue ==
  notes.down = (IF run >= Threshold THEN 1 ELSE 0)

(* The monitor gives up watching a service only after it was reported as   *)
(* down, provided the threshold is not beyond the limit of 5 errors.       *)
GivesUpAfterNotifying ==
  (gaveUp /\ Threshold <= MaxFailures) => notes.down = 1

(* The end of an outage that was notified is notified.                     *)
RecoveryNotified ==
  [][(notes.down = 1 /\ notes'.down = 0) => notes'.up = 1]_vars

(* What DownNotifiedOnceWhenDue rests on.                                  *)
CountersAgree ==
  /\ loop # "stopped" => (status = "healthy" <=> run = 0)
  /\ sent <=> run >= Threshold
  /\ retries > 0 => fails = run
  /\ failures <= run
  /\ gaveUp => run >= MaxFailures
  /\ loop = "first" => (failures = 0 /\ ~gaveUp)

IInv == TypeOK /\ CountersAgree /\ DownNotifiedOnceWhenDue

(* An outage is told once, when it is due and before the monitor gives up; *)
(* with the invariant that makes this inductive.                           *)
OutagesNotified == IInv /\ GivesUpAfterNotifying
=============================================================================
