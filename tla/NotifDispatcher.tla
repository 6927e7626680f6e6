-------------------------- MODULE NotifDispatcher --------------------------
(***************************************************************************)
(* internal/notif: one dispatcher from StartNotifDispatcher to its end,    *)
(* the goroutines that call Notify, the goroutine of start, which both     *)
(* receives messages and retries failed ones, and the goroutines that      *)
(* send.  An item is a message for one provider.  How long a backoff lasts *)
(* is abstracted: a scheduled item becomes ripe some time later.           *)
(***************************************************************************)
EXTENDS Naturals, Sequences, FiniteSets

CONSTANTS
  Msgs,
  Providers,
  To,          \* [Msgs -> SUBSET Providers], empty for all of them
  MaxTrials,   \* [Msgs -> Nat], maxRetries of the level of the message
  ChanCap      \* capacity of logCh

ASSUME NotifAssumption ==
  To \in [Msgs -> SUBSET Providers] /\ MaxTrials \in [Msgs -> Nat] /\ ChanCap \in Nat

VARIABLES
  notifier,    \* per message: where the goroutine that calls Notify is
  logCh, logChClosed,
  providers,   \* disp.providers
  nloop,       \* the goroutine of start: "select", "retry", "ended"
  ndone,       \* the task is cancelled
  received,    \* messages whose dispatch goroutine has not begun
  sending,     \* items being sent by a dispatch goroutine
  retryMsg,    \* items in disp.retryMsg
  ripe,        \* those whose NextRetry has passed
  ready,       \* readyMessages of processRetries
  trials,      \* msg.Trials, per item
  attempts, acks,  \* per item: calls of notify, and those that succeeded
  undelivered  \* items that failed permanently

Items == Msgs \X Providers
chanVars == <<notifier, logCh, logChClosed>>
itemVars == <<sending, retryMsg, ripe, ready, trials, attempts, acks, undelivered>>
ndVars == <<chanVars, providers, nloop, ndone, received, itemVars>>

NotifTypeOK ==
  /\ notifier \in [Msgs -> {"new", "checked", "sent", "dropped", "panicked"}]
  /\ logCh \in Seq(Msgs) /\ Len(logCh) <= ChanCap /\ logChClosed \in BOOLEAN
  /\ providers \subseteq Providers /\ received \subseteq Msgs
  /\ nloop \in {"select", "retry", "ended"} /\ ndone \in BOOLEAN
  /\ sending \subseteq Items /\ ready \subseteq Items
  /\ retryMsg \subseteq Items /\ ripe \subseteq retryMsg
  /\ trials \in [Items -> Nat] /\ attempts \in [Items -> Nat]
  /\ acks \in [Items -> Nat] /\ undelivered \subseteq Items

recipients(m) == IF To[m] = {} THEN providers ELSE To[m] \cap providers
inc(f, i) == [f EXCEPT ![i] = @ + 1]

-----------------------------------------------------------------------------
(* Notify.  The channel is used after the context was looked at.           *)
NotifyCheck(m) ==
  /\ notifier[m] = "new"
  /\ notifier' = [notifier EXCEPT ![m] = IF ndone THEN "dropped" ELSE "checked"]
  /\ UNCHANGED <<logCh, logChClosed, providers, nloop, ndone, received, itemVars>>

(* A send blocks while the channel is full, and panics when it is closed.  *)
NotifySend(m) ==
  /\ notifier[m] = "checked"
  /\ \/ /\ ~logChClosed /\ Len(logCh) < ChanCap /\ logCh' = Append(logCh, m)
        /\ notifier' = [notifier EXCEPT ![m] = "sent"]
     \/ /\ logChClosed /\ UNCHANGED logCh
        /\ notifier' = [notifier EXCEPT ![m] = "panicked"]
  /\ UNCHANGED <<logChClosed, providers, nloop, ndone, received, itemVars>>

-----------------------------------------------------------------------------
(* The goroutine of start.                                                 *)
Receive ==
  /\ nloop = "select" /\ logCh # <<>> /\ logCh' = Tail(logCh)
  /\ received' = received \cup {Head(logCh)}
  /\ UNCHANGED <<notifier, logChClosed, providers, nloop, ndone, itemVars>>

(* Mutant: the messages stay in the map while they are retried.            *)
ProcessRetriesMutant ==
  /\ nloop = "select" /\ ripe # {} /\ nloop' = "retry" /\ ready' = ripe
  /\ UNCHANGED <<chanVars, providers, ndone, received, sending, retryMsg, ripe,
                 trials, attempts, acks, undelivered>>

ProcessRetries ==
  /\ nloop = "select" /\ ripe # {} /\ nloop' = "retry" /\ ready' = ripe
  /\ retryMsg' = retryMsg \ ripe /\ ripe' = {}
  /\ UNCHANGED <<chanVars, providers, ndone, received, sending, trials, attempts, acks, undelivered>>

(* Mutant: a failed retry is not stored again.                             *)
RetryMutant(i, ok) ==
  /\ nloop = "retry" /\ i \in ready /\ ready' = ready \ {i}
  /\ attempts' = inc(attempts, i)
  /\ IF ok THEN acks' = inc(acks, i) /\ UNCHANGED <<trials, undelivered>>
     ELSE /\ trials' = inc(trials, i) /\ UNCHANGED acks
          /\ undelivered' = IF trials[i] + 1 >= MaxTrials[i[1]] THEN undelivered \cup {i} ELSE undelivered
  /\ UNCHANGED <<chanVars, providers, nloop, ndone, received, sending, retryMsg, ripe>>

(* One message of retry's loop.                                            *)
Retry(i, ok) ==
  /\ nloop = "retry" /\ i \in ready /\ ready' = ready \ {i}
  /\ attempts' = inc(attempts, i)
  /\ \/ ok /\ acks' = inc(acks, i) /\ UNCHANGED <<trials, undelivered, retryMsg>>
     \/ /\ ~ok /\ trials' = inc(trials, i) /\ UNCHANGED acks
        /\ \/ /\ trials[i] + 1 >= MaxTrials[i[1]] /\ undelivered' = undelivered \cup {i}
              /\ UNCHANGED retryMsg
           \/ /\ trials[i] + 1 < MaxTrials[i[1]] /\ retryMsg' = retryMsg \cup {i}
              /\ UNCHANGED undelivered
  /\ UNCHANGED <<chanVars, providers, nloop, ndone, received, sending, ripe>>

RetryDone ==
  /\ nloop = "retry" /\ ready = {} /\ nloop' = "select"
  /\ UNCHANGED <<chanVars, providers, ndone, received, itemVars>>

(* The deferred function of start.                                         *)
End ==
  /\ nloop = "select" /\ ndone /\ nloop' = "ended"
  /\ providers' = {} /\ logChClosed' = TRUE
  /\ UNCHANGED <<notifier, logCh, ndone, received, itemVars>>

-----------------------------------------------------------------------------
(* Goroutines of dispatch.                                                 *)
Dispatch(m) ==
  /\ m \in received /\ received' = received \ {m}
  /\ sending' = sending \cup ({m} \X recipients(m))
  /\ UNCHANGED <<chanVars, providers, nloop, ndone, retryMsg, ripe, ready,
                 trials, attempts, acks, undelivered>>

Send(i, ok) ==
  /\ i \in sending /\ sending' = sending \ {i} /\ attempts' = inc(attempts, i)
  /\ \/ ok /\ acks' = inc(acks, i) /\ UNCHANGED retryMsg
     \/ ~ok /\ retryMsg' = retryMsg \cup {i} /\ UNCHANGED acks
  /\ UNCHANGED <<chanVars, providers, nloop, ndone, received, ripe, ready, trials, undelivered>>

(* Time passes a scheduled item's NextRetry.                               *)
Ripen(i) ==
  /\ i \in retryMsg \ ripe /\ ripe' = ripe \cup {i}
  /\ UNCHANGED <<chanVars, providers, nloop, ndone, received, sending, retryMsg,
                 ready, trials, attempts, acks, undelivered>>

(* The state that owns the dispatcher ends.                                *)
DispatcherCancelled ==
  /\ ~ndone /\ ndone' = TRUE
  /\ UNCHANGED <<chanVars, providers, nloop, received, itemVars>>

-----------------------------------------------------------------------------
zero == [i \in Items |-> 0]

NotifInit ==
  /\ notifier = [m \in Msgs |-> "new"] /\ logCh = <<>> /\ logChClosed = FALSE
  /\ providers = Providers /\ nloop = "select" /\ ndone = FALSE
  /\ received = {} /\ sending = {} /\ retryMsg = {} /\ ripe = {} /\ ready = {}
  /\ trials = zero /\ attempts = zero /\ acks = zero /\ undelivered = {}

Loop == Receive \/ ProcessRetries \/ RetryDone \/ End
        \/ \E i \in Items, ok \in BOOLEAN : Retry(i, ok)
Goroutine(i) == Dispatch(i[1]) \/ (\E ok \in BOOLEAN : Send(i, ok)) \/ Ripen(i)
Notify(m) == NotifyCheck(m) \/ NotifySend(m)

NotifNext ==
  \/ Loop \/ DispatcherCancelled
  \/ \E m \in Msgs : Notify(m)
  \/ \E i \in Items : Goroutine(i)

NotifSpec == NotifInit /\ [][NotifNext]_ndVars

(* Goroutines run; select does not pass over a waiting message or a tick   *)
(* for ever.                                                               *)
NotifFairness ==
  /\ WF_ndVars(Loop) /\ SF_ndVars(Receive) /\ SF_ndVars(ProcessRetries)
  /\ \A m \in Msgs : WF_ndVars(Notify(m))
  /\ \A i \in Items : WF_ndVars(Goroutine(i))

-----------------------------------------------------------------------------
(* Properties.                                                             *)

Meant(m, p) == To[m] = {} \/ p \in To[m]
InChan(m) == \E k \in 1..Len(logCh) : logCh[k] = m

(* Where an item is: until its verdict it is in exactly one place, so that *)
(* it is neither lost nor sent by two goroutines.                          *)
Places(i) ==
  <<InChan(i[1]), i[1] \in received, i \in sending, i \in retryMsg, i \in ready,
    acks[i] > 0, i \in undelivered>>

(* No notification is lost or sent twice while the dispatcher runs: each   *)
(* item of a message that was handed over is in exactly one place.         *)
NothingForgotten ==
  ~ndone => \A m \in Msgs : notifier[m] = "sent" =>
    \A p \in Providers : Meant(m, p) =>
      Cardinality({k \in 1..7 : Places(<<m, p>>)[k]}) = 1

(* A provider that keeps failing is called once and then as often as the   *)
(* level of the message allows, never more; it is given up only then.      *)
TrialsBounded ==
  \A i \in Items :
    /\ attempts[i] <= 1 + (IF MaxTrials[i[1]] = 0 THEN 1 ELSE MaxTrials[i[1]])
    /\ i \in undelivered => attempts[i] > MaxTrials[i[1]]

(* What the dispatcher keeps of each notification, and for how long.       *)
NotificationsKept == NotifTypeOK /\ NothingForgotten /\ TrialsBounded

(* The dispatcher implements the mailbox: at most one acknowledgement per  *)
(* item, none after it was given up, and none given up after it.           *)
Box == INSTANCE Mailbox WITH received <- acks, abandoned <- undelivered
ImplementsMailbox == Box!Spec

(* Every item of a message that was handed over is acknowledged or given   *)
(* up in the end, unless the dispatcher ends.                              *)
EveryoneInformed ==
  \A m \in Msgs, p \in Providers : Meant(m, p) =>
    (notifier[m] = "sent") ~> (ndone \/ acks[<<m, p>>] > 0 \/ <<m, p>> \in undelivered)
=============================================================================
