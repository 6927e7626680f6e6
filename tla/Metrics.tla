------------------------------ MODULE Metrics ------------------------------
(***************************************************************************)
(* The metrics pollers (internal/metrics): a sample a second goes into one *)
(* ring per period, each with its own interval; the rings are saved to a   *)
(* file now and then and loaded at the next start, after a crash in the    *)
(* middle of a save as well; the API aggregates what a ring holds.         *)
(*                                                                         *)
(* A sample is the time it was taken at, the health of a route (uptime)    *)
(* and whether the source had data for the asked mode (system info).       *)
(***************************************************************************)
EXTENDS Integers, Sequences, FiniteSets, SequencesExt

CONSTANTS Periods,          \* [period -> its duration]
          MaxEntries,       \* slots of a ring
          SaveTicks,        \* polls between two saves
          MetricsClock, MaxMetricsRestarts     \* bounds

ASSUME MetricsAssumption ==
  MaxEntries \in Nat \ {0} /\ \A p \in DOMAIN Periods : Periods[p] \in Nat

VARIABLES ring,      \* [period -> [entries, index, count, interval, lastAdd]]
          taken,     \* [period -> the samples accepted since the start or loaded]
          file,      \* [period -> [entries, interval]], Unreadable if none or torn
          poller,    \* "down", "up", "saving", "ending", "ended"
          ticks, clock, boots

meVars == <<ring, taken, file, poller, ticks, clock, boots>>

Least(a, b) == IF a < b THEN a ELSE b
Greatest(a, b) == IF a > b THEN a ELSE b
Interval(p) == Greatest(Periods[p] \div MaxEntries, 1)
Unreadable == <<>>
Readable == DOMAIN file # {}
NoSample == [at |-> -1, status |-> "unknown", has |-> FALSE]
newEntries(p) == [entries |-> [k \in 0..(MaxEntries - 1) |-> NoSample], index |-> 0, count |-> 0,
                  interval |-> Interval(p), lastAdd |-> clock]

\* Left from earlier runs: nothing, or a file of an older version with
\* other intervals and more entries than a ring has.
MetricsInit ==
  /\ file \in {Unreadable,
               [p \in DOMAIN Periods |->
                  [entries |-> [k \in 1..(MaxEntries + 1) |-> [at |-> k - MaxEntries - 2, status |-> "unknown", has |-> TRUE]],
                   interval |-> Interval(p) + 1]]}
  /\ poller = "down" /\ ticks = 0 /\ clock = 0 /\ boots = 0
  /\ ring = [p \in DOMAIN Periods |-> newEntries(p)] /\ taken = [p \in DOMAIN Periods |-> <<>>]

(***************************************************************************)
(* Entries.                                                                *)
(***************************************************************************)
addWithTime(r, t, s) ==
  [r EXCEPT !.entries[r.index] = s, !.index = (@ + 1) % MaxEntries,
            !.count = IF @ < MaxEntries THEN @ + 1 ELSE @, !.lastAdd = t]

Accepts(r, t) == t - r.lastAdd >= r.interval
AddEntry(r, t, s) == IF Accepts(r, t) THEN addWithTime(r, t, s) ELSE r

(* Mutant: the ring is read as if it had never wrapped.                    *)
GetMutant(r) == [k \in 1..r.count |-> r.entries[k - 1]]

Get(r) ==
  IF r.count < MaxEntries THEN [k \in 1..r.count |-> r.entries[k - 1]]
  ELSE [k \in 1..MaxEntries |-> r.entries[(r.index + k - 1) % MaxEntries]]

\* UnmarshalJSON keeps the first MaxEntries, one interval apart up to now,
\* and takes the interval of the file; none leave the ring as it is.
Unmarshal(r, saved) ==
  LET kept == SubSeq(saved.entries, 1, Least(MaxEntries, Len(saved.entries)))
      At(k) == clock - (Len(kept) - k) * saved.interval
  IN  IF kept = <<>> THEN r
      ELSE FoldLeft(LAMBDA acc, k : addWithTime(acc, At(k), kept[k]),
                    [r EXCEPT !.interval = saved.interval], [k \in 1..Len(kept) |-> k])

ValidateAndFixIntervals(rings) == [p \in DOMAIN Periods |-> [rings[p] EXCEPT !.interval = Interval(p)]]

(***************************************************************************)
(* The poller.                                                             *)
(***************************************************************************)
\* A torn file fails to parse and the rings start empty; an empty one is no
\* error.
LoadMetrics ==
  /\ poller = "down" /\ poller' = "up" /\ ticks' = 0
  /\ LET fresh == [p \in DOMAIN Periods |-> newEntries(p)] IN
     /\ ring' = IF ~Readable THEN fresh
                ELSE ValidateAndFixIntervals([p \in DOMAIN Periods |-> Unmarshal(fresh[p], file[p])])
     /\ taken' = [p \in DOMAIN Periods |->
                    IF ~Readable THEN <<>>
                    ELSE SubSeq(file[p].entries, 1, Least(MaxEntries, Len(file[p].entries)))]
  /\ UNCHANGED <<file, clock, boots>>

\* A poll that fails or runs into its timeout adds nothing.
pollWithTimeout(s) ==
  /\ poller = "up" /\ ticks < SaveTicks /\ clock < MetricsClock /\ clock' = clock + 1
  /\ ring' = [p \in DOMAIN Periods |-> AddEntry(ring[p], clock', s)]
  /\ taken' = [p \in DOMAIN Periods |->
                 IF Accepts(ring[p], clock') THEN Append(taken[p], s) ELSE taken[p]]
  /\ ticks' = ticks + 1 /\ UNCHANGED <<file, poller, boots>>

PollFails ==
  /\ poller = "up" /\ ticks < SaveTicks /\ clock < MetricsClock /\ clock' = clock + 1 /\ ticks' = ticks + 1
  /\ UNCHANGED <<ring, taken, file, poller, boots>>

\* save truncates the file before it encodes: after every SaveTicks polls,
\* before the next one, and once more when the task ends.
SaveBegin ==
  /\ poller = "up" /\ file' = Unreadable
  /\ poller' \in {"saving", "ending"} /\ (poller' = "saving" => ticks >= SaveTicks)
  /\ UNCHANGED <<ring, taken, ticks, clock, boots>>

SaveEnd ==
  /\ poller \in {"saving", "ending"} /\ poller' = (IF poller = "saving" THEN "up" ELSE "ended") /\ ticks' = 0
  /\ file' = [p \in DOMAIN Periods |-> [entries |-> Get(ring[p]), interval |-> ring[p].interval]]
  /\ UNCHANGED <<ring, taken, clock, boots>>

\* The process ends, regularly or by a crash, and is started again.
StopPoller ==
  /\ poller # "down" /\ boots < MaxMetricsRestarts
  /\ poller' = "down" /\ boots' = boots + 1
  /\ UNCHANGED <<ring, taken, file, ticks, clock>>

MetricsNext ==
  \/ LoadMetrics \/ PollFails \/ SaveBegin \/ SaveEnd \/ StopPoller
  \/ \E status \in {"unknown", "healthy", "idle", "unhealthy"}, has \in BOOLEAN :
       has = (status # "unknown")
         /\ pollWithTimeout([at |-> clock + 1, status |-> status, has |-> has])

MetricsSpec == MetricsInit /\ [][MetricsNext]_meVars

(***************************************************************************)
(* Aggregation.                                                            *)
(***************************************************************************)
\* systeminfo: the entries that have data for the mode, in order.
Aggregate(entries) ==
  FoldLeft(LAMBDA acc, s : IF s.has THEN Append(acc, s) ELSE acc, <<>>, entries)

\* uptime: counts over the entries whose health is known.
Count(entries, kinds) == Cardinality({k \in DOMAIN entries : entries[k].status \in kinds})
CalculateInfo(entries) ==
  [up |-> Count(entries, {"healthy"}), idle |-> Count(entries, {"idle"}),
   down |-> Count(entries, {"unhealthy"}), total |-> Count(entries, {"healthy", "idle", "unhealthy"})]

CalculateBeginEnd(n, limit, offset) ==
  LET most == IF limit = 0 THEN n ELSE limit
  IN  IF n = 0 \/ offset >= n THEN <<>>
      ELSE <<offset, IF offset + most > n THEN n ELSE offset + most>>

(***************************************************************************)
(* Properties.                                                             *)
(***************************************************************************)
\* A ring gives back the newest samples it took, oldest first: after a wrap
\* around, and after a save and a load as well.
NewestInOrder ==
  poller # "down" =>
    \A p \in DOMAIN Periods :
      LET n == Len(taken[p]) IN
      Get(ring[p]) = SubSeq(taken[p], Greatest(1, n - MaxEntries + 1), n)

\* While a poller runs its rings have the interval of their period, whatever
\* the file said, and samples taken in one run are at least that far apart.
IntervalsRight ==
  poller # "down" =>
    \A p \in DOMAIN Periods :
      /\ ring[p].interval = Interval(p)
      /\ \A k \in 1..(Len(taken[p]) - 1) :
           taken[p][k].at > 0 /\ boots = 0 => taken[p][k + 1].at - taken[p][k].at >= Interval(p)

\* A file that is complete holds what a ring held when it was saved: all of
\* its samples in order, however many saves, crashes and loads came before.
FileSound ==
  Readable =>
    \A p \in DOMAIN Periods : \A k \in 1..(Len(file[p].entries) - 1) :
      file[p].entries[k].at < file[p].entries[k + 1].at

\* What the API computes from a ring: times ascend, shares of the known
\* states add up, and a page lies within the list.
AggregatesRight ==
  \A p \in DOMAIN Periods :
    LET got == Get(ring[p])  info == CalculateInfo(got)  chart == Aggregate(got) IN
    /\ \A k \in 1..(Len(chart) - 1) : chart[k].at < chart[k + 1].at
    /\ info.up + info.down + info.idle = info.total
    /\ \A limit, offset \in 0..(MaxEntries + 1) :
         LET page == CalculateBeginEnd(Len(got), limit, offset) IN
         page # <<>> => 0 <= page[1] /\ page[1] < page[2] /\ page[2] <= Len(got)

\* The pollers as a whole.
MetricsSound == NewestInOrder /\ IntervalsRight /\ FileSound /\ AggregatesRight
=============================================================================
