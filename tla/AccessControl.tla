--------------------------- MODULE AccessControl ---------------------------
(***************************************************************************)
(* The ACL of the listeners (internal/acl) and the country database its    *)
(* country rules look in (internal/maxmind): concurrent checks of          *)
(* addresses with their cache, the goroutine that counts and summarises    *)
(* them, the download and exchange of the database, and a crash in it.     *)
(*                                                                         *)
(* A database version is a number, the time it was modified; Geo says      *)
(* which country each version gives an address. A matcher is an address    *)
(* (an ip or a cidr rule) or a country (a country or a timezone rule).     *)
(***************************************************************************)
EXTENDS Integers, Sequences, FiniteSets

CONSTANTS AclConfigs,       \* records [fallback, local, deny, allow, notify]
          AclIPs, Loopback, Private, Geo, NoCity,
          Checkers,         \* concurrent accepts, reads and writes
          CacheTTL, AclBuffer,
          MaxVersion, MaxChecks, AclClock, MaxFaults     \* bounds

\* No address is taken for the absence of a country.
ASSUME AclAssumption ==
  /\ IsFiniteSet(Checkers) /\ NoCity \notin AclIPs /\ Loopback \in AclIPs
  /\ \A c \in AclConfigs : c.fallback \in BOOLEAN
  /\ {CacheTTL, AclBuffer, MaxVersion, MaxChecks, AclClock, MaxFaults} \subseteq Nat

VARIABLES acl,        \* the configuration
          check,      \* [checker -> [pc, op, ip, city, allowed]]
          ipCache,    \* [address -> decision, with the time it was stored]
          cityCache,  \* [address -> country, or NoCity when absent]
          queue,      \* logNotifyCh
          counts,     \* by address [refused, blocked, sent: in summaries], and [total, verdicts]
          alive,      \* the task of the configuration is not cancelled
          mm,         \* the updater: [pc, scheduled, got, last, reader, open]
          disk,       \* [file, stamp, tmp]: versions, 0 none, -1 not a database
          remote, now, faults

aclVars == <<acl, check, ipCache, cityCache, queue, counts, alive, mm, disk, remote, now, faults>>

IdleCheck == [pc |-> "idle", op |-> "none", ip |-> Loopback, city |-> NoCity, allowed |-> FALSE]
NotCached == [found |-> FALSE, allow |-> FALSE, at |-> 0]
Cleared == [i \in AclIPs |-> 0]
NoCounts == [refused |-> Cleared, blocked |-> Cleared, sent |-> Cleared, total |-> 0, verdicts |-> 0]
Starting == [pc |-> "load", scheduled |-> FALSE, got |-> 0, last |-> 0, reader |-> 0, open |-> FALSE]

\* Validate refuses a configuration nobody could pass.
Validate(c) == c.local \/ c.fallback \/ c.allow # <<>>

AclInit ==
  /\ acl \in {c \in AclConfigs : Validate(c)}
  /\ disk \in {[file |-> v, stamp |-> v, tmp |-> 0] : v \in {-1, 1}}
  /\ check = [c \in Checkers |-> IdleCheck]
  /\ ipCache = [i \in AclIPs |-> NotCached] /\ cityCache = [i \in AclIPs |-> NoCity]
  /\ queue = <<>> /\ counts = NoCounts /\ alive = TRUE /\ mm = Starting
  /\ remote = 1 /\ now = 0 /\ faults = 0

dbVars == <<alive, mm, disk, remote, faults>>
checkVars == <<check, ipCache, cityCache, queue, counts>>
Fault == faults < MaxFaults /\ faults' = faults + 1

\* The process dies (a crash, or a panic of a goroutine) and starts again.
Died ==
  /\ check' = [c \in Checkers |-> IdleCheck]
  /\ ipCache' = [i \in AclIPs |-> NotCached] /\ cityCache' = [i \in AclIPs |-> NoCity]
  /\ queue' = <<>> /\ counts' = NoCounts /\ alive' = TRUE /\ mm' = Starting
  /\ UNCHANGED <<acl, disk, remote, now>>

(***************************************************************************)
(* IPAllowed, called by Accept, ReadFrom and WriteTo of the listeners.     *)
(***************************************************************************)
Match(list, ip, city) == \E k \in DOMAIN list : list[k] = ip \/ (city # NoCity /\ list[k] = city)

\* A country matcher comes before any that matches the address itself.
AsksCity(list, ip) ==
  \E k \in DOMAIN list : list[k] \notin AclIPs /\ \A j \in 1..(k - 1) : list[j] # ip

Verdict(ip, city) ==
  IF Match(acl.deny, ip, city) THEN FALSE ELSE Match(acl.allow, ip, city) \/ acl.fallback

\* Accept closes a refused connection and ReadFrom drops a refused packet.
\* WriteTo has written the packet before it asks, and when the answer is no
\* writes it again and asks again.
Told(r) == IF r.op = "write" /\ ~r.allowed THEN [r EXCEPT !.pc = "again"] ELSE IdleCheck

Expired(ip) == now > ipCache[ip].at + CacheTTL

\* How many refusals there were, in all and of each address (history).
Refused(ip) == [counts EXCEPT !.verdicts = @ + 1, !.refused[ip] = @ + 1]

\* The exits of IPAllowed that need no rule: loopback is not even logged.
IPAllowed(c, op, ip) ==
  /\ check[c].pc = "idle" /\ counts.verdicts < MaxChecks
  /\ LET asked == [IdleCheck EXCEPT !.op = op, !.ip = ip]
         hit == ipCache[ip].found /\ ~Expired(ip)
         entered(pc, ok) ==
           /\ check' = [check EXCEPT ![c] = [asked EXCEPT !.pc = pc, !.allowed = ok]]
           /\ counts' = IF ok \/ pc = "rules" THEN counts ELSE Refused(ip)
     IN  \/ ip = Loopback /\ UNCHANGED <<check, counts>>
         \/ ip \in Private /\ acl.local /\ entered("log", TRUE)
         \/ ip # Loopback /\ ~(ip \in Private /\ acl.local) /\ hit /\ entered("log", ipCache[ip].allow)
         \/ ip # Loopback /\ ~(ip \in Private /\ acl.local) /\ ~hit /\ entered("rules", FALSE)
  /\ UNCHANGED <<acl, ipCache, cityCache, queue, now>> /\ UNCHANGED dbVars

\* lookupCity: a reader is looked for before the lock is taken. There is no
\* instance to ask before the database is loaded.
NoReader == mm.reader = 0 \/ (~mm.scheduled /\ mm.pc # "unscheduled")
LookupCity(c) ==
  LET ip == check[c].ip IN
  /\ check[c].pc = "rules" /\ (AsksCity(acl.deny, ip) \/ AsksCity(acl.allow, ip))
  /\ \/ /\ NoReader
        /\ check' = [check EXCEPT ![c].pc = "match"]
     \/ /\ ~NoReader /\ cityCache[ip] # NoCity
        /\ check' = [check EXCEPT ![c].pc = "match", ![c].city = cityCache[ip]]
     \/ /\ ~NoReader /\ cityCache[ip] = NoCity
        /\ check' = [check EXCEPT ![c].pc = "rlock"]
  /\ UNCHANGED <<acl, ipCache, cityCache, queue, counts, now>> /\ UNCHANGED dbVars

\* download holds the lock while it exchanges the readers.
Locked == mm.pc \in {"closed", "reopened"}
RLock(c) ==
  /\ check[c].pc = "rlock" /\ ~Locked
  /\ check' = [check EXCEPT ![c].pc = "lookup"]
  /\ UNCHANGED <<acl, ipCache, cityCache, queue, counts, now>> /\ UNCHANGED dbVars

DbLookup(c) ==
  /\ check[c].pc = "lookup"
  /\ \/ /\ mm.reader # 0
        /\ LET city == IF mm.open THEN Geo[mm.reader][check[c].ip] ELSE NoCity IN
           /\ check' = [check EXCEPT ![c].pc = "match", ![c].city = city]
           /\ cityCache' = IF mm.open THEN [cityCache EXCEPT ![check[c].ip] = city] ELSE cityCache
        /\ UNCHANGED <<acl, ipCache, queue, counts, now>> /\ UNCHANGED dbVars
     \/ mm.reader = 0 /\ UNCHANGED faults /\ Died       \* a nil reader

MatchRules(c) ==
  LET ip == check[c].ip IN
  /\ \/ check[c].pc = "match"
     \/ check[c].pc = "rules" /\ ~AsksCity(acl.deny, ip) /\ ~AsksCity(acl.allow, ip)
  /\ LET ok == Verdict(ip, check[c].city) IN
     /\ check' = [check EXCEPT ![c].allowed = ok, ![c].pc = "logrule"]
     /\ counts' = IF ok THEN counts ELSE Refused(ip)
  /\ UNCHANGED <<acl, ipCache, cityCache, queue, now>> /\ UNCHANGED dbVars

\* logAndNotify waits for room in the channel, also once nobody reads it.
LogAndNotify(c) ==
  /\ check[c].pc \in {"log", "logrule"}
  /\ ~acl.notify \/ Len(queue) < AclBuffer
  /\ queue' = IF acl.notify THEN Append(queue, [ip |-> check[c].ip, allowed |-> check[c].allowed]) ELSE queue
  /\ check' = [check EXCEPT ![c] = IF @.pc = "log" THEN Told(@) ELSE [@ EXCEPT !.pc = "record"]]
  /\ UNCHANGED <<acl, ipCache, cityCache, counts, now>> /\ UNCHANGED dbVars

CacheRecord(c) ==
  /\ check[c].pc = "record"
  /\ ipCache' = [ipCache EXCEPT ![check[c].ip] = [found |-> TRUE, allow |-> check[c].allowed, at |-> now]]
  /\ check' = [check EXCEPT ![c] = Told(@)]
  /\ UNCHANGED <<acl, cityCache, queue, counts, now>> /\ UNCHANGED dbVars

WriteAgain(c) ==
  LET hit == ipCache[check[c].ip] IN
  /\ check[c].pc = "again" /\ counts.verdicts < MaxChecks
  /\ check' = [check EXCEPT ![c].pc = IF Expired(check[c].ip) THEN "rules" ELSE "log",
                            ![c].allowed = hit.allow, ![c].city = NoCity]
  /\ counts' = IF hit.allow \/ Expired(check[c].ip) THEN counts ELSE Refused(check[c].ip)
  /\ UNCHANGED <<acl, ipCache, cityCache, queue, now>> /\ UNCHANGED dbVars

(***************************************************************************)
(* logNotifyLoop. The totals of a summary are never set back.              *)
(***************************************************************************)
CountOne ==
  /\ alive /\ queue # <<>> /\ queue' = Tail(queue)
  /\ counts' = IF Head(queue).allowed THEN counts
               ELSE [counts EXCEPT !.blocked[Head(queue).ip] = @ + 1, !.total = @ + 1]
  /\ UNCHANGED <<acl, check, ipCache, cityCache, now>> /\ UNCHANGED dbVars

Summarise ==
  /\ alive /\ \E i \in AclIPs : counts.blocked[i] > 0
  /\ counts' = [counts EXCEPT !.sent = [i \in AclIPs |-> @[i] + counts.blocked[i]], !.blocked = Cleared]
  /\ UNCHANGED <<acl, check, ipCache, cityCache, queue, now>> /\ UNCHANGED dbVars

(***************************************************************************)
(* The database: LoadMaxMindDB and the update goroutine.                   *)
(***************************************************************************)
dbStep == UNCHANGED <<acl, now>> /\ UNCHANGED checkVars
Step(pc) == mm' = [mm EXCEPT !.pc = pc]

\* A good file is opened and its updates are scheduled; without one it is
\* downloaded, and then no update is scheduled.
LoadMaxMindDB ==
  /\ mm.pc = "load" /\ alive
  /\ mm' = IF disk.file > 0
           THEN [mm EXCEPT !.pc = "update", !.scheduled = TRUE, !.reader = disk.file, !.open = TRUE, !.last = disk.stamp]
           ELSE [mm EXCEPT !.pc = "get"]
  /\ UNCHANGED <<alive, disk, remote, faults>> /\ dbStep

Failed == IF mm.scheduled THEN "idle" ELSE "failed"
UpdateDone == IF mm.scheduled THEN "idle" ELSE "unscheduled"

\* The answer of checkLastest: a failure, the time of the last update or a
\* later one; without the header update dereferences a nil time.
CheckLatest ==
  /\ mm.pc = "update" /\ UNCHANGED <<alive, disk, remote>>
  /\ \/ Fault /\ Step("idle") /\ dbStep
     \/ remote = mm.last /\ Step("idle") /\ UNCHANGED faults /\ dbStep
     \/ remote # mm.last /\ Step("get") /\ UNCHANGED faults /\ dbStep

CheckWithoutHeader == mm.pc = "update" /\ Fault /\ Died

Download ==
  /\ mm.pc = "get" /\ UNCHANGED <<alive, remote>>
  /\ \/ /\ Fault /\ \/ Step(Failed) /\ UNCHANGED disk       \* the request fails
                    \/ /\ disk' = [disk EXCEPT !.tmp = -1]       \* extracted in part
                       /\ Step(Failed)
     \/ /\ disk' = [disk EXCEPT !.tmp = remote] /\ UNCHANGED faults
        /\ mm' = [mm EXCEPT !.pc = "test", !.got = remote]
  /\ dbStep

\* The file just extracted is opened before it replaces the old one.
TestAndRename ==
  /\ mm.pc = "test" /\ UNCHANGED <<alive, remote>>
  /\ \/ /\ Fault /\ disk' = [disk EXCEPT !.tmp = 0]
        /\ Step(Failed)
     \/ /\ disk' = [file |-> disk.tmp, stamp |-> 0, tmp |-> 0] /\ UNCHANGED faults
        /\ Step("lock")
  /\ dbStep

(* Mutant: the reader is closed under lookups.                             *)
NoLookupsMutant == TRUE

NoLookups == \A c \in Checkers : check[c].pc # "lookup"

CloseReader ==
  /\ mm.pc = "lock" /\ NoLookups
  /\ mm' = [mm EXCEPT !.pc = "closed", !.open = FALSE]
  /\ UNCHANGED <<alive, disk, remote, faults>> /\ dbStep

Reopen ==
  /\ mm.pc = "closed" /\ UNCHANGED <<alive, disk, remote>>
  /\ \/ Fault /\ mm' = [mm EXCEPT !.pc = Failed, !.reader = 0]
     \/ mm' = [mm EXCEPT !.pc = "reopened", !.reader = disk.file, !.open = TRUE] /\ UNCHANGED faults
  /\ dbStep

\* setLastUpdate, under the lock still, unless GET told no time.
SetLastUpdate ==
  /\ mm.pc = "reopened" /\ UNCHANGED <<alive, remote>>
  /\ \/ Fault /\ Step(UpdateDone) /\ UNCHANGED disk
     \/ /\ mm' = [mm EXCEPT !.pc = UpdateDone, !.last = mm.got] /\ UNCHANGED faults
        /\ disk' = [disk EXCEPT !.stamp = mm.got]
  /\ dbStep

Tick ==
  /\ mm.pc = "idle" /\ alive /\ Step("update")
  /\ UNCHANGED <<alive, disk, remote, faults>> /\ dbStep

\* The parent task is cancelled; the goroutine ends and closes the reader
\* without the lock.
CancelAcl ==
  /\ alive /\ alive' = FALSE
  /\ UNCHANGED <<mm, disk, remote, faults>> /\ dbStep

ScheduleEnds ==
  /\ ~alive /\ mm.pc = "idle" /\ mm' = [mm EXCEPT !.pc = "ended", !.open = FALSE]
  /\ UNCHANGED <<alive, disk, remote, faults>> /\ dbStep

Publish ==
  /\ remote < MaxVersion /\ remote' = remote + 1
  /\ UNCHANGED <<alive, mm, disk, faults>> /\ dbStep

AclCrash == Fault /\ Died
TimePasses == now < AclClock /\ now' = now + 1 /\ UNCHANGED <<acl, alive, mm, disk, remote, faults>> /\ UNCHANGED checkVars

AclNext ==
  \/ \E c \in Checkers :
       \/ \E ip \in AclIPs, op \in {"accept", "write"} : IPAllowed(c, op, ip)
       \/ LookupCity(c) \/ RLock(c) \/ DbLookup(c) \/ MatchRules(c)
       \/ LogAndNotify(c) \/ CacheRecord(c) \/ WriteAgain(c)
  \/ CountOne \/ Summarise
  \/ LoadMaxMindDB \/ CheckLatest \/ CheckWithoutHeader \/ Download \/ TestAndRename
  \/ CloseReader \/ Reopen \/ SetLastUpdate \/ Tick \/ CancelAcl \/ ScheduleEnds
  \/ Publish \/ AclCrash \/ TimePasses

AclSpec == AclInit /\ [][AclNext]_aclVars

(***************************************************************************)
(* Properties.                                                             *)
(***************************************************************************)
\* An address that a deny rule names is refused whatever the allow rules
\* say and whoever asked before; one that nothing denies is not refused
\* when an allow rule names it.
DenyWins ==
  \A c \in Checkers :
    check[c].pc \in {"log", "logrule", "record"}
      /\ ~(check[c].ip \in Private /\ acl.local)
      => \E city \in {NoCity} \cup {Geo[v][check[c].ip] : v \in 1..remote} :
           check[c].allowed = /\ \A k \in DOMAIN acl.deny : acl.deny[k] \notin {check[c].ip, city} \ {NoCity}
                              /\ \/ acl.fallback
                                 \/ \E k \in DOMAIN acl.allow : acl.allow[k] \in {check[c].ip, city} \ {NoCity}

\* Every refusal is in exactly one summary, is counted for the next one, or
\* is on its way to the loop: of each address, and in the totals.
OnTheWay(ips) ==
  Cardinality({k \in DOMAIN queue : queue[k].ip \in ips /\ ~queue[k].allowed})
    + Cardinality({c \in Checkers : check[c].pc \in {"log", "logrule"} /\ check[c].ip \in ips /\ ~check[c].allowed})
RefusalsCounted ==
  acl.notify =>
    /\ \A i \in AclIPs : counts.refused[i] = counts.sent[i] + counts.blocked[i] + OnTheWay({i})
    /\ counts.verdicts = counts.total + OnTheWay(AclIPs)

\* No check reads a database that the updater has closed, until the task
\* that owns it ends.
LookupsOnOpen ==
  \A c \in Checkers : check[c].pc = "lookup" /\ mm.pc # "ended" /\ mm.reader # 0 => mm.open

\* The database in use is never replaced by a broken one, however the
\* download ends, and no version is taken for newer than it is: what counts
\* as the last update is in the file.
DatabaseSound ==
  /\ disk.stamp > 0 => disk.file = disk.stamp
  /\ mm.reader # 0 => disk.file > 0
  /\ mm.last > 0 => disk.file >= mm.last
  /\ mm.last > 0 /\ mm.reader # 0 => mm.reader >= mm.last

\* The ACL and its database as a whole.
AclSound == DenyWins /\ RefusalsCounted /\ LookupsOnOpen /\ DatabaseSound
=============================================================================
