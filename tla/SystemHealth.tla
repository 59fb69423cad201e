---------------------------- MODULE SystemHealth ----------------------------
(***************************************************************************)
(* The System Health tab of SettingsSection.tsx over useServiceHealth: the *)
(* score over the services, the poll every 30 seconds, the Refresh button  *)
(* and the count of seconds since the last check.                          *)
(*                                                                         *)
(* Time is counted in ticks, PollPeriod of them to a poll.  The tab starts *)
(* one timer for the count, and a second one, which it never stops, if it  *)
(* is opened while nothing is being fetched.                               *)
(***************************************************************************)
EXTENDS Naturals, FiniteSets

CONSTANTS
  Services,   \* names of the services
  PollPeriod, \* refetchInterval, in ticks
  MaxAge      \* bound on the ticks counted

ASSUME HealthAssumption ==
  /\ IsFiniteSet(Services)
  /\ PollPeriod \in Nat \ {0}
  /\ MaxAge \in Nat

VARIABLES
  services,    \* server: the status of each service
  shown,       \* the copy of the tab; no service before the first answer
  polling,     \* a request is under way
  sincePoll,   \* ticks since the last request ended
  lastChecked, \* lastChecked
  age,         \* ticks since the copy was fetched
  timers,      \* timers that count
  refreshing,  \* isRefreshing
  trusted      \* for the properties: since the tab was opened without a copy, no
               \* refresh has failed

healthVars == <<services, shown, polling, sincePoll, lastChecked, age, timers, refreshing, trusted>>

ServiceStatuses == {"operational", "degraded", "down"}

With(status) == Cardinality({s \in DOMAIN shown : shown[s] = status})

(* overallHealth: per cent, rounded half up.                               *)
Label ==
  IF DOMAIN shown = {} THEN "Unknown"
  ELSE IF With("down") > 0 THEN "Critical"
  ELSE IF With("degraded") > 0 THEN "Partial"
  ELSE "Healthy"
Score ==
  LET n == Cardinality(DOMAIN shown)
      halves == 2 * With("operational") + (IF Label = "Partial" THEN With("degraded") ELSE 0)
  IN  IF n = 0 THEN 0 ELSE (100 * halves + n) \div (2 * n)
Colour == IF Score >= 90 THEN "green" ELSE IF Score >= 70 THEN "amber" ELSE "red"

Capped(n) == IF n > MaxAge THEN MaxAge ELSE n
-----------------------------------------------------------------------------
ServiceTurns ==
  /\ \E s \in Services, status \in ServiceStatuses : services' = [services EXCEPT ![s] = status]
  /\ UNCHANGED <<shown, polling, sincePoll, lastChecked, age, timers, refreshing, trusted>>

(* A second passes; a poll is due some time after the last one ended.      *)
HealthTick ==
  /\ polling \/ sincePoll < PollPeriod
  /\ lastChecked' = Capped(lastChecked + timers)
  /\ age' = Capped(age + 1)
  /\ sincePoll' = IF polling THEN sincePoll ELSE sincePoll + 1
  /\ UNCHANGED <<services, shown, polling, timers, refreshing, trusted>>

Poll ==
  /\ ~polling
  /\ sincePoll = PollPeriod
  /\ polling' = TRUE
  /\ UNCHANGED <<services, shown, sincePoll, lastChecked, age, timers, refreshing, trusted>>

(* handleRefresh.                                                          *)
Refresh ==
  /\ ~refreshing
  /\ refreshing' = TRUE
  /\ polling' = TRUE
  /\ UNCHANGED <<services, shown, sincePoll, lastChecked, age, timers, trusted>>

\* Bug: any poll that ends counts as a check.
HealthAnsweredAnyhow ==
  /\ polling
  /\ polling' = FALSE
  /\ sincePoll' = 0
  /\ \/ /\ shown' = services
        /\ age' = 0
        /\ UNCHANGED trusted
     \/ /\ trusted' = (trusted /\ ~refreshing)
        /\ UNCHANGED <<shown, age>>
  /\ refreshing' = FALSE
  /\ lastChecked' = 0
  /\ UNCHANGED <<services, timers>>

(* An answer, or a failure: refetch reports neither, so that a refresh     *)
(* says it was done in both cases.                                         *)
HealthAnswered ==
  /\ polling
  /\ polling' = FALSE
  /\ sincePoll' = 0
  /\ \/ /\ shown' = services
        /\ age' = 0
        /\ UNCHANGED trusted
     \/ /\ trusted' = (trusted /\ ~refreshing)
        /\ UNCHANGED <<shown, age>>
  /\ refreshing' = FALSE
  /\ lastChecked' = IF refreshing THEN 0 ELSE lastChecked
  /\ UNCHANGED <<services, timers>>

(* The tab is opened: over no copy, or one that is cached and possibly new *)
(* enough not to be fetched again.                                         *)
OpenHealth ==
  /\ lastChecked' = 0
  /\ refreshing' = FALSE
  /\ \/ DOMAIN shown = {} /\ polling' = TRUE
     \/ DOMAIN shown # {} /\ polling' \in {polling, TRUE}
  /\ timers' = IF polling' THEN 1 ELSE 2
  /\ trusted' = (DOMAIN shown = {} \/ age = 0)
  /\ sincePoll' = 0
  /\ UNCHANGED <<services, shown, age>>
-----------------------------------------------------------------------------
HealthInit ==
  /\ services = [s \in Services |-> "operational"]
  /\ shown = << >>
  /\ polling = TRUE
  /\ sincePoll = 0
  /\ lastChecked = 0
  /\ age = 0
  /\ timers = 1
  /\ refreshing = FALSE
  /\ trusted = TRUE

HealthNext ==
  \/ ServiceTurns
  \/ HealthTick
  \/ Poll
  \/ Refresh
  \/ HealthAnswered
  \/ OpenHealth

HealthSpec == HealthInit /\ [][HealthNext]_healthVars
-----------------------------------------------------------------------------
(* Properties                                                              *)

HealthTypeOK ==
  /\ services \in [Services -> ServiceStatuses]
  /\ {lastChecked, age} \subseteq 0..MaxAge
  /\ sincePoll \in 0..PollPeriod
  /\ timers \in 1..2
  /\ {polling, refreshing, trusted} \subseteq BOOLEAN

(* The ring is green and full only if every service is up: rounding never  *)
(* hides one that is not, and green never means one is down.               *)
ScoreHonest ==
  /\ Score = 100 <=> Label = "Healthy"
  /\ Colour = "green" => With("down") = 0
  /\ Score \in 0..100

(* "Last checked" never claims the copy newer than it is, except after a   *)
(* refresh that failed and over a cached copy.                             *)
NeverTooFresh == (trusted /\ DOMAIN shown # {}) => lastChecked >= age

(* The ring tells the health of the services, and the line under it how    *)
(* old that is.                                                            *)
HealthAsTold == ScoreHonest /\ NeverTooFresh
=============================================================================
