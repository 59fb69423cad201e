----------------------------- MODULE AlertsTab -----------------------------
(***************************************************************************)
(* The Alerts tab of TransactionMonitoringSection.tsx with the two hooks   *)
(* it uses, useAlerts and useUpdateAlert of useApi.ts.                     *)
(*                                                                         *)
(* The list on screen is one page of what the server answered for the      *)
(* current query key, <<page, status filter>>.  A new key starts with no   *)
(* rows, or with those the cache holds of it.  Other officers change       *)
(* alerts behind the console's back, which is all it takes for any row to  *)
(* be out of date.                                                         *)
(*                                                                         *)
(* A batch is a loop of awaited updates.  One useMutation serves the loop  *)
(* and the buttons of the cards, and its isPending speaks for the latest   *)
(* call alone.  The server is the one the hooks assume: it applies an      *)
(* action or refuses it.  The severity filter works like the status        *)
(* filter and is left out, as is what an assignment stores.  Of the toasts *)
(* only that of a batch is kept, until the next step.                      *)
(***************************************************************************)
EXTENDS Listing

CONSTANTS
  Alerts,         \* the alerts, numbered in the order the server lists them
  AlertScore,     \* risk score of each alert, in percent
  AlertPageSize,  \* limit of the query
  BatchActions,   \* what the batch bar offers
  MaxBatches      \* bound on batches running at once

ASSUME AlertsAssumption ==
  /\ Alerts \subseteq Nat
  /\ IsFiniteSet(Alerts)
  /\ AlertScore \in [Alerts -> 0..100]
  /\ AlertPageSize \in Nat \ {0}
  /\ BatchActions \subseteq {"escalate", "close"}
  /\ MaxBatches \in Nat

VARIABLES
  alertStatus,    \* server: the status of each alert
  alertView,      \* page, status filter, rows on screen, pagination.total, fetch
  alertPicked,    \* selectedAlerts
  alertCard,      \* the update a card's button has sent
  alertBatch,     \* the batches running
  alertTracked,   \* whose call isPending speaks for: a batch, Card or Nobody
  alertTold,      \* the toast of a batch that has just ended
  alertBehind     \* since the last answer an officer elsewhere wrote, or a fetch failed

alertVars == <<alertStatus, alertView, alertPicked, alertCard, alertBatch,
               alertTracked, alertTold, alertBehind>>
alertCalls == <<alertCard, alertBatch, alertTracked>>

AlertStatuses == {"open", "investigating", "escalated", "closed", "reported"}
AlertFilters == {"any", "open"}
Batches == 1..MaxBatches
Nobody == 0
Card == MaxBatches + 1
NoCall == [id |-> 0, action |-> "none"]
NoBatch == [action |-> "none", now |-> 0, todo |-> {}, picked |-> {},
            applied |-> {}, refused |-> {}, count |-> 0, mounted |-> TRUE]
Silence == [ended |-> FALSE, count |-> 0, applied |-> {}, refused |-> {}, picked |-> {}]

(* What the server makes of an action.                                     *)
AlertAfter(action) ==
  [investigate |-> "investigating", escalate |-> "escalated",
   close |-> "closed", report |-> "reported"][action]

AlertsListed(filter) ==
  Ascending({a \in Alerts : filter = "any" \/ alertStatus[a] = filter})

(* What the server answers for a key: a page with the statuses of now.     *)
AlertsAnswer(page, filter) ==
  LET rows == PageOf(AlertsListed(filter), page, AlertPageSize)
  IN  [a \in {rows[i] : i \in DOMAIN rows} |-> alertStatus[a]]

AlertsShown == DOMAIN alertView.rows

(* The buttons of an expanded card, by the status the card shows.          *)
CardActions(status) ==
  CASE status = "open"          -> {"investigate"}
    [] status = "investigating" -> {"escalate", "close"}
    [] status = "escalated"     -> {"report"}
    [] OTHER                    -> {}

(* alertStats, over the alerts on screen.                                  *)
AlertStats ==
  [total     |-> Cardinality(AlertsShown),
   open      |-> Cardinality({a \in AlertsShown : alertView.rows[a] = "open"}),
   escalated |-> Cardinality({a \in AlertsShown : alertView.rows[a] = "escalated"}),
   closed    |-> Cardinality({a \in AlertsShown : alertView.rows[a] = "closed"})]

(* The histogram over the list.                                            *)
AlertBands ==
  << [min |-> 0,  max |-> 20], [min |-> 20, max |-> 40], [min |-> 40, max |-> 60],
     [min |-> 60, max |-> 80], [min |-> 80, max |-> 101] >>
AlertHistogram == Histogram(AlertsShown, AlertScore, AlertBands)

(* The Next button is disabled on the last page and beyond it.             *)
AlertsHasNext == alertView.page < Pages(alertView.total, AlertPageSize)

AlertQuiet == alertTold' = Silence
-----------------------------------------------------------------------------
(* useAlerts                                                               *)

(* The key changes.  Its entry may be in the cache from an earlier visit;  *)
(* otherwise there is no data yet.                                         *)
AlertsShow(page, filter) ==
  /\ \E rows \in {<< >>, AlertsAnswer(page, filter)} :
       alertView' = [page |-> page, filter |-> filter, rows |-> rows, fetch |-> "asked",
                     total |-> IF rows = << >> THEN 0 ELSE Len(AlertsListed(filter))]
  /\ AlertQuiet
  /\ UNCHANGED <<alertStatus, alertPicked, alertCalls, alertBehind>>

(* The server answers the fetch.                                           *)
AlertsAnswered ==
  /\ alertView.fetch = "asked"
  /\ alertView' = [alertView EXCEPT !.rows = AlertsAnswer(alertView.page, alertView.filter),
                                    !.total = Len(AlertsListed(alertView.filter)),
                                    !.fetch = "done"]
  /\ alertBehind' = FALSE
  /\ AlertQuiet
  /\ UNCHANGED <<alertStatus, alertPicked, alertCalls>>

(* The fetch and its retry fail: what there was stays on screen.           *)
AlertsFetchFailed ==
  /\ alertView.fetch = "asked"
  /\ alertView' = [alertView EXCEPT !.fetch = "done"]
  /\ alertBehind' = TRUE
  /\ AlertQuiet
  /\ UNCHANGED <<alertStatus, alertPicked, alertCalls>>

\* Bug: the alerts are not invalidated.
AlertAppliedUnheard(a, action) ==
  /\ alertStatus' = [alertStatus EXCEPT ![a] = AlertAfter(action)]
  /\ UNCHANGED alertView

(* An update succeeded: useUpdateAlert invalidates the alerts.             *)
AlertApplied(a, action) ==
  /\ alertStatus' = [alertStatus EXCEPT ![a] = AlertAfter(action)]
  /\ alertView' = [alertView EXCEPT !.fetch = "asked"]

(* An officer at another console closes an alert.                          *)
AlertElsewhere ==
  /\ \E a \in Alerts :
       /\ alertStatus[a] \in {"open", "investigating"}
       /\ alertStatus' = [alertStatus EXCEPT ![a] = AlertAfter("close")]
  /\ alertBehind' = TRUE
  /\ AlertQuiet
  /\ UNCHANGED <<alertView, alertPicked, alertCalls>>
-----------------------------------------------------------------------------
(* The list                                                                *)

(* The status filter is set.  The page stays where it was.                 *)
FilterAlerts == \E filter \in AlertFilters : AlertsShow(alertView.page, filter)

TurnAlertPage ==
  \/ alertView.page > 1 /\ AlertsShow(alertView.page - 1, alertView.filter)
  \/ AlertsHasNext /\ AlertsShow(alertView.page + 1, alertView.filter)

(* Another tab or section is chosen, and this one again.  The selection is *)
(* gone; updates and batches go on, and belong to a component no longer    *)
(* mounted.                                                                *)
LeaveAlerts ==
  /\ \E rows \in {<< >>, AlertsAnswer(1, "any")} :
       alertView' = [page |-> 1, filter |-> "any", rows |-> rows, fetch |-> "asked",
                     total |-> IF rows = << >> THEN 0 ELSE Len(AlertsListed("any"))]
  /\ alertPicked' = {}
  /\ alertBatch' = [b \in Batches |-> IF alertBatch[b] = NoBatch THEN NoBatch
                                      ELSE [alertBatch[b] EXCEPT !.mounted = FALSE]]
  /\ alertTracked' = Nobody
  /\ AlertQuiet
  /\ UNCHANGED <<alertStatus, alertCard, alertBehind>>

(* toggleAlertSelection, toggleAllAlerts and the batch bar's Clear.        *)
PickAlerts ==
  /\ \/ \E a \in AlertsShown : alertPicked' = Toggled(alertPicked, a)
     \/ AlertsShown # {} /\ alertPicked' = ToggledAll(alertPicked, AlertsShown)
     \/ alertPicked # {} /\ alertPicked' = {}
  /\ AlertQuiet
  /\ UNCHANGED <<alertStatus, alertView, alertCalls, alertBehind>>

-----------------------------------------------------------------------------
(* handleAction: a card is expanded and one of its buttons clicked.  The   *)
(* buttons are not disabled while anything is pending.                     *)
HandleAction ==
  /\ alertCard = NoCall
  /\ \E a \in AlertsShown : \E action \in CardActions(alertView.rows[a]) :
       alertCard' = [id |-> a, action |-> action]
  /\ alertTracked' = Card
  /\ AlertQuiet
  /\ UNCHANGED <<alertStatus, alertView, alertPicked, alertBatch, alertBehind>>

ActionSettled ==
  /\ alertCard # NoCall
  /\ \/ AlertApplied(alertCard.id, alertCard.action) /\ AlertQuiet
     \/ AlertQuiet /\ UNCHANGED <<alertStatus, alertView>>
  /\ alertCard' = NoCall
  /\ alertTracked' = IF alertTracked = Card THEN Nobody ELSE alertTracked
  /\ UNCHANGED <<alertPicked, alertBatch, alertBehind>>
-----------------------------------------------------------------------------
(* handleBatchEscalate and handleBatchClose                                *)

(* The loop runs over the selection of the moment the button was clicked.  *)
StartBatch(b) ==
  /\ alertBatch[b] = NoBatch
  /\ alertPicked # {}
  /\ alertTracked = Nobody
  /\ \E action \in BatchActions, a \in alertPicked :
       alertBatch' = [alertBatch EXCEPT ![b] =
         [NoBatch EXCEPT !.action = action, !.now = a, !.picked = alertPicked,
                         !.todo = alertPicked \ {a}]]
  /\ alertTracked' = b
  /\ AlertQuiet
  /\ UNCHANGED <<alertStatus, alertView, alertPicked, alertCard, alertBehind>>

\* Bug: what was refused is counted.
CountedAnyway(batch, accepted) ==
  [batch EXCEPT !.count = @ + 1,
                !.applied = IF accepted THEN @ \union {batch.now} ELSE @,
                !.refused = IF accepted THEN @ ELSE @ \union {batch.now}]

(* The batch once the update it awaited has settled.  A refusal is         *)
(* swallowed by the catch of the loop.                                     *)
Counted(batch, accepted) ==
  IF accepted THEN [batch EXCEPT !.count = @ + 1, !.applied = @ \union {batch.now}]
  ELSE [batch EXCEPT !.refused = @ \union {batch.now}]

(* The next round of the loop, or its end: the toast and setSelectedAlerts *)
(* of an empty set, whatever is selected by then.  An unmounted component  *)
(* has no selection to clear and no isPending.                             *)
BatchContinues(b, batch) ==
  \/ /\ \E a \in batch.todo :
          alertBatch' = [alertBatch EXCEPT ![b] = [batch EXCEPT !.now = a, !.todo = @ \ {a}]]
     /\ alertTracked' = IF batch.mounted THEN b ELSE alertTracked
     /\ AlertQuiet
     /\ UNCHANGED alertPicked
  \/ /\ batch.todo = {}
     /\ alertBatch' = [alertBatch EXCEPT ![b] = NoBatch]
     /\ alertTold' = [ended |-> TRUE, count |-> batch.count, applied |-> batch.applied,
                      refused |-> batch.refused, picked |-> batch.picked]
     /\ alertPicked' = IF batch.mounted THEN {} ELSE alertPicked
     /\ alertTracked' = IF alertTracked = b THEN Nobody ELSE alertTracked

BatchSettled(b) ==
  /\ alertBatch[b] # NoBatch
  /\ \/ /\ AlertApplied(alertBatch[b].now, alertBatch[b].action)
        /\ BatchContinues(b, Counted(alertBatch[b], TRUE))
     \/ /\ BatchContinues(b, Counted(alertBatch[b], FALSE))
        /\ UNCHANGED <<alertStatus, alertView>>
  /\ UNCHANGED <<alertCard, alertBehind>>
-----------------------------------------------------------------------------
AlertsInit ==
  /\ alertStatus = [a \in Alerts |-> "open"]
  /\ alertView = [page |-> 1, filter |-> "any", rows |-> << >>, total |-> 0, fetch |-> "asked"]
  /\ alertPicked = {}
  /\ alertCard = NoCall
  /\ alertBatch = [b \in Batches |-> NoBatch]
  /\ alertTracked = Nobody
  /\ alertTold = Silence
  /\ alertBehind = FALSE

AlertsNext ==
  \/ AlertsAnswered
  \/ AlertsFetchFailed
  \/ AlertElsewhere
  \/ FilterAlerts
  \/ TurnAlertPage
  \/ LeaveAlerts
  \/ PickAlerts
  \/ HandleAction
  \/ ActionSettled
  \/ \E b \in Batches : StartBatch(b) \/ BatchSettled(b)

AlertsSpec == AlertsInit /\ [][AlertsNext]_alertVars
-----------------------------------------------------------------------------
(* Properties                                                              *)

AlertsTypeOK ==
  /\ alertStatus \in [Alerts -> AlertStatuses]
  /\ alertView.fetch \in {"asked", "done"}
  /\ alertView.page \in Nat \ {0}
  /\ AlertsShown \subseteq Alerts
  /\ alertPicked \subseteq Alerts
  /\ alertTracked \in 0..Card

(* The list is the server's page for the current filter once nothing is    *)
(* being fetched, unless an officer elsewhere has written since: every     *)
(* update this console makes, one by one or in a batch, refetches it.      *)
AlertsFresh ==
  (alertView.fetch = "done" /\ ~alertBehind)
     => alertView.rows = AlertsAnswer(alertView.page, alertView.filter)

(* When a batch reports "Escalated n alerts", n is the number the server   *)
(* accepted, and every alert picked when it was started has been sent and  *)
(* either accepted or refused, whatever was clicked on the way.            *)
BatchToldTrue ==
  alertTold.ended =>
    /\ alertTold.count = Cardinality(alertTold.applied)
    /\ alertTold.applied \union alertTold.refused = alertTold.picked
    /\ alertTold.applied \cap alertTold.refused = {}

(* The histogram over the list counts every alert on screen once, scores   *)
(* on the border of a band and of 100 percent included.                    *)
AlertsAllCounted == Total(AlertHistogram) = AlertStats.total

(* Without a filter the buttons under the list never lead past its end.    *)
AlertPageExists ==
  alertView.filter = "any" => alertView.page <= Pages(Cardinality(Alerts), AlertPageSize)
=============================================================================
