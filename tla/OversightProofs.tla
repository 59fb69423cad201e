-------------------------- MODULE OversightProofs ---------------------------
(***************************************************************************)
(* What the sections of Oversight keep, for every value of their bounds:   *)
(* each tab and panel has an inductive invariant of its own, and a         *)
(* behaviour of the composition is one of every tab.                       *)
(***************************************************************************)
EXTENDS Oversight, ListingProofs

-----------------------------------------------------------------------------
(* The alerts tab                                                          *)

\* What a view and a batch are made of.
ViewFields == {"page", "filter", "rows", "total", "fetch"}
BatchFields ==
  {"action", "now", "todo", "picked", "applied", "refused", "count", "mounted"}
BatchShape(batch) == DOMAIN batch = BatchFields

\* The books of a batch: what was picked is accepted, refused or left to do, each alert in one
\* way only, and the count is of what was accepted.
BooksBalance(batch, left) ==
  /\ BatchShape(batch)
  /\ batch.picked = batch.applied \union batch.refused \union left
  /\ batch.applied \cap batch.refused = {}
  /\ (batch.applied \union batch.refused) \cap left = {}
  /\ IsFiniteSet(batch.applied) /\ batch.count = Cardinality(batch.applied)

\* A batch that runs waits for one of those left.
Running(batch) ==
  BooksBalance(batch, batch.todo \union {batch.now}) /\ batch.now \notin batch.todo

BatchesInv ==
  /\ DOMAIN alertBatch = Batches
  /\ \A b \in Batches : alertBatch[b] = NoBatch \/ Running(alertBatch[b])

-----------------------------------------------------------------------------
(* Batches                                                                 *)

\* An answer moves the alert waited for to one side of the books.
LEMMA CountedBalances ==
  ASSUME NEW batch, Running(batch), NEW accepted \in BOOLEAN
  PROVE  /\ BooksBalance(Counted(batch, accepted), batch.todo)
         /\ Counted(batch, accepted).todo = batch.todo
         /\ Counted(batch, accepted).picked = batch.picked
<1> DEFINE new == Counted(batch, accepted)
<1> USE DEF Running, BooksBalance, BatchShape, BatchFields
<1>1. CASE accepted
  <2>1. /\ new.applied = batch.applied \union {batch.now} /\ new.count = batch.count + 1
        /\ new.refused = batch.refused /\ new.picked = batch.picked /\ new.todo = batch.todo
        /\ BatchShape(new)
    BY <1>1 DEF Counted
  <2>2. batch.now \notin batch.applied
    OBVIOUS
  <2>3. IsFiniteSet(new.applied) /\ new.count = Cardinality(new.applied)
    BY <2>1, <2>2, FS_AddElement, FS_CardinalityType
  <2>4. QED
    BY <2>1, <2>3
<1>2. CASE ~accepted
  <2>1. /\ new.applied = batch.applied /\ new.count = batch.count
        /\ new.refused = batch.refused \union {batch.now}
        /\ new.picked = batch.picked /\ new.todo = batch.todo
        /\ BatchShape(new)
    BY <1>2 DEF Counted
  <2>2. QED
    BY <2>1
<1>3. QED
  BY <1>1, <1>2

LEMMA StartRuns ==
  ASSUME BatchesInv, NEW b \in Batches, StartBatch(b)
  PROVE  BatchesInv'
<1>1. PICK action \in BatchActions, a \in alertPicked :
        alertBatch' = [alertBatch EXCEPT ![b] =
          [NoBatch EXCEPT !.action = action, !.now = a, !.picked = alertPicked,
                          !.todo = alertPicked \ {a}]]
  BY DEF StartBatch
<1> DEFINE batch == [NoBatch EXCEPT !.action = action, !.now = a, !.picked = alertPicked,
                                    !.todo = alertPicked \ {a}]
<1>2. /\ BatchShape(batch) /\ batch.now = a /\ batch.picked = alertPicked
      /\ batch.todo = alertPicked \ {a} /\ batch.applied = {} /\ batch.refused = {}
      /\ batch.count = 0
  BY DEF NoBatch, BatchShape, BatchFields
<1>3. IsFiniteSet({}) /\ Cardinality({}) = 0
  BY FS_EmptySet
<1>4. Running(batch)
  BY <1>2, <1>3 DEF Running, BooksBalance
<1> HIDE DEF batch
<1>5. alertBatch' = [alertBatch EXCEPT ![b] = batch]
  BY <1>1 DEF batch
<1>6. QED
  BY <1>4, <1>5 DEF BatchesInv

\* The next round of a batch whose books balance, or its end with a report that is true.
LEMMA ContinuesTrue ==
  ASSUME BatchesInv, NEW b \in Batches, NEW batch,
         BooksBalance(batch, batch.todo), BatchContinues(b, batch)
  PROVE  BatchesInv' /\ BatchToldTrue'
<1>1. CASE \E a \in batch.todo :
             /\ alertBatch' = [alertBatch EXCEPT ![b] = [batch EXCEPT !.now = a, !.todo = @ \ {a}]]
             /\ AlertQuiet
  <2>1. PICK a \in batch.todo :
          /\ alertBatch' = [alertBatch EXCEPT ![b] = [batch EXCEPT !.now = a, !.todo = @ \ {a}]]
          /\ AlertQuiet
    BY <1>1
  <2> DEFINE new == [batch EXCEPT !.now = a, !.todo = @ \ {a}]
  <2>2. /\ BatchShape(new) /\ new.now = a /\ new.todo = batch.todo \ {a}
        /\ new.picked = batch.picked /\ new.applied = batch.applied
        /\ new.refused = batch.refused /\ new.count = batch.count
    BY DEF BooksBalance, BatchShape, BatchFields
  <2> HIDE DEF new
  <2>3. Running(new)
    BY <2>2 DEF Running, BooksBalance
  <2>4. alertBatch' = [alertBatch EXCEPT ![b] = new]
    BY <2>1 DEF new
  <2>5. BatchToldTrue'
    BY <2>1 DEF AlertQuiet, Silence, BatchToldTrue
  <2>6. QED
    BY <2>3, <2>4, <2>5 DEF BatchesInv
<1>2. CASE /\ batch.todo = {}
           /\ alertBatch' = [alertBatch EXCEPT ![b] = NoBatch]
           /\ alertTold' = [ended |-> TRUE, count |-> batch.count, applied |-> batch.applied,
                            refused |-> batch.refused, picked |-> batch.picked]
  BY <1>2 DEF BatchesInv, BatchToldTrue, BooksBalance
<1>3. QED
  BY <1>1, <1>2 DEF BatchContinues

\* The section is left: batches go on, without a section to report to.
LEMMA LeavingKeepsBooks ==
  ASSUME BatchesInv, LeaveAlerts
  PROVE  BatchesInv'
<1>1. alertBatch' =
        [b \in Batches |-> IF alertBatch[b] = NoBatch THEN NoBatch
                           ELSE [alertBatch[b] EXCEPT !.mounted = FALSE]]
  BY DEF LeaveAlerts
<1>2. ASSUME NEW b \in Batches
      PROVE  alertBatch'[b] = NoBatch \/ Running(alertBatch'[b])
  <2> DEFINE new == [alertBatch[b] EXCEPT !.mounted = FALSE]
  <2>1. alertBatch'[b] = IF alertBatch[b] = NoBatch THEN NoBatch ELSE new
    BY <1>1
  <2>2. CASE alertBatch[b] = NoBatch
    BY <2>1, <2>2
  <2>3. CASE Running(alertBatch[b])
    <3>1. /\ BatchShape(new) /\ new.now = alertBatch[b].now /\ new.todo = alertBatch[b].todo
          /\ new.picked = alertBatch[b].picked /\ new.applied = alertBatch[b].applied
          /\ new.refused = alertBatch[b].refused /\ new.count = alertBatch[b].count
      BY <2>3 DEF Running, BooksBalance, BatchShape, BatchFields
    <3> HIDE DEF new
    <3>2. Running(new)
      BY <2>3, <3>1 DEF Running, BooksBalance
    <3>3. QED
      BY <2>1, <3>2
  <2>4. QED
    BY <2>2, <2>3 DEF BatchesInv
<1>3. QED
  BY <1>1, <1>2 DEF BatchesInv

LEMMA NextKeepsBooks ==
  BatchesInv /\ BatchToldTrue /\ [AlertsNext]_alertVars => BatchesInv' /\ BatchToldTrue'
<1> SUFFICES ASSUME BatchesInv, BatchToldTrue, [AlertsNext]_alertVars
             PROVE  BatchesInv' /\ BatchToldTrue'
  OBVIOUS
\* Whatever is not a batch is told nothing.
<1>1. AlertQuiet => BatchToldTrue'
  BY DEF AlertQuiet, Silence, BatchToldTrue
<1>2. alertBatch' = alertBatch => BatchesInv'
  BY DEF BatchesInv
<1>3. CASE AlertsAnswered \/ AlertsFetchFailed \/ AlertElsewhere \/ FilterAlerts \/ TurnAlertPage
  <2>1. AlertQuiet /\ alertBatch' = alertBatch
    BY <1>3 DEF AlertsAnswered, AlertsFetchFailed, AlertElsewhere, FilterAlerts, TurnAlertPage,
       AlertsShow, alertCalls
  <2>2. QED
    BY <1>1, <1>2, <2>1
<1>4. CASE PickAlerts \/ HandleAction \/ ActionSettled
  <2>1. AlertQuiet /\ alertBatch' = alertBatch
    BY <1>4 DEF PickAlerts, HandleAction, ActionSettled, alertCalls
  <2>2. QED
    BY <1>1, <1>2, <2>1
<1>5. CASE LeaveAlerts
  BY <1>1, <1>5, LeavingKeepsBooks DEF LeaveAlerts
<1>6. ASSUME NEW b \in Batches, StartBatch(b) PROVE BatchesInv' /\ BatchToldTrue'
  BY <1>1, <1>6, StartRuns DEF StartBatch
<1>7. ASSUME NEW b \in Batches, BatchSettled(b) PROVE BatchesInv' /\ BatchToldTrue'
  <2>1. PICK accepted \in BOOLEAN : BatchContinues(b, Counted(alertBatch[b], accepted))
    BY <1>7 DEF BatchSettled
  <2>2. Running(alertBatch[b])
    BY <1>7 DEF BatchSettled, BatchesInv
  <2>3. BooksBalance(Counted(alertBatch[b], accepted), Counted(alertBatch[b], accepted).todo)
    BY <2>2, CountedBalances
  <2>4. QED
    BY <2>1, <2>3, ContinuesTrue
<1>8. CASE UNCHANGED alertVars
  <2>1. alertBatch' = alertBatch /\ alertTold' = alertTold
    BY <1>8 DEF alertVars
  <2>2. QED
    BY <1>2, <2>1 DEF BatchToldTrue
<1>9. QED
  BY <1>3, <1>4, <1>5, <1>6, <1>7, <1>8 DEF AlertsNext

\* "Escalated n alerts" is true however many batches run, whatever is refused, clicked or left
\* meanwhile: n were accepted, and every alert picked was sent.
THEOREM BatchToldTheorem == AlertsSpec => []BatchToldTrue
<1>1. AlertsInit => BatchesInv /\ BatchToldTrue
  BY DEF AlertsInit, BatchesInv, BatchToldTrue, Silence
<1>2. QED
  BY <1>1, NextKeepsBooks, PTL DEF AlertsSpec

-----------------------------------------------------------------------------
(* The list                                                                *)

\* The view is a record, and what it shows as done is the server's answer.
AlertFreshInv == DOMAIN alertView = ViewFields /\ AlertsFresh

LEMMA NextKeepsAlertFresh == AlertFreshInv /\ [AlertsNext]_alertVars => AlertFreshInv'
<1> SUFFICES ASSUME AlertFreshInv, [AlertsNext]_alertVars PROVE AlertFreshInv'
  OBVIOUS
<1> USE DEF AlertFreshInv, AlertsFresh, ViewFields
\* An answer depends on the statuses alone.
<1>1. alertStatus' = alertStatus =>
        \A page, filter : AlertsAnswer(page, filter)' = AlertsAnswer(page, filter)
  BY DEF AlertsAnswer, AlertsListed
<1>2. UNCHANGED <<alertStatus, alertView, alertBehind>> => AlertFreshInv'
  BY <1>1
\* What asks is not done.
<1>3. DOMAIN alertView' = ViewFields /\ alertView'.fetch = "asked" => AlertFreshInv'
  OBVIOUS
<1>4. CASE AlertsAnswered
  BY <1>1, <1>4 DEF AlertsAnswered
<1>5. CASE AlertsFetchFailed
  BY <1>5 DEF AlertsFetchFailed
<1>6. CASE AlertElsewhere
  BY <1>6 DEF AlertElsewhere
<1>7. CASE FilterAlerts \/ TurnAlertPage \/ LeaveAlerts
  <2>1. \E page, filter, rows, total :
          alertView' = [page |-> page, filter |-> filter, rows |-> rows, fetch |-> "asked",
                        total |-> total]
    BY <1>7 DEF FilterAlerts, TurnAlertPage, LeaveAlerts, AlertsShow
  <2>2. QED
    BY <1>3, <2>1
<1>8. CASE PickAlerts \/ HandleAction \/ \E b \in Batches : StartBatch(b)
  BY <1>2, <1>8 DEF PickAlerts, HandleAction, StartBatch
<1>9. ASSUME NEW a, NEW action, AlertApplied(a, action) PROVE AlertFreshInv'
  BY <1>3, <1>9 DEF AlertApplied
<1>10. CASE ActionSettled
  BY <1>2, <1>9, <1>10 DEF ActionSettled
<1>11. CASE \E b \in Batches : BatchSettled(b)
  BY <1>2, <1>9, <1>11 DEF BatchSettled
<1>12. CASE UNCHANGED alertVars
  BY <1>2, <1>12 DEF alertVars
<1>13. QED
  BY <1>4, <1>5, <1>6, <1>7, <1>8, <1>10, <1>11, <1>12 DEF AlertsNext

\* Every update of this console refetches the list, those of a batch whose section was left
\* included: for any number of alerts and batches the list is fresh once it is answered.
THEOREM AlertsFreshTheorem == AlertsSpec => []AlertsFresh
<1>1. AlertsInit => AlertFreshInv
  BY DEF AlertsInit, AlertFreshInv, AlertsFresh, ViewFields
<1>2. AlertFreshInv => AlertsFresh
  BY DEF AlertFreshInv
<1>3. QED
  BY <1>1, <1>2, NextKeepsAlertFresh, PTL DEF AlertsSpec

-----------------------------------------------------------------------------
(* Pages                                                                   *)

\* A list is as long as the set of what it lists, under every filter no longer than all.
LEMMA ListedLength ==
  ASSUME NEW filter
  PROVE  Len(AlertsListed(filter)) \in Nat /\ Len(AlertsListed(filter)) <= Cardinality(Alerts)
<1> DEFINE S == {a \in Alerts : filter = "any" \/ alertStatus[a] = filter}
<1>1. S \subseteq Alerts /\ AlertsListed(filter) = Ascending(S)
  BY DEF AlertsListed
<1> HIDE DEF S
<1>2. Alerts \subseteq Int
  BY AlertsAssumption
<1>3. IsFiniteSet(S) /\ Cardinality(S) \in Nat /\ Cardinality(S) <= Cardinality(Alerts)
  BY <1>1, AlertsAssumption, FS_Subset, FS_CardinalityType
<1>4. Len(Ascending(S)) = Cardinality(S)
  BY <1>1, <1>2, <1>3, AscendingLists
<1>5. QED
  BY <1>1, <1>3, <1>4

AlertPageInv ==
  /\ DOMAIN alertView = ViewFields
  /\ alertView.page \in Nat \ {0} /\ alertView.page <= Pages(Cardinality(Alerts), AlertPageSize)
  /\ alertView.total \in Nat /\ alertView.total <= Cardinality(Alerts)

LEMMA NextKeepsAlertPage ==
  ASSUME AlertPageInv, [AlertsNext]_alertVars, Alerts # {}
  PROVE  AlertPageInv'
<1> DEFINE last == Pages(Cardinality(Alerts), AlertPageSize)
<1>1. Cardinality(Alerts) \in Nat /\ Cardinality(Alerts) > 0 /\ AlertPageSize \in Nat \ {0}
  BY AlertsAssumption, FS_CardinalityType, FS_EmptySet
<1>2. last \in Nat /\ 1 <= last
  BY <1>1, PagesGrow
<1>3. UNCHANGED alertView => AlertPageInv'
  BY DEF AlertPageInv
\* A view of a page that exists, with the total of an answer or none.
<1>4. ASSUME NEW page \in Nat \ {0}, page <= last, NEW filter, NEW rows, NEW fetch,
             NEW total \in Nat, total <= Cardinality(Alerts),
             alertView' = [page |-> page, filter |-> filter, rows |-> rows, fetch |-> fetch,
                           total |-> total]
      PROVE  AlertPageInv'
  BY <1>4 DEF AlertPageInv, ViewFields
<1>5. ASSUME NEW page \in Nat \ {0}, page <= last, NEW filter, AlertsShow(page, filter)
      PROVE  AlertPageInv'
  <2>1. PICK rows :
          alertView' = [page |-> page, filter |-> filter, rows |-> rows, fetch |-> "asked",
                        total |-> IF rows = << >> THEN 0 ELSE Len(AlertsListed(filter))]
    BY <1>5 DEF AlertsShow
  <2> DEFINE total == IF rows = << >> THEN 0 ELSE Len(AlertsListed(filter))
  <2>2. total \in Nat /\ total <= Cardinality(Alerts)
    BY <1>1, ListedLength
  <2> HIDE DEF total
  <2>3. alertView' = [page |-> page, filter |-> filter, rows |-> rows, fetch |-> "asked",
                      total |-> total]
    BY <2>1 DEF total
  <2>4. QED
    BY <1>4, <1>5, <2>2, <2>3
<1>6. CASE AlertsAnswered
  <2>1. Len(AlertsListed(alertView.filter)) \in Nat
        /\ Len(AlertsListed(alertView.filter)) <= Cardinality(Alerts)
    BY ListedLength
  <2>2. QED
    BY <1>6, <2>1 DEF AlertsAnswered, AlertPageInv, ViewFields
<1>7. CASE AlertsFetchFailed
  BY <1>7 DEF AlertsFetchFailed, AlertPageInv, ViewFields
<1>8. CASE AlertElsewhere \/ PickAlerts \/ HandleAction \/ \E b \in Batches : StartBatch(b)
  BY <1>3, <1>8 DEF AlertElsewhere, PickAlerts, HandleAction, StartBatch
<1>9. CASE FilterAlerts
  BY <1>5, <1>9 DEF FilterAlerts, AlertPageInv
\* Next is there only before the last page of a list that is no longer than all alerts.
<1>10. CASE TurnAlertPage
  <2>1. CASE alertView.page > 1 /\ AlertsShow(alertView.page - 1, alertView.filter)
    <3>1. alertView.page - 1 \in Nat \ {0} /\ alertView.page - 1 <= last
      BY <1>2, <2>1 DEF AlertPageInv
    <3>2. QED
      BY <1>5, <2>1, <3>1
  <2>2. CASE AlertsHasNext /\ AlertsShow(alertView.page + 1, alertView.filter)
    <3>1. /\ Pages(alertView.total, AlertPageSize) \in Nat
          /\ Pages(alertView.total, AlertPageSize) <= last
      BY <1>1, PagesGrow DEF AlertPageInv
    <3>2. alertView.page + 1 \in Nat \ {0} /\ alertView.page + 1 <= last
      BY <1>2, <2>2, <3>1 DEF AlertPageInv, AlertsHasNext
    <3>3. QED
      BY <1>5, <2>2, <3>2
  <2>3. QED
    BY <1>10, <2>1, <2>2 DEF TurnAlertPage
<1>11. CASE LeaveAlerts
  <2>1. PICK rows :
          alertView' = [page |-> 1, filter |-> "any", rows |-> rows, fetch |-> "asked",
                        total |-> IF rows = << >> THEN 0 ELSE Len(AlertsListed("any"))]
    BY <1>11 DEF LeaveAlerts
  <2> DEFINE total == IF rows = << >> THEN 0 ELSE Len(AlertsListed("any"))
  <2>2. total \in Nat /\ total <= Cardinality(Alerts)
    BY <1>1, ListedLength
  <2> HIDE DEF total
  <2>3. alertView' = [page |-> 1, filter |-> "any", rows |-> rows, fetch |-> "asked",
                      total |-> total]
    BY <2>1 DEF total
  <2>4. QED
    BY <1>2, <1>4, <2>2, <2>3
<1>12. ASSUME NEW a, NEW action, AlertApplied(a, action) PROVE AlertPageInv'
  BY <1>12 DEF AlertApplied, AlertPageInv, ViewFields
<1>13. CASE ActionSettled
  BY <1>3, <1>12, <1>13 DEF ActionSettled
<1>14. CASE \E b \in Batches : BatchSettled(b)
  BY <1>3, <1>12, <1>14 DEF BatchSettled
<1>15. CASE UNCHANGED alertVars
  BY <1>3, <1>15 DEF alertVars
<1>16. QED
  BY <1>6, <1>7, <1>8, <1>9, <1>10, <1>11, <1>13, <1>14, <1>15 DEF AlertsNext

\* Without a filter the list never stands past its end, with pages of any size: filters leave
\* the page alone, but none has more pages than all alerts have.
THEOREM AlertPageTheorem ==
  ASSUME Alerts # {}
  PROVE  AlertsSpec => []AlertPageExists
<1>1. AlertsInit => AlertPageInv
  <2>1. Cardinality(Alerts) \in Nat /\ Cardinality(Alerts) > 0 /\ AlertPageSize \in Nat \ {0}
    BY AlertsAssumption, FS_CardinalityType, FS_EmptySet
  <2>2. Pages(Cardinality(Alerts), AlertPageSize) >= 1
    BY <2>1, PagesGrow
  <2>3. QED
    BY <2>1, <2>2 DEF AlertsInit, AlertPageInv, ViewFields
<1>2. AlertPageInv /\ [AlertsNext]_alertVars => AlertPageInv'
  BY NextKeepsAlertPage
<1>3. AlertPageInv => AlertPageExists
  BY DEF AlertPageInv, AlertPageExists
<1>4. QED
  BY <1>1, <1>2, <1>3, PTL DEF AlertsSpec

-----------------------------------------------------------------------------
(* The forms of the settings                                               *)

\* The settings of the tab looked at, and the values they can take.
Keys == SettingKeys[form]
Values == [Keys -> BOOLEAN]

\* What a window last read or wrote is what is stored, unless another one has written since.
ReadIsStored == \A w \in Windows : outdated[w] \/ base[w] = stored

FormsInv ==
  /\ form \in DOMAIN SettingKeys
  /\ FormsTypeOK
  /\ ReadIsStored

LEMMA KeysOfForms ==
  /\ form = "risk" => Keys = RiskKeys
  /\ form = "notifications" => Keys = NotificationKeys
  /\ form = "retention" => Keys = RetentionKeys
  /\ form = "policy" => Keys = PolicyKeys
  /\ form = "roles" => Keys = RoleKeys
  /\ DOMAIN SettingKeys = {"risk", "notifications", "retention", "policy", "roles"}
BY DEF Keys, SettingKeys

LEMMA DefaultsAreValues == Defaults \in Values
BY DEF Defaults, Values, Keys

\* A draft stays one when a value of it is turned over.
LEMMA EditedIsDraft ==
  ASSUME FormsInv, NEW w \in Windows, NEW k \in Keys
  PROVE  Edited(w, k) \in [Windows -> Values]
BY DEF FormsInv, FormsTypeOK, Edited, Values, Keys

-----------------------------------------------------------------------------
(* Writes                                                                  *)

\* What a write of some settings of a window does, however much of it fails.
LEMMA WriteFromEffect ==
  ASSUME FormsInv, NEW w \in Windows, NEW values \in Values, NEW keys \in SUBSET Keys,
         WriteFrom(w, values, keys), UNCHANGED form
  PROVE  /\ stored' \in Values /\ base' \in [Windows -> Values]
         /\ {outdated', refused'} \subseteq [Windows -> BOOLEAN]
         /\ writer' \in Windows \union {0}
         /\ ReadIsStored'
         /\ \A k \in Keys : stored'[k] # stored[k] =>
              k \in keys /\ stored'[k] = values[k] /\ writer' = w
         /\ \A v \in Windows \ {w} : base'[v] = base[v] /\ refused'[v] = refused[v]
         /\ ~refused'[w] => ~refused[w] /\ \A k \in keys : base'[w][k] = values[k]
<1> USE DEF Values
<1>1. /\ stored \in Values /\ base \in [Windows -> Values] /\ DOMAIN stored = Keys
      /\ outdated \in [Windows -> BOOLEAN] /\ refused \in [Windows -> BOOLEAN]
      /\ writer \in Windows \union {0}
  BY DEF FormsInv, FormsTypeOK, Keys
<1>2. PICK kept \in SUBSET keys :
        /\ stored' = [k \in Keys |-> IF k \in kept THEN values[k] ELSE stored[k]]
        /\ base' = [base EXCEPT ![w] = [k \in Keys |-> IF k \in kept THEN values[k] ELSE @[k]]]
        /\ outdated' = [v \in Windows |-> outdated[v] \/ (v # w /\ kept # {})]
        /\ refused' = [refused EXCEPT ![w] = @ \/ kept # keys]
        /\ writer' = IF kept = {} THEN writer ELSE w
  BY <1>1 DEF WriteFrom
<1>3. stored' \in Values
  BY <1>1, <1>2
<1>4. /\ base'[w] = [k \in Keys |-> IF k \in kept THEN values[k] ELSE base[w][k]]
      /\ \A v \in Windows \ {w} : base'[v] = base[v]
  BY <1>1, <1>2
<1>5. base' \in [Windows -> Values]
  <2>1. [k \in Keys |-> IF k \in kept THEN values[k] ELSE base[w][k]] \in Values
    BY <1>1
  <2>2. QED
    BY <1>1, <1>2, <2>1
<1>6. outdated' \in [Windows -> BOOLEAN] /\ refused' \in [Windows -> BOOLEAN]
  BY <1>1, <1>2
<1>7. ReadIsStored'
  <2> SUFFICES ASSUME NEW v \in Windows, ~outdated'[v] PROVE base'[v] = stored'
    BY DEF ReadIsStored
  <2>1. ~outdated[v] /\ base[v] = stored
    BY <1>1, <1>2 DEF FormsInv, ReadIsStored
  <2>2. CASE v = w
    BY <1>2, <1>4, <2>1, <2>2
  <2>3. CASE v # w
    <3>1. kept = {}
      BY <1>2, <2>3
    <3>2. stored' = stored
      BY <1>1, <1>2, <3>1
    <3>3. QED
      BY <1>4, <2>1, <2>3, <3>2
  <2>4. QED
    BY <2>2, <2>3
<1>8. writer' \in Windows \union {0}
  BY <1>1, <1>2
<1>9. \A k \in Keys : stored'[k] # stored[k] => k \in keys /\ stored'[k] = values[k] /\ writer' = w
  BY <1>2
<1>10. \A v \in Windows \ {w} : refused'[v] = refused[v]
  BY <1>1, <1>2
<1>11. ~refused'[w] => ~refused[w] /\ \A k \in keys : base'[w][k] = values[k]
  BY <1>1, <1>2, <1>4
<1>12. QED
  BY <1>3, <1>4, <1>5, <1>6, <1>7, <1>8, <1>9, <1>10, <1>11

-----------------------------------------------------------------------------
(* Steps                                                                   *)

\* What LeftAloneKept says of a step.
OnlyEdited ==
  \A w \in Windows, k \in SettingKeys[form] :
    (writer' = w /\ stored'[k] # stored[k] /\ k # "lastPurgeDate")
      => (draft'[w][k] # base[w][k] \/ outdated[w])

LEMMA EditKeeps ==
  ASSUME FormsInv, Unwritten,
         draft' \in [Windows -> Values], changed' \in [Windows -> BOOLEAN]
  PROVE  FormsInv' /\ OnlyEdited
<1>1. UNCHANGED <<form, stored, base, outdated, refused, writer>>
  BY DEF Unwritten
<1>2. FormsTypeOK'
  BY <1>1 DEF FormsInv, FormsTypeOK, Values, Keys
<1>3. ReadIsStored'
  BY <1>1 DEF FormsInv, ReadIsStored
<1>4. QED
  BY <1>1, <1>2, <1>3 DEF FormsInv, OnlyEdited

LEMMA SaveKeeps ==
  ASSUME FormsInv, NEW w \in Windows, NEW keys \in SUBSET Keys,
         Save(w, keys), changed' \in [Windows -> BOOLEAN]
  PROVE  FormsInv' /\ OnlyEdited
<1>1. draft[w] \in Values /\ draft \in [Windows -> Values]
  BY DEF FormsInv, FormsTypeOK, Values, Keys
<1>2. WriteFrom(w, draft[w], keys) /\ UNCHANGED <<form, draft>>
  BY DEF Save
<1>3. /\ stored' \in Values /\ base' \in [Windows -> Values]
      /\ {outdated', refused'} \subseteq [Windows -> BOOLEAN]
      /\ writer' \in Windows \union {0}
      /\ ReadIsStored'
      /\ \A k \in Keys : stored'[k] # stored[k] =>
           k \in keys /\ stored'[k] = draft[w][k] /\ writer' = w
  BY <1>1, <1>2, WriteFromEffect
<1>4. FormsTypeOK'
  BY <1>1, <1>2, <1>3 DEF FormsTypeOK, Values, Keys
<1>5. OnlyEdited
  BY <1>2, <1>3 DEF OnlyEdited, FormsInv, ReadIsStored, Keys
<1>6. QED
  BY <1>2, <1>3, <1>4, <1>5 DEF FormsInv

LEMMA PurgeKeeps ==
  ASSUME FormsInv, NEW w \in Windows, SimulatePurge(w)
  PROVE  FormsInv' /\ OnlyEdited
<1> DEFINE purged == [draft[w] EXCEPT !["lastPurgeDate"] = TRUE]
<1>1. form = "retention" /\ Keys = RetentionKeys
  BY KeysOfForms DEF SimulatePurge
<1>2. /\ draft \in [Windows -> Values] /\ changed \in [Windows -> BOOLEAN]
      /\ purged \in Values /\ {"lastPurgeDate"} \subseteq Keys
  BY <1>1 DEF FormsInv, FormsTypeOK, Values, Keys, RetentionKeys
<1>3. WriteFrom(w, purged, {"lastPurgeDate"}) /\ UNCHANGED <<form, draft, changed>>
  BY DEF SimulatePurge
<1> HIDE DEF purged
<1>4. /\ stored' \in Values /\ base' \in [Windows -> Values]
      /\ {outdated', refused'} \subseteq [Windows -> BOOLEAN]
      /\ writer' \in Windows \union {0}
      /\ ReadIsStored'
      /\ \A k \in Keys : stored'[k] # stored[k] => k \in {"lastPurgeDate"}
  BY <1>2, <1>3, WriteFromEffect
<1>5. FormsTypeOK'
  BY <1>2, <1>3, <1>4 DEF FormsTypeOK, Values, Keys
<1>6. OnlyEdited
  BY <1>4 DEF OnlyEdited, Keys
<1>7. QED
  BY <1>3, <1>4, <1>5, <1>6 DEF FormsInv

LEMMA OpenKeeps ==
  ASSUME FormsInv, NEW w \in Windows, OpenForm(w)
  PROVE  FormsInv' /\ OnlyEdited
<1>1. /\ UNCHANGED <<form, stored, writer>>
      /\ draft' = [draft EXCEPT ![w] = stored] /\ base' = [base EXCEPT ![w] = stored]
  BY DEF OpenForm
<1>2. stored \in Values /\ draft \in [Windows -> Values] /\ base \in [Windows -> Values]
  BY DEF FormsInv, FormsTypeOK, Values, Keys
<1>3. draft' \in [Windows -> Values] /\ base' \in [Windows -> Values]
  BY <1>1, <1>2
<1>4. {changed', outdated', refused'} \subseteq [Windows -> BOOLEAN]
  BY DEF OpenForm, FormsInv, FormsTypeOK
<1>5. FormsTypeOK'
  BY <1>1, <1>3, <1>4 DEF FormsInv, FormsTypeOK, Values, Keys
<1>6. ReadIsStored'
  <2> SUFFICES ASSUME NEW v \in Windows, ~outdated'[v] PROVE base'[v] = stored'
    BY DEF ReadIsStored
  <2>1. CASE v = w
    BY <1>1, <1>2, <2>1
  <2>2. CASE v # w
    BY <1>1, <1>2, <2>2 DEF OpenForm, FormsInv, FormsTypeOK, ReadIsStored
  <2>3. QED
    BY <2>1, <2>2
<1>7. QED
  BY <1>1, <1>5, <1>6 DEF FormsInv, OnlyEdited

LEMMA RolesKeep ==
  ASSUME FormsInv, NEW w \in Windows, NEW ticks \in Values, WriteRoles(w, ticks)
  PROVE  FormsInv' /\ OnlyEdited /\ (LastTickInForce => LastTickInForce')
<1>1. UNCHANGED <<form, changed>> /\ draft' = [draft EXCEPT ![w] = ticks]
  BY DEF WriteRoles
<1>2. /\ stored \in Values /\ draft \in [Windows -> Values] /\ base \in [Windows -> Values]
      /\ changed \in [Windows -> BOOLEAN] /\ outdated \in [Windows -> BOOLEAN]
      /\ refused \in [Windows -> BOOLEAN] /\ writer \in Windows \union {0}
  BY DEF FormsInv, FormsTypeOK, Values, Keys
<1>3. /\ draft' \in [Windows -> Values] /\ draft'[w] = ticks
      /\ \A v \in Windows \ {w} : draft'[v] = draft[v]
  BY <1>1, <1>2
<1>4. CASE /\ stored' = ticks
           /\ base' = [base EXCEPT ![w] = ticks]
           /\ outdated' = [v \in Windows |-> outdated[v] \/ v # w]
           /\ writer' = w
           /\ UNCHANGED refused
  <2>1. base' \in [Windows -> Values] /\ outdated' \in [Windows -> BOOLEAN]
    BY <1>2, <1>4
  <2>2. FormsTypeOK'
    BY <1>1, <1>2, <1>3, <1>4, <2>1 DEF FormsTypeOK, Values, Keys
  <2>3. ReadIsStored'
    BY <1>2, <1>4 DEF ReadIsStored
  <2>4. OnlyEdited
    BY <1>2, <1>3, <1>4 DEF OnlyEdited, FormsInv, ReadIsStored
  <2>5. LastTickInForce'
    BY <1>3, <1>4 DEF LastTickInForce
  <2>6. QED
    BY <1>1, <2>2, <2>3, <2>4, <2>5 DEF FormsInv
<1>5. CASE /\ refused' = [refused EXCEPT ![w] = TRUE]
           /\ UNCHANGED <<stored, base, outdated, writer>>
  <2>1. refused' \in [Windows -> BOOLEAN] /\ refused'[w]
        /\ \A v \in Windows \ {w} : refused'[v] = refused[v]
    BY <1>2, <1>5
  <2>2. FormsTypeOK'
    BY <1>1, <1>2, <1>3, <1>5, <2>1 DEF FormsTypeOK, Values, Keys
  <2>3. ReadIsStored'
    BY <1>5 DEF FormsInv, ReadIsStored
  <2>4. LastTickInForce => LastTickInForce'
    BY <1>1, <1>3, <1>5, <2>1 DEF LastTickInForce
  <2>5. QED
    BY <1>1, <1>5, <2>2, <2>3, <2>4 DEF FormsInv, OnlyEdited
<1>6. QED
  BY <1>4, <1>5 DEF WriteRoles

\* Every action of a window is one of five kinds.
LEMMA KindsOfSteps ==
  ASSUME FormsInv, NEW w \in Windows,
         \/ OpenForm(w) \/ EditRisk(w) \/ ResetRisk(w) \/ SaveRisk(w) \/ EditNotifications(w)
         \/ SaveNotifications(w) \/ EditRetention(w) \/ SaveRetention(w) \/ SimulatePurge(w)
         \/ EditPolicy(w) \/ ResetPolicy(w) \/ SavePolicy(w) \/ TogglePermission(w)
         \/ ResetPermissions(w) \/ SavePermissions(w)
  PROVE  \/ OpenForm(w)
         \/ Unwritten /\ draft' \in [Windows -> Values] /\ changed' \in [Windows -> BOOLEAN]
         \/ \E keys \in SUBSET Keys : Save(w, keys) /\ changed' \in [Windows -> BOOLEAN]
         \/ SimulatePurge(w)
         \/ form = "roles" /\ \E ticks \in Values : WriteRoles(w, ticks)
<1>1. /\ draft \in [Windows -> Values] /\ draft[w] \in Values
      /\ changed \in [Windows -> BOOLEAN] /\ Defaults \in Values
  BY DefaultsAreValues DEF FormsInv, FormsTypeOK, Values, Keys
<1>2. [changed EXCEPT ![w] = TRUE] \in [Windows -> BOOLEAN]
      /\ [changed EXCEPT ![w] = FALSE] \in [Windows -> BOOLEAN]
      /\ [draft EXCEPT ![w] = Defaults] \in [Windows -> Values]
  BY <1>1
<1>3. CASE EditRisk(w) \/ EditNotifications(w) \/ EditRetention(w) \/ EditPolicy(w)
  <2>1. \E k \in Keys : draft' = Edited(w, k)
    BY <1>3, KeysOfForms DEF EditRisk, EditNotifications, EditRetention, EditPolicy,
       RiskKeys, NotificationKeys, RetentionKeys, PolicyKeys
  <2>2. Unwritten /\ changed' \in [Windows -> BOOLEAN]
    BY <1>1, <1>2, <1>3 DEF EditRisk, EditNotifications, EditRetention, EditPolicy
  <2>3. QED
    BY <2>1, <2>2, EditedIsDraft
<1>4. CASE ResetRisk(w) \/ ResetPolicy(w)
  BY <1>1, <1>2, <1>4 DEF ResetRisk, ResetPolicy
<1>5. CASE SaveRisk(w)
  BY <1>1, <1>2, <1>5, KeysOfForms DEF SaveRisk
<1>6. CASE SaveNotifications(w)
  BY <1>1, <1>6, KeysOfForms DEF SaveNotifications
<1>7. CASE SaveRetention(w)
  <2>1. RetentionKeys \ {"lastPurgeDate"} \in SUBSET Keys
    BY <1>7, KeysOfForms DEF SaveRetention
  <2>2. QED
    BY <1>1, <1>7, <2>1 DEF SaveRetention
<1>8. CASE SavePolicy(w)
  BY <1>1, <1>8, KeysOfForms DEF SavePolicy
<1>9. CASE TogglePermission(w)
  <2>1. PICK k \in RoleKeys : WriteRoles(w, [draft[w] EXCEPT ![k] = ~@])
    BY <1>9 DEF TogglePermission
  <2>2. k \in Keys
    BY <1>9, KeysOfForms DEF TogglePermission
  <2>3. [draft[w] EXCEPT ![k] = ~@] \in Values
    BY <1>1, <2>2 DEF Values
  <2>4. QED
    BY <1>9, <2>1, <2>3 DEF TogglePermission
<1>10. CASE ResetPermissions(w) \/ SavePermissions(w)
  BY <1>1, <1>10 DEF ResetPermissions, SavePermissions
<1>11. QED
  BY <1>3, <1>4, <1>5, <1>6, <1>7, <1>8, <1>9, <1>10

LEMMA NextKeepsFormsInv == FormsInv /\ [FormsNext]_formVars => FormsInv' /\ OnlyEdited
<1> SUFFICES ASSUME FormsInv, [FormsNext]_formVars PROVE FormsInv' /\ OnlyEdited
  OBVIOUS
<1>1. CASE UNCHANGED formVars
  BY <1>1 DEF formVars, FormsInv, FormsTypeOK, ReadIsStored, OnlyEdited
<1>2. CASE FormsNext
  BY <1>2, KindsOfSteps, OpenKeeps, EditKeeps, SaveKeeps, PurgeKeeps, RolesKeep DEF FormsNext
<1>3. QED
  BY <1>1, <1>2

LEMMA NextKeepsLastTick ==
  FormsInv /\ LastTickInForce /\ [FormsNext]_formVars => LastTickInForce'
<1> SUFFICES ASSUME FormsInv, LastTickInForce, [FormsNext]_formVars PROVE LastTickInForce'
  OBVIOUS
<1>1. CASE UNCHANGED formVars
  BY <1>1 DEF formVars, LastTickInForce
<1>2. ASSUME NEW w \in Windows, OpenForm(w) PROVE LastTickInForce'
  BY <1>2 DEF OpenForm, LastTickInForce, FormsInv, FormsTypeOK
<1>3. CASE FormsNext
  <2>1. PICK w \in Windows :
          \/ OpenForm(w) \/ EditRisk(w) \/ ResetRisk(w) \/ SaveRisk(w) \/ EditNotifications(w)
          \/ SaveNotifications(w) \/ EditRetention(w) \/ SaveRetention(w) \/ SimulatePurge(w)
          \/ EditPolicy(w) \/ ResetPolicy(w) \/ SavePolicy(w) \/ TogglePermission(w)
          \/ ResetPermissions(w) \/ SavePermissions(w)
    BY <1>3 DEF FormsNext
  \* No other tab is the matrix.
  <2>2. CASE /\ ~OpenForm(w) /\ ~TogglePermission(w) /\ ~ResetPermissions(w) /\ ~SavePermissions(w)
    <3>1. form # "roles" /\ form' = form
      BY <2>1, <2>2 DEF EditRisk, ResetRisk, SaveRisk, EditNotifications, SaveNotifications,
         EditRetention, SaveRetention, SimulatePurge, EditPolicy, ResetPolicy, SavePolicy,
         Save, Unwritten
    <3>2. QED
      BY <3>1 DEF LastTickInForce
  <2>3. CASE TogglePermission(w) \/ ResetPermissions(w) \/ SavePermissions(w)
    <3>1. \E ticks \in Values : WriteRoles(w, ticks)
      <4>1. draft[w] \in Values /\ Defaults \in Values
        BY DefaultsAreValues DEF FormsInv, FormsTypeOK, Values, Keys
      <4>2. \A k \in RoleKeys : form = "roles" => [draft[w] EXCEPT ![k] = ~@] \in Values
        BY <4>1, KeysOfForms DEF Values
      <4>3. QED
        BY <2>3, <4>1, <4>2 DEF TogglePermission, ResetPermissions, SavePermissions
    <3>2. QED
      BY <3>1, RolesKeep
  <2>4. QED
    BY <1>2, <2>2, <2>3
<1>4. QED
  BY <1>1, <1>3

LEMMA NextKeepsUnsaved ==
  FormsInv /\ UnsavedIsOffered /\ [FormsNext]_formVars => UnsavedIsOffered'
<1> SUFFICES ASSUME FormsInv, UnsavedIsOffered, [FormsNext]_formVars PROVE UnsavedIsOffered'
  OBVIOUS
<1>1. CASE UNCHANGED formVars
  BY <1>1 DEF formVars, UnsavedIsOffered
<1>2. CASE FormsNext
  <2>1. PICK w \in Windows :
          \/ OpenForm(w) \/ EditRisk(w) \/ ResetRisk(w) \/ SaveRisk(w) \/ EditNotifications(w)
          \/ SaveNotifications(w) \/ EditRetention(w) \/ SaveRetention(w) \/ SimulatePurge(w)
          \/ EditPolicy(w) \/ ResetPolicy(w) \/ SavePolicy(w) \/ TogglePermission(w)
          \/ ResetPermissions(w) \/ SavePermissions(w)
    BY <1>2 DEF FormsNext
  <2>2. /\ draft \in [Windows -> Values] /\ base \in [Windows -> Values]
        /\ changed \in [Windows -> BOOLEAN] /\ refused \in [Windows -> BOOLEAN]
    BY DEF FormsInv, FormsTypeOK, Values, Keys
  <2>3. CASE OpenForm(w)
    BY <2>2, <2>3 DEF OpenForm, UnsavedIsOffered
  \* What is edited or reset is marked as changed.
  <2>4. CASE EditRisk(w) \/ ResetRisk(w)
    <3>1. /\ UNCHANGED <<form, base, refused>> /\ changed' = [changed EXCEPT ![w] = TRUE]
          /\ \A v \in Windows \ {w} : draft'[v] = draft[v]
      BY <2>2, <2>4 DEF EditRisk, ResetRisk, Edited, Unwritten
    <3>2. changed'[w] /\ \A v \in Windows \ {w} : changed'[v] = changed[v]
      BY <2>2, <3>1
    <3>3. QED
      BY <3>1, <3>2 DEF UnsavedIsOffered
  \* What is saved without a failure is the whole draft.
  <2>5. CASE SaveRisk(w)
    <3>1. /\ WriteFrom(w, draft[w], RiskKeys) /\ UNCHANGED <<form, draft>>
          /\ RiskKeys = Keys /\ draft[w] \in Values
      BY <2>2, <2>5, KeysOfForms DEF SaveRisk, Save
    <3>2. /\ base' \in [Windows -> Values]
          /\ \A v \in Windows \ {w} : base'[v] = base[v] /\ refused'[v] = refused[v]
          /\ ~refused'[w] => \A k \in Keys : base'[w][k] = draft[w][k]
      BY <3>1, WriteFromEffect
    <3>3. ~refused'[w] => base'[w] = draft[w]
      BY <3>1, <3>2 DEF Values
    <3>4. \A v \in Windows \ {w} : changed'[v] = changed[v]
      BY <2>2, <2>5 DEF SaveRisk
    <3>5. QED
      BY <3>1, <3>2, <3>3, <3>4 DEF UnsavedIsOffered
  <2>6. CASE ~OpenForm(w) /\ ~EditRisk(w) /\ ~ResetRisk(w) /\ ~SaveRisk(w)
    <3>1. form # "risk" /\ form' = form
      BY <2>1, <2>6 DEF EditNotifications, SaveNotifications, EditRetention, SaveRetention,
         SimulatePurge, EditPolicy, ResetPolicy, SavePolicy, TogglePermission,
         ResetPermissions, SavePermissions, WriteRoles, Save, Unwritten
    <3>2. QED
      BY <3>1 DEF UnsavedIsOffered
  <2>7. QED
    BY <2>3, <2>4, <2>5, <2>6
<1>3. QED
  BY <1>1, <1>2

LEMMA InitForms == FormsInit => FormsInv /\ UnsavedIsOffered /\ LastTickInForce
<1> SUFFICES ASSUME FormsInit PROVE FormsInv /\ UnsavedIsOffered /\ LastTickInForce
  OBVIOUS
<1>1. /\ stored = Defaults /\ draft = [w \in Windows |-> Defaults] /\ base = draft
      /\ form \in DOMAIN SettingKeys
  BY DEF FormsInit
<1>2. FormsTypeOK
  BY <1>1, DefaultsAreValues DEF FormsInit, FormsTypeOK, Values, Keys
<1>3. ReadIsStored
  BY <1>1 DEF ReadIsStored
<1>4. UnsavedIsOffered /\ LastTickInForce
  BY <1>1 DEF UnsavedIsOffered, LastTickInForce
<1>5. QED
  BY <1>1, <1>2, <1>3, <1>4 DEF FormsInv

-----------------------------------------------------------------------------
(* Theorems                                                                *)

\* The variables stay of their types, on whichever tab.
THEOREM FormsTypes == FormsSpec => []FormsTypeOK
<1>1. FormsInv => FormsTypeOK
  BY DEF FormsInv
<1>2. QED
  BY <1>1, InitForms, NextKeepsFormsInv, PTL DEF FormsSpec

\* The risk tab offers to save what differs from storage as this window last saw it, in any
\* number of windows, unless setSetting swallowed a failure.
THEOREM UnsavedIsOfferedTheorem == FormsSpec => []UnsavedIsOffered
BY InitForms, NextKeepsFormsInv, NextKeepsUnsaved, PTL DEF FormsSpec

\* The permissions in force are the ticks of the window that wrote last.
THEOREM LastTickTheorem == FormsSpec => []LastTickInForce
BY InitForms, NextKeepsFormsInv, NextKeepsLastTick, PTL DEF FormsSpec

\* What a tab says of its draft is so, in any number of windows.
THEOREM DraftsAreHonestTheorem == FormsSpec => []DraftsAreHonest
BY UnsavedIsOfferedTheorem, LastTickTheorem, PTL DEF DraftsAreHonest

\* A save that writes every key of its tab changes none that was left alone, unless another
\* window wrote since: until then a draft agrees with storage wherever it was not edited.
THEOREM LeftAloneTheorem == FormsSpec => LeftAloneKept
<1>1. FormsInv /\ [FormsNext]_formVars => [OnlyEdited]_formVars
  BY NextKeepsFormsInv
<1>2. FormsSpec => [][OnlyEdited]_formVars
  BY <1>1, InitForms, NextKeepsFormsInv, PTL DEF FormsSpec
<1>3. QED
  BY <1>2 DEF LeftAloneKept, OnlyEdited

-----------------------------------------------------------------------------
(* The health of the services                                              *)

\* Neither count is smaller than what it counts: the timers of the tab are why.
HealthInv == HealthTypeOK /\ NeverTooFresh

LEMMA CappedGrows ==
  ASSUME NEW m \in Nat, NEW n \in Nat, m <= n
  PROVE  /\ Capped(m) \in 0..MaxAge
         /\ Capped(m) <= Capped(n)
BY HealthAssumption DEF Capped

LEMMA InitHealthInv == HealthInit => HealthInv
<1> SUFFICES ASSUME HealthInit PROVE HealthInv
  OBVIOUS
<1>1. HealthTypeOK
  <2>1. services \in [Services -> ServiceStatuses]
    BY DEF HealthInit, ServiceStatuses
  <2>2. {polling, refreshing, trusted} \subseteq BOOLEAN
    BY DEF HealthInit
  <2>3. {lastChecked, age} \subseteq 0..MaxAge /\ sincePoll \in 0..PollPeriod /\ timers \in 1..2
    BY HealthAssumption DEF HealthInit
  <2>4. QED
    BY <2>1, <2>2, <2>3 DEF HealthTypeOK
<1>2. NeverTooFresh
  BY DEF HealthInit, NeverTooFresh
<1>3. QED
  BY <1>1, <1>2 DEF HealthInv

LEMMA NextHealthInv == HealthInv /\ [HealthNext]_healthVars => HealthInv'
<1> SUFFICES ASSUME HealthInv, [HealthNext]_healthVars PROVE HealthInv'
  OBVIOUS
<1> USE HealthAssumption DEF HealthInv, HealthTypeOK, NeverTooFresh
<1>1. CASE ServiceTurns
  BY <1>1 DEF ServiceTurns
<1>2. CASE HealthTick
  <2>1. /\ lastChecked + timers \in Nat /\ age + 1 \in Nat
        /\ lastChecked >= age => age + 1 <= lastChecked + timers
    OBVIOUS
  <2>2. /\ lastChecked' \in 0..MaxAge /\ age' \in 0..MaxAge
        /\ lastChecked >= age => lastChecked' >= age'
    BY <1>2, <2>1, CappedGrows DEF HealthTick
  <2>3. sincePoll' \in 0..PollPeriod
    BY <1>2 DEF HealthTick
  <2>4. QED
    BY <1>2, <2>2, <2>3 DEF HealthTick
<1>3. CASE Poll
  BY <1>3 DEF Poll
<1>4. CASE Refresh
  BY <1>4 DEF Refresh
\* A refresh that fails ends the trust; any other poll that ends resets no count but the
\* one of a fresh copy.
<1>5. CASE HealthAnswered
  <2>1. polling' = FALSE /\ refreshing' = FALSE /\ sincePoll' = 0 /\ UNCHANGED <<services, timers>>
    BY <1>5 DEF HealthAnswered
  <2>2. lastChecked' \in 0..MaxAge
    BY <1>5 DEF HealthAnswered
  <2>3. CASE age' = 0 /\ trusted' = trusted
    <3>1. {polling', refreshing', trusted'} \subseteq BOOLEAN
      BY <2>1, <2>3, Zenon
    <3>2. lastChecked' >= age'
      BY <2>2, <2>3
    <3>3. QED
      BY <2>1, <2>2, <2>3, <3>1, <3>2
  <2>4. CASE trusted' = (trusted /\ ~refreshing) /\ UNCHANGED <<shown, age>>
    <3>1. trusted' \in BOOLEAN /\ (trusted' => trusted /\ ~refreshing)
      BY <2>4
    <3>2. trusted' => trusted /\ lastChecked' = lastChecked
      BY <1>5, <3>1 DEF HealthAnswered
    <3>3. NeverTooFresh'
      BY <2>4, <3>2
    <3>4. age' = age
      BY <2>4
    <3>5. {polling', refreshing', trusted'} \subseteq BOOLEAN
      BY <2>1, <3>1
    <3>6. HealthTypeOK'
      BY <2>1, <2>2, <3>4, <3>5
    <3>7. QED
      BY <3>3, <3>6
  <2>5. QED
    BY <1>5, <2>3, <2>4 DEF HealthAnswered
<1>6. CASE OpenHealth
  <2>1. trusted' => DOMAIN shown = {} \/ age = 0
    BY <1>6 DEF OpenHealth
  <2>2. {polling', refreshing', trusted'} \subseteq BOOLEAN
    BY <1>6 DEF OpenHealth
  <2>3. lastChecked' = 0 /\ sincePoll' = 0 /\ timers' \in 1..2 /\ UNCHANGED <<services, shown, age>>
    BY <1>6 DEF OpenHealth
  <2>4. QED
    BY <2>1, <2>2, <2>3
<1>7. CASE UNCHANGED healthVars
  BY <1>7 DEF healthVars
<1>8. QED
  BY <1>1, <1>2, <1>3, <1>4, <1>5, <1>6, <1>7 DEF HealthNext

\* The variables stay of their types and the counts under their bounds, however polls,
\* refreshes and visits to the tab follow each other.
THEOREM HealthTypes == HealthSpec => []HealthTypeOK
<1>1. HealthInv => HealthTypeOK
  BY DEF HealthInv
<1>2. QED
  BY <1>1, InitHealthInv, NextHealthInv, PTL DEF HealthSpec

\* "Last checked" never claims the copy newer than it is, whatever the poll period and
\* however many services: the timer that is never stopped can only make it count faster.
THEOREM NeverTooFreshTheorem == HealthSpec => []NeverTooFresh
<1>1. HealthInv => NeverTooFresh
  BY DEF HealthInv
<1>2. QED
  BY <1>1, InitHealthInv, NextHealthInv, PTL DEF HealthSpec

-----------------------------------------------------------------------------
(* The score                                                               *)

\* The copy of the tab is of all the services or of none.
ShownInv == HealthTypeOK /\ (DOMAIN shown = {} \/ shown \in [Services -> ServiceStatuses])

LEMMA ShownIsInvariant == HealthSpec => []ShownInv
<1>1. HealthInit => ShownInv
  <2> SUFFICES ASSUME HealthInit PROVE ShownInv
    OBVIOUS
  <2>1. DOMAIN shown = {}
    BY DEF HealthInit
  <2>2. QED
    BY <2>1, InitHealthInv DEF HealthInv, ShownInv
<1>2. ShownInv /\ HealthTypeOK' /\ [HealthNext]_healthVars => ShownInv'
  BY DEF ShownInv, HealthTypeOK, HealthNext, healthVars, ServiceTurns, HealthTick, Poll, Refresh,
     HealthAnswered, OpenHealth
<1>3. QED
  BY <1>1, <1>2, HealthTypes, PTL DEF HealthSpec

\* The services shown, counted by status.
LEMMA CountsAddUp ==
  ASSUME ShownInv
  PROVE  LET n == Cardinality(DOMAIN shown)
         IN  /\ {With("operational"), With("degraded"), With("down"), n} \subseteq Nat
             /\ With("operational") + With("degraded") + With("down") = n
             /\ n = 0 <=> DOMAIN shown = {}
             /\ n <= Cardinality(Services)
<1> DEFINE Rows == DOMAIN shown
           Up == {s \in Rows : shown[s] = "operational"}
           Half == {s \in Rows : shown[s] = "degraded"}
           Out == {s \in Rows : shown[s] = "down"}
<1>1. Rows \subseteq Services /\ \A s \in Rows : shown[s] \in ServiceStatuses
  BY DEF ShownInv
<1>2. IsFiniteSet(Rows) /\ Cardinality(Rows) <= Cardinality(Services)
  BY <1>1, HealthAssumption, FS_Subset
<1>3. IsFiniteSet(Up) /\ IsFiniteSet(Half) /\ IsFiniteSet(Out)
  BY <1>2, FS_Subset
<1>4. /\ Up \cap Half = {} /\ (Up \union Half) \cap Out = {}
      /\ (Up \union Half) \union Out = Rows
  BY <1>1 DEF ServiceStatuses
<1> HIDE DEF Rows, Up, Half, Out
<1>5. /\ {Cardinality(Up), Cardinality(Half), Cardinality(Out), Cardinality(Rows)} \subseteq Nat
      /\ Cardinality(Rows) = 0 <=> Rows = {}
      /\ Cardinality(Up \cap Half) = 0 /\ Cardinality((Up \union Half) \cap Out) = 0
  BY <1>2, <1>3, <1>4, FS_CardinalityType, FS_EmptySet
<1>6. /\ IsFiniteSet(Up \union Half)
      /\ Cardinality(Up \union Half) = Cardinality(Up) + Cardinality(Half) - Cardinality(Up \cap Half)
  BY <1>3, FS_Union
<1>7. Cardinality((Up \union Half) \union Out)
        = Cardinality(Up \union Half) + Cardinality(Out) - Cardinality((Up \union Half) \cap Out)
  BY <1>3, <1>6, FS_Union
<1>8. Cardinality(Up) + Cardinality(Half) + Cardinality(Out) = Cardinality(Rows)
  BY <1>4, <1>5, <1>6, <1>7
<1>9. With("operational") = Cardinality(Up) /\ With("degraded") = Cardinality(Half)
      /\ With("down") = Cardinality(Out)
  BY DEF With, Rows, Up, Half, Out
<1>10. QED
  BY <1>2, <1>5, <1>8, <1>9 DEF Rows

\* Half a per cent is less than what one service weighs, for up to nine of them.
LEMMA Rounding ==
  ASSUME NEW n \in 1..9, NEW h \in Nat, h <= 2 * n
  PROVE  LET score == (100 * h + n) \div (2 * n)
         IN  /\ score \in 0..100
             /\ score = 100 <=> h = 2 * n
             /\ h <= 2 * n - 2 => score < 90
<1> DEFINE score == (100 * h + n) \div (2 * n)
<1>1. score \in 0..100 /\ (score = 100 <=> h = 2 * n) /\ (h <= 2 * n - 2 => score < 90)
  <2>1. CASE n = 1
    BY <2>1
  <2>2. CASE n = 2
    BY <2>2
  <2>3. CASE n = 3
    BY <2>3
  <2>4. CASE n = 4
    BY <2>4
  <2>5. CASE n = 5
    BY <2>5
  <2>6. CASE n = 6
    BY <2>6
  <2>7. CASE n = 7
    BY <2>7
  <2>8. CASE n = 8
    BY <2>8
  <2>9. CASE n = 9
    BY <2>9
  <2>10. QED
    BY <2>1, <2>2, <2>3, <2>4, <2>5, <2>6, <2>7, <2>8, <2>9
<1>2. QED
  BY <1>1

LEMMA ScoreIsHonest ==
  ASSUME ShownInv, Cardinality(Services) <= 9
  PROVE  ScoreHonest
<1> DEFINE n == Cardinality(DOMAIN shown)
           up == With("operational")
           half == With("degraded")
           out == With("down")
           h == 2 * up + (IF Label = "Partial" THEN half ELSE 0)
<1>1. /\ up \in Nat /\ half \in Nat /\ out \in Nat /\ n \in Nat
      /\ up + half + out = n /\ (n = 0 <=> DOMAIN shown = {}) /\ n <= Cardinality(Services)
  BY CountsAddUp
<1>2. n <= 9
  <2>1. Cardinality(Services) \in Nat
    BY HealthAssumption, FS_CardinalityType
  <2>2. QED
    BY <1>1, <2>1
<1>3. Score = IF n = 0 THEN 0 ELSE (100 * h + n) \div (2 * n)
  BY DEF Score
<1>4. Label = IF n = 0 THEN "Unknown" ELSE IF out > 0 THEN "Critical"
              ELSE IF half > 0 THEN "Partial" ELSE "Healthy"
  BY <1>1 DEF Label
<1> HIDE DEF n, up, half, out
<1>5. CASE n = 0
  <2>1. Score = 0 /\ Label = "Unknown" /\ Colour = "red"
    BY <1>3, <1>4, <1>5 DEF Colour
  <2>2. QED
    BY <2>1 DEF ScoreHonest
<1>6. CASE n # 0
  <2>1. h \in Nat /\ h <= 2 * n /\ n \in 1..9
    BY <1>1, <1>2, <1>6
  <2>2. (h = 2 * n <=> Label = "Healthy") /\ (out > 0 => h <= 2 * n - 2)
    BY <1>1, <1>4, <1>6
  <2> HIDE DEF h
  <2>3. Score = (100 * h + n) \div (2 * n)
    BY <1>3, <1>6
  <2>4. Score \in 0..100 /\ (Score = 100 <=> h = 2 * n) /\ (h <= 2 * n - 2 => Score < 90)
    BY <2>1, <2>3, Rounding
  <2>5. Colour = "green" => out = 0
    BY <1>1, <2>2, <2>4 DEF Colour
  <2>6. QED
    BY <2>2, <2>4, <2>5 DEF ScoreHonest, out
<1>7. QED
  BY <1>5, <1>6

\* For up to nine services the score never rounds a failing service away, and green never
\* means one is down.  With ten, one of which is down, it is 90 and green.
THEOREM ScoreHonestTheorem ==
  ASSUME Cardinality(Services) <= 9
  PROVE  HealthSpec => []ScoreHonest
<1>1. ShownInv => ScoreHonest
  BY ScoreIsHonest
<1>2. QED
  BY <1>1, ShownIsInvariant, PTL

\* With the age under it: all the tab tells of up to nine services is so.
THEOREM HealthAsToldTheorem ==
  ASSUME Cardinality(Services) <= 9
  PROVE  HealthSpec => []HealthAsTold
BY ScoreHonestTheorem, NeverTooFreshTheorem, PTL DEF HealthAsTold

-----------------------------------------------------------------------------
(* The alerts on screen                                                    *)

\* The sum of five counts: the recursive function of Total exists, since it can be written down.
LEMMA TotalOfFive ==
  ASSUME NEW c \in [1..5 -> Nat]
  PROVE  Total(c) = c[1] + c[2] + c[3] + c[4] + c[5]
<1> DEFINE Sums(u) == u = [i \in 0..5 |-> IF i = 0 THEN 0 ELSE u[i - 1] + c[i]]
           f == [i \in 0..5 |-> CASE i = 0 -> 0
                                  [] i = 1 -> c[1]
                                  [] i = 2 -> c[1] + c[2]
                                  [] i = 3 -> c[1] + c[2] + c[3]
                                  [] i = 4 -> c[1] + c[2] + c[3] + c[4]
                                  [] i = 5 -> c[1] + c[2] + c[3] + c[4] + c[5]]
<1>1. c \in Seq(Nat) /\ Len(c) = 5
  <2>1. c \in Seq(Nat)
    BY SeqDef
  <2>2. DOMAIN c = 1..Len(c) /\ Len(c) \in Nat
    BY <2>1, LenProperties
  <2>3. 1..Len(c) = 1..5
    BY <2>2
  <2>4. QED
    BY <2>1, <2>2, <2>3
<1>2. Sums(f)
  <2>1. /\ f[0] = 0 /\ f[1] = c[1] /\ f[2] = c[1] + c[2] /\ f[3] = c[1] + c[2] + c[3]
        /\ f[4] = c[1] + c[2] + c[3] + c[4] /\ f[5] = c[1] + c[2] + c[3] + c[4] + c[5]
    OBVIOUS
  <2>2. {c[1], c[2], c[3], c[4], c[5]} \subseteq Nat
    OBVIOUS
  <2>3. ASSUME NEW i \in 0..5 PROVE f[i] = IF i = 0 THEN 0 ELSE f[i - 1] + c[i]
    <3> HIDE DEF f
    <3>1. i = 0 \/ i = 1 \/ i = 2 \/ i = 3 \/ i = 4 \/ i = 5
      OBVIOUS
    <3>2. QED
      BY <2>1, <2>2, <3>1
  <2>4. f = [i \in 0..5 |-> f[i]]
    OBVIOUS
  <2> HIDE DEF f
  <2>5. QED
    BY <2>3, <2>4
<1> HIDE DEF f
<1> DEFINE upto == CHOOSE u : Sums(u)
<1>3. Sums(upto)
  BY <1>2
<1>4. Total(c) = upto[5]
  BY <1>1 DEF Total
<1> HIDE DEF upto
<1>5. /\ upto[0] = 0 /\ upto[1] = upto[0] + c[1] /\ upto[2] = upto[1] + c[2]
      /\ upto[3] = upto[2] + c[3] /\ upto[4] = upto[3] + c[4] /\ upto[5] = upto[4] + c[5]
  <2>1. /\ 0 \in 0..5 /\ 1 \in 0..5 /\ 2 \in 0..5 /\ 3 \in 0..5 /\ 4 \in 0..5 /\ 5 \in 0..5
        /\ 1 - 1 = 0 /\ 2 - 1 = 1 /\ 3 - 1 = 2 /\ 4 - 1 = 3 /\ 5 - 1 = 4
    OBVIOUS
  <2>2. \A i \in 0..5 : upto[i] = IF i = 0 THEN 0 ELSE upto[i - 1] + c[i]
    BY <1>3
  <2>3. QED
    BY <2>1, <2>2
<1>6. {c[1], c[2], c[3], c[4], c[5]} \subseteq Nat
  OBVIOUS
<1>7. QED
  BY <1>4, <1>5, <1>6

\* The bands meet without overlapping: each score from 0 to 100 is in one.
LEMMA BandsCount ==
  ASSUME NEW S \in SUBSET Alerts
  PROVE  Total(Histogram(S, AlertScore, AlertBands)) = Cardinality(S)
<1> DEFINE In(b) == {a \in S : AlertBands[b].min <= AlertScore[a]
                               /\ AlertScore[a] < AlertBands[b].max}
           c == [b \in 1..5 |-> Cardinality(In(b))]
<1>1. IsFiniteSet(S) /\ \A a \in S : AlertScore[a] \in 0..100
  BY AlertsAssumption, FS_Subset
<1>2. /\ In(1) = {a \in S : 0 <= AlertScore[a] /\ AlertScore[a] < 20}
      /\ In(2) = {a \in S : 20 <= AlertScore[a] /\ AlertScore[a] < 40}
      /\ In(3) = {a \in S : 40 <= AlertScore[a] /\ AlertScore[a] < 60}
      /\ In(4) = {a \in S : 60 <= AlertScore[a] /\ AlertScore[a] < 80}
      /\ In(5) = {a \in S : 80 <= AlertScore[a] /\ AlertScore[a] < 101}
  BY DEF AlertBands
<1>3. /\ In(1) \cap In(2) = {} /\ (In(1) \union In(2)) \cap In(3) = {}
      /\ (In(1) \union In(2) \union In(3)) \cap In(4) = {}
      /\ (In(1) \union In(2) \union In(3) \union In(4)) \cap In(5) = {}
      /\ In(1) \union In(2) \union In(3) \union In(4) \union In(5) = S
  BY <1>1, <1>2
<1>4. \A b \in 1..5 : IsFiniteSet(In(b)) /\ Cardinality(In(b)) \in Nat
  BY <1>1, FS_Subset, FS_CardinalityType
<1>5. PICK A, B, C, D, E : A = In(1) /\ B = In(2) /\ C = In(3) /\ D = In(4) /\ E = In(5)
  OBVIOUS
<1>6. /\ IsFiniteSet(A) /\ IsFiniteSet(B) /\ IsFiniteSet(C) /\ IsFiniteSet(D) /\ IsFiniteSet(E)
      /\ c[1] = Cardinality(A) /\ c[2] = Cardinality(B) /\ c[3] = Cardinality(C)
      /\ c[4] = Cardinality(D) /\ c[5] = Cardinality(E)
  BY <1>4, <1>5
<1>7. c \in [1..5 -> Nat]
  BY <1>4
<1>8. Histogram(S, AlertScore, AlertBands) = c
  <2>1. DOMAIN AlertBands = 1..5
    BY DEF AlertBands
  <2>2. QED
    BY <2>1 DEF Histogram
<1> HIDE DEF In, c
<1>9. /\ IsFiniteSet(A \union B) /\ Cardinality(A \union B) = Cardinality(A) + Cardinality(B)
      /\ {Cardinality(A), Cardinality(B)} \subseteq Nat
  BY <1>3, <1>5, <1>6, DisjointSets
<1>10. /\ IsFiniteSet(A \union B \union C)
       /\ Cardinality(A \union B \union C) = Cardinality(A \union B) + Cardinality(C)
       /\ Cardinality(C) \in Nat
  BY <1>3, <1>5, <1>6, <1>9, DisjointSets
<1>11. /\ IsFiniteSet(A \union B \union C \union D)
       /\ Cardinality(A \union B \union C \union D) = Cardinality(A \union B \union C) + Cardinality(D)
       /\ Cardinality(D) \in Nat
  BY <1>3, <1>5, <1>6, <1>10, DisjointSets
<1>12. /\ Cardinality(A \union B \union C \union D \union E)
            = Cardinality(A \union B \union C \union D) + Cardinality(E)
       /\ Cardinality(E) \in Nat
  BY <1>3, <1>5, <1>6, <1>11, DisjointSets
<1>13. A \union B \union C \union D \union E = S
  BY <1>3, <1>5
<1>14. Total(c) = c[1] + c[2] + c[3] + c[4] + c[5]
  BY <1>7, TotalOfFive
<1>15. Total(c) = Cardinality(S)
  BY <1>6, <1>9, <1>10, <1>11, <1>12, <1>13, <1>14
<1>16. QED
  BY <1>8, <1>15

-----------------------------------------------------------------------------
(* Types of the alerts                                                     *)

AlertActions == {"investigate", "escalate", "close", "report"}

\* What is on screen, ticked or under way is about alerts there are.
AlertsAreThere ==
  /\ alertStatus \in [Alerts -> AlertStatuses]
  /\ DOMAIN alertView = ViewFields
  /\ alertView.fetch \in {"asked", "done"} /\ alertView.page \in Nat \ {0}
  /\ DOMAIN alertView.rows \subseteq Alerts
  /\ alertPicked \subseteq Alerts
  /\ alertCard = NoCall \/ (alertCard.id \in Alerts /\ alertCard.action \in AlertActions)
  /\ alertTracked \in 0..Card

\* A batch waits for alerts there are.
BatchTyped(batch) ==
  /\ BatchShape(batch) /\ batch.action \in AlertActions
  /\ batch.now \in Alerts /\ batch.todo \subseteq Alerts
BatchesTyped ==
  /\ DOMAIN alertBatch = Batches
  /\ \A b \in Batches : alertBatch[b] = NoBatch \/ BatchTyped(alertBatch[b])

LEMMA AnswersAreAlerts ==
  ASSUME NEW page \in Nat \ {0}, NEW filter
  PROVE  DOMAIN AlertsAnswer(page, filter) \subseteq Alerts
<1> DEFINE S == {a \in Alerts : filter = "any" \/ alertStatus[a] = filter}
           rows == PageOf(AlertsListed(filter), page, AlertPageSize)
<1>1. S \subseteq Alerts /\ AlertsListed(filter) = Ascending(S)
  BY DEF AlertsListed
<1>2. DOMAIN AlertsAnswer(page, filter) = {rows[i] : i \in DOMAIN rows}
  BY DEF AlertsAnswer
<1>3. Alerts \subseteq Int /\ IsFiniteSet(Alerts) /\ AlertPageSize \in Nat \ {0}
  BY AlertsAssumption
<1> HIDE DEF S
<1>4. IsFiniteSet(S)
  BY <1>1, <1>3, FS_Subset
<1>5. AlertsListed(filter) \in Seq(S)
  BY <1>1, <1>3, <1>4, AscendingLists
<1>6. \A i \in DOMAIN rows : rows[i] \in S
  BY <1>3, <1>5, PageLists
<1>7. QED
  BY <1>1, <1>2, <1>6

LEMMA ShowingIsTyped ==
  ASSUME AlertsAreThere, NEW page \in Nat \ {0}, NEW filter, AlertsShow(page, filter)
  PROVE  AlertsAreThere'
<1>1. PICK rows \in {<< >>, AlertsAnswer(page, filter)} :
        alertView' = [page |-> page, filter |-> filter, rows |-> rows, fetch |-> "asked",
                      total |-> IF rows = << >> THEN 0 ELSE Len(AlertsListed(filter))]
  BY DEF AlertsShow
<1>2. DOMAIN rows \subseteq Alerts
  BY <1>1, AnswersAreAlerts
<1>3. /\ DOMAIN alertView' = ViewFields /\ alertView'.fetch \in {"asked", "done"}
      /\ alertView'.page \in Nat \ {0} /\ DOMAIN alertView'.rows \subseteq Alerts
  BY <1>1, <1>2 DEF ViewFields
<1>4. UNCHANGED <<alertStatus, alertPicked, alertCard, alertBatch, alertTracked>>
  BY DEF AlertsShow, alertCalls
<1>5. QED
  BY <1>3, <1>4 DEF AlertsAreThere

LEMMA ApplyingIsTyped ==
  ASSUME AlertsAreThere, NEW a, NEW action \in AlertActions,
         AlertApplied(a, action) \/ UNCHANGED <<alertStatus, alertView>>
  PROVE  /\ alertStatus' \in [Alerts -> AlertStatuses]
         /\ DOMAIN alertView' = ViewFields
         /\ alertView'.fetch \in {"asked", "done"} /\ alertView'.page \in Nat \ {0}
         /\ DOMAIN alertView'.rows \subseteq Alerts
<1>1. AlertAfter(action) \in AlertStatuses
  BY DEF AlertAfter, AlertActions, AlertStatuses
<1>2. QED
  BY <1>1 DEF AlertApplied, AlertsAreThere, ViewFields

\* The next round of a batch whose answer is counted.
LEMMA ContinuingIsTyped ==
  ASSUME BatchesTyped, alertPicked \subseteq Alerts, alertTracked \in 0..Card,
         NEW b \in Batches, NEW batch, BatchContinues(b, batch),
         BatchShape(batch), batch.action \in AlertActions, batch.todo \subseteq Alerts
  PROVE  BatchesTyped' /\ alertPicked' \subseteq Alerts /\ alertTracked' \in 0..Card
<1>1. b \in 0..Card /\ Nobody \in 0..Card
  BY AlertsAssumption DEF Batches, Card, Nobody
<1>2. CASE /\ \E a \in batch.todo :
                alertBatch' = [alertBatch EXCEPT ![b] = [batch EXCEPT !.now = a, !.todo = @ \ {a}]]
           /\ alertTracked' = IF batch.mounted THEN b ELSE alertTracked
           /\ UNCHANGED alertPicked
  <2>1. PICK a \in batch.todo :
          alertBatch' = [alertBatch EXCEPT ![b] = [batch EXCEPT !.now = a, !.todo = @ \ {a}]]
    BY <1>2
  <2> DEFINE new == [batch EXCEPT !.now = a, !.todo = @ \ {a}]
  <2>2. BatchTyped(new)
    BY DEF BatchTyped, BatchShape, BatchFields
  <2>3. alertBatch' = [alertBatch EXCEPT ![b] = new]
    BY <2>1
  <2> HIDE DEF new
  <2>4. BatchesTyped'
    BY <2>2, <2>3 DEF BatchesTyped
  <2>5. QED
    BY <1>1, <1>2, <2>4
<1>3. CASE /\ alertBatch' = [alertBatch EXCEPT ![b] = NoBatch]
           /\ alertPicked' = IF batch.mounted THEN {} ELSE alertPicked
           /\ alertTracked' = IF alertTracked = b THEN Nobody ELSE alertTracked
  BY <1>1, <1>3 DEF BatchesTyped
<1>4. QED
  BY <1>2, <1>3 DEF BatchContinues

LEMMA NextKeepsAlertTypes ==
  ASSUME AlertsAreThere, BatchesTyped, [AlertsNext]_alertVars
  PROVE  AlertsAreThere' /\ BatchesTyped'
<1>1. alertBatch' = alertBatch => BatchesTyped'
  BY DEF BatchesTyped
<1>2. Nobody \in 0..Card /\ Card \in 0..Card /\ \A b \in Batches : b \in 0..Card
  BY AlertsAssumption DEF Batches, Card, Nobody
<1>3. CASE FilterAlerts
  <2>1. alertView.page \in Nat \ {0} /\ alertBatch' = alertBatch
    BY <1>3 DEF FilterAlerts, AlertsShow, alertCalls, AlertsAreThere
  <2>2. QED
    BY <1>1, <1>3, <2>1, ShowingIsTyped DEF FilterAlerts
<1>4. CASE TurnAlertPage
  <2>1. alertBatch' = alertBatch
    BY <1>4 DEF TurnAlertPage, AlertsShow, alertCalls
  <2>2. /\ alertView.page > 1 => alertView.page - 1 \in Nat \ {0}
        /\ alertView.page + 1 \in Nat \ {0}
    BY DEF AlertsAreThere
  <2>3. QED
    BY <1>1, <1>4, <2>1, <2>2, ShowingIsTyped DEF TurnAlertPage
<1>5. CASE AlertsAnswered
  <2>1. DOMAIN AlertsAnswer(alertView.page, alertView.filter) \subseteq Alerts
    BY AnswersAreAlerts DEF AlertsAreThere
  <2>2. QED
    BY <1>1, <1>5, <2>1 DEF AlertsAnswered, AlertsAreThere, ViewFields, alertCalls
<1>6. CASE AlertsFetchFailed
  BY <1>1, <1>6 DEF AlertsFetchFailed, AlertsAreThere, ViewFields, alertCalls
<1>7. CASE AlertElsewhere
  <2>1. AlertAfter("close") \in AlertStatuses
    BY DEF AlertAfter, AlertStatuses
  <2>2. QED
    BY <1>1, <1>7, <2>1 DEF AlertElsewhere, AlertsAreThere, alertCalls
<1>8. CASE LeaveAlerts
  <2>1. PICK rows \in {<< >>, AlertsAnswer(1, "any")} :
          alertView' = [page |-> 1, filter |-> "any", rows |-> rows, fetch |-> "asked",
                        total |-> IF rows = << >> THEN 0 ELSE Len(AlertsListed("any"))]
    BY <1>8 DEF LeaveAlerts
  <2>2. 1 \in Nat \ {0}
    OBVIOUS
  <2>3. DOMAIN rows \subseteq Alerts
    BY <2>1, <2>2, AnswersAreAlerts
  <2>4. AlertsAreThere'
    BY <1>2, <1>8, <2>1, <2>2, <2>3 DEF LeaveAlerts, AlertsAreThere, ViewFields
  <2>5. ASSUME NEW b \in Batches PROVE alertBatch'[b] = NoBatch \/ BatchTyped(alertBatch'[b])
    <3>1. alertBatch'[b] = IF alertBatch[b] = NoBatch THEN NoBatch
                           ELSE [alertBatch[b] EXCEPT !.mounted = FALSE]
      BY <1>8 DEF LeaveAlerts
    <3>2. BatchTyped(alertBatch[b]) => BatchTyped([alertBatch[b] EXCEPT !.mounted = FALSE])
      BY DEF BatchTyped, BatchShape, BatchFields
    <3>3. QED
      BY <3>1, <3>2 DEF BatchesTyped
  <2>6. BatchesTyped'
    BY <1>8, <2>5 DEF BatchesTyped, LeaveAlerts
  <2>7. QED
    BY <2>4, <2>6
<1>9. CASE PickAlerts
  <2>1. alertPicked' \subseteq Alerts
    BY <1>9 DEF PickAlerts, AlertsShown, AlertsAreThere, Toggled, ToggledAll
  <2>2. QED
    BY <1>1, <1>9, <2>1 DEF PickAlerts, AlertsAreThere, alertCalls
<1>10. CASE HandleAction
  <2>1. PICK a \in AlertsShown : \E action \in CardActions(alertView.rows[a]) :
          alertCard' = [id |-> a, action |-> action]
    BY <1>10 DEF HandleAction
  <2>2. PICK action \in CardActions(alertView.rows[a]) : alertCard' = [id |-> a, action |-> action]
    BY <2>1
  <2>3. action \in AlertActions /\ a \in Alerts
    BY DEF CardActions, AlertActions, AlertsShown, AlertsAreThere
  <2>4. QED
    BY <1>1, <1>2, <1>10, <2>2, <2>3 DEF HandleAction, AlertsAreThere
<1>11. CASE ActionSettled
  <2>1. alertCard.action \in AlertActions
    BY <1>11 DEF ActionSettled, AlertsAreThere
  <2>2. /\ alertStatus' \in [Alerts -> AlertStatuses]
        /\ DOMAIN alertView' = ViewFields
        /\ alertView'.fetch \in {"asked", "done"} /\ alertView'.page \in Nat \ {0}
        /\ DOMAIN alertView'.rows \subseteq Alerts
    BY <1>11, <2>1, ApplyingIsTyped DEF ActionSettled
  <2>3. QED
    BY <1>1, <1>2, <1>11, <2>2 DEF ActionSettled, AlertsAreThere
<1>12. ASSUME NEW b \in Batches, StartBatch(b) PROVE AlertsAreThere' /\ BatchesTyped'
  <2>1. PICK action \in BatchActions, a \in alertPicked :
          alertBatch' = [alertBatch EXCEPT ![b] =
            [NoBatch EXCEPT !.action = action, !.now = a, !.picked = alertPicked,
                            !.todo = alertPicked \ {a}]]
    BY <1>12 DEF StartBatch
  <2> DEFINE batch == [NoBatch EXCEPT !.action = action, !.now = a, !.picked = alertPicked,
                                      !.todo = alertPicked \ {a}]
  <2>2. action \in AlertActions /\ alertPicked \subseteq Alerts
    BY AlertsAssumption DEF AlertActions, AlertsAreThere
  <2>3. BatchTyped(batch)
    BY <2>2 DEF BatchTyped, NoBatch, BatchShape, BatchFields
  <2>4. alertBatch' = [alertBatch EXCEPT ![b] = batch]
    BY <2>1
  <2> HIDE DEF batch
  <2>5. BatchesTyped'
    BY <2>3, <2>4 DEF BatchesTyped
  <2>6. QED
    BY <1>2, <1>12, <2>5 DEF StartBatch, AlertsAreThere
<1>13. ASSUME NEW b \in Batches, BatchSettled(b) PROVE AlertsAreThere' /\ BatchesTyped'
  <2>1. BatchTyped(alertBatch[b])
    BY <1>13 DEF BatchSettled, BatchesTyped
  <2>2. PICK accepted \in BOOLEAN :
          /\ BatchContinues(b, Counted(alertBatch[b], accepted))
          /\ \/ AlertApplied(alertBatch[b].now, alertBatch[b].action)
             \/ UNCHANGED <<alertStatus, alertView>>
    BY <1>13 DEF BatchSettled
  <2>3. PICK batch : batch = Counted(alertBatch[b], accepted)
    OBVIOUS
  <2>4. BatchShape(batch) /\ batch.action \in AlertActions /\ batch.todo \subseteq Alerts
    BY <2>1, <2>3 DEF BatchTyped, Counted, BatchShape, BatchFields
  <2>5. BatchesTyped' /\ alertPicked' \subseteq Alerts /\ alertTracked' \in 0..Card
    BY <2>2, <2>3, <2>4, ContinuingIsTyped DEF AlertsAreThere
  <2>6. /\ alertStatus' \in [Alerts -> AlertStatuses]
        /\ DOMAIN alertView' = ViewFields
        /\ alertView'.fetch \in {"asked", "done"} /\ alertView'.page \in Nat \ {0}
        /\ DOMAIN alertView'.rows \subseteq Alerts
    BY <2>1, <2>2, ApplyingIsTyped DEF BatchTyped
  <2>7. alertCard' = alertCard
    BY <1>13 DEF BatchSettled
  <2>8. QED
    BY <2>5, <2>6, <2>7 DEF AlertsAreThere
<1>14. CASE UNCHANGED alertVars
  BY <1>14 DEF alertVars, AlertsAreThere, BatchesTyped
<1>15. QED
  BY <1>3, <1>4, <1>5, <1>6, <1>7, <1>8, <1>9, <1>10, <1>11, <1>12, <1>13, <1>14 DEF AlertsNext

\* What is on screen and ticked is alerts there are, and the histogram counts each of them once,
\* whatever its score.
LEMMA AlertsTold == AlertsSpec => []AlertsTypeOK /\ []AlertsAllCounted
<1>1. AlertsInit => AlertsAreThere /\ BatchesTyped
  <2> SUFFICES ASSUME AlertsInit PROVE AlertsAreThere /\ BatchesTyped
    OBVIOUS
  <2>1. alertStatus \in [Alerts -> AlertStatuses]
    BY DEF AlertsInit, AlertStatuses
  <2>2. Nobody \in 0..Card
    BY AlertsAssumption DEF Card, Nobody
  <2>3. /\ DOMAIN alertView = ViewFields /\ alertView.fetch \in {"asked", "done"}
        /\ alertView.page \in Nat \ {0} /\ DOMAIN alertView.rows \subseteq Alerts
    BY DEF AlertsInit, ViewFields
  <2>4. QED
    BY <2>1, <2>2, <2>3 DEF AlertsInit, AlertsAreThere, BatchesTyped
<1>2. AlertsAreThere => AlertsTypeOK
  BY DEF AlertsAreThere, AlertsTypeOK, AlertsShown
<1>3. AlertsAreThere => AlertsAllCounted
  BY BandsCount DEF AlertsAreThere, AlertsAllCounted, AlertHistogram, AlertStats, AlertsShown
<1>4. AlertsAreThere /\ BatchesTyped /\ [AlertsNext]_alertVars => AlertsAreThere' /\ BatchesTyped'
  BY NextKeepsAlertTypes
<1>5. QED
  BY <1>1, <1>2, <1>3, <1>4, PTL DEF AlertsSpec

-----------------------------------------------------------------------------
(* The transactions tab                                                    *)

TxFields == {"page", "flagged", "dateFrom", "dateTo", "data", "total", "fetch"}

\* An hour and the day it is in.
LEMMA HoursOfDays ==
  ASSUME NEW H \in Nat \ {0}, NEW off \in 0..H - 1, NEW x \in Nat, NEW d \in Nat
  PROVE  /\ x >= d * H + off <=> (x \div H >= d /\ ~(x \div H = d /\ x % H < off))
         /\ x <= ((d * H + off) \div H) * H + H - 1 <=> x \div H <= d
<1> DEFINE q == x \div H
           r == x % H
           e == (d * H + off) \div H
<1>1. q \in Int /\ r \in 0..H - 1 /\ x = H * q + r
  OBVIOUS
<1>2. e \in Int /\ H * e <= d * H + off /\ d * H + off < H * (e + 1)
  <2>1. d * H + off \in Int
    OBVIOUS
  <2>2. \A y \in Int : y \div H \in Int /\ H * (y \div H) <= y /\ y < H * ((y \div H) + 1)
    OBVIOUS
  <2>3. QED
    BY <2>1, <2>2
<1> HIDE DEF q, r, e
<1>3. PICK a \in Int, b \in Int, c \in Int : a = H * q /\ b = H * d /\ c = H * e
  BY <1>1, <1>2
<1>4. /\ H * (q + 1) = a + H /\ H * (d + 1) = b + H /\ H * (e + 1) = c + H
      /\ d * H = b /\ e * H = c
  BY <1>1, <1>2, <1>3
<1>5. \A i, j \in Int : i < j => H * (i + 1) <= H * j
  <2> SUFFICES ASSUME NEW i \in Int, NEW j \in Int, i < j PROVE H * (i + 1) <= H * j
    OBVIOUS
  <2>1. i + 1 <= j /\ i + 1 \in Int
    OBVIOUS
  <2>2. \A m, n \in Int : m <= n => H * m <= H * n
    OBVIOUS
  <2>3. QED
    BY <2>1, <2>2
<1>6. (q < d => a + H <= b) /\ (d < q => b + H <= a)
      /\ (e < d => c + H <= b) /\ (d < e => b + H <= c)
  BY <1>1, <1>2, <1>3, <1>4, <1>5
<1>7. e = d
  <2>1. c <= b + off /\ b + off < c + H
    BY <1>2, <1>3, <1>4
  <2>2. QED
    BY <1>2, <1>3, <1>6, <2>1
<1>8. x = a + r
  BY <1>1, <1>3
<1>9. x >= b + off <=> (q >= d /\ ~(q = d /\ r < off))
  <2>1. q = d => a = b
    BY <1>3
  <2>2. QED
    BY <1>1, <1>3, <1>6, <1>8, <2>1
<1>10. x <= c + H - 1 <=> q <= d
  <2>1. c = b /\ (q = d => a = b)
    BY <1>3, <1>7
  <2>2. QED
    BY <1>1, <1>3, <1>6, <1>8, <2>1
<1>11. QED
  BY <1>4, <1>9, <1>10 DEF q, r, e

\* A page of transactions is of those that arrived, and no list is longer than they are many.
LEMMA TxListHolds ==
  ASSUME txArrived \subseteq Transactions, NEW flagged, NEW page \in Nat \ {0}
  PROVE  /\ TxPage(page, flagged) \subseteq txArrived
         /\ Len(TxListed(flagged)) \in Nat
         /\ Len(TxListed(flagged)) <= Cardinality(txArrived)
         /\ Cardinality(txArrived) \in Nat
<1> DEFINE S == {t \in txArrived : flagged => t \in TxFlagged}
           rows == PageOf(TxListed(flagged), page, TxPageSize)
<1>1. S \subseteq txArrived /\ TxListed(flagged) = Ascending(S)
  BY DEF TxListed
<1>2. TxPage(page, flagged) = {rows[i] : i \in DOMAIN rows}
  BY DEF TxPage
<1>3. txArrived \subseteq Int /\ TxPageSize \in Nat \ {0} /\ IsFiniteSet(Transactions)
  BY TransactionsAssumption
<1> HIDE DEF S
<1>4. IsFiniteSet(txArrived) /\ IsFiniteSet(S)
  BY <1>1, <1>3, FS_Subset
<1>5. Cardinality(S) \in Nat /\ Cardinality(txArrived) \in Nat
      /\ Cardinality(S) <= Cardinality(txArrived)
  BY <1>1, <1>4, FS_Subset, FS_CardinalityType
<1>6. TxListed(flagged) \in Seq(S) /\ Len(TxListed(flagged)) = Cardinality(S)
  BY <1>1, <1>3, <1>4, AscendingLists
<1>7. \A i \in DOMAIN rows : rows[i] \in S
  BY <1>3, <1>6, PageLists
<1>8. QED
  BY <1>1, <1>2, <1>5, <1>6, <1>7

TxInv ==
  /\ TxTypeOK
  /\ DOMAIN txView = TxFields
  /\ txView.page \in Nat \ {0}
  /\ txView.total \in Nat /\ txView.total <= Cardinality(txArrived)

\* Filters leave the page alone, but no filter lists more than all that arrived.
TxPageInv == txView.page <= Pages(Cardinality(txArrived), TxPageSize)

\* The rest of the tab is as it was.
TxOthersKept ==
  txArrived' = txArrived /\ txPicked' \subseteq Transactions
  /\ txPanel'.where \in {"none", "detail", "investigation"}

LEMMA TxViewShows ==
  ASSUME TxInv, TxOthersKept,
         NEW view, txView' = view, DOMAIN view = TxFields,
         view.data \subseteq txArrived, view.page \in Nat \ {0},
         view.dateFrom \in Days, view.dateTo \in Days,
         view.total \in Nat, view.total <= Cardinality(txArrived)
  PROVE  TxInv'
BY DEF TxInv, TxTypeOK, TxOthersKept

LEMMA TxShowKeeps ==
  ASSUME TxInv, TxOthersKept, NEW page \in Nat \ {0}, NEW flagged, TxShow(page, flagged)
  PROVE  TxInv' /\ txView'.page = page
<1>1. PICK rows \in {{}, TxPage(page, flagged)} :
        txView' = [txView EXCEPT !.page = page, !.flagged = flagged, !.data = rows,
                     !.total = IF rows = {} THEN 0 ELSE Len(TxListed(flagged)), !.fetch = "asked"]
  BY DEF TxShow
<1>2. txArrived \subseteq Transactions
  BY DEF TxInv, TxTypeOK
<1>3. rows \subseteq txArrived /\ Len(TxListed(flagged)) \in Nat
      /\ Len(TxListed(flagged)) <= Cardinality(txArrived) /\ Cardinality(txArrived) \in Nat
  BY <1>1, <1>2, TxListHolds
<1>4. PICK total : total = IF rows = {} THEN 0 ELSE Len(TxListed(flagged))
  OBVIOUS
<1>5. total \in Nat /\ total <= Cardinality(txArrived)
  BY <1>3, <1>4
<1>6. PICK view : view = [txView EXCEPT !.page = page, !.flagged = flagged, !.data = rows,
                            !.total = total, !.fetch = "asked"]
  OBVIOUS
<1>7. /\ DOMAIN view = TxFields /\ view.page = page /\ view.data = rows /\ view.total = total
      /\ view.dateFrom = txView.dateFrom /\ view.dateTo = txView.dateTo
  BY <1>6 DEF TxInv, TxFields
<1>8. view.dateFrom \in Days /\ view.dateTo \in Days
  BY <1>7 DEF TxInv, TxTypeOK
<1>9. txView' = view
  BY <1>1, <1>4, <1>6
<1>10. QED
  BY <1>3, <1>5, <1>7, <1>8, <1>9, TxViewShows

LEMMA PagesOfArrived ==
  ASSUME TxInv, NEW n \in Nat, n <= Cardinality(txArrived)
  PROVE  /\ Pages(n, TxPageSize) \in Nat
         /\ Pages(n, TxPageSize) <= Pages(Cardinality(txArrived), TxPageSize)
         /\ Pages(Cardinality(txArrived), TxPageSize) \in Nat
<1>1. txArrived \subseteq Transactions /\ TxPageSize \in Nat \ {0} /\ IsFiniteSet(Transactions)
  BY TransactionsAssumption DEF TxInv, TxTypeOK
<1>2. Cardinality(txArrived) \in Nat
  BY <1>1, FS_Subset, FS_CardinalityType
<1>3. QED
  BY <1>1, <1>2, PagesGrow

LEMMA NextKeepsTx ==
  ASSUME TxInv, [TxNext]_txVars
  PROVE  TxInv' /\ (TxPageInv /\ Cardinality(txArrived) > 0 => TxPageInv' /\ Cardinality(txArrived)' > 0)
<1> DEFINE Goal == TxPageInv /\ Cardinality(txArrived) > 0 => TxPageInv' /\ Cardinality(txArrived)' > 0
<1>1. /\ txArrived \subseteq Transactions /\ txView.data \subseteq txArrived
      /\ txView.dateFrom \in Days /\ txView.dateTo \in Days
      /\ txPicked \subseteq Transactions
      /\ txPanel.where \in {"none", "detail", "investigation"}
      /\ DOMAIN txView = TxFields
      /\ txView.page \in Nat \ {0}
      /\ txView.total \in Nat /\ txView.total <= Cardinality(txArrived)
  BY DEF TxInv, TxTypeOK
<1>2. TxPageSize \in Nat \ {0} /\ IsFiniteSet(txArrived) /\ Cardinality(txArrived) \in Nat
  BY <1>1, TransactionsAssumption, FS_Subset, FS_CardinalityType
\* Nobody turns a page.
<1>3. ASSUME txArrived' = txArrived, txView'.page = txView.page PROVE Goal
  BY <1>3 DEF TxPageInv
<1>4. CASE TxArrives
  <2>1. PICK t \in Transactions \ txArrived : txArrived' = txArrived \union {t}
    BY <1>4 DEF TxArrives
  <2>2. UNCHANGED <<txView, txPicked, txPanel>>
    BY <1>4 DEF TxArrives
  <2>3. Cardinality(txArrived') = Cardinality(txArrived) + 1
    BY <1>2, <2>1, FS_AddElement
  <2>4. TxInv'
    BY <1>1, <1>2, <2>1, <2>2, <2>3 DEF TxInv, TxTypeOK
  <2>5. /\ Pages(Cardinality(txArrived), TxPageSize) \in Nat
        /\ Pages(Cardinality(txArrived'), TxPageSize) \in Nat
        /\ Pages(Cardinality(txArrived), TxPageSize) <= Pages(Cardinality(txArrived'), TxPageSize)
    BY <1>2, <2>3, PagesGrow
  <2>6. TxPageInv => TxPageInv'
    BY <1>1, <2>2, <2>5 DEF TxPageInv
  <2>7. QED
    BY <1>2, <2>3, <2>4, <2>6
<1>5. CASE TxAnswered
  <2>1. PICK data, total :
          /\ data = TxPage(txView.page, txView.flagged) /\ total = Len(TxListed(txView.flagged))
    OBVIOUS
  <2>2. data \subseteq txArrived /\ total \in Nat /\ total <= Cardinality(txArrived)
    BY <1>1, <2>1, TxListHolds
  <2>3. PICK view : view = [txView EXCEPT !.data = data, !.fetch = "done", !.total = total]
    OBVIOUS
  <2>4. /\ DOMAIN view = TxFields /\ view.page = txView.page /\ view.data = data
        /\ view.total = total /\ view.dateFrom = txView.dateFrom /\ view.dateTo = txView.dateTo
    BY <1>1, <2>3 DEF TxFields
  <2>5. txView' = view /\ TxOthersKept
    BY <1>1, <1>5, <2>1, <2>3 DEF TxAnswered, TxOthersKept
  <2>6. TxInv'
    BY <1>1, <2>2, <2>4, <2>5, TxViewShows
  <2>7. QED
    BY <1>3, <2>4, <2>5, <2>6 DEF TxOthersKept
<1>6. CASE TxFetchFailed
  <2>1. TxInv'
    BY <1>1, <1>6 DEF TxFetchFailed, TxInv, TxTypeOK, TxFields
  <2>2. QED
    BY <1>1, <1>3, <1>6, <2>1 DEF TxFetchFailed, TxFields
<1>7. CASE FilterTx
  <2>1. PICK flagged \in BOOLEAN : TxShow(txView.page, flagged)
    BY <1>7 DEF FilterTx
  <2>2. TxOthersKept
    BY <1>1, <1>7 DEF FilterTx, TxOthersKept
  <2>3. TxInv' /\ txView'.page = txView.page
    BY <1>1, <2>1, <2>2, TxShowKeeps
  <2>4. QED
    BY <1>3, <2>2, <2>3 DEF TxOthersKept
<1>8. CASE DateTx
  <2>1. 0 \in Days
    BY TransactionsAssumption
  <2>2. PICK from \in Days, to \in Days :
          txView' = [txView EXCEPT !.dateFrom = from, !.dateTo = to]
    <3>1. CASE \E d \in Days : txView' = [txView EXCEPT !.dateFrom = d]
      <4>1. PICK d \in Days : txView' = [txView EXCEPT !.dateFrom = d]
        BY <3>1
      <4>2. txView' = [txView EXCEPT !.dateFrom = d, !.dateTo = txView.dateTo]
        BY <1>1, <4>1 DEF TxFields
      <4>3. QED
        BY <1>1, <4>2
    <3>2. CASE \E d \in Days : txView' = [txView EXCEPT !.dateTo = d]
      <4>1. PICK d \in Days : txView' = [txView EXCEPT !.dateTo = d]
        BY <3>2
      <4>2. txView' = [txView EXCEPT !.dateFrom = txView.dateFrom, !.dateTo = d]
        BY <1>1, <4>1 DEF TxFields
      <4>3. QED
        BY <1>1, <4>2
    <3>3. CASE txView' = [txView EXCEPT !.dateFrom = 0, !.dateTo = 0]
      BY <2>1, <3>3
    <3>4. QED
      BY <1>8, <3>1, <3>2, <3>3 DEF DateTx
  <2>3. PICK view : view = [txView EXCEPT !.dateFrom = from, !.dateTo = to]
    OBVIOUS
  <2>4. /\ DOMAIN view = TxFields /\ view.page = txView.page /\ view.data = txView.data
        /\ view.total = txView.total /\ view.dateFrom = from /\ view.dateTo = to
    BY <1>1, <2>3 DEF TxFields
  <2>5. txView' = view /\ TxOthersKept
    BY <1>1, <1>8, <2>2, <2>3 DEF DateTx, TxOthersKept
  <2>6. TxInv'
    BY <1>1, <2>4, <2>5, TxViewShows
  <2>7. QED
    BY <1>3, <2>4, <2>5, <2>6 DEF TxOthersKept
\* Next is there only before the last page of a list that is no longer than all that arrived.
<1>9. CASE TurnTxPage
  <2>1. TxOthersKept
    BY <1>1, <1>9 DEF TurnTxPage, TxOthersKept
  <2>3. PICK page \in Nat \ {0} :
          /\ TxShow(page, txView.flagged)
          /\ page <= txView.page \/ page <= Pages(txView.total, TxPageSize)
    <3>1. CASE txView.page > 1 /\ TxShow(txView.page - 1, txView.flagged)
      <4>1. txView.page - 1 \in Nat \ {0} /\ txView.page - 1 <= txView.page
        BY <1>1, <3>1
      <4>2. QED
        BY <3>1, <4>1
    <3>2. CASE txView.page < Pages(txView.total, TxPageSize) /\ TxShow(txView.page + 1, txView.flagged)
      <4>1. Pages(txView.total, TxPageSize) \in Nat
        BY <1>1, PagesOfArrived
      <4>2. txView.page + 1 \in Nat \ {0} /\ txView.page + 1 <= Pages(txView.total, TxPageSize)
        BY <1>1, <3>2, <4>1
      <4>3. QED
        BY <3>2, <4>2
    <3>3. QED
      BY <1>9, <3>1, <3>2 DEF TurnTxPage
  <2>4. TxInv' /\ txView'.page = page
    BY <2>1, <2>3, TxShowKeeps
  <2>5. /\ Pages(txView.total, TxPageSize) \in Nat
        /\ Pages(txView.total, TxPageSize) <= Pages(Cardinality(txArrived), TxPageSize)
        /\ Pages(Cardinality(txArrived), TxPageSize) \in Nat
    BY <1>1, PagesOfArrived
  <2>6. TxPageInv => TxPageInv'
    BY <1>1, <2>1, <2>3, <2>4, <2>5 DEF TxPageInv, TxOthersKept
  <2>7. QED
    BY <2>1, <2>4, <2>6 DEF TxOthersKept
<1>10. CASE LeaveTx
  <2>1. PICK rows \in {{}, TxPage(1, FALSE)} :
          txView' = [page |-> 1, flagged |-> FALSE, dateFrom |-> 0, dateTo |-> 0, data |-> rows,
                     total |-> IF rows = {} THEN 0 ELSE Len(TxListed(FALSE)), fetch |-> "asked"]
    BY <1>10 DEF LeaveTx
  <2>2. 1 \in Nat \ {0}
    OBVIOUS
  <2>3. rows \subseteq txArrived /\ Len(TxListed(FALSE)) \in Nat
        /\ Len(TxListed(FALSE)) <= Cardinality(txArrived)
    <3>1. PICK flagged : flagged = FALSE
      OBVIOUS
    <3>2. /\ TxPage(1, flagged) \subseteq txArrived /\ Len(TxListed(flagged)) \in Nat
          /\ Len(TxListed(flagged)) <= Cardinality(txArrived)
      BY <1>1, <2>2, TxListHolds
    <3>3. QED
      BY <2>1, <3>1, <3>2
  <2>4. PICK total : total = IF rows = {} THEN 0 ELSE Len(TxListed(FALSE))
    OBVIOUS
  <2>5. total \in Nat /\ total <= Cardinality(txArrived)
    <3>1. PICK n : n = Len(TxListed(FALSE))
      OBVIOUS
    <3>2. n \in Nat /\ n <= Cardinality(txArrived) /\ (total = 0 \/ total = n)
      BY <2>3, <2>4, <3>1
    <3>3. QED
      BY <1>2, <3>2
  <2>6. PICK view : view = [page |-> 1, flagged |-> FALSE, dateFrom |-> 0, dateTo |-> 0, data |-> rows,
                            total |-> total, fetch |-> "asked"]
    OBVIOUS
  <2>7. /\ DOMAIN view = TxFields /\ view.page = 1 /\ view.data = rows
        /\ view.total = total /\ view.dateFrom = 0 /\ view.dateTo = 0
    BY <2>6 DEF TxFields
  <2>8. txView' = view /\ TxOthersKept
    BY <1>10, <2>1, <2>4, <2>6 DEF LeaveTx, TxOthersKept
  <2>9. TxInv'
    BY <2>2, <2>3, <2>5, <2>7, <2>8, TransactionsAssumption, TxViewShows
  <2>10. Cardinality(txArrived) > 0 => TxPageInv'
    <3>1. Cardinality(txArrived) > 0 => Pages(Cardinality(txArrived), TxPageSize) >= 1
      BY <1>2, PagesGrow
    <3>2. Pages(Cardinality(txArrived), TxPageSize) \in Nat
      BY <1>1, PagesOfArrived
    <3>3. QED
      BY <2>7, <2>8, <3>1, <3>2 DEF TxPageInv, TxOthersKept
  <2>11. QED
    BY <2>8, <2>9, <2>10 DEF TxOthersKept
<1>11. CASE PickTx \/ BulkTx \/ OpenTx \/ CloseTx \/ UNCHANGED txVars
  <2>1. txArrived' = txArrived /\ txView' = txView
    BY <1>11 DEF PickTx, BulkTx, OpenTx, CloseTx, txVars
  <2>2. txPicked' \subseteq Transactions
    BY <1>1, <1>11 DEF PickTx, BulkTx, OpenTx, CloseTx, txVars, TxShown, Toggled, ToggledAll
  <2>3. txPanel'.where \in {"none", "detail", "investigation"}
    BY <1>1, <1>11 DEF PickTx, BulkTx, OpenTx, CloseTx, txVars
  <2>4. TxInv'
    BY <1>1, <2>1, <2>2, <2>3 DEF TxInv, TxTypeOK
  <2>5. QED
    BY <1>3, <2>1, <2>4
<1>12. QED
  BY <1>4, <1>5, <1>6, <1>7, <1>8, <1>9, <1>10, <1>11 DEF TxNext

LEMMA WindowHolds ==
  ASSUME TxInv PROVE TxDateWindow
<1>1. /\ txView.data \subseteq Transactions /\ txView.dateFrom \in Nat /\ txView.dateTo \in Nat
      /\ HoursPerDay \in Nat \ {0} /\ UtcOffset \in 0..HoursPerDay - 1
      /\ \A t \in Transactions : TxHour[t] \in Nat
  BY TransactionsAssumption DEF TxInv, TxTypeOK
<1> DEFINE DayOf(t) == TxHour[t] \div HoursPerDay
           Early(t) == /\ txView.dateFrom # 0 /\ DayOf(t) = txView.dateFrom
                       /\ TxHour[t] % HoursPerDay < UtcOffset
           Inside(t) == /\ txView.dateFrom # 0 => DayOf(t) >= txView.dateFrom
                        /\ txView.dateTo # 0 => DayOf(t) <= txView.dateTo
<1>2. ASSUME NEW t \in txView.data PROVE InDates(t) <=> (Inside(t) /\ ~Early(t))
  <2>1. TxHour[t] \in Nat
    BY <1>1
  <2>2. TxHour[t] >= FromInstant(txView.dateFrom)
          <=> (DayOf(t) >= txView.dateFrom
               /\ ~(DayOf(t) = txView.dateFrom /\ TxHour[t] % HoursPerDay < UtcOffset))
    BY <1>1, <2>1, HoursOfDays DEF FromInstant
  <2>3. TxHour[t] <= ToInstant(txView.dateTo) <=> DayOf(t) <= txView.dateTo
    BY <1>1, <2>1, HoursOfDays DEF ToInstant
  <2> HIDE DEF DayOf
  <2>4. QED
    BY <2>2, <2>3 DEF InDates
<1>3. TxShown = {t \in txView.data : Inside(t) /\ ~Early(t)}
  BY <1>2 DEF TxShown
<1>4. QED
  BY <1>3 DEF TxDateWindow

LEMMA InitTx == TxInit => TxInv
<1> SUFFICES ASSUME TxInit PROVE TxInv
  OBVIOUS
<1>1. txArrived \subseteq Transactions /\ 0 \in Days /\ IsFiniteSet(Transactions)
  BY TransactionsAssumption DEF TxInit
<1>2. Cardinality(txArrived) \in Nat
  BY <1>1, FS_Subset, FS_CardinalityType
<1>3. QED
  BY <1>1, <1>2 DEF TxInit, TxInv, TxTypeOK, TxFields

LEMMA InitTxPage ==
  ASSUME TxInit, Transactions # {}
  PROVE  TxPageInv /\ Cardinality(txArrived) > 0
<1>1. /\ Transactions \in SUBSET Int /\ IsFiniteSet(Transactions) /\ TxPageSize \in Nat \ {0}
      /\ txArrived \subseteq Transactions
  BY TransactionsAssumption DEF TxInit
<1>2. Cardinality(Transactions) \in Nat /\ Cardinality(Transactions) # 0
  BY <1>1, FS_CardinalityType, FS_EmptySet
<1>3. 1 \in 1..Cardinality(Transactions)
  BY <1>2
<1>4. PICK x \in Transactions : Cardinality({y \in Transactions : y < x}) = 1 - 1
  BY <1>1, <1>3, PlacesFromBottom
<1>5. {y \in Transactions : y < x} = {}
  <2>1. IsFiniteSet({y \in Transactions : y < x})
    BY <1>1, FS_Subset
  <2>2. Cardinality({y \in Transactions : y < x}) = 0
    BY <1>4
  <2>3. QED
    BY <2>1, <2>2, FS_EmptySet
<1>6. x \in txArrived
  BY <1>1, <1>5 DEF TxInit
<1>7. IsFiniteSet(txArrived)
  BY <1>1, FS_Subset
<1>8. Cardinality(txArrived) \in Nat /\ Cardinality(txArrived) # 0
  BY <1>6, <1>7, FS_CardinalityType, FS_EmptySet
<1>9. Pages(Cardinality(txArrived), TxPageSize) >= 1
  BY <1>1, <1>8, PagesGrow
<1>10. QED
  BY <1>8, <1>9 DEF TxInit, TxPageInv

\* The table is the chosen days of the page, but the hours of the first that the clock is ahead:
\* for days of any length and any offset shorter than a day.
LEMMA TxTold == TxSpec => []TxTypeOK /\ []TxDateWindow
<1>1. TxInv => TxTypeOK
  BY DEF TxInv
<1>2. TxInv => TxDateWindow
  BY WindowHolds
<1>3. TxInv /\ [TxNext]_txVars => TxInv'
  BY NextKeepsTx
<1>4. QED
  BY <1>1, <1>2, <1>3, InitTx, PTL DEF TxSpec

\* No turned page is past the end of the list, which only grows.
LEMMA TxPaged ==
  ASSUME Transactions # {}
  PROVE  TxSpec => []TxPageExists
<1> DEFINE Inv == TxInv /\ TxPageInv /\ Cardinality(txArrived) > 0
<1>1. TxInit => Inv
  BY InitTx, InitTxPage
<1>2. Inv /\ [TxNext]_txVars => Inv'
  BY NextKeepsTx
<1>3. Inv => TxPageExists
  BY DEF TxPageInv, TxPageExists
<1>4. QED
  BY <1>1, <1>2, <1>3, PTL DEF TxSpec

-----------------------------------------------------------------------------
(* The rules tab                                                           *)

\* A key that is not skipped has a phrase of its own, which tells it.
LEMMA PhraseTells ==
  ASSUME NEW C, NEW key \in C \ Skipped(C), NEW told \in Phrase(C, key) \cap C
  PROVE  told \in Visible(C)
BY DEF Visible

LEMMA OwnPhrase ==
  ASSUME NEW C, NEW key PROVE key \in Phrase(C, key)
BY DEF Phrase

\* What the phrase of a field takes in is what is skipped because of it.
LEMMA ConditionsTold ==
  ASSUME NEW C \in SUBSET ConditionKeys, HasField(C) => {"operator", "value"} \subseteq C
  PROVE  C \ Visible(C)
           \subseteq (IF {"amount", "minAmount"} \intersect C = {} THEN {"currency"} ELSE {})
<1> SUFFICES ASSUME NEW key \in C, key \notin Visible(C)
             PROVE  key = "currency" /\ {"amount", "minAmount"} \intersect C = {}
  OBVIOUS
<1>1. key \in Skipped(C)
  BY PhraseTells, OwnPhrase
<1>2. CASE key = "windowHours" /\ "countThreshold" \in C
  <2>1. "countThreshold" \notin Skipped(C) /\ "windowHours" \in Phrase(C, "countThreshold")
    BY DEF Skipped, Phrase
  <2>2. QED
    BY <1>2, <2>1, PhraseTells
<1>3. CASE HasField(C) /\ key \in {"operator", "value", "currency"}
  <2>1. PICK f \in {"amount", "field"} : f \in C
    BY <1>3 DEF HasField
  <2>2. f \notin Skipped(C)
    BY <2>1 DEF Skipped
  <2>3. {"operator", "value"} \subseteq C
    BY <1>3
  <2>4. Phrase(C, f) = {f, "operator", "value"} \union (IF f = "amount" THEN {"currency"} ELSE {})
    BY <2>1, <2>3 DEF Phrase
  <2>5. key = "currency"
    BY <1>3, <2>1, <2>2, <2>4, PhraseTells
  <2>6. "amount" \notin C
    <3>1. SUFFICES ASSUME "amount" \in C PROVE FALSE
      OBVIOUS
    <3>2. "amount" \notin Skipped(C) /\ "currency" \in Phrase(C, "amount")
      BY <2>3 DEF Skipped, Phrase
    <3>3. QED
      BY <2>5, <3>1, <3>2, PhraseTells
  <2>7. "minAmount" \notin C
    <3>1. SUFFICES ASSUME "minAmount" \in C PROVE FALSE
      OBVIOUS
    <3>2. "minAmount" \notin Skipped(C) /\ "currency" \in Phrase(C, "minAmount")
      BY DEF Skipped, Phrase
    <3>3. QED
      BY <2>5, <3>1, <3>2, PhraseTells
  <2>8. QED
    BY <2>5, <2>6, <2>7
<1>4. QED
  BY <1>1, <1>2, <1>3 DEF Skipped

RulesInv ==
  /\ RulesTypeOK
  /\ DOMAIN ruleList = {"shown", "asked"}
  /\ DOMAIN newRule = {"open", "named", "conditions", "mine"}
  /\ RulesFresh

LEMMA NextKeepsRules ==
  ASSUME RulesInv, [RulesNext]_ruleVars
  PROVE RulesInv'
<1>1. /\ rules \in Seq(Conditions) /\ Len(rules) \in Nat
      /\ ruleList.shown \in 0..Len(rules) /\ DOMAIN ruleList = {"shown", "asked"}
      /\ newRule.conditions \in Conditions \union {{}}
      /\ DOMAIN newRule = {"open", "named", "conditions", "mine"}
      /\ ruleCall \in Conditions \union {{}}
      /\ ~ruleList.asked => ruleList.shown = Len(rules)
  BY LenProperties DEF RulesInv, RulesTypeOK, RulesFresh
\* The rules and the list stay.
<1>2. ASSUME UNCHANGED <<rules, ruleList>>,
             newRule'.conditions \in Conditions \union {{}},
             DOMAIN newRule' = {"open", "named", "conditions", "mine"},
             ruleCall' \in Conditions \union {{}}
      PROVE  RulesInv'
  BY <1>1, <1>2 DEF RulesInv, RulesTypeOK, RulesFresh
<1>3. CASE RulesAnswered
  <2>1. Len(rules) \in 0..Len(rules)
    BY <1>1
  <2>2. QED
    BY <1>1, <1>3, <2>1 DEF RulesAnswered, RulesInv, RulesTypeOK, RulesFresh
<1>4. CASE OpenRuleDialog \/ TypeRule \/ CreateRule \/ UNCHANGED ruleVars
  <2>1. UNCHANGED <<rules, ruleList>>
    BY <1>4 DEF OpenRuleDialog, TypeRule, CreateRule, ruleVars
  <2>2. /\ newRule'.conditions \in Conditions \union {{}}
        /\ DOMAIN newRule' = {"open", "named", "conditions", "mine"}
    BY <1>1, <1>4 DEF OpenRuleDialog, TypeRule, CreateRule, ruleVars
  <2>3. ruleCall' \in Conditions \union {{}}
    BY <1>1, <1>4 DEF OpenRuleDialog, TypeRule, CreateRule, ruleVars
  <2>4. QED
    BY <1>2, <2>1, <2>2, <2>3
<1>5. CASE RuleSettled
  <2>1. ruleCall \in Conditions /\ ruleCall' = {}
    BY <1>1, <1>5 DEF RuleSettled
  <2>2. CASE UNCHANGED <<rules, ruleList, newRule>>
    BY <1>1, <1>2, <2>1, <2>2
  <2>3. CASE /\ rules' = Append(rules, ruleCall)
             /\ ruleList' = [ruleList EXCEPT !.asked = TRUE]
             /\ newRule' = [newRule EXCEPT !.open = @ /\ ~newRule.mine]
    <3>1. rules' \in Seq(Conditions) /\ Len(rules') = Len(rules) + 1
      BY <1>1, <2>1, <2>3, AppendProperties
    <3>2. ruleList'.shown \in 0..Len(rules')
      BY <1>1, <2>3, <3>1
    <3>3. /\ DOMAIN ruleList' = {"shown", "asked"} /\ ruleList'.asked
          /\ newRule'.conditions = newRule.conditions
          /\ DOMAIN newRule' = {"open", "named", "conditions", "mine"}
      BY <1>1, <2>3
    <3>4. QED
      BY <1>1, <2>1, <3>1, <3>2, <3>3 DEF RulesInv, RulesTypeOK, RulesFresh
  <2>4. QED
    BY <1>5, <2>2, <2>3 DEF RuleSettled
<1>6. CASE LeaveRules
  <2>1. PICK n \in {0, Len(rules)} : ruleList' = [shown |-> n, asked |-> TRUE]
    BY <1>6 DEF LeaveRules
  <2>2. n \in 0..Len(rules)
    BY <1>1, <2>1
  <2>3. /\ newRule' = [open |-> FALSE, named |-> FALSE, conditions |-> {}, mine |-> FALSE]
        /\ UNCHANGED <<rules, ruleCall>>
    BY <1>6 DEF LeaveRules
  <2>4. QED
    BY <1>1, <2>1, <2>2, <2>3 DEF RulesInv, RulesTypeOK, RulesFresh
<1>7. QED
  BY <1>3, <1>4, <1>5, <1>6 DEF RulesNext

\* The list has every rule, and the cards tell of each of them what it compares: for rules of
\* any of the nine keys.
LEMMA RulesShown == RulesSpec => []RulesTypeOK /\ []RulesFresh /\ []RulesTold
<1>1. RulesInit => RulesInv
  <2> SUFFICES ASSUME RulesInit PROVE RulesInv
    OBVIOUS
  <2>1. rules \in Seq(Conditions) /\ Len(rules) = 0
    BY EmptySeq DEF RulesInit
  <2>2. QED
    BY <2>1 DEF RulesInit, RulesInv, RulesTypeOK, RulesFresh
<1>2. RulesInv /\ [RulesNext]_ruleVars => RulesInv'
  BY NextKeepsRules
<1>3. RulesInv => RulesTypeOK /\ RulesFresh
  BY DEF RulesInv
<1>4. RulesInv => RulesTold
  <2> SUFFICES ASSUME RulesInv, NEW i \in 1..ruleList.shown,
                      HasField(rules[i]) => {"operator", "value"} \subseteq rules[i]
               PROVE  rules[i] \ Visible(rules[i])
                        \subseteq (IF {"amount", "minAmount"} \intersect rules[i] = {}
                                   THEN {"currency"} ELSE {})
    BY DEF RulesTold
  <2>1. rules \in Seq(Conditions) /\ Len(rules) \in Nat /\ ruleList.shown \in 0..Len(rules)
    BY LenProperties DEF RulesInv, RulesTypeOK
  <2>2. i \in 1..Len(rules)
    BY <2>1
  <2>3. rules[i] \in Conditions
    BY <2>1, <2>2, ElementOfSeq
  <2>4. rules[i] \in SUBSET ConditionKeys
    BY <2>3 DEF Conditions
  <2>5. QED
    BY <2>4, ConditionsTold
<1>5. QED
  BY <1>1, <1>2, <1>3, <1>4, PTL DEF RulesSpec

-----------------------------------------------------------------------------
(* The documents                                                           *)

DocRecord == [type : DocTypes, status : AnalysisStatuses]

IsDocKey(key) ==
  /\ DOMAIN key = {"page", "type", "status"}
  /\ key.page \in Nat \ {0}
  /\ key.type \in DocTypes \union {"any"}
  /\ key.status \in {"any", "analyzing"}

\* The documents that pass the filters of a key.
Passing(docs, key) ==
  {i \in DOMAIN docs : /\ key.type \in {"any", docs[i].type}
                       /\ key.status \in {"any", docs[i].status}}

\* The page of a key is there: the first, or one that what passes has.
PageThere(docs, key) ==
  key.page = 1 \/ key.page <= Pages(Cardinality(Passing(docs, key)), DocPageSize)

LEMMA PassingCounts ==
  ASSUME NEW docs \in Seq(DocRecord), NEW key
  PROVE  /\ Passing(docs, key) \in SUBSET Int /\ Passing(docs, key) \subseteq 1..Len(docs)
         /\ IsFiniteSet(Passing(docs, key)) /\ Cardinality(Passing(docs, key)) \in Nat
         /\ Pages(Cardinality(Passing(docs, key)), DocPageSize) \in Nat
<1>1. Len(docs) \in Nat /\ DOMAIN docs = 1..Len(docs)
  BY LenProperties
<1>2. Passing(docs, key) \subseteq 1..Len(docs)
  BY <1>1 DEF Passing
<1>3. IsFiniteSet(1..Len(docs))
  BY <1>1, PlacesCount
<1>4. IsFiniteSet(Passing(docs, key)) /\ Cardinality(Passing(docs, key)) \in Nat
  BY <1>2, <1>3, FS_Subset, FS_CardinalityType
<1>5. Pages(Cardinality(Passing(docs, key)), DocPageSize) \in Nat
  BY <1>4, DocumentsAssumption, PagesHold
<1>6. QED
  BY <1>1, <1>2, <1>4, <1>5

\* The server's answer: rows of documents there are, and some if the page is there.
LEMMA DocumentsAnswer ==
  ASSUME documents \in Seq(DocRecord), NEW key, IsDocKey(key)
  PROVE  /\ DocumentsFor(key).total = Cardinality(Passing(documents, key))
         /\ \A n \in DOMAIN DocumentsFor(key).rows :
              DocumentsFor(key).rows[n].doc \in 1..Len(documents)
         /\ (PageThere(documents, key) /\ DocumentsFor(key).total > 0)
              => DocumentsFor(key).rows # << >>
<1>1. PICK passing : passing = Passing(documents, key)
  OBVIOUS
<1>2. /\ passing \in SUBSET Int /\ passing \subseteq 1..Len(documents)
      /\ IsFiniteSet(passing) /\ Cardinality(passing) \in Nat
      /\ Pages(Cardinality(passing), DocPageSize) \in Nat
  BY <1>1, PassingCounts
<1>3. PICK s : s = Descending(passing)
  OBVIOUS
<1>4. s \in Seq(passing) /\ Len(s) = Cardinality(passing)
  BY <1>2, <1>3, DescendingLists
<1>5. PICK p \in Nat \ {0} : p = key.page
  BY DEF IsDocKey
<1>6. PICK page : page = PageOf(s, p, DocPageSize)
  OBVIOUS
<1>7. /\ page \in Seq(passing) /\ \A n \in DOMAIN page : page[n] \in passing
      /\ DocPageSize * (p - 1) < Len(s) => page # << >>
  BY <1>4, <1>6, DocumentsAssumption, PageLists
<1>8. /\ DocumentsFor(key).rows = [n \in DOMAIN page |-> [doc |-> page[n], status |-> documents[page[n]].status]]
      /\ DocumentsFor(key).total = Cardinality(passing)
  BY <1>1, <1>3, <1>5, <1>6 DEF DocumentsFor, Passing
<1>9. \A n \in DOMAIN DocumentsFor(key).rows : DocumentsFor(key).rows[n].doc \in 1..Len(documents)
  BY <1>2, <1>7, <1>8
<1>10. ASSUME PageThere(documents, key), Cardinality(passing) > 0 PROVE DocumentsFor(key).rows # << >>
  <2>1. p = 1 \/ p <= Pages(Cardinality(passing), DocPageSize)
    BY <1>1, <1>5, <1>10 DEF PageThere
  <2>2. DocPageSize * (p - 1) < Cardinality(passing)
    <3>1. CASE p = 1
      <4>1. DocPageSize * (p - 1) = 0
        BY <3>1, DocumentsAssumption
      <4>2. QED
        BY <1>10, <4>1
    <3>2. CASE p <= Pages(Cardinality(passing), DocPageSize)
      <4>1. PICK q \in Nat : q = Pages(Cardinality(passing), DocPageSize)
        BY <1>2
      <4>2. DocPageSize * (q - 1) < Cardinality(passing)
        BY <1>2, <1>10, <4>1, DocumentsAssumption, PagesHold
      <4>3. DocPageSize * (p - 1) <= DocPageSize * (q - 1)
        <5>1. q - p \in Nat /\ DocPageSize \in Nat
          BY <3>2, <4>1, DocumentsAssumption
        <5>2. PICK size \in Nat, d \in Nat : size = DocPageSize /\ d = q - p
          BY <5>1
        <5>3. size * (q - 1) = size * (p - 1) + size * d /\ size * d \in Nat /\ size * (p - 1) \in Int
          BY <5>2
        <5>4. QED
          BY <5>2, <5>3
      <4>4. DocPageSize * (p - 1) \in Int /\ DocPageSize * (q - 1) \in Int
        BY DocumentsAssumption
      <4>5. QED
        BY <1>2, <4>2, <4>3, <4>4
    <3>3. QED
      BY <2>1, <3>1, <3>2
  <2>3. page # << >>
    BY <1>4, <1>7, <2>2
  <2>4. DOMAIN page # {}
    BY <1>7, <2>3, EmptySeq, LenProperties
  <2>5. DOMAIN DocumentsFor(key).rows # {}
    BY <1>8, <2>4
  <2>6. QED
    BY <2>5, EmptySeq, LenProperties
<1>11. QED
  BY <1>1, <1>8, <1>9, <1>10

\* Documents are never fewer, and keep their types: what passes a filter by type stays there.
LEMMA PassingGrows ==
  ASSUME NEW docs \in Seq(DocRecord), NEW later \in Seq(DocRecord), NEW key,
         \A i \in DOMAIN docs : i \in DOMAIN later /\ later[i].type = docs[i].type,
         key.status = "any"
  PROVE  /\ Cardinality(Passing(docs, key)) <= Cardinality(Passing(later, key))
         /\ PageThere(docs, key) /\ IsDocKey(key) => PageThere(later, key)
<1>1. Passing(docs, key) \subseteq Passing(later, key)
  BY DEF Passing
<1>2. Cardinality(Passing(docs, key)) <= Cardinality(Passing(later, key))
  BY <1>1, PassingCounts, FS_Subset
<1>3. PICK m \in Nat, n \in Nat :
        m = Cardinality(Passing(docs, key)) /\ n = Cardinality(Passing(later, key))
  BY PassingCounts
<1>4. Pages(m, DocPageSize) \in Nat /\ Pages(n, DocPageSize) \in Nat
      /\ Pages(m, DocPageSize) <= Pages(n, DocPageSize)
  BY <1>2, <1>3, DocumentsAssumption, PagesGrow
<1>5. QED
  BY <1>2, <1>3, <1>4 DEF PageThere, IsDocKey

\* What a query about a key may hold: rows of documents there are, and, unless the list is
\* narrowed by a status that documents leave, no more of them than there are, with rows if any.
DocQueryOK(docs, key, q) ==
  /\ IsQuery(q) /\ QueryOK(q)
  /\ q.rows.total \in Nat
  /\ \A n \in DOMAIN q.rows.rows : q.rows.rows[n].doc \in 1..Len(docs)
  /\ key.status = "any" => /\ q.rows.total <= Cardinality(Passing(docs, key))
                           /\ q.rows.total > 0 => q.rows.rows # << >>

DocBasics ==
  /\ documents \in Seq(DocRecord)
  /\ IsDocKey(docFilter)
  /\ docForm \in [type : DocTypes \union {"any"}, file : BOOLEAN]
  /\ DOMAIN analysis = {"type", "file", "here"}
  /\ analysis = NoAnalysis \/ analysis.type \in DocTypes
  /\ docDetail.doc \in 0..Len(documents)

DocInv ==
  /\ DocBasics
  /\ DocQueryOK(documents, docFilter, docQuery)
  /\ docFilter.status = "any" => PageThere(documents, docFilter)
  /\ DocumentsFresh

\* A query that begins, and the server's answer, hold what they may.
LEMMA DocQueryBegins ==
  ASSUME documents \in Seq(DocRecord), NEW key, IsDocKey(key)
  PROVE  DocQueryOK(documents, key, NewQuery(NoDocuments))
<1>1. PICK nothing : nothing = NoDocuments
  OBVIOUS
<1>2. PICK q : q = NewQuery(nothing)
  OBVIOUS
<1>3. IsQuery(q) /\ QueryOK(q) /\ q.rows = nothing
  BY <1>2, QueryBegins, QueryBeginsOK
<1>4. nothing.total = 0 /\ DOMAIN nothing.rows = {}
  BY <1>1, EmptySeq, LenProperties DEF NoDocuments
<1>5. Cardinality(Passing(documents, key)) \in Nat
  BY PassingCounts
<1>6. QED
  BY <1>1, <1>2, <1>3, <1>4, <1>5 DEF DocQueryOK

LEMMA DocQueryAnswered ==
  ASSUME documents \in Seq(DocRecord), NEW key, IsDocKey(key),
         key.status = "any" => PageThere(documents, key),
         NEW q, IsQuery(q), QueryOK(q), q.rows = DocumentsFor(key)
  PROVE  DocQueryOK(documents, key, q)
<1>1. Cardinality(Passing(documents, key)) \in Nat
  BY PassingCounts
<1>2. /\ q.rows.total = Cardinality(Passing(documents, key))
      /\ \A n \in DOMAIN q.rows.rows : q.rows.rows[n].doc \in 1..Len(documents)
      /\ (PageThere(documents, key) /\ q.rows.total > 0) => q.rows.rows # << >>
  BY DocumentsAnswer
<1>3. QED
  BY <1>1, <1>2 DEF DocQueryOK

\* Another key is looked at.
LEMMA LookAtKeeps ==
  ASSUME DocInv, NEW key, IsDocKey(key), key.status = "any" => PageThere(documents, key),
         LookAt(key)
  PROVE  /\ IsDocKey(docFilter') /\ DocQueryOK(documents, docFilter', docQuery')
         /\ docFilter'.status = "any" => PageThere(documents, docFilter')
         /\ Settled(docQuery') => docQuery'.rows = DocumentsFor(docFilter')
<1>1. docFilter' = key /\ documents \in Seq(DocRecord)
  BY DEF LookAt, DocInv, DocBasics
<1>2. CASE key = docFilter
  BY <1>1, <1>2 DEF LookAt, DocInv, DocumentsFresh
<1>3. CASE key # docFilter
  <2>1. PICK nothing, rows : nothing = NoDocuments /\ rows = DocumentsFor(key)
    OBVIOUS
  <2>2. docQuery' = NewQuery(nothing) \/ docQuery' = [AnsweredWith(rows) EXCEPT !.asked = TRUE]
    BY <1>3, <2>1 DEF LookAt
  <2>3. CASE docQuery' = NewQuery(nothing)
    <3>1. DocQueryOK(documents, key, docQuery')
      BY <1>1, <2>1, <2>3, DocQueryBegins
    <3>2. ~Settled(docQuery')
      BY <2>3, QueryBegins
    <3>3. QED
      BY <1>1, <3>1, <3>2
  <2>4. CASE docQuery' = [AnsweredWith(rows) EXCEPT !.asked = TRUE]
    <3>1. PICK q : q = AnsweredWith(rows)
      OBVIOUS
    <3>2. IsQuery(q) /\ QueryOK(q) /\ q.rows = rows
      BY <3>1, QueryBegins, QueryBeginsOK
    <3>3. PICK r : r = [q EXCEPT !.asked = TRUE]
      OBVIOUS
    <3>4. IsQuery(r) /\ QueryOK(r) /\ r.rows = rows /\ ~Settled(r)
      BY <3>2, <3>3, QueryMoves, QueryStaysOK, QueryKeepsRows
    <3>5. docQuery' = r
      BY <2>4, <3>1, <3>3
    <3>6. DocQueryOK(documents, key, r)
      BY <1>1, <2>1, <3>4, DocQueryAnswered
    <3>7. QED
      BY <1>1, <3>4, <3>5, <3>6
  <2>5. QED
    BY <2>2, <2>3, <2>4
<1>4. QED
  BY <1>2, <1>3

\* A query that is asked anew, overtaken or failed has the rows it had, also when documents came.
LEMMA DocQueryMoves ==
  ASSUME NEW docs \in Seq(DocRecord), NEW later \in Seq(DocRecord), NEW key, NEW q,
         \A i \in DOMAIN docs : i \in DOMAIN later /\ later[i].type = docs[i].type,
         Len(docs) <= Len(later),
         DocQueryOK(docs, key, q),
         NEW r \in {FetchFailed(q), Refetched(q), Overtaken(q)}
  PROVE  DocQueryOK(later, key, r) /\ ~Settled(r)
<1>1. IsQuery(q) /\ QueryOK(q)
  BY DEF DocQueryOK
<1>2. IsQuery(r) /\ QueryOK(r) /\ r.rows = q.rows /\ ~Settled(r)
  BY <1>1, QueryMoves, QueryStaysOK, QueryKeepsRows
<1>3. key.status = "any" => Cardinality(Passing(docs, key)) <= Cardinality(Passing(later, key))
  BY PassingGrows
<1>4. Cardinality(Passing(docs, key)) \in Nat /\ Cardinality(Passing(later, key)) \in Nat
  BY PassingCounts
<1>5. Len(docs) \in Nat /\ Len(later) \in Nat
  BY LenProperties
<1>6. QED
  BY <1>2, <1>3, <1>4, <1>5 DEF DocQueryOK

LEMMA NextKeepsDocs ==
  ASSUME DocInv, [DocumentsNext]_docVars
  PROVE DocInv'
<1> DEFINE FormsOK(f, a, d) ==
             /\ f \in [type : DocTypes \union {"any"}, file : BOOLEAN]
             /\ DOMAIN a = {"type", "file", "here"}
             /\ a = NoAnalysis \/ a.type \in DocTypes
             /\ d.doc \in 0..Len(documents)
           QueryIs(key, q) ==
             /\ IsDocKey(key) /\ DocQueryOK(documents, key, q)
             /\ key.status = "any" => PageThere(documents, key)
             /\ Settled(q) => q.rows = DocumentsFor(key)
<1>1. /\ documents \in Seq(DocRecord) /\ Len(documents) \in Nat
      /\ DOMAIN documents = 1..Len(documents)
      /\ FormsOK(docForm, analysis, docDetail) /\ QueryIs(docFilter, docQuery)
  BY LenProperties DEF DocInv, DocBasics, DocumentsFresh
<1>2. ASSUME documents' = documents, FormsOK(docForm', analysis', docDetail'),
             QueryIs(docFilter', docQuery')
      PROVE  DocInv'
  <2>1. DocumentsFor(docFilter)' = DocumentsFor(docFilter')
    BY <1>2 DEF DocumentsFor
  <2>2. DocumentsFresh'
    BY <1>2, <2>1 DEF DocumentsFresh
  <2>3. DocBasics'
    BY <1>1, <1>2 DEF DocBasics
  <2>4. DocQueryOK(documents, docFilter, docQuery)'
    BY <1>2
  <2>5. (docFilter.status = "any" => PageThere(documents, docFilter))'
    BY <1>2
  <2>6. QED
    BY <2>2, <2>3, <2>4, <2>5 DEF DocInv
\* Only the query moves.
<1>3. ASSUME documents' = documents, UNCHANGED <<docFilter, docForm, analysis, docDetail>>,
             QueryIs(docFilter, docQuery')
      PROVE  DocInv'
  BY <1>1, <1>2, <1>3
\* Only the form, the call or the dialog moves.
<1>4. ASSUME UNCHANGED <<documents, docFilter, docQuery>>, FormsOK(docForm', analysis', docDetail')
      PROVE  DocInv'
  BY <1>1, <1>2, <1>4
\* Another key is looked at.
<1>5. ASSUME documents' = documents, FormsOK(docForm', analysis', docDetail'),
             NEW key, IsDocKey(key), key.status = "any" => PageThere(documents, key), LookAt(key)
      PROVE  DocInv'
  <2>1. QueryIs(docFilter', docQuery')
    BY <1>5, LookAtKeeps
  <2>2. QED
    BY <1>2, <1>5, <2>1
\* Documents come or move on, and the query is asked anew or overtaken.
<1>6. ASSUME documents' \in Seq(DocRecord), Len(documents) <= Len(documents'),
             \A i \in DOMAIN documents :
               i \in DOMAIN documents' /\ documents'[i].type = documents[i].type,
             docQuery' \in {Refetched(docQuery), Overtaken(docQuery)},
             UNCHANGED <<docFilter, docDetail>>,
             docForm' \in {docForm, EmptyForm}, analysis' \in {analysis, NoAnalysis}
      PROVE  DocInv'
  <2>1. Len(documents') \in Nat
    BY <1>6, LenProperties
  <2>2. DocQueryOK(documents', docFilter, docQuery') /\ ~Settled(docQuery')
    <3>1. PICK later, q, r : later = documents' /\ q = docQuery /\ r = docQuery'
      OBVIOUS
    <3>2. DocQueryOK(documents, docFilter, q) /\ r \in {FetchFailed(q), Refetched(q), Overtaken(q)}
      BY <1>1, <1>6, <3>1
    <3>3. later \in Seq(DocRecord) /\ Len(documents) <= Len(later)
          /\ \A i \in DOMAIN documents : i \in DOMAIN later /\ later[i].type = documents[i].type
      BY <1>6, <3>1
    <3>4. DocQueryOK(later, docFilter, r) /\ ~Settled(r)
      BY <1>1, <3>2, <3>3, DocQueryMoves
    <3>5. QED
      BY <3>1, <3>4
  <2>3. DocBasics'
    <3>1. docForm' \in [type : DocTypes \union {"any"}, file : BOOLEAN]
      <4>1. EmptyForm \in [type : DocTypes \union {"any"}, file : BOOLEAN]
        BY DEF EmptyForm
      <4>2. QED
        BY <1>1, <1>6, <4>1
    <3>2. DOMAIN analysis' = {"type", "file", "here"}
          /\ (analysis' = NoAnalysis \/ analysis'.type \in DocTypes)
      BY <1>1, <1>6 DEF NoAnalysis
    <3>3. docDetail'.doc \in 0..Len(documents')
      BY <1>1, <1>6, <2>1
    <3>4. IsDocKey(docFilter')
      BY <1>1, <1>6
    <3>5. QED
      BY <1>6, <3>1, <3>2, <3>3, <3>4 DEF DocBasics
  <2>4. docFilter.status = "any" => PageThere(documents', docFilter)
    BY <1>1, <1>6, PassingGrows
  <2>5. DocumentsFresh'
    BY <2>2 DEF DocumentsFresh, Settled
  <2>6. DocQueryOK(documents, docFilter, docQuery)'
    BY <1>6, <2>2
  <2>7. (docFilter.status = "any" => PageThere(documents, docFilter))'
    BY <1>6, <2>4
  <2>8. QED
    BY <2>3, <2>5, <2>6, <2>7 DEF DocInv
<1> HIDE DEF FormsOK, QueryIs
<1>7. CASE DocumentsAnswered
  <2>1. PICK rows : rows = DocumentsFor(docFilter)
    OBVIOUS
  <2>2. docQuery' = AnsweredWith(rows)
    BY <1>7, <2>1 DEF DocumentsAnswered
  <2>3. IsQuery(docQuery') /\ QueryOK(docQuery') /\ docQuery'.rows = rows
    BY <2>2, QueryBegins, QueryBeginsOK
  <2>4. IsDocKey(docFilter) /\ (docFilter.status = "any" => PageThere(documents, docFilter))
    BY <1>1 DEF QueryIs
  <2>5. PICK q : q = docQuery'
    OBVIOUS
  <2>6. DocQueryOK(documents, docFilter, q)
    BY <1>1, <2>1, <2>3, <2>4, <2>5, DocQueryAnswered
  <2>7. QueryIs(docFilter, docQuery')
    BY <2>1, <2>3, <2>4, <2>5, <2>6 DEF QueryIs
  <2>8. QED
    BY <1>3, <1>7, <2>7 DEF DocumentsAnswered
<1>8. CASE DocumentsFetchFailed
  <2>1. PICK q : q = docQuery'
    OBVIOUS
  <2>2. q = FetchFailed(docQuery) /\ DocQueryOK(documents, docFilter, docQuery)
    BY <1>1, <1>8, <2>1 DEF DocumentsFetchFailed, QueryIs
  <2>3. DocQueryOK(documents, docFilter, q) /\ ~Settled(q)
    BY <1>1, <2>2, DocQueryMoves
  <2>4. QueryIs(docFilter, docQuery')
    BY <1>1, <2>1, <2>3 DEF QueryIs
  <2>5. QED
    BY <1>3, <1>8, <2>4 DEF DocumentsFetchFailed
<1>9. CASE DocumentAnalyzed
  <2>1. PICK i \in DOMAIN documents, outcome \in {"completed", "failed"} :
          documents' = [documents EXCEPT ![i].status = outcome]
    BY <1>9 DEF DocumentAnalyzed
  <2>2. documents[i] \in DocRecord /\ i \in 1..Len(documents)
    BY <1>1, ElementOfSeq
  <2>3. PICK d : d = [documents[i] EXCEPT !.status = outcome]
    OBVIOUS
  <2>4. d \in DocRecord /\ d.type = documents[i].type
    BY <2>2, <2>3 DEF DocRecord, AnalysisStatuses
  <2>5. documents' = [documents EXCEPT ![i] = d]
    BY <2>1, <2>3
  <2>6. /\ documents' \in Seq(DocRecord) /\ Len(documents') = Len(documents)
        /\ \A j \in 1..Len(documents) : documents'[j] = IF j = i THEN d ELSE documents[j]
    BY <1>1, <2>2, <2>4, <2>5, ExceptSeq
  <2>7. \A j \in DOMAIN documents : j \in DOMAIN documents' /\ documents'[j].type = documents[j].type
    BY <1>1, <2>4, <2>6, LenProperties
  <2>8. QED
    BY <1>1, <1>6, <1>9, <2>6, <2>7 DEF DocumentAnalyzed
<1>10. CASE FilterDocuments
  <2>1. PICK key : LookAt(key) /\ IsDocKey(key) /\ key.page = 1
    <3>1. IsDocKey(docFilter)
      BY <1>1 DEF QueryIs
    <3>2. CASE \E t \in DocTypes \union {"any"} : LookAt([docFilter EXCEPT !.type = t, !.page = 1])
      <4>1. PICK t \in DocTypes \union {"any"} : LookAt([docFilter EXCEPT !.type = t, !.page = 1])
        BY <3>2
      <4>2. PICK key : key = [docFilter EXCEPT !.type = t, !.page = 1]
        OBVIOUS
      <4>3. IsDocKey(key) /\ key.page = 1
        BY <3>1, <4>2 DEF IsDocKey
      <4>4. QED
        BY <4>1, <4>2, <4>3
    <3>3. CASE \E s \in {"any", "analyzing"} : LookAt([docFilter EXCEPT !.status = s, !.page = 1])
      <4>1. PICK s \in {"any", "analyzing"} : LookAt([docFilter EXCEPT !.status = s, !.page = 1])
        BY <3>3
      <4>2. PICK key : key = [docFilter EXCEPT !.status = s, !.page = 1]
        OBVIOUS
      <4>3. IsDocKey(key) /\ key.page = 1
        BY <3>1, <4>2 DEF IsDocKey
      <4>4. QED
        BY <4>1, <4>2, <4>3
    <3>4. QED
      BY <1>10, <3>2, <3>3 DEF FilterDocuments
  <2>2. PageThere(documents, key)
    BY <2>1 DEF PageThere
  <2>3. documents' = documents /\ FormsOK(docForm', analysis', docDetail')
    BY <1>1, <1>10 DEF FilterDocuments
  <2>4. QED
    BY <1>5, <2>1, <2>2, <2>3
<1>11. IsDocKey(NoFilter) /\ PageThere(documents, NoFilter)
  BY DEF NoFilter, IsDocKey, PageThere
<1>12. CASE ClearDocumentFilters
  <2>1. LookAt(NoFilter) /\ documents' = documents /\ FormsOK(docForm', analysis', docDetail')
    BY <1>1, <1>12 DEF ClearDocumentFilters
  <2>2. PICK key : key = NoFilter
    OBVIOUS
  <2>3. QED
    BY <1>5, <1>11, <2>1, <2>2
<1>13. CASE LeaveDocuments
  <2>1. LookAt(NoFilter) /\ documents' = documents
    BY <1>13 DEF LeaveDocuments
  <2>2. FormsOK(docForm', analysis', docDetail')
    <3>1. ASSUME analysis = NoAnalysis PROVE analysis' = NoAnalysis
      <4>1. analysis' = [analysis EXCEPT !.here = FALSE]
        BY <1>13 DEF LeaveDocuments
      <4>2. ASSUME NEW a \in [type : {"any"}, file : {FALSE}, here : {FALSE}],
                   NEW b \in [type : {"any"}, file : {FALSE}, here : {FALSE}]
            PROVE  a = b
        <5>1. a.type = b.type /\ a.file = b.file /\ a.here = b.here
          OBVIOUS
        <5>2. QED
          BY <5>1
      <4>3. NoAnalysis \in [type : {"any"}, file : {FALSE}, here : {FALSE}]
        BY DEF NoAnalysis
      <4>4. analysis' \in [type : {"any"}, file : {FALSE}, here : {FALSE}]
        BY <3>1, <4>1, <4>3
      <4>5. QED
        BY <4>2, <4>3, <4>4
    <3>2. QED
      BY <1>1, <1>13, <3>1 DEF LeaveDocuments, FormsOK, EmptyForm, NoDetail
  <2>3. PICK key : key = NoFilter
    OBVIOUS
  <2>4. QED
    BY <1>5, <1>11, <2>1, <2>2, <2>3
<1>14. CASE TurnDocumentPage
  <2>1. /\ IsDocKey(docFilter) /\ DocQueryOK(documents, docFilter, docQuery)
        /\ docFilter.status = "any" => PageThere(documents, docFilter)
    BY <1>1 DEF QueryIs
  <2>2. PICK key : /\ LookAt(key) /\ DocPages > 1
                   /\ \/ docFilter.page > 1 /\ key = [docFilter EXCEPT !.page = @ - 1]
                      \/ docFilter.page < DocPages /\ key = [docFilter EXCEPT !.page = @ + 1]
    BY <1>14 DEF TurnDocumentPage
  <2>3. IsDocKey(key) /\ key.status = docFilter.status /\ key.type = docFilter.type
    BY <2>1, <2>2 DEF IsDocKey
  <2>4. Passing(documents, key) = Passing(documents, docFilter)
    BY <2>3 DEF Passing
  <2>5. PICK m \in Nat, n \in Nat :
          m = docQuery.rows.total /\ n = Cardinality(Passing(documents, docFilter))
    BY <1>1, <2>1, PassingCounts DEF DocQueryOK
  <2>6. Pages(m, DocPageSize) \in Nat /\ Pages(n, DocPageSize) \in Nat
    BY <2>5, DocumentsAssumption, PagesHold
  <2>7. DocPages = Pages(m, DocPageSize)
    BY <2>2, <2>5 DEF DocPages
  <2>8. ASSUME key.status = "any" PROVE PageThere(documents, key)
    <3>1. m <= n /\ PageThere(documents, docFilter)
      BY <2>1, <2>3, <2>5, <2>8 DEF DocQueryOK
    <3>2. Pages(m, DocPageSize) <= Pages(n, DocPageSize)
      BY <2>5, <3>1, DocumentsAssumption, PagesGrow
    <3>3. docFilter.page \in Nat \ {0}
      BY <2>1 DEF IsDocKey
    <3>4. CASE key = [docFilter EXCEPT !.page = @ - 1] /\ docFilter.page > 1
      <4>1. key.page = docFilter.page - 1
        BY <2>1, <3>4 DEF IsDocKey
      <4>2. QED
        BY <2>4, <2>5, <2>6, <3>1, <3>3, <3>4, <4>1 DEF PageThere
    <3>5. CASE key = [docFilter EXCEPT !.page = @ + 1] /\ docFilter.page < DocPages
      <4>1. key.page = docFilter.page + 1
        BY <2>1, <3>5 DEF IsDocKey
      <4>2. QED
        BY <2>4, <2>5, <2>6, <2>7, <3>2, <3>3, <3>5, <4>1 DEF PageThere
    <3>6. QED
      BY <2>2, <3>4, <3>5
  <2>9. documents' = documents /\ FormsOK(docForm', analysis', docDetail')
    BY <1>1, <1>14 DEF TurnDocumentPage
  <2>10. QED
    BY <1>5, <2>2, <2>3, <2>8, <2>9
<1>15. CASE ShowAnalysis
  <2>1. DocQueryOK(documents, docFilter, docQuery)
    BY <1>1 DEF QueryIs
  <2>2. docDetail'.doc \in 0..Len(documents)
    <3>1. CASE \E n \in DOMAIN DocRows : docDetail' = DocRows[n]
      BY <1>1, <2>1, <3>1 DEF DocQueryOK, DocRows
    <3>2. CASE docDetail' = NoDetail
      BY <1>1, <3>2 DEF NoDetail
    <3>3. QED
      BY <1>15, <3>1, <3>2 DEF ShowAnalysis
  <2>3. FormsOK(docForm', analysis', docDetail')
    BY <1>1, <1>15, <2>2 DEF FormsOK, ShowAnalysis
  <2>4. QED
    BY <1>4, <1>15, <2>3 DEF ShowAnalysis
<1>16. CASE FillDocumentForm
  <2>1. docForm' \in [type : DocTypes \union {"any"}, file : BOOLEAN]
    BY <1>1, <1>16 DEF FillDocumentForm, FormsOK
  <2>2. FormsOK(docForm', analysis', docDetail')
    BY <1>1, <1>16, <2>1 DEF FormsOK, FillDocumentForm
  <2>3. QED
    BY <1>4, <1>16, <2>2 DEF FillDocumentForm
<1>17. CASE Upload
  <2>1. FormsOK(docForm', analysis', docDetail')
    BY <1>1, <1>17 DEF FormsOK, Upload
  <2>2. QED
    BY <1>4, <1>17, <2>1 DEF Upload
<1>18. CASE UploadSettled
  <2>1. CASE /\ documents' = Append(documents, [type |-> analysis.type, status |-> "analyzing"])
             /\ docQuery' = Refetched(docQuery)
             /\ docForm' = IF analysis.here THEN EmptyForm ELSE docForm
    <3>1. PICK d : d = [type |-> analysis.type, status |-> "analyzing"]
      OBVIOUS
    <3>2. d \in DocRecord
      BY <1>1, <1>18, <3>1 DEF UploadSettled, FormsOK, DocRecord, AnalysisStatuses
    <3>3. documents' = Append(documents, d)
      BY <2>1, <3>1
    <3>4. /\ documents' \in Seq(DocRecord) /\ Len(documents') = Len(documents) + 1
          /\ \A i \in 1..Len(documents) : documents'[i] = documents[i]
      BY <1>1, <3>2, <3>3, AppendProperties
    <3>5. Len(documents) <= Len(documents')
      BY <1>1, <3>4
    <3>6. \A i \in DOMAIN documents : i \in DOMAIN documents' /\ documents'[i].type = documents[i].type
      BY <1>1, <3>4, LenProperties
    <3>7. docForm' \in {docForm, EmptyForm} /\ analysis' = NoAnalysis
          /\ UNCHANGED <<docFilter, docDetail>>
      BY <1>18, <2>1 DEF UploadSettled
    <3>8. QED
      BY <1>6, <2>1, <3>4, <3>5, <3>6, <3>7
  <2>2. CASE UNCHANGED <<documents, docQuery, docForm>>
    <3>1. FormsOK(docForm', analysis', docDetail')
      BY <1>1, <1>18, <2>2 DEF FormsOK, UploadSettled, NoAnalysis
    <3>2. QED
      BY <1>4, <1>18, <2>2, <3>1 DEF UploadSettled
  <2>3. QED
    BY <1>18, <2>1, <2>2 DEF UploadSettled
<1>19. CASE UNCHANGED docVars
  BY <1>1, <1>4, <1>19 DEF docVars
<1>20. QED
  BY <1>7, <1>8, <1>9, <1>10, <1>12, <1>13, <1>14, <1>15, <1>16, <1>17, <1>18, <1>19 DEF DocumentsNext

\* What is shown of the documents is the server's, and a page without rows is of a list that was
\* narrowed by a status documents leave: for any number of documents, types and rows to a page.
LEMMA DocsShown ==
  DocumentsSpec => []DocumentsTypeOK /\ []DocumentsFresh /\ []NothingYetIsTrue /\ []StrandedByStatusOnly
<1>1. DocumentsInit => DocInv
  <2> SUFFICES ASSUME DocumentsInit PROVE DocInv
    OBVIOUS
  <2>1. documents \in Seq(DocRecord) /\ Len(documents) = 0
    BY EmptySeq DEF DocumentsInit
  <2>2. IsDocKey(docFilter) /\ PageThere(documents, docFilter)
    BY DEF DocumentsInit, NoFilter, IsDocKey, PageThere
  <2>3. DocBasics
    BY <2>1, <2>2 DEF DocumentsInit, DocBasics, EmptyForm, NoAnalysis, NoDetail
  <2>4. DocQueryOK(documents, docFilter, docQuery)
    BY <2>1, <2>2, DocQueryBegins DEF DocumentsInit
  <2>5. ~Settled(docQuery)
    BY QueryBegins DEF DocumentsInit
  <2>6. QED
    BY <2>2, <2>3, <2>4, <2>5 DEF DocInv, DocumentsFresh
<1>2. DocInv /\ [DocumentsNext]_docVars => DocInv'
  BY NextKeepsDocs
<1>3. DocInv => DocumentsTypeOK /\ DocumentsFresh /\ NothingYetIsTrue /\ StrandedByStatusOnly
  <2> SUFFICES ASSUME DocInv PROVE DocumentsTypeOK /\ DocumentsFresh /\ NothingYetIsTrue /\ StrandedByStatusOnly
    OBVIOUS
  <2>1. /\ DocBasics /\ DocumentsFresh /\ DocQueryOK(documents, docFilter, docQuery)
        /\ documents \in Seq(DocRecord) /\ IsDocKey(docFilter)
        /\ docFilter.status = "any" => PageThere(documents, docFilter)
    BY DEF DocInv, DocBasics
  <2>2. DocumentsTypeOK
    BY <2>1 DEF DocBasics, DocumentsTypeOK, DocQueryOK, IsDocKey, DocRecord
  <2>3. StrandedByStatusOnly
    BY <2>1 DEF StrandedByStatusOnly, DocQueryOK, IsDocKey, DocRows
  <2>4. NothingYetIsTrue
    <3> SUFFICES ASSUME Settled(docQuery), DocRows = << >>, docFilter.type = "any",
                        docFilter.status = "any"
                 PROVE  documents = << >>
      BY DEF NothingYetIsTrue
    <3>1. DocumentsFor(docFilter).rows = << >>
      BY <2>1 DEF DocumentsFresh, DocRows
    <3>2. Cardinality(Passing(documents, docFilter)) \in Nat /\ IsFiniteSet(Passing(documents, docFilter))
      BY <2>1, PassingCounts
    <3>3. ~(Cardinality(Passing(documents, docFilter)) > 0)
      BY <2>1, <3>1, DocumentsAnswer
    <3>4. Passing(documents, docFilter) = {}
      BY <3>2, <3>3, FS_EmptySet
    <3>5. DOMAIN documents = {}
      BY <3>4 DEF Passing
    <3>6. QED
      BY <2>1, <3>5, EmptySeq, LenProperties
  <2>5. QED
    BY <2>1, <2>2, <2>3, <2>4
<1>4. QED
  BY <1>1, <1>2, <1>3, PTL DEF DocumentsSpec

-----------------------------------------------------------------------------
(* The integrations                                                        *)

\* A sequence without one of its members.
LEMMA RemovedAt ==
  ASSUME NEW S, NEW s \in Seq(S), NEW n \in DOMAIN s
  PROVE  /\ RemoveAt(s, n) \in Seq(S)
         /\ Len(RemoveAt(s, n)) = Len(s) - 1
         /\ DOMAIN RemoveAt(s, n) = 1..(Len(s) - 1)
         /\ \A i \in 1..(Len(s) - 1) : RemoveAt(s, n)[i] = s[IF i < n THEN i ELSE i + 1]
<1> DEFINE a == SubSeq(s, 1, n - 1)
           b == SubSeq(s, n + 1, Len(s))
<1>1. Len(s) \in Nat /\ DOMAIN s = 1..Len(s) /\ \A i \in 1..Len(s) : s[i] \in S
  BY LenProperties, ElementOfSeq
<1>2. n \in 1..Len(s) /\ n - 1 \in Int /\ n + 1 \in Int
  BY <1>1
<1>3. (\A i \in 1..(n - 1) : s[i] \in S) /\ (\A i \in (n + 1)..Len(s) : s[i] \in S)
  BY <1>1, <1>2
<1>4. /\ a \in Seq(S) /\ Len(a) = IF 1 <= n - 1 THEN n - 1 - 1 + 1 ELSE 0
      /\ \A i \in 1..(n - 1 - 1 + 1) : a[i] = s[1 + i - 1]
  BY <1>2, <1>3, SubSeqProperties
<1>5. /\ b \in Seq(S) /\ Len(b) = IF n + 1 <= Len(s) THEN Len(s) - (n + 1) + 1 ELSE 0
      /\ \A i \in 1..(Len(s) - (n + 1) + 1) : b[i] = s[(n + 1) + i - 1]
  BY <1>1, <1>2, <1>3, SubSeqProperties
<1> HIDE DEF a, b
<1>6. Len(a) = n - 1 /\ \A i \in 1..(n - 1) : a[i] = s[i]
  BY <1>2, <1>4
<1>7. Len(b) = Len(s) - n /\ \A i \in 1..(Len(s) - n) : b[i] = s[n + i]
  <2>1. Len(s) - (n + 1) + 1 = Len(s) - n /\ \A i \in Int : (n + 1) + i - 1 = n + i
    BY <1>1, <1>2
  <2>2. Len(b) = Len(s) - n
    <3>1. Len(b) = IF n + 1 <= Len(s) THEN Len(s) - (n + 1) + 1 ELSE 0
      BY <1>5
    <3>2. Len(s) \in Nat /\ n \in 1..Len(s)
      BY <1>1, <1>2
    <3>3. QED
      BY <3>1, <3>2
  <2>3. ASSUME NEW i \in 1..(Len(s) - n) PROVE b[i] = s[n + i]
    <3>1. i \in 1..(Len(s) - (n + 1) + 1) /\ (n + 1) + i - 1 = n + i
      BY <1>1, <1>2, <2>1
    <3>2. b[i] = s[(n + 1) + i - 1]
      BY <1>5, <3>1
    <3>3. QED
      BY <3>1, <3>2
  <2>4. QED
    BY <2>2, <2>3
<1>8. /\ a \o b \in Seq(S) /\ Len(a \o b) = Len(a) + Len(b)
      /\ \A i \in 1..(Len(a) + Len(b)) : (a \o b)[i] = IF i <= Len(a) THEN a[i] ELSE b[i - Len(a)]
  BY <1>4, <1>5, ConcatProperties
<1>9. Len(a) + Len(b) = Len(s) - 1
  BY <1>1, <1>2, <1>6, <1>7
<1>10. ASSUME NEW i \in 1..(Len(s) - 1)
       PROVE  (a \o b)[i] = s[IF i < n THEN i ELSE i + 1]
  <2>1. CASE i < n
    <3>1. i \in 1..(n - 1)
      BY <1>1, <1>2, <2>1
    <3>2. (a \o b)[i] = a[i]
      BY <1>6, <1>8, <1>9, <3>1
    <3>3. QED
      BY <1>6, <2>1, <3>1, <3>2
  <2>2. CASE ~(i < n)
    <3>1. i - (n - 1) \in 1..(Len(s) - n) /\ ~(i <= n - 1) /\ n + (i - (n - 1)) = i + 1
      BY <1>1, <1>2, <2>2
    <3>2. (a \o b)[i] = b[i - (n - 1)]
      BY <1>6, <1>8, <1>9, <3>1
    <3>3. QED
      BY <1>7, <2>2, <3>1, <3>2
  <2>3. QED
    BY <2>1, <2>2
<1>11. DOMAIN (a \o b) = 1..(Len(s) - 1)
  BY <1>8, <1>9, LenProperties
<1>12. RemoveAt(s, n) = a \o b
  BY DEF RemoveAt, a, b
<1>13. QED
  BY <1>8, <1>9, <1>10, <1>11, <1>12

\* A sequence without its first member, and with one more member.
LEMMA TailMoves ==
  ASSUME NEW S, NEW s \in Seq(S), s # << >>
  PROVE  /\ Tail(s) \in Seq(S) /\ DOMAIN Tail(s) = 1..(Len(s) - 1)
         /\ \A i \in 1..(Len(s) - 1) : Tail(s)[i] = s[i + 1]
         /\ Head(s) = s[1] /\ 1 \in DOMAIN s
<1>1. /\ Tail(s) \in Seq(S) /\ Len(Tail(s)) = Len(s) - 1
      /\ \A i \in 1..Len(Tail(s)) : Tail(s)[i] = s[i + 1]
  BY HeadTailProperties
<1>2. Len(s) \in Nat \ {0} /\ DOMAIN s = 1..Len(s)
  BY LenProperties, EmptySeq
<1>3. DOMAIN Tail(s) = 1..(Len(s) - 1)
  BY <1>1, LenProperties
<1>4. Head(s) = s[1]
  BY DEF Head
<1>5. QED
  BY <1>1, <1>2, <1>3, <1>4

LEMMA AppendMoves ==
  ASSUME NEW S, NEW s \in Seq(S), NEW x \in S
  PROVE  /\ Append(s, x) \in Seq(S) /\ DOMAIN Append(s, x) = 1..(Len(s) + 1)
         /\ \A i \in 1..Len(s) : Append(s, x)[i] = s[i]
         /\ Append(s, x)[Len(s) + 1] = x
         /\ Len(s) \in Nat /\ DOMAIN s = 1..Len(s)
<1>1. /\ Append(s, x) \in Seq(S) /\ Len(Append(s, x)) = Len(s) + 1
      /\ \A i \in 1..Len(s) : Append(s, x)[i] = s[i]
      /\ Append(s, x)[Len(s) + 1] = x
  BY AppendProperties
<1>2. DOMAIN Append(s, x) = 1..(Len(s) + 1)
  BY <1>1, LenProperties
<1>3. QED
  BY <1>1, <1>2, LenProperties

Update == [name : Providers, status : ProviderStatuses]

\* A test or an update of p waits in T or in U.
Asked(T, U, p) == (\E i \in DOMAIN T : T[i] = p) \/ \E j \in DOMAIN U : U[j].name = p

\* What waits for p is one click at most, and will come to what p was clicked to; nothing waits
\* only if p is there already.
OneWish(T, U, p, wish, now) ==
  /\ \A i, j \in DOMAIN T : T[i] = p /\ T[j] = p => i = j
  /\ \A i, j \in DOMAIN U : U[i].name = p /\ U[j].name = p => i = j
  /\ \A i \in DOMAIN T, j \in DOMAIN U : ~(T[i] = p /\ U[j].name = p)
  /\ \A i \in DOMAIN T : T[i] = p => wish = "connected"
  /\ \A j \in DOMAIN U : U[j].name = p => U[j].status = wish
  /\ ~Asked(T, U, p) => now = wish

LEMMA TestAdds ==
  ASSUME NEW T \in Seq(Providers), NEW U \in Seq(Update), NEW p \in Providers, NEW q \in Providers,
         NEW wish, NEW now
  PROVE  /\ p # q /\ OneWish(T, U, q, wish, now) => OneWish(Append(T, p), U, q, wish, now)
         /\ ~Asked(T, U, p) => OneWish(Append(T, p), U, p, "connected", now)
<1> DEFINE A == Append(T, p)
<1>1. /\ DOMAIN A = 1..(Len(T) + 1) /\ A[Len(T) + 1] = p /\ \A i \in 1..Len(T) : A[i] = T[i]
      /\ Len(T) \in Nat /\ DOMAIN T = 1..Len(T)
  BY AppendMoves
<1> HIDE DEF A
<1>2. \A i \in DOMAIN A : (i \in DOMAIN T /\ A[i] = T[i]) \/ (i = Len(T) + 1 /\ A[i] = p)
  BY <1>1
<1>3. \A i \in DOMAIN T : i \in DOMAIN A /\ A[i] = T[i]
  BY <1>1
<1>4. Len(T) + 1 \in DOMAIN A
  BY <1>1
<1>5. ASSUME p # q, OneWish(T, U, q, wish, now) PROVE OneWish(A, U, q, wish, now)
  <2>1. \A i \in DOMAIN A : A[i] = q => i \in DOMAIN T /\ T[i] = q
    BY <1>2, <1>5
  <2>2. Asked(T, U, q) => Asked(A, U, q)
    BY <1>3 DEF Asked
  <2>3. QED
    BY <1>5, <2>1, <2>2 DEF OneWish
<1>6. ASSUME ~Asked(T, U, p) PROVE OneWish(A, U, p, "connected", now)
  <2>1. \A i \in DOMAIN A : A[i] = p => i = Len(T) + 1
    BY <1>2, <1>6 DEF Asked
  <2>2. \A j \in DOMAIN U : U[j].name # p
    BY <1>6 DEF Asked
  <2>3. Asked(A, U, p)
    BY <1>1, <1>4 DEF Asked
  <2>4. QED
    BY <2>1, <2>2, <2>3 DEF OneWish
<1>7. QED
  BY <1>5, <1>6 DEF A

LEMMA UpdateAdds ==
  ASSUME NEW T \in Seq(Providers), NEW U \in Seq(Update), NEW u \in Update, NEW q \in Providers,
         NEW wish, NEW now
  PROVE  /\ u.name # q /\ OneWish(T, U, q, wish, now) => OneWish(T, Append(U, u), q, wish, now)
         /\ ~Asked(T, U, q) /\ u.name = q => OneWish(T, Append(U, u), q, u.status, now)
<1> DEFINE A == Append(U, u)
<1>1. /\ DOMAIN A = 1..(Len(U) + 1) /\ A[Len(U) + 1] = u /\ \A i \in 1..Len(U) : A[i] = U[i]
      /\ Len(U) \in Nat /\ DOMAIN U = 1..Len(U)
  BY AppendMoves
<1> HIDE DEF A
<1>2. \A i \in DOMAIN A : (i \in DOMAIN U /\ A[i] = U[i]) \/ (i = Len(U) + 1 /\ A[i] = u)
  BY <1>1
<1>3. \A i \in DOMAIN U : i \in DOMAIN A /\ A[i] = U[i]
  BY <1>1
<1>4. Len(U) + 1 \in DOMAIN A
  BY <1>1
<1>5. ASSUME u.name # q, OneWish(T, U, q, wish, now) PROVE OneWish(T, A, q, wish, now)
  <2>1. \A i \in DOMAIN A : A[i].name = q => i \in DOMAIN U /\ U[i].name = q /\ A[i] = U[i]
    BY <1>2, <1>5
  <2>2. Asked(T, U, q) => Asked(T, A, q)
    BY <1>3 DEF Asked
  <2>3. QED
    BY <1>5, <2>1, <2>2 DEF OneWish
<1>6. ASSUME ~Asked(T, U, q), u.name = q PROVE OneWish(T, A, q, u.status, now)
  <2>1. \A i \in DOMAIN A : A[i].name = q => i = Len(U) + 1 /\ A[i] = u
    BY <1>2, <1>6 DEF Asked
  <2>2. \A i \in DOMAIN T : T[i] # q
    BY <1>6 DEF Asked
  <2>3. Asked(T, A, q)
    BY <1>1, <1>4, <1>6 DEF Asked
  <2>4. QED
    BY <2>1, <2>2, <2>3 DEF OneWish
<1>7. QED
  BY <1>5, <1>6 DEF A

\* The first test ends: its update takes its place.
LEMMA TestTurnsUpdate ==
  ASSUME NEW T \in Seq(Providers), NEW U \in Seq(Update), T # << >>, NEW q \in Providers,
         NEW wish, NEW now, OneWish(T, U, q, wish, now),
         NEW u \in Update, u.name = Head(T), u.status = "connected"
  PROVE  OneWish(Tail(T), Append(U, u), q, wish, now)
<1> DEFINE A == Append(U, u)
           R == Tail(T)
<1>1. /\ DOMAIN A = 1..(Len(U) + 1) /\ A[Len(U) + 1] = u /\ \A i \in 1..Len(U) : A[i] = U[i]
      /\ Len(U) \in Nat /\ DOMAIN U = 1..Len(U)
  BY AppendMoves
<1>2. /\ DOMAIN R = 1..(Len(T) - 1) /\ \A i \in 1..(Len(T) - 1) : R[i] = T[i + 1]
      /\ Head(T) = T[1] /\ 1 \in DOMAIN T
  BY TailMoves
<1>3. Len(T) \in Nat /\ DOMAIN T = 1..Len(T)
  BY LenProperties
<1> HIDE DEF A, R
<1>4. \A i \in DOMAIN A : (i \in DOMAIN U /\ A[i] = U[i]) \/ (i = Len(U) + 1 /\ A[i] = u)
  BY <1>1
<1>5. (\A i \in DOMAIN U : i \in DOMAIN A /\ A[i] = U[i]) /\ Len(U) + 1 \in DOMAIN A
  BY <1>1
<1>6. \A i \in DOMAIN R : i + 1 \in DOMAIN T /\ R[i] = T[i + 1] /\ i \in Int /\ i + 1 # 1
  BY <1>2, <1>3
<1>7. \A i \in DOMAIN T : i = 1 \/ (i - 1 \in DOMAIN R /\ R[i - 1] = T[i])
  BY <1>2, <1>3
<1>8. \A i, j \in Int : i + 1 = j + 1 => i = j
  OBVIOUS
<1>9. CASE Head(T) = q
  <2>1. \A i \in DOMAIN R : R[i] # q
    BY <1>2, <1>6, <1>9 DEF OneWish
  <2>2. \A j \in DOMAIN U : U[j].name # q
    BY <1>2, <1>9 DEF OneWish
  <2>3. wish = "connected"
    BY <1>2, <1>9 DEF OneWish
  <2>4. \A j \in DOMAIN A : A[j].name = q => j = Len(U) + 1 /\ A[j] = u
    BY <1>4, <2>2
  <2>5. Asked(R, A, q)
    BY <1>1, <1>5, <1>9 DEF Asked
  <2>6. QED
    BY <2>1, <2>3, <2>4, <2>5 DEF OneWish, A, R
<1>10. CASE Head(T) # q
  <2>1. \A i \in DOMAIN R : R[i] = q => i + 1 \in DOMAIN T /\ T[i + 1] = q /\ i \in Int
    BY <1>6
  <2>2. \A j \in DOMAIN A : A[j].name = q => j \in DOMAIN U /\ U[j].name = q /\ A[j] = U[j]
    BY <1>4, <1>10
  <2>3. Asked(T, U, q) => Asked(R, A, q)
    BY <1>2, <1>5, <1>7, <1>10 DEF Asked
  <2>4. QED
    BY <1>8, <2>1, <2>2, <2>3 DEF OneWish, A, R
<1>11. QED
  BY <1>9, <1>10

\* An update is done or refused.
LEMMA UpdateEnds ==
  ASSUME NEW T \in Seq(Providers), NEW U \in Seq(Update), NEW n \in DOMAIN U, NEW q \in Providers,
         NEW wish, NEW now, OneWish(T, U, q, wish, now)
  PROVE  /\ U[n].name # q => OneWish(T, RemoveAt(U, n), q, wish, now)
         /\ U[n].name = q => OneWish(T, RemoveAt(U, n), q, wish, U[n].status)
<1> DEFINE R == RemoveAt(U, n)
           old == [i \in DOMAIN R |-> IF i < n THEN i ELSE i + 1]
<1>1. DOMAIN R = 1..(Len(U) - 1) /\ \A i \in 1..(Len(U) - 1) : R[i] = U[IF i < n THEN i ELSE i + 1]
  BY RemovedAt
<1>2. Len(U) \in Nat /\ DOMAIN U = 1..Len(U)
  BY LenProperties
<1> HIDE DEF R
<1>3. /\ \A i \in DOMAIN R : old[i] \in DOMAIN U \ {n} /\ R[i] = U[old[i]]
      /\ \A i, j \in DOMAIN R : old[i] = old[j] => i = j
      /\ \A k \in DOMAIN U \ {n} : \E i \in DOMAIN R : old[i] = k
  <2>1. ASSUME NEW k \in DOMAIN U \ {n} PROVE \E i \in DOMAIN R : old[i] = k
    <3>1. CASE k < n
      <4>1. k \in DOMAIN R
        BY <1>1, <1>2, <3>1
      <4>2. QED
        BY <3>1, <4>1
    <3>2. CASE ~(k < n)
      <4>1. k - 1 \in DOMAIN R /\ ~(k - 1 < n) /\ (k - 1) + 1 = k
        BY <1>1, <1>2, <3>2
      <4>2. QED
        BY <4>1
    <3>3. QED
      BY <3>1, <3>2
  <2>2. ASSUME NEW i \in DOMAIN R PROVE old[i] \in DOMAIN U \ {n} /\ R[i] = U[old[i]]
    BY <1>1, <1>2
  <2>3. ASSUME NEW i \in DOMAIN R, NEW j \in DOMAIN R, old[i] = old[j] PROVE i = j
    <3>1. i \in Int /\ j \in Int /\ n \in Int
      BY <1>1, <1>2
    <3>2. (IF i < n THEN i ELSE i + 1) = (IF j < n THEN j ELSE j + 1)
      BY <2>3
    <3>3. QED
      BY <3>1, <3>2
  <2>4. QED
    BY <2>1, <2>2, <2>3
<1> HIDE DEF old
<1>4. ASSUME U[n].name # q PROVE OneWish(T, R, q, wish, now)
  <2>1. Asked(T, U, q) => Asked(T, R, q)
    BY <1>3, <1>4 DEF Asked
  <2>2. QED
    BY <1>3, <2>1 DEF OneWish
<1>5. ASSUME U[n].name = q PROVE OneWish(T, R, q, wish, U[n].status)
  <2>1. \A i \in DOMAIN R : R[i].name # q
    BY <1>3, <1>5 DEF OneWish
  <2>2. wish = U[n].status /\ \A i \in DOMAIN T : T[i] # q
    BY <1>5 DEF OneWish
  <2>3. QED
    BY <2>1, <2>2 DEF OneWish
<1>6. QED
  BY <1>4, <1>5 DEF R

\* The cards are of providers; nothing waits for a provider but what it was clicked to, unless
\* clicks crossed.
ProviderInv ==
  /\ IntegrationsTypeOK
  /\ wished \in [Providers -> ProviderStatuses] /\ crossed \in [Providers -> BOOLEAN]
  /\ IsQuery(providerQuery) /\ DOMAIN ProviderRows \subseteq Providers
  /\ Settled(providerQuery) => ProviderRows = providers
WishesInv ==
  \A p \in Providers : ~crossed[p] => OneWish(tests, updates, p, wished[p], providers[p])

LEMMA AskedIsUnderWay ==
  ASSUME NEW p PROVE Asked(tests, updates, p) <=> UnderWay(p)
BY DEF Asked, UnderWay, Range

LEMMA InitProviders == IntegrationsInit => ProviderInv /\ WishesInv
<1> SUFFICES ASSUME IntegrationsInit PROVE ProviderInv /\ WishesInv
  OBVIOUS
<1>1. /\ tests = << >> /\ updates = << >> /\ wished = providers
      /\ providers \in [Providers -> ProviderStatuses] /\ providerQuery = NewQuery(<< >>)
      /\ testing = "none" /\ crossed = [p \in Providers |-> FALSE]
  BY DEF IntegrationsInit
<1>2. /\ IsQuery(providerQuery) /\ ~Settled(providerQuery) /\ ProviderRows = << >>
      /\ QueryOK(providerQuery)
  BY <1>1, QueryBegins, QueryBeginsOK DEF ProviderRows
<1>3. DOMAIN ProviderRows \subseteq Providers
  BY <1>2
<1>4. tests \in Seq(Providers) /\ updates \in Seq([name : Providers, status : ProviderStatuses])
  BY <1>1, EmptySeq
<1>5. IntegrationsTypeOK
  BY <1>1, <1>2, <1>4 DEF IntegrationsTypeOK
<1>6. WishesInv
  BY <1>1 DEF WishesInv, OneWish
<1>7. QED
  BY <1>1, <1>2, <1>3, <1>5, <1>6 DEF ProviderInv

\* An answer, a failure or another officer changes the query and what it shows.
LEMMA ProviderQueryKept ==
  ASSUME ProviderInv, UNCHANGED <<tests, updates, wished>>,
         testing' \in Providers \union {"none"},
         providers' \in [Providers -> ProviderStatuses], crossed' \in [Providers -> BOOLEAN],
         \/ providerQuery' = AnsweredWith(providers) /\ UNCHANGED providers
         \/ providerQuery' = providerQuery /\ UNCHANGED providers
         \/ providerQuery' = FetchFailed(providerQuery)
         \/ providerQuery' = Overtaken(providerQuery)
         \/ providerQuery' = Refetched(providerQuery)
         \/ providerQuery' \in Mounted(providerQuery) /\ UNCHANGED providers
  PROVE  ProviderInv'
<1>1. /\ tests' \in Seq(Providers)
      /\ updates' \in Seq([name : Providers, status : ProviderStatuses])
      /\ wished' \in [Providers -> ProviderStatuses]
  BY DEF ProviderInv, IntegrationsTypeOK
<1>2. IsQuery(providerQuery) /\ QueryOK(providerQuery)
  BY DEF ProviderInv, IntegrationsTypeOK
<1>3. providers \in [Providers -> ProviderStatuses]
  BY DEF ProviderInv, IntegrationsTypeOK
<1>4. /\ IsQuery(providerQuery') /\ QueryOK(providerQuery')
      /\ DOMAIN providerQuery'.rows \subseteq Providers
      /\ Settled(providerQuery') => providerQuery'.rows = providers'
  <2>1. CASE providerQuery' = AnsweredWith(providers) /\ UNCHANGED providers
    BY <1>3, <2>1, QueryBegins, QueryBeginsOK
  <2>2. CASE providerQuery' \in {FetchFailed(providerQuery), Overtaken(providerQuery),
                                 Refetched(providerQuery)}
    <3>1. /\ IsQuery(providerQuery') /\ ~Settled(providerQuery') /\ QueryOK(providerQuery')
          /\ providerQuery'.rows = providerQuery.rows
      BY <1>2, <2>2, QueryMoves, QueryKeepsRows, QueryStaysOK
    <3>2. QED
      BY <3>1 DEF ProviderInv, ProviderRows
  <2>3. CASE /\ UNCHANGED providers
             /\ \/ providerQuery' = providerQuery
                \/ providerQuery' \in Mounted(providerQuery)
    <3>1. /\ IsQuery(providerQuery') /\ QueryOK(providerQuery')
          /\ providerQuery'.rows = providerQuery.rows
          /\ providerQuery' = providerQuery \/ ~Settled(providerQuery')
      BY <1>2, <2>3, QueryMoves, QueryKeepsRows, QueryStaysOK
    <3>2. QED
      BY <2>3, <3>1 DEF ProviderInv, ProviderRows
  <2>4. QED
    BY <2>1, <2>2, <2>3
<1>5. QED
  BY <1>1, <1>4 DEF ProviderInv, IntegrationsTypeOK, ProviderRows

\* Whatever waits, the types and the cards are kept.
LEMMA NextKeepsProviders ==
  ASSUME ProviderInv, [IntegrationsNext]_providerVars
  PROVE  ProviderInv'
<1>1. /\ tests \in Seq(Providers) /\ updates \in Seq(Update)
      /\ providers \in [Providers -> ProviderStatuses]
      /\ wished \in [Providers -> ProviderStatuses] /\ crossed \in [Providers -> BOOLEAN]
      /\ testing \in Providers \union {"none"}
      /\ DOMAIN ProviderRows \subseteq Providers
  BY DEF ProviderInv, IntegrationsTypeOK, Update
\* A step that sends or waits, with the query as it was.
<1>2. ASSUME UNCHANGED <<providers, providerQuery>>,
             testing' \in Providers \union {"none"},
             tests' \in Seq(Providers), updates' \in Seq(Update),
             wished' \in [Providers -> ProviderStatuses], crossed' \in [Providers -> BOOLEAN]
      PROVE  ProviderInv'
  BY <1>2 DEF ProviderInv, IntegrationsTypeOK, ProviderRows, Update
<1>3. CASE ProvidersAnswered \/ ProvidersFetchFailed \/ UNCHANGED providerVars
  BY <1>1, <1>3, ProviderQueryKept DEF ProvidersAnswered, ProvidersFetchFailed, providerVars
<1>4. CASE ProviderSetElsewhere
  <2>1. providers' \in [Providers -> ProviderStatuses] /\ crossed' \in [Providers -> BOOLEAN]
    BY <1>1, <1>4 DEF ProviderSetElsewhere
  <2>2. QED
    BY <1>1, <1>4, <2>1, ProviderQueryKept DEF ProviderSetElsewhere
<1>5. CASE TestConnection
  <2>1. PICK p \in DOMAIN ProviderRows :
          testing' = p /\ tests' = Append(tests, p) /\ Clicked(p, "connected")
    BY <1>5 DEF TestConnection
  <2>2. p \in Providers
    BY <1>1
  <2>3. tests' \in Seq(Providers)
    BY <1>1, <2>1, <2>2, AppendMoves
  <2>4. wished' \in [Providers -> ProviderStatuses] /\ crossed' \in [Providers -> BOOLEAN]
    BY <1>1, <2>1, <2>2 DEF Clicked, ProviderStatuses, UnderWay
  <2>5. QED
    BY <1>1, <1>2, <1>5, <2>1, <2>2, <2>3, <2>4 DEF TestConnection
<1>6. CASE TestWaited
  <2>1. Head(tests) \in Providers /\ tests' \in Seq(Providers)
    BY <1>1, <1>6, HeadTailProperties DEF TestWaited
  <2> DEFINE u == [name |-> Head(tests), status |-> "connected"]
  <2>2. u \in Update
    BY <2>1 DEF Update, ProviderStatuses
  <2>3. updates' = Append(updates, u)
    BY <1>6 DEF TestWaited
  <2> HIDE DEF u
  <2>4. updates' \in Seq(Update)
    BY <1>1, <2>2, <2>3, AppendMoves
  <2>5. QED
    BY <1>1, <1>2, <1>6, <2>1, <2>4 DEF TestWaited
<1>7. CASE ToggleConnection
  <2>1. PICK p \in DOMAIN ProviderRows, s \in ProviderStatuses :
          updates' = Append(updates, [name |-> p, status |-> s]) /\ Clicked(p, s)
    BY <1>7 DEF ToggleConnection, ProviderStatuses
  <2> DEFINE u == [name |-> p, status |-> s]
  <2>2. p \in Providers /\ u \in Update
    BY <1>1 DEF Update
  <2>3. updates' = Append(updates, u)
    BY <2>1
  <2> HIDE DEF u
  <2>4. updates' \in Seq(Update)
    BY <1>1, <2>2, <2>3, AppendMoves
  <2>5. wished' \in [Providers -> ProviderStatuses] /\ crossed' \in [Providers -> BOOLEAN]
    BY <1>1, <2>1, <2>2 DEF Clicked, UnderWay
  <2>6. QED
    BY <1>1, <1>2, <1>7, <2>4, <2>5 DEF ToggleConnection
<1>8. CASE UpdateSettled
  <2>1. PICK n \in DOMAIN updates :
          /\ updates' = RemoveAt(updates, n)
          /\ \/ /\ providers' = [providers EXCEPT ![updates[n].name] = updates[n].status]
                /\ providerQuery' = Refetched(providerQuery)
                /\ UNCHANGED crossed
             \/ /\ crossed' = [crossed EXCEPT ![updates[n].name] = TRUE]
                /\ UNCHANGED <<providers, providerQuery>>
    BY <1>8 DEF UpdateSettled
  <2>2. updates[n] \in Update
    BY <1>1, LenProperties, ElementOfSeq
  <2>3. updates' \in Seq(Update)
    BY <1>1, <2>1, RemovedAt
  <2>4. providers' \in [Providers -> ProviderStatuses] /\ crossed' \in [Providers -> BOOLEAN]
    BY <1>1, <2>1, <2>2 DEF Update
  <2>5. UNCHANGED <<testing, tests, wished>>
    BY <1>8 DEF UpdateSettled
  <2>6. CASE UNCHANGED <<providers, providerQuery>>
    BY <1>1, <1>2, <2>3, <2>4, <2>5, <2>6
  <2>7. CASE providerQuery' = Refetched(providerQuery)
    <3>1. /\ IsQuery(providerQuery') /\ ~Settled(providerQuery') /\ QueryOK(providerQuery')
          /\ providerQuery'.rows = providerQuery.rows
      BY <2>7, QueryMoves, QueryKeepsRows, QueryStaysOK DEF ProviderInv, IntegrationsTypeOK
    <3>2. QED
      BY <1>1, <2>3, <2>4, <2>5, <3>1 DEF ProviderInv, IntegrationsTypeOK, ProviderRows, Update
  <2>8. QED
    BY <2>1, <2>6, <2>7
<1>9. CASE LeaveIntegrations
  <2>1. tests' \in Seq(Providers) /\ crossed' \in [Providers -> BOOLEAN]
    BY <1>1, <1>9, EmptySeq DEF LeaveIntegrations, Range
  <2>2. /\ IsQuery(providerQuery') /\ QueryOK(providerQuery')
        /\ providerQuery'.rows = providerQuery.rows
        /\ providerQuery' = providerQuery \/ ~Settled(providerQuery')
    BY <1>9, QueryMoves, QueryKeepsRows, QueryStaysOK
       DEF LeaveIntegrations, ProviderInv, IntegrationsTypeOK
  <2>3. testing' = "none" /\ UNCHANGED <<providers, updates, wished>>
    BY <1>9 DEF LeaveIntegrations
  <2>4. QED
    BY <1>1, <2>1, <2>2, <2>3 DEF ProviderInv, IntegrationsTypeOK, ProviderRows, Update
<1>10. QED
  BY <1>3, <1>4, <1>5, <1>6, <1>7, <1>8, <1>9 DEF IntegrationsNext

LEMMA NextKeepsWishes ==
  ASSUME ProviderInv, WishesInv, [IntegrationsNext]_providerVars
  PROVE  WishesInv'
<1> SUFFICES ASSUME NEW q \in Providers, ~crossed'[q]
             PROVE  OneWish(tests, updates, q, wished[q], providers[q])'
  BY DEF WishesInv
<1>1. /\ tests \in Seq(Providers) /\ updates \in Seq(Update)
      /\ wished \in [Providers -> ProviderStatuses] /\ crossed \in [Providers -> BOOLEAN]
      /\ providers \in [Providers -> ProviderStatuses]
      /\ DOMAIN ProviderRows \subseteq Providers
  BY DEF ProviderInv, IntegrationsTypeOK, Update
<1>2. ~crossed[q] => OneWish(tests, updates, q, wished[q], providers[q])
  BY DEF WishesInv
<1>3. ASSUME UNCHANGED <<tests, updates, wished>>, ~crossed[q], providers'[q] = providers[q]
      PROVE  OneWish(tests, updates, q, wished[q], providers[q])'
  BY <1>2, <1>3
<1>4. CASE ProvidersAnswered \/ ProvidersFetchFailed \/ UNCHANGED providerVars
  BY <1>3, <1>4 DEF ProvidersAnswered, ProvidersFetchFailed, providerVars
<1>5. CASE ProviderSetElsewhere
  BY <1>1, <1>3, <1>5 DEF ProviderSetElsewhere
<1>6. CASE TestConnection
  <2>1. PICK p \in DOMAIN ProviderRows : tests' = Append(tests, p) /\ Clicked(p, "connected")
    BY <1>6 DEF TestConnection
  <2>2. p \in Providers /\ UNCHANGED <<updates, providers>>
    BY <1>1, <1>6 DEF TestConnection
  <2>3. CASE p = q
    <3>1. ~Asked(tests, updates, q) /\ wished'[q] = "connected"
      BY <1>1, <2>1, <2>3, AskedIsUnderWay DEF Clicked
    <3>2. OneWish(Append(tests, q), updates, q, "connected", providers[q])
      BY <1>1, <3>1, TestAdds
    <3>3. QED
      BY <2>1, <2>2, <2>3, <3>1, <3>2
  <2>4. CASE p # q
    <3>1. ~crossed[q] /\ wished'[q] = wished[q]
      BY <1>1, <2>1, <2>2, <2>4 DEF Clicked
    <3>2. OneWish(Append(tests, p), updates, q, wished[q], providers[q])
      BY <1>1, <1>2, <2>2, <2>4, <3>1, TestAdds
    <3>3. QED
      BY <2>1, <2>2, <3>1, <3>2
  <2>5. QED
    BY <2>3, <2>4
<1>7. CASE TestWaited
  <2>1. /\ tests # << >> /\ tests' = Tail(tests) /\ UNCHANGED <<wished, crossed, providers>>
        /\ updates' = Append(updates, [name |-> Head(tests), status |-> "connected"])
    BY <1>7 DEF TestWaited
  <2>2. Head(tests) \in Providers
    BY <1>1, <2>1, HeadTailProperties
  <2>3. PICK u : u = [name |-> Head(tests), status |-> "connected"]
    OBVIOUS
  <2>4. u \in Update /\ u.name = Head(tests) /\ u.status = "connected"
    BY <2>2, <2>3 DEF Update, ProviderStatuses
  <2>5. OneWish(Tail(tests), Append(updates, u), q, wished[q], providers[q])
    BY <1>1, <1>2, <2>1, <2>4, TestTurnsUpdate
  <2>6. QED
    BY <2>1, <2>3, <2>5
<1>8. CASE ToggleConnection
  <2>1. PICK p \in DOMAIN ProviderRows, s \in ProviderStatuses :
          updates' = Append(updates, [name |-> p, status |-> s]) /\ Clicked(p, s)
    BY <1>8 DEF ToggleConnection, ProviderStatuses
  <2>2. p \in Providers /\ UNCHANGED <<tests, providers>>
    BY <1>1, <1>8 DEF ToggleConnection
  <2>3. PICK u : u = [name |-> p, status |-> s]
    OBVIOUS
  <2>4. u \in Update /\ u.name = p /\ u.status = s
    BY <2>2, <2>3 DEF Update
  <2>5. CASE p = q
    <3>1. ~Asked(tests, updates, q) /\ wished'[q] = s
      BY <1>1, <2>1, <2>5, AskedIsUnderWay DEF Clicked
    <3>2. OneWish(tests, Append(updates, u), q, u.status, providers[q])
      BY <1>1, <2>4, <2>5, <3>1, UpdateAdds
    <3>3. QED
      BY <2>1, <2>2, <2>3, <2>4, <3>1, <3>2
  <2>6. CASE p # q
    <3>1. ~crossed[q] /\ wished'[q] = wished[q]
      BY <1>1, <2>1, <2>2, <2>6 DEF Clicked
    <3>2. OneWish(tests, Append(updates, u), q, wished[q], providers[q])
      BY <1>1, <1>2, <2>4, <2>6, <3>1, UpdateAdds
    <3>3. QED
      BY <2>1, <2>2, <2>3, <3>1, <3>2
  <2>7. QED
    BY <2>5, <2>6
<1>9. CASE UpdateSettled
  <2>1. PICK n \in DOMAIN updates :
          /\ updates' = RemoveAt(updates, n)
          /\ \/ /\ providers' = [providers EXCEPT ![updates[n].name] = updates[n].status]
                /\ UNCHANGED crossed
             \/ /\ crossed' = [crossed EXCEPT ![updates[n].name] = TRUE]
                /\ UNCHANGED providers
    BY <1>9 DEF UpdateSettled
  <2>2. UNCHANGED <<tests, wished>> /\ updates[n] \in Update
    BY <1>1, <1>9, LenProperties, ElementOfSeq DEF UpdateSettled
  <2>3. ~crossed[q]
    BY <1>1, <2>1
  <2>4. CASE updates[n].name = q
    <3>1. providers'[q] = updates[n].status
      BY <1>1, <2>1, <2>4
    <3>2. OneWish(tests, RemoveAt(updates, n), q, wished[q], updates[n].status)
      BY <1>1, <1>2, <2>3, <2>4, UpdateEnds
    <3>3. QED
      BY <2>1, <2>2, <3>1, <3>2
  <2>5. CASE updates[n].name # q
    <3>1. providers'[q] = providers[q]
      BY <1>1, <2>1, <2>5
    <3>2. OneWish(tests, RemoveAt(updates, n), q, wished[q], providers[q])
      BY <1>1, <1>2, <2>3, <2>5, UpdateEnds
    <3>3. QED
      BY <2>1, <2>2, <3>1, <3>2
  <2>6. QED
    BY <2>4, <2>5
<1>10. CASE LeaveIntegrations
  <2>1. /\ ~crossed[q] /\ q \notin Range(tests)
        /\ tests' = << >> /\ UNCHANGED <<updates, wished, providers>>
    BY <1>10 DEF LeaveIntegrations
  <2>2. \A i \in DOMAIN tests : tests[i] # q
    BY <2>1 DEF Range
  <2>3. QED
    BY <1>2, <2>1, <2>2 DEF OneWish, Asked
<1>11. QED
  BY <1>4, <1>5, <1>6, <1>7, <1>8, <1>9, <1>10 DEF IntegrationsNext

\* The cards of the integrations are the server's, and a provider comes to what it was last
\* clicked to, however many tests and updates wait and in whichever order they are done.
LEMMA IntegrationsShown ==
  IntegrationsSpec => []IntegrationsTypeOK /\ []ProvidersFresh /\ []LastWishHolds
<1>1. ProviderInv /\ [IntegrationsNext]_providerVars => ProviderInv'
  BY NextKeepsProviders
<1>2. ProviderInv /\ WishesInv /\ [IntegrationsNext]_providerVars => WishesInv'
  BY NextKeepsWishes
<1>3. ProviderInv => IntegrationsTypeOK
  BY DEF ProviderInv
<1>4. ProviderInv => ProvidersFresh
  BY DEF ProviderInv, ProvidersFresh, ConnectedBadge, IntegrationsTypeOK
<1>5. WishesInv => LastWishHolds
  BY AskedIsUnderWay DEF WishesInv, LastWishHolds, OneWish
<1>6. QED
  BY <1>1, <1>2, <1>3, <1>4, <1>5, InitProviders, PTL DEF IntegrationsSpec

\* A provider comes to what it was last clicked to, for any number of providers and of tests and
\* updates under way.
THEOREM LastWishTheorem == IntegrationsSpec => []LastWishHolds
BY IntegrationsShown, PTL

-----------------------------------------------------------------------------
(* The users tab                                                           *)

UserRecord == [role : Roles, status : {"active", "suspended"}, mfa : BOOLEAN]

\* A new user goes first, and a toggled one stays where it was.
LEMMA UserJoins ==
  ASSUME NEW s \in Seq(UserRecord), NEW u \in UserRecord
  PROVE  <<u>> \o s \in Seq(UserRecord)
<1>1. PICK one : one = <<u>>
  OBVIOUS
<1>2. one \in Seq(UserRecord)
  BY <1>1
<1>3. one \o s \in Seq(UserRecord)
  BY <1>2, ConcatProperties
<1>4. QED
  BY <1>1, <1>3

LEMMA UserToggles ==
  ASSUME NEW s \in Seq(UserRecord), NEW i \in DOMAIN s
  PROVE  /\ [s EXCEPT ![i].status = IF @ = "active" THEN "suspended" ELSE "active"] \in Seq(UserRecord)
         /\ [s EXCEPT ![i].mfa = ~@] \in Seq(UserRecord)
<1>1. s[i] \in UserRecord
  BY LenProperties, ElementOfSeq
<1>2. PICK u \in UserRecord : u = [s[i] EXCEPT !.status = IF @ = "active" THEN "suspended" ELSE "active"]
  BY <1>1 DEF UserRecord
<1>3. PICK v \in UserRecord : v = [s[i] EXCEPT !.mfa = ~@]
  BY <1>1 DEF UserRecord
<1>4. i \in 1..Len(s)
  BY LenProperties
<1>5. [s EXCEPT ![i] = u] \in Seq(UserRecord) /\ [s EXCEPT ![i] = v] \in Seq(UserRecord)
  BY <1>4, ExceptSeq
<1>6. QED
  BY <1>2, <1>3, <1>5

\* The list, the form and the filters stay what they are, for any roles.
LEMMA UsersTyped == UsersSpec => []UsersTypeOK
<1>1. BlankUser \in [typed : BOOLEAN, role : Roles]
  BY UsersAssumption DEF BlankUser
<1>2. UsersInit => UsersTypeOK
  <2>1. << >> \in Seq(UserRecord)
    BY EmptySeq
  <2>2. QED
    BY <1>1, <2>1 DEF UsersInit, UsersTypeOK, UserRecord
<1>3. UsersTypeOK /\ [UsersNext]_userVars => UsersTypeOK'
  <2> SUFFICES ASSUME UsersTypeOK, [UsersNext]_userVars PROVE UsersTypeOK'
    OBVIOUS
  <2>1. /\ users \in Seq(UserRecord)
        /\ userView \in [role : Roles \union {"all"}, adding : BOOLEAN, permissions : BOOLEAN]
        /\ newUser \in [typed : BOOLEAN, role : Roles]
    BY DEF UsersTypeOK, UserRecord
  <2>2. CASE TypeUser
    BY <2>1, <2>2 DEF TypeUser, UsersTypeOK, UserRecord
  <2>3. CASE ShowUsers
    BY <2>1, <2>3 DEF ShowUsers, UsersTypeOK, UserRecord
  <2>4. CASE AddUser
    <3>1. PICK u : u = [role |-> newUser.role, status |-> "active", mfa |-> FALSE]
      OBVIOUS
    <3>2. u \in UserRecord
      BY <2>1, <3>1 DEF UserRecord
    <3>3. users' = <<u>> \o users
      BY <2>4, <3>1 DEF AddUser
    <3>4. users' \in Seq(UserRecord)
      BY <2>1, <3>2, <3>3, UserJoins
    <3>5. QED
      BY <1>1, <2>1, <2>4, <3>4 DEF AddUser, UsersTypeOK, UserRecord
  <2>5. CASE ToggleUser
    <3>1. PICK i \in FilteredUsers(userView.role) :
            \/ users' = [users EXCEPT ![i].status = IF @ = "active" THEN "suspended" ELSE "active"]
            \/ users' = [users EXCEPT ![i].mfa = ~@]
      BY <2>5 DEF ToggleUser
    <3>2. i \in DOMAIN users
      BY DEF FilteredUsers, UsersWith
    <3>3. users' \in Seq(UserRecord)
      BY <2>1, <3>1, <3>2, UserToggles
    <3>4. QED
      BY <2>1, <2>5, <3>3 DEF ToggleUser, UsersTypeOK, UserRecord
  <2>6. CASE LeaveUsers
    <3>1. << >> \in Seq(UserRecord)
      BY EmptySeq
    <3>2. QED
      BY <1>1, <2>6, <3>1 DEF LeaveUsers, UsersTypeOK, UserRecord
  <2>7. CASE UNCHANGED userVars
    BY <2>1, <2>7 DEF userVars, UsersTypeOK, UserRecord
  <2>8. QED
    BY <2>2, <2>3, <2>4, <2>5, <2>6, <2>7 DEF UsersNext
<1>4. QED
  BY <1>2, <1>3, PTL DEF UsersSpec

-----------------------------------------------------------------------------
(* The change log                                                          *)

Smaller(m, n) == IF m < n THEN m ELSE n

\* The least of three numbers.
LEMMA LeastOfThree ==
  ASSUME NEW a \in Nat, NEW b \in Nat, NEW c \in Nat
  PROVE  (CHOOSE n \in {a, b, c} : \A m \in {a, b, c} : n <= m) = Smaller(Smaller(a, b), c)
<1>1. Smaller(Smaller(a, b), c) \in {a, b, c}
      /\ \A m \in {a, b, c} : Smaller(Smaller(a, b), c) <= m
  BY DEF Smaller
<1>2. \A x, y \in {a, b, c} :
        (\A m \in {a, b, c} : x <= m) /\ (\A m \in {a, b, c} : y <= m) => x = y
  OBVIOUS
<1>3. QED
  BY <1>1, <1>2

\* The first entries of a sequence.
LEMMA FirstOf ==
  ASSUME NEW S, NEW s, NEW k \in Nat, \A i \in 1..k : s[i] \in S
  PROVE  /\ SubSeq(s, 1, k) \in Seq(S) /\ Len(SubSeq(s, 1, k)) = k
         /\ \A i \in 1..k : SubSeq(s, 1, k)[i] = s[i]
<1>1. PICK m \in Int : m = 1
  OBVIOUS
<1>2. PICK n \in Int : n = k
  OBVIOUS
<1>3. \A i \in m..n : s[i] \in S
  BY <1>1, <1>2
<1>4. /\ SubSeq(s, m, n) \in Seq(S)
      /\ Len(SubSeq(s, m, n)) = (IF m <= n THEN n - m + 1 ELSE 0)
      /\ \A i \in 1..(n - m + 1) : SubSeq(s, m, n)[i] = s[m + i - 1]
  BY <1>3, SubSeqProperties
<1>5. n - m + 1 = k /\ (m <= n <=> 1 <= k)
  BY <1>1, <1>2
<1>6. Len(SubSeq(s, m, n)) = k
  BY <1>4, <1>5
<1>7. ASSUME NEW i \in 1..k PROVE SubSeq(s, m, n)[i] = s[i]
  <2>1. i \in 1..(n - m + 1) /\ m + i - 1 = i
    BY <1>1, <1>2
  <2>2. QED
    BY <1>4, <2>1
<1>8. QED
  BY <1>1, <1>2, <1>4, <1>6, <1>7

\* A ring that takes in a newest entry, and keeps as many as it may.
Turned(s, e, k) == SubSeq(<<e>> \o s, 1, k)

LEMMA RingTurns ==
  ASSUME NEW S, NEW s \in Seq(S), NEW e \in S, NEW k \in 1..(Len(s) + 1)
  PROVE  /\ Turned(s, e, k) \in Seq(S) /\ Len(Turned(s, e, k)) = k
         /\ Turned(s, e, k)[1] = e
         /\ \A i \in 2..k : i - 1 \in DOMAIN s /\ Turned(s, e, k)[i] = s[i - 1]
<1>1. <<e>> \in Seq(S) /\ Len(<<e>>) = 1 /\ <<e>>[1] = e
  OBVIOUS
<1>2. Len(s) \in Nat /\ DOMAIN s = 1..Len(s)
  BY LenProperties
<1>3. PICK longer : longer = <<e>> \o s
  OBVIOUS
<1>4. /\ longer \in Seq(S) /\ Len(longer) = 1 + Len(s)
      /\ \A i \in 1..(1 + Len(s)) : longer[i] = IF i <= 1 THEN <<e>>[i] ELSE s[i - 1]
  BY <1>1, <1>3, ConcatProperties
<1>5. \A i \in 1..k : longer[i] \in S
  <2>1. \A i \in 1..k : i \in 1..Len(longer)
    BY <1>2, <1>4
  <2>2. QED
    BY <1>4, <2>1, ElementOfSeq
<1>6. PICK r : r = SubSeq(longer, 1, k)
  OBVIOUS
<1>7. k \in Nat /\ k >= 1 /\ k <= 1 + Len(s)
  BY <1>2
<1>8. r \in Seq(S) /\ Len(r) = k /\ \A i \in 1..k : r[i] = longer[i]
  BY <1>5, <1>6, <1>7, FirstOf
<1>9. r[1] = e
  BY <1>1, <1>2, <1>4, <1>7, <1>8
<1>10. ASSUME NEW i \in 2..k PROVE i - 1 \in DOMAIN s /\ r[i] = s[i - 1]
  <2>1. i \in 1..k /\ i \in 1..(1 + Len(s)) /\ ~(i <= 1) /\ i - 1 \in 1..Len(s)
    BY <1>2, <1>7
  <2>2. QED
    BY <1>2, <1>4, <1>8, <2>1
<1>11. r = Turned(s, e, k)
  BY <1>3, <1>6 DEF Turned
<1>12. QED
  BY <1>8, <1>9, <1>10, <1>11

\* The ring holds the newest entries since the restart without a gap; the tab is about some of
\* them, and its cutoff is never later than a day ago.
RingInv ==
  /\ {recorded, lost, days} \subseteq Nat /\ lost <= recorded /\ days <= recorded
  /\ changeLog \in Seq(LogEntry)
  /\ Len(changeLog) = Smaller(recorded - lost, MaxEntries)
  /\ \A i \in DOMAIN changeLog : changeLog[i].n = recorded + 1 - i
LogQueryInv ==
  /\ IsQuery(logQuery) /\ QueryOK(logQuery)
  /\ logQuery.rows.entries \in Seq(LogEntry) /\ logQuery.rows.users \subseteq Officers
  /\ Settled(logQuery) => logQuery.rows = LogPage
LogFilterInv ==
  /\ DOMAIN logFilter = {"user", "narrow", "cutoff"}
  /\ logFilter.user \in Officers \union {"all"}
  /\ logFilter.cutoff \in Nat /\ logFilter.cutoff <= days

\* The page is the first entries of the ring.
LEMMA LogPageHolds ==
  ASSUME RingInv
  PROVE  /\ LogPage.entries \in Seq(LogEntry) /\ LogPage.users \subseteq Officers
         /\ Len(LogPage.entries) = Smaller(Len(changeLog), LogPageSize)
         /\ \A i \in 1..Len(LogPage.entries) : LogPage.entries[i].n = recorded + 1 - i
<1>1. changeLog \in Seq(LogEntry) /\ Len(changeLog) \in Nat /\ DOMAIN changeLog = 1..Len(changeLog)
  BY LenProperties DEF RingInv
<1>2. LogPageSize \in Nat \ {0}
  BY ChangeLogAssumption
<1>3. PICK k \in Nat : k = IF Len(changeLog) < LogPageSize THEN Len(changeLog) ELSE LogPageSize
  BY <1>1, <1>2
<1>4. k = Smaller(Len(changeLog), LogPageSize) /\ k <= Len(changeLog)
  <2>1. PICK m \in Nat : m = Len(changeLog)
    BY <1>1
  <2>2. k = Smaller(m, LogPageSize) /\ k <= m
    BY <1>2, <1>3, <2>1 DEF Smaller
  <2>3. QED
    BY <2>1, <2>2
<1>5. \A i \in 1..k : i \in 1..Len(changeLog) /\ changeLog[i] \in LogEntry
  <2>1. \A i \in 1..k : i \in 1..Len(changeLog)
    BY <1>1, <1>4
  <2>2. QED
    BY <1>1, <2>1, ElementOfSeq
<1>6. /\ SubSeq(changeLog, 1, k) \in Seq(LogEntry) /\ Len(SubSeq(changeLog, 1, k)) = k
      /\ \A i \in 1..k : SubSeq(changeLog, 1, k)[i] = changeLog[i]
  BY <1>5, FirstOf
<1>7. LogPage.entries = SubSeq(changeLog, 1, k) /\ LogPage.users = {e.user : e \in Range(changeLog)}
  BY <1>3 DEF LogPage
<1>8. Len(LogPage.entries) = k
  BY <1>6, <1>7
<1>9. ASSUME NEW i \in 1..k PROVE LogPage.entries[i].n = recorded + 1 - i
  <2>2. LogPage.entries[i] = changeLog[i]
    BY <1>6, <1>7
  <2>3. i \in DOMAIN changeLog
    BY <1>1, <1>5
  <2>4. QED
    BY <2>2, <2>3 DEF RingInv
<1>10. LogPage.users \subseteq Officers
  <2>1. ASSUME NEW i \in DOMAIN changeLog PROVE changeLog[i].user \in Officers
    <3>1. changeLog[i] \in LogEntry
      BY <1>1, ElementOfSeq
    <3>2. QED
      BY <3>1 DEF LogEntry
  <2>2. QED
    BY <1>7, <2>1 DEF Range
<1>11. QED
  BY <1>4, <1>6, <1>7, <1>8, <1>9, <1>10

LEMMA RecordKeepsRing ==
  ASSUME RingInv, Record
  PROVE RingInv'
<1>1. PICK user \in Officers :
        LET longer == <<[n |-> recorded + 1, user |-> user]>> \o changeLog
        IN  changeLog' = SubSeq(longer, 1, IF Len(longer) < MaxEntries THEN Len(longer) ELSE MaxEntries)
  BY DEF Record
<1>2. PICK e : e = [n |-> recorded + 1, user |-> user]
  OBVIOUS
<1>3. PICK longer : longer = <<e>> \o changeLog
  OBVIOUS
<1>4. changeLog' = SubSeq(longer, 1, IF Len(longer) < MaxEntries THEN Len(longer) ELSE MaxEntries)
  BY <1>1, <1>2, <1>3
<1>5. /\ {recorded, lost, days} \subseteq Nat /\ lost <= recorded /\ days <= recorded
      /\ changeLog \in Seq(LogEntry) /\ Len(changeLog) = Smaller(recorded - lost, MaxEntries)
      /\ MaxEntries \in Nat \ {0}
  BY ChangeLogAssumption DEF RingInv
<1>6. e \in LogEntry /\ e.n = recorded + 1
  BY <1>2, <1>5 DEF LogEntry
<1>7. PICK r : r = changeLog'
  OBVIOUS
<1>8. /\ r \in Seq(LogEntry) /\ Len(r) = Smaller(Len(changeLog) + 1, MaxEntries)
      /\ r[1] = e /\ \A i \in 2..Len(r) : i - 1 \in DOMAIN changeLog /\ r[i] = changeLog[i - 1]
  <2>1. Len(changeLog) \in Nat
    BY <1>5, LenProperties
  <2>2. Len(longer) = Len(changeLog) + 1
    <3>1. PICK one : one = <<e>>
      OBVIOUS
    <3>2. one \in Seq(LogEntry) /\ Len(one) = 1
      BY <1>6, <3>1
    <3>3. Len(one \o changeLog) = Len(one) + Len(changeLog)
      BY <1>5, <3>2, ConcatProperties
    <3>4. QED
      BY <1>3, <2>1, <3>1, <3>2, <3>3
  <2>3. PICK k : k = IF Len(longer) < MaxEntries THEN Len(longer) ELSE MaxEntries
    OBVIOUS
  <2>4. k \in 1..(Len(changeLog) + 1) /\ k = Smaller(Len(changeLog) + 1, MaxEntries)
    BY <1>5, <2>1, <2>2, <2>3 DEF Smaller
  <2>5. r = Turned(changeLog, e, k)
    BY <1>3, <1>4, <1>7, <2>3 DEF Turned
  <2>6. QED
    BY <1>5, <1>6, <2>4, <2>5, RingTurns
<1>9. recorded' = recorded + 1 /\ UNCHANGED <<lost, days>>
  BY DEF Record
<1>10. Len(r) = Smaller(recorded' - lost', MaxEntries)
  BY <1>5, <1>8, <1>9 DEF Smaller
<1>11. ASSUME NEW i \in DOMAIN r PROVE r[i].n = recorded' + 1 - i
  <2>1. i \in 1..Len(r) /\ Len(r) \in Nat
    BY <1>8, LenProperties
  <2>2. CASE i = 1
    BY <1>5, <1>6, <1>8, <1>9, <2>2
  <2>3. CASE i # 1
    <3>1. i \in 2..Len(r) /\ i - 1 \in Int
      BY <2>1, <2>3
    <3>2. i - 1 \in DOMAIN changeLog /\ r[i] = changeLog[i - 1]
      BY <1>8, <3>1
    <3>3. changeLog[i - 1].n = recorded + 1 - (i - 1)
      BY <3>2 DEF RingInv
    <3>4. recorded + 1 - (i - 1) = recorded' + 1 - i
      BY <1>5, <1>9, <2>1
    <3>5. QED
      BY <3>2, <3>3, <3>4
  <2>4. QED
    BY <2>2, <2>3
<1>12. {recorded', lost', days'} \subseteq Nat /\ lost' <= recorded' /\ days' <= recorded'
  BY <1>5, <1>9
<1>13. QED
  BY <1>7, <1>8, <1>10, <1>11, <1>12 DEF RingInv

LEMMA NextKeepsRing ==
  ASSUME RingInv, [LogNext]_logVars
  PROVE RingInv'
<1>1. CASE Record
  BY <1>1, RecordKeepsRing
<1>2. CASE LogLost
  <2>1. /\ changeLog' = << >> /\ lost' = recorded /\ UNCHANGED <<recorded, days>>
    BY <1>2 DEF LogLost
  <2>2. << >> \in Seq(LogEntry) /\ Len(<< >>) = 0
    BY EmptySeq
  <2>3. recorded \in Nat /\ MaxEntries \in Nat \ {0}
    BY ChangeLogAssumption DEF RingInv
  <2>4. Smaller(recorded - recorded, MaxEntries) = 0
    BY <2>3 DEF Smaller
  <2>5. QED
    BY <2>1, <2>2, <2>3, <2>4 DEF RingInv
<1>3. CASE DayPasses
  BY <1>3 DEF DayPasses, RingInv
<1>4. CASE LogAnswered \/ LogFetchFailed \/ FilterLog \/ LeaveLog \/ UNCHANGED logVars
  BY <1>4 DEF LogAnswered, LogFetchFailed, FilterLog, LeaveLog, logVars, RingInv
<1>5. QED
  BY <1>1, <1>2, <1>3, <1>4 DEF LogNext

LEMMA NextKeepsLogQuery ==
  ASSUME RingInv, LogQueryInv, [LogNext]_logVars PROVE LogQueryInv'
<1>1. changeLog' = changeLog => LogPage' = LogPage
  BY DEF LogPage
<1>2. /\ IsQuery(logQuery) /\ QueryOK(logQuery)
      /\ logQuery.rows.entries \in Seq(LogEntry) /\ logQuery.rows.users \subseteq Officers
  BY DEF LogQueryInv
\* A query that is not settled, with the rows there were.
<1>3. ASSUME logQuery' \in {Overtaken(logQuery), Refetched(logQuery), FetchFailed(logQuery)}
      PROVE  LogQueryInv'
  <2>1. /\ IsQuery(logQuery') /\ QueryOK(logQuery') /\ ~Settled(logQuery')
        /\ logQuery'.rows = logQuery.rows
    BY <1>2, <1>3, QueryMoves, QueryKeepsRows, QueryStaysOK
  <2>2. QED
    BY <1>2, <2>1 DEF LogQueryInv
<1>4. CASE Record \/ LogLost \/ LogFetchFailed
  BY <1>3, <1>4 DEF Record, LogLost, LogFetchFailed
<1>5. CASE DayPasses \/ FilterLog \/ UNCHANGED logVars
  BY <1>1, <1>5 DEF DayPasses, FilterLog, logVars, LogQueryInv
<1>6. CASE LogAnswered
  <2>1. logQuery' = AnsweredWith(LogPage) /\ changeLog' = changeLog
    BY <1>6 DEF LogAnswered
  <2>2. IsQuery(logQuery') /\ QueryOK(logQuery') /\ logQuery'.rows = LogPage
    BY <2>1, QueryBegins, QueryBeginsOK
  <2>3. LogPage.entries \in Seq(LogEntry) /\ LogPage.users \subseteq Officers
    BY LogPageHolds
  <2>4. QED
    BY <1>1, <2>1, <2>2, <2>3 DEF LogQueryInv
<1>7. CASE LeaveLog
  <2>1. logQuery' \in Mounted(logQuery) /\ changeLog' = changeLog
    BY <1>7 DEF LeaveLog
  <2>2. /\ IsQuery(logQuery') /\ QueryOK(logQuery') /\ logQuery'.rows = logQuery.rows
        /\ logQuery' = logQuery \/ ~Settled(logQuery')
    BY <1>2, <2>1, QueryMoves, QueryKeepsRows, QueryStaysOK
  <2>3. QED
    BY <1>1, <1>2, <2>1, <2>2 DEF LogQueryInv
<1>8. QED
  BY <1>4, <1>5, <1>6, <1>7 DEF LogNext

LEMMA NextKeepsLogFilter ==
  ASSUME RingInv, LogQueryInv, LogFilterInv, [LogNext]_logVars PROVE LogFilterInv'
<1>1. days \in Nat /\ logQuery.rows.users \subseteq Officers
  BY DEF RingInv, LogQueryInv
<1>2. ASSUME NEW f, DOMAIN f = {"user", "narrow", "cutoff"}, f.user \in Officers \union {"all"},
             logFilter' \in {f, Narrowed(f)}, logFilter' = f => f.cutoff \in 0..days, days' = days
      PROVE  LogFilterInv'
  BY <1>1, <1>2 DEF LogFilterInv, Narrowed
<1>3. CASE LogAnswered
  BY <1>1, <1>3 DEF LogAnswered, LogFilterInv, Narrowed
<1>4. CASE FilterLog
  <2>1. PICK f : /\ DOMAIN f = {"user", "narrow", "cutoff"}
                 /\ f.user \in Officers \union {"all"} /\ logFilter' = Narrowed(f)
    <3>1. CASE \E u \in logQuery.rows.users \union {"all"} :
                 logFilter' = Narrowed([logFilter EXCEPT !.user = u])
      <4>1. PICK u \in logQuery.rows.users \union {"all"} :
              logFilter' = Narrowed([logFilter EXCEPT !.user = u])
        BY <3>1
      <4>2. PICK f : f = [logFilter EXCEPT !.user = u]
        OBVIOUS
      <4>3. DOMAIN f = {"user", "narrow", "cutoff"} /\ f.user = u
        BY <4>2 DEF LogFilterInv
      <4>4. QED
        BY <1>1, <4>1, <4>2, <4>3
    <3>2. CASE \E b \in BOOLEAN : logFilter' = Narrowed([logFilter EXCEPT !.narrow = b])
      <4>1. PICK b \in BOOLEAN : logFilter' = Narrowed([logFilter EXCEPT !.narrow = b])
        BY <3>2
      <4>2. PICK f : f = [logFilter EXCEPT !.narrow = b]
        OBVIOUS
      <4>3. DOMAIN f = {"user", "narrow", "cutoff"} /\ f.user = logFilter.user
        BY <4>2 DEF LogFilterInv
      <4>4. QED
        BY <4>1, <4>2, <4>3 DEF LogFilterInv
    <3>3. QED
      BY <1>4, <3>1, <3>2 DEF FilterLog
  <2>2. days' = days
    BY <1>4 DEF FilterLog
  <2>3. QED
    BY <1>1, <2>1, <2>2 DEF LogFilterInv, Narrowed
<1>5. CASE DayPasses
  BY <1>1, <1>5 DEF DayPasses, LogFilterInv
<1>6. CASE LeaveLog
  BY <1>1, <1>6 DEF LeaveLog, EveryEntry, LogFilterInv
<1>7. CASE Record \/ LogLost \/ LogFetchFailed \/ UNCHANGED logVars
  BY <1>7 DEF Record, LogLost, LogFetchFailed, logVars, LogFilterInv
<1>8. QED
  BY <1>3, <1>4, <1>5, <1>6, <1>7 DEF LogNext

LEMMA LogIsTold ==
  ASSUME RingInv, LogQueryInv, LogFilterInv
  PROVE  LogTypeOK /\ NewestWithoutGap /\ ListHoldsLastDay
<1>1. /\ {recorded, lost, days} \subseteq Nat /\ lost <= recorded /\ days <= recorded
      /\ changeLog \in Seq(LogEntry) /\ Len(changeLog) = Smaller(recorded - lost, MaxEntries)
      /\ MaxEntries \in Nat \ {0} /\ LogPageSize \in Nat \ {0} /\ recorded - lost \in Nat
  BY ChangeLogAssumption DEF RingInv
<1>2. LogTypeOK
  BY <1>1 DEF LogTypeOK, LogQueryInv, LogFilterInv, Smaller
<1>3. NewestWithoutGap
  <2> SUFFICES ASSUME Settled(logQuery) PROVE NewestWithoutGap
    BY DEF NewestWithoutGap
  <2> DEFINE length == CHOOSE n \in {recorded - lost, MaxEntries, LogPageSize} :
                         \A m \in {recorded - lost, MaxEntries, LogPageSize} : n <= m
  <2>1. length = Smaller(Smaller(recorded - lost, MaxEntries), LogPageSize)
    <3>1. PICK a \in Nat : a = recorded - lost
      BY <1>1
    <3>2. MaxEntries \in Nat /\ LogPageSize \in Nat
      BY <1>1
    <3>3. QED
      BY <3>1, <3>2, LeastOfThree
  <2>2. logQuery.rows = LogPage
    BY DEF LogQueryInv
  <2>3. /\ Len(LogPage.entries) = Smaller(Len(changeLog), LogPageSize)
        /\ \A i \in 1..Len(LogPage.entries) : LogPage.entries[i].n = recorded + 1 - i
    BY LogPageHolds
  <2> HIDE DEF length
  <2>4. Len(logQuery.rows.entries) = length
    BY <1>1, <2>1, <2>2, <2>3
  <2>5. \A i \in 1..length : logQuery.rows.entries[i].n = recorded + 1 - i
    BY <2>2, <2>3, <2>4
  <2>6. QED
    BY <2>4, <2>5 DEF NewestWithoutGap, length
<1>4. ListHoldsLastDay
  <2> SUFFICES ASSUME logFilter.user = "all", NEW e \in LastDay PROVE e \in LogRows
    BY DEF ListHoldsLastDay
  <2>1. e \in Range(logQuery.rows.entries) /\ e.n > days
    BY DEF LastDay
  <2>2. e.n \in Nat
    <3>1. PICK i \in DOMAIN logQuery.rows.entries : e = logQuery.rows.entries[i]
      BY <2>1 DEF Range
    <3>2. e \in LogEntry
      BY <3>1, LenProperties, ElementOfSeq DEF LogQueryInv
    <3>3. QED
      BY <3>2 DEF LogEntry
  <2>3. e.n > logFilter.cutoff
    BY <1>1, <2>1, <2>2 DEF LogFilterInv
  <2>4. QED
    BY <2>1, <2>3 DEF LogRows
<1>5. QED
  BY <1>2, <1>3, <1>4

\* The tab has the newest entries without a gap, and narrowed to a day those of the day: for a
\* ring and pages of any size, and restarts at any time.
LEMMA LogShown == LogSpec => []LogTypeOK /\ []NewestWithoutGap /\ []ListHoldsLastDay
<1> DEFINE Inv == RingInv /\ LogQueryInv /\ LogFilterInv
<1>1. LogInit => Inv
  <2> SUFFICES ASSUME LogInit PROVE Inv
    OBVIOUS
  <2>1. /\ changeLog = << >> /\ recorded = 0 /\ lost = 0 /\ days = 0
        /\ logQuery = NewQuery(NoLog) /\ logFilter = EveryEntry
    BY DEF LogInit
  <2>2. << >> \in Seq(LogEntry) /\ Len(<< >>) = 0
    BY EmptySeq
  <2>3. Smaller(0 - 0, MaxEntries) = 0
    BY ChangeLogAssumption DEF Smaller
  <2>4. RingInv
    BY <2>1, <2>2, <2>3 DEF RingInv
  <2>5. IsQuery(logQuery) /\ ~Settled(logQuery) /\ logQuery.rows = NoLog /\ QueryOK(logQuery)
    BY <2>1, QueryBegins, QueryBeginsOK
  <2>6. LogQueryInv
    BY <2>2, <2>5 DEF LogQueryInv, NoLog
  <2>7. LogFilterInv
    BY <2>1 DEF LogFilterInv, EveryEntry
  <2>8. QED
    BY <2>4, <2>6, <2>7
<1>2. Inv /\ [LogNext]_logVars => Inv'
  BY NextKeepsRing, NextKeepsLogQuery, NextKeepsLogFilter
<1>3. Inv => LogTypeOK /\ NewestWithoutGap /\ ListHoldsLastDay
  BY LogIsTold
<1>4. QED
  BY <1>1, <1>2, <1>3, PTL DEF LogSpec

-----------------------------------------------------------------------------
(* The sanctions panel                                                     *)

MatchRecord == [name : ListedNames, status : MatchStatuses]
MatchRow(m) == [id : 1..m, name : ListedNames, status : MatchStatuses]
ScreeningCall == [name : ListedNames \union OtherNames, reports : BOOLEAN]
ReviewCall(m) == [id : 1..m, status : MatchStatuses, reports : BOOLEAN]

\* The rows of matches not written since they were copied have the status the server has.
RowsAgree(rows, ms, ws) ==
  \A i \in DOMAIN rows : ws[rows[i].id] = 0 => rows[i].status = ms[rows[i].id].status

\* A row of a match written once has it too, or the last answer, old, has another: then the next
\* answer differs from it, and the effect runs.
RowsNoticed(rows, old, ms, ws) ==
  \A i \in DOMAIN rows : ws[rows[i].id] = 1 =>
    \/ rows[i].status = ms[rows[i].id].status
    \/ \A j \in DOMAIN old : old[j].id = rows[i].id => old[j].status # ms[rows[i].id].status

LEMMA MoreRows ==
  ASSUME NEW m \in Nat, NEW n \in Nat, m <= n
  PROVE  Seq(MatchRow(m)) \subseteq Seq(MatchRow(n)) /\ Seq(ReviewCall(m)) \subseteq Seq(ReviewCall(n))
<1>1. MatchRow(m) \subseteq MatchRow(n) /\ ReviewCall(m) \subseteq ReviewCall(n)
  BY DEF MatchRow, ReviewCall
<1>2. QED
  BY <1>1, SeqMonotonic

\* The answer of the server is a row for each match, with its status.
LEMMA ListedRows ==
  ASSUME matches \in Seq(MatchRecord)
  PROVE  /\ Listed \in Seq(MatchRow(Len(matches)))
         /\ \A i \in DOMAIN Listed :
              Listed[i].id \in 1..Len(matches) /\ Listed[i].status = matches[Listed[i].id].status
         /\ \A n \in 1..Len(matches) : \E i \in DOMAIN Listed : Listed[i].id = n
<1>1. /\ Len(matches) \in Nat /\ DOMAIN matches = 1..Len(matches)
      /\ \A n \in 1..Len(matches) : matches[n] \in MatchRecord
  BY LenProperties, ElementOfSeq
<1>2. PICK m \in Nat : m = Len(matches)
  BY <1>1
<1>3. PICK f : f = [n \in DOMAIN matches |-> [id |-> n, name |-> matches[n].name, status |-> matches[n].status]]
  OBVIOUS
<1>4. f \in [1..m -> MatchRow(m)]
  BY <1>1, <1>2, <1>3 DEF MatchRecord, MatchRow
<1>5. f \in Seq(MatchRow(m))
  BY <1>4, SeqDef
<1>6. Len(f) = m
  BY <1>4, <1>5, LenProperties
<1>7. Listed = [i \in 1..m |-> f[(m - i) + 1]]
  BY <1>3, <1>6 DEF Listed, Reverse
<1>8. ASSUME NEW i \in 1..m
      PROVE  /\ (m - i) + 1 \in 1..m /\ Listed[i] \in MatchRow(m) /\ Listed[i].id = (m - i) + 1
             /\ Listed[i].status = matches[(m - i) + 1].status
  <2>1. (m - i) + 1 \in 1..m
    OBVIOUS
  <2>2. Listed[i] = f[(m - i) + 1]
    BY <1>7
  <2>3. /\ f[(m - i) + 1].id = (m - i) + 1
        /\ f[(m - i) + 1].status = matches[(m - i) + 1].status
    BY <1>1, <1>2, <1>3, <2>1
  <2>4. QED
    BY <1>4, <2>1, <2>2, <2>3
<1>9. Listed \in [1..m -> MatchRow(m)]
  <2>1. \A i \in 1..m : f[(m - i) + 1] \in MatchRow(m)
    BY <1>7, <1>8
  <2>2. QED
    BY <1>7, <2>1
<1>10. Listed \in Seq(MatchRow(m)) /\ DOMAIN Listed = 1..m
  BY <1>9, SeqDef
<1>11. ASSUME NEW n \in 1..m PROVE \E i \in DOMAIN Listed : Listed[i].id = n
  <2>1. (m - n) + 1 \in 1..m /\ (m - ((m - n) + 1)) + 1 = n
    OBVIOUS
  <2>2. Listed[(m - n) + 1].id = n
    BY <1>8, <2>1
  <2>3. QED
    BY <1>10, <2>1, <2>2
<1>12. \A i \in DOMAIN Listed :
         Listed[i].id \in 1..m /\ Listed[i].status = matches[Listed[i].id].status
  BY <1>8, <1>10
<1>13. QED
  BY <1>2, <1>10, <1>11, <1>12

\* A call is sent: those sent before report no more.
LEMMA SentCalls ==
  ASSUME NEW S, NEW calls \in Seq(S), NEW call \in S,
         \A c \in S : [c EXCEPT !.reports = FALSE] \in S
  PROVE  Sent(calls, call) \in Seq(S)
<1>1. /\ Len(calls) \in Nat /\ DOMAIN calls = 1..Len(calls)
      /\ \A i \in 1..Len(calls) : calls[i] \in S
  BY LenProperties, ElementOfSeq
<1>2. PICK quiet : quiet = [i \in DOMAIN calls |-> [calls[i] EXCEPT !.reports = FALSE]]
  OBVIOUS
<1>3. quiet \in [1..Len(calls) -> S]
  BY <1>1, <1>2
<1>4. quiet \in Seq(S)
  BY <1>1, <1>3, SeqDef
<1>5. Append(quiet, call) \in Seq(S)
  BY <1>4, AppendProperties
<1>6. QED
  BY <1>2, <1>5 DEF Sent

\* What a match that is written leaves: n is set to s on the server, and marked in rows or not.
MarkedRows(rows, n, s) ==
  [i \in DOMAIN rows |-> IF rows[i].id = n THEN [rows[i] EXCEPT !.status = s] ELSE rows[i]]

LEMMA MarkedAreRows ==
  ASSUME NEW m \in Nat, NEW rows \in Seq(MatchRow(m)), NEW n, NEW s \in MatchStatuses
  PROVE  /\ MarkedRows(rows, n, s) \in Seq(MatchRow(m)) /\ DOMAIN MarkedRows(rows, n, s) = DOMAIN rows
         /\ \A i \in DOMAIN rows :
              /\ MarkedRows(rows, n, s)[i].id = rows[i].id
              /\ MarkedRows(rows, n, s)[i].status = IF rows[i].id = n THEN s ELSE rows[i].status
         /\ rows = << >> => MarkedRows(rows, n, s) = << >>
<1>1. /\ Len(rows) \in Nat /\ DOMAIN rows = 1..Len(rows)
      /\ \A i \in 1..Len(rows) : rows[i] \in MatchRow(m)
  BY LenProperties, ElementOfSeq
<1>2. PICK marked : marked = MarkedRows(rows, n, s)
  OBVIOUS
<1>3. DOMAIN marked = DOMAIN rows
  BY <1>2 DEF MarkedRows
<1>4. ASSUME NEW i \in DOMAIN rows
      PROVE  /\ marked[i] \in MatchRow(m) /\ marked[i].id = rows[i].id
             /\ marked[i].status = IF rows[i].id = n THEN s ELSE rows[i].status
  <2>1. marked[i] = IF rows[i].id = n THEN [rows[i] EXCEPT !.status = s] ELSE rows[i]
    BY <1>2 DEF MarkedRows
  <2>2. rows[i] \in MatchRow(m)
    BY <1>1
  <2>3. QED
    BY <2>1, <2>2 DEF MatchRow
<1>5. marked \in Seq(MatchRow(m))
  <2>1. marked = [i \in DOMAIN rows |-> marked[i]]
    BY <1>2, <1>3 DEF MarkedRows
  <2>2. marked \in [1..Len(rows) -> MatchRow(m)]
    BY <1>1, <1>3, <1>4, <2>1
  <2>3. QED
    BY <1>1, <2>2, SeqDef
<1>6. rows = << >> => marked = << >>
  BY <1>3, <1>5, EmptySeq, LenProperties
<1>7. QED
  BY <1>2, <1>3, <1>4, <1>5, <1>6

WithMatch(ms, n, s) == [ms EXCEPT ![n].status = s]
WithWrite(ws, n) == [ws EXCEPT ![n] = IF @ = 2 THEN 2 ELSE @ + 1]

\* The panel and the last answer after a write.
WriteNoticed(rows, marked, old, ms, ws) ==
  /\ RowsAgree(old, ms, ws)
  /\ RowsAgree(rows, ms, ws) /\ RowsNoticed(rows, old, ms, ws)
  /\ RowsAgree(marked, ms, ws) /\ RowsNoticed(marked, old, ms, ws)

LEMMA WriteIsNoticed ==
  ASSUME NEW ms \in Seq(MatchRecord), NEW ws \in Seq(0..2), Len(ws) = Len(ms),
         NEW n \in DOMAIN ms, NEW s \in MatchStatuses,
         NEW old \in Seq(MatchRow(Len(ms))), NEW rows \in Seq(MatchRow(Len(ms))),
         RowsAgree(old, ms, ws), RowsAgree(rows, ms, ws), RowsNoticed(rows, old, ms, ws)
  PROVE  /\ WithMatch(ms, n, s) \in Seq(MatchRecord) /\ Len(WithMatch(ms, n, s)) = Len(ms)
         /\ WithWrite(ws, n) \in Seq(0..2) /\ Len(WithWrite(ws, n)) = Len(ms)
         /\ WriteNoticed(rows, MarkedRows(rows, n, s), old, WithMatch(ms, n, s), WithWrite(ws, n))
<1>1. PICK ms2, ws2 : ms2 = WithMatch(ms, n, s) /\ ws2 = WithWrite(ws, n)
  OBVIOUS
<1>2. /\ Len(ms) \in Nat /\ DOMAIN ms = 1..Len(ms) /\ n \in 1..Len(ms)
      /\ DOMAIN ws = 1..Len(ms)
  BY LenProperties
<1>3. ms[n] \in MatchRecord /\ ws[n] \in 0..2
  BY <1>2, ElementOfSeq
<1>4. PICK rec : rec = [ms[n] EXCEPT !.status = s]
  OBVIOUS
<1>5. rec \in MatchRecord /\ rec.status = s
  BY <1>3, <1>4 DEF MatchRecord
<1>6. PICK w : w = IF ws[n] = 2 THEN 2 ELSE ws[n] + 1
  OBVIOUS
<1>7. w \in 1..2 /\ w \in 0..2 /\ (w = 1 => ws[n] = 0)
  BY <1>3, <1>6
<1>8. ms2 = [ms EXCEPT ![n] = rec] /\ ws2 = [ws EXCEPT ![n] = w]
  BY <1>1, <1>4, <1>6 DEF WithMatch, WithWrite
<1>9. /\ ms2 \in Seq(MatchRecord) /\ Len(ms2) = Len(ms)
      /\ \A i \in 1..Len(ms) : ms2[i] = IF i = n THEN rec ELSE ms[i]
  BY <1>2, <1>5, <1>8, ExceptSeq
<1>10. /\ ws2 \in Seq(0..2) /\ Len(ws2) = Len(ms)
      /\ \A i \in 1..Len(ms) : ws2[i] = IF i = n THEN w ELSE ws[i]
  BY <1>2, <1>7, <1>8, ExceptSeq
<1>11. ASSUME NEW r \in Seq(MatchRow(Len(ms))), NEW i \in DOMAIN r PROVE r[i].id \in 1..Len(ms)
  <2>1. r[i] \in MatchRow(Len(ms))
    BY LenProperties, ElementOfSeq
  <2>2. QED
    BY <2>1 DEF MatchRow
<1>12. RowsAgree(old, ms2, ws2) /\ RowsAgree(rows, ms2, ws2)
  <2>1. ASSUME NEW r \in Seq(MatchRow(Len(ms))), RowsAgree(r, ms, ws) PROVE RowsAgree(r, ms2, ws2)
    <3> SUFFICES ASSUME NEW i \in DOMAIN r, ws2[r[i].id] = 0 PROVE r[i].status = ms2[r[i].id].status
      BY DEF RowsAgree
    <3>1. r[i].id \in 1..Len(ms)
      BY <1>11
    <3>2. r[i].id # n
      BY <1>7, <1>10, <3>1
    <3>3. ws[r[i].id] = 0 /\ ms2[r[i].id] = ms[r[i].id]
      BY <1>9, <1>10, <3>1, <3>2
    <3>4. QED
      BY <2>1, <3>3 DEF RowsAgree
  <2>2. QED
    BY <2>1
<1>13. RowsNoticed(rows, old, ms2, ws2)
  <2> SUFFICES ASSUME NEW i \in DOMAIN rows, ws2[rows[i].id] = 1,
                      rows[i].status # ms2[rows[i].id].status,
                      NEW j \in DOMAIN old, old[j].id = rows[i].id
               PROVE  old[j].status # ms2[rows[i].id].status
    BY DEF RowsNoticed
  <2>1. rows[i].id \in 1..Len(ms)
    BY <1>11
  <2>2. CASE rows[i].id = n
    <3>1. ws[n] = 0 /\ ms2[n].status = s
      BY <1>5, <1>7, <1>9, <1>10, <2>1, <2>2
    <3>2. rows[i].status = ms[n].status /\ old[j].status = ms[n].status
      BY <2>2, <3>1 DEF RowsAgree
    <3>3. QED
      BY <2>2, <3>1, <3>2
  <2>3. CASE rows[i].id # n
    <3>1. ws[rows[i].id] = 1 /\ ms2[rows[i].id] = ms[rows[i].id]
      BY <1>9, <1>10, <2>1, <2>3
    <3>2. QED
      BY <3>1 DEF RowsNoticed
  <2>4. QED
    BY <2>2, <2>3
<1>14. PICK marked : marked = MarkedRows(rows, n, s)
  OBVIOUS
<1>15. /\ DOMAIN marked = DOMAIN rows
       /\ \A i \in DOMAIN rows :
            /\ marked[i].id = rows[i].id
            /\ marked[i].status = IF rows[i].id = n THEN s ELSE rows[i].status
  BY <1>2, <1>14, MarkedAreRows
<1>16. ASSUME NEW i \in DOMAIN marked
       PROVE  \/ marked[i].status = ms2[marked[i].id].status
              \/ /\ marked[i].id = rows[i].id /\ marked[i].status = rows[i].status
                 /\ i \in DOMAIN rows
  <2>1. rows[i].id \in 1..Len(ms)
    BY <1>11, <1>15
  <2>2. rows[i].id = n => ms2[rows[i].id].status = s
    BY <1>5, <1>9, <2>1
  <2>3. QED
    BY <1>15, <2>2
<1>17. RowsAgree(marked, ms2, ws2)
  BY <1>12, <1>16 DEF RowsAgree
<1>18. RowsNoticed(marked, old, ms2, ws2)
  BY <1>13, <1>16 DEF RowsNoticed
<1>19. WriteNoticed(rows, marked, old, ms2, ws2)
  BY <1>12, <1>13, <1>17, <1>18 DEF WriteNoticed
<1>20. QED
  BY <1>1, <1>9, <1>10, <1>14, <1>19

SanctionsBasics ==
  /\ matches \in Seq(MatchRecord)
  /\ writes \in Seq(0..2) /\ Len(writes) = Len(matches)
  /\ IsQuery(matchQuery) /\ QueryOK(matchQuery)
  /\ DOMAIN panel = {"screened", "active"} /\ panel.screened \in BOOLEAN
  /\ screenings \in Seq(ScreeningCall)
  /\ reviews \in Seq(ReviewCall(Len(matches)))

OneStatus(rows) ==
  \A i, j \in DOMAIN rows : rows[i].id = rows[j].id => rows[i].status = rows[j].status

\* The rows of the last answer and the panel's are about matches there are, and a write that
\* makes one of them untrue shows in the next answer.
PanelOK(rows, p, ms, ws) ==
  /\ rows \in Seq(MatchRow(Len(ms))) /\ p.active \in Seq(MatchRow(Len(ms)))
  /\ RowsAgree(rows, ms, ws) /\ OneStatus(rows)
  /\ RowsAgree(p.active, ms, ws) /\ RowsNoticed(p.active, rows, ms, ws)
  /\ ~p.screened => p.active = << >>

MatchesSeen ==
  Settled(matchQuery) => Persisted = Listed /\ \A n \in DOMAIN writes : writes[n] # 1

SanctionsInv == SanctionsBasics /\ PanelOK(Persisted, panel, matches, writes) /\ MatchesSeen

\* Both ways the panel takes rows over: with an answer, and with the first screening.
LEMMA PanelTakesRows ==
  ASSUME NEW ms \in Seq(MatchRecord), NEW ws, NEW rows \in Seq(MatchRow(Len(ms))),
         RowsAgree(rows, ms, ws), OneStatus(rows), NEW p, p.screened, p.active = rows
  PROVE  PanelOK(rows, p, ms, ws)
<1>1. RowsNoticed(rows, rows, ms, ws)
  BY DEF RowsNoticed, OneStatus
<1>2. QED
  BY <1>1 DEF PanelOK

LEMMA AnswerKeepsPanel ==
  ASSUME SanctionsInv, MatchesAnswered
  PROVE  SanctionsInv'
<1>1. /\ matches \in Seq(MatchRecord) /\ writes \in Seq(0..2) /\ Len(writes) = Len(matches)
      /\ DOMAIN panel = {"screened", "active"} /\ panel.screened \in BOOLEAN
      /\ PanelOK(Persisted, panel, matches, writes)
  BY DEF SanctionsInv, SanctionsBasics
<1>2. PICK rows : rows = Listed
  OBVIOUS
<1>3. /\ rows \in Seq(MatchRow(Len(matches)))
      /\ \A i \in DOMAIN rows : rows[i].id \in 1..Len(matches) /\ rows[i].status = matches[rows[i].id].status
      /\ \A n \in 1..Len(matches) : \E i \in DOMAIN rows : rows[i].id = n
  BY <1>1, <1>2, ListedRows
<1>4. matchQuery' = AnsweredWith(rows) /\ panel' = Effect(panel, rows)
      /\ writes' = [n \in DOMAIN writes |->
                      IF writes[n] = 1 \/ panel'.active = rows THEN 0 ELSE writes[n]]
      /\ UNCHANGED <<matches, screenings, reviews, hit>>
  BY <1>2 DEF MatchesAnswered
<1>5. IsQuery(matchQuery') /\ QueryOK(matchQuery') /\ matchQuery'.rows = rows
  BY <1>4, QueryBegins, QueryBeginsOK
<1>6. Len(matches) \in Nat /\ DOMAIN writes = 1..Len(matches) /\ \A n \in DOMAIN writes : writes[n] \in 0..2
  BY <1>1, LenProperties, ElementOfSeq
<1>7. /\ DOMAIN writes' = DOMAIN writes
      /\ \A n \in DOMAIN writes : writes'[n] \in {0, writes[n]} /\ writes'[n] # 1
  BY <1>4, <1>6
<1>8. writes' \in Seq(0..2) /\ Len(writes') = Len(matches)
  <2>1. writes' \in [1..Len(matches) -> 0..2]
    BY <1>4, <1>6
  <2>2. writes' \in Seq(0..2)
    BY <1>6, <2>1, SeqDef
  <2>3. QED
    BY <1>6, <2>1, <2>2, LenProperties
<1>9. DOMAIN panel' = {"screened", "active"} /\ panel'.screened = panel.screened
      /\ panel'.active = IF panel.screened /\ rows # Persisted THEN rows ELSE panel.active
  BY <1>1, <1>4 DEF Effect
<1>10. RowsAgree(rows, matches, writes') /\ OneStatus(rows)
  BY <1>3 DEF RowsAgree, OneStatus
<1>11. PanelOK(rows, panel', matches, writes')
  <2>1. CASE panel.screened /\ rows # Persisted
    BY <1>1, <1>3, <1>9, <1>10, <2>1, PanelTakesRows
  <2>2. CASE ~panel.screened
    <3>1. panel'.active = << >> /\ << >> \in Seq(MatchRow(Len(matches))) /\ DOMAIN << >> = {}
      BY <1>1, <1>9, <2>2, EmptySeq DEF PanelOK
    <3>2. QED
      BY <1>3, <1>10, <3>1 DEF PanelOK, RowsAgree, RowsNoticed
  <2>3. CASE panel.screened /\ rows = Persisted
    <3>1. panel'.active = panel.active /\ panel.active \in Seq(MatchRow(Len(matches)))
      BY <1>1, <1>9, <2>3 DEF PanelOK
    <3>2. ASSUME NEW i \in DOMAIN panel.active, writes'[panel.active[i].id] = 0,
                 writes[panel.active[i].id] # 2
          PROVE  panel.active[i].status = matches[panel.active[i].id].status
      <4>1. panel.active[i].id \in 1..Len(matches)
        <5>1. panel.active[i] \in MatchRow(Len(matches))
          BY <3>1, LenProperties, ElementOfSeq
        <5>2. QED
          BY <5>1 DEF MatchRow
      <4>2. writes[panel.active[i].id] \in {0, 1}
        BY <1>6, <3>2, <4>1
      <4>3. PICK j \in DOMAIN rows : rows[j].id = panel.active[i].id
        BY <1>3, <4>1
      <4>4. rows[j].status = matches[panel.active[i].id].status
        BY <1>3, <4>3
      <4>5. QED
        BY <1>1, <2>3, <4>2, <4>3, <4>4 DEF PanelOK, RowsAgree, RowsNoticed
    <3>3. RowsAgree(panel.active, matches, writes')
      <4> SUFFICES ASSUME NEW i \in DOMAIN panel.active, writes'[panel.active[i].id] = 0
                   PROVE  panel.active[i].status = matches[panel.active[i].id].status
        BY DEF RowsAgree
      <4>1. CASE writes[panel.active[i].id] # 2
        BY <3>2, <4>1
      <4>2. CASE writes[panel.active[i].id] = 2
        <5>1. panel.active[i].id \in DOMAIN writes
          <6>1. panel.active[i] \in MatchRow(Len(matches))
            BY <3>1, LenProperties, ElementOfSeq
          <6>2. QED
            BY <1>6, <6>1 DEF MatchRow
        <5>2. panel'.active = rows
          BY <1>4, <4>2, <5>1
        <5>3. QED
          BY <1>3, <3>1, <5>2
      <4>3. QED
        BY <4>1, <4>2
    <3>4. RowsNoticed(panel.active, rows, matches, writes')
      <4>1. ASSUME NEW i \in DOMAIN panel.active PROVE writes'[panel.active[i].id] # 1
        <5>1. panel.active[i] \in MatchRow(Len(matches))
          BY <3>1, LenProperties, ElementOfSeq
        <5>2. panel.active[i].id \in DOMAIN writes
          BY <1>6, <5>1 DEF MatchRow
        <5>3. QED
          BY <1>7, <5>2
      <4>2. QED
        BY <4>1 DEF RowsNoticed
    <3>5. QED
      BY <1>3, <1>9, <1>10, <2>3, <3>1, <3>3, <3>4 DEF PanelOK
  <2>4. QED
    BY <1>1, <2>1, <2>2, <2>3
<1>12. SanctionsBasics'
  BY <1>1, <1>4, <1>5, <1>8, <1>9 DEF SanctionsInv, SanctionsBasics
<1>13. PanelOK(Persisted, panel, matches, writes)'
  BY <1>4, <1>5, <1>11 DEF Persisted
<1>14. MatchesSeen'
  <2>1. Listed' = rows
    BY <1>2, <1>4 DEF Listed
  <2>2. QED
    BY <1>5, <1>7, <2>1 DEF MatchesSeen, Persisted
<1>15. QED
  BY <1>12, <1>13, <1>14 DEF SanctionsInv

\* A query that is asked anew, overtaken or failed: rows as before, and not settled.
LEMMA MatchQueryMoves ==
  ASSUME IsQuery(matchQuery), QueryOK(matchQuery),
         NEW q \in {FetchFailed(matchQuery), Refetched(matchQuery), Overtaken(matchQuery)}
  PROVE  IsQuery(q) /\ QueryOK(q) /\ ~Settled(q) /\ q.rows = Persisted
BY QueryMoves, QueryStaysOK, QueryKeepsRows DEF Persisted

\* A match is written, here or elsewhere, and marked in the panel or not.
LEMMA WriteKeepsPanel ==
  ASSUME SanctionsInv, NEW n \in DOMAIN matches, NEW s \in MatchStatuses,
         matches' = [matches EXCEPT ![n].status = s], writes' = Written(n),
         matchQuery' \in {Refetched(matchQuery), Overtaken(matchQuery)},
         \/ panel' = panel
         \/ panel' = [panel EXCEPT !.active = MarkedRows(panel.active, n, s)],
         screenings' = screenings, reviews' \in Seq(ReviewCall(Len(matches)))
  PROVE  SanctionsInv'
<1>1. /\ matches \in Seq(MatchRecord) /\ writes \in Seq(0..2) /\ Len(writes) = Len(matches)
      /\ IsQuery(matchQuery) /\ QueryOK(matchQuery)
      /\ DOMAIN panel = {"screened", "active"} /\ panel.screened \in BOOLEAN
      /\ screenings \in Seq(ScreeningCall)
  BY DEF SanctionsInv, SanctionsBasics
<1>2. /\ Persisted \in Seq(MatchRow(Len(matches))) /\ panel.active \in Seq(MatchRow(Len(matches)))
      /\ RowsAgree(Persisted, matches, writes) /\ OneStatus(Persisted)
      /\ RowsAgree(panel.active, matches, writes)
      /\ RowsNoticed(panel.active, Persisted, matches, writes)
      /\ ~panel.screened => panel.active = << >>
  BY DEF SanctionsInv, PanelOK
<1>3. writes' = [writes EXCEPT ![n] = IF @ = 2 THEN 2 ELSE @ + 1]
  BY DEF Written
<1>4. PICK rows, old, ms2, ws2 :
        rows = panel.active /\ old = Persisted /\ ms2 = matches' /\ ws2 = writes'
  OBVIOUS
<1>5. /\ rows \in Seq(MatchRow(Len(matches))) /\ old \in Seq(MatchRow(Len(matches)))
      /\ RowsAgree(old, matches, writes)
      /\ RowsAgree(rows, matches, writes) /\ RowsNoticed(rows, old, matches, writes)
  BY <1>2, <1>4
<1>6. ms2 = WithMatch(matches, n, s) /\ ws2 = WithWrite(writes, n)
  BY <1>3, <1>4 DEF WithMatch, WithWrite
<1>7. /\ ms2 \in Seq(MatchRecord) /\ Len(ms2) = Len(matches)
      /\ ws2 \in Seq(0..2) /\ Len(ws2) = Len(matches)
      /\ WriteNoticed(rows, MarkedRows(rows, n, s), old, ms2, ws2)
  BY <1>1, <1>5, <1>6, WriteIsNoticed
<1>8. PICK marked : marked = MarkedRows(rows, n, s)
  OBVIOUS
<1>9. Len(matches) \in Nat
  BY <1>1, LenProperties
<1>10. marked \in Seq(MatchRow(Len(matches))) /\ (rows = << >> => marked = << >>)
  BY <1>5, <1>8, <1>9, MarkedAreRows
<1>11. /\ DOMAIN panel' = {"screened", "active"} /\ panel'.screened = panel.screened
       /\ panel'.active \in {rows, marked}
  BY <1>1, <1>4, <1>8
<1>12. PanelOK(old, panel', ms2, ws2)
  <2>1. RowsAgree(panel'.active, ms2, ws2) /\ RowsNoticed(panel'.active, old, ms2, ws2)
    BY <1>7, <1>8, <1>11 DEF WriteNoticed
  <2>2. panel'.active \in Seq(MatchRow(Len(ms2))) /\ old \in Seq(MatchRow(Len(ms2)))
    BY <1>5, <1>7, <1>10, <1>11
  <2>3. ~panel'.screened => panel'.active = << >>
    BY <1>2, <1>4, <1>10, <1>11
  <2>4. QED
    BY <1>2, <1>4, <1>7, <2>1, <2>2, <2>3 DEF PanelOK, WriteNoticed
<1>13. PICK q : q = matchQuery'
  OBVIOUS
<1>14. IsQuery(q) /\ QueryOK(q) /\ ~Settled(q) /\ q.rows = Persisted
  BY <1>1, <1>13, MatchQueryMoves
<1>15. SanctionsBasics'
  <2>1. matches' \in Seq(MatchRecord) /\ Len(matches') = Len(matches)
        /\ writes' \in Seq(0..2) /\ Len(writes') = Len(matches')
    BY <1>4, <1>7
  <2>2. IsQuery(matchQuery') /\ QueryOK(matchQuery')
    BY <1>13, <1>14
  <2>3. DOMAIN panel' = {"screened", "active"} /\ panel'.screened \in BOOLEAN
    BY <1>1, <1>11
  <2>4. screenings' \in Seq(ScreeningCall) /\ reviews' \in Seq(ReviewCall(Len(matches')))
    BY <1>1, <2>1
  <2>5. QED
    BY <2>1, <2>2, <2>3, <2>4 DEF SanctionsBasics
<1>16. PanelOK(Persisted, panel, matches, writes)'
  <2>1. Persisted' = old
    BY <1>4, <1>13, <1>14 DEF Persisted
  <2>2. QED
    BY <1>4, <1>12, <2>1
<1>17. MatchesSeen'
  BY <1>13, <1>14 DEF MatchesSeen
<1>18. QED
  BY <1>15, <1>16, <1>17 DEF SanctionsInv

\* Calls begin and end, and nothing else happens.
LEMMA CallsKeepPanel ==
  ASSUME SanctionsInv, UNCHANGED <<matches, panel, writes>>,
         \/ matchQuery' = matchQuery
         \/ matchQuery' = FetchFailed(matchQuery),
         screenings' \in Seq(ScreeningCall), reviews' \in Seq(ReviewCall(Len(matches)))
  PROVE  SanctionsInv'
<1>1. IsQuery(matchQuery) /\ QueryOK(matchQuery)
  BY DEF SanctionsInv, SanctionsBasics
<1>2. /\ IsQuery(matchQuery') /\ QueryOK(matchQuery') /\ matchQuery'.rows = Persisted
      /\ Settled(matchQuery') => Settled(matchQuery)
  BY <1>1, MatchQueryMoves DEF Persisted
<1>3. SanctionsBasics'
  BY <1>2 DEF SanctionsInv, SanctionsBasics
<1>4. Persisted' = Persisted /\ Listed' = Listed
  BY <1>2 DEF Persisted, Listed
<1>5. PanelOK(Persisted, panel, matches, writes)'
  BY <1>4 DEF SanctionsInv
<1>6. MatchesSeen'
  BY <1>2, <1>4 DEF SanctionsInv, MatchesSeen
<1>7. QED
  BY <1>3, <1>5, <1>6 DEF SanctionsInv

\* Matches join those there are, none of them written yet.
Joined(ms, ws, ms2, ws2) ==
  /\ ms2 \in Seq(MatchRecord) /\ ws2 \in Seq(0..2) /\ Len(ws2) = Len(ms2) /\ Len(ms) <= Len(ms2)
  /\ \A n \in 1..Len(ms) : ms2[n] = ms[n] /\ ws2[n] = ws[n]
  /\ \A n \in 1..Len(ms2) : n > Len(ms) => ws2[n] = 0 /\ ms2[n].status = "Pending"

LEMMA JoinKeepsRows ==
  ASSUME NEW ms \in Seq(MatchRecord), NEW ws, NEW ms2, NEW ws2, Joined(ms, ws, ms2, ws2),
         NEW old \in Seq(MatchRow(Len(ms))), NEW rows \in Seq(MatchRow(Len(ms))),
         RowsAgree(rows, ms, ws)
  PROVE  /\ rows \in Seq(MatchRow(Len(ms2))) /\ RowsAgree(rows, ms2, ws2)
         /\ RowsNoticed(rows, old, ms, ws) => RowsNoticed(rows, old, ms2, ws2)
<1>1. ms2 \in Seq(MatchRecord) /\ Len(ms) \in Nat /\ Len(ms2) \in Nat /\ Len(ms) <= Len(ms2)
  BY LenProperties DEF Joined
<1>2. rows \in Seq(MatchRow(Len(ms2)))
  <2>1. PICK m \in Nat, n \in Nat : m = Len(ms) /\ n = Len(ms2)
    BY <1>1
  <2>2. Seq(MatchRow(m)) \subseteq Seq(MatchRow(n))
    BY <1>1, <2>1, MoreRows
  <2>3. QED
    BY <2>1, <2>2
<1>3. ASSUME NEW i \in DOMAIN rows
      PROVE  ms2[rows[i].id] = ms[rows[i].id] /\ ws2[rows[i].id] = ws[rows[i].id]
  <2>1. rows[i] \in MatchRow(Len(ms))
    BY LenProperties, ElementOfSeq
  <2>2. rows[i].id \in 1..Len(ms)
    BY <2>1 DEF MatchRow
  <2>3. QED
    BY <2>2 DEF Joined
<1>4. RowsAgree(rows, ms2, ws2)
  BY <1>3 DEF RowsAgree
<1>5. RowsNoticed(rows, old, ms, ws) => RowsNoticed(rows, old, ms2, ws2)
  BY <1>3 DEF RowsNoticed
<1>6. QED
  BY <1>2, <1>4, <1>5

LEMMA FoundAgree ==
  ASSUME NEW ms \in Seq(MatchRecord), NEW ws, NEW ms2, NEW ws2, Joined(ms, ws, ms2, ws2),
         NEW old, NEW found \in Seq(MatchRow(Len(ms2))),
         \A i \in DOMAIN found : found[i].id > Len(ms) /\ found[i].status = "Pending"
  PROVE  RowsAgree(found, ms2, ws2) /\ RowsNoticed(found, old, ms2, ws2)
<1>1. ASSUME NEW i \in DOMAIN found
      PROVE  ws2[found[i].id] = 0 /\ ms2[found[i].id].status = found[i].status
  <2>1. found[i] \in MatchRow(Len(ms2))
    BY LenProperties, ElementOfSeq
  <2>2. found[i].id \in 1..Len(ms2)
    BY <2>1 DEF MatchRow
  <2>3. QED
    BY <2>2 DEF Joined
<1>2. QED
  BY <1>1 DEF RowsAgree, RowsNoticed

\* A screening whose answer is stored, and reported to the panel or not.
LEMMA JoinKeepsPanel ==
  ASSUME SanctionsInv, Joined(matches, writes, matches', writes'),
         matchQuery' = Refetched(matchQuery),
         NEW found \in Seq(MatchRow(Len(matches'))),
         \A i \in DOMAIN found : found[i].id > Len(matches) /\ found[i].status = "Pending",
         \/ panel' = panel
         \/ panel' = Effect([screened |-> TRUE, active |-> found], Persisted),
         screenings' \in Seq(ScreeningCall), reviews' = reviews
  PROVE  SanctionsInv'
<1>1. /\ matches \in Seq(MatchRecord) /\ writes \in Seq(0..2) /\ Len(writes) = Len(matches)
      /\ IsQuery(matchQuery) /\ QueryOK(matchQuery)
      /\ DOMAIN panel = {"screened", "active"} /\ panel.screened \in BOOLEAN
      /\ reviews \in Seq(ReviewCall(Len(matches)))
  BY DEF SanctionsInv, SanctionsBasics
<1>2. /\ Persisted \in Seq(MatchRow(Len(matches))) /\ panel.active \in Seq(MatchRow(Len(matches)))
      /\ RowsAgree(Persisted, matches, writes) /\ OneStatus(Persisted)
      /\ RowsAgree(panel.active, matches, writes)
      /\ RowsNoticed(panel.active, Persisted, matches, writes)
      /\ ~panel.screened => panel.active = << >>
  BY DEF SanctionsInv, PanelOK
<1>3. PICK rows, old, ms2, ws2 :
        rows = panel.active /\ old = Persisted /\ ms2 = matches' /\ ws2 = writes'
  OBVIOUS
<1>4. Joined(matches, writes, ms2, ws2)
  BY <1>3
<1>5. /\ old \in Seq(MatchRow(Len(matches))) /\ RowsAgree(old, matches, writes) /\ OneStatus(old)
      /\ rows \in Seq(MatchRow(Len(matches))) /\ RowsAgree(rows, matches, writes)
      /\ RowsNoticed(rows, old, matches, writes)
  BY <1>2, <1>3
<1>6. old \in Seq(MatchRow(Len(ms2))) /\ RowsAgree(old, ms2, ws2)
  BY <1>1, <1>4, <1>5, JoinKeepsRows
<1>7. rows \in Seq(MatchRow(Len(ms2))) /\ RowsAgree(rows, ms2, ws2) /\ RowsNoticed(rows, old, ms2, ws2)
  BY <1>1, <1>4, <1>5, JoinKeepsRows
<1>8. found \in Seq(MatchRow(Len(ms2))) /\ RowsAgree(found, ms2, ws2) /\ RowsNoticed(found, old, ms2, ws2)
  <2>1. found \in Seq(MatchRow(Len(ms2)))
    BY <1>3
  <2>2. QED
    BY <1>1, <1>4, <2>1, FoundAgree
<1>9. DOMAIN panel' = {"screened", "active"} /\ panel'.screened \in BOOLEAN
      /\ PanelOK(old, panel', ms2, ws2)
  <2>1. CASE panel' = panel
    BY <1>1, <1>2, <1>3, <1>5, <1>6, <1>7, <2>1 DEF PanelOK
  <2>2. CASE panel' = Effect([screened |-> TRUE, active |-> found], Persisted)
    <3>1. PICK p : p = panel'
      OBVIOUS
    <3>2. DOMAIN p = {"screened", "active"} /\ p.screened = TRUE
          /\ p.active = IF panel.screened THEN found ELSE old
      BY <1>1, <1>3, <2>2, <3>1 DEF Effect
    <3>3. CASE panel.screened
      <4>1. p.active = found /\ p.screened
        BY <3>2, <3>3
      <4>2. PanelOK(old, p, ms2, ws2)
        BY <1>5, <1>6, <1>8, <4>1 DEF PanelOK
      <4>3. QED
        BY <3>1, <3>2, <4>2
    <3>4. CASE ~panel.screened
      <4>1. ms2 \in Seq(MatchRecord)
        BY <1>4 DEF Joined
      <4>2. p.active = old /\ p.screened
        BY <3>2, <3>4
      <4>3. PanelOK(old, p, ms2, ws2)
        BY <1>5, <1>6, <4>1, <4>2, PanelTakesRows
      <4>4. QED
        BY <3>1, <3>2, <4>3
    <3>5. QED
      BY <1>1, <3>1, <3>2, <3>3, <3>4
  <2>3. QED
    BY <2>1, <2>2
<1>10. PICK q : q = matchQuery'
  OBVIOUS
<1>11. IsQuery(q) /\ QueryOK(q) /\ ~Settled(q) /\ q.rows = Persisted
  BY <1>1, <1>10, MatchQueryMoves
<1>12. SanctionsBasics'
  <2>1. matches' \in Seq(MatchRecord) /\ writes' \in Seq(0..2) /\ Len(writes') = Len(matches')
    BY DEF Joined
  <2>2. reviews' \in Seq(ReviewCall(Len(matches')))
    <3>1. Len(matches) \in Nat /\ Len(matches') \in Nat /\ Len(matches) <= Len(matches')
      BY <1>1, <2>1, LenProperties DEF Joined
    <3>2. PICK m \in Nat, n \in Nat : m = Len(matches) /\ n = Len(matches')
      BY <3>1
    <3>3. Seq(ReviewCall(m)) \subseteq Seq(ReviewCall(n))
      BY <3>1, <3>2, MoreRows
    <3>4. QED
      BY <1>1, <3>2, <3>3
  <2>3. IsQuery(matchQuery') /\ QueryOK(matchQuery')
    BY <1>10, <1>11
  <2>4. QED
    BY <1>9, <2>1, <2>2, <2>3 DEF SanctionsBasics
<1>13. PanelOK(Persisted, panel, matches, writes)'
  <2>1. Persisted' = old
    BY <1>3, <1>10, <1>11 DEF Persisted
  <2>2. QED
    BY <1>3, <1>9, <2>1
<1>14. MatchesSeen'
  BY <1>10, <1>11 DEF MatchesSeen
<1>15. QED
  BY <1>12, <1>13, <1>14 DEF SanctionsInv

\* A match joins, as a screening of a listed name stores one; of another, nothing.
LEMMA OneJoins ==
  ASSUME NEW ms \in Seq(MatchRecord), NEW ws \in Seq(0..2), Len(ws) = Len(ms),
         NEW rec \in MatchRecord, rec.status = "Pending",
         NEW one, one = <<rec>>, NEW none, none = << 0 >>
  PROVE  Joined(ms, ws, ms \o one, ws \o none) /\ Len(ms \o one) = Len(ms) + 1
<1>1. PICK m \in Nat : m = Len(ms) /\ m = Len(ws)
  BY LenProperties
<1>2. one \in Seq(MatchRecord) /\ Len(one) = 1 /\ one[1] = rec
  OBVIOUS
<1>3. none \in Seq(0..2) /\ Len(none) = 1 /\ none[1] = 0
  OBVIOUS
<1>4. PICK ms2, ws2 : ms2 = ms \o one /\ ws2 = ws \o none
  OBVIOUS
<1>5. /\ ms2 \in Seq(MatchRecord) /\ Len(ms2) = m + 1
      /\ \A i \in 1..(m + 1) : ms2[i] = IF i <= m THEN ms[i] ELSE one[i - m]
  BY <1>1, <1>2, <1>4, ConcatProperties
<1>6. /\ ws2 \in Seq(0..2) /\ Len(ws2) = m + 1
      /\ \A i \in 1..(m + 1) : ws2[i] = IF i <= m THEN ws[i] ELSE none[i - m]
  BY <1>1, <1>3, <1>4, ConcatProperties
<1>7. ASSUME NEW n \in 1..m PROVE ms2[n] = ms[n] /\ ws2[n] = ws[n]
  <2>1. n \in 1..(m + 1) /\ n <= m
    OBVIOUS
  <2>2. QED
    BY <1>5, <1>6, <2>1
<1>8. ASSUME NEW n \in 1..(m + 1), n > m PROVE ws2[n] = 0 /\ ms2[n].status = "Pending"
  <2>1. n - m = 1 /\ ~(n <= m)
    BY <1>8
  <2>2. ms2[n] = one[1] /\ ws2[n] = none[1]
    BY <1>5, <1>6, <2>1
  <2>3. QED
    BY <1>2, <1>3, <2>2
<1>9. Joined(ms, ws, ms2, ws2)
  <2>1. m <= m + 1
    OBVIOUS
  <2>2. QED
    BY <1>1, <1>5, <1>6, <1>7, <1>8, <2>1 DEF Joined
<1>10. QED
  BY <1>1, <1>4, <1>5, <1>9

LEMMA NoneJoins ==
  ASSUME NEW ms \in Seq(MatchRecord), NEW ws \in Seq(0..2), Len(ws) = Len(ms)
  PROVE  Joined(ms, ws, ms, ws)
<1>1. Len(ms) \in Nat
  BY LenProperties
<1>2. \A n \in 1..Len(ms) : ~(n > Len(ms))
  BY <1>1
<1>3. QED
  BY <1>1, <1>2 DEF Joined

LEMMA NextKeepsSanctions ==
  ASSUME SanctionsInv, [SanctionsNext]_sanctionsVars
  PROVE SanctionsInv'
<1>1. /\ matches \in Seq(MatchRecord) /\ writes \in Seq(0..2) /\ Len(writes) = Len(matches)
      /\ screenings \in Seq(ScreeningCall) /\ reviews \in Seq(ReviewCall(Len(matches)))
      /\ Len(matches) \in Nat /\ DOMAIN matches = 1..Len(matches)
      /\ DOMAIN panel = {"screened", "active"} /\ panel.screened \in BOOLEAN
      /\ panel.active \in Seq(MatchRow(Len(matches))) /\ Persisted \in Seq(MatchRow(Len(matches)))
  BY LenProperties DEF SanctionsInv, SanctionsBasics, PanelOK
<1>2. CASE MatchesAnswered
  BY <1>2, AnswerKeepsPanel
<1>3. CASE MatchesFetchFailed
  BY <1>1, <1>3, CallsKeepPanel DEF MatchesFetchFailed
<1>4. CASE ReviewedElsewhere
  <2>1. PICK n \in DOMAIN matches, s \in MatchStatuses :
          matches' = [matches EXCEPT ![n].status = s] /\ writes' = Written(n)
    BY <1>4 DEF ReviewedElsewhere
  <2>2. matchQuery' = Overtaken(matchQuery) /\ UNCHANGED <<panel, screenings, reviews>>
    BY <1>4 DEF ReviewedElsewhere
  <2>3. QED
    BY <1>1, <2>1, <2>2, WriteKeepsPanel
<1>5. CASE Screen
  <2>1. PICK name \in ListedNames \union OtherNames :
          screenings' = Sent(screenings, [name |-> name, reports |-> TRUE])
    BY <1>5 DEF Screen
  <2>2. PICK call : call = [name |-> name, reports |-> TRUE]
    OBVIOUS
  <2>3. call \in ScreeningCall /\ \A c \in ScreeningCall : [c EXCEPT !.reports = FALSE] \in ScreeningCall
    BY <2>2 DEF ScreeningCall
  <2>4. Sent(screenings, call) \in Seq(ScreeningCall)
    BY <1>1, <2>3, SentCalls
  <2>5. UNCHANGED <<matches, matchQuery, panel, reviews, hit, writes>>
    BY <1>5 DEF Screen
  <2>6. QED
    BY <1>1, <2>1, <2>2, <2>4, <2>5, CallsKeepPanel
<1>6. CASE Review
  <2>1. PICK n \in DOMAIN Displayed :
          \E s \in Reviews[Displayed[n].status] :
            reviews' = Sent(reviews, [id |-> Displayed[n].id, status |-> s, reports |-> TRUE])
    BY <1>6 DEF Review
  <2>2. PICK row : row = Displayed[n]
    OBVIOUS
  <2>3. row \in MatchRow(Len(matches))
    <3>1. Displayed \in Seq(MatchRow(Len(matches)))
      BY <1>1 DEF Displayed
    <3>2. QED
      BY <2>2, <3>1, LenProperties, ElementOfSeq
  <2>4. PICK s \in Reviews[row.status] :
          reviews' = Sent(reviews, [id |-> row.id, status |-> s, reports |-> TRUE])
    BY <2>1, <2>2
  <2>5. row.id \in 1..Len(matches) /\ row.status \in MatchStatuses
    BY <2>3 DEF MatchRow
  <2>6. s \in MatchStatuses
    BY <2>5 DEF Reviews, MatchStatuses
  <2>7. PICK call : call = [id |-> row.id, status |-> s, reports |-> TRUE]
    OBVIOUS
  <2>8. /\ call \in ReviewCall(Len(matches))
        /\ \A c \in ReviewCall(Len(matches)) : [c EXCEPT !.reports = FALSE] \in ReviewCall(Len(matches))
    BY <2>5, <2>6, <2>7 DEF ReviewCall
  <2>9. Sent(reviews, call) \in Seq(ReviewCall(Len(matches)))
    BY <1>1, <2>8, SentCalls
  <2>10. UNCHANGED <<matches, matchQuery, panel, screenings, hit, writes>>
    BY <1>6 DEF Review
  <2>11. QED
    BY <1>1, <2>4, <2>7, <2>9, <2>10, CallsKeepPanel
<1>7. CASE ReviewSettled
  <2>1. PICK n \in DOMAIN reviews :
          /\ reviews' = RemoveAt(reviews, n)
          /\ \/ /\ matches' = [matches EXCEPT ![reviews[n].id].status = reviews[n].status]
                /\ writes' = Written(reviews[n].id)
                /\ matchQuery' = Refetched(matchQuery)
                /\ panel' = IF reviews[n].reports
                            THEN [panel EXCEPT !.active = MarkedRows(panel.active, reviews[n].id, reviews[n].status)]
                            ELSE panel
             \/ UNCHANGED <<matches, matchQuery, panel, writes>>
    BY <1>7 DEF ReviewSettled, MarkedRows
  <2>2. UNCHANGED <<screenings, hit>>
    BY <1>7 DEF ReviewSettled
  <2>3. reviews' \in Seq(ReviewCall(Len(matches)))
    BY <1>1, <2>1, RemovedAt
  <2>4. PICK r : r = reviews[n]
    OBVIOUS
  <2>5. r \in ReviewCall(Len(matches))
    BY <1>1, <2>4, LenProperties, ElementOfSeq
  <2>6. r.id \in DOMAIN matches /\ r.status \in MatchStatuses
    BY <1>1, <2>5 DEF ReviewCall
  <2>7. CASE UNCHANGED <<matches, matchQuery, panel, writes>>
    BY <1>1, <2>2, <2>3, <2>7, CallsKeepPanel
  <2>8. CASE /\ matches' = [matches EXCEPT ![r.id].status = r.status]
             /\ writes' = Written(r.id) /\ matchQuery' = Refetched(matchQuery)
             /\ panel' = IF r.reports THEN [panel EXCEPT !.active = MarkedRows(panel.active, r.id, r.status)]
                         ELSE panel
    <3>1. PICK k \in DOMAIN matches, s \in MatchStatuses : k = r.id /\ s = r.status
      BY <2>6
    <3>2. matches' = [matches EXCEPT ![k].status = s] /\ writes' = Written(k)
      BY <2>8, <3>1
    <3>3. panel' = panel \/ panel' = [panel EXCEPT !.active = MarkedRows(panel.active, k, s)]
      BY <2>8, <3>1
    <3>4. QED
      BY <2>2, <2>3, <2>8, <3>2, <3>3, WriteKeepsPanel
  <2>9. QED
    BY <2>1, <2>4, <2>7, <2>8
<1>8. CASE ScreeningSettled
  <2> DEFINE Found(name) == IF name \in ListedNames
                            THEN <<[id |-> Len(matches) + 1, name |-> name, status |-> "Pending"]>>
                            ELSE << >>
  <2>1. PICK n \in DOMAIN screenings :
          /\ screenings' = RemoveAt(screenings, n)
          /\ \/ /\ matches' = matches \o [i \in DOMAIN Found(screenings[n].name) |->
                                            [name |-> screenings[n].name, status |-> "Pending"]]
                /\ writes' = writes \o [i \in DOMAIN Found(screenings[n].name) |-> 0]
                /\ matchQuery' = Refetched(matchQuery)
                /\ \/ panel' = panel
                   \/ panel' = Effect([screened |-> TRUE, active |-> Found(screenings[n].name)], Persisted)
             \/ UNCHANGED <<matches, matchQuery, panel, writes>>
    BY <1>8 DEF ScreeningSettled
  <2>2. reviews' = reviews
    BY <1>8 DEF ScreeningSettled
  <2>3. screenings' \in Seq(ScreeningCall)
    BY <1>1, <2>1, RemovedAt
  <2>4. PICK name : name = screenings[n].name
    OBVIOUS
  <2>5. PICK found : found = Found(name)
    OBVIOUS
  <2>6. CASE UNCHANGED <<matches, matchQuery, panel, writes>>
    BY <1>1, <2>2, <2>3, <2>6, CallsKeepPanel
  <2>7. CASE /\ matches' = matches \o [i \in DOMAIN found |-> [name |-> name, status |-> "Pending"]]
             /\ writes' = writes \o [i \in DOMAIN found |-> 0]
             /\ matchQuery' = Refetched(matchQuery)
             /\ \/ panel' = panel
                \/ panel' = Effect([screened |-> TRUE, active |-> found], Persisted)
    <3>1. /\ Joined(matches, writes, matches', writes')
          /\ found \in Seq(MatchRow(Len(matches')))
          /\ \A i \in DOMAIN found : found[i].id > Len(matches) /\ found[i].status = "Pending"
      <4>1. CASE name \in ListedNames
        <5>1. PICK row : row = [id |-> Len(matches) + 1, name |-> name, status |-> "Pending"]
          OBVIOUS
        <5>2. row \in MatchRow(Len(matches) + 1) /\ row.id = Len(matches) + 1 /\ row.status = "Pending"
          BY <1>1, <4>1, <5>1 DEF MatchRow, MatchStatuses
        <5>3. found = <<row>>
          BY <2>5, <4>1, <5>1
        <5>4. PICK rec : rec = [name |-> name, status |-> "Pending"]
          OBVIOUS
        <5>5. rec \in MatchRecord /\ rec.status = "Pending"
          BY <4>1, <5>4 DEF MatchRecord, MatchStatuses
        <5>6. PICK one, none : one = <<rec>> /\ none = << 0 >>
          OBVIOUS
        <5>7. [i \in DOMAIN found |-> rec] = one /\ [i \in DOMAIN found |-> 0] = none
          BY <5>3, <5>6
        <5>8. matches' = matches \o one /\ writes' = writes \o none
          BY <2>7, <5>4, <5>7
        <5>9. Joined(matches, writes, matches', writes') /\ Len(matches') = Len(matches) + 1
          BY <1>1, <5>5, <5>6, <5>8, OneJoins
        <5>10. <<row>> \in Seq(MatchRow(Len(matches) + 1))
          BY <5>2
        <5>11. \A i \in DOMAIN found : found[i] = row
          BY <5>3
        <5>12. Len(matches) + 1 > Len(matches)
          BY <1>1
        <5>13. QED
          BY <5>2, <5>3, <5>9, <5>10, <5>11, <5>12
      <4>2. CASE name \notin ListedNames
        <5>1. found = << >> /\ DOMAIN found = {}
          BY <2>5, <4>2
        <5>2. PICK empty : empty = << >>
          OBVIOUS
        <5>3. [i \in DOMAIN found |-> [name |-> name, status |-> "Pending"]] = empty
              /\ [i \in DOMAIN found |-> 0] = empty
          BY <5>1, <5>2
        <5>4. matches' = matches \o empty /\ writes' = writes \o empty
          BY <2>7, <5>3
        <5>5. matches' = matches /\ writes' = writes
          BY <1>1, <5>2, <5>4, ConcatEmptySeq
        <5>6. Joined(matches, writes, matches', writes')
          BY <1>1, <5>5, NoneJoins
        <5>7. QED
          BY <5>1, <5>6, EmptySeq
      <4>3. QED
        BY <4>1, <4>2
    <3>2. QED
      BY <2>2, <2>3, <2>7, <3>1, JoinKeepsPanel
  <2>8. QED
    BY <2>1, <2>4, <2>5, <2>6, <2>7
<1>9. CASE UNCHANGED sanctionsVars
  BY <1>1, <1>9, CallsKeepPanel DEF sanctionsVars
<1>10. QED
  BY <1>2, <1>3, <1>4, <1>5, <1>6, <1>7, <1>8, <1>9 DEF SanctionsNext

\* Whatever the panel shows has the status the server has once the answers are in, unless a match
\* was written twice in between: for any number of matches, screenings and reviews under way.
LEMMA StatusesShown == SanctionsSpec => []SanctionsTypeOK /\ []StatusesTrue
<1>1. SanctionsInit => SanctionsInv
  <2> SUFFICES ASSUME SanctionsInit PROVE SanctionsInv
    OBVIOUS
  <2>1. PICK empty : empty = << >>
    OBVIOUS
  <2>2. /\ matches = empty /\ matchQuery = NewQuery(empty) /\ panel = NoScreening
        /\ screenings = empty /\ reviews = empty /\ writes = empty
    BY <2>1 DEF SanctionsInit
  <2>3. /\ IsQuery(matchQuery) /\ QueryOK(matchQuery) /\ ~Settled(matchQuery)
        /\ matchQuery.rows = empty
    BY <2>2, QueryBegins, QueryBeginsOK
  <2>4. Len(empty) = 0 /\ DOMAIN empty = {} /\ empty \in Seq(MatchRecord) /\ empty \in Seq(0..2)
        /\ empty \in Seq(ScreeningCall) /\ empty \in Seq(ReviewCall(0)) /\ empty \in Seq(MatchRow(0))
    BY <2>1, EmptySeq
  <2>5. DOMAIN panel = {"screened", "active"} /\ panel.screened = FALSE /\ panel.active = empty
    BY <2>1, <2>2 DEF NoScreening
  <2>6. SanctionsBasics
    BY <2>2, <2>3, <2>4, <2>5 DEF SanctionsBasics
  <2>7. PanelOK(Persisted, panel, matches, writes)
    BY <2>1, <2>2, <2>3, <2>4, <2>5 DEF PanelOK, Persisted, RowsAgree, RowsNoticed, OneStatus
  <2>8. QED
    BY <2>3, <2>6, <2>7 DEF SanctionsInv, MatchesSeen
<1>2. SanctionsInv /\ [SanctionsNext]_sanctionsVars => SanctionsInv'
  BY NextKeepsSanctions
<1>3. SanctionsInv => SanctionsTypeOK /\ StatusesTrue
  <2> SUFFICES ASSUME SanctionsInv PROVE SanctionsTypeOK /\ StatusesTrue
    OBVIOUS
  <2>1. /\ SanctionsBasics /\ PanelOK(Persisted, panel, matches, writes) /\ MatchesSeen
        /\ matches \in Seq(MatchRecord) /\ Len(writes) = Len(matches) /\ writes \in Seq(0..2)
        /\ panel.screened \in BOOLEAN
    BY DEF SanctionsInv, SanctionsBasics
  <2>2. SanctionsTypeOK
    <3>1. \A n \in DOMAIN screenings : screenings[n].name \in ListedNames \union OtherNames
      <4>1. \A n \in DOMAIN screenings : screenings[n] \in ScreeningCall
        BY <2>1, LenProperties, ElementOfSeq DEF SanctionsBasics
      <4>2. QED
        BY <4>1 DEF ScreeningCall
    <3>2. \A n \in DOMAIN reviews : reviews[n].id \in DOMAIN matches
      <4>1. \A n \in DOMAIN reviews : reviews[n] \in ReviewCall(Len(matches))
        BY <2>1, LenProperties, ElementOfSeq DEF SanctionsBasics
      <4>2. DOMAIN matches = 1..Len(matches)
        BY <2>1, LenProperties
      <4>3. QED
        BY <4>1, <4>2 DEF ReviewCall
    <3>3. matches \in Seq([name : ListedNames, status : MatchStatuses])
      BY <2>1 DEF MatchRecord
    <3>4. QED
      BY <2>1, <3>1, <3>2, <3>3 DEF SanctionsTypeOK, SanctionsBasics
  <2>3. StatusesTrue
    <3> SUFFICES ASSUME Settled(matchQuery), \A n \in DOMAIN writes : writes[n] < 2
                 PROVE  /\ \A n \in DOMAIN Displayed : Displayed[n].status = matches[Displayed[n].id].status
                        /\ SummaryStats.pending =
                             Cardinality({n \in DOMAIN Displayed : matches[Displayed[n].id].status = "Pending"})
      BY DEF StatusesTrue
    <3>1. \A n \in DOMAIN writes : writes[n] = 0
      <4>1. \A n \in DOMAIN writes : writes[n] \in 0..2 /\ writes[n] # 1
        BY <2>1, LenProperties, ElementOfSeq DEF MatchesSeen
      <4>2. QED
        BY <4>1
    <3>2. Displayed \in Seq(MatchRow(Len(matches))) /\ RowsAgree(Displayed, matches, writes)
      BY <2>1 DEF Displayed, PanelOK
    <3>3. ASSUME NEW n \in DOMAIN Displayed
          PROVE  Displayed[n].status = matches[Displayed[n].id].status
      <4>1. Displayed[n] \in MatchRow(Len(matches))
        BY <3>2, LenProperties, ElementOfSeq
      <4>2. Displayed[n].id \in DOMAIN writes
        BY <2>1, <4>1, LenProperties DEF MatchRow
      <4>3. QED
        BY <3>1, <3>2, <4>2 DEF RowsAgree
    <3>4. {n \in DOMAIN Displayed : Displayed[n].status = "Pending"}
            = {n \in DOMAIN Displayed : matches[Displayed[n].id].status = "Pending"}
      BY <3>3
    <3>5. QED
      BY <3>3, <3>4 DEF SummaryStats, WithStatus
  <2>4. QED
    BY <2>2, <2>3
<1>4. QED
  BY <1>1, <1>2, <1>3, PTL DEF SanctionsSpec

-----------------------------------------------------------------------------
(* The composition                                                         *)

\* A step of one section leaves the variables of the others alone, so that what a tab does in
\* Oversight it could do on its own.
LEMMA OversightMonitoring == OversightSpec => MonitoringSpec
<1>1. OversightInit => MonitoringInit
  BY DEF OversightInit
<1>2. [OversightNext]_oversightVars => [MonitoringNext]_monitoringVars
  BY DEF OversightNext, oversightVars
<1>3. QED
  BY <1>1, <1>2, PTL DEF OversightSpec, MonitoringSpec

LEMMA OversightSettings == OversightSpec => SettingsSpec
<1>1. OversightInit => SettingsInit
  BY DEF OversightInit
<1>2. [OversightNext]_oversightVars => [SettingsNext]_settingsVars
  BY DEF OversightNext, oversightVars
<1>3. QED
  BY <1>1, <1>2, PTL DEF OversightSpec, SettingsSpec

LEMMA OversightDocuments == OversightSpec => DocumentsSpec
<1>1. OversightInit => DocumentsInit
  BY DEF OversightInit
<1>2. [OversightNext]_oversightVars => [DocumentsNext]_docVars
  BY DEF OversightNext, oversightVars
<1>3. QED
  BY <1>1, <1>2, PTL DEF OversightSpec, DocumentsSpec

LEMMA OversightSanctions == OversightSpec => SanctionsSpec
<1>1. OversightInit => SanctionsInit
  BY DEF OversightInit
<1>2. [OversightNext]_oversightVars => [SanctionsNext]_sanctionsVars
  BY DEF OversightNext, oversightVars
<1>3. QED
  BY <1>1, <1>2, PTL DEF OversightSpec, SanctionsSpec

LEMMA MonitoringTabs == MonitoringSpec => AlertsSpec /\ TxSpec /\ RulesSpec
<1>1. MonitoringInit => AlertsInit /\ TxInit /\ RulesInit
  BY DEF MonitoringInit
<1>2. [MonitoringNext]_monitoringVars =>
        [AlertsNext]_alertVars /\ [TxNext]_txVars /\ [RulesNext]_ruleVars
  BY DEF MonitoringNext, monitoringVars
<1>3. QED
  BY <1>1, <1>2, PTL DEF MonitoringSpec, AlertsSpec, TxSpec, RulesSpec

LEMMA SettingsTabs ==
  SettingsSpec => FormsSpec /\ IntegrationsSpec /\ UsersSpec /\ HealthSpec /\ LogSpec
<1>1. SettingsInit => FormsInit /\ IntegrationsInit /\ UsersInit /\ HealthInit /\ LogInit
  BY DEF SettingsInit
<1>2. [SettingsNext]_settingsVars =>
        /\ [FormsNext]_formVars /\ [IntegrationsNext]_providerVars /\ [UsersNext]_userVars
        /\ [HealthNext]_healthVars /\ [LogNext]_logVars
  BY DEF SettingsNext, settingsVars
<1>3. QED
  BY <1>1, <1>2, PTL
     DEF SettingsSpec, FormsSpec, IntegrationsSpec, UsersSpec, HealthSpec, LogSpec

\* Every section and tab keeps its types.
THEOREM OversightTypes == OversightSpec => []OversightTypeOK
<1>1. OversightSpec => []AlertsTypeOK /\ []TxTypeOK /\ []RulesTypeOK
  BY OversightMonitoring, MonitoringTabs, AlertsTold, TxTold, RulesShown, PTL
<1>2. OversightSpec => []FormsTypeOK /\ []IntegrationsTypeOK /\ []UsersTypeOK
  BY OversightSettings, SettingsTabs, FormsTypes, IntegrationsShown, UsersTyped, PTL
<1>3. OversightSpec => []HealthTypeOK /\ []LogTypeOK
  BY OversightSettings, SettingsTabs, HealthTypes, LogShown, PTL
<1>4. OversightSpec => []DocumentsTypeOK /\ []SanctionsTypeOK
  BY OversightDocuments, OversightSanctions, DocsShown, StatusesShown, PTL
<1>5. QED
  BY <1>1, <1>2, <1>3, <1>4, PTL DEF OversightTypeOK

\* What is on screen is the server's once its answers are in, unless somebody elsewhere has
\* written since: every update of every tab is heard of, however many rows, calls under way and
\* officers there are.
THEOREM OversightFreshTheorem == OversightSpec => []OversightFresh
<1>1. OversightSpec => []AlertsFresh /\ []RulesFresh
  BY OversightMonitoring, MonitoringTabs, AlertsFreshTheorem, RulesShown, PTL
<1>2. OversightSpec => []DocumentsFresh /\ []ProvidersFresh /\ []StatusesTrue
  BY OversightDocuments, OversightSettings, SettingsTabs, OversightSanctions, DocsShown,
     IntegrationsShown, StatusesShown, PTL
<1>3. QED
  BY <1>1, <1>2, PTL DEF OversightFresh

\* Nothing that was loaded is lost on its way to the screen: to a band of the histogram, a date,
\* a condition that is skipped, the ring of the change log or a cutoff of its list.
THEOREM NothingUntoldTheorem == OversightSpec => []NothingUntold
<1>1. OversightSpec => []AlertsAllCounted /\ []TxDateWindow /\ []RulesTold
  BY OversightMonitoring, MonitoringTabs, AlertsTold, TxTold, RulesShown, PTL
<1>2. OversightSpec => []NewestWithoutGap /\ []ListHoldsLastDay
  BY OversightSettings, SettingsTabs, LogShown, PTL
<1>3. QED
  BY <1>1, <1>2, PTL DEF NothingUntold

\* No list that has anything on it is left empty by its own buttons and filters, or said to be
\* empty when it is not, but in the cases the three sections state: for pages of any size.
THEOREM PagesExistTheorem ==
  ASSUME Alerts # {}, Transactions # {}
  PROVE  OversightSpec => []PagesExist
<1>1. OversightSpec => []AlertPageExists /\ []TxPageExists
  BY OversightMonitoring, MonitoringTabs, AlertPageTheorem, TxPaged, PTL
<1>2. OversightSpec => []NothingYetIsTrue /\ []StrandedByStatusOnly
  BY OversightDocuments, DocsShown, PTL
<1>3. QED
  BY <1>1, <1>2, PTL DEF PagesExist

\* Whichever section is on screen, a provider comes to what it was last clicked to.
THEOREM OversightWishes == OversightSpec => []LastWishHolds
BY OversightSettings, SettingsTabs, LastWishTheorem, PTL

\* Whichever section is on screen, a batch reports what became of what it was given.
THEOREM OversightBatches == OversightSpec => []BatchToldTrue
BY OversightMonitoring, MonitoringTabs, BatchToldTheorem, PTL

\* A tab of the settings says of its draft what is so, and saves nothing that was left alone.
THEOREM OversightDrafts == OversightSpec => []DraftsAreHonest /\ LeftAloneKept
BY OversightSettings, SettingsTabs, DraftsAreHonestTheorem, LeftAloneTheorem, PTL

\* What the health tab tells of up to nine services is so.
THEOREM OversightHealth ==
  ASSUME Cardinality(Services) <= 9
  PROVE  OversightSpec => []HealthAsTold
BY OversightSettings, SettingsTabs, HealthAsToldTheorem, PTL
=============================================================================
