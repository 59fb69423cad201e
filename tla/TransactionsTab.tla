-------------------------- MODULE TransactionsTab --------------------------
(***************************************************************************)
(* The Transactions tab of TransactionMonitoringSection.tsx, the panels it *)
(* opens and the risk heatmap over the tabs, with useTransactions.         *)
(*                                                                         *)
(* The server pages the list and filters it by flag; dates are filtered in *)
(* the browser, within the page.  Nothing in the console invalidates the   *)
(* transactions: new ones show when a key is fetched anew.  Times are      *)
(* hours of the user's clock, days have HoursPerDay of them, and the       *)
(* midnight that new Date('2024-01-05') stands for comes UtcOffset hours   *)
(* into that day, as it does in Australia.                                 *)
(***************************************************************************)
EXTENDS Listing

CONSTANTS
  Transactions,  \* numbered in the order they arrive
  TxFlagged,     \* the flagged ones
  TxHour,        \* transactionDate of each, in hours of the user's clock
  TxScore,       \* riskScore of each, in percent
  TxClient,      \* the client of each
  TxPageSize,    \* limit of the query
  HoursPerDay,
  UtcOffset,     \* hours the user's clock is ahead of UTC
  Days           \* dates the user may choose, 0 for none

ASSUME TransactionsAssumption ==
  /\ Transactions \subseteq Nat \ {0}
  /\ IsFiniteSet(Transactions)
  /\ TxFlagged \subseteq Transactions
  /\ TxHour \in [Transactions -> Nat]
  /\ TxScore \in [Transactions -> 0..100]
  /\ TxPageSize \in Nat \ {0}
  /\ HoursPerDay \in Nat \ {0}
  /\ UtcOffset \in 0 .. HoursPerDay - 1
  /\ 0 \in Days /\ Days \subseteq Nat

VARIABLES
  txArrived,  \* server: the transactions there are
  txView,     \* page, flaggedOnly, dateFrom, dateTo, data of the page, total, fetch
  txPicked,   \* selectedTxIds
  txPanel     \* the transaction looked at, and where: none, detail or investigation

txVars == <<txArrived, txView, txPicked, txPanel>>

TxListed(flagged) == Ascending({t \in txArrived : flagged => t \in TxFlagged})
TxPage(page, flagged) ==
  LET rows == PageOf(TxListed(flagged), page, TxPageSize)
  IN  {rows[i] : i \in DOMAIN rows}

(* useTransactions: the page of the key and pagination.total, at once if   *)
(* the cache has them.                                                     *)
TxShow(page, flagged) ==
  \E rows \in {{}, TxPage(page, flagged)} :
    txView' = [txView EXCEPT !.page = page, !.flagged = flagged, !.data = rows,
                 !.total = IF rows = {} THEN 0 ELSE Len(TxListed(flagged)), !.fetch = "asked"]

(* The instants the two dates stand for: the first is midnight UTC, the    *)
(* second has its hours set to the end of the day on the user's clock.     *)
FromInstant(day) == day * HoursPerDay + UtcOffset
\* Bug: the last day ends where it begins.
ToInstantOfMidnight(day) == day * HoursPerDay + UtcOffset

ToInstant(day) ==
  ((day * HoursPerDay + UtcOffset) \div HoursPerDay) * HoursPerDay + HoursPerDay - 1
InDates(t) ==
  /\ txView.dateFrom # 0 => TxHour[t] >= FromInstant(txView.dateFrom)
  /\ txView.dateTo # 0 => TxHour[t] <= ToInstant(txView.dateTo)

(* The rows of the table.                                                  *)
TxShown == {t \in txView.data : InDates(t)}

(* The tiles over the table.                                               *)
TxTiles ==
  [total   |-> IF txView.data = {} THEN 0 ELSE txView.total,
   flagged |-> Cardinality(TxShown \intersect TxFlagged),
   risk    |-> Total([i \in 1..Len(Ascending(TxShown)) |-> TxScore[Ascending(TxShown)[i]]])
                 \div (IF TxShown = {} THEN 1 ELSE Cardinality(TxShown))]

(* The risk heatmap; its last range includes 100 percent.                  *)
TxBands ==
  << [min |-> 0,  max |-> 20], [min |-> 20, max |-> 40], [min |-> 40, max |-> 60],
     [min |-> 60, max |-> 80], [min |-> 80, max |-> 101] >>
Heatmap == Histogram(txArrived, TxScore, TxBands)

(* The other transactions of the same client among those loaded: similar   *)
(* ones in the investigation, the first five as linked ones in the panel.  *)
Similar(t) == {u \in txView.data : TxClient[u] = TxClient[t] /\ u # t}
Linked(t) == {u \in Similar(t) : Cardinality({v \in Similar(t) : v < u}) < 5}

(* The events the detail panel makes up for a transaction.                 *)
Timeline(t) ==
  <<"created">> \o (IF t \in TxFlagged THEN <<"flagged">> ELSE << >>)
    \o (IF TxScore[t] > 50 THEN <<"alert">> ELSE << >>) \o <<"pending">>
-----------------------------------------------------------------------------
TxArrives ==
  /\ \E t \in Transactions \ txArrived :
       (\A u \in Transactions : u < t => u \in txArrived) /\ txArrived' = txArrived \union {t}
  /\ UNCHANGED <<txView, txPicked, txPanel>>

TxAnswered ==
  /\ txView.fetch = "asked"
  /\ txView' = [txView EXCEPT !.data = TxPage(txView.page, txView.flagged), !.fetch = "done",
                              !.total = Len(TxListed(txView.flagged))]
  /\ UNCHANGED <<txArrived, txPicked, txPanel>>

TxFetchFailed ==
  /\ txView.fetch = "asked"
  /\ txView' = [txView EXCEPT !.fetch = "done"]
  /\ UNCHANGED <<txArrived, txPicked, txPanel>>

(* The flag filter is set, with the page where it was.                     *)
FilterTx ==
  /\ \E flagged \in BOOLEAN : TxShow(txView.page, flagged)
  /\ UNCHANGED <<txArrived, txPicked, txPanel>>

(* The date fields, and the button that clears both.                       *)
DateTx ==
  /\ \/ \E d \in Days : txView' = [txView EXCEPT !.dateFrom = d]
     \/ \E d \in Days : txView' = [txView EXCEPT !.dateTo = d]
     \/ txView' = [txView EXCEPT !.dateFrom = 0, !.dateTo = 0]
  /\ UNCHANGED <<txArrived, txPicked, txPanel>>

TurnTxPage ==
  /\ \/ txView.page > 1 /\ TxShow(txView.page - 1, txView.flagged)
     \/ txView.page < Pages(txView.total, TxPageSize) /\ TxShow(txView.page + 1, txView.flagged)
  /\ UNCHANGED <<txArrived, txPicked, txPanel>>

(* Another tab or section is chosen, and this one again.                   *)
LeaveTx ==
  /\ \E rows \in {{}, TxPage(1, FALSE)} :
       txView' = [page |-> 1, flagged |-> FALSE, dateFrom |-> 0, dateTo |-> 0, data |-> rows,
                  total |-> IF rows = {} THEN 0 ELSE Len(TxListed(FALSE)), fetch |-> "asked"]
  /\ txPicked' = {}
  /\ txPanel' = [tx |-> 0, where |-> "none"]
  /\ UNCHANGED txArrived

(* The boxes of the table.                                                 *)
PickTx ==
  /\ \/ \E t \in TxShown : txPicked' = Toggled(txPicked, t)
     \/ txPicked' = ToggledAll(txPicked, TxShown)
  /\ UNCHANGED <<txArrived, txView, txPanel>>

(* The bulk bar: Flag Selected and Export Selected report success and      *)
(* clear the selection as Dismiss does; nothing is sent.                   *)
BulkTx ==
  /\ txPicked # {}
  /\ txPicked' = {}
  /\ UNCHANGED <<txArrived, txView, txPanel>>

(* A row opens the detail panel, its View button the investigation.        *)
OpenTx ==
  /\ txPanel.where = "none"
  /\ \E t \in TxShown, where \in {"detail", "investigation"} : txPanel' = [tx |-> t, where |-> where]
  /\ UNCHANGED <<txArrived, txView, txPicked>>

(* The buttons of both: mark, dismiss, create an alert, related ones.      *)
(* Each reports success, sends nothing, and closes.                        *)
CloseTx ==
  /\ txPanel.where # "none"
  /\ txPanel' = [tx |-> 0, where |-> "none"]
  /\ UNCHANGED <<txArrived, txView, txPicked>>
-----------------------------------------------------------------------------
TxInit ==
  /\ txArrived = {t \in Transactions : \A u \in Transactions : t <= u}
  /\ txView = [page |-> 1, flagged |-> FALSE, dateFrom |-> 0, dateTo |-> 0, data |-> {},
               total |-> 0, fetch |-> "asked"]
  /\ txPicked = {}
  /\ txPanel = [tx |-> 0, where |-> "none"]

TxNext ==
  \/ TxArrives
  \/ TxAnswered
  \/ TxFetchFailed
  \/ FilterTx
  \/ DateTx
  \/ TurnTxPage
  \/ LeaveTx
  \/ PickTx
  \/ BulkTx
  \/ OpenTx
  \/ CloseTx

TxSpec == TxInit /\ [][TxNext]_txVars
-----------------------------------------------------------------------------
(* Properties                                                              *)

TxTypeOK ==
  /\ txArrived \subseteq Transactions
  /\ txView.data \subseteq txArrived
  /\ txView.dateFrom \in Days /\ txView.dateTo \in Days
  /\ txPicked \subseteq Transactions
  /\ txPanel.where \in {"none", "detail", "investigation"}

(* The dates keep the table within the chosen days, and what is loaded of  *)
(* those days is in the table, to the last hour of the last day; only the  *)
(* first UtcOffset hours of the first day are lost to the time zone.       *)
TxDateWindow ==
  LET DayOf(t) == TxHour[t] \div HoursPerDay
      Early(t) == /\ txView.dateFrom # 0 /\ DayOf(t) = txView.dateFrom
                  /\ TxHour[t] % HoursPerDay < UtcOffset
      Inside(t) == /\ txView.dateFrom # 0 => DayOf(t) >= txView.dateFrom
                   /\ txView.dateTo # 0 => DayOf(t) <= txView.dateTo
  IN  TxShown = {t \in txView.data : Inside(t) /\ ~Early(t)}

(* Turning pages never leads past the end of the list unless the filter    *)
(* is changed on a later page.                                             *)
TxPageExists ==
  ~txView.flagged => txView.page <= Pages(Cardinality(txArrived), TxPageSize)
=============================================================================
