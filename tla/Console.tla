------------------------------- MODULE Console ------------------------------
(***************************************************************************)
(* page.tsx and LiveAlertTicker.tsx: the frame of the console, which shows *)
(* the open alerts in three places, each from a query of its own.          *)
(*                                                                         *)
(*   the badge of the bell    the stats of the dashboard, asked again by   *)
(*                            refetchInterval 30 seconds after an answer   *)
(*   the list of the bell     the latest BellSize open alerts              *)
(*   the ticker               the latest TickerSize, on the dashboard only *)
(*                                                                         *)
(* What else a section shows is in the section's module.  A key or a click *)
(* may change the section at any time, also with a dialog of it open, and  *)
(* changes nothing else; the panels and the theme, which touch none of     *)
(* this, are left out.                                                     *)
(***************************************************************************)
EXTENDS Listing, Query

CONSTANTS
  OtherSections, \* sections other than the dashboard and the transaction monitor
  BellSize,      \* 5 in page.tsx
  TickerSize,    \* 8 in LiveAlertTicker.tsx
  MaxAlerts      \* bound on alerts raised

ASSUME ConsoleAssumption ==
  /\ {BellSize, TickerSize} \subseteq Nat \ {0} /\ MaxAlerts \in Nat
  /\ {"dashboard", "transactions"} \intersect OtherSections = {}

VARIABLES
  raised,  \* server: the alerts there are, 1 .. raised
  open,    \* server: the open ones
  section, \* activeSection
  badge,   \* the query of the stats, its rows the number of open alerts
  bell,    \* the query of the bell's list
  ticker,  \* the query of the ticker
  seeding  \* the seed request of this session: none, asked or over

consoleVars == <<raised, open, section, badge, bell, ticker, seeding>>

Sections == {"dashboard", "transactions"} \union OtherSections

(* The open alerts as /alerts lists them under a limit.                    *)
Latest(limit) ==
  LET all == Descending(open)
  IN  SubSeq(all, 1, IF limit < Len(all) THEN limit ELSE Len(all))

(* "No open alerts", and "+N more alerts not shown".                       *)
NoOpenAlerts == bell.rows = << >>
NotShown == IF badge.rows > BellSize THEN badge.rows - BellSize ELSE 0

(* "N active", of a ticker that shows anything at all.                     *)
TickerOnScreen == section = "dashboard" /\ ticker.rows # << >>
TickerCount == Len(ticker.rows)

(* Every query on screen is invalidated; the ticker's, off screen, is      *)
(* asked again when it is mounted.                                         *)
TickerInvalidated == IF section = "dashboard" THEN Refetched(ticker) ELSE Invalidated(ticker)
-----------------------------------------------------------------------------
(* setActiveSection, from the sidebar, a key, the ticker, a notification,  *)
(* the search or the profile of a client.  The dashboard mounts the ticker *)
(* and a second user of the stats.                                         *)
Navigate ==
  /\ \E s \in Sections \ {section} :
       /\ section' = s
       /\ IF s = "dashboard"
          THEN ticker' \in Mounted(ticker) /\ badge' \in Mounted(badge)
          ELSE UNCHANGED <<ticker, badge>>
  /\ UNCHANGED <<raised, open, bell, seeding>>

(* The answers, each with what the server has then.                        *)
BadgeAnswered ==
  /\ badge.asked
  /\ badge' = AnsweredWith(Cardinality(open))
  /\ UNCHANGED <<raised, open, section, bell, ticker, seeding>>

BellAnswered ==
  /\ bell.asked
  /\ bell' = AnsweredWith(Latest(BellSize))
  /\ UNCHANGED <<raised, open, section, badge, ticker, seeding>>

TickerAnswered ==
  /\ ticker.asked
  /\ ticker' = AnsweredWith(Latest(TickerSize))
  /\ UNCHANGED <<raised, open, section, badge, bell, seeding>>

BadgeFetchFailed ==
  /\ badge.asked
  /\ badge' = FetchFailed(badge)
  /\ UNCHANGED <<raised, open, section, bell, ticker, seeding>>

ListFetchFailed ==
  /\ \/ bell.asked /\ bell' = FetchFailed(bell) /\ UNCHANGED ticker
     \/ ticker.asked /\ ticker' = FetchFailed(ticker) /\ UNCHANGED bell
  /\ UNCHANGED <<raised, open, section, badge, seeding>>

\* Bug: nothing is asked again after a failure.
PollAfterSuccess ==
  /\ ~badge.asked /\ ~badge.behind
  /\ badge' = [badge EXCEPT !.asked = TRUE]
  /\ UNCHANGED <<raised, open, section, bell, ticker, seeding>>

(* refetchInterval of the stats, the only one of the three.                *)
Poll ==
  /\ ~badge.asked
  /\ badge' = [badge EXCEPT !.asked = TRUE]
  /\ UNCHANGED <<raised, open, section, bell, ticker, seeding>>

(* The server raises an alert, or an officer elsewhere works one off.      *)
AlertsMoveElsewhere ==
  /\ \/ /\ raised < MaxAlerts
        /\ raised' = raised + 1
        /\ open' = open \union {raised + 1}
     \/ /\ \E a \in open : open' = open \ {a}
        /\ UNCHANGED raised
  /\ badge' = Overtaken(badge)
  /\ bell' = Overtaken(bell)
  /\ ticker' = Overtaken(ticker)
  /\ UNCHANGED <<section, seeding>>

\* Bug: an update invalidates the alerts alone.
AlertUpdatedInLists ==
  /\ \E a \in open : open' = open \ {a}
  /\ bell' = Refetched(bell)
  /\ ticker' = TickerInvalidated
  /\ UNCHANGED <<raised, section, badge, seeding>>

(* useUpdateAlert of the transaction monitor: an alert leaves "open", and  *)
(* ['alerts'] and ['dashboard'] are invalidated.  The answer is taken for  *)
(* the click: the section may have been left in between.                   *)
AlertUpdated ==
  /\ \E a \in open : open' = open \ {a}
  /\ badge' = Refetched(badge)
  /\ bell' = Refetched(bell)
  /\ ticker' = TickerInvalidated
  /\ UNCHANGED <<raised, section, seeding>>

(* The seed request of the first load: once it is answered, or has failed, *)
(* the session is marked as seeded.  It may raise an alert.                *)
SeedSettled ==
  /\ seeding = "asked"
  /\ seeding' = "over"
  /\ \/ /\ \/ /\ raised < MaxAlerts
              /\ raised' = raised + 1
              /\ open' = open \union {raised + 1}
           \/ UNCHANGED <<raised, open>>
        /\ badge' = Refetched(badge)
        /\ bell' = Refetched(bell)
        /\ ticker' = TickerInvalidated
     \/ UNCHANGED <<raised, open, badge, bell, ticker>>
  /\ UNCHANGED section

(* The page is loaded again: a seed request without an answer is repeated. *)
Reload ==
  /\ section' = "dashboard"
  /\ badge' = NewQuery(0)
  /\ bell' = NewQuery(<< >>)
  /\ ticker' = NewQuery(<< >>)
  /\ UNCHANGED <<raised, open, seeding>>
-----------------------------------------------------------------------------
ConsoleInit ==
  /\ raised \in 0..MaxAlerts
  /\ open = 1..raised
  /\ section = "dashboard"
  /\ badge = NewQuery(0)
  /\ bell = NewQuery(<< >>)
  /\ ticker = NewQuery(<< >>)
  /\ seeding \in {"asked", "over"}

ConsoleNext ==
  \/ Navigate
  \/ BadgeAnswered
  \/ BellAnswered
  \/ TickerAnswered
  \/ BadgeFetchFailed
  \/ ListFetchFailed
  \/ Poll
  \/ AlertsMoveElsewhere
  \/ AlertUpdated
  \/ SeedSettled
  \/ Reload

(* The interval keeps asking while the page is in front, and a request     *)
(* that is made again and again is answered at last: the server is not     *)
(* down for good.  Nobody has to navigate, reload or work.                 *)
ConsoleSpec ==
  /\ ConsoleInit /\ [][ConsoleNext]_consoleVars
  /\ WF_consoleVars(Poll)
  /\ SF_consoleVars(BadgeAnswered)
  /\ SF_consoleVars(BellAnswered)
  /\ SF_consoleVars(TickerAnswered)
-----------------------------------------------------------------------------
(* Properties                                                              *)

ConsoleTypeOK ==
  /\ open \subseteq 1..raised /\ raised \in 0..MaxAlerts
  /\ section \in Sections
  /\ QueryOK(badge) /\ QueryOK(bell) /\ QueryOK(ticker)
  /\ badge.rows \in Nat /\ bell.rows \in Seq(1..raised) /\ ticker.rows \in Seq(1..raised)
  /\ seeding \in {"asked", "over"}

(* The badge, the bell's list and its "+N more" add up to the open alerts  *)
(* once their answers are in, and the ticker starts with what the list of  *)
(* the bell shows: an update or a seed reaches all three queries.          *)
NoticesAgree ==
  /\ (Settled(badge) /\ Settled(bell)) =>
       /\ badge.rows = Len(bell.rows) + NotShown
       /\ NoOpenAlerts <=> (badge.rows = 0)
  /\ (Settled(bell) /\ Settled(ticker) /\ TickerOnScreen) =>
       \A n \in DOMAIN bell.rows :
         n <= TickerCount => bell.rows[n] = ticker.rows[n]

(* However many requests fail, the badge comes to show the number of open  *)
(* alerts again, without the officer doing anything: refetchInterval.      *)
BadgeCatchesUp == []<>(badge.rows = Cardinality(open))
=============================================================================
