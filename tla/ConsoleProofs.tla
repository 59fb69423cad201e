---------------------------- MODULE ConsoleProofs ----------------------------
(***************************************************************************)
(* Proofs about Console, for any number of alerts and lists of any size.   *)
(***************************************************************************)
EXTENDS Console, ListingProofs

\* A query that is settled shows what the server has.
ShownIsOpen ==
  /\ Settled(badge) => badge.rows = Cardinality(open)
  /\ Settled(bell) => bell.rows = Latest(BellSize)
  /\ Settled(ticker) => ticker.rows = Latest(TickerSize)

ConsoleInv ==
  /\ ConsoleTypeOK
  /\ IsQuery(badge) /\ IsQuery(bell) /\ IsQuery(ticker)
  /\ ShownIsOpen

\* What the server has, and what it answers.
LEMMA OpenIsFinite ==
  ASSUME NEW n \in Nat, NEW S \in SUBSET (1..n)
  PROVE  IsFiniteSet(S) /\ Cardinality(S) \in Nat /\ S \in SUBSET Int
<1>1. IsFiniteSet(1..n)
  BY FS_Interval
<1>2. IsFiniteSet(S)
  BY <1>1, FS_Subset
<1>3. \A x \in S : x \in Int
  OBVIOUS
<1>4. QED
  BY <1>2, <1>3, FS_CardinalityType

LEMMA LatestLists ==
  ASSUME raised \in Nat, open \subseteq 1..raised, NEW limit \in Nat \ {0}
  PROVE  /\ Latest(limit) \in Seq(1..raised)
         /\ Len(Latest(limit)) = IF limit < Cardinality(open) THEN limit ELSE Cardinality(open)
         /\ \A n \in 1..Len(Latest(limit)) : Latest(limit)[n] = Descending(open)[n]
<1> DEFINE all == Descending(open)
           last == IF limit < Len(all) THEN limit ELSE Len(all)
<1>1. /\ IsFiniteSet(open) /\ Cardinality(open) \in Nat /\ open \in SUBSET Int
  BY OpenIsFinite
<1>2. all \in Seq(open) /\ Len(all) = Cardinality(open)
  BY <1>1, DescendingLists
<1>3. last \in Nat /\ last <= Len(all)
  BY <1>1, <1>2
<1>4. \A i \in 1..last : all[i] \in 1..raised
  <2> HIDE DEF all, last
  <2>1. \A i \in 1..last : i \in 1..Len(all)
    BY <1>1, <1>2, <1>3
  <2>2. \A i \in 1..Len(all) : all[i] \in open
    BY <1>2, ElementOfSeq
  <2>3. QED
    BY <2>1, <2>2
<1>5. Latest(limit) = SubSeq(all, 1, last)
  BY DEF Latest
<1>6. /\ SubSeq(all, 1, last) \in Seq(1..raised)
      /\ Len(SubSeq(all, 1, last)) = IF 1 <= last THEN last - 1 + 1 ELSE 0
      /\ \A i \in 1..(last - 1 + 1) : SubSeq(all, 1, last)[i] = all[1 + i - 1]
  <2> HIDE DEF all, last
  <2>1. QED
    BY <1>3, <1>4, SubSeqProperties
<1>7. Len(SubSeq(all, 1, last)) = last
  <2> HIDE DEF all, last
  <2>1. QED
    BY <1>3, <1>6
<1>8. \A i \in 1..last : SubSeq(all, 1, last)[i] = all[i]
  <2> HIDE DEF all, last
  <2>1. QED
    BY <1>3, <1>6
<1>9. QED
  BY <1>2, <1>5, <1>6, <1>7, <1>8

-----------------------------------------------------------------------------
(* What moves a query                                                      *)

\* The server is as it was, and every query is as it was, asks, or is marked.
LEMMA AskingKeeps ==
  ASSUME ConsoleInv,
         raised' \in raised..MaxAlerts, open' \subseteq 1..raised',
         section' \in Sections, seeding' \in {"asked", "over"},
         IsQuery(badge') /\ QueryOK(badge') /\ badge'.rows = badge.rows,
         IsQuery(bell') /\ QueryOK(bell') /\ bell'.rows = bell.rows,
         IsQuery(ticker') /\ QueryOK(ticker') /\ ticker'.rows = ticker.rows,
         (badge' = badge /\ open' = open) \/ ~Settled(badge)',
         (bell' = bell /\ open' = open) \/ ~Settled(bell)',
         (ticker' = ticker /\ open' = open) \/ ~Settled(ticker)'
  PROVE  ConsoleInv'
<1> USE DEF ConsoleInv
<1>1. 1..raised \subseteq 1..raised' /\ raised \in Nat /\ raised' \in 0..MaxAlerts
  BY ConsoleAssumption DEF ConsoleTypeOK
<1>2. bell'.rows \in Seq(1..raised') /\ ticker'.rows \in Seq(1..raised')
  BY <1>1, SeqMonotonic DEF ConsoleTypeOK
<1>3. ConsoleTypeOK'
  BY <1>1, <1>2 DEF ConsoleTypeOK
<1>4. open' = open => \A limit : Latest(limit)' = Latest(limit)
  BY DEF Latest
<1>5. ShownIsOpen'
  BY <1>4 DEF ShownIsOpen
<1>6. QED
  BY <1>3, <1>5
LEMMA NextKeepsShown == ConsoleInv /\ [ConsoleNext]_consoleVars => ConsoleInv'
<1> SUFFICES ASSUME ConsoleInv, [ConsoleNext]_consoleVars PROVE ConsoleInv'
  OBVIOUS
<1> USE DEF ConsoleInv
\* What every case needs of the state before, and of the queries it moves.
<1>0. /\ IsQuery(badge) /\ IsQuery(bell) /\ IsQuery(ticker)
      /\ QueryOK(badge) /\ QueryOK(bell) /\ QueryOK(ticker)
      /\ raised \in 0..MaxAlerts /\ raised \in raised..MaxAlerts /\ open \subseteq 1..raised
      /\ section \in Sections /\ seeding \in {"asked", "over"}
  BY ConsoleAssumption DEF ConsoleTypeOK
<1>1. /\ IsQuery(TickerInvalidated) /\ QueryOK(TickerInvalidated)
      /\ TickerInvalidated.rows = ticker.rows /\ ~Settled(TickerInvalidated)
  BY <1>0, QueryMoves, QueryKeepsRows, QueryStaysOK DEF TickerInvalidated
\* An answer is what the server has.
<1>2. open' = open => \A limit : Latest(limit)' = Latest(limit)
  BY DEF Latest
<1>3. /\ Latest(BellSize) \in Seq(1..raised) /\ Latest(TickerSize) \in Seq(1..raised)
      /\ Cardinality(open) \in Nat
  BY <1>0, ConsoleAssumption, LatestLists, OpenIsFinite
\* One alert more, or one fewer.
<1>r. raised < MaxAlerts =>
        raised + 1 \in raised..MaxAlerts /\ open \union {raised + 1} \subseteq 1..raised + 1
  <2>1. \A a \in open : a \in 1..raised + 1
    BY <1>0
  <2>2. QED
    BY <1>0, <2>1, ConsoleAssumption
<1>4. CASE BadgeAnswered
  <2>1. /\ IsQuery(badge') /\ QueryOK(badge') /\ badge'.rows = Cardinality(open)
        /\ UNCHANGED <<raised, open, section, bell, ticker, seeding>>
    BY <1>4, QueryBegins, QueryBeginsOK DEF BadgeAnswered
  <2>2. ConsoleTypeOK' /\ ShownIsOpen'
    BY <1>2, <1>3, <2>1 DEF ConsoleTypeOK, ShownIsOpen
  <2>3. QED
    BY <2>1, <2>2
<1>5. CASE BellAnswered
  <2>1. /\ IsQuery(bell') /\ QueryOK(bell') /\ bell'.rows = Latest(BellSize)
        /\ UNCHANGED <<raised, open, section, badge, ticker, seeding>>
    BY <1>5, QueryBegins, QueryBeginsOK DEF BellAnswered
  <2>2. ConsoleTypeOK' /\ ShownIsOpen'
    BY <1>2, <1>3, <2>1 DEF ConsoleTypeOK, ShownIsOpen
  <2>3. QED
    BY <2>1, <2>2
<1>6. CASE TickerAnswered
  <2>1. /\ IsQuery(ticker') /\ QueryOK(ticker') /\ ticker'.rows = Latest(TickerSize)
        /\ UNCHANGED <<raised, open, section, badge, bell, seeding>>
    BY <1>6, QueryBegins, QueryBeginsOK DEF TickerAnswered
  <2>2. ConsoleTypeOK' /\ ShownIsOpen'
    BY <1>2, <1>3, <2>1 DEF ConsoleTypeOK, ShownIsOpen
  <2>3. QED
    BY <2>1, <2>2
<1>7. CASE Reload
  <2>1. /\ IsQuery(badge') /\ QueryOK(badge') /\ badge'.rows = 0 /\ ~Settled(badge)'
        /\ IsQuery(bell') /\ QueryOK(bell') /\ bell'.rows = << >> /\ ~Settled(bell)'
        /\ IsQuery(ticker') /\ QueryOK(ticker') /\ ticker'.rows = << >> /\ ~Settled(ticker)'
        /\ UNCHANGED <<raised, open, seeding>> /\ section' \in Sections
    BY <1>7, QueryBegins, QueryBeginsOK DEF Reload, Sections
  <2>2. << >> \in Seq(1..raised)
    BY EmptySeq
  <2>3. ConsoleTypeOK' /\ ShownIsOpen'
    BY <1>0, <2>1, <2>2 DEF ConsoleTypeOK, ShownIsOpen
  <2>4. QED
    BY <2>1, <2>3
\* Whatever else happens keeps what was shown, and asks or marks what it makes untrue.
<1>8. CASE Navigate
  <2>1. PICK s \in Sections \ {section} :
          /\ section' = s
          /\ IF s = "dashboard"
             THEN ticker' \in Mounted(ticker) /\ badge' \in Mounted(badge)
             ELSE UNCHANGED <<ticker, badge>>
    BY <1>8 DEF Navigate
  <2>2. UNCHANGED <<raised, open, bell, seeding>>
    BY <1>8 DEF Navigate
  <2>3. /\ IsQuery(badge') /\ QueryOK(badge') /\ badge'.rows = badge.rows
        /\ badge' = badge \/ ~Settled(badge)'
    BY <1>0, <2>1, QueryMoves, QueryKeepsRows, QueryStaysOK
  <2>4. /\ IsQuery(ticker') /\ QueryOK(ticker') /\ ticker'.rows = ticker.rows
        /\ ticker' = ticker \/ ~Settled(ticker)'
    BY <1>0, <2>1, QueryMoves, QueryKeepsRows, QueryStaysOK
  <2>5. QED
    BY <1>0, <2>1, <2>2, <2>3, <2>4, AskingKeeps
<1>9. CASE BadgeFetchFailed \/ Poll
  <2>1. /\ IsQuery(badge') /\ QueryOK(badge') /\ badge'.rows = badge.rows /\ ~Settled(badge)'
        /\ UNCHANGED <<raised, open, section, bell, ticker, seeding>>
    BY <1>0, <1>9, QueryMoves, QueryKeepsRows, QueryStaysOK DEF BadgeFetchFailed, Poll
  <2>2. QED
    BY <1>0, <2>1, AskingKeeps
<1>10. CASE ListFetchFailed
  <2>1. /\ IsQuery(bell') /\ QueryOK(bell') /\ bell'.rows = bell.rows
        /\ bell' = bell \/ ~Settled(bell)'
        /\ IsQuery(ticker') /\ QueryOK(ticker') /\ ticker'.rows = ticker.rows
        /\ ticker' = ticker \/ ~Settled(ticker)'
        /\ UNCHANGED <<raised, open, section, badge, seeding>>
    BY <1>0, <1>10, QueryMoves, QueryKeepsRows, QueryStaysOK DEF ListFetchFailed
  <2>2. QED
    BY <1>0, <2>1, AskingKeeps
<1>11. CASE AlertsMoveElsewhere
  <2>1. raised' \in raised..MaxAlerts /\ open' \subseteq 1..raised'
    BY <1>0, <1>r, <1>11 DEF AlertsMoveElsewhere
  <2>2. badge' = Overtaken(badge) /\ bell' = Overtaken(bell) /\ ticker' = Overtaken(ticker)
        /\ UNCHANGED <<section, seeding>>
    BY <1>11 DEF AlertsMoveElsewhere
  <2>3. /\ IsQuery(badge') /\ QueryOK(badge') /\ badge'.rows = badge.rows /\ ~Settled(badge)'
        /\ IsQuery(bell') /\ QueryOK(bell') /\ bell'.rows = bell.rows /\ ~Settled(bell)'
        /\ IsQuery(ticker') /\ QueryOK(ticker') /\ ticker'.rows = ticker.rows /\ ~Settled(ticker)'
    BY <1>0, <2>2, QueryMoves, QueryKeepsRows, QueryStaysOK
  <2>4. QED
    BY <1>0, <2>1, <2>2, <2>3, AskingKeeps
<1>12. ASSUME badge' = Refetched(badge), bell' = Refetched(bell), ticker' = TickerInvalidated,
              raised' \in raised..MaxAlerts, open' \subseteq 1..raised',
              section' = section, seeding' \in {"asked", "over"}
       PROVE  ConsoleInv'
  <2>1. /\ IsQuery(badge') /\ QueryOK(badge') /\ badge'.rows = badge.rows /\ ~Settled(badge)'
        /\ IsQuery(bell') /\ QueryOK(bell') /\ bell'.rows = bell.rows /\ ~Settled(bell)'
        /\ IsQuery(ticker') /\ QueryOK(ticker') /\ ticker'.rows = ticker.rows /\ ~Settled(ticker)'
    BY <1>0, <1>1, <1>12, QueryMoves, QueryKeepsRows, QueryStaysOK
  <2>2. QED
    BY <1>0, <1>12, <2>1, AskingKeeps
<1>13. CASE AlertUpdated
  <2>1. open' \subseteq 1..raised /\ raised' = raised
    BY <1>0, <1>13 DEF AlertUpdated
  <2>2. QED
    BY <1>0, <1>12, <1>13, <2>1 DEF AlertUpdated
<1>14. CASE SeedSettled
  <2>1. raised' \in raised..MaxAlerts /\ open' \subseteq 1..raised'
    BY <1>0, <1>r, <1>14 DEF SeedSettled
  <2>2. section' = section /\ seeding' = "over"
    BY <1>14 DEF SeedSettled
  <2>3. CASE badge' = Refetched(badge) /\ bell' = Refetched(bell) /\ ticker' = TickerInvalidated
    BY <1>12, <2>1, <2>2, <2>3
  <2>4. CASE UNCHANGED <<raised, open, badge, bell, ticker>>
    BY <1>0, <2>2, <2>4, AskingKeeps
  <2>5. QED
    BY <1>14, <2>3, <2>4 DEF SeedSettled
<1>15. CASE UNCHANGED consoleVars
  BY <1>0, <1>15, AskingKeeps DEF consoleVars
<1>16. QED
  BY <1>4, <1>5, <1>6, <1>7, <1>8, <1>9, <1>10, <1>11, <1>13, <1>14, <1>15 DEF ConsoleNext

LEMMA InitShown == ConsoleInit => ConsoleInv
<1> SUFFICES ASSUME ConsoleInit PROVE ConsoleInv
  OBVIOUS
<1>1. /\ IsQuery(badge) /\ QueryOK(badge) /\ badge.rows = 0 /\ ~Settled(badge)
      /\ IsQuery(bell) /\ QueryOK(bell) /\ bell.rows = << >> /\ ~Settled(bell)
      /\ IsQuery(ticker) /\ QueryOK(ticker) /\ ticker.rows = << >> /\ ~Settled(ticker)
  BY QueryBegins, QueryBeginsOK DEF ConsoleInit
<1>2. << >> \in Seq(1..raised)
  BY EmptySeq
<1>3. /\ open \subseteq 1..raised /\ raised \in 0..MaxAlerts /\ section \in Sections
      /\ seeding \in {"asked", "over"}
  BY DEF ConsoleInit, Sections
<1>4. ConsoleTypeOK
  BY <1>1, <1>2, <1>3 DEF ConsoleTypeOK
<1>5. QED
  BY <1>1, <1>4 DEF ConsoleInv, ShownIsOpen

LEMMA ConsoleInvariant == ConsoleSpec => []ConsoleInv
BY InitShown, NextKeepsShown, PTL DEF ConsoleSpec

-----------------------------------------------------------------------------
(* What the officer sees                                                   *)

\* The bell and the ticker list alerts that were raised, whatever was asked, failed or was
\* answered on the way.
THEOREM ConsoleTypes == ConsoleSpec => []ConsoleTypeOK
BY ConsoleInvariant, PTL DEF ConsoleInv

LEMMA ShownAgrees == ConsoleInv => NoticesAgree
<1> SUFFICES ASSUME ConsoleInv PROVE NoticesAgree
  OBVIOUS
<1>1. raised \in Nat /\ open \subseteq 1..raised /\ BellSize \in Nat \ {0} /\ TickerSize \in Nat \ {0}
  BY ConsoleAssumption DEF ConsoleInv, ConsoleTypeOK
<1>2. IsFiniteSet(open) /\ Cardinality(open) \in Nat
  BY <1>1, OpenIsFinite
<1>3. /\ Latest(BellSize) \in Seq(1..raised)
      /\ Len(Latest(BellSize)) =
           IF BellSize < Cardinality(open) THEN BellSize ELSE Cardinality(open)
      /\ \A n \in 1..Len(Latest(BellSize)) : Latest(BellSize)[n] = Descending(open)[n]
  BY <1>1, LatestLists
<1>4. \A n \in 1..Len(Latest(TickerSize)) : Latest(TickerSize)[n] = Descending(open)[n]
  BY <1>1, LatestLists
\* The number on the badge is that of the list and of those it does not show.
<1>5. ASSUME Settled(badge), Settled(bell)
      PROVE  /\ badge.rows = Len(bell.rows) + NotShown
             /\ NoOpenAlerts <=> (badge.rows = 0)
  <2>1. badge.rows = Cardinality(open) /\ bell.rows = Latest(BellSize)
    BY <1>5 DEF ConsoleInv, ShownIsOpen
  <2>2. bell.rows = << >> <=> Len(bell.rows) = 0
    BY <1>3, <2>1, EmptySeq
  <2>3. QED
    BY <1>1, <1>2, <1>3, <2>1, <2>2 DEF NotShown, NoOpenAlerts
<1>6. ASSUME Settled(bell), Settled(ticker), NEW n \in DOMAIN bell.rows, n <= TickerCount
      PROVE  bell.rows[n] = ticker.rows[n]
  <2>1. bell.rows = Latest(BellSize) /\ ticker.rows = Latest(TickerSize)
    BY <1>6 DEF ConsoleInv, ShownIsOpen
  <2>2. ticker.rows \in Seq(1..raised)
    BY DEF ConsoleInv, ConsoleTypeOK
  <2>3. n \in 1..Len(Latest(BellSize)) /\ n \in 1..Len(Latest(TickerSize))
    BY <1>3, <1>6, <2>1, <2>2, LenProperties DEF TickerCount
  <2>4. QED
    BY <1>3, <1>4, <2>1, <2>3
<1>7. QED
  BY <1>5, <1>6 DEF NoticesAgree

\* Badge, bell and ticker agree about the open alerts once their answers are in, for any number
\* of alerts and lists of any size: no update, seed or reload leaves one of them behind.
THEOREM NoticesTheorem == ConsoleSpec => []NoticesAgree
BY ConsoleInvariant, ShownAgrees, PTL
=============================================================================
