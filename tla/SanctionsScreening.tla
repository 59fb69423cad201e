------------------------- MODULE SanctionsScreening -------------------------
(***************************************************************************)
(* SanctionsScreeningPanel.tsx over useSanctionsMatches, useScreenName and *)
(* useUpdateSanctionsMatch, and the service of sanctions.py behind them.   *)
(*                                                                         *)
(* The panel is mounted for as long as the console is open, and shows the  *)
(* history of matches until a name has been screened, and activeMatches    *)
(* from then on.  An effect copies the history over activeMatches whenever *)
(* either changes that it depends on; it runs before the next event.  The  *)
(* text typed, which also narrows what is shown, and the sources are left  *)
(* out; every match of a page is of the same source here.                  *)
(***************************************************************************)
EXTENDS Query, FiniteSets, SequencesExt

CONSTANTS
  ListedNames,     \* names typed that are like one of a listed entity
  OtherNames,      \* names that are not
  MaxMatches,      \* bound on matches, not above the pageSize of 100
  MaxSanctionCalls \* bound on screenings, and on updates, under way

ASSUME SanctionsAssumption == {MaxMatches, MaxSanctionCalls} \subseteq Nat

VARIABLES
  matches,    \* server: name and status of each match, in the order screened
  matchQuery, \* the query of the matches
  panel,      \* hasScreened, and activeMatches
  screenings, \* names being screened; the one sent last reports to the panel
  reviews,    \* updates under way; the one sent last reports to the panel
  hit,        \* for the properties: the last screening that was reported found a match
  writes      \* for the properties: how often each match was reviewed since it was copied

sanctionsVars == <<matches, matchQuery, panel, screenings, reviews, hit, writes>>

(* Pending Review, Confirmed Match, False Positive and Cleared.            *)
MatchStatuses == {"Pending", "Confirmed", "FalsePositive", "Cleared"}
NoScreening == [screened |-> FALSE, active |-> << >>]

(* list_matches: the latest first.                                         *)
Listed == Reverse([n \in DOMAIN matches |-> [id |-> n, name |-> matches[n].name, status |-> matches[n].status]])

(* displayMatches.                                                         *)
Persisted == matchQuery.rows
Displayed == IF panel.screened THEN panel.active ELSE Persisted

(* summaryStats.                                                           *)
WithStatus(s) == Cardinality({n \in DOMAIN Displayed : Displayed[n].status = s})
SummaryStats ==
  [total |-> Len(Displayed), pending |-> WithStatus("Pending"),
   confirmed |-> WithStatus("Confirmed"), falsePositives |-> WithStatus("FalsePositive"),
   cleared |-> WithStatus("Cleared")]

(* A mutation is sent: it takes the observer from those sent before, whose  *)
(* own callbacks are then never called.                                    *)
Sent(calls, call) ==
  Append([i \in DOMAIN calls |-> [calls[i] EXCEPT !.reports = FALSE]], call)

(* The effect, for the panel p as an event leaves it: it runs if the query *)
(* has other rows than before, or hasScreened was set just now.            *)
Effect(p, rows) ==
  IF p.screened /\ (~panel.screened \/ rows # Persisted) THEN [p EXCEPT !.active = rows] ELSE p

Written(n) == [writes EXCEPT ![n] = IF @ = 2 THEN 2 ELSE @ + 1]

(* The buttons of a row.                                                   *)
Reviews ==
  [s \in MatchStatuses |->
     CASE s = "Pending" -> {"FalsePositive", "Confirmed"}
       [] s = "Cleared" -> {}
       [] OTHER         -> {"Pending"}]
-----------------------------------------------------------------------------
MatchesAnswered ==
  /\ matchQuery.asked
  /\ matchQuery' = AnsweredWith(Listed)
  /\ panel' = Effect(panel, Listed)
  /\ writes' = [n \in DOMAIN writes |->
                  IF writes[n] = 1 \/ panel'.active = Listed THEN 0 ELSE writes[n]]
  /\ UNCHANGED <<matches, screenings, reviews, hit>>

MatchesFetchFailed ==
  /\ matchQuery.asked
  /\ matchQuery' = FetchFailed(matchQuery)
  /\ UNCHANGED <<matches, panel, screenings, reviews, hit, writes>>

(* An officer elsewhere reviews a match, or has it cleared.                *)
ReviewedElsewhere ==
  /\ \E n \in DOMAIN matches, s \in MatchStatuses :
       /\ matches[n].status # s
       /\ matches' = [matches EXCEPT ![n].status = s]
       /\ writes' = Written(n)
  /\ matchQuery' = Overtaken(matchQuery)
  /\ UNCHANGED <<panel, screenings, reviews, hit>>

(* handleScreen: the button is disabled while a screening is pending, but  *)
(* Enter in the field is not.                                              *)
Screen ==
  /\ Len(screenings) < MaxSanctionCalls
  /\ \E name \in ListedNames \union OtherNames : screenings' = Sent(screenings, [name |-> name, reports |-> TRUE])
  /\ UNCHANGED <<matches, matchQuery, panel, reviews, hit, writes>>

(* An answer: a screening stores its matches as pending, also those of a   *)
(* name screened before.  Only the last one sent reports to the panel.     *)
ScreeningSettled ==
  /\ \E n \in DOMAIN screenings :
       LET name == screenings[n].name
           found == IF name \in ListedNames
                    THEN <<[id |-> Len(matches) + 1, name |-> name, status |-> "Pending"]>>
                    ELSE << >>
       IN  /\ screenings' = RemoveAt(screenings, n)
           /\ \/ /\ Len(matches) + Len(found) <= MaxMatches
                 /\ matches' = matches \o [i \in DOMAIN found |-> [name |-> name, status |-> "Pending"]]
                 /\ writes' = writes \o [i \in DOMAIN found |-> 0]
                 /\ matchQuery' = Refetched(matchQuery)
                 /\ IF screenings[n].reports
                    THEN panel' = Effect([screened |-> TRUE, active |-> found], Persisted) /\ hit' = (found # << >>)
                    ELSE UNCHANGED <<panel, hit>>
              \/ UNCHANGED <<matches, matchQuery, panel, hit, writes>>
  /\ UNCHANGED reviews

(* handleStatusChange, by the buttons the row on screen has.               *)
Review ==
  /\ Len(reviews) < MaxSanctionCalls
  /\ \E n \in DOMAIN Displayed :
       LET row == Displayed[n]
       IN  \E s \in Reviews[row.status] :
             reviews' = Sent(reviews, [id |-> row.id, status |-> s, reports |-> TRUE])
  /\ UNCHANGED <<matches, matchQuery, panel, screenings, hit, writes>>

ReviewSettled ==
  /\ \E n \in DOMAIN reviews :
       LET r == reviews[n]
           Marked(row) == IF row.id = r.id THEN [row EXCEPT !.status = r.status] ELSE row
       IN  /\ reviews' = RemoveAt(reviews, n)
           /\ \/ /\ matches' = [matches EXCEPT ![r.id].status = r.status]
                 /\ writes' = Written(r.id)
                 /\ matchQuery' = Refetched(matchQuery)
                 /\ panel' = IF r.reports
                             THEN [panel EXCEPT !.active = [i \in DOMAIN @ |-> Marked(@[i])]] ELSE panel
              \/ UNCHANGED <<matches, matchQuery, panel, writes>>
  /\ UNCHANGED <<screenings, hit>>
-----------------------------------------------------------------------------
SanctionsInit ==
  /\ matches = << >>
  /\ matchQuery = NewQuery(<< >>)
  /\ panel = NoScreening
  /\ screenings = << >>
  /\ reviews = << >>
  /\ hit = FALSE
  /\ writes = << >>

SanctionsNext ==
  \/ MatchesAnswered
  \/ MatchesFetchFailed
  \/ ReviewedElsewhere
  \/ Screen
  \/ ScreeningSettled
  \/ Review
  \/ ReviewSettled

SanctionsSpec == SanctionsInit /\ [][SanctionsNext]_sanctionsVars
-----------------------------------------------------------------------------
(* Properties                                                              *)

SanctionsTypeOK ==
  /\ matches \in Seq([name : ListedNames, status : MatchStatuses])
  /\ QueryOK(matchQuery)
  /\ panel.screened \in BOOLEAN
  /\ \A n \in DOMAIN screenings : screenings[n].name \in ListedNames \union OtherNames
  /\ \A n \in DOMAIN reviews : reviews[n].id \in DOMAIN matches

(* Whatever the panel shows, history or screening, has the status the      *)
(* server has, and its tile counts those pending, once the answers are in. *)
(* The exception is a match reviewed twice before an answer, such as one   *)
(* that this console marked at once and an officer elsewhere put back: an  *)
(* answer like the one before does not run the effect.                     *)
StatusesTrue ==
  (Settled(matchQuery) /\ \A n \in DOMAIN writes : writes[n] < 2) =>
    /\ \A n \in DOMAIN Displayed : Displayed[n].status = matches[Displayed[n].id].status
    /\ SummaryStats.pending =
         Cardinality({n \in DOMAIN Displayed : matches[Displayed[n].id].status = "Pending"})

(* "Display the user's freshly-screened matches" (line 113): a screening   *)
(* that was reported to have found a match is not followed by "No matches  *)
(* found" (line 385).                                                      *)
HitsAreShown == hit => Displayed # << >>
=============================================================================
