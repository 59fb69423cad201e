------------------------------- MODULE Query -------------------------------
(***************************************************************************)
(* One query of the console's cache, as the hooks of useApi.ts and the     *)
(* QueryClient of page.tsx set it up (react-query itself is external).     *)
(*                                                                         *)
(*   rows    what the last answer held                                     *)
(*   known   there has been an answer                                      *)
(*   asked   a request is under way                                        *)
(*   stale   invalidated, and not answered since                           *)
(*   behind  since the last answer an officer elsewhere wrote, or a        *)
(*           request and its retry failed                                  *)
(*                                                                         *)
(* A request of a query on screen is started anew when the query is        *)
(* invalidated, so its answer is taken to hold what the server has when it *)
(* arrives.                                                                *)
(***************************************************************************)
EXTENDS Naturals

NewQuery(nothing) ==
  [rows |-> nothing, known |-> FALSE, asked |-> TRUE, stale |-> FALSE, behind |-> FALSE]

(* A component that uses the query is mounted.  An answer counts as fresh  *)
(* for 30 seconds unless the query was invalidated.                        *)
Mounted(q) ==
  {[q EXCEPT !.asked = TRUE]} \union (IF q.known /\ ~q.stale THEN {q} ELSE {})

AnsweredWith(rows) ==
  [rows |-> rows, known |-> TRUE, asked |-> FALSE, stale |-> FALSE, behind |-> FALSE]

(* A request and its retry failed: what there was stays.                   *)
FetchFailed(q) == [q EXCEPT !.asked = FALSE, !.behind = TRUE]

(* Invalidated while on screen, and while not.                             *)
Refetched(q) == [q EXCEPT !.asked = TRUE, !.stale = TRUE]
Invalidated(q) == [q EXCEPT !.stale = TRUE]

(* An officer elsewhere changed what the query is about.                   *)
Overtaken(q) == [q EXCEPT !.behind = TRUE]

(* Nothing under way and nothing missed: the rows should be the server's.  *)
Settled(q) == q.known /\ ~q.asked /\ ~q.stale /\ ~q.behind

QueryOK(q) == {q.known, q.asked, q.stale, q.behind} \subseteq BOOLEAN
=============================================================================
