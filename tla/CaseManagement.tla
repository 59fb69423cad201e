--------------------------- MODULE CaseManagement ---------------------------
(***************************************************************************)
(* CaseManagementSection.tsx over useCases, useCreateCase, useUpdateCase   *)
(* and useAddCaseNote, and the CaseService of governance/cases.py behind   *)
(* them.                                                                   *)
(*                                                                         *)
(* The list is a page of the filtered rows of a cached answer; one row may *)
(* be expanded into its detail, which goes away with its row.  Nothing is  *)
(* disabled while an update is under way, so several may be.  The status   *)
(* filter stands for all filters: each is part of the key and each goes    *)
(* back to page 1.                                                         *)
(***************************************************************************)
EXTENDS Listing, Query

CONSTANTS
  MaxCases,     \* bound on cases
  MaxCaseCalls, \* bound on requests under way
  CasePageSize
ASSUME CaseAssumption ==
  /\ {MaxCases, CasePageSize} \subseteq Nat \ {0}
  /\ MaxCaseCalls \in Nat

VARIABLES
  cases,       \* server: the status of each case, in the order of creation
  caseQuery,   \* the query of the filter that is set
  caseView,    \* filter, page, expanded row (0 for none), whether a note is typed
  newCase,     \* the dialog: open, its request, and whether the section waits for the answer
  caseCalls    \* updates and notes under way

caseVars == <<cases, caseQuery, caseView, newCase, caseCalls>>

CaseStatuses == {"open", "in_progress", "escalated", "closed"}
CaseFilters == {"all", "open"}
NoRows == << >>

MatchesCase(status, filter) == filter \in {"all", status}

(* list_cases                                                              *)
CasesListed(filter) ==
  [i \in {j \in DOMAIN cases : MatchesCase(cases[j], filter)} |-> cases[i]]

(* The rows in the order of the list, newest first; sorting them another   *)
(* way moves them between pages but changes nothing else.                  *)
CasesOrdered(rows, filter) ==
  Descending({i \in DOMAIN rows : MatchesCase(rows[i], filter)})

(* paginatedCases                                                          *)
CasePage(view, query) ==
  LET page == PageOf(CasesOrdered(query.rows, view.filter), view.page, CasePageSize)
  IN  {page[n] : n \in DOMAIN page}
CasePages ==
  LET n == Len(CasesOrdered(caseQuery.rows, caseView.filter))
  IN  IF n = 0 THEN 1 ELSE Pages(n, CasePageSize)

CaseRows == caseQuery.rows
CaseDetail == IF caseView.open \in CasePage(caseView, caseQuery) THEN caseView.open ELSE 0

\* Bug: the note is kept for whichever case is expanded next.
CaseScreenKeepingNote(view, query, calls) ==
  LET kept == view.open # 0 /\ view.open = CaseDetail /\ view.open \in CasePage(view, query)
  IN  /\ caseQuery' = query
      /\ caseView' = view
      /\ caseCalls' = IF kept THEN calls ELSE {[c EXCEPT !.heard = FALSE] : c \in calls}

(* What is on screen next.  A detail that goes takes its note with it, and *)
(* nobody hears the answers of its calls.                                  *)
CaseScreen(view, query, calls) ==
  LET kept == view.open # 0 /\ view.open = CaseDetail /\ view.open \in CasePage(view, query)
  IN  /\ caseQuery' = query
      /\ caseView' = IF kept THEN view ELSE [view EXCEPT !.note = FALSE]
      /\ caseCalls' = IF kept THEN calls ELSE {[c EXCEPT !.heard = FALSE] : c \in calls}

(* The query of filter f when it is chosen: new, or with a copy from an    *)
(* earlier visit, which is as of now or is fetched again.                  *)
CaseQueryOf(f) ==
  {NewQuery(NoRows)} \union Mounted(AnsweredWith(CasesListed(f)))
-----------------------------------------------------------------------------
(* useCases                                                                *)

CasesAnswered ==
  /\ caseQuery.asked
  /\ CaseScreen(caseView, AnsweredWith(CasesListed(caseView.filter)), caseCalls)
  /\ UNCHANGED <<cases, newCase>>

CasesFetchFailed ==
  /\ caseQuery.asked
  /\ CaseScreen(caseView, FetchFailed(caseQuery), caseCalls)
  /\ UNCHANGED <<cases, newCase>>
-----------------------------------------------------------------------------
(* governance/cases.py                                                     *)

(* update_case and add_case_note: any status may follow any other, and a   *)
(* note leaves the status alone.                                           *)
CaseAfter(status, action) ==
  CASE action = "escalate" -> "escalated"
    [] action = "close"    -> "closed"
    [] OTHER               -> status

(* An officer elsewhere moves a case.                                      *)
CaseMovesElsewhere ==
  /\ \E i \in DOMAIN cases, status \in {"in_progress", "closed"} :
       /\ cases[i] # "closed"
       /\ cases' = [cases EXCEPT ![i] = status]
  /\ caseQuery' = Overtaken(caseQuery)
  /\ UNCHANGED <<caseView, newCase, caseCalls>>
-----------------------------------------------------------------------------
(* The list                                                                *)

CaseView(view, query) ==
  /\ CaseScreen(view, query, caseCalls)
  /\ UNCHANGED <<cases, newCase>>

\* Bug: the page stays where it was.
FilterCasesOnPage ==
  /\ ~newCase.open
  /\ \E f \in CaseFilters \ {caseView.filter} : \E q \in CaseQueryOf(f) :
       CaseView([caseView EXCEPT !.filter = f], q)

(* A filter is set; another key is another query.                          *)
FilterCases ==
  /\ ~newCase.open
  /\ \E f \in CaseFilters \ {caseView.filter} : \E q \in CaseQueryOf(f) :
       CaseView([caseView EXCEPT !.filter = f, !.page = 1], q)

(* "Clear all filters" of the empty list, which leaves the page.           *)
ClearCaseFilters ==
  /\ ~newCase.open
  /\ caseView.filter # "all"
  /\ CasePage(caseView, caseQuery) = {}
  /\ \E q \in CaseQueryOf("all") : CaseView([caseView EXCEPT !.filter = "all"], q)

(* The numbers and arrows under the list, there if it has several pages.   *)
TurnCasePage ==
  /\ ~newCase.open
  /\ CasePages > 1
  /\ \E p \in 1..CasePages : CaseView([caseView EXCEPT !.page = p], caseQuery)

ToggleCase ==
  /\ ~newCase.open
  /\ \E i \in CasePage(caseView, caseQuery) :
       CaseView([caseView EXCEPT !.open = IF @ = i THEN 0 ELSE i, !.note = FALSE], caseQuery)

LeaveCases ==
  /\ caseQuery' \in IF caseView.filter = "all" THEN Mounted(caseQuery) ELSE CaseQueryOf("all")
  /\ caseView' = [filter |-> "all", page |-> 1, open |-> 0, note |-> FALSE]
  /\ newCase' = [newCase EXCEPT !.open = FALSE, !.heard = FALSE]
  /\ caseCalls' = {[c EXCEPT !.heard = FALSE] : c \in caseCalls}
  /\ UNCHANGED cases
-----------------------------------------------------------------------------
(* CreateCaseDialog                                                        *)

(* The dialog is opened, or closed with what was typed kept.  Cancel is    *)
(* disabled while a request is under way, Escape is not.                   *)
OpenNewCase ==
  /\ newCase' = [newCase EXCEPT !.open = ~@]
  /\ UNCHANGED <<cases, caseQuery, caseView, caseCalls>>

(* handleSubmit, with the required fields filled in.                       *)
CreateCase ==
  /\ newCase.open /\ ~newCase.sent
  /\ Cardinality(caseCalls) < MaxCaseCalls
  /\ newCase' = [newCase EXCEPT !.sent = TRUE, !.heard = TRUE]
  /\ UNCHANGED <<cases, caseQuery, caseView, caseCalls>>

(* The answer resets and closes the dialog and goes to page 1.             *)
NewCaseSettled ==
  /\ newCase.sent
  /\ \/ /\ Len(cases) < MaxCases
        /\ cases' = Append(cases, "open")
        /\ newCase' = [open |-> newCase.open /\ ~newCase.heard, sent |-> FALSE, heard |-> FALSE]
        /\ CaseScreen(IF newCase.heard THEN [caseView EXCEPT !.page = 1] ELSE caseView,
                      Refetched(caseQuery), caseCalls)
     \/ /\ newCase' = [newCase EXCEPT !.sent = FALSE, !.heard = FALSE]
        /\ UNCHANGED <<cases, caseQuery, caseView, caseCalls>>
-----------------------------------------------------------------------------
(* CaseDetailView                                                          *)

\* Bug: a closed case may be escalated.
CaseActionsOfAny(status) ==
  (IF status = "closed" THEN {} ELSE {"close"})
    \union (IF status = "escalated" THEN {} ELSE {"escalate"})

(* The buttons, by the status of the copy.  Reassigning, which changes     *)
(* nothing that is told apart here, is left out.                           *)
CaseActions(status) ==
  (IF status = "closed" THEN {} ELSE {"close"})
    \union (IF status \in {"escalated", "closed"} THEN {} ELSE {"escalate"})

TypeNote ==
  /\ CaseDetail # 0 /\ ~newCase.open
  /\ caseView' = [caseView EXCEPT !.note = TRUE]
  /\ UNCHANGED <<cases, caseQuery, newCase, caseCalls>>

(* A call of the detail on screen: whether it is a change of the status of *)
(* a case shown as closed, and whether the text field waits for it.        *)
Call(action) ==
  [id |-> CaseDetail, action |-> action, heard |-> action = "note",
   late |-> action \in {"escalate", "close"} /\ CaseRows[CaseDetail] = "closed"]

(* handleAction, which tells of success at once, and handleAddNote.        *)
SendCaseCall ==
  /\ CaseDetail # 0 /\ ~newCase.open
  /\ Cardinality(caseCalls) + (IF newCase.sent THEN 1 ELSE 0) < MaxCaseCalls
  /\ \/ \E action \in CaseActions(CaseRows[CaseDetail]) :
          caseCalls' = caseCalls \union {Call(action)}
     \/ caseView.note /\ caseCalls' = caseCalls \union {Call("note")}
  /\ UNCHANGED <<cases, caseQuery, caseView, newCase>>

\* Bug: the cases are not invalidated.
CaseCallSettledUnheard ==
  /\ \E c \in caseCalls :
       \/ /\ cases' = [cases EXCEPT ![c.id] = CaseAfter(@, c.action)]
          /\ CaseScreen([caseView EXCEPT !.note = @ /\ ~c.heard], caseQuery, caseCalls \ {c})
       \/ /\ caseCalls' = caseCalls \ {c}
          /\ UNCHANGED <<cases, caseQuery, caseView>>
  /\ UNCHANGED newCase

(* The answers come in any order.  handleUpdateCase does nothing: the row  *)
(* was there when the call was made.  A note that was saved clears what is *)
(* in the text field by then.                                              *)
CaseCallSettled ==
  /\ \E c \in caseCalls :
       \/ /\ cases' = [cases EXCEPT ![c.id] = CaseAfter(@, c.action)]
          /\ CaseScreen([caseView EXCEPT !.note = @ /\ ~c.heard],
                        Refetched(caseQuery), caseCalls \ {c})
       \/ /\ caseCalls' = caseCalls \ {c}
          /\ UNCHANGED <<cases, caseQuery, caseView>>
  /\ UNCHANGED newCase
-----------------------------------------------------------------------------
CasesInit ==
  /\ cases = <<"open">>
  /\ caseQuery = NewQuery(NoRows)
  /\ caseView = [filter |-> "all", page |-> 1, open |-> 0, note |-> FALSE]
  /\ newCase = [open |-> FALSE, sent |-> FALSE, heard |-> FALSE]
  /\ caseCalls = {}

CasesNext ==
  \/ CasesAnswered
  \/ CasesFetchFailed
  \/ CaseMovesElsewhere
  \/ FilterCases
  \/ ClearCaseFilters
  \/ TurnCasePage
  \/ ToggleCase
  \/ LeaveCases
  \/ OpenNewCase
  \/ CreateCase
  \/ NewCaseSettled
  \/ TypeNote
  \/ SendCaseCall
  \/ CaseCallSettled

CasesSpec == CasesInit /\ [][CasesNext]_caseVars
-----------------------------------------------------------------------------
(* Properties                                                              *)

CasesTypeOK ==
  /\ \A i \in DOMAIN cases : cases[i] \in CaseStatuses
  /\ QueryOK(caseQuery) /\ DOMAIN CaseRows \subseteq DOMAIN cases
  /\ caseView.open \in 0..Len(cases)
  /\ caseView.page \in 1..MaxCases
  /\ caseView.note => CaseDetail # 0
  /\ \A c \in caseCalls : c.heard => c.id = CaseDetail

(* The list is the server's under its filter once nothing is being fetched *)
(* and nobody elsewhere has written, whatever was sent, left and come back *)
(* to in between.                                                          *)
CasesFresh ==
  Settled(caseQuery) => CaseRows = CasesListed(caseView.filter)

(* A closed case comes back to life only through an escalation sent while  *)
(* the copy on screen did not show it closed.                              *)
ReopenedUnawares ==
  [][\A i \in DOMAIN cases :
       (cases[i] = "closed" /\ cases'[i] # "closed")
         => \E c \in caseCalls \ caseCalls' : c.id = i /\ ~c.late]_caseVars

(* No filter and no button leads to a page that does not exist, over the   *)
(* rows there are then; only a refetch that leaves fewer rows does.        *)
NoClickPastTheEnd ==
  [][(/\ caseView.page <= CasePages
      /\ \/ caseView'.page # caseView.page
         \/ caseView'.filter # caseView.filter)
       => caseView'.page <= CasePages']_caseVars
=============================================================================
