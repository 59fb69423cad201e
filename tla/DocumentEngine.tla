--------------------------- MODULE DocumentEngine ---------------------------
(***************************************************************************)
(* DocumentEngineSection.tsx over useDocuments and useAnalyzeDocument: the *)
(* form that has a document analysed, the list of the documents with its   *)
(* filters and pages, and the dialog with a document's analysis.           *)
(*                                                                         *)
(* The server filters and pages.  A document is known by its place on the  *)
(* server, the newest being listed first; what tells documents apart here  *)
(* is their type and how far their analysis is.  The filter by client      *)
(* works as the one by type.                                               *)
(***************************************************************************)
EXTENDS Listing, Query

CONSTANTS
  MaxDocuments, \* bound on documents
  DocTypes,     \* types a document may have
  DocPageSize   \* PAGE_SIZE

ASSUME DocumentsAssumption ==
  /\ MaxDocuments \in Nat
  /\ DocPageSize \in Nat \ {0}
  /\ "any" \notin DocTypes

VARIABLES
  documents,  \* server: type and analysisStatus of each document
  docFilter,  \* page, docTypeFilter and statusFilter: the key of the query
  docQuery,   \* the query with that key
  docForm,    \* docType and whether a file is chosen
  analysis,   \* the call of handleUpload under way, if any
  docDetail   \* the copy of a document the dialog shows, if open

docVars == <<documents, docFilter, docQuery, docForm, analysis, docDetail>>

AnalysisStatuses == {"analyzing", "completed", "failed"}
NoFilter == [page |-> 1, type |-> "any", status |-> "any"]
EmptyForm == [type |-> "any", file |-> FALSE]
NoAnalysis == [type |-> "any", file |-> FALSE, here |-> FALSE]
NoDetail == [doc |-> 0, status |-> "none"]
NoDocuments == [rows |-> << >>, total |-> 0]

(* The server's answer to a key: a page of what passes the filters.        *)
DocumentsFor(key) ==
  LET passing == {i \in DOMAIN documents :
                    /\ key.type \in {"any", documents[i].type}
                    /\ key.status \in {"any", documents[i].status}}
      page == PageOf(Descending(passing), key.page, DocPageSize)
  IN  [rows  |-> [n \in DOMAIN page |-> [doc |-> page[n], status |-> documents[page[n]].status]],
       total |-> Cardinality(passing)]

(* The table, and the pages it is told there are: one before the answer.   *)
DocRows == docQuery.rows.rows
DocPages == IF docQuery.known THEN Pages(docQuery.rows.total, DocPageSize) ELSE 1

(* The tiles: the total of the list, the analysed ones of the page.        *)
DocStats ==
  [total    |-> docQuery.rows.total,
   analyzed |-> Cardinality({n \in DOMAIN DocRows : DocRows[n].status = "completed"})]

(* Another key is looked at: nothing is known of it, or it was cached.     *)
LookAt(key) ==
  /\ docFilter' = key
  /\ docQuery' \in IF key = docFilter THEN {docQuery}
                   ELSE {NewQuery(NoDocuments), [AnsweredWith(DocumentsFor(key)) EXCEPT !.asked = TRUE]}
-----------------------------------------------------------------------------
(* The query                                                               *)

DocumentsAnswered ==
  /\ docQuery.asked
  /\ docQuery' = AnsweredWith(DocumentsFor(docFilter))
  /\ UNCHANGED <<documents, docFilter, docForm, analysis, docDetail>>

DocumentsFetchFailed ==
  /\ docQuery.asked
  /\ docQuery' = FetchFailed(docQuery)
  /\ UNCHANGED <<documents, docFilter, docForm, analysis, docDetail>>

(* The engine is done with a document.                                     *)
DocumentAnalyzed ==
  /\ \E i \in DOMAIN documents, outcome \in {"completed", "failed"} :
       /\ documents[i].status = "analyzing"
       /\ documents' = [documents EXCEPT ![i].status = outcome]
  /\ docQuery' = Overtaken(docQuery)
  /\ UNCHANGED <<docFilter, docForm, analysis, docDetail>>
-----------------------------------------------------------------------------
(* The list                                                                *)

\* Bug: the page stays when the type is chosen.
FilterDocumentsOnPage ==
  /\ \/ \E t \in DocTypes \union {"any"} : LookAt([docFilter EXCEPT !.type = t])
     \/ \E s \in {"any", "analyzing"} : LookAt([docFilter EXCEPT !.status = s, !.page = 1])
  /\ UNCHANGED <<documents, docForm, analysis, docDetail>>

(* A filter is chosen, and the first page with it.                         *)
FilterDocuments ==
  /\ \/ \E t \in DocTypes \union {"any"} : LookAt([docFilter EXCEPT !.type = t, !.page = 1])
     \/ \E s \in {"any", "analyzing"} : LookAt([docFilter EXCEPT !.status = s, !.page = 1])
  /\ UNCHANGED <<documents, docForm, analysis, docDetail>>

(* clearFilters.                                                           *)
ClearDocumentFilters ==
  /\ docFilter.type # "any" \/ docFilter.status # "any"
  /\ LookAt(NoFilter)
  /\ UNCHANGED <<documents, docForm, analysis, docDetail>>

(* Previous and Next, which are there only if there is more than one page. *)
TurnDocumentPage ==
  /\ DocPages > 1
  /\ \/ docFilter.page > 1 /\ LookAt([docFilter EXCEPT !.page = @ - 1])
     \/ docFilter.page < DocPages /\ LookAt([docFilter EXCEPT !.page = @ + 1])
  /\ UNCHANGED <<documents, docForm, analysis, docDetail>>

(* A row is expanded and its full analysis opened, or the dialog closed.   *)
ShowAnalysis ==
  /\ \/ /\ docDetail = NoDetail
        /\ \E n \in DOMAIN DocRows : docDetail' = DocRows[n]
     \/ docDetail # NoDetail /\ docDetail' = NoDetail
  /\ UNCHANGED <<documents, docFilter, docQuery, docForm, analysis>>

LeaveDocuments ==
  /\ LookAt(NoFilter)
  /\ docForm' = EmptyForm
  /\ docDetail' = NoDetail
  /\ analysis' = [analysis EXCEPT !.here = FALSE]
  /\ UNCHANGED documents
-----------------------------------------------------------------------------
(* handleUpload                                                            *)

(* The type is chosen, or a file dropped, picked or cleared.  The client   *)
(* is chosen like the type.                                                *)
FillDocumentForm ==
  /\ \/ \E t \in DocTypes : docForm' = [docForm EXCEPT !.type = t]
     \/ docForm' = [docForm EXCEPT !.file = ~@]
  /\ UNCHANGED <<documents, docFilter, docQuery, analysis, docDetail>>

(* The button needs no file; it is disabled while the call is pending.     *)
Upload ==
  /\ docForm.type # "any"
  /\ analysis = NoAnalysis
  /\ analysis' = [type |-> docForm.type, file |-> docForm.file, here |-> TRUE]
  /\ UNCHANGED <<documents, docFilter, docQuery, docForm, docDetail>>

(* The answer empties the form, whatever it holds by then; a refusal only  *)
(* reports itself.                                                         *)
UploadSettled ==
  /\ analysis # NoAnalysis
  /\ \/ /\ Len(documents) < MaxDocuments
        /\ documents' = Append(documents, [type |-> analysis.type, status |-> "analyzing"])
        /\ docQuery' = Refetched(docQuery)
        /\ docForm' = IF analysis.here THEN EmptyForm ELSE docForm
     \/ UNCHANGED <<documents, docQuery, docForm>>
  /\ analysis' = NoAnalysis
  /\ UNCHANGED <<docFilter, docDetail>>
-----------------------------------------------------------------------------
DocumentsInit ==
  /\ documents = << >>
  /\ docFilter = NoFilter
  /\ docQuery = NewQuery(NoDocuments)
  /\ docForm = EmptyForm
  /\ analysis = NoAnalysis
  /\ docDetail = NoDetail

DocumentsNext ==
  \/ DocumentsAnswered
  \/ DocumentsFetchFailed
  \/ DocumentAnalyzed
  \/ FilterDocuments
  \/ ClearDocumentFilters
  \/ TurnDocumentPage
  \/ ShowAnalysis
  \/ LeaveDocuments
  \/ FillDocumentForm
  \/ Upload
  \/ UploadSettled

DocumentsSpec == DocumentsInit /\ [][DocumentsNext]_docVars
-----------------------------------------------------------------------------
(* Properties                                                              *)

DocumentsTypeOK ==
  /\ documents \in Seq([type : DocTypes, status : AnalysisStatuses])
  /\ QueryOK(docQuery)
  /\ docFilter.type \in DocTypes \union {"any"} /\ docFilter.page \in Nat \ {0}
  /\ docForm \in [type : DocTypes \union {"any"}, file : BOOLEAN]
  /\ docDetail.doc \in 0..Len(documents)

(* Once its answers are in and nothing failed, the table shows the page    *)
(* the server has for the filters chosen, uploads from anywhere included.  *)
DocumentsFresh == Settled(docQuery) => docQuery.rows = DocumentsFor(docFilter)

(* "No documents analyzed yet" (line 605) is shown only if there are none, *)
(* whatever filters and pages were gone through before.                    *)
NothingYetIsTrue ==
  (Settled(docQuery) /\ DocRows = << >> /\ docFilter.type = "any" /\ docFilter.status = "any")
    => documents = << >>

(* An empty page of a list that is not empty, which has no button to leave *)
(* it by when one page is left, comes only of documents whose analysis     *)
(* ended under a filter by status.                                         *)
StrandedByStatusOnly ==
  (DocRows = << >> /\ docQuery.rows.total > 0) => docFilter.status = "analyzing"
=============================================================================
