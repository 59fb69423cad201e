----------------------------- MODULE Reporting -----------------------------
(***************************************************************************)
(* ReportingSection.tsx with useReportsList, useGenerateReport and         *)
(* useUpdateReport: the list of AUSTRAC reports, the wizard that generates *)
(* one and the dialog that approves and submits one.                       *)
(*                                                                         *)
(* The list on screen is a copy of the server's, filtered in the browser.  *)
(* Both dialogs are modal and are unmounted when they close; a request     *)
(* they sent goes on, and its answer finds the section or nobody.          *)
(* The server is the one the hooks assume; officers elsewhere move reports *)
(* along too.                                                              *)
(***************************************************************************)
EXTENDS Listing

CONSTANTS
  MaxReports,  \* bound on reports
  ReportTypes  \* SMR, TTR, IFTI-E

ASSUME ReportingAssumption ==
  /\ MaxReports \in Nat
  /\ "SMR" \in ReportTypes

VARIABLES
  reports,       \* server: the reports, in the order of creation
  reportList,    \* the copy on screen, whether a fetch is out or has failed, the status filter
  wizard,        \* the wizard: step 0 when closed, type, linked alert
  generateCall,  \* the generation under way
  detail,        \* the dialog: report (0 when closed), narrative typed, compare
  updateCall,    \* the update under way
  reportBehind   \* since the last answer an officer elsewhere wrote, or a fetch failed

reportVars == <<reports, reportList, wizard, generateCall, detail, updateCall, reportBehind>>

ReportStatuses == {"draft", "pending_approval", "approved", "submitted", "acknowledged", "failed"}
Narratives == {"drafted", "edited"}
NoWizard == [step |-> 0, type |-> "none", alert |-> FALSE]
NoDetail == [report |-> 0, narrative |-> "drafted", compare |-> FALSE]
NoGenerate == [type |-> "none", alert |-> FALSE, here |-> FALSE]
NoUpdate == [report |-> 0, action |-> "none"]

(* A new report: a draft, with a narrative the service wrote.              *)
Generated(type, alert) ==
  [type |-> type, alert |-> alert, status |-> "draft", narrative |-> "drafted", filed |-> FALSE]

ReportsShown == reportList.copy
ReportFilters == {"all", "draft"}

(* filteredReports; the filter by type narrows the rows the same way.      *)
FilteredReports ==
  {i \in DOMAIN ReportsShown : reportList.filter \in {"all", ReportsShown[i].status}}

(* The stages of the pipeline and the tiles that count the same reports;   *)
(* what has gone to AUSTRAC counts as submitted whatever became of it.     *)
InStage(report, stage) ==
  \/ report.status = stage
  \/ stage = "submitted" /\ report.filed
Pipeline ==
  [s \in {"draft", "pending_approval", "approved", "submitted"} |->
     Cardinality({i \in DOMAIN ReportsShown : InStage(ReportsShown[i], s)})]
TypeCounts ==
  [t \in ReportTypes |-> Cardinality({i \in DOMAIN ReportsShown : ReportsShown[i].type = t})]

(* ReportQueueStatus: the first three drafts and the first five reports    *)
(* approved or submitted.                                                  *)
QueueOf(statuses, n) ==
  LET those == {i \in DOMAIN ReportsShown : ReportsShown[i].status \in statuses}
  IN  {i \in those : Cardinality({j \in those : j < i}) < n}
GenerationQueue == QueueOf({"draft"}, 3)
RecentCompletions == QueueOf({"approved", "submitted"}, 5)

(* The step of the timeline a status stands at, 0 for one that is not a    *)
(* step, and the steps ticked as completed.                                *)
StepOf(status) ==
  CASE status = "draft" -> 1 [] status = "pending_approval" -> 2
    [] status = "approved" -> 3 [] status = "submitted" -> 4 [] OTHER -> 0
CompletedSteps(status) == 1..StepOf(status)

(* The report the dialog compares with: the next one of its type.          *)
PreviousReport(r) ==
  LET older == {i \in DOMAIN ReportsShown : i > r /\ ReportsShown[i].type = ReportsShown[r].type}
  IN  IF older = {} THEN 0 ELSE CHOOSE i \in older : \A j \in older : i <= j

\* Bug: Submit is there while the approval is pending.
DetailActionsEarly(status) ==
  CASE status = "draft" -> {"approve"}
    [] status \in {"pending_approval", "approved"} -> {"submit"}
    [] OTHER -> {}

(* The buttons of the dialog, by the status it shows.                      *)
DetailActions(status) ==
  CASE status \in {"draft", "pending_approval"} -> {"approve"}
    [] status = "approved" -> {"submit"}
    [] OTHER -> {}
-----------------------------------------------------------------------------
(* useReportsList and the list                                             *)

ReportsAnswered ==
  /\ reportList.asked
  /\ reportList' = [reportList EXCEPT !.copy = reports, !.asked = FALSE]
  /\ reportBehind' = FALSE
  /\ UNCHANGED <<reports, wizard, generateCall, detail, updateCall>>

ReportsFetchFailed ==
  /\ reportList.asked
  /\ reportList' = [reportList EXCEPT !.asked = FALSE]
  /\ reportBehind' = TRUE
  /\ UNCHANGED <<reports, wizard, generateCall, detail, updateCall>>

(* An officer elsewhere approves a report, or AUSTRAC acknowledges one.    *)
ReportMovesElsewhere ==
  /\ \E i \in DOMAIN reports :
       \/ /\ reports[i].status \in {"draft", "pending_approval"}
          /\ reports' = [reports EXCEPT ![i].status = "approved"]
       \/ /\ reports[i].status = "draft"
          /\ reports' = [reports EXCEPT ![i].status = "pending_approval"]
       \/ /\ reports[i].status = "submitted"
          /\ reports' = [reports EXCEPT ![i].status = "acknowledged"]
  /\ reportBehind' = TRUE
  /\ UNCHANGED <<reportList, wizard, generateCall, detail, updateCall>>

FilterReports ==
  /\ wizard = NoWizard /\ detail = NoDetail
  /\ \E f \in ReportFilters : reportList' = [reportList EXCEPT !.filter = f]
  /\ UNCHANGED <<reports, wizard, generateCall, detail, updateCall, reportBehind>>

(* Another section is chosen, and this one again: with a key also while a  *)
(* dialog is open.  Requests go on, but belong to a section that is gone.  *)
LeaveReporting ==
  /\ reportList' = [reportList EXCEPT !.asked = TRUE, !.filter = "all"]
  /\ wizard' = NoWizard
  /\ detail' = NoDetail
  /\ generateCall' = [generateCall EXCEPT !.here = FALSE]
  /\ UNCHANGED <<reports, updateCall, reportBehind>>
-----------------------------------------------------------------------------
(* GenerateReportWizard                                                    *)

OpenWizard ==
  /\ wizard = NoWizard /\ detail = NoDetail
  /\ wizard' = [NoWizard EXCEPT !.step = 1]
  /\ UNCHANGED <<reports, reportList, generateCall, detail, updateCall, reportBehind>>

CloseWizard ==
  /\ wizard # NoWizard
  /\ wizard' = NoWizard
  /\ UNCHANGED <<reports, reportList, generateCall, detail, updateCall, reportBehind>>

(* A type is chosen, an alert is linked to an SMR, Next and Back.          *)
StepWizard ==
  /\ \/ /\ wizard.step = 1
        /\ \E t \in ReportTypes : wizard' = [wizard EXCEPT !.type = t]
     \/ /\ wizard.step = 2 /\ wizard.type = "SMR"
        /\ wizard' = [wizard EXCEPT !.alert = TRUE]
     \/ /\ wizard.step \in {1, 2} /\ wizard.type # "none"
        /\ wizard' = [wizard EXCEPT !.step = @ + 1]
     \/ /\ wizard.step \in {2, 3}
        /\ wizard' = [wizard EXCEPT !.step = @ - 1]
  /\ UNCHANGED <<reports, reportList, generateCall, detail, updateCall, reportBehind>>

\* Bug: the alert goes along whatever the type is by now.
GenerateLinked ==
  /\ wizard.step = 3
  /\ generateCall = NoGenerate
  /\ generateCall' = [type |-> wizard.type, alert |-> wizard.alert, here |-> TRUE]
  /\ UNCHANGED <<reports, reportList, wizard, detail, updateCall, reportBehind>>

(* handleGenerate up to its await: the alert goes along with an SMR only.  *)
Generate ==
  /\ wizard.step = 3
  /\ generateCall = NoGenerate
  /\ generateCall' =
       [type |-> wizard.type, alert |-> wizard.alert /\ wizard.type = "SMR", here |-> TRUE]
  /\ UNCHANGED <<reports, reportList, wizard, detail, updateCall, reportBehind>>

(* ... and after it: onClose belongs to the section that was on screen at  *)
(* the click, and closes the wizard open in it by then.                    *)
GenerateSettled ==
  /\ generateCall # NoGenerate
  /\ \/ /\ Len(reports) < MaxReports
        /\ reports' = Append(reports, Generated(generateCall.type, generateCall.alert))
        /\ reportList' = [reportList EXCEPT !.asked = TRUE]
        /\ wizard' = IF generateCall.here THEN NoWizard ELSE wizard
     \/ UNCHANGED <<reports, reportList, wizard>>
  /\ generateCall' = NoGenerate
  /\ UNCHANGED <<detail, updateCall, reportBehind>>
-----------------------------------------------------------------------------
(* ReportDetail                                                            *)

(* View and the buttons of an expanded row.  The text field starts with    *)
(* the narrative of the copy on screen.                                    *)
OpenDetail ==
  /\ wizard = NoWizard /\ detail = NoDetail
  /\ \E r \in FilteredReports :
       detail' = [report |-> r, narrative |-> ReportsShown[r].narrative, compare |-> FALSE]
  /\ UNCHANGED <<reports, reportList, wizard, generateCall, updateCall, reportBehind>>

CloseDetail ==
  /\ detail # NoDetail
  /\ detail' = NoDetail
  /\ UNCHANGED <<reports, reportList, wizard, generateCall, updateCall, reportBehind>>

(* The text field, kept in the dialog alone, and the comparison.           *)
EditDetail ==
  /\ detail # NoDetail
  /\ \/ \E n \in Narratives : detail' = [detail EXCEPT !.narrative = n]
     \/ /\ PreviousReport(detail.report) # 0
        /\ detail' = [detail EXCEPT !.compare = ~@]
  /\ UNCHANGED <<reports, reportList, wizard, generateCall, updateCall, reportBehind>>

(* handleApprove and handleSubmit up to the await: the action, and nothing *)
(* of what was typed.  The next update waits for the answer: only a dialog *)
(* closed and opened again could send one before.                          *)
UpdateReport ==
  /\ detail # NoDetail
  /\ updateCall = NoUpdate
  /\ \E action \in DetailActions(ReportsShown[detail.report].status) :
       updateCall' = [report |-> detail.report, action |-> action]
  /\ UNCHANGED <<reports, reportList, wizard, generateCall, detail, reportBehind>>

(* What the server makes of an action; a submission may fail there.        *)
Applied(report, action) ==
  CASE action = "approve" -> {[report EXCEPT !.status = "approved"]}
    [] action = "submit"  -> {[report EXCEPT !.status = "submitted", !.filed = TRUE],
                              [report EXCEPT !.status = "failed"]}

(* The server refuses an approval that comes late and a second submission. *)
Acceptable(report, action) ==
  CASE action = "approve" -> report.status \in {"draft", "pending_approval", "approved"}
    [] action = "submit"  -> ~report.filed

UpdateSettled ==
  /\ updateCall # NoUpdate
  /\ \/ /\ Acceptable(reports[updateCall.report], updateCall.action)
        /\ \E r \in Applied(reports[updateCall.report], updateCall.action) :
             reports' = [reports EXCEPT ![updateCall.report] = r]
        /\ reportList' = [reportList EXCEPT !.asked = TRUE]
     \/ UNCHANGED <<reports, reportList>>
  /\ updateCall' = NoUpdate
  /\ UNCHANGED <<wizard, generateCall, detail, reportBehind>>
-----------------------------------------------------------------------------
ReportingInit ==
  /\ reports = <<Generated("SMR", FALSE)>>
  /\ reportList = [copy |-> << >>, asked |-> TRUE, filter |-> "all"]
  /\ wizard = NoWizard
  /\ generateCall = NoGenerate
  /\ detail = NoDetail
  /\ updateCall = NoUpdate
  /\ reportBehind = FALSE

ReportingNext ==
  \/ ReportsAnswered
  \/ ReportsFetchFailed
  \/ ReportMovesElsewhere
  \/ FilterReports
  \/ LeaveReporting
  \/ OpenWizard
  \/ CloseWizard
  \/ StepWizard
  \/ Generate
  \/ GenerateSettled
  \/ OpenDetail
  \/ CloseDetail
  \/ EditDetail
  \/ UpdateReport
  \/ UpdateSettled

ReportingSpec == ReportingInit /\ [][ReportingNext]_reportVars
-----------------------------------------------------------------------------
(* Properties                                                              *)

ReportingTypeOK ==
  /\ \A i \in DOMAIN reports : reports[i].status \in ReportStatuses
  /\ Len(ReportsShown) <= Len(reports)
  /\ wizard.step \in 0..3
  /\ detail.report \in 0..Len(ReportsShown)
  /\ updateCall.report \in 0..Len(reports)

(* "... require compliance officer approval before submission to AUSTRAC": *)
(* however far behind the list is, what this console files has been        *)
(* approved.                                                               *)
ApprovedBeforeFiled ==
  [][\A i \in DOMAIN reports :
       (~reports[i].filed /\ reports'[i].filed) => reports[i].status \in {"approved", "failed"}]_reportVars

(* Only an SMR is linked to an alert, also when the alert was chosen for   *)
(* an SMR and the type changed afterwards.                                 *)
OnlySmrLinked == \A i \in DOMAIN reports : reports[i].alert => reports[i].type = "SMR"

(* The list is the server's once nothing is being fetched, unless someone  *)
(* elsewhere has written since.                                            *)
ReportsFresh == (~reportList.asked /\ ~reportBehind) => ReportsShown = reports

(* The pipeline counts every report once, except those whose submission    *)
(* failed, which it does not show at all.                                  *)
PipelineCounts ==
  Pipeline["draft"] + Pipeline["pending_approval"] + Pipeline["approved"] + Pipeline["submitted"]
    = Cardinality({i \in DOMAIN ReportsShown : ReportsShown[i].status # "failed"})
=============================================================================
