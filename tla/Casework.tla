------------------------------ MODULE Casework ------------------------------
(***************************************************************************)
(* The sections of page.tsx in which an officer works cases off: clients   *)
(* on their way in, investigations, the tasks of the compliance calendar,  *)
(* and the reports to AUSTRAC.  page.tsx renders one section at a time and *)
(* unmounts the others, and no section reads what another one shows; a     *)
(* behaviour stays with one section, which may be left and opened again.   *)
(***************************************************************************)
EXTENDS ClientOnboarding, CaseManagement, ComplianceTasks, Reporting

VARIABLE caseworkSection  \* the section on screen

caseworkVars == <<caseworkSection, clientVars, caseVars, taskVars, reportVars>>

CaseworkInit ==
  /\ caseworkSection \in {"onboarding", "cases", "tasks", "reporting"}
  /\ ClientsInit /\ CasesInit /\ TasksInit /\ ReportingInit
  \* what a section that is not looked at starts with does not matter
  /\ caseworkSection # "tasks" => tasks[1].due = 0

CaseworkNext ==
  \/ /\ caseworkSection = "onboarding" /\ ClientsNext
     /\ UNCHANGED <<caseworkSection, caseVars, taskVars, reportVars>>
  \/ /\ caseworkSection = "cases" /\ CasesNext
     /\ UNCHANGED <<caseworkSection, clientVars, taskVars, reportVars>>
  \/ /\ caseworkSection = "tasks" /\ TasksNext
     /\ UNCHANGED <<caseworkSection, clientVars, caseVars, reportVars>>
  \/ /\ caseworkSection = "reporting" /\ ReportingNext
     /\ UNCHANGED <<caseworkSection, clientVars, caseVars, taskVars>>

CaseworkSpec == CaseworkInit /\ [][CaseworkNext]_caseworkVars
-----------------------------------------------------------------------------
(* Every section keeps its types, and what it shows and waits for is about *)
(* records that there are.                                                 *)
CaseworkTypeOK == ClientsTypeOK /\ CasesTypeOK /\ TasksTypeOK /\ ReportingTypeOK

(* Cases and reports on screen are the server's once their answers are in, *)
(* unless somebody elsewhere has written since.                            *)
CaseworkFresh == CasesFresh /\ ReportsFresh

(* What the sections tell of a record is so of every record: a client is   *)
(* under one filter, a report in one stage, and no step is ticked that the *)
(* case has not done.                                                      *)
CaseworkTold == FiltersPartition /\ PipelineCounts /\ ProgressNotAhead

(* Clicks on a copy that is behind: a second case is started, or a closed  *)
(* case reopened, only in the windows the two sections leave open.         *)
StaleClicksLimited == SecondCaseOnStaleList /\ ReopenedUnawares
=============================================================================
