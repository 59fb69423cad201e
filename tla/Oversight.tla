------------------------------ MODULE Oversight -----------------------------
(***************************************************************************)
(* The sections and the panel of page.tsx from which the programme is run: *)
(* the transaction monitor, the document engine, the settings, and the     *)
(* sanctions panel beside whichever section is on screen.  None reads what *)
(* another one shows; a behaviour stays with one of them.                  *)
(***************************************************************************)
EXTENDS Monitoring, DocumentEngine, Settings, SanctionsScreening

VARIABLE oversightSection  \* the section, or the panel, looked at

oversightVars ==
  <<oversightSection, monitoringVars, docVars, settingsVars, sanctionsVars>>

OversightInit ==
  /\ oversightSection \in {"transactions", "documents", "settings", "sanctions"}
  /\ MonitoringInit /\ DocumentsInit /\ SettingsInit /\ SanctionsInit
  \* the tab of a section that is not looked at does not matter
  /\ oversightSection # "transactions" => tab = "alerts"
  /\ oversightSection # "settings" => settingsTab = "log"

OversightNext ==
  \/ /\ oversightSection = "transactions" /\ MonitoringNext
     /\ UNCHANGED <<oversightSection, docVars, settingsVars, sanctionsVars>>
  \/ /\ oversightSection = "documents" /\ DocumentsNext
     /\ UNCHANGED <<oversightSection, monitoringVars, settingsVars, sanctionsVars>>
  \/ /\ oversightSection = "settings" /\ SettingsNext
     /\ UNCHANGED <<oversightSection, monitoringVars, docVars, sanctionsVars>>
  \/ /\ oversightSection = "sanctions" /\ SanctionsNext
     /\ UNCHANGED <<oversightSection, monitoringVars, docVars, settingsVars>>

OversightSpec == OversightInit /\ [][OversightNext]_oversightVars
-----------------------------------------------------------------------------
(* Every section and tab keeps its types, and what it shows and waits for  *)
(* is about records that there are.                                        *)
OversightTypeOK ==
  /\ AlertsTypeOK /\ TxTypeOK /\ RulesTypeOK
  /\ DocumentsTypeOK
  /\ FormsTypeOK /\ IntegrationsTypeOK /\ UsersTypeOK /\ HealthTypeOK /\ LogTypeOK
  /\ SanctionsTypeOK

(* What is on screen is the server's once its answers are in, unless       *)
(* somebody elsewhere has written since: every update is heard of.         *)
OversightFresh ==
  AlertsFresh /\ RulesFresh /\ DocumentsFresh /\ ProvidersFresh /\ StatusesTrue

(* Nothing that was loaded is lost on its way to the screen: to a border   *)
(* of the histogram's bands, to the time zone of a date, to a condition    *)
(* that is skipped, to the ring of the change log or a cutoff of its list. *)
NothingUntold ==
  AlertsAllCounted /\ TxDateWindow /\ RulesTold /\ NewestWithoutGap /\ ListHoldsLastDay

(* No list is left empty by its own buttons and filters, or said to be     *)
(* empty when it is not, but in the cases the three sections state.        *)
PagesExist ==
  AlertPageExists /\ TxPageExists /\ NothingYetIsTrue /\ StrandedByStatusOnly
=============================================================================
