----------------------------- MODULE Monitoring -----------------------------
(***************************************************************************)
(* TransactionMonitoringSection.tsx: three tabs, of which only the one     *)
(* that is chosen is mounted.  They share no state but what the server     *)
(* keeps, and no tab reads what another writes; a behaviour stays with one *)
(* tab, which may be left for another and chosen again.                    *)
(***************************************************************************)
EXTENDS AlertsTab, TransactionsTab, RulesTab

VARIABLE tab  \* the tab on screen

monitoringVars == <<tab, alertVars, txVars, ruleVars>>

MonitoringInit ==
  /\ tab \in {"transactions", "rules", "alerts"}
  /\ AlertsInit
  /\ TxInit
  /\ RulesInit

MonitoringNext ==
  \/ tab = "alerts" /\ AlertsNext /\ UNCHANGED <<tab, txVars, ruleVars>>
  \/ tab = "transactions" /\ TxNext /\ UNCHANGED <<tab, alertVars, ruleVars>>
  \/ tab = "rules" /\ RulesNext /\ UNCHANGED <<tab, alertVars, txVars>>

MonitoringSpec == MonitoringInit /\ [][MonitoringNext]_monitoringVars
=============================================================================
