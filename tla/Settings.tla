------------------------------ MODULE Settings ------------------------------
(***************************************************************************)
(* SettingsSection.tsx: its tabs.  Tabs keep nothing in common but the     *)
(* change log of the governance service, which Integrations, Users and the *)
(* forms are said to write; a tab is unmounted when another is chosen, so  *)
(* that one tab, left and opened again, is looked at per behaviour.        *)
(***************************************************************************)
EXTENDS SettingsForms, Integrations, UserManagement, SystemHealth, ChangeLog

VARIABLE settingsTab \* the tab looked at

settingsVars == <<settingsTab, formVars, providerVars, userVars, healthVars, logVars>>

SettingsInit ==
  /\ settingsTab \in {"forms", "integrations", "users", "health", "log"}
  /\ FormsInit /\ IntegrationsInit /\ UsersInit /\ HealthInit /\ LogInit
  \* what a tab that is not looked at starts with does not matter
  /\ settingsTab # "forms" => form = "risk"
  /\ settingsTab # "integrations" => providers = [p \in Providers |-> "connected"]

SettingsNext ==
  \/ /\ settingsTab = "forms" /\ FormsNext
     /\ UNCHANGED <<settingsTab, providerVars, userVars, healthVars, logVars>>
  \/ /\ settingsTab = "integrations" /\ IntegrationsNext
     /\ UNCHANGED <<settingsTab, formVars, userVars, healthVars, logVars>>
  \/ /\ settingsTab = "users" /\ UsersNext
     /\ UNCHANGED <<settingsTab, formVars, providerVars, healthVars, logVars>>
  \/ /\ settingsTab = "health" /\ HealthNext
     /\ UNCHANGED <<settingsTab, formVars, providerVars, userVars, logVars>>
  \/ /\ settingsTab = "log" /\ LogNext
     /\ UNCHANGED <<settingsTab, formVars, providerVars, userVars, healthVars>>

SettingsSpec == SettingsInit /\ [][SettingsNext]_settingsVars
=============================================================================
