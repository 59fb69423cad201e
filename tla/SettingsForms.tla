---------------------------- MODULE SettingsForms ----------------------------
(***************************************************************************)
(* The tabs of SettingsSection.tsx whose values live in localStorage: risk *)
(* configuration, notification preferences, data retention, compliance     *)
(* policy and role permissions.                                            *)
(*                                                                         *)
(* localStorage is shared by the browser windows the console is open in.   *)
(* A tab reads its settings when it is mounted, edits a draft, and writes  *)
(* every one of them on Save, changed or not.  Tabs have settings of their *)
(* own, so one tab, open in every window, is looked at per behaviour.  Two *)
(* settings stand for those of a tab; FALSE is the default of each.        *)
(***************************************************************************)
EXTENDS Naturals

CONSTANT Windows \* browser windows with the console open

ASSUME WindowsAssumption == 0 \notin Windows

VARIABLES
  form,     \* the tab looked at
  stored,   \* localStorage
  draft,    \* what the tab shows in each window
  changed,  \* hasChanges of each window
  base,     \* for the properties: what each window last read or wrote
  outdated, \* for the properties: another window wrote since this one read
  refused,  \* for the properties: a write of this window failed
  writer    \* for the properties: the window that wrote last, 0 for none

formVars == <<form, stored, draft, changed, base, outdated, refused, writer>>

RiskKeys == {"riskAppetite", "autoEscalation"}
NotificationKeys == {"quietHoursEnabled", "quietHoursStart"}
RetentionKeys == {"retentionYears", "lastPurgeDate"}
PolicyKeys == {"cddLevel", "smrDeadline"}
RoleKeys == {"Approve Reports", "Manage Users"}
SettingKeys ==
  [risk |-> RiskKeys, notifications |-> NotificationKeys, retention |-> RetentionKeys,
   policy |-> PolicyKeys, roles |-> RoleKeys]
Defaults == [k \in SettingKeys[form] |-> FALSE]

Edited(w, k) == [draft EXCEPT ![w][k] = ~@]

(* setSetting for each of keys, with the values of shown.  A write that    *)
(* throws is ignored and reported as saved.                                *)
WriteFrom(w, shown, keys) ==
  \E kept \in SUBSET keys :
    /\ stored' = [k \in DOMAIN stored |-> IF k \in kept THEN shown[k] ELSE stored[k]]
    /\ base' = [base EXCEPT ![w] = [k \in DOMAIN stored |-> IF k \in kept THEN shown[k] ELSE @[k]]]
    /\ outdated' = [v \in Windows |-> outdated[v] \/ (v # w /\ kept # {})]
    /\ refused' = [refused EXCEPT ![w] = @ \/ kept # keys]
    /\ writer' = IF kept = {} THEN writer ELSE w

Save(w, keys) == WriteFrom(w, draft[w], keys) /\ UNCHANGED <<form, draft>>

Unwritten == UNCHANGED <<form, stored, base, outdated, refused, writer>>
-----------------------------------------------------------------------------
(* The tab is left and opened again, or the window reloaded: getSetting.   *)
OpenForm(w) ==
  /\ draft' = [draft EXCEPT ![w] = stored]
  /\ base' = [base EXCEPT ![w] = stored]
  /\ changed' = [changed EXCEPT ![w] = FALSE]
  /\ outdated' = [outdated EXCEPT ![w] = FALSE]
  /\ refused' = [refused EXCEPT ![w] = FALSE]
  /\ UNCHANGED <<form, stored, writer>>

(* RiskConfigurationTab: Save is disabled until something was changed.     *)
EditRisk(w) ==
  /\ form = "risk"
  /\ \E k \in RiskKeys : draft' = Edited(w, k)
  /\ changed' = [changed EXCEPT ![w] = TRUE]
  /\ Unwritten

ResetRisk(w) ==
  /\ form = "risk"
  /\ draft' = [draft EXCEPT ![w] = Defaults]
  /\ changed' = [changed EXCEPT ![w] = TRUE]
  /\ Unwritten

SaveRisk(w) ==
  /\ form = "risk"
  /\ changed[w]
  /\ Save(w, RiskKeys)
  /\ changed' = [changed EXCEPT ![w] = FALSE]

(* NotificationPreferencesTab: the hours are there while quiet hours are.  *)
EditNotifications(w) ==
  /\ form = "notifications"
  /\ \/ draft' = Edited(w, "quietHoursEnabled")
     \/ draft[w]["quietHoursEnabled"] /\ draft' = Edited(w, "quietHoursStart")
  /\ UNCHANGED changed
  /\ Unwritten

\* Bug: the hours are stored as they are shown, which they are not without quiet hours.
SaveNotificationsShown(w) ==
  /\ form = "notifications"
  /\ WriteFrom(w, [draft[w] EXCEPT !["quietHoursStart"] = @ /\ draft[w]["quietHoursEnabled"]],
               NotificationKeys)
  /\ UNCHANGED <<form, draft, changed>>

SaveNotifications(w) ==
  /\ form = "notifications"
  /\ Save(w, NotificationKeys)
  /\ UNCHANGED changed

(* DataRetentionTab: the purge date is not part of the draft.              *)
EditRetention(w) ==
  /\ form = "retention"
  /\ draft' = Edited(w, "retentionYears")
  /\ UNCHANGED changed
  /\ Unwritten

SaveRetention(w) ==
  /\ form = "retention"
  /\ Save(w, RetentionKeys \ {"lastPurgeDate"})
  /\ UNCHANGED changed

(* handlePurgeNow stores the date, and the tab shows the one it read.      *)
SimulatePurge(w) ==
  /\ form = "retention"
  /\ WriteFrom(w, [draft[w] EXCEPT !["lastPurgeDate"] = TRUE], {"lastPurgeDate"})
  /\ UNCHANGED <<form, draft, changed>>

(* CompliancePolicyConfigTab.                                              *)
EditPolicy(w) ==
  /\ form = "policy"
  /\ \E k \in PolicyKeys : draft' = Edited(w, k)
  /\ UNCHANGED changed
  /\ Unwritten

ResetPolicy(w) ==
  /\ form = "policy"
  /\ draft' = [draft EXCEPT ![w] = Defaults]
  /\ UNCHANGED changed
  /\ Unwritten

SavePolicy(w) ==
  /\ form = "policy"
  /\ Save(w, PolicyKeys)
  /\ UNCHANGED changed

\* Bug: the ticks of the last render are stored.
WriteRolesBefore(w, ticks) ==
  /\ draft' = [draft EXCEPT ![w] = ticks]
  /\ stored' = draft[w]
  /\ base' = [base EXCEPT ![w] = draft[w]]
  /\ outdated' = [v \in Windows |-> outdated[v] \/ v # w]
  /\ writer' = w
  /\ UNCHANGED <<form, changed, refused>>

(* RolePermissionsMatrix: all ticks are one setting, which a tick writes.  *)
WriteRoles(w, ticks) ==
  /\ draft' = [draft EXCEPT ![w] = ticks]
  /\ \/ /\ stored' = ticks
        /\ base' = [base EXCEPT ![w] = ticks]
        /\ outdated' = [v \in Windows |-> outdated[v] \/ v # w]
        /\ writer' = w
        /\ UNCHANGED refused
     \/ /\ refused' = [refused EXCEPT ![w] = TRUE]
        /\ UNCHANGED <<stored, base, outdated, writer>>
  /\ UNCHANGED <<form, changed>>

TogglePermission(w) ==
  /\ form = "roles"
  /\ \E k \in RoleKeys : WriteRoles(w, [draft[w] EXCEPT ![k] = ~@])

ResetPermissions(w) == form = "roles" /\ WriteRoles(w, Defaults)

SavePermissions(w) == form = "roles" /\ WriteRoles(w, draft[w])
-----------------------------------------------------------------------------
FormsInit ==
  /\ form \in DOMAIN SettingKeys
  /\ stored = Defaults
  /\ draft = [w \in Windows |-> Defaults]
  /\ changed = [w \in Windows |-> FALSE]
  /\ base = draft
  /\ outdated = changed
  /\ refused = changed
  /\ writer = 0

FormsNext ==
  \E w \in Windows :
    \/ OpenForm(w)
    \/ EditRisk(w)
    \/ ResetRisk(w)
    \/ SaveRisk(w)
    \/ EditNotifications(w)
    \/ SaveNotifications(w)
    \/ EditRetention(w)
    \/ SaveRetention(w)
    \/ SimulatePurge(w)
    \/ EditPolicy(w)
    \/ ResetPolicy(w)
    \/ SavePolicy(w)
    \/ TogglePermission(w)
    \/ ResetPermissions(w)
    \/ SavePermissions(w)

FormsSpec == FormsInit /\ [][FormsNext]_formVars
-----------------------------------------------------------------------------
(* Properties                                                              *)

FormsTypeOK ==
  /\ stored \in [SettingKeys[form] -> BOOLEAN]
  /\ draft \in [Windows -> [SettingKeys[form] -> BOOLEAN]]
  /\ base \in [Windows -> [SettingKeys[form] -> BOOLEAN]]
  /\ {changed, outdated, refused} \subseteq [Windows -> BOOLEAN]
  /\ writer \in Windows \union {0}

(* The risk tab offers to save whenever its draft differs from what the    *)
(* window read or wrote last, unless a write failed unnoticed.             *)
UnsavedIsOffered ==
  form = "risk" => \A w \in Windows : changed[w] \/ refused[w] \/ draft[w] = base[w]

(* Saving a tab does not touch a setting the officer left alone, unless    *)
(* another window has saved since the tab was opened: what that window     *)
(* saved is then undone.  The purge date is what it is set for.            *)
LeftAloneKept ==
  [][\A w \in Windows, k \in SettingKeys[form] :
       (writer' = w /\ stored'[k] # stored[k] /\ k # "lastPurgeDate")
         => (draft'[w][k] # base[w][k] \/ outdated[w])]_formVars

(* The matrix of the window that wrote last is the one in force.           *)
LastTickInForce ==
  form = "roles" => \A w \in Windows : writer = w /\ ~refused[w] => draft[w] = stored

(* What a tab says of its draft is so: the risk tab that it is saved, and  *)
(* the matrix, which has no button, that it is in force.                   *)
DraftsAreHonest == UnsavedIsOffered /\ LastTickInForce
=============================================================================
