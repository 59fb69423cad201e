--------------------------- MODULE UserManagement ---------------------------
(***************************************************************************)
(* The Users tab of SettingsSection.tsx: a list kept in the memory of the  *)
(* tab alone.  Leaving the tab loses it.  Search and department are left   *)
(* out: the search narrows the rows as the role does.                      *)
(***************************************************************************)
EXTENDS Naturals, FiniteSets, Sequences

CONSTANTS
  Roles,   \* ROLES of the form and the filter
  MaxUsers \* bound on users

ASSUME UsersAssumption == Roles # {} /\ "all" \notin Roles /\ MaxUsers \in Nat

VARIABLES
  users,    \* users, newest first
  userView, \* roleFilter, showAddForm, showPermissions
  newUser   \* what the form holds: whether name and mail are typed, and the role

userVars == <<users, userView, newUser>>

BlankUser == [typed |-> FALSE, role |-> CHOOSE r \in Roles : TRUE]
UsersWith(test(_)) == {i \in DOMAIN users : test(users[i])}

(* filteredUsers, activeCount, mfaCount and the tile of the roles.         *)
FilteredUsers(role) == UsersWith(LAMBDA u : role \in {"all", u.role})
UserTiles ==
  [total  |-> Len(users),
   active |-> Cardinality(UsersWith(LAMBDA u : u.status = "active")),
   mfa    |-> Cardinality(UsersWith(LAMBDA u : u.mfa)),
   roles  |-> Cardinality({users[i].role : i \in DOMAIN users})]
-----------------------------------------------------------------------------
(* The form and the role filter, which are there in the list of users.     *)
TypeUser ==
  /\ userView.adding
  /\ newUser' \in [typed : BOOLEAN, role : Roles]
  /\ UNCHANGED <<users, userView>>

ShowUsers ==
  /\ \/ userView' = [userView EXCEPT !.permissions = ~@]
     \/ /\ ~userView.permissions
        /\ \/ \E r \in Roles \union {"all"} : userView' = [userView EXCEPT !.role = r]
           \/ userView' = [userView EXCEPT !.adding = ~@]
  /\ UNCHANGED <<users, newUser>>

\* Bug: a user is added as invited, which no menu knows.
AddUserInvited ==
  /\ userView.adding /\ ~userView.permissions
  /\ newUser.typed
  /\ Len(users) < MaxUsers
  /\ users' = <<[role |-> newUser.role, status |-> "invited", mfa |-> FALSE]>> \o users
  /\ newUser' = BlankUser
  /\ userView' = [userView EXCEPT !.adding = FALSE]

(* handleAddUser.                                                          *)
AddUser ==
  /\ userView.adding /\ ~userView.permissions
  /\ newUser.typed
  /\ Len(users) < MaxUsers
  /\ users' = <<[role |-> newUser.role, status |-> "active", mfa |-> FALSE]>> \o users
  /\ newUser' = BlankUser
  /\ userView' = [userView EXCEPT !.adding = FALSE]

(* The menu of a row: handleToggleStatus, handleToggleMFA.                 *)
ToggleUser ==
  /\ ~userView.permissions
  /\ \E i \in FilteredUsers(userView.role) :
       \/ users' = [users EXCEPT ![i].status = IF @ = "active" THEN "suspended" ELSE "active"]
       \/ users' = [users EXCEPT ![i].mfa = ~@]
  /\ UNCHANGED <<userView, newUser>>

LeaveUsers ==
  /\ users' = << >>
  /\ userView' = [role |-> "all", adding |-> FALSE, permissions |-> FALSE]
  /\ newUser' = BlankUser
-----------------------------------------------------------------------------
UsersInit ==
  /\ users = << >>
  /\ userView = [role |-> "all", adding |-> FALSE, permissions |-> FALSE]
  /\ newUser = BlankUser

UsersNext == TypeUser \/ ShowUsers \/ AddUser \/ ToggleUser \/ LeaveUsers

UsersSpec == UsersInit /\ [][UsersNext]_userVars
-----------------------------------------------------------------------------
(* Properties                                                              *)

UsersTypeOK ==
  /\ users \in Seq([role : Roles, status : {"active", "suspended"}, mfa : BOOLEAN])
  /\ userView \in [role : Roles \union {"all"}, adding : BOOLEAN, permissions : BOOLEAN]
  /\ newUser \in [typed : BOOLEAN, role : Roles]
=============================================================================
