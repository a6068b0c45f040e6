------------------------------ MODULE Accounts ------------------------------
(***************************************************************************)
(* The tables of accounts, of their roles in projects and of login         *)
(* sessions (UserRepo), and the counters of failed logins, which each      *)
(* server keeps in memory.  Every operator below is one statement of the   *)
(* database, or one call on the counters; what a request does with them is *)
(* in Console.                                                             *)
(*                                                                         *)
(* Passwords are left out: whether the one given is right is part of a     *)
(* request.  The projects that roles are about are those of the catalogue. *)
(***************************************************************************)
EXTENDS Catalogue

CONSTANTS
  User,
  Token,     \* the random tokens of sessions
  FailLimit  \* loginFailLimit

ASSUME FailLimitAssumption == FailLimit \in Nat \ {0}

VARIABLES
  account,   \* wf_users: does the row exist, is it enabled, is it an admin's
  role,      \* wf_user_projects: the role of a user in a project
  session,   \* wf_user_sessions: the user of a token
  fails      \* loginFails: failed logins by user

accountVars == <<account, role, session, fails>>

(* "none": never inserted; "deleted": soft, the user name stays taken. *)
Account == [row : {"none", "live", "deleted"}, on : BOOLEAN, admin : BOOLEAN]

(* The same for the rows of a binding: "unbound" is a soft delete. *)
Role == {"none", "unbound", "viewer", "editor"}

Bound == {"viewer", "editor"}

NoSession == {"new", "gone"}

AccountsTypeOK ==
  /\ account \in [User -> Account]
  /\ role \in [User -> [Project -> Role]]
  /\ session \in [Token -> NoSession \cup User]
  /\ fails \in [User -> 0 .. FailLimit]

-----------------------------------------------------------------------------
(* wf_users. *)

LiveUser(u) == account[u].row = "live"

(* status = 1 *)
Enabled(u) == LiveUser(u) /\ account[u].on

CreateUser(u, admin) ==
  /\ account[u].row = "none"
  /\ account' = [account EXCEPT ![u] = [row |-> "live", on |-> TRUE, admin |-> admin]]

(* The whole row is written; a user that is gone by then is no error. *)
UpdateUser(u, row) ==
  account' = IF LiveUser(u) THEN [account EXCEPT ![u] = row] ELSE account

DeleteUser(u) ==
  account' = IF LiveUser(u) THEN [account EXCEPT ![u].row = "deleted"] ELSE account

-----------------------------------------------------------------------------
(* wf_user_projects. *)

(* Mutant: the role is stored as it was given. *)
BindAsGiven(u, p, seen, given) ==
  role' = IF seen = "none" /\ role[u][p] # "none" THEN role
          ELSE [role EXCEPT ![u][p] = given]

(* BindProject after its read of the row, deleted ones included: a row of  *)
(* that role is left alone, one that exists is updated, and an insert that *)
(* another one preceded hits the unique index.                             *)
BindProject(u, p, seen, given) ==
  LET wanted == IF given = "" THEN "viewer" ELSE given
  IN  role' = IF seen = wanted \/ (seen = "none" /\ role[u][p] # "none") THEN role
              ELSE [role EXCEPT ![u][p] = wanted]

UnbindProject(u, p) ==
  role' = IF role[u][p] \in Bound THEN [role EXCEPT ![u][p] = "unbound"] ELSE role

(* The second statement of DeleteUser. *)
UnbindAll(u) ==
  role' = [role EXCEPT ![u] = [p \in Project |->
             IF role[u][p] \in Bound THEN "unbound" ELSE role[u][p]]]

ListProjectsByUser(u) == {p \in Project : role[u][p] \in Bound}

-----------------------------------------------------------------------------
(* wf_user_sessions. *)

CreateSession(t, u) ==
  /\ session[t] = "new"
  /\ session' = [session EXCEPT ![t] = u]

EndAll(T) == session' = [t \in Token |-> IF t \in T THEN "gone" ELSE session[t]]

DeleteSession(t) == EndAll({t} \cap {s \in Token : session[s] \in User})

DeleteUserSessions(u, keep) == EndAll({t \in Token \ keep : session[t] = u})

(* expires_at passes. *)
Expire(t) ==
  /\ session[t] \in User
  /\ EndAll({t})

-----------------------------------------------------------------------------
(* The counters of failed logins. *)

Blocked(u) == fails[u] >= FailLimit

CountFail(u) ==
  fails' = IF Blocked(u) THEN fails ELSE [fails EXCEPT ![u] = fails[u] + 1]

ResetFails(u) == fails' = [fails EXCEPT ![u] = 0]
=============================================================================
