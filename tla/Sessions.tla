------------------------------- MODULE Sessions -------------------------------
(***************************************************************************)
(* The sessions of one account: internal/customer's and, by handlers that  *)
(* differ in the tables only, internal/employee's.  Only an employee is    *)
(* invited (is_active is false until a password is set), has a role, which *)
(* its access tokens name and which may change, or is deleted.  Requests   *)
(* read and write in statements of their own and may stop after any of     *)
(* them; a change of password is a transaction that holds the account's    *)
(* row from its first statement on.                                        *)
(***************************************************************************)
EXTENDS NullValue, Naturals

CONSTANTS
  Devices,        \* bound: requests in flight
  RefreshTokens,  \* bound: refresh tokens ever issued
  ResetTokens,    \* bound: password reset tokens (invitations) ever sent
  MaxChanges,     \* bound: increments of the version; with the last, updates of the role end
  EmployeeRoles

ASSUME SessionAssumption ==
  /\ MaxChanges \in Nat
  /\ NULL \notin RefreshTokens \cup ResetTokens \cup Devices \cup EmployeeRoles

VARIABLES
  account,       \* the row: of an employee or a customer, is_active, password, deleted
  employeeRole,  \* role, which a customer's row does not have
  roleChanged,   \* for the properties: has it changed since the last increment?
  tokenVersion,  \* token_version
  changes,       \* for the properties: increments made
  access,        \* for the properties: the access tokens issued
  refreshToken,  \* refresh_tokens
  resetToken,    \* password_reset_tokens
  device,        \* per request: where it is and what it knows
  changing       \* the request whose transaction holds the row

rowVars == <<account, employeeRole, roleChanged>>
sessionVars ==
  <<rowVars, tokenVersion, changes, access, refreshToken, resetToken, device, changing>>

\* spent: revoked, used, expired or deleted, which no query tells apart.
TokenStates == {"unused", "live", "spent"}
RolesOrNone == EmployeeRoles \cup {NULL}
Resting == [at |-> "resting", token |-> NULL, version |-> 0, seen |-> {}, role |-> NULL]
Stages ==
  {"revoke", "reload", "leave", "invite", "send", "change", "commit", "issue",
   "keep", "write", "outdate", "bump"}

SessionTypeOK ==
  /\ account \in [staff : BOOLEAN, active : BOOLEAN, password : BOOLEAN, deleted : BOOLEAN]
  /\ employeeRole \in RolesOrNone
  /\ roleChanged \in BOOLEAN
  /\ tokenVersion \in 0..MaxChanges
  /\ changes \in 0..MaxChanges
  /\ access \in SUBSET [version : 0..tokenVersion, role : RolesOrNone]
  /\ refreshToken \in [RefreshTokens -> TokenStates]
  /\ resetToken \in [ResetTokens -> TokenStates]
  /\ device \in [Devices -> {Resting} \cup
       [at : Stages, token : RefreshTokens \cup ResetTokens \cup {NULL},
        version : 0..MaxChanges, seen : SUBSET RefreshTokens, role : RolesOrNone]]
  /\ changing \in Devices \cup {NULL}
  /\ \A d \in Devices : device[d].at = "commit" <=> changing = d

\* A customer has registered with a password or through Google without one; an
\* employee has been created with a password or has been invited.
SessionInit ==
  /\ \E staff, password \in BOOLEAN :
       account = [staff |-> staff, active |-> ~staff \/ password,
                  password |-> password, deleted |-> FALSE]
  /\ IF account.staff THEN employeeRole \in EmployeeRoles ELSE employeeRole = NULL
  /\ roleChanged = FALSE
  /\ tokenVersion = 0 /\ changes = 0 /\ access = {}
  /\ refreshToken = [t \in RefreshTokens |-> "unused"]
  /\ resetToken = [t \in ResetTokens |-> "unused"]
  /\ device = [d \in Devices |-> Resting]
  /\ changing = NULL

Moves(d, at, token, version, seen) ==
  device' = [device EXCEPT ![d] =
    [at |-> at, token |-> token, version |-> version, seen |-> seen, role |-> NULL]]
Takes(d, at, version, role) ==
  device' = [device EXCEPT ![d] =
    [at |-> at, token |-> NULL, version |-> version, seen |-> {}, role |-> role]]
Rests(d) == device' = [device EXCEPT ![d] = Resting]
AllSpent(token) == [t \in DOMAIN token |-> IF token[t] = "live" THEN "spent" ELSE token[t]]

-----------------------------------------------------------------------------
\* AuthMiddleware and EmployeeAuthMiddleware, for an access token's version.
AuthMiddleware(version) == version = tokenVersion /\ account.active /\ ~account.deleted

\* Login with the password, or the Google callback for who has none.
Login(d) ==
  /\ device[d] = Resting
  /\ account.active /\ ~account.deleted
  /\ account.staff => account.password
  /\ Takes(d, "issue", tokenVersion, employeeRole)
  /\ UNCHANGED <<rowVars, tokenVersion, changes, access, refreshToken, resetToken, changing>>

\* Mutant: issueTokens asks for the version once more.
IssueVersionOfNow(d, t) ==
  /\ device[d].at = "issue"
  /\ refreshToken[t] = "unused"
  /\ refreshToken' = [refreshToken EXCEPT ![t] = "live"]
  /\ access' = access \cup {[version |-> tokenVersion, role |-> device[d].role]}
  /\ Rests(d)
  /\ UNCHANGED <<rowVars, tokenVersion, changes, resetToken, changing>>

\* issueTokens, with the version and role read before.  The INSERT does not wait for a
\* change of the account's row.
issueTokens(d, t) ==
  /\ device[d].at = "issue"
  /\ refreshToken[t] = "unused"
  /\ refreshToken' = [refreshToken EXCEPT ![t] = "live"]
  /\ access' = access \cup {[version |-> device[d].version, role |-> device[d].role]}
  /\ Rests(d)
  /\ UNCHANGED <<rowVars, tokenVersion, changes, resetToken, changing>>

Refresh(d, t) ==
  /\ device[d] = Resting
  /\ refreshToken[t] = "live"
  /\ Moves(d, "revoke", t, 0, {})
  /\ UNCHANGED <<rowVars, tokenVersion, changes, access, refreshToken, resetToken, changing>>

Logout(d, t) ==
  /\ device[d] = Resting
  /\ refreshToken[t] = "live"
  /\ Moves(d, "leave", t, 0, {})
  /\ UNCHANGED <<rowVars, tokenVersion, changes, access, refreshToken, resetToken, changing>>

\* RevokeRefreshToken writes by the id read before.
RevokeRefreshToken(d) ==
  /\ device[d].at \in {"revoke", "leave"}
  /\ refreshToken' = [refreshToken EXCEPT ![device[d].token] = "spent"]
  /\ IF device[d].at = "revoke" THEN Moves(d, "reload", NULL, 0, {}) ELSE Rests(d)
  /\ UNCHANGED <<rowVars, tokenVersion, changes, access, resetToken, changing>>

\* Refresh reads the account after that; a deleted one gets no tokens.
RefreshReloads(d) ==
  /\ device[d].at = "reload"
  /\ IF account.deleted THEN Rests(d) ELSE Takes(d, "issue", tokenVersion, employeeRole)
  /\ UNCHANGED <<rowVars, tokenVersion, changes, access, refreshToken, resetToken, changing>>

-----------------------------------------------------------------------------
ForgotPassword(d) ==
  /\ device[d] = Resting
  /\ ~account.deleted
  /\ Moves(d, "send", NULL, 0, {})
  /\ UNCHANGED <<rowVars, tokenVersion, changes, access, refreshToken, resetToken, changing>>

\* ResendInvite, for an employee who is not active yet ...
ResendInvite(d) ==
  /\ device[d] = Resting
  /\ ~account.active /\ ~account.deleted
  /\ Moves(d, "invite", NULL, 0, {})
  /\ UNCHANGED <<rowVars, tokenVersion, changes, access, refreshToken, resetToken, changing>>

\* ... deletes the tokens sent before.
DeleteUnusedEmployeePasswordResetTokens(d) ==
  /\ device[d].at = "invite"
  /\ resetToken' = AllSpent(resetToken)
  /\ Moves(d, "send", NULL, 0, {})
  /\ UNCHANGED <<rowVars, tokenVersion, changes, access, refreshToken, changing>>

CreatePasswordResetToken(d, t) ==
  /\ device[d].at = "send"
  /\ resetToken[t] = "unused"
  /\ resetToken' = [resetToken EXCEPT ![t] = "live"]
  /\ Rests(d)
  /\ UNCHANGED <<rowVars, tokenVersion, changes, access, refreshToken, changing>>

ResetPassword(d, t) ==
  /\ device[d] = Resting
  /\ resetToken[t] = "live"
  /\ Moves(d, "change", t, 0, {})
  /\ UNCHANGED <<rowVars, tokenVersion, changes, access, refreshToken, resetToken, changing>>

\* ChangePassword is for who is signed in; it reads the account to compare the
\* password in use.
ChangePassword(d) ==
  /\ device[d] = Resting
  /\ account.password
  /\ \E t \in access : AuthMiddleware(t.version)
  /\ Moves(d, "change", NULL, tokenVersion, {})
  /\ UNCHANGED <<rowVars, tokenVersion, changes, access, refreshToken, resetToken, changing>>

\* The transaction of both has the row and revokes the refresh tokens it sees.
RevokeRefreshTokensByCustomerID(d) ==
  /\ device[d].at = "change"
  /\ changing = NULL
  /\ changing' = d
  /\ Moves(d, "commit", device[d].token, device[d].version,
           {t \in RefreshTokens : refreshToken[t] = "live"})
  /\ UNCHANGED <<rowVars, tokenVersion, changes, access, refreshToken, resetToken>>

\* Mutant: ChangePassword computes the new version from the account it has read.
NextVersionRead(d) ==
  (IF device[d].token = NULL THEN device[d].version ELSE tokenVersion) + 1

\* IncrementCustomerTokenVersion: token_version = token_version + 1.
NextVersion(d) == tokenVersion + 1

\* Mutant: the new password does not activate the account.
WithPasswordOnly == [account EXCEPT !.password = TRUE]

\* UpdateEmployeePassword sets is_active; a customer's is never false.
WithPassword == [account EXCEPT !.password = TRUE, !.active = TRUE]

\* The commit, after which the tokens of the new session are issued.
ChangeCommits(d) ==
  /\ device[d].at = "commit"
  /\ changes < MaxChanges
  /\ changing' = NULL
  /\ changes' = changes + 1
  /\ account' = WithPassword
  /\ roleChanged' = FALSE
  /\ tokenVersion' = NextVersion(d)
  /\ refreshToken' =
       [t \in RefreshTokens |-> IF t \in device[d].seen THEN "spent" ELSE refreshToken[t]]
  /\ resetToken' =
       [t \in ResetTokens |-> IF t = device[d].token THEN "spent" ELSE resetToken[t]]
  /\ Takes(d, "issue", NextVersion(d), employeeRole)
  /\ UNCHANGED <<employeeRole, access>>

-----------------------------------------------------------------------------
\* UpdateEmployee reads the row, which tells whether the role asked for is new ...
UpdateEmployeeReads(d, role) ==
  /\ device[d] = Resting
  /\ changes < MaxChanges
  /\ account.staff /\ ~account.deleted
  /\ Takes(d, IF role = employeeRole THEN "keep" ELSE "write", 0, role)
  /\ UNCHANGED <<rowVars, tokenVersion, changes, access, refreshToken, resetToken, changing>>

\* ... waits for the row and writes it, unless it is deleted by now.
UpdateEmployee(d) ==
  /\ device[d].at \in {"keep", "write"}
  /\ changing = NULL
  /\ IF account.deleted
     THEN Rests(d) /\ UNCHANGED <<employeeRole, roleChanged>>
     ELSE /\ employeeRole' = device[d].role
          /\ roleChanged' = (roleChanged \/ employeeRole' # employeeRole)
          /\ IF device[d].at = "write"
             THEN Moves(d, "outdate", NULL, 0, {}) ELSE Rests(d)
  /\ UNCHANGED <<account, tokenVersion, changes, access, refreshToken, resetToken, changing>>

\* For a role that was new it then, in statements of their own, revokes the
\* refresh tokens ...
RevokeForRole(d) ==
  /\ device[d].at = "outdate"
  /\ refreshToken' = AllSpent(refreshToken)
  /\ Moves(d, "bump", NULL, 0, {})
  /\ UNCHANGED <<rowVars, tokenVersion, changes, access, resetToken, changing>>

\* ... and increments token_version.
IncrementEmployeeTokenVersion(d) ==
  /\ device[d].at = "bump"
  /\ changing = NULL
  /\ changes < MaxChanges
  /\ changes' = changes + 1
  /\ tokenVersion' = tokenVersion + 1
  /\ roleChanged' = FALSE
  /\ Rests(d)
  /\ UNCHANGED <<account, employeeRole, access, refreshToken, resetToken, changing>>

\* SoftDeleteEmployee waits for the row, deletes it and revokes the tokens.
SoftDeleteEmployee ==
  /\ account.staff /\ ~account.deleted
  /\ changing = NULL
  /\ account' = [account EXCEPT !.deleted = TRUE]
  /\ refreshToken' = AllSpent(refreshToken)
  /\ UNCHANGED <<employeeRole, roleChanged, tokenVersion, changes, access, resetToken, device, changing>>

\* A token expires.  RunCleanupTokens deletes spent ones only.
Expires ==
  /\ \/ \E t \in RefreshTokens :
          /\ refreshToken[t] = "live"
          /\ refreshToken' = [refreshToken EXCEPT ![t] = "spent"]
          /\ UNCHANGED resetToken
     \/ \E t \in ResetTokens :
          /\ resetToken[t] = "live"
          /\ resetToken' = [resetToken EXCEPT ![t] = "spent"]
          /\ UNCHANGED refreshToken
  /\ UNCHANGED <<rowVars, tokenVersion, changes, access, device, changing>>

\* Mutant: no deferred rollback.
DeviceGivesUp(d) ==
  /\ device[d] # Resting
  /\ Rests(d)
  /\ UNCHANGED <<rowVars, tokenVersion, changes, access, refreshToken, resetToken, changing>>

\* A statement fails, or the server stops; a transaction is rolled back.
DeviceFails(d) ==
  /\ device[d] # Resting
  /\ Rests(d)
  /\ changing' = IF changing = d THEN NULL ELSE changing
  /\ UNCHANGED <<rowVars, tokenVersion, changes, access, refreshToken, resetToken>>

SessionNext ==
  \/ \E d \in Devices :
       \/ Login(d) \/ RevokeRefreshToken(d) \/ RefreshReloads(d)
       \/ \E t \in RefreshTokens : issueTokens(d, t) \/ Refresh(d, t) \/ Logout(d, t)
       \/ ForgotPassword(d)
       \/ ResendInvite(d) \/ DeleteUnusedEmployeePasswordResetTokens(d)
       \/ \E t \in ResetTokens : CreatePasswordResetToken(d, t) \/ ResetPassword(d, t)
       \/ ChangePassword(d) \/ RevokeRefreshTokensByCustomerID(d) \/ ChangeCommits(d)
       \/ \E role \in EmployeeRoles : UpdateEmployeeReads(d, role)
       \/ UpdateEmployee(d) \/ RevokeForRole(d) \/ IncrementEmployeeTokenVersion(d)
       \/ DeviceFails(d)
  \/ SoftDeleteEmployee
  \/ Expires

SessionSpec == SessionInit /\ [][SessionNext]_sessionVars

-----------------------------------------------------------------------------
\* A change of the password, and the increment that ends the sessions of a role,
\* leave a version that no access token issued before has, whichever logins,
\* refreshes and other changes they overlap.
ChangeEndsAccess ==
  [][changes' # changes => \A t \in access : t.version # tokenVersion']_sessionVars

\* Unless a change of the role is still to be followed by an increment (which it
\* never is when UpdateEmployee fails in between), every access token that is let
\* in names the role the employee has now, however late it was issued.
SessionsKnowRole ==
  ~roleChanged => \A t \in access : AuthMiddleware(t.version) => t.role = employeeRole

\* "is_active=false only ever means 'never activated'": an account that is not
\* active has no password and never had a session.
InactiveNeverActivated ==
  ~account.active => ~account.password /\ access = {}
=============================================================================
