------------------------------ MODULE OpsAccess ------------------------------
(***************************************************************************)
(* Who may do what in the back office: staff, roles, invitations           *)
(* (src/ops-console/), and the guards in front of every endpoint           *)
(* (src/common/guards/, src/auth/jwt.strategy.ts).                         *)
(*                                                                         *)
(* The guards read account and role once, when a request comes in.  The    *)
(* handler then reads, and later writes: roles may be edited and accounts  *)
(* disabled in between, its caller's own included.                         *)
(***************************************************************************)
EXTENDS Naturals

CONSTANTS Staff,      \* people, by their address
          NewRoles,   \* roles that may be created, by their slug
          Grants,     \* the sets of permissions that are entered
          Passwords,  \* temporary passwords
          Desk,       \* handlers that may be in flight at once
          None,
          MaxCalls    \* bound: how many requests come in

\* "catalog" stands for the permissions that give no power over accounts.
Permissions == {"roles.manage", "agents.invite", "catalog"}
Roles       == {"admin", "agent"} \cup NewRoles

ASSUME OpsAssumption ==
  /\ {"admin", "agent", "legacy admin", "legacy agent", "none"} \cap NewRoles = {}
  /\ None \notin Roles \cup Staff \cup Passwords
  /\ Grants \subseteq SUBSET Permissions /\ MaxCalls \in Nat

VARIABLES perms,    \* perms[r]: the permissions of role r; none is stored as NoRole
          account,  \* account[s]: OpsUser and Credential
          act,      \* act[h]: the handler h is running
          calls,    \* how many requests came in
          invited   \* the invitations mailed: to whom, with which password (history)

opsVars == <<perms, account, act, calls, invited>>

\* A role that does not exist.
NoRole == {"none"}

\* Accounts older than the Role table have no role, only admin or agent; a
\* password of one's own is None.
Accounts  == [role : Roles \cup {"legacy admin", "legacy agent"}, disabled : BOOLEAN,
              mustChangePassword : BOOLEAN, password : Passwords \cup {None}]
NoAccount == [role |-> "none", disabled |-> TRUE, mustChangePassword |-> FALSE,
              password |-> None]
Account(role) == [role |-> role, disabled |-> FALSE, mustChangePassword |-> FALSE,
                  password |-> None]

Ops  == {"createRole", "updateRole", "createAgent", "setAgentDisabled", "completeOpsSetup"}
Acts == [op : Ops, stage : {"check", "write", "mail"}, actor : Staff, target : Staff \cup {None},
         role : Roles \cup {None}, grant : SUBSET Permissions, disable : BOOLEAN,
         password : Passwords \cup {None}]
NoAct == [op |-> "none"]

OpsTypeOK ==
  /\ perms \in [Roles -> (SUBSET Permissions) \cup {NoRole}]
  /\ account \in [Staff -> Accounts \cup {NoAccount}]
  /\ act \in [Desk -> Acts \cup {NoAct}]
  /\ calls \in 0..MaxCalls
  /\ invited \subseteq [to : Staff, password : Passwords]

\* The seed makes both system roles and an administrator.
OpsInit ==
  /\ perms = [r \in Roles |-> CASE r = "admin" -> Permissions
                                [] r = "agent" -> {"catalog"}
                                [] OTHER       -> NoRole]
  /\ account \in [Staff -> {NoAccount, Account("admin"), Account("legacy admin"),
                            Account("legacy agent")}]
  /\ \E s \in Staff : account[s] = Account("admin")
  /\ act = [h \in Desk |-> NoAct]
  /\ calls = 0 /\ invited = {}

-----------------------------------------------------------------------------
(* Guards.                                                                 *)

Known(s) == account[s] # NoAccount

\* JwtStrategy.validate: the role's permissions as they are now, or, without
\* a role, those that admin and agent had.
Held(s) ==
  CASE ~Known(s)                         -> {}
    [] account[s].role = "legacy admin" -> Permissions
    [] account[s].role = "legacy agent" -> {"catalog"}
    [] OTHER                            -> perms[account[s].role]

\* JwtAuthGuard, OpsGuard: an account that is not disabled.  (Which sessions
\* it still has is up to Sessions; it may sign in again.)
SignedIn(s) == Known(s) /\ ~account[s].disabled

\* OpsSetupGuard.
SetUp(s) == ~account[s].mustChangePassword

\* OpsAdminGuard, behind the other guards.
Allowed(s, permission) == SignedIn(s) /\ SetUp(s) /\ permission \in Held(s)

-----------------------------------------------------------------------------
(* Handlers.                                                               *)

Free(h)            == act[h] = NoAct
At(h, op, stage)   == act[h] # NoAct /\ act[h].op = op /\ act[h].stage = stage
Begin(h, op, actor, target, role, grant, disable, password) ==
  /\ Free(h)
  /\ calls < MaxCalls /\ calls' = calls + 1
  /\ act' = [act EXCEPT ![h] =
       [op |-> op, stage |-> "check", actor |-> actor, target |-> target, role |-> role,
        grant |-> grant, disable |-> disable, password |-> password]]
  /\ UNCHANGED <<perms, account, invited>>
Become(h, a)  == act' = [act EXCEPT ![h] = a]
Advance(h, stage) == Become(h, [act[h] EXCEPT !.stage = stage])
Finish(h)     == Become(h, NoAct)

\* The first read of a handler, which may turn the request down.
Check(h, op, ok) ==
  /\ At(h, op, "check")
  /\ IF ok THEN Advance(h, "write") ELSE Finish(h)
  /\ UNCHANGED <<perms, account, calls, invited>>

CreateRole(h, actor, role, grant) ==
  /\ Allowed(actor, "roles.manage")
  /\ role \in NewRoles
  /\ Begin(h, "createRole", actor, None, role, grant, FALSE, None)
CheckSlug(h) == Check(h, "createRole", perms[act[h].role] = NoRole)

\* The slug is unique: the second of two creations fails.
InsertRole(h) ==
  /\ At(h, "createRole", "write")
  /\ perms' = IF perms[act[h].role] = NoRole
              THEN [perms EXCEPT ![act[h].role] = act[h].grant] ELSE perms
  /\ Finish(h)
  /\ UNCHANGED <<account, calls, invited>>

UpdateRole(h, actor, role, grant) ==
  /\ Allowed(actor, "roles.manage")
  /\ Begin(h, "updateRole", actor, None, role, grant, FALSE, None)

\* Slip: only the creation of roles looks at the permissions.
MayGrantAny(role, grant) == perms[role] # NoRole

\* The system role admin keeps all permissions.
MayGrant(role, grant) ==
  perms[role] # NoRole /\ (role = "admin" => grant = Permissions)

CheckGrant(h) == Check(h, "updateRole", MayGrant(act[h].role, act[h].grant))

WriteGrant(h) ==
  /\ At(h, "updateRole", "write")
  /\ perms' = [perms EXCEPT ![act[h].role] = act[h].grant]
  /\ Finish(h)
  /\ UNCHANGED <<account, calls, invited>>

\* An administrator is only made with confirmStepUp, which is the caller's say.
\* The temporary password is random.
CreateAgent(h, actor, target, role, password) ==
  /\ Allowed(actor, "agents.invite")
  /\ \A s \in Staff : account[s].password # password
  /\ \A g \in Desk : act[g] # NoAct => act[g].password # password
  /\ \A m \in invited : m.password # password
  /\ Begin(h, "createAgent", actor, target, role, {}, FALSE, password)
CheckAddress(h) ==
  Check(h, "createAgent", perms[act[h].role] # NoRole /\ ~Known(act[h].target))

Invitation(h) == [to |-> act[h].target, password |-> act[h].password]

\* Slip: the invitation goes out before the account is there.
InsertInvited(h) ==
  LET s == act[h].target IN
  /\ At(h, "createAgent", "write")
  /\ invited' = invited \cup {Invitation(h)}
  /\ account' = IF Known(s) THEN account
                ELSE [account EXCEPT ![s] =
                       [role |-> act[h].role, disabled |-> FALSE, mustChangePassword |-> TRUE,
                        password |-> act[h].password]]
  /\ Finish(h)
  /\ UNCHANGED <<perms, calls>>

\* Addresses are unique: the second of two creations fails.
InsertAgent(h) ==
  LET s == act[h].target IN
  /\ At(h, "createAgent", "write")
  /\ \/ Known(s) /\ Finish(h) /\ UNCHANGED account
     \/ /\ ~Known(s)
        /\ account' = [account EXCEPT ![s] =
             [role |-> act[h].role, disabled |-> FALSE, mustChangePassword |-> TRUE,
              password |-> act[h].password]]
        /\ Advance(h, "mail")
  /\ UNCHANGED <<perms, calls, invited>>

MailInvitation(h) ==
  /\ At(h, "createAgent", "mail")
  /\ invited' = invited \cup {Invitation(h)}
  /\ Finish(h)
  /\ UNCHANGED <<perms, account, calls>>

\* Slip: anybody.
AnybodyElse(actor, target) == TRUE

SomebodyElse(actor, target) == actor # target

SetAgentDisabled(h, actor, target, disable) ==
  /\ Allowed(actor, "agents.invite")
  /\ SomebodyElse(actor, target)
  /\ Begin(h, "setAgentDisabled", actor, target, None, {}, disable, None)

\* Slip: the account is not looked up first.
CheckNobody(h) == Check(h, "setAgentDisabled", TRUE)

CheckTarget(h) == Check(h, "setAgentDisabled", Known(act[h].target))

WriteDisabled(h) ==
  /\ At(h, "setAgentDisabled", "write")
  /\ account' = [account EXCEPT ![act[h].target].disabled = act[h].disable]
  /\ Finish(h)
  /\ UNCHANGED <<perms, calls, invited>>

\* Open to any staff; the password is hashed before the write.
CompleteOpsSetup(h, actor) ==
  /\ SignedIn(actor)
  /\ Begin(h, "completeOpsSetup", actor, actor, None, {}, FALSE, None)
OwnPassword(h) ==
  LET s == act[h].target IN
  /\ At(h, "completeOpsSetup", "check")
  /\ account' = [account EXCEPT ![s] = [account[s] EXCEPT !.mustChangePassword = FALSE,
                                                         !.password = None]]
  /\ Finish(h)
  /\ UNCHANGED <<perms, calls, invited>>

\* resetPassword, with a code sent to the address (Otp).
ForgotPassword(s) ==
  /\ SignedIn(s)
  /\ account' = [account EXCEPT ![s].password = None]
  /\ UNCHANGED <<perms, act, calls, invited>>

ActDies(h) ==
  /\ ~Free(h)
  /\ Finish(h)
  /\ UNCHANGED <<perms, account, calls, invited>>

OpsCall(h) ==
  \E actor \in Staff :
    \/ \E role \in Roles, grant \in Grants :
         CreateRole(h, actor, role, grant) \/ UpdateRole(h, actor, role, grant)
    \/ \E target \in Staff, role \in Roles, password \in Passwords :
         CreateAgent(h, actor, target, role, password)
    \/ \E target \in Staff, disable \in BOOLEAN : SetAgentDisabled(h, actor, target, disable)
    \/ CompleteOpsSetup(h, actor)

OpsContinue(h) ==
  \/ CheckSlug(h) \/ InsertRole(h) \/ CheckGrant(h) \/ WriteGrant(h)
  \/ CheckAddress(h) \/ InsertAgent(h) \/ MailInvitation(h)
  \/ CheckTarget(h) \/ WriteDisabled(h) \/ OwnPassword(h)

OpsNext ==
  \/ \E h \in Desk : OpsCall(h) \/ OpsContinue(h) \/ ActDies(h)
  \/ \E s \in Staff : ForgotPassword(s)

OpsSpec == OpsInit /\ [][OpsNext]_opsVars

-----------------------------------------------------------------------------
(* The staff who can invite, disable and enable staff. *)
Managers == {s \in Staff : SignedIn(s) /\ "agents.invite" \in Held(s)}

(* "You cannot disable your own account": what that is good for when       *)
(* requests overlap.  Nobody is left to manage accounts only by an edit of *)
(* roles, and then no administrator was among them; or by a request whose  *)
(* caller had lost that power after the guards let it pass (updateRole,    *)
(* setAgentDisabled).                                                      *)
DisablingLeavesSomebody ==
  [][Managers # {} /\ Managers' = {} =>
       \E h \in Desk :
         \/ /\ At(h, "updateRole", "write")
            /\ \A s \in Managers : account[s].role \notin {"admin", "legacy admin"}
         \/ At(h, "setAgentDisabled", "write") /\ act[h].actor \notin Managers]_opsVars

(* An invitation that was mailed is good for the account it is about: that *)
(* account was made with its password, which only its owner replaces,      *)
(* although addresses are looked up before, and invitations mailed after,  *)
(* the account is made (createAgent).                                      *)
InvitationsFit ==
  \A m \in invited : Known(m.to) /\ account[m.to].password \in {m.password, None}
=============================================================================
