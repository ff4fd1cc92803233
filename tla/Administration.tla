---------------------------- MODULE Administration ----------------------------
(***************************************************************************)
(* The administrators' requests (authhttp/adminusers.go), the service that *)
(* decides on them (internal/adminservice) and the rules it decides by     *)
(* (internal/authorization), over the accounts of all users.               *)
(*                                                                         *)
(* A request touches the database three times, and others come in between: *)
(* the middleware reads the session with its owner's role and scope, the   *)
(* service reads the account to be changed, and the store changes it       *)
(* without looking at either again.  All that is decided on the way is     *)
(* decided on what was read.                                               *)
(*                                                                         *)
(* What becomes of one account in detail is the module Accounts.  Here its *)
(* status is whether its owner can authenticate, and a session stands for  *)
(* all that the owner has.  Requests that only read are left out.          *)
(***************************************************************************)
EXTENDS FiniteSets

CONSTANTS
  Users,       \* the accounts there may be
  Departments, \* the scopes that are not empty
  NoScope,     \* the empty scope
  Positions,   \* the roles with their scopes that requests ask for
  Calls        \* the requests that are under way together

System     == "system_administrator"
Department == "department_administrator"

\* The roles that no rule here tells apart are one.
AccountRoles == {System, Department, "responder"}
Scopes       == Departments \cup {NoScope}

ASSUME AdministrationAssumption ==
  /\ NoScope \notin Departments
  /\ Positions \subseteq [role : AccountRoles, scope : Scopes]

VARIABLES
  accounts,  \* users.role, users.scope and users.status
  signedIn,  \* the state of the owner's session
  calls      \* where each request stands, and what it has read

administrationVars == <<accounts, signedIn, calls>>

Account == [role : AccountRoles, scope : Scopes, status : {"absent", "locked", "active"}]

\* What a request may ask for.  To suspend, to disable and to reset an account
\* is to lock it: the rules and the owner's sessions do not tell them apart.
TargetedOrders == [op : {"lock", "restore", "resend", "revoke"}, target : Users]
RoleOrders     == [op : {"role"}, target : Users, position : Positions]
CreateOrders   == [op : {"create"}, target : Users, position : Positions]
Orders         == TargetedOrders \cup RoleOrders \cup CreateOrders

\* actorFromPrincipal, with what the session adds.
Principal(u) == [user |-> u, role |-> accounts[u].role, scope |-> accounts[u].scope,
                 verified |-> signedIn[u] = "verified"]
Principals   == [user : Users, role : AccountRoles, scope : Scopes, verified : BOOLEAN]

Waiting     == [step |-> "idle"]
Admitted(p) == [step |-> "admitted", actor |-> p]
Decided(p, order) == [step |-> "decided", actor |-> p, order |-> order]

UnderWay(c) == calls[c].step # "idle"

-----------------------------------------------------------------------------
(* The rules.                                                              *)

IsAdministrator(role) == role \in {System, Department}

\* The row of the matrix, for each of the permissions to manage accounts.
Reach(role) ==
  CASE role = System     -> "global"
    [] role = Department -> "scoped"
    [] OTHER             -> "none"

Allowed(actor, scope) ==
  \/ Reach(actor.role) = "global"
  \/ Reach(actor.role) = "scoped" /\ actor.scope # NoScope /\ actor.scope = scope

\* Faulty variant: a department's administrator may appoint another.
CanAssignRole_Peers(actor, position) == Allowed(actor, position.scope)

CanAssignRole(actor, position) ==
  /\ Allowed(actor, position.scope)
  /\ actor.role = Department => ~ IsAdministrator(position.role)

\* ErrSelfAction; "Restoring an administrator's own account is harmless".
SelfAction(actor, order) ==
  /\ order.op \in {"lock", "revoke", "role"}
  /\ order.target = actor.user

\* loadVisible, of the account as it is now, and the checks that follow it.
MayManage(actor, order) ==
  /\ accounts[order.target].status # "absent"
  /\ Allowed(actor, accounts[order.target].scope)
  /\ ~ SelfAction(actor, order)
  /\ order.op = "role" => CanAssignRole(actor, order.position)

MayCreate(actor, order) ==
  IsAdministrator(actor.role) /\ CanAssignRole(actor, order.position)

-----------------------------------------------------------------------------
(* A request.                                                              *)

\* Faulty variant: the service looks up what the caller is by now.
Actor_Reread(c) == [calls[c].actor EXCEPT !.role = accounts[calls[c].actor.user].role]

Actor(c) == calls[c].actor

\* requireSession and requireAdminMFAVerified.
Admit(c) ==
  /\ calls[c] = Waiting
  /\ \E u \in Users :
       /\ accounts[u].status = "active" /\ signedIn[u] # "none"
       /\ IsAdministrator(accounts[u].role) => signedIn[u] = "verified"
       /\ calls' = [calls EXCEPT ![c] = Admitted(Principal(u))]
  /\ UNCHANGED <<accounts, signedIn>>

Decide(c) ==
  /\ calls[c].step = "admitted"
  /\ \E order \in Orders :
       LET granted == IF order.op = "create" THEN MayCreate(Actor(c), order)
                      ELSE MayManage(Actor(c), order)
       IN  calls' = [calls EXCEPT ![c] = IF granted THEN Decided(Actor(c), order) ELSE Waiting]
  /\ UNCHANGED <<accounts, signedIn>>

\* The store's transactions.
Lock(u) ==
  /\ accounts[u].status # "absent"
  /\ accounts' = [accounts EXCEPT ![u].status = "locked"]
  /\ signedIn' = [signedIn EXCEPT ![u] = "none"]

\* Whether the account is active again depends on what is left of its tokens.
RestoreOrResend(u, op) ==
  /\ accounts[u].status = "locked"
  /\ \E status \in IF op = "restore" THEN {"locked", "active"} ELSE {"locked"} :
       accounts' = [accounts EXCEPT ![u].status = status]
  /\ UNCHANGED signedIn

Revoke(u) ==
  /\ signedIn' = [signedIn EXCEPT ![u] = "none"]
  /\ UNCHANGED accounts

Reassign(u, position) ==
  /\ accounts[u].status # "absent"
  /\ accounts' = [accounts EXCEPT ![u].role = position.role, ![u].scope = position.scope]
  /\ UNCHANGED signedIn

Create(u, position) ==
  /\ accounts[u].status = "absent"
  /\ accounts' = [accounts EXCEPT ![u] = [role   |-> position.role,
                                          scope  |-> position.scope,
                                          status |-> "locked"]]
  /\ UNCHANGED signedIn

Perform(c) ==
  LET order == calls[c].order IN
  /\ calls[c].step = "decided"
  /\ \/ order.op = "lock" /\ Lock(order.target)
     \/ order.op \in {"restore", "resend"} /\ RestoreOrResend(order.target, order.op)
     \/ order.op = "revoke" /\ Revoke(order.target)
     \/ order.op = "role" /\ Reassign(order.target, order.position)
     \/ order.op = "create" /\ Create(order.target, order.position)
  /\ calls' = [calls EXCEPT ![c] = Waiting]

\* The account is in no state for it, the e-mail is taken, or a query fails.
Refused(c) ==
  /\ UnderWay(c)
  /\ calls' = [calls EXCEPT ![c] = Waiting]
  /\ UNCHANGED <<accounts, signedIn>>

-----------------------------------------------------------------------------
(* What owners do with their accounts.                                     *)

\* With a password, and whatever else the role needs.
Complete(u) ==
  /\ accounts[u].status = "locked"
  /\ accounts' = [accounts EXCEPT ![u].status = "active"]
  /\ UNCHANGED <<signedIn, calls>>

SignIn(u) ==
  /\ accounts[u].status = "active" /\ signedIn[u] = "none"
  /\ signedIn' = [signedIn EXCEPT ![u] = "open"]
  /\ UNCHANGED <<accounts, calls>>

Verify(u) ==
  /\ accounts[u].status = "active" /\ signedIn[u] = "open"
  /\ signedIn' = [signedIn EXCEPT ![u] = "verified"]
  /\ UNCHANGED <<accounts, calls>>

\* Or the session expires.
SignOut(u) ==
  /\ signedIn[u] # "none"
  /\ signedIn' = [signedIn EXCEPT ![u] = "none"]
  /\ UNCHANGED <<accounts, calls>>

\* Any accounts that may have come about since cmd/bootstrap-admin made the
\* first, which it does for a table that is empty, and no row is deleted.
AdministrationInit ==
  /\ accounts \in [Users -> Account]
  /\ \E u \in Users : accounts[u].status # "absent"
  /\ \A u \in Users : [role |-> accounts[u].role, scope |-> accounts[u].scope] \in Positions
  /\ signedIn = [u \in Users |-> "none"]
  /\ calls = [c \in Calls |-> Waiting]

AdministrationNext ==
  \/ \E c \in Calls : Admit(c) \/ Decide(c) \/ Perform(c) \/ Refused(c)
  \/ \E u \in Users : Complete(u) \/ SignIn(u) \/ Verify(u) \/ SignOut(u)

AdministrationSpec == AdministrationInit /\ [][AdministrationNext]_administrationVars

-----------------------------------------------------------------------------
(* Properties.                                                             *)

CallStates ==
  {Waiting} \cup [step : {"admitted"}, actor : Principals]
            \cup [step : {"decided"}, actor : Principals, order : Orders]

\* The rows and the requests keep their types.
AdministrationTypeOK ==
  /\ accounts \in [Users -> Account]
  /\ signedIn \in [Users -> {"none", "open", "verified"}]
  /\ calls \in [Calls -> CallStates]

Administers(u) == accounts[u].status # "absent" /\ IsAdministrator(accounts[u].role)

\* Nobody is a system administrator, or still acts as one.
NoSystem ==
  /\ \A u \in Users : accounts[u].status # "absent" => accounts[u].role # System
  /\ \A c \in Calls : UnderWay(c) => Actor(c).role # System

\* Nobody but u is an administrator, or still acts as one.
Sole(u) ==
  /\ \A v \in Users : Administers(v) => v = u
  /\ \A c \in Calls : UnderWay(c) /\ IsAdministrator(Actor(c).role) => Actor(c).user = u

\* "only a system_administrator may ever assign an administrator role": where
\* there is none left, no account becomes an administrator, by no race of
\* requests with changes to whoever made them.  And "an administrator cannot
\* lock themselves out": who alone is one keeps the role and the access.
AuthorityDescends ==
  [][/\ NoSystem => NoSystem' /\ \A u \in Users : Administers(u)' => Administers(u)
     /\ \A u \in Users : Sole(u) /\ accounts[u].status = "active" =>
          accounts'[u] = accounts[u]]_administrationVars

\* What is done to an account by others: all but Complete.
Changed(u) ==
  \/ accounts'[u].role # accounts[u].role \/ accounts'[u].scope # accounts[u].scope
  \/ accounts[u].status \in {"absent", "active"} /\ accounts'[u].status # accounts[u].status

\* What is given by a department's administrator: no more than the rule lets.
Within(actor, u) ==
  \/ accounts'[u].role = accounts[u].role /\ accounts'[u].scope = accounts[u].scope
  \/ accounts'[u].scope = actor.scope /\ ~ IsAdministrator(accounts'[u].role)

\* An account is changed only by a request of somebody else, who was at one and
\* the same time an administrator and in a session verified by passkey: not by
\* who was let through without, having been no administrator then, and became
\* one on the way.  A department's administrator gives nothing beyond it.
ChangesAreAuthorized ==
  [][\A u \in Users : Changed(u) =>
       \E c \in Calls :
         /\ calls[c].step = "decided" /\ calls'[c] = Waiting
         /\ IsAdministrator(Actor(c).role) /\ Actor(c).verified /\ Actor(c).user # u
         /\ Actor(c).role = Department => Within(Actor(c), u)]_administrationVars
=============================================================================
