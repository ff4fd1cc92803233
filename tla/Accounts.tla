------------------------------- MODULE Accounts -------------------------------
(***************************************************************************)
(* One account of backend/internal/identitystore (migration 000008) and    *)
(* the services that work on it: invitations, password resets, sessions,   *)
(* passkeys and the administrator's operations.  No statement touches two  *)
(* accounts, so one stands for all.                                        *)
(*                                                                         *)
(* A transaction is one step: each locks or updates the users row, or only *)
(* claims a token by a single UPDATE.  What the services do in several     *)
(* transactions is several steps of a request, and others come in between. *)
(* CreateSession is two steps by itself: its INSERT ... SELECT takes no    *)
(* lock and sees the users row of its snapshot.                            *)
(*                                                                         *)
(* The pools of tokens and sessions are finite: they bound the model.      *)
(***************************************************************************)
EXTENDS Integers, FiniteSets

CONSTANTS
  Invitations,  \* the invitations that may be issued
  Resets,       \* the password resets that may be issued
  Sessions,     \* the sessions that may be opened
  Requests,     \* the requests that are under way together
  Roles,        \* roles the account may be given
  MFARoles,     \* those for which Role.RequiresMFA
  None          \* no token, no session

ASSUME AccountsAssumption ==
  /\ MFARoles \subseteq Roles
  /\ Invitations \cap Resets = {}
  /\ None \notin Invitations \cup Resets \cup Sessions
  /\ IsFiniteSet(Invitations) /\ IsFiniteSet(Resets)

VARIABLES
  status,    \* users.status
  role,      \* users.role
  password,  \* users.password_hash: 0 for NULL, else which password it is
  enrolled,  \* there is a row of mfa_credentials
  tokens,    \* invitations.status and password_resets.status
  lapsed,    \* the tokens whose expires_at has passed
  sessions,  \* sessions.revoked_at
  bridge,    \* an MFA enrollment credential is held in memory
  requests,  \* where each request stands
  made,      \* how many passwords were set with a token
  cut,       \* the sessions there were when all sessions were revoked
  blocked    \* suspended, disabled or expired, and not restored, reset or resent

userVars    == <<status, role, password, enrolled>>
tokenVars   == <<tokens, lapsed>>
accountVars == <<status, role, password, enrolled, tokens, lapsed, sessions,
                 bridge, requests, made, cut, blocked>>

States == {"invited", "password_change_required", "active", "suspended",
           "disabled", "expired"}
Tokens == Invitations \cup Resets
TokenStates == {"unissued", "pending", "redeemed", "expired", "superseded"}
SessionStates == {"none", "open", "revoked"}

IdleRequest == [step |-> "idle", token |-> None, session |-> None, fresh |-> FALSE]
Request ==
  [step    : {"idle", "redeem", "establish", "reset", "create", "insert",
              "finish", "enroll"},
   token   : Tokens \cup {None},
   session : Sessions \cup {None},
   fresh   : BOOLEAN]

-----------------------------------------------------------------------------
(* What the transactions are made of.                                      *)

\* identity.allowedTransitions, where lockUserState is followed by it.
AllowedTransition(from, to) ==
  CASE to = "suspended" -> from \in States \ {"suspended"}
    [] to = "disabled"  -> from \in States \ {"disabled"}
    [] to = "password_change_required" -> from \in States \ {"expired"}
    [] OTHER -> FALSE

PendingOf(kind) == {t \in kind : tokens[t] = "pending"}

\* Faulty variant: the token issued before stays pending.
Issued_NoSupersede(t, kind) == [tokens EXCEPT ![t] = "pending"]

\* The pending token of the kind is superseded, then t is inserted.
Issued(t, kind) ==
  [s \in Tokens |-> IF s = t THEN "pending"
                    ELSE IF s \in PendingOf(kind) THEN "superseded" ELSE tokens[s]]

\* Faulty variant: a token presented in time stays pending.
Claimed_KeptPending(t, fresh) ==
  [tokens EXCEPT ![t] = IF fresh THEN "pending" ELSE "expired"]

\* UPDATE ... SET status = CASE WHEN expires_at <= now ... WHERE pending.
Claimed(t, fresh) == [tokens EXCEPT ![t] = IF fresh THEN "redeemed" ELSE "expired"]

\* Faulty variant: one session is revoked, not every one.
RevokedSessions_One ==
  IF \E s \in Sessions : sessions[s] = "open"
    THEN [sessions EXCEPT ![CHOOSE s \in Sessions : sessions[s] = "open"] = "revoked"]
    ELSE sessions

\* revokeAllSessionsTx.
RevokedSessions ==
  [s \in Sessions |-> IF sessions[s] = "open" THEN "revoked" ELSE sessions[s]]

RevokeAllSessionsTx ==
  /\ sessions' = RevokedSessions
  /\ cut' = {s \in Sessions : sessions[s] # "none"}

\* Faulty variant: a role that requires MFA is not asked for it.
Eligible_NoMFA(hasMFA) == TRUE

\* The gate of activateIfEligible, for an account with password_change_required.
Eligible(hasMFA) == role \in MFARoles => hasMFA

\* activateIfEligible.
Activated(hasMFA) ==
  IF status = "password_change_required" /\ Eligible(hasMFA)
    THEN "active" ELSE status

\* users_active_requires_password: a transaction that breaks it rolls back.
CheckHolds == status' = "active" => password' # 0

\* The WHERE clause of the two UPDATEs that write password_hash.
MaySetPassword(allowed) == status \in allowed

SetPassword ==
  /\ made' = made + 1
  /\ password' = made + 1

\* The password typed at the prompt of bootstrap-admin, paid for with no token.
Typed == -1

\* bootstrap-admin: an INSERT beside the store, for a table that was empty.
Bootstrap ==
  /\ status = "absent"
  /\ status' = "active" /\ role' \in MFARoles /\ password' = Typed
  /\ UNCHANGED <<enrolled, tokenVars, sessions, bridge, requests, made, cut, blocked>>

-----------------------------------------------------------------------------
(* The administrator's operations.                                         *)

CreateUserAndInvite(i) ==
  /\ status = "absent" /\ tokens[i] = "unissued"
  /\ status' = "invited"
  /\ role' \in Roles
  /\ tokens' = Issued(i, Invitations)
  /\ UNCHANGED <<password, enrolled, lapsed, sessions, bridge, requests, made,
                 cut, blocked>>

ResendInvitation(i) ==
  /\ status \in {"invited", "expired"} /\ tokens[i] = "unissued"
  /\ tokens' = Issued(i, Invitations)
  /\ status' = "invited"
  /\ blocked' = FALSE
  /\ UNCHANGED <<role, password, enrolled, lapsed, sessions, bridge, requests,
                 made, cut>>

AdminReset(i) ==
  /\ status \in {"active", "suspended", "password_change_required"}
  /\ AllowedTransition(status, "password_change_required")
  /\ tokens[i] = "unissued"
  /\ tokens' = Issued(i, Invitations)
  /\ status' = "password_change_required"
  /\ password' = 0
  /\ RevokeAllSessionsTx
  /\ blocked' = FALSE
  /\ UNCHANGED <<role, enrolled, lapsed, bridge, requests, made>>

\* transitionAndRevoke, to "suspended" or "disabled".
TransitionAndRevoke(to) ==
  /\ status # "absent" /\ AllowedTransition(status, to)
  /\ status' = to
  /\ RevokeAllSessionsTx
  /\ blocked' = TRUE
  /\ UNCHANGED <<role, password, enrolled, tokenVars, bridge, requests, made>>

\* Faulty variant: a valid invitation comes before the password.
RestoredStatus_InvitationFirst ==
  IF PendingOf(Invitations) \ lapsed # {} THEN "invited"
  ELSE IF password # 0 THEN "active" ELSE "expired"

RestoredStatus ==
  IF password # 0 THEN "active"
  ELSE IF PendingOf(Invitations) \ lapsed # {} THEN "invited" ELSE "expired"

Restore ==
  /\ status \in {"suspended", "disabled"}
  /\ status' = RestoredStatus
  /\ blocked' = (status' = "expired")
  /\ UNCHANGED <<role, password, enrolled, tokenVars, sessions, bridge, requests,
                 made, cut>>

ChangeRole(r) ==
  /\ status # "absent"
  /\ role' = r
  /\ UNCHANGED <<status, password, enrolled, tokenVars, sessions, bridge,
                 requests, made, cut, blocked>>

\* Revoke by an administrator, or LogoutAll by the user.
RevokeAllSessions ==
  /\ RevokeAllSessionsTx
  /\ UNCHANGED <<userVars, tokenVars, bridge, requests, made, blocked>>

-----------------------------------------------------------------------------
(* The user's requests.                                                    *)

Step(q, step) == requests' = [requests EXCEPT ![q].step = step]
EndRequest(q) == requests' = [requests EXCEPT ![q] = IdleRequest]

\* A handler reads the clock, then spends long on the password: the breach
\* check before RedeemInvitation, that and the hash before
\* CompletePasswordReset.  A token that is not pending never is again.
Present(q, t) ==
  /\ requests[q].step = "idle" /\ tokens[t] = "pending"
  /\ requests' = [requests EXCEPT ![q] =
       [step |-> IF t \in Invitations THEN "redeem" ELSE "reset",
        token |-> t, session |-> None, fresh |-> t \notin lapsed]]
  /\ UNCHANGED <<userVars, tokenVars, sessions, bridge, made, cut, blocked>>

\* RedeemInvitation: setUserStatus looks at no status.
RedeemInvitation(q) ==
  LET t == requests[q].token
      fresh == requests[q].fresh
  IN
  /\ requests[q].step = "redeem" /\ tokens[t] = "pending"
  /\ tokens' = Claimed(t, fresh)
  /\ status' = IF fresh THEN "password_change_required" ELSE status
  /\ IF fresh THEN Step(q, "establish") ELSE EndRequest(q)
  /\ UNCHANGED <<role, password, enrolled, lapsed, sessions, bridge, made, cut,
                 blocked>>

\* issueMFAEnrollmentCredential, where MFA is still missing: at capacity there
\* is none, and the password stays established.
IssueBridge == bridge' \in {bridge, bridge \/ status' = "password_change_required"}

\* Its fifteen minutes are over.
BridgeLapses ==
  /\ bridge /\ bridge' = FALSE
  /\ UNCHANGED <<userVars, tokenVars, sessions, requests, made, cut, blocked>>

\* EstablishPassword, and the bridging credential.
EstablishPassword(q) ==
  /\ requests[q].step = "establish"
  /\ MaySetPassword({"password_change_required"})
  /\ SetPassword
  /\ status' = Activated(enrolled)
  /\ IssueBridge
  /\ EndRequest(q)
  /\ UNCHANGED <<role, enrolled, tokenVars, sessions, cut, blocked>>

RequestPasswordReset(t) ==
  /\ status \in {"active", "password_change_required"} /\ tokens[t] = "unissued"
  /\ tokens' = Issued(t, Resets)
  /\ UNCHANGED <<userVars, lapsed, sessions, bridge, requests, made, cut, blocked>>

\* CompletePasswordReset, in time.
CompletePasswordReset(q) ==
  LET t == requests[q].token IN
  /\ requests[q].step = "reset" /\ requests[q].fresh /\ tokens[t] = "pending"
  /\ tokens' = Claimed(t, TRUE)
  /\ MaySetPassword({"active", "password_change_required"})
  /\ SetPassword
  /\ status' = Activated(enrolled)
  /\ RevokeAllSessionsTx
  /\ EndRequest(q)
  /\ UNCHANGED <<role, enrolled, lapsed, bridge, blocked>>

\* CompletePasswordReset, at or after expires_at.
ResetExpired(q) ==
  LET t == requests[q].token IN
  /\ requests[q].step = "reset" /\ ~ requests[q].fresh /\ tokens[t] = "pending"
  /\ tokens' = Claimed(t, FALSE)
  /\ EndRequest(q)
  /\ UNCHANGED <<userVars, lapsed, sessions, bridge, made, cut, blocked>>

\* Login: the password is verified against the row read here.
Login(q) ==
  /\ requests[q].step = "idle"
  /\ password # 0 /\ status = "active"
  /\ Step(q, "create")
  /\ UNCHANGED <<userVars, tokenVars, sessions, bridge, made, cut, blocked>>

\* CreateSession: the SELECT finds the account active in its snapshot.
SelectForSession(q, s) ==
  /\ requests[q].step = "create" /\ status = "active"
  /\ sessions[s] = "none" /\ \A o \in Requests : requests[o].session # s
  /\ requests' = [requests EXCEPT ![q].step = "insert", ![q].session = s]
  /\ UNCHANGED <<userVars, tokenVars, sessions, bridge, made, cut, blocked>>

\* CreateSession: the row is committed.
InsertSession(q) ==
  /\ requests[q].step = "insert"
  /\ sessions' = [sessions EXCEPT ![requests[q].session] = "open"]
  /\ EndRequest(q)
  /\ UNCHANGED <<userVars, tokenVars, bridge, made, cut, blocked>>

\* Logout and RevokeOwnedSession.
RevokeSession(s) ==
  /\ sessions[s] = "open"
  /\ sessions' = [sessions EXCEPT ![s] = "revoked"]
  /\ UNCHANGED <<userVars, tokenVars, bridge, requests, made, cut, blocked>>

\* ResolveMFAEnrollmentCredential: the account is looked at anew.
Bridged == bridge /\ status \in {"password_change_required", "active"}

\* BeginMFAEnrollment, under the bridging credential or an open session.
BeginMFAEnrollment(q) ==
  /\ requests[q].step = "idle"
  /\ \/ Bridged
     \/ status = "active" /\ \E s \in Sessions : sessions[s] = "open"
  /\ Step(q, "finish")
  /\ UNCHANGED <<userVars, tokenVars, sessions, bridge, made, cut, blocked>>

\* FinishMFAEnrollment: mfaEnrollmentEligible, before the response is verified.
FinishMFAEnrollment(q) ==
  /\ requests[q].step = "finish"
  /\ status \in {"password_change_required", "active"}
  /\ Step(q, "enroll")
  /\ UNCHANGED <<userVars, tokenVars, sessions, bridge, made, cut, blocked>>

\* EnrollMFACredential, and the end of the bridging credential.
EnrollMFACredential(q) ==
  /\ requests[q].step = "enroll"
  /\ status \in {"password_change_required", "active"}
  /\ enrolled' = TRUE
  /\ status' = Activated(TRUE)
  /\ UNCHANGED <<role, password>>
  /\ CheckHolds
  /\ bridge' = FALSE
  /\ EndRequest(q)
  /\ UNCHANGED <<tokenVars, sessions, made, cut, blocked>>

\* A request ends without effect: refused, rolled back, or lost on the way.
Fail(q) ==
  /\ requests[q].step # "idle"
  /\ EndRequest(q)
  /\ UNCHANGED <<userVars, tokenVars, sessions, bridge, made, cut, blocked>>

\* The process restarts: its requests and its memory are gone.
Restart ==
  /\ requests' = [q \in Requests |-> IdleRequest]
  /\ bridge' = FALSE
  /\ UNCHANGED <<userVars, tokenVars, sessions, made, cut, blocked>>

\* expires_at passes; the row is not touched.
Lapse(t) ==
  /\ tokens[t] = "pending" /\ t \notin lapsed
  /\ lapsed' = lapsed \cup {t}
  /\ UNCHANGED <<userVars, tokens, sessions, bridge, requests, made, cut, blocked>>

-----------------------------------------------------------------------------
AccountsInit ==
  /\ status = "absent"
  /\ role \in Roles
  /\ password = 0
  /\ enrolled = FALSE
  /\ tokens = [t \in Tokens |-> "unissued"]
  /\ lapsed = {}
  /\ sessions = [s \in Sessions |-> "none"]
  /\ bridge = FALSE
  /\ requests = [q \in Requests |-> IdleRequest]
  /\ made = 0
  /\ cut = {}
  /\ blocked = FALSE

\* What an administrator does to the account, and to its way in.
ManageAccount ==
  \/ \E i \in Invitations : CreateUserAndInvite(i) \/ ResendInvitation(i)
  \/ \E to \in {"suspended", "disabled"} : TransitionAndRevoke(to)
  \/ Restore

ManageAccess ==
  \/ \E i \in Invitations : AdminReset(i)
  \/ \E r \in Roles : ChangeRole(r)
  \/ RevokeAllSessions

Administer == ManageAccount \/ ManageAccess

Proceed(q) ==
  \/ \E t \in Tokens : Present(q, t)
  \/ RedeemInvitation(q) \/ EstablishPassword(q)
  \/ CompletePasswordReset(q) \/ ResetExpired(q)
  \/ Login(q)
  \/ \E s \in Sessions : SelectForSession(q, s)
  \/ InsertSession(q)
  \/ BeginMFAEnrollment(q) \/ FinishMFAEnrollment(q) \/ EnrollMFACredential(q)
  \/ Fail(q)

AccountsNext ==
  \/ Bootstrap \/ Administer
  \/ \E q \in Requests : Proceed(q)
  \/ \E t \in Resets : RequestPasswordReset(t)
  \/ \E s \in Sessions : RevokeSession(s)
  \/ \E t \in Tokens : Lapse(t)
  \/ BridgeLapses
  \/ Restart

AccountsSpec == AccountsInit /\ [][AccountsNext]_accountVars

-----------------------------------------------------------------------------
(* Properties.                                                             *)

\* The columns and the requests keep their types.
AccountTypeOK ==
  /\ status \in States \cup {"absent"}
  /\ role \in Roles
  /\ password \in 0 .. made \cup {Typed}
  /\ enrolled \in BOOLEAN
  /\ tokens \in [Tokens -> TokenStates]
  /\ lapsed \subseteq Tokens
  /\ sessions \in [Sessions -> SessionStates]
  /\ bridge \in BOOLEAN
  /\ requests \in [Requests -> Request]
  /\ made \in Nat
  /\ cut \subseteq Sessions
  /\ blocked \in BOOLEAN

\* An active account has a password, and an account that never completed its
\* first login has none, by whatever way it got there: redemption, reset,
\* suspension and restoration in any order.  So ResendInvitation never leaves
\* an old password in force beside the new invitation.
PasswordMatchesStatus ==
  /\ status = "active" => password # 0
  /\ status \in {"absent", "invited", "expired"} => password = 0

\* The partial unique indexes of invitations and password_resets are never
\* tripped: whoever issues a token supersedes the one before.
OnePendingToken ==
  \A kind \in {Invitations, Resets} : \A t, u \in PendingOf(kind) : t = u

Underway(step) == {q \in Requests : requests[q].step = step}

\* Every password set by a request was paid for with a token of its own, and a request that is
\* still to establish one holds a token no other request does: a redemption
\* interrupted between its two transactions loses the token, never doubles it.
PasswordsArePaidFor ==
  made + Cardinality(Underway("establish"))
    <= Cardinality({t \in Tokens : tokens[t] = "redeemed"})

\* A session that was there when all sessions were revoked (suspension,
\* disabling, either reset, revocation) is never open again, not after a
\* restore either, though resolving it only looks at the row and the status.
CutSessionsStayShut == \A s \in cut : sessions[s] # "open"

\* The only way from password_change_required into active is through
\* activateIfEligible: with a password, and with a passkey where the role
\* asks for one at that time.
ActivationIsGated ==
  [][status = "password_change_required" /\ status' = "active" =>
       password' # 0 /\ (role \in MFARoles => enrolled')]_accountVars

\* identity.go, on allowedTransitions: "A terminal state (suspended/disabled/
\* expired) never silently becomes active again without an explicit Restore/
\* Reset/ResendInvitation call."  It does, by an invitation that was pending
\* when the account was suspended or disabled.
NeverSilentlyActive == blocked => status # "active"
=============================================================================
