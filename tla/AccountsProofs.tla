--------------------------- MODULE AccountsProofs ---------------------------
(***************************************************************************)
(* For any pools of tokens and sessions, any number of requests and any    *)
(* roles: the types, the agreement of password and status, the gate of     *)
(* activation, that every password is paid for, and that no session        *)
(* outlives a revocation of all sessions.                                  *)
(*                                                                         *)
(* The last needs to be strengthened: a session whose INSERT is under way  *)
(* is not in the table yet, and belongs to one request.  That every        *)
(* password is paid for is a balance of three numbers: one lemma says what *)
(* keeps it, and each operation is shown to be one of its four cases.      *)
(*                                                                         *)
(* And, over any accounts: where the authority to change them comes from.  *)
(***************************************************************************)
EXTENDS Accounts, Administration, FiniteSetTheorems, TLAPS

\* A session is carried by a request only while it is inserted, by one only,
\* and is not in the table; what a revocation found there is revoked.
SessionInv ==
  /\ \A q \in Requests :
       /\ requests[q].step = "insert" =>
            requests[q].session \in Sessions /\ sessions[requests[q].session] = "none"
       /\ requests[q].step # "insert" => requests[q].session = None
  /\ \A q, o \in Requests :
       requests[q].session = requests[o].session /\ requests[q].session # None => q = o
  /\ \A s \in cut : sessions[s] = "revoked"

AccountInv ==
  /\ AccountTypeOK
  /\ PasswordMatchesStatus
  /\ OnePendingToken
  /\ SessionInv

\* The account that is not there yet satisfies it.
LEMMA InitAccount == AccountsInit => AccountInv
<1> SUFFICES ASSUME AccountsInit PROVE AccountInv
  OBVIOUS
<1> USE AccountsAssumption DEF AccountsInit
<1>1. AccountTypeOK
  <2>1. password \in 0 .. made /\ made \in Nat
    OBVIOUS
  <2>2. IdleRequest \in Request
    BY DEF IdleRequest, Request
  <2>3. /\ tokens \in [Tokens -> TokenStates]
        /\ sessions \in [Sessions -> SessionStates]
    BY DEF TokenStates, SessionStates
  <2> QED BY <2>1, <2>2, <2>3 DEF AccountTypeOK
<1>2. PasswordMatchesStatus
  BY DEF PasswordMatchesStatus
<1>3. SessionInv
  BY DEF SessionInv, IdleRequest
<1>4. OnePendingToken
  BY DEF OnePendingToken, PendingOf, Tokens
<1> QED BY <1>1, <1>2, <1>3, <1>4 DEF AccountInv

-----------------------------------------------------------------------------
(* What the pieces of the transactions return.                             *)

\* Issuing and claiming a token keep the table of tokens a table of tokens.
LEMMA TokenTables ==
  ASSUME AccountTypeOK, NEW t
  PROVE  /\ \A kind \in SUBSET Tokens : Issued(t, kind) \in [Tokens -> TokenStates]
         /\ \A fresh \in BOOLEAN : Claimed(t, fresh) \in [Tokens -> TokenStates]
  BY DEF AccountTypeOK, Issued, Claimed, TokenStates

\* The two ways to go on with a request keep the table of requests.
LEMMA RequestTables ==
  ASSUME AccountTypeOK, NEW q \in Requests
  PROVE  /\ \A step \in {"idle", "redeem", "establish", "reset", "create", "insert",
                         "finish", "enroll"} :
              Step(q, step) => requests' \in [Requests -> Request]
         /\ EndRequest(q) => requests' \in [Requests -> Request]
<1>1. IdleRequest \in Request
  BY DEF IdleRequest, Request, Tokens
<1>2. ASSUME NEW step \in {"idle", "redeem", "establish", "reset", "create", "insert",
                           "finish", "enroll"}
      PROVE  [requests[q] EXCEPT !.step = step] \in Request
  BY DEF AccountTypeOK, Request
<1> QED BY <1>1, <1>2 DEF AccountTypeOK, Step, EndRequest

\* Activation chooses between two states, and the second only through the gate.
LEMMA ActivatedStates ==
  ASSUME AccountTypeOK, NEW hasMFA \in BOOLEAN
  PROVE  /\ Activated(hasMFA) \in States \cup {"absent"}
         /\ status \in {"active", "password_change_required"} =>
              Activated(hasMFA) \in {"active", "password_change_required"}
         /\ Activated(hasMFA) # status => Eligible(hasMFA)
  BY DEF AccountTypeOK, Activated, States

-----------------------------------------------------------------------------
(* The invariant is inductive.                                             *)

\* Every operation keeps the columns and the requests of their types.
LEMMA TypeStep ==
  ASSUME AccountTypeOK, [AccountsNext]_accountVars PROVE AccountTypeOK'
<1> USE AccountsAssumption DEF AccountTypeOK
<1>0. /\ Invitations \in SUBSET Tokens /\ Resets \in SUBSET Tokens
      /\ made + 1 \in Nat /\ 0 \in 0 .. made /\ made + 1 \in 0 .. made + 1
      /\ enrolled \in BOOLEAN /\ TRUE \in BOOLEAN
      /\ RevokedSessions \in [Sessions -> SessionStates]
  BY DEF Tokens, RevokedSessions, SessionStates
<1>1. CASE Administer
  <2>1. ASSUME NEW i \in Invitations,
               CreateUserAndInvite(i) \/ ResendInvitation(i) \/ AdminReset(i)
        PROVE  AccountTypeOK'
    <3>1. tokens' \in [Tokens -> TokenStates]
      BY <1>0, <2>1, TokenTables DEF CreateUserAndInvite, ResendInvitation, AdminReset
    <3>2. CASE CreateUserAndInvite(i)
      BY <3>1, <3>2 DEF CreateUserAndInvite, States
    <3>3. CASE ResendInvitation(i)
      BY <3>1, <3>3 DEF ResendInvitation, States
    <3>4. CASE AdminReset(i)
      BY <1>0, <3>1, <3>4 DEF AdminReset, RevokeAllSessionsTx, States
    <3> QED BY <2>1, <3>2, <3>3, <3>4
  <2>2. ASSUME NEW to \in {"suspended", "disabled"}, TransitionAndRevoke(to)
        PROVE  AccountTypeOK'
    BY <1>0, <2>2 DEF TransitionAndRevoke, RevokeAllSessionsTx, States, tokenVars
  <2>3. CASE Restore
    BY <2>3 DEF Restore, RestoredStatus, States, tokenVars
  <2>4. ASSUME NEW r \in Roles, ChangeRole(r) PROVE AccountTypeOK'
    BY <2>4 DEF ChangeRole, tokenVars
  <2>5. CASE RevokeAllSessions
    BY <1>0, <2>5 DEF RevokeAllSessions, RevokeAllSessionsTx, userVars, tokenVars
  <2> QED BY <1>1, <2>1, <2>2, <2>3, <2>4, <2>5 DEF Administer, ManageAccount, ManageAccess
<1>2. ASSUME NEW q \in Requests, Proceed(q) PROVE AccountTypeOK'
  <2> USE DEF userVars, tokenVars
  <2>0. requests[q] \in Request /\ requests[q].fresh \in BOOLEAN
    BY DEF Request
  <2>1. ASSUME NEW t \in Tokens, Present(q, t) PROVE AccountTypeOK'
    <3>1. [step |-> IF t \in Invitations THEN "redeem" ELSE "reset",
           token |-> t, session |-> None, fresh |-> t \notin lapsed] \in Request
      BY DEF Request
    <3> QED BY <2>1, <3>1 DEF Present
  <2>2. CASE RedeemInvitation(q)
    <3>1. requests' \in [Requests -> Request]
      BY <2>2, RequestTables DEF RedeemInvitation
    <3>2. status' \in States \cup {"absent"}
      BY <2>2 DEF RedeemInvitation, States
    <3> QED BY <2>0, <2>2, <3>1, <3>2, TokenTables DEF RedeemInvitation
  <2>3. CASE EstablishPassword(q)
    <3>1. bridge' \in BOOLEAN
      BY <2>3 DEF EstablishPassword, IssueBridge
    <3> QED BY <1>0, <2>3, <3>1, ActivatedStates, RequestTables
      DEF EstablishPassword, SetPassword
  <2>4. CASE CompletePasswordReset(q)
    BY <1>0, <2>4, ActivatedStates, RequestTables, TokenTables
    DEF CompletePasswordReset, SetPassword, RevokeAllSessionsTx
  <2>5. CASE ResetExpired(q)
    BY <2>5, RequestTables, TokenTables DEF ResetExpired
  <2>6. CASE Login(q) \/ BeginMFAEnrollment(q) \/ FinishMFAEnrollment(q) \/ Fail(q)
    BY <2>6, RequestTables DEF Login, BeginMFAEnrollment, FinishMFAEnrollment, Fail
  <2>7. ASSUME NEW s \in Sessions, SelectForSession(q, s) PROVE AccountTypeOK'
    <3>1. [requests[q] EXCEPT !.step = "insert", !.session = s] \in Request
      BY <2>0 DEF Request
    <3>2. requests' \in [Requests -> Request]
      BY <2>7, <3>1 DEF SelectForSession
    <3> QED BY <2>7, <3>2 DEF SelectForSession
  <2>8. CASE InsertSession(q)
    BY <2>8, RequestTables DEF InsertSession, SessionStates
  <2>9. CASE EnrollMFACredential(q)
    BY <1>0, <2>9, ActivatedStates, RequestTables DEF EnrollMFACredential
  <2> QED BY <1>2, <2>1, <2>2, <2>3, <2>4, <2>5, <2>6, <2>7, <2>8, <2>9 DEF Proceed
<1>3. ASSUME NEW t \in Resets, RequestPasswordReset(t) PROVE AccountTypeOK'
  BY <1>0, <1>3, TokenTables DEF RequestPasswordReset, userVars
<1>4. ASSUME NEW s \in Sessions, RevokeSession(s) PROVE AccountTypeOK'
  BY <1>4 DEF RevokeSession, SessionStates, userVars, tokenVars
<1>5. ASSUME NEW t \in Tokens, Lapse(t) PROVE AccountTypeOK'
  BY <1>5 DEF Lapse, userVars
<1>6. CASE Restart
  <2>1. IdleRequest \in Request
    BY DEF IdleRequest, Request
  <2> QED BY <1>6, <2>1 DEF Restart, userVars, tokenVars
<1>7. CASE UNCHANGED accountVars
  BY <1>7 DEF accountVars
<1>8. CASE BridgeLapses
  BY <1>8 DEF BridgeLapses, userVars, tokenVars
<1>9. CASE Bootstrap
  BY <1>9, AccountsAssumption DEF Bootstrap, States, tokenVars
<1> QED BY <1>1, <1>2, <1>3, <1>4, <1>5, <1>6, <1>7, <1>8, <1>9 DEF AccountsNext

\* Restore is the one way from a block to "active", and asks for the password;
\* whoever writes "invited" or "expired" has found none.
LEMMA PasswordStep ==
  ASSUME AccountTypeOK, PasswordMatchesStatus, [AccountsNext]_accountVars
  PROVE  PasswordMatchesStatus'
<1> USE DEF PasswordMatchesStatus
<1>1. CASE UNCHANGED <<status, password>>
  BY <1>1
<1>2. ASSUME NEW i \in Invitations,
             CreateUserAndInvite(i) \/ ResendInvitation(i) \/ AdminReset(i)
      PROVE  PasswordMatchesStatus'
  BY <1>2 DEF CreateUserAndInvite, ResendInvitation, AdminReset
<1>3. ASSUME NEW to \in {"suspended", "disabled"}, TransitionAndRevoke(to)
      PROVE  PasswordMatchesStatus'
  BY <1>3 DEF TransitionAndRevoke
<1>4. CASE Restore
  BY <1>4 DEF Restore, RestoredStatus
<1>5. ASSUME NEW q \in Requests, RedeemInvitation(q) PROVE PasswordMatchesStatus'
  BY <1>5 DEF RedeemInvitation
<1>6. ASSUME NEW q \in Requests, EstablishPassword(q) \/ CompletePasswordReset(q)
      PROVE  PasswordMatchesStatus'
  <2>0. password' = made + 1
    BY <1>6 DEF EstablishPassword, CompletePasswordReset, SetPassword
  <2>1. password' # 0
    BY <2>0 DEF AccountTypeOK
  <2>2. /\ status \in {"active", "password_change_required"}
        /\ status' = Activated(enrolled)
    BY <1>6 DEF EstablishPassword, CompletePasswordReset, MaySetPassword
  <2>3. enrolled \in BOOLEAN
    BY DEF AccountTypeOK
  <2>4. status' \in {"active", "password_change_required"}
    BY <2>2, <2>3, ActivatedStates
  <2> QED BY <2>1, <2>4
<1>7. ASSUME NEW q \in Requests, EnrollMFACredential(q) PROVE PasswordMatchesStatus'
  <2>1. status' \in {"active", "password_change_required"}
    BY <1>7, ActivatedStates DEF EnrollMFACredential
  <2> QED BY <1>7, <2>1 DEF EnrollMFACredential, CheckHolds
<1>8. CASE Bootstrap
  BY <1>8 DEF Bootstrap, Typed
<1> QED
  BY <1>1, <1>2, <1>3, <1>4, <1>5, <1>6, <1>7, <1>8
  DEF AccountsNext, Administer, ManageAccount, ManageAccess, Proceed, ChangeRole,
      RevokeAllSessions, Present, ResetExpired, Login, SelectForSession,
      InsertSession, BeginMFAEnrollment, FinishMFAEnrollment, Fail,
      RequestPasswordReset, RevokeSession, Lapse, BridgeLapses, Restart,
      accountVars, userVars

\* A claimed token is not pending any more; an issued one is the only one.
LEMMA PendingStep ==
  ASSUME AccountTypeOK, OnePendingToken, [AccountsNext]_accountVars
  PROVE  OnePendingToken'
<1> USE AccountsAssumption DEF OnePendingToken, PendingOf
<1>1. CASE UNCHANGED tokens
  BY <1>1
<1>2. ASSUME NEW kind \in {Invitations, Resets}, NEW t \in kind, tokens' = Issued(t, kind)
      PROVE  OnePendingToken'
  BY <1>2 DEF AccountTypeOK, Issued, Tokens
<1>3. ASSUME NEW t, NEW fresh \in BOOLEAN, tokens' = Claimed(t, fresh)
      PROVE  OnePendingToken'
  BY <1>3 DEF AccountTypeOK, Claimed, Tokens
<1>4. ASSUME NEW i \in Invitations,
             CreateUserAndInvite(i) \/ ResendInvitation(i) \/ AdminReset(i)
      PROVE  OnePendingToken'
  BY <1>2, <1>4 DEF CreateUserAndInvite, ResendInvitation, AdminReset
<1>5. ASSUME NEW t \in Resets, RequestPasswordReset(t) PROVE OnePendingToken'
  BY <1>2, <1>5 DEF RequestPasswordReset
<1>6. ASSUME NEW q \in Requests,
             RedeemInvitation(q) \/ CompletePasswordReset(q) \/ ResetExpired(q)
      PROVE  OnePendingToken'
  <2>1. requests[q].fresh \in BOOLEAN
    BY DEF AccountTypeOK, Request
  <2> QED BY <1>3, <1>6, <2>1 DEF RedeemInvitation, CompletePasswordReset, ResetExpired
<1> QED
  BY <1>1, <1>4, <1>5, <1>6
  DEF AccountsNext, Bootstrap, Administer, ManageAccount, ManageAccess, Proceed,
      TransitionAndRevoke, Restore, ChangeRole, RevokeAllSessions, Present,
      EstablishPassword, Login, SelectForSession, InsertSession,
      BeginMFAEnrollment, FinishMFAEnrollment, EnrollMFACredential, Fail,
      RevokeSession, Lapse, BridgeLapses, Restart, accountVars, tokenVars

\* What a revocation of all sessions leaves of SessionInv, requests being as they
\* were: the sessions in the table are revoked, the others are still to come.
LEMMA RevocationKeepsSessions ==
  ASSUME AccountTypeOK, SessionInv, RevokeAllSessionsTx, UNCHANGED requests
  PROVE  SessionInv'
  BY AccountsAssumption
  DEF AccountTypeOK, SessionInv, RevokeAllSessionsTx, RevokedSessions, SessionStates

\* A request that goes on carries no session before it inserts one.
LEMMA StepKeepsSessions ==
  ASSUME AccountTypeOK, SessionInv, NEW q \in Requests, requests[q].step # "insert",
         UNCHANGED <<sessions, cut>>,
         \/ \E step \in {"establish", "create", "finish", "enroll"} : Step(q, step)
         \/ EndRequest(q)
  PROVE  SessionInv'
  BY DEF AccountTypeOK, SessionInv, Step, EndRequest, IdleRequest, Request

\* Sessions are cut only as a whole, and opened only by the request that holds
\* their name.
LEMMA SessionStep ==
  ASSUME AccountTypeOK, SessionInv, [AccountsNext]_accountVars PROVE SessionInv'
<1> USE AccountsAssumption
<1>1. CASE UNCHANGED <<sessions, requests, cut>>
  BY <1>1 DEF SessionInv
<1>2. CASE RevokeAllSessionsTx /\ UNCHANGED requests
  BY <1>2, RevocationKeepsSessions
<1>3. ASSUME NEW q \in Requests, Proceed(q) PROVE SessionInv'
  <2>1. ASSUME NEW t \in Tokens, Present(q, t) PROVE SessionInv'
    BY <2>1 DEF AccountTypeOK, SessionInv, Present, Request
  <2>2. CASE RedeemInvitation(q) \/ EstablishPassword(q) \/ ResetExpired(q)
    BY <2>2, StepKeepsSessions DEF RedeemInvitation, EstablishPassword, ResetExpired
  <2>3. CASE CompletePasswordReset(q)
    BY <2>3 DEF AccountTypeOK, SessionInv, CompletePasswordReset, RevokeAllSessionsTx,
                RevokedSessions, SessionStates, EndRequest, IdleRequest
  <2>4. CASE Login(q) \/ BeginMFAEnrollment(q) \/ FinishMFAEnrollment(q) \/ EnrollMFACredential(q)
    BY <2>4, StepKeepsSessions
    DEF Login, BeginMFAEnrollment, FinishMFAEnrollment, EnrollMFACredential
  <2>5. ASSUME NEW s \in Sessions, SelectForSession(q, s) PROVE SessionInv'
    BY <2>5 DEF AccountTypeOK, SessionInv, SelectForSession, Request
  <2>6. CASE InsertSession(q)
    <3>1. /\ requests[q].session \in Sessions
          /\ requests[q].session \notin cut
          /\ \A o \in Requests \ {q} : requests[o].session # requests[q].session
      BY <2>6 DEF SessionInv, InsertSession
    <3> QED BY <2>6, <3>1
      DEF AccountTypeOK, SessionInv, InsertSession, EndRequest, IdleRequest
  <2>7. CASE Fail(q)
    BY <2>7 DEF AccountTypeOK, SessionInv, Fail, EndRequest, IdleRequest
  <2> QED BY <1>3, <2>1, <2>2, <2>3, <2>4, <2>5, <2>6, <2>7 DEF Proceed
<1>4. ASSUME NEW s \in Sessions, RevokeSession(s) PROVE SessionInv'
  BY <1>4 DEF AccountTypeOK, SessionInv, RevokeSession
<1>5. CASE Restart
  BY <1>5 DEF SessionInv, Restart, IdleRequest
<1> QED
  BY <1>1, <1>2, <1>3, <1>4, <1>5
  DEF AccountsNext, Bootstrap, Administer, ManageAccount, ManageAccess,
      CreateUserAndInvite, ResendInvitation, AdminReset, TransitionAndRevoke, Restore, ChangeRole,
      RevokeAllSessions, RequestPasswordReset, Lapse, BridgeLapses, accountVars

-----------------------------------------------------------------------------
(* The theorems.                                                           *)

\* The inductive invariant of one account, whatever its administrators, its user
\* and the requests under way do.
THEOREM AccountInvariant == AccountsSpec => []AccountInv
<1>1. AccountInv /\ [AccountsNext]_accountVars => AccountInv'
  BY TypeStep, PasswordStep, PendingStep, SessionStep DEF AccountInv
<1> QED BY <1>1, InitAccount, PTL DEF AccountsSpec

\* Redemption, resets, suspension and restoration in any order leave an active
\* account with a password and one that never logged in without.
THEOREM PasswordsMatch == AccountsSpec => []PasswordMatchesStatus
<1>1. AccountInv => PasswordMatchesStatus
  BY DEF AccountInv
<1> QED BY <1>1, AccountInvariant, PTL

\* The unique indexes on pending tokens are never tripped.
THEOREM OneTokenAtATime == AccountsSpec => []OnePendingToken
<1>1. AccountInv => OnePendingToken
  BY DEF AccountInv
<1> QED BY <1>1, AccountInvariant, PTL

\* No session there was when all sessions were revoked is ever open again.
THEOREM RevocationIsFinal == AccountsSpec => []CutSessionsStayShut
<1>1. AccountInv => CutSessionsStayShut
  BY DEF AccountInv, SessionInv, CutSessionsStayShut
<1> QED BY <1>1, AccountInvariant, PTL

\* One step out of password_change_required into active has passed the gate of
\* activateIfEligible.
LEMMA GatedStep ==
  ASSUME AccountInv, AccountInv', [AccountsNext]_accountVars,
         status = "password_change_required", status' = "active"
  PROVE  password' # 0 /\ (role \in MFARoles => enrolled')
<1>1. password' # 0
  BY DEF AccountInv, PasswordMatchesStatus
<1>2. PICK q \in Requests :
        EstablishPassword(q) \/ CompletePasswordReset(q) \/ EnrollMFACredential(q)
  BY DEF AccountsNext, Bootstrap, Administer, ManageAccount, ManageAccess, Proceed,
         CreateUserAndInvite, ResendInvitation, AdminReset, TransitionAndRevoke,
         Restore, ChangeRole, RevokeAllSessions, Present, RedeemInvitation,
         ResetExpired, Login, SelectForSession, InsertSession, BeginMFAEnrollment,
         FinishMFAEnrollment, Fail, RequestPasswordReset, RevokeSession, Lapse,
         BridgeLapses, Restart, accountVars, userVars
<1>3. CASE EstablishPassword(q) \/ CompletePasswordReset(q)
  BY <1>1, <1>3, ActivatedStates
  DEF AccountInv, AccountTypeOK, EstablishPassword, CompletePasswordReset, Eligible
<1>4. CASE EnrollMFACredential(q)
  BY <1>1, <1>4 DEF EnrollMFACredential
<1> QED BY <1>2, <1>3, <1>4

\* The gate holds for every role, request and token.
THEOREM ActivationPassesTheGate == AccountsSpec => ActivationIsGated
<1>1. AccountInv /\ AccountInv' /\ [AccountsNext]_accountVars =>
        [status = "password_change_required" /\ status' = "active" =>
           password' # 0 /\ (role \in MFARoles => enrolled')]_accountVars
  BY GatedStep
<1> QED BY <1>1, AccountInvariant, PTL DEF AccountsSpec, ActivationIsGated

-----------------------------------------------------------------------------
(* What passwords are paid for with.                                       *)

Establishing == Underway("establish")
Redeemed     == {t \in Tokens : tokens[t] = "redeemed"}

\* Who is about to redeem a token has one, and those who still have a password
\* to come are finitely many, however many requests there may be.
PaidInv ==
  /\ \A q \in Requests : requests[q].step \in {"redeem", "reset"} => requests[q].token \in Tokens
  /\ IsFiniteSet(Establishing)
  /\ PasswordsArePaidFor

\* The three numbers are numbers.
LEMMA Countable ==
  ASSUME AccountTypeOK, PaidInv
  PROVE  /\ made \in Nat /\ Cardinality(Establishing) \in Nat
         /\ IsFiniteSet(Redeemed) /\ Cardinality(Redeemed) \in Nat
         /\ made + Cardinality(Establishing) <= Cardinality(Redeemed)
<1>1. IsFiniteSet(Tokens)
  BY AccountsAssumption, FS_Union DEF Tokens
<1>2. IsFiniteSet(Redeemed)
  BY <1>1, FS_Subset DEF Redeemed
<1>3. made + Cardinality(Establishing) <= Cardinality(Redeemed)
  BY DEF PaidInv, PasswordsArePaidFor, Establishing, Redeemed
<1>4. made \in Nat /\ IsFiniteSet(Establishing)
  BY DEF AccountTypeOK, PaidInv
<1> QED BY <1>2, <1>3, <1>4, FS_CardinalityType

\* Whoever adds to the one side adds to the other.
LEMMA Balance ==
  ASSUME AccountTypeOK, PaidInv,
         \/ made' = made /\ Establishing' \subseteq Establishing /\ Redeemed' = Redeemed
         \/ \E q, t : /\ made' = made /\ Establishing' = Establishing \cup {q}
                      /\ Redeemed' = Redeemed \cup {t} /\ t \notin Redeemed
         \/ \E q \in Establishing : /\ made' = made + 1
                                    /\ Establishing' = Establishing \ {q}
                                    /\ Redeemed' = Redeemed
         \/ \E t \in Tokens \ Redeemed : /\ made' = made + 1
                                         /\ Establishing' = Establishing
                                         /\ Redeemed' = Redeemed \cup {t}
  PROVE  IsFiniteSet(Establishing') /\ PasswordsArePaidFor'
<1>0. IsFiniteSet(Establishing)
  BY DEF PaidInv
<1>1. CASE made' = made /\ Establishing' \subseteq Establishing /\ Redeemed' = Redeemed
  <2>1. /\ IsFiniteSet(Establishing')
        /\ Cardinality(Establishing') <= Cardinality(Establishing)
        /\ Cardinality(Establishing') \in Nat
    BY <1>0, <1>1, FS_Subset, FS_CardinalityType
  <2>2. made' + Cardinality(Establishing') <= Cardinality(Redeemed')
    BY <1>1, <2>1, Countable
  <2> QED BY <2>1, <2>2 DEF PasswordsArePaidFor, Establishing, Redeemed
<1>2. ASSUME NEW q, NEW t, made' = made, Establishing' = Establishing \cup {q},
             Redeemed' = Redeemed \cup {t}, t \notin Redeemed
      PROVE  IsFiniteSet(Establishing') /\ PasswordsArePaidFor'
  <2>1. /\ IsFiniteSet(Establishing \cup {q})
        /\ Cardinality(Establishing \cup {q})
             \in {Cardinality(Establishing), Cardinality(Establishing) + 1}
    BY <1>0, FS_AddElement
  <2>2. Cardinality(Redeemed \cup {t}) = Cardinality(Redeemed) + 1
    BY <1>2, Countable, FS_AddElement
  <2>3. made' + Cardinality(Establishing') <= Cardinality(Redeemed')
    BY <1>2, <2>1, <2>2, Countable
  <2> QED BY <1>2, <2>1, <2>3 DEF PasswordsArePaidFor, Establishing, Redeemed
<1>3. ASSUME NEW q \in Establishing, made' = made + 1, Establishing' = Establishing \ {q},
             Redeemed' = Redeemed
      PROVE  IsFiniteSet(Establishing') /\ PasswordsArePaidFor'
  <2>1. /\ IsFiniteSet(Establishing \ {q})
        /\ Cardinality(Establishing \ {q}) = Cardinality(Establishing) - 1
    BY <1>0, FS_RemoveElement
  <2>2. made' + Cardinality(Establishing') <= Cardinality(Redeemed')
    BY <1>3, <2>1, Countable
  <2> QED BY <1>3, <2>1, <2>2 DEF PasswordsArePaidFor, Establishing, Redeemed
<1>4. ASSUME NEW t \in Tokens \ Redeemed, made' = made + 1, Establishing' = Establishing,
             Redeemed' = Redeemed \cup {t}
      PROVE  IsFiniteSet(Establishing') /\ PasswordsArePaidFor'
  <2>1. Cardinality(Redeemed \cup {t}) = Cardinality(Redeemed) + 1
    BY Countable, FS_AddElement
  <2>2. made' + Cardinality(Establishing') <= Cardinality(Redeemed')
    BY <1>4, <2>1, Countable
  <2> QED BY <1>0, <1>4, <2>2 DEF PasswordsArePaidFor, Establishing, Redeemed
<1> QED BY <1>1, <1>2, <1>3, <1>4

\* Issuing touches no redeemed token, and claiming one makes it redeemed in time
\* or expired.
LEMMA TokensTurn ==
  ASSUME AccountTypeOK
  PROVE  /\ \A kind \in SUBSET Tokens : \A t \in Tokens :
              tokens[t] = "unissued" /\ tokens' = Issued(t, kind) => Redeemed' = Redeemed
         /\ \A t \in Tokens : tokens[t] = "pending" =>
              /\ t \notin Redeemed
              /\ tokens' = Claimed(t, TRUE) => Redeemed' = Redeemed \cup {t}
              /\ tokens' = Claimed(t, FALSE) => Redeemed' = Redeemed
<1>1. ASSUME NEW kind \in SUBSET Tokens, NEW t \in Tokens, tokens[t] = "unissued",
             tokens' = Issued(t, kind)
      PROVE  Redeemed' = Redeemed
  BY <1>1 DEF Redeemed, Issued, PendingOf
<1>2. ASSUME NEW t \in Tokens, tokens[t] = "pending"
      PROVE  /\ t \notin Redeemed
             /\ tokens' = Claimed(t, TRUE) => Redeemed' = Redeemed \cup {t}
             /\ tokens' = Claimed(t, FALSE) => Redeemed' = Redeemed
  BY <1>2 DEF AccountTypeOK, Redeemed, Claimed
<1> QED BY <1>1, <1>2

\* A request that goes on somewhere but to a password is not counted.
LEMMA RequestsTurn ==
  ASSUME AccountTypeOK, PaidInv, NEW q \in Requests
  PROVE  /\ \A step \in {"create", "finish", "enroll"} :
              Step(q, step) => Establishing' \subseteq Establishing
         /\ EndRequest(q) => Establishing' = Establishing \ {q}
         /\ Step(q, "establish") => Establishing' = Establishing \cup {q}
         /\ (\E step \in {"create", "finish", "enroll", "establish"} : Step(q, step))
              \/ EndRequest(q) =>
              \A o \in Requests : requests'[o].step \in {"redeem", "reset"} =>
                requests'[o].token \in Tokens
<1>1. ASSUME NEW step \in {"create", "finish", "enroll", "establish"}, Step(q, step)
      PROVE  \A o \in Requests :
               /\ requests'[o].step = IF o = q THEN step ELSE requests[o].step
               /\ requests'[o].token = requests[o].token
  BY <1>1 DEF AccountTypeOK, Step, Request
<1>2. ASSUME EndRequest(q)
      PROVE  \A o \in Requests :
               /\ requests'[o].step = IF o = q THEN "idle" ELSE requests[o].step
               /\ o # q => requests'[o].token = requests[o].token
  BY <1>2 DEF AccountTypeOK, EndRequest, IdleRequest
<1>3. \A step \in {"create", "finish", "enroll"} :
        Step(q, step) => Establishing' \subseteq Establishing
  BY <1>1 DEF Establishing, Underway
<1>4. EndRequest(q) => Establishing' = Establishing \ {q}
  BY <1>2 DEF Establishing, Underway
<1>5. Step(q, "establish") => Establishing' = Establishing \cup {q}
  BY <1>1 DEF Establishing, Underway
<1>6. ASSUME \/ \E step \in {"create", "finish", "enroll", "establish"} : Step(q, step)
             \/ EndRequest(q)
      PROVE  \A o \in Requests : requests'[o].step \in {"redeem", "reset"} =>
               requests'[o].token \in Tokens
  BY <1>1, <1>2, <1>6 DEF PaidInv
<1> QED BY <1>3, <1>4, <1>5, <1>6

\* A redemption spends a token and owes a password; setting it pays; a reset in
\* time does both at once.
LEMMA PaidStep ==
  ASSUME AccountTypeOK, PaidInv, [AccountsNext]_accountVars PROVE PaidInv'
<1>. DEFINE Holding == \A q \in Requests : requests[q].step \in {"redeem", "reset"} =>
                         requests[q].token \in Tokens
<1>0. Holding' /\ IsFiniteSet(Establishing') /\ PasswordsArePaidFor' => PaidInv'
  BY DEF PaidInv
<1>1. CASE UNCHANGED <<requests, made, tokens>>
  <2>1. Holding' /\ Establishing' = Establishing /\ Redeemed' = Redeemed /\ made' = made
    BY <1>1 DEF PaidInv, Establishing, Underway, Redeemed
  <2> QED BY <1>0, <2>1, Balance
<1>2. ASSUME NEW t \in Tokens, NEW kind \in SUBSET Tokens, tokens[t] = "unissued",
             tokens' = Issued(t, kind), UNCHANGED <<requests, made>>
      PROVE  PaidInv'
  <2>1. Holding' /\ Establishing' = Establishing
    BY <1>2 DEF PaidInv, Establishing, Underway
  <2>2. Redeemed' = Redeemed
    BY <1>2, TokensTurn
  <2> QED BY <1>0, <1>2, <2>1, <2>2, Balance
<1>3. ASSUME NEW q \in Requests, Proceed(q) PROVE PaidInv'
  <2>1. ASSUME NEW t \in Tokens, Present(q, t) PROVE PaidInv'
    <3>. DEFINE asked == [step |-> IF t \in Invitations THEN "redeem" ELSE "reset",
                          token |-> t, session |-> None, fresh |-> t \notin lapsed]
    <3>1. /\ requests' = [requests EXCEPT ![q] = asked] /\ asked.token = t
          /\ asked.step # "establish" /\ UNCHANGED <<made, tokens>>
      BY <2>1 DEF Present, tokenVars
    <3>. HIDE DEF asked
    <3>2. \A o \in Requests : requests'[o] = IF o = q THEN asked ELSE requests[o]
      BY <3>1 DEF AccountTypeOK
    <3>3. Establishing' \subseteq Establishing /\ Redeemed' = Redeemed
      BY <3>1, <3>2 DEF Establishing, Underway, Redeemed
    <3>4. Holding'
      BY <3>1, <3>2 DEF PaidInv
    <3> QED BY <1>0, <3>1, <3>3, <3>4, Balance
  <2>2. CASE RedeemInvitation(q)
    <3>. DEFINE t == requests[q].token
    <3>1. /\ t \in Tokens /\ tokens[t] = "pending" /\ made' = made
          /\ q \notin Establishing
      BY <2>2 DEF RedeemInvitation, PaidInv, Establishing, Underway
    <3>2. CASE requests[q].fresh
      <4>1. tokens' = Claimed(t, requests[q].fresh) /\ Step(q, "establish")
        BY <2>2, <3>2 DEF RedeemInvitation
      <4>2. requests[q].fresh = TRUE
        BY <3>2 DEF AccountTypeOK, Request
      <4>3. Redeemed' = Redeemed \cup {t} /\ t \notin Redeemed
        BY <3>1, <4>1, <4>2, TokensTurn
      <4>4. Establishing' = Establishing \cup {q} /\ Holding'
        BY <4>1, RequestsTurn
      <4> QED BY <1>0, <3>1, <4>3, <4>4, Balance
    <3>3. CASE ~requests[q].fresh
      <4>1. tokens' = Claimed(t, requests[q].fresh) /\ EndRequest(q)
        BY <2>2, <3>3 DEF RedeemInvitation
      <4>2. requests[q].fresh = FALSE
        BY <3>3 DEF AccountTypeOK, Request
      <4>3. Redeemed' = Redeemed
        BY <3>1, <4>1, <4>2, TokensTurn
      <4>4. Establishing' = Establishing \ {q} /\ Holding'
        BY <4>1, RequestsTurn
      <4> QED BY <1>0, <3>1, <4>3, <4>4, Balance
    <3> QED BY <3>2, <3>3
  <2>3. CASE EstablishPassword(q)
    <3>1. made' = made + 1 /\ EndRequest(q) /\ tokens' = tokens /\ q \in Establishing
      BY <2>3 DEF EstablishPassword, SetPassword, tokenVars, Establishing, Underway
    <3>2. Redeemed' = Redeemed /\ Establishing' = Establishing \ {q} /\ Holding'
      BY <3>1, RequestsTurn DEF Redeemed
    <3> QED BY <1>0, <3>1, <3>2, Balance
  <2>4. CASE CompletePasswordReset(q) \/ ResetExpired(q)
    <3>. DEFINE t == requests[q].token
    <3>1. /\ t \in Tokens /\ tokens[t] = "pending" /\ q \notin Establishing /\ EndRequest(q)
      BY <2>4 DEF CompletePasswordReset, ResetExpired, PaidInv, Establishing, Underway
    <3>2. Establishing' = Establishing /\ Holding'
      BY <3>1, RequestsTurn
    <3>3. CASE CompletePasswordReset(q)
      <4>1. tokens' = Claimed(t, TRUE) /\ made' = made + 1
        BY <3>3 DEF CompletePasswordReset, SetPassword
      <4>2. Redeemed' = Redeemed \cup {t} /\ t \notin Redeemed
        BY <3>1, <4>1, TokensTurn
      <4> QED BY <1>0, <3>1, <3>2, <4>1, <4>2, Balance
    <3>4. CASE ResetExpired(q)
      <4>1. tokens' = Claimed(t, FALSE) /\ made' = made
        BY <3>4 DEF ResetExpired
      <4>2. Redeemed' = Redeemed
        BY <3>1, <4>1, TokensTurn
      <4> QED BY <1>0, <3>2, <4>1, <4>2, Balance
    <3> QED BY <2>4, <3>3, <3>4
  <2>5. CASE Login(q) \/ BeginMFAEnrollment(q) \/ FinishMFAEnrollment(q)
             \/ InsertSession(q) \/ EnrollMFACredential(q) \/ Fail(q)
    <3>1. /\ UNCHANGED <<made, tokens>>
          /\ (\E step \in {"create", "finish", "enroll"} : Step(q, step)) \/ EndRequest(q)
      BY <2>5 DEF Login, BeginMFAEnrollment, FinishMFAEnrollment, InsertSession,
                  EnrollMFACredential, Fail, tokenVars
    <3>2. Establishing' \subseteq Establishing /\ Holding'
      BY <3>1, RequestsTurn
    <3>3. Redeemed' = Redeemed
      BY <3>1 DEF Redeemed
    <3> QED BY <1>0, <3>1, <3>2, <3>3, Balance
  <2>6. ASSUME NEW s \in Sessions, SelectForSession(q, s) PROVE PaidInv'
    <3>1. /\ requests' = [requests EXCEPT ![q].step = "insert", ![q].session = s]
          /\ UNCHANGED <<made, tokens>>
      BY <2>6 DEF SelectForSession, tokenVars
    <3>2. \A o \in Requests : /\ requests'[o].step = IF o = q THEN "insert" ELSE requests[o].step
                              /\ requests'[o].token = requests[o].token
      BY <3>1 DEF AccountTypeOK, Request
    <3>3. Establishing' \subseteq Establishing
      BY <3>2 DEF Establishing, Underway
    <3>4. UNCHANGED <<made, tokens>>
      BY <2>6 DEF SelectForSession, tokenVars
    <3>5. Redeemed' = Redeemed
      BY <3>4 DEF Redeemed
    <3>6. Holding'
      BY <3>2 DEF PaidInv
    <3> QED BY <1>0, <3>3, <3>4, <3>5, <3>6, Balance
  <2> QED BY <1>3, <2>1, <2>2, <2>3, <2>4, <2>5, <2>6 DEF Proceed
<1>4. CASE Restart
  <2>1. /\ \A q \in Requests : requests'[q].step = "idle"
        /\ UNCHANGED <<made, tokens>>
    BY <1>4 DEF Restart, IdleRequest, tokenVars
  <2>2. Holding' /\ Establishing' \subseteq Establishing /\ Redeemed' = Redeemed
    BY <2>1 DEF Establishing, Underway, Redeemed
  <2> QED BY <1>0, <2>1, <2>2, Balance
<1>5. ASSUME NEW i \in Invitations,
             CreateUserAndInvite(i) \/ ResendInvitation(i) \/ AdminReset(i)
      PROVE  PaidInv'
  <2>1. /\ i \in Tokens /\ Invitations \in SUBSET Tokens
        /\ tokens[i] = "unissued" /\ tokens' = Issued(i, Invitations)
        /\ UNCHANGED <<requests, made>>
    BY <1>5 DEF CreateUserAndInvite, ResendInvitation, AdminReset, Tokens
  <2> QED BY <1>2, <2>1
<1>6. ASSUME NEW t \in Resets, RequestPasswordReset(t) PROVE PaidInv'
  <2>1. /\ t \in Tokens /\ Resets \in SUBSET Tokens
        /\ tokens[t] = "unissued" /\ tokens' = Issued(t, Resets)
        /\ UNCHANGED <<requests, made>>
    BY <1>6 DEF RequestPasswordReset, Tokens
  <2> QED BY <1>2, <2>1
<1> QED
  BY <1>1, <1>3, <1>4, <1>5, <1>6
  DEF AccountsNext, Bootstrap, Administer, ManageAccount, ManageAccess,
      TransitionAndRevoke, Restore, ChangeRole, RevokeAllSessions, RevokeSession,
      Lapse, BridgeLapses, accountVars, tokenVars

\* However redemptions are interrupted, and whatever is issued meanwhile, no
\* token buys two passwords, and no password comes without one.
THEOREM EveryPasswordIsPaidFor == AccountsSpec => []PasswordsArePaidFor
<1>1. AccountsInit => PaidInv
  <2> SUFFICES ASSUME AccountsInit PROVE PaidInv
    OBVIOUS
  <2>1. Establishing = {} /\ Redeemed = {} /\ made = 0
    BY DEF AccountsInit, IdleRequest, Establishing, Underway, Redeemed
  <2>2. IsFiniteSet(Establishing) /\ made + Cardinality(Establishing) <= Cardinality(Redeemed)
    BY <2>1, FS_EmptySet
  <2>3. PasswordsArePaidFor
    BY <2>2 DEF PasswordsArePaidFor, Establishing, Redeemed
  <2> QED BY <2>2, <2>3 DEF PaidInv, AccountsInit, IdleRequest
<1>2. AccountInv /\ PaidInv /\ [AccountsNext]_accountVars => PaidInv'
  BY PaidStep DEF AccountInv
<1>3. PaidInv => PasswordsArePaidFor
  BY DEF PaidInv
<1> QED BY <1>1, <1>2, <1>3, AccountInvariant, PTL DEF AccountsSpec

-----------------------------------------------------------------------------
(* The requests of administrators, over any number of accounts and of      *)
(* departments, and any number of requests under way together.  What is    *)
(* inductive is what a decision leaves behind: the accounts move on, the   *)
(* principal and the order do not.                                         *)

\* What the service found when it decided still says who asked: an
\* administrator in a verified session, for an order that is not about the
\* asker's own account, and for a position the asker may give.
Granted(actor, order) ==
  /\ IsAdministrator(actor.role) /\ actor.verified
  /\ ~ SelfAction(actor, order)
  /\ order.op \in {"role", "create"} => CanAssignRole(actor, order.position)

\* What is known of a request under way, by the time others have come between.
CallInv(c) ==
  /\ UnderWay(c) =>
       /\ accounts[calls[c].actor.user].status # "absent"
       /\ IsAdministrator(calls[c].actor.role) => calls[c].actor.verified
  /\ calls[c].step = "decided" => Granted(calls[c].actor, calls[c].order)

AdministrationInv ==
  /\ AdministrationTypeOK
  /\ \A c \in Calls : CallInv(c)

\* Accounts after bootstrap-admin and before any request satisfy it.
LEMMA InitAdministration == AdministrationInit => AdministrationInv
<1> SUFFICES ASSUME AdministrationInit PROVE AdministrationInv
  OBVIOUS
<1>1. AdministrationTypeOK
  BY DEF AdministrationInit, AdministrationTypeOK, CallStates
<1>2. \A c \in Calls : CallInv(c)
  BY DEF AdministrationInit, CallInv, UnderWay, Waiting
<1> QED BY <1>1, <1>2 DEF AdministrationInv

\* The fields of a request, by how far it is.
LEMMA CallFields ==
  ASSUME AdministrationTypeOK, NEW c \in Calls
  PROVE  /\ calls[c].step \in {"idle", "admitted", "decided"}
         /\ UnderWay(c) => calls[c].actor \in Principals
         /\ calls[c].step = "decided" => calls[c].order \in Orders
<1>1. calls[c] \in CallStates
  BY DEF AdministrationTypeOK
<1>2. CASE calls[c] = Waiting
  BY <1>2 DEF Waiting, UnderWay
<1>3. CASE calls[c] \in [step : {"admitted"}, actor : Principals]
  BY <1>3 DEF UnderWay
<1>4. CASE calls[c] \in [step : {"decided"}, actor : Principals, order : Orders]
  BY <1>4 DEF UnderWay
<1> QED BY <1>1, <1>2, <1>3, <1>4 DEF CallStates

\* What performing an order does to the account it is about: nothing, or it
\* moves the status of an account that is there and, unless it was locked, is
\* not the asker's own; or it gives a position that the asker may give.
LEMMA OrderIsPerformed ==
  ASSUME AdministrationInv, NEW c \in Calls, Perform(c),
         NEW t, t = calls[c].order.target
  PROVE  /\ t \in Users
         /\ \A v \in Users : v # t => accounts'[v] = accounts[v]
         /\ \/ accounts'[t] = accounts[t]
            \/ /\ accounts[t].status # "absent"
               /\ accounts[t].status = "active" => calls[c].actor.user # t
               /\ accounts'[t].role = accounts[t].role
               /\ accounts'[t].scope = accounts[t].scope
            \/ /\ calls[c].actor.user # t
               /\ CanAssignRole(calls[c].actor, calls[c].order.position)
               /\ accounts'[t].role = calls[c].order.position.role
               /\ accounts'[t].scope = calls[c].order.position.scope
         /\ accounts' \in [Users -> Account]
         /\ accounts[t].status # "absent" => accounts'[t].status # "absent"
<1> DEFINE order == calls[c].order
           actor == calls[c].actor
<1>1. /\ order \in Orders /\ actor \in Principals
      /\ Granted(actor, order) /\ accounts[actor.user].status # "absent"
  BY CallFields DEF AdministrationInv, CallInv, Perform, UnderWay
<1>2. /\ t \in Users /\ accounts \in [Users -> Account]
      /\ accounts[t] \in Account
  BY <1>1 DEF AdministrationInv, AdministrationTypeOK, Orders, TargetedOrders,
              RoleOrders, CreateOrders
<1>3. CASE order.op = "lock" /\ Lock(t)
  <2>1. accounts' = [accounts EXCEPT ![t].status = "locked"] /\ accounts[t].status # "absent"
    BY <1>3 DEF Lock
  <2>2. actor.user # t
    BY <1>1, <1>3 DEF Granted, SelfAction
  <2> QED BY <1>2, <2>1, <2>2 DEF Account
<1>4. CASE order.op \in {"restore", "resend"} /\ RestoreOrResend(t, order.op)
  <2>1. accounts[t].status = "locked"
    BY <1>4 DEF RestoreOrResend
  <2>2. PICK after \in {"locked", "active"} :
          accounts' = [accounts EXCEPT ![t].status = after]
    BY <1>4 DEF RestoreOrResend
  <2> QED BY <1>2, <2>1, <2>2 DEF Account
<1>5. CASE order.op = "revoke" /\ Revoke(t)
  BY <1>2, <1>5 DEF Revoke
<1>6. CASE order.op = "role" /\ Reassign(t, order.position)
  <2>1. order.position \in [role : AccountRoles, scope : Scopes]
    BY <1>1, <1>6, AdministrationAssumption
    DEF Orders, TargetedOrders, RoleOrders, CreateOrders
  <2>2. actor.user # t /\ CanAssignRole(actor, order.position)
    BY <1>1, <1>6 DEF Granted, SelfAction
  <2>3. /\ accounts[t].status # "absent"
        /\ accounts' = [accounts EXCEPT ![t].role = order.position.role,
                                        ![t].scope = order.position.scope]
    BY <1>6 DEF Reassign
  <2> QED BY <1>2, <2>1, <2>2, <2>3 DEF Account
<1>7. CASE order.op = "create" /\ Create(t, order.position)
  <2>1. order.position \in [role : AccountRoles, scope : Scopes]
    BY <1>1, <1>7, AdministrationAssumption
    DEF Orders, TargetedOrders, RoleOrders, CreateOrders
  <2>2. /\ accounts[t].status = "absent"
        /\ accounts' = [accounts EXCEPT ![t] = [role   |-> order.position.role,
                                                scope  |-> order.position.scope,
                                                status |-> "locked"]]
    BY <1>7 DEF Create
  <2>3. actor.user # t
    BY <1>1, <2>2
  <2>4. CanAssignRole(actor, order.position)
    BY <1>1, <1>7 DEF Granted
  <2> QED BY <1>2, <2>1, <2>2, <2>3, <2>4 DEF Account
<1> HIDE DEF order, actor
<1> QED BY <1>3, <1>4, <1>5, <1>6, <1>7 DEF Perform, order, actor

\* No account is deleted.
LEMMA AccountsStay ==
  ASSUME AdministrationInv, [AdministrationNext]_administrationVars
  PROVE  /\ accounts' \in [Users -> Account]
         /\ \A u \in Users : accounts[u].status # "absent" => accounts'[u].status # "absent"
<1> USE DEF AdministrationInv, AdministrationTypeOK
<1>1. ASSUME NEW c \in Calls, Perform(c) PROVE
        /\ accounts' \in [Users -> Account]
        /\ \A u \in Users : accounts[u].status # "absent" => accounts'[u].status # "absent"
  BY <1>1, OrderIsPerformed
<1>2. ASSUME NEW u \in Users, Complete(u) PROVE
        /\ accounts' \in [Users -> Account]
        /\ \A v \in Users : accounts[v].status # "absent" => accounts'[v].status # "absent"
  BY <1>2 DEF Complete, Account
<1>3. CASE UNCHANGED accounts
  BY <1>3
<1> QED
  BY <1>1, <1>2, <1>3
  DEF AdministrationNext, Admit, Decide, Refused, SignIn, Verify, SignOut,
      administrationVars

\* What a request that moves on does to the table of requests.
LEMMA CallsMove ==
  ASSUME AdministrationTypeOK, NEW c \in Calls, NEW state,
         calls' = [calls EXCEPT ![c] = state]
  PROVE  /\ calls'[c] = state
         /\ \A d \in Calls : d # c => calls'[d] = calls[d]
BY DEF AdministrationTypeOK

\* What the middleware puts into the request.
LEMMA PrincipalIsTyped ==
  ASSUME AdministrationTypeOK, NEW u \in Users
  PROVE  /\ Principal(u) \in Principals
         /\ Principal(u).user = u /\ Principal(u).role = accounts[u].role
         /\ Principal(u).verified = (signedIn[u] = "verified")
BY DEF AdministrationTypeOK, Account, Principal, Principals

\* A decision for the order is what Granted says, by the account of that time.
LEMMA DecisionGrants ==
  ASSUME NEW actor \in Principals, NEW order \in Orders,
         IsAdministrator(actor.role) => actor.verified,
         IF order.op = "create" THEN MayCreate(actor, order) ELSE MayManage(actor, order)
  PROVE  Granted(actor, order)
<1>1. IsAdministrator(actor.role)
  BY DEF MayCreate, MayManage, Allowed, Reach, IsAdministrator
<1>2. ~ SelfAction(actor, order)
  BY DEF MayManage, SelfAction
<1>3. order.op \in {"role", "create"} => CanAssignRole(actor, order.position)
  BY DEF MayManage, MayCreate
<1> QED BY <1>1, <1>2, <1>3 DEF Granted

LEMMA AdministrationStep ==
  AdministrationInv /\ [AdministrationNext]_administrationVars => AdministrationInv'
<1> SUFFICES ASSUME AdministrationInv, [AdministrationNext]_administrationVars
             PROVE  AdministrationInv'
  OBVIOUS
<1>0. /\ AdministrationTypeOK
      /\ accounts' \in [Users -> Account]
      /\ \A u \in Users : accounts[u].status # "absent" => accounts'[u].status # "absent"
  BY AccountsStay DEF AdministrationInv
<1>1. signedIn' \in [Users -> {"none", "open", "verified"}]
  BY <1>0
  DEF AdministrationNext, Admit, Decide, Perform, Lock, RestoreOrResend, Revoke,
      Reassign, Create, Refused, Complete, SignIn, Verify, SignOut,
      administrationVars, AdministrationTypeOK
<1> DEFINE Fit(state) ==
      /\ state \in CallStates
      /\ state.step # "idle" =>
           /\ state.actor \in Principals
           /\ accounts[state.actor.user].status # "absent"
           /\ IsAdministrator(state.actor.role) => state.actor.verified
      /\ state.step = "decided" => Granted(state.actor, state.order)
\* A request that was fit stays so, whatever becomes of the accounts.
<1>2. \A state : Fit(state) =>
        /\ state \in CallStates
        /\ state.step # "idle" =>
             /\ accounts'[state.actor.user].status # "absent"
             /\ IsAdministrator(state.actor.role) => state.actor.verified
        /\ state.step = "decided" => Granted(state.actor, state.order)
  BY <1>0 DEF Principals
<1>3. \A c \in Calls : Fit(calls[c])
  BY <1>0, CallFields DEF AdministrationInv, AdministrationTypeOK, CallInv, UnderWay
<1>4. ASSUME calls' \in [Calls -> CallStates], \A c \in Calls : Fit(calls'[c])
      PROVE  AdministrationInv'
  <2>1. AdministrationTypeOK'
    BY <1>0, <1>1, <1>4 DEF AdministrationTypeOK
  <2>2. ASSUME NEW c \in Calls PROVE CallInv(c)'
    <3>1. Fit(calls'[c])
      BY <1>4
    <3> HIDE DEF Fit
    <3> QED BY <1>2, <3>1 DEF CallInv, UnderWay, Granted, CanAssignRole, Allowed, SelfAction
  <2> QED BY <2>1, <2>2 DEF AdministrationInv
<1>5. ASSUME NEW c \in Calls, NEW state, Fit(state),
             calls' = [calls EXCEPT ![c] = state]
      PROVE  AdministrationInv'
  <2>1. calls' \in [Calls -> CallStates]
    BY <1>0, <1>5 DEF AdministrationTypeOK
  <2>2. \A d \in Calls : Fit(calls'[d])
    BY <1>0, <1>3, <1>5, CallsMove
  <2> QED BY <1>4, <2>1, <2>2
<1>6. Fit(Waiting)
  BY DEF CallStates, Waiting
<1>7. ASSUME NEW c \in Calls, Admit(c) PROVE AdministrationInv'
  <2>1. PICK u \in Users :
          /\ accounts[u].status = "active"
          /\ IsAdministrator(accounts[u].role) => signedIn[u] = "verified"
          /\ calls' = [calls EXCEPT ![c] = Admitted(Principal(u))]
    BY <1>7 DEF Admit
  <2>2. Fit(Admitted(Principal(u)))
    BY <1>0, <2>1, PrincipalIsTyped DEF Admitted, CallStates
  <2> QED BY <1>5, <2>1, <2>2
<1>8. ASSUME NEW c \in Calls, Decide(c) PROVE AdministrationInv'
  <2>1. PICK order \in Orders :
          LET granted == IF order.op = "create" THEN MayCreate(Actor(c), order)
                         ELSE MayManage(Actor(c), order)
          IN  calls' = [calls EXCEPT ![c] = IF granted THEN Decided(Actor(c), order) ELSE Waiting]
    BY <1>8 DEF Decide
  <2> DEFINE granted == IF order.op = "create" THEN MayCreate(Actor(c), order)
                        ELSE MayManage(Actor(c), order)
  <2>2. /\ Actor(c) \in Principals /\ accounts[Actor(c).user].status # "absent"
        /\ IsAdministrator(Actor(c).role) => Actor(c).verified
    BY <1>3, <1>8 DEF Decide, Actor
  <2>3. ASSUME granted PROVE Fit(Decided(Actor(c), order))
    <3>1. Granted(Actor(c), order)
      BY <2>2, <2>3, DecisionGrants
    <3> QED BY <2>2, <3>1 DEF Decided, CallStates
  <2> QED BY <1>5, <1>6, <2>1, <2>3
<1>9. ASSUME NEW c \in Calls, Perform(c) \/ Refused(c) PROVE AdministrationInv'
  <2>1. calls' = [calls EXCEPT ![c] = Waiting]
    BY <1>9 DEF Perform, Refused
  <2> QED BY <1>5, <1>6, <2>1
<1>10. CASE UNCHANGED calls
  <2>1. calls' \in [Calls -> CallStates]
    BY <1>0, <1>10 DEF AdministrationTypeOK
  <2>2. \A c \in Calls : Fit(calls'[c])
    BY <1>3, <1>10
  <2> QED BY <1>4, <2>1, <2>2
<1> QED
  BY <1>7, <1>8, <1>9, <1>10
  DEF AdministrationNext, Complete, SignIn, Verify, SignOut, administrationVars

\* The rows keep their types, and who decided was entitled to.
THEOREM AdministrationInvariant == AdministrationSpec => []AdministrationInv
BY InitAdministration, AdministrationStep, PTL DEF AdministrationSpec

\* The actions that leave the accounts alone, and who asks for what.
LEMMA RequestsComeAndGo ==
  ASSUME AdministrationInv, [AdministrationNext]_administrationVars,
         \A c \in Calls : ~ Perform(c), \A u \in Users : ~ Complete(u)
  PROVE  /\ accounts' = accounts
         /\ \A c \in Calls : UnderWay(c)' =>
              \/ UnderWay(c) /\ calls'[c].actor = calls[c].actor
              \/ \E u \in Users : /\ accounts[u].status # "absent"
                                  /\ calls'[c].actor.user = u
                                  /\ calls'[c].actor.role = accounts[u].role
<1>0. AdministrationTypeOK
  BY DEF AdministrationInv
<1> DEFINE Continued(c) ==
      UnderWay(c)' =>
        \/ UnderWay(c) /\ calls'[c].actor = calls[c].actor
        \/ \E u \in Users : /\ accounts[u].status # "absent"
                            /\ calls'[c].actor.user = u
                            /\ calls'[c].actor.role = accounts[u].role
<1>1. ASSUME NEW c \in Calls, calls'[c] = calls[c] PROVE Continued(c)
  BY <1>1 DEF UnderWay
<1>2. ASSUME NEW c \in Calls, Admit(c)
      PROVE  accounts' = accounts /\ \A d \in Calls : Continued(d)
  <2>1. PICK u \in Users : /\ accounts[u].status = "active"
                           /\ calls' = [calls EXCEPT ![c] = Admitted(Principal(u))]
    BY <1>2 DEF Admit
  <2>2. calls'[c] = Admitted(Principal(u)) /\ \A d \in Calls : d # c => calls'[d] = calls[d]
    BY <1>0, <2>1, CallsMove
  <2>3. Continued(c)
    BY <1>0, <2>1, <2>2, PrincipalIsTyped DEF Admitted
  <2> QED BY <1>1, <1>2, <2>2, <2>3 DEF Admit
<1>3. ASSUME NEW c \in Calls, Decide(c)
      PROVE  accounts' = accounts /\ \A d \in Calls : Continued(d)
  <2>1. PICK state : /\ calls' = [calls EXCEPT ![c] = state]
                     /\ \/ state = Waiting
                        \/ \E order \in Orders : state = Decided(Actor(c), order)
    BY <1>3 DEF Decide
  <2>2. calls'[c] = state /\ \A d \in Calls : d # c => calls'[d] = calls[d]
    BY <1>0, <2>1, CallsMove
  <2>3. Continued(c)
    BY <1>3, <2>1, <2>2 DEF Decide, UnderWay, Waiting, Decided, Actor
  <2> QED BY <1>1, <1>3, <2>2, <2>3 DEF Decide
<1>4. ASSUME NEW c \in Calls, Refused(c)
      PROVE  accounts' = accounts /\ \A d \in Calls : Continued(d)
  <2>1. calls'[c] = Waiting /\ \A d \in Calls : d # c => calls'[d] = calls[d]
    BY <1>0, <1>4, CallsMove DEF Refused
  <2>2. Continued(c)
    BY <2>1 DEF UnderWay, Waiting
  <2> QED BY <1>1, <1>4, <2>1, <2>2 DEF Refused
<1>5. CASE UNCHANGED <<accounts, calls>>
  BY <1>1, <1>5
<1> QED
  BY <1>2, <1>3, <1>4, <1>5
  DEF AdministrationNext, SignIn, Verify, SignOut, administrationVars

\* A request that has been performed is over, and the others are where they were.
LEMMA OrderIsDone ==
  ASSUME AdministrationInv, NEW c \in Calls, Perform(c)
  PROVE  /\ UnderWay(c) /\ calls[c].step = "decided" /\ calls'[c] = Waiting
         /\ \A d \in Calls : d # c => calls'[d] = calls[d]
         /\ Granted(calls[c].actor, calls[c].order)
         /\ calls[c].actor \in Principals
BY CallFields, CallsMove DEF AdministrationInv, CallInv, Perform, UnderWay

\* What a department's administrator may give.
LEMMA DepartmentGives ==
  ASSUME NEW actor, NEW position, actor.role = Department,
         CanAssignRole(actor, position)
  PROVE  /\ position.scope = actor.scope
         /\ ~ IsAdministrator(position.role)
BY DEF CanAssignRole, Allowed, Reach, Department, System

\* The authority over accounts comes from a system administrator: whoever is
\* none cannot make one, and who alone is one stays it.
LEMMA AuthorityStep ==
  ASSUME AdministrationInv, [AdministrationNext]_administrationVars
  PROVE  /\ NoSystem => NoSystem' /\ \A u \in Users : Administers(u)' => Administers(u)
         /\ \A u \in Users : Sole(u) /\ accounts[u].status = "active" =>
              accounts'[u] = accounts[u]
<1>1. ASSUME NEW c \in Calls, Perform(c)
      PROVE  /\ NoSystem => NoSystem' /\ \A u \in Users : Administers(u)' => Administers(u)
             /\ \A u \in Users : Sole(u) /\ accounts[u].status = "active" =>
                  accounts'[u] = accounts[u]
  <2> DEFINE t == calls[c].order.target
             actor == calls[c].actor
             position == calls[c].order.position
  <2>1. /\ UnderWay(c) /\ calls'[c] = Waiting
        /\ \A d \in Calls : d # c => calls'[d] = calls[d]
        /\ IsAdministrator(actor.role)
    BY <1>1, OrderIsDone DEF Granted
  <2>2. /\ t \in Users
        /\ \A v \in Users : v # t => accounts'[v] = accounts[v]
        /\ \/ accounts'[t] = accounts[t]
           \/ /\ accounts[t].status # "absent"
              /\ accounts[t].status = "active" => actor.user # t
              /\ accounts'[t].role = accounts[t].role
           \/ /\ actor.user # t
              /\ CanAssignRole(actor, position)
              /\ accounts'[t].role = position.role
    BY <1>1, OrderIsPerformed
  <2>3. ASSUME NEW u \in Users, Sole(u), accounts[u].status = "active"
        PROVE  accounts'[u] = accounts[u]
    <3>1. actor.user = u
      BY <2>1, <2>3 DEF Sole, Actor
    <3> HIDE DEF t, actor, position
    <3> QED BY <2>2, <2>3, <3>1
  <2>4. ASSUME NoSystem PROVE NoSystem' /\ \A u \in Users : Administers(u)' => Administers(u)
    <3>1. actor.role = Department
      BY <2>1, <2>4 DEF NoSystem, Actor, IsAdministrator
    <3>2. CanAssignRole(actor, position) => ~ IsAdministrator(position.role)
      BY <3>1, DepartmentGives
    <3>3. \A d \in Calls : UnderWay(d)' => calls'[d].actor.role # System
      BY <2>1, <2>4 DEF NoSystem, UnderWay, Waiting, Actor
    <3>4. \A u \in Users : /\ Administers(u)' => Administers(u)
                           /\ (accounts[u].status # "absent" => accounts[u].role # System)
      <4> SUFFICES ASSUME NEW u \in Users, Administers(u)' PROVE Administers(u)
        BY <2>4 DEF NoSystem
      <4> HIDE DEF t, actor, position
      <4> QED BY <2>2, <3>2 DEF Administers
    <3>5. \A u \in Users : accounts'[u].status # "absent" => accounts'[u].role # System
      <4> SUFFICES ASSUME NEW u \in Users, accounts'[u].status # "absent",
                          accounts'[u].role = System
                   PROVE  FALSE
        OBVIOUS
      <4>1. accounts'[u] # accounts[u]
        BY <3>4
      <4>2. \/ accounts[u].status # "absent" /\ accounts'[u].role = accounts[u].role
            \/ CanAssignRole(actor, position) /\ accounts'[u].role = position.role
        <5> HIDE DEF t, actor, position
        <5> QED BY <2>2, <4>1
      <4> HIDE DEF t, actor, position
      <4> QED BY <3>2, <3>4, <4>2 DEF IsAdministrator
    <3> QED BY <3>3, <3>4, <3>5 DEF NoSystem, Actor
  <2> QED BY <2>3, <2>4
<1>2. ASSUME NEW v \in Users, Complete(v)
      PROVE  /\ NoSystem => NoSystem' /\ \A u \in Users : Administers(u)' => Administers(u)
             /\ \A u \in Users : Sole(u) /\ accounts[u].status = "active" =>
                  accounts'[u] = accounts[u]
  <2>1. /\ accounts \in [Users -> Account] /\ accounts[v].status = "locked"
        /\ accounts' = [accounts EXCEPT ![v].status = "active"] /\ calls' = calls
    BY <1>2 DEF Complete, AdministrationInv, AdministrationTypeOK
  <2>2. /\ \A u \in Users : u # v => accounts'[u] = accounts[u]
        /\ accounts'[v].role = accounts[v].role
    BY <2>1 DEF Account
  <2> QED BY <2>1, <2>2 DEF NoSystem, Administers, UnderWay, Actor
<1>3. ASSUME \A c \in Calls : ~ Perform(c), \A u \in Users : ~ Complete(u)
      PROVE  /\ NoSystem => NoSystem' /\ \A u \in Users : Administers(u)' => Administers(u)
             /\ \A u \in Users : Sole(u) /\ accounts[u].status = "active" =>
                  accounts'[u] = accounts[u]
  <2>1. /\ accounts' = accounts
        /\ \A c \in Calls : UnderWay(c)' =>
             \/ UnderWay(c) /\ calls'[c].actor = calls[c].actor
             \/ \E u \in Users : /\ accounts[u].status # "absent"
                                 /\ calls'[c].actor.user = u
                                 /\ calls'[c].actor.role = accounts[u].role
    BY <1>3, RequestsComeAndGo
  <2> QED BY <2>1 DEF NoSystem, Administers, Actor
<1> QED BY <1>1, <1>2, <1>3

\* "Only a system_administrator may ever assign an administrator role", by no
\* race either, and the only administrator there is stays one, with access.
THEOREM AuthorityComesFromSystem == AdministrationSpec => AuthorityDescends
<1>1. AdministrationInv /\ [AdministrationNext]_administrationVars
      => [/\ NoSystem => NoSystem' /\ \A u \in Users : Administers(u)' => Administers(u)
          /\ \A u \in Users : Sole(u) /\ accounts[u].status = "active" =>
               accounts'[u] = accounts[u]]_administrationVars
  BY AuthorityStep
<1> QED BY <1>1, AdministrationInvariant, PTL DEF AdministrationSpec, AuthorityDescends

\* The request that changed the account, and who asked for it.
LEMMA ChangeStep ==
  ASSUME AdministrationInv, [AdministrationNext]_administrationVars,
         NEW u \in Users, Changed(u)
  PROVE  \E c \in Calls :
           /\ calls[c].step = "decided" /\ calls'[c] = Waiting
           /\ IsAdministrator(Actor(c).role) /\ Actor(c).verified /\ Actor(c).user # u
           /\ Actor(c).role = Department => Within(Actor(c), u)
<1>1. PICK c \in Calls : Perform(c)
  <2> SUFFICES ASSUME \A c \in Calls : ~ Perform(c) PROVE FALSE
    OBVIOUS
  <2>1. PICK v \in Users : Complete(v)
    BY RequestsComeAndGo DEF Changed
  <2>2. /\ accounts \in [Users -> Account] /\ accounts[v].status = "locked"
        /\ accounts' = [accounts EXCEPT ![v].status = "active"]
    BY <2>1 DEF Complete, AdministrationInv, AdministrationTypeOK
  <2> QED BY <2>2 DEF Changed, Account
<1> DEFINE t == calls[c].order.target
           actor == calls[c].actor
           position == calls[c].order.position
<1>2. /\ calls[c].step = "decided" /\ calls'[c] = Waiting
      /\ IsAdministrator(actor.role) /\ actor.verified
  BY <1>1, OrderIsDone DEF Granted
<1>3. /\ \A v \in Users : v # t => accounts'[v] = accounts[v]
      /\ \/ accounts'[t] = accounts[t]
         \/ /\ accounts[t].status # "absent"
            /\ accounts[t].status = "active" => actor.user # t
            /\ accounts'[t].role = accounts[t].role
            /\ accounts'[t].scope = accounts[t].scope
         \/ /\ actor.user # t
            /\ CanAssignRole(actor, position)
            /\ accounts'[t].role = position.role
            /\ accounts'[t].scope = position.scope
  BY <1>1, OrderIsPerformed
<1>4. u = t
  BY <1>3 DEF Changed
<1>5. actor.user # u
  <2> HIDE DEF t, actor, position
  <2> QED BY <1>3, <1>4 DEF Changed
<1>6. actor.role = Department => Within(actor, u)
  <2> SUFFICES ASSUME actor.role = Department PROVE Within(actor, u)
    OBVIOUS
  <2>1. CanAssignRole(actor, position) =>
          position.scope = actor.scope /\ ~ IsAdministrator(position.role)
    BY DepartmentGives
  <2> HIDE DEF t, actor, position
  <2> QED BY <1>3, <1>4, <2>1 DEF Within
<1> QED BY <1>2, <1>5, <1>6 DEF Actor

\* What is done to an account is done by an administrator in a session verified
\* by passkey, never to the administrator's own, and within the department.
THEOREM ChangesComeFromAdministrators == AdministrationSpec => ChangesAreAuthorized
<1>1. AdministrationInv /\ [AdministrationNext]_administrationVars
      => [\A u \in Users : Changed(u) =>
           \E c \in Calls :
             /\ calls[c].step = "decided" /\ calls'[c] = Waiting
             /\ IsAdministrator(Actor(c).role) /\ Actor(c).verified /\ Actor(c).user # u
             /\ Actor(c).role = Department => Within(Actor(c), u)]_administrationVars
  BY ChangeStep
<1> QED BY <1>1, AdministrationInvariant, PTL DEF AdministrationSpec, ChangesAreAuthorized
=============================================================================
