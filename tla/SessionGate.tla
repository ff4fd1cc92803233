----------------------------- MODULE SessionGate -----------------------------
(***************************************************************************)
(* Who is let in: the sessions of one account, its bridging credentials,   *)
(* the middleware that resolves either on every request, and the WebAuthn  *)
(* ceremonies that enroll a passkey or mark a session as verified by one.  *)
(*                                                                         *)
(* A request reads the clock when it arrives and again in its handler, and *)
(* makes its calls of the database and of the ceremony store one by one;   *)
(* requests of the same session, the administrator's operations, the clock *)
(* and a restart of the process come in between.  A key of the ceremony    *)
(* store is the digest of a token, so the token stands for it; tokens are  *)
(* never reused: a name in Sessions or in Bridges is one token.            *)
(*                                                                         *)
(* A bridging credential lets an account that has set its password, and    *)
(* has no passkey yet, enroll its first one: no session can be opened for  *)
(* it.  It lives in the memory of the process and opens no other route.    *)
(***************************************************************************)
EXTENDS Integers, FiniteSets

CONSTANTS
  Sessions,          \* the sessions that may be opened
  Bridges,           \* the bridging credentials that may be issued
  Calls,             \* the requests that are under way together
  IdleTimeout,       \* session.Config.IdleTimeout
  AbsoluteLifetime,  \* session.Config.AbsoluteLifetime
  CeremonyTTL,       \* mfaCeremonyTTL
  BridgeTTL,         \* mfaEnrollmentCredentialTTL
  Capacity,          \* maxPendingMFACeremonies
  MaxClock,          \* bound on the clock
  MaxChallenges,     \* bound on the challenges the provider makes
  None               \* no row, no ceremony, no token

ASSUME GateAssumption ==
  /\ IdleTimeout \in Nat \ {0} /\ AbsoluteLifetime \in Nat \ {0}
  /\ CeremonyTTL \in Nat \ {0} /\ BridgeTTL \in Nat \ {0} /\ Capacity \in Nat \ {0}
  /\ MaxClock \in Nat /\ MaxChallenges \in Nat
  /\ None \notin Sessions \cup Bridges /\ Sessions \cap Bridges = {}
  /\ IsFiniteSet(Sessions) /\ IsFiniteSet(Bridges)

VARIABLES
  clock,
  status,      \* users.status
  enrolled,    \* there is a passkey of the account
  rows,        \* rows[s]: the sessions row, or None
  bridges,     \* bridges[b]: where a bridging credential stands, or None
  ceremonies,  \* ceremonies[t]: what mfaCeremonyStore holds under a token
  made,        \* how many challenges the provider has made
  calls,       \* calls[c]: where a request stands
  lastUse      \* lastUse[s]: the latest time at which s, still open, was opened or let in

gateVars == <<clock, status, enrolled, rows, bridges, ceremonies, made, calls, lastUse>>

Statuses   == {"active", "password_change_required", "suspended"}
Purposes   == {"enroll", "login"}
Times      == 0 .. MaxClock
Tokens     == Sessions \cup Bridges

\* What a provider's challenge was made for; its number tells it from others.
Challenges == [number : 1 .. MaxChallenges, token : Tokens, purpose : Purposes]

Row == [seen : Times, expires : Nat, revoked : BOOLEAN, verified : BOOLEAN]

\* Owed to a redemption that has set the password; in the store; or neither,
\* which is also what an entry past its time comes to.
Bridge == [stage : {"owed", "held", "gone"}, expires : Nat]

Ceremony == [purpose : Purposes, challenge : Challenges, expires : Nat]

Idle == [step |-> "idle", token |-> None, now |-> 0, purpose |-> "login",
         challenge |-> None]

Call == [step      : {"idle", "resolve", "account", "touch", "handle", "put", "verify",
                      "complete", "revoke"},
         token     : Tokens \cup {None},
         now       : Times,
         purpose   : Purposes,
         challenge : Challenges \cup {None}]

\* None is told apart from what it stands for the absence of.
ASSUME NoneAssumption == None \notin Row \cup Bridge \cup Ceremony \cup Challenges

-----------------------------------------------------------------------------
(* session.Config.                                                         *)

IdleExpired(row, now) == now - row.seen >= IdleTimeout

AbsoluteExpired(row, now) == now >= row.expires

Usable(row, now) ==
  ~ row.revoked /\ ~ IdleExpired(row, now) /\ ~ AbsoluteExpired(row, now)

-----------------------------------------------------------------------------
(* Sessions.                                                               *)

\* Login reads the clock, checks the password, and creates the session.
Login(s, now) ==
  /\ status = "active" /\ rows[s] = None
  /\ now <= clock
  /\ rows' = [rows EXCEPT ![s] =
       [seen |-> now, expires |-> now + AbsoluteLifetime,
        revoked |-> FALSE, verified |-> FALSE]]
  /\ lastUse' = [lastUse EXCEPT ![s] = now]
  /\ UNCHANGED <<clock, status, enrolled, bridges, ceremonies, made, calls>>

\* revoked_at is set.  Every statement asks for revoked_at IS NULL, and none
\* reads another column of a row it does not hold of: they are forgotten.
Ended == [seen |-> 0, expires |-> 0, revoked |-> TRUE, verified |-> FALSE]

Revoke(some) ==
  /\ rows' = [s \in Sessions |-> IF s \in some /\ rows[s] # None THEN Ended ELSE rows[s]]
  /\ lastUse' = [s \in Sessions |-> IF s \in some THEN 0 ELSE lastUse[s]]

\* revokeAllSessionsTx.
RevokeAll == Revoke(Sessions)

\* Suspend, Disable, AdminReset, a completed password reset, Revoke, Restore.
Administer(to) ==
  /\ status' = to
  /\ IF status # "active" /\ to = "active" THEN UNCHANGED <<rows, lastUse>>
     ELSE RevokeAll
  /\ UNCHANGED <<clock, enrolled, bridges, ceremonies, made, calls>>

\* RedeemInvitationAndSetPassword: the clock has been read, and EstablishPassword
\* commits and finds that the account still lacks a passkey.
Redeem(b) ==
  /\ status = "password_change_required" /\ ~ enrolled /\ bridges[b] = None
  /\ bridges' = [bridges EXCEPT ![b] = [stage |-> "owed", expires |-> clock + BridgeTTL]]
  /\ UNCHANGED <<clock, status, enrolled, rows, ceremonies, made, calls, lastUse>>

Gone == [stage |-> "gone", expires |-> 0]

\* enrollmentCredentialStore.issue, which at capacity refuses; the redemption
\* succeeds without.
Issue(b) ==
  /\ bridges[b] # None /\ bridges[b].stage = "owed"
  /\ bridges' \in {[bridges EXCEPT ![b].stage = "held"], [bridges EXCEPT ![b] = Gone]}
  /\ UNCHANGED <<clock, status, enrolled, rows, ceremonies, made, calls, lastUse>>

\* revoked_at IS NULL.
Open(s) == rows[s] # None /\ ~ rows[s].revoked

-----------------------------------------------------------------------------
(* A request.                                                              *)

GoTo(c, place) == calls' = [calls EXCEPT ![c] = place]
Return(c)      == GoTo(c, Idle)

At(c, step) == calls[c].step = step

\* requireSession and requireSessionOrMFAEnrollment read the clock.
Arrive(c, t) ==
  /\ At(c, "idle")
  /\ \/ t \in Sessions /\ rows[t] # None
     \/ t \in Bridges /\ bridges[t] # None /\ bridges[t].stage # "owed"
  /\ GoTo(c, [Idle EXCEPT !.step = "resolve", !.token = t, !.now = clock])
  /\ UNCHANGED <<clock, status, enrolled, rows, bridges, ceremonies, made, lastUse>>

InSession(c) == calls[c].token \in Sessions

\* identitystore.ResolveSession: one SELECT of the session and its account.
LetIn(c) ==
  /\ At(c, "resolve") /\ InSession(c)
  /\ Usable(rows[calls[c].token], calls[c].now) /\ status = "active"
  /\ GoTo(c, [calls[c] EXCEPT !.step = "touch"])
  /\ lastUse' = [lastUse EXCEPT ![calls[c].token] =
                   IF @ > calls[c].now THEN @ ELSE calls[c].now]
  /\ UNCHANGED <<clock, status, enrolled, rows, bridges, ceremonies, made>>

\* enrollmentCredentialStore.resolve, which does not consume the credential.
Recognized(c) ==
  LET t == calls[c].token IN bridges[t].stage = "held" /\ calls[c].now < bridges[t].expires

Recognize(c) ==
  /\ At(c, "resolve") /\ ~ InSession(c)
  /\ Recognized(c)
  /\ GoTo(c, [calls[c] EXCEPT !.step = "account"])
  /\ UNCHANGED <<clock, status, enrolled, rows, bridges, ceremonies, made, lastUse>>

\* mfaEnrollmentEligible; a login ceremony also asks for a passkey.
Eligible(purpose) ==
  \/ purpose = "enroll" /\ status \in {"active", "password_change_required"}
  \/ purpose = "login" /\ status = "active" /\ enrolled

\* ResolveMFAEnrollmentCredential reads the account and looks at its status.
LetInToEnroll(c) ==
  /\ At(c, "account")
  /\ Eligible("enroll")
  /\ GoTo(c, [calls[c] EXCEPT !.step = "handle", !.now = 0])
  /\ UNCHANGED <<clock, status, enrolled, rows, bridges, ceremonies, made, lastUse>>

\* A request that also brought a session is tried with that one instead, by the
\* clock it was read at; it then stands like any other request of the session.
FallBack(c, s) ==
  /\ ~ InSession(c)
  /\ At(c, "account") \/ (At(c, "resolve") /\ ~ Recognized(c))
  /\ rows[s] # None
  /\ GoTo(c, [calls[c] EXCEPT !.step = "resolve", !.token = s])
  /\ UNCHANGED <<clock, status, enrolled, rows, bridges, ceremonies, made, lastUse>>

\* 401, for this and every other reason; or a SELECT fails.
TurnAway(c) ==
  /\ At(c, "resolve") \/ At(c, "account")
  /\ Return(c)
  /\ UNCHANGED <<clock, status, enrolled, rows, bridges, ceremonies, made, lastUse>>

\* Faulty variant: the clock is read again.
Touched_Now(c) == clock

\* Of a session let in, the time of the request's arrival.
Touched(c) == calls[c].now

\* TouchSession, WHERE revoked_at IS NULL; best effort.
Touch(c) ==
  LET s == calls[c].token IN
  /\ At(c, "touch")
  /\ \/ ~ rows[s].revoked /\ rows' = [rows EXCEPT ![s].seen = Touched(c)]
     \/ UNCHANGED rows
  /\ GoTo(c, [calls[c] EXCEPT !.step = "handle", !.now = 0])
  /\ UNCHANGED <<clock, status, enrolled, bridges, ceremonies, made, lastUse>>

\* The handlers below read the clock again.

\* A handler that only answers, an administrator's one among them, which asks
\* for the session's mfa_verified; the CSRF check fails; or the client is gone.
Answer(c) ==
  /\ At(c, "handle")
  /\ Return(c)
  /\ UNCHANGED <<clock, status, enrolled, rows, bridges, ceremonies, made, lastUse>>

\* Logout: the session the request came with.
Logout(c) ==
  /\ At(c, "handle") /\ InSession(c)
  /\ Revoke({calls[c].token})
  /\ Return(c)
  /\ UNCHANGED <<clock, status, enrolled, bridges, ceremonies, made>>

\* ListActiveSessions of the account; its WHERE does not ask for expires_at.
Listed == {s \in Sessions : Open(s)}

\* RevokeOwnedSession, of one the account's list shows, or of none.
RevokeOwned(c, s) ==
  /\ At(c, "handle") /\ InSession(c)
  /\ Revoke(Listed \cap {s})
  /\ Return(c)
  /\ UNCHANGED <<clock, status, enrolled, bridges, ceremonies, made>>

LogoutAll(c) ==
  /\ At(c, "handle") /\ InSession(c)
  /\ RevokeAll
  /\ Return(c)
  /\ UNCHANGED <<clock, status, enrolled, bridges, ceremonies, made>>

-----------------------------------------------------------------------------
(* Ceremonies.                                                             *)

\* The enrollment route takes either token, every other one only a session.
Served(c, purpose) == At(c, "handle") /\ (InSession(c) \/ purpose = "enroll")

\* BeginMFAEnrollment and BeginMFALogin up to the provider's challenge.
Begin(c, purpose) ==
  /\ Served(c, purpose)
  /\ IF Eligible(purpose) /\ made < MaxChallenges
       THEN /\ made' = made + 1
            /\ GoTo(c, [calls[c] EXCEPT !.step = "put", !.purpose = purpose, !.now = clock,
                          !.challenge = [number |-> made + 1, token |-> calls[c].token,
                                         purpose |-> purpose]])
       ELSE Return(c) /\ UNCHANGED made
  /\ UNCHANGED <<clock, status, enrolled, rows, bridges, ceremonies, lastUse>>

Live(t, now) == ceremonies[t] # None /\ now < ceremonies[t].expires

\* sweepLocked.
Swept(now) == [t \in Tokens |-> IF Live(t, now) THEN ceremonies[t] ELSE None]

Held(store) == {t \in Tokens : store[t] # None}

\* mfaCeremonyStore.put: no new key at capacity; the key's own is replaced.
Put(c) ==
  LET t == calls[c].token
      kept == Swept(calls[c].now)
  IN
  /\ At(c, "put")
  /\ ceremonies' = IF kept[t] = None /\ Cardinality(Held(kept)) >= Capacity THEN kept
                   ELSE [kept EXCEPT ![t] =
                           [purpose |-> calls[c].purpose, challenge |-> calls[c].challenge,
                            expires |-> calls[c].now + CeremonyTTL]]
  /\ Return(c)
  /\ UNCHANGED <<clock, status, enrolled, rows, bridges, made, lastUse>>

\* Faulty variant: a ceremony is deleted only once it has been completed.
Taken_Kept(t) == ceremonies

\* "found-or-not, a key is deleted the moment it is read".
Taken(t) == [ceremonies EXCEPT ![t] = None]

\* Faulty variant: any ceremony under the token will do.
Applies_AnyPurpose(t, purpose, now) == Live(t, now)

\* A ceremony is there, in time, and of the purpose.
Applies(t, purpose, now) == Live(t, now) /\ ceremonies[t].purpose = purpose

\* FinishMFAEnrollment and FinishMFALogin take the ceremony.
Take(c, purpose) ==
  LET t == calls[c].token IN
  /\ Served(c, purpose)
  /\ ceremonies' = Taken(t)
  /\ IF Applies(t, purpose, clock)
       THEN GoTo(c, [calls[c] EXCEPT !.step = "verify", !.purpose = purpose, !.now = clock,
                                     !.challenge = ceremonies[t].challenge])
       ELSE Return(c)
  /\ UNCHANGED <<clock, status, enrolled, rows, bridges, made, lastUse>>

\* The account is read again, and the provider verifies the response, which
\* answers the challenge of the ceremony or does not.
Verify(c) ==
  /\ At(c, "verify")
  /\ \/ Eligible(calls[c].purpose) /\ GoTo(c, [calls[c] EXCEPT !.step = "complete"])
     \/ Return(c)
  /\ UNCHANGED <<clock, status, enrolled, rows, bridges, ceremonies, made, lastUse>>

\* EnrollMFACredential locks the account and looks at its status once more; the
\* passkey is what the account's activation was waiting for.
CompleteEnrollment(c) ==
  /\ At(c, "complete") /\ calls[c].purpose = "enroll"
  /\ \/ /\ Eligible("enroll")
        /\ enrolled' = TRUE /\ status' = "active"
        /\ GoTo(c, [Idle EXCEPT !.step = "revoke", !.token = calls[c].token])
     \/ /\ UNCHANGED <<enrolled, status>>
        /\ Return(c)
  /\ UNCHANGED <<clock, rows, bridges, ceremonies, made, lastUse>>

\* "a completed bridging credential has no further purpose": with it go all that
\* the account holds, once the passkey is committed.
RevokeBridges(c) ==
  /\ At(c, "revoke")
  /\ bridges' = [b \in Bridges |->
       IF bridges[b] # None /\ bridges[b].stage = "held" THEN Gone ELSE bridges[b]]
  /\ Return(c)
  /\ UNCHANGED <<clock, status, enrolled, rows, ceremonies, made, lastUse>>

\* Faulty variant: WHERE id = $2 only.
Markable_Any(row, now) == TRUE

\* WHERE revoked_at IS NULL AND expires_at > now.
Markable(row, now) == ~ row.revoked /\ ~ AbsoluteExpired(row, now)

\* MarkSessionMFAVerified; no row is ErrSessionInvalid.
CompleteLogin(c) ==
  LET s == calls[c].token IN
  /\ At(c, "complete") /\ calls[c].purpose = "login"
  /\ \/ Markable(rows[s], calls[c].now) /\ rows' = [rows EXCEPT ![s].verified = TRUE]
     \/ UNCHANGED rows
  /\ Return(c)
  /\ UNCHANGED <<clock, status, enrolled, bridges, ceremonies, made, lastUse>>

-----------------------------------------------------------------------------

\* Ceremonies and bridging credentials are held "only in process memory";
\* requests under way are lost.
Restart ==
  /\ ceremonies' = [t \in Tokens |-> None]
  /\ bridges' = [b \in Bridges |-> IF bridges[b] = None THEN None ELSE Gone]
  /\ calls' = [c \in Calls |-> Idle]
  /\ UNCHANGED <<clock, status, enrolled, rows, made, lastUse>>

Tick ==
  /\ clock < MaxClock
  /\ clock' = clock + 1
  /\ UNCHANGED <<status, enrolled, rows, bridges, ceremonies, made, calls, lastUse>>

Handle(c) ==
  \/ Answer(c) \/ LogoutAll(c)
  \/ Logout(c)
  \/ \E s \in Sessions : RevokeOwned(c, s)
  \/ \E purpose \in Purposes : Begin(c, purpose) \/ Take(c, purpose)

Step(c) ==
  \/ \E t \in Tokens : Arrive(c, t)
  \/ \E s \in Sessions : FallBack(c, s)
  \/ Recognize(c) \/ LetInToEnroll(c)
  \/ LetIn(c) \/ TurnAway(c) \/ Touch(c) \/ Handle(c)
  \/ Put(c) \/ Verify(c) \/ CompleteEnrollment(c) \/ RevokeBridges(c) \/ CompleteLogin(c)

GateInit ==
  /\ clock = 0
  /\ status = "active" /\ enrolled \in BOOLEAN
  /\ rows = [s \in Sessions |-> None]
  /\ bridges = [b \in Bridges |-> None]
  /\ ceremonies = [t \in Tokens |-> None]
  /\ made = 0
  /\ calls = [c \in Calls |-> Idle]
  /\ lastUse = [s \in Sessions |-> 0]

GateNext ==
  \/ \E s \in Sessions, now \in Times : Login(s, now)
  \/ \E b \in Bridges : Redeem(b) \/ Issue(b)
  \/ \E to \in Statuses : Administer(to)
  \/ \E c \in Calls : Step(c)
  \/ Restart \/ Tick

GateSpec == GateInit /\ [][GateNext]_gateVars

-----------------------------------------------------------------------------
(* Properties.                                                             *)

\* The tables, the store and the requests keep their types.
GateTypeOK ==
  /\ clock \in Times /\ made \in 0 .. MaxChallenges
  /\ status \in Statuses /\ enrolled \in BOOLEAN
  /\ rows \in [Sessions -> Row \cup {None}]
  /\ bridges \in [Bridges -> Bridge \cup {None}]
  /\ ceremonies \in [Tokens -> Ceremony \cup {None}]
  /\ calls \in [Calls -> Call]
  /\ lastUse \in [Sessions -> Times]

\* "end exactly one session": once revoked, a session is never let in, touched
\* or verified, whatever the requests had found before they came to write.
RevokedIsShut ==
  [][\A s \in Sessions : rows[s] # None =>
       /\ rows[s].revoked => rows'[s] = rows[s] /\ lastUse'[s] = lastUse[s]
       /\ rows'[s] = Ended \/ rows'[s].expires = rows[s].expires]_gateVars

\* Nobody is let in a full IdleTimeout or more after the session was last used,
\* however long requests take and in whatever order they touch it.
IdleIsMeasuredFromUse ==
  [][\A c \in Calls : (At(c, "resolve") /\ At(c, "touch")') =>
       calls[c].now - lastUse[calls[c].token] < IdleTimeout]_gateVars

\* "a ceremony can be finished at most once": a challenge is waiting in the
\* store under the one token it was made for, or answered by one request.
ChallengesHaveOneHolder ==
  LET answering == {c \in Calls : calls[c].step \in {"put", "verify", "complete"}}
      waiting   == Held(ceremonies)
  IN
  /\ \A c, d \in answering : calls[c].challenge = calls[d].challenge => c = d
  /\ \A t, u \in waiting : ceremonies[t].challenge = ceremonies[u].challenge => t = u
  /\ \A c \in answering, t \in waiting : calls[c].challenge # ceremonies[t].challenge

MadeFor(challenge, t, purpose) == challenge.token = t /\ challenge.purpose = purpose

\* "a ceremony begun under one authenticated context can never be ... finished,
\* under another": a session becomes verified, and only while it is open, by a
\* request of that session, and a passkey is enrolled by a request of the session
\* or bridging credential, that answers the challenge made for just that token
\* and purpose; and no passkey is enrolled for an account that was suspended in
\* between.
CompletionsWereBegun ==
  [][/\ \A s \in Sessions : (rows[s] # None /\ rows'[s].verified /\ ~ rows[s].verified) =>
          /\ Open(s)
          /\ \E c \in Calls : /\ At(c, "complete") /\ calls[c].token = s
                              /\ MadeFor(calls[c].challenge, s, "login")
     /\ (enrolled' /\ ~ enrolled) =>
          /\ status # "suspended"
          /\ \E c \in Calls : /\ At(c, "complete")
                              /\ MadeFor(calls[c].challenge, calls[c].token, "enroll")]_gateVars

=============================================================================
