-------------------------- MODULE SessionGateProofs --------------------------
(***************************************************************************)
(* Theorems about SessionGate for any number of sessions, bridging         *)
(* credentials and requests, any timeouts and any capacity of the store.   *)
(*                                                                         *)
(* GateInv adds to the types what ties a request under way to the tables:  *)
(* its session has a row, its touch is of a use that was counted, and the  *)
(* challenge it answers was made for its token and purpose and is held     *)
(* nowhere else; a login ceremony is always of a session.                  *)
(***************************************************************************)
EXTENDS SessionGate, TLAPS

Answering(c) == calls[c].step \in {"put", "verify", "complete"}

RowInv(s) ==
  /\ rows[s].revoked => rows[s] = Ended /\ lastUse[s] = 0
  /\ ~ rows[s].revoked => rows[s].seen <= lastUse[s]

CallInv(c) ==
  /\ calls[c].step # "idle" => calls[c].token \in Tokens
  /\ calls[c].token \in Sessions => rows[calls[c].token] # None
  /\ calls[c].step = "touch" => calls[c].token \in Sessions
  /\ calls[c].step = "touch" /\ ~ rows[calls[c].token].revoked =>
       calls[c].now <= lastUse[calls[c].token]
  /\ Answering(c) =>
       /\ calls[c].challenge \in Challenges
       /\ MadeFor(calls[c].challenge, calls[c].token, calls[c].purpose)
       /\ calls[c].challenge.number <= made
       /\ calls[c].purpose = "login" => calls[c].token \in Sessions

CeremonyInv(t) ==
  /\ MadeFor(ceremonies[t].challenge, t, ceremonies[t].purpose)
  /\ ceremonies[t].challenge.number <= made
  /\ ceremonies[t].purpose = "login" => t \in Sessions

RowsInv == \A s \in Sessions : rows[s] # None => RowInv(s)
CallsInv == \A c \in Calls : CallInv(c)
CeremoniesInv == \A t \in Tokens : ceremonies[t] # None => CeremonyInv(t)

GateInv ==
  /\ GateTypeOK /\ RowsInv /\ CallsInv /\ CeremoniesInv
  /\ ChallengesHaveOneHolder

-----------------------------------------------------------------------------
(* What the steps have in common.                                          *)

\* A revocation leaves every other row alone and what it ends it ends alike.
LEMMA RevokeSound ==
  ASSUME GateTypeOK, RowsInv, NEW some \in SUBSET Sessions, Revoke(some)
  PROVE  /\ rows' \in [Sessions -> Row \cup {None}]
         /\ lastUse' \in [Sessions -> Times]
         /\ RowsInv'
         /\ \A s \in Sessions : rows[s] # None <=> rows'[s] # None
         /\ \A s \in Sessions :
              \/ rows'[s] = Ended
              \/ rows'[s] = rows[s] /\ (rows[s] # None => lastUse'[s] = lastUse[s])
         /\ \A s \in Sessions : rows[s] # None /\ rows[s].revoked =>
              rows'[s] = rows[s] /\ lastUse'[s] = lastUse[s]
<1>1. Ended \in Row /\ 0 \in Times /\ Ended.revoked
  BY GateAssumption DEF Ended, Row, Times
<1>2. Ended # None
  BY <1>1, NoneAssumption
<1>3. /\ rows' \in [Sessions -> Row \cup {None}]
      /\ lastUse' \in [Sessions -> Times]
  BY <1>1 DEF Revoke, GateTypeOK
<1>4. \A s \in Sessions :
        \/ s \in some /\ rows[s] # None /\ rows'[s] = Ended /\ lastUse'[s] = 0
        \/ rows[s] = None /\ rows'[s] = None
        \/ rows'[s] = rows[s] /\ lastUse'[s] = lastUse[s]
  BY DEF Revoke
<1>5. RowsInv'
  BY <1>1, <1>4 DEF RowsInv, RowInv
<1>6. \A s \in Sessions : rows[s] # None /\ rows[s].revoked =>
        rows'[s] = rows[s] /\ lastUse'[s] = lastUse[s]
  BY <1>4 DEF RowsInv, RowInv
<1> QED BY <1>2, <1>3, <1>4, <1>5, <1>6

\* The place of a request that is not under way.
LEMMA IdleIsACall == Idle \in Call /\ Idle.step = "idle" /\ Idle.token \notin Tokens
  BY GateAssumption DEF Idle, Call, Times, Purposes, Tokens

\* Rows stay, and a use of an open one only moves forward.
RowsGoOn ==
  \A s \in Sessions : rows[s] # None =>
    /\ rows'[s] # None
    /\ ~ rows'[s].revoked => ~ rows[s].revoked /\ lastUse[s] <= lastUse'[s]

\* What holds of a request that does nothing goes on to hold.
LEMMA CallKept ==
  ASSUME NEW c \in Calls, CallInv(c), calls[c] \in Call, calls'[c] = calls[c],
         made \in Nat, made' \in Nat, made <= made',
         lastUse \in [Sessions -> Times], lastUse' \in [Sessions -> Times],
         RowsGoOn
  PROVE  CallInv(c)'
<1>1. Times \subseteq Int
  BY DEF Times
<1>2. calls[c].now \in Int
  BY <1>1 DEF Call
<1>3. Answering(c) => calls[c].challenge.number \in Int
  BY DEF CallInv, Challenges
<1>4. \A s \in Sessions : lastUse[s] \in Int /\ lastUse'[s] \in Int
  BY <1>1
<1>5. Answering(c)' <=> Answering(c)
  BY DEF Answering
<1>6. /\ calls'[c].step # "idle" => calls'[c].token \in Tokens
      /\ calls'[c].token \in Sessions => rows'[calls'[c].token] # None
      /\ calls'[c].step = "touch" => calls'[c].token \in Sessions
  BY DEF CallInv, RowsGoOn
<1>7. calls'[c].step = "touch" /\ ~ rows'[calls'[c].token].revoked =>
        calls'[c].now <= lastUse'[calls'[c].token]
  BY <1>2, <1>4 DEF CallInv, RowsGoOn
<1>8. Answering(c)' =>
        /\ calls'[c].challenge \in Challenges
        /\ MadeFor(calls'[c].challenge, calls'[c].token, calls'[c].purpose)
        /\ calls'[c].challenge.number <= made'
        /\ calls'[c].purpose = "login" => calls'[c].token \in Sessions
  BY <1>3, <1>5 DEF CallInv, MadeFor
<1>9. Challenges' = Challenges /\ Tokens' = Tokens
  BY DEF Challenges, Purposes, Tokens
<1> QED BY <1>6, <1>7, <1>8, <1>9 DEF CallInv, MadeFor

\* No challenge gets a new holder where none is made, put or taken.
LEMMA HoldersKept ==
  ASSUME ChallengesHaveOneHolder,
         \A c \in Calls : Answering(c)' => Answering(c) /\ calls'[c].challenge = calls[c].challenge,
         \A s \in Tokens : ceremonies'[s] # None => ceremonies'[s] = ceremonies[s]
  PROVE  ChallengesHaveOneHolder'
<1>1. \A c \in {d \in Calls : calls'[d].step \in {"put", "verify", "complete"}} :
        /\ c \in {d \in Calls : calls[d].step \in {"put", "verify", "complete"}}
        /\ calls'[c].challenge = calls[c].challenge
  BY DEF Answering
<1>2. \A s \in Held(ceremonies') : s \in Held(ceremonies) /\ ceremonies'[s] = ceremonies[s]
  BY DEF Held
<1> QED BY <1>1, <1>2 DEF ChallengesHaveOneHolder

\* ChallengesHaveOneHolder, request by request and ceremony by ceremony.
OneHolder ==
  /\ \A c, d \in Calls : Answering(c) /\ Answering(d)
                          /\ calls[c].challenge = calls[d].challenge => c = d
  /\ \A s, t \in Tokens : ceremonies[s] # None /\ ceremonies[t] # None
                             /\ ceremonies[s].challenge = ceremonies[t].challenge => s = t
  /\ \A c \in Calls, s \in Tokens : Answering(c) /\ ceremonies[s] # None =>
       calls[c].challenge # ceremonies[s].challenge

\* The two forms say the same of a state.
LEMMA HolderForms ==
  /\ ChallengesHaveOneHolder => OneHolder
  /\ OneHolder' => ChallengesHaveOneHolder'
  BY DEF OneHolder, ChallengesHaveOneHolder, Answering, Held

\* Where requests only end and ceremonies only go, what holds of them stays.
LEMMA CallsEnd ==
  ASSUME GateInv, RowsGoOn, UNCHANGED made, lastUse' \in [Sessions -> Times],
         calls' = [c \in Calls |-> calls'[c]],
         \A c \in Calls : calls'[c] = calls[c] \/ calls'[c] = Idle,
         ceremonies' \in [Tokens -> Ceremony \cup {None}],
         \A s \in Tokens : ceremonies'[s] # None => ceremonies'[s] = ceremonies[s]
  PROVE  /\ calls' \in [Calls -> Call]
         /\ CallsInv' /\ CeremoniesInv' /\ ChallengesHaveOneHolder'
<1>1. made \in Nat /\ made' \in Nat /\ made <= made'
  BY GateAssumption DEF GateInv, GateTypeOK
<1>2. ASSUME NEW c \in Calls PROVE CallInv(c)'
  <2>1. CASE calls'[c] = calls[c]
    BY <1>1, <2>1, CallKept DEF GateInv, GateTypeOK, CallsInv
  <2>2. CASE calls'[c] = Idle
    BY <2>2, IdleIsACall DEF CallInv, Answering, Tokens
  <2> QED BY <2>1, <2>2
<1>3. \A c \in Calls : Answering(c)' => Answering(c) /\ calls'[c].challenge = calls[c].challenge
  BY IdleIsACall DEF Answering
<1>4. ChallengesHaveOneHolder'
  BY <1>3, HoldersKept DEF GateInv
<1>5. CeremoniesInv'
  BY DEF GateInv, CeremoniesInv, CeremonyInv, MadeFor
<1>6. calls' \in [Calls -> Call]
  <2>1. \A c \in Calls : calls'[c] \in Call
    BY IdleIsACall DEF GateInv, GateTypeOK
  <2> QED BY <2>1
<1> QED BY <1>2, <1>4, <1>5, <1>6 DEF CallsInv

-----------------------------------------------------------------------------
(* GateInv is inductive.                                                   *)

\* Nobody has a session at the start.
LEMMA GateInitInv == GateInit => GateInv
<1> SUFFICES ASSUME GateInit PROVE GateInv
  OBVIOUS
<1>1. 0 \in Times /\ 0 \in 0 .. MaxChallenges /\ "active" \in Statuses
  BY GateAssumption DEF Times, Statuses
<1>2. GateTypeOK
  BY <1>1, IdleIsACall DEF GateInit, GateTypeOK
<1>3. RowsInv /\ CallsInv /\ CeremoniesInv
  BY IdleIsACall DEF GateInit, RowsInv, CallsInv, CallInv, Answering, CeremoniesInv, Tokens
<1>4. ChallengesHaveOneHolder
  BY IdleIsACall DEF GateInit, ChallengesHaveOneHolder, Held
<1> QED BY <1>2, <1>3, <1>4 DEF GateInv

\* Where no row changes, rows go on and RowsInv holds on.
LEMMA SameRows ==
  ASSUME GateInv, UNCHANGED <<rows, lastUse>>
  PROVE  /\ RowsGoOn /\ RowsInv'
         /\ rows' \in [Sessions -> Row \cup {None}]
         /\ lastUse' \in [Sessions -> Times]
<1>1. \A s \in Sessions : lastUse[s] <= lastUse[s]
  BY DEF GateInv, GateTypeOK, Times
<1> QED BY <1>1 DEF GateInv, GateTypeOK, RowsGoOn, RowsInv, RowInv

\* A revocation is one of the ways rows go on.
LEMMA RevokedRows ==
  ASSUME GateInv, NEW some \in SUBSET Sessions, Revoke(some)
  PROVE  /\ RowsGoOn /\ RowsInv'
         /\ rows' \in [Sessions -> Row \cup {None}]
         /\ lastUse' \in [Sessions -> Times]
<1>1. /\ RowsInv'
      /\ rows' \in [Sessions -> Row \cup {None}]
      /\ lastUse' \in [Sessions -> Times]
      /\ \A s \in Sessions : rows[s] # None <=> rows'[s] # None
      /\ \A s \in Sessions :
           \/ rows'[s] = Ended
           \/ rows'[s] = rows[s] /\ (rows[s] # None => lastUse'[s] = lastUse[s])
  BY RevokeSound DEF GateInv
<1>2. Ended.revoked
  BY DEF Ended
<1>3. \A s \in Sessions : lastUse[s] <= lastUse[s]
  BY DEF GateInv, GateTypeOK, Times
<1> QED BY <1>1, <1>2, <1>3 DEF RowsGoOn

\* One row changes for the better: still open, with its use where it was.
LEMMA OneRowSet ==
  ASSUME GateInv, NEW s \in Sessions, rows[s] # None, ~ rows[s].revoked,
         NEW row \in Row, rows' = [rows EXCEPT ![s] = row],
         ~ row.revoked, row.seen <= lastUse[s], UNCHANGED lastUse
  PROVE  /\ RowsGoOn /\ RowsInv'
         /\ rows' \in [Sessions -> Row \cup {None}]
         /\ lastUse' \in [Sessions -> Times]
<1>1. row # None
  BY NoneAssumption
<1>2. \A r \in Sessions : lastUse[r] <= lastUse[r]
  BY DEF GateInv, GateTypeOK, Times
<1>3. /\ rows \in [Sessions -> Row \cup {None}]
      /\ lastUse \in [Sessions -> Times]
  BY DEF GateInv, GateTypeOK
<1>4. rows'[s] = row /\ \A r \in Sessions : r # s => rows'[r] = rows[r]
  BY <1>3
<1>5. RowsInv'
  BY <1>3, <1>4 DEF GateInv, RowsInv, RowInv
<1> QED BY <1>1, <1>2, <1>3, <1>4, <1>5 DEF RowsGoOn

\* One request moves on, with a place that CallInv allows; the others stay.
LEMMA OneCallMoves ==
  ASSUME GateInv, NEW c \in Calls, NEW place \in Call, GoTo(c, place),
         made' \in Nat, made <= made',
         RowsGoOn, lastUse' \in [Sessions -> Times],
         CallInv(c)'
  PROVE  /\ calls' \in [Calls -> Call] /\ CallsInv'
         /\ calls'[c] = place /\ \A d \in Calls : d # c => calls'[d] = calls[d]
<1>1. /\ calls \in [Calls -> Call] /\ made \in Nat /\ lastUse \in [Sessions -> Times]
      /\ \A d \in Calls : CallInv(d)
  BY GateAssumption DEF GateInv, GateTypeOK, CallsInv
<1>2. /\ calls' \in [Calls -> Call]
      /\ calls'[c] = place /\ \A d \in Calls : d # c => calls'[d] = calls[d]
  BY <1>1 DEF GoTo
<1>3. ASSUME NEW d \in Calls, d # c PROVE CallInv(d)'
  BY <1>1, <1>2, <1>3, CallKept
<1> QED BY <1>2, <1>3 DEF CallsInv

\* A request goes on to a place where it neither touches nor answers anything.
LEMMA PlainMove ==
  ASSUME GateInv, NEW c \in Calls, NEW place \in Call, GoTo(c, place),
         place.step \notin {"touch", "put", "verify", "complete"}, place.token \in Tokens,
         place.token \in Sessions => rows[place.token] # None,
         UNCHANGED <<clock, rows, bridges, ceremonies, made, lastUse>>,
         status' \in Statuses, enrolled' \in BOOLEAN
  PROVE  GateInv'
<1>0. /\ made \in Nat /\ made <= made /\ calls \in [Calls -> Call]
  BY GateAssumption DEF GateInv, GateTypeOK
<1>1. RowsGoOn /\ RowsInv' /\ lastUse' \in [Sessions -> Times]
  BY SameRows
<1>2. calls'[c] = place
  BY <1>0 DEF GoTo
<1>3. CallInv(c)' /\ ~ Answering(c)'
  BY <1>2 DEF CallInv, Answering
<1>4. /\ calls' \in [Calls -> Call] /\ CallsInv'
      /\ \A d \in Calls : d # c => calls'[d] = calls[d]
  BY <1>0, <1>1, <1>3, OneCallMoves
<1>5. ChallengesHaveOneHolder'
  BY <1>3, <1>4, HoldersKept DEF GateInv, Answering
<1>6. CeremoniesInv'
  BY DEF GateInv, CeremoniesInv, CeremonyInv
<1> QED BY <1>1, <1>4, <1>5, <1>6 DEF GateInv, GateTypeOK

\* Where only bridging credentials change, and requests end, GateInv holds on.
LEMMA BridgesChange ==
  ASSUME GateInv, UNCHANGED <<clock, status, enrolled, rows, ceremonies, made, lastUse>>,
         bridges' \in [Bridges -> Bridge \cup {None}],
         calls' = [c \in Calls |-> calls'[c]],
         \A c \in Calls : calls'[c] = calls[c] \/ calls'[c] = Idle
  PROVE  GateInv'
<1>1. RowsGoOn /\ RowsInv' /\ lastUse' \in [Sessions -> Times]
  BY SameRows
<1>2. calls' \in [Calls -> Call] /\ CallsInv' /\ CeremoniesInv' /\ ChallengesHaveOneHolder'
  BY <1>1, CallsEnd DEF GateInv, GateTypeOK
<1> QED BY <1>1, <1>2 DEF GateInv, GateTypeOK

\* Every step keeps GateInv.
LEMMA GateNextInv == GateInv /\ [GateNext]_gateVars => GateInv'
<1> SUFFICES ASSUME GateInv, [GateNext]_gateVars PROVE GateInv'
  OBVIOUS
<1> USE GateAssumption
<1>0. /\ clock \in Times /\ made \in 0 .. MaxChallenges /\ made \in Nat
      /\ status \in Statuses /\ enrolled \in BOOLEAN
      /\ rows \in [Sessions -> Row \cup {None}]
      /\ bridges \in [Bridges -> Bridge \cup {None}]
      /\ ceremonies \in [Tokens -> Ceremony \cup {None}]
      /\ calls \in [Calls -> Call] /\ calls = [c \in Calls |-> calls[c]]
      /\ lastUse \in [Sessions -> Times]
      /\ Times \subseteq Nat /\ 0 \in Times /\ made <= made
  BY DEF GateInv, GateTypeOK, Times
<1>a. \A c \in Calls : calls[c] \in Call /\ CallInv(c)
  BY <1>0 DEF GateInv, CallsInv
<1>b. ASSUME NEW c \in Calls, Return(c)
      PROVE  /\ calls' = [d \in Calls |-> calls'[d]]
             /\ \A d \in Calls : calls'[d] = calls[d] \/ calls'[d] = Idle
  BY <1>0, <1>b DEF Return, GoTo
<1>1. ASSUME NEW s \in Sessions, NEW now \in Times, Login(s, now) PROVE GateInv'
  <2> DEFINE row == [seen |-> now, expires |-> now + AbsoluteLifetime,
                     revoked |-> FALSE, verified |-> FALSE]
  <2>0. now \in Times /\ now + AbsoluteLifetime \in Nat
    BY <1>1 DEF Times
  <2>1. row \in Row /\ row # None
    <3>1. row \in Row
      BY <2>0 DEF Row
    <3> QED BY <3>1, NoneAssumption
  <2>2. /\ rows[s] = None
        /\ rows' = [rows EXCEPT ![s] = row] /\ lastUse' = [lastUse EXCEPT ![s] = now]
        /\ UNCHANGED <<clock, status, enrolled, bridges, ceremonies, made, calls>>
    BY <1>1 DEF Login
  <2>3. /\ rows' \in [Sessions -> Row \cup {None}]
        /\ lastUse' \in [Sessions -> Times]
        /\ rows'[s] = row /\ lastUse'[s] = now
        /\ \A r \in Sessions : r # s => rows'[r] = rows[r] /\ lastUse'[r] = lastUse[r]
    BY <1>0, <2>1, <2>2
  <2>4. now <= now /\ \A r \in Sessions : lastUse[r] <= lastUse[r]
    BY <1>0, <1>1 DEF Times
  <2>5. RowsGoOn /\ RowsInv'
    BY <2>1, <2>2, <2>3, <2>4 DEF RowsGoOn, RowsInv, RowInv, GateInv
  <2>6. CallsInv' /\ CeremoniesInv' /\ ChallengesHaveOneHolder'
    BY <1>0, <2>2, <2>3, <2>5, CallsEnd
  <2> QED BY <1>0, <2>2, <2>3, <2>5, <2>6 DEF GateInv, GateTypeOK
<1>2. ASSUME NEW to \in Statuses, Administer(to) PROVE GateInv'
  <2>1. /\ RowsGoOn /\ RowsInv'
        /\ rows' \in [Sessions -> Row \cup {None}]
        /\ lastUse' \in [Sessions -> Times]
    BY <1>2, SameRows, RevokedRows DEF Administer, RevokeAll
  <2>2. status' = to /\ UNCHANGED <<clock, enrolled, bridges, ceremonies, made, calls>>
    BY <1>2 DEF Administer
  <2>3. CallsInv' /\ CeremoniesInv' /\ ChallengesHaveOneHolder'
    BY <1>0, <2>1, <2>2, CallsEnd
  <2> QED BY <1>0, <2>1, <2>2, <2>3 DEF GateInv, GateTypeOK
<1>3. ASSUME NEW c \in Calls,
             TurnAway(c) \/ Answer(c) \/ (CompleteEnrollment(c) /\ Return(c))
      PROVE  GateInv'
  <2>1. /\ Return(c) /\ UNCHANGED <<clock, rows, bridges, ceremonies, made, lastUse>>
        /\ status' \in Statuses /\ enrolled' \in BOOLEAN
    BY <1>0, <1>3 DEF TurnAway, Answer, CompleteEnrollment, Statuses
  <2>2. /\ RowsGoOn /\ RowsInv' /\ lastUse' \in [Sessions -> Times]
    BY <2>1, SameRows
  <2>3. calls' \in [Calls -> Call] /\ CallsInv' /\ CeremoniesInv' /\ ChallengesHaveOneHolder'
    BY <1>0, <1>b, <2>1, <2>2, CallsEnd
  <2> QED BY <1>0, <2>1, <2>2, <2>3 DEF GateInv, GateTypeOK
<1>4. ASSUME NEW c \in Calls, NEW some \in SUBSET Sessions, Revoke(some), Return(c),
             UNCHANGED <<clock, status, enrolled, bridges, ceremonies, made>>
      PROVE  GateInv'
  <2>1. /\ RowsGoOn /\ RowsInv'
        /\ rows' \in [Sessions -> Row \cup {None}]
        /\ lastUse' \in [Sessions -> Times]
    BY <1>4, RevokedRows
  <2>2. calls' \in [Calls -> Call] /\ CallsInv' /\ CeremoniesInv' /\ ChallengesHaveOneHolder'
    BY <1>0, <1>b, <1>4, <2>1, CallsEnd
  <2> QED BY <1>0, <1>4, <2>1, <2>2 DEF GateInv, GateTypeOK
<1>5. ASSUME NEW c \in Calls,
             Logout(c) \/ LogoutAll(c) \/ \E s \in Sessions : RevokeOwned(c, s)
      PROVE  GateInv'
  <2>1. Logout(c) => calls[c].token \in Sessions
    BY DEF Logout, InSession
  <2> QED BY <1>4, <1>5, <2>1 DEF Logout, LogoutAll, RevokeOwned, RevokeAll, Listed
<1>6. CASE Restart
  <2>0. bridges' \in [Bridges -> Bridge \cup {None}]
    BY <1>6 DEF Restart, Gone, Bridge
  <2>1. /\ RowsGoOn /\ RowsInv' /\ lastUse' \in [Sessions -> Times]
    BY <1>6, SameRows DEF Restart
  <2>2. calls' \in [Calls -> Call] /\ CallsInv' /\ CeremoniesInv' /\ ChallengesHaveOneHolder'
    BY <1>6, <2>1, CallsEnd DEF Restart
  <2> QED BY <1>0, <1>6, <2>0, <2>1, <2>2 DEF Restart, GateInv, GateTypeOK
<1>7. CASE Tick \/ UNCHANGED gateVars
  <2>1. /\ UNCHANGED <<status, enrolled, rows, bridges, ceremonies, made, calls, lastUse>>
        /\ clock' \in Times
    BY <1>0, <1>7 DEF Tick, gateVars, Times
  <2>2. /\ RowsGoOn /\ RowsInv' /\ lastUse' \in [Sessions -> Times]
    BY <2>1, SameRows
  <2>3. CallsInv' /\ CeremoniesInv' /\ ChallengesHaveOneHolder'
    BY <1>0, <2>1, <2>2, CallsEnd
  <2> QED BY <1>0, <2>1, <2>2, <2>3 DEF GateInv, GateTypeOK
<1>8. ASSUME NEW c \in Calls, CompleteLogin(c) PROVE GateInv'
  <2> DEFINE s == calls[c].token
  <2>1. s \in Sessions /\ rows[s] # None /\ rows[s] \in Row
    BY <1>0, <1>a, <1>8 DEF CompleteLogin, At, CallInv, Answering
  <2>2. /\ RowsGoOn /\ RowsInv'
        /\ rows' \in [Sessions -> Row \cup {None}]
        /\ lastUse' \in [Sessions -> Times]
    <3>1. CASE UNCHANGED rows
      BY <1>8, <3>1, SameRows DEF CompleteLogin
    <3>2. CASE Markable(rows[s], calls[c].now) /\ rows' = [rows EXCEPT ![s].verified = TRUE]
      <4> DEFINE row == [rows[s] EXCEPT !.verified = TRUE]
      <4>1. /\ row \in Row /\ ~ rows[s].revoked /\ ~ row.revoked
            /\ row.seen = rows[s].seen
        BY <2>1, <3>2 DEF Row, Markable
      <4>2. row.seen <= lastUse[s]
        BY <2>1, <4>1 DEF GateInv, RowsInv, RowInv
      <4> QED BY <1>8, <2>1, <3>2, <4>1, <4>2, OneRowSet DEF CompleteLogin
    <3> QED BY <1>8, <3>1, <3>2 DEF CompleteLogin
  <2>3. calls' \in [Calls -> Call] /\ CallsInv' /\ CeremoniesInv' /\ ChallengesHaveOneHolder'
    BY <1>0, <1>b, <1>8, <2>2, CallsEnd DEF CompleteLogin
  <2> QED BY <1>0, <1>8, <2>2, <2>3 DEF CompleteLogin, GateInv, GateTypeOK
<1>9. ASSUME NEW c \in Calls, NEW t \in Tokens, Arrive(c, t) PROVE GateInv'
  <2> DEFINE place == [Idle EXCEPT !.step = "resolve", !.token = t, !.now = clock]
  <2>1. /\ place \in Call /\ place.step = "resolve" /\ place.token = t
    BY <1>0, IdleIsACall DEF Idle, Call
  <2>2. t \in Sessions => rows[t] # None
    BY <1>9, GateAssumption DEF Arrive
  <2> QED BY <1>0, <1>9, <2>1, <2>2, PlainMove DEF Arrive
<1>10. ASSUME NEW c \in Calls, LetIn(c) PROVE GateInv'
  <2> DEFINE place == [calls[c] EXCEPT !.step = "touch"]
             s == calls[c].token
  <2>1. /\ calls[c] \in Call /\ s \in Sessions /\ rows[s] # None
        /\ ~ rows[s].revoked /\ calls[c].now \in Times
    BY <1>0, <1>a, <1>10 DEF LetIn, InSession, At, CallInv, Usable, Call
  <2>2. /\ place \in Call /\ place.step = "touch" /\ place.token = s
        /\ place.now = calls[c].now
        /\ GoTo(c, place)
        /\ lastUse' = [lastUse EXCEPT ![s] = IF @ > calls[c].now THEN @ ELSE calls[c].now]
        /\ UNCHANGED <<clock, status, enrolled, rows, bridges, ceremonies, made>>
    BY <1>10, <2>1 DEF LetIn, Call
  <2>3. /\ lastUse' \in [Sessions -> Times]
        /\ lastUse[s] <= lastUse'[s] /\ calls[c].now <= lastUse'[s]
        /\ \A r \in Sessions : r # s => lastUse'[r] = lastUse[r]
    BY <1>0, <2>1, <2>2
  <2>4. \A r \in Sessions : lastUse[r] <= lastUse'[r] /\ lastUse[r] \in Nat /\ lastUse'[r] \in Nat
    BY <1>0, <2>3 DEF Times
  <2>5. RowsGoOn
    BY <2>2, <2>4 DEF RowsGoOn
  <2>6. RowsInv'
    <3>1. \A r \in Sessions : rows[r] # None => rows[r].seen \in Nat
      BY <1>0 DEF Row
    <3> QED BY <2>1, <2>2, <2>3, <2>4, <3>1 DEF GateInv, RowsInv, RowInv
  <2>7. calls'[c] = place
    BY <1>0, <2>2 DEF GoTo
  <2>8. CallInv(c)' /\ ~ Answering(c)'
    BY <2>1, <2>2, <2>3, <2>7 DEF CallInv, Answering, Tokens
  <2>9. /\ calls' \in [Calls -> Call] /\ CallsInv'
        /\ \A d \in Calls : d # c => calls'[d] = calls[d]
    BY <1>0, <2>2, <2>3, <2>5, <2>8, OneCallMoves
  <2>10. ChallengesHaveOneHolder'
    BY <2>2, <2>8, <2>9, HoldersKept DEF GateInv, Answering
  <2>11. CeremoniesInv'
    BY <2>2 DEF GateInv, CeremoniesInv, CeremonyInv
  <2> QED BY <1>0, <2>2, <2>3, <2>6, <2>9, <2>10, <2>11 DEF GateInv, GateTypeOK
<1>11. ASSUME NEW c \in Calls, Touch(c) PROVE GateInv'
  <2> DEFINE place == [calls[c] EXCEPT !.step = "handle", !.now = 0]
             s == calls[c].token
             row == [rows[s] EXCEPT !.seen = calls[c].now]
  <2>1. /\ calls[c] \in Call /\ s \in Sessions /\ rows[s] # None /\ rows[s] \in Row
        /\ calls[c].now \in Times
    BY <1>0, <1>a, <1>11 DEF Touch, At, CallInv, Call
  <2>2. /\ place \in Call /\ place.step = "handle" /\ place.token = s
        /\ GoTo(c, place)
        /\ UNCHANGED <<clock, status, enrolled, bridges, ceremonies, made, lastUse>>
    BY <1>0, <1>11, <2>1 DEF Touch, Call
  <2>3. /\ RowsGoOn /\ RowsInv'
        /\ rows' \in [Sessions -> Row \cup {None}]
        /\ lastUse' \in [Sessions -> Times]
    <3>1. CASE UNCHANGED rows
      BY <2>2, <3>1, SameRows
    <3>2. CASE ~ rows[s].revoked /\ rows' = [rows EXCEPT ![s].seen = Touched(c)]
      <4>1. row \in Row /\ ~ row.revoked /\ row.seen = calls[c].now
        BY <2>1, <3>2 DEF Row
      <4>2. calls[c].now <= lastUse[s]
        BY <1>a, <1>11, <3>2 DEF CallInv, Touch, At
      <4>3. rows' = [rows EXCEPT ![s] = row]
        BY <3>2 DEF Touched
      <4> QED BY <2>1, <2>2, <3>2, <4>1, <4>2, <4>3, OneRowSet
    <3> QED BY <1>11, <3>1, <3>2 DEF Touch
  <2>4. calls'[c] = place
    BY <1>0, <2>2 DEF GoTo
  <2>5. rows'[s] # None
    BY <2>1, <2>3 DEF RowsGoOn
  <2>6. CallInv(c)' /\ ~ Answering(c)'
    BY <2>1, <2>2, <2>4, <2>5 DEF CallInv, Answering, Tokens
  <2>7. /\ calls' \in [Calls -> Call] /\ CallsInv'
        /\ \A d \in Calls : d # c => calls'[d] = calls[d]
    BY <1>0, <2>2, <2>3, <2>6, OneCallMoves
  <2>8. ChallengesHaveOneHolder'
    BY <2>2, <2>6, <2>7, HoldersKept DEF GateInv, Answering
  <2>9. CeremoniesInv'
    BY <2>2 DEF GateInv, CeremoniesInv, CeremonyInv
  <2> QED BY <1>0, <2>2, <2>3, <2>7, <2>8, <2>9 DEF GateInv, GateTypeOK
<1>12. ASSUME NEW c \in Calls, Verify(c) PROVE GateInv'
  <2>0. UNCHANGED <<clock, status, enrolled, rows, bridges, ceremonies, made, lastUse>>
    BY <1>12 DEF Verify
  <2>1. /\ RowsGoOn /\ RowsInv' /\ lastUse' \in [Sessions -> Times]
    BY <2>0, SameRows
  <2>2. CASE Return(c)
    <3>1. calls' \in [Calls -> Call] /\ CallsInv' /\ CeremoniesInv' /\ ChallengesHaveOneHolder'
      BY <1>0, <1>b, <2>0, <2>1, <2>2, CallsEnd
    <3> QED BY <1>0, <2>0, <2>1, <3>1 DEF GateInv, GateTypeOK
  <2>3. CASE GoTo(c, [calls[c] EXCEPT !.step = "complete"])
    <3> DEFINE place == [calls[c] EXCEPT !.step = "complete"]
    <3>1. /\ calls[c] \in Call /\ CallInv(c) /\ calls[c].step = "verify"
      BY <1>a, <1>12 DEF Verify, At
    <3>2. /\ place \in Call /\ place.step = "complete" /\ place.token = calls[c].token
          /\ place.purpose = calls[c].purpose /\ place.challenge = calls[c].challenge
      BY <3>1 DEF Call
    <3>3. calls'[c] = place
      BY <1>0, <2>3 DEF GoTo
    <3>4. CallInv(c)' /\ Answering(c) /\ Challenges' = Challenges
      BY <2>0, <3>1, <3>2, <3>3 DEF CallInv, Answering, MadeFor, Challenges, Purposes
    <3>5. /\ calls' \in [Calls -> Call] /\ CallsInv'
          /\ \A d \in Calls : d # c => calls'[d] = calls[d]
      BY <1>0, <2>0, <2>1, <2>3, <3>2, <3>4, OneCallMoves
    <3>6. \A d \in Calls : Answering(d)' => Answering(d) /\ calls'[d].challenge = calls[d].challenge
      BY <3>2, <3>3, <3>4, <3>5 DEF Answering
    <3>7. ChallengesHaveOneHolder'
      BY <2>0, <3>6, HoldersKept DEF GateInv
    <3>8. CeremoniesInv'
      BY <2>0 DEF GateInv, CeremoniesInv, CeremonyInv
    <3> QED BY <1>0, <2>0, <2>1, <3>5, <3>7, <3>8 DEF GateInv, GateTypeOK
  <2> QED BY <1>12, <2>2, <2>3 DEF Verify
<1>13. ASSUME NEW c \in Calls, NEW purpose \in Purposes, Begin(c, purpose) PROVE GateInv'
  <2>0. UNCHANGED <<clock, status, enrolled, rows, bridges, ceremonies, lastUse>> /\ ~ Answering(c)
    BY <1>13 DEF Begin, Served, At, Answering
  <2>1. /\ RowsGoOn /\ RowsInv' /\ lastUse' \in [Sessions -> Times]
    BY <2>0, SameRows
  <2>2. CASE Return(c) /\ UNCHANGED made
    <3>1. calls' \in [Calls -> Call] /\ CallsInv' /\ CeremoniesInv' /\ ChallengesHaveOneHolder'
      BY <1>0, <1>b, <2>0, <2>1, <2>2, CallsEnd
    <3> QED BY <1>0, <2>0, <2>1, <2>2, <3>1 DEF GateInv, GateTypeOK
  <2> DEFINE challenge == [number |-> made + 1, token |-> calls[c].token,
                           purpose |-> purpose]
             place == [calls[c] EXCEPT !.step = "put", !.purpose = purpose, !.now = clock,
                                       !.challenge = challenge]
  <2>3. CASE made < MaxChallenges /\ made' = made + 1 /\ GoTo(c, place)
    <3>1. /\ calls[c] \in Call /\ calls[c].token \in Tokens
          /\ calls[c].token \in Sessions => rows[calls[c].token] # None
          /\ purpose = "login" => calls[c].token \in Sessions
      BY <1>a, <1>13 DEF Begin, Served, InSession, At, CallInv, Purposes
    <3>2. /\ made + 1 \in 1 .. MaxChallenges /\ made' \in 0 .. MaxChallenges
          /\ made' \in Nat /\ made <= made' /\ made + 1 <= made'
      BY <1>0, <2>3
    <3>3. challenge \in Challenges /\ challenge.number = made + 1
      BY <3>1, <3>2 DEF Challenges
    <3>4. /\ place \in Call /\ place.step = "put" /\ place.token = calls[c].token
          /\ place.purpose = purpose /\ place.challenge = challenge
      BY <1>0, <3>1, <3>3 DEF Call
    <3>5. calls'[c] = place
      BY <1>0, <2>3 DEF GoTo
    <3>6. CallInv(c)' /\ calls'[c].challenge = challenge
      BY <2>0, <3>1, <3>2, <3>3, <3>4, <3>5 DEF CallInv, Answering, MadeFor, Challenges, Purposes
    <3>7. /\ calls' \in [Calls -> Call] /\ CallsInv'
          /\ \A d \in Calls : d # c => calls'[d] = calls[d]
      BY <1>0, <2>1, <2>3, <3>2, <3>4, <3>6, OneCallMoves
    <3>8. /\ \A d \in Calls : Answering(d) => calls[d].challenge.number \in 1 .. made
          /\ \A s \in Tokens : ceremonies[s] # None => ceremonies[s].challenge.number \in 1 .. made
      <4>1. \A s \in Tokens : ceremonies[s] # None => ceremonies[s].challenge \in Challenges
        BY <1>0 DEF Ceremony
      <4> QED BY <1>0, <1>a, <4>1
              DEF CallInv, GateInv, CeremoniesInv, CeremonyInv, Challenges
    <3>9. \A n \in 1 .. made : n # made + 1
      BY <1>0
    <3>10. OneHolder'
      <4>1. OneHolder
        BY HolderForms DEF GateInv
      <4>2. \A d \in Calls : d # c => (Answering(d)' <=> Answering(d)) /\ calls'[d] = calls[d]
        BY <3>7 DEF Answering
      <4>3. /\ \A d \in Calls : Answering(d) => calls[d].challenge # challenge
            /\ \A s \in Tokens : ceremonies[s] # None => ceremonies[s].challenge # challenge
        BY <3>3, <3>8, <3>9
      <4> QED BY <2>0, <3>6, <4>1, <4>2, <4>3 DEF OneHolder
    <3>11. ChallengesHaveOneHolder'
      BY <3>10, HolderForms
    <3>12. CeremoniesInv'
      BY <1>0, <2>0, <3>2, <3>8 DEF GateInv, CeremoniesInv, CeremonyInv
    <3> QED BY <1>0, <2>0, <2>1, <3>2, <3>7, <3>11, <3>12 DEF GateInv, GateTypeOK
  <2> QED BY <1>13, <2>2, <2>3 DEF Begin
<1>14. ASSUME NEW c \in Calls, Put(c) PROVE GateInv'
  <2>p. PICK s \in Tokens : s = calls[c].token
    BY <1>a, <1>14 DEF Put, At, CallInv
  <2> DEFINE kept == Swept(calls[c].now)
             ceremony == [purpose |-> calls[c].purpose, challenge |-> calls[c].challenge,
                          expires |-> calls[c].now + CeremonyTTL]
  <2>0. /\ UNCHANGED <<clock, status, enrolled, rows, bridges, made, lastUse>> /\ Return(c)
        /\ Answering(c) /\ calls[c] \in Call /\ CallInv(c)
    BY <1>a, <1>14 DEF Put, At, Answering, CallInv
  <2>1. /\ RowsGoOn /\ RowsInv' /\ lastUse' \in [Sessions -> Times]
    BY <2>0, SameRows
  <2>2. /\ kept \in [Tokens -> Ceremony \cup {None}]
        /\ \A r \in Tokens : kept[r] # None => kept[r] = ceremonies[r]
    BY <1>0 DEF Swept, Live
  <2>3. CASE ceremonies' = kept
    <3>1. calls' \in [Calls -> Call] /\ CallsInv' /\ CeremoniesInv' /\ ChallengesHaveOneHolder'
      BY <1>b, <2>0, <2>1, <2>2, <2>3, CallsEnd
    <3> QED BY <1>0, <2>0, <2>1, <2>2, <2>3, <3>1 DEF GateInv, GateTypeOK
  <2>4. CASE ceremonies' = [kept EXCEPT ![s] = ceremony]
    <3>1. ceremony \in Ceremony
      <4>1. calls[c].now + CeremonyTTL \in Nat
        BY <2>0 DEF Call, Times
      <4> QED BY <2>0, <4>1 DEF Call, CallInv, Ceremony
    <3>2. /\ ceremonies' \in [Tokens -> Ceremony \cup {None}]
          /\ ceremonies'[s] = ceremony
          /\ \A r \in Tokens : r # s /\ ceremonies'[r] # None => ceremonies'[r] = ceremonies[r]
      BY <2>2, <2>4, <2>p, <3>1
    <3>3. /\ calls' \in [Calls -> Call] /\ calls'[c] = Idle /\ ~ Answering(c)'
          /\ \A d \in Calls : d # c => calls'[d] = calls[d]
      BY <1>0, <2>0, IdleIsACall DEF Return, GoTo, Answering
    <3>4. CallsInv'
      <4>1. ASSUME NEW d \in Calls, d # c PROVE CallInv(d)'
        BY <1>0, <1>a, <2>0, <2>1, <3>3, <4>1, CallKept
      <4>2. CallInv(c)'
        BY <3>3, IdleIsACall DEF CallInv, Tokens
      <4> QED BY <4>1, <4>2 DEF CallsInv
    <3>5. CeremoniesInv'
      <4>1. CeremonyInv(s)'
        BY <2>0, <2>p, <3>2 DEF CeremonyInv, CallInv, MadeFor
      <4> QED BY <2>0, <3>2, <4>1 DEF GateInv, CeremoniesInv, CeremonyInv, MadeFor
    <3>6. OneHolder'
      <4>1. OneHolder
        BY HolderForms DEF GateInv
      <4>2. \A d \in Calls : Answering(d)' => d # c /\ Answering(d) /\ calls'[d] = calls[d]
        BY <3>3 DEF Answering
      <4>3. ceremonies'[s].challenge = calls[c].challenge
        BY <3>2
      <4> QED BY <2>0, <3>2, <4>1, <4>2, <4>3 DEF OneHolder
    <3>7. ChallengesHaveOneHolder'
      BY <3>6, HolderForms
    <3> QED BY <1>0, <2>0, <2>1, <3>2, <3>3, <3>4, <3>5, <3>7 DEF GateInv, GateTypeOK
  <2> QED BY <1>14, <2>3, <2>4, <2>p DEF Put
<1>15. ASSUME NEW c \in Calls, NEW purpose \in Purposes, Take(c, purpose) PROVE GateInv'
  <2> DEFINE s == calls[c].token
             place == [calls[c] EXCEPT !.step = "verify", !.purpose = purpose, !.now = clock,
                                       !.challenge = ceremonies[s].challenge]
  <2>0. /\ UNCHANGED <<clock, status, enrolled, rows, bridges, made, lastUse>>
        /\ ~ Answering(c) /\ calls[c] \in Call /\ s \in Tokens
        /\ s \in Sessions => rows[s] # None
        /\ ceremonies' = [ceremonies EXCEPT ![s] = None]
    BY <1>a, <1>15 DEF Take, Served, At, Answering, CallInv, Taken
  <2>1. /\ RowsGoOn /\ RowsInv' /\ lastUse' \in [Sessions -> Times]
    BY <2>0, SameRows
  <2>2. /\ ceremonies' \in [Tokens -> Ceremony \cup {None}]
        /\ ceremonies'[s] = None
        /\ \A r \in Tokens : ceremonies'[r] # None => r # s /\ ceremonies'[r] = ceremonies[r]
    BY <1>0, <2>0
  <2>3. CASE Return(c)
    <3>1. calls' \in [Calls -> Call] /\ CallsInv' /\ CeremoniesInv' /\ ChallengesHaveOneHolder'
      BY <1>b, <2>0, <2>1, <2>2, <2>3, CallsEnd
    <3> QED BY <1>0, <2>0, <2>1, <2>2, <3>1 DEF GateInv, GateTypeOK
  <2>4. CASE Applies(s, purpose, clock) /\ GoTo(c, place)
    <3>1. /\ ceremonies[s] # None /\ ceremonies[s] \in Ceremony
          /\ ceremonies[s].purpose = purpose
          /\ ceremonies[s].challenge \in Challenges /\ CeremonyInv(s)
      BY <1>0, <2>0, <2>4 DEF Applies, Live, Ceremony, GateInv, CeremoniesInv
    <3>2. /\ place \in Call /\ place.step = "verify" /\ place.token = s
          /\ place.purpose = purpose /\ place.challenge = ceremonies[s].challenge
      BY <1>0, <2>0, <3>1 DEF Call
    <3>3. calls'[c] = place
      BY <1>0, <2>4 DEF GoTo
    <3>4. CallInv(c)'
      BY <2>0, <3>1, <3>2, <3>3
      DEF CallInv, CeremonyInv, Answering, MadeFor, Challenges, Purposes
    <3>5. /\ calls' \in [Calls -> Call] /\ CallsInv'
          /\ \A d \in Calls : d # c => calls'[d] = calls[d]
      BY <1>0, <2>0, <2>1, <2>4, <3>2, <3>4, OneCallMoves
    <3>6. OneHolder'
      <4>1. OneHolder
        BY HolderForms DEF GateInv
      <4>2. \A d \in Calls : d # c => (Answering(d)' <=> Answering(d)) /\ calls'[d] = calls[d]
        BY <3>5 DEF Answering
      <4>3. calls'[c].challenge = ceremonies[s].challenge
        BY <3>2, <3>3
      <4> QED BY <2>0, <2>2, <3>1, <4>1, <4>2, <4>3 DEF OneHolder
    <3>7. ChallengesHaveOneHolder'
      BY <3>6, HolderForms
    <3>8. CeremoniesInv'
      BY <2>0, <2>2 DEF GateInv, CeremoniesInv, CeremonyInv, MadeFor
    <3> QED BY <1>0, <2>0, <2>1, <2>2, <3>5, <3>7, <3>8 DEF GateInv, GateTypeOK
  <2> QED BY <1>15, <2>3, <2>4 DEF Take
<1>16. ASSUME NEW c \in Calls, Recognize(c) \/ LetInToEnroll(c) PROVE GateInv'
  <2> DEFINE place == IF Recognize(c) THEN [calls[c] EXCEPT !.step = "account"]
                      ELSE [calls[c] EXCEPT !.step = "handle", !.now = 0]
  <2>1. /\ place \in Call /\ place.step \in {"account", "handle"}
        /\ place.token = calls[c].token
    BY <1>0, <1>a DEF Call
  <2>2. place.token \in Tokens /\ (place.token \in Sessions => rows[place.token] # None)
    BY <1>a, <1>16, <2>1 DEF Recognize, LetInToEnroll, At, CallInv
  <2>3. GoTo(c, place)
    BY <1>16 DEF Recognize, LetInToEnroll, At
  <2>4. UNCHANGED <<clock, status, enrolled, rows, bridges, ceremonies, made, lastUse>>
    BY <1>16 DEF Recognize, LetInToEnroll
  <2> HIDE DEF place
  <2> QED BY <1>0, <2>1, <2>2, <2>3, <2>4, PlainMove
<1>17. ASSUME NEW c \in Calls, NEW s \in Sessions, FallBack(c, s) PROVE GateInv'
  <2> DEFINE place == [calls[c] EXCEPT !.step = "resolve", !.token = s]
  <2>1. place \in Call /\ place.step = "resolve" /\ place.token = s /\ s \in Tokens
    BY <1>0, <1>a DEF Call, Tokens
  <2> QED BY <1>0, <1>17, <2>1, PlainMove DEF FallBack
<1>18. ASSUME NEW c \in Calls, CompleteEnrollment(c), ~ Return(c) PROVE GateInv'
  <2> DEFINE place == [Idle EXCEPT !.step = "revoke", !.token = calls[c].token]
  <2>1. /\ calls[c].token \in Tokens
        /\ calls[c].token \in Sessions => rows[calls[c].token] # None
    BY <1>a, <1>18 DEF CompleteEnrollment, At, CallInv
  <2>2. place \in Call /\ place.step = "revoke" /\ place.token = calls[c].token
    BY <2>1, IdleIsACall DEF Idle, Call
  <2>3. /\ GoTo(c, place) /\ UNCHANGED <<clock, rows, bridges, ceremonies, made, lastUse>>
        /\ status' \in Statuses /\ enrolled' \in BOOLEAN
    BY <1>18 DEF CompleteEnrollment, Statuses
  <2> QED BY <2>1, <2>2, <2>3, PlainMove
<1>19. Gone \in Bridge /\ \A b \in Bridges : bridges[b] = None \/ bridges[b] \in Bridge
  BY <1>0 DEF Gone, Bridge
<1>20. ASSUME NEW c \in Calls, RevokeBridges(c) PROVE GateInv'
  <2>1. bridges' \in [Bridges -> Bridge \cup {None}]
    BY <1>19, <1>20 DEF RevokeBridges
  <2> QED BY <1>b, <1>20, <2>1, BridgesChange DEF RevokeBridges
<1>21. ASSUME NEW b \in Bridges, Redeem(b) \/ Issue(b) PROVE GateInv'
  <2>1. clock + BridgeTTL \in Nat
    BY <1>0 DEF Times
  <2>2. [stage |-> "owed", expires |-> clock + BridgeTTL] \in Bridge
    BY <2>1 DEF Bridge
  <2>3. bridges[b] # None => [bridges[b] EXCEPT !.stage = "held"] \in Bridge
    BY <1>19 DEF Bridge
  <2>4. \E to \in Bridge : bridges' = [bridges EXCEPT ![b] = to]
    BY <1>19, <1>21, <2>2, <2>3 DEF Redeem, Issue
  <2>5. bridges' \in [Bridges -> Bridge \cup {None}]
    BY <1>0, <2>4
  <2>6. UNCHANGED <<clock, status, enrolled, rows, ceremonies, made, calls, lastUse>>
    BY <1>21 DEF Redeem, Issue
  <2> QED BY <1>0, <2>5, <2>6, BridgesChange
<1>22. ASSUME NEW c \in Calls, Step(c) PROVE GateInv'
  BY <1>3, <1>5, <1>8, <1>9, <1>10, <1>11, <1>12, <1>13, <1>14, <1>15, <1>16, <1>17, <1>18,
     <1>20, <1>22
  DEF Step, Handle
<1> QED BY <1>1, <1>2, <1>6, <1>7, <1>21, <1>22 DEF GateNext

-----------------------------------------------------------------------------
(* The theorems.                                                           *)

\* GateInv holds in every state of every behavior.
THEOREM GateInvariant == GateSpec => []GateInv
  BY GateInitInv, GateNextInv, PTL DEF GateSpec

\* The tables, the store and the requests keep their types.
THEOREM GateTypeCorrect == GateSpec => []GateTypeOK
<1>1. GateInv => GateTypeOK
  BY DEF GateInv
<1> QED BY <1>1, GateInvariant, PTL

\* A ceremony can be finished at most once: its challenge waits in the store
\* under the one token it was made for, or is answered by one request.
THEOREM ChallengesAreAnsweredOnce == GateSpec => []ChallengesHaveOneHolder
<1>1. GateInv => ChallengesHaveOneHolder
  BY DEF GateInv
<1> QED BY <1>1, GateInvariant, PTL

\* The ways a step writes rows: nothing, a new session, a revocation, a touch
\* or a mark of an open one.
LEMMA RowWrites ==
  ASSUME GateInv, [GateNext]_gateVars
  PROVE  \/ UNCHANGED rows /\ (\A s \in Sessions : rows[s] # None /\ rows[s].revoked =>
                                  lastUse'[s] = lastUse[s])
         \/ \E s \in Sessions, row \in Row :
              /\ rows[s] = None /\ rows' = [rows EXCEPT ![s] = row]
              /\ \A r \in Sessions : r # s => lastUse'[r] = lastUse[r]
         \/ \E some \in SUBSET Sessions : Revoke(some)
         \/ \E c \in Calls :
              LET s == calls[c].token IN
              /\ s \in Sessions /\ rows[s] # None /\ ~ rows[s].revoked
              /\ \/ rows' = [rows EXCEPT ![s].seen = calls[c].now]
                 \/ /\ rows' = [rows EXCEPT ![s].verified = TRUE]
                    /\ At(c, "complete") /\ calls[c].purpose = "login"
              /\ UNCHANGED lastUse
<1> USE GateAssumption
<1>0. /\ \A c \in Calls : CallInv(c)
      /\ lastUse \in [Sessions -> Times] /\ Times \subseteq Nat
  BY DEF GateInv, GateTypeOK, CallsInv, Times
<1>1. ASSUME NEW s \in Sessions, NEW now \in Times, Login(s, now)
      PROVE  \E r \in Sessions, row \in Row :
               /\ rows[r] = None /\ rows' = [rows EXCEPT ![r] = row]
               /\ \A q \in Sessions : q # r => lastUse'[q] = lastUse[q]
  <2> DEFINE row == [seen |-> now, expires |-> now + AbsoluteLifetime,
                     revoked |-> FALSE, verified |-> FALSE]
  <2>1. now + AbsoluteLifetime \in Nat
    BY <1>1 DEF Times
  <2>2. row \in Row
    BY <1>1, <2>1 DEF Row
  <2> QED BY <1>0, <1>1, <2>2 DEF Login
<1>2. ASSUME NEW to \in Statuses, Administer(to)
      PROVE  Revoke(Sessions) \/ UNCHANGED <<rows, lastUse>>
  BY <1>2 DEF Administer, RevokeAll
<1>3. ASSUME NEW c \in Calls,
             Logout(c) \/ LogoutAll(c) \/ \E s \in Sessions : RevokeOwned(c, s)
      PROVE  \E some \in SUBSET Sessions : Revoke(some)
  <2>1. Logout(c) => calls[c].token \in Sessions
    BY DEF Logout, InSession
  <2> QED BY <1>3, <2>1 DEF Logout, LogoutAll, RevokeOwned, RevokeAll, Listed
<1>4. ASSUME NEW c \in Calls, Touch(c) \/ CompleteLogin(c), ~ UNCHANGED rows
      PROVE  LET s == calls[c].token IN
              /\ s \in Sessions /\ rows[s] # None /\ ~ rows[s].revoked
              /\ \/ rows' = [rows EXCEPT ![s].seen = calls[c].now]
                 \/ /\ rows' = [rows EXCEPT ![s].verified = TRUE]
                    /\ At(c, "complete") /\ calls[c].purpose = "login"
              /\ UNCHANGED lastUse
  BY <1>0, <1>4 DEF Touch, Touched, CompleteLogin, CallInv, Answering, At, Markable
<1>5. ASSUME NEW c \in Calls, LetIn(c)
      PROVE  UNCHANGED rows /\ (\A s \in Sessions : rows[s] # None /\ rows[s].revoked =>
                                  lastUse'[s] = lastUse[s])
  BY <1>0, <1>5 DEF LetIn, Usable
<1>6. ASSUME NEW c \in Calls,
             \/ \E t \in Tokens : Arrive(c, t)
             \/ \E s \in Sessions : FallBack(c, s)
             \/ \E purpose \in Purposes : Begin(c, purpose) \/ Take(c, purpose)
             \/ Recognize(c) \/ LetInToEnroll(c) \/ RevokeBridges(c)
             \/ TurnAway(c) \/ Answer(c) \/ Put(c) \/ Verify(c) \/ CompleteEnrollment(c)
             \/ (Touch(c) \/ CompleteLogin(c)) /\ UNCHANGED rows
      PROVE  UNCHANGED <<rows, lastUse>>
  BY <1>6
  DEF Arrive, FallBack, Recognize, LetInToEnroll, RevokeBridges, Begin, Take, TurnAway,
      Answer, Put, Verify, CompleteEnrollment, Touch, CompleteLogin
<1>7. CASE \/ Restart \/ Tick \/ UNCHANGED gateVars
           \/ \E b \in Bridges : Redeem(b) \/ Issue(b)
  BY <1>7 DEF Restart, Tick, gateVars, Redeem, Issue
<1>8. ASSUME NEW c \in Calls, Step(c)
      PROVE  \/ UNCHANGED rows /\ (\A s \in Sessions : rows[s] # None /\ rows[s].revoked =>
                                    lastUse'[s] = lastUse[s])
             \/ \E some \in SUBSET Sessions : Revoke(some)
             \/ /\ Touch(c) \/ CompleteLogin(c)
                /\ ~ UNCHANGED rows
  BY <1>3, <1>5, <1>6, <1>8 DEF Step, Handle
<1> QED BY <1>1, <1>2, <1>4, <1>7, <1>8 DEF GateNext

\* Once revoked, a session is never let in, touched or verified again.
THEOREM RevokedStaysShut == GateSpec => RevokedIsShut
<1> DEFINE Shut(s) == /\ rows[s].revoked => rows'[s] = rows[s] /\ lastUse'[s] = lastUse[s]
                      /\ rows'[s] = Ended \/ rows'[s].expires = rows[s].expires
<1>1. ASSUME GateInv, [GateNext]_gateVars, NEW s \in Sessions, rows[s] # None
      PROVE  Shut(s)
  <2>0. rows \in [Sessions -> Row \cup {None}] /\ \A r \in Sessions : rows[r] # None => rows[r] \in Row
    BY <1>1 DEF GateInv, GateTypeOK
  <2>1. CASE UNCHANGED rows /\ (rows[s].revoked => lastUse'[s] = lastUse[s])
    BY <2>1
  <2>2. ASSUME NEW r \in Sessions, NEW row \in Row, rows[r] = None,
               rows' = [rows EXCEPT ![r] = row],
               \A q \in Sessions : q # r => lastUse'[q] = lastUse[q]
        PROVE  Shut(s)
    BY <1>1, <2>0, <2>2
  <2>3. ASSUME NEW some \in SUBSET Sessions, Revoke(some) PROVE Shut(s)
    BY <1>1, <2>3, RevokeSound DEF GateInv
  <2>4. ASSUME NEW r \in Sessions, rows[r] # None, ~ rows[r].revoked, UNCHANGED lastUse,
               NEW now, \/ rows' = [rows EXCEPT ![r].seen = now]
                        \/ rows' = [rows EXCEPT ![r].verified = TRUE]
        PROVE  Shut(s)
    BY <1>1, <2>0, <2>4 DEF Row
  <2> QED BY <1>1, <2>1, <2>2, <2>3, <2>4, RowWrites
<1>2. GateInv /\ [GateNext]_gateVars =>
        [\A s \in Sessions : rows[s] # None => Shut(s)]_gateVars
  BY <1>1
<1> QED BY <1>2, GateInvariant, PTL DEF GateSpec, RevokedIsShut

\* Where a request stands changes by its own steps, and by a restart.
LEMMA OnlyLetInTouches ==
  ASSUME GateInv, [GateNext]_gateVars, NEW c \in Calls,
         At(c, "resolve"), At(c, "touch")'
  PROVE  LetIn(c)
<1>0. /\ calls \in [Calls -> Call] /\ calls[c].step = "resolve" /\ calls'[c].step = "touch"
      /\ calls'[c] # calls[c] /\ calls'[c] # Idle
  BY IdleIsACall DEF GateInv, GateTypeOK, At, Idle
<1>1. ASSUME NEW d \in Calls, Step(d), d # c PROVE FALSE
  <2>1. \E place : GoTo(d, place)
    BY <1>1
    DEF Step, Handle, Arrive, FallBack, Recognize, LetInToEnroll, LetIn, TurnAway, Touch,
        Answer, Logout, LogoutAll, RevokeOwned, Begin, Take, Put, Verify,
        CompleteEnrollment, RevokeBridges, CompleteLogin, Return
  <2> QED BY <1>0, <1>1, <2>1 DEF GoTo
<1>2. Step(c) => LetIn(c)
  <2>0. ~ Recognize(c) /\ \A s \in Sessions : ~ FallBack(c, s)
    <3>1. calls[c] \in Call
      BY <1>0
    <3> QED BY <1>0, <3>1 DEF Recognize, FallBack, GoTo, Call
  <2>1. Step(c) => LetIn(c) \/ Return(c)
    BY <1>0, <2>0
    DEF Step, Handle, Arrive, LetInToEnroll, TurnAway, Touch, Answer, Logout, LogoutAll,
        RevokeOwned, Begin, Take, Served, Put, Verify, CompleteEnrollment, RevokeBridges,
        CompleteLogin, At
  <2> QED BY <1>0, <2>1 DEF Return, GoTo
<1>3. /\ \A s \in Sessions, now \in Times : ~ Login(s, now)
      /\ \A to \in Statuses : ~ Administer(to)
      /\ \A b \in Bridges : ~ Redeem(b) /\ ~ Issue(b)
      /\ ~ Restart /\ ~ Tick /\ ~ UNCHANGED gateVars
  BY <1>0 DEF Login, Administer, Redeem, Issue, Restart, Tick, gateVars
<1> QED BY <1>1, <1>2, <1>3 DEF GateNext

\* Nobody is let in an IdleTimeout or more after the session's last use.
THEOREM IdlenessCounts == GateSpec => IdleIsMeasuredFromUse
<1>1. ASSUME GateInv, [GateNext]_gateVars, NEW c \in Calls,
             At(c, "resolve") /\ At(c, "touch")'
      PROVE  calls[c].now - lastUse[calls[c].token] < IdleTimeout
  <2> DEFINE s == calls[c].token
  <2>1. LetIn(c)
    BY <1>1, OnlyLetInTouches
  <2>2. s \in Sessions /\ rows[s] # None /\ RowInv(s) /\ calls[c] \in Call
    BY <1>1, <2>1 DEF LetIn, InSession, GateInv, GateTypeOK, CallsInv, CallInv, RowsInv
  <2>3. /\ lastUse[s] \in Int /\ rows[s].seen \in Int /\ calls[c].now \in Int
        /\ IdleTimeout \in Int
    BY <1>1, <2>2, GateAssumption DEF GateInv, GateTypeOK, Times, Row, Call
  <2>4. rows[s].seen <= lastUse[s] /\ ~ (calls[c].now - rows[s].seen >= IdleTimeout)
    BY <2>1, <2>2 DEF LetIn, Usable, IdleExpired, RowInv
  <2> QED BY <2>3, <2>4
<1>2. GateInv /\ [GateNext]_gateVars =>
        [\A c \in Calls : (At(c, "resolve") /\ At(c, "touch")') =>
           calls[c].now - lastUse[calls[c].token] < IdleTimeout]_gateVars
  BY <1>1
<1> QED BY <1>2, GateInvariant, PTL DEF GateSpec, IdleIsMeasuredFromUse

\* The steps that may enroll a passkey.
LEMMA OnlyCompletionEnrolls ==
  ASSUME GateInv, [GateNext]_gateVars, enrolled' # enrolled
  PROVE  /\ status # "suspended"
         /\ \E c \in Calls : At(c, "complete") /\ calls[c].purpose = "enroll"
<1>1. PICK c \in Calls : CompleteEnrollment(c)
  BY DEF GateNext, Login, Administer, Redeem, Issue, Restart, Tick, gateVars, Step, Handle,
         Arrive, FallBack, Recognize, LetInToEnroll, LetIn, TurnAway, Touch, Answer, Logout,
         LogoutAll, RevokeOwned, Begin, Take, Put, Verify, RevokeBridges, CompleteLogin
<1> QED BY <1>1 DEF CompleteEnrollment, Eligible

\* A session becomes verified, and a passkey enrolled, only by completing the
\* ceremony that was begun under the token the request was let in with, a
\* session or a bridging credential; and never for a suspended account.
THEOREM CompletionsAreBegun == GateSpec => CompletionsWereBegun
<1>1. ASSUME GateInv, NEW c \in Calls, At(c, "complete")
      PROVE  MadeFor(calls[c].challenge, calls[c].token, calls[c].purpose)
  BY <1>1 DEF GateInv, CallsInv, CallInv, Answering, At
<1>2. ASSUME GateInv, [GateNext]_gateVars, NEW s \in Sessions,
             rows[s] # None, rows'[s].verified, ~ rows[s].verified
      PROVE  /\ Open(s)
             /\ \E c \in Calls : /\ At(c, "complete") /\ calls[c].token = s
                                 /\ MadeFor(calls[c].challenge, s, "login")
  <2>0. rows \in [Sessions -> Row \cup {None}] /\ rows[s] \in Row
    BY <1>2 DEF GateInv, GateTypeOK
  <2>1. ASSUME NEW r \in Sessions, NEW row \in Row, rows[r] = None,
               rows' = [rows EXCEPT ![r] = row]
        PROVE  FALSE
    BY <1>2, <2>0, <2>1
  <2>2. ASSUME NEW some \in SUBSET Sessions, Revoke(some) PROVE FALSE
    BY <1>2, <2>0, <2>2 DEF Revoke, Ended
  <2>3. ASSUME NEW c \in Calls, calls[c].token \in Sessions,
               rows' = [rows EXCEPT ![calls[c].token].seen = calls[c].now]
        PROVE  FALSE
    BY <1>2, <2>0, <2>3 DEF Row
  <2>4. ~ UNCHANGED rows
    BY <1>2
  <2>5. PICK c \in Calls :
          /\ calls[c].token \in Sessions /\ ~ rows[calls[c].token].revoked
          /\ rows' = [rows EXCEPT ![calls[c].token].verified = TRUE]
          /\ At(c, "complete") /\ calls[c].purpose = "login"
    BY <1>2, <2>1, <2>2, <2>3, <2>4, RowWrites
  <2>6. calls[c].token = s
    BY <1>2, <2>0, <2>5
  <2> QED BY <1>1, <1>2, <2>5, <2>6 DEF Open
<1>3. ASSUME GateInv, [GateNext]_gateVars, enrolled', ~ enrolled
      PROVE  /\ status # "suspended"
             /\ \E c \in Calls : /\ At(c, "complete")
                                 /\ MadeFor(calls[c].challenge, calls[c].token, "enroll")
  BY <1>1, <1>3, OnlyCompletionEnrolls
<1>4. GateInv /\ [GateNext]_gateVars =>
       [/\ \A s \in Sessions : (rows[s] # None /\ rows'[s].verified /\ ~ rows[s].verified) =>
             /\ Open(s)
             /\ \E c \in Calls : /\ At(c, "complete") /\ calls[c].token = s
                                 /\ MadeFor(calls[c].challenge, s, "login")
        /\ (enrolled' /\ ~ enrolled) =>
             /\ status # "suspended"
             /\ \E c \in Calls : /\ At(c, "complete")
                                 /\ MadeFor(calls[c].challenge, calls[c].token, "enroll")]_gateVars
  BY <1>2, <1>3
<1> QED BY <1>4, GateInvariant, PTL DEF GateSpec, CompletionsWereBegun

=============================================================================
