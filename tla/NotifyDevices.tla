---------------------------- MODULE NotifyDevices ----------------------------
(***************************************************************************)
(* The notification_devices table and the methods of                       *)
(* backend/internal/notifydevicestore that write it, statement by          *)
(* statement, at READ COMMITTED.                                           *)
(*                                                                         *)
(* Register is one INSERT ... ON CONFLICT, and the command sandbox-device  *)
(* makes an INSERT of its own.  Replace and Revoke are transactions that   *)
(* lock the row they are about (SELECT ... FOR UPDATE) before they decide. *)
(* What a transaction has written is not in "rows" before its COMMIT; a    *)
(* statement that needs a row another transaction has locked, or a place   *)
(* in the index of active endpoints another transaction may still take or  *)
(* give up, waits for that transaction to end.                             *)
(***************************************************************************)
EXTENDS Naturals

CONSTANTS
  Callers,    \* database sessions, each of which serves one call at a time
  Users,
  Endpoints,
  Keys,
  Ids,        \* the bound on the identity column: no more rows than ids
  None

ASSUME DevicesAssumption ==
  /\ Ids \subseteq Nat \ {0}
  /\ None \notin Ids \cup Users \cup Endpoints \cup Keys

VARIABLES
  rows,  \* rows[i]: the committed row with id i, or None
  call,  \* call[c]: the request c is making, or the answer to its last one
  tx     \* tx[c]: how far its transaction is, and the id of the row it inserts

devicesVars == <<rows, call, tx>>

Row ==
  [user : Users, endpoint : Endpoints, keys : Keys,
   active : BOOLEAN, next : Ids \cup {None}]

ASSUME NoneAssumption == None \notin Row

Requests ==
  [op : {"register", "import"}, user : Users, id : {None}, endpoint : Endpoints, keys : Keys]
    \cup [op : {"replace"}, user : Users, id : Ids, endpoint : Endpoints, keys : Keys]
    \cup [op : {"revoke"}, user : Users, id : Ids, endpoint : {None}, keys : {None}]

Answers == {"ok", "forbidden", "not_found", "input", "unavailable"}
Answer  == [op : {"answer"}, code : Answers, id : Ids \cup {None}]

\* The steps from "update" on hold the lock of the row the request names.
Steps   == {"none", "update", "probe", "insert", "retire", "commit", "revoke"}
NoTx    == [step |-> "none", fresh |-> None]
Tx      == [step : Steps, fresh : Ids \cup {None}]

\* A caller that has asked nothing yet is as one that was refused.
Refusal(code) == [op |-> "answer", code |-> code, id |-> None]

Pending(c, op) == call[c].op = op

At(c, op, step) == Pending(c, op) /\ tx[c].step = step

-----------------------------------------------------------------------------
(* Locks, the index and what a statement waits for.                        *)

Holders(i) ==
  {d \in Callers : tx[d].step # "none" /\ call[d].id = i}

\* Callers whose uncommitted row is on endpoint e.
Inserting(e) ==
  {d \in Callers : tx[d].fresh # None /\ call[d].endpoint = e}

\* Faulty variant: a row that is locked only is waited for as well.
Retiring_AnyHolder(i) == Holders(i)

\* Callers that have revoked row i and not committed.
Retiring(i) ==
  {d \in Callers : tx[d].step = "commit" /\ call[d].id = i}

IsActive(i) == rows[i] # None /\ rows[i].active

\* Active rows, as the index notification_devices_endpoint_active_idx has them.
ActiveOn(e) == {i \in Ids : IsActive(i) /\ rows[i].endpoint = e}

\* The ids the identity column has not given out, and the one it gives next.
Unused == {i \in Ids : rows[i] = None /\ \A d \in Callers : tx[d].fresh # i}
NextId == {i \in Unused : \A j \in Unused : i <= j}

\* The transactions the next statement of c would wait for.
Blockers(c) ==
  LET req == call[c] IN
  (CASE Pending(c, "register") ->
          Inserting(req.endpoint) \cup UNION {Holders(i) : i \in ActiveOn(req.endpoint)}
     [] At(c, "replace", "none") \/ At(c, "revoke", "none") -> Holders(req.id)
     [] At(c, "replace", "probe") -> UNION {Holders(i) : i \in ActiveOn(req.endpoint)}
     [] Pending(c, "import") \/ At(c, "replace", "insert") ->
          Inserting(req.endpoint) \cup UNION {Retiring(i) : i \in ActiveOn(req.endpoint)}
     [] OTHER -> {}) \ {c}

\* Faulty variant: SELECT without FOR UPDATE.
Runs_Unlocked(c) == TRUE

\* Every statement runs once it has nothing to wait for.
Runs(c) == Blockers(c) = {}

-----------------------------------------------------------------------------
(* Ends of a call.                                                         *)

Answered(c, code, i) ==
  /\ call' = [call EXCEPT ![c] = [Refusal(code) EXCEPT !.id = i]]
  /\ tx' = [tx EXCEPT ![c] = NoTx]

\* An early return: the deferred rollback releases what is locked.
Refuse(c, code) == Answered(c, code, None) /\ UNCHANGED rows

\* COMMIT, answered or not.
Committed(c, table, i) ==
  /\ rows' = table
  /\ \/ Answered(c, "ok", i)
     \/ Answered(c, "unavailable", None)

GoOn(c, place) ==
  /\ tx' = [tx EXCEPT ![c] = place]
  /\ UNCHANGED <<rows, call>>

NewRow(req) ==
  [user |-> req.user, endpoint |-> req.endpoint, keys |-> req.keys,
   active |-> TRUE, next |-> None]

WithKeys(i, req) == [rows EXCEPT ![i].keys = req.keys]

-----------------------------------------------------------------------------
(* Register.                                                               *)

\* Faulty variant: DO UPDATE without its WHERE clause.
OnConflict_AnyOwner(c, i) == Committed(c, WithKeys(i, call[c]), i)

\* DO UPDATE ... WHERE notification_devices.user_id = EXCLUDED.user_id: no row
\* returned means the endpoint is another user's.
OnConflict(c, i) ==
  IF rows[i].user = call[c].user
    THEN Committed(c, WithKeys(i, call[c]), i)
    ELSE Refuse(c, "forbidden")

Register(c) ==
  LET req == call[c] IN
  /\ Pending(c, "register") /\ Runs(c)
  /\ \/ \E i \in ActiveOn(req.endpoint) : OnConflict(c, i)
     \/ /\ ActiveOn(req.endpoint) = {}
        /\ \E i \in NextId : Committed(c, [rows EXCEPT ![i] = NewRow(req)], i)

\* insertTestDevice of sandbox-device: no ON CONFLICT, whoever has the endpoint.
Import(c) ==
  LET req == call[c] IN
  /\ Pending(c, "import") /\ Runs(c)
  /\ \/ ActiveOn(req.endpoint) # {} /\ Refuse(c, "input")
     \/ /\ ActiveOn(req.endpoint) = {}
        /\ \E i \in NextId : Committed(c, [rows EXCEPT ![i] = NewRow(req)], i)

-----------------------------------------------------------------------------
(* Replace.                                                                *)

\* SELECT the old row, WHERE revoked_at IS NULL FOR UPDATE, and the three
\* decisions taken on it.
ReplaceLockOld(c) ==
  LET req == call[c] IN
  /\ At(c, "replace", "none") /\ Runs(c)
  /\ \/ ~ IsActive(req.id) /\ Refuse(c, "not_found")
     \/ IsActive(req.id) /\ rows[req.id].user # req.user /\ Refuse(c, "forbidden")
     \/ /\ IsActive(req.id) /\ rows[req.id].user = req.user
        /\ GoOn(c, [NoTx EXCEPT !.step =
             IF req.endpoint = rows[req.id].endpoint THEN "update" ELSE "probe"])

\* The endpoint is unchanged: UPDATE the row in place, and commit.
ReplaceUpdate(c) ==
  /\ At(c, "replace", "update")
  /\ Committed(c, WithKeys(call[c].id, call[c]), call[c].id)

\* SELECT another active row on the endpoint FOR UPDATE.
ReplaceProbe(c) ==
  /\ At(c, "replace", "probe") /\ Runs(c)
  /\ IF ActiveOn(call[c].endpoint) # {}
       THEN Refuse(c, "forbidden")
       ELSE GoOn(c, [NoTx EXCEPT !.step = "insert"])

\* Faulty variant: no unique index behind the probe.
ReplaceInsert_NoIndex(c) ==
  /\ At(c, "replace", "insert") /\ Runs(c)
  /\ \E i \in NextId : GoOn(c, [step |-> "retire", fresh |-> i])

\* The INSERT of the fresh row.  A row that came onto the endpoint since the
\* probe is a unique_violation, which safeDB makes ErrInput.
ReplaceInsert(c) ==
  /\ At(c, "replace", "insert") /\ Runs(c)
  /\ \/ ActiveOn(call[c].endpoint) # {} /\ Refuse(c, "input")
     \/ /\ ActiveOn(call[c].endpoint) = {}
        /\ \E i \in NextId : GoOn(c, [step |-> "retire", fresh |-> i])

\* UPDATE the old row: revoked_at and superseded_by.
ReplaceRetire(c) ==
  /\ At(c, "replace", "retire")
  /\ GoOn(c, [tx[c] EXCEPT !.step = "commit"])

\* Faulty variant: superseded_by without revoked_at.
Replaced_StillActive(c) ==
  [rows EXCEPT ![tx[c].fresh] = NewRow(call[c]), ![call[c].id].next = tx[c].fresh]

Replaced(c) ==
  [rows EXCEPT ![tx[c].fresh] = NewRow(call[c]),
               ![call[c].id].active = FALSE, ![call[c].id].next = tx[c].fresh]

ReplaceCommit(c) ==
  /\ At(c, "replace", "commit")
  /\ Committed(c, Replaced(c), tx[c].fresh)

-----------------------------------------------------------------------------
(* Revoke.                                                                 *)

\* SELECT ... FOR UPDATE, whatever the row's state, and the decisions.
RevokeLock(c) ==
  LET req == call[c] IN
  /\ At(c, "revoke", "none") /\ Runs(c)
  /\ \/ rows[req.id] = None /\ Refuse(c, "not_found")
     \/ rows[req.id] # None /\ rows[req.id].user # req.user /\ Refuse(c, "forbidden")
     \/ /\ rows[req.id] # None /\ rows[req.id].user = req.user /\ ~ IsActive(req.id)
        /\ Answered(c, "ok", req.id) /\ UNCHANGED rows
     \/ /\ IsActive(req.id) /\ rows[req.id].user = req.user
        /\ GoOn(c, [NoTx EXCEPT !.step = "revoke"])

RevokeCommit(c) ==
  /\ At(c, "revoke", "revoke")
  /\ Committed(c, [rows EXCEPT ![call[c].id].active = FALSE], call[c].id)

-----------------------------------------------------------------------------
(* Failures.                                                               *)

\* A statement fails and the transaction rolls back.
DatabaseFails(c) ==
  /\ ~ Pending(c, "answer")
  /\ Refuse(c, "unavailable")

\* The identity column has no value left for an INSERT.
IdsExhausted(c) ==
  /\ Pending(c, "register") \/ Pending(c, "import") \/ At(c, "replace", "insert")
  /\ Runs(c)
  /\ ActiveOn(call[c].endpoint) = {} /\ Unused = {}
  /\ Refuse(c, "unavailable")

\* Everyone in some group waits for another of the group.
InDeadlock(c) ==
  \E group \in SUBSET Callers :
    c \in group /\ \A d \in group : Blockers(d) \cap group # {}

\* PostgreSQL ends one of the transactions that wait for each other.
DeadlockDetected(c) == InDeadlock(c) /\ DatabaseFails(c)

-----------------------------------------------------------------------------

Ask(c, req) ==
  /\ Pending(c, "answer")
  /\ call' = [call EXCEPT ![c] = req]
  /\ UNCHANGED <<rows, tx>>

Statement(c) ==
  \/ Register(c) \/ Import(c)
  \/ ReplaceLockOld(c) \/ ReplaceUpdate(c) \/ ReplaceProbe(c)
  \/ ReplaceInsert(c) \/ ReplaceRetire(c) \/ ReplaceCommit(c)
  \/ RevokeLock(c) \/ RevokeCommit(c)
  \/ IdsExhausted(c)

DevicesInit ==
  /\ rows = [i \in Ids |-> None]
  /\ call = [c \in Callers |-> Refusal("unavailable")]
  /\ tx   = [c \in Callers |-> NoTx]

DevicesNext ==
  \E c \in Callers :
    \/ \E req \in Requests : Ask(c, req)
    \/ Statement(c)
    \/ DatabaseFails(c)
    \/ DeadlockDetected(c)

DevicesSpec == DevicesInit /\ [][DevicesNext]_devicesVars

-----------------------------------------------------------------------------
(* Properties.                                                             *)

\* Rows, requests and answers keep their types, and a lock is held by one.
DevicesTypeOK ==
  /\ rows \in [Ids -> Row \cup {None}]
  /\ call \in [Callers -> Requests \cup Answer]
  /\ tx \in [Callers -> Tx]
  /\ \A c, d \in Callers :
       c # d /\ tx[c].step # "none" /\ tx[d].step # "none" => call[c].id # call[d].id

\* "at most one currently-active registration may ever hold a given endpoint,
\* across every user" (migration 000010).
OneActivePerEndpoint ==
  \A i, j \in Ids :
    IsActive(i) /\ IsActive(j) /\ rows[i].endpoint = rows[j].endpoint => i = j

\* "it does not silently duplicate delivery": a superseded device is revoked,
\* its successor is another row of the same user and succeeds no other device,
\* and no device succeeds itself over any number of replacements.
SuccessionIsALine ==
  LET superseded == {i \in Ids : rows[i] # None /\ rows[i].next # None} IN
  /\ \A i \in superseded :
       /\ ~ rows[i].active
       /\ rows[rows[i].next] # None
       /\ rows[rows[i].next].user = rows[i].user
       /\ \A j \in superseded : rows[i].next = rows[j].next => i = j
  /\ \A cycle \in (SUBSET superseded) \ {{}} : \E i \in cycle : rows[i].next \notin cycle

\* A registration stays with its user and its endpoint, and once revoked never
\* changes: no Replace or Revoke that decided earlier writes over it.
RevokedIsFinal ==
  [][\A i \in Ids : rows[i] # None =>
       /\ rows'[i] # None
       /\ rows'[i].user = rows[i].user /\ rows'[i].endpoint = rows[i].endpoint
       /\ ~ rows[i].active => rows'[i] = rows[i]]_devicesVars

\* Transactions wait for each other in a circle only when each is a Replace
\* that wants an endpoint which a row locked by the other is on: every one of
\* them would be forbidden anyway, and no Register or Revoke is held up by more
\* than a transaction that can end.
DeadlocksAreCrossings ==
  \A group \in SUBSET Callers :
    (\A c \in group : Blockers(c) \cap group # {}) =>
      \A c \in group : (\E d \in group : c \in Blockers(d)) => At(c, "replace", "probe")

\* The answer a caller of the in-memory Store would have had.
InMemory(place) ==
  IF place.op = "answer" /\ place.code = "input" THEN [place EXCEPT !.code = "forbidden"]
  ELSE place

\* "preserving notifydevices.Store's own already-approved semantics exactly":
\* the methods answer as if each ran alone under the in-memory Store's mutex.
Registry == INSTANCE DeviceRegistry WITH
  devices <- rows,
  call <- [c \in Callers |-> InMemory(call[c])]

RegistrySpec == Registry!RegistrySpec

=============================================================================
