--------------------------- MODULE DeviceRegistry ---------------------------
(***************************************************************************)
(* What a registry of push subscriptions promises: the in-memory Store of  *)
(* backend/internal/notifydevices, each of whose methods runs under one    *)
(* mutex, hence in one step between the call and its answer.               *)
(*                                                                         *)
(* The Store forgets everything on restart and cannot fail.  The registry  *)
(* promised here may also answer "unavailable", and then its caller does   *)
(* not know whether the call has taken effect.                             *)
(***************************************************************************)
EXTENDS Naturals

CONSTANTS
  Callers,    \* goroutines that call the registry, one call at a time
  Users,
  Endpoints,  \* push endpoints: a browser's address at its push service
  Keys,       \* the key material of a subscription
  Ids,        \* device ids: a finite part of Nat \ {0}
  None        \* no row, no successor, no request, no answer

VARIABLES
  devices,  \* devices[i]: the registration with id i, or None
  call      \* call[c]: the request c is making, or the answer to its last one

registryVars == <<devices, call>>

\* next is superseded_by; active is revoked_at IS NULL.
Registration ==
  [user : Users, endpoint : Endpoints, keys : Keys,
   active : BOOLEAN, next : Ids \cup {None}]

Requests ==
  [op : {"register", "import"}, user : Users, id : {None}, endpoint : Endpoints, keys : Keys]
    \cup [op : {"replace"}, user : Users, id : Ids, endpoint : Endpoints, keys : Keys]
    \cup [op : {"revoke"}, user : Users, id : Ids, endpoint : {None}, keys : {None}]

Fresh(req) ==
  [user |-> req.user, endpoint |-> req.endpoint, keys |-> req.keys,
   active |-> TRUE, next |-> None]

Unused == {i \in Ids : devices[i] = None}

\* activeByEndpoint.
ActiveOn(e) ==
  {i \in Ids : devices[i] # None /\ devices[i].active /\ devices[i].endpoint = e}

Answered(c, code, i) ==
  call' = [call EXCEPT ![c] = [op |-> "answer", code |-> code, id |-> i]]

Refuse(c, code) == Answered(c, code, None) /\ UNCHANGED devices

\* The effect of a call, and its answer or the loss of it.
Effect(c, table, i) ==
  /\ devices' = table
  /\ \E code \in {"ok", "unavailable"} :
       Answered(c, code, IF code = "ok" THEN i ELSE None)

Renewed(i, req) == [devices EXCEPT ![i].keys = req.keys]

Register(c, req) ==
  \/ \E i \in ActiveOn(req.endpoint) :
       IF devices[i].user = req.user
         THEN Effect(c, Renewed(i, req), i) ELSE Refuse(c, "forbidden")
  \/ /\ ActiveOn(req.endpoint) = {}
     /\ \E i \in Unused : Effect(c, [devices EXCEPT ![i] = Fresh(req)], i)

\* Not a method of the Store: what is added beside it never replaces anything.
Import(c, req) ==
  \/ ActiveOn(req.endpoint) # {} /\ Refuse(c, "forbidden")
  \/ /\ ActiveOn(req.endpoint) = {}
     /\ \E i \in Unused : Effect(c, [devices EXCEPT ![i] = Fresh(req)], i)

\* Found, active and the caller's own.
MayReplace(req) ==
  /\ devices[req.id] # None
  /\ devices[req.id].active
  /\ devices[req.id].user = req.user

Replace(c, req) ==
  \/ /\ devices[req.id] = None \/ ~ devices[req.id].active
     /\ Refuse(c, "not_found")
  \/ /\ devices[req.id] # None
     /\ devices[req.id].active
     /\ devices[req.id].user # req.user
     /\ Refuse(c, "forbidden")
  \/ /\ MayReplace(req)
     /\ req.endpoint = devices[req.id].endpoint
     /\ Effect(c, Renewed(req.id, req), req.id)
  \/ /\ MayReplace(req)
     /\ req.endpoint # devices[req.id].endpoint
     /\ ActiveOn(req.endpoint) # {}
     /\ Refuse(c, "forbidden")
  \/ /\ MayReplace(req)
     /\ req.endpoint # devices[req.id].endpoint
     /\ ActiveOn(req.endpoint) = {}
     /\ \E i \in Unused :
          Effect(c, [devices EXCEPT ![i] = Fresh(req), ![req.id].active = FALSE,
                                    ![req.id].next = i], i)

\* Repeating a revocation is no error and changes nothing.
Revoke(c, req) ==
  \/ devices[req.id] = None /\ Refuse(c, "not_found")
  \/ /\ devices[req.id] # None
     /\ devices[req.id].user # req.user
     /\ Refuse(c, "forbidden")
  \/ /\ devices[req.id] # None
     /\ devices[req.id].user = req.user
     /\ Effect(c, [devices EXCEPT ![req.id].active = FALSE], req.id)

Ask(c, req) ==
  /\ call[c].op = "answer"
  /\ call' = [call EXCEPT ![c] = req]
  /\ UNCHANGED devices

Perform(c) ==
  LET req == call[c] IN
     \/ req.op = "register" /\ Register(c, req)
     \/ req.op = "import" /\ Import(c, req)
     \/ req.op = "replace" /\ Replace(c, req)
     \/ req.op = "revoke" /\ Revoke(c, req)
     \/ req.op # "answer" /\ Refuse(c, "unavailable")

RegistryInit ==
  /\ devices = [i \in Ids |-> None]
  /\ call = [c \in Callers |-> [op |-> "answer", code |-> "unavailable", id |-> None]]

RegistryNext ==
  \E c \in Callers :
    (\E req \in Requests : Ask(c, req)) \/ Perform(c)

RegistrySpec == RegistryInit /\ [][RegistryNext]_registryVars

=============================================================================
