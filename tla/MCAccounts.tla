----------------------------- MODULE MCAccounts -----------------------------
(* One account in detail, and the requests of administrators over several. *)
(* Each module has an account of its own make: a behaviour is of one of    *)
(* them, and the other is at rest.                                         *)
EXTENDS Accounts, Administration, TLC

CONSTANTS q1, q2, i1, i2, t1, s1, s2, admin, responder, u1, u2, k1, k2, A, B

\* A role with each reach, and one department more than an administrator has.
SomePositions ==
  {[role |-> System, scope |-> NoScope], [role |-> Department, scope |-> A],
   [role |-> "responder", scope |-> A], [role |-> "responder", scope |-> B]}

Swap(a, b) == a :> b @@ b :> a

\* What one module tells apart the other does not: one permutation does for both.
IdentitySymmetry ==
  Permutations({i1, i2})
    \cup {Swap(q1, q2) @@ Swap(k1, k2), Swap(s1, s2) @@ Swap(u1, u2)}

AtRest == [u \in Users |-> [role |-> "responder", scope |-> NoScope, status |-> "absent"]]

IdentityInit ==
  \/ /\ AccountsInit
     /\ accounts = AtRest /\ signedIn = [u \in Users |-> "none"]
     /\ calls = [c \in Calls |-> Waiting]
  \/ /\ AdministrationInit
     /\ status = "absent" /\ role = responder /\ password = 0 /\ enrolled = FALSE
     /\ tokens = [t \in Tokens |-> "unissued"] /\ lapsed = {}
     /\ sessions = [s \in Sessions |-> "none"] /\ bridge = FALSE
     /\ requests = [q \in Requests |-> IdleRequest]
     /\ made = 0 /\ cut = {} /\ blocked = FALSE

\* Whose behaviour it is: an account that is made is never absent again.
OfRequests == accounts # AtRest

IdentityNext ==
  \/ ~ OfRequests /\ AccountsNext /\ UNCHANGED administrationVars
  \/ OfRequests /\ AdministrationNext /\ UNCHANGED accountVars

IdentitySpec == IdentityInit /\ [][IdentityNext]_<<accountVars, administrationVars>>
=============================================================================
