------------------------- MODULE NotifyDevicesProofs -------------------------
(***************************************************************************)
(* What no interleaving of registrations, replacements, revocations and    *)
(* imports can do to the registry, for any users, endpoints, keys, ids and *)
(* any number of database sessions.                                        *)
(*                                                                         *)
(* The strengthening says what a transaction has learned and why it still  *)
(* holds when it commits: the row it locked is active and its user's       *)
(* (Standing), the endpoint of a row not yet committed has no active row   *)
(* and no second one coming (Standing, Apart), a lock is held by one.      *)
(*                                                                         *)
(* From it: one active device of an endpoint, lines of replacements, which *)
(* transactions can deadlock, and the refinement of DeviceRegistry.        *)
(***************************************************************************)
EXTENDS NotifyDevices, TLAPS

Typed ==
  /\ rows \in [Ids -> Row \cup {None}]
  /\ call \in [Callers -> Requests \cup Answer]
  /\ tx \in [Callers -> Tx]

\* What the rows show for caller c, that is in the middle of a transaction.
Standing(c) ==
  /\ tx[c].step # "none" =>
       /\ call[c].op = (IF tx[c].step = "revoke" THEN "revoke" ELSE "replace")
       /\ IsActive(call[c].id)
       /\ rows[call[c].id].user = call[c].user
  /\ tx[c].fresh = None <=> tx[c].step \notin {"retire", "commit"}
  /\ tx[c].fresh # None =>
       /\ rows[tx[c].fresh] = None
       /\ ActiveOn(call[c].endpoint) = {}

\* What two transactions under way never share.
Separate(c, d) ==
  /\ tx[c].step # "none" /\ tx[d].step # "none" => call[c].id # call[d].id
  /\ tx[c].fresh # None /\ tx[d].fresh # None =>
       tx[c].fresh # tx[d].fresh /\ call[c].endpoint # call[d].endpoint

Apart == \A c, d \in Callers : c # d => Separate(c, d)

DevicesInv ==
  /\ Typed
  /\ OneActivePerEndpoint
  /\ SuccessionIsALine
  /\ \A c \in Callers : Standing(c)
  /\ Apart

-----------------------------------------------------------------------------
(* Types of what the statements read.                                      *)

\* A request of each kind has the fields its handler uses.
LEMMA RequestFields ==
  ASSUME Typed, NEW c \in Callers
  PROVE  /\ call[c].op \in {"register", "import", "replace"} =>
              call[c].user \in Users /\ call[c].endpoint \in Endpoints /\ call[c].keys \in Keys
         /\ call[c].op \in {"replace", "revoke"} => call[c].id \in Ids /\ call[c].user \in Users
         /\ tx[c].step \in Steps /\ tx[c].fresh \in Ids \cup {None}
         /\ tx[c] = [step |-> tx[c].step, fresh |-> tx[c].fresh]
BY DEF Typed, Requests, Answer, Tx

\* A row is a row: its fields are typed and it is not None.
LEMMA RowFields ==
  ASSUME Typed, NEW i \in Ids, rows[i] # None
  PROVE  /\ rows[i] \in Row
         /\ rows[i].user \in Users /\ rows[i].endpoint \in Endpoints
         /\ rows[i].active \in BOOLEAN /\ rows[i].next \in Ids \cup {None}
BY DEF Typed, Row

\* A new row is a row, and so is one with other keys, revoked or superseded.
LEMMA NewRowFields ==
  ASSUME NEW req, req.user \in Users, req.endpoint \in Endpoints, req.keys \in Keys
  PROVE  /\ NewRow(req) \in Row /\ NewRow(req) # None
         /\ NewRow(req).user = req.user /\ NewRow(req).endpoint = req.endpoint
         /\ NewRow(req).active /\ NewRow(req).next = None
PROOF
<1>1. NewRow(req) \in Row
  BY DEF NewRow, Row
<1>2. NewRow(req) # None
  BY <1>1, NoneAssumption
<1> QED BY <1>1, <1>2 DEF NewRow

\* A row under new keys, retired, and retired with a successor.
LEMMA RowChanges ==
  ASSUME NEW r \in Row, NEW k \in Keys, NEW n \in Ids \cup {None}
  PROVE  /\ [r EXCEPT !.keys = k] \in Row
         /\ [r EXCEPT !.active = FALSE] \in Row
         /\ [r EXCEPT !.active = FALSE, !.next = n] \in Row
BY DEF Row

-----------------------------------------------------------------------------
(* What the steps have in common.                                          *)

\* One caller goes on, or is answered, and the table stays as it was.
LEMMA TableStays ==
  ASSUME DevicesInv, NEW c \in Callers, NEW q, NEW p,
         UNCHANGED rows,
         call' = [call EXCEPT ![c] = q], tx' = [tx EXCEPT ![c] = p],
         q \in Requests \cup Answer, p \in Tx,
         Standing(c)',
         \A d \in Callers \ {c} : Separate(c, d)'
  PROVE  DevicesInv'
PROOF
<1>1. Typed'
  BY DEF DevicesInv, Typed
<1>2. \A d \in Callers : d # c => call'[d] = call[d] /\ tx'[d] = tx[d]
  BY DEF DevicesInv, Typed
<1>3. OneActivePerEndpoint' /\ SuccessionIsALine'
  BY DEF DevicesInv, OneActivePerEndpoint, SuccessionIsALine, IsActive
<1>4. \A d \in Callers : Standing(d)'
  <2> SUFFICES ASSUME NEW d \in Callers, d # c PROVE Standing(d)'
    OBVIOUS
  <2>1. Standing(d)
    BY DEF DevicesInv
  <2> QED BY <1>2, <2>1 DEF Standing, IsActive, ActiveOn
<1>5. Apart'
  <2> SUFFICES ASSUME NEW d \in Callers, NEW e \in Callers, d # e PROVE Separate(d, e)'
    BY DEF Apart
  <2>1. Separate(d, e)
    BY DEF DevicesInv, Apart
  <2>2. CASE d # c /\ e # c
    BY <1>2, <2>1, <2>2 DEF Separate
  <2>3. CASE d = c
    BY <2>3
  <2>4. CASE e = c
    <3>1. Separate(c, d)'
      BY <2>4
    <3> QED BY <2>4, <3>1 DEF Separate
  <2> QED BY <2>2, <2>3, <2>4
<1> QED BY <1>1, <1>3, <1>4, <1>5 DEF DevicesInv

\* A call ends: no lock, no row under way.
LEMMA AnsweredIsApart ==
  ASSUME DevicesInv, NEW c \in Callers, NEW code \in Answers, NEW i \in Ids \cup {None},
         Answered(c, code, i)
  PROVE  /\ call' = [call EXCEPT ![c] = [Refusal(code) EXCEPT !.id = i]]
         /\ tx' = [tx EXCEPT ![c] = NoTx]
         /\ [Refusal(code) EXCEPT !.id = i] \in Answer /\ NoTx \in Tx
         /\ Standing(c)'
         /\ \A d \in Callers : Separate(c, d)' /\ Separate(d, c)'
PROOF
<1>1. tx'[c] = NoTx
  BY DEF Answered, DevicesInv, Typed
<1>2. /\ [Refusal(code) EXCEPT !.id = i] \in Answer
      /\ NoTx \in Tx
  BY DEF Refusal, Answer, NoTx, Tx, Steps
<1>3. Standing(c)'
  BY <1>1 DEF Standing, NoTx
<1>4. \A d \in Callers : Separate(c, d)' /\ Separate(d, c)'
  BY <1>1 DEF Separate, NoTx
<1> QED BY <1>2, <1>3, <1>4 DEF Answered

\* An early return.
LEMMA RefuseSound ==
  ASSUME DevicesInv, NEW c \in Callers, NEW code \in Answers, NEW i \in Ids \cup {None},
         Answered(c, code, i), UNCHANGED rows
  PROVE  DevicesInv'
PROOF
<1>1. /\ call' = [call EXCEPT ![c] = [Refusal(code) EXCEPT !.id = i]]
      /\ tx' = [tx EXCEPT ![c] = NoTx]
      /\ [Refusal(code) EXCEPT !.id = i] \in Answer /\ NoTx \in Tx
      /\ Standing(c)'
      /\ \A d \in Callers : Separate(c, d)'
  BY AnsweredIsApart
<1> QED BY <1>1, TableStays

\* A table is sound for caller d if it leaves alone what d rests on.
Leaves(d, table) ==
  /\ tx[d].step # "none" =>
       /\ table[call[d].id] # None /\ table[call[d].id].active
       /\ table[call[d].id].user = call[d].user
  /\ tx[d].fresh # None =>
       /\ table[tx[d].fresh] = None
       /\ \A i \in Ids : table[i] # None /\ table[i].active => table[i].endpoint # call[d].endpoint

\* A commit: the table it writes is sound, and so is every other caller's view.
LEMMA CommitSound ==
  ASSUME DevicesInv, NEW c \in Callers, NEW table, NEW i \in Ids,
         Committed(c, table, i),
         table \in [Ids -> Row \cup {None}],
         OneActivePerEndpoint', SuccessionIsALine',
         \A d \in Callers \ {c} : Leaves(d, table)
  PROVE  DevicesInv'
PROOF
<1>1. PICK code \in Answers, j \in Ids \cup {None} : Answered(c, code, j)
  BY DEF Committed, Answers
<1>2. /\ call' = [call EXCEPT ![c] = [Refusal(code) EXCEPT !.id = j]]
      /\ tx' = [tx EXCEPT ![c] = NoTx]
      /\ [Refusal(code) EXCEPT !.id = j] \in Answer /\ NoTx \in Tx
      /\ Standing(c)'
      /\ \A d \in Callers : Separate(c, d)' /\ Separate(d, c)'
  BY <1>1, AnsweredIsApart
<1>3. rows' = table
  BY DEF Committed
<1>4. Typed'
  BY <1>2, <1>3 DEF DevicesInv, Typed
<1>5. \A d \in Callers : d # c => call'[d] = call[d] /\ tx'[d] = tx[d]
  BY <1>2 DEF DevicesInv, Typed
<1>6. \A d \in Callers : Standing(d)'
  <2> SUFFICES ASSUME NEW d \in Callers, d # c PROVE Standing(d)'
    BY <1>2
  <2>1. Standing(d) /\ Leaves(d, table)
    BY DEF DevicesInv
  <2> QED BY <1>3, <1>5, <2>1 DEF Standing, Leaves, IsActive, ActiveOn
<1>7. Apart'
  <2> SUFFICES ASSUME NEW d \in Callers, NEW e \in Callers, d # e PROVE Separate(d, e)'
    BY DEF Apart
  <2>1. Separate(d, e)
    BY DEF DevicesInv, Apart
  <2> QED BY <1>2, <1>5, <2>1 DEF Separate
<1> QED BY <1>4, <1>6, <1>7 DEF DevicesInv

-----------------------------------------------------------------------------
(* The kinds of write.                                                     *)

\* Whoever holds the lock of row i is caller c itself.
Unheld(i, c) == \A d \in Callers \ {c} : tx[d].step = "none" \/ call[d].id # i

\* New keys for an active row: its user, endpoint and state stay.
LEMMA KeysSound ==
  ASSUME DevicesInv, NEW c \in Callers, NEW i \in Ids, NEW r \in Ids, IsActive(i),
         call[c].keys \in Keys, Committed(c, WithKeys(i, call[c]), r)
  PROVE  DevicesInv'
PROOF
<1> DEFINE table == WithKeys(i, call[c])
<1>1. rows[i] \in Row /\ [rows[i] EXCEPT !.keys = call[c].keys] \in Row
  BY RowFields, RowChanges DEF IsActive, DevicesInv
<1>2. table = [rows EXCEPT ![i] = [rows[i] EXCEPT !.keys = call[c].keys]]
  BY DEF WithKeys
<1>3. table \in [Ids -> Row \cup {None}]
  BY <1>1, <1>2 DEF DevicesInv, Typed
<1>4. /\ [rows[i] EXCEPT !.keys = call[c].keys].user = rows[i].user
      /\ [rows[i] EXCEPT !.keys = call[c].keys].endpoint = rows[i].endpoint
      /\ [rows[i] EXCEPT !.keys = call[c].keys].active = rows[i].active
      /\ [rows[i] EXCEPT !.keys = call[c].keys].next = rows[i].next
  BY <1>1 DEF Row
<1> HIDE DEF table
<1>5. \A j \in Ids :
        /\ table[j] = None <=> rows[j] = None
        /\ rows[j] # None =>
             /\ table[j].user = rows[j].user /\ table[j].endpoint = rows[j].endpoint
             /\ table[j].active = rows[j].active /\ table[j].next = rows[j].next
  <2> SUFFICES ASSUME NEW j \in Ids
               PROVE  /\ table[j] = None <=> rows[j] = None
                      /\ rows[j] # None =>
                           /\ table[j].user = rows[j].user /\ table[j].endpoint = rows[j].endpoint
                           /\ table[j].active = rows[j].active /\ table[j].next = rows[j].next
    OBVIOUS
  <2>1. CASE j = i
    <3>1. table[i] = [rows[i] EXCEPT !.keys = call[c].keys]
      BY <1>2 DEF DevicesInv, Typed
    <3>2. table[i] # None /\ rows[i] # None
      BY <1>1, <3>1, NoneAssumption
    <3> QED BY <1>4, <2>1, <3>1, <3>2
  <2>2. CASE j # i
    <3>1. table[j] = rows[j]
      BY <1>2, <2>2 DEF DevicesInv, Typed
    <3> QED BY <3>1
  <2> QED BY <2>1, <2>2
<1>6. rows' = table
  BY DEF Committed, table
<1>7. OneActivePerEndpoint'
  BY <1>5, <1>6 DEF DevicesInv, OneActivePerEndpoint, IsActive
<1>8. SuccessionIsALine'
  <2>1. {j \in Ids : rows'[j] # None /\ rows'[j].next # None}
          = {j \in Ids : rows[j] # None /\ rows[j].next # None}
    BY <1>5, <1>6
  <2>2. \A j \in Ids : rows[j] # None /\ rows[j].next # None => rows[j].next \in Ids
    BY RowFields DEF DevicesInv
  <2> QED BY <1>5, <1>6, <2>1, <2>2 DEF DevicesInv, SuccessionIsALine
<1>9. \A d \in Callers \ {c} : Leaves(d, table)
  <2> SUFFICES ASSUME NEW d \in Callers \ {c} PROVE Leaves(d, table)
    OBVIOUS
  <2>1. Standing(d)
    BY DEF DevicesInv
  <2>2. tx[d].step # "none" => call[d].id \in Ids
    BY <2>1, RequestFields DEF Standing, DevicesInv
  <2>3. tx[d].fresh # None => tx[d].fresh \in Ids
    BY RequestFields DEF DevicesInv
  <2> QED BY <1>5, <2>1, <2>2, <2>3 DEF Standing, Leaves, IsActive, ActiveOn
<1> QED BY <1>3, <1>7, <1>8, <1>9, CommitSound DEF table

\* Nobody's row under way is for the endpoint of c, and none takes the new id.
Clear(c, i) ==
  \A d \in Callers \ {c} : tx[d].fresh # None =>
    tx[d].fresh # i /\ call[d].endpoint # call[c].endpoint

\* A table with one row more, on an endpoint that had no active one.
LEMMA AdditionSound ==
  ASSUME Typed, OneActivePerEndpoint, SuccessionIsALine,
         NEW i \in Ids, rows[i] = None,
         NEW r \in Row, r # None, r.active, r.next = None,
         ActiveOn(r.endpoint) = {},
         rows' = [rows EXCEPT ![i] = r]
  PROVE  /\ rows' \in [Ids -> Row \cup {None}]
         /\ OneActivePerEndpoint' /\ SuccessionIsALine'
PROOF
<1>1. rows' \in [Ids -> Row \cup {None}] /\ rows'[i] = r
      /\ \A j \in Ids : j # i => rows'[j] = rows[j]
  BY DEF Typed
<1>2. OneActivePerEndpoint'
  BY <1>1 DEF OneActivePerEndpoint, IsActive, ActiveOn
<1>3. {j \in Ids : rows'[j] # None /\ rows'[j].next # None}
        = {j \in Ids : rows[j] # None /\ rows[j].next # None}
  BY <1>1
<1>4. \A j \in Ids : rows[j] # None /\ rows[j].next # None => rows[j].next \in Ids
  BY RowFields
<1>5. SuccessionIsALine'
  <2> DEFINE superseded == {j \in Ids : rows[j] # None /\ rows[j].next # None}
  <2>1. /\ \A j \in superseded :
             /\ ~ rows[j].active /\ rows[rows[j].next] # None
             /\ rows[rows[j].next].user = rows[j].user
             /\ \A k \in superseded : rows[j].next = rows[k].next => j = k
        /\ \A cycle \in (SUBSET superseded) \ {{}} : \E j \in cycle : rows[j].next \notin cycle
    BY DEF SuccessionIsALine
  <2>2. \A j \in superseded : /\ j # i /\ rows'[j] = rows[j] /\ rows[j].next # i
                              /\ rows'[rows[j].next] = rows[rows[j].next]
    BY <1>1, <1>4, <2>1
  <2>3. \A cycle \in (SUBSET superseded) \ {{}} : \E j \in cycle : rows'[j].next \notin cycle
    BY <2>1, <2>2
  <2>4. \A j \in superseded :
             /\ ~ rows'[j].active /\ rows'[rows'[j].next] # None
             /\ rows'[rows'[j].next].user = rows'[j].user
             /\ \A k \in superseded : rows'[j].next = rows'[k].next => j = k
    BY <2>1, <2>2
  <2> HIDE DEF superseded
  <2>5. superseded = {j \in Ids : rows'[j] # None /\ rows'[j].next # None}
    BY <1>3 DEF superseded
  <2> QED BY <2>3, <2>4, <2>5 DEF SuccessionIsALine
<1> QED BY <1>1, <1>2, <1>5

\* A row that is nobody else's to decide about is replaced or comes to an end.
LEMMA AddedSound ==
  ASSUME DevicesInv, NEW c \in Callers, NEW i \in Ids, rows[i] = None,
         call[c].op \in {"register", "import"}, tx[c].step = "none",
         ActiveOn(call[c].endpoint) = {}, Clear(c, i),
         Committed(c, [rows EXCEPT ![i] = NewRow(call[c])], i)
  PROVE  DevicesInv'
PROOF
<1>1. /\ NewRow(call[c]) \in Row /\ NewRow(call[c]) # None
      /\ NewRow(call[c]).endpoint = call[c].endpoint
      /\ NewRow(call[c]).active /\ NewRow(call[c]).next = None
  BY RequestFields, NewRowFields DEF DevicesInv
<1>2. rows' = [rows EXCEPT ![i] = NewRow(call[c])]
  BY DEF Committed
<1>3. /\ rows' \in [Ids -> Row \cup {None}]
      /\ OneActivePerEndpoint' /\ SuccessionIsALine'
  BY <1>1, <1>2, AdditionSound DEF DevicesInv
<1>4. \A d \in Callers \ {c} : Leaves(d, rows')
  <2> SUFFICES ASSUME NEW d \in Callers \ {c} PROVE Leaves(d, rows')
    OBVIOUS
  <2>1. Standing(d)
    BY DEF DevicesInv
  <2>2. tx[d].step # "none" => call[d].id \in Ids
    BY <2>1, RequestFields DEF Standing, DevicesInv
  <2>3. tx[d].fresh # None => tx[d].fresh \in Ids
    BY RequestFields DEF DevicesInv
  <2>4. /\ rows'[i] = NewRow(call[c])
        /\ \A j \in Ids : j # i => rows'[j] = rows[j]
    BY <1>2 DEF DevicesInv, Typed
  <2> QED BY <1>1, <2>1, <2>2, <2>3, <2>4 DEF Standing, Leaves, IsActive, ActiveOn, Clear
<1>5. Committed(c, rows', i)
  BY <1>2
<1> QED BY <1>3, <1>4, <1>5, CommitSound

\* A table in which row i has come to an end, whatever succeeds it.
LEMMA EndLeaves ==
  ASSUME DevicesInv, NEW c \in Callers, NEW i \in Ids, IsActive(i), Unheld(i, c),
         NEW table,
         \A j \in Ids : table[j] = rows[j] \/ (j = i /\ ~ table[i].active /\ table[i] # None)
  PROVE  \A d \in Callers \ {c} : Leaves(d, table)
PROOF
<1> SUFFICES ASSUME NEW d \in Callers \ {c} PROVE Leaves(d, table)
  OBVIOUS
<1>1. Standing(d)
  BY DEF DevicesInv
<1>2. tx[d].step # "none" => call[d].id \in Ids
  BY <1>1, RequestFields DEF Standing, DevicesInv
<1>3. tx[d].fresh # None => tx[d].fresh \in Ids
  BY RequestFields DEF DevicesInv
<1> QED BY <1>1, <1>2, <1>3 DEF Standing, Leaves, IsActive, ActiveOn, Unheld

\* The row a Revoke commits stands with all others.
LEMMA RevokedSound ==
  ASSUME DevicesInv, NEW c \in Callers, NEW i \in Ids, IsActive(i), Unheld(i, c),
         Committed(c, [rows EXCEPT ![i].active = FALSE], i)
  PROVE  DevicesInv'
PROOF
<1>1. rows[i] \in Row /\ rows[i] # None /\ rows[i].active
  BY RowFields DEF IsActive, DevicesInv
<1>2. PICK r \in Row : r = [rows[i] EXCEPT !.active = FALSE]
  BY <1>1 DEF Row
<1>3. r # None /\ r.user = rows[i].user /\ r.next = rows[i].next /\ ~ r.active
  BY <1>1, <1>2, NoneAssumption DEF Row
<1>4. /\ rows' \in [Ids -> Row \cup {None}]
      /\ rows'[i] = r
      /\ \A j \in Ids : j # i => rows'[j] = rows[j]
  BY <1>2 DEF Committed, DevicesInv, Typed
<1>5. OneActivePerEndpoint'
  BY <1>3, <1>4 DEF DevicesInv, OneActivePerEndpoint, IsActive
<1>6. SuccessionIsALine'
  <2>1. {j \in Ids : rows'[j] # None /\ rows'[j].next # None}
          = {j \in Ids : rows[j] # None /\ rows[j].next # None}
    BY <1>1, <1>3, <1>4
  <2>2. \A j \in Ids : rows[j] # None /\ rows[j].next # None => rows[j].next \in Ids
    BY RowFields DEF DevicesInv
  <2>3. \A j \in Ids : /\ rows'[j] = None <=> rows[j] = None
                       /\ rows'[j].user = rows[j].user /\ rows'[j].next = rows[j].next
                       /\ rows[j] # None /\ ~ rows[j].active => ~ rows'[j].active
    BY <1>1, <1>3, <1>4
  <2> QED BY <2>1, <2>2, <2>3 DEF DevicesInv, SuccessionIsALine
<1>7. \A d \in Callers \ {c} : Leaves(d, rows')
  BY <1>3, <1>4, EndLeaves
<1>8. Committed(c, rows', i)
  BY DEF Committed
<1> QED BY <1>4, <1>5, <1>6, <1>7, <1>8, CommitSound

\* The old row and its successor, committed together, stand with all others.
LEMMA ReplacedSound ==
  ASSUME DevicesInv, NEW c \in Callers, At(c, "replace", "commit"),
         Committed(c, Replaced(c), tx[c].fresh)
  PROVE  DevicesInv'
PROOF
<1>1. PICK i \in Ids, n \in Ids : i = call[c].id /\ n = tx[c].fresh
  BY RequestFields DEF At, Pending, DevicesInv, Standing
<1>2. /\ rows[i] \in Row /\ rows[i] # None /\ rows[i].active /\ rows[n] = None /\ i # n
      /\ rows[i].user = call[c].user /\ rows[i].next \in Ids \cup {None}
      /\ ActiveOn(call[c].endpoint) = {}
  BY <1>1, RowFields DEF At, DevicesInv, Standing, IsActive
<1>3. PICK new \in Row : new = NewRow(call[c])
  BY RequestFields, NewRowFields DEF At, Pending, DevicesInv
<1>4. /\ new # None /\ new.user = call[c].user /\ new.endpoint = call[c].endpoint
      /\ new.active /\ new.next = None
  BY <1>3, NoneAssumption DEF NewRow
<1>5. PICK old \in Row : old = [rows[i] EXCEPT !.active = FALSE, !.next = n]
  BY <1>2 DEF Row
<1>6. old # None /\ old.user = rows[i].user /\ old.next = n /\ ~ old.active
  BY <1>2, <1>5, NoneAssumption DEF Row
<1>7. /\ rows' \in [Ids -> Row \cup {None}]
      /\ rows'[i] = old /\ rows'[n] = new
      /\ \A j \in Ids \ {i, n} : rows'[j] = rows[j]
  <2>1. rows' = [rows EXCEPT ![n] = new, ![i] = old]
    BY <1>1, <1>2, <1>3, <1>5 DEF Committed, Replaced, DevicesInv, Typed
  <2> QED BY <1>2, <2>1 DEF DevicesInv, Typed
<1>8. OneActivePerEndpoint'
  BY <1>2, <1>4, <1>6, <1>7 DEF DevicesInv, OneActivePerEndpoint, IsActive, ActiveOn
<1>9. SuccessionIsALine'
  <2> DEFINE before == {j \in Ids : rows[j] # None /\ rows[j].next # None}
  <2>1. /\ \A j \in before :
             /\ ~ rows[j].active /\ rows[rows[j].next] # None
             /\ rows[rows[j].next].user = rows[j].user
             /\ \A k \in before : rows[j].next = rows[k].next => j = k
        /\ \A cycle \in (SUBSET before) \ {{}} : \E j \in cycle : rows[j].next \notin cycle
    BY DEF DevicesInv, SuccessionIsALine
  <2>2. \A j \in before : j \in Ids \ {i, n} /\ rows[j].next \in Ids \ {n} /\ rows'[j] = rows[j]
    BY <1>2, <1>7, <2>1, RowFields DEF DevicesInv
  <2>3. i \notin before /\ n \notin before
    BY <2>2
  <2>4. n # None /\ None \notin Ids
    BY DevicesAssumption
  <2>5. {j \in Ids : rows'[j] # None /\ rows'[j].next # None} = before \cup {i}
    BY <1>2, <1>4, <1>6, <1>7, <2>2, <2>4
  <2>6. \A j \in before : /\ rows'[rows[j].next] # None
                          /\ rows'[rows[j].next].user = rows[rows[j].next].user
    BY <1>2, <1>6, <1>7, <2>1, <2>2
  <2> HIDE DEF before
  <2>7. \A j \in before \cup {i} :
             /\ ~ rows'[j].active /\ rows'[rows'[j].next] # None
             /\ rows'[rows'[j].next].user = rows'[j].user
             /\ \A k \in before \cup {i} : rows'[j].next = rows'[k].next => j = k
    BY <1>2, <1>4, <1>6, <1>7, <2>1, <2>2, <2>3, <2>6
  <2>8. \A cycle \in (SUBSET (before \cup {i})) \ {{}} : \E j \in cycle : rows'[j].next \notin cycle
    <3> SUFFICES ASSUME NEW cycle \in SUBSET (before \cup {i}), cycle # {}
                 PROVE  \E j \in cycle : rows'[j].next \notin cycle
      OBVIOUS
    <3>1. CASE i \in cycle
      <4>1. rows'[i].next = n /\ n \notin cycle
        BY <1>2, <1>6, <1>7, <2>3
      <4> QED BY <3>1, <4>1
    <3>2. CASE i \notin cycle
      <4>1. cycle \in (SUBSET before) \ {{}}
        BY <3>2
      <4> QED BY <2>1, <2>2, <4>1
    <3> QED BY <3>1, <3>2
  <2> QED BY <2>5, <2>7, <2>8 DEF SuccessionIsALine
<1>10. \A d \in Callers \ {c} : Leaves(d, rows')
  <2> SUFFICES ASSUME NEW d \in Callers \ {c} PROVE Leaves(d, rows')
    OBVIOUS
  <2>1. Standing(d) /\ Separate(c, d)
    BY DEF DevicesInv, Apart
  <2>2. tx[d].step # "none" => call[d].id \in Ids /\ call[d].id # i /\ call[d].id # n
    BY <1>1, <1>2, <2>1, RequestFields DEF Standing, Separate, IsActive, DevicesInv, At
  <2>3. tx[d].fresh # None =>
          /\ tx[d].fresh \in Ids /\ tx[d].fresh # i /\ tx[d].fresh # n
          /\ call[d].endpoint # call[c].endpoint
    BY <1>1, <1>2, <2>1, RequestFields, DevicesAssumption DEF Standing, Separate, DevicesInv
  <2>4. tx[d].step # "none" => Leaves(d, rows')
    BY <1>4, <1>6, <1>7, <2>1, <2>2, <2>3 DEF Standing, Leaves, IsActive, ActiveOn
  <2>5. tx[d].step = "none" => tx[d].fresh = None
    BY <2>1 DEF Standing
  <2> QED BY <2>4, <2>5 DEF Leaves
<1>11. Committed(c, rows', n)
  BY <1>1 DEF Committed
<1> QED BY <1>7, <1>8, <1>9, <1>10, <1>11, CommitSound

\* An untouched table is sound after a step that takes no lock and asks nothing
\* of the index: only Standing(c) and Separate(c, d) are left to be shown.
LEMMA GoOnSound ==
  ASSUME DevicesInv, NEW c \in Callers, NEW p \in Tx, GoOn(c, p),
         p.step # "none",
         call[c].op = (IF p.step = "revoke" THEN "revoke" ELSE "replace"),
         IsActive(call[c].id), rows[call[c].id].user = call[c].user,
         p.fresh = None <=> p.step \notin {"retire", "commit"},
         p.fresh # None => rows[p.fresh] = None /\ ActiveOn(call[c].endpoint) = {}
                           /\ Clear(c, p.fresh),
         Unheld(call[c].id, c)
  PROVE  DevicesInv'
PROOF
<1>1. rows' = rows /\ call' = call /\ tx' = [tx EXCEPT ![c] = p] /\ tx'[c] = p
  BY DEF GoOn, DevicesInv, Typed
<1>2. call' = [call EXCEPT ![c] = call[c]] /\ call[c] \in Requests \cup Answer
  BY <1>1 DEF DevicesInv, Typed
<1>3. Standing(c)'
  BY <1>1 DEF Standing, IsActive, ActiveOn
<1>4. \A d \in Callers \ {c} : Separate(c, d)'
  <2> SUFFICES ASSUME NEW d \in Callers \ {c} PROVE Separate(c, d)'
    OBVIOUS
  <2>1. tx'[d] = tx[d] /\ call'[d] = call[d]
    BY <1>1 DEF DevicesInv, Typed
  <2> QED BY <1>1, <2>1 DEF Separate, Unheld, Clear
<1> QED BY <1>1, <1>2, <1>3, <1>4, TableStays

\* A statement that ran found the rows it names unlocked.
LEMMA RunsUnheld ==
  ASSUME NEW c \in Callers, Runs(c), NEW i, i \in Ids,
         \/ (Pending(c, "register") /\ i \in ActiveOn(call[c].endpoint))
         \/ ((At(c, "replace", "none") \/ At(c, "revoke", "none")) /\ i = call[c].id)
  PROVE  Unheld(i, c)
BY DEF Runs, Blockers, Unheld, Holders, Pending, At

\* An insertion that runs waits for nobody: no row under way is on its endpoint.
LEMMA RunsClear ==
  ASSUME NEW c \in Callers, Runs(c), NEW i \in NextId,
         Pending(c, "register") \/ Pending(c, "import") \/ At(c, "replace", "insert")
  PROVE  i \in Ids /\ rows[i] = None /\ Clear(c, i)
BY DEF Runs, Blockers, Clear, Inserting, Pending, At, NextId, Unused

\* The lock a transaction has is its own.
LEMMA HeldIsOwn ==
  ASSUME DevicesInv, NEW c \in Callers, tx[c].step # "none"
  PROVE  Unheld(call[c].id, c)
BY DEF DevicesInv, Apart, Separate, Unheld

-----------------------------------------------------------------------------
(* The statements.                                                         *)

\* A caller that serves a request of one statement is in no transaction.
LEMMA NoTransaction ==
  ASSUME DevicesInv, NEW c \in Callers, call[c].op \notin {"replace", "revoke"}
  PROVE  tx[c].step = "none" /\ tx[c].fresh = None
BY DEF DevicesInv, Standing

\* Every outcome of Register keeps the invariant.
LEMMA RegisterStep ==
  ASSUME DevicesInv, NEW c \in Callers, Register(c)
  PROVE  DevicesInv'
PROOF
<1>1. Pending(c, "register") /\ Runs(c) /\ call[c].op = "register" /\ call[c].keys \in Keys
  BY RequestFields DEF Register, Pending, DevicesInv
<1>2. ASSUME NEW i \in ActiveOn(call[c].endpoint), OnConflict(c, i) PROVE DevicesInv'
  <2>1. i \in Ids /\ IsActive(i)
    BY DEF ActiveOn
  <2>2. CASE rows[i].user = call[c].user
    <3>1. Committed(c, WithKeys(i, call[c]), i)
      BY <1>2, <2>2 DEF OnConflict
    <3> QED BY <1>1, <2>1, <3>1, KeysSound
  <2>3. CASE rows[i].user # call[c].user
    <3>1. Answered(c, "forbidden", None) /\ UNCHANGED rows
      BY <1>2, <2>3 DEF OnConflict, Refuse
    <3> QED BY <3>1, RefuseSound DEF Answers
  <2> QED BY <2>2, <2>3
<1>3. ASSUME ActiveOn(call[c].endpoint) = {}, NEW i \in NextId,
             Committed(c, [rows EXCEPT ![i] = NewRow(call[c])], i)
      PROVE  DevicesInv'
  BY <1>1, <1>3, NoTransaction, RunsClear, AddedSound
<1> QED BY <1>2, <1>3 DEF Register

\* So does every outcome of Import.
LEMMA ImportStep ==
  ASSUME DevicesInv, NEW c \in Callers, Import(c)
  PROVE  DevicesInv'
PROOF
<1>1. Pending(c, "import") /\ Runs(c) /\ call[c].op = "import"
  BY DEF Import, Pending
<1>2. CASE Refuse(c, "input")
  BY <1>2, RefuseSound DEF Refuse, Answers
<1>3. ASSUME ActiveOn(call[c].endpoint) = {}, NEW i \in NextId,
             Committed(c, [rows EXCEPT ![i] = NewRow(call[c])], i)
      PROVE  DevicesInv'
  BY <1>1, <1>3, NoTransaction, RunsClear, AddedSound
<1> QED BY <1>2, <1>3 DEF Import

\* So does every statement of Replace.
LEMMA ReplaceStep ==
  ASSUME DevicesInv, NEW c \in Callers,
         \/ ReplaceLockOld(c) \/ ReplaceUpdate(c) \/ ReplaceProbe(c)
         \/ ReplaceInsert(c) \/ ReplaceRetire(c) \/ ReplaceCommit(c)
  PROVE  DevicesInv'
PROOF
<1>0. Pending(c, "replace") /\ call[c].op = "replace" /\ call[c].id \in Ids
  BY RequestFields DEF ReplaceLockOld, ReplaceUpdate, ReplaceProbe, ReplaceInsert, ReplaceRetire,
     ReplaceCommit, At, Pending, DevicesInv
<1>a. ASSUME NEW code \in Answers, Refuse(c, code) PROVE DevicesInv'
  BY <1>a, RefuseSound DEF Refuse
<1>b. Standing(c)
  BY DEF DevicesInv
<1>1. CASE ReplaceLockOld(c)
  <2>1. CASE Refuse(c, "not_found") \/ Refuse(c, "forbidden")
    BY <1>a, <2>1 DEF Answers
  <2>2. CASE /\ IsActive(call[c].id) /\ rows[call[c].id].user = call[c].user
             /\ GoOn(c, [NoTx EXCEPT !.step =
                  IF call[c].endpoint = rows[call[c].id].endpoint THEN "update" ELSE "probe"])
    <3>1. PICK p \in Tx : /\ GoOn(c, p) /\ p.fresh = None /\ p.step \in {"update", "probe"}
      BY <2>2 DEF NoTx, Tx, Steps
    <3>2. Unheld(call[c].id, c)
      BY <1>0, <1>1, RunsUnheld DEF ReplaceLockOld
    <3> QED BY <1>0, <2>2, <3>1, <3>2, GoOnSound
  <2> QED BY <1>1, <2>1, <2>2 DEF ReplaceLockOld
<1>2. CASE ReplaceUpdate(c)
  <2>1. IsActive(call[c].id) /\ call[c].keys \in Keys
    BY <1>0, <1>2, <1>b, RequestFields DEF ReplaceUpdate, At, Standing, DevicesInv
  <2> QED BY <1>0, <1>2, <2>1, KeysSound DEF ReplaceUpdate
<1>3. CASE ReplaceProbe(c)
  <2>1. CASE Refuse(c, "forbidden")
    BY <1>a, <2>1 DEF Answers
  <2>2. CASE GoOn(c, [NoTx EXCEPT !.step = "insert"])
    <3>1. PICK p \in Tx : GoOn(c, p) /\ p.fresh = None /\ p.step = "insert"
      BY <2>2 DEF NoTx, Tx, Steps
    <3>2. tx[c].step = "probe"
      BY <1>3 DEF ReplaceProbe, At
    <3> QED BY <1>0, <1>b, <3>1, <3>2, HeldIsOwn, GoOnSound DEF Standing
  <2> QED BY <1>3, <2>1, <2>2 DEF ReplaceProbe
<1>4. CASE ReplaceInsert(c)
  <2>1. CASE Refuse(c, "input")
    BY <1>a, <2>1 DEF Answers
  <2>2. ASSUME ActiveOn(call[c].endpoint) = {}, NEW i \in NextId,
               GoOn(c, [step |-> "retire", fresh |-> i])
        PROVE  DevicesInv'
    <3>1. i \in Ids /\ rows[i] = None /\ Clear(c, i)
      BY <1>4, RunsClear DEF ReplaceInsert
    <3>2. PICK p \in Tx : GoOn(c, p) /\ p.fresh = i /\ p.step = "retire"
      BY <2>2, <3>1 DEF Tx, Steps
    <3>3. tx[c].step = "insert" /\ None \notin Ids
      BY <1>4, DevicesAssumption DEF ReplaceInsert, At
    <3> QED BY <1>0, <1>b, <2>2, <3>1, <3>2, <3>3, HeldIsOwn, GoOnSound DEF Standing
  <2> QED BY <1>4, <2>1, <2>2 DEF ReplaceInsert
<1>5. CASE ReplaceRetire(c)
  <2>1. tx[c].step = "retire"
    BY <1>5 DEF ReplaceRetire, At
  <2>2. PICK p \in Tx : GoOn(c, p) /\ p.fresh = tx[c].fresh /\ p.step = "commit"
    <3>1. tx[c] \in Tx
      BY DEF DevicesInv, Typed
    <3> QED BY <1>5, <3>1 DEF ReplaceRetire, Tx, Steps
  <2>3. Clear(c, tx[c].fresh) \/ tx[c].fresh = None
    BY DEF DevicesInv, Apart, Separate, Clear
  <2> QED BY <1>0, <1>b, <2>1, <2>2, <2>3, HeldIsOwn, GoOnSound DEF Standing
<1>6. CASE ReplaceCommit(c)
  BY <1>6, ReplacedSound DEF ReplaceCommit
<1> QED BY <1>1, <1>2, <1>3, <1>4, <1>5, <1>6

\* So does every statement of Revoke.
LEMMA RevokeStep ==
  ASSUME DevicesInv, NEW c \in Callers, RevokeLock(c) \/ RevokeCommit(c)
  PROVE  DevicesInv'
PROOF
<1>0. Pending(c, "revoke") /\ call[c].op = "revoke" /\ call[c].id \in Ids
  BY RequestFields DEF RevokeLock, RevokeCommit, At, Pending, DevicesInv
<1>1. CASE RevokeLock(c)
  <2>1. CASE Refuse(c, "not_found") \/ Refuse(c, "forbidden")
    BY <2>1, RefuseSound DEF Refuse, Answers
  <2>2. CASE Answered(c, "ok", call[c].id) /\ UNCHANGED rows
    BY <1>0, <2>2, RefuseSound DEF Answers
  <2>3. CASE /\ IsActive(call[c].id) /\ rows[call[c].id].user = call[c].user
             /\ GoOn(c, [NoTx EXCEPT !.step = "revoke"])
    <3>1. PICK p \in Tx : GoOn(c, p) /\ p.fresh = None /\ p.step = "revoke"
      BY <2>3 DEF NoTx, Tx, Steps
    <3>2. Unheld(call[c].id, c)
      BY <1>0, <1>1, RunsUnheld DEF RevokeLock
    <3> QED BY <1>0, <2>3, <3>1, <3>2, GoOnSound
  <2> QED BY <1>1, <2>1, <2>2, <2>3 DEF RevokeLock
<1>2. CASE RevokeCommit(c)
  <2>1. tx[c].step = "revoke"
    BY <1>2 DEF RevokeCommit, At
  <2>2. IsActive(call[c].id) /\ Unheld(call[c].id, c)
    BY <2>1, HeldIsOwn DEF DevicesInv, Standing
  <2> QED BY <1>0, <1>2, <2>2, RevokedSound DEF RevokeCommit
<1> QED BY <1>1, <1>2

-----------------------------------------------------------------------------
(* The theorems.                                                           *)

\* The empty table, with nobody asking.
LEMMA DevicesInitially == DevicesInit => DevicesInv
PROOF
<1> SUFFICES ASSUME DevicesInit PROVE DevicesInv
  OBVIOUS
<1>1. Refusal("unavailable") \in Answer /\ NoTx \in Tx
  BY DEF Refusal, Answer, Answers, NoTx, Tx, Steps
<1>2. \A c \in Callers : tx[c].step = "none" /\ tx[c].fresh = None
  BY DEF DevicesInit, NoTx
<1>3. \A i \in Ids : rows[i] = None
  BY DEF DevicesInit
<1>4. Typed
  BY <1>1 DEF DevicesInit, Typed
<1>5. OneActivePerEndpoint
  BY <1>3 DEF OneActivePerEndpoint, IsActive
<1>6. SuccessionIsALine
  <2>1. {i \in Ids : rows[i] # None /\ rows[i].next # None} = {}
    BY <1>3
  <2> QED BY <2>1 DEF SuccessionIsALine
<1>7. (\A c \in Callers : Standing(c)) /\ Apart
  BY <1>2 DEF Standing, Apart, Separate
<1> QED BY <1>4, <1>5, <1>6, <1>7 DEF DevicesInv

\* DevicesInv is inductive.
LEMMA DevicesStep == DevicesInv /\ [DevicesNext]_devicesVars => DevicesInv'
PROOF
<1> SUFFICES ASSUME DevicesInv, [DevicesNext]_devicesVars PROVE DevicesInv'
  OBVIOUS
<1>1. CASE UNCHANGED devicesVars
  BY <1>1 DEF devicesVars, DevicesInv, Typed, OneActivePerEndpoint, SuccessionIsALine, Standing,
     Apart, Separate, IsActive, ActiveOn
<1>2. ASSUME NEW c \in Callers, NEW req \in Requests, Ask(c, req) PROVE DevicesInv'
  <2>1. tx[c].step = "none" /\ tx[c].fresh = None
    BY <1>2, NoTransaction DEF Ask, Pending
  <2>2. /\ call' = [call EXCEPT ![c] = req] /\ tx' = tx /\ rows' = rows
        /\ tx' = [tx EXCEPT ![c] = tx[c]] /\ tx[c] \in Tx
    BY <1>2 DEF Ask, DevicesInv, Typed
  <2>3. Standing(c)' /\ \A d \in Callers \ {c} : Separate(c, d)'
    BY <2>1, <2>2 DEF Standing, Separate
  <2> QED BY <2>2, <2>3, TableStays
<1>3. ASSUME NEW c \in Callers, Statement(c) PROVE DevicesInv'
  <2>1. CASE IdsExhausted(c)
    BY <2>1, RefuseSound DEF IdsExhausted, Refuse, Answers
  <2> QED BY <1>3, <2>1, RegisterStep, ImportStep, ReplaceStep, RevokeStep DEF Statement
<1>4. ASSUME NEW c \in Callers, DatabaseFails(c) PROVE DevicesInv'
  BY <1>4, RefuseSound DEF DatabaseFails, Refuse, Answers
<1> QED BY <1>1, <1>2, <1>3, <1>4 DEF DevicesNext, DeadlockDetected

\* DevicesInv holds of every behaviour, for any sessions, users, endpoints and
\* names: the rows as committed and as each open transaction will leave them.
THEOREM DevicesInvariant == DevicesSpec => []DevicesInv
BY DevicesInitially, DevicesStep, PTL DEF DevicesSpec

\* Rows, requests, answers and places in a transaction keep their types, and a
\* row's lock has one holder, for any constants (the schema and the FOR UPDATE
\* of Replace and Revoke).
THEOREM DevicesTypeCorrect == DevicesSpec => []DevicesTypeOK
PROOF
<1>1. DevicesInv => DevicesTypeOK
  BY DEF DevicesInv, Typed, Apart, Separate, DevicesTypeOK
<1> QED BY <1>1, DevicesInvariant, PTL

\* No endpoint is active twice, whoever registers, imports or replaces what at
\* the same time: between probe and insert, insert and commit, or two inserts.
THEOREM EndpointsAreActiveOnce == DevicesSpec => []OneActivePerEndpoint
PROOF
<1>1. DevicesInv => OneActivePerEndpoint
  BY DEF DevicesInv
<1> QED BY <1>1, DevicesInvariant, PTL

\* Replacements form lines: of any number of concurrent replacements of a row
\* one succeeds it, the successor is its user's, and no line returns to itself.
THEOREM ReplacementsFormLines == DevicesSpec => []SuccessionIsALine
PROOF
<1>1. DevicesInv => SuccessionIsALine
  BY DEF DevicesInv
<1> QED BY <1>1, DevicesInvariant, PTL

\* What one step leaves of every row there was.
Final ==
  \A i \in Ids : rows[i] # None =>
    /\ rows'[i] # None
    /\ rows'[i].user = rows[i].user /\ rows'[i].endpoint = rows[i].endpoint
    /\ ~ rows[i].active => rows'[i] = rows[i]

\* Every write that is not to a new row is to an active one.
LEMMA WritesAreFinal ==
  ASSUME DevicesInv, NEW c \in Callers, Statement(c) PROVE Final
PROOF
<1>a. ASSUME UNCHANGED rows PROVE Final
  BY <1>a DEF Final
<1>b. ASSUME NEW i \in NextId, rows' = [rows EXCEPT ![i] = NewRow(call[c])] PROVE Final
  BY <1>b DEF Final, NextId, Unused, DevicesInv, Typed
<1>c. ASSUME NEW i \in Ids, IsActive(i), rows' = WithKeys(i, call[c]), call[c].keys \in Keys
      PROVE  Final
  <2>1. rows[i] \in Row /\ [rows[i] EXCEPT !.keys = call[c].keys] \in Row
    BY <1>c, RowFields, RowChanges DEF IsActive, DevicesInv
  <2>2. PICK r \in Row : r = [rows[i] EXCEPT !.keys = call[c].keys]
    BY <2>1
  <2>3. r # None /\ r.user = rows[i].user /\ r.endpoint = rows[i].endpoint
    BY <2>1, <2>2, NoneAssumption DEF Row
  <2>4. rows'[i] = r /\ \A j \in Ids : j # i => rows'[j] = rows[j]
    BY <1>c, <2>2 DEF WithKeys, DevicesInv, Typed
  <2> QED BY <1>c, <2>3, <2>4 DEF Final, IsActive
<1>1. CASE Register(c)
  <2>1. call[c].keys \in Keys
    BY <1>1, RequestFields DEF Register, Pending, DevicesInv
  <2> QED BY <1>1, <1>a, <1>b, <1>c, <2>1 DEF Register, OnConflict, Committed, Refuse, ActiveOn
<1>2. CASE Import(c)
  BY <1>2, <1>a, <1>b DEF Import, Committed, Refuse
<1>3. CASE ReplaceUpdate(c)
  <2>1. /\ call[c].keys \in Keys /\ call[c].id \in Ids /\ IsActive(call[c].id)
    BY <1>3, RequestFields DEF ReplaceUpdate, At, Pending, DevicesInv, Standing
  <2> QED BY <1>3, <1>c, <2>1 DEF ReplaceUpdate, Committed
<1>4. CASE ReplaceCommit(c)
  <2>1. PICK i \in Ids, n \in Ids : i = call[c].id /\ n = tx[c].fresh
    BY <1>4, RequestFields DEF ReplaceCommit, At, Pending, DevicesInv, Standing
  <2>2. rows[i] \in Row /\ rows[i].active /\ rows[n] = None /\ i # n
    BY <1>4, <2>1, RowFields DEF ReplaceCommit, At, DevicesInv, Standing, IsActive
  <2>3. PICK old \in Row : old = [rows[i] EXCEPT !.active = FALSE, !.next = n]
    BY <2>2 DEF Row
  <2>4. old # None /\ old.user = rows[i].user /\ old.endpoint = rows[i].endpoint
    BY <2>2, <2>3, NoneAssumption DEF Row
  <2>5. rows' = [rows EXCEPT ![n] = NewRow(call[c]), ![i] = old]
    BY <1>4, <2>1, <2>2, <2>3 DEF ReplaceCommit, Committed, Replaced, DevicesInv, Typed
  <2>6. rows'[i] = old /\ \A j \in Ids : j # i /\ j # n => rows'[j] = rows[j]
    BY <2>2, <2>5 DEF DevicesInv, Typed
  <2> QED BY <2>2, <2>4, <2>6 DEF Final
<1>5. CASE RevokeCommit(c)
  <2>1. PICK i \in Ids : i = call[c].id /\ rows[i] \in Row /\ rows[i].active
    BY <1>5, RequestFields, RowFields DEF RevokeCommit, At, Pending, DevicesInv, Standing, IsActive
  <2>2. PICK r \in Row : r = [rows[i] EXCEPT !.active = FALSE]
    BY <2>1 DEF Row
  <2>3. r # None /\ r.user = rows[i].user /\ r.endpoint = rows[i].endpoint
    BY <2>1, <2>2, NoneAssumption DEF Row
  <2>4. rows'[i] = r /\ \A j \in Ids : j # i => rows'[j] = rows[j]
    BY <1>5, <2>1, <2>2 DEF RevokeCommit, Committed, DevicesInv, Typed
  <2> QED BY <2>1, <2>3, <2>4 DEF Final
<1>6. CASE ReplaceLockOld(c) \/ ReplaceProbe(c) \/ ReplaceInsert(c) \/ ReplaceRetire(c)
           \/ RevokeLock(c) \/ IdsExhausted(c)
  BY <1>6, <1>a DEF ReplaceLockOld, ReplaceProbe, ReplaceInsert, ReplaceRetire, RevokeLock,
     IdsExhausted, Refuse, GoOn
<1> QED BY <1>1, <1>2, <1>3, <1>4, <1>5, <1>6 DEF Statement

\* A registration keeps its user and endpoint, and a revoked one every column,
\* whatever transaction decided before it was revoked.
THEOREM RevokedDevicesAreFinal == DevicesSpec => RevokedIsFinal
PROOF
<1>1. DevicesInv /\ [DevicesNext]_devicesVars => [Final]_devicesVars
  <2> SUFFICES ASSUME DevicesInv, DevicesNext PROVE Final
    OBVIOUS
  <2>1. CASE UNCHANGED rows
    BY <2>1 DEF Final
  <2>2. ASSUME NEW c \in Callers, Statement(c) PROVE Final
    BY <2>2, WritesAreFinal
  <2> QED BY <2>1, <2>2 DEF DevicesNext, Ask, DatabaseFails, DeadlockDetected, Refuse
<1> QED BY <1>1, DevicesInvariant, PTL DEF DevicesSpec, RevokedIsFinal, Final

-----------------------------------------------------------------------------
(* Deadlocks.                                                              *)

\* Who is waited for holds a lock or has a row under way.
LEMMA WaitedFor ==
  ASSUME DevicesInv, NEW c \in Callers, NEW d \in Callers, c \in Blockers(d)
  PROVE  /\ tx[c].step # "none"
         /\ At(d, "replace", "insert") => tx[c].step \in {"retire", "commit"}
PROOF
<1>1. Standing(c)
  BY DEF DevicesInv
<1>2. CASE At(d, "replace", "insert")
  BY <1>1, <1>2 DEF Blockers, At, Pending, Inserting, Retiring, Standing
<1>3. CASE ~At(d, "replace", "insert")
  <2>1. \/ c \in Inserting(call[d].endpoint) \/ c \in Holders(call[d].id)
        \/ \E i \in ActiveOn(call[d].endpoint) : c \in Holders(i) \/ c \in Retiring(i)
    BY <1>3 DEF Blockers
  <2> QED BY <1>1, <1>3, <2>1 DEF Inserting, Holders, Retiring, Standing, At
<1> QED BY <1>2, <1>3

\* Who is in a transaction, and waits, probes or inserts.
LEMMA WaitsInside ==
  ASSUME DevicesInv, NEW c \in Callers, tx[c].step # "none", Blockers(c) # {}
  PROVE  At(c, "replace", "probe") \/ At(c, "replace", "insert")
PROOF
<1>1. call[c].op \in {"replace", "revoke"}
  BY DEF DevicesInv, Standing
<1>2. CASE At(c, "replace", "probe") \/ At(c, "replace", "insert")
  BY <1>2
<1>3. CASE ~(At(c, "replace", "probe") \/ At(c, "replace", "insert"))
  <2>1. Blockers(c) = {}
    BY <1>1, <1>3 DEF Blockers, At, Pending
  <2> QED BY <2>1
<1> QED BY <1>2, <1>3

\* A circle of transactions that wait for each other consists of replacements
\* that cross: whoever in it is waited for is at its probe, because one at its
\* insertion waits for transactions that wait for nobody.
THEOREM OnlyCrossingsDeadlock == DevicesSpec => []DeadlocksAreCrossings
PROOF
<1>1. DevicesInv => DeadlocksAreCrossings
  <2> SUFFICES ASSUME DevicesInv, NEW group \in SUBSET Callers,
                      \A c \in group : Blockers(c) \cap group # {},
                      NEW c \in group, NEW d \in group, c \in Blockers(d)
               PROVE  At(c, "replace", "probe")
    BY DEF DeadlocksAreCrossings
  <2>1. At(c, "replace", "probe") \/ At(c, "replace", "insert")
    BY WaitedFor, WaitsInside
  <2>2. ASSUME At(c, "replace", "insert") PROVE FALSE
    <3>1. PICK e \in group : e \in Blockers(c)
      OBVIOUS
    <3>2. tx[e].step \in {"retire", "commit"}
      BY <2>2, <3>1, WaitedFor
    <3>3. At(e, "replace", "probe") \/ At(e, "replace", "insert")
      BY <3>2, WaitsInside
    <3> QED BY <3>2, <3>3 DEF At
  <2> QED BY <2>1, <2>2
<1> QED BY <1>1, DevicesInvariant, PTL

-----------------------------------------------------------------------------
(* The in-memory Store.                                                    *)

\* Replace decides between its two ways once, on endpoints that do not change.
Branched ==
  \A c \in Callers :
    /\ tx[c].step = "update" => call[c].endpoint = rows[call[c].id].endpoint
    /\ tx[c].step \in {"probe", "insert", "retire", "commit"} =>
         call[c].endpoint # rows[call[c].id].endpoint

\* What c itself does is as it decided, and what others do leaves the row's
\* endpoint alone.
LEMMA BranchStep ==
  ASSUME DevicesInv, Branched, [DevicesNext]_devicesVars PROVE Branched'
PROOF
<1>a. ASSUME Final, NEW c \in Callers, NEW q, NEW p,
             call' = [call EXCEPT ![c] = q], tx' = [tx EXCEPT ![c] = p],
             p.step = "update" => q.endpoint = rows'[q.id].endpoint,
             p.step \in {"probe", "insert", "retire", "commit"} =>
               q.endpoint # rows'[q.id].endpoint
      PROVE  Branched'
  <2> SUFFICES ASSUME NEW d \in Callers, d # c, tx[d].step # "none"
               PROVE  rows'[call[d].id].endpoint = rows[call[d].id].endpoint
    BY <1>a DEF Branched, DevicesInv, Typed
  <2>1. call[d].id \in Ids /\ rows[call[d].id] # None
    BY RequestFields DEF DevicesInv, Standing, IsActive
  <2> QED BY <1>a, <2>1 DEF Final
<1>1. CASE UNCHANGED devicesVars
  BY <1>1 DEF Branched, devicesVars
<1>b. ASSUME NEW c \in Callers, NEW code, NEW i, Answered(c, code, i), Final PROVE Branched'
  <2>1. NoTx.step = "none"
    BY DEF NoTx
  <2> QED BY <1>a, <1>b, <2>1 DEF Answered
<1>2. ASSUME NEW c \in Callers, NEW req \in Requests, Ask(c, req) PROVE Branched'
  <2>1. tx[c].step = "none"
    BY <1>2, NoTransaction DEF Ask, Pending
  <2> QED BY <1>2, <2>1 DEF Ask, Branched, DevicesInv, Typed
<1>3. ASSUME NEW c \in Callers, DatabaseFails(c) PROVE Branched'
  <2>1. Final
    BY <1>3 DEF DatabaseFails, Refuse, Final
  <2> QED BY <1>3, <1>b, <2>1 DEF DatabaseFails, Refuse
<1>4. ASSUME NEW c \in Callers, Statement(c) PROVE Branched'
  <2>0. Final
    BY <1>4, WritesAreFinal
  <2>1. CASE ReplaceLockOld(c)
    <3>1. CASE Refuse(c, "not_found") \/ Refuse(c, "forbidden")
      BY <1>b, <2>0, <3>1 DEF Refuse
    <3>2. CASE GoOn(c, [NoTx EXCEPT !.step =
                 IF call[c].endpoint = rows[call[c].id].endpoint THEN "update" ELSE "probe"])
      <4>. DEFINE p == [NoTx EXCEPT !.step =
                   IF call[c].endpoint = rows[call[c].id].endpoint THEN "update" ELSE "probe"]
      <4>1. p.step = IF call[c].endpoint = rows[call[c].id].endpoint THEN "update" ELSE "probe"
        BY DEF NoTx
      <4>2. rows' = rows /\ call' = [call EXCEPT ![c] = call[c]] /\ tx' = [tx EXCEPT ![c] = p]
        BY <3>2 DEF GoOn, DevicesInv, Typed
      <4>. HIDE DEF p
      <4> QED BY <1>a, <2>0, <4>1, <4>2
    <3> QED BY <2>1, <3>1, <3>2 DEF ReplaceLockOld
  <2>2. ASSUME NEW p, GoOn(c, p), tx[c].step \in {"probe", "insert", "retire", "commit"},
               p.step \in {"probe", "insert", "retire", "commit"}
        PROVE  Branched'
    <3>1. rows' = rows /\ call' = [call EXCEPT ![c] = call[c]] /\ tx' = [tx EXCEPT ![c] = p]
      BY <2>2 DEF GoOn, DevicesInv, Typed
    <3> QED BY <1>a, <2>0, <2>2, <3>1 DEF Branched
  <2>3. CASE ReplaceProbe(c)
    <3>1. [NoTx EXCEPT !.step = "insert"].step = "insert" /\ tx[c].step = "probe"
      BY <2>3 DEF NoTx, ReplaceProbe, At
    <3> QED BY <1>b, <2>0, <2>2, <2>3, <3>1 DEF ReplaceProbe, Refuse
  <2>4. CASE ReplaceInsert(c)
    <3>1. tx[c].step = "insert" /\ \A i : [step |-> "retire", fresh |-> i].step = "retire"
      BY <2>4 DEF ReplaceInsert, At
    <3> QED BY <1>b, <2>0, <2>2, <2>4, <3>1 DEF ReplaceInsert, Refuse
  <2>5. CASE ReplaceRetire(c)
    <3>1. tx[c].step = "retire" /\ [tx[c] EXCEPT !.step = "commit"].step = "commit"
      BY <2>5 DEF ReplaceRetire, At, DevicesInv, Typed, Tx
    <3> QED BY <2>2, <2>5, <3>1 DEF ReplaceRetire
  <2>6. CASE RevokeLock(c)
    <3>1. CASE GoOn(c, [NoTx EXCEPT !.step = "revoke"])
      <4>. DEFINE p == [NoTx EXCEPT !.step = "revoke"]
      <4>1. p.step = "revoke"
        BY DEF NoTx
      <4>2. rows' = rows /\ call' = [call EXCEPT ![c] = call[c]] /\ tx' = [tx EXCEPT ![c] = p]
        BY <3>1 DEF GoOn, DevicesInv, Typed
      <4>. HIDE DEF p
      <4> QED BY <1>a, <2>0, <4>1, <4>2
    <3> QED BY <1>b, <2>0, <2>6, <3>1 DEF RevokeLock, Refuse
  <2>7. CASE Register(c) \/ Import(c) \/ ReplaceUpdate(c) \/ ReplaceCommit(c)
             \/ RevokeCommit(c) \/ IdsExhausted(c)
    BY <1>b, <2>0, <2>7 DEF Register, OnConflict, Import, ReplaceUpdate, ReplaceCommit,
       RevokeCommit, IdsExhausted, Committed, Refuse
  <2> QED BY <1>4, <2>1, <2>3, <2>4, <2>5, <2>6, <2>7 DEF Statement
<1> QED BY <1>1, <1>2, <1>3, <1>4 DEF DevicesNext, DeadlockDetected

\* What a statement reads, as the Store has it.
LEMMA Reads ==
  ASSUME DevicesInv
  PROVE  /\ \A e : Registry!ActiveOn(e) = ActiveOn(e)
         /\ NextId \subseteq Registry!Unused
         /\ \A req : Registry!Fresh(req) = NewRow(req)
         /\ \A i, req : Registry!Renewed(i, req) = WithKeys(i, req)
PROOF
<1>1. \A e : Registry!ActiveOn(e) = ActiveOn(e)
  BY DEF Registry!ActiveOn, ActiveOn, IsActive
<1>2. NextId \subseteq Registry!Unused
  BY DEF Registry!Unused, NextId, Unused
<1>3. \A req : Registry!Fresh(req) = NewRow(req)
  BY DEF Registry!Fresh, NewRow
<1>4. \A i, req : Registry!Renewed(i, req) = WithKeys(i, req)
  BY DEF Registry!Renewed, WithKeys
<1> QED BY <1>1, <1>2, <1>3, <1>4

\* An answer of the table is the answer of the Store.
LEMMA AnswersMap ==
  ASSUME DevicesInv, NEW c \in Callers, NEW code \in Answers, NEW i, Answered(c, code, i)
  PROVE  Registry!Answered(c, IF code = "input" THEN "forbidden" ELSE code, i)
PROOF
<1>. DEFINE place == [Refusal(code) EXCEPT !.id = i]
            said  == IF code = "input" THEN "forbidden" ELSE code
<1>1. call' = [call EXCEPT ![c] = place]
  BY DEF Answered
<1>2. place = [op |-> "answer", code |-> code, id |-> i]
  BY DEF Refusal
<1>3. InMemory(place) = [op |-> "answer", code |-> said, id |-> i]
  BY <1>2 DEF InMemory
<1>. HIDE DEF place, said
<1>4. \A d \in Callers : call'[d] = IF d = c THEN place ELSE call[d]
  BY <1>1 DEF DevicesInv, Typed
<1>5. [d \in Callers |-> InMemory(call'[d])] =
        [[d \in Callers |-> InMemory(call[d])] EXCEPT
          ![c] = [op |-> "answer", code |-> said, id |-> i]]
  BY <1>3, <1>4
<1>6. InMemory(call[c])' = InMemory(call'[c])
  BY DEF InMemory
<1> QED BY <1>5 DEF Registry!Answered, said, InMemory

\* A refusal is a refusal, and a commit an effect, told or not.
LEMMA EndsMap ==
  ASSUME DevicesInv, NEW c \in Callers
  PROVE  /\ \A code \in Answers : Refuse(c, code) =>
              Registry!Refuse(c, IF code = "input" THEN "forbidden" ELSE code)
         /\ \A table, i : Committed(c, table, i) => Registry!Effect(c, table, i)
PROOF
<1>1. ASSUME NEW code \in Answers, Refuse(c, code)
      PROVE  Registry!Refuse(c, IF code = "input" THEN "forbidden" ELSE code)
  BY <1>1, AnswersMap DEF Refuse, Registry!Refuse
<1>2. ASSUME NEW table, NEW i, Committed(c, table, i) PROVE Registry!Effect(c, table, i)
  <2>1. rows' = table
    BY <1>2 DEF Committed
  <2>2. CASE Answered(c, "ok", i)
    <3>1. Registry!Answered(c, "ok", i)
      BY <2>2, AnswersMap DEF Answers
    <3> QED BY <2>1, <3>1 DEF Registry!Effect
  <2>3. CASE Answered(c, "unavailable", None)
    <3>1. Registry!Answered(c, "unavailable", None)
      BY <2>3, AnswersMap DEF Answers
    <3> QED BY <2>1, <3>1 DEF Registry!Effect
  <2> QED BY <1>2, <2>2, <2>3 DEF Committed
<1> QED BY <1>1, <1>2

\* A caller that waits for an answer asks the Store what it asks the table.
LEMMA Performs ==
  ASSUME DevicesInv, NEW c \in Callers,
         \/ call[c].op = "register" /\ Registry!Register(c, call[c])
         \/ call[c].op = "import" /\ Registry!Import(c, call[c])
         \/ call[c].op = "replace" /\ Registry!Replace(c, call[c])
         \/ call[c].op = "revoke" /\ Registry!Revoke(c, call[c])
         \/ call[c].op # "answer" /\ Registry!Refuse(c, "unavailable")
  PROVE  Registry!RegistryNext
PROOF
<1>1. [d \in Callers |-> InMemory(call[d])][c] = call[c]
  BY DEF InMemory
<1>2. Registry!Perform(c)
  BY <1>1 DEF Registry!Perform
<1> QED BY <1>2 DEF Registry!RegistryNext

\* Register and Import are one statement, and one method.
LEMMA InsertionsMap ==
  ASSUME DevicesInv, NEW c \in Callers, Register(c) \/ Import(c)
  PROVE  Registry!RegistryNext
PROOF
<1>1. CASE Register(c)
  <2>1. Registry!Register(c, call[c])
    <3>1. ASSUME NEW i \in ActiveOn(call[c].endpoint), OnConflict(c, i)
          PROVE  Registry!Register(c, call[c])
      <4>1. CASE rows[i].user = call[c].user
        <5>1. Registry!Effect(c, WithKeys(i, call[c]), i)
          BY <3>1, <4>1, EndsMap DEF OnConflict
        <5> QED BY <4>1, <5>1, Reads DEF Registry!Register
      <4>2. CASE rows[i].user # call[c].user
        <5>1. Registry!Refuse(c, "forbidden")
          BY <3>1, <4>2, EndsMap DEF OnConflict, Answers
        <5> QED BY <4>2, <5>1, Reads DEF Registry!Register
      <4> QED BY <4>1, <4>2
    <3>2. ASSUME ActiveOn(call[c].endpoint) = {}, NEW i \in NextId,
                 Committed(c, [rows EXCEPT ![i] = NewRow(call[c])], i)
          PROVE  Registry!Register(c, call[c])
      <4>1. Registry!Effect(c, [rows EXCEPT ![i] = Registry!Fresh(call[c])], i)
        BY <3>2, EndsMap, Reads
      <4> QED BY <3>2, <4>1, Reads DEF Registry!Register
    <3> QED BY <1>1, <3>1, <3>2 DEF Register
  <2> QED BY <1>1, <2>1, Performs DEF Register, Pending
<1>2. CASE Import(c)
  <2>1. Registry!Import(c, call[c])
    <3>1. CASE ActiveOn(call[c].endpoint) # {} /\ Refuse(c, "input")
      <4>1. Registry!Refuse(c, "forbidden")
        BY <3>1, EndsMap DEF Answers
      <4> QED BY <3>1, <4>1, Reads DEF Registry!Import
    <3>2. ASSUME ActiveOn(call[c].endpoint) = {}, NEW i \in NextId,
                 Committed(c, [rows EXCEPT ![i] = NewRow(call[c])], i)
          PROVE  Registry!Import(c, call[c])
      <4>1. Registry!Effect(c, [rows EXCEPT ![i] = Registry!Fresh(call[c])], i)
        BY <3>2, EndsMap, Reads
      <4> QED BY <3>2, <4>1, Reads DEF Registry!Import
    <3> QED BY <1>2, <3>1, <3>2 DEF Import
  <2> QED BY <1>2, <2>1, Performs DEF Import, Pending
<1> QED BY <1>1, <1>2

\* Of the statements of a Replace one is the method: the one after which its
\* caller is answered, if only by the index.  What it decided on is still so.
LEMMA ReplacementsMap ==
  ASSUME DevicesInv, Branched, NEW c \in Callers,
         \/ ReplaceLockOld(c) \/ ReplaceUpdate(c) \/ ReplaceProbe(c)
         \/ ReplaceInsert(c) \/ ReplaceRetire(c) \/ ReplaceCommit(c)
  PROVE  Registry!RegistryNext \/ UNCHANGED <<rows, call>>
PROOF
<1>. DEFINE req == call[c]
<1>1. /\ Pending(c, "replace") /\ req.op = "replace"
      /\ req.id \in Ids
  BY RequestFields DEF ReplaceLockOld, ReplaceUpdate, ReplaceProbe, ReplaceInsert, ReplaceRetire,
     ReplaceCommit, At, Pending, DevicesInv
<1>2. Standing(c)
  BY DEF DevicesInv
<1>3. ASSUME Registry!Replace(c, req) PROVE Registry!RegistryNext
  BY <1>1, <1>3, Performs
<1>4. CASE ReplaceLockOld(c)
  <2>1. CASE ~ IsActive(req.id) /\ Refuse(c, "not_found")
    <3>1. Registry!Refuse(c, "not_found")
      BY <2>1, EndsMap DEF Answers
    <3>2. rows[req.id] = None \/ ~ rows[req.id].active
      BY <2>1 DEF IsActive
    <3>3. Registry!Replace(c, req)
      BY <3>1, <3>2 DEF Registry!Replace
    <3> QED BY <1>3, <3>3
  <2>2. CASE IsActive(req.id) /\ rows[req.id].user # req.user /\ Refuse(c, "forbidden")
    <3>1. Registry!Refuse(c, "forbidden")
      BY <2>2, EndsMap DEF Answers
    <3>2. rows[req.id] # None /\ rows[req.id].active
      BY <2>2 DEF IsActive
    <3>3. Registry!Replace(c, req)
      BY <2>2, <3>1, <3>2 DEF Registry!Replace
    <3> QED BY <1>3, <3>3
  <2> QED BY <1>4, <2>1, <2>2 DEF ReplaceLockOld, GoOn
<1>5. ASSUME tx[c].step # "none" PROVE Registry!MayReplace(req)
  BY <1>2, <1>5 DEF Standing, IsActive, Registry!MayReplace
<1>6. ASSUME tx[c].step \in {"probe", "insert", "retire", "commit"}
      PROVE  req.endpoint # rows[req.id].endpoint
  BY <1>6 DEF Branched
<1>7. CASE ReplaceUpdate(c)
  <2>1. tx[c].step = "update" /\ Committed(c, WithKeys(req.id, req), req.id)
    BY <1>7 DEF ReplaceUpdate, At
  <2>2. Registry!Effect(c, Registry!Renewed(req.id, req), req.id)
    BY <2>1, EndsMap, Reads
  <2>3. req.endpoint = rows[req.id].endpoint
    BY <2>1 DEF Branched
  <2>4. Registry!Replace(c, req)
    BY <1>5, <2>1, <2>2, <2>3 DEF Registry!Replace
  <2> QED BY <1>3, <2>4
<1>8. ASSUME ActiveOn(req.endpoint) # {}, tx[c].step \in {"probe", "insert"},
             Refuse(c, "forbidden") \/ Refuse(c, "input")
      PROVE  Registry!RegistryNext
  <2>1. Registry!Refuse(c, "forbidden")
    BY <1>8, EndsMap DEF Answers
  <2>2. Registry!Replace(c, req)
    BY <1>5, <1>6, <1>8, <2>1, Reads DEF Registry!Replace
  <2> QED BY <1>3, <2>2
<1>9. CASE ReplaceProbe(c)
  BY <1>8, <1>9 DEF ReplaceProbe, At, GoOn
<1>10. CASE ReplaceInsert(c)
  BY <1>8, <1>10 DEF ReplaceInsert, At, GoOn
<1>11. CASE ReplaceRetire(c)
  BY <1>11 DEF ReplaceRetire, GoOn
<1>12. CASE ReplaceCommit(c)
  <2>. DEFINE i == tx[c].fresh
  <2>1. tx[c].step = "commit" /\ Committed(c, Replaced(c), i)
    BY <1>12 DEF ReplaceCommit, At
  <2>2. /\ i \in Ids /\ rows[i] = None /\ ActiveOn(req.endpoint) = {}
    BY <1>2, <2>1, RequestFields DEF Standing, DevicesInv
  <2>3. i \in Registry!Unused
    BY <2>2 DEF Registry!Unused
  <2>4. Replaced(c) = [rows EXCEPT ![i] = Registry!Fresh(req), ![req.id].active = FALSE,
                                   ![req.id].next = i]
    BY Reads DEF Replaced
  <2>5. Registry!Effect(c, Replaced(c), i)
    BY <2>1, EndsMap
  <2>6. Registry!Effect(c, [rows EXCEPT ![i] = Registry!Fresh(req), ![req.id].active = FALSE,
                                        ![req.id].next = i], i)
    BY <2>4, <2>5
  <2>7. Registry!Replace(c, req)
    BY <1>5, <1>6, <2>1, <2>2, <2>3, <2>6, Reads DEF Registry!Replace
  <2> QED BY <1>3, <2>7
<1> QED BY <1>4, <1>7, <1>9, <1>10, <1>11, <1>12

\* Of the two statements of a Revoke as well; a row revoked before is revoked
\* as it is.
LEMMA RevocationsMap ==
  ASSUME DevicesInv, NEW c \in Callers, RevokeLock(c) \/ RevokeCommit(c)
  PROVE  Registry!RegistryNext \/ UNCHANGED <<rows, call>>
PROOF
<1>. DEFINE req == call[c]
            revoked == [rows EXCEPT ![req.id].active = FALSE]
<1>1. Pending(c, "revoke") /\ req.op = "revoke" /\ req.id \in Ids
  BY RequestFields DEF RevokeLock, RevokeCommit, At, Pending, DevicesInv
<1>2. ASSUME Registry!Revoke(c, req) PROVE Registry!RegistryNext
  BY <1>1, <1>2, Performs
<1>3. CASE RevokeLock(c)
  <2>1. CASE rows[req.id] = None /\ Refuse(c, "not_found")
    <3>1. Registry!Refuse(c, "not_found")
      BY <2>1, EndsMap DEF Answers
    <3>2. Registry!Revoke(c, req)
      BY <2>1, <3>1 DEF Registry!Revoke
    <3> QED BY <1>2, <3>2
  <2>2. CASE rows[req.id] # None /\ rows[req.id].user # req.user /\ Refuse(c, "forbidden")
    <3>1. Registry!Refuse(c, "forbidden")
      BY <2>2, EndsMap DEF Answers
    <3>2. Registry!Revoke(c, req)
      BY <2>2, <3>1 DEF Registry!Revoke
    <3> QED BY <1>2, <3>2
  <2>3. CASE /\ rows[req.id] # None /\ rows[req.id].user = req.user /\ ~ IsActive(req.id)
             /\ Answered(c, "ok", req.id) /\ UNCHANGED rows
    <3>1. Registry!Answered(c, "ok", req.id)
      BY <2>3, AnswersMap DEF Answers
    <3>2. rows[req.id] \in Row /\ rows[req.id].active = FALSE
      BY <1>1, <2>3, RowFields DEF IsActive, DevicesInv
    <3>3. [rows[req.id] EXCEPT !.active = FALSE] = rows[req.id]
      BY <3>2 DEF Row
    <3>4. rows' = revoked
      BY <1>1, <2>3, <3>3 DEF DevicesInv, Typed
    <3>5. Registry!Effect(c, revoked, req.id)
      BY <3>1, <3>4 DEF Registry!Effect
    <3>6. Registry!Revoke(c, req)
      BY <2>3, <3>5 DEF Registry!Revoke
    <3> QED BY <1>2, <3>6
  <2> QED BY <1>3, <2>1, <2>2, <2>3 DEF RevokeLock, GoOn
<1>4. CASE RevokeCommit(c)
  <2>1. Registry!Effect(c, revoked, req.id)
    BY <1>4, EndsMap DEF RevokeCommit
  <2>2. rows[req.id] # None /\ rows[req.id].user = req.user
    BY <1>4 DEF RevokeCommit, At, DevicesInv, Standing, IsActive
  <2>3. Registry!Revoke(c, req)
    BY <2>1, <2>2 DEF Registry!Revoke
  <2> QED BY <1>2, <2>3
<1> QED BY <1>3, <1>4

\* Every step of the table is a method of the Store, a call to one, or nothing
\* that a caller sees.
LEMMA StepMaps ==
  ASSUME DevicesInv, Branched, [DevicesNext]_devicesVars
  PROVE  [Registry!RegistryNext]_(Registry!registryVars)
PROOF
<1>1. UNCHANGED <<rows, call>> => UNCHANGED Registry!registryVars
  BY DEF Registry!registryVars, InMemory
<1>2. ASSUME NEW c \in Callers, NEW req \in Requests, Ask(c, req)
      PROVE  Registry!RegistryNext
  <2>1. /\ call[c].op = "answer" /\ call' = [call EXCEPT ![c] = req] /\ rows' = rows
    BY <1>2 DEF Ask, Pending
  <2>2. req \in Registry!Requests /\ req.op # "answer"
    BY <1>2 DEF Requests, Registry!Requests
  <2>3. InMemory(req) = req /\ InMemory(call[c]).op = "answer"
    <3>1. call[c] \in Answer
      BY <2>1 DEF DevicesInv, Typed, Requests
    <3> QED BY <2>1, <2>2, <3>1 DEF InMemory, Answer
  <2>4. \A d \in Callers : call'[d] = IF d = c THEN req ELSE call[d]
    BY <2>1 DEF DevicesInv, Typed
  <2>5. [d \in Callers |-> InMemory(call'[d])] =
          [[d \in Callers |-> InMemory(call[d])] EXCEPT ![c] = req]
    BY <2>3, <2>4
  <2>6. Registry!Ask(c, req)
    BY <2>1, <2>3, <2>5 DEF Registry!Ask, InMemory
  <2> QED BY <2>2, <2>6 DEF Registry!RegistryNext
<1>3. ASSUME NEW c \in Callers, call[c].op # "answer", Refuse(c, "unavailable")
      PROVE  Registry!RegistryNext
  <2>1. Registry!Refuse(c, "unavailable")
    BY <1>3, EndsMap DEF Answers
  <2> QED BY <1>3, <2>1, Performs
<1>4. ASSUME NEW c \in Callers, Statement(c)
      PROVE  Registry!RegistryNext \/ UNCHANGED <<rows, call>>
  <2>1. CASE IdsExhausted(c)
    BY <1>3, <2>1 DEF IdsExhausted, Pending, At
  <2> QED BY <1>4, <2>1, InsertionsMap, ReplacementsMap, RevocationsMap DEF Statement
<1>5. CASE UNCHANGED devicesVars
  BY <1>1, <1>5 DEF devicesVars
<1>6. ASSUME NEW c \in Callers, DatabaseFails(c) PROVE Registry!RegistryNext
  BY <1>3, <1>6 DEF DatabaseFails, Pending
<1> QED BY <1>1, <1>2, <1>4, <1>5, <1>6 DEF DevicesNext, DeadlockDetected

\* For any sessions, users, endpoints and interleaving, the table answers as the
\* in-memory Store would under its mutex, or that it is unavailable.
THEOREM DevicesImplementRegistry == DevicesSpec => RegistrySpec
PROOF
<1>1. DevicesInit => Branched /\ Registry!RegistryInit
  <2> SUFFICES ASSUME DevicesInit PROVE Branched /\ Registry!RegistryInit
    OBVIOUS
  <2>1. Branched
    BY DEF DevicesInit, Branched, NoTx
  <2>2. Refusal("unavailable") = [op |-> "answer", code |-> "unavailable", id |-> None]
    BY DEF Refusal
  <2>3. InMemory(Refusal("unavailable")) = [op |-> "answer", code |-> "unavailable", id |-> None]
    BY <2>2 DEF InMemory
  <2>4. \A c \in Callers : InMemory(call[c]) = [op |-> "answer", code |-> "unavailable", id |-> None]
    BY <2>3 DEF DevicesInit
  <2>5. Registry!RegistryInit
    BY <2>4 DEF DevicesInit, Registry!RegistryInit
  <2> QED BY <2>1, <2>5
<1>2. DevicesInv /\ Branched /\ [DevicesNext]_devicesVars =>
        Branched' /\ [Registry!RegistryNext]_(Registry!registryVars)
  BY BranchStep, StepMaps
<1> QED BY <1>1, <1>2, DevicesInvariant, PTL DEF DevicesSpec, RegistrySpec, Registry!RegistrySpec
=============================================================================
