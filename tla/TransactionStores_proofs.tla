--------------------------- MODULE TransactionStores_proofs ---------------------------
(***************************************************************************)
(* Proofs about the transaction stores and the report, for every set of    *)
(* callers, keys and payments, every bound of the clock, every filter and  *)
(* limit.                                                                  *)
(***************************************************************************)
EXTENDS TransactionReport, FiniteSetTheorems, SequenceTheorems, TLAPS

-----------------------------------------------------------------------------
(* The inductive invariant. *)

(* A stamp is no later than the clock. *)
StampsArePast == \A c \in Callers : calls[c].at <= clock

(* A record is where its key and its payment say; it goes back to a Save.  *)
FiledRight ==
    /\ \A k \in Keys : Found(byIdempotency[k]) =>
          /\ byIdempotency[k].key = k
          /\ \E i \in DOMAIN log :
                /\ log[i].key = k
                /\ log[i].payment = byIdempotency[k].payment
                /\ log[i].at = byIdempotency[k].updated
    /\ \A p \in Payments : Found(byPaymentID[p]) =>
          /\ byPaymentID[p].payment = p
          /\ \E i \in DOMAIN log : log[i].key = byPaymentID[p].key /\ log[i].payment = p

(* A payment's record has the creation time of its key's record.           *)
SameCreated ==
    \A p \in Payments : Found(byPaymentID[p]) =>
        LET t == byIdempotency[byPaymentID[p].key] IN
        Found(t) /\ t.created = byPaymentID[p].created

(* A payment that a key's record names is in the other map.                *)
AllListed ==
    \A k \in Keys : Found(byIdempotency[k]) => Found(byPaymentID[byIdempotency[k].payment])

(* Unless a key moves to another payment, a payment's record is its key's. *)
MapsAgree ==
    KeysKeepPayment =>
        \A p \in Payments : Found(byPaymentID[p]) =>
            byIdempotency[byPaymentID[p].key] = byPaymentID[p]

(* With Saves in order the payment's record is the newest of its keys'.    *)
NewestIsFiled ==
    KeysKeepPayment =>
        \A p \in Payments : InOrder(p) =>
            /\ Found(byPaymentID[p]) => byIdempotency[byPaymentID[p].key] = byPaymentID[p]
            /\ \A k \in Keys : Found(byIdempotency[k]) /\ byIdempotency[k].payment = p =>
                  /\ Found(byPaymentID[p])
                  /\ k # byPaymentID[p].key => byIdempotency[k].updated < byPaymentID[p].updated

StoresInv == TypeOK /\ StampsArePast /\ SameByKey /\ FiledRight /\ SameCreated

-----------------------------------------------------------------------------
(* Facts about single operations. *)

(* The absence of a transaction is not one, nor is a caller without a Save *)
(* one with it.                                                            *)
LEMMA NoTxIsNoTx ==
    /\ NoTx \notin Tx
    /\ Idle \notin Call
    /\ Done \notin Call
BY NamesAssumption, SavedAssumption DEF Statuses, NoTx, Tx, Idle, Done, Call

(* What is stored is a record of the call. *)
LEMMA StoredFacts ==
    ASSUME NEW call \in Call, NEW existing \in Tx \cup {NoTx}, NEW now \in Times
    PROVE  LET t == Stored(call, existing, now) IN
           /\ t \in Tx
           /\ Found(t)
           /\ t.payment = call.payment
           /\ t.key = call.key
           /\ t.status = call.status
           /\ t.updated = call.at
           /\ t.created = IF Found(existing) THEN existing.created ELSE now
<1> DEFINE t == Stored(call, existing, now)
<1>1. /\ t.payment = call.payment
      /\ t.key = call.key
      /\ t.status = call.status
      /\ t.updated = call.at
      /\ t.created = IF Found(existing) THEN existing.created ELSE now
  BY DEF Stored
<1>2. Found(existing) => existing.created \in Times
  BY DEF Found, Tx
<1>3. (IF Found(existing) THEN existing.created ELSE now) \in Times
  BY <1>2
<1>4. t \in Tx
  BY <1>3 DEF Stored, Tx, Call
<1> QED BY <1>1, <1>4, NoTxIsNoTx DEF Found

(* Appending to the history. *)
LEMMA AppendFacts ==
    ASSUME NEW S, NEW s \in Seq(S), NEW e \in S
    PROVE  /\ Append(s, e) \in Seq(S)
           /\ \A i \in DOMAIN s : i \in DOMAIN Append(s, e) /\ Append(s, e)[i] = s[i]
           /\ Len(s) + 1 \in DOMAIN Append(s, e)
           /\ Append(s, e)[Len(s) + 1] = e
           /\ \A i \in DOMAIN s : i < Len(s) + 1
OBVIOUS

(* A Save that takes effect, field by field. *)
LEMMA SaveFacts ==
    ASSUME TypeOK, NEW c \in Callers, Save(c)
    PROVE  /\ calls[c] \in Call
           /\ calls[c].key \in Keys
           /\ calls[c].payment \in Payments
           /\ calls[c].at \in Times
           /\ InsertOrUpdate(calls[c]) \in Tx
           /\ MemoryTx(calls[c]) \in Tx
           /\ rows' = [rows EXCEPT ![calls[c].key] = InsertOrUpdate(calls[c])]
           /\ byIdempotency' = [byIdempotency EXCEPT ![calls[c].key] = MemoryTx(calls[c])]
           /\ byPaymentID' = [byPaymentID EXCEPT ![calls[c].payment] = MemoryTx(calls[c])]
           /\ SameContent(InsertOrUpdate(calls[c]), MemoryTx(calls[c]))
           /\ MemoryTx(calls[c]).payment = calls[c].payment
           /\ MemoryTx(calls[c]).key = calls[c].key
           /\ MemoryTx(calls[c]).updated = calls[c].at
           /\ Found(MemoryTx(calls[c])) /\ Found(InsertOrUpdate(calls[c]))
<1> DEFINE call == calls[c]
<1>1. call \in Call
  <2>1. call.status \in Saved
    BY DEF Save
  <2>2. "idle" \notin Saved /\ "done" \notin Saved
    BY SavedAssumption DEF Statuses
  <2>3. call \in Call \cup {Idle, Done}
    BY DEF TypeOK
  <2>4. Idle.status = "idle" /\ Done.status = "done"
    BY DEF Idle, Done
  <2> QED BY <2>1, <2>2, <2>3, <2>4
<1>2. call.key \in Keys /\ call.payment \in Payments /\ call.at \in Times
  BY <1>1 DEF Call
<1>3. rows[call.key] \in Tx \cup {NoTx} /\ byIdempotency[call.key] \in Tx \cup {NoTx} /\ clock \in Times
  BY <1>2 DEF TypeOK
<1> HIDE DEF call
<1>4. LET t == InsertOrUpdate(call) IN
      t \in Tx /\ Found(t) /\ t.payment = call.payment /\ t.key = call.key
      /\ t.status = call.status /\ t.updated = call.at
  BY <1>1, <1>3, StoredFacts DEF InsertOrUpdate
<1>5. LET t == MemoryTx(call) IN
      t \in Tx /\ Found(t) /\ t.payment = call.payment /\ t.key = call.key
      /\ t.status = call.status /\ t.updated = call.at
  <2>1. MemoryTx(call) = Stored(call, byIdempotency[call.key], call.at)
    BY DEF MemoryTx
  <2> DEFINE existing == byIdempotency[call.key]
             at == call.at
  <2>2. existing \in Tx \cup {NoTx} /\ at \in Times
    BY <1>2, <1>3
  <2> HIDE DEF existing, at
  <2>3. LET t == Stored(call, existing, at) IN
        t \in Tx /\ Found(t) /\ t.payment = call.payment /\ t.key = call.key
        /\ t.status = call.status /\ t.updated = call.at
    BY <1>1, <2>2, StoredFacts
  <2> QED BY <2>1, <2>3 DEF existing, at
<1>6. SameContent(InsertOrUpdate(call), MemoryTx(call))
  BY <1>4, <1>5 DEF SameContent
<1>7. /\ rows' = [rows EXCEPT ![call.key] = InsertOrUpdate(call)]
      /\ byIdempotency' = [byIdempotency EXCEPT ![call.key] = MemoryTx(call)]
      /\ byPaymentID' = [byPaymentID EXCEPT ![call.payment] = MemoryTx(call)]
  BY DEF Save, FiledByPayment, call
<1> QED BY <1>1, <1>2, <1>4, <1>5, <1>6, <1>7 DEF call

(* The created times a Save stores are those of the key's records.         *)
LEMMA SaveCreated ==
    ASSUME TypeOK, NEW c \in Callers, Save(c)
    PROVE  /\ InsertOrUpdate(calls[c]).created =
                 IF Found(rows[calls[c].key]) THEN rows[calls[c].key].created ELSE clock
           /\ MemoryTx(calls[c]).created =
                 IF Found(byIdempotency[calls[c].key]) THEN byIdempotency[calls[c].key].created
                 ELSE calls[c].at
BY DEF InsertOrUpdate, MemoryTx, Stored

-----------------------------------------------------------------------------
(* The invariant is established and kept. *)

(* A step writes no map and no history unless it is a Save.                *)
LEMMA StoresStep ==
    ASSUME [Next]_vars
    PROVE  \/ UNCHANGED <<rows, byIdempotency, byPaymentID, log>>
           \/ \E c \in Callers : Save(c)
BY DEF Next, vars, Tick, Stamp

(* The stores start empty.                                                 *)
LEMMA StoresInit == Init => StoresInv
<1> SUFFICES ASSUME Init PROVE StoresInv
  OBVIOUS
<1>1. 0 \in Times
  BY MaxTimeAssumption DEF Times
<1>2. TypeOK
  BY <1>1 DEF Init, TypeOK
<1>3. StampsArePast
  <2>1. Idle.at = 0
    BY DEF Idle
  <2>2. clock = 0 /\ \A c \in Callers : calls[c] = Idle
    BY DEF Init
  <2> QED BY <2>1, <2>2 DEF StampsArePast
<1>4. SameByKey
  <2>1. NoTx.created = 0
    BY DEF NoTx
  <2>2. \A k \in Keys : rows[k] = NoTx /\ byIdempotency[k] = NoTx
    BY DEF Init
  <2> QED BY <2>1, <2>2 DEF SameByKey, SameContent
<1>5. FiledRight /\ SameCreated
  BY DEF Init, FiledRight, SameCreated, Found
<1> QED BY <1>2, <1>3, <1>4, <1>5 DEF StoresInv

(* What the stores hold stays well typed.                                  *)
LEMMA TypeStep == TypeOK /\ [Next]_vars => TypeOK'
<1> SUFFICES ASSUME TypeOK, [Next]_vars PROVE TypeOK'
  OBVIOUS
<1>1. CASE UNCHANGED vars
  BY <1>1 DEF TypeOK, vars
<1>2. CASE Tick
  BY <1>2, MaxTimeAssumption DEF TypeOK, Tick, Times
<1>3. ASSUME NEW c \in Callers, Stamp(c) PROVE TypeOK'
  <2>1. PICK k \in Keys, p \in Payments, s \in Saved :
          calls' = [calls EXCEPT ![c] = [payment |-> p, key |-> k, status |-> s, at |-> clock]]
    BY <1>3 DEF Stamp
  <2>2. [payment |-> p, key |-> k, status |-> s, at |-> clock] \in Call
    BY DEF Call, TypeOK
  <2> QED BY <1>3, <2>1, <2>2 DEF Stamp, TypeOK
<1>4. ASSUME NEW c \in Callers, Save(c) PROVE TypeOK'
  <2>1. calls' \in [Callers -> Call \cup {Idle, Done}] /\ clock' = clock
    BY <1>4 DEF TypeOK, Save
  <2>2. /\ rows' \in [Keys -> Tx \cup {NoTx}]
        /\ byIdempotency' \in [Keys -> Tx \cup {NoTx}]
        /\ byPaymentID' \in [Payments -> Tx \cup {NoTx}]
    BY <1>4, SaveFacts DEF TypeOK
  <2>3. log' \in Seq(Call)
    BY <1>4, SaveFacts, AppendFacts DEF TypeOK, Save
  <2> QED BY <2>1, <2>2, <2>3 DEF TypeOK
<1> QED BY <1>1, <1>2, <1>3, <1>4 DEF Next

(* A created_at that is set is not of the future (transaction stamps of    *)
(* Save).                                                                  *)
LEMMA StampsStep == TypeOK /\ StampsArePast /\ [Next]_vars => StampsArePast'
<1> SUFFICES ASSUME TypeOK, StampsArePast, [Next]_vars, NEW c \in Callers
             PROVE  calls'[c].at <= clock'
  BY DEF StampsArePast
<1>1. calls[c].at \in Times /\ clock \in Nat /\ clock' \in Nat /\ clock <= clock'
  <2>1. clock \in Nat /\ clock' \in Nat
    BY TypeStep, MaxTimeAssumption DEF TypeOK, Times
  <2>2. clock <= clock'
    BY <2>1 DEF Next, vars, Tick, Stamp, Save
  <2>3. \A t \in Call : t.at \in Times
    BY DEF Call
  <2>4. Idle.at = 0 /\ Done.at = 0 /\ 0 \in Times
    BY MaxTimeAssumption DEF Idle, Done, Times
  <2> QED BY <2>1, <2>2, <2>3, <2>4 DEF TypeOK
<1>2. \/ calls'[c] = calls[c]
      \/ calls'[c].at = clock
      \/ calls'[c] = Done
  BY DEF TypeOK, Next, vars, Tick, Stamp, Save
<1>3. CASE calls'[c] = calls[c]
  BY <1>1, <1>3 DEF StampsArePast, Times
<1>4. CASE calls'[c].at = clock
  BY <1>1, <1>4
<1>5. CASE calls'[c] = Done
  <2>1. Done.at = 0
    BY DEF Done
  <2> QED BY <1>1, <1>5, <2>1
<1> QED BY <1>2, <1>3, <1>4, <1>5

(* Both stores keep the same record of a key. *)
LEMMA SameByKeyStep == StoresInv /\ [Next]_vars => SameByKey'
<1> SUFFICES ASSUME StoresInv, [Next]_vars, NEW k \in Keys
             PROVE  /\ Found(rows'[k]) <=> Found(byIdempotency'[k])
                    /\ SameContent(rows'[k], byIdempotency'[k])
                    /\ byIdempotency'[k].created <= rows'[k].created
  BY DEF SameByKey, SameContent, Found
<1>0. /\ Found(rows[k]) <=> Found(byIdempotency[k])
      /\ SameContent(rows[k], byIdempotency[k])
      /\ byIdempotency[k].created <= rows[k].created
  BY DEF StoresInv, SameByKey
<1>1. CASE UNCHANGED <<rows, byIdempotency, byPaymentID, log>>
  BY <1>0, <1>1
<1>2. ASSUME NEW c \in Callers, Save(c), calls[c].key = k
      PROVE  /\ Found(rows'[k]) <=> Found(byIdempotency'[k])
             /\ SameContent(rows'[k], byIdempotency'[k])
             /\ byIdempotency'[k].created <= rows'[k].created
  <2>1. rows'[k] = InsertOrUpdate(calls[c]) /\ byIdempotency'[k] = MemoryTx(calls[c])
    BY <1>2, SaveFacts DEF StoresInv, TypeOK
  <2>2. byIdempotency'[k].created <= rows'[k].created
    <3>1. calls[c].at <= clock
      BY <1>2 DEF StoresInv, StampsArePast
    <3> QED BY <1>0, <1>2, <2>1, <3>1, SaveCreated DEF StoresInv
  <2> QED BY <1>2, <2>1, <2>2, SaveFacts DEF StoresInv
<1>3. ASSUME NEW c \in Callers, Save(c), calls[c].key # k
      PROVE  rows'[k] = rows[k] /\ byIdempotency'[k] = byIdempotency[k]
  BY <1>3, SaveFacts DEF StoresInv, TypeOK
<1> QED BY <1>0, <1>1, <1>2, <1>3, StoresStep

(* Records stay where they belong. *)
LEMMA FiledRightStep == StoresInv /\ [Next]_vars => FiledRight'
<1> SUFFICES ASSUME StoresInv, [Next]_vars PROVE FiledRight'
  OBVIOUS
<1>1. CASE UNCHANGED <<rows, byIdempotency, byPaymentID, log>>
  BY <1>1 DEF StoresInv, FiledRight, Found
<1>2. ASSUME NEW c \in Callers, Save(c) PROVE FiledRight'
  <2> DEFINE call == calls[c]
             new == MemoryTx(call)
  <2>1. /\ \A i \in DOMAIN log : i \in DOMAIN log' /\ log'[i] = log[i]
        /\ \E i \in DOMAIN log' : log'[i] = call
    BY <1>2, SaveFacts, AppendFacts DEF Save, StoresInv, TypeOK
  <2>2. /\ call.key \in Keys /\ call.payment \in Payments
        /\ new.payment = call.payment /\ new.key = call.key /\ new.updated = call.at
        /\ byIdempotency' = [byIdempotency EXCEPT ![call.key] = new]
        /\ byPaymentID' = [byPaymentID EXCEPT ![call.payment] = new]
    BY <1>2, SaveFacts DEF StoresInv
  <2>3. byIdempotency \in [Keys -> Tx \cup {NoTx}] /\ byPaymentID \in [Payments -> Tx \cup {NoTx}]
    BY DEF StoresInv, TypeOK
  <2> HIDE DEF call, new
  <2>4. ASSUME NEW k \in Keys, Found(byIdempotency'[k])
        PROVE  /\ byIdempotency'[k].key = k
               /\ \E i \in DOMAIN log' :
                     /\ log'[i].key = k
                     /\ log'[i].payment = byIdempotency'[k].payment
                     /\ log'[i].at = byIdempotency'[k].updated
    <3>1. CASE k = call.key
      BY <2>1, <2>2, <2>3, <3>1
    <3>2. CASE k # call.key
      <4>1. byIdempotency'[k] = byIdempotency[k]
        BY <2>2, <2>3, <3>2
      <4> QED BY <2>1, <2>4, <4>1 DEF StoresInv, FiledRight
    <3> QED BY <3>1, <3>2
  <2>5. ASSUME NEW p \in Payments, Found(byPaymentID'[p])
        PROVE  /\ byPaymentID'[p].payment = p
               /\ \E i \in DOMAIN log' :
                     log'[i].key = byPaymentID'[p].key /\ log'[i].payment = p
    <3>1. CASE p = call.payment
      BY <2>1, <2>2, <2>3, <3>1
    <3>2. CASE p # call.payment
      <4>1. byPaymentID'[p] = byPaymentID[p]
        BY <2>2, <2>3, <3>2
      <4> QED BY <2>1, <2>5, <4>1 DEF StoresInv, FiledRight
    <3> QED BY <3>1, <3>2
  <2> QED BY <2>4, <2>5 DEF FiledRight, Found
<1> QED BY <1>1, <1>2, StoresStep

(* The two maps of the in-memory store keep the same created_at.           *)
LEMMA SameCreatedStep == StoresInv /\ [Next]_vars => SameCreated'
<1> SUFFICES ASSUME StoresInv, [Next]_vars, NEW p \in Payments, Found(byPaymentID'[p])
             PROVE  LET t == byIdempotency'[byPaymentID'[p].key] IN
                    Found(t) /\ t.created = byPaymentID'[p].created
  BY DEF SameCreated, Found
<1>1. CASE UNCHANGED <<rows, byIdempotency, byPaymentID, log>>
  BY <1>1 DEF StoresInv, SameCreated
<1>2. ASSUME NEW c \in Callers, Save(c)
      PROVE  LET t == byIdempotency'[byPaymentID'[p].key] IN
             Found(t) /\ t.created = byPaymentID'[p].created
  <2> DEFINE call == calls[c]
             new == MemoryTx(call)
  <2>1. /\ call.key \in Keys /\ call.payment \in Payments
        /\ new.key = call.key /\ Found(new)
        /\ byIdempotency' = [byIdempotency EXCEPT ![call.key] = new]
        /\ byPaymentID' = [byPaymentID EXCEPT ![call.payment] = new]
    BY <1>2, SaveFacts DEF StoresInv
  <2>2. byIdempotency \in [Keys -> Tx \cup {NoTx}] /\ byPaymentID \in [Payments -> Tx \cup {NoTx}]
    BY DEF StoresInv, TypeOK
  <2>3. Found(byIdempotency[call.key]) => new.created = byIdempotency[call.key].created
    BY <1>2, SaveCreated DEF StoresInv
  <2> HIDE DEF call, new
  <2>4. CASE p = call.payment
    <3>1. byPaymentID'[p] = new /\ byIdempotency'[new.key] = new
      BY <2>1, <2>2, <2>4
    <3> QED BY <2>1, <3>1
  <2>5. CASE p # call.payment
    <3>1. byPaymentID'[p] = byPaymentID[p]
      BY <2>1, <2>2, <2>5
    <3>2. LET t == byIdempotency[byPaymentID[p].key] IN
          Found(t) /\ t.created = byPaymentID[p].created
      BY <3>1 DEF StoresInv, SameCreated
    <3>3. CASE byPaymentID[p].key = call.key
      <4>1. byIdempotency'[call.key] = new
        BY <2>1, <2>2
      <4> QED BY <2>1, <2>3, <3>1, <3>2, <3>3, <4>1
    <3>4. CASE byPaymentID[p].key # call.key
      <4>1. byIdempotency'[byPaymentID[p].key] = byIdempotency[byPaymentID[p].key]
        BY <2>1, <2>2, <3>4
      <4> QED BY <3>1, <3>2, <4>1
    <3> QED BY <3>3, <3>4
  <2> QED BY <2>4, <2>5
<1> QED BY <1>1, <1>2, StoresStep

(* The invariant of the stores is inductive.                               *)
LEMMA StoresInvStep == StoresInv /\ [Next]_vars => StoresInv'
BY TypeStep, StampsStep, SameByKeyStep, FiledRightStep, SameCreatedStep DEF StoresInv

(* So it holds in every state.                                             *)
LEMMA StoresInvariant == Spec => []StoresInv
BY StoresInit, StoresInvStep, PTL DEF Spec

(* The stores hold transactions, at the times of the clock.                *)
THEOREM StoresTypeCorrect == Spec => []TypeOK
BY StoresInvariant, PTL DEF StoresInv

(* Whatever the order in which Saves of a key arrive, both stores answer   *)
(* its GetByIdempotencyKey alike.                                          *)
THEOREM KeysAgree == Spec => []SameByKey
BY StoresInvariant, PTL DEF StoresInv

-----------------------------------------------------------------------------
(* Conditions on the history hold of its beginnings.                       *)

(* What is so of the history after a Save was so before it.                *)
LEMMA HistoryGrows ==
    ASSUME TypeOK, NEW c \in Callers, Save(c)
    PROVE  LET call == calls[c] IN
           /\ KeysKeepPayment' =>
                 /\ KeysKeepPayment
                 /\ \A i \in DOMAIN log :
                       log[i].key = call.key => log[i].payment = call.payment
           /\ \A p \in Payments : InOrder(p)' =>
                 /\ InOrder(p)
                 /\ p = call.payment =>
                       \A i \in DOMAIN log : log[i].payment = p => log[i].at < call.at
<1> DEFINE call == calls[c]
           n == Len(log) + 1
<1>1. /\ \A i \in DOMAIN log : i \in DOMAIN log' /\ log'[i] = log[i] /\ i < n
      /\ n \in DOMAIN log' /\ log'[n] = call
  BY SaveFacts, AppendFacts DEF Save, TypeOK
<1> HIDE DEF call, n
<1>2. KeysKeepPayment' =>
         /\ KeysKeepPayment
         /\ \A i \in DOMAIN log : log[i].key = call.key => log[i].payment = call.payment
  BY <1>1 DEF KeysKeepPayment
<1>3. ASSUME NEW p \in Payments, InOrder(p)'
      PROVE  /\ InOrder(p)
             /\ p = call.payment =>
                   \A i \in DOMAIN log : log[i].payment = p => log[i].at < call.at
  BY <1>1, <1>3 DEF InOrder
<1> QED BY <1>2, <1>3 DEF call

(* Every payment is listed whose key has a record.                         *)
LEMMA AllListedStep == StoresInv /\ AllListed /\ [Next]_vars => AllListed'
<1> SUFFICES ASSUME StoresInv, AllListed, [Next]_vars, NEW k \in Keys, Found(byIdempotency'[k])
             PROVE  Found(byPaymentID'[byIdempotency'[k].payment])
  BY DEF AllListed, Found
<1>1. CASE UNCHANGED <<rows, byIdempotency, byPaymentID, log>>
  BY <1>1 DEF AllListed
<1>2. ASSUME NEW c \in Callers, Save(c)
      PROVE  Found(byPaymentID'[byIdempotency'[k].payment])
  <2> DEFINE call == calls[c]
             new == MemoryTx(call)
  <2>1. /\ call.key \in Keys /\ call.payment \in Payments
        /\ new.payment = call.payment /\ Found(new)
        /\ byIdempotency' = [byIdempotency EXCEPT ![call.key] = new]
        /\ byPaymentID' = [byPaymentID EXCEPT ![call.payment] = new]
    BY <1>2, SaveFacts DEF StoresInv
  <2>2. byIdempotency \in [Keys -> Tx \cup {NoTx}] /\ byPaymentID \in [Payments -> Tx \cup {NoTx}]
    BY DEF StoresInv, TypeOK
  <2> HIDE DEF call, new
  <2>3. \A p \in Payments : Found(byPaymentID[p]) => Found(byPaymentID'[p])
    BY <2>1, <2>2
  <2>4. CASE k = call.key
    <3>1. byIdempotency'[k] = new /\ byPaymentID'[call.payment] = new
      BY <2>1, <2>2, <2>4
    <3> QED BY <2>1, <3>1
  <2>5. CASE k # call.key
    <3>1. byIdempotency'[k] = byIdempotency[k]
      BY <2>1, <2>2, <2>5
    <3>2. byIdempotency[k].payment \in Payments /\ Found(byIdempotency[k])
      BY <2>2, <3>1 DEF Found, Tx
    <3> QED BY <2>3, <3>1, <3>2 DEF AllListed
  <2> QED BY <2>4, <2>5
<1> QED BY <1>1, <1>2, StoresStep

(* The in-memory maps agree where a key keeps its payment.                 *)
LEMMA MapsAgreeStep == StoresInv /\ MapsAgree /\ [Next]_vars => MapsAgree'
<1> SUFFICES ASSUME StoresInv, MapsAgree, [Next]_vars, KeysKeepPayment',
                    NEW p \in Payments, Found(byPaymentID'[p])
             PROVE  byIdempotency'[byPaymentID'[p].key] = byPaymentID'[p]
  BY DEF MapsAgree, Found
<1>1. CASE UNCHANGED <<rows, byIdempotency, byPaymentID, log>>
  BY <1>1 DEF MapsAgree, KeysKeepPayment
<1>2. ASSUME NEW c \in Callers, Save(c)
      PROVE  byIdempotency'[byPaymentID'[p].key] = byPaymentID'[p]
  <2> DEFINE call == calls[c]
             new == MemoryTx(call)
  <2>1. /\ call.key \in Keys /\ call.payment \in Payments
        /\ new.key = call.key /\ new.payment = call.payment /\ Found(new)
        /\ byIdempotency' = [byIdempotency EXCEPT ![call.key] = new]
        /\ byPaymentID' = [byPaymentID EXCEPT ![call.payment] = new]
    BY <1>2, SaveFacts DEF StoresInv
  <2>2. byIdempotency \in [Keys -> Tx \cup {NoTx}] /\ byPaymentID \in [Payments -> Tx \cup {NoTx}]
    BY DEF StoresInv, TypeOK
  <2>3. /\ KeysKeepPayment
        /\ \A i \in DOMAIN log : log[i].key = call.key => log[i].payment = call.payment
    BY <1>2, HistoryGrows DEF StoresInv
  <2> HIDE DEF call, new
  <2>4. CASE p = call.payment
    <3>1. byPaymentID'[p] = new /\ byIdempotency'[call.key] = new
      BY <2>1, <2>2, <2>4
    <3> QED BY <2>1, <3>1
  <2>5. CASE p # call.payment
    <3>1. byPaymentID'[p] = byPaymentID[p]
      BY <2>1, <2>2, <2>5
    <3>2. byPaymentID[p].key # call.key
      BY <2>3, <2>5, <3>1 DEF StoresInv, FiledRight
    <3>3. byIdempotency'[byPaymentID[p].key] = byIdempotency[byPaymentID[p].key]
      BY <2>1, <2>2, <3>2
    <3> QED BY <2>3, <3>1, <3>3 DEF MapsAgree
  <2> QED BY <2>4, <2>5
<1> QED BY <1>1, <1>2, StoresStep

(* Empty maps agree.                                                       *)
LEMMA MapsAgreeInit == Init => AllListed /\ MapsAgree
BY DEF Init, AllListed, MapsAgree, Found

(* Maps and rows that agree make the reports agree.                        *)
LEMMA RecordsFollow == StoresInv /\ AllListed /\ MapsAgree => RecordsAgree
<1> SUFFICES ASSUME StoresInv, AllListed, MapsAgree PROVE RecordsAgree
  OBVIOUS
<1>1. \A k \in Keys : Found(rows[k]) => Found(byPaymentID[rows[k].payment])
  BY DEF StoresInv, AllListed, SameByKey, SameContent
<1>2. ASSUME KeysKeepPayment, NEW p \in Payments, Found(byPaymentID[p])
      PROVE  LET t == rows[byPaymentID[p].key] IN Found(t) /\ SameContent(t, byPaymentID[p])
  <2>1. byPaymentID[p].key \in Keys
    BY <1>2 DEF StoresInv, TypeOK, Tx, Found
  <2>2. byIdempotency[byPaymentID[p].key] = byPaymentID[p]
    BY <1>2 DEF MapsAgree
  <2> QED BY <1>2, <2>1, <2>2 DEF StoresInv, SameByKey
<1> QED BY <1>1, <1>2 DEF RecordsAgree

(* The in-memory report lists every payment Postgres lists, and as long as *)
(* no key serves two payments by one of its rows, also of a payment tried  *)
(* under several keys.                                                     *)
THEOREM ReportsAgree == Spec => []RecordsAgree
<1>1. Spec => [](AllListed /\ MapsAgree)
  BY StoresInvariant, MapsAgreeInit, AllListedStep, MapsAgreeStep, PTL DEF Spec
<1> QED BY <1>1, StoresInvariant, RecordsFollow, PTL

(* A later Save keeps the place of a transaction in the reports.           *)
THEOREM PlacesAreKept == Spec => OrderIsKept
<1> DEFINE A == /\ \A k \in Keys : Found(rows[k]) => rows'[k].created = rows[k].created
                /\ \A p \in Payments :
                      Found(byPaymentID[p]) /\ byPaymentID'[p].key = byPaymentID[p].key
                        => byPaymentID'[p].created = byPaymentID[p].created
<1>1. StoresInv /\ [Next]_vars => A
  <2> SUFFICES ASSUME StoresInv, [Next]_vars PROVE A
    OBVIOUS
  <2>1. CASE UNCHANGED <<rows, byIdempotency, byPaymentID, log>>
    BY <2>1
  <2>2. ASSUME NEW c \in Callers, Save(c) PROVE A
    <3> DEFINE call == calls[c]
               new == MemoryTx(call)
               row == InsertOrUpdate(call)
    <3>1. /\ call.key \in Keys /\ call.payment \in Payments /\ new.key = call.key
          /\ rows' = [rows EXCEPT ![call.key] = row]
          /\ byPaymentID' = [byPaymentID EXCEPT ![call.payment] = new]
      BY <2>2, SaveFacts DEF StoresInv
    <3>2. /\ Found(rows[call.key]) => row.created = rows[call.key].created
          /\ Found(byIdempotency[call.key]) => new.created = byIdempotency[call.key].created
      BY <2>2, SaveCreated DEF StoresInv
    <3>3. rows \in [Keys -> Tx \cup {NoTx}] /\ byPaymentID \in [Payments -> Tx \cup {NoTx}]
      BY DEF StoresInv, TypeOK
    <3> HIDE DEF call, new, row
    <3>4. \A k \in Keys : Found(rows[k]) => rows'[k].created = rows[k].created
      BY <3>1, <3>2, <3>3
    <3>5. ASSUME NEW p \in Payments, Found(byPaymentID[p]), byPaymentID'[p].key = byPaymentID[p].key
          PROVE  byPaymentID'[p].created = byPaymentID[p].created
      <4>1. CASE p = call.payment
        <5>1. byPaymentID'[p] = new
          BY <3>1, <3>3, <4>1
        <5> QED BY <3>1, <3>2, <3>5, <5>1 DEF StoresInv, SameCreated
      <4>2. CASE p # call.payment
        BY <3>1, <3>3, <4>2
      <4> QED BY <4>1, <4>2
    <3> QED BY <3>4, <3>5
  <2> QED BY <2>1, <2>2, StoresStep
<1>2. StoresInv /\ [Next]_vars => [A]_vars
  BY <1>1
<1> QED BY <1>2, StoresInvariant, PTL DEF Spec, OrderIsKept

-----------------------------------------------------------------------------
(* The status of a payment. *)

(* At first nothing is filed.                                              *)
LEMMA NewestInit == Init => NewestIsFiled
BY DEF Init, NewestIsFiled, Found

(* A Save files the newest transaction of its payment in both stores       *)
(* (postgres_store.go, inmemory_store.go).                                 *)
LEMMA NewestStep == StoresInv /\ NewestIsFiled /\ [Next]_vars => NewestIsFiled'
<1> SUFFICES ASSUME StoresInv, NewestIsFiled, [Next]_vars PROVE NewestIsFiled'
  OBVIOUS
<1>1. CASE UNCHANGED <<rows, byIdempotency, byPaymentID, log>>
  BY <1>1 DEF NewestIsFiled, KeysKeepPayment, InOrder, Found
<1>2. ASSUME NEW c \in Callers, Save(c) PROVE NewestIsFiled'
  <2> SUFFICES ASSUME KeysKeepPayment', NEW p \in Payments, InOrder(p)'
               PROVE  /\ Found(byPaymentID'[p]) =>
                            byIdempotency'[byPaymentID'[p].key] = byPaymentID'[p]
                      /\ \A k \in Keys : Found(byIdempotency'[k]) /\ byIdempotency'[k].payment = p =>
                            /\ Found(byPaymentID'[p])
                            /\ k # byPaymentID'[p].key =>
                                  byIdempotency'[k].updated < byPaymentID'[p].updated
    BY DEF NewestIsFiled, Found
  <2> DEFINE call == calls[c]
             new == MemoryTx(call)
  <2>1. /\ call.key \in Keys /\ call.payment \in Payments
        /\ new.key = call.key /\ new.payment = call.payment /\ new.updated = call.at /\ Found(new)
        /\ byIdempotency' = [byIdempotency EXCEPT ![call.key] = new]
        /\ byPaymentID' = [byPaymentID EXCEPT ![call.payment] = new]
    BY <1>2, SaveFacts DEF StoresInv
  <2>2. byIdempotency \in [Keys -> Tx \cup {NoTx}] /\ byPaymentID \in [Payments -> Tx \cup {NoTx}]
    BY DEF StoresInv, TypeOK
  <2>3. /\ KeysKeepPayment /\ InOrder(p)
        /\ \A i \in DOMAIN log : log[i].key = call.key => log[i].payment = call.payment
        /\ p = call.payment => \A i \in DOMAIN log : log[i].payment = p => log[i].at < call.at
    BY <1>2, HistoryGrows DEF StoresInv
  <2> HIDE DEF call, new
  <2>4. CASE p = call.payment
    <3>1. byPaymentID'[p] = new /\ byIdempotency'[call.key] = new
      BY <2>1, <2>2, <2>4
    <3>2. ASSUME NEW k \in Keys, Found(byIdempotency'[k]), byIdempotency'[k].payment = p, k # call.key
          PROVE  byIdempotency'[k].updated < call.at
      <4>1. byIdempotency'[k] = byIdempotency[k]
        BY <2>1, <2>2, <3>2
      <4> QED BY <2>3, <2>4, <3>2, <4>1 DEF StoresInv, FiledRight
    <3> QED BY <2>1, <3>1, <3>2
  <2>5. CASE p # call.payment
    <3>1. byPaymentID'[p] = byPaymentID[p]
      BY <2>1, <2>2, <2>5
    <3>2. Found(byPaymentID[p]) => byIdempotency'[byPaymentID[p].key] = byPaymentID[p]
      <4> SUFFICES ASSUME Found(byPaymentID[p])
                   PROVE  byIdempotency'[byPaymentID[p].key] = byPaymentID[p]
        OBVIOUS
      <4>1. byPaymentID[p].key # call.key
        BY <2>3, <2>5 DEF StoresInv, FiledRight
      <4>2. byIdempotency'[byPaymentID[p].key] = byIdempotency[byPaymentID[p].key]
        BY <2>1, <2>2, <4>1
      <4> QED BY <2>3, <4>2 DEF NewestIsFiled
    <3>3. ASSUME NEW k \in Keys, Found(byIdempotency'[k]), byIdempotency'[k].payment = p
          PROVE  /\ Found(byPaymentID[p])
                 /\ k # byPaymentID[p].key => byIdempotency'[k].updated < byPaymentID[p].updated
      <4>1. k # call.key
        BY <2>1, <2>2, <2>5, <3>3
      <4>2. byIdempotency'[k] = byIdempotency[k]
        BY <2>1, <2>2, <4>1
      <4> QED BY <2>3, <3>3, <4>2 DEF NewestIsFiled
    <3> QED BY <3>1, <3>2, <3>3
  <2> QED BY <2>4, <2>5
<1> QED BY <1>1, <1>2, StoresStep

(* So both stores find the same transaction of a payment.                  *)
LEMMA LatestFollows == StoresInv /\ NewestIsFiled => LatestAgrees
<1> SUFFICES ASSUME StoresInv, NewestIsFiled, KeysKeepPayment, NEW p \in Payments, InOrder(p)
             PROVE  /\ PostgresByPaymentID(p) = {} <=> MemoryByPaymentID(p) = {}
                    /\ \A t \in PostgresByPaymentID(p), u \in MemoryByPaymentID(p) : SameContent(t, u)
  BY DEF LatestAgrees
<1> DEFINE u == byPaymentID[p]
<1>1. ASSUME NEW t \in RowsOf(p)
      PROVE  \E k \in Keys : /\ t = rows[k]
                             /\ Found(byIdempotency[k])
                             /\ byIdempotency[k].payment = p
                             /\ SameContent(t, byIdempotency[k])
  BY DEF RowsOf, StoresInv, SameByKey, SameContent
<1>2. CASE ~Found(u)
  <2>1. RowsOf(p) = {}
    BY <1>1, <1>2 DEF NewestIsFiled
  <2>2. PostgresByPaymentID(p) = {}
    BY <2>1 DEF PostgresByPaymentID, Latest
  <2>3. MemoryByPaymentID(p) = {}
    BY <1>2 DEF MemoryByPaymentID, Found
  <2> QED BY <2>2, <2>3
<1>3. CASE Found(u)
  <2>1. MemoryByPaymentID(p) = {u}
    BY <1>3 DEF MemoryByPaymentID, Found
  <2>2. u \in Tx /\ u.key \in Keys /\ u.payment = p /\ u.updated \in Nat
    BY <1>3 DEF StoresInv, TypeOK, FiledRight, Found, Tx, Times
  <2>3. byIdempotency[u.key] = u
    BY <1>3 DEF NewestIsFiled
  <2> DEFINE t0 == rows[u.key]
  <2>4. SameContent(t0, u) /\ Found(t0)
    BY <1>3, <2>2, <2>3 DEF StoresInv, SameByKey
  <2>5. t0 \in RowsOf(p)
    BY <2>2, <2>4 DEF RowsOf, SameContent
  <2>6. \A t \in RowsOf(p) : t = t0 \/ t.updated < u.updated
    BY <1>1 DEF NewestIsFiled, SameContent
  <2> HIDE DEF u, t0
  <2>7. t0.updated = u.updated
    BY <2>4 DEF SameContent
  <2>8. \A t \in RowsOf(p) : t.updated \in Nat
    <3>1. \A k \in Keys : Found(rows[k]) => rows[k].updated \in Nat
      BY DEF StoresInv, TypeOK, Found, Tx, Times
    <3> QED BY <3>1 DEF RowsOf
  <2>9. Latest(RowsOf(p)) = {t0}
    BY <2>2, <2>5, <2>6, <2>7, <2>8 DEF Latest
  <2> QED BY <2>1, <2>4, <2>9 DEF PostgresByPaymentID
<1> QED BY <1>2, <1>3

(* With a payment's Saves in the order of their stamps, its status is the  *)
(* same on both stores, whatever the number of keys it was tried under.    *)
THEOREM StatusAgrees == Spec => []LatestAgrees
<1>1. Spec => []NewestIsFiled
  BY StoresInvariant, NewestInit, NewestStep, PTL DEF Spec
<1> QED BY <1>1, StoresInvariant, LatestFollows, PTL

-----------------------------------------------------------------------------
(* The in-memory report. Its sort is two loops, defined by recursion: what *)
(* each has done after a round is shown from what it had done before.      *)

(* What holds of a, and of every number after one it holds of, holds up to *)
(* b: of the numbers it does not hold of none is the least.                *)
LEMMA FromTo ==
    ASSUME NEW a \in Nat, NEW b \in Nat, NEW S, a \in S,
           \A i \in (a + 1)..b : i - 1 \in S => i \in S
    PROVE  a..b \subseteq S
<1>. DEFINE Less == OpToRel(<, Nat)
            Bad == (a..b) \ S
<1>1. \A x, y \in Nat : x < y => <<x, y>> \in Less
  BY DEF OpToRel
<1>2. SUFFICES ASSUME Bad # {} PROVE FALSE
  OBVIOUS
<1>3. PICK x \in Bad : \A y \in Bad : ~(<<y, x>> \in Less)
  <2>1. IsWellFoundedOn(Less, Nat)
    BY NatLessThanWellFounded
  <2>2. Bad \subseteq Nat
    OBVIOUS
  <2>. HIDE DEF Bad, Less
  <2>. QED  BY <2>1, <2>2, <1>2, WFMin
<1>. HIDE DEF Less
<1>4. x \in (a + 1)..b /\ x \in Nat /\ x - 1 \in Nat /\ x - 1 \in a..b /\ x - 1 < x
  OBVIOUS
<1>5. x - 1 \notin Bad
  <2>1. <<x - 1, x>> \in Less
    BY <1>1, <1>4
  <2>. QED  BY <1>3, <2>1
<1>. QED  BY <1>4, <1>5

(* The records of S in some order, each once.                              *)
Orders(n, S) ==
    {s \in [1..n -> S] : /\ \A i, j \in 1..n : s[i] = s[j] => i = j
                         /\ \A r \in S : \E i \in 1..n : s[i] = r}

(* In the first m places stand the newest, newest first.                   *)
Headed(s, n, m) == \A i \in 1..m, k \in 1..n : i < k => s[k].created <= s[i].created

(* And in the next none that is older than one up to j.                    *)
NewestOf(s, i, j) == \A k \in (i + 1)..j : s[k].created <= s[i].created

(* A comparison swaps two records or none.                                 *)
LEMMA ExchangeFacts ==
    ASSUME NEW n \in Nat, NEW S, \A r \in S : r.created \in Int, NEW s \in Orders(n, S),
           NEW i \in 1..n, NEW j \in 1..n, i # j, NEW t, t = Exchange(s, i, j)
    PROVE  /\ t \in Orders(n, S)
           /\ \A k \in 1..n : k \notin {i, j} => t[k] = s[k]
           /\ \/ t[i] = s[i] /\ t[j] = s[j]
              \/ t[i] = s[j] /\ t[j] = s[i]
           /\ s[i].created <= t[i].created /\ t[j].created <= t[i].created
<1>1. s \in [1..n -> S] /\ s[i] \in S /\ s[j] \in S
  BY DEF Orders
<1>2. s[i].created \in Int /\ s[j].created \in Int
  BY <1>1
<1>3. CASE s[j].created > s[i].created
  <2>1. t = [s EXCEPT ![i] = s[j], ![j] = s[i]]
    BY <1>3 DEF Exchange
  <2>2. /\ t \in [1..n -> S] /\ t[i] = s[j] /\ t[j] = s[i]
        /\ \A k \in 1..n : k \notin {i, j} => t[k] = s[k]
    BY <1>1, <2>1
  <2>3. ASSUME NEW k \in 1..n, NEW l \in 1..n, t[k] = t[l] PROVE k = l
    BY <2>2, <2>3 DEF Orders
  <2>4. ASSUME NEW r \in S PROVE \E k \in 1..n : t[k] = r
    <3>1. PICK k \in 1..n : s[k] = r
      BY DEF Orders
    <3>. QED  BY <2>2, <3>1
  <2>5. t \in Orders(n, S)
    BY <2>2, <2>3, <2>4 DEF Orders
  <2>. QED  BY <1>2, <1>3, <2>2, <2>5
<1>4. CASE ~(s[j].created > s[i].created)
  <2>1. t = s
    BY <1>4 DEF Exchange
  <2>. QED  BY <1>2, <1>4, <2>1
<1>. QED  BY <1>3, <1>4

(* One comparison of the inner loop (reporting.go sortReportRecords).      *)
LEMMA ExchangeStep ==
    ASSUME NEW n \in Nat, NEW S, \A r \in S : r.created \in Int, NEW s \in Orders(n, S),
           NEW i \in 1..n, NEW j \in 1..n, i < j,
           Headed(s, n, i - 1), NewestOf(s, i, j - 1), NEW t, t = Exchange(s, i, j)
    PROVE  t \in Orders(n, S) /\ Headed(t, n, i - 1) /\ NewestOf(t, i, j)
<1>1. /\ t \in Orders(n, S)
      /\ \A k \in 1..n : k \notin {i, j} => t[k] = s[k]
      /\ \/ t[i] = s[i] /\ t[j] = s[j]
         \/ t[i] = s[j] /\ t[j] = s[i]
      /\ s[i].created <= t[i].created /\ t[j].created <= t[i].created
  BY ExchangeFacts
<1>2. \A k \in 1..n : s[k].created \in Int /\ t[k].created \in Int
  BY <1>1 DEF Orders
<1>3. ASSUME NEW l \in 1..(i - 1), NEW k \in 1..n, l < k
      PROVE  t[k].created <= t[l].created
  <2>1. l \in 1..n /\ l \notin {i, j} /\ l < i /\ l < j
    OBVIOUS
  <2>2. t[l] = s[l]
    BY <1>1, <2>1
  <2>3. \A m \in 1..n : l < m => s[m].created <= s[l].created
    BY DEF Headed
  <2>4. t[k] \in {s[k], s[i], s[j]}
    BY <1>1
  <2>. QED  BY <1>3, <2>1, <2>2, <2>3, <2>4
<1>4. ASSUME NEW k \in (i + 1)..j PROVE t[k].created <= t[i].created
  <2>1. CASE k = j
    BY <1>1, <2>1
  <2>2. CASE k # j
    <3>1. k \in (i + 1)..(j - 1) /\ k \in 1..n /\ k \notin {i, j}
      BY <2>2
    <3>2. s[k].created <= s[i].created /\ t[k] = s[k]
      BY <1>1, <3>1 DEF NewestOf
    <3>. QED  BY <1>1, <1>2, <3>1, <3>2
  <2>. QED  BY <2>1, <2>2
<1>. QED  BY <1>1, <1>3, <1>4 DEF Headed, NewestOf

(* What sortReportRecords has after it compared position i up to j.        *)
Inner(s, i, n, f) == f = [j \in i..n |-> IF j = i THEN s ELSE Exchange(f[j - 1], i, j)]

(* The inner loop is defined on its whole interval.                        *)
LEMMA InnerIsThere ==
    ASSUME NEW s, NEW i \in Nat, NEW n \in Nat, i <= n
    PROVE  \E f : Inner(s, i, n, f)
<1>. DEFINE S == {m \in i..n : \E f : Inner(s, i, m, f)}
<1>1. i \in S
  <2>1. Inner(s, i, i, [j \in i..i |-> s])
    BY DEF Inner
  <2>. QED  BY <2>1
<1>2. ASSUME NEW m \in (i + 1)..n, m - 1 \in S PROVE m \in S
  <2>1. PICK f : Inner(s, i, m - 1, f)
    BY <1>2
  <2>. DEFINE g == [j \in i..m |-> IF j = m THEN Exchange(f[m - 1], i, m) ELSE f[j]]
  <2>2. \A j \in i..(m - 1) : f[j] = IF j = i THEN s ELSE Exchange(f[j - 1], i, j)
    BY <2>1 DEF Inner
  <2>3. \A j \in i..m : g[j] = IF j = i THEN s ELSE Exchange(g[j - 1], i, j)
    <3>. SUFFICES ASSUME NEW j \in i..m
                  PROVE  g[j] = IF j = i THEN s ELSE Exchange(g[j - 1], i, j)
      OBVIOUS
    <3>1. CASE j = m
      <4>1. m # i /\ m - 1 \in i..m /\ m - 1 # m
        OBVIOUS
      <4>. QED  BY <3>1, <4>1
    <3>2. CASE j # m
      <4>1. j \in i..(m - 1)
        BY <3>2
      <4>2. CASE j = i
        BY <2>2, <3>2, <4>1, <4>2
      <4>3. CASE j # i
        <5>1. j - 1 \in i..m /\ j - 1 # m
          BY <3>2, <4>1, <4>3
        <5>. QED  BY <2>2, <3>2, <4>1, <4>3, <5>1
      <4>. QED  BY <4>2, <4>3
    <3>. QED  BY <3>1, <3>2
  <2>4. Inner(s, i, m, g)
    <3>1. g = [j \in i..m |-> g[j]]
      OBVIOUS
    <3>. HIDE DEF g
    <3>. QED  BY <2>3, <3>1 DEF Inner
  <2>5. m \in i..n
    OBVIOUS
  <2>. QED  BY <2>4, <2>5
<1>. HIDE DEF S
<1>3. i..n \subseteq S
  BY <1>1, <1>2, FromTo
<1>4. n \in S
  BY <1>3
<1>. QED  BY <1>4 DEF S

(* The inner loop puts the newest of the rest in its place.                *)
LEMMA NewestToHeads ==
    ASSUME NEW n \in Nat, NEW S, \A r \in S : r.created \in Int, NEW s \in Orders(n, S),
           NEW i \in 1..n, Headed(s, n, i - 1)
    PROVE  NewestTo(s, i) \in Orders(n, S) /\ Headed(NewestTo(s, i), n, i)
<1>. DEFINE c == CHOOSE f : Inner(s, i, n, f)
<1>1. Len(s) = n
  BY DEF Orders
<1>2. NewestTo(s, i) = c[n]
  BY <1>1 DEF NewestTo, Inner
<1>3. Inner(s, i, n, c)
  <2>1. i \in Nat /\ i <= n
    OBVIOUS
  <2>2. \E f : Inner(s, i, n, f)
    BY <2>1, InnerIsThere
  <2>. QED  BY <2>2
<1>. HIDE DEF c
<1>4. \A j \in i..n : c[j] = IF j = i THEN s ELSE Exchange(c[j - 1], i, j)
  BY <1>3 DEF Inner
<1>. DEFINE T == {j \in i..n : c[j] \in Orders(n, S) /\ Headed(c[j], n, i - 1) /\ NewestOf(c[j], i, j)}
<1>5. i \in T
  <2>0. i \in i..n
    OBVIOUS
  <2>1. c[i] = s
    BY <1>4, <2>0
  <2>2. NewestOf(s, i, i)
    BY DEF NewestOf
  <2>. QED  BY <2>0, <2>1, <2>2
<1>6. ASSUME NEW j \in (i + 1)..n, j - 1 \in T PROVE j \in T
  <2>1. j \in i..n /\ j # i /\ j \in 1..n /\ i < j
    OBVIOUS
  <2>2. c[j] = Exchange(c[j - 1], i, j)
    BY <1>4, <2>1
  <2>3. c[j - 1] \in Orders(n, S) /\ Headed(c[j - 1], n, i - 1) /\ NewestOf(c[j - 1], i, j - 1)
    BY <1>6
  <2>4. c[j] \in Orders(n, S) /\ Headed(c[j], n, i - 1) /\ NewestOf(c[j], i, j)
    BY <2>1, <2>2, <2>3, ExchangeStep
  <2>. QED  BY <2>1, <2>4
<1>. HIDE DEF T
<1>7. i..n \subseteq T
  BY <1>5, <1>6, FromTo
<1>8. n \in T
  BY <1>7
<1>9. c[n] \in Orders(n, S) /\ Headed(c[n], n, i - 1) /\ NewestOf(c[n], i, n)
  BY <1>8 DEF T
<1>10. Headed(c[n], n, i)
  <2>. SUFFICES ASSUME NEW l \in 1..i, NEW k \in 1..n, l < k
                PROVE  c[n][k].created <= c[n][l].created
    BY DEF Headed
  <2>1. CASE l = i
    <3>1. k \in (i + 1)..n
      BY <2>1
    <3>. QED  BY <1>9, <2>1, <3>1 DEF NewestOf
  <2>2. CASE l # i
    <3>1. l \in 1..(i - 1)
      BY <2>2
    <3>. QED  BY <1>9, <3>1 DEF Headed
  <2>. QED  BY <2>1, <2>2
<1>. QED  BY <1>2, <1>9, <1>10

(* What it has after the first i places.                                   *)
Outer(s, n, f) == f = [i \in 0..n |-> IF i = 0 THEN s ELSE NewestTo(f[i - 1], i)]

(* And so is the outer one.                                                *)
LEMMA OuterIsThere ==
    ASSUME NEW s, NEW n \in Nat
    PROVE  \E f : Outer(s, n, f)
<1>. DEFINE S == {m \in 0..n : \E f : Outer(s, m, f)}
<1>1. 0 \in S
  <2>1. Outer(s, 0, [i \in 0..0 |-> s])
    BY DEF Outer
  <2>. QED  BY <2>1
<1>2. ASSUME NEW m \in (0 + 1)..n, m - 1 \in S PROVE m \in S
  <2>1. PICK f : Outer(s, m - 1, f)
    BY <1>2
  <2>. DEFINE g == [i \in 0..m |-> IF i = m THEN NewestTo(f[m - 1], m) ELSE f[i]]
  <2>2. \A i \in 0..(m - 1) : f[i] = IF i = 0 THEN s ELSE NewestTo(f[i - 1], i)
    BY <2>1 DEF Outer
  <2>3. \A i \in 0..m : g[i] = IF i = 0 THEN s ELSE NewestTo(g[i - 1], i)
    <3>. SUFFICES ASSUME NEW i \in 0..m
                  PROVE  g[i] = IF i = 0 THEN s ELSE NewestTo(g[i - 1], i)
      OBVIOUS
    <3>1. CASE i = m
      <4>1. m # 0 /\ m - 1 \in 0..m /\ m - 1 # m
        OBVIOUS
      <4>. QED  BY <3>1, <4>1
    <3>2. CASE i # m
      <4>1. i \in 0..(m - 1)
        BY <3>2
      <4>2. CASE i = 0
        BY <2>2, <3>2, <4>1, <4>2
      <4>3. CASE i # 0
        <5>1. i - 1 \in 0..m /\ i - 1 # m
          BY <3>2, <4>1, <4>3
        <5>. QED  BY <2>2, <3>2, <4>1, <4>3, <5>1
      <4>. QED  BY <4>2, <4>3
    <3>. QED  BY <3>1, <3>2
  <2>4. Outer(s, m, g)
    <3>1. g = [i \in 0..m |-> g[i]]
      OBVIOUS
    <3>. HIDE DEF g
    <3>. QED  BY <2>3, <3>1 DEF Outer
  <2>5. m \in 0..n
    OBVIOUS
  <2>. QED  BY <2>4, <2>5
<1>. HIDE DEF S
<1>3. 0..n \subseteq S
  BY <1>1, <1>2, FromTo
<1>4. n \in S
  BY <1>3
<1>. QED  BY <1>4 DEF S

(* The exchange sort sorts: the newest first, none lost.                   *)
LEMMA SortSorts ==
    ASSUME NEW n \in Nat, NEW S, \A r \in S : r.created \in Int, NEW s \in Orders(n, S)
    PROVE  sortReportRecords(s) \in Orders(n, S) /\ Headed(sortReportRecords(s), n, n)
<1>. DEFINE c == CHOOSE f : Outer(s, n, f)
<1>1. Len(s) = n
  BY DEF Orders
<1>2. sortReportRecords(s) = c[n]
  BY <1>1 DEF sortReportRecords, Outer
<1>3. Outer(s, n, c)
  <2>1. \E f : Outer(s, n, f)
    BY OuterIsThere
  <2>. QED  BY <2>1
<1>. HIDE DEF c
<1>4. \A i \in 0..n : c[i] = IF i = 0 THEN s ELSE NewestTo(c[i - 1], i)
  BY <1>3 DEF Outer
<1>. DEFINE T == {i \in 0..n : c[i] \in Orders(n, S) /\ Headed(c[i], n, i)}
<1>5. 0 \in T
  <2>1. c[0] = s
    BY <1>4
  <2>2. Headed(s, n, 0)
    BY DEF Headed
  <2>. QED  BY <2>1, <2>2
<1>6. ASSUME NEW i \in (0 + 1)..n, i - 1 \in T PROVE i \in T
  <2>1. c[i] = NewestTo(c[i - 1], i) /\ i \in 1..n /\ i \in 0..n
    BY <1>4
  <2>2. c[i - 1] \in Orders(n, S) /\ Headed(c[i - 1], n, i - 1)
    BY <1>6
  <2>3. c[i] \in Orders(n, S) /\ Headed(c[i], n, i)
    BY <2>1, <2>2, NewestToHeads
  <2>. QED  BY <2>1, <2>3
<1>. HIDE DEF T
<1>7. 0..n \subseteq T
  BY <1>5, <1>6, FromTo
<1>8. n \in T
  BY <1>7
<1>. QED  BY <1>2, <1>8 DEF T

(* The least of two.                                                       *)
LEMMA MinOfTwo ==
    ASSUME NEW a \in Int, NEW b \in Int
    PROVE  Min({a, b}) = IF a <= b THEN a ELSE b
<1>. DEFINE m == IF a <= b THEN a ELSE b
<1>1. m \in {a, b} /\ \A x \in {a, b} : m <= x
  OBVIOUS
<1>2. Min({a, b}) \in {a, b} /\ \A x \in {a, b} : Min({a, b}) <= x
  BY <1>1 DEF Min
<1>. QED  BY <1>1, <1>2

(* What the handler makes of the limit of a request is a limit.            *)
LEMMA LimitType ==
    ASSUME NEW f \in Requests
    PROVE  Limit(f) \in Nat
<1>1. DefaultLimit \in Nat /\ MaxLimit \in Nat /\ f.limit \in Seq(Int) /\ Len(f.limit) <= 1
  BY ReportAssumption DEF Requests, FilterType
<1>2. DecodedLimit(f) \in Int
  <2>1. CASE f.limit = <<>>
    BY <1>1, <2>1 DEF DecodedLimit
  <2>2. CASE f.limit # <<>>
    <3>1. f.limit[1] \in Int
      BY <1>1, <2>2
    <3>2. Min({f.limit[1], MaxLimit}) \in Int
      BY <1>1, <3>1, MinOfTwo
    <3>. QED  BY <2>2, <3>2 DEF DecodedLimit
  <2>. QED  BY <2>1, <2>2
<1>3. CASE DecodedLimit(f) <= 0
  BY <1>1, <1>3 DEF Limit
<1>4. CASE ~(DecodedLimit(f) <= 0)
  <2>1. Limit(f) = Min({DecodedLimit(f), MaxLimit})
    BY <1>4 DEF Limit
  <2>. QED  BY <1>1, <1>2, <1>4, <2>1, MinOfTwo
<1>. QED  BY <1>3, <1>4

(* The first m of a sequence (reporting.go, records[:filter.Limit]).       *)
LEMMA FirstOf ==
    ASSUME NEW S, NEW s \in Seq(S), NEW m \in Nat, m <= Len(s)
    PROVE  /\ Len(SubSeq(s, 1, m)) = m /\ DOMAIN SubSeq(s, 1, m) = 1..m
           /\ \A i \in 1..m : SubSeq(s, 1, m)[i] = s[i]
<1>1. Len(s) \in Nat /\ \A i \in 1..Len(s) : s[i] \in S
  BY LenProperties, ElementOfSeq
<1>2. \A i \in 1..m : s[i] \in S
  BY <1>1
<1>3. /\ SubSeq(s, 1, m) \in Seq(S)
      /\ Len(SubSeq(s, 1, m)) = IF 1 <= m THEN m - 1 + 1 ELSE 0
      /\ \A i \in 1..(m - 1 + 1) : SubSeq(s, 1, m)[i] = s[1 + i - 1]
  BY <1>2, SubSeqProperties
<1>4. Len(SubSeq(s, 1, m)) = m /\ \A i \in 1..m : SubSeq(s, 1, m)[i] = s[i]
  BY <1>3
<1>. QED  BY <1>3, <1>4, LenProperties

(* The first of a list in order are the newest of its records.             *)
LEMMA CutIsNewest ==
    ASSUME NEW S, IsFiniteSet(S), \A r \in S : r.created \in Int,
           NEW s \in Orders(Cardinality(S), S), Headed(s, Cardinality(S), Cardinality(S)),
           NEW limit \in Nat
    PROVE  IsNewest(Cut(s, limit), S, limit)
<1>1. PICK n \in Nat : n = Cardinality(S)
  BY FS_CardinalityType
<1>2. s \in [1..n -> S] /\ Len(s) = n /\ s \in Seq(S) /\ Headed(s, n, n)
  BY <1>1 DEF Orders
<1>3. PICK m \in Nat : m = Min({limit, n}) /\ m <= n
  BY MinOfTwo
<1>. DEFINE list == Cut(s, limit)
<1>4. list = SubSeq(s, 1, m)
  BY <1>2, <1>3 DEF Cut
<1>5. Len(list) = m /\ DOMAIN list = 1..m /\ \A i \in 1..m : list[i] = s[i]
  <2>1. s \in Seq(S) /\ m <= Len(s)
    BY <1>2, <1>3
  <2>. QED  BY <1>4, <2>1, FirstOf
<1>. HIDE DEF list
<1>6. \A i \in 1..m : i \in 1..n
  BY <1>3
<1>7. ToSet(list) \subseteq S
  BY <1>2, <1>5, <1>6 DEF ToSet
<1>8. IsInjective(list)
  BY <1>1, <1>5, <1>6 DEF IsInjective, Orders
<1>9. ASSUME NEW i \in 1..Len(list), NEW r \in S \ {list[j] : j \in 1..i}
      PROVE  r.created <= list[i].created
  <2>1. PICK k \in 1..n : s[k] = r
    BY <1>1 DEF Orders
  <2>2. i \in 1..m /\ i \in 1..n
    BY <1>5, <1>6
  <2>3. k \notin 1..i
    <3>. SUFFICES ASSUME k \in 1..i PROVE FALSE
      OBVIOUS
    <3>1. k \in 1..m
      BY <2>2
    <3>2. list[k] = r
      BY <1>5, <2>1, <3>1
    <3>. QED  BY <1>9, <3>2
  <2>4. i < k
    BY <2>2, <2>3
  <2>5. s[k].created <= s[i].created
    BY <1>2, <2>2, <2>4 DEF Headed
  <2>. QED  BY <1>5, <2>1, <2>2, <2>5
<1>10. Len(list) = Min({limit, Cardinality(S)})
  BY <1>1, <1>3, <1>5
<1>. QED  BY <1>7, <1>8, <1>9, <1>10 DEF IsNewest, list

(* A set in some order has all its members.                                *)
LEMMA OrdersOfSet ==
    ASSUME NEW S, IsFiniteSet(S), NEW s \in SetToSeqs(S)
    PROVE  s \in Orders(Cardinality(S), S)
<1>1. PICK n \in Nat : n = Cardinality(S)
  BY FS_CardinalityType
<1>2. s \in [1..n -> S] /\ \A i, j \in 1..n : s[i] = s[j] => i = j
  BY <1>1 DEF SetToSeqs
<1>3. ASSUME NEW r \in S, \A i \in 1..n : s[i] # r PROVE FALSE
  <2>1. s \in [1..n -> S \ {r}]
    BY <1>2, <1>3
  <2>2. IsFiniteSet(S \ {r}) /\ Cardinality(S \ {r}) = n - 1
    BY <1>1, FS_RemoveElement
  <2>3. IsFiniteSet(1..n) /\ Cardinality(1..n) = n
    BY FS_Interval
  <2>4. Cardinality(S \ {r}) < Cardinality(1..n)
    BY <2>2, <2>3
  <2>5. \E i, j \in 1..n : i # j /\ s[i] = s[j]
    BY <2>1, <2>2, <2>3, <2>4, FS_PigeonHole
  <2>. QED  BY <1>2, <2>5
<1>. QED  BY <1>1, <1>2, <1>3 DEF Orders

(* The in-memory store keeps the payments of finitely many Saves.          *)
Filed == {p \in Payments : Found(byPaymentID[p])}
FinitelyMany == IsFiniteSet(Filed)

(* A Save files one payment (inmemory_store.go Save).                      *)
LEMMA FinitelyManyStep == FinitelyMany /\ TypeOK /\ [Next]_vars => FinitelyMany'
<1>. SUFFICES ASSUME FinitelyMany, TypeOK, [Next]_vars PROVE FinitelyMany'
  OBVIOUS
<1>1. CASE byPaymentID' = byPaymentID
  BY <1>1 DEF FinitelyMany, Filed
<1>2. ASSUME NEW c \in Callers, Save(c) PROVE FinitelyMany'
  <2>. DEFINE p == calls[c].payment
  <2>1. byPaymentID' = [byPaymentID EXCEPT ![p] = MemoryTx(calls[c])]
    BY <1>2 DEF Save, FiledByPayment
  <2>2. Filed' \subseteq Filed \cup {p}
    BY <2>1 DEF Filed, TypeOK
  <2>3. IsFiniteSet(Filed \cup {p})
    BY FS_AddElement DEF FinitelyMany
  <2>. QED  BY <2>2, <2>3, FS_Subset DEF FinitelyMany
<1>. QED  BY <1>1, <1>2 DEF Next, Tick, Stamp, vars

(* The filter leaves finitely many (reporting.go, the loop over the map).  *)
LEMMA MatchesAreFinite ==
    ASSUME FinitelyMany, NEW f
    PROVE  IsFiniteSet(PaymentsMatching(f))
<1>. DEFINE P == {p \in Payments : Found(byPaymentID[p]) /\ Matches(byPaymentID[p], f)}
            g == [p \in P |-> byPaymentID[p]]
<1>1. PaymentsMatching(f) = {byPaymentID[p] : p \in P}
  BY DEF PaymentsMatching
<1>2. IsFiniteSet(P)
  <2>1. P \subseteq Filed
    BY DEF Filed
  <2>. QED  BY <2>1, FS_Subset DEF FinitelyMany
<1>. HIDE DEF P
<1>3. g \in Surjection(P, {byPaymentID[p] : p \in P})
  BY DEF Surjection
<1>. QED  BY <1>1, <1>2, <1>3, FS_Surjection

(* The in-memory report is the newest of the payments that match, newest   *)
(* first, whatever the order the map is iterated in and however many       *)
(* payments there are (reporting.go sortReportRecords, the limit).         *)
THEOREM ReportsAreNewest == Spec => []ReportIsNewest
<1>1. Init => FinitelyMany
  <2>. SUFFICES ASSUME Init PROVE Filed = {}
    BY FS_EmptySet DEF FinitelyMany
  <2>. QED  BY DEF Init, Filed, Found
<1>2. TypeOK /\ FinitelyMany => ReportIsNewest
  <2>. SUFFICES ASSUME TypeOK, FinitelyMany, NEW f \in Requests, NEW list \in MemoryLists(f)
                PROVE  IsNewest(list, PaymentsMatching(f), Limit(f))
    BY DEF ReportIsNewest
  <2>. DEFINE S == PaymentsMatching(f)
  <2>1. PICK s \in SetToSeqs(S) : list = Cut(sortReportRecords(s), Limit(f))
    BY DEF MemoryLists
  <2>2. IsFiniteSet(S)
    BY MatchesAreFinite
  <2>3. \A r \in S : r.created \in Int
    <3>1. \A p \in Payments : Found(byPaymentID[p]) => byPaymentID[p] \in Tx
      BY DEF TypeOK, Found
    <3>2. \A r \in S : r \in Tx
      BY <3>1 DEF PaymentsMatching
    <3>3. Times \subseteq Int
      BY MaxTimeAssumption DEF Times
    <3>. HIDE DEF S
    <3>. QED  BY <3>2, <3>3 DEF Tx
  <2>. HIDE DEF S
  <2>4. PICK n \in Nat : n = Cardinality(S)
    BY <2>2, FS_CardinalityType
  <2>5. s \in Orders(n, S)
    BY <2>2, <2>4, OrdersOfSet
  <2>6. /\ sortReportRecords(s) \in Orders(n, S)
        /\ Headed(sortReportRecords(s), n, n)
    BY <2>3, <2>5, SortSorts
  <2>7. Limit(f) \in Nat
    BY LimitType
  <2>8. IsNewest(Cut(sortReportRecords(s), Limit(f)), S, Limit(f))
    BY <2>2, <2>3, <2>4, <2>6, <2>7, CutIsNewest
  <2>. QED  BY <2>1, <2>8 DEF S
<1>. QED  BY <1>1, <1>2, FinitelyManyStep, StoresTypeCorrect, PTL DEF Spec
=============================================================================
