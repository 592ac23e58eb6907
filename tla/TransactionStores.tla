------------------------------ MODULE TransactionStores ------------------------------
(***************************************************************************)
(* The two implementations of contracts.TransactionStore, and what is read *)
(* from them: the status of a payment and the transaction report.          *)
(*                                                                         *)
(* The gateway runs on one of them; here both are given the same Saves, so *)
(* that their answers can be compared.  Postgres has a row for each        *)
(* idempotency key and looks a payment up by updated_at, the in-memory     *)
(* store has a second map by payment_id.  A caller computes updated_at     *)
(* when it calls Save, before the statement runs or the mutex is taken, so *)
(* stamps need not be in the order of the writes; created_at is the        *)
(* database's clock in Postgres and the first stamp of the key in memory.  *)
(* One clock stands for both.  All data is one merchant's: the maps and    *)
(* the statements have the merchant in every key.                          *)
(*                                                                         *)
(* A Save that fails changes nothing, like one whose statement never runs. *)
(***************************************************************************)
EXTENDS PaymentStatus, Sequences

CONSTANTS
    Callers,    \* the goroutines that call Save, each once
    Keys,       \* idempotency keys
    Payments,   \* payment_ids
    SystemOf,   \* the payment system in the payloads of a key
    Saved,      \* the statuses callers save
    MaxTime     \* bound of the clock

ASSUME NamesAssumption   == "" \notin Keys /\ "" \notin Payments
ASSUME SavedAssumption   == Saved \subseteq Statuses
ASSUME MaxTimeAssumption == MaxTime \in Nat

VARIABLES
    clock,          \* the time
    calls,          \* the Save each caller is in
    rows,           \* payment_transactions, by idempotency key
    byIdempotency,  \* InMemoryTransactionStore.byIdempotency
    byPaymentID,    \* InMemoryTransactionStore.byPaymentID
    log             \* history: the Saves that took effect, in that order

vars == <<clock, calls, rows, byIdempotency, byPaymentID, log>>

Times == 0..MaxTime

(* A stored transaction; the payment is the one its payload names.         *)
Tx == [payment : Payments, key : Keys, status : Saved, created : Times, updated : Times]
NoTx == [payment |-> "", key |-> "", status |-> "", created |-> 0, updated |-> 0]
Found(tx) == tx # NoTx

(* The arguments of Save; at is updatedAt.                                 *)
Call == [payment : Payments, key : Keys, status : Saved, at : Times]
Idle == [payment |-> "", key |-> "", status |-> "idle", at |-> 0]
Done == [payment |-> "", key |-> "", status |-> "done", at |-> 0]

Init ==
    /\ clock = 0
    /\ calls = [c \in Callers |-> Idle]
    /\ rows = [k \in Keys |-> NoTx]
    /\ byIdempotency = [k \in Keys |-> NoTx]
    /\ byPaymentID = [p \in Payments |-> NoTx]
    /\ log = <<>>

(* Time passes. *)
Tick ==
    /\ clock < MaxTime
    /\ clock' = clock + 1
    /\ UNCHANGED <<calls, rows, byIdempotency, byPaymentID, log>>

(* A caller evaluates the arguments of Save, nowUTC() among them: the      *)
(* orchestrator at orchestrator.go:288 and :316, the handlers of YooKassa, *)
(* PayAnyWay and the digital ruble before they store what they changed.    *)
Stamp(c) ==
    /\ calls[c] = Idle
    /\ \E k \in Keys, p \in Payments, s \in Saved :
          calls' = [calls EXCEPT ![c] = [payment |-> p, key |-> k, status |-> s, at |-> clock]]
    /\ UNCHANGED <<clock, rows, byIdempotency, byPaymentID, log>>

(* What is stored of a call: created is that of the key's record if it has *)
(* one, else the given time.                                               *)
Stored(call, existing, now) ==
    [payment |-> call.payment, key |-> call.key, status |-> call.status,
     created |-> IF Found(existing) THEN existing.created ELSE now,
     updated |-> call.at]

(* Fault variant of InsertOrUpdate: ON CONFLICT DO NOTHING.                *)
InsertOnly(call) == IF Found(rows[call.key]) THEN rows[call.key] ELSE Stored(call, NoTx, clock)

InsertOrUpdate(call) == Stored(call, rows[call.key], clock)

(* Fault variants of MemoryTx: storedTx.idempotencyKey is left empty;      *)
(* created_at is not carried over.                                         *)
MemoryTxWithoutKey(call) ==
    [Stored(call, byIdempotency[call.key], call.at) EXCEPT !.key = ""]

MemoryTxCreatedAnew(call) == Stored(call, NoTx, call.at)

MemoryTx(call) == Stored(call, byIdempotency[call.key], call.at)

(* Fault variant of FiledByPayment: the payment keeps its first record.    *)
FiledByPaymentOnce(call) ==
    IF Found(byPaymentID[call.payment]) THEN byPaymentID
    ELSE [byPaymentID EXCEPT ![call.payment] = MemoryTx(call)]

FiledByPayment(call) == [byPaymentID EXCEPT ![call.payment] = MemoryTx(call)]

(* The statement of the Postgres Save, and the critical section of the     *)
(* in-memory one.                                                          *)
Save(c) ==
    LET call == calls[c] IN
    /\ call.status \in Saved
    /\ rows' = [rows EXCEPT ![call.key] = InsertOrUpdate(call)]
    /\ byIdempotency' = [byIdempotency EXCEPT ![call.key] = MemoryTx(call)]
    /\ byPaymentID' = FiledByPayment(call)
    /\ log' = Append(log, call)
    /\ calls' = [calls EXCEPT ![c] = Done]
    /\ UNCHANGED clock

Next ==
    \/ Tick
    \/ \E c \in Callers : Stamp(c) \/ Save(c)

Spec == Init /\ [][Next]_vars
-----------------------------------------------------------------------------
(***************************************************************************)
(* The status of a payment, GET /payments/{payment_id}.                    *)
(***************************************************************************)

RowsOf(p) == {rows[k] : k \in {k \in Keys : Found(rows[k]) /\ rows[k].payment = p}}

(* Fault variant of Latest: ORDER BY created_at.                           *)
LatestCreated(txs) == {t \in txs : \A u \in txs : u.created <= t.created}

(* ORDER BY updated_at DESC LIMIT 1, which may be any of several.          *)
Latest(txs) == {t \in txs : \A u \in txs : u.updated <= t.updated}

(* What GetByPaymentID may find. *)
PostgresByPaymentID(p) == Latest(RowsOf(p))
MemoryByPaymentID(p)   == {byPaymentID[p]} \ {NoTx}
-----------------------------------------------------------------------------
TypeOK ==
    /\ clock \in Times
    /\ calls \in [Callers -> Call \cup {Idle, Done}]
    /\ rows \in [Keys -> Tx \cup {NoTx}]
    /\ byIdempotency \in [Keys -> Tx \cup {NoTx}]
    /\ byPaymentID \in [Payments -> Tx \cup {NoTx}]
    /\ log \in Seq(Call)

(* What two records say of a payment. *)
SameContent(t, u) ==
    /\ t.payment = u.payment
    /\ t.key = u.key
    /\ t.status = u.status
    /\ t.updated = u.updated

(* GetByIdempotencyKey answers alike on both stores, in whatever order     *)
(* concurrent Saves of the key arrive, and the database dates a record no  *)
(* earlier than the in-memory store, which takes the caller's stamp.       *)
SameByKey ==
    \A k \in Keys :
        /\ Found(rows[k]) <=> Found(byIdempotency[k])
        /\ SameContent(rows[k], byIdempotency[k])
        /\ byIdempotency[k].created <= rows[k].created

(* No key was saved for two payments. *)
KeysKeepPayment ==
    \A i, j \in DOMAIN log : log[i].key = log[j].key => log[i].payment = log[j].payment

(* The Saves of a payment took effect in the order of their stamps.        *)
InOrder(p) ==
    \A i, j \in DOMAIN log :
        i < j /\ log[i].payment = p /\ log[j].payment = p => log[i].at < log[j].at

(* The status endpoint answers alike on both stores, a payment tried under *)
(* several keys included, as long as the payment's Saves arrive in the     *)
(* order of their stamps and no key moves from one payment to another.     *)
LatestAgrees ==
    KeysKeepPayment =>
        \A p \in Payments : InOrder(p) =>
            LET pg  == PostgresByPaymentID(p)
                mem == MemoryByPaymentID(p)
            IN  /\ pg = {} <=> mem = {}
                /\ \A t \in pg, u \in mem : SameContent(t, u)

(* The report of the in-memory store has a record for each payment, that   *)
(* of Postgres one for each key.  A payment that Postgres lists is listed  *)
(* in memory, however its Saves arrive; and as long as no key moves from   *)
(* one payment to another, what is listed in memory is one of the rows     *)
(* Postgres lists, also of a payment tried under several keys.             *)
RecordsAgree ==
    /\ \A k \in Keys : Found(rows[k]) => Found(byPaymentID[rows[k].payment])
    /\ KeysKeepPayment =>
          \A p \in Payments : Found(byPaymentID[p]) =>
              LET t == rows[byPaymentID[p].key] IN Found(t) /\ SameContent(t, byPaymentID[p])

(* A later Save moves no transaction within a report, which is ordered by  *)
(* created_at: a row keeps it, and so does a payment in memory for as long *)
(* as its Saves come under the key it has, though they write another map.  *)
OrderIsKept ==
    [][ /\ \A k \in Keys : Found(rows[k]) => rows'[k].created = rows[k].created
        /\ \A p \in Payments :
              Found(byPaymentID[p]) /\ byPaymentID'[p].key = byPaymentID[p].key
                => byPaymentID'[p].created = byPaymentID[p].created ]_vars
=============================================================================
