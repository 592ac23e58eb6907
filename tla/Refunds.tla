---------------------------------- MODULE Refunds ----------------------------------
(***************************************************************************)
(* The refund handler (internal/httpapi/refunds, create): one goroutine    *)
(* per request over the refund records of the transaction store, the       *)
(* adapters' Refund, and what the providers make of it.                     *)
(*                                                                         *)
(*   idle -> lookup -> load -> create -> call -> answering -> replied       *)
(*             |         |                                                 *)
(*         replayed   rejected                                             *)
(*                                                                         *)
(* and errored (500) from lookup, load and answering.  The refund's identifier  *)
(* is random, so that it is the request's own.  The providers tell nobody  *)
(* when a pending refund is settled, and nobody asks.                      *)
(***************************************************************************)
EXTENDS Naturals, Sequences

CONSTANTS
    Requests,    \* POST /refunds/full/create and /refunds/partial/create requests
    Keys,        \* (merchant_id, idempotency_key) pairs of refunds
    Payments,    \* (merchant_id, payment_id) pairs
    AdapterOf,   \* the adapter that made a payment
    Durable,     \* PostgresTransactionStore (TRUE) or InMemoryTransactionStore
    MaxFaults    \* bound on restarts and failed store operations

Adapters       == {"yookassa", "simulated", "digital_ruble", "payanyway"}
RefundAdapters == {"yookassa", "simulated", "digital_ruble"}

ASSUME AdapterOfAssumption == AdapterOf \in [Payments -> Adapters]
ASSUME KeysAssumption      == "" \notin Keys
ASSUME DurableAssumption   == Durable \in BOOLEAN
ASSUME MaxFaultsAssumption == MaxFaults \in Nat

VARIABLES
    refunds,    \* the refund stored under the identifier of each request
    payment,    \* the status of the record of each payment
    req,        \* the goroutines of the handler
    ops,        \* the providers: every refund they ever opened
    captured,   \* history: the payments ever stored as CAPTURED
    faults      \* how much of MaxFaults is used up

vars == <<refunds, payment, req, ops, captured, faults>>

-----------------------------------------------------------------------------
(* Data.                                                                   *)

RefundStatuses == {"PROCESS_REFUND", "SUCCESS_REFUND", "FAIL_REFUND"}
RefundTypes    == {"full", "partial"}

(* What the record of a payment may say; "" if there is none, and PENDING  *)
(* stands for every status that is not CAPTURED.                           *)
PaymentStatuses == {"", "PENDING", "CAPTURED"}

(* dto.Refund: ext is the position in ops of ExternalRefundID, 0 for none. *)
Refund == [id: Requests, key: Keys, payment: Payments, type: RefundTypes,
           status: RefundStatuses, ext: Nat]

NoKey    == ""
NoRefund == [id |-> "", key |-> NoKey, payment |-> "", type |-> "", status |-> "", ext |-> 0]

Working == {"load", "create", "call", "answering"}
Ended   == {"replayed", "rejected", "replied", "errored", "crashed"}

(* body holds what the request asks for.                                   *)
NoBody == [payment |-> "", type |-> ""]
Idle   == [pc |-> "idle", key |-> NoKey, body |-> NoBody, refund |-> NoRefund]

At(r, where)   == req[r].pc = where
Goto(r, where) == req' = [req EXCEPT ![r].pc = where]
Payment(r)     == req[r].body.payment

Fault == faults < MaxFaults /\ faults' = faults + 1

StoreError == Durable /\ Fault

-----------------------------------------------------------------------------
(* The refund store.                                                       *)

RecordsOf(k) == {q \in Requests : refunds[q].key = k}

(* The table payment_refunds has UNIQUE (merchant_id, idempotency_key).    *)
(* Fault variant: without it.                                              *)
NoTaken(refund) == FALSE
Taken(refund) == Durable /\ RecordsOf(refund.key) \ {refund.id} # {}

SaveRefund(refund) ==
    /\ ~Taken(refund)
    /\ refunds' = [refunds EXCEPT ![refund.id] = refund]
    /\ UNCHANGED faults

SaveRefundError(refund) ==
    /\ \/ Taken(refund) /\ UNCHANGED faults
       \/ StoreError
    /\ UNCHANGED refunds

-----------------------------------------------------------------------------
(* The payments: what the handlers of payments store meanwhile.            *)
StorePayment(p, status) ==
    /\ payment[p] # status
    /\ payment' = [payment EXCEPT ![p] = status]
    /\ captured' = IF status = "CAPTURED" THEN captured \cup {p} ELSE captured
    /\ UNCHANGED <<refunds, req, ops, faults>>

-----------------------------------------------------------------------------
(* The handler up to the provider.                                         *)

Receive(r, k, p, t) ==
    /\ At(r, "idle")
    /\ req' = [req EXCEPT ![r].pc = "lookup", ![r].key = k,
                          ![r].body = [payment |-> p, type |-> t]]
    /\ UNCHANGED <<refunds, payment, ops, captured, faults>>

(* Fault variant: a refund that failed is tried again.                     *)
FoundUnlessFailed(k) == {q \in RecordsOf(k) : refunds[q].status # "FAIL_REFUND"}
GetRefundByIdempotencyKey(k) == RecordsOf(k)

(* The in-memory store may hold several refunds of a key: any is returned. *)
Replay(r) ==
    /\ At(r, "lookup")
    /\ \E q \in GetRefundByIdempotencyKey(req[r].key) :
          req' = [req EXCEPT ![r].pc = "replayed", ![r].refund = refunds[q]]
    /\ UNCHANGED <<refunds, payment, ops, captured, faults>>

Miss(r) ==
    /\ At(r, "lookup")
    /\ GetRefundByIdempotencyKey(req[r].key) = {}
    /\ Goto(r, "load")
    /\ UNCHANGED <<refunds, payment, ops, captured, faults>>

(* Fault variant: the status of the payment is not looked at.              *)
RefundableIfFound(p) == payment[p] # "" /\ AdapterOf[p] \in RefundAdapters
Refundable(p) == payment[p] = "CAPTURED" /\ AdapterOf[p] \in RefundAdapters

(* Fault variant: the new refund is not given the idempotency key.         *)
NewRefundWithoutKey(r) ==
    [id |-> r, key |-> NoKey, payment |-> Payment(r), type |-> req[r].body.type,
     status |-> "PROCESS_REFUND", ext |-> 0]
NewRefund(r) ==
    [id |-> r, key |-> req[r].key, payment |-> Payment(r), type |-> req[r].body.type,
     status |-> "PROCESS_REFUND", ext |-> 0]

(* GetByPaymentID, the checks of the payment and of its adapter, and the   *)
(* new refund.                                                             *)
Load(r) ==
    /\ At(r, "load")
    /\ Refundable(Payment(r))
    /\ req' = [req EXCEPT ![r].pc = "create", ![r].refund = NewRefund(r)]
    /\ UNCHANGED <<refunds, payment, ops, captured, faults>>

Reject(r) ==
    /\ At(r, "load")
    /\ ~Refundable(Payment(r))
    /\ Goto(r, "rejected")
    /\ UNCHANGED <<refunds, payment, ops, captured, faults>>

ReadError(r) ==
    /\ req[r].pc \in {"lookup", "load"}
    /\ StoreError
    /\ Goto(r, "errored")
    /\ UNCHANGED <<refunds, payment, ops, captured>>

(* The error of this SaveRefund is not looked at.                          *)
SaveRequested(r) ==
    /\ At(r, "create")
    /\ SaveRefund(req[r].refund) \/ SaveRefundError(req[r].refund)
    /\ Goto(r, "call")
    /\ UNCHANGED <<payment, ops, captured>>

-----------------------------------------------------------------------------
(* The adapters' Refund.                                                   *)

(* Fault variant: every refund YooKassa has taken on is a success.         *)
MapOptimistic(s) == IF s = "canceled" THEN "FAIL_REFUND" ELSE "SUCCESS_REFUND"
mapYooKassaRefundStatus(s) ==
    CASE s = "succeeded"                    -> "SUCCESS_REFUND"
      [] s = "canceled"                     -> "FAIL_REFUND"
      [] s \notin {"succeeded", "canceled"} -> "PROCESS_REFUND"

Answer(r, status, ext) ==
    /\ req' = [req EXCEPT ![r].pc = "answering", ![r].refund.status = status,
                          ![r].refund.ext = ext]
    /\ UNCHANGED <<refunds, payment, captured, faults>>

Operation(r, status) ==
    [key |-> req[r].key, payment |-> Payment(r), type |-> req[r].body.type, status |-> status]

(* YooKassa knows a repeated request by its Idempotence-Key, the refund's  *)
(* idempotency key.                                                        *)
KnownOps(k) ==
    {i \in DOMAIN ops : ops[i].key = k /\ AdapterOf[ops[i].payment] = "yookassa"}

RefundAtYooKassa(r) ==
    /\ At(r, "call")
    /\ AdapterOf[Payment(r)] = "yookassa"
    /\ KnownOps(req[r].key) = {}
    /\ \E s \in {"pending", "succeeded", "canceled"} :
          /\ ops' = Append(ops, Operation(r, s))
          /\ Answer(r, mapYooKassaRefundStatus(s), Len(ops) + 1)

(* The body again, which differs in the refund's identifier only (part of  *)
(* the metadata): YooKassa answers as before, or refuses, see below.       *)
RepeatAtYooKassa(r) ==
    /\ At(r, "call")
    /\ AdapterOf[Payment(r)] = "yookassa"
    /\ \E i \in KnownOps(req[r].key) :
          /\ ops[i].payment = Payment(r)
          /\ ops[i].type = req[r].body.type
          /\ Answer(r, mapYooKassaRefundStatus(ops[i].status), i)
    /\ UNCHANGED ops

(* Not sent, or refused: too much, or another body for a known key.        *)
RefusedByYooKassa(r) ==
    /\ At(r, "call")
    /\ AdapterOf[Payment(r)] = "yookassa"
    /\ Answer(r, "FAIL_REFUND", 0)
    /\ UNCHANGED ops

(* Carried out, but the answer never came: an error is a failed refund.    *)
LoseAnswer(r) ==
    /\ At(r, "answering")
    /\ AdapterOf[Payment(r)] = "yookassa"
    /\ req[r].refund.ext # 0
    /\ Answer(r, "FAIL_REFUND", 0)
    /\ UNCHANGED ops

(* The emulated providers refund at once, or fail when the reason says so; *)
(* the identifier a failure comes with names no refund.                    *)
RefundEmulated(r) ==
    /\ At(r, "call")
    /\ AdapterOf[Payment(r)] \in {"simulated", "digital_ruble"}
    /\ \/ /\ ops' = Append(ops, Operation(r, "succeeded"))
          /\ Answer(r, "SUCCESS_REFUND", Len(ops) + 1)
       \/ /\ UNCHANGED ops
          /\ Answer(r, "FAIL_REFUND", 0)

SettleRefund(i, status) ==
    /\ ops[i].status = "pending"
    /\ ops' = [ops EXCEPT ![i].status = status]
    /\ UNCHANGED <<refunds, payment, req, captured, faults>>

-----------------------------------------------------------------------------
(* The second SaveRefund, and the reply.                                   *)
SaveResult(r) ==
    /\ At(r, "answering")
    /\ SaveRefund(req[r].refund)
    /\ Goto(r, "replied")
    /\ UNCHANGED <<payment, ops, captured>>

(* Fault variant of ResultLost: the answer is given all the same, as by    *)
(* the orchestrator for a payment.                                         *)
ResultLostReplied(r) ==
    /\ At(r, "answering")
    /\ SaveRefundError(req[r].refund)
    /\ Goto(r, "replied")
    /\ UNCHANGED <<payment, ops, captured>>

(* An error of the second SaveRefund, and the result is not told.          *)
ResultLost(r) ==
    /\ At(r, "answering")
    /\ SaveRefundError(req[r].refund)
    /\ Goto(r, "errored")
    /\ UNCHANGED <<payment, ops, captured>>

Restart ==
    /\ Fault
    /\ req' = [r \in Requests |-> IF req[r].pc \in Ended \cup {"idle"} THEN req[r]
                                  ELSE [req[r] EXCEPT !.pc = "crashed"]]
    /\ IF Durable
       THEN UNCHANGED <<refunds, payment>>
       ELSE /\ refunds' = [r \in Requests |-> NoRefund]
            /\ payment' = [p \in Payments |-> ""]
    /\ UNCHANGED <<ops, captured>>

Init ==
    /\ refunds = [r \in Requests |-> NoRefund]
    /\ payment = [p \in Payments |-> ""]
    /\ req = [r \in Requests |-> Idle]
    /\ ops = <<>>
    /\ captured = {}
    /\ faults = 0

Create(r) ==
    \/ Replay(r) \/ Miss(r) \/ Load(r) \/ Reject(r) \/ ReadError(r) \/ SaveRequested(r)
    \/ RefundAtYooKassa(r) \/ RepeatAtYooKassa(r) \/ RefusedByYooKassa(r)
    \/ LoseAnswer(r) \/ RefundEmulated(r) \/ SaveResult(r) \/ ResultLost(r)

Next ==
    \/ \E r \in Requests : Create(r)
    \/ \E r \in Requests, k \in Keys, p \in Payments, t \in RefundTypes : Receive(r, k, p, t)
    \/ \E p \in Payments, s \in PaymentStatuses \ {""} : StorePayment(p, s)
    \/ \E i \in DOMAIN ops, s \in {"succeeded", "canceled"} : SettleRefund(i, s)
    \/ Restart

Spec == Init /\ [][Next]_vars

-----------------------------------------------------------------------------
(* Properties.                                                             *)

Stored    == Refund \cup {NoRefund}
Body      == [payment: Payments, type: RefundTypes] \cup {NoBody}
Goroutine == [pc: {"idle", "lookup"} \cup Working \cup Ended, key: Keys \cup {NoKey},
              body: Body, refund: Stored]
Op        == [key: Keys, payment: Payments, type: RefundTypes,
              status: {"pending", "succeeded", "canceled"}]

TypeOK ==
    /\ refunds \in [Requests -> Stored]
    /\ payment \in [Payments -> PaymentStatuses]
    /\ req \in [Requests -> Goroutine]
    /\ ops \in Seq(Op)
    /\ captured \subseteq Payments
    /\ faults \in 0..MaxFaults

Answered(r) == req[r].pc \in {"replied", "replayed"}

(* A refund that says SUCCESS_REFUND names a refund the provider made, of  *)
(* the same payment and kind and under the same key.                       *)
Backed(refund) ==
    refund.status = "SUCCESS_REFUND" =>
        /\ refund.ext \in DOMAIN ops
        /\ ops[refund.ext] = [key |-> refund.key, payment |-> refund.payment,
                              type |-> refund.type, status |-> "succeeded"]

(* No stored refund and no answer to a merchant says SUCCESS_REFUND of     *)
(* money the provider did not give back, whatever is lost, repeated or     *)
(* restarted, and whichever request the stored record is of                *)
(* (refunds/handler.go create).                                            *)
SuccessIsBacked ==
    /\ \A r \in Requests : Backed(refunds[r])
    /\ \A r \in Requests : Answered(r) => Backed(req[r].refund)

(* The provider is asked for refunds only of payments that were stored as  *)
(* CAPTURED, though their records change while the request is handled      *)
(* (refunds/handler.go create, the check of CurrentStatus).                *)
RefundedWasCaptured == \A i \in DOMAIN ops : ops[i].payment \in captured

(* With the database, all answers given for an idempotency key are about   *)
(* one refund, also when several requests missed its record and whichever  *)
(* of their SaveRefunds failed (postgres_store.go ensureSchema, UNIQUE).   *)
SameRefundForKey ==
    Durable => \A q, r \in Requests :
        (Answered(q) /\ Answered(r) /\ req[q].key = req[r].key)
            => req[q].refund.id = req[r].refund.id

(* A key is recorded once a refund is stored for it and no request that    *)
(* missed the record is at work on it.                                     *)
Recorded(k) ==
    /\ RecordsOf(k) # {}
    /\ \A r \in Requests : req[r].key = k => req[r].pc \notin Working

StoreLost == ~Durable /\ \A r \in Requests : refunds'[r] = NoRefund

(* A recorded key is never sent to a provider again, whatever its refund   *)
(* came to, and its records change no more (refunds/handler.go create, the *)
(* idempotency check).                                                     *)
RecordedForGood ==
    [][\A k \in Keys : (Recorded(k) /\ ~StoreLost) =>
          /\ Recorded(k)'
          /\ \A q \in RecordsOf(k) : refunds'[q] = refunds[q]
          /\ \A i \in DOMAIN ops' \ DOMAIN ops : ops'[i].key # k]_vars

-----------------------------------------------------------------------------
(* What all this comes to.                                                 *)

AnswersFor(k) == {req[r].refund : r \in {q \in Requests : Answered(q) /\ req[q].key = k}}

Contract == INSTANCE RefundContract WITH
    YooKassaPayments <- {p \in Payments : AdapterOf[p] = "yookassa"},
    Ids              <- Requests,
    given            <- ops,
    record           <- [k \in Keys |-> {refunds[q] : q \in RecordsOf(k)}],
    told             <- [k \in Keys |-> AnswersFor(k)]

(* Requests that miss each other's record, SaveRefunds that fail or are    *)
(* refused, answers lost at the provider and restarts: with the database   *)
(* all of it is a behaviour of RefundContract, each step one of its steps  *)
(* or nothing a merchant can notice (refunds/handler.go create,            *)
(* postgres_store.go SaveRefund, yookassa_adapter.go Refund).              *)
ContractIsKept == Contract!Spec

(* Whoever repeats a refund's key is never told a different story: any two *)
(* answers for it are the same, or one is the refund as it was requested   *)
(* and the other what came of it, whichever requests missed each other's   *)
(* record, lost an answer or failed to store one (refunds/handler.go       *)
(* create, the error of the second SaveRefund).                            *)
OneStory == Durable => Contract!OneStory
=============================================================================
