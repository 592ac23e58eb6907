------------------------------- MODULE Orchestrator -------------------------------
(***************************************************************************)
(* SimpleOrchestrator.CreatePayment, run by one goroutine per HTTP request *)
(* over the transaction store every handler shares, and the part of the    *)
(* payment providers its adapters reach.                                    *)
(*                                                                         *)
(* A request is a member of Requests.  Its record in req holds the local   *)
(* variables of CreatePayment and the point it has reached:                *)
(*                                                                         *)
(*   idle -> lookup -> prepare -> send -> answering -> notify -> save      *)
(*             |          |         ^---------'                  |         *)
(*             |          '-> notifyRefusal -> saveRefusal       |         *)
(*             v                                     v           v         *)
(*      replayed, errored                   replied, errored   replied     *)
(*                                                                         *)
(* A step ends where the handler calls something another handler can       *)
(* observe or be overtaken in: a store operation, an adapter call, a       *)
(* notification.  The state manager and the workflow engine are written    *)
(* and never read, so their writes ride on the neighbouring step.          *)
(***************************************************************************)
EXTENDS PaymentStatus, Sequences

CONSTANTS
    Requests,    \* POST /payments requests, each sent once (a retry is another one)
    Keys,        \* (merchant_id, idempotency_key) pairs, as they are sent
    Payments,    \* (merchant_id, payment_id) pairs
    TrimmedKey,  \* a pair without the spaces around its parts
    PaymentOf,   \* the payment an idempotency key was made for
    AdapterOf,   \* the adapter the routing resolves a key's payment to
    Durable,     \* PostgresTransactionStore (TRUE) or InMemoryTransactionStore
    MaxFaults    \* bound on restarts, failed store operations, repeated webhooks

Adapters == {"yookassa", "simulated", "digital_ruble", "payanyway"}

ASSUME PaymentOfAssumption == PaymentOf \in [Keys -> Payments]
ASSUME TrimmedKeyAssumption ==
    /\ TrimmedKey \in [Keys -> Keys]
    /\ \A k \in Keys : TrimmedKey[TrimmedKey[k]] = TrimmedKey[k]
ASSUME AdapterOfAssumption == AdapterOf \in [Keys -> Adapters]
ASSUME DurableAssumption   == Durable \in BOOLEAN
ASSUME MaxFaultsAssumption == MaxFaults \in Nat

VARIABLES
    byIdempotency,  \* the store's record of each idempotency key
    byPaymentID,    \* the store's record of each payment
    req,            \* the CreatePayment goroutines
    byPayment,      \* inMemoryStateManager
    sessions,       \* simpleWorkflowEngine: the session of each request
    ops,            \* the providers: every payment operation they ever opened
    notices,        \* what the merchant's callback URL received
    saved,          \* history: the responses ever stored under a key
    faults          \* how much of MaxFaults is used up

storeVars == <<byIdempotency, byPaymentID, saved>>
orchVars == <<byIdempotency, byPaymentID, req, byPayment, sessions, ops,
              notices, saved, faults>>

-----------------------------------------------------------------------------
(* Data.                                                                   *)

(* dto.PaymentResponse, reduced to what the properties tell apart: the key *)
(* it belongs to, CurrentStatus, Error.Code, ExternalTransactionID (the    *)
(* position in ops, 0 for none), whether it carries a PaymentURL, and      *)
(* RetryCount.                                                             *)
Codes ==
    {"", "VALIDATION_ERROR", "ANTIFRAUD_ERROR", "ANTIFRAUD_DECLINED",
     "ROUTING_ERROR", "TOKENIZATION_ERROR", "ADAPTER_FACTORY_ERROR",
     "PROVIDER_UNAVAILABLE", "YOOKASSA_PAYMENT_DECLINED",
     "DIGITAL_RUBLE_PAYMENT_DECLINED", "DIGITAL_RUBLE_TECHNICAL_ERROR",
     "DIGITAL_RUBLE_QR_EXPIRED", "DIGITAL_RUBLE_MARK_RESTRICTION_FAILED"}

Response ==
    [key: Keys, status: Statuses, code: Codes, ext: Nat, url: BOOLEAN, retry: Nat]

(* The zero value: a key nothing is stored under, a result not yet there.  *)
NoResponse ==
    [key |-> "", status |-> "", code |-> "", ext |-> 0, url |-> FALSE, retry |-> 0]

(* An adapter's AdapterResult has no key and no retry count yet.           *)
Result(k, status, code, ext, url) ==
    [key |-> k, status |-> status, code |-> code, ext |-> ext, url |-> url, retry |-> 0]

(* How a payment can end before an adapter is called, in the order of the  *)
(* checks: the status failAndSave stores and the gateway error code.       *)
Refusals ==
    {<<"FAILED", "VALIDATION_ERROR">>, <<"FAILED", "ANTIFRAUD_ERROR">>,
     <<"DECLINED", "ANTIFRAUD_DECLINED">>, <<"FAILED", "ROUTING_ERROR">>,
     <<"FAILED", "TOKENIZATION_ERROR">>, <<"FAILED", "ADAPTER_FACTORY_ERROR">>}

RefusalCodes == {f[2] : f \in Refusals}

(* pc values: where the goroutine still works on a key it did not find     *)
(* stored, and where it has ended.                                         *)
Working ==
    {"prepare", "send", "answering", "notify", "save", "notifyRefusal", "saveRefusal"}
Ended == {"replied", "replayed", "errored", "crashed"}

NoKey == ""

ASSUME NoKeyAssumption == NoKey \notin Keys

Idle  == [pc |-> "idle", key |-> NoKey, resp |-> NoResponse, retry |-> 0, calls |-> 0]

NoSession == [status |-> "", finished |-> FALSE]

At(r, where)  == req[r].pc = where
Goto(r, where) == req' = [req EXCEPT ![r].pc = where]

Fault == faults < MaxFaults /\ faults' = faults + 1

(* A response received by a merchant: fresh or from the store.             *)
Received(r) == req[r].pc \in {"replied", "replayed"}

-----------------------------------------------------------------------------
(* The transaction store.                                                  *)

(* Fault variants of Save: the record of the payment is written only the   *)
(* first time; a stored response is never replaced.                        *)
SaveFirstPayment(resp) ==
    /\ byIdempotency' = [byIdempotency EXCEPT ![resp.key] = resp]
    /\ byPaymentID' = [byPaymentID EXCEPT ![PaymentOf[resp.key]] =
                           IF @ = NoResponse THEN resp ELSE @]
    /\ saved' = [saved EXCEPT ![resp.key] = @ \cup {resp}]

Save(resp) ==
    /\ byIdempotency' = [byIdempotency EXCEPT ![resp.key] = resp]
    /\ byPaymentID' = [byPaymentID EXCEPT ![PaymentOf[resp.key]] = resp]
    /\ saved' = [saved EXCEPT ![resp.key] = @ \cup {resp}]

(* A store operation of the Postgres store can fail, the in-memory one     *)
(* cannot: a failure leaves the store as it is.                            *)
StoreError ==
    /\ Durable
    /\ Fault
    /\ UNCHANGED storeVars

(* Fault variants of GetByIdempotencyKey: it finds no pending payment; it  *)
(* finds no declined one, for the merchant to try again.                   *)
GetByIdempotencyKeyFinal(k) ==
    IF byIdempotency[k].status = "PENDING" THEN NoResponse ELSE byIdempotency[k]
GetByIdempotencyKeyUnlessDeclined(k) ==
    IF byIdempotency[k].status = "DECLINED" THEN NoResponse ELSE byIdempotency[k]

GetByIdempotencyKey(k) == byIdempotency[k]

Found(resp) == resp.status # ""

-----------------------------------------------------------------------------
(* Receipt of a request, and the idempotency check.                        *)

Receive(r, k) ==
    /\ At(r, "idle")
    /\ req' = [req EXCEPT ![r].pc = "lookup", ![r].key = k]
    /\ UNCHANGED <<storeVars, byPayment, sessions, ops, notices, faults>>

(* The stored response is the answer; nothing else happens.                *)
Replay(r) ==
    LET stored == GetByIdempotencyKey(req[r].key) IN
    /\ At(r, "lookup")
    /\ Found(stored)
    /\ req' = [req EXCEPT ![r].pc = "replayed", ![r].resp = stored]
    /\ UNCHANGED <<storeVars, byPayment, sessions, ops, notices, faults>>

LookupError(r) ==
    /\ At(r, "lookup")
    /\ StoreError
    /\ Goto(r, "errored")
    /\ UNCHANGED <<byPayment, sessions, ops, notices>>

(* Nothing stored: StartSession, SetStatus(CREATED).                       *)
Begin(r) ==
    /\ At(r, "lookup")
    /\ ~Found(GetByIdempotencyKey(req[r].key))
    /\ Goto(r, "prepare")
    /\ sessions' = [sessions EXCEPT ![r] = [status |-> "PENDING", finished |-> FALSE]]
    /\ byPayment' = [byPayment EXCEPT ![PaymentOf[req[r].key]] = "CREATED"]
    /\ UNCHANGED <<storeVars, ops, notices, faults>>

-----------------------------------------------------------------------------
(* Up to the adapter call.                                                 *)

(* The key of the validated request, which normalizeRequest has trimmed:   *)
(* the one that is routed, sent and stored.  The lookup and the state      *)
(* manager go on by the key as it was sent.                                *)
ValidatedKey(r) == TrimmedKey[req[r].key]

(* The request failAndSave is given: the one sent, if it is not valid.     *)
RefusedKey(r, f) == IF f[2] = "VALIDATION_ERROR" THEN req[r].key ELSE ValidatedKey(r)

(* Validation, the antifraud check, routing, tokenization and the adapter  *)
(* lookup all succeed; SetStatus(PENDING) after the validation.            *)
Prepare(r) ==
    /\ At(r, "prepare")
    /\ Goto(r, "send")
    /\ byPayment' = [byPayment EXCEPT ![PaymentOf[ValidatedKey(r)]] = "PENDING"]
    /\ UNCHANGED <<storeVars, sessions, ops, notices, faults>>

(* One of them fails or the antifraud blocks the payment: failAndSave      *)
(* builds the error response and sets the state manager.  The session is   *)
(* not completed.                                                          *)
Refuse(r, f) ==
    /\ At(r, "prepare")
    /\ req' = [req EXCEPT ![r].pc = "notifyRefusal",
                          ![r].resp = Result(RefusedKey(r, f), f[1], f[2], 0, FALSE)]
    /\ byPayment' = [byPayment EXCEPT ![PaymentOf[RefusedKey(r, f)]] = f[1]]
    /\ UNCHANGED <<storeVars, sessions, ops, notices, faults>>

-----------------------------------------------------------------------------
(* The adapters' Send, and the provider operations it opens.               *)

(* YooKassa answers a request that repeats an Idempotence-Key with the     *)
(* operation the first one opened.                                         *)
KnownOps(k) == {i \in DOMAIN ops : ops[i].key = k}

YooKassaErrorCode(status) ==
    IF status = "DECLINED" THEN "YOOKASSA_PAYMENT_DECLINED" ELSE ""

Operation(k, status) == [key |-> k, status |-> status]

(* SetStatus(CAPTURE_REQUESTED), then the call; its answer is on the way.  *)
(* calls counts the calls of a request (up to one too many).               *)
Call(r, answer) ==
    /\ req' = [req EXCEPT ![r].pc = "answering", ![r].resp = answer,
                          ![r].calls = IF @ > maxAttempts THEN @ ELSE @ + 1]
    /\ byPayment' = [byPayment EXCEPT ![PaymentOf[req[r].key]] = "CAPTURE_REQUESTED"]
    /\ UNCHANGED <<storeVars, sessions, notices, faults>>

OpenAtYooKassa(r) ==
    LET k == ValidatedKey(r) IN
    /\ At(r, "send")
    /\ AdapterOf[k] = "yookassa"
    /\ KnownOps(k) = {}
    /\ ops' = Append(ops, Operation(k, "pending"))
    /\ Call(r, Result(k, mapYooKassaStatus("pending"), "", Len(ops) + 1, TRUE))

RepeatAtYooKassa(r) ==
    LET k == ValidatedKey(r) IN
    /\ At(r, "send")
    /\ AdapterOf[k] = "yookassa"
    /\ \E i \in KnownOps(k) :
          LET status == mapYooKassaStatus(ops[i].status) IN
          Call(r, Result(k, status, YooKassaErrorCode(status), i,
                         ops[i].status = "pending"))
    /\ UNCHANGED ops

(* The simulated provider captures at once, whatever it was sent before.   *)
SendSimulated(r) ==
    LET k == ValidatedKey(r) IN
    /\ At(r, "send")
    /\ AdapterOf[k] = "simulated"
    /\ ops' = Append(ops, Operation(k, "succeeded"))
    /\ Call(r, Result(k, "CAPTURED", "", Len(ops) + 1, FALSE))

(* A fresh QR code for each call.                                          *)
SendDigitalRuble(r) ==
    LET k == ValidatedKey(r) IN
    /\ At(r, "send")
    /\ AdapterOf[k] = "digital_ruble"
    /\ ops' = Append(ops, Operation(k, "pending"))
    /\ Call(r, Result(k, "PENDING", "", Len(ops) + 1, TRUE))

(* A link to the payment form; PayAnyWay hears of it when the buyer opens  *)
(* it.  The result names no operation: its ExternalTransactionID is the    *)
(* gateway's own payment_id.                                               *)
SendPayAnyWay(r) ==
    LET k == ValidatedKey(r) IN
    /\ At(r, "send")
    /\ AdapterOf[k] = "payanyway"
    /\ Call(r, Result(k, "PENDING", "", 0, TRUE))
    /\ UNCHANGED ops

(* The YooKassa call ends without a usable answer: not sent, refused with  *)
(* an HTTP error, or timed out.  The operation it may have opened stays.   *)
Unavailable(k) == Result(k, "FAILED", "PROVIDER_UNAVAILABLE", 0, FALSE)

NotSent(r) ==
    /\ At(r, "send")
    /\ AdapterOf[ValidatedKey(r)] = "yookassa"
    /\ Call(r, Unavailable(ValidatedKey(r)))
    /\ UNCHANGED ops

LoseAnswer(r) ==
    /\ At(r, "answering")
    /\ AdapterOf[ValidatedKey(r)] = "yookassa"
    /\ req[r].resp.code # "PROVIDER_UNAVAILABLE"
    /\ req' = [req EXCEPT ![r].resp = Unavailable(ValidatedKey(r))]
    /\ UNCHANGED <<storeVars, byPayment, sessions, ops, notices, faults>>

-----------------------------------------------------------------------------
(* The result: again, or the response.                                     *)

(* Fault variant: the retry count stands still.                            *)
NextRetryCountStuck(current) == current
NextRetryCount(current) == current + 1

CompleteSession(r, status) ==
    sessions' = [sessions EXCEPT ![r] =
                     IF @ = NoSession THEN @ ELSE [status |-> status, finished |-> TRUE]]

(* What HandleCallback makes of the last adapter result of r.              *)
FinalResponse(r) ==
    [req[r].resp EXCEPT !.status = HandleCallbackStatus(@), !.retry = req[r].retry]

TryAgain(r) ==
    /\ At(r, "answering")
    /\ req[r].resp.status # "CAPTURED"
    /\ ShouldRetry(req[r].resp.status, req[r].retry)
    /\ req' = [req EXCEPT ![r].pc = "send", ![r].retry = NextRetryCount(@)]
    /\ UNCHANGED <<storeVars, byPayment, sessions, ops, notices, faults>>

(* HandleCallback, SetStatus, CompleteSession.                             *)
Conclude(r) ==
    LET resp == FinalResponse(r) IN
    /\ At(r, "answering")
    /\ \/ req[r].resp.status = "CAPTURED"
       \/ ~ShouldRetry(req[r].resp.status, req[r].retry)
    /\ req' = [req EXCEPT ![r].pc = "notify", ![r].resp = resp]
    /\ byPayment' = [byPayment EXCEPT ![PaymentOf[req[r].key]] = resp.status]
    /\ CompleteSession(r, resp.status)
    /\ UNCHANGED <<storeVars, ops, notices, faults>>

-----------------------------------------------------------------------------
(* Notification, storage and the reply, in the code's order.               *)

(* One POST to the merchant's callback URL; its failure is only logged.    *)
(* The gateway notifies only when it runs with a database and a URL.       *)
Deliver(resp, by) ==
    \/ /\ Durable
       /\ notices' = notices \cup {[key |-> resp.key, status |-> resp.status, by |-> by]}
    \/ UNCHANGED notices

Notify(r) ==
    /\ At(r, "notify")
    /\ Deliver(req[r].resp, "orchestrator")
    /\ Goto(r, "save")
    /\ UNCHANGED <<storeVars, byPayment, sessions, ops, faults>>

(* The result of Save is not looked at.  A restart before the reply is     *)
(* folded into one after it.                                               *)
SaveAndReply(r) ==
    /\ At(r, "save")
    /\ \/ Save(req[r].resp) /\ UNCHANGED faults
       \/ StoreError
    /\ Goto(r, "replied")
    /\ UNCHANGED <<byPayment, sessions, ops, notices>>

NotifyRefusal(r) ==
    /\ At(r, "notifyRefusal")
    /\ Deliver(req[r].resp, "orchestrator")
    /\ Goto(r, "saveRefusal")
    /\ UNCHANGED <<storeVars, byPayment, sessions, ops, faults>>

(* failAndSave returns the error of Save, and the caller gets no response. *)
SaveRefusal(r) ==
    /\ At(r, "saveRefusal")
    /\ \/ Save(req[r].resp) /\ UNCHANGED faults /\ Goto(r, "replied")
       \/ StoreError /\ Goto(r, "errored")
    /\ UNCHANGED <<byPayment, sessions, ops, notices>>

-----------------------------------------------------------------------------
(* A restart of the gateway: the goroutines, the state manager and the     *)
(* sessions are gone, and so is a store that is not durable.               *)
Restart ==
    /\ Fault
    /\ req' = [r \in Requests |-> IF req[r].pc \in Ended \cup {"idle"} THEN req[r]
                                  ELSE [req[r] EXCEPT !.pc = "crashed"]]
    /\ byPayment' = [p \in Payments |-> ""]
    /\ sessions' = [r \in Requests |-> NoSession]
    /\ IF Durable
       THEN UNCHANGED <<byIdempotency, byPaymentID>>
       ELSE /\ byIdempotency' = [k \in Keys |-> NoResponse]
            /\ byPaymentID' = [p \in Payments |-> NoResponse]
    /\ UNCHANGED <<saved, ops, notices>>

OrchInit ==
    /\ byIdempotency = [k \in Keys |-> NoResponse]
    /\ byPaymentID = [p \in Payments |-> NoResponse]
    /\ req = [r \in Requests |-> Idle]
    /\ byPayment = [p \in Payments |-> ""]
    /\ sessions = [r \in Requests |-> NoSession]
    /\ ops = <<>>
    /\ notices = {}
    /\ saved = [k \in Keys |-> {}]
    /\ faults = 0

(* What the goroutine of r does once the request is in.                    *)
CreatePayment(r) ==
    \/ Replay(r) \/ LookupError(r) \/ Begin(r)
    \/ Prepare(r) \/ \E f \in Refusals : Refuse(r, f)
    \/ OpenAtYooKassa(r) \/ RepeatAtYooKassa(r) \/ NotSent(r)
    \/ SendSimulated(r) \/ SendDigitalRuble(r) \/ SendPayAnyWay(r)
    \/ LoseAnswer(r) \/ TryAgain(r) \/ Conclude(r)
    \/ Notify(r) \/ SaveAndReply(r) \/ NotifyRefusal(r) \/ SaveRefusal(r)

-----------------------------------------------------------------------------
(* The types of the variables, for the modules that compose this one with  *)
(* the webhook handlers.                                                   *)
Stored    == Response \cup {NoResponse}
Goroutine == [pc: {"idle", "lookup"} \cup Working \cup Ended,
              key: Keys \cup {NoKey}, resp: Stored, retry: Nat, calls: Nat]
Session   == [status: Statuses \cup {""}, finished: BOOLEAN]
Op        == [key: Keys, status: {"pending", "succeeded", "canceled"}]
Notice    == [key: Keys, status: Statuses, by: {"orchestrator", "webhook"}]

OrchTypeOK ==
    /\ byIdempotency \in [Keys -> Stored]
    /\ byPaymentID \in [Payments -> Stored]
    /\ req \in [Requests -> Goroutine]
    /\ byPayment \in [Payments -> Statuses \cup {""}]
    /\ sessions \in [Requests -> Session]
    /\ ops \in Seq(Op)
    /\ notices \subseteq Notice
    /\ saved \in [Keys -> SUBSET Response]
    /\ faults \in 0..MaxFaults
=============================================================================
