------------------------------ MODULE YooKassaGateway ------------------------------
(***************************************************************************)
(* The gateway as YooKassa and a merchant see it: the orchestrator's       *)
(* goroutines, the goroutines of YooKassaWebhookHandler that update the    *)
(* same records, the buyer who pays or lets an operation be cancelled, and *)
(* restarts.                                                                *)
(*                                                                         *)
(* YooKassa sends a notification once an operation is final and repeats it *)
(* until it is answered with 200: unacked is the set of operations it has  *)
(* still something to say about.  A second goroutine may take up the       *)
(* notification while a first one is at work on it, and an answer of the   *)
(* first does not stop the second.                                         *)
(***************************************************************************)
EXTENDS Orchestrator, FiniteSets, Functions

CONSTANT Hooks   \* goroutines of the webhook handler

VARIABLES
    hooks,    \* their local state
    unacked   \* the operations whose final status YooKassa has yet to deliver

hookVars == <<hooks, unacked>>
vars     == <<orchVars, hookVars>>

(* op is the operation a notification is about, status the payment status  *)
(* the handler derived from it, resp the response it is about to store.    *)
NoHook == [pc |-> "idle", op |-> 0, status |-> "", resp |-> NoResponse]

HookAt(h, where) == hooks[h].pc = where

-----------------------------------------------------------------------------
(* The buyer and YooKassa.                                                 *)

(* The buyer knows the payment page from a response the merchant received. *)
PageKnown(i) ==
    \E r \in Requests : Received(r) /\ req[r].resp.ext = i /\ req[r].resp.url

Settle(i, status) ==
    /\ AdapterOf[ops[i].key] = "yookassa"
    /\ ops[i].status = "pending"
    /\ ops' = [ops EXCEPT ![i].status = status]
    /\ unacked' = unacked \cup {i}
    /\ UNCHANGED <<storeVars, req, byPayment, sessions, notices, faults, hooks>>

Pay(i)    == PageKnown(i) /\ Settle(i, "succeeded")
Cancel(i) == Settle(i, "canceled")

(* The acknowledgement of a notification is lost on the way.               *)
Resend(i) ==
    /\ ops[i].status \in ProviderFinal
    /\ AdapterOf[ops[i].key] = "yookassa"
    /\ i \notin unacked
    /\ Fault
    /\ unacked' = unacked \cup {i}
    /\ UNCHANGED <<storeVars, req, byPayment, sessions, ops, notices, hooks>>

-----------------------------------------------------------------------------
(* YooKassaWebhookHandler.ServeHTTP.                                       *)

(* The notification carries the metadata Send gave the operation.  Whether *)
(* fetchPayment answers or the handler falls back on the notification's    *)
(* body, the status is the operation's: only final ones are announced.     *)
ReceiveHook(h, i) ==
    /\ HookAt(h, "idle")
    /\ i \in unacked
    /\ hooks' = [hooks EXCEPT ![h].pc = "load", ![h].op = i,
                              ![h].status = mapYooKassaStatus(ops[i].status)]
    /\ UNCHANGED <<orchVars, unacked>>

(* Fault variants of Update: the response of a payment the store does not  *)
(* have is built without its key; every notification is one of a capture.  *)
UpdateKeyForgotten(stored, h) ==
    [stored EXCEPT !.status = hooks[h].status, !.code = YooKassaErrorCode(hooks[h].status),
                   !.ext = hooks[h].op, !.url = FALSE]
UpdateCaptured(stored, h) ==
    [stored EXCEPT !.key = ops[hooks[h].op].key, !.status = "CAPTURED",
                   !.code = "", !.ext = hooks[h].op, !.url = FALSE]

(* The handler's changes to the response it loaded or built.               *)
Update(stored, h) ==
    [stored EXCEPT !.key = ops[hooks[h].op].key, !.status = hooks[h].status,
                   !.code = YooKassaErrorCode(hooks[h].status),
                   !.ext = hooks[h].op, !.url = FALSE]

(* loadOrBuildResponse: a lookup that fails counts as nothing found.       *)
LoadHook(h) ==
    LET k == ops[hooks[h].op].key IN
    /\ HookAt(h, "load")
    /\ \/ /\ hooks' = [hooks EXCEPT ![h].pc = "save",
                           ![h].resp = Update(GetByIdempotencyKey(k), h)]
          /\ UNCHANGED faults
       \/ /\ Durable
          /\ Fault
          /\ hooks' = [hooks EXCEPT ![h].pc = "save", ![h].resp = Update(NoResponse, h)]
    /\ UNCHANGED <<storeVars, req, byPayment, sessions, ops, notices, unacked>>

(* Fault variants of SaveHook: the merchant is notified before the record  *)
(* is written; a failed write is acknowledged all the same.                *)
SaveHookAfterNotice(h) ==
    /\ HookAt(h, "save")
    /\ Deliver(hooks[h].resp, "webhook")
    /\ \/ Save(hooks[h].resp) /\ UNCHANGED faults
       \/ StoreError
    /\ hooks' = [hooks EXCEPT ![h].pc = "notify"]
    /\ UNCHANGED <<req, byPayment, sessions, ops, unacked>>

SaveHookAcknowledged(h) ==
    /\ HookAt(h, "save")
    /\ \/ /\ Save(hooks[h].resp)
          /\ hooks' = [hooks EXCEPT ![h].pc = "notify"]
          /\ UNCHANGED <<faults, unacked>>
       \/ /\ StoreError
          /\ hooks' = [hooks EXCEPT ![h] = NoHook]
          /\ unacked' = unacked \ {hooks[h].op}
    /\ UNCHANGED <<req, byPayment, sessions, ops, notices>>

(* A Save that fails is answered with 500, and YooKassa will repeat.       *)
SaveHook(h) ==
    /\ HookAt(h, "save")
    /\ \/ /\ Save(hooks[h].resp)
          /\ hooks' = [hooks EXCEPT ![h].pc = "notify"]
          /\ UNCHANGED faults
       \/ /\ StoreError
          /\ hooks' = [hooks EXCEPT ![h] = NoHook]
    /\ UNCHANGED <<req, byPayment, sessions, ops, notices, unacked>>

(* Notify, then 200 whether or not the merchant took the notification.     *)
NotifyHook(h) ==
    /\ HookAt(h, "notify")
    /\ Deliver(hooks[h].resp, "webhook")
    /\ hooks' = [hooks EXCEPT ![h] = NoHook]
    /\ unacked' = unacked \ {hooks[h].op}
    /\ UNCHANGED <<storeVars, req, byPayment, sessions, ops, faults>>

HandleHook(h) == LoadHook(h) \/ SaveHook(h) \/ NotifyHook(h)

-----------------------------------------------------------------------------
RestartGateway ==
    /\ Restart
    /\ hooks' = [h \in Hooks |-> NoHook]
    /\ UNCHANGED unacked

Init ==
    /\ OrchInit
    /\ hooks = [h \in Hooks |-> NoHook]
    /\ unacked = {}

OrchStep(r) == CreatePayment(r) /\ UNCHANGED hookVars
Arrive(r, k) == Receive(r, k) /\ UNCHANGED hookVars

Next ==
    \/ \E r \in Requests : OrchStep(r) \/ \E k \in Keys : Arrive(r, k)
    \/ \E i \in DOMAIN ops : Pay(i) \/ Cancel(i) \/ Resend(i)
    \/ \E h \in Hooks : HandleHook(h) \/ \E i \in unacked : ReceiveHook(h, i)
    \/ RestartGateway

Spec == Init /\ [][Next]_vars

(* The goroutines of the server run on, YooKassa repeats what it has not   *)
(* been acknowledged.  Nobody is obliged to send a request, to pay, or to  *)
(* make a store operation or a delivery succeed: MaxFaults ends the        *)
(* failures of the store, and a lost provider answer ends in a retry.      *)
Fairness ==
    /\ \A r \in Requests : WF_vars(OrchStep(r))
    /\ \A h \in Hooks : WF_vars(HandleHook(h))
    /\ WF_vars(\E h \in Hooks, i \in unacked : ReceiveHook(h, i))

FairSpec == Spec /\ Fairness

-----------------------------------------------------------------------------
(* Properties.                                                             *)

Hook      == [pc: {"idle", "load", "save", "notify"}, op: Nat,
              status: Statuses \cup {""}, resp: Stored]

TypeOK ==
    /\ OrchTypeOK
    /\ hooks \in [Hooks -> Hook]
    /\ unacked \subseteq DOMAIN ops

(* A response that says CAPTURED names an operation of its own key that    *)
(* the provider really captured.                                           *)
Backed(resp) ==
    resp.status = "CAPTURED" =>
        /\ resp.ext \in DOMAIN ops
        /\ ops[resp.ext].key = resp.key
        /\ ops[resp.ext].status = "succeeded"

(* No record, no response a merchant was given and no notification it was  *)
(* sent says CAPTURED of a payment the provider did not capture, whatever  *)
(* is lost, repeated, overtaken or restarted in between                    *)
(* (orchestrator.go CreatePayment, yookassa_handler.go ServeHTTP).         *)
CapturedIsBacked ==
    /\ \A k \in Keys : Backed(byIdempotency[k])
    /\ \A p \in Payments : Backed(byPaymentID[p])
    /\ \A r \in Requests : Received(r) => Backed(req[r].resp)
    /\ \A n \in notices : n.status = "CAPTURED" =>
           \E i \in DOMAIN ops : ops[i] = Operation(n.key, "succeeded")

(* A request opens one payment operation at most, however often it calls   *)
(* the adapter, whatever answers are lost and whenever the gateway         *)
(* restarts, and with every adapter: most of them would open another one   *)
(* for each call.  A request that is replayed or refused opens none        *)
(* (orchestrator.go CreatePayment, the retry loop; retry.go ShouldRetry).  *)
(* The operations can then be told apart by the requests that sent them.   *)
SentBy(i, r) == req[r].calls > 0 /\ ValidatedKey(r) = ops[i].key

OneOperationPerRequest ==
    \E sender \in Injection(DOMAIN ops, Requests) :
        \A i \in DOMAIN ops : SentBy(i, sender[i])

(* What the webhook handler tells the merchant it has stored before        *)
(* (yookassa_handler.go ServeHTTP: Save, then Notify).                     *)
WebhookNoticeWasSaved ==
    \A n \in notices : n.by = "webhook" =>
        \E resp \in saved[n.key] : resp.status = n.status

(* A response made of a provider's answer counts the repeated calls, and   *)
(* no request calls the provider more than maxAttempts times               *)
(* (orchestrator.go CreatePayment, retry.go).                              *)
AttemptsAreCounted ==
    \A r \in Requests :
        /\ req[r].calls <= maxAttempts
        /\ (req[r].pc \in {"notify", "save"} => req[r].resp.retry = req[r].calls - 1)

(* Once YooKassa has been told 200 of a paid operation, the record of its  *)
(* key in the database says CAPTURED, unless two requests for the key were *)
(* answered with what they did themselves: after store failures, restarts, *)
(* lost acknowledgements and while other handlers are at work alike        *)
(* (yookassa_handler.go ServeHTTP, orchestrator.go CreatePayment).         *)
PaidIsRecorded ==
    Durable => \A i \in DOMAIN ops :
        LET k == ops[i].key
            answered(r) == At(r, "replied") /\ ValidatedKey(r) = k IN
        (/\ AdapterOf[k] = "yookassa"
         /\ ops[i].status = "succeeded"
         /\ i \notin unacked
         /\ \A q, r \in Requests : (answered(q) /\ answered(r)) => q = r)
            => byIdempotency[k].status = "CAPTURED"

(* The record of a payment is the current record of the key it was made    *)
(* with: a reader by payment_id and a reader by idempotency key never see  *)
(* two different outcomes of it (inmemory_store.go Save).                  *)
StoreViewsAgree ==
    \A p \in Payments :
        Found(byPaymentID[p]) => byPaymentID[p] = byIdempotency[byPaymentID[p].key]

(* A key is settled once something is stored for it and no goroutine that  *)
(* missed the record is still at work on it; unless it is also sent with   *)
(* spaces around it, which the lookup takes for another key.               *)
Settled(k) ==
    /\ \A j \in Keys : TrimmedKey[j] = k => j = k
    /\ Found(byIdempotency[k])
    /\ \A r \in Requests : req[r].key = k => req[r].pc \notin Working

(* The records of an in-memory store go with the process.                  *)
StoreLost == ~Durable /\ \A k \in Keys : ~Found(byIdempotency'[k])

(* A settled key stays settled while the store is there: no request, retry *)
(* or webhook that comes later makes an adapter call for it, with any      *)
(* provider (orchestrator.go CreatePayment, idempotency check).            *)
SettledForGood ==
    [][\A k \in Keys : (Settled(k) /\ ~StoreLost) =>
          /\ Settled(k)'
          /\ \A i \in DOMAIN ops' \ DOMAIN ops : ops'[i].key # k]_vars

(* A settled record that has the status of its final operation keeps it:   *)
(* no repeated notification and no request brings back an earlier status   *)
(* (yookassa_handler.go ServeHTTP).                                        *)
InStep(k) ==
    /\ Settled(k)
    /\ \E i \in KnownOps(k) :
          /\ ops[i].status \in ProviderFinal
          /\ byIdempotency[k].status = mapYooKassaStatus(ops[i].status)

InStepForGood ==
    [][\A k \in Keys : (InStep(k) /\ ~StoreLost) =>
          InStep(k)' /\ byIdempotency'[k].status = byIdempotency[k].status]_vars

(* Every request that arrived ends: with a response, with an error, or     *)
(* with the process (orchestrator.go CreatePayment, the retry loop).       *)
RequestsEnd ==
    \A r \in Requests : At(r, "lookup") ~> req[r].pc \in Ended

(* What the buyer paid is stored as CAPTURED at some time: the webhook is  *)
(* acknowledged only after Save (yookassa_handler.go ServeHTTP).           *)
CaptureIsSaved ==
    \A k \in Keys :
        (\E i \in KnownOps(k) : ops[i].status = "succeeded" /\ AdapterOf[k] = "yookassa")
            ~> (\E resp \in saved[k] : resp.status = "CAPTURED")
-----------------------------------------------------------------------------
(* What the gateway promises, and how its state shows it.                  *)

YooKassaKeys == {k \in Keys : AdapterOf[k] = "yookassa"}

Charges(k) ==
    [s \in {"pending", "succeeded", "canceled"} |->
        Cardinality({i \in KnownOps(k) : ops[i].status = s})]

(* What a response says of the payment.                                    *)
Meaning(resp) ==
    IF resp.status \in {"PENDING", "CAPTURED"} THEN resp.status
    ELSE IF resp.code = "YOOKASSA_PAYMENT_DECLINED" THEN "CANCELED"
    ELSE "FAILED"

(* By a stored response, by an answer, by a notification.  The status of a *)
(* notification does not say whose refusal it is of.                       *)
Told(k) ==
    {Meaning(resp) : resp \in saved[k]}
    \cup {Meaning(req[r].resp) : r \in {q \in Requests : Received(q) /\ req[q].resp.key = k}}
    \cup ({n.status : n \in {m \in notices : m.key = k}} \cap {"PENDING", "CAPTURED"})

Contract == INSTANCE PaymentContract WITH
    Keys    <- YooKassaKeys,
    charges <- [k \in YooKassaKeys |-> Charges(k)],
    told    <- [k \in YooKassaKeys |-> Told(k)]

(* Two handlers that read, call and write in between each other, the       *)
(* retries of one and the repeated notifications of the other, failed      *)
(* writes and restarts: all of it is a behaviour of PaymentContract, each  *)
(* step one of its steps or nothing a merchant can notice                  *)
(* (orchestrator.go CreatePayment, yookassa_handler.go ServeHTTP,          *)
(* yookassa_adapter.go Send).                                              *)
ContractIsKept == Contract!Spec

-----------------------------------------------------------------------------
(* What the documentation says of the program, and the code does not do.   *)

(* "This protects against a repeated charge when the merchant sends the    *)
(* same request again" (DIPLOMA_CHAPTER2_CODE_CONTEXT.md, Idempotency):    *)
(* the providers capture one operation for a key at most.                  *)
SingleCharge ==
    \A i, j \in DOMAIN ops :
        (/\ ops[i].key = ops[j].key
         /\ ops[i].status = "succeeded"
         /\ ops[j].status = "succeeded") => i = j

(* "If there is already a transaction with this key, the gateway does not  *)
(* run the validation, the antifraud, the tokenization and the adapter     *)
(* again, but returns the stored response"                                 *)
(* (DIPLOMA_CHAPTER2_CODE_CONTEXT.md, Idempotency): a request whose key    *)
(* another one has been answered for is not processed.                     *)
RepeatIsReplayed ==
    [][\A q, r \in Requests :
          (At(q, "replied") /\ At(r, "lookup") /\ req[q].key = req[r].key)
              => ~At(r, "prepare")']_vars

(* "The final status is updated through /webhooks/yookassa" (README.md):   *)
(* a record that has it is not given another one.                          *)
CapturedStays ==
    [][\A k \in Keys : byIdempotency[k].status = "CAPTURED" =>
          byIdempotency'[k].status = "CAPTURED"]_vars
=============================================================================
