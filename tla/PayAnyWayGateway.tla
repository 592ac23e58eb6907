------------------------------ MODULE PayAnyWayGateway ------------------------------
(***************************************************************************)
(* The gateway as PayAnyWay and a merchant see it: the orchestrator's      *)
(* goroutines, the goroutines of PayAnyWayWebhookHandler, the buyer who    *)
(* pays on the payment form, and restarts.                                 *)
(*                                                                         *)
(* Unlike YooKassa, PayAnyWay learns of a payment from the link the buyer  *)
(* opens, and the link names the payment only: neither the link nor the    *)
(* notification (the Pay URL) has the idempotency key.  The handler takes  *)
(* the key of the record it finds by payment_id; without one it files the  *)
(* payment under MNT_TRANSACTION_ID, which is the payment_id.              *)
(***************************************************************************)
EXTENDS Orchestrator

CONSTANTS
    Hooks,          \* goroutines of the webhook handler
    TransactionKey  \* the key that reads like a payment's payment_id

ASSUME TransactionKeyAssumption ==
    /\ TransactionKey \in [Payments -> Keys]
    /\ \A p \in Payments : /\ PaymentOf[TransactionKey[p]] = p
                           /\ AdapterOf[TransactionKey[p]] = "payanyway"

VARIABLES
    hooks,    \* their local state
    unacked   \* the operations whose Pay URL has yet to be answered

hookVars == <<hooks, unacked>>
vars     == <<orchVars, hookVars>>

(* op is the operation a Pay URL is about, resp the response to be stored. *)
NoHook == [pc |-> "idle", op |-> 0, resp |-> NoResponse]

HookAt(h, where) == hooks[h].pc = where

PaymentOfOp(i) == PaymentOf[ops[i].key]

-----------------------------------------------------------------------------
(* The buyer and PayAnyWay.                                                *)

(* A merchant has the link from a response it received.                    *)
FormKnown(p) ==
    \E r \in Requests :
        /\ Received(r)
        /\ req[r].resp.url
        /\ PaymentOf[req[r].resp.key] = p
        /\ AdapterOf[req[r].resp.key] = "payanyway"

(* PayAnyWay takes a payment of one transaction id once.                   *)
Pay(p) ==
    /\ FormKnown(p)
    /\ \A i \in DOMAIN ops :
          AdapterOf[ops[i].key] = "payanyway" => PaymentOfOp(i) # p
    /\ ops' = Append(ops, Operation(TransactionKey[p], "succeeded"))
    /\ unacked' = unacked \cup {Len(ops) + 1}
    /\ UNCHANGED <<storeVars, req, byPayment, sessions, notices, faults, hooks>>

(* The acknowledgement of a Pay URL is lost on the way.                    *)
Resend(i) ==
    /\ AdapterOf[ops[i].key] = "payanyway"
    /\ i \notin unacked
    /\ Fault
    /\ unacked' = unacked \cup {i}
    /\ UNCHANGED <<storeVars, req, byPayment, sessions, ops, notices, hooks>>

-----------------------------------------------------------------------------
(* PayAnyWayWebhookHandler.ServeHTTP, for a Pay URL whose fields and       *)
(* signature are right: the others change nothing.                         *)

ReceivePayURL(h, i) ==
    /\ HookAt(h, "idle")
    /\ i \in unacked
    /\ hooks' = [hooks EXCEPT ![h].pc = "load", ![h].op = i]
    /\ UNCHANGED <<orchVars, unacked>>

(* Fault variants of Update: a built response has no key; the operation is *)
(* not noted; the payment is always filed under its transaction id.        *)
UpdateKeyForgotten(stored, i) ==
    [stored EXCEPT !.status = "CAPTURED", !.code = "", !.ext = i, !.url = FALSE]
UpdateStatusOnly(stored, i) ==
    [stored EXCEPT !.key = IF @ = NoKey THEN TransactionKey[PaymentOfOp(i)] ELSE @,
                   !.status = "CAPTURED", !.code = "", !.url = FALSE]
UpdateFiledByTransaction(stored, i) ==
    [stored EXCEPT !.key = TransactionKey[PaymentOfOp(i)],
                   !.status = "CAPTURED", !.code = "", !.ext = i, !.url = FALSE]

(* The handler's changes to the response it loaded or built.               *)
Update(stored, i) ==
    [stored EXCEPT !.key = IF @ = NoKey THEN TransactionKey[PaymentOfOp(i)] ELSE @,
                   !.status = "CAPTURED", !.code = "", !.ext = i, !.url = FALSE]

(* loadOrBuildResponse: a lookup that fails counts as nothing found.       *)
LoadHook(h) ==
    LET i == hooks[h].op
        ready(stored) ==
            hooks' = [hooks EXCEPT ![h].pc = "save", ![h].resp = Update(stored, i)] IN
    /\ HookAt(h, "load")
    /\ \/ ready(byPaymentID[PaymentOfOp(i)]) /\ UNCHANGED faults
       \/ Durable /\ Fault /\ ready(NoResponse)
    /\ UNCHANGED <<storeVars, req, byPayment, sessions, ops, notices, unacked>>

(* Fault variant of SaveHook: a failed write is acknowledged all the same. *)
SaveHookAcknowledged(h) ==
    /\ HookAt(h, "save")
    /\ \/ /\ Save(hooks[h].resp)
          /\ hooks' = [hooks EXCEPT ![h].pc = "notify"]
          /\ UNCHANGED <<faults, unacked>>
       \/ /\ StoreError
          /\ hooks' = [hooks EXCEPT ![h] = NoHook]
          /\ unacked' = unacked \ {hooks[h].op}
    /\ UNCHANGED <<req, byPayment, sessions, ops, notices>>

(* A Save that fails is answered with 500, and PayAnyWay will repeat.      *)
SaveHook(h) ==
    /\ HookAt(h, "save")
    /\ \/ /\ Save(hooks[h].resp)
          /\ hooks' = [hooks EXCEPT ![h].pc = "notify"]
          /\ UNCHANGED faults
       \/ /\ StoreError
          /\ hooks' = [hooks EXCEPT ![h] = NoHook]
    /\ UNCHANGED <<req, byPayment, sessions, ops, notices, unacked>>

(* Notify, then the receipt with MNT_RESULT_CODE 200.                      *)
NotifyHook(h) ==
    /\ HookAt(h, "notify")
    /\ Deliver(hooks[h].resp, "webhook")
    /\ hooks' = [hooks EXCEPT ![h] = NoHook]
    /\ unacked' = unacked \ {hooks[h].op}
    /\ UNCHANGED <<storeVars, req, byPayment, sessions, ops, faults>>

HandleHook(h) == LoadHook(h) \/ SaveHook(h) \/ NotifyHook(h)

-----------------------------------------------------------------------------
RestartGateway ==
    /\ Restart
    /\ hooks' = [h \in Hooks |-> NoHook]
    /\ UNCHANGED unacked

Init ==
    /\ OrchInit
    /\ hooks = [h \in Hooks |-> NoHook]
    /\ unacked = {}

OrchStep(r) == CreatePayment(r) /\ UNCHANGED hookVars
Arrive(r, k) == Receive(r, k) /\ UNCHANGED hookVars

Next ==
    \/ \E r \in Requests : OrchStep(r) \/ \E k \in Keys : Arrive(r, k)
    \/ \E p \in Payments : Pay(p)
    \/ \E i \in DOMAIN ops : Resend(i)
    \/ \E h \in Hooks : HandleHook(h) \/ \E i \in unacked : ReceivePayURL(h, i)
    \/ RestartGateway

Spec == Init /\ [][Next]_vars

-----------------------------------------------------------------------------
(* Properties.                                                             *)

Hook == [pc: {"idle", "load", "save", "notify"}, op: Nat, resp: Stored]

TypeOK ==
    /\ OrchTypeOK
    /\ hooks \in [Hooks -> Hook]
    /\ unacked \subseteq DOMAIN ops

(* A response that says CAPTURED names an operation the buyer really paid, *)
(* and one of its own payment.                                             *)
Paid(resp) ==
    resp.status = "CAPTURED" =>
        /\ resp.ext \in DOMAIN ops
        /\ PaymentOfOp(resp.ext) = PaymentOf[resp.key]
        /\ ops[resp.ext].status = "succeeded"

(* No record and no answer says CAPTURED of a payment nobody paid, in      *)
(* whatever order the requests of the payment, its Pay URLs, failed        *)
(* lookups and restarts come: though the handler captures whatever record  *)
(* it finds, an earlier refusal included, and makes one up if it finds     *)
(* none (payanyway_handler.go ServeHTTP, loadOrBuildResponse).             *)
CapturedIsPaid ==
    /\ \A k \in Keys : Paid(byIdempotency[k])
    /\ \A p \in Payments : Paid(byPaymentID[p])
    /\ \A r \in Requests : Received(r) => Paid(req[r].resp)

(* A request that found no record and can still write one, or has.         *)
Writes(r, p) ==
    /\ req[r].pc \in Working \cup {"replied"}
    /\ p \in {PaymentOf[req[r].key], PaymentOf[ValidatedKey(r)]}

(* Once PayAnyWay has its receipt, the status of the payment reads         *)
(* CAPTURED by payment_id, through failed lookups and writes, repetitions  *)
(* and restarts of a gateway with a database; and by the idempotency key   *)
(* of the request the buyer got the link from, when no store operation     *)
(* failed.  Unless a second request of the payment has found no record     *)
(* (payanyway_handler.go ServeHTTP, status_handler.go).                    *)
PaidIsShown ==
    \A i \in DOMAIN ops :
        LET p == PaymentOfOp(i) IN
        (/\ AdapterOf[ops[i].key] = "payanyway"
         /\ i \notin unacked
         /\ \A h \in Hooks : hooks[h].pc # "idle" => hooks[h].op # i
         /\ \A q, r \in Requests : (Writes(q, p) /\ Writes(r, p)) => q = r)
            => /\ byPaymentID[p].status = "CAPTURED"
               /\ \A r \in Requests :
                     (faults = 0 /\ At(r, "replied") /\ Writes(r, p))
                         => byIdempotency[req[r].resp.key].status = "CAPTURED"

(* A payment gets a second record, under its transaction id, only when     *)
(* something failed: a lookup, the Save whose error CreatePayment drops,   *)
(* or the process (payanyway_handler.go loadOrBuildResponse).              *)
NoStrayRecord ==
    \A p \in Payments :
        (/\ faults = 0
         /\ \A r \in Requests : ~At(r, "idle") =>
                TransactionKey[p] \notin {req[r].key, ValidatedKey(r)})
            => ~Found(byIdempotency[TransactionKey[p]])
=============================================================================
