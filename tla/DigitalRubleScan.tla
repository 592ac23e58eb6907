------------------------------ MODULE DigitalRubleScan ------------------------------
(***************************************************************************)
(* The gateway as a payer with a digital ruble wallet sees it: the         *)
(* orchestrator's goroutines issue QR codes, the goroutines of             *)
(* DigitalRubleSandboxHandler settle them, codes expire, the gateway       *)
(* restarts.  No provider keeps books: what the handler stores is all      *)
(* there is of the payment.                                                *)
(*                                                                         *)
(* A scan names a payment and may name a code.  The handler works on the   *)
(* record it finds by payment_id, which is of the last code issued, or of  *)
(* no code, if another adapter or a refusal came later.                    *)
(***************************************************************************)
EXTENDS Orchestrator, MarkedMoney

CONSTANTS
    Scans,    \* POST /sandbox/digital-ruble/scan requests, each sent once
    Wallets,  \* the payer wallets they name
    Purchase  \* what each key's payment is for: its category and amount

ASSUME PurchaseAssumption ==
    Purchase \in [Keys -> [category: STRING, amount: Nat]]

VARIABLES
    scans,     \* the handler's local state
    expired,   \* the codes whose qr_expires_at has passed
    attempts   \* history: the codes a scan tried to pay in time, and with what

scanVars == <<scans, expired, attempts>>
vars     == <<orchVars, scanVars>>

NoScan == [pc |-> "idle", resp |-> NoResponse]

ScanAt(s, where) == scans[s].pc = where

Results == {"captured", "declined", "failed", "expired"}

-----------------------------------------------------------------------------
(* PaymentSystem of a stored response, and its qr_id: that of the code it  *)
(* was answered with.                                                      *)
IsDigitalRuble(resp) ==
    resp.ext # 0 /\ AdapterOf[ops[resp.ext].key] = "digital_ruble"

(* A scan that names no code (0) is of whatever code the record has.       *)
CodeMatches(code, resp) == code \in {0, resp.ext}

(* The status and error code of the results a scan can report.             *)
digitalRubleSandboxResult(result) ==
    CASE result = "captured" -> <<"CAPTURED", "">>
      [] result = "declined" -> <<"DECLINED", "DIGITAL_RUBLE_PAYMENT_DECLINED">>
      [] result = "failed"   -> <<"FAILED", "DIGITAL_RUBLE_TECHNICAL_ERROR">>
      [] result = "expired"  -> <<"CANCELLED", "DIGITAL_RUBLE_QR_EXPIRED">>

(* The mark is the one Send stored, made of the key's own purchase.        *)
checkDigitalRubleSmartContract(resp, wallet) ==
    LET bought == Purchase[resp.key] IN
    IF CheckMarkedMoney(wallet, RequiredMoneyMark(bought.category), bought.amount)
    THEN <<"CAPTURED", "">>
    ELSE <<"DECLINED", "DIGITAL_RUBLE_MARK_RESTRICTION_FAILED">>

(* Fault variant of Outcome: the time of the code is not looked at.        *)
OutcomeWithoutExpiry(resp, wallet, result) ==
    IF result # "captured" THEN digitalRubleSandboxResult(result)
    ELSE checkDigitalRubleSmartContract(resp, wallet)

Outcome(resp, wallet, result) ==
    IF result # "captured" THEN digitalRubleSandboxResult(result)
    ELSE IF resp.ext \in expired THEN digitalRubleSandboxResult("expired")
    ELSE checkDigitalRubleSmartContract(resp, wallet)

(* Fault variants of Update: the error of an earlier scan stays; the key   *)
(* is lost.                                                                *)
UpdateKeepingError(resp, outcome) ==
    [resp EXCEPT !.status = outcome[1], !.url = FALSE,
                 !.code = IF outcome[2] = "" THEN @ ELSE outcome[2]]
UpdateWithoutKey(resp, outcome) ==
    [resp EXCEPT !.key = NoKey, !.status = outcome[1], !.code = outcome[2], !.url = FALSE]

Update(resp, outcome) ==
    [resp EXCEPT !.status = outcome[1], !.code = outcome[2], !.url = FALSE]

-----------------------------------------------------------------------------
(* DigitalRubleSandboxHandler.ServeHTTP.                                   *)

(* From the load to the response to be stored.  A scan of an unknown       *)
(* payment, of one that is not a digital ruble payment, or of another      *)
(* code, and one whose lookup fails, is answered with an error and changes *)
(* nothing.                                                                *)
Scan(s, p, code, wallet, result) ==
    LET stored == byPaymentID[p] IN
    /\ ScanAt(s, "idle")
    /\ Found(stored)
    /\ IsDigitalRuble(stored)
    /\ CodeMatches(code, stored)
    /\ scans' = [scans EXCEPT ![s] =
           [pc |-> "save", resp |-> Update(stored, Outcome(stored, wallet, result))]]
    /\ attempts' = IF result = "captured" /\ stored.ext \notin expired
                   THEN attempts \cup {[code |-> stored.ext, wallet |-> wallet]}
                   ELSE attempts
    /\ UNCHANGED <<orchVars, expired>>

(* A Save that fails ends the scan with an error.                          *)
SaveScan(s) ==
    /\ ScanAt(s, "save")
    /\ \/ /\ Save(scans[s].resp)
          /\ scans' = [scans EXCEPT ![s].pc = "notify"]
          /\ UNCHANGED faults
       \/ /\ StoreError
          /\ scans' = [scans EXCEPT ![s].pc = "done"]
    /\ UNCHANGED <<req, byPayment, sessions, ops, notices, expired, attempts>>

NotifyScan(s) ==
    /\ ScanAt(s, "notify")
    /\ Deliver(scans[s].resp, "webhook")
    /\ scans' = [scans EXCEPT ![s].pc = "done"]
    /\ UNCHANGED <<storeVars, req, byPayment, sessions, ops, faults, expired, attempts>>

-----------------------------------------------------------------------------
(* Time: DIGITAL_RUBLE_QR_TTL_SECONDS after Send.                          *)
Expire(i) ==
    /\ AdapterOf[ops[i].key] = "digital_ruble"
    /\ i \notin expired
    /\ expired' = expired \cup {i}
    /\ UNCHANGED <<orchVars, scans, attempts>>

RestartGateway ==
    /\ Restart
    /\ scans' = [s \in Scans |-> IF ScanAt(s, "idle") THEN scans[s]
                                 ELSE [scans[s] EXCEPT !.pc = "done"]]
    /\ UNCHANGED <<expired, attempts>>

Init ==
    /\ OrchInit
    /\ scans = [s \in Scans |-> NoScan]
    /\ expired = {}
    /\ attempts = {}

OrchStep(r) == CreatePayment(r) /\ UNCHANGED scanVars
Arrive(r, k) == Receive(r, k) /\ UNCHANGED scanVars

Next ==
    \/ \E r \in Requests : OrchStep(r) \/ \E k \in Keys : Arrive(r, k)
    \/ \E s \in Scans :
          \/ \E p \in Payments, code \in {0} \cup DOMAIN ops,
                w \in Wallets, result \in Results : Scan(s, p, code, w, result)
          \/ SaveScan(s)
          \/ NotifyScan(s)
    \/ \E i \in DOMAIN ops : Expire(i)
    \/ RestartGateway

Spec == Init /\ [][Next]_vars

-----------------------------------------------------------------------------
(* Properties.                                                             *)

Attempt == [code: Nat, wallet: Wallets]

TypeOK ==
    /\ OrchTypeOK
    /\ scans \in [Scans -> [pc: {"idle", "save", "notify", "done"}, resp: Stored]]
    /\ expired \subseteq DOMAIN ops
    /\ attempts \subseteq Attempt

(* The payer tried to pay code i in time, with a wallet that holds enough  *)
(* money of the mark the purchase needs.                                   *)
Honoured(i) ==
    LET bought == Purchase[ops[i].key] IN
    \E a \in attempts :
        /\ a.code = i
        /\ walletMarkedBalance(a.wallet)[RequiredMoneyMark(bought.category)]
               >= bought.amount

(* A digital ruble payment is CAPTURED, in the store, in an answer or in a *)
(* notification, only if its own code was paid in time and with money of   *)
(* the right mark: not by a scan of the payment's other code, of a refused *)
(* payment, or of a code that expired between two scans                    *)
(* (digital_ruble_sandbox_handler.go ServeHTTP, marked_money.go).          *)
HonouredIfCaptured(resp) ==
    (resp.status = "CAPTURED" /\ AdapterOf[resp.key] = "digital_ruble") =>
        /\ resp.ext \in DOMAIN ops
        /\ ops[resp.ext].key = resp.key
        /\ Honoured(resp.ext)

CapturedWasHonoured ==
    /\ \A k \in Keys : HonouredIfCaptured(byIdempotency[k])
    /\ \A p \in Payments : HonouredIfCaptured(byPaymentID[p])
    /\ \A r \in Requests : Received(r) => HonouredIfCaptured(req[r].resp)
    /\ \A n \in notices :
          (n.status = "CAPTURED" /\ AdapterOf[n.key] = "digital_ruble") =>
              \E i \in KnownOps(n.key) : Honoured(i)

(* Scans may follow each other in any order of outcomes: a record says why *)
(* a payment failed exactly when it failed, and a captured one has lost    *)
(* the error of an earlier scan (digital_ruble_sandbox_handler.go          *)
(* ServeHTTP, orchestrator.go failAndSave, callback.go).                   *)
OutcomeIsExplained ==
    \A k \in Keys : Found(byIdempotency[k]) =>
        (byIdempotency[k].code # "") <=>
            (byIdempotency[k].status \in {"DECLINED", "FAILED", "CANCELLED"})
=============================================================================
