-------------------------- MODULE DigitalRubleScan_proofs --------------------------
(***************************************************************************)
(* Theorems of DigitalRubleScan, for any requests, scans, keys, purchases, *)
(* wallets and routing, for both stores and any number of faults.          *)
(***************************************************************************)
EXTENDS DigitalRubleScan, Orchestrator_proofs

-----------------------------------------------------------------------------
(* Type correctness.                                                       *)

(* What a scan is about to store or send is a whole response.              *)
ScanReady(x) == x.pc \in {"save", "notify"} => x.resp \in Response

ScanState == [pc: {"idle", "save", "notify", "done"}, resp: Stored]

Typed ==
    /\ TypeOK
    /\ RequestsAreReady
    /\ \A s \in Scans : ScanReady(scans[s])

(* So the lemmas on the orchestrator apply, and a scan has its state.      *)
LEMMA TypedIsOrchTyped ==
    Typed => /\ OrchTyped /\ OrchTypeOK
             /\ scans \in [Scans -> ScanState]
             /\ \A s \in Scans : ScanReady(scans[s])
BY DEF Typed, TypeOK, OrchTyped, ScanState

(* A final status, with an error code unless it is CAPTURED.               *)
IsVerdict(o) ==
    \E status \in {"CAPTURED", "DECLINED", "FAILED", "CANCELLED"}, code \in Codes :
        /\ o = <<status, code>>
        /\ (code # "") <=> (status # "CAPTURED")

(* digitalRubleSandboxResult and the check of the mark say nothing else.   *)
LEMMA OutcomeIsVerdict ==
    ASSUME NEW resp, NEW wallet, NEW result \in Results
    PROVE  IsVerdict(Outcome(resp, wallet, result))
<1>1. \A other \in Results : IsVerdict(digitalRubleSandboxResult(other))
  BY DEF IsVerdict, Results, digitalRubleSandboxResult, Codes
<1>2. IsVerdict(checkDigitalRubleSmartContract(resp, wallet))
  BY DEF IsVerdict, checkDigitalRubleSmartContract, Codes
<1>3. "expired" \in Results
  BY DEF Results
<1>. QED  BY <1>1, <1>2, <1>3 DEF Outcome

(* The scanned response is the record with another status and error, and   *)
(* without the page.                                                       *)
LEMMA UpdateIsResponse ==
    ASSUME NEW stored \in Response, NEW status \in Statuses, NEW code \in Codes
    PROVE  /\ Update(stored, <<status, code>>) \in Response
           /\ Update(stored, <<status, code>>).key = stored.key
           /\ Update(stored, <<status, code>>).ext = stored.ext
           /\ Update(stored, <<status, code>>).status = status
           /\ Update(stored, <<status, code>>).code = code
<1>1. Update(stored, <<status, code>>)
         = [stored EXCEPT !.status = status, !.code = code, !.url = FALSE]
  BY DEF Update
<1>. QED  BY <1>1 DEF Response

(* The record a scan finds is a whole response.                            *)
LEMMA ScannedIsResponse ==
    ASSUME OrchTypeOK, NEW p \in Payments, Found(byPaymentID[p])
    PROVE  byPaymentID[p] \in Response
<1>1. ~Found(NoResponse)
  BY DEF Found, NoResponse
<1>. QED  BY <1>1 DEF OrchTypeOK, Stored

(* What a scan makes of it is one too.                                     *)
LEMMA ScanMakesResponse ==
    ASSUME OrchTypeOK, NEW p \in Payments, Found(byPaymentID[p]), NEW w, NEW result \in Results
    PROVE  Update(byPaymentID[p], Outcome(byPaymentID[p], w, result)) \in Response
<1>1. PICK status \in {"CAPTURED", "DECLINED", "FAILED", "CANCELLED"}, code \in Codes :
         Outcome(byPaymentID[p], w, result) = <<status, code>>
  <2>1. IsVerdict(Outcome(byPaymentID[p], w, result))
    BY OutcomeIsVerdict
  <2>. QED  BY <2>1 DEF IsVerdict
<1>2. status \in Statuses
  BY DEF Statuses
<1>. QED  BY <1>1, <1>2, UpdateIsResponse, ScannedIsResponse

(* The gateway starts well typed, with no scan.                            *)
LEMMA InitIsTyped == Init => Typed
<1>. SUFFICES ASSUME Init PROVE Typed  OBVIOUS
<1>1. OrchTyped
  BY OrchInitIsTyped DEF Init
<1>2. NoScan \in ScanState /\ ScanReady(NoScan)
  BY StoredResponses DEF NoScan, ScanState, ScanReady
<1>. QED  BY <1>1, <1>2 DEF Init, Typed, TypeOK, OrchTyped, ScanState

(* The steps of DigitalRubleSandboxHandler keep the types.                 *)
LEMMA ScanIsTyped ==
    ASSUME Typed, NEW s \in Scans, NEW p \in Payments, NEW code, NEW w \in Wallets,
           NEW result \in Results, Scan(s, p, code, w, result)
    PROVE  Typed'
<1>. DEFINE resp == Update(byPaymentID[p], Outcome(byPaymentID[p], w, result))
<1>1. resp \in Response /\ byPaymentID[p] \in Response
  BY ScanMakesResponse, ScannedIsResponse, TypedIsOrchTyped DEF Scan
<1>2. scans' = [scans EXCEPT ![s] = [pc |-> "save", resp |-> resp]]
  BY DEF Scan
<1>. HIDE DEF resp
<1>3. scans' \in [Scans -> ScanState] /\ \A t \in Scans : ScanReady(scans'[t])
  BY <1>1, <1>2, TypedIsOrchTyped, StoredResponses DEF ScanState, ScanReady
<1>4. byPaymentID[p].ext \in Nat
  BY <1>1 DEF Response
<1>5. attempts' \subseteq Attempt
  BY <1>4 DEF Scan, Typed, TypeOK, Attempt
<1>. QED
  BY <1>3, <1>5 DEF Scan, Typed, TypeOK, OrchTypeOK, RequestsAreReady, ScanState, orchVars

(* A scan stores whole responses, or fails to.                             *)
LEMMA SaveScanIsTyped ==
    ASSUME Typed, NEW s \in Scans, SaveScan(s)
    PROVE  Typed'
<1>1. scans[s].resp \in Response
  BY TypedIsOrchTyped DEF SaveScan, ScanAt, ScanReady
<1>2. \E to \in {"notify", "done"} : scans' = [scans EXCEPT ![s].pc = to]
  BY DEF SaveScan
<1>3. scans' \in [Scans -> ScanState] /\ \A t \in Scans : ScanReady(scans'[t])
  BY <1>1, <1>2, TypedIsOrchTyped DEF ScanState, ScanReady
<1>4. /\ byIdempotency' \in [Keys -> Stored]
      /\ byPaymentID' \in [Payments -> Stored]
      /\ saved' \in [Keys -> SUBSET Response]
      /\ faults' \in 0..MaxFaults
  BY <1>1, TypedIsOrchTyped, SaveIsTyped, StoreErrorIsTyped DEF SaveScan, OrchTypeOK
<1>. QED
  BY <1>3, <1>4 DEF SaveScan, Typed, TypeOK, OrchTypeOK, RequestsAreReady, ScanState

(* It sends the merchant a whole notice, or none.                          *)
LEMMA NotifyScanIsTyped ==
    ASSUME Typed, NEW s \in Scans, NotifyScan(s)
    PROVE  Typed'
<1>1. scans[s].resp \in Response
  BY TypedIsOrchTyped DEF NotifyScan, ScanAt, ScanReady
<1>2. scans' \in [Scans -> ScanState] /\ \A t \in Scans : ScanReady(scans'[t])
  BY <1>1, TypedIsOrchTyped DEF NotifyScan, ScanState, ScanReady
<1>3. notices' \subseteq Notice
  BY <1>1, TypedIsOrchTyped, DeliverIsTyped DEF NotifyScan
<1>. QED
  BY <1>2, <1>3 DEF NotifyScan, Typed, TypeOK, OrchTypeOK, RequestsAreReady, ScanState, storeVars

(* The end of a code, and of the gateway's goroutines.                     *)
LEMMA RestartGatewayIsTyped ==
    ASSUME Typed, RestartGateway
    PROVE  Typed'
<1>1. OrchTyped'
  BY TypedIsOrchTyped, RestartIsTyped DEF RestartGateway
<1>2. scans' \in [Scans -> ScanState] /\ \A s \in Scans : ScanReady(scans'[s])
  BY TypedIsOrchTyped DEF RestartGateway, ScanAt, ScanState, ScanReady
<1>. QED
  BY <1>1, <1>2 DEF RestartGateway, Restart, Typed, TypeOK, OrchTyped, ScanState

(* A step of a request leaves the scans alone.                             *)
LEMMA OrchStepIsTyped ==
    ASSUME Typed, NEW r \in Requests, OrchStep(r) \/ \E k \in Keys : Arrive(r, k)
    PROVE  Typed'
<1>1. OrchTyped'
  BY TypedIsOrchTyped, CreatePaymentIsTyped, ReceiveIsTyped DEF OrchStep, Arrive
<1>2. DOMAIN ops \subseteq DOMAIN ops'
  <2>1. OpsGrow
    BY TypedIsOrchTyped, CreatePaymentMoves, ReceiveMoves, MovesGrow DEF OrchStep, Arrive
  <2>. QED  BY <2>1 DEF OpsGrow
<1>. QED
  BY <1>1, <1>2 DEF Typed, TypeOK, ScanReady, OrchTyped, OrchStep, Arrive, scanVars

(* The typing invariant is inductive.                                      *)
LEMMA StepIsTyped == Typed /\ [Next]_vars => Typed'
<1>. SUFFICES ASSUME Typed, [Next]_vars PROVE Typed'  OBVIOUS
<1>1. CASE UNCHANGED vars
  BY <1>1 DEF vars, orchVars, scanVars, Typed, TypeOK, OrchTypeOK, RequestsAreReady
<1>2. ASSUME NEW i \in DOMAIN ops, Expire(i) PROVE Typed'
  BY <1>2 DEF Expire, orchVars, Typed, TypeOK, OrchTypeOK, RequestsAreReady
<1>. QED
  BY <1>1, <1>2, OrchStepIsTyped, ScanIsTyped, SaveScanIsTyped, NotifyScanIsTyped,
     RestartGatewayIsTyped
  DEF Next

(* Every state of the gateway is well typed.                               *)
LEMMA AlwaysTyped == Spec => []Typed
BY InitIsTyped, StepIsTyped, PTL DEF Spec

(* Every variable has its type in every state the gateway can be in: what  *)
(* a scan keeps of the record it loaded is a response or none, only codes  *)
(* that were issued expire (digital_ruble_sandbox_handler.go ServeHTTP).   *)
THEOREM TypeCorrect == Spec => []TypeOK
<1>1. Typed => TypeOK
  BY DEF Typed
<1>. QED  BY <1>1, AlwaysTyped, PTL

-----------------------------------------------------------------------------
(* What a step of the gateway changes and leaves alone.                    *)

SameStore == UNCHANGED <<byIdempotency, byPaymentID, saved>>

(* s goes on while the other scans stand still.                            *)
ScanPasses(s, from, to) ==
    /\ scans[s].pc = from
    /\ scans'[s].pc = to
    /\ \A t \in Scans : t # s => scans'[t] = scans[t]
    /\ UNCHANGED <<req, ops>>

(* The payer's attempt is on the books, if it came in time.                *)
Tries(stored, w, result) ==
    IF result = "captured" /\ stored.ext \notin expired
    THEN attempts' = attempts \cup {[code |-> stored.ext, wallet |-> w]}
    ELSE attempts' = attempts

Scanned(s, p, w, result) ==
    /\ ScanPasses(s, "idle", "save")
    /\ Found(byPaymentID[p])
    /\ IsDigitalRuble(byPaymentID[p])
    /\ scans'[s].resp = Update(byPaymentID[p], Outcome(byPaymentID[p], w, result))
    /\ Tries(byPaymentID[p], w, result)
    /\ SameStore /\ UNCHANGED notices

Files(s) ==
    /\ ScanPasses(s, "save", "notify")
    /\ scans'[s].resp = scans[s].resp
    /\ Save(scans[s].resp)
    /\ UNCHANGED <<attempts, notices>>

Rejects(s) ==
    /\ ScanPasses(s, "save", "done")
    /\ scans'[s].resp = scans[s].resp
    /\ SameStore /\ UNCHANGED <<attempts, notices>>

Announces(s) ==
    /\ ScanPasses(s, "notify", "done")
    /\ scans'[s].resp = scans[s].resp
    /\ Deliver(scans[s].resp, "webhook")
    /\ SameStore /\ UNCHANGED attempts

Halts ==
    /\ Stops
    /\ \A s \in Scans : scans'[s].resp = scans[s].resp
    /\ UNCHANGED attempts

(* A request moves or arrives.                                             *)
Proceeds(r) == (Moves(r) \/ Arrives(r)) /\ UNCHANGED scanVars

(* A code expires, or nothing happens.                                     *)
Rests == SameStore /\ UNCHANGED <<req, ops, notices, scans, attempts>>

Step ==
    \/ \E r \in Requests : Proceeds(r)
    \/ \E s \in Scans :
          \/ \E p \in Payments, w \in Wallets, result \in Results : Scanned(s, p, w, result)
          \/ Files(s) \/ Rejects(s) \/ Announces(s)
    \/ Halts
    \/ Rests

(* What a goroutine of DigitalRubleSandboxHandler does.                    *)
LEMMA ScanMoves ==
    ASSUME Typed, NEW s \in Scans
    PROVE  /\ \A p \in Payments, code \in {0} \cup DOMAIN ops, w \in Wallets, result \in Results :
                 Scan(s, p, code, w, result) => Scanned(s, p, w, result)
           /\ SaveScan(s) => Files(s) \/ Rejects(s)
           /\ NotifyScan(s) => Announces(s)
<1>. scans \in [Scans -> ScanState]
  BY TypedIsOrchTyped
<1>. USE DEF ScanPasses, SameStore, storeVars, ScanAt, ScanState
<1>1. ASSUME NEW p \in Payments, NEW code, NEW w, NEW result, Scan(s, p, code, w, result)
      PROVE  Scanned(s, p, w, result)
  <2>. DEFINE resp == Update(byPaymentID[p], Outcome(byPaymentID[p], w, result))
  <2>1. scans' = [scans EXCEPT ![s] = [pc |-> "save", resp |-> resp]]
    BY <1>1 DEF Scan
  <2>. HIDE DEF resp
  <2>2. /\ scans'[s].pc = "save" /\ scans'[s].resp = resp
        /\ \A t \in Scans : t # s => scans'[t] = scans[t]
    BY <2>1
  <2>3. scans'[s].resp = Update(byPaymentID[p], Outcome(byPaymentID[p], w, result))
    BY <2>2 DEF resp
  <2>4. Tries(byPaymentID[p], w, result)
    BY <1>1 DEF Scan, Tries
  <2>. QED  BY <1>1, <2>2, <2>3, <2>4 DEF Scan, Scanned, orchVars
<1>2. SaveScan(s) => Files(s) \/ Rejects(s)
  BY DEF SaveScan, StoreError, Fault, Files, Rejects
<1>3. NotifyScan(s) => Announces(s)
  BY DEF NotifyScan, Announces
<1>. QED  BY <1>1, <1>2, <1>3

(* Every step of the gateway is one of these.                              *)
LEMMA NextMoves == Typed /\ [Next]_vars => Step
<1>. SUFFICES ASSUME Typed, [Next]_vars PROVE Step  OBVIOUS
<1>1. ASSUME NEW r \in Requests, OrchStep(r) \/ \E k \in Keys : Arrive(r, k) PROVE Step
  <2>1. Proceeds(r)
    BY <1>1, TypedIsOrchTyped, CreatePaymentMoves, ReceiveMoves DEF OrchStep, Arrive, Proceeds
  <2>. QED  BY <2>1 DEF Step
<1>2. ASSUME NEW s \in Scans,
             \/ \E p \in Payments, code \in {0} \cup DOMAIN ops, w \in Wallets, result \in Results :
                   Scan(s, p, code, w, result)
             \/ SaveScan(s) \/ NotifyScan(s)
      PROVE  Step
  BY <1>2, ScanMoves DEF Step
<1>3. ASSUME NEW i, Expire(i) PROVE Step
  BY <1>3 DEF Expire, orchVars, Rests, SameStore, Step
<1>4. CASE RestartGateway
  <2>1. Stops
    BY <1>4, TypedIsOrchTyped, RestartStops DEF RestartGateway
  <2>2. \A s \in Scans : scans'[s].resp = scans[s].resp
    BY <1>4, TypedIsOrchTyped DEF RestartGateway, ScanState
  <2>. QED  BY <1>4, <2>1, <2>2 DEF RestartGateway, Halts, Step
<1>5. CASE UNCHANGED vars
  BY <1>5 DEF Step, Rests, SameStore, vars, orchVars, scanVars
<1>. QED  BY <1>1, <1>2, <1>3, <1>4, <1>5 DEF Next

-----------------------------------------------------------------------------
(* What the responses say.                                                 *)

(* There is a reason for every failure; the operation named is one of the  *)
(* payment; a captured digital ruble payment was honoured.                 *)
Truthful(x) == Explained(x) /\ NamesOwnOp(x) /\ HonouredIfCaptured(x)

(* All of this is so of every response there is; the answer an adapter     *)
(* gave is one HandleCallback keeps; and a notice is of such a response.   *)
NoticeTruthful(n) ==
    (n.status = "CAPTURED" /\ AdapterOf[n.key] = "digital_ruble") =>
        \E i \in KnownOps(n.key) : Honoured(i)

Truth ==
    /\ \A x : Held(x) => Truthful(x)
    /\ \A s \in Scans : Truthful(scans[s].resp)
    /\ \A r \in Requests :
          req[r].pc = "answering"
              => req[r].resp.status \in {"CAPTURED", "PENDING", "DECLINED", "FAILED"}
    /\ \A n \in notices : NoticeTruthful(n)

(* A payer's attempt and an operation stay.                                *)
LEMMA StepGrows ==
    ASSUME Typed, Step
    PROVE  OpsGrow /\ attempts \subseteq attempts'
<1>1. OrchTyped /\ ops \in Seq(Op)
  BY TypedIsOrchTyped DEF OrchTypeOK
<1>2. CASE \E r \in Requests : Proceeds(r)
  BY <1>1, <1>2, MovesGrow DEF Proceeds, scanVars
<1>3. CASE ops' = ops /\ attempts \subseteq attempts'
  BY <1>1, <1>3, OpenOrSettleGrows
<1>. QED
  BY <1>2, <1>3 DEF Step, ScanPasses, Scanned, Tries, Files, Rejects, Announces, Halts, Stops, Rests

(* So what is true of a response remains so, ...                           *)
LEMMA TruthfulStays ==
    ASSUME OpsGrow, attempts \subseteq attempts', NEW x, Truthful(x)
    PROVE  Truthful(x)'
<1>1. \A i \in DOMAIN ops : i \in DOMAIN ops' /\ ops'[i].key = ops[i].key
  BY DEF OpsGrow
<1>2. \A i \in DOMAIN ops : Honoured(i) => Honoured(i)'
  BY <1>1 DEF Honoured
<1>. QED  BY <1>1, <1>2 DEF Truthful, Explained, NamesOwnOp, HonouredIfCaptured

(* ... and of a notice.                                                    *)
LEMMA NoticeTruthfulStays ==
    ASSUME OpsGrow, attempts \subseteq attempts', NEW n, NoticeTruthful(n)
    PROVE  NoticeTruthful(n)'
<1>1. \A i \in DOMAIN ops : i \in DOMAIN ops' /\ ops'[i].key = ops[i].key
  BY DEF OpsGrow
<1>2. \A i \in DOMAIN ops : Honoured(i) => Honoured(i)'
  BY <1>1 DEF Honoured
<1>. QED  BY <1>1, <1>2 DEF NoticeTruthful, KnownOps

(* The notice of a truthful response is truthful.                          *)
LEMMA NoticeIsTruthful ==
    ASSUME NEW x, NEW by, Truthful(x)
    PROVE  NoticeTruthful([key |-> x.key, status |-> x.status, by |-> by])
BY DEF Truthful, HonouredIfCaptured, NoticeTruthful, KnownOps

(* No response at all says nothing wrong.                                  *)
LEMMA NoResponseIsTruthful == Truthful(NoResponse)
<1>1. NoResponse.code = "" /\ NoResponse.status = "" /\ NoResponse.ext = 0
  BY DEF NoResponse
<1>. QED  BY <1>1 DEF Truthful, Explained, NamesOwnOp, HonouredIfCaptured

(* A scan that captures was paid in time, with enough of the right money.  *)
LEMMA ScanIsTruthful ==
    ASSUME Typed, Truth, NEW s \in Scans, NEW p \in Payments, NEW w \in Wallets,
           NEW result \in Results, Scanned(s, p, w, result)
    PROVE  \A x : x = scans'[s].resp => Truthful(x)'
<1>. SUFFICES ASSUME NEW x, x = scans'[s].resp, NEW stored, stored = byPaymentID[p]
              PROVE  Truthful(x)'
  OBVIOUS
<1>1. stored \in Response /\ Truthful(stored)
  BY TypedIsOrchTyped, ScannedIsResponse DEF Scanned, Truth, Held
<1>2. PICK status \in {"CAPTURED", "DECLINED", "FAILED", "CANCELLED"}, code \in Codes :
         /\ Outcome(stored, w, result) = <<status, code>>
         /\ (code # "") <=> (status # "CAPTURED")
  <2>1. IsVerdict(Outcome(stored, w, result))
    BY OutcomeIsVerdict
  <2>. QED  BY <2>1 DEF IsVerdict
<1>3. status \in Statuses
  BY DEF Statuses
<1>4. x.key = stored.key /\ x.ext = stored.ext /\ x.status = status /\ x.code = code
  <2>1. x = Update(stored, Outcome(stored, w, result))
    BY DEF Scanned
  <2>2. x = Update(stored, <<status, code>>)
    BY <1>2, <2>1
  <2>. QED  BY <1>1, <1>3, <2>2, UpdateIsResponse
<1>5. Explained(x)
  BY <1>2, <1>4 DEF Explained
<1>6. ops' = ops
  BY DEF Scanned, ScanPasses
<1>7. stored.ext \in DOMAIN ops /\ ops[stored.ext].key = stored.key
  BY <1>1 DEF Scanned, IsDigitalRuble, Truthful, NamesOwnOp
<1>8. ASSUME status = "CAPTURED" PROVE Honoured(stored.ext)'
  <2>1. /\ result = "captured" /\ stored.ext \notin expired
        /\ CheckMarkedMoney(w, RequiredMoneyMark(Purchase[stored.key].category),
                            Purchase[stored.key].amount)
    <3>1. \A other \in Results \ {"captured"} :
             \A c : digitalRubleSandboxResult(other) # <<"CAPTURED", c>>
      BY DEF Results, digitalRubleSandboxResult
    <3>2. "expired" \in Results \ {"captured"}
      BY DEF Results
    <3>3. result = "captured" /\ stored.ext \notin expired
      BY <1>2, <1>8, <3>1, <3>2 DEF Outcome
    <3>4. checkDigitalRubleSmartContract(stored, w) = <<"CAPTURED", code>>
      BY <1>2, <1>8, <3>3 DEF Outcome
    <3>. QED  BY <3>3, <3>4 DEF checkDigitalRubleSmartContract
  <2>2. [code |-> stored.ext, wallet |-> w] \in attempts'
    BY <2>1 DEF Scanned, Tries
  <2>. QED  BY <1>6, <1>7, <2>1, <2>2 DEF Honoured, CheckMarkedMoney
<1>9. HonouredIfCaptured(x)'
  BY <1>4, <1>6, <1>7, <1>8 DEF HonouredIfCaptured
<1>10. NamesOwnOp(x)'
  BY <1>4, <1>6, <1>7 DEF NamesOwnOp
<1>. QED  BY <1>5, <1>9, <1>10 DEF Truthful, Explained

(* So is a response the orchestrator makes: the provider of the digital    *)
(* ruble never captures at once.                                           *)
LEMMA RequestIsTruthful ==
    ASSUME Typed, Truth, Step, NEW r \in Requests, Refuses(r) \/ Calls(r) \/ Loses(r) \/ Concludes(r)
    PROVE  \A x : x = req'[r].resp =>
              /\ Truthful(x)'
              /\ x.status \in {"CAPTURED", "PENDING", "DECLINED", "FAILED"}
<1>. SUFFICES ASSUME NEW x, x = req'[r].resp
              PROVE  /\ Truthful(x)'
                     /\ x.status \in {"CAPTURED", "PENDING", "DECLINED", "FAILED"}
  OBVIOUS
<1>. OrchTyped
  BY TypedIsOrchTyped
<1>1. CASE Refuses(r) \/ Calls(r) \/ Loses(r)
  <2>1. Honest(x)'
    BY <1>1, AnswersAreHonest, FailuresAreHonest
  <2>. QED  BY <2>1 DEF Honest, Truthful, Explained, NamesOwnOp, HonouredIfCaptured
<1>2. CASE Concludes(r)
  <2>. DEFINE answer == req[r].resp
  <2>1. Held(answer) /\ req[r].pc = "answering"
    BY <1>2 DEF Held, Concludes, Passes
  <2>2. Truthful(answer) /\ answer.status \in {"CAPTURED", "PENDING", "DECLINED", "FAILED"}
    BY <2>1 DEF Truth
  <2>3. /\ x.key = answer.key /\ x.ext = answer.ext /\ x.code = answer.code
        /\ x.status = answer.status
    BY <1>2, <2>2, ConcludesAsAnswered
  <2>. HIDE DEF answer
  <2>4. Truthful(x)
    BY <2>2, <2>3 DEF Truthful, Explained, NamesOwnOp, HonouredIfCaptured
  <2>. QED  BY <2>2, <2>3, <2>4, StepGrows, TruthfulStays
<1>. QED  BY <1>1, <1>2

(* Nothing but a scan and a move of a request makes a response.            *)
LEMMA StepMakes ==
    ASSUME Typed, Truth, Step, NEW x, Held(x)'
    PROVE  Truthful(x)'
<1>. OrchTyped /\ OrchTypeOK
  BY TypedIsOrchTyped
<1>1. ASSUME Held(x) PROVE Truthful(x)'
  BY <1>1, StepGrows, TruthfulStays DEF Truth
<1>2. ASSUME NEW r \in Requests, Proceeds(r) PROVE Truthful(x)'
  <2>1. \/ Held(x)
        \/ x = req'[r].resp /\ (Refuses(r) \/ Calls(r) \/ Loses(r) \/ Concludes(r))
    BY <1>2, MovesMake DEF Proceeds
  <2>. QED  BY <1>1, <2>1, RequestIsTruthful
<1>3. ASSUME NEW s \in Scans, Files(s) PROVE Truthful(x)'
  <2>1. scans[s].resp \in Response /\ Truthful(scans[s].resp)
    BY <1>3, TypedIsOrchTyped DEF Files, ScanPasses, ScanReady, Truth
  <2>2. /\ \A k \in Keys : /\ byIdempotency'[k] \in {byIdempotency[k], scans[s].resp}
                           /\ saved'[k] \subseteq saved[k] \cup {scans[s].resp}
        /\ \A p \in Payments : byPaymentID'[p] \in {byPaymentID[p], scans[s].resp}
    BY <1>3, <2>1, SaveHolds DEF Files
  <2>3. Held(x) \/ x = scans[s].resp
    BY <1>3, <2>2 DEF Files, ScanPasses, Held
  <2>. QED  BY <1>1, <2>1, <2>3, StepGrows, TruthfulStays
<1>4. CASE Halts
  <2>1. Held(x) \/ x = NoResponse
    BY <1>4, RestartMakesNone DEF Halts
  <2>. QED  BY <1>1, <2>1, NoResponseIsTruthful, StepGrows, TruthfulStays
<1>5. CASE SameStore /\ req' = req
  <2>1. Held(x)
    BY <1>5 DEF SameStore, Held
  <2>. QED  BY <1>1, <2>1
<1>. QED
  BY <1>2, <1>3, <1>4, <1>5 DEF Step, Scanned, Rejects, Announces, ScanPasses, Rests

(* So every response stays truthful, that of every scan too.               *)
LEMMA ScansStayTruthful ==
    ASSUME Typed, Truth, Step, NEW s \in Scans
    PROVE  Truthful(scans[s].resp)'
<1>. SUFFICES ASSUME NEW x, x = scans'[s].resp PROVE Truthful(x)'
  BY DEF Truthful, Explained, NamesOwnOp, HonouredIfCaptured, Honoured
<1>1. ASSUME x = scans[s].resp PROVE Truthful(x)'
  BY <1>1, StepGrows, TruthfulStays DEF Truth
<1>2. ASSUME NEW p \in Payments, NEW w \in Wallets, NEW result \in Results,
             Scanned(s, p, w, result)
      PROVE  Truthful(x)'
  BY <1>2, ScanIsTruthful
<1>3. \/ x = scans[s].resp
      \/ \E p \in Payments, w \in Wallets, result \in Results : Scanned(s, p, w, result)
  BY DEF Step, Proceeds, scanVars, Scanned, Files, Rejects, Announces, ScanPasses, Halts, Rests
<1>. QED  BY <1>1, <1>2, <1>3

(* The answers of the adapters.                                            *)
LEMMA AnswersStayKnown ==
    ASSUME Typed, Truth, Step, NEW r \in Requests, req'[r].pc = "answering"
    PROVE  req'[r].resp.status \in {"CAPTURED", "PENDING", "DECLINED", "FAILED"}
<1>1. CASE Calls(r) \/ Loses(r)
  BY <1>1, RequestIsTruthful
<1>2. CASE req'[r] = req[r]
  BY <1>2 DEF Truth
<1>3. ASSUME NEW q \in Requests, Moves(q) \/ Arrives(q)
      PROVE  req'[r] = req[r] \/ Calls(r) \/ Loses(r)
  <2>1. CASE Calls(q) \/ Loses(q)
    <3>1. q # r => req'[r] = req[r]
      BY <2>1 DEF Calls, Opens, OpensElsewhere, Sends, Misses, Links, Repeats, Loses, Passes
    <3>. QED  BY <2>1, <3>1
  <2>2. CASE ~(Calls(q) \/ Loses(q))
    BY <1>3, <2>2 DEF Moves, Arrives, Replays, Starts, Prepares, Refuses, Retries, Concludes,
                      Notifies, Stores, Misfires, Passes
  <2>. QED  BY <2>1, <2>2
<1>4. CASE Halts
  BY <1>4 DEF Halts, Stops, SameAnswer, Truth, Ended
<1>. QED
  BY <1>1, <1>2, <1>3, <1>4
  DEF Step, Proceeds, Scanned, Files, Rejects, Announces, ScanPasses, Rests

(* The merchant is told of the responses there are.                        *)
LEMMA NoticesStayTruthful ==
    ASSUME Typed, Truth, Step, NEW n \in notices'
    PROVE  NoticeTruthful(n)'
<1>1. ASSUME NoticeTruthful(n) PROVE NoticeTruthful(n)'
  BY <1>1, StepGrows, NoticeTruthfulStays
<1>2. ASSUME NEW x, Truthful(x), NEW by, Deliver(x, by) PROVE NoticeTruthful(n)
  BY <1>2, NoticeIsTruthful DEF Deliver, Truth
<1>3. ASSUME NEW r \in Requests, Notifies(r) PROVE NoticeTruthful(n)
  <2>1. Truthful(req[r].resp)
    BY DEF Truth, Held
  <2>. QED  BY <1>2, <1>3, <2>1 DEF Notifies
<1>4. ASSUME NEW s \in Scans, Announces(s) PROVE NoticeTruthful(n)
  BY <1>2, <1>4 DEF Announces, Truth
<1>5. \/ notices' = notices
      \/ \E r \in Requests : Notifies(r)
      \/ \E s \in Scans : Announces(s)
  BY DEF Step, Proceeds, Moves, Calls, Arrives, Unheard, Replays, Starts, Prepares, Refuses, Opens,
         OpensElsewhere, Sends, Misses, Links, Repeats, Loses, Retries, Concludes, Stores,
         Misfires, Scanned, Files, Rejects, Halts, Stops, Rests
<1>. QED  BY <1>1, <1>3, <1>4, <1>5 DEF Truth

(* The invariant is inductive.                                             *)
LEMMA StepIsTruthful == Typed /\ Truth /\ Step => Truth'
<1>. SUFFICES ASSUME Typed, Truth, Step PROVE Truth'  OBVIOUS
<1>1. (\A x : Held(x) => Truthful(x))'
  BY StepMakes
<1>2. (\A s \in Scans : Truthful(scans[s].resp))'
  BY ScansStayTruthful
<1>. QED  BY <1>1, <1>2, AnswersStayKnown, NoticesStayTruthful DEF Truth

(* At first nothing is said.                                               *)
LEMMA InitIsTruthful == Init => Truth
<1>. SUFFICES ASSUME Init PROVE Truth  OBVIOUS
<1>1. Idle.resp = NoResponse /\ Idle.pc = "idle" /\ NoScan.resp = NoResponse
  BY DEF Idle, NoScan
<1>2. \A x : Held(x) => x = NoResponse
  BY <1>1 DEF Init, OrchInit, Held
<1>. QED  BY <1>1, <1>2, NoResponseIsTruthful DEF Init, OrchInit, Truth

(* In every state every response is truthful.                              *)
LEMMA AlwaysTruthful == Spec => []Truth
BY InitIsTruthful, StepIsTruthful, AlwaysTyped, NextMoves, PTL DEF Spec

(* A digital ruble payment is CAPTURED, in the store, in an answer or in a *)
(* notification, only if its own code was paid in time and with enough     *)
(* money of the right mark, in whatever order scans, expiry, requests and  *)
(* restarts come (digital_ruble_sandbox_handler.go ServeHTTP,              *)
(* marked_money.go).                                                       *)
THEOREM CapturesWereHonoured == Spec => []CapturedWasHonoured
<1>1. Truth => CapturedWasHonoured
  BY DEF Truth, Held, Truthful, NoticeTruthful, CapturedWasHonoured
<1>. QED  BY <1>1, AlwaysTruthful, PTL

(* A record says why a payment failed exactly when it failed, whatever     *)
(* scans came before (digital_ruble_sandbox_handler.go ServeHTTP,          *)
(* orchestrator.go failAndSave, callback.go).                              *)
THEOREM OutcomesAreExplained == Spec => []OutcomeIsExplained
<1>1. Truth => OutcomeIsExplained
  BY DEF Truth, Held, Truthful, Explained, OutcomeIsExplained
<1>. QED  BY <1>1, AlwaysTruthful, PTL
=============================================================================
