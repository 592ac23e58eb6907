---------------------------- MODULE Orchestrator_proofs ----------------------------
(***************************************************************************)
(* What the modules that compose the orchestrator with a webhook handler   *)
(* need of it: the operators on responses, operations and the store, the   *)
(* types, and what a step of CreatePayment changes and leaves alone.       *)
(***************************************************************************)
EXTENDS Orchestrator, SequenceTheorems, TLAPS

-----------------------------------------------------------------------------
(* The status vocabulary.                                                  *)

(* The status YooKassa's is translated to is one of the gateway's, and it  *)
(* is CAPTURED only for a payment that succeeded.                          *)
LEMMA MapIsStatus ==
    ASSUME NEW s
    PROVE  /\ mapYooKassaStatus(s) \in Statuses
           /\ mapYooKassaStatus(s) = "CAPTURED" <=> s = "succeeded"
BY DEF mapYooKassaStatus, Statuses

(* HandleCallback returns a status, and it neither makes nor loses a       *)
(* capture.                                                                *)
LEMMA HandleCallbackIsStatus ==
    ASSUME NEW s
    PROVE  /\ HandleCallbackStatus(s) \in Statuses
           /\ HandleCallbackStatus(s) = "CAPTURED" <=> s = "CAPTURED"
BY DEF HandleCallbackStatus, NotRetryable, Statuses

(* The error code of a provider status is one of the gateway's.            *)
LEMMA ErrorCodeIsCode ==
    ASSUME NEW s
    PROVE  YooKassaErrorCode(s) \in Codes
BY DEF YooKassaErrorCode, Codes

-----------------------------------------------------------------------------
(* The data.                                                               *)

(* What Result builds for a key is a whole response.                       *)
LEMMA ResultIsResponse ==
    ASSUME NEW k \in Keys, NEW status \in Statuses, NEW code \in Codes,
           NEW ext \in Nat, NEW url \in BOOLEAN
    PROVE  Result(k, status, code, ext, url) \in Response
BY DEF Result, Response

(* A store holds whole responses and the absence of one.                   *)
LEMMA StoredResponses == Response \subseteq Stored /\ NoResponse \in Stored
BY DEF Stored

(* The answers of the adapters are whole responses.                        *)
LEMMA UnavailableIsResponse ==
    ASSUME NEW k \in Keys
    PROVE  Unavailable(k) \in Response
BY ResultIsResponse DEF Unavailable, Statuses, Codes

(* What failAndSave builds is a whole response.                            *)
LEMMA RefusalIsResponse ==
    ASSUME NEW k \in Keys, NEW f \in Refusals
    PROVE  Result(k, f[1], f[2], 0, FALSE) \in Response /\ f[1] \in Statuses
<1>1. PICK status \in {"FAILED", "DECLINED"}, code \in Codes : f = <<status, code>>
  BY Zenon DEF Refusals, Codes
<1>2. f[1] = status /\ f[2] = code
  BY <1>1
<1>. QED  BY <1>1, <1>2, ResultIsResponse DEF Statuses

(* The operations of the providers: a sequence that grows at its end, or   *)
(* of which one member is settled.                                         *)
LEMMA AppendOp ==
    ASSUME ops \in Seq(Op), NEW k \in Keys, NEW status \in {"pending", "succeeded", "canceled"},
           ops' = Append(ops, Operation(k, status))
    PROVE  /\ ops' \in Seq(Op)
           /\ DOMAIN ops' = DOMAIN ops \cup {Len(ops) + 1}
           /\ Len(ops) + 1 \notin DOMAIN ops
           /\ Len(ops) + 1 \in Nat
           /\ ops'[Len(ops) + 1] = Operation(k, status)
           /\ \A i \in DOMAIN ops : ops'[i] = ops[i]
<1>1. Operation(k, status) \in Op
  BY DEF Operation, Op
<1>2. Len(ops) \in Nat /\ DOMAIN ops = 1..Len(ops)
  BY LenProperties
<1>3. ops' \in Seq(Op) /\ Len(ops') = Len(ops) + 1
  BY <1>1, <1>2
<1>4. DOMAIN ops' = 1..(Len(ops) + 1)
  BY <1>3, LenProperties
<1>. QED  BY <1>1, <1>2, <1>3, <1>4

(* A settled operation is still an operation of the same key.              *)
LEMMA SettleOp ==
    ASSUME ops \in Seq(Op), NEW i \in DOMAIN ops, NEW status \in {"succeeded", "canceled"},
           ops' = [ops EXCEPT ![i].status = status]
    PROVE  /\ ops' \in Seq(Op)
           /\ DOMAIN ops' = DOMAIN ops
           /\ ops'[i] = Operation(ops[i].key, status)
           /\ \A j \in DOMAIN ops : j # i => ops'[j] = ops[j]
<1>1. Len(ops) \in Nat /\ DOMAIN ops = 1..Len(ops) /\ ops[i] \in Op
  BY LenProperties, ElementOfSeq
<1>2. [ops[i] EXCEPT !.status = status] \in Op
  BY <1>1 DEF Op
<1>3. ops' = [ops EXCEPT ![i] = [ops[i] EXCEPT !.status = status]]
  OBVIOUS
<1>4. ops' \in Seq(Op) /\ Len(ops') = Len(ops)
  BY <1>1, <1>2, <1>3, ExceptSeq
<1>5. ops'[i] = [ops[i] EXCEPT !.status = status]
  BY <1>1
<1>6. ops'[i] = Operation(ops[i].key, status)
  BY <1>1, <1>5 DEF Op, Operation
<1>. QED  BY <1>1, <1>3, <1>4, <1>6, LenProperties

-----------------------------------------------------------------------------
(* Type correctness.                                                       *)

(* A request that has arrived has a key, and what its goroutine is about   *)
(* to store or send is a whole response.                                   *)
RequestIsReady(x) ==
    /\ x.pc # "idle" => x.key \in Keys
    /\ x.pc \in {"answering", "notify", "save", "notifyRefusal", "saveRefusal"}
           => x.resp \in Response

RequestsAreReady == \A r \in Requests : RequestIsReady(req[r])

OrchTyped == OrchTypeOK /\ RequestsAreReady

(* Save of a whole response keeps the store a store.                       *)
LEMMA SaveIsTyped ==
    ASSUME OrchTypeOK, NEW resp \in Response, Save(resp)
    PROVE  /\ byIdempotency' \in [Keys -> Stored]
           /\ byPaymentID' \in [Payments -> Stored]
           /\ saved' \in [Keys -> SUBSET Response]
<1>1. resp.key \in Keys /\ resp \in Stored
  BY DEF Response, Stored
<1>. QED  BY <1>1, PaymentOfAssumption DEF OrchTypeOK, Save

(* A fault keeps the count of faults within its bound.                     *)
LEMMA FaultIsTyped ==
    ASSUME OrchTypeOK, Fault
    PROVE  faults' \in 0..MaxFaults
<1>1. faults \in 0..MaxFaults /\ faults < MaxFaults /\ faults' = faults + 1
  BY DEF OrchTypeOK, Fault
<1>. QED  BY <1>1, MaxFaultsAssumption

(* A failed store operation keeps the store as it is.                      *)
LEMMA StoreErrorIsTyped ==
    ASSUME OrchTypeOK, StoreError
    PROVE  /\ byIdempotency' \in [Keys -> Stored]
           /\ byPaymentID' \in [Payments -> Stored]
           /\ saved' \in [Keys -> SUBSET Response]
           /\ faults' \in 0..MaxFaults
BY FaultIsTyped DEF OrchTypeOK, StoreError, storeVars

(* A delivered or lost notification leaves a set of notices.               *)
LEMMA DeliverIsTyped ==
    ASSUME OrchTypeOK, NEW resp \in Response, NEW by \in {"orchestrator", "webhook"},
           Deliver(resp, by)
    PROVE  notices' \subseteq Notice
<1>1. [key |-> resp.key, status |-> resp.status, by |-> by] \in Notice
  BY DEF Notice, Response
<1>. QED  BY <1>1 DEF OrchTypeOK, Deliver

(* No request has arrived, nothing is stored.                              *)
LEMMA OrchInitIsTyped == OrchInit => OrchTyped
<1>. SUFFICES ASSUME OrchInit PROVE OrchTyped  OBVIOUS
<1>1. Idle \in Goroutine /\ NoSession \in Session
  BY StoredResponses DEF Goroutine, Session, Idle, NoSession, NoKey
<1>2. ops = <<>> /\ faults = 0
  BY DEF OrchInit
<1>3. ops \in Seq(Op)
  BY <1>2
<1>4. faults \in 0..MaxFaults
  BY <1>2, MaxFaultsAssumption
<1>5. OrchTypeOK
  BY <1>1, <1>3, <1>4, StoredResponses DEF OrchTypeOK, OrchInit
<1>6. RequestsAreReady
  BY DEF RequestsAreReady, RequestIsReady, Idle, OrchInit
<1>. QED  BY <1>5, <1>6 DEF OrchTyped

(* A request's goroutine, typed and ready for its next step.               *)
Ready(x) == x \in Goroutine /\ RequestIsReady(x)

(* A step that leaves every goroutine ready keeps the requests typed.      *)
LEMMA ReqIsTyped ==
    ASSUME OrchTyped, NEW r \in Requests, NEW x, Ready(x),
           req' = [req EXCEPT ![r] = x]
    PROVE  /\ req' \in [Requests -> Goroutine]
           /\ RequestsAreReady'
BY DEF OrchTyped, OrchTypeOK, RequestsAreReady, Ready

(* A goroutine that changes alone leaves the others as they were.          *)
LEMMA RequestIsTyped ==
    ASSUME OrchTyped, NEW r \in Requests
    PROVE  /\ req[r] \in Goroutine
           /\ Ready(req[r])
           /\ req[r].pc # "idle" =>
                  /\ PaymentOf[req[r].key] \in Payments
                  /\ ValidatedKey(r) \in Keys
                  /\ PaymentOf[ValidatedKey(r)] \in Payments
BY PaymentOfAssumption, TrimmedKeyAssumption
DEF OrchTyped, OrchTypeOK, RequestsAreReady, RequestIsReady, Ready, ValidatedKey

(* The steps of a request that change nothing but its record and one of    *)
(* its companions.                                                         *)
LEMMA LocalStepsAreTyped ==
    ASSUME OrchTyped, NEW r \in Requests,
           \/ \E k \in Keys : Receive(r, k)
           \/ Replay(r) \/ LookupError(r) \/ Begin(r) \/ Prepare(r)
           \/ \E f \in Refusals : Refuse(r, f)
           \/ LoseAnswer(r) \/ TryAgain(r) \/ Conclude(r)
    PROVE  OrchTyped'
<1>. USE RequestIsTyped DEF OrchTyped
<1>1. ASSUME NEW k \in Keys, Receive(r, k) PROVE OrchTyped'
  <2>. DEFINE x == [req[r] EXCEPT !.pc = "lookup", !.key = k]
  <2>1. Ready(x) /\ req' = [req EXCEPT ![r] = x]
    BY <1>1 DEF Receive, At, Ready, RequestIsReady, Goroutine
  <2>. QED  BY <1>1, <2>1, ReqIsTyped DEF OrchTypeOK, Receive, storeVars
<1>2. ASSUME Replay(r) PROVE OrchTyped'
  <2>. DEFINE x == [req[r] EXCEPT !.pc = "replayed", !.resp = byIdempotency[req[r].key]]
  <2>1. Ready(x) /\ req' = [req EXCEPT ![r] = x]
    BY <1>2 DEF Replay, GetByIdempotencyKey, At, Ready, RequestIsReady, Goroutine, Ended, OrchTypeOK
  <2>. QED  BY <1>2, <2>1, ReqIsTyped DEF OrchTypeOK, Replay, storeVars
<1>3. ASSUME LookupError(r) PROVE OrchTyped'
  <2>. DEFINE x == [req[r] EXCEPT !.pc = "errored"]
  <2>1. Ready(x) /\ req' = [req EXCEPT ![r] = x]
    BY <1>3 DEF LookupError, Goto, At, Ready, RequestIsReady, Goroutine, Ended
  <2>. QED  BY <1>3, <2>1, ReqIsTyped, StoreErrorIsTyped DEF OrchTypeOK, LookupError
<1>4. ASSUME Begin(r) PROVE OrchTyped'
  <2>. DEFINE x == [req[r] EXCEPT !.pc = "prepare"]
  <2>1. Ready(x) /\ req' = [req EXCEPT ![r] = x]
    BY <1>4 DEF Begin, Goto, At, Ready, RequestIsReady, Goroutine, Working
  <2>2. sessions' \in [Requests -> Session] /\ byPayment' \in [Payments -> Statuses \cup {""}]
    BY <1>4 DEF Begin, OrchTypeOK, Session, Statuses
  <2>. QED  BY <1>4, <2>1, <2>2, ReqIsTyped DEF OrchTypeOK, Begin, storeVars
<1>5. ASSUME Prepare(r) PROVE OrchTyped'
  <2>. DEFINE x == [req[r] EXCEPT !.pc = "send"]
  <2>1. Ready(x) /\ req' = [req EXCEPT ![r] = x]
    BY <1>5 DEF Prepare, Goto, At, Ready, RequestIsReady, Goroutine, Working
  <2>2. byPayment' \in [Payments -> Statuses \cup {""}]
    BY <1>5 DEF Prepare, OrchTypeOK, Statuses
  <2>. QED  BY <1>5, <2>1, <2>2, ReqIsTyped DEF OrchTypeOK, Prepare, storeVars
<1>6. ASSUME NEW f \in Refusals, Refuse(r, f) PROVE OrchTyped'
  <2>. DEFINE resp == Result(RefusedKey(r, f), f[1], f[2], 0, FALSE)
              x == [req[r] EXCEPT !.pc = "notifyRefusal", !.resp = resp]
  <2>1. req[r].pc = "prepare" /\ RefusedKey(r, f) \in Keys
    BY <1>6 DEF Refuse, At, Ready, RequestIsReady, RefusedKey
  <2>2. resp \in Response /\ f[1] \in Statuses
    BY <2>1, RefusalIsResponse
  <2>. HIDE DEF resp
  <2>3. Ready(x)
    BY <2>1, <2>2, StoredResponses DEF Ready, RequestIsReady, Goroutine, Working
  <2>4. req' = [req EXCEPT ![r] = x]
    BY <1>6 DEF Refuse, resp
  <2>5. byPayment' \in [Payments -> Statuses \cup {""}]
    BY <1>6, <2>2 DEF Refuse, OrchTypeOK
  <2>. QED  BY <1>6, <2>3, <2>4, <2>5, ReqIsTyped DEF OrchTypeOK, Refuse, storeVars
<1>7. ASSUME LoseAnswer(r) PROVE OrchTyped'
  <2>. DEFINE x == [req[r] EXCEPT !.resp = Unavailable(ValidatedKey(r))]
  <2>1. Ready(x) /\ req' = [req EXCEPT ![r] = x]
    BY <1>7, UnavailableIsResponse, StoredResponses DEF LoseAnswer, At, Ready, RequestIsReady, Goroutine
  <2>. QED  BY <1>7, <2>1, ReqIsTyped DEF OrchTypeOK, LoseAnswer, storeVars
<1>8. ASSUME TryAgain(r) PROVE OrchTyped'
  <2>. DEFINE n == NextRetryCount(req[r].retry)
              x == [req[r] EXCEPT !.pc = "send", !.retry = n]
  <2>1. n \in Nat
    BY DEF NextRetryCount, Goroutine
  <2>2. req' = [req EXCEPT ![r] = x]
    BY <1>8, Zenon DEF TryAgain
  <2>. HIDE DEF n
  <2>3. Ready(x)
    BY <1>8, <2>1 DEF TryAgain, At, Ready, RequestIsReady, Goroutine, Working
  <2>. QED  BY <1>8, <2>2, <2>3, ReqIsTyped DEF OrchTypeOK, TryAgain, storeVars
<1>9. ASSUME Conclude(r) PROVE OrchTyped'
  <2>. DEFINE x == [req[r] EXCEPT !.pc = "notify", !.resp = FinalResponse(r)]
  <2>1. FinalResponse(r) \in Response
    BY <1>9, HandleCallbackIsStatus DEF Conclude, At, FinalResponse, Goroutine, Ready, RequestIsReady, Response
  <2>2. FinalResponse(r).status \in Statuses
    BY <2>1 DEF Response
  <2>3. Ready(x)
    BY <1>9, <2>1, StoredResponses DEF Conclude, At, Ready, RequestIsReady, Goroutine, Working
  <2>4. req' = [req EXCEPT ![r] = x]
    BY <1>9 DEF Conclude
  <2>5. sessions' \in [Requests -> Session]
    BY <1>9, <2>2 DEF Conclude, CompleteSession, Session, OrchTypeOK
  <2>6. byPayment' \in [Payments -> Statuses \cup {""}]
    BY <1>9, <2>2 DEF Conclude, OrchTypeOK
  <2>. QED  BY <1>9, <2>3, <2>4, <2>5, <2>6, ReqIsTyped DEF OrchTypeOK, Conclude, storeVars
<1>. QED  BY <1>1, <1>2, <1>3, <1>4, <1>5, <1>6, <1>7, <1>8, <1>9

(* The adapter calls.                                                      *)
LEMMA CallIsTyped ==
    ASSUME OrchTyped, NEW r \in Requests, At(r, "send"), NEW answer \in Response,
           Call(r, answer),
           ops' \in Seq(Op), DOMAIN ops \subseteq DOMAIN ops'
    PROVE  OrchTyped'
<1>. DEFINE n == IF req[r].calls > maxAttempts THEN req[r].calls ELSE req[r].calls + 1
            x == [req[r] EXCEPT !.pc = "answering", !.resp = answer, !.calls = n]
<1>1. n \in Nat
  BY RequestIsTyped DEF Goroutine, maxAttempts
<1>2. req' = [req EXCEPT ![r] = x]
  BY Zenon DEF Call
<1>. HIDE DEF n
<1>3. Ready(x)
  BY <1>1, RequestIsTyped, StoredResponses DEF At, Ready, RequestIsReady, Goroutine, Working
<1>4. byPayment' \in [Payments -> Statuses \cup {""}]
  BY DEF Call, OrchTyped, OrchTypeOK, Statuses
<1>. QED  BY <1>2, <1>3, <1>4, ReqIsTyped DEF OrchTyped, OrchTypeOK, Call, storeVars

(* Every adapter's answer is a whole response, and its operation joins the *)
(* others.                                                                 *)
LEMMA SendsAreTyped ==
    ASSUME OrchTyped, NEW r \in Requests,
           \/ OpenAtYooKassa(r) \/ RepeatAtYooKassa(r) \/ NotSent(r)
           \/ SendSimulated(r) \/ SendDigitalRuble(r) \/ SendPayAnyWay(r)
    PROVE  OrchTyped'
<1>. DEFINE k == ValidatedKey(r)
<1>1. At(r, "send")
  BY DEF OpenAtYooKassa, RepeatAtYooKassa, NotSent, SendSimulated, SendDigitalRuble,
         SendPayAnyWay
<1>2. k \in Keys /\ ops \in Seq(Op)
  BY <1>1, RequestIsTyped DEF At, Ready, RequestIsReady, OrchTyped, OrchTypeOK
<1>3. Len(ops) + 1 \in Nat /\ DOMAIN ops = 1..Len(ops) /\ Len(ops) \in Nat
  BY <1>2, LenProperties
<1>4. /\ "CAPTURED" \in Statuses /\ "PENDING" \in Statuses /\ "" \in Codes
      /\ mapYooKassaStatus("pending") \in Statuses
  BY MapIsStatus DEF Statuses, Codes
<1>. HIDE DEF k
<1>5. CASE OpenAtYooKassa(r)
  <2>1. ops' \in Seq(Op) /\ DOMAIN ops \subseteq DOMAIN ops'
    BY <1>2, <1>5, AppendOp DEF OpenAtYooKassa, k
  <2>2. Result(k, mapYooKassaStatus("pending"), "", Len(ops) + 1, TRUE) \in Response
    BY <1>2, <1>3, <1>4, ResultIsResponse
  <2>. QED  BY <1>1, <1>5, <2>1, <2>2, CallIsTyped DEF OpenAtYooKassa, k
<1>6. CASE RepeatAtYooKassa(r)
  <2>1. PICK i \in KnownOps(k) :
          Call(r, Result(k, mapYooKassaStatus(ops[i].status),
                         YooKassaErrorCode(mapYooKassaStatus(ops[i].status)), i,
                         ops[i].status = "pending"))
    BY <1>6 DEF RepeatAtYooKassa, k
  <2>2. i \in Nat
    BY <1>3 DEF KnownOps
  <2>3. Result(k, mapYooKassaStatus(ops[i].status),
               YooKassaErrorCode(mapYooKassaStatus(ops[i].status)), i,
               ops[i].status = "pending") \in Response
    BY <1>2, <2>2, MapIsStatus, ErrorCodeIsCode, ResultIsResponse
  <2>. QED  BY <1>1, <1>2, <1>6, <2>1, <2>3, CallIsTyped DEF RepeatAtYooKassa
<1>7. CASE NotSent(r)
  BY <1>1, <1>2, <1>7, UnavailableIsResponse, CallIsTyped DEF NotSent, k
<1>8. CASE SendSimulated(r)
  <2>1. ops' \in Seq(Op) /\ DOMAIN ops \subseteq DOMAIN ops'
    BY <1>2, <1>8, AppendOp DEF SendSimulated, k
  <2>2. Result(k, "CAPTURED", "", Len(ops) + 1, FALSE) \in Response
    BY <1>2, <1>3, <1>4, ResultIsResponse
  <2>. QED  BY <1>1, <1>8, <2>1, <2>2, CallIsTyped DEF SendSimulated, k
<1>9. CASE SendDigitalRuble(r)
  <2>1. ops' \in Seq(Op) /\ DOMAIN ops \subseteq DOMAIN ops'
    BY <1>2, <1>9, AppendOp DEF SendDigitalRuble, k
  <2>2. Result(k, "PENDING", "", Len(ops) + 1, TRUE) \in Response
    BY <1>2, <1>3, <1>4, ResultIsResponse
  <2>. QED  BY <1>1, <1>9, <2>1, <2>2, CallIsTyped DEF SendDigitalRuble, k
<1>10. CASE SendPayAnyWay(r)
  <2>1. Result(k, "PENDING", "", 0, TRUE) \in Response
    BY <1>2, <1>4, ResultIsResponse
  <2>. QED  BY <1>1, <1>2, <1>10, <2>1, CallIsTyped DEF SendPayAnyWay, k
<1>. QED  BY <1>5, <1>6, <1>7, <1>8, <1>9, <1>10

(* Notification and storage of a request's result.                         *)
LEMMA OutcomeStepsAreTyped ==
    ASSUME OrchTyped, NEW r \in Requests,
           Notify(r) \/ SaveAndReply(r) \/ NotifyRefusal(r) \/ SaveRefusal(r)
    PROVE  OrchTyped'
<1>. USE RequestIsTyped DEF OrchTyped
<1>1. CASE Notify(r)
  <2>. DEFINE x == [req[r] EXCEPT !.pc = "save"]
  <2>1. Ready(x) /\ req' = [req EXCEPT ![r] = x]
    BY <1>1 DEF Notify, Goto, At, Ready, RequestIsReady, Goroutine, Working
  <2>2. notices' \subseteq Notice
    BY <1>1, DeliverIsTyped DEF Notify, At, Ready, RequestIsReady
  <2>. QED  BY <1>1, <2>1, <2>2, ReqIsTyped DEF OrchTypeOK, Notify, storeVars
<1>2. CASE NotifyRefusal(r)
  <2>. DEFINE x == [req[r] EXCEPT !.pc = "saveRefusal"]
  <2>1. Ready(x) /\ req' = [req EXCEPT ![r] = x]
    BY <1>2 DEF NotifyRefusal, Goto, At, Ready, RequestIsReady, Goroutine, Working
  <2>2. notices' \subseteq Notice
    BY <1>2, DeliverIsTyped DEF NotifyRefusal, At, Ready, RequestIsReady
  <2>. QED  BY <1>2, <2>1, <2>2, ReqIsTyped DEF OrchTypeOK, NotifyRefusal, storeVars
<1>3. CASE SaveAndReply(r)
  <2>. DEFINE x == [req[r] EXCEPT !.pc = "replied"]
  <2>1. Ready(x) /\ req' = [req EXCEPT ![r] = x]
    BY <1>3 DEF SaveAndReply, Goto, At, Ready, RequestIsReady, Goroutine, Ended
  <2>2. req[r].resp \in Response
    BY <1>3 DEF SaveAndReply, At, Ready, RequestIsReady
  <2>3. CASE Save(req[r].resp) /\ UNCHANGED faults
    BY <1>3, <2>1, <2>2, <2>3, ReqIsTyped, SaveIsTyped DEF OrchTypeOK, SaveAndReply
  <2>4. CASE StoreError
    BY <1>3, <2>1, <2>4, ReqIsTyped, StoreErrorIsTyped DEF OrchTypeOK, SaveAndReply
  <2>. QED  BY <1>3, <2>3, <2>4 DEF SaveAndReply
<1>4. CASE SaveRefusal(r)
  <2>1. req[r].resp \in Response
    BY <1>4 DEF SaveRefusal, At, Ready, RequestIsReady
  <2>2. CASE Save(req[r].resp) /\ UNCHANGED faults /\ Goto(r, "replied")
    <3>. DEFINE x == [req[r] EXCEPT !.pc = "replied"]
    <3>1. Ready(x) /\ req' = [req EXCEPT ![r] = x]
      BY <1>4, <2>2 DEF SaveRefusal, Goto, At, Ready, RequestIsReady, Goroutine, Ended
    <3>. QED  BY <1>4, <2>1, <2>2, <3>1, ReqIsTyped, SaveIsTyped DEF OrchTypeOK, SaveRefusal
  <2>3. CASE StoreError /\ Goto(r, "errored")
    <3>. DEFINE x == [req[r] EXCEPT !.pc = "errored"]
    <3>1. Ready(x) /\ req' = [req EXCEPT ![r] = x]
      BY <1>4, <2>3 DEF SaveRefusal, Goto, At, Ready, RequestIsReady, Goroutine, Ended
    <3>. QED  BY <1>4, <2>3, <3>1, ReqIsTyped, StoreErrorIsTyped DEF OrchTypeOK, SaveRefusal
  <2>. QED  BY <1>4, <2>2, <2>3 DEF SaveRefusal
<1>. QED  BY <1>1, <1>2, <1>3, <1>4

(* A restart leaves no goroutine with half a response.                     *)
LEMMA RestartIsTyped ==
    ASSUME OrchTyped, Restart
    PROVE  OrchTyped'
<1>. USE DEF OrchTyped
<1>1. ASSUME NEW r \in Requests PROVE Ready(req'[r])
  <2>1. CASE req'[r] = req[r]
    BY <1>1, <2>1, RequestIsTyped
  <2>2. CASE req'[r] = [req[r] EXCEPT !.pc = "crashed"] /\ req[r].pc # "idle"
    BY <1>1, <2>2, RequestIsTyped DEF Ready, RequestIsReady, Goroutine, Ended
  <2>. QED  BY <1>1, <2>1, <2>2 DEF Restart
<1>2. req' \in [Requests -> Goroutine]
  BY <1>1 DEF Ready, Restart
<1>3. NoSession \in Session
  BY DEF NoSession, Session
<1>4. /\ byIdempotency' \in [Keys -> Stored]
      /\ byPaymentID' \in [Payments -> Stored]
  BY StoredResponses DEF Restart, OrchTypeOK
<1>5. RequestsAreReady'
  BY <1>1 DEF Ready, RequestsAreReady
<1>6. faults' \in 0..MaxFaults
  BY FaultIsTyped DEF Restart
<1>. QED  BY <1>2, <1>3, <1>4, <1>5, <1>6 DEF OrchTypeOK, Restart

(* Every step of CreatePayment keeps the types.                            *)
LEMMA CreatePaymentIsTyped ==
    ASSUME OrchTyped, NEW r \in Requests, CreatePayment(r)
    PROVE  OrchTyped'
BY LocalStepsAreTyped, SendsAreTyped, OutcomeStepsAreTyped DEF CreatePayment

(* So does the arrival of a request.                                       *)
LEMMA ReceiveIsTyped ==
    ASSUME OrchTyped, NEW r \in Requests, NEW k \in Keys, Receive(r, k)
    PROVE  OrchTyped'
BY LocalStepsAreTyped

-----------------------------------------------------------------------------
(* What a step of CreatePayment changes and leaves alone.                  *)

(* r goes on from one point to another while the other requests stand      *)
(* still.                                                                  *)
Passes(r, from, to) ==
    /\ req[r].pc = from
    /\ req'[r].pc = to
    /\ req'[r].key = req[r].key
    /\ \A q \in Requests : q # r => req'[q] = req[q]

SameAnswer(r) == req'[r].resp = req[r].resp
SameCount(r)  == req'[r].retry = req[r].retry /\ req'[r].calls = req[r].calls
Unheard == UNCHANGED <<byIdempotency, byPaymentID, saved, ops, notices, faults>>

Replays(r) ==
    /\ Passes(r, "lookup", "replayed")
    /\ Found(byIdempotency[req[r].key])
    /\ req'[r].resp = byIdempotency[req[r].key]
    /\ SameCount(r) /\ Unheard

Starts(r) ==
    /\ Passes(r, "lookup", "prepare")
    /\ ~Found(byIdempotency[req[r].key])
    /\ SameAnswer(r) /\ SameCount(r) /\ Unheard

Prepares(r) ==
    /\ Passes(r, "prepare", "send")
    /\ SameAnswer(r) /\ SameCount(r) /\ Unheard

Refuses(r) ==
    /\ Passes(r, "prepare", "notifyRefusal")
    /\ \E f \in Refusals : req'[r].resp = Result(RefusedKey(r, f), f[1], f[2], 0, FALSE)
    /\ SameCount(r) /\ Unheard

(* The adapter call, but for what the provider makes of it.                *)
Sends(r) ==
    /\ Passes(r, "send", "answering")
    /\ req'[r].retry = req[r].retry
    /\ req'[r].calls = IF req[r].calls > maxAttempts THEN req[r].calls ELSE req[r].calls + 1
    /\ UNCHANGED <<byIdempotency, byPaymentID, saved, notices, faults>>

Opens(r) ==
    LET k == ValidatedKey(r) IN
    /\ Sends(r)
    /\ AdapterOf[k] = "yookassa"
    /\ KnownOps(k) = {}
    /\ ops' = Append(ops, Operation(k, "pending"))
    /\ req'[r].resp = Result(k, "PENDING", "", Len(ops) + 1, TRUE)

Repeats(r, i) ==
    LET status == mapYooKassaStatus(ops[i].status) IN
    /\ Sends(r)
    /\ AdapterOf[ValidatedKey(r)] = "yookassa"
    /\ i \in KnownOps(ValidatedKey(r))
    /\ ops' = ops
    /\ req'[r].resp = Result(ValidatedKey(r), status, YooKassaErrorCode(status), i,
                            ops[i].status = "pending")

Misses(r) ==
    /\ Sends(r)
    /\ AdapterOf[ValidatedKey(r)] = "yookassa"
    /\ ops' = ops
    /\ req'[r].resp = Unavailable(ValidatedKey(r))

(* The other providers: two that open an operation, one that does not.     *)
OpensElsewhere(r, status) ==
    LET k == ValidatedKey(r) IN
    /\ Sends(r)
    /\ ops' = Append(ops, Operation(k, status))
    /\ \/ /\ AdapterOf[k] = "simulated" /\ status = "succeeded"
          /\ req'[r].resp = Result(k, "CAPTURED", "", Len(ops) + 1, FALSE)
       \/ /\ AdapterOf[k] = "digital_ruble" /\ status = "pending"
          /\ req'[r].resp = Result(k, "PENDING", "", Len(ops) + 1, TRUE)

Links(r) ==
    /\ Sends(r)
    /\ AdapterOf[ValidatedKey(r)] = "payanyway"
    /\ ops' = ops
    /\ req'[r].resp = Result(ValidatedKey(r), "PENDING", "", 0, TRUE)

Loses(r) ==
    /\ Passes(r, "answering", "answering")
    /\ AdapterOf[ValidatedKey(r)] = "yookassa"
    /\ req'[r].resp = Unavailable(ValidatedKey(r))
    /\ SameCount(r) /\ Unheard

Retries(r) ==
    /\ Passes(r, "answering", "send")
    /\ ShouldRetry(req[r].resp.status, req[r].retry)
    /\ req'[r].retry = req[r].retry + 1
    /\ req'[r].calls = req[r].calls
    /\ SameAnswer(r) /\ Unheard

Concludes(r) ==
    /\ Passes(r, "answering", "notify")
    /\ req'[r].resp = FinalResponse(r)
    /\ SameCount(r) /\ Unheard

Notifies(r) ==
    /\ Passes(r, "notify", "save") \/ Passes(r, "notifyRefusal", "saveRefusal")
    /\ Deliver(req[r].resp, "orchestrator")
    /\ SameAnswer(r) /\ SameCount(r)
    /\ UNCHANGED <<byIdempotency, byPaymentID, saved, ops, faults>>

Stores(r) ==
    /\ Passes(r, "save", "replied") \/ Passes(r, "saveRefusal", "replied")
    /\ Save(req[r].resp)
    /\ SameAnswer(r) /\ SameCount(r)
    /\ UNCHANGED <<ops, notices, faults>>

(* A store operation fails.                                                *)
Misfires(r) ==
    /\ \/ Passes(r, "lookup", "errored")
       \/ Passes(r, "save", "replied")
       \/ Passes(r, "saveRefusal", "errored")
    /\ Durable /\ faults' = faults + 1
    /\ SameAnswer(r) /\ SameCount(r)
    /\ UNCHANGED <<byIdempotency, byPaymentID, saved, ops, notices>>

Calls(r) ==
    \/ Opens(r) \/ Misses(r) \/ Links(r)
    \/ \E i \in KnownOps(ValidatedKey(r)) : Repeats(r, i)
    \/ \E status \in {"pending", "succeeded"} : OpensElsewhere(r, status)

Moves(r) ==
    \/ Replays(r) \/ Starts(r) \/ Prepares(r) \/ Refuses(r) \/ Calls(r) \/ Loses(r)
    \/ Retries(r) \/ Concludes(r) \/ Notifies(r) \/ Stores(r) \/ Misfires(r)

(* An adapter call moves the request to its answer and counts itself.      *)
LEMMA CallSends ==
    ASSUME OrchTyped, NEW r \in Requests, At(r, "send"), NEW answer, Call(r, answer)
    PROVE  Sends(r) /\ req'[r].resp = answer
<1>. DEFINE n == IF req[r].calls > maxAttempts THEN req[r].calls ELSE req[r].calls + 1
            x == [req[r] EXCEPT !.pc = "answering", !.resp = answer, !.calls = n]
<1>1. req' = [req EXCEPT ![r] = x] /\ UNCHANGED <<storeVars, notices, faults>>
  BY Zenon DEF Call
<1>2. req \in [Requests -> Goroutine] /\ req[r] \in Goroutine
  BY DEF OrchTyped, OrchTypeOK
<1>3. /\ x.pc = "answering" /\ x.key = req[r].key /\ x.resp = answer
      /\ x.retry = req[r].retry /\ x.calls = n
  BY <1>2 DEF Goroutine
<1>4. req'[r] = x /\ \A q \in Requests : q # r => req'[q] = req[q]
  BY <1>1, <1>2
<1>. HIDE DEF x
<1>. QED  BY <1>1, <1>3, <1>4 DEF Sends, Passes, At, storeVars

(* The adapters' answers and operations.                                   *)
LEMMA SendMoves ==
    ASSUME OrchTyped, NEW r \in Requests,
           \/ OpenAtYooKassa(r) \/ RepeatAtYooKassa(r) \/ NotSent(r)
           \/ SendSimulated(r) \/ SendDigitalRuble(r) \/ SendPayAnyWay(r)
    PROVE  Calls(r)
<1>1. CASE OpenAtYooKassa(r)
  <2>1. mapYooKassaStatus("pending") = "PENDING"
    BY DEF mapYooKassaStatus
  <2>. QED  BY <1>1, <2>1, CallSends DEF OpenAtYooKassa, Opens, Calls
<1>2. CASE RepeatAtYooKassa(r)
  BY <1>2, CallSends DEF RepeatAtYooKassa, Repeats, Calls
<1>3. CASE NotSent(r)
  BY <1>3, CallSends DEF NotSent, Misses, Calls
<1>4. CASE SendSimulated(r)
  BY <1>4, CallSends DEF SendSimulated, OpensElsewhere, Calls
<1>5. CASE SendDigitalRuble(r)
  BY <1>5, CallSends DEF SendDigitalRuble, OpensElsewhere, Calls
<1>6. CASE SendPayAnyWay(r)
  BY <1>6, CallSends DEF SendPayAnyWay, Links, Calls
<1>. QED  BY <1>1, <1>2, <1>3, <1>4, <1>5, <1>6

(* The other steps of CreatePayment.                                       *)
LEMMA OtherMoves ==
    ASSUME OrchTyped, NEW r \in Requests,
           \/ Replay(r) \/ LookupError(r) \/ Begin(r) \/ Prepare(r)
           \/ \E f \in Refusals : Refuse(r, f)
           \/ LoseAnswer(r) \/ TryAgain(r) \/ Conclude(r)
           \/ Notify(r) \/ SaveAndReply(r) \/ NotifyRefusal(r) \/ SaveRefusal(r)
    PROVE  Moves(r)
<1>. req \in [Requests -> Goroutine] /\ req[r] \in Goroutine
  BY DEF OrchTyped, OrchTypeOK
<1>. USE DEF Moves, Passes, SameAnswer, SameCount, Unheard, storeVars, At
<1>1. CASE Replay(r)
  BY <1>1 DEF Replay, GetByIdempotencyKey, Replays, Goroutine
<1>2. CASE LookupError(r)
  BY <1>2 DEF LookupError, Goto, StoreError, Fault, Misfires, Goroutine
<1>3. CASE Begin(r)
  BY <1>3 DEF Begin, Goto, GetByIdempotencyKey, Starts, Goroutine
<1>4. CASE Prepare(r)
  BY <1>4 DEF Prepare, Goto, Prepares, Goroutine
<1>5. ASSUME NEW f \in Refusals, Refuse(r, f) PROVE Moves(r)
  <2>. DEFINE resp == Result(RefusedKey(r, f), f[1], f[2], 0, FALSE)
  <2>1. /\ req' = [req EXCEPT ![r].pc = "notifyRefusal", ![r].resp = resp]
        /\ req[r].pc = "prepare" /\ Unheard
    BY <1>5 DEF Refuse
  <2>2. \E g \in Refusals : resp = Result(RefusedKey(r, g), g[1], g[2], 0, FALSE)
    OBVIOUS
  <2>. HIDE DEF resp
  <2>3. req'[r].resp = resp /\ Passes(r, "prepare", "notifyRefusal") /\ SameCount(r)
    BY <2>1 DEF Goroutine
  <2>. QED  BY <2>1, <2>2, <2>3 DEF Refuses
<1>6. CASE LoseAnswer(r)
  BY <1>6 DEF LoseAnswer, Loses, Goroutine
<1>7. CASE TryAgain(r)
  BY <1>7 DEF TryAgain, NextRetryCount, Retries, Goroutine
<1>8. CASE Conclude(r)
  <2>. DEFINE resp == FinalResponse(r)
  <2>1. /\ req' = [req EXCEPT ![r].pc = "notify", ![r].resp = resp]
        /\ req[r].pc = "answering" /\ Unheard
    BY <1>8 DEF Conclude
  <2>. HIDE DEF resp
  <2>2. req'[r].resp = resp /\ Passes(r, "answering", "notify") /\ SameCount(r)
    BY <2>1 DEF Goroutine
  <2>. QED  BY <2>1, <2>2 DEF Concludes, resp
<1>9. CASE Notify(r) \/ NotifyRefusal(r)
  BY <1>9 DEF Notify, NotifyRefusal, Goto, Notifies, Goroutine
<1>10. CASE SaveAndReply(r)
  BY <1>10 DEF SaveAndReply, Goto, StoreError, Fault, Stores, Misfires, Goroutine
<1>11. CASE SaveRefusal(r)
  BY <1>11 DEF SaveRefusal, Goto, StoreError, Fault, Stores, Misfires, Goroutine
<1>. QED  BY <1>1, <1>2, <1>3, <1>4, <1>5, <1>6, <1>7, <1>8, <1>9, <1>10, <1>11

(* A step of CreatePayment is one of these moves of its request.           *)
LEMMA CreatePaymentMoves ==
    ASSUME OrchTyped, NEW r \in Requests, CreatePayment(r)
    PROVE  Moves(r)
BY SendMoves, OtherMoves DEF CreatePayment, Moves

(* A request arrives.                                                      *)
Arrives(r) ==
    /\ req[r].pc = "idle"
    /\ req'[r].pc = "lookup"
    /\ req'[r].key \in Keys
    /\ \A q \in Requests : q # r => req'[q] = req[q]
    /\ SameAnswer(r) /\ SameCount(r) /\ Unheard

(* The arrival of a request moves it alone.                                *)
LEMMA ReceiveMoves ==
    ASSUME OrchTyped, NEW r \in Requests, NEW k \in Keys, Receive(r, k)
    PROVE  Arrives(r)
BY DEF OrchTyped, OrchTypeOK, Goroutine, Receive, At, Arrives, SameAnswer, SameCount,
       Unheard, storeVars

Stops ==
    /\ \A r \in Requests :
          /\ SameAnswer(r) /\ SameCount(r) /\ req'[r].key = req[r].key
          /\ req'[r].pc = IF req[r].pc \in Ended \cup {"idle"} THEN req[r].pc ELSE "crashed"
    /\ \/ Durable /\ UNCHANGED <<byIdempotency, byPaymentID>>
       \/ /\ ~Durable
          /\ byIdempotency' = [k \in Keys |-> NoResponse]
          /\ byPaymentID' = [p \in Payments |-> NoResponse]
    /\ faults' = faults + 1
    /\ UNCHANGED <<saved, ops, notices>>

(* A restart stops the requests that are under way, with what they had.    *)
LEMMA RestartStops ==
    ASSUME OrchTyped, Restart
    PROVE  Stops
BY DEF OrchTyped, OrchTypeOK, Goroutine, Restart, Fault, SameAnswer, SameCount, Stops

(* No operation is taken back, none changes its key, and none changes once *)
(* it is final.                                                            *)
OpsGrow ==
    /\ DOMAIN ops \subseteq DOMAIN ops'
    /\ \A i \in DOMAIN ops :
          /\ ops'[i].key = ops[i].key
          /\ ops[i].status # "pending" => ops'[i] = ops[i]

(* A provider that opens an operation or settles one grows its books.      *)
LEMMA OpenOrSettleGrows ==
    ASSUME ops \in Seq(Op),
           \/ ops' = ops
           \/ \E k \in Keys, status \in {"pending", "succeeded", "canceled"} :
                 ops' = Append(ops, Operation(k, status))
           \/ \E i \in DOMAIN ops, status \in {"succeeded", "canceled"} :
                 ops[i].status = "pending" /\ ops' = [ops EXCEPT ![i].status = status]
    PROVE  OpsGrow
<1>1. CASE ops' = ops
  BY <1>1 DEF OpsGrow
<1>2. ASSUME NEW k \in Keys, NEW status \in {"pending", "succeeded", "canceled"},
             ops' = Append(ops, Operation(k, status))
      PROVE  OpsGrow
  BY <1>2, AppendOp DEF OpsGrow
<1>3. ASSUME NEW i \in DOMAIN ops, NEW status \in {"succeeded", "canceled"},
             ops[i].status = "pending", ops' = [ops EXCEPT ![i].status = status]
      PROVE  OpsGrow
  BY <1>3, SettleOp DEF OpsGrow, Operation
<1>. QED  BY <1>1, <1>2, <1>3

(* The requests only add to the providers' books.                          *)
LEMMA MovesGrow ==
    ASSUME OrchTyped, NEW r \in Requests, Moves(r) \/ Arrives(r)
    PROVE  OpsGrow
<1>1. ops \in Seq(Op)
  BY DEF OrchTyped, OrchTypeOK
<1>2. CASE Opens(r) \/ \E status \in {"pending", "succeeded"} : OpensElsewhere(r, status)
  <2>1. ValidatedKey(r) \in Keys
    BY <1>2, RequestIsTyped DEF Opens, OpensElsewhere, Sends, Passes
  <2>. QED  BY <1>1, <1>2, <2>1, OpenOrSettleGrows DEF Opens, OpensElsewhere
<1>3. CASE ops' = ops
  BY <1>1, <1>3, OpenOrSettleGrows
<1>. QED
  BY <1>2, <1>3 DEF Moves, Calls, Arrives, Unheard, Replays, Starts, Prepares, Refuses, Misses,
                    Links, Repeats, Loses, Retries, Concludes, Notifies, Stores, Misfires

-----------------------------------------------------------------------------
(* The responses there are.                                                *)

(* x is stored, was stored, or is the response of a request.               *)
Held(x) ==
    \/ \E k \in Keys : x = byIdempotency[k] \/ x \in saved[k]
    \/ \E p \in Payments : x = byPaymentID[p]
    \/ \E r \in Requests : x = req[r].resp

(* It is a whole response or the absence of one.                           *)
LEMMA HeldIsStored ==
    ASSUME OrchTypeOK, NEW x, Held(x)
    PROVE  x \in Stored
<1>1. \A k \in Keys : byIdempotency[k] \in Stored /\ saved[k] \subseteq Response
  BY DEF OrchTypeOK
<1>2. \A p \in Payments : byPaymentID[p] \in Stored
  BY DEF OrchTypeOK
<1>3. \A r \in Requests : req[r].resp \in Stored
  BY DEF OrchTypeOK, Goroutine
<1>. QED  BY <1>1, <1>2, <1>3 DEF Held, Stored

(* Save makes no response.                                                 *)
LEMMA SaveHolds ==
    ASSUME OrchTypeOK, NEW resp \in Response, Save(resp)
    PROVE  /\ \A k \in Keys : byIdempotency'[k] = IF k = resp.key THEN resp ELSE byIdempotency[k]
           /\ \A k \in Keys : saved'[k] = IF k = resp.key THEN saved[k] \cup {resp} ELSE saved[k]
           /\ \A p \in Payments :
                 byPaymentID'[p] = IF p = PaymentOf[resp.key] THEN resp ELSE byPaymentID[p]
BY DEF Save, OrchTypeOK

(* The response a move makes is that of its request: a refusal, the answer *)
(* of an adapter or what HandleCallback makes of one.                      *)
LEMMA MovesMake ==
    ASSUME OrchTyped, NEW r \in Requests, Moves(r) \/ Arrives(r), NEW x, Held(x)'
    PROVE  \/ Held(x)
           \/ x = req'[r].resp /\ (Refuses(r) \/ Calls(r) \/ Loses(r) \/ Concludes(r))
<1>. OrchTypeOK
  BY DEF OrchTyped
<1>1. CASE Refuses(r) \/ Calls(r) \/ Loses(r) \/ Concludes(r)
  <2>1. /\ UNCHANGED <<byIdempotency, byPaymentID, saved>>
        /\ \A q \in Requests : q # r => req'[q] = req[q]
    BY <1>1 DEF Refuses, Calls, Loses, Concludes, Passes, Unheard, Opens, Misses, Links, Repeats,
                OpensElsewhere, Sends
  <2>. QED  BY <1>1, <2>1 DEF Held
<1>2. CASE Replays(r)
  <2>1. req[r].key \in Keys
    BY <1>2, RequestIsTyped DEF Ready, RequestIsReady, Replays, Passes
  <2>. QED  BY <1>2, <2>1 DEF Held, Replays, Passes, Unheard
<1>3. CASE Stores(r)
  <2>1. req[r].resp \in Response
    BY <1>3, RequestIsTyped DEF Stores, Passes, Ready, RequestIsReady
  <2>2. \A q \in Requests : req'[q].resp = req[q].resp
    BY <1>3 DEF Stores, Passes, SameAnswer
  <2>3. \A k \in Keys : /\ byIdempotency'[k] \in {byIdempotency[k], req[r].resp}
                        /\ saved'[k] \subseteq saved[k] \cup {req[r].resp}
    BY <1>3, <2>1, SaveHolds DEF Stores
  <2>4. \A p \in Payments : byPaymentID'[p] \in {byPaymentID[p], req[r].resp}
    BY <1>3, <2>1, SaveHolds DEF Stores
  <2>. QED  BY <2>2, <2>3, <2>4 DEF Held
<1>4. CASE Starts(r) \/ Prepares(r) \/ Retries(r) \/ Notifies(r) \/ Misfires(r) \/ Arrives(r)
  <2>1. UNCHANGED <<byIdempotency, byPaymentID, saved>>
    BY <1>4 DEF Starts, Prepares, Retries, Notifies, Misfires, Arrives, Unheard
  <2>2. \A q \in Requests : req'[q].resp = req[q].resp
    BY <1>4 DEF Starts, Prepares, Retries, Notifies, Misfires, Arrives, Passes, SameAnswer
  <2>. QED  BY <2>1, <2>2 DEF Held
<1>. QED  BY <1>1, <1>2, <1>3, <1>4 DEF Moves

(* A restart makes none.                                                   *)
LEMMA RestartMakesNone ==
    ASSUME OrchTyped, Stops, NEW x, Held(x)'
    PROVE  Held(x) \/ x = NoResponse
BY DEF Stops, SameAnswer, Held

(* An operation has a key and a status, and a number that is not 0.        *)
LEMMA OpIsTyped ==
    ASSUME OrchTypeOK, NEW i \in DOMAIN ops
    PROVE  /\ ops[i].key \in Keys
           /\ ops[i].status \in {"pending", "succeeded", "canceled"}
           /\ ops[i] = Operation(ops[i].key, ops[i].status)
           /\ i \in Nat /\ i # 0
<1>1. ops \in Seq(Op)
  BY DEF OrchTypeOK
<1>2. ops[i] \in Op /\ i \in 1..Len(ops) /\ Len(ops) \in Nat
  BY <1>1, ElementOfSeq, LenProperties
<1>. QED  BY <1>2 DEF Op, Operation

-----------------------------------------------------------------------------
(* The two views of the store.                                             *)

(* Every response is stored under its own key, and the record of a payment *)
(* is the current one of a key of this payment.                            *)
Shelved ==
    /\ \A k \in Keys : \A x \in saved[k] : x.key = k
    /\ \A k \in Keys : Found(byIdempotency[k]) => byIdempotency[k].key = k
    /\ \A p \in Payments : Found(byPaymentID[p]) =>
          /\ byPaymentID[p].key \in Keys
          /\ PaymentOf[byPaymentID[p].key] = p
          /\ byPaymentID[p] = byIdempotency[byPaymentID[p].key]

(* Save writes both views, so that they go on agreeing.                    *)
LEMMA SaveShelves ==
    ASSUME OrchTypeOK, Shelved, NEW resp \in Response, Save(resp)
    PROVE  Shelved'
<1>. DEFINE j == resp.key
<1>1. j \in Keys /\ PaymentOf[j] \in Payments
  BY PaymentOfAssumption DEF Response
<1>2. /\ byIdempotency'[j] = resp /\ byPaymentID'[PaymentOf[j]] = resp
      /\ saved'[j] = saved[j] \cup {resp}
      /\ \A k \in Keys : k # j => byIdempotency'[k] = byIdempotency[k] /\ saved'[k] = saved[k]
      /\ \A p \in Payments : p # PaymentOf[j] => byPaymentID'[p] = byPaymentID[p]
  BY <1>1, SaveHolds
<1>3. \A k \in Keys : /\ \A x \in saved'[k] : x.key = k
                      /\ Found(byIdempotency'[k]) => byIdempotency'[k].key = k
  BY <1>1, <1>2 DEF Shelved
<1>4. ASSUME NEW p \in Payments, Found(byPaymentID'[p])
      PROVE  /\ byPaymentID'[p].key \in Keys
             /\ PaymentOf[byPaymentID'[p].key] = p
             /\ byPaymentID'[p] = byIdempotency'[byPaymentID'[p].key]
  <2>1. CASE p = PaymentOf[j]
    BY <1>1, <1>2, <2>1
  <2>2. CASE p # PaymentOf[j]
    <3>1. byPaymentID'[p] = byPaymentID[p]
      BY <1>2, <2>2
    <3>2. /\ byPaymentID[p].key \in Keys
          /\ PaymentOf[byPaymentID[p].key] = p
          /\ byPaymentID[p] = byIdempotency[byPaymentID[p].key]
      BY <1>4, <3>1 DEF Shelved
    <3>3. byPaymentID[p].key # j
      BY <2>2, <3>2
    <3>. QED  BY <1>2, <3>1, <3>2, <3>3
  <2>. QED  BY <2>1, <2>2
<1>. QED  BY <1>3, <1>4 DEF Shelved

(* An in-memory store that is lost holds nothing under a wrong key.        *)
LEMMA RestartShelves ==
    ASSUME Shelved, Stops
    PROVE  Shelved'
<1>1. ~Found(NoResponse)
  BY DEF Found, NoResponse
<1>. QED  BY <1>1 DEF Shelved, Stops

(* The store starts empty.                                                 *)
LEMMA InitIsShelved == OrchInit => Shelved
<1>1. ~Found(NoResponse)
  BY DEF Found, NoResponse
<1>2. ASSUME OrchInit
      PROVE  /\ \A k \in Keys : byIdempotency[k] = NoResponse /\ saved[k] = {}
             /\ \A p \in Payments : byPaymentID[p] = NoResponse
  BY <1>2 DEF OrchInit
<1>. QED  BY <1>1, <1>2 DEF Shelved

(* The requests write the store by Save alone.                             *)
LEMMA MovesFile ==
    ASSUME OrchTyped, NEW r \in Requests, Moves(r) \/ Arrives(r)
    PROVE  \/ UNCHANGED <<byIdempotency, byPaymentID, saved>>
           \/ Stores(r) /\ req[r].resp \in Response
<1>1. CASE Stores(r)
  BY <1>1, RequestIsTyped DEF Stores, Passes, Ready, RequestIsReady
<1>. QED
  BY <1>1 DEF Moves, Calls, Arrives, Unheard, Replays, Starts, Prepares, Refuses, Opens,
              OpensElsewhere, Sends, Misses, Links, Repeats, Loses, Retries, Concludes, Notifies,
              Misfires

(* So they keep the views in step.                                         *)
LEMMA MovesShelve ==
    ASSUME OrchTyped, Shelved, NEW r \in Requests, Moves(r) \/ Arrives(r)
    PROVE  Shelved'
<1>1. CASE UNCHANGED <<byIdempotency, byPaymentID, saved>>
  BY <1>1 DEF Shelved
<1>2. CASE Stores(r) /\ req[r].resp \in Response
  BY <1>2, SaveShelves DEF Stores, OrchTyped
<1>. QED  BY <1>1, <1>2, MovesFile

-----------------------------------------------------------------------------
(* The attempts of a request.                                              *)

(* The adapter calls a request has made are those it has repeated and the  *)
(* first; it repeats none that its answer does not allow.                  *)
CountIsRight(x) ==
    /\ x.calls <= maxAttempts
    /\ x.pc \in {"idle", "lookup", "prepare"} => x.retry = 0 /\ x.calls = 0
    /\ x.pc = "send" => x.calls = x.retry /\ x.retry <= maxAttempts - 1
    /\ x.pc \in {"answering", "notify", "save"} =>
           x.calls = x.retry + 1 /\ x.retry <= maxAttempts - 1
    /\ x.pc \in {"notify", "save"} => x.resp.retry = x.retry

Counted == \A r \in Requests : CountIsRight(req[r])

(* A move of a request counts its call and its repetition.                 *)
LEMMA MovesCount ==
    ASSUME OrchTyped, Counted, NEW r \in Requests, Moves(r) \/ Arrives(r)
    PROVE  Counted'
<1>. CountIsRight(req[r])
  BY DEF Counted
<1>1. req[r].retry \in Nat /\ req[r].calls \in Nat /\ req[r].resp \in Stored
  BY DEF OrchTyped, OrchTypeOK, Goroutine
<1>2. \A q \in Requests : q # r => req'[q] = req[q]
  BY DEF Moves, Calls, Arrives, Replays, Starts, Prepares, Refuses, Opens, OpensElsewhere, Sends,
         Misses, Links, Repeats, Loses, Retries, Concludes, Notifies, Stores, Misfires, Passes
<1>3. CASE Replays(r) \/ Starts(r) \/ Prepares(r) \/ Refuses(r) \/ Loses(r) \/ Arrives(r)
  <2>1. SameCount(r)
    BY <1>3 DEF Replays, Starts, Prepares, Refuses, Loses, Arrives
  <2>2. \/ req[r].pc \in {"lookup", "prepare"}
           /\ req'[r].pc \in {"replayed", "prepare", "send", "notifyRefusal"}
        \/ req[r].pc = "answering" /\ req'[r].pc = "answering"
        \/ req[r].pc = "idle" /\ req'[r].pc = "lookup"
    BY <1>3 DEF Replays, Starts, Prepares, Refuses, Loses, Arrives, Passes
  <2>3. CountIsRight(req'[r])
    BY <1>1, <2>1, <2>2 DEF SameCount, CountIsRight, maxAttempts
  <2>. QED  BY <1>2, <2>3 DEF Counted
<1>4. CASE Calls(r)
  <2>1. Sends(r)
    BY <1>4 DEF Calls, Opens, OpensElsewhere, Misses, Links, Repeats
  <2>2. CountIsRight(req'[r])
    BY <1>1, <2>1 DEF Sends, Passes, CountIsRight, maxAttempts
  <2>. QED  BY <1>2, <2>2 DEF Counted
<1>5. CASE Retries(r)
  <2>1. CountIsRight(req'[r])
    BY <1>1, <1>5 DEF Retries, Passes, ShouldRetry, CountIsRight, maxAttempts
  <2>. QED  BY <1>2, <2>1 DEF Counted
<1>6. CASE Concludes(r)
  <2>1. req[r].resp \in Response
    BY <1>6, RequestIsTyped DEF Concludes, Passes, Ready, RequestIsReady
  <2>2. FinalResponse(r).retry = req[r].retry
    BY <2>1 DEF FinalResponse, Response
  <2>3. req'[r].resp.retry = req'[r].retry
    BY <1>6, <2>2 DEF Concludes, SameCount
  <2>4. CountIsRight(req'[r])
    BY <1>1, <1>6, <2>3 DEF Concludes, Passes, SameCount, CountIsRight
  <2>. QED  BY <1>2, <2>4 DEF Counted
<1>7. CASE Notifies(r) \/ Stores(r) \/ Misfires(r)
  <2>1. CountIsRight(req'[r])
    BY <1>1, <1>7 DEF Notifies, Stores, Misfires, Passes, SameAnswer, SameCount, CountIsRight
  <2>. QED  BY <1>2, <2>1 DEF Counted
<1>. QED  BY <1>3, <1>4, <1>5, <1>6, <1>7 DEF Moves

(* A restart counts nothing.                                               *)
LEMMA RestartCounts ==
    ASSUME OrchTyped, Counted, Stops
    PROVE  Counted'
BY DEF Stops, SameAnswer, SameCount, Counted, CountIsRight, Ended

(* Before a request nothing is counted.                                    *)
LEMMA InitIsCounted == OrchInit => Counted
<1>1. CountIsRight(Idle)
  BY DEF Idle, CountIsRight, maxAttempts
<1>. QED  BY <1>1 DEF OrchInit, Counted

-----------------------------------------------------------------------------
(* The key of a response.                                                  *)

(* What a request stores is of its own key, as sent or as validated.       *)
OwnKey(x) ==
    /\ x.pc \in {"answering", "notify", "save"} => x.resp.key = TrimmedKey[x.key]
    /\ x.pc \in {"notifyRefusal", "saveRefusal"} => x.resp.key \in {x.key, TrimmedKey[x.key]}

OwnKeys == \A r \in Requests : OwnKey(req[r])

(* The answers of the adapters and failAndSave's are of the request's key. *)
LEMMA MovesKeepKeys ==
    ASSUME OrchTyped, OwnKeys, NEW r \in Requests, Moves(r) \/ Arrives(r)
    PROVE  OwnKeys'
<1>. OwnKey(req[r])
  BY DEF OwnKeys
<1>. SUFFICES OwnKey(req'[r])
  BY DEF OwnKeys, Moves, Calls, Arrives, Replays, Starts, Prepares, Refuses, Opens, OpensElsewhere,
         Sends, Misses, Links, Repeats, Loses, Retries, Concludes, Notifies, Stores, Misfires, Passes
<1>1. CASE Calls(r)
  <2>1. req'[r].pc = "answering" /\ req'[r].key = req[r].key
    BY <1>1 DEF Calls, Opens, OpensElsewhere, Misses, Links, Repeats, Sends, Passes
  <2>2. req'[r].resp.key = ValidatedKey(r)
    <3>. SUFFICES ASSUME NEW k, k = ValidatedKey(r), NEW n, n = Len(ops) + 1
                  PROVE  \A x : x = req'[r].resp => x.key = k
      OBVIOUS
    <3>. TAKE x
    <3>1. ASSUME Opens(r) \/ OpensElsewhere(r, "pending"), x = req'[r].resp PROVE x.key = k
      <4>1. x = Result(k, "PENDING", "", n, TRUE)
        BY <3>1 DEF Opens, OpensElsewhere
      <4>. QED  BY <4>1 DEF Result
    <3>2. ASSUME OpensElsewhere(r, "succeeded"), x = req'[r].resp PROVE x.key = k
      <4>1. x = Result(k, "CAPTURED", "", n, FALSE)
        BY <3>2 DEF OpensElsewhere
      <4>. QED  BY <4>1 DEF Result
    <3>3. ASSUME Misses(r), x = req'[r].resp PROVE x.key = k
      BY <3>3 DEF Misses, Unavailable, Result
    <3>4. ASSUME Links(r), x = req'[r].resp PROVE x.key = k
      <4>1. x = Result(k, "PENDING", "", 0, TRUE)
        BY <3>4 DEF Links
      <4>. QED  BY <4>1 DEF Result
    <3>5. ASSUME NEW i \in KnownOps(k), Repeats(r, i), x = req'[r].resp PROVE x.key = k
      BY <3>5 DEF Repeats, Result
    <3>. QED  BY <1>1, <3>1, <3>2, <3>3, <3>4, <3>5 DEF Calls
  <2>. QED  BY <2>1, <2>2 DEF OwnKey, ValidatedKey
<1>2. CASE Loses(r)
  <2>1. req'[r].resp.key = ValidatedKey(r)
    BY <1>2 DEF Loses, Unavailable, Result
  <2>. QED  BY <1>2, <2>1 DEF Loses, Passes, OwnKey, ValidatedKey
<1>3. CASE Refuses(r)
  <2>1. PICK f \in Refusals : req'[r].resp = Result(RefusedKey(r, f), f[1], f[2], 0, FALSE)
    BY <1>3 DEF Refuses
  <2>2. req'[r].resp.key = RefusedKey(r, f)
    BY <2>1 DEF Result
  <2>. QED  BY <1>3, <2>2 DEF Refuses, Passes, OwnKey, ValidatedKey, RefusedKey
<1>4. CASE Concludes(r)
  <2>1. req[r].resp \in Response
    BY <1>4, RequestIsTyped DEF Concludes, Passes, Ready, RequestIsReady
  <2>2. FinalResponse(r).key = req[r].resp.key
    BY <2>1 DEF FinalResponse, Response
  <2>. QED  BY <1>4, <2>2 DEF Concludes, Passes, OwnKey
<1>5. CASE Replays(r) \/ Starts(r) \/ Prepares(r) \/ Retries(r) \/ Notifies(r) \/ Stores(r)
           \/ Misfires(r) \/ Arrives(r)
  BY <1>5 DEF Replays, Starts, Prepares, Retries, Notifies, Stores, Misfires, Arrives, Passes,
              SameAnswer, OwnKey
<1>. QED  BY <1>1, <1>2, <1>3, <1>4, <1>5 DEF Moves

(* A restart leaves nothing to store.                                      *)
LEMMA RestartKeepsKeys ==
    ASSUME OrchTyped, OwnKeys, Stops
    PROVE  OwnKeys'
BY DEF Stops, SameAnswer, OwnKeys, OwnKey, Ended

(* Before a request there is nothing to store.                             *)
LEMMA InitHasKeys == OrchInit => OwnKeys
<1>1. OwnKey(Idle)
  BY DEF Idle, OwnKey
<1>. QED  BY <1>1 DEF OrchInit, OwnKeys

-----------------------------------------------------------------------------
(* Who was sent to a payment page.                                         *)

(* A request that was answered with a response to its validated key, which *)
(* it made itself.                                                         *)
Answered(r) == At(r, "replied") /\ req[r].resp.key = ValidatedKey(r)

AnsweredKeys == {ValidatedKey(r) : r \in {q \in Requests : Answered(q)}}

(* A response with a page was made by a request for its key, and if it is  *)
(* stored, or was replayed, this request was answered.                     *)
PageIsOwn(x, k) == x.url => x.key = TrimmedKey[k]

Pages ==
    /\ \A r \in Requests :
          /\ req[r].pc \in {"answering", "notify", "save", "replied"}
                 => PageIsOwn(req[r].resp, req[r].key)
          /\ req[r].pc \in {"notifyRefusal", "saveRefusal"} => ~req[r].resp.url
          /\ req[r].pc = "replayed" /\ req[r].resp.url => req[r].resp.key \in AnsweredKeys
    /\ \A k \in Keys : byIdempotency[k].url => byIdempotency[k].key \in AnsweredKeys

(* An answer stays one.                                                    *)
LEMMA AnsweredStays ==
    ASSUME \A r \in Requests :
              req[r].pc = "replied" =>
                  req'[r].pc = "replied" /\ req'[r].key = req[r].key /\ SameAnswer(r),
           NEW j \in AnsweredKeys
    PROVE  j \in AnsweredKeys'
BY DEF AnsweredKeys, Answered, SameAnswer, At, ValidatedKey

(* The requests keep what is known of the pages.                           *)
LEMMA MovesKeepPages ==
    ASSUME OrchTyped, OwnKeys', Pages, NEW r \in Requests, Moves(r) \/ Arrives(r)
    PROVE  Pages'
<1>. OrchTypeOK
  BY DEF OrchTyped
<1>. USE DEF PageIsOwn
<1>1. \A q \in Requests : q # r => req'[q] = req[q]
  BY DEF Moves, Calls, Arrives, Replays, Starts, Prepares, Refuses, Opens, OpensElsewhere, Sends,
         Misses, Links, Repeats, Loses, Retries, Concludes, Notifies, Stores, Misfires, Passes
<1>2. req[r].pc \notin {"replied", "replayed"}
  BY DEF Moves, Calls, Arrives, Replays, Starts, Prepares, Refuses, Opens, OpensElsewhere, Sends,
         Misses, Links, Repeats, Loses, Retries, Concludes, Notifies, Stores, Misfires, Passes
<1>3. \A j : j \in AnsweredKeys => j \in AnsweredKeys'
  BY <1>1, <1>2, AnsweredStays DEF SameAnswer
<1>4. ASSUME NEW q \in Requests, q # r
      PROVE  /\ req'[q].pc \in {"answering", "notify", "save", "replied"}
                    => PageIsOwn(req'[q].resp, req'[q].key)
             /\ req'[q].pc \in {"notifyRefusal", "saveRefusal"} => ~req'[q].resp.url
             /\ req'[q].pc = "replayed" /\ req'[q].resp.url => req'[q].resp.key \in AnsweredKeys'
  BY <1>1, <1>3, <1>4 DEF Pages
<1>5. /\ req'[r].pc \in {"answering", "notify", "save", "replied"}
             => PageIsOwn(req'[r].resp, req'[r].key)
      /\ req'[r].pc \in {"notifyRefusal", "saveRefusal"} => ~req'[r].resp.url
      /\ req'[r].pc = "replayed" /\ req'[r].resp.url => req'[r].resp.key \in AnsweredKeys'
  <2>1. CASE Refuses(r)
    <3>1. PICK f \in Refusals : req'[r].resp = Result(RefusedKey(r, f), f[1], f[2], 0, FALSE)
      BY <2>1 DEF Refuses
    <3>2. req'[r].resp.url = FALSE
      BY <3>1 DEF Result
    <3>. QED  BY <2>1, <3>2 DEF Refuses, Passes
  <2>2. CASE Replays(r)
    <3>1. req[r].key \in Keys
      BY <2>2, RequestIsTyped DEF Replays, Passes, Ready, RequestIsReady
    <3>2. req'[r].resp.url => req'[r].resp.key \in AnsweredKeys'
      BY <1>3, <2>2, <3>1 DEF Replays, Pages
    <3>. QED  BY <2>2, <3>2 DEF Replays, Passes
  <2>3. CASE Calls(r) \/ Loses(r) \/ Concludes(r)
    <3>1. req'[r].pc \in {"answering", "notify"}
      BY <2>3 DEF Calls, Opens, OpensElsewhere, Misses, Links, Repeats, Sends, Loses, Concludes,
                  Passes
    <3>. QED  BY <3>1 DEF OwnKeys, OwnKey
  <2>4. CASE Notifies(r) \/ Stores(r) \/ Misfires(r)
    <3>1. req'[r].key = req[r].key /\ req'[r].resp = req[r].resp
      BY <2>4 DEF Notifies, Stores, Misfires, Passes, SameAnswer
    <3>2. \/ req[r].pc \in {"notify", "save"} /\ req'[r].pc \in {"save", "replied"}
          \/ req[r].pc \in {"notifyRefusal", "saveRefusal"}
                /\ req'[r].pc \in {"saveRefusal", "replied", "errored"}
          \/ req'[r].pc = "errored"
      BY <2>4 DEF Notifies, Stores, Misfires, Passes
    <3>. QED  BY <3>1, <3>2 DEF Pages
  <2>5. CASE Starts(r) \/ Prepares(r) \/ Retries(r) \/ Arrives(r)
    BY <2>5 DEF Starts, Prepares, Retries, Arrives, Passes
  <2>. QED  BY <2>1, <2>2, <2>3, <2>4, <2>5 DEF Moves
<1>6. ASSUME NEW k \in Keys, byIdempotency'[k].url PROVE byIdempotency'[k].key \in AnsweredKeys'
  <2>1. CASE byIdempotency'[k] = byIdempotency[k]
    BY <1>3, <1>6, <2>1 DEF Pages
  <2>2. CASE Stores(r) /\ byIdempotency'[k] = req[r].resp
    <3>1. req[r].pc = "save" /\ req[r].resp.key = TrimmedKey[req[r].key]
      BY <1>6, <2>2 DEF Stores, Passes, Pages
    <3>2. req'[r].pc = "replied" /\ req'[r].key = req[r].key /\ req'[r].resp = req[r].resp
      BY <2>2 DEF Stores, Passes, SameAnswer
    <3>. QED  BY <2>2, <3>1, <3>2 DEF AnsweredKeys, Answered, At, ValidatedKey
  <2>3. Stores(r) /\ req[r].resp \in Response => byIdempotency'[k] \in {byIdempotency[k], req[r].resp}
    BY SaveHolds DEF Stores
  <2>. QED  BY <2>1, <2>2, <2>3, MovesFile
<1>. QED  BY <1>1, <1>4, <1>5, <1>6 DEF Pages

(* So does a restart.                                                      *)
LEMMA RestartKeepsPages ==
    ASSUME OrchTyped, Pages, Stops
    PROVE  Pages'
<1>1. \A j : j \in AnsweredKeys => j \in AnsweredKeys'
  BY AnsweredStays DEF Stops, Ended
<1>2. NoResponse.url = FALSE
  BY DEF NoResponse
<1>3. \A k \in Keys : byIdempotency'[k].url => byIdempotency'[k].key \in AnsweredKeys'
  BY <1>1, <1>2 DEF Stops, Pages
<1>4. \A r \in Requests : req'[r].resp = req[r].resp /\ req'[r].key = req[r].key
                          /\ (req'[r].pc = req[r].pc \/ req'[r].pc = "crashed")
  BY DEF Stops, SameAnswer
<1>. QED  BY <1>1, <1>3, <1>4 DEF Pages

(* At first there are no pages.                                            *)
LEMMA InitHasNoPages == OrchInit => Pages
<1>1. NoResponse.url = FALSE /\ Idle.pc = "idle"
  BY DEF NoResponse, Idle
<1>. QED  BY <1>1 DEF OrchInit, Pages

-----------------------------------------------------------------------------
(* What a new response says.                                               *)

(* An error code tells of a failure, and every failure has one.            *)
Explained(x) == (x.code # "") <=> (x.status \in {"DECLINED", "FAILED", "CANCELLED"})

(* The operation x names is one of its own key, ...                        *)
NamesOwnOp(x) == x.ext # 0 => x.ext \in DOMAIN ops /\ ops[x.ext].key = x.key

(* ... and has succeeded, if the answer of an adapter is a capture.        *)
Honest(x) ==
    /\ Explained(x)
    /\ x.status \in {"CAPTURED", "PENDING", "DECLINED", "FAILED"}
    /\ NamesOwnOp(x)
    /\ x.status = "CAPTURED" =>
          /\ x.ext \in DOMAIN ops
          /\ ops[x.ext].key = x.key
          /\ ops[x.ext].status = "succeeded"
          /\ AdapterOf[x.key] \in {"yookassa", "simulated"}

(* The answer of an adapter: only the simulated provider captures at once, *)
(* and YooKassa repeats what it knows of its own operation.                *)
LEMMA AnswersAreHonest ==
    ASSUME OrchTyped, NEW r \in Requests, Calls(r)
    PROVE  \A x : x = req'[r].resp => Honest(x)'
<1>. SUFFICES ASSUME NEW k, k = ValidatedKey(r), NEW n, n = Len(ops) + 1
              PROVE  \A x : x = req'[r].resp => Honest(x)'
  OBVIOUS
<1>. TAKE x
<1>1. OrchTypeOK /\ ops \in Seq(Op) /\ k \in Keys
  BY RequestIsTyped DEF OrchTyped, OrchTypeOK, Calls, Opens, Misses, Links, Repeats,
                        OpensElsewhere, Sends, Passes
<1>2. ASSUME NEW status \in {"pending", "succeeded"}, ops' = Append(ops, Operation(k, status))
      PROVE  n \in DOMAIN ops' /\ ops'[n].key = k /\ ops'[n].status = status
  <2>1. n \in DOMAIN ops' /\ ops'[n] = Operation(k, status)
    BY <1>1, <1>2, AppendOp
  <2>. QED  BY <2>1 DEF Operation
<1>. USE DEF Honest, Explained, NamesOwnOp
<1>3. ASSUME Opens(r) \/ OpensElsewhere(r, "pending"), x = req'[r].resp PROVE Honest(x)'
  <2>1. ops' = Append(ops, Operation(k, "pending")) /\ x = Result(k, "PENDING", "", n, TRUE)
    BY <1>3 DEF Opens, OpensElsewhere
  <2>2. x.key = k /\ x.status = "PENDING" /\ x.code = "" /\ x.ext = n
    BY <2>1 DEF Result
  <2>. QED  BY <1>2, <2>1, <2>2
<1>4. ASSUME OpensElsewhere(r, "succeeded"), x = req'[r].resp PROVE Honest(x)'
  <2>1. /\ ops' = Append(ops, Operation(k, "succeeded"))
        /\ x = Result(k, "CAPTURED", "", n, FALSE)
        /\ AdapterOf[k] = "simulated"
    BY <1>4 DEF OpensElsewhere
  <2>2. x.key = k /\ x.status = "CAPTURED" /\ x.code = "" /\ x.ext = n
    BY <2>1 DEF Result
  <2>. QED  BY <1>2, <2>1, <2>2
<1>5. ASSUME Misses(r), x = req'[r].resp PROVE Honest(x)'
  <2>1. x = Unavailable(k)
    BY <1>5 DEF Misses
  <2>2. x.status = "FAILED" /\ x.code = "PROVIDER_UNAVAILABLE" /\ x.ext = 0
    BY <2>1 DEF Unavailable, Result
  <2>. QED  BY <2>2
<1>6. ASSUME Links(r), x = req'[r].resp PROVE Honest(x)'
  <2>1. x = Result(k, "PENDING", "", 0, TRUE)
    BY <1>6 DEF Links
  <2>2. x.status = "PENDING" /\ x.code = "" /\ x.ext = 0
    BY <2>1 DEF Result
  <2>. QED  BY <2>2
<1>7. ASSUME NEW i \in KnownOps(k), Repeats(r, i), x = req'[r].resp PROVE Honest(x)'
  <2>. DEFINE status == mapYooKassaStatus(ops[i].status)
  <2>1. i \in DOMAIN ops /\ ops[i].key = k /\ ops' = ops /\ AdapterOf[k] = "yookassa"
    BY <1>7 DEF KnownOps, Repeats
  <2>2. status \in {"CAPTURED", "DECLINED", "PENDING"}
    BY DEF mapYooKassaStatus
  <2>3. status = "CAPTURED" => ops[i].status = "succeeded"
    BY MapIsStatus
  <2>. HIDE DEF status
  <2>4. x = Result(k, status, YooKassaErrorCode(status), i, ops[i].status = "pending")
    BY <1>7 DEF Repeats, status
  <2>5. x.key = k /\ x.status = status /\ x.ext = i /\ x.code = YooKassaErrorCode(status)
    BY <2>4 DEF Result
  <2>6. Explained(x)
    BY <2>2, <2>5 DEF YooKassaErrorCode
  <2>. QED  BY <2>1, <2>2, <2>3, <2>5, <2>6
<1>. QED  BY <1>3, <1>4, <1>5, <1>6, <1>7 DEF Calls

(* So are a refusal and a lost answer.                                     *)
LEMMA FailuresAreHonest ==
    ASSUME NEW r \in Requests, Refuses(r) \/ Loses(r)
    PROVE  \A x : x = req'[r].resp => Honest(x)'
<1>. TAKE x
<1>1. ASSUME Refuses(r), x = req'[r].resp PROVE Honest(x)'
  <2>1. PICK f \in Refusals : x = Result(RefusedKey(r, f), f[1], f[2], 0, FALSE)
    BY <1>1 DEF Refuses
  <2>2. PICK status \in {"FAILED", "DECLINED"}, code \in Codes \ {""} : f = <<status, code>>
    <3>. DEFINE Errors == {"VALIDATION_ERROR", "ANTIFRAUD_ERROR", "ANTIFRAUD_DECLINED",
                           "ROUTING_ERROR", "TOKENIZATION_ERROR", "ADAPTER_FACTORY_ERROR"}
    <3>1. PICK status \in {"FAILED", "DECLINED"}, code \in Errors : f = <<status, code>>
      BY Zenon DEF Refusals
    <3>2. code \in Codes \ {""}
      BY DEF Codes
    <3>. QED  BY <3>1, <3>2
  <2>3. f[1] = status /\ f[2] = code
    BY <2>2
  <2>4. x.status = f[1] /\ x.code = f[2] /\ x.ext = 0
    BY <2>1 DEF Result
  <2>. QED  BY <2>3, <2>4 DEF Honest, Explained, NamesOwnOp
<1>2. ASSUME Loses(r), x = req'[r].resp PROVE Honest(x)'
  <2>1. x.status = "FAILED" /\ x.code = "PROVIDER_UNAVAILABLE" /\ x.ext = 0
    BY <1>2 DEF Loses, Unavailable, Result
  <2>. QED  BY <2>1 DEF Honest, Explained, NamesOwnOp
<1>. QED  BY <1>1, <1>2

(* HandleCallback changes nothing an honest answer says.                   *)
LEMMA ConcludesAsAnswered ==
    ASSUME OrchTyped, NEW r \in Requests, Concludes(r)
    PROVE  \A x : x = req'[r].resp =>
              /\ req[r].pc = "answering" /\ req[r].resp \in Response
              /\ x.key = req[r].resp.key /\ x.ext = req[r].resp.ext
              /\ x.code = req[r].resp.code
              /\ x.status = HandleCallbackStatus(req[r].resp.status)
              /\ req[r].resp.status \in {"CAPTURED", "PENDING", "DECLINED", "FAILED"}
                     => x.status = req[r].resp.status
<1>. SUFFICES ASSUME NEW x, x = req'[r].resp
              PROVE  /\ req[r].pc = "answering" /\ req[r].resp \in Response
                     /\ x.key = req[r].resp.key /\ x.ext = req[r].resp.ext
                     /\ x.code = req[r].resp.code
                     /\ x.status = HandleCallbackStatus(req[r].resp.status)
                     /\ req[r].resp.status \in {"CAPTURED", "PENDING", "DECLINED", "FAILED"}
                            => x.status = req[r].resp.status
  OBVIOUS
<1>1. req[r].pc = "answering" /\ req[r].resp \in Response /\ x = FinalResponse(r)
  BY RequestIsTyped DEF Concludes, Passes, Ready, RequestIsReady
<1>2. /\ x.key = req[r].resp.key /\ x.ext = req[r].resp.ext /\ x.code = req[r].resp.code
      /\ x.status = HandleCallbackStatus(req[r].resp.status)
  BY <1>1 DEF FinalResponse, Response
<1>. QED  BY <1>1, <1>2 DEF HandleCallbackStatus, NotRetryable
=============================================================================
