------------------------------- MODULE Refunds_proofs -------------------------------
(***************************************************************************)
(* Theorems of Refunds, for any requests, keys, payments, adapters, kind   *)
(* of store and number of faults.                                          *)
(***************************************************************************)
EXTENDS Refunds, SequenceTheorems, TLAPS

-----------------------------------------------------------------------------
(* Type correctness.                                                       *)

(* A request that was received has its key and its body, and from Load to  *)
(* the reply it holds its own refund, of its own key, payment and kind.    *)
InHand == {"create", "call", "answering"}

Own(r, g) ==
    /\ g.refund \in Refund
    /\ g.refund.id = r
    /\ g.refund.key = g.key
    /\ g.refund.payment = g.body.payment
    /\ g.refund.type = g.body.type

Ready(r) ==
    /\ req[r].pc # "idle" =>
           req[r].key \in Keys /\ req[r].body \in [payment: Payments, type: RefundTypes]
    /\ req[r].pc \in InHand => Own(r, req[r])

Typed == TypeOK /\ \A r \in Requests : Ready(r)

(* The operations of the providers: a sequence that grows at its end, or   *)
(* of which one member is settled.                                         *)
LEMMA AppendOp ==
    ASSUME ops \in Seq(Op), NEW op \in Op, ops' = Append(ops, op)
    PROVE  /\ ops' \in Seq(Op)
           /\ DOMAIN ops' = DOMAIN ops \cup {Len(ops) + 1}
           /\ Len(ops) + 1 \notin DOMAIN ops
           /\ Len(ops) + 1 \in Nat
           /\ ops'[Len(ops) + 1] = op
           /\ \A i \in DOMAIN ops : ops'[i] = ops[i]
<1>1. Len(ops) \in Nat /\ DOMAIN ops = 1..Len(ops)
  BY LenProperties
<1>2. ops' \in Seq(Op) /\ Len(ops') = Len(ops) + 1
  OBVIOUS
<1>3. DOMAIN ops' = 1..(Len(ops) + 1)
  BY <1>2, LenProperties
<1>. QED  BY <1>1, <1>2, <1>3

(* A settled refund is still a refund of the same key and payment.         *)
LEMMA SettleOp ==
    ASSUME ops \in Seq(Op), NEW i \in DOMAIN ops, NEW status \in {"succeeded", "canceled"},
           ops' = [ops EXCEPT ![i].status = status]
    PROVE  /\ ops' \in Seq(Op)
           /\ DOMAIN ops' = DOMAIN ops
           /\ ops'[i] = [ops[i] EXCEPT !.status = status]
           /\ \A j \in DOMAIN ops : j # i => ops'[j] = ops[j]
<1>1. Len(ops) \in Nat /\ DOMAIN ops = 1..Len(ops) /\ ops[i] \in Op
  BY LenProperties, ElementOfSeq
<1>2. [ops[i] EXCEPT !.status = status] \in Op
  BY <1>1 DEF Op
<1>3. ops' = [ops EXCEPT ![i] = [ops[i] EXCEPT !.status = status]]
  OBVIOUS
<1>4. ops' \in Seq(Op) /\ Len(ops') = Len(ops)
  BY <1>1, <1>2, <1>3, ExceptSeq
<1>. QED  BY <1>1, <1>3, <1>4, LenProperties

(* A fault is counted.                                                     *)
LEMMA FaultIsTyped ==
    ASSUME TypeOK, Fault \/ UNCHANGED faults
    PROVE  faults' \in 0..MaxFaults
BY MaxFaultsAssumption DEF TypeOK, Fault

(* Initially there is nothing.                                             *)
LEMMA InitIsTyped == Init => Typed
<1>. SUFFICES ASSUME Init PROVE Typed
  OBVIOUS
<1>1. Idle \in Goroutine
  BY DEF Idle, NoBody, NoRefund, Goroutine, Stored, Body
<1>2. ops = <<>> /\ faults = 0
  BY DEF Init
<1>3. ops \in Seq(Op) /\ faults \in 0..MaxFaults
  BY <1>2, MaxFaultsAssumption
<1>4. TypeOK
  BY <1>1, <1>3 DEF Init, TypeOK, Stored, PaymentStatuses
<1>. QED  BY <1>4 DEF Init, Typed, Ready, Idle, InHand

(* One request moves: whatever the step makes of it, the others stay.      *)
LEMMA ReqIsTyped ==
    ASSUME Typed, NEW r \in Requests, NEW g \in Goroutine,
           req' = [req EXCEPT ![r] = g],
           g.pc # "idle" => g.key \in Keys /\ g.body \in [payment: Payments, type: RefundTypes],
           g.pc \in InHand => Own(r, g)
    PROVE  req' \in [Requests -> Goroutine] /\ \A q \in Requests : Ready(q)'
BY DEF Typed, TypeOK, Ready

(* A request goes on, with the refund it holds or with none in hand.       *)
LEMMA GotoIsTyped ==
    ASSUME Typed, NEW r \in Requests,
           NEW where \in {"lookup"} \cup Working \cup Ended, Goto(r, where),
           req[r].pc # "idle", where \in InHand => req[r].pc \in InHand
    PROVE  req' \in [Requests -> Goroutine] /\ \A q \in Requests : Ready(q)'
<1>. DEFINE g == [req[r] EXCEPT !.pc = where]
<1>1. req[r] \in Goroutine /\ Ready(r)
  BY DEF Typed, TypeOK
<1>2. g \in Goroutine /\ g.pc = where
  BY <1>1 DEF Goroutine
<1>3. g.key = req[r].key /\ g.body = req[r].body /\ g.refund = req[r].refund
  BY <1>1 DEF Goroutine
<1>4. req' = [req EXCEPT ![r] = g]
  BY DEF Goto
<1>. HIDE DEF g
<1>. QED  BY <1>1, <1>2, <1>3, <1>4, ReqIsTyped DEF Ready, Own

(* A request is given a refund: the one it replays, its new one, or its    *)
(* own with the provider's answer in it.                                   *)
LEMMA GivenIsTyped ==
    ASSUME Typed, NEW r \in Requests,
           NEW where \in {"lookup"} \cup Working \cup Ended, NEW refund \in Stored,
           req' = [req EXCEPT ![r].pc = where, ![r].refund = refund],
           req[r].pc # "idle",
           where \in InHand => Own(r, [req[r] EXCEPT !.refund = refund])
    PROVE  req' \in [Requests -> Goroutine] /\ \A q \in Requests : Ready(q)'
<1>. DEFINE g == [req[r] EXCEPT !.pc = where, !.refund = refund]
<1>1. req[r] \in Goroutine /\ Ready(r)
  BY DEF Typed, TypeOK
<1>2. g \in Goroutine /\ g.pc = where
  BY <1>1 DEF Goroutine
<1>3. g.key = req[r].key /\ g.body = req[r].body /\ g.refund = refund
  BY <1>1 DEF Goroutine
<1>4. req' = [req EXCEPT ![r] = g]
  BY <1>1 DEF Typed, TypeOK, Goroutine
<1>5. where \in InHand => Own(r, g)
  BY <1>1 DEF Own, Goroutine
<1>. HIDE DEF g
<1>. QED  BY <1>1, <1>2, <1>3, <1>4, <1>5, ReqIsTyped DEF Ready

(* A refund in hand is a whole one.                                        *)
LEMMA RequestIsTyped ==
    ASSUME Typed, NEW r \in Requests
    PROVE  req[r] \in Goroutine /\ Ready(r)
BY DEF Typed, TypeOK

(* The steps up to the provider (refunds/handler.go create).               *)
LEMMA LookupStepsAreTyped ==
    ASSUME Typed, NEW r \in Requests,
           Replay(r) \/ Miss(r) \/ Load(r) \/ Reject(r) \/ ReadError(r)
    PROVE  Typed'
<1>. USE DEF At
<1>1. CASE Replay(r)
  <2>1. PICK q \in Requests :
            req' = [req EXCEPT ![r].pc = "replayed", ![r].refund = refunds[q]]
    BY <1>1 DEF Replay, GetRefundByIdempotencyKey, RecordsOf
  <2>2. refunds[q] \in Stored
    BY DEF Typed, TypeOK
  <2>3. req' \in [Requests -> Goroutine] /\ \A x \in Requests : Ready(x)'
    <3>1. "replayed" \notin InHand /\ "replayed" \in Ended
      BY DEF InHand, Ended
    <3>2. req[r].pc # "idle"
      BY <1>1 DEF Replay
    <3>. QED  BY <2>1, <2>2, <3>1, <3>2, GivenIsTyped
  <2>. QED  BY <1>1, <2>3 DEF Replay, Typed, TypeOK
<1>2. CASE Miss(r)
  <2>1. req' \in [Requests -> Goroutine] /\ \A x \in Requests : Ready(x)'
    BY <1>2, GotoIsTyped DEF Miss, Working, InHand
  <2>. QED  BY <1>2, <2>1 DEF Miss, Typed, TypeOK
<1>3. CASE Load(r)
  <2>1. req[r].key \in Keys /\ req[r].body \in [payment: Payments, type: RefundTypes]
    BY <1>3, RequestIsTyped DEF Load, Ready
  <2>2. NewRefund(r) \in Refund
    BY <2>1 DEF NewRefund, Refund, RefundStatuses, Payment
  <2>3. Own(r, [req[r] EXCEPT !.refund = NewRefund(r)])
    BY <2>2, RequestIsTyped DEF Own, NewRefund, Payment, Goroutine
  <2>4. req' \in [Requests -> Goroutine] /\ \A x \in Requests : Ready(x)'
    BY <1>3, <2>2, <2>3, GivenIsTyped DEF Load, Stored, Working
  <2>. QED  BY <1>3, <2>4 DEF Load, Typed, TypeOK
<1>4. CASE Reject(r)
  <2>1. req' \in [Requests -> Goroutine] /\ \A x \in Requests : Ready(x)'
    BY <1>4, GotoIsTyped DEF Reject, Ended, InHand
  <2>. QED  BY <1>4, <2>1 DEF Reject, Typed, TypeOK
<1>5. CASE ReadError(r)
  <2>1. req' \in [Requests -> Goroutine] /\ \A x \in Requests : Ready(x)'
    BY <1>5, GotoIsTyped DEF ReadError, Ended, InHand
  <2>2. faults' \in 0..MaxFaults
    BY <1>5, FaultIsTyped DEF ReadError, StoreError, Typed
  <2>. QED  BY <1>5, <2>1, <2>2 DEF ReadError, Typed, TypeOK
<1>. QED  BY <1>1, <1>2, <1>3, <1>4, <1>5

(* A SaveRefund, carried out or not, of a request's own refund.            *)
LEMMA SaveIsTyped ==
    ASSUME Typed, NEW r \in Requests, req[r].pc \in InHand,
           SaveRefund(req[r].refund) \/ SaveRefundError(req[r].refund)
    PROVE  refunds' \in [Requests -> Stored] /\ faults' \in 0..MaxFaults
<1>1. req[r].refund \in Stored /\ req[r].refund.id = r
  BY RequestIsTyped DEF Ready, Stored, Own
<1>2. Fault \/ UNCHANGED faults
  BY DEF SaveRefund, SaveRefundError, StoreError
<1>. QED  BY <1>1, <1>2, FaultIsTyped DEF SaveRefund, SaveRefundError, Typed, TypeOK

(* The steps that save.                                                    *)
LEMMA SaveStepsAreTyped ==
    ASSUME Typed, NEW r \in Requests, SaveRequested(r) \/ SaveResult(r) \/ ResultLost(r)
    PROVE  Typed'
<1>1. /\ req[r].pc \in InHand
      /\ SaveRefund(req[r].refund) \/ SaveRefundError(req[r].refund)
      /\ Goto(r, "call") \/ Goto(r, "replied") \/ Goto(r, "errored")
      /\ UNCHANGED <<payment, ops, captured>>
  BY DEF SaveRequested, SaveResult, ResultLost, At, InHand
<1>2. refunds' \in [Requests -> Stored] /\ faults' \in 0..MaxFaults
  BY <1>1, SaveIsTyped
<1>3. req' \in [Requests -> Goroutine] /\ \A x \in Requests : Ready(x)'
  BY <1>1, GotoIsTyped DEF InHand, Working, Ended
<1>. QED  BY <1>1, <1>2, <1>3 DEF Typed, TypeOK

(* A status that says no more than the provider's does.                    *)
Fits(status, s) ==
    /\ status = "SUCCESS_REFUND" => s = "succeeded"
    /\ status = "FAIL_REFUND" => s = "canceled"

(* The adapters answer with one of the statuses of a refund.               *)
LEMMA MapIsStatus ==
    ASSUME NEW s
    PROVE  /\ mapYooKassaRefundStatus(s) \in RefundStatuses
           /\ Fits(mapYooKassaRefundStatus(s), s)
BY DEF mapYooKassaRefundStatus, RefundStatuses, Fits

(* An answer goes into the request's own refund and into nothing else.     *)
LEMMA AnswerEffect ==
    ASSUME Typed, NEW r \in Requests, req[r].pc \in InHand,
           NEW status \in RefundStatuses, NEW ext \in Nat, Answer(r, status, ext)
    PROVE  /\ req'[r].pc = "answering"
           /\ req'[r].key = req[r].key
           /\ req'[r].body = req[r].body
           /\ req'[r].refund.status = status /\ req'[r].refund.ext = ext
           /\ req'[r].refund.key = req[r].refund.key
           /\ req'[r].refund.payment = req[r].refund.payment
           /\ req'[r].refund.type = req[r].refund.type
           /\ \A q \in Requests \ {r} : req'[q] = req[q]
           /\ req' \in [Requests -> Goroutine] /\ \A q \in Requests : Ready(q)'
           /\ UNCHANGED <<refunds, payment, captured, faults>>
<1>. DEFINE refund == [req[r].refund EXCEPT !.status = status, !.ext = ext]
<1>1. /\ req[r] \in Goroutine /\ req[r].refund \in Refund /\ req[r].pc # "idle"
      /\ Own(r, req[r])
  BY RequestIsTyped DEF Ready, InHand, Own
<1>2. refund \in Refund /\ Own(r, [req[r] EXCEPT !.refund = refund])
  BY <1>1 DEF Refund, Own, Goroutine
<1>3. req \in [Requests -> Goroutine]
  BY DEF Typed, TypeOK
<1>4. req' = [req EXCEPT ![r].pc = "answering", ![r].refund = refund]
  BY <1>1, <1>3 DEF Answer, Goroutine, Refund
<1>5. UNCHANGED <<refunds, payment, captured, faults>>
  BY DEF Answer
<1>. HIDE DEF refund
<1>6. req' \in [Requests -> Goroutine] /\ \A q \in Requests : Ready(q)'
  BY <1>1, <1>2, <1>4, GivenIsTyped DEF Working, Stored
<1>7. /\ req'[r] = [req[r] EXCEPT !.pc = "answering", !.refund = refund]
      /\ \A q \in Requests \ {r} : req'[q] = req[q]
  BY <1>1, <1>3, <1>4 DEF Goroutine
<1>8. /\ req'[r].pc = "answering" /\ req'[r].key = req[r].key
      /\ req'[r].body = req[r].body /\ req'[r].refund = refund
  BY <1>1, <1>7 DEF Goroutine
<1>9. /\ refund.status = status /\ refund.ext = ext
      /\ refund.key = req[r].refund.key
      /\ refund.payment = req[r].refund.payment /\ refund.type = req[r].refund.type
  BY <1>1 DEF refund, Refund
<1>. QED  BY <1>5, <1>6, <1>7, <1>8, <1>9

(* What a step of the adapters does: it answers the request, with at most  *)
(* one more refund at the provider, of the request's key and payment.      *)
NewOp(r) ==
    \E s \in {"pending", "succeeded", "canceled"} :
        /\ ops' = Append(ops, Operation(r, s))
        /\ \/ s = "succeeded" /\ AdapterOf[Payment(r)] # "yookassa"
           \/ AdapterOf[Payment(r)] = "yookassa" /\ KnownOps(req[r].key) = {}
        /\ \E status \in RefundStatuses :
              /\ Fits(status, s)
              /\ Answer(r, status, Len(ops) + 1)

OldOp(r) ==
    /\ UNCHANGED ops
    /\ \E status \in RefundStatuses, ext \in Nat :
          /\ Answer(r, status, ext)
          /\ \/ status = "FAIL_REFUND" /\ ext = 0
             \/ ext \in DOMAIN ops /\ \E s : ops[ext] = Operation(r, s) /\ Fits(status, s)

(* The refunds of a key YooKassa knows are among its refunds.              *)
LEMMA KnownOpsAreOps ==
    ASSUME Typed, NEW r \in Requests, NEW i \in KnownOps(req[r].key)
    PROVE  i \in DOMAIN ops /\ i \in Nat /\ ops[i] \in Op /\ ops[i].key = req[r].key
BY ElementOfSeq, LenProperties DEF KnownOps, Typed, TypeOK

(* Each of the adapters' answers is one of the two (Refund of              *)
(* yookassa_adapter.go, simulated_adapter.go, digital_ruble_adapter.go).   *)
LEMMA ProviderStep ==
    ASSUME Typed, NEW r \in Requests,
           RefundAtYooKassa(r) \/ RepeatAtYooKassa(r) \/ RefusedByYooKassa(r)
               \/ LoseAnswer(r) \/ RefundEmulated(r)
    PROVE  /\ \/ req[r].pc = "call"
              \/ req[r].pc = "answering" /\ UNCHANGED ops
           /\ NewOp(r) \/ OldOp(r)
<1>. USE DEF At
<1>1. CASE RefundAtYooKassa(r)
  <2>1. PICK s \in {"pending", "succeeded", "canceled"} :
            /\ ops' = Append(ops, Operation(r, s))
            /\ Answer(r, mapYooKassaRefundStatus(s), Len(ops) + 1)
    BY <1>1 DEF RefundAtYooKassa
  <2>. QED  BY <1>1, <2>1, MapIsStatus DEF RefundAtYooKassa, NewOp
<1>2. CASE RepeatAtYooKassa(r)
  <2>1. PICK i \in KnownOps(req[r].key) :
            /\ ops[i].payment = Payment(r)
            /\ ops[i].type = req[r].body.type
            /\ Answer(r, mapYooKassaRefundStatus(ops[i].status), i)
    BY <1>2 DEF RepeatAtYooKassa
  <2>2. i \in DOMAIN ops /\ i \in Nat /\ ops[i] \in Op /\ ops[i].key = req[r].key
    BY KnownOpsAreOps
  <2>3. ops[i] = Operation(r, ops[i].status)
    BY <2>1, <2>2 DEF Op, Operation
  <2>. QED  BY <1>2, <2>1, <2>2, <2>3, MapIsStatus DEF RepeatAtYooKassa, OldOp
<1>3. CASE RefusedByYooKassa(r)
  BY <1>3 DEF RefusedByYooKassa, OldOp, RefundStatuses
<1>4. CASE LoseAnswer(r)
  BY <1>4 DEF LoseAnswer, OldOp, RefundStatuses
<1>5. CASE RefundEmulated(r)
  BY <1>5 DEF RefundEmulated, NewOp, OldOp, RefundStatuses, Fits
<1>. QED  BY <1>1, <1>2, <1>3, <1>4, <1>5

(* After them the request has its answer.                                  *)
LEMMA AnswerIsNoCall ==
    ASSUME Typed, NEW r \in Requests, req[r].pc \in InHand, NewOp(r) \/ OldOp(r)
    PROVE  req'[r].pc = "answering"
<1>1. Len(ops) + 1 \in Nat
  BY LenProperties DEF Typed, TypeOK
<1>. QED  BY <1>1, AnswerEffect DEF NewOp, OldOp

(* The steps of the adapters keep the types.                               *)
LEMMA ProviderStepsAreTyped ==
    ASSUME Typed, NEW r \in Requests, req[r].pc \in InHand, NewOp(r) \/ OldOp(r)
    PROVE  Typed'
<1>. USE DEF Typed, TypeOK
<1>1. CASE NewOp(r)
  <2>1. PICK s \in {"pending", "succeeded", "canceled"}, status \in RefundStatuses :
            ops' = Append(ops, Operation(r, s)) /\ Answer(r, status, Len(ops) + 1)
    BY <1>1 DEF NewOp
  <2>2. req[r].key \in Keys /\ req[r].body \in [payment: Payments, type: RefundTypes]
    BY RequestIsTyped DEF Ready, InHand
  <2>3. Operation(r, s) \in Op
    BY <2>2 DEF Operation, Op, Payment
  <2>4. ops' \in Seq(Op) /\ Len(ops) + 1 \in Nat
    BY <2>1, <2>3, AppendOp
  <2>. QED  BY <2>1, <2>4, AnswerEffect
<1>2. CASE OldOp(r)
  BY <1>2, AnswerEffect DEF OldOp
<1>. QED  BY <1>1, <1>2

(* A request that comes in has nothing in hand.                            *)
LEMMA ReceiveIsTyped ==
    ASSUME Typed, NEW r \in Requests, NEW k \in Keys, NEW p \in Payments,
           NEW t \in RefundTypes, Receive(r, k, p, t)
    PROVE  Typed'
<1>. DEFINE body == [payment |-> p, type |-> t]
            g    == [req[r] EXCEPT !.pc = "lookup", !.key = k, !.body = body]
<1>1. req[r] \in Goroutine /\ req \in [Requests -> Goroutine]
  BY RequestIsTyped DEF Typed, TypeOK
<1>2. body \in [payment: Payments, type: RefundTypes]
  OBVIOUS
<1>3. req' = [req EXCEPT ![r] = g]
  BY <1>1 DEF Receive, Goroutine
<1>. HIDE DEF body
<1>4. g \in Goroutine /\ g.pc = "lookup" /\ g.key = k /\ g.body = body
  BY <1>1, <1>2 DEF Goroutine, Body
<1>. HIDE DEF g
<1>5. req' \in [Requests -> Goroutine] /\ \A x \in Requests : Ready(x)'
  BY <1>2, <1>3, <1>4, ReqIsTyped DEF InHand
<1>. QED  BY <1>5 DEF Receive, Typed, TypeOK

(* What happens to the payments and at the provider meanwhile.             *)
LEMMA OutsideStepsAreTyped ==
    ASSUME Typed,
           \/ \E p \in Payments, s \in PaymentStatuses \ {""} : StorePayment(p, s)
           \/ \E i \in DOMAIN ops, s \in {"succeeded", "canceled"} : SettleRefund(i, s)
    PROVE  Typed'
<1>1. ASSUME NEW p \in Payments, NEW s \in PaymentStatuses, StorePayment(p, s)
      PROVE  Typed'
  BY <1>1 DEF StorePayment, Typed, TypeOK, Ready
<1>2. ASSUME NEW i \in DOMAIN ops, NEW s \in {"succeeded", "canceled"}, SettleRefund(i, s)
      PROVE  Typed'
  BY <1>2, SettleOp DEF SettleRefund, Typed, TypeOK, Ready
<1>. QED  BY <1>1, <1>2

(* After a restart no request has a refund in hand.                        *)
LEMMA RestartIsTyped ==
    ASSUME Typed, Restart
    PROVE  Typed'
<1>. USE DEF Typed, TypeOK
<1>1. ASSUME NEW r \in Requests
      PROVE  req'[r] \in Goroutine /\ Ready(r)'
  <2>1. CASE req'[r] = req[r]
    BY <2>1 DEF Ready
  <2>2. CASE req'[r] = [req[r] EXCEPT !.pc = "crashed"] /\ req[r].pc # "idle"
    BY <2>2, RequestIsTyped DEF Ready, Goroutine, Ended, InHand
  <2>. QED  BY <1>1, <2>1, <2>2 DEF Restart
<1>2. req' \in [Requests -> Goroutine]
  BY <1>1 DEF Restart
<1>3. refunds' \in [Requests -> Stored] /\ payment' \in [Payments -> PaymentStatuses]
  BY DEF Restart, Stored, PaymentStatuses
<1>4. faults' \in 0..MaxFaults
  BY FaultIsTyped DEF Restart
<1>. QED  BY <1>1, <1>2, <1>3, <1>4 DEF Restart

(* The steps of one request, by what they do.                              *)
LEMMA CreateSteps ==
    ASSUME Typed, NEW r \in Requests, Create(r)
    PROVE  \/ Replay(r) \/ Miss(r) \/ Load(r) \/ Reject(r) \/ ReadError(r)
           \/ SaveRequested(r) \/ SaveResult(r) \/ ResultLost(r)
           \/ /\ \/ req[r].pc = "call"
                 \/ req[r].pc = "answering" /\ UNCHANGED ops
              /\ NewOp(r) \/ OldOp(r)
BY ProviderStep DEF Create

(* The typing invariant is inductive.                                      *)
LEMMA StepIsTyped == Typed /\ [Next]_vars => Typed'
<1>. SUFFICES ASSUME Typed, [Next]_vars PROVE Typed'
  OBVIOUS
<1>1. ASSUME NEW r \in Requests, Create(r) PROVE Typed'
  BY <1>1, CreateSteps, LookupStepsAreTyped, SaveStepsAreTyped, ProviderStepsAreTyped DEF InHand
<1>2. ASSUME NEW r \in Requests, NEW k \in Keys, NEW p \in Payments, NEW t \in RefundTypes,
             Receive(r, k, p, t)
      PROVE  Typed'
  BY <1>2, ReceiveIsTyped
<1>3. CASE \/ \E p \in Payments, s \in PaymentStatuses \ {""} : StorePayment(p, s)
           \/ \E i \in DOMAIN ops, s \in {"succeeded", "canceled"} : SettleRefund(i, s)
  BY <1>3, OutsideStepsAreTyped
<1>4. CASE Restart
  BY <1>4, RestartIsTyped
<1>5. CASE UNCHANGED vars
  BY <1>5 DEF vars, Typed, TypeOK, Ready
<1>. QED  BY <1>1, <1>2, <1>3, <1>4, <1>5 DEF Next

(* Every state is well typed, and the refund a request has in hand is its  *)
(* own.                                                                    *)
LEMMA AlwaysTyped == Spec => []Typed
BY InitIsTyped, StepIsTyped, PTL DEF Spec

(* Every variable of the refund handler keeps its type: what is stored is  *)
(* a whole refund, under a key and for a payment (refunds/handler.go).     *)
THEOREM RefundsTypeCorrect == Spec => []TypeOK
<1>1. Typed => TypeOK
  BY DEF Typed
<1>. QED  BY <1>1, AlwaysTyped, PTL

-----------------------------------------------------------------------------
(* The provider's refunds.                                                 *)

(* What a step does to them: one more, one settled, or nothing.            *)
OpsChange ==
    \/ UNCHANGED ops
    \/ \E r \in Requests : req[r].pc = "call" /\ NewOp(r)
    \/ \E i \in DOMAIN ops, s \in {"succeeded", "canceled"} : SettleRefund(i, s)

(* Every step of the handler and of the provider is one of the three.      *)
LEMMA OpsStep == Typed /\ [Next]_vars => OpsChange
<1>. SUFFICES ASSUME Typed, [Next]_vars PROVE OpsChange
  OBVIOUS
<1>1. ASSUME NEW r \in Requests, Create(r) PROVE OpsChange
  <2>1. CASE Replay(r) \/ Miss(r) \/ Load(r) \/ Reject(r) \/ ReadError(r)
             \/ SaveRequested(r) \/ SaveResult(r) \/ ResultLost(r)
    BY <2>1 DEF OpsChange, Replay, Miss, Load, Reject, ReadError, SaveRequested, SaveResult,
               ResultLost
  <2>2. CASE /\ \/ req[r].pc = "call"
                \/ req[r].pc = "answering" /\ UNCHANGED ops
             /\ NewOp(r) \/ OldOp(r)
    BY <1>1, <2>2 DEF OpsChange, OldOp
  <2>. QED  BY <1>1, <2>1, <2>2, CreateSteps
<1>2. ASSUME NEW r \in Requests, NEW k \in Keys, NEW p \in Payments, NEW t \in RefundTypes,
             Receive(r, k, p, t)
      PROVE  OpsChange
  BY <1>2 DEF Receive, OpsChange
<1>3. ASSUME NEW p \in Payments, NEW s \in PaymentStatuses, StorePayment(p, s)
      PROVE  OpsChange
  BY <1>3 DEF StorePayment, OpsChange
<1>4. ASSUME NEW i \in DOMAIN ops, NEW s \in {"succeeded", "canceled"}, SettleRefund(i, s)
      PROVE  OpsChange
  BY <1>4 DEF OpsChange
<1>5. CASE Restart \/ UNCHANGED vars
  BY <1>5 DEF Restart, vars, OpsChange
<1>. QED  BY <1>1, <1>2, <1>3, <1>4, <1>5 DEF Next

(* A refund at the provider stays, of the same key, payment and kind, and  *)
(* once it is final it is as it is for good.                               *)
OpsGrow ==
    /\ DOMAIN ops \subseteq DOMAIN ops'
    /\ \A i \in DOMAIN ops :
          /\ ops'[i].key = ops[i].key
          /\ ops'[i].payment = ops[i].payment
          /\ ops'[i].type = ops[i].type
          /\ ops[i].status # "pending" => ops'[i] = ops[i]

(* A new refund is the request's own, and the last.                        *)
LEMMA NewOpEffect ==
    ASSUME Typed, NEW r \in Requests, req[r].pc = "call", NewOp(r)
    PROVE  \E s \in {"pending", "succeeded", "canceled"} :
               /\ DOMAIN ops' = DOMAIN ops \cup {Len(ops) + 1}
               /\ Len(ops) + 1 \notin DOMAIN ops
               /\ Len(ops) + 1 \in Nat
               /\ ops'[Len(ops) + 1] = Operation(r, s)
               /\ \A i \in DOMAIN ops : ops'[i] = ops[i]
               /\ AdapterOf[Payment(r)] = "yookassa" => KnownOps(req[r].key) = {}
               /\ \E status \in RefundStatuses :
                     /\ Fits(status, s)
                     /\ Answer(r, status, Len(ops) + 1)
<1>1. PICK s \in {"pending", "succeeded", "canceled"} :
          /\ ops' = Append(ops, Operation(r, s))
          /\ AdapterOf[Payment(r)] = "yookassa" => KnownOps(req[r].key) = {}
          /\ \E status \in RefundStatuses :
                /\ Fits(status, s)
                /\ Answer(r, status, Len(ops) + 1)
  BY DEF NewOp
<1>2. req[r].key \in Keys /\ req[r].body \in [payment: Payments, type: RefundTypes]
  BY RequestIsTyped DEF Ready
<1>3. Operation(r, s) \in Op
  BY <1>2 DEF Operation, Op, Payment
<1>4. ops \in Seq(Op)
  BY DEF Typed, TypeOK
<1>. QED  BY <1>1, <1>3, <1>4, AppendOp

(* So no step takes a refund back.                                         *)
LEMMA OpsOnlyGrow == Typed /\ OpsChange => OpsGrow
<1>. SUFFICES ASSUME Typed, OpsChange PROVE OpsGrow
  OBVIOUS
<1>. USE DEF OpsGrow
<1>1. CASE UNCHANGED ops
  BY <1>1
<1>2. ASSUME NEW r \in Requests, req[r].pc = "call", NewOp(r) PROVE OpsGrow
  BY <1>2, NewOpEffect
<1>3. ASSUME NEW i \in DOMAIN ops, NEW s \in {"succeeded", "canceled"}, SettleRefund(i, s)
      PROVE  OpsGrow
  <2>1. ops \in Seq(Op) /\ ops[i] \in Op /\ ops[i].status = "pending"
    BY <1>3, ElementOfSeq, LenProperties DEF SettleRefund, Typed, TypeOK
  <2>2. /\ DOMAIN ops' = DOMAIN ops
        /\ ops'[i] = [ops[i] EXCEPT !.status = s]
        /\ \A j \in DOMAIN ops : j # i => ops'[j] = ops[j]
    BY <1>3, <2>1, SettleOp DEF SettleRefund
  <2>. QED  BY <2>1, <2>2 DEF Op
<1>. QED  BY <1>1, <1>2, <1>3 DEF OpsChange

(* YooKassa deduplicates: it makes one refund under an idempotency key.    *)
(* This is what the model assumes of it (RefundAtYooKassa), not something  *)
(* the handler brings about; RefundContract takes it over.                 *)
OneRefundPerKey ==
    \A i, j \in DOMAIN ops :
        (/\ ops[i].key = ops[j].key
         /\ AdapterOf[ops[i].payment] = "yookassa"
         /\ AdapterOf[ops[j].payment] = "yookassa") => i = j

(* YooKassa makes a refund under a key only if it knows none, and no step  *)
(* changes the key of one.                                                 *)
LEMMA OneRefundStep ==
    Typed /\ OneRefundPerKey /\ [Next]_vars => OneRefundPerKey'
<1>. SUFFICES ASSUME Typed, OneRefundPerKey, [Next]_vars PROVE OneRefundPerKey'
  OBVIOUS
<1>0. OpsChange /\ OpsGrow
  BY OpsStep, OpsOnlyGrow
<1>1. CASE DOMAIN ops' = DOMAIN ops
  BY <1>0, <1>1 DEF OneRefundPerKey, OpsGrow
<1>2. ASSUME NEW r \in Requests, req[r].pc = "call", NewOp(r) PROVE OneRefundPerKey'
  <2>1. PICK s \in {"pending", "succeeded", "canceled"} :
            /\ DOMAIN ops' = DOMAIN ops \cup {Len(ops) + 1}
            /\ ops'[Len(ops) + 1] = Operation(r, s)
            /\ \A i \in DOMAIN ops : ops'[i] = ops[i]
            /\ AdapterOf[Payment(r)] = "yookassa" => KnownOps(req[r].key) = {}
    BY <1>2, NewOpEffect
  <2>2. ASSUME NEW i \in DOMAIN ops, ops[i].key = req[r].key,
               AdapterOf[ops[i].payment] = "yookassa", AdapterOf[Payment(r)] = "yookassa"
        PROVE  FALSE
    BY <2>1, <2>2 DEF KnownOps
  <2>. QED  BY <2>1, <2>2 DEF OneRefundPerKey, Operation
<1>3. ASSUME NEW i \in DOMAIN ops, NEW s \in {"succeeded", "canceled"}, SettleRefund(i, s)
      PROVE  DOMAIN ops' = DOMAIN ops
  BY <1>3, SettleOp DEF SettleRefund, Typed, TypeOK
<1>. QED  BY <1>0, <1>1, <1>2, <1>3 DEF OpsChange

-----------------------------------------------------------------------------
(* Only what was captured is refunded.                                     *)

CapturedInv ==
    /\ RefundedWasCaptured
    /\ \A p \in Payments : payment[p] = "CAPTURED" => p \in captured
    /\ \A r \in Requests : req[r].pc \in {"create", "call"} => Payment(r) \in captured

(* A request on its way to the call comes from Load, and keeps its body.   *)
LEMMA BodiesStay ==
    ASSUME Typed, [Next]_vars, NEW r \in Requests, req'[r].pc \in {"create", "call"}
    PROVE  /\ Payment(r)' = Payment(r)
           /\ \/ Load(r)
              \/ req[r].pc \in {"create", "call"}
<1>. USE DEF Payment
<1>0. req \in [Requests -> Goroutine] /\ req[r] \in Goroutine
  BY DEF Typed, TypeOK
<1>1. ASSUME NEW q \in Requests, Create(q), q # r
      PROVE  req'[r] = req[r]
  BY <1>0, <1>1 DEF Create, Replay, Miss, Load, Reject, ReadError, SaveRequested,
     RefundAtYooKassa, RepeatAtYooKassa, RefusedByYooKassa, LoseAnswer, RefundEmulated,
     SaveResult, ResultLost, Goto, Answer
<1>2. CASE Create(r)
  <2>1. CASE Load(r) \/ SaveRequested(r)
    BY <1>0, <2>1 DEF Load, SaveRequested, Goto, At, Goroutine
  <2>2. CASE Replay(r) \/ Miss(r) \/ Reject(r) \/ ReadError(r) \/ SaveResult(r) \/ ResultLost(r)
    BY <1>0, <2>2 DEF Replay, Miss, Reject, ReadError, SaveResult, ResultLost, Goto, Goroutine
  <2>3. CASE req[r].pc \in InHand /\ (NewOp(r) \/ OldOp(r))
    BY <1>0, <2>3, AnswerIsNoCall
  <2>. QED  BY <1>2, <2>1, <2>2, <2>3, CreateSteps DEF InHand
<1>3. ASSUME NEW q \in Requests, NEW k \in Keys, NEW p \in Payments, NEW t \in RefundTypes,
             Receive(q, k, p, t)
      PROVE  req'[r] = req[r]
  BY <1>0, <1>3 DEF Receive, Goroutine
<1>4. CASE Restart
  BY <1>0, <1>4 DEF Restart, Goroutine
<1>5. ASSUME NEW p \in Payments, NEW s \in PaymentStatuses, StorePayment(p, s)
      PROVE  req'[r] = req[r]
  BY <1>5 DEF StorePayment
<1>6. ASSUME NEW i \in DOMAIN ops, NEW s \in {"succeeded", "canceled"}, SettleRefund(i, s)
      PROVE  req'[r] = req[r]
  BY <1>6 DEF SettleRefund
<1>7. CASE UNCHANGED vars
  BY <1>7 DEF vars
<1>. QED  BY <1>1, <1>2, <1>3, <1>4, <1>5, <1>6, <1>7 DEF Next

(* A payment that was stored as CAPTURED stays one that was.               *)
LEMMA CapturedStays ==
    ASSUME Typed, [Next]_vars
    PROVE  captured \subseteq captured'
<1>1. ASSUME NEW r \in Requests, Create(r) PROVE captured' = captured
  BY <1>1 DEF Create, Replay, Miss, Load, Reject, ReadError, SaveRequested, RefundAtYooKassa,
              RepeatAtYooKassa, RefusedByYooKassa, LoseAnswer, RefundEmulated, SaveResult,
              ResultLost, Answer
<1>2. ASSUME NEW r \in Requests, NEW k \in Keys, NEW p \in Payments, NEW t \in RefundTypes,
             Receive(r, k, p, t)
      PROVE  captured' = captured
  BY <1>2 DEF Receive
<1>3. ASSUME NEW p \in Payments, NEW s \in PaymentStatuses, StorePayment(p, s)
      PROVE  captured \subseteq captured'
  BY <1>3 DEF StorePayment
<1>4. ASSUME NEW i \in DOMAIN ops, NEW s \in {"succeeded", "canceled"}, SettleRefund(i, s)
      PROVE  captured' = captured
  BY <1>4 DEF SettleRefund
<1>5. CASE Restart
  BY <1>5 DEF Restart
<1>6. CASE UNCHANGED vars
  BY <1>6 DEF vars
<1>. QED  BY <1>1, <1>2, <1>3, <1>4, <1>5, <1>6 DEF Next

(* Whatever makes a payment CAPTURED enters it into the history.           *)
LEMMA PaymentStep ==
    ASSUME Typed, [Next]_vars, NEW p \in Payments, payment'[p] = "CAPTURED"
    PROVE  payment[p] = "CAPTURED" \/ p \in captured'
<1>1. ASSUME NEW q \in Payments, NEW s \in PaymentStatuses, StorePayment(q, s)
      PROVE  payment[p] = "CAPTURED" \/ p \in captured'
  BY <1>1 DEF StorePayment, Typed, TypeOK
<1>2. CASE Restart
  BY <1>2 DEF Restart
<1>3. CASE UNCHANGED payment
  BY <1>3
<1>4. ASSUME NEW r \in Requests, Create(r) PROVE UNCHANGED payment
  BY <1>4 DEF Create, Replay, Miss, Load, Reject, ReadError, SaveRequested, RefundAtYooKassa,
              RepeatAtYooKassa, RefusedByYooKassa, LoseAnswer, RefundEmulated, SaveResult,
              ResultLost, Answer
<1>. QED
  BY <1>1, <1>2, <1>3, <1>4 DEF Next, Receive, SettleRefund, vars

(* The check of Load holds when the provider is called, as history.        *)
LEMMA CapturedStep == Typed /\ CapturedInv /\ [Next]_vars => CapturedInv'
<1>. SUFFICES ASSUME Typed, CapturedInv, [Next]_vars PROVE CapturedInv'
  OBVIOUS
<1>1. captured \subseteq captured'
  BY CapturedStays
<1>2. \A p \in Payments : payment'[p] = "CAPTURED" => p \in captured'
  BY <1>1, PaymentStep DEF CapturedInv
<1>3. ASSUME NEW r \in Requests, req'[r].pc \in {"create", "call"}
      PROVE  Payment(r)' \in captured'
  <2>1. Load(r) => Payment(r) \in Payments /\ payment[Payment(r)] = "CAPTURED"
    BY RequestIsTyped DEF Load, Refundable, At, Ready, Payment
  <2>. QED  BY <1>1, <1>3, <2>1, BodiesStay DEF CapturedInv
<1>4. RefundedWasCaptured'
  <2>1. OpsChange /\ OpsGrow
    BY OpsStep, OpsOnlyGrow
  <2>2. CASE DOMAIN ops' = DOMAIN ops
    BY <1>1, <2>1, <2>2 DEF CapturedInv, RefundedWasCaptured, OpsGrow
  <2>3. ASSUME NEW r \in Requests, req[r].pc = "call", NewOp(r) PROVE RefundedWasCaptured'
    <3>1. PICK s \in {"pending", "succeeded", "canceled"} :
              /\ DOMAIN ops' = DOMAIN ops \cup {Len(ops) + 1}
              /\ ops'[Len(ops) + 1] = Operation(r, s)
              /\ \A i \in DOMAIN ops : ops'[i] = ops[i]
      BY <2>3, NewOpEffect
    <3>2. Operation(r, s).payment \in captured
      BY <2>3 DEF Operation, CapturedInv
    <3>. QED  BY <1>1, <3>1, <3>2 DEF CapturedInv, RefundedWasCaptured
  <2>4. ASSUME NEW i \in DOMAIN ops, NEW s \in {"succeeded", "canceled"}, SettleRefund(i, s)
        PROVE  DOMAIN ops' = DOMAIN ops
    BY <2>4, SettleOp DEF SettleRefund, Typed, TypeOK
  <2>. QED  BY <2>1, <2>2, <2>3, <2>4 DEF OpsChange
<1>. QED  BY <1>2, <1>3, <1>4 DEF CapturedInv

(* A provider is asked for refunds only of payments that were stored as    *)
(* CAPTURED, though their records change while the request is handled      *)
(* (refunds/handler.go create, the check of CurrentStatus).                *)
THEOREM RefundsWereCaptured == Spec => []RefundedWasCaptured
<1>1. Init => CapturedInv
  <2>. SUFFICES ASSUME Init PROVE CapturedInv
    OBVIOUS
  <2>1. ops = <<>>
    BY DEF Init
  <2>2. DOMAIN ops = {}
    BY <2>1
  <2>. QED  BY <2>2 DEF Init, CapturedInv, RefundedWasCaptured, Idle
<1>2. CapturedInv => RefundedWasCaptured
  BY DEF CapturedInv
<1>. QED  BY <1>1, <1>2, AlwaysTyped, CapturedStep, PTL DEF Spec

-----------------------------------------------------------------------------
(* One refund for all the answers of a key.                                *)

(* The store changes by the SaveRefund of a request, or is lost.           *)
Saves(r) ==
    /\ req[r].pc \in InHand
    /\ ~Taken(req[r].refund)
    /\ refunds' = [refunds EXCEPT ![r] = req[r].refund]

RefundsChange ==
    \/ UNCHANGED refunds
    \/ \E r \in Requests : Saves(r)
    \/ ~Durable /\ refunds' = [r \in Requests |-> NoRefund]

(* Every SaveRefund is of the request's own refund.                        *)
LEMMA SaveIsOwn ==
    ASSUME Typed, NEW r \in Requests, req[r].pc \in InHand, SaveRefund(req[r].refund)
    PROVE  Saves(r)
BY RequestIsTyped DEF Saves, SaveRefund, Ready, Own

(* Every step changes the store in one of these ways.                      *)
LEMMA RefundsStep == Typed /\ [Next]_vars => RefundsChange
<1>. SUFFICES ASSUME Typed, [Next]_vars PROVE RefundsChange
  OBVIOUS
<1>1. ASSUME NEW r \in Requests, Create(r) PROVE RefundsChange
  <2>1. CASE Replay(r) \/ Miss(r) \/ Load(r) \/ Reject(r) \/ ReadError(r)
    BY <2>1 DEF RefundsChange, Replay, Miss, Load, Reject, ReadError
  <2>2. CASE SaveRequested(r) \/ SaveResult(r) \/ ResultLost(r)
    BY <2>2, SaveIsOwn
    DEF RefundsChange, SaveRequested, SaveResult, ResultLost, SaveRefundError, At, InHand
  <2>3. CASE NewOp(r) \/ OldOp(r)
    BY <2>3 DEF RefundsChange, NewOp, OldOp, Answer
  <2>. QED  BY <1>1, <2>1, <2>2, <2>3, CreateSteps
<1>2. ASSUME NEW r \in Requests, NEW k \in Keys, NEW p \in Payments, NEW t \in RefundTypes,
             Receive(r, k, p, t)
      PROVE  RefundsChange
  BY <1>2 DEF Receive, RefundsChange
<1>3. CASE Restart
  BY <1>3 DEF Restart, RefundsChange
<1>. QED
  BY <1>1, <1>2, <1>3 DEF Next, StorePayment, SettleRefund, vars, RefundsChange

(* What a step does to a request: its key is its own for good, and it is   *)
(* answered with a stored refund of its key or with the refund it saved.   *)
KeepsKey(r) ==
    req[r].pc # "idle" => req'[r].pc # "idle" /\ req'[r].key = req[r].key

AnsweredAs(r) ==
    Answered(r)' =>
        \/ Answered(r) /\ req'[r] = req[r]
        \/ /\ req[r].pc = "lookup" /\ UNCHANGED refunds
           /\ \E q \in RecordsOf(req[r].key) : req'[r].refund = refunds[q]
        \/ Saves(r) /\ req[r].pc = "answering" /\ req'[r].refund = req[r].refund

(* Every step is such a step, for every request.                           *)
LEMMA RequestStep ==
    ASSUME Typed, [Next]_vars, NEW r \in Requests
    PROVE  KeepsKey(r) /\ AnsweredAs(r)
<1>. USE DEF KeepsKey, AnsweredAs, Answered, At
<1>0. req \in [Requests -> Goroutine] /\ req[r] \in Goroutine
  BY DEF Typed, TypeOK
<1>1. ASSUME NEW q \in Requests, Create(q), q # r
      PROVE  req'[r] = req[r]
  BY <1>0, <1>1 DEF Create, Replay, Miss, Load, Reject, ReadError, SaveRequested,
     RefundAtYooKassa, RepeatAtYooKassa, RefusedByYooKassa, LoseAnswer, RefundEmulated,
     SaveResult, ResultLost, Goto, Answer
<1>2. CASE Create(r)
  <2>1. CASE Replay(r)
    BY <1>0, <2>1 DEF Replay, GetRefundByIdempotencyKey, Goroutine
  <2>2. CASE Miss(r) \/ Load(r) \/ Reject(r) \/ ReadError(r) \/ SaveRequested(r) \/ ResultLost(r)
    BY <1>0, <2>2 DEF Miss, Load, Reject, ReadError, SaveRequested, ResultLost, Goto, Goroutine
  <2>3. CASE SaveResult(r)
    BY <1>0, <2>3, SaveIsOwn DEF SaveResult, Goto, Goroutine, InHand
  <2>4. CASE req[r].pc \in InHand /\ (NewOp(r) \/ OldOp(r))
    <3>1. Len(ops) + 1 \in Nat
      BY LenProperties DEF Typed, TypeOK
    <3>. QED  BY <2>4, <3>1, AnswerEffect DEF NewOp, OldOp
  <2>. QED  BY <1>2, <2>1, <2>2, <2>3, <2>4, CreateSteps DEF InHand
<1>3. ASSUME NEW q \in Requests, NEW k \in Keys, NEW p \in Payments, NEW t \in RefundTypes,
             Receive(q, k, p, t)
      PROVE  KeepsKey(r) /\ AnsweredAs(r)
  BY <1>0, <1>3 DEF Receive, Goroutine
<1>4. CASE Restart
  BY <1>0, <1>4 DEF Restart, Goroutine, Ended
<1>5. CASE UNCHANGED req
  BY <1>5
<1>. QED  BY <1>1, <1>2, <1>3, <1>4, <1>5 DEF Next, StorePayment, SettleRefund, vars

(* A record was written by the request whose identifier it has, under the  *)
(* request's key.                                                          *)
OwnRecord(r) ==
    refunds[r].key # NoKey =>
        req[r].pc # "idle" /\ refunds[r].id = r /\ refunds[r].key = req[r].key

(* With the database a key has one record, and whoever was answered was    *)
(* answered with it.                                                       *)
OneRecord(q, r) ==
    refunds[q].key # NoKey /\ refunds[q].key = refunds[r].key => q = r

AnswerIsRecorded(r) ==
    Answered(r) =>
        /\ req[r].refund.id \in Requests
        /\ refunds[req[r].refund.id].key = req[r].key

StoreInv ==
    /\ \A r \in Requests : OwnRecord(r)
    /\ Durable => /\ \A q, r \in Requests : OneRecord(q, r)
                  /\ \A r \in Requests : AnswerIsRecorded(r)

(* Initially nothing is stored and nobody has an answer.                   *)
LEMMA InitHasNoRecords == Init => StoreInv
<1>. SUFFICES ASSUME Init PROVE StoreInv
  OBVIOUS
<1>1. ASSUME NEW r \in Requests PROVE refunds[r].key = NoKey /\ req[r].pc = "idle"
  BY DEF Init, NoRefund, Idle
<1>. QED  BY <1>1 DEF StoreInv, OwnRecord, OneRecord, AnswerIsRecorded, Answered

(* The key of a request that was received is not the absence of one.       *)
LEMMA KeyIsKey ==
    ASSUME NEW k \in Keys
    PROVE  k # NoKey
BY KeysAssumption DEF NoKey

(* What a SaveRefund writes.                                               *)
LEMMA SavedRecord ==
    ASSUME Typed, StoreInv, NEW r \in Requests, Saves(r)
    PROVE  /\ refunds'[r].key = req[r].key /\ refunds'[r].id = r
           /\ req[r].key \in Keys /\ req[r].pc # "idle"
           /\ \A q \in Requests \ {r} :
                 /\ refunds'[q] = refunds[q]
                 /\ Durable => refunds[q].key # req[r].key
           /\ refunds[r].key # NoKey => refunds[r].key = req[r].key
<1>1. /\ req[r].refund.id = r /\ req[r].refund.key = req[r].key
      /\ req[r].key \in Keys /\ req[r].pc # "idle"
  BY RequestIsTyped DEF Saves, Ready, InHand, Own
<1>2. /\ refunds'[r] = req[r].refund
      /\ \A q \in Requests \ {r} : refunds'[q] = refunds[q]
  BY DEF Saves, Typed, TypeOK
<1>3. \A q \in Requests \ {r} : Durable => refunds[q].key # req[r].key
  BY <1>1 DEF Saves, Taken, RecordsOf
<1>. QED  BY <1>1, <1>2, <1>3 DEF StoreInv, OwnRecord

(* UNIQUE (merchant_id, idempotency_key) keeps a key to one record, and    *)
(* the records keep their keys.                                            *)
LEMMA StoreStep == Typed /\ StoreInv /\ [Next]_vars => StoreInv'
<1>. SUFFICES ASSUME Typed, StoreInv, [Next]_vars PROVE StoreInv'
  OBVIOUS
<1>0. RefundsChange /\ \A r \in Requests : KeepsKey(r) /\ AnsweredAs(r)
  BY RefundsStep, RequestStep
<1>1. ASSUME NEW r \in Requests PROVE OwnRecord(r)'
  <2>1. CASE UNCHANGED refunds
    BY <1>0, <2>1 DEF StoreInv, OwnRecord, KeepsKey
  <2>2. ASSUME NEW q \in Requests, Saves(q) PROVE OwnRecord(r)'
    BY <1>0, <2>2, SavedRecord DEF StoreInv, OwnRecord, KeepsKey
  <2>3. CASE ~Durable /\ refunds' = [x \in Requests |-> NoRefund]
    BY <2>3 DEF OwnRecord, NoRefund
  <2>. QED  BY <1>0, <2>1, <2>2, <2>3 DEF RefundsChange
<1>2. ASSUME Durable, NEW q \in Requests, NEW r \in Requests PROVE OneRecord(q, r)'
  <2>1. CASE UNCHANGED refunds
    BY <1>2, <2>1 DEF StoreInv, OneRecord
  <2>2. ASSUME NEW x \in Requests, Saves(x) PROVE OneRecord(q, r)'
    BY <1>2, <2>2, SavedRecord DEF StoreInv, OneRecord
  <2>. QED  BY <1>0, <1>2, <2>1, <2>2 DEF RefundsChange
<1>3. ASSUME Durable, NEW r \in Requests PROVE AnswerIsRecorded(r)'
  <2>. SUFFICES ASSUME Answered(r)' PROVE AnswerIsRecorded(r)'
    BY DEF AnswerIsRecorded
  <2>1. CASE Answered(r) /\ req'[r] = req[r]
    <3>1. req[r].refund.id \in Requests /\ refunds[req[r].refund.id].key = req[r].key
      BY <1>3, <2>1 DEF StoreInv, AnswerIsRecorded
    <3>2. req[r].key \in Keys
      BY <2>1, RequestIsTyped DEF Answered, Ready
    <3>3. refunds'[req[r].refund.id].key = req[r].key
      <4>1. CASE UNCHANGED refunds
        BY <3>1, <4>1
      <4>2. ASSUME NEW x \in Requests, Saves(x) PROVE refunds'[req[r].refund.id].key = req[r].key
        <5>1. req[r].key # NoKey
          BY <3>2, KeyIsKey
        <5>2. CASE req[r].refund.id = x
          BY <3>1, <4>2, <5>1, <5>2, SavedRecord
        <5>3. CASE req[r].refund.id # x
          BY <3>1, <4>2, <5>3, SavedRecord
        <5>. QED  BY <5>2, <5>3
      <4>. QED  BY <1>0, <1>3, <4>1, <4>2 DEF RefundsChange
    <3>. QED  BY <2>1, <3>1, <3>3 DEF AnswerIsRecorded
  <2>2. CASE /\ req[r].pc = "lookup" /\ UNCHANGED refunds
             /\ \E q \in RecordsOf(req[r].key) : req'[r].refund = refunds[q]
    <3>1. PICK q \in RecordsOf(req[r].key) : req'[r].refund = refunds[q]
      BY <2>2
    <3>2. req[r].key \in Keys
      BY <2>2, RequestIsTyped DEF Ready
    <3>3. q \in Requests /\ refunds[q].key = req[r].key /\ refunds[q].id = q
      BY <3>2, KeysAssumption DEF RecordsOf, StoreInv, OwnRecord, NoKey
    <3>4. req'[r].key = req[r].key
      BY <1>0, <2>2 DEF KeepsKey
    <3>. QED  BY <2>2, <3>1, <3>3, <3>4 DEF AnswerIsRecorded
  <2>3. CASE Saves(r) /\ req[r].pc = "answering" /\ req'[r].refund = req[r].refund
    <3>1. req'[r].key = req[r].key /\ req[r].refund.id = r
      BY <1>0, <2>3, RequestIsTyped DEF KeepsKey, Ready, InHand, Own
    <3>. QED  BY <2>3, <3>1, SavedRecord DEF AnswerIsRecorded
  <2>. QED  BY <1>0, <2>1, <2>2, <2>3 DEF AnsweredAs
<1>. QED  BY <1>1, <1>2, <1>3, DurableAssumption DEF StoreInv

(* With the database, all answers given for an idempotency key are about   *)
(* one refund, however many requests missed its record and whichever of    *)
(* their SaveRefunds failed (postgres_store.go ensureSchema, UNIQUE).      *)
THEOREM SameRefund == Spec => []SameRefundForKey
<1>1. Typed /\ StoreInv => SameRefundForKey
  <2>. SUFFICES ASSUME Typed, StoreInv, Durable, NEW q \in Requests, NEW r \in Requests,
                       Answered(q), Answered(r), req[q].key = req[r].key
                PROVE  req[q].refund.id = req[r].refund.id
    BY DEF SameRefundForKey
  <2>1. req[r].key \in Keys
    BY RequestIsTyped DEF Answered, Ready
  <2>2. /\ req[q].refund.id \in Requests /\ refunds[req[q].refund.id].key = req[q].key
        /\ req[r].refund.id \in Requests /\ refunds[req[r].refund.id].key = req[r].key
    BY DEF StoreInv, AnswerIsRecorded
  <2>3. \A x, y \in Requests : OneRecord(x, y)
    BY DEF StoreInv
  <2>4. req[r].key # NoKey
    BY <2>1, KeyIsKey
  <2>. QED  BY <2>2, <2>3, <2>4 DEF OneRecord
<1>. QED  BY <1>1, AlwaysTyped, InitHasNoRecords, StoreStep, PTL DEF Spec

-----------------------------------------------------------------------------
(* Only what the provider gave back is a success.                          *)

BackedRequest(r) ==
    req[r].pc \in InHand \/ Answered(r) => Backed(req[r].refund)

BackedInv == \A r \in Requests : Backed(refunds[r]) /\ BackedRequest(r)

(* A refund that is backed stays backed, whoever holds it.                 *)
LEMMA BackedStays ==
    ASSUME OpsGrow, NEW x, Backed(x)
    PROVE  /\ x.status = "SUCCESS_REFUND" => x.ext \in DOMAIN ops'
           /\ x.status = "SUCCESS_REFUND" =>
                  ops'[x.ext] = [key |-> x.key, payment |-> x.payment,
                                 type |-> x.type, status |-> "succeeded"]
BY DEF OpsGrow, Backed

(* A provider that has one more refund is another.                         *)
LEMMA AppendIsNew ==
    ASSUME Typed, NEW op, ops' = Append(ops, op)
    PROVE  ops' # ops
BY LenProperties DEF Typed, TypeOK

(* What a request does to its refund: it keeps it, it replays a stored     *)
(* one, it makes a new one, or it puts the provider's answer into it.      *)
HoldsAs(r) ==
    req'[r].pc \in InHand \/ Answered(r)' =>
        \/ (req[r].pc \in InHand \/ Answered(r)) /\ req'[r].refund = req[r].refund
        \/ \E q \in Requests : req'[r].refund = refunds[q]
        \/ req'[r].refund.status = "PROCESS_REFUND"
        \/ req[r].pc = "call" /\ NewOp(r)
        \/ req[r].pc \in InHand /\ OldOp(r)

(* Every step is such a step, for every request.                           *)
LEMMA HoldStep ==
    ASSUME Typed, [Next]_vars, NEW r \in Requests
    PROVE  HoldsAs(r)
<1>. USE DEF HoldsAs, Answered, At
<1>0. req \in [Requests -> Goroutine] /\ req[r] \in Goroutine
  BY DEF Typed, TypeOK
<1>1. ASSUME NEW q \in Requests, Create(q), q # r
      PROVE  req'[r] = req[r]
  BY <1>0, <1>1 DEF Create, Replay, Miss, Load, Reject, ReadError, SaveRequested,
     RefundAtYooKassa, RepeatAtYooKassa, RefusedByYooKassa, LoseAnswer, RefundEmulated,
     SaveResult, ResultLost, Goto, Answer
<1>2. CASE Create(r)
  <2>1. CASE Replay(r)
    BY <1>0, <2>1 DEF Replay, GetRefundByIdempotencyKey, RecordsOf, Goroutine
  <2>2. CASE Load(r)
    BY <1>0, <2>2 DEF Load, NewRefund, Goroutine
  <2>3. CASE Miss(r) \/ Reject(r) \/ ReadError(r) \/ ResultLost(r)
    BY <1>0, <2>3 DEF Miss, Reject, ReadError, ResultLost, Goto, Goroutine, InHand
  <2>4. CASE SaveRequested(r) \/ SaveResult(r)
    BY <1>0, <2>4 DEF SaveRequested, SaveResult, Goto, Goroutine, InHand
  <2>5. CASE req[r].pc \in InHand /\ ((NewOp(r) /\ req[r].pc = "call") \/ OldOp(r))
    BY <2>5
  <2>6. NewOp(r) => ~UNCHANGED ops
    BY AppendIsNew DEF NewOp
  <2>. QED  BY <1>2, <2>1, <2>2, <2>3, <2>4, <2>5, <2>6, CreateSteps DEF InHand
<1>3. ASSUME NEW q \in Requests, NEW k \in Keys, NEW p \in Payments, NEW t \in RefundTypes,
             Receive(q, k, p, t)
      PROVE  HoldsAs(r)
  BY <1>0, <1>3 DEF Receive, Goroutine, InHand
<1>4. CASE Restart
  BY <1>0, <1>4 DEF Restart, Goroutine, Ended, InHand
<1>5. CASE UNCHANGED req
  BY <1>5
<1>. QED  BY <1>1, <1>2, <1>3, <1>4, <1>5 DEF Next, StorePayment, SettleRefund, vars

(* The provider's answer is backed by the refund it made or knew.          *)
LEMMA AnswerIsBacked ==
    ASSUME Typed, NEW r \in Requests, req[r].pc \in InHand,
           \/ req[r].pc = "call" /\ NewOp(r)
           \/ OldOp(r)
    PROVE  Backed(req[r].refund)'
<1>1. Own(r, req[r])
  BY RequestIsTyped DEF Ready
<1>2. ASSUME NEW status \in RefundStatuses, NEW ext \in Nat, Answer(r, status, ext),
             status = "SUCCESS_REFUND" =>
                 ext \in DOMAIN ops' /\ ops'[ext] = Operation(r, "succeeded")
      PROVE  Backed(req[r].refund)'
  <2>1. Answer(r, status, ext)
    BY <1>2
  <2>2. /\ req'[r].refund.status = status /\ req'[r].refund.ext = ext
        /\ req'[r].refund.key = req[r].refund.key
        /\ req'[r].refund.payment = req[r].refund.payment
        /\ req'[r].refund.type = req[r].refund.type
    BY <2>1, AnswerEffect
  <2>. QED  BY <1>1, <1>2, <2>2 DEF Backed, Operation, Payment, Own, Refund
<1>3. CASE OldOp(r)
  BY <1>2, <1>3 DEF OldOp, Fits, Answer
<1>4. CASE req[r].pc = "call" /\ NewOp(r)
  BY <1>2, <1>4, NewOpEffect DEF Fits
<1>. QED  BY <1>3, <1>4

(* No step makes a success of what is not one.                             *)
LEMMA BackedStep == Typed /\ BackedInv /\ [Next]_vars => BackedInv'
<1>. SUFFICES ASSUME Typed, BackedInv, [Next]_vars PROVE BackedInv'
  OBVIOUS
<1>1. OpsGrow
  BY OpsStep, OpsOnlyGrow
<1>2. ASSUME NEW r \in Requests PROVE Backed(refunds[r])'
  <2>1. \E x : refunds'[r] = x /\ Backed(x)
    <3>1. CASE UNCHANGED refunds
      BY <3>1 DEF BackedInv
    <3>2. ASSUME NEW q \in Requests, Saves(q) PROVE \E x : refunds'[r] = x /\ Backed(x)
      <4>1. CASE q = r
        BY <3>2, <4>1 DEF Saves, BackedInv, BackedRequest, Typed, TypeOK
      <4>2. CASE q # r
        BY <3>2, <4>2 DEF Saves, BackedInv, Typed, TypeOK
      <4>. QED  BY <4>1, <4>2
    <3>3. CASE refunds' = [x \in Requests |-> NoRefund]
      <4>1. refunds'[r] = NoRefund
        BY <3>3
      <4>2. Backed(NoRefund)
        BY DEF Backed, NoRefund
      <4>. QED  BY <4>1, <4>2
    <3>. QED  BY <3>1, <3>2, <3>3, RefundsStep DEF RefundsChange
  <2>. QED  BY <1>1, <2>1, BackedStays DEF Backed
<1>3. ASSUME NEW r \in Requests PROVE BackedRequest(r)'
  <2>. SUFFICES ASSUME req'[r].pc \in InHand \/ Answered(r)'
                PROVE  Backed(req[r].refund)'
    BY DEF BackedRequest
  <2>1. ASSUME NEW x, req'[r].refund = x, Backed(x) PROVE Backed(req[r].refund)'
    BY <1>1, <2>1, BackedStays DEF Backed
  <2>2. CASE (req[r].pc \in InHand \/ Answered(r)) /\ req'[r].refund = req[r].refund
    BY <2>1, <2>2 DEF BackedInv, BackedRequest
  <2>3. ASSUME NEW q \in Requests, req'[r].refund = refunds[q]
        PROVE  Backed(req[r].refund)'
    BY <2>1, <2>3 DEF BackedInv
  <2>4. CASE req'[r].refund.status = "PROCESS_REFUND"
    BY <2>4 DEF Backed
  <2>5. CASE \/ req[r].pc = "call" /\ NewOp(r)
             \/ req[r].pc \in InHand /\ OldOp(r)
    BY <2>5, AnswerIsBacked DEF InHand
  <2>6. \/ (req[r].pc \in InHand \/ Answered(r)) /\ req'[r].refund = req[r].refund
        \/ \E q \in Requests : req'[r].refund = refunds[q]
        \/ req'[r].refund.status = "PROCESS_REFUND"
        \/ req[r].pc = "call" /\ NewOp(r)
        \/ req[r].pc \in InHand /\ OldOp(r)
    BY HoldStep DEF HoldsAs
  <2>. QED  BY <2>2, <2>3, <2>4, <2>5, <2>6
<1>. QED  BY <1>2, <1>3 DEF BackedInv

(* No stored refund and no answer to a merchant says SUCCESS_REFUND of     *)
(* money the provider did not give back, whatever is lost, repeated or     *)
(* restarted (refunds/handler.go create, yookassa_adapter.go Refund).      *)
THEOREM SuccessesAreBacked == Spec => []SuccessIsBacked
<1>1. Init => BackedInv
  <2>. SUFFICES ASSUME Init, NEW r \in Requests
                PROVE  Backed(refunds[r]) /\ BackedRequest(r)
    BY DEF BackedInv
  <2>1. refunds[r].status = "" /\ req[r].refund.status = ""
    BY DEF Init, NoRefund, Idle
  <2>. QED  BY <2>1 DEF Backed, BackedRequest
<1>2. BackedInv => SuccessIsBacked
  BY DEF BackedInv, BackedRequest, SuccessIsBacked
<1>. QED  BY <1>1, <1>2, AlwaysTyped, BackedStep, PTL DEF Spec

-----------------------------------------------------------------------------
(* A recorded key is done with.                                            *)

(* A request gets to work by missing the record of its key.                *)
LEMMA WorkStep ==
    ASSUME Typed, [Next]_vars, NEW r \in Requests, req'[r].pc \in Working
    PROVE  /\ req'[r].key = req[r].key
           /\ req[r].pc \in Working \/ RecordsOf(req[r].key) = {}
<1>0. req \in [Requests -> Goroutine] /\ req[r] \in Goroutine
  BY DEF Typed, TypeOK
<1>1. ASSUME NEW q \in Requests, Create(q), q # r
      PROVE  req'[r] = req[r]
  BY <1>0, <1>1 DEF Create, Replay, Miss, Load, Reject, ReadError, SaveRequested,
     RefundAtYooKassa, RepeatAtYooKassa, RefusedByYooKassa, LoseAnswer, RefundEmulated,
     SaveResult, ResultLost, Goto, Answer
<1>2. ASSUME Create(r)
      PROVE  \/ req[r].pc \in Working
             \/ req[r].pc = "lookup" /\ RecordsOf(req[r].key) = {}
  <2>1. CASE Miss(r)
    BY <2>1 DEF Miss, GetRefundByIdempotencyKey, At
  <2>2. CASE Replay(r) \/ ReadError(r)
    BY <1>0, <2>2 DEF Replay, ReadError, Goto, Goroutine, Working
  <2>3. CASE req[r].pc \in Working
    BY <2>3
  <2>. QED
    BY <1>2, <2>1, <2>2, <2>3, CreateSteps
    DEF Load, Reject, SaveRequested, SaveResult, ResultLost, At, Working
<1>3. ASSUME NEW q \in Requests, NEW k \in Keys, NEW p \in Payments, NEW t \in RefundTypes,
             Receive(q, k, p, t)
      PROVE  req'[r] = req[r]
  BY <1>0, <1>3 DEF Receive, Goroutine, Working
<1>4. ~Restart
  <2>. SUFFICES ASSUME Restart PROVE FALSE
    OBVIOUS
  <2>1. req'[r] = req[r] \/ req'[r] = [req[r] EXCEPT !.pc = "crashed"]
    BY DEF Restart
  <2>2. req'[r].pc = "crashed" \/ (req'[r].pc = req[r].pc /\ req[r].pc \in Ended \cup {"idle"})
    BY <1>0, <2>1 DEF Restart, Goroutine
  <2>. QED  BY <2>2 DEF Ended, Working
<1>5. \/ req[r].pc \in Working
      \/ req[r].pc = "lookup" /\ RecordsOf(req[r].key) = {}
  BY <1>1, <1>2, <1>3, <1>4 DEF Next, StorePayment, SettleRefund, vars
<1>6. req'[r].key = req[r].key
  BY <1>5, RequestStep DEF KeepsKey, Working
<1>. QED  BY <1>5, <1>6

(* The key that is recorded is stored under and asked for no more.         *)
LEMMA RecordedStep ==
    ASSUME Typed, StoreInv, [Next]_vars, NEW k \in Keys, Recorded(k), ~StoreLost
    PROVE  /\ Recorded(k)'
           /\ \A q \in RecordsOf(k) : refunds'[q] = refunds[q]
           /\ \A i \in DOMAIN ops' \ DOMAIN ops : ops'[i].key # k
<1>1. \A q \in RecordsOf(k) : refunds'[q] = refunds[q]
  <2>1. ASSUME NEW r \in Requests, Saves(r), NEW q \in RecordsOf(k) PROVE refunds'[q] = refunds[q]
    <3>1. req[r].key # k
      BY <2>1 DEF Saves, InHand, Recorded, Working
    <3>2. q # r
      BY <2>1, <3>1, SavedRecord, KeyIsKey DEF RecordsOf
    <3>. QED  BY <2>1, <3>2, SavedRecord DEF RecordsOf
  <2>2. ~(refunds' = [r \in Requests |-> NoRefund] /\ ~Durable)
    BY DEF StoreLost
  <2>. QED  BY <2>1, <2>2, RefundsStep DEF RefundsChange
<1>2. \E q \in Requests : refunds'[q].key = k
  BY <1>1 DEF Recorded, RecordsOf
<1>3. ASSUME NEW r \in Requests, req'[r].key = k PROVE req'[r].pc \notin Working
  BY <1>3, WorkStep DEF Recorded
<1>4. Recorded(k)'
  BY <1>2, <1>3 DEF Recorded, RecordsOf
<1>5. \A i \in DOMAIN ops' \ DOMAIN ops : ops'[i].key # k
  <2>1. ASSUME NEW r \in Requests, req[r].pc = "call", NewOp(r),
               NEW i \in DOMAIN ops' \ DOMAIN ops
        PROVE  ops'[i].key # k
    <3>1. req[r].key # k
      BY <2>1 DEF Recorded, Working
    <3>2. \E s : ops'[i] = Operation(r, s)
      BY <2>1, NewOpEffect
    <3>. QED  BY <3>1, <3>2 DEF Operation
  <2>2. ASSUME NEW i \in DOMAIN ops, NEW s \in {"succeeded", "canceled"}, SettleRefund(i, s)
        PROVE  DOMAIN ops' = DOMAIN ops
    BY <2>2, SettleOp DEF SettleRefund, Typed, TypeOK
  <2>. QED  BY <2>1, <2>2, OpsStep DEF OpsChange
<1>. QED  BY <1>1, <1>4, <1>5

(* Once a refund is recorded for a key and no request that missed the      *)
(* record is at work on it, the provider is asked no more under the key    *)
(* and its records are as they are, unless an in-memory store is lost      *)
(* (refunds/handler.go create, the idempotency check).                     *)
THEOREM RecordedIsFinal == Spec => RecordedForGood
<1>1. Typed /\ StoreInv /\ [Next]_vars =>
        [\A k \in Keys : (Recorded(k) /\ ~StoreLost) =>
            /\ Recorded(k)'
            /\ \A q \in RecordsOf(k) : refunds'[q] = refunds[q]
            /\ \A i \in DOMAIN ops' \ DOMAIN ops : ops'[i].key # k]_vars
  BY RecordedStep
<1>. QED
  BY <1>1, AlwaysTyped, InitHasNoRecords, StoreStep, PTL DEF Spec, RecordedForGood
-----------------------------------------------------------------------------
(* RefundContract: what requests hold of it.                               *)

(* A request has saved nothing, or its refund as it was requested, until   *)
(* it saves what came of it, which is then the provider's.                 *)
Follows(r) ==
    /\ req[r].pc \in {"idle", "lookup", "load", "create"} => refunds[r] = NoRefund
    /\ req[r].pc \in {"create", "call"} => req[r].refund = NewRefund(r)
    /\ req[r].pc \in {"call", "answering"} => refunds[r] \in {NoRefund, NewRefund(r)}
    /\ req[r].pc = "answering" => /\ Contract!True(req[r].refund)
                                  /\ req[r].refund # NewRefund(r)

AllFollow == \A r \in Requests : Follows(r)

(* The new refund of a request is its own refund as it was requested.      *)
LEMMA NewIsRequested ==
    ASSUME Typed, NEW r \in Requests, req[r].pc \in InHand
    PROVE  /\ NewRefund(r) = Contract!Requested(req[r].refund)
           /\ NewRefund(r) # NoRefund
<1>1. Own(r, req[r]) /\ req[r].refund \in Refund /\ req[r].key \in Keys
  BY RequestIsTyped DEF Ready, InHand, Own
<1>2. NewRefund(r) = Contract!Requested(req[r].refund)
  <2>. DEFINE x == [req[r].refund EXCEPT !.status = "PROCESS_REFUND", !.ext = 0]
  <2>1. x \in Refund
    BY <1>1 DEF Refund, RefundStatuses
  <2>2. /\ x.id = r /\ x.key = req[r].key /\ x.payment = Payment(r)
        /\ x.type = req[r].body.type /\ x.status = "PROCESS_REFUND" /\ x.ext = 0
    BY <1>1 DEF Own, Refund, Payment
  <2>. HIDE DEF x
  <2>3. x = NewRefund(r)
    BY <2>1, <2>2 DEF NewRefund, Refund
  <2>. QED  BY <2>3 DEF x, Contract!Requested
<1>3. NewRefund(r).status = "PROCESS_REFUND" /\ NoRefund.status = ""
  BY DEF NewRefund, NoRefund
<1>. QED  BY <1>2, <1>3

(* What is true of the provider's refunds stays true.                      *)
LEMMA TrueStays ==
    ASSUME OpsGrow, NEW r \in Requests, req'[r].refund = req[r].refund,
           Contract!True(req[r].refund)
    PROVE  Contract!True(req[r].refund)'
BY DEF OpsGrow, Contract!True

(* The provider's answer is true, and is not the request.                  *)
LEMMA AnswerIsTrue ==
    ASSUME Typed, NEW r \in Requests, req[r].pc \in InHand,
           \/ req[r].pc = "call" /\ NewOp(r)
           \/ OldOp(r)
    PROVE  /\ Contract!True(req[r].refund)'
           /\ req'[r].refund # NewRefund(r)'
           /\ req'[r].pc = "answering"
           /\ \A q \in Requests \ {r} : req'[q] = req[q]
           /\ UNCHANGED <<refunds, payment, captured>>
           /\ NewRefund(r)' = NewRefund(r)
<1>1. Own(r, req[r])
  BY RequestIsTyped DEF Ready
<1>2. ASSUME NEW status \in RefundStatuses, NEW ext \in Nat, Answer(r, status, ext),
             \/ status = "FAIL_REFUND" /\ ext = 0
             \/ /\ ext \in DOMAIN ops' /\ ext # 0
                /\ \E s : ops'[ext] = Operation(r, s) /\ Fits(status, s)
      PROVE  /\ Contract!True(req[r].refund)'
             /\ req'[r].refund # NewRefund(r)'
             /\ req'[r].pc = "answering"
             /\ \A q \in Requests \ {r} : req'[q] = req[q]
             /\ UNCHANGED <<refunds, payment, captured>>
             /\ NewRefund(r)' = NewRefund(r)
  <2>1. Answer(r, status, ext)
    BY <1>2
  <2>2. /\ req'[r].refund.status = status /\ req'[r].refund.ext = ext
        /\ req'[r].refund.key = req[r].refund.key
        /\ req'[r].refund.payment = req[r].refund.payment
        /\ req'[r].refund.type = req[r].refund.type
        /\ req'[r].key = req[r].key /\ req'[r].body = req[r].body
        /\ req'[r].pc = "answering"
        /\ \A q \in Requests \ {r} : req'[q] = req[q]
        /\ UNCHANGED <<refunds, payment, captured>>
    BY <2>1, AnswerEffect
  <2>3. /\ NewRefund(r)'.status = "PROCESS_REFUND" /\ NewRefund(r)'.ext = 0
        /\ NewRefund(r)' = NewRefund(r)
    BY <2>2 DEF NewRefund, Payment
  <2>4. req'[r].refund # NewRefund(r)'
    BY <1>2, <2>2, <2>3
  <2>5. Contract!True(req[r].refund)'
    <3>1. CASE status = "FAIL_REFUND" /\ ext = 0
      BY <2>2, <3>1 DEF Contract!True
    <3>2. CASE /\ ext \in DOMAIN ops' /\ ext # 0
               /\ \E s : ops'[ext] = Operation(r, s) /\ Fits(status, s)
      <4>1. PICK s : ops'[ext] = Operation(r, s) /\ Fits(status, s)
        BY <3>2
      <4>2. /\ ops'[ext].key = req[r].refund.key
            /\ ops'[ext].payment = req[r].refund.payment
            /\ ops'[ext].type = req[r].refund.type
            /\ ops'[ext].status = s
        BY <1>1, <4>1 DEF Operation, Payment, Own
      <4>. QED  BY <2>2, <3>2, <4>1, <4>2 DEF Contract!True, Fits
    <3>. QED  BY <1>2, <3>1, <3>2
  <2>. QED  BY <2>2, <2>3, <2>4, <2>5
<1>3. CASE OldOp(r)
  <2>1. \A ext \in DOMAIN ops : ext # 0
    BY LenProperties DEF Typed, TypeOK
  <2>2. ops' = ops
    BY <1>3 DEF OldOp
  <2>3. PICK status \in RefundStatuses, ext \in Nat :
            /\ Answer(r, status, ext)
            /\ \/ status = "FAIL_REFUND" /\ ext = 0
               \/ ext \in DOMAIN ops /\ \E s : ops[ext] = Operation(r, s) /\ Fits(status, s)
    BY <1>3 DEF OldOp
  <2>. QED  BY <1>2, <2>1, <2>2, <2>3
<1>4. CASE req[r].pc = "call" /\ NewOp(r)
  <2>1. PICK s \in {"pending", "succeeded", "canceled"}, status \in RefundStatuses :
            /\ DOMAIN ops' = DOMAIN ops \cup {Len(ops) + 1}
            /\ Len(ops) + 1 \in Nat
            /\ ops'[Len(ops) + 1] = Operation(r, s)
            /\ Fits(status, s)
            /\ Answer(r, status, Len(ops) + 1)
    BY <1>4, NewOpEffect
  <2>2. Len(ops) + 1 # 0
    BY LenProperties DEF Typed, TypeOK
  <2>. QED  BY <1>2, <2>1, <2>2
<1>. QED  BY <1>3, <1>4

(* Another request keeps what it holds and what it has saved.              *)
LEMMA OthersStay ==
    ASSUME Typed, NEW r \in Requests, NEW q \in Requests, q # r, Create(r)
    PROVE  req'[q] = req[q] /\ refunds'[q] = refunds[q]
<1>0. req \in [Requests -> Goroutine] /\ refunds \in [Requests -> Stored]
  BY DEF Typed, TypeOK
<1>1. req'[q] = req[q]
  BY <1>0 DEF Create, Replay, Miss, Load, Reject, ReadError, SaveRequested,
     RefundAtYooKassa, RepeatAtYooKassa, RefusedByYooKassa, LoseAnswer, RefundEmulated,
     SaveResult, ResultLost, Goto, Answer
<1>2. refunds' = refunds \/ Saves(r)
  <2>1. CASE SaveRequested(r) \/ SaveResult(r)
    BY <2>1, SaveIsOwn DEF SaveRequested, SaveResult, SaveRefundError, At, InHand
  <2>2. CASE ~SaveRequested(r) /\ ~SaveResult(r)
    BY <2>2 DEF Create, Replay, Miss, Load, Reject, ReadError, RefundAtYooKassa,
       RepeatAtYooKassa, RefusedByYooKassa, LoseAnswer, RefundEmulated, ResultLost,
       SaveRefundError, Answer
  <2>. QED  BY <2>1, <2>2
<1>3. refunds'[q] = refunds[q]
  BY <1>0, <1>2 DEF Saves
<1>. QED  BY <1>1, <1>3

(* A request that does not move holds what it held.                        *)
LEMMA StillFollows ==
    ASSUME Typed, OpsGrow, NEW r \in Requests, Follows(r),
           req'[r] = req[r], refunds'[r] = refunds[r]
    PROVE  Follows(r)'
<1>1. NewRefund(r)' = NewRefund(r)
  BY DEF NewRefund, Payment
<1>2. req[r].pc = "answering" => Contract!True(req[r].refund)'
  BY TrueStays DEF Follows
<1>. QED  BY <1>1, <1>2 DEF Follows

(* A request that moves makes its refund, saves it, has it answered, and   *)
(* saves it again.                                                         *)
LEMMA CreateFollows ==
    ASSUME Typed, NEW r \in Requests, Follows(r), Create(r)
    PROVE  Follows(r)'
<1>. USE DEF At
<1>0. req \in [Requests -> Goroutine] /\ req[r] \in Goroutine /\ refunds \in [Requests -> Stored]
  BY DEF Typed, TypeOK
<1>1. CASE Replay(r) \/ Reject(r) \/ ReadError(r) \/ SaveResult(r) \/ ResultLost(r)
  <2>1. req'[r].pc \in {"replayed", "rejected", "errored", "replied"}
    BY <1>0, <1>1 DEF Replay, Reject, ReadError, SaveResult, ResultLost, Goto, Goroutine
  <2>. QED  BY <2>1 DEF Follows
<1>2. CASE Miss(r)
  <2>1. req'[r].pc = "load" /\ refunds'[r] = refunds[r] /\ refunds[r] = NoRefund
    BY <1>0, <1>2 DEF Miss, Goto, Goroutine, Follows
  <2>. QED  BY <2>1 DEF Follows
<1>3. CASE Load(r)
  <2>1. /\ req'[r].pc = "create" /\ req'[r].refund = NewRefund(r)
        /\ req'[r].key = req[r].key /\ req'[r].body = req[r].body
        /\ refunds'[r] = NoRefund
    BY <1>0, <1>3 DEF Load, Goroutine, Follows
  <2>2. NewRefund(r)' = NewRefund(r)
    BY <2>1 DEF NewRefund, Payment
  <2>. QED  BY <2>1, <2>2 DEF Follows
<1>4. CASE SaveRequested(r)
  <2>1. /\ req'[r].pc = "call" /\ req'[r].refund = req[r].refund
        /\ req'[r].key = req[r].key /\ req'[r].body = req[r].body
        /\ req[r].refund = NewRefund(r) /\ refunds[r] = NoRefund
    BY <1>0, <1>4 DEF SaveRequested, Goto, Goroutine, Follows
  <2>2. NewRefund(r)' = NewRefund(r)
    BY <2>1 DEF NewRefund, Payment
  <2>3. refunds'[r] = refunds[r] \/ refunds'[r] = req[r].refund
    BY <1>0, <1>4, SaveIsOwn DEF SaveRequested, SaveRefundError, Saves, InHand
  <2>. QED  BY <2>1, <2>2, <2>3 DEF Follows
<1>5. CASE req[r].pc \in {"call", "answering"}
           /\ ((req[r].pc = "call" /\ NewOp(r)) \/ OldOp(r))
  <2>1. /\ Contract!True(req[r].refund)' /\ req'[r].refund # NewRefund(r)'
        /\ req'[r].pc = "answering" /\ refunds' = refunds /\ NewRefund(r)' = NewRefund(r)
    BY <1>5, AnswerIsTrue DEF InHand
  <2>. QED  BY <1>5, <2>1 DEF Follows
<1>6. NewOp(r) => ~UNCHANGED ops
  BY AppendIsNew DEF NewOp
<1>. QED  BY <1>1, <1>2, <1>3, <1>4, <1>5, <1>6, CreateSteps

(* So every step keeps what requests hold.                                 *)
LEMMA FollowStep == Typed /\ AllFollow /\ [Next]_vars => AllFollow'
<1>. SUFFICES ASSUME Typed, AllFollow, [Next]_vars, NEW r \in Requests PROVE Follows(r)'
  BY DEF AllFollow
<1>0. OpsGrow /\ Follows(r)
  BY OpsStep, OpsOnlyGrow DEF AllFollow
<1>1. ASSUME NEW q \in Requests, Create(q) PROVE Follows(r)'
  <2>1. CASE q = r
    BY <1>0, <1>1, <2>1, CreateFollows
  <2>2. CASE q # r
    BY <1>0, <1>1, <2>2, OthersStay, StillFollows
  <2>. QED  BY <2>1, <2>2
<1>2. ASSUME NEW q \in Requests, NEW k \in Keys, NEW p \in Payments, NEW t \in RefundTypes,
             Receive(q, k, p, t)
      PROVE  Follows(r)'
  <2>1. CASE q = r
    <3>1. req'[r].pc = "lookup" /\ req[r].pc = "idle" /\ refunds' = refunds
      BY <1>2, <2>1 DEF Receive, At, Typed, TypeOK, Goroutine
    <3>. QED  BY <1>0, <3>1 DEF Follows
  <2>2. CASE q # r
    <3>1. req'[r] = req[r] /\ refunds' = refunds
      BY <1>2, <2>2 DEF Receive, Typed, TypeOK
    <3>. QED  BY <1>0, <3>1, StillFollows
  <2>. QED  BY <2>1, <2>2
<1>3. CASE Restart
  <2>1. CASE req[r].pc \in Ended \cup {"idle"}
    <3>1. req'[r] = req[r] /\ (refunds' = refunds \/ refunds'[r] = NoRefund)
      BY <1>3, <2>1 DEF Restart
    <3>. QED  BY <1>0, <2>1, <3>1 DEF Follows, Ended
  <2>2. CASE req[r].pc \notin Ended \cup {"idle"}
    <3>1. req'[r].pc = "crashed"
      BY <1>3, <2>2 DEF Restart, Typed, TypeOK, Goroutine
    <3>. QED  BY <3>1 DEF Follows
  <2>. QED  BY <2>1, <2>2
<1>4. CASE UNCHANGED <<req, refunds>>
  BY <1>0, <1>4, StillFollows
<1>. QED  BY <1>1, <1>2, <1>3, <1>4 DEF Next, StorePayment, SettleRefund, vars

(* Initially nobody has anything.                                          *)
LEMMA InitFollows == Init => AllFollow
<1>. SUFFICES ASSUME Init, NEW r \in Requests PROVE Follows(r)
  BY DEF AllFollow
<1>1. req[r].pc = "idle" /\ refunds[r] = NoRefund
  BY DEF Init, Idle
<1>. QED  BY <1>1 DEF Follows

-----------------------------------------------------------------------------
(* RefundContract: the refinement.                                         *)

(* Who was answered stays so.                                              *)
LEMMA NobodyIsAnswered ==
    ASSUME \A r \in Requests :
               /\ Answered(r)' <=> Answered(r)
               /\ Answered(r) => req'[r] = req[r]
    PROVE  \A k \in Keys : AnswersFor(k)' = AnswersFor(k)
BY DEF AnswersFor

(* One request is answered.                                                *)
LEMMA OneIsAnswered ==
    ASSUME Typed, NEW r \in Requests, ~Answered(r), Answered(r)', req'[r].key = req[r].key,
           \A q \in Requests \ {r} : req'[q] = req[q]
    PROVE  [k \in Keys |-> AnswersFor(k)]'
             = [[k \in Keys |-> AnswersFor(k)] EXCEPT ![req[r].key] = @ \cup {req'[r].refund}]
<1>1. \A q \in Requests \ {r} : Answered(q)' <=> Answered(q)
  BY DEF Answered
<1>2. ASSUME NEW k \in Keys, k # req[r].key PROVE AnswersFor(k)' = AnswersFor(k)
  BY <1>1, <1>2 DEF AnswersFor
<1>3. AnswersFor(req[r].key)' = AnswersFor(req[r].key) \cup {req'[r].refund}
  BY <1>1 DEF AnswersFor
<1>. QED  BY <1>2, <1>3

(* The record of a key is a request's own, once the SaveRefund succeeds.   *)
LEMMA OneIsRecorded ==
    ASSUME Typed, StoreInv, Durable, NEW r \in Requests, Saves(r)
    PROVE  /\ RecordsOf(req[r].key) \subseteq {r}
           /\ [k \in Keys |-> {refunds[q] : q \in RecordsOf(k)}]'
                = [[k \in Keys |-> {refunds[q] : q \in RecordsOf(k)}]
                      EXCEPT ![req[r].key] = {req[r].refund}]
<1>. SUFFICES ASSUME NEW key \in Keys, key = req[r].key
              PROVE  /\ RecordsOf(key) \subseteq {r}
                     /\ \A k \in Keys \ {key} :
                           {refunds'[q] : q \in RecordsOf(k)'} = {refunds[q] : q \in RecordsOf(k)}
                     /\ {refunds'[q] : q \in RecordsOf(key)'} = {req[r].refund}
  BY SavedRecord
<1>1. /\ refunds'[r].key = key /\ refunds'[r] = req[r].refund
      /\ \A q \in Requests \ {r} : refunds'[q] = refunds[q] /\ refunds[q].key # key
      /\ refunds[r].key # NoKey => refunds[r].key = key
  BY SavedRecord DEF Saves, Typed, TypeOK
<1>2. RecordsOf(key) \subseteq {r} /\ RecordsOf(key)' = {r}
  BY <1>1 DEF RecordsOf
<1>3. {refunds'[q] : q \in RecordsOf(key)'} = {req[r].refund}
  BY <1>1, <1>2
<1>4. ASSUME NEW k \in Keys, k # key
      PROVE  {refunds'[q] : q \in RecordsOf(k)'} = {refunds[q] : q \in RecordsOf(k)}
  <2>1. RecordsOf(k)' = RecordsOf(k) /\ r \notin RecordsOf(k)
    BY <1>1, <1>4, KeyIsKey DEF RecordsOf
  <2>. QED  BY <1>1, <2>1 DEF RecordsOf
<1>. QED  BY <1>2, <1>3, <1>4

(* What is left alone of the contract's state, by what a step leaves.      *)
LEMMA SameRecords ==
    ASSUME UNCHANGED refunds
    PROVE  UNCHANGED [k \in Keys |-> {refunds[q] : q \in RecordsOf(k)}]
<1>1. \A k : RecordsOf(k)' = RecordsOf(k)
  BY DEF RecordsOf
<1>2. \A k : {refunds'[q] : q \in RecordsOf(k)'} = {refunds[q] : q \in RecordsOf(k)}
  BY <1>1
<1>. QED  BY <1>2

(* A step in which answered requests stay, and none is answered.           *)
LEMMA SameAnswers ==
    ASSUME \A r \in Requests :
               /\ Answered(r)' <=> Answered(r)
               /\ Answered(r) => req'[r] = req[r]
    PROVE  UNCHANGED [k \in Keys |-> AnswersFor(k)]
BY NobodyIsAnswered

(* A request that is not answered in its step leaves the answers.          *)
LEMMA NoAnswerYet ==
    ASSUME Typed, NEW r \in Requests, ~Answered(r), ~Answered(r)',
           \A q \in Requests \ {r} : req'[q] = req[q]
    PROVE  UNCHANGED [k \in Keys |-> AnswersFor(k)]
<1>1. \A q \in Requests : /\ Answered(q)' <=> Answered(q)
                          /\ Answered(q) => req'[q] = req[q]
  BY DEF Answered
<1>. QED  BY <1>1, SameAnswers

(* All that is known of the gateway when a step is mapped.                 *)
Sound ==
    /\ Typed
    /\ StoreInv
    /\ CapturedInv
    /\ OneRefundPerKey
    /\ AllFollow

(* The lookup answers with the record, and Load and the errors up to it    *)
(* with nothing.                                                           *)
LEMMA LookupKeepsContract ==
    ASSUME Sound, NEW r \in Requests,
           Replay(r) \/ Miss(r) \/ Load(r) \/ Reject(r) \/ ReadError(r)
    PROVE  [Contract!Next]_(Contract!contractVars)
<1>0. /\ Typed /\ req \in [Requests -> Goroutine] /\ req[r] \in Goroutine
      /\ req[r].pc \in {"lookup", "load"} /\ ~Answered(r)
      /\ \A q \in Requests \ {r} : req'[q] = req[q]
      /\ UNCHANGED <<refunds, ops, captured>>
  BY DEF Sound, Typed, TypeOK, Replay, Miss, Load, Reject, ReadError, At, Goto, Answered
<1>1. CASE Replay(r)
  <2>1. PICK q \in RecordsOf(req[r].key) :
            req' = [req EXCEPT ![r].pc = "replayed", ![r].refund = refunds[q]]
    BY <1>1 DEF Replay, GetRefundByIdempotencyKey
  <2>2. /\ req'[r].pc = "replayed" /\ req'[r].key = req[r].key
        /\ req'[r].refund = refunds[q] /\ req[r].key \in Keys
    BY <1>0, <2>1, RequestIsTyped DEF Goroutine, Ready
  <2>3. [k \in Keys |-> AnswersFor(k)]'
          = [[k \in Keys |-> AnswersFor(k)] EXCEPT ![req[r].key] = @ \cup {refunds[q]}]
    BY <1>0, <2>2, OneIsAnswered DEF Answered
  <2>4. Contract!Tell(req[r].key)
    BY <1>0, <2>2, <2>3, SameRecords DEF Contract!Tell
  <2>. QED  BY <2>2, <2>4 DEF Contract!Next
<1>2. CASE Miss(r) \/ Load(r) \/ Reject(r) \/ ReadError(r)
  <2>1. req'[r].pc \in {"load", "create", "rejected", "errored"}
    BY <1>0, <1>2 DEF Miss, Load, Reject, ReadError, Goto, Goroutine
  <2>2. UNCHANGED [k \in Keys |-> AnswersFor(k)]
    BY <1>0, <2>1, NoAnswerYet DEF Answered
  <2>. QED  BY <1>0, <2>2, SameRecords DEF Contract!contractVars
<1>. QED  BY <1>1, <1>2

(* To request or to conclude a refund is a step of the contract.           *)
LEMMA SavesAreNext ==
    ASSUME Typed, NEW x \in Refund, x.ext = 0 \/ x.ext \in DOMAIN ops,
           Contract!Request(x) \/ Contract!Conclude(x)
    PROVE  Contract!Next
<1>1. x.ext \in 0..Len(ops)
  BY LenProperties DEF Typed, TypeOK
<1>2. x \in [id : Requests, key : Keys, payment : Payments, type : Contract!Types,
             status : Contract!Statuses, ext : 0..Len(ops)]
  BY <1>1 DEF Refund, RefundTypes, RefundStatuses, Contract!Types, Contract!Statuses
<1>. QED  BY <1>2, Zenon DEF Contract!Next

(* The first SaveRefund requests, and fails without a trace.               *)
LEMMA RequestKeepsContract ==
    ASSUME Sound, Durable, NEW r \in Requests, SaveRequested(r)
    PROVE  [Contract!Next]_(Contract!contractVars)
<1>. SUFFICES ASSUME NEW new, new = NewRefund(r)
              PROVE  [Contract!Next]_(Contract!contractVars)
  OBVIOUS
<1>0. /\ Typed /\ StoreInv /\ req[r] \in Goroutine
      /\ req[r].pc = "create" /\ req'[r].pc = "call"
      /\ \A q \in Requests \ {r} : req'[q] = req[q]
      /\ UNCHANGED <<ops, captured>>
      /\ req[r].refund = new /\ refunds[r] = NoRefund
  BY DEF Sound, Typed, TypeOK, SaveRequested, At, Goto, Goroutine, AllFollow, Follows
<1>1. UNCHANGED [k \in Keys |-> AnswersFor(k)]
  BY <1>0, NoAnswerYet DEF Answered
<1>2. CASE SaveRefund(req[r].refund)
  <2>1. Saves(r) /\ Own(r, req[r]) /\ req[r].key \in Keys
    BY <1>0, <1>2, SaveIsOwn, RequestIsTyped DEF Ready, InHand
  <2>2. /\ new \in Refund /\ new.key = req[r].key /\ new.ext = 0
        /\ new = Contract!Requested(new)
    BY <1>0, <2>1, NewIsRequested DEF Own, InHand, NewRefund
  <2>3. RecordsOf(new.key) = {}
    <3>1. RecordsOf(req[r].key) \subseteq {r}
      BY <1>0, <2>1, OneIsRecorded
    <3>2. refunds[r].key = NoKey /\ req[r].key # NoKey
      <4>1. refunds[r].key = NoKey
        <5>1. NoRefund.key = NoKey
          BY DEF NoRefund
        <5>. QED  BY <1>0, <5>1
      <4>2. req[r].key # NoKey
        BY <2>1, KeyIsKey
      <4>. QED  BY <4>1, <4>2
    <3>. QED  BY <2>2, <3>1, <3>2 DEF RecordsOf
  <2>4. [k \in Keys |-> {refunds[q] : q \in RecordsOf(k)}]'
           = [[k \in Keys |-> {refunds[q] : q \in RecordsOf(k)}] EXCEPT ![new.key] = {new}]
    BY <1>0, <2>1, <2>2, OneIsRecorded
  <2>5. Contract!Request(new)
    BY <1>0, <1>1, <2>1, <2>2, <2>3, <2>4 DEF Contract!Request
  <2>6. Typed /\ new \in Refund /\ (new.ext = 0 \/ new.ext \in DOMAIN ops)
    BY <1>0, <2>2
  <2>7. Contract!Next
    BY <2>5, <2>6, SavesAreNext, Zenon
  <2>. QED  BY <2>7
<1>3. CASE SaveRefundError(req[r].refund)
  BY <1>0, <1>1, <1>3, SameRecords DEF SaveRefundError, Contract!contractVars
<1>. QED  BY <1>2, <1>3 DEF SaveRequested

(* The second SaveRefund concludes what was requested and answers with it, *)
(* or leaves all as it was.                                                *)
LEMMA ResultKeepsContract ==
    ASSUME Sound, Durable, NEW r \in Requests, SaveResult(r) \/ ResultLost(r)
    PROVE  [Contract!Next]_(Contract!contractVars)
<1>. SUFFICES ASSUME NEW result, result = req[r].refund
              PROVE  [Contract!Next]_(Contract!contractVars)
  OBVIOUS
<1>0. /\ Typed /\ StoreInv /\ req[r] \in Goroutine
      /\ req[r].pc = "answering" /\ ~Answered(r)
      /\ \A q \in Requests \ {r} : req'[q] = req[q]
      /\ UNCHANGED <<ops, captured>>
      /\ refunds[r] \in {NoRefund, NewRefund(r)}
      /\ Contract!True(result) /\ result # NewRefund(r)
  BY DEF Sound, Typed, TypeOK, SaveResult, ResultLost, At, Goto, Goroutine, AllFollow, Follows,
         Answered
<1>1. CASE SaveResult(r)
  <2>1. Saves(r) /\ Own(r, req[r]) /\ req[r].key \in Keys
    BY <1>0, <1>1, SaveIsOwn, RequestIsTyped DEF SaveResult, Ready, InHand
  <2>2. /\ result \in Refund /\ result.key = req[r].key
        /\ NewRefund(r) = Contract!Requested(result)
    BY <1>0, <2>1, NewIsRequested DEF Own, InHand
  <2>3. /\ req'[r].pc = "replied" /\ req'[r].key = req[r].key /\ req'[r].refund = result
    BY <1>0, <1>1 DEF SaveResult, Goto, Goroutine, Typed, TypeOK
  <2>4. [k \in Keys |-> AnswersFor(k)]'
          = [[k \in Keys |-> AnswersFor(k)] EXCEPT ![result.key] = @ \cup {result}]
    BY <1>0, <2>2, <2>3, OneIsAnswered DEF Answered
  <2>5. [k \in Keys |-> {refunds[q] : q \in RecordsOf(k)}]'
           = [[k \in Keys |-> {refunds[q] : q \in RecordsOf(k)}] EXCEPT ![result.key] = {result}]
    BY <1>0, <2>1, <2>2, OneIsRecorded
  <2>6. {refunds[q] : q \in RecordsOf(result.key)} \subseteq {Contract!Requested(result)}
    <3>1. RecordsOf(result.key) \subseteq {r}
      BY <1>0, <2>1, <2>2, OneIsRecorded
    <3>2. ASSUME NEW q \in RecordsOf(result.key)
          PROVE  refunds[q] = Contract!Requested(result)
      <4>1. q = r /\ refunds[r].key = result.key
        BY <3>1, <3>2 DEF RecordsOf
      <4>2. NoRefund.key = NoKey
        BY DEF NoRefund
      <4>3. result.key # NoKey
        BY <2>1, <2>2, KeyIsKey
      <4>. QED  BY <1>0, <2>2, <4>1, <4>2, <4>3
    <3>. QED  BY <3>2
  <2>7. Contract!Conclude(result)
    BY <1>0, <2>1, <2>2, <2>4, <2>5, <2>6 DEF Contract!Conclude
  <2>8. result.ext = 0 \/ result.ext \in DOMAIN ops
    BY <1>0 DEF Contract!True
  <2>9. Contract!Next
    BY <1>0, <2>2, <2>7, <2>8, SavesAreNext
  <2>. QED  BY <2>9
<1>2. CASE ResultLost(r)
  <2>1. req'[r].pc = "errored"
    BY <1>0, <1>2 DEF ResultLost, Goto, Goroutine, Typed, TypeOK
  <2>2. UNCHANGED [k \in Keys |-> AnswersFor(k)]
    BY <1>0, <2>1, NoAnswerYet DEF Answered
  <2>. QED
    BY <1>0, <1>2, <2>2, SameRecords DEF ResultLost, SaveRefundError, Contract!contractVars
<1>. QED  BY <1>1, <1>2

(* A provider gives a refund, of a payment that was captured and, at       *)
(* YooKassa, under a key it knows none for, or answers without one.        *)
LEMMA CallKeepsContract ==
    ASSUME Sound, NEW r \in Requests, req[r].pc \in {"call", "answering"},
           (req[r].pc = "call" /\ NewOp(r)) \/ OldOp(r)
    PROVE  [Contract!Next]_(Contract!contractVars)
<1>0. /\ Typed /\ req[r].pc \in InHand /\ ~Answered(r) /\ ~Answered(r)'
      /\ \A q \in Requests \ {r} : req'[q] = req[q]
      /\ UNCHANGED <<refunds, captured>>
  BY AnswerIsTrue DEF Sound, InHand, Answered
<1>1. UNCHANGED [k \in Keys |-> AnswersFor(k)]
  BY <1>0, NoAnswerYet
<1>2. CASE OldOp(r)
  BY <1>0, <1>1, <1>2, SameRecords DEF OldOp, Contract!contractVars
<1>3. CASE req[r].pc = "call" /\ NewOp(r)
  <2>1. PICK s \in {"pending", "succeeded", "canceled"} :
            /\ ops' = Append(ops, Operation(r, s))
            /\ AdapterOf[Payment(r)] = "yookassa" => KnownOps(req[r].key) = {}
    BY <1>3 DEF NewOp
  <2>. SUFFICES ASSUME NEW gift, gift = Operation(r, s)
                PROVE  Contract!Next
    OBVIOUS
  <2>2. Payment(r) \in captured /\ Payment(r) \in Payments /\ req[r].key \in Keys
        /\ req[r].body.type \in RefundTypes
    BY <1>3, RequestIsTyped DEF Sound, CapturedInv, Ready, Payment
  <2>3. /\ gift.key = req[r].key /\ gift.payment = Payment(r)
        /\ gift \in [key : Keys, payment : Payments, type : Contract!Types,
                     status : Contract!Fates]
    BY <2>2 DEF Operation, RefundTypes, Contract!Types, Contract!Fates
  <2>4. gift.payment \in {p \in Payments : AdapterOf[p] = "yookassa"} =>
            \A i \in DOMAIN ops : ops[i].key = gift.key =>
                ops[i].payment \notin {p \in Payments : AdapterOf[p] = "yookassa"}
    BY <2>1, <2>2, <2>3 DEF KnownOps
  <2>5. Contract!Give(gift)
    BY <1>0, <1>1, <2>1, <2>2, <2>3, <2>4, SameRecords DEF Contract!Give
  <2>. QED  BY <2>3, <2>5 DEF Contract!Next
<1>. QED  BY <1>2, <1>3

(* What happens to the payments and at the provider, a request that comes  *)
(* in, and a restart: a step of the contract or nothing of it.             *)
LEMMA OutsideKeepsContract ==
    ASSUME Sound, Durable,
           \/ \E p \in Payments, s \in PaymentStatuses \ {""} : StorePayment(p, s)
           \/ \E i \in DOMAIN ops, s \in {"succeeded", "canceled"} : SettleRefund(i, s)
           \/ \E r \in Requests, k \in Keys, p \in Payments, t \in RefundTypes :
                 Receive(r, k, p, t)
           \/ Restart
           \/ UNCHANGED vars
    PROVE  [Contract!Next]_(Contract!contractVars)
<1>0. Typed /\ req \in [Requests -> Goroutine]
  BY DEF Sound, Typed, TypeOK
<1>1. ASSUME NEW p \in Payments, NEW s \in PaymentStatuses, StorePayment(p, s)
      PROVE  [Contract!Next]_(Contract!contractVars)
  <2>1. /\ UNCHANGED [k \in Keys |-> {refunds[q] : q \in RecordsOf(k)}]
        /\ UNCHANGED [k \in Keys |-> AnswersFor(k)]
    BY <1>1, SameRecords, SameAnswers DEF StorePayment, Answered
  <2>2. CASE s = "CAPTURED"
    <3>1. Contract!Capture(p)
      BY <1>1, <2>1, <2>2 DEF StorePayment, Contract!Capture
    <3>. QED  BY <3>1 DEF Contract!Next
  <2>3. CASE s # "CAPTURED"
    BY <1>1, <2>1, <2>3 DEF StorePayment, Contract!contractVars
  <2>. QED  BY <2>2, <2>3
<1>2. ASSUME NEW i \in DOMAIN ops, NEW s \in {"succeeded", "canceled"}, SettleRefund(i, s)
      PROVE  [Contract!Next]_(Contract!contractVars)
  <2>1. /\ UNCHANGED [k \in Keys |-> {refunds[q] : q \in RecordsOf(k)}]
        /\ UNCHANGED [k \in Keys |-> AnswersFor(k)]
    BY <1>2, SameRecords, SameAnswers DEF SettleRefund, Answered
  <2>2. Contract!Settle(i, s)
    BY <1>2, <2>1 DEF SettleRefund, Contract!Settle
  <2>. QED  BY <2>2 DEF Contract!Next
<1>3. ASSUME NEW r \in Requests, NEW k \in Keys, NEW p \in Payments, NEW t \in RefundTypes,
             Receive(r, k, p, t)
      PROVE  [Contract!Next]_(Contract!contractVars)
  <2>1. /\ req[r].pc = "idle" /\ req'[r].pc = "lookup"
        /\ \A q \in Requests \ {r} : req'[q] = req[q]
    BY <1>0, <1>3 DEF Receive, At, Goroutine
  <2>2. UNCHANGED [x \in Keys |-> AnswersFor(x)]
    BY <1>0, <2>1, NoAnswerYet DEF Answered
  <2>. QED  BY <1>3, <2>2, SameRecords DEF Receive, Contract!contractVars
<1>4. CASE Restart
  <2>1. ASSUME NEW r \in Requests
        PROVE  /\ Answered(r)' <=> Answered(r)
               /\ Answered(r) => req'[r] = req[r]
    <3>1. CASE req[r].pc \in Ended \cup {"idle"}
      BY <1>4, <3>1 DEF Restart, Answered
    <3>2. CASE req[r].pc \notin Ended \cup {"idle"}
      BY <1>0, <1>4, <3>2 DEF Restart, Answered, Ended, Goroutine
    <3>. QED  BY <3>1, <3>2
  <2>2. UNCHANGED [k \in Keys |-> AnswersFor(k)]
    BY <2>1, SameAnswers
  <2>. QED  BY <1>4, <2>2, SameRecords DEF Restart, Contract!contractVars
<1>5. CASE UNCHANGED vars
  <2>1. UNCHANGED [k \in Keys |-> AnswersFor(k)]
    BY <1>5, SameAnswers DEF vars, Answered
  <2>. QED  BY <1>5, <2>1, SameRecords DEF vars, Contract!contractVars
<1>. QED  BY <1>1, <1>2, <1>3, <1>4, <1>5

(* Every step of the handler is one of the contract or a stutter.          *)
LEMMA StepKeepsContract ==
    Durable /\ Sound /\ [Next]_vars => [Contract!Next]_(Contract!contractVars)
<1>. SUFFICES ASSUME Durable, Sound, [Next]_vars
              PROVE  [Contract!Next]_(Contract!contractVars)
  OBVIOUS
<1>1. ASSUME NEW r \in Requests, Create(r)
      PROVE  [Contract!Next]_(Contract!contractVars)
  <2>0. Typed /\ (NewOp(r) => ~UNCHANGED ops)
    BY AppendIsNew DEF Sound, NewOp
  <2>1. CASE Replay(r) \/ Miss(r) \/ Load(r) \/ Reject(r) \/ ReadError(r)
    BY <2>1, LookupKeepsContract
  <2>2. CASE SaveRequested(r)
    BY <2>2, RequestKeepsContract
  <2>3. CASE SaveResult(r) \/ ResultLost(r)
    BY <2>3, ResultKeepsContract
  <2>4. CASE /\ req[r].pc \in {"call", "answering"}
             /\ (req[r].pc = "call" /\ NewOp(r)) \/ OldOp(r)
    BY <2>4, CallKeepsContract
  <2>. QED  BY <1>1, <2>0, <2>1, <2>2, <2>3, <2>4, CreateSteps
<1>2. CASE ~\E r \in Requests : Create(r)
  BY <1>2, OutsideKeepsContract DEF Next
<1>. QED  BY <1>1, <1>2

(* The handler starts as the contract does.                                *)
LEMMA InitKeepsContract == Init => Contract!Init
<1>. SUFFICES ASSUME Init PROVE Contract!Init
  OBVIOUS
<1>1. ASSUME NEW r \in Requests PROVE refunds[r].key = NoKey /\ ~Answered(r)
  BY DEF Init, NoRefund, Idle, Answered
<1>2. ASSUME NEW k \in Keys PROVE RecordsOf(k) = {} /\ AnswersFor(k) = {}
  BY <1>1, <1>2, KeyIsKey DEF RecordsOf, AnswersFor
<1>. QED  BY <1>2 DEF Init, Contract!Init

(* The parts of the invariant, together.                                   *)
LEMMA AlwaysSound == Spec => []Sound
<1>1. Init => CapturedInv /\ OneRefundPerKey
  <2>. SUFFICES ASSUME Init PROVE CapturedInv /\ OneRefundPerKey
    OBVIOUS
  <2>1. ops = <<>>
    BY DEF Init
  <2>2. DOMAIN ops = {}
    BY <2>1
  <2>. QED  BY <2>2 DEF Init, CapturedInv, RefundedWasCaptured, OneRefundPerKey, Idle
<1>. QED
  BY <1>1, AlwaysTyped, InitHasNoRecords, InitFollows, StoreStep, CapturedStep, OneRefundStep,
     FollowStep, PTL DEF Spec, Sound

(* With the database the handler implements RefundContract: with any       *)
(* number of requests that miss each other's records, SaveRefunds that     *)
(* fail or are refused, lost answers and restarts, a key has one record,   *)
(* concluded once and with what is true of the provider's refund, and all  *)
(* a merchant is answered is that record (refunds/handler.go create,       *)
(* postgres_store.go SaveRefund, yookassa_adapter.go Refund).              *)
THEOREM KeepsRefundContract == Durable => (Spec => ContractIsKept)
<1>1. Durable /\ Sound /\ [Next]_vars => [Contract!Next]_(Contract!contractVars)
  BY StepKeepsContract
<1>2. Init => Contract!Init
  BY InitKeepsContract
<1>. SUFFICES ASSUME Durable PROVE Spec => ContractIsKept
  OBVIOUS
<1>. QED  BY <1>1, <1>2, AlwaysSound, PTL DEF Spec, ContractIsKept, Contract!Spec

(* An answer is the record of its refund, or the record as it was before   *)
(* the refund was concluded.                                               *)
Tells(x, y) == x = y \/ x = Contract!Requested(y)

InStory ==
    \A r \in Requests : Answered(r) => Tells(req[r].refund, refunds[req[r].refund.id])

(* What was requested was requested as it is.                              *)
LEMMA RequestedOnce ==
    ASSUME NEW x \in Refund
    PROVE  Contract!Requested(Contract!Requested(x)) = Contract!Requested(x)
<1>. DEFINE y == [x EXCEPT !.status = "PROCESS_REFUND", !.ext = 0]
<1>1. y \in Refund /\ y.status = "PROCESS_REFUND" /\ y.ext = 0
  BY DEF Refund, RefundStatuses
<1>. HIDE DEF y
<1>2. [y EXCEPT !.status = "PROCESS_REFUND", !.ext = 0] = y
  BY <1>1 DEF Refund
<1>. QED  BY <1>2 DEF y, Contract!Requested

(* A record that is written again goes on with its story.                  *)
LEMMA StoryGoesOn ==
    ASSUME Sound, NEW r \in Requests, Saves(r), refunds[r].key # NoKey,
           NEW x, Tells(x, refunds[r])
    PROVE  Tells(x, refunds'[r])
<1>1. /\ Typed /\ Follows(r) /\ req[r].refund \in Refund /\ refunds'[r] = req[r].refund
      /\ req[r].pc \in InHand
  BY RequestIsTyped DEF Sound, AllFollow, Saves, Ready, Own, Typed, TypeOK
<1>2. refunds[r] # NoRefund
  <2>1. NoRefund.key = NoKey
    BY DEF NoRefund
  <2>. QED  BY <2>1
<1>3. refunds[r] = NewRefund(r)
  BY <1>1, <1>2 DEF Follows, InHand
<1>4. NewRefund(r) = Contract!Requested(req[r].refund)
  BY <1>1, NewIsRequested
<1>5. Contract!Requested(refunds[r]) = refunds[r]
  BY <1>1, <1>3, <1>4, RequestedOnce
<1>. QED  BY <1>1, <1>3, <1>4, <1>5 DEF Tells

(* No step answers with another story.                                     *)
LEMMA StoryStep == Durable /\ Sound /\ InStory /\ [Next]_vars => InStory'
<1>. SUFFICES ASSUME Durable, Sound, InStory, [Next]_vars, NEW r \in Requests, Answered(r)'
              PROVE  Tells(req'[r].refund, refunds'[req'[r].refund.id])
  BY DEF InStory, Tells
<1>0. /\ Typed /\ StoreInv /\ AnsweredAs(r) /\ RefundsChange
      /\ refunds \in [Requests -> Stored]
  BY RequestStep, RefundsStep DEF Sound, Typed, TypeOK
<1>1. CASE Answered(r) /\ req'[r] = req[r]
  <2>. SUFFICES ASSUME NEW id \in Requests, id = req[r].refund.id, refunds[id].key # NoKey
                PROVE  Tells(req[r].refund, refunds'[id])
    <3>1. /\ req[r].refund.id \in Requests
          /\ refunds[req[r].refund.id].key = req[r].key
      BY <1>0, <1>1 DEF StoreInv, AnswerIsRecorded
    <3>2. req[r].key \in Keys
      BY <1>0, <1>1, RequestIsTyped DEF Answered, Ready
    <3>. QED  BY <1>1, <3>1, <3>2, KeyIsKey
  <2>1. Tells(req[r].refund, refunds[id])
    BY <1>1 DEF InStory
  <2>2. CASE refunds'[id] = refunds[id]
    BY <2>1, <2>2
  <2>3. CASE Saves(id)
    BY <2>1, <2>3, StoryGoesOn
  <2>4. refunds'[id] = refunds[id] \/ Saves(id)
    BY <1>0 DEF RefundsChange, Saves
  <2>. QED  BY <2>2, <2>3, <2>4
<1>2. CASE /\ req[r].pc = "lookup" /\ UNCHANGED refunds
           /\ \E q \in RecordsOf(req[r].key) : req'[r].refund = refunds[q]
  <2>1. PICK q \in RecordsOf(req[r].key) : req'[r].refund = refunds[q]
    BY <1>2
  <2>2. req[r].key \in Keys
    BY <1>0, <1>2, RequestIsTyped DEF Ready
  <2>3. refunds[q].id = q
    BY <1>0, <2>2, KeyIsKey DEF RecordsOf, StoreInv, OwnRecord
  <2>. QED  BY <1>2, <2>1, <2>3 DEF Tells
<1>3. CASE Saves(r) /\ req[r].pc = "answering" /\ req'[r].refund = req[r].refund
  <2>1. req[r].refund.id = r /\ refunds'[r] = req[r].refund
    BY <1>0, <1>3, RequestIsTyped DEF Saves, Ready, Own
  <2>. QED  BY <1>3, <2>1 DEF Tells
<1>. QED  BY <1>0, <1>1, <1>2, <1>3 DEF AnsweredAs

(* With the database all answers for an idempotency key tell one story:    *)
(* the refund as it was requested, or what came of it; never that it       *)
(* succeeded and that it failed (refunds/handler.go create).               *)
THEOREM AnswersTellOneStory == Spec => []OneStory
<1>. DEFINE Story == Durable => InStory
<1>1. Sound /\ Story => OneStory
  <2>. SUFFICES ASSUME Durable, Sound, InStory, NEW k \in Keys,
                       NEW q \in Requests, NEW r \in Requests,
                       Answered(q), Answered(r), req[q].key = k, req[r].key = k
                PROVE  \/ req[q].refund = req[r].refund
                       \/ req[q].refund = Contract!Requested(req[r].refund)
                       \/ req[r].refund = Contract!Requested(req[q].refund)
    BY DEF OneStory, Contract!OneStory, AnswersFor
  <2>1. /\ req[q].refund.id \in Requests /\ refunds[req[q].refund.id].key = k
        /\ req[r].refund.id \in Requests /\ refunds[req[r].refund.id].key = k
    BY DEF Sound, StoreInv, AnswerIsRecorded
  <2>2. req[q].refund.id = req[r].refund.id
    BY <2>1, KeyIsKey DEF Sound, StoreInv, OneRecord
  <2>3. /\ Tells(req[q].refund, refunds[req[r].refund.id])
        /\ Tells(req[r].refund, refunds[req[r].refund.id])
    BY <2>2 DEF InStory
  <2>. QED  BY <2>3 DEF Tells
<1>2. Init => Story
  <2>. SUFFICES ASSUME Init, NEW r \in Requests PROVE ~Answered(r)
    BY DEF InStory
  <2>. QED  BY DEF Init, Idle, Answered
<1>3. Sound /\ Story /\ [Next]_vars => Story'
  BY StoryStep
<1>. HIDE DEF Story
<1>. QED  BY <1>1, <1>2, <1>3, AlwaysSound, PTL DEF Spec
=============================================================================
