-------------------------- MODULE PayAnyWayGateway_proofs --------------------------
(***************************************************************************)
(* Theorems of PayAnyWayGateway, for any requests, keys, payments, routing *)
(* and number of goroutines of the webhook handler, for both stores and    *)
(* any number of faults.                                                   *)
(***************************************************************************)
EXTENDS PayAnyWayGateway, Orchestrator_proofs

-----------------------------------------------------------------------------
(* Type correctness.                                                       *)

(* A goroutine of the webhook handler is at work on an operation that      *)
(* exists, and what it is about to store or send is a whole response.      *)
HookReady(x) ==
    /\ x.pc # "idle" => x.op \in DOMAIN ops
    /\ x.pc \in {"save", "notify"} => x.resp \in Response

Typed ==
    /\ TypeOK
    /\ RequestsAreReady
    /\ \A h \in Hooks : HookReady(hooks[h])

(* So the lemmas on the orchestrator apply.                                *)
LEMMA TypedIsOrchTyped == Typed => OrchTyped /\ OrchTypeOK
BY DEF Typed, TypeOK, OrchTyped

(* A goroutine with nothing to do is ready for the next Pay URL.           *)
LEMMA NoHookIsIdle ==
    /\ NoHook \in Hook /\ HookReady(NoHook)
    /\ NoHook.pc = "idle" /\ NoHook.resp = NoResponse
BY StoredResponses DEF Hook, NoHook, HookReady

(* The transaction id reads like a key of the payment, which PayAnyWay     *)
(* gets.                                                                   *)
LEMMA TransactionKeyIsKey ==
    ASSUME NEW p \in Payments
    PROVE  /\ TransactionKey[p] \in Keys
           /\ PaymentOf[TransactionKey[p]] = p
           /\ AdapterOf[TransactionKey[p]] = "payanyway"
BY TransactionKeyAssumption

(* An operation is of a payment.                                           *)
LEMMA OpHasPayment ==
    ASSUME OrchTypeOK, NEW i \in DOMAIN ops
    PROVE  PaymentOfOp(i) \in Payments /\ ops[i].key \in Keys /\ i \in Nat
BY OpIsTyped, PaymentOfAssumption DEF PaymentOfOp

(* What the handler files: CAPTURED, no error and no payment page.         *)
Capture(k, ext, retry) ==
    [key |-> k, status |-> "CAPTURED", code |-> "", ext |-> ext, url |-> FALSE, retry |-> retry]

(* It is a whole response, which Save and Notify are given.                *)
LEMMA CaptureIsResponse ==
    ASSUME NEW k \in Keys, NEW ext \in Nat, NEW retry \in Nat
    PROVE  /\ Capture(k, ext, retry) \in Response
           /\ Capture(k, ext, retry).key = k
           /\ Capture(k, ext, retry).status = "CAPTURED"
           /\ Capture(k, ext, retry).ext = ext
BY DEF Capture, Response, Statuses, Codes

(* A goroutine's changes to a record, and to the response it builds if     *)
(* there is none.                                                          *)
LEMMA UpdateCaptures ==
    ASSUME NEW i, NEW stored
    PROVE  /\ stored \in Response =>
                  stored.key \in Keys /\ Update(stored, i) = Capture(stored.key, i, stored.retry)
           /\ Update(NoResponse, i) = Capture(TransactionKey[PaymentOfOp(i)], i, 0)
<1>. DEFINE tk == TransactionKey[PaymentOfOp(i)]
<1>1. ASSUME stored \in Response
      PROVE  stored.key \in Keys /\ Update(stored, i) = Capture(stored.key, i, stored.retry)
  <2>1. stored.key \in Keys
    BY <1>1 DEF Response
  <2>2. stored.key # NoKey
    BY <2>1, NoKeyAssumption
  <2>. HIDE DEF tk
  <2>3. Update(stored, i) = [stored EXCEPT !.key = stored.key, !.status = "CAPTURED",
                                           !.code = "", !.ext = i, !.url = FALSE]
    BY <2>2, Zenon DEF Update
  <2>. QED  BY <1>1, <2>1, <2>3 DEF Capture, Response
<1>2. Update(NoResponse, i) = Capture(tk, i, 0)
  <2>1. NoResponse.key = NoKey
    BY DEF NoResponse, NoKey
  <2>2. Update(NoResponse, i) = [NoResponse EXCEPT !.key = tk, !.status = "CAPTURED",
                                                   !.code = "", !.ext = i, !.url = FALSE]
    BY <2>1, Zenon DEF Update
  <2>. HIDE DEF tk
  <2>. QED  BY <2>2 DEF Capture, NoResponse
<1>. QED  BY <1>1, <1>2

(* What a goroutine stores is a whole response, captured by the operation, *)
(* whatever it loaded: with the key of the record, if there is one.        *)
LEMMA UpdateIsResponse ==
    ASSUME NEW stored \in Stored, NEW i \in DOMAIN ops, OrchTypeOK
    PROVE  /\ Update(stored, i) \in Response
           /\ stored \in Response => Update(stored, i).key = stored.key
           /\ stored = NoResponse => Update(stored, i).key = TransactionKey[PaymentOfOp(i)]
           /\ Update(stored, i).status = "CAPTURED"
           /\ Update(stored, i).ext = i
<1>. DEFINE tk == TransactionKey[PaymentOfOp(i)]
<1>1. tk \in Keys /\ i \in Nat
  BY OpHasPayment, TransactionKeyIsKey
<1>2. NoResponse \notin Response
  BY NoKeyAssumption DEF NoResponse, Response, NoKey
<1>. HIDE DEF tk
<1>3. CASE stored \in Response
  <2>1. stored.retry \in Nat /\ stored.key \in Keys
    BY <1>3 DEF Response
  <2>. QED  BY <1>1, <1>2, <1>3, <2>1, UpdateCaptures, CaptureIsResponse
<1>4. CASE stored = NoResponse
  <2>1. Update(stored, i) = Capture(tk, i, 0)
    BY <1>4, UpdateCaptures DEF tk
  <2>. QED  BY <1>1, <1>2, <1>4, <2>1, CaptureIsResponse DEF tk
<1>. QED  BY <1>3, <1>4 DEF Stored

(* It has no page.                                                         *)
LEMMA UpdateHasNoPage ==
    ASSUME NEW stored \in Stored, NEW i
    PROVE  ~Update(stored, i).url
<1>1. \A k, retry : ~Capture(k, i, retry).url
  BY DEF Capture
<1>. QED  BY <1>1, UpdateCaptures DEF Stored

(* The gateway starts well typed, with no goroutine at work.               *)
LEMMA InitIsTyped == Init => Typed
<1>. SUFFICES ASSUME Init PROVE Typed  OBVIOUS
<1>1. OrchTyped /\ unacked = {}
  BY OrchInitIsTyped DEF Init
<1>2. hooks \in [Hooks -> Hook] /\ \A h \in Hooks : hooks[h] = NoHook
  BY NoHookIsIdle DEF Init
<1>. QED  BY <1>1, <1>2, NoHookIsIdle DEF Typed, TypeOK, OrchTyped

(* A step of one goroutine that leaves it ready keeps them all typed.      *)
LEMMA HookIsTyped ==
    ASSUME Typed, NEW h \in Hooks, NEW x \in Hook, HookReady(x),
           hooks' = [hooks EXCEPT ![h] = x], ops' = ops
    PROVE  /\ hooks' \in [Hooks -> Hook]
           /\ \A g \in Hooks : HookReady(hooks[g])'
BY DEF Typed, TypeOK, HookReady

(* The buyer pays, or an acknowledgement is lost.                          *)
LEMMA ProviderStepsAreTyped ==
    ASSUME Typed, (\E p \in Payments : Pay(p)) \/ (\E i \in DOMAIN ops : Resend(i))
    PROVE  Typed'
<1>. USE DEF Typed
<1>1. ASSUME NEW p \in Payments, Pay(p) PROVE Typed'
  <2>1. /\ ops' \in Seq(Op)
        /\ DOMAIN ops' = DOMAIN ops \cup {Len(ops) + 1}
    BY <1>1, TransactionKeyIsKey, AppendOp DEF TypeOK, OrchTypeOK, Pay
  <2>2. RequestsAreReady' /\ \A h \in Hooks : HookReady(hooks[h])'
    BY <1>1, <2>1 DEF RequestsAreReady, HookReady, Pay
  <2>3. unacked' \subseteq DOMAIN ops'
    BY <1>1, <2>1 DEF TypeOK, Pay
  <2>. QED  BY <1>1, <2>1, <2>2, <2>3 DEF TypeOK, OrchTypeOK, Pay, storeVars
<1>2. ASSUME NEW i \in DOMAIN ops, Resend(i) PROVE Typed'
  <2>1. RequestsAreReady' /\ \A h \in Hooks : HookReady(hooks[h])'
    BY <1>2 DEF RequestsAreReady, HookReady, Resend
  <2>. QED  BY <1>2, <2>1, FaultIsTyped DEF TypeOK, OrchTypeOK, Resend, storeVars
<1>. QED  BY <1>1, <1>2

(* The record a goroutine looks up.                                        *)
LEMMA LookupIsStored ==
    ASSUME Typed, NEW h \in Hooks, HookAt(h, "load")
    PROVE  /\ hooks[h].op \in DOMAIN ops
           /\ byPaymentID[PaymentOfOp(hooks[h].op)] \in Stored
<1>1. hooks[h].op \in DOMAIN ops
  BY DEF Typed, HookReady, HookAt
<1>. QED  BY <1>1, TypedIsOrchTyped, OpHasPayment DEF OrchTypeOK

(* The steps of PayAnyWayWebhookHandler keep the types.                    *)
LEMMA HookStepsAreTyped ==
    ASSUME Typed, NEW h \in Hooks, HandleHook(h) \/ \E i \in unacked : ReceivePayURL(h, i)
    PROVE  Typed'
<1>. USE DEF Typed
<1>. OrchTypeOK
  BY DEF TypeOK
<1>0. hooks[h] \in Hook /\ HookReady(hooks[h])
  BY DEF TypeOK
<1>1. ASSUME NEW i \in unacked, ReceivePayURL(h, i) PROVE Typed'
  <2>. DEFINE x == [hooks[h] EXCEPT !.pc = "load", !.op = i]
  <2>1. i \in DOMAIN ops /\ i \in Nat
    BY OpHasPayment DEF TypeOK
  <2>2. hooks' = [hooks EXCEPT ![h] = x]
    BY <1>1 DEF ReceivePayURL
  <2>3. x \in Hook /\ HookReady(x)
    BY <1>0, <2>1 DEF HookReady, Hook
  <2>4. ops' = ops /\ RequestsAreReady'
    BY <1>1 DEF ReceivePayURL, orchVars, RequestsAreReady
  <2>. QED
    BY <1>1, <2>2, <2>3, <2>4, HookIsTyped DEF TypeOK, OrchTypeOK, ReceivePayURL, orchVars
<1>2. CASE LoadHook(h)
  <2>1. HookAt(h, "load")
    BY <1>2 DEF LoadHook
  <2>2. PICK stored \in Stored :
          hooks' = [hooks EXCEPT ![h].pc = "save", ![h].resp = Update(stored, hooks[h].op)]
    BY <1>2, <2>1, LookupIsStored, StoredResponses DEF LoadHook
  <2>. DEFINE resp == Update(stored, hooks[h].op)
              x == [hooks[h] EXCEPT !.pc = "save", !.resp = resp]
  <2>3. resp \in Response
    BY <2>1, LookupIsStored, UpdateIsResponse
  <2>4. hooks' = [hooks EXCEPT ![h] = x]
    BY <2>2
  <2>. HIDE DEF resp
  <2>5. x \in Hook /\ HookReady(x)
    BY <1>0, <2>1, <2>3, StoredResponses DEF HookReady, Hook, HookAt
  <2>6. faults' \in 0..MaxFaults
    BY <1>2, FaultIsTyped DEF LoadHook, OrchTypeOK
  <2>7. UNCHANGED <<byIdempotency, byPaymentID, saved, req, byPayment, sessions, ops, notices,
                    unacked>>
    BY <1>2 DEF LoadHook, storeVars
  <2>8. RequestsAreReady'
    BY <2>7 DEF RequestsAreReady
  <2>. QED  BY <2>4, <2>5, <2>6, <2>7, <2>8, HookIsTyped DEF TypeOK, OrchTypeOK
<1>3. CASE SaveHook(h)
  <2>1. hooks[h].resp \in Response /\ hooks[h].pc = "save"
    BY <1>0, <1>3 DEF SaveHook, HookAt, HookReady
  <2>. DEFINE x == [hooks[h] EXCEPT !.pc = "notify"]
  <2>2. x \in Hook /\ HookReady(x)
    BY <1>0, <2>1 DEF HookReady, Hook
  <2>3. \E y \in Hook : HookReady(y) /\ hooks' = [hooks EXCEPT ![h] = y]
    BY <1>3, <2>2, NoHookIsIdle DEF SaveHook
  <2>4. /\ byIdempotency' \in [Keys -> Stored]
        /\ byPaymentID' \in [Payments -> Stored]
        /\ saved' \in [Keys -> SUBSET Response]
        /\ faults' \in 0..MaxFaults
    BY <1>3, <2>1, SaveIsTyped, StoreErrorIsTyped DEF SaveHook, OrchTypeOK
  <2>5. UNCHANGED <<req, byPayment, sessions, ops, notices, unacked>>
    BY <1>3 DEF SaveHook
  <2>6. RequestsAreReady'
    BY <2>5 DEF RequestsAreReady
  <2>. QED  BY <2>3, <2>4, <2>5, <2>6, HookIsTyped DEF TypeOK, OrchTypeOK
<1>4. CASE NotifyHook(h)
  <2>1. notices' \subseteq Notice
    BY <1>0, <1>4, DeliverIsTyped DEF NotifyHook, HookAt, HookReady
  <2>2. RequestsAreReady'
    BY <1>4 DEF NotifyHook, RequestsAreReady
  <2>. QED
    BY <1>4, <2>1, <2>2, NoHookIsIdle, HookIsTyped DEF TypeOK, OrchTypeOK, NotifyHook, storeVars
<1>. QED  BY <1>1, <1>2, <1>3, <1>4 DEF HandleHook

(* A restart ends the goroutines of the handler.                           *)
LEMMA RestartGatewayIsTyped ==
    ASSUME Typed, RestartGateway
    PROVE  Typed'
<1>1. OrchTyped'
  BY TypedIsOrchTyped, RestartIsTyped DEF RestartGateway
<1>2. hooks' \in [Hooks -> Hook] /\ \A h \in Hooks : hooks'[h].pc = "idle"
  BY NoHookIsIdle DEF RestartGateway
<1>3. ops' = ops /\ unacked' = unacked
  BY DEF RestartGateway, Restart
<1>. QED  BY <1>1, <1>2, <1>3 DEF Typed, TypeOK, HookReady, OrchTyped

(* A step of a request leaves the goroutines of the handler ready.         *)
LEMMA OrchStepIsTyped ==
    ASSUME Typed, NEW r \in Requests, OrchStep(r) \/ \E k \in Keys : Arrive(r, k)
    PROVE  Typed'
<1>1. OrchTyped'
  BY TypedIsOrchTyped, CreatePaymentIsTyped, ReceiveIsTyped DEF OrchStep, Arrive
<1>2. DOMAIN ops \subseteq DOMAIN ops'
  <2>1. OpsGrow
    BY TypedIsOrchTyped, CreatePaymentMoves, ReceiveMoves, MovesGrow DEF OrchStep, Arrive
  <2>. QED  BY <2>1 DEF OpsGrow
<1>. QED
  BY <1>1, <1>2 DEF Typed, TypeOK, HookReady, OrchTyped, OrchStep, Arrive, hookVars

(* The typing invariant is inductive.                                      *)
LEMMA StepIsTyped == Typed /\ [Next]_vars => Typed'
<1>. SUFFICES ASSUME Typed, [Next]_vars PROVE Typed'  OBVIOUS
<1>1. CASE UNCHANGED vars
  BY <1>1 DEF vars, orchVars, hookVars, Typed, TypeOK, OrchTypeOK, HookReady, RequestsAreReady
<1>. QED
  BY <1>1, OrchStepIsTyped, ProviderStepsAreTyped, HookStepsAreTyped, RestartGatewayIsTyped
  DEF Next

(* Every state of the gateway is well typed and its goroutines are ready.  *)
LEMMA AlwaysTyped == Spec => []Typed
BY InitIsTyped, StepIsTyped, PTL DEF Spec

(* Every variable has its type, and PayAnyWay waits for the receipts of    *)
(* payments it took, in every state the gateway can be in.                 *)
THEOREM TypeCorrect == Spec => []TypeOK
<1>1. Typed => TypeOK
  BY DEF Typed
<1>. QED  BY <1>1, AlwaysTyped, PTL

-----------------------------------------------------------------------------
(* What a step of the gateway changes and leaves alone.                    *)

SameStore == UNCHANGED <<byIdempotency, byPaymentID, saved>>

Pays(p) ==
    /\ FormKnown(p)
    /\ ops' = Append(ops, Operation(TransactionKey[p], "succeeded"))
    /\ unacked' = unacked \cup {Len(ops) + 1}
    /\ SameStore /\ UNCHANGED <<req, faults, hooks>>

Reminds(i) ==
    /\ AdapterOf[ops[i].key] = "payanyway"
    /\ unacked' = unacked \cup {i}
    /\ faults' = faults + 1
    /\ SameStore /\ UNCHANGED <<req, ops, hooks>>

(* h goes on while the other goroutines of the handler stand still.        *)
HookPasses(h, from, to) ==
    /\ hooks[h].pc = from
    /\ hooks'[h].pc = to
    /\ \A g \in Hooks : g # h => hooks'[g] = hooks[g]
    /\ UNCHANGED <<req, ops>>

Takes(h, i) ==
    /\ HookPasses(h, "idle", "load")
    /\ i \in unacked
    /\ hooks'[h].op = i
    /\ hooks'[h].resp = hooks[h].resp
    /\ SameStore /\ UNCHANGED <<faults, unacked>>

Loads(h, stored) ==
    /\ HookPasses(h, "load", "save")
    /\ hooks'[h].op = hooks[h].op
    /\ hooks'[h].resp = Update(stored, hooks[h].op)
    /\ \/ stored = byPaymentID[PaymentOfOp(hooks[h].op)] /\ faults' = faults
       \/ stored = NoResponse /\ faults' = faults + 1
    /\ SameStore /\ UNCHANGED unacked

Files(h) ==
    /\ HookPasses(h, "save", "notify")
    /\ hooks'[h].op = hooks[h].op
    /\ hooks'[h].resp = hooks[h].resp
    /\ Save(hooks[h].resp)
    /\ UNCHANGED <<faults, unacked>>

Rejects(h) ==
    /\ HookPasses(h, "save", "idle")
    /\ hooks'[h] = NoHook
    /\ faults' = faults + 1
    /\ SameStore /\ UNCHANGED unacked

Acknowledges(h) ==
    /\ HookPasses(h, "notify", "idle")
    /\ hooks'[h] = NoHook
    /\ unacked' = unacked \ {hooks[h].op}
    /\ SameStore /\ UNCHANGED faults

Halts ==
    /\ Stops
    /\ \A h \in Hooks : hooks'[h] = NoHook
    /\ UNCHANGED unacked

HookMoves(h) ==
    \/ \E i \in unacked : Takes(h, i)
    \/ \E stored \in Stored : Loads(h, stored)
    \/ Files(h) \/ Rejects(h) \/ Acknowledges(h)

(* A request moves or arrives.                                             *)
Proceeds(r) == (Moves(r) \/ Arrives(r)) /\ UNCHANGED hookVars

Rests == SameStore /\ UNCHANGED <<req, ops, faults, hooks, unacked>>

Step ==
    \/ \E r \in Requests : Proceeds(r)
    \/ \E p \in Payments : Pays(p)
    \/ \E i \in DOMAIN ops : Reminds(i)
    \/ \E h \in Hooks : HookMoves(h)
    \/ Halts
    \/ Rests

(* What a goroutine of the handler does.                                   *)
LEMMA HandleHookMoves ==
    ASSUME Typed, NEW h \in Hooks, HandleHook(h) \/ \E i \in unacked : ReceivePayURL(h, i)
    PROVE  HookMoves(h)
<1>. hooks \in [Hooks -> Hook] /\ hooks[h] \in Hook /\ NoHook.pc = "idle"
  BY DEF Typed, TypeOK, NoHook
<1>. USE DEF HookPasses, SameStore, storeVars, HookAt
<1>1. ASSUME NEW i \in unacked, ReceivePayURL(h, i) PROVE Takes(h, i)
  BY <1>1 DEF ReceivePayURL, Takes, Hook, orchVars
<1>2. CASE LoadHook(h)
  <2>1. byPaymentID[PaymentOfOp(hooks[h].op)] \in Stored
    BY <1>2, LookupIsStored DEF LoadHook
  <2>2. PICK stored \in Stored :
          /\ hooks' = [hooks EXCEPT ![h].pc = "save", ![h].resp = Update(stored, hooks[h].op)]
          /\ \/ stored = byPaymentID[PaymentOfOp(hooks[h].op)] /\ faults' = faults
             \/ stored = NoResponse /\ faults' = faults + 1
    BY <1>2, <2>1, StoredResponses DEF LoadHook, Fault
  <2>. DEFINE resp == Update(stored, hooks[h].op)
  <2>3. hooks' = [hooks EXCEPT ![h].pc = "save", ![h].resp = resp]
    BY <2>2
  <2>. HIDE DEF resp
  <2>4. /\ hooks'[h].pc = "save" /\ hooks'[h].resp = resp /\ hooks'[h].op = hooks[h].op
        /\ \A g \in Hooks : g # h => hooks'[g] = hooks[g]
    BY <2>3 DEF Hook
  <2>5. resp = Update(stored, hooks[h].op)
    BY DEF resp
  <2>6. Loads(h, stored)
    BY <1>2, <2>2, <2>4, <2>5 DEF LoadHook, Loads
  <2>. QED  BY <2>6 DEF HookMoves
<1>3. CASE SaveHook(h)
  <2>1. CASE Save(hooks[h].resp) /\ hooks' = [hooks EXCEPT ![h].pc = "notify"] /\ UNCHANGED faults
    <3>1. /\ hooks'[h].pc = "notify" /\ hooks'[h].resp = hooks[h].resp
          /\ hooks'[h].op = hooks[h].op
          /\ \A g \in Hooks : g # h => hooks'[g] = hooks[g]
      BY <2>1 DEF Hook
    <3>. QED  BY <1>3, <2>1, <3>1 DEF SaveHook, Files, HookMoves
  <2>2. CASE StoreError /\ hooks' = [hooks EXCEPT ![h] = NoHook]
    BY <1>3, <2>2 DEF SaveHook, StoreError, Fault, Rejects, HookMoves
  <2>. QED  BY <1>3, <2>1, <2>2 DEF SaveHook
<1>4. CASE NotifyHook(h)
  BY <1>4 DEF NotifyHook, Acknowledges, HookMoves
<1>. QED  BY <1>1, <1>2, <1>3, <1>4 DEF HandleHook, HookMoves

(* Every step of the gateway is one of these.                              *)
LEMMA NextMoves == Typed /\ [Next]_vars => Step
<1>. SUFFICES ASSUME Typed, [Next]_vars PROVE Step  OBVIOUS
<1>1. ASSUME NEW r \in Requests, OrchStep(r) \/ \E k \in Keys : Arrive(r, k) PROVE Step
  <2>1. Proceeds(r)
    BY <1>1, TypedIsOrchTyped, CreatePaymentMoves, ReceiveMoves DEF OrchStep, Arrive, Proceeds
  <2>. QED  BY <2>1 DEF Step
<1>2. ASSUME NEW p \in Payments, Pay(p) PROVE Step
  BY <1>2 DEF Pay, Pays, SameStore, storeVars, Step
<1>3. ASSUME NEW i \in DOMAIN ops, Resend(i) PROVE Step
  BY <1>3 DEF Resend, Fault, Reminds, SameStore, storeVars, Step
<1>4. ASSUME NEW h \in Hooks, HandleHook(h) \/ \E i \in unacked : ReceivePayURL(h, i) PROVE Step
  BY <1>4, HandleHookMoves DEF Step
<1>5. CASE RestartGateway
  <2>1. Halts
    BY <1>5, TypedIsOrchTyped, RestartStops DEF RestartGateway, Halts
  <2>. QED  BY <2>1 DEF Step
<1>6. CASE UNCHANGED vars
  BY <1>6 DEF Step, Rests, SameStore, vars, orchVars, hookVars
<1>. QED  BY <1>1, <1>2, <1>3, <1>4, <1>5, <1>6 DEF Next

-----------------------------------------------------------------------------
(* The books of PayAnyWay.                                                 *)

(* PayAnyWay took payment i.                                               *)
Taken(i) ==
    /\ i \in DOMAIN ops
    /\ AdapterOf[ops[i].key] = "payanyway"
    /\ ops[i].status = "succeeded"

(* A step adds an operation, of PayAnyWay's only when the buyer pays.      *)
LEMMA StepBooks ==
    ASSUME Typed, Step
    PROVE  /\ OpsGrow
           /\ \A i \in DOMAIN ops' : i \in DOMAIN ops \/ AdapterOf[ops'[i].key] # "payanyway"
                  \/ \E p \in Payments :
                        /\ Pays(p) /\ i = Len(ops) + 1
                        /\ ops'[i] = Operation(TransactionKey[p], "succeeded")
<1>. OrchTyped /\ OrchTypeOK /\ ops \in Seq(Op)
  BY TypedIsOrchTyped DEF OrchTypeOK
<1>1. CASE ops' = ops
  BY <1>1, OpenOrSettleGrows
<1>2. ASSUME NEW p \in Payments, Pays(p)
      PROVE  /\ OpsGrow
             /\ \A i \in DOMAIN ops' : i \in DOMAIN ops
                  \/ (i = Len(ops) + 1 /\ ops'[i] = Operation(TransactionKey[p], "succeeded"))
  BY <1>2, TransactionKeyIsKey, AppendOp DEF Pays, OpsGrow
<1>3. ASSUME NEW r \in Requests, Proceeds(r), ops' # ops
      PROVE  /\ OpsGrow
             /\ \A i \in DOMAIN ops' : i \in DOMAIN ops \/ AdapterOf[ops'[i].key] # "payanyway"
  <2>1. OpsGrow
    BY <1>3, MovesGrow DEF Proceeds
  <2>2. PICK status \in {"pending", "succeeded"} :
          /\ Sends(r) /\ ops' = Append(ops, Operation(ValidatedKey(r), status))
          /\ AdapterOf[ValidatedKey(r)] # "payanyway"
    BY <1>3 DEF Proceeds, Moves, Calls, Arrives, Unheard, Replays, Starts, Prepares, Refuses,
                Opens, OpensElsewhere, Misses, Links, Repeats, Loses, Retries, Concludes,
                Notifies, Stores, Misfires
  <2>3. ValidatedKey(r) \in Keys
    BY <2>2, RequestIsTyped DEF Sends, Passes
  <2>4. \A i \in DOMAIN ops' : i \in DOMAIN ops \/ ops'[i] = Operation(ValidatedKey(r), status)
    BY <2>2, <2>3, AppendOp
  <2>. QED  BY <2>1, <2>2, <2>4 DEF Operation
<1>4. \/ \E r \in Requests : Proceeds(r)
      \/ \E p \in Payments : Pays(p)
      \/ ops' = ops
  BY DEF Step, Reminds, HookMoves, HookPasses, Takes, Loads, Files, Rejects, Acknowledges,
         Halts, Stops, Rests
<1>. QED  BY <1>1, <1>2, <1>3, <1>4

(* What PayAnyWay took it does not give back.                              *)
LEMMA TakenStays ==
    ASSUME OpsGrow, NEW i, Taken(i)
    PROVE  Taken(i)' /\ ops'[i].key = ops[i].key
BY DEF OpsGrow, Taken

(* PayAnyWay sends a Pay URL only of a payment it took, and a goroutine    *)
(* stores a capture of the payment the URL is about, which has no page.    *)
HookKnows(x) ==
    /\ x.pc # "idle" => Taken(x.op)
    /\ x.pc \in {"save", "notify"} =>
          /\ x.resp.status = "CAPTURED"
          /\ x.resp.ext = x.op
          /\ ~x.resp.url
          /\ PaymentOf[x.resp.key] = PaymentOfOp(x.op)

BooksKnown ==
    /\ \A i \in DOMAIN ops : AdapterOf[ops[i].key] = "payanyway" => Taken(i)
    /\ \A i \in unacked : Taken(i)
    /\ \A h \in Hooks : HookKnows(hooks[h])

(* What a goroutine knows stays true.                                      *)
LEMMA HookKnowsOn ==
    ASSUME OpsGrow, NEW x, HookKnows(x)
    PROVE  HookKnows(x)'
BY TakenStays DEF HookKnows, PaymentOfOp

(* A goroutine that ended knows nothing.                                   *)
LEMMA NoHookKnows == HookKnows(NoHook)
BY NoHookIsIdle DEF HookKnows

(* The two views of the store go on agreeing: the goroutines of the        *)
(* handler write it by Save alone.                                         *)
LEMMA ShelvedStep == Typed /\ Shelved /\ Step => Shelved'
<1>. SUFFICES ASSUME Typed, Shelved, Step PROVE Shelved'  OBVIOUS
<1>. OrchTyped /\ OrchTypeOK
  BY TypedIsOrchTyped
<1>1. ASSUME NEW r \in Requests, Proceeds(r) PROVE Shelved'
  BY <1>1, MovesShelve DEF Proceeds
<1>2. CASE Halts
  BY <1>2, RestartShelves DEF Halts
<1>3. CASE SameStore
  BY <1>3 DEF SameStore, Shelved
<1>4. ASSUME NEW h \in Hooks, Files(h) PROVE Shelved'
  <2>1. hooks[h].resp \in Response
    BY <1>4 DEF Files, HookPasses, Typed, HookReady
  <2>. QED  BY <1>4, <2>1, SaveShelves DEF Files
<1>. QED
  BY <1>1, <1>2, <1>3, <1>4 DEF Step, Pays, Reminds, HookMoves, Takes, Loads, Rejects,
                                Acknowledges, Rests

(* Both views of the store are one, as the in-memory store's two maps and  *)
(* the one table of the Postgres store are.                                *)
LEMMA AlwaysShelved == Spec => []Shelved
<1>1. Init => Shelved
  BY InitIsShelved DEF Init
<1>. QED  BY <1>1, AlwaysTyped, NextMoves, ShelvedStep, PTL DEF Spec

(* The record a goroutine finds is of the payment it looks for, and so is  *)
(* what it makes of it.                                                    *)
LEMMA LoadsKnowingly ==
    ASSUME Typed, Shelved, BooksKnown, NEW h \in Hooks, NEW stored \in Stored, Loads(h, stored)
    PROVE  /\ HookKnows(hooks'[h])
           /\ hooks'[h].resp \in Response
           /\ stored = NoResponse
                 => hooks'[h].resp.key = TransactionKey[PaymentOfOp(hooks[h].op)]
           /\ stored # NoResponse =>
                 /\ stored = byPaymentID[PaymentOfOp(hooks[h].op)]
                 /\ hooks'[h].resp.key = stored.key
                 /\ Found(stored)
<1>. DEFINE i == hooks[h].op
            p == PaymentOfOp(i)
<1>1. Taken(i) /\ i \in DOMAIN ops
  BY DEF Loads, HookPasses, BooksKnown, HookKnows, Taken
<1>2. p \in Payments
  BY <1>1, TypedIsOrchTyped, OpHasPayment
<1>3. /\ hooks'[h].pc = "save" /\ hooks'[h].op = i
      /\ hooks'[h].resp = Update(stored, i)
  BY DEF Loads, HookPasses
<1>4. hooks'[h].resp \in Response /\ hooks'[h].resp.status = "CAPTURED" /\ hooks'[h].resp.ext = i
  BY <1>1, <1>3, TypedIsOrchTyped, UpdateIsResponse
<1>0. ~hooks'[h].resp.url
  BY <1>3, UpdateHasNoPage
<1>5. CASE stored = NoResponse
  <2>1. hooks'[h].resp.key = TransactionKey[p]
    BY <1>1, <1>3, <1>5, TypedIsOrchTyped, UpdateIsResponse
  <2>2. PaymentOf[hooks'[h].resp.key] = p
    BY <1>2, <2>1, TransactionKeyIsKey
  <2>. QED  BY <1>0, <1>1, <1>3, <1>4, <1>5, <2>1, <2>2 DEF HookKnows
<1>6. CASE stored # NoResponse
  <2>1. stored \in Response /\ stored = byPaymentID[p]
    BY <1>6 DEF Stored, Loads
  <2>2. Found(stored)
    BY <2>1 DEF Found, Response, Statuses
  <2>3. PaymentOf[stored.key] = p
    BY <1>2, <2>1, <2>2 DEF Shelved
  <2>4. hooks'[h].resp.key = stored.key
    BY <1>1, <1>3, <2>1, TypedIsOrchTyped, UpdateIsResponse
  <2>. QED  BY <1>0, <1>1, <1>3, <1>4, <1>6, <2>1, <2>2, <2>3, <2>4 DEF HookKnows
<1>. QED  BY <1>5, <1>6

(* The knowledge of the books is inductive.                                *)
LEMMA BooksStep == Typed /\ Shelved /\ BooksKnown /\ Step => BooksKnown'
<1>. SUFFICES ASSUME Typed, Shelved, BooksKnown, Step PROVE BooksKnown'  OBVIOUS
<1>. OpsGrow /\ ops \in Seq(Op)
  BY StepBooks, TypedIsOrchTyped DEF OrchTypeOK
<1>1. ASSUME NEW i \in DOMAIN ops', AdapterOf[ops'[i].key] = "payanyway" PROVE Taken(i)'
  <2>1. CASE i \in DOMAIN ops
    BY <1>1, <2>1, TakenStays DEF BooksKnown, OpsGrow
  <2>2. CASE i \notin DOMAIN ops
    <3>1. PICK p \in Payments : ops'[i] = Operation(TransactionKey[p], "succeeded")
      BY <1>1, <2>2, StepBooks
    <3>. QED  BY <1>1, <3>1 DEF Operation, Taken
  <2>. QED  BY <2>1, <2>2
<1>2. ASSUME NEW i \in unacked' PROVE Taken(i)'
  <2>1. CASE Taken(i)
    BY <2>1, TakenStays
  <2>2. ASSUME NEW p \in Payments, Pays(p), i = Len(ops) + 1 PROVE Taken(i)'
    <3>1. i \in DOMAIN ops' /\ ops'[i] = Operation(TransactionKey[p], "succeeded")
      BY <2>2, TransactionKeyIsKey, AppendOp DEF Pays
    <3>2. AdapterOf[TransactionKey[p]] = "payanyway"
      BY TransactionKeyIsKey
    <3>. QED  BY <3>1, <3>2 DEF Operation, Taken
  <2>. QED
    BY <2>1, <2>2 DEF BooksKnown, Step, Proceeds, hookVars, Pays, Reminds, HookMoves, HookPasses,
                      Takes, Loads, Files, Rejects, Acknowledges, Halts, Rests
<1>3. ASSUME NEW h \in Hooks, NEW x, x = hooks'[h] PROVE HookKnows(x)'
  <2>1. CASE hooks'[h] = hooks[h]
    BY <1>3, <2>1, HookKnowsOn DEF BooksKnown
  <2>2. CASE hooks'[h] = NoHook
    BY <1>3, <2>2, NoHookKnows, HookKnowsOn
  <2>3. ASSUME NEW i \in unacked, Takes(h, i) PROVE HookKnows(x)'
    <3>1. HookKnows(x)
      BY <1>3, <2>3 DEF Takes, HookPasses, BooksKnown, HookKnows
    <3>. QED  BY <3>1, HookKnowsOn
  <2>4. ASSUME NEW stored \in Stored, Loads(h, stored) PROVE HookKnows(x)'
    BY <1>3, <2>4, LoadsKnowingly, HookKnowsOn
  <2>5. CASE Files(h)
    <3>1. HookKnows(x)
      BY <1>3, <2>5 DEF Files, HookPasses, BooksKnown, HookKnows
    <3>. QED  BY <3>1, HookKnowsOn
  <2>. QED
    BY <2>1, <2>2, <2>3, <2>4, <2>5
    DEF Step, Proceeds, hookVars, Pays, Reminds, HookMoves, HookPasses, Takes, Loads, Files,
        Rejects, Acknowledges, Halts, Rests
<1>4. \A h \in Hooks : HookKnows(hooks[h])'
  BY <1>3
<1>. QED  BY <1>1, <1>2, <1>4 DEF BooksKnown

(* So it holds in every state.                                             *)
LEMMA AlwaysBooksKnown == Spec => []BooksKnown
<1>1. Init => BooksKnown
  <2>1. DOMAIN << >> = {}
    BY EmptySeq
  <2>. QED  BY <2>1, NoHookKnows DEF Init, OrchInit, BooksKnown
<1>. QED  BY <1>1, AlwaysTyped, AlwaysShelved, NextMoves, BooksStep, PTL DEF Spec

-----------------------------------------------------------------------------
(* What says CAPTURED was paid.                                            *)

(* Every response there is, stored or under way, tells the truth.          *)
AllPaid == \A x : Held(x) => Paid(x)

(* What was paid stays paid.                                               *)
LEMMA PaidStays ==
    ASSUME OpsGrow, NEW x, Paid(x)
    PROVE  Paid(x)'
BY DEF OpsGrow, Paid, PaymentOfOp

(* The absence of a response claims nothing.                               *)
LEMMA NoResponseIsPaid == Paid(NoResponse)
BY DEF Paid, NoResponse

(* The goroutines of the handler make no response held but the one they    *)
(* store.                                                                  *)
LEMMA StepHolds ==
    ASSUME Typed, Step, NEW x, Held(x)'
    PROVE  \/ Held(x) \/ x = NoResponse
           \/ \E r \in Requests :
                 /\ x = req'[r].resp
                 /\ Refuses(r) \/ Calls(r) \/ Loses(r) \/ Concludes(r)
           \/ \E h \in Hooks : hooks[h].pc = "save" /\ x = hooks[h].resp
<1>. OrchTyped /\ OrchTypeOK
  BY TypedIsOrchTyped
<1>1. ASSUME NEW r \in Requests, Proceeds(r)
      PROVE  \/ Held(x)
             \/ x = req'[r].resp /\ (Refuses(r) \/ Calls(r) \/ Loses(r) \/ Concludes(r))
  BY <1>1, MovesMake DEF Proceeds
<1>2. CASE Halts
  BY <1>2, RestartMakesNone DEF Halts
<1>3. CASE SameStore /\ req' = req
  BY <1>3 DEF Held, SameStore
<1>4. ASSUME NEW h \in Hooks, Files(h) PROVE Held(x) \/ (hooks[h].pc = "save" /\ x = hooks[h].resp)
  <2>1. hooks[h].resp \in Response /\ hooks[h].pc = "save" /\ req' = req
    BY <1>4 DEF Files, HookPasses, Typed, HookReady
  <2>2. \A k \in Keys : /\ byIdempotency'[k] \in {byIdempotency[k], hooks[h].resp}
                        /\ saved'[k] \subseteq saved[k] \cup {hooks[h].resp}
    BY <1>4, <2>1, SaveHolds DEF Files
  <2>3. \A p \in Payments : byPaymentID'[p] \in {byPaymentID[p], hooks[h].resp}
    BY <1>4, <2>1, SaveHolds DEF Files
  <2>. QED  BY <2>1, <2>2, <2>3 DEF Held
<1>. QED
  BY <1>1, <1>2, <1>3, <1>4 DEF Step, Pays, Reminds, HookMoves, HookPasses, Takes, Loads, Rejects,
                                Acknowledges, Rests

(* A new response tells the truth as well: an adapter's capture names the  *)
(* operation that succeeded, a Pay URL's the one the buyer paid.           *)
LEMMA AllPaidStep == Typed /\ BooksKnown /\ AllPaid /\ Step => AllPaid'
<1>. SUFFICES ASSUME Typed, BooksKnown, AllPaid, Step, NEW x, Held(x)'
              PROVE  Paid(x)'
  BY DEF AllPaid
<1>. OpsGrow /\ OrchTyped
  BY StepBooks, TypedIsOrchTyped
<1>1. CASE Held(x) \/ x = NoResponse
  BY <1>1, PaidStays, NoResponseIsPaid DEF AllPaid
<1>2. ASSUME NEW r \in Requests, x = req'[r].resp, Refuses(r) \/ Calls(r) \/ Loses(r)
      PROVE  Paid(x)'
  <2>1. Honest(x)'
    BY <1>2, AnswersAreHonest, FailuresAreHonest
  <2>. QED  BY <2>1 DEF Honest, Paid, PaymentOfOp
<1>3. ASSUME NEW r \in Requests, x = req'[r].resp, Concludes(r) PROVE Paid(x)'
  <2>1. /\ x.key = req[r].resp.key /\ x.ext = req[r].resp.ext
        /\ x.status = HandleCallbackStatus(req[r].resp.status)
    BY <1>3, ConcludesAsAnswered
  <2>2. x.status = "CAPTURED" => req[r].resp.status = "CAPTURED"
    BY <2>1, HandleCallbackIsStatus
  <2>3. Paid(req[r].resp)
    BY DEF AllPaid, Held
  <2>4. Paid(x)
    BY <2>1, <2>2, <2>3 DEF Paid
  <2>. QED  BY <2>4, PaidStays
<1>4. ASSUME NEW h \in Hooks, hooks[h].pc = "save", x = hooks[h].resp PROVE Paid(x)'
  <2>1. Paid(x)
    BY <1>4 DEF BooksKnown, HookKnows, Taken, Paid
  <2>. QED  BY <2>1, PaidStays
<1>. QED  BY <1>1, <1>2, <1>3, <1>4, StepHolds

(* At first there is no response.                                          *)
LEMMA InitAllPaid == Init => AllPaid
<1>1. Idle.resp = NoResponse
  BY DEF Idle
<1>. QED  BY <1>1, NoResponseIsPaid DEF Init, OrchInit, AllPaid, Held

(* No response is ever held that says CAPTURED of what nobody paid.        *)
LEMMA AlwaysAllPaid == Spec => []AllPaid
BY InitAllPaid, AlwaysTyped, AlwaysBooksKnown, NextMoves, AllPaidStep, PTL DEF Spec

(* No record and no answer says CAPTURED of a payment nobody paid, in      *)
(* whatever order its requests, its Pay URLs, failed lookups and restarts  *)
(* come: ServeHTTP captures whatever record it finds, and the record is    *)
(* always one of the payment the Pay URL is about.                         *)
THEOREM CapturesArePaid == Spec => []CapturedIsPaid
<1>1. AllPaid => CapturedIsPaid
  BY DEF AllPaid, Held, CapturedIsPaid
<1>. QED  BY <1>1, AlwaysAllPaid, PTL

-----------------------------------------------------------------------------
(* Who was sent to the payment form.                                       *)

(* A step moves one request at most, and a request that was answered stays *)
(* as it is.                                                               *)
LEMMA RequestsGoOn ==
    ASSUME Typed, Step, NEW r \in Requests
    PROVE  /\ req[r].pc = "replied" =>
                  req'[r].pc = "replied" /\ req'[r].key = req[r].key /\ SameAnswer(r)
           /\ req[r].pc # "idle" => req'[r].pc # "idle" /\ req'[r].key = req[r].key
           /\ req'[r].pc = "replied" /\ req[r].pc # "replied" => Stores(r) \/ Misfires(r)
<1>1. ASSUME NEW q \in Requests, Proceeds(q), q # r PROVE req'[r] = req[r]
  BY <1>1 DEF Proceeds, Moves, Calls, Arrives, Replays, Starts, Prepares, Refuses, Opens,
              OpensElsewhere, Sends, Misses, Links, Repeats, Loses, Retries, Concludes, Notifies,
              Stores, Misfires, Passes
<1>2. CASE Proceeds(r)
  BY <1>2 DEF Proceeds, Moves, Calls, Arrives, Replays, Starts, Prepares, Refuses, Opens,
              OpensElsewhere, Sends, Misses, Links, Repeats, Loses, Retries, Concludes, Notifies,
              Stores, Misfires, Passes, SameAnswer
<1>3. CASE Halts
  BY <1>3 DEF Halts, Stops, Ended, SameAnswer
<1>4. CASE req' = req
  BY <1>4 DEF SameAnswer
<1>5. CASE req'[r] = req[r]
  BY <1>5 DEF SameAnswer
<1>. QED
  BY <1>1, <1>2, <1>3, <1>4, <1>5 DEF Step, Pays, Reminds, HookMoves, HookPasses, Takes, Loads,
                                      Files, Rejects, Acknowledges, Rests

(* What the requests store is of their own keys.                           *)
LEMMA OwnKeysStep == Typed /\ OwnKeys /\ Step => OwnKeys'
<1>. SUFFICES ASSUME Typed, OwnKeys, Step PROVE OwnKeys'  OBVIOUS
<1>. OrchTyped
  BY TypedIsOrchTyped
<1>1. ASSUME NEW r \in Requests, Proceeds(r) PROVE OwnKeys'
  BY <1>1, MovesKeepKeys DEF Proceeds
<1>2. CASE Halts
  BY <1>2, RestartKeepsKeys DEF Halts
<1>3. CASE req' = req
  BY <1>3 DEF OwnKeys
<1>. QED
  BY <1>1, <1>2, <1>3 DEF Step, Pays, Reminds, HookMoves, HookPasses, Takes, Loads, Files, Rejects,
                          Acknowledges, Rests

(* A request stores nothing under a key of another one.                    *)
LEMMA AlwaysOwnKeys == Spec => []OwnKeys
<1>1. Init => OwnKeys
  BY InitHasKeys DEF Init
<1>. QED  BY <1>1, AlwaysTyped, NextMoves, OwnKeysStep, PTL DEF Spec

(* A link in the store or in a replayed answer was made by a request that  *)
(* was answered with it.                                                   *)
LEMMA PagesStep == Typed /\ BooksKnown /\ OwnKeys' /\ Pages /\ Step => Pages'
<1>. SUFFICES ASSUME Typed, BooksKnown, OwnKeys', Pages, Step PROVE Pages'  OBVIOUS
<1>. OrchTyped /\ OrchTypeOK
  BY TypedIsOrchTyped
<1>1. ASSUME NEW r \in Requests, Proceeds(r) PROVE Pages'
  BY <1>1, MovesKeepPages DEF Proceeds
<1>2. CASE Halts
  BY <1>2, RestartKeepsPages DEF Halts
<1>3. CASE SameStore /\ req' = req
  <2>1. AnsweredKeys' = AnsweredKeys
    BY <1>3 DEF AnsweredKeys, Answered, At, ValidatedKey
  <2>. QED  BY <1>3, <2>1 DEF SameStore, Pages
<1>4. ASSUME NEW h \in Hooks, Files(h) PROVE Pages'
  <2>1. req' = req /\ AnsweredKeys' = AnsweredKeys
    BY <1>4 DEF Files, HookPasses, AnsweredKeys, Answered, At, ValidatedKey
  <2>2. hooks[h].resp \in Response /\ ~hooks[h].resp.url
    BY <1>4 DEF Files, HookPasses, Typed, HookReady, BooksKnown, HookKnows
  <2>3. \A k \in Keys : byIdempotency'[k] \in {byIdempotency[k], hooks[h].resp}
    BY <1>4, <2>2, SaveHolds DEF Files
  <2>. QED  BY <2>1, <2>2, <2>3 DEF Pages
<1>. QED
  BY <1>1, <1>2, <1>3, <1>4 DEF Step, Pays, Reminds, HookMoves, HookPasses, Takes, Loads, Rejects,
                                Acknowledges, Rests

(* So it is in every state.                                                *)
LEMMA AlwaysPages == Spec => []Pages
<1>1. Init => Pages
  BY InitHasNoPages DEF Init
<1>. QED  BY <1>1, AlwaysTyped, AlwaysBooksKnown, AlwaysOwnKeys, NextMoves, PagesStep, PTL DEF Spec

(* r was answered with what it made itself of payment p, ...               *)
Payer(r, p) == Answered(r) /\ PaymentOf[req[r].resp.key] = p

(* ... as a request was for each payment PayAnyWay took.                   *)
PayersKnown == \A i \in DOMAIN ops : Taken(i) => \E r \in Requests : Payer(r, PaymentOfOp(i))

(* The one who was answered remains it.                                    *)
LEMMA PayerStays ==
    ASSUME Typed, Step, NEW r \in Requests, NEW p, Payer(r, p)
    PROVE  Payer(r, p)'
BY RequestsGoOn DEF Payer, Answered, At, SameAnswer, ValidatedKey

(* The form is known from a response that names its payment.               *)
LEMMA FormHasPayer ==
    ASSUME Typed, Pages, NEW p \in Payments, FormKnown(p)
    PROVE  \E r \in Requests : Payer(r, p)
<1>1. PICK r \in Requests : /\ req[r].pc \in {"replied", "replayed"} /\ req[r].resp.url
                            /\ PaymentOf[req[r].resp.key] = p
  BY DEF FormKnown, Received
<1>2. CASE req[r].pc = "replied"
  <2>1. req[r].resp.key = ValidatedKey(r)
    BY <1>1, <1>2 DEF Pages, PageIsOwn, ValidatedKey
  <2>. QED  BY <1>1, <1>2, <2>1 DEF Payer, Answered, At
<1>3. CASE req[r].pc = "replayed"
  <2>1. req[r].resp.key \in AnsweredKeys
    BY <1>1, <1>3 DEF Pages
  <2>. QED  BY <1>1, <2>1 DEF AnsweredKeys, Answered, Payer
<1>. QED  BY <1>1, <1>2, <1>3

(* So whoever pays was sent by a request.                                  *)
LEMMA PayersStep == Typed /\ BooksKnown /\ Pages /\ PayersKnown /\ Step => PayersKnown'
<1>. SUFFICES ASSUME Typed, BooksKnown, Pages, PayersKnown, Step, NEW i \in DOMAIN ops', Taken(i)'
              PROVE  (\E r \in Requests : Payer(r, PaymentOfOp(i)))'
  BY DEF PayersKnown
<1>. OpsGrow
  BY StepBooks
<1>1. CASE i \in DOMAIN ops
  <2>1. Taken(i) /\ PaymentOfOp(i)' = PaymentOfOp(i)
    BY <1>1 DEF OpsGrow, BooksKnown, Taken, PaymentOfOp
  <2>2. PICK r \in Requests : Payer(r, PaymentOfOp(i))
    BY <1>1, <2>1 DEF PayersKnown
  <2>3. \A p : Payer(r, p) => Payer(r, p)'
    BY PayerStays
  <2>. QED  BY <2>1, <2>2, <2>3 DEF Payer
<1>2. CASE i \notin DOMAIN ops
  <2>1. PICK p \in Payments : Pays(p) /\ ops'[i] = Operation(TransactionKey[p], "succeeded")
    BY <1>2, StepBooks DEF Taken
  <2>2. PaymentOfOp(i)' = p
    BY <2>1, TransactionKeyIsKey DEF PaymentOfOp, Operation
  <2>3. PICK r \in Requests : Payer(r, p)
    BY <2>1, FormHasPayer DEF Pays
  <2>4. Payer(r, p)'
    BY <2>3, PayerStays
  <2>. QED  BY <2>2, <2>4 DEF Payer
<1>. QED  BY <1>1, <1>2

(* Nobody pays a payment no merchant was given a link to.                  *)
LEMMA AlwaysPayersKnown == Spec => []PayersKnown
<1>1. Init => PayersKnown
  <2>1. DOMAIN << >> = {}
    BY EmptySeq
  <2>. QED  BY <2>1 DEF Init, OrchInit, PayersKnown
<1>. QED  BY <1>1, AlwaysTyped, AlwaysBooksKnown, AlwaysPages, NextMoves, PayersStep, PTL DEF Spec

-----------------------------------------------------------------------------
(* The record of what was paid.                                            *)

(* r has found no record of p, and has ended.                              *)
RepliedFor(r, p) ==
    req[r].pc = "replied" /\ p \in {PaymentOf[req[r].key], PaymentOf[ValidatedKey(r)]}

(* No two requests have.                                                   *)
Alone(p) == \A q, r \in Requests : RepliedFor(q, p) /\ RepliedFor(r, p) => q = r

(* Two who were answered remain two.                                       *)
LEMMA AloneWas ==
    ASSUME Typed, Step, NEW p, Alone(p)'
    PROVE  Alone(p)
BY RequestsGoOn DEF Alone, RepliedFor, ValidatedKey

(* Whoever writes the record of a payment is a request of it that is then  *)
(* answered, or a goroutine of the handler.                                *)
LEMMA StepWrites ==
    ASSUME Typed, Step
    PROVE  \/ UNCHANGED <<byIdempotency, byPaymentID>>
           \/ Halts /\ ~Durable
           \/ \E r \in Requests :
                 /\ Stores(r) /\ req[r].resp \in Response /\ UNCHANGED hooks
                 /\ \A k \in Keys : byIdempotency'[k] =
                       IF k = req[r].resp.key THEN req[r].resp ELSE byIdempotency[k]
                 /\ \A p \in Payments : byPaymentID'[p] =
                       IF p = PaymentOf[req[r].resp.key] THEN req[r].resp ELSE byPaymentID[p]
           \/ \E h \in Hooks :
                 /\ Files(h) /\ hooks[h].resp \in Response
                 /\ \A k \in Keys : byIdempotency'[k] =
                       IF k = hooks[h].resp.key THEN hooks[h].resp ELSE byIdempotency[k]
                 /\ \A p \in Payments : byPaymentID'[p] =
                       IF p = PaymentOf[hooks[h].resp.key] THEN hooks[h].resp ELSE byPaymentID[p]
<1>. OrchTyped /\ OrchTypeOK
  BY TypedIsOrchTyped
<1>1. ASSUME NEW r \in Requests, Proceeds(r)
      PROVE  \/ UNCHANGED <<byIdempotency, byPaymentID>>
             \/ /\ Stores(r) /\ req[r].resp \in Response /\ UNCHANGED hooks
                /\ \A k \in Keys : byIdempotency'[k] =
                      IF k = req[r].resp.key THEN req[r].resp ELSE byIdempotency[k]
                /\ \A p \in Payments : byPaymentID'[p] =
                      IF p = PaymentOf[req[r].resp.key] THEN req[r].resp ELSE byPaymentID[p]
  <2>1. CASE Stores(r) /\ req[r].resp \in Response
    BY <1>1, <2>1, SaveHolds DEF Stores, Proceeds, hookVars
  <2>. QED  BY <1>1, <2>1, MovesFile DEF Proceeds
<1>2. ASSUME NEW h \in Hooks, Files(h)
      PROVE  /\ hooks[h].resp \in Response
             /\ \A k \in Keys : byIdempotency'[k] =
                   IF k = hooks[h].resp.key THEN hooks[h].resp ELSE byIdempotency[k]
             /\ \A p \in Payments : byPaymentID'[p] =
                   IF p = PaymentOf[hooks[h].resp.key] THEN hooks[h].resp ELSE byPaymentID[p]
  <2>1. hooks[h].resp \in Response
    BY <1>2 DEF Files, HookPasses, Typed, HookReady
  <2>. QED  BY <1>2, <2>1, SaveHolds DEF Files
<1>3. CASE Halts
  BY <1>3 DEF Halts, Stops
<1>4. CASE SameStore
  BY <1>4 DEF SameStore
<1>. QED
  BY <1>1, <1>2, <1>3, <1>4 DEF Step, Pays, Reminds, HookMoves, Takes, Loads, Rejects,
                                Acknowledges, Rests

(* A request that writes the record of a payment after another has is a    *)
(* second one.                                                             *)
LEMMA WriterIsSecond ==
    ASSUME Typed, OwnKeys, Step, NEW p, NEW q \in Requests, Payer(q, p),
           NEW r \in Requests, Stores(r), PaymentOf[req[r].resp.key] = p
    PROVE  ~Alone(p)'
<1>1. req[q].pc = "replied" /\ req[r].pc \in {"save", "saveRefusal"}
  BY DEF Payer, Answered, At, Stores, Passes
<1>2. /\ req'[q].pc = "replied" /\ req'[q].key = req[q].key
      /\ PaymentOf[ValidatedKey(q)] = p
  BY <1>1, RequestsGoOn DEF Payer, Answered
<1>3. req'[r].pc = "replied" /\ req'[r].key = req[r].key
  BY DEF Stores, Passes
<1>4. req[r].resp.key \in {req[r].key, TrimmedKey[req[r].key]}
  BY <1>1 DEF OwnKeys, OwnKey
<1>5. RepliedFor(q, p)' /\ RepliedFor(r, p)'
  BY <1>2, <1>3, <1>4 DEF RepliedFor, ValidatedKey
<1>. QED  BY <1>1, <1>5 DEF Alone

(* PayAnyWay has been told that payment i is recorded, or is being so.     *)
Told(i) == i \notin unacked \/ \E h \in Hooks : hooks[h].pc = "notify" /\ hooks[h].op = i

(* With a database, and no second request, what PayAnyWay was told is so.  *)
Recorded ==
    Durable =>
        \A i \in DOMAIN ops :
            Taken(i) /\ Alone(PaymentOfOp(i)) /\ Told(i)
                => byPaymentID[PaymentOfOp(i)].status = "CAPTURED"

(* PayAnyWay is told of a payment once its goroutine has stored it.        *)
LEMMA ToldWas ==
    ASSUME Typed, Step, NEW i \in DOMAIN ops, Told(i)'
    PROVE  Told(i) \/ \E h \in Hooks : Files(h) /\ hooks[h].op = i
<1>1. CASE i \notin unacked'
  BY <1>1 DEF Told, Step, Proceeds, hookVars, Pays, Reminds, HookMoves, HookPasses, Takes, Loads,
              Files, Rejects, Acknowledges, Halts, Rests
<1>2. ASSUME NEW h \in Hooks, hooks'[h].pc = "notify", hooks'[h].op = i
      PROVE  (hooks[h].pc = "notify" /\ hooks[h].op = i) \/ (Files(h) /\ hooks[h].op = i)
  BY <1>2, NoHookIsIdle
  DEF Step, Proceeds, hookVars, Pays, Reminds, HookMoves, HookPasses, Takes, Loads, Files, Rejects,
      Acknowledges, Halts, Rests
<1>. QED  BY <1>1, <1>2 DEF Told

(* Of a payment just taken it was not told.                                *)
LEMMA NewIsUntold ==
    ASSUME Typed, Step, NEW i \in DOMAIN ops', i \notin DOMAIN ops, Taken(i)'
    PROVE  ~Told(i)'
<1>1. PICK p \in Payments : Pays(p) /\ i = Len(ops) + 1
  BY StepBooks DEF Taken
<1>2. i \in unacked' /\ hooks' = hooks
  BY <1>1 DEF Pays
<1>3. \A h \in Hooks : hooks[h].pc = "notify" => hooks[h].op \in DOMAIN ops
  BY DEF Typed, HookReady
<1>. QED  BY <1>2, <1>3 DEF Told

(* Told means recorded, through every step.                                *)
LEMMA RecordedStep ==
    Typed /\ BooksKnown /\ OwnKeys /\ PayersKnown /\ Recorded /\ Step => Recorded'
<1>. SUFFICES ASSUME Typed, BooksKnown, OwnKeys, PayersKnown, Recorded, Step, Durable,
                     NEW i \in DOMAIN ops', Taken(i)', Alone(PaymentOfOp(i))', Told(i)'
              PROVE  (byPaymentID[PaymentOfOp(i)].status = "CAPTURED")'
  BY DEF Recorded
<1>. OpsGrow
  BY StepBooks
<1>1. i \in DOMAIN ops
  BY NewIsUntold
<1>2. Taken(i) /\ PaymentOfOp(i)' = PaymentOfOp(i)
  BY <1>1 DEF OpsGrow, BooksKnown, Taken, PaymentOfOp
<1>. DEFINE p == PaymentOfOp(i)
<1>3. p \in Payments
  BY <1>1, TypedIsOrchTyped, OpHasPayment
<1>4. PICK q \in Requests : Payer(q, p)
  BY <1>1, <1>2 DEF PayersKnown
<1>5. \A j : j = p => Alone(j)'
  BY <1>2 DEF Alone, RepliedFor
<1>6. ASSUME NEW h \in Hooks, Files(h), PaymentOf[hooks[h].resp.key] = p,
             byPaymentID'[p] = hooks[h].resp
      PROVE  byPaymentID'[p].status = "CAPTURED"
  BY <1>6 DEF Files, HookPasses, BooksKnown, HookKnows
<1>7. CASE Told(i)
  <2>1. \A j : j = p => Alone(j)
    BY <1>5, AloneWas
  <2>2. byPaymentID[p].status = "CAPTURED"
    BY <1>1, <1>2, <1>7, <2>1 DEF Recorded
  <2>3. ASSUME NEW r \in Requests, Stores(r), PaymentOf[req[r].resp.key] = p PROVE FALSE
    BY <1>4, <1>5, <2>3, WriterIsSecond
  <2>4. byPaymentID'[p].status = "CAPTURED"
    <3>. HIDE DEF p
    <3>. QED  BY <1>3, <1>6, <2>2, <2>3, StepWrites
  <2>. QED  BY <1>2, <2>4
<1>8. ASSUME NEW h \in Hooks, Files(h), hooks[h].op = i PROVE byPaymentID'[p].status = "CAPTURED"
  <2>1. PaymentOf[hooks[h].resp.key] = p /\ hooks[h].resp \in Response
    BY <1>8 DEF Files, HookPasses, BooksKnown, HookKnows, Typed, HookReady
  <2>2. byPaymentID'[p] = hooks[h].resp
    <3>. HIDE DEF p
    <3>. QED  BY <1>3, <1>8, <2>1, SaveHolds, TypedIsOrchTyped DEF Files
  <2>. QED  BY <1>6, <1>8, <2>1, <2>2
<1>. QED  BY <1>1, <1>2, <1>7, <1>8, ToldWas

(* It is so in every state.                                                *)
LEMMA AlwaysRecorded == Spec => []Recorded
<1>1. Init => Recorded
  <2>1. DOMAIN << >> = {}
    BY EmptySeq
  <2>. QED  BY <2>1 DEF Init, OrchInit, Recorded
<1>. QED
  BY <1>1, AlwaysTyped, AlwaysBooksKnown, AlwaysOwnKeys, AlwaysPayersKnown, NextMoves,
     RecordedStep, PTL DEF Spec

-----------------------------------------------------------------------------
(* A gateway nothing has failed in.                                        *)

(* A request has come with key k, or with one that is k when trimmed.      *)
Asked(k) == \E r \in Requests : req[r].pc # "idle" /\ k \in {req[r].key, ValidatedKey(r)}

(* While no store operation has failed and the gateway has not restarted,  *)
(* every answer is on record; if one request alone was answered for a      *)
(* payment, its key is that of the payment's record and of what a          *)
(* goroutine of the handler is to store; and nothing is stored under a key *)
(* that no request came with.                                              *)
Answers ==
    \A r \in Requests : req[r].pc = "replied" =>
        req[r].resp \in Response /\ Found(byPaymentID[PaymentOf[req[r].resp.key]])
RecordIsAnswer ==
    \A p \in Payments, r \in Requests :
        Payer(r, p) /\ Alone(p) => byPaymentID[p].key = req[r].resp.key
HooksFollow ==
    \A h \in Hooks, r \in Requests :
        LET p == PaymentOfOp(hooks[h].op) IN
        hooks[h].pc \in {"save", "notify"} /\ Payer(r, p) /\ Alone(p)
            => hooks[h].resp.key = req[r].resp.key
KeysAsked ==
    /\ \A k \in Keys : Found(byIdempotency[k]) => Asked(k)
    /\ \A h \in Hooks : hooks[h].pc \in {"save", "notify"} => Asked(hooks[h].resp.key)

Steady == faults = 0 => Answers /\ RecordIsAnswer /\ HooksFollow /\ KeysAsked

(* A request that came has come.                                           *)
LEMMA AskedStays ==
    ASSUME Typed, Step, NEW k, Asked(k)
    PROVE  Asked(k)'
BY RequestsGoOn DEF Asked, ValidatedKey

(* A whole response is found where it is stored.                           *)
LEMMA ResponseIsFound ==
    ASSUME NEW x \in Response
    PROVE  Found(x) /\ x.key \in Keys /\ PaymentOf[x.key] \in Payments
BY PaymentOfAssumption DEF Found, Response, Statuses

(* Faults are counted.                                                     *)
LEMMA NothingFailed ==
    ASSUME Typed, Step, faults' = 0
    PROVE  /\ faults = 0
           /\ ~Halts
           /\ \A r \in Requests : ~Misfires(r)
           /\ \A h \in Hooks, stored \in Stored :
                 Loads(h, stored) => stored = byPaymentID[PaymentOfOp(hooks[h].op)]
<1>0. faults \in 0..MaxFaults
  BY TypedIsOrchTyped DEF OrchTypeOK
<1>1. faults \in Nat
  BY <1>0, MaxFaultsAssumption
<1>2. faults + 1 # 0
  BY <1>1
<1>3. faults' = faults \/ faults' = faults + 1
  BY DEF Step, Proceeds, Pays, Reminds, HookMoves, HookPasses, Takes, Loads, Files, Rejects,
         Acknowledges, Halts, Stops, Rests, Moves, Calls, Arrives, Unheard, Replays, Starts,
         Prepares, Refuses, Opens, OpensElsewhere, Sends, Misses, Links, Repeats, Loses, Retries,
         Concludes, Notifies, Stores, Misfires
<1>. QED  BY <1>2, <1>3 DEF Halts, Stops, Misfires, Loads

(* The record a goroutine finds is that of the request the payment was     *)
(* asked for with.                                                         *)
LEMMA LoadsRecord ==
    ASSUME Typed, Shelved, BooksKnown, PayersKnown, Answers, Step, faults' = 0,
           NEW h \in Hooks, NEW stored \in Stored, Loads(h, stored)
    PROVE  /\ stored = byPaymentID[PaymentOfOp(hooks[h].op)]
           /\ stored.key \in Keys
           /\ Found(byIdempotency[stored.key])
           /\ hooks'[h].resp.key = stored.key
<1>. DEFINE p == PaymentOfOp(hooks[h].op)
<1>1. stored = byPaymentID[p]
  BY NothingFailed
<1>2. Taken(hooks[h].op) /\ hooks[h].op \in DOMAIN ops
  BY DEF Loads, HookPasses, BooksKnown, HookKnows, Taken
<1>3. PICK q \in Requests : Payer(q, p)
  BY <1>2 DEF PayersKnown
<1>4. Found(stored) /\ p \in Payments
  BY <1>1, <1>2, <1>3, TypedIsOrchTyped, OpHasPayment DEF Answers, Payer, Answered, At
<1>5. ~Found(NoResponse)
  BY DEF Found, NoResponse
<1>6. stored # NoResponse
  BY <1>4, <1>5
<1>. QED  BY <1>1, <1>4, <1>6, LoadsKnowingly DEF Shelved

(* An answer is on record.                                                 *)
LEMMA AnswersStep ==
    ASSUME Typed, Answers, Step, faults' = 0
    PROVE  Answers'
<1>. SUFFICES ASSUME NEW r \in Requests, req'[r].pc = "replied"
              PROVE  /\ req'[r].resp \in Response
                     /\ Found(byPaymentID'[PaymentOf[req'[r].resp.key]])
  BY DEF Answers, Found
<1>1. ASSUME NEW p \in Payments, Found(byPaymentID[p]) PROVE Found(byPaymentID'[p])
  BY <1>1, StepWrites, NothingFailed, ResponseIsFound
<1>2. CASE req[r].pc = "replied"
  <2>1. req'[r].resp = req[r].resp
    BY <1>2, RequestsGoOn DEF SameAnswer
  <2>2. req[r].resp \in Response /\ Found(byPaymentID[PaymentOf[req[r].resp.key]])
    BY <1>2 DEF Answers
  <2>. QED  BY <1>1, <2>1, <2>2, ResponseIsFound
<1>3. CASE req[r].pc # "replied"
  <2>1. Stores(r)
    BY <1>3, RequestsGoOn, NothingFailed
  <2>2. req[r].resp \in Response /\ req'[r].resp = req[r].resp
    BY <2>1, TypedIsOrchTyped, RequestIsTyped DEF Stores, Passes, Ready, RequestIsReady, SameAnswer
  <2>3. byPaymentID'[PaymentOf[req[r].resp.key]] = req[r].resp
    BY <2>1, <2>2, ResponseIsFound, SaveHolds, TypedIsOrchTyped DEF Stores
  <2>. QED  BY <2>2, <2>3, ResponseIsFound
<1>. QED  BY <1>2, <1>3

(* A request that is answered for a payment and has not been yet.          *)
LEMMA NewPayerStores ==
    ASSUME Typed, Step, faults' = 0, NEW r \in Requests, NEW p, Payer(r, p)'
    PROVE  \/ Payer(r, p) /\ req'[r].resp = req[r].resp
           \/ Stores(r) /\ PaymentOf[req[r].resp.key] = p /\ req'[r].resp = req[r].resp
<1>1. CASE req[r].pc = "replied"
  BY <1>1, RequestsGoOn DEF Payer, Answered, At, SameAnswer, ValidatedKey
<1>2. CASE req[r].pc # "replied"
  <2>1. Stores(r)
    BY <1>2, RequestsGoOn, NothingFailed DEF Payer, Answered, At
  <2>. QED  BY <2>1 DEF Stores, SameAnswer, Payer
<1>. QED  BY <1>1, <1>2

(* The record of a payment has the key of its only answer.                 *)
LEMMA RecordIsAnswerStep ==
    ASSUME Typed, BooksKnown, OwnKeys, Step, faults' = 0, RecordIsAnswer, HooksFollow
    PROVE  RecordIsAnswer'
<1>. SUFFICES ASSUME NEW p \in Payments, NEW r \in Requests, Payer(r, p)', Alone(p)'
              PROVE  byPaymentID'[p].key = req'[r].resp.key
  BY DEF RecordIsAnswer
<1>1. Alone(p)
  BY AloneWas
<1>2. CASE Stores(r) /\ PaymentOf[req[r].resp.key] = p /\ req'[r].resp = req[r].resp
  <2>1. req[r].resp \in Response
    BY <1>2, TypedIsOrchTyped, RequestIsTyped DEF Stores, Passes, Ready, RequestIsReady
  <2>. QED  BY <1>2, <2>1, SaveHolds, TypedIsOrchTyped DEF Stores
<1>3. CASE Payer(r, p) /\ req'[r].resp = req[r].resp
  <2>1. byPaymentID[p].key = req[r].resp.key
    BY <1>1, <1>3 DEF RecordIsAnswer
  <2>2. ASSUME NEW q \in Requests, Stores(q), PaymentOf[req[q].resp.key] = p PROVE FALSE
    BY <1>3, <2>2, WriterIsSecond
  <2>3. ASSUME NEW h \in Hooks, Files(h), PaymentOf[hooks[h].resp.key] = p
        PROVE  hooks[h].resp.key = req[r].resp.key
    BY <1>1, <1>3, <2>3 DEF Files, HookPasses, BooksKnown, HookKnows, HooksFollow
  <2>. QED  BY <1>3, <2>1, <2>2, <2>3, StepWrites, NothingFailed
<1>. QED  BY <1>2, <1>3, NewPayerStores

(* The goroutines of the handler store under the key of the answer.        *)
LEMMA HooksFollowStep ==
    ASSUME Typed, Shelved, BooksKnown, OwnKeys, PayersKnown, Step, faults' = 0, Answers,
           RecordIsAnswer, HooksFollow
    PROVE  HooksFollow'
<1>. SUFFICES ASSUME NEW h \in Hooks, NEW r \in Requests, NEW p, p = PaymentOfOp(hooks[h].op)',
                     hooks'[h].pc \in {"save", "notify"}, Payer(r, p)', Alone(p)'
              PROVE  hooks'[h].resp.key = req'[r].resp.key
  BY DEF HooksFollow, Alone, RepliedFor, Payer
<1>. OpsGrow
  BY StepBooks
<1>1. \/ /\ hooks[h].pc \in {"save", "notify"} /\ hooks'[h].op = hooks[h].op
         /\ hooks'[h].resp = hooks[h].resp
      \/ \E stored \in Stored : Loads(h, stored)
  BY NoHookIsIdle
  DEF Step, Proceeds, hookVars, Pays, Reminds, HookMoves, HookPasses, Takes, Loads, Files, Rejects,
      Acknowledges, Halts, Rests
<1>2. hooks[h].pc # "idle" /\ hooks'[h].op = hooks[h].op
  BY <1>1 DEF Loads, HookPasses
<1>3. Taken(hooks[h].op) /\ hooks[h].op \in DOMAIN ops
  BY <1>2 DEF BooksKnown, HookKnows, Taken
<1>4. p = PaymentOfOp(hooks[h].op)
  BY <1>2, <1>3 DEF OpsGrow, PaymentOfOp
<1>5. p \in Payments /\ Alone(p)
  BY <1>3, <1>4, TypedIsOrchTyped, OpHasPayment, AloneWas
<1>6. PICK q \in Requests : Payer(q, p)
  BY <1>3, <1>4 DEF PayersKnown
<1>7. Payer(r, p) /\ req'[r].resp = req[r].resp
  BY <1>6, NewPayerStores, WriterIsSecond
<1>8. ASSUME NEW stored \in Stored, Loads(h, stored) PROVE hooks'[h].resp.key = req[r].resp.key
  <2>1. stored = byPaymentID[p] /\ hooks'[h].resp.key = stored.key
    BY <1>4, <1>8, LoadsRecord
  <2>. QED  BY <1>5, <1>7, <2>1 DEF RecordIsAnswer
<1>9. CASE hooks[h].pc \in {"save", "notify"} /\ hooks'[h].resp = hooks[h].resp
  BY <1>4, <1>5, <1>7, <1>9 DEF HooksFollow
<1>. QED  BY <1>1, <1>7, <1>8, <1>9

(* Nothing is stored under a key nobody came with.                         *)
LEMMA KeysAskedStep ==
    ASSUME Typed, Shelved, BooksKnown, OwnKeys, PayersKnown, Step, faults' = 0, Answers, KeysAsked
    PROVE  KeysAsked'
<1>1. ASSUME NEW k \in Keys, Found(byIdempotency'[k]) PROVE Asked(k)'
  <2>1. ASSUME NEW r \in Requests, Stores(r), req[r].resp.key = k PROVE Asked(k)
    BY <2>1 DEF Stores, Passes, OwnKeys, OwnKey, Asked, ValidatedKey
  <2>2. ASSUME NEW h \in Hooks, Files(h), hooks[h].resp.key = k PROVE Asked(k)
    BY <2>2 DEF Files, HookPasses, KeysAsked
  <2>3. byIdempotency'[k] = byIdempotency[k] => Asked(k)
    BY <1>1 DEF KeysAsked
  <2>4. Asked(k)
    BY <2>1, <2>2, <2>3, StepWrites, NothingFailed
  <2>. QED  BY <2>4, AskedStays
<1>2. ASSUME NEW h \in Hooks, hooks'[h].pc \in {"save", "notify"}, NEW k, k = hooks'[h].resp.key
      PROVE  Asked(k)'
  <2>1. ASSUME NEW stored \in Stored, Loads(h, stored) PROVE Asked(k)
    BY <1>2, <2>1, LoadsRecord DEF KeysAsked
  <2>2. ASSUME hooks[h].pc \in {"save", "notify"}, hooks'[h].resp = hooks[h].resp
        PROVE  Asked(k)
    BY <1>2, <2>2 DEF KeysAsked
  <2>3. Asked(k)
    BY <1>2, <2>1, <2>2, NoHookIsIdle
    DEF Step, Proceeds, hookVars, Pays, Reminds, HookMoves, HookPasses, Takes, Loads, Files,
        Rejects, Acknowledges, Halts, Rests
  <2>. QED  BY <2>3, AskedStays
<1>3. \A h \in Hooks : (hooks[h].pc \in {"save", "notify"} => Asked(hooks[h].resp.key))'
  BY <1>2 DEF Asked
<1>. QED  BY <1>1, <1>3 DEF KeysAsked, Found

(* All this goes on until something fails.                                 *)
LEMMA SteadyStep ==
    Typed /\ Shelved /\ BooksKnown /\ OwnKeys /\ PayersKnown /\ Steady /\ Step => Steady'
<1>. SUFFICES ASSUME Typed, Shelved, BooksKnown, OwnKeys, PayersKnown, Steady, Step, faults' = 0
              PROVE  (Answers /\ RecordIsAnswer /\ HooksFollow /\ KeysAsked)'
  BY DEF Steady
<1>1. Answers /\ RecordIsAnswer /\ HooksFollow /\ KeysAsked
  BY NothingFailed DEF Steady
<1>. QED  BY <1>1, AnswersStep, RecordIsAnswerStep, HooksFollowStep, KeysAskedStep

(* So it does from the start.                                              *)
LEMMA AlwaysSteady == Spec => []Steady
<1>1. Init => Steady
  <2>1. Idle.pc = "idle" /\ ~Found(NoResponse)
    BY DEF Idle, Found, NoResponse
  <2>. QED
    BY <2>1, NoHookIsIdle DEF Init, OrchInit, Steady, Answers, RecordIsAnswer, HooksFollow,
                              KeysAsked, Payer, Answered, At
<1>. QED
  BY <1>1, AlwaysTyped, AlwaysShelved, AlwaysBooksKnown, AlwaysOwnKeys, AlwaysPayersKnown,
     NextMoves, SteadyStep, PTL DEF Spec

(* A payment gets a second record, under its transaction id, only when     *)
(* something failed: a lookup, the Save whose error CreatePayment drops,   *)
(* or the process (payanyway_handler.go loadOrBuildResponse).              *)
THEOREM NoRecordStrays == Spec => []NoStrayRecord
<1>1. Typed /\ Steady => NoStrayRecord
  BY TransactionKeyIsKey DEF Steady, KeysAsked, Asked, NoStrayRecord, At
<1>. QED  BY <1>1, AlwaysTyped, AlwaysSteady, PTL

(* Once PayAnyWay has its receipt, the status of the payment reads         *)
(* CAPTURED by payment_id, through failed lookups and writes, repetitions  *)
(* and restarts of a gateway with a database; and by the idempotency key   *)
(* of the request the buyer got the link from, when no store operation     *)
(* failed.  Unless a second request of the payment has found no record     *)
(* (payanyway_handler.go ServeHTTP, status_handler.go).                    *)
THEOREM PaidAreShown == Durable => (Spec => []PaidIsShown)
<1>1. ASSUME Durable, Typed, Shelved, BooksKnown, PayersKnown, Recorded, Steady
      PROVE  PaidIsShown
  <2>. SUFFICES ASSUME NEW i \in DOMAIN ops, NEW p, p = PaymentOfOp(i),
                       AdapterOf[ops[i].key] = "payanyway", i \notin unacked,
                       \A q, r \in Requests : (Writes(q, p) /\ Writes(r, p)) => q = r
                PROVE  /\ byPaymentID[p].status = "CAPTURED"
                       /\ \A r \in Requests :
                             (faults = 0 /\ At(r, "replied") /\ Writes(r, p))
                                 => byIdempotency[req[r].resp.key].status = "CAPTURED"
    BY DEF PaidIsShown
  <2>1. Taken(i) /\ Told(i)
    BY <1>1 DEF BooksKnown, Told
  <2>2. Alone(p)
    BY DEF Alone, RepliedFor, Writes
  <2>3. byPaymentID[p].status = "CAPTURED"
    BY <1>1, <2>1, <2>2 DEF Recorded
  <2>4. ASSUME NEW r \in Requests, faults = 0, At(r, "replied"), Writes(r, p)
        PROVE  byIdempotency[req[r].resp.key].status = "CAPTURED"
    <3>1. PICK q \in Requests : Payer(q, p)
      BY <1>1, <2>1 DEF PayersKnown
    <3>2. Writes(q, p)
      BY <3>1 DEF Payer, Answered, At, Writes
    <3>3. q = r
      BY <2>4, <3>2
    <3>4. p \in Payments
      BY TypedIsOrchTyped, OpHasPayment, <1>1
    <3>5. byPaymentID[p].key = req[r].resp.key
      BY <1>1, <2>2, <2>4, <3>1, <3>3, <3>4 DEF Steady, RecordIsAnswer
    <3>6. byPaymentID[p] = byIdempotency[byPaymentID[p].key]
      BY <1>1, <2>3, <3>4 DEF Shelved, Found
    <3>. QED  BY <2>3, <3>5, <3>6
  <2>. QED  BY <2>3, <2>4
<1>. SUFFICES ASSUME Durable PROVE Spec => []PaidIsShown
  OBVIOUS
<1>2. Typed /\ Shelved /\ BooksKnown /\ PayersKnown /\ Recorded /\ Steady => PaidIsShown
  BY <1>1
<1>. QED
  BY <1>2, AlwaysTyped, AlwaysShelved, AlwaysBooksKnown, AlwaysPayersKnown, AlwaysRecorded,
     AlwaysSteady, PTL
=============================================================================
