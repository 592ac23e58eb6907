--------------------------- MODULE YooKassaGateway_proofs ---------------------------
(***************************************************************************)
(* Theorems of YooKassaGateway, for any requests, keys, payments, routing, *)
(* number of webhook goroutines, kind of store and number of faults.       *)
(***************************************************************************)
EXTENDS YooKassaGateway, Orchestrator_proofs, FiniteSetTheorems

-----------------------------------------------------------------------------
(* Type correctness.                                                       *)

(* What a handler is about to store or send is a whole response, and a     *)
(* webhook goroutine is at work on an operation that exists.               *)
HandlersAreReady ==
    /\ RequestsAreReady
    /\ \A h \in Hooks :
          /\ hooks[h].pc # "idle" =>
                 hooks[h].op \in DOMAIN ops /\ hooks[h].status \in Statuses
          /\ hooks[h].pc \in {"save", "notify"} => hooks[h].resp \in Response

Typed == TypeOK /\ HandlersAreReady

(* So the lemmas on the orchestrator apply.                                *)
LEMMA TypedIsOrchTyped == Typed => OrchTyped
BY DEF Typed, TypeOK, HandlersAreReady, OrchTyped

(* What a webhook goroutine stores is a whole response, whatever it loaded. *)
LEMMA UpdateIsResponse ==
    ASSUME NEW stored \in Stored, NEW h \in Hooks, TypeOK, HandlersAreReady,
           hooks[h].pc # "idle"
    PROVE  /\ Update(stored, h) \in Response
           /\ Update(stored, h).key = ops[hooks[h].op].key
           /\ Update(stored, h).status = hooks[h].status
           /\ Update(stored, h).ext = hooks[h].op
           /\ Update(stored, h).code = YooKassaErrorCode(hooks[h].status)
           /\ Update(stored, h).url = FALSE
<1>1. hooks[h].op \in DOMAIN ops /\ hooks[h].status \in Statuses
  BY DEF HandlersAreReady
<1>2. ops[hooks[h].op] \in Op /\ hooks[h].op \in Nat
  BY <1>1, ElementOfSeq, LenProperties DEF TypeOK, OrchTypeOK, Hook
<1>3. YooKassaErrorCode(hooks[h].status) \in Codes
  BY ErrorCodeIsCode
<1>4. CASE stored \in Response
  BY <1>1, <1>2, <1>3, <1>4 DEF Update, Response, Op
<1>5. CASE stored = NoResponse
  BY <1>1, <1>2, <1>3, <1>5 DEF Update, Response, NoResponse, Op
<1>. QED  BY <1>4, <1>5 DEF Stored

(* The gateway starts well typed, with no handler at work.                 *)
LEMMA InitIsTyped == Init => Typed
<1>. SUFFICES ASSUME Init PROVE Typed  OBVIOUS
<1>1. OrchTyped /\ ops = <<>> /\ unacked = {}
  BY OrchInitIsTyped DEF Init, OrchInit
<1>2. NoHook \in Hook
  BY StoredResponses DEF Hook, NoHook
<1>3. hooks \in [Hooks -> Hook] /\ \A h \in Hooks : hooks[h].pc = "idle"
  BY <1>2 DEF Init, NoHook
<1>. QED  BY <1>1, <1>3 DEF Typed, TypeOK, HandlersAreReady, OrchTyped

(* The buyer, YooKassa, and the loss of an acknowledgement.                *)
LEMMA ProviderStepsAreTyped ==
    ASSUME Typed, NEW i \in DOMAIN ops, Pay(i) \/ Cancel(i) \/ Resend(i)
    PROVE  Typed'
<1>. USE DEF Typed
<1>1. ASSUME NEW status \in {"succeeded", "canceled"}, Settle(i, status) PROVE Typed'
  <2>1. ops' \in Seq(Op) /\ DOMAIN ops' = DOMAIN ops
    BY <1>1, SettleOp DEF TypeOK, OrchTypeOK, Settle
  <2>2. HandlersAreReady'
    BY <1>1, <2>1 DEF HandlersAreReady, RequestsAreReady, Settle
  <2>. QED  BY <1>1, <2>1, <2>2 DEF TypeOK, OrchTypeOK, Settle, storeVars
<1>2. CASE Resend(i)
  <2>1. HandlersAreReady'
    BY <1>2 DEF HandlersAreReady, RequestsAreReady, Resend
  <2>. QED  BY <1>2, <2>1, FaultIsTyped DEF TypeOK, OrchTypeOK, Resend, storeVars
<1>. QED  BY <1>1, <1>2 DEF Pay, Cancel

(* A step of one webhook goroutine.                                        *)
HookReady(x) ==
    /\ x \in Hook
    /\ x.pc # "idle" => x.op \in DOMAIN ops /\ x.status \in Statuses
    /\ x.pc \in {"save", "notify"} => x.resp \in Response

(* A step that leaves every webhook goroutine ready keeps them typed.      *)
LEMMA HookIsTyped ==
    ASSUME Typed, NEW h \in Hooks, NEW x, HookReady(x),
           hooks' = [hooks EXCEPT ![h] = x], req' = req, ops' = ops
    PROVE  /\ hooks' \in [Hooks -> Hook]
           /\ HandlersAreReady'
BY DEF Typed, TypeOK, OrchTypeOK, HandlersAreReady, RequestsAreReady, HookReady

(* A webhook goroutine that has ended is ready for the next notification.  *)
LEMMA NoHookIsReady == HookReady(NoHook)
BY StoredResponses DEF HookReady, Hook, NoHook

(* The steps of YooKassaWebhookHandler keep the types.                     *)
LEMMA HookStepsAreTyped ==
    ASSUME Typed, NEW h \in Hooks,
           \/ \E i \in unacked : ReceiveHook(h, i)
           \/ LoadHook(h) \/ SaveHook(h) \/ NotifyHook(h)
    PROVE  Typed'
<1>. USE DEF Typed
<1>. OrchTypeOK
  BY DEF TypeOK
<1>0. hooks[h] \in Hook /\ HookReady(hooks[h])
  BY DEF TypeOK, OrchTypeOK, HandlersAreReady, RequestsAreReady, HookReady
<1>1. ASSUME NEW i \in unacked, ReceiveHook(h, i) PROVE Typed'
  <2>. DEFINE status == mapYooKassaStatus(ops[i].status)
              x == [hooks[h] EXCEPT !.pc = "load", !.op = i, !.status = status]
  <2>1. i \in DOMAIN ops /\ i \in Nat
    <3>1. ops \in Seq(Op) /\ i \in DOMAIN ops
      BY DEF TypeOK, OrchTypeOK
    <3>. QED  BY <3>1, LenProperties
  <2>2. status \in Statuses
    BY MapIsStatus
  <2>3. hooks' = [hooks EXCEPT ![h] = x]
    BY <1>1 DEF ReceiveHook
  <2>. HIDE DEF status
  <2>4. HookReady(x)
    BY <1>0, <2>1, <2>2 DEF HookReady, Hook
  <2>. QED  BY <1>1, <2>3, <2>4, HookIsTyped DEF TypeOK, OrchTypeOK, ReceiveHook, orchVars
<1>2. CASE LoadHook(h)
  <2>. DEFINE k == ops[hooks[h].op].key
  <2>1. hooks[h].pc = "load"
    BY <1>2 DEF LoadHook, HookAt
  <2>2. ops[hooks[h].op] \in Op
    BY <1>0, <2>1, ElementOfSeq, LenProperties DEF TypeOK, OrchTypeOK, HookReady
  <2>3. GetByIdempotencyKey(k) \in Stored
    BY <2>2 DEF GetByIdempotencyKey, TypeOK, OrchTypeOK, Op
  <2>4. ASSUME NEW stored \in Stored,
               hooks' = [hooks EXCEPT ![h].pc = "save", ![h].resp = Update(stored, h)],
               faults' \in 0..MaxFaults
        PROVE  Typed'
    <3>. DEFINE resp == Update(stored, h)
                x == [hooks[h] EXCEPT !.pc = "save", !.resp = resp]
    <3>1. resp \in Response
      BY <2>1, UpdateIsResponse
    <3>2. hooks' = [hooks EXCEPT ![h] = x]
      BY <2>4
    <3>. HIDE DEF resp
    <3>3. HookReady(x)
      BY <1>0, <2>1, <3>1, StoredResponses DEF HookReady, Hook
    <3>. QED  BY <1>2, <2>4, <3>2, <3>3, HookIsTyped DEF TypeOK, OrchTypeOK, LoadHook, storeVars
  <2>5. faults \in 0..MaxFaults
    BY DEF TypeOK, OrchTypeOK
  <2>. QED  BY <1>2, <2>3, <2>4, <2>5, StoredResponses, FaultIsTyped DEF LoadHook
<1>3. CASE SaveHook(h)
  <2>1. hooks[h].pc = "save" /\ hooks[h].resp \in Response
    BY <1>0, <1>3 DEF SaveHook, HookAt, HookReady
  <2>2. CASE Save(hooks[h].resp) /\ hooks' = [hooks EXCEPT ![h].pc = "notify"] /\ UNCHANGED faults
    <3>. DEFINE x == [hooks[h] EXCEPT !.pc = "notify"]
    <3>1. HookReady(x) /\ hooks' = [hooks EXCEPT ![h] = x]
      BY <1>0, <2>1, <2>2 DEF HookReady, Hook
    <3>. QED  BY <1>3, <2>1, <2>2, <3>1, HookIsTyped, SaveIsTyped DEF TypeOK, OrchTypeOK, SaveHook
  <2>3. CASE StoreError /\ hooks' = [hooks EXCEPT ![h] = NoHook]
    BY <1>3, <2>3, NoHookIsReady, HookIsTyped, StoreErrorIsTyped DEF TypeOK, OrchTypeOK, SaveHook
  <2>. QED  BY <1>3, <2>2, <2>3 DEF SaveHook
<1>4. CASE NotifyHook(h)
  <2>1. notices' \subseteq Notice
    BY <1>0, <1>4, DeliverIsTyped DEF NotifyHook, HookAt, HookReady
  <2>. QED
    BY <1>4, <2>1, NoHookIsReady, HookIsTyped DEF TypeOK, OrchTypeOK, NotifyHook, storeVars
<1>. QED  BY <1>1, <1>2, <1>3, <1>4

(* A restart ends the webhook goroutines.                                  *)
LEMMA RestartGatewayIsTyped ==
    ASSUME Typed, RestartGateway
    PROVE  Typed'
<1>1. OrchTyped'
  BY TypedIsOrchTyped, RestartIsTyped DEF RestartGateway
<1>2. hooks' \in [Hooks -> Hook] /\ \A h \in Hooks : hooks'[h].pc = "idle"
  BY NoHookIsReady DEF HookReady, RestartGateway, NoHook
<1>3. ops' = ops /\ unacked' = unacked
  BY DEF RestartGateway, Restart
<1>. QED  BY <1>1, <1>2, <1>3 DEF Typed, TypeOK, HandlersAreReady, OrchTyped

(* A step of a request leaves the webhook goroutines ready.                *)
LEMMA OrchStepIsTyped ==
    ASSUME Typed, NEW r \in Requests, OrchStep(r) \/ \E k \in Keys : Arrive(r, k)
    PROVE  Typed'
<1>1. OrchTyped'
  BY TypedIsOrchTyped, CreatePaymentIsTyped, ReceiveIsTyped DEF OrchStep, Arrive
<1>2. DOMAIN ops \subseteq DOMAIN ops'
  <2>1. OpsGrow
    BY TypedIsOrchTyped, CreatePaymentMoves, ReceiveMoves, MovesGrow DEF OrchStep, Arrive
  <2>. QED  BY <2>1 DEF OpsGrow
<1>. QED
  BY <1>1, <1>2 DEF Typed, TypeOK, HandlersAreReady, OrchTyped, OrchStep, Arrive, hookVars

(* The typing invariant is inductive.                                      *)
LEMMA StepIsTyped == Typed /\ [Next]_vars => Typed'
<1>. SUFFICES ASSUME Typed, [Next]_vars PROVE Typed'  OBVIOUS
<1>1. ASSUME NEW r \in Requests, OrchStep(r) \/ \E k \in Keys : Arrive(r, k) PROVE Typed'
  BY <1>1, OrchStepIsTyped
<1>2. ASSUME NEW i \in DOMAIN ops, Pay(i) \/ Cancel(i) \/ Resend(i) PROVE Typed'
  BY <1>2, ProviderStepsAreTyped
<1>3. ASSUME NEW h \in Hooks, HandleHook(h) \/ \E i \in unacked : ReceiveHook(h, i)
      PROVE  Typed'
  BY <1>3, HookStepsAreTyped DEF HandleHook
<1>4. CASE RestartGateway
  BY <1>4, RestartGatewayIsTyped
<1>5. CASE UNCHANGED vars
  BY <1>5 DEF vars, orchVars, hookVars, Typed, TypeOK, OrchTypeOK, HandlersAreReady,
              RequestsAreReady
<1>. QED  BY <1>1, <1>2, <1>3, <1>4, <1>5 DEF Next

(* Every state of the gateway is well typed and its handlers are ready.    *)
LEMMA AlwaysTyped == Spec => []Typed
BY InitIsTyped, StepIsTyped, PTL DEF Spec

(* Every variable has its type, and what a handler is about to store or    *)
(* send is complete, in every state the gateway can be in.                 *)
THEOREM TypeCorrect == Spec => []TypeOK
<1>1. Typed => TypeOK
  BY DEF Typed
<1>. QED  BY <1>1, AlwaysTyped, PTL

-----------------------------------------------------------------------------
(* What a step of the gateway changes and leaves alone.                    *)

SameStore == UNCHANGED <<byIdempotency, byPaymentID, saved>>

Settles(i, status) ==
    /\ AdapterOf[ops[i].key] = "yookassa"
    /\ ops[i].status = "pending"
    /\ status = "succeeded" => PageKnown(i)
    /\ ops' = [ops EXCEPT ![i].status = status]
    /\ unacked' = unacked \cup {i}
    /\ SameStore /\ UNCHANGED <<req, notices, hooks>>

Reminds(i) ==
    /\ AdapterOf[ops[i].key] = "yookassa"
    /\ ops[i].status \in ProviderFinal
    /\ unacked' = unacked \cup {i}
    /\ SameStore /\ UNCHANGED <<req, ops, notices, hooks>>

(* h goes on while the other webhook goroutines stand still.               *)
HookPasses(h, from, to) ==
    /\ hooks[h].pc = from
    /\ hooks'[h].pc = to
    /\ \A g \in Hooks : g # h => hooks'[g] = hooks[g]
    /\ UNCHANGED <<req, ops>>

SameJob(h) == hooks'[h].op = hooks[h].op /\ hooks'[h].status = hooks[h].status

Takes(h, i) ==
    /\ HookPasses(h, "idle", "load")
    /\ i \in unacked
    /\ hooks'[h].op = i
    /\ hooks'[h].status = mapYooKassaStatus(ops[i].status)
    /\ hooks'[h].resp = hooks[h].resp
    /\ SameStore /\ UNCHANGED <<notices, unacked>>

Loads(h, stored) ==
    /\ HookPasses(h, "load", "save")
    /\ SameJob(h)
    /\ hooks'[h].resp = Update(stored, h)
    /\ SameStore /\ UNCHANGED <<notices, unacked>>

Writes(h) ==
    /\ HookPasses(h, "save", "notify")
    /\ SameJob(h)
    /\ hooks'[h].resp = hooks[h].resp
    /\ Save(hooks[h].resp)
    /\ UNCHANGED <<notices, unacked>>

Rejects(h) ==
    /\ HookPasses(h, "save", "idle")
    /\ hooks'[h] = NoHook
    /\ SameStore /\ UNCHANGED <<notices, unacked>>

Acknowledges(h) ==
    /\ HookPasses(h, "notify", "idle")
    /\ hooks'[h] = NoHook
    /\ Deliver(hooks[h].resp, "webhook")
    /\ unacked' = unacked \ {hooks[h].op}
    /\ SameStore

Halts ==
    /\ Stops
    /\ \A h \in Hooks : hooks'[h] = NoHook
    /\ UNCHANGED unacked

HookMoves(h) ==
    \/ \E i \in unacked : Takes(h, i)
    \/ \E stored \in Stored : Loads(h, stored)
    \/ Writes(h) \/ Rejects(h) \/ Acknowledges(h)

(* A request moves or arrives.                                             *)
Proceeds(r) == (Moves(r) \/ Arrives(r)) /\ UNCHANGED hookVars

Step ==
    \/ \E r \in Requests : Proceeds(r)
    \/ \E i \in DOMAIN ops :
          Reminds(i) \/ \E status \in {"succeeded", "canceled"} : Settles(i, status)
    \/ \E h \in Hooks : HookMoves(h)
    \/ Halts
    \/ SameStore /\ UNCHANGED <<req, ops, notices, hooks, unacked>>

(* What a webhook goroutine does.                                          *)
LEMMA HandleHookMoves ==
    ASSUME Typed, NEW h \in Hooks, HandleHook(h) \/ \E i \in unacked : ReceiveHook(h, i)
    PROVE  HookMoves(h)
<1>. hooks \in [Hooks -> Hook] /\ hooks[h] \in Hook /\ NoHook.pc = "idle"
  BY DEF Typed, TypeOK, NoHook
<1>. USE DEF HookPasses, SameJob, SameStore, storeVars, HookAt
<1>1. ASSUME NEW i \in unacked, ReceiveHook(h, i) PROVE Takes(h, i)
  BY <1>1 DEF ReceiveHook, Takes, Hook, orchVars
<1>2. CASE LoadHook(h)
  <2>. DEFINE k == ops[hooks[h].op].key
  <2>1. k \in Keys
    <3>1. hooks[h].op \in DOMAIN ops /\ ops \in Seq(Op)
      BY <1>2 DEF LoadHook, Typed, TypeOK, OrchTypeOK, HandlersAreReady
    <3>2. ops[hooks[h].op] \in Op
      BY <3>1, ElementOfSeq, LenProperties
    <3>. QED  BY <3>2 DEF Op
  <2>2. byIdempotency[k] \in Stored
    BY <2>1 DEF Typed, TypeOK, OrchTypeOK
  <2>3. PICK stored \in Stored :
          hooks' = [hooks EXCEPT ![h].pc = "save", ![h].resp = Update(stored, h)]
    BY <1>2, <2>2, StoredResponses DEF LoadHook, GetByIdempotencyKey
  <2>. DEFINE resp == Update(stored, h)
  <2>4. hooks' = [hooks EXCEPT ![h].pc = "save", ![h].resp = resp]
    BY <2>3
  <2>. HIDE DEF resp
  <2>5. /\ hooks'[h].pc = "save" /\ hooks'[h].resp = resp /\ SameJob(h)
        /\ \A g \in Hooks : g # h => hooks'[g] = hooks[g]
    BY <2>4 DEF Hook
  <2>6. resp = Update(stored, h)
    BY DEF resp
  <2>7. Loads(h, stored)
    BY <1>2, <2>5, <2>6 DEF LoadHook, Loads
  <2>. QED  BY <2>7 DEF HookMoves
<1>3. CASE SaveHook(h)
  <2>1. CASE Save(hooks[h].resp) /\ hooks' = [hooks EXCEPT ![h].pc = "notify"]
    <3>1. /\ hooks'[h].pc = "notify" /\ hooks'[h].resp = hooks[h].resp /\ SameJob(h)
          /\ \A g \in Hooks : g # h => hooks'[g] = hooks[g]
      BY <2>1 DEF Hook
    <3>. QED  BY <1>3, <2>1, <3>1 DEF SaveHook, Writes, HookMoves
  <2>2. CASE StoreError /\ hooks' = [hooks EXCEPT ![h] = NoHook]
    BY <1>3, <2>2 DEF SaveHook, StoreError, Rejects, HookMoves
  <2>. QED  BY <1>3, <2>1, <2>2 DEF SaveHook
<1>4. CASE NotifyHook(h)
  BY <1>4 DEF NotifyHook, Acknowledges, HookMoves
<1>. QED  BY <1>1, <1>2, <1>3, <1>4 DEF HandleHook, HookMoves

(* Every step of the gateway is one of these.                              *)
LEMMA NextMoves == Typed /\ [Next]_vars => Step
<1>. SUFFICES ASSUME Typed, [Next]_vars PROVE Step  OBVIOUS
<1>1. ASSUME NEW r \in Requests, OrchStep(r) \/ \E k \in Keys : Arrive(r, k) PROVE Step
  <2>1. Proceeds(r)
    BY <1>1, TypedIsOrchTyped, CreatePaymentMoves, ReceiveMoves DEF OrchStep, Arrive, Proceeds
  <2>. QED  BY <2>1 DEF Step
<1>2. ASSUME NEW i \in DOMAIN ops, Pay(i) \/ Cancel(i) \/ Resend(i) PROVE Step
  <2>1. \/ Reminds(i) \/ Settles(i, "succeeded") \/ Settles(i, "canceled")
    BY <1>2 DEF Pay, Cancel, Settle, Resend, Settles, Reminds, SameStore, storeVars
  <2>. QED  BY <2>1 DEF Step
<1>3. ASSUME NEW h \in Hooks, HandleHook(h) \/ \E i \in unacked : ReceiveHook(h, i) PROVE Step
  BY <1>3, HandleHookMoves DEF Step
<1>4. CASE RestartGateway
  <2>1. Halts
    BY <1>4, TypedIsOrchTyped, RestartStops DEF RestartGateway, Halts
  <2>. QED  BY <2>1 DEF Step
<1>5. CASE UNCHANGED vars
  BY <1>5 DEF Step, SameStore, vars, orchVars, hookVars
<1>. QED  BY <1>1, <1>2, <1>3, <1>4, <1>5 DEF Next

(* No step takes back an operation or changes a final one.                 *)
LEMMA StepGrows == Typed /\ Step => OpsGrow
<1>. SUFFICES ASSUME Typed, Step PROVE OpsGrow  OBVIOUS
<1>. ops \in Seq(Op)
  BY DEF Typed, TypeOK, OrchTypeOK
<1>1. ASSUME NEW r \in Requests, Proceeds(r) PROVE OpsGrow
  BY <1>1, TypedIsOrchTyped, MovesGrow DEF Proceeds
<1>2. ASSUME NEW i \in DOMAIN ops, NEW status \in {"succeeded", "canceled"}, Settles(i, status)
      PROVE  OpsGrow
  BY <1>2, OpenOrSettleGrows DEF Settles
<1>3. CASE ops' = ops
  BY <1>3, OpenOrSettleGrows
<1>. QED
  BY <1>1, <1>2, <1>3 DEF Step, Reminds, HookMoves, Takes, Loads, Writes, Rejects, Acknowledges,
                          HookPasses, Halts, Stops

(* A webhook goroutine that has ended has no response.                     *)
LEMMA NoHookIsIdle == NoHook.pc = "idle" /\ NoHook.resp = NoResponse
BY DEF NoHook

(* A response the store or a goroutine of either kind holds.               *)
HeldHere(x) == Held(x) \/ \E h \in Hooks : x = hooks[h].resp

(* A step makes one response at most: a request's, or a webhook's out of   *)
(* what it loaded.                                                         *)
Made(x) ==
    \/ HeldHere(x)
    \/ x = NoResponse
    \/ \E r \in Requests :
          /\ x = req'[r].resp
          /\ Refuses(r) \/ Calls(r) \/ Loses(r) \/ Concludes(r)
    \/ \E h \in Hooks, stored \in Stored :
          hooks[h].pc = "load" /\ x = Update(stored, h)

(* Nothing else comes to be held.                                          *)
LEMMA StepMakes ==
    ASSUME Typed, Step, NEW x, HeldHere(x)'
    PROVE  Made(x)
<1>. OrchTyped /\ OrchTypeOK
  BY TypedIsOrchTyped DEF OrchTyped
<1>1. ASSUME NEW r \in Requests, Proceeds(r) PROVE Made(x)
  <2>1. CASE Held(x)'
    BY <1>1, <2>1, MovesMake DEF Proceeds, Made, HeldHere
  <2>2. CASE (\E h \in Hooks : x = hooks[h].resp)'
    BY <1>1, <2>2 DEF Proceeds, Made, HeldHere, hookVars
  <2>. QED  BY <2>1, <2>2 DEF HeldHere
<1>2. CASE Halts
  <2>1. CASE Held(x)'
    BY <1>2, <2>1, RestartMakesNone DEF Halts, Made, HeldHere
  <2>2. CASE (\E h \in Hooks : x = hooks[h].resp)'
    BY <1>2, <2>2, NoHookIsIdle DEF Halts, Made
  <2>. QED  BY <2>1, <2>2 DEF HeldHere
<1>3. ASSUME SameStore, req' = req
      PROVE  Held(x)' => Held(x)
  BY <1>3 DEF Held, SameStore
<1>4. ASSUME NEW h \in Hooks, HookMoves(h) PROVE Made(x)
  <2>1. CASE Writes(h)
    <3>1. hooks[h].resp \in Response
      BY <2>1 DEF Writes, HookPasses, Typed, HandlersAreReady
    <3>2. \A k \in Keys : /\ byIdempotency'[k] \in {byIdempotency[k], hooks[h].resp}
                          /\ saved'[k] \subseteq saved[k] \cup {hooks[h].resp}
      BY <2>1, <3>1, SaveHolds DEF Writes
    <3>3. \A p \in Payments : byPaymentID'[p] \in {byPaymentID[p], hooks[h].resp}
      BY <2>1, <3>1, SaveHolds DEF Writes
    <3>4. Held(x)' => HeldHere(x)
      BY <2>1, <3>2, <3>3 DEF Writes, HookPasses, Held, HeldHere
    <3>5. \A g \in Hooks : hooks'[g].resp = hooks[g].resp
      BY <2>1 DEF Writes, HookPasses
    <3>. QED  BY <3>4, <3>5 DEF Made, HeldHere
  <2>2. CASE \/ \E i \in unacked : Takes(h, i)
             \/ Rejects(h) \/ Acknowledges(h)
    <3>1. /\ SameStore /\ req' = req
          /\ hooks'[h].resp \in {hooks[h].resp, NoResponse}
          /\ \A g \in Hooks : g # h => hooks'[g] = hooks[g]
      BY <2>2, NoHookIsIdle DEF Takes, Rejects, Acknowledges, HookPasses
    <3>. QED  BY <1>3, <3>1 DEF Made, HeldHere
  <2>3. ASSUME NEW stored \in Stored, Loads(h, stored) PROVE Made(x)
    <3>1. /\ SameStore /\ req' = req /\ hooks[h].pc = "load"
          /\ hooks'[h].resp = Update(stored, h)
          /\ \A g \in Hooks : g # h => hooks'[g] = hooks[g]
      BY <2>3 DEF Loads, HookPasses
    <3>. QED  BY <1>3, <3>1 DEF Made, HeldHere
  <2>. QED  BY <1>4, <2>1, <2>2, <2>3 DEF HookMoves
<1>5. CASE SameStore /\ UNCHANGED <<req, hooks>>
  BY <1>3, <1>5 DEF Made, HeldHere
<1>. QED  BY <1>1, <1>2, <1>4, <1>5 DEF Step, Settles, Reminds

-----------------------------------------------------------------------------
(* What the webhook goroutines know.                                       *)

(* YooKassa announces only operations of its own that are final; what a    *)
(* goroutine derived from one stays true of it, and what it is to store    *)
(* and send says no more.                                                  *)
Announced(i) ==
    /\ i \in DOMAIN ops
    /\ AdapterOf[ops[i].key] = "yookassa"
    /\ ops[i].status \in ProviderFinal

HookKnows(x) ==
    /\ x.pc # "idle" => /\ Announced(x.op)
                        /\ x.status = mapYooKassaStatus(ops[x.op].status)
    /\ x.pc \in {"save", "notify"} => /\ x.resp.key = ops[x.op].key
                                      /\ x.resp.status = x.status

HooksKnow ==
    /\ \A i \in unacked : Announced(i)
    /\ \A h \in Hooks : HookKnows(hooks[h])

(* What is announced stays so.                                             *)
LEMMA AnnouncedStays ==
    ASSUME OpsGrow, NEW i, Announced(i)
    PROVE  Announced(i)' /\ ops'[i] = ops[i]
BY DEF OpsGrow, Announced, ProviderFinal

(* Who knows goes on knowing.                                              *)
LEMMA HookKnowsOn ==
    ASSUME OpsGrow, NEW h \in Hooks, HookKnows(hooks[h]),
           hooks'[h] = hooks[h] \/ hooks'[h] = NoHook
    PROVE  HookKnows(hooks[h])'
<1>2. CASE hooks'[h] = NoHook
  BY <1>2, NoHookIsIdle DEF HookKnows
<1>3. CASE hooks'[h] = hooks[h]
  BY <1>3, AnnouncedStays DEF HookKnows
<1>. QED  BY <1>2, <1>3

(* The invariant of the webhook goroutines is inductive.                   *)
LEMMA HooksKnowStep == Typed /\ HooksKnow /\ Step => HooksKnow'
<1>. SUFFICES ASSUME Typed, HooksKnow, Step PROVE HooksKnow'  OBVIOUS
<1>. OpsGrow /\ OrchTypeOK
  BY StepGrows DEF Typed, TypeOK
<1>1. \A i \in unacked' : Announced(i)'
  <2>1. \A i \in unacked : Announced(i)'
    BY AnnouncedStays DEF HooksKnow
  <2>2. ASSUME NEW i \in DOMAIN ops, NEW status \in {"succeeded", "canceled"}, Settles(i, status)
        PROVE  \A j \in unacked' : Announced(j)'
    <3>1. ops'[i] = Operation(ops[i].key, status) /\ DOMAIN ops' = DOMAIN ops
      BY <2>2, SettleOp DEF Settles, OrchTypeOK
    <3>2. Announced(i)'
      BY <2>2, <3>1 DEF Settles, Announced, Operation, ProviderFinal
    <3>. QED  BY <2>1, <2>2, <3>2 DEF Settles
  <2>3. ASSUME NEW i \in DOMAIN ops, Reminds(i)
        PROVE  \A j \in unacked' : Announced(j)'
    BY <2>1, <2>3 DEF Reminds, Announced
  <2>4. CASE unacked' \subseteq unacked
    BY <2>1, <2>4
  <2>. QED
    BY <2>2, <2>3, <2>4 DEF Step, Proceeds, hookVars, HookMoves, Takes, Loads, Writes, Rejects,
                            Acknowledges, Halts
<1>2. \A h \in Hooks : HookKnows(hooks[h])'
  <2>1. ASSUME NEW h \in Hooks, hooks'[h] = hooks[h] \/ hooks'[h] = NoHook
        PROVE  HookKnows(hooks[h])'
    BY <2>1, HookKnowsOn DEF HooksKnow
  <2>2. ASSUME NEW h \in Hooks, HookMoves(h) PROVE \A g \in Hooks : HookKnows(hooks[g])'
    <3>1. \A g \in Hooks : g # h => hooks'[g] = hooks[g]
      BY <2>2 DEF HookMoves, HookPasses, Takes, Loads, Writes, Rejects, Acknowledges
    <3>2. HookKnows(hooks[h]) /\ ops' = ops
      BY <2>2 DEF HooksKnow, HookMoves, HookPasses, Takes, Loads, Writes, Rejects, Acknowledges
    <3>3. ASSUME NEW i \in unacked, Takes(h, i) PROVE HookKnows(hooks[h])'
      <4>1. Announced(i)
        BY DEF HooksKnow
      <4>. QED  BY <3>2, <3>3, <4>1 DEF Takes, HookPasses, HookKnows, Announced
    <3>4. ASSUME NEW stored \in Stored, Loads(h, stored) PROVE HookKnows(hooks[h])'
      <4>1. hooks[h].pc = "load"
        BY <3>4 DEF Loads, HookPasses
      <4>2. /\ hooks'[h].resp.key = ops[hooks[h].op].key
            /\ hooks'[h].resp.status = hooks[h].status
        BY <3>4, <4>1, UpdateIsResponse DEF Loads, Typed
      <4>. QED  BY <3>2, <3>4, <4>1, <4>2 DEF Loads, HookPasses, SameJob, HookKnows, Announced
    <3>5. ASSUME Writes(h) PROVE HookKnows(hooks[h])'
      BY <3>2, <3>5 DEF Writes, HookPasses, SameJob, HookKnows, Announced
    <3>6. ASSUME Rejects(h) \/ Acknowledges(h) PROVE HookKnows(hooks[h])'
      BY <2>1, <3>6 DEF Rejects, Acknowledges
    <3>. QED  BY <2>1, <2>2, <3>1, <3>3, <3>4, <3>5, <3>6 DEF HookMoves
  <2>3. CASE Halts
    BY <2>1, <2>3 DEF Halts
  <2>4. CASE hooks' = hooks
    BY <2>1, <2>4
  <2>. QED  BY <2>2, <2>3, <2>4 DEF Step, Proceeds, hookVars, Settles, Reminds
<1>. QED  BY <1>1, <1>2 DEF HooksKnow

(* The gateway starts with nothing announced.                              *)
LEMMA InitKnows == Init => HooksKnow
BY NoHookIsIdle DEF Init, HooksKnow, HookKnows

(* A webhook goroutine never acts on what YooKassa has not decided.        *)
LEMMA HooksAlwaysKnow == Spec => []HooksKnow
BY InitKnows, AlwaysTyped, NextMoves, HooksKnowStep, PTL DEF Spec

-----------------------------------------------------------------------------
(* What is said is true.                                                   *)

Opened(k)  == \E i \in DOMAIN ops : ops[i].key = k
Refused(k) == \E i \in DOMAIN ops : ops[i] = Operation(k, "canceled")
Paid(k)    == \E i \in DOMAIN ops : ops[i] = Operation(k, "succeeded")

(* Backed, and the like of the other things a response can say: that there *)
(* is an operation to wait for, that the provider refused, and that the    *)
(* buyer can pay on a page, which is that of an operation of its key.      *)
Truthful(x) ==
    /\ Backed(x)
    /\ (x.status = "PENDING" /\ AdapterOf[x.key] = "yookassa") => Opened(x.key)
    /\ x.code = "YOOKASSA_PAYMENT_DECLINED" => Refused(x.key)
    /\ x.url => /\ x.status = "PENDING"
                /\ x.ext = 0 \/ (x.ext \in DOMAIN ops /\ ops[x.ext].key = x.key)

NoticeTruthful(n) ==
    /\ n.status = "CAPTURED" => Paid(n.key)
    /\ (n.status = "PENDING" /\ AdapterOf[n.key] = "yookassa") => Opened(n.key)

Truth ==
    /\ \A x : HeldHere(x) => Truthful(x)
    /\ \A n \in notices : NoticeTruthful(n)

(* The books of the providers say no less later.                           *)
LEMMA BooksStay ==
    ASSUME OpsGrow, NEW k
    PROVE  /\ Opened(k) => Opened(k)'
           /\ Refused(k) => Refused(k)'
           /\ Paid(k) => Paid(k)'
<1>1. Operation(k, "canceled").status # "pending" /\ Operation(k, "succeeded").status # "pending"
  BY DEF Operation
<1>. QED  BY <1>1 DEF OpsGrow, Opened, Refused, Paid

(* What is true stays true.                                                *)
LEMMA TruthfulStays ==
    ASSUME OpsGrow, NEW x, Truthful(x)
    PROVE  Truthful(x)'
<1>1. Backed(x)'
  BY DEF Truthful, Backed, OpsGrow
<1>2. x.url => (x.ext = 0 \/ (x.ext \in DOMAIN ops' /\ ops'[x.ext].key = x.key))
  BY DEF Truthful, OpsGrow
<1>. QED  BY <1>1, <1>2, BooksStay DEF Truthful

(* The absence of a response says nothing.                                 *)
LEMMA NoResponseIsTruthful == Truthful(NoResponse)
BY DEF Truthful, Backed, NoResponse

(* What an adapter answers is true.                                        *)
LEMMA AnswersAreTruthful ==
    ASSUME OrchTyped, NEW r \in Requests, Calls(r)
    PROVE  \A x : x = req'[r].resp => Truthful(x)'
<1>. SUFFICES ASSUME NEW k, k = ValidatedKey(r), NEW n, n = Len(ops) + 1
              PROVE  \A x : x = req'[r].resp => Truthful(x)'
  OBVIOUS
<1>. TAKE x
<1>1. OrchTypeOK /\ ops \in Seq(Op) /\ k \in Keys
  BY RequestIsTyped DEF OrchTyped, OrchTypeOK, Calls, Opens, Misses, Links, Repeats,
                        OpensElsewhere, Sends, Passes
<1>2. ASSUME NEW status \in {"pending", "succeeded"}, ops' = Append(ops, Operation(k, status))
      PROVE  n \in DOMAIN ops' /\ ops'[n].key = k /\ ops'[n].status = status /\ Opened(k)'
  <2>1. n \in DOMAIN ops' /\ ops'[n] = Operation(k, status)
    BY <1>1, <1>2, AppendOp
  <2>. QED  BY <2>1 DEF Operation, Opened
<1>3. ASSUME Opens(r) \/ OpensElsewhere(r, "pending"), x = req'[r].resp PROVE Truthful(x)'
  <2>1. ops' = Append(ops, Operation(k, "pending")) /\ x = Result(k, "PENDING", "", n, TRUE)
    BY <1>3 DEF Opens, OpensElsewhere
  <2>2. x.key = k /\ x.status = "PENDING" /\ x.code = "" /\ x.ext = n
    BY <2>1 DEF Result
  <2>. QED  BY <1>2, <2>1, <2>2 DEF Truthful, Backed
<1>4. ASSUME OpensElsewhere(r, "succeeded"), x = req'[r].resp PROVE Truthful(x)'
  <2>1. ops' = Append(ops, Operation(k, "succeeded")) /\ x = Result(k, "CAPTURED", "", n, FALSE)
    BY <1>4 DEF OpensElsewhere
  <2>2. x.key = k /\ x.status = "CAPTURED" /\ x.code = "" /\ x.ext = n /\ x.url = FALSE
    BY <2>1 DEF Result
  <2>. QED  BY <1>2, <2>1, <2>2 DEF Truthful, Backed
<1>5. ASSUME Misses(r), x = req'[r].resp PROVE Truthful(x)'
  <2>1. x = Unavailable(k)
    BY <1>5 DEF Misses
  <2>. QED  BY <2>1 DEF Unavailable, Result, Truthful, Backed
<1>6. ASSUME Links(r), x = req'[r].resp PROVE Truthful(x)'
  <2>1. x = Result(k, "PENDING", "", 0, TRUE) /\ AdapterOf[k] = "payanyway"
    BY <1>6 DEF Links
  <2>2. x.key = k /\ x.status = "PENDING" /\ x.code = "" /\ x.ext = 0
    BY <2>1 DEF Result
  <2>. QED  BY <1>6, <2>1, <2>2 DEF Truthful, Backed
<1>7. ASSUME NEW i \in KnownOps(k), Repeats(r, i), x = req'[r].resp PROVE Truthful(x)'
  <2>. DEFINE status == mapYooKassaStatus(ops[i].status)
  <2>1. i \in DOMAIN ops /\ ops[i].key = k /\ ops' = ops
    BY <1>7 DEF KnownOps, Repeats
  <2>2. ops[i].status \in {"pending", "succeeded", "canceled"}
        /\ ops[i] = Operation(k, ops[i].status)
    BY <1>1, <2>1, OpIsTyped
  <2>3. /\ status = "CAPTURED" => ops[i].status = "succeeded"
        /\ status = "DECLINED" => ops[i].status = "canceled"
        /\ ops[i].status = "pending" => status = "PENDING"
    BY <2>2 DEF mapYooKassaStatus
  <2>. HIDE DEF status
  <2>4. x = Result(k, status, YooKassaErrorCode(status), i, ops[i].status = "pending")
    BY <1>7 DEF Repeats, status
  <2>5. /\ x.key = k /\ x.status = status /\ x.ext = i
        /\ x.url = (ops[i].status = "pending")
        /\ x.code = YooKassaErrorCode(status)
    BY <2>4 DEF Result
  <2>6. x.code = "YOOKASSA_PAYMENT_DECLINED" => status = "DECLINED"
    BY <2>5 DEF YooKassaErrorCode
  <2>7. Truthful(x)
    BY <2>1, <2>2, <2>3, <2>5, <2>6 DEF Truthful, Backed, Opened, Refused
  <2>8. OpsGrow
    BY <2>1 DEF OpsGrow
  <2>. QED  BY <2>7, <2>8, TruthfulStays
<1>. QED  BY <1>3, <1>4, <1>5, <1>6, <1>7 DEF Calls

(* So is all that is made of answers.                                      *)
LEMMA MadeIsTruthful ==
    ASSUME Typed, HooksKnow, Truth, Step, NEW x, Made(x)
    PROVE  Truthful(x)'
<1>. OrchTyped /\ OpsGrow /\ OrchTypeOK
  BY TypedIsOrchTyped, StepGrows DEF OrchTyped
<1>1. CASE HeldHere(x)
  BY <1>1, TruthfulStays DEF Truth
<1>2. CASE x = NoResponse
  BY <1>2, NoResponseIsTruthful, TruthfulStays
<1>3. ASSUME NEW r \in Requests, x = req'[r].resp, Calls(r) PROVE Truthful(x)'
  BY <1>3, AnswersAreTruthful
<1>4. ASSUME NEW r \in Requests, x = req'[r].resp, Refuses(r) PROVE Truthful(x)'
  <2>1. PICK f \in Refusals : x = Result(RefusedKey(r, f), f[1], f[2], 0, FALSE)
    BY <1>4 DEF Refuses
  <2>2. f[1] \notin {"CAPTURED", "PENDING"} /\ f[2] # "YOOKASSA_PAYMENT_DECLINED"
    BY DEF Refusals
  <2>3. x.status = f[1] /\ x.code = f[2] /\ x.url = FALSE
    BY <2>1 DEF Result
  <2>4. Truthful(x)
    BY <2>2, <2>3 DEF Truthful, Backed
  <2>. QED  BY <2>4, TruthfulStays
<1>5. ASSUME NEW r \in Requests, x = req'[r].resp, Loses(r) PROVE Truthful(x)'
  <2>1. x = Unavailable(ValidatedKey(r))
    BY <1>5 DEF Loses
  <2>2. Truthful(x)
    BY <2>1 DEF Unavailable, Result, Truthful, Backed
  <2>. QED  BY <2>2, TruthfulStays
<1>6. ASSUME NEW r \in Requests, x = req'[r].resp, Concludes(r) PROVE Truthful(x)'
  <2>1. req[r].resp \in Response /\ x = FinalResponse(r)
    BY <1>6, RequestIsTyped DEF Concludes, Passes, Ready, RequestIsReady
  <2>2. Truthful(req[r].resp)
    BY DEF Truth, HeldHere, Held
  <2>3. /\ x.key = req[r].resp.key /\ x.code = req[r].resp.code
        /\ x.ext = req[r].resp.ext /\ x.url = req[r].resp.url
        /\ x.status = HandleCallbackStatus(req[r].resp.status)
    BY <2>1 DEF FinalResponse, Response
  <2>4. /\ x.status = "CAPTURED" <=> req[r].resp.status = "CAPTURED"
        /\ x.status = "PENDING" <=> req[r].resp.status = "PENDING"
    BY <2>3 DEF HandleCallbackStatus, NotRetryable
  <2>5. Truthful(x)
    BY <2>2, <2>3, <2>4 DEF Truthful, Backed
  <2>. QED  BY <2>5, TruthfulStays
<1>7. ASSUME NEW h \in Hooks, NEW stored \in Stored, hooks[h].pc = "load",
             x = Update(stored, h)
      PROVE  Truthful(x)'
  <2>. DEFINE i == hooks[h].op
  <2>1. /\ x.key = ops[i].key /\ x.status = hooks[h].status /\ x.ext = i
        /\ x.code = YooKassaErrorCode(hooks[h].status) /\ x.url = FALSE
    BY <1>7, UpdateIsResponse DEF Typed
  <2>2. Announced(i) /\ hooks[h].status = mapYooKassaStatus(ops[i].status)
    BY <1>7 DEF HooksKnow, HookKnows
  <2>3. i \in DOMAIN ops /\ ops[i] = Operation(ops[i].key, ops[i].status)
    BY <2>2, OpIsTyped DEF Announced
  <2>4. /\ x.status = "CAPTURED" => ops[i].status = "succeeded"
        /\ x.status # "PENDING"
        /\ x.code = "YOOKASSA_PAYMENT_DECLINED" => ops[i].status = "canceled"
    BY <2>1, <2>2 DEF mapYooKassaStatus, YooKassaErrorCode, Announced, ProviderFinal
  <2>. HIDE DEF i
  <2>5. Truthful(x)
    BY <2>1, <2>3, <2>4 DEF Truthful, Backed, Refused
  <2>. QED  BY <2>5, TruthfulStays
<1>. QED  BY <1>1, <1>2, <1>3, <1>4, <1>5, <1>6, <1>7 DEF Made

(* What a step notifies the merchant of: a response of a request or of a   *)
(* webhook goroutine.                                                      *)
Tells ==
    \E x : /\ HeldHere(x) /\ x \in Response
           /\ \E by \in {"orchestrator", "webhook"} : Deliver(x, by)

(* Only a Notify, of the orchestrator or of a webhook, sends one.          *)
LEMMA StepTells == Typed /\ Step => Tells \/ notices' = notices
<1>. SUFFICES ASSUME Typed, Step PROVE Tells \/ notices' = notices  OBVIOUS
<1>1. ASSUME NEW r \in Requests, Notifies(r) PROVE Tells
  <2>1. req[r].resp \in Response
    BY <1>1, TypedIsOrchTyped, RequestIsTyped DEF Notifies, Passes, Ready, RequestIsReady
  <2>2. HeldHere(req[r].resp)
    BY DEF HeldHere, Held
  <2>. QED  BY <1>1, <2>1, <2>2 DEF Notifies, Tells
<1>2. ASSUME NEW r \in Requests, Proceeds(r), ~Notifies(r) PROVE notices' = notices
  BY <1>2 DEF Proceeds, Moves, Calls, Arrives, Unheard, Replays, Starts, Prepares, Refuses, Opens,
              OpensElsewhere, Misses, Links, Repeats, Sends, Loses, Retries, Concludes, Stores,
              Misfires
<1>3. ASSUME NEW h \in Hooks, Acknowledges(h) PROVE Tells
  <2>1. hooks[h].resp \in Response
    BY <1>3 DEF Acknowledges, HookPasses, Typed, HandlersAreReady
  <2>2. HeldHere(hooks[h].resp)
    BY DEF HeldHere
  <2>. QED  BY <1>3, <2>1, <2>2 DEF Acknowledges, Tells
<1>4. ASSUME NEW h \in Hooks, HookMoves(h), ~Acknowledges(h) PROVE notices' = notices
  BY <1>4 DEF HookMoves, Takes, Loads, Writes, Rejects
<1>5. CASE \/ \E i \in DOMAIN ops :
               Reminds(i) \/ \E status \in {"succeeded", "canceled"} : Settles(i, status)
           \/ Halts
           \/ SameStore /\ UNCHANGED <<req, ops, notices, hooks, unacked>>
  BY <1>5 DEF Reminds, Settles, Halts, Stops
<1>. QED  BY <1>1, <1>2, <1>3, <1>4, <1>5 DEF Step

(* The notification of a true response is true.                            *)
LEMMA NoticeIsTruthful ==
    ASSUME OrchTypeOK, NEW x, Truthful(x), NEW n, n.key = x.key, n.status = x.status
    PROVE  NoticeTruthful(n)
<1>1. n.status = "CAPTURED" => Paid(n.key)
  BY OpIsTyped DEF Truthful, Backed, Paid
<1>. QED  BY <1>1 DEF Truthful, NoticeTruthful

(* A true notification stays true.                                         *)
LEMMA NoticeStaysTruthful ==
    ASSUME OpsGrow, NEW n, NoticeTruthful(n)
    PROVE  NoticeTruthful(n)'
BY BooksStay DEF NoticeTruthful

(* Truth is inductive.                                                     *)
LEMMA TruthStep == Typed /\ HooksKnow /\ Truth /\ Step => Truth'
<1>. SUFFICES ASSUME Typed, HooksKnow, Truth, Step PROVE Truth'  OBVIOUS
<1>. OrchTypeOK /\ OpsGrow
  BY StepGrows DEF Typed, TypeOK
<1>1. ASSUME NEW x, HeldHere(x)' PROVE Truthful(x)'
  BY <1>1, StepMakes, MadeIsTruthful
<1>2. ASSUME NEW n \in notices' PROVE NoticeTruthful(n)'
  <2>1. CASE n \in notices
    BY <2>1, NoticeStaysTruthful DEF Truth
  <2>2. CASE n \notin notices
    <3>0. Tells
      BY <1>2, <2>2, StepTells
    <3>1. PICK x : HeldHere(x) /\ \E by \in {"orchestrator", "webhook"} : Deliver(x, by)
      BY <3>0 DEF Tells
    <3>2. PICK by : n = [key |-> x.key, status |-> x.status, by |-> by]
      BY <1>2, <2>2, <3>1 DEF Deliver
    <3>3. n.key = x.key /\ n.status = x.status
      BY <3>2
    <3>4. Truthful(x)
      BY <3>1 DEF Truth
    <3>. QED  BY <3>3, <3>4, NoticeIsTruthful, NoticeStaysTruthful
  <2>. QED  BY <2>1, <2>2
<1>. QED  BY <1>1, <1>2 DEF Truth

(* The gateway starts with nothing said.                                   *)
LEMMA InitIsTruthful == Init => Truth
<1>. SUFFICES ASSUME Init PROVE Truth  OBVIOUS
<1>1. Idle.resp = NoResponse
  BY DEF Idle
<1>2. ASSUME NEW x, HeldHere(x) PROVE x = NoResponse
  BY <1>1, <1>2, NoHookIsIdle DEF HeldHere, Held, Init, OrchInit
<1>. QED  BY <1>2, NoResponseIsTruthful DEF Truth, Init, OrchInit

(* Whatever a handler holds, stores or sends is true.                      *)
LEMMA AlwaysTrue == Spec => []Truth
BY InitIsTruthful, AlwaysTyped, HooksAlwaysKnow, NextMoves, TruthStep, PTL DEF Spec

(* No record, no response a merchant was given and no notification says    *)
(* CAPTURED of a payment the provider did not capture: with any number of  *)
(* requests and webhook goroutines for any keys, any loss and repetition,  *)
(* restarts, and either kind of store.                                     *)
THEOREM CapturesAreBacked == Spec => []CapturedIsBacked
<1>1. Truth => CapturedIsBacked
  <2>. SUFFICES ASSUME Truth PROVE CapturedIsBacked  OBVIOUS
  <2>1. /\ \A k \in Keys : HeldHere(byIdempotency[k])
        /\ \A p \in Payments : HeldHere(byPaymentID[p])
        /\ \A r \in Requests : HeldHere(req[r].resp)
    BY DEF HeldHere, Held
  <2>2. \A n \in notices : n.status = "CAPTURED" => Paid(n.key)
    BY DEF Truth, NoticeTruthful
  <2>. QED  BY <2>1, <2>2 DEF Truth, Truthful, Paid, CapturedIsBacked
<1>. QED  BY <1>1, AlwaysTrue, PTL

-----------------------------------------------------------------------------
(* One operation for each key.                                             *)

(* A new operation is of a request that makes an adapter call, and         *)
(* YooKassa opens none for a key it knows.                                 *)
LEMMA StepOpens ==
    ASSUME Typed, Step, NEW n \in DOMAIN ops' \ DOMAIN ops
    PROVE  \E r \in Requests :
              /\ Sends(r)
              /\ ValidatedKey(r) \in Keys
              /\ n = Len(ops) + 1
              /\ ops'[n].key = ValidatedKey(r)
              /\ AdapterOf[ValidatedKey(r)] = "yookassa" => KnownOps(ValidatedKey(r)) = {}
<1>. OrchTyped /\ ops \in Seq(Op)
  BY TypedIsOrchTyped DEF OrchTyped, OrchTypeOK
<1>1. ASSUME NEW r \in Requests,
             Opens(r) \/ \E status \in {"pending", "succeeded"} : OpensElsewhere(r, status)
      PROVE  /\ Sends(r)
             /\ ValidatedKey(r) \in Keys
             /\ n = Len(ops) + 1
             /\ ops'[n].key = ValidatedKey(r)
             /\ AdapterOf[ValidatedKey(r)] = "yookassa" => KnownOps(ValidatedKey(r)) = {}
  <2>1. Sends(r) /\ ValidatedKey(r) \in Keys
    BY <1>1, RequestIsTyped DEF Opens, OpensElsewhere, Sends, Passes
  <2>2. PICK status \in {"pending", "succeeded"} :
           ops' = Append(ops, Operation(ValidatedKey(r), status))
    BY <1>1 DEF Opens, OpensElsewhere
  <2>3. n = Len(ops) + 1 /\ ops'[n] = Operation(ValidatedKey(r), status)
    BY <2>1, <2>2, AppendOp
  <2>4. ops'[n].key = ValidatedKey(r)
    BY <2>3 DEF Operation
  <2>. QED  BY <1>1, <2>1, <2>3, <2>4 DEF Opens, OpensElsewhere
<1>2. ASSUME NEW i \in DOMAIN ops, NEW status \in {"succeeded", "canceled"}, Settles(i, status)
      PROVE  FALSE
  BY <1>2, SettleOp DEF Settles
<1>3. ops' # ops
  OBVIOUS
<1>. QED
  BY <1>1, <1>2, <1>3 DEF Step, Proceeds, Moves, Calls, Arrives, Unheard, Replays, Starts, Prepares,
        Refuses, Misses, Links, Repeats, Loses, Retries, Concludes, Notifies, Stores, Misfires,
        Reminds, HookMoves, Takes, Loads, Writes, Rejects, Acknowledges, HookPasses, Halts, Stops

(* YooKassa deduplicates: it has one operation for an idempotency key.     *)
(* This is what the model assumes of it (OpenAtYooKassa), not something    *)
(* the gateway brings about; the theorems on its promises rest on it.      *)
OneOperationPerKey ==
    \A i, j \in DOMAIN ops :
        (ops[i].key = ops[j].key /\ AdapterOf[ops[i].key] = "yookassa") => i = j

(* A step keeps it so.                                                     *)
LEMMA OneOperationStep == Typed /\ OneOperationPerKey /\ Step => OneOperationPerKey'
<1>. SUFFICES ASSUME Typed, OneOperationPerKey, Step,
                     NEW i \in DOMAIN ops', NEW j \in DOMAIN ops',
                     ops'[i].key = ops'[j].key, AdapterOf[ops'[i].key] = "yookassa"
              PROVE  i = j
  BY DEF OneOperationPerKey
<1>1. OpsGrow
  BY StepGrows
<1>2. ASSUME NEW m \in DOMAIN ops, NEW n \in DOMAIN ops' \ DOMAIN ops,
             ops'[m].key = ops'[n].key, AdapterOf[ops'[n].key] = "yookassa"
      PROVE  FALSE
  BY <1>1, <1>2, StepOpens DEF OpsGrow, KnownOps
<1>3. CASE i \in DOMAIN ops /\ j \in DOMAIN ops
  BY <1>1, <1>3 DEF OpsGrow, OneOperationPerKey
<1>4. CASE i \notin DOMAIN ops /\ j \notin DOMAIN ops
  BY <1>4, StepOpens
<1>. QED  BY <1>2, <1>3, <1>4

(* There is one operation for a key at any time.                           *)
LEMMA AlwaysOne == Spec => []OneOperationPerKey
<1>1. DOMAIN << >> = {}
  BY EmptySeq
<1>2. Init => OneOperationPerKey
  BY <1>1 DEF Init, OrchInit, OneOperationPerKey
<1>. QED  BY <1>2, AlwaysTyped, NextMoves, OneOperationStep, PTL DEF Spec

-----------------------------------------------------------------------------
(* Settled keys.                                                           *)

(* A whole response counts as found.                                       *)
LEMMA ResponseIsFound ==
    ASSUME NEW x \in Response
    PROVE  Found(x)
BY DEF Response, Statuses, Found

(* A record is only ever replaced by another, but for the loss of an       *)
(* in-memory store.                                                        *)
LEMMA RecordsStay ==
    ASSUME Typed, Step, ~StoreLost, NEW k \in Keys, Found(byIdempotency[k])
    PROVE  Found(byIdempotency'[k])
<1>. OrchTyped /\ OrchTypeOK
  BY TypedIsOrchTyped DEF OrchTyped
<1>1. ASSUME NEW x \in Response, Save(x) PROVE Found(byIdempotency'[k])
  BY <1>1, SaveHolds, ResponseIsFound
<1>2. ASSUME NEW r \in Requests, Stores(r) PROVE Found(byIdempotency'[k])
  BY <1>1, <1>2, RequestIsTyped DEF Stores, Passes, Ready, RequestIsReady
<1>3. ASSUME NEW h \in Hooks, Writes(h) PROVE Found(byIdempotency'[k])
  BY <1>1, <1>3 DEF Writes, HookPasses, Typed, HandlersAreReady
<1>4. CASE Halts
  BY <1>4 DEF Halts, Stops, StoreLost, Found, NoResponse
<1>5. CASE byIdempotency' = byIdempotency
  BY <1>5
<1>. QED
  BY <1>2, <1>3, <1>4, <1>5 DEF Step, SameStore, Proceeds, Moves, Calls, Arrives, Unheard, Replays,
        Starts, Prepares, Refuses, Opens, OpensElsewhere, Sends, Misses, Links, Repeats, Loses,
        Retries, Concludes, Notifies, Misfires, Settles, Reminds, HookMoves, Takes, Loads,
        Rejects, Acknowledges

(* A request gets past the lookup of a key only while nothing is stored    *)
(* for it.                                                                 *)
LEMMA WorkBegins ==
    ASSUME Typed, Step, NEW r \in Requests, req'[r].pc \in Working, req[r].pc \notin Working
    PROVE  req[r].pc = "lookup" /\ req'[r].key = req[r].key /\ ~Found(byIdempotency[req[r].key])
<1>. SUFFICES Starts(r)
  BY DEF Starts, Passes
<1>1. ASSUME NEW q \in Requests, Proceeds(q) PROVE Starts(r)
  BY <1>1 DEF Proceeds, Moves, Calls, Arrives, Replays, Prepares, Refuses, Opens, OpensElsewhere,
              Sends, Misses, Links, Repeats, Loses, Retries, Concludes, Notifies, Stores, Misfires,
              Starts, Passes, Working
<1>2. CASE Halts
  BY <1>2 DEF Halts, Stops, Working
<1>3. CASE req' = req
  BY <1>3
<1>. QED  BY <1>1, <1>2, <1>3 DEF Step, Settles, Reminds, HookMoves, HookPasses, Takes, Loads,
                                  Writes, Rejects, Acknowledges

(* The key of a request at work does not change.                           *)
LEMMA WorkKeepsKey ==
    ASSUME Typed, Step, NEW r \in Requests, req[r].pc # "idle"
    PROVE  req'[r].key = req[r].key
<1>1. ASSUME NEW q \in Requests, Proceeds(q) PROVE req'[r].key = req[r].key
  BY <1>1 DEF Proceeds, Moves, Calls, Arrives, Replays, Prepares, Refuses, Opens, OpensElsewhere,
              Sends, Misses, Links, Repeats, Loses, Retries, Concludes, Notifies, Stores, Misfires,
              Starts, Passes
<1>2. CASE Halts
  BY <1>2 DEF Halts, Stops
<1>3. CASE req' = req
  BY <1>3
<1>. QED  BY <1>1, <1>2, <1>3 DEF Step, Settles, Reminds, HookMoves, HookPasses, Takes, Loads,
                                  Writes, Rejects, Acknowledges

(* A settled key stays settled.                                            *)
LEMMA SettledStays ==
    ASSUME Typed, Step, ~StoreLost, NEW k \in Keys, Settled(k)
    PROVE  Settled(k)'
<1>1. ASSUME NEW r \in Requests, req'[r].key = k PROVE req'[r].pc \notin Working
  <2>. SUFFICES ASSUME req'[r].pc \in Working PROVE FALSE  OBVIOUS
  <2>1. CASE req[r].pc \in Working
    BY <1>1, <2>1, WorkKeepsKey DEF Settled, Working
  <2>2. CASE req[r].pc \notin Working
    BY <1>1, <2>2, WorkBegins DEF Settled
  <2>. QED  BY <2>1, <2>2
<1>. QED  BY <1>1, RecordsStay DEF Settled

(* No adapter call is made for a settled key, of YooKassa or of another    *)
(* provider, for any number of requests and webhook goroutines: the        *)
(* idempotency check answers from the store.                               *)
THEOREM SettledStaysSettled == Spec => SettledForGood
<1>1. ASSUME Typed, Step, ~StoreLost, NEW k \in Keys, Settled(k),
             NEW n \in DOMAIN ops' \ DOMAIN ops
      PROVE  ops'[n].key # k
  <2>1. PICK r \in Requests : req[r].pc = "send" /\ ops'[n].key = ValidatedKey(r)
    BY <1>1, StepOpens DEF Sends, Passes
  <2>2. req[r].key \in Keys
    BY <2>1, TypedIsOrchTyped, RequestIsTyped, <1>1 DEF Ready, RequestIsReady
  <2>. QED  BY <1>1, <2>1, <2>2 DEF Settled, ValidatedKey, Working
<1>2. Typed /\ Step =>
        [\A k \in Keys : (Settled(k) /\ ~StoreLost) =>
            /\ Settled(k)'
            /\ \A i \in DOMAIN ops' \ DOMAIN ops : ops'[i].key # k]_vars
  BY <1>1, SettledStays
<1>. QED  BY <1>2, AlwaysTyped, NextMoves, PTL DEF Spec, SettledForGood

-----------------------------------------------------------------------------
(* PaymentContract: the charges.                                           *)

(* The statuses of an operation can be told apart by its charge.           *)
LEMMA ChargesDiffer ==
    ASSUME NEW s \in Contract!Fates
    PROVE  /\ Contract!Charge(s) # Contract!NoCharge
           /\ \A t \in Contract!Fates : Contract!Charge(s) = Contract!Charge(t) => s = t
<1>1. Contract!Charge(s)[s] = 1 /\ Contract!NoCharge[s] = 0
  BY DEF Contract!Charge, Contract!NoCharge
<1>2. \A t \in Contract!Fates : s # t => Contract!Charge(t)[s] = 0
  BY DEF Contract!Charge, Contract!NoCharge
<1>. QED  BY <1>1, <1>2

(* A key without an operation, and one with one: what Charges counts.      *)
LEMMA ChargesOf ==
    ASSUME NEW k
    PROVE  /\ KnownOps(k) = {} => Charges(k) = Contract!NoCharge
           /\ \A i : (KnownOps(k) = {i} /\ ops[i].status \in Contract!Fates)
                        => Charges(k) = Contract!Charge(ops[i].status)
<1>. DEFINE C(s) == {i \in KnownOps(k) : ops[i].status = s}
<1>1. ASSUME KnownOps(k) = {} PROVE Charges(k) = Contract!NoCharge
  <2>1. \A s : C(s) = {}
    BY <1>1
  <2>2. \A s : Cardinality(C(s)) = 0
    BY <2>1, FS_EmptySet
  <2>. QED  BY <2>2 DEF Charges, Contract!NoCharge, Contract!Fates
<1>2. ASSUME NEW i, KnownOps(k) = {i}, ops[i].status \in Contract!Fates
      PROVE  Charges(k) = Contract!Charge(ops[i].status)
  <2>1. \A s : C(s) = IF s = ops[i].status THEN {i} ELSE {}
    BY <1>2
  <2>2. Cardinality({i}) = 1 /\ Cardinality({}) = 0
    BY FS_EmptySet, FS_Singleton
  <2>3. \A s : Cardinality(C(s)) = IF s = ops[i].status THEN 1 ELSE 0
    BY <2>1, <2>2
  <2>4. Charges(k) = [s \in Contract!Fates |-> IF s = ops[i].status THEN 1 ELSE 0]
    BY <2>3 DEF Charges, Contract!Fates
  <2>. QED  BY <1>2, <2>4 DEF Contract!Charge, Contract!NoCharge
<1>. QED  BY <1>1, <1>2

(* The same of the next state.                                             *)
LEMMA ChargesOfNext ==
    ASSUME NEW k
    PROVE  \A i : (KnownOps(k)' = {i} /\ ops'[i].status \in Contract!Fates)
                        => Charges(k)' = Contract!Charge(ops'[i].status)
<1>. DEFINE C(s) == {i \in KnownOps(k)' : ops'[i].status = s}
<1>. TAKE i
<1>. SUFFICES ASSUME KnownOps(k)' = {i}, ops'[i].status \in Contract!Fates
              PROVE  Charges(k)' = Contract!Charge(ops'[i].status)
  OBVIOUS
<1>1. \A s : C(s) = IF s = ops'[i].status THEN {i} ELSE {}
  OBVIOUS
<1>2. Cardinality({i}) = 1 /\ Cardinality({}) = 0
  BY FS_EmptySet, FS_Singleton
<1>3. \A s : Cardinality(C(s)) = IF s = ops'[i].status THEN 1 ELSE 0
  BY <1>1, <1>2
<1>4. Charges(k)' = [s \in Contract!Fates |-> IF s = ops'[i].status THEN 1 ELSE 0]
  BY <1>3 DEF Charges, Contract!Fates
<1>. QED  BY <1>4 DEF Contract!Charge, Contract!NoCharge

(* Operations of other keys do not count.                                  *)
LEMMA ChargesStay ==
    ASSUME NEW k, KnownOps(k)' = KnownOps(k),
           \A i \in KnownOps(k) : ops'[i].status = ops[i].status
    PROVE  Charges(k)' = Charges(k)
<1>. DEFINE C(s) == {i \in KnownOps(k) : ops[i].status = s}
            D(s) == {i \in KnownOps(k)' : ops'[i].status = s}
<1>1. \A s : D(s) = C(s)
  OBVIOUS
<1>2. \A s : Cardinality(D(s)) = Cardinality(C(s))
  BY <1>1
<1>. QED  BY <1>2 DEF Charges

(* What the provider's books show of the charges of a key.                 *)
LEMMA BooksShowCharges ==
    ASSUME OrchTypeOK, OneOperationPerKey, NEW k \in YooKassaKeys
    PROVE  /\ Opened(k) => Charges(k) # Contract!NoCharge
           /\ Paid(k) => Charges(k) = Contract!Charge("succeeded")
           /\ Refused(k) => Charges(k) = Contract!Charge("canceled")
<1>1. ASSUME NEW i \in DOMAIN ops, ops[i].key = k
      PROVE  KnownOps(k) = {i} /\ ops[i].status \in Contract!Fates
  BY <1>1, OpIsTyped DEF KnownOps, YooKassaKeys, OneOperationPerKey, Contract!Fates
<1>2. \A s : Operation(k, s).key = k /\ Operation(k, s).status = s
  BY DEF Operation
<1>. QED  BY <1>1, <1>2, ChargesOf, ChargesDiffer DEF Opened, Paid, Refused

-----------------------------------------------------------------------------
(* PaymentContract: the words.                                             *)

(* What a whole response says of the payment.                              *)
LEMMA MeaningIsAWord ==
    ASSUME NEW x \in Response
    PROVE  /\ Meaning(x) \in Contract!Words
           /\ Meaning(x) = "PENDING" <=> x.status = "PENDING"
           /\ Meaning(x) = "CAPTURED" <=> x.status = "CAPTURED"
           /\ Meaning(x) = "CANCELED" => x.code = "YOOKASSA_PAYMENT_DECLINED"
BY DEF Meaning, Contract!Words

(* w is told of k by a stored response, an answer or a notification.       *)
Said(k, w) ==
    \/ \E x \in saved[k] : w = Meaning(x)
    \/ \E r \in Requests : Received(r) /\ req[r].resp.key = k /\ w = Meaning(req[r].resp)
    \/ \E n \in notices : n.key = k /\ w = n.status /\ w \in {"PENDING", "CAPTURED"}

(* Said is what Told collects.                                             *)
LEMMA ToldIsSaid ==
    ASSUME NEW k, NEW w
    PROVE  /\ w \in Told(k) <=> Said(k, w)
           /\ w \in Told(k)' <=> Said(k, w)'
BY DEF Told, Said

(* A step says no more than one word of one key, and takes none back.      *)
Utters(x) ==
    \A k \in Keys : \A w :
        /\ Said(k, w) => Said(k, w)'
        /\ Said(k, w)' => Said(k, w) \/ (k = x.key /\ w = Meaning(x))

Silent == \A k \in Keys : \A w : Said(k, w)' <=> Said(k, w)

(* Steps that store nothing, answer nothing and notify nobody say nothing. *)
LEMMA NothingIsSaid ==
    ASSUME UNCHANGED <<saved, notices>>,
           \A r \in Requests : /\ Received(r)' <=> Received(r)
                               /\ Received(r) => req'[r].resp = req[r].resp
    PROVE  Silent
BY DEF Silent, Said

(* A notification says what its response means, or nothing.                *)
LEMMA DeliveryUtters ==
    ASSUME NEW x \in Response, NEW by, Deliver(x, by), saved' = saved,
           \A r \in Requests : /\ Received(r)' <=> Received(r)
                               /\ Received(r) => req'[r].resp = req[r].resp
    PROVE  Utters(x)
<1>. DEFINE n == [key |-> x.key, status |-> x.status, by |-> by]
<1>1. n.key = x.key /\ n.status = x.status
  OBVIOUS
<1>2. notices' = notices \cup {n} \/ notices' = notices
  BY DEF Deliver
<1>. HIDE DEF n
<1>. QED  BY <1>1, <1>2, MeaningIsAWord DEF Utters, Said

(* Save says what its response means, to whoever reads the record.         *)
LEMMA SavingUtters ==
    ASSUME OrchTypeOK, NEW x \in Response, Save(x), notices' = notices,
           \A r \in Requests :
              \/ /\ Received(r)' <=> Received(r)
                 /\ Received(r) => req'[r].resp = req[r].resp
              \/ ~Received(r) /\ Received(r)' /\ req'[r].resp = x
    PROVE  Utters(x)
<1>1. \A k \in Keys : saved'[k] = IF k = x.key THEN saved[k] \cup {x} ELSE saved[k]
  BY SaveHolds
<1>. SUFFICES ASSUME NEW k \in Keys, NEW w
              PROVE  /\ Said(k, w) => Said(k, w)'
                     /\ Said(k, w)' => Said(k, w) \/ (k = x.key /\ w = Meaning(x))
  BY DEF Utters
<1>2. \A r \in Requests : Received(r) => Received(r)' /\ req'[r].resp = req[r].resp
  OBVIOUS
<1>3. ASSUME Said(k, w) PROVE Said(k, w)'
  BY <1>1, <1>2, <1>3 DEF Said
<1>4. ASSUME NEW r \in Requests, Received(r)', req'[r].resp.key = k, w = Meaning(req'[r].resp)
      PROVE  Said(k, w) \/ (k = x.key /\ w = Meaning(x))
  <2>1. CASE Received(r) /\ req'[r].resp = req[r].resp
    BY <1>4, <2>1 DEF Said
  <2>2. CASE req'[r].resp = x
    BY <1>4, <2>2
  <2>. QED  BY <1>4, <2>1, <2>2
<1>5. ASSUME NEW y \in saved'[k], w = Meaning(y)
      PROVE  Said(k, w) \/ (k = x.key /\ w = Meaning(x))
  <2>1. CASE y \in saved[k]
    BY <1>5, <2>1 DEF Said
  <2>2. CASE y \notin saved[k]
    <3>1. k = x.key
      BY <1>1, <2>2
    <3>2. saved'[k] = saved[k] \cup {x}
      BY <1>1, <3>1
    <3>. QED  BY <1>5, <2>2, <3>1, <3>2
  <2>. QED  BY <2>1, <2>2
<1>. QED  BY <1>3, <1>4, <1>5 DEF Said

(* An answer says what it means.                                           *)
LEMMA AnswerUtters ==
    ASSUME NEW r \in Requests, NEW x, x = req'[r].resp, UNCHANGED <<saved, notices>>,
           req[r].pc \notin {"replied", "replayed"},
           \A q \in Requests : q # r => req'[q] = req[q]
    PROVE  Utters(x)
BY DEF Utters, Said, Received

(* What a step tells the merchant is a response it holds.                  *)
LEMMA StepUtters ==
    ASSUME Typed, Step
    PROVE  \/ Silent
           \/ \E x \in Response : HeldHere(x) /\ ops' = ops /\ Utters(x)
<1>. OrchTyped /\ OrchTypeOK
  BY TypedIsOrchTyped DEF OrchTyped
<1>. DEFINE Telling == \E x \in Response : HeldHere(x) /\ ops' = ops /\ Utters(x)
<1>. HIDE DEF Telling
<1>1. ASSUME NEW r \in Requests, Replays(r) PROVE Telling
  <2>. DEFINE x == byIdempotency[req[r].key]
  <2>1. req[r].key \in Keys
    BY <1>1, RequestIsTyped DEF Replays, Passes, Ready, RequestIsReady
  <2>2. x \in Response
    <3>1. x \in Stored
      BY <2>1 DEF OrchTypeOK
    <3>2. Found(x)
      BY <1>1 DEF Replays
    <3>3. ~Found(NoResponse)
      BY DEF Found, NoResponse
    <3>. HIDE DEF x
    <3>. QED  BY <3>1, <3>2, <3>3 DEF Stored
  <2>3. HeldHere(x)
    BY <2>1 DEF HeldHere, Held
  <2>4. Utters(x)
    BY <1>1, AnswerUtters DEF Replays, Passes, Unheard
  <2>. QED  BY <1>1, <2>2, <2>3, <2>4 DEF Replays, Unheard, Telling
<1>2. ASSUME NEW r \in Requests, Notifies(r) \/ Stores(r) \/ (Misfires(r) /\ req[r].pc = "save")
      PROVE  Telling
  <2>. DEFINE x == req[r].resp
  <2>1. x \in Response
    BY <1>2, RequestIsTyped DEF Notifies, Stores, Misfires, Passes, Ready, RequestIsReady
  <2>2. HeldHere(x)
    BY DEF HeldHere, Held
  <2>3. ops' = ops /\ req'[r].resp = x /\ \A q \in Requests : q # r => req'[q] = req[q]
    BY <1>2 DEF Notifies, Stores, Misfires, Passes, SameAnswer
  <2>4. CASE Notifies(r)
    <3>1. \A q \in Requests : Received(q)' <=> Received(q)
      BY <2>3, <2>4 DEF Notifies, Passes, Received
    <3>2. Utters(x)
      BY <2>1, <2>3, <2>4, <3>1, DeliveryUtters DEF Notifies
    <3>. QED  BY <2>1, <2>2, <2>3, <3>2 DEF Telling
  <2>5. CASE Stores(r)
    <3>1. ~Received(r) /\ Received(r)' /\ \A q \in Requests : q # r => (Received(q)' <=> Received(q))
      BY <2>3, <2>5 DEF Stores, Passes, Received
    <3>2. Utters(x)
      BY <2>1, <2>3, <2>5, <3>1, SavingUtters DEF Stores
    <3>. QED  BY <2>1, <2>2, <2>3, <3>2 DEF Telling
  <2>6. CASE Misfires(r) /\ req[r].pc = "save"
    <3>1. Utters(x)
      BY <2>3, <2>6, AnswerUtters DEF Misfires
    <3>. QED  BY <2>1, <2>2, <2>3, <3>1 DEF Telling
  <2>. QED  BY <1>2, <2>4, <2>5, <2>6
<1>3. ASSUME NEW h \in Hooks, Writes(h) \/ Acknowledges(h) PROVE Telling
  <2>. DEFINE x == hooks[h].resp
  <2>1. x \in Response
    BY <1>3 DEF Writes, Acknowledges, HookPasses, Typed, HandlersAreReady
  <2>2. HeldHere(x)
    BY DEF HeldHere
  <2>3. ops' = ops /\ req' = req
    BY <1>3 DEF Writes, Acknowledges, HookPasses
  <2>4. Utters(x)
    BY <1>3, <2>1, <2>3, SavingUtters, DeliveryUtters DEF Writes, Acknowledges, Received, SameStore
  <2>. QED  BY <2>1, <2>2, <2>3, <2>4 DEF Telling
<1>4. ASSUME NEW r \in Requests, Proceeds(r), ~Replays(r), ~Notifies(r), ~Stores(r),
             ~(Misfires(r) /\ req[r].pc = "save")
      PROVE  Silent
  <2>1. /\ UNCHANGED <<saved, notices>>
        /\ req[r].pc \notin {"replied", "replayed"} /\ req'[r].pc \notin {"replied", "replayed"}
        /\ \A q \in Requests : q # r => req'[q] = req[q]
    BY <1>4 DEF Proceeds, Moves, Calls, Arrives, Unheard, Passes, Starts, Prepares, Refuses, Opens,
                OpensElsewhere, Sends, Misses, Links, Repeats, Loses, Retries, Concludes, Misfires
  <2>. QED  BY <2>1, NothingIsSaid DEF Received
<1>5. ASSUME NEW h \in Hooks, HookMoves(h), ~Writes(h), ~Acknowledges(h) PROVE Silent
  BY <1>5, NothingIsSaid DEF HookMoves, HookPasses, Takes, Loads, Rejects, SameStore, Received
<1>6. CASE Halts
  BY <1>6, NothingIsSaid DEF Halts, Stops, Received, SameAnswer, Ended
<1>7. CASE UNCHANGED <<saved, notices, req>>
  BY <1>7, NothingIsSaid DEF Received
<1>. QED
  BY <1>1, <1>2, <1>3, <1>4, <1>5, <1>6, <1>7 DEF Step, Telling, Settles, Reminds, SameStore

-----------------------------------------------------------------------------
(* PaymentContract: the refinement.                                        *)

Sound == Typed /\ OneOperationPerKey /\ HooksKnow /\ Truth

(* What is told is true of the charges.                                    *)
LEMMA SaidIsTrue ==
    ASSUME Sound, NEW x \in Response, HeldHere(x), x.key \in YooKassaKeys
    PROVE  Contract!True(x.key, Meaning(x))
<1>1. AdapterOf[x.key] = "yookassa" /\ OrchTypeOK /\ OneOperationPerKey
  BY DEF YooKassaKeys, Sound, Typed, TypeOK
<1>2. Truthful(x)
  BY DEF Sound, Truth
<1>3. /\ Meaning(x) = "CAPTURED" => Paid(x.key)
      /\ Meaning(x) = "PENDING" => Opened(x.key)
      /\ Meaning(x) = "CANCELED" => Refused(x.key)
  BY <1>1, <1>2, MeaningIsAWord, OpIsTyped DEF Truthful, Backed, Paid
<1>. QED  BY <1>1, <1>3, BooksShowCharges DEF Contract!True

(* Telling a word of a key, and nothing else.                              *)
LEMMA UttersTells ==
    ASSUME Sound, NEW x \in Response, HeldHere(x), ops' = ops, Utters(x)
    PROVE  [Contract!Next]_(Contract!contractVars)
<1>. DEFINE charges == [k \in YooKassaKeys |-> Charges(k)]
            told == [k \in YooKassaKeys |-> Told(k)]
<1>1. charges' = charges
  <2>1. \A k : KnownOps(k)' = KnownOps(k)
    BY DEF KnownOps
  <2>2. \A k : Charges(k)' = Charges(k)
    BY <2>1, ChargesStay
  <2>. QED  BY <2>2
<1>2. \A k \in YooKassaKeys :
         \/ k = x.key /\ Told(k)' = Told(k) \cup {Meaning(x)}
         \/ Told(k)' = Told(k)
  <2>. SUFFICES ASSUME NEW k \in YooKassaKeys
                PROVE  \/ k = x.key /\ Told(k)' = Told(k) \cup {Meaning(x)}
                       \/ Told(k)' = Told(k)
    OBVIOUS
  <2>1. \A w : /\ w \in Told(k) => w \in Told(k)'
               /\ w \in Told(k)' => w \in Told(k) \/ (k = x.key /\ w = Meaning(x))
    BY ToldIsSaid DEF Utters, YooKassaKeys
  <2>. QED  BY <2>1
<1>3. CASE x.key \in YooKassaKeys /\ Told(x.key)' = Told(x.key) \cup {Meaning(x)}
  <2>1. \A k \in YooKassaKeys : k # x.key => Told(k)' = Told(k)
    BY <1>2
  <2>2. told' = [told EXCEPT ![x.key] = @ \cup {Meaning(x)}]
    BY <1>3, <2>1
  <2>3. Contract!Tell(x.key, Meaning(x))
    BY <1>1, <1>3, <2>2, SaidIsTrue DEF Contract!Tell
  <2>. QED  BY <1>3, <2>3, MeaningIsAWord DEF Contract!Next
<1>4. CASE ~(x.key \in YooKassaKeys /\ Told(x.key)' = Told(x.key) \cup {Meaning(x)})
  <2>1. told' = told
    BY <1>2, <1>4
  <2>. QED  BY <1>1, <2>1 DEF Contract!contractVars
<1>. QED  BY <1>3, <1>4

(* Opening an operation at YooKassa for a key that has none.               *)
LEMMA OpensOpens ==
    ASSUME Sound, Silent, NEW r \in Requests, Opens(r)
    PROVE  Contract!Next
<1>. SUFFICES ASSUME NEW k, k = ValidatedKey(r), NEW n, n = Len(ops) + 1 PROVE Contract!Next
  OBVIOUS
<1>. DEFINE charges == [j \in YooKassaKeys |-> Charges(j)]
            told == [j \in YooKassaKeys |-> Told(j)]
<1>. OrchTyped /\ ops \in Seq(Op)
  BY TypedIsOrchTyped DEF Sound, OrchTyped, OrchTypeOK
<1>1. k \in YooKassaKeys /\ KnownOps(k) = {} /\ ops' = Append(ops, Operation(k, "pending"))
  BY RequestIsTyped DEF Opens, Sends, Passes, YooKassaKeys
<1>2. /\ DOMAIN ops' = DOMAIN ops \cup {n} /\ n \notin DOMAIN ops
      /\ ops'[n] = Operation(k, "pending")
      /\ \A i \in DOMAIN ops : ops'[i] = ops[i]
  BY <1>1, AppendOp DEF YooKassaKeys
<1>3. ops'[n].key = k /\ ops'[n].status = "pending"
  BY <1>2 DEF Operation
<1>4. KnownOps(k)' = {n}
  BY <1>1, <1>2, <1>3 DEF KnownOps
<1>5. \A j : j # k => KnownOps(j)' = KnownOps(j)
  BY <1>2, <1>3 DEF KnownOps
<1>6. charges[k] = Contract!NoCharge
  BY <1>1, ChargesOf
<1>7. Charges(k)' = Contract!Charge("pending")
  BY <1>3, <1>4, ChargesOfNext DEF Contract!Fates
<1>8. \A j \in YooKassaKeys : j # k => Charges(j)' = Charges(j)
  BY <1>2, <1>5, ChargesStay DEF KnownOps
<1>9. charges' = [charges EXCEPT ![k] = Contract!Charge("pending")]
  BY <1>7, <1>8
<1>10. told' = told
  <2>1. \A j \in YooKassaKeys : Told(j)' = Told(j)
    BY ToldIsSaid DEF Silent, YooKassaKeys
  <2>. QED  BY <2>1
<1>. QED  BY <1>1, <1>6, <1>9, <1>10 DEF Contract!Next, Contract!Open

(* YooKassa and the buyer settle the operation.                            *)
LEMMA SettlesSettles ==
    ASSUME Sound, Silent, NEW i \in DOMAIN ops, NEW status \in {"succeeded", "canceled"},
           Settles(i, status)
    PROVE  Contract!Next
<1>. SUFFICES ASSUME NEW k, k = ops[i].key PROVE Contract!Next
  OBVIOUS
<1>. DEFINE charges == [j \in YooKassaKeys |-> Charges(j)]
            told == [j \in YooKassaKeys |-> Told(j)]
<1>. OrchTypeOK /\ ops \in Seq(Op) /\ OneOperationPerKey
  BY TypedIsOrchTyped DEF Sound, OrchTyped, OrchTypeOK
<1>1. k \in YooKassaKeys /\ ops[i].status = "pending" /\ i # 0
  BY OpIsTyped DEF Settles, YooKassaKeys
<1>2. /\ DOMAIN ops' = DOMAIN ops /\ ops'[i] = Operation(k, status)
      /\ \A j \in DOMAIN ops : j # i => ops'[j] = ops[j]
  BY SettleOp DEF Settles
<1>3. ops'[i].key = k /\ ops'[i].status = status
  BY <1>2 DEF Operation
<1>4. KnownOps(k) = {i}
  BY <1>1 DEF KnownOps, OneOperationPerKey, YooKassaKeys
<1>5. \A j : KnownOps(j)' = KnownOps(j)
  BY <1>2, <1>3 DEF KnownOps
<1>6. charges[k] = Contract!Charge("pending")
  BY <1>1, <1>4, ChargesOf DEF Contract!Fates
<1>7. Charges(k)' = Contract!Charge(status)
  BY <1>3, <1>4, <1>5, ChargesOfNext DEF Contract!Fates
<1>8. \A j \in YooKassaKeys : j # k => Charges(j)' = Charges(j)
  BY <1>2, <1>5, ChargesStay DEF KnownOps
<1>9. charges' = [charges EXCEPT ![k] = Contract!Charge(status)]
  BY <1>7, <1>8
<1>10. told' = told
  <2>1. \A j \in YooKassaKeys : Told(j)' = Told(j)
    BY ToldIsSaid DEF Silent, YooKassaKeys
  <2>. QED  BY <2>1
<1>11. status = "succeeded" => "PENDING" \in told[k]
  <2>. SUFFICES ASSUME status = "succeeded" PROVE "PENDING" \in Told(k)
    BY <1>1
  <2>1. PICK r \in Requests : Received(r) /\ req[r].resp.ext = i /\ req[r].resp.url
    BY DEF Settles, PageKnown
  <2>2. HeldHere(req[r].resp)
    BY DEF HeldHere, Held
  <2>3. req[r].resp.status = "PENDING" /\ req[r].resp.key = k
    BY <1>1, <2>1, <2>2 DEF Sound, Truth, Truthful
  <2>4. Meaning(req[r].resp) = "PENDING"
    BY <2>3 DEF Meaning
  <2>5. Said(k, "PENDING")
    BY <2>1, <2>3, <2>4 DEF Said
  <2>. QED  BY <2>5, ToldIsSaid
<1>. QED  BY <1>1, <1>6, <1>9, <1>10, <1>11 DEF Contract!Next, Contract!Settle

(* Operations at other providers are not the contract's.                   *)
LEMMA ElsewhereIsSilent ==
    ASSUME Sound, Silent,
           ops' = ops \/ \E r \in Requests, status \in {"pending", "succeeded"} :
                            OpensElsewhere(r, status)
    PROVE  UNCHANGED Contract!contractVars
<1>. OrchTyped /\ ops \in Seq(Op)
  BY TypedIsOrchTyped DEF Sound, OrchTyped, OrchTypeOK
<1>1. \A j \in YooKassaKeys : Told(j)' = Told(j)
  BY ToldIsSaid DEF Silent, YooKassaKeys
<1>2. \A j \in YooKassaKeys : KnownOps(j)' = KnownOps(j) /\ \A i \in KnownOps(j) : ops'[i] = ops[i]
  <2>1. CASE ops' = ops
    BY <2>1 DEF KnownOps
  <2>2. ASSUME NEW r \in Requests, NEW status \in {"pending", "succeeded"},
               OpensElsewhere(r, status), NEW j \in YooKassaKeys
        PROVE  KnownOps(j)' = KnownOps(j) /\ \A i \in KnownOps(j) : ops'[i] = ops[i]
    <3>. DEFINE n == Len(ops) + 1
    <3>1. /\ ValidatedKey(r) \in Keys /\ ValidatedKey(r) # j
          /\ ops' = Append(ops, Operation(ValidatedKey(r), status))
      BY <2>2, RequestIsTyped DEF OpensElsewhere, Sends, Passes, YooKassaKeys
    <3>2. /\ DOMAIN ops' = DOMAIN ops \cup {n}
          /\ ops'[n] = Operation(ValidatedKey(r), status)
          /\ \A i \in DOMAIN ops : ops'[i] = ops[i]
      BY <3>1, AppendOp
    <3>3. ops'[n].key # j
      BY <3>1, <3>2 DEF Operation
    <3>. QED  BY <3>2, <3>3 DEF KnownOps
  <2>. QED  BY <2>1, <2>2
<1>3. \A j \in YooKassaKeys : Charges(j)' = Charges(j)
  BY <1>2, ChargesStay
<1>. QED  BY <1>1, <1>3 DEF Contract!contractVars

(* Every step of the gateway is a step of the contract or a stutter.       *)
LEMMA StepKeepsContract ==
    ASSUME Sound, Step
    PROVE  [Contract!Next]_(Contract!contractVars)
<1>1. CASE \E x \in Response : HeldHere(x) /\ ops' = ops /\ Utters(x)
  BY <1>1, UttersTells
<1>2. CASE Silent
  <2>1. ASSUME NEW r \in Requests, Opens(r) PROVE Contract!Next
    BY <1>2, <2>1, OpensOpens
  <2>2. ASSUME NEW i \in DOMAIN ops, NEW status \in {"succeeded", "canceled"}, Settles(i, status)
        PROVE  Contract!Next
    BY <1>2, <2>2, SettlesSettles
  <2>3. CASE \/ ops' = ops
             \/ \E r \in Requests, status \in {"pending", "succeeded"} : OpensElsewhere(r, status)
    BY <1>2, <2>3, ElsewhereIsSilent
  <2>. QED
    BY <2>1, <2>2, <2>3 DEF Step, Proceeds, Moves, Calls, Arrives, Unheard, Replays, Starts,
          Prepares, Refuses, Misses, Links, Repeats, Loses, Retries, Concludes, Notifies, Stores,
          Misfires, Reminds, HookMoves, Takes, Loads, Writes, Rejects, Acknowledges, HookPasses,
          Halts, Stops
<1>. QED  BY <1>1, <1>2, StepUtters DEF Sound

(* The gateway starts as the contract does.                                *)
LEMMA InitKeepsContract == Init => Contract!Init
<1>. SUFFICES ASSUME Init PROVE Contract!Init  OBVIOUS
<1>1. DOMAIN ops = {}
  <2>1. DOMAIN << >> = {}
    BY EmptySeq
  <2>. QED  BY <2>1 DEF Init, OrchInit
<1>2. \A k : Charges(k) = Contract!NoCharge
  BY <1>1, ChargesOf DEF KnownOps
<1>3. \A k \in Keys : Told(k) = {}
  <2>1. \A k \in Keys : \A w : ~Said(k, w)
    BY DEF Said, Init, OrchInit, Received, Idle
  <2>. QED  BY <2>1, ToldIsSaid
<1>. QED  BY <1>2, <1>3 DEF Contract!Init, YooKassaKeys

(* Everything the invariants say holds together.                           *)
LEMMA AlwaysSound == Spec => []Sound
BY AlwaysTyped, AlwaysOne, HooksAlwaysKnow, AlwaysTrue, PTL DEF Sound

(* The gateway implements PaymentContract: with any number of requests and *)
(* webhook goroutines, retries, lost answers, repeated notifications,      *)
(* failed writes and restarts, a merchant sees one operation opened and    *)
(* settled once for a key, and is told what is true of it, one word at a   *)
(* time (orchestrator.go CreatePayment, yookassa_handler.go ServeHTTP,     *)
(* yookassa_adapter.go Send).                                              *)
THEOREM KeepsContract == Spec => ContractIsKept
<1>1. Sound /\ Step => [Contract!Next]_(Contract!contractVars)
  BY StepKeepsContract
<1>. QED
  BY <1>1, InitKeepsContract, AlwaysSound, AlwaysTyped, NextMoves, PTL
  DEF Spec, ContractIsKept, Contract!Spec

-----------------------------------------------------------------------------
(* The two views of the store.                                             *)

(* What a step does to the store.                                          *)
LEMMA StepFiles ==
    ASSUME Typed, Step
    PROVE  \/ SameStore
           \/ \E r \in Requests : Stores(r) /\ req[r].resp \in Response
           \/ \E h \in Hooks : Writes(h) /\ hooks[h].resp \in Response
           \/ Halts
<1>1. ASSUME NEW r \in Requests, Proceeds(r)
      PROVE  SameStore \/ (Stores(r) /\ req[r].resp \in Response)
  BY <1>1, TypedIsOrchTyped, MovesFile DEF Proceeds, SameStore
<1>2. ASSUME NEW h \in Hooks, HookMoves(h)
      PROVE  SameStore \/ (Writes(h) /\ hooks[h].resp \in Response)
  BY <1>2 DEF HookMoves, Takes, Loads, Writes, Rejects, Acknowledges, HookPasses, Typed,
              HandlersAreReady
<1>. QED  BY <1>1, <1>2 DEF Step, Settles, Reminds

(* Every record stays where it belongs.                                    *)
LEMMA ShelvedStep == Typed /\ Shelved /\ Step => Shelved'
<1>. SUFFICES ASSUME Typed, Shelved, Step PROVE Shelved'  OBVIOUS
<1>. OrchTypeOK
  BY TypedIsOrchTyped DEF OrchTyped
<1>1. CASE SameStore
  BY <1>1 DEF SameStore, Shelved
<1>2. ASSUME NEW x \in Response, Save(x) PROVE Shelved'
  BY <1>2, SaveShelves
<1>3. CASE Halts
  BY <1>3, RestartShelves DEF Halts
<1>. QED  BY <1>1, <1>2, <1>3, StepFiles DEF Stores, Writes

(* And so it does in every behaviour.                                      *)
LEMMA AlwaysShelved == Spec => []Shelved
BY InitIsShelved, AlwaysTyped, NextMoves, ShelvedStep, PTL DEF Spec, Init

(* A reader by payment_id and a reader by idempotency key see the same     *)
(* outcome of a payment, whatever requests and webhooks with whatever keys *)
(* write in between, and after the loss of an in-memory store              *)
(* (inmemory_store.go Save).                                               *)
THEOREM ViewsAgree == Spec => []StoreViewsAgree
<1>1. Shelved => StoreViewsAgree
  BY DEF Shelved, StoreViewsAgree
<1>. QED  BY <1>1, AlwaysShelved, PTL

(* A merchant is never told both that a payment was captured and that the  *)
(* provider refused it (orchestrator.go CreatePayment, yookassa_handler.go *)
(* ServeHTTP).                                                             *)
THEOREM NeverContradicted == Spec => []Contract!NoContradiction
<1>1. ASSUME Sound, Shelved, NEW k \in YooKassaKeys, NEW w \in Told(k)
      PROVE  Contract!True(k, w)
  <2>1. k \in Keys /\ AdapterOf[k] = "yookassa" /\ OrchTypeOK /\ OneOperationPerKey
    BY <1>1 DEF YooKassaKeys, Sound, Typed, TypeOK
  <2>2. ASSUME NEW x \in Response, HeldHere(x), x.key = k, w = Meaning(x)
        PROVE  Contract!True(k, w)
    BY <1>1, <2>2, SaidIsTrue
  <2>3. ASSUME NEW x \in saved[k], w = Meaning(x) PROVE Contract!True(k, w)
    <3>1. x \in Response /\ x.key = k /\ HeldHere(x)
      BY <1>1, <2>1 DEF OrchTypeOK, Shelved, HeldHere, Held
    <3>. QED  BY <2>2, <2>3, <3>1
  <2>4. ASSUME NEW r \in Requests, req[r].resp.key = k, w = Meaning(req[r].resp)
        PROVE  Contract!True(k, w)
    <3>. DEFINE x == req[r].resp
    <3>1. x \in Stored /\ HeldHere(x)
      BY <2>1, HeldIsStored DEF HeldHere, Held
    <3>2. CASE x \in Response
      BY <2>2, <2>4, <3>1, <3>2
    <3>3. CASE x = NoResponse
      <4>1. Meaning(NoResponse) = "FAILED"
        BY DEF Meaning, NoResponse
      <4>2. w = "FAILED"
        BY <2>4, <3>3, <4>1
      <4>. QED  BY <4>2 DEF Contract!True
    <3>. QED  BY <3>1, <3>2, <3>3 DEF Stored
  <2>5. ASSUME NEW n \in notices, n.key = k, w = n.status, w \in {"PENDING", "CAPTURED"}
        PROVE  Contract!True(k, w)
    <3>1. NoticeTruthful(n)
      BY <1>1 DEF Sound, Truth
    <3>. QED  BY <2>1, <2>5, <3>1, BooksShowCharges DEF NoticeTruthful, Contract!True
  <2>. QED  BY <2>3, <2>4, <2>5, ToldIsSaid DEF Said
<1>2. Contract!Charge("succeeded") # Contract!Charge("canceled")
  BY ChargesDiffer DEF Contract!Fates
<1>3. Sound /\ Shelved => Contract!NoContradiction
  BY <1>1, <1>2 DEF Contract!NoContradiction, Contract!True
<1>. QED  BY <1>3, AlwaysSound, AlwaysShelved, PTL

-----------------------------------------------------------------------------
(* Attempts, and the webhook's notifications.                              *)

(* The counters follow the calls.                                          *)
LEMMA CountedStep == Typed /\ Counted /\ Step => Counted'
<1>. SUFFICES ASSUME Typed, Counted, Step PROVE Counted'  OBVIOUS
<1>. OrchTyped
  BY TypedIsOrchTyped
<1>1. ASSUME NEW r \in Requests, Proceeds(r) PROVE Counted'
  BY <1>1, MovesCount DEF Proceeds
<1>2. CASE Halts
  BY <1>2, RestartCounts DEF Halts
<1>3. CASE req' = req
  BY <1>3 DEF Counted
<1>. QED  BY <1>1, <1>2, <1>3 DEF Step, Settles, Reminds, HookMoves, HookPasses, Takes, Loads,
                                  Writes, Rejects, Acknowledges

(* No request makes a fourth adapter call, and what it stores counts the   *)
(* repeated ones, whatever is lost between them (orchestrator.go           *)
(* CreatePayment, retry.go ShouldRetry).                                   *)
THEOREM AttemptsCounted == Spec => []AttemptsAreCounted
<1>1. Spec => []Counted
  BY InitIsCounted, AlwaysTyped, NextMoves, CountedStep, PTL DEF Spec, Init
<1>2. Typed /\ Counted => AttemptsAreCounted
  <2>. SUFFICES ASSUME Typed, Counted, NEW r \in Requests
                PROVE  /\ req[r].calls <= maxAttempts
                       /\ req[r].pc \in {"notify", "save"} => req[r].resp.retry = req[r].calls - 1
    BY DEF AttemptsAreCounted
  <2>1. req[r].retry \in Nat /\ req[r].calls \in Nat /\ CountIsRight(req[r])
    BY DEF Counted, Typed, TypeOK, OrchTypeOK, Goroutine
  <2>. QED  BY <2>1 DEF CountIsRight
<1>. QED  BY <1>1, <1>2, AlwaysTyped, PTL

(* With an adapter that does not deduplicate, a request calls once: what   *)
(* these adapters answer is not asked for again.                           *)
CallsOnce(x) ==
    AdapterOf[TrimmedKey[x.key]] # "yookassa" =>
        /\ x.pc = "send" => x.calls = 0
        /\ x.pc = "answering" => x.resp.status \in NotRetryable

AllCallOnce == \A r \in Requests : CallsOnce(req[r])

(* Every step keeps it so.                                                 *)
LEMMA CallsOnceStep == Typed /\ Counted /\ AllCallOnce /\ Step => AllCallOnce'
<1>. SUFFICES ASSUME Typed, Counted, AllCallOnce, Step, NEW r \in Requests
              PROVE  CallsOnce(req'[r])
  BY DEF AllCallOnce
<1>. CallsOnce(req[r]) /\ CountIsRight(req[r])
  BY DEF AllCallOnce, Counted
<1>1. ASSUME NEW q \in Requests, Proceeds(q) PROVE CallsOnce(req'[r])
  <2>1. CASE req'[r] = req[r]
    BY <2>1
  <2>2. CASE Prepares(r)
    BY <2>2 DEF Prepares, Passes, SameCount, CountIsRight, CallsOnce
  <2>3. CASE Opens(r) \/ Misses(r) \/ (\E i \in KnownOps(ValidatedKey(r)) : Repeats(r, i)) \/ Loses(r)
    BY <2>3 DEF Opens, Misses, Repeats, Loses, Sends, Passes, ValidatedKey, CallsOnce
  <2>4. CASE Links(r) \/ \E status \in {"pending", "succeeded"} : OpensElsewhere(r, status)
    <3>1. req'[r].pc = "answering"
      BY <2>4 DEF Links, OpensElsewhere, Sends, Passes
    <3>2. req'[r].resp.status \in {"PENDING", "CAPTURED"}
      <4>. DEFINE k == ValidatedKey(r)
      <4>1. PICK n : \/ req'[r].resp = Result(k, "PENDING", "", n, TRUE)
                     \/ req'[r].resp = Result(k, "CAPTURED", "", n, FALSE)
        BY <2>4, Zenon DEF Links, OpensElsewhere
      <4>2. /\ Result(k, "PENDING", "", n, TRUE).status = "PENDING"
            /\ Result(k, "CAPTURED", "", n, FALSE).status = "CAPTURED"
        BY DEF Result
      <4>. HIDE DEF k
      <4>. QED  BY <4>1, <4>2
    <3>. QED  BY <3>1, <3>2 DEF NotRetryable, CallsOnce
  <2>5. CASE Retries(r)
    BY <2>5 DEF Retries, Passes, ShouldRetry, CallsOnce
  <2>6. CASE req'[r].pc \notin {"send", "answering"}
    BY <2>6 DEF CallsOnce
  <2>. QED
    BY <1>1, <2>1, <2>2, <2>3, <2>4, <2>5, <2>6
       DEF Proceeds, Moves, Calls, Arrives, Replays, Starts, Prepares, Refuses, Opens, OpensElsewhere,
           Sends, Misses, Links, Repeats, Loses, Retries, Concludes, Notifies, Stores, Misfires, Passes
<1>2. CASE Halts
  BY <1>2 DEF Halts, Stops, SameAnswer, SameCount, Ended, CallsOnce
<1>3. CASE req' = req
  BY <1>3
<1>. QED  BY <1>1, <1>2, <1>3 DEF Step, Settles, Reminds, HookMoves, HookPasses, Takes, Loads,
                                  Writes, Rejects, Acknowledges

(* Who sent an operation has sent it for good.                             *)
LEMMA SentStays ==
    ASSUME Typed, Counted, Step, NEW r \in Requests, NEW i \in DOMAIN ops, SentBy(i, r)
    PROVE  SentBy(i, r)'
<1>1. ops'[i].key = ops[i].key
  BY StepGrows DEF OpsGrow
<1>2. req[r].calls \in Nat /\ req[r].pc # "idle"
  <2>1. req[r].calls \in Nat
    BY DEF Typed, TypeOK, OrchTypeOK, Goroutine
  <2>2. CountIsRight(req[r]) /\ req[r].calls # 0
    BY <2>1 DEF SentBy, Counted
  <2>. QED  BY <2>1, <2>2 DEF CountIsRight
<1>3. req'[r].key = req[r].key
  BY <1>2, WorkKeepsKey
<1>4. req'[r].calls > 0
  <2>1. ASSUME NEW q \in Requests, Proceeds(q) PROVE req'[r].calls > 0
    <3>1. req'[r].calls = req[r].calls \/ Sends(r)
      BY <2>1 DEF Proceeds, Moves, Calls, Arrives, Replays, Starts, Prepares, Refuses, Opens,
           OpensElsewhere, Sends, Misses, Links, Repeats, Loses, Retries, Concludes, Notifies,
           Stores, Misfires, Passes, SameCount
    <3>. QED  BY <1>2, <3>1 DEF SentBy, Sends, maxAttempts
  <2>2. CASE Halts
    BY <2>2 DEF Halts, Stops, SameCount, SentBy
  <2>3. CASE req' = req
    BY <2>3 DEF SentBy
  <2>. QED  BY <2>1, <2>2, <2>3 DEF Step, Settles, Reminds, HookMoves, HookPasses, Takes, Loads,
                                    Writes, Rejects, Acknowledges
<1>. QED  BY <1>1, <1>3, <1>4 DEF SentBy, ValidatedKey

(* A request that opens an operation has opened none before: with YooKassa *)
(* the key would be known, with another adapter it would not be sending.   *)
LEMMA OpenerIsNew ==
    ASSUME Typed, Counted, AllCallOnce, Step, NEW n \in DOMAIN ops' \ DOMAIN ops
    PROVE  \E r \in Requests :
              /\ n = Len(ops) + 1
              /\ SentBy(n, r)'
              /\ \A i \in DOMAIN ops : ~SentBy(i, r)
<1>1. PICK r \in Requests :
         /\ Sends(r)
         /\ n = Len(ops) + 1
         /\ ops'[n].key = ValidatedKey(r)
         /\ AdapterOf[ValidatedKey(r)] = "yookassa" => KnownOps(ValidatedKey(r)) = {}
  BY StepOpens
<1>2. req[r].calls \in Nat /\ CallsOnce(req[r])
  BY DEF AllCallOnce, Typed, TypeOK, OrchTypeOK, Goroutine
<1>3. SentBy(n, r)'
  BY <1>1, <1>2 DEF SentBy, Sends, Passes, ValidatedKey, maxAttempts
<1>4. ASSUME NEW i \in DOMAIN ops PROVE ~SentBy(i, r)
  <2>1. CASE AdapterOf[ValidatedKey(r)] = "yookassa"
    BY <1>1, <2>1 DEF KnownOps, SentBy
  <2>2. CASE AdapterOf[ValidatedKey(r)] # "yookassa"
    BY <1>1, <1>2, <2>2 DEF CallsOnce, ValidatedKey, Sends, Passes, SentBy
  <2>. QED  BY <2>1, <2>2
<1>. QED  BY <1>1, <1>3, <1>4

(* A new operation is assigned to its opener, the others stay assigned.    *)
LEMMA OnePerRequestStep ==
    Typed /\ Counted /\ AllCallOnce /\ OneOperationPerRequest /\ Step => OneOperationPerRequest'
<1>. SUFFICES ASSUME Typed, Counted, AllCallOnce, OneOperationPerRequest, Step
              PROVE  OneOperationPerRequest'
  OBVIOUS
<1>1. PICK sender \in Injection(DOMAIN ops, Requests) : \A i \in DOMAIN ops : SentBy(i, sender[i])
  BY DEF OneOperationPerRequest
<1>2. /\ sender \in [DOMAIN ops -> Requests]
      /\ \A i, j \in DOMAIN ops : sender[i] = sender[j] => i = j
  BY <1>1 DEF Injection, IsInjective
<1>3. \A i \in DOMAIN ops : SentBy(i, sender[i])'
  BY <1>1, <1>2, SentStays
<1>4. DOMAIN ops \subseteq DOMAIN ops'
  BY StepGrows DEF OpsGrow
<1>5. CASE DOMAIN ops' = DOMAIN ops
  BY <1>1, <1>3, <1>5 DEF OneOperationPerRequest
<1>6. ASSUME NEW n \in DOMAIN ops' \ DOMAIN ops PROVE OneOperationPerRequest'
  <2>1. PICK r \in Requests : SentBy(n, r)' /\ \A i \in DOMAIN ops : ~SentBy(i, r)
    BY <1>6, OpenerIsNew
  <2>2. \A m \in DOMAIN ops' \ DOMAIN ops : m = n
    BY <1>6, OpenerIsNew
  <2>. DEFINE next == [i \in DOMAIN ops' |-> IF i = n THEN r ELSE sender[i]]
  <2>3. \A i \in DOMAIN ops' : i # n => i \in DOMAIN ops /\ sender[i] \in Requests /\ sender[i] # r
    BY <1>1, <1>2, <2>1, <2>2
  <2>4. next \in [DOMAIN ops' -> Requests]
    BY <2>3
  <2>5. \A i, j \in DOMAIN ops' : next[i] = next[j] => i = j
    BY <1>2, <2>3
  <2>6. next \in Injection(DOMAIN ops', Requests)
    BY <2>4, <2>5 DEF Injection, IsInjective
  <2>7. ASSUME NEW i \in DOMAIN ops'
        PROVE  req'[next[i]].calls > 0 /\ TrimmedKey[req'[next[i]].key] = ops'[i].key
    BY <1>3, <2>1, <2>3 DEF SentBy, ValidatedKey
  <2>. HIDE DEF next
  <2>. QED  BY <2>6, <2>7 DEF OneOperationPerRequest, SentBy, ValidatedKey
<1>. QED  BY <1>4, <1>5, <1>6

(* For any number of requests, attempts, lost answers and restarts, with   *)
(* every adapter, a request opens one payment operation at most            *)
(* (orchestrator.go CreatePayment, retry.go ShouldRetry).                  *)
THEOREM RequestsOpenOne == Spec => []OneOperationPerRequest
<1>1. Init => AllCallOnce
  <2>1. CallsOnce(Idle)
    BY DEF Idle, CallsOnce
  <2>. QED  BY <2>1 DEF Init, OrchInit, AllCallOnce
<1>2. Init => OneOperationPerRequest
  <2>. SUFFICES ASSUME Init PROVE OneOperationPerRequest  OBVIOUS
  <2>0. DOMAIN << >> = {}
    BY EmptySeq
  <2>1. DOMAIN ops = {}
    BY <2>0 DEF Init, OrchInit
  <2>2. [i \in DOMAIN ops |-> i] \in Injection(DOMAIN ops, Requests)
    BY <2>1 DEF Injection, IsInjective
  <2>. QED  BY <2>1, <2>2 DEF OneOperationPerRequest
<1>3. Spec => []Counted
  BY InitIsCounted, AlwaysTyped, NextMoves, CountedStep, PTL DEF Spec, Init
<1>. QED
  BY <1>1, <1>2, <1>3, AlwaysTyped, NextMoves, CallsOnceStep, OnePerRequestStep, PTL DEF Spec

(* A webhook goroutine that is about to notify has stored what it tells.   *)
WrittenFirst ==
    /\ \A h \in Hooks : hooks[h].pc = "notify" => hooks[h].resp \in saved[hooks[h].resp.key]
    /\ WebhookNoticeWasSaved

(* What was stored once was stored.                                        *)
LEMMA SavedStays ==
    ASSUME Typed, Step, NEW k \in Keys
    PROVE  saved[k] \subseteq saved'[k]
<1>. OrchTypeOK
  BY TypedIsOrchTyped DEF OrchTyped
<1>1. ASSUME NEW x \in Response, Save(x) PROVE saved[k] \subseteq saved'[k]
  BY <1>1, SaveHolds
<1>. QED  BY <1>1, StepFiles DEF SameStore, Stores, Writes, Halts, Stops

(* Save, then Notify.                                                      *)
LEMMA WrittenFirstStep == Typed /\ WrittenFirst /\ Step => WrittenFirst'
<1>. SUFFICES ASSUME Typed, WrittenFirst, Step PROVE WrittenFirst'  OBVIOUS
<1>. OrchTypeOK
  BY TypedIsOrchTyped DEF OrchTyped
<1>1. ASSUME NEW h \in Hooks, hooks'[h].pc = "notify"
      PROVE  hooks'[h].resp \in saved'[hooks'[h].resp.key]
  <2>1. CASE hooks'[h] = hooks[h]
    <3>1. hooks[h].resp.key \in Keys
      BY <1>1, <2>1 DEF Typed, HandlersAreReady, Response
    <3>. QED  BY <1>1, <2>1, <3>1, SavedStays DEF WrittenFirst
  <2>2. CASE Writes(h)
    <3>1. hooks[h].resp \in Response /\ hooks'[h].resp = hooks[h].resp
      BY <2>2 DEF Writes, HookPasses, Typed, HandlersAreReady
    <3>2. hooks[h].resp.key \in Keys
      BY <3>1 DEF Response
    <3>. QED  BY <2>2, <3>1, <3>2, SaveHolds DEF Writes
  <2>. QED
    BY <1>1, <2>1, <2>2, NoHookIsIdle DEF Step, Proceeds, hookVars, Settles, Reminds, HookMoves,
          HookPasses, Takes, Loads, Writes, Rejects, Acknowledges, Halts
<1>2. ASSUME NEW n \in notices', n.by = "webhook"
      PROVE  \E resp \in saved'[n.key] : resp.status = n.status
  <2>1. CASE n \in notices
    <3>1. n.key \in Keys
      BY <2>1 DEF OrchTypeOK, Notice
    <3>. QED  BY <1>2, <2>1, <3>1, SavedStays DEF WrittenFirst, WebhookNoticeWasSaved
  <2>2. ASSUME NEW h \in Hooks, Acknowledges(h), n \notin notices
        PROVE  \E resp \in saved'[n.key] : resp.status = n.status
    <3>1. /\ n = [key |-> hooks[h].resp.key, status |-> hooks[h].resp.status, by |-> "webhook"]
          /\ hooks[h].resp \in saved[hooks[h].resp.key]
          /\ saved' = saved
      BY <1>2, <2>2 DEF Acknowledges, HookPasses, Deliver, WrittenFirst, SameStore
    <3>. QED  BY <3>1
  <2>3. ASSUME NEW r \in Requests, Notifies(r), n \notin notices PROVE FALSE
    <3>1. n.by = "orchestrator"
      BY <1>2, <2>3 DEF Notifies, Deliver
    <3>. QED  BY <1>2, <3>1
  <2>4. ASSUME NEW r \in Requests, Proceeds(r), ~Notifies(r) PROVE n \in notices
    BY <1>2, <2>4 DEF Proceeds, Moves, Calls, Arrives, Unheard, Replays, Starts, Prepares,
          Refuses, Opens, OpensElsewhere, Misses, Links, Repeats, Sends, Loses, Retries,
          Concludes, Stores, Misfires
  <2>. QED
    BY <1>2, <2>1, <2>2, <2>3, <2>4 DEF Step, Settles, Reminds, HookMoves, Takes, Loads, Writes,
          Rejects, Halts, Stops
<1>. QED  BY <1>1, <1>2 DEF WrittenFirst, WebhookNoticeWasSaved

(* The webhook handler tells the merchant nothing it has not stored, for   *)
(* any number of its goroutines, failed writes and restarts                *)
(* (yookassa_handler.go ServeHTTP: Save, then Notify).                     *)
THEOREM NoticesWereSaved == Spec => []WebhookNoticeWasSaved
<1>1. Init => WrittenFirst
  BY NoHookIsIdle DEF Init, OrchInit, WrittenFirst, WebhookNoticeWasSaved
<1>2. WrittenFirst => WebhookNoticeWasSaved
  BY DEF WrittenFirst
<1>. QED  BY <1>1, <1>2, AlwaysTyped, NextMoves, WrittenFirstStep, PTL DEF Spec

-----------------------------------------------------------------------------
(* A record in step stays in step.                                         *)

(* What requests store is of their own key.                                *)
LEMMA OwnKeysStep == Typed /\ OwnKeys /\ Step => OwnKeys'
<1>. SUFFICES ASSUME Typed, OwnKeys, Step PROVE OwnKeys'  OBVIOUS
<1>. OrchTyped
  BY TypedIsOrchTyped
<1>1. ASSUME NEW r \in Requests, Proceeds(r) PROVE OwnKeys'
  BY <1>1, MovesKeepKeys DEF Proceeds
<1>2. CASE Halts
  BY <1>2, RestartKeepsKeys DEF Halts
<1>3. CASE req' = req
  BY <1>3 DEF OwnKeys
<1>. QED  BY <1>1, <1>2, <1>3 DEF Step, Settles, Reminds, HookMoves, HookPasses, Takes, Loads,
                                  Writes, Rejects, Acknowledges

(* In every state a request stores under its own key.                      *)
LEMMA AlwaysOwnKeys == Spec => []OwnKeys
BY InitHasKeys, AlwaysTyped, NextMoves, OwnKeysStep, PTL DEF Spec, Init

(* The record of a settled key in step is written by webhook goroutines    *)
(* that know the same of its operation.                                    *)
LEMMA InStepStays ==
    ASSUME Sound, OwnKeys, Step, ~StoreLost, NEW k \in Keys, InStep(k)
    PROVE  InStep(k)' /\ byIdempotency'[k].status = byIdempotency[k].status
<1>. Typed /\ OrchTypeOK
  BY TypedIsOrchTyped DEF Sound, OrchTyped
<1>1. PICK i \in KnownOps(k) : /\ ops[i].status \in ProviderFinal
                               /\ byIdempotency[k].status = mapYooKassaStatus(ops[i].status)
  BY DEF InStep
<1>2. Settled(k) /\ Settled(k)'
  BY SettledStays DEF InStep
<1>3. i \in KnownOps(k)' /\ ops'[i] = ops[i]
  BY <1>1, StepGrows DEF OpsGrow, KnownOps, ProviderFinal
<1>4. byIdempotency'[k].status = byIdempotency[k].status
  <2>1. CASE SameStore
    BY <2>1 DEF SameStore
  <2>2. ASSUME NEW r \in Requests, Stores(r), req[r].resp \in Response
        PROVE  byIdempotency'[k].status = byIdempotency[k].status
    <3>1. req[r].key \in Keys /\ req[r].pc \in {"save", "saveRefusal"}
      BY <2>2, TypedIsOrchTyped, RequestIsTyped DEF Stores, Passes, Ready, RequestIsReady
    <3>2. req[r].resp.key \in {req[r].key, TrimmedKey[req[r].key]}
      BY <3>1 DEF OwnKeys, OwnKey
    <3>3. req[r].key # k
      BY <1>2, <3>1 DEF Settled, Working
    <3>4. TrimmedKey[req[r].key] # k
      BY <1>2, <3>1, <3>3 DEF Settled
    <3>. QED  BY <2>2, <3>2, <3>3, <3>4, SaveHolds DEF Stores
  <2>3. ASSUME NEW h \in Hooks, Writes(h), hooks[h].resp \in Response
        PROVE  byIdempotency'[k].status = byIdempotency[k].status
    <3>. DEFINE x == hooks[h].resp
    <3>1. /\ Announced(hooks[h].op) /\ x.key = ops[hooks[h].op].key
          /\ x.status = mapYooKassaStatus(ops[hooks[h].op].status)
      BY <2>3 DEF Writes, HookPasses, Sound, HooksKnow, HookKnows
    <3>2. CASE x.key = k
      <4>1. hooks[h].op = i
        BY <1>1, <3>1, <3>2 DEF Sound, OneOperationPerKey, KnownOps, Announced
      <4>. QED  BY <1>1, <2>3, <3>1, <3>2, <4>1, SaveHolds DEF Writes
    <3>3. CASE x.key # k
      BY <2>3, <3>3, SaveHolds DEF Writes
    <3>. QED  BY <3>2, <3>3
  <2>4. CASE Halts
    <3>1. \A j \in Keys : ~Found([m \in Keys |-> NoResponse][j])
      BY DEF Found, NoResponse
    <3>. QED  BY <2>4, <3>1 DEF Halts, Stops, StoreLost
  <2>. QED  BY <2>1, <2>2, <2>3, <2>4, StepFiles
<1>. QED  BY <1>1, <1>2, <1>3, <1>4 DEF InStep

(* Once the record of a settled key has the final status of its operation, *)
(* no repeated notification, no late request and no restart of a gateway   *)
(* with a database brings back an earlier one (yookassa_handler.go         *)
(* ServeHTTP, orchestrator.go CreatePayment).                              *)
THEOREM InStepStaysInStep == Spec => InStepForGood
<1>1. Sound /\ OwnKeys /\ Step =>
        [\A k \in Keys : (InStep(k) /\ ~StoreLost) =>
            InStep(k)' /\ byIdempotency'[k].status = byIdempotency[k].status]_vars
  BY InStepStays
<1>. QED  BY <1>1, AlwaysSound, AlwaysOwnKeys, AlwaysTyped, NextMoves, PTL DEF Spec, InStepForGood

-----------------------------------------------------------------------------
(* What is paid is recorded.                                               *)

(* YooKassa knows validated keys, and the pages the buyer may pay on are   *)
(* those of requests; what a webhook goroutine stores has none.            *)
PagesKnown ==
    /\ Pages
    /\ \A i \in DOMAIN ops : TrimmedKey[ops[i].key] = ops[i].key
    /\ \A h \in Hooks : hooks[h].pc \in {"save", "notify"} => ~hooks[h].resp.url

(* The operations of the requests are of validated keys.                   *)
LEMMA KeysStayTrimmed ==
    ASSUME Typed, PagesKnown, Step, NEW i \in DOMAIN ops'
    PROVE  TrimmedKey[ops'[i].key] = ops'[i].key
<1>1. CASE i \in DOMAIN ops
  <2>1. ops'[i].key = ops[i].key
    BY <1>1, StepGrows DEF OpsGrow
  <2>. QED  BY <1>1, <2>1 DEF PagesKnown
<1>2. CASE i \notin DOMAIN ops
  <2>1. PICK r \in Requests : req[r].pc = "send" /\ ops'[i].key = ValidatedKey(r)
    BY <1>2, StepOpens DEF Sends, Passes
  <2>2. req[r].key \in Keys
    BY <2>1, TypedIsOrchTyped, RequestIsTyped DEF Ready, RequestIsReady
  <2>. QED  BY <2>1, <2>2, TrimmedKeyAssumption DEF ValidatedKey
<1>. QED  BY <1>1, <1>2

(* Replied requests stay so, with the key they had.                        *)
LEMMA RepliesStay ==
    ASSUME Typed, Step, NEW r \in Requests, req[r].pc = "replied"
    PROVE  req'[r].pc = "replied" /\ req'[r].key = req[r].key /\ SameAnswer(r)
<1>1. ASSUME NEW q \in Requests, Proceeds(q)
      PROVE  req'[r].pc = "replied" /\ req'[r].key = req[r].key /\ SameAnswer(r)
  BY <1>1 DEF Proceeds, Moves, Calls, Arrives, Replays, Prepares, Refuses, Opens, OpensElsewhere,
              Sends, Misses, Links, Repeats, Loses, Retries, Concludes, Notifies, Stores, Misfires,
              Starts, Passes, SameAnswer
<1>2. CASE Halts
  BY <1>2 DEF Halts, Stops, Ended
<1>3. CASE req' = req
  BY <1>3 DEF SameAnswer
<1>. QED  BY <1>1, <1>2, <1>3 DEF Step, Settles, Reminds, HookMoves, HookPasses, Takes, Loads,
                                  Writes, Rejects, Acknowledges

(* The knowledge of the pages is inductive.                                *)
LEMMA PagesStep == Typed /\ OwnKeys' /\ PagesKnown /\ Step => PagesKnown'
<1>. SUFFICES ASSUME Typed, OwnKeys', PagesKnown, Step PROVE PagesKnown'  OBVIOUS
<1>. OrchTyped /\ OrchTypeOK
  BY TypedIsOrchTyped DEF OrchTyped
<1>1. \A h \in Hooks : hooks'[h].pc \in {"save", "notify"} => ~hooks'[h].resp.url
  <2>. SUFFICES ASSUME NEW h \in Hooks, hooks'[h].pc \in {"save", "notify"}
                PROVE  ~hooks'[h].resp.url
    OBVIOUS
  <2>1. ASSUME NEW stored \in Stored, Loads(h, stored) PROVE ~hooks'[h].resp.url
    BY <2>1, UpdateIsResponse DEF Loads, HookPasses, Typed
  <2>2. CASE Writes(h) \/ hooks'[h] = hooks[h]
    BY <2>2 DEF Writes, HookPasses, PagesKnown
  <2>. QED
    BY <2>1, <2>2, NoHookIsIdle DEF Step, Proceeds, hookVars, Settles, Reminds, HookMoves,
          HookPasses, Takes, Writes, Rejects, Acknowledges, Halts, Loads
<1>2. Pages'
  <2>1. ASSUME NEW r \in Requests, Proceeds(r) PROVE Pages'
    BY <2>1, MovesKeepPages DEF Proceeds, PagesKnown
  <2>2. CASE Halts
    BY <2>2, RestartKeepsPages DEF Halts, PagesKnown
  <2>3. CASE SameStore /\ req' = req
    <3>1. AnsweredKeys' = AnsweredKeys
      BY <2>3 DEF AnsweredKeys, Answered, At, ValidatedKey
    <3>. QED  BY <2>3, <3>1 DEF SameStore, Pages, PagesKnown
  <2>4. ASSUME NEW h \in Hooks, Writes(h) PROVE Pages'
    <3>1. req' = req /\ AnsweredKeys' = AnsweredKeys
      BY <2>4 DEF Writes, HookPasses, AnsweredKeys, Answered, At, ValidatedKey
    <3>2. hooks[h].resp \in Response /\ ~hooks[h].resp.url
      BY <2>4 DEF Writes, HookPasses, Typed, HandlersAreReady, PagesKnown
    <3>3. \A k \in Keys : byIdempotency'[k] \in {byIdempotency[k], hooks[h].resp}
      BY <2>4, <3>2, SaveHolds DEF Writes
    <3>. QED  BY <3>1, <3>2, <3>3 DEF Pages, PagesKnown
  <2>. QED  BY <2>1, <2>2, <2>3, <2>4 DEF Step, Settles, Reminds, HookMoves, HookPasses, Takes,
                                          Loads, Rejects, Acknowledges
<1>. QED  BY <1>1, <1>2, KeysStayTrimmed DEF PagesKnown

(* The buyer pays only where a request was answered with the page.         *)
LEMMA AlwaysPagesKnown == Spec => []PagesKnown
<1>1. Init => PagesKnown
  <2>1. DOMAIN << >> = {}
    BY EmptySeq
  <2>. QED  BY <2>1, InitHasNoPages, NoHookIsIdle DEF Init, OrchInit, PagesKnown
<1>. QED  BY <1>1, AlwaysTyped, AlwaysOwnKeys, NextMoves, PagesStep, PTL DEF Spec

(* Told is who was notified of an operation or is being so after the       *)
(* record was written.                                                     *)
ToldOf(i) == i \notin unacked \/ \E h \in Hooks : hooks[h].pc = "notify" /\ hooks[h].op = i

AnsweredOnce(k) ==
    \A q, r \in Requests : (/\ At(q, "replied") /\ ValidatedKey(q) = k
                            /\ At(r, "replied") /\ ValidatedKey(r) = k) => q = r

Recorded(i) == byIdempotency[ops[i].key].status = "CAPTURED"

PaidOps == {i \in DOMAIN ops : ops[i].status = "succeeded" /\ AdapterOf[ops[i].key] = "yookassa"}

RecordsFollow ==
    /\ \A i \in PaidOps : ops[i].key \in AnsweredKeys
    /\ \A i \in PaidOps : (ToldOf(i) /\ AnsweredOnce(ops[i].key)) => Recorded(i)

(* The buyer who pays was sent to the page by an answered request.         *)
LEMMA PayersWereAnswered ==
    ASSUME Sound, PagesKnown, NEW i \in DOMAIN ops, Settles(i, "succeeded")
    PROVE  ops[i].key \in AnsweredKeys
<1>1. PICK r \in Requests : Received(r) /\ req[r].resp.ext = i /\ req[r].resp.url
  BY DEF Settles, PageKnown
<1>2. i # 0
  BY OpIsTyped DEF Sound, Typed, TypeOK
<1>3. HeldHere(req[r].resp)
  BY DEF HeldHere, Held
<1>4. req[r].resp.key = ops[i].key
  BY <1>1, <1>2, <1>3 DEF Sound, Truth, Truthful
<1>5. CASE req[r].pc = "replied"
  BY <1>1, <1>4, <1>5 DEF PagesKnown, Pages, PageIsOwn, AnsweredKeys, Answered, At, ValidatedKey
<1>6. CASE req[r].pc = "replayed"
  BY <1>1, <1>4, <1>6 DEF PagesKnown, Pages
<1>. QED  BY <1>1, <1>5, <1>6 DEF Received

(* An operation becomes paid only by the buyer.                            *)
LEMMA NewlyPaid ==
    ASSUME Typed, Step, NEW i \in DOMAIN ops', ops'[i].status = "succeeded",
           AdapterOf[ops'[i].key] = "yookassa", i \notin PaidOps
    PROVE  i \in DOMAIN ops /\ Settles(i, "succeeded")
<1>. OrchTyped /\ ops \in Seq(Op)
  BY TypedIsOrchTyped DEF OrchTyped, OrchTypeOK
<1>1. ops' # ops
  BY DEF PaidOps
<1>2. ASSUME NEW r \in Requests, Opens(r) PROVE FALSE
  <2>1. ops' = Append(ops, Operation(ValidatedKey(r), "pending")) /\ ValidatedKey(r) \in Keys
    BY <1>2, RequestIsTyped DEF Opens, Sends, Passes
  <2>2. i \in DOMAIN ops \/ ops'[i].status = "pending"
    BY <2>1, AppendOp DEF Operation
  <2>. QED  BY <2>1, <2>2, AppendOp DEF PaidOps
<1>3. ASSUME NEW r \in Requests, NEW status \in {"pending", "succeeded"}, OpensElsewhere(r, status)
      PROVE  FALSE
  <2>1. /\ ops' = Append(ops, Operation(ValidatedKey(r), status)) /\ ValidatedKey(r) \in Keys
        /\ AdapterOf[ValidatedKey(r)] # "yookassa"
    BY <1>3, RequestIsTyped DEF OpensElsewhere, Sends, Passes
  <2>2. i \in DOMAIN ops \/ ops'[i].key = ValidatedKey(r)
    BY <2>1, AppendOp DEF Operation
  <2>. QED  BY <2>1, <2>2, AppendOp DEF PaidOps
<1>4. ASSUME NEW j \in DOMAIN ops, NEW status \in {"succeeded", "canceled"}, Settles(j, status)
      PROVE  i \in DOMAIN ops /\ Settles(i, "succeeded")
  <2>1. /\ DOMAIN ops' = DOMAIN ops /\ ops'[j] = Operation(ops[j].key, status)
        /\ \A m \in DOMAIN ops : m # j => ops'[m] = ops[m]
    BY <1>4, SettleOp DEF Settles
  <2>2. j = i
    BY <2>1 DEF PaidOps
  <2>3. status = "succeeded"
    BY <2>1, <2>2 DEF Operation
  <2>. QED  BY <1>4, <2>2, <2>3
<1>. QED
  BY <1>1, <1>2, <1>3, <1>4 DEF Step, Proceeds, Moves, Calls, Arrives, Unheard, Replays, Starts,
        Prepares, Refuses, Misses, Links, Repeats, Loses, Retries, Concludes, Notifies, Stores,
        Misfires, Reminds, HookMoves, Takes, Loads, Writes, Rejects, Acknowledges, HookPasses,
        Halts, Stops

(* A request that stores over the record of a paid operation is a second   *)
(* one that was answered.                                                  *)
LEMMA StoresIsSecond ==
    ASSUME Typed, OwnKeys, PagesKnown, Step, NEW i \in PaidOps, ops[i].key \in AnsweredKeys,
           NEW r \in Requests, Stores(r), NEW k, k = ops[i].key, req[r].resp.key = k
    PROVE  ~AnsweredOnce(k)'
<1>1. PICK q \in Requests : req[q].pc = "replied" /\ TrimmedKey[req[q].key] = k
  BY DEF AnsweredKeys, Answered, At, ValidatedKey
<1>2. req[r].pc \in {"save", "saveRefusal"} /\ req'[r].pc = "replied" /\ req'[r].key = req[r].key
  BY DEF Stores, Passes
<1>3. k \in {req[r].key, TrimmedKey[req[r].key]} /\ TrimmedKey[k] = k
  BY <1>2 DEF OwnKeys, OwnKey, PagesKnown, PaidOps
<1>4. TrimmedKey[req'[r].key] = k
  BY <1>2, <1>3
<1>5. req'[q].pc = "replied" /\ TrimmedKey[req'[q].key] = k
  BY <1>1, RepliesStay
<1>6. q # r
  BY <1>1, <1>2
<1>. QED  BY <1>2, <1>4, <1>5, <1>6 DEF AnsweredOnce, At, ValidatedKey

(* A step that keeps the record of a paid operation, and tells nobody anew. *)
LEMMA PaidStepFollows ==
    ASSUME Durable, Sound, OwnKeys, PagesKnown, RecordsFollow, Step, NEW i \in PaidOps,
           ToldOf(i)', NEW k, k = ops[i].key, AnsweredOnce(k)'
    PROVE  byIdempotency'[k].status = "CAPTURED"
<1>. Typed /\ OrchTypeOK
  BY TypedIsOrchTyped DEF Sound, OrchTyped
<1>1. k \in Keys /\ i \in DOMAIN ops /\ ops[i].status = "succeeded"
      /\ AdapterOf[ops[i].key] = "yookassa"
  BY OpIsTyped DEF PaidOps
<1>2. AnsweredOnce(k)
  BY RepliesStay DEF AnsweredOnce, At, ValidatedKey
<1>3. ASSUME NEW h \in Hooks, Writes(h), hooks[h].resp \in Response
      PROVE  IF hooks[h].op = i THEN byIdempotency'[k].status = "CAPTURED"
             ELSE byIdempotency'[k] = byIdempotency[k]
  <2>. DEFINE x == hooks[h].resp
  <2>1. /\ Announced(hooks[h].op) /\ x.key = ops[hooks[h].op].key
        /\ x.status = mapYooKassaStatus(ops[hooks[h].op].status)
    BY <1>3 DEF Writes, HookPasses, Sound, HooksKnow, HookKnows
  <2>2. CASE hooks[h].op = i
    <3>1. x.key = k /\ x.status = "CAPTURED"
      BY <1>1, <2>1, <2>2 DEF mapYooKassaStatus
    <3>. QED  BY <1>1, <1>3, <2>2, <3>1, SaveHolds DEF Writes
  <2>3. CASE hooks[h].op # i
    <3>1. x.key # k
      BY <1>1, <2>1, <2>3 DEF Sound, OneOperationPerKey, Announced
    <3>. QED  BY <1>1, <1>3, <2>3, <3>1, SaveHolds DEF Writes
  <2>. QED  BY <2>2, <2>3
<1>4. CASE \E h \in Hooks : Writes(h) /\ hooks[h].resp \in Response /\ hooks[h].op = i
  BY <1>3, <1>4
<1>5. CASE ~\E h \in Hooks : Writes(h) /\ hooks[h].resp \in Response /\ hooks[h].op = i
  <2>1. byIdempotency'[k] = byIdempotency[k]
    <3>1. ASSUME NEW r \in Requests, Stores(r), req[r].resp \in Response
          PROVE  byIdempotency'[k] = byIdempotency[k]
      <4>1. req[r].resp.key # k
        BY <3>1, StoresIsSecond DEF RecordsFollow
      <4>. QED  BY <1>1, <3>1, <4>1, SaveHolds DEF Stores
    <3>2. CASE Halts
      BY <3>2 DEF Halts, Stops
    <3>. QED  BY <1>3, <1>5, <3>1, <3>2, StepFiles DEF SameStore
  <2>2. ToldOf(i)
    <3>1. CASE i \notin unacked'
      <4>1. ASSUME NEW h \in Hooks, Acknowledges(h), i \in unacked PROVE ToldOf(i)
        BY <3>1, <4>1 DEF Acknowledges, HookPasses, ToldOf
      <4>. QED  BY <3>1, <4>1 DEF ToldOf, Step, Proceeds, hookVars, Settles, Reminds, HookMoves,
                      Takes, Loads, Writes, Rejects, Halts
    <3>2. ASSUME NEW h \in Hooks, hooks'[h].pc = "notify", hooks'[h].op = i PROVE ToldOf(i)
      <4>1. CASE hooks'[h] = hooks[h]
        BY <3>2, <4>1 DEF ToldOf
      <4>2. ~Writes(h)
        BY <1>5, <3>2 DEF Writes, HookPasses, SameJob, Typed, HandlersAreReady
      <4>. QED  BY <3>2, <4>1, <4>2, NoHookIsIdle DEF Step, Proceeds, hookVars, Settles, Reminds,
                      HookMoves, HookPasses, Takes, Loads, Rejects, Acknowledges, Halts, Writes
    <3>. QED  BY <3>1, <3>2 DEF ToldOf
  <2>. QED  BY <1>2, <2>1, <2>2 DEF RecordsFollow, Recorded
<1>. QED  BY <1>4, <1>5

(* The records follow what is told.                                        *)
LEMMA RecordsFollowStep ==
    Durable /\ Sound /\ OwnKeys /\ PagesKnown /\ RecordsFollow /\ Step => RecordsFollow'
<1>. SUFFICES ASSUME Durable, Sound, OwnKeys, PagesKnown, RecordsFollow, Step,
                     NEW i \in DOMAIN ops', ops'[i].status = "succeeded",
                     AdapterOf[ops'[i].key] = "yookassa", NEW k, k = ops'[i].key
              PROVE  /\ k \in AnsweredKeys'
                     /\ (ToldOf(i)' /\ AnsweredOnce(k)') => byIdempotency'[k].status = "CAPTURED"
  BY DEF RecordsFollow, PaidOps, Recorded, AnsweredOnce
<1>. Typed
  BY DEF Sound
<1>1. i \in DOMAIN ops /\ k = ops[i].key
  BY NewlyPaid, StepGrows DEF PaidOps, OpsGrow
<1>2. CASE i \in PaidOps
  <2>1. k \in AnsweredKeys'
    BY <1>1, <1>2, AnsweredStays, RepliesStay DEF RecordsFollow
  <2>. QED  BY <1>1, <1>2, <2>1, PaidStepFollows
<1>3. CASE i \notin PaidOps
  <2>1. Settles(i, "succeeded")
    BY <1>3, NewlyPaid
  <2>2. k \in AnsweredKeys'
    BY <1>1, <2>1, PayersWereAnswered, AnsweredStays, RepliesStay
  <2>3. ~ToldOf(i)'
    BY <1>1, <2>1 DEF Settles, ToldOf, Sound, HooksKnow, HookKnows, Announced, ProviderFinal
  <2>. QED  BY <2>2, <2>3
<1>. QED  BY <1>2, <1>3

(* With a database.                                                        *)
Follow == Durable => RecordsFollow

(* Once YooKassa has its 200, the database says CAPTURED of what the buyer *)
(* paid, for any number of requests for any keys and any number of webhook *)
(* goroutines, failed reads and writes, lost acknowledgements and          *)
(* restarts; but for the second answered request that stores an older      *)
(* answer last (yookassa_handler.go ServeHTTP, orchestrator.go             *)
(* CreatePayment).                                                         *)
THEOREM PaidAreRecorded == Spec => []PaidIsRecorded
<1>1. Init => Follow
  <2>1. DOMAIN << >> = {}
    BY EmptySeq
  <2>. QED  BY <2>1 DEF Init, OrchInit, Follow, RecordsFollow, PaidOps
<1>2. Sound /\ OwnKeys /\ PagesKnown /\ Step /\ Follow => Follow'
  BY RecordsFollowStep DEF Follow
<1>3. Spec => []Follow
  BY <1>1, <1>2, AlwaysSound, AlwaysOwnKeys, AlwaysPagesKnown, AlwaysTyped, NextMoves, PTL DEF Spec
<1>4. Follow => PaidIsRecorded
  BY DEF Follow, RecordsFollow, PaidOps, ToldOf, Recorded, AnsweredOnce, PaidIsRecorded
<1>. QED  BY <1>3, <1>4, PTL
=============================================================================
