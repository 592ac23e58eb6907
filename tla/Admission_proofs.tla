------------------------------ MODULE Admission_proofs ------------------------------
(***************************************************************************)
(* Theorems of Admission, for any merchants, rules, environments,          *)
(* requests, address lists and times.                                      *)
(***************************************************************************)
EXTENDS Admission, FiniteSetTheorems, SequenceTheorems, TLAPS

-----------------------------------------------------------------------------
(* Types.                                                                  *)

FiniteTables == \A xm \in Merchants \X Methods : IsFiniteSet(routes[xm])
SenderIsKnown == ~At("idle") => Request \in Requests
ProviderIsChosen == At("send") => call.provider \in Providers

Typed == TypeOK /\ FiniteTables /\ SenderIsKnown /\ ProviderIsChosen

(* What AddRoute takes the next id from: a finite set of ids has a         *)
(* greatest one (pgrouteadd, nextval of the table's ids).                  *)
LEMMA MaxIsThere ==
    ASSUME NEW S \in SUBSET Nat, IsFiniteSet(S), S # {}
    PROVE  Max(S) \in S
<1>. DEFINE Greatest(T) == \E x \in T : \A y \in T : x >= y
            Bad == {T \in FiniteSubsetsOf(S) : T # {} /\ ~Greatest(T)}
<1>1. SUFFICES Greatest(S)
  BY DEF Max
<1>2. SUFFICES Bad = {}
  <2>1. S \in FiniteSubsetsOf(S)
    BY DEF FiniteSubsetsOf
  <2>. QED  BY <2>1, <1>2
<1>3. SUFFICES ASSUME Bad # {} PROVE FALSE
  OBVIOUS
<1>4. PICK T \in Bad : \A U \in Bad : ~(<<U, T>> \in StrictSubsetOrdering(S))
  <2>1. IsWellFoundedOn(StrictSubsetOrdering(S), FiniteSubsetsOf(S))
    BY FS_StrictSubsetOrderingWellFounded
  <2>2. Bad \subseteq FiniteSubsetsOf(S)
    OBVIOUS
  <2>. HIDE DEF Bad
  <2>. QED  BY <2>1, <2>2, <1>3, WFMin
<1>5. T \subseteq S /\ IsFiniteSet(T) /\ T # {} /\ ~Greatest(T)
  BY DEF FiniteSubsetsOf
<1>6. PICK x \in T : TRUE
  BY <1>5
<1>. DEFINE U == T \ {x}
<1>7. U \in FiniteSubsetsOf(S)
  BY <1>5, FS_RemoveElement DEF FiniteSubsetsOf
<1>8. <<U, T>> \in StrictSubsetOrdering(S)
  BY <1>5, <1>6 DEF StrictSubsetOrdering
<1>9. U = {} \/ Greatest(U)
  BY <1>4, <1>7, <1>8
<1>10. CASE U = {}
  <2>1. T = {x} /\ x \in Nat
    BY <1>5, <1>6, <1>10
  <2>. QED  BY <2>1, <1>5
<1>11. CASE Greatest(U)
  <2>1. PICK g \in U : \A y \in U : g >= y
    BY <1>11
  <2>2. x \in Nat /\ g \in Nat /\ \A y \in T : y = x \/ y \in U
    BY <1>5, <1>6, <2>1
  <2>3. CASE g >= x
    BY <2>1, <2>2, <2>3, <1>5
  <2>4. CASE x >= g
    <3>1. \A y \in U : y \in Nat /\ x >= y
      BY <2>1, <2>2, <2>4, <1>5
    <3>. QED  BY <3>1, <2>2, <1>5, <1>6
  <2>. QED  BY <2>2, <2>3, <2>4
<1>. QED  BY <1>9, <1>10, <1>11

(* A rightful provider is one, or none.                                    *)
LEMMA RightfulType ==
    ASSUME NEW m \in Requests, NEW e \in Environments,
           NEW table \in [Merchants \X Methods -> SUBSET RouteRow]
    PROVE  Rightful(m, table, e) \subseteq Providers \cup {NoProvider}
<1>1. <<m.from, m.method>> \in Merchants \X Methods
  BY RequestsAssumption DEF IsRequest
<1>2. FirstRule(table[<<m.from, m.method>>]) \subseteq Providers
  BY <1>1 DEF FirstRule, RouteRow
<1>3. ByEnvironment(m.method, e) \in Providers \cup {NoProvider}
  <2>1. e \in Environment
    BY EnvironmentsAssumption
  <2>2. m.method \in Methods
    BY RequestsAssumption
  <2>. QED  BY <2>1, <2>2 DEF Environment, ByEnvironment, LegacyKeys, Methods, Providers
<1>. QED  BY <1>2, <1>3 DEF Rightful, Providers

(* What the factory resolves a key to is a configured adapter, or none.    *)
LEMMA ResolveType ==
    ASSUME NEW key, NEW e \in Environments
    PROVE  /\ Resolve(key, e) \in e.adapters \cup {NoProvider}
           /\ e.adapters \subseteq Providers
           /\ NoProvider \notin Providers
BY EnvironmentsAssumption DEF Resolve, Environment, Providers, NoProvider

(* The system and the key of a route of the router.                        *)
LEMMA RouteType ==
    ASSUME NEW m \in Requests,
           NEW table \in [Merchants \X Methods -> SUBSET RouteRow],
           NEW r \in Route(m.method, m.card, table[<<m.from, m.method>>])
    PROVE  r \in [system: Systems, key: Providers \cup LegacyKeys]
<1>1. <<m.from, m.method>> \in Merchants \X Methods /\ m.method \in Methods
  BY RequestsAssumption DEF IsRequest
<1>. DEFINE rows == table[<<m.from, m.method>>]
<1>2. rows \in SUBSET RouteRow
  BY <1>1
<1>3. \A x \in GetActiveRoute(rows) : x \in RouteRow
  BY <1>2 DEF GetActiveRoute
<1>4. DefaultRoute[m.method] \in [system: Systems, key: Providers \cup LegacyKeys]
  BY <1>1 DEF DefaultRoute, Methods, Systems, Providers, LegacyKeys
<1>5. CASE r = [system |-> "YOOKASSA", key |-> "yookassa"]
  BY <1>5 DEF Systems, Providers
<1>6. CASE r \in {[system |-> x.system, key |-> x.provider] : x \in GetActiveRoute(rows)}
  BY <1>3, <1>6 DEF RouteRow
<1>. HIDE DEF rows
<1>7. r = [system |-> "YOOKASSA", key |-> "yookassa"]
      \/ r \in {[system |-> x.system, key |-> x.provider] : x \in GetActiveRoute(rows)}
      \/ r = DefaultRoute[m.method]
  BY DEF Route, rows
<1>. QED  BY <1>4, <1>5, <1>6, <1>7

(* Nothing is under way at first, and after a restart.                     *)
LEMMA NoCallType == NoCall \in Call
<1>1. NoRoute \in [system: Systems \cup {""}, key: Providers \cup LegacyKeys \cup {NoProvider}]
  BY DEF NoRoute
<1>2. "" \in Answers
  BY DEF Answers
<1>3. 0 \in 0..MaxTime
  BY BoundsAssumption
<1>. QED  BY <1>1, <1>2, <1>3 DEF NoCall, Call

(* What answering, or sending on, a request leaves as it is.               *)
SameCall(c) ==
    /\ c.msg = call.msg /\ c.arrived = call.arrived
    /\ c.rows = call.rows /\ c.choices = call.choices

(* An answer ends the call and changes nothing else of it (refused by      *)
(* auth.go, authorization.go, a handler).                                  *)
LEMMA AnswerTypes ==
    ASSUME call \in Call, NEW a \in Answers, Answer(a)
    PROVE  /\ call' \in Call
           /\ SameCall(call')
           /\ call'.pc = "done" /\ call'.answer = a
BY DEF Answer, Call, SameCall

(* The next step of the middleware chain leaves what the call holds alone. *)
LEMMA GotoTypes ==
    ASSUME call \in Call, NEW where \in {"check", "read", "validate", "route", "send", "load"},
           Goto(where)
    PROVE  /\ call' \in Call
           /\ SameCall(call')
           /\ call'.pc = where /\ call'.row = call.row
BY DEF Goto, Call, SameCall

(* A payment the orchestrator refuses is on record as FAILED               *)
(* (orchestrator.go failAndSave).                                          *)
LEMMA RefuseTypes ==
    ASSUME Typed, ~At("idle"), NEW a \in Answers, Refuse(a)
    PROVE  /\ payments' \in [Merchants -> Payment \cup {NoPayment}]
           /\ payments' = [payments EXCEPT ![Request.from] = [NoPayment EXCEPT !.status = "FAILED"]]
           /\ Request.from \in Merchants
           /\ call' \in Call /\ SameCall(call') /\ call'.pc = "done" /\ call'.answer = a
<1>1. [NoPayment EXCEPT !.status = "FAILED"] \in Payment
  BY DEF NoPayment, Payment
<1>2. payments' = [payments EXCEPT ![Request.from] = [NoPayment EXCEPT !.status = "FAILED"]]
  BY DEF Refuse, Record
<1>3. payments \in [Merchants -> Payment \cup {NoPayment}] /\ Request.from \in Merchants
  BY RequestsAssumption DEF Typed, TypeOK, SenderIsKnown, IsRequest
<1>4. payments' \in [Merchants -> Payment \cup {NoPayment}]
  BY <1>1, <1>2, <1>3
<1>. QED
  BY <1>2, <1>3, <1>4, AnswerTypes DEF Refuse, Typed, TypeOK

(* A row of an enabled merchant is one of the table; an answered or idle   *)
(* request is not under way.                                               *)
LEMMA StartsKnown ==
    ASSUME Typed
    PROVE  /\ call \in Call /\ env \in Environments
           /\ ~At("idle") => /\ call.msg \in Requests
                             /\ call.msg.from \in Merchants /\ call.msg.to \in Merchants
                             /\ merchants[call.msg.from] \in Row \cup {NoRow}
           /\ \A where \in {"lookup", "check", "read", "validate", "route", "send", "load"} :
                 At(where) => InFlight /\ ~At("idle")
BY RequestsAssumption DEF Typed, TypeOK, SenderIsKnown, Request, IsRequest, At, InFlight, Answered

(* What a step of the chain does, whichever it is, but for the payment.    *)
Onward == /\ UNCHANGED <<merchants, routes, env, now, changes>>
          /\ InFlight
          /\ call' \in Call /\ SameCall(call')
          /\ call'.pc # "idle"

(* AuthenticateMerchant, the network policy and the authorization; reading *)
(* a status or a report (auth.go, network.go, authorization.go).           *)
LEMMA CheckTypes ==
    ASSUME Typed, GetByID \/ GetByIDError \/ Check \/ Read
    PROVE  Onward /\ UNCHANGED <<payments, refunds>>
<1>. USE StartsKnown
<1>1. CASE GetByID
  <2>1. At("lookup") /\ UNCHANGED <<merchants, routes, env, now, payments, refunds, changes>>
    BY <1>1 DEF GetByID
  <2>2. CASE call' = [call EXCEPT !.pc = "done", !.row = merchants[call.msg.from],
                                  !.answer = "AUTHENTICATION_ERROR"]
    BY <2>1, <2>2 DEF Onward, Call, SameCall, Answers, Refusals
  <2>3. CASE call' = [call EXCEPT !.pc = "check", !.row = merchants[call.msg.from]]
    BY <2>1, <2>3 DEF Onward, Call, SameCall
  <2>. QED  BY <1>1, <2>2, <2>3 DEF GetByID, Request
<1>2. CASE GetByIDError
  <2>1. At("lookup") /\ UNCHANGED <<merchants, routes, env, now, payments, refunds, changes>>
    BY <1>2 DEF GetByIDError
  <2>. QED  BY <1>2, <2>1, AnswerTypes DEF Onward, Answers, Refusals, GetByIDError
<1>3. CASE Check
  <2>1. At("check") /\ UNCHANGED <<merchants, routes, env, now, payments, refunds, changes>>
    BY <1>3 DEF Check
  <2>2. \/ \E a \in Refusals : Answer(a)
        \/ Goto(HandlerOf(Request.action))
    BY <1>3 DEF Check, Refusals
  <2>3. HandlerOf(Request.action) \in {"validate", "load", "read"}
    BY DEF HandlerOf
  <2>4. CASE Goto(HandlerOf(Request.action))
    BY <2>1, <2>3, <2>4, GotoTypes DEF Onward
  <2>5. ASSUME NEW a \in Refusals, Answer(a) PROVE Onward
    BY <2>1, <2>5, AnswerTypes DEF Onward, Answers
  <2>. QED  BY <2>1, <2>2, <2>4, <2>5
<1>4. CASE Read
  <2>1. At("read") /\ UNCHANGED <<merchants, routes, env, now, payments, refunds, changes>>
    BY <1>4 DEF Read
  <2>. QED  BY <1>4, <2>1, AnswerTypes DEF Onward, Answers, Read
<1>. QED  BY <1>1, <1>2, <1>3, <1>4

(* What Send writes: a result of the adapter, never CAPTURED without a     *)
(* provider.                                                               *)
LEMMA SendTypes ==
    ASSUME Typed, Send
    PROVE  /\ At("send") /\ UNCHANGED <<merchants, routes, env, now, refunds, changes>>
           /\ call' \in Call /\ SameCall(call') /\ call'.pc = "done" /\ call'.answer = "OK"
           /\ \E o \in Outcomes(call.provider, call.route) :
                 LET new == [provider |-> call.provider, status |-> o.status,
                             system |-> o.system, by |-> Captor(o.status, call.provider)]
                 IN  new \in Payment /\ payments' = [payments EXCEPT ![Request.from] = new]
<1>. USE StartsKnown
<1>1. At("send") /\ UNCHANGED <<merchants, routes, env, now, refunds, changes>> /\ Answer("OK")
  BY DEF Send
<1>2. PICK o \in Outcomes(call.provider, call.route) :
          Record([provider |-> call.provider, status |-> o.status, system |-> o.system,
                  by |-> Captor(o.status, call.provider)])
  BY DEF Send
<1>3. call.provider \in Providers \cup {NoProvider} /\ call.route.system \in Systems \cup {""}
  BY DEF Call
<1>9. call.provider \in Providers
  BY <1>1 DEF Typed, ProviderIsChosen
<1>4. /\ o.status \in {"PENDING", "CAPTURED", "DECLINED", "FAILED"}
      /\ o.system \in Systems \cup {""}
      /\ o.status = "CAPTURED" => call.provider \in Providers
  <2>1. CASE call.provider = "simulated"
    <3>1. Outcomes(call.provider, call.route) = {Outcome("CAPTURED", SystemOf["simulated"])}
      BY <2>1 DEF Outcomes
    <3>2. o = Outcome("CAPTURED", "SIMULATED")
      BY <3>1, <1>2 DEF SystemOf
    <3>. QED  BY <2>1, <3>2 DEF Outcome, Systems, Providers
  <2>2. CASE call.provider = "yookassa"
    <3>1. Outcomes(call.provider, call.route) =
             {Outcome(status, SystemOf["yookassa"]) :
                 status \in {"PENDING", "CAPTURED", "DECLINED", "FAILED"}}
             \cup {Outcome("FAILED", call.route.system)}
      BY <2>2 DEF Outcomes
    <3>2. \/ \E status \in {"PENDING", "CAPTURED", "DECLINED", "FAILED"} :
                o = Outcome(status, "YOOKASSA")
          \/ o = Outcome("FAILED", call.route.system)
      BY <3>1, <1>2 DEF SystemOf
    <3>3. ASSUME NEW status \in {"PENDING", "CAPTURED", "DECLINED", "FAILED"},
                 o = Outcome(status, "YOOKASSA")
          PROVE  o.status \in {"PENDING", "CAPTURED", "DECLINED", "FAILED"} /\ o.system \in Systems
      BY <3>3 DEF Outcome, Systems
    <3>4. ASSUME o = Outcome("FAILED", call.route.system)
          PROVE  o.status \in {"PENDING", "CAPTURED", "DECLINED", "FAILED"}
                 /\ o.system \in Systems \cup {""}
      BY <3>4, <1>3 DEF Outcome
    <3>. QED  BY <2>2, <3>2, <3>3, <3>4 DEF Providers
  <2>3. CASE call.provider \notin {"simulated", "yookassa"}
    <3>1. o = Outcome("PENDING", SystemOf[call.provider])
      BY <2>3, <1>2 DEF Outcomes
    <3>2. call.provider \in {"payanyway", "digital_ruble"}
      BY <2>3, <1>9 DEF Providers
    <3>3. SystemOf["payanyway"] \in Systems /\ SystemOf["digital_ruble"] \in Systems
      BY DEF SystemOf, Systems
    <3>4. SystemOf[call.provider] \in Systems
      BY <3>2, <3>3
    <3>5. o.status = "PENDING" /\ o.system = SystemOf[call.provider]
      BY <3>1 DEF Outcome
    <3>. QED  BY <3>4, <3>5, <1>9
  <2>. QED  BY <2>1, <2>2, <2>3
<1>. DEFINE new == [provider |-> call.provider, status |-> o.status, system |-> o.system,
                    by |-> Captor(o.status, call.provider)]
<1>5. Captor(o.status, call.provider) \in SUBSET Providers
  BY <1>4 DEF Captor
<1>6. new \in Payment
  BY <1>3, <1>4, <1>5 DEF Payment
<1>7. payments' = [payments EXCEPT ![Request.from] = new]
  BY <1>2 DEF Record
<1>8. "OK" \in Answers
  BY DEF Answers
<1>. QED
  BY <1>1, <1>6, <1>7, <1>8, AnswerTypes

(* A payment is validated and its route chosen: on it goes, or it is       *)
(* stored as FAILED (orchestrator.go CreatePayment, router.go Route,       *)
(* factory.go Resolve).                                                    *)
LEMMA ChooseTypes ==
    ASSUME Typed, Validate \/ ChooseRoute \/ RouteError
    PROVE  /\ Onward /\ UNCHANGED refunds
           /\ At("validate") \/ At("route")
           /\ payments' \in [Merchants -> Payment \cup {NoPayment}]
           /\ \/ UNCHANGED payments
              \/ payments' = [payments EXCEPT ![Request.from] = [NoPayment EXCEPT !.status = "FAILED"]]
                 /\ call'.pc = "done"
           /\ call'.pc = "send" =>
                 /\ At("route")
                 /\ call'.provider \in Providers
                 /\ \E r \in Route(Request.method, Request.card, routes[<<Request.from, Request.method>>]) :
                       call'.provider = Resolve(r.key, env)
<1>. USE StartsKnown
<1>0. payments \in [Merchants -> Payment \cup {NoPayment}]
      /\ routes \in [Merchants \X Methods -> SUBSET RouteRow]
  BY DEF Typed, TypeOK
<1>1. ASSUME ~At("idle"), InFlight, At("validate") \/ At("route"),
             UNCHANGED <<merchants, routes, env, now, refunds, changes>>,
             NEW a \in Answers, Refuse(a)
      PROVE  /\ Onward /\ UNCHANGED refunds
             /\ payments' \in [Merchants -> Payment \cup {NoPayment}]
             /\ payments' = [payments EXCEPT ![Request.from] = [NoPayment EXCEPT !.status = "FAILED"]]
             /\ call'.pc = "done"
  BY <1>1, RefuseTypes DEF Onward
<1>2. {"VALIDATION_ERROR", "ROUTING_ERROR", "ADAPTER_FACTORY_ERROR"} \subseteq Answers
  BY DEF Answers
<1>3. CASE Validate
  <2>1. At("validate") /\ UNCHANGED <<merchants, routes, env, now, refunds, changes>>
    BY <1>3 DEF Validate
  <2>2. CASE Goto("route") /\ UNCHANGED payments
    BY <1>0, <2>1, <2>2, GotoTypes DEF Onward
  <2>3. CASE Refuse("VALIDATION_ERROR")
    BY <1>1, <1>2, <2>1, <2>3
  <2>. QED  BY <1>3, <2>2, <2>3 DEF Validate
<1>4. CASE ChooseRoute
  <2>1. At("route") /\ UNCHANGED <<merchants, routes, env, now, refunds, changes>>
    BY <1>4 DEF ChooseRoute
  <2>2. PICK r \in Route(Request.method, Request.card, routes[<<Request.from, Request.method>>]) :
            LET p == Resolve(r.key, env) IN
            \/ /\ p # NoProvider
               /\ call' = [call EXCEPT !.pc = "send", !.route = r, !.provider = p]
               /\ UNCHANGED payments
            \/ p = NoProvider /\ Refuse("ADAPTER_FACTORY_ERROR")
    BY <1>4 DEF ChooseRoute
  <2>3. r \in [system: Systems \cup {""}, key: Providers \cup LegacyKeys \cup {NoProvider}]
    <3>1. r \in [system: Systems, key: Providers \cup LegacyKeys]
      BY <1>0, <2>1, <2>2, RouteType DEF Request
    <3>. QED  BY <3>1
  <2>4. CASE Refuse("ADAPTER_FACTORY_ERROR")
    BY <1>1, <1>2, <2>1, <2>4
  <2>5. ASSUME NEW p, p = Resolve(r.key, env), p # NoProvider,
               call' = [call EXCEPT !.pc = "send", !.route = r, !.provider = p],
               UNCHANGED payments
        PROVE  Onward /\ call'.pc = "send" /\ call'.provider = p /\ p \in Providers
    <3>1. p \in Providers
      BY <2>5, ResolveType
    <3>2. call' \in Call /\ SameCall(call') /\ call'.pc = "send" /\ call'.provider = p
      BY <2>3, <2>5, <3>1 DEF Call, SameCall
    <3>. QED  BY <2>1, <3>1, <3>2 DEF Onward
  <2>6. CASE /\ Resolve(r.key, env) # NoProvider
             /\ call' = [call EXCEPT !.pc = "send", !.route = r, !.provider = Resolve(r.key, env)]
             /\ UNCHANGED payments
    BY <1>0, <2>1, <2>2, <2>5, <2>6
  <2>. QED  BY <2>2, <2>4, <2>6
<1>5. CASE RouteError
  <2>1. At("route") /\ UNCHANGED <<merchants, routes, env, now, refunds, changes>>
        /\ Refuse("ROUTING_ERROR")
    BY <1>5 DEF RouteError
  <2>. QED  BY <1>1, <1>2, <2>1
<1>. QED  BY <1>3, <1>4, <1>5

(* A refund is asked of one adapter, or refused (refunds/handler.go).      *)
LEMMA LoadTypes ==
    ASSUME Typed, Load
    PROVE  /\ Onward /\ UNCHANGED payments
           /\ At("load") /\ call'.pc = "done"
           /\ refunds' \in [Merchants -> SUBSET Providers]
<1>. USE StartsKnown
<1>1. At("load") /\ UNCHANGED <<merchants, routes, env, now, payments, changes>>
  BY DEF Load
<1>2. \E a \in Answers : Answer(a)
  BY DEF Load, Answers
<1>3. Onward /\ call'.pc = "done"
  BY <1>1, <1>2, AnswerTypes DEF Onward
<1>4. AdapterForRefund(Request.to) \in Providers \cup {NoProvider}
  BY ResolveType DEF AdapterForRefund
<1>5. refunds' \in [Merchants -> SUBSET Providers]
  <2>1. refunds \in [Merchants -> SUBSET Providers]
    BY DEF Typed, TypeOK
  <2>. QED  BY <2>1, <1>4 DEF Load
<1>. QED  BY <1>1, <1>3, <1>5

(* A request on its way through the chain keeps its sender; the tables,    *)
(* the environment and the clock are not its to write (the handlers and    *)
(* the middleware of main.go).                                             *)
LEMMA ServeTypes ==
    ASSUME Typed, Serve
    PROVE  Typed' /\ Onward
<1>1. payments \in [Merchants -> Payment \cup {NoPayment}]
      /\ refunds \in [Merchants -> SUBSET Providers]
  BY DEF Typed, TypeOK
<1>. DEFINE Goal == /\ Onward
                    /\ payments' \in [Merchants -> Payment \cup {NoPayment}]
                    /\ refunds' \in [Merchants -> SUBSET Providers]
                    /\ call'.pc = "send" => call'.provider \in Providers
<1>2. ASSUME GetByID \/ GetByIDError \/ Check \/ Read PROVE Goal
  <2>1. Onward /\ UNCHANGED <<payments, refunds>>
    BY <1>2, CheckTypes
  <2>2. call'.pc # "send"
    <3>1. HandlerOf(Request.action) # "send"
      BY DEF HandlerOf
    <3>2. call \in Call
      BY StartsKnown
    <3>3. \/ \E a : Answer(a)
          \/ Goto(HandlerOf(Request.action))
          \/ call' = [call EXCEPT !.pc = "check", !.row = merchants[Request.from]]
          \/ call' = [call EXCEPT !.pc = "done", !.row = merchants[Request.from],
                                  !.answer = "AUTHENTICATION_ERROR"]
      BY <1>2 DEF GetByID, GetByIDError, Check, Read
    <3>4. ASSUME NEW a, Answer(a) PROVE call'.pc # "send"
      BY <3>2, <3>4 DEF Answer, Call
    <3>5. CASE Goto(HandlerOf(Request.action))
      BY <3>1, <3>2, <3>5 DEF Goto, Call
    <3>6. CASE call' = [call EXCEPT !.pc = "check", !.row = merchants[Request.from]]
      BY <3>2, <3>6 DEF Call
    <3>7. CASE call' = [call EXCEPT !.pc = "done", !.row = merchants[Request.from],
                                    !.answer = "AUTHENTICATION_ERROR"]
      BY <3>2, <3>7 DEF Call
    <3>. QED  BY <3>3, <3>4, <3>5, <3>6, <3>7
  <2>. QED  BY <1>1, <2>1, <2>2
<1>3. ASSUME Validate \/ ChooseRoute \/ RouteError PROVE Goal
  <2>. HIDE DEF Onward
  <2>. QED  BY <1>1, <1>3, ChooseTypes
<1>4. ASSUME Send PROVE Goal
  <2>1. At("send") /\ UNCHANGED <<merchants, routes, env, now, refunds, changes>>
        /\ call' \in Call /\ SameCall(call') /\ call'.pc = "done"
    BY <1>4, SendTypes
  <2>2. PICK o \in Outcomes(call.provider, call.route) :
           LET new == [provider |-> call.provider, status |-> o.status,
                       system |-> o.system, by |-> Captor(o.status, call.provider)]
           IN  new \in Payment /\ payments' = [payments EXCEPT ![Request.from] = new]
    BY <1>4, SendTypes
  <2>3. payments' \in [Merchants -> Payment \cup {NoPayment}]
    BY <1>1, <2>2
  <2>. QED  BY <1>1, <2>1, <2>3, StartsKnown DEF Onward
<1>5. ASSUME Load PROVE Goal
  BY <1>1, <1>5, LoadTypes
<1>6. Goal
  BY <1>2, <1>3, <1>4, <1>5 DEF Serve
<1>7. call.msg \in Requests
  BY <1>6, StartsKnown DEF Onward, InFlight
<1>. QED
  BY <1>6, <1>7 DEF Onward, SameCall, Typed, TypeOK, FiniteTables, SenderIsKnown, ProviderIsChosen, Request, At

(* The rules of one merchant and method after a change (pgrouteadd and the *)
(* statements of payment-route-tools.ps1) are rows of the table again.     *)
LEMMA RulesTypes ==
    ASSUME Typed, NEW x \in Merchants, NEW method \in Methods, NEW rows \in SUBSET RouteRow,
           IsFiniteSet(rows), ChangeRules(x, method, rows)
    PROVE  /\ routes' \in [Merchants \X Methods -> SUBSET RouteRow]
           /\ FiniteTables'
<1>1. routes' = [routes EXCEPT ![<<x, method>>] = rows]
  BY DEF ChangeRules
<1>2. routes \in [Merchants \X Methods -> SUBSET RouteRow]
  BY DEF Typed, TypeOK
<1>3. <<x, method>> \in Merchants \X Methods
  OBVIOUS
<1>4. routes' \in [Merchants \X Methods -> SUBSET RouteRow]
  BY <1>1, <1>2, <1>3
<1>5. ASSUME NEW xm \in Merchants \X Methods PROVE IsFiniteSet(routes'[xm])
  <2>1. IsFiniteSet(routes[xm])
    BY DEF Typed, FiniteTables
  <2>2. CASE xm = <<x, method>>
    BY <1>1, <1>2, <1>3, <2>2
  <2>3. CASE xm # <<x, method>>
    <3>1. routes'[xm] = routes[xm]
      BY <1>1, <1>2, <1>5, <2>3
    <3>. QED  BY <2>1, <3>1
  <2>. QED  BY <2>2, <2>3
<1>. QED  BY <1>4, <1>5 DEF FiniteTables

(* A new route leaves a finite table (the rules postgres_routes.go reads,  *)
(* as the operator's script inserts them).                                 *)
LEMMA AddRouteRows ==
    ASSUME Typed, NEW n \in NewRoutes, AddRoute(n.merchant, n.method, n.rule)
    PROVE  \E rows \in SUBSET RouteRow :
              IsFiniteSet(rows) /\ ChangeRules(n.merchant, n.method, rows)
<1>. DEFINE rows == routes[<<n.merchant, n.method>>]
            same == {y \in rows : y.provider = n.rule.provider}
            ids  == {0} \cup {y.id : y \in rows}
            id   == IF same = {} THEN 1 + Max(ids) ELSE (CHOOSE y \in same : TRUE).id
            new  == [n.rule EXCEPT !.id = id]
<1>1. <<n.merchant, n.method>> \in Merchants \X Methods /\ n.rule \in RouteRow
  BY NewRoutesAssumption
<1>2. rows \in SUBSET RouteRow /\ IsFiniteSet(rows)
  BY <1>1 DEF Typed, TypeOK, FiniteTables
<1>. HIDE DEF rows
<1>3. id \in Nat
  <2>1. CASE same = {}
    <3>1. IsFiniteSet({y.id : y \in rows})
      <4>1. [y \in rows |-> y.id] \in Surjection(rows, {y.id : y \in rows})
        BY DEF Surjection
      <4>. QED  BY <1>2, <4>1, FS_Surjection, Zenon
    <3>2. IsFiniteSet(ids)
      BY <3>1, FS_Union, FS_Singleton
    <3>3. ids \in SUBSET Nat /\ ids # {}
      BY <1>2 DEF RouteRow
    <3>4. Max(ids) \in Nat
      <4>. HIDE DEF ids
      <4>. QED  BY <3>2, <3>3, MaxIsThere
    <3>. HIDE DEF ids
    <3>. QED  BY <2>1, <3>4
  <2>2. CASE same # {}
    <3>1. (CHOOSE y \in same : TRUE) \in same
      BY <2>2
    <3>2. (CHOOSE y \in same : TRUE) \in RouteRow
      BY <3>1, <1>2
    <3>. HIDE DEF same
    <3>. QED  BY <2>2, <3>2 DEF RouteRow
  <2>. QED  BY <2>1, <2>2
<1>. HIDE DEF id
<1>4. new \in RouteRow
  BY <1>1, <1>3 DEF RouteRow
<1>. HIDE DEF new
<1>5. IsFiniteSet((rows \ same) \cup {new})
  <2>1. IsFiniteSet(rows \ same)
    BY <1>2, FS_Difference
  <2>. QED  BY <2>1, FS_AddElement
<1>6. (rows \ same) \cup {new} \in SUBSET RouteRow
  BY <1>2, <1>4
<1>7. ChangeRules(n.merchant, n.method, (rows \ same) \cup {new})
  BY DEF AddRoute, rows, id, new
<1>. QED  BY <1>5, <1>6, <1>7

(* So does a route that is switched off or deleted.                        *)
LEMMA DisableRouteRows ==
    ASSUME Typed, NEW x \in Merchants, NEW method \in Methods, NEW p \in Providers,
           DisableRoute(x, method, p) \/ DeleteRoute(x, method, p)
    PROVE  \E rows \in SUBSET RouteRow : IsFiniteSet(rows) /\ ChangeRules(x, method, rows)
<1>. DEFINE rows == routes[<<x, method>>]
            Off(y) == IF y.provider = p THEN [y EXCEPT !.active = FALSE] ELSE y
<1>1. <<x, method>> \in Merchants \X Methods
  OBVIOUS
<1>2. rows \in SUBSET RouteRow /\ IsFiniteSet(rows)
  BY <1>1 DEF Typed, TypeOK, FiniteTables
<1>. HIDE DEF rows
<1>3. CASE DisableRoute(x, method, p)
  <2>1. IsFiniteSet({Off(y) : y \in rows})
    <3>. HIDE DEF Off
    <3>1. [y \in rows |-> Off(y)] \in Surjection(rows, {Off(y) : y \in rows})
      BY DEF Surjection
    <3>. QED  BY <1>2, <3>1, FS_Surjection, Zenon
  <2>2. {Off(y) : y \in rows} \in SUBSET RouteRow
    <3>1. ASSUME NEW y \in RouteRow PROVE Off(y) \in RouteRow
      BY DEF RouteRow
    <3>. HIDE DEF Off
    <3>. QED  BY <1>2, <3>1
  <2>3. ChangeRules(x, method, {Off(y) : y \in rows})
    BY <1>3 DEF DisableRoute, rows
  <2>. QED  BY <2>1, <2>2, <2>3
<1>4. CASE DeleteRoute(x, method, p)
  <2>1. {y \in rows : y.provider # p} \in SUBSET rows
    OBVIOUS
  <2>2. IsFiniteSet({y \in rows : y.provider # p})
    BY <1>2, <2>1, FS_Subset
  <2>3. ChangeRules(x, method, {y \in rows : y.provider # p})
    BY <1>4 DEF DeleteRoute, rows
  <2>. QED  BY <1>2, <2>1, <2>2, <2>3
<1>. QED  BY <1>3, <1>4

(* What an operator's change leaves alone, and what the history of the     *)
(* request under way keeps of it.                                          *)
Observed == /\ UNCHANGED <<env, now, payments, refunds>>
            /\ call' \in Call
            /\ call'.pc = call.pc /\ call'.msg = call.msg /\ call'.row = call.row
            /\ call'.provider = call.provider /\ call'.answer = call.answer
            /\ call'.arrived = call.arrived
            /\ call.rows \subseteq call'.rows /\ call.choices \subseteq call'.choices
            /\ InFlight => /\ merchants'[Request.from] \in call'.rows
                           /\ Rightful(Request, routes', env) \subseteq call'.choices

(* What was true of the tables while a call is under way is added to what  *)
(* it has seen.                                                            *)
LEMMA WitnessTypes ==
    ASSUME Typed, Witness, UNCHANGED <<env, now, payments, refunds>>,
           merchants' \in [Merchants -> Row \cup {NoRow}],
           routes' \in [Merchants \X Methods -> SUBSET RouteRow]
    PROVE  Observed
<1>1. call \in Call
  BY StartsKnown
<1>2. CASE ~InFlight
  BY <1>1, <1>2 DEF Witness, Observed
<1>3. CASE InFlight
  <2>. DEFINE row == merchants'[Request.from]
              some == Rightful(Request, routes', env)
  <2>1. call.msg \in Requests /\ call.msg.from \in Merchants
    BY <1>3, StartsKnown DEF InFlight
  <2>2. row \in Row \cup {NoRow}
    BY <2>1 DEF Request
  <2>3. some \in SUBSET (Providers \cup {NoProvider})
    BY <2>1, StartsKnown, RightfulType DEF Request
  <2>4. call' = [call EXCEPT !.rows = @ \cup {row}, !.choices = @ \cup some]
    BY <1>3 DEF Witness
  <2>. HIDE DEF row, some
  <2>5. /\ call' \in Call
        /\ call'.pc = call.pc /\ call'.msg = call.msg /\ call'.row = call.row
        /\ call'.provider = call.provider /\ call'.answer = call.answer
        /\ call'.arrived = call.arrived
        /\ call'.rows = call.rows \cup {row} /\ call'.choices = call.choices \cup some
    BY <1>1, <2>2, <2>3, <2>4 DEF Call
  <2>. QED  BY <2>5 DEF Observed, row, some
<1>. QED  BY <1>2, <1>3

(* The operator's changes, a restart aside: both tables stay tables        *)
(* (create-merchant.ps1, payment-route-tools.ps1).                         *)
Alter ==
    \/ \E x \in Merchants : \/ \E b \in BOOLEAN : SetActive(x, b)
                            \/ \E role \in Roles : SetRole(x, role) \/ IssueKeys(x, role)
    \/ \E n \in NewRoutes : AddRoute(n.merchant, n.method, n.rule)
    \/ \E x \in Merchants, method \in Methods, p \in Providers :
          DisableRoute(x, method, p) \/ DeleteRoute(x, method, p)

(* The operations on the merchant and routing tables keep the types, and a *)
(* call sees what they did.                                                *)
LEMMA AlterTypes ==
    ASSUME Typed, Alter
    PROVE  Typed' /\ Observed
<1>1. /\ merchants \in [Merchants -> Row \cup {NoRow}]
      /\ routes \in [Merchants \X Methods -> SUBSET RouteRow]
      /\ changes \in 0..MaxChanges
  BY DEF Typed, TypeOK
<1>2. ASSUME NEW x \in Merchants, NEW row \in Row, ChangeRow(x, row)
      PROVE  Typed' /\ Observed
  <2>1. merchants' \in [Merchants -> Row \cup {NoRow}] /\ routes' = routes
    BY <1>1, <1>2 DEF ChangeRow
  <2>2. Observed
    BY <1>1, <1>2, <2>1, WitnessTypes DEF ChangeRow
  <2>3. changes' \in 0..MaxChanges
    BY <1>1, <1>2, BoundsAssumption DEF ChangeRow, Change
  <2>. QED
    BY <2>1, <2>2, <2>3 DEF Typed, TypeOK, FiniteTables, SenderIsKnown, ProviderIsChosen,
                            Observed, At, Request
<1>3. ASSUME NEW x \in Merchants, NEW method \in Methods, NEW rows \in SUBSET RouteRow,
             IsFiniteSet(rows), ChangeRules(x, method, rows)
      PROVE  Typed' /\ Observed
  <2>1. /\ routes' \in [Merchants \X Methods -> SUBSET RouteRow]
        /\ FiniteTables' /\ merchants' = merchants
    BY <1>3, RulesTypes DEF ChangeRules
  <2>2. Observed
    BY <1>1, <1>3, <2>1, WitnessTypes DEF ChangeRules
  <2>3. changes' \in 0..MaxChanges
    BY <1>1, <1>3, BoundsAssumption DEF ChangeRules, Change
  <2>. QED
    BY <1>1, <2>1, <2>2, <2>3 DEF Typed, TypeOK, SenderIsKnown, ProviderIsChosen, Observed, At, Request
<1>4. ASSUME NEW x \in Merchants, NEW b \in BOOLEAN, SetActive(x, b)
      PROVE  Typed' /\ Observed
  <2>1. [merchants[x] EXCEPT !.active = b] \in Row
    BY <1>1, <1>4 DEF SetActive, Known, Row
  <2>. QED  BY <1>2, <1>4, <2>1 DEF SetActive
<1>5. ASSUME NEW x \in Merchants, NEW role \in Roles, SetRole(x, role)
      PROVE  Typed' /\ Observed
  <2>1. [merchants[x] EXCEPT !.role = role] \in Row
    BY <1>1, <1>5 DEF SetRole, Known, Row
  <2>. QED  BY <1>2, <1>5, <2>1 DEF SetRole
<1>6. ASSUME NEW x \in Merchants, NEW role \in Roles, IssueKeys(x, role)
      PROVE  Typed' /\ Observed
  <2>1. [key |-> changes + 2, role |-> role, active |-> TRUE] \in Row
    BY <1>1 DEF Row
  <2>. QED  BY <1>2, <1>6, <2>1 DEF IssueKeys
<1>7. ASSUME NEW n \in NewRoutes, AddRoute(n.merchant, n.method, n.rule)
      PROVE  Typed' /\ Observed
  <2>1. n.merchant \in Merchants /\ n.method \in Methods
    BY NewRoutesAssumption
  <2>. QED  BY <1>3, <1>7, <2>1, AddRouteRows
<1>8. ASSUME NEW x \in Merchants, NEW method \in Methods, NEW p \in Providers,
             DisableRoute(x, method, p) \/ DeleteRoute(x, method, p)
      PROVE  Typed' /\ Observed
  BY <1>3, <1>8, DisableRouteRows
<1>. QED  BY <1>4, <1>5, <1>6, <1>7, <1>8 DEF Alter

(* A seeded row is one of the environment's (main.go seedDefaultMerchant). *)
LEMMA RestartTypes ==
    ASSUME Typed, NEW e \in Environments, Restart(e)
    PROVE  Typed' /\ call' = NoCall /\ UNCHANGED <<routes, now, payments, refunds>>
<1>1. /\ merchants \in [Merchants -> Row \cup {NoRow}] /\ changes \in 0..MaxChanges
  BY DEF Typed, TypeOK
<1>2. merchants' \in [Merchants -> Row \cup {NoRow}]
  <2>1. ASSUME NEW x \in Merchants, Seeded(e, x) # {}
        PROVE  (CHOOSE row \in Seeded(e, x) : TRUE) \in Row
    <3>1. Seeded(e, x) \subseteq Row
      BY SeedsAssumption DEF Seeded
    <3>2. (CHOOSE row \in Seeded(e, x) : TRUE) \in Seeded(e, x)
      BY <2>1
    <3>. QED  BY <3>1, <3>2
  <2>. QED  BY <1>1, <2>1 DEF Restart
<1>3. changes' \in 0..MaxChanges
  BY <1>1, BoundsAssumption DEF Restart, Change
<1>4. call' \in Call /\ call' = NoCall /\ call'.pc = "idle"
  BY NoCallType DEF Restart, NoCall
<1>. QED
  BY <1>2, <1>3, <1>4 DEF Restart, Typed, TypeOK, FiniteTables, SenderIsKnown, ProviderIsChosen, At

(* A request comes in (transport.go, the outermost of the chain).          *)
LEMMA ReceiveTypes ==
    ASSUME Typed, NEW m \in Requests, Receive(m)
    PROVE  /\ Typed'
           /\ UNCHANGED <<merchants, routes, env, now, payments, refunds, changes>>
           /\ At("idle") /\ (m.action = "pay" => payments[m.from] = NoPayment)
           /\ call'.msg = m /\ call'.arrived = now /\ call'.rows = {merchants[m.from]}
           /\ call'.row = NoRow /\ call'.choices = Rightful(m, routes, env)
           /\ \/ call'.pc = "lookup" /\ call'.answer = ""
              \/ call'.pc = "done" /\ call'.answer = "HTTPS_REQUIRED" /\ ~IsSecureRequest(m)
<1>1. /\ merchants[m.from] \in Row \cup {NoRow}
      /\ now \in 0..MaxTime
      /\ Rightful(m, routes, env) \in SUBSET (Providers \cup {NoProvider})
  BY RequestsAssumption, RightfulType DEF Typed, TypeOK, IsRequest
<1>2. UNCHANGED <<merchants, routes, env, now, payments, refunds, changes>>
      /\ At("idle") /\ (m.action = "pay" => payments[m.from] = NoPayment)
  BY DEF Receive
<1>. DEFINE away == RequireHTTPS /\ ~IsSecureRequest(m)
            some == Rightful(m, routes, env)
            pc == IF away THEN "done" ELSE "lookup"
            answer == IF away THEN "HTTPS_REQUIRED" ELSE ""
<1>3. call' = [NoCall EXCEPT !.pc = pc, !.answer = answer,
                 !.msg = m, !.arrived = now, !.rows = {merchants[m.from]}, !.choices = some]
  BY DEF Receive
<1>4. pc \in {"done", "lookup"} /\ answer \in Answers
  BY DEF Answers, Refusals
<1>5. \/ pc = "lookup" /\ answer = ""
      \/ pc = "done" /\ answer = "HTTPS_REQUIRED" /\ ~IsSecureRequest(m)
  OBVIOUS
<1>. HIDE DEF some, pc, answer
<1>6. /\ call' \in Call
      /\ call'.pc = pc /\ call'.answer = answer /\ call'.msg = m /\ call'.arrived = now
      /\ call'.rows = {merchants[m.from]} /\ call'.choices = some /\ call'.row = NoRow
  BY <1>1, <1>3, <1>4, NoCallType DEF Call, some, NoCall
<1>7. Typed'
  BY <1>2, <1>4, <1>6 DEF Typed, TypeOK, FiniteTables, SenderIsKnown, ProviderIsChosen, At, Request
<1>. QED
  BY <1>2, <1>5, <1>6, <1>7 DEF some

(* A webhook or a scan stores a capture (yookassa_handler.go,              *)
(* payanyway_handler.go, digital_ruble_sandbox_handler.go).                *)
LEMMA CaptureTypes ==
    ASSUME Typed, NEW x \in Merchants, Announce(x) \/ Scan(x)
    PROVE  /\ Typed'
           /\ UNCHANGED <<merchants, routes, env, now, call, refunds, changes>>
           /\ payments[x].provider # NoProvider \/ payments[x].system # ""
           /\ \E p \in Providers :
                 payments' = [payments EXCEPT ![x].status = "CAPTURED", ![x].system = SystemOf[p],
                                              ![x].by = @ \cup {p}]
<1>1. PICK p \in Providers : /\ Capture(x, p)
                             /\ payments[x].provider # NoProvider \/ payments[x].system # ""
  BY DEF Announce, Scan, Providers, NoProvider
<1>2. SystemOf[p] \in Systems
  BY DEF Providers, SystemOf, Systems
<1>3. payments[x] \in Payment
  <2>1. payments[x] \in Payment \cup {NoPayment}
    BY DEF Typed, TypeOK
  <2>2. payments[x] # NoPayment
    <3>1. NoPayment.provider = NoProvider /\ NoPayment.system = ""
      BY DEF NoPayment
    <3>. QED  BY <1>1, <3>1
  <2>. QED  BY <2>1, <2>2
<1>4. payments' = [payments EXCEPT ![x].status = "CAPTURED", ![x].system = SystemOf[p],
                                   ![x].by = @ \cup {p}]
  BY <1>1 DEF Capture
<1>5. payments' \in [Merchants -> Payment \cup {NoPayment}]
  <2>1. payments \in [Merchants -> Payment \cup {NoPayment}]
    BY DEF Typed, TypeOK
  <2>2. [payments[x] EXCEPT !.status = "CAPTURED", !.system = SystemOf[p],
                            !.by = @ \cup {p}] \in Payment
    BY <1>2, <1>3 DEF Payment
  <2>3. payments' = [payments EXCEPT ![x] = [payments[x] EXCEPT !.status = "CAPTURED",
                                !.system = SystemOf[p], !.by = @ \cup {p}]]
    BY <2>1, <1>3, <1>4 DEF Payment
  <2>. QED  BY <2>1, <2>2, <2>3
<1>6. UNCHANGED <<merchants, routes, env, now, call, refunds, changes>>
  BY <1>1 DEF Capture
<1>. QED
  BY <1>1, <1>4, <1>5, <1>6
     DEF Typed, TypeOK, FiniteTables, SenderIsKnown, ProviderIsChosen, At, Request

(* A call that was answered makes room for the next.                       *)
LEMMA FinishTypes ==
    ASSUME Typed, Finish
    PROVE  /\ Typed' /\ call' = NoCall
           /\ UNCHANGED <<merchants, routes, env, now, payments, refunds, changes>>
<1>1. call' = NoCall /\ UNCHANGED <<merchants, routes, env, now, payments, refunds, changes>>
  BY DEF Finish
<1>2. call' \in Call /\ call'.pc = "idle"
  BY <1>1, NoCallType DEF NoCall
<1>. QED
  BY <1>1, <1>2 DEF Typed, TypeOK, FiniteTables, SenderIsKnown, ProviderIsChosen, At

(* Time passes for the call that is under way.                             *)
LEMMA TickTypes ==
    ASSUME Typed, Tick
    PROVE  /\ Typed' /\ now <= now'
           /\ UNCHANGED <<merchants, routes, env, call, payments, refunds, changes>>
BY BoundsAssumption
   DEF Tick, Typed, TypeOK, FiniteTables, SenderIsKnown, ProviderIsChosen, At, Request

(* The steps, as the invariants below are carried through them.            *)
LEMMA Steps ==
    ASSUME Next
    PROVE  \/ \E m \in Requests : Receive(m)
           \/ Serve
           \/ Finish
           \/ \E x \in Merchants : Announce(x) \/ Scan(x)
           \/ Alter
           \/ \E e \in Environments : Restart(e)
           \/ Tick
BY DEF Next, Operate, Alter

(* The gateway starts with well-formed tables and no call.                 *)
LEMMA InitIsTyped == Init => Typed
<1>1. NoCall.pc = "idle"
  BY DEF NoCall
<1>. QED
  BY <1>1, NoCallType, TablesAssumption, BoundsAssumption
     DEF Init, Typed, TypeOK, FiniteTables, SenderIsKnown, ProviderIsChosen, At

(* The typing invariant is inductive.                                      *)
LEMMA StepIsTyped == Typed /\ [Next]_vars => Typed'
<1>1. CASE UNCHANGED vars
  BY <1>1 DEF vars, Typed, TypeOK, FiniteTables, SenderIsKnown, ProviderIsChosen, At, Request
<1>2. CASE Next
  BY <1>2, Steps, ServeTypes, ReceiveTypes, FinishTypes, CaptureTypes, AlterTypes,
     RestartTypes, TickTypes
<1>. QED  BY <1>1, <1>2

(* Every state of the admission chain is well typed.                       *)
LEMMA AlwaysTyped == Spec => []Typed
BY InitIsTyped, StepIsTyped, PTL DEF Spec

(* Every variable has its type (main.go's tables and the records of the    *)
(* chain), for any tables, requests and environments.                      *)
THEOREM TypeCorrect == Spec => []TypeOK
<1>1. Typed => TypeOK
  BY DEF Typed
<1>. QED  BY <1>1, AlwaysTyped, PTL

-----------------------------------------------------------------------------
(* Decisions.                                                              *)

(* The invariant DecisionIsRight rests on: the history of the request has  *)
(* the row its sender has now, and the row that is checked is one of it.   *)
RowIsKnown == /\ InFlight => merchants[Request.from] \in call.rows
              /\ At("lookup") => call.row = NoRow
              /\ call.arrived <= now
              /\ At("check") => call.row \in call.rows /\ call.row.active

Judged == Typed /\ RowIsKnown /\ DecisionIsRight

(* What could once be judged so can be judged so for good.                 *)
LEMMA Remembers ==
    ASSUME Typed, Typed', call'.msg = call.msg, call'.arrived = call.arrived,
           call.rows \subseteq call'.rows, now <= now'
    PROVE  /\ EverPermitted => EverPermitted'
           /\ EverForbidden => EverForbidden'
<1>1. call.arrived \in Nat /\ now \in Nat /\ now' \in Nat
  <2>1. call.arrived \in 0..MaxTime
    BY StartsKnown DEF Call
  <2>2. now \in 0..MaxTime /\ now' \in 0..MaxTime
    BY DEF Typed, TypeOK
  <2>. QED  BY <2>1, <2>2, BoundsAssumption
<1>2. call.arrived..now \subseteq call'.arrived..now'
  BY <1>1
<1>. QED
  BY <1>2 DEF EverPermitted, EverForbidden, Request

(* The checks let through exactly what the row permits, but for a payment  *)
(* whose body names someone else (auth.go, network.go, authorization.go).  *)
LEMMA Verdict ==
    ASSUME NEW m \in Requests, NEW row \in Row, row.active, NEW t \in Nat
    PROVE  (/\ KeysMatch(row, m) /\ validateTimestamp(m.stamp, t) /\ checkBodyMerchantID(m)
            /\ NetworkAllows(row.role, m) /\ Authorized(row.role, m))
           <=> (Permits(row, t, m) /\ checkBodyMerchantID(m))
<1>1. /\ m.from \in Merchants /\ m.to \in Merchants /\ m.action \in Actions
      /\ m.stamp \in Nat /\ Window \in Nat
  BY RequestsAssumption, WindowAssumption DEF IsRequest
<1>2. row.role \in Roles
  BY DEF Row
<1>3. validateTimestamp(m.stamp, t) <=> m.stamp - Window <= t /\ t <= m.stamp + Window
  BY <1>1 DEF validateTimestamp
<1>4. checkBodyMerchantID(m) => (Authorized(row.role, m) <=> m.to \in Reach(row.role, m))
  <2>1. CASE row.role = "merchant"
    BY <1>1, <2>1 DEF Authorized, CanWriteMerchantData, CanReadMerchantData, Reach
  <2>2. CASE row.role = "admin"
    BY <1>1, <2>2 DEF Authorized, CanWriteMerchantData, CanReadMerchantData, Reach
  <2>3. CASE row.role = "auditor"
    BY <1>1, <2>3 DEF Authorized, CanWriteMerchantData, CanReadMerchantData, Reach, Actions
  <2>. QED  BY <1>2, <2>1, <2>2, <2>3 DEF Roles
<1>. QED  BY <1>3, <1>4 DEF KeysMatch, Permits

(* The row is read once, and judged by that reading.                       *)
LEMMA CheckDecides ==
    ASSUME Judged, Check
    PROVE  \/ Goto(HandlerOf(Request.action)) /\ EverPermitted
           \/ /\ \E a \in Refusals : Answer(a)
              /\ \/ Request.action = "pay" /\ (Request.to # Request.from \/ Request.spaced)
                 \/ EverForbidden
<1>1. At("check") /\ call.row \in call.rows /\ call.row.active /\ call.arrived <= now
  BY DEF Check, Judged, RowIsKnown
<1>2. call \in Call /\ now \in Nat /\ Request \in Requests
  <2>. At("check") => ~At("idle")
    BY DEF At
  <2>. QED  BY <1>1, BoundsAssumption DEF Judged, Typed, TypeOK, SenderIsKnown
<1>3. call.row \in Row
  <2>1. call.row \in Row \cup {NoRow}
    BY <1>2 DEF Call
  <2>2. ~NoRow.active
    BY DEF NoRow
  <2>. QED  BY <1>1, <2>1, <2>2
<1>4. now \in call.arrived..now
  <2>1. call.arrived \in 0..MaxTime
    BY <1>2 DEF Call
  <2>. QED  BY <1>1, <1>2, <2>1, BoundsAssumption
<1>. DEFINE passes == /\ KeysMatch(call.row, Request) /\ validateTimestamp(Request.stamp, now)
                      /\ checkBodyMerchantID(Request)
                      /\ NetworkAllows(call.row.role, Request)
                      /\ Authorized(call.row.role, Request)
<1>5. passes <=> Permits(call.row, now, Request) /\ checkBodyMerchantID(Request)
  BY <1>1, <1>2, <1>3, Verdict
<1>6. \/ passes /\ Goto(HandlerOf(Request.action))
      \/ ~passes /\ \E a \in Refusals : Answer(a)
  BY DEF Check, Authentic, RoleOfCall, Refusals
<1>. HIDE DEF passes
<1>7. CASE passes
  BY <1>1, <1>4, <1>5, <1>6, <1>7 DEF EverPermitted
<1>8. CASE ~passes
  <2>1. \/ ~Permits(call.row, now, Request)
        \/ ~checkBodyMerchantID(Request)
    BY <1>5, <1>8
  <2>2. ~checkBodyMerchantID(Request) =>
           Request.action = "pay" /\ (Request.to # Request.from \/ Request.spaced)
    BY DEF checkBodyMerchantID
  <2>3. ~Permits(call.row, now, Request) => EverForbidden
    BY <1>1, <1>4 DEF EverForbidden
  <2>. QED  BY <1>6, <1>8, <2>1, <2>2, <2>3
<1>. QED  BY <1>7, <1>8

(* What the decision is about, of a request that has not been answered or  *)
(* let through, is nothing yet.                                            *)
LEMMA Undecided ==
    ASSUME call.pc \in {"idle", "lookup", "check"}
    PROVE  DecisionIsRight
BY DEF DecisionIsRight, Admitted, Turned, Answered, At, Refusals

(* AuthenticateMerchant up to the comparison of keys (auth.go).            *)
LEMMA LookupJudges ==
    ASSUME Judged, GetByID \/ GetByIDError
    PROVE  Judged'
<1>1. Typed' /\ Onward
  BY ServeTypes DEF Serve, Judged
<1>2. /\ At("lookup") /\ merchants[Request.from] \in call.rows /\ call.arrived <= now
      /\ call \in Call
  BY StartsKnown DEF GetByID, GetByIDError, Judged, RowIsKnown, At, InFlight, Answered
<1>3. /\ merchants' = merchants /\ now' = now /\ call'.msg = call.msg
      /\ call'.arrived = call.arrived /\ call'.rows = call.rows
  BY <1>1 DEF Onward, SameCall
<1>4. /\ (InFlight => merchants[Request.from] \in call.rows)'
      /\ (call.arrived <= now)'
  BY <1>2, <1>3 DEF Request
<1>5. CASE GetByIDError
  <2>1. call'.pc = "done" /\ call'.answer = "AUTHENTICATION_ERROR" /\ call'.row = NoRow
    BY <1>2, <1>5 DEF GetByIDError, Answer, Call, Judged, RowIsKnown, At
  <2>2. DecisionIsRight'
    BY <2>1 DEF DecisionIsRight, Admitted, Turned, Answered, At, Refusals
  <2>. QED  BY <1>1, <1>4, <2>1, <2>2 DEF Judged, RowIsKnown, At
<1>6. CASE /\ merchants[Request.from].active
           /\ call' = [call EXCEPT !.pc = "check", !.row = merchants[Request.from]]
  <2>1. call'.pc = "check" /\ call'.row = merchants[Request.from]
    BY <1>2, <1>6 DEF Call
  <2>2. DecisionIsRight'
    BY <2>1 DEF DecisionIsRight, Admitted, Turned, Answered, At
  <2>. QED  BY <1>1, <1>2, <1>3, <1>4, <1>6, <2>1, <2>2 DEF Judged, RowIsKnown, At
<1>7. CASE /\ ~merchants[Request.from].active
           /\ call' = [call EXCEPT !.pc = "done", !.row = merchants[Request.from],
                                   !.answer = "AUTHENTICATION_ERROR"]
  <2>1. call'.pc = "done" /\ call'.answer = "AUTHENTICATION_ERROR"
    BY <1>2, <1>7 DEF Call
  <2>2. now \in call.arrived..now
    <3>1. call.arrived \in 0..MaxTime /\ now \in 0..MaxTime
      BY <1>2 DEF Call, Judged, Typed, TypeOK
    <3>. QED  BY <1>2, <3>1, BoundsAssumption
  <2>3. EverForbidden
    BY <1>2, <1>7, <2>2 DEF EverForbidden, Permits
  <2>4. EverForbidden'
    BY <2>3, <1>3 DEF EverForbidden, Request
  <2>5. DecisionIsRight'
    BY <2>1, <2>4 DEF DecisionIsRight, Admitted, Turned, Answered, At, Refusals
  <2>. QED  BY <1>1, <1>4, <2>1, <2>5 DEF Judged, RowIsKnown, At
<1>. QED  BY <1>5, <1>6, <1>7 DEF GetByID

(* The checks of the API key, the network and the role refuse only what    *)
(* the row they were made on forbids (auth.go, network.go,                 *)
(* authorization.go).                                                      *)
LEMMA CheckJudges ==
    ASSUME Judged, Check
    PROVE  Judged'
<1>1. Typed' /\ Onward
  BY ServeTypes DEF Serve, Judged
<1>2. /\ merchants' = merchants /\ now' = now /\ call'.msg = call.msg
      /\ call'.arrived = call.arrived /\ call'.rows = call.rows /\ InFlight
  BY <1>1 DEF Onward, SameCall
<1>3. /\ (InFlight => merchants[Request.from] \in call.rows)'
      /\ (call.arrived <= now)'
  BY <1>2 DEF Request, Judged, RowIsKnown
<1>4. /\ EverPermitted => EverPermitted'
      /\ EverForbidden => EverForbidden'
  BY <1>2 DEF EverPermitted, EverForbidden, Request
<1>5. call \in Call
  BY StartsKnown DEF Judged
<1>6. CASE Goto(HandlerOf(Request.action)) /\ EverPermitted
  <2>1. HandlerOf(Request.action) \in {"validate", "load", "read"}
    BY DEF HandlerOf
  <2>2. call'.pc \in {"validate", "load", "read"}
    BY <1>5, <1>6, <2>1 DEF Goto, Call
  <2>3. DecisionIsRight'
    BY <1>4, <1>6, <2>2 DEF DecisionIsRight, Turned, Answered, At
  <2>. QED  BY <1>1, <1>3, <2>2, <2>3 DEF Judged, RowIsKnown, At
<1>7. ASSUME NEW a \in Refusals, Answer(a),
             \/ Request.action = "pay" /\ (Request.to # Request.from \/ Request.spaced)
             \/ EverForbidden
      PROVE  Judged'
  <2>1. call'.pc = "done" /\ call'.answer \in Refusals
    BY <1>5, <1>7 DEF Answer, Call
  <2>2. \/ Request'.action = "pay" /\ (Request'.to # Request'.from \/ Request'.spaced)
        \/ EverForbidden'
    BY <1>2, <1>4, <1>7 DEF Request
  <2>3. DecisionIsRight'
    BY <2>1, <2>2 DEF DecisionIsRight, Admitted, At, Answered
  <2>. QED  BY <1>1, <1>3, <2>1, <2>3 DEF Judged, RowIsKnown, At
<1>. QED  BY <1>6, <1>7, CheckDecides

(* Past the checks no answer is a refusal of theirs.                       *)
LEMMA HandlerJudges ==
    ASSUME Judged, Read \/ Validate \/ ChooseRoute \/ RouteError \/ Send \/ Load
    PROVE  Judged'
<1>1. Typed' /\ Onward
  BY ServeTypes DEF Serve, Judged
<1>2. /\ merchants' = merchants /\ now' = now /\ call'.msg = call.msg
      /\ call'.arrived = call.arrived /\ call'.rows = call.rows /\ InFlight
  BY <1>1 DEF Onward, SameCall
<1>3. /\ (InFlight => merchants[Request.from] \in call.rows)'
      /\ (call.arrived <= now)'
  BY <1>2 DEF Request, Judged, RowIsKnown
<1>4. call.pc \in {"read", "validate", "route", "send", "load"}
  BY DEF Read, Validate, ChooseRoute, RouteError, Send, Load, At
<1>5. EverPermitted
  BY <1>4 DEF Judged, DecisionIsRight, Admitted
<1>6. EverPermitted'
  BY <1>2, <1>5 DEF EverPermitted, Request
<1>7. call'.pc \in {"route", "send"} \/ (call'.pc = "done" /\ call'.answer \notin Refusals)
  <2>1. call \in Call
    BY StartsKnown DEF Judged
  <2>2. \/ Goto("route")
        \/ \E r, p : call' = [call EXCEPT !.pc = "send", !.route = r, !.provider = p]
        \/ \E a \in {"OK", "VALIDATION_ERROR", "ROUTING_ERROR", "ADAPTER_FACTORY_ERROR",
                     "PAYMENT_NOT_CAPTURED", "REFUND_NOT_SUPPORTED"} : Answer(a)
    BY DEF Read, Validate, ChooseRoute, RouteError, Send, Load, Refuse
  <2>3. ASSUME NEW a, a \notin Refusals, Answer(a)
        PROVE  call'.pc = "done" /\ call'.answer \notin Refusals
    BY <2>1, <2>3 DEF Answer, Call
  <2>4. {"OK", "VALIDATION_ERROR", "ROUTING_ERROR", "ADAPTER_FACTORY_ERROR",
         "PAYMENT_NOT_CAPTURED", "REFUND_NOT_SUPPORTED"} \cap Refusals = {}
    BY DEF Refusals
  <2>5. CASE Goto("route")
    BY <2>1, <2>5 DEF Goto, Call
  <2>6. ASSUME NEW r, NEW p, call' = [call EXCEPT !.pc = "send", !.route = r, !.provider = p]
        PROVE  call'.pc = "send"
    BY <2>1, <2>6 DEF Call
  <2>. QED  BY <2>2, <2>3, <2>4, <2>5, <2>6
<1>8. DecisionIsRight'
  BY <1>6, <1>7 DEF DecisionIsRight, Turned, Answered, At
<1>9. ~At("check")' /\ ~At("lookup")'
  BY <1>7 DEF At
<1>. QED  BY <1>1, <1>3, <1>8, <1>9 DEF Judged, RowIsKnown

(* A request that just came has the row its sender has now.                *)
LEMMA ReceiveJudges ==
    ASSUME Judged, NEW m \in Requests, Receive(m)
    PROVE  Judged'
<1>. USE DEF Judged
<1>1. /\ Typed'
      /\ UNCHANGED <<merchants, now>>
      /\ call'.msg = m /\ call'.arrived = now /\ call'.rows = {merchants[m.from]}
      /\ call'.row = NoRow
      /\ \/ call'.pc = "lookup" /\ call'.answer = ""
         \/ call'.pc = "done" /\ call'.answer = "HTTPS_REQUIRED" /\ ~IsSecureRequest(m)
  BY ReceiveTypes
<1>2. RowIsKnown'
  <2>1. now <= now
    <3>1. now \in 0..MaxTime
      BY DEF Typed, TypeOK
    <3>. QED  BY <3>1, BoundsAssumption
  <2>. QED  BY <1>1, <2>1 DEF RowIsKnown, Request, At
<1>3. DecisionIsRight'
  BY <1>1 DEF DecisionIsRight, Admitted, Turned, Answered, At, Request, Refusals
<1>. QED  BY <1>1, <1>2, <1>3

(* An operator's change, or the time that passes, adds to what a decision  *)
(* may rest on, and takes nothing of it.                                   *)
LEMMA AlterJudges ==
    ASSUME Judged, Alter \/ Tick
    PROVE  Judged'
<1>. USE DEF Judged
<1>1. /\ Typed' /\ now <= now'
      /\ call'.pc = call.pc /\ call'.msg = call.msg /\ call'.row = call.row
      /\ call'.answer = call.answer /\ call'.arrived = call.arrived
      /\ call.rows \subseteq call'.rows
      /\ InFlight => merchants'[Request.from] \in call'.rows
  <2>1. CASE Alter
    <3>1. Typed' /\ Observed
      BY <2>1, AlterTypes
    <3>2. now <= now
      <4>1. now \in 0..MaxTime
        BY DEF Typed, TypeOK
      <4>. QED  BY <4>1, BoundsAssumption
    <3>. QED  BY <3>1, <3>2 DEF Observed
  <2>2. CASE Tick
    BY <2>2, TickTypes DEF RowIsKnown
  <2>. QED  BY <2>1, <2>2
<1>2. call.arrived <= now'
  <2>1. call.arrived \in 0..MaxTime
    BY StartsKnown DEF Call
  <2>2. now \in 0..MaxTime /\ now' \in 0..MaxTime
    BY <1>1 DEF Typed, TypeOK
  <2>3. call.arrived <= now
    BY DEF RowIsKnown
  <2>. QED  BY <1>1, <2>1, <2>2, <2>3, BoundsAssumption
<1>3. RowIsKnown'
  BY <1>1, <1>2 DEF RowIsKnown, InFlight, Answered, At, Request
<1>4. /\ EverPermitted => EverPermitted'
      /\ EverForbidden => EverForbidden'
  BY <1>1, Remembers
<1>5. DecisionIsRight'
  BY <1>1, <1>4 DEF DecisionIsRight, Admitted, Turned, Answered, At, Request
<1>. QED  BY <1>1, <1>3, <1>5

(* With nothing under way there is nothing to judge.                       *)
LEMMA IdleJudges ==
    ASSUME Typed, call = NoCall
    PROVE  RowIsKnown /\ DecisionIsRight
<1>1. call.pc = "idle" /\ call.arrived = 0
  BY DEF NoCall
<1>2. now >= 0
  <2>1. now \in 0..MaxTime
    BY DEF Typed, TypeOK
  <2>. QED  BY <2>1, BoundsAssumption
<1>. QED
  BY <1>1, <1>2 DEF RowIsKnown, InFlight, Answered, At, DecisionIsRight, Admitted, Turned

(* No step makes a decision that no row the sender had would bear out.     *)
LEMMA StepIsJudged == Judged /\ [Next]_vars => Judged'
<1>. SUFFICES ASSUME Judged, [Next]_vars PROVE Judged'
  OBVIOUS
<1>1. Typed'
  BY StepIsTyped DEF Judged
<1>2. CASE UNCHANGED <<merchants, now, call>>
  BY <1>1, <1>2 DEF Judged, RowIsKnown, DecisionIsRight, Admitted, Turned, Answered, At,
     InFlight, Request, EverPermitted, EverForbidden
<1>3. CASE Serve
  BY <1>3, LookupJudges, CheckJudges, HandlerJudges DEF Serve
<1>4. CASE \E m \in Requests : Receive(m)
  BY <1>4, ReceiveJudges
<1>5. CASE Alter \/ Tick
  BY <1>5, AlterJudges
<1>6. ASSUME call' = NoCall PROVE Judged'
  <2>1. (call = NoCall)'
    BY <1>6 DEF NoCall, NoRequest, NoRoute
  <2>2. RowIsKnown' /\ DecisionIsRight'
    BY <1>1, <2>1, IdleJudges, PTL
  <2>. QED  BY <1>1, <2>2 DEF Judged
<1>7. CASE Finish \/ \E e \in Environments : Restart(e)
  BY <1>6, <1>7 DEF Finish, Restart
<1>8. CASE \E x \in Merchants : Announce(x) \/ Scan(x)
  <2>1. UNCHANGED <<merchants, now, call>>
    BY <1>8 DEF Announce, Scan, Capture
  <2>. QED  BY <1>2, <2>1
<1>9. CASE UNCHANGED vars
  BY <1>2, <1>9 DEF vars
<1>. QED  BY <1>3, <1>4, <1>5, <1>7, <1>8, <1>9, Steps

(* At first nothing is decided.                                            *)
LEMMA InitIsJudged == Init => Judged
BY InitIsTyped, IdleJudges DEF Init, Judged

(* While merchants are disabled and enabled, roles changed and keys        *)
(* rotated: what is let through was permitted by one row the sender had    *)
(* and the clock within the request, what is turned away was not           *)
(* (auth.go AuthenticateMerchant, authorization.go, network.go).           *)
THEOREM DecisionsAreRight == Spec => []DecisionIsRight
<1>1. Judged => DecisionIsRight
  BY DEF Judged
<1>. QED  BY <1>1, InitIsJudged, StepIsJudged, PTL DEF Spec

-----------------------------------------------------------------------------
(* Routes.                                                                 *)

(* The scheme is told by the number read from the left, and that is what   *)
(* its first four digits are (card_scheme.go detectCardScheme).            *)
LEMMA MirByPrefix ==
    ASSUME NEW card \in Seq(0..9)
    PROVE  IsMir(card) <=> Len(card) >= 4 /\ SubSeq(card, 1, 4) \in MirPrefixes
<1>1. Len(card) \in Nat /\ card \in [1..Len(card) -> 0..9]
  OBVIOUS
<1>2. SUFFICES ASSUME Len(card) >= 4
               PROVE  IsMir(card) <=> SubSeq(card, 1, 4) \in MirPrefixes
  BY DEF IsMir
<1>3. /\ card[1] \in 0..9 /\ card[2] \in 0..9 /\ card[3] \in 0..9 /\ card[4] \in 0..9
  BY <1>1, <1>2
<1>. DEFINE first == SubSeq(card, 1, 4)
<1>4. /\ first \in Seq(0..9) /\ Len(first) = 4
      /\ first[1] = card[1] /\ first[2] = card[2] /\ first[3] = card[3] /\ first[4] = card[4]
  <2>1. \A i \in 1..4 : card[i] \in 0..9
    BY <1>1, <1>2
  <2>2. first \in Seq(0..9) /\ Len(first) = 4
    BY <1>1, <1>2, <2>1
  <2>3. first[1] = card[1] /\ first[2] = card[2] /\ first[3] = card[3] /\ first[4] = card[4]
    BY <1>1, <1>2, <2>1
  <2>. QED  BY <2>2, <2>3
<1>. HIDE DEF first
<1>5. first \in MirPrefixes <=> card[1] = 2 /\ card[2] = 2 /\ card[3] = 0 /\ card[4] \in 0..4
  <2>1. ASSUME NEW d \in 0..4
        PROVE  first = <<2, 2, 0, d>> <=>
                  first[1] = 2 /\ first[2] = 2 /\ first[3] = 0 /\ first[4] = d
    BY <1>4
  <2>2. first[1] = card[1] /\ first[2] = card[2] /\ first[3] = card[3] /\ first[4] = card[4]
    BY <1>4
  <2>. QED  BY <2>1, <2>2 DEF MirPrefixes
<1>6. IsMir(card) <=> 1000 * card[1] + 100 * card[2] + 10 * card[3] + card[4] \in 2200..2204
  BY <1>2 DEF IsMir, Prefix4
<1>7. 1000 * card[1] + 100 * card[2] + 10 * card[3] + card[4] \in 2200..2204
         <=> card[1] = 2 /\ card[2] = 2 /\ card[3] = 0 /\ card[4] \in 0..4
  <2>. DEFINE a == card[1]  b == card[2]  c == card[3]  d == card[4]
  <2>1. a \in 0..9 /\ b \in 0..9 /\ c \in 0..9 /\ d \in 0..9
    BY <1>3
  <2>. HIDE DEF a, b, c, d
  <2>2. 1000 * a + 100 * b + 10 * c + d \in 2200..2204
           <=> a = 2 /\ b = 2 /\ c = 0 /\ d \in 0..4
    BY <2>1
  <2>. QED  BY <2>2 DEF a, b, c, d
<1>. QED  BY <1>5, <1>6, <1>7 DEF first

(* ORDER BY priority, id LIMIT 1 returns the first rule of the lowest      *)
(* priority (postgres_routes.go GetActiveRoute).                           *)
LEMMA FirstOfLowest ==
    ASSUME NEW rows \in SUBSET RouteRow
    PROVE  FirstRule(rows) = {x.provider : x \in GetActiveRoute(rows)}
<1>. DEFINE active == {x \in rows : x.active}
            lowest == {x \in active : \A y \in active : x.priority <= y.priority}
            first  == {z \in lowest : \A y \in lowest : z.id <= y.id}
<1>1. \A x \in rows : x.priority \in Nat /\ x.id \in Nat
  BY DEF RouteRow
<1>2. ASSUME NEW z \in first
      PROVE  z \in GetActiveRoute(rows)
  <2>1. ASSUME NEW y \in rows, y.active PROVE Before(z, y)
    <3>1. z.priority <= y.priority
      BY <2>1
    <3>2. CASE z.priority < y.priority
      BY <3>2 DEF Before
    <3>3. CASE z.priority = y.priority
      <4>1. y \in lowest
        BY <2>1, <3>3
      <4>. QED  BY <3>3, <4>1 DEF Before
    <3>. QED  BY <1>1, <3>1, <3>2, <3>3, <2>1
  <2>. QED  BY <2>1 DEF GetActiveRoute
<1>3. ASSUME NEW z \in GetActiveRoute(rows)
      PROVE  z \in first
  <2>1. /\ z \in rows /\ z.active
        /\ \A y \in rows : y.active =>
              z.priority < y.priority \/ (z.priority = y.priority /\ z.id <= y.id)
    BY DEF GetActiveRoute, Before
  <2>2. z \in lowest
    BY <1>1, <2>1
  <2>3. ASSUME NEW y \in lowest PROVE z.id <= y.id
    <3>1. y.priority <= z.priority /\ y \in rows /\ y.active
      BY <2>1, <2>3
    <3>. QED  BY <1>1, <2>1, <3>1
  <2>. QED  BY <2>2, <2>3
<1>4. first = GetActiveRoute(rows)
  <2>1. first \subseteq GetActiveRoute(rows)
    BY <1>2
  <2>2. GetActiveRoute(rows) \subseteq first
    BY <1>3
  <2>. QED  BY <2>1, <2>2
<1>5. FirstRule(rows) = {x.provider : x \in first}
  BY DEF FirstRule
<1>. QED  BY <1>4, <1>5

(* What the factory makes of the router's choice is what the card, the     *)
(* rules or the environment designate (router.go, factory.go).             *)
LEMMA RouteIsRightful ==
    ASSUME NEW m \in Requests, NEW e \in Environments,
           NEW table \in [Merchants \X Methods -> SUBSET RouteRow],
           NEW r \in Route(m.method, m.card, table[<<m.from, m.method>>]),
           Resolve(r.key, e) # NoProvider
    PROVE  Resolve(r.key, e) \in Rightful(m, table, e)
<1>. DEFINE rows == table[<<m.from, m.method>>]
            p == Resolve(r.key, e)
<1>1. /\ <<m.from, m.method>> \in Merchants \X Methods /\ m.method \in Methods
      /\ m.card \in Seq(0..9)
  BY RequestsAssumption DEF IsRequest, Digit
<1>2. rows \in SUBSET RouteRow
  BY <1>1
<1>. HIDE DEF rows
<1>3. e.named \in [LegacyKeys -> Providers \cup {NoProvider}]
  BY EnvironmentsAssumption DEF Environment
<1>4. CASE ByScheme(m.method, m.card)
  <2>1. m.method = "CARD" /\ Len(m.card) >= 4 /\ SubSeq(m.card, 1, 4) \in MirPrefixes
    BY <1>1, <1>4, MirByPrefix DEF ByScheme
  <2>2. Rightful(m, table, e) = {"yookassa"}
    BY <2>1 DEF Rightful
  <2>3. r.key = "yookassa"
    BY <1>4 DEF Route
  <2>4. p = "yookassa"
    BY <2>3 DEF Resolve, LegacyKeys, NoProvider
  <2>. QED  BY <2>2, <2>4
<1>5. CASE ~ByScheme(m.method, m.card)
  <2>1. ~(m.method = "CARD" /\ Len(m.card) >= 4 /\ SubSeq(m.card, 1, 4) \in MirPrefixes)
    BY <1>1, <1>5, MirByPrefix DEF ByScheme
  <2>2. Rightful(m, table, e) = FirstRule(rows) \cup {q \in {ByEnvironment(m.method, e)} : FirstRule(rows) = {}}
    BY <2>1 DEF Rightful, rows
  <2>3. FirstRule(rows) = {x.provider : x \in GetActiveRoute(rows)}
    BY <1>2, FirstOfLowest
  <2>4. \/ r \in {[system |-> x.system, key |-> x.provider] : x \in GetActiveRoute(rows)}
        \/ r = DefaultRoute[m.method] /\ GetActiveRoute(rows) = {}
    BY <1>5 DEF Route, rows
  <2>5. CASE r \in {[system |-> x.system, key |-> x.provider] : x \in GetActiveRoute(rows)}
    <3>1. PICK x \in GetActiveRoute(rows) : r = [system |-> x.system, key |-> x.provider]
      BY <2>5
    <3>2. r.key = x.provider /\ x.provider \in Providers
      BY <1>2, <3>1 DEF GetActiveRoute, RouteRow
    <3>3. p = x.provider
      BY <3>2 DEF Resolve, LegacyKeys, NoProvider, Providers
    <3>. QED  BY <2>2, <2>3, <3>3
  <2>6. CASE r = DefaultRoute[m.method] /\ GetActiveRoute(rows) = {}
    <3>1. ByEnvironment(m.method, e) \in Rightful(m, table, e)
      BY <2>2, <2>3, <2>6
    <3>2. CASE m.method = "CARD"
      <4>1. r.key = "card_adapter"
        BY <2>6, <3>2 DEF DefaultRoute
      <4>2. ByEnvironment(m.method, e) = providerFromEnv("card_adapter", e)
        BY <3>2 DEF ByEnvironment, providerFromEnv
      <4>3. p \in {providerFromEnv("card_adapter", e), NoProvider}
        BY <4>1 DEF Resolve, LegacyKeys, NoProvider
      <4>. QED  BY <3>1, <4>2, <4>3
    <3>3. CASE m.method = "SBP"
      <4>1. r.key = "sbp_adapter"
        BY <2>6, <3>3 DEF DefaultRoute
      <4>2. ByEnvironment(m.method, e) = providerFromEnv("sbp_adapter", e)
        BY <3>3 DEF ByEnvironment, providerFromEnv
      <4>3. p \in {providerFromEnv("sbp_adapter", e), NoProvider}
        BY <4>1 DEF Resolve, LegacyKeys, NoProvider
      <4>. QED  BY <3>1, <4>2, <4>3
    <3>4. CASE m.method = "WALLET"
      <4>1. r.key = "wallet_adapter"
        BY <2>6, <3>4 DEF DefaultRoute
      <4>2. ByEnvironment(m.method, e) = providerFromEnv("wallet_adapter", e)
        BY <3>4 DEF ByEnvironment, providerFromEnv
      <4>3. p \in {providerFromEnv("wallet_adapter", e), NoProvider}
        BY <4>1 DEF Resolve, LegacyKeys, NoProvider
      <4>. QED  BY <3>1, <4>2, <4>3
    <3>5. CASE m.method = "DIGITAL_RUBLE"
      <4>1. r.key = "digital_ruble"
        BY <2>6, <3>5 DEF DefaultRoute
      <4>. QED  BY <3>1, <3>5, <4>1 DEF Resolve, LegacyKeys, NoProvider, ByEnvironment
    <3>. QED  BY <1>1, <3>2, <3>3, <3>4, <3>5 DEF Methods
  <2>. QED  BY <2>4, <2>5, <2>6
<1>. QED  BY <1>4, <1>5

(* The invariant SentAsRouted rests on: the history of the request has     *)
(* what its tables and environment designate now, the provider it is to be *)
(* sent to is one of it and configured, and the sender has no payment yet. *)
ChoicesAreKnown == /\ InFlight => Rightful(Request, routes, env) \subseteq call.choices
                   /\ At("send") => call.provider \in call.choices /\ call.provider \in env.adapters
PurposeIsKnown  == /\ call.pc \in {"validate", "route", "send"} => Request.action = "pay"
                   /\ At("load") => Request.action = "refund"
PayIsNew        == InFlight /\ Request.action = "pay" => payments[Request.from] = NoPayment

Routed == Typed /\ ChoicesAreKnown /\ PurposeIsKnown /\ PayIsNew

(* The chain up to the handler: a payment goes to be validated, a refund   *)
(* to be loaded (auth.go, authorization.go).                               *)
LEMMA CheckRoutes ==
    ASSUME Routed, GetByID \/ GetByIDError \/ Check \/ Read
    PROVE  Routed'
<1>1. Typed' /\ Onward /\ UNCHANGED payments
  BY ServeTypes, CheckTypes DEF Serve, Routed
<1>2. call \in Call
  BY StartsKnown DEF Routed
<1>3. \/ \E a : Answer(a)
      \/ Goto(HandlerOf(Request.action))
      \/ call' = [call EXCEPT !.pc = "check", !.row = merchants[Request.from]]
      \/ call' = [call EXCEPT !.pc = "done", !.row = merchants[Request.from],
                              !.answer = "AUTHENTICATION_ERROR"]
  BY DEF GetByID, GetByIDError, Check, Read
<1>4. /\ call'.pc \in {"check", "done", "validate", "load", "read"}
      /\ call'.pc = "validate" => Request.action = "pay"
      /\ call'.pc = "load" => Request.action = "refund"
  <2>1. ASSUME NEW a, Answer(a) PROVE call'.pc = "done"
    BY <1>2, <2>1 DEF Answer, Call
  <2>2. ASSUME call' = [call EXCEPT !.pc = "check", !.row = merchants[Request.from]]
        PROVE  call'.pc = "check"
    BY <1>2, <2>2 DEF Call
  <2>3. ASSUME Goto(HandlerOf(Request.action)) PROVE call'.pc = HandlerOf(Request.action)
    BY <1>2, <2>3 DEF Goto, Call
  <2>4. /\ HandlerOf(Request.action) \in {"validate", "load", "read"}
        /\ HandlerOf(Request.action) = "validate" => Request.action = "pay"
        /\ HandlerOf(Request.action) = "load" => Request.action = "refund"
    BY DEF HandlerOf
  <2>5. ASSUME call' = [call EXCEPT !.pc = "done", !.row = merchants[Request.from],
                                    !.answer = "AUTHENTICATION_ERROR"]
        PROVE  call'.pc = "done"
    BY <1>2, <2>5 DEF Call
  <2>. QED  BY <1>3, <2>1, <2>2, <2>3, <2>4, <2>5
<1>5. /\ routes' = routes /\ env' = env /\ payments' = payments
      /\ call'.msg = call.msg /\ call'.choices = call.choices /\ InFlight
  BY <1>1 DEF Onward, SameCall
<1>. QED
  BY <1>1, <1>4, <1>5 DEF Routed, ChoicesAreKnown, PurposeIsKnown, PayIsNew, At, Request

(* The adapter resolved for the route of a payment (router.go, factory.go).*)
LEMMA ChooseRoutes ==
    ASSUME Routed, Validate \/ ChooseRoute \/ RouteError
    PROVE  Routed'
<1>. USE DEF Routed
<1>1. Typed' /\ Onward
  BY ServeTypes DEF Serve
<1>2. /\ At("validate") \/ At("route")
      /\ \/ UNCHANGED payments
         \/ payments' = [payments EXCEPT ![Request.from] = [NoPayment EXCEPT !.status = "FAILED"]]
            /\ call'.pc = "done"
      /\ call'.pc = "send" =>
            /\ At("route")
            /\ call'.provider \in Providers
            /\ \E r \in Route(Request.method, Request.card, routes[<<Request.from, Request.method>>]) :
                  call'.provider = Resolve(r.key, env)
  BY ChooseTypes
<1>3. /\ routes' = routes /\ env' = env
      /\ call'.msg = call.msg /\ call'.choices = call.choices /\ InFlight
  BY <1>1 DEF Onward, SameCall
<1>4. Request.action = "pay"
  BY <1>2 DEF PurposeIsKnown, At
<1>5. call'.pc # "load"
  <2>1. call \in Call
    BY StartsKnown
  <2>2. \/ \E a : Answer(a)
        \/ Goto("route")
        \/ \E r, p : call' = [call EXCEPT !.pc = "send", !.route = r, !.provider = p]
    BY DEF Validate, ChooseRoute, RouteError, Refuse
  <2>3. ASSUME NEW a, Answer(a) PROVE call'.pc = "done"
    BY <2>1, <2>3 DEF Answer, Call
  <2>4. ASSUME Goto("route") PROVE call'.pc = "route"
    BY <2>1, <2>4 DEF Goto, Call
  <2>5. ASSUME NEW r, NEW p, call' = [call EXCEPT !.pc = "send", !.route = r, !.provider = p]
        PROVE  call'.pc = "send"
    BY <2>1, <2>5 DEF Call
  <2>. QED  BY <2>2, <2>3, <2>4, <2>5
<1>6. ChoicesAreKnown'
  <2>1. ASSUME call'.pc = "send"
        PROVE  call'.provider \in call.choices /\ call'.provider \in env.adapters
    <3>1. PICK r \in Route(Request.method, Request.card, routes[<<Request.from, Request.method>>]) :
              call'.provider = Resolve(r.key, env)
      BY <1>2, <2>1
    <3>2. /\ call.msg \in Requests /\ env \in Environments
          /\ routes \in [Merchants \X Methods -> SUBSET RouteRow]
      BY <1>3, StartsKnown DEF InFlight, Typed, TypeOK
    <3>3. Resolve(r.key, env) # NoProvider
      BY <1>2, <2>1, <3>1, <3>2, ResolveType
    <3>4. Resolve(r.key, env) \in Rightful(Request, routes, env)
      BY <3>2, <3>3, RouteIsRightful DEF Request
    <3>5. Resolve(r.key, env) \in env.adapters
      BY <3>2, <3>3, ResolveType
    <3>. QED  BY <1>3, <3>1, <3>4, <3>5 DEF ChoicesAreKnown
  <2>. QED  BY <1>3, <2>1 DEF ChoicesAreKnown, At, Request
<1>7. PurposeIsKnown'
  BY <1>3, <1>4, <1>5 DEF PurposeIsKnown, At, Request
<1>8. PayIsNew'
  BY <1>2, <1>3 DEF PayIsNew, InFlight, At, Answered, Request
<1>. QED  BY <1>1, <1>6, <1>7, <1>8

(* The end of a payment or of a refund.                                    *)
LEMMA EndRoutes ==
    ASSUME Routed, Send \/ Load
    PROVE  Routed'
<1>1. Typed'
  BY ServeTypes DEF Serve, Routed
<1>2. call'.pc = "done"
  BY SendTypes, LoadTypes DEF Routed
<1>. QED
  BY <1>1, <1>2 DEF Routed, ChoicesAreKnown, PurposeIsKnown, PayIsNew, InFlight, At, Answered

(* A request comes in, the tables change: the history knows.               *)
LEMMA ReceiveRoutes ==
    ASSUME Routed, NEW m \in Requests, Receive(m)
    PROVE  Routed'
<1>1. /\ Typed'
      /\ UNCHANGED <<routes, env, payments>>
      /\ m.action = "pay" => payments[m.from] = NoPayment
      /\ call'.msg = m /\ call'.choices = Rightful(m, routes, env)
      /\ call'.pc \in {"lookup", "done"}
  BY ReceiveTypes DEF Routed
<1>. QED
  BY <1>1 DEF Routed, ChoicesAreKnown, PurposeIsKnown, PayIsNew, InFlight, At, Answered, Request

(* A change of the routing tables adds to the providers a call may be sent *)
(* to (router.go Route).                                                   *)
LEMMA AlterRoutes ==
    ASSUME Routed, Alter
    PROVE  Routed'
<1>1. Typed' /\ Observed
  BY AlterTypes DEF Routed
<1>. QED
  BY <1>1 DEF Observed, Routed, ChoicesAreKnown, PurposeIsKnown, PayIsNew, InFlight, At, Answered, Request

(* No step chooses a provider that was not rightful while the call was     *)
(* under way.                                                              *)
LEMMA StepIsRouted == Routed /\ [Next]_vars => Routed'
<1>. SUFFICES ASSUME Routed, [Next]_vars PROVE Routed'
  OBVIOUS
<1>1. Typed'
  BY StepIsTyped DEF Routed
<1>2. CASE UNCHANGED <<routes, env, call, payments>>
  BY <1>1, <1>2 DEF Routed, ChoicesAreKnown, PurposeIsKnown, PayIsNew, Answered, At,
     InFlight, Request
<1>3. CASE Serve
  BY <1>3, CheckRoutes, ChooseRoutes, EndRoutes DEF Serve
<1>4. CASE \E m \in Requests : Receive(m)
  BY <1>4, ReceiveRoutes
<1>5. CASE Alter
  BY <1>5, AlterRoutes
<1>6. CASE Finish \/ \E e \in Environments : Restart(e)
  <2>1. call'.pc = "idle"
    <3>1. call' = NoCall
      BY <1>6 DEF Finish, Restart
    <3>. QED  BY <3>1 DEF NoCall
  <2>. QED
    BY <1>1, <2>1 DEF Routed, ChoicesAreKnown, PurposeIsKnown, PayIsNew, InFlight, At, Answered
<1>7. CASE \E x \in Merchants : Announce(x) \/ Scan(x)
  <2>1. PICK x \in Merchants : Announce(x) \/ Scan(x)
    BY <1>7
  <2>2. /\ UNCHANGED <<routes, env, call>>
        /\ payments[x].provider # NoProvider \/ payments[x].system # ""
        /\ \E p \in Providers :
              payments' = [payments EXCEPT ![x].status = "CAPTURED", ![x].system = SystemOf[p],
                                           ![x].by = @ \cup {p}]
    BY <2>1, CaptureTypes DEF Routed
  <2>3. payments[x] # NoPayment
    <3>1. NoPayment.provider = NoProvider /\ NoPayment.system = ""
      BY DEF NoPayment
    <3>. QED  BY <2>2, <3>1
  <2>4. \A y \in Merchants : payments[y] = NoPayment => payments'[y] = NoPayment
    <3>1. payments \in [Merchants -> Payment \cup {NoPayment}]
      BY DEF Routed, Typed, TypeOK
    <3>. QED  BY <2>2, <2>3, <3>1
  <2>5. InFlight => call.msg.from \in Merchants
    BY StartsKnown DEF Routed, InFlight
  <2>. QED
    BY <1>1, <2>2, <2>4, <2>5 DEF Routed, ChoicesAreKnown, PurposeIsKnown, PayIsNew, Answered, At,
       InFlight, Request
<1>8. CASE UNCHANGED vars \/ Tick
  BY <1>2, <1>8 DEF vars, Tick
<1>. QED  BY <1>3, <1>4, <1>5, <1>6, <1>7, <1>8, Steps

(* At first nothing is routed.                                             *)
LEMMA InitIsRouted == Init => Routed
<1>1. NoCall.pc = "idle"
  BY DEF NoCall
<1>. QED
  BY <1>1, InitIsTyped
     DEF Init, Routed, ChoicesAreKnown, PurposeIsKnown, PayIsNew, InFlight, At, Answered

(* Only Send gives a payment a provider: the one of the call.              *)
LEMMA ProviderIsSent ==
    ASSUME Routed, [Next]_vars, NEW x \in Merchants,
           payments'[x].provider # payments[x].provider
    PROVE  /\ payments'[x].provider \in call.choices
           /\ payments'[x].provider \in env.adapters
<1>. USE DEF Routed
<1>1. payments \in [Merchants -> Payment \cup {NoPayment}]
  BY DEF Typed, TypeOK
<1>2. CASE UNCHANGED payments
  BY <1>2
<1>3. CASE Send
  <2>1. At("send")
    BY <1>3, SendTypes
  <2>2. PICK o \in Outcomes(call.provider, call.route) :
           LET new == [provider |-> call.provider, status |-> o.status,
                       system |-> o.system, by |-> Captor(o.status, call.provider)]
           IN  new \in Payment /\ payments' = [payments EXCEPT ![Request.from] = new]
    BY <1>3, SendTypes
  <2>3. payments'[x] = payments[x] \/ payments'[x].provider = call.provider
    BY <1>1, <2>2
  <2>. QED  BY <2>1, <2>3 DEF ChoicesAreKnown
<1>4. CASE Validate \/ ChooseRoute \/ RouteError
  <2>1. \/ UNCHANGED payments
        \/ payments' = [payments EXCEPT ![Request.from] = [NoPayment EXCEPT !.status = "FAILED"]]
    BY <1>4, ChooseTypes
  <2>2. InFlight /\ Request.action = "pay"
    <3>1. call.pc \in {"validate", "route"}
      BY <1>4 DEF Validate, ChooseRoute, RouteError, At
    <3>. QED  BY <3>1 DEF PurposeIsKnown, InFlight, At, Answered
  <2>3. payments[Request.from] = NoPayment
    BY <2>2 DEF PayIsNew
  <2>4. [NoPayment EXCEPT !.status = "FAILED"].provider = NoPayment.provider
    BY DEF NoPayment
  <2>. QED  BY <1>1, <2>1, <2>3, <2>4
<1>5. CASE \E y \in Merchants : Announce(y) \/ Scan(y)
  <2>1. PICK y \in Merchants, p \in Providers :
           payments' = [payments EXCEPT ![y].status = "CAPTURED", ![y].system = SystemOf[p],
                                        ![y].by = @ \cup {p}]
    BY <1>5, CaptureTypes
  <2>2. payments[y] \in Payment \cup {NoPayment}
    BY <1>1
  <2>3. payments'[y].provider = payments[y].provider
    BY <1>1, <2>1, <2>2 DEF Payment, NoPayment
  <2>. QED  BY <1>1, <2>1, <2>3
<1>6. CASE Serve
  BY <1>2, <1>3, <1>4, <1>6 DEF Serve, GetByID, GetByIDError, Check, Read, Load
<1>7. CASE Alter
  BY <1>2, <1>7, AlterTypes DEF Observed
<1>8. CASE \/ \E m \in Requests : Receive(m)
           \/ Finish \/ Tick
           \/ \E e \in Environments : Restart(e)
  BY <1>2, <1>8 DEF Receive, Finish, Tick, Restart
<1>9. CASE UNCHANGED vars
  BY <1>2, <1>9 DEF vars
<1>. QED  BY <1>5, <1>6, <1>7, <1>8, <1>9, Steps

(* A payment is sent where the card, the rules or the environment said     *)
(* during the request, or nowhere (router.go Route, factory.go Resolve).   *)
THEOREM PaymentsAreSentAsRouted == Spec => SentAsRouted
<1>1. Routed /\ [Next]_vars =>
         [\A x \in Merchants :
            payments'[x].provider # payments[x].provider =>
                /\ payments'[x].provider \in call.choices
                /\ payments'[x].provider \in env.adapters]_vars
  BY ProviderIsSent
<1>. QED  BY <1>1, InitIsRouted, StepIsRouted, PTL DEF Spec, SentAsRouted

-----------------------------------------------------------------------------
(* Refunds.                                                                *)

(* The invariant RefundGoesHome rests on: the PaymentSystem of a captured  *)
(* payment is the name of a provider that captured it (callback.go, the    *)
(* webhooks, the adapters' results).                                       *)
CaptorIsNamed ==
    \A x \in Merchants :
        payments[x].status = "CAPTURED" =>
            \E q \in payments[x].by : q \in Providers /\ payments[x].system = SystemOf[q]

Kept == Routed /\ CaptorIsNamed /\ RefundGoesHome

(* The way back from a system to its adapter (refunds/handler.go           *)
(* providerKey, factory.go Resolve).                                       *)
LEMMA HomeOfSystem ==
    ASSUME NEW q \in Providers, NEW e \in Environments
    PROVE  Resolve(providerKey(SystemOf[q]), e) = IF q \in e.adapters THEN q ELSE NoProvider
<1>1. providerKey(SystemOf[q]) = q
  <2>1. /\ SystemOf["yookassa"] = "YOOKASSA" /\ SystemOf["payanyway"] = "PAYANYWAY"
        /\ SystemOf["simulated"] = "SIMULATED" /\ SystemOf["digital_ruble"] = "DIGITAL_RUBLE"
    BY DEF SystemOf
  <2>2. providerKey("YOOKASSA") = "yookassa"
    BY DEF providerKey
  <2>3. providerKey("PAYANYWAY") = "payanyway"
    BY DEF providerKey
  <2>4. providerKey("SIMULATED") = "simulated"
    BY DEF providerKey
  <2>5. providerKey("DIGITAL_RUBLE") = "digital_ruble"
    BY DEF providerKey
  <2>. QED  BY <2>1, <2>2, <2>3, <2>4, <2>5 DEF Providers
<1>2. q \notin LegacyKeys /\ q # NoProvider
  BY DEF Providers, LegacyKeys, NoProvider
<1>. QED  BY <1>1, <1>2 DEF Resolve

(* A refund is made by the provider of the record, or ends for want of it. *)
LEMMA LoadKeeps ==
    ASSUME Kept, Load
    PROVE  Kept'
<1>. USE DEF Kept
<1>. DEFINE x == Request.to
            p == AdapterForRefund(x)
<1>1. Routed'
  BY EndRoutes
<1>2. /\ Onward /\ UNCHANGED payments /\ call'.pc = "done" /\ At("load")
  BY LoadTypes DEF Routed
<1>3. /\ call.msg \in Requests /\ x \in Merchants /\ env \in Environments /\ call \in Call
      /\ env' = env /\ call'.msg = call.msg
  BY <1>2, StartsKnown DEF Routed, Onward, InFlight, SameCall, Request
<1>4. refunds \in [Merchants -> SUBSET Providers]
  BY DEF Routed, Typed, TypeOK
<1>5. ASSUME payments[x].status = "CAPTURED"
      PROVE  \E q \in payments[x].by : p = IF q \in env.adapters THEN q ELSE NoProvider
  <2>1. PICK q \in payments[x].by : q \in Providers /\ payments[x].system = SystemOf[q]
    BY <1>3, <1>5 DEF CaptorIsNamed
  <2>. QED  BY <1>3, <2>1, HomeOfSystem DEF AdapterForRefund
<1>6. CaptorIsNamed'
  BY <1>2 DEF CaptorIsNamed
<1>7. \A y \in Merchants : refunds'[y] \subseteq payments'[y].by
  <2>1. \A y \in Merchants : refunds[y] \subseteq payments[y].by
    BY DEF RefundGoesHome
  <2>2. CASE UNCHANGED refunds
    BY <1>2, <2>1, <2>2
  <2>3. CASE /\ payments[x].status = "CAPTURED"
             /\ p # NoProvider
             /\ refunds' = [refunds EXCEPT ![x] = @ \cup {p}]
    <3>1. p \in payments[x].by
      BY <1>5, <2>3
    <3>. HIDE DEF p, x
    <3>. QED  BY <1>2, <1>3, <1>4, <2>1, <2>3, <3>1
  <2>. QED  BY <2>2, <2>3 DEF Load
<1>8. call'.answer = "ADAPTER_FACTORY_ERROR" => ~(payments[x].by \subseteq env.adapters)
  <2>1. \/ \E a \in {"PAYMENT_NOT_CAPTURED", "REFUND_NOT_SUPPORTED", "OK"} : Answer(a)
        \/ payments[x].status = "CAPTURED" /\ p = NoProvider
    BY DEF Load
  <2>2. ASSUME NEW a \in {"PAYMENT_NOT_CAPTURED", "REFUND_NOT_SUPPORTED", "OK"}, Answer(a)
        PROVE  call'.answer # "ADAPTER_FACTORY_ERROR"
    BY <1>3, <2>2 DEF Answer, Call
  <2>3. ASSUME payments[x].status = "CAPTURED", p = NoProvider
        PROVE  ~(payments[x].by \subseteq env.adapters)
    <3>1. PICK q \in payments[x].by : p = IF q \in env.adapters THEN q ELSE NoProvider
      BY <1>5, <2>3
    <3>2. NoProvider \notin env.adapters
      BY <1>3, ResolveType
    <3>. QED  BY <2>3, <3>1, <3>2
  <2>. QED  BY <2>1, <2>2, <2>3
<1>9. RefundGoesHome'
  BY <1>2, <1>3, <1>7, <1>8 DEF RefundGoesHome, Request
<1>. QED  BY <1>1, <1>6, <1>9

(* An adapter that captures at once says so under its own name.            *)
LEMMA OutcomeIsNamed ==
    ASSUME NEW p \in Providers, NEW r, NEW o \in Outcomes(p, r), o.status = "CAPTURED"
    PROVE  o.system = SystemOf[p]
<1>1. CASE p = "simulated"
  BY <1>1 DEF Outcomes, Outcome
<1>2. CASE p = "yookassa"
  <2>1. \/ \E status \in {"PENDING", "CAPTURED", "DECLINED", "FAILED"} :
              o = Outcome(status, SystemOf[p])
        \/ o = Outcome("FAILED", r.system)
    BY <1>2 DEF Outcomes
  <2>2. o # Outcome("FAILED", r.system)
    BY DEF Outcome
  <2>3. PICK status \in {"PENDING", "CAPTURED", "DECLINED", "FAILED"} :
            o = Outcome(status, SystemOf[p])
    BY <2>1, <2>2
  <2>. QED  BY <2>3 DEF Outcome
<1>3. CASE p \notin {"simulated", "yookassa"}
  BY <1>3 DEF Outcomes, Outcome
<1>. QED  BY <1>1, <1>2, <1>3

(* A payment that ends has no refund yet, and no provider but that of the  *)
(* call has captured it.                                                   *)
LEMMA EndKeeps ==
    ASSUME Kept, Send \/ Validate \/ ChooseRoute \/ RouteError
    PROVE  Kept'
<1>. USE DEF Kept
<1>. DEFINE x == Request.from
<1>1. Routed'
  BY EndRoutes, ChooseRoutes
<1>2. /\ payments \in [Merchants -> Payment \cup {NoPayment}]
      /\ refunds \in [Merchants -> SUBSET Providers]
  BY DEF Routed, Typed, TypeOK
<1>3. call.pc \in {"validate", "route", "send"}
  BY DEF Send, Validate, ChooseRoute, RouteError, At
<1>4. Request.action = "pay" /\ InFlight /\ x \in Merchants
  BY <1>3, StartsKnown DEF Routed, PurposeIsKnown, InFlight, At, Answered, Request
<1>5. payments[x] = NoPayment
  BY <1>4 DEF Routed, PayIsNew
<1>6. refunds[x] = {}
  <2>1. NoPayment.by = {}
    BY DEF NoPayment
  <2>. QED  BY <1>4, <1>5, <2>1 DEF RefundGoesHome
<1>7. refunds' = refunds /\ call'.msg = call.msg
  BY ServeTypes, SendTypes, ChooseTypes DEF Routed, Serve, Onward, SameCall
<1>8. \/ UNCHANGED payments
      \/ \E new \in Payment :
            /\ payments' = [payments EXCEPT ![x] = new]
            /\ new.status = "CAPTURED" =>
                  \E q \in new.by : q \in Providers /\ new.system = SystemOf[q]
  <2>1. CASE Send
    <3>1. PICK o \in Outcomes(call.provider, call.route) :
             LET new == [provider |-> call.provider, status |-> o.status,
                         system |-> o.system, by |-> Captor(o.status, call.provider)]
             IN  new \in Payment /\ payments' = [payments EXCEPT ![Request.from] = new]
      BY <2>1, SendTypes DEF Routed
    <3>. DEFINE new == [provider |-> call.provider, status |-> o.status,
                        system |-> o.system, by |-> Captor(o.status, call.provider)]
    <3>2. call.provider \in Providers
      BY <2>1, SendTypes DEF Routed, Typed, ProviderIsChosen
    <3>3. ASSUME o.status = "CAPTURED"
          PROVE  call.provider \in Captor(o.status, call.provider) /\ o.system = SystemOf[call.provider]
      BY <3>2, <3>3, OutcomeIsNamed DEF Captor
    <3>4. new.status = o.status /\ new.system = o.system /\ new.by = Captor(o.status, call.provider)
      OBVIOUS
    <3>5. new \in Payment /\ payments' = [payments EXCEPT ![x] = new]
      BY <3>1
    <3>. HIDE DEF new
    <3>. QED  BY <3>2, <3>3, <3>4, <3>5
  <2>2. CASE Validate \/ ChooseRoute \/ RouteError
    <3>1. \/ UNCHANGED payments
          \/ payments' = [payments EXCEPT ![x] = [NoPayment EXCEPT !.status = "FAILED"]]
      BY <2>2, ChooseTypes DEF Routed
    <3>2. [NoPayment EXCEPT !.status = "FAILED"] \in Payment
          /\ [NoPayment EXCEPT !.status = "FAILED"].status = "FAILED"
      BY DEF NoPayment, Payment
    <3>. QED  BY <3>1, <3>2
  <2>. QED  BY <2>1, <2>2
<1>. HIDE DEF x
<1>9. CaptorIsNamed'
  BY <1>2, <1>4, <1>8 DEF CaptorIsNamed
<1>10. \A y \in Merchants : refunds'[y] \subseteq payments'[y].by
  <2>1. \A y \in Merchants : refunds[y] \subseteq payments[y].by
    BY DEF RefundGoesHome
  <2>2. \A y \in Merchants : y = x \/ payments'[y] = payments[y]
    BY <1>2, <1>8
  <2>. QED  BY <1>6, <1>7, <2>1, <2>2
<1>11. RefundGoesHome'
  BY <1>4, <1>7, <1>10 DEF RefundGoesHome, Request
<1>. QED  BY <1>1, <1>9, <1>11

(* A later capture adds a provider and puts its name on the record.        *)
LEMMA CaptureKeeps ==
    ASSUME Kept, NEW x \in Merchants, Announce(x) \/ Scan(x)
    PROVE  Kept'
<1>. USE DEF Kept
<1>1. Routed'
  BY StepIsRouted DEF Next
<1>2. /\ payments \in [Merchants -> Payment \cup {NoPayment}]
      /\ UNCHANGED <<env, call, refunds>>
  BY CaptureTypes DEF Routed, Typed, TypeOK
<1>3. PICK p \in Providers :
         payments' = [payments EXCEPT ![x].status = "CAPTURED", ![x].system = SystemOf[p],
                                      ![x].by = @ \cup {p}]
  BY CaptureTypes DEF Routed
<1>4. /\ payments'[x].system = SystemOf[p] /\ payments'[x].by = payments[x].by \cup {p}
      /\ \A y \in Merchants : y # x => payments'[y] = payments[y]
  <2>1. payments[x] \in Payment \cup {NoPayment}
    BY <1>2
  <2>2. payments'[x] = [payments[x] EXCEPT !.status = "CAPTURED", !.system = SystemOf[p],
                                           !.by = @ \cup {p}]
    BY <1>2, <1>3, <2>1 DEF Payment, NoPayment
  <2>3. payments'[x].system = SystemOf[p] /\ payments'[x].by = payments[x].by \cup {p}
    BY <2>1, <2>2 DEF Payment, NoPayment
  <2>. QED  BY <1>2, <1>3, <2>3
<1>5. CaptorIsNamed'
  <2>1. ASSUME NEW y \in Merchants, payments'[y].status = "CAPTURED"
        PROVE  \E q \in payments'[y].by : q \in Providers /\ payments'[y].system = SystemOf[q]
    <3>1. CASE y = x
      BY <1>4, <3>1
    <3>2. CASE y # x
      <4>1. payments'[y] = payments[y]
        BY <1>4, <3>2
      <4>. QED  BY <2>1, <4>1 DEF CaptorIsNamed
    <3>. QED  BY <3>1, <3>2
  <2>. QED  BY <2>1 DEF CaptorIsNamed
<1>6. \A y \in Merchants : payments[y].by \subseteq payments'[y].by
  BY <1>4
<1>7. Answered => call.msg.to \in Merchants
  BY StartsKnown DEF Routed, Answered, At
<1>8. RefundGoesHome'
  BY <1>2, <1>6, <1>7 DEF RefundGoesHome, Answered, At, Request
<1>. QED  BY <1>1, <1>5, <1>8

(* No step takes a refund elsewhere than to a provider that captured the   *)
(* payment (refunds/handler.go).                                           *)
LEMMA StepIsKept == Kept /\ [Next]_vars => Kept'
<1>. SUFFICES ASSUME Kept, [Next]_vars PROVE Kept'
  OBVIOUS
<1>1. Routed'
  BY StepIsRouted DEF Kept
<1>2. ASSUME UNCHANGED <<payments, refunds>>,
             \/ call'.pc # "done"
             \/ call'.answer # "ADAPTER_FACTORY_ERROR"
             \/ /\ env' = env /\ call'.pc = call.pc /\ call'.msg = call.msg
                /\ call'.answer = call.answer
      PROVE  Kept'
  BY <1>1, <1>2 DEF Kept, CaptorIsNamed, RefundGoesHome, Answered, At, Request
<1>3. CASE GetByID \/ GetByIDError \/ Check \/ Read
  <2>1. call \in Call
    BY StartsKnown DEF Kept, Routed
  <2>2. \/ \E a \in Refusals \cup {"OK"} : Answer(a)
        \/ Goto(HandlerOf(Request.action))
        \/ call' = [call EXCEPT !.pc = "done", !.row = merchants[Request.from],
                                !.answer = "AUTHENTICATION_ERROR"]
        \/ call' = [call EXCEPT !.pc = "check", !.row = merchants[Request.from]]
    BY <1>3 DEF GetByID, GetByIDError, Check, Read, Refusals
  <2>3. ASSUME NEW a \in Refusals \cup {"OK"}, Answer(a)
        PROVE  call'.answer # "ADAPTER_FACTORY_ERROR"
    <3>1. call'.answer = a
      BY <2>1, <2>3 DEF Answer, Call
    <3>. QED  BY <3>1 DEF Refusals
  <2>4. ASSUME Goto(HandlerOf(Request.action)) PROVE call'.pc # "done"
    <3>1. HandlerOf(Request.action) # "done"
      BY DEF HandlerOf
    <3>. QED  BY <2>1, <2>4, <3>1 DEF Goto, Call
  <2>5. ASSUME call' = [call EXCEPT !.pc = "check", !.row = merchants[Request.from]]
        PROVE  call'.pc # "done"
    BY <2>1, <2>5 DEF Call
  <2>6. ASSUME call' = [call EXCEPT !.pc = "done", !.row = merchants[Request.from],
                                    !.answer = "AUTHENTICATION_ERROR"]
        PROVE  call'.answer # "ADAPTER_FACTORY_ERROR"
    BY <2>1, <2>6 DEF Call
  <2>7. UNCHANGED <<payments, refunds>>
    BY <1>3, CheckTypes DEF Kept, Routed
  <2>. QED  BY <1>2, <2>2, <2>3, <2>4, <2>5, <2>6, <2>7
<1>4. CASE Serve
  BY <1>3, <1>4, EndKeeps, LoadKeeps DEF Serve
<1>5. CASE \E m \in Requests : Receive(m)
  BY <1>2, <1>5, ReceiveTypes DEF Kept, Routed
<1>6. CASE Alter
  BY <1>2, <1>6, AlterTypes DEF Kept, Routed, Observed
<1>7. CASE Finish \/ \E e \in Environments : Restart(e)
  <2>1. call'.pc = "idle"
    <3>1. call' = NoCall
      BY <1>7 DEF Finish, Restart
    <3>. QED  BY <3>1 DEF NoCall
  <2>2. UNCHANGED <<payments, refunds>>
    BY <1>7 DEF Finish, Restart
  <2>. QED  BY <1>2, <2>1, <2>2
<1>8. CASE \E x \in Merchants : Announce(x) \/ Scan(x)
  BY <1>8, CaptureKeeps
<1>9. CASE Tick \/ UNCHANGED vars
  BY <1>2, <1>9 DEF Tick, vars
<1>. QED  BY <1>4, <1>5, <1>6, <1>7, <1>8, <1>9, Steps

(* At first nothing is captured or refunded.                               *)
LEMMA InitIsKept == Init => Kept
<1>1. NoPayment.status = "" /\ NoPayment.by = {} /\ NoCall.pc = "idle"
  BY DEF NoPayment, NoCall
<1>. QED
  BY <1>1, InitIsRouted DEF Init, Kept, CaptorIsNamed, RefundGoesHome, Answered, At

(* A refund is made by a provider that captured the payment, however       *)
(* routes and environments have changed since, and is refused for want of  *)
(* an adapter only if one that captured it is gone (refunds/handler.go     *)
(* providerKey, factory.go Resolve).                                       *)
THEOREM RefundsGoHome == Spec => []RefundGoesHome
<1>1. Kept => RefundGoesHome
  BY DEF Kept
<1>. QED  BY <1>1, InitIsKept, StepIsKept, PTL DEF Spec

-----------------------------------------------------------------------------
(* Card numbers.  The check digit is a sum over the digits, defined by     *)
(* recursion: what holds of it is shown by way of the partial sums, one    *)
(* digit after the other.                                                  *)

(* What holds of 0, and of every number after one it holds of, holds up to *)
(* n: of the numbers it does not hold of none is the least.                *)
LEMMA UpTo ==
    ASSUME NEW n \in Nat, NEW S, 0 \in S, \A i \in 1..n : i - 1 \in S => i \in S
    PROVE  0..n \subseteq S
<1>. DEFINE Less == OpToRel(<, Nat)
            Bad == (0..n) \ S
<1>1. \A x, y \in Nat : x < y => <<x, y>> \in Less
  BY DEF OpToRel
<1>2. SUFFICES ASSUME Bad # {} PROVE FALSE
  OBVIOUS
<1>3. PICK x \in Bad : \A y \in Bad : ~(<<y, x>> \in Less)
  <2>1. IsWellFoundedOn(Less, Nat)
    BY NatLessThanWellFounded
  <2>2. Bad \subseteq Nat
    OBVIOUS
  <2>. HIDE DEF Bad, Less
  <2>. QED  BY <2>1, <2>2, <1>2, WFMin
<1>. HIDE DEF Less
<1>4. x \in 1..n /\ x - 1 \in 0..n /\ x - 1 < x
  OBVIOUS
<1>5. x - 1 \notin Bad
  <2>1. <<x - 1, x>> \in Less
    BY <1>1, <1>4
  <2>. QED  BY <1>3, <2>1
<1>. QED  BY <1>4, <1>5

(* g[i] is the sum of the first i numbers of s, for every i up to m.       *)
AddsUp(s, m, g) ==
    /\ g \in [0..m -> Nat]
    /\ g[0] = 0
    /\ \A i \in 1..m : g[i] = g[i - 1] + s[i]

(* There are such sums, one more for each number.                          *)
LEMMA SumsExist ==
    ASSUME NEW s \in Seq(Nat)
    PROVE  \E g : AddsUp(s, Len(s), g)
<1>. DEFINE S == {m \in 0..Len(s) : \E g : AddsUp(s, m, g)}
<1>1. Len(s) \in Nat /\ \A i \in 1..Len(s) : s[i] \in Nat
  BY LenProperties, ElementOfSeq
<1>2. 0 \in S
  <2>1. AddsUp(s, 0, [i \in 0..0 |-> 0])
    BY DEF AddsUp
  <2>. QED  BY <1>1, <2>1
<1>3. ASSUME NEW i \in 1..Len(s), i - 1 \in S PROVE i \in S
  <2>1. PICK g : AddsUp(s, i - 1, g)
    BY <1>3
  <2>. DEFINE h == [m \in 0..i |-> IF m = i THEN g[i - 1] + s[i] ELSE g[m]]
  <2>2. AddsUp(s, i, h)
    BY <1>1, <2>1 DEF AddsUp
  <2>3. i \in 0..Len(s)
    BY <1>1
  <2>. QED  BY <2>2, <2>3
<1>. HIDE DEF S
<1>4. 0..Len(s) \subseteq S
  BY <1>1, <1>2, <1>3, UpTo
<1>5. Len(s) \in S
  BY <1>1, <1>4
<1>. QED  BY <1>5 DEF S

(* SumOf is the last of them.                                              *)
LEMMA SumIsLast ==
    ASSUME NEW s \in Seq(Nat), NEW g, AddsUp(s, Len(s), g)
    PROVE  SumOf(s) = g[Len(s)]
<1>. DEFINE Sums(f) == f = [i \in 0..Len(s) |-> IF i = 0 THEN 0 ELSE f[i - 1] + s[i]]
            c == CHOOSE f : Sums(f)
<1>1. Len(s) \in Nat /\ \A i \in 1..Len(s) : s[i] \in Nat
  BY LenProperties, ElementOfSeq
<1>2. Sums(g)
  BY <1>1 DEF AddsUp
<1>3. SumOf(s) = c[Len(s)]
  BY DEF SumOf
<1>4. Sums(c)
  BY <1>2
<1>. HIDE DEF c
<1>5. g = c
  <2>. DEFINE S == {i \in 0..Len(s) : g[i] = c[i]}
  <2>1. \A i \in 0..Len(s) : c[i] = IF i = 0 THEN 0 ELSE c[i - 1] + s[i]
    BY <1>4
  <2>2. 0 \in S
    BY <1>1, <2>1 DEF AddsUp
  <2>3. ASSUME NEW i \in 1..Len(s), i - 1 \in S PROVE i \in S
    BY <1>1, <2>1, <2>3 DEF AddsUp
  <2>. HIDE DEF S
  <2>4. 0..Len(s) \subseteq S
    BY <1>1, <2>2, <2>3, UpTo
  <2>5. \A i \in 0..Len(s) : g[i] = c[i]
    BY <2>4 DEF S
  <2>6. g = [i \in 0..Len(s) |-> g[i]] /\ c = [i \in 0..Len(s) |-> c[i]]
    BY <1>4 DEF AddsUp
  <2>. QED  BY <2>5, <2>6
<1>. QED  BY <1>3, <1>5

(* y is the sum x with the number p in it replaced by q.                   *)
Replaced(x, y, p, q) ==
    x \in Nat /\ y \in Nat /\ p \in Nat /\ q \in Nat /\ x + q = y + p

(* What is added to both sums later keeps what one has more than the       *)
(* other.                                                                  *)
LEMMA ReplacedLater ==
    ASSUME NEW x, NEW y, NEW p, NEW q, Replaced(x, y, p, q), NEW w \in Nat
    PROVE  Replaced(x + w, y + w, p, q)
BY DEF Replaced

(* The digit in which the numbers differ is added (luhnValid, sum +=       *)
(* digit).                                                                 *)
LEMMA ReplacedNow ==
    ASSUME NEW x \in Nat, NEW p \in Nat, NEW q \in Nat
    PROVE  Replaced(x + p, x + q, p, q)
BY DEF Replaced

(* Sequences of one length that differ in the m-th number at most.         *)
DifferAt(s, t, m) == Len(s) = Len(t) /\ \A i \in 1..Len(s) : i # m => s[i] = t[i]

(* Sequences that differ in one number have sums that differ by as much.   *)
LEMMA SumsDiffer ==
    ASSUME NEW s \in Seq(Nat), NEW t \in Seq(Nat), NEW m \in 1..Len(s), DifferAt(s, t, m)
    PROVE  Replaced(SumOf(s), SumOf(t), s[m], t[m])
<1>. DEFINE n == Len(s)
<1>1. n \in Nat /\ (\A i \in 1..n : s[i] \in Nat /\ t[i] \in Nat)
  BY LenProperties, ElementOfSeq DEF DifferAt
<1>2. PICK g : AddsUp(s, n, g)
  BY SumsExist
<1>3. PICK h : AddsUp(t, n, h)
  BY SumsExist DEF DifferAt
<1>4. SumOf(s) = g[n] /\ SumOf(t) = h[n]
  BY <1>2, <1>3, SumIsLast DEF DifferAt
<1>. DEFINE S == {i \in 0..n : /\ i < m => g[i] = h[i]
                               /\ ~(i < m) => Replaced(g[i], h[i], s[m], t[m])}
<1>. HIDE DEF n
<1>5. m \in 1..n /\ (\A i \in 1..n : i # m => s[i] = t[i])
  BY DEF n, DifferAt
<1>6. 0 \in S
  BY <1>1, <1>2, <1>3, <1>5 DEF AddsUp
<1>7. ASSUME NEW i \in 1..n, i - 1 \in S PROVE i \in S
  <2>1. /\ g[i] = g[i - 1] + s[i] /\ h[i] = h[i - 1] + t[i]
        /\ i - 1 \in 0..n /\ i \in 0..n
        /\ g[i - 1] \in Nat /\ h[i - 1] \in Nat
    BY <1>1, <1>2, <1>3 DEF AddsUp
  <2>2. CASE i < m
    BY <1>1, <1>5, <1>7, <2>1, <2>2
  <2>3. CASE i = m
    <3>1. g[i - 1] = h[i - 1] /\ ~(i < m) /\ s[m] \in Nat /\ t[m] \in Nat
      BY <1>1, <1>5, <1>7, <2>1, <2>3
    <3>2. Replaced(g[i], h[i], s[m], t[m])
      BY <2>1, <2>3, <3>1, ReplacedNow
    <3>. QED  BY <2>1, <3>1, <3>2
  <2>4. CASE i > m
    <3>1. ~(i - 1 < m) /\ ~(i < m) /\ s[i] = t[i] /\ s[i] \in Nat
      BY <1>1, <1>5, <2>4
    <3>2. Replaced(g[i - 1], h[i - 1], s[m], t[m])
      BY <1>7, <3>1
    <3>3. Replaced(g[i], h[i], s[m], t[m])
      BY <2>1, <3>1, <3>2, ReplacedLater
    <3>. QED  BY <2>1, <3>1, <3>3
  <2>. QED  BY <1>1, <1>5, <2>2, <2>3, <2>4
<1>. HIDE DEF S
<1>8. 0..n \subseteq S
  BY <1>1, <1>6, <1>7, UpTo
<1>9. n \in S /\ ~(n < m)
  BY <1>1, <1>5, <1>8
<1>. QED  BY <1>4, <1>9 DEF S

(* Doubling permutes the digits.                                           *)
LEMMA DoubledIsDigit ==
    /\ \A d \in Digit : Doubled(d) \in Digit
    /\ \A d, e \in Digit : Doubled(d) = Doubled(e) => d = e
BY DEF Doubled, Digit

(* Every digit counts with a digit, doubled or not (luhnValid).            *)
LEMMA WeightsAreDigits ==
    ASSUME NEW number \in Seq(Digit)
    PROVE  /\ [i \in 1..Len(number) |-> Weighed(number, i)] \in Seq(Nat)
           /\ Len([i \in 1..Len(number) |-> Weighed(number, i)]) = Len(number)
           /\ \A i \in 1..Len(number) : Weighed(number, i) \in Digit
<1>1. Len(number) \in Nat /\ \A i \in 1..Len(number) : number[i] \in Digit
  BY LenProperties, ElementOfSeq
<1>2. \A i \in 1..Len(number) : Weighed(number, i) \in Digit
  BY <1>1, DoubledIsDigit DEF Weighed
<1>. DEFINE w == [i \in 1..Len(number) |-> Weighed(number, i)]
<1>3. w \in [1..Len(number) -> Nat]
  BY <1>2 DEF Digit
<1>4. w \in Seq(Nat) /\ Len(w) = Len(number)
  BY <1>1, <1>3
<1>. QED  BY <1>2, <1>4

(* A digit counts in the sum with its weight.                              *)
LEMMA LuhnSumsDiffer ==
    ASSUME NEW number \in Seq(Digit), NEW typed \in Seq(Digit), NEW m \in 1..Len(number),
           DifferAt(number, typed, m)
    PROVE  Replaced(LuhnSum(number), LuhnSum(typed), Weighed(number, m), Weighed(typed, m))
<1>. DEFINE w(s) == [i \in 1..Len(s) |-> Weighed(s, i)]
<1>1. Len(typed) = Len(number) /\ \A i \in 1..Len(number) : i # m => typed[i] = number[i]
  BY DEF DifferAt
<1>2. \A i \in 1..Len(number) : i # m => w(number)[i] = w(typed)[i]
  BY <1>1 DEF Weighed
<1>3. w(number)[m] = Weighed(number, m) /\ w(typed)[m] = Weighed(typed, m)
  BY <1>1
<1>4. /\ w(number) \in Seq(Nat) /\ w(typed) \in Seq(Nat)
      /\ Len(w(number)) = Len(number) /\ Len(w(typed)) = Len(number)
  BY <1>1, WeightsAreDigits
<1>5. LuhnSum(number) = SumOf(w(number)) /\ LuhnSum(typed) = SumOf(w(typed))
  BY DEF LuhnSum
<1>. HIDE DEF w
<1>6. DifferAt(w(number), w(typed), m) /\ m \in 1..Len(w(number))
  BY <1>2, <1>4 DEF DifferAt
<1>7. Replaced(SumOf(w(number)), SumOf(w(typed)), w(number)[m], w(typed)[m])
  BY <1>4, <1>6, SumsDiffer
<1>. QED  BY <1>3, <1>5, <1>7

(* Two multiples of ten that differ by two digits do not differ.           *)
LEMMA TensAgree ==
    ASSUME NEW x, NEW y, NEW p \in Digit, NEW q \in Digit, Replaced(x, y, p, q),
           x % 10 = 0, y % 10 = 0
    PROVE  p = q
BY DEF Digit, Replaced

(* One wrong digit is noticed.                                             *)
LEMMA WrongDigitIsNoticed ==
    ASSUME NEW number \in Seq(Digit), NEW typed \in Seq(Digit), NEW m \in 1..Len(number),
           DifferAt(number, typed, m), luhnValid(number), luhnValid(typed)
    PROVE  number[m] = typed[m]
<1>1. Len(typed) = Len(number)
  BY DEF DifferAt
<1>2. Replaced(LuhnSum(number), LuhnSum(typed), Weighed(number, m), Weighed(typed, m))
  BY LuhnSumsDiffer
<1>3. /\ Weighed(number, m) \in Digit /\ Weighed(typed, m) \in Digit
      /\ number[m] \in Digit /\ typed[m] \in Digit
  BY <1>1, WeightsAreDigits, ElementOfSeq
<1>5. LuhnSum(typed) % 10 = 0 /\ LuhnSum(number) % 10 = 0
  BY DEF luhnValid
<1>6. Weighed(number, m) = Weighed(typed, m)
  BY <1>2, <1>3, <1>5, TensAgree
<1>7. CASE (Len(number) - m) % 2 = 1
  BY <1>1, <1>3, <1>6, <1>7, DoubledIsDigit DEF Weighed
<1>8. CASE (Len(number) - m) % 2 # 1
  BY <1>1, <1>6, <1>8 DEF Weighed
<1>. QED  BY <1>7, <1>8

(* Two that differ in two places each differ by ten at most.               *)
LEMMA TensAgreeByTwo ==
    ASSUME NEW x, NEW y, NEW z, NEW p \in Digit, NEW q \in Digit, NEW u \in Digit, NEW v \in Digit,
           Replaced(x, y, p, q), Replaced(y, z, u, v), x % 10 = 0, z % 10 = 0
    PROVE  p + u = q + v \/ p + u = q + v + 10 \/ p + u + 10 = q + v
<1>1. x \in Nat /\ z \in Nat /\ x + q + v = z + p + u
  BY DEF Replaced, Digit
<1>2. PICK k \in Nat, l \in Nat : x = 10 * k /\ z = 10 * l
  <2>1. x = 10 * (x \div 10) /\ x \div 10 \in Nat
    BY <1>1
  <2>2. z = 10 * (z \div 10) /\ z \div 10 \in Nat
    BY <1>1
  <2>. QED  BY <2>1, <2>2
<1>3. 10 * k + q + v = 10 * l + p + u
  BY <1>1, <1>2
<1>. QED  BY <1>3 DEF Digit

(* Of two neighbours one is doubled; swapped, they add up to the same only *)
(* if they are equal, or 0 and 9.                                          *)
LEMMA NeighboursTell ==
    ASSUME NEW a \in Digit, NEW b \in Digit, NEW x, NEW y, NEW z,
           x % 10 = 0, z % 10 = 0,
           \/ Replaced(x, y, Doubled(a), Doubled(b)) /\ Replaced(y, z, b, a)
           \/ Replaced(x, y, a, b) /\ Replaced(y, z, Doubled(b), Doubled(a))
    PROVE  a = b \/ {a, b} = {0, 9}
<1>1. Doubled(a) \in Digit /\ Doubled(b) \in Digit
  BY DoubledIsDigit
<1>2. \/ Doubled(a) + b = Doubled(b) + a
      \/ Doubled(a) + b = Doubled(b) + a + 10
      \/ Doubled(a) + b + 10 = Doubled(b) + a
  <2>1. CASE Replaced(x, y, Doubled(a), Doubled(b)) /\ Replaced(y, z, b, a)
    BY <1>1, <2>1, TensAgreeByTwo
  <2>2. CASE Replaced(x, y, a, b) /\ Replaced(y, z, Doubled(b), Doubled(a))
    <3>1. \/ a + Doubled(b) = b + Doubled(a)
          \/ a + Doubled(b) = b + Doubled(a) + 10
          \/ a + Doubled(b) + 10 = b + Doubled(a)
      BY <1>1, <2>2, TensAgreeByTwo
    <3>. QED  BY <1>1, <3>1 DEF Digit
  <2>. QED  BY <2>1, <2>2
<1>3. a = b \/ (a = 0 /\ b = 9) \/ (a = 9 /\ b = 0)
  BY <1>2 DEF Doubled, Digit
<1>. QED  BY <1>3

(* In the m-th and the k-th at most.                                       *)
DifferAtTwo(s, t, m, k) ==
    Len(s) = Len(t) /\ \A i \in 1..Len(s) : i \notin {m, k} => s[i] = t[i]

(* Two neighbours that changed places are noticed, unless they are 0 and   *)
(* 9.                                                                      *)
LEMMA SwapIsNoticed ==
    ASSUME NEW number \in Seq(Digit), NEW typed \in Seq(Digit), NEW m \in 1..Len(number),
           NEW k \in 1..Len(number), k = m + 1, DifferAtTwo(number, typed, m, k),
           typed[m] = number[k], typed[k] = number[m], luhnValid(number), luhnValid(typed)
    PROVE  number[m] = number[k] \/ {number[m], number[k]} = {0, 9}
<1>1. PICK a, b : a = number[m] /\ b = number[k]
  OBVIOUS
<1>3. Len(number) \in Nat /\ Len(typed) = Len(number) /\ m # k /\ m \in Int
  BY LenProperties DEF DifferAtTwo
<1>4. a \in Digit /\ b \in Digit
  BY <1>1, ElementOfSeq
<1>5. PICK half \in Seq(Digit) : DifferAt(number, half, m) /\ half[m] = b
  <2>. DEFINE half == [number EXCEPT ![m] = b]
  <2>1. half \in Seq(Digit) /\ Len(half) = Len(number) /\ half[m] = b
    BY <1>4, ExceptSeq
  <2>2. \A i \in 1..Len(number) : i # m => half[i] = number[i]
    BY LenProperties
  <2>. HIDE DEF half
  <2>. QED  BY <2>1, <2>2 DEF DifferAt
<1>6. half[k] = b /\ Len(half) = Len(number)
  BY <1>1, <1>3, <1>5 DEF DifferAt
<1>7. DifferAt(half, typed, k)
  <2>1. \A i \in 1..Len(number) : i # k => half[i] = typed[i]
    BY <1>1, <1>5 DEF DifferAt, DifferAtTwo
  <2>. QED  BY <1>3, <1>6, <2>1 DEF DifferAt
<1>8. /\ Replaced(LuhnSum(number), LuhnSum(half), Weighed(number, m), Weighed(half, m))
      /\ Replaced(LuhnSum(half), LuhnSum(typed), Weighed(half, k), Weighed(typed, k))
  BY <1>5, <1>6, <1>7, LuhnSumsDiffer
<1>9. LuhnSum(number) % 10 = 0 /\ LuhnSum(typed) % 10 = 0
  BY DEF luhnValid
<1>. SUFFICES a = b \/ {a, b} = {0, 9}
  BY <1>1
<1>10. CASE (Len(number) - m) % 2 = 1
  <2>1. (Len(number) - k) % 2 # 1
    BY <1>3, <1>10
  <2>2. Weighed(number, m) = Doubled(a) /\ Weighed(half, m) = Doubled(b)
    BY <1>1, <1>5, <1>6, <1>10 DEF Weighed
  <2>3. Weighed(half, k) = b /\ Weighed(typed, k) = a
    BY <1>1, <1>3, <1>6, <2>1 DEF Weighed
  <2>4. /\ Replaced(LuhnSum(number), LuhnSum(half), Doubled(a), Doubled(b))
        /\ Replaced(LuhnSum(half), LuhnSum(typed), b, a)
    BY <1>8, <2>2, <2>3
  <2>. QED  BY <1>4, <1>9, <2>4, NeighboursTell
<1>11. CASE (Len(number) - m) % 2 # 1
  <2>1. (Len(number) - k) % 2 = 1
    BY <1>3, <1>11
  <2>2. Weighed(number, m) = a /\ Weighed(half, m) = b
    BY <1>1, <1>5, <1>6, <1>11 DEF Weighed
  <2>3. Weighed(half, k) = Doubled(b) /\ Weighed(typed, k) = Doubled(a)
    BY <1>1, <1>3, <1>6, <2>1 DEF Weighed
  <2>4. /\ Replaced(LuhnSum(number), LuhnSum(half), a, b)
        /\ Replaced(LuhnSum(half), LuhnSum(typed), Doubled(b), Doubled(a))
    BY <1>8, <2>2, <2>3
  <2>. QED  BY <1>4, <1>9, <2>4, NeighboursTell
<1>. QED  BY <1>10, <1>11

(* The digits before the last add up to what the issuer counts.            *)
LEMMA CheckDigitAddsUp ==
    ASSUME NEW number \in Seq(Digit), Len(number) \in 13..19, HasCheckDigit(number)
    PROVE  luhnValid(number)
<1>. DEFINE n == Len(number)
            weight(i) == IF (n - i) % 2 = 1
                         THEN ((2 * number[i]) \div 10) + ((2 * number[i]) % 10)
                         ELSE number[i]
            w == [i \in 1..n |-> Weighed(number, i)]
            v == [i \in 1..(n - 1) |-> weight(i)]
<1>1. n \in Nat \ {0} /\ \A i \in 1..n : number[i] \in Digit
  <2>1. 13..19 \subseteq Nat \ {0}
    OBVIOUS
  <2>. QED  BY <2>1, ElementOfSeq
<1>2. w \in Seq(Nat) /\ Len(w) = n /\ \A i \in 1..n : Weighed(number, i) \in Digit
  BY WeightsAreDigits
<1>3. number[n] = (10 - (SumOf(v) % 10)) % 10
  BY DEF HasCheckDigit
<1>4. LuhnSum(number) = SumOf(w)
  BY DEF LuhnSum
<1>5. \A i \in 1..n : w[i] = Weighed(number, i)
  OBVIOUS
<1>6. \A i \in 1..(n - 1) : v[i] = w[i] /\ v[i] \in Nat
  <2>1. \A d \in Digit : ((2 * d) \div 10) + ((2 * d) % 10) = Doubled(d)
    BY DEF Digit, Doubled
  <2>. SUFFICES ASSUME NEW i \in 1..(n - 1) PROVE v[i] = w[i] /\ v[i] \in Nat
    OBVIOUS
  <2>2. i \in 1..n /\ number[i] \in Digit
    BY <1>1
  <2>3. weight(i) = Weighed(number, i)
    BY <2>1, <2>2 DEF Weighed
  <2>4. Weighed(number, i) \in Nat
    BY <1>2, <2>2 DEF Digit
  <2>. QED  BY <1>5, <2>2, <2>3, <2>4
<1>7. v \in Seq(Nat) /\ Len(v) = n - 1
  <2>1. v = [i \in 1..(n - 1) |-> v[i]]
    OBVIOUS
  <2>. HIDE DEF v, w, n
  <2>2. v \in [1..(n - 1) -> Nat]
    BY <1>6, <2>1
  <2>. QED  BY <1>1, <2>2
<1>8. w[n] = number[n]
  <2>1. n \in 1..n /\ (n - n) % 2 # 1
    BY <1>1
  <2>. QED  BY <1>5, <2>1 DEF Weighed
<1>. HIDE DEF w, v, n
<1>9. PICK g : AddsUp(w, n, g)
  BY <1>2, SumsExist
<1>. DEFINE h == [i \in 0..(n - 1) |-> g[i]]
<1>10. AddsUp(v, n - 1, h)
  BY <1>1, <1>6, <1>9 DEF AddsUp
<1>11. SumOf(v) = h[n - 1] /\ SumOf(w) = g[n]
  BY <1>2, <1>7, <1>9, <1>10, SumIsLast
<1>12. g[n] = g[n - 1] + w[n] /\ h[n - 1] = g[n - 1] /\ g[n - 1] \in Nat
  BY <1>1, <1>9 DEF AddsUp
<1>13. PICK x \in Nat : SumOf(v) = x
  BY <1>11, <1>12
<1>14. SumOf(w) = x + number[n] /\ number[n] = (10 - (x % 10)) % 10
  BY <1>3, <1>8, <1>11, <1>12, <1>13
<1>15. (x + ((10 - (x % 10)) % 10)) % 10 = 0
  OBVIOUS
<1>16. SumOf(w) % 10 = 0
  BY <1>14, <1>15
<1>. QED  BY <1>4, <1>16 DEF luhnValid

(* A mistyped number is not valid, unless 0 and 9 changed places           *)
(* (payment_data_validator.go luhnValid).                                  *)
LEMMA MistypesTell ==
    ASSUME NEW card \in Seq(Digit), validateCardNumber(card),
           NEW typed \in Mistyped(card), typed # card, validateCardNumber(typed)
    PROVE  \E i \in 2..Len(card) : {card[i - 1], card[i]} = {0, 9} /\ typed = Swapped(card, i)
<1>1. Len(card) \in Nat /\ DOMAIN card = 1..Len(card) /\ luhnValid(card) /\ luhnValid(typed)
      /\ card = [i \in 1..Len(card) |-> card[i]]
  BY LenProperties DEF validateCardNumber
<1>2. CASE \E i \in DOMAIN card, d \in Digit : typed = [card EXCEPT ![i] = d]
  <2>1. PICK i \in 1..Len(card), d \in Digit : typed = [card EXCEPT ![i] = d]
    BY <1>1, <1>2
  <2>2. typed \in Seq(Digit) /\ Len(typed) = Len(card) /\ typed[i] = d
    BY <2>1, ExceptSeq
  <2>3. \A j \in 1..Len(card) : j # i => typed[j] = card[j]
    BY <1>1, <2>1
  <2>4. card[i] = d
    BY <1>1, <2>2, <2>3, WrongDigitIsNoticed DEF DifferAt
  <2>5. typed = card
    BY <1>1, <2>1, <2>4
  <2>. QED  BY <2>5
<1>3. CASE \E i \in 1..(Len(card) - 1) : typed = [card EXCEPT ![i] = card[i + 1], ![i + 1] = card[i]]
  <2>1. PICK m \in 1..(Len(card) - 1) : typed = [card EXCEPT ![m] = card[m + 1], ![m + 1] = card[m]]
    BY <1>3
  <2>2. PICK k \in 2..Len(card) : k = m + 1 /\ m = k - 1
    BY <1>1
  <2>3. m \in 1..Len(card) /\ k \in 1..Len(card) /\ m # k
    BY <1>1, <2>2
  <2>4. typed = [card EXCEPT ![m] = card[k], ![k] = card[m]]
    BY <2>1, <2>2
  <2>5. card[m] \in Digit /\ card[k] \in Digit
    BY <2>3, ElementOfSeq
  <2>6. typed \in Seq(Digit) /\ Len(typed) = Len(card)
    <3>. DEFINE half == [card EXCEPT ![m] = card[k]]
    <3>1. half \in Seq(Digit) /\ Len(half) = Len(card)
      BY <2>3, <2>5, ExceptSeq
    <3>2. typed = [half EXCEPT ![k] = card[m]]
      BY <2>4
    <3>. HIDE DEF half
    <3>. QED  BY <2>3, <2>5, <3>1, <3>2, ExceptSeq
  <2>7. typed[m] = card[k] /\ typed[k] = card[m]
        /\ \A j \in 1..Len(card) : j \notin {m, k} => typed[j] = card[j]
    BY <1>1, <2>3, <2>4
  <2>8. card[m] = card[k] \/ {card[m], card[k]} = {0, 9}
    <3>1. DifferAtTwo(card, typed, m, k)
      BY <2>6, <2>7 DEF DifferAtTwo
    <3>. QED  BY <1>1, <2>2, <2>3, <2>6, <2>7, <3>1, SwapIsNoticed
  <2>9. card[m] # card[k]
    <3>. SUFFICES ASSUME card[m] = card[k] PROVE typed = card
      OBVIOUS
    <3>. QED  BY <1>1, <2>3, <2>4
  <2>10. typed = Swapped(card, k)
    BY <2>2, <2>4 DEF Swapped
  <2>. QED  BY <2>2, <2>8, <2>9, <2>10
<1>4. \/ \E i \in DOMAIN card, d \in Digit : typed = [card EXCEPT ![i] = d]
      \/ \E i \in 1..(Len(card) - 1) : typed = [card EXCEPT ![i] = card[i + 1], ![i + 1] = card[i]]
  <2>1. \/ typed \in {[card EXCEPT ![i] = d] : i \in DOMAIN card, d \in Digit}
        \/ typed \in {[card EXCEPT ![i] = card[i + 1], ![i + 1] = card[i]] :
                          i \in 1..(Len(card) - 1)}
    BY DEF Mistyped
  <2>2. CASE typed \in {[card EXCEPT ![i] = d] : i \in DOMAIN card, d \in Digit}
    BY <2>2
  <2>3. CASE typed \in {[card EXCEPT ![i] = card[i + 1], ![i + 1] = card[i]] :
                            i \in 1..(Len(card) - 1)}
    BY <2>3
  <2>. QED  BY <2>1, <2>2, <2>3
<1>. QED  BY <1>2, <1>3, <1>4

(* The invariant MistypedIsRefused rests on: only a valid number is on its *)
(* way to be routed, and only one that is not was refused.                 *)
Checked ==
    /\ At("route") /\ Request.method = "CARD" => validateCardNumber(Request.card)
    /\ Answered /\ call.answer = "VALIDATION_ERROR" => ~validateCardNumber(Request.card)

(* Validation alone lets a payment on to the router, or refuses it with    *)
(* this answer (orchestrator.go CreatePayment).                            *)
LEMMA ServeChecks ==
    ASSUME Typed, Serve
    PROVE  Checked'
<1>1. call \in Call
  BY StartsKnown
<1>2. ASSUME NEW a, Answer(a), a # "VALIDATION_ERROR" PROVE Checked'
  <2>1. call'.pc = "done" /\ call'.answer = a
    BY <1>1, <1>2 DEF Answer, Call
  <2>. QED  BY <1>2, <2>1 DEF Checked, At, Answered
<1>3. ASSUME NEW where, Goto(where), where \notin {"route", "done"} PROVE Checked'
  <2>1. call'.pc = where
    BY <1>1, <1>3 DEF Goto, Call
  <2>. QED  BY <1>3, <2>1 DEF Checked, At, Answered
<1>4. CASE GetByID
  <2>1. CASE call' = [call EXCEPT !.pc = "check", !.row = merchants[Request.from]]
    <3>1. call'.pc = "check"
      BY <1>1, <2>1 DEF Call
    <3>. QED  BY <3>1 DEF Checked, At, Answered
  <2>2. CASE call' = [call EXCEPT !.pc = "done", !.row = merchants[Request.from],
                                  !.answer = "AUTHENTICATION_ERROR"]
    <3>1. call'.pc = "done" /\ call'.answer = "AUTHENTICATION_ERROR"
      BY <1>1, <2>2 DEF Call
    <3>. QED  BY <3>1 DEF Checked, At, Answered
  <2>. QED  BY <1>4, <2>1, <2>2 DEF GetByID
<1>5. CASE Check
  <2>1. HandlerOf(Request.action) \notin {"route", "done"}
    BY DEF HandlerOf
  <2>. QED  BY <1>2, <1>3, <1>5, <2>1 DEF Check
<1>6. CASE GetByIDError \/ Read \/ RouteError \/ Send \/ Load
  BY <1>2, <1>6 DEF GetByIDError, Read, RouteError, Refuse, Send, Load
<1>7. CASE ChooseRoute
  <2>1. \/ Answer("ADAPTER_FACTORY_ERROR")
        \/ \E r, p : call' = [call EXCEPT !.pc = "send", !.route = r, !.provider = p]
    BY <1>7 DEF ChooseRoute, Refuse
  <2>2. ASSUME NEW r, NEW p, call' = [call EXCEPT !.pc = "send", !.route = r, !.provider = p]
        PROVE  Checked'
    <3>1. call'.pc = "send"
      BY <1>1, <2>2 DEF Call
    <3>. QED  BY <3>1 DEF Checked, At, Answered
  <2>. QED  BY <1>2, <2>1, <2>2
<1>8. CASE Validate
  <2>1. CASE Goto("route") /\ (Request.method = "CARD" => validateCardNumber(Request.card))
    <3>1. call'.pc = "route" /\ call'.msg = call.msg
      BY <1>1, <2>1 DEF Goto, Call
    <3>. QED  BY <2>1, <3>1 DEF Checked, At, Answered, Request
  <2>2. CASE Answer("VALIDATION_ERROR") /\ ~validateCardNumber(Request.card)
    <3>1. call'.pc = "done" /\ call'.msg = call.msg
      BY <1>1, <2>2 DEF Answer, Call
    <3>. QED  BY <2>2, <3>1 DEF Checked, At, Answered, Request
  <2>. QED  BY <1>8, <2>1, <2>2 DEF Validate, Refuse
<1>. QED  BY <1>4, <1>5, <1>6, <1>7, <1>8 DEF Serve

(* Nothing else changes what a request was found to be.                    *)
LEMMA StepIsChecked == Typed /\ Checked /\ [Next]_vars => Checked'
<1>. SUFFICES ASSUME Typed, Checked, [Next]_vars PROVE Checked'
  OBVIOUS
<1>1. CASE Serve
  BY <1>1, ServeChecks
<1>2. CASE \E m \in Requests : Receive(m)
  <2>1. call'.pc \in {"lookup", "done"} /\ call'.answer # "VALIDATION_ERROR"
    BY <1>2, ReceiveTypes
  <2>. QED  BY <2>1 DEF Checked, At, Answered
<1>3. CASE Alter
  <2>1. call'.pc = call.pc /\ call'.msg = call.msg /\ call'.answer = call.answer
    BY <1>3, AlterTypes DEF Observed
  <2>. QED  BY <2>1 DEF Checked, At, Answered, Request
<1>4. CASE Finish \/ \E e \in Environments : Restart(e)
  <2>1. call'.pc = "idle"
    <3>1. call' = NoCall
      BY <1>4 DEF Finish, Restart
    <3>. QED  BY <3>1 DEF NoCall
  <2>. QED  BY <2>1 DEF Checked, At, Answered
<1>5. CASE call' = call
  BY <1>5 DEF Checked, At, Answered, Request
<1>6. ASSUME (\E x \in Merchants : Announce(x) \/ Scan(x)) \/ UNCHANGED vars \/ Tick
      PROVE  call' = call
  BY <1>6 DEF Announce, Scan, Capture, vars, Tick
<1>. QED  BY <1>1, <1>2, <1>3, <1>4, <1>5, <1>6, Steps

(* An accepted card number is not one digit, nor one swap of neighbours,   *)
(* away from another that would be accepted, 0 and 9 aside; and no issued  *)
(* card is refused, of any issuer that computes the check digit            *)
(* (payment_data_validator.go luhnValid).                                  *)
THEOREM MistypesAreRefused == Spec => []MistypedIsRefused
<1>1. Init => Checked
  <2>1. NoCall.pc = "idle"
    BY DEF NoCall
  <2>. QED  BY <2>1 DEF Init, Checked, At, Answered
<1>2. Typed /\ Checked => MistypedIsRefused
  <2>. SUFFICES ASSUME Typed, Checked PROVE MistypedIsRefused
    OBVIOUS
  <2>1. ~At("idle") => Request.card \in Seq(Digit)
    BY RequestsAssumption DEF Typed, SenderIsKnown
  <2>2. ASSUME At("route"), Request.method = "CARD",
               NEW typed \in Mistyped(Request.card) \ {Request.card}, validateCardNumber(typed)
        PROVE  \E i \in 2..Len(Request.card) :
                  /\ {Request.card[i - 1], Request.card[i]} = {0, 9}
                  /\ typed = Swapped(Request.card, i)
    <3>1. Request.card \in Seq(Digit) /\ validateCardNumber(Request.card)
      BY <2>1, <2>2 DEF At, Checked
    <3>. QED  BY <2>2, <3>1, MistypesTell
  <2>3. ASSUME Answered, call.answer = "VALIDATION_ERROR", Request.card \in IssuedCards
        PROVE  FALSE
    <3>1. /\ Request.card \in Seq(Digit) /\ Len(Request.card) \in 13..19
          /\ HasCheckDigit(Request.card)
      BY <2>3, IssuedCardsAssumption
    <3>2. luhnValid(Request.card)
      BY <3>1, CheckDigitAddsUp
    <3>. QED  BY <2>3, <3>1, <3>2 DEF Checked, validateCardNumber
  <2>. QED  BY <2>2, <2>3 DEF MistypedIsRefused
<1>. QED  BY <1>1, <1>2, StepIsChecked, AlwaysTyped, PTL DEF Spec
=============================================================================
