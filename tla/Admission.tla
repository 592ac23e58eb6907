--------------------------------- MODULE Admission ---------------------------------
(***************************************************************************)
(* The way of a request through the middleware chain of main.go to the     *)
(* provider of its payment: transport policy, authentication against the   *)
(* table merchants, network policy, authorization, validation of the card  *)
(* number, routing by the table merchant_payment_routes, the adapter; and  *)
(* of a refund back to the provider.  Meanwhile an operator changes both   *)
(* tables, time passes, the process is restarted in another environment.   *)
(*                                                                         *)
(*   lookup -> check -> route -> send -> done       POST /payments         *)
(*                  `-> load -> done                POST /refunds/...      *)
(*                  `-> done                        GET, status and report *)
(*                                                                         *)
(* Two requests share nothing here but the tables, which they only read:   *)
(* one request at a time is followed.  What they share further on is the   *)
(* matter of YooKassaGateway and Refunds.  A merchant has one payment.     *)
(***************************************************************************)
EXTENDS Access, Routing

CONSTANTS
    Requests,          \* the requests that may be sent
    IssuedCards,       \* the card numbers there are
    InitialMerchants,  \* the table merchants at first
    InitialRoutes,     \* merchant_payment_routes at first, of each merchant and method
    NewRoutes,         \* what an operator may add
    SeedOf,            \* the merchant of MERCHANT_ID in an environment: one, or none
    MaxTime, MaxChanges   \* bounds on the clock and on the changes made by operators

(* onlyDigits leaves nothing else of a card number.                        *)
ASSUME RequestsAssumption ==
    \A m \in Requests : IsRequest(m) /\ m.method \in Methods /\ m.card \in Seq(Digit)
ASSUME IssuedCardsAssumption ==
    \A card \in IssuedCards : card \in Seq(Digit) /\ Len(card) \in 13..19 /\ HasCheckDigit(card)
ASSUME TablesAssumption ==
    /\ InitialMerchants \in [Merchants -> Row \cup {NoRow}]
    /\ InitialRoutes \in [Merchants \X Methods -> SUBSET RouteRow]
    /\ \A xm \in Merchants \X Methods : IsFiniteSet(InitialRoutes[xm])
ASSUME SeedsAssumption ==
    /\ SeedOf \in [Environments -> SUBSET (Merchants \X Row)]
    /\ \A e \in Environments : \A s, t \in SeedOf[e] : s = t /\ s[2].active
ASSUME NewRoutesAssumption ==
    \A n \in NewRoutes :
        n.merchant \in Merchants /\ n.method \in Methods /\ n.rule \in RouteRow /\ n.rule.active
ASSUME BoundsAssumption == MaxTime \in Nat /\ MaxChanges \in Nat

VARIABLES
    merchants,   \* the table merchants
    routes,      \* the table merchant_payment_routes
    env,         \* the environment the process was started in
    now,         \* the clock
    call,        \* the request that is under way
    payments,    \* the payment of each merchant
    refunds,     \* the providers asked to refund it
    changes      \* how much of MaxChanges is used up

vars == <<merchants, routes, env, now, call, payments, refunds, changes>>

-----------------------------------------------------------------------------
(* Data.                                                                   *)

(* provider is the one the payment was sent to, system the PaymentSystem   *)
(* of its record, by (history) the providers that captured it.             *)
NoPayment == [provider |-> NoProvider, status |-> "", system |-> "", by |-> {}]
Payment   == [provider: Providers \cup {NoProvider},
              status: {"PENDING", "CAPTURED", "DECLINED", "FAILED"},
              system: Systems \cup {""}, by: SUBSET Providers]

Refusals == {"HTTPS_REQUIRED", "AUTHENTICATION_ERROR", "NETWORK_ACCESS_DENIED", "FORBIDDEN"}
Answers  == {"", "OK", "VALIDATION_ERROR", "ROUTING_ERROR", "ADAPTER_FACTORY_ERROR",
             "PAYMENT_NOT_CAPTURED", "REFUND_NOT_SUPPORTED"} \cup Refusals

(* The request, the row GetByID returned, the route and provider chosen,   *)
(* the answer; and as history since the request came: the time it came,    *)
(* the rows its sender has had, the providers it should have been sent to. *)
NoRequest == [action |-> ""]
NoRoute == [system |-> "", key |-> NoProvider]
NoCall  == [pc |-> "idle", msg |-> NoRequest, row |-> NoRow, route |-> NoRoute,
            provider |-> NoProvider, answer |-> "",
            arrived |-> 0, rows |-> {}, choices |-> {}]

At(where)    == call.pc = where
Answered     == At("done")
InFlight     == ~At("idle") /\ ~Answered
Request      == call.msg
Answer(code) == call' = [call EXCEPT !.pc = "done", !.answer = code]
Goto(where)  == call' = [call EXCEPT !.pc = where]

(* The provider a payment should be sent to, from the tables alone: that   *)
(* of a MIR card, of the first of the merchant's active rules of lowest    *)
(* priority, or what the environment says.                                 *)
MirPrefixes == {<<2, 2, 0, d>> : d \in 0..4}

FirstRule(rows) ==
    LET active == {x \in rows : x.active}
        lowest == {x \in active : \A y \in active : x.priority <= y.priority}
    IN  {x.provider : x \in {z \in lowest : \A y \in lowest : z.id <= y.id}}

ByEnvironment(method, e) ==
    LET named == CASE method = "CARD"   -> e.named["card_adapter"]
                   [] method = "SBP"    -> e.named["sbp_adapter"]
                   [] method = "WALLET" -> e.named["wallet_adapter"]
                   [] OTHER             -> "digital_ruble"
    IN  IF named = NoProvider THEN e.default ELSE named

Rightful(m, table, e) ==
    LET rule == FirstRule(table[<<m.from, m.method>>]) IN
    CASE m.method = "CARD" /\ Len(m.card) >= 4 /\ SubSeq(m.card, 1, 4) \in MirPrefixes
             -> {"yookassa"}
      [] OTHER -> rule \cup {p \in {ByEnvironment(m.method, e)} : rule = {}}

-----------------------------------------------------------------------------
(* The chain up to the handler.                                            *)

Receive(m) ==
    LET turnedAway == RequireHTTPS /\ ~IsSecureRequest(m) IN
    /\ At("idle")
    /\ m.action = "pay" => payments[m.from] = NoPayment
    /\ call' = [NoCall EXCEPT
                   !.pc = IF turnedAway THEN "done" ELSE "lookup",
                   !.answer = IF turnedAway THEN "HTTPS_REQUIRED" ELSE "",
                   !.msg = m, !.arrived = now, !.rows = {merchants[m.from]},
                   !.choices = Rightful(m, routes, env)]
    /\ UNCHANGED <<merchants, routes, env, now, payments, refunds, changes>>

(* AuthenticateMerchant reads the row once and goes on by what it read.    *)
GetByID ==
    LET row == merchants[Request.from] IN
    /\ At("lookup")
    /\ \/ /\ row.active
          /\ call' = [call EXCEPT !.pc = "check", !.row = row]
       \/ /\ ~row.active
          /\ call' = [call EXCEPT !.pc = "done", !.row = row, !.answer = "AUTHENTICATION_ERROR"]
    /\ UNCHANGED <<merchants, routes, env, now, payments, refunds, changes>>

(* The database, or the vault that reveals the secret, fails: the merchant *)
(* is told the same as for a wrong key.                                    *)
GetByIDError ==
    /\ At("lookup")
    /\ Answer("AUTHENTICATION_ERROR")
    /\ UNCHANGED <<merchants, routes, env, now, payments, refunds, changes>>

(* Fault variant: the role is read again, as it is by now.                 *)
RoleReadAgain == merchants[Request.from].role
RoleOfCall    == call.row.role

Authentic ==
    /\ KeysMatch(call.row, Request)
    /\ validateTimestamp(Request.stamp, now)
    /\ checkBodyMerchantID(Request)

(* The rest of AuthenticateMerchant, AuthenticatedNetworkMiddleware and    *)
(* the authorization of the handler.                                       *)
HandlerOf(action) ==
    CASE action = "pay" -> "validate" [] action = "refund" -> "load" [] OTHER -> "read"

Check ==
    /\ At("check")
    /\ \/ ~Authentic /\ Answer("AUTHENTICATION_ERROR")
       \/ /\ Authentic
          /\ ~NetworkAllows(RoleOfCall, Request)
          /\ Answer("NETWORK_ACCESS_DENIED")
       \/ /\ Authentic
          /\ NetworkAllows(RoleOfCall, Request)
          /\ ~Authorized(RoleOfCall, Request)
          /\ Answer("FORBIDDEN")
       \/ /\ Authentic
          /\ NetworkAllows(RoleOfCall, Request)
          /\ Authorized(RoleOfCall, Request)
          /\ Goto(HandlerOf(Request.action))
    /\ UNCHANGED <<merchants, routes, env, now, payments, refunds, changes>>

(* The status of a payment, or a report.                                   *)
Read ==
    /\ At("read")
    /\ Answer("OK")
    /\ UNCHANGED <<merchants, routes, env, now, payments, refunds, changes>>

Finish ==
    /\ Answered
    /\ call' = NoCall
    /\ UNCHANGED <<merchants, routes, env, now, payments, refunds, changes>>

-----------------------------------------------------------------------------
(* A payment on its way to the provider.                                   *)

Record(p) == payments' = [payments EXCEPT ![Request.from] = p]

(* failAndSave; nothing was sent, no PaymentSystem is stored.              *)
Refuse(code) ==
    /\ Record([NoPayment EXCEPT !.status = "FAILED"])
    /\ Answer(code)

Validate ==
    /\ At("validate")
    /\ \/ /\ Request.method = "CARD" => validateCardNumber(Request.card)
          /\ Goto("route")
          /\ UNCHANGED payments
       \/ /\ Request.method = "CARD" /\ ~validateCardNumber(Request.card)
          /\ Refuse("VALIDATION_ERROR")
    /\ UNCHANGED <<merchants, routes, env, now, refunds, changes>>

(* Route, then Resolve: the adapter is looked up once, before the calls.   *)
ChooseRoute ==
    /\ At("route")
    /\ \E r \in Route(Request.method, Request.card, routes[<<Request.from, Request.method>>]) :
          LET p == Resolve(r.key, env) IN
          \/ /\ p # NoProvider
             /\ call' = [call EXCEPT !.pc = "send", !.route = r, !.provider = p]
             /\ UNCHANGED payments
          \/ p = NoProvider /\ Refuse("ADAPTER_FACTORY_ERROR")
    /\ UNCHANGED <<merchants, routes, env, now, refunds, changes>>

(* The rules cannot be read: no default route instead.                     *)
RouteError ==
    /\ At("route")
    /\ ~ByScheme(Request.method, Request.card)
    /\ Refuse("ROUTING_ERROR")
    /\ UNCHANGED <<merchants, routes, env, now, refunds, changes>>

(* The results Send may return after its last attempt, with the            *)
(* PaymentSystem that is stored: the adapter's own, or that of the route   *)
(* if Send returned an error.  Fault variants: always that of the route;   *)
(* the provider's own word for a status.                                   *)
Outcome(status, system) == [status |-> status, system |-> system]

OutcomesUntranslated(p, r) ==
    {Outcome(status, SystemOf[p]) : status \in {"pending", "succeeded", "canceled"}}
OutcomesAsRouted(p, r) ==
    {Outcome(status, r.system) : status \in {"PENDING", "CAPTURED", "DECLINED", "FAILED"}}
Outcomes(p, r) ==
    CASE p = "simulated" -> {Outcome("CAPTURED", SystemOf[p])}
      [] p = "yookassa"  -> {Outcome(status, SystemOf[p]) :
                                 status \in {"PENDING", "CAPTURED", "DECLINED", "FAILED"}}
                            \cup {Outcome("FAILED", r.system)}
      [] OTHER           -> {Outcome("PENDING", SystemOf[p])}

Captor(status, p) == IF status = "CAPTURED" THEN {p} ELSE {}

Send ==
    /\ At("send")
    /\ \E o \in Outcomes(call.provider, call.route) :
          Record([provider |-> call.provider, status |-> o.status, system |-> o.system,
                  by |-> Captor(o.status, call.provider)])
    /\ Answer("OK")
    /\ UNCHANGED <<merchants, routes, env, now, refunds, changes>>

-----------------------------------------------------------------------------
(* A refund on its way back.  The adapters' own webhooks store the capture *)
(* of a payment that was sent to them, under their own name; a digital     *)
(* ruble code can be scanned for any record that says DIGITAL_RUBLE.       *)

Capture(x, p) ==
    /\ p \notin payments[x].by
    /\ payments' = [payments EXCEPT ![x].status = "CAPTURED", ![x].system = SystemOf[p],
                                    ![x].by = @ \cup {p}]
    /\ UNCHANGED <<merchants, routes, env, now, call, refunds, changes>>

Announce(x) ==
    /\ payments[x].provider \in {"yookassa", "payanyway"}
    /\ Capture(x, payments[x].provider)

Scan(x) ==
    /\ payments[x].system = "DIGITAL_RUBLE"
    /\ Capture(x, "digital_ruble")

AdapterForRefund(x) == Resolve(providerKey(payments[x].system), env)

(* The adapters of YooKassa, the digital ruble and the simulated provider  *)
(* make refunds.                                                           *)
Load ==
    LET x == Request.to
        p == AdapterForRefund(x) IN
    /\ At("load")
    /\ \/ /\ payments[x].status # "CAPTURED"
          /\ Answer("PAYMENT_NOT_CAPTURED")
          /\ UNCHANGED refunds
       \/ /\ payments[x].status = "CAPTURED"
          /\ p = NoProvider
          /\ Answer("ADAPTER_FACTORY_ERROR")
          /\ UNCHANGED refunds
       \/ /\ payments[x].status = "CAPTURED"
          /\ p = "payanyway"
          /\ Answer("REFUND_NOT_SUPPORTED")
          /\ UNCHANGED refunds
       \/ /\ payments[x].status = "CAPTURED"
          /\ p \notin {NoProvider, "payanyway"}
          /\ Answer("OK")
          /\ refunds' = [refunds EXCEPT ![x] = @ \cup {p}]
    /\ UNCHANGED <<merchants, routes, env, now, payments, changes>>

-----------------------------------------------------------------------------
(* The operator (payment_gateway_tools), the clock, the process.           *)

Change == changes < MaxChanges /\ changes' = changes + 1

(* History of the request under way: what it may be judged by has changed. *)
Witness ==
    call' = IF InFlight
            THEN [call EXCEPT !.rows = @ \cup {merchants'[Request.from]},
                              !.choices = @ \cup Rightful(Request, routes', env)]
            ELSE call

ChangeRow(x, row) ==
    /\ row # merchants[x]
    /\ Change
    /\ merchants' = [merchants EXCEPT ![x] = row]
    /\ UNCHANGED routes
    /\ Witness
    /\ UNCHANGED <<env, now, payments, refunds>>

Known(x) == merchants[x] # NoRow

SetActive(x, active) == Known(x) /\ ChangeRow(x, [merchants[x] EXCEPT !.active = active])
SetRole(x, role)     == Known(x) /\ ChangeRow(x, [merchants[x] EXCEPT !.role = role])

(* create-merchant.ps1, -RotateKeys for one that exists: keys nobody had   *)
(* before, the role asked for, and an enabled merchant.                    *)
IssueKeys(x, role) == ChangeRow(x, [key |-> changes + 2, role |-> role, active |-> TRUE])

ChangeRules(x, method, rows) ==
    /\ rows # routes[<<x, method>>]
    /\ Change
    /\ routes' = [routes EXCEPT ![<<x, method>>] = rows]
    /\ UNCHANGED merchants
    /\ Witness
    /\ UNCHANGED <<env, now, payments, refunds>>

(* pgrouteadd: a rule for the same provider is overwritten and enabled.    *)
AddRoute(x, method, new) ==
    LET rows == routes[<<x, method>>]
        same == {y \in rows : y.provider = new.provider}
        id   == IF same = {} THEN 1 + Max({0} \cup {y.id : y \in rows})
                ELSE (CHOOSE y \in same : TRUE).id
    IN  ChangeRules(x, method, (rows \ same) \cup {[new EXCEPT !.id = id]})

DisableRoute(x, method, p) ==
    LET rows == routes[<<x, method>>] IN
    ChangeRules(x, method,
        {IF y.provider = p THEN [y EXCEPT !.active = FALSE] ELSE y : y \in rows})

DeleteRoute(x, method, p) ==
    ChangeRules(x, method, {y \in routes[<<x, method>>] : y.provider # p})

Tick ==
    /\ now < MaxTime
    /\ now' = now + 1
    /\ UNCHANGED <<merchants, routes, env, call, payments, refunds, changes>>

(* seedDefaultMerchant overwrites the row of the merchant the environment  *)
(* names, keys, role and all, and enables it.                              *)
Seeded(e, x) == {s[2] : s \in {t \in SeedOf[e] : t[1] = x}}

Restart(e) ==
    /\ Change
    /\ env' = e
    /\ merchants' = [x \in Merchants |->
                        IF Seeded(e, x) = {} THEN merchants[x]
                        ELSE CHOOSE row \in Seeded(e, x) : TRUE]
    /\ call' = NoCall
    /\ UNCHANGED <<routes, now, payments, refunds>>

-----------------------------------------------------------------------------
Init ==
    /\ merchants = InitialMerchants
    /\ routes = InitialRoutes
    /\ env \in Environments
    /\ now = 0
    /\ call = NoCall
    /\ payments = [x \in Merchants |-> NoPayment]
    /\ refunds = [x \in Merchants |-> {}]
    /\ changes = 0

Serve ==
    \/ GetByID \/ GetByIDError \/ Check \/ Read
    \/ Validate \/ ChooseRoute \/ RouteError \/ Send \/ Load

Operate ==
    \/ \E x \in Merchants : \/ \E b \in BOOLEAN : SetActive(x, b)
                            \/ \E role \in Roles : SetRole(x, role) \/ IssueKeys(x, role)
    \/ \E n \in NewRoutes : AddRoute(n.merchant, n.method, n.rule)
    \/ \E x \in Merchants, method \in Methods, p \in Providers :
          DisableRoute(x, method, p) \/ DeleteRoute(x, method, p)
    \/ \E e \in Environments : Restart(e)

Next ==
    \/ \E m \in Requests : Receive(m)
    \/ Serve \/ Finish
    \/ \E x \in Merchants : Announce(x) \/ Scan(x)
    \/ Operate
    \/ Tick

Spec == Init /\ [][Next]_vars

-----------------------------------------------------------------------------
(* Properties.                                                             *)

Call == [pc: {"idle", "lookup", "check", "read", "validate", "route", "send", "load", "done"},
         msg: Requests \cup {NoRequest}, row: Row \cup {NoRow},
         route: [system: Systems \cup {""}, key: Providers \cup LegacyKeys \cup {NoProvider}],
         provider: Providers \cup {NoProvider}, answer: Answers, arrived: 0..MaxTime,
         rows: SUBSET (Row \cup {NoRow}), choices: SUBSET (Providers \cup {NoProvider})]

TypeOK ==
    /\ merchants \in [Merchants -> Row \cup {NoRow}]
    /\ routes \in [Merchants \X Methods -> SUBSET RouteRow]
    /\ env \in Environments
    /\ now \in 0..MaxTime
    /\ call \in Call
    /\ payments \in [Merchants -> Payment \cup {NoPayment}]
    /\ refunds \in [Merchants -> SUBSET Providers]
    /\ changes \in 0..MaxChanges

(* What README.md says of the roles: whose data a request may touch.       *)
Reach(role, m) ==
    CASE role = "merchant" -> {m.from}
      [] role = "admin"    -> Merchants
      [] role = "auditor"  -> IF m.action \in {"status", "report"} THEN Merchants ELSE {}
      [] OTHER             -> {}

Permits(row, t, m) ==
    /\ row.active
    /\ row.key = m.key
    /\ m.stamp - Window <= t /\ t <= m.stamp + Window
    /\ m.to \in Reach(row.role, m)
    /\ NetworkAllows(row.role, m)

(* Could it have been permitted by what its sender's row was, all of it at *)
(* one moment, and what the clock said, since the request came?            *)
EverPermitted == \E row \in call.rows, t \in call.arrived..now : Permits(row, t, Request)
EverForbidden == \E row \in call.rows, t \in call.arrived..now : ~Permits(row, t, Request)

Turned == Answered /\ call.answer \in Refusals
Admitted == \/ call.pc \in {"read", "validate", "route", "send", "load"}
            \/ Answered /\ call.answer \notin Refusals

(* The operator disables merchants, changes roles and rotates keys while   *)
(* requests are checked.  Whatever is let through was permitted by one row *)
(* the merchant had, never by the key of one and the role of another;      *)
(* whatever is turned away was not secure, or not permitted by one of      *)
(* them, or is a payment whose body does not name its sender to the        *)
(* letter, or no row was found or read for it                              *)
(* (auth.go AuthenticateMerchant, authorization.go, network.go).           *)
DecisionIsRight ==
    /\ Admitted => EverPermitted
    /\ Turned => \/ call.answer = "HTTPS_REQUIRED" /\ ~IsSecureRequest(Request)
                 \/ Request.action = "pay" /\ (Request.to # Request.from \/ Request.spaced)
                 \/ call.answer = "AUTHENTICATION_ERROR" /\ call.row = NoRow
                 \/ EverForbidden

(* A payment goes to the provider that the card, the merchant's rules as   *)
(* they were at some moment of the request, or the environment designates, *)
(* or to none: a provider that is not configured, or rules that cannot be  *)
(* read, end it (router.go Route, factory.go Resolve).                     *)
SentAsRouted ==
    [][\A x \in Merchants :
          payments'[x].provider # payments[x].provider =>
              /\ payments'[x].provider \in call.choices
              /\ payments'[x].provider \in env.adapters]_vars

(* A refund goes to a provider that captured the payment, however routes   *)
(* and environment have changed since, and is refused for want of an       *)
(* adapter only if one that captured it is not configured any more         *)
(* (refunds/handler.go providerKey, factory.go Resolve).                   *)
RefundGoesHome ==
    /\ \A x \in Merchants : refunds[x] \subseteq payments[x].by
    /\ (Answered /\ call.answer = "ADAPTER_FACTORY_ERROR" /\ Request.action = "refund")
           => ~(payments[Request.to].by \subseteq env.adapters)

(* When a card number is accepted, the same number with one wrong digit or *)
(* with two neighbours swapped would not have been, unless those are 0 and *)
(* 9, which the check digit cannot tell apart; and no issued number is     *)
(* refused (payment_data_validator.go luhnValid).                          *)
Swapped(card, i) == [card EXCEPT ![i - 1] = card[i], ![i] = card[i - 1]]

MistypedIsRefused ==
    LET card == Request.card IN
    /\ (At("route") /\ Request.method = "CARD") =>
          \A typed \in Mistyped(card) \ {card} :
              validateCardNumber(typed) =>
                  \E i \in 2..Len(card) :
                      {card[i - 1], card[i]} = {0, 9} /\ typed = Swapped(card, i)
    /\ (Answered /\ call.answer = "VALIDATION_ERROR") => card \notin IssuedCards
=============================================================================
