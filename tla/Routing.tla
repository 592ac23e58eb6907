---------------------------------- MODULE Routing ----------------------------------
(***************************************************************************)
(* Which adapter a payment is sent with (orchestrator/simple/router.go,    *)
(* subsystems/routing, subsystems/adapter/factory.go), and which one a     *)
(* refund is made with (httpapi/refunds, providerKey).                     *)
(***************************************************************************)
EXTENDS CardNumber

CONSTANT Environments   \* the environments the process may be started in

Methods    == {"CARD", "SBP", "WALLET", "DIGITAL_RUBLE"}
Providers  == {"yookassa", "payanyway", "simulated", "digital_ruble"}
LegacyKeys == {"card_adapter", "sbp_adapter", "wallet_adapter"}
NoProvider == ""   \* also an adapter key left empty

(* An environment: the providers NewFactoryFromEnv registers, the value of *)
(* CARD_, SBP_ and WALLET_PAYMENT_PROVIDER, and that of PAYMENT_PROVIDER.  *)
Environment ==
    [adapters: SUBSET Providers,
     named: [LegacyKeys -> Providers \cup {NoProvider}],
     default: Providers \cup {NoProvider}]

ASSUME EnvironmentsAssumption ==
    /\ Environments \subseteq Environment
    /\ \A e \in Environments : {"simulated", "digital_ruble"} \subseteq e.adapters

(* A row of merchant_payment_routes, of one merchant and method.           *)
Systems == {"YOOKASSA", "PAYANYWAY", "SIMULATED", "DIGITAL_RUBLE", "CARD", "SBP", "DIGITAL_WALLET"}
RouteRow == [id: Nat, provider: Providers, system: Systems, priority: Nat, active: BOOLEAN]

-----------------------------------------------------------------------------
(* The router.                                                             *)

(* ORDER BY priority, id.  Fault variant: the newest rule first.           *)
Newest(x, y) == x.id >= y.id
Before(x, y) == x.priority < y.priority \/ (x.priority = y.priority /\ x.id <= y.id)

(* The rules it may return: one, or none if no rule is active.             *)
GetActiveRoute(rows) ==
    {x \in rows : x.active /\ \A y \in rows : y.active => Before(x, y)}

DefaultRoute ==
    [CARD          |-> [system |-> "CARD",           key |-> "card_adapter"],
     SBP           |-> [system |-> "SBP",            key |-> "sbp_adapter"],
     WALLET        |-> [system |-> "DIGITAL_WALLET", key |-> "wallet_adapter"],
     DIGITAL_RUBLE |-> [system |-> "DIGITAL_RUBLE",  key |-> "digital_ruble"]]

(* The routes the router may choose: the rule of the card scheme, which    *)
(* asks nobody, the merchant's rules, the default.                         *)
ByScheme(method, card) == method = "CARD" /\ IsMir(card)

Route(method, card, rows) ==
    IF ByScheme(method, card)
    THEN {[system |-> "YOOKASSA", key |-> "yookassa"]}
    ELSE {[system |-> x.system, key |-> x.provider] : x \in GetActiveRoute(rows)}
         \cup {d \in {DefaultRoute[method]} : GetActiveRoute(rows) = {}}

-----------------------------------------------------------------------------
(* The factory.                                                            *)

providerFromEnv(key, e) == IF e.named[key] # NoProvider THEN e.named[key] ELSE e.default

(* The key of the adapter, or NoProvider: an error.                        *)
Resolve(key, e) ==
    LET p == CASE key \in LegacyKeys -> providerFromEnv(key, e)
               [] key = NoProvider    -> e.default
               [] OTHER               -> key IN
    IF p \in e.adapters THEN p ELSE NoProvider

-----------------------------------------------------------------------------
(* The PaymentSystem an adapter puts in its results, and back.             *)
SystemOf ==
    [yookassa |-> "YOOKASSA", payanyway |-> "PAYANYWAY",
     simulated |-> "SIMULATED", digital_ruble |-> "DIGITAL_RUBLE"]

(* In small letters any other name is that of no adapter.                  *)
providerKey(system) ==
    CASE system = "YOOKASSA"      -> "yookassa"
      [] system = "PAYANYWAY"     -> "payanyway"
      [] system = "SIMULATED"     -> "simulated"
      [] system = "DIGITAL_RUBLE" -> "digital_ruble"
      [] system = ""              -> NoProvider
      [] OTHER                    -> "unregistered"
=============================================================================
