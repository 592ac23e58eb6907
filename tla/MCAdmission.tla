-------------------------------- MODULE MCAdmission --------------------------------
(* A shop and an administrator behind a proxy, in production.              *)
EXTENDS Admission, TLC

CONSTANTS shop, desk, home, office, proxy

(* The last prefix of the MIR cards and the first one after it, and a card *)
(* with 0 beside 9.                                                        *)
Mir   == <<2, 2, 0, 4, 1, 2, 3, 4, 5, 6, 7, 8, 7, 1, 5, 9>>
Other == <<2, 2, 0, 5, 1, 2, 0, 9, 5, 6, 7, 8, 7, 1, 5, 9>>
Wrong == [Other EXCEPT ![16] = 0]

Cards == {Mir, Other}

Good == [from |-> shop, key |-> 1, stamp |-> 0, action |-> "pay", to |-> shop,
         spaced |-> FALSE, remote |-> home, forwarded |-> NoAddress, protocol |-> "tls",
         method |-> "CARD", card |-> Other]

ByDesk(m) == [m EXCEPT !.from = desk, !.remote = office]

Refund == [Good EXCEPT !.action = "refund"]
Report == ByDesk([Good EXCEPT !.action = "report"])

(* The shop's keys after a rotation, a stamp ahead of the clock, and the   *)
(* ways a request may come.                                                *)
Odd ==
    {[Good EXCEPT !.key = 2], [Good EXCEPT !.stamp = 2], [Good EXCEPT !.spaced = TRUE],
     [Good EXCEPT !.to = desk],
     [Good EXCEPT !.remote = proxy, !.forwarded = home, !.protocol = "forwarded https"],
     [Good EXCEPT !.forwarded = office],
     [Good EXCEPT !.protocol = "forwarded https"], [Good EXCEPT !.protocol = "https target"]}

Sent ==
    {Good, [Good EXCEPT !.card = Mir], [Good EXCEPT !.card = Wrong],
     [Good EXCEPT !.method = "DIGITAL_RUBLE"], ByDesk(Good),
     Refund, [Refund EXCEPT !.key = 2], [Refund EXCEPT !.to = desk], ByDesk(Refund),
     Report, [Report EXCEPT !.key = 2], [Report EXCEPT !.from = shop, !.remote = home, !.to = desk]}
    \cup Odd

Table == (shop :> [key |-> 1, role |-> "merchant", active |-> TRUE])
         @@ (desk :> [key |-> 1, role |-> "admin", active |-> TRUE])

Rule(id, p, s, priority, active) ==
    [id |-> id, provider |-> p, system |-> s, priority |-> priority, active |-> active]

(* The names of the payment systems are free text: two of them mislead.    *)
Rules ==
    [x \in Merchants \X Methods |->
        IF x = <<shop, "CARD">>
        THEN {Rule(1, "payanyway", "YOOKASSA", 2, TRUE), Rule(2, "simulated", "SIMULATED", 2, TRUE)}
        ELSE {}]

Additions ==
    {[merchant |-> shop, method |-> "CARD", rule |-> r] :
        r \in {Rule(0, "yookassa", "DIGITAL_RUBLE", 1, TRUE), Rule(0, "simulated", "SIMULATED", 1, TRUE)}}

Anywhere == [adapters |-> Providers, default |-> "yookassa",
             named |-> [k \in LegacyKeys |-> IF k = "card_adapter" THEN "simulated" ELSE NoProvider]]
Sandbox  == [adapters |-> {"simulated", "digital_ruble"}, default |-> "payanyway",
             named |-> [k \in LegacyKeys |-> NoProvider]]

Two == {Anywhere, Sandbox}

Seeding == (Anywhere :> {<<shop, Table[shop]>>}) @@ (Sandbox :> {})
=============================================================================
