------------------------------- MODULE PaymentContract -------------------------------
(***************************************************************************)
(* What a merchant may rely on of a payment it makes at YooKassa, whatever *)
(* it repeats, whatever is lost on the way and whenever the gateway stops: *)
(*                                                                         *)
(*   - a key of the merchant's has one operation at the provider at most,  *)
(*     which is opened once and becomes final once;                        *)
(*   - the buyer pays it only after the merchant was sent to the payment   *)
(*     page;                                                               *)
(*   - CAPTURED and the provider's own refusal are told only when they are *)
(*     true, PENDING only when there is something to wait for;             *)
(*   - one thing happens at a time, and what was told is not taken back.   *)
(*                                                                         *)
(* It knows no requests, no goroutines, no store and no restarts.          *)
(***************************************************************************)
EXTENDS Naturals

CONSTANT Keys   \* the idempotency keys of payments made at YooKassa

VARIABLES
    charges,  \* the number of operations of each key, by their status
    told      \* what the merchant was told or can read of each key

contractVars == <<charges, told>>

Fates == {"pending", "succeeded", "canceled"}

(* CANCELED is the provider's refusal, FAILED any other one: of the        *)
(* gateway's own checks, or because the provider could not be reached.     *)
Words == {"PENDING", "CAPTURED", "CANCELED", "FAILED"}

NoCharge   == [s \in Fates |-> 0]
Charge(s)  == [NoCharge EXCEPT ![s] = 1]

-----------------------------------------------------------------------------
Init ==
    /\ charges = [k \in Keys |-> NoCharge]
    /\ told = [k \in Keys |-> {}]

Open(k) ==
    /\ charges[k] = NoCharge
    /\ charges' = [charges EXCEPT ![k] = Charge("pending")]
    /\ UNCHANGED told

Settle(k, s) ==
    /\ charges[k] = Charge("pending")
    /\ s = "succeeded" => "PENDING" \in told[k]
    /\ charges' = [charges EXCEPT ![k] = Charge(s)]
    /\ UNCHANGED told

True(k, w) ==
    /\ w = "PENDING"  => charges[k] # NoCharge
    /\ w = "CAPTURED" => charges[k] = Charge("succeeded")
    /\ w = "CANCELED" => charges[k] = Charge("canceled")

Tell(k, w) ==
    /\ True(k, w)
    /\ told' = [told EXCEPT ![k] = @ \cup {w}]
    /\ UNCHANGED charges

Next ==
    \E k \in Keys :
        \/ Open(k)
        \/ \E s \in {"succeeded", "canceled"} : Settle(k, s)
        \/ \E w \in Words : Tell(k, w)

Spec == Init /\ [][Next]_contractVars

-----------------------------------------------------------------------------
(* A merchant that was told CAPTURED is never told that the provider       *)
(* refused the payment, nor the other way round.                           *)
NoContradiction ==
    \A k \in Keys : ~ ({"CAPTURED", "CANCELED"} \subseteq told[k])
=============================================================================
