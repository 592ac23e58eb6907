----------------------------- MODULE MCPayAnyWayGateway -----------------------------
(***************************************************************************)
(* Instances of PayAnyWayGateway for TLC.                                  *)
(***************************************************************************)
EXTENDS PayAnyWayGateway, TLC

CONSTANTS k1, k2, kp, p1

(* One payment with two keys of the merchant's choice, and the key that is *)
(* its payment_id.  The first and the last are for PayAnyWay.              *)
OnePayment == [k \in {k1, k2, kp} |-> p1]
TwoRoutes  == [k \in {k1, k2, kp} |-> IF k = k2 THEN "simulated" ELSE "payanyway"]
PaymentID  == [p \in {p1} |-> kp]

(* No key is sent with spaces around it.                                   *)
AsSent == [k \in Keys |-> k]

Symmetry == Permutations(Requests) \cup Permutations(Hooks)
=============================================================================
