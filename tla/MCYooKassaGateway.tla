----------------------------- MODULE MCYooKassaGateway -----------------------------
(***************************************************************************)
(* Instances of YooKassaGateway for TLC.                                   *)
(***************************************************************************)
EXTENDS YooKassaGateway, TLC

CONSTANTS k1, k2, k3, k4, k5, k6, p1, p2

(* One payment; one provider; no spaces.                                   *)
OnePayment   == [k \in Keys |-> p1]
OneYooKassa  == [k \in Keys |-> "yookassa"]
OneSimulated == [k \in Keys |-> "simulated"]
AsSent       == [k \in Keys |-> k]

(* A payment tried again with a second key, one key for each of the other  *)
(* adapters, and one of these keys with a space before it.                 *)
TwoPayments == [k \in Keys |-> IF k \in {k1, k2} THEN p1 ELSE p2]
AllAdapters ==
    [k \in Keys |->
        CASE k \in {k1, k2} -> "yookassa"
          [] k \in {k3, k6} -> "simulated"
          [] k = k4 -> "digital_ruble"
          [] k = k5 -> "payanyway"]
SpaceBefore == [k \in Keys |-> IF k = k6 THEN k3 ELSE k]

Symmetry == Permutations(Requests) \cup Permutations(Hooks)
=============================================================================
