----------------------------- MODULE MCDigitalRubleScan -----------------------------
(***************************************************************************)
(* Instances of DigitalRubleScan for TLC.                                  *)
(***************************************************************************)
EXTENDS DigitalRubleScan, TLC

CONSTANTS k1, k2, p1

(* One payment, tried with one code and then with another.                 *)
TwoCodes   == [k \in {k1, k2} |-> p1]
CodesOnly  == [k \in {k1, k2} |-> "digital_ruble"]

(* A textbook, the example of the tests, and something without a mark.     *)
Purchases  == [k \in {k1, k2} |->
                  [category |-> IF k = k1 THEN "education" ELSE "general",
                   amount   |-> 1500]]

(* Enough of every mark; too little but general money.                     *)
DemoWallets == {"", "dr_wallet_insufficient_marked"}

(* No key is sent with spaces around it.                                   *)
AsSent == [k \in Keys |-> k]

Symmetry == Permutations(Requests) \cup Permutations(Scans)
=============================================================================
