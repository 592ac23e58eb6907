------------------------------- MODULE VelocityScore -------------------------------
(***************************************************************************)
(* The score card of the antifraud: what the velocity counts of an attempt *)
(* weigh, and what the antifraud makes of all its rules together.          *)
(***************************************************************************)
EXTENDS Naturals

(* velocityCounts: attempts with the same card in an hour, with the same   *)
(* e-mail in 30 minutes, and so on.                                        *)
Counts == [card: Nat, email: Nat, phone: Nat, wallet: Nat, merchant: Nat,
           cardsOfEmail: Nat, cardsOfPhone: Nat]

(* Points for a first and, instead, a second threshold.                    *)
Steps(n, first, points, second, more) ==
    IF n >= second THEN more ELSE IF n >= first THEN points ELSE 0

Step(n, threshold, points) == IF n >= threshold THEN points ELSE 0

VelocityPoints(v) ==
    Steps(v.card, 4, 40, 5, 70)
    + Step(v.email, 5, 35)
    + Step(v.phone, 6, 30)
    + Steps(v.wallet, 4, 35, 6, 55)
    + Steps(v.cardsOfEmail, 3, 30, 5, 60)
    + Steps(v.cardsOfPhone, 3, 30, 5, 60)
    + Step(v.merchant, 30, 20)

(* Fault variant: the attempt that is judged is not among the five.        *)
VelocityBlocksSixth(v) == v.card > 5 \/ v.wallet >= 6

(* One card or one wallet too often blocks whatever the points.            *)
VelocityBlocks(v) == v.card >= 5 \/ v.wallet >= 6

(* Check: others has the points of the other rules together, and whether   *)
(* one of them blocks.                                                     *)
Verdict(others, v) ==
    LET total == others.score + VelocityPoints(v) IN
    IF others.block \/ VelocityBlocks(v) \/ total >= 80 THEN "BLOCKED"
    ELSE IF total > 0 THEN "REVIEW"
    ELSE "PASSED"

Severity(verdict) ==
    CASE verdict = "PASSED" -> 0 [] verdict = "REVIEW" -> 1 [] OTHER -> 2
=============================================================================
