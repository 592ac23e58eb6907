--------------------------------- MODULE MCVelocity ---------------------------------
(***************************************************************************)
(* Instances of Velocity for TLC.                                          *)
(***************************************************************************)
EXTENDS Velocity, TLC

CONSTANTS a, b, c, d, e5, again

(* Five attempts with one card, all but the first under one e-mail address, *)
(* and the first one's key once more with another card.                    *)
Attempt(key, card, email) ==
    [f \in Fields |-> CASE f = "merchant" -> "m" [] f = "key" -> key
                        [] f = "card" -> card [] f = "email" -> email
                        [] OTHER -> ""]

Burst == (a :> Attempt("ka", "1", "") @@ b :> Attempt("kb", "1", "mail")
          @@ c :> Attempt("kc", "1", "mail") @@ d :> Attempt("kd", "1", "mail")
          @@ e5 :> Attempt("ke", "1", "mail") @@ again :> Attempt("ka", "2", "mail"))

Findings == {[score |-> 0, block |-> FALSE]}

Symmetry == Permutations({b, c, d, e5})
=============================================================================
