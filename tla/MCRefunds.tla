---------------------------------- MODULE MCRefunds ----------------------------------
(***************************************************************************)
(* Instances of Refunds for TLC.                                           *)
(***************************************************************************)
EXTENDS Refunds, TLC

CONSTANTS p1, p2, p3

OneYooKassa == [p \in {p1} |-> "yookassa"]
AllRefunds  == [p \in {p1, p2, p3} |-> CASE p = p1 -> "yookassa"
                                         [] p = p2 -> "simulated"
                                         [] p = p3 -> "payanyway"]

Symmetry == Permutations(Requests) \cup Permutations(Keys)
=============================================================================
