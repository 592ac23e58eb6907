------------------------------ MODULE MCTransactionReport ------------------------------
(***************************************************************************)
(* An instance of TransactionReport, and with it of TransactionStores.     *)
(***************************************************************************)
EXTENDS TransactionReport

CONSTANTS k1, k2, k3, p1, p2, p3

Systems == [k \in {k1, k2, k3} |-> IF k = k1 THEN "yookassa" ELSE "payanyway"]

All == [status |-> Anything, system |-> Anything, from |-> NoDate, to |-> NoDate, limit |-> <<>>]

AFew ==
    {All, [All EXCEPT !.limit = <<0>>],
     [All EXCEPT !.limit = <<1>>, !.system = "payanyway"],
     [All EXCEPT !.limit = <<3>>],
     [All EXCEPT !.status = "CAPTURED", !.from = 1],
     [All EXCEPT !.to = 1]}

(* Not of k1, whose payment system is another one. *)
Symmetry == Permutations(Callers) \cup Permutations({k2, k3}) \cup Permutations(Payments)
=============================================================================
