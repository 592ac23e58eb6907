-------------------------------- MODULE RefundContract --------------------------------
(***************************************************************************)
(* What a merchant may rely on of its refunds, with the database, whatever *)
(* it repeats, whatever is lost on the way and whenever the gateway stops: *)
(*                                                                         *)
(*   - only payments that were captured are refunded, and YooKassa makes   *)
(*     one refund under an idempotency key;                                *)
(*   - a key has one record, which is written as requested, is concluded   *)
(*     once, and is not changed again;                                     *)
(*   - it is concluded with what is true of the provider's refund it       *)
(*     names: of the same key, payment and kind, given for a success,      *)
(*     canceled for a failure; a failure that names none says nothing;     *)
(*   - answers are the record, as it was when they were given.             *)
(*                                                                         *)
(* It knows no requests, no goroutines and no restarts.                    *)
(***************************************************************************)
EXTENDS Naturals, Sequences

CONSTANTS
    Keys,              \* the idempotency keys of refunds
    Payments,
    YooKassaPayments,  \* those made at YooKassa
    Ids                \* the identifiers refunds are given

VARIABLES
    captured,  \* the payments that were captured
    given,     \* the refunds of the providers
    record,    \* the record of each key, none or one
    told       \* the answers given for each key

contractVars == <<captured, given, record, told>>

Fates    == {"pending", "succeeded", "canceled"}
Statuses == {"PROCESS_REFUND", "SUCCESS_REFUND", "FAIL_REFUND"}
Types    == {"full", "partial"}

-----------------------------------------------------------------------------
Init ==
    /\ captured = {}
    /\ given = <<>>
    /\ record = [k \in Keys |-> {}]
    /\ told = [k \in Keys |-> {}]

Capture(p) ==
    /\ captured' = captured \cup {p}
    /\ UNCHANGED <<given, record, told>>

Give(gift) ==
    /\ gift.payment \in captured
    /\ gift.payment \in YooKassaPayments =>
           \A i \in DOMAIN given :
               given[i].key = gift.key => given[i].payment \notin YooKassaPayments
    /\ given' = Append(given, gift)
    /\ UNCHANGED <<captured, record, told>>

Settle(i, fate) ==
    /\ given[i].status = "pending"
    /\ given' = [given EXCEPT ![i].status = fate]
    /\ UNCHANGED <<captured, record, told>>

(* The record of a refund before anything was heard of it. *)
Requested(refund) == [refund EXCEPT !.status = "PROCESS_REFUND", !.ext = 0]

True(refund) ==
    /\ refund.status = "SUCCESS_REFUND" => refund.ext # 0
    /\ refund.ext # 0 =>
           /\ refund.ext \in DOMAIN given
           /\ given[refund.ext].key = refund.key
           /\ given[refund.ext].payment = refund.payment
           /\ given[refund.ext].type = refund.type
           /\ refund.status = "SUCCESS_REFUND" => given[refund.ext].status = "succeeded"
           /\ refund.status = "FAIL_REFUND" => given[refund.ext].status = "canceled"

Request(refund) ==
    /\ refund = Requested(refund)
    /\ record[refund.key] = {}
    /\ record' = [record EXCEPT ![refund.key] = {refund}]
    /\ UNCHANGED <<captured, given, told>>

(* What is concluded is told at once. *)
Conclude(refund) ==
    /\ refund # Requested(refund)
    /\ True(refund)
    /\ record[refund.key] \subseteq {Requested(refund)}
    /\ record' = [record EXCEPT ![refund.key] = {refund}]
    /\ told' = [told EXCEPT ![refund.key] = @ \cup {refund}]
    /\ UNCHANGED <<captured, given>>

Tell(k) ==
    /\ \E refund \in record[k] : told' = [told EXCEPT ![k] = @ \cup {refund}]
    /\ UNCHANGED <<captured, given, record>>

Next ==
    \/ \E p \in Payments : Capture(p)
    \/ \E gift \in [key : Keys, payment : Payments, type : Types, status : Fates] : Give(gift)
    \/ \E i \in DOMAIN given, fate \in {"succeeded", "canceled"} : Settle(i, fate)
    \/ \E refund \in [id : Ids, key : Keys, payment : Payments, type : Types,
                      status : Statuses, ext : 0..Len(given)] :
          Request(refund) \/ Conclude(refund)
    \/ \E k \in Keys : Tell(k)

Spec == Init /\ [][Next]_contractVars

-----------------------------------------------------------------------------
(* Two answers for a key are the same, or one is the refund as it was      *)
(* requested and the other what came of it.                                *)
OneStory ==
    \A k \in Keys : \A x, y \in told[k] : x = y \/ x = Requested(y) \/ y = Requested(x)
=============================================================================
