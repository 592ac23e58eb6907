------------------------------ MODULE PaymentStatus ------------------------------
(***************************************************************************)
(* The status vocabulary of the gateway and the pure functions over it:    *)
(* the translation of a provider's status (mapYooKassaStatus), the        *)
(* classification of an adapter result (HandleCallback) and the retry      *)
(* policy (ShouldRetry).  No state.                                        *)
(***************************************************************************)
EXTENDS Naturals

(* dto.PaymentStatus. *)
Statuses ==
    {"CREATED", "PENDING", "CAPTURE_REQUESTED", "CAPTURED", "DECLINED",
     "CANCELLED", "FAILED"}

(* The statuses YooKassa gives a payment object. *)
YooKassaStatuses == {"pending", "waiting_for_capture", "succeeded", "canceled"}

(* A provider operation changes no more once it has one of these. *)
ProviderFinal == {"succeeded", "canceled"}

(* Fault variant of mapYooKassaStatus: every status YooKassa does not call *)
(* canceled is taken for a capture.                                        *)
MapOptimistic(s) == IF s = "canceled" THEN "DECLINED" ELSE "CAPTURED"

mapYooKassaStatus(s) ==
    CASE s = "succeeded"                         -> "CAPTURED"
      [] s = "canceled"                          -> "DECLINED"
      [] s \notin {"succeeded", "canceled"}      -> "PENDING"

(* The statuses after which an adapter is not called again. *)
NotRetryable == {"CAPTURED", "PENDING", "CAPTURE_REQUESTED", "DECLINED", "CANCELLED"}

(* simpleRetryHandler.maxAttempts. *)
maxAttempts == 3

(* Fault variants of ShouldRetry: the bound is one attempt too late; an    *)
(* answer that is not final yet is asked for again.                        *)
ShouldRetryOnceMore(status, retryCount) ==
    retryCount <= maxAttempts - 1 /\ status \notin NotRetryable

ShouldRetryPending(status, retryCount) ==
    retryCount < maxAttempts - 1 /\ status \notin NotRetryable \ {"PENDING"}

ShouldRetry(status, retryCount) ==
    retryCount < maxAttempts - 1 /\ status \notin NotRetryable

(* HandleCallback keeps every status it knows and turns any other, the     *)
(* empty one included, into FAILED.                                        *)
HandleCallbackStatus(status) ==
    IF status \in NotRetryable THEN status ELSE "FAILED"
=============================================================================
