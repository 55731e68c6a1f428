-------------------------- MODULE PaymentFindings --------------------------
(***************************************************************************)
(* What the payment work package says of the service and the code does not *)
(* do: a webhook that overtakes the transaction of the request it answers  *)
(* is acknowledged as NOT_FOUND and never looked at again, and a refund    *)
(* request that failed after its provider call may never be completed.     *)
(***************************************************************************)
EXTENDS MCPayment

(* A payment row is open only while the provider's confirmation of the     *)
(* full amount is not on record (PENDING: "provider confirmation is        *)
(* incomplete").                                                           *)
OpenIsUnsettled ==
    \A c \in Checkouts : payment[c].status \in Open =>
        ~\E e \in Events : EventRecorded(e) /\ event[e] = PaymentEvent(c, "SUCCEEDED", Amount[c])

(* The caller repeats a refund request until it is answered, and no step   *)
(* of a request fails for ever.                                            *)
Pursues(w, step, r) == At(w, step) /\ <<job[w].checkout, job[w].key>> = r
RetryFairness ==
    /\ \A r \in Refunds :
         /\ SF_vars(\E w \in Workers, a \in RefundAmounts : StartRefund(w, r[2], r[1], a))
         /\ SF_vars(\E w \in Workers : Pursues(w, "load_paid", r) /\ LoadPaid(w))
         /\ SF_vars(\E w \in Workers : Pursues(w, "sum_reserved", r) /\ SumReserved(w))
         /\ SF_vars(\E w \in Workers : Pursues(w, "create_refund", r) /\ CreateRefund(w))
         /\ SF_vars(\E w \in Workers : Pursues(w, "store_refund", r) /\ StoreRefund(w))
    /\ \A w \in Workers : WF_vars(HandlerFails(w))

StoredRetrySpec == StoredInit /\ [][Next]_vars /\ RetryFairness

(* A refund the provider holds is in the end a stored refund, if its       *)
(* request is repeated ("refund idempotency is durable").                  *)
RefundStoredOnRetry ==
    \A r \in Refunds : providerRefund[r] # NoProviderRefund ~> refund[r] # NoRefund
=============================================================================
