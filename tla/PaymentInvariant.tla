-------------------------- MODULE PaymentInvariant --------------------------
(***************************************************************************)
(* The inductive invariant behind the theorems of PaymentProofs: what the  *)
(* provider's events say about the provider, what each handler still knows *)
(* for sure from the reads it made earlier, and how rows may move.         *)
(***************************************************************************)
EXTENDS Payment

(* An emitted event describes its subject: outcomes are final. *)
EventIsTrue(e) ==
    /\ (event[e].kind = "PAYMENT" /\ event[e].status \in Terminal) =>
          /\ intent[event[e].checkout].status = event[e].status
          /\ event[e].status # "SUCCEEDED" => event[e].amount = Amount[event[e].checkout]
    /\ event[e].kind = "REFUND" =>
          /\ providerRefund[event[e].refund].amount = event[e].amount
          /\ providerRefund[event[e].refund].status # "NONE"
          /\ event[e].status # "PENDING" =>
               providerRefund[event[e].refund].status = event[e].status

(* A snapshot carries a version the row has had; with the row's version it *)
(* is the row.                                                             *)
Snapshot(seen, row) == seen.version <= row.version /\ (seen.version = row.version => seen = row)

(* Event e is ignored now, for a reason that no later row changes. *)
StaysIgnored(e) ==
    \/ /\ event[e].kind = "PAYMENT"
       /\ payment[event[e].checkout] # NoPayment
       /\ PaymentVerdict(event[e], payment[event[e].checkout]) # "APPLIED"
    \/ /\ event[e].kind = "REFUND"
       /\ refund[event[e].refund] # NoRefund
       /\ RefundVerdict(event[e], refund[event[e].refund]) # "APPLIED"

(* What a delivery of a payment event knows *)
PaymentDeliveryKnows(w) ==
    /\ job[w].at \in {"load_payment", "apply_payment_event"} =>
          event[job[w].event].kind = "PAYMENT"
    /\ At(w, "apply_payment_event") =>
          /\ PaymentVerdict(event[job[w].event], job[w].seen) = "APPLIED"
          /\ Snapshot(job[w].seen, payment[event[job[w].event].checkout])

(* What a delivery of a refund event knows *)
RefundDeliveryKnows(w) ==
    /\ job[w].at \in {"load_refund", "load_refunded_payment", "apply_refund_event"} =>
          event[job[w].event].kind = "REFUND"
    /\ job[w].at \in {"load_refunded_payment", "apply_refund_event"} =>
          /\ RefundVerdict(event[job[w].event], job[w].seen) = "APPLIED"
          /\ Snapshot(job[w].seen, refund[event[job[w].event].refund])
    /\ At(w, "apply_refund_event") =>
          Snapshot(job[w].paid, payment[event[job[w].event].refund[1]])

(* What a delivery about to be ignored knows *)
IgnoringKnows(w) ==
    At(w, "ignore_event") =>
        /\ event[job[w].event] # NoEvent
        /\ job[w].why \notin NotFound => StaysIgnored(job[w].event)

(* What initiation, refund and reconciliation requests know *)
RequestKnows(w) ==
    /\ At(w, "store_payment") => intent[job[w].checkout] # NoIntent
    /\ job[w].at \in {"sum_reserved", "create_refund", "store_refund"} =>
          payment[job[w].checkout].status = "SUCCEEDED"
    /\ At(w, "store_refund") =>
          /\ providerRefund[<<job[w].checkout, job[w].key>>].status # "NONE"
          /\ providerRefund[<<job[w].checkout, job[w].key>>].amount = job[w].amount
    /\ At(w, "retrieve_payment") =>
          /\ payment[job[w].checkout] # NoPayment
          /\ job[w].local \in Terminal => payment[job[w].checkout].status = job[w].local

HandlerKnows(w) ==
    PaymentDeliveryKnows(w) /\ RefundDeliveryKnows(w) /\ IgnoringKnows(w) /\ RequestKnows(w)

(* What the receipts on record know *)
ReceiptKnows(e) ==
    /\ EventRecorded(e) => event[e] # NoEvent
    /\ receipt[e] \in IgnoredReasons \ NotFound => StaysIgnored(e)

Knowledge ==
    /\ \A e \in Events : EventIsTrue(e) /\ ReceiptKnows(e)
    /\ \A w \in Workers : HandlerKnows(w)
    /\ \A c \in Checkouts : payment[c] # NoPayment => intent[c] # NoIntent

(* The inductive invariant: types, what is known from earlier reads, and   *)
(* the safety properties whose proofs lean on one another.                 *)
IInv ==
    /\ TypeOK
    /\ Knowledge
    /\ TerminalIsVerified
    /\ RefundIsTheProviders
    /\ MatchIsFinal

-----------------------------------------------------------------------------
(* How a step may move a row *)

PaymentMoves(old, new) ==
    \/ new = old
    \/ old = NoPayment /\ new # NoPayment /\ new.status \in Open
    \/ /\ old # NoPayment
       /\ new.version = old.version + 1
       /\ ForwardTransition(old.status, new.status)
       /\ old.refunded <= new.refunded

RefundMoves(old, new) ==
    \/ new = old
    \/ old = NoRefund /\ new # NoRefund /\ new.status = "PENDING"
    \/ /\ old.status = "PENDING"
       /\ new.version = old.version + 1
       /\ new.amount = old.amount
       /\ new.status # "PENDING"

IntentMoves(old, new) ==
    \/ old = NoIntent
    \/ new # NoIntent /\ (old.status \in Terminal => new.status = old.status)

ProviderRefundMoves(old, new) ==
    \/ old = NoProviderRefund
    \/ /\ new.status # "NONE"
       /\ new.amount = old.amount
       /\ old.status # "PENDING" => new.status = old.status

Moves ==
    /\ \A c \in Checkouts : PaymentMoves(payment[c], payment'[c]) /\ IntentMoves(intent[c], intent'[c])
    /\ \A r \in Refunds : /\ RefundMoves(refund[r], refund'[r])
                          /\ ProviderRefundMoves(providerRefund[r], providerRefund'[r])
    /\ \A e \in Events : /\ event[e] # NoEvent => event'[e] = event[e]
                         /\ EventRecorded(e) => receipt'[e] = receipt[e]
=============================================================================
