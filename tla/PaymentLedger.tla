--------------------------- MODULE PaymentLedger ---------------------------
(***************************************************************************)
(* What the payment service promises, without handlers, versions, receipts *)
(* or a provider: one payment per checkout that only moves forward to one  *)
(* final outcome, and refunds that reserve their amount atomically, settle *)
(* once and are counted once.  Payment implements it (Payment!Ledger).     *)
(***************************************************************************)
EXTENDS Integers, Money

CONSTANTS Checkouts, RefundKeys, Amount, RefundAmounts

VARIABLES
    status,   \* status[c] of the payment of checkout c, "NONE" before there is one
    refunded, \* refunded[c]: minor units returned to the customer
    hold      \* hold[<<c, k>>]: the refund asked for under key k, and its fate

ledger == <<status, refunded, hold>>

Refunds == Checkouts \X RefundKeys
NoHold  == [status |-> "NONE", amount |-> 0]

(* How far a status is from the customer's order to the final outcome. *)
Rank(s) == CASE s = "PENDING" -> 0
             [] s = "REQUIRES_ACTION" -> 1
             [] s = "PROCESSING" -> 2
             [] s \in {"SUCCEEDED", "FAILED", "CANCELLED"} -> 3

Held(c) == TotalOf([r \in Refunds |-> hold[r].amount],
                   {r \in Refunds : r[1] = c /\ hold[r].status \in {"PENDING", "SUCCEEDED"}})

Init ==
    /\ status = [c \in Checkouts |-> "NONE"]
    /\ refunded = [c \in Checkouts |-> 0]
    /\ hold = [r \in Refunds |-> NoHold]

OpenPayment(c, s) ==
    /\ status[c] = "NONE"
    /\ s \in {"PENDING", "REQUIRES_ACTION", "PROCESSING"}
    /\ status' = [status EXCEPT ![c] = s]
    /\ UNCHANGED <<refunded, hold>>

Advance(c, s) ==
    /\ status[c] \in {"PENDING", "REQUIRES_ACTION", "PROCESSING"}
    /\ Rank(s) > Rank(status[c])
    /\ status' = [status EXCEPT ![c] = s]
    /\ UNCHANGED <<refunded, hold>>

Reserve(c, k, a) ==
    /\ status[c] = "SUCCEEDED"
    /\ \A d \in Checkouts : hold[<<d, k>>] = NoHold
    /\ Held(c) + a <= Amount[c]
    /\ hold' = [hold EXCEPT ![<<c, k>>] = [status |-> "PENDING", amount |-> a]]
    /\ UNCHANGED <<status, refunded>>

PayBack(r) ==
    /\ hold[r].status = "PENDING"
    /\ hold' = [hold EXCEPT ![r].status = "SUCCEEDED"]
    /\ refunded' = [refunded EXCEPT ![r[1]] = @ + hold[r].amount]
    /\ UNCHANGED status

Release(r) ==
    /\ hold[r].status = "PENDING"
    /\ hold' = [hold EXCEPT ![r].status = "FAILED"]
    /\ UNCHANGED <<status, refunded>>

Next ==
    \/ \E c \in Checkouts, s \in {"PENDING", "REQUIRES_ACTION", "PROCESSING",
                                  "SUCCEEDED", "FAILED", "CANCELLED"} :
          OpenPayment(c, s) \/ Advance(c, s)
    \/ \E c \in Checkouts, k \in RefundKeys, a \in RefundAmounts : Reserve(c, k, a)
    \/ \E r \in Refunds : PayBack(r) \/ Release(r)

Spec == Init /\ [][Next]_ledger
=============================================================================
