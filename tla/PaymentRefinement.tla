------------------------- MODULE PaymentRefinement -------------------------
(***************************************************************************)
(* The payment service implements its ledger, loses no update, and its     *)
(* sums of refunds add up.                                                 *)
(***************************************************************************)
EXTENDS PaymentSafety, FiniteSetTheorems

USE DEF At, Goto

(* Storing a payment opens the ledger's. *)
LEMMA StoreOpens ==
    ASSUME TypeOK, NEW w \in Workers, StorePayment(w)
    PROVE  Ledger!OpenPayment(job[w].checkout, job[w].status)
<1> DEFINE c == job[w].checkout
<1>1. c \in Checkouts /\ job[w].status \in Open
  BY JobRecords DEF StorePayment
<1>2. /\ payment[c] = NoPayment /\ UNCHANGED refund
      /\ payment' = [payment EXCEPT ![c] =
                       [status |-> job[w].status, version |-> 1, refunded |-> 0]]
  BY DEF StorePayment
<1>3. StatusView' = [StatusView EXCEPT ![c] = job[w].status]
  BY <1>1, <1>2 DEF StatusView, TypeOK
<1>4. RefundedView' = RefundedView
  BY <1>1, <1>2 DEF RefundedView, TypeOK, NoPayment
<1>5. HoldView' = HoldView
  BY <1>2 DEF HoldView
<1>6. StatusView[c] = "NONE"
  BY <1>1, <1>2 DEF StatusView, NoPayment
<1> QED
  BY <1>1, <1>3, <1>4, <1>5, <1>6 DEF Ledger!OpenPayment, Open

(* Applying a payment event advances the ledger's payment or leaves it alone. *)
LEMMA ApplyAdvances ==
    ASSUME TypeOK, Knowledge, NEW w \in Workers, ApplyPaymentEvent(w)
    PROVE  \/ Ledger!Advance(event[job[w].event].checkout, event[job[w].event].status)
           \/ UNCHANGED Ledger!ledger
<1> DEFINE e == job[w].event
           c == event[e].checkout
           s == event[e].status
<1>1. /\ e \in Events /\ event[e] \in PaymentEvents /\ job[w].seen \in PaymentRow
      /\ PaymentVerdict(event[e], job[w].seen) = "APPLIED"
      /\ Snapshot(job[w].seen, payment[c])
  BY JobRecords, EventRecords DEF ApplyPaymentEvent, Knowledge, HandlerKnows, PaymentDeliveryKnows
<1>2. c \in Checkouts /\ job[w].seen = payment[c] /\ s \in Statuses
  BY <1>1 DEF ApplyPaymentEvent, PaymentVersionHolds, Snapshot, PaymentEvents
<1>3. ForwardTransition(payment[c].status, s)
  BY <1>1, <1>2 DEF PaymentVerdict
<1>4. /\ UNCHANGED refund
      /\ payment' = [payment EXCEPT ![c] = [status |-> s, version |-> payment[c].version + 1,
                                           refunded |-> payment[c].refunded]]
  BY <1>2 DEF ApplyPaymentEvent
<1>5. StatusView' = [StatusView EXCEPT ![c] = s]
  BY <1>2, <1>4 DEF StatusView, TypeOK
<1>6. RefundedView' = RefundedView
  BY <1>2, <1>4 DEF RefundedView, TypeOK
<1>7. HoldView' = HoldView
  BY <1>4 DEF HoldView
<1>8. CASE s = payment[c].status
  <2>1. StatusView' = StatusView
    BY <1>2, <1>5, <1>8 DEF StatusView
  <2> QED
    BY <1>6, <1>7, <2>1 DEF Ledger!ledger
<1>9. CASE s # payment[c].status
  <2>1. payment[c].status \in Open
    BY <1>1, <1>2, <1>3, <1>9 DEF ForwardTransition, Open
  <2>2. Ledger!Rank(s) > Ledger!Rank(payment[c].status)
    BY <1>2, <1>3, <1>9, <2>1 DEF ForwardTransition, Ledger!Rank, Statuses, Open, Terminal
  <2>3. StatusView[c] = payment[c].status
    BY <1>2 DEF StatusView
  <2> HIDE DEF c, s
  <2> QED
    BY <1>5, <1>6, <1>7, <2>1, <2>2, <2>3
       DEF Ledger!Advance, Open, c, s
<1> QED
  BY <1>8, <1>9

(* The ledger adds up as the service does. *)
LEMMA SameSum ==
    ASSUME NEW f, NEW S
    PROVE  Ledger!TotalOf(f, S) = TotalOf(f, S)
  BY DEF TotalOf, Units, Cardinality, Ledger!TotalOf, Ledger!Units, Ledger!Cardinality

(* Storing a refund reserves its amount in the ledger. *)
LEMMA StoreReserves ==
    ASSUME TypeOK, NEW w \in Workers, StoreRefund(w)
    PROVE  Ledger!Reserve(job[w].checkout, job[w].key, job[w].amount)
<1> DEFINE c == job[w].checkout
           k == job[w].key
           a == job[w].amount
           r == <<c, k>>
<1>1. c \in Checkouts /\ k \in RefundKeys /\ a \in RefundAmounts /\ r \in Refunds
  BY JobRecords DEF StoreRefund, Refunds
<1>2. /\ payment[c].status = "SUCCEEDED" /\ WithinPayment(c, a) /\ ~RefundKeyUsed(k)
      /\ UNCHANGED payment
      /\ refund' = [refund EXCEPT ![r] = [status |-> "PENDING", version |-> 1, amount |-> a]]
  BY DEF StoreRefund
<1>3. HoldView' = [HoldView EXCEPT ![r] = [status |-> "PENDING", amount |-> a]]
  BY <1>1, <1>2 DEF HoldView, TypeOK
<1>4. \A d \in Checkouts : HoldView[<<d, k>>] = [status |-> "NONE", amount |-> 0]
  <2> SUFFICES ASSUME NEW d \in Checkouts
               PROVE  HoldView[<<d, k>>] = [status |-> "NONE", amount |-> 0]
    OBVIOUS
  <2>1. <<d, k>> \in Refunds /\ refund[<<d, k>>] = NoRefund
    BY <1>1, <1>2 DEF RefundKeyUsed, Refunds
  <2> QED
    BY <2>1 DEF HoldView, NoRefund
<1>5. StatusView[c] = "SUCCEEDED" /\ StatusView' = StatusView /\ RefundedView' = RefundedView
  BY <1>1, <1>2 DEF StatusView, RefundedView
<1>6. Ledger!Held(c) + a <= Amount[c]
  <2>1. [q \in Refunds |-> HoldView[q].amount] = [q \in Refunds |-> refund[q].amount]
    BY DEF HoldView
  <2>2. {q \in Refunds : q[1] = c /\ HoldView[q].status \in {"PENDING", "SUCCEEDED"}}
          = {q \in Refunds : q[1] = c /\ Reserves(q)}
    BY DEF HoldView, Reserves
  <2> QED
    BY <1>2, <2>1, <2>2, SameSum DEF WithinPayment, Reserved, Ledger!Held, Ledger!Refunds, Refunds
<1> HIDE DEF c, k, a
<1>7. Ledger!Reserve(c, k, a)
  BY <1>3, <1>4, <1>5, <1>6 DEF Ledger!Reserve, Ledger!NoHold
<1> QED
  BY <1>7 DEF c, k, a

(* Applying a refund event pays the refund back or releases it. *)
LEMMA ApplySettles ==
    ASSUME TypeOK, Knowledge, NEW w \in Workers, ApplyRefundEvent(w)
    PROVE  \E r \in Refunds : Ledger!PayBack(r) \/ Ledger!Release(r)
<1> DEFINE e == job[w].event
           s == event[e].status
<1>0. PICK r \in Refunds : r = event[e].refund
  BY JobRecords, EventRecords
     DEF ApplyRefundEvent, Knowledge, HandlerKnows, RefundDeliveryKnows, RefundEvents
<1>1. /\ e \in Events /\ event[e] \in RefundEvents /\ job[w].seen \in RefundRow
      /\ job[w].paid \in PaymentRow
      /\ RefundVerdict(event[e], job[w].seen) = "APPLIED"
      /\ Snapshot(job[w].seen, refund[r])
      /\ Snapshot(job[w].paid, payment[r[1]])
  BY <1>0, JobRecords, EventRecords DEF ApplyRefundEvent, Knowledge, HandlerKnows, RefundDeliveryKnows
<1>2. /\ r \in Refunds /\ r[1] \in Checkouts /\ s \in RefundStatuses
      /\ job[w].seen = refund[r]
  BY <1>0, <1>1, RefundPairs DEF ApplyRefundEvent, RefundVersionHolds, Snapshot, RefundEvents
<1>3. refund[r].status = "PENDING" /\ s # "PENDING"
  BY <1>1, <1>2 DEF RefundVerdict
<1>4. refund' = [refund EXCEPT ![r] = [status |-> s, version |-> refund[r].version + 1,
                                       amount |-> refund[r].amount]]
  BY <1>0, <1>2 DEF ApplyRefundEvent
<1>5. HoldView' = [HoldView EXCEPT ![r].status = s]
  BY <1>2, <1>4 DEF HoldView, TypeOK
<1>6. HoldView[r].status = "PENDING" /\ HoldView[r].amount = refund[r].amount
  BY <1>2, <1>3 DEF HoldView
<1>7. CASE s = "SUCCEEDED"
  <2>1. /\ PaymentVersionHolds(r[1], job[w].paid)
        /\ payment' = [payment EXCEPT ![r[1]] =
             [status |-> job[w].paid.status, version |-> job[w].paid.version + 1,
              refunded |-> job[w].paid.refunded + job[w].seen.amount]]
    BY <1>0, <1>7 DEF ApplyRefundEvent
  <2>2. job[w].paid = payment[r[1]]
    BY <1>1, <2>1 DEF PaymentVersionHolds, Snapshot
  <2>3. StatusView' = StatusView
    BY <1>2, <2>1, <2>2 DEF StatusView, TypeOK
  <2>4. RefundedView' = [RefundedView EXCEPT ![r[1]] = payment[r[1]].refunded + refund[r].amount]
    BY <1>2, <2>1, <2>2 DEF RefundedView, TypeOK
  <2>5. RefundedView[r[1]] = payment[r[1]].refunded
    BY <1>2 DEF RefundedView
  <2>6. RefundedView' = [RefundedView EXCEPT ![r[1]] = RefundedView[r[1]] + HoldView[r].amount]
    BY <1>6, <2>4, <2>5
  <2> QED
    BY <1>5, <1>6, <1>7, <2>3, <2>6
       DEF Ledger!PayBack
<1>8. CASE s # "SUCCEEDED"
  <2>1. s = "FAILED" /\ UNCHANGED payment
    BY <1>2, <1>3, <1>8 DEF ApplyRefundEvent, RefundStatuses
  <2>2. StatusView' = StatusView /\ RefundedView' = RefundedView
    BY <2>1 DEF StatusView, RefundedView
  <2> QED
    BY <1>5, <1>6, <2>1, <2>2 DEF Ledger!Release
<1> QED
  BY <1>7, <1>8

(* Every step of the service is a step of the ledger or leaves it alone. *)
LEMMA LedgerStep ==
    ASSUME TypeOK, Knowledge, [Next]_vars
    PROVE  [Ledger!Next]_(Ledger!ledger)
<1>1. ASSUME NEW w \in Workers, StorePayment(w) PROVE Ledger!Next
  <2>1. /\ job[w].checkout \in Checkouts
        /\ job[w].status \in {"PENDING", "REQUIRES_ACTION", "PROCESSING",
                              "SUCCEEDED", "FAILED", "CANCELLED"}
    BY <1>1, JobRecords DEF StorePayment, Open
  <2>2. Ledger!OpenPayment(job[w].checkout, job[w].status)
    BY <1>1, StoreOpens
  <2> QED
    BY <2>1, <2>2 DEF Ledger!Next
<1>2. ASSUME NEW w \in Workers, ApplyPaymentEvent(w) PROVE [Ledger!Next]_(Ledger!ledger)
  <2> DEFINE e == job[w].event
  <2>1. /\ event[e].checkout \in Checkouts
        /\ event[e].status \in {"PENDING", "REQUIRES_ACTION", "PROCESSING",
                                "SUCCEEDED", "FAILED", "CANCELLED"}
    <3>1. event[e] \in PaymentEvents
      BY <1>2, AppliedPaymentEvent
    <3> QED
      BY <3>1 DEF PaymentEvents, Statuses, Open, Terminal
  <2>2. \/ Ledger!Advance(event[e].checkout, event[e].status)
        \/ UNCHANGED Ledger!ledger
    BY <1>2, ApplyAdvances
  <2> HIDE DEF e
  <2> QED
    BY <2>1, <2>2 DEF Ledger!Next
<1>3. ASSUME NEW w \in Workers, StoreRefund(w) PROVE Ledger!Next
  <2>1. /\ job[w].checkout \in Checkouts /\ job[w].key \in RefundKeys
        /\ job[w].amount \in RefundAmounts
    BY <1>3, JobRecords DEF StoreRefund
  <2>2. Ledger!Reserve(job[w].checkout, job[w].key, job[w].amount)
    BY <1>3, StoreReserves
  <2> QED
    BY <2>1, <2>2 DEF Ledger!Next
<1>4. ASSUME NEW w \in Workers, ApplyRefundEvent(w) PROVE Ledger!Next
  BY <1>4, ApplySettles DEF Ledger!Next, Ledger!Refunds, Refunds
<1>5. CASE UNCHANGED <<payment, refund>>
  BY <1>5 DEF Ledger!ledger, StatusView, RefundedView, HoldView
<1> QED
  BY <1>1, <1>2, <1>3, <1>4, <1>5, Writers

(* The initial state is the ledger's. *)
LEMMA LedgerInit == Init => Ledger!Init
  BY DEF Init, Ledger!Init, Ledger!NoHold, Ledger!Refunds, Refunds, NoPayment, NoRefund,
         StatusView, RefundedView, HoldView

(***************************************************************************)
(* The service implements the ledger: whatever its handlers read, and      *)
(* when, each committed write is a ledger move on the rows as they are.    *)
(***************************************************************************)
THEOREM LedgerImplemented == Spec => ImplementsLedger
<1>1. Init => Ledger!Init
  BY LedgerInit
<1>2. IInv /\ [Next]_vars => [Ledger!Next]_(Ledger!ledger)
  BY LedgerStep DEF IInv
<1> QED
  BY <1>1, <1>2, Invariance, PTL DEF Spec, ImplementsLedger, Ledger!Spec

-----------------------------------------------------------------------------
Counted ==
    \A c \in Checkouts :
        /\ IsFiniteSet(AppliedTo(c))
        /\ payment[c] = NoPayment => AppliedTo(c) = {}
        /\ payment[c] # NoPayment => payment[c].version = 1 + Cardinality(AppliedTo(c))

(* A step that writes no payment row applies nothing to a payment. *)
LEMMA AppliedSame ==
    ASSUME Knowledge, Moves, UNCHANGED receipt, NEW c \in Checkouts
    PROVE  AppliedTo(c)' = AppliedTo(c)
<1> SUFFICES ASSUME NEW e \in Events, receipt[e] = "APPLIED"
             PROVE  event'[e] = event[e]
  BY DEF AppliedTo
<1> QED
  BY DEF Knowledge, ReceiptKnows, EventRecorded, Moves

(* Applied receipts and payment versions are counted together. *)
LEMMA CountedStep ==
    ASSUME TypeOK, TypeOK', Knowledge, Moves, Next, Counted
    PROVE  Counted'
<1> SUFFICES ASSUME NEW c \in Checkouts
             PROVE  /\ IsFiniteSet(AppliedTo(c)')
                    /\ payment'[c] = NoPayment => AppliedTo(c)' = {}
                    /\ payment'[c] # NoPayment =>
                         payment'[c].version = 1 + Cardinality(AppliedTo(c)')
  BY DEF Counted
<1>0. /\ IsFiniteSet(AppliedTo(c))
      /\ payment[c] = NoPayment => AppliedTo(c) = {}
      /\ payment[c] # NoPayment => payment[c].version = 1 + Cardinality(AppliedTo(c))
  BY DEF Counted
<1>1. CASE UNCHANGED <<payment, receipt>>
  BY <1>0, <1>1, AppliedSame
<1>2. ASSUME NEW w \in Workers, StorePayment(w)
      PROVE  /\ IsFiniteSet(AppliedTo(c)')
             /\ payment'[c] = NoPayment => AppliedTo(c)' = {}
             /\ payment'[c] # NoPayment => payment'[c].version = 1 + Cardinality(AppliedTo(c)')
  <2>1. AppliedTo(c)' = AppliedTo(c)
    BY <1>2, AppliedSame DEF StorePayment
  <2>2. CASE c = job[w].checkout
    <3>1. payment[c] = NoPayment /\ payment'[c].version = 1 /\ payment'[c] # NoPayment
      BY <1>2, <2>2 DEF StorePayment, TypeOK, NoPayment
    <3> QED
      BY <1>0, <2>1, <3>1, FS_EmptySet
  <2>3. CASE c # job[w].checkout
    <3>1. payment'[c] = payment[c]
      BY <1>2, <2>3 DEF StorePayment, TypeOK
    <3> QED
      BY <1>0, <2>1, <3>1
  <2> QED
    BY <2>2, <2>3
<1>3. ASSUME NEW e \in Events,
             ~EventRecorded(e), event' = event, payment[c] # NoPayment,
             receipt' = [receipt EXCEPT ![e] = "APPLIED"],
             \/ event[e].kind = "PAYMENT" /\ event[e].checkout = c
             \/ event[e].kind = "REFUND" /\ event[e].refund[1] = c /\ event[e].status = "SUCCEEDED",
             payment'[c] # NoPayment, payment'[c].version = payment[c].version + 1
      PROVE  /\ IsFiniteSet(AppliedTo(c)')
             /\ payment'[c].version = 1 + Cardinality(AppliedTo(c)')
  <2>1. AppliedTo(c)' = AppliedTo(c) \cup {e}
    BY <1>3 DEF AppliedTo, TypeOK
  <2>2. e \notin AppliedTo(c)
    BY <1>3 DEF AppliedTo, EventRecorded
  <2>3. /\ IsFiniteSet(AppliedTo(c)')
        /\ Cardinality(AppliedTo(c)') = Cardinality(AppliedTo(c)) + 1
    BY <1>0, <2>1, <2>2, FS_AddElement
  <2>4. Cardinality(AppliedTo(c)) \in Nat
    BY <1>0, FS_CardinalityType
  <2> QED
    BY <1>0, <1>3, <2>3, <2>4
<1>4. ASSUME NEW w \in Workers, ApplyPaymentEvent(w)
      PROVE  /\ IsFiniteSet(AppliedTo(c)')
             /\ payment'[c] = NoPayment => AppliedTo(c)' = {}
             /\ payment'[c] # NoPayment => payment'[c].version = 1 + Cardinality(AppliedTo(c)')
  <2>0. PICK e \in Events : e = job[w].event
    BY <1>4, JobRecords DEF ApplyPaymentEvent
  <2>1. /\ event[e] \in PaymentEvents /\ event[e].kind = "PAYMENT"
        /\ job[w].seen \in PaymentRow
        /\ Snapshot(job[w].seen, payment[event[e].checkout])
    BY <1>4, <2>0, JobRecords, EventRecords
       DEF ApplyPaymentEvent, Knowledge, HandlerKnows, PaymentDeliveryKnows
  <2>2. /\ ~EventRecorded(e) /\ UNCHANGED event
        /\ job[w].seen = payment[event[e].checkout]
        /\ receipt' = [receipt EXCEPT ![e] = "APPLIED"]
        /\ payment' = [payment EXCEPT ![event[e].checkout] =
                         [status |-> event[e].status, version |-> job[w].seen.version + 1,
                          refunded |-> job[w].seen.refunded]]
    BY <1>4, <2>0, <2>1 DEF ApplyPaymentEvent, PaymentVersionHolds, Snapshot, provider
  <2>3. CASE c = event[e].checkout
    <3>1. /\ payment[c] # NoPayment /\ payment'[c] # NoPayment
          /\ payment'[c].version = payment[c].version + 1
      BY <2>1, <2>2, <2>3 DEF PaymentRow, NoPayment, PaymentEvents, TypeOK, Statuses, Open, Terminal
    <3> QED
      BY <1>3, <2>1, <2>2, <2>3, <3>1
  <2>4. CASE c # event[e].checkout
    <3>1. payment'[c] = payment[c]
      BY <2>2, <2>4 DEF TypeOK
    <3>2. AppliedTo(c)' = AppliedTo(c)
      BY <2>1, <2>2, <2>4 DEF AppliedTo, TypeOK, EventRecorded
    <3> QED
      BY <1>0, <3>1, <3>2
  <2> QED
    BY <2>3, <2>4
<1>5. ASSUME NEW w \in Workers, ApplyRefundEvent(w)
      PROVE  /\ IsFiniteSet(AppliedTo(c)')
             /\ payment'[c] = NoPayment => AppliedTo(c)' = {}
             /\ payment'[c] # NoPayment => payment'[c].version = 1 + Cardinality(AppliedTo(c)')
  <2>0. PICK e \in Events : e = job[w].event
    BY <1>5, JobRecords DEF ApplyRefundEvent
  <2>1. /\ event[e] \in RefundEvents /\ event[e].kind = "REFUND"
        /\ job[w].paid \in PaymentRow
        /\ Snapshot(job[w].paid, payment[event[e].refund[1]])
    BY <1>5, <2>0, JobRecords, EventRecords
       DEF ApplyRefundEvent, Knowledge, HandlerKnows, RefundDeliveryKnows
  <2>2. ~EventRecorded(e) /\ UNCHANGED event /\ receipt' = [receipt EXCEPT ![e] = "APPLIED"]
    BY <1>5, <2>0 DEF ApplyRefundEvent, provider
  <2>3. CASE c = event[e].refund[1] /\ event[e].status = "SUCCEEDED"
    <3>1. /\ PaymentVersionHolds(c, job[w].paid)
          /\ payment' = [payment EXCEPT ![c] =
               [status |-> job[w].paid.status, version |-> job[w].paid.version + 1,
                refunded |-> job[w].paid.refunded + job[w].seen.amount]]
      BY <1>5, <2>0, <2>3 DEF ApplyRefundEvent
    <3>2. job[w].paid = payment[c]
      BY <2>1, <2>3, <3>1 DEF PaymentVersionHolds, Snapshot
    <3>3. payment[c] # NoPayment /\ payment[c] \in PaymentRow
      BY <2>1, <3>2 DEF PaymentRow, NoPayment
    <3>4. payment'[c].version = payment[c].version + 1 /\ payment'[c].status = payment[c].status
      BY <3>1, <3>2 DEF TypeOK
    <3>5. payment'[c] # NoPayment
      BY <3>3, <3>4 DEF PaymentRow, NoPayment, Statuses, Open, Terminal
    <3> QED
      BY <1>3, <2>1, <2>2, <2>3, <3>3, <3>4, <3>5
  <2>4. CASE ~(c = event[e].refund[1] /\ event[e].status = "SUCCEEDED")
    <3>1. payment'[c] = payment[c]
      BY <1>5, <2>0, <2>1, <2>4 DEF ApplyRefundEvent, TypeOK
    <3>2. AppliedTo(c)' = AppliedTo(c)
      BY <2>1, <2>2, <2>4 DEF AppliedTo, TypeOK, EventRecorded
    <3> QED
      BY <1>0, <3>1, <3>2
  <2> QED
    BY <2>3, <2>4
<1>6. ASSUME NEW w \in Workers, IgnoreEvent(w)
      PROVE  AppliedTo(c)' = AppliedTo(c) /\ payment' = payment
  <2>1. job[w].why # "APPLIED"
    BY <1>6, JobRecords DEF IgnoreEvent, IgnoredReasons, NotFound
  <2> QED
    BY <1>6, <2>1 DEF IgnoreEvent, AppliedTo, TypeOK, EventRecorded, provider
<1> QED
  BY <1>0, <1>1, <1>2, <1>4, <1>5, <1>6, Writers

(***************************************************************************)
(* No update of a payment is lost: its version is one more than the number *)
(* of events applied to it, for any number of concurrent handlers.         *)
(***************************************************************************)
THEOREM NoUpdateIsLost == Spec => []NoLostUpdate
<1>1. Init => Counted
  BY FS_EmptySet DEF Init, Counted, AppliedTo
<1>2. IInv /\ IInv' /\ Counted /\ [Next]_vars => Counted'
  <2> SUFFICES ASSUME IInv, IInv', Counted, [Next]_vars PROVE Counted'
    OBVIOUS
  <2>1. CASE Next
    BY <2>1, CountedStep, StepMoves DEF IInv
  <2>2. CASE UNCHANGED vars
    <3>1. \A c \in Checkouts : AppliedTo(c)' = AppliedTo(c) /\ payment'[c] = payment[c]
      BY <2>2 DEF vars, tables, provider, AppliedTo
    <3> QED
      BY <3>1 DEF Counted
  <2> QED
    BY <2>1, <2>2
<1>3. Counted => NoLostUpdate
  BY DEF Counted, NoLostUpdate
<1> QED
  BY <1>1, <1>2, <1>3, Invariance, PTL DEF Spec

-----------------------------------------------------------------------------
(* Money: what becomes of a total when a row joins, leaves or settles. *)

(* A total has as many units as its amounts say. *)
LEMMA TotalAdds ==
    ASSUME NEW f, NEW S, NEW x, x \notin S, f[x] \in Nat, IsFiniteSet(Units(f, S))
    PROVE  /\ IsFiniteSet(Units(f, S \cup {x}))
           /\ TotalOf(f, S \cup {x}) = TotalOf(f, S) + f[x]
<1> DEFINE U == Units(f, S)
           V == {x} \X (1..f[x])
<1>1. Units(f, S \cup {x}) = U \cup V
  BY DEF Units
<1>2. U \cap V = {}
  BY DEF Units
<1>3. IsFiniteSet(V) /\ Cardinality(V) = f[x]
  <2>1. IsFiniteSet({x}) /\ Cardinality({x}) = 1
    BY FS_Singleton
  <2>2. IsFiniteSet(1..f[x]) /\ Cardinality(1..f[x]) = f[x]
    BY FS_Interval
  <2>3. IsFiniteSet(V) /\ Cardinality(V) = Cardinality({x}) * Cardinality(1..f[x])
    BY <2>1, <2>2, FS_Product
  <2>4. 1 * f[x] = f[x]
    OBVIOUS
  <2> QED
    BY <2>1, <2>2, <2>3, <2>4
<1>4. IsFiniteSet(U)
  OBVIOUS
<1> HIDE DEF U, V
<1>5. IsFiniteSet(U \cup V) /\ Cardinality(U \cup V) = Cardinality(U) + f[x]
  <2>1. /\ IsFiniteSet(U \cup V)
        /\ Cardinality(U \cup V) = Cardinality(U) + Cardinality(V) - Cardinality(U \cap V)
    BY <1>3, <1>4, FS_Union
  <2>2. Cardinality(U \cap V) = 0 /\ Cardinality(U) \in Nat
    BY <1>2, <1>4, FS_EmptySet, FS_CardinalityType
  <2> QED
    BY <1>3, <2>1, <2>2
<1>6. TotalOf(f, S) = Cardinality(U) /\ TotalOf(f, S \cup {x}) = Cardinality(U \cup V)
  BY <1>1 DEF TotalOf, U
<1> QED
  BY <1>1, <1>5, <1>6

(* Fewer rows have no larger total. *)
LEMMA TotalShrinks ==
    ASSUME NEW f, NEW S, NEW T, T \subseteq S, IsFiniteSet(Units(f, S))
    PROVE  /\ IsFiniteSet(Units(f, T))
           /\ TotalOf(f, T) \in Nat /\ TotalOf(f, S) \in Nat
           /\ TotalOf(f, T) <= TotalOf(f, S)
<1>1. Units(f, T) \in SUBSET Units(f, S)
  BY DEF Units
<1> QED
  BY <1>1, FS_Subset, FS_CardinalityType DEF TotalOf

(* Only the amounts of the rows that are added matter. *)
LEMMA TotalSame ==
    ASSUME NEW f, NEW g, NEW S, \A x \in S : f[x] = g[x]
    PROVE  Units(f, S) = Units(g, S) /\ TotalOf(f, S) = TotalOf(g, S)
<1>1. Units(f, S) = Units(g, S)
  BY DEF Units
<1> QED
  BY <1>1 DEF TotalOf

Amounts     == [r \in Refunds |-> refund[r].amount]
Holding(c)  == {r \in Refunds : r[1] = c /\ refund[r].status \in {"PENDING", "SUCCEEDED"}}
Returned(c) == {r \in Refunds : r[1] = c /\ refund[r].status \in {"SUCCEEDED"}}

(* The sums of a payment: what its refunds hold is finite and fits, and the *)
(* cached total is what they returned.                                      *)
AddsUp(c) ==
    /\ IsFiniteSet(Units(Amounts, Holding(c)))
    /\ TotalOf(Amounts, Holding(c)) <= Amount[c]
    /\ payment[c].refunded = TotalOf(Amounts, Returned(c))

MoneyInv == \A c \in Checkouts : AddsUp(c)

(* The primed sums, spelled out. *)
LEMMA SumsPrimed ==
    ASSUME NEW c \in Checkouts
    PROVE  /\ (Units(Amounts, Holding(c)))' = Units(Amounts', Holding(c)')
           /\ (TotalOf(Amounts, Holding(c)))' = TotalOf(Amounts', Holding(c)')
           /\ (TotalOf(Amounts, Returned(c)))' = TotalOf(Amounts', Returned(c)')
  BY DEF Units, TotalOf

(* A step that leaves the refunds and the cached total leaves the sums. *)
LEMMA AddsUpSame ==
    ASSUME NEW c \in Checkouts, AddsUp(c),
           payment'[c].refunded = payment[c].refunded,
           \A r \in Refunds : r[1] = c => refund'[r] = refund[r]
    PROVE  AddsUp(c)'
<1>1. Holding(c)' = Holding(c) /\ Returned(c)' = Returned(c)
  BY DEF Holding, Returned
<1>2. \A r \in Holding(c) : Amounts'[r] = Amounts[r]
  BY DEF Holding, Amounts
<1>3. \A r \in Returned(c) : Amounts'[r] = Amounts[r]
  BY DEF Returned, Amounts
<1>4. /\ Units(Amounts', Holding(c)) = Units(Amounts, Holding(c))
      /\ TotalOf(Amounts', Holding(c)) = TotalOf(Amounts, Holding(c))
      /\ TotalOf(Amounts', Returned(c)) = TotalOf(Amounts, Returned(c))
  <2> HIDE DEF Amounts, Holding, Returned
  <2>1. /\ Units(Amounts', Holding(c)) = Units(Amounts, Holding(c))
        /\ TotalOf(Amounts', Holding(c)) = TotalOf(Amounts, Holding(c))
    BY <1>2, TotalSame
  <2>2. TotalOf(Amounts', Returned(c)) = TotalOf(Amounts, Returned(c))
    BY <1>3, TotalSame
  <2> QED
    BY <2>1, <2>2
<1> QED
  BY <1>1, <1>4, SumsPrimed DEF AddsUp

(* Another refund within the amount reserves what it asks for. *)
LEMMA AddsUpReserving ==
    ASSUME TypeOK, NEW c \in Checkouts, AddsUp(c), NEW r \in Refunds, r[1] = c,
           refund[r] = NoRefund, NEW a \in Nat, WithinPayment(c, a),
           refund' = [refund EXCEPT ![r] = [status |-> "PENDING", version |-> 1, amount |-> a]],
           payment'[c].refunded = payment[c].refunded
    PROVE  AddsUp(c)'
<1> DEFINE F == Amounts
           G == Amounts'
           H == Holding(c)
           R == Returned(c)
<1>1. Holding(c)' = H \cup {r} /\ Returned(c)' = R /\ r \notin H /\ r \notin R
  BY DEF Holding, Returned, TypeOK, NoRefund
<1>2. G[r] = a /\ \A q \in H \cup R : G[q] = F[q]
  BY <1>1 DEF Amounts, Holding, Returned, TypeOK
<1>3. TotalOf(F, H) + a <= Amount[c]
  BY DEF WithinPayment, Reserved, Reserves, Amounts, Holding
<1>4. /\ IsFiniteSet(Units(F, H))
      /\ payment'[c].refunded = TotalOf(F, R)
  BY DEF AddsUp
<1> HIDE DEF F, G, H, R
<1>5. Units(G, H) = Units(F, H) /\ TotalOf(G, H) = TotalOf(F, H)
  BY <1>2, TotalSame
<1>6. TotalOf(G, R) = TotalOf(F, R)
  BY <1>2, TotalSame
<1>7. /\ IsFiniteSet(Units(G, H \cup {r}))
      /\ TotalOf(G, H \cup {r}) = TotalOf(F, H) + a
  BY <1>1, <1>2, <1>4, <1>5, TotalAdds
<1> QED
  BY <1>1, <1>3, <1>4, <1>6, <1>7, SumsPrimed DEF AddsUp, G

(* A success returns what the refund held, and the cached total with it. *)
LEMMA AddsUpPayingBack ==
    ASSUME TypeOK, NEW c \in Checkouts, AddsUp(c), NEW r \in Refunds, r[1] = c,
           refund[r].status = "PENDING", NEW v,
           refund' = [refund EXCEPT ![r] =
                        [status |-> "SUCCEEDED", version |-> v, amount |-> refund[r].amount]],
           payment'[c].refunded = payment[c].refunded + refund[r].amount
    PROVE  AddsUp(c)'
<1> DEFINE F == Amounts
           G == Amounts'
           H == Holding(c)
           R == Returned(c)
<1>1. Holding(c)' = H /\ Returned(c)' = R \cup {r} /\ r \notin R /\ R \subseteq H
  BY DEF Holding, Returned, TypeOK
<1>2. G[r] = refund[r].amount /\ G[r] \in Nat /\ \A q \in H \cup R : G[q] = F[q]
  <2>1. refund[r] \in RefundRow
    BY DEF TypeOK, NoRefund
  <2> QED
    BY <2>1, PaymentAssumption DEF Amounts, Holding, Returned, TypeOK, RefundRow
<1>3. /\ IsFiniteSet(Units(F, H))
      /\ TotalOf(F, H) <= Amount[c]
      /\ payment[c].refunded = TotalOf(F, R)
  BY DEF AddsUp
<1> HIDE DEF F, G, H, R
<1>4. Units(G, H) = Units(F, H) /\ TotalOf(G, H) = TotalOf(F, H)
  BY <1>2, TotalSame
<1>5. Units(G, R) = Units(F, R) /\ TotalOf(G, R) = TotalOf(F, R)
  BY <1>2, TotalSame
<1>6. IsFiniteSet(Units(G, R))
  BY <1>1, <1>3, <1>5, TotalShrinks
<1>7. TotalOf(G, R \cup {r}) = TotalOf(F, R) + refund[r].amount
  BY <1>1, <1>2, <1>5, <1>6, TotalAdds
<1> QED
  BY <1>1, <1>3, <1>4, <1>7, SumsPrimed DEF AddsUp, G

(* A failure releases what the refund held. *)
LEMMA AddsUpReleasing ==
    ASSUME TypeOK, NEW c \in Checkouts, AddsUp(c), NEW r \in Refunds, r[1] = c,
           refund[r].status = "PENDING", NEW v,
           refund' = [refund EXCEPT ![r] =
                        [status |-> "FAILED", version |-> v, amount |-> refund[r].amount]],
           payment'[c].refunded = payment[c].refunded
    PROVE  AddsUp(c)'
<1> DEFINE F == Amounts
           G == Amounts'
           H == Holding(c)
           R == Returned(c)
<1>1. Holding(c)' = H \ {r} /\ Returned(c)' = R
  BY DEF Holding, Returned, TypeOK
<1>2. \A q \in H \cup R : G[q] = F[q]
  BY DEF Amounts, Holding, Returned, TypeOK
<1>3. /\ IsFiniteSet(Units(F, H))
      /\ TotalOf(F, H) <= Amount[c]
      /\ payment'[c].refunded = TotalOf(F, R)
  BY DEF AddsUp
<1>4. Amount[c] \in Nat
  BY PaymentAssumption
<1> HIDE DEF F, G, H, R
<1>5. Units(G, H \ {r}) = Units(F, H \ {r}) /\ TotalOf(G, H \ {r}) = TotalOf(F, H \ {r})
  BY <1>2, TotalSame
<1>6. TotalOf(G, R) = TotalOf(F, R)
  BY <1>2, TotalSame
<1>7. /\ IsFiniteSet(Units(F, H \ {r}))
      /\ TotalOf(F, H \ {r}) \in Nat /\ TotalOf(F, H) \in Nat
      /\ TotalOf(F, H \ {r}) <= TotalOf(F, H)
  BY <1>3, TotalShrinks
<1> QED
  BY <1>1, <1>3, <1>4, <1>5, <1>6, <1>7, SumsPrimed DEF AddsUp, G

(* The three writers of refunds keep the sums; every other step leaves them. *)
LEMMA MoneyStep ==
    ASSUME TypeOK, Knowledge, [Next]_vars, MoneyInv
    PROVE  MoneyInv'
<1> SUFFICES ASSUME NEW c \in Checkouts PROVE AddsUp(c)'
  BY DEF MoneyInv
<1>0. AddsUp(c)
  BY DEF MoneyInv
<1>1. CASE UNCHANGED <<payment, refund>>
  BY <1>0, <1>1, AddsUpSame
<1>2. ASSUME NEW w \in Workers, StorePayment(w) PROVE AddsUp(c)'
  <2>1. payment'[c].refunded = payment[c].refunded
    BY <1>2 DEF StorePayment, TypeOK, NoPayment
  <2>2. UNCHANGED refund
    BY <1>2 DEF StorePayment
  <2> QED
    BY <1>0, <2>1, <2>2, AddsUpSame
<1>3. ASSUME NEW w \in Workers, ApplyPaymentEvent(w) PROVE AddsUp(c)'
  <2>1. PICK e \in Events : e = job[w].event
    BY <1>3, JobRecords DEF ApplyPaymentEvent
  <2>2. Snapshot(job[w].seen, payment[event[e].checkout])
    BY <1>3, <2>1 DEF ApplyPaymentEvent, Knowledge, HandlerKnows, PaymentDeliveryKnows
  <2>3. payment'[c].refunded = payment[c].refunded
    BY <1>3, <2>1, <2>2 DEF ApplyPaymentEvent, PaymentVersionHolds, Snapshot, TypeOK
  <2>4. UNCHANGED refund
    BY <1>3 DEF ApplyPaymentEvent
  <2> QED
    BY <1>0, <2>3, <2>4, AddsUpSame
<1>4. ASSUME NEW w \in Workers, StoreRefund(w) PROVE AddsUp(c)'
  <2> DEFINE r == <<job[w].checkout, job[w].key>>
  <2>1. /\ r \in Refunds /\ r[1] \in Checkouts /\ job[w].amount \in Nat
        /\ refund[r] = NoRefund /\ WithinPayment(r[1], job[w].amount)
        /\ UNCHANGED payment
        /\ refund' = [refund EXCEPT ![r] =
                        [status |-> "PENDING", version |-> 1, amount |-> job[w].amount]]
    <3>1. /\ job[w].checkout \in Checkouts /\ job[w].key \in RefundKeys
          /\ job[w].amount \in Nat
      BY <1>4, JobRecords, PaymentAssumption DEF StoreRefund
    <3> QED
      BY <1>4, <3>1 DEF StoreRefund, RefundKeyUsed, Refunds
  <2> HIDE DEF r
  <2>2. CASE r[1] = c
    BY <1>0, <2>1, <2>2, AddsUpReserving
  <2>3. CASE r[1] # c
    <3>1. \A q \in Refunds : q[1] = c => refund'[q] = refund[q]
      BY <2>1, <2>3 DEF TypeOK
    <3> QED
      BY <1>0, <2>1, <3>1, AddsUpSame
  <2> QED
    BY <2>2, <2>3
<1>5. ASSUME NEW w \in Workers, ApplyRefundEvent(w) PROVE AddsUp(c)'
  <2> DEFINE e == job[w].event
             s == event[e].status
  <2>0. PICK r \in Refunds : r = event[e].refund
    BY <1>5, AppliedRefundEvent
  <2>1. /\ s \in {"SUCCEEDED", "FAILED"} /\ r[1] \in Checkouts
        /\ RefundVerdict(event[e], job[w].seen) = "APPLIED"
        /\ Snapshot(job[w].seen, refund[r])
        /\ Snapshot(job[w].paid, payment[r[1]])
    <3>1. e \in Events /\ event[e] \in RefundEvents /\ s # "PENDING"
      BY <1>5, AppliedRefundEvent, EventRecords
    <3> QED
      BY <1>5, <2>0, <3>1, RefundPairs
         DEF ApplyRefundEvent, Knowledge, HandlerKnows, RefundDeliveryKnows, RefundEvents,
             RefundStatuses
  <2>2. job[w].seen = refund[r] /\ refund[r].status = "PENDING"
    BY <1>5, <2>0, <2>1 DEF ApplyRefundEvent, RefundVersionHolds, Snapshot, RefundVerdict
  <2>3. refund' = [refund EXCEPT ![r] = [status |-> s, version |-> refund[r].version + 1,
                                         amount |-> refund[r].amount]]
    BY <1>5, <2>0, <2>2 DEF ApplyRefundEvent
  <2>4. IF s = "SUCCEEDED"
        THEN payment' = [payment EXCEPT ![r[1]] =
               [status |-> payment[r[1]].status, version |-> payment[r[1]].version + 1,
                refunded |-> payment[r[1]].refunded + refund[r].amount]]
        ELSE UNCHANGED payment
    BY <1>5, <2>0, <2>1, <2>2 DEF ApplyRefundEvent, PaymentVersionHolds, Snapshot
  <2> HIDE DEF e, s
  <2>5. CASE r[1] = c /\ s = "SUCCEEDED"
    <3>1. payment'[c].refunded = payment[c].refunded + refund[r].amount
      BY <2>4, <2>5 DEF TypeOK
    <3> QED
      BY <1>0, <2>2, <2>3, <2>5, <3>1, AddsUpPayingBack
  <2>6. CASE r[1] = c /\ s = "FAILED"
    <3>1. payment'[c].refunded = payment[c].refunded
      BY <2>4, <2>6
    <3> QED
      BY <1>0, <2>2, <2>3, <2>6, <3>1, AddsUpReleasing
  <2>7. CASE r[1] # c
    <3>1. payment'[c].refunded = payment[c].refunded
      BY <2>4, <2>7 DEF TypeOK
    <3>2. \A q \in Refunds : q[1] = c => refund'[q] = refund[q]
      BY <2>3, <2>7 DEF TypeOK
    <3> QED
      BY <1>0, <3>1, <3>2, AddsUpSame
  <2> QED
    BY <2>1, <2>5, <2>6, <2>7
<1> QED
  BY <1>1, <1>2, <1>3, <1>4, <1>5, Writers

(* No refund is stored yet, and none is paid back. *)
LEMMA MoneyInit == Init => MoneyInv
<1> SUFFICES ASSUME Init, NEW c \in Checkouts PROVE AddsUp(c)
  BY DEF MoneyInv
<1>1. Holding(c) = {} /\ Returned(c) = {}
  BY DEF Init, Holding, Returned, NoRefund
<1>2. Units(Amounts, {}) = {} /\ IsFiniteSet({}) /\ Cardinality({}) = 0
  BY FS_EmptySet DEF Units
<1>3. payment[c].refunded = 0 /\ Amount[c] \in Nat
  BY PaymentAssumption DEF Init, NoPayment
<1> QED
  BY <1>1, <1>2, <1>3 DEF AddsUp, TotalOf

LEMMA MoneyInvariance == Spec => []MoneyInv
<1>1. IInv /\ MoneyInv /\ [Next]_vars => MoneyInv'
  BY MoneyStep DEF IInv
<1> QED
  BY <1>1, MoneyInit, Invariance, PTL DEF Spec

(***************************************************************************)
(* Pending and successful refunds of a payment never exceed its amount,    *)
(* however many requests sum the refunds at the same time.                 *)
(***************************************************************************)
THEOREM RefundsStayWithinPayment == Spec => []RefundsWithinPayment
<1>1. MoneyInv => RefundsWithinPayment
  BY DEF MoneyInv, AddsUp, RefundsWithinPayment, RefundTotal, Amounts, Holding
<1> QED
  BY <1>1, MoneyInvariance, PTL

(***************************************************************************)
(* payment.refunded_minor, cached on the payment and written from a row    *)
(* read before the transaction, is the sum of the successful refunds.      *)
(***************************************************************************)
THEOREM RefundedIsTheSum == Spec => []RefundedIsSumOfRefunds
<1>1. MoneyInv => RefundedIsSumOfRefunds
  BY DEF MoneyInv, AddsUp, RefundedIsSumOfRefunds, RefundTotal, Amounts, Returned
<1> QED
  BY <1>1, MoneyInvariance, PTL

(* A success is on its way, its refund is as the delivery read it, and the *)
(* payment about to be written passes assertPayment.                       *)
SuccessAtHand(w) ==
    /\ At(w, "load_refunded_payment")
    /\ event[job[w].event].status = "SUCCEEDED"
    /\ RefundVersionHolds(event[job[w].event].refund, job[w].seen)
SuccessFits(w) ==
    LET c == event[job[w].event].refund[1] IN
    /\ payment[c] # NoPayment
    /\ RefundedFits(c, payment[c].refunded + job[w].seen.amount)

(***************************************************************************)
(* assertPayment never stands in the way of a successful refund: a delivery*)
(* whose refund has not changed since it was read can always write the     *)
(* payment, so the provider's redeliveries do not fail for ever.           *)
(***************************************************************************)
THEOREM SuccessIsNeverRefused ==
    Spec => [](\A w \in Workers : SuccessAtHand(w) => SuccessFits(w))
<1>1. ASSUME IInv, MoneyInv, NEW w \in Workers, SuccessAtHand(w)
      PROVE  SuccessFits(w)
  <2> DEFINE e == job[w].event
             F == Amounts
  <2>0. TypeOK /\ Knowledge /\ RefundIsTheProviders
    BY <1>1 DEF IInv
  <2>1. PICK r \in Refunds : r = event[e].refund
    BY <1>1, <2>0, JobRecords, EventRecords
       DEF SuccessAtHand, Knowledge, HandlerKnows, RefundDeliveryKnows, RefundEvents
  <2>2. PICK c \in Checkouts : c = r[1]
    BY RefundPairs
  <2>3. job[w].seen = refund[r] /\ refund[r] \in RefundRow /\ refund[r].status = "PENDING"
    BY <1>1, <2>0, <2>1, JobRecords
       DEF SuccessAtHand, Knowledge, HandlerKnows, RefundDeliveryKnows, RefundVersionHolds,
           Snapshot, RefundVerdict
  <2>4. payment[c] # NoPayment
    BY <2>0, <2>2, <2>3 DEF RefundIsTheProviders, RefundRow, NoRefund, NoPayment
  <2>5. /\ IsFiniteSet(Units(F, Holding(c)))
        /\ TotalOf(F, Holding(c)) <= Amount[c] /\ Amount[c] \in Nat
        /\ payment[c].refunded = TotalOf(F, Returned(c))
    BY <1>1, PaymentAssumption DEF MoneyInv, AddsUp
  <2>6. /\ r \in Holding(c) /\ r \notin Returned(c) /\ Returned(c) \cup {r} \subseteq Holding(c)
        /\ F[r] = refund[r].amount /\ F[r] \in Nat
    BY <2>2, <2>3, PaymentAssumption DEF Holding, Returned, Amounts, RefundRow
  <2> HIDE DEF F
  <2>7. IsFiniteSet(Units(F, Returned(c)))
    BY <2>5, <2>6, TotalShrinks
  <2>8. TotalOf(F, Returned(c) \cup {r}) = TotalOf(F, Returned(c)) + F[r]
    BY <2>6, <2>7, TotalAdds
  <2>9. /\ TotalOf(F, Returned(c) \cup {r}) <= TotalOf(F, Holding(c))
        /\ TotalOf(F, Returned(c) \cup {r}) \in Nat /\ TotalOf(F, Holding(c)) \in Nat
    BY <2>5, <2>6, TotalShrinks
  <2>10. payment[c].refunded + refund[r].amount <= Amount[c]
    BY <2>5, <2>6, <2>8, <2>9
  <2> QED
    BY <2>1, <2>2, <2>3, <2>4, <2>10 DEF SuccessFits, RefundedFits
<1>2. IInv /\ MoneyInv => \A w \in Workers : SuccessAtHand(w) => SuccessFits(w)
  BY <1>1
<1> QED
  BY <1>2, Invariance, MoneyInvariance, PTL
=============================================================================
