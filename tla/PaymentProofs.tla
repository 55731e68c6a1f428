--------------------------- MODULE PaymentProofs ---------------------------
EXTENDS PaymentInvariant, TLAPS

USE DEF At, Goto

(***************************************************************************)
(* What a handler's step says about the kind of record it holds.           *)
(***************************************************************************)
LEMMA JobRecords ==
    ASSUME TypeOK, NEW w \in Workers
    PROVE  /\ job[w] \in Job
           /\ job[w].at \in {"load_checkout", "find_payment", "create_payment"} =>
                job[w] \in [at : {"load_checkout", "find_payment", "create_payment"},
                            key : InitiationKeys, checkout : Checkouts]
           /\ At(w, "store_payment") =>
                job[w] \in [at : {"store_payment"}, key : InitiationKeys,
                            checkout : Checkouts, status : Open]
           /\ job[w].at \in {"load_payment", "load_refund"} =>
                job[w] \in [at : {"load_payment", "load_refund"}, event : Events]
           /\ At(w, "apply_payment_event") =>
                job[w] \in [at : {"apply_payment_event"}, event : Events, seen : PaymentRow]
           /\ At(w, "load_refunded_payment") =>
                job[w] \in [at : {"load_refunded_payment"}, event : Events, seen : RefundRow]
           /\ At(w, "apply_refund_event") =>
                job[w] \in [at : {"apply_refund_event"}, event : Events, seen : RefundRow,
                            paid : PaymentRow]
           /\ At(w, "ignore_event") =>
                job[w] \in [at : {"ignore_event"}, event : Events, why : IgnoredReasons]
           /\ job[w].at \in {"load_paid", "sum_reserved", "create_refund", "store_refund"} =>
                job[w] \in [at : {"load_paid", "sum_reserved", "create_refund", "store_refund"},
                            key : RefundKeys, checkout : Checkouts, amount : RefundAmounts]
           /\ At(w, "retrieve_payment") =>
                job[w] \in [at : {"retrieve_payment"}, checkout : Checkouts, local : Statuses]
<1>1. job[w] \in Job
  BY DEF TypeOK
<1> QED
  BY <1>1 DEF Job, Idle

(* The sentinel of an absent payment is no row. *)
LEMMA NoPaymentIsNoRow == NoPayment \notin PaymentRow
  BY DEF NoPayment, PaymentRow

(* An emitted event is a payment event or a refund event, with its fields. *)
LEMMA EventRecords ==
    ASSUME TypeOK, NEW e \in Events
    PROVE  /\ event[e].kind = "PAYMENT" => event[e] \in PaymentEvents
           /\ event[e].kind = "REFUND" => event[e] \in RefundEvents
           /\ event[e] # NoEvent => event[e].kind \in {"PAYMENT", "REFUND"}
  BY DEF TypeOK, PaymentEvents, RefundEvents, NoEvent

(* The verdict on a payment event is NOT_FOUND exactly when no payment was read. *)
LEMMA PaymentVerdictValues ==
    ASSUME NEW ev, NEW seen
    PROVE  /\ PaymentVerdict(ev, seen) \in {"APPLIED"} \cup IgnoredReasons
           /\ PaymentVerdict(ev, seen) = "APPLIED" => seen # NoPayment
           /\ PaymentVerdict(ev, seen) \in NotFound <=> seen = NoPayment
  BY DEF PaymentVerdict, IgnoredReasons, NotFound

(* The verdict on a refund event is NOT_FOUND exactly when no refund was read. *)
LEMMA RefundVerdictValues ==
    ASSUME NEW ev, NEW seen
    PROVE  /\ RefundVerdict(ev, seen) \in {"APPLIED"} \cup IgnoredReasons
           /\ RefundVerdict(ev, seen) = "APPLIED" => seen # NoRefund
           /\ RefundVerdict(ev, seen) \in NotFound <=> seen = NoRefund
  BY DEF RefundVerdict, IgnoredReasons, NotFound

(* A refund is named by its payment's checkout and its idempotency key. *)
LEMMA RefundPairs ==
    ASSUME NEW r \in Refunds
    PROVE  r[1] \in Checkouts /\ r[2] \in RefundKeys /\ r = <<r[1], r[2]>>
  BY DEF Refunds

(* The initial state is typed. *)
LEMMA InitType == Init => TypeOK
  BY PaymentAssumption DEF Init, TypeOK, Job

(***************************************************************************)
(* Type correctness is preserved, one step per action.                     *)
(***************************************************************************)
LEMMA TypeStep ==
    ASSUME TypeOK, Knowledge, Next
    PROVE  TypeOK'
<1> USE DEF tables, provider
<1>1. ASSUME NEW w \in Workers, NEW k \in InitiationKeys, NEW c \in Checkouts,
             StartInitiation(w, k, c)
      PROVE  TypeOK'
  BY <1>1 DEF StartInitiation, TypeOK, Job
<1>2. ASSUME NEW w \in Workers, LoadCheckout(w) PROVE TypeOK'
  BY <1>2, JobRecords DEF LoadCheckout, TypeOK, Job
<1>3. ASSUME NEW w \in Workers, FindPayment(w) PROVE TypeOK'
  BY <1>3, JobRecords DEF FindPayment, TypeOK, Job
<1>4. ASSUME NEW w \in Workers, CreatePayment(w) PROVE TypeOK'
  <2>1. job[w] \in [at : {"load_checkout", "find_payment", "create_payment"},
                    key : InitiationKeys, checkout : Checkouts]
    BY <1>4, JobRecords DEF CreatePayment
  <2>2. PICK s \in Open :
          job' = [job EXCEPT ![w] = [at |-> "store_payment", key |-> job[w].key,
                                     checkout |-> job[w].checkout, status |-> s]]
    BY <1>4, PaymentAssumption DEF CreatePayment, ValidInitiation
  <2>3. job' \in [Workers -> Job]
    BY <2>1, <2>2 DEF TypeOK, Job
  <2>4. intent' \in [Checkouts -> {NoIntent} \cup [status : Statuses, created : Open]]
    BY <1>4, <2>1, PaymentAssumption DEF CreatePayment, TypeOK, Statuses
  <2> QED
    BY <1>4, <2>3, <2>4 DEF CreatePayment, TypeOK
<1>5. ASSUME NEW w \in Workers, StorePayment(w) PROVE TypeOK'
  BY <1>5, JobRecords DEF StorePayment, TypeOK, Job, PaymentRow, Statuses
<1>6. ASSUME NEW w \in Workers, NEW e \in Events, StartWebhook(w, e) PROVE TypeOK'
  BY <1>6 DEF StartWebhook, TypeOK, Job
<1>7. ASSUME NEW w \in Workers, LoadPayment(w) PROVE TypeOK'
  <2> DEFINE e == job[w].event
             seen == payment[event[e].checkout]
             why == PaymentVerdict(event[e], seen)
  <2>1. e \in Events /\ event[e] \in PaymentEvents
    BY <1>7, JobRecords, EventRecords DEF LoadPayment, Knowledge, HandlerKnows, PaymentDeliveryKnows
  <2>2. seen \in {NoPayment} \cup PaymentRow
    BY <2>1 DEF TypeOK, PaymentEvents
  <2>3. CASE why = "APPLIED"
    <3>1. seen \in PaymentRow
      BY <2>2, <2>3, PaymentVerdictValues
    <3> QED
      BY <1>7, <2>1, <2>3, <3>1 DEF LoadPayment, TypeOK, Job
  <2>4. CASE why # "APPLIED"
    <3>1. why \in IgnoredReasons
      BY <2>4, PaymentVerdictValues
    <3> HIDE DEF why
    <3>2. job' = [job EXCEPT ![w] = [at |-> "ignore_event", event |-> e, why |-> why]]
      BY <1>7, <2>4 DEF LoadPayment, why
    <3> QED
      BY <1>7, <2>1, <3>1, <3>2 DEF LoadPayment, TypeOK, Job
  <2> QED
    BY <2>3, <2>4
<1>8. ASSUME NEW w \in Workers, ApplyPaymentEvent(w) PROVE TypeOK'
  <2> DEFINE e == job[w].event
  <2>1. /\ e \in Events /\ event[e] \in PaymentEvents
        /\ job[w].seen \in PaymentRow
    BY <1>8, JobRecords, EventRecords
       DEF ApplyPaymentEvent, Knowledge, HandlerKnows, PaymentDeliveryKnows
  <2>2. [status |-> event[e].status, version |-> job[w].seen.version + 1,
         refunded |-> job[w].seen.refunded] \in PaymentRow
    BY <2>1 DEF PaymentRow, PaymentEvents
  <2>3. job' \in [Workers -> Job]
    BY <1>8 DEF ApplyPaymentEvent, TypeOK, Job
  <2> QED
    BY <1>8, <2>1, <2>2, <2>3 DEF ApplyPaymentEvent, TypeOK, PaymentEvents
<1>9. ASSUME NEW w \in Workers, IgnoreEvent(w) PROVE TypeOK'
  BY <1>9, JobRecords DEF IgnoreEvent, TypeOK, Job
<1>10. ASSUME NEW w \in Workers, LoadRefund(w) PROVE TypeOK'
  <2> DEFINE e == job[w].event
             seen == refund[event[e].refund]
             why == RefundVerdict(event[e], seen)
  <2>1. e \in Events /\ event[e] \in RefundEvents
    BY <1>10, JobRecords, EventRecords DEF LoadRefund, Knowledge, HandlerKnows, RefundDeliveryKnows
  <2>2. seen \in {NoRefund} \cup RefundRow
    BY <2>1 DEF TypeOK, RefundEvents
  <2>3. CASE why = "APPLIED"
    <3>1. seen \in RefundRow
      BY <2>2, <2>3, RefundVerdictValues
    <3> QED
      BY <1>10, <2>1, <2>3, <3>1 DEF LoadRefund, TypeOK, Job
  <2>4. CASE why # "APPLIED"
    <3>1. why \in IgnoredReasons
      BY <2>4, RefundVerdictValues
    <3> HIDE DEF why
    <3>2. job' = [job EXCEPT ![w] = [at |-> "ignore_event", event |-> e, why |-> why]]
      BY <1>10, <2>4 DEF LoadRefund, why
    <3> QED
      BY <1>10, <2>1, <3>1, <3>2 DEF LoadRefund, TypeOK, Job
  <2> QED
    BY <2>3, <2>4
<1>11. ASSUME NEW w \in Workers, LoadRefundedPayment(w) PROVE TypeOK'
  <2> DEFINE e == job[w].event
             paid == payment[event[e].refund[1]]
  <2>1. /\ e \in Events /\ event[e] \in RefundEvents
        /\ job[w].seen \in RefundRow
    BY <1>11, JobRecords, EventRecords
       DEF LoadRefundedPayment, Knowledge, HandlerKnows, RefundDeliveryKnows
  <2>2. paid \in PaymentRow
    BY <1>11, <2>1, RefundPairs DEF LoadRefundedPayment, TypeOK, RefundEvents
  <2>3. job' \in [Workers -> Job]
    BY <1>11, <2>1, <2>2 DEF LoadRefundedPayment, TypeOK, Job
  <2> QED
    BY <1>11, <2>3 DEF LoadRefundedPayment, TypeOK
<1>12. ASSUME NEW w \in Workers, ApplyRefundEvent(w) PROVE TypeOK'
  <2> DEFINE e == job[w].event
             r == event[e].refund
  <2>1. /\ e \in Events /\ event[e] \in RefundEvents
        /\ job[w].seen \in RefundRow /\ job[w].paid \in PaymentRow
    BY <1>12, JobRecords, EventRecords
       DEF ApplyRefundEvent, Knowledge, HandlerKnows, RefundDeliveryKnows
  <2>2. r \in Refunds /\ r[1] \in Checkouts
    BY <2>1, RefundPairs DEF RefundEvents
  <2>3. [status |-> event[e].status, version |-> job[w].seen.version + 1,
         amount |-> job[w].seen.amount] \in RefundRow
    BY <2>1 DEF RefundRow, RefundEvents
  <2>4. [status |-> job[w].paid.status, version |-> job[w].paid.version + 1,
         refunded |-> job[w].paid.refunded + job[w].seen.amount] \in PaymentRow
    <3>1. /\ job[w].seen.amount \in Nat /\ job[w].paid.refunded \in Nat
          /\ job[w].paid.version \in Nat \ {0} /\ job[w].paid.status \in Statuses
      BY <2>1, PaymentAssumption DEF RefundRow, PaymentRow
    <3> QED
      BY <3>1 DEF PaymentRow
  <2>5. refund' \in [Refunds -> {NoRefund} \cup RefundRow]
    BY <1>12, <2>2, <2>3 DEF ApplyRefundEvent, TypeOK
  <2>6. payment' \in [Checkouts -> {NoPayment} \cup PaymentRow]
    BY <1>12, <2>2, <2>4 DEF ApplyRefundEvent, TypeOK
  <2>7. receipt' \in [Events -> {"NONE", "APPLIED"} \cup IgnoredReasons]
    BY <1>12, <2>1 DEF ApplyRefundEvent, TypeOK
  <2>8. job' \in [Workers -> Job]
    BY <1>12 DEF ApplyRefundEvent, TypeOK, Job
  <2> QED
    BY <1>12, <2>5, <2>6, <2>7, <2>8 DEF ApplyRefundEvent, TypeOK
<1>13. ASSUME NEW w \in Workers, NEW k \in RefundKeys, NEW c \in Checkouts,
              NEW a \in RefundAmounts, StartRefund(w, k, c, a)
       PROVE  TypeOK'
  BY <1>13 DEF StartRefund, TypeOK, Job
<1>14. ASSUME NEW w \in Workers, LoadPaid(w) PROVE TypeOK'
  BY <1>14, JobRecords DEF LoadPaid, TypeOK, Job
<1>15. ASSUME NEW w \in Workers, SumReserved(w) PROVE TypeOK'
  BY <1>15, JobRecords DEF SumReserved, TypeOK, Job
<1>16. ASSUME NEW w \in Workers, CreateRefund(w) PROVE TypeOK'
  <2> DEFINE r == <<job[w].checkout, job[w].key>>
             a == job[w].amount
  <2>1. job[w] \in [at : {"load_paid", "sum_reserved", "create_refund", "store_refund"},
                    key : RefundKeys, checkout : Checkouts, amount : RefundAmounts]
    BY <1>16, JobRecords DEF CreateRefund
  <2>2. r \in Refunds /\ a \in RefundAmounts
    BY <2>1 DEF Refunds
  <2>3. job' \in [Workers -> Job]
    BY <1>16, <2>1 DEF CreateRefund, TypeOK, Job
  <2>4. providerRefund' \in [Refunds -> {NoProviderRefund}
                                        \cup [status : RefundStatuses, amount : RefundAmounts]]
    BY <1>16, <2>2 DEF CreateRefund, TypeOK, RefundStatuses
  <2>5. event' \in [Events -> {NoEvent} \cup PaymentEvents \cup RefundEvents]
    <3>1. ASSUME NEW s \in {"PENDING", "SUCCEEDED"} PROVE RefundEvent(r, s, a) \in RefundEvents
      BY <2>2 DEF RefundEvent, RefundEvents, RefundStatuses
    <3> HIDE DEF r, a
    <3>2. UNCHANGED event \/ \E s \in {"PENDING", "SUCCEEDED"} : Emit(RefundEvent(r, s, a))
      BY <1>16 DEF CreateRefund, r, a
    <3> QED
      BY <3>1, <3>2 DEF Emit, TypeOK
  <2> QED
    BY <1>16, <2>3, <2>4, <2>5 DEF CreateRefund, TypeOK
<1>17. ASSUME NEW w \in Workers, StoreRefund(w) PROVE TypeOK'
  <2> DEFINE r == <<job[w].checkout, job[w].key>>
  <2>1. r \in Refunds /\ job[w].amount \in RefundAmounts
    BY <1>17, JobRecords DEF StoreRefund, Refunds
  <2>2. [status |-> "PENDING", version |-> 1, amount |-> job[w].amount] \in RefundRow
    BY <2>1 DEF RefundRow, RefundStatuses
  <2>3. refund' \in [Refunds -> {NoRefund} \cup RefundRow]
    BY <1>17, <2>1, <2>2 DEF StoreRefund, TypeOK
  <2>4. job' \in [Workers -> Job]
    BY <1>17 DEF StoreRefund, TypeOK, Job
  <2> QED
    BY <1>17, <2>3, <2>4 DEF StoreRefund, TypeOK
<1>18. ASSUME NEW w \in Workers, NEW c \in Checkouts, StartReconciliation(w, c) PROVE TypeOK'
  BY <1>18 DEF StartReconciliation, TypeOK, Job, PaymentRow
<1>19. ASSUME NEW w \in Workers, SaveReconciliation(w) PROVE TypeOK'
  <2> DEFINE c == job[w].checkout
  <2>1. c \in Checkouts /\ job[w].local \in Statuses
    BY <1>19, JobRecords DEF SaveReconciliation
  <2>2. intent[c].status \in Statuses
    BY <1>19, <2>1 DEF SaveReconciliation, Knowledge, HandlerKnows, RequestKnows, TypeOK
  <2>3. job' \in [Workers -> Job]
    BY <1>19 DEF SaveReconciliation, TypeOK, Job
  <2>4. [checkout |-> c, local |-> job[w].local, observed |-> intent[c].status,
         match |-> job[w].local = intent[c].status]
          \in [checkout : Checkouts, local : Statuses, observed : Statuses, match : BOOLEAN]
    BY <2>1, <2>2
  <2>5. observation' \subseteq
          [checkout : Checkouts, local : Statuses, observed : Statuses, match : BOOLEAN]
    BY <1>19, <2>4 DEF SaveReconciliation, TypeOK
  <2> QED
    BY <1>19, <2>3, <2>5 DEF SaveReconciliation, TypeOK
<1>20. ASSUME NEW w \in Workers, HandlerFails(w) PROVE TypeOK'
  BY <1>20 DEF HandlerFails, TypeOK, Job
<1>21. ASSUME NEW c \in Checkouts, CheckoutCloses(c) PROVE TypeOK'
  BY <1>21 DEF CheckoutCloses, TypeOK
<1>22. ASSUME Provider PROVE TypeOK'
  <2>1. ASSUME NEW ev \in PaymentEvents \cup RefundEvents, Emit(ev)
        PROVE  event' \in [Events -> {NoEvent} \cup PaymentEvents \cup RefundEvents]
    BY <2>1 DEF Emit, TypeOK
  <2>2. ASSUME NEW c \in Checkouts, NEW s \in Statuses, NEW a \in Nat
        PROVE  PaymentEvent(c, s, a) \in PaymentEvents
    BY DEF PaymentEvent, PaymentEvents
  <2>3. ASSUME NEW r \in Refunds, NEW s \in RefundStatuses, providerRefund[r].status # "NONE"
        PROVE  RefundEvent(r, s, providerRefund[r].amount) \in RefundEvents
    BY <2>3 DEF RefundEvent, RefundEvents, TypeOK, NoProviderRefund
  <2>4. ASSUME NEW c \in Checkouts, NEW s \in Statuses, intent[c].status \in Open,
               intent' = [intent EXCEPT ![c].status = s]
        PROVE  intent' \in [Checkouts -> {NoIntent} \cup [status : Statuses, created : Open]]
    <3>1. intent[c] \in [status : Statuses, created : Open]
      BY <2>4 DEF TypeOK, NoIntent, Open
    <3>2. [intent[c] EXCEPT !.status = s] \in [status : Statuses, created : Open]
      BY <3>1
    <3> QED
      BY <2>4, <3>2 DEF TypeOK
  <2>5. ASSUME NEW c \in Checkouts, NEW s \in {"REQUIRES_ACTION", "PROCESSING"},
               IntentProgresses(c, s)
        PROVE  TypeOK'
    <3>1. s \in Statuses /\ Amount[c] \in Nat /\ intent[c].status \in Open
      BY <2>5, PaymentAssumption DEF Statuses, Open, IntentProgresses
    <3> QED
      BY <2>1, <2>2, <2>4, <2>5, <3>1 DEF IntentProgresses, TypeOK
  <2>6. ASSUME NEW c \in Checkouts, AttemptFails(c) PROVE TypeOK'
    <3>1. "PENDING" \in Statuses /\ "REQUIRES_ACTION" \in Statuses /\ Amount[c] \in Nat
      BY PaymentAssumption DEF Statuses, Open
    <3> QED
      BY <2>1, <2>2, <2>4, <2>6, <3>1 DEF AttemptFails, TypeOK
  <2>7. ASSUME NEW c \in Checkouts, NEW s \in Terminal, NEW a \in CapturedAmounts \cup {Amount[c]},
               IntentSettles(c, s, a)
        PROVE  TypeOK'
    <3>1. s \in Statuses /\ a \in Nat
      BY PaymentAssumption DEF Statuses
    <3> QED
      BY <2>1, <2>2, <2>4, <2>7, <3>1 DEF IntentSettles, TypeOK
  <2>8. ASSUME NEW r \in Refunds, NEW s \in {"SUCCEEDED", "FAILED"}, RefundSettles(r, s)
        PROVE  TypeOK'
    <3>1. /\ s \in RefundStatuses /\ providerRefund[r].status # "NONE"
          /\ providerRefund[r] \in [status : RefundStatuses, amount : RefundAmounts]
      BY <2>8 DEF RefundSettles, RefundStatuses, TypeOK, NoProviderRefund
    <3>2. [providerRefund[r] EXCEPT !.status = s] \in [status : RefundStatuses, amount : RefundAmounts]
      BY <3>1
    <3> QED
      BY <2>1, <2>3, <2>8, <3>1, <3>2 DEF RefundSettles, TypeOK
  <2>9. ASSUME NEW r \in Refunds, RefundUpdated(r) PROVE TypeOK'
    <3>1. providerRefund[r].status \in RefundStatuses /\ providerRefund[r].status # "NONE"
      BY <2>9 DEF RefundUpdated, TypeOK, RefundStatuses
    <3> QED
      BY <2>1, <2>3, <2>9, <3>1 DEF RefundUpdated, TypeOK
  <2> QED
    BY <1>22, <2>5, <2>6, <2>7, <2>8, <2>9 DEF Provider
<1> QED
  BY <1>1, <1>2, <1>3, <1>4, <1>5, <1>6, <1>7, <1>8, <1>9, <1>10, <1>11, <1>12, <1>13, <1>14,
     <1>15, <1>16, <1>17, <1>18, <1>19, <1>20, <1>21, <1>22
     DEF Next, Initiation, Webhook, RefundRequest, Reconciliation

(***************************************************************************)
(* Which actions write which table.                                        *)
(***************************************************************************)
LEMMA Writers ==
    ASSUME [Next]_vars
    PROVE  /\ \/ UNCHANGED payment
              \/ \E w \in Workers : StorePayment(w) \/ ApplyPaymentEvent(w) \/ ApplyRefundEvent(w)
           /\ \/ UNCHANGED refund
              \/ \E w \in Workers : StoreRefund(w) \/ ApplyRefundEvent(w)
           /\ \/ UNCHANGED receipt
              \/ \E w \in Workers : ApplyPaymentEvent(w) \/ ApplyRefundEvent(w) \/ IgnoreEvent(w)
           /\ \/ UNCHANGED observation
              \/ \E w \in Workers : SaveReconciliation(w)
           /\ \/ UNCHANGED intent
              \/ \E w \in Workers : CreatePayment(w)
              \/ \E c \in Checkouts :
                    \/ \E s \in {"REQUIRES_ACTION", "PROCESSING"} : IntentProgresses(c, s)
                    \/ AttemptFails(c)
                    \/ \E s \in Terminal, a \in CapturedAmounts \cup {Amount[c]} : IntentSettles(c, s, a)
           /\ \/ UNCHANGED providerRefund
              \/ \E w \in Workers : CreateRefund(w)
              \/ \E r \in Refunds, s \in {"SUCCEEDED", "FAILED"} : RefundSettles(r, s)
           /\ \/ UNCHANGED event
              \/ \E w \in Workers : CreateRefund(w)
              \/ \E c \in Checkouts :
                    \/ \E s \in {"REQUIRES_ACTION", "PROCESSING"} : IntentProgresses(c, s)
                    \/ AttemptFails(c)
                    \/ \E s \in Terminal, a \in CapturedAmounts \cup {Amount[c]} : IntentSettles(c, s, a)
              \/ \E r \in Refunds :
                    \/ \E s \in {"SUCCEEDED", "FAILED"} : RefundSettles(r, s)
                    \/ RefundUpdated(r)
<1> USE DEF tables, provider
<1>0. CASE UNCHANGED vars
  BY <1>0 DEF vars
<1>1. CASE \E w \in Workers : Initiation(w)
  BY <1>1 DEF Initiation, StartInitiation, LoadCheckout, FindPayment, CreatePayment, StorePayment
<1>2. CASE \E w \in Workers : Webhook(w)
  BY <1>2 DEF Webhook, StartWebhook, LoadPayment, ApplyPaymentEvent, IgnoreEvent, LoadRefund,
              LoadRefundedPayment, ApplyRefundEvent
<1>3. CASE \E w \in Workers : RefundRequest(w)
  BY <1>3 DEF RefundRequest, StartRefund, LoadPaid, SumReserved, CreateRefund, StoreRefund
<1>4. CASE \E w \in Workers : Reconciliation(w) \/ HandlerFails(w)
  BY <1>4 DEF Reconciliation, StartReconciliation, SaveReconciliation, HandlerFails
<1>5. CASE \E c \in Checkouts : CheckoutCloses(c)
  BY <1>5 DEF CheckoutCloses
<1>6. CASE Provider
  BY <1>6 DEF Provider, IntentProgresses, AttemptFails, IntentSettles, RefundSettles, RefundUpdated
<1> QED
  BY <1>0, <1>1, <1>2, <1>3, <1>4, <1>5, <1>6 DEF Next

LEMMA EventsKeep ==
    ASSUME TypeOK, [Next]_vars, NEW e \in Events, event[e] # NoEvent
    PROVE  event'[e] = event[e]
<1>1. UNCHANGED event \/ \E ev : Emit(ev)
  <2> USE DEF tables, provider
  <2>1. CASE UNCHANGED event
    BY <2>1
  <2>2. CASE \E w \in Workers : CreateRefund(w)
    BY <2>2 DEF CreateRefund
  <2>3. CASE \E c \in Checkouts :
               \/ \E s \in {"REQUIRES_ACTION", "PROCESSING"} : IntentProgresses(c, s)
               \/ AttemptFails(c)
               \/ \E s \in Terminal, a \in CapturedAmounts \cup {Amount[c]} : IntentSettles(c, s, a)
    BY <2>3 DEF IntentProgresses, AttemptFails, IntentSettles
  <2>4. CASE \E r \in Refunds :
               \/ \E s \in {"SUCCEEDED", "FAILED"} : RefundSettles(r, s)
               \/ RefundUpdated(r)
    BY <2>4 DEF RefundSettles, RefundUpdated
  <2> QED
    BY <2>1, <2>2, <2>3, <2>4, Writers
<1> QED
  BY <1>1 DEF Emit, TypeOK

(***************************************************************************)
(* How rows, events and receipts may move in any step.                     *)
(***************************************************************************)
LEMMA StepMoves ==
    ASSUME TypeOK, Knowledge, [Next]_vars
    PROVE  Moves
<1> USE DEF tables, provider
<1>1. ASSUME NEW c \in Checkouts PROVE PaymentMoves(payment[c], payment'[c])
  <2>1. CASE UNCHANGED payment
    BY <2>1 DEF PaymentMoves
  <2>2. ASSUME NEW w \in Workers, StorePayment(w) PROVE PaymentMoves(payment[c], payment'[c])
    BY <2>2, JobRecords DEF StorePayment, PaymentMoves, TypeOK, NoPayment
  <2>3. ASSUME NEW w \in Workers, ApplyPaymentEvent(w) PROVE PaymentMoves(payment[c], payment'[c])
    <3> DEFINE e == job[w].event
    <3>1. /\ e \in Events /\ event[e] \in PaymentEvents /\ job[w].seen \in PaymentRow
          /\ PaymentVerdict(event[e], job[w].seen) = "APPLIED"
          /\ Snapshot(job[w].seen, payment[event[e].checkout])
      BY <2>3, JobRecords, EventRecords
         DEF ApplyPaymentEvent, Knowledge, HandlerKnows, PaymentDeliveryKnows
    <3>2. event[e].checkout \in Checkouts /\ job[w].seen = payment[event[e].checkout]
      BY <2>3, <3>1 DEF ApplyPaymentEvent, PaymentVersionHolds, Snapshot, PaymentEvents
    <3>3. ForwardTransition(job[w].seen.status, event[e].status) /\ job[w].seen # NoPayment
      BY <3>1 DEF PaymentVerdict
    <3>4. CASE c = event[e].checkout
      <4>1. payment'[c] = [status |-> event[e].status, version |-> job[w].seen.version + 1,
                           refunded |-> job[w].seen.refunded]
        BY <2>3, <3>2, <3>4 DEF ApplyPaymentEvent, TypeOK
      <4>2. payment[c].refunded \in Nat
        BY <3>1, <3>2, <3>4 DEF PaymentRow
      <4>3. job[w].seen = payment[c]
        BY <3>2, <3>4
      <4> HIDE DEF e
      <4>4. /\ payment[c] # NoPayment
            /\ ForwardTransition(payment[c].status, payment'[c].status)
        BY <3>3, <4>1, <4>3
      <4>5. /\ payment'[c].version = payment[c].version + 1
            /\ payment[c].refunded <= payment'[c].refunded
        BY <4>1, <4>2, <4>3
      <4> QED
        BY <4>4, <4>5 DEF PaymentMoves
    <3>5. CASE c # event[e].checkout
      BY <2>3, <3>5 DEF ApplyPaymentEvent, PaymentMoves, TypeOK
    <3> QED
      BY <3>4, <3>5
  <2>4. ASSUME NEW w \in Workers, ApplyRefundEvent(w) PROVE PaymentMoves(payment[c], payment'[c])
    <3> DEFINE e == job[w].event
    <3>1. /\ e \in Events /\ event[e] \in RefundEvents
          /\ job[w].seen \in RefundRow /\ job[w].paid \in PaymentRow
          /\ Snapshot(job[w].paid, payment[event[e].refund[1]])
      BY <2>4, JobRecords, EventRecords
         DEF ApplyRefundEvent, Knowledge, HandlerKnows, RefundDeliveryKnows
    <3>2. CASE UNCHANGED payment
      BY <3>2 DEF PaymentMoves
    <3>3. CASE /\ PaymentVersionHolds(event[e].refund[1], job[w].paid)
               /\ payment' = [payment EXCEPT ![event[e].refund[1]] =
                    [status |-> job[w].paid.status, version |-> job[w].paid.version + 1,
                     refunded |-> job[w].paid.refunded + job[w].seen.amount]]
      <4>1. job[w].paid = payment[event[e].refund[1]]
        BY <3>1, <3>3 DEF PaymentVersionHolds, Snapshot
      <4>2. event[e].refund[1] \in Checkouts
        BY <3>1, RefundPairs DEF RefundEvents
      <4>3. job[w].seen.amount \in Nat /\ job[w].paid.refunded \in Nat
        BY <3>1, PaymentAssumption DEF RefundRow, PaymentRow
      <4>4. CASE c = event[e].refund[1]
        <5>1. payment'[c] = [status |-> payment[c].status, version |-> payment[c].version + 1,
                             refunded |-> payment[c].refunded + job[w].seen.amount]
          BY <3>3, <4>1, <4>4 DEF TypeOK
        <5>2. payment[c].refunded <= payment[c].refunded + job[w].seen.amount
          BY <4>1, <4>3, <4>4
        <5>3. payment[c] # NoPayment
          BY <3>1, <4>1, <4>4, NoPaymentIsNoRow
        <5> QED
          BY <5>1, <5>2, <5>3 DEF PaymentMoves, ForwardTransition
      <4>5. CASE c # event[e].refund[1]
        BY <3>3, <4>5 DEF PaymentMoves, TypeOK
      <4> QED
        BY <4>4, <4>5
    <3> QED
      BY <2>4, <3>2, <3>3 DEF ApplyRefundEvent
  <2> QED
    BY <2>1, <2>2, <2>3, <2>4, Writers
<1>2. ASSUME NEW c \in Checkouts PROVE IntentMoves(intent[c], intent'[c])
  <2>1. CASE UNCHANGED intent
    BY <2>1 DEF IntentMoves
  <2>2. ASSUME NEW w \in Workers, CreatePayment(w) PROVE IntentMoves(intent[c], intent'[c])
    BY <2>2 DEF CreatePayment, IntentMoves, TypeOK
  <2>3. ASSUME NEW d \in Checkouts, NEW s, intent[d].status \in Open,
               intent' = [intent EXCEPT ![d].status = s], s \in Statuses
        PROVE  IntentMoves(intent[c], intent'[c])
    BY <2>3 DEF IntentMoves, TypeOK, Open, Terminal, NoIntent, Statuses
  <2>4. Open \subseteq Statuses /\ Terminal \subseteq Statuses /\ {"PENDING", "REQUIRES_ACTION", "PROCESSING"} \subseteq Open
    BY DEF Statuses, Open
  <2>5. ASSUME NEW d \in Checkouts,
                 \/ \E s \in {"REQUIRES_ACTION", "PROCESSING"} : IntentProgresses(d, s)
                 \/ AttemptFails(d)
                 \/ \E s \in Terminal, a \in CapturedAmounts \cup {Amount[d]} : IntentSettles(d, s, a)
        PROVE  IntentMoves(intent[c], intent'[c])
    BY <2>3, <2>4, <2>5 DEF IntentProgresses, AttemptFails, IntentSettles
  <2> QED
    BY <2>1, <2>2, <2>5, Writers
<1>3. ASSUME NEW r \in Refunds PROVE RefundMoves(refund[r], refund'[r])
  <2>1. CASE UNCHANGED refund
    BY <2>1 DEF RefundMoves
  <2>2. ASSUME NEW w \in Workers, StoreRefund(w) PROVE RefundMoves(refund[r], refund'[r])
    BY <2>2, JobRecords DEF StoreRefund, RefundMoves, TypeOK, NoRefund, RefundKeyUsed, Refunds
  <2>3. ASSUME NEW w \in Workers, ApplyRefundEvent(w) PROVE RefundMoves(refund[r], refund'[r])
    <3> DEFINE e == job[w].event
    <3>1. /\ e \in Events /\ event[e] \in RefundEvents /\ job[w].seen \in RefundRow
          /\ RefundVerdict(event[e], job[w].seen) = "APPLIED"
          /\ Snapshot(job[w].seen, refund[event[e].refund])
      BY <2>3, JobRecords, EventRecords
         DEF ApplyRefundEvent, Knowledge, HandlerKnows, RefundDeliveryKnows
    <3>2. event[e].refund \in Refunds /\ job[w].seen = refund[event[e].refund]
      BY <2>3, <3>1 DEF ApplyRefundEvent, RefundVersionHolds, Snapshot, RefundEvents
    <3>3. job[w].seen.status = "PENDING" /\ event[e].status # "PENDING"
      BY <3>1 DEF RefundVerdict
    <3>4. CASE r = event[e].refund
      BY <2>3, <3>1, <3>2, <3>3, <3>4 DEF ApplyRefundEvent, RefundMoves, RefundRow, TypeOK
    <3>5. CASE r # event[e].refund
      BY <2>3, <3>5 DEF ApplyRefundEvent, RefundMoves, TypeOK
    <3> QED
      BY <3>4, <3>5
  <2> QED
    BY <2>1, <2>2, <2>3, Writers
<1>4. ASSUME NEW r \in Refunds PROVE ProviderRefundMoves(providerRefund[r], providerRefund'[r])
  <2>1. CASE UNCHANGED providerRefund
    BY <2>1 DEF ProviderRefundMoves, TypeOK, RefundStatuses, NoProviderRefund
  <2>2. ASSUME NEW w \in Workers, CreateRefund(w)
        PROVE  ProviderRefundMoves(providerRefund[r], providerRefund'[r])
    BY <2>2 DEF CreateRefund, ProviderRefundMoves, TypeOK, RefundStatuses, NoProviderRefund
  <2>3. ASSUME NEW q \in Refunds, NEW s \in {"SUCCEEDED", "FAILED"}, RefundSettles(q, s)
        PROVE  ProviderRefundMoves(providerRefund[r], providerRefund'[r])
    BY <2>3 DEF RefundSettles, ProviderRefundMoves, TypeOK, RefundStatuses, NoProviderRefund
  <2> QED
    BY <2>1, <2>2, <2>3, Writers
<1>5. ASSUME NEW e \in Events, EventRecorded(e) PROVE receipt'[e] = receipt[e]
  <2>1. CASE UNCHANGED receipt
    BY <2>1
  <2>2. ASSUME NEW w \in Workers, ApplyPaymentEvent(w) \/ ApplyRefundEvent(w) \/ IgnoreEvent(w)
        PROVE  receipt'[e] = receipt[e]
    BY <1>5, <2>2 DEF ApplyPaymentEvent, ApplyRefundEvent, IgnoreEvent, EventRecorded, TypeOK
  <2> QED
    BY <2>1, <2>2, Writers
<1> QED
  BY <1>1, <1>2, <1>3, <1>4, <1>5, EventsKeep DEF Moves

(***************************************************************************)
(* What is known stays known while rows only move as they may.             *)
(***************************************************************************)
LEMMA ForwardKeeps ==
    ASSUME NEW a \in Statuses, NEW b \in Statuses, NEW x \in Statuses,
           ForwardTransition(a, b), ~ForwardTransition(a, x)
    PROVE  ~ForwardTransition(b, x)
  BY DEF ForwardTransition, Statuses, Open, Terminal

(* An ignored payment event stays ignored while its payment moves forward. *)
LEMMA PaymentVerdictKeeps ==
    ASSUME NEW ev \in PaymentEvents, NEW old \in PaymentRow, NEW new \in PaymentRow,
           PaymentMoves(old, new), PaymentVerdict(ev, old) # "APPLIED"
    PROVE  PaymentVerdict(ev, new) # "APPLIED"
<1>1. old # NoPayment /\ new # NoPayment
  BY DEF PaymentRow, NoPayment
<1>2. CASE new = old
  BY <1>2
<1>3. CASE ForwardTransition(old.status, new.status)
  <2>1. CASE ForwardTransition(old.status, ev.status)
    BY <1>1, <2>1 DEF PaymentVerdict
  <2>2. CASE ~ForwardTransition(old.status, ev.status)
    <3>1. ~ForwardTransition(new.status, ev.status)
      BY <1>3, <2>2, ForwardKeeps DEF PaymentRow, PaymentEvents
    <3> QED
      BY <1>1, <3>1 DEF PaymentVerdict
  <2> QED
    BY <2>1, <2>2
<1> QED
  BY <1>1, <1>2, <1>3 DEF PaymentMoves

(* An ignored refund event stays ignored while its refund moves forward. *)
LEMMA RefundVerdictKeeps ==
    ASSUME NEW ev, NEW old \in RefundRow, NEW new \in RefundRow,
           RefundMoves(old, new), RefundVerdict(ev, old) # "APPLIED"
    PROVE  RefundVerdict(ev, new) # "APPLIED"
  BY DEF RefundMoves, RefundVerdict, RefundRow, NoRefund

(* A permanently ignored event stays so across every step. *)
LEMMA StaysIgnoredKeeps ==
    ASSUME TypeOK, TypeOK', Moves, NEW e \in Events, StaysIgnored(e)
    PROVE  StaysIgnored(e)'
<1>1. event[e] # NoEvent /\ event'[e] = event[e]
  BY DEF StaysIgnored, NoEvent, Moves
<1>2. CASE event[e].kind = "PAYMENT"
  <2> DEFINE c == event[e].checkout
  <2>1. event[e] \in PaymentEvents /\ c \in Checkouts
    BY <1>2, EventRecords DEF PaymentEvents
  <2>2. /\ payment[c] \in PaymentRow /\ payment'[c] \in PaymentRow
        /\ PaymentMoves(payment[c], payment'[c])
        /\ PaymentVerdict(event[e], payment[c]) # "APPLIED"
    BY <1>2, <2>1 DEF StaysIgnored, TypeOK, Moves, PaymentMoves, PaymentRow, NoPayment
  <2>3. PaymentVerdict(event[e], payment'[c]) # "APPLIED"
    BY <2>1, <2>2, PaymentVerdictKeeps
  <2> QED
    BY <1>1, <1>2, <2>2, <2>3 DEF StaysIgnored, PaymentRow, NoPayment
<1>3. CASE event[e].kind = "REFUND"
  <2> DEFINE r == event[e].refund
  <2>1. event[e] \in RefundEvents /\ r \in Refunds
    BY <1>3, EventRecords DEF RefundEvents
  <2>2. /\ refund[r] \in RefundRow /\ refund'[r] \in RefundRow
        /\ RefundMoves(refund[r], refund'[r])
        /\ RefundVerdict(event[e], refund[r]) # "APPLIED"
    BY <1>3, <2>1 DEF StaysIgnored, TypeOK, Moves, RefundMoves, RefundRow, NoRefund
  <2>3. RefundVerdict(event[e], refund'[r]) # "APPLIED"
    BY <2>1, <2>2, RefundVerdictKeeps
  <2> QED
    BY <1>1, <1>3, <2>2, <2>3 DEF StaysIgnored, RefundRow, NoRefund
<1> QED
  BY <1>2, <1>3 DEF StaysIgnored

(* A payment snapshot stays a snapshot of its row. *)
LEMMA PaymentSnapshotKeeps ==
    ASSUME NEW seen \in PaymentRow, NEW old \in {NoPayment} \cup PaymentRow, NEW new,
           Snapshot(seen, old), PaymentMoves(old, new)
    PROVE  Snapshot(seen, new)
<1>1. seen.version \in Nat \ {0} /\ old.version \in Nat
  BY DEF PaymentRow, NoPayment
<1>2. old # NoPayment
  BY <1>1 DEF Snapshot, NoPayment
<1> QED
  BY <1>1, <1>2 DEF Snapshot, PaymentMoves

(* A refund snapshot stays a snapshot of its row. *)
LEMMA RefundSnapshotKeeps ==
    ASSUME NEW seen \in RefundRow, NEW old \in {NoRefund} \cup RefundRow, NEW new,
           Snapshot(seen, old), RefundMoves(old, new)
    PROVE  Snapshot(seen, new)
<1>1. seen.version \in Nat \ {0} /\ old.version \in Nat
  BY DEF RefundRow, NoRefund
<1>2. old # NoRefund
  BY <1>1 DEF Snapshot, NoRefund
<1> QED
  BY <1>1, <1>2 DEF Snapshot, RefundMoves

(* What a handler knows, it keeps knowing while other parties act. *)
LEMMA HandlerKeeps ==
    ASSUME TypeOK, TypeOK', Moves, NEW w \in Workers, HandlerKnows(w), job'[w] = job[w]
    PROVE  HandlerKnows(w)'
<1>1. ASSUME NEW e \in Events, event[e] # NoEvent PROVE event'[e] = event[e]
  BY <1>1 DEF Moves
<1>2. PaymentDeliveryKnows(w)'
  <2>1. CASE At(w, "load_payment")
    <3>1. job[w].event \in Events /\ event[job[w].event].kind = "PAYMENT"
      BY <2>1, JobRecords DEF HandlerKnows, PaymentDeliveryKnows
    <3> QED
      BY <1>1, <2>1, <3>1 DEF PaymentDeliveryKnows, NoEvent
  <2>2. CASE At(w, "apply_payment_event")
    <3> DEFINE e == job[w].event
    <3>1. /\ e \in Events /\ event[e] \in PaymentEvents /\ event[e].kind = "PAYMENT"
          /\ job[w].seen \in PaymentRow
          /\ PaymentVerdict(event[e], job[w].seen) = "APPLIED"
          /\ Snapshot(job[w].seen, payment[event[e].checkout])
      BY <2>2, JobRecords, EventRecords DEF HandlerKnows, PaymentDeliveryKnows
    <3>2. event'[e] = event[e]
      BY <1>1, <3>1 DEF NoEvent
    <3>3. Snapshot(job[w].seen, payment'[event[e].checkout])
      BY <3>1, PaymentSnapshotKeeps DEF Moves, TypeOK, PaymentEvents
    <3> QED
      BY <2>2, <3>1, <3>2, <3>3 DEF PaymentDeliveryKnows
  <2> QED
    BY <2>1, <2>2 DEF PaymentDeliveryKnows
<1>3. RefundDeliveryKnows(w)'
  <2>1. CASE At(w, "load_refund")
    <3>1. job[w].event \in Events /\ event[job[w].event].kind = "REFUND"
      BY <2>1, JobRecords DEF HandlerKnows, RefundDeliveryKnows
    <3> QED
      BY <1>1, <2>1, <3>1 DEF RefundDeliveryKnows, NoEvent
  <2>2. CASE job[w].at \in {"load_refunded_payment", "apply_refund_event"}
    <3> DEFINE e == job[w].event
    <3>1. /\ e \in Events /\ event[e] \in RefundEvents /\ event[e].kind = "REFUND"
          /\ job[w].seen \in RefundRow
          /\ RefundVerdict(event[e], job[w].seen) = "APPLIED"
          /\ Snapshot(job[w].seen, refund[event[e].refund])
      BY <2>2, JobRecords, EventRecords DEF HandlerKnows, RefundDeliveryKnows
    <3>2. event'[e] = event[e]
      BY <1>1, <3>1 DEF NoEvent
    <3>3. Snapshot(job[w].seen, refund'[event[e].refund])
      BY <3>1, RefundSnapshotKeeps DEF Moves, TypeOK, RefundEvents
    <3>4. At(w, "apply_refund_event") => Snapshot(job[w].paid, payment'[event[e].refund[1]])
      <4> SUFFICES ASSUME At(w, "apply_refund_event")
                   PROVE  Snapshot(job[w].paid, payment'[event[e].refund[1]])
        OBVIOUS
      <4>1. job[w].paid \in PaymentRow /\ Snapshot(job[w].paid, payment[event[e].refund[1]])
        BY JobRecords DEF HandlerKnows, RefundDeliveryKnows
      <4>2. event[e].refund[1] \in Checkouts
        BY <3>1, RefundPairs DEF RefundEvents
      <4> QED
        BY <4>1, <4>2, PaymentSnapshotKeeps DEF Moves, TypeOK
    <3> QED
      BY <2>2, <3>1, <3>2, <3>3, <3>4 DEF RefundDeliveryKnows
  <2> QED
    BY <2>1, <2>2 DEF RefundDeliveryKnows
<1>4. IgnoringKnows(w)'
  <2> SUFFICES ASSUME At(w, "ignore_event") PROVE IgnoringKnows(w)'
    BY DEF IgnoringKnows
  <2>1. job[w].event \in Events /\ event[job[w].event] # NoEvent
    BY JobRecords DEF HandlerKnows, IgnoringKnows
  <2>2. job[w].why \notin NotFound => StaysIgnored(job[w].event)'
    BY <2>1, StaysIgnoredKeeps DEF HandlerKnows, IgnoringKnows
  <2> QED
    BY <1>1, <2>1, <2>2 DEF IgnoringKnows
<1>5. RequestKnows(w)'
  <2>1. CASE At(w, "store_payment")
    BY <2>1, JobRecords DEF HandlerKnows, RequestKnows, Moves, IntentMoves
  <2>2. CASE job[w].at \in {"sum_reserved", "create_refund", "store_refund"}
    <3> DEFINE r == <<job[w].checkout, job[w].key>>
    <3>1. job[w].checkout \in Checkouts /\ r \in Refunds
      BY <2>2, JobRecords DEF Refunds
    <3>2. payment'[job[w].checkout].status = "SUCCEEDED"
      BY <2>2, <3>1 DEF HandlerKnows, RequestKnows, Moves, PaymentMoves, ForwardTransition, NoPayment
    <3>3. At(w, "store_refund") =>
            providerRefund'[r].status # "NONE" /\ providerRefund'[r].amount = job[w].amount
      BY <3>1 DEF HandlerKnows, RequestKnows, Moves, ProviderRefundMoves, NoProviderRefund
    <3> QED
      BY <2>2, <3>2, <3>3 DEF RequestKnows
  <2>3. CASE At(w, "retrieve_payment")
    <3> DEFINE c == job[w].checkout
    <3>1. c \in Checkouts /\ PaymentMoves(payment[c], payment'[c])
      BY <2>3, JobRecords DEF Moves
    <3>2. payment[c] \in PaymentRow /\ payment'[c] \in PaymentRow
      BY <2>3, <3>1 DEF HandlerKnows, RequestKnows, TypeOK, PaymentMoves, PaymentRow, NoPayment
    <3>3. job[w].local \in Terminal => payment'[c].status = job[w].local
      BY <2>3, <3>1, <3>2
         DEF HandlerKnows, RequestKnows, PaymentMoves, ForwardTransition, Terminal, PaymentRow, NoPayment
    <3> QED
      BY <2>3, <3>2, <3>3 DEF RequestKnows, PaymentRow, NoPayment
  <2> QED
    BY <2>1, <2>2, <2>3 DEF RequestKnows
<1> QED
  BY <1>2, <1>3, <1>4, <1>5 DEF HandlerKnows
=============================================================================
