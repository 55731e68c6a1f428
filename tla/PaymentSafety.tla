--------------------------- MODULE PaymentSafety ---------------------------
(***************************************************************************)
(* IInv is inductive, and what follows from it for every reachable state   *)
(* and every value of the constants.                                       *)
(***************************************************************************)
EXTENDS PaymentProofs

USE DEF At, Goto

Acts(w) ==
    Initiation(w) \/ Webhook(w) \/ RefundRequest(w) \/ Reconciliation(w) \/ HandlerFails(w)

(* At most one handler acts in a step. *)
LEMMA OneHandler ==
    ASSUME TypeOK, Next, NEW w \in Workers
    PROVE  job'[w] = job[w] \/ Acts(w)
<1>1. ASSUME NEW v \in Workers, Acts(v) PROVE job'[w] = job[w] \/ v = w
  <2>1. CASE Initiation(v)
    BY <2>1 DEF Initiation, StartInitiation, LoadCheckout, FindPayment, CreatePayment,
                StorePayment, TypeOK
  <2>2. CASE Webhook(v)
    BY <2>2 DEF Webhook, StartWebhook, LoadPayment, ApplyPaymentEvent, IgnoreEvent, LoadRefund,
                LoadRefundedPayment, ApplyRefundEvent, TypeOK
  <2>3. CASE RefundRequest(v)
    BY <2>3 DEF RefundRequest, StartRefund, LoadPaid, SumReserved, CreateRefund, StoreRefund, TypeOK
  <2>4. CASE Reconciliation(v) \/ HandlerFails(v)
    BY <2>4 DEF Reconciliation, StartReconciliation, SaveReconciliation, HandlerFails, TypeOK
  <2> QED
    BY <1>1, <2>1, <2>2, <2>3, <2>4 DEF Acts
<1>2. CASE \E c \in Checkouts : CheckoutCloses(c)
  BY <1>2 DEF CheckoutCloses
<1>3. CASE Provider
  BY <1>3 DEF Provider, IntentProgresses, AttemptFails, IntentSettles, RefundSettles, RefundUpdated
<1> QED
  BY <1>1, <1>2, <1>3 DEF Next, Acts

(* A handler that has read nothing it relies on knows nothing. *)
LEMMA Blank ==
    ASSUME NEW w \in Workers,
           job'[w].at \in {"idle", "load_checkout", "find_payment", "create_payment", "load_paid"}
    PROVE  HandlerKnows(w)'
  BY DEF HandlerKnows, PaymentDeliveryKnows, RefundDeliveryKnows, IgnoringKnows, RequestKnows

(* What initiation, refund and reconciliation steps teach their handler. *)
LEMMA RequestLearns ==
    ASSUME TypeOK, Knowledge, Moves, NEW w \in Workers,
           \/ Initiation(w) \/ RefundRequest(w) \/ Reconciliation(w) \/ HandlerFails(w)
    PROVE  HandlerKnows(w)'
<1> USE DEF tables, provider
<1>1. CASE \/ \E k \in InitiationKeys, c \in Checkouts : StartInitiation(w, k, c)
           \/ LoadCheckout(w) \/ FindPayment(w)
  <2>1. job'[w].at \in {"load_checkout", "find_payment", "create_payment"}
    <3>1. CASE \E k \in InitiationKeys, c \in Checkouts : StartInitiation(w, k, c)
      BY <3>1 DEF StartInitiation, TypeOK
    <3>2. CASE LoadCheckout(w) \/ FindPayment(w)
      BY <3>2, JobRecords DEF LoadCheckout, FindPayment, TypeOK
    <3> QED
      BY <1>1, <3>1, <3>2
  <2> QED
    BY <2>1, Blank
<1>2. CASE CreatePayment(w)
  <2>1. job[w].checkout \in Checkouts
    BY <1>2, JobRecords DEF CreatePayment
  <2>2. job'[w].at = "store_payment" /\ job'[w].checkout = job[w].checkout
    <3>1. \E s \in Open :
            job' = [job EXCEPT ![w] = [at |-> "store_payment", key |-> job[w].key,
                                       checkout |-> job[w].checkout, status |-> s]]
      BY <1>2, PaymentAssumption DEF CreatePayment, ValidInitiation
    <3> QED
      BY <3>1 DEF TypeOK
  <2>3. intent'[job[w].checkout] # NoIntent
    <3>1. ASSUME NEW s \in CreationStatuses PROVE [status |-> s, created |-> s] # NoIntent
      BY PaymentAssumption DEF NoIntent, Open
    <3> QED
      BY <1>2, <2>1, <3>1 DEF CreatePayment, TypeOK
  <2> QED
    BY <2>2, <2>3
       DEF HandlerKnows, PaymentDeliveryKnows, RefundDeliveryKnows, IgnoringKnows, RequestKnows
<1>3. CASE StorePayment(w) \/ StoreRefund(w) \/ SaveReconciliation(w) \/ HandlerFails(w)
  <2>1. job'[w] = Idle
    BY <1>3 DEF StorePayment, StoreRefund, SaveReconciliation, HandlerFails, TypeOK
  <2> QED
    BY <2>1, Blank DEF Idle
<1>4. CASE \E k \in RefundKeys, c \in Checkouts, a \in RefundAmounts : StartRefund(w, k, c, a)
  <2>1. job'[w].at = "load_paid"
    BY <1>4 DEF StartRefund, TypeOK
  <2> QED
    BY <2>1, Blank
<1>5. CASE LoadPaid(w) \/ SumReserved(w)
  <2>1. job[w] \in [at : {"load_paid", "sum_reserved", "create_refund", "store_refund"},
                    key : RefundKeys, checkout : Checkouts, amount : RefundAmounts]
    BY <1>5, JobRecords DEF LoadPaid, SumReserved
  <2>2. /\ job'[w].at \in {"sum_reserved", "create_refund"}
        /\ job'[w].checkout = job[w].checkout
    BY <1>5, <2>1 DEF LoadPaid, SumReserved, TypeOK
  <2>3. payment'[job[w].checkout].status = "SUCCEEDED"
    BY <1>5 DEF LoadPaid, SumReserved, Knowledge, HandlerKnows, RequestKnows
  <2> QED
    BY <2>2, <2>3
       DEF HandlerKnows, PaymentDeliveryKnows, RefundDeliveryKnows, IgnoringKnows, RequestKnows
<1>6. CASE CreateRefund(w)
  <2> DEFINE r == <<job[w].checkout, job[w].key>>
  <2>1. job[w] \in [at : {"load_paid", "sum_reserved", "create_refund", "store_refund"},
                    key : RefundKeys, checkout : Checkouts, amount : RefundAmounts]
    BY <1>6, JobRecords DEF CreateRefund
  <2>2. /\ job'[w].at = "store_refund" /\ job'[w].checkout = job[w].checkout
        /\ job'[w].key = job[w].key /\ job'[w].amount = job[w].amount
    BY <1>6, <2>1 DEF CreateRefund, TypeOK
  <2>3. payment'[job[w].checkout].status = "SUCCEEDED"
    BY <1>6 DEF CreateRefund, Knowledge, HandlerKnows, RequestKnows
  <2>4. r \in Refunds
    BY <2>1 DEF Refunds
  <2>5. providerRefund'[r].status # "NONE" /\ providerRefund'[r].amount = job[w].amount
    <3> HIDE DEF r
    <3>1. CASE providerRefund[r] = NoProviderRefund
      <4>1. PICK s \in {"PENDING", "SUCCEEDED"} :
              providerRefund' = [providerRefund EXCEPT ![r] = [status |-> s, amount |-> job[w].amount]]
        BY <1>6, <3>1 DEF CreateRefund, r
      <4> QED
        BY <2>4, <4>1 DEF TypeOK
    <3>2. CASE providerRefund[r] # NoProviderRefund
      <4>1. UNCHANGED providerRefund /\ providerRefund[r].amount = job[w].amount
        BY <1>6, <3>2 DEF CreateRefund, AnswersCommand, r
      <4> QED
        BY <2>4, <3>2, <4>1 DEF TypeOK, RefundStatuses
    <3> QED
      BY <3>1, <3>2
  <2> QED
    BY <2>2, <2>3, <2>5
       DEF HandlerKnows, PaymentDeliveryKnows, RefundDeliveryKnows, IgnoringKnows, RequestKnows
<1>7. CASE \E c \in Checkouts : StartReconciliation(w, c)
  <2>1. PICK c \in Checkouts : StartReconciliation(w, c)
    BY <1>7
  <2>2. /\ job'[w].at = "retrieve_payment" /\ job'[w].checkout = c
        /\ job'[w].local = payment[c].status
        /\ payment' = payment /\ payment[c] # NoPayment
    BY <2>1 DEF StartReconciliation, TypeOK
  <2> QED
    BY <2>2
       DEF HandlerKnows, PaymentDeliveryKnows, RefundDeliveryKnows, IgnoringKnows, RequestKnows
<1> QED
  BY <1>1, <1>2, <1>3, <1>4, <1>5, <1>6, <1>7 DEF Initiation, RefundRequest, Reconciliation

(* What the steps of a webhook delivery teach their handler. *)
LEMMA WebhookLearns ==
    ASSUME TypeOK, Knowledge, NEW w \in Workers, Webhook(w)
    PROVE  HandlerKnows(w)'
<1> USE DEF tables, provider
<1>1. CASE \E e \in Events : StartWebhook(w, e)
  <2>1. PICK e \in Events : StartWebhook(w, e)
    BY <1>1
  <2>2. /\ event' = event /\ job'[w].event = e
        /\ job'[w].at = IF event[e].kind = "PAYMENT" THEN "load_payment" ELSE "load_refund"
    BY <2>1 DEF StartWebhook, TypeOK
  <2>3. event[e].kind \in {"PAYMENT", "REFUND"}
    BY <2>1, EventRecords DEF StartWebhook
  <2> QED
    BY <2>2, <2>3
       DEF HandlerKnows, PaymentDeliveryKnows, RefundDeliveryKnows, IgnoringKnows, RequestKnows
<1>2. CASE LoadPayment(w)
  <2>0. PICK e \in Events : e = job[w].event
    BY <1>2, JobRecords DEF LoadPayment
  <2> DEFINE seen == payment[event[e].checkout]
             why == PaymentVerdict(event[e], seen)
  <2>1. /\ e \in Events /\ event[e] \in PaymentEvents /\ event[e].kind = "PAYMENT"
        /\ event' = event /\ payment' = payment
    BY <1>2, <2>0, JobRecords, EventRecords DEF LoadPayment, Knowledge, HandlerKnows, PaymentDeliveryKnows
  <2>2. CASE why = "APPLIED"
    <3>1. job'[w] = [at |-> "apply_payment_event", event |-> e, seen |-> seen]
      BY <1>2, <2>0, <2>2 DEF LoadPayment, TypeOK
    <3>2. seen \in PaymentRow
      BY <2>1, <2>2, PaymentVerdictValues DEF TypeOK, PaymentEvents
    <3>3. Snapshot(seen, seen)
      BY <3>2 DEF Snapshot, PaymentRow
    <3> QED
      BY <2>1, <2>2, <3>1, <3>3
         DEF HandlerKnows, PaymentDeliveryKnows, RefundDeliveryKnows, IgnoringKnows, RequestKnows
  <2>3. CASE why # "APPLIED"
    <3>1. job'[w] = [at |-> "ignore_event", event |-> e, why |-> why]
      BY <1>2, <2>0, <2>3 DEF LoadPayment, TypeOK
    <3>2. why \notin NotFound => StaysIgnored(e)
      BY <2>1, <2>3, PaymentVerdictValues DEF StaysIgnored
    <3>3. StaysIgnored(e) => StaysIgnored(e)'
      BY <2>1 DEF StaysIgnored
    <3>4. event[e] # NoEvent
      BY <2>1 DEF NoEvent
    <3> HIDE DEF why
    <3>5. why \notin NotFound => StaysIgnored(e)'
      BY <3>2, <3>3
    <3>6. IgnoringKnows(w)'
      BY <2>1, <3>1, <3>4, <3>5 DEF IgnoringKnows
    <3> QED
      BY <3>1, <3>6
         DEF HandlerKnows, PaymentDeliveryKnows, RefundDeliveryKnows, RequestKnows
  <2> QED
    BY <2>2, <2>3
<1>3. CASE LoadRefund(w)
  <2>0. PICK e \in Events : e = job[w].event
    BY <1>3, JobRecords DEF LoadRefund
  <2> DEFINE seen == refund[event[e].refund]
             why == RefundVerdict(event[e], seen)
  <2>1. /\ e \in Events /\ event[e] \in RefundEvents /\ event[e].kind = "REFUND"
        /\ event' = event /\ refund' = refund
    BY <1>3, <2>0, JobRecords, EventRecords DEF LoadRefund, Knowledge, HandlerKnows, RefundDeliveryKnows
  <2>2. CASE why = "APPLIED"
    <3>1. job'[w] = [at |-> "load_refunded_payment", event |-> e, seen |-> seen]
      BY <1>3, <2>0, <2>2 DEF LoadRefund, TypeOK
    <3>2. seen \in RefundRow
      BY <2>1, <2>2, RefundVerdictValues DEF TypeOK, RefundEvents
    <3>3. Snapshot(seen, seen)
      BY <3>2 DEF Snapshot, RefundRow
    <3> QED
      BY <2>1, <2>2, <3>1, <3>3
         DEF HandlerKnows, PaymentDeliveryKnows, RefundDeliveryKnows, IgnoringKnows, RequestKnows
  <2>3. CASE why # "APPLIED"
    <3>1. job'[w] = [at |-> "ignore_event", event |-> e, why |-> why]
      BY <1>3, <2>0, <2>3 DEF LoadRefund, TypeOK
    <3>2. why \notin NotFound => StaysIgnored(e)
      BY <2>1, <2>3, RefundVerdictValues DEF StaysIgnored
    <3>3. StaysIgnored(e) => StaysIgnored(e)'
      BY <2>1 DEF StaysIgnored
    <3>4. event[e] # NoEvent
      BY <2>1 DEF NoEvent
    <3> HIDE DEF why
    <3>5. why \notin NotFound => StaysIgnored(e)'
      BY <3>2, <3>3
    <3>6. IgnoringKnows(w)'
      BY <2>1, <3>1, <3>4, <3>5 DEF IgnoringKnows
    <3> QED
      BY <3>1, <3>6
         DEF HandlerKnows, PaymentDeliveryKnows, RefundDeliveryKnows, RequestKnows
  <2> QED
    BY <2>2, <2>3
<1>4. CASE LoadRefundedPayment(w)
  <2> DEFINE e == job[w].event
             paid == payment[event[e].refund[1]]
  <2>1. /\ e \in Events /\ event[e] \in RefundEvents /\ event[e].kind = "REFUND"
        /\ RefundVerdict(event[e], job[w].seen) = "APPLIED"
        /\ Snapshot(job[w].seen, refund[event[e].refund])
        /\ event' = event /\ refund' = refund /\ payment' = payment
    BY <1>4, JobRecords, EventRecords
       DEF LoadRefundedPayment, Knowledge, HandlerKnows, RefundDeliveryKnows
  <2>2. job'[w] = [at |-> "apply_refund_event", event |-> e, seen |-> job[w].seen, paid |-> paid]
    BY <1>4 DEF LoadRefundedPayment, TypeOK
  <2>3. paid \in PaymentRow
    BY <1>4, <2>1, RefundPairs DEF LoadRefundedPayment, TypeOK, RefundEvents
  <2>4. Snapshot(paid, paid)
    BY <2>3 DEF Snapshot, PaymentRow
  <2>5. RefundDeliveryKnows(w)'
    <3> HIDE DEF e, paid
    <3>1. event'[e].kind = "REFUND" /\ payment'[event'[e].refund[1]] = paid
      BY <2>1 DEF paid
    <3> QED
      BY <2>1, <2>2, <2>4, <3>1 DEF RefundDeliveryKnows
  <2>6. PaymentDeliveryKnows(w)' /\ IgnoringKnows(w)' /\ RequestKnows(w)'
    <3> HIDE DEF e, paid
    <3> QED
      BY <2>2 DEF PaymentDeliveryKnows, IgnoringKnows, RequestKnows
  <2> QED
    BY <2>5, <2>6 DEF HandlerKnows
<1>5. CASE ApplyPaymentEvent(w) \/ IgnoreEvent(w) \/ ApplyRefundEvent(w)
  <2>1. job'[w] = Idle
    BY <1>5 DEF ApplyPaymentEvent, IgnoreEvent, ApplyRefundEvent, TypeOK
  <2> QED
    BY <2>1, Blank DEF Idle
<1> QED
  BY <1>1, <1>2, <1>3, <1>4, <1>5 DEF Webhook

(* An emitted event stays true, and a new one is true when it is emitted. *)
LEMMA EventsStayTrue ==
    ASSUME TypeOK, TypeOK', Knowledge, Moves, [Next]_vars, NEW e \in Events
    PROVE  EventIsTrue(e)'
<1> USE DEF tables, provider
<1>1. CASE event[e] # NoEvent
  <2>1. event'[e] = event[e] /\ EventIsTrue(e)
    BY <1>1 DEF Moves, Knowledge
  <2>2. CASE event[e].kind = "PAYMENT"
    <3>1. event[e].checkout \in Checkouts
      BY <2>2, EventRecords DEF PaymentEvents
    <3> QED
      BY <2>1, <2>2, <3>1 DEF EventIsTrue, Moves, IntentMoves, NoIntent, Terminal
  <2>3. CASE event[e].kind = "REFUND"
    <3>1. event[e].refund \in Refunds
      BY <2>3, EventRecords DEF RefundEvents
    <3> QED
      BY <2>1, <2>3, <3>1 DEF EventIsTrue, Moves, ProviderRefundMoves, NoProviderRefund
  <2> QED
    BY <1>1, <2>2, <2>3, EventRecords
<1>2. CASE event'[e] = event[e] /\ event[e] = NoEvent
  BY <1>2 DEF EventIsTrue, NoEvent
<1>3. CASE event'[e] # event[e]
  <2>1. ASSUME NEW ev, Emit(ev) PROVE event'[e] = ev
    BY <1>3, <2>1 DEF Emit, TypeOK
  <2>2. ASSUME NEW c \in Checkouts, NEW s \in {"REQUIRES_ACTION", "PROCESSING"},
               IntentProgresses(c, s)
        PROVE  EventIsTrue(e)'
    BY <2>1, <2>2 DEF IntentProgresses, PaymentEvent, EventIsTrue, Terminal
  <2>3. ASSUME NEW c \in Checkouts, AttemptFails(c) PROVE EventIsTrue(e)'
    BY <2>1, <2>3 DEF AttemptFails, PaymentEvent, EventIsTrue, Terminal
  <2>4. ASSUME NEW c \in Checkouts, NEW s \in Terminal,
               NEW a \in CapturedAmounts \cup {Amount[c]}, IntentSettles(c, s, a)
        PROVE  EventIsTrue(e)'
    <3>1. event'[e] = PaymentEvent(c, s, a)
      BY <2>1, <2>4 DEF IntentSettles
    <3>2. intent'[c].status = s
      BY <2>4 DEF IntentSettles, TypeOK, NoIntent, Open
    <3> QED
      BY <2>4, <3>1, <3>2 DEF IntentSettles, PaymentEvent, EventIsTrue
  <2>5. ASSUME NEW r \in Refunds, NEW s \in {"SUCCEEDED", "FAILED"}, RefundSettles(r, s)
        PROVE  EventIsTrue(e)'
    <3>1. event'[e] = RefundEvent(r, s, providerRefund[r].amount)
      BY <2>1, <2>5 DEF RefundSettles
    <3>2. providerRefund'[r].status = s /\ providerRefund'[r].amount = providerRefund[r].amount
      BY <2>5 DEF RefundSettles, TypeOK, NoProviderRefund
    <3> QED
      BY <3>1, <3>2 DEF RefundEvent, EventIsTrue
  <2>6. ASSUME NEW r \in Refunds, RefundUpdated(r) PROVE EventIsTrue(e)'
    <3>1. event'[e] = RefundEvent(r, providerRefund[r].status, providerRefund[r].amount)
      BY <2>1, <2>6 DEF RefundUpdated
    <3>2. providerRefund' = providerRefund /\ providerRefund[r].status # "NONE"
      BY <2>6 DEF RefundUpdated, TypeOK, RefundStatuses
    <3> QED
      BY <3>1, <3>2 DEF RefundEvent, EventIsTrue
  <2>7. ASSUME NEW w \in Workers, CreateRefund(w) PROVE EventIsTrue(e)'
    <3> DEFINE r == <<job[w].checkout, job[w].key>>
    <3>1. r \in Refunds
      BY <2>7, JobRecords DEF CreateRefund, Refunds
    <3> HIDE DEF r
    <3>2. PICK s \in {"PENDING", "SUCCEEDED"} :
            /\ providerRefund' = [providerRefund EXCEPT ![r] = [status |-> s, amount |-> job[w].amount]]
            /\ Emit(RefundEvent(r, s, job[w].amount))
      BY <1>3, <2>7 DEF CreateRefund, r
    <3>3. event'[e] = RefundEvent(r, s, job[w].amount)
      BY <2>1, <3>2
    <3>4. providerRefund'[r] = [status |-> s, amount |-> job[w].amount]
      BY <3>1, <3>2 DEF TypeOK
    <3> QED
      BY <3>3, <3>4 DEF RefundEvent, EventIsTrue
  <2> QED
    BY <1>3, <2>2, <2>3, <2>4, <2>5, <2>6, <2>7, Writers
<1> QED
  BY <1>1, <1>2, <1>3

(* A receipt on record is of an emitted event, and a final reason to ignore it stays final. *)
LEMMA ReceiptsStayTrue ==
    ASSUME TypeOK, TypeOK', Knowledge, Moves, [Next]_vars, NEW e \in Events
    PROVE  ReceiptKnows(e)'
<1> USE DEF tables, provider
<1>1. CASE receipt'[e] = receipt[e]
  <2>1. EventRecorded(e) => event'[e] # NoEvent
    BY DEF Knowledge, ReceiptKnows, Moves
  <2>2. receipt[e] \in IgnoredReasons \ NotFound => StaysIgnored(e)'
    BY StaysIgnoredKeeps DEF Knowledge, ReceiptKnows
  <2> QED
    BY <1>1, <2>1, <2>2 DEF ReceiptKnows, EventRecorded
<1>2. CASE receipt'[e] # receipt[e]
  <2>1. ASSUME NEW w \in Workers, ApplyPaymentEvent(w) \/ ApplyRefundEvent(w)
        PROVE  ReceiptKnows(e)'
    <3>1. e = job[w].event /\ receipt'[e] = "APPLIED" /\ event' = event
      BY <1>2, <2>1 DEF ApplyPaymentEvent, ApplyRefundEvent, TypeOK
    <3>2. event[e].kind \in {"PAYMENT", "REFUND"}
      BY <2>1, <3>1 DEF ApplyPaymentEvent, ApplyRefundEvent, Knowledge, HandlerKnows,
                        PaymentDeliveryKnows, RefundDeliveryKnows
    <3>3. receipt'[e] \notin IgnoredReasons
      BY <3>1 DEF IgnoredReasons, NotFound
    <3> QED
      BY <3>1, <3>2, <3>3 DEF ReceiptKnows, NoEvent
  <2>2. ASSUME NEW w \in Workers, IgnoreEvent(w) PROVE ReceiptKnows(e)'
    <3>1. e = job[w].event /\ receipt'[e] = job[w].why /\ event' = event
      BY <1>2, <2>2 DEF IgnoreEvent, TypeOK
    <3>2. event[e] # NoEvent /\ (job[w].why \notin NotFound => StaysIgnored(e))
      BY <2>2, <3>1 DEF IgnoreEvent, Knowledge, HandlerKnows, IgnoringKnows
    <3> QED
      BY <3>1, <3>2, StaysIgnoredKeeps DEF ReceiptKnows
  <2> QED
    BY <1>2, <2>1, <2>2, Writers
<1> QED
  BY <1>1, <1>2

(* A stored payment is always one the provider holds. *)
LEMMA PaymentsKeepIntents ==
    ASSUME TypeOK, Knowledge, Moves, [Next]_vars, NEW c \in Checkouts, payment'[c] # NoPayment
    PROVE  intent'[c] # NoIntent
<1>1. CASE payment[c] # NoPayment
  BY <1>1 DEF Knowledge, Moves, IntentMoves
<1>2. CASE payment[c] = NoPayment
  <2>1. intent[c] # NoIntent
    <3>1. ASSUME NEW w \in Workers, StorePayment(w) PROVE intent[c] # NoIntent
      BY <1>2, <3>1 DEF StorePayment, TypeOK, Knowledge, HandlerKnows, RequestKnows
    <3>2. ASSUME NEW w \in Workers, ApplyPaymentEvent(w) PROVE FALSE
      <4>1. /\ job[w].event \in Events /\ event[job[w].event] \in PaymentEvents
            /\ job[w].seen \in PaymentRow
        BY <3>2, JobRecords, EventRecords
           DEF ApplyPaymentEvent, Knowledge, HandlerKnows, PaymentDeliveryKnows
      <4>2. c = event[job[w].event].checkout
        BY <1>2, <3>2 DEF ApplyPaymentEvent, TypeOK
      <4> QED
        BY <1>2, <3>2, <4>1, <4>2 DEF ApplyPaymentEvent, PaymentVersionHolds, PaymentRow, NoPayment
    <3>3. ASSUME NEW w \in Workers, ApplyRefundEvent(w) PROVE FALSE
      <4>1. job[w].paid \in PaymentRow
        BY <3>3, JobRecords DEF ApplyRefundEvent
      <4>2. c = event[job[w].event].refund[1] /\ PaymentVersionHolds(c, job[w].paid)
        BY <1>2, <3>3 DEF ApplyRefundEvent, TypeOK
      <4> QED
        BY <1>2, <4>1, <4>2 DEF PaymentVersionHolds, PaymentRow, NoPayment
    <3> QED
      BY <1>2, <3>1, <3>2, <3>3, Writers
  <2> QED
    BY <2>1 DEF Moves, IntentMoves
<1> QED
  BY <1>1, <1>2

(* What is known survives every step. *)
LEMMA KnowledgeStep ==
    ASSUME TypeOK, TypeOK', Knowledge, Moves, Next
    PROVE  Knowledge'
<1>1. ASSUME NEW w \in Workers PROVE HandlerKnows(w)'
  <2>1. CASE job'[w] = job[w]
    BY <2>1, HandlerKeeps DEF Knowledge
  <2>2. CASE Acts(w)
    BY <2>2, RequestLearns, WebhookLearns DEF Acts
  <2> QED
    BY <2>1, <2>2, OneHandler
<1> QED
  BY <1>1, EventsStayTrue, ReceiptsStayTrue, PaymentsKeepIntents DEF Knowledge

(* An applied payment event writes its own status over the row that was read. *)
LEMMA AppliedPaymentEvent ==
    ASSUME TypeOK, Knowledge, NEW w \in Workers, ApplyPaymentEvent(w)
    PROVE  LET e == job[w].event
               c == event[e].checkout
           IN /\ e \in Events /\ c \in Checkouts /\ event[e] \in PaymentEvents
              /\ event[e].kind = "PAYMENT"
              /\ payment'[c].status = event[e].status
              /\ \A d \in Checkouts \ {c} : payment'[d] = payment[d]
              /\ receipt'[e] = "APPLIED"
              /\ event[e].status = "SUCCEEDED" => event[e].amount = Amount[c]
<1> DEFINE e == job[w].event
           c == event[e].checkout
<1>1. /\ e \in Events /\ event[e] \in PaymentEvents /\ event[e].kind = "PAYMENT"
      /\ PaymentVerdict(event[e], job[w].seen) = "APPLIED"
  BY JobRecords, EventRecords DEF ApplyPaymentEvent, Knowledge, HandlerKnows, PaymentDeliveryKnows
<1>2. c \in Checkouts
  BY <1>1 DEF PaymentEvents
<1>3. event[e].status = "SUCCEEDED" => event[e].amount = Amount[c]
  BY <1>1 DEF PaymentVerdict
<1>4. payment'[c].status = event[e].status /\ \A d \in Checkouts \ {c} : payment'[d] = payment[d]
  BY <1>1, <1>2 DEF ApplyPaymentEvent, TypeOK
<1>5. receipt'[e] = "APPLIED"
  BY <1>1 DEF ApplyPaymentEvent, TypeOK
<1> QED
  BY <1>1, <1>2, <1>3, <1>4, <1>5

(* A settled refund event settles the refund it names as the provider did. *)
LEMMA AppliedRefundEvent ==
    ASSUME TypeOK, Knowledge, NEW w \in Workers, ApplyRefundEvent(w)
    PROVE  LET e == job[w].event
               r == event[e].refund
           IN /\ e \in Events /\ r \in Refunds
              /\ event[e].status # "PENDING" /\ event[e].kind = "REFUND"
              /\ refund'[r].status = event[e].status
              /\ \A q \in Refunds \ {r} : refund'[q] = refund[q]
              /\ \A c \in Checkouts : payment'[c].status = payment[c].status
<1> DEFINE e == job[w].event
           r == event[e].refund
<1>1. /\ e \in Events /\ event[e] \in RefundEvents /\ event[e].kind = "REFUND"
      /\ RefundVerdict(event[e], job[w].seen) = "APPLIED"
      /\ job[w].paid \in PaymentRow
      /\ Snapshot(job[w].paid, payment[r[1]])
  BY JobRecords, EventRecords DEF ApplyRefundEvent, Knowledge, HandlerKnows, RefundDeliveryKnows
<1>2. r \in Refunds /\ r[1] \in Checkouts
  BY <1>1, RefundPairs DEF RefundEvents
<1>3. event[e].status # "PENDING"
  BY <1>1 DEF RefundVerdict
<1>4. refund'[r].status = event[e].status /\ \A q \in Refunds \ {r} : refund'[q] = refund[q]
  BY <1>1, <1>2 DEF ApplyRefundEvent, TypeOK
<1>5. ASSUME NEW c \in Checkouts PROVE payment'[c].status = payment[c].status
  <2>1. CASE UNCHANGED payment
    BY <2>1
  <2>2. CASE /\ PaymentVersionHolds(r[1], job[w].paid)
             /\ payment' = [payment EXCEPT ![r[1]] =
                  [status |-> job[w].paid.status, version |-> job[w].paid.version + 1,
                   refunded |-> job[w].paid.refunded + job[w].seen.amount]]
    <3>1. job[w].paid = payment[r[1]]
      BY <1>1, <2>2 DEF PaymentVersionHolds, Snapshot
    <3>2. payment'[r[1]].status = job[w].paid.status
      BY <1>2, <2>2 DEF TypeOK
    <3>3. c # r[1] => payment'[c] = payment[c]
      BY <1>2, <2>2 DEF TypeOK
    <3> QED
      BY <3>1, <3>2, <3>3
  <2> QED
    BY <2>1, <2>2 DEF ApplyRefundEvent
<1> QED
  BY <1>1, <1>2, <1>3, <1>4, <1>5

(* A terminal status stays, on both sides. *)
LEMMA TerminalStays ==
    ASSUME Moves, NEW c \in Checkouts
    PROVE  /\ payment[c].status \in Terminal => payment'[c].status = payment[c].status
           /\ intent[c].status \in Terminal => intent'[c].status = intent[c].status
  BY DEF Moves, PaymentMoves, IntentMoves, ForwardTransition, Terminal, NoPayment, NoIntent

(* A step makes a payment terminal only by applying the provider's own outcome. *)
LEMMA VerifiedStep ==
    ASSUME TypeOK, TypeOK', Knowledge, Moves, Next, TerminalIsVerified
    PROVE  TerminalIsVerified'
<1> USE DEF tables, provider
<1> SUFFICES ASSUME NEW c \in Checkouts, payment'[c].status \in Terminal
             PROVE  /\ intent'[c].status = payment'[c].status
                    /\ \E e \in Events : /\ receipt'[e] = "APPLIED"
                                         /\ event'[e] = PaymentEvent(c, payment'[c].status, Amount[c])
  BY DEF TerminalIsVerified
<1>1. CASE payment[c].status \in Terminal
  <2>1. /\ payment'[c].status = payment[c].status
        /\ intent'[c].status = payment[c].status
    BY <1>1, TerminalStays DEF TerminalIsVerified
  <2>2. PICK e \in Events : /\ receipt[e] = "APPLIED"
                            /\ event[e] = PaymentEvent(c, payment[c].status, Amount[c])
    BY <1>1 DEF TerminalIsVerified
  <2>3. receipt'[e] = "APPLIED" /\ event'[e] = event[e]
    BY <2>2 DEF Moves, EventRecorded, PaymentEvent, NoEvent
  <2> QED
    BY <2>1, <2>2, <2>3
<1>2. CASE payment[c].status \notin Terminal
  <2>1. PICK w \in Workers : ApplyPaymentEvent(w) /\ c = event[job[w].event].checkout
    <3>1. ASSUME NEW w \in Workers, StorePayment(w) PROVE FALSE
      <4>1. job[w].status \in Open
        BY <3>1, JobRecords DEF StorePayment
      <4>2. payment'[c].status = job[w].status \/ payment'[c] = payment[c]
        BY <3>1 DEF StorePayment, TypeOK
      <4> QED
        BY <1>2, <4>1, <4>2 DEF Open, Terminal
    <3>2. ASSUME NEW w \in Workers, ApplyRefundEvent(w) PROVE FALSE
      BY <1>2, <3>2, AppliedRefundEvent
    <3>3. ASSUME NEW w \in Workers, ApplyPaymentEvent(w) PROVE c = event[job[w].event].checkout
      BY <1>2, <3>3, AppliedPaymentEvent
    <3> QED
      BY <1>2, <3>1, <3>2, <3>3, Writers
  <2> DEFINE e == job[w].event
  <2>2. /\ e \in Events /\ event[e] \in PaymentEvents /\ event[e].kind = "PAYMENT"
        /\ payment'[c].status = event[e].status
        /\ receipt'[e] = "APPLIED"
        /\ event[e].status = "SUCCEEDED" => event[e].amount = Amount[c]
    BY <2>1, AppliedPaymentEvent
  <2>3. /\ intent[c].status = event[e].status
        /\ event[e].status # "SUCCEEDED" => event[e].amount = Amount[c]
    BY <2>1, <2>2 DEF Knowledge, EventIsTrue
  <2>4. event[e] = PaymentEvent(c, event[e].status, Amount[c])
    BY <2>1, <2>2, <2>3 DEF PaymentEvents, PaymentEvent
  <2>5. event' = event /\ intent' = intent
    BY <2>1 DEF ApplyPaymentEvent
  <2> QED
    BY <2>2, <2>3, <2>4, <2>5
<1> QED
  BY <1>1, <1>2

(* A step stores only the provider's refunds and settles them as the provider did. *)
LEMMA RefundsStep ==
    ASSUME TypeOK, TypeOK', Knowledge, Moves, Next, RefundIsTheProviders
    PROVE  RefundIsTheProviders'
<1> USE DEF tables, provider
<1> SUFFICES ASSUME NEW r \in Refunds, refund'[r] # NoRefund
             PROVE  /\ payment'[r[1]].status = "SUCCEEDED"
                    /\ providerRefund'[r].amount = refund'[r].amount
                    /\ refund'[r].status # "PENDING" => providerRefund'[r].status = refund'[r].status
  BY DEF RefundIsTheProviders
<1>0. r[1] \in Checkouts /\ r = <<r[1], r[2]>>
  BY RefundPairs
<1>1. CASE refund[r] # NoRefund
  <2>1. /\ payment[r[1]].status = "SUCCEEDED"
        /\ providerRefund[r].amount = refund[r].amount
        /\ refund[r].status # "PENDING" => providerRefund[r].status = refund[r].status
        /\ refund[r] \in RefundRow
    BY <1>1 DEF RefundIsTheProviders, TypeOK
  <2>2. payment'[r[1]].status = "SUCCEEDED"
    BY <1>0, <2>1, TerminalStays DEF Terminal
  <2>3. refund[r].amount # 0 /\ providerRefund[r] # NoProviderRefund
    BY <2>1, PaymentAssumption DEF RefundRow, NoProviderRefund
  <2>4. /\ providerRefund'[r].amount = providerRefund[r].amount
        /\ providerRefund[r].status # "PENDING" => providerRefund'[r].status = providerRefund[r].status
    BY <2>3 DEF Moves, ProviderRefundMoves
  <2>5. refund'[r].amount = refund[r].amount
    BY <1>1 DEF Moves, RefundMoves
  <2>6. CASE refund'[r].status = refund[r].status
    <3>1. refund[r].status # "PENDING" => providerRefund[r].status # "PENDING"
      BY <2>1
    <3> QED
      BY <2>1, <2>2, <2>4, <2>5, <2>6, <3>1
  <2>7. CASE refund'[r].status # refund[r].status
    <3>1. ASSUME NEW w \in Workers, StoreRefund(w) PROVE FALSE
      BY <1>1, <2>7, <3>1 DEF StoreRefund, RefundKeyUsed, TypeOK, Refunds
    <3>2. PICK w \in Workers : ApplyRefundEvent(w)
      BY <2>7, <3>1, Writers
    <3>3. /\ job[w].event \in Events /\ r = event[job[w].event].refund
          /\ event[job[w].event].status # "PENDING" /\ event[job[w].event].kind = "REFUND"
          /\ refund'[r].status = event[job[w].event].status
      BY <2>7, <3>2, AppliedRefundEvent
    <3>4. providerRefund[r].status = refund'[r].status
      BY <3>3 DEF Knowledge, EventIsTrue
    <3>5. UNCHANGED providerRefund
      BY <3>2 DEF ApplyRefundEvent
    <3> QED
      BY <2>1, <2>2, <2>5, <3>4, <3>5
  <2> QED
    BY <2>6, <2>7
<1>2. CASE refund[r] = NoRefund
  <2>1. ASSUME NEW w \in Workers, ApplyRefundEvent(w) PROVE FALSE
    <3>1. /\ job[w].event \in Events /\ event[job[w].event] \in RefundEvents
          /\ job[w].seen \in RefundRow
      BY <2>1, JobRecords, EventRecords
         DEF ApplyRefundEvent, Knowledge, HandlerKnows, RefundDeliveryKnows
    <3>2. r = event[job[w].event].refund
      BY <1>2, <2>1, AppliedRefundEvent
    <3> QED
      BY <1>2, <2>1, <3>1, <3>2 DEF ApplyRefundEvent, RefundVersionHolds, RefundRow, NoRefund
  <2>2. PICK w \in Workers : StoreRefund(w)
    BY <1>2, <2>1, Writers
  <2>3. job[w].checkout \in Checkouts /\ job[w].key \in RefundKeys
    BY <2>2, JobRecords DEF StoreRefund
  <2>4. /\ r = <<job[w].checkout, job[w].key>>
        /\ refund'[r] = [status |-> "PENDING", version |-> 1, amount |-> job[w].amount]
    BY <1>2, <2>2, <2>3 DEF StoreRefund, TypeOK, Refunds
  <2>5. providerRefund[r].amount = job[w].amount /\ payment[r[1]].status = "SUCCEEDED"
    BY <2>2, <2>4 DEF StoreRefund, Knowledge, HandlerKnows, RequestKnows
  <2>6. UNCHANGED <<providerRefund, payment>>
    BY <2>2 DEF StoreRefund
  <2> QED
    BY <2>4, <2>5, <2>6
<1> QED
  BY <1>1, <1>2

(* A step records a final match only where both sides are final. *)
LEMMA MatchStep ==
    ASSUME TypeOK, TypeOK', Knowledge, Moves, Next, MatchIsFinal
    PROVE  MatchIsFinal'
<1> USE DEF tables, provider
<1> SUFFICES ASSUME NEW o \in observation', o.match, o.local \in Terminal
             PROVE  payment'[o.checkout].status = o.local /\ intent'[o.checkout].status = o.local
  BY DEF MatchIsFinal
<1>1. o.checkout \in Checkouts
  BY DEF TypeOK
<1>2. CASE o \in observation
  <2>1. payment[o.checkout].status = o.local /\ intent[o.checkout].status = o.local
    BY <1>2 DEF MatchIsFinal
  <2> QED
    BY <1>1, <2>1, TerminalStays
<1>3. CASE o \notin observation
  <2>1. PICK w \in Workers : SaveReconciliation(w)
    BY <1>3, Writers
  <2>2. o = [checkout |-> job[w].checkout, local |-> job[w].local,
             observed |-> intent[job[w].checkout].status,
             match |-> job[w].local = intent[job[w].checkout].status]
    BY <1>3, <2>1 DEF SaveReconciliation
  <2>3. intent[o.checkout].status = o.local
    BY <2>2
  <2>4. payment[o.checkout].status = o.local
    BY <2>1, <2>2 DEF SaveReconciliation, Knowledge, HandlerKnows, RequestKnows
  <2> QED
    BY <1>1, <2>3, <2>4, TerminalStays
<1> QED
  BY <1>2, <1>3

(* The invariant holds initially. *)
LEMMA InitIInv == Init => IInv
<1> SUFFICES ASSUME Init PROVE IInv
  OBVIOUS
<1>1. TypeOK
  BY InitType
<1>2. Knowledge
  BY DEF Init, Knowledge, EventIsTrue, ReceiptKnows, EventRecorded, HandlerKnows, NoEvent, Idle,
         PaymentDeliveryKnows, RefundDeliveryKnows, IgnoringKnows, RequestKnows,
         IgnoredReasons, NotFound
<1>3. TerminalIsVerified
  BY DEF Init, TerminalIsVerified, NoPayment, Terminal
<1>4. RefundIsTheProviders /\ MatchIsFinal
  BY DEF Init, RefundIsTheProviders, MatchIsFinal
<1> QED
  BY <1>1, <1>2, <1>3, <1>4 DEF IInv

(* A stuttering step keeps the invariant. *)
LEMMA StutterIInv == IInv /\ UNCHANGED vars => IInv'
<1> SUFFICES ASSUME IInv, UNCHANGED vars PROVE IInv'
  OBVIOUS
<1> USE DEF vars, tables, provider
<1>1. TypeOK'
  BY DEF IInv, TypeOK
<1>2. Knowledge'
  <2>1. ASSUME NEW w \in Workers PROVE HandlerKnows(w)'
    BY DEF IInv, Knowledge, HandlerKnows, PaymentDeliveryKnows, RefundDeliveryKnows, IgnoringKnows,
           RequestKnows, StaysIgnored
  <2>2. ASSUME NEW e \in Events PROVE EventIsTrue(e)' /\ ReceiptKnows(e)'
    BY DEF IInv, Knowledge, EventIsTrue, ReceiptKnows, EventRecorded, StaysIgnored
  <2> QED
    BY <2>1, <2>2 DEF IInv, Knowledge
<1>3. TerminalIsVerified' /\ RefundIsTheProviders' /\ MatchIsFinal'
  BY DEF IInv, TerminalIsVerified, RefundIsTheProviders, MatchIsFinal
<1> QED
  BY <1>1, <1>2, <1>3 DEF IInv

(* Every step keeps the invariant. *)
LEMMA StepIInv == IInv /\ [Next]_vars => IInv'
<1> SUFFICES ASSUME IInv, Next PROVE IInv'
  BY StutterIInv
<1>1. TypeOK /\ Knowledge /\ Moves
  BY StepMoves DEF IInv
<1>2. TypeOK'
  BY <1>1, TypeStep
<1> QED
  BY <1>1, <1>2, KnowledgeStep, VerifiedStep, RefundsStep, MatchStep DEF IInv

(***************************************************************************)
(* The inductive invariant, for any number of handlers, checkouts, keys    *)
(* and provider events and any amounts.                                    *)
(***************************************************************************)
THEOREM Invariance == Spec => []IInv
<1>1. Init => IInv
  BY InitIInv
<1>2. IInv /\ [Next]_vars => IInv'
  BY StepIInv
<1> QED
  BY <1>1, <1>2, PTL DEF Spec

(* Type correctness. *)
THEOREM TypeCorrectness == Spec => []TypeOK
<1>1. IInv => TypeOK
  BY DEF IInv
<1> QED
  BY <1>1, Invariance, PTL

(* A payment is terminal only as the provider's own outcome, by a receipt  *)
(* on record, and succeeds only for its full amount.                       *)
THEOREM TerminalVerified == Spec => []TerminalIsVerified
<1>1. IInv => TerminalIsVerified
  BY DEF IInv
<1> QED
  BY <1>1, Invariance, PTL

(* A stored refund is the provider's, for the same amount, of a successful *)
(* payment, and settles only as the provider's did.                        *)
THEOREM RefundsAreTheProviders == Spec => []RefundIsTheProviders
<1>1. IInv => RefundIsTheProviders
  BY DEF IInv
<1> QED
  BY <1>1, Invariance, PTL

(* A reconciliation that matched a terminal status stays true. *)
THEOREM MatchesAreFinal == Spec => []MatchIsFinal
<1>1. IInv => MatchIsFinal
  BY DEF IInv
<1> QED
  BY <1>1, Invariance, PTL

(* An event ignored for a reason other than NOT_FOUND would still be ignored. *)
THEOREM IgnoredStaysIgnored == Spec => []IgnoredForGood
<1>1. IInv => IgnoredForGood
  <2> SUFFICES ASSUME IInv, NEW e \in Events, receipt[e] \in IgnoredReasons \ NotFound
               PROVE  IF event[e].kind = "PAYMENT"
                      THEN PaymentVerdict(event[e], payment[event[e].checkout]) # "APPLIED"
                      ELSE RefundVerdict(event[e], refund[event[e].refund]) # "APPLIED"
    BY DEF IgnoredForGood
  <2>1. StaysIgnored(e)
    BY DEF IInv, Knowledge, ReceiptKnows
  <2> QED
    BY <2>1 DEF StaysIgnored
<1> QED
  BY <1>1, Invariance, PTL

(* No step changes a terminal payment's status, lowers what was refunded,  *)
(* reopens a settled refund or revises a receipt.                          *)
THEOREM SettledStaysFinal == Spec => SettledIsFinal
<1> DEFINE Final ==
      /\ \A c \in Checkouts :
            /\ payment[c].status \in Terminal => payment'[c].status = payment[c].status
            /\ payment[c].refunded <= payment'[c].refunded
      /\ \A r \in Refunds : refund[r].status \in {"SUCCEEDED", "FAILED"} => refund'[r] = refund[r]
      /\ \A e \in Events : EventRecorded(e) => receipt'[e] = receipt[e]
<1>1. IInv /\ IInv' /\ [Next]_vars => [Final]_vars
  <2> SUFFICES ASSUME IInv, IInv', [Next]_vars PROVE Final
    OBVIOUS
  <2>1. TypeOK /\ TypeOK' /\ Moves
    BY StepMoves DEF IInv
  <2>2. ASSUME NEW c \in Checkouts PROVE payment[c].refunded <= payment'[c].refunded
    <3>1. /\ payment[c].refunded \in Nat /\ payment'[c].refunded \in Nat
          /\ payment[c] = NoPayment => payment[c].refunded = 0
      BY <2>1 DEF TypeOK, PaymentRow, NoPayment
    <3> QED
      BY <2>1, <3>1 DEF Moves, PaymentMoves
  <2>3. ASSUME NEW r \in Refunds, refund[r].status \in {"SUCCEEDED", "FAILED"}
        PROVE  refund'[r] = refund[r]
    BY <2>1, <2>3 DEF Moves, RefundMoves, NoRefund
  <2> QED
    BY <2>1, <2>2, <2>3, TerminalStays DEF Moves
<1>2. Spec => [][Final]_vars
  BY <1>1, Invariance, PTL DEF Spec
<1> QED
  BY <1>2 DEF SettledIsFinal

-----------------------------------------------------------------------------
(* Outcomes: what the service has answered for is what its rows say. *)

Settles(e, r) == receipt[e] = "APPLIED" /\ event[e].kind = "REFUND" /\ event[e].refund = r

(* The one event, if any, that has settled refund r. *)
OneSettler(r) ==
    IF refund[r].status \in {"SUCCEEDED", "FAILED"}
    THEN \E e \in Events : /\ event[e].status = refund[r].status
                           /\ \A f \in Events : Settles(f, r) <=> f = e
    ELSE \A f \in Events : ~Settles(f, r)

(* An applied outcome has made its payment terminal. *)
AppliedOutcome(e) ==
    receipt[e] = "APPLIED" /\ event[e].kind = "PAYMENT" /\ event[e].status \in Terminal =>
        payment[event[e].checkout].status \in Terminal

OutcomeInv ==
    /\ \A r \in Refunds : OneSettler(r)
    /\ \A e \in Events : AppliedOutcome(e)

(* A refund keeps its settler in a step that applies no refund event. *)
LEMMA SettlerKeeps ==
    ASSUME Knowledge, Moves, NEW r \in Refunds, OneSettler(r),
           \A f \in Events : (receipt'[f] = "APPLIED" /\ event'[f].kind = "REFUND")
                             => receipt[f] = "APPLIED",
           \/ refund'[r] = refund[r]
           \/ refund[r].status = "NONE" /\ refund'[r].status = "PENDING"
    PROVE  OneSettler(r)'
<1>1. ASSUME NEW f \in Events, receipt[f] = "APPLIED"
      PROVE  event'[f] = event[f] /\ receipt'[f] = receipt[f]
  BY <1>1 DEF Knowledge, ReceiptKnows, EventRecorded, Moves
<1>2. ASSUME NEW f \in Events PROVE Settles(f, r)' <=> Settles(f, r)
  BY <1>1 DEF Settles
<1>3. CASE refund[r].status \in {"SUCCEEDED", "FAILED"}
  <2>1. PICK e \in Events : /\ event[e].status = refund[r].status
                            /\ \A f \in Events : Settles(f, r) <=> f = e
    BY <1>3 DEF OneSettler
  <2>2. event'[e].status = refund'[r].status
    BY <1>1, <1>3, <2>1 DEF Settles
  <2> QED
    BY <1>2, <1>3, <2>1, <2>2 DEF OneSettler
<1>4. CASE refund[r].status \notin {"SUCCEEDED", "FAILED"}
  BY <1>2, <1>4 DEF OneSettler
<1> QED
  BY <1>3, <1>4

(* One step of the outcomes' invariant. *)
LEMMA OutcomeStep ==
    ASSUME TypeOK, TypeOK', Knowledge, Moves, [Next]_vars, OutcomeInv
    PROVE  OutcomeInv'
<1>1. ASSUME NEW e \in Events, NEW w \in Workers, IgnoreEvent(w), receipt'[e] = "APPLIED"
      PROVE  receipt[e] = "APPLIED"
  BY <1>1, JobRecords DEF IgnoreEvent, IgnoredReasons, NotFound, TypeOK
<1>2. ASSUME NEW e \in Events, NEW w \in Workers, ApplyPaymentEvent(w) \/ ApplyRefundEvent(w),
             receipt'[e] = "APPLIED", receipt[e] # "APPLIED"
      PROVE  e = job[w].event
  BY <1>2 DEF ApplyPaymentEvent, ApplyRefundEvent, TypeOK
<1>3. ASSUME NEW e \in Events PROVE AppliedOutcome(e)'
  <2> SUFFICES ASSUME receipt'[e] = "APPLIED", event'[e].kind = "PAYMENT",
                      event'[e].status \in Terminal
               PROVE  payment'[event'[e].checkout].status \in Terminal
    BY DEF AppliedOutcome
  <2>1. CASE receipt[e] = "APPLIED"
    <3>1. event'[e] = event[e] /\ event[e] \in PaymentEvents
      BY <2>1, EventRecords DEF Knowledge, ReceiptKnows, EventRecorded, Moves
    <3>2. event[e].checkout \in Checkouts /\ payment[event[e].checkout].status \in Terminal
      BY <2>1, <3>1 DEF OutcomeInv, AppliedOutcome, PaymentEvents
    <3> QED
      BY <3>1, <3>2, TerminalStays
  <2>2. CASE receipt[e] # "APPLIED"
    <3>1. PICK w \in Workers : ApplyPaymentEvent(w) \/ ApplyRefundEvent(w)
      BY <1>1, <2>2, Writers
    <3>2. e = job[w].event /\ event'[e] = event[e]
      BY <1>2, <2>2, <3>1 DEF ApplyPaymentEvent, ApplyRefundEvent, provider
    <3>3. ApplyPaymentEvent(w)
      BY <3>1, <3>2, AppliedRefundEvent
    <3> QED
      BY <3>2, <3>3, AppliedPaymentEvent
  <2> QED
    BY <2>1, <2>2
<1>4. ASSUME NEW r \in Refunds PROVE OneSettler(r)'
  <2>0. OneSettler(r)
    BY DEF OutcomeInv
  <2>1. ASSUME NEW w \in Workers, ApplyRefundEvent(w) PROVE OneSettler(r)'
    <3> DEFINE e == job[w].event
    <3>1. /\ e \in Events /\ event[e].status \in {"SUCCEEDED", "FAILED"}
          /\ event[e].kind = "REFUND" /\ event[e].refund \in Refunds
          /\ refund'[event[e].refund].status = event[e].status
          /\ \A q \in Refunds \ {event[e].refund} : refund'[q] = refund[q]
      BY <2>1, AppliedRefundEvent, EventRecords DEF RefundEvents, RefundStatuses
    <3>2. UNCHANGED event /\ receipt'[e] = "APPLIED"
          /\ \A f \in Events \ {e} : receipt'[f] = receipt[f]
      BY <2>1, <3>1 DEF ApplyRefundEvent, provider, TypeOK
    <3>3. CASE r = event[e].refund
      <4>1. refund[r].status \notin {"SUCCEEDED", "FAILED"}
        <5>1. /\ RefundVerdict(event[e], job[w].seen) = "APPLIED"
              /\ Snapshot(job[w].seen, refund[r])
          BY <2>1, <3>3 DEF ApplyRefundEvent, At, Knowledge, HandlerKnows, RefundDeliveryKnows
        <5>2. job[w].seen = refund[r]
          BY <2>1, <3>3, <5>1 DEF ApplyRefundEvent, RefundVersionHolds, Snapshot
        <5> QED
          BY <5>1, <5>2 DEF RefundVerdict
      <4>2. \A f \in Events : ~Settles(f, r)
        BY <2>0, <4>1 DEF OneSettler
      <4>3. \A f \in Events : Settles(f, r)' <=> f = e
        BY <3>1, <3>2, <3>3, <4>2 DEF Settles
      <4>4. event'[e].status = refund'[r].status /\ refund'[r].status \in {"SUCCEEDED", "FAILED"}
        BY <3>1, <3>2, <3>3
      <4> HIDE DEF e
      <4> QED
        BY <3>1, <4>3, <4>4 DEF OneSettler
    <3>4. CASE r # event[e].refund
      <4>1. \A f \in Events : Settles(f, r)' <=> Settles(f, r)
        BY <3>1, <3>2, <3>4 DEF Settles
      <4>2. refund'[r] = refund[r]
        BY <3>1, <3>4
      <4> QED
        BY <2>0, <3>2, <4>1, <4>2 DEF OneSettler
    <3> QED
      BY <3>3, <3>4
  <2>2. CASE ~\E w \in Workers : ApplyRefundEvent(w)
    <3>1. \/ refund'[r] = refund[r]
          \/ refund[r].status = "NONE" /\ refund'[r].status = "PENDING"
      <4>1. CASE UNCHANGED refund
        BY <4>1
      <4>2. ASSUME NEW w \in Workers, StoreRefund(w)
            PROVE  \/ refund'[r] = refund[r]
                   \/ refund[r].status = "NONE" /\ refund'[r].status = "PENDING"
        <5> DEFINE q == <<job[w].checkout, job[w].key>>
        <5>1. q \in Refunds /\ refund[q].status = "NONE"
          BY <4>2, JobRecords DEF StoreRefund, RefundKeyUsed, NoRefund, Refunds
        <5>2. refund' = [refund EXCEPT ![q] = [status |-> "PENDING", version |-> 1,
                                               amount |-> job[w].amount]]
          BY <4>2 DEF StoreRefund
        <5> HIDE DEF q
        <5> QED
          BY <5>1, <5>2 DEF TypeOK
      <4> QED
        BY <2>2, <4>1, <4>2, Writers
    <3>2. ASSUME NEW f \in Events, receipt'[f] = "APPLIED", event'[f].kind = "REFUND"
          PROVE  receipt[f] = "APPLIED"
      <4>1. CASE UNCHANGED receipt
        BY <3>2, <4>1
      <4>2. ASSUME NEW w \in Workers, ApplyPaymentEvent(w) PROVE receipt[f] = "APPLIED"
        <5>1. event'[f] = event[f] /\ event[job[w].event].kind = "PAYMENT"
          BY <4>2, AppliedPaymentEvent DEF ApplyPaymentEvent, provider
        <5> QED
          BY <1>2, <3>2, <4>2, <5>1
      <4> QED
        BY <1>1, <2>2, <3>2, <4>1, <4>2, Writers
    <3> QED
      BY <2>0, <3>1, <3>2, SettlerKeeps
  <2> QED
    BY <2>1, <2>2
<1> QED
  BY <1>3, <1>4 DEF OutcomeInv

LEMMA OutcomeInvariance == Spec => []OutcomeInv
<1>1. Init => OutcomeInv
  BY DEF Init, OutcomeInv, OneSettler, Settles, AppliedOutcome, NoRefund
<1>2. IInv /\ IInv' /\ [Next]_vars /\ OutcomeInv => OutcomeInv'
  BY OutcomeStep, StepMoves DEF IInv
<1> QED
  BY <1>1, <1>2, Invariance, PTL DEF Spec

(***************************************************************************)
(* Every settled refund was settled by exactly one event, whose outcome it *)
(* has, however often the provider announces it and however many handlers  *)
(* deliver it at once; no event has settled one that is still pending.     *)
(***************************************************************************)
THEOREM RefundsSettleOnce == Spec => [](\A r \in Refunds : OneSettler(r))
<1>1. OutcomeInv => \A r \in Refunds : OneSettler(r)
  BY DEF OutcomeInv
<1> QED
  BY <1>1, OutcomeInvariance, PTL

(* The outcome an answered event announces is the one on its row, whether   *)
(* the event was applied or ignored.                                        *)
PaymentOutcomeStands(e) ==
    \A c \in Checkouts, s \in Terminal :
        event[e] = PaymentEvent(c, s, Amount[c]) => payment[c].status = s
RefundOutcomeStands(e) ==
    \A r \in Refunds, s \in {"SUCCEEDED", "FAILED"}, a \in RefundAmounts :
        event[e] = RefundEvent(r, s, a) => refund[r].status = s

(***************************************************************************)
(* No outcome is lost to order or duplication: what the provider announced *)
(* in an event that the service has answered is what the row says, unless  *)
(* the row was not found or less than the full amount was received.        *)
(***************************************************************************)
THEOREM AnsweredOutcomesStand ==
    Spec => [](\A e \in Events : EventRecorded(e) /\ receipt[e] \notin NotFound =>
                   PaymentOutcomeStands(e) /\ RefundOutcomeStands(e))
<1>1. ASSUME IInv, OutcomeInv, NEW e \in Events, EventRecorded(e), receipt[e] \notin NotFound
      PROVE  PaymentOutcomeStands(e) /\ RefundOutcomeStands(e)
  <2>0. /\ TypeOK /\ Knowledge /\ TerminalIsVerified /\ RefundIsTheProviders
        /\ EventIsTrue(e)
        /\ receipt[e] # "APPLIED" => StaysIgnored(e)
    BY <1>1 DEF IInv, Knowledge, ReceiptKnows, EventRecorded, TypeOK
  <2>1. ASSUME NEW c \in Checkouts, NEW s \in Terminal, event[e] = PaymentEvent(c, s, Amount[c])
        PROVE  payment[c].status = s
    <3>1. /\ event[e].kind = "PAYMENT" /\ event[e].status = s /\ event[e].checkout = c
          /\ event[e].amount = Amount[c]
      BY <2>1 DEF PaymentEvent
    <3>2. payment[c].status \in Terminal
      <4>1. CASE receipt[e] = "APPLIED"
        BY <1>1, <3>1, <4>1 DEF OutcomeInv, AppliedOutcome
      <4>2. CASE receipt[e] # "APPLIED"
        <5>1. payment[c] # NoPayment /\ PaymentVerdict(event[e], payment[c]) # "APPLIED"
          BY <2>0, <3>1, <4>2 DEF StaysIgnored
        <5>2. ~ForwardTransition(payment[c].status, s)
          BY <3>1, <5>1 DEF PaymentVerdict
        <5>3. payment[c].status \in Statuses
          BY <2>0, <5>1 DEF TypeOK, PaymentRow
        <5> QED
          BY <5>2, <5>3 DEF ForwardTransition, Statuses, Open, Terminal
      <4> QED
        BY <4>1, <4>2
    <3>3. intent[c].status = payment[c].status
      BY <2>0, <3>2 DEF TerminalIsVerified
    <3>4. intent[c].status = s
      BY <2>0, <3>1 DEF EventIsTrue
    <3> QED
      BY <3>3, <3>4
  <2>2. ASSUME NEW r \in Refunds, NEW s \in {"SUCCEEDED", "FAILED"}, NEW a \in RefundAmounts,
               event[e] = RefundEvent(r, s, a)
        PROVE  refund[r].status = s
    <3>1. event[e].kind = "REFUND" /\ event[e].status = s /\ event[e].refund = r /\ event[e].amount = a
      BY <2>2 DEF RefundEvent
    <3>2. CASE receipt[e] = "APPLIED"
      <4>1. Settles(e, r) /\ OneSettler(r)
        BY <1>1, <3>1, <3>2 DEF Settles, OutcomeInv
      <4> QED
        BY <3>1, <4>1 DEF OneSettler
    <3>3. CASE receipt[e] # "APPLIED"
      <4>1. refund[r] # NoRefund /\ RefundVerdict(event[e], refund[r]) # "APPLIED"
        BY <2>0, <3>1, <3>3 DEF StaysIgnored
      <4>2. providerRefund[r].amount = a /\ providerRefund[r].status = s
        BY <2>0, <3>1 DEF EventIsTrue
      <4>3. /\ providerRefund[r].amount = refund[r].amount
            /\ refund[r].status # "PENDING" => providerRefund[r].status = refund[r].status
        BY <2>0, <4>1 DEF RefundIsTheProviders
      <4>4. refund[r].status # "PENDING"
        BY <3>1, <4>1, <4>2, <4>3 DEF RefundVerdict
      <4> QED
        BY <4>2, <4>3, <4>4
    <3> QED
      BY <3>2, <3>3
  <2> QED
    BY <2>1, <2>2 DEF PaymentOutcomeStands, RefundOutcomeStands
<1>2. IInv /\ OutcomeInv =>
        \A e \in Events : EventRecorded(e) /\ receipt[e] \notin NotFound =>
            PaymentOutcomeStands(e) /\ RefundOutcomeStands(e)
  BY <1>1
<1> QED
  BY <1>2, Invariance, OutcomeInvariance, PTL
=============================================================================
