------------------------------ MODULE Payment ------------------------------
(***************************************************************************)
(* The payment service of MarkOrbit (services/payment): payment initiation *)
(* from a checkout, provider webhooks, refunds and reconciliation, run by  *)
(* concurrent request handlers over one PostgreSQL database, against an    *)
(* external payment provider that announces what it did by webhooks.       *)
(*                                                                         *)
(* Granularity: a read outside a transaction, a provider call and a        *)
(* SERIALIZABLE transaction are one step each; between two steps of one    *)
(* handler any other handler, or the provider, may run.  A handler may     *)
(* fail before any step (crash, refused request, provider or database      *)
(* error, serialization failure): it then leaves everything it committed.  *)
(***************************************************************************)
EXTENDS Integers, FiniteSets, Money

CONSTANTS
    Workers,          \* concurrent request handlers
    Checkouts,        \* checkout sessions; a payment's identity is its checkout
    InitiationKeys,   \* idempotency keys of payment initiation
    RefundKeys,       \* idempotency keys of refund requests
    Events,           \* provider event identifiers: the provider emits at most this many
    Amount,           \* Amount[c]: the governed amount of checkout c
    CapturedAmounts,  \* amounts the provider may report as received
    RefundAmounts,    \* amounts a refund may be requested for
    CreationStatuses, \* statuses the provider may create a payment with
    RefundReplay,     \* does the provider answer a repeated refund key with the first refund?
    MaxObservations   \* bound on stored reconciliation observations

Open     == {"PENDING", "REQUIRES_ACTION", "PROCESSING"}
Terminal == {"SUCCEEDED", "FAILED", "CANCELLED"}
Statuses == Open \cup Terminal
RefundStatuses == {"PENDING", "SUCCEEDED", "FAILED"}
Refunds  == Checkouts \X RefundKeys

NotFound == {"PROVIDER_PAYMENT_REFERENCE_NOT_FOUND", "PROVIDER_REFUND_REFERENCE_NOT_FOUND"}
IgnoredReasons == NotFound \cup
    {"TERMINAL_OR_REGRESSIVE_PAYMENT_EVENT", "PAYMENT_AMOUNT_OR_CURRENCY_MISMATCH",
     "REFUND_AMOUNT_OR_CURRENCY_MISMATCH", "TERMINAL_OR_DUPLICATE_REFUND_EVENT"}

ASSUME PaymentAssumption ==
    /\ Amount \in [Checkouts -> Nat]
    /\ CapturedAmounts \subseteq Nat
    /\ RefundAmounts \subseteq Nat \ {0}
    /\ CreationStatuses \subseteq Open
    /\ RefundReplay \in BOOLEAN
    /\ MaxObservations \in Nat

VARIABLES
    checkout,       \* MarkReg's checkout session: payable or no longer so
    payment,        \* payment_payments, one row per checkout
    initiation,     \* payment_commands: <<key, checkout>>
    refund,         \* payment_refunds with payment_refund_commands, by <<checkout, key>>
    receipt,        \* payment_provider_event_receipts: APPLIED or why it was ignored
    observation,    \* payment_reconciliations
    intent,         \* the provider's payment object
    providerRefund, \* the provider's refund objects, by idempotency key
    event,          \* the webhook events the provider has emitted
    job             \* what each request handler is doing and what it has read

tables   == <<payment, initiation, refund, receipt, observation>>
provider == <<intent, providerRefund, event>>
vars     == <<checkout, tables, provider, job>>

NoPayment == [status |-> "NONE", version |-> 0, refunded |-> 0]
NoRefund  == [status |-> "NONE", version |-> 0, amount |-> 0]
NoIntent  == [status |-> "NONE", created |-> "NONE"]
NoProviderRefund == [status |-> "NONE", amount |-> 0]
NoEvent   == [kind |-> "NONE"]
Idle      == [at |-> "idle"]

PaymentRow == [status : Statuses, version : Nat \ {0}, refunded : Nat]
RefundRow  == [status : RefundStatuses, version : Nat \ {0}, amount : RefundAmounts]
PaymentEvents == [kind : {"PAYMENT"}, status : Statuses, checkout : Checkouts, amount : Nat]
RefundEvents  == [kind : {"REFUND"}, status : RefundStatuses, refund : Refunds,
                  amount : RefundAmounts]

Job ==
    {Idle}
    \cup [at : {"load_checkout", "find_payment", "create_payment"},
          key : InitiationKeys, checkout : Checkouts]
    \cup [at : {"store_payment"}, key : InitiationKeys, checkout : Checkouts, status : Open]
    \cup [at : {"load_payment", "load_refund"}, event : Events]
    \cup [at : {"apply_payment_event"}, event : Events, seen : PaymentRow]
    \cup [at : {"load_refunded_payment"}, event : Events, seen : RefundRow]
    \cup [at : {"apply_refund_event"}, event : Events, seen : RefundRow, paid : PaymentRow]
    \cup [at : {"ignore_event"}, event : Events, why : IgnoredReasons]
    \cup [at : {"load_paid", "sum_reserved", "create_refund", "store_refund"},
          key : RefundKeys, checkout : Checkouts, amount : RefundAmounts]
    \cup [at : {"retrieve_payment"}, checkout : Checkouts, local : Statuses]

Init ==
    /\ checkout = [c \in Checkouts |-> "INITIATED"]
    /\ payment = [c \in Checkouts |-> NoPayment]
    /\ initiation = {}
    /\ refund = [r \in Refunds |-> NoRefund]
    /\ receipt = [e \in Events |-> "NONE"]
    /\ observation = {}
    /\ intent = [c \in Checkouts |-> NoIntent]
    /\ providerRefund = [r \in Refunds |-> NoProviderRefund]
    /\ event = [e \in Events |-> NoEvent]
    /\ job = [w \in Workers |-> Idle]

-----------------------------------------------------------------------------
(* Guards and lookups *)

At(w, step)   == job[w].at = step
Goto(w, next) == job' = [job EXCEPT ![w] = next]

(* validateProviderResult: what a payment may be created as. *)
AnyAnswer(s)       == s \in Statuses   \* mutant: the answer's status is not checked
ValidInitiation(s) == s \in Open

InitiationKeyUsed(k) == \E c \in Checkouts : <<k, c>> \in initiation
RefundKeyUsed(k)     == \E c \in Checkouts : refund[<<c, k>>] # NoRefund

(* mutant: a success is only accepted from a status in between *)
ForwardOneByOne(from, to) ==
    \/ from = to
    \/ from = "PENDING" /\ to \in {"REQUIRES_ACTION", "PROCESSING"}
    \/ from = "REQUIRES_ACTION" /\ to \in {"PROCESSING"} \cup Terminal
    \/ from = "PROCESSING" /\ to \in Terminal

(* mutant: only the new status is looked at *)
ForwardByTarget(from, to) ==
    from = to \/ from = "PENDING" \/ to \in {"PROCESSING"} \cup Terminal

(* validForwardPaymentTransition *)
ForwardTransition(from, to) ==
    \/ from = to
    \/ from = "PENDING"
    \/ from = "REQUIRES_ACTION" /\ to \in {"PROCESSING"} \cup Terminal
    \/ from = "PROCESSING" /\ to \in Terminal

(* mutant: a success is accepted without comparing the money received *)
VerdictWithoutAmount(ev, seen) ==
    CASE seen = NoPayment -> "PROVIDER_PAYMENT_REFERENCE_NOT_FOUND"
      [] seen # NoPayment /\ ~ForwardTransition(seen.status, ev.status) ->
           "TERMINAL_OR_REGRESSIVE_PAYMENT_EVENT"
      [] OTHER -> "APPLIED"

(* Why applyPaymentEvent ignores event ev, given the payment row it read. *)
PaymentVerdict(ev, seen) ==
    CASE seen = NoPayment -> "PROVIDER_PAYMENT_REFERENCE_NOT_FOUND"
      [] seen # NoPayment /\ ~ForwardTransition(seen.status, ev.status) ->
           "TERMINAL_OR_REGRESSIVE_PAYMENT_EVENT"
      [] seen # NoPayment /\ ForwardTransition(seen.status, ev.status)
         /\ ev.status = "SUCCEEDED" /\ ev.amount # Amount[ev.checkout] ->
           "PAYMENT_AMOUNT_OR_CURRENCY_MISMATCH"
      [] OTHER -> "APPLIED"

(* Why applyRefundEvent ignores event ev, given the refund row it read. *)
RefundVerdict(ev, seen) ==
    CASE seen = NoRefund -> "PROVIDER_REFUND_REFERENCE_NOT_FOUND"
      [] seen # NoRefund /\ ev.amount # seen.amount -> "REFUND_AMOUNT_OR_CURRENCY_MISMATCH"
      [] seen # NoRefund /\ ev.amount = seen.amount
         /\ (seen.status # "PENDING" \/ ev.status = "PENDING") ->
           "TERMINAL_OR_DUPLICATE_REFUND_EVENT"
      [] OTHER -> "APPLIED"

ReservesSettled(r) == refund[r].status = "SUCCEEDED"  \* mutant: pending refunds are free
Reserves(r)  == refund[r].status \in {"PENDING", "SUCCEEDED"}
Reserved(c)  == TotalOf([r \in Refunds |-> refund[r].amount],
                        {r \in Refunds : r[1] = c /\ Reserves(r)})
WithinPayment(c, amount) == Reserved(c) + amount <= Amount[c]

(* The compare-and-set of updatePayment and updateRefund: WHERE version = $n. *)
PaymentWritten(c, seen)      == payment[c].version >= seen.version  \* mutant: no version check
PaymentVersionHolds(c, seen) == payment[c].version = seen.version
RefundNextVersion(r, seen)   == refund[r].version = seen.version + 1  \* mutant: the new version
RefundVersionHolds(r, seen)  == refund[r].version = seen.version
NeverRecorded(e)             == receipt[e] = "LOST"  \* mutant: receipts do not deduplicate
EventRecorded(e)             == receipt[e] # "NONE"

-----------------------------------------------------------------------------
(* PaymentService.initiatePayment *)

(* No replay was found under the key; a replay or a conflicting input ends *)
(* the request here without a write.                                       *)
StartInitiation(w, k, c) ==
    /\ At(w, "idle")
    /\ ~InitiationKeyUsed(k)
    /\ Goto(w, [at |-> "load_checkout", key |-> k, checkout |-> c])
    /\ UNCHANGED <<checkout, tables, provider>>

LoadCheckout(w) ==
    /\ At(w, "load_checkout")
    /\ checkout[job[w].checkout] = "INITIATED"
    /\ Goto(w, [job[w] EXCEPT !.at = "find_payment"])
    /\ UNCHANGED <<checkout, tables, provider>>

FindPayment(w) ==
    /\ At(w, "find_payment")
    /\ payment[job[w].checkout] = NoPayment
    /\ Goto(w, [job[w] EXCEPT !.at = "create_payment"])
    /\ UNCHANGED <<checkout, tables, provider>>

(* The provider's idempotency key is the payment id, hence the checkout.  A *)
(* repeated call is answered with the first answer or the current status; a *)
(* terminal answer is refused (validateProviderResult).                     *)
CreatePayment(w) ==
    /\ At(w, "create_payment")
    /\ LET c == job[w].checkout
           answer(s) == Goto(w, [at |-> "store_payment", key |-> job[w].key,
                                 checkout |-> c, status |-> s])
       IN \/ /\ intent[c] = NoIntent
             /\ \E s \in CreationStatuses :
                  /\ intent' = [intent EXCEPT ![c] = [status |-> s, created |-> s]]
                  /\ answer(s)
          \/ /\ intent[c] # NoIntent
             /\ \E s \in {intent[c].created, intent[c].status} : ValidInitiation(s) /\ answer(s)
             /\ UNCHANGED intent
    /\ UNCHANGED <<checkout, tables, providerRefund, event>>

(* createInitiationAtomically *)
StorePayment(w) ==
    /\ At(w, "store_payment")
    /\ LET c == job[w].checkout IN
        /\ ~InitiationKeyUsed(job[w].key)
        /\ payment[c] = NoPayment
        /\ payment' = [payment EXCEPT ![c] =
                         [status |-> job[w].status, version |-> 1, refunded |-> 0]]
        /\ initiation' = initiation \cup {<<job[w].key, c>>}
    /\ Goto(w, Idle)
    /\ UNCHANGED <<checkout, refund, receipt, observation, provider>>

-----------------------------------------------------------------------------
(* PaymentLifecycleService.handleWebhook.  The provider may deliver any    *)
(* emitted event at any time, to several handlers at once, and again until *)
(* it is answered; a delivery that finds a receipt writes nothing.         *)

StartWebhook(w, e) ==
    /\ At(w, "idle")
    /\ event[e] # NoEvent
    /\ ~EventRecorded(e)
    /\ Goto(w, [at |-> IF event[e].kind = "PAYMENT" THEN "load_payment" ELSE "load_refund",
                event |-> e])
    /\ UNCHANGED <<checkout, tables, provider>>

(* applyPaymentEvent up to the transaction *)
LoadPayment(w) ==
    /\ At(w, "load_payment")
    /\ LET e == job[w].event
           seen == payment[event[e].checkout]
           why == PaymentVerdict(event[e], seen)
       IN Goto(w, IF why = "APPLIED"
                  THEN [at |-> "apply_payment_event", event |-> e, seen |-> seen]
                  ELSE [at |-> "ignore_event", event |-> e, why |-> why])
    /\ UNCHANGED <<checkout, tables, provider>>

(* recordPaymentEventAtomically with the next payment, written from the row read before *)
ApplyPaymentEvent(w) ==
    /\ At(w, "apply_payment_event")
    /\ LET e == job[w].event
           c == event[e].checkout
           seen == job[w].seen
       IN /\ ~EventRecorded(e)
          /\ PaymentVersionHolds(c, seen)
          /\ payment' = [payment EXCEPT ![c] =
                           [status |-> event[e].status, version |-> seen.version + 1,
                            refunded |-> seen.refunded]]
          /\ receipt' = [receipt EXCEPT ![e] = "APPLIED"]
    /\ Goto(w, Idle)
    /\ UNCHANGED <<checkout, initiation, refund, observation, provider>>

(* recordPaymentEventAtomically and recordRefundEventAtomically without a next row *)
IgnoreEvent(w) ==
    /\ At(w, "ignore_event")
    /\ ~EventRecorded(job[w].event)
    /\ receipt' = [receipt EXCEPT ![job[w].event] = job[w].why]
    /\ Goto(w, Idle)
    /\ UNCHANGED <<checkout, payment, initiation, refund, observation, provider>>

(* applyRefundEvent: the refund is read first, its payment only when the event applies *)
LoadRefund(w) ==
    /\ At(w, "load_refund")
    /\ LET e == job[w].event
           seen == refund[event[e].refund]
           why == RefundVerdict(event[e], seen)
       IN Goto(w, IF why = "APPLIED"
                  THEN [at |-> "load_refunded_payment", event |-> e, seen |-> seen]
                  ELSE [at |-> "ignore_event", event |-> e, why |-> why])
    /\ UNCHANGED <<checkout, tables, provider>>

(* assertPayment on the payment about to be written *)
RefundedBelow(c, refunded) == refunded < Amount[c]  \* mutant: off by one
RefundedFits(c, refunded)  == refunded <= Amount[c]

LoadRefundedPayment(w) ==
    /\ At(w, "load_refunded_payment")
    /\ LET e == job[w].event
           paid == payment[event[e].refund[1]]
       IN /\ paid # NoPayment
          /\ event[e].status = "SUCCEEDED" =>
               RefundedFits(event[e].refund[1], paid.refunded + job[w].seen.amount)
          /\ Goto(w, [at |-> "apply_refund_event", event |-> e, seen |-> job[w].seen,
                      paid |-> paid])
    /\ UNCHANGED <<checkout, tables, provider>>

(* recordRefundEventAtomically with the next refund and, on success, the next payment *)
ApplyRefundEvent(w) ==
    /\ At(w, "apply_refund_event")
    /\ LET e == job[w].event
           r == event[e].refund
           seen == job[w].seen
           paid == job[w].paid
       IN /\ ~EventRecorded(e)
          /\ RefundVersionHolds(r, seen)
          /\ refund' = [refund EXCEPT ![r] =
                          [status |-> event[e].status, version |-> seen.version + 1,
                           amount |-> seen.amount]]
          /\ \/ /\ event[e].status = "SUCCEEDED"
                /\ PaymentVersionHolds(r[1], paid)
                /\ payment' = [payment EXCEPT ![r[1]] =
                     [status |-> paid.status, version |-> paid.version + 1,
                      refunded |-> paid.refunded + seen.amount]]
             \/ /\ event[e].status # "SUCCEEDED"
                /\ UNCHANGED payment
          /\ receipt' = [receipt EXCEPT ![e] = "APPLIED"]
    /\ Goto(w, Idle)
    /\ UNCHANGED <<checkout, initiation, observation, provider>>

-----------------------------------------------------------------------------
(* PaymentLifecycleService.requestRefund *)

StartRefund(w, k, c, a) ==
    /\ At(w, "idle")
    /\ ~RefundKeyUsed(k)
    /\ Goto(w, [at |-> "load_paid", key |-> k, checkout |-> c, amount |-> a])
    /\ UNCHANGED <<checkout, tables, provider>>

LoadPaid(w) ==
    /\ At(w, "load_paid")
    /\ payment[job[w].checkout].status = "SUCCEEDED"
    /\ Goto(w, [job[w] EXCEPT !.at = "sum_reserved"])
    /\ UNCHANGED <<checkout, tables, provider>>

SumReserved(w) ==
    /\ At(w, "sum_reserved")
    /\ WithinPayment(job[w].checkout, job[w].amount)
    /\ Goto(w, [job[w] EXCEPT !.at = "create_refund"])
    /\ UNCHANGED <<checkout, tables, provider>>

-----------------------------------------------------------------------------
(* The payment provider *)

Emit(ev) == \E e \in Events : event[e] = NoEvent /\ event' = [event EXCEPT ![e] = ev]

PaymentEvent(c, s, a) == [kind |-> "PAYMENT", status |-> s, checkout |-> c, amount |-> a]
RefundEvent(r, s, a)  == [kind |-> "REFUND", status |-> s, refund |-> r, amount |-> a]

AnyRefund(r, a)      == TRUE  \* mutant: the answer is taken as it is

(* The adapter's check that the provider's refund is the governed one. *)
AnswersCommand(r, a) == providerRefund[r].amount = a

(* provider.createRefund under the key (payment, idempotency key).  The    *)
(* refund id sent along is drawn anew by every request, so a provider that *)
(* compares a repeated key's parameters refuses it (RefundReplay = FALSE). *)
CreateRefund(w) ==
    /\ At(w, "create_refund")
    /\ LET r == <<job[w].checkout, job[w].key>>
           a == job[w].amount
       IN \/ /\ providerRefund[r] = NoProviderRefund
             /\ \E s \in {"PENDING", "SUCCEEDED"} :
                  /\ providerRefund' = [providerRefund EXCEPT ![r] = [status |-> s, amount |-> a]]
                  /\ Emit(RefundEvent(r, s, a))
          \/ /\ RefundReplay
             /\ providerRefund[r] # NoProviderRefund
             /\ AnswersCommand(r, a)
             /\ UNCHANGED <<providerRefund, event>>
    /\ Goto(w, [job[w] EXCEPT !.at = "store_refund"])
    /\ UNCHANGED <<checkout, tables, intent>>

(* createRefundAtomically *)
StoreRefund(w) ==
    /\ At(w, "store_refund")
    /\ LET r == <<job[w].checkout, job[w].key>> IN
        /\ ~RefundKeyUsed(job[w].key)
        /\ payment[r[1]].status = "SUCCEEDED"
        /\ WithinPayment(r[1], job[w].amount)
        /\ refund' = [refund EXCEPT ![r] =
                        [status |-> "PENDING", version |-> 1, amount |-> job[w].amount]]
    /\ Goto(w, Idle)
    /\ UNCHANGED <<checkout, payment, initiation, receipt, observation, provider>>

(* PaymentLifecycleService.reconcile: read the payment, ask the provider, store what was seen *)
StartReconciliation(w, c) ==
    /\ At(w, "idle")
    /\ payment[c] # NoPayment
    /\ Goto(w, [at |-> "retrieve_payment", checkout |-> c, local |-> payment[c].status])
    /\ UNCHANGED <<checkout, tables, provider>>

SaveReconciliation(w) ==
    /\ At(w, "retrieve_payment")
    /\ Cardinality(observation) < MaxObservations
    /\ LET c == job[w].checkout IN
         observation' = observation \cup
           {[checkout |-> c, local |-> job[w].local, observed |-> intent[c].status,
             match |-> job[w].local = intent[c].status]}
    /\ Goto(w, Idle)
    /\ UNCHANGED <<checkout, payment, initiation, refund, receipt, provider>>

(* A request is refused or fails, or its process dies: what it held is lost. *)
HandlerFails(w) ==
    /\ ~At(w, "idle")
    /\ Goto(w, Idle)
    /\ UNCHANGED <<checkout, tables, provider>>

(* MarkReg: the checkout expires or is cancelled. *)
CheckoutCloses(c) ==
    /\ checkout[c] = "INITIATED"
    /\ checkout' = [checkout EXCEPT ![c] = "CLOSED"]
    /\ UNCHANGED <<tables, provider, job>>

(* The customer acts, or the provider works, on an open payment. *)
IntentProgresses(c, s) ==
    /\ intent[c].status \in Open \ {s}
    /\ intent' = [intent EXCEPT ![c].status = s]
    /\ Emit(PaymentEvent(c, s, Amount[c]))
    /\ UNCHANGED <<checkout, tables, providerRefund, job>>

(* A failed attempt puts the payment back to needing a payment method; the *)
(* adapter announces payment_failed as PAYMENT_REQUIRES_ACTION.            *)
AttemptFails(c) ==
    /\ intent[c].status \in Open
    /\ intent' = [intent EXCEPT ![c].status = "PENDING"]
    /\ Emit(PaymentEvent(c, "REQUIRES_ACTION", Amount[c]))
    /\ UNCHANGED <<checkout, tables, providerRefund, job>>

(* The provider reports the amount it received with a success only. *)
IntentSettles(c, s, a) ==
    /\ intent[c].status \in Open
    /\ s # "SUCCEEDED" => a = Amount[c]
    /\ intent' = [intent EXCEPT ![c].status = s]
    /\ Emit(PaymentEvent(c, s, a))
    /\ UNCHANGED <<checkout, tables, providerRefund, job>>

RefundSettles(r, s) ==
    /\ providerRefund[r].status = "PENDING"
    /\ providerRefund' = [providerRefund EXCEPT ![r].status = s]
    /\ Emit(RefundEvent(r, s, providerRefund[r].amount))
    /\ UNCHANGED <<checkout, tables, intent, job>>

(* refund.updated announces the refund's current status, again or anew. *)
RefundUpdated(r) ==
    /\ providerRefund[r] # NoProviderRefund
    /\ Emit(RefundEvent(r, providerRefund[r].status, providerRefund[r].amount))
    /\ UNCHANGED <<checkout, tables, intent, providerRefund, job>>

-----------------------------------------------------------------------------
Initiation(w) ==
    \/ \E k \in InitiationKeys, c \in Checkouts : StartInitiation(w, k, c)
    \/ LoadCheckout(w) \/ FindPayment(w) \/ CreatePayment(w) \/ StorePayment(w)

Webhook(w) ==
    \/ \E e \in Events : StartWebhook(w, e)
    \/ LoadPayment(w) \/ ApplyPaymentEvent(w) \/ IgnoreEvent(w)
    \/ LoadRefund(w) \/ LoadRefundedPayment(w) \/ ApplyRefundEvent(w)

RefundRequest(w) ==
    \/ \E k \in RefundKeys, c \in Checkouts, a \in RefundAmounts : StartRefund(w, k, c, a)
    \/ LoadPaid(w) \/ SumReserved(w) \/ CreateRefund(w) \/ StoreRefund(w)

Reconciliation(w) ==
    \/ \E c \in Checkouts : StartReconciliation(w, c)
    \/ SaveReconciliation(w)

Provider ==
    \/ \E c \in Checkouts :
         \/ \E s \in {"REQUIRES_ACTION", "PROCESSING"} : IntentProgresses(c, s)
         \/ AttemptFails(c)
         \/ \E s \in Terminal, a \in CapturedAmounts \cup {Amount[c]} : IntentSettles(c, s, a)
    \/ \E r \in Refunds :
         \/ \E s \in {"SUCCEEDED", "FAILED"} : RefundSettles(r, s)
         \/ RefundUpdated(r)

Next ==
    \/ \E w \in Workers : Initiation(w) \/ Webhook(w) \/ RefundRequest(w)
                          \/ Reconciliation(w) \/ HandlerFails(w)
    \/ \E c \in Checkouts : CheckoutCloses(c)
    \/ Provider

Spec == Init /\ [][Next]_vars

-----------------------------------------------------------------------------
(* Correctness properties *)

(* Rows, provider objects and handlers are well formed; in particular a    *)
(* payment row is created open and every snapshot is one of a stored row.  *)
TypeOK ==
    /\ checkout \in [Checkouts -> {"INITIATED", "CLOSED"}]
    /\ payment \in [Checkouts -> {NoPayment} \cup PaymentRow]
    /\ initiation \subseteq InitiationKeys \X Checkouts
    /\ refund \in [Refunds -> {NoRefund} \cup RefundRow]
    /\ receipt \in [Events -> {"NONE", "APPLIED"} \cup IgnoredReasons]
    /\ observation \subseteq
         [checkout : Checkouts, local : Statuses, observed : Statuses, match : BOOLEAN]
    /\ intent \in [Checkouts -> {NoIntent} \cup [status : Statuses, created : Open]]
    /\ providerRefund \in [Refunds -> {NoProviderRefund}
                                      \cup [status : RefundStatuses, amount : RefundAmounts]]
    /\ event \in [Events -> {NoEvent} \cup PaymentEvents \cup RefundEvents]
    /\ job \in [Workers -> Job]

RefundTotal(c, statuses) ==
    TotalOf([r \in Refunds |-> refund[r].amount],
            {r \in Refunds : r[1] = c /\ refund[r].status \in statuses})

(* Pending and successful refunds of a payment never exceed its amount,   *)
(* whatever requests run concurrently between the early check and the      *)
(* transaction's own.                                                      *)
RefundsWithinPayment ==
    \A c \in Checkouts : RefundTotal(c, {"PENDING", "SUCCEEDED"}) <= Amount[c]

(* payment.refunded_minor, written from a snapshot read before the         *)
(* transaction, is always the sum of the successful refunds.               *)
RefundedIsSumOfRefunds ==
    \A c \in Checkouts : payment[c].refunded = RefundTotal(c, {"SUCCEEDED"})

(* Every applied event is a write of the payment row that no later write   *)
(* has overwritten: its version counts its applied receipts.               *)
AppliedTo(c) ==
    {e \in Events : /\ receipt[e] = "APPLIED"
                    /\ \/ event[e].kind = "PAYMENT" /\ event[e].checkout = c
                       \/ /\ event[e].kind = "REFUND" /\ event[e].refund[1] = c
                          /\ event[e].status = "SUCCEEDED"}
NoLostUpdate ==
    \A c \in Checkouts :
        payment[c] # NoPayment => payment[c].version = 1 + Cardinality(AppliedTo(c))

(* A terminal payment is the provider's own outcome, and the receipt that  *)
(* made it so is on record; a success is for the full governed amount.     *)
TerminalIsVerified ==
    \A c \in Checkouts : payment[c].status \in Terminal =>
        /\ intent[c].status = payment[c].status
        /\ \E e \in Events : /\ receipt[e] = "APPLIED"
                             /\ event[e] = PaymentEvent(c, payment[c].status, Amount[c])

(* A stored refund is one the provider holds for the same amount, of a     *)
(* successful payment, and it settles only the way the provider's did.     *)
RefundIsTheProviders ==
    \A r \in Refunds : refund[r] # NoRefund =>
        /\ payment[r[1]].status = "SUCCEEDED"
        /\ providerRefund[r].amount = refund[r].amount
        /\ refund[r].status # "PENDING" => providerRefund[r].status = refund[r].status

(* An event ignored as regressive, duplicate or mismatching would still be *)
(* ignored now: ordering never costs an applicable event.  An event whose  *)
(* payment or refund was not found is the exception (see PaymentFindings). *)
IgnoredForGood ==
    \A e \in Events : receipt[e] \in IgnoredReasons \ NotFound =>
        IF event[e].kind = "PAYMENT"
        THEN PaymentVerdict(event[e], payment[event[e].checkout]) # "APPLIED"
        ELSE RefundVerdict(event[e], refund[event[e].refund]) # "APPLIED"

(* A reconciliation that matched a terminal status stays true: neither     *)
(* side ever leaves it.                                                    *)
MatchIsFinal ==
    \A o \in observation : o.match /\ o.local \in Terminal =>
        payment[o.checkout].status = o.local /\ intent[o.checkout].status = o.local

(* No step changes a terminal payment's status, lowers what was refunded,  *)
(* reopens a settled refund or revises a receipt.                          *)
SettledIsFinal ==
    [][/\ \A c \in Checkouts :
            /\ payment[c].status \in Terminal => payment'[c].status = payment[c].status
            /\ payment[c].refunded <= payment'[c].refunded
       /\ \A r \in Refunds : refund[r].status \in {"SUCCEEDED", "FAILED"} =>
                               refund'[r] = refund[r]
       /\ \A e \in Events : EventRecorded(e) => receipt'[e] = receipt[e]]_vars

(* The service implements the ledger: every committed write is one of the  *)
(* ledger's moves on the rows as they are, not as some handler read them.  *)
StatusView   == [c \in Checkouts |-> payment[c].status]
RefundedView == [c \in Checkouts |-> payment[c].refunded]
HoldView     == [r \in Refunds |-> [status |-> refund[r].status, amount |-> refund[r].amount]]

Ledger == INSTANCE PaymentLedger WITH
    status <- StatusView, refunded <- RefundedView, hold <- HoldView

ImplementsLedger == Ledger!Spec

-----------------------------------------------------------------------------
(* Liveness.  The provider redelivers an event until it is answered, a     *)
(* delivery finds a handler, no step of an event's handling fails for      *)
(* ever, and no handler hangs.                                             *)
WebhookFairness ==
    /\ \A e \in Events :
         /\ SF_vars(\E w \in Workers : StartWebhook(w, e))
         /\ SF_vars(\E w \in Workers : At(w, "load_payment") /\ job[w].event = e /\ LoadPayment(w))
         /\ SF_vars(\E w \in Workers : At(w, "load_refund") /\ job[w].event = e /\ LoadRefund(w))
         /\ SF_vars(\E w \in Workers : At(w, "load_refunded_payment") /\ job[w].event = e
                                        /\ LoadRefundedPayment(w))
         /\ SF_vars(\E w \in Workers : \/ At(w, "apply_payment_event") /\ job[w].event = e
                                            /\ ApplyPaymentEvent(w)
                                       \/ At(w, "apply_refund_event") /\ job[w].event = e
                                            /\ ApplyRefundEvent(w)
                                       \/ At(w, "ignore_event") /\ job[w].event = e
                                            /\ IgnoreEvent(w))
    /\ \A w \in Workers : WF_vars(HandlerFails(w))

FairSpec == Spec /\ WebhookFairness

(* Every event the provider emits is answered in the end: no version       *)
(* conflict and no contract assertion keeps rejecting it.                  *)
EveryEventAnswered == \A e \in Events : event[e] # NoEvent ~> EventRecorded(e)

(* A full success that no handler has missed settles the payment: once the *)
(* payment is stored, and unless a handler still holds an older answer     *)
(* that there was none, it cannot be lost to concurrency or order.         *)
MissedBy(w, e) == At(w, "ignore_event") /\ job[w].event = e
FullSuccessSettles ==
    \A e \in Events, c \in Checkouts :
        (/\ event[e] = PaymentEvent(c, "SUCCEEDED", Amount[c])
         /\ ~EventRecorded(e) /\ payment[c] # NoPayment
         /\ \A w \in Workers : ~MissedBy(w, e))
        ~> payment[c].status \in Terminal

(* The same for a refund's outcome. *)
RefundOutcomeSettles ==
    \A e \in Events, r \in Refunds :
        (/\ event[e].kind = "REFUND" /\ event[e].status # "PENDING"
         /\ event[e].refund = r
         /\ ~EventRecorded(e) /\ refund[r] # NoRefund
         /\ \A w \in Workers : ~MissedBy(w, e))
        ~> refund[r].status # "PENDING"
=============================================================================
