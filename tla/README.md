# Formal models of MarkOrbit

TLA+ modules, TLC configurations and TLAPS proofs about MarkOrbit's services. Each module is translated from
the TypeScript and SQL under `src/`; `PROJECT.json` says, for every definition, which lines it stands for.

Contents: [1 The system](#1-the-system) · [2 What is modelled](#2-what-is-modelled) ·
[3 The runs](#3-the-runs) · [4 Fairness](#4-fairness) · [5 What the runs found](#5-what-the-runs-found) ·
[6 What is proved](#6-what-is-proved) · [7 What is not modelled](#7-what-is-not-modelled) ·
[8 Plan](#8-plan) · [9 Running it](#9-running-it)

## 1 The system

MarkOrbit is a monorepo of services that each own their state in PostgreSQL and talk over authenticated HTTP.
No service reads another's tables; what one needs from another it reads through a contract and checks again
when it matters. Four conventions recur everywhere and are where the difficulty lies:

* a **command** carries an idempotency key and the fingerprint of its input; a repeated command is to be
  answered with the recorded result, and another input under the same key refused;
* an **aggregate** carries a version; a write names the version it was computed from, and a different one is a
  `VERSION_CONFLICT`;
* a handler **reads, decides, calls out and only then writes**: what it has read may be old by the time it
  writes, and it may die between an outside effect and the row that records it;
* `transact(..., SERIALIZABLE)` (`packages/persistence`) makes one transaction atomic, but a handler is several
  of them, with reads outside.

| Component | State it keeps | Operations | Talks to | What is hard | What makes it correct |
|---|---|---|---|---|---|
| **Payment** (`services/payment`) | payments, commands, refunds, webhook receipts, reconciliations | initiate, webhook, refund, reconcile | MarkReg's checkouts (HTTP), Stripe (calls out, webhooks in) | webhooks duplicated, out of order and ahead of the row they are about; two refunds at once; a crash between Stripe and the row | an outcome is the provider's own, is never left, and no update is lost; refunds stay within the payment |
| **MarkReg checkout** (`services/markreg/src/commercial-checkout*.ts`) | checkout sessions, commands | create checkout, catalog reads | orders; read by Payment | two requests at once, expiry, an order that moves meanwhile | at most one payable session of an order at a time; a repeated command gets its own session |
| **Managed AI execution** (`services/capability-engine/src/managed-ai-*.ts`) | execution claims, exact outputs | execute one request of an idempotency key | an AI provider | leases, takeover by another process, a call whose fate is unknown | the provider is called at most once for a key; every answer is the recorded outcome |
| **MarkReg orders and matters** | orders, conversions, formal matters | create, confirm, ready, cancel, convert, link | professional review, document packages, checkout | versions, replay, the write of two aggregates | an order becomes at most one matter; no transition outside the matrix |
| **Execution** (`services/execution`) | authorizations, releases, review cases, evidence | authorize, release, revoke, review, hand off | Lite, MarkReg, MGSN | an effect released against an authorization revoked meanwhile | nothing is released twice or without a current authorization |
| **MGSN** (`services/mgsn`) | providers, eligibility, allocations, acceptances, returns | register, select, allocate, accept, return | Execution | eligibility that changes between selection and allocation | one accepted provider per piece of work |
| **Lite** (`services/lite`) | professional workspace, content, assets, delivery attempts | prepare, publish, deliver mail and SMS | Execution, Core, mail and SMS transports | a transport with an uncertain outcome; permissions revoked between check and send | a message is submitted at most once, and only while it is permitted |
| **Core** (`services/core`) | identities, sessions, memberships, credentials, fee and method registries | sign in, authorize, refresh, rotate, revoke | everyone | an OAuth state consumed twice, a token refreshed twice | a revoked credential is not handed out |
| **Capability engine**, rest | registries, source evidence, learning records, managed communication | admit, bind, observe | Core, Gmail, Graph, Twilio | currentness of a chain of bindings; outbound mail reconciled | only current bindings are used |
| **Knowledge, Site** | none to speak of | reads | – | – | – |
| **Gateway and applications** (`apps/*`) | none of their own | forward with the principal Core resolves | all services | – | – |
| **Packages, infrastructure** | none | transactions, HTTP, contracts, migrations | – | – | a transaction is atomic |

`PROJECT.json` lists these parts with their files and status, and every hazard at its line.

How the modelled parts meet. A customer's **confirmation** of a quote lets an **order** be placed and a **matter draft**
be prepared; a **checkout session** is opened for the confirmed order and is payable until it expires; the **payment
service** reads that session, asks **Stripe** for a payment and stores it; Stripe's **webhooks** settle it, refunds
likewise. The order, once ready, is **converted** into a formal matter. What happens to matters is announced: Lite
asks Execution to **authorize and release** each notification, hands it to SES or Twilio, and takes their reports as
evidence. What is to be filed for a matter needs a **filing authorization** of its exact preparation lock and a
**release** decided under it. Managed AI execution stands on its own: any service may ask it to run a governed AI
request under a key.

## 2 What is modelled

### 2.1 Payment: `Payment`, `PaymentLedger`, `Money`

`Payment.tla` is the service with its concurrent request handlers, its tables, MarkReg's checkout as a flag that
may close at any time, and Stripe.

* `payment`, `initiation`, `refund`, `receipt`, `observation` are the tables of migration 0051. There is one
  payment per checkout (the unique index), so a checkout names its payment; a refund is named by its checkout
  and idempotency key. Rows keep status, version and amounts; identifiers, currencies and timestamps are data
  no property tells apart.
* `intent`, `providerRefund`, `event` are the provider: its payment and refund objects and the webhook events it
  has emitted. An event once emitted may be delivered any number of times in any order (`StartWebhook` never
  consumes it). The provider's outcomes are final.
* `job[w]` is what handler `w` is doing and what it has read: its record fields are the local variables of the
  method. One step is one read outside a transaction, one provider call, or one transaction.
  * *Initiation* (`payment-service.ts`): `StartInitiation` (replay lookup), `LoadCheckout`, `FindPayment`,
    `CreatePayment` (provider call and `validateProviderResult`), `StorePayment` (`createInitiationAtomically`).
  * *Webhook* (`payment-lifecycle.ts`): `StartWebhook` (receipt lookup), `LoadPayment`/`LoadRefund` and the
    verdict, `LoadRefundedPayment`, `ApplyPaymentEvent`/`ApplyRefundEvent` (the transactions, with their
    version compare-and-set), `IgnoreEvent`.
  * *Refund*: `StartRefund`, `LoadPaid`, `SumReserved`, `CreateRefund` (provider call), `StoreRefund`
    (`createRefundAtomically`, which sums again).
  * *Reconciliation*: `StartReconciliation`, `SaveReconciliation`.
  * `HandlerFails`: a crash, an error answer or a serialization failure before any step.
* A repeated initiation meets the provider's first payment (the adapter derives the payment id and key from the
  checkout). A repeated refund is answered with the first refund if `RefundReplay`, refused otherwise: the code
  sends a freshly drawn refund id, and Stripe compares parameters.

`Money.tla` says what a sum of amounts is: an amount is a number of minor units, and the total of a set of refunds is the
number of units in it (`TotalOf`). SQL's `SUM` and the loop over the rows both compute it; written so, it can be
reasoned about, as a fold could not. `MCPayment` has TLC check that it is the fold of the community modules
(`TotalIsTheSum`, over a bounded table of amounts).

`PaymentLedger.tla` is what all this promises: one payment per checkout moving forward to one outcome, refunds
that reserve atomically, settle once and are counted once. `ImplementsLedger` maps rows to it.

### 2.2 Checkout: `Checkout`

One step per read of `createCheckout` and per transaction of `createCheckoutAtomically`. A session is known by the
idempotency key of its command. `order` holds the part of an order's status that a checkout or the transition
matrix sees, and moves on its own (`OrderMoves`, from `OrderService.transition`). Each request reads the clock
once, and **no two readings are related**: a slow request may create a session at a time older than what other
requests have seen. `UniqueViolation` is the partial unique index refusing a transaction whose snapshot was too
old, with the two lookups that follow it. `Fails` is a crash, an unavailable database, or a product or price the
code refuses.

### 2.3 Managed AI execution: `ManagedAiExecution`, `ExecutionPromise`

One idempotency key: keys share no row. `state`, `fingerprint`, `owner`, `outcome` are the claim's row,
`exactOutput` the stored provider output, `calls` counts provider calls (no code variable: it is the effect to
be bounded), `answers` collects what callers were told. A request is its owner token. One step is one SQL
statement, because `claim` runs READ COMMITTED: its advisory lock keeps out other claims between its SELECT and
its write (`AdvisoryLockFree`) but not the owner's own updates. Whether a lease is over is left open at every
claim, so any two clocks and any slowness of an owner are covered. `Ends` is a crash or an error at any step,
`Complete` may commit and lose its acknowledgement, and `BecomesUncertain` is every failure after the dispatch.

`ExecutionPromise.tla` is the promise for a key: it stands for one request, is called at most once, and every
answer is that call's outcome. `PromiseSpec` maps the row to it.

### 2.4 Orders and formal matters: `OrderMatter`, `OrderPromise`

| Variable | In the code |
|---|---|
| `confirmation`, `draft` | `customer_confirmations`, `matter_drafts`: a draft is known by its confirmation, and by whether its required fields are filled, whether it stays in the commercial scope, and whether it was evaluated ready |
| `order`, `command`, `audit` | `orders`, `order_commands` by idempotency key, `order_audit` |
| `matter`, `matterCommand` | `formal_matters` with the draft version and content they were created from, `formal_matter_commands` |
| `pc`, `req`, `seenOrder`, `seenDraft` | a request in progress: its next step and what it has read |
| `answered` | the caller holds a result (no code variable: it lets answers be compared with what is on record) |

Requests: `create`, the stages `request_confirmation`, `confirm`, `ready`, `cancel` (`order-service.ts`), `convert` and
`link` (`order-matter-conversion.ts`), direct creation `open_matter` (`formal-matter.ts`), and `create_draft`, `edit`,
`evaluate` (`matter-draft.ts`). `Start`, `FindReplay`, `LoadOrder`, `CheckSource`, `ReadDraft` and the evaluation are
the reads before the write; `CreateOrder`, `MoveOrder`, `OpenMatter`, `ConvertOrder`, `LinkMatter`, `CreateDraft` and
`UpdateDraft` are one transaction or statement each, all its writes included: `ConvertOrder` writes matter, order,
both commands and the audit. `ReplayInTransaction` is a conversion or link that finds its own command on record,
`RollBack` a serialization conflict, `Resolve` the lookup of the winner's result that follows it. `Fails` ends a
request before any step. Roles, tenants and professional review decide only whether a request is refused.

### 2.5 Notifications: `NotificationDelivery`, `NotificationPromise`

| Variable | In the code |
|---|---|
| `channel`, `rule` | the automated rule: its feature (email or SMS) and the status of each of its immutable versions |
| `endpoint`, `suppressed`, `binding` | owners read during a release: the endpoint the Workspace Directory resolves, the active suppressions, the SMS identity's binding |
| `auth`, `released` | Execution's `execution_protected_action_authorizations` and `..._releases`, by key (`protected-external-action*.ts`) |
| `attempt` | Lite's `lite_notification_delivery_attempts`, by trigger and rule version |
| `observation`, `bounces`, `answered` | the recorded evidence, the suppression commands issued for bounces, the SES events answered 200 |
| `calls`, `accepted` | the provider: how often an effect was submitted, what it took |
| `job[w]` | the request or callback a worker handles, and what it has read |

`StartDelivery` fixes the effect: trigger, rule version and endpoint, which is what `effectKey` and the attempt's identity
are made of. `Authorize`, `Release` (the replay of a release, or the first look at the rule), `ValidateEndpoint`,
`ValidateContact`, `CreateRelease` are Execution; the unique index of migration 0140 is `EffectUnreleased`. `CheckIdentity`
(SMS), `PlanAttempt`, `ClaimAttempt`, `Submit` (the provider, which may take a message and not say so) and
`SettleAttempt` are `notification-delivery-runtime.ts`. `ReceiveSesEvent`, `ReceiveTwilioStatus`, `ListEvidence`,
`RecordObservation` and `SuppressBounced` are the two callbacks: a report is never consumed, so it comes again, late
and out of order. An SMS callback compares what it has *listed* with what it brings before it records it.

### 2.6 Filing governance: `FilingGovernance`, `FilingInvariant`, `FilingPromise`

| Variable | In the code |
|---|---|
| `lock` | the preparation lock version MarkReg's source answers with; it may change at any time (`SourceChanges`) |
| `authorization` | `filing_authorizations`: status, version, exact lock and version |
| `release` | `execution_releases`: status, version, authorization in its version, whether the checks passed, executor, whether it was decided |
| `draft` | `filing_execution_task_drafts`, by release; the code gives it no version, and its UPDATE names none |
| `command` | `filing_governance_commands`, by key; the fingerprint leaves the id in the path out (`Content`) |
| `job[w]` | the request, its step, and the authorization and release it holds in memory |

Requests are the nine of `FilingGovernanceService`. Reads and transactions are separate steps in the code's order: a
refresh reads the authorization (`GetAuthorization`), asks the source (`MatchSource`), may write the authorization's
end (`EndAuthorization`), then the release's (`MarkReleaseStale`), then the draft's (`FindStaleDraft`,
`MarkDraftStale`); a decision is `RecordDecision` (the release and its command in one transaction), then `ReloadRelease`,
`FindDraft` and `PrepareDraft`; a repeated decision goes through `ReplayRelease` and repairs a missing draft. A record
to be written is made at a read and written later, if the row is still in the version before it (`Follows`). Whether
an authorization has expired is left open at every read, so any clock is covered. `NoneActive` and `NoneOpen` are the
partial unique indexes of migration 0027, evaluated once as the handler's own look and once in the INSERT.

`FilingPromise` is the atomic life of a filing's authority; `PromiseSpec` maps the rows to it. An authorization that
ends before it was confirmed has *lapsed* there, one that was confirmed has *ended*.

### 2.7 Seeded faults

Definitions commented `mutant:` are plausible slips in the code (a dropped guard, an off-by-one, a comparison of
the wrong thing). Nothing refers to them; each property of a passing run is violated when the definition beside
one is replaced by it (`mutants` in `PROJECT.json`), so each property depends on the code being as it is.

## 3 The runs

| Run | Question | Bounds, and why they are enough |
|---|---|---|
| `payment_webhooks` | do terminal statuses stay the provider's own and no write get lost, whatever order events and handlers take? | one checkout (rows of two share only keys), two handlers, two initiation keys, three events (an open one, a failed attempt or wrong amount, an outcome), amount 2 with a partial capture of 1, one reconciliation. Two handlers are what a lost update or a stale verdict takes |
| `payment_refunds` | do concurrent refunds stay within the payment, and does the service implement the ledger? | two refund keys and amounts 1 and 2 against a payment of 2: both fit, only one fits, exactly the boundary; three events |
| `payment_refund_settlement` | is every event answered, and do a full success and a stored refund's outcome settle? | from a stored payment, two handlers, two events (an earlier one can conflict with the success), one refund of the whole amount (the boundary of the row's assertion) |
| `payment_early_success`, `payment_refund_retry_refused` | the first two disagreements of section 5 | minimal instances |
| `managed_ai_claims` | is the provider called at most once, do answers agree, is the promise kept, is the claim of a dead owner always resolved? | three tokens: an owner, one that takes over or sets aside, one that replays; two requests under one key; an outcome with output and one without. No symmetry, because of liveness |
| `checkout_sessions` | can two sessions of an order be payable at one time; is every answered session the command's own? | two requests at a time (any number one after the other), three keys so that three sessions can follow one another, two orders, clock readings 0 to 2 with a session of length 1: expired, expiring exactly and still open all occur |
| `checkout_order_moved` | the third disagreement | minimal instance |
| `order_matters` | do concurrent, repeated and contradicting requests keep an order's history, its lineage and its one matter? | two clients; the ordinary course of one order from draft to conversion, and for each step of it a rival: another order for the source, cancellations at versions 3, 4 and 5, a link and a direct creation of a second matter, a key reused for another command, an edit of a ready draft, a withdrawal; and a second source with a matter of its own (`m3`), which a link offers to the first source's order. The second source's matter is there, and stays, before the first source is confirmed (`ElsewhereFirst`, a state constraint: the properties are all safety): two sources share nothing else. Two sources that each have an order are left to the proofs (`NoSharedMatter`, `OrdersKeepThePromise`) |
| `order_unready` | the fourth disagreement | one client |
| `notifications` | is a message sent at most once, only while it is permitted, and is every report kept and acted upon? | two workers, two keys for one trigger, two endpoints, email and SMS, SES reporting a bounce, Twilio `sent` and `delivered`, and a rule of three versions (activated, suspended). One trigger: attempts of two share nothing |
| `filing_releases` | are authorization, decision and draft kept consistent by requests that hold old records? | two workers, one lock in two versions, two authorizations and two releases competing for one place each, one executor, six keys (two of them for the same creation), versions up to 3 |

What is bounded: the number of handlers, keys, events, tokens and clock readings (by the constants) and of stored
observations (`MaxObservations`). `MaxVersion` caps the versions of the notification rule, and those of a release
that evaluations, assignments and repeated withdrawals add without end; other versions count events or commands.
Symmetry is used only in runs without liveness. No run switches deadlock checking off: a handler, a request or an event
can always go on.

The properties:

* `NoLostUpdate` – a payment's version is one more than the number of applied receipts about it: two handlers that
  read the same row never both write it.
* `TerminalIsVerified` – a terminal row is the provider's outcome, with the applied event for it on record and, for a
  success, for the full governed amount.
* `RefundsWithinPayment`, `RefundedIsSumOfRefunds`, `RefundIsTheProviders` – the reserve, the cached total and the
  provider's refunds agree.
* `IgnoredForGood` – an event that was ignored, and is never looked at again, would still be ignored now: order costs
  no event its effect. The exception, an event whose row was not there yet, is section 5.
* `MatchIsFinal` – a reconciliation that matched a terminal status stays true.
* `SettledIsFinal` – no step leaves a terminal status, lowers a refunded amount, reopens a refund or revises a receipt.
* `EveryEventAnswered`, `FullSuccessSettles`, `RefundOutcomeSettles`, `RefundStoredOnRetry` – progress, section 4.
* `ImplementsLedger`, `PromiseSpec` – the refinements: what the concurrent handlers do is a behaviour of the abstract
  specification.
* `AtMostOnce`, `AnswersAgree`, `CompletedIsFinal`, `NoLimbo` – managed AI execution: one call, one outcome, never
  revised, never stuck.
* `ValidityDisjoint`, `OkIsRecorded` – checkout sessions of an order are never payable at one time; a session is
  handed out only to the command on record.
* `HistoryIsComplete` – every version of an order has exactly one command and one audit record, and the audit is a path
  of transitions that ends at the row.
* `LineageAgrees`, `NoOrphanMatter`, `ConvertsLiveSource` – an order's matter comes from its own confirmation; a
  conversion never leaves a matter whose order does not name it; it creates none for a withdrawn confirmation.
* `OkIsCommitted` – a result is handed out only to the command it is recorded for, losers of a race included.
* `AtMostOnce` (notifications) – a trigger under a rule version reaches the provider at most once, for one endpoint.
* `BarredStaysBarred` – a send whose rule version or SMS binding is superseded, or whose recipient is suppressed, before
  its release looks, is not released; a filing release whose authorization has ended before anyone's look at it is never
  decided.
* `LateEvidenceIsUnknown`, `BouncesSuppress`, `ClearedStaysCleared` – a report that contradicts the terminal evidence its
  callback found is not recorded as it stands; a bounce answered 200 has had its suppression issued; a redelivered
  bounce does not suppress again what a person cleared.
* `ValidatedIsCurrent` – a task draft answered to be current belongs to a release and an authorization in force at
  that moment, though the two are read one after the other.
* `IInv` – each family's inductive invariant, so that TLC has met what the proofs rest on. For filings it holds the
  uniqueness of active authorizations and open releases, and that every decision has its command, which is what lets a
  repeated request repair the draft.

## 4 Fairness

Safety runs assume none. Liveness runs assume, and only these:

* `WebhookFairness`: Stripe redelivers an event until it is answered 2xx, and a delivery finds a handler; a step of
  an event's handling that keeps being reached is not cut short by a crash every time (strong fairness per event
  and step, because crashes disable it); a handler does not hang for ever (requests have timeouts). Nothing is
  assumed of the order of deliveries, nor that two are not in progress at once.
* `RetryFairness` (only in the violation run `payment_refund_retry_refused`): the same for a refund request its caller
  repeats until it is answered. Even so the refund is not stored.
* `ExecutionFairness`: a request goes on or ends; callers repeat the key's request; a claim's read, its write and the
  dispatch mark, if tried for ever, are not cut short by a crash every time. Leases run out because a claim that is
  repeated finds one over in the end.

Orders, notifications and filings have no liveness property: every request there is driven by its caller, and nothing
in the code repeats it. An attempt left SUBMITTING by a crash stays so, by design (section 5).

The stored starting point of the payment liveness runs (`StoredInit`) is the state after one undisturbed initiation.

## 5 What the runs found

Each is a run TLC must find violated.

1. **A success webhook that overtakes its payment is lost** (`payment_early_success`). `applyPaymentEvent` records an
   event without a payment as `PROVIDER_PAYMENT_REFERENCE_NOT_FOUND`, every redelivery is answered from that receipt,
   and the row stored a moment later stays open. The work package (`MO-MVP-M8-WP-04`, line 66) calls an open
   payment one whose "provider confirmation is incomplete". `applyRefundEvent` does the same to a refund's result
   that overtakes `createRefundAtomically` (line 717): the refund stays pending and its amount reserved.
2. **A refund whose request died after the provider call may never be stored** (`payment_refund_retry_refused`): a
   repetition sends a new random refund id under the same provider key, which Stripe refuses.
3. **A cancelled order gets a payable session** (`checkout_order_moved`): the order's status is read before the
   transaction and not in it, against the service's own "Only a Confirmed Order can initiate checkout."
4. **A matter is created from an incomplete draft** (`order_unready`): `MatterDraftService.update` keeps the readiness of
   the last evaluation, so a READY draft edited into an incomplete one stays READY and `FormalMatterService.create` takes
   it. `MO-MVP-TASK-009`, line 35: "Ready or withdrawn drafts cannot be silently edited". Conversion of an order
   checks the scope again, not the fields.

Behaviour worth knowing that contradicts nothing the repository says, and that the models show by what their properties
must leave out:

* Two Twilio callbacks handled at one time list the evidence before either records: contradicting evidence can then stand
  side by side. `LateEvidenceIsUnknown` speaks of what the callback had listed.
* A release, once stored, replays without a new look at rule, endpoint or suppression
  (`protected-external-action.test.ts:638` wants it so): a retry sends under it although the recipient was suppressed
  meanwhile. `BarredStaysBarred` speaks of sends not yet released.
* An attempt left SUBMITTING by a crash is never resolved: no later request may submit it and no report correlates with it.
* A filing release may be STALE while its draft is still PREPARED, until someone refreshes or validates it; validation
  looks at neither the clock nor the lock. `ValidatedIsCurrent` holds all the same, of the recorded statuses.
* A checkout command that overlaps its own first execution may be refused because of itself: it finds that one's session
  open.

## 6 What is proved

For every value of the constants (any number of handlers, checkouts, events, tokens, orders, keys and clock readings)
under `PaymentAssumption`, `ExecutionAssumption`, `CheckoutAssumption`, `OrderMatterAssumption`,
`NotificationAssumption` and `FilingAssumption`. TLC evaluates these in every run. They say that amounts, times and
version bounds are naturals, that the provider creates payments open, that the sentinel "NONE" names nothing real, that
channels and reports are those the code knows, and that a request carries the ids and the key its kind needs. No set is assumed finite: that the events applied to a payment are finitely many is
part of the invariant behind `NoUpdateIsLost` (`Counted`), and that its refunds in force are, of the one behind the sums
(`MoneyInv`). Every safety and action property of the runs is stated by a theorem below; further theorems state what no run
asks.

**Payment** (`PaymentProofs`, `PaymentSafety`, `PaymentRefinement`). The properties are not inductive: a handler acts on
rows read long before. `IInv` (`PaymentInvariant`) adds what each handler *still knows*:

* an emitted event still describes its subject, because the provider's outcomes are final (`EventIsTrue`);
* a snapshot carries a version the row has had, and *with the row's version it is the row* (`Snapshot`), which turns
  the compare-and-set into a fact about the current row;
* a verdict "ignore" stays right as rows move on (`StaysIgnored`).

The argument: every step moves rows, provider objects and receipts only in the ways `Moves` lists (`StepMoves`); such
moves preserve everything a handler knew before (`HandlerKeeps`); each step teaches its own handler what it claims
(`RequestLearns`, `WebhookLearns`); the transactions then preserve the properties.

Two more invariants rest on `IInv`. `MoneyInv`: the pending and successful refunds of a payment have finitely many units,
no more than its amount, and the cached amount is the number of units of the successful ones. A reservation adds the units
of one refund to what was read in the same transaction (`TotalOf` of a set and one more element is the total plus its
amount); an application moves a refund's units from one status to the other, and counts them once because the payment
is written from a row in the version it was read in. `OutcomeInv`: a refund is settled if and only if exactly one event
has been applied to it, and it has that event's outcome; an applied outcome of a payment has made it terminal.

| Theorem | States |
|---|---|
| `PaymentSafety!Invariance` | `IInv` |
| `TypeCorrectness`, `TerminalVerified`, `RefundsAreTheProviders`, `MatchesAreFinal`, `IgnoredStaysIgnored` | the invariants of those runs |
| `SettledStaysFinal` | the action property `SettledIsFinal` |
| `PaymentRefinement!LedgerImplemented` | the handlers implement `PaymentLedger` |
| `PaymentRefinement!NoUpdateIsLost` | versions count applied events |
| `PaymentRefinement!RefundsStayWithinPayment`, `RefundedIsTheSum` | `RefundsWithinPayment` and `RefundedIsSumOfRefunds`, for any refunds and amounts |
| `PaymentRefinement!SuccessIsNeverRefused` | a delivery of a successful refund that may write the refund may write the payment too: the assertion on the refunded amount never fails, the boundary included (no run's property) |
| `PaymentSafety!RefundsSettleOnce` | a settled refund was settled by exactly one event and has its outcome (no run's property) |
| `PaymentSafety!AnsweredOutcomesStand` | the outcome an answered event announced is the row's, unless the row was not found or less than the full amount was received (no run's property); the exceptions are those of section 5 |

**Managed AI execution** (`ManagedAiProofs`). Needed besides the properties: a request past its dispatch mark is the
row's owner and the row is dispatched, set aside, or completed by that very request (`Dispatched`); `calls` is 0
exactly until it calls. This is why a takeover that reports success without having changed the row does no harm:
the mark that follows finds no row of its own. Theorems: `Invariant`, `ProviderCalledAtMostOnce`,
`AnswersAgreeAlways`, `CallIsAlwaysRecorded`, `CompletedIsAlwaysFinal`, `ClaimsKeepThePromise`. And `ClaimsGoForward`: a
claim only moves forward, keeps its request, and keeps its owner once dispatched. A quarantine is decided on a read that
may be old, so its invariant adds that a dispatch once seen is never undone (`DispatchSeen`).

**Checkout** (`CheckoutProofs`). Disjointness is kept because the open session of an order is its last and each earlier
one was over when the open one was created (`LastIsInitiated`); a request with an old clock reading finds the last one
not over and is kept out. Theorems: `Invariant`, `SessionsNeverOverlap`, `AnswersAreRecorded`. From the same lemma (every
session of the order is over when a new one is created): `OneOpenSession`, an order has one open session, its last, so the
partial unique index only confirms what the SERIALIZABLE transaction's own guards achieve; and `SessionsAreKept`, a session
keeps its input and its time, and ends only with the creation of a later one of its order, once it is over.

**Orders and matters** (`OrderMatterProofs`). A request acts on an order row it read long before. `IInv` adds that what it
saw is the row's past: no newer version, and with the row's version the same row (`SeenIsPast`), so that the version
check turns the decision taken on the old row into one about the current row; that commands and audit number the
versions of a row one by one (`CommandsAgree`, `RowsAgree`); and that an order past `ReadyForMatter` has its matter from
its own source. Theorems: `Invariant`, `HistoryIsAlwaysComplete`, `LineageAlwaysAgrees`, `NeverAnOrphanMatter`,
`ResultsAreCommitted`, `OnlyLiveSourcesConvert`, `OrdersKeepThePromise`. And of what stays for good: `NoSharedMatter` (no
two orders have one source or one matter, although a link takes any matter of the source that the caller names),
`LinkedForGood` (an order's source and matter never change again) and `ResultsAreFinal` (a recorded command and its
matter are written once, so a repetition gets the first answer at any later time).

**Notifications** (`NotificationProofs`). `IInv` follows a send through its four owners: an effect is released under one key
(`ReleasedOnce`), an attempt carries its release's key (`AttemptsAgree`), `calls` is 0 until the one worker past the
claim submits (`CallsAgree`, `ClaimedByOne`), and a callback in progress has its evidence behind it (`ReportRests`).
Theorems: `Invariant`, `SentAtMostOnce`, `BouncesAlwaysSuppress`, `ClearedEndpointsStayCleared`,
`ContradictionsAreUnknown`, `BarredSendsStayBarred`, `SendsKeepThePromise`. Two theorems need an invariant of their own:
`SendsAreReleased` (what reached the provider was released by exactly one key, under a rule version that was made
ACTIVE; `RulesAllow`: so was the version of every authorization, and a version once ACTIVE keeps its record) and `EvidenceHasItsMessage` (a
provider's report on record is of an attempt on record as accepted, and a suppression is issued only for a bounce on
record of a message the provider took; `EvidenceRests`: what a callback holds is already backed so).

**Filing governance** (`FilingProofs`). Every request holds records made several reads ago. `IInv` says what they are still
worth: a record that was read is an earlier version of the row or the row itself (`ReadOf`); a record to be written is made
of the row, unless the row has changed, in which case its version no longer fits (`Written`). Both survive steps of others
because rows only grow: versions rise, `Given`, `Over` and `decided` are never taken back. Each step is put into
one of a few effects on the rows, and each effect is mapped to a step of the promise. Theorems: `Invariant`,
`ValidatedDraftsAreCurrent`, `EndedStaysUndecided`, `FilingsKeepThePromise`. Of the rows alone: `OneAtATime` (one active
authorization of a lock version, one open release of an authorization), `DecidedOnce` (a release is decided exactly when it
has its one decision command, on passed checks and with an executor, and its draft is for that executor) and
`DecisionsAreFinal` (no withdrawal, refresh, repair or validation changes what was decided, for which authorization and
for whom).

Only model-checked:

* liveness under fairness (`EveryEventAnswered`, `FullSuccessSettles`, `RefundOutcomeSettles`, `NoLimbo`; and
  `RefundStoredOnRetry`, which is refuted): the prover has no rule for ENABLED, and so none for WF and SF;
* that `TotalOf` is the sum a fold computes: a fold is defined by recursion over the set, and an induction over data needs
  a theorem with an operator parameter, which the installed provers cannot instantiate. The proofs use `TotalOf` alone.

## 7 What is not modelled

* Signatures, HTTP, authorization, parsing, currencies and rounding: a request reaches the handler or does not.
* The in-memory repositories: test doubles of the PostgreSQL ones.
* A transaction that commits after its client gave up: its handler fails *after* the commit in the model, which is
  the same state.
* Payment: Stripe turning a succeeded refund into a failed one (the code ignores such an event); the read-only
  administration; the refusal of a refund after the provider created it leaves a provider refund without a row, which
  `RefundIsTheProviders` allows: it speaks of rows.
* Managed AI: adapter selection and evidence fingerprints; requests for a key in flight in the same process, which
  share one execution and therefore add no behaviour to the table.
* Checkout: prices and products, which only decide whether a session may be created; and that the payment service
  reads a session: here the two are apart (first in the plan).
* Orders: intake, recommendation, quotes and document packages, each an append-only command in one transaction; a matter's
  life after its creation.
* Notifications: the kinds of protected action that need a person's receipt (listings, campaigns) and their revocation; the
  reviewed email campaign runtime, which has the same shape; templates, addresses, webhook signatures.
* Filings: who may do what; what the checks look at in the lock beyond its exact version; audit records.
* Every component whose status in `PROJECT.json` is `not_modelled`, with the reason there.

## 8 Plan

Done: payment, checkout, managed AI, orders and matters, protected notifications with their delivery, filing governance.
Left, in order of importance; each is a module, its run and its proof.

1. **Order, checkout and payment together.** One order with several checkouts, each with its payment: can an order be
   paid twice (the first checkout expires with its payment still processing, a second is opened and paid), and what
   becomes of a cancelled order's open checkout? Abstract specification: an order is paid at most once. Composes
   the actions of `OrderMatter`, `Checkout` and `Payment` that touch a session.
2. **Allocation and acceptance** (MGSN): one accepted provider per allocation against changing eligibility.
3. **OAuth and external credentials** (Core): single use of an authorization state, refresh against revocation.
4. **Professional review, return evidence and M13 to M15** (Execution): decisions on versioned cases, and the handoff of a
   filing task draft to what executes it.

## 9 Running it

    tlc -config Payment_webhooks.cfg MCPayment.tla
    tlc -config Payment_early_success.cfg PaymentFindings.tla
    tlc -config ManagedAi_claims.cfg ManagedAiExecution.tla
    tlc -config Checkout_sessions.cfg MCCheckout.tla
    tlc -config Order_matters.cfg MCOrderMatter.tla
    tlc -config Notifications.cfg MCNotification.tla
    tlc -config Filing_releases.cfg MCFiling.tla
    tlapm PaymentProofs.tla; tlapm PaymentSafety.tla; tlapm PaymentRefinement.tla
    tlapm ManagedAiProofs.tla; tlapm CheckoutProofs.tla
    tlapm OrderMatterProofs.tla; tlapm NotificationProofs.tla; tlapm FilingProofs.tla

The modules of each run are in `PROJECT.json`. `checkout_sessions` is the largest (2.8 million states, under two minutes
with two workers).
