------------------------ MODULE NotificationDelivery ------------------------
(***************************************************************************)
(* Automated notifications of Lite (services/lite), by email or by SMS: the *)
(* rule that allows them, the authorization and release of every send by    *)
(* Execution (services/execution), the delivery attempt, the provider that  *)
(* is called, and the provider's authenticated events, which are recorded   *)
(* as observations and may suppress the endpoint.                           *)
(*                                                                          *)
(* Granularity: a read of one owner, a single statement and a transaction   *)
(* are one step each.  Requests are handled concurrently, may be repeated   *)
(* under any key, and may fail or crash before any step.                    *)
(***************************************************************************)
EXTENDS Naturals, Sequences

CONSTANTS
    Workers,    \* concurrent request handlers
    Keys,       \* idempotency keys of deliver requests
    Triggers,   \* immutable MarkReg lifecycle events
    Endpoints,  \* endpoint fingerprints
    Channels,   \* of "EMAIL" and "SMS"
    SesEvents,  \* what Amazon SES may report: of "DELIVERED" and "HARD_BOUNCED"
    TwilioStatuses,  \* what Twilio may report: of "sent", "delivered" and "failed"
    RuleMoves,  \* the statuses the rule is moved to
    MaxVersion  \* bound on the versions of the rule

ASSUME NotificationAssumption ==
    /\ MaxVersion \in Nat \ {0}
    /\ "NONE" \notin Endpoints
    /\ Channels \subseteq {"EMAIL", "SMS"}
    /\ SesEvents \subseteq {"DELIVERED", "HARD_BOUNCED"}
    /\ TwilioStatuses \subseteq {"sent", "delivered", "failed"}

VARIABLES
    channel,     \* the rule's featureKey: EMAIL_NOTIFICATION or SMS_WORKSPACE_NOTIFICATION
    rule,        \* rule[v]: the status of its immutable version v
    endpoint,    \* the endpoint the Workspace Directory resolves the matter's contact to
    suppressed,  \* endpoints with an ACTIVE suppression
    binding,     \* the SMS channel identity binding is the current head
    auth,        \* execution_protected_action_authorizations: the effect, by the request's key
    released,    \* execution_protected_action_releases: the keys that released
    attempt,     \* lite_notification_delivery_attempts, by attempt identity
    observation, \* lite_notification_delivery_observations
    bounces,     \* the suppression commands issued, by the event they are for
    calls,       \* provider: calls[e], how often effect e was submitted
    accepted,    \* provider: the effects it took for delivery
    answered,    \* provider: the SES events that were answered 200
    job          \* job[w]: the request worker w handles

world     == <<channel, rule, endpoint, binding>>
execution == <<auth, released>>
provider  == <<calls, accepted>>
evidence  == <<observation, bounces, answered>>
vars == <<world, suppressed, execution, attempt, provider, evidence, job>>

Versions   == 1..MaxVersion
Identities == Triggers \X Versions
Effects    == [trigger: Triggers, version: Versions, endpoint: Endpoints]
Id(e)      == <<e.trigger, e.version>>

NoEffect  == [trigger |-> "NONE", version |-> 0, endpoint |-> "NONE"]
NoAttempt == [status |-> "NONE", effect |-> NoEffect, key |-> "NONE"]
Idle      == [pc |-> "idle"]

Init ==
    /\ channel \in Channels
    /\ rule = <<"DRAFT">>
    /\ endpoint \in Endpoints
    /\ suppressed = {}
    /\ binding = TRUE
    /\ auth = [k \in Keys |-> NoEffect]
    /\ released = {}
    /\ attempt = [i \in Identities |-> NoAttempt]
    /\ observation = {}
    /\ bounces = {}
    /\ calls = [e \in Effects |-> 0]
    /\ accepted = {}
    /\ answered = {}
    /\ job = [w \in Workers |-> Idle]
-----------------------------------------------------------------------------
(* The owners that a send depends on. *)

CanTransition(from, to) ==
    \/ from = "DRAFT"     /\ to \in {"ACTIVE", "REVOKED"}
    \/ from = "ACTIVE"    /\ to \in {"SUSPENDED", "REVOKED"}
    \/ from = "SUSPENDED" /\ to \in {"ACTIVE", "REVOKED"}

(* activate, suspend and revoke: each adds a version to the rule. *)
TransitionRule(to) ==
    /\ Len(rule) < MaxVersion
    /\ CanTransition(rule[Len(rule)], to)
    /\ rule' = Append(rule, to)
    /\ UNCHANGED <<channel, endpoint, binding, suppressed, execution, attempt, provider, evidence, job>>

ChangeEndpoint(ep) ==
    /\ endpoint' = ep
    /\ UNCHANGED <<channel, rule, binding, suppressed, execution, attempt, provider, evidence, job>>

(* The binding gets a newer head, or is revoked, for good.  An identity that is *)
(* not current for a while only makes the checks below refuse.                  *)
SupersedeBinding ==
    /\ channel = "SMS"
    /\ binding
    /\ binding' = FALSE
    /\ UNCHANGED <<channel, rule, endpoint, suppressed, execution, attempt, provider, evidence, job>>

(* A person suppresses an endpoint or clears its suppression. *)
ChangeSuppression(ep) ==
    /\ suppressed' = IF ep \in suppressed THEN suppressed \ {ep} ELSE suppressed \cup {ep}
    /\ UNCHANGED <<world, execution, attempt, provider, evidence, job>>
-----------------------------------------------------------------------------
At(w, step)     == job[w].pc = step
Key(w)          == job[w].key
Effect(w)       == job[w].effect
Goto(w, step)   == job' = [job EXCEPT ![w].pc = step]
Leave(w)        == job' = [job EXCEPT ![w] = Idle]

(* A check that refuses, a call or statement that fails and a crash end a    *)
(* request alike: what it already wrote stays.                               *)
Fails(w) ==
    /\ ~At(w, "idle")
    /\ Leave(w)
    /\ UNCHANGED <<world, suppressed, execution, attempt, provider, evidence>>

(* deliver: the rule's latest version must be ACTIVE, and the directory gives  *)
(* the destination; Execution looks at both again.                             *)
StartDelivery(w, k, t) ==
    /\ At(w, "idle")
    /\ rule[Len(rule)] = "ACTIVE"
    /\ job' = [job EXCEPT ![w] =
                 [pc |-> "authorize", key |-> k,
                  effect |-> [trigger |-> t, version |-> Len(rule), endpoint |-> endpoint]]]
    /\ UNCHANGED <<world, suppressed, execution, attempt, provider, evidence>>
-----------------------------------------------------------------------------
(* Execution: an authorization, then a release, each after the owners have   *)
(* validated the effect.                                                     *)

AnyActiveVersion(e) == rule[e.version] = "ACTIVE"  \* mutant: not the latest version

(* The rule version is ACTIVE and the latest, on a current SMS identity. *)
RuleCurrent(e) ==
    /\ rule[e.version] = "ACTIVE"
    /\ Len(rule) = e.version
    /\ channel = "SMS" => binding

EndpointCurrent(e) == endpoint = e.endpoint
MayContact(e)      == e.endpoint \notin suppressed

(* authorizeNotificationSend: a recorded command replays, for its own intent; *)
(* a new one is validated.  The transaction looks the command up again and     *)
(* nothing rests on when after the validation it runs: it is one step.         *)
Authorize(w) ==
    /\ At(w, "authorize")
    /\ \/ auth[Key(w)] = Effect(w) /\ UNCHANGED auth
       \/ /\ auth[Key(w)] = NoEffect
          /\ RuleCurrent(Effect(w)) /\ EndpointCurrent(Effect(w)) /\ MayContact(Effect(w))
          /\ auth' = [auth EXCEPT ![Key(w)] = Effect(w)]
    /\ Goto(w, "release")
    /\ UNCHANGED <<world, suppressed, released, attempt, provider, evidence>>

(* After its release an SMS looks at its identity once more. *)
AfterRelease == IF channel = "SMS" THEN "identity" ELSE "plan"

(* releaseNotificationSend: a release replays without looking at the owners;  *)
(* a new one validates the rule, then the contact, and is stored.  An          *)
(* authorization that has expired refuses, here and ever after: Fails.  (The    *)
(* status EXPIRED then written repeats what expiresAt says.)                    *)
Release(w) ==
    /\ At(w, "release")
    /\ \/ Key(w) \in released /\ Goto(w, AfterRelease)
       \/ /\ Key(w) \notin released
          /\ RuleCurrent(Effect(w))
          /\ Goto(w, "endpoint")
    /\ UNCHANGED <<world, suppressed, execution, attempt, provider, evidence>>

ValidateEndpoint(w) ==
    /\ At(w, "endpoint")
    /\ EndpointCurrent(Effect(w))
    /\ Goto(w, "contact")
    /\ UNCHANGED <<world, suppressed, execution, attempt, provider, evidence>>

ValidateContact(w) ==
    /\ At(w, "contact")
    /\ MayContact(Effect(w))
    /\ Goto(w, "save_release")
    /\ UNCHANGED <<world, suppressed, execution, attempt, provider, evidence>>

NoIndex(e) == TRUE  \* mutant: a key is all that a release is unique by

(* The unique index of migration 0140: one release for an effect. *)
EffectUnreleased(e) == \A k \in released : auth[k] # e

CreateRelease(w) ==
    /\ At(w, "save_release")
    /\ Key(w) \in released \/ EffectUnreleased(Effect(w))
    /\ released' = released \cup {Key(w)}
    /\ Goto(w, AfterRelease)
    /\ UNCHANGED <<world, suppressed, auth, attempt, provider, evidence>>
-----------------------------------------------------------------------------
(* The delivery attempt and the provider. *)

CheckIdentity(w) ==
    /\ At(w, "identity")
    /\ binding
    /\ Goto(w, "plan")
    /\ UNCHANGED <<world, suppressed, execution, attempt, provider, evidence>>

Endpointwise(e) == attempt[Id(e)].effect # e  \* mutant: identified by the effect

(* createAttempt: the attempt of the release or of the effect is the request's *)
(* own, or there is none and the identity is free.  Then an ambiguous attempt  *)
(* is refused, a finished one is the answer, a planned one is to be claimed.   *)
IdentityFree(e) == attempt[Id(e)] = NoAttempt

PlanAttempt(w) ==
    LET prior == {i \in Identities : /\ attempt[i] # NoAttempt
                                     /\ \/ attempt[i].key = Key(w)
                                        \/ attempt[i].effect = Effect(w)}
    IN  /\ At(w, "plan")
        /\ \/ /\ prior = {}
              /\ IdentityFree(Effect(w))
              /\ attempt' = [attempt EXCEPT ![Id(Effect(w))] =
                               [status |-> "PLANNED", effect |-> Effect(w), key |-> Key(w)]]
              /\ Goto(w, "claim")
           \/ \E i \in prior :
                /\ attempt[i].key = Key(w) /\ attempt[i].effect = Effect(w)
                /\ \/ attempt[i].status = "PLANNED" /\ Goto(w, "claim")
                   \/ attempt[i].status \in {"ACCEPTED", "FAILED"} /\ Leave(w)
                /\ UNCHANGED attempt
        /\ UNCHANGED <<world, suppressed, execution, provider, evidence>>

Attempt(w) == attempt[Id(Effect(w))]

InAnyStatus(w, status) == TRUE  \* mutant: the update is unconditional

(* UPDATE ... WHERE status = expected, one row. *)
StillIn(w, status) == Attempt(w).status = status

ClaimAttempt(w) ==
    /\ At(w, "claim")
    /\ StillIn(w, "PLANNED")
    /\ attempt' = [attempt EXCEPT ![Id(Effect(w))].status = "SUBMITTING"]
    /\ Goto(w, "submit")
    /\ UNCHANGED <<world, suppressed, execution, provider, evidence>>

(* transport.submit; an exception or a lost answer is UNKNOWN, whatever the   *)
(* provider did.                                                              *)
Submit(w) ==
    /\ At(w, "submit")
    /\ calls' = [calls EXCEPT ![Effect(w)] = @ + 1]
    /\ \E result \in {"ACCEPTED", "FAILED", "UNKNOWN"}, taken \in BOOLEAN :
        /\ result = "ACCEPTED" => taken
        /\ result = "FAILED" => ~taken
        /\ accepted' = IF taken THEN accepted \cup {Effect(w)} ELSE accepted
        /\ job' = [job EXCEPT ![w] = [pc |-> "settle", effect |-> Effect(w), status |-> "transport",
                                      event |-> result, known |-> {}]]
    /\ UNCHANGED <<world, suppressed, execution, attempt, evidence>>

SettleAttempt(w) ==
    /\ At(w, "settle")
    /\ StillIn(w, "SUBMITTING")
    /\ attempt' = [attempt EXCEPT ![Id(Effect(w))].status = job[w].event]
    /\ Goto(w, "observe")
    /\ UNCHANGED <<world, suppressed, execution, provider, evidence>>
-----------------------------------------------------------------------------
(* What the provider reports of a message it took: any event, any number of  *)
(* times, in any order.  It correlates once the attempt has the provider's   *)
(* reference.                                                                *)

Correlates(e) == attempt[Id(e)].status = "ACCEPTED" /\ attempt[Id(e)].effect = e

Recorded(i, status)  == {o \in observation : o.attempt = i /\ o.status = status}
ProviderEvidence(i)  == {o.event : o \in {p \in observation : p.attempt = i /\ p.status # "transport"}}
Terminal             == {"DELIVERED", "FAILED"}

ReceiveSesEvent(w, e, status) ==
    /\ At(w, "idle")
    /\ channel = "EMAIL"
    /\ e \in accepted
    /\ Correlates(e)
    /\ job' = [job EXCEPT ![w] = [pc |-> "observe", effect |-> e, status |-> status,
                                  event |-> status, known |-> {}]]
    /\ UNCHANGED <<world, suppressed, execution, attempt, provider, evidence>>

(* `known`, the terminal evidence there is when the callback arrives, is      *)
(* auxiliary.                                                                 *)
ReceiveTwilioStatus(w, e, status) ==
    /\ At(w, "idle")
    /\ channel = "SMS"
    /\ e \in accepted
    /\ Correlates(e)
    /\ binding
    /\ job' = [job EXCEPT ![w] = [pc |-> "list", effect |-> e, status |-> status, event |-> "UNKNOWN",
                                  known |-> ProviderEvidence(Id(e)) \cap Terminal]]
    /\ UNCHANGED <<world, suppressed, execution, attempt, provider, evidence>>

MappedEvent(status) ==
    CASE status = "delivered" -> "DELIVERED"
      [] status = "failed"    -> "FAILED"
      [] OTHER                -> "ACCEPTED"

(* Mutant: only terminal evidence is compared. *)
OutcomesCompared(event, prior) ==
    IF event \in Terminal /\ Terminal \ {event} \subseteq prior THEN "UNKNOWN" ELSE event

(* Late evidence that contradicts terminal evidence is recorded as UNKNOWN. *)
Downgraded(event, prior) ==
    IF \/ event = "ACCEPTED"  /\ prior \cap Terminal # {}
       \/ event = "DELIVERED" /\ "FAILED" \in prior
       \/ event = "FAILED"    /\ "DELIVERED" \in prior
    THEN "UNKNOWN" ELSE event

ListEvidence(w) ==
    /\ At(w, "list")
    /\ job' = [job EXCEPT ![w].pc = "observe",
                          ![w].event = Downgraded(MappedEvent(job[w].status),
                                                  ProviderEvidence(Id(Effect(w))))]
    /\ UNCHANGED <<world, suppressed, execution, attempt, provider, evidence>>

(* Mutant: an event that is on record is answered at once. *)
ReplaysAnswered(w, event) ==
    IF event = "HARD_BOUNCED" /\ Recorded(Id(Effect(w)), job[w].status) = {}
    THEN Goto(w, "suppress") /\ UNCHANGED answered
    ELSE /\ Leave(w)
         /\ answered' = IF job[w].status \in SesEvents
                        THEN answered \cup {<<Id(Effect(w)), job[w].status>>} ELSE answered

(* What follows an observation: a bounce goes on to its suppression, anything *)
(* else is answered.                                                          *)
AfterRecord(w, event) ==
    IF event = "HARD_BOUNCED"
    THEN Goto(w, "suppress") /\ UNCHANGED answered
    ELSE /\ Leave(w)
         /\ answered' = IF job[w].status \in SesEvents
                        THEN answered \cup {<<Id(Effect(w)), job[w].status>>} ELSE answered

(* recordObservation: an event identity that is recorded replays.             *)
RecordObservation(w) ==
    LET i == Id(Effect(w))
    IN  /\ At(w, "observe")
        /\ \/ \E o \in Recorded(i, job[w].status) :
                AfterRecord(w, o.event) /\ UNCHANGED observation
           \/ /\ Recorded(i, job[w].status) = {}
              /\ observation' = observation \cup
                   {[attempt |-> i, status |-> job[w].status, event |-> job[w].event]}
              /\ AfterRecord(w, job[w].event)
        /\ UNCHANGED <<world, suppressed, execution, attempt, provider, bounces>>

NeverIssued(key) == FALSE  \* mutant: every delivery of the event suppresses

(* setSuppression under the event's own key: a replay changes nothing. *)
Issued(key) == key \in bounces

SuppressBounced(w) ==
    LET key == <<Id(Effect(w)), job[w].status>>
    IN  /\ At(w, "suppress")
        /\ suppressed' = IF Issued(key) THEN suppressed ELSE suppressed \cup {Effect(w).endpoint}
        /\ bounces' = bounces \cup {key}
        /\ answered' = answered \cup {key}
        /\ Leave(w)
        /\ UNCHANGED <<world, execution, attempt, provider, observation>>
-----------------------------------------------------------------------------
Deliver(w) ==
    \/ \E k \in Keys, t \in Triggers : StartDelivery(w, k, t)
    \/ Authorize(w) \/ Release(w) \/ ValidateEndpoint(w) \/ ValidateContact(w) \/ CreateRelease(w)
    \/ CheckIdentity(w) \/ PlanAttempt(w) \/ ClaimAttempt(w)
    \/ Submit(w) \/ SettleAttempt(w)

Ingest(w) ==
    \/ \E e \in Effects, s \in SesEvents : ReceiveSesEvent(w, e, s)
    \/ \E e \in Effects, s \in TwilioStatuses : ReceiveTwilioStatus(w, e, s)
    \/ ListEvidence(w)
    \/ RecordObservation(w)
    \/ SuppressBounced(w)

Owners ==
    \/ \E to \in RuleMoves : TransitionRule(to)
    \/ \E ep \in Endpoints : ChangeEndpoint(ep) \/ ChangeSuppression(ep)
    \/ SupersedeBinding

Next ==
    \/ Owners
    \/ \E w \in Workers : Deliver(w) \/ Ingest(w) \/ Fails(w)

Spec == Init /\ [][Next]_vars
-----------------------------------------------------------------------------
Contradicts(event, prior) ==
    \/ event = "ACCEPTED"  /\ prior # {}
    \/ event = "DELIVERED" /\ "FAILED" \in prior
    \/ event = "FAILED"    /\ "DELIVERED" \in prior

Statuses  == {"DRAFT", "ACTIVE", "SUSPENDED", "REVOKED"}
Outcomes  == {"ACCEPTED", "FAILED", "UNKNOWN"}
Reports   == {"transport"} \cup SesEvents \cup TwilioStatuses
Events    == Outcomes \cup {"DELIVERED", "HARD_BOUNCED"}
AtRelease == {"release", "endpoint", "contact", "save_release"}
Released  == {"identity", "plan", "claim", "submit"}

AttemptRow    == [status: {"PLANNED", "SUBMITTING"} \cup Outcomes, effect: Effects, key: Keys]
Observation   == [attempt: Identities, status: Reports, event: Events]
SendJob       == [pc: {"authorize"} \cup AtRelease \cup Released, key: Keys, effect: Effects]
ReportJob     == [pc: {"settle", "list", "observe", "suppress"}, effect: Effects,
                  status: Reports, event: Events, known: SUBSET Terminal]

TypeOK ==
    /\ channel \in Channels
    /\ rule \in Seq(Statuses) /\ Len(rule) \in Versions
    /\ endpoint \in Endpoints /\ suppressed \subseteq Endpoints /\ binding \in BOOLEAN
    /\ auth \in [Keys -> Effects \cup {NoEffect}]
    /\ released \subseteq Keys
    /\ attempt \in [Identities -> AttemptRow \cup {NoAttempt}]
    /\ observation \subseteq Observation
    /\ bounces \subseteq Identities \X SesEvents /\ answered \subseteq Identities \X SesEvents
    /\ calls \in [Effects -> Nat] /\ accepted \subseteq Effects
    /\ job \in [Workers -> {Idle} \cup SendJob \cup ReportJob]

(* An effect is released once, by a key that was authorized for it. *)
ReleasedOnce ==
    /\ \A k \in released : auth[k] # NoEffect
    /\ \A j, k \in released : auth[j] = auth[k] => j = k

(* An attempt belongs to the release of its effect; its status tells what    *)
(* became of that effect at the provider.                                    *)
AttemptsAgree ==
    \A i \in Identities : attempt[i] # NoAttempt =>
        LET e == attempt[i].effect
        IN  /\ Id(e) = i
            /\ attempt[i].key \in released /\ auth[attempt[i].key] = e
            /\ attempt[i].status = "PLANNED"  => calls[e] = 0
            /\ attempt[i].status \in Outcomes => calls[e] = 1
            /\ attempt[i].status = "ACCEPTED" => e \in accepted
            /\ attempt[i].status = "FAILED"   => e \notin accepted

CallsAgree ==
    \A e \in Effects :
        /\ calls[e] <= 1
        /\ e \in accepted => calls[e] = 1
        /\ calls[e] = 1 => attempt[Id(e)] # NoAttempt /\ attempt[Id(e)].effect = e

(* What a request in progress rests on. *)
SendRests(w) ==
    /\ job[w].pc \in AtRelease \cup Released => auth[Key(w)] = Effect(w)
    /\ job[w].pc \in Released => Key(w) \in released
    /\ job[w].pc \in {"claim", "submit"} => Attempt(w).effect = Effect(w)
    /\ job[w].pc = "submit" => Attempt(w).status = "SUBMITTING" /\ calls[Effect(w)] = 0
    /\ job[w].pc = "settle" =>
          /\ Attempt(w).status = "SUBMITTING" /\ calls[Effect(w)] = 1
          /\ job[w].status = "transport" /\ job[w].event \in Outcomes
          /\ job[w].event = "ACCEPTED" => Effect(w) \in accepted
          /\ job[w].event = "FAILED" => Effect(w) \notin accepted

SendsRest == \A w \in Workers : SendRests(w)

(* A claimed attempt is in the hands of one request. *)
ClaimedByOne ==
    \A v, w \in Workers :
        /\ v # w
        /\ job[v].pc \in {"submit", "settle"} /\ job[w].pc \in {"submit", "settle"}
        => Id(Effect(v)) # Id(Effect(w))

(* An event is recorded once, before it is answered; what a callback found stays *)
(* on record, and what it is about to record does not contradict it.             *)
ReportRests(w) ==
    /\ job[w].pc \in {"settle", "list", "observe"} =>
          /\ job[w].known \subseteq ProviderEvidence(Id(Effect(w)))
          /\ ~Contradicts(job[w].event, job[w].known)
          /\ job[w].event = "HARD_BOUNCED" => job[w].status \in SesEvents
    /\ job[w].pc = "suppress" =>
          /\ job[w].status \in SesEvents
          /\ Recorded(Id(Effect(w)), job[w].status) # {}

EvidenceKept ==
    /\ \A o, p \in observation : o.attempt = p.attempt /\ o.status = p.status => o = p
    /\ \A o \in observation : o.event = "HARD_BOUNCED" => o.status \in SesEvents
    /\ \A key \in answered : Recorded(key[1], key[2]) # {}
    /\ \A w \in Workers : ReportRests(w)

(* A bounce that SES was answered 200 has had its suppression issued: a crash *)
(* between record and suppression leaves the event to be redelivered.        *)
BouncesSuppress ==
    \A o \in observation :
        o.event = "HARD_BOUNCED" /\ <<o.attempt, o.status>> \in answered
        => <<o.attempt, o.status>> \in bounces

IInv ==
    /\ TypeOK /\ ReleasedOnce /\ AttemptsAgree /\ CallsAgree
    /\ SendsRest /\ ClaimedByOne /\ EvidenceKept /\ BouncesSuppress
-----------------------------------------------------------------------------
(* A trigger under a rule version reaches the provider at most once, for one *)
(* endpoint, whatever keys, retries, crashes and concurrent requests.        *)
AtMostOnce ==
    \A e, f \in Effects :
        /\ calls[e] <= 1
        /\ calls[e] > 0 /\ calls[f] > 0 /\ Id(e) = Id(f) => e = f

(* A send that is not released when its rule version is superseded, or its   *)
(* SMS binding, or when its recipient is suppressed, stays unreleased, but   *)
(* for a release whose check is already past: only clearing the suppression  *)
(* opens it again.                                                           *)
Checked(e, steps) == \E w \in Workers : job[w].pc \in steps /\ Effect(w) = e

Barred(e) ==
    /\ EffectUnreleased(e)
    /\ \/ /\ Len(rule) > e.version \/ (channel = "SMS" /\ ~binding)
          /\ ~Checked(e, {"endpoint", "contact", "save_release"})
       \/ e.endpoint \in suppressed /\ ~Checked(e, {"save_release"})

BarredStaysBarred ==
    [][\A e \in Effects : Barred(e) => Barred(e)' \/ e.endpoint \in suppressed \ suppressed']_vars

(* Evidence that contradicts the terminal evidence there was when its        *)
(* callback arrived is not recorded as it stands.  (Evidence of callbacks    *)
(* handled at the same time may contradict.)                                 *)
LateEvidenceIsUnknown ==
    [][\A o \in observation' \ observation, w \in Workers :
         job[w].pc = "observe" /\ job'[w] # job[w] => ~Contradicts(o.event, job[w].known)]_vars

(* Only a bounce that was not yet answered for suppresses: a redelivered one *)
(* does not suppress again an endpoint that a person has cleared.            *)
ClearedStaysCleared ==
    [][\A w \in Workers : job'[w] # job[w] /\ bounces' = bounces
                            => suppressed' \subseteq suppressed]_vars

Promise == INSTANCE NotificationPromise

PromiseSpec == Promise!Spec
=============================================================================
