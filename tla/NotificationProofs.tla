------------------------- MODULE NotificationProofs -------------------------
(***************************************************************************)
(* Proofs about NotificationDelivery, for any requests, keys, triggers,    *)
(* endpoints and versions.                                                 *)
(***************************************************************************)
EXTENDS NotificationDelivery, SequenceTheorems, TLAPS

USE NotificationAssumption

SendSteps   == {"authorize"} \cup AtRelease \cup Released
ReportSteps == {"settle", "list", "observe", "suppress"}

LEMMA NoEffectIsNone == NoEffect \notin Effects /\ NoEffect.trigger = "NONE"
  BY DEF NoEffect, Effects

LEMMA IdType == \A e \in Effects : Id(e) \in Identities /\ Id(e)[1] = e.trigger /\ Id(e)[2] = e.version
  BY DEF Id, Effects, Identities

(* A request is what its step says it is. *)
LEMMA JobAt ==
    ASSUME TypeOK, NEW w \in Workers
    PROVE  /\ job[w] = Idle \/ job[w] \in SendJob \/ job[w] \in ReportJob
           /\ job[w].pc \in SendSteps => job[w] \in SendJob
           /\ job[w].pc \in ReportSteps => job[w] \in ReportJob
           /\ job[w].pc \in SendSteps \cup ReportSteps \cup {"idle"}
           /\ job[w].pc = "idle" => job[w] = Idle
  BY DEF TypeOK, Idle, SendJob, ReportJob, SendSteps, ReportSteps, AtRelease, Released

LEMMA SendFields ==
    ASSUME TypeOK, NEW w \in Workers, job[w].pc \in SendSteps
    PROVE  Key(w) \in Keys /\ Effect(w) \in Effects /\ Id(Effect(w)) \in Identities
  BY JobAt, IdType DEF Key, Effect, SendJob

LEMMA ReportFields ==
    ASSUME TypeOK, NEW w \in Workers, job[w].pc \in ReportSteps
    PROVE  /\ Effect(w) \in Effects /\ Id(Effect(w)) \in Identities
           /\ job[w].status \in Reports /\ job[w].event \in Events /\ job[w].known \subseteq Terminal
  BY JobAt, IdType DEF Effect, ReportJob

LEMMA StepSend ==
    ASSUME NEW r \in SendJob, NEW s \in SendSteps
    PROVE  /\ [r EXCEPT !.pc = s] \in SendJob
           /\ [r EXCEPT !.pc = s].pc = s
           /\ [r EXCEPT !.pc = s].key = r.key
           /\ [r EXCEPT !.pc = s].effect = r.effect
  BY DEF SendJob, SendSteps

LEMMA StepReport ==
    ASSUME NEW r \in ReportJob, NEW s \in ReportSteps
    PROVE  /\ [r EXCEPT !.pc = s] \in ReportJob
           /\ [r EXCEPT !.pc = s].pc = s
           /\ [r EXCEPT !.pc = s].effect = r.effect
           /\ [r EXCEPT !.pc = s].status = r.status
           /\ [r EXCEPT !.pc = s].event = r.event
           /\ [r EXCEPT !.pc = s].known = r.known
  BY DEF ReportJob, ReportSteps

(* What a step does to the requests. *)
JobsType == job \in [Workers -> {Idle} \cup SendJob \cup ReportJob]
Others(w) == \A v \in Workers : v # w => job'[v] = job[v]

LEMMA GotoSend ==
    ASSUME TypeOK, NEW w \in Workers, NEW s \in SendSteps, job[w].pc \in SendSteps, Goto(w, s)
    PROVE  /\ JobsType' /\ Others(w) /\ job'[w] \in SendJob
           /\ job'[w].pc = s /\ job'[w].key = job[w].key /\ job'[w].effect = job[w].effect
<1>1. job[w] \in SendJob
  BY JobAt
<1>2. job' = [job EXCEPT ![w] = [job[w] EXCEPT !.pc = s]]
  BY DEF Goto
<1>3. job'[w] = [job[w] EXCEPT !.pc = s]
  BY <1>2 DEF TypeOK
<1>4. job'[w] \in SendJob
  BY <1>1, <1>3, StepSend
<1>5. JobsType' /\ Others(w)
  <2> DEFINE r == [job[w] EXCEPT !.pc = s]
  <2>1. r \in SendJob
    BY <1>3, <1>4
  <2> HIDE DEF r
  <2>2. job' = [job EXCEPT ![w] = r]
    BY <1>2 DEF r
  <2> QED  BY <2>1, <2>2 DEF TypeOK, JobsType, Others
<1> QED  BY <1>1, <1>3, <1>4, <1>5, StepSend

LEMMA GotoReport ==
    ASSUME TypeOK, NEW w \in Workers, NEW s \in ReportSteps, job[w].pc \in ReportSteps, Goto(w, s)
    PROVE  /\ JobsType' /\ Others(w) /\ job'[w] \in ReportJob
           /\ job'[w].pc = s /\ job'[w].effect = job[w].effect /\ job'[w].status = job[w].status
           /\ job'[w].event = job[w].event /\ job'[w].known = job[w].known
<1>1. job[w] \in ReportJob
  BY JobAt
<1>2. job' = [job EXCEPT ![w] = [job[w] EXCEPT !.pc = s]]
  BY DEF Goto
<1>3. job'[w] = [job[w] EXCEPT !.pc = s]
  BY <1>2 DEF TypeOK
<1>4. job'[w] \in ReportJob
  BY <1>1, <1>3, StepReport
<1>5. JobsType' /\ Others(w)
  <2> DEFINE r == [job[w] EXCEPT !.pc = s]
  <2>1. r \in ReportJob
    BY <1>3, <1>4
  <2> HIDE DEF r
  <2>2. job' = [job EXCEPT ![w] = r]
    BY <1>2 DEF r
  <2> QED  BY <2>1, <2>2 DEF TypeOK, JobsType, Others
<1> QED  BY <1>1, <1>3, <1>4, <1>5, StepReport

LEMMA Becomes ==
    ASSUME TypeOK, NEW w \in Workers, NEW r \in {Idle} \cup SendJob \cup ReportJob,
           job' = [job EXCEPT ![w] = r]
    PROVE  JobsType' /\ Others(w) /\ job'[w] = r
  BY DEF TypeOK, JobsType, Others

LEMMA Leaving ==
    ASSUME TypeOK, NEW w \in Workers, Leave(w)
    PROVE  JobsType' /\ Others(w) /\ job'[w].pc = "idle"
<1>1. JobsType' /\ Others(w) /\ job'[w] = Idle
  BY DEF TypeOK, JobsType, Others, Leave
<1> QED  BY <1>1 DEF Idle
-----------------------------------------------------------------------------
(* What a step leaves alone keeps what is known of it. *)
StoreSame == UNCHANGED <<execution, attempt, provider>>

LEMMA KeepsStore ==
    ASSUME IInv, StoreSame
    PROVE  ReleasedOnce' /\ AttemptsAgree' /\ CallsAgree'
  BY DEF IInv, StoreSame, execution, provider, ReleasedOnce, AttemptsAgree, CallsAgree, Id

LEMMA KeepsSend ==
    ASSUME IInv, NEW v \in Workers, job'[v] = job[v], StoreSame
    PROVE  SendRests(v)'
  BY DEF IInv, SendsRest, SendRests, StoreSame, execution, provider, Key, Effect, Attempt, Id

LEMMA EvidenceGrows ==
    ASSUME observation \subseteq observation'
    PROVE  \A i, s : /\ Recorded(i, s) \subseteq Recorded(i, s)'
                     /\ ProviderEvidence(i) \subseteq ProviderEvidence(i)'
  BY DEF Recorded, ProviderEvidence

LEMMA KeepsReport ==
    ASSUME IInv, NEW v \in Workers, job'[v] = job[v], observation \subseteq observation'
    PROVE  ReportRests(v)'
<1>1. ReportRests(v)
  BY DEF IInv, EvidenceKept
<1>2. /\ Effect(v)' = Effect(v) /\ Id(Effect(v))' = Id(Effect(v))
      /\ \A s : Recorded(Id(Effect(v)), s) \subseteq Recorded(Id(Effect(v)), s)'
      /\ ProviderEvidence(Id(Effect(v))) \subseteq ProviderEvidence(Id(Effect(v)))'
  BY EvidenceGrows DEF Effect, Id, Recorded, ProviderEvidence
<1> QED  BY <1>1, <1>2 DEF ReportRests, Contradicts

LEMMA KeepsEvidence ==
    ASSUME IInv, UNCHANGED evidence, \A w \in Workers : ReportRests(w)'
    PROVE  EvidenceKept' /\ BouncesSuppress'
  BY DEF IInv, evidence, EvidenceKept, BouncesSuppress, Recorded

(* An owner's step. *)
LEMMA OwnerStep ==
    ASSUME IInv, TypeOK', StoreSame, UNCHANGED <<evidence, job>>
    PROVE  IInv'
<1>1. SendsRest' /\ \A w \in Workers : ReportRests(w)'
  BY KeepsSend, KeepsReport DEF SendsRest, evidence
<1>2. ClaimedByOne'
  BY DEF IInv, ClaimedByOne, Effect, Id
<1> QED  BY <1>1, <1>2, KeepsStore, KeepsEvidence DEF IInv

(* A request's step, but for what it does to the rows. *)
LEMMA RequestStep ==
    ASSUME IInv, TypeOK', NEW w \in Workers, Others(w),
           ReleasedOnce' /\ AttemptsAgree' /\ CallsAgree',
           EvidenceKept' /\ BouncesSuppress',
           SendRests(w)', \A v \in Workers \ {w} : SendRests(v)',
           \A v \in Workers \ {w} : /\ job'[w].pc \in {"submit", "settle"}
                                    /\ job[v].pc \in {"submit", "settle"}
                                    => Id(job'[w].effect) # Id(Effect(v))
    PROVE  IInv'
<1>1. SendsRest'
  BY DEF SendsRest
<1>2. ClaimedByOne'
  BY DEF IInv, ClaimedByOne, Others, Effect
<1> QED  BY <1>1, <1>2 DEF IInv

(* One that touches no row. *)
LEMMA JobStep ==
    ASSUME IInv, TypeOK', NEW w \in Workers, Others(w), StoreSame, UNCHANGED evidence,
           SendRests(w)', ReportRests(w)', job'[w].pc \notin {"submit", "settle"}
    PROVE  IInv'
<1>1. \A v \in Workers \ {w} : SendRests(v)' /\ ReportRests(v)'
  BY KeepsSend, KeepsReport DEF Others, evidence
<1>2. EvidenceKept' /\ BouncesSuppress'
  BY <1>1, KeepsEvidence
<1> QED  BY <1>1, <1>2, KeepsStore, RequestStep

(* A request's step on the rows of sends. *)
LEMMA RowStep ==
    ASSUME IInv, TypeOK', NEW w \in Workers, Others(w), UNCHANGED evidence,
           ReleasedOnce' /\ AttemptsAgree' /\ CallsAgree',
           SendRests(w)', \A v \in Workers \ {w} : SendRests(v)', ReportRests(w)',
           \A v \in Workers \ {w} : /\ job'[w].pc \in {"submit", "settle"}
                                    /\ job[v].pc \in {"submit", "settle"}
                                    => Id(job'[w].effect) # Id(Effect(v))
    PROVE  IInv'
<1>1. \A v \in Workers \ {w} : ReportRests(v)'
  BY KeepsReport DEF Others, evidence
<1>2. EvidenceKept' /\ BouncesSuppress'
  BY <1>1, KeepsEvidence
<1> QED  BY <1>2, RequestStep

(* At another step than these, nothing rests on a request. *)
LEMMA SendRestsNot ==
    ASSUME NEW w \in Workers, job'[w].pc \notin AtRelease \cup Released \cup {"settle"}
    PROVE  SendRests(w)'
  BY DEF SendRests, AtRelease, Released

LEMMA ReportRestsNot ==
    ASSUME NEW w \in Workers, job'[w].pc \notin ReportSteps
    PROVE  ReportRests(w)'
  BY DEF ReportRests, ReportSteps

-----------------------------------------------------------------------------
LEMMA InitIInv == Init => IInv
<1> SUFFICES ASSUME Init PROVE IInv
  OBVIOUS
<1>1. TypeOK
  BY DEF Init, TypeOK, Statuses, Versions, Idle
<1>2. \A w \in Workers : job[w].pc = "idle"
  BY DEF Init, Idle
<1>3. SendsRest /\ ClaimedByOne /\ \A w \in Workers : ReportRests(w)
  BY <1>2 DEF SendsRest, SendRests, ClaimedByOne, ReportRests, AtRelease, Released
<1>4. ReleasedOnce /\ AttemptsAgree /\ CallsAgree
  BY DEF Init, ReleasedOnce, AttemptsAgree, CallsAgree
<1>5. EvidenceKept /\ BouncesSuppress
  BY <1>3 DEF Init, EvidenceKept, BouncesSuppress
<1> QED  BY <1>1, <1>3, <1>4, <1>5 DEF IInv
-----------------------------------------------------------------------------
(* The owners. *)

LEMMA OwnersKeep == ASSUME IInv, Owners PROVE IInv'
<1>0. TypeOK
  BY DEF IInv
<1>1. ASSUME NEW to \in RuleMoves, TransitionRule(to) PROVE IInv'
  <2>1. to \in Statuses
    BY <1>1 DEF TransitionRule, CanTransition, Statuses
  <2>2. rule' \in Seq(Statuses) /\ Len(rule') = Len(rule) + 1
    BY <1>0, <1>1, <2>1 DEF TransitionRule, TypeOK
  <2>3. TypeOK'
    BY <1>0, <1>1, <2>2 DEF TransitionRule, TypeOK, Versions, execution, provider, evidence
  <2> QED  BY <1>1, <2>3, OwnerStep DEF TransitionRule, StoreSame
<1>2. ASSUME NEW ep \in Endpoints, ChangeEndpoint(ep) PROVE IInv'
  <2>1. TypeOK'
    BY <1>0, <1>2 DEF ChangeEndpoint, TypeOK, execution, provider, evidence
  <2> QED  BY <1>2, <2>1, OwnerStep DEF ChangeEndpoint, StoreSame
<1>3. ASSUME NEW ep \in Endpoints, ChangeSuppression(ep) PROVE IInv'
  <2>1. TypeOK'
    BY <1>0, <1>3 DEF ChangeSuppression, TypeOK, world, execution, provider, evidence
  <2> QED  BY <1>3, <2>1, OwnerStep DEF ChangeSuppression, StoreSame
<1>4. ASSUME SupersedeBinding PROVE IInv'
  <2>1. TypeOK'
    BY <1>0, <1>4 DEF SupersedeBinding, TypeOK, execution, provider, evidence
  <2> QED  BY <1>4, <2>1, OwnerStep DEF SupersedeBinding, StoreSame
<1> QED  BY <1>1, <1>2, <1>3, <1>4 DEF Owners
-----------------------------------------------------------------------------
(* The requests: steps that touch no row. *)

Untouched == UNCHANGED <<world, suppressed, execution, attempt, provider, evidence>>

LEMMA UntouchedTypes ==
    ASSUME TypeOK, Untouched, JobsType'
    PROVE  TypeOK' /\ StoreSame /\ UNCHANGED evidence
  BY DEF TypeOK, Untouched, JobsType, StoreSame, world, execution, provider, evidence

LEMMA FailsKeeps == ASSUME IInv, NEW w \in Workers, Fails(w) PROVE IInv'
<1>1. JobsType' /\ Others(w) /\ job'[w].pc = "idle"
  BY Leaving DEF IInv, Fails
<1>2. TypeOK' /\ StoreSame /\ UNCHANGED evidence
  BY <1>1, UntouchedTypes DEF IInv, Fails, Untouched
<1>3. SendRests(w)' /\ ReportRests(w)'
  BY <1>1, SendRestsNot, ReportRestsNot DEF AtRelease, Released, ReportSteps
<1> QED  BY <1>1, <1>2, <1>3, JobStep

LEMMA StartKeeps ==
    ASSUME IInv, NEW w \in Workers, NEW k \in Keys, NEW t \in Triggers, StartDelivery(w, k, t)
    PROVE  IInv'
<1> DEFINE e == [trigger |-> t, version |-> Len(rule), endpoint |-> endpoint]
           r == [pc |-> "authorize", key |-> k, effect |-> e]
<1>1. e \in Effects
  BY DEF IInv, TypeOK, Effects
<1>2. r \in SendJob /\ r.pc = "authorize"
  BY <1>1 DEF SendJob
<1>3. job' = [job EXCEPT ![w] = r] /\ Untouched
  BY DEF StartDelivery, Untouched
<1> HIDE DEF r
<1>4. JobsType' /\ Others(w) /\ job'[w].pc = "authorize"
  BY <1>2, <1>3, Becomes DEF IInv
<1>5. TypeOK' /\ StoreSame /\ UNCHANGED evidence
  BY <1>3, <1>4, UntouchedTypes DEF IInv
<1>6. SendRests(w)' /\ ReportRests(w)'
  BY <1>4, SendRestsNot, ReportRestsNot DEF AtRelease, Released, ReportSteps
<1> QED  BY <1>4, <1>5, <1>6, JobStep

(* A step on the way to the provider that only goes on. *)
LEMMA GoesOn ==
    ASSUME IInv, NEW w \in Workers, NEW s \in SendSteps, Goto(w, s), Untouched,
           job[w].pc \in AtRelease \cup Released, s \in AtRelease \cup {"identity", "plan"},
           s \in {"identity", "plan"} => Key(w) \in released
    PROVE  IInv'
<1>1. job[w].pc \in SendSteps
  BY DEF SendSteps
<1>2. /\ JobsType' /\ Others(w)
      /\ job'[w].pc = s /\ job'[w].key = job[w].key /\ job'[w].effect = job[w].effect
  BY <1>1, GotoSend DEF IInv
<1>3. TypeOK' /\ StoreSame /\ UNCHANGED evidence
  BY <1>2, UntouchedTypes DEF IInv
<1>4. SendRests(w)'
  BY <1>2 DEF IInv, SendsRest, SendRests, Key, Effect, Untouched, execution, AtRelease, Released
<1>5. ReportRests(w)' /\ s \notin {"submit", "settle"}
  BY <1>2, ReportRestsNot DEF AtRelease, ReportSteps
<1> QED  BY <1>2, <1>3, <1>4, <1>5, JobStep

LEMMA AfterReleaseStep == AfterRelease \in {"identity", "plan"} /\ AfterRelease \in SendSteps
  BY DEF AfterRelease, SendSteps, Released

LEMMA ReleaseKeeps == ASSUME IInv, NEW w \in Workers, Release(w) PROVE IInv'
<1>1. job[w].pc \in AtRelease /\ Untouched
  BY DEF Release, At, AtRelease, Untouched
<1>2. CASE Key(w) \in released /\ Goto(w, AfterRelease)
  BY <1>1, <1>2, GoesOn, AfterReleaseStep
<1>3. CASE Goto(w, "endpoint")
  BY <1>1, <1>3, GoesOn DEF AtRelease, SendSteps
<1> QED  BY <1>2, <1>3 DEF Release

LEMMA ValidateEndpointKeeps == ASSUME IInv, NEW w \in Workers, ValidateEndpoint(w) PROVE IInv'
  BY GoesOn DEF ValidateEndpoint, At, AtRelease, SendSteps, Untouched

LEMMA ValidateContactKeeps == ASSUME IInv, NEW w \in Workers, ValidateContact(w) PROVE IInv'
  BY GoesOn DEF ValidateContact, At, AtRelease, SendSteps, Untouched

LEMMA CheckIdentityKeeps == ASSUME IInv, NEW w \in Workers, CheckIdentity(w) PROVE IInv'
<1>1. job[w].pc \in Released /\ Key(w) \in released
  BY DEF CheckIdentity, At, Released, IInv, SendsRest, SendRests
<1> QED  BY <1>1, GoesOn DEF CheckIdentity, Released, SendSteps, Untouched

(* A report that arrives. *)
LEMMA Arrives ==
    ASSUME IInv, NEW w \in Workers, NEW r \in ReportJob, job' = [job EXCEPT ![w] = r], Untouched,
           r.pc \in {"list", "observe"},
           r.known \subseteq ProviderEvidence(Id(r.effect)), ~Contradicts(r.event, r.known),
           r.event = "HARD_BOUNCED" => r.status \in SesEvents
    PROVE  IInv'
<1>1. JobsType' /\ Others(w) /\ job'[w] = r
  BY Becomes DEF IInv
<1>2. TypeOK' /\ StoreSame /\ UNCHANGED evidence
  BY <1>1, UntouchedTypes DEF IInv
<1>3. SendRests(w)'
  BY <1>1, SendRestsNot DEF AtRelease, Released
<1>4. ProviderEvidence(Id(r.effect))' = ProviderEvidence(Id(r.effect))
  BY <1>2 DEF ProviderEvidence, Id, evidence
<1>5. ReportRests(w)'
  <2>1. job'[w].pc # "suppress" /\ Id(Effect(w))' = Id(r.effect)
    BY <1>1 DEF Effect, Id
  <2> QED  BY <1>1, <1>4, <2>1 DEF ReportRests, Effect, Id, Contradicts, ProviderEvidence
<1> QED  BY <1>1, <1>2, <1>3, <1>5, JobStep

LEMMA ReceiveSesKeeps ==
    ASSUME IInv, NEW w \in Workers, NEW e \in Effects, NEW s \in SesEvents, ReceiveSesEvent(w, e, s)
    PROVE  IInv'
<1> DEFINE r == [pc |-> "observe", effect |-> e, status |-> s, event |-> s, known |-> {}]
<1>1. r \in ReportJob
  BY DEF ReportJob, Reports, Events, Outcomes
<1>2. r.pc = "observe" /\ r.known = {} /\ r.event = s /\ r.status = s
  OBVIOUS
<1>3. job' = [job EXCEPT ![w] = r] /\ Untouched
  BY DEF ReceiveSesEvent, Untouched
<1>4. ~Contradicts(r.event, r.known)
  BY <1>2 DEF Contradicts
<1> HIDE DEF r
<1> QED  BY <1>1, <1>2, <1>3, <1>4, Arrives

LEMMA ReceiveTwilioKeeps ==
    ASSUME IInv, NEW w \in Workers, NEW e \in Effects, NEW s \in TwilioStatuses,
           ReceiveTwilioStatus(w, e, s)
    PROVE  IInv'
<1> DEFINE r == [pc |-> "list", effect |-> e, status |-> s, event |-> "UNKNOWN",
                 known |-> ProviderEvidence(Id(e)) \cap Terminal]
<1>1. r \in ReportJob
  BY DEF ReportJob, Reports, Events, Outcomes
<1>2. r.pc = "list" /\ r.effect = e /\ r.event = "UNKNOWN" /\ r.known \subseteq ProviderEvidence(Id(e))
  OBVIOUS
<1>3. job' = [job EXCEPT ![w] = r] /\ Untouched
  BY DEF ReceiveTwilioStatus, Untouched
<1>4. ~Contradicts(r.event, r.known)
  BY <1>2 DEF Contradicts
<1> HIDE DEF r
<1> QED  BY <1>1, <1>2, <1>3, <1>4, Arrives

(* What a callback records does not contradict what it found. *)
LEMMA DowngradedAgrees ==
    ASSUME NEW s, NEW known \in SUBSET Terminal, NEW prior, known \subseteq prior
    PROVE  /\ ~Contradicts(Downgraded(MappedEvent(s), prior), known)
           /\ Downgraded(MappedEvent(s), prior) \in Events \ {"HARD_BOUNCED"}
<1>1. MappedEvent(s) \in {"DELIVERED", "FAILED", "ACCEPTED"}
  BY DEF MappedEvent
<1> QED  BY <1>1 DEF Contradicts, Downgraded, Terminal, Events, Outcomes

LEMMA ListKeeps == ASSUME IInv, NEW w \in Workers, ListEvidence(w) PROVE IInv'
<1> DEFINE x == Downgraded(MappedEvent(job[w].status), ProviderEvidence(Id(Effect(w))))
           r == [job[w] EXCEPT !.pc = "observe", !.event = x]
<1>1. job[w].pc = "list" /\ job[w] \in ReportJob /\ TypeOK
  BY JobAt DEF ListEvidence, At, IInv, ReportSteps
<1>2. job[w].known \subseteq ProviderEvidence(Id(Effect(w))) /\ job[w].known \in SUBSET Terminal
  BY <1>1, ReportFields DEF IInv, EvidenceKept, ReportRests, ReportSteps
<1>3. x \in Events /\ x # "HARD_BOUNCED" /\ ~Contradicts(x, job[w].known)
  BY <1>2, DowngradedAgrees
<1>4. job' = [job EXCEPT ![w] = r] /\ Untouched
  BY DEF ListEvidence, Untouched
<1> HIDE DEF x
<1>5. r \in ReportJob /\ r.pc = "observe" /\ r.effect = job[w].effect /\ r.event = x /\ r.known = job[w].known
  BY <1>1, <1>3 DEF ReportJob
<1> HIDE DEF r
<1> QED  BY <1>2, <1>3, <1>4, <1>5, Arrives DEF Effect
-----------------------------------------------------------------------------
(* The requests: authorization, release, attempt, submission. *)

LEMMA AuthorizeKeeps == ASSUME IInv, NEW w \in Workers, Authorize(w) PROVE IInv'
<1> DEFINE e == Effect(w)  k == Key(w)
<1>1. TypeOK /\ job[w].pc = "authorize" /\ k \in Keys /\ e \in Effects
  BY SendFields DEF IInv, Authorize, At, SendSteps
<1>2. /\ JobsType' /\ Others(w)
      /\ job'[w].pc = "release" /\ job'[w].key = k /\ job'[w].effect = e
  BY <1>1, GotoSend DEF Authorize, SendSteps, AtRelease, Key, Effect
<1>3. UNCHANGED <<world, suppressed, released, attempt, provider, evidence>>
  BY DEF Authorize
<1>4. auth' \in [Keys -> Effects \cup {NoEffect}] /\ auth'[k] = e
      /\ \A j \in Keys : auth'[j] = auth[j] \/ (j = k /\ auth[j] = NoEffect)
  <2>1. CASE auth[k] = e /\ UNCHANGED auth
    BY <1>1, <2>1 DEF TypeOK
  <2>2. CASE auth[k] = NoEffect /\ auth' = [auth EXCEPT ![k] = e]
    BY <1>1, <2>2 DEF TypeOK
  <2> QED  BY <2>1, <2>2 DEF Authorize
<1>5. TypeOK'
  BY <1>1, <1>2, <1>3, <1>4 DEF TypeOK, JobsType, world, provider, evidence
<1>6. \A j \in released : j \in Keys /\ auth'[j] = auth[j]
  BY <1>1, <1>4 DEF IInv, TypeOK, ReleasedOnce
<1>7. ReleasedOnce' /\ AttemptsAgree' /\ CallsAgree'
  BY <1>3, <1>6 DEF IInv, ReleasedOnce, AttemptsAgree, CallsAgree, provider, Id
<1>8. ASSUME NEW v \in Workers \ {w} PROVE SendRests(v)'
  <2>1. SendRests(v) /\ job'[v] = job[v]
    BY <1>2 DEF IInv, SendsRest, Others
  <2>2. job[v].pc \in AtRelease \cup Released => auth'[Key(v)] = auth[Key(v)]
    <3>1. SUFFICES ASSUME job[v].pc \in AtRelease \cup Released PROVE auth'[Key(v)] = auth[Key(v)]
      OBVIOUS
    <3>2. Key(v) \in Keys /\ auth[Key(v)] \in Effects
      BY <1>1, <2>1, <3>1, SendFields DEF SendRests, SendSteps
    <3> QED  BY <1>4, <3>2, NoEffectIsNone
  <2> QED  BY <1>3, <2>1, <2>2 DEF SendRests, Key, Effect, Attempt, Id, provider
<1>9. SendRests(w)' /\ ReportRests(w)'
  BY <1>2, <1>4, ReportRestsNot DEF SendRests, Key, Effect, Released, ReportSteps
<1> QED  BY <1>2, <1>3, <1>5, <1>7, <1>8, <1>9, RowStep

LEMMA CreateReleaseKeeps == ASSUME IInv, NEW w \in Workers, CreateRelease(w) PROVE IInv'
<1> DEFINE e == Effect(w)  k == Key(w)
<1>1. TypeOK /\ job[w].pc = "save_release" /\ k \in Keys /\ e \in Effects /\ auth[k] = e
  BY SendFields DEF IInv, CreateRelease, At, SendSteps, AtRelease, SendsRest, SendRests
<1>2. /\ JobsType' /\ Others(w)
      /\ job'[w].pc = AfterRelease /\ job'[w].key = k /\ job'[w].effect = e
  BY <1>1, GotoSend, AfterReleaseStep DEF CreateRelease, SendSteps, AtRelease, Key, Effect
<1>3. UNCHANGED <<world, suppressed, auth, attempt, provider, evidence>> /\ released' = released \cup {k}
  BY DEF CreateRelease
<1>4. TypeOK'
  BY <1>1, <1>2, <1>3 DEF TypeOK, JobsType, world, provider, evidence
<1>5. k \in released \/ \A j \in released : auth[j] # e
  BY DEF CreateRelease, EffectUnreleased
<1>6. ReleasedOnce'
  BY <1>1, <1>3, <1>5, NoEffectIsNone DEF IInv, ReleasedOnce
<1>7. AttemptsAgree' /\ CallsAgree'
  BY <1>3 DEF IInv, AttemptsAgree, CallsAgree, provider, Id
<1>8. ASSUME NEW v \in Workers \ {w} PROVE SendRests(v)'
  BY <1>2, <1>3 DEF IInv, SendsRest, SendRests, Others, Key, Effect, Attempt, Id, provider
<1>9. SendRests(w)' /\ ReportRests(w)' /\ job'[w].pc \notin {"submit", "settle"}
  BY <1>1, <1>2, <1>3, AfterReleaseStep, ReportRestsNot DEF SendRests, Key, Effect, ReportSteps, Released
<1> QED  BY <1>2, <1>3, <1>4, <1>6, <1>7, <1>8, <1>9, RowStep

(* Planning: a new attempt, or the one that is there. *)
PlansNew(w) ==
    /\ IdentityFree(Effect(w))
    /\ attempt' = [attempt EXCEPT ![Id(Effect(w))] =
                     [status |-> "PLANNED", effect |-> Effect(w), key |-> Key(w)]]
    /\ Goto(w, "claim")

PlansOld(w) ==
    /\ Attempt(w) # NoAttempt /\ Attempt(w).effect = Effect(w)
    /\ Goto(w, "claim") \/ Leave(w)
    /\ UNCHANGED attempt

LEMMA PlanCases ==
    ASSUME IInv, NEW w \in Workers, PlanAttempt(w)
    PROVE  PlansNew(w) \/ PlansOld(w)
<1>1. \A i \in Identities : attempt[i] # NoAttempt /\ attempt[i].effect = Effect(w)
                              => i = Id(Effect(w))
  BY DEF IInv, AttemptsAgree
<1> QED  BY <1>1 DEF PlanAttempt, PlansNew, PlansOld, Attempt

LEMMA PlanNewKeeps ==
    ASSUME IInv, NEW w \in Workers, job[w].pc = "plan", PlansNew(w),
           UNCHANGED <<world, suppressed, execution, provider, evidence>>
    PROVE  IInv'
<1> DEFINE e == Effect(w)  k == Key(w)  i == Id(e)  row == [status |-> "PLANNED", effect |-> e, key |-> k]
<1>1. /\ TypeOK /\ k \in Keys /\ e \in Effects /\ i \in Identities
      /\ k \in released /\ auth[k] = e
  BY SendFields DEF IInv, SendSteps, Released, SendsRest, SendRests
<1>2. /\ JobsType' /\ Others(w)
      /\ job'[w].pc = "claim" /\ job'[w].key = k /\ job'[w].effect = e
  BY <1>1, GotoSend DEF PlansNew, SendSteps, Released, Key, Effect
<1>3. attempt' = [attempt EXCEPT ![i] = row] /\ attempt[i] = NoAttempt
  BY DEF PlansNew, IdentityFree
<1>4. row \in AttemptRow /\ row.status = "PLANNED" /\ row.effect = e /\ row.key = k /\ row # NoAttempt
  BY <1>1 DEF AttemptRow, NoAttempt
<1> HIDE DEF row
<1>5. attempt' \in [Identities -> AttemptRow \cup {NoAttempt}] /\ attempt'[i] = row
      /\ \A j \in Identities : j # i => attempt'[j] = attempt[j]
  BY <1>1, <1>3, <1>4 DEF TypeOK
<1>6. TypeOK'
  BY <1>1, <1>2, <1>5 DEF TypeOK, JobsType, world, execution, provider, evidence
<1>7. \A f \in Effects : Id(f) = i => calls[f] = 0
  BY <1>1, <1>3 DEF IInv, CallsAgree, TypeOK
<1>8. ReleasedOnce'
  BY DEF IInv, ReleasedOnce, execution
<1>9. AttemptsAgree'
  <2>1. SUFFICES ASSUME NEW j \in Identities, attempt'[j] # NoAttempt
                 PROVE  LET f == attempt'[j].effect
                        IN  /\ Id(f) = j
                            /\ attempt'[j].key \in released /\ auth[attempt'[j].key] = f
                            /\ attempt'[j].status = "PLANNED"  => calls[f] = 0
                            /\ attempt'[j].status \in Outcomes => calls[f] = 1
                            /\ attempt'[j].status = "ACCEPTED" => f \in accepted
                            /\ attempt'[j].status = "FAILED"   => f \notin accepted
    BY DEF AttemptsAgree, execution, provider, Id
  <2>2. CASE j = i
    BY <1>1, <1>4, <1>5, <1>7, <2>2 DEF Outcomes
  <2>3. CASE j # i
    BY <1>5, <2>1, <2>3 DEF IInv, AttemptsAgree
  <2> QED  BY <2>2, <2>3
<1>10. CallsAgree'
  <2>1. SUFFICES ASSUME NEW f \in Effects
                 PROVE  /\ calls[f] <= 1
                        /\ f \in accepted => calls[f] = 1
                        /\ calls[f] = 1 => attempt'[Id(f)] # NoAttempt /\ attempt'[Id(f)].effect = f
    BY DEF CallsAgree, provider, Id
  <2>2. Id(f) \in Identities
    BY IdType
  <2> QED  BY <1>5, <1>7, <2>2 DEF IInv, CallsAgree
<1>11. ASSUME NEW v \in Workers \ {w} PROVE SendRests(v)'
  <2>1. SendRests(v) /\ job'[v] = job[v]
    BY <1>2 DEF IInv, SendsRest, Others
  <2>2. job[v].pc \in {"claim", "submit"} => Attempt(v)' = Attempt(v)
    <3>1. SUFFICES ASSUME job[v].pc \in {"claim", "submit"} PROVE Attempt(v)' = Attempt(v)
      OBVIOUS
    <3>2. Effect(v) \in Effects /\ Id(Effect(v)) \in Identities /\ Attempt(v).effect = Effect(v)
      BY <1>1, <2>1, <3>1, SendFields DEF SendRests, SendSteps, Released
    <3>3. Id(Effect(v)) # i
      BY <1>3, <3>2, NoEffectIsNone DEF Attempt, NoAttempt
    <3> QED  BY <1>5, <2>1, <3>2, <3>3 DEF Attempt, Effect, Id
  <2>3. job[v].pc = "settle" => Attempt(v)' = Attempt(v)
    <3>1. SUFFICES ASSUME job[v].pc = "settle" PROVE Attempt(v)' = Attempt(v)
      OBVIOUS
    <3>2. Effect(v) \in Effects /\ Id(Effect(v)) \in Identities /\ calls[Effect(v)] = 1
      BY <1>1, <2>1, <3>1, ReportFields DEF SendRests, ReportSteps
    <3>3. Id(Effect(v)) # i
      BY <1>7, <3>2
    <3> QED  BY <1>5, <2>1, <3>2, <3>3 DEF Attempt, Effect, Id
  <2> QED  BY <2>1, <2>2, <2>3 DEF SendRests, Key, Effect, execution, provider
<1>12. SendRests(w)' /\ ReportRests(w)'
  <2>1. Attempt(w)' = row
    BY <1>2, <1>5 DEF Attempt, Effect, Id
  <2> QED  BY <1>1, <1>2, <1>4, <2>1, ReportRestsNot DEF SendRests, Key, Effect, ReportSteps, execution
<1> QED  BY <1>2, <1>6, <1>8, <1>9, <1>10, <1>11, <1>12, RowStep

LEMMA PlanOldKeeps ==
    ASSUME IInv, NEW w \in Workers, job[w].pc = "plan", PlansOld(w),
           UNCHANGED <<world, suppressed, execution, provider, evidence>>
    PROVE  IInv'
<1>1. Untouched
  BY DEF PlansOld, Untouched
<1>2. CASE Goto(w, "claim")
  <2>1. /\ JobsType' /\ Others(w)
        /\ job'[w].pc = "claim" /\ job'[w].key = job[w].key /\ job'[w].effect = job[w].effect
    BY <1>2, GotoSend DEF IInv, SendSteps, Released
  <2>2. TypeOK' /\ StoreSame /\ UNCHANGED evidence
    BY <1>1, <2>1, UntouchedTypes DEF IInv
  <2>3. SendRests(w)' /\ ReportRests(w)'
    BY <1>1, <2>1, ReportRestsNot DEF IInv, SendsRest, SendRests, PlansOld, Attempt, Key, Effect, Id,
       Untouched, execution, Released, ReportSteps
  <2> QED  BY <2>1, <2>2, <2>3, JobStep
<1>3. CASE Leave(w)
  <2>1. JobsType' /\ Others(w) /\ job'[w].pc = "idle"
    BY <1>3, Leaving DEF IInv
  <2>2. TypeOK' /\ StoreSame /\ UNCHANGED evidence
    BY <1>1, <2>1, UntouchedTypes DEF IInv
  <2>3. SendRests(w)' /\ ReportRests(w)'
    BY <2>1, SendRestsNot, ReportRestsNot DEF AtRelease, Released, ReportSteps
  <2> QED  BY <2>1, <2>2, <2>3, JobStep
<1> QED  BY <1>2, <1>3 DEF PlansOld

LEMMA PlanKeeps == ASSUME IInv, NEW w \in Workers, PlanAttempt(w) PROVE IInv'
  BY PlanCases, PlanNewKeeps, PlanOldKeeps DEF PlanAttempt, At
-----------------------------------------------------------------------------
(* The attempt of an effect gets another status. *)
NewStatus(w, to) == attempt' = [attempt EXCEPT ![Id(Effect(w))].status = to]

LEMMA NewStatusRow ==
    ASSUME TypeOK, NEW w \in Workers, Effect(w) \in Effects, Attempt(w) # NoAttempt,
           NEW to \in {"SUBMITTING"} \cup Outcomes, NewStatus(w, to)
    PROVE  /\ attempt' \in [Identities -> AttemptRow \cup {NoAttempt}]
           /\ attempt'[Id(Effect(w))].status = to
           /\ attempt'[Id(Effect(w))].effect = Attempt(w).effect
           /\ attempt'[Id(Effect(w))].key = Attempt(w).key
           /\ attempt'[Id(Effect(w))] # NoAttempt
           /\ \A j \in Identities : j # Id(Effect(w)) => attempt'[j] = attempt[j]
<1> DEFINE i == Id(Effect(w))  row == [attempt[i] EXCEPT !.status = to]
<1>1. i \in Identities
  BY IdType
<1>2. attempt[i] \in AttemptRow
  BY <1>1 DEF TypeOK, Attempt
<1>3. row \in AttemptRow /\ row.status = to /\ row.effect = attempt[i].effect /\ row.key = attempt[i].key
  BY <1>2 DEF AttemptRow
<1>4. row # NoAttempt
  BY <1>3 DEF NoAttempt, Outcomes
<1>5. attempt' = [attempt EXCEPT ![i] = row]
  BY DEF NewStatus
<1> HIDE DEF row, i
<1>6. attempt' \in [Identities -> AttemptRow \cup {NoAttempt}] /\ attempt'[i] = row
      /\ \A j \in Identities : j # i => attempt'[j] = attempt[j]
  BY <1>1, <1>3, <1>5 DEF TypeOK
<1> QED  BY <1>3, <1>4, <1>6 DEF i, Attempt

(* No attempt's effect changes, so nothing is lost of what was sent. *)
LEMMA NewStatusKeeps ==
    ASSUME IInv, NEW w \in Workers, Effect(w) \in Effects,
           Attempt(w) # NoAttempt, Attempt(w).effect = Effect(w),
           NEW to \in {"SUBMITTING"} \cup Outcomes, NewStatus(w, to),
           UNCHANGED <<execution, provider>>,
           to \in Outcomes => /\ calls[Effect(w)] = 1
                              /\ to = "ACCEPTED" => Effect(w) \in accepted
                              /\ to = "FAILED" => Effect(w) \notin accepted
    PROVE  ReleasedOnce' /\ AttemptsAgree' /\ CallsAgree'
<1> DEFINE i == Id(Effect(w))
<1>1. /\ attempt'[i].status = to /\ attempt'[i].effect = Effect(w)
      /\ attempt'[i].key = attempt[i].key
      /\ attempt'[i] # NoAttempt
      /\ \A j \in Identities : j # i => attempt'[j] = attempt[j]
  BY NewStatusRow DEF IInv, Attempt
<1>2. i \in Identities
  BY IdType
<1>3. ReleasedOnce'
  BY DEF IInv, ReleasedOnce, execution
<1>4. AttemptsAgree'
  <2>1. SUFFICES ASSUME NEW j \in Identities, attempt'[j] # NoAttempt
                 PROVE  LET f == attempt'[j].effect
                        IN  /\ Id(f) = j
                            /\ attempt'[j].key \in released /\ auth[attempt'[j].key] = f
                            /\ attempt'[j].status = "PLANNED"  => calls[f] = 0
                            /\ attempt'[j].status \in Outcomes => calls[f] = 1
                            /\ attempt'[j].status = "ACCEPTED" => f \in accepted
                            /\ attempt'[j].status = "FAILED"   => f \notin accepted
    BY DEF AttemptsAgree, execution, provider, Id
  <2>2. CASE j = i
    <3>1. attempt[i].key \in released /\ auth[attempt[i].key] = Effect(w)
      BY <1>2 DEF IInv, AttemptsAgree, Attempt
    <3> QED  BY <1>1, <2>2, <3>1 DEF Outcomes
  <2>3. CASE j # i
    BY <1>1, <2>1, <2>3 DEF IInv, AttemptsAgree
  <2> QED  BY <2>2, <2>3
<1>5. CallsAgree'
  <2>1. SUFFICES ASSUME NEW f \in Effects
                 PROVE  /\ calls[f] <= 1
                        /\ f \in accepted => calls[f] = 1
                        /\ calls[f] = 1 => attempt'[Id(f)] # NoAttempt /\ attempt'[Id(f)].effect = f
    BY DEF CallsAgree, provider, Id
  <2>2. Id(f) \in Identities
    BY IdType
  <2> QED  BY <1>1, <2>2 DEF IInv, CallsAgree, Attempt
<1> QED  BY <1>3, <1>4, <1>5

(* Another request's attempt is the same, unless it is about to claim it. *)
LEMMA NewStatusOthers ==
    ASSUME IInv, NEW w \in Workers, Effect(w) \in Effects,
           Attempt(w) # NoAttempt, Attempt(w).effect = Effect(w),
           NEW to \in {"SUBMITTING"} \cup Outcomes, NewStatus(w, to),
           UNCHANGED <<execution, provider>>,
           NEW v \in Workers, job'[v] = job[v],
           job[v].pc \in {"submit", "settle"} => Id(Effect(v)) # Id(Effect(w))
    PROVE  SendRests(v)'
<1> DEFINE i == Id(Effect(w))
<1>1. /\ attempt'[i].effect = Effect(w)
      /\ \A j \in Identities : j # i => attempt'[j] = attempt[j]
  BY NewStatusRow DEF IInv, Attempt
<1>2. TypeOK /\ SendRests(v)
  BY DEF IInv, SendsRest
<1>3. job[v].pc = "claim" => Attempt(v)'.effect = Effect(v)
  <2>1. SUFFICES ASSUME job[v].pc = "claim" PROVE Attempt(v)'.effect = Effect(v)
    OBVIOUS
  <2>2. Effect(v) \in Effects /\ Id(Effect(v)) \in Identities /\ attempt[Id(Effect(v))].effect = Effect(v)
    BY <1>2, <2>1, SendFields DEF SendSteps, Released, SendRests, Attempt
  <2>3. attempt'[Id(Effect(v))].effect = Effect(v)
    BY <1>1, <2>2 DEF Attempt
  <2> QED  BY <2>3 DEF Attempt, Effect, Id
<1>4. job[v].pc \in {"submit", "settle"} => Attempt(v)' = Attempt(v)
  <2>1. SUFFICES ASSUME job[v].pc \in {"submit", "settle"} PROVE Attempt(v)' = Attempt(v)
    OBVIOUS
  <2>2. Id(Effect(v)) \in Identities
    BY <1>2, <2>1, SendFields, ReportFields DEF SendSteps, Released, ReportSteps
  <2>3. attempt'[Id(Effect(v))] = attempt[Id(Effect(v))]
    BY <1>1, <2>1, <2>2
  <2> QED  BY <2>3 DEF Attempt, Effect, Id
<1> QED  BY <1>2, <1>3, <1>4 DEF SendRests, Key, Effect, execution, provider

LEMMA ClaimKeeps == ASSUME IInv, NEW w \in Workers, ClaimAttempt(w) PROVE IInv'
<1>1. /\ TypeOK /\ job[w].pc = "claim" /\ Effect(w) \in Effects /\ Id(Effect(w)) \in Identities
      /\ Attempt(w).status = "PLANNED" /\ Attempt(w).effect = Effect(w) /\ Attempt(w) # NoAttempt
      /\ auth[Key(w)] = Effect(w) /\ Key(w) \in released
  BY SendFields DEF IInv, ClaimAttempt, At, SendSteps, Released, SendsRest, SendRests, StillIn, NoAttempt
<1>2. /\ JobsType' /\ Others(w)
      /\ job'[w].pc = "submit" /\ job'[w].key = Key(w) /\ job'[w].effect = Effect(w)
  BY <1>1, GotoSend DEF ClaimAttempt, SendSteps, Released, Key, Effect
<1>3. NewStatus(w, "SUBMITTING") /\ UNCHANGED <<execution, provider>> /\ UNCHANGED evidence
  BY DEF ClaimAttempt, NewStatus
<1>4. attempt' \in [Identities -> AttemptRow \cup {NoAttempt}]
      /\ attempt'[Id(Effect(w))].status = "SUBMITTING" /\ attempt'[Id(Effect(w))].effect = Effect(w)
  BY <1>1, <1>3, NewStatusRow
<1>5. TypeOK'
  BY <1>1, <1>2, <1>3, <1>4 DEF ClaimAttempt, TypeOK, JobsType, world, execution, provider, evidence
<1>6. ReleasedOnce' /\ AttemptsAgree' /\ CallsAgree'
  BY <1>1, <1>3, NewStatusKeeps DEF Outcomes
<1>7. ASSUME NEW v \in Workers \ {w}, job[v].pc \in {"submit", "settle"}
      PROVE  Id(Effect(v)) # Id(Effect(w))
  BY <1>1, <1>7 DEF IInv, SendsRest, SendRests, Attempt
<1>8. ASSUME NEW v \in Workers \ {w} PROVE SendRests(v)'
  BY <1>1, <1>2, <1>3, <1>7, NewStatusOthers DEF Others
<1>9. SendRests(w)' /\ ReportRests(w)'
  <2>1. calls[Effect(w)] = 0
    BY <1>1 DEF IInv, AttemptsAgree, Attempt
  <2> QED  BY <1>1, <1>2, <1>3, <1>4, <2>1, ReportRestsNot DEF SendRests, Key, Effect, Attempt, Id,
           execution, provider, ReportSteps
<1> QED  BY <1>2, <1>3, <1>5, <1>6, <1>7, <1>8, <1>9, RowStep

LEMMA SettleKeeps == ASSUME IInv, NEW w \in Workers, SettleAttempt(w) PROVE IInv'
<1> DEFINE to == job[w].event
<1>1. /\ TypeOK /\ job[w].pc = "settle" /\ Effect(w) \in Effects /\ Id(Effect(w)) \in Identities
      /\ to \in Outcomes /\ calls[Effect(w)] = 1
      /\ to = "ACCEPTED" => Effect(w) \in accepted
      /\ to = "FAILED" => Effect(w) \notin accepted
  BY ReportFields DEF IInv, SettleAttempt, At, ReportSteps, SendsRest, SendRests
<1>2. Attempt(w) # NoAttempt /\ Attempt(w).effect = Effect(w)
  BY <1>1 DEF IInv, CallsAgree, Attempt
<1>3. /\ JobsType' /\ Others(w) /\ job'[w].pc = "observe" /\ job'[w].effect = Effect(w)
      /\ job'[w].status = job[w].status /\ job'[w].event = job[w].event /\ job'[w].known = job[w].known
  BY <1>1, GotoReport DEF SettleAttempt, ReportSteps, Effect
<1>4. NewStatus(w, to) /\ UNCHANGED <<execution, provider>> /\ UNCHANGED evidence
  BY DEF SettleAttempt, NewStatus
<1>5. attempt' \in [Identities -> AttemptRow \cup {NoAttempt}]
  BY <1>1, <1>2, <1>4, NewStatusRow
<1>6. TypeOK'
  BY <1>1, <1>3, <1>4, <1>5 DEF SettleAttempt, TypeOK, JobsType, world, execution, provider, evidence
<1>7. ReleasedOnce' /\ AttemptsAgree' /\ CallsAgree'
  BY <1>1, <1>2, <1>4, NewStatusKeeps
<1>8. ASSUME NEW v \in Workers \ {w} PROVE SendRests(v)'
  <2>1. job[v].pc \in {"submit", "settle"} => Id(Effect(v)) # Id(Effect(w))
    BY <1>1 DEF IInv, ClaimedByOne
  <2> QED  BY <1>1, <1>2, <1>3, <1>4, <2>1, NewStatusOthers DEF Others
<1>9. SendRests(w)'
  BY <1>3, SendRestsNot DEF AtRelease, Released
<1>10. ReportRests(w)'
  <2>1. ReportRests(w)
    BY DEF IInv, EvidenceKept
  <2> QED  BY <1>1, <1>3, <1>4, <2>1 DEF ReportRests, Effect, Id, ProviderEvidence, evidence, Contradicts
<1> QED  BY <1>3, <1>4, <1>6, <1>7, <1>8, <1>9, <1>10, RowStep
-----------------------------------------------------------------------------
LEMMA SubmitKeeps == ASSUME IInv, NEW w \in Workers, Submit(w) PROVE IInv'
<1> DEFINE e == Effect(w)
<1>1. /\ TypeOK /\ job[w].pc = "submit" /\ e \in Effects /\ Id(e) \in Identities
      /\ Attempt(w).status = "SUBMITTING" /\ Attempt(w).effect = e /\ calls[e] = 0
  BY SendFields DEF IInv, Submit, At, SendSteps, Released, SendsRest, SendRests
<1>2. attempt[Id(e)] # NoAttempt /\ attempt[Id(e)].effect = e
  BY <1>1 DEF Attempt, NoAttempt
<1>3. PICK result \in {"ACCEPTED", "FAILED", "UNKNOWN"}, taken \in BOOLEAN :
        /\ result = "ACCEPTED" => taken
        /\ result = "FAILED" => ~taken
        /\ accepted' = IF taken THEN accepted \cup {e} ELSE accepted
        /\ job' = [job EXCEPT ![w] = [pc |-> "settle", effect |-> e, status |-> "transport",
                                      event |-> result, known |-> {}]]
  BY DEF Submit
<1> DEFINE r == [pc |-> "settle", effect |-> e, status |-> "transport", event |-> result, known |-> {}]
<1>4. /\ r \in ReportJob /\ r.pc = "settle" /\ r.effect = e /\ r.status = "transport"
      /\ r.event = result /\ r.known = {}
  BY <1>1 DEF ReportJob, Reports, Events, Outcomes
<1>5. job' = [job EXCEPT ![w] = r]
  BY <1>3
<1> HIDE DEF r
<1>6. JobsType' /\ Others(w) /\ job'[w] = r
  BY <1>1, <1>4, <1>5, Becomes
<1>7. calls' \in [Effects -> Nat] /\ calls'[e] = 1 /\ \A f \in Effects : f # e => calls'[f] = calls[f]
  BY <1>1 DEF Submit, TypeOK
<1>8. UNCHANGED <<world, suppressed, execution, attempt, evidence>>
  BY DEF Submit
<1>9. /\ accepted' \subseteq Effects
      /\ \A f \in Effects : f # e => (f \in accepted' <=> f \in accepted)
      /\ e \notin accepted
  BY <1>1, <1>3 DEF IInv, TypeOK, CallsAgree
<1>10. TypeOK'
  BY <1>1, <1>6, <1>7, <1>8, <1>9 DEF TypeOK, JobsType, world, execution, evidence
<1>11. ReleasedOnce'
  BY <1>8 DEF IInv, ReleasedOnce, execution
<1>12. AttemptsAgree'
  <2>1. SUFFICES ASSUME NEW j \in Identities, attempt[j] # NoAttempt
                 PROVE  LET f == attempt[j].effect
                        IN  /\ Id(f) = j
                            /\ attempt[j].key \in released /\ auth[attempt[j].key] = f
                            /\ attempt[j].status = "PLANNED"  => calls'[f] = 0
                            /\ attempt[j].status \in Outcomes => calls'[f] = 1
                            /\ attempt[j].status = "ACCEPTED" => f \in accepted'
                            /\ attempt[j].status = "FAILED"   => f \notin accepted'
    BY <1>8 DEF AttemptsAgree, execution, Id
  <2>2. CASE j = Id(e)
    BY <1>1, <2>1, <2>2 DEF IInv, AttemptsAgree, Attempt, Outcomes
  <2>3. CASE j # Id(e)
    <3>1. attempt[j].effect \in Effects /\ attempt[j].effect # e
      BY <1>1, <2>1, <2>3 DEF IInv, AttemptsAgree, TypeOK, AttemptRow
    <3> QED  BY <1>7, <1>9, <2>1, <3>1 DEF IInv, AttemptsAgree
  <2> QED  BY <2>2, <2>3
<1>13. CallsAgree'
  <2>1. SUFFICES ASSUME NEW f \in Effects
                 PROVE  /\ calls'[f] <= 1
                        /\ f \in accepted' => calls'[f] = 1
                        /\ calls'[f] = 1 => attempt[Id(f)] # NoAttempt /\ attempt[Id(f)].effect = f
    BY <1>8 DEF CallsAgree, Id
  <2> QED  BY <1>2, <1>7, <1>9 DEF IInv, CallsAgree
<1>14. ASSUME NEW v \in Workers \ {w} PROVE SendRests(v)'
  <2>1. SendRests(v) /\ job'[v] = job[v]
    BY <1>6 DEF IInv, SendsRest, Others
  <2>2. job[v].pc \in {"submit", "settle"} => calls'[Effect(v)] = calls[Effect(v)]
                               /\ (Effect(v) \in accepted' <=> Effect(v) \in accepted)
    <3>1. SUFFICES ASSUME job[v].pc \in {"submit", "settle"}
                   PROVE  Effect(v) \in Effects /\ Effect(v) # e
      BY <1>7, <1>9
    <3> QED  BY <1>1, <3>1, SendFields, ReportFields DEF SendSteps, Released, ReportSteps, IInv, ClaimedByOne
  <2> QED  BY <1>8, <2>1, <2>2 DEF SendRests, Key, Effect, Attempt, Id, execution
<1>15. SendRests(w)'
  <2>1. Attempt(w)'.status = "SUBMITTING"
    BY <1>1, <1>4, <1>6, <1>8 DEF Attempt, Effect, Id
  <2>2. result = "ACCEPTED" => e \in accepted'
    BY <1>3
  <2>3. result = "FAILED" => e \notin accepted'
    BY <1>3, <1>9
  <2>4. Effect(w)' = e /\ job'[w].pc = "settle" /\ job'[w].status = "transport" /\ job'[w].event = result
    BY <1>4, <1>6 DEF Effect
  <2> HIDE DEF e
  <2> QED  BY <1>7, <1>1, <2>1, <2>2, <2>3, <2>4 DEF SendRests, AtRelease, Released, Outcomes
<1>16. ReportRests(w)'
  BY <1>3, <1>4, <1>6 DEF ReportRests, Contradicts
<1>17. ASSUME NEW v \in Workers \ {w}, job[v].pc \in {"submit", "settle"}
       PROVE  Id(e) # Id(Effect(v))
  BY <1>1, <1>17 DEF IInv, ClaimedByOne
<1> QED  BY <1>4, <1>6, <1>8, <1>10, <1>11, <1>12, <1>13, <1>14, <1>15, <1>16, <1>17, RowStep
-----------------------------------------------------------------------------
(* The requests: reports. *)

(* A step that writes only evidence. *)
LEMMA EvidenceStep ==
    ASSUME IInv, TypeOK', NEW w \in Workers, Others(w), StoreSame,
           job'[w].pc \in {"idle", "suppress"},
           EvidenceKept' /\ BouncesSuppress'
    PROVE  IInv'
<1>1. SendRests(w)'
  BY SendRestsNot DEF AtRelease, Released
<1>2. \A v \in Workers \ {w} : SendRests(v)'
  BY KeepsSend DEF Others
<1> QED  BY <1>1, <1>2, KeepsStore, RequestStep

RecordedKey(w) == <<Id(Effect(w)), job[w].status>>

(* The request is answered, or goes on to the suppression of a bounce. *)
LEMMA AfterRecordStep ==
    ASSUME TypeOK, NEW w \in Workers, job[w].pc = "observe", NEW event, AfterRecord(w, event)
    PROVE  /\ JobsType' /\ Others(w)
           /\ \/ /\ event = "HARD_BOUNCED" /\ answered' = answered
                 /\ job'[w].pc = "suppress" /\ job'[w].effect = job[w].effect /\ job'[w].status = job[w].status
              \/ /\ event # "HARD_BOUNCED" /\ answered' \subseteq answered \cup {RecordedKey(w)}
                 /\ answered' # answered => job[w].status \in SesEvents
                 /\ job'[w].pc = "idle"
<1>1. CASE event = "HARD_BOUNCED"
  BY <1>1, GotoReport DEF AfterRecord, ReportSteps
<1>2. CASE event # "HARD_BOUNCED"
  BY <1>2, Leaving DEF AfterRecord, RecordedKey
<1> QED  BY <1>1, <1>2

(* A record there is of the event, or the one that is made of it. *)
LEMMA RecordCases ==
    ASSUME IInv, NEW w \in Workers, RecordObservation(w)
    PROVE  \E o \in Observation :
             /\ AfterRecord(w, o.event)
             /\ o.attempt = Id(Effect(w)) /\ o.status = job[w].status /\ o \in observation'
             /\ observation' = observation \cup {o}
             /\ o \in observation \/ Recorded(Id(Effect(w)), job[w].status) = {}
             /\ o.event = "HARD_BOUNCED" => job[w].status \in SesEvents
<1> DEFINE i == Id(Effect(w))  s == job[w].status
<1>1. /\ TypeOK /\ i \in Identities /\ s \in Reports /\ job[w].event \in Events
      /\ job[w].event = "HARD_BOUNCED" => s \in SesEvents
  BY ReportFields DEF IInv, RecordObservation, At, ReportSteps, EvidenceKept, ReportRests
<1>2. CASE \E o \in Recorded(i, s) : AfterRecord(w, o.event) /\ UNCHANGED observation
  <2>1. PICK o \in Recorded(i, s) : AfterRecord(w, o.event) /\ UNCHANGED observation
    BY <1>2
  <2>2. o \in observation /\ o.attempt = i /\ o.status = s /\ o \in Observation
    BY <1>1, <2>1 DEF Recorded, TypeOK
  <2>3. o.event = "HARD_BOUNCED" => s \in SesEvents
    BY <2>2 DEF IInv, EvidenceKept
  <2> QED  BY <2>1, <2>2, <2>3
<1>3. CASE /\ Recorded(i, s) = {}
           /\ observation' = observation \cup {[attempt |-> i, status |-> s, event |-> job[w].event]}
           /\ AfterRecord(w, job[w].event)
  <2> DEFINE o == [attempt |-> i, status |-> s, event |-> job[w].event]
  <2>1. o \in Observation /\ o.attempt = i /\ o.status = s /\ o.event = job[w].event
    BY <1>1 DEF Observation
  <2>2. observation' = observation \cup {o} /\ AfterRecord(w, o.event) /\ Recorded(i, s) = {}
    BY <1>3, <2>1
  <2> HIDE DEF o
  <2> QED  BY <1>1, <2>1, <2>2
<1> QED  BY <1>2, <1>3 DEF RecordObservation

(* There is one record of an event, and what is answered is on record. *)
LEMMA RecordKeeps ==
    ASSUME IInv, NEW w \in Workers, RecordObservation(w)
    PROVE  IInv'
<1> DEFINE i == Id(Effect(w))  s == job[w].status  key == RecordedKey(w)
<1>1. TypeOK /\ job[w].pc = "observe" /\ i \in Identities /\ s \in Reports
  BY ReportFields DEF IInv, RecordObservation, At, ReportSteps
<1>2. PICK o : /\ AfterRecord(w, o.event) /\ o \in Observation
               /\ o.attempt = i /\ o.status = s /\ o \in observation'
               /\ observation' = observation \cup {o}
               /\ o \in observation \/ Recorded(i, s) = {}
               /\ o.event = "HARD_BOUNCED" => s \in SesEvents
  BY RecordCases
<1>3. /\ JobsType' /\ Others(w)
      /\ \/ /\ o.event = "HARD_BOUNCED" /\ answered' = answered
            /\ job'[w].pc = "suppress" /\ job'[w].effect = job[w].effect /\ job'[w].status = job[w].status
         \/ /\ o.event # "HARD_BOUNCED" /\ answered' \subseteq answered \cup {key}
            /\ answered' # answered => job[w].status \in SesEvents
            /\ job'[w].pc = "idle"
  BY <1>1, <1>2, AfterRecordStep
<1>4. UNCHANGED <<world, suppressed, execution, attempt, provider, bounces>>
  BY DEF RecordObservation
<1>5. answered \subseteq answered' /\ answered' \subseteq Identities \X SesEvents
  <2>1. answered \subseteq answered'
    BY <1>2 DEF AfterRecord
  <2>2. answered' # answered => key \in Identities \X SesEvents
    BY <1>1, <1>3 DEF RecordedKey
  <2> QED  BY <1>1, <1>3, <2>1, <2>2 DEF TypeOK
<1>6. TypeOK' /\ StoreSame
  BY <1>1, <1>2, <1>3, <1>4, <1>5 DEF TypeOK, JobsType, StoreSame, world, execution, provider
<1>7. \A p \in observation : p.attempt = i /\ p.status = s => p = o
  <2>1. CASE o \in observation
    BY <1>2, <2>1 DEF IInv, EvidenceKept
  <2>2. CASE Recorded(i, s) = {}
    BY <2>2 DEF Recorded
  <2> QED  BY <1>2, <2>1, <2>2
<1>8. \A a \in answered' : \E p \in observation' : p.attempt = a[1] /\ p.status = a[2]
  <2>1. \A a \in answered : \E p \in observation : p.attempt = a[1] /\ p.status = a[2]
    BY DEF IInv, EvidenceKept, Recorded
  <2>2. key[1] = i /\ key[2] = s
    BY DEF RecordedKey
  <2> QED  BY <1>2, <1>3, <2>1, <2>2
<1>9. ReportRests(w)'
  <2>1. job'[w].pc = "suppress" => \E p \in observation' : p.attempt = Id(job'[w].effect) /\ p.status = job'[w].status
    BY <1>2, <1>3 DEF Effect
  <2>2. job'[w].pc = "suppress" => job'[w].status \in SesEvents
    BY <1>2, <1>3
  <2> QED  BY <1>3, <2>1, <2>2 DEF ReportRests, Recorded, Effect, Id
<1>10. EvidenceKept'
  <2>1. \A v \in Workers : ReportRests(v)'
    BY <1>2, <1>3, <1>9, KeepsReport DEF Others
  <2>2. \A p, q \in observation' : p.attempt = q.attempt /\ p.status = q.status => p = q
    BY <1>2, <1>7 DEF IInv, EvidenceKept
  <2>3. \A p \in observation' : p.event = "HARD_BOUNCED" => p.status \in SesEvents
    BY <1>2 DEF IInv, EvidenceKept
  <2>4. \A a \in answered' : Recorded(a[1], a[2])' # {}
    BY <1>8 DEF Recorded
  <2> QED  BY <2>1, <2>2, <2>3, <2>4 DEF EvidenceKept
<1>11. BouncesSuppress'
  <2>1. SUFFICES ASSUME NEW p \in observation', p.event = "HARD_BOUNCED", <<p.attempt, p.status>> \in answered'
                 PROVE  <<p.attempt, p.status>> \in bounces
    BY <1>4 DEF BouncesSuppress
  <2>2. CASE <<p.attempt, p.status>> \in answered
    <3>1. PICK q \in observation : q.attempt = p.attempt /\ q.status = p.status
      BY <2>2 DEF IInv, EvidenceKept, Recorded
    <3>2. p = q
      BY <1>2, <1>10, <3>1 DEF EvidenceKept
    <3> QED  BY <2>1, <2>2, <3>1, <3>2 DEF IInv, BouncesSuppress
  <2>3. CASE <<p.attempt, p.status>> = key /\ o.event # "HARD_BOUNCED"
    <3>1. p.attempt = o.attempt /\ p.status = o.status
      BY <1>2, <2>3 DEF RecordedKey
    <3>2. p = o
      BY <1>2, <1>10, <3>1 DEF EvidenceKept
    <3> QED  BY <2>1, <2>3, <3>2
  <2> QED  BY <1>3, <2>1, <2>2, <2>3
<1> QED  BY <1>3, <1>6, <1>10, <1>11, EvidenceStep

LEMMA SuppressKeeps == ASSUME IInv, NEW w \in Workers, SuppressBounced(w) PROVE IInv'
<1> DEFINE key == RecordedKey(w)
<1>1. /\ TypeOK /\ job[w].pc = "suppress" /\ Effect(w) \in Effects
      /\ key \in Identities \X SesEvents
      /\ Recorded(key[1], key[2]) # {}
  BY ReportFields DEF IInv, SuppressBounced, At, ReportSteps, EvidenceKept, ReportRests, RecordedKey
<1>2. JobsType' /\ Others(w) /\ job'[w].pc = "idle"
  BY <1>1, Leaving DEF SuppressBounced
<1>3. /\ bounces' = bounces \cup {key} /\ answered' = answered \cup {key}
      /\ suppressed' \subseteq suppressed \cup {Effect(w).endpoint}
      /\ UNCHANGED <<world, execution, attempt, provider, observation>>
  BY DEF SuppressBounced, RecordedKey
<1>4. Effect(w).endpoint \in Endpoints
  BY <1>1 DEF Effects
<1>5. TypeOK' /\ StoreSame
  BY <1>1, <1>2, <1>3, <1>4 DEF TypeOK, JobsType, StoreSame, world, execution, provider
<1>6. \A v \in Workers : ReportRests(v)'
  BY <1>2, <1>3, KeepsReport, ReportRestsNot DEF Others, ReportSteps
<1>7. EvidenceKept'
  <2>1. \A a \in answered' : Recorded(a[1], a[2])' # {}
    BY <1>1, <1>3 DEF IInv, EvidenceKept, Recorded
  <2> QED  BY <1>3, <1>6, <2>1 DEF IInv, EvidenceKept
<1>8. BouncesSuppress'
  BY <1>3 DEF IInv, BouncesSuppress
<1> QED  BY <1>2, <1>5, <1>7, <1>8, EvidenceStep
-----------------------------------------------------------------------------
LEMMA NextIInv == IInv /\ [Next]_vars => IInv'
<1> SUFFICES ASSUME IInv, [Next]_vars PROVE IInv'
  OBVIOUS
<1>1. CASE UNCHANGED vars
  <2>1. TypeOK' /\ StoreSame /\ UNCHANGED <<evidence, job>>
    BY <1>1 DEF vars, IInv, TypeOK, StoreSame, world, execution, provider, evidence
  <2> QED  BY <2>1, OwnerStep
<1>2. CASE Owners
  BY <1>2, OwnersKeep
<1>3. ASSUME NEW w \in Workers, Deliver(w) PROVE IInv'
  BY <1>3, StartKeeps, AuthorizeKeeps, ReleaseKeeps, ValidateEndpointKeeps, ValidateContactKeeps,
     CreateReleaseKeeps, CheckIdentityKeeps, PlanKeeps, ClaimKeeps, SubmitKeeps, SettleKeeps DEF Deliver
<1>4. ASSUME NEW w \in Workers, Ingest(w) PROVE IInv'
  BY <1>4, ReceiveSesKeeps, ReceiveTwilioKeeps, ListKeeps, RecordKeeps, SuppressKeeps DEF Ingest
<1>5. ASSUME NEW w \in Workers, Fails(w) PROVE IInv'
  BY <1>5, FailsKeeps
<1> QED  BY <1>1, <1>2, <1>3, <1>4, <1>5 DEF Next
-----------------------------------------------------------------------------
(* Whatever the requests, retries and crashes, the rows of sends and their   *)
(* evidence agree (NotificationDelivery and its Execution releases).          *)
THEOREM Invariant == Spec => []IInv
  BY InitIInv, NextIInv, PTL DEF Spec

(* A trigger under a rule version is sent once, to one endpoint (the claim of *)
(* EmailNotificationDeliveryRuntimeV1.deliver).                               *)
THEOREM SentAtMostOnce == Spec => []AtMostOnce
<1>1. IInv => AtMostOnce
  <2>1. SUFFICES ASSUME IInv, NEW e \in Effects, NEW f \in Effects
                 PROVE  /\ calls[e] <= 1
                        /\ calls[e] > 0 /\ calls[f] > 0 /\ Id(e) = Id(f) => e = f
    BY DEF AtMostOnce
  <2>2. calls[e] \in 0..1 /\ calls[f] \in 0..1
    BY <2>1 DEF IInv, TypeOK, CallsAgree
  <2> QED  BY <2>1, <2>2 DEF IInv, CallsAgree
<1> QED  BY <1>1, Invariant, PTL

(* SES is answered 200 for a bounce once its suppression was issued           *)
(* (NotificationAmazonSesAuthenticatedEventIngestionV1.ingest).               *)
THEOREM BouncesAlwaysSuppress == Spec => []BouncesSuppress
<1>1. IInv => BouncesSuppress
  BY DEF IInv
<1> QED  BY <1>1, Invariant, PTL
-----------------------------------------------------------------------------
(* The action properties. *)

(* Only an owner and a bounce change a suppression, only a callback adds evidence. *)
LEMMA WhoWrites ==
    ASSUME Next
    PROVE  /\ UNCHANGED suppressed \/ UNCHANGED job \/ \E v \in Workers : SuppressBounced(v)
           /\ UNCHANGED observation \/ \E v \in Workers : RecordObservation(v)
<1>1. CASE Owners
  BY <1>1 DEF Owners, TransitionRule, ChangeEndpoint, ChangeSuppression, SupersedeBinding, evidence
<1>2. ASSUME NEW w \in Workers, Deliver(w) PROVE UNCHANGED <<suppressed, observation>>
  BY <1>2 DEF Deliver, StartDelivery, Authorize, Release, ValidateEndpoint, ValidateContact, CreateRelease,
              CheckIdentity, PlanAttempt, ClaimAttempt, Submit, SettleAttempt, evidence
<1>3. ASSUME NEW w \in Workers, Ingest(w)
      PROVE  /\ UNCHANGED suppressed \/ SuppressBounced(w)
             /\ UNCHANGED observation \/ RecordObservation(w)
  BY <1>3 DEF Ingest, ReceiveSesEvent, ReceiveTwilioStatus, ListEvidence, RecordObservation, SuppressBounced, evidence
<1>4. ASSUME NEW w \in Workers, Fails(w) PROVE UNCHANGED <<suppressed, observation>>
  BY <1>4 DEF Fails, evidence
<1> QED  BY <1>1, <1>2, <1>3, <1>4 DEF Next

(* A redelivered bounce leaves alone an endpoint that a person has cleared    *)
(* (setSuppression under the event's own key).                                *)
THEOREM ClearedEndpointsStayCleared == Spec => ClearedStaysCleared
<1>1. ASSUME [Next]_vars, NEW w \in Workers, job'[w] # job[w], bounces' = bounces
      PROVE  suppressed' \subseteq suppressed
  <2>1. Next
    BY <1>1 DEF vars
  <2>2. ASSUME NEW v \in Workers, SuppressBounced(v) PROVE suppressed' = suppressed
    BY <1>1, <2>2 DEF SuppressBounced, Issued
  <2> QED  BY <1>1, <2>1, <2>2, WhoWrites
<1>2. [Next]_vars => [\A w \in Workers : job'[w] # job[w] /\ bounces' = bounces
                                           => suppressed' \subseteq suppressed]_vars
  BY <1>1
<1> QED  BY <1>2, PTL DEF Spec, ClearedStaysCleared

(* What contradicts the terminal evidence a callback arrived to is not        *)
(* recorded as it stands                                                      *)
(* (NotificationTwilioSmsAuthenticatedEventIngestionV1.ingest).               *)
THEOREM ContradictionsAreUnknown == Spec => LateEvidenceIsUnknown
<1>1. ASSUME IInv, [Next]_vars, NEW o \in observation' \ observation, NEW w \in Workers,
             job[w].pc = "observe", job'[w] # job[w]
      PROVE  ~Contradicts(o.event, job[w].known)
  <2>1. PICK v \in Workers : RecordObservation(v)
    BY <1>1, WhoWrites DEF vars
  <2>2. v = w
    <3>1. job[v].pc = "observe" /\ TypeOK
      BY <1>1, <2>1 DEF IInv, RecordObservation, At
    <3>2. Others(v)
      BY <2>1, <3>1, AfterRecordStep DEF RecordObservation
    <3> QED  BY <1>1, <3>2 DEF Others
  <2>3. o.event = job[w].event
    BY <1>1, <2>1, <2>2 DEF RecordObservation
  <2> QED  BY <1>1, <2>3 DEF IInv, EvidenceKept, ReportRests
<1>2. IInv /\ [Next]_vars =>
          [\A o \in observation' \ observation, w \in Workers :
             job[w].pc = "observe" /\ job'[w] # job[w] => ~Contradicts(o.event, job[w].known)]_vars
  BY <1>1
<1> QED  BY <1>2, Invariant, PTL DEF Spec, LateEvidenceIsUnknown
-----------------------------------------------------------------------------
(* The checks of a release. *)
Checks == {"endpoint", "contact", "save_release"}

(* A request comes to a check from the one before, and past its guard. *)
Enters(v) ==
    job'[v].pc \in Checks =>
        /\ job'[v].effect = job[v].effect
        /\ \/ job'[v].pc = job[v].pc
           \/ job'[v].pc = "endpoint" /\ RuleCurrent(Effect(v))
           \/ job'[v].pc = "contact" /\ job[v].pc = "endpoint"
           \/ job'[v].pc = "save_release" /\ job[v].pc = "contact" /\ MayContact(Effect(v))

LEMMA SendsAwayFromChecks ==
    ASSUME TypeOK, NEW w \in Workers,
           \/ Authorize(w) \/ CreateRelease(w) \/ CheckIdentity(w)
           \/ PlanAttempt(w) \/ ClaimAttempt(w) \/ Fails(w)
    PROVE  Others(w) /\ job'[w].pc \notin Checks
<1> USE DEF At, Checks, SendSteps, AtRelease, Released
<1>1. CASE Authorize(w)
  BY <1>1, GotoSend DEF Authorize
<1>2. CASE CreateRelease(w)
  BY <1>2, GotoSend, AfterReleaseStep DEF CreateRelease
<1>3. CASE CheckIdentity(w)
  BY <1>3, GotoSend DEF CheckIdentity
<1>4. CASE PlanAttempt(w)
  <2>1. job[w].pc = "plan" /\ (Goto(w, "claim") \/ Leave(w))
    BY <1>4 DEF PlanAttempt
  <2> QED  BY <2>1, GotoSend, Leaving
<1>5. CASE ClaimAttempt(w)
  BY <1>5, GotoSend DEF ClaimAttempt
<1>6. CASE Fails(w)
  BY <1>6, Leaving DEF Fails
<1> QED  BY <1>1, <1>2, <1>3, <1>4, <1>5, <1>6

LEMMA ReportsAwayFromChecks ==
    ASSUME TypeOK, NEW w \in Workers,
           SettleAttempt(w) \/ RecordObservation(w) \/ SuppressBounced(w)
    PROVE  Others(w) /\ job'[w].pc \notin Checks
<1> USE DEF At, Checks, ReportSteps
<1>1. CASE SettleAttempt(w)
  BY <1>1, GotoReport DEF SettleAttempt
<1>2. CASE RecordObservation(w)
  <2>1. PICK event : AfterRecord(w, event)
    BY <1>2 DEF RecordObservation
  <2>2. job[w].pc = "observe"
    BY <1>2 DEF RecordObservation
  <2> QED  BY <2>1, <2>2, AfterRecordStep
<1>3. CASE SuppressBounced(w)
  BY <1>3, Leaving DEF SuppressBounced
<1> QED  BY <1>1, <1>2, <1>3

LEMMA NewJobsAwayFromChecks ==
    ASSUME TypeOK, NEW w \in Workers,
           \/ \E k \in Keys, t \in Triggers : StartDelivery(w, k, t)
           \/ Submit(w)
           \/ \E e \in Effects, s \in SesEvents : ReceiveSesEvent(w, e, s)
           \/ \E e \in Effects, s \in TwilioStatuses : ReceiveTwilioStatus(w, e, s)
           \/ ListEvidence(w)
    PROVE  Others(w) /\ job'[w].pc \notin Checks
<1>1. \A r : job' = [job EXCEPT ![w] = r] => Others(w) /\ job'[w] = r
  BY DEF TypeOK, Others
<1>2. CASE \E k \in Keys, t \in Triggers : StartDelivery(w, k, t)
  <2>1. PICK k \in Keys, t \in Triggers : StartDelivery(w, k, t)
    BY <1>2
  <2> DEFINE r == [pc |-> "authorize", key |-> k,
                   effect |-> [trigger |-> t, version |-> Len(rule), endpoint |-> endpoint]]
  <2>2. job' = [job EXCEPT ![w] = r] /\ r.pc = "authorize"
    BY <2>1 DEF StartDelivery
  <2> HIDE DEF r
  <2> QED  BY <1>1, <2>2 DEF Checks
<1>3. CASE Submit(w)
  <2>1. PICK result \in {"ACCEPTED", "FAILED", "UNKNOWN"} :
          job' = [job EXCEPT ![w] = [pc |-> "settle", effect |-> Effect(w), status |-> "transport",
                                     event |-> result, known |-> {}]]
    BY <1>3 DEF Submit
  <2> DEFINE r == [pc |-> "settle", effect |-> Effect(w), status |-> "transport",
                   event |-> result, known |-> {}]
  <2>2. job' = [job EXCEPT ![w] = r] /\ r.pc = "settle"
    BY <2>1
  <2> HIDE DEF r
  <2> QED  BY <1>1, <2>2 DEF Checks
<1>4. CASE \E e \in Effects, s \in SesEvents : ReceiveSesEvent(w, e, s)
  <2>1. PICK e \in Effects, s \in SesEvents : ReceiveSesEvent(w, e, s)
    BY <1>4
  <2> DEFINE r == [pc |-> "observe", effect |-> e, status |-> s, event |-> s, known |-> {}]
  <2>2. job' = [job EXCEPT ![w] = r] /\ r.pc = "observe"
    BY <2>1 DEF ReceiveSesEvent
  <2> HIDE DEF r
  <2> QED  BY <1>1, <2>2 DEF Checks
<1>5. CASE \E e \in Effects, s \in TwilioStatuses : ReceiveTwilioStatus(w, e, s)
  <2>1. PICK e \in Effects, s \in TwilioStatuses : ReceiveTwilioStatus(w, e, s)
    BY <1>5
  <2> DEFINE r == [pc |-> "list", effect |-> e, status |-> s, event |-> "UNKNOWN",
                   known |-> ProviderEvidence(Id(e)) \cap Terminal]
  <2>2. job' = [job EXCEPT ![w] = r] /\ r.pc = "list"
    BY <2>1 DEF ReceiveTwilioStatus
  <2> HIDE DEF r
  <2> QED  BY <1>1, <2>2 DEF Checks
<1>6. CASE ListEvidence(w)
  <2> DEFINE x == Downgraded(MappedEvent(job[w].status), ProviderEvidence(Id(Effect(w))))
             r == [job[w] EXCEPT !.pc = "observe", !.event = x]
  <2>1. job[w] \in ReportJob /\ job' = [job EXCEPT ![w] = r]
    BY <1>6, JobAt DEF ListEvidence, At, ReportSteps
  <2> HIDE DEF x
  <2>2. r.pc = "observe"
    BY <2>1 DEF ReportJob
  <2> HIDE DEF r
  <2> QED  BY <1>1, <2>1, <2>2 DEF Checks
<1> QED  BY <1>2, <1>3, <1>4, <1>5, <1>6

LEMMA EntersAll == ASSUME TypeOK, Next, NEW v \in Workers PROVE Enters(v)
<1>1. CASE Owners
  BY <1>1 DEF Owners, TransitionRule, ChangeEndpoint, ChangeSuppression, SupersedeBinding, Enters
<1>2. ASSUME NEW w \in Workers, Deliver(w) \/ Ingest(w) \/ Fails(w),
             ~Release(w), ~ValidateEndpoint(w), ~ValidateContact(w)
      PROVE  Enters(v)
  <2>1. Others(w) /\ job'[w].pc \notin Checks
    BY <1>2, SendsAwayFromChecks, ReportsAwayFromChecks, NewJobsAwayFromChecks DEF Deliver, Ingest
  <2> QED  BY <2>1 DEF Others, Enters
<1>3. ASSUME NEW w \in Workers, Release(w) PROVE Enters(v)
  <2>1. CASE Goto(w, AfterRelease)
    <3>1. Others(w) /\ job'[w].pc = AfterRelease
      BY <1>3, <2>1, GotoSend, AfterReleaseStep DEF Release, At, SendSteps, AtRelease
    <3> QED  BY <3>1, AfterReleaseStep DEF Others, Enters, Checks
  <2>2. CASE Goto(w, "endpoint") /\ RuleCurrent(Effect(w))
    <3>1. Others(w) /\ job'[w].pc = "endpoint" /\ job'[w].effect = job[w].effect
      BY <1>3, <2>2, GotoSend DEF Release, At, SendSteps, AtRelease
    <3> QED  BY <2>2, <3>1 DEF Others, Enters
  <2> QED  BY <1>3, <2>1, <2>2 DEF Release
<1>4. ASSUME NEW w \in Workers, ValidateEndpoint(w) PROVE Enters(v)
  <2>1. Others(w) /\ job[w].pc = "endpoint" /\ job'[w].pc = "contact" /\ job'[w].effect = job[w].effect
    BY <1>4, GotoSend DEF ValidateEndpoint, At, SendSteps, AtRelease
  <2> QED  BY <2>1 DEF Others, Enters
<1>5. ASSUME NEW w \in Workers, ValidateContact(w) PROVE Enters(v)
  <2>1. /\ Others(w) /\ job[w].pc = "contact" /\ job'[w].pc = "save_release" /\ job'[w].effect = job[w].effect
        /\ MayContact(Effect(w))
    BY <1>5, GotoSend DEF ValidateContact, At, SendSteps, AtRelease
  <2> QED  BY <2>1 DEF Others, Enters
<1> QED  BY <1>1, <1>2, <1>3, <1>4, <1>5 DEF Next

(* An effect is released only by a request whose checks are past. *)
LEMMA Unreleased ==
    ASSUME IInv, Next, NEW e \in Effects, EffectUnreleased(e), ~Checked(e, {"save_release"})
    PROVE  EffectUnreleased(e)'
<1>1. CASE UNCHANGED execution
  BY <1>1 DEF execution, EffectUnreleased
<1>2. ASSUME NEW w \in Workers, Authorize(w) PROVE EffectUnreleased(e)'
  <2>1. job[w].pc = "authorize" /\ Key(w) \in Keys
    BY <1>2, SendFields DEF IInv, Authorize, At, SendSteps
  <2>2. \A k \in released : auth'[k] = auth[k]
    BY <1>2, <2>1 DEF IInv, TypeOK, ReleasedOnce, Authorize
  <2> QED  BY <1>2, <2>2 DEF Authorize, EffectUnreleased
<1>3. ASSUME NEW w \in Workers, CreateRelease(w) PROVE EffectUnreleased(e)'
  <2>1. job[w].pc = "save_release" /\ auth[Key(w)] = Effect(w)
    BY <1>3 DEF CreateRelease, At, IInv, SendsRest, SendRests, AtRelease
  <2>2. auth[Key(w)] # e
    BY <2>1 DEF Checked
  <2> QED  BY <1>3, <2>2 DEF CreateRelease, EffectUnreleased
<1>4. UNCHANGED execution \/ \E w \in Workers : Authorize(w) \/ CreateRelease(w)
  <2>1. CASE Owners
    BY <2>1 DEF Owners, TransitionRule, ChangeEndpoint, ChangeSuppression, SupersedeBinding
  <2>2. ASSUME NEW w \in Workers, Deliver(w) \/ Ingest(w) \/ Fails(w), ~Authorize(w), ~CreateRelease(w)
        PROVE  UNCHANGED execution
    BY <2>2 DEF Deliver, StartDelivery, Release, ValidateEndpoint, ValidateContact, CheckIdentity,
                PlanAttempt, ClaimAttempt, Submit, SettleAttempt, Ingest, ReceiveSesEvent,
                ReceiveTwilioStatus, ListEvidence, RecordObservation, SuppressBounced, Fails
  <2> QED  BY <2>1, <2>2 DEF Next
<1> QED  BY <1>1, <1>2, <1>3, <1>4

(* A rule version that is superseded stays so, and so does an SMS identity. *)
LEMMA SupersededStays ==
    ASSUME TypeOK, Next
    PROVE  channel' = channel /\ Len(rule') >= Len(rule) /\ (~binding => ~binding')
<1>1. ASSUME NEW to \in RuleMoves, TransitionRule(to)
      PROVE  channel' = channel /\ binding' = binding /\ Len(rule') = Len(rule) + 1
  <2>1. to \in Statuses
    BY <1>1 DEF TransitionRule, CanTransition, Statuses
  <2> QED  BY <1>1, <2>1 DEF TransitionRule, TypeOK
<1>2. CASE SupersedeBinding
  BY <1>2 DEF SupersedeBinding, TypeOK, Versions
<1>3. CASE UNCHANGED <<channel, rule, binding>>
  BY <1>3 DEF TypeOK, Versions
<1>4. \/ \E to \in RuleMoves : TransitionRule(to)
      \/ SupersedeBinding
      \/ UNCHANGED <<channel, rule, binding>>
  <2>1. CASE Owners
    BY <2>1 DEF Owners, ChangeEndpoint, ChangeSuppression, world
  <2>2. ASSUME NEW w \in Workers, Deliver(w) \/ Ingest(w) \/ Fails(w) PROVE UNCHANGED world
    BY <2>2 DEF Deliver, StartDelivery, Authorize, Release, ValidateEndpoint, ValidateContact, CreateRelease,
                CheckIdentity, PlanAttempt, ClaimAttempt, Submit, SettleAttempt, Ingest, ReceiveSesEvent,
                ReceiveTwilioStatus, ListEvidence, RecordObservation, SuppressBounced, Fails
  <2> QED  BY <2>1, <2>2 DEF Next, world
<1>5. Len(rule) \in Nat
  BY DEF TypeOK, Versions
<1> QED  BY <1>1, <1>2, <1>3, <1>4, <1>5

LEMMA StaysBarred ==
    ASSUME IInv, Next, NEW e \in Effects, Barred(e), e.endpoint \in suppressed => e.endpoint \in suppressed'
    PROVE  Barred(e)'
<1>1. TypeOK /\ \A v \in Workers : Enters(v)
  BY EntersAll DEF IInv
<1>2. EffectUnreleased(e)'
  BY Unreleased DEF Barred, Checked
<1>3. CASE /\ Len(rule) > e.version \/ (channel = "SMS" /\ ~binding)
           /\ ~Checked(e, Checks)
  <2>1. Len(rule') > e.version \/ (channel' = "SMS" /\ ~binding')
    BY <1>1, <1>3, SupersededStays DEF TypeOK, Versions, Effects
  <2>2. ~RuleCurrent(e)
    BY <1>1, <1>3 DEF RuleCurrent, TypeOK, Versions, Effects
  <2>3. ~Checked(e, Checks)'
    <3>1. SUFFICES ASSUME NEW v \in Workers, job'[v].pc \in Checks, job'[v].effect = e PROVE FALSE
      BY DEF Checked, Effect
    <3> QED  BY <1>1, <1>3, <2>2, <3>1 DEF Enters, Checked, Checks, Effect
  <2> QED  BY <1>2, <2>1, <2>3 DEF Barred, Checks
<1>4. CASE e.endpoint \in suppressed /\ ~Checked(e, {"save_release"})
  <2>1. ~Checked(e, {"save_release"})'
    <3>1. SUFFICES ASSUME NEW v \in Workers, job'[v].pc = "save_release", job'[v].effect = e PROVE FALSE
      BY DEF Checked, Effect
    <3> QED  BY <1>1, <1>4, <3>1 DEF Enters, Checked, Checks, Effect, MayContact
  <2> QED  BY <1>2, <1>4, <2>1 DEF Barred
<1> QED  BY <1>3, <1>4 DEF Barred, Checks

(* A send that is barred before its release is not released, whatever retries *)
(* (releaseNotificationSend and the validation of its effect).                *)
THEOREM BarredSendsStayBarred == Spec => BarredStaysBarred
<1>1. ASSUME IInv, [Next]_vars, ~UNCHANGED vars, NEW e \in Effects, Barred(e)
      PROVE  Barred(e)' \/ e.endpoint \in suppressed \ suppressed'
  BY <1>1, StaysBarred
<1>2. IInv /\ [Next]_vars =>
          [\A e \in Effects : Barred(e) => Barred(e)' \/ e.endpoint \in suppressed \ suppressed']_vars
  BY <1>1
<1> QED  BY <1>2, Invariant, PTL DEF Spec, BarredStaysBarred
-----------------------------------------------------------------------------
(* The refinement. *)

LEMMA SameRows ==
    /\ Promise!Effects = Effects /\ Promise!Identities = Identities /\ Promise!NoAttempt = NoAttempt
    /\ \A e \in Effects : Promise!Id(e) = Id(e)
  BY DEF Promise!Effects, Promise!Identities, Promise!NoAttempt, Promise!NoEffect, Promise!Id,
         Effects, Identities, NoAttempt, NoEffect, Id

Book == <<attempt, calls, accepted>>

LEMMA BookKept ==
    ASSUME Next
    PROVE  \/ UNCHANGED Book
           \/ \E w \in Workers : PlanAttempt(w) \/ ClaimAttempt(w) \/ Submit(w) \/ SettleAttempt(w)
<1>1. CASE Owners
  BY <1>1 DEF Owners, TransitionRule, ChangeEndpoint, ChangeSuppression, SupersedeBinding, provider, Book
<1>2. ASSUME NEW w \in Workers, Deliver(w) \/ Ingest(w) \/ Fails(w),
             ~PlanAttempt(w), ~ClaimAttempt(w), ~Submit(w), ~SettleAttempt(w)
      PROVE  UNCHANGED Book
  BY <1>2 DEF Deliver, StartDelivery, Authorize, Release, ValidateEndpoint, ValidateContact, CreateRelease,
              CheckIdentity, Ingest, ReceiveSesEvent, ReceiveTwilioStatus, ListEvidence,
              RecordObservation, SuppressBounced, Fails, provider, Book
<1> QED  BY <1>1, <1>2 DEF Next

LEMMA PlanPromise == ASSUME IInv, NEW w \in Workers, PlanAttempt(w) PROVE [Promise!Next]_Book
<1> DEFINE e == Effect(w)
<1>1. e \in Effects /\ Key(w) \in Keys
  BY SendFields DEF IInv, PlanAttempt, At, SendSteps, Released
<1>2. UNCHANGED <<calls, accepted>>
  BY DEF PlanAttempt, provider
<1>3. CASE UNCHANGED attempt
  BY <1>2, <1>3 DEF Book
<1>4. CASE /\ IdentityFree(e)
           /\ attempt' = [attempt EXCEPT ![Id(e)] = [status |-> "PLANNED", effect |-> e, key |-> Key(w)]]
  <2>1. Promise!Plan(e)
    BY <1>1, <1>2, <1>4, SameRows DEF Promise!Plan, IdentityFree
  <2> QED  BY <1>1, <2>1, SameRows DEF Promise!Next
<1> QED  BY <1>3, <1>4 DEF PlanAttempt

LEMMA ClaimPromise == ASSUME IInv, NEW w \in Workers, ClaimAttempt(w) PROVE [Promise!Next]_Book
<1> DEFINE e == Effect(w)
<1>1. e \in Effects /\ Attempt(w).effect = e
  BY SendFields DEF IInv, ClaimAttempt, At, SendSteps, Released, SendsRest, SendRests
<1>2. Promise!Claim(e)
  BY <1>1, SameRows DEF ClaimAttempt, StillIn, Attempt, Promise!Claim, provider
<1> QED  BY <1>1, <1>2, SameRows DEF Promise!Next

LEMMA SubmitPromise == ASSUME IInv, NEW w \in Workers, Submit(w) PROVE [Promise!Next]_Book
<1> DEFINE e == Effect(w)
<1>1. e \in Effects /\ Attempt(w).effect = e /\ Attempt(w).status = "SUBMITTING" /\ calls[e] = 0
  BY SendFields DEF IInv, Submit, At, SendSteps, Released, SendsRest, SendRests
<1>2. calls' = [calls EXCEPT ![e] = 1]
  BY <1>1 DEF Submit, IInv, TypeOK
<1>3. accepted' = accepted \/ accepted' = accepted \cup {e}
  BY DEF Submit
<1>4. Promise!HandOver(e)
  BY <1>1, <1>2, <1>3, SameRows DEF Submit, Attempt, Promise!HandOver
<1> QED  BY <1>1, <1>4, SameRows DEF Promise!Next

LEMMA SettlePromise == ASSUME IInv, NEW w \in Workers, SettleAttempt(w) PROVE [Promise!Next]_Book
<1> DEFINE e == Effect(w)
<1>1. /\ e \in Effects /\ calls[e] = 1 /\ Attempt(w).status = "SUBMITTING"
      /\ job[w].event \in {"ACCEPTED", "FAILED", "UNKNOWN"}
      /\ job[w].event = "ACCEPTED" => e \in accepted
      /\ job[w].event = "FAILED" => e \notin accepted
  BY ReportFields DEF IInv, SettleAttempt, At, ReportSteps, SendsRest, SendRests, Outcomes
<1>2. attempt[Id(e)].effect = e /\ attempt[Id(e)].status = "SUBMITTING"
  BY <1>1 DEF IInv, CallsAgree, Attempt
<1>3. attempt' = [attempt EXCEPT ![Id(e)].status = job[w].event] /\ UNCHANGED <<calls, accepted>>
  BY DEF SettleAttempt, provider
<1>4. Promise!Settle(e)
  BY <1>1, <1>2, <1>3, SameRows DEF Promise!Settle
<1> QED  BY <1>1, <1>4, SameRows DEF Promise!Next

(* The runtime with its retries, crashes and concurrent requests implements   *)
(* NotificationPromise.                                                       *)
THEOREM SendsKeepThePromise == Spec => PromiseSpec
<1>1. Init => Promise!Init
  BY SameRows DEF Init, Promise!Init
<1>2. IInv /\ [Next]_vars => [Promise!Next]_Book
  <2>1. CASE UNCHANGED vars
    BY <2>1 DEF vars, provider, Book
  <2>2. ASSUME IInv, Next PROVE [Promise!Next]_Book
    BY <2>2, BookKept, PlanPromise, ClaimPromise, SubmitPromise, SettlePromise
  <2> QED  BY <2>1, <2>2
<1> QED  BY <1>1, <1>2, Invariant, PTL DEF Spec, PromiseSpec, Promise!Spec, Book
-----------------------------------------------------------------------------
(* What a send rests on. *)
AllowedByRule(k) ==
    auth[k] # NoEffect => auth[k].version <= Len(rule) /\ rule[auth[k].version] = "ACTIVE"
RulesAllow == \A k \in Keys : AllowedByRule(k)

LEMMA RulesAllowStep == IInv /\ RulesAllow /\ [Next]_vars => RulesAllow'
<1> SUFFICES ASSUME IInv, RulesAllow, [Next]_vars, NEW k \in Keys PROVE AllowedByRule(k)'
  BY DEF RulesAllow
<1>1. /\ AllowedByRule(k) /\ rule \in Seq(Statuses) /\ Len(rule) \in Nat
      /\ auth \in [Keys -> Effects \cup {NoEffect}]
      /\ auth[k] # NoEffect => auth[k].version \in Versions
  BY DEF IInv, TypeOK, RulesAllow, Effects, Versions
<1>2. CASE UNCHANGED <<rule, auth>>
  BY <1>1, <1>2 DEF AllowedByRule
<1>3. ASSUME NEW to \in RuleMoves, TransitionRule(to) PROVE AllowedByRule(k)'
  <2>1. rule' = Append(rule, to) /\ auth' = auth /\ to \in Statuses
    BY <1>3 DEF TransitionRule, CanTransition, Statuses, execution
  <2>2. Len(rule') = Len(rule) + 1 /\ \A i \in 1..Len(rule) : rule'[i] = rule[i]
    BY <1>1, <2>1
  <2> QED  BY <1>1, <2>1, <2>2 DEF AllowedByRule, Versions
<1>4. ASSUME NEW w \in Workers, Authorize(w) PROVE AllowedByRule(k)'
  <2>1. rule' = rule
    BY <1>4 DEF Authorize, world
  <2>2. CASE auth'[k] = auth[k]
    BY <1>1, <2>1, <2>2 DEF AllowedByRule
  <2>3. CASE auth'[k] # auth[k]
    <3>1. auth'[k] = Effect(w) /\ RuleCurrent(Effect(w))
      BY <1>1, <1>4, <2>3 DEF Authorize
    <3> QED  BY <1>1, <2>1, <3>1 DEF AllowedByRule, RuleCurrent
  <2> QED  BY <2>2, <2>3
<1>5. \/ UNCHANGED <<rule, auth>>
      \/ \E to \in RuleMoves : TransitionRule(to)
      \/ \E w \in Workers : Authorize(w)
  <2>1. CASE Owners
    BY <2>1 DEF Owners, ChangeEndpoint, ChangeSuppression, SupersedeBinding, world, execution
  <2>2. ASSUME NEW w \in Workers, Deliver(w) \/ Ingest(w) \/ Fails(w), ~Authorize(w)
        PROVE  UNCHANGED <<rule, auth>>
    BY <2>2 DEF Deliver, StartDelivery, Release, ValidateEndpoint, ValidateContact, CreateRelease,
                CheckIdentity, PlanAttempt, ClaimAttempt, Submit, SettleAttempt, Ingest, ReceiveSesEvent,
                ReceiveTwilioStatus, ListEvidence, RecordObservation, SuppressBounced, Fails,
                world, execution
  <2>3. CASE UNCHANGED vars
    BY <2>3 DEF vars, world, execution
  <2> QED  BY <2>1, <2>2, <2>3 DEF Next
<1> QED  BY <1>2, <1>3, <1>4, <1>5

SentAllowed ==
    \A e \in Effects : calls[e] > 0 =>
        /\ e.version <= Len(rule) /\ rule[e.version] = "ACTIVE"
        /\ \E k \in released : \A j \in released : auth[j] = e <=> j = k

(* Nothing reaches the provider but what Execution released, by exactly one  *)
(* key, under a version of the rule that was made ACTIVE: whatever key a     *)
(* retry brings, and although a replayed authorization or release looks at   *)
(* no owner again (authorizeNotificationSend, releaseNotificationSend).      *)
THEOREM SendsAreReleased == Spec => []SentAllowed
<1>1. Init => RulesAllow
  BY DEF Init, RulesAllow, AllowedByRule
<1>2. Spec => []RulesAllow
  BY <1>1, RulesAllowStep, Invariant, PTL DEF Spec
<1>3. ASSUME IInv, RulesAllow PROVE SentAllowed
  <2>1. SUFFICES ASSUME NEW e \in Effects, calls[e] > 0
                 PROVE  /\ e.version <= Len(rule) /\ rule[e.version] = "ACTIVE"
                        /\ \E k \in released : \A j \in released : auth[j] = e <=> j = k
    BY DEF SentAllowed
  <2>2. calls[e] = 1
    BY <1>3, <2>1 DEF IInv, TypeOK, CallsAgree
  <2>3. attempt[Id(e)] # NoAttempt /\ attempt[Id(e)].effect = e /\ Id(e) \in Identities
    BY <1>3, <2>2, IdType DEF IInv, CallsAgree
  <2>4. PICK k \in released : auth[k] = e /\ k \in Keys
    BY <1>3, <2>3 DEF IInv, TypeOK, AttemptsAgree
  <2>5. e.version <= Len(rule) /\ rule[e.version] = "ACTIVE"
    BY <1>3, <2>1, <2>4, NoEffectIsNone DEF RulesAllow, AllowedByRule
  <2>6. \A j \in released : auth[j] = e <=> j = k
    BY <1>3, <2>4 DEF IInv, ReleasedOnce
  <2> QED  BY <2>5, <2>6
<1> QED  BY <1>2, <1>3, Invariant, PTL
-----------------------------------------------------------------------------
(* What evidence is about. *)
Reporting(w) == job[w].pc \in {"list", "observe", "suppress"} /\ job[w].status # "transport"
Bounced(i, status) == \E o \in Recorded(i, status) : o.event = "HARD_BOUNCED"

EvidenceRests ==
    /\ \A w \in Workers : Reporting(w) => Correlates(Effect(w))
    /\ \A w \in Workers : job[w].pc = "suppress" => Bounced(Id(Effect(w)), job[w].status)
    /\ \A o \in observation : o.status # "transport" => attempt[o.attempt].status = "ACCEPTED"
    /\ \A key \in bounces : Bounced(key[1], key[2])

(* An accepted attempt is final. *)
LEMMA AcceptedStays ==
    ASSUME IInv, Next, NEW i \in Identities, attempt[i].status = "ACCEPTED"
    PROVE  attempt'[i] = attempt[i]
<1>1. \/ UNCHANGED attempt
      \/ \E w \in Workers : PlanAttempt(w) \/ ClaimAttempt(w) \/ SettleAttempt(w)
  <2>1. CASE Owners
    BY <2>1 DEF Owners, TransitionRule, ChangeEndpoint, ChangeSuppression, SupersedeBinding
  <2>2. ASSUME NEW w \in Workers, Deliver(w) \/ Ingest(w) \/ Fails(w),
               ~PlanAttempt(w), ~ClaimAttempt(w), ~SettleAttempt(w)
        PROVE  UNCHANGED attempt
    BY <2>2 DEF Deliver, StartDelivery, Authorize, Release, ValidateEndpoint, ValidateContact,
                CreateRelease, CheckIdentity, Submit, Ingest, ReceiveSesEvent,
                ReceiveTwilioStatus, ListEvidence, RecordObservation, SuppressBounced, Fails
  <2> QED  BY <2>1, <2>2 DEF Next
<1>2. ASSUME NEW w \in Workers, PlanAttempt(w) PROVE attempt'[i] = attempt[i]
  BY <1>2 DEF PlanAttempt, IdentityFree, NoAttempt, IInv, TypeOK
<1>3. ASSUME NEW w \in Workers, ClaimAttempt(w) \/ SettleAttempt(w) PROVE attempt'[i] = attempt[i]
  <2>1. Attempt(w).status # "ACCEPTED"
    BY <1>3 DEF ClaimAttempt, SettleAttempt, StillIn
  <2>2. Id(Effect(w)) # i
    BY <2>1 DEF Attempt
  <2> QED  BY <1>3, <2>2 DEF ClaimAttempt, SettleAttempt, IInv, TypeOK
<1> QED  BY <1>1, <1>2, <1>3

LEMMA CorrelatesStays ==
    ASSUME IInv, Next, NEW e \in Effects, Correlates(e)
    PROVE  attempt'[Id(e)].status = "ACCEPTED" /\ attempt'[Id(e)].effect = e
  BY AcceptedStays, IdType DEF Correlates

(* A request reports of an attempt that it has found accepted, and comes to a *)
(* suppression from the record of its event.                                  *)
LEMMA WhoReports ==
    ASSUME IInv, EvidenceRests, Next, NEW v \in Workers, Reporting(v)'
    PROVE  /\ job'[v].effect \in Effects /\ Correlates(job'[v].effect)
           /\ job'[v].pc = "suppress" => job'[v] = job[v] \/ RecordObservation(v)
<1> DEFINE Goal == /\ job'[v].effect \in Effects /\ Correlates(job'[v].effect)
                   /\ job'[v].pc = "suppress" => job'[v] = job[v] \/ RecordObservation(v)
<1>1. TypeOK /\ (Reporting(v) => Effect(v) \in Effects /\ Correlates(Effect(v)))
  BY ReportFields DEF IInv, EvidenceRests, Reporting, ReportSteps
<1>2. CASE job'[v] = job[v]
  BY <1>1, <1>2 DEF Reporting, Effect
<1>3. SUFFICES ASSUME NEW w \in Workers, Deliver(w) \/ Ingest(w) \/ Fails(w), Others(w) => v = w
               PROVE  Goal
  <2>1. CASE Owners
    BY <1>2, <2>1 DEF Owners, TransitionRule, ChangeEndpoint, ChangeSuppression, SupersedeBinding
  <2>2. ASSUME NEW w \in Workers, Deliver(w) \/ Ingest(w) \/ Fails(w)
        PROVE  job'[v] = job[v] \/ (Others(w) => v = w)
    BY <2>2 DEF Others
  <2> QED  BY <1>2, <1>3, <2>1, <2>2 DEF Next
<1> USE DEF At, ReportSteps, SendSteps, AtRelease, Released
<1>a. \A r : job' = [job EXCEPT ![w] = r] => Others(w) /\ job'[w] = r
  BY <1>1 DEF TypeOK, Others
<1>4. CASE Deliver(w) \/ Fails(w)
  <2>1. CASE \/ Authorize(w) \/ Release(w) \/ ValidateEndpoint(w) \/ ValidateContact(w)
             \/ CreateRelease(w) \/ CheckIdentity(w) \/ PlanAttempt(w) \/ ClaimAttempt(w)
             \/ Fails(w)
    <3>1. \/ Leave(w)
          \/ job[w].pc \in SendSteps /\ \E s \in SendSteps : Goto(w, s)
      BY <2>1, AfterReleaseStep
      DEF Authorize, Release, ValidateEndpoint, ValidateContact, CreateRelease, CheckIdentity,
          PlanAttempt, ClaimAttempt, Fails
    <3>2. Others(w) /\ job'[w].pc \notin {"list", "observe", "suppress"}
      BY <1>1, <3>1, Leaving, GotoSend
    <3> QED  BY <1>3, <3>2 DEF Reporting
  <2>2. CASE \E k \in Keys, t \in Triggers : StartDelivery(w, k, t)
    <3>1. PICK k \in Keys, t \in Triggers : StartDelivery(w, k, t)
      BY <2>2
    <3> DEFINE r == [pc |-> "authorize", key |-> k,
                     effect |-> [trigger |-> t, version |-> Len(rule), endpoint |-> endpoint]]
    <3>2. job' = [job EXCEPT ![w] = r] /\ r.pc = "authorize"
      BY <3>1 DEF StartDelivery
    <3> HIDE DEF r
    <3> QED  BY <1>a, <1>3, <3>2 DEF Reporting
  <2>3. CASE Submit(w)
    <3>1. PICK result \in {"ACCEPTED", "FAILED", "UNKNOWN"} :
            job' = [job EXCEPT ![w] = [pc |-> "settle", effect |-> Effect(w), status |-> "transport",
                                       event |-> result, known |-> {}]]
      BY <2>3 DEF Submit
    <3> DEFINE r == [pc |-> "settle", effect |-> Effect(w), status |-> "transport",
                     event |-> result, known |-> {}]
    <3>2. job' = [job EXCEPT ![w] = r] /\ r.pc = "settle"
      BY <3>1
    <3> HIDE DEF r
    <3> QED  BY <1>a, <1>3, <3>2 DEF Reporting
  <2>4. CASE SettleAttempt(w)
    <3>1. /\ job[w].pc = "settle" /\ job[w].status = "transport" /\ Goto(w, "observe")
      BY <2>4 DEF SettleAttempt, IInv, SendsRest, SendRests
    <3>2. Others(w) /\ job'[w].status = "transport"
      BY <1>1, <3>1, GotoReport
    <3> QED  BY <1>3, <3>2 DEF Reporting
  <2> QED  BY <1>4, <2>1, <2>2, <2>3, <2>4 DEF Deliver
<1>5. CASE Ingest(w)
  <2>1. ASSUME NEW e \in Effects, NEW s \in SesEvents, ReceiveSesEvent(w, e, s)
        PROVE  Others(w) /\ job'[w].effect = e /\ Correlates(e) /\ job'[w].pc # "suppress"
    <3> DEFINE r == [pc |-> "observe", effect |-> e, status |-> s, event |-> s, known |-> {}]
    <3>1. job' = [job EXCEPT ![w] = r] /\ r.effect = e /\ r.pc # "suppress"
      BY <2>1 DEF ReceiveSesEvent
    <3> HIDE DEF r
    <3> QED  BY <1>a, <2>1, <3>1 DEF ReceiveSesEvent
  <2>2. ASSUME NEW e \in Effects, NEW s \in TwilioStatuses, ReceiveTwilioStatus(w, e, s)
        PROVE  Others(w) /\ job'[w].effect = e /\ Correlates(e) /\ job'[w].pc # "suppress"
    <3> DEFINE r == [pc |-> "list", effect |-> e, status |-> s, event |-> "UNKNOWN",
                     known |-> ProviderEvidence(Id(e)) \cap Terminal]
    <3>1. job' = [job EXCEPT ![w] = r] /\ r.effect = e /\ r.pc # "suppress"
      BY <2>2 DEF ReceiveTwilioStatus
    <3> HIDE DEF r
    <3> QED  BY <1>a, <2>2, <3>1 DEF ReceiveTwilioStatus
  <2>3. CASE ListEvidence(w)
    <3> DEFINE x == Downgraded(MappedEvent(job[w].status), ProviderEvidence(Id(Effect(w))))
               r == [job[w] EXCEPT !.pc = "observe", !.event = x]
    <3>1. job[w].pc = "list" /\ job[w] \in ReportJob /\ job' = [job EXCEPT ![w] = r]
      BY <1>1, <2>3, JobAt DEF ListEvidence
    <3> HIDE DEF x
    <3>2. r.effect = job[w].effect /\ r.status = job[w].status /\ r.pc # "suppress"
      BY <3>1 DEF ReportJob
    <3> HIDE DEF r
    <3> QED  BY <1>a, <1>1, <1>3, <3>1, <3>2 DEF Reporting, Effect
  <2>4. CASE RecordObservation(w)
    <3>1. PICK event : AfterRecord(w, event)
      BY <2>4 DEF RecordObservation
    <3>2. job[w].pc = "observe"
      BY <2>4 DEF RecordObservation
    <3>3. /\ Others(w)
          /\ \/ job'[w].effect = job[w].effect /\ job'[w].status = job[w].status
             \/ job'[w].pc = "idle"
      BY <1>1, <3>1, <3>2, AfterRecordStep
    <3>4. v = w
      BY <1>3, <3>3
    <3> QED  BY <1>1, <2>4, <3>2, <3>3, <3>4 DEF Reporting, Effect
  <2>5. CASE SuppressBounced(w)
    <3>1. Others(w) /\ job'[w].pc = "idle"
      BY <1>1, <2>5, Leaving DEF SuppressBounced
    <3> QED  BY <1>3, <3>1 DEF Reporting
  <2> QED  BY <1>3, <1>5, <2>1, <2>2, <2>3, <2>4, <2>5 DEF Ingest
<1> QED  BY <1>3, <1>4, <1>5

(* Only a bounce's suppression issues its command. *)
LEMMA WhoSuppresses ==
    ASSUME Next
    PROVE  UNCHANGED bounces \/ \E v \in Workers : SuppressBounced(v)
<1>1. CASE Owners
  BY <1>1 DEF Owners, TransitionRule, ChangeEndpoint, ChangeSuppression, SupersedeBinding, evidence
<1>2. ASSUME NEW w \in Workers, Deliver(w) \/ Ingest(w) \/ Fails(w), ~SuppressBounced(w)
      PROVE  UNCHANGED bounces
  BY <1>2 DEF Deliver, StartDelivery, Authorize, Release, ValidateEndpoint, ValidateContact, CreateRelease,
              CheckIdentity, PlanAttempt, ClaimAttempt, Submit, SettleAttempt, Ingest, ReceiveSesEvent,
              ReceiveTwilioStatus, ListEvidence, RecordObservation, Fails, evidence
<1> QED  BY <1>1, <1>2 DEF Next

LEMMA EvidenceRestsStep == IInv /\ EvidenceRests /\ [Next]_vars => EvidenceRests'
<1> SUFFICES ASSUME IInv, EvidenceRests, [Next]_vars PROVE EvidenceRests'
  OBVIOUS
<1>1. CASE UNCHANGED vars
  BY <1>1 DEF vars, evidence, EvidenceRests, Reporting, Bounced, Recorded, Correlates, Effect, Id
<1>2. CASE Next
  <2>1. /\ IInv' /\ TypeOK
        /\ \A e \in Effects : Correlates(e) => /\ attempt'[Id(e)].status = "ACCEPTED"
                                              /\ attempt'[Id(e)].effect = e
        /\ \A i \in Identities : attempt[i].status = "ACCEPTED" => attempt'[i].status = "ACCEPTED"
    BY <1>2, NextIInv, AcceptedStays, CorrelatesStays DEF IInv
  <2>2. observation \subseteq observation'
    <3>1. \A v \in Workers : RecordObservation(v) => observation \subseteq observation'
      BY DEF RecordObservation
    <3> QED  BY <1>2, <3>1, WhoWrites
  <2>3. ASSUME NEW i, NEW s, Bounced(i, s) PROVE Bounced(i, s)'
    BY <2>2, <2>3 DEF Bounced, Recorded
  <2>4. ASSUME NEW v \in Workers, Reporting(v)' PROVE Correlates(Effect(v))'
    <3>1. job'[v].effect \in Effects /\ Correlates(job'[v].effect)
      BY <1>2, <2>4, WhoReports
    <3> QED  BY <2>1, <3>1 DEF Correlates, Effect, Id
  <2>5. ASSUME NEW v \in Workers, job'[v].pc = "suppress" PROVE Bounced(Id(Effect(v)), job[v].status)'
    <3>1. Reporting(v)'
      <4>1. job'[v].status \in SesEvents
        BY <2>1, <2>5 DEF IInv, EvidenceKept, ReportRests
      <4> QED  BY <2>5, <4>1 DEF Reporting
    <3>2. CASE job'[v] = job[v]
      <4>1. Bounced(Id(Effect(v)), job[v].status)
        BY <2>5, <3>2 DEF EvidenceRests
      <4> QED  BY <2>3, <3>2, <4>1 DEF Effect, Id, Bounced, Recorded
    <3>3. CASE RecordObservation(v)
      <4>1. PICK o \in Observation :
                /\ AfterRecord(v, o.event)
                /\ o.attempt = Id(Effect(v)) /\ o.status = job[v].status /\ o \in observation'
        BY <3>3, RecordCases
      <4>2. job[v].pc = "observe"
        BY <3>3 DEF RecordObservation, At
      <4>3. /\ o.event = "HARD_BOUNCED"
            /\ job'[v].effect = job[v].effect /\ job'[v].status = job[v].status
        BY <2>1, <2>5, <4>1, <4>2, AfterRecordStep
      <4> QED  BY <4>1, <4>3 DEF Bounced, Recorded, Effect, Id
    <3> QED  BY <1>2, <2>5, <3>1, <3>2, <3>3, WhoReports
  <2>6. ASSUME NEW o \in observation', o.status # "transport"
        PROVE  attempt'[o.attempt].status = "ACCEPTED"
    <3>1. CASE o \in observation
      <4>1. o.attempt \in Identities
        BY <2>1, <3>1 DEF TypeOK, Observation
      <4> QED  BY <2>1, <2>6, <3>1, <4>1 DEF EvidenceRests
    <3>2. CASE o \notin observation
      <4>1. PICK v \in Workers : RecordObservation(v)
        BY <1>2, <2>6, <3>2, WhoWrites
      <4>2. o.attempt = Id(Effect(v)) /\ o.status = job[v].status /\ job[v].pc = "observe"
        BY <2>6, <3>2, <4>1, RecordCases DEF RecordObservation, At
      <4>3. Effect(v) \in Effects /\ Correlates(Effect(v))
        BY <2>1, <2>6, <4>2, ReportFields DEF EvidenceRests, Reporting, ReportSteps
      <4> QED  BY <2>1, <4>2, <4>3
    <3> QED  BY <3>1, <3>2
  <2>7. ASSUME NEW key \in bounces' PROVE Bounced(key[1], key[2])'
    <3>1. CASE key \in bounces
      BY <2>3, <3>1 DEF EvidenceRests
    <3>2. CASE key \notin bounces
      <4>1. PICK v \in Workers : SuppressBounced(v)
        BY <1>2, <2>7, <3>2, WhoSuppresses
      <4>2. key = <<Id(Effect(v)), job[v].status>> /\ job[v].pc = "suppress"
        BY <2>7, <3>2, <4>1 DEF SuppressBounced, At
      <4>3. Bounced(Id(Effect(v)), job[v].status)
        BY <4>2 DEF EvidenceRests
      <4> QED  BY <2>3, <4>2, <4>3
    <3> QED  BY <3>1, <3>2
  <2> QED  BY <2>4, <2>5, <2>6, <2>7 DEF EvidenceRests
<1> QED  BY <1>1, <1>2

EvidenceIsOfAccepted ==
    /\ \A o \in observation : o.status # "transport" => attempt[o.attempt].status = "ACCEPTED"
    /\ \A key \in bounces :
         /\ Bounced(key[1], key[2])
         /\ attempt[key[1]].status = "ACCEPTED" /\ attempt[key[1]].effect \in accepted

(* What is on record as a provider's report is of a message whose submission *)
(* the service has on record as accepted, and no suppression is issued for a *)
(* bounce but one that is on record, of a message that the provider had      *)
(* taken (NotificationAmazonSesAuthenticatedEventIngestionV1.ingest,         *)
(* NotificationTwilioSmsAuthenticatedEventIngestionV1.ingest).               *)
THEOREM EvidenceHasItsMessage == Spec => []EvidenceIsOfAccepted
<1>1. Init => EvidenceRests
  BY DEF Init, EvidenceRests, Reporting, Idle
<1>2. Spec => []EvidenceRests
  BY <1>1, EvidenceRestsStep, Invariant, PTL DEF Spec
<1>3. ASSUME IInv, EvidenceRests, NEW key \in bounces
      PROVE  attempt[key[1]].status = "ACCEPTED" /\ attempt[key[1]].effect \in accepted
  <2>1. PICK o \in observation : o.attempt = key[1] /\ o.status = key[2] /\ o.event = "HARD_BOUNCED"
    BY <1>3 DEF EvidenceRests, Bounced, Recorded
  <2>2. o.status # "transport" /\ o.attempt \in Identities
    BY <1>3, <2>1 DEF IInv, EvidenceKept, TypeOK, Observation
  <2>3. attempt[key[1]].status = "ACCEPTED" /\ key[1] \in Identities
    BY <1>3, <2>1, <2>2 DEF EvidenceRests
  <2>4. attempt[key[1]] # NoAttempt
    BY <2>3 DEF NoAttempt
  <2> QED  BY <1>3, <2>3, <2>4 DEF IInv, AttemptsAgree
<1>4. IInv /\ EvidenceRests => EvidenceIsOfAccepted
  BY <1>3 DEF EvidenceRests, EvidenceIsOfAccepted
<1> QED  BY <1>2, <1>4, Invariant, PTL
=============================================================================
