------------------------- MODULE NotificationPromise -------------------------
(***************************************************************************)
(* What Lite promises of automated notifications: a trigger under a rule   *)
(* version is planned for one endpoint, handed to the provider at most     *)
(* once and only after it was claimed, and its outcome, once known, agrees *)
(* with the provider and is final.                                         *)
(***************************************************************************)
EXTENDS Naturals

CONSTANTS Triggers, Versions, Endpoints, Keys

VARIABLES
    attempt,   \* attempt[i]: the delivery attempt with identity i, and its release's key
    calls,     \* calls[e]: how often effect e was handed to the provider
    accepted   \* the effects the provider took

Identities == Triggers \X Versions
Effects    == [trigger: Triggers, version: Versions, endpoint: Endpoints]
Id(e)      == <<e.trigger, e.version>>

NoEffect   == [trigger |-> "NONE", version |-> 0, endpoint |-> "NONE"]
NoAttempt  == [status |-> "NONE", effect |-> NoEffect, key |-> "NONE"]

Init ==
    /\ attempt = [i \in Identities |-> NoAttempt]
    /\ calls = [e \in Effects |-> 0]
    /\ accepted = {}

Plan(e) ==
    /\ attempt[Id(e)] = NoAttempt
    /\ \E k \in Keys :
         attempt' = [attempt EXCEPT ![Id(e)] = [status |-> "PLANNED", effect |-> e, key |-> k]]
    /\ UNCHANGED <<calls, accepted>>

Claim(e) ==
    /\ attempt[Id(e)].effect = e /\ attempt[Id(e)].status = "PLANNED"
    /\ attempt' = [attempt EXCEPT ![Id(e)].status = "SUBMITTING"]
    /\ UNCHANGED <<calls, accepted>>

HandOver(e) ==
    /\ attempt[Id(e)].effect = e /\ attempt[Id(e)].status = "SUBMITTING"
    /\ calls[e] = 0
    /\ calls' = [calls EXCEPT ![e] = 1]
    /\ accepted' \in {accepted, accepted \cup {e}}
    /\ UNCHANGED attempt

Settle(e) ==
    /\ attempt[Id(e)].effect = e /\ attempt[Id(e)].status = "SUBMITTING"
    /\ calls[e] = 1
    /\ \E outcome \in {"ACCEPTED", "FAILED", "UNKNOWN"} :
        /\ outcome = "ACCEPTED" => e \in accepted
        /\ outcome = "FAILED" => e \notin accepted
        /\ attempt' = [attempt EXCEPT ![Id(e)].status = outcome]
    /\ UNCHANGED <<calls, accepted>>

Next == \E e \in Effects : Plan(e) \/ Claim(e) \/ HandOver(e) \/ Settle(e)

Spec == Init /\ [][Next]_<<attempt, calls, accepted>>
==============================================================================
