------------------------- MODULE ManagedAiExecution -------------------------
(***************************************************************************)
(* Managed AI execution (services/capability-engine): an HTTP request with *)
(* an idempotency key claims the key in a durable table, marks it as       *)
(* dispatching, calls the AI provider and records the outcome, so that a   *)
(* repeated request replays it and a call whose fate is unknown is never   *)
(* made again.  Requests run in any number of processes.                   *)
(*                                                                         *)
(* The module is about one key: claims of two keys share no row.           *)
(* Granularity: one SQL statement or provider call is a step.  The claim's *)
(* transaction is READ COMMITTED: its advisory lock keeps other claims out *)
(* from its SELECT to its write, but not the other statements.  A request  *)
(* may end before any step (crash, database error): what it committed      *)
(* stays.  Whether a lease is over is left open: clocks are not modelled,  *)
(* so a claim may find a lease over, or still running, at any time.        *)
(***************************************************************************)
EXTENDS Naturals

CONSTANTS
    Tokens,       \* owner tokens; a running request has one of its own
    Fingerprints, \* what a request asks for, by its SHA-256
    Outcomes,     \* governed outcomes the executor may return
    WithOutput    \* those with exact provider output that has to be stored

ASSUME ExecutionAssumption ==
    /\ "NONE" \notin Tokens \cup Fingerprints \cup Outcomes
    /\ WithOutput \subseteq Outcomes

VARIABLES
    state,        \* the claim's row: its state, "NONE" while there is no row
    fingerprint,  \* .request_fingerprint_sha256
    owner,        \* .owner_token
    outcome,      \* .outcome_json, "NONE" for NULL
    exactOutput,  \* the outcome whose exact output is stored for the execution
    calls,        \* how often the provider was called
    answers,      \* <<fingerprint, outcome>>: the outcomes requests were answered with
    pc,           \* pc[t]: the step the request with token t takes next
    asked,        \* asked[t]: its fingerprint
    seen,         \* seen[t]: the row's state its claim has read
    result        \* result[t]: what the executor returned to it

row  == <<state, fingerprint, owner, outcome>>
vars == <<row, exactOutput, calls, answers, pc, asked, seen, result>>

Steps == {"done", "claim", "claim_write", "mark", "execute", "await",
          "store", "complete", "reconcile"}
Live   == {"CLAIMED", "DISPATCHING"}
Called == {"DISPATCHING", "RECONCILIATION_REQUIRED"}
States == Live \cup Called \cup {"COMPLETED"}

Init ==
    /\ state = "NONE" /\ fingerprint = "NONE" /\ owner = "NONE" /\ outcome = "NONE"
    /\ exactOutput = "NONE"
    /\ calls = 0
    /\ answers = {}
    /\ pc = [t \in Tokens |-> "done"]
    /\ asked = [t \in Tokens |-> "NONE"]
    /\ seen = [t \in Tokens |-> "NONE"]
    /\ result = [t \in Tokens |-> "NONE"]

Goto(t, step) == pc' = [pc EXCEPT ![t] = step]
-----------------------------------------------------------------------------
(* The request and its claim. *)

(* A request arrives and is given a fresh token.  A request for a key that *)
(* is in flight in the same process shares that request's result instead.  *)
Start(t, f) ==
    /\ pc[t] = "done"
    /\ owner # t
    /\ asked' = [asked EXCEPT ![t] = f]
    /\ seen' = [seen EXCEPT ![t] = "NONE"]
    /\ result' = [result EXCEPT ![t] = "NONE"]
    /\ Goto(t, "claim")
    /\ UNCHANGED <<row, exactOutput, calls, answers>>

AnyRequest(t)  == TRUE  \* mutant: the fingerprint is not compared
SameRequest(t) == fingerprint = asked[t]

AdvisoryLockFree == \A u \in Tokens : pc[u] # "claim_write"

(* claim's SELECT finds no row, or a row of the same request whose lease is *)
(* over and whose provider call has not been settled.                       *)
ClaimReads(t) ==
    /\ pc[t] = "claim" /\ AdvisoryLockFree
    /\ \/ state = "NONE"
       \/ state \in Live /\ SameRequest(t)
    /\ seen' = [seen EXCEPT ![t] = state]
    /\ Goto(t, "claim_write")
    /\ UNCHANGED <<row, exactOutput, calls, answers, asked, result>>

(* ... a completed row of the same request: the request is answered from it. *)
ClaimReplays(t) ==
    /\ pc[t] = "claim" /\ AdvisoryLockFree
    /\ state = "COMPLETED" /\ SameRequest(t)
    /\ answers' = answers \cup {<<asked[t], outcome>>}
    /\ Goto(t, "done")
    /\ UNCHANGED <<row, exactOutput, calls, asked, seen, result>>

(* ... a row of another request, one to reconcile, or one still leased: 409. *)
ClaimRefused(t) ==
    /\ pc[t] = "claim" /\ AdvisoryLockFree
    /\ state # "NONE"
    /\ ~SameRequest(t) \/ state # "COMPLETED"
    /\ Goto(t, "done")
    /\ UNCHANGED <<row, exactOutput, calls, answers, asked, seen, result>>

(* The table's CHECK: exactly the completed rows have an outcome. *)
RowUnchecked(s, o) == TRUE  \* mutant: no CHECK
RowAllowed(s, o) == (s = "COMPLETED") <=> (o # "NONE")

ClaimInserts(t) ==
    /\ pc[t] = "claim_write" /\ seen[t] = "NONE"
    /\ state = "NONE"
    /\ state' = "CLAIMED" /\ fingerprint' = asked[t] /\ owner' = t
    /\ Goto(t, "mark")
    /\ UNCHANGED <<outcome, exactOutput, calls, answers, asked, seen, result>>

(* mutant: the takeover claims the row anew without looking at its state *)
ClaimResets(t) ==
    /\ pc[t] = "claim_write" /\ seen[t] = "CLAIMED"
    /\ state' = "CLAIMED" /\ owner' = t
    /\ Goto(t, "mark")
    /\ UNCHANGED <<fingerprint, outcome, exactOutput, calls, answers, asked, seen, result>>

(* A claim whose lease is over changes hands, unless it was dispatched      *)
(* since; the claim is reported as acquired either way.                     *)
ClaimTakesOver(t) ==
    /\ pc[t] = "claim_write" /\ seen[t] = "CLAIMED"
    /\ owner' = IF state = "CLAIMED" THEN t ELSE owner
    /\ Goto(t, "mark")
    /\ UNCHANGED <<state, fingerprint, outcome, exactOutput, calls, answers, asked, seen, result>>

(* mutant: a dispatch whose lease is over is taken over like a claim *)
ClaimRedispatches(t) ==
    /\ pc[t] = "claim_write" /\ seen[t] = "DISPATCHING"
    /\ state' = "CLAIMED" /\ owner' = t
    /\ Goto(t, "mark")
    /\ UNCHANGED <<fingerprint, outcome, exactOutput, calls, answers, asked, seen, result>>

(* mutant: a dispatch whose lease is over is refused, and left as it is *)
ClaimLeavesDispatch(t) ==
    /\ pc[t] = "claim_write" /\ seen[t] = "DISPATCHING"
    /\ Goto(t, "done")
    /\ UNCHANGED <<row, exactOutput, calls, answers, asked, seen, result>>

(* A dispatch whose lease is over is set aside for reconciliation, whatever *)
(* the row's state has become, if the CHECK lets it be.                     *)
ClaimQuarantines(t) ==
    /\ pc[t] = "claim_write" /\ seen[t] = "DISPATCHING"
    /\ state' = IF RowAllowed("RECONCILIATION_REQUIRED", outcome)
                THEN "RECONCILIATION_REQUIRED" ELSE state
    /\ Goto(t, "done")
    /\ UNCHANGED <<fingerprint, owner, outcome, exactOutput, calls, answers, asked, seen, result>>
-----------------------------------------------------------------------------
(* The dispatch. *)

OwnsByRequest(t, from) == state \in from /\ SameRequest(t)  \* mutant: no owner token
OwnsAlways(t, from)    == SameRequest(t)  \* mutant: neither state nor owner

(* The WHERE clauses of the owner's updates. *)
Owns(t, from) == state \in from /\ SameRequest(t) /\ owner = t

MarkDispatching(t) ==
    /\ pc[t] = "mark"
    /\ Owns(t, {"CLAIMED"})
    /\ state' = "DISPATCHING"
    /\ Goto(t, "execute")
    /\ UNCHANGED <<fingerprint, owner, outcome, exactOutput, calls, answers, asked, seen, result>>

Execute(t) ==
    /\ pc[t] = "execute"
    /\ calls' = calls + 1
    /\ Goto(t, "await")
    /\ UNCHANGED <<row, exactOutput, answers, asked, seen, result>>

Returns(t, o) ==
    /\ pc[t] = "await"
    /\ result' = [result EXCEPT ![t] = o]
    /\ Goto(t, IF o \in WithOutput THEN "store" ELSE "complete")
    /\ UNCHANGED <<row, exactOutput, calls, answers, asked, seen>>

(* The executor throws, its outcome does not parse, or storing the output   *)
(* or completing the claim fails or seems to: the claim is to reconcile.    *)
BecomesUncertain(t) ==
    /\ pc[t] \in {"await", "store", "complete"}
    /\ Goto(t, "reconcile")
    /\ UNCHANGED <<row, exactOutput, calls, answers, asked, seen, result>>

(* The exact output is inserted unless there is one, which must be the same. *)
StoreOutput(t) ==
    /\ pc[t] = "store"
    /\ exactOutput \in {"NONE", result[t]}
    /\ exactOutput' = result[t]
    /\ \E next \in {"complete", "reconcile"} : Goto(t, next)
    /\ UNCHANGED <<row, calls, answers, asked, seen, result>>

(* The outcome is recorded; the request is answered with it, or the         *)
(* acknowledgement of the update is lost.                                   *)
Complete(t) ==
    /\ pc[t] = "complete"
    /\ Owns(t, Called)
    /\ state' = "COMPLETED" /\ outcome' = result[t]
    /\ \/ Goto(t, "done") /\ answers' = answers \cup {<<asked[t], result[t]>>}
       \/ Goto(t, "reconcile") /\ UNCHANGED answers
    /\ UNCHANGED <<fingerprint, owner, exactOutput, calls, asked, seen, result>>

MarkReconciliationRequired(t) ==
    /\ pc[t] = "reconcile"
    /\ Owns(t, Called)
    /\ state' = "RECONCILIATION_REQUIRED"
    /\ Goto(t, "done")
    /\ UNCHANGED <<fingerprint, owner, outcome, exactOutput, calls, answers, asked, seen, result>>

(* The process crashes, or a claim, dispatch mark or best-effort            *)
(* reconciliation fails or changes no row: the request is over.             *)
Ends(t) ==
    /\ pc[t] # "done"
    /\ Goto(t, "done")
    /\ UNCHANGED <<row, exactOutput, calls, answers, asked, seen, result>>

(* What a running request does next, its end included. *)
Continues(t) ==
    \/ ClaimReads(t) \/ ClaimReplays(t) \/ ClaimRefused(t)
    \/ ClaimInserts(t) \/ ClaimTakesOver(t) \/ ClaimQuarantines(t)
    \/ MarkDispatching(t)
    \/ Execute(t)
    \/ \E o \in Outcomes : Returns(t, o)
    \/ BecomesUncertain(t)
    \/ StoreOutput(t)
    \/ Complete(t)
    \/ MarkReconciliationRequired(t)
    \/ Ends(t)

Next == \E t \in Tokens : (\E f \in Fingerprints : Start(t, f)) \/ Continues(t)

Spec == Init /\ [][Next]_vars
-----------------------------------------------------------------------------
(* What the key's claims must guarantee. *)

(* The claim row and the requests have the values the table allows.         *)
TypeOK ==
    /\ state \in States \cup {"NONE"}
    /\ fingerprint \in Fingerprints \cup {"NONE"}
    /\ owner \in Tokens \cup {"NONE"}
    /\ outcome \in Outcomes \cup {"NONE"}
    /\ exactOutput \in Outcomes \cup {"NONE"}
    /\ calls \in Nat
    /\ answers \subseteq Fingerprints \X Outcomes
    /\ pc \in [Tokens -> Steps]
    /\ asked \in [Tokens -> Fingerprints \cup {"NONE"}]
    /\ seen \in [Tokens -> Live \cup {"NONE"}]
    /\ result \in [Tokens -> Outcomes \cup {"NONE"}]

(* However requests crash, take over leases and race, the provider is       *)
(* called at most once for a key (claim, markDispatching).                  *)
AtMostOnce == calls <= 1

(* The exact output of a recorded outcome is stored. *)
OutputKept == outcome \in WithOutput => exactOutput = outcome

(* Every 200 answer is the recorded outcome of the request the key stands   *)
(* for, and the exact output it refers to is stored (claim's REPLAY,        *)
(* durabilizeExactOutput, complete).                                        *)
AnswersAgree ==
    \A a \in answers :
        /\ state = "COMPLETED"
        /\ a = <<fingerprint, outcome>>
        /\ OutputKept

(* A provider call always leaves a durable trace: once the provider may     *)
(* have been called, the row says so, and no request may claim it anew.     *)
CallIsRecorded == calls > 0 => state \in Called \cup {"COMPLETED"}

(* A recorded outcome is never replaced nor set aside, not even by a claim  *)
(* that saw the dispatch's lease over before the outcome was recorded.      *)
CompletedIsFinal == [][state = "COMPLETED" => UNCHANGED row]_vars

(* The claims of a key implement the promise made for it. *)
Promise == INSTANCE ExecutionPromise WITH bound <- fingerprint, final <- outcome
PromiseSpec == Promise!Spec
-----------------------------------------------------------------------------
(* Why: the inductive strengthening. *)

Rows ==
    /\ RowAllowed(state, outcome)
    /\ state = "NONE" <=> fingerprint = "NONE"
    /\ state = "COMPLETED" => calls = 1

(* A running request asks for something; only a row there is can be seen. *)
Asking(t) ==
    /\ pc[t] # "done" => asked[t] # "NONE"
    /\ seen[t] # "NONE" => state # "NONE"

(* Past its mark, a request is the only owner of a dispatched row. *)
Dispatched(t) ==
    /\ fingerprint = asked[t]
    /\ owner = t
    /\ \/ state \in Called
       \/ state = "COMPLETED" /\ pc[t] = "reconcile"
    /\ pc[t] = "execute" <=> calls = 0
    /\ pc[t] \in {"store", "complete"} => result[t] # "NONE"
    /\ pc[t] = "complete" /\ result[t] \in WithOutput => exactOutput = result[t]

PastMark == {"execute", "await", "store", "complete", "reconcile"}

(* What every statement of the claim store keeps: a request past its        *)
(* dispatch mark is the row's only owner, and the row tells of its call.    *)
IInv ==
    /\ TypeOK
    /\ Rows
    /\ OutputKept
    /\ \A t \in Tokens : Asking(t)
    /\ \A t \in Tokens : pc[t] \in PastMark => Dispatched(t)
    /\ AtMostOnce
    /\ CallIsRecorded
    /\ AnswersAgree
-----------------------------------------------------------------------------
(* Progress, if no request stands still, callers keep asking again, and a   *)
(* claim, takeover, quarantine or dispatch mark that is tried forever is    *)
(* not cut short by a crash every time.                                     *)
ExecutionFairness ==
    /\ \A t \in Tokens : WF_vars(Continues(t))
    /\ SF_vars(\E t \in Tokens : Start(t, fingerprint))
    /\ SF_vars(\E t \in Tokens : ClaimReads(t))
    /\ SF_vars(\E t \in Tokens : ClaimTakesOver(t) \/ ClaimQuarantines(t))
    /\ SF_vars(\E t \in Tokens : MarkDispatching(t))

FairSpec == Spec /\ ExecutionFairness

(* A claim never stays in limbo: it is completed, or set aside for          *)
(* reconciliation once the lease of a dead owner is over.                   *)
NoLimbo == state \in Live ~> state \notin Live
=============================================================================
