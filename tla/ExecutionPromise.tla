-------------------------- MODULE ExecutionPromise --------------------------
(***************************************************************************)
(* What Managed AI execution promises to whoever uses an idempotency key:  *)
(* the key stands for one request, the AI provider is called at most once  *)
(* for it, and every answer given is the outcome of that one call.         *)
(***************************************************************************)
EXTENDS Naturals

CONSTANTS Fingerprints, Outcomes

VARIABLES
    bound,   \* the request the key stands for, "NONE" before there is one
    calls,   \* how often the provider was called
    final,   \* the outcome of that call, once it is kept
    answers  \* <<request, outcome>>: what callers were told

promise == <<bound, calls, final, answers>>

Init ==
    /\ bound = "NONE"
    /\ calls = 0
    /\ final = "NONE"
    /\ answers = {}

Bind(f) ==
    /\ bound = "NONE"
    /\ bound' = f
    /\ UNCHANGED <<calls, final, answers>>

Call ==
    /\ bound # "NONE"
    /\ calls = 0
    /\ calls' = 1
    /\ UNCHANGED <<bound, final, answers>>

(* The outcome is kept, and may be told at once to the caller. *)
Keep(o) ==
    /\ calls = 1
    /\ final = "NONE"
    /\ final' = o
    /\ answers' \in {answers, answers \cup {<<bound, o>>}}
    /\ UNCHANGED <<bound, calls>>

Answer ==
    /\ final # "NONE"
    /\ answers' = answers \cup {<<bound, final>>}
    /\ UNCHANGED <<bound, calls, final>>

Next ==
    \/ \E f \in Fingerprints : Bind(f)
    \/ Call
    \/ \E o \in Outcomes : Keep(o)
    \/ Answer

Spec == Init /\ [][Next]_promise
=============================================================================
