-------------------------- MODULE ManagedAiProofs --------------------------
(***************************************************************************)
(* Proofs about ManagedAiExecution, for any number of requests, whatever   *)
(* they ask for and whatever the executor returns.                         *)
(***************************************************************************)
EXTENDS ManagedAiExecution, TLAPS

USE DEF row, Live, Called, States, Steps, PastMark, RowAllowed, SameRequest

LEMMA InitIInv == Init => IInv
  BY ExecutionAssumption
  DEF Init, IInv, TypeOK, Rows, OutputKept, Asking, Dispatched, AtMostOnce, CallIsRecorded, AnswersAgree

(* The request arrives and claims: the row's state is read, not yet written. *)
LEMMA StartIInv ==
    ASSUME IInv, NEW t \in Tokens, NEW f \in Fingerprints, Start(t, f)
    PROVE  IInv'
  BY ExecutionAssumption
  DEF Start, Goto, IInv, TypeOK, Rows, OutputKept, Asking, Dispatched, AtMostOnce, CallIsRecorded, AnswersAgree

LEMMA ClaimReadsIInv ==
    ASSUME IInv, NEW t \in Tokens, ClaimReads(t)
    PROVE  IInv'
  BY DEF ClaimReads, Goto, IInv, TypeOK, Rows, OutputKept, Asking, Dispatched, AtMostOnce, CallIsRecorded,
         AnswersAgree

LEMMA ClaimReplaysIInv ==
    ASSUME IInv, NEW t \in Tokens, ClaimReplays(t)
    PROVE  IInv'
<1>1. fingerprint = asked[t] /\ state = "COMPLETED" /\ outcome \in Outcomes
  BY DEF ClaimReplays, IInv, TypeOK, Rows
<1>2. fingerprint \in Fingerprints
  BY <1>1 DEF IInv, TypeOK, Rows
<1>3. answers' = answers \cup {<<fingerprint, outcome>>}
  BY <1>1 DEF ClaimReplays
<1>4. TypeOK'
  BY <1>1, <1>2, <1>3 DEF ClaimReplays, Goto, IInv, TypeOK
<1>5. AnswersAgree'
  <2>1. OutputKept' /\ state' = "COMPLETED" /\ fingerprint' = fingerprint /\ outcome' = outcome
    BY <1>1 DEF ClaimReplays, IInv, OutputKept
  <2>2. \A a \in answers' : a = <<fingerprint, outcome>>
    BY <1>3 DEF IInv, AnswersAgree
  <2> QED  BY <2>1, <2>2 DEF AnswersAgree
<1> QED
  BY <1>4, <1>5
  DEF ClaimReplays, Goto, IInv, TypeOK, Rows, OutputKept, Asking, Dispatched, AtMostOnce, CallIsRecorded

(* A request that ends, or only moves on to reconcile, changes nothing else. *)
LEMMA ClaimRefusedIInv ==
    ASSUME IInv, NEW t \in Tokens, ClaimRefused(t)
    PROVE  IInv'
  BY DEF ClaimRefused, Goto, IInv, TypeOK, Rows, OutputKept, Asking, Dispatched, AtMostOnce, CallIsRecorded,
         AnswersAgree

LEMMA EndsIInv ==
    ASSUME IInv, NEW t \in Tokens, Ends(t)
    PROVE  IInv'
  BY DEF Ends, Goto, IInv, TypeOK, Rows, OutputKept, Asking, Dispatched, AtMostOnce, CallIsRecorded,
         AnswersAgree

LEMMA BecomesUncertainIInv ==
    ASSUME IInv, NEW t \in Tokens, BecomesUncertain(t)
    PROVE  IInv'
  BY DEF BecomesUncertain, Goto, IInv, TypeOK, Rows, OutputKept, Asking, Dispatched, AtMostOnce,
         CallIsRecorded, AnswersAgree

(* Nobody is past its mark while the row is missing or merely claimed. *)
LEMMA ClaimInsertsIInv ==
    ASSUME IInv, NEW t \in Tokens, ClaimInserts(t)
    PROVE  IInv'
  BY ExecutionAssumption
  DEF ClaimInserts, Goto, IInv, TypeOK, Rows, OutputKept, Asking, Dispatched, AtMostOnce, CallIsRecorded,
      AnswersAgree

LEMMA ClaimTakesOverIInv ==
    ASSUME IInv, NEW t \in Tokens, ClaimTakesOver(t)
    PROVE  IInv'
  BY DEF ClaimTakesOver, Goto, IInv, TypeOK, Rows, OutputKept, Asking, Dispatched, AtMostOnce,
         CallIsRecorded, AnswersAgree

LEMMA ClaimQuarantinesIInv ==
    ASSUME IInv, NEW t \in Tokens, ClaimQuarantines(t)
    PROVE  IInv'
  BY DEF ClaimQuarantines, Goto, IInv, TypeOK, Rows, OutputKept, Asking, Dispatched, AtMostOnce,
         CallIsRecorded, AnswersAgree

LEMMA MarkDispatchingIInv ==
    ASSUME IInv, NEW t \in Tokens, MarkDispatching(t)
    PROVE  IInv'
  BY DEF MarkDispatching, Owns, Goto, IInv, TypeOK, Rows, OutputKept, Asking, Dispatched, AtMostOnce,
         CallIsRecorded, AnswersAgree

(* Past its mark a request is alone: the others would own the row too. *)
LEMMA ExecuteIInv ==
    ASSUME IInv, NEW t \in Tokens, Execute(t)
    PROVE  IInv'
  BY DEF Execute, Goto, IInv, TypeOK, Rows, OutputKept, Asking, Dispatched, AtMostOnce, CallIsRecorded,
         AnswersAgree

LEMMA ReturnsIInv ==
    ASSUME IInv, NEW t \in Tokens, NEW o \in Outcomes, Returns(t, o)
    PROVE  IInv'
  BY ExecutionAssumption
  DEF Returns, Goto, IInv, TypeOK, Rows, OutputKept, Asking, Dispatched, AtMostOnce, CallIsRecorded,
      AnswersAgree

LEMMA StoreOutputIInv ==
    ASSUME IInv, NEW t \in Tokens, StoreOutput(t)
    PROVE  IInv'
  BY ExecutionAssumption DEF StoreOutput, Goto, IInv, TypeOK, Rows, OutputKept, Asking, Dispatched, AtMostOnce, CallIsRecorded,
         AnswersAgree

LEMMA CompleteIInv ==
    ASSUME IInv, NEW t \in Tokens, Complete(t)
    PROVE  IInv'
<1>1. /\ fingerprint = asked[t] /\ owner = t /\ state \in Called
      /\ calls = 1 /\ result[t] \in Outcomes
      /\ result[t] \in WithOutput => exactOutput = result[t]
  BY DEF Complete, Owns, IInv, TypeOK, Dispatched, AtMostOnce
<1>2. fingerprint \in Fingerprints
  BY <1>1 DEF IInv, TypeOK, Rows
<1>3. answers = {}
  BY <1>1 DEF IInv, AnswersAgree
<1>4. answers' \subseteq {<<fingerprint, result[t]>>}
  BY <1>1, <1>3 DEF Complete
<1>5. TypeOK'
  BY <1>1, <1>2, <1>4 DEF Complete, Goto, IInv, TypeOK
<1>6. Rows' /\ AtMostOnce' /\ CallIsRecorded' /\ OutputKept'
  BY <1>1, ExecutionAssumption
  DEF Complete, IInv, TypeOK, Rows, OutputKept, AtMostOnce, CallIsRecorded
<1>7. AnswersAgree'
  BY <1>4, <1>6 DEF Complete, AnswersAgree
<1>8. \A u \in Tokens : Asking(u)'
  BY <1>1 DEF Complete, Goto, IInv, TypeOK, Asking
<1>9. \A u \in Tokens : pc'[u] \in PastMark => Dispatched(u)'
  BY <1>1 DEF Complete, Goto, IInv, TypeOK, Dispatched
<1> QED  BY <1>5, <1>6, <1>7, <1>8, <1>9 DEF IInv

LEMMA MarkReconciliationRequiredIInv ==
    ASSUME IInv, NEW t \in Tokens, MarkReconciliationRequired(t)
    PROVE  IInv'
  BY DEF MarkReconciliationRequired, Owns, Goto, IInv, TypeOK, Rows, OutputKept, Asking, Dispatched,
         AtMostOnce, CallIsRecorded, AnswersAgree

LEMMA StutterIInv ==
    ASSUME IInv, UNCHANGED vars
    PROVE  IInv'
  BY DEF vars, IInv, TypeOK, Rows, OutputKept, Asking, Dispatched, AtMostOnce, CallIsRecorded,
         AnswersAgree

LEMMA NextIInv ==
    ASSUME IInv, [Next]_vars
    PROVE  IInv'
<1>1. ASSUME NEW t \in Tokens, NEW f \in Fingerprints, Start(t, f)
      PROVE  IInv'
  BY <1>1, StartIInv
<1>2. ASSUME NEW t \in Tokens, Continues(t)
      PROVE  IInv'
  BY <1>2, ClaimReadsIInv, ClaimReplaysIInv, ClaimRefusedIInv, ClaimInsertsIInv,
     ClaimTakesOverIInv, ClaimQuarantinesIInv, MarkDispatchingIInv, ExecuteIInv, ReturnsIInv,
     BecomesUncertainIInv, StoreOutputIInv, CompleteIInv, MarkReconciliationRequiredIInv, EndsIInv
  DEF Continues
<1> QED  BY <1>1, <1>2, StutterIInv DEF Next

(* The strengthened invariant, with every type, holds in every behaviour of  *)
(* the claims: a request past its dispatch mark is the row's only owner.     *)
THEOREM Invariant == Spec => []IInv
  BY InitIInv, NextIInv, PTL DEF Spec

(* The provider is called at most once for a key (claim, markDispatching).   *)
THEOREM ProviderCalledAtMostOnce == Spec => []AtMostOnce
<1>1. IInv => AtMostOnce  BY DEF IInv
<1> QED  BY <1>1, Invariant, PTL

(* Every 200 answer is the recorded outcome of the key's request.            *)
THEOREM AnswersAgreeAlways == Spec => []AnswersAgree
<1>1. IInv => AnswersAgree  BY DEF IInv
<1> QED  BY <1>1, Invariant, PTL

(* Once the provider may have been called the row says so.                   *)
THEOREM CallIsAlwaysRecorded == Spec => []CallIsRecorded
<1>1. IInv => CallIsRecorded  BY DEF IInv
<1> QED  BY <1>1, Invariant, PTL
-----------------------------------------------------------------------------
(* No step changes a completed row: the owners' updates do not match it, and *)
(* the CHECK rejects the quarantine of a claim that saw it dispatching.      *)
LEMMA CompletedStep ==
    ASSUME IInv, [Next]_vars, state = "COMPLETED"
    PROVE  UNCHANGED row
<1>1. ASSUME NEW t \in Tokens, Continues(t)
      PROVE  UNCHANGED row
  <2>1. \A u \in Tokens : pc[u] \in PastMark => pc[u] = "reconcile"
    BY DEF IInv, Dispatched
  <2>2. ~RowAllowed("RECONCILIATION_REQUIRED", outcome)
    BY DEF IInv, Rows
  <2> QED
    BY <1>1, <2>1, <2>2
    DEF Continues, ClaimReads, ClaimReplays, ClaimRefused, ClaimInserts, ClaimTakesOver,
        ClaimQuarantines, MarkDispatching, Execute, Returns, BecomesUncertain, StoreOutput,
        Complete, MarkReconciliationRequired, Owns, Ends
<1>2. ASSUME NEW t \in Tokens, NEW f \in Fingerprints, Start(t, f)
      PROVE  UNCHANGED row
  BY <1>2 DEF Start
<1> QED  BY <1>1, <1>2 DEF Next, vars

(* A recorded outcome is never replaced nor set aside.                       *)
THEOREM CompletedIsAlwaysFinal == Spec => CompletedIsFinal
<1>1. IInv /\ [Next]_vars => [state = "COMPLETED" => UNCHANGED row]_vars
  BY CompletedStep
<1> QED  BY <1>1, Invariant, PTL DEF Spec, CompletedIsFinal
-----------------------------------------------------------------------------
(* The claims implement the promise: what each step means for the caller.    *)

LEMMA PromiseInit == Init => Promise!Init
  BY DEF Init, Promise!Init

LEMMA ReplayIsAnswer ==
    ASSUME IInv, NEW t \in Tokens, ClaimReplays(t)
    PROVE  Promise!Answer
  BY DEF IInv, Rows, ClaimReplays, Promise!Answer

LEMMA InsertIsBind ==
    ASSUME IInv, NEW t \in Tokens, ClaimInserts(t)
    PROVE  \E f \in Fingerprints : Promise!Bind(f)
<1>1. asked[t] \in Fingerprints
  BY DEF IInv, TypeOK, Asking, ClaimInserts
<1> QED  BY <1>1 DEF IInv, Rows, ClaimInserts, Promise!Bind

LEMMA ExecuteIsCall ==
    ASSUME IInv, NEW t \in Tokens, Execute(t)
    PROVE  Promise!Call
  BY DEF IInv, Rows, Dispatched, Execute, Promise!Call

LEMMA CompleteIsKeep ==
    ASSUME IInv, NEW t \in Tokens, Complete(t)
    PROVE  \E o \in Outcomes : Promise!Keep(o)
<1>1. result[t] \in Outcomes /\ calls = 1 /\ fingerprint = asked[t]
  BY DEF Complete, IInv, TypeOK, Dispatched, AtMostOnce
<1>2. outcome = "NONE"
  BY DEF Complete, Owns, IInv, Rows
<1> QED  BY <1>1, <1>2 DEF Complete, Promise!Keep

(* The other steps are invisible to the callers of the key. *)
LEMMA PromiseStep ==
    ASSUME IInv, [Next]_vars
    PROVE  [Promise!Next]_(Promise!promise)
<1>1. ASSUME NEW t \in Tokens, NEW f \in Fingerprints, Start(t, f)
      PROVE  UNCHANGED Promise!promise
  BY <1>1 DEF Start, Promise!promise
<1>2. ASSUME NEW t \in Tokens, Continues(t)
      PROVE  [Promise!Next]_(Promise!promise)
  <2>1. CASE ClaimReplays(t)  BY <2>1, ReplayIsAnswer DEF Promise!Next
  <2>2. CASE ClaimInserts(t)  BY <2>2, InsertIsBind DEF Promise!Next
  <2>3. CASE Execute(t)       BY <2>3, ExecuteIsCall DEF Promise!Next
  <2>4. CASE Complete(t)      BY <2>4, CompleteIsKeep DEF Promise!Next
  <2>5. CASE ClaimReads(t) \/ ClaimRefused(t) \/ ClaimTakesOver(t) \/ ClaimQuarantines(t)
             \/ MarkDispatching(t) \/ (\E o \in Outcomes : Returns(t, o)) \/ BecomesUncertain(t)
             \/ StoreOutput(t) \/ MarkReconciliationRequired(t) \/ Ends(t)
    BY <2>5
    DEF ClaimReads, ClaimRefused, ClaimTakesOver, ClaimQuarantines, MarkDispatching, Returns,
        BecomesUncertain, StoreOutput, MarkReconciliationRequired, Ends, Promise!promise
  <2> QED  BY <1>2, <2>1, <2>2, <2>3, <2>4, <2>5 DEF Continues
<1>3. CASE UNCHANGED vars
  BY <1>3 DEF vars, Promise!promise
<1> QED  BY <1>1, <1>2, <1>3 DEF Next

(* The key's claims implement the promise made for it: one request, one      *)
(* provider call, one outcome, and no other answer.                          *)
THEOREM ClaimsKeepThePromise == Spec => PromiseSpec
  BY PromiseInit, PromiseStep, Invariant, PTL DEF Spec, PromiseSpec, Promise!Spec
-----------------------------------------------------------------------------
(* The life of a claim. *)

(* A dispatch that a claim has seen is still one, or has been settled. *)
DispatchSeen == \A t \in Tokens : seen[t] = "DISPATCHING" => state \in Called \cup {"COMPLETED"}

Moves == {<<"NONE", "CLAIMED">>, <<"CLAIMED", "DISPATCHING">>,
          <<"DISPATCHING", "RECONCILIATION_REQUIRED">>, <<"DISPATCHING", "COMPLETED">>,
          <<"RECONCILIATION_REQUIRED", "COMPLETED">>}

(* What a step may do to the row. *)
GoesForward ==
    /\ state' # state => <<state, state'>> \in Moves
    /\ state # "NONE" => fingerprint' = fingerprint
    /\ owner' # owner => state \in {"NONE", "CLAIMED"} /\ calls = 0

LEMMA StepGoesForward ==
    ASSUME IInv, DispatchSeen, [Next]_vars
    PROVE  GoesForward
<1>1. ASSUME NEW t \in Tokens, NEW f \in Fingerprints, Start(t, f)
      PROVE  GoesForward
  BY <1>1 DEF Start, GoesForward
<1>2. ASSUME NEW t \in Tokens,
             \/ ClaimReads(t) \/ ClaimReplays(t) \/ ClaimRefused(t) \/ Execute(t)
             \/ (\E o \in Outcomes : Returns(t, o)) \/ BecomesUncertain(t) \/ StoreOutput(t) \/ Ends(t)
      PROVE  GoesForward
  BY <1>2
  DEF ClaimReads, ClaimReplays, ClaimRefused, Execute, Returns, BecomesUncertain, StoreOutput, Ends, GoesForward
<1>3. ASSUME NEW t \in Tokens, ClaimInserts(t) \/ ClaimTakesOver(t)
      PROVE  GoesForward
  <2>1. state \in {"NONE", "CLAIMED"} => calls = 0
    BY DEF IInv, TypeOK, CallIsRecorded
  <2> QED  BY <1>3, <2>1 DEF ClaimInserts, ClaimTakesOver, GoesForward, Moves
<1>4. ASSUME NEW t \in Tokens, ClaimQuarantines(t)
      PROVE  GoesForward
  <2>1. state \in Called \cup {"COMPLETED"}
    BY <1>4 DEF ClaimQuarantines, DispatchSeen
  <2>2. state = "COMPLETED" => ~RowAllowed("RECONCILIATION_REQUIRED", outcome)
    BY DEF IInv, Rows
  <2> QED  BY <1>4, <2>1, <2>2 DEF ClaimQuarantines, GoesForward, Moves
<1>5. ASSUME NEW t \in Tokens, MarkDispatching(t) \/ Complete(t) \/ MarkReconciliationRequired(t)
      PROVE  GoesForward
  BY <1>5 DEF MarkDispatching, Complete, MarkReconciliationRequired, Owns, GoesForward, Moves
<1>6. CASE UNCHANGED vars
  BY <1>6 DEF vars, GoesForward
<1> QED  BY <1>1, <1>2, <1>3, <1>4, <1>5, <1>6 DEF Next, Continues

LEMMA DispatchSeenStep ==
    ASSUME IInv, DispatchSeen, [Next]_vars
    PROVE  DispatchSeen'
<1>1. state' # state => <<state, state'>> \in Moves
  BY StepGoesForward DEF GoesForward
<1>2. state \in Called \cup {"COMPLETED"} => state' \in Called \cup {"COMPLETED"}
  BY <1>1 DEF Moves
<1>3. \A t \in Tokens : seen'[t] = "DISPATCHING" => seen[t] = "DISPATCHING" \/ state = "DISPATCHING"
  BY DEF Next, Continues, Start, ClaimReads, ClaimReplays, ClaimRefused, ClaimInserts, ClaimTakesOver,
         ClaimQuarantines, MarkDispatching, Execute, Returns, BecomesUncertain, StoreOutput, Complete,
         MarkReconciliationRequired, Ends, vars, IInv, TypeOK
<1> QED  BY <1>2, <1>3 DEF DispatchSeen

ClaimGoesForward == [][GoesForward]_vars

(* A claim only moves forward, stands for one request for good, and has its   *)
(* last owner once it is dispatched: a takeover or a quarantine decided on a  *)
(* read that is stale by now never sets a dispatch back, never sets aside a   *)
(* claim that was not dispatched, and never gives a called row a new owner    *)
(* (claim, markDispatching, complete, markReconciliationRequired).            *)
THEOREM ClaimsGoForward == Spec => ClaimGoesForward
<1>1. Init => DispatchSeen
  BY DEF Init, DispatchSeen
<1>2. IInv /\ DispatchSeen /\ [Next]_vars => [GoesForward]_vars
  BY StepGoesForward
<1> QED  BY <1>1, <1>2, Invariant, DispatchSeenStep, PTL DEF Spec, ClaimGoesForward
=============================================================================
