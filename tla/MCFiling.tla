------------------------------ MODULE MCFiling ------------------------------
(* An instance of FilingGovernance: a lock authorized, reviewed and released, *)
(* with requests that race, repeat or contradict those of the ordinary course. *)
EXTENDS FilingInvariant, TLC

CONSTANTS l1, v1, a1, a2, r1, r2, x1, k1, k2, k3, k4, k5, k6

Blank == [kind |-> "EVALUATE", key |-> NoId, target |-> NoId, lock |-> NoId, lockVersion |-> NoId,
          authorization |-> NoId, version |-> 0, executor |-> NoId]

Ask(k)        == [Blank EXCEPT !.kind = "CREATE_AUTHORIZATION", !.key = k, !.lock = l1, !.lockVersion = v1]
Review(k, a)  == [Blank EXCEPT !.kind = "CREATE_RELEASE", !.key = k, !.authorization = a, !.version = 2]
About(kind, id)     == [Blank EXCEPT !.kind = kind, !.target = id]
With(kind, k, id)   == [About(kind, id) EXCEPT !.key = k]

MCRequests ==
    { Ask(k1), Ask(k2), With("CONFIRM", k3, a1), About("WITHDRAW_AUTHORIZATION", a1),
      Review(k4, a1), Review(k5, a1),
      About("EVALUATE", r1), [About("ASSIGN", r1) EXCEPT !.executor = x1],
      With("DECIDE", k6, r1), With("DECIDE", k6, r2), About("WITHDRAW_RELEASE", r1),
      About("VALIDATE_DRAFT", r1) }

Symmetry == Permutations(Workers) \cup Permutations({k1, k2}) \cup Permutations({k4, k5})
=============================================================================
