----------------------------- MODULE MCPayment -----------------------------
(* Model-checking instances of Payment: small constants, their symmetry, and *)
(* later starting points for the liveness runs.                              *)
EXTENDS PaymentInvariant, FiniteSetsExt, TLC

CONSTANTS PaidAmount  \* the amount of every checkout in the instance

MCAmount == [c \in Checkouts |-> PaidAmount]

(* The total of counted units is the sum a loop over the rows adds up. *)
ASSUME TotalIsTheSum ==
    \A f \in [1..3 -> 0..3] : \A S \in SUBSET (1..3) :
        TotalOf(f, S) = MapThenSumSet(LAMBDA x : f[x], S)

Symmetry == Permutations(Workers) \cup Permutations(InitiationKeys)
            \cup Permutations(RefundKeys) \cup Permutations(Events)

(* The state after one undisturbed initiation of every checkout. *)
StoredInit ==
    /\ checkout = [c \in Checkouts |-> "INITIATED"]
    /\ payment = [c \in Checkouts |-> [status |-> "PENDING", version |-> 1, refunded |-> 0]]
    /\ initiation = InitiationKeys \X Checkouts
    /\ refund = [r \in Refunds |-> NoRefund]
    /\ receipt = [e \in Events |-> "NONE"]
    /\ observation = {}
    /\ intent = [c \in Checkouts |-> [status |-> "PENDING", created |-> "PENDING"]]
    /\ providerRefund = [r \in Refunds |-> NoProviderRefund]
    /\ event = [e \in Events |-> NoEvent]
    /\ job = [w \in Workers |-> Idle]

StoredFairSpec == StoredInit /\ [][Next]_vars /\ WebhookFairness
=============================================================================
