--------------------------- MODULE CheckoutProofs ---------------------------
(***************************************************************************)
(* Proofs about Checkout, for any orders, commands, requests and clock     *)
(* readings.                                                               *)
(***************************************************************************)
EXTENDS Checkout, TLAPS

USE DEF sessions, request, Steps, Answers, OrderStatuses, Recorded, Initiated, Before

LEMMA InitIInv == Init => IInv
  BY CheckoutAssumption
  DEF Init, IInv, TypeOK, LastIsInitiated, ValidityDisjoint, SameOrder, OkIsRecorded

(* A step that leaves the sessions alone and answers OK only on record keeps *)
(* the invariant, whatever it does to the requests.                          *)
LEMMA SessionsKept ==
    ASSUME IInv, UNCHANGED sessions, TypeOK', OkIsRecorded'
    PROVE  IInv'
  BY DEF IInv, LastIsInitiated, ValidityDisjoint, SameOrder, Over, SessionOf

LEMMA ReplaysIInv ==
    ASSUME IInv, NEW w \in Workers, Replays(w)
    PROVE  IInv'
<1>1. TypeOK'
  BY DEF IInv, TypeOK, Replays, Finish
<1>2. OkIsRecorded'
  BY DEF IInv, TypeOK, Replays, Finish, SameInput, OkIsRecorded
<1> QED  BY <1>1, <1>2, SessionsKept DEF Replays

(* The requests' reads and refusals. *)
LEMMA ReadsIInv ==
    ASSUME IInv, NEW w \in Workers,
           \/ \E k \in Keys, i \in Inputs : Start(w, k, i)
           \/ FindReplay(w) \/ (\E t \in Times : LoadOrder(w, t)) \/ CheckActive(w)
           \/ RefuseCheckout(w) \/ UniqueViolation(w) \/ ResolveReplay(w) \/ ResolveActive(w)
           \/ Fails(w)
    PROVE  IInv'
<1>1. CASE Replays(w)  BY <1>1, ReplaysIInv
<1>2. CASE ~Replays(w)
  <2>1. UNCHANGED sessions
    BY <1>2
    DEF Start, FindReplay, LoadOrder, CheckActive, RefuseCheckout, UniqueViolation, ResolveReplay,
        ResolveActive, Fails
  <2>2. TypeOK'
    BY <1>2
    DEF IInv, TypeOK, Start, FindReplay, LoadOrder, CheckActive, RefuseCheckout, UniqueViolation,
        ResolveReplay, ResolveActive, Fails, Goto, Finish
  <2>3. \A u \in Workers : answer'[u] = "OK" => answer[u] = "OK" /\ key'[u] = key[u] /\ asked'[u] = asked[u]
    BY <1>2
    DEF IInv, TypeOK, Start, FindReplay, LoadOrder, CheckActive, RefuseCheckout, UniqueViolation,
        ResolveReplay, ResolveActive, Fails, Goto, Finish
  <2>4. OkIsRecorded'
    BY <2>1, <2>3 DEF IInv, OkIsRecorded
  <2> QED  BY <2>1, <2>2, <2>4, SessionsKept
<1> QED  BY <1>1, <1>2

(* Every session of the order is over when the new one is created. *)
LEMMA AllOver ==
    ASSUME IInv, NEW w \in Workers, CreateCheckout(w),
           NEW j \in Keys, SessionOf(j, OrderAsked(w))
    PROVE  Over(j, at[w])
<1>1. PICK k \in Keys : /\ SameOrder(j, k) /\ Initiated(k)
                        /\ j = k \/ created[j] + Ttl <= created[k]
  BY DEF IInv, LastIsInitiated, SessionOf
<1>2. Over(k, at[w])
  BY <1>1 DEF CreateCheckout, Active, SessionOf, SameOrder
<1>3. created[j] \in Nat /\ created[k] \in Nat /\ at[w] \in Nat /\ Ttl \in Nat
  BY CheckoutAssumption DEF IInv, TypeOK
<1> QED  BY <1>1, <1>2, <1>3 DEF Over

LEMMA CreateCheckoutIInv ==
    ASSUME IInv, NEW w \in Workers, CreateCheckout(w)
    PROVE  IInv'
<1> DEFINE n == key[w]
<1>1. /\ n \in Keys /\ asked[w] \in Inputs /\ at[w] \in Nat /\ Ttl \in Nat
      /\ "NONE" \notin Inputs
  BY CheckoutAssumption DEF IInv, TypeOK
<1>2. status[n] = "NONE" /\ input[n] = "NONE"
  BY <1>1 DEF IInv, CreateCheckout
<1>3. status'[n] = "INITIATED" /\ input'[n] = asked[w] /\ created'[n] = at[w]
  BY <1>1 DEF CreateCheckout, IInv, TypeOK
<1>4. \A j \in Keys \ {n} :
        /\ input'[j] = input[j] /\ created'[j] = created[j]
        /\ ~SessionOf(j, OrderAsked(w)) => status'[j] = status[j]
        /\ SessionOf(j, OrderAsked(w)) => status'[j] = "EXPIRED" /\ Over(j, at[w])
  BY AllOver DEF CreateCheckout, IInv, TypeOK
<1>5. \A j \in Keys \ {n} : Recorded(j)' <=> Recorded(j)
  BY <1>4 DEF SessionOf
<1>6. TypeOK'
  BY <1>1 DEF IInv, TypeOK, CreateCheckout, Finish
<1>7. \A k \in Keys : (Recorded(k) <=> input[k] # "NONE")'
  BY <1>1, <1>3, <1>4, <1>5 DEF IInv
<1>8. LastIsInitiated'
  <2> SUFFICES ASSUME NEW j \in Keys, Recorded(j)'
               PROVE  \E k \in Keys :
                        /\ SameOrder(j, k)' /\ Initiated(k)'
                        /\ j = k \/ (status'[j] = "EXPIRED" /\ created'[j] + Ttl <= created'[k])
    BY DEF LastIsInitiated
  <2>1. CASE j = n
    BY <2>1, <1>1, <1>3 DEF SameOrder
  <2>2. CASE j # n /\ SessionOf(j, OrderAsked(w))
    BY <2>2, <1>1, <1>3, <1>4 DEF SameOrder, SessionOf, OrderAsked, Over
  <2>3. CASE j # n /\ ~SessionOf(j, OrderAsked(w))
    <3>1. Recorded(j)
      BY <2>3, <1>5
    <3>2. PICK k \in Keys : /\ SameOrder(j, k) /\ Initiated(k)
                            /\ j = k \/ (status[j] = "EXPIRED" /\ created[j] + Ttl <= created[k])
      BY <3>1 DEF IInv, LastIsInitiated
    <3>3. k # n /\ ~SessionOf(k, OrderAsked(w))
      BY <2>3, <3>1, <3>2, <1>2 DEF SameOrder, SessionOf
    <3> QED  BY <2>3, <3>1, <3>2, <3>3, <1>4, <1>5 DEF SameOrder
  <2> QED  BY <2>1, <2>2, <2>3
<1>9. ValidityDisjoint'
  <2> SUFFICES ASSUME NEW j \in Keys, NEW k \in Keys, SameOrder(j, k)', j # k
               PROVE  created'[j] + Ttl <= created'[k] \/ created'[k] + Ttl <= created'[j]
    BY DEF ValidityDisjoint, Over
  <2>1. CASE j = n
    <3>1. SessionOf(k, OrderAsked(w))
      BY <2>1, <1>3, <1>4, <1>5 DEF SameOrder, SessionOf, OrderAsked
    <3> QED  BY <2>1, <3>1, <1>3, <1>4 DEF Over
  <2>2. CASE k = n
    <3>1. SessionOf(j, OrderAsked(w))
      BY <2>2, <1>3, <1>4, <1>5 DEF SameOrder, SessionOf, OrderAsked
    <3> QED  BY <2>2, <3>1, <1>3, <1>4 DEF Over
  <2>3. CASE j # n /\ k # n
    BY <2>3, <1>4, <1>5 DEF IInv, ValidityDisjoint, SameOrder, Over
  <2> QED  BY <2>1, <2>2, <2>3
<1>10. OkIsRecorded'
  <2> SUFFICES ASSUME NEW u \in Workers, answer'[u] = "OK"
               PROVE  status'[key[u]] # "NONE" /\ input'[key[u]] = asked[u]
    BY DEF OkIsRecorded, CreateCheckout
  <2>1. CASE u = w  BY <2>1, <1>3
  <2>2. CASE u # w
    <3>1. answer[u] = "OK"
      BY <2>2 DEF CreateCheckout, Finish, IInv, TypeOK
    <3>2. key[u] \in Keys \ {n} /\ Recorded(key[u]) /\ input[key[u]] = asked[u]
      BY <3>1, <1>2 DEF IInv, TypeOK, OkIsRecorded
    <3> QED  BY <3>2, <1>4, <1>5
  <2> QED  BY <2>1, <2>2
<1> QED  BY <1>6, <1>7, <1>8, <1>9, <1>10 DEF IInv

LEMMA OrderMovesIInv ==
    ASSUME IInv, NEW o \in Orders, NEW to \in OrderStatuses, OrderMoves(o, to)
    PROVE  IInv'
<1>1. TypeOK' /\ OkIsRecorded'
  BY DEF OrderMoves, IInv, TypeOK, OkIsRecorded
<1> QED  BY <1>1, SessionsKept DEF OrderMoves

LEMMA NextIInv ==
    ASSUME IInv, [Next]_vars
    PROVE  IInv'
<1>1. ASSUME NEW w \in Workers, RequestStep(w)
      PROVE  IInv'
  BY <1>1, ReadsIInv, CreateCheckoutIInv DEF RequestStep
<1>2. CASE UNCHANGED vars
  <2>1. TypeOK' /\ OkIsRecorded'
    BY <1>2 DEF vars, IInv, TypeOK, OkIsRecorded
  <2> QED  BY <1>2, <2>1, SessionsKept DEF vars
<1> QED  BY <1>1, <1>2, OrderMovesIInv DEF Next

(* The strengthened invariant, types included: the open session of an order  *)
(* is its last, and no earlier one is payable any more when it is created.   *)
THEOREM Invariant == Spec => []IInv
  BY InitIInv, NextIInv, PTL DEF Spec

(* Two sessions of one order are never payable at one time.                  *)
THEOREM SessionsNeverOverlap == Spec => []ValidityDisjoint
<1>1. IInv => ValidityDisjoint  BY DEF IInv
<1> QED  BY <1>1, Invariant, PTL

(* An OK answer is always backed by the command's own record.                *)
THEOREM AnswersAreRecorded == Spec => []OkIsRecorded
<1>1. IInv => OkIsRecorded  BY DEF IInv
<1> QED  BY <1>1, Invariant, PTL
-----------------------------------------------------------------------------
(* The open session of an order *)

OneInitiated ==
    \A j, k \in Keys : SameOrder(j, k) /\ Initiated(j) /\ Initiated(k) => j = k

(* What CreateCheckout does to the sessions: n, the new one, is open, every   *)
(* other of its order is over and recorded so, those of other orders stay.    *)
Opens(w, n) ==
    /\ ~Recorded(n) /\ Initiated(n)'
    /\ OrderOf[input'[n]] = OrderAsked(w) /\ created'[n] = at[w]
    /\ \A j \in Keys \ {n} :
         /\ input'[j] = input[j] /\ created'[j] = created[j]
         /\ ~SessionOf(j, OrderAsked(w)) => status'[j] = status[j]
         /\ SessionOf(j, OrderAsked(w)) => status'[j] = "EXPIRED" /\ Over(j, at[w])

LEMMA Creates ==
    ASSUME IInv, NEW w \in Workers, CreateCheckout(w)
    PROVE  \E n \in Keys : Opens(w, n)
<1>1. PICK n \in Keys : n = key[w]
  BY DEF IInv, TypeOK
<1>2. \A j \in Keys \ {n} :
        /\ input'[j] = input[j] /\ created'[j] = created[j]
        /\ ~SessionOf(j, OrderAsked(w)) => status'[j] = status[j]
        /\ SessionOf(j, OrderAsked(w)) => status'[j] = "EXPIRED" /\ Over(j, at[w])
  BY <1>1, AllOver DEF CreateCheckout, IInv, TypeOK
<1>3. ~Recorded(n) /\ Initiated(n)' /\ OrderOf[input'[n]] = OrderAsked(w) /\ created'[n] = at[w]
  BY <1>1 DEF CreateCheckout, IInv, TypeOK, OrderAsked
<1> QED  BY <1>2, <1>3 DEF Opens

LEMMA OnlyCreates ==
    ASSUME IInv, [Next]_vars, ~UNCHANGED sessions
    PROVE  \E w \in Workers : CreateCheckout(w)
  BY DEF Next, vars, RequestStep, OrderMoves, Start, FindReplay, LoadOrder, CheckActive,
         RefuseCheckout, UniqueViolation, ResolveReplay, ResolveActive, Fails, Replays

LEMMA OneInitiatedStep ==
    ASSUME IInv, OneInitiated, [Next]_vars
    PROVE  OneInitiated'
<1>1. CASE UNCHANGED sessions
  BY <1>1 DEF OneInitiated, SameOrder
<1>2. ASSUME NEW w \in Workers, CreateCheckout(w)
      PROVE  OneInitiated'
  <2> SUFFICES ASSUME NEW j \in Keys, NEW k \in Keys,
                      SameOrder(j, k)', Initiated(j)', Initiated(k)'
               PROVE  j = k
    BY DEF OneInitiated
  <2>1. PICK n \in Keys : Opens(w, n)
    BY <1>2, Creates
  <2>2. \A i \in Keys \ {n} : Initiated(i)' => Initiated(i) /\ ~SessionOf(i, OrderAsked(w))
    BY <2>1 DEF Opens
  <2>3. CASE j = n \/ k = n
    BY <2>1, <2>2, <2>3 DEF Opens, SameOrder, SessionOf
  <2>4. CASE j # n /\ k # n
    BY <2>1, <2>2, <2>4 DEF Opens, SameOrder, OneInitiated
  <2> QED  BY <2>3, <2>4
<1> QED  BY <1>1, <1>2, OnlyCreates

OpenIsLast ==
    \A j, k \in Keys :
        SameOrder(j, k) /\ Initiated(k) /\ j # k => status[j] = "EXPIRED" /\ Before(j, k)

(* The open session of an order is its only one, and every other session of   *)
(* the order was over when it was created: what the unique index              *)
(* checkout_sessions_active_order_idx demands follows from the guards of      *)
(* createCheckoutAtomically in a SERIALIZABLE transaction, without the index. *)
THEOREM OneOpenSession == Spec => []OpenIsLast
<1>1. Init => OneInitiated
  BY DEF Init, OneInitiated, SameOrder
<1>2. ASSUME IInv, OneInitiated
      PROVE  OpenIsLast
  <2> SUFFICES ASSUME NEW j \in Keys, NEW k \in Keys,
                      SameOrder(j, k), Initiated(k), j # k
               PROVE  status[j] = "EXPIRED" /\ Before(j, k)
    BY DEF OpenIsLast
  <2>1. PICK l \in Keys : /\ SameOrder(j, l) /\ Initiated(l)
                          /\ j = l \/ (status[j] = "EXPIRED" /\ Before(j, l))
    BY <1>2 DEF IInv, LastIsInitiated, SameOrder
  <2>2. l = k
    BY <1>2, <2>1 DEF OneInitiated, SameOrder
  <2> QED  BY <2>1, <2>2
<1> QED  BY <1>1, <1>2, Invariant, OneInitiatedStep, PTL DEF Spec

(* What a step leaves of session k. *)
SessionStands(k) ==
    /\ Recorded(k)' /\ input'[k] = input[k] /\ created'[k] = created[k]
    /\ status'[k] # status[k] =>
          /\ status[k] = "INITIATED" /\ status'[k] = "EXPIRED"
          /\ \E n \in Keys : ~Recorded(n) /\ (Initiated(n) /\ SameOrder(k, n) /\ Before(k, n))'

SessionsStand == [][\A k \in Keys : Recorded(k) => SessionStands(k)]_vars

(* A session on record keeps what it was asked for and when; the only thing   *)
(* that ends it is a later session of its order, once it is over, and one     *)
(* that has expired stays so (createCheckoutAtomically).                      *)
THEOREM SessionsAreKept == Spec => SessionsStand
<1>1. ASSUME IInv, [Next]_vars, NEW k \in Keys, Recorded(k)
      PROVE  SessionStands(k)
  <2>1. CASE UNCHANGED sessions
    BY <1>1, <2>1 DEF SessionStands
  <2>2. ASSUME NEW w \in Workers, CreateCheckout(w)
        PROVE  SessionStands(k)
    <3>1. PICK n \in Keys : Opens(w, n)
      BY <1>1, <2>2, Creates
    <3>2. CASE ~SessionOf(k, OrderAsked(w))
      BY <1>1, <3>1, <3>2 DEF Opens, SessionStands
    <3>3. CASE SessionOf(k, OrderAsked(w))
      <4>1. status'[k] = "EXPIRED" /\ input'[k] = input[k] /\ created'[k] = created[k]
        BY <1>1, <3>1, <3>3 DEF Opens
      <4>2. (SameOrder(k, n) /\ Before(k, n))'
        BY <1>1, <3>1, <3>3, <4>1 DEF Opens, SameOrder, SessionOf, Over
      <4>3. status[k] \in {"INITIATED", "EXPIRED"}
        BY <1>1 DEF IInv, TypeOK
      <4> QED  BY <1>1, <3>1, <4>1, <4>2, <4>3 DEF Opens, SessionStands
    <3> QED  BY <3>2, <3>3
  <2> QED  BY <1>1, <2>1, <2>2, OnlyCreates
<1>2. IInv /\ [Next]_vars => [\A k \in Keys : Recorded(k) => SessionStands(k)]_vars
  BY <1>1
<1> QED  BY <1>2, Invariant, PTL DEF Spec, SessionsStand
=============================================================================
