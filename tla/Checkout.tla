------------------------------ MODULE Checkout ------------------------------
(***************************************************************************)
(* Checkout initiation in MarkReg (services/markreg): concurrent requests  *)
(* open a checkout session for a confirmed order, at most one at a time,   *)
(* each session payable for a fixed time from its creation, each command   *)
(* remembered under its idempotency key.                                   *)
(*                                                                         *)
(* Granularity: a read outside a transaction and a SERIALIZABLE            *)
(* transaction are one step each.  A request may fail before any step.     *)
(* Each request reads the clock once; the clocks of two requests, or of    *)
(* one request and its transaction, are not assumed to agree.              *)
(***************************************************************************)
EXTENDS Naturals

CONSTANTS
    Workers,  \* concurrent request handlers
    Orders,
    Keys,     \* idempotency keys; a session is known by the key of its command
    Inputs,   \* what a command asks for, by its fingerprint
    OrderOf,  \* OrderOf[i]: the order input i asks a checkout for
    Times,    \* clock readings
    Ttl       \* how long a session is payable

ASSUME CheckoutAssumption ==
    /\ OrderOf \in [Inputs -> Orders]
    /\ Times \subseteq Nat
    /\ Ttl \in Nat \ {0}
    /\ "NONE" \notin Inputs

VARIABLES
    order,    \* orders.status, as far as checkout and what follows it go
    status,   \* checkout_sessions.status of the session created under a key, or "NONE"
    input,    \* checkout_commands.request_fingerprint of the key
    created,  \* checkout_sessions.created_at; expires_at is Ttl later
    pc,       \* pc[w]: what request w does next
    key,      \* key[w]: its idempotency key
    asked,    \* asked[w]: its input
    at,       \* at[w]: the time it has read
    answer    \* answer[w]: its answer, "NONE" until it is answered

sessions == <<status, input, created>>
request  == <<key, asked, at>>
vars     == <<order, sessions, pc, request, answer>>

OrderStatuses == {"PendingConfirmation", "Confirmed", "ReadyForMatter", "Cancelled"}
Steps == {"idle", "replay", "load", "check", "create", "resolve", "resolve_active"}
Answers == {"NONE", "OK", "IDEMPOTENCY_CONFLICT", "ORDER_NOT_ELIGIBLE",
            "ACTIVE_CHECKOUT_EXISTS", "PERSISTENCE_UNAVAILABLE"}

Init ==
    /\ order = [o \in Orders |-> "PendingConfirmation"]
    /\ status = [k \in Keys |-> "NONE"]
    /\ input = [k \in Keys |-> "NONE"]
    /\ created = [k \in Keys |-> 0]
    /\ pc = [w \in Workers |-> "idle"]
    /\ key \in [Workers -> Keys]
    /\ asked \in [Workers -> Inputs]
    /\ at \in [Workers -> Times]
    /\ answer = [w \in Workers |-> "NONE"]

Goto(w, step)  == pc' = [pc EXCEPT ![w] = step] /\ UNCHANGED answer
Finish(w, ans) == pc' = [pc EXCEPT ![w] = "idle"] /\ answer' = [answer EXCEPT ![w] = ans]
-----------------------------------------------------------------------------
Recorded(k)     == status[k] # "NONE"
Initiated(k)    == status[k] = "INITIATED"
OfAnyOrder(k, o) == Recorded(k)  \* mutant: the order is not looked at
SessionOf(k, o) == Recorded(k) /\ OrderOf[input[k]] = o
OrderAsked(w)   == OrderOf[asked[w]]

OverTooEarly(k, t) == created[k] + Ttl <= t + 1  \* mutant: off by one
Over(k, t)         == created[k] + Ttl <= t

(* findActiveCheckoutByOrder *)
Active(o, t) == \E k \in Keys : SessionOf(k, o) /\ Initiated(k) /\ ~Over(k, t)

AnyInput(w)  == TRUE  \* mutant: a key's first input is not compared
SameInput(w) == input[key[w]] = asked[w]

(* A recorded command answers its repetition, and refuses another input. *)
Replays(w) ==
    /\ Recorded(key[w])
    /\ Finish(w, IF SameInput(w) THEN "OK" ELSE "IDEMPOTENCY_CONFLICT")
    /\ UNCHANGED <<order, sessions, request>>
-----------------------------------------------------------------------------
(* createCheckout: the reads before its transaction. *)

Start(w, k, i) ==
    /\ pc[w] = "idle"
    /\ key' = [key EXCEPT ![w] = k]
    /\ asked' = [asked EXCEPT ![w] = i]
    /\ pc' = [pc EXCEPT ![w] = "replay"]
    /\ answer' = [answer EXCEPT ![w] = "NONE"]
    /\ UNCHANGED <<order, sessions, at>>

FindReplay(w) ==
    /\ pc[w] = "replay"
    /\ \/ Replays(w)
       \/ /\ ~Recorded(key[w])
          /\ Goto(w, "load")
          /\ UNCHANGED <<order, sessions, request>>

(* The order must be confirmed; product and price are taken to be active. *)
LoadOrder(w, t) ==
    /\ pc[w] = "load"
    /\ \/ /\ order[OrderAsked(w)] = "Confirmed"
          /\ at' = [at EXCEPT ![w] = t]
          /\ Goto(w, "check")
       \/ /\ order[OrderAsked(w)] # "Confirmed"
          /\ Finish(w, "ORDER_NOT_ELIGIBLE")
          /\ UNCHANGED at
    /\ UNCHANGED <<order, sessions, key, asked>>

CheckActive(w) ==
    /\ pc[w] = "check"
    /\ IF Active(OrderAsked(w), at[w]) THEN Finish(w, "ACTIVE_CHECKOUT_EXISTS") ELSE Goto(w, "create")
    /\ UNCHANGED <<order, sessions, request>>
-----------------------------------------------------------------------------
(* createCheckoutAtomically *)

(* The order's sessions that are over at the new one's creation expire with *)
(* it; one that is not keeps it out.                                        *)
CreateCheckout(w) ==
    /\ pc[w] = "create"
    /\ ~Recorded(key[w])
    /\ ~Active(OrderAsked(w), at[w])
    /\ status' = [k \in Keys |->
           IF k = key[w] THEN "INITIATED"
           ELSE IF SessionOf(k, OrderAsked(w)) /\ Over(k, at[w]) THEN "EXPIRED"
           ELSE status[k]]
    /\ input' = [input EXCEPT ![key[w]] = asked[w]]
    /\ created' = [created EXCEPT ![key[w]] = at[w]]
    /\ Finish(w, "OK")
    /\ UNCHANGED <<order, request>>

RefuseCheckout(w) ==
    /\ pc[w] = "create"
    /\ \/ Replays(w)
       \/ /\ ~Recorded(key[w])
          /\ Active(OrderAsked(w), at[w])
          /\ Finish(w, "ACTIVE_CHECKOUT_EXISTS")
          /\ UNCHANGED <<order, sessions, request>>

(* A unique index refuses the insertion: another transaction committed the  *)
(* key, or a session of the order, after this one's snapshot.               *)
UniqueViolation(w) ==
    /\ pc[w] = "create"
    /\ Recorded(key[w]) \/ \E k \in Keys : SessionOf(k, OrderAsked(w)) /\ Initiated(k)
    /\ Goto(w, "resolve")
    /\ UNCHANGED <<order, sessions, request>>

ResolveReplay(w) ==
    /\ pc[w] = "resolve"
    /\ \/ Replays(w)
       \/ /\ ~Recorded(key[w])
          /\ Goto(w, "resolve_active")
          /\ UNCHANGED <<order, sessions, request>>

ResolveActive(w) ==
    /\ pc[w] = "resolve_active"
    /\ Finish(w, IF Active(OrderAsked(w), at[w]) THEN "ACTIVE_CHECKOUT_EXISTS"
                 ELSE "PERSISTENCE_UNAVAILABLE")
    /\ UNCHANGED <<order, sessions, request>>

(* Any other database error, a refused product or price, or a crash. *)
Fails(w) ==
    /\ pc[w] # "idle"
    /\ Finish(w, "PERSISTENCE_UNAVAILABLE")
    /\ UNCHANGED <<order, sessions, request>>
-----------------------------------------------------------------------------
(* The order service confirms, readies or cancels the order meanwhile. *)
CanTransitionOrder(from, to) ==
    \/ from = "PendingConfirmation" /\ to \in {"Confirmed", "Cancelled"}
    \/ from = "Confirmed" /\ to \in {"ReadyForMatter", "Cancelled"}
    \/ from = "ReadyForMatter" /\ to = "Cancelled"

OrderMoves(o, to) ==
    /\ CanTransitionOrder(order[o], to)
    /\ order' = [order EXCEPT ![o] = to]
    /\ UNCHANGED <<sessions, pc, request, answer>>

RequestStep(w) ==
    \/ \E k \in Keys, i \in Inputs : Start(w, k, i)
    \/ FindReplay(w)
    \/ \E t \in Times : LoadOrder(w, t)
    \/ CheckActive(w)
    \/ CreateCheckout(w)
    \/ RefuseCheckout(w)
    \/ UniqueViolation(w)
    \/ ResolveReplay(w)
    \/ ResolveActive(w)
    \/ Fails(w)

Next ==
    \/ \E w \in Workers : RequestStep(w)
    \/ \E o \in Orders, to \in OrderStatuses : OrderMoves(o, to)

Spec == Init /\ [][Next]_vars
-----------------------------------------------------------------------------
(* Rows, requests and answers have the values their columns and types allow. *)
TypeOK ==
    /\ order \in [Orders -> OrderStatuses]
    /\ status \in [Keys -> {"NONE", "INITIATED", "EXPIRED"}]
    /\ input \in [Keys -> Inputs \cup {"NONE"}]
    /\ created \in [Keys -> Nat]
    /\ pc \in [Workers -> Steps]
    /\ key \in [Workers -> Keys]
    /\ asked \in [Workers -> Inputs]
    /\ at \in [Workers -> Times]
    /\ answer \in [Workers -> Answers]

Before(j, k)    == created[j] + Ttl <= created[k]
SameOrder(j, k) == Recorded(j) /\ Recorded(k) /\ OrderOf[input[j]] = OrderOf[input[k]]

(* The times in which two sessions of one order are payable never overlap,  *)
(* whatever the clocks of the requests that created them: at any clock      *)
(* reading a payer can use at most one of them (createCheckoutAtomically).  *)
ValidityDisjoint ==
    \A j, k \in Keys : SameOrder(j, k) /\ j # k => Before(j, k) \/ Before(k, j)

(* A request is answered with a session only if its own command is on       *)
(* record under its key, input included (findReplay, resolveReplay).        *)
OkIsRecorded ==
    \A w \in Workers : answer[w] = "OK" => Recorded(key[w]) /\ input[key[w]] = asked[w]

(* The open session of an order is its last one, and there is one as soon   *)
(* as there is any.                                                         *)
LastIsInitiated ==
    \A j \in Keys : Recorded(j) =>
        \E k \in Keys :
            /\ SameOrder(j, k) /\ Initiated(k)
            /\ j = k \/ (status[j] = "EXPIRED" /\ Before(j, k))

(* What createCheckout keeps inductively: a command on record has its input, *)
(* and the facts above.                                                      *)
IInv ==
    /\ TypeOK
    /\ \A k \in Keys : Recorded(k) <=> input[k] # "NONE"
    /\ LastIsInitiated
    /\ ValidityDisjoint
    /\ OkIsRecorded
=============================================================================
