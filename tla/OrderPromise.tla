----------------------------- MODULE OrderPromise -----------------------------
(***************************************************************************)
(* What MarkReg promises of orders and their formal matters: one order for *)
(* a commercial source, prepared stage by stage until it is cancelled or   *)
(* has a matter, and linked once and for good to a matter that no other    *)
(* order has.                                                              *)
(***************************************************************************)
CONSTANTS Orders, Sources, Matters

VARIABLE book  \* book[o]: the status, source and matter of order o

NoEntry == [status |-> "NONE", source |-> "NONE", matter |-> "NONE"]

Init == book = [o \in Orders |-> NoEntry]

Open(o, s) ==
    /\ book[o] = NoEntry
    /\ \A p \in Orders : book[p].source # s
    /\ book' = [book EXCEPT ![o] = [status |-> "Draft", source |-> s, matter |-> "NONE"]]

Advance(o) ==
    \E step \in { <<"Draft", "PendingConfirmation">>,
                  <<"PendingConfirmation", "Confirmed">>,
                  <<"Confirmed", "ReadyForMatter">> } :
        /\ book[o].status = step[1]
        /\ book' = [book EXCEPT ![o].status = step[2]]

Cancel(o) ==
    /\ book[o].status \notin {"NONE", "Cancelled"}
    /\ book' = [book EXCEPT ![o].status = "Cancelled"]

Link(o, m) ==
    /\ book[o].status = "ReadyForMatter"
    /\ book[o].matter = "NONE"
    /\ \A p \in Orders : book[p].matter # m
    /\ book' = [book EXCEPT ![o].status = "MatterCreated", ![o].matter = m]

Next ==
    \E o \in Orders :
        \/ \E s \in Sources : Open(o, s)
        \/ Advance(o)
        \/ Cancel(o)
        \/ \E m \in Matters : Link(o, m)

Spec == Init /\ [][Next]_book
===============================================================================
